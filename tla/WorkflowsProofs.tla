-------------------------- MODULE WorkflowsProofs --------------------------
(***************************************************************************)
(* Theorems about Workflows for every number of imports, assets, tries and  *)
(* faults.  The attempts of a workflow agree with what the service knows of *)
(* it; the lock of an asset makes the looks at the catalog exclusive; and   *)
(* every asset an import came to is held by somebody until it is settled.   *)
(***************************************************************************)
EXTENDS Workflows, FiniteSetTheorems, TLAPS

Kids == Children \cup {Recall}

AttemptState ==
  [w : Workflows, n : Nat, pc : {"queued", "next", "gate", "copy", "spooling"},
   items : SUBSET Assets, asset : Assets \cup {{}}, bad : SUBSET Assets, live : BOOLEAN]

ParState ==
  [pc : {"start", "spool", "activity", "wait", "done", "cancelled", "failed"},
   todo : SUBSET Assets, cur : SUBSET Assets, left : SUBSET Assets,
   offset : Nat, listed : BOOLEAN, waits : SUBSET Children, batches : 0..2,
   failed : SUBSET Assets, joined : SUBSET Assets, safe : BOOLEAN, tries : 0..MaxTries]

KidState ==
  [pc : {"none", "running", "done", "failed"}, items : SUBSET Assets, tries : 0..MaxTries]

Busy == {"gate", "copy", "spooling"}

Typed ==
  /\ known \subseteq Assets /\ onSpool \subseteq Assets /\ onNAS \subseteq Assets
  /\ par \in [Parents -> ParState]
  /\ kid \in [Kids -> KidState]
  /\ faults \in 0..MaxFaults

AttTyped ==
  /\ att \subseteq AttemptState /\ IsFiniteSet(att)
  /\ \A x \in att : x.pc \in Busy => x.asset \in Assets
  /\ \A x \in att : x.pc \in {"gate", "copy"} => x.w \in Children
  /\ \A x \in att : x.pc = "spooling" => x.w \notin Children

\* lockAsset, over the attempts that are past it.
Exclusive ==
  \A x, y \in att : x.pc \in Busy /\ y.pc \in Busy /\ x.asset = y.asset => x = y

OneLive == \A x, y \in att : x.w = y.w /\ x.live /\ y.live => x = y

\* The service waits for the attempts it counts as live.
LiveOK ==
  \A x \in att : x.live =>
    IF x.w \in Parents THEN par[x.w].pc = "activity" ELSE kid[x.w].pc = "running"

Spooling == {"start", "spool", "activity"}

\* A workflow starts at most one batch for its card and one for the leftovers.
BatchOK(p) ==
  /\ par[p].pc \in Spooling => par[p].batches <= 1
  /\ par[p].pc = "start" => par[p].batches = 0
  /\ par[p].pc \in Spooling /\ par[p].batches # 0 => par[p].todo \cup par[p].cur \subseteq Big
  /\ par[p].pc = "activity" /\ ~(par[p].cur \subseteq Big) => par[p].todo = {}
  /\ par[p].pc \notin {"activity", "cancelled"} => par[p].cur = {}
  /\ \A q \in Parents, n \in 1..2 : Batch(q, n) \in par[p].waits => q = p /\ n <= par[p].batches
  /\ \A n \in 1..2 : n > par[p].batches => kid[Batch(p, n)].pc = "none"

KidOK ==
  /\ \A a \in Big : kid[Archive(a)].pc # "none" => kid[Archive(a)].items = {a}
  /\ \A p \in Parents : \A w \in par[p].waits : kid[w].pc # "none"

Inv == /\ Typed /\ AttTyped /\ Exclusive /\ OneLive /\ LiveOK
       /\ (\A p \in Parents : BatchOK(p)) /\ KidOK /\ CopiedOnce

\* Everything that is worked on has its row.
KnownOK ==
  /\ onSpool \cup onNAS \subseteq known
  /\ \A p \in Parents : par[p].todo \cup par[p].cur \cup par[p].left \subseteq known
  /\ \A w \in Kids : kid[w].items \subseteq known
  /\ \A x \in att : x.items \subseteq known /\ (x.pc \in Busy => x.asset \in known)

NoPaging == Cardinality(Assets) < Page

\* What a live attempt of an archive has no longer before it is on the NAS or
\* among the failures it will report.
ItemsOK ==
  \A x \in att : x.live /\ x.w \in Children =>
    kid[x.w].items \subseteq x.items \cup x.bad \cup onNAS \cup Unserved

Held(p, a) ==
  \/ a \in onNAS \cup par[p].failed \cup par[p].joined \cup Unserved
  \/ \E w \in par[p].waits : a \in kid[w].items

Covered(p) ==
  /\ par[p].pc \in Spooling => par[p].offset = 0 /\ par[p].left = {}
  /\ par[p].pc \in {"spool", "activity", "wait", "done"} =>
       \A a \in Refs(p) : Held(p, a) \/ a \in par[p].todo \cup par[p].cur
  /\ par[p].pc \in {"wait", "done"} =>
       par[p].todo = {} /\ (par[p].listed => \A a \in Earlier : Held(p, a))
  /\ par[p].pc = "done" =>
       par[p].waits = {} /\ (par[p].safe => Refs(p) \subseteq onNAS)

CoverOK == Earlier \subseteq known /\ ItemsOK /\ \A p \in Parents : Covered(p)

-----------------------------------------------------------------------------
(* Names, numbers and finite sets.                                         *)

\* The image of a finite set is finite.
LEMMA FiniteImage ==
  ASSUME NEW S, IsFiniteSet(S), NEW T, NEW g \in [S -> T],
         NEW R, \A y \in R : \E x \in S : g[x] = y
  PROVE  IsFiniteSet(R)
<1> DEFINE Q == {g[x] : x \in S}
<1>1. g \in [S -> Q]
  OBVIOUS
<1>2. \A y \in Q : \E x \in S : g[x] = y
  OBVIOUS
<1>3. R \subseteq Q
  OBVIOUS
<1> HIDE DEF Q
<1>4. g \in Surjection(S, Q)
  BY <1>1, <1>2, Zenon DEF Surjection
<1> QED BY <1>3, <1>4, FS_Surjection, FS_Subset

\* There is always a number that no attempt of w has.
LEMMA FreshType ==
  ASSUME NEW A, IsFiniteSet(A), NEW w
  PROVE  Fresh(w, A) \in Nat
<1> DEFINE N == 0..Cardinality(A)
<1>1. Cardinality(A) \in Nat
  BY FS_CardinalityType
<1>2. IsFiniteSet(N) /\ Cardinality(N) = Cardinality(A) + 1
  BY <1>1, FS_Interval
<1>3. \E n \in N : \A x \in A : x.w = w => x.n # n
  <2> SUFFICES ASSUME \A n \in N : \E x \in A : x.w = w /\ x.n = n PROVE FALSE
    OBVIOUS
  <2> DEFINE f == [n \in N |-> CHOOSE x \in A : x.w = w /\ x.n = n]
  <2>1. \A n \in N : f[n] \in A /\ f[n].n = n
    OBVIOUS
  <2>2. f \in [N -> A]
    BY <2>1
  <2>3. Cardinality(A) < Cardinality(N)
    BY <1>1, <1>2
  <2> HIDE DEF f, N
  <2>4. \E m, n \in N : m # n /\ f[m] = f[n]
    BY <1>2, <2>2, <2>3, FS_PigeonHole
  <2> QED BY <2>1, <2>4
<1>4. Fresh(w, A) \in N
  BY <1>3 DEF Fresh
<1> QED BY <1>1, <1>4

\* A new attempt at an activity is queued, live, and has its items before it.
LEMMA AttemptType ==
  ASSUME NEW A, IsFiniteSet(A), NEW w \in Workflows, NEW items \in SUBSET Assets
  PROVE  /\ Attempt(w, items, A) \in AttemptState
         /\ Attempt(w, items, A).w = w /\ Attempt(w, items, A).pc = "queued"
         /\ Attempt(w, items, A).items = items /\ Attempt(w, items, A).live = TRUE
<1>1. Fresh(w, A) \in Nat
  BY FreshType
<1> QED BY <1>1 DEF Attempt, AttemptState

\* Workflow IDs: who is a parent, a child and the spool-back (src/temporal/workflows.go:27-36).
LEMMA Names ==
  /\ Parents \subseteq Workflows /\ Kids \subseteq Workflows /\ Children \subseteq Kids
  /\ Workflows = Parents \cup Kids /\ Parents \cap Kids = {} /\ Recall \in Kids \ Children
  /\ \A a \in Big : Archive(a) \in Children
  /\ \A p \in Parents, n \in 1..2 : Batch(p, n) \in Children
  /\ \A w \in Children : \/ \E a \in Big : w = Archive(a)
                         \/ \E p \in Parents, n \in 1..2 : w = Batch(p, n)
  /\ \A p \in Parents : Refs(p) \subseteq Assets
  /\ Earlier \subseteq Assets
<1>1. Parents \cap Kids = {} /\ Recall \notin Children
  BY WorkflowsAssumption DEF Kids
<1>2. \A p \in Parents : Refs(p) \subseteq Assets
  BY DEF Refs, Assets, Parents
<1> QED BY <1>1, <1>2 DEF Kids, Workflows, Children, Assets

\* Archives and batches of different assets and parents have different IDs.
LEMMA NamesDiffer ==
  /\ \A a : Archive(a)[2] = a
  /\ \A a, p, n : Archive(a) # Batch(p, n)
  /\ \A p, q, m, n : Batch(p, m) = Batch(q, n) => p = q /\ m = n
BY DEF Archive, Batch

-----------------------------------------------------------------------------
(* How the set of attempts changes.                                        *)

Forgotten(x) == [x EXCEPT !.live = FALSE]

\* An attempt the service gave up on goes on as it was.
LEMMA ForgottenType ==
  ASSUME NEW x \in AttemptState
  PROVE  /\ Forgotten(x) \in AttemptState /\ Forgotten(x).w = x.w /\ Forgotten(x).pc = x.pc
         /\ Forgotten(x).asset = x.asset /\ ~Forgotten(x).live
BY DEF Forgotten, AttemptState

\* Giving attempts up leaves finitely many.
LEMMA FiniteForgotten ==
  ASSUME NEW A, IsFiniteSet(A), NEW S, \A y \in S : \E x \in A : y = Forgotten(x)
  PROVE  IsFiniteSet(S)
<1> DEFINE T == {Forgotten(x) : x \in A}
<1> DEFINE g == [x \in A |-> Forgotten(x)]
<1>1. g \in [A -> T] /\ \A x \in A : g[x] = Forgotten(x)
  OBVIOUS
<1> HIDE DEF g, T
<1>2. \A y \in S : \E x \in A : g[x] = y
  BY <1>1
<1> QED BY <1>1, <1>2, FiniteImage

\* Of the attempts, those of D are forgotten, others may go, those of N are new.
LEMMA AttemptsChange ==
  ASSUME Inv, NEW D, NEW N,
         \A y \in att' : \/ y \in N
                         \/ y \in att /\ y \notin D
                         \/ \E x \in att : x \in D /\ y = Forgotten(x),
         N \subseteq AttemptState, IsFiniteSet(N),
         \A y \in N : y.pc = "queued",
         \A y, z \in N : y.w = z.w => y = z,
         \A y \in N : \A x \in att : x.live /\ x.w = y.w /\ x \in att' => x \in D,
         UNCHANGED <<onNAS, onSpool>>
  PROVE  /\ AttTyped' /\ Exclusive' /\ OneLive' /\ CopiedOnce'
         /\ \A y \in att' : y.live => y \in att \ D \/ y \in N
<1>1. att \subseteq AttemptState /\ IsFiniteSet(att)
  BY DEF Inv, AttTyped
<1>2. ASSUME NEW x \in att
      PROVE  /\ Forgotten(x) \in AttemptState /\ Forgotten(x).w = x.w /\ Forgotten(x).pc = x.pc
             /\ Forgotten(x).asset = x.asset /\ ~Forgotten(x).live
  BY <1>1, ForgottenType
<1>3. \A y \in att' : y \in N \/ \E x \in att :
        /\ y = IF x \in D THEN Forgotten(x) ELSE x
        /\ y \in AttemptState /\ y.w = x.w /\ y.pc = x.pc /\ y.asset = x.asset
        /\ y.live => y = x /\ x \notin D
  BY <1>1, <1>2
<1>4. IsFiniteSet(att')
  <2> DEFINE F == {y \in att' : \E x \in att : y = Forgotten(x)}
  <2>1. att' \subseteq (att \cup F) \cup N
    OBVIOUS
  <2>2. \A y \in F : \E x \in att : y = Forgotten(x)
    OBVIOUS
  <2> HIDE DEF F
  <2>3. IsFiniteSet(F)
    BY <1>1, <2>2, FiniteForgotten
  <2> QED BY <1>1, <2>1, <2>3, FS_Union, FS_Subset
<1>5. AttTyped'
  <2>1. att' \subseteq AttemptState
    BY <1>3
  <2>2. \A y \in att' : y.pc \in Busy => y.asset \in Assets
    BY <1>3 DEF Inv, AttTyped, Busy
  <2>3. \A y \in att' : y.pc \in {"gate", "copy"} => y.w \in Children
    BY <1>3 DEF Inv, AttTyped
  <2>4. \A y \in att' : y.pc = "spooling" => y.w \notin Children
    BY <1>3 DEF Inv, AttTyped
  <2> QED BY <1>4, <2>1, <2>2, <2>3, <2>4 DEF AttTyped
<1>6. Exclusive'
  <2> SUFFICES ASSUME NEW y \in att', NEW z \in att', y.pc \in Busy, z.pc \in Busy,
                      y.asset = z.asset
               PROVE  y = z
    BY DEF Exclusive
  <2>1. y \notin N /\ z \notin N
    BY DEF Busy
  <2>2. PICK u \in att : /\ y = IF u \in D THEN Forgotten(u) ELSE u
                         /\ y.pc = u.pc /\ y.asset = u.asset
    BY <1>3, <2>1
  <2>3. PICK v \in att : /\ z = IF v \in D THEN Forgotten(v) ELSE v
                         /\ z.pc = v.pc /\ z.asset = v.asset
    BY <1>3, <2>1
  <2>4. u = v
    BY <2>2, <2>3 DEF Inv, Exclusive
  <2> QED BY <2>2, <2>3, <2>4
<1>7. \A y \in att' : y.live => y \in att \ D \/ y \in N
  BY <1>3
<1>8. OneLive'
  BY <1>7 DEF Inv, OneLive
<1>9. CopiedOnce'
  BY <1>3 DEF Inv, CopiedOnce
<1> QED BY <1>5, <1>6, <1>7, <1>8, <1>9

\* One attempt more, of a workflow that has none.
LEMMA OneMore ==
  ASSUME Inv, NEW w \in Workflows, NEW items \in SUBSET Assets,
         att' = att \cup {Attempt(w, items, att)},
         \A x \in att : ~(x.live /\ x.w = w),
         UNCHANGED <<onNAS, onSpool>>
  PROVE  /\ AttTyped' /\ Exclusive' /\ OneLive' /\ CopiedOnce'
         /\ \A y \in att' : y \in att \/ (y.w = w /\ y.items = items /\ y.pc = "queued")
<1> DEFINE N == {Attempt(w, items, att)}
<1>1. IsFiniteSet(att) /\ IsFiniteSet(N)
  BY FS_Singleton DEF Inv, AttTyped
<1>2. /\ Attempt(w, items, att) \in AttemptState
      /\ Attempt(w, items, att).w = w /\ Attempt(w, items, att).pc = "queued"
      /\ Attempt(w, items, att).items = items /\ Attempt(w, items, att).live = TRUE
  BY <1>1, AttemptType, Zenon
<1>3. /\ N \subseteq AttemptState
      /\ \A y \in N : y.pc = "queued" /\ y.w = w /\ y.items = items
      /\ \A y, z \in N : y = z
      /\ \A y \in att' : y \in N \/ (y \in att /\ y \notin {})
  BY <1>2
<1> HIDE DEF N
<1>4. AttTyped' /\ Exclusive' /\ OneLive' /\ CopiedOnce'
  BY <1>1, <1>3, AttemptsChange
<1> QED BY <1>3, <1>4

\* x becomes y, with the lock it had or one that nobody has.
LEMMA AttemptSteps ==
  ASSUME Inv, NEW x \in att, NEW y \in AttemptState, Step(x, y),
         y.w = x.w, y.live = x.live,
         y.pc \in Busy => y.asset \in Assets
                          /\ ((x.pc \in Busy /\ y.asset = x.asset) \/ ~Locked(y.asset)),
         y.pc \in {"gate", "copy"} => x.w \in Children,
         y.pc = "spooling" => x.w \notin Children
  PROVE  AttTyped' /\ Exclusive' /\ OneLive'
<1>1. att' = (att \ {x}) \cup {y} /\ att \subseteq AttemptState /\ IsFiniteSet(att)
  BY DEF Step, Inv, AttTyped
<1>2. AttTyped'
  <2>1. IsFiniteSet(att')
    BY <1>1, FS_RemoveElement, FS_AddElement
  <2> QED BY <1>1, <2>1 DEF Inv, AttTyped
<1>3. Exclusive'
  <2>1. ASSUME NEW z \in att, z # x, z.pc \in Busy, y.pc \in Busy PROVE z.asset # y.asset
    BY <2>1 DEF Inv, Exclusive, Locked
  <2> QED BY <1>1, <2>1 DEF Inv, Exclusive
<1>4. OneLive'
  BY <1>1 DEF Inv, OneLive
<1> QED BY <1>2, <1>3, <1>4

-----------------------------------------------------------------------------
(* Starting archives.                                                      *)

\* What the conjuncts of BatchOK other than those about pc, todo and cur rest on.
LEMMA BatchStays ==
  ASSUME NEW p \in Parents, BatchOK(p),
         par'[p].pc = par[p].pc, par'[p].todo = par[p].todo, par'[p].cur = par[p].cur,
         par'[p].batches = par[p].batches, par'[p].waits \subseteq par[p].waits,
         \A n \in 1..2 : kid[Batch(p, n)].pc = "none" => kid'[Batch(p, n)].pc = "none"
  PROVE  BatchOK(p)'
<1>1. \A q \in Parents, n \in 1..2 :
        Batch(q, n) \in par'[p].waits => q = p /\ n <= par'[p].batches
  BY DEF BatchOK
<1>2. \A n \in 1..2 : n > par'[p].batches => kid'[Batch(p, n)].pc = "none"
  BY DEF BatchOK
<1> QED BY <1>1, <1>2 DEF BatchOK

\* Where a handoff leaves things: W are the archives it starts.
Handed(p, run, assets, batched, W, q) ==
  /\ par' = [par EXCEPT ![p] = q] /\ q \in ParState
  /\ q.pc = run.pc /\ q.todo = run.todo /\ q.cur = run.cur /\ q.left = run.left /\ q.listed = run.listed
  /\ q.offset = run.offset /\ q.failed = run.failed /\ q.safe = run.safe
  /\ run.joined \subseteq q.joined /\ q.waits = run.waits \cup W
  /\ W \subseteq Children /\ IsFiniteSet(W)
  /\ kid' \in [Kids -> KidState]
  /\ \A w \in Kids \ W : kid'[w] = kid[w]
  /\ \A w \in W : kid[w].pc # "running" /\ kid'[w].pc = "running"
  /\ \A a \in Big : Archive(a) \in W => kid'[Archive(a)].items = {a}
  /\ \A w \in W : kid'[w].items \subseteq assets
  /\ \A r \in Parents, n \in 1..2 :
       Batch(r, n) \in W => r = p /\ kid[Batch(r, n)].pc = "none" /\ n <= q.batches
  /\ run.batches = par[p].batches /\ run.batches <= q.batches
  /\ q.batches # run.batches => batched /\ ~(assets \subseteq Big) /\ q.batches = run.batches + 1
  /\ \A a \in assets : batched \/ a \in Big =>
       a \in q.joined \/ \E w \in q.waits : a \in kid'[w].items
  /\ \A y \in att' : \/ y \in att /\ ~(y.w = p /\ y.live)
                     \/ /\ y.w \in W /\ y \in AttemptState /\ y.pc = "queued"
                        /\ y.items = kid'[y.w].items
                        /\ y = Attempt(y.w, kid'[y.w].items, att)

\* startArchive and startArchiveBatch: each asset handed over starts a child or joins one.
LEMMA HandoffDoes ==
  ASSUME Inv, NEW p \in Parents, NEW run \in ParState, NEW assets \in SUBSET Assets,
         NEW batched \in BOOLEAN, Handoff(p, run, assets, batched),
         run.waits = par[p].waits, run.batches = par[p].batches,
         batched /\ ~(assets \subseteq Big) => run.batches <= 1
  PROVE  \E W, q : Handed(p, run, assets, batched, W, q)
<1> DEFINE big == assets \cap Big
           small == assets \ Big
           owned == {a \in big : Owned(a) /\ Archive(a) \notin run.waits}
           new == {Archive(a) : a \in {b \in big : ~Owned(b)}}
           batch == IF batched /\ small # {} THEN {Batch(p, run.batches + 1)} ELSE {}
           W == new \cup batch
           b == Cardinality(batch)
           q == [run EXCEPT !.waits = @ \cup new \cup batch, !.joined = @ \cup owned,
                            !.batches = @ + b]
<1>1. /\ par' = [par EXCEPT ![p] = q]
      /\ kid' = [w \in DOMAIN kid |->
                   IF w \in W
                   THEN [pc |-> "running",
                         items |-> IF w \in batch THEN small ELSE {w[2]}, tries |-> 1]
                   ELSE kid[w]]
      /\ att' = {x \in att : ~(x.w = p /\ x.live)}
                \cup {Attempt(w, IF w \in batch THEN small ELSE {w[2]}, att) : w \in W}
  BY DEF Handoff
<1>2. /\ run.batches \in Nat /\ run.batches <= 2
      /\ run.waits \subseteq Children /\ run.joined \subseteq Assets
  BY DEF ParState
<1>3. /\ batch \subseteq Children /\ b \in Nat /\ run.batches + b \in 0..2
      /\ b # 0 => b = 1 /\ batched /\ ~(assets \subseteq Big) /\ batch = {Batch(p, run.batches + 1)}
      /\ b = 0 => batch = {} /\ (batched => assets \subseteq Big)
  <2>1. CASE batched /\ small # {}
    <3>1. batch = {Batch(p, run.batches + 1)} /\ b = 1
      BY <2>1, FS_Singleton
    <3>2. run.batches <= 1 /\ run.batches + 1 \in 1..2
      BY <1>2, <2>1
    <3> QED BY <1>2, <2>1, <3>1, <3>2, Names
  <2>2. CASE ~(batched /\ small # {})
    <3>1. batch = {} /\ b = 0
      BY <2>2, FS_EmptySet
    <3> QED BY <1>2, <2>2, <3>1
  <2> QED BY <2>1, <2>2
<1>4. /\ W \subseteq Children
      /\ \A a \in Big : Archive(a) \in W <=> a \in big /\ ~Owned(a)
      /\ \A a \in Big : Archive(a) \notin batch
      /\ \A w \in W : w \in batch \/ \E a \in big : w = Archive(a) /\ ~Owned(a)
  <2>1. new \subseteq Children
    BY Names
  <2> QED BY <1>3, <2>1, NamesDiffer
<1> HIDE DEF b
<1>5. /\ q \in ParState
      /\ q.pc = run.pc /\ q.todo = run.todo /\ q.cur = run.cur /\ q.left = run.left /\ q.listed = run.listed
      /\ q.offset = run.offset /\ q.failed = run.failed /\ q.safe = run.safe
      /\ q.joined = run.joined \cup owned /\ q.waits = run.waits \cup W
      /\ q.batches = run.batches + b
  <2>1. run.waits \cup new \cup batch \in SUBSET Children /\ run.joined \cup owned \in SUBSET Assets
    BY <1>2, <1>3, <1>4
  <2> HIDE DEF new, batch, owned
  <2> QED BY <1>3, <2>1 DEF ParState
<1> DEFINE items(w) == IF w \in batch THEN small ELSE {w[2]}
<1>6. \A w \in W : items(w) \subseteq assets /\ items(w) \subseteq Assets
  BY <1>4, NamesDiffer
<1>7. DOMAIN kid = Kids /\ kid \in [Kids -> KidState]
  BY DEF Inv, Typed
<1>8. \A w \in W : kid'[w].pc = "running" /\ kid'[w].items = items(w) /\ kid'[w] \in KidState
  <2>1. \A w \in W : kid'[w] = [pc |-> "running", items |-> items(w), tries |-> 1]
    BY <1>1, <1>4, <1>7, Names
  <2>2. 1 \in 0..MaxTries
    BY WorkflowsAssumption
  <2>3. ASSUME NEW w \in W
        PROVE  kid'[w].pc = "running" /\ kid'[w].items = items(w) /\ kid'[w] \in KidState
    <3>1. PICK s \in SUBSET Assets : s = items(w)
      BY <1>6, <2>3
    <3>2. kid'[w] = [pc |-> "running", items |-> s, tries |-> 1]
      BY <2>1, <2>3, <3>1
    <3> HIDE DEF items, W
    <3>3. kid'[w].pc = "running" /\ kid'[w].items = s
      BY <3>2
    <3>4. kid'[w] \in KidState
      BY <2>2, <3>2 DEF KidState
    <3> QED BY <3>1, <3>3, <3>4
  <2> HIDE DEF items, W
  <2> QED BY <2>3
<1>9. kid' \in [Kids -> KidState] /\ \A w \in Kids \ W : kid'[w] = kid[w]
  <2>1. \A w \in Kids \ W : kid'[w] = kid[w]
    BY <1>1, <1>7
  <2>2. kid' = [w \in Kids |-> kid'[w]]
    BY <1>1, <1>7
  <2> HIDE DEF W
  <2>3. \A w \in Kids : kid'[w] \in KidState
    BY <1>7, <1>8, <2>1
  <2> QED BY <2>1, <2>2, <2>3
<1>10. \A w \in W : kid[w].pc # "running"
  <2>1. ASSUME NEW w \in batch PROVE kid[w].pc = "none"
    <3>1. w = Batch(p, run.batches + 1) /\ run.batches + 1 \in 1..2
      BY <1>2, <1>3, <2>1
    <3> QED BY <1>2, <3>1 DEF Inv, BatchOK
  <2> QED BY <1>4, <2>1 DEF Owned
<1>11. \A a \in Big : Archive(a) \in W => kid'[Archive(a)].items = {a}
  BY <1>4, <1>8, NamesDiffer
<1>12. \A r \in Parents, n \in 1..2 :
         Batch(r, n) \in W => r = p /\ kid[Batch(r, n)].pc = "none" /\ n <= q.batches
  <2> SUFFICES ASSUME NEW r \in Parents, NEW n \in 1..2, Batch(r, n) \in W
               PROVE  r = p /\ kid[Batch(r, n)].pc = "none" /\ n <= q.batches
    OBVIOUS
  <2>1. Batch(r, n) \in batch /\ b = 1
    BY <1>3, <1>4, NamesDiffer
  <2>2. r = p /\ n = run.batches + 1
    BY <1>3, <2>1, NamesDiffer
  <2>3. n > par[p].batches
    BY <1>2, <2>2
  <2> HIDE DEF q
  <2> QED BY <1>2, <1>5, <2>1, <2>2, <2>3 DEF Inv, BatchOK
<1>13. ASSUME NEW a \in assets, batched \/ a \in Big
       PROVE  a \in q.joined \/ \E w \in q.waits : a \in kid'[w].items
  <2>1. CASE a \notin Big
    <3>1. batch = {Batch(p, run.batches + 1)}
      BY <1>3, <1>13, <2>1
    <3>2. Batch(p, run.batches + 1) \in W
      BY <3>1
    <3>3. kid'[Batch(p, run.batches + 1)].items = small
      BY <1>8, <3>1, <3>2
    <3> QED BY <1>5, <2>1, <3>2, <3>3
  <2>2. CASE a \in Big /\ ~Owned(a)
    <3>1. Archive(a) \in W
      BY <1>4, <2>2
    <3> QED BY <1>5, <1>11, <2>2, <3>1
  <2>3. CASE a \in Big /\ Owned(a)
    <3>1. CASE Archive(a) \in run.waits
      <4>1. Archive(a) \notin W /\ Archive(a) \in Kids
        BY <1>4, <2>3, Names
      <4>2. kid'[Archive(a)].items = {a}
        BY <1>9, <2>3, <4>1 DEF Inv, KidOK, Owned
      <4> QED BY <1>5, <3>1, <4>2
    <3>2. CASE Archive(a) \notin run.waits
      BY <1>5, <2>3, <3>2
    <3> QED BY <3>1, <3>2
  <2> QED BY <2>1, <2>2, <2>3
<1>14. \A y \in att' : \/ y \in att /\ ~(y.w = p /\ y.live)
                       \/ /\ y.w \in W /\ y \in AttemptState /\ y.pc = "queued"
                          /\ y.items = kid'[y.w].items
                          /\ y = Attempt(y.w, kid'[y.w].items, att)
  <2> SUFFICES ASSUME NEW y \in att', ~(y \in att /\ ~(y.w = p /\ y.live))
               PROVE  /\ y.w \in W /\ y \in AttemptState /\ y.pc = "queued"
                      /\ y.items = kid'[y.w].items
                      /\ y = Attempt(y.w, kid'[y.w].items, att)
    OBVIOUS
  <2>1. PICK w \in W : y = Attempt(w, items(w), att)
    BY <1>1
  <2>2. w \in Workflows /\ items(w) \in SUBSET Assets /\ IsFiniteSet(att)
    BY <1>4, <1>6, Names DEF Inv, AttTyped
  <2> HIDE DEF W, items
  <2>3. /\ y \in AttemptState /\ y.w = w /\ y.pc = "queued" /\ y.items = items(w)
    BY ONLY <2>1, <2>2, AttemptType
  <2> QED BY <1>8, <2>1, <2>3
<1>15. /\ run.batches <= q.batches
       /\ q.batches # run.batches => batched /\ ~(assets \subseteq Big) /\ q.batches = run.batches + 1
  BY <1>2, <1>3, <1>5
<1>16. IsFiniteSet(W)
  <2>1. IsFiniteSet(big)
    BY WorkflowsAssumption, FS_Subset
  <2> DEFINE g == [a \in big |-> Archive(a)]
             T == {Archive(a) : a \in big}
  <2>2. g \in [big -> T] /\ \A y \in new : \E a \in big : g[a] = y
    OBVIOUS
  <2>3. new \cup batch \subseteq new \cup {Batch(p, run.batches + 1)}
    OBVIOUS
  <2>4. IsFiniteSet({Batch(p, run.batches + 1)})
    BY FS_Singleton
  <2> HIDE DEF g, T, big, new, batch
  <2>5. IsFiniteSet(new)
    BY <2>1, <2>2, FiniteImage
  <2> QED BY <2>3, <2>4, <2>5, FS_Union, FS_Subset
<1> HIDE DEF W, q
<1>17. \A w \in W : kid'[w].items \subseteq assets
  <2> HIDE DEF items
  <2> QED BY <1>6, <1>8
<1>18. Handed(p, run, assets, batched, W, q)
  BY <1>1, <1>4, <1>5, <1>8, <1>9, <1>10, <1>11, <1>12, <1>13, <1>14, <1>15, <1>16, <1>17
     DEF Handed
<1> QED BY <1>18

\* A handoff out of the spooling, or at its end, keeps the invariant.
LEMMA HandedKeeps ==
  ASSUME Inv, NEW p \in Parents, NEW run, NEW assets \in SUBSET Assets,
         NEW batched \in BOOLEAN, NEW W, NEW q, Handed(p, run, assets, batched, W, q),
         run.waits = par[p].waits, run.cur = {}, run.pc \in {"spool", "wait"},
         run.pc = "spool" => q.batches <= 1 /\ (q.batches # 0 => run.todo \subseteq Big),
         UNCHANGED <<known, onSpool, onNAS, faults>>
  PROVE  Inv'
<1>1. /\ par' = [par EXCEPT ![p] = q] /\ q \in ParState
      /\ q.pc = run.pc /\ q.todo = run.todo /\ q.cur = {} /\ q.waits = par[p].waits \cup W
      /\ W \subseteq Children /\ IsFiniteSet(W)
      /\ kid' \in [Kids -> KidState]
      /\ \A w \in Kids \ W : kid'[w] = kid[w]
      /\ \A w \in W : kid[w].pc # "running" /\ kid'[w].pc = "running"
      /\ \A a \in Big : Archive(a) \in W => kid'[Archive(a)].items = {a}
      /\ \A r \in Parents, n \in 1..2 :
           Batch(r, n) \in W => r = p /\ kid[Batch(r, n)].pc = "none" /\ n <= q.batches
      /\ par[p].batches <= q.batches
  BY DEF Handed
<1>2. /\ par' \in [Parents -> ParState] /\ par'[p] = q
      /\ \A r \in Parents : r # p => par'[r] = par[r]
  BY <1>1 DEF Inv, Typed
<1>3. Typed'
  BY <1>1, <1>2 DEF Inv, Typed
<1> DEFINE D == {x \in att : x.w = p /\ x.live}
           N == {y \in att' : /\ y.w \in W /\ y \in AttemptState /\ y.pc = "queued"
                              /\ y = Attempt(y.w, kid'[y.w].items, att)}
<1>4. \A y \in att' : y \in N \/ (y \in att /\ y \notin D)
  BY DEF Handed
<1>5. IsFiniteSet(N)
  <2> DEFINE T == {Attempt(w, kid'[w].items, att) : w \in W}
             g == [w \in W |-> Attempt(w, kid'[w].items, att)]
  <2>1. g \in [W -> T] /\ \A y \in N : \E w \in W : g[w] = y
    OBVIOUS
  <2>2. IsFiniteSet(W)
    BY <1>1
  <2> HIDE DEF g, T, N
  <2> QED BY <2>1, <2>2, FiniteImage
<1>6. /\ N \subseteq AttemptState
      /\ \A y \in N : y.pc = "queued" /\ y.w \in W
      /\ \A y, z \in N : y.w = z.w => y = z
  OBVIOUS
<1>7. \A y \in N : \A x \in att : ~(x.live /\ x.w = y.w)
  BY <1>1, <1>6, Names DEF Inv, LiveOK
<1>8. \A x \in D : x \in att /\ x.w = p /\ x.live
  OBVIOUS
<1>9. \A x \in att : x.w = p /\ x.live => x \in D
  OBVIOUS
<1> HIDE DEF D, N
<1>10. /\ AttTyped' /\ Exclusive' /\ OneLive' /\ CopiedOnce'
       /\ \A y \in att' : y.live => y \in att \ D \/ y \in N
  BY <1>4, <1>5, <1>6, <1>7, AttemptsChange
<1>11. LiveOK'
  <2> SUFFICES ASSUME NEW y \in att', y.live
               PROVE  IF y.w \in Parents THEN par'[y.w].pc = "activity"
                      ELSE kid'[y.w].pc = "running"
    BY DEF LiveOK
  <2>1. CASE y \in N
    <3>1. y.w \in W /\ y.w \notin Parents
      BY <1>1, <1>6, <2>1, Names
    <3> QED BY <1>1, <3>1
  <2>2. CASE y \in att \ D
    <3>1. y.w # p /\ y.w \in Workflows
      BY <1>9, <2>2 DEF Inv, AttTyped, AttemptState
    <3>2. CASE y.w \in Parents
      BY <1>2, <2>2, <3>1, <3>2 DEF Inv, LiveOK
    <3>3. CASE y.w \notin Parents
      BY <1>1, <2>2, <3>1, <3>3, Names DEF Inv, LiveOK
    <3> QED BY <3>2, <3>3
  <2> QED BY <1>10, <2>1, <2>2
<1>12. \A r \in Parents : BatchOK(r)'
  <2> TAKE r \in Parents
  <2>1. CASE r # p
    <3>1. \A n \in 1..2 : kid'[Batch(r, n)] = kid[Batch(r, n)]
      BY <1>1, <2>1, Names
    <3>2. par'[r] = par[r] /\ BatchOK(r)
      BY <1>2, <2>1 DEF Inv
    <3> QED BY <3>1, <3>2 DEF BatchOK
  <2>2. CASE r = p
    <3>1. q.batches \in 0..2 /\ par[p].batches \in 0..2 /\ par'[r] = q
      BY <1>1, <1>2, <2>2 DEF Inv, Typed, ParState
    <3>2. \A s \in Parents, n \in 1..2 : Batch(s, n) \in q.waits => s = p /\ n <= q.batches
      <4> SUFFICES ASSUME NEW s \in Parents, NEW n \in 1..2, Batch(s, n) \in q.waits
                   PROVE  s = p /\ n <= q.batches
        OBVIOUS
      <4>1. CASE Batch(s, n) \in W
        BY <1>1, <4>1
      <4>2. CASE Batch(s, n) \in par[p].waits
        <5>1. s = p /\ n <= par[p].batches
          BY <4>2 DEF Inv, BatchOK
        <5> QED BY <1>1, <3>1, <5>1
      <4> QED BY <1>1, <4>1, <4>2
    <3>3. \A n \in 1..2 : n > q.batches => kid'[Batch(p, n)].pc = "none"
      <4> SUFFICES ASSUME NEW n \in 1..2, n > q.batches PROVE kid'[Batch(p, n)].pc = "none"
        OBVIOUS
      <4>1. Batch(p, n) \notin W /\ n > par[p].batches
        BY <1>1, <3>1
      <4> QED BY <1>1, <4>1, Names DEF Inv, BatchOK
    <3> QED BY <1>1, <2>2, <3>1, <3>2, <3>3 DEF BatchOK, Spooling
  <2> QED BY <2>1, <2>2
<1>13. KidOK'
  <2>1. \A a \in Big : kid'[Archive(a)].pc # "none" => kid'[Archive(a)].items = {a}
    BY <1>1, Names DEF Inv, KidOK
  <2>2. ASSUME NEW r \in Parents, NEW w \in par'[r].waits PROVE kid'[w].pc # "none"
    <3>1. w \in Children /\ w \in Kids
      BY <1>2, <2>2, Names DEF ParState
    <3>2. CASE w \in W
      BY <1>1, <3>2
    <3>3. CASE w \notin W
      <4>1. w \in par[r].waits
        BY <1>1, <1>2, <2>2, <3>3
      <4> QED BY <1>1, <3>1, <3>3, <4>1 DEF Inv, KidOK
    <3> QED BY <3>2, <3>3
  <2> QED BY <2>1, <2>2 DEF KidOK
<1> QED BY <1>3, <1>10, <1>11, <1>12, <1>13 DEF Inv

\* A handoff keeps to assets that are known.
LEMMA HandedKnown ==
  ASSUME Inv, KnownOK, NEW p \in Parents, NEW run, NEW assets \in SUBSET Assets,
         NEW batched \in BOOLEAN, NEW W, NEW q, Handed(p, run, assets, batched, W, q),
         run.todo \subseteq known, run.cur \subseteq known, run.left \subseteq known,
         assets \subseteq known, UNCHANGED <<known, onSpool, onNAS>>
  PROVE  KnownOK'
<1>1. /\ par' = [par EXCEPT ![p] = q] /\ q.todo = run.todo /\ q.cur = run.cur
      /\ q.left = run.left /\ q.listed = run.listed /\ W \subseteq Children
      /\ \A w \in Kids \ W : kid'[w] = kid[w]
      /\ \A w \in W : kid'[w].items \subseteq assets
      /\ \A y \in att' :
           y \in att \/ (y.w \in W /\ y.pc = "queued" /\ y.items = kid'[y.w].items)
  BY DEF Handed
<1>2. \A r \in Parents : par'[r].todo \cup par'[r].cur \cup par'[r].left \subseteq known
  <2>1. par'[p] = q /\ \A r \in Parents : r # p => par'[r] = par[r]
    BY <1>1 DEF Inv, Typed
  <2> QED BY <1>1, <2>1 DEF KnownOK
<1>3. \A w \in Kids : kid'[w].items \subseteq known
  BY <1>1 DEF KnownOK
<1>4. \A y \in att' : y.items \subseteq known /\ (y.pc \in Busy => y.asset \in known)
  BY <1>1 DEF KnownOK, Busy
<1> QED BY <1>2, <1>3, <1>4 DEF KnownOK

\* What was handed on is held, and what was held still is.
LEMMA HandedHolds ==
  ASSUME Inv, ItemsOK, NEW p \in Parents, NEW run, NEW assets \in SUBSET Assets,
         NEW batched \in BOOLEAN, NEW W, NEW q, Handed(p, run, assets, batched, W, q),
         run.waits = par[p].waits, par[p].failed \subseteq run.failed,
         par[p].joined \subseteq run.joined, UNCHANGED onNAS
  PROVE  /\ ItemsOK'
         /\ \A r \in Parents : \A a : Held(r, a) => Held(r, a)'
         /\ \A a \in assets : batched \/ a \in Big => Held(p, a)'
<1>1. /\ par' = [par EXCEPT ![p] = q] /\ q.waits = par[p].waits \cup W
      /\ par[p].failed \subseteq q.failed /\ par[p].joined \subseteq q.joined
      /\ W \subseteq Children
      /\ \A w \in Kids \ W : kid'[w] = kid[w]
      /\ \A w \in W : kid[w].pc # "running"
      /\ \A a \in Big : Archive(a) \in W => kid'[Archive(a)].items = {a}
      /\ \A r \in Parents, n \in 1..2 : Batch(r, n) \in W => kid[Batch(r, n)].pc = "none"
      /\ \A a \in assets : batched \/ a \in Big =>
           a \in q.joined \/ \E w \in q.waits : a \in kid'[w].items
  BY DEF Handed
<1>2. /\ par'[p] = q /\ \A r \in Parents : r # p => par'[r] = par[r]
  BY <1>1 DEF Inv, Typed
<1>3. ItemsOK'
  <2> SUFFICES ASSUME NEW y \in att', y.live, y.w \in Children
               PROVE  kid'[y.w].items \subseteq y.items \cup y.bad \cup onNAS \cup Unserved
    BY DEF ItemsOK
  <2>1. CASE y \in att
    <3>1. kid[y.w].pc = "running" /\ y.w \in Kids
      BY <2>1, Names DEF Inv, LiveOK
    <3>2. kid'[y.w] = kid[y.w]
      BY <1>1, <3>1
    <3> QED BY <2>1, <3>2 DEF ItemsOK
  <2>2. CASE y.items = kid'[y.w].items
    BY <2>2
  <2> QED BY <2>1, <2>2 DEF Handed
<1>4. ASSUME NEW r \in Parents, NEW w \in par[r].waits
      PROVE  w \in par'[r].waits /\ kid[w].items = kid'[w].items
  <2>1. w \in Children /\ w \in Kids /\ kid[w].pc # "none"
    BY Names DEF Inv, Typed, ParState, KidOK
  <2>2. w \in par'[r].waits
    BY <1>1, <1>2
  <2>3. kid[w].items = kid'[w].items
    <3>1. CASE w \notin W
      BY <1>1, <2>1, <3>1
    <3>2. CASE w \in W
      <4>1. PICK a \in Big : w = Archive(a)
        BY <1>1, <2>1, <3>2, Names
      <4> QED BY <1>1, <2>1, <3>2, <4>1 DEF Inv, KidOK
    <3> QED BY <3>1, <3>2
  <2> QED BY <2>2, <2>3
<1>5. ASSUME NEW r \in Parents, NEW a, Held(r, a) PROVE Held(r, a)'
  <2>1. par[r].failed \subseteq par'[r].failed /\ par[r].joined \subseteq par'[r].joined
    BY <1>1, <1>2
  <2>2. CASE a \in onNAS \cup par[r].failed \cup par[r].joined
    BY <2>1, <2>2 DEF Held
  <2>3. CASE \E w \in par[r].waits : a \in kid[w].items
    <3>1. \E w \in par'[r].waits : a \in kid'[w].items
      BY <1>4, <2>3
    <3> QED BY <3>1 DEF Held
  <2> QED BY <1>5, <2>2, <2>3 DEF Held
<1>6. ASSUME NEW a \in assets, batched \/ a \in Big PROVE Held(p, a)'
  <2>1. a \in par'[p].joined \/ \E w \in par'[p].waits : a \in kid'[w].items
    BY <1>1, <1>2, <1>6
  <2> QED BY <2>1 DEF Held
<1> QED BY <1>3, <1>5, <1>6

-----------------------------------------------------------------------------
(* What stays held and covered.                                            *)

\* What is held stays held while the children a parent waits for keep their items.
LEMMA HeldStays ==
  ASSUME NEW p \in Parents, NEW a, Held(p, a), onNAS \subseteq onNAS',
         par[p].failed \subseteq par'[p].failed, par[p].joined \subseteq par'[p].joined,
         \A w \in par[p].waits :
           \/ w \in par'[p].waits /\ kid'[w].items = kid[w].items
           \/ kid[w].items \subseteq onNAS' \cup par'[p].failed \cup Unserved
  PROVE  Held(p, a)'
<1>1. CASE a \in onNAS \cup par[p].failed \cup par[p].joined \cup Unserved
  BY <1>1 DEF Held
<1>2. CASE \E w \in par[p].waits : a \in kid[w].items
  BY <1>2 DEF Held
<1> QED BY <1>1, <1>2 DEF Held

\* A parent that does nothing still answers for all it met.
LEMMA CoveredStays ==
  ASSUME NEW p \in Parents, Covered(p), par'[p] = par[p], onNAS \subseteq onNAS',
         \A a : Held(p, a) => Held(p, a)'
  PROVE  Covered(p)'
<1>1. /\ par'[p].pc \in Spooling => par'[p].offset = 0 /\ par'[p].left = {}
      /\ par'[p].pc = "done" =>
           par'[p].waits = {} /\ (par'[p].safe => Refs(p) \subseteq onNAS')
  BY DEF Covered
<1>2. par'[p].pc \in {"spool", "activity", "wait", "done"} =>
       \A a \in Refs(p) : Held(p, a)' \/ a \in par'[p].todo \cup par'[p].cur
  BY DEF Covered
<1>3. par'[p].pc \in {"wait", "done"} =>
       par'[p].todo = {} /\ (par'[p].listed => \A a \in Earlier : Held(p, a)')
  BY DEF Covered
<1> QED BY <1>1, <1>2, <1>3 DEF Covered

\* A step of p alone that starts no archive and ends none.
LEMMA OthersCovered ==
  ASSUME Inv, CoverOK, NEW p \in Parents,
         \A r \in Parents : r # p => par'[r] = par[r],
         UNCHANGED <<onNAS, kid>>
  PROVE  \A r \in Parents : r # p => Covered(r)'
<1> SUFFICES ASSUME NEW r \in Parents, r # p PROVE Covered(r)'
  OBVIOUS
<1>1. par'[r] = par[r] /\ Covered(r)
  BY DEF CoverOK
<1>2. \A a : Held(r, a) => Held(r, a)'
  BY <1>1 DEF Held
<1> QED BY <1>1, <1>2, CoveredStays

\* Of the attempts none is new to an archive.
LEMMA ItemsStay ==
  ASSUME Inv, ItemsOK, onNAS \subseteq onNAS',
         \A y \in att' : y.live /\ y.w \in Children => y \in att,
         \A w \in Kids : kid'[w].items = kid[w].items
  PROVE  ItemsOK'
BY Names DEF ItemsOK

-----------------------------------------------------------------------------
(* The steps of the workflows themselves.                                  *)

\* An import or the backlog starts.
LEMMA StartKeeps ==
  ASSUME Inv, NEW p \in Parents, Start(p)
  PROVE  Inv' /\ (KnownOK => KnownOK') /\ (CoverOK => CoverOK')
<1>1. /\ par[p].pc = "start" /\ par' = [par EXCEPT ![p].pc = "spool", ![p].todo = Refs(p)]
      /\ known' = known \cup Refs(p) /\ UNCHANGED <<onSpool, onNAS, kid, att, faults>>
      /\ par \in [Parents -> ParState]
  BY DEF Start, Inv, Typed
<1>2. /\ par' \in [Parents -> ParState]
      /\ \A r \in Parents : r # p => par'[r] = par[r]
      /\ par'[p].pc = "spool" /\ par'[p].todo = Refs(p) /\ par'[p].cur = par[p].cur
      /\ par'[p].batches = par[p].batches /\ par'[p].waits = par[p].waits
      /\ par'[p].left = par[p].left /\ par'[p].listed = par[p].listed /\ par'[p].offset = par[p].offset
  <2> DEFINE q == [par[p] EXCEPT !.pc = "spool", !.todo = Refs(p)]
  <2>1. par' = [par EXCEPT ![p] = q] /\ par \in [Parents -> ParState] /\ par[p] \in ParState
    BY <1>1
  <2>2. /\ q \in ParState /\ q.pc = "spool" /\ q.todo = Refs(p) /\ q.cur = par[p].cur
        /\ q.batches = par[p].batches /\ q.waits = par[p].waits
        /\ q.left = par[p].left /\ q.listed = par[p].listed /\ q.offset = par[p].offset
    BY <2>1, Names DEF ParState
  <2> HIDE DEF q
  <2> QED BY <2>1, <2>2
<1>3. Typed' /\ AttTyped' /\ Exclusive' /\ OneLive' /\ CopiedOnce'
  <2>1. Typed'
    BY <1>1, <1>2, Names DEF Inv, Typed
  <2>2. AttTyped' /\ Exclusive' /\ OneLive' /\ CopiedOnce'
    BY <1>1 DEF Inv, AttTyped, Exclusive, OneLive, CopiedOnce
  <2> QED BY <2>1, <2>2
<1>4. LiveOK'
  BY <1>1, <1>2 DEF Inv, LiveOK
<1>5. \A r \in Parents : BatchOK(r)'
  <2> TAKE r \in Parents
  <2>1. BatchOK(r) /\ BatchOK(p)
    BY DEF Inv
  <2>2. CASE r # p
    BY <1>1, <1>2, <2>1, <2>2 DEF BatchOK
  <2>3. CASE r = p
    BY <1>1, <1>2, <2>1, <2>3 DEF BatchOK, Spooling
  <2> QED BY <2>2, <2>3
<1>6. KidOK'
  BY <1>1, <1>2 DEF Inv, KidOK
<1>7. ASSUME CoverOK PROVE CoverOK'
  <2>1. Earlier \subseteq known'
    BY <1>1, <1>7 DEF CoverOK
  <2>2. ItemsOK'
    BY <1>1, <1>7, ItemsStay DEF CoverOK
  <2>3. \A r \in Parents : r # p => Covered(r)'
    BY <1>1, <1>2, <1>7, OthersCovered
  <2>4. par[p].offset = 0 /\ par[p].left = {}
    BY <1>1, <1>7 DEF CoverOK, Covered, Spooling
  <2>5. Covered(p)'
    BY <1>2, <2>4 DEF Covered, Spooling
  <2> QED BY <2>1, <2>2, <2>3, <2>5 DEF CoverOK
<1>8. ASSUME KnownOK PROVE KnownOK'
  <2>1. \A r \in Parents : par'[r].todo \cup par'[r].cur \cup par'[r].left \subseteq known'
    <3>1. par[p].left = par'[p].left
      BY <1>2
    <3> QED BY <1>1, <1>2, <1>8, <3>1 DEF KnownOK
  <2> QED BY <1>1, <1>8, <2>1 DEF KnownOK
<1> QED BY <1>3, <1>4, <1>5, <1>6, <1>7, <1>8 DEF Inv

\* A parent spools some assets and goes on to hand them over.
LEMMA ScheduleKeeps ==
  ASSUME Inv, NEW p \in Parents, NEW assets \in SUBSET Assets, Schedule(p, assets),
         par[p].pc = "spool", assets \subseteq par[p].todo,
         assets \subseteq Big \/ assets = par[p].todo,
         UNCHANGED <<known, onSpool, onNAS, faults>>
  PROVE  Inv' /\ (KnownOK => KnownOK') /\ (CoverOK => CoverOK')
<1>1. /\ par' = [par EXCEPT ![p].pc = "activity", ![p].todo = @ \ assets,
                            ![p].cur = assets, ![p].tries = 1]
      /\ att' = att \cup {Attempt(p, assets, att)} /\ kid' = kid
      /\ par \in [Parents -> ParState] /\ 1 \in 0..MaxTries
  BY WorkflowsAssumption DEF Schedule, Inv, Typed
<1>2. /\ par' \in [Parents -> ParState]
      /\ \A r \in Parents : r # p => par'[r] = par[r]
      /\ par'[p].pc = "activity" /\ par'[p].todo = par[p].todo \ assets
      /\ par'[p].cur = assets
      /\ par'[p].batches = par[p].batches /\ par'[p].waits = par[p].waits
      /\ par'[p].left = par[p].left /\ par'[p].listed = par[p].listed /\ par'[p].offset = par[p].offset
      /\ par'[p].failed = par[p].failed /\ par'[p].joined = par[p].joined
  <2> DEFINE q == [par[p] EXCEPT !.pc = "activity", !.todo = @ \ assets,
                                 !.cur = assets, !.tries = 1]
  <2>1. par' = [par EXCEPT ![p] = q] /\ par \in [Parents -> ParState] /\ par[p] \in ParState
    BY <1>1
  <2>2. /\ q \in ParState /\ q.pc = "activity" /\ q.todo = par[p].todo \ assets
        /\ q.cur = assets /\ q.batches = par[p].batches /\ q.waits = par[p].waits
        /\ q.left = par[p].left /\ q.listed = par[p].listed /\ q.offset = par[p].offset
        /\ q.failed = par[p].failed /\ q.joined = par[p].joined
    BY <1>1, <2>1 DEF ParState
  <2> HIDE DEF q
  <2> QED BY <2>1, <2>2
<1>3. Typed'
  BY <1>1, <1>2 DEF Inv, Typed
<1>4. p \in Workflows /\ p \in Parents /\ \A x \in att : ~(x.live /\ x.w = p)
  BY Names DEF Inv, LiveOK
<1>5. /\ AttTyped' /\ Exclusive' /\ OneLive' /\ CopiedOnce'
      /\ \A y \in att' : y \in att \/ (y.w = p /\ y.items = assets /\ y.pc = "queued")
  BY <1>1, <1>4, OneMore
<1>6. LiveOK'
  <2> SUFFICES ASSUME NEW y \in att', y.live
               PROVE  IF y.w \in Parents THEN par'[y.w].pc = "activity"
                      ELSE kid'[y.w].pc = "running"
    BY DEF LiveOK
  <2>1. CASE y.w = p
    BY <1>2, <2>1
  <2>2. CASE y \in att /\ y.w # p
    BY <1>1, <1>2, <2>2 DEF Inv, LiveOK
  <2> QED BY <1>5, <2>1, <2>2
<1>7. \A r \in Parents : BatchOK(r)'
  <2> TAKE r \in Parents
  <2>1. BatchOK(r) /\ BatchOK(p)
    BY DEF Inv
  <2>2. CASE r # p
    BY <1>1, <1>2, <2>1, <2>2 DEF BatchOK
  <2>3. CASE r = p
    BY <1>1, <1>2, <2>1, <2>3 DEF BatchOK, Spooling
  <2> QED BY <2>2, <2>3
<1>8. KidOK'
  BY <1>1, <1>2 DEF Inv, KidOK
<1>9. ASSUME CoverOK PROVE CoverOK'
  <2>1. Earlier \subseteq known'
    BY <1>9 DEF CoverOK
  <2>2. ItemsOK'
    BY <1>1, <1>5, <1>9, Names, ItemsStay DEF CoverOK
  <2>3. \A r \in Parents : r # p => Covered(r)'
    BY <1>1, <1>2, <1>9, OthersCovered
  <2>4. /\ par[p].offset = 0 /\ par[p].left = {}
        /\ \A a \in Refs(p) : Held(p, a) \/ a \in par[p].todo \cup par[p].cur
        /\ par[p].cur = {}
    BY <1>9 DEF CoverOK, Covered, Spooling, Inv, BatchOK
  <2>5. \A a : Held(p, a) => Held(p, a)'
    BY <1>1, <1>2 DEF Held
  <2>6. \A a \in Refs(p) : Held(p, a)' \/ a \in par'[p].todo \cup par'[p].cur
    BY <1>2, <2>4, <2>5
  <2>7. Covered(p)'
    BY <1>2, <2>4, <2>6 DEF Covered, Spooling
  <2> QED BY <2>1, <2>2, <2>3, <2>7 DEF CoverOK
<1>10. ASSUME KnownOK PROVE KnownOK'
  <2>1. assets \subseteq known
    BY <1>10 DEF KnownOK
  <2>2. \A r \in Parents : par'[r].todo \cup par'[r].cur \cup par'[r].left \subseteq known
    BY <1>2, <1>10, <2>1 DEF KnownOK
  <2>3. \A y \in att' : y.items \subseteq known /\ (y.pc \in Busy => y.asset \in known)
    BY <1>5, <1>10, <2>1 DEF KnownOK, Busy
  <2> QED BY <1>1, <1>10, <2>2, <2>3 DEF KnownOK
<1> QED BY <1>3, <1>5, <1>6, <1>7, <1>8, <1>9, <1>10 DEF Inv

\* ImportSource spools one large asset.
LEMMA SpoolLargeKeeps ==
  ASSUME Inv, NEW p \in Parents, NEW a \in Big, SpoolLarge(p, a)
  PROVE  Inv' /\ (KnownOK => KnownOK') /\ (CoverOK => CoverOK')
<1>1. /\ par[p].pc = "spool" /\ a \in par[p].todo /\ par[p] \in ParState
      /\ UNCHANGED <<known, onSpool, onNAS, faults>>
      /\ par[p].todo \subseteq Assets /\ a \in Assets
  BY DEF SpoolLarge, Inv, Typed, ParState
<1>2. CASE a \notin onNAS
  <2>1. Schedule(p, {a})
    BY <1>2 DEF SpoolLarge
  <2>2. {a} \in SUBSET Assets /\ {a} \subseteq par[p].todo /\ {a} \subseteq Big
    BY <1>1
  <2> QED BY <1>1, <2>1, <2>2, ScheduleKeeps
<1>3. CASE a \in onNAS
  <2> DEFINE run == [par[p] EXCEPT !.todo = @ \ {a}]
  <2>1. Handoff(p, run, {a}, FALSE)
    BY <1>3 DEF SpoolLarge
  <2>2. /\ run \in ParState /\ run.todo = par[p].todo \ {a} /\ run.pc = "spool"
        /\ run.waits = par[p].waits /\ run.batches = par[p].batches /\ run.cur = par[p].cur
        /\ run.left = par[p].left /\ run.listed = par[p].listed /\ run.offset = par[p].offset
        /\ run.failed = par[p].failed /\ run.joined = par[p].joined
    BY <1>1 DEF ParState
  <2>3. /\ par[p].cur = {} /\ par[p].batches <= 1
        /\ par[p].batches # 0 => par[p].todo \subseteq Big
    BY <1>1 DEF Inv, BatchOK, Spooling
  <2>4. {a} \in SUBSET Assets /\ FALSE \in BOOLEAN
    BY <1>1
  <2> HIDE DEF run
  <2>5. PICK W, q : Handed(p, run, {a}, FALSE, W, q)
    BY <2>1, <2>2, <2>4, HandoffDoes
  <2>6. q.batches = par[p].batches /\ par' = [par EXCEPT ![p] = q] /\ q.pc = "spool"
        /\ q.todo = run.todo /\ q.left = run.left /\ q.listed = run.listed /\ q.offset = run.offset
    BY <2>2, <2>5 DEF Handed
  <2>7. Inv'
    BY <1>1, <2>2, <2>3, <2>4, <2>5, <2>6, HandedKeeps
  <2>8. ASSUME CoverOK PROVE CoverOK'
    <3>1. ItemsOK /\ \A r \in Parents : Covered(r)
      BY <2>8 DEF CoverOK
    <3>2. ItemsOK' /\ \A r \in Parents : \A b : Held(r, b) => Held(r, b)'
      BY <1>1, <2>2, <2>4, <2>5, <3>1, HandedHolds
    <3>3. \A r \in Parents : r # p => Covered(r)'
      BY <1>1, <2>6, <3>1, <3>2, CoveredStays DEF Inv, Typed
    <3>4. par'[p] = q
      BY <2>6 DEF Inv, Typed
    <3>5. \A b \in Refs(p) : Held(p, b) \/ b \in par[p].todo
      BY <1>1, <2>3, <3>1 DEF Covered
    <3>6. \A b \in Refs(p) : Held(p, b)' \/ b \in par'[p].todo
      <4>1. Held(p, a)
        BY <1>3 DEF Held
      <4> QED BY <2>2, <2>6, <3>2, <3>4, <3>5, <4>1
    <3>7. par'[p].offset = 0 /\ par'[p].left = {} /\ par'[p].pc = "spool"
      BY <1>1, <2>2, <2>6, <3>1, <3>4 DEF Covered, Spooling
    <3>8. Covered(p)'
      BY <3>6, <3>7 DEF Covered
    <3> QED BY <1>1, <2>8, <3>2, <3>3, <3>8 DEF CoverOK
  <2>9. ASSUME KnownOK PROVE KnownOK'
    <3>1. /\ par[p].todo \cup par[p].cur \cup par[p].left \subseteq known
          /\ {a} \subseteq known
      BY <1>1, <2>9 DEF KnownOK
    <3> QED BY <1>1, <2>2, <2>4, <2>5, <2>9, <3>1, HandedKnown
  <2> QED BY <2>7, <2>8, <2>9
<1> QED BY <1>2, <1>3

\* ImportSource spools the small ones together.
LEMMA SpoolSmallKeeps ==
  ASSUME Inv, NEW p \in Parents, SpoolSmall(p)
  PROVE  Inv' /\ (KnownOK => KnownOK') /\ (CoverOK => CoverOK')
<1>1. /\ par[p].pc = "spool" /\ Schedule(p, par[p].todo)
      /\ UNCHANGED <<known, onSpool, onNAS, faults>>
  BY DEF SpoolSmall
<1>2. par[p].todo \in SUBSET Assets
  BY DEF Inv, Typed, ParState
<1> QED BY <1>1, <1>2, ScheduleKeeps

\* The workflow of p ends, and its attempts with it.
LEMMA ForgetKeeps ==
  ASSUME Inv, NEW p \in Parents, NEW q \in ParState, par' = [par EXCEPT ![p] = q],
         q.pc = "cancelled", q.batches = par[p].batches, q.waits = {}, par[p].pc # "start",
         \A y \in att' : \/ y \in att /\ y.w # p
                         \/ \E x \in att : x.w = p /\ y = Forgotten(x),
         UNCHANGED <<known, onSpool, onNAS, kid, faults>>
  PROVE  Inv'
<1>1. /\ par' \in [Parents -> ParState] /\ par'[p] = q
      /\ \A r \in Parents : r # p => par'[r] = par[r]
  BY DEF Inv, Typed
<1>2. Typed'
  BY <1>1 DEF Inv, Typed
<1> DEFINE D == {x \in att : x.w = p}
<1>3. \A y \in att' : \/ y \in {}
                      \/ y \in att /\ y \notin D
                      \/ \E x \in att : x \in D /\ y = Forgotten(x)
  OBVIOUS
<1>4. IsFiniteSet({}) /\ {} \subseteq AttemptState
  BY FS_EmptySet
<1>5. \A x \in att : x.w = p => x \in D
  OBVIOUS
<1> HIDE DEF D
<1>6. /\ AttTyped' /\ Exclusive' /\ OneLive' /\ CopiedOnce'
      /\ \A y \in att' : y.live => y \in att \ D \/ y \in {}
  BY <1>3, <1>4, AttemptsChange
<1>7. LiveOK'
  BY <1>1, <1>5, <1>6 DEF Inv, LiveOK
<1>8. \A r \in Parents : BatchOK(r)'
  <2> TAKE r \in Parents
  <2>1. BatchOK(r) /\ BatchOK(p)
    BY DEF Inv
  <2>2. CASE r # p
    BY <1>1, <2>1, <2>2 DEF BatchOK
  <2>3. CASE r = p
    BY <1>1, <2>1, <2>3 DEF BatchOK, Spooling
  <2> QED BY <2>2, <2>3
<1>9. KidOK'
  BY <1>1 DEF Inv, KidOK
<1> QED BY <1>2, <1>6, <1>7, <1>8, <1>9 DEF Inv

\* A parent completes once nothing it waits for is left.
LEMMA CompleteKeeps ==
  ASSUME Inv, NEW p \in Parents, Complete(p)
  PROVE  Inv' /\ (KnownOK => KnownOK') /\ (CoverOK => CoverOK')
<1>0. PICK safe \in {FALSE, Refs(p) # {} /\ Refs(p) \subseteq onNAS} :
         par' = [par EXCEPT ![p].pc = "done", ![p].safe = safe]
  BY DEF Complete
<1> DEFINE q == [par[p] EXCEPT !.pc = "done", !.safe = safe]
<1>a. safe \in BOOLEAN /\ (safe => Refs(p) \subseteq onNAS)
  OBVIOUS
<1>1. /\ par[p].pc = "wait" /\ par[p].waits = {} /\ par' = [par EXCEPT ![p] = q]
      /\ UNCHANGED <<known, onSpool, onNAS, kid, att, faults>>
      /\ par \in [Parents -> ParState] /\ par[p] \in ParState
  BY <1>0 DEF Complete, Inv, Typed
<1>2. /\ q \in ParState /\ q.pc = "done" /\ q.batches = par[p].batches /\ q.waits = {}
      /\ q.cur = par[p].cur /\ q.todo = par[p].todo /\ q.failed = par[p].failed
      /\ q.joined = par[p].joined /\ (q.safe => Refs(p) \subseteq onNAS)
      /\ q.listed = par[p].listed
  BY <1>1, <1>a DEF ParState
<1>3. par[p].cur = {}
  BY <1>1 DEF Inv, BatchOK
<1> HIDE DEF q
<1>4. \A x \in att : x.w = p => ~x.live
  BY <1>1 DEF Inv, LiveOK
<1>5. Inv'
  <2>1. par'[p] = q /\ \A r \in Parents : r # p => par'[r] = par[r]
    BY <1>1
  <2>2. Typed' /\ AttTyped' /\ Exclusive' /\ OneLive' /\ CopiedOnce'
    <3>1. Typed'
      BY <1>1, <1>2 DEF Inv, Typed
    <3> QED BY <1>1, <3>1 DEF Inv, AttTyped, Exclusive, OneLive, CopiedOnce
  <2>3. LiveOK'
    BY <1>1, <1>4, <2>1 DEF Inv, LiveOK
  <2>4. \A r \in Parents : BatchOK(r)'
    <3> TAKE r \in Parents
    <3>1. BatchOK(r) /\ BatchOK(p)
      BY DEF Inv
    <3>2. CASE r # p
      BY <1>1, <2>1, <3>1, <3>2 DEF BatchOK
    <3>3. CASE r = p
      BY <1>1, <1>2, <1>3, <2>1, <3>1, <3>3 DEF BatchOK, Spooling
    <3> QED BY <3>2, <3>3
  <2>5. KidOK'
    BY <1>1, <1>2, <2>1 DEF Inv, KidOK
  <2> QED BY <2>2, <2>3, <2>4, <2>5 DEF Inv
<1>6. ASSUME CoverOK PROVE CoverOK'
  <2>1. ItemsOK'
    BY <1>1, <1>6, ItemsStay DEF CoverOK
  <2>2. par'[p] = q /\ \A r \in Parents : r # p => par'[r] = par[r]
    BY <1>1
  <2>3. \A r \in Parents : r # p => Covered(r)'
    BY <1>1, <1>6, <2>2, OthersCovered
  <2>4. \A a : Held(p, a) => Held(p, a)'
    BY <1>1, <1>2, <2>2 DEF Held
  <2>5. /\ par[p].todo = {} /\ \A a \in Refs(p) : Held(p, a)
        /\ par[p].listed => \A a \in Earlier : Held(p, a)
    BY <1>1, <1>3, <1>6 DEF CoverOK, Covered
  <2>6. Covered(p)'
    BY <1>1, <1>2, <2>2, <2>4, <2>5 DEF Covered, Spooling
  <2> QED BY <1>1, <1>6, <2>1, <2>3, <2>6 DEF CoverOK
<1>7. ASSUME KnownOK PROVE KnownOK'
  <2>1. q.left = par[p].left
    BY <1>1 DEF q, ParState
  <2>2. \A r \in Parents : par'[r].todo \cup par'[r].cur \cup par'[r].left \subseteq known
    BY <1>1, <1>2, <1>7, <2>1 DEF KnownOK
  <2> QED BY <1>1, <1>7, <2>2 DEF KnownOK
<1> QED BY <1>5, <1>6, <1>7

\* A cancelled parent abandons its children, which go on.
LEMMA CancelKeeps ==
  ASSUME Inv, NEW p \in Parents, Cancel(p)
  PROVE  Inv' /\ (KnownOK => KnownOK') /\ (CoverOK => CoverOK')
<1> DEFINE q == [par[p] EXCEPT !.pc = "cancelled", !.waits = {}]
<1>1. /\ par[p].pc \in {"activity", "wait"} /\ par' = [par EXCEPT ![p] = q]
      /\ UNCHANGED <<known, onSpool, onNAS, kid, faults>>
      /\ par \in [Parents -> ParState] /\ par[p] \in ParState
  BY DEF Cancel, Inv, Typed
<1>2. /\ q \in ParState /\ q.pc = "cancelled" /\ q.batches = par[p].batches /\ q.waits = {}
      /\ q.todo = par[p].todo /\ q.cur = par[p].cur /\ q.left = par[p].left /\ q.listed = par[p].listed
  BY <1>1 DEF ParState
<1>3. \A y \in att' : \/ y \in att /\ y.w # p
                      \/ \E x \in att : x.w = p /\ y = Forgotten(x)
  BY DEF Cancel, Forgotten
<1> HIDE DEF q
<1>4. Inv'
  BY <1>1, <1>2, <1>3, ForgetKeeps
<1>5. ASSUME CoverOK PROVE CoverOK'
  <2>1. \A y \in att' : y.live => y \in att
    BY <1>3, ForgottenType DEF Inv, AttTyped
  <2>2. ItemsOK'
    BY <1>1, <1>5, <2>1, ItemsStay DEF CoverOK
  <2>3. par'[p] = q /\ \A r \in Parents : r # p => par'[r] = par[r]
    BY <1>1
  <2>4. \A r \in Parents : r # p => Covered(r)'
    BY <1>1, <1>5, <2>3, OthersCovered
  <2>5. Covered(p)'
    BY <1>2, <2>3 DEF Covered, Spooling
  <2> QED BY <1>1, <1>5, <2>2, <2>4, <2>5 DEF CoverOK
<1>6. ASSUME KnownOK PROVE KnownOK'
  <2>1. \A r \in Parents : par'[r].todo \cup par'[r].cur \cup par'[r].left \subseteq known
    BY <1>1, <1>2, <1>6 DEF KnownOK
  <2>2. \A y \in att' : y.items \subseteq known /\ (y.pc \in Busy => y.asset \in known)
    BY <1>3, <1>6 DEF KnownOK, Forgotten, Inv, AttTyped, AttemptState
  <2> QED BY <1>1, <1>6, <2>1, <2>2 DEF KnownOK
<1> QED BY <1>4, <1>5, <1>6

\* A page lists known assets; where one page is enough it lists all that need archiving.
LEMMA PageType ==
  ASSUME Inv, NEW offset \in Nat
  PROVE  /\ NeedsArchive(offset, Page) \subseteq known
         /\ NoPaging => /\ Cardinality(NeedsArchive(offset, Page)) < Page
                       /\ NeedsArchive(0, Page) = known \ onNAS
<1>1. NeedsArchive(offset, Page) \subseteq known
  BY DEF NeedsArchive
<1>2. known \subseteq Assets /\ IsFiniteSet(Assets) /\ Cardinality(Assets) \in Nat
      /\ Page \in Nat
  BY WorkflowsAssumption, FS_CardinalityType DEF Inv, Typed
<1>3. ASSUME NoPaging PROVE Cardinality(NeedsArchive(offset, Page)) < Page
  <2>1. /\ Cardinality(NeedsArchive(offset, Page)) <= Cardinality(Assets)
        /\ Cardinality(NeedsArchive(offset, Page)) \in Nat
    BY <1>1, <1>2, FS_Subset, FS_CardinalityType
  <2> QED BY <1>2, <1>3, <2>1 DEF NoPaging
<1>4. ASSUME NoPaging PROVE NeedsArchive(0, Page) = known \ onNAS
  <2> DEFINE before(a) == {b \in known \ onNAS : Captured[b] < Captured[a]}
  <2>1. ASSUME NEW a PROVE Cardinality(before(a)) \in 0..(0 + Page - 1)
    <3>1. before(a) \subseteq Assets
      BY <1>2
    <3> HIDE DEF before
    <3>2. Cardinality(before(a)) <= Cardinality(Assets) /\ Cardinality(before(a)) \in Nat
      BY <1>2, <3>1, FS_Subset, FS_CardinalityType
    <3> QED BY <1>2, <1>4, <3>2 DEF NoPaging
  <2> QED BY <2>1 DEF NeedsArchive
<1> QED BY <1>1, <1>3, <1>4

\* The leftovers are read.
LEMMA ReadPageKeeps ==
  ASSUME Inv, NEW p \in Parents, ReadPage(p)
  PROVE  Inv' /\ (KnownOK => KnownOK') /\ (NoPaging /\ CoverOK => CoverOK')
<1> DEFINE page == NeedsArchive(par[p].offset, Page)
           left == par[p].left \cup page
<1>1. /\ par[p].pc = "spool" /\ par[p].todo = {} /\ UNCHANGED <<known, onSpool, onNAS, faults>>
      /\ par \in [Parents -> ParState] /\ par[p] \in ParState
  BY DEF ReadPage, Inv, Typed
<1>2. page \subseteq known /\ left \subseteq Assets /\ par[p].offset \in Nat
      /\ par[p].offset + Page \in Nat /\ (NoPaging => Cardinality(page) < Page)
  <2>1. par[p].offset \in Nat /\ par[p].left \subseteq Assets /\ Page \in Nat
    BY <1>1, WorkflowsAssumption DEF ParState
  <2> QED BY <2>1, PageType DEF Inv, Typed
<1>3. par[p].cur = {} /\ par[p].batches <= 1
  BY <1>1 DEF Inv, BatchOK, Spooling
<1>4. CASE ~(Cardinality(page) < Page)
  <2> DEFINE q == [par[p] EXCEPT !.left = left, !.offset = @ + Page]
  <2>1. par' = [par EXCEPT ![p] = q] /\ UNCHANGED <<kid, att>>
    BY <1>4 DEF ReadPage
  <2>2. /\ q \in ParState /\ q.pc = par[p].pc /\ q.todo = par[p].todo /\ q.cur = par[p].cur
        /\ q.batches = par[p].batches /\ q.waits = par[p].waits
    BY <1>1, <1>2 DEF ParState
  <2> HIDE DEF q, left, page
  <2>3. par'[p] = q /\ \A r \in Parents : r # p => par'[r] = par[r]
    BY <1>1, <2>1
  <2>4. Typed' /\ AttTyped' /\ Exclusive' /\ OneLive' /\ CopiedOnce'
    <3>1. Typed'
      BY <1>1, <2>1, <2>2 DEF Inv, Typed
    <3> QED BY <1>1, <2>1, <3>1 DEF Inv, AttTyped, Exclusive, OneLive, CopiedOnce
  <2>5. LiveOK'
    BY <2>1, <2>2, <2>3 DEF Inv, LiveOK
  <2>6. \A r \in Parents : BatchOK(r)'
    <3> TAKE r \in Parents
    <3>1. BatchOK(r)
      BY DEF Inv
    <3>2. /\ par'[r].pc = par[r].pc /\ par'[r].todo = par[r].todo /\ par'[r].cur = par[r].cur
          /\ par'[r].batches = par[r].batches /\ par'[r].waits = par[r].waits
      BY <2>2, <2>3
    <3> QED BY <2>1, <3>1, <3>2, BatchStays
  <2>7. KidOK'
    BY <2>1, <2>2, <2>3 DEF Inv, KidOK
  <2>8. ASSUME KnownOK PROVE KnownOK'
    <3>1. q.left \subseteq known
      <4>1. q.left = par[p].left \cup page
        BY <1>1 DEF q, left, ParState
      <4> QED BY <1>2, <2>8, <4>1 DEF KnownOK
    <3>2. \A r \in Parents : par'[r].todo \cup par'[r].cur \cup par'[r].left \subseteq known
      BY <2>2, <2>3, <2>8, <3>1 DEF KnownOK
    <3> QED BY <1>1, <2>1, <2>8, <3>2 DEF KnownOK
  <2> QED BY <1>2, <1>4, <2>4, <2>5, <2>6, <2>7, <2>8 DEF Inv
<1>5. CASE Cardinality(page) < Page
  <2> DEFINE run == [par[p] EXCEPT !.pc = "wait", !.left = {}, !.listed = TRUE]
             rest == left \ Refs(p)
  <2>1. Handoff(p, run, rest, TRUE)
    BY <1>5 DEF ReadPage
  <2>2. /\ run \in ParState /\ run.todo = {} /\ run.pc = "wait"
        /\ run.waits = par[p].waits /\ run.batches = par[p].batches /\ run.cur = {}
        /\ run.left = {} /\ run.failed = par[p].failed /\ run.joined = par[p].joined
    BY <1>1, <1>3 DEF ParState
  <2>3. rest \in SUBSET Assets /\ TRUE \in BOOLEAN
    BY <1>2
  <2>4. \A a \in page : a \in rest \/ a \in Refs(p)
    OBVIOUS
  <2> HIDE DEF run, rest, left
  <2>5. PICK W, q : Handed(p, run, rest, TRUE, W, q)
    BY <1>3, <2>1, <2>2, <2>3, HandoffDoes
  <2>6. par' = [par EXCEPT ![p] = q] /\ q.pc = "wait" /\ q.todo = {}
    BY <2>2, <2>5 DEF Handed
  <2>7. Inv'
    BY <1>1, <2>2, <2>3, <2>5, <2>6, HandedKeeps
  <2>8. ASSUME NoPaging, CoverOK PROVE CoverOK'
    <3>1. /\ ItemsOK /\ \A r \in Parents : Covered(r)
          /\ Earlier \subseteq known /\ Earlier \subseteq known'
      BY <1>1, <2>8 DEF CoverOK
    <3>2. /\ ItemsOK' /\ \A r \in Parents : \A b : Held(r, b) => Held(r, b)'
          /\ \A b \in rest : Held(p, b)'
      BY <1>1, <2>2, <2>3, <2>5, <3>1, HandedHolds
    <3>3. \A r \in Parents : r # p => Covered(r)'
      BY <1>1, <2>6, <3>1, <3>2, CoveredStays
    <3>4. par'[p] = q
      BY <1>1, <2>6
    <3>5. \A b \in Refs(p) : Held(p, b)'
      BY <1>1, <1>3, <3>1, <3>2 DEF Covered
    <3>6. page = known \ onNAS
      <4>1. par[p].offset = 0
        BY <1>1, <3>1 DEF Covered, Spooling
      <4> QED BY <2>8, <4>1, PageType
    <3>7. ASSUME NEW b \in Earlier PROVE Held(p, b)'
      <4>1. CASE b \in onNAS
        BY <3>2, <4>1 DEF Held
      <4>2. CASE b \in page
        BY <2>4, <3>2, <3>5, <4>2
      <4> QED BY <3>1, <3>6, <4>1, <4>2
    <3>8. Covered(p)'
      BY <2>6, <3>4, <3>5, <3>7 DEF Covered, Spooling
    <3> QED BY <3>1, <3>2, <3>3, <3>8 DEF CoverOK
  <2>9. ASSUME KnownOK PROVE KnownOK'
    <3>1. rest \subseteq known
      BY <1>2, <2>9 DEF KnownOK, rest, left
    <3> QED BY <1>1, <2>2, <2>3, <2>5, <2>9, <3>1, HandedKnown
  <2> QED BY <2>7, <2>8, <2>9
<1> QED BY <1>4, <1>5

\* SpoolAssets starts.
LEMMA StartRecallKeeps ==
  ASSUME Inv, StartRecall
  PROVE  Inv' /\ (KnownOK => KnownOK') /\ (CoverOK => CoverOK')
<1>1. /\ kid[Recall].pc = "none" /\ UNCHANGED <<known, onSpool, onNAS, par, faults>>
      /\ kid' = [kid EXCEPT ![Recall] = [pc |-> "running", items |-> Recalled, tries |-> 1]]
      /\ att' = att \cup {Attempt(Recall, Recalled, att)}
      /\ kid \in [Kids -> KidState] /\ 1 \in 0..MaxTries
      /\ Recalled \in SUBSET Assets
  BY WorkflowsAssumption DEF StartRecall, Inv, Typed
<1>2. Recall \in Workflows /\ Recall \in Kids /\ Recall \notin Children /\ Recall \notin Parents
  BY Names
<1>3. /\ kid' \in [Kids -> KidState] /\ kid'[Recall].pc = "running"
      /\ \A w \in Kids : w # Recall => kid'[w] = kid[w]
  <2> DEFINE k == [pc |-> "running", items |-> Recalled, tries |-> 1]
  <2>1. k \in KidState /\ k.pc = "running" /\ kid' = [kid EXCEPT ![Recall] = k]
    BY <1>1 DEF KidState
  <2> HIDE DEF k
  <2> QED BY <1>1, <1>2, <2>1
<1>4. \A w \in Children : kid'[w] = kid[w]
  BY <1>2, <1>3, Names
<1>5. \A x \in att : ~(x.live /\ x.w = Recall)
  BY <1>1, <1>2 DEF Inv, LiveOK
<1>6. /\ AttTyped' /\ Exclusive' /\ OneLive' /\ CopiedOnce'
      /\ \A y \in att' : y \in att \/ (y.w = Recall /\ y.items = Recalled /\ y.pc = "queued")
  BY <1>1, <1>2, <1>5, OneMore
<1>7. Typed'
  BY <1>1, <1>3 DEF Inv, Typed
<1>8. LiveOK'
  <2> SUFFICES ASSUME NEW y \in att', y.live
               PROVE  IF y.w \in Parents THEN par'[y.w].pc = "activity"
                      ELSE kid'[y.w].pc = "running"
    BY DEF LiveOK
  <2>1. CASE y.w = Recall
    BY <1>2, <1>3, <2>1
  <2>2. CASE y \in att /\ y.w # Recall
    <3>1. y.w \in Parents \/ y.w \in Kids
      BY <2>2, Names DEF Inv, AttTyped, AttemptState
    <3> QED BY <1>1, <1>3, <2>2, <3>1 DEF Inv, LiveOK
  <2> QED BY <1>6, <2>1, <2>2
<1>9. \A r \in Parents : BatchOK(r)'
  <2> TAKE r \in Parents
  <2>1. \A n \in 1..2 : kid'[Batch(r, n)] = kid[Batch(r, n)]
    BY <1>4, Names
  <2> QED BY <1>1, <2>1, BatchStays DEF Inv
<1>10. KidOK'
  <2>1. \A r \in Parents : par[r].waits \subseteq Children
    BY DEF Inv, Typed, ParState
  <2> QED BY <1>1, <1>4, <2>1, Names DEF Inv, KidOK
<1>11. ASSUME CoverOK PROVE CoverOK'
  <2>1. /\ ItemsOK /\ \A r \in Parents : Covered(r)
        /\ Earlier \subseteq known'
    BY <1>1, <1>11 DEF CoverOK
  <2>2. ItemsOK'
    BY <1>1, <1>2, <1>4, <1>6, <2>1 DEF ItemsOK
  <2>3. ASSUME NEW r \in Parents PROVE Covered(r)'
    <3>1. par[r].waits \subseteq Children
      BY DEF Inv, Typed, ParState
    <3>2. \A a : Held(r, a) => Held(r, a)'
      BY <1>1, <1>4, <3>1 DEF Held
    <3> QED BY <1>1, <2>1, <3>2, CoveredStays
  <2> QED BY <2>1, <2>2, <2>3 DEF CoverOK
<1>12. ASSUME KnownOK PROVE KnownOK'
  <2>1. Recalled \subseteq known /\ kid'[Recall].items = Recalled
    BY <1>1, <1>2 DEF StartRecall
  <2>2. \A w \in Kids : kid'[w].items \subseteq known
    BY <1>3, <1>12, <2>1 DEF KnownOK
  <2>3. \A y \in att' : y.items \subseteq known /\ (y.pc \in Busy => y.asset \in known)
    BY <1>6, <1>12, <2>1 DEF KnownOK, Busy
  <2> QED BY <1>1, <1>12, <2>2, <2>3 DEF KnownOK
<1> QED BY <1>6, <1>7, <1>8, <1>9, <1>10, <1>11, <1>12 DEF Inv

-----------------------------------------------------------------------------
(* The steps of the attempts.                                              *)

\* x becomes y, and the service hears nothing of it.
LEMMA StepKeeps ==
  ASSUME Inv, NEW x \in att, NEW y \in AttemptState, Step(x, y),
         y.w = x.w, y.live = x.live,
         y.pc \in Busy => y.asset \in Assets
                          /\ ((x.pc \in Busy /\ y.asset = x.asset) \/ ~Locked(y.asset)),
         y.pc \in {"gate", "copy"} => x.w \in Children,
         y.pc = "spooling" => x.w \notin Children,
         UNCHANGED <<known, par, kid>>,
         onSpool' \subseteq Assets, onNAS \subseteq onNAS', onNAS' \subseteq Assets,
         faults' \in 0..MaxFaults,
         CopiedOnce',
         KnownOK => /\ onSpool' \cup onNAS' \subseteq known /\ y.items \subseteq known
                    /\ y.pc \in Busy => y.asset \in known,
         x.w \in Children => x.items \cup x.bad \subseteq y.items \cup y.bad \cup onNAS' \cup Unserved
  PROVE  Inv' /\ (KnownOK => KnownOK') /\ (CoverOK => CoverOK')
<1>1. att' = (att \ {x}) \cup {y}
  BY DEF Step
<1>2. AttTyped' /\ Exclusive' /\ OneLive'
  BY AttemptSteps
<1>3. Typed' /\ KidOK' /\ \A r \in Parents : BatchOK(r)'
  BY DEF Inv, Typed, KidOK, BatchOK
<1>4. LiveOK'
  <2> SUFFICES ASSUME NEW z \in att', z.live
               PROVE  IF z.w \in Parents THEN par[z.w].pc = "activity"
                      ELSE kid[z.w].pc = "running"
    BY DEF LiveOK
  <2>1. PICK u \in att : u.w = z.w /\ u.live
    BY <1>1
  <2> QED BY <2>1 DEF Inv, LiveOK
<1>5. ASSUME CoverOK PROVE CoverOK'
  <2>1. ItemsOK'
    <3> SUFFICES ASSUME NEW z \in att', z.live, z.w \in Children
                 PROVE  kid[z.w].items \subseteq z.items \cup z.bad \cup onNAS' \cup Unserved
      BY DEF ItemsOK
    <3>1. CASE z \in att
      BY <1>5, <3>1 DEF CoverOK, ItemsOK
    <3>2. CASE z = y
      BY <1>5, <3>2 DEF CoverOK, ItemsOK
    <3> QED BY <1>1, <3>1, <3>2
  <2>2. ASSUME NEW r \in Parents PROVE Covered(r)'
    <3>1. \A a : Held(r, a) => Held(r, a)'
      BY DEF Held
    <3> QED BY <1>5, <3>1, CoveredStays DEF CoverOK
  <2> QED BY <1>5, <2>1, <2>2 DEF CoverOK
<1>6. ASSUME KnownOK PROVE KnownOK'
  <2>1. \A z \in att' : z.items \subseteq known /\ (z.pc \in Busy => z.asset \in known)
    BY <1>1, <1>6 DEF KnownOK
  <2> QED BY <1>6, <2>1 DEF KnownOK
<1> QED BY <1>2, <1>3, <1>4, <1>5, <1>6 DEF Inv

\* Nothing is copied or being copied that was not before.
LEMMA CopiesStay ==
  ASSUME Inv, NEW x \in att, NEW y \in AttemptState, Step(x, y),
         y.pc \notin Busy, UNCHANGED <<onSpool, onNAS>>
  PROVE  CopiedOnce'
BY DEF Inv, CopiedOnce, Step, Busy

\* An attempt that is done with an item gives its lock back.
LEMMA UnlockedType ==
  ASSUME Inv, NEW x \in att, x.pc \in Busy
  PROVE  LET y == Unlocked(x) IN
         /\ y \in AttemptState /\ y.w = x.w /\ y.live = x.live /\ y.pc = "next"
         /\ y.items = x.items \ {x.asset} /\ y.bad = x.bad /\ x.asset \in Assets
BY DEF Inv, AttTyped, AttemptState, Unlocked

\* A worker begins an attempt.
LEMMA BeginKeeps ==
  ASSUME Inv, NEW x \in att, Begin(x)
  PROVE  Inv' /\ (KnownOK => KnownOK') /\ (CoverOK => CoverOK')
<1> DEFINE y == [x EXCEPT !.pc = "next"]
<1>1. /\ y \in AttemptState /\ y.w = x.w /\ y.live = x.live /\ y.pc = "next"
      /\ y.items = x.items /\ y.bad = x.bad
  BY DEF Inv, AttTyped, AttemptState
<1>2. Step(x, y) /\ UNCHANGED <<known, onSpool, onNAS, par, kid, faults>>
  BY DEF Begin
<1> HIDE DEF y
<1>3. CopiedOnce' /\ y.pc \notin Busy
  BY <1>1, <1>2, CopiesStay DEF Busy
<1>4. onSpool' \subseteq Assets /\ onNAS' \subseteq Assets /\ faults' \in 0..MaxFaults
  BY <1>2 DEF Inv, Typed
<1>5. KnownOK => /\ onSpool' \cup onNAS' \subseteq known /\ y.items \subseteq known
                 /\ y.pc \in Busy => y.asset \in known
  BY <1>1, <1>2, <1>3 DEF KnownOK
<1> QED BY <1>1, <1>2, <1>3, <1>4, <1>5, StepKeeps DEF Busy

\* It takes the lock of an item and looks whether there is anything to do.
LEMMA LookUpKeeps ==
  ASSUME Inv, NEW x \in att, NEW a \in x.items, LookUp(x, a)
  PROVE  Inv' /\ (KnownOK => KnownOK') /\ (CoverOK => CoverOK')
<1>1. /\ x \in AttemptState /\ a \in Assets /\ ~Locked(a)
      /\ UNCHANGED <<known, onSpool, onNAS, par, kid, faults>>
      /\ onSpool \subseteq Assets /\ onNAS \subseteq Assets /\ faults \in 0..MaxFaults
  BY DEF LookUp, Inv, Typed, AttTyped, AttemptState
<1>2. ASSUME Step(x, [x EXCEPT !.items = @ \ {a}]), x.pc = "next",
             x.w \in Children => a \in onNAS \cup Unserved
      PROVE  Inv' /\ (KnownOK => KnownOK') /\ (CoverOK => CoverOK')
  <2> DEFINE y == [x EXCEPT !.items = @ \ {a}]
  <2>1. /\ y \in AttemptState /\ y.w = x.w /\ y.live = x.live /\ y.pc = "next"
        /\ y.items = x.items \ {a} /\ y.bad = x.bad /\ Step(x, y)
    BY <1>1, <1>2 DEF AttemptState
  <2> HIDE DEF y
  <2>2. CopiedOnce' /\ y.pc \notin Busy
    BY <1>1, <2>1, CopiesStay DEF Busy
  <2>3. x.w \in Children => x.items \cup x.bad \subseteq y.items \cup y.bad \cup onNAS' \cup Unserved
    BY <1>1, <1>2, <2>1
  <2>4. KnownOK => /\ onSpool' \cup onNAS' \subseteq known /\ y.items \subseteq known
                   /\ y.pc \in Busy => y.asset \in known
    BY <1>1, <2>1, <2>2 DEF KnownOK
  <2> QED BY <1>1, <2>1, <2>2, <2>3, <2>4, StepKeeps DEF Busy
<1>3. ASSUME a \notin (IF Archives(x) THEN onNAS \cup Unserved ELSE onSpool),
             Step(x, [x EXCEPT !.pc = IF Archives(x) THEN "gate" ELSE "spooling",
                               !.asset = a])
      PROVE  Inv' /\ (KnownOK => KnownOK') /\ (CoverOK => CoverOK')
  <2> DEFINE pc == IF x.w \in Children THEN "gate" ELSE "spooling"
             y == [x EXCEPT !.pc = pc, !.asset = a]
  <2>1. /\ y \in AttemptState /\ y.w = x.w /\ y.live = x.live /\ y.pc = pc
        /\ y.items = x.items /\ y.bad = x.bad /\ y.asset = a /\ Step(x, y)
    BY <1>1, <1>3 DEF AttemptState, Archives
  <2> HIDE DEF y
  <2>2. CopiedOnce'
    BY <1>1, <1>3, <2>1 DEF Inv, CopiedOnce, Step, Archives
  <2>3. /\ y.pc \in {"gate", "copy"} => x.w \in Children
        /\ y.pc = "spooling" => x.w \notin Children
    BY <2>1
  <2> HIDE DEF pc
  <2>4. KnownOK => /\ onSpool' \cup onNAS' \subseteq known /\ y.items \subseteq known
                   /\ y.pc \in Busy => y.asset \in known
    BY <1>1, <2>1 DEF KnownOK
  <2> QED BY <1>1, <2>1, <2>2, <2>3, <2>4, StepKeeps
<1>4. /\ x.pc = "next"
      /\ \/ /\ a \in (IF Archives(x) THEN onNAS \cup Unserved ELSE onSpool) \/ ~Archives(x)
            /\ Step(x, [x EXCEPT !.items = @ \ {a}])
         \/ /\ a \notin (IF Archives(x) THEN onNAS \cup Unserved ELSE onSpool)
            /\ Step(x, [x EXCEPT !.pc = IF Archives(x) THEN "gate" ELSE "spooling",
                                 !.asset = a])
  BY DEF LookUp, Settled
<1> QED BY <1>2, <1>3, <1>4 DEF Archives

\* archiveSlot lets it copy.
LEMMA AdmitKeeps ==
  ASSUME Inv, NEW x \in att, Admit(x)
  PROVE  Inv' /\ (KnownOK => KnownOK') /\ (CoverOK => CoverOK')
<1> DEFINE y == [x EXCEPT !.pc = "copy"]
<1>1. /\ x.pc = "gate" /\ x.asset \in Assets /\ x.w \in Children
      /\ onSpool \subseteq Assets /\ onNAS \subseteq Assets /\ faults \in 0..MaxFaults
      /\ Step(x, y) /\ UNCHANGED <<known, onSpool, onNAS, par, kid, faults>>
  BY DEF Admit, Inv, Typed, AttTyped, Busy
<1>2. /\ y \in AttemptState /\ y.w = x.w /\ y.live = x.live /\ y.pc = "copy"
      /\ y.items = x.items /\ y.bad = x.bad /\ y.asset = x.asset
  BY DEF Inv, AttTyped, AttemptState
<1> HIDE DEF y
<1>3. CopiedOnce'
  BY <1>1, <1>2 DEF Inv, CopiedOnce, Step
<1>4. x.pc \in Busy
  BY <1>1 DEF Busy
<1>5. KnownOK => /\ onSpool' \cup onNAS' \subseteq known /\ y.items \subseteq known
                 /\ y.pc \in Busy => y.asset \in known
  BY <1>1, <1>2, <1>4 DEF KnownOK
<1> QED BY <1>1, <1>2, <1>3, <1>4, <1>5, StepKeeps

\* The copy to the NAS ends.
LEMMA CopyEndsKeeps ==
  ASSUME Inv, NEW x \in att, CopyEnds(x)
  PROVE  Inv' /\ (KnownOK => KnownOK') /\ (CoverOK => CoverOK')
<1>1. /\ x.pc = "copy" /\ onNAS' = onNAS \cup {x.asset} /\ Step(x, Unlocked(x))
      /\ UNCHANGED <<known, onSpool, par, kid, faults>>
      /\ onSpool \subseteq Assets /\ onNAS \subseteq Assets /\ faults \in 0..MaxFaults
      /\ x.pc \in Busy
  BY DEF CopyEnds, Inv, Typed, Busy
<1>2. PICK y \in AttemptState :
        /\ y = Unlocked(x) /\ y.w = x.w /\ y.live = x.live /\ y.pc = "next"
        /\ y.items = x.items \ {x.asset} /\ y.bad = x.bad /\ x.asset \in Assets
  BY <1>1, UnlockedType
<1>3. CopiedOnce'
  <2> SUFFICES ASSUME NEW z \in att'
               PROVE  /\ z.pc \in {"gate", "copy"} => z.asset \notin onNAS'
                      /\ z.pc = "spooling" => z.asset \notin onSpool'
    BY DEF CopiedOnce
  <2>1. CASE z = y
    BY <1>2, <2>1
  <2>2. CASE z \in att /\ z # x
    <3>1. z.pc \in Busy => z.asset # x.asset
      BY <1>1, <2>2 DEF Inv, Exclusive
    <3> QED BY <1>1, <2>2, <3>1 DEF Inv, CopiedOnce, Busy
  <2> QED BY <1>1, <1>2, <2>1, <2>2 DEF Step
<1>4. Step(x, y) /\ y.pc \notin Busy /\ onNAS' \subseteq Assets /\ onNAS \subseteq onNAS'
      /\ y.pc \notin {"gate", "copy"}
  BY <1>1, <1>2 DEF Busy
<1>5. x.w \in Children => x.items \cup x.bad \subseteq y.items \cup y.bad \cup onNAS' \cup Unserved
  BY <1>1, <1>2
<1>6. KnownOK => /\ onSpool' \cup onNAS' \subseteq known /\ y.items \subseteq known
                 /\ y.pc \in Busy => y.asset \in known
  BY <1>1, <1>2, <1>4 DEF KnownOK
<1> QED BY <1>1, <1>2, <1>3, <1>4, <1>5, <1>6, StepKeeps

\* The copy to the spool ends.
LEMMA SpoolEndsKeeps ==
  ASSUME Inv, NEW x \in att, SpoolEnds(x)
  PROVE  Inv' /\ (KnownOK => KnownOK') /\ (CoverOK => CoverOK')
<1>1. /\ x.pc = "spooling" /\ onSpool' = onSpool \cup {x.asset} /\ Step(x, Unlocked(x))
      /\ UNCHANGED <<known, onNAS, par, kid, faults>>
      /\ onSpool \subseteq Assets /\ onNAS \subseteq Assets /\ faults \in 0..MaxFaults
      /\ x.pc \in Busy
  BY DEF SpoolEnds, Inv, Typed, Busy
<1>2. PICK y \in AttemptState :
        /\ y = Unlocked(x) /\ y.w = x.w /\ y.live = x.live /\ y.pc = "next"
        /\ y.items = x.items \ {x.asset} /\ y.bad = x.bad /\ x.asset \in Assets
  BY <1>1, UnlockedType
<1>3. CopiedOnce'
  <2> SUFFICES ASSUME NEW z \in att'
               PROVE  /\ z.pc \in {"gate", "copy"} => z.asset \notin onNAS'
                      /\ z.pc = "spooling" => z.asset \notin onSpool'
    BY DEF CopiedOnce
  <2>1. CASE z = y
    BY <1>2, <2>1
  <2>2. CASE z \in att /\ z # x
    <3>1. z.pc \in Busy => z.asset # x.asset
      BY <1>1, <2>2 DEF Inv, Exclusive
    <3> QED BY <1>1, <2>2, <3>1 DEF Inv, CopiedOnce, Busy
  <2> QED BY <1>1, <1>2, <2>1, <2>2 DEF Step
<1>4. Step(x, y) /\ y.pc \notin Busy /\ onSpool' \subseteq Assets
      /\ y.pc \notin {"gate", "copy"}
  BY <1>1, <1>2 DEF Busy
<1>5. x.w \notin Children
  BY <1>1 DEF Inv, AttTyped
<1>6. KnownOK => /\ onSpool' \cup onNAS' \subseteq known /\ y.items \subseteq known
                 /\ y.pc \in Busy => y.asset \in known
  BY <1>1, <1>2, <1>4 DEF KnownOK
<1> QED BY <1>1, <1>2, <1>3, <1>4, <1>5, <1>6, StepKeeps

\* An item fails for good and the batch goes on.
LEMMA ItemFailsKeeps ==
  ASSUME Inv, NEW x \in att, ItemFails(x)
  PROVE  Inv' /\ (KnownOK => KnownOK') /\ (CoverOK => CoverOK')
<1> DEFINE y == [Unlocked(x) EXCEPT !.bad = @ \cup {x.asset}]
<1>1. /\ x.pc \in Busy /\ Step(x, y) /\ UNCHANGED <<known, onSpool, onNAS, par, kid>>
      /\ onSpool \subseteq Assets /\ onNAS \subseteq Assets
  BY DEF ItemFails, Inv, Typed, Busy
<1>2. faults' \in 0..MaxFaults
  BY WorkflowsAssumption DEF ItemFails, Inv, Typed
<1>3. /\ y \in AttemptState /\ y.w = x.w /\ y.live = x.live /\ y.pc = "next"
      /\ y.items = x.items \ {x.asset} /\ y.bad = x.bad \cup {x.asset}
  BY <1>1 DEF Inv, AttTyped, AttemptState, Unlocked
<1> HIDE DEF y
<1>4. CopiedOnce' /\ y.pc \notin Busy /\ y.pc \notin {"gate", "copy"}
  BY <1>1, <1>3, CopiesStay DEF Busy
<1>5. x.items \cup x.bad \subseteq y.items \cup y.bad
  BY <1>3
<1>6. KnownOK => /\ onSpool' \cup onNAS' \subseteq known /\ y.items \subseteq known
                 /\ y.pc \in Busy => y.asset \in known
  BY <1>1, <1>3, <1>4 DEF KnownOK
<1> QED BY <1>1, <1>2, <1>3, <1>4, <1>5, <1>6, StepKeeps

-----------------------------------------------------------------------------
(* How activities end, and begin again.                                    *)

\* The archives and spool-backs of spent have ended.
KidsEnd(spent) ==
  /\ kid' \in [Kids -> KidState]
  /\ \A w \in Kids :
       /\ kid'[w].items = kid[w].items
       /\ kid[w].pc # "running" => kid'[w].pc = kid[w].pc
       /\ kid[w].pc = "running" => kid'[w].pc # "none"
       /\ w \notin spent => kid'[w].pc = kid[w].pc

\* The workflows that wait for those of spent hear of it, with what failed; one
\* whose own activity is of spent goes on with the next.
ParsEnd(spent) ==
  /\ par' \in [Parents -> ParState]
  /\ \A p \in Parents :
       /\ par'[p].todo = par[p].todo /\ par'[p].left = par[p].left /\ par'[p].listed = par[p].listed
       /\ par'[p].offset = par[p].offset /\ par'[p].batches = par[p].batches
       /\ par'[p].joined = par[p].joined /\ par'[p].safe = par[p].safe
       /\ par'[p].waits \subseteq par[p].waits /\ par[p].failed \subseteq par'[p].failed
       /\ p \notin spent => par'[p].pc = par[p].pc /\ par'[p].cur = par[p].cur
       /\ p \in spent =>
            /\ par[p].pc = "activity" /\ par'[p].pc = "spool"
            /\ par'[p].cur = {} /\ par[p].cur \subseteq par'[p].failed

\* No workflow forgets what an archive it waited for did not get to the NAS.
FailuresHeard ==
  \A p \in Parents : \A w \in par[p].waits :
    w \in par'[p].waits \/ kid[w].items \subseteq onNAS \cup par'[p].failed \cup Unserved

\* What the service does with attempts and workflows at once: it ends some workflows,
\* gives up on attempts and queues new ones, and whoever waits hears of the failures.
LEMMA ServiceKeeps ==
  ASSUME Inv, NEW spent, NEW again, NEW D, NEW N,
         KidsEnd(spent), ParsEnd(spent), CoverOK => FailuresHeard,
         \A y \in att' : \/ y \in N
                         \/ y \in att /\ y \notin D
                         \/ \E x \in att : x \in D /\ y = Forgotten(x),
         N \subseteq AttemptState, IsFiniteSet(N),
         \A y \in N : y.pc = "queued" /\ y.w \in again /\ y.items = Items(y.w),
         \A y, z \in N : y.w = z.w => y = z,
         \A w \in again : w \notin spent /\ \E x \in att : x.live /\ x.w = w,
         \A x \in att : x.live /\ x.w \in spent \cup again /\ x \in att' => x \in D,
         UNCHANGED <<known, onSpool, onNAS>>, faults' \in 0..MaxFaults
  PROVE  Inv' /\ (KnownOK => KnownOK') /\ (CoverOK => CoverOK')
<1>1. /\ AttTyped' /\ Exclusive' /\ OneLive' /\ CopiedOnce'
      /\ \A y \in att' : y.live => y \in att \ D \/ y \in N
  BY AttemptsChange
<1>2. Typed'
  BY DEF Inv, Typed, KidsEnd, ParsEnd
<1>3. LiveOK'
  <2> SUFFICES ASSUME NEW y \in att', y.live
               PROVE  IF y.w \in Parents THEN par'[y.w].pc = "activity"
                      ELSE kid'[y.w].pc = "running"
    BY DEF LiveOK
  <2>1. PICK x \in att : x.w = y.w /\ x.live /\ y.w \notin spent
    BY <1>1
  <2>2. y.w \in Parents \/ y.w \in Kids
    BY <2>1, Names DEF Inv, AttTyped, AttemptState
  <2> QED BY <2>1, <2>2 DEF Inv, LiveOK, KidsEnd, ParsEnd
<1>4. ASSUME NEW w \in Kids PROVE kid'[w].pc = "none" <=> kid[w].pc = "none"
  BY DEF KidsEnd
<1>5. \A r \in Parents : BatchOK(r)'
  <2> TAKE r \in Parents
  <2>1. BatchOK(r)
    BY DEF Inv
  <2>2. \A n \in 1..2 : kid[Batch(r, n)].pc = "none" => kid'[Batch(r, n)].pc = "none"
    BY <1>4, Names
  <2>3. /\ par'[r].todo = par[r].todo /\ par'[r].batches = par[r].batches
        /\ par'[r].waits \subseteq par[r].waits
    BY DEF ParsEnd
  <2>4. CASE r \notin spent
    BY <2>1, <2>2, <2>3, <2>4, BatchStays DEF ParsEnd
  <2>5. CASE r \in spent
    <3>1. par[r].pc = "activity" /\ par'[r].pc = "spool" /\ par'[r].cur = {}
      BY <2>5 DEF ParsEnd
    <3>2. /\ par'[r].batches <= 1 /\ (par'[r].batches # 0 => par'[r].todo \subseteq Big)
      BY <2>1, <2>3, <3>1 DEF BatchOK, Spooling
    <3>3. \A q \in Parents, n \in 1..2 :
            Batch(q, n) \in par'[r].waits => q = r /\ n <= par'[r].batches
      BY <2>1, <2>3 DEF BatchOK
    <3>4. \A n \in 1..2 : n > par'[r].batches => kid'[Batch(r, n)].pc = "none"
      BY <2>1, <2>2, <2>3 DEF BatchOK
    <3> QED BY <3>1, <3>2, <3>3, <3>4 DEF BatchOK
  <2> QED BY <2>4, <2>5
<1>6. KidOK'
  <2>1. \A a \in Big : kid'[Archive(a)].pc # "none" => kid'[Archive(a)].items = {a}
    BY <1>4, Names DEF Inv, KidOK, KidsEnd
  <2>2. ASSUME NEW r \in Parents, NEW w \in par'[r].waits PROVE kid'[w].pc # "none"
    <3>1. w \in par[r].waits /\ w \in Kids
      BY Names DEF Inv, Typed, ParState, ParsEnd
    <3> QED BY <1>4, <3>1 DEF Inv, KidOK
  <2> QED BY <2>1, <2>2 DEF KidOK
<1>7. ASSUME CoverOK PROVE CoverOK'
  <2>1. /\ ItemsOK /\ FailuresHeard /\ \A r \in Parents : Covered(r)
        /\ Earlier \subseteq known'
    BY <1>7 DEF CoverOK
  <2>2. ItemsOK'
    <3> SUFFICES ASSUME NEW y \in att', y.live, y.w \in Children
                 PROVE  kid'[y.w].items \subseteq y.items \cup y.bad \cup onNAS \cup Unserved
      BY DEF ItemsOK
    <3>1. kid'[y.w].items = kid[y.w].items /\ y.w \notin Parents
      BY Names DEF KidsEnd
    <3>2. CASE y \in att
      BY <2>1, <3>1, <3>2 DEF ItemsOK
    <3>3. CASE y \in N
      BY <3>1, <3>3 DEF Items
    <3> QED BY <1>1, <3>2, <3>3
  <2>3. ASSUME NEW r \in Parents, NEW a, Held(r, a) PROVE Held(r, a)'
    <3>1. \A w \in par[r].waits : w \in Kids
      BY Names DEF Inv, Typed, ParState
    <3>2. \A w \in par[r].waits :
            \/ w \in par'[r].waits /\ kid'[w].items = kid[w].items
            \/ kid[w].items \subseteq onNAS' \cup par'[r].failed \cup Unserved
      BY <2>1, <3>1 DEF FailuresHeard, KidsEnd
    <3>3. par[r].failed \subseteq par'[r].failed /\ par[r].joined \subseteq par'[r].joined
      BY DEF ParsEnd
    <3> QED BY <2>3, <3>2, <3>3, HeldStays
  <2>4. ASSUME NEW r \in Parents PROVE Covered(r)'
    <3>1. /\ par'[r].todo = par[r].todo /\ par'[r].left = par[r].left
          /\ par'[r].listed = par[r].listed
          /\ par'[r].offset = par[r].offset /\ par'[r].safe = par[r].safe
          /\ par'[r].waits \subseteq par[r].waits
      BY DEF ParsEnd
    <3>2. \A a : Held(r, a) => Held(r, a)'
      BY <2>3
    <3>3. CASE r \notin spent
      <4>1. par'[r].pc = par[r].pc /\ par'[r].cur = par[r].cur
        BY <3>3 DEF ParsEnd
      <4>2. /\ par'[r].pc \in Spooling => par'[r].offset = 0 /\ par'[r].left = {}
            /\ par'[r].pc = "done" =>
                 par'[r].waits = {} /\ (par'[r].safe => Refs(r) \subseteq onNAS)
        BY <2>1, <3>1, <4>1 DEF Covered
      <4>3. par'[r].pc \in {"spool", "activity", "wait", "done"} =>
              \A a \in Refs(r) : Held(r, a)' \/ a \in par'[r].todo \cup par'[r].cur
        BY <2>1, <3>1, <3>2, <4>1 DEF Covered
      <4>4. par'[r].pc \in {"wait", "done"} =>
              par'[r].todo = {} /\ (par'[r].listed => \A a \in Earlier : Held(r, a)')
        BY <2>1, <3>1, <3>2, <4>1 DEF Covered
      <4> QED BY <4>2, <4>3, <4>4 DEF Covered
    <3>4. CASE r \in spent
      <4>1. /\ par[r].pc = "activity" /\ par'[r].pc = "spool"
            /\ par[r].cur \subseteq par'[r].failed
        BY <3>4 DEF ParsEnd
      <4>2. par'[r].offset = 0 /\ par'[r].left = {}
        BY <2>1, <3>1, <4>1 DEF Covered, Spooling
      <4>3. \A a \in Refs(r) : Held(r, a)' \/ a \in par'[r].todo
        <5>1. \A a \in par[r].cur : Held(r, a)'
          BY <4>1 DEF Held
        <5> QED BY <2>1, <3>1, <3>2, <4>1, <5>1 DEF Covered
      <4> QED BY <4>1, <4>2, <4>3 DEF Covered
    <3> QED BY <3>3, <3>4
  <2> QED BY <2>1, <2>2, <2>4 DEF CoverOK
<1>8. ASSUME KnownOK PROVE KnownOK'
  <2>1. \A r \in Parents : par'[r].todo \cup par'[r].cur \cup par'[r].left \subseteq known
    BY <1>8 DEF KnownOK, ParsEnd
  <2>2. \A w \in Kids : kid'[w].items \subseteq known
    BY <1>8 DEF KnownOK, KidsEnd
  <2>3. ASSUME NEW y \in att'
        PROVE  y.items \subseteq known /\ (y.pc \in Busy => y.asset \in known)
    <3>1. CASE y \in N
      <4>1. y.w \in Parents \/ y.w \in Kids
        BY <3>1, Names DEF AttemptState
      <4>2. Items(y.w) \subseteq known
        BY <1>8, <4>1 DEF Items, KnownOK
      <4> QED BY <3>1, <4>2 DEF Busy
    <3>2. CASE y \in att
      BY <1>8, <3>2 DEF KnownOK
    <3>3. CASE \E x \in att : y = Forgotten(x)
      BY <1>8, <3>3 DEF KnownOK, Forgotten, Inv, AttTyped, AttemptState
    <3> QED BY <3>1, <3>2, <3>3
  <2> QED BY <1>8, <2>1, <2>2, <2>3 DEF KnownOK
<1> QED BY <1>1, <1>2, <1>3, <1>5, <1>6, <1>7, <1>8 DEF Inv

\* An attempt that the service counts on no longer ends.
LEMMA LeavesKeeps ==
  ASSUME Inv, NEW x \in att, att' = att \ {x},
         UNCHANGED <<known, onSpool, onNAS, par, kid, faults>>
  PROVE  Inv' /\ (KnownOK => KnownOK') /\ (CoverOK => CoverOK')
<1>1. KidsEnd({}) /\ ParsEnd({}) /\ FailuresHeard
  BY DEF Inv, Typed, KidsEnd, ParsEnd, FailuresHeard
<1>2. IsFiniteSet({}) /\ faults' \in 0..MaxFaults
  BY FS_EmptySet DEF Inv, Typed
<1> DEFINE none == {}
<1>3. /\ \A y \in att' : y \in att /\ y \notin none
      /\ none \subseteq AttemptState /\ \A y : y \notin none
  OBVIOUS
<1>4. KidsEnd(none) /\ ParsEnd(none) /\ IsFiniteSet(none)
  BY <1>1, <1>2
<1> HIDE DEF none
<1> QED BY <1>1, <1>2, <1>3, <1>4, ServiceKeeps

\* Closing a child reports what it did not bring to a NAS to whoever waits for it.
LEMMA CloseDoes ==
  ASSUME Inv, NEW w \in Kids, NEW pc \in {"done", "failed"}, NEW bad \in SUBSET Assets,
         Close(w, pc, bad), kid[w].pc = "running"
  PROVE  /\ KidsEnd({w}) /\ ParsEnd({w})
         /\ (w \in Children => kid[w].items \subseteq onNAS \cup bad \cup Unserved) => FailuresHeard
<1>1. /\ kid' = [kid EXCEPT ![w].pc = pc] /\ kid \in [Kids -> KidState]
      /\ par \in [Parents -> ParState] /\ w \notin Parents
  BY Names DEF Close, Inv, Typed
<1>2. KidsEnd({w})
  <2> DEFINE k == [kid[w] EXCEPT !.pc = pc]
  <2>1. kid' = [kid EXCEPT ![w] = k] /\ k \in KidState /\ k.pc = pc /\ k.items = kid[w].items
    BY <1>1 DEF KidState
  <2> HIDE DEF k
  <2> QED BY <1>1, <2>1 DEF KidsEnd
<1> DEFINE q(p) == [par[p] EXCEPT !.waits = @ \ {w}, !.failed = @ \cup bad]
<1>3. par' = [p \in Parents |-> IF w \in par[p].waits THEN q(p) ELSE par[p]]
  BY DEF Close, Resolved
<1>4. ASSUME NEW p \in Parents
      PROVE  /\ q(p) \in ParState
             /\ q(p).pc = par[p].pc /\ q(p).todo = par[p].todo /\ q(p).cur = par[p].cur
             /\ q(p).left = par[p].left /\ q(p).listed = par[p].listed /\ q(p).offset = par[p].offset
             /\ q(p).batches = par[p].batches /\ q(p).joined = par[p].joined
             /\ q(p).safe = par[p].safe /\ q(p).waits = par[p].waits \ {w}
             /\ q(p).failed = par[p].failed \cup bad
  <2>1. PICK r \in ParState : r = par[p]
    BY <1>1
  <2> QED BY <2>1 DEF ParState
<1>5. \A p \in Parents : par[p] \in ParState
  BY <1>1
<1> HIDE DEF q
<1>6. ParsEnd({w})
  BY <1>1, <1>3, <1>4, <1>5 DEF ParsEnd
<1>7. ASSUME w \in Children => kid[w].items \subseteq onNAS \cup bad \cup Unserved PROVE FailuresHeard
  <2> SUFFICES ASSUME NEW p \in Parents, NEW v \in par[p].waits, v \notin par'[p].waits
               PROVE  kid[v].items \subseteq onNAS \cup par'[p].failed \cup Unserved
    BY DEF FailuresHeard
  <2>1. v = w /\ w \in par[p].waits /\ w \in Children
    BY <1>3, <1>4, <1>5 DEF ParState
  <2>2. bad \subseteq par'[p].failed
    BY <1>3, <1>4, <2>1
  <2> QED BY <1>7, <2>1, <2>2
<1> QED BY <1>2, <1>6, <1>7

\* The activity of x ends with x, and with it the workflow.
LEMMA CloseKeeps ==
  ASSUME Inv, NEW x \in att, x.live, x.w \notin Parents, att' = att \ {x},
         NEW pc \in {"done", "failed"}, NEW bad \in SUBSET Assets, Close(x.w, pc, bad),
         CoverOK /\ x.w \in Children => kid[x.w].items \subseteq onNAS \cup bad \cup Unserved,
         UNCHANGED <<known, onSpool, onNAS>>, faults' \in 0..MaxFaults
  PROVE  Inv' /\ (KnownOK => KnownOK') /\ (CoverOK => CoverOK')
<1>1. x.w \in Kids /\ kid[x.w].pc = "running"
  BY Names DEF Inv, AttTyped, AttemptState, LiveOK
<1>2. /\ KidsEnd({x.w}) /\ ParsEnd({x.w}) /\ (CoverOK => FailuresHeard)
  BY <1>1, CloseDoes
<1> DEFINE none == {}
           spent == {x.w}
<1>3. /\ \A y \in att' : y \in att /\ y \notin none
      /\ none \subseteq AttemptState /\ \A y : y \notin none
      /\ \A y \in att : y.live /\ y.w \in spent \cup none => y \notin att'
  BY DEF Inv, OneLive
<1>4. KidsEnd(spent) /\ ParsEnd(spent) /\ IsFiniteSet(none)
  BY <1>2, FS_EmptySet
<1> HIDE DEF none, spent
<1> QED BY <1>2, <1>3, <1>4, ServiceKeeps

\* An attempt returns with its result.
LEMMA ReturnsKeeps ==
  ASSUME Inv, NEW x \in att, Returns(x)
  PROVE  Inv' /\ (KnownOK => KnownOK') /\ (CoverOK => CoverOK')
<1>1. /\ x.items = {} /\ x.bad \in SUBSET Assets /\ UNCHANGED <<known, onSpool, onNAS, faults>>
      /\ faults' \in 0..MaxFaults
  BY DEF Returns, Inv, Typed, AttTyped, AttemptState
<1>2. CASE ~x.live
  BY <1>1, <1>2, LeavesKeeps DEF Returns
<1>3. CASE x.live /\ x.w \notin Parents
  <2>1. att' = att \ {x} /\ Close(x.w, "done", x.bad)
    BY <1>3 DEF Returns
  <2>2. CoverOK /\ x.w \in Children => kid[x.w].items \subseteq onNAS \cup x.bad \cup Unserved
    BY <1>1, <1>3 DEF CoverOK, ItemsOK
  <2>3. "done" \in {"done", "failed"}
    OBVIOUS
  <2> QED BY <1>1, <1>3, <2>1, <2>2, <2>3, CloseKeeps
<1>4. CASE x.live /\ x.w \in Parents
  <2>1. PICK p \in Parents : p = x.w
    BY <1>4
  <2> DEFINE run == [par[p] EXCEPT !.pc = "spool", !.cur = {}, !.failed = @ \cup x.bad]
             rest == par[p].cur \ x.bad
  <2>2. Handoff(p, run, rest, TRUE)
    BY <1>4, <2>1 DEF Returns, HandOn
  <2>3. par[p].pc = "activity" /\ par \in [Parents -> ParState] /\ par[p] \in ParState
    BY <1>4, <2>1 DEF Inv, Typed, LiveOK
  <2>4. /\ run \in ParState /\ run.todo = par[p].todo /\ run.pc = "spool" /\ run.cur = {}
        /\ run.waits = par[p].waits /\ run.batches = par[p].batches
        /\ run.failed = par[p].failed \cup x.bad /\ run.joined = par[p].joined
        /\ run.left = par[p].left /\ run.listed = par[p].listed /\ run.offset = par[p].offset
    BY <1>1, <2>3 DEF ParState
  <2>5. rest \in SUBSET Assets /\ TRUE \in BOOLEAN /\ rest = par[p].cur \ x.bad
    BY <2>3 DEF ParState
  <2>6. /\ par[p].batches \in Nat /\ par[p].batches <= 1
        /\ par[p].batches # 0 => par[p].todo \cup par[p].cur \subseteq Big
        /\ ~(par[p].cur \subseteq Big) => par[p].todo = {}
    BY <2>3 DEF Inv, BatchOK, Spooling, ParState
  <2> HIDE DEF run, rest
  <2>7. PICK W, q : Handed(p, run, rest, TRUE, W, q)
    BY <2>2, <2>4, <2>5, <2>6, HandoffDoes
  <2>8. /\ par' = [par EXCEPT ![p] = q] /\ q.pc = "spool" /\ q.todo = par[p].todo
        /\ q.left = par[p].left /\ q.listed = par[p].listed /\ q.offset = par[p].offset /\ q.batches \in Nat
        /\ par[p].failed \cup x.bad \subseteq q.failed
        /\ q.batches # par[p].batches => ~(rest \subseteq Big) /\ q.batches = par[p].batches + 1
    BY <2>4, <2>7 DEF Handed, ParState
  <2>9. q.batches <= 1 /\ (q.batches # 0 => run.todo \subseteq Big)
    BY <2>4, <2>5, <2>6, <2>8
  <2>10. Inv'
    BY <1>1, <2>4, <2>5, <2>7, <2>9, HandedKeeps
  <2>11. ASSUME CoverOK PROVE CoverOK'
    <3>1. /\ ItemsOK /\ \A r \in Parents : Covered(r)
          /\ Earlier \subseteq known'
      BY <1>1, <2>11 DEF CoverOK
    <3>2. /\ ItemsOK' /\ \A r \in Parents : \A b : Held(r, b) => Held(r, b)'
          /\ \A b \in rest : Held(p, b)'
      BY <1>1, <2>4, <2>5, <2>7, <3>1, HandedHolds
    <3>3. par'[p] = q /\ \A r \in Parents : r # p => par'[r] = par[r]
      BY <2>3, <2>8
    <3>4. \A r \in Parents : r # p => Covered(r)'
      BY <1>1, <3>1, <3>2, <3>3, CoveredStays
    <3>5. \A b \in x.bad : Held(p, b)'
      BY <2>8, <3>3 DEF Held
    <3>6. \A b \in Refs(p) : Held(p, b) \/ b \in par[p].todo \/ b \in rest \/ b \in x.bad
      BY <2>3, <2>5, <3>1 DEF Covered
    <3>7. \A b \in Refs(p) : Held(p, b)' \/ b \in par'[p].todo
      BY <2>8, <3>2, <3>3, <3>5, <3>6
    <3>8. par'[p].offset = 0 /\ par'[p].left = {} /\ par'[p].pc = "spool"
      BY <2>3, <2>8, <3>1, <3>3 DEF Covered, Spooling
    <3>9. Covered(p)'
      BY <3>7, <3>8 DEF Covered
    <3> QED BY <3>1, <3>2, <3>4, <3>9 DEF CoverOK
  <2>12. ASSUME KnownOK PROVE KnownOK'
    <3>1. /\ par[p].todo \cup par[p].left \subseteq known
          /\ rest \subseteq known
      BY <2>5, <2>12 DEF KnownOK
    <3> QED BY <1>1, <2>4, <2>5, <2>7, <2>12, <3>1, HandedKnown
  <2> QED BY <2>10, <2>11, <2>12
<1> QED BY <1>2, <1>3, <1>4

\* classify: a conflict is not retried.
LEMMA ConflictsKeeps ==
  ASSUME Inv, NEW x \in att, Conflicts(x)
  PROVE  Inv' /\ (KnownOK => KnownOK') /\ (CoverOK => CoverOK')
<1>1. /\ att' = att \ {x} /\ UNCHANGED <<known, onSpool, onNAS, faults>>
      /\ x.w \in Children /\ x.w \in Kids /\ x.w \notin Parents
      /\ faults' \in 0..MaxFaults
  BY Names DEF Conflicts, Inv, Typed, AttTyped
<1>2. CASE ~x.live
  BY <1>1, <1>2, LeavesKeeps DEF Conflicts
<1>3. CASE x.live
  <2>1. Close(x.w, "failed", kid[x.w].items) /\ "failed" \in {"done", "failed"}
    BY <1>1, <1>3 DEF Conflicts, GivesUp
  <2>2. kid[x.w].items \in SUBSET Assets
    BY <1>1 DEF Inv, Typed, KidState
  <2> QED BY <1>1, <1>3, <2>1, <2>2, CloseKeeps
<1> QED BY <1>2, <1>3

\* The attempts of lost have ended; rest are the others, and some of lost that the
\* service counts on no longer.
LEMMA RetryKeeps ==
  ASSUME Inv, NEW lost \in SUBSET att, NEW rest, Retry(lost, rest),
         \A y \in rest : \/ y \in att /\ y \notin lost
                         \/ \E x \in lost : y = Forgotten(x),
         UNCHANGED <<known, onSpool, onNAS>>, faults' \in 0..MaxFaults
  PROVE  Inv' /\ (KnownOK => KnownOK') /\ (CoverOK => CoverOK')
<1> DEFINE again == {x.w : x \in {y \in lost : y.live /\ Tries(y.w) < MaxTries}}
           spent == {x.w : x \in {y \in lost : y.live /\ Tries(y.w) >= MaxTries}}
           N == {Attempt(w, Items(w), rest) : w \in again}
<1>1. /\ att' = rest \cup N
      /\ kid' = [w \in DOMAIN kid |->
           IF w \in again THEN [kid[w] EXCEPT !.tries = @ + 1]
           ELSE IF w \in spent THEN [kid[w] EXCEPT !.pc = "failed"]
           ELSE kid[w]]
      /\ par' = [p \in Parents |->
           LET q == [par[p] EXCEPT
                 !.waits = @ \ spent,
                 !.failed = @ \cup UNION {kid[w].items : w \in spent \cap par[p].waits}]
           IN IF p \in again THEN [q EXCEPT !.tries = @ + 1]
              ELSE IF p \in spent
              THEN [q EXCEPT !.pc = "spool", !.cur = {}, !.failed = @ \cup par[p].cur]
              ELSE q]
  BY DEF Retry
<1>2. /\ par \in [Parents -> ParState] /\ kid \in [Kids -> KidState]
      /\ lost \subseteq AttemptState /\ IsFiniteSet(att) /\ IsFiniteSet(lost)
      /\ MaxTries \in Nat
  BY WorkflowsAssumption, FS_Subset DEF Inv, Typed, AttTyped
<1>3. ASSUME NEW w \in again
      PROVE  /\ w \in Workflows /\ w \notin spent /\ Tries(w) < MaxTries
             /\ \E x \in lost : x.live /\ x.w = w
             /\ w \in Parents => par[w].pc = "activity"
             /\ w \notin Parents => w \in Kids /\ kid[w].pc = "running"
  <2>1. PICK x \in lost : x.live /\ x.w = w /\ Tries(w) < MaxTries
    OBVIOUS
  <2>2. w \in Workflows
    BY <1>2, <2>1 DEF AttemptState
  <2>3. Tries(w) \in Nat
    BY <1>2, <2>2, Names DEF Tries, ParState, KidState
  <2>4. w \notin spent
    BY <1>2, <2>1, <2>3
  <2> QED BY <2>1, <2>2, <2>4, Names DEF Inv, LiveOK
<1>4. ASSUME NEW w \in spent
      PROVE  /\ w \in Workflows /\ \E x \in lost : x.live /\ x.w = w
             /\ w \in Parents => par[w].pc = "activity"
             /\ w \notin Parents => w \in Kids /\ kid[w].pc = "running"
  <2>1. PICK x \in lost : x.live /\ x.w = w
    OBVIOUS
  <2>2. w \in Workflows
    BY <1>2, <2>1 DEF AttemptState
  <2> QED BY <2>1, <2>2, Names DEF Inv, LiveOK
<1>5. IsFiniteSet(rest)
  <2> DEFINE F == {y \in rest : \E x \in lost : y = Forgotten(x)}
  <2>1. rest \subseteq att \cup F /\ \A y \in F : \E x \in lost : y = Forgotten(x)
    OBVIOUS
  <2> HIDE DEF F
  <2>2. IsFiniteSet(F)
    BY <1>2, <2>1, FiniteForgotten
  <2> QED BY <1>2, <2>1, <2>2, FS_Union, FS_Subset
<1>6. IsFiniteSet(again)
  <2> DEFINE T == {x.w : x \in lost}
             g == [x \in lost |-> x.w]
  <2>1. g \in [lost -> T] /\ \A w \in again : \E x \in lost : g[x] = w
    OBVIOUS
  <2>2. IsFiniteSet(lost)
    BY <1>2
  <2> HIDE DEF T, g, again
  <2> QED BY <2>1, <2>2, FiniteImage
<1>7. IsFiniteSet(N)
  <2> DEFINE g == [w \in again |-> Attempt(w, Items(w), rest)]
  <2> HIDE DEF again
  <2>1. g \in [again -> N] /\ \A y \in N : \E w \in again : g[w] = y
    OBVIOUS
  <2> HIDE DEF N, g
  <2> QED BY <1>6, <2>1, FiniteImage
<1> HIDE DEF again, spent
<1>8. \A w \in again : /\ Attempt(w, Items(w), rest) \in AttemptState
                       /\ Attempt(w, Items(w), rest).w = w
                       /\ Attempt(w, Items(w), rest).pc = "queued"
                       /\ Attempt(w, Items(w), rest).items = Items(w)
  <2> TAKE w \in again
  <2>1. Items(w) \in SUBSET Assets /\ w \in Workflows
    BY <1>2, <1>3, Names DEF Items, ParState, KidState
  <2> QED BY <1>5, <2>1, AttemptType, Zenon
<1>9. /\ N \subseteq AttemptState
      /\ \A y \in N : y.pc = "queued" /\ y.w \in again /\ y.items = Items(y.w)
      /\ \A y, z \in N : y.w = z.w => y = z
  BY <1>8
<1> HIDE DEF N
<1>10. KidsEnd(spent)
  <2>1. DOMAIN kid = Kids /\ DOMAIN kid' = Kids
    BY <1>1, <1>2
  <2>2. ASSUME NEW w \in Kids
        PROVE  /\ kid'[w] \in KidState /\ kid'[w].items = kid[w].items
               /\ kid[w].pc # "running" => kid'[w].pc = kid[w].pc
               /\ kid[w].pc = "running" => kid'[w].pc # "none"
               /\ w \notin spent => kid'[w].pc = kid[w].pc
    <3>1. PICK k \in KidState : k = kid[w]
      BY <1>2
    <3>2. w \notin Parents
      BY Names
    <3>3. CASE w \in again
      <4>1. kid'[w] = [k EXCEPT !.tries = @ + 1]
        BY <1>1, <2>1, <3>1, <3>3
      <4>2. k.tries < MaxTries
        BY <1>3, <3>1, <3>2, <3>3 DEF Tries
      <4> QED BY <1>2, <3>1, <4>1, <4>2 DEF KidState
    <3>4. CASE w \notin again /\ w \in spent
      <4>1. kid'[w] = [k EXCEPT !.pc = "failed"] /\ k.pc = "running"
        BY <1>1, <1>4, <2>1, <3>1, <3>2, <3>4
      <4> QED BY <3>1, <3>4, <4>1 DEF KidState
    <3>5. CASE w \notin again /\ w \notin spent
      <4>1. kid'[w] = k
        BY <1>1, <2>1, <3>1, <3>5
      <4> QED BY <3>1, <4>1 DEF KidState
    <3> QED BY <3>3, <3>4, <3>5
  <2>3. kid' \in [Kids -> KidState]
    <3>1. kid' = [w \in Kids |-> kid'[w]]
      BY <1>1, <2>1
    <3> QED BY <2>2, <3>1
  <2> QED BY <2>2, <2>3 DEF KidsEnd
<1> DEFINE bad(p) == UNION {kid[w].items : w \in spent \cap par[p].waits}
<1>11. \A p \in Parents : /\ bad(p) \subseteq Assets
                          /\ \A w \in spent \cap par[p].waits : kid[w].items \subseteq bad(p)
  <2> TAKE p \in Parents
  <2>1. \A w \in par[p].waits : kid[w].items \subseteq Assets
    BY <1>2, Names DEF ParState, KidState
  <2> QED BY <2>1
<1>12. ASSUME NEW p \in Parents
       PROVE  LET q == [par[p] EXCEPT !.waits = @ \ spent, !.failed = @ \cup bad(p)] IN
              par'[p] = IF p \in again THEN [q EXCEPT !.tries = @ + 1]
                        ELSE IF p \in spent
                        THEN [q EXCEPT !.pc = "spool", !.cur = {}, !.failed = @ \cup par[p].cur]
                        ELSE q
  BY <1>1
<1> HIDE DEF bad
<1>13. ASSUME NEW p \in Parents
       PROVE  /\ par'[p] \in ParState
              /\ par'[p].todo = par[p].todo /\ par'[p].left = par[p].left /\ par'[p].listed = par[p].listed
              /\ par'[p].offset = par[p].offset /\ par'[p].batches = par[p].batches
              /\ par'[p].joined = par[p].joined /\ par'[p].safe = par[p].safe
              /\ par'[p].waits = par[p].waits \ spent
              /\ par[p].failed \cup bad(p) \subseteq par'[p].failed
              /\ p \notin spent => par'[p].pc = par[p].pc /\ par'[p].cur = par[p].cur
              /\ p \in spent => /\ par[p].pc = "activity" /\ par'[p].pc = "spool"
                                /\ par'[p].cur = {} /\ par[p].cur \subseteq par'[p].failed
  <2>1. PICK r \in ParState : r = par[p]
    BY <1>2
  <2>2. PICK b \in SUBSET Assets : b = bad(p)
    BY <1>11
  <2>3. PICK q : q = [r EXCEPT !.waits = @ \ spent, !.failed = @ \cup b]
    OBVIOUS
  <2>4. /\ q \in ParState /\ q.pc = r.pc /\ q.todo = r.todo /\ q.cur = r.cur
        /\ q.left = r.left /\ q.listed = r.listed /\ q.offset = r.offset /\ q.batches = r.batches
        /\ q.joined = r.joined /\ q.safe = r.safe /\ q.tries = r.tries
        /\ q.waits = r.waits \ spent /\ q.failed = r.failed \cup b
    BY <2>3 DEF ParState
  <2>5. par'[p] = IF p \in again THEN [q EXCEPT !.tries = @ + 1]
                  ELSE IF p \in spent
                  THEN [q EXCEPT !.pc = "spool", !.cur = {}, !.failed = @ \cup r.cur]
                  ELSE q
    BY <1>12, <2>1, <2>2, <2>3
  <2>6. CASE p \in again
    <3>1. q.tries < MaxTries /\ p \notin spent
      BY <1>3, <2>1, <2>4, <2>6 DEF Tries
    <3>2. par'[p] = [q EXCEPT !.tries = @ + 1]
      BY <2>5, <2>6
    <3> QED BY <1>2, <2>1, <2>2, <2>4, <3>1, <3>2 DEF ParState
  <2>7. CASE p \notin again /\ p \in spent
    <3>1. par'[p] = [q EXCEPT !.pc = "spool", !.cur = {}, !.failed = @ \cup r.cur]
      BY <2>5, <2>7
    <3>2. par[p].pc = "activity"
      BY <1>4, <2>7
    <3>3. /\ par'[p] \in ParState
          /\ par'[p].pc = "spool" /\ par'[p].cur = {} /\ par'[p].failed = q.failed \cup r.cur
          /\ par'[p].todo = q.todo /\ par'[p].left = q.left /\ par'[p].listed = q.listed /\ par'[p].offset = q.offset
          /\ par'[p].batches = q.batches /\ par'[p].joined = q.joined
          /\ par'[p].safe = q.safe /\ par'[p].waits = q.waits
      <4>1. r.cur \in SUBSET Assets /\ q \in ParState
        BY <2>4 DEF ParState
      <4>2. PICK z : z = par'[p]
        OBVIOUS
      <4>3. z = [q EXCEPT !.pc = "spool", !.cur = {}, !.failed = @ \cup r.cur]
        BY <3>1, <4>2
      <4>4. /\ z \in ParState
            /\ z.pc = "spool" /\ z.cur = {} /\ z.failed = q.failed \cup r.cur
            /\ z.todo = q.todo /\ z.left = q.left /\ z.listed = q.listed /\ z.offset = q.offset
            /\ z.batches = q.batches /\ z.joined = q.joined
            /\ z.safe = q.safe /\ z.waits = q.waits
        BY <4>1, <4>3 DEF ParState
      <4> QED BY <4>2, <4>4
    <3> QED BY <2>1, <2>2, <2>4, <2>7, <3>2, <3>3
  <2>8. CASE p \notin again /\ p \notin spent
    BY <2>1, <2>2, <2>4, <2>5, <2>8
  <2> QED BY <2>6, <2>7, <2>8
<1>14. ParsEnd(spent)
  <2>1. par' = [p \in Parents |-> par'[p]]
    BY <1>1
  <2>2. par' \in [Parents -> ParState]
    BY <1>13, <2>1
  <2> QED BY <1>13, <2>2 DEF ParsEnd
<1>15. FailuresHeard
  BY <1>11, <1>13 DEF FailuresHeard
<1>16. /\ \A y \in att' : \/ y \in N
                          \/ y \in att /\ y \notin lost
                          \/ \E x \in att : x \in lost /\ y = Forgotten(x)
       /\ \A w \in again : w \notin spent /\ \E x \in att : x.live /\ x.w = w
  <2>1. \A y \in att' : \/ y \in N
                        \/ y \in att /\ y \notin lost
                        \/ \E x \in att : x \in lost /\ y = Forgotten(x)
    BY <1>1
  <2>2. \A w \in again : w \notin spent /\ \E x \in att : x.live /\ x.w = w
    BY <1>3
  <2> QED BY <2>1, <2>2
<1>17. \A x \in att : x.live /\ x.w \in spent \cup again /\ x \in att' => x \in lost
  BY <1>3, <1>4 DEF Inv, OneLive
<1> QED BY <1>7, <1>9, <1>10, <1>14, <1>15, <1>16, <1>17, ServiceKeeps

\* Faults are counted up to the bound.
LEMMA FaultType == ASSUME Inv, Fault PROVE faults' \in 0..MaxFaults
BY WorkflowsAssumption DEF Inv, Typed, Fault

\* An attempt fails, and is retried while tries are left.
LEMMA FailsKeeps ==
  ASSUME Inv, NEW x \in att, Fails(x)
  PROVE  Inv' /\ (KnownOK => KnownOK') /\ (CoverOK => CoverOK')
<1> DEFINE lost == {x}
           rest == att \ lost
<1>1. /\ Retry(lost, rest) /\ lost \in SUBSET att
      /\ UNCHANGED <<known, onSpool, onNAS>> /\ faults' \in 0..MaxFaults
  BY FaultType DEF Fails
<1>2. \A y \in rest : y \in att /\ y \notin lost
  OBVIOUS
<1> HIDE DEF rest, lost
<1> QED BY <1>1, <1>2, RetryKeeps

\* An attempt is given up on and goes on running, beside its retry.
LEMMA TimesOutKeeps ==
  ASSUME Inv, NEW x \in att, TimesOut(x)
  PROVE  Inv' /\ (KnownOK => KnownOK') /\ (CoverOK => CoverOK')
<1> DEFINE lost == {x}
           rest == (att \ lost) \cup {Forgotten(x)}
<1>1. /\ Retry(lost, rest) /\ lost \in SUBSET att
      /\ UNCHANGED <<known, onSpool, onNAS>> /\ faults' \in 0..MaxFaults
  BY FaultType DEF TimesOut, Forgotten
<1>2. \A y \in rest : \/ y \in att /\ y \notin lost
                      \/ \E z \in lost : y = Forgotten(z)
  OBVIOUS
<1> HIDE DEF rest, lost
<1> QED BY <1>1, <1>2, RetryKeeps

\* A worker restarts: what it ran is gone.
LEMMA RestartKeeps ==
  ASSUME Inv, Restart
  PROVE  Inv' /\ (KnownOK => KnownOK') /\ (CoverOK => CoverOK')
<1> DEFINE lost == {x \in att : Running(x)}
           rest == {x \in att : ~Running(x)}
<1>1. /\ Retry(lost, rest) /\ lost \in SUBSET att
      /\ UNCHANGED <<known, onSpool, onNAS>> /\ faults' \in 0..MaxFaults
  BY FaultType DEF Restart
<1>2. \A y \in rest : y \in att /\ y \notin lost
  OBVIOUS
<1> HIDE DEF rest, lost
<1> QED BY <1>1, <1>2, RetryKeeps

\* An attempt that was interrupted is retried.
LEMMA InterruptedKeeps ==
  ASSUME Inv, NEW x \in att, Interrupted(x)
  PROVE  Inv' /\ (KnownOK => KnownOK') /\ (CoverOK => CoverOK')
BY LeavesKeeps DEF Interrupted

-----------------------------------------------------------------------------
(* Quick activities that fail for good.                                    *)

\* A parent with no attempt under way goes on, or ends, without what it asked for.
LEMMA QuickFailsKeeps ==
  ASSUME Inv, NEW p \in Parents, QuickFails(p)
  PROVE  Inv' /\ (KnownOK => KnownOK') /\ (CoverOK => CoverOK')
<1>0. /\ par \in [Parents -> ParState] /\ par[p] \in ParState /\ faults \in 0..MaxFaults
      /\ onNAS \subseteq Assets /\ known \subseteq Assets /\ Refs(p) \subseteq Assets
  BY Names DEF Inv, Typed
<1>f. Fault => faults' \in 0..MaxFaults
  BY <1>0, WorkflowsAssumption DEF Fault
\* Where it goes, q, and what is known then.
<1>1. ASSUME NEW q \in ParState, par' = [par EXCEPT ![p] = q],
             UNCHANGED <<onSpool, onNAS, kid, att>>, faults' \in 0..MaxFaults,
             known \subseteq known', known' \subseteq Assets,
             par[p].pc \in {"start", "spool"}, q.pc \in {"failed", "spool", "wait"},
             q.cur = par[p].cur, q.waits = par[p].waits, q.batches = par[p].batches,
             q.joined = par[p].joined, q.todo \subseteq par[p].todo,
             q.left \in {par[p].left, {}}, par[p].failed \subseteq q.failed,
             q.pc = "spool" => /\ par[p].pc = "spool" /\ par[p].todo \ q.todo \subseteq q.failed
                               /\ q.left = par[p].left /\ q.offset = par[p].offset,
             q.pc = "wait" => par[p].pc = "spool" /\ par[p].todo = {} /\ ~q.listed
      PROVE  Inv' /\ (KnownOK => KnownOK') /\ (CoverOK => CoverOK')
  <2>1. par'[p] = q /\ \A r \in Parents : r # p => par'[r] = par[r]
    BY <1>0, <1>1
  <2>2. /\ par[p].cur = {} /\ \A x \in att : x.w = p => ~x.live
    BY <1>1 DEF Inv, BatchOK, LiveOK
  <2>3. Typed' /\ AttTyped' /\ Exclusive' /\ OneLive' /\ CopiedOnce'
    <3>1. Typed'
      BY <1>0, <1>1 DEF Inv, Typed
    <3> QED BY <1>1, <3>1 DEF Inv, AttTyped, Exclusive, OneLive, CopiedOnce
  <2>4. LiveOK'
    BY <1>1, <2>1, <2>2 DEF Inv, LiveOK
  <2>5. \A r \in Parents : BatchOK(r)'
    <3> TAKE r \in Parents
    <3>1. BatchOK(r) /\ BatchOK(p)
      BY DEF Inv
    <3>2. CASE r # p
      BY <1>1, <2>1, <3>1, <3>2 DEF BatchOK
    <3>3. CASE r = p
      BY <1>1, <2>1, <2>2, <3>1, <3>3 DEF BatchOK, Spooling
    <3> QED BY <3>2, <3>3
  <2>6. KidOK'
    BY <1>1, <2>1 DEF Inv, KidOK
  <2>7. ASSUME KnownOK PROVE KnownOK'
    <3>1. \A r \in Parents : par'[r].todo \cup par'[r].cur \cup par'[r].left \subseteq known'
      BY <1>1, <2>1, <2>7 DEF KnownOK
    <3> QED BY <1>1, <2>7, <3>1 DEF KnownOK
  <2>8. ASSUME CoverOK PROVE CoverOK'
    <3>1. ItemsOK'
      BY <1>1, <2>8 DEF CoverOK, ItemsOK
    <3>2. ASSUME NEW r \in Parents, NEW a, Held(r, a) PROVE Held(r, a)'
      BY <1>1, <2>1, <3>2 DEF Held
    <3>3. \A r \in Parents : r # p => Covered(r)'
      BY <1>1, <2>1, <2>8, <3>2, CoveredStays DEF CoverOK
    <3>4. Covered(p)
      BY <2>8 DEF CoverOK
    <3>5. CASE q.pc = "failed"
      <4>1. Covered(p)'
        BY <2>1, <3>5 DEF Covered, Spooling
      <4> QED BY <1>1, <2>8, <3>1, <3>3, <4>1 DEF CoverOK
    <3>6. CASE q.pc = "spool"
      <4>1. q.offset = 0 /\ q.left = {}
        BY <1>1, <3>4, <3>6 DEF Covered, Spooling
      <4>2. \A a \in Refs(p) : Held(p, a)' \/ a \in q.todo \cup q.cur
        BY <1>1, <2>1, <3>2, <3>4, <3>6 DEF Covered, Held
      <4>3. Covered(p)'
        BY <2>1, <3>6, <4>1, <4>2 DEF Covered, Spooling
      <4> QED BY <1>1, <2>8, <3>1, <3>3, <4>3 DEF CoverOK
    <3>7. CASE q.pc = "wait"
      <4>1. q.todo = {} /\ \A a \in Refs(p) : Held(p, a)'
        BY <1>1, <2>2, <3>2, <3>4, <3>7 DEF Covered
      <4>2. Covered(p)'
        BY <1>1, <2>1, <3>7, <4>1 DEF Covered, Spooling
      <4> QED BY <1>1, <2>8, <3>1, <3>3, <4>2 DEF CoverOK
    <3> QED BY <1>1, <3>5, <3>6, <3>7
  <2> QED BY <2>3, <2>4, <2>5, <2>6, <2>7, <2>8 DEF Inv
<1>2. CASE StartFails(p)
  <2> DEFINE q == [par[p] EXCEPT !.pc = "failed"]
  <2>1. /\ par' = [par EXCEPT ![p] = q] /\ UNCHANGED <<onSpool, onNAS, kid, att>>
        /\ par[p].pc = "start" /\ known \subseteq known' /\ known' \subseteq Assets
        /\ faults' \in 0..MaxFaults
    BY <1>0, <1>2, <1>f DEF StartFails
  <2>2. /\ q \in ParState /\ q.pc = "failed" /\ q.cur = par[p].cur /\ q.waits = par[p].waits
        /\ q.batches = par[p].batches /\ q.joined = par[p].joined /\ q.todo = par[p].todo
        /\ q.left = par[p].left /\ q.failed = par[p].failed
    BY <1>0 DEF ParState
  <2> HIDE DEF q
  <2> QED BY <1>1, <2>1, <2>2
<1>3. ASSUME NEW a \in Big, LookupFails(p, a)
      PROVE  Inv' /\ (KnownOK => KnownOK') /\ (CoverOK => CoverOK')
  <2> DEFINE q == [par[p] EXCEPT !.todo = @ \ {a}, !.failed = @ \cup {a}]
  <2>1. /\ par' = [par EXCEPT ![p] = q] /\ UNCHANGED <<known, onSpool, onNAS, kid, att>>
        /\ par[p].pc = "spool" /\ a \in par[p].todo /\ faults' \in 0..MaxFaults
    BY <1>3, <1>f DEF LookupFails
  <2>2. /\ q \in ParState /\ q.pc = "spool" /\ q.cur = par[p].cur /\ q.waits = par[p].waits
        /\ q.batches = par[p].batches /\ q.joined = par[p].joined
        /\ q.todo = par[p].todo \ {a} /\ q.failed = par[p].failed \cup {a}
        /\ q.left = par[p].left /\ q.offset = par[p].offset
    BY <1>0, <2>1 DEF ParState
  <2> HIDE DEF q
  <2> QED BY <1>0, <1>1, <2>1, <2>2
<1>4. CASE PageFails(p)
  <2> DEFINE pc == IF p \in Imports THEN "wait" ELSE "failed"
             q == [par[p] EXCEPT !.pc = pc, !.left = {}, !.listed = FALSE]
  <2>1. /\ par' = [par EXCEPT ![p] = q] /\ UNCHANGED <<known, onSpool, onNAS, kid, att>>
        /\ par[p].pc = "spool" /\ par[p].todo = {} /\ faults' \in 0..MaxFaults
    BY <1>4, <1>f DEF PageFails
  <2>2. /\ q \in ParState /\ q.pc = pc /\ q.cur = par[p].cur /\ q.waits = par[p].waits
        /\ q.batches = par[p].batches /\ q.joined = par[p].joined /\ q.todo = par[p].todo
        /\ q.left = {} /\ q.failed = par[p].failed /\ ~q.listed
    BY <1>0 DEF ParState
  <2>3. pc \in {"failed", "wait"}
    OBVIOUS
  <2> HIDE DEF q, pc
  <2> QED BY <1>0, <1>1, <2>1, <2>2, <2>3
<1> QED BY <1>2, <1>3, <1>4 DEF QuickFails

-----------------------------------------------------------------------------
(* The theorems.                                                           *)

\* Before anything starts the invariants hold.
LEMMA InitHolds ==
  ASSUME Init
  PROVE  Inv /\ KnownOK /\ CoverOK
<1>1. 0 \in 0..MaxTries /\ 0 \in 0..MaxFaults
  BY WorkflowsAssumption
<1>2. /\ par \in [Parents -> ParState]
      /\ \A p \in Parents : /\ par[p].pc = "start" /\ par[p].todo = {} /\ par[p].cur = {}
                            /\ par[p].left = {} /\ par[p].offset = 0 /\ par[p].waits = {}
                            /\ par[p].batches = 0
  BY <1>1 DEF Init, ParState
<1>3. /\ kid \in [Kids -> KidState]
      /\ \A w \in Kids : kid[w].pc = "none" /\ kid[w].items = {}
  BY <1>1 DEF Init, KidState, Kids
<1>4. att = {} /\ known = Earlier /\ onSpool = {} /\ onNAS = {} /\ faults = 0 /\ IsFiniteSet(att)
  BY FS_EmptySet DEF Init
<1>5. Typed
  BY <1>1, <1>2, <1>3, <1>4, Names DEF Typed
<1>6. AttTyped /\ Exclusive /\ OneLive /\ LiveOK /\ CopiedOnce
  BY <1>4 DEF AttTyped, Exclusive, OneLive, LiveOK, CopiedOnce
<1>7. \A p \in Parents : BatchOK(p)
  BY <1>2, <1>3, Names DEF BatchOK
<1>8. KidOK
  BY <1>2, <1>3, Names DEF KidOK
<1>9. KnownOK
  BY <1>2, <1>3, <1>4 DEF KnownOK
<1>10. CoverOK
  BY <1>2, <1>4 DEF CoverOK, ItemsOK, Covered
<1> QED BY <1>5, <1>6, <1>7, <1>8, <1>9, <1>10 DEF Inv

\* Every step keeps the invariants; that nobody is forgotten, where one page is enough.
LEMMA NextKeeps ==
  ASSUME Inv, [Next]_vars
  PROVE  Inv' /\ (KnownOK => KnownOK') /\ (NoPaging /\ CoverOK => CoverOK')
<1>1. ASSUME NEW p \in Parents, ParentStep(p)
      PROVE  Inv' /\ (KnownOK => KnownOK') /\ (NoPaging /\ CoverOK => CoverOK')
  BY <1>1, StartKeeps, SpoolLargeKeeps, SpoolSmallKeeps, ReadPageKeeps, CompleteKeeps
     DEF ParentStep
<1>2. ASSUME NEW x \in att, AttemptStep(x)
      PROVE  Inv' /\ (KnownOK => KnownOK') /\ (CoverOK => CoverOK')
  BY <1>2, BeginKeeps, LookUpKeeps, AdmitKeeps, CopyEndsKeeps, SpoolEndsKeeps, ReturnsKeeps,
     ItemFailsKeeps, ConflictsKeeps, InterruptedKeeps DEF AttemptStep
<1>3. CASE \E p \in Imports : Cancel(p)
  BY <1>3, CancelKeeps DEF Parents
<1>4. CASE UNCHANGED vars
  <2>1. Inv' = Inv /\ KnownOK' = KnownOK
    BY <1>4 DEF vars, Inv, Typed, AttTyped, Exclusive, OneLive, LiveOK, BatchOK, KidOK,
                CopiedOnce, KnownOK
  <2>2. CoverOK' = CoverOK
    BY <1>4 DEF vars, CoverOK, ItemsOK, Covered, Held
  <2> QED BY <2>1, <2>2
<1>5. CASE StartRecall
  BY <1>5, StartRecallKeeps
<1>6. CASE \E x \in att : Fails(x) \/ TimesOut(x)
  BY <1>6, FailsKeeps, TimesOutKeeps
<1>7. CASE Restart
  BY <1>7, RestartKeeps
<1>8. CASE Idle
  BY <1>4, <1>8 DEF Idle
<1>9. CASE \E p \in Parents : QuickFails(p)
  BY <1>9, QuickFailsKeeps
<1> QED BY <1>1, <1>2, <1>3, <1>4, <1>5, <1>6, <1>7, <1>8, <1>9 DEF Next, Progress

\* The attempts agree with what the service knows of them, the lock of an asset is
\* exclusive, and a workflow starts at most one batch for its card and one for the
\* leftovers.
THEOREM InvariantHolds == Spec => [](Inv /\ KnownOK)
<1>1. Init => Inv /\ KnownOK
  BY InitHolds
<1>2. Inv /\ KnownOK /\ [Next]_vars => (Inv /\ KnownOK)'
  BY NextKeeps
<1> QED BY <1>1, <1>2, PTL DEF Spec

\* TypeOK: the state is of its type, and no workflow has two live attempts.
THEOREM TypeCorrect == Spec => []TypeOK
<1>1. Inv /\ KnownOK => TypeOK
  <2> SUFFICES ASSUME Inv, KnownOK PROVE TypeOK
    OBVIOUS
  <2>1. /\ known \subseteq Assets /\ onSpool \subseteq known /\ onNAS \subseteq known
        /\ faults \in 0..MaxFaults
    BY DEF Inv, Typed, KnownOK
  <2>2. par \in [Parents -> ParState] /\ kid \in [Kids -> KidState]
    BY DEF Inv, Typed
  <2>3. \A x \in att :
          /\ x.w \in Workflows /\ x.n \in Nat /\ x.live \in BOOLEAN
          /\ x.pc \in {"queued", "next", "gate", "copy", "spooling"}
          /\ x.items \subseteq Assets /\ x.bad \subseteq Assets
          /\ x.asset \in Assets \/ x.pc \in {"queued", "next"}
    BY DEF Inv, AttTyped, AttemptState, Busy
  <2>4. \A x, y \in att : x.w = y.w /\ x.live /\ y.live => x = y
    BY DEF Inv, OneLive
  <2> QED BY <2>1, <2>2, <2>3, <2>4, Zenon DEF TypeOK, ParState, KidState, Kids
<1> QED BY <1>1, InvariantHolds, PTL

\* activities.go:5-6: however attempts, batches and workflows for one asset overlap,
\* with any number of imports and of attempts the service gave up on, none copies
\* what is already there.
THEOREM NoSecondCopy == Spec => []CopiedOnce
<1>1. Inv => CopiedOnce
  BY DEF Inv
<1> QED BY <1>1, InvariantHolds, PTL

\* When one page lists all that needs archiving, an import that completes accounts
\* for every asset of its card, and it or the backlog for everything earlier runs
\* left if the catalog listed it: on the NAS, among the failures, left to the
\* workflow that had it, or of a kind no NAS serves; and a card is called safe only
\* when all of it is on the NAS.
THEOREM EverythingAccounted == ASSUME NoPaging PROVE Spec => []NothingForgotten
<1>1. Init => Inv /\ CoverOK
  BY InitHolds
<1>2. Inv /\ CoverOK /\ [Next]_vars => (Inv /\ CoverOK)'
  BY NextKeeps
<1>3. Inv /\ CoverOK => NothingForgotten
  <2> SUFFICES ASSUME Inv, CoverOK, NEW p \in Parents, par[p].pc = "done"
               PROVE  /\ \A a \in Refs(p) : Held(p, a)
                      /\ par[p].listed => \A a \in Earlier : Held(p, a)
                      /\ par[p].waits = {}
                      /\ par[p].safe => Refs(p) \subseteq onNAS
    BY DEF NothingForgotten, Held
  <2>1. par[p].cur = {}
    BY DEF Inv, BatchOK
  <2>2. /\ par[p].todo = {} /\ par[p].waits = {} /\ (par[p].safe => Refs(p) \subseteq onNAS)
        /\ \A a \in Refs(p) : Held(p, a) \/ a \in par[p].todo \cup par[p].cur
        /\ par[p].listed => \A a \in Earlier : Held(p, a)
    BY DEF CoverOK, Covered
  <2> QED BY <2>1, <2>2
<1> QED BY <1>1, <1>2, <1>3, PTL DEF Spec
=============================================================================
