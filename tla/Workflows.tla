------------------------------ MODULE Workflows ------------------------------
(***************************************************************************)
(* The import, backlog, spool-back and archive workflows over one worker.  *)
(* An import spools what is on its card and hands every asset to archive   *)
(* workflows that outlive it: one per large asset, joined when another     *)
(* import started it, and batches for the small ones.  Each runs one       *)
(* activity at a time, again when an attempt is lost; an attempt the       *)
(* service gave up on may still be running in the worker.  The copies      *)
(* themselves are the subject of Tiers, the cap while spooling of Import.  *)
(***************************************************************************)
EXTENDS Naturals, FiniteSets, Sequences

CONSTANTS
  Imports,     \* cards, and their import workflows
  Backlog,     \* the workflow of mm archive
  Recall,      \* the workflow of mm spool, and what it brings back
  Recalled,
  OnCard,      \* the assets on each card
  Earlier,     \* assets earlier runs left without a NAS copy
  Big,         \* the assets of batchBelow bytes and more
  Captured,    \* the order of their capture times
  Conflicted,  \* assets whose place on the NAS holds another file
  Unserved,    \* assets of a kind no NAS has a tree for
  Page,        \* idPage
  NASSlots,    \* activities the worker of the NAS queue runs at once
  MaxTries,    \* bound: MaximumAttempts
  MaxFaults    \* bound: attempts lost, restarts of the worker, and quick
               \* activities that failed for good

Assets == Earlier \cup UNION {OnCard[i] : i \in Imports}
Parents == Imports \cup {Backlog}

\* ArchiveWorkflowID; the ID of a batch holds its first path and the time.
Archive(a) == <<"archive", a>>
Batch(p, n) == <<"batch", p, n>>
Children == {Archive(a) : a \in Big} \cup {Batch(p, n) : p \in Parents, n \in 1..2}
Workflows == Parents \cup Children \cup {Recall}

ASSUME WorkflowsAssumption ==
  /\ IsFiniteSet(Assets)
  \* The IDs of the workflows begin with what they do.
  /\ Backlog \notin Imports /\ Recall \notin Children
  /\ Parents \cap (Children \cup {Recall}) = {}
  /\ Recalled \subseteq Assets
  /\ Conflicted \subseteq Assets /\ Unserved \subseteq Assets
  /\ Captured \in [Assets -> Nat]
  /\ Page \in Nat \ {0} /\ NASSlots \in Nat \ {0}
  /\ MaxTries \in Nat \ {0} /\ MaxFaults \in Nat

VARIABLES
  known,            \* assets with a row and a complete copy somewhere
  onSpool, onNAS,   \* and with a complete copy there
  par,              \* the workflows that start others
  kid,              \* the archive workflows, and spool-back
  att,              \* attempts at an activity that are queued or run
  faults

vars == <<known, onSpool, onNAS, par, kid, att, faults>>

Refs(p) == IF p \in Imports THEN OnCard[p] ELSE {}

TypeOK ==
  /\ known \subseteq Assets /\ onSpool \subseteq known /\ onNAS \subseteq known
  /\ par \in [Parents -> [
       pc : {"start", "spool", "activity", "wait", "done", "cancelled", "failed"},
       todo : SUBSET Assets, cur : SUBSET Assets, left : SUBSET Assets,
       offset : Nat, listed : BOOLEAN, waits : SUBSET Children, batches : 0..2,
       failed : SUBSET Assets, joined : SUBSET Assets, safe : BOOLEAN,
       tries : 0..MaxTries]]
  /\ kid \in [Children \cup {Recall} -> [
       pc : {"none", "running", "done", "failed"}, items : SUBSET Assets,
       tries : 0..MaxTries]]
  /\ \A x \in att :
       /\ x.w \in Workflows /\ x.n \in Nat /\ x.live \in BOOLEAN
       /\ x.pc \in {"queued", "next", "gate", "copy", "spooling"}
       /\ x.items \subseteq Assets /\ x.bad \subseteq Assets
       /\ x.asset \in Assets \/ x.pc \in {"queued", "next"}
  /\ \A x, y \in att : x.w = y.w /\ x.live /\ y.live => x = y
  /\ faults \in 0..MaxFaults

Init ==
  /\ known = Earlier
  /\ onSpool = {}
  /\ onNAS = {}
  /\ par = [p \in Parents |->
       [pc |-> "start", todo |-> {}, cur |-> {}, left |-> {}, offset |-> 0,
        listed |-> FALSE, waits |-> {}, batches |-> 0, failed |-> {},
        joined |-> {}, safe |-> FALSE, tries |-> 0]]
  /\ kid = [w \in Children \cup {Recall} |->
       [pc |-> "none", items |-> {}, tries |-> 0]]
  /\ att = {}
  /\ faults = 0

-----------------------------------------------------------------------------
(* Activities: attempts at them, and the service's view.                   *)

\* Attempts are told apart by a number no live or forgotten one has.
Fresh(w, A) ==
  CHOOSE n \in 0..Cardinality(A) : \A x \in A : x.w = w => x.n # n

Attempt(w, items, A) ==
  [w |-> w, n |-> Fresh(w, A), pc |-> "queued", items |-> items,
   asset |-> {}, bad |-> {}, live |-> TRUE]

\* Archives and spool-backs are on the NAS queue.
OnNASQueue(x) == x.w \notin Parents
Archives(x) == x.w \in Children
Running(x) == x.pc # "queued"

Items(w) == IF w \in Parents THEN par[w].cur ELSE kid[w].items
Tries(w) == IF w \in Parents THEN par[w].tries ELSE kid[w].tries

\* The activity of a spool or archive of one large asset; the others are of
\* batches, which carry the failures of their items in the result.
Single(w) == Items(w) \subseteq Big

-----------------------------------------------------------------------------
(* Starting archives.                                                      *)

\* IDs of their own for archives, as batches have.
NeverOwned(a) == FALSE

\* Another workflow runs the archive of a.
Owned(a) == kid[Archive(a)].pc = "running"

\* handoff, startArchive and startArchiveBatch for the assets of p.
Handoff(p, run, assets, batched) ==
  LET big == assets \cap Big
      small == assets \ Big
      owned == {a \in big : Owned(a) /\ Archive(a) \notin run.waits}
      new == {Archive(a) : a \in {b \in big : ~Owned(b)}}
      batch == IF batched /\ small # {} THEN {Batch(p, run.batches + 1)} ELSE {}
      items(w) == IF w \in batch THEN small ELSE {w[2]}
  IN /\ par' = [par EXCEPT ![p] =
          [run EXCEPT !.waits = @ \cup new \cup batch, !.joined = @ \cup owned,
                      !.batches = @ + Cardinality(batch)]]
     /\ kid' = [w \in DOMAIN kid |->
          IF w \in new \cup batch
          THEN [pc |-> "running", items |-> items(w), tries |-> 1]
          ELSE kid[w]]
     /\ att' = {x \in att : ~(x.w = p /\ x.live)}
               \cup {Attempt(w, items(w), att) : w \in new \cup batch}

-----------------------------------------------------------------------------
(* ImportSource and ArchiveBacklog.                                        *)

\* Relink, ScanSource, Relink, and the pages of SourceAssetIDs.
Start(p) ==
  /\ par[p].pc = "start"
  /\ known' = known \cup Refs(p)
  /\ par' = [par EXCEPT ![p].pc = "spool", ![p].todo = Refs(p)]
  /\ UNCHANGED <<onSpool, onNAS, kid, att, faults>>

Fault == faults < MaxFaults /\ faults' = faults + 1

\* One of these activities has failed for good, and the workflow with it, before
\* the scan registered anything or after.
StartFails(p) ==
  /\ par[p].pc = "start" /\ Fault
  /\ \/ UNCHANGED known
     \/ known' = known \cup Refs(p)
  /\ par' = [par EXCEPT ![p].pc = "failed"]
  /\ UNCHANGED <<onSpool, onNAS, kid, att>>

Schedule(p, assets) ==
  /\ par' = [par EXCEPT ![p].pc = "activity", ![p].todo = @ \ assets,
                        ![p].cur = assets, ![p].tries = 1]
  /\ att' = att \cup {Attempt(p, assets, att)}
  /\ UNCHANGED kid

\* Large files first, one at a time; one on the NAS is handed on for its
\* sidecars.
SpoolLarge(p, a) ==
  /\ par[p].pc = "spool" /\ a \in par[p].todo \cap Big
  /\ IF a \in onNAS
     THEN Handoff(p, [par[p] EXCEPT !.todo = @ \ {a}], {a}, FALSE)
     ELSE Schedule(p, {a})
  /\ UNCHANGED <<known, onSpool, onNAS, faults>>

\* IsArchived fails: neither spooled nor handed on.
LookupFails(p, a) ==
  /\ par[p].pc = "spool" /\ a \in par[p].todo \cap Big /\ Fault
  /\ par' = [par EXCEPT ![p].todo = @ \ {a}, ![p].failed = @ \cup {a}]
  /\ UNCHANGED <<known, onSpool, onNAS, kid, att>>

SpoolSmall(p) ==
  /\ par[p].pc = "spool" /\ par[p].todo # {} /\ par[p].todo \cap Big = {}
  /\ Schedule(p, par[p].todo)
  /\ UNCHANGED <<known, onSpool, onNAS, faults>>

\* Handing on only what did reach a spool.
HandOnSpooled(p, x) ==
  Handoff(p, [par[p] EXCEPT !.pc = "spool", !.cur = {}, !.failed = @ \cup x.bad],
          (par[p].cur \ x.bad) \cap onSpool, TRUE)

\* A full spool does not keep an asset from being archived from the card.
HandOn(p, x) ==
  Handoff(p, [par[p] EXCEPT !.pc = "spool", !.cur = {}, !.failed = @ \cup x.bad],
          par[p].cur \ x.bad, TRUE)

\* NeedsArchiveIDs: LIMIT and OFFSET over what needs it at this moment.
NeedsArchive(offset, limit) ==
  LET all == known \ onNAS
      before(a) == {b \in all : Captured[b] < Captured[a]}
  IN {a \in all : Cardinality(before(a)) \in offset..(offset + limit - 1)}

\* pageIDs and refsFor for the leftovers; the short page is the last.
ReadPage(p) ==
  /\ par[p].pc = "spool" /\ par[p].todo = {}
  /\ LET page == NeedsArchive(par[p].offset, Page)
         left == par[p].left \cup page
     IN IF Cardinality(page) < Page
        THEN Handoff(p, [par[p] EXCEPT !.pc = "wait", !.left = {}, !.listed = TRUE],
                     left \ Refs(p), TRUE)
        ELSE /\ par' = [par EXCEPT ![p].left = left, ![p].offset = @ + Page]
             /\ UNCHANGED <<kid, att>>
  /\ UNCHANGED <<known, onSpool, onNAS, faults>>

\* NeedsArchive or Refs fails: the backlog fails with it, but an import drops the
\* error and goes on without leftovers.
PageFails(p) ==
  /\ par[p].pc = "spool" /\ par[p].todo = {} /\ Fault
  /\ par' = [par EXCEPT ![p].pc = IF p \in Imports THEN "wait" ELSE "failed",
                        ![p].left = {}, ![p].listed = FALSE]
  /\ UNCHANGED <<known, onSpool, onNAS, kid, att>>

\* The end, with AllArchivedOn; when that fails the card is not safe.
Complete(p) ==
  /\ par[p].pc = "wait" /\ par[p].waits = {}
  /\ \E safe \in {FALSE, Refs(p) # {} /\ Refs(p) \subseteq onNAS} :
       par' = [par EXCEPT ![p].pc = "done", ![p].safe = safe]
  /\ UNCHANGED <<known, onSpool, onNAS, kid, att, faults>>

\* stopIfCancelled: its activity is forgotten, its children are abandoned.
Cancel(p) ==
  /\ par[p].pc \in {"activity", "wait"}
  /\ par' = [par EXCEPT ![p].pc = "cancelled", ![p].waits = {}]
  /\ att' = {IF x.w = p THEN [x EXCEPT !.live = FALSE] ELSE x :
               x \in {y \in att : y.w = p => Running(y)}}
  /\ UNCHANGED <<known, onSpool, onNAS, kid, faults>>

\* mm spool
StartRecall ==
  /\ kid[Recall].pc = "none" /\ Recalled # {} /\ Recalled \subseteq known
  /\ kid' = [kid EXCEPT ![Recall] =
               [pc |-> "running", items |-> Recalled, tries |-> 1]]
  /\ att' = att \cup {Attempt(Recall, Recalled, att)}
  /\ UNCHANGED <<known, onSpool, onNAS, par, faults>>

-----------------------------------------------------------------------------
(* Attempts in the worker.                                                 *)

Step(x, y) == att' = (att \ {x}) \cup {y}

Locked(a) == \E x \in att : x.asset = a

\* The worker of the NAS queue has a slot, or the attempt is on the other one.
Begin(x) ==
  /\ x.pc = "queued"
  /\ OnNASQueue(x) =>
       Cardinality({y \in att : OnNASQueue(y) /\ Running(y)}) < NASSlots
  /\ Step(x, [x EXCEPT !.pc = "next"])
  /\ UNCHANGED <<known, onSpool, onNAS, par, kid, faults>>

\* Where an attempt has nothing to copy.
Settled(x) == IF Archives(x) THEN onNAS \cup Unserved ELSE onSpool

\* lockAsset, with the lookup done before it.
LookUpUnlocked(x, a) ==
  /\ x.pc = "next" /\ a \in x.items /\ ~Locked(a)
  /\ Step(x, [x EXCEPT !.pc = IF Archives(x) THEN "gate" ELSE "spooling",
                       !.asset = a])
  /\ UNCHANGED <<known, onSpool, onNAS, par, kid, faults>>

\* lockAsset and lookup: nothing to do, no room, or a copy to make.
LookUp(x, a) ==
  /\ x.pc = "next" /\ a \in x.items /\ ~Locked(a)
  /\ \/ /\ a \in Settled(x) \/ ~Archives(x)
        /\ Step(x, [x EXCEPT !.items = @ \ {a}])
     \/ /\ a \notin Settled(x)
        /\ Step(x, [x EXCEPT !.pc = IF Archives(x) THEN "gate" ELSE "spooling",
                             !.asset = a])
  /\ UNCHANGED <<known, onSpool, onNAS, par, kid, faults>>

\* Spool copies that are still to begin counted as being made.
AdmitWhenIdle(x) ==
  /\ x.pc = "gate"
  /\ \A y \in att : Archives(y)
  /\ Step(x, [x EXCEPT !.pc = "copy"])
  /\ UNCHANGED <<known, onSpool, onNAS, par, kid, faults>>

\* archiveSlot, with none admitted while anything is being spooled.
Admit(x) ==
  /\ x.pc = "gate"
  /\ \A y \in att : y.pc # "spooling"
  /\ Step(x, [x EXCEPT !.pc = "copy"])
  /\ UNCHANGED <<known, onSpool, onNAS, par, kid, faults>>

Unlocked(x) == [x EXCEPT !.pc = "next", !.items = @ \ {x.asset}, !.asset = {}]

CopyEnds(x) ==
  /\ x.pc = "copy" /\ x.asset \notin Conflicted
  /\ onNAS' = onNAS \cup {x.asset}
  /\ Step(x, Unlocked(x))
  /\ UNCHANGED <<known, onSpool, par, kid, faults>>

SpoolEnds(x) ==
  /\ x.pc = "spooling"
  /\ onSpool' = onSpool \cup {x.asset}
  /\ Step(x, Unlocked(x))
  /\ UNCHANGED <<known, onNAS, par, kid, faults>>

-----------------------------------------------------------------------------
(* How attempts and activities end.                                        *)

\* A workflow that started w has its future resolved.
Resolved(w, bad) ==
  par' = [p \in Parents |->
            IF w \in par[p].waits
            THEN [par[p] EXCEPT !.waits = @ \ {w}, !.failed = @ \cup bad]
            ELSE par[p]]

Close(w, pc, bad) ==
  /\ kid' = [kid EXCEPT ![w].pc = pc]
  /\ Resolved(w, bad)

Returns(x) ==
  /\ x.pc = "next" /\ x.items = {}
  /\ IF ~x.live THEN att' = att \ {x} /\ UNCHANGED <<par, kid>>
     ELSE IF x.w \in Parents THEN HandOn(x.w, x)
     ELSE att' = att \ {x} /\ Close(x.w, "done", x.bad)
  /\ UNCHANGED <<known, onSpool, onNAS, faults>>

\* The activity of w has failed for good.
GivesUp(w) ==
  IF w \in Parents
  THEN /\ par' = [par EXCEPT ![w].pc = "spool", ![w].cur = {},
                             ![w].failed = @ \cup par[w].cur]
       /\ UNCHANGED kid
  ELSE Close(w, "failed", kid[w].items)

\* One item of several: the batch goes on.
ItemFails(x) ==
  /\ ~Single(x.w)
  /\ \/ x.pc = "copy" /\ x.asset \in Conflicted /\ UNCHANGED faults
     \/ x.pc \in {"copy", "spooling"} /\ faults < MaxFaults /\ faults' = faults + 1
  /\ Step(x, [Unlocked(x) EXCEPT !.bad = @ \cup {x.asset}])
  /\ UNCHANGED <<known, onSpool, onNAS, par, kid>>

\* ErrTypeConflict is not retried.
Conflicts(x) ==
  /\ Single(x.w) /\ x.pc = "copy" /\ x.asset \in Conflicted
  /\ att' = att \ {x}
  /\ IF x.live THEN GivesUp(x.w) ELSE UNCHANGED <<par, kid>>
  /\ UNCHANGED <<known, onSpool, onNAS, faults>>

\* classify passing context.Canceled on: the activity is cancelled, not retried.
NoRetry(lost, rest) ==
  LET gone == {x.w : x \in {y \in lost : y.live}}
  IN /\ att' = rest
     /\ kid' = [w \in DOMAIN kid |->
          IF w \in gone THEN [kid[w] EXCEPT !.pc = "failed"] ELSE kid[w]]
     /\ par' = [p \in Parents |->
          LET q == [par[p] EXCEPT
                !.waits = @ \ gone,
                !.failed = @ \cup UNION {kid[w].items : w \in gone \cap par[p].waits}]
          IN IF p \in gone
             THEN [q EXCEPT !.pc = "spool", !.cur = {}, !.failed = @ \cup par[p].cur]
             ELSE q]

\* The live attempts among lost are replaced, while there are tries left; those
\* of rest go on, known to the service or not.
Retry(lost, rest) ==
  LET again == {x.w : x \in {y \in lost : y.live /\ Tries(y.w) < MaxTries}}
      spent == {x.w : x \in {y \in lost : y.live /\ Tries(y.w) >= MaxTries}}
  IN /\ att' = rest \cup {Attempt(w, Items(w), rest) : w \in again}
     /\ kid' = [w \in DOMAIN kid |->
          IF w \in again THEN [kid[w] EXCEPT !.tries = @ + 1]
          ELSE IF w \in spent THEN [kid[w] EXCEPT !.pc = "failed"]
          ELSE kid[w]]
     /\ par' = [p \in Parents |->
          LET q == [par[p] EXCEPT
                !.waits = @ \ spent,
                !.failed = @ \cup UNION {kid[w].items : w \in spent \cap par[p].waits}]
          IN IF p \in again THEN [q EXCEPT !.tries = @ + 1]
             ELSE IF p \in spent
             THEN [q EXCEPT !.pc = "spool", !.cur = {}, !.failed = @ \cup par[p].cur]
             ELSE q]

\* A copy fails with an error that may pass.
Fails(x) ==
  /\ Single(x.w) /\ x.pc \in {"copy", "spooling"} /\ Fault
  /\ Retry({x}, att \ {x})
  /\ UNCHANGED <<known, onSpool, onNAS>>

\* The heartbeat timeout: the attempt goes on, and so does the next.  Waiting in
\* archiveSlot heartbeats; waiting in lockAsset does not.
TimesOut(x) ==
  /\ x.live /\ Fault
  /\ \/ x.pc \in {"copy", "spooling"}
     \/ x.pc = "next" /\ \E a \in x.items : Locked(a)
  /\ Retry({x}, (att \ {x}) \cup {[x EXCEPT !.live = FALSE]})
  /\ UNCHANGED <<known, onSpool, onNAS>>

\* A forgotten attempt that heartbeats is told to stop.
Interrupted(x) ==
  /\ ~x.live /\ x.pc \in {"gate", "copy", "spooling"}
  /\ att' = att \ {x}
  /\ UNCHANGED <<known, onSpool, onNAS, par, kid, faults>>

\* The worker stops, or dies; the queues are the service's.
Restart ==
  /\ \E x \in att : Running(x)
  /\ Fault
  /\ Retry({x \in att : Running(x)}, {x \in att : ~Running(x)})
  /\ UNCHANGED <<known, onSpool, onNAS>>

-----------------------------------------------------------------------------
ParentStep(p) ==
  \/ Start(p) \/ (\E a \in Big : SpoolLarge(p, a)) \/ SpoolSmall(p)
  \/ ReadPage(p) \/ Complete(p)

AttemptStep(x) ==
  \/ Begin(x) \/ (\E a \in x.items : LookUp(x, a)) \/ Admit(x)
  \/ CopyEnds(x) \/ SpoolEnds(x) \/ Returns(x)
  \/ ItemFails(x) \/ Conflicts(x) \/ Interrupted(x)

Progress ==
  \/ \E p \in Parents : ParentStep(p)
  \/ \E x \in att : AttemptStep(x)

QuickFails(p) ==
  StartFails(p) \/ (\E a \in Big : LookupFails(p, a)) \/ PageFails(p)

Ended(p) == par[p].pc \in {"done", "cancelled", "failed"}

Idle == att = {} /\ (\A p \in Parents : Ended(p)) /\ UNCHANGED vars

Next ==
  \/ Progress \/ StartRecall
  \/ (\E p \in Imports : Cancel(p)) \/ (\E p \in Parents : QuickFails(p))
  \/ (\E x \in att : Fails(x) \/ TimesOut(x)) \/ Restart
  \/ Idle

Spec == Init /\ [][Next]_vars

\* The service offers every task again until a worker takes it, and the worker
\* runs what it took; no workflow has an endless supply of steps.
FairSpec == Spec /\ WF_vars(Progress)

-----------------------------------------------------------------------------
(* Properties.                                                             *)

\* An import that completes accounts for every asset of its card: on the NAS, among
\* its failures, or left to the workflow that had it already; only a kind no NAS
\* serves is passed over.  So does it, and the backlog, for everything that needed
\* archive from earlier runs, provided the catalog listed it; and a card is called
\* safe only when all of it is on the NAS.
NothingForgotten ==
  \A p \in Parents : par[p].pc = "done" =>
    LET accounted == onNAS \cup par[p].failed \cup par[p].joined \cup Unserved
    IN /\ Refs(p) \subseteq accounted
       /\ par[p].listed => Earlier \subseteq accounted
       /\ par[p].safe => Refs(p) \subseteq onNAS

\* workflows.go:160-161, "Anything already needing archive from earlier runs is
\* handed off too", with no proviso: lines 264-288 drop the errors of NeedsArchive
\* and Refs, and the import completes without a word of the leftovers.
EarlierHandedOff ==
  \A p \in Imports : par[p].pc = "done" =>
    Earlier \subseteq onNAS \cup par[p].failed \cup par[p].joined \cup Unserved

\* activities.go:5-6: an activity is idempotent.  However attempts, batches and
\* workflows for one asset overlap, none copies what is already there: every
\* look at the catalog that decides on a copy is under the lock of the asset.
CopiedOnce ==
  \A x \in att :
    /\ x.pc \in {"gate", "copy"} => x.asset \notin onNAS
    /\ x.pc = "spooling" => x.asset \notin onSpool

\* workflows.go:158-159: an archive that was started gets its asset to the NAS,
\* though the import that started it is cancelled and the worker restarts under
\* it, unless the file there is another one or no NAS serves its kind.
ArchivesSurvive ==
  \A a \in Big \ (Conflicted \cup Unserved) :
    kid[Archive(a)].pc = "running" ~> a \in onNAS

\* Every import ends, and with it everything it started: archives that hold NAS
\* slots while they wait for the spooling to pause, spool-backs that wait for
\* those slots, and attempts that wait for one that was forgotten.
ImportsEnd == <>(att = {} /\ \A p \in Parents : Ended(p))
=============================================================================
