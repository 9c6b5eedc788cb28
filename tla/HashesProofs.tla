----------------------------- MODULE HashesProofs -----------------------------
(***************************************************************************)
(* Theorems about Hashes for every number of NASes, versions, edits and    *)
(* faults.  What a flush may rest on: the row of a file that a verify found*)
(* bad is complete only if Archive recorded it since.  What an adopted edit*)
(* rests on: no copy that counts has anything else, and a NAS copy counts. *)
(***************************************************************************)
EXTENDS Hashes, FiniteSetTheorems, WellFoundedInduction, TLAPS

Storage == Locs \ {Card}

MoverState ==
  [pc : {"idle", "copy", "record"}, dest : Locs \cup {None}, src : Locs \cup {None},
   full : Versions \cup {None}, hash : Versions \cup {None}]

CheckState ==
  [pc : {"idle", "read", "apply", "row", "replace", "put"}, full : BOOLEAN,
   allow : BOOLEAN, asset : Assets \cup {None}, todo : SUBSET Storage,
   ok : SUBSET Storage, bad : SUBSET Storage, changed : SUBSET Storage,
   hashes : SUBSET Versions, sum : Versions \cup {None}, at : Locs \cup {None}]

\* A verify is bringing the other copies up to an edit.
Adopting == {"row", "replace", "put"}

\* The asset of a still has a full hash, and the size that goes with it.
Whole(a) == a \in Assets /\ (still => a.full # None /\ a.size = Size[a.full])

MoverOK ==
  mover.pc # "idle" =>
    mover.dest \in Storage /\ mover.src \in Locs /\ (still => mover.full # None)

CheckOK ==
  /\ check.pc # "idle" => Whole(check.asset)
  /\ check.ok \cap check.bad = {} /\ check.changed \subseteq check.bad
  /\ check.pc = "read" => check.todo \cap (check.ok \cup check.bad) = {}
  /\ check.pc = "apply" => check.todo \subseteq check.ok \cup check.bad
  /\ check.pc \in Adopting =>
       /\ still /\ check.allow /\ check.sum \in Versions
       /\ \E e \in Storage : check.changed = {e}
  /\ check.pc \in {"replace", "put"} => check.todo \subseteq check.ok
  /\ check.pc = "put" => check.at \in check.ok \ check.todo

Inv ==
  /\ TypeOK /\ Whole(asset)
  /\ mover \in MoverState /\ MoverOK
  /\ check \in CheckState /\ CheckOK

-----------------------------------------------------------------------------
\* The row of a file that a verify found bad is complete only if Archive recorded
\* it since; the verify itself records no such file for an edit.
Untaken ==
  /\ \A l \in found \ retaken : ~Complete(l)
  /\ check.pc = "row" => Edited \notin found
  /\ check.pc = "put" => check.at \notin found

FoundInv == Inv /\ Untaken

-----------------------------------------------------------------------------
\* Versions differ in size or at their ends.
IdentityTells == \A v, w \in Versions : Sparse[v] = Sparse[w] => v = w

Counted(l) == row[l].state \in {"complete", "mismatch"}
Seen == check.todo \cup check.ok \cup check.bad

\* A NAS copy that counts has a file.
NASFiles ==
  \A n \in NASes :
    Counted(n) \/ n \in Seen \/ (mover.pc = "record" /\ mover.dest = n) => disk[n] # None

\* While a verify may adopt, nothing is copied, it has all the copies that count
\* before it, and those that are bad for want of a file stay without.
AllowOK ==
  check.allow =>
    /\ mover.pc = "idle"
    /\ \A l \in Storage : Counted(l) => l \in Seen
    /\ check.pc # "read" => check.todo \subseteq check.ok \cup check.bad
    /\ still => \A l \in check.bad \ check.changed : disk[l] = None
    /\ check.pc = "apply" => \A l \in check.ok \ check.todo : Complete(l)
    /\ check.pc \in Adopting =>
         /\ check.ok # {} /\ \A l \in check.ok : Complete(l)
         /\ \A e \in check.changed : disk[e] # None

\* The adopted edit is the content of the asset, every copy that counts has it, or
\* is about to get it, and one on a NAS is complete.
Lags(l) ==
  \/ check.pc = "row" /\ l \in check.ok
  \/ check.pc \in {"replace", "put"} /\ l \in check.todo

Holds(l, v) == disk[l] \in {None, v}

AdoptedOK(v) ==
  /\ still /\ asset.full = v
  /\ \A l \in Storage : Counted(l) => Holds(l, v) \/ Lags(l)
  /\ mover.pc # "idle" => mover.src \in Storage /\ Holds(mover.src, v)
  /\ mover.pc = "record" => Holds(mover.dest, v)
  /\ check.pc \notin Adopting => \E n \in NASes : Complete(n) /\ disk[n] = v
  /\ check.pc \in {"read", "apply"} =>
       /\ check.asset.full = v /\ check.changed = {} /\ check.bad \cap NASes = {}
       /\ \A l \in Seen : Holds(l, v)
  /\ check.pc \in Adopting =>
       /\ check.sum = v
       /\ \A e \in check.changed : disk[e] = v /\ (check.pc # "row" => Complete(e))
       /\ \A l \in check.ok : disk[l] = v \/ Lags(l)

Kept == NASFiles /\ AllowOK /\ (adopted # None => AdoptedOK(adopted))

EditInv == Inv /\ (faults = 0 /\ ~overlap => mounted = Locs /\ Kept)

-----------------------------------------------------------------------------
(* The locations, and the best of some.                                    *)

\* The spool, the NASes and the card are different locations.
LEMMA Locations ==
  /\ Spool \in Locs /\ Card \in Locs /\ Spool # Card
  /\ Spool \notin NASes /\ Card \notin NASes /\ None \notin Locs /\ None \notin Versions
  /\ Storage \subseteq Locs /\ NASes \subseteq Storage /\ Storage = {Spool} \cup NASes
<1>1. 1 \in DOMAIN Order /\ Len(Order) \in DOMAIN Order /\ Len(Order) # 1
  BY HashesAssumption
<1>2. Spool = Order[1]
  BY <1>1, HashesAssumption DEF Spool
<1> QED BY <1>1, <1>2, HashesAssumption DEF Locs, Card, NASes, Storage

\* A nonempty set of naturals has a least element.
LEMMA LeastOf ==
  ASSUME NEW T \in SUBSET Nat, T # {}
  PROVE  \E x \in T : \A y \in T : x <= y
<1> DEFINE F == {0 .. x : x \in T}
<1>1. F \subseteq FiniteSubsetsOf(Nat)
  <2> SUFFICES ASSUME NEW x \in T PROVE 0 .. x \in FiniteSubsetsOf(Nat)
    OBVIOUS
  <2>1. IsFiniteSet(0 .. x)
    BY FS_Interval
  <2> QED BY <2>1 DEF FiniteSubsetsOf
<1>2. F # {}
  OBVIOUS
<1>3. \A x, y \in T : y < x => <<0 .. y, 0 .. x>> \in StrictSubsetOrdering(Nat)
  <2> SUFFICES ASSUME NEW x \in T, NEW y \in T, y < x
               PROVE  <<0 .. y, 0 .. x>> \in StrictSubsetOrdering(Nat)
    OBVIOUS
  <2>1. 0 .. y \subseteq 0 .. x /\ x \in 0 .. x /\ x \notin 0 .. y
    OBVIOUS
  <2>2. 0 .. y \subseteq Nat /\ 0 .. x \subseteq Nat
    OBVIOUS
  <2>3. 0 .. y # 0 .. x
    BY <2>1
  <2> QED BY <2>1, <2>2, <2>3 DEF StrictSubsetOrdering
<1> HIDE DEF F
<1>4. \E u \in F : \A v \in F : ~ (<<v, u>> \in StrictSubsetOrdering(Nat))
  BY <1>1, <1>2, WFMin, FS_StrictSubsetOrderingWellFounded
<1>5. PICK x \in T : \A y \in T : ~ (<<0 .. y, 0 .. x>> \in StrictSubsetOrdering(Nat))
  BY <1>4 DEF F
<1>6. \A y \in T : ~ (y < x)
  BY <1>3, <1>5
<1> QED BY <1>6

\* The first of some locations is one of them, and not the card when there is
\* another.
LEMMA FirstType ==
  ASSUME NEW S \in SUBSET Locs
  PROVE  /\ First(S) \in S \cup {None}
         /\ S # {} => First(S) \in S
         /\ S \cap Storage # {} => First(S) # Card
<1>1. CASE S = {}
  BY <1>1 DEF First
<1>2. CASE S # {}
  <2> DEFINE T == {i \in DOMAIN Order : Order[i] \in S}
  <2>d. DOMAIN Order = 1 .. Len(Order) /\ Len(Order) \in Nat
    BY HashesAssumption
  <2>1. T \in SUBSET Nat /\ T # {}
    BY <1>2, <2>d DEF Locs
  <2>2. PICK i \in T : \A j \in T : i <= j
    <3> HIDE DEF T
    <3> QED BY <2>1, LeastOf
  <2>3. Order[i] \in S /\ \A j \in 1 .. (i - 1) : Order[j] \notin S
    BY <2>2, <2>d
  <2>4. PICK k \in DOMAIN Order :
          /\ First(S) = Order[k] /\ Order[k] \in S
          /\ \A j \in 1 .. (k - 1) : Order[j] \notin S
    BY <1>2, <2>2, <2>3 DEF First
  <2>5. ASSUME NEW n \in S \cap Storage PROVE First(S) # Card
    <3> SUFFICES ASSUME First(S) = Card PROVE FALSE
      OBVIOUS
    <3>0. Len(Order) \in DOMAIN Order
      BY <2>d, HashesAssumption
    <3>a. Order[k] = Order[Len(Order)]
      BY <2>4 DEF Card
    <3>b. \A i1, j1 \in DOMAIN Order : Order[i1] = Order[j1] => i1 = j1
      BY HashesAssumption
    <3>1. k = Len(Order)
      BY <2>4, <3>0, <3>a, <3>b
    <3>2. PICK m \in DOMAIN Order : n = Order[m]
      BY DEF Locs
    <3>3. m # k
      BY <2>4, <3>2 DEF Storage
    <3>4. m \in 1 .. (k - 1)
      BY <2>d, <3>1, <3>3
    <3> QED BY <2>4, <3>2, <3>4
  <2> QED BY <2>4, <2>5
<1> QED BY <1>1, <1>2

\* A set of locations with one element is that element.
LEMMA OneChanged ==
  ASSUME NEW S \in SUBSET Locs, Cardinality(S) = 1
  PROVE  \E e \in S : S = {e}
<1>1. IsFiniteSet(DOMAIN Order)
  <2>1. DOMAIN Order = 1 .. Len(Order) /\ Len(Order) \in Nat
    BY HashesAssumption
  <2> QED BY <2>1, FS_Interval
<1>2. IsFiniteSet(Locs)
  <2>1. Order \in Surjection(DOMAIN Order, Locs)
    BY HashesAssumption DEF Locs, Surjection
  <2> QED BY <1>1, <2>1, FS_Surjection
<1>3. IsFiniteSet(S)
  BY <1>2, FS_Subset
<1>4. \E e : S = {e}
  BY <1>3, FS_Singleton
<1> QED BY <1>4

\* Hashes that agree are one hash.
LEMMA SomeHash ==
  ASSUME NEW S, Cardinality(S) = 1
  PROVE  (CHOOSE h \in S : TRUE) \in S
<1>1. S # {}
  BY FS_EmptySet
<1> QED BY <1>1

-----------------------------------------------------------------------------
(* Types, and what the steps of a copy and of a verify rest on.            *)

\* The invariant, from its parts in the next state.
LEMMA InvFrom ==
  ASSUME still' \in BOOLEAN, disk' \in [Locs -> Versions \cup {None}],
         row' \in [Locs -> Rows], Whole(asset)', mounted' \subseteq Locs,
         mover' \in MoverState, MoverOK', check' \in CheckState, CheckOK',
         retaken' \subseteq found' /\ found' \subseteq Locs, adopted' \in Versions \cup {None},
         overlap' \in BOOLEAN, writes' \in 0..MaxWrites, faults' \in 0..MaxFaults
  PROVE  Inv'
<1>1. /\ mover'.pc \in {"idle", "copy", "record"}
      /\ mover'.dest \in Locs \cup {None} /\ mover'.src \in Locs \cup {None}
      /\ mover'.full \in Versions \cup {None} /\ mover'.hash \in Versions \cup {None}
  BY DEF MoverState
<1>2. /\ check'.pc \in {"idle", "read", "apply", "row", "replace", "put"}
      /\ check'.full \in BOOLEAN /\ check'.allow \in BOOLEAN
      /\ check'.todo \cup check'.ok \cup check'.bad \subseteq Locs \ {Card}
      /\ check'.hashes \subseteq Versions /\ check'.sum \in Versions \cup {None}
      /\ check'.at \in Locs \cup {None}
  BY DEF CheckState, Storage
<1>3. check'.ok \cap check'.bad = {} /\ check'.changed \subseteq check'.bad
  BY DEF CheckOK
<1>4. asset' \in Assets /\ (still' => asset'.full # None /\ asset'.size = Size[asset'.full])
  BY DEF Whole
<1>5. TypeOK'
  BY <1>1, <1>2, <1>3, <1>4 DEF TypeOK
<1> QED BY <1>5 DEF Inv

\* The invariant, variable by variable.
LEMMA Parts ==
  ASSUME Inv
  PROVE  /\ still \in BOOLEAN /\ disk \in [Locs -> Versions \cup {None}]
         /\ row \in [Locs -> Rows] /\ asset \in Assets
         /\ still => asset.full # None /\ asset.size = Size[asset.full]
         /\ mounted \subseteq Locs
         /\ mover \in MoverState /\ MoverOK /\ check \in CheckState /\ CheckOK
         /\ retaken \subseteq found /\ found \subseteq Locs /\ adopted \in Versions \cup {None}
         /\ overlap \in BOOLEAN /\ writes \in 0..MaxWrites /\ faults \in 0..MaxFaults
BY DEF Inv, TypeOK, Whole

\* The rows, copies and verifies there are none of.
LEMMA NoneOK ==
  /\ NoRow \in Rows /\ NoMove \in MoverState /\ NoCheck \in CheckState
  /\ NoMove.pc = "idle"
  /\ NoCheck.pc = "idle" /\ NoCheck.allow = FALSE /\ NoCheck.todo = {}
  /\ NoCheck.ok = {} /\ NoCheck.bad = {} /\ NoCheck.changed = {} /\ NoCheck.hashes = {}
BY DEF NoRow, Rows, NoMove, MoverState, NoCheck, CheckState

\* A copyTo that returns rests on nothing.
LEMMA MoveEnds == ASSUME mover' = NoMove PROVE mover' \in MoverState /\ MoverOK'
BY NoneOK DEF MoverOK

\* Nor does a verify that returns.
LEMMA CheckEnds == ASSUME check' = NoCheck PROVE check' \in CheckState /\ CheckOK'
BY NoneOK DEF CheckOK, Adopting

\* A copyTo that does nothing stays as it was.
LEMMA MoveStays ==
  ASSUME Inv, UNCHANGED <<mover, still>> PROVE mover' \in MoverState /\ MoverOK'
BY DEF Inv, MoverOK

\* So does a verify.
LEMMA CheckStays ==
  ASSUME Inv, UNCHANGED <<check, still>> PROVE check' \in CheckState /\ CheckOK'
<1>1. check \in CheckState /\ CheckOK
  BY DEF Inv
<1> QED BY <1>1 DEF CheckOK, Whole

\* And the asset row.
LEMMA AssetStays == ASSUME Inv, UNCHANGED <<asset, still>> PROVE Whole(asset)'
BY DEF Inv, Whole

\* PutCopy keeps the rows well typed.
LEMMA PutType ==
  ASSUME Inv, NEW l, NEW s \in {"none", "partial", "complete", "mismatch"},
         NEW h \in Versions \cup {None}, Put(l, s, h)
  PROVE  row' \in [Locs -> Rows]
<1>1. [state |-> s, hash |-> h] \in Rows
  BY DEF Rows
<1> QED BY <1>1, Parts DEF Put

\* Writing or deleting a file keeps the disks well typed.
LEMMA WriteType ==
  ASSUME Inv, NEW l, NEW v \in Versions \cup {None}, Write(l, v)
  PROVE  disk' \in [Locs -> Versions \cup {None}] /\ retaken' \subseteq found' /\ found' \subseteq Locs
BY Parts DEF Write, Unfind

\* The best copy that is complete.
LEMMA BestType == ASSUME Inv, Best # None PROVE Best \in Locs /\ Best \in mounted /\ Complete(Best)
<1> DEFINE S == {l \in mounted : Complete(l)}
<1>1. S \in SUBSET Locs
  BY Parts
<1>2. Best = First(S)
  BY DEF Best
<1>3. First(S) \in S
  <2> HIDE DEF S
  <2>1. First(S) \in S \cup {None}
    BY <1>1, FirstType
  <2> QED BY <1>2, <2>1
<1> QED BY <1>1, <1>2, <1>3

\* pickFlushPair returns a complete copy on a mounted NAS.
LEMMA FlushNASType == ASSUME Inv, FlushNAS # None PROVE FlushNAS \in NASes \cap mounted /\ Complete(FlushNAS)
<1> DEFINE S == {l \in NASes \cap mounted : Complete(l)}
<1>1. S \in SUBSET Locs
  BY Parts
<1>2. FlushNAS = First(S)
  BY DEF FlushNAS
<1>3. First(S) \in S
  <2> HIDE DEF S
  <2>1. First(S) \in S \cup {None}
    BY <1>1, FirstType
  <2> QED BY <1>2, <2>1
<1> QED BY <1>1, <1>2, <1>3

\* The copy whose edit is adopted.
LEMMA EditedType ==
  ASSUME Inv, Cardinality(check.changed) = 1 \/ check.pc \in Adopting
  PROVE  check.changed = {Edited} /\ Edited \in Storage /\ Edited \in check.bad
<1>1. check.changed \in SUBSET Storage /\ check.changed \subseteq check.bad
  BY DEF Inv, CheckState, CheckOK
<1>2. \E e \in Storage : check.changed = {e}
  <2>1. CASE check.pc \in Adopting
    BY <2>1 DEF Inv, CheckOK
  <2>2. CASE Cardinality(check.changed) = 1
    <3>1. check.changed \in SUBSET Locs
      BY <1>1, Locations
    <3> QED BY <1>1, <2>2, <3>1, OneChanged
  <2> QED BY <2>1, <2>2
<1>3. Edited \in check.changed
  BY <1>2 DEF Edited
<1> QED BY <1>1, <1>2, <1>3

\* A card that has just been scanned satisfies the invariant.
LEMMA InvInit == Init => Inv
<1> SUFFICES ASSUME Init PROVE Inv
  OBVIOUS
<1>1. still \in BOOLEAN
  BY DEF Init
<1>2. disk \in [Locs -> Versions \cup {None}]
  BY HashesAssumption DEF Init
<1>3. row \in [Locs -> Rows]
  <2>1. [NoRow EXCEPT !.state = "complete"] \in Rows
    BY DEF NoRow, Rows
  <2> QED BY <2>1, NoneOK DEF Init
<1>4. asset = [size |-> Size[Original], full |-> IF still THEN Original ELSE None]
  BY DEF Init
<1>5. asset.size = Size[Original] /\ asset.full = IF still THEN Original ELSE None
  BY <1>4
<1>6. asset \in Assets
  BY <1>4, HashesAssumption DEF Assets
<1>7. still => asset.full # None /\ asset.size = Size[asset.full]
  BY <1>5, HashesAssumption
<1>8. mover \in MoverState /\ MoverOK /\ check \in CheckState /\ CheckOK
  BY NoneOK DEF Init, MoverOK, CheckOK, Adopting
<1>9. /\ mounted \subseteq Locs /\ retaken \subseteq found /\ found \subseteq Locs /\ adopted \in Versions \cup {None}
      /\ overlap \in BOOLEAN /\ writes \in 0..MaxWrites /\ faults \in 0..MaxFaults
  <2>1. 0 \in 0..MaxWrites /\ 0 \in 0..MaxFaults
    BY HashesAssumption
  <2> QED BY <2>1 DEF Init
<1>a. /\ mover.pc \in {"idle", "copy", "record"}
      /\ mover.dest \in Locs \cup {None} /\ mover.src \in Locs \cup {None}
      /\ mover.full \in Versions \cup {None} /\ mover.hash \in Versions \cup {None}
  BY <1>8 DEF MoverState
<1>b. /\ check.pc \in {"idle", "read", "apply", "row", "replace", "put"}
      /\ check.full \in BOOLEAN /\ check.allow \in BOOLEAN
      /\ check.todo \cup check.ok \cup check.bad \subseteq Locs \ {Card}
      /\ check.hashes \subseteq Versions /\ check.sum \in Versions \cup {None}
      /\ check.at \in Locs \cup {None}
      /\ check.ok \cap check.bad = {} /\ check.changed \subseteq check.bad
  BY <1>8 DEF CheckState, Storage, CheckOK
<1>c. TypeOK
  BY <1>1, <1>2, <1>3, <1>6, <1>7, <1>9, <1>a, <1>b DEF TypeOK
<1> QED BY <1>c, <1>6, <1>7, <1>8 DEF Inv, Whole

\* copyTo and Flush keep the invariant.
LEMMA InvCopy ==
  ASSUME Inv,
         \/ \E l \in Locs : CopyBegin(l)
         \/ CopyFails \/ AlreadyComplete \/ Copy \/ Record \/ Flush
  PROVE  Inv'
<1>0. /\ still \in BOOLEAN /\ disk \in [Locs -> Versions \cup {None}]
      /\ row \in [Locs -> Rows] /\ asset \in Assets
      /\ still => asset.full # None /\ asset.size = Size[asset.full]
      /\ mounted \subseteq Locs
      /\ mover \in MoverState /\ MoverOK /\ check \in CheckState /\ CheckOK
      /\ retaken \subseteq found /\ found \subseteq Locs /\ adopted \in Versions \cup {None}
      /\ overlap \in BOOLEAN /\ writes \in 0..MaxWrites /\ faults \in 0..MaxFaults
  BY Parts
<1>m. /\ mover.dest \in Locs \cup {None} /\ mover.src \in Locs \cup {None}
      /\ mover.full \in Versions \cup {None} /\ mover.hash \in Versions \cup {None}
  BY <1>0 DEF MoverState
<1>a. asset.full \in Versions \cup {None}
  BY <1>0 DEF Assets
<1>1. ASSUME NEW d \in Locs, CopyBegin(d) PROVE Inv'
  <2>1. mover' = [NoMove EXCEPT !.pc = "copy", !.dest = d, !.src = Best, !.full = asset.full]
    BY <1>1 DEF CopyBegin
  <2>2. Best \in Locs
    BY <1>1, BestType DEF CopyBegin
  <2>3. mover' \in MoverState
    BY <1>a, <2>1, <2>2 DEF MoverState, NoMove
  <2>4. /\ mover'.dest = d /\ mover'.src = Best /\ mover'.full = asset.full
    BY <2>1 DEF NoMove
  <2>5. d \in Storage /\ still' = still
    BY <1>1 DEF CopyBegin, Storage
  <2>6. MoverOK'
    BY <1>0, <2>2, <2>4, <2>5 DEF MoverOK
  <2>7. row' \in [Locs -> Rows]
    BY <1>1, PutType DEF CopyBegin
  <2>8. overlap' \in BOOLEAN
    BY <1>0, <1>1 DEF CopyBegin, CheckState
  <2>9. check' \in CheckState /\ CheckOK' /\ Whole(asset)'
    BY <1>1, CheckStays, AssetStays DEF CopyBegin
  <2> QED BY <1>0, <1>1, <2>3, <2>6, <2>7, <2>8, <2>9, InvFrom DEF CopyBegin
<1>2. CASE CopyFails
  <2>1. check' \in CheckState /\ CheckOK' /\ Whole(asset)' /\ mover' \in MoverState /\ MoverOK'
    BY <1>2, CheckStays, AssetStays, MoveEnds DEF CopyFails
  <2> QED BY <1>0, <1>2, <2>1, InvFrom DEF CopyFails
<1>3. CASE AlreadyComplete
  <2>1. mover' = [mover EXCEPT !.pc = "record"]
    BY <1>3 DEF AlreadyComplete
  <2>2. mover' \in MoverState
    BY <1>0, <2>1 DEF MoverState
  <2>3. mover'.dest = mover.dest /\ mover'.src = mover.src /\ mover'.full = mover.full
    BY <1>0, <2>1 DEF MoverState
  <2>4. MoverOK'
    BY <1>0, <1>3, <2>3 DEF MoverOK, AlreadyComplete
  <2>5. check' \in CheckState /\ CheckOK' /\ Whole(asset)'
    BY <1>3, CheckStays, AssetStays DEF AlreadyComplete
  <2> QED BY <1>0, <1>3, <2>2, <2>4, <2>5, InvFrom DEF AlreadyComplete
<1>4. CASE Copy
  <2>1. PICK resumed \in BOOLEAN :
          mover' = [mover EXCEPT !.pc = "record",
                       !.hash = IF resumed THEN None ELSE disk[mover.src]]
    BY <1>4 DEF Copy
  <2>0. mover.src \in Locs /\ disk[mover.src] \in Versions \cup {None}
    BY <1>0, <1>4 DEF MoverOK, Copy
  <2>2. mover' \in MoverState
    BY <1>0, <2>0, <2>1 DEF MoverState
  <2>3. mover'.dest = mover.dest /\ mover'.src = mover.src /\ mover'.full = mover.full
    BY <1>0, <2>1 DEF MoverState
  <2>4. MoverOK'
    BY <1>0, <1>4, <2>3 DEF MoverOK, Copy
  <2>5. check' \in CheckState /\ CheckOK' /\ Whole(asset)'
    BY <1>4, CheckStays, AssetStays DEF Copy
  <2>6. disk' \in [Locs -> Versions \cup {None}] /\ retaken' \subseteq found' /\ found' \subseteq Locs
    BY <1>4, <2>0, WriteType DEF Copy
  <2> QED BY <1>0, <1>4, <2>2, <2>4, <2>5, <2>6, InvFrom DEF Copy
<1>5. CASE Record
  <2>1. check' \in CheckState /\ CheckOK' /\ mover' \in MoverState /\ MoverOK'
    BY <1>5, CheckStays, MoveEnds DEF Record
  <2> DEFINE h == IF mover.hash # None THEN mover.hash ELSE mover.full
  <2>2. h \in Versions \cup {None} /\ Put(mover.dest, "complete", h)
    BY <1>m, <1>5 DEF Record
  <2>3. row' \in [Locs -> Rows]
    BY <2>2, PutType
  <2>4. Whole(asset)'
    <3>1. CASE mover.full = None /\ mover.hash # None
      <4>1. asset' = [asset EXCEPT !.full = mover.hash] /\ still' = still
        BY <1>5, <3>1 DEF Record
      <4>2. ~still
        BY <1>0, <1>5, <3>1 DEF MoverOK, Record
      <4>3. asset' \in Assets
        BY <1>0, <1>m, <4>1 DEF Assets
      <4> QED BY <4>1, <4>2, <4>3 DEF Whole
    <3>2. CASE ~(mover.full = None /\ mover.hash # None)
      BY <1>5, <3>2, AssetStays DEF Record
    <3> QED BY <3>1, <3>2
  <2> QED BY <1>0, <1>5, <2>1, <2>3, <2>4, InvFrom DEF Record
<1>6. CASE Flush
  <2>1. check' \in CheckState /\ CheckOK' /\ Whole(asset)' /\ mover' \in MoverState /\ MoverOK'
    BY <1>6, CheckStays, AssetStays, MoveStays DEF Flush
  <2>2. disk' \in [Locs -> Versions \cup {None}] /\ retaken' \subseteq found' /\ found' \subseteq Locs
    BY <1>6, WriteType DEF Flush
  <2>3. row' \in [Locs -> Rows]
    BY <1>0, <1>6, NoneOK DEF Flush
  <2>4. overlap' \in BOOLEAN
    BY <1>0, <1>6 DEF Flush, CheckState
  <2> QED BY <1>0, <1>6, <2>1, <2>2, <2>3, <2>4, InvFrom DEF Flush
<1> QED BY <1>1, <1>2, <1>3, <1>4, <1>5, <1>6

\* Verify keeps it while it reads.
LEMMA InvRead ==
  ASSUME Inv,
         \/ \E full, allow \in BOOLEAN : VerifyBegin(full, allow)
         \/ \E l \in Locs : CheckCopy(l)
         \/ ReadEnd
  PROVE  Inv'
<1>0. /\ still \in BOOLEAN /\ disk \in [Locs -> Versions \cup {None}]
      /\ row \in [Locs -> Rows] /\ asset \in Assets
      /\ still => asset.full # None /\ asset.size = Size[asset.full]
      /\ mounted \subseteq Locs
      /\ mover \in MoverState /\ MoverOK /\ check \in CheckState /\ CheckOK
      /\ retaken \subseteq found /\ found \subseteq Locs /\ adopted \in Versions \cup {None}
      /\ overlap \in BOOLEAN /\ writes \in 0..MaxWrites /\ faults \in 0..MaxFaults
  BY Parts
<1>c. /\ check.todo \subseteq Storage /\ check.ok \subseteq Storage
      /\ check.bad \subseteq Storage /\ check.changed \subseteq check.bad
      /\ check.hashes \subseteq Versions /\ check.ok \cap check.bad = {}
  BY <1>0 DEF CheckState, CheckOK
<1>1. ASSUME NEW full \in BOOLEAN, NEW allow \in BOOLEAN, VerifyBegin(full, allow)
      PROVE  Inv'
  <2> DEFINE jobs == {l \in mounted \ {Card} : row[l].state \in {"complete", "mismatch"}}
  <2>1. jobs \subseteq Storage
    BY <1>0 DEF Storage
  <2>2. check' = [NoCheck EXCEPT !.pc = "read", !.full = full, !.allow = allow,
                                 !.asset = asset, !.todo = jobs]
    BY <1>1 DEF VerifyBegin
  <2> HIDE DEF jobs
  <2>3. check' \in CheckState
    BY <1>0, <2>1, <2>2 DEF CheckState, NoCheck
  <2>4. /\ check'.pc = "read" /\ check'.asset = asset /\ check'.ok = {} /\ check'.bad = {}
        /\ check'.changed = {}
    BY <2>2 DEF NoCheck
  <2>5. UNCHANGED <<still, asset, mover>>
    BY <1>1 DEF VerifyBegin
  <2>6. CheckOK'
    BY <1>0, <2>4, <2>5 DEF CheckOK, Whole, Adopting
  <2>7. mover' \in MoverState /\ MoverOK' /\ Whole(asset)'
    BY <2>5, MoveStays, AssetStays
  <2>8. overlap' \in BOOLEAN
    BY <1>0, <1>1 DEF VerifyBegin
  <2> QED BY <1>0, <1>1, <2>3, <2>6, <2>7, <2>8, InvFrom DEF VerifyBegin
<1>2. ASSUME NEW l \in Locs, CheckCopy(l) PROVE Inv'
  <2> DEFINE bad == ~Matches(l)
             changed == bad /\ Readable(l)
  <2>1. /\ check.pc = "read" /\ l \in check.todo
        /\ check' = [check EXCEPT
             !.todo = @ \ {l},
             !.ok = IF bad THEN @ ELSE @ \cup {l},
             !.bad = IF bad THEN @ \cup {l} ELSE @,
             !.changed = IF changed THEN @ \cup {l} ELSE @,
             !.hashes = IF bad \/ ~check.full THEN @ ELSE @ \cup {disk[l]}]
    BY <1>2 DEF CheckCopy
  <2>2. changed => bad
    OBVIOUS
  <2>3. ~bad => disk[l] \in Versions
    BY <1>0 DEF Matches, Readable
  <2> HIDE DEF bad, changed
  <2>4. /\ check'.pc = check.pc /\ check'.asset = check.asset
        /\ check'.todo = check.todo \ {l}
        /\ check'.ok = IF bad THEN check.ok ELSE check.ok \cup {l}
        /\ check'.bad = IF bad THEN check.bad \cup {l} ELSE check.bad
        /\ check'.changed = IF changed THEN check.changed \cup {l} ELSE check.changed
    BY <1>0, <2>1 DEF CheckState
  <2>5. check' \in CheckState
    <3>1. /\ check.todo \ {l} \in SUBSET Storage
          /\ (IF bad THEN check.ok ELSE check.ok \cup {l}) \in SUBSET Storage
          /\ (IF bad THEN check.bad \cup {l} ELSE check.bad) \in SUBSET Storage
          /\ (IF changed THEN check.changed \cup {l} ELSE check.changed) \in SUBSET Storage
          /\ (IF bad \/ ~check.full THEN check.hashes ELSE check.hashes \cup {disk[l]})
               \in SUBSET Versions
      BY <1>c, <2>1, <2>3
    <3> QED BY <1>0, <2>1, <3>1, ZenonT(60) DEF CheckState
  <2>6. UNCHANGED <<still, asset, mover>>
    BY <1>2 DEF CheckCopy
  <2>7. l \notin check.ok \cup check.bad /\ check.todo \cap (check.ok \cup check.bad) = {}
        /\ Whole(check.asset)
    BY <1>0, <2>1 DEF CheckOK
  <2>8. CheckOK'
    <3>1. Whole(check.asset)'
      BY <2>4, <2>6, <2>7 DEF Whole
    <3>2. check'.ok \cap check'.bad = {} /\ check'.changed \subseteq check'.bad
      BY <1>c, <2>2, <2>4, <2>7
    <3>3. check'.todo \cap (check'.ok \cup check'.bad) = {}
      BY <2>4, <2>7
    <3>4. check'.pc = "read"
      BY <2>1, <2>4
    <3> QED BY <3>1, <3>2, <3>3, <3>4 DEF CheckOK, Adopting, Whole
  <2>9. mover' \in MoverState /\ MoverOK' /\ Whole(asset)'
    BY <2>6, MoveStays, AssetStays
  <2> QED BY <1>0, <1>2, <2>5, <2>8, <2>9, InvFrom DEF CheckCopy
<1>3. CASE ReadEnd
  <2> DEFINE compare == check.full /\ check.asset.full = None
             agreed == compare /\ Cardinality(check.hashes) = 1
             conflict == compare /\ Cardinality(check.hashes) > 1
             sum == CHOOSE h \in check.hashes : TRUE
  <2>1. /\ check.pc = "read"
        /\ check' = [check EXCEPT !.pc = "apply", !.todo = check.ok \cup check.bad,
                                  !.ok = IF conflict THEN {} ELSE @,
                                  !.bad = IF conflict THEN @ \cup check.ok ELSE @]
        /\ asset' = IF agreed THEN [asset EXCEPT !.full = sum] ELSE asset
        /\ row' = [l \in Locs |-> IF agreed /\ l \in check.ok
                                  THEN [state |-> "complete", hash |-> sum] ELSE row[l]]
        /\ Unfind(IF agreed THEN check.ok ELSE {})
        /\ UNCHANGED <<still, disk, mounted, mover, adopted, overlap, writes, faults>>
    BY <1>3 DEF ReadEnd
  <2>2. agreed => sum \in Versions /\ ~still
    <3> HAVE agreed
    <3>1. sum \in check.hashes
      BY SomeHash
    <3>2. Whole(check.asset) /\ check.asset.full = None
      BY <1>0, <2>1 DEF CheckOK
    <3> QED BY <1>c, <3>1, <3>2 DEF Whole
  <2> HIDE DEF agreed, conflict, sum
  <2>4. /\ check'.pc = "apply" /\ check'.asset = check.asset
        /\ check'.todo = check.ok \cup check.bad
        /\ check'.ok = IF conflict THEN {} ELSE check.ok
        /\ check'.bad = IF conflict THEN check.bad \cup check.ok ELSE check.bad
        /\ check'.changed = check.changed
    BY <1>0, <2>1 DEF CheckState
  <2>5. check' \in CheckState
    <3>1. /\ check.ok \cup check.bad \in SUBSET Storage
          /\ (IF conflict THEN {} ELSE check.ok) \in SUBSET Storage
          /\ (IF conflict THEN check.bad \cup check.ok ELSE check.bad) \in SUBSET Storage
      BY <1>c
    <3> QED BY <1>0, <2>1, <3>1 DEF CheckState
  <2>6. CheckOK'
    <3>1. Whole(check.asset)'
      BY <1>0, <2>1, <2>4 DEF Whole, CheckOK
    <3>2. check'.ok \cap check'.bad = {} /\ check'.changed \subseteq check'.bad
      BY <1>c, <2>4
    <3>3. check'.todo \subseteq check'.ok \cup check'.bad
      BY <2>4
    <3> QED BY <2>4, <3>1, <3>2, <3>3 DEF CheckOK, Adopting, Whole
  <2>7. Whole(asset)'
    <3>1. CASE agreed
      <4>1. asset' = [asset EXCEPT !.full = sum] /\ still' = still
        BY <2>1, <3>1
      <4>2. asset' \in Assets
        BY <1>0, <2>2, <3>1, <4>1 DEF Assets
      <4> QED BY <2>2, <3>1, <4>1, <4>2 DEF Whole
    <3>2. CASE ~agreed
      BY <2>1, <3>2, AssetStays
    <3> QED BY <3>1, <3>2
  <2>8. row' \in [Locs -> Rows]
    <3>1. agreed => [state |-> "complete", hash |-> sum] \in Rows
      BY <2>2 DEF Rows
    <3> QED BY <1>0, <2>1, <3>1
  <2>9. mover' \in MoverState /\ MoverOK'
    BY <2>1, MoveStays
  <2>10. retaken' \subseteq found' /\ found' \subseteq Locs
    BY <1>0, <2>1 DEF Unfind
  <2> QED BY <1>0, <2>1, <2>5, <2>6, <2>7, <2>8, <2>9, <2>10, InvFrom
<1> QED BY <1>1, <1>2, <1>3

\* Verify keeps it while it writes rows and replaces files.
LEMMA InvApply ==
  ASSUME Inv,
         \/ \E l \in Locs : Apply(l) \/ Replace(l) \/ ReplaceFails(l)
         \/ AdoptContent \/ AdoptRow \/ ReplaceRow \/ VerifyEnd
  PROVE  Inv'
<1>0. /\ still \in BOOLEAN /\ disk \in [Locs -> Versions \cup {None}]
      /\ row \in [Locs -> Rows] /\ asset \in Assets
      /\ still => asset.full # None /\ asset.size = Size[asset.full]
      /\ mounted \subseteq Locs
      /\ mover \in MoverState /\ MoverOK /\ check \in CheckState /\ CheckOK
      /\ retaken \subseteq found /\ found \subseteq Locs /\ adopted \in Versions \cup {None}
      /\ overlap \in BOOLEAN /\ writes \in 0..MaxWrites /\ faults \in 0..MaxFaults
  BY Parts
<1>c. /\ check.todo \subseteq Storage /\ check.ok \subseteq Storage
      /\ check.sum \in Versions \cup {None}
      /\ check.bad \subseteq Storage /\ check.changed \subseteq check.bad
      /\ check.hashes \subseteq Versions /\ check.ok \cap check.bad = {}
  BY <1>0 DEF CheckState, CheckOK
<1>t. ASSUME NEW T \in SUBSET check.todo, check' = [check EXCEPT !.todo = T], still' = still
      PROVE  check' \in CheckState /\ CheckOK'
  <2>1. check' \in CheckState
    <3>1. T \in SUBSET Storage
      BY <1>c
    <3> QED BY <1>0, <1>t, <3>1 DEF CheckState
  <2>2. /\ check'.pc = check.pc /\ check'.todo = T /\ check'.ok = check.ok
        /\ check'.bad = check.bad /\ check'.changed = check.changed
        /\ check'.asset = check.asset /\ check'.allow = check.allow
        /\ check'.sum = check.sum /\ check'.at = check.at
    BY <1>0, <1>t DEF CheckState
  <2>3. CheckOK'
    BY <1>0, <1>t, <2>2 DEF CheckOK, Whole
  <2> QED BY <2>1, <2>3
<1>r. ASSUME NEW l \in Locs, NEW s \in {"none", "partial", "complete", "mismatch"},
             row' = [row EXCEPT ![l].state = s]
      PROVE  row' \in [Locs -> Rows]
  <2>1. row[l] \in Rows
    BY <1>0
  <2>2. [row[l] EXCEPT !.state = s] \in Rows
    BY <2>1 DEF Rows
  <2> QED BY <1>0, <1>r, <2>2
<1>1. ASSUME NEW l \in Locs, Apply(l) PROVE Inv'
  <2>1. CASE row[l].state = "none"
    <3>1. row' = row /\ check' = NoCheck /\ Unfind({})
      BY <1>1, <2>1 DEF Apply
    <3>2. /\ check' \in CheckState /\ CheckOK' /\ mover' \in MoverState /\ MoverOK'
          /\ Whole(asset)'
      BY <1>1, <3>1, CheckEnds, MoveStays, AssetStays DEF Apply
    <3> QED BY <1>0, <1>1, <3>1, <3>2, InvFrom DEF Apply, Unfind
  <2>2. CASE row[l].state # "none"
    <3>1. /\ row' = [row EXCEPT ![l].state = IF l \in check.ok THEN "complete" ELSE "mismatch"]
          /\ check' = [check EXCEPT !.todo = @ \ {l}]
          /\ IF l \in check.ok THEN Unfind({l})
             ELSE /\ found' = IF l \in check.changed /\ Readable(l) /\ ~Matches(l)
                              THEN found \cup {l} ELSE found
                  /\ retaken' = retaken \ {l}
      BY <1>1, <2>2 DEF Apply
    <3>2. check' \in CheckState /\ CheckOK'
      <4>1. check.todo \ {l} \in SUBSET check.todo /\ still' = still
        BY <1>1 DEF Apply
      <4> QED BY <1>t, <3>1, <4>1
    <3>3. mover' \in MoverState /\ MoverOK' /\ Whole(asset)'
      BY <1>1, MoveStays, AssetStays DEF Apply
    <3>4. row' \in [Locs -> Rows]
      BY <1>r, <3>1
    <3>5. retaken' \subseteq found' /\ found' \subseteq Locs
      BY <1>0, <3>1 DEF Unfind
    <3> QED BY <1>0, <1>1, <3>2, <3>3, <3>4, <3>5, InvFrom DEF Apply
  <2> QED BY <2>1, <2>2
<1>2. ASSUME NEW l \in Locs, Replace(l) PROVE Inv'
  <2>1. /\ check.pc = "replace" /\ l \in check.todo
        /\ Readable(Edited) /\ Write(l, disk[Edited])
        /\ check' = [check EXCEPT !.pc = "put", !.todo = @ \ {l}, !.at = l]
        /\ UNCHANGED <<still, row, asset, mounted, mover, adopted, overlap, writes, faults>>
    BY <1>2 DEF Replace
  <2>2. Edited \in Locs /\ disk[Edited] \in Versions \cup {None}
    BY <1>0, <2>1, EditedType, Locations DEF Adopting
  <2>3. disk' \in [Locs -> Versions \cup {None}] /\ retaken' \subseteq found' /\ found' \subseteq Locs
    BY <2>1, <2>2, WriteType
  <2>4. check' \in CheckState
    <3>1. check.todo \ {l} \in SUBSET Storage
      BY <1>c
    <3> QED BY <1>0, <2>1, <3>1 DEF CheckState
  <2>5. /\ check'.pc = "put" /\ check'.todo = check.todo \ {l} /\ check'.ok = check.ok
        /\ check'.bad = check.bad /\ check'.changed = check.changed
        /\ check'.asset = check.asset /\ check'.allow = check.allow
        /\ check'.sum = check.sum /\ check'.at = l
    BY <1>0, <2>1 DEF CheckState
  <2>6. /\ check.pc = "replace" /\ check.todo \subseteq check.ok /\ still /\ check.allow
        /\ check.sum \in Versions /\ (\E e \in Storage : check.changed = {e})
        /\ Whole(check.asset)
    BY <1>0, <2>1 DEF CheckOK, Adopting
  <2>7. CheckOK'
    <3>1. Whole(check.asset)'
      BY <2>1, <2>5, <2>6 DEF Whole
    <3>2. check'.todo \subseteq check'.ok /\ check'.at \in check'.ok \ check'.todo
      BY <2>1, <2>5, <2>6
    <3>3. still' /\ check'.allow /\ check'.sum \in Versions /\ (\E e \in Storage : check'.changed = {e})
      BY <2>1, <2>5, <2>6
    <3> QED BY <1>c, <2>5, <3>1, <3>2, <3>3 DEF CheckOK, Whole
  <2>8. mover' \in MoverState /\ MoverOK' /\ Whole(asset)'
    BY <2>1, MoveStays, AssetStays
  <2> QED BY <1>0, <2>1, <2>3, <2>4, <2>7, <2>8, InvFrom
<1>3. ASSUME NEW l \in Locs, ReplaceFails(l) PROVE Inv'
  <2>1. check' = [check EXCEPT !.todo = @ \ {l}] /\ still' = still
    BY <1>3 DEF ReplaceFails
  <2>2. check' \in CheckState /\ CheckOK'
    <3>1. check.todo \ {l} \in SUBSET check.todo
      OBVIOUS
    <3> QED BY <1>t, <2>1, <3>1
  <2>3. mover' \in MoverState /\ MoverOK' /\ Whole(asset)'
    BY <1>3, MoveStays, AssetStays DEF ReplaceFails
  <2>4. row' \in [Locs -> Rows]
    <3> DEFINE s == IF row[l].state = "none" THEN row[l].state ELSE "mismatch"
    <3>1. row' = [row EXCEPT ![l].state = s]
      BY <1>0, <1>3 DEF ReplaceFails
    <3>2. s \in {"none", "partial", "complete", "mismatch"}
      OBVIOUS
    <3> HIDE DEF s
    <3> QED BY <1>r, <3>1, <3>2
  <2> QED BY <1>0, <1>3, <2>2, <2>3, <2>4, InvFrom DEF ReplaceFails
<1>4. CASE AdoptContent
  <2>1. CASE /\ check.allow /\ Cardinality(check.changed) = 1 /\ check.ok # {}
             /\ Updates /\ Readable(Edited)
    <3>1. /\ check.pc = "apply" /\ check.todo = {}
          /\ asset' = [size |-> Size[disk[Edited]], full |-> disk[Edited]]
          /\ check' = [check EXCEPT !.pc = "row", !.sum = disk[Edited]]
          /\ adopted' = IF adopted = None THEN disk[Edited] ELSE adopted
          /\ Unfind({l \in Locs : disk[l] = disk[Edited]})
          /\ UNCHANGED <<still, disk, row, mounted, mover, overlap, writes, faults>>
      BY <1>4, <2>1 DEF AdoptContent
    <3>2. check.changed = {Edited} /\ Edited \in Storage /\ Edited \in Locs
      BY <2>1, EditedType, Locations
    <3>3. disk[Edited] \in Versions
      BY <1>0, <2>1, <3>2 DEF Readable
    <3>4. check' \in CheckState
      BY <1>0, <3>1, <3>3 DEF CheckState
    <3>5. /\ check'.pc = "row" /\ check'.todo = check.todo /\ check'.ok = check.ok
          /\ check'.bad = check.bad /\ check'.changed = check.changed
          /\ check'.asset = check.asset /\ check'.allow = check.allow
          /\ check'.sum = disk[Edited]
      BY <1>0, <3>1 DEF CheckState
    <3>6. CheckOK'
      <4>1. Whole(check.asset)'
        BY <1>0, <3>1, <3>5 DEF Whole, CheckOK
      <4>2. still' /\ check'.allow /\ check'.sum \in Versions /\ (\E e \in Storage : check'.changed = {e})
        BY <2>1, <3>1, <3>2, <3>3, <3>5 DEF Updates
      <4> QED BY <1>c, <3>5, <4>1, <4>2 DEF CheckOK, Whole
    <3>7. Whole(asset)'
      <4>1. asset'.size = Size[disk[Edited]] /\ asset'.full = disk[Edited]
        BY <3>1
      <4>2. asset' \in Assets
        BY <3>1, <3>3 DEF Assets
      <4> QED BY <3>3, <4>1, <4>2, Locations DEF Whole
    <3>8. mover' \in MoverState /\ MoverOK'
      BY <3>1, MoveStays
    <3>9. adopted' \in Versions \cup {None} /\ retaken' \subseteq found' /\ found' \subseteq Locs
      BY <1>0, <3>1, <3>3 DEF Unfind
    <3> QED BY <1>0, <3>1, <3>4, <3>6, <3>7, <3>8, <3>9, InvFrom
  <2>2. CASE ~(/\ check.allow /\ Cardinality(check.changed) = 1 /\ check.ok # {}
               /\ Updates /\ Readable(Edited))
    <3>1. /\ check' = NoCheck
          /\ UNCHANGED <<still, disk, row, asset, mounted, mover, found, retaken, adopted, overlap, writes, faults>>
      BY <1>4, <2>2 DEF AdoptContent
    <3>2. /\ check' \in CheckState /\ CheckOK' /\ mover' \in MoverState /\ MoverOK'
          /\ Whole(asset)'
      BY <3>1, CheckEnds, MoveStays, AssetStays
    <3> QED BY <1>0, <3>1, <3>2, InvFrom
  <2> QED BY <2>1, <2>2
<1>5. CASE AdoptRow
  <2>1. /\ check.pc = "row" /\ Put(Edited, "complete", check.sum)
        /\ check' = [check EXCEPT !.pc = "replace", !.todo = check.ok]
        /\ UNCHANGED <<still, disk, asset, mounted, mover, found, retaken, adopted, overlap, writes, faults>>
    BY <1>5 DEF AdoptRow
  <2>2. row' \in [Locs -> Rows]
    BY <1>c, <2>1, PutType
  <2>3. check' \in CheckState
    BY <1>0, <1>c, <2>1 DEF CheckState
  <2>4. /\ check'.pc = "replace" /\ check'.todo = check.ok /\ check'.ok = check.ok
        /\ check'.bad = check.bad /\ check'.changed = check.changed
        /\ check'.asset = check.asset /\ check'.allow = check.allow
        /\ check'.sum = check.sum
    BY <1>0, <2>1 DEF CheckState
  <2>5. /\ still /\ check.allow /\ check.sum \in Versions
        /\ (\E e \in Storage : check.changed = {e}) /\ Whole(check.asset)
    BY <1>0, <2>1 DEF CheckOK, Adopting
  <2>6. CheckOK'
    <3>1. Whole(check.asset)'
      BY <2>1, <2>4, <2>5 DEF Whole
    <3>2. still' /\ check'.allow /\ check'.sum \in Versions /\ (\E e \in Storage : check'.changed = {e})
      BY <2>1, <2>4, <2>5
    <3> QED BY <1>c, <2>4, <3>1, <3>2 DEF CheckOK, Whole
  <2>7. mover' \in MoverState /\ MoverOK' /\ Whole(asset)'
    BY <2>1, MoveStays, AssetStays
  <2> QED BY <1>0, <2>1, <2>2, <2>3, <2>6, <2>7, InvFrom
<1>6. CASE ReplaceRow
  <2>1. /\ check.pc = "put" /\ Put(check.at, "complete", check.sum)
        /\ check' = [check EXCEPT !.pc = "replace"]
        /\ UNCHANGED <<still, disk, asset, mounted, mover, found, retaken, adopted, overlap, writes, faults>>
    BY <1>6 DEF ReplaceRow
  <2>2. row' \in [Locs -> Rows]
    BY <1>c, <2>1, PutType
  <2>3. check' \in CheckState
    BY <1>0, <1>c, <2>1 DEF CheckState
  <2>4. /\ check'.pc = "replace" /\ check'.todo = check.todo /\ check'.ok = check.ok
        /\ check'.bad = check.bad /\ check'.changed = check.changed
        /\ check'.asset = check.asset /\ check'.allow = check.allow
        /\ check'.sum = check.sum
    BY <1>0, <2>1 DEF CheckState
  <2>5. /\ still /\ check.allow /\ check.sum \in Versions
        /\ (\E e \in Storage : check.changed = {e}) /\ Whole(check.asset)
        /\ check.todo \subseteq check.ok
    BY <1>0, <2>1 DEF CheckOK, Adopting
  <2>6. CheckOK'
    <3>1. Whole(check.asset)'
      BY <2>1, <2>4, <2>5 DEF Whole
    <3>2. still' /\ check'.allow /\ check'.sum \in Versions /\ (\E e \in Storage : check'.changed = {e})
      BY <2>1, <2>4, <2>5
    <3> QED BY <1>c, <2>4, <2>5, <3>1, <3>2 DEF CheckOK, Whole
  <2>7. mover' \in MoverState /\ MoverOK' /\ Whole(asset)'
    BY <2>1, MoveStays, AssetStays
  <2> QED BY <1>0, <2>1, <2>2, <2>3, <2>6, <2>7, InvFrom
<1>7. CASE VerifyEnd
  <2>1. /\ check' \in CheckState /\ CheckOK' /\ mover' \in MoverState /\ MoverOK'
        /\ Whole(asset)'
    BY <1>7, CheckEnds, MoveStays, AssetStays DEF VerifyEnd
  <2> QED BY <1>0, <1>7, <2>1, InvFrom DEF VerifyEnd
<1> QED BY <1>1, <1>2, <1>3, <1>4, <1>5, <1>6, <1>7

\* Editors, volumes and kills keep it.
LEMMA InvFaults ==
  ASSUME Inv,
         \/ \E l \in Locs, v \in Versions : Change(l, v)
         \/ \E l \in Locs : Unplug(l) \/ Plug(l)
         \/ Crash \/ UNCHANGED vars
  PROVE  Inv'
<1>0. /\ still \in BOOLEAN /\ disk \in [Locs -> Versions \cup {None}]
      /\ row \in [Locs -> Rows] /\ asset \in Assets
      /\ mounted \subseteq Locs
      /\ retaken \subseteq found /\ found \subseteq Locs /\ adopted \in Versions \cup {None}
      /\ overlap \in BOOLEAN /\ writes \in 0..MaxWrites /\ faults \in 0..MaxFaults
  BY Parts
<1>n. MaxWrites \in Nat /\ MaxFaults \in Nat
  BY HashesAssumption
<1>1. ASSUME NEW l \in Locs, NEW v \in Versions, Change(l, v) PROVE Inv'
  <2>1. /\ check' \in CheckState /\ CheckOK' /\ mover' \in MoverState /\ MoverOK'
        /\ Whole(asset)'
    BY <1>1, CheckStays, MoveStays, AssetStays DEF Change
  <2>2. disk' \in [Locs -> Versions \cup {None}] /\ retaken' \subseteq found' /\ found' \subseteq Locs
    BY <1>1, WriteType DEF Change
  <2>3. writes' \in 0..MaxWrites
    BY <1>0, <1>1, <1>n DEF Change
  <2> QED BY <1>0, <1>1, <2>1, <2>2, <2>3, InvFrom DEF Change
<1>2. ASSUME NEW l \in Locs, Unplug(l) PROVE Inv'
  <2>1. /\ check' \in CheckState /\ CheckOK' /\ mover' \in MoverState /\ MoverOK'
        /\ Whole(asset)'
    BY <1>2, CheckStays, MoveStays, AssetStays DEF Unplug
  <2>2. faults' \in 0..MaxFaults /\ mounted' \subseteq Locs
    BY <1>0, <1>2, <1>n DEF Unplug
  <2> QED BY <1>0, <1>2, <2>1, <2>2, InvFrom DEF Unplug
<1>3. ASSUME NEW l \in Locs, Plug(l) PROVE Inv'
  <2>1. /\ check' \in CheckState /\ CheckOK' /\ mover' \in MoverState /\ MoverOK'
        /\ Whole(asset)'
    BY <1>3, CheckStays, MoveStays, AssetStays DEF Plug
  <2>2. mounted' \subseteq Locs
    BY <1>0, <1>3 DEF Plug
  <2> QED BY <1>0, <1>3, <2>1, <2>2, InvFrom DEF Plug
<1>4. CASE Crash
  <2>1. check' = check \/ check' = NoCheck
    BY <1>4 DEF Crash
  <2>2. mover' = mover \/ mover' = NoMove
    BY <1>4 DEF Crash
  <2>3. still' = still /\ asset' = asset
    BY <1>4 DEF Crash
  <2>4. check' \in CheckState /\ CheckOK'
    BY <2>1, <2>3, CheckStays, CheckEnds
  <2>5. mover' \in MoverState /\ MoverOK'
    BY <2>2, <2>3, MoveStays, MoveEnds
  <2>6. Whole(asset)'
    BY <2>3, AssetStays
  <2>7. faults' \in 0..MaxFaults
    BY <1>0, <1>4, <1>n DEF Crash
  <2> QED BY <1>0, <1>4, <2>4, <2>5, <2>6, <2>7, InvFrom DEF Crash
<1>5. CASE UNCHANGED vars
  <2>1. /\ check' \in CheckState /\ CheckOK' /\ mover' \in MoverState /\ MoverOK'
        /\ Whole(asset)'
    BY <1>5, CheckStays, MoveStays, AssetStays DEF vars
  <2> QED BY <1>0, <1>5, <2>1, InvFrom DEF vars
<1> QED BY <1>1, <1>2, <1>3, <1>4, <1>5

\* Every step keeps the invariant.
LEMMA InvNext == Inv /\ [Next]_vars => Inv'
BY InvCopy, InvRead, InvApply, InvFaults DEF Next

\* The invariant holds in every reachable state.
LEMMA InvSpec == Spec => []Inv
BY InvInit, InvNext, PTL DEF Spec

(* Types, for every number of locations, versions, writes and faults: the    *)
(* locations that First and Edited choose exist, an asset that is a still    *)
(* keeps a full hash and the size that goes with it, and a verify never      *)
(* counts a copy among the good and the bad ones at once.                    *)
THEOREM TypeCorrect == Spec => []TypeOK
<1>1. Inv => TypeOK
  BY DEF Inv
<1> QED BY <1>1, InvSpec, PTL

-----------------------------------------------------------------------------
(* What a flush may rest on.                                               *)

\* At first nothing was found bad.
LEMMA FoundInit == Init => FoundInv
<1> SUFFICES ASSUME Init PROVE FoundInv
  OBVIOUS
<1>1. Inv
  BY InvInit
<1>2. found = {} /\ check = NoCheck
  BY DEF Init
<1> QED BY <1>1, <1>2, NoneOK DEF FoundInv, Untaken

\* Where no row gets complete and no file is found bad, the invariant stays.
LEMMA FoundStays ==
  ASSUME Untaken, found' \subseteq found, retaken \cap found' \subseteq retaken',
         \A l \in found' : Complete(l)' => Complete(l),
         check'.pc = "row" => check.pc = "row" /\ check'.changed = check.changed,
         check'.pc = "put" => check.pc = "put" /\ check'.at = check.at
  PROVE  Untaken'
BY DEF Untaken, Edited

\* A step that leaves the verify, the findings and the complete rows as they are.
LEMMA FoundIdle ==
  ASSUME Untaken, UNCHANGED <<found, retaken, check>>,
         \A l \in found : Complete(l)' => Complete(l)
  PROVE  Untaken'
BY FoundStays

\* A file is written while its row stays, or deleted with its row.
LEMMA FoundWrite ==
  ASSUME Untaken, NEW w, NEW v, Write(w, v), check' = check,
         \A l \in Locs \ {w} : Complete(l)' => Complete(l), found \subseteq Locs
  PROVE  Untaken'
<1>1. /\ found' = found \ {w} /\ retaken' = retaken \ {w}
  BY DEF Write, Unfind
<1> QED BY <1>1, FoundStays

\* copyTo and Flush keep it: Archive says that it records a file found bad.
LEMMA FoundCopy ==
  ASSUME FoundInv,
         \/ \E l \in Locs : CopyBegin(l)
         \/ CopyFails \/ AlreadyComplete \/ Copy \/ Record \/ Flush
  PROVE  Untaken'
<1>0. /\ Inv /\ Untaken /\ found \subseteq Locs /\ row \in [Locs -> Rows]
  BY Parts DEF FoundInv
<1>1. ASSUME NEW d \in Locs, CopyBegin(d) PROVE Untaken'
  <2>1. \A l \in Locs : Complete(l)' => Complete(l)
    BY <1>0, <1>1 DEF CopyBegin, Put, Complete
  <2> QED BY <1>0, <1>1, <2>1, FoundIdle DEF CopyBegin
<1>2. CASE CopyFails \/ AlreadyComplete
  BY <1>0, <1>2, FoundIdle DEF CopyFails, AlreadyComplete, Complete
<1>3. CASE Copy
  BY <1>0, <1>3, FoundWrite DEF Copy, Complete
<1>4. CASE Record
  <2>1. /\ retaken' = retaken \cup ({mover.dest} \cap found) /\ UNCHANGED <<found, check>>
        /\ \A l \in Locs \ {mover.dest} : row'[l] = row[l]
    BY <1>0, <1>4 DEF Record, Put
  <2>2. \A l \in found' \ retaken' : ~Complete(l)'
    BY <1>0, <2>1 DEF Untaken, Complete
  <2> QED BY <1>0, <2>1, <2>2 DEF Untaken, Edited
<1>5. CASE Flush
  <2>1. \A l \in Locs \ {Spool} : row'[l] = row[l]
    BY <1>0, <1>5 DEF Flush
  <2> QED BY <1>0, <1>5, <2>1, FoundWrite DEF Flush, Complete
<1> QED BY <1>1, <1>2, <1>3, <1>4, <1>5

\* Verify keeps it: a row it writes complete is of a file it found good, or of the
\* edit that it adopts.
LEMMA FoundVerify ==
  ASSUME FoundInv,
         \/ \E full, allow \in BOOLEAN : VerifyBegin(full, allow)
         \/ \E l \in Locs : CheckCopy(l) \/ Apply(l) \/ Replace(l) \/ ReplaceFails(l)
         \/ ReadEnd \/ AdoptContent \/ AdoptRow \/ ReplaceRow \/ VerifyEnd
  PROVE  Untaken'
<1>0. /\ Inv /\ Untaken /\ retaken \subseteq found /\ found \subseteq Locs
      /\ row \in [Locs -> Rows] /\ check \in CheckState /\ CheckOK
  BY Parts DEF FoundInv
<1>1. ASSUME NEW full \in BOOLEAN, NEW allow \in BOOLEAN, VerifyBegin(full, allow)
      PROVE  Untaken'
  <2>1. check'.pc = "read" /\ UNCHANGED <<row, found, retaken>>
    BY <1>1 DEF VerifyBegin, NoCheck
  <2> QED BY <1>0, <2>1, FoundStays DEF Complete
<1>2. ASSUME NEW l \in Locs, CheckCopy(l) PROVE Untaken'
  <2>1. check'.pc = "read" /\ UNCHANGED <<row, found, retaken>>
    BY <1>0, <1>2 DEF CheckCopy, CheckState
  <2> QED BY <1>0, <2>1, FoundStays DEF Complete
<1>3. CASE ReadEnd
  <2> DEFINE agreed == check.full /\ check.asset.full = None /\ Cardinality(check.hashes) = 1
             sum == CHOOSE h \in check.hashes : TRUE
             good == IF agreed THEN check.ok ELSE {}
  <2>1. /\ check'.pc = "apply" /\ Unfind(good)
        /\ row' = [l \in Locs |-> IF agreed /\ l \in check.ok
                                  THEN [state |-> "complete", hash |-> sum] ELSE row[l]]
    BY <1>0, <1>3 DEF ReadEnd, CheckState
  <2>2. \A l \in Locs \ good : row'[l] = row[l]
    BY <2>1
  <2> HIDE DEF good
  <2>3. found' = found \ good /\ retaken' = retaken \ good
    BY <2>1 DEF Unfind
  <2> QED BY <1>0, <2>1, <2>2, <2>3, FoundStays DEF Complete
<1>4. ASSUME NEW l \in Locs, Apply(l) PROVE Untaken'
  <2>1. CASE row[l].state = "none"
    <3>1. row' = row /\ check' = NoCheck /\ found' = found /\ retaken' = retaken
      BY <1>4, <2>1 DEF Apply, Unfind
    <3> QED BY <1>0, <3>1, NoneOK, FoundStays DEF Complete
  <2>2. CASE row[l].state # "none" /\ l \in check.ok
    <3>1. /\ found' = found \ {l} /\ retaken' = retaken \ {l}
          /\ \A k \in Locs \ {l} : row'[k] = row[k]
      BY <1>0, <1>4, <2>2 DEF Apply, Unfind
    <3>2. check'.pc = "apply"
      BY <1>0, <1>4, <2>2 DEF Apply, CheckState
    <3> QED BY <1>0, <3>1, <3>2, FoundStays DEF Complete
  <2>3. CASE row[l].state # "none" /\ l \notin check.ok
    <3>1. /\ found' \subseteq found \cup {l} /\ retaken' = retaken \ {l}
          /\ row'[l].state = "mismatch" /\ \A k \in Locs \ {l} : row'[k] = row[k]
      <4>1. row' = [row EXCEPT ![l].state = "mismatch"]
        BY <1>4, <2>3 DEF Apply
      <4>2. row[l] \in Rows
        BY <1>0
      <4>3. /\ found' = found \/ found' = found \cup {l}
            /\ retaken' = retaken \ {l}
        BY <1>4, <2>3 DEF Apply
      <4>4. row'[l].state = "mismatch" /\ \A k \in Locs \ {l} : row'[k] = row[k]
        BY <1>0, <4>1, <4>2 DEF Rows
      <4> QED BY <4>3, <4>4
    <3>2. check'.pc = "apply"
      BY <1>0, <1>4, <2>3 DEF Apply, CheckState
    <3>3. \A k \in found' \ retaken' : ~Complete(k)'
      BY <1>0, <3>1 DEF Untaken, Complete
    <3> QED BY <3>2, <3>3 DEF Untaken
  <2> QED BY <2>1, <2>2, <2>3
<1>5. ASSUME NEW l \in Locs, Replace(l) PROVE Untaken'
  <2>1. /\ found' = found \ {l} /\ retaken' = retaken \ {l} /\ row' = row
        /\ check'.pc = "put" /\ check'.at = l
    BY <1>0, <1>5 DEF Replace, Write, Unfind, CheckState
  <2> QED BY <1>0, <2>1 DEF Untaken, Complete
<1>6. ASSUME NEW l \in Locs, ReplaceFails(l) PROVE Untaken'
  <2>1. /\ \A k \in Locs : Complete(k)' => Complete(k)
        /\ UNCHANGED <<found, retaken>>
    BY <1>0, <1>6 DEF ReplaceFails, Complete
  <2>2. check'.pc = "replace"
    BY <1>0, <1>6 DEF ReplaceFails, CheckState
  <2> QED BY <1>0, <2>1, <2>2, FoundStays
<1>7. CASE AdoptContent
  <2>1. CASE /\ check.allow /\ Cardinality(check.changed) = 1 /\ check.ok # {}
             /\ Updates /\ Readable(Edited)
    <3>1. /\ check' = [check EXCEPT !.pc = "row", !.sum = disk[Edited]]
          /\ Unfind({l \in Locs : disk[l] = disk[Edited]}) /\ row' = row
      BY <1>7, <2>1 DEF AdoptContent
    <3>2. check'.pc = "row" /\ check'.changed = check.changed
      BY <1>0, <3>1 DEF CheckState
    <3>3. Edited' = Edited /\ Edited \in Locs
      BY <1>0, <2>1, <3>2, EditedType, Locations DEF Edited
    <3>4. Edited' \notin found'
      BY <3>1, <3>3 DEF Unfind
    <3>5. \A l \in found' \ retaken' : l \in found \ retaken
      BY <3>1 DEF Unfind
    <3> QED BY <1>0, <3>1, <3>2, <3>4, <3>5 DEF Untaken, Complete
  <2>2. CASE ~(/\ check.allow /\ Cardinality(check.changed) = 1 /\ check.ok # {}
               /\ Updates /\ Readable(Edited))
    <3>1. check' = NoCheck /\ UNCHANGED <<row, found, retaken>>
      BY <1>7, <2>2 DEF AdoptContent
    <3> QED BY <1>0, <3>1, NoneOK, FoundStays DEF Complete
  <2> QED BY <2>1, <2>2
<1>8. CASE AdoptRow
  <2>1. /\ check.pc = "row" /\ UNCHANGED <<found, retaken>>
        /\ \A l \in Locs \ {Edited} : row'[l] = row[l]
    BY <1>0, <1>8 DEF AdoptRow, Put
  <2>2. check'.pc = "replace"
    BY <1>0, <1>8 DEF AdoptRow, CheckState
  <2> QED BY <1>0, <2>1, <2>2 DEF Untaken, Complete
<1>9. CASE ReplaceRow
  <2>1. /\ check.pc = "put" /\ UNCHANGED <<found, retaken>>
        /\ \A l \in Locs \ {check.at} : row'[l] = row[l]
    BY <1>0, <1>9 DEF ReplaceRow, Put
  <2>2. check'.pc = "replace"
    BY <1>0, <1>9 DEF ReplaceRow, CheckState
  <2> QED BY <1>0, <2>1, <2>2 DEF Untaken, Complete
<1>10. CASE VerifyEnd
  <2>1. check' = NoCheck /\ UNCHANGED <<row, found, retaken>>
    BY <1>10 DEF VerifyEnd
  <2> QED BY <1>0, <2>1, NoneOK, FoundStays DEF Complete
<1> QED BY <1>1, <1>2, <1>3, <1>4, <1>5, <1>6, <1>7, <1>8, <1>9, <1>10

\* So do editors, volumes and kills.
LEMMA FoundFaults ==
  ASSUME FoundInv,
         \/ \E l \in Locs, v \in Versions : Change(l, v)
         \/ \E l \in Locs : Unplug(l) \/ Plug(l)
         \/ Crash \/ UNCHANGED vars
  PROVE  Untaken'
<1>0. Untaken /\ found \subseteq Locs
  BY Parts DEF FoundInv
<1>1. ASSUME NEW l \in Locs, NEW v \in Versions, Change(l, v) PROVE Untaken'
  BY <1>0, <1>1, FoundWrite DEF Change, Complete
<1>2. ASSUME NEW l \in Locs, Unplug(l) \/ Plug(l) PROVE Untaken'
  BY <1>0, <1>2, FoundIdle DEF Unplug, Plug, Complete
<1>3. CASE Crash
  <2>1. check' = check \/ check' = NoCheck
    BY <1>3 DEF Crash
  <2>2. UNCHANGED <<row, found, retaken>>
    BY <1>3 DEF Crash
  <2> QED BY <1>0, <2>1, <2>2, NoneOK, FoundStays DEF Complete
<1>4. CASE UNCHANGED vars
  BY <1>0, <1>4, FoundIdle DEF vars, Complete
<1> QED BY <1>1, <1>2, <1>3, <1>4

\* No step makes the row of a file found bad complete but Archive's.
LEMMA FoundNext == FoundInv /\ [Next]_vars => FoundInv'
BY InvNext, FoundCopy, FoundVerify, FoundFaults DEF Next, FoundInv

\* Only a flush deletes a file.
LEMMA OnlyFlush ==
  ASSUME Inv, [Next]_vars, disk[Spool] # None, disk'[Spool] = None
  PROVE  Flush
<1>p. /\ disk \in [Locs -> Versions \cup {None}] /\ mover \in MoverState /\ MoverOK
      /\ check \in CheckState /\ CheckOK
  BY Parts
<1>w. ASSUME NEW l \in Locs, NEW v, Write(l, v), v # None PROVE FALSE
  BY <1>p, <1>w, Locations DEF Write
<1>1. ASSUME Copy PROVE FALSE
  <2>1. mover.dest \in Locs
    BY <1>p, <1>1, Locations DEF MoverOK, Copy
  <2> QED BY <1>1, <1>w, <2>1 DEF Copy, Readable
<1>2. ASSUME NEW l \in Locs, Replace(l) PROVE FALSE
  BY <1>2, <1>w DEF Replace, Readable
<1>3. ASSUME NEW l \in Locs, NEW v \in Versions, Change(l, v) PROVE FALSE
  BY <1>3, <1>w, Locations DEF Change
<1>4. ASSUME disk' = disk PROVE FALSE
  BY <1>4
<1> QED
  BY <1>1, <1>2, <1>3, <1>4
  DEF Next, vars, CopyBegin, CopyFails, AlreadyComplete, Record,
      VerifyBegin, CheckCopy, Apply, ReplaceFails, ReadEnd, AdoptContent,
      AdoptRow, ReplaceRow, VerifyEnd, Unplug, Plug, Crash

(* A NAS file that the last verify of it found bad is what a spool file is   *)
(* deleted for only if Archive recorded it complete since, and then its size *)
(* and, but for stills, its ends are right.  No version need differ from     *)
(* another in either: pickFlushPair counts no mismatch, no step but copyTo's *)
(* last puts one back, and verifyPair looks at both files.                   *)
THEOREM BadIsNeverTrusted == Spec => FlushHeedsVerify
<1>1. Init => FoundInv
  BY FoundInit
<1>2. FoundInv /\ [Next]_vars => FoundInv'
  BY FoundNext
<1>3. FoundInv /\ [Next]_vars =>
        [disk[Spool] # None /\ disk'[Spool] = None /\ FlushNAS \in found =>
           /\ FlushNAS \in retaken /\ Size[disk[FlushNAS]] = asset.size
           /\ still \/ Sparse[disk[FlushNAS]] = Sparse[Original]]_vars
  <2> SUFFICES ASSUME FoundInv, [Next]_vars, disk[Spool] # None, disk'[Spool] = None,
                      FlushNAS \in found
               PROVE  /\ FlushNAS \in retaken /\ Size[disk[FlushNAS]] = asset.size
                      /\ still \/ Sparse[disk[FlushNAS]] = Sparse[Original]
    OBVIOUS
  <2>1. Flush
    BY OnlyFlush DEF FoundInv
  <2>2. PairVerified(FlushNAS) /\ Complete(FlushNAS)
    BY <2>1, FlushNASType DEF Flush, FoundInv
  <2>3. FlushNAS \in retaken
    BY <2>2 DEF FoundInv, Untaken
  <2> QED BY <2>2, <2>3 DEF PairVerified
<1> QED BY <1>1, <1>2, <1>3, PTL DEF Spec, FlushHeedsVerify

-----------------------------------------------------------------------------
(* What an adopted edit rests on.                                          *)

\* At first nothing is adopted.
LEMMA EditInit == Init => EditInv
<1> SUFFICES ASSUME Init PROVE EditInv
  OBVIOUS
<1>1. /\ mounted = Locs /\ adopted = None /\ check = NoCheck /\ mover = NoMove
      /\ row = [l \in Locs |-> IF l = Card THEN [NoRow EXCEPT !.state = "complete"]
                               ELSE NoRow]
  BY DEF Init
<1>2. \A l \in Storage : ~Counted(l)
  BY <1>1, Locations DEF Counted, Storage, NoRow
<1>3. NASFiles /\ AllowOK
  BY <1>1, <1>2, NoneOK, Locations DEF NASFiles, AllowOK, Seen
<1> QED BY <1>1, <1>3, InvInit DEF EditInv, Kept

\* PutCopy writes one row.
LEMMA PutRow ==
  ASSUME Inv, NEW l, NEW s, NEW h, Put(l, s, h)
  PROVE  \A k \in Locs : row'[k].state = IF k = l THEN s ELSE row[k].state
BY Parts DEF Put

\* Writing a file changes one location.
LEMMA WriteDisk ==
  ASSUME Inv, NEW l, NEW v, Write(l, v)
  PROVE  \A k \in Locs : disk'[k] = IF k = l THEN v ELSE disk[k]
BY Parts DEF Write, Unfind

\* The card is the last to be copied from.
LEMMA BestIsStorage ==
  ASSUME Inv, mounted = Locs, NEW n \in NASes, Complete(n)
  PROVE  Best \in Storage /\ Complete(Best)
<1> DEFINE S == {l \in mounted : Complete(l)}
<1>1. S \in SUBSET Locs /\ n \in S \cap Storage
  BY Parts, Locations
<1>2. Best = First(S)
  BY DEF Best
<1>3. First(S) \in S /\ First(S) # Card
  <2> HIDE DEF S
  <2> QED BY <1>1, FirstType
<1> QED BY <1>1, <1>2, <1>3 DEF Storage

\* What does not touch the files, the rows and the commands.
LEMMA KeptStays ==
  ASSUME Kept, UNCHANGED <<still, disk, row, asset, mover, check, adopted>>, mounted' = mounted
  PROVE  Kept'
BY DEF Kept, NASFiles, AllowOK, AdoptedOK, Seen, Counted, Complete, Holds, Lags

\* Spool, Archive and Flush keep the adopted edit: they copy from a location that has
\* it, take for complete only what is it, and leave the NASes alone.
LEMMA KeptCopy ==
  ASSUME Inv, Kept, IdentityTells, mounted = Locs, ~overlap',
         \/ \E l \in Locs : CopyBegin(l)
         \/ CopyFails \/ AlreadyComplete \/ Copy \/ Record \/ Flush
  PROVE  Kept'
<1>0. /\ disk \in [Locs -> Versions \cup {None}] /\ row \in [Locs -> Rows]
      /\ mover \in MoverState /\ MoverOK /\ check \in CheckState /\ CheckOK
  BY Parts
<1>k. NASFiles /\ AllowOK /\ (adopted # None => AdoptedOK(adopted))
  BY DEF Kept
<1>s. check.todo \subseteq Storage /\ check.ok \subseteq Storage /\ check.bad \subseteq Storage
  BY <1>0 DEF CheckState
<1>n. check.pc \in Adopting => check.allow
  BY <1>0 DEF CheckOK
<1>m. mover.pc # "idle" => ~check.allow /\ mover.dest \in Storage /\ mover.dest \in Locs /\ mover.src \in Locs
  BY <1>0, <1>k, Locations DEF AllowOK, MoverOK
<1>1. ASSUME NEW d \in Locs, CopyBegin(d) PROVE Kept'
  <2>1. /\ ~check.allow /\ check.pc \notin Adopting /\ ~Complete(d)
        /\ UNCHANGED <<still, disk, asset, check, adopted>>
    BY <1>1, <1>n DEF CopyBegin
  <2>2. \A k \in Locs : row'[k].state = IF k = d THEN "partial" ELSE row[k].state
    BY <1>1, PutRow DEF CopyBegin
  <2>3. mover'.pc = "copy" /\ mover'.src = Best
    BY <1>1 DEF CopyBegin, NoMove
  <2>4. \A k \in Locs : (Counted(k)' => Counted(k)) /\ (Complete(k) => Complete(k)')
    BY <2>1, <2>2 DEF Counted, Complete
  <2>5. NASFiles'
    BY <1>k, <2>1, <2>3, <2>4, Locations DEF NASFiles, Seen
  <2>6. AllowOK'
    BY <2>1 DEF AllowOK
  <2>7. ASSUME adopted # None PROVE AdoptedOK(adopted)'
    <3>0. AdoptedOK(adopted)
      BY <1>k, <2>7
    <3>1. PICK n \in NASes : Complete(n) /\ disk[n] = adopted
      BY <2>1, <3>0 DEF AdoptedOK
    <3>2. Best \in Storage /\ Complete(Best)
      BY <3>1, BestIsStorage
    <3>3. Holds(Best, adopted)
      BY <2>1, <3>0, <3>2 DEF AdoptedOK, Counted, Complete, Lags, Adopting
    <3>4. \A l \in Storage : Counted(l)' => Holds(l, adopted) \/ Lags(l)
      BY <2>4, <3>0, Locations DEF AdoptedOK
    <3>5. Complete(n)' /\ n \in NASes
      BY <2>4, <3>1, Locations
    <3>6. \A l : (Holds(l, adopted)' <=> Holds(l, adopted)) /\ (Lags(l)' <=> Lags(l))
      BY <2>1 DEF Holds, Lags
    <3>7. Seen' = Seen
      BY <2>1 DEF Seen
    <3> QED BY <2>1, <2>3, <3>0, <3>1, <3>2, <3>3, <3>4, <3>5, <3>6, <3>7 DEF AdoptedOK
  <2> QED BY <2>1, <2>5, <2>6, <2>7 DEF Kept
<1>2. CASE CopyFails
  <2>1. mover'.pc = "idle" /\ UNCHANGED <<still, disk, row, asset, check, adopted>>
    BY <1>2, NoneOK DEF CopyFails
  <2> QED BY <2>1, <1>k
    DEF Kept, NASFiles, AllowOK, AdoptedOK, Seen, Counted, Complete, Holds, Lags
<1>3. CASE AlreadyComplete
  <2>1. /\ mover.pc = "copy" /\ mover'.pc = "record" /\ mover'.dest = mover.dest
        /\ mover'.src = mover.src /\ ~check.allow
        /\ UNCHANGED <<still, disk, row, asset, check, adopted>>
    BY <1>0, <1>3, <1>m DEF AlreadyComplete, MoverState
  <2>2. disk[mover.dest] = disk[mover.src] /\ disk[mover.src] # None
    <3>1. /\ disk[mover.dest] \in Versions /\ disk[mover.src] \in Versions
          /\ Sparse[disk[mover.dest]] = Sparse[disk[mover.src]]
      BY <1>0, <1>3, <1>m DEF AlreadyComplete, Completed, Readable
    <3> QED BY <3>1, Locations DEF IdentityTells
  <2>3. NASFiles' /\ AllowOK'
    BY <1>k, <2>1, <2>2 DEF NASFiles, AllowOK, Seen, Counted
  <2>4. ASSUME adopted # None PROVE AdoptedOK(adopted)'
    <3>0. AdoptedOK(adopted)
      BY <1>k, <2>4
    <3>1. mover.src \in Storage /\ disk[mover.src] = adopted
      BY <2>1, <2>2, <3>0 DEF AdoptedOK, Holds
    <3> QED BY <2>1, <2>2, <3>0, <3>1
      DEF AdoptedOK, Seen, Counted, Complete, Holds, Lags
  <2> QED BY <2>1, <2>3, <2>4 DEF Kept
<1>4. CASE Copy
  <2>1. /\ mover.pc = "copy" /\ mover'.pc = "record" /\ mover'.dest = mover.dest
        /\ mover'.src = mover.src /\ ~check.allow /\ check.pc \notin Adopting
        /\ disk[mover.src] # None
        /\ UNCHANGED <<still, row, asset, check, adopted>>
    BY <1>0, <1>4, <1>m, <1>n DEF Copy, MoverState, Readable
  <2>2. \A k \in Locs : disk'[k] = IF k = mover.dest THEN disk[mover.src] ELSE disk[k]
    BY <1>4, WriteDisk DEF Copy
  <2>3. NASFiles' /\ AllowOK'
    BY <1>k, <2>1, <2>2, Locations DEF NASFiles, AllowOK, Seen, Counted
  <2>4. ASSUME adopted # None PROVE AdoptedOK(adopted)'
    <3>0. AdoptedOK(adopted)
      BY <1>k, <2>4
    <3>1. mover.src \in Storage /\ disk[mover.src] = adopted
      BY <2>1, <3>0 DEF AdoptedOK, Holds
    <3>2. \A k \in Locs : disk'[k] = IF k = mover.dest THEN adopted ELSE disk[k]
      BY <2>2, <3>1
    <3>3. \A k \in Locs : Holds(k, adopted) => Holds(k, adopted)'
      BY <2>1, <3>2 DEF Holds
    <3>4. \A l : (Counted(l)' <=> Counted(l)) /\ (Complete(l)' <=> Complete(l)) /\ (Lags(l)' <=> Lags(l))
      BY <2>1 DEF Counted, Complete, Lags
    <3>5. \E n \in NASes : Complete(n)' /\ disk'[n] = adopted
      BY <2>1, <3>0, <3>2, <3>4, Locations DEF AdoptedOK
    <3>6. Seen' = Seen /\ Seen \subseteq Locs
      BY <1>s, <2>1, Locations DEF Seen
    <3>7. Holds(mover.dest, adopted)' /\ Holds(mover.src, adopted)'
      BY <1>m, <2>1, <3>1, <3>2 DEF Holds
    <3>8. \A l \in Storage : Counted(l)' => Holds(l, adopted)' \/ Lags(l)'
      BY <3>0, <3>3, <3>4, Locations DEF AdoptedOK
    <3>9. \A l \in Seen : Holds(l, adopted) => Holds(l, adopted)'
      BY <3>3, <3>6
    <3> QED BY <2>1, <3>0, <3>1, <3>5, <3>6, <3>7, <3>8, <3>9 DEF AdoptedOK
  <2> QED BY <2>1, <2>3, <2>4 DEF Kept
<1>5. CASE Record
  <2>1. /\ mover.pc = "record" /\ mover'.pc = "idle" /\ ~check.allow /\ check.pc \notin Adopting
        /\ UNCHANGED <<still, disk, check, adopted>>
    BY <1>5, <1>m, <1>n, NoneOK DEF Record
  <2>2. \A k \in Locs : row'[k].state = IF k = mover.dest THEN "complete" ELSE row[k].state
    BY <1>5, PutRow DEF Record
  <2>3. \A k \in Locs : (Counted(k)' => k = mover.dest \/ Counted(k)) /\ (Complete(k) => Complete(k)')
    BY <2>2 DEF Counted, Complete
  <2>4. NASFiles' /\ AllowOK'
    BY <1>k, <2>1, <2>3, Locations DEF NASFiles, AllowOK, Seen
  <2>5. ASSUME adopted # None PROVE AdoptedOK(adopted)'
    <3>0. AdoptedOK(adopted)
      BY <1>k, <2>5
    <3>1. asset' = asset
      BY <1>0, <1>5, <3>0 DEF Record, MoverOK, AdoptedOK
    <3>2. \A l : (Holds(l, adopted)' <=> Holds(l, adopted)) /\ (Lags(l)' <=> Lags(l))
      BY <2>1 DEF Holds, Lags
    <3>3. Holds(mover.dest, adopted) /\ mover.dest \in Storage
      BY <1>m, <2>1, <3>0 DEF AdoptedOK
    <3>4. \A l \in Storage : Counted(l)' => Holds(l, adopted)' \/ Lags(l)'
      BY <2>3, <3>0, <3>2, <3>3, Locations DEF AdoptedOK
    <3>5. \E n \in NASes : Complete(n)' /\ disk'[n] = adopted
      BY <2>1, <2>3, <3>0, Locations DEF AdoptedOK
    <3>6. Seen' = Seen
      BY <2>1 DEF Seen
    <3> QED BY <2>1, <3>0, <3>1, <3>2, <3>4, <3>5, <3>6 DEF AdoptedOK
  <2> QED BY <2>1, <2>4, <2>5 DEF Kept
<1>6. CASE Flush
  <2>1. /\ ~check.allow /\ check.pc \notin Adopting
        /\ UNCHANGED <<still, asset, mover, check, adopted>>
    BY <1>6, <1>n DEF Flush
  <2>2. \A k \in Locs : disk'[k] = IF k = Spool THEN None ELSE disk[k]
    BY <1>6, WriteDisk DEF Flush
  <2>3. \A k \in Locs : row'[k] = IF k = Spool THEN NoRow ELSE row[k]
    BY <1>0, <1>6 DEF Flush
  <2>4. \A k \in Locs : (Counted(k)' => Counted(k)) /\ (k # Spool => (Complete(k)' <=> Complete(k)))
    BY <2>3 DEF Counted, Complete, NoRow
  <2>5. NASFiles' /\ AllowOK'
    BY <1>k, <2>1, <2>2, <2>4, Locations DEF NASFiles, AllowOK, Seen
  <2>6. ASSUME adopted # None PROVE AdoptedOK(adopted)'
    <3>0. AdoptedOK(adopted)
      BY <1>k, <2>6
    <3>2. \A l \in Locs : (Holds(l, adopted) => Holds(l, adopted)') /\ (Lags(l)' <=> Lags(l))
      BY <2>1, <2>2 DEF Holds, Lags
    <3>4. \A l \in Storage : Counted(l)' => Holds(l, adopted)' \/ Lags(l)'
      BY <2>4, <3>0, <3>2, Locations DEF AdoptedOK
    <3>5. \E n \in NASes : Complete(n)' /\ disk'[n] = adopted
      BY <2>1, <2>2, <2>4, <3>0, Locations DEF AdoptedOK
    <3>6. Seen' = Seen /\ Seen \subseteq Locs
      BY <1>s, <2>1, Locations DEF Seen
    <3>7. \A l \in Seen : Holds(l, adopted) => Holds(l, adopted)'
      BY <3>2, <3>6
    <3>8. mover.pc # "idle" => mover.src \in Storage /\ Holds(mover.src, adopted)'
      BY <1>m, <2>1, <3>0, <3>2 DEF AdoptedOK, Holds
    <3>9. mover.pc = "record" => Holds(mover.dest, adopted)'
      BY <1>m, <2>1, <3>0, <3>2 DEF AdoptedOK, Holds
    <3> QED BY <2>1, <3>0, <3>4, <3>5, <3>6, <3>7, <3>8, <3>9 DEF AdoptedOK
  <2> QED BY <2>1, <2>5, <2>6 DEF Kept
<1> QED BY <1>1, <1>2, <1>3, <1>4, <1>5, <1>6

\* A later verify finds every copy right, so that it has nothing to adopt.
LEMMA KeptRead ==
  ASSUME Inv, Kept, mounted = Locs, ~overlap',
         \/ \E full, allow \in BOOLEAN : VerifyBegin(full, allow)
         \/ \E l \in Locs : CheckCopy(l) \/ Apply(l)
         \/ ReadEnd
  PROVE  Kept'
<1>0. /\ disk \in [Locs -> Versions \cup {None}] /\ row \in [Locs -> Rows]
      /\ asset \in Assets /\ still => asset.full # None /\ asset.size = Size[asset.full]
      /\ mover \in MoverState /\ check \in CheckState /\ CheckOK
  BY Parts
<1>k. NASFiles /\ AllowOK /\ (adopted # None => AdoptedOK(adopted))
  BY DEF Kept
<1>s. /\ check.todo \subseteq Storage /\ check.ok \subseteq Storage /\ check.bad \subseteq Storage
      /\ check.changed \subseteq check.bad /\ check.ok \cap check.bad = {}
  BY <1>0 DEF CheckState, CheckOK
<1>1. ASSUME NEW full \in BOOLEAN, NEW allow \in BOOLEAN, VerifyBegin(full, allow)
      PROVE  Kept'
  <2> DEFINE jobs == {l \in mounted \ {Card} : row[l].state \in {"complete", "mismatch"}}
  <2>0. \A l \in Locs : l \in jobs <=> l \in Storage /\ Counted(l)
    BY DEF Storage, Counted
  <2>j. jobs \subseteq Storage
    BY DEF Storage
  <2>1. /\ check.pc = "idle" /\ (allow => mover.pc = "idle")
        /\ UNCHANGED <<still, disk, row, asset, mover, adopted>>
        /\ check' = [NoCheck EXCEPT !.pc = "read", !.full = full, !.allow = allow,
                                    !.asset = asset, !.todo = jobs]
    BY <1>1 DEF VerifyBegin
  <2> HIDE DEF jobs
  <2>2. /\ check'.pc = "read" /\ check'.allow = allow /\ check'.asset = asset
        /\ check'.todo = jobs /\ check'.ok = {} /\ check'.bad = {} /\ check'.changed = {}
    BY <2>1 DEF NoCheck
  <2>3. Seen' = jobs
    BY <2>2 DEF Seen
  <2>4. \A l : (Counted(l)' <=> Counted(l)) /\ (Complete(l)' <=> Complete(l))
    BY <2>1 DEF Counted, Complete
  <2>5. NASFiles'
    BY <1>k, <2>0, <2>1, <2>3, <2>4, Locations DEF NASFiles
  <2>6. AllowOK'
    BY <2>0, <2>1, <2>2, <2>3, <2>4, Locations DEF AllowOK, Adopting
  <2>7. ASSUME adopted # None PROVE AdoptedOK(adopted)'
    <3>0. AdoptedOK(adopted) /\ check.pc \notin Adopting
      BY <1>k, <2>1, <2>7 DEF Adopting
    <3>1. \A l \in Storage : Counted(l) => Holds(l, adopted)
      BY <2>1, <3>0 DEF AdoptedOK, Lags
    <3>2. \A l : Holds(l, adopted)' <=> Holds(l, adopted)
      BY <2>1 DEF Holds
    <3>3. check'.pc \notin Adopting
      BY <2>2 DEF Adopting
    <3>4. \A l \in jobs : Holds(l, adopted)'
      BY <2>0, <2>j, <3>1, <3>2, Locations
    <3>5. \E n \in NASes : Complete(n)' /\ disk'[n] = adopted
      BY <2>1, <2>4, <3>0 DEF AdoptedOK
    <3>6. asset' = asset /\ still' = still /\ mover' = mover
      BY <2>1
    <3> QED BY <2>1, <2>2, <2>3, <2>4, <3>0, <3>1, <3>2, <3>3, <3>4, <3>5, <3>6 DEF AdoptedOK
  <2> QED BY <2>1, <2>5, <2>6, <2>7 DEF Kept
<1>2. ASSUME NEW l \in Locs, CheckCopy(l) PROVE Kept'
  <2> DEFINE bad == ~Matches(l)
             changed == bad /\ Readable(l)
  <2>1. /\ check.pc = "read" /\ l \in check.todo
        /\ UNCHANGED <<still, disk, row, asset, mover, adopted>>
        /\ check' = [check EXCEPT
             !.todo = @ \ {l},
             !.ok = IF bad THEN @ ELSE @ \cup {l},
             !.bad = IF bad THEN @ \cup {l} ELSE @,
             !.changed = IF changed THEN @ \cup {l} ELSE @,
             !.hashes = IF bad \/ ~check.full THEN @ ELSE @ \cup {disk[l]}]
    BY <1>2 DEF CheckCopy
  <2>m. bad /\ ~changed => disk[l] = None
    BY DEF Readable
  <2>a. adopted # None => ~bad \/ disk[l] = None
    <3> SUFFICES ASSUME adopted # None, disk[l] # None PROVE Matches(l)
      OBVIOUS
    <3>1. /\ still /\ check.asset.full = adopted /\ disk[l] = adopted
          /\ check.asset.size = Size[adopted] /\ Readable(l)
      <4>1. AdoptedOK(adopted) /\ l \in Seen /\ Whole(check.asset)
        BY <1>0, <1>k, <2>1 DEF Seen, CheckOK
      <4> QED BY <2>1, <4>1 DEF AdoptedOK, Holds, Whole, Readable
    <3> QED BY <3>1 DEF Matches
  <2> HIDE DEF bad, changed
  <2>4. /\ check'.pc = "read" /\ check'.asset = check.asset /\ check'.allow = check.allow
        /\ check'.todo = check.todo \ {l}
        /\ check'.ok = IF bad THEN check.ok ELSE check.ok \cup {l}
        /\ check'.bad = IF bad THEN check.bad \cup {l} ELSE check.bad
        /\ check'.changed = IF changed THEN check.changed \cup {l} ELSE check.changed
    BY <1>0, <2>1 DEF CheckState
  <2>5. Seen' = Seen
    BY <2>1, <2>4 DEF Seen
  <2>6. \A k : /\ Counted(k)' <=> Counted(k)
               /\ Complete(k)' <=> Complete(k)
               /\ \A v : Holds(k, v)' <=> Holds(k, v)
    BY <2>1 DEF Counted, Complete, Holds
  <2>7. NASFiles'
    BY <1>k, <2>1, <2>5, <2>6 DEF NASFiles
  <2>8. AllowOK'
    BY <1>k, <2>1, <2>m, <2>4, <2>5, <2>6 DEF AllowOK, Adopting
  <2>9. ASSUME adopted # None PROVE AdoptedOK(adopted)'
    <3>0. AdoptedOK(adopted)
      BY <1>k, <2>9
    <3>1. disk[l] = None => l \notin NASes
      BY <1>k, <2>1 DEF NASFiles, Seen
    <3>2. changed => disk[l] # None /\ bad
      BY DEF changed, Readable
    <3>3. check'.changed = {} /\ check'.bad \cap NASes = {}
      BY <2>1, <2>4, <2>9, <2>a, <3>0, <3>1, <3>2 DEF AdoptedOK
    <3>4. check.pc \notin Adopting /\ check'.pc \notin Adopting
      BY <2>1, <2>4 DEF Adopting
    <3>5. \A k : Lags(k) <=> Lags(k)'
      BY <2>1, <2>4 DEF Lags
    <3> QED BY <2>1, <2>4, <2>5, <2>6, <3>0, <3>3, <3>4, <3>5 DEF AdoptedOK
  <2> QED BY <2>1, <2>7, <2>8, <2>9 DEF Kept
<1>3. ASSUME NEW l \in Locs, Apply(l) PROVE Kept'
  <2>1. check.pc = "apply" /\ l \in check.todo /\ l \in Seen /\ l \in Storage
        /\ UNCHANGED <<still, disk, asset, mover, adopted>>
    BY <1>3, <1>s DEF Apply, Seen
  <2>n. check.pc \notin Adopting
    BY <2>1 DEF Adopting
  <2>2. CASE row[l].state = "none"
    <3>1. row' = row /\ check' = NoCheck
      BY <1>3, <2>2 DEF Apply
    <3>2. /\ check'.pc = "idle" /\ ~check'.allow /\ Seen' = {} /\ check'.pc \notin Adopting
      BY <3>1, NoneOK DEF Seen, Adopting
    <3>3. \A k : /\ Counted(k)' <=> Counted(k)
                 /\ Complete(k)' <=> Complete(k)
                 /\ \A v : Holds(k, v)' <=> Holds(k, v)
      BY <2>1, <3>1 DEF Counted, Complete, Holds
    <3>4. \A k : ~Lags(k) /\ ~Lags(k)'
      BY <2>1, <3>2 DEF Lags
    <3>5. NASFiles' /\ AllowOK'
      BY <1>k, <2>1, <3>2, <3>3 DEF NASFiles, AllowOK
    <3>6. ASSUME adopted # None PROVE AdoptedOK(adopted)'
      <4>0. AdoptedOK(adopted)
        BY <1>k, <3>6
      <4> QED BY <2>1, <2>n, <3>2, <3>3, <3>4, <4>0 DEF AdoptedOK
    <3> QED BY <2>1, <3>5, <3>6 DEF Kept
  <2>3. CASE row[l].state # "none"
    <3> DEFINE s == IF l \in check.ok THEN "complete" ELSE "mismatch"
    <3>1. /\ row' = [row EXCEPT ![l].state = s]
          /\ check' = [check EXCEPT !.todo = @ \ {l}]
      BY <1>3, <2>3 DEF Apply
    <3>2. /\ check'.pc = "apply" /\ check'.asset = check.asset /\ check'.allow = check.allow
          /\ check'.todo = check.todo \ {l} /\ check'.ok = check.ok
          /\ check'.bad = check.bad /\ check'.changed = check.changed
      BY <1>0, <2>1, <3>1 DEF CheckState
    <3>3. \A k \in Locs : row'[k].state = IF k = l THEN s ELSE row[k].state
      <4>1. \A k \in Locs : row[k] \in Rows
        BY <1>0
      <4>2. [row[l] EXCEPT !.state = s].state = s
        BY <4>1 DEF Rows
      <4> HIDE DEF s
      <4> QED BY <1>0, <3>1, <4>1, <4>2
    <3>4. \A k \in Locs : Counted(k)' => Counted(k) \/ k = l
      BY <3>3 DEF Counted
    <3>5. \A k \in Locs : Complete(k)' <=> IF k = l THEN l \in check.ok ELSE Complete(k)
      BY <3>3 DEF Complete
    <3>6. Seen' = Seen
      BY <1>0, <2>1, <3>2 DEF Seen, CheckOK
    <3>7. \A k : Holds(k, adopted)' <=> Holds(k, adopted)
      BY <2>1 DEF Holds
    <3>8. \A k : ~Lags(k) /\ ~Lags(k)'
      BY <2>1, <3>2 DEF Lags
    <3>9. NASFiles'
      BY <1>k, <2>1, <3>4, <3>6, Locations DEF NASFiles
    <3>10. AllowOK'
      <4> SUFFICES ASSUME check.allow PROVE AllowOK'
        BY <3>2 DEF AllowOK
      <4>1. \A k \in Storage : Counted(k)' => k \in Seen
        BY <1>k, <2>1, <3>4, Locations DEF AllowOK
      <4>2. \A k \in check.ok \ check'.todo : Complete(k)'
        BY <1>k, <1>s, <2>1, <3>2, <3>5, Locations DEF AllowOK
      <4> QED BY <1>k, <2>1, <3>2, <3>6, <4>1, <4>2 DEF AllowOK, Adopting
    <3>11. ASSUME adopted # None PROVE AdoptedOK(adopted)'
      <4>0. AdoptedOK(adopted)
        BY <1>k, <3>11
      <4>1. PICK n \in NASes : Complete(n) /\ disk[n] = adopted
        BY <2>n, <4>0 DEF AdoptedOK
      <4>2. Complete(n)'
        <5>1. n = l => l \in check.ok
          BY <1>0, <2>1, <4>0 DEF CheckOK, AdoptedOK
        <5> QED BY <3>5, <4>1, <5>1, Locations
      <4>3. \A k \in Storage : Counted(k)' => Holds(k, adopted)
        BY <2>1, <3>4, <3>8, <4>0, Locations DEF AdoptedOK
      <4>4. check'.pc \notin Adopting
        BY <3>2 DEF Adopting
      <4> QED BY <2>1, <2>n, <3>2, <3>6, <3>7, <3>8, <4>0, <4>1, <4>2, <4>3, <4>4 DEF AdoptedOK
    <3> QED BY <2>1, <3>9, <3>10, <3>11 DEF Kept
  <2> QED BY <2>2, <2>3
<1>4. CASE ReadEnd
  <2> DEFINE compare == check.full /\ check.asset.full = None
             agreed == compare /\ Cardinality(check.hashes) = 1
             conflict == compare /\ Cardinality(check.hashes) > 1
             sum == CHOOSE h \in check.hashes : TRUE
  <2>1. /\ check.pc = "read" /\ check.todo = {}
        /\ check' = [check EXCEPT !.pc = "apply", !.todo = check.ok \cup check.bad,
                                  !.ok = IF conflict THEN {} ELSE @,
                                  !.bad = IF conflict THEN @ \cup check.ok ELSE @]
        /\ asset' = IF agreed THEN [asset EXCEPT !.full = sum] ELSE asset
        /\ row' = [l \in Locs |-> IF agreed /\ l \in check.ok
                                  THEN [state |-> "complete", hash |-> sum] ELSE row[l]]
        /\ Unfind(IF agreed THEN check.ok ELSE {})
        /\ UNCHANGED <<still, disk, mounted, mover, adopted, overlap, writes, faults>>
    BY <1>4 DEF ReadEnd
  <2>2. still => ~agreed /\ ~conflict
    BY <1>0, <2>1 DEF CheckOK, Whole
  <2> HIDE DEF agreed, conflict, sum
  <2>3. /\ check'.pc = "apply" /\ check'.asset = check.asset /\ check'.allow = check.allow
        /\ check'.todo = check.ok \cup check.bad
        /\ check'.ok = IF conflict THEN {} ELSE check.ok
        /\ check'.bad = IF conflict THEN check.bad \cup check.ok ELSE check.bad
        /\ check'.changed = check.changed
    BY <1>0, <2>1 DEF CheckState
  <2>4. \A k \in Locs : Counted(k)' => Counted(k) \/ k \in check.ok
    BY <2>1 DEF Counted
  <2>5. Seen' = Seen /\ Seen = check.ok \cup check.bad
    BY <2>1, <2>3 DEF Seen
  <2>6. NASFiles'
    BY <1>k, <2>1, <2>4, <2>5, Locations DEF NASFiles
  <2>7. AllowOK'
    <3>1. \A k \in Storage : Counted(k)' /\ (Counted(k) => k \in Seen) => k \in Seen
      BY <2>4, <2>5, Locations
    <3>2. check'.ok \ check'.todo = {} /\ check'.todo \subseteq check'.ok \cup check'.bad
      BY <2>3
    <3>3. still => check'.bad = check.bad
      BY <2>2, <2>3
    <3> QED BY <1>k, <2>1, <2>3, <2>5, <3>1, <3>2, <3>3 DEF AllowOK, Adopting
  <2>8. ASSUME adopted # None PROVE AdoptedOK(adopted)'
    <3>0. AdoptedOK(adopted) /\ still
      BY <1>k, <2>8 DEF AdoptedOK
    <3>1. check'.ok = check.ok /\ check'.bad = check.bad /\ asset' = asset
      BY <2>1, <2>2, <2>3, <3>0
    <3>2. \A k \in Locs : row'[k] = row[k]
      BY <1>0, <2>1, <2>2, <3>0
    <3>3. \A k \in Locs : (Counted(k)' <=> Counted(k)) /\ (Complete(k)' <=> Complete(k))
      BY <3>2 DEF Counted, Complete
    <3>4. \A k : ~Lags(k) /\ ~Lags(k)'
      BY <2>1, <2>3 DEF Lags
    <3>5. \A k : Holds(k, adopted)' <=> Holds(k, adopted)
      BY <2>1 DEF Holds
    <3>6. check.pc \notin Adopting /\ check'.pc \notin Adopting
      BY <2>1, <2>3 DEF Adopting
    <3>7. \E n \in NASes : Complete(n)' /\ disk'[n] = adopted
      BY <2>1, <3>0, <3>3, <3>6, Locations DEF AdoptedOK
    <3>8. \A k \in Storage : Counted(k)' => Holds(k, adopted)'
      BY <3>0, <3>3, <3>4, <3>5, Locations DEF AdoptedOK
    <3> QED BY <2>1, <2>3, <2>5, <3>0, <3>1, <3>5, <3>6, <3>7, <3>8 DEF AdoptedOK
  <2> QED BY <2>1, <2>6, <2>7, <2>8 DEF Kept
<1> QED BY <1>1, <1>2, <1>3, <1>4

\* An adoption brings the good copies up to the edit, one of them or the edit on a NAS.
LEMMA KeptAdopt ==
  ASSUME Inv, Kept, mounted = Locs,
         \/ \E l \in Locs : Replace(l) \/ ReplaceFails(l)
         \/ AdoptContent \/ AdoptRow \/ ReplaceRow \/ VerifyEnd
  PROVE  Kept'
<1>0. /\ disk \in [Locs -> Versions \cup {None}] /\ row \in [Locs -> Rows]
      /\ mover \in MoverState /\ check \in CheckState /\ CheckOK
  BY Parts
<1>k. NASFiles /\ AllowOK /\ (adopted # None => AdoptedOK(adopted))
  BY DEF Kept
<1>s. /\ check.todo \subseteq Storage /\ check.ok \subseteq Storage /\ check.bad \subseteq Storage
      /\ check.changed \subseteq check.bad /\ check.ok \cap check.bad = {}
      /\ Storage \subseteq Locs
  BY <1>0, Locations DEF CheckState, CheckOK
<1>a. check.pc \in Adopting =>
        /\ still /\ check.allow /\ mover.pc = "idle"
        /\ check.changed = {Edited} /\ Edited \in Storage /\ Edited \in check.bad
        /\ Edited \notin check.ok /\ disk[Edited] # None
        /\ check.ok # {} /\ \A l \in check.ok : Complete(l)
  BY <1>0, <1>k, <1>s, EditedType DEF CheckOK, AllowOK
<1>1. ASSUME NEW l \in Locs, Replace(l) PROVE Kept'
  <2>1. /\ check.pc = "replace" /\ l \in check.todo /\ Write(l, disk[Edited])
        /\ check' = [check EXCEPT !.pc = "put", !.todo = @ \ {l}, !.at = l]
        /\ UNCHANGED <<still, row, asset, mounted, mover, adopted>>
    BY <1>1 DEF Replace
  <2>2. /\ check'.pc = "put" /\ check'.todo = check.todo \ {l} /\ check'.ok = check.ok
        /\ check'.bad = check.bad /\ check'.changed = check.changed
        /\ check'.allow = check.allow /\ check'.sum = check.sum
    BY <1>0, <2>1 DEF CheckState
  <2>3. check.pc \in Adopting /\ check'.pc \in Adopting /\ l \in check.ok
    BY <1>0, <2>1, <2>2 DEF Adopting, CheckOK
  <2>4. \A k \in Locs : disk'[k] = IF k = l THEN disk[Edited] ELSE disk[k]
    BY <2>1, WriteDisk
  <2>5. Seen' = Seen /\ Seen \subseteq Storage
    BY <1>s, <2>2, <2>3 DEF Seen
  <2>6. \A k : (Counted(k)' <=> Counted(k)) /\ (Complete(k)' <=> Complete(k))
    BY <2>1 DEF Counted, Complete
  <2>7. NASFiles'
    BY <1>k, <1>a, <2>1, <2>3, <2>4, <2>5, <2>6, Locations DEF NASFiles
  <2>8. AllowOK'
    <3>1. \A k \in check.bad : disk'[k] = disk[k]
      BY <1>s, <2>3, <2>4
    <3>2. check'.todo \subseteq check'.ok \cup check'.bad
      BY <1>0, <2>1, <2>2, <2>3 DEF CheckOK
    <3> QED BY <1>k, <1>a, <1>s, <2>1, <2>2, <2>3, <2>5, <2>6, <3>1, <3>2 DEF AllowOK
  <2>9. ASSUME adopted # None PROVE AdoptedOK(adopted)'
    <3>0. AdoptedOK(adopted)
      BY <1>k, <2>9
    <3>1. disk[Edited] = adopted
      BY <1>a, <2>3, <3>0 DEF AdoptedOK
    <3>2. \A k \in Locs : disk'[k] = IF k = l THEN adopted ELSE disk[k]
      BY <2>4, <3>1
    <3>3. \A k \in Locs : (Lags(k) => Lags(k)' \/ k = l) /\ (Lags(k)' => Lags(k))
      BY <2>1, <2>2 DEF Lags
    <3>4. \A k \in Storage : Counted(k)' => Holds(k, adopted)' \/ Lags(k)'
      BY <1>s, <2>1, <2>6, <3>0, <3>2, <3>3 DEF AdoptedOK, Holds
    <3>5. \A k \in check.ok : disk'[k] = adopted \/ Lags(k)'
      BY <1>s, <2>3, <3>0, <3>2, <3>3 DEF AdoptedOK
    <3>6. \A e \in check.changed : disk'[e] = adopted /\ Complete(e)
      BY <1>s, <2>1, <2>3, <3>0, <3>2 DEF AdoptedOK
    <3>7. check'.pc \notin {"read", "apply"} /\ mover'.pc = "idle"
      BY <1>a, <2>1, <2>2, <2>3
    <3> QED BY <2>1, <2>2, <2>3, <2>6, <3>0, <3>4, <3>5, <3>6, <3>7 DEF AdoptedOK
  <2> QED BY <2>1, <2>7, <2>8, <2>9 DEF Kept
<1>2. ASSUME NEW l \in Locs, ReplaceFails(l) PROVE FALSE
  <2>1. check.pc \in Adopting
    BY <1>2 DEF ReplaceFails, Adopting
  <2> QED BY <1>2, <1>a, <1>s, <2>1 DEF ReplaceFails, Readable
<1>3. CASE AdoptContent
  <2>0. check.pc = "apply" /\ check.todo = {} /\ UNCHANGED <<still, disk, row, mover>>
    BY <1>3 DEF AdoptContent
  <2>1. CASE /\ check.allow /\ Cardinality(check.changed) = 1 /\ check.ok # {}
             /\ Updates /\ Readable(Edited)
    <3>1. /\ asset' = [size |-> Size[disk[Edited]], full |-> disk[Edited]]
          /\ check' = [check EXCEPT !.pc = "row", !.sum = disk[Edited]]
          /\ adopted' = IF adopted = None THEN disk[Edited] ELSE adopted
      BY <1>3, <2>1 DEF AdoptContent
    <3>2. check.changed = {Edited} /\ Edited \in Storage
      BY <2>1, EditedType
    <3>3. adopted = None
      BY <1>k, <2>0, <3>2 DEF AdoptedOK
    <3>4. /\ check'.pc = "row" /\ check'.todo = check.todo /\ check'.ok = check.ok
          /\ check'.bad = check.bad /\ check'.changed = check.changed
          /\ check'.allow = check.allow /\ check'.sum = disk[Edited]
      BY <1>0, <3>1 DEF CheckState
    <3>5. /\ disk[Edited] # None /\ still /\ mover.pc = "idle" /\ asset'.full = disk[Edited]
          /\ adopted' = disk[Edited] /\ check'.pc \in Adopting
      BY <1>k, <2>1, <3>1, <3>3, <3>4 DEF Readable, Updates, AllowOK, Adopting
    <3>6. Seen' = Seen /\ Seen = check.ok \cup check.bad
      BY <2>0, <3>4 DEF Seen
    <3>7. \A k : (Counted(k)' <=> Counted(k)) /\ (Complete(k)' <=> Complete(k))
      BY <2>0 DEF Counted, Complete
    <3>8. NASFiles'
      BY <1>k, <2>0, <3>6, <3>7 DEF NASFiles
    <3>9. AllowOK'
      BY <1>k, <2>0, <2>1, <3>2, <3>4, <3>5, <3>6, <3>7 DEF AllowOK
    <3>10. AdoptedOK(adopted)'
      <4>1. \A k \in check.ok : Lags(k)'
        BY <3>4 DEF Lags
      <4>2. \A k \in check.bad : Holds(k, adopted)'
        BY <1>k, <2>0, <2>1, <3>2, <3>5 DEF AllowOK, Holds
      <4>3. \A k \in Storage : Counted(k)' => Holds(k, adopted)' \/ Lags(k)'
        BY <1>k, <2>1, <3>6, <3>7, <4>1, <4>2 DEF AllowOK
      <4>4. \A e \in check.changed : disk[e] = adopted'
        BY <3>2, <3>5
      <4> QED BY <2>0, <3>4, <3>5, <4>1, <4>3, <4>4 DEF AdoptedOK
    <3> QED BY <3>8, <3>9, <3>10 DEF Kept
  <2>2. CASE ~(/\ check.allow /\ Cardinality(check.changed) = 1 /\ check.ok # {}
               /\ Updates /\ Readable(Edited))
    <3>1. check' = NoCheck /\ UNCHANGED <<asset, adopted>>
      BY <1>3, <2>2 DEF AdoptContent
    <3>2. /\ check'.pc = "idle" /\ ~check'.allow /\ Seen' = {} /\ check'.pc \notin Adopting
          /\ check.pc \notin Adopting
      BY <2>0, <3>1, NoneOK DEF Seen, Adopting
    <3>3. \A k : /\ Counted(k)' <=> Counted(k)
                 /\ Complete(k)' <=> Complete(k)
                 /\ \A v : Holds(k, v)' <=> Holds(k, v)
      BY <2>0 DEF Counted, Complete, Holds
    <3>4. \A k : ~Lags(k) /\ ~Lags(k)'
      BY <2>0, <3>2 DEF Lags
    <3>5. NASFiles' /\ AllowOK'
      BY <1>k, <2>0, <3>2, <3>3 DEF NASFiles, AllowOK
    <3>6. ASSUME adopted # None PROVE AdoptedOK(adopted)'
      <4>0. AdoptedOK(adopted)
        BY <1>k, <3>6
      <4> QED BY <2>0, <3>1, <3>2, <3>3, <3>4, <4>0 DEF AdoptedOK
    <3> QED BY <3>1, <3>5, <3>6 DEF Kept
  <2> QED BY <2>1, <2>2
<1>4. CASE AdoptRow
  <2>1. /\ check.pc = "row" /\ Put(Edited, "complete", check.sum)
        /\ check' = [check EXCEPT !.pc = "replace", !.todo = check.ok]
        /\ UNCHANGED <<still, disk, asset, mover, adopted>>
    BY <1>4 DEF AdoptRow
  <2>2. /\ check'.pc = "replace" /\ check'.todo = check.ok /\ check'.ok = check.ok
        /\ check'.bad = check.bad /\ check'.changed = check.changed
        /\ check'.allow = check.allow /\ check'.sum = check.sum
    BY <1>0, <2>1 DEF CheckState
  <2>3. check.pc \in Adopting /\ check'.pc \in Adopting
    BY <2>1, <2>2 DEF Adopting
  <2>4. \A k \in Locs : row'[k].state = IF k = Edited THEN "complete" ELSE row[k].state
    BY <2>1, PutRow
  <2>5. Seen' = check.ok \cup check.bad /\ Seen = check.ok \cup check.bad
    <3>1. check.todo \subseteq check.ok \cup check.bad
      BY <1>k, <1>a, <2>1, <2>3 DEF AllowOK
    <3> QED BY <2>2, <3>1 DEF Seen
  <2>6. \A k \in Locs : /\ Counted(k)' => Counted(k) \/ k = Edited
                        /\ Complete(k)' <=> Complete(k) \/ k = Edited
    BY <2>4 DEF Counted, Complete
  <2>7. NASFiles'
    BY <1>k, <1>a, <2>1, <2>3, <2>5, <2>6, Locations DEF NASFiles
  <2>8. AllowOK'
    BY <1>k, <1>a, <1>s, <2>1, <2>2, <2>3, <2>5, <2>6 DEF AllowOK
  <2>9. ASSUME adopted # None PROVE AdoptedOK(adopted)'
    <3>0. AdoptedOK(adopted)
      BY <1>k, <2>9
    <3>1. disk[Edited] = adopted
      BY <1>a, <2>3, <3>0 DEF AdoptedOK
    <3>2. \A k : Lags(k) <=> Lags(k)'
      BY <2>1, <2>2 DEF Lags
    <3>3. \A k : Holds(k, adopted) <=> Holds(k, adopted)'
      BY <2>1 DEF Holds
    <3>4. \A k \in Storage : Counted(k)' => Holds(k, adopted)' \/ Lags(k)'
      BY <1>s, <2>6, <3>0, <3>1, <3>2, <3>3 DEF AdoptedOK, Holds
    <3>5. \A k \in check.ok : disk[k] = adopted \/ Lags(k)'
      BY <2>3, <3>0, <3>2 DEF AdoptedOK
    <3>6. \A e \in check.changed : disk[e] = adopted /\ Complete(e)'
      BY <1>a, <1>s, <2>3, <2>6, <3>1
    <3>7. check'.pc \notin {"read", "apply"} /\ mover'.pc = "idle" /\ check.sum = adopted
      BY <1>a, <2>1, <2>2, <2>3, <3>0 DEF AdoptedOK
    <3> QED BY <2>1, <2>2, <2>3, <3>0, <3>4, <3>5, <3>6, <3>7 DEF AdoptedOK
  <2> QED BY <2>1, <2>7, <2>8, <2>9 DEF Kept
<1>5. CASE ReplaceRow
  <2>1. /\ check.pc = "put" /\ Put(check.at, "complete", check.sum)
        /\ check' = [check EXCEPT !.pc = "replace"]
        /\ UNCHANGED <<still, disk, asset, mover, adopted>>
    BY <1>5 DEF ReplaceRow
  <2>2. /\ check'.pc = "replace" /\ check'.todo = check.todo /\ check'.ok = check.ok
        /\ check'.bad = check.bad /\ check'.changed = check.changed
        /\ check'.allow = check.allow /\ check'.sum = check.sum
    BY <1>0, <2>1 DEF CheckState
  <2>3. check.pc \in Adopting /\ check'.pc \in Adopting
    BY <2>1, <2>2 DEF Adopting
  <2>i. check.at \in check.ok /\ check.at \notin check.todo
    BY <1>0, <2>1 DEF CheckOK
  <2>4. \A k \in Locs : row'[k].state = IF k = check.at THEN "complete" ELSE row[k].state
    BY <2>1, PutRow
  <2>5. Seen' = Seen
    BY <2>2 DEF Seen
  <2>6. \A k \in Locs : /\ Counted(k)' => Counted(k) \/ k = check.at
                        /\ Complete(k) => Complete(k)'
    BY <2>4 DEF Counted, Complete
  <2>7. NASFiles'
    BY <1>k, <1>a, <2>1, <2>3, <2>i, <2>5, <2>6, Locations DEF NASFiles, Seen
  <2>8. AllowOK'
    <3>1. \A k \in Storage : Counted(k)' => k \in Seen
      BY <1>k, <1>a, <1>s, <2>3, <2>i, <2>6 DEF AllowOK, Seen
    <3> QED BY <1>k, <1>a, <1>s, <2>1, <2>2, <2>3, <2>5, <2>6, <3>1 DEF AllowOK
  <2>9. ASSUME adopted # None PROVE AdoptedOK(adopted)'
    <3>0. AdoptedOK(adopted)
      BY <1>k, <2>9
    <3>2. \A k : Lags(k) <=> Lags(k)'
      BY <2>1, <2>2 DEF Lags
    <3>3. \A k : Holds(k, adopted) <=> Holds(k, adopted)'
      BY <2>1 DEF Holds
    <3>1. disk[check.at] = adopted
      BY <2>1, <2>3, <2>i, <3>0 DEF AdoptedOK, Lags
    <3>4. \A k \in Storage : Counted(k)' => Holds(k, adopted)' \/ Lags(k)'
      BY <1>s, <2>6, <3>0, <3>1, <3>2, <3>3 DEF AdoptedOK, Holds
    <3>5. \A k \in check.ok : disk[k] = adopted \/ Lags(k)'
      BY <2>3, <3>0, <3>2 DEF AdoptedOK
    <3>6. \A e \in check.changed : disk[e] = adopted /\ Complete(e)'
      BY <1>s, <2>1, <2>3, <2>6, <3>0 DEF AdoptedOK
    <3>7. check'.pc \notin {"read", "apply"} /\ mover'.pc = "idle" /\ check.sum = adopted
      BY <1>a, <2>1, <2>2, <2>3, <3>0 DEF AdoptedOK
    <3> QED BY <2>1, <2>2, <2>3, <3>0, <3>4, <3>5, <3>6, <3>7 DEF AdoptedOK
  <2> QED BY <2>1, <2>7, <2>8, <2>9 DEF Kept
<1>6. CASE VerifyEnd
  <2>1. /\ check.pc = "replace" /\ check.todo = {} /\ check' = NoCheck
        /\ UNCHANGED <<still, disk, row, asset, mover, adopted>>
    BY <1>6 DEF VerifyEnd
  <2>2. /\ check'.pc = "idle" /\ ~check'.allow /\ Seen' = {} /\ check'.pc \notin Adopting
        /\ check.pc \in Adopting
    BY <2>1, NoneOK DEF Seen, Adopting
  <2>3. \A k : /\ Counted(k)' <=> Counted(k)
               /\ Complete(k)' <=> Complete(k)
               /\ \A v : Holds(k, v)' <=> Holds(k, v)
    BY <2>1 DEF Counted, Complete, Holds
  <2>4. \A k : ~Lags(k) /\ ~Lags(k)'
    BY <2>1, <2>2 DEF Lags
  <2>5. NASFiles' /\ AllowOK'
    BY <1>k, <2>1, <2>2, <2>3 DEF NASFiles, AllowOK
  <2>6. ASSUME adopted # None PROVE AdoptedOK(adopted)'
    <3>0. AdoptedOK(adopted)
      BY <1>k, <2>6
    <3>1. disk[Edited] = adopted /\ Complete(Edited)
      BY <1>a, <2>1, <2>2, <3>0 DEF AdoptedOK
    <3>2. PICK k \in check.ok : disk[k] = adopted /\ Complete(k)
      BY <1>a, <2>2, <2>4, <3>0 DEF AdoptedOK
    <3>3. \E n \in NASes : Complete(n) /\ disk[n] = adopted
      BY <1>a, <1>s, <2>2, <3>1, <3>2, Locations
    <3> QED BY <1>a, <2>1, <2>2, <2>3, <2>4, <3>0, <3>3 DEF AdoptedOK
  <2> QED BY <2>1, <2>5, <2>6 DEF Kept
<1> QED BY <1>1, <1>2, <1>3, <1>4, <1>5, <1>6

\* A new edit ends the claim; kills and volumes that go are counted.
LEMMA KeptFaults ==
  ASSUME Inv, Kept, mounted = Locs, faults = 0, faults' = 0,
         \/ \E l \in Locs, v \in Versions : Change(l, v)
         \/ \E l \in Locs : Unplug(l) \/ Plug(l)
         \/ Crash \/ UNCHANGED vars
  PROVE  Kept' /\ mounted' = Locs
<1>1. ASSUME NEW l \in Locs, NEW v \in Versions, Change(l, v) PROVE Kept' /\ mounted' = Locs
  <2>1. /\ disk[l] # None /\ Write(l, v) /\ adopted' = None
        /\ UNCHANGED <<still, row, asset, mounted, mover, check>>
    BY <1>1 DEF Change
  <2>2. \A k \in Locs : disk'[k] = IF k = l THEN v ELSE disk[k]
    BY <2>1, WriteDisk
  <2>3. v # None
    BY Locations
  <2>4. \A k : (Counted(k)' <=> Counted(k)) /\ (Complete(k)' <=> Complete(k))
    BY <2>1 DEF Counted, Complete
  <2>5. Seen' = Seen /\ check.bad \subseteq Locs /\ check.changed \subseteq Locs
    BY <2>1, Parts, Locations DEF Seen, CheckState
  <2>6. NASFiles'
    BY <2>1, <2>2, <2>3, <2>4, <2>5, Locations DEF Kept, NASFiles
  <2>7. AllowOK'
    BY <2>1, <2>2, <2>3, <2>4, <2>5 DEF Kept, AllowOK
  <2> QED BY <2>1, <2>6, <2>7 DEF Kept
<1>2. ASSUME NEW l \in Locs, Unplug(l) PROVE FALSE
  BY <1>2 DEF Unplug
<1>3. ASSUME NEW l \in Locs, Plug(l) PROVE FALSE
  BY <1>3, HashesAssumption DEF Plug
<1>4. CASE Crash
  BY <1>4 DEF Crash
<1>5. CASE UNCHANGED vars
  BY <1>5, KeptStays DEF vars
<1> QED BY <1>1, <1>2, <1>3, <1>4, <1>5

\* A fault and an overlap are never undone.
LEMMA QuietBefore ==
  ASSUME Inv, [Next]_vars, faults' = 0, ~overlap'
  PROVE  /\ faults = 0 /\ ~overlap
         /\ mounted' = mounted \/ \E l \in Locs : Unplug(l) \/ Plug(l)
<1>1. faults \in Nat /\ overlap \in BOOLEAN
  BY Parts, HashesAssumption
<1>2. faults' = faults \/ faults' = faults + 1
  BY DEF Next, vars, CopyBegin, CopyFails, AlreadyComplete, Copy, Record, Flush,
         VerifyBegin, CheckCopy, Apply, Replace, ReplaceFails, ReadEnd, AdoptContent,
         AdoptRow, ReplaceRow, VerifyEnd, Change, Unplug, Plug, Crash
<1>3. mounted' = mounted \/ \E l \in Locs : Unplug(l) \/ Plug(l)
  BY DEF Next, vars, CopyBegin, CopyFails, AlreadyComplete, Copy, Record, Flush,
         VerifyBegin, CheckCopy, Apply, Replace, ReplaceFails, ReadEnd, AdoptContent,
         AdoptRow, ReplaceRow, VerifyEnd, Change, Unplug, Plug, Crash
<1>4. overlap' = overlap \/ \E b : overlap' = (overlap \/ b)
  BY DEF Next, vars, CopyBegin, CopyFails, AlreadyComplete, Copy, Record, Flush,
         VerifyBegin, CheckCopy, Apply, Replace, ReplaceFails, ReadEnd, AdoptContent,
         AdoptRow, ReplaceRow, VerifyEnd, Change, Unplug, Plug, Crash
<1>5. overlap => overlap'
  BY <1>4
<1> QED BY <1>1, <1>2, <1>3, <1>5

\* No step loses the adopted edit.
LEMMA EditNext == IdentityTells /\ EditInv /\ [Next]_vars => EditInv'
<1> SUFFICES ASSUME IdentityTells, EditInv, [Next]_vars PROVE EditInv'
  OBVIOUS
<1>1. Inv /\ Inv'
  BY InvNext DEF EditInv
<1>2. ASSUME faults' = 0, ~overlap' PROVE mounted' = Locs /\ Kept'
  <2>1. faults = 0 /\ ~overlap /\ mounted = Locs /\ Kept
    BY <1>1, <1>2, QuietBefore DEF EditInv
  <2>2. CASE \/ \E l \in Locs, v \in Versions : Change(l, v)
             \/ \E l \in Locs : Unplug(l) \/ Plug(l)
             \/ Crash \/ UNCHANGED vars
    BY <1>1, <1>2, <2>1, <2>2, KeptFaults
  <2>3. CASE \/ \E l \in Locs : CopyBegin(l)
             \/ CopyFails \/ AlreadyComplete \/ Copy \/ Record \/ Flush
    BY <1>1, <1>2, <2>1, <2>2, <2>3, KeptCopy, QuietBefore
  <2>4. CASE \/ \E full, allow \in BOOLEAN : VerifyBegin(full, allow)
             \/ \E l \in Locs : CheckCopy(l) \/ Apply(l)
             \/ ReadEnd
    BY <1>1, <1>2, <2>1, <2>2, <2>4, KeptRead, QuietBefore
  <2>5. CASE \/ \E l \in Locs : Replace(l) \/ ReplaceFails(l)
             \/ AdoptContent \/ AdoptRow \/ ReplaceRow \/ VerifyEnd
    BY <1>1, <1>2, <2>1, <2>2, <2>5, KeptAdopt, QuietBefore
  <2> QED BY <2>2, <2>3, <2>4, <2>5 DEF Next
<1> QED BY <1>1, <1>2 DEF EditInv

(* Where versions differ in size or at their ends, the edit that a verify    *)
(* with AllowUpdates made the content of the asset stays on some disk until  *)
(* a file changes again, with any number of NASes and any mix of spools,     *)
(* archives, flushes and verifies, as long as no command dies, no volume     *)
(* goes, and none of them overlaps such a verify.                            *)
THEOREM AdoptedEditIsKept == ASSUME IdentityTells PROVE Spec => []EditsAreKept
<1>1. Init => EditInv
  BY EditInit
<1>2. EditInv /\ [Next]_vars => EditInv'
  BY EditNext
<1>3. EditInv => EditsAreKept
  <2> SUFFICES ASSUME EditInv, faults = 0, ~overlap, adopted # None
               PROVE  \E l \in Locs : disk[l] = adopted
    BY DEF EditsAreKept, AdoptedIsKept
  <2>1. AdoptedOK(adopted) /\ Inv
    BY DEF EditInv, Kept
  <2>2. CASE check.pc \in Adopting
    BY <2>1, <2>2, EditedType, Locations DEF AdoptedOK
  <2>3. CASE check.pc \notin Adopting
    BY <2>1, <2>3, Locations DEF AdoptedOK
  <2> QED BY <2>2, <2>3
<1> QED BY <1>1, <1>2, <1>3, PTL DEF Spec
=============================================================================
