--------------------------- MODULE CompanionsProofs ---------------------------
(***************************************************************************)
(* Theorems about Companions for every number of companions, versions and   *)
(* faults.  What a command has got to says what the files and the rows are  *)
(* at that moment.                                                         *)
(***************************************************************************)
EXTENDS Companions, FiniteSetTheorems, WellFoundedInduction, TLAPS

ProcState ==
  [pc : {"idle", "sync", "row", "relink", "drop", "secured", "remove",
         "forget", "sweep", "swept", "sweptrow"},
   dest : Locs \cup {None}, from : [Comps -> Locs \cup {None}],
   comp : Comps \cup {None}, todo : SUBSET Comps, relink : BOOLEAN,
   clean : BOOLEAN]

Storage == Locs \ {Card}

\* What the steps of a command rest on.
ProcOK(r) ==
  /\ r.pc \in {"sync", "row"} => r.dest \in Storage
  /\ r.pc \in {"secured", "remove", "forget"} => r.dest \in NASes /\ r.comp \in r.todo
  /\ r.pc \in {"swept", "sweptrow"} => r.dest \in Storage
  /\ r.pc \in {"row", "secured", "remove", "forget", "swept", "sweptrow"} => r.comp \in Comps
  /\ r.pc = "swept" => r.comp \in Sidecars

Inv == TypeOK /\ \A p \in Procs : ProcOK(proc[p])

\* One command at a time.
OneCommand == \E p : Procs = {p}

\* The sidecar a flush is about to remove is on the NAS.
FlushOK(r) ==
  /\ r.pc \in {"secured", "remove"} /\ r.comp \in Sidecars =>
       disk[r.comp][r.dest] = disk[r.comp][Spool]
  /\ r.pc = "remove" => r.dest \in rows[r.comp]

\* What an archive did not get to yet it will find on the spool.
ArchiveOK(r) ==
  r.pc \in {"sync", "row"} /\ r.clean /\ r.dest \in NASes =>
    \A c \in Sidecars :
      Spool \in rows[c] /\ disk[c][Spool] # 0 =>
        /\ r.from[c] \in {Spool, None}
        /\ r.from[c] = None \/ (r.pc = "row" /\ r.comp = c) =>
             disk[c][r.dest] = disk[c][Spool]

CommandInv == Inv /\ \A p \in Procs : FlushOK(proc[p]) /\ ArchiveOK(proc[p])

-----------------------------------------------------------------------------
(* The locations and their order.                                         *)

\* The spool, the NASes and the card are different locations.
LEMMA Locations ==
  /\ Spool \in Locs /\ Card \in Locs /\ Spool # Card
  /\ Spool \notin NASes /\ Card \notin NASes /\ None \notin Locs
  /\ NASes \subseteq Locs /\ Locs = {Spool, Card} \cup NASes
<1>1. 1 \in DOMAIN Order /\ Len(Order) \in DOMAIN Order /\ Len(Order) # 1
  BY CompanionsAssumption
<1>2. Spool = Order[1]
  BY <1>1, CompanionsAssumption DEF Spool
<1> QED BY <1>1, <1>2, CompanionsAssumption DEF Locs, Card, NASes

\* A location's place in the order.
LEMMA RankType ==
  /\ \A l \in Locs : Rank(l) \in Nat /\ Rank(l) >= 1 /\ Order[Rank(l)] = l
  /\ Rank(Spool) = 1
<1>1. \A l \in Locs : Rank(l) \in DOMAIN Order /\ Order[Rank(l)] = l
  BY DEF Rank, Locs
<1>2. DOMAIN Order = 1 .. Len(Order) /\ Len(Order) \in Nat
  BY CompanionsAssumption
<1>3. Spool = Order[1] /\ 1 \in DOMAIN Order
  BY <1>2, CompanionsAssumption DEF Spool
<1>4. Rank(Spool) = 1
  BY <1>1, <1>3, Locations, CompanionsAssumption
<1> QED BY <1>1, <1>2, <1>4

\* A nonempty set of naturals has a least element.
LEMMA LeastOf ==
  ASSUME NEW T \in SUBSET Nat, T # {}
  PROVE  \E x \in T : \A y \in T : x <= y
<1> DEFINE F == {0 .. x : x \in T}
<1>1. F \subseteq FiniteSubsetsOf(Nat)
  <2> SUFFICES ASSUME NEW x \in T PROVE 0 .. x \in FiniteSubsetsOf(Nat)
    OBVIOUS
  <2>1. IsFiniteSet(0 .. x)
    BY FS_Interval
  <2> QED BY <2>1 DEF FiniteSubsetsOf
<1>2. F # {}
  OBVIOUS
<1>3. \A x, y \in T : y < x => <<0 .. y, 0 .. x>> \in StrictSubsetOrdering(Nat)
  <2> SUFFICES ASSUME NEW x \in T, NEW y \in T, y < x
               PROVE  <<0 .. y, 0 .. x>> \in StrictSubsetOrdering(Nat)
    OBVIOUS
  <2>1. 0 .. y \subseteq 0 .. x /\ x \in 0 .. x /\ x \notin 0 .. y
    OBVIOUS
  <2>2. 0 .. y \subseteq Nat /\ 0 .. x \subseteq Nat
    OBVIOUS
  <2>3. 0 .. y # 0 .. x
    BY <2>1
  <2> QED BY <2>1, <2>2, <2>3 DEF StrictSubsetOrdering
<1> HIDE DEF F
<1>4. \E u \in F : \A v \in F : ~ (<<v, u>> \in StrictSubsetOrdering(Nat))
  BY <1>1, <1>2, WFMin, FS_StrictSubsetOrderingWellFounded
<1>5. PICK x \in T : \A y \in T : ~ (<<0 .. y, 0 .. x>> \in StrictSubsetOrdering(Nat))
  BY <1>4 DEF F
<1>6. \A y \in T : ~ (y < x)
  BY <1>3, <1>5
<1> QED BY <1>6

\* The best of some locations is one of them, and the spool if it is.
LEMMA BestInType ==
  ASSUME NEW S \in SUBSET Locs
  PROVE  /\ BestIn(S) \in S \cup {None}
         /\ S # {} => BestIn(S) \in S
         /\ Spool \in S => BestIn(S) = Spool
<1>1. CASE S = {}
  BY <1>1 DEF BestIn
<1>2. CASE S # {}
  <2> DEFINE T == {Rank(l) : l \in S}
  <2>1. T \in SUBSET Nat /\ T # {}
    BY <1>2, RankType
  <2> HIDE DEF T
  <2>2. PICK i \in T : \A j \in T : i <= j
    BY <2>1, LeastOf
  <2>3. \E l \in S : \A k \in S : Rank(l) <= Rank(k)
    BY <2>2 DEF T
  <2>4. BestIn(S) \in S /\ \A k \in S : Rank(BestIn(S)) <= Rank(k)
    BY <1>2, <2>3 DEF BestIn
  <2>5. Spool \in S => BestIn(S) = Spool
    <3> HAVE Spool \in S
    <3>1. Rank(BestIn(S)) <= 1 /\ Rank(BestIn(S)) >= 1 /\ Rank(BestIn(S)) \in Nat
      BY <2>4, RankType
    <3>2. Order[Rank(BestIn(S))] = BestIn(S) /\ Order[1] = Spool
      BY <2>4, RankType, Locations
    <3> QED BY <3>1, <3>2
  <2> QED BY <2>4, <2>5
<1> QED BY <1>1, <1>2

-----------------------------------------------------------------------------
(* Types, and what the steps of a command rest on.                         *)

\* bestCompanions returns a location, and the spool when there is one on it.
LEMMA BestType ==
  ASSUME TypeOK, NEW c \in Comps, NEW except
  PROVE  /\ Best(c, except) \in Locs \cup {None}
         /\ Best(c, except) # None => Best(c, except) \in rows[c] \ except
         /\ Spool \in rows[c] \ except => Best(c, except) = Spool
<1> DEFINE S == (rows[c] \cap Mounted) \ except
<1>1. S \in SUBSET Locs
  BY DEF TypeOK, Mounted
<1>2. Spool \in rows[c] \ except => Spool \in S
  BY Locations DEF Mounted
<1>3. Best(c, except) = BestIn(S)
  BY DEF Best
<1>4. S \subseteq rows[c] \ except
  OBVIOUS
<1> HIDE DEF S
<1>5. /\ BestIn(S) \in S \cup {None}
      /\ Spool \in S => BestIn(S) = Spool
  BY <1>1, BestInType
<1> QED BY <1>1, <1>2, <1>3, <1>4, <1>5, Locations

\* Storage for the asset, as sweepCompanions chooses it.
LEMMA TargetType ==
  ASSUME TypeOK
  PROVE  BestIn(copies \ {Card}) \in Storage \cup {None}
<1>1. copies \ {Card} \in SUBSET Locs /\ copies \ {Card} \subseteq Storage
  BY DEF TypeOK, Storage
<1> QED BY <1>1, BestInType

\* An idle command rests on nothing.
LEMMA IdleOK == Idle \in ProcState /\ ProcOK(Idle)
BY DEF Idle, ProcState, ProcOK

\* Reconcile links companions to locations.
LEMMA RelinkedType ==
  ASSUME TypeOK
  PROVE  Relinked \in [Comps -> Locs \cup {None}]
<1>1. \A c \in Comps : Best(c, {}) \in Locs \cup {None} /\ link[c] \in Locs \cup {None}
  BY BestType DEF TypeOK
<1> QED BY <1>1 DEF Relinked

\* A command that goes on to a good state leaves the others as they were.
LEMMA SetKeeps ==
  ASSUME Inv, NEW p \in Procs, NEW r \in ProcState, ProcOK(r), Set(p, r)
  PROVE  proc' \in [Procs -> ProcState] /\ \A q \in Procs : ProcOK(proc'[q])
<1>1. proc \in [Procs -> ProcState] /\ proc' = [proc EXCEPT ![p] = r]
  BY DEF Inv, TypeOK, ProcState, Set
<1>2. \A q \in Procs : ProcOK(proc[q])
  BY DEF Inv
<1>3. \A q \in Procs : proc'[q] = IF q = p THEN r ELSE proc[q]
  BY <1>1
<1> QED BY <1>1, <1>2, <1>3

\* Going to the next point of a command changes nothing else in it.
LEMMA ToIsSet ==
  ASSUME Inv, NEW p \in Procs, NEW pc, To(p, pc)
  PROVE  Set(p, [proc[p] EXCEPT !.pc = pc]) /\ proc[p] \in ProcState
<1>1. proc \in [Procs -> ProcState]
  BY DEF Inv, TypeOK, ProcState
<1> QED BY <1>1 DEF To, Set

\* Writing a companion keeps the disks well typed.
LEMMA WriteType ==
  ASSUME TypeOK, NEW c \in Comps, NEW l \in Locs, NEW v \in Version, Write(c, l, v)
  PROVE  disk' \in [Comps -> [Locs -> Version]]
BY DEF TypeOK, Write

\* Recording one keeps the rows well typed.
LEMMA RecordType ==
  ASSUME TypeOK, NEW c \in Comps, NEW l \in Locs, Record(c, l)
  PROVE  rows' \in [Comps -> SUBSET Locs]
BY DEF TypeOK, Record

\* What is left of TypeOK when the commands are well typed.
LEMMA InvFrom ==
  ASSUME proc' \in [Procs -> ProcState] /\ \A q \in Procs : ProcOK(proc'[q]),
         disk' \in [Comps -> [Locs -> Version]],
         rows' \in [Comps -> SUBSET Locs], copies' \subseteq Locs,
         cardIn' \in BOOLEAN, link' \in [Comps -> Locs \cup {None}],
         tree' \in [Comps -> Version], newest' \in [Comps -> Version],
         faults' \in 0..MaxFaults
  PROVE  Inv'
<1>1. proc' \in [Procs -> ProcState]
  OBVIOUS
<1>2. TypeOK'
  BY <1>1 DEF TypeOK, ProcState
<1> QED BY <1>2 DEF Inv

\* The invariant, variable by variable.
LEMMA Parts ==
  ASSUME Inv
  PROVE  /\ TypeOK /\ proc \in [Procs -> ProcState] /\ \A q \in Procs : ProcOK(proc[q])
         /\ disk \in [Comps -> [Locs -> Version]]
         /\ rows \in [Comps -> SUBSET Locs] /\ copies \subseteq Locs
         /\ cardIn \in BOOLEAN /\ link \in [Comps -> Locs \cup {None}]
         /\ tree \in [Comps -> Version] /\ newest \in [Comps -> Version]
         /\ faults \in 0..MaxFaults
BY DEF Inv, TypeOK, ProcState

\* The state with a new card in it.
LEMMA InvInit == Init => Inv
<1> SUFFICES ASSUME Init PROVE Inv
  OBVIOUS
<1>1. 0 \in Version /\ 1 \in Version /\ 0 \in 0..MaxFaults
  BY CompanionsAssumption DEF Version
<1>2. PICK made \in SUBSET Comps :
        /\ disk = [c \in Comps |-> [l \in Locs |->
                    IF c \in made /\ l = Card THEN 1 ELSE 0]]
        /\ newest = [c \in Comps |-> IF c \in made THEN 1 ELSE 0]
  BY DEF Init
<1>3. disk \in [Comps -> [Locs -> Version]] /\ newest \in [Comps -> Version]
  BY <1>1, <1>2
<1>4. proc \in [Procs -> ProcState] /\ \A p \in Procs : ProcOK(proc[p])
  BY IdleOK DEF Init
<1>5. /\ rows \in [Comps -> SUBSET Locs] /\ copies \subseteq Locs
      /\ cardIn \in BOOLEAN /\ link \in [Comps -> Locs \cup {None}]
      /\ tree \in [Comps -> Version] /\ faults \in 0..MaxFaults
  BY <1>1 DEF Init
<1>6. TypeOK
  BY <1>3, <1>4, <1>5 DEF TypeOK, ProcState
<1> QED BY <1>4, <1>6 DEF Inv

\* Scanning, copying the original and syncCompanions.
LEMMA InvSync ==
  ASSUME Inv, NEW p \in Procs,
         \/ Scan(p) \/ (\E d \in Locs : CopyOriginal(p, d) \/ Resync(p, d))
         \/ (\E c \in Comps : SyncFile(p, c) \/ SyncFails(p, c))
         \/ SyncRow(p) \/ SyncEnd(p) \/ Relink(p)
  PROVE  Inv'
<1>0. /\ TypeOK /\ proc \in [Procs -> ProcState] /\ \A q \in Procs : ProcOK(proc[q])
      /\ disk \in [Comps -> [Locs -> Version]]
      /\ rows \in [Comps -> SUBSET Locs] /\ copies \subseteq Locs
      /\ cardIn \in BOOLEAN /\ link \in [Comps -> Locs \cup {None}]
      /\ tree \in [Comps -> Version] /\ newest \in [Comps -> Version]
      /\ faults \in 0..MaxFaults
  BY Parts
<1>t. proc[p] \in ProcState /\ ProcOK(proc[p])
  BY <1>0
<1>s. ASSUME NEW d \in Storage, NEW b \in BOOLEAN, SyncTo(p, d, b)
      PROVE  proc' \in [Procs -> ProcState] /\ \A q \in Procs : ProcOK(proc'[q])
  <2> DEFINE f == [c \in Comps |-> Best(c, {d})]
             r == [Idle EXCEPT !.pc = "sync", !.dest = d, !.relink = b, !.from = f]
  <2>1. f \in [Comps -> Locs \cup {None}]
    BY <1>0, BestType
  <2>2. Set(p, r)
    BY <1>s DEF SyncTo
  <2> HIDE DEF f
  <2>3. r \in ProcState
    BY <2>1, IdleOK DEF ProcState, Storage, Idle
  <2>4. ProcOK(r)
    BY DEF ProcOK, Idle
  <2> HIDE DEF r
  <2> QED BY <2>2, <2>3, <2>4, SetKeeps
<1>n. ASSUME NEW c \in Comps
      PROVE  NextComp(p, c) \in ProcState /\ (proc[p].dest \in Storage => ProcOK(NextComp(p, c)))
  <2>1. NextComp(p, c) \in ProcState
    BY <1>t DEF NextComp, ProcState
  <2>2. proc[p].dest \in Storage => ProcOK(NextComp(p, c))
    BY <1>t DEF NextComp, ProcOK, ProcState
  <2> QED BY <2>1, <2>2
<1>1. CASE Scan(p)
  <2>1. rows' \in [Comps -> SUBSET Locs] /\ copies' \subseteq Locs
    BY <1>0, <1>1, Locations DEF Scan
  <2> QED BY <1>0, <1>1, <2>1, InvFrom DEF Scan
<1>2. ASSUME NEW d \in Locs, CopyOriginal(p, d) PROVE Inv'
  <2>1. d \in Storage /\ SyncTo(p, d, TRUE)
    BY <1>2 DEF CopyOriginal, Storage
  <2>2. proc' \in [Procs -> ProcState] /\ \A q \in Procs : ProcOK(proc'[q])
    BY <1>s, <2>1
  <2>3. copies' \subseteq Locs
    BY <1>0, <1>2 DEF CopyOriginal
  <2> QED BY <1>0, <1>2, <2>2, <2>3, InvFrom DEF CopyOriginal
<1>3. ASSUME NEW d \in Locs, Resync(p, d) PROVE Inv'
  <2>1. d \in Storage /\ SyncTo(p, d, FALSE)
    BY <1>3, Locations DEF Resync, Storage
  <2>2. proc' \in [Procs -> ProcState] /\ \A q \in Procs : ProcOK(proc'[q])
    BY <1>s, <2>1
  <2> QED BY <1>0, <1>3, <2>2, InvFrom DEF Resync
<1>4. ASSUME NEW c \in Comps, SyncFile(p, c) PROVE Inv'
  <2> DEFINE s == proc[p].from[c]
             d == proc[p].dest
  <2>1. s \in Locs /\ d \in Storage /\ d \in Locs
    BY <1>t, <1>4 DEF SyncFile, ProcState, ProcOK, Storage
  <2>2. CASE Readable(c, s) /\ Replaces(c, s, d)
    <3> DEFINE r == [proc[p] EXCEPT !.pc = "row", !.comp = c]
    <3>1. Set(p, r) /\ Write(c, d, disk[c][s])
      BY <1>4, <2>2 DEF SyncFile
    <3>2. r \in ProcState
      BY <1>t DEF ProcState
    <3>3. ProcOK(r)
      BY <1>t, <2>1 DEF ProcOK, ProcState
    <3> HIDE DEF r
    <3>4. proc' \in [Procs -> ProcState] /\ \A q \in Procs : ProcOK(proc'[q])
      BY <3>1, <3>2, <3>3, SetKeeps
    <3>5. disk' \in [Comps -> [Locs -> Version]]
      <4>1. disk[c][s] \in Version
        BY <1>0, <2>1
      <4> QED BY <1>0, <2>1, <3>1, <4>1, WriteType
    <3> QED BY <1>0, <1>4, <3>4, <3>5, InvFrom DEF SyncFile
  <2>3. CASE ~(Readable(c, s) /\ Replaces(c, s, d))
    <3>1. Set(p, NextComp(p, c)) /\ disk' = disk
      BY <1>4, <2>3 DEF SyncFile
    <3>4. proc' \in [Procs -> ProcState] /\ \A q \in Procs : ProcOK(proc'[q])
      BY <1>n, <2>1, <3>1, SetKeeps
    <3> QED BY <1>0, <1>4, <3>1, <3>4, InvFrom DEF SyncFile
  <2> QED BY <2>2, <2>3
<1>5. ASSUME NEW c \in Comps, SyncFails(p, c) PROVE Inv'
  <2> DEFINE r == [NextComp(p, c) EXCEPT !.clean = FALSE]
  <2>1. proc[p].dest \in Storage
    BY <1>t, <1>5 DEF SyncFails, ProcOK
  <2>2. r \in ProcState
    BY <1>t DEF ProcState, NextComp
  <2>3. ProcOK(r)
    BY <1>n, <2>1 DEF ProcOK, ProcState
  <2>4. Set(p, r)
    BY <1>5 DEF SyncFails
  <2> HIDE DEF r
  <2>5. proc' \in [Procs -> ProcState] /\ \A q \in Procs : ProcOK(proc'[q])
    BY <2>2, <2>3, <2>4, SetKeeps
  <2>6. faults' \in 0..MaxFaults
    BY <1>0, <1>5, CompanionsAssumption DEF SyncFails
  <2> QED BY <1>0, <1>5, <2>5, <2>6, InvFrom DEF SyncFails
<1>6. CASE SyncRow(p)
  <2>1. proc[p].comp \in Comps /\ proc[p].dest \in Storage /\ proc[p].dest \in Locs
    BY <1>t, <1>6 DEF SyncRow, ProcOK, Storage
  <2>2. Set(p, NextComp(p, proc[p].comp)) /\ Record(proc[p].comp, proc[p].dest)
    BY <1>6 DEF SyncRow
  <2>3. proc' \in [Procs -> ProcState] /\ \A q \in Procs : ProcOK(proc'[q])
    BY <1>n, <2>1, <2>2, SetKeeps
  <2>4. rows' \in [Comps -> SUBSET Locs]
    BY <1>0, <2>1, <2>2, RecordType
  <2> QED BY <1>0, <1>6, <2>3, <2>4, InvFrom DEF SyncRow
<1>7. CASE SyncEnd(p)
  <2> DEFINE r == [proc[p] EXCEPT !.pc = "relink"]
  <2>1. r \in ProcState
    BY <1>t DEF ProcState
  <2>2. ProcOK(r)
    BY <1>t DEF ProcOK, ProcState
  <2>3. Set(p, r) \/ Set(p, Idle)
    BY <1>7, ToIsSet DEF SyncEnd
  <2> HIDE DEF r
  <2>4. proc' \in [Procs -> ProcState] /\ \A q \in Procs : ProcOK(proc'[q])
    BY <2>1, <2>2, <2>3, IdleOK, SetKeeps
  <2> QED BY <1>0, <1>7, <2>4, InvFrom DEF SyncEnd
<1>8. CASE Relink(p)
  <2>1. proc' \in [Procs -> ProcState] /\ \A q \in Procs : ProcOK(proc'[q])
    BY <1>8, IdleOK, SetKeeps DEF Relink
  <2>2. link' \in [Comps -> Locs \cup {None}]
    BY <1>0, <1>8, RelinkedType DEF Relink
  <2> QED BY <1>0, <1>8, <2>1, <2>2, InvFrom DEF Relink
<1> QED BY <1>1, <1>2, <1>3, <1>4, <1>5, <1>6, <1>7, <1>8

\* Flush.
LEMMA InvFlush ==
  ASSUME Inv, NEW p \in Procs,
         \/ Flush(p) \/ (\E c \in Comps, n \in NASes : FlushSecure(p, c, n))
         \/ FlushRow(p) \/ FlushRemove(p) \/ FlushForget(p)
         \/ (\E c \in Comps : FlushKeep(p, c)) \/ FlushEnd(p)
  PROVE  Inv'
<1>0. /\ TypeOK /\ proc \in [Procs -> ProcState] /\ \A q \in Procs : ProcOK(proc[q])
      /\ disk \in [Comps -> [Locs -> Version]]
      /\ rows \in [Comps -> SUBSET Locs] /\ copies \subseteq Locs
      /\ cardIn \in BOOLEAN /\ link \in [Comps -> Locs \cup {None}]
      /\ tree \in [Comps -> Version] /\ newest \in [Comps -> Version]
      /\ faults \in 0..MaxFaults
  BY Parts
<1>t. proc[p] \in ProcState /\ ProcOK(proc[p])
  BY <1>0
<1>z. 0 \in Version
  BY CompanionsAssumption DEF Version
<1>1. CASE Flush(p)
  <2> DEFINE t == {c \in Comps : Spool \in rows[c]}
             r == [Idle EXCEPT !.pc = "drop", !.todo = t]
  <2>1. t \in SUBSET Comps
    OBVIOUS
  <2>2. Set(p, r)
    BY <1>1 DEF Flush
  <2> HIDE DEF t
  <2>3. r \in ProcState
    BY <2>1, IdleOK DEF ProcState, Idle
  <2>4. ProcOK(r)
    BY DEF ProcOK, Idle
  <2> HIDE DEF r
  <2>5. proc' \in [Procs -> ProcState] /\ \A q \in Procs : ProcOK(proc'[q])
    BY <2>2, <2>3, <2>4, SetKeeps
  <2>6. copies' \subseteq Locs
    BY <1>0, <1>1 DEF Flush
  <2> QED BY <1>0, <1>1, <2>5, <2>6, InvFrom DEF Flush
<1>2. ASSUME NEW c \in Comps, NEW n \in NASes, FlushSecure(p, c, n) PROVE Inv'
  <2> DEFINE r == [proc[p] EXCEPT !.pc = "secured", !.dest = n, !.comp = c]
             v == IF Replaces(c, Spool, n) THEN disk[c][Spool] ELSE disk[c][n]
  <2>1. r \in ProcState
    BY <1>t, Locations DEF ProcState
  <2>2. ProcOK(r)
    BY <1>t, <1>2 DEF ProcOK, ProcState, FlushSecure
  <2>3. Set(p, r) /\ Write(c, n, v)
    BY <1>2 DEF FlushSecure
  <2>4. v \in Version
    BY <1>0, Locations
  <2> HIDE DEF r, v
  <2>5. proc' \in [Procs -> ProcState] /\ \A q \in Procs : ProcOK(proc'[q])
    BY <2>1, <2>2, <2>3, SetKeeps
  <2>6. disk' \in [Comps -> [Locs -> Version]]
    BY <1>0, <2>3, <2>4, WriteType, Locations
  <2> QED BY <1>0, <1>2, <2>5, <2>6, InvFrom DEF FlushSecure
<1>3. CASE FlushRow(p)
  <2> DEFINE r == [proc[p] EXCEPT !.pc = "remove"]
  <2>1. r \in ProcState
    BY <1>t DEF ProcState
  <2>2. ProcOK(r)
    BY <1>t, <1>3 DEF ProcOK, ProcState, FlushRow
  <2>3. Set(p, r) /\ Record(proc[p].comp, proc[p].dest)
    BY <1>3, ToIsSet DEF FlushRow
  <2> HIDE DEF r
  <2>4. proc' \in [Procs -> ProcState] /\ \A q \in Procs : ProcOK(proc'[q])
    BY <2>1, <2>2, <2>3, SetKeeps
  <2>5. proc[p].comp \in Comps /\ proc[p].dest \in Locs
    BY <1>t, <1>3, Locations DEF ProcOK, FlushRow
  <2>6. rows' \in [Comps -> SUBSET Locs]
    BY <1>0, <2>3, <2>5, RecordType
  <2> QED BY <1>0, <1>3, <2>4, <2>6, InvFrom DEF FlushRow
<1>4. CASE FlushRemove(p)
  <2> DEFINE r == [proc[p] EXCEPT !.pc = "forget"]
  <2>1. r \in ProcState
    BY <1>t DEF ProcState
  <2>2. ProcOK(r)
    BY <1>t, <1>4 DEF ProcOK, ProcState, FlushRemove
  <2>3. Set(p, r) /\ Write(proc[p].comp, Spool, 0)
    BY <1>4, ToIsSet DEF FlushRemove
  <2> HIDE DEF r
  <2>4. proc' \in [Procs -> ProcState] /\ \A q \in Procs : ProcOK(proc'[q])
    BY <2>1, <2>2, <2>3, SetKeeps
  <2>5. proc[p].comp \in Comps
    BY <1>t, <1>4 DEF ProcOK, FlushRemove
  <2>6. disk' \in [Comps -> [Locs -> Version]]
    BY <1>0, <1>z, <2>3, <2>5, WriteType, Locations
  <2> QED BY <1>0, <1>4, <2>4, <2>6, InvFrom DEF FlushRemove
<1>5. CASE FlushForget(p)
  <2> DEFINE r == [proc[p] EXCEPT !.pc = "drop", !.todo = @ \ {proc[p].comp}]
  <2>1. r \in ProcState
    BY <1>t DEF ProcState
  <2>2. ProcOK(r)
    BY <1>t DEF ProcOK, ProcState
  <2>3. Set(p, r)
    BY <1>5 DEF FlushForget
  <2> HIDE DEF r
  <2>4. proc' \in [Procs -> ProcState] /\ \A q \in Procs : ProcOK(proc'[q])
    BY <2>1, <2>2, <2>3, SetKeeps
  <2>6. rows' \in [Comps -> SUBSET Locs]
    BY <1>0, <1>5 DEF FlushForget
  <2> QED BY <1>0, <1>5, <2>4, <2>6, InvFrom DEF FlushForget
<1>6. ASSUME NEW c \in Comps, FlushKeep(p, c) PROVE Inv'
  <2> DEFINE r == [proc[p] EXCEPT !.todo = @ \ {c}]
  <2>1. r \in ProcState
    BY <1>t DEF ProcState
  <2>2. ProcOK(r)
    BY <1>t, <1>6 DEF ProcOK, ProcState, FlushKeep
  <2>3. Set(p, r)
    BY <1>6 DEF FlushKeep
  <2> HIDE DEF r
  <2>4. proc' \in [Procs -> ProcState] /\ \A q \in Procs : ProcOK(proc'[q])
    BY <2>1, <2>2, <2>3, SetKeeps
  <2>6. faults' \in 0..MaxFaults
    BY <1>0, <1>6, CompanionsAssumption DEF FlushKeep
  <2> QED BY <1>0, <1>6, <2>4, <2>6, InvFrom DEF FlushKeep
<1>7. CASE FlushEnd(p)
  <2> DEFINE r == [Idle EXCEPT !.pc = "sweep"]
  <2>1. r \in ProcState /\ ProcOK(r)
    BY IdleOK DEF ProcState, ProcOK, Idle
  <2>2. Set(p, r)
    BY <1>7 DEF FlushEnd
  <2> HIDE DEF r
  <2>3. proc' \in [Procs -> ProcState] /\ \A q \in Procs : ProcOK(proc'[q])
    BY <2>1, <2>2, SetKeeps
  <2> QED BY <1>0, <1>7, <2>3, InvFrom DEF FlushEnd
<1> QED BY <1>1, <1>2, <1>3, <1>4, <1>5, <1>6, <1>7

\* Reconcile, and commands that die.
LEMMA InvSweep ==
  ASSUME Inv, NEW p \in Procs,
         \/ ReconcileBegin(p) \/ (\E c \in Comps : Sweep(p, c))
         \/ SweepRemove(p) \/ SweepRow(p) \/ SweepEnd(p)
         \/ Crash(p)
  PROVE  Inv'
<1>0. /\ TypeOK /\ proc \in [Procs -> ProcState] /\ \A q \in Procs : ProcOK(proc[q])
      /\ disk \in [Comps -> [Locs -> Version]]
      /\ rows \in [Comps -> SUBSET Locs] /\ copies \subseteq Locs
      /\ cardIn \in BOOLEAN /\ link \in [Comps -> Locs \cup {None}]
      /\ tree \in [Comps -> Version] /\ newest \in [Comps -> Version]
      /\ faults \in 0..MaxFaults
  BY Parts
<1>t. proc[p] \in ProcState /\ ProcOK(proc[p])
  BY <1>0
<1>z. 0 \in Version
  BY CompanionsAssumption DEF Version
<1>1. CASE ReconcileBegin(p)
  <2> DEFINE r == [Idle EXCEPT !.pc = "sweep"]
  <2>1. r \in ProcState /\ ProcOK(r)
    BY IdleOK DEF ProcState, ProcOK, Idle
  <2>2. Set(p, r)
    BY <1>1 DEF ReconcileBegin
  <2> HIDE DEF r
  <2>3. proc' \in [Procs -> ProcState] /\ \A q \in Procs : ProcOK(proc'[q])
    BY <2>1, <2>2, SetKeeps
  <2> QED BY <1>0, <1>1, <2>3, InvFrom DEF ReconcileBegin
<1>2. ASSUME NEW c \in Comps, Sweep(p, c) PROVE Inv'
  <2> DEFINE d == BestIn(copies \ {Card})
             pc == IF c \in Regenerable THEN "sweptrow" ELSE "swept"
             r == [proc[p] EXCEPT !.dest = d, !.comp = c, !.pc = pc]
  <2>1. d # None /\ Write(c, d, tree[c]) /\ Set(p, r)
    BY <1>2 DEF Sweep
  <2>2. d \in Storage /\ d \in Locs
    BY <1>0, <2>1, TargetType DEF Storage
  <2> HIDE DEF d
  <2>3. r \in ProcState
    BY <1>t, <2>2 DEF ProcState
  <2>4. ProcOK(r)
    BY <1>t, <2>2 DEF ProcOK, ProcState, Sidecars
  <2> HIDE DEF r
  <2>5. proc' \in [Procs -> ProcState] /\ \A q \in Procs : ProcOK(proc'[q])
    BY <2>1, <2>3, <2>4, SetKeeps
  <2>6. disk' \in [Comps -> [Locs -> Version]]
    BY <1>0, <2>1, <2>2, WriteType
  <2>7. tree' \in [Comps -> Version]
    BY <1>0, <1>2, <1>z DEF Sweep
  <2> QED BY <1>0, <1>2, <2>5, <2>6, <2>7, InvFrom DEF Sweep
<1>3. CASE SweepRemove(p)
  <2> DEFINE r == [proc[p] EXCEPT !.pc = "sweptrow"]
  <2>1. r \in ProcState
    BY <1>t DEF ProcState
  <2>2. ProcOK(r)
    BY <1>t, <1>3 DEF ProcOK, ProcState, SweepRemove
  <2>3. Set(p, r)
    BY <1>3, ToIsSet DEF SweepRemove
  <2> HIDE DEF r
  <2>4. proc' \in [Procs -> ProcState] /\ \A q \in Procs : ProcOK(proc'[q])
    BY <2>1, <2>2, <2>3, SetKeeps
  <2>5. tree' \in [Comps -> Version]
    BY <1>0, <1>3, <1>z DEF SweepRemove
  <2> QED BY <1>0, <1>3, <2>4, <2>5, InvFrom DEF SweepRemove
<1>4. CASE SweepRow(p)
  <2> DEFINE r == [proc[p] EXCEPT !.pc = "sweep"]
  <2>1. r \in ProcState
    BY <1>t DEF ProcState
  <2>2. ProcOK(r)
    BY <1>t, <1>4 DEF ProcOK, ProcState, SweepRow
  <2>3. Set(p, r) /\ Record(proc[p].comp, proc[p].dest)
    BY <1>4, ToIsSet DEF SweepRow
  <2> HIDE DEF r
  <2>4. proc' \in [Procs -> ProcState] /\ \A q \in Procs : ProcOK(proc'[q])
    BY <2>1, <2>2, <2>3, SetKeeps
  <2>5. proc[p].comp \in Comps /\ proc[p].dest \in Locs
    BY <1>t, <1>4 DEF ProcOK, SweepRow, Storage
  <2>6. rows' \in [Comps -> SUBSET Locs]
    BY <1>0, <2>3, <2>5, RecordType
  <2> QED BY <1>0, <1>4, <2>4, <2>6, InvFrom DEF SweepRow
<1>5. CASE SweepEnd(p)
  <2> DEFINE r == [proc[p] EXCEPT !.pc = "relink"]
  <2>1. r \in ProcState
    BY <1>t DEF ProcState
  <2>2. ProcOK(r)
    BY <1>t DEF ProcOK, ProcState
  <2>3. Set(p, r) \/ Set(p, Idle)
    BY <1>5, ToIsSet DEF SweepEnd
  <2> HIDE DEF r
  <2>4. proc' \in [Procs -> ProcState] /\ \A q \in Procs : ProcOK(proc'[q])
    BY <2>1, <2>2, <2>3, IdleOK, SetKeeps
  <2> QED BY <1>0, <1>5, <2>4, InvFrom DEF SweepEnd
<1>6. CASE Crash(p)
  <2>1. proc' \in [Procs -> ProcState] /\ \A q \in Procs : ProcOK(proc'[q])
    BY <1>6, IdleOK, SetKeeps DEF Crash
  <2>2. faults' \in 0..MaxFaults
    BY <1>0, <1>6, CompanionsAssumption DEF Crash
  <2> QED BY <1>0, <1>6, <2>1, <2>2, InvFrom DEF Crash
<1> QED BY <1>1, <1>2, <1>3, <1>4, <1>5, <1>6

\* Every step of a command keeps the invariant.
LEMMA InvCommand ==
  ASSUME Inv, NEW p \in Procs, CommandStep(p)
  PROVE  Inv'
BY InvSync, InvFlush, InvSweep DEF CommandStep

\* Editors, and the card.
LEMMA InvEdit ==
  ASSUME Inv, (\E c \in Comps : EditThroughLink(c) \/ SaveInTree(c)) \/ Eject \/ Insert
  PROVE  Inv'
<1>0. /\ TypeOK /\ proc \in [Procs -> ProcState] /\ \A q \in Procs : ProcOK(proc[q])
      /\ disk \in [Comps -> [Locs -> Version]]
      /\ rows \in [Comps -> SUBSET Locs] /\ copies \subseteq Locs
      /\ cardIn \in BOOLEAN /\ link \in [Comps -> Locs \cup {None}]
      /\ tree \in [Comps -> Version] /\ newest \in [Comps -> Version]
      /\ faults \in 0..MaxFaults
  BY Parts
<1>d. ASSUME Dirty
      PROVE  proc' \in [Procs -> ProcState] /\ \A q \in Procs : ProcOK(proc'[q])
  <2> SUFFICES ASSUME NEW q \in Procs
               PROVE  /\ [proc[q] EXCEPT !.clean = (@ /\ proc[q].pc = "idle")] \in ProcState
                      /\ ProcOK([proc[q] EXCEPT !.clean = (@ /\ proc[q].pc = "idle")])
    BY <1>d DEF Dirty
  <2>t. proc[q] \in ProcState /\ ProcOK(proc[q])
    BY <1>0
  <2> DEFINE b == proc[q].clean /\ proc[q].pc = "idle"
             r == [proc[q] EXCEPT !.clean = b]
  <2>1. b \in BOOLEAN
    OBVIOUS
  <2> HIDE DEF b
  <2>2. r \in ProcState
    BY <2>t, <2>1 DEF ProcState
  <2>3. ProcOK(r)
    BY <2>t DEF ProcOK, ProcState
  <2> QED BY <2>2, <2>3 DEF b
<1>n. ASSUME NEW c \in Comps, MayEdit(c), newest' = [newest EXCEPT ![c] = @ + 1]
      PROVE  newest' \in [Comps -> Version] /\ newest'[c] \in Version
  BY <1>0, <1>n, CompanionsAssumption DEF MayEdit, Version
<1>1. ASSUME NEW c \in Comps, EditThroughLink(c) PROVE Inv'
  <2>1. proc' \in [Procs -> ProcState] /\ \A q \in Procs : ProcOK(proc'[q])
    BY <1>1, <1>d DEF EditThroughLink
  <2>2. newest' \in [Comps -> Version] /\ newest'[c] \in Version
    BY <1>1, <1>n DEF EditThroughLink
  <2>3. link[c] \in Locs
    BY <1>0, <1>1 DEF EditThroughLink
  <2>4. disk' \in [Comps -> [Locs -> Version]]
    BY <1>0, <1>1, <2>2, <2>3, WriteType DEF EditThroughLink
  <2> QED BY <1>0, <1>1, <2>1, <2>2, <2>4, InvFrom DEF EditThroughLink
<1>2. ASSUME NEW c \in Comps, SaveInTree(c) PROVE Inv'
  <2>1. proc' \in [Procs -> ProcState] /\ \A q \in Procs : ProcOK(proc'[q])
    BY <1>2, <1>d DEF SaveInTree
  <2>2. newest' \in [Comps -> Version] /\ newest'[c] \in Version
    BY <1>2, <1>n DEF SaveInTree
  <2>3. tree' \in [Comps -> Version] /\ link' \in [Comps -> Locs \cup {None}]
    BY <1>0, <1>2, <2>2 DEF SaveInTree
  <2> QED BY <1>0, <1>2, <2>1, <2>2, <2>3, InvFrom DEF SaveInTree
<1>3. CASE Eject
  BY <1>0, <1>3, InvFrom DEF Eject
<1>4. CASE Insert
  BY <1>0, <1>4, InvFrom DEF Insert
<1> QED BY <1>1, <1>2, <1>3, <1>4

\* Every step keeps the invariant.
LEMMA InvStep == Inv /\ [Next]_vars => Inv'
<1> SUFFICES ASSUME Inv, [Next]_vars PROVE Inv'
  OBVIOUS
<1>1. CASE UNCHANGED vars
  BY <1>1 DEF vars, Inv, TypeOK
<1>2. CASE Next
  BY <1>2, InvCommand, InvEdit DEF Next
<1> QED BY <1>1, <1>2

\* Every command, at every step of it and beside any others, names companions
\* of the asset and storage its dest may be (syncCompanions, Flush, sweepCompanions).
THEOREM TypeCorrect == Spec => []TypeOK
<1>1. Inv => TypeOK
  BY DEF Inv
<1> QED BY <1>1, InvInit, InvStep, PTL DEF Spec

-----------------------------------------------------------------------------
(* One command at a time: what an archive and a flush leave behind.        *)

\* What is on the spool can be read.
LEMMA SpoolReads ==
  ASSUME NEW c \in Comps
  PROVE  Readable(c, Spool) <=> disk[c][Spool] # 0
BY Locations DEF Readable, Mounted

\* Before the first command the invariant of commands holds.
LEMMA CommandInit == Init => CommandInv
<1> SUFFICES ASSUME Init PROVE CommandInv
  OBVIOUS
<1>1. \A p \in Procs : proc[p] = Idle
  BY DEF Init
<1>2. \A p \in Procs : FlushOK(proc[p]) /\ ArchiveOK(proc[p])
  BY <1>1 DEF FlushOK, ArchiveOK, Idle
<1> QED BY <1>2, InvInit DEF CommandInv

\* Steps of syncCompanions.
LEMMA CommandSync ==
  ASSUME CommandInv, NEW p \in Procs,
         \/ Scan(p) \/ (\E d \in Locs : CopyOriginal(p, d) \/ Resync(p, d))
         \/ (\E c \in Comps : SyncFile(p, c) \/ SyncFails(p, c))
         \/ SyncRow(p) \/ SyncEnd(p) \/ Relink(p)
  PROVE  FlushOK(proc[p])' /\ ArchiveOK(proc[p])'
<1>0. /\ Inv /\ TypeOK /\ proc \in [Procs -> ProcState]
      /\ disk \in [Comps -> [Locs -> Version]] /\ rows \in [Comps -> SUBSET Locs]
  BY Parts DEF CommandInv
<1>t. proc[p] \in ProcState /\ ProcOK(proc[p]) /\ FlushOK(proc[p]) /\ ArchiveOK(proc[p])
  BY <1>0 DEF CommandInv, Inv
<1>c. Sidecars \subseteq Comps
  BY DEF Sidecars
<1>i. ASSUME proc'[p].pc \notin {"sync", "row", "secured", "remove"}
      PROVE  FlushOK(proc[p])' /\ ArchiveOK(proc[p])'
  BY <1>i DEF FlushOK, ArchiveOK
<1>s. ASSUME NEW d \in Locs, NEW b \in BOOLEAN, SyncTo(p, d, b), UNCHANGED <<disk, rows>>
      PROVE  FlushOK(proc[p])' /\ ArchiveOK(proc[p])'
  <2> DEFINE f == [c \in Comps |-> Best(c, {d})]
  <2>1. proc'[p].pc = "sync" /\ proc'[p].dest = d /\ proc'[p].from = f
    BY <1>0, <1>s DEF SyncTo, Set, Idle
  <2>2. \A c \in Sidecars : d \in NASes /\ Spool \in rows[c] => f[c] = Spool
    BY <1>0, <1>c, BestType, Locations
  <2> HIDE DEF f
  <2>3. FlushOK(proc[p])'
    BY <2>1 DEF FlushOK
  <2>4. ArchiveOK(proc[p])'
    BY <1>s, <2>1, <2>2, Locations DEF ArchiveOK
  <2> QED BY <2>3, <2>4
<1>1. CASE Scan(p)
  BY <1>1, <1>i DEF Scan
<1>2. ASSUME NEW d \in Locs, CopyOriginal(p, d) PROVE FlushOK(proc[p])' /\ ArchiveOK(proc[p])'
  BY <1>2, <1>s DEF CopyOriginal
<1>3. ASSUME NEW d \in Locs, Resync(p, d) PROVE FlushOK(proc[p])' /\ ArchiveOK(proc[p])'
  BY <1>3, <1>s DEF Resync
<1>4. ASSUME NEW c \in Comps, SyncFile(p, c) PROVE FlushOK(proc[p])' /\ ArchiveOK(proc[p])'
  <2> DEFINE s == proc[p].from[c]
             d == proc[p].dest
  <2>1. proc[p].pc = "sync" /\ s \in Locs /\ d \in Locs /\ rows' = rows
    BY <1>t, <1>4 DEF SyncFile, ProcState, ProcOK, Storage
  <2>2. CASE Readable(c, s) /\ Replaces(c, s, d)
    <3>1. Set(p, [proc[p] EXCEPT !.pc = "row", !.comp = c]) /\ Write(c, d, disk[c][s])
      BY <1>4, <2>2 DEF SyncFile
    <3>2. /\ proc'[p].pc = "row" /\ proc'[p].comp = c /\ proc'[p].dest = d
          /\ proc'[p].from = proc[p].from /\ proc'[p].clean = proc[p].clean
      BY <1>0, <1>t, <3>1 DEF Set, ProcState
    <3>3. /\ disk'[c][d] = disk[c][s]
          /\ \A k \in Comps, l \in Locs : (k # c \/ l # d) => disk'[k][l] = disk[k][l]
      BY <1>0, <2>1, <3>1 DEF Write
    <3>4. FlushOK(proc[p])'
      BY <3>2 DEF FlushOK
    <3>5. ArchiveOK(proc[p])'
      <4> SUFFICES ASSUME proc[p].clean, d \in NASes, NEW k \in Sidecars,
                          Spool \in rows[k], disk'[k][Spool] # 0
                   PROVE  /\ proc[p].from[k] \in {Spool, None}
                          /\ proc[p].from[k] = None \/ k = c => disk'[k][d] = disk'[k][Spool]
        BY <2>1, <3>2 DEF ArchiveOK
      <4>1. disk'[k][Spool] = disk[k][Spool]
        BY <1>c, <3>3, Locations
      <4>2. /\ proc[p].from[k] \in {Spool, None}
            /\ proc[p].from[k] = None => disk[k][d] = disk[k][Spool]
        BY <1>t, <2>1, <4>1 DEF ArchiveOK
      <4>3. k = c => disk'[k][d] = disk'[k][Spool]
        BY <2>1, <3>3, <4>1, <4>2, Locations
      <4>4. k # c => disk'[k][d] = disk[k][d]
        BY <1>c, <2>1, <3>3
      <4> QED BY <4>1, <4>2, <4>3, <4>4
    <3> QED BY <3>4, <3>5
  <2>3. CASE ~(Readable(c, s) /\ Replaces(c, s, d))
    <3>1. Set(p, NextComp(p, c)) /\ disk' = disk
      BY <1>4, <2>3 DEF SyncFile
    <3>2. /\ proc'[p].pc = "sync" /\ proc'[p].dest = d
          /\ proc'[p].from = [proc[p].from EXCEPT ![c] = None]
          /\ proc'[p].clean = proc[p].clean
      BY <1>0, <1>t, <3>1 DEF Set, NextComp, ProcState
    <3>3. FlushOK(proc[p])'
      BY <3>2 DEF FlushOK
    <3>4. \A k \in Comps : proc'[p].from[k] = IF k = c THEN None ELSE proc[p].from[k]
      BY <1>t, <3>2 DEF ProcState
    <3>5. ArchiveOK(proc[p])'
      <4> SUFFICES ASSUME proc[p].clean, d \in NASes, NEW k \in Sidecars,
                          Spool \in rows[k], disk[k][Spool] # 0
                   PROVE  /\ proc'[p].from[k] \in {Spool, None}
                          /\ proc'[p].from[k] = None => disk[k][d] = disk[k][Spool]
        BY <2>1, <3>1, <3>2 DEF ArchiveOK
      <4>2. /\ proc[p].from[k] \in {Spool, None}
            /\ proc[p].from[k] = None => disk[k][d] = disk[k][Spool]
        BY <1>t, <2>1 DEF ArchiveOK
      <4>3. k = c => disk[k][d] = disk[k][Spool]
        BY <2>1, <2>3, <4>2, SpoolReads, Locations DEF Replaces, Sidecars
      <4> QED BY <1>c, <3>4, <4>2, <4>3
    <3> QED BY <3>3, <3>5
  <2> QED BY <2>2, <2>3
<1>5. ASSUME NEW c \in Comps, SyncFails(p, c) PROVE FlushOK(proc[p])' /\ ArchiveOK(proc[p])'
  <2>1. Set(p, [NextComp(p, c) EXCEPT !.clean = FALSE])
    BY <1>5 DEF SyncFails
  <2>2. proc'[p].pc = "sync" /\ proc'[p].clean = FALSE
    BY <1>0, <1>t, <2>1 DEF Set, NextComp, ProcState
  <2> QED BY <2>2 DEF FlushOK, ArchiveOK
<1>6. CASE SyncRow(p)
  <2> DEFINE c == proc[p].comp
             d == proc[p].dest
  <2>1. c \in Comps /\ d \in Locs /\ proc[p].pc = "row" /\ disk' = disk
    BY <1>t, <1>6 DEF SyncRow, ProcOK, Storage
  <2>2. Set(p, NextComp(p, c)) /\ Record(c, d)
    BY <1>6 DEF SyncRow
  <2>3. /\ proc'[p].pc = "sync" /\ proc'[p].dest = d
        /\ proc'[p].from = [proc[p].from EXCEPT ![c] = None]
        /\ proc'[p].clean = proc[p].clean
    BY <1>0, <1>t, <2>2 DEF Set, NextComp, ProcState
  <2>4. FlushOK(proc[p])'
    BY <2>3 DEF FlushOK
  <2>5. \A k \in Comps : proc'[p].from[k] = IF k = c THEN None ELSE proc[p].from[k]
    BY <1>t, <2>3 DEF ProcState
  <2>6. \A k \in Comps : d \in NASes /\ Spool \in rows'[k] => Spool \in rows[k]
    BY <1>0, <2>1, <2>2, Locations DEF Record
  <2>7. ArchiveOK(proc[p])'
    <3> SUFFICES ASSUME proc[p].clean, d \in NASes, NEW k \in Sidecars,
                        Spool \in rows'[k], disk[k][Spool] # 0
                 PROVE  /\ proc'[p].from[k] \in {Spool, None}
                        /\ proc'[p].from[k] = None => disk[k][d] = disk[k][Spool]
      BY <2>1, <2>3 DEF ArchiveOK
    <3>1. Spool \in rows[k]
      BY <1>c, <2>6
    <3>2. /\ proc[p].from[k] \in {Spool, None}
          /\ proc[p].from[k] = None \/ k = c => disk[k][d] = disk[k][Spool]
      BY <1>t, <2>1, <3>1 DEF ArchiveOK
    <3> QED BY <1>c, <2>5, <3>2
  <2> QED BY <2>4, <2>7
<1>7. CASE SyncEnd(p)
  <2>1. proc'[p].pc \in {"relink", "idle"}
    BY <1>0, <1>t, <1>7 DEF SyncEnd, To, Set, Idle, ProcState
  <2> QED BY <1>i, <2>1
<1>8. CASE Relink(p)
  <2>1. proc'[p].pc = "idle"
    BY <1>0, <1>8 DEF Relink, Set, Idle
  <2> QED BY <1>i, <2>1
<1> QED BY <1>1, <1>2, <1>3, <1>4, <1>5, <1>6, <1>7, <1>8

\* Steps of Flush.
LEMMA CommandFlush ==
  ASSUME CommandInv, NEW p \in Procs,
         \/ Flush(p) \/ (\E c \in Comps, n \in NASes : FlushSecure(p, c, n))
         \/ FlushRow(p) \/ FlushRemove(p) \/ FlushForget(p)
         \/ (\E c \in Comps : FlushKeep(p, c)) \/ FlushEnd(p)
  PROVE  FlushOK(proc[p])' /\ ArchiveOK(proc[p])'
<1>0. /\ Inv /\ TypeOK /\ proc \in [Procs -> ProcState]
      /\ disk \in [Comps -> [Locs -> Version]] /\ rows \in [Comps -> SUBSET Locs]
  BY Parts DEF CommandInv
<1>t. proc[p] \in ProcState /\ ProcOK(proc[p]) /\ FlushOK(proc[p])
  BY <1>0 DEF CommandInv, Inv
<1>i. ASSUME proc'[p].pc \notin {"sync", "row", "secured", "remove"}
      PROVE  FlushOK(proc[p])' /\ ArchiveOK(proc[p])'
  BY <1>i DEF FlushOK, ArchiveOK
<1>1. CASE Flush(p)
  <2>1. proc'[p].pc = "drop"
    BY <1>0, <1>1 DEF Flush, Set, Idle
  <2> QED BY <1>i, <2>1
<1>2. ASSUME NEW c \in Comps, NEW n \in NASes, FlushSecure(p, c, n)
      PROVE  FlushOK(proc[p])' /\ ArchiveOK(proc[p])'
  <2> DEFINE v == IF Replaces(c, Spool, n) THEN disk[c][Spool] ELSE disk[c][n]
  <2>1. /\ Set(p, [proc[p] EXCEPT !.pc = "secured", !.dest = n, !.comp = c])
        /\ Write(c, n, v)
    BY <1>2 DEF FlushSecure
  <2>2. proc'[p].pc = "secured" /\ proc'[p].dest = n /\ proc'[p].comp = c
    BY <1>0, <1>t, <2>1 DEF Set, ProcState
  <2>3. c \in Sidecars => v = disk[c][Spool]
    BY DEF Replaces, Sidecars
  <2> HIDE DEF v
  <2>4. disk'[c][n] = v /\ disk'[c][Spool] = disk[c][Spool]
    BY <1>0, <2>1, Locations DEF Write
  <2> QED BY <2>2, <2>3, <2>4 DEF FlushOK, ArchiveOK
<1>3. CASE FlushRow(p)
  <2>1. To(p, "remove") /\ Record(proc[p].comp, proc[p].dest) /\ disk' = disk
    BY <1>3 DEF FlushRow
  <2>2. proc[p].comp \in Comps /\ proc[p].pc = "secured"
    BY <1>t, <1>3 DEF ProcOK, FlushRow
  <2>3. /\ proc'[p].pc = "remove" /\ proc'[p].comp = proc[p].comp
        /\ proc'[p].dest = proc[p].dest
    BY <1>0, <1>t, <2>1 DEF To, ProcState
  <2>4. proc[p].dest \in rows'[proc[p].comp]
    BY <1>0, <2>1, <2>2 DEF Record
  <2> QED BY <1>t, <2>1, <2>2, <2>3, <2>4 DEF FlushOK, ArchiveOK
<1>4. CASE FlushRemove(p)
  <2>1. proc'[p].pc = "forget"
    BY <1>0, <1>t, <1>4 DEF FlushRemove, To, ProcState
  <2> QED BY <1>i, <2>1
<1>5. CASE FlushForget(p)
  <2>1. proc'[p].pc = "drop"
    BY <1>0, <1>t, <1>5 DEF FlushForget, Set, ProcState
  <2> QED BY <1>i, <2>1
<1>6. ASSUME NEW c \in Comps, FlushKeep(p, c)
      PROVE  FlushOK(proc[p])' /\ ArchiveOK(proc[p])'
  <2>1. proc'[p].pc = "drop"
    BY <1>0, <1>t, <1>6 DEF FlushKeep, Set, ProcState
  <2> QED BY <1>i, <2>1
<1>7. CASE FlushEnd(p)
  <2>1. proc'[p].pc = "sweep"
    BY <1>0, <1>7 DEF FlushEnd, Set, Idle
  <2> QED BY <1>i, <2>1
<1> QED BY <1>1, <1>2, <1>3, <1>4, <1>5, <1>6, <1>7

\* Steps of Reconcile, and commands that die.
LEMMA CommandSweep ==
  ASSUME CommandInv, NEW p \in Procs,
         \/ ReconcileBegin(p) \/ (\E c \in Comps : Sweep(p, c))
         \/ SweepRemove(p) \/ SweepRow(p) \/ SweepEnd(p) \/ Crash(p)
  PROVE  FlushOK(proc[p])' /\ ArchiveOK(proc[p])'
<1>0. Inv /\ proc \in [Procs -> ProcState] /\ proc[p] \in ProcState
  BY Parts DEF CommandInv
<1>1. CASE ReconcileBegin(p)
  <2>1. proc'[p].pc = "sweep"
    BY <1>0, <1>1 DEF ReconcileBegin, Set, Idle
  <2> QED BY <2>1 DEF FlushOK, ArchiveOK
<1>2. ASSUME NEW c \in Comps, Sweep(p, c)
      PROVE  FlushOK(proc[p])' /\ ArchiveOK(proc[p])'
  <2>1. proc'[p].pc \in {"swept", "sweptrow"}
    BY <1>0, <1>2 DEF Sweep, Set, ProcState
  <2> QED BY <2>1 DEF FlushOK, ArchiveOK
<1>3. CASE SweepRemove(p)
  <2>1. proc'[p].pc = "sweptrow"
    BY <1>0, <1>3 DEF SweepRemove, To, ProcState
  <2> QED BY <2>1 DEF FlushOK, ArchiveOK
<1>4. CASE SweepRow(p)
  <2>1. proc'[p].pc = "sweep"
    BY <1>0, <1>4 DEF SweepRow, To, ProcState
  <2> QED BY <2>1 DEF FlushOK, ArchiveOK
<1>5. CASE SweepEnd(p)
  <2>1. proc'[p].pc \in {"relink", "idle"}
    BY <1>0, <1>5 DEF SweepEnd, To, Set, Idle, ProcState
  <2> QED BY <2>1 DEF FlushOK, ArchiveOK
<1>6. CASE Crash(p)
  <2>1. proc'[p].pc = "idle"
    BY <1>0, <1>6 DEF Crash, Set, Idle
  <2> QED BY <2>1 DEF FlushOK, ArchiveOK
<1> QED BY <1>1, <1>2, <1>3, <1>4, <1>5, <1>6

\* An edit leaves an archive under way unclean, and comes to no flush.
LEMMA CommandEdit ==
  ASSUME CommandInv, NEW p \in Procs,
         (\E c \in Comps : EditThroughLink(c) \/ SaveInTree(c)) \/ Eject \/ Insert
  PROVE  FlushOK(proc[p])' /\ ArchiveOK(proc[p])'
<1>0. Inv /\ proc \in [Procs -> ProcState] /\ proc[p] \in ProcState
      /\ FlushOK(proc[p]) /\ ArchiveOK(proc[p])
  BY Parts DEF CommandInv
<1>1. CASE \E c \in Comps : EditThroughLink(c) \/ SaveInTree(c)
  <2>1. Quiet /\ Dirty
    BY <1>1 DEF EditThroughLink, SaveInTree, MayEdit
  <2>2. proc'[p] = [proc[p] EXCEPT !.clean = (@ /\ proc[p].pc = "idle")]
    BY <2>1 DEF Dirty
  <2>3. proc'[p].pc = proc[p].pc /\ (proc'[p].clean => proc[p].pc = "idle")
    BY <1>0, <2>2 DEF ProcState
  <2>4. proc'[p].pc \in {"idle", "sync", "row", "relink"}
    BY <2>1, <2>3 DEF Quiet
  <2>5. FlushOK(proc[p])'
    BY <2>4 DEF FlushOK
  <2>6. ArchiveOK(proc[p])'
    BY <2>3 DEF ArchiveOK
  <2> QED BY <2>5, <2>6
<1>2. CASE Eject \/ Insert
  <2>1. UNCHANGED <<disk, rows, proc>>
    BY <1>2 DEF Eject, Insert
  <2> QED BY <1>0, <2>1 DEF FlushOK, ArchiveOK
<1> QED BY <1>1, <1>2

\* One command at a time: no step breaks what a flush and an archive rest on.
LEMMA CommandInvStep ==
  ASSUME OneCommand, CommandInv, [Next]_vars
  PROVE  CommandInv'
<1>1. Inv'
  BY InvStep DEF CommandInv
<1>2. ASSUME NEW p \in Procs PROVE FlushOK(proc[p])' /\ ArchiveOK(proc[p])'
  <2>1. CASE UNCHANGED vars
    <3>1. FlushOK(proc[p]) /\ ArchiveOK(proc[p])
      BY DEF CommandInv
    <3> QED BY <2>1, <3>1 DEF vars, FlushOK, ArchiveOK
  <2>2. CASE \E q \in Procs : CommandStep(q)
    <3>1. CommandStep(p)
      BY <2>2 DEF OneCommand
    <3> QED BY <3>1, CommandSync, CommandFlush, CommandSweep DEF CommandStep
  <2>3. CASE (\E c \in Comps : EditThroughLink(c) \/ SaveInTree(c)) \/ Eject \/ Insert
    BY <2>3, CommandEdit
  <2> QED BY <2>1, <2>2, <2>3 DEF Next
<1> QED BY <1>1, <1>2 DEF CommandInv

\* An archive that gets to its end with no edit and no failed write in between
\* leaves the NAS with the sidecar the spool has: whatever crashed before it, with
\* any number of NASes, as long as no other command comes to the asset.
THEOREM ArchiveIsCurrent ==
  ASSUME OneCommand
  PROVE  Spec => []ArchiveKeepsNASCurrent
<1>1. CommandInv => ArchiveKeepsNASCurrent
  <2> SUFFICES ASSUME CommandInv, NEW p \in Procs, Synced(p), proc[p].clean,
                      proc[p].dest \in NASes, NEW c \in Sidecars,
                      Spool \in rows[c], disk[c][Spool] # 0
               PROVE  disk[c][proc[p].dest] = disk[c][Spool]
    BY DEF ArchiveKeepsNASCurrent
  <2>1. ArchiveOK(proc[p])
    BY DEF CommandInv
  <2>2. proc[p].pc = "sync" /\ proc[p].from[c] = None
    BY DEF Synced, Sidecars
  <2> QED BY <2>1, <2>2 DEF ArchiveOK
<1> QED BY <1>1, CommandInit, CommandInvStep, PTL DEF Spec

\* The versions of a companion that a step leaves alone, or replaces by a version,
\* are not removed from the spool.
LEMMA WriteRemoves ==
  ASSUME TypeOK, NEW k \in Comps, NEW l \in Locs, NEW v, Write(k, l, v), NEW c \in Comps,
         disk[c][Spool] # 0, disk'[c][Spool] = 0
  PROVE  k = c /\ l = Spool /\ v = 0
BY Locations DEF TypeOK, Write

\* A flush that removes a sidecar from the spool has the version it removes on a
\* NAS, row and all, also after crashes of earlier ones (dropSpoolCompanions,
\* companionSafeOnNAS); no other step removes one.
THEOREM FlushIsSafe ==
  ASSUME OneCommand
  PROVE  Spec => FlushSecuresSidecar
<1> DEFINE Secured == \A c \in Sidecars :
       disk[c][Spool] # 0 /\ disk'[c][Spool] = 0 =>
         \E n \in NASes : n \in rows[c] /\ disk[c][n] = disk[c][Spool]
<1>1. CommandInv /\ [Next]_vars => [Secured]_vars
  <2> SUFFICES ASSUME CommandInv, Next, NEW c \in Sidecars,
                      disk[c][Spool] # 0, disk'[c][Spool] = 0
               PROVE  \E n \in NASes : n \in rows[c] /\ disk[c][n] = disk[c][Spool]
    OBVIOUS
  <2>0. /\ TypeOK /\ proc \in [Procs -> ProcState] /\ \A p \in Procs : ProcOK(proc[p])
        /\ newest \in [Comps -> Version] /\ c \in Comps
    BY Parts DEF CommandInv, Sidecars
  <2>1. disk' # disk
    OBVIOUS
  <2>2. ASSUME NEW k \in Comps, EditThroughLink(k) PROVE FALSE
    <3>1. Write(k, link[k], newest'[k]) /\ link[k] \in Locs /\ newest'[k] # 0
      BY <2>0, <2>2, CompanionsAssumption DEF EditThroughLink, TypeOK, Version
    <3> QED BY <2>0, <3>1, WriteRemoves
  <2>3. ASSUME NEW p \in Procs, CommandStep(p)
        PROVE  \E n \in NASes : n \in rows[c] /\ disk[c][n] = disk[c][Spool]
    <3>0. proc[p] \in ProcState /\ ProcOK(proc[p]) /\ FlushOK(proc[p])
      BY <2>0 DEF CommandInv
    <3>1. ASSUME NEW k \in Comps, SyncFile(p, k) PROVE FALSE
      <4> DEFINE s == proc[p].from[k]
                 d == proc[p].dest
      <4>1. d \in Locs
        BY <3>0, <3>1 DEF SyncFile, ProcOK, Storage
      <4>2. Readable(k, s) /\ Write(k, d, disk[k][s])
        BY <2>1, <3>1 DEF SyncFile
      <4>3. disk[k][s] # 0
        BY <4>2 DEF Readable
      <4> QED BY <2>0, <4>1, <4>2, <4>3, WriteRemoves
    <3>2. ASSUME NEW k \in Comps, NEW n \in NASes, FlushSecure(p, k, n) PROVE FALSE
      <4> DEFINE v == IF Replaces(k, Spool, n) THEN disk[k][Spool] ELSE disk[k][n]
      <4>1. Write(k, n, v)
        BY <3>2 DEF FlushSecure
      <4> HIDE DEF v
      <4> QED BY <2>0, <4>1, WriteRemoves, Locations
    <3>3. ASSUME NEW k \in Comps, Sweep(p, k) PROVE FALSE
      <4> DEFINE d == BestIn(copies \ {Card})
      <4>1. d # None /\ Write(k, d, tree[k]) /\ tree[k] # 0
        BY <3>3 DEF Sweep
      <4>2. d \in Locs
        BY <2>0, <4>1, TargetType DEF Storage
      <4> HIDE DEF d
      <4> QED BY <2>0, <4>1, <4>2, WriteRemoves
    <3>4. CASE FlushRemove(p)
      <4>1. Write(proc[p].comp, Spool, 0) /\ proc[p].pc = "remove" /\ proc[p].comp \in Comps
        BY <3>0, <3>4 DEF FlushRemove, ProcOK
      <4>2. proc[p].comp = c
        BY <2>0, <4>1, WriteRemoves, Locations
      <4>3. proc[p].dest \in NASes
        BY <3>0, <4>1 DEF ProcOK
      <4> QED BY <3>0, <4>1, <4>2, <4>3 DEF FlushOK
    <3>5. CASE UNCHANGED disk
      BY <2>1, <3>5
    <3> QED
      BY <2>3, <3>1, <3>2, <3>3, <3>4, <3>5
         DEF CommandStep, Scan, CopyOriginal, Resync, SyncFails, SyncRow, SyncEnd, Relink,
             Flush, FlushRow, FlushForget, FlushKeep, FlushEnd, ReconcileBegin,
             SweepRemove, SweepRow, SweepEnd, Crash
  <2> QED BY <2>1, <2>2, <2>3 DEF Next, SaveInTree, Eject, Insert
<1> QED BY <1>1, CommandInit, CommandInvStep, PTL DEF Spec, FlushSecuresSidecar
=============================================================================
