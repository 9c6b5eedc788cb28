---------------------------- MODULE TiersProofs ----------------------------
(***************************************************************************)
(* Theorems about Tiers for every number of assets, locations and          *)
(* processes.  Shape says which fields of a process record mean something  *)
(* at which pc; Safety below is the inductive invariant.                   *)
(***************************************************************************)
EXTENDS Tiers, TLAPS

MoverShape ==
  \A p \in Movers :
    /\ mover[p].pc # "idle" => mover[p].asset \in Assets
    /\ mover[p].pc \in {"copy", "install", "record", "link", "set"} =>
         mover[p].dest \in Spools \cup NASes

FlusherShape ==
  \A f \in Flushers :
    /\ flusher[f].pc \in {"scan", "remove", "delete"} => flusher[f].spool \in Spools
    /\ flusher[f].pc \in {"remove", "delete"} => flusher[f].asset \in Assets

VerifierShape ==
  \A v \in Verifiers :
    verifier[v].pc \in {"check", "apply"} =>
      verifier[v].asset \in Assets /\ verifier[v].loc \in Locs \ Cards

Shape == MoverShape /\ FlusherShape /\ VerifierShape

\* A chosen copy is at a location (linktree.Choose).
LEMMA BestIsLoc ==
  ASSUME NEW a \in Assets, TypeOK
  PROVE  /\ Best(a) \subseteq Usable(a)
         /\ Usable(a) \subseteq Locs
         /\ \A l \in Usable(a) : row[a][l] = "complete"
BY DEF Best, Usable, TypeOK

\* Relinking leaves every asset with a link (linktree.Reconcile).
LEMMA RelinkedType ==
  ASSUME TypeOK, NEW w \in [Assets -> Locs \cup {None}]
  PROVE  Relinked(w) \in [Assets -> Locs]
BY TiersAssumption DEF Relinked, TypeOK

\* The state after ScanSource is well typed.
LEMMA TypeInit == Init => TypeOK /\ Shape
<1> SUFFICES ASSUME Init PROVE TypeOK /\ Shape
  OBVIOUS
<1> USE TiersAssumption DEF Init, Locs
<1>1. NoWant \in [Assets -> Locs \cup {None}]
  BY DEF NoWant
<1>2. IdleMover \in MoverState
  BY DEF IdleMover, MoverState, File
<1>3. IdleFlusher \in FlusherState
  BY <1>1 DEF IdleFlusher, FlusherState
<1>4. IdleVerifier \in VerifierState
  BY <1>1 DEF IdleVerifier, VerifierState
<1>5. CardOf \in [Assets -> Locs]
  OBVIOUS
<1>6. TypeOK
  BY <1>2, <1>3, <1>4, <1>5 DEF TypeOK, RowState, File, Version
<1>7. Shape
  BY DEF Shape, MoverShape, FlusherShape, VerifierShape,
         IdleMover, IdleFlusher, IdleVerifier
<1> QED BY <1>6, <1>7

\* Spool and Archive steps keep the types.
LEMMA TypeMover ==
  ASSUME TypeOK, Shape, NEW p \in Movers, MoverStep(p)
  PROVE  TypeOK' /\ Shape'
<1> USE DEF TypeOK, Shape
<1>1. IdleMover \in MoverState
  BY DEF IdleMover, MoverState, File
<1>2. ASSUME NEW a \in Assets, NEW dests \in SUBSET (Spools \cup NASes),
             Start(p, a, dests)
      PROVE  TypeOK' /\ Shape'
  <2>1. PICK src \in Best(a) :
          mover' = [mover EXCEPT ![p] =
            [IdleMover EXCEPT !.pc = "ready", !.asset = a,
                              !.src = src, !.todo = dests]]
    BY <1>2 DEF Start
  <2>2. src \in Locs
    BY BestIsLoc
  <2>3. [IdleMover EXCEPT !.pc = "ready", !.asset = a,
                          !.src = src, !.todo = dests] \in MoverState
    BY <2>2 DEF IdleMover, MoverState, File
  <2>4. lock' \in [Assets -> Movers \cup {None}]
    BY <1>2 DEF Start, Lock
  <2>5. mover' \in [Movers -> MoverState]
    BY <2>1, <2>3
  <2>6. MoverShape'
    BY <2>1 DEF MoverShape, IdleMover
  <2> QED BY <1>2, <2>4, <2>5, <2>6 DEF Start, FlusherShape, VerifierShape
<1>3. CASE \E a \in Assets, s \in Spools : SpoolBegin(p, a, s)
  BY <1>2, <1>3 DEF SpoolBegin
<1>4. CASE \E a \in Assets : ArchiveBegin(p, a)
  BY <1>2, <1>4 DEF ArchiveBegin, LackingNAS
<1>5. ASSUME mover[p].pc # "idle", Unlock(p),
             UNCHANGED <<row, disk, mounted, pinned, link, safe,
                         flusher, verifier, damaged>>
      PROVE  TypeOK' /\ Shape'
  <2>1. mover' \in [Movers -> MoverState] /\ lock' \in [Assets -> Movers \cup {None}]
    BY <1>1, <1>5 DEF Unlock
  <2>2. MoverShape'
    BY <1>5 DEF Unlock, MoverShape, IdleMover
  <2> QED BY <1>5, <2>1, <2>2 DEF FlusherShape, VerifierShape
<1>6. CASE \E d \in Spools \cup NASes : PutPartial(p, d)
  <2>1. PICK d \in Spools \cup NASes : PutPartial(p, d)
    BY <1>6
  <2>2. mover' \in [Movers -> MoverState]
    <3>1. [mover[p] EXCEPT !.pc = "copy", !.dest = d] \in MoverState
      BY ZenonT(60) DEF MoverState, Locs
    <3> QED BY <2>1, <3>1 DEF PutPartial
  <2>3. row' \in [Assets -> [Locs -> RowState]]
    BY <2>1 DEF PutPartial, RowState
  <2>4. MoverShape'
    BY <2>1 DEF PutPartial, MoverShape, MoverState
  <2> QED BY <2>1, <2>2, <2>3, <2>4 DEF PutPartial, FlusherShape, VerifierShape
<1>7. CASE CopyOpen(p)
  <2>0. mover[p].asset \in Assets
    BY <1>7 DEF CopyOpen, MoverShape
  <2>1. disk[mover[p].asset][mover[p].src] \in File
    <3>1. mover[p].src \in Locs
      BY <1>7 DEF CopyOpen, SourceOpens, OnDisk
    <3> QED BY <2>0, <3>1
  <2>2. mover' \in [Movers -> MoverState]
    <3>1. [mover[p] EXCEPT !.pc = "install",
                           !.data = disk[mover[p].asset][mover[p].src]]
            \in MoverState
      BY <2>1, ZenonT(60) DEF MoverState
    <3>2. [mover[p] EXCEPT !.pc = "record"] \in MoverState
      BY ZenonT(60) DEF MoverState
    <3> QED BY <1>7, <3>1, <3>2 DEF CopyOpen
  <2>3. MoverShape'
    <3>1. PICK x \in File, y \in {"install", "record"} :
            mover' = [mover EXCEPT ![p] = [@ EXCEPT !.pc = y, !.data = x]]
      <4>1. [mover[p] EXCEPT !.pc = "record"]
              = [mover[p] EXCEPT !.pc = "record", !.data = mover[p].data]
        BY DEF MoverState
      <4> QED BY <1>7, <2>1, <4>1 DEF CopyOpen, MoverState
    <3>2. mover[p].dest \in Spools \cup NASes
      BY <1>7 DEF CopyOpen, MoverShape
    <3> QED BY <2>0, <3>1, <3>2 DEF MoverShape, MoverState
  <2>4. UNCHANGED <<row, disk, mounted, pinned, link, safe, lock,
                    flusher, verifier, damaged>>
    BY <1>7 DEF CopyOpen
  <2> QED BY <2>2, <2>3, <2>4 DEF FlusherShape, VerifierShape
<1>8. CASE CopyFails(p)
  BY <1>5, <1>8 DEF CopyFails
<1>9. CASE Install(p)
  <2>1. mover' \in [Movers -> MoverState]
    <3>1. [mover[p] EXCEPT !.pc = "record", !.data = "absent"] \in MoverState
      BY ZenonT(60) DEF MoverState, File
    <3> QED BY <1>9, <3>1 DEF Install
  <2>2. disk' \in [Assets -> [Locs -> File]]
    BY <1>9 DEF Install, MoverState
  <2>3. MoverShape'
    BY <1>9 DEF Install, MoverShape, MoverState
  <2> QED BY <1>9, <2>1, <2>2, <2>3 DEF Install, FlusherShape, VerifierShape
<1>10. CASE InstallFails(p)
  BY <1>5, <1>10 DEF InstallFails
<1>11. CASE Record(p)
  <2>1. mover' \in [Movers -> MoverState]
    <3>1. [mover[p] EXCEPT !.pc = "link"] \in MoverState
      BY DEF MoverState
    <3> QED BY <1>11, <3>1 DEF Record
  <2>2. row' \in [Assets -> [Locs -> RowState]]
    BY <1>11 DEF Record, RowState
  <2>3. MoverShape'
    BY <1>11 DEF Record, MoverShape, MoverState
  <2> QED BY <1>11, <2>1, <2>2, <2>3 DEF Record, FlusherShape, VerifierShape
<1>12. CASE LinkRead(p)
  <2>0. mover[p].asset \in Assets
    BY <1>12 DEF LinkRead, MoverShape
  <2>1. PICK t \in Locs \cup {None} :
          mover' = [mover EXCEPT ![p] = [@ EXCEPT !.pc = "set", !.target = t]]
    BY <1>12, <2>0, BestIsLoc DEF LinkRead
  <2>2. mover' \in [Movers -> MoverState]
    <3>1. [mover[p] EXCEPT !.pc = "set", !.target = t] \in MoverState
      BY DEF MoverState
    <3> QED BY <2>1, <3>1
  <2>3. MoverShape'
    BY <1>12, <2>1 DEF LinkRead, MoverShape, MoverState
  <2> QED BY <1>12, <2>2, <2>3 DEF LinkRead, FlusherShape, VerifierShape
<1>13. CASE LinkSet(p)
  <2>0. mover[p].asset \in Assets /\ mover[p] \in MoverState
    BY <1>13 DEF LinkSet, MoverShape
  <2>1. link' \in [Assets -> Locs]
    BY <1>13, <2>0 DEF LinkSet, MoverState
  <2>2. [IdleMover EXCEPT !.pc = "ready", !.asset = mover[p].asset,
                          !.src = mover[p].src,
                          !.todo = mover[p].todo \ {mover[p].dest}] \in MoverState
    BY <2>0 DEF IdleMover, MoverState, File
  <2>3. mover' \in [Movers -> MoverState] /\ lock' \in [Assets -> Movers \cup {None}]
    BY <1>1, <1>13, <2>2 DEF LinkSet, Unlock
  <2>4. MoverShape'
    <3>1. \/ mover' = [mover EXCEPT ![p] = IdleMover]
          \/ mover' = [mover EXCEPT ![p] =
               [IdleMover EXCEPT !.pc = "ready", !.asset = mover[p].asset,
                                 !.src = mover[p].src,
                                 !.todo = mover[p].todo \ {mover[p].dest}]]
      BY <1>13 DEF LinkSet, Unlock
    <3>2. CASE mover' = [mover EXCEPT ![p] = IdleMover]
      BY <3>2 DEF MoverShape, IdleMover
    <3>3. CASE mover' = [mover EXCEPT ![p] =
               [IdleMover EXCEPT !.pc = "ready", !.asset = mover[p].asset,
                                 !.src = mover[p].src,
                                 !.todo = mover[p].todo \ {mover[p].dest}]]
      BY <3>3, <2>0 DEF MoverShape, IdleMover
    <3> QED BY <3>1, <3>2, <3>3
  <2>5. UNCHANGED <<row, disk, mounted, pinned, safe, flusher, verifier, damaged>>
    BY <1>13 DEF LinkSet
  <2> QED BY <2>1, <2>3, <2>4, <2>5 DEF FlusherShape, VerifierShape
<1>14. CASE MoverStops(p)
  BY <1>5, <1>14 DEF MoverStops
<1> QED BY <1>3, <1>4, <1>6, <1>7, <1>8, <1>9, <1>10, <1>11, <1>12, <1>13,
           <1>14 DEF MoverStep

\* Flush steps keep the types.
LEMMA TypeFlusher ==
  ASSUME TypeOK, Shape, NEW f \in Flushers, FlusherStep(f)
  PROVE  TypeOK' /\ Shape'
<1> USE DEF TypeOK, Shape
<1>1. IdleFlusher \in FlusherState
  BY DEF IdleFlusher, FlusherState, NoWant
<1>2. flusher[f] \in FlusherState
  OBVIOUS
<1>3. ASSUME flusher' \in [Flushers -> FlusherState], FlusherShape',
             UNCHANGED <<row, disk, mounted, pinned, link, safe, lock,
                         mover, verifier, damaged>>
      PROVE  TypeOK' /\ Shape'
  BY <1>3 DEF MoverShape, VerifierShape
<1>4. CASE \E s \in Spools : \E list \in SUBSET Flushable(s) : FlushBegin(f, s, list)
  <2>0. PICK s \in Spools : \E list \in SUBSET Flushable(s) : FlushBegin(f, s, list)
    BY <1>4
  <2>1. PICK list \in SUBSET Flushable(s) : FlushBegin(f, s, list)
    BY <2>0
  <2>2. [IdleFlusher EXCEPT !.pc = "scan", !.spool = s, !.list = list]
          \in FlusherState
    BY DEF IdleFlusher, FlusherState, NoWant, Flushable
  <2>3. flusher' \in [Flushers -> FlusherState]
    BY <2>1, <2>2 DEF FlushBegin
  <2>4. FlusherShape'
    BY <2>1 DEF FlushBegin, FlusherShape, IdleFlusher
  <2> QED BY <1>3, <2>1, <2>3, <2>4 DEF FlushBegin
<1>5. CASE \E a \in Assets : FlushPick(f, a)
  <2>1. PICK a \in Assets : FlushPick(f, a)
    BY <1>5
  <2>2. PICK n \in NASes :
          flusher' = [flusher EXCEPT ![f] =
            [@ EXCEPT !.pc = "remove", !.asset = a, !.nas = n]]
    BY <2>1 DEF FlushPick, FlushNAS, NASComplete
  <2>3. [flusher[f] EXCEPT !.pc = "remove", !.asset = a, !.nas = n] \in FlusherState
    BY <1>2 DEF FlusherState
  <2>4. flusher' \in [Flushers -> FlusherState]
    BY <2>2, <2>3
  <2>5. FlusherShape'
    BY <1>2, <2>1, <2>2 DEF FlushPick, FlusherShape, FlusherState
  <2> QED BY <1>3, <2>1, <2>4, <2>5 DEF FlushPick
<1>6. CASE \E a \in Assets : FlushRefuse(f, a)
  <2>1. PICK a \in Assets : FlushRefuse(f, a)
    BY <1>6
  <2>2. [flusher[f] EXCEPT !.list = flusher[f].list \ {a}] \in FlusherState
    BY <1>2 DEF FlusherState
  <2>3. flusher' = [flusher EXCEPT ![f] = [flusher[f] EXCEPT !.list = flusher[f].list \ {a}]]
    BY <2>1 DEF FlushRefuse
  <2>4. FlusherShape'
    BY <1>2, <2>3 DEF FlusherShape, FlusherState
  <2> QED BY <1>3, <2>1, <2>2, <2>3, <2>4 DEF FlushRefuse
<1>7. CASE FlushRemove(f)
  <2>1. [flusher[f] EXCEPT !.pc = "delete"] \in FlusherState
    BY <1>2 DEF FlusherState
  <2>2. flusher' = [flusher EXCEPT ![f] = [flusher[f] EXCEPT !.pc = "delete"]]
    BY <1>7 DEF FlushRemove
  <2>3. FlusherShape'
    BY <1>2, <1>7, <2>2 DEF FlushRemove, FlusherShape, FlusherState
  <2>4. disk' \in [Assets -> [Locs -> File]]
    BY <1>7 DEF FlushRemove, File
  <2> QED BY <1>7, <2>1, <2>2, <2>3, <2>4 DEF FlushRemove, MoverShape, VerifierShape
<1>8. CASE FlushDelete(f)
  <2>1. [flusher[f] EXCEPT !.pc = "scan", !.list = flusher[f].list \ {flusher[f].asset},
                           !.asset = None, !.nas = None, !.did = TRUE] \in FlusherState
    BY <1>2 DEF FlusherState
  <2>2. \/ flusher' = [flusher EXCEPT ![f] = IdleFlusher]
        \/ flusher' = [flusher EXCEPT ![f] =
             [flusher[f] EXCEPT !.pc = "scan", !.list = flusher[f].list \ {flusher[f].asset},
                                !.asset = None, !.nas = None, !.did = TRUE]]
    BY <1>8 DEF FlushDelete
  <2>3. flusher' \in [Flushers -> FlusherState]
    BY <1>1, <2>1, <2>2
  <2>4. FlusherShape'
    BY <1>2, <1>8, <2>2 DEF FlushDelete, FlusherShape, FlusherState, IdleFlusher
  <2>5. row' \in [Assets -> [Locs -> RowState]]
    BY <1>8 DEF FlushDelete, RowState
  <2>6. UNCHANGED <<disk, mounted, pinned, link, safe, lock,
                    mover, verifier, damaged>>
    BY <1>8 DEF FlushDelete
  <2> QED BY <2>3, <2>4, <2>5, <2>6 DEF MoverShape, VerifierShape
<1>9. CASE FlushEnd(f)
  <2>1. [IdleFlusher EXCEPT !.pc = "relink"] \in FlusherState
    BY DEF IdleFlusher, FlusherState, NoWant
  <2>2. flusher' \in [Flushers -> FlusherState]
    BY <1>1, <1>9, <2>1 DEF FlushEnd
  <2>3. FlusherShape'
    BY <1>9 DEF FlushEnd, FlusherShape, IdleFlusher
  <2> QED BY <1>3, <1>9, <2>2, <2>3 DEF FlushEnd
<1>10. CASE FlushRelinkRead(f)
  <2>1. PICK w \in [Assets -> Locs \cup {None}] :
          flusher' = [flusher EXCEPT ![f] = [@ EXCEPT !.pc = "write", !.want = w]]
    BY <1>10 DEF FlushRelinkRead, Wanted
  <2>2. [flusher[f] EXCEPT !.pc = "write", !.want = w] \in FlusherState
    BY <1>2 DEF FlusherState
  <2>3. FlusherShape'
    BY <1>2, <2>1 DEF FlusherShape, FlusherState
  <2> QED BY <1>3, <1>10, <2>1, <2>2, <2>3 DEF FlushRelinkRead
<1>11. CASE FlushRelinkWrite(f)
  <2>1. flusher[f].want \in [Assets -> Locs \cup {None}]
    BY <1>2 DEF FlusherState
  <2>2. link' \in [Assets -> Locs]
    BY <1>11, <2>1, RelinkedType DEF FlushRelinkWrite
  <2>3. FlusherShape'
    BY <1>11 DEF FlushRelinkWrite, FlusherShape, IdleFlusher
  <2> QED BY <1>1, <1>11, <2>2, <2>3 DEF FlushRelinkWrite, MoverShape, VerifierShape
<1>12. CASE FlushStops(f)
  <2>1. FlusherShape'
    BY <1>12 DEF FlushStops, FlusherShape, IdleFlusher
  <2> QED BY <1>1, <1>3, <1>12, <2>1 DEF FlushStops
<1> QED BY <1>4, <1>5, <1>6, <1>7, <1>8, <1>9, <1>10, <1>11, <1>12 DEF FlusherStep

\* Verify steps keep the types.
LEMMA TypeVerifier ==
  ASSUME TypeOK, Shape, NEW v \in Verifiers, VerifierStep(v)
  PROVE  TypeOK' /\ Shape'
<1> USE DEF TypeOK, Shape
<1>1. IdleVerifier \in VerifierState
  BY DEF IdleVerifier, VerifierState, NoWant
<1>2. verifier[v] \in VerifierState
  OBVIOUS
<1>3. ASSUME verifier' \in [Verifiers -> VerifierState], VerifierShape',
             UNCHANGED <<row, disk, mounted, pinned, link, safe, lock,
                         mover, flusher, damaged>>
      PROVE  TypeOK' /\ Shape'
  BY <1>3 DEF MoverShape, FlusherShape
<1>4. CASE \E a \in Assets, l \in Locs : VerifyBegin(v, a, l)
  <2>1. PICK a \in Assets, l \in Locs : VerifyBegin(v, a, l)
    BY <1>4
  <2>2. [IdleVerifier EXCEPT !.pc = "check", !.asset = a, !.loc = l] \in VerifierState
    BY DEF IdleVerifier, VerifierState, NoWant
  <2>3. VerifierShape'
    BY <2>1 DEF VerifyBegin, VerifierShape, IdleVerifier
  <2> QED BY <1>3, <2>1, <2>2, <2>3 DEF VerifyBegin
<1>5. CASE \E full \in BOOLEAN : VerifyCheck(v, full)
  <2>1. PICK full \in BOOLEAN : VerifyCheck(v, full)
    BY <1>5
  <2> DEFINE ok == CheckPasses(verifier[v].asset, verifier[v].loc, full)
  <2>2. ok \in BOOLEAN
    BY DEF CheckPasses
  <2>3. verifier' = [verifier EXCEPT ![v] = [@ EXCEPT !.pc = "apply", !.ok = ok]]
    BY <2>1 DEF VerifyCheck
  <2> HIDE DEF ok
  <2>4. [verifier[v] EXCEPT !.pc = "apply", !.ok = ok] \in VerifierState
    BY <1>2, <2>2 DEF VerifierState
  <2>5. VerifierShape'
    BY <1>2, <2>1, <2>3 DEF VerifyCheck, VerifierShape, VerifierState
  <2> QED BY <1>3, <2>1, <2>3, <2>4, <2>5 DEF VerifyCheck
<1>6. CASE VerifyApply(v)
  <2>1. [IdleVerifier EXCEPT !.pc = "relink"] \in VerifierState
    BY DEF IdleVerifier, VerifierState, NoWant
  <2>2. verifier' \in [Verifiers -> VerifierState]
    BY <1>1, <1>6, <2>1 DEF VerifyApply
  <2>3. VerifierShape'
    BY <1>6 DEF VerifyApply, VerifierShape, IdleVerifier
  <2>4. row' \in [Assets -> [Locs -> RowState]]
    BY <1>6 DEF VerifyApply, RowState
  <2> QED BY <1>6, <2>2, <2>3, <2>4 DEF VerifyApply, MoverShape, FlusherShape
<1>7. CASE VerifyRelinkRead(v)
  <2>1. PICK w \in [Assets -> Locs \cup {None}] :
          verifier' = [verifier EXCEPT ![v] = [@ EXCEPT !.pc = "write", !.want = w]]
    BY <1>7 DEF VerifyRelinkRead, Wanted
  <2>2. [verifier[v] EXCEPT !.pc = "write", !.want = w] \in VerifierState
    BY <1>2 DEF VerifierState
  <2>3. VerifierShape'
    BY <1>2, <2>1 DEF VerifierShape, VerifierState
  <2> QED BY <1>3, <1>7, <2>1, <2>2, <2>3 DEF VerifyRelinkRead
<1>8. CASE VerifyRelinkWrite(v)
  <2>1. verifier[v].want \in [Assets -> Locs \cup {None}]
    BY <1>2 DEF VerifierState
  <2>2. link' \in [Assets -> Locs]
    BY <1>8, <2>1, RelinkedType DEF VerifyRelinkWrite
  <2>3. VerifierShape'
    BY <1>8 DEF VerifyRelinkWrite, VerifierShape, IdleVerifier
  <2> QED BY <1>1, <1>8, <2>2, <2>3 DEF VerifyRelinkWrite, MoverShape, FlusherShape
<1>9. CASE VerifyStops(v)
  <2>1. VerifierShape'
    BY <1>9 DEF VerifyStops, VerifierShape, IdleVerifier
  <2> QED BY <1>1, <1>3, <1>9, <2>1 DEF VerifyStops
<1> QED BY <1>4, <1>5, <1>6, <1>7, <1>8, <1>9 DEF VerifierStep

\* The user's and the world's steps keep the types.
LEMMA TypeWorld ==
  ASSUME TypeOK, Shape, WorldStep
  PROVE  TypeOK' /\ Shape'
<1> USE DEF TypeOK, Shape, MoverShape, FlusherShape, VerifierShape
<1>1. CASE \E a \in Assets : SetPinned(a)
  BY <1>1 DEF SetPinned
<1>2. CASE \E c \in Cards : ReportSafe(c)
  BY <1>2 DEF ReportSafe
<1>3. CASE \E c \in Cards : Format(c)
  <2>1. PICK c \in Cards : Format(c)
    BY <1>3
  <2>2. ASSUME NEW a \in Assets
        PROVE  [disk[a] EXCEPT ![c] = "absent"] \in [Locs -> File]
    BY <2>2 DEF File
  <2>3. disk' \in [Assets -> [Locs -> File]]
    BY <2>1, <2>2 DEF Format
  <2> QED BY <2>1, <2>3 DEF Format
<1>4. CASE \E l \in Locs : Plug(l)
  BY <1>4 DEF Plug
<1>5. CASE \E a \in Assets, l \in Locs : Damage(a, l)
  BY <1>5 DEF Damage, File, Version
<1> QED BY <1>1, <1>2, <1>3, <1>4, <1>5 DEF WorldStep

\* Type correctness of Tiers, and which fields of a process record are set at
\* which step, for any number of assets, volumes and processes.
THEOREM TypeCorrect == Spec => [](TypeOK /\ Shape)
<1>1. TypeOK /\ Shape /\ [Next]_vars => TypeOK' /\ Shape'
  <2> SUFFICES ASSUME TypeOK, Shape, [Next]_vars PROVE TypeOK' /\ Shape'
    OBVIOUS
  <2>1. CASE UNCHANGED vars
    BY <2>1 DEF vars, TypeOK, Shape, MoverShape, FlusherShape, VerifierShape
  <2>2. CASE Next
    BY <2>2, TypeMover, TypeFlusher, TypeVerifier, TypeWorld DEF Next
  <2> QED BY <2>1, <2>2
<1> QED BY <1>1, TypeInit, PTL DEF Spec

-----------------------------------------------------------------------------
(***************************************************************************)
(* Safety.  A process works from what it read earlier, so the invariant    *)
(* says of each such reading why it is still good: the lock keeps the      *)
(* destination of a copy free until the rename, and a file seen on a NAS   *)
(* stays there because nothing removes or replaces it.                     *)
(***************************************************************************)
LockInv ==
  \A p \in Movers : mover[p].pc # "idle" => lock[mover[p].asset] = p

MoverOK(p) ==
  LET m == mover[p] IN
  /\ m.pc = "install" => /\ m.data # "absent"
                         /\ disk[m.asset][m.dest] = "absent"
                         /\ Sparse(m.asset) => m.data = "orig"
  /\ m.pc = "record" /\ m.dest \in NASes => disk[m.asset][m.dest] # "absent"
  /\ m.pc = "set" /\ m.target \in NASes => disk[m.asset][m.target] # "absent"

FlusherOK(f) ==
  /\ flusher[f].pc = "remove" =>
       /\ flusher[f].nas \in NASes
       /\ disk[flusher[f].asset][flusher[f].nas] # "absent"
       /\ Sparse(flusher[f].asset) =>
            disk[flusher[f].asset][flusher[f].nas] = "orig"
  /\ \A a \in Assets : flusher[f].want[a] \in NASes =>
                         disk[a][flusher[f].want[a]] # "absent"

VerifierOK(v) ==
  /\ verifier[v].pc = "apply" /\ verifier[v].ok /\ verifier[v].loc \in NASes =>
       disk[verifier[v].asset][verifier[v].loc] # "absent"
  /\ \A a \in Assets : verifier[v].want[a] \in NASes =>
                         disk[a][verifier[v].want[a]] # "absent"

ProcsOK == /\ \A p \in Movers : MoverOK(p)
           /\ \A f \in Flushers : FlusherOK(f)
           /\ \A v \in Verifiers : VerifierOK(v)

\* With a NAS nobody else writes to, video and audio on it is the original.
NASWhole ==
  Fragile \cap NASes = {} =>
    \A a \in Assets, n \in NASes :
      Sparse(a) /\ disk[a][n] # "absent" => disk[a][n] = "orig"

Safety == /\ TypeOK /\ Shape /\ LockInv /\ ProcsOK
          /\ NASCompleteOnDisk /\ NASLinksResolve /\ NASWhole
          /\ SafeMeansArchived

\* The state after ScanSource is safe.
LEMMA SafetyInit == Init => Safety
<1> SUFFICES ASSUME Init PROVE Safety
  OBVIOUS
<1>1. TypeOK /\ Shape
  BY TypeInit
<1>2. LockInv /\ ProcsOK
  BY TiersAssumption
     DEF Init, LockInv, ProcsOK, MoverOK, FlusherOK, VerifierOK,
         IdleMover, IdleFlusher, IdleVerifier, NoWant, Locs
<1>3. NASCompleteOnDisk /\ NASLinksResolve /\ NASWhole /\ SafeMeansArchived
  BY TiersAssumption
     DEF Init, NASCompleteOnDisk, NASLinksResolve, NASWhole, SafeMeansArchived,
         CardAssets, Locs
<1> QED BY <1>1, <1>2, <1>3 DEF Safety

\* The only steps that touch a file under its final name.
LEMMA DiskChanges ==
  ASSUME [Next]_vars
  PROVE  \/ disk' = disk
         \/ \E p \in Movers : Install(p)
         \/ \E f \in Flushers : FlushRemove(f)
         \/ \E c \in Cards : Format(c)
         \/ \E a \in Assets, l \in Locs : Damage(a, l)
<1>1. CASE UNCHANGED vars
  BY <1>1 DEF vars
<1>2. ASSUME NEW p \in Movers, MoverStep(p)
      PROVE  disk' = disk \/ Install(p)
  BY <1>2 DEF MoverStep, SpoolBegin, ArchiveBegin, Start, PutPartial, CopyOpen,
              CopyFails, InstallFails, Record, LinkRead, LinkSet, MoverStops
<1>3. ASSUME NEW f \in Flushers, FlusherStep(f)
      PROVE  disk' = disk \/ FlushRemove(f)
  BY <1>3 DEF FlusherStep, FlushBegin, FlushPick, FlushRefuse, FlushDelete,
              FlushEnd, FlushRelinkRead, FlushRelinkWrite, FlushStops
<1>4. ASSUME NEW v \in Verifiers, VerifierStep(v)
      PROVE  disk' = disk
  BY <1>4 DEF VerifierStep, VerifyBegin, VerifyCheck, VerifyApply,
              VerifyRelinkRead, VerifyRelinkWrite, VerifyStops
<1>5. CASE WorldStep
  BY <1>5 DEF WorldStep, SetPinned, ReportSafe, Plug
<1> QED BY <1>1, <1>2, <1>3, <1>4, <1>5 DEF Next

\* A NAS file stays where it is, and as it is unless damaged from outside.
LEMMA NASKept ==
  ASSUME Safety, [Next]_vars, NEW a \in Assets, NEW n \in NASes,
         disk[a][n] # "absent"
  PROVE  /\ disk'[a][n] # "absent"
         /\ damaged' = damaged => disk'[a][n] = disk[a][n]
<1> USE TiersAssumption DEF Safety, TypeOK
<1>0. n \in Locs /\ n \notin Spools /\ n \notin Cards
  BY DEF Locs
<1>1. CASE disk' = disk
  BY <1>1
<1>2. ASSUME NEW p \in Movers, Install(p)
      PROVE  disk'[a][n] = disk[a][n]
  <2>1. disk' = [disk EXCEPT ![mover[p].asset][mover[p].dest] = mover[p].data]
    BY <1>2 DEF Install
  <2>2. disk[mover[p].asset][mover[p].dest] = "absent"
    BY <1>2 DEF Install, ProcsOK, MoverOK
  <2>3. ~(mover[p].asset = a /\ mover[p].dest = n)
    BY <2>2
  <2> QED BY <1>0, <2>1, <2>3
<1>3. ASSUME NEW f \in Flushers, FlushRemove(f)
      PROVE  disk'[a][n] = disk[a][n]
  <2>1. flusher[f].spool # n
    BY <1>0, <1>3 DEF FlushRemove, Shape, FlusherShape
  <2> QED BY <1>0, <1>3, <2>1 DEF FlushRemove
<1>4. ASSUME NEW c \in Cards, Format(c)
      PROVE  disk'[a][n] = disk[a][n]
  BY <1>0, <1>4 DEF Format
<1>5. ASSUME NEW b \in Assets, NEW l \in Locs, Damage(b, l)
      PROVE  disk'[a][n] # "absent" /\ damaged' # damaged
  BY <1>0, <1>5 DEF Damage
<1> QED BY <1>1, <1>2, <1>3, <1>4, <1>5, DiskChanges

\* What flush relies on between verifyPair and os.Remove.
LEMMA VerifiedKept ==
  ASSUME Safety, [Next]_vars, NEW f \in Flushers, flusher[f].pc = "remove"
  PROVE  LET a == flusher[f].asset
             n == flusher[f].nas
         IN  disk'[a][n] = disk[a][n]
<1> USE TiersAssumption DEF Safety, TypeOK
<1> DEFINE a == flusher[f].asset
           n == flusher[f].nas
<1>1. a \in Assets /\ n \in NASes /\ n \in Locs /\ disk[a][n] # "absent"
  BY DEF Shape, FlusherShape, ProcsOK, FlusherOK, Locs
<1>2. ASSUME NEW b \in Assets, NEW l \in Locs, Damage(b, l)
      PROVE  disk'[a][n] = disk[a][n]
  BY <1>1, <1>2 DEF Damage
<1>3. damaged' = damaged \/ \E b \in Assets, l \in Locs : Damage(b, l)
  <2>1. ASSUME NEW p \in Movers, MoverStep(p) PROVE damaged' = damaged
    BY <2>1 DEF MoverStep, SpoolBegin, ArchiveBegin, Start, PutPartial, CopyOpen,
              CopyFails, Install, InstallFails, Record, LinkRead, LinkSet, MoverStops
  <2>2. ASSUME NEW g \in Flushers, FlusherStep(g) PROVE damaged' = damaged
    BY <2>2 DEF FlusherStep, FlushBegin, FlushPick, FlushRefuse, FlushRemove,
              FlushDelete, FlushEnd, FlushRelinkRead, FlushRelinkWrite, FlushStops
  <2>3. ASSUME NEW v \in Verifiers, VerifierStep(v) PROVE damaged' = damaged
    BY <2>3 DEF VerifierStep, VerifyBegin, VerifyCheck, VerifyApply,
              VerifyRelinkRead, VerifyRelinkWrite, VerifyStops
  <2>4. WorldStep => damaged' = damaged \/ \E b \in Assets, l \in Locs : Damage(b, l)
    BY DEF WorldStep, SetPinned, ReportSafe, Format, Plug
  <2> QED BY <2>1, <2>2, <2>3, <2>4 DEF Next, vars
<1> QED BY <1>1, <1>2, <1>3, NASKept

\* What a process relies on survives the steps of everyone else.
LEMMA MoverFrame ==
  ASSUME Safety, [Next]_vars, NEW q \in Movers, mover'[q] = mover[q]
  PROVE  MoverOK(q)'
<1> USE TiersAssumption DEF Safety, TypeOK
<1> DEFINE m == mover[q]
<1>0. m \in MoverState
  OBVIOUS
<1>1. ASSUME m.pc = "install"
      PROVE  /\ m.data # "absent"
             /\ disk'[m.asset][m.dest] = "absent"
             /\ Sparse(m.asset) => m.data = "orig"
  <2>1. /\ m.asset \in Assets /\ m.dest \in Locs
        /\ disk[m.asset][m.dest] = "absent" /\ m.data # "absent"
        /\ Sparse(m.asset) => m.data = "orig"
        /\ lock[m.asset] = q
    BY <1>1 DEF Shape, MoverShape, ProcsOK, MoverOK, LockInv, Locs
  <2>2. ASSUME NEW p \in Movers, Install(p)
        PROVE  disk'[m.asset][m.dest] = "absent"
    <3>1. p # q
      <4>1. mover'[p].pc = "record" /\ m.pc = "install"
        BY <1>1, <2>2 DEF Install, MoverState
      <4> QED BY <4>1
    <3>2. mover[p].asset # m.asset
      BY <2>1, <2>2, <3>1 DEF Install, LockInv
    <3> QED BY <2>1, <2>2, <3>2 DEF Install
  <2>3. ASSUME NEW f \in Flushers, FlushRemove(f)
        PROVE  disk'[m.asset][m.dest] = "absent"
    BY <2>1, <2>3 DEF FlushRemove
  <2>4. ASSUME NEW c \in Cards, Format(c)
        PROVE  disk'[m.asset][m.dest] = "absent"
    BY <2>1, <2>4 DEF Format
  <2>5. ASSUME NEW b \in Assets, NEW l \in Locs, Damage(b, l)
        PROVE  disk'[m.asset][m.dest] = "absent"
    BY <2>1, <2>5 DEF Damage
  <2> QED BY <2>1, <2>2, <2>3, <2>4, <2>5, DiskChanges
<1>2. ASSUME m.pc = "record", m.dest \in NASes
      PROVE  disk'[m.asset][m.dest] # "absent"
  BY <1>2, NASKept DEF Shape, MoverShape, ProcsOK, MoverOK
<1>3. ASSUME m.pc = "set", m.target \in NASes
      PROVE  disk'[m.asset][m.target] # "absent"
  BY <1>3, NASKept DEF Shape, MoverShape, ProcsOK, MoverOK
<1> QED BY <1>1, <1>2, <1>3 DEF MoverOK, Sparse

\* What a flush step leaves alone.
LEMMA FlusherFrame ==
  ASSUME Safety, [Next]_vars, NEW f \in Flushers, flusher'[f] = flusher[f]
  PROVE  FlusherOK(f)'
<1>1. ASSUME flusher[f].pc = "remove"
      PROVE  /\ flusher[f].nas \in NASes
             /\ disk'[flusher[f].asset][flusher[f].nas] # "absent"
             /\ Sparse(flusher[f].asset) =>
                  disk'[flusher[f].asset][flusher[f].nas] = "orig"
  BY <1>1, VerifiedKept DEF Safety, ProcsOK, FlusherOK
<1>2. \A a \in Assets : flusher[f].want[a] \in NASes =>
                         disk'[a][flusher[f].want[a]] # "absent"
  BY NASKept DEF Safety, ProcsOK, FlusherOK
<1> QED BY <1>1, <1>2 DEF FlusherOK, Sparse

\* What a verify step leaves alone.
LEMMA VerifierFrame ==
  ASSUME Safety, [Next]_vars, NEW v \in Verifiers, verifier'[v] = verifier[v]
  PROVE  VerifierOK(v)'
<1>1. ASSUME verifier[v].pc = "apply", verifier[v].ok, verifier[v].loc \in NASes
      PROVE  disk'[verifier[v].asset][verifier[v].loc] # "absent"
  <2>1. verifier[v].asset \in Assets
    BY <1>1 DEF Safety, Shape, VerifierShape
  <2>2. disk[verifier[v].asset][verifier[v].loc] # "absent"
    BY <1>1 DEF Safety, ProcsOK, VerifierOK
  <2> QED BY <1>1, <2>1, <2>2, NASKept
<1>2. \A a \in Assets : verifier[v].want[a] \in NASes =>
                         disk'[a][verifier[v].want[a]] # "absent"
  BY NASKept DEF Safety, ProcsOK, VerifierOK
<1> QED BY <1>1, <1>2 DEF VerifierOK

\* What a link or a want map may name: a NAS whose row says complete.
LEMMA BestOnNAS ==
  ASSUME Safety, NEW a \in Assets, NEW l \in Best(a), l \in NASes
  PROVE  disk[a][l] # "absent"
BY BestIsLoc DEF Safety, NASCompleteOnDisk

\* A link Reconcile wants into a NAS is to a file that is there.
LEMMA WantedOnNAS ==
  ASSUME Safety, NEW w \in Wanted, NEW a \in Assets, w[a] \in NASes
  PROVE  disk[a][w[a]] # "absent"
BY BestOnNAS, TiersAssumption DEF Wanted, Locs

\* Each mover's own step keeps its part of the invariant, and the lock.
LEMMA MoverOwn ==
  ASSUME Safety, [Next]_vars, NEW p \in Movers, MoverStep(p)
  PROVE  MoverOK(p)' /\ LockInv' /\ \A q \in Movers \ {p} : mover'[q] = mover[q]
<1> USE TiersAssumption DEF Safety, TypeOK
<1>0. mover[p] \in MoverState
  OBVIOUS
<1>1. ASSUME NEW a \in Assets, NEW dests, Start(p, a, dests)
      PROVE  MoverOK(p)' /\ LockInv' /\ \A q \in Movers \ {p} : mover'[q] = mover[q]
  <2>1. PICK src : mover' = [mover EXCEPT ![p] =
            [IdleMover EXCEPT !.pc = "ready", !.asset = a,
                              !.src = src, !.todo = dests]]
    BY <1>1 DEF Start
  <2>2. lock[a] = None /\ lock' = [lock EXCEPT ![a] = p]
    BY <1>1 DEF Start, Lock
  <2>3. LockInv'
    BY <2>1, <2>2 DEF LockInv, IdleMover, Shape, MoverShape
  <2> QED BY <2>1, <2>3 DEF MoverOK, IdleMover
<1>2. ASSUME mover[p].pc # "idle", Unlock(p)
      PROVE  MoverOK(p)' /\ LockInv' /\ \A q \in Movers \ {p} : mover'[q] = mover[q]
  <2>1. mover' = [mover EXCEPT ![p] = IdleMover]
        /\ lock' = [lock EXCEPT ![mover[p].asset] = None]
    BY <1>2 DEF Unlock
  <2>2. \A q \in Movers \ {p} : mover[q].pc # "idle" => mover[q].asset # mover[p].asset
    BY <1>2 DEF LockInv
  <2>3. LockInv'
    BY <2>1, <2>2 DEF LockInv, IdleMover, Shape, MoverShape
  <2> QED BY <2>1, <2>3 DEF MoverOK, IdleMover
<1>3. ASSUME NEW m, mover' = [mover EXCEPT ![p] = m], lock' = lock,
             mover[p].pc # "idle", m.asset = mover[p].asset
      PROVE  LockInv' /\ \A q \in Movers \ {p} : mover'[q] = mover[q]
  BY <1>3 DEF LockInv
<1>4. CASE \E a \in Assets, s \in Spools : SpoolBegin(p, a, s)
  BY <1>1, <1>4 DEF SpoolBegin
<1>5. CASE \E a \in Assets : ArchiveBegin(p, a)
  BY <1>1, <1>5 DEF ArchiveBegin
<1>6. CASE \E d \in Spools \cup NASes : PutPartial(p, d)
  <2>1. PICK d \in Spools \cup NASes : PutPartial(p, d)
    BY <1>6
  <2> DEFINE m == [mover[p] EXCEPT !.pc = "copy", !.dest = d]
  <2>2. mover' = [mover EXCEPT ![p] = m] /\ lock' = lock /\ mover[p].pc # "idle"
    BY <2>1 DEF PutPartial
  <2>3. m.asset = mover[p].asset /\ m.pc = "copy"
    BY <1>0 DEF MoverState
  <2> HIDE DEF m
  <2>4. MoverOK(p)'
    BY <2>2, <2>3 DEF MoverOK
  <2> QED BY <1>3, <2>2, <2>3, <2>4
<1>7. CASE CopyOpen(p)
  <2> DEFINE a == mover[p].asset
             src == mover[p].src
             m1 == [mover[p] EXCEPT !.pc = "install", !.data = disk[a][src]]
             m2 == [mover[p] EXCEPT !.pc = "record"]
  <2>1. mover[p].pc = "copy" /\ lock' = lock /\ disk' = disk
    BY <1>7 DEF CopyOpen
  <2>2. disk[a][src] # "absent" /\ (Sparse(a) => disk[a][src] = "orig")
    BY <1>7 DEF CopyOpen, SourceOpens, OnDisk
  <2>3. CASE disk[a][mover[p].dest] = "absent" /\ mover' = [mover EXCEPT ![p] = m1]
    <3>1. m1.asset = a /\ m1.pc = "install" /\ m1.dest = mover[p].dest
          /\ m1.data = disk[a][src]
      BY <1>0 DEF MoverState
    <3> HIDE DEF m1
    <3>2. MoverOK(p)'
      BY <2>1, <2>2, <2>3, <3>1 DEF MoverOK, Sparse
    <3> QED BY <1>3, <2>1, <2>3, <3>1, <3>2
  <2>4. CASE disk[a][mover[p].dest] = disk[a][src] /\ mover' = [mover EXCEPT ![p] = m2]
    <3>1. m2.asset = a /\ m2.pc = "record" /\ m2.dest = mover[p].dest
      BY <1>0 DEF MoverState
    <3> HIDE DEF m2
    <3>2. MoverOK(p)'
      BY <2>1, <2>2, <2>4, <3>1 DEF MoverOK
    <3> QED BY <1>3, <2>1, <2>4, <3>1, <3>2
  <2> QED BY <1>7, <2>3, <2>4 DEF CopyOpen
<1>8. CASE CopyFails(p)
  BY <1>2, <1>8 DEF CopyFails
<1>9. CASE Install(p)
  <2> DEFINE m == [mover[p] EXCEPT !.pc = "record", !.data = "absent"]
  <2>1. /\ mover' = [mover EXCEPT ![p] = m] /\ lock' = lock
        /\ mover[p].pc = "install"
        /\ disk' = [disk EXCEPT ![mover[p].asset][mover[p].dest] = mover[p].data]
    BY <1>9 DEF Install
  <2>2. m.asset = mover[p].asset /\ m.pc = "record" /\ m.dest = mover[p].dest
    BY <1>0 DEF MoverState
  <2> HIDE DEF m
  <2>3. mover[p].data # "absent" /\ mover[p].asset \in Assets /\ mover[p].dest \in Locs
    BY <2>1 DEF ProcsOK, MoverOK, Shape, MoverShape, Locs
  <2>4. disk'[mover[p].asset][mover[p].dest] # "absent"
    BY <2>1, <2>3
  <2>5. MoverOK(p)'
    BY <2>1, <2>2, <2>4 DEF MoverOK
  <2> QED BY <1>3, <2>1, <2>2, <2>5
<1>10. CASE InstallFails(p)
  BY <1>2, <1>10 DEF InstallFails
<1>11. CASE Record(p)
  <2> DEFINE m == [mover[p] EXCEPT !.pc = "link"]
  <2>1. mover' = [mover EXCEPT ![p] = m] /\ lock' = lock /\ mover[p].pc = "record"
    BY <1>11 DEF Record
  <2>2. m.asset = mover[p].asset /\ m.pc = "link"
    BY <1>0 DEF MoverState
  <2> HIDE DEF m
  <2>3. MoverOK(p)'
    BY <2>1, <2>2 DEF MoverOK
  <2> QED BY <1>3, <2>1, <2>2, <2>3
<1>12. CASE LinkRead(p)
  <2>0. mover[p].asset \in Assets
    BY <1>12 DEF LinkRead, Shape, MoverShape
  <2>1. PICK t \in Best(mover[p].asset) \cup {None} :
          mover' = [mover EXCEPT ![p] = [@ EXCEPT !.pc = "set", !.target = t]]
    BY <1>12 DEF LinkRead
  <2> DEFINE m == [mover[p] EXCEPT !.pc = "set", !.target = t]
  <2>2. mover' = [mover EXCEPT ![p] = m] /\ lock' = lock
        /\ mover[p].pc = "link" /\ disk' = disk
    BY <1>12, <2>1 DEF LinkRead
  <2>3. m.asset = mover[p].asset /\ m.pc = "set" /\ m.target = t
    BY <1>0 DEF MoverState
  <2> HIDE DEF m
  <2>4. t \in NASes => disk[mover[p].asset][t] # "absent"
    BY <2>0, BestOnNAS DEF Locs
  <2>5. MoverOK(p)'
    BY <2>2, <2>3, <2>4 DEF MoverOK
  <2> QED BY <1>3, <2>2, <2>3, <2>5
<1>13. CASE LinkSet(p)
  <2> DEFINE m == [IdleMover EXCEPT !.pc = "ready", !.asset = mover[p].asset,
                                    !.src = mover[p].src,
                                    !.todo = mover[p].todo \ {mover[p].dest}]
  <2>1. mover[p].pc = "set"
        /\ (Unlock(p) \/ (mover' = [mover EXCEPT ![p] = m] /\ lock' = lock))
    BY <1>13 DEF LinkSet
  <2>2. m.asset = mover[p].asset /\ m.pc = "ready"
    BY DEF IdleMover
  <2> HIDE DEF m
  <2>3. CASE Unlock(p)
    BY <1>2, <2>1, <2>3
  <2>4. CASE mover' = [mover EXCEPT ![p] = m] /\ lock' = lock
    <3>1. MoverOK(p)'
      BY <2>2, <2>4 DEF MoverOK
    <3> QED BY <1>3, <2>1, <2>2, <2>4, <3>1
  <2> QED BY <2>1, <2>3, <2>4
<1>14. CASE MoverStops(p)
  BY <1>2, <1>14 DEF MoverStops
<1> QED BY <1>4, <1>5, <1>6, <1>7, <1>8, <1>9, <1>10, <1>11, <1>12, <1>13,
           <1>14 DEF MoverStep

\* What a flush step makes of its own worklist stays true to the disk.
LEMMA FlusherOwn ==
  ASSUME Safety, [Next]_vars, NEW f \in Flushers, FlusherStep(f)
  PROVE  FlusherOK(f)' /\ \A g \in Flushers \ {f} : flusher'[g] = flusher[g]
<1> USE TiersAssumption DEF Safety, TypeOK
<1>0. flusher[f] \in FlusherState
  OBVIOUS
<1> DEFINE Others == \A g \in Flushers \ {f} : flusher'[g] = flusher[g]
           Wants(x) == \A a \in Assets : x.want[a] \in NASes =>
                                           disk'[a][x.want[a]] # "absent"
<1>1. Wants(flusher[f]) /\ Wants(IdleFlusher)
  <2>1. Wants(flusher[f])
    BY NASKept DEF ProcsOK, FlusherOK
  <2>2. Wants(IdleFlusher)
    BY DEF IdleFlusher, NoWant, Locs
  <2> QED BY <2>1, <2>2
<1>2. ASSUME NEW x, flusher' = [flusher EXCEPT ![f] = x],
             x.pc # "remove", Wants(x)
      PROVE  FlusherOK(f)' /\ Others
  BY <1>2 DEF FlusherOK
<1>3. ASSUME flusher' = [flusher EXCEPT ![f] = IdleFlusher]
      PROVE  FlusherOK(f)' /\ Others
  <2>1. IdleFlusher.pc # "remove"
    BY DEF IdleFlusher
  <2> QED BY <1>1, <1>2, <1>3, <2>1
<1>4. CASE \E s \in Spools : \E list \in SUBSET Flushable(s) : FlushBegin(f, s, list)
  <2>1. PICK s, list : flusher' = [flusher EXCEPT ![f] =
          [IdleFlusher EXCEPT !.pc = "scan", !.spool = s, !.list = list]]
    BY <1>4 DEF FlushBegin
  <2> DEFINE x == [IdleFlusher EXCEPT !.pc = "scan", !.spool = s, !.list = list]
  <2>2. x.pc = "scan" /\ x.want = IdleFlusher.want
    BY DEF IdleFlusher
  <2>3. flusher' = [flusher EXCEPT ![f] = x]
    BY <2>1
  <2> HIDE DEF x
  <2>4. Wants(x)
    BY <1>1, <2>2
  <2> QED BY <1>2, <2>2, <2>3, <2>4
<1>5. CASE \E a \in Assets : FlushPick(f, a)
  <2>1. PICK a \in Assets : FlushPick(f, a)
    BY <1>5
  <2>2. PICK n \in FlushNAS(a) :
          /\ PairVerified(a, flusher[f].spool, n)
          /\ flusher' = [flusher EXCEPT ![f] =
               [@ EXCEPT !.pc = "remove", !.asset = a, !.nas = n]]
    BY <2>1 DEF FlushPick
  <2> DEFINE x == [flusher[f] EXCEPT !.pc = "remove", !.asset = a, !.nas = n]
  <2>3. x.asset = a /\ x.nas = n /\ x.want = flusher[f].want
    BY <1>0 DEF FlusherState
  <2>4. n \in NASes /\ disk[a][n] # "absent" /\ (Sparse(a) => disk[a][n] = "orig")
    BY <2>2 DEF FlushNAS, NASComplete, PairVerified, OnDisk
  <2>5. disk' = disk /\ flusher' = [flusher EXCEPT ![f] = x]
    BY <2>1, <2>2 DEF FlushPick
  <2> HIDE DEF x
  <2> QED BY <1>1, <2>3, <2>4, <2>5 DEF FlusherOK, Sparse
<1>6. CASE \E a \in Assets : FlushRefuse(f, a)
  <2>1. PICK a \in Assets : flusher[f].pc = "scan" /\ flusher' = [flusher EXCEPT ![f] =
          [flusher[f] EXCEPT !.list = flusher[f].list \ {a}]]
    BY <1>6 DEF FlushRefuse
  <2> DEFINE x == [flusher[f] EXCEPT !.list = flusher[f].list \ {a}]
  <2>2. x.pc = "scan" /\ x.want = flusher[f].want
    BY <1>0, <2>1 DEF FlusherState
  <2>3. flusher' = [flusher EXCEPT ![f] = x]
    BY <2>1
  <2> HIDE DEF x
  <2>4. Wants(x)
    BY <1>1, <2>2
  <2> QED BY <1>2, <2>2, <2>3, <2>4
<1>7. CASE FlushRemove(f)
  <2> DEFINE x == [flusher[f] EXCEPT !.pc = "delete"]
  <2>1. flusher' = [flusher EXCEPT ![f] = x]
    BY <1>7 DEF FlushRemove
  <2>2. x.pc = "delete" /\ x.want = flusher[f].want
    BY <1>0 DEF FlusherState
  <2> HIDE DEF x
  <2>3. Wants(x)
    BY <1>1, <2>2
  <2> QED BY <1>2, <2>1, <2>2, <2>3
<1>8. CASE FlushDelete(f)
  <2> DEFINE x == [flusher[f] EXCEPT !.pc = "scan",
                     !.list = flusher[f].list \ {flusher[f].asset},
                     !.asset = None, !.nas = None, !.did = TRUE]
  <2>1. \/ flusher' = [flusher EXCEPT ![f] = IdleFlusher]
        \/ flusher' = [flusher EXCEPT ![f] = x]
    BY <1>8 DEF FlushDelete
  <2>2. x.pc = "scan" /\ x.want = flusher[f].want
    BY <1>0 DEF FlusherState
  <2> HIDE DEF x
  <2> QED BY <1>1, <1>2, <1>3, <2>1, <2>2
<1>9. CASE FlushEnd(f)
  <2> DEFINE x == [IdleFlusher EXCEPT !.pc = "relink"]
  <2>1. \/ flusher' = [flusher EXCEPT ![f] = IdleFlusher]
        \/ flusher' = [flusher EXCEPT ![f] = x]
    BY <1>9 DEF FlushEnd
  <2>2. x.pc = "relink" /\ x.want = IdleFlusher.want
    BY DEF IdleFlusher
  <2> HIDE DEF x
  <2> QED BY <1>1, <1>2, <1>3, <2>1, <2>2
<1>10. CASE FlushRelinkRead(f)
  <2>1. PICK w \in Wanted :
          flusher' = [flusher EXCEPT ![f] = [@ EXCEPT !.pc = "write", !.want = w]]
    BY <1>10 DEF FlushRelinkRead
  <2> DEFINE x == [flusher[f] EXCEPT !.pc = "write", !.want = w]
  <2>2. x.pc = "write" /\ x.want = w
    BY <1>0 DEF FlusherState
  <2>3. flusher' = [flusher EXCEPT ![f] = x] /\ disk' = disk
    BY <1>10, <2>1 DEF FlushRelinkRead
  <2> HIDE DEF x
  <2>4. Wants(x)
    BY <2>2, <2>3, WantedOnNAS
  <2> QED BY <1>2, <2>2, <2>3, <2>4
<1>11. CASE FlushRelinkWrite(f)
  BY <1>3, <1>11 DEF FlushRelinkWrite
<1>12. CASE FlushStops(f)
  BY <1>3, <1>12 DEF FlushStops
<1> QED BY <1>4, <1>5, <1>6, <1>7, <1>8, <1>9, <1>10, <1>11, <1>12 DEF FlusherStep

\* What a verify step makes of its own finding stays true to the disk.
LEMMA VerifierOwn ==
  ASSUME Safety, [Next]_vars, NEW v \in Verifiers, VerifierStep(v)
  PROVE  VerifierOK(v)' /\ \A u \in Verifiers \ {v} : verifier'[u] = verifier[u]
<1> USE TiersAssumption DEF Safety, TypeOK
<1>0. verifier[v] \in VerifierState
  OBVIOUS
<1> DEFINE Others == \A u \in Verifiers \ {v} : verifier'[u] = verifier[u]
           Wants(x) == \A a \in Assets : x.want[a] \in NASes =>
                                           disk'[a][x.want[a]] # "absent"
<1>1. Wants(verifier[v]) /\ Wants(IdleVerifier)
  <2>1. Wants(verifier[v])
    BY NASKept DEF ProcsOK, VerifierOK
  <2>2. Wants(IdleVerifier)
    BY DEF IdleVerifier, NoWant, Locs
  <2> QED BY <2>1, <2>2
<1>2. ASSUME NEW x, verifier' = [verifier EXCEPT ![v] = x],
             x.pc # "apply", Wants(x)
      PROVE  VerifierOK(v)' /\ Others
  BY <1>2 DEF VerifierOK
<1>3. ASSUME verifier' = [verifier EXCEPT ![v] = IdleVerifier]
      PROVE  VerifierOK(v)' /\ Others
  <2>1. IdleVerifier.pc # "apply"
    BY DEF IdleVerifier
  <2> QED BY <1>1, <1>2, <1>3, <2>1
<1>4. CASE \E a \in Assets, l \in Locs : VerifyBegin(v, a, l)
  <2>1. PICK a, l : verifier' = [verifier EXCEPT ![v] =
          [IdleVerifier EXCEPT !.pc = "check", !.asset = a, !.loc = l]]
    BY <1>4 DEF VerifyBegin
  <2> DEFINE x == [IdleVerifier EXCEPT !.pc = "check", !.asset = a, !.loc = l]
  <2>2. x.pc = "check" /\ x.want = IdleVerifier.want
    BY DEF IdleVerifier
  <2>3. verifier' = [verifier EXCEPT ![v] = x]
    BY <2>1
  <2> HIDE DEF x
  <2>4. Wants(x)
    BY <1>1, <2>2
  <2> QED BY <1>2, <2>2, <2>3, <2>4
<1>5. CASE \E full \in BOOLEAN : VerifyCheck(v, full)
  <2>1. PICK full \in BOOLEAN : VerifyCheck(v, full)
    BY <1>5
  <2> DEFINE ok == CheckPasses(verifier[v].asset, verifier[v].loc, full)
             x == [verifier[v] EXCEPT !.pc = "apply", !.ok = ok]
  <2>2. verifier' = [verifier EXCEPT ![v] = x] /\ disk' = disk
    BY <2>1 DEF VerifyCheck
  <2>3. ok => disk[verifier[v].asset][verifier[v].loc] # "absent"
    BY DEF CheckPasses, OnDisk
  <2> HIDE DEF ok
  <2>4. /\ x.pc = "apply" /\ x.ok = ok /\ x.want = verifier[v].want
        /\ x.asset = verifier[v].asset /\ x.loc = verifier[v].loc
    BY <1>0 DEF VerifierState
  <2> HIDE DEF x
  <2> QED BY <1>1, <2>2, <2>3, <2>4 DEF VerifierOK
<1>6. CASE VerifyApply(v)
  <2> DEFINE x == [IdleVerifier EXCEPT !.pc = "relink"]
  <2>1. \/ verifier' = [verifier EXCEPT ![v] = IdleVerifier]
        \/ verifier' = [verifier EXCEPT ![v] = x]
    BY <1>6 DEF VerifyApply
  <2>2. x.pc = "relink" /\ x.want = IdleVerifier.want
    BY DEF IdleVerifier
  <2> HIDE DEF x
  <2> QED BY <1>1, <1>2, <1>3, <2>1, <2>2
<1>7. CASE VerifyRelinkRead(v)
  <2>1. PICK w \in Wanted :
          verifier' = [verifier EXCEPT ![v] = [@ EXCEPT !.pc = "write", !.want = w]]
    BY <1>7 DEF VerifyRelinkRead
  <2> DEFINE x == [verifier[v] EXCEPT !.pc = "write", !.want = w]
  <2>2. x.pc = "write" /\ x.want = w
    BY <1>0 DEF VerifierState
  <2>3. verifier' = [verifier EXCEPT ![v] = x] /\ disk' = disk
    BY <1>7, <2>1 DEF VerifyRelinkRead
  <2> HIDE DEF x
  <2>4. Wants(x)
    BY <2>2, <2>3, WantedOnNAS
  <2> QED BY <1>2, <2>2, <2>3, <2>4
<1>8. CASE VerifyRelinkWrite(v)
  BY <1>3, <1>8 DEF VerifyRelinkWrite
<1>9. CASE VerifyStops(v)
  BY <1>3, <1>9 DEF VerifyStops
<1> QED BY <1>4, <1>5, <1>6, <1>7, <1>8, <1>9 DEF VerifierStep

\* Every step keeps what the processes have read true to the disk.
LEMMA StepProcsOK ==
  ASSUME Safety, [Next]_vars
  PROVE  ProcsOK' /\ LockInv'
<1>1. ASSUME mover' = mover PROVE \A p \in Movers : MoverOK(p)'
  BY <1>1, MoverFrame
<1>2. ASSUME flusher' = flusher PROVE \A f \in Flushers : FlusherOK(f)'
  BY <1>2, FlusherFrame
<1>3. ASSUME verifier' = verifier PROVE \A v \in Verifiers : VerifierOK(v)'
  BY <1>3, VerifierFrame
<1>4. ASSUME mover' = mover, lock' = lock PROVE LockInv'
  BY <1>4 DEF Safety, LockInv
<1>5. CASE UNCHANGED vars
  BY <1>1, <1>2, <1>3, <1>4, <1>5 DEF vars, ProcsOK
<1>6. ASSUME NEW p \in Movers, MoverStep(p) PROVE ProcsOK' /\ LockInv'
  <2>1. flusher' = flusher /\ verifier' = verifier
    BY <1>6 DEF MoverStep, SpoolBegin, ArchiveBegin, Start, PutPartial, CopyOpen,
              CopyFails, Install, InstallFails, Record, LinkRead, LinkSet, MoverStops
  <2>2. \A q \in Movers : MoverOK(q)'
    BY <1>6, MoverOwn, MoverFrame
  <2> QED BY <1>2, <1>3, <1>6, <2>1, <2>2, MoverOwn DEF ProcsOK
<1>7. ASSUME NEW f \in Flushers, FlusherStep(f) PROVE ProcsOK' /\ LockInv'
  <2>1. mover' = mover /\ lock' = lock /\ verifier' = verifier
    BY <1>7 DEF FlusherStep, FlushBegin, FlushPick, FlushRefuse, FlushRemove,
              FlushDelete, FlushEnd, FlushRelinkRead, FlushRelinkWrite, FlushStops
  <2>2. \A g \in Flushers : FlusherOK(g)'
    BY <1>7, FlusherOwn, FlusherFrame
  <2> QED BY <1>1, <1>3, <1>4, <2>1, <2>2 DEF ProcsOK
<1>8. ASSUME NEW v \in Verifiers, VerifierStep(v) PROVE ProcsOK' /\ LockInv'
  <2>1. mover' = mover /\ lock' = lock /\ flusher' = flusher
    BY <1>8 DEF VerifierStep, VerifyBegin, VerifyCheck, VerifyApply,
              VerifyRelinkRead, VerifyRelinkWrite, VerifyStops
  <2>2. \A u \in Verifiers : VerifierOK(u)'
    BY <1>8, VerifierOwn, VerifierFrame
  <2> QED BY <1>1, <1>2, <1>4, <2>1, <2>2 DEF ProcsOK
<1>9. CASE WorldStep
  <2>1. mover' = mover /\ lock' = lock /\ flusher' = flusher /\ verifier' = verifier
    BY <1>9 DEF WorldStep, SetPinned, ReportSafe, Format, Plug, Damage
  <2> QED BY <1>1, <1>2, <1>3, <1>4, <2>1 DEF ProcsOK
<1> QED BY <1>5, <1>6, <1>7, <1>8, <1>9 DEF Next

\* Only a mover's Record and a verifier's VerifyApply make a row complete, and
\* both have seen the file.
LEMMA StepNASComplete ==
  ASSUME Safety, [Next]_vars
  PROVE  NASCompleteOnDisk'
<1> USE TiersAssumption DEF Safety, TypeOK
<1> SUFFICES ASSUME NEW a \in Assets, NEW n \in NASes, row'[a][n] = "complete"
             PROVE  disk'[a][n] # "absent"
  BY DEF NASCompleteOnDisk
<1>0. n \in Locs /\ n \notin Spools
  BY DEF Locs
<1> SUFFICES disk[a][n] # "absent"
  BY NASKept
<1>1. CASE row[a][n] = "complete"
  BY <1>1 DEF NASCompleteOnDisk
<1>2. CASE row[a][n] # "complete"
  <2>1. ASSUME UNCHANGED row PROVE FALSE
    BY <1>2, <2>1
  <2>2. CASE \E p \in Movers : MoverStep(p)
    <3>1. PICK p \in Movers : MoverStep(p)
      BY <2>2
    <3>2. CASE Record(p)
      <4>1. mover[p].asset = a /\ mover[p].dest = n /\ mover[p].pc = "record"
        BY <1>0, <1>2, <3>2 DEF Record
      <4> QED BY <4>1 DEF ProcsOK, MoverOK
    <3>3. CASE \E d \in Spools \cup NASes : PutPartial(p, d)
      BY <1>0, <1>2, <3>3 DEF PutPartial
    <3>4. row' = row \/ Record(p) \/ \E d \in Spools \cup NASes : PutPartial(p, d)
      BY <3>1 DEF MoverStep, SpoolBegin, ArchiveBegin, Start, CopyOpen,
              CopyFails, Install, InstallFails, LinkRead, LinkSet, MoverStops
    <3> QED BY <2>1, <3>2, <3>3, <3>4
  <2>3. CASE \E f \in Flushers : FlusherStep(f)
    <3>1. PICK f \in Flushers : FlusherStep(f)
      BY <2>3
    <3>2. row' = row \/ FlushDelete(f)
      BY <3>1 DEF FlusherStep, FlushBegin, FlushPick, FlushRefuse, FlushRemove,
              FlushEnd, FlushRelinkRead, FlushRelinkWrite, FlushStops
    <3>3. CASE FlushDelete(f)
      BY <1>0, <1>2, <3>3 DEF FlushDelete
    <3> QED BY <2>1, <3>2, <3>3
  <2>4. CASE \E v \in Verifiers : VerifierStep(v)
    <3>1. PICK v \in Verifiers : VerifierStep(v)
      BY <2>4
    <3>2. row' = row \/ VerifyApply(v)
      BY <3>1 DEF VerifierStep, VerifyBegin, VerifyCheck,
              VerifyRelinkRead, VerifyRelinkWrite, VerifyStops
    <3>3. CASE VerifyApply(v)
      <4>1. /\ verifier[v].pc = "apply" /\ verifier[v].ok
            /\ verifier[v].asset = a /\ verifier[v].loc = n
        BY <1>0, <1>2, <3>3 DEF VerifyApply
      <4> QED BY <4>1 DEF ProcsOK, VerifierOK
    <3> QED BY <2>1, <3>2, <3>3
  <2>5. CASE WorldStep
    BY <2>1, <2>5 DEF WorldStep, SetPinned, ReportSafe, Format, Plug, Damage
  <2>6. CASE UNCHANGED vars
    BY <2>1, <2>6 DEF vars
  <2> QED BY <2>2, <2>3, <2>4, <2>5, <2>6 DEF Next
<1> QED BY <1>1, <1>2

\* A link is set only from what LinkRead or a Reconcile read.
LEMMA StepNASLinks ==
  ASSUME Safety, [Next]_vars
  PROVE  NASLinksResolve'
<1> USE TiersAssumption DEF Safety, TypeOK
<1> SUFFICES ASSUME NEW a \in Assets, link'[a] \in NASes
             PROVE  disk'[a][link'[a]] # "absent"
  BY DEF NASLinksResolve
<1>1. CASE link'[a] = link[a]
  BY <1>1, NASKept DEF NASLinksResolve
<1>2. CASE link'[a] # link[a]
  <2>1. link' # link
    BY <1>2
  <2>2. CASE \E p \in Movers : MoverStep(p)
    <3>1. PICK p \in Movers : MoverStep(p)
      BY <2>2
    <3>2. LinkSet(p)
      BY <2>1, <3>1 DEF MoverStep, SpoolBegin, ArchiveBegin, Start, PutPartial,
              CopyOpen, CopyFails, Install, InstallFails, Record, LinkRead, MoverStops
    <3>3. /\ mover[p].pc = "set" /\ mover[p].asset = a
          /\ link'[a] = mover[p].target
      BY <1>2, <3>2 DEF LinkSet
    <3> QED BY <3>3, NASKept DEF ProcsOK, MoverOK
  <2>3. CASE \E f \in Flushers : FlusherStep(f)
    <3>1. PICK f \in Flushers : FlusherStep(f)
      BY <2>3
    <3>2. FlushRelinkWrite(f)
      BY <2>1, <3>1 DEF FlusherStep, FlushBegin, FlushPick, FlushRefuse,
              FlushRemove, FlushDelete, FlushEnd, FlushRelinkRead, FlushStops
    <3>3. link'[a] = flusher[f].want[a]
      BY <1>2, <3>2 DEF FlushRelinkWrite, Relinked
    <3> QED BY <3>3, NASKept DEF ProcsOK, FlusherOK
  <2>4. CASE \E v \in Verifiers : VerifierStep(v)
    <3>1. PICK v \in Verifiers : VerifierStep(v)
      BY <2>4
    <3>2. VerifyRelinkWrite(v)
      BY <2>1, <3>1 DEF VerifierStep, VerifyBegin, VerifyCheck, VerifyApply,
              VerifyRelinkRead, VerifyStops
    <3>3. link'[a] = verifier[v].want[a]
      BY <1>2, <3>2 DEF VerifyRelinkWrite, Relinked
    <3> QED BY <3>3, NASKept DEF ProcsOK, VerifierOK
  <2>5. CASE WorldStep
    BY <2>1, <2>5 DEF WorldStep, SetPinned, ReportSafe, Format, Plug, Damage
  <2>6. CASE UNCHANGED vars
    BY <2>1, <2>6 DEF vars
  <2> QED BY <2>2, <2>3, <2>4, <2>5, <2>6 DEF Next
<1> QED BY <1>1, <1>2

\* What a rename puts on a NAS was opened as the original.
LEMMA StepNASWhole ==
  ASSUME Safety, [Next]_vars
  PROVE  NASWhole'
<1> USE TiersAssumption DEF Safety, TypeOK
<1> SUFFICES ASSUME Fragile \cap NASes = {},
                    NEW a \in Assets, NEW n \in NASes,
                    Sparse(a), disk'[a][n] # "absent"
             PROVE  disk'[a][n] = "orig"
  BY DEF NASWhole, Sparse
<1>0. n \in Locs /\ n \notin Spools /\ n \notin Cards
  BY DEF Locs
<1>1. ASSUME disk'[a][n] = disk[a][n] PROVE disk'[a][n] = "orig"
  BY <1>1 DEF NASWhole
<1>2. ASSUME NEW p \in Movers, Install(p) PROVE disk'[a][n] = "orig"
  <2>1. disk' = [disk EXCEPT ![mover[p].asset][mover[p].dest] = mover[p].data]
    BY <1>2 DEF Install
  <2>2. Sparse(mover[p].asset) => mover[p].data = "orig"
    BY <1>2 DEF Install, ProcsOK, MoverOK
  <2>3. CASE mover[p].asset = a /\ mover[p].dest = n
    BY <1>0, <2>1, <2>2, <2>3
  <2>4. CASE ~(mover[p].asset = a /\ mover[p].dest = n)
    BY <1>0, <1>1, <2>1, <2>4
  <2> QED BY <2>3, <2>4
<1>3. ASSUME NEW f \in Flushers, FlushRemove(f) PROVE disk'[a][n] = disk[a][n]
  <2>1. flusher[f].spool # n
    BY <1>0, <1>3 DEF FlushRemove, Shape, FlusherShape
  <2> QED BY <1>0, <1>3, <2>1 DEF FlushRemove
<1>4. ASSUME NEW c \in Cards, Format(c) PROVE disk'[a][n] = disk[a][n]
  BY <1>0, <1>4 DEF Format
<1>5. ASSUME NEW b \in Assets, NEW l \in Locs, Damage(b, l)
      PROVE  disk'[a][n] = disk[a][n]
  BY <1>0, <1>5 DEF Damage
<1> QED BY <1>1, <1>2, <1>3, <1>4, <1>5, DiskChanges

\* A card becomes safe when every row of its assets says a NAS has it, and what
\* is on a NAS stays.
LEMMA StepSafe ==
  ASSUME Safety, [Next]_vars, NASWhole'
  PROVE  SafeMeansArchived'
<1> USE TiersAssumption DEF Safety, TypeOK
<1> SUFFICES ASSUME Fragile \cap NASes = {},
                    NEW c \in safe', NEW a \in CardAssets(c)
             PROVE  \E n \in NASes : /\ disk'[a][n] # "absent"
                                     /\ Sparse(a) => disk'[a][n] = "orig"
  BY DEF SafeMeansArchived, CardAssets, Sparse
<1>1. a \in Assets
  BY DEF CardAssets
<1>2. \E n \in NASes : disk[a][n] # "absent"
  <2>1. CASE c \in safe
    BY <2>1 DEF SafeMeansArchived
  <2>2. CASE c \notin safe
    <3>1. ReportSafe(c)
      <4>1. safe' # safe
        BY <2>2
      <4>2. ASSUME NEW p \in Movers, MoverStep(p) PROVE safe' = safe
        BY <4>2 DEF MoverStep, SpoolBegin, ArchiveBegin, Start, PutPartial,
              CopyOpen, CopyFails, Install, InstallFails, Record, LinkRead,
              LinkSet, MoverStops
      <4>3. ASSUME NEW f \in Flushers, FlusherStep(f) PROVE safe' = safe
        BY <4>3 DEF FlusherStep, FlushBegin, FlushPick, FlushRefuse, FlushRemove,
              FlushDelete, FlushEnd, FlushRelinkRead, FlushRelinkWrite, FlushStops
      <4>4. ASSUME NEW v \in Verifiers, VerifierStep(v) PROVE safe' = safe
        BY <4>4 DEF VerifierStep, VerifyBegin, VerifyCheck, VerifyApply,
              VerifyRelinkRead, VerifyRelinkWrite, VerifyStops
      <4>5. PICK d \in Cards : ReportSafe(d)
        BY <4>1, <4>2, <4>3, <4>4
           DEF Next, vars, WorldStep, SetPinned, Format, Plug, Damage
      <4>6. d = c
        BY <2>2, <4>5 DEF ReportSafe
      <4> QED BY <4>5, <4>6
    <3>2. Archived(a)
      BY <3>1 DEF ReportSafe
    <3> QED BY <1>1, <3>2 DEF Archived, NASComplete, NASCompleteOnDisk
  <2> QED BY <2>1, <2>2
<1>3. PICK n \in NASes : disk[a][n] # "absent"
  BY <1>2
<1>4. disk'[a][n] # "absent"
  BY <1>1, <1>3, NASKept
<1> QED BY <1>1, <1>4 DEF NASWhole, Sparse

\* Every step keeps the whole strengthened invariant.
LEMMA SafetyStep == Safety /\ [Next]_vars => Safety'
<1> SUFFICES ASSUME Safety, [Next]_vars PROVE Safety'
  OBVIOUS
<1>1. TypeOK' /\ Shape'
  <2>1. CASE UNCHANGED vars
    BY <2>1 DEF Safety, vars, TypeOK, Shape, MoverShape, FlusherShape, VerifierShape
  <2>2. CASE Next
    BY <2>2, TypeMover, TypeFlusher, TypeVerifier, TypeWorld DEF Safety, Next
  <2> QED BY <2>1, <2>2
<1> QED BY <1>1, StepProcsOK, StepNASComplete, StepNASLinks, StepNASWhole, StepSafe
        DEF Safety

\* The inductive invariant holds in every reachable state.
THEOREM SafetyInvariant == Spec => []Safety
BY SafetyInit, SafetyStep, PTL DEF Spec

\* No interleaving, crash or stale reading makes the catalog claim a complete
\* NAS copy that is not there (copyTo, Verify).
THEOREM NASRowsAreTrue == Spec => []NASCompleteOnDisk
<1>1. Safety => NASCompleteOnDisk
  BY DEF Safety
<1> QED BY <1>1, SafetyInvariant, PTL

\* Whatever reconcileAsset and Reconcile race with, a link into a NAS names a
\* file that exists.
THEOREM NASLinksAreGood == Spec => []NASLinksResolve
<1>1. Safety => NASLinksResolve
  BY DEF Safety
<1> QED BY <1>1, SafetyInvariant, PTL

\* Once Import has said a card is safe to format, all it holds is on a NAS for
\* good (Import, archived).
THEOREM SafeToFormat == Spec => []SafeMeansArchived
<1>1. Safety => SafeMeansArchived
  BY DEF Safety
<1> QED BY <1>1, SafetyInvariant, PTL

\* R3: no step removes or replaces a file on a NAS.
THEOREM NASNeverLoses == Spec => NASAppendOnly
<1>1. Safety /\ [Next]_vars =>
        [damaged' = damaged =>
           \A a \in Assets, n \in NASes :
             disk[a][n] # "absent" => disk'[a][n] = disk[a][n]]_vars
  BY NASKept
<1> QED BY <1>1, SafetyInvariant, PTL DEF Spec, NASAppendOnly

\* The step behind FlushIsSafe: only FlushRemove empties a spool.
LEMMA RemoveHasCopy ==
  ASSUME Safety, [Next]_vars, NEW a \in Assets, NEW s \in Spools,
         disk[a][s] # "absent", disk'[a][s] = "absent"
  PROVE  \E n \in NASes : /\ disk[a][n] # "absent"
                          /\ Sparse(a) => disk[a][n] = "orig"
<1> USE TiersAssumption DEF Safety, TypeOK
<1>0. s \in Locs /\ s \notin Cards
  BY DEF Locs
<1>1. ASSUME NEW p \in Movers, Install(p) PROVE FALSE
  <2>1. mover[p].data # "absent"
    BY <1>1 DEF Install, ProcsOK, MoverOK
  <2>2. disk' = [disk EXCEPT ![mover[p].asset][mover[p].dest] = mover[p].data]
    BY <1>1 DEF Install
  <2> QED BY <1>0, <2>1, <2>2
<1>2. ASSUME NEW c \in Cards, Format(c) PROVE FALSE
  BY <1>0, <1>2 DEF Format
<1>3. ASSUME NEW b \in Assets, NEW l \in Locs, Damage(b, l) PROVE FALSE
  BY <1>0, <1>3 DEF Damage
<1>4. PICK f \in Flushers : FlushRemove(f)
  BY <1>1, <1>2, <1>3, DiskChanges
<1>5. flusher[f].asset = a /\ flusher[f].pc = "remove"
  BY <1>0, <1>4 DEF FlushRemove
<1> QED BY <1>5 DEF ProcsOK, FlusherOK

\* R1 and R4: a flush removes a spool file only while a NAS holds what it
\* verified.
THEOREM FlushIsSafe == Spec => FlushKeepsACopy
<1>1. Safety /\ [Next]_vars =>
        [\A a \in Assets, s \in Spools :
           disk[a][s] # "absent" /\ disk'[a][s] = "absent" =>
             \E n \in NASes : /\ disk[a][n] # "absent"
                              /\ Sparse(a) => disk[a][n] = "orig"]_vars
  BY RemoveHasCopy
<1> QED BY <1>1, SafetyInvariant, PTL DEF Spec, FlushKeepsACopy

-----------------------------------------------------------------------------
(* Tiers implements Custody for every number of assets, volumes and        *)
(* processes, when only spool files are changed behind the tool's back.    *)


Held == [a \in Assets |-> Holders(a)]

\* An asset is whole on its card until a NAS has it.
Kept ==
  \A a \in Assets : \/ CardOf[a] \in Holders(a)
                    \/ Holders(a) \cap NASes # {}

\* On a NAS every file is a whole copy.
LEMMA NASHolds ==
  ASSUME Safety, Fragile \subseteq Spools,
         NEW a \in Assets, NEW n \in NASes, disk[a][n] # "absent"
  PROVE  n \in Holders(a)
<1>1. Fragile \cap NASes = {} /\ n \in Locs
  BY TiersAssumption DEF Locs
<1> QED BY <1>1 DEF Safety, NASWhole, Holders, Sparse

\* What a formatted card held, a NAS holds.
LEMMA SafeHolds ==
  ASSUME Safety, Fragile \subseteq Spools, NEW c \in safe, NEW a \in CardAssets(c)
  PROVE  Holders(a) \cap NASes # {}
<1>1. Fragile \cap NASes = {}
  BY TiersAssumption
<1>2. PICK n \in NASes : disk[a][n] # "absent"
  BY <1>1 DEF Safety, SafeMeansArchived
<1> QED BY <1>2, NASHolds DEF CardAssets

\* The initial states map to initial states.
LEMMA CustodyInit == Init => Cust!Init
<1> SUFFICES ASSUME Init PROVE Cust!Init
  OBVIOUS
<1>1. ASSUME NEW a \in Assets PROVE Holders(a) = {CardOf[a]}
  BY <1>1, TiersAssumption DEF Init, Holders, Locs
<1> QED BY <1>1 DEF Cust!Init

\* A step that leaves the disk alone, or only adds the version of a still that
\* was there, is a stutter; each of the others is one abstract action.
LEMMA CustodyStep ==
  ASSUME Safety, Kept, Fragile \subseteq Spools, [Next]_vars
  PROVE  Cust!Next \/ Held' = Held
<1> USE TiersAssumption DEF Safety, TypeOK
<1>0. Cust!Places = Locs
  BY DEF Cust!Places, Locs
<1>1. CASE disk' = disk
  BY <1>1 DEF Held, Holders, Sparse
<1>2. ASSUME NEW p \in Movers, Install(p) PROVE Cust!Next
  <2>1. PICK b \in Assets, d \in Locs, x \in File :
          /\ x # "absent" /\ (Sparse(b) => x = "orig")
          /\ disk' = [disk EXCEPT ![b][d] = x]
    BY <1>2 DEF Install, Shape, MoverShape, ProcsOK, MoverOK, MoverState, Locs
  <2>2. Holders(b)' = Holders(b) \cup {d}
    BY <2>1 DEF Holders, Sparse
  <2>3. ASSUME NEW a \in Assets, a # b PROVE Holders(a)' = Holders(a)
    BY <2>1, <2>3 DEF Holders, Sparse
  <2>4. Held' = [Held EXCEPT ![b] = @ \cup {d}]
    BY <2>1, <2>2, <2>3 DEF Held
  <2>5. Held[b] # {}
    BY <2>1 DEF Held, Kept
  <2>6. Cust!Copied(b, d)
    BY <2>4, <2>5 DEF Cust!Copied, Held
  <2> QED BY <1>0, <2>1, <2>6 DEF Cust!Next
<1>3. ASSUME NEW f \in Flushers, FlushRemove(f) PROVE Cust!Next \/ Held' = Held
  <2>1. PICK b \in Assets, s \in Spools, n \in NASes :
          /\ disk[b][n] # "absent"
          /\ disk' = disk \/ disk' = [disk EXCEPT ![b][s] = "absent"]
    BY <1>3 DEF FlushRemove, Shape, FlusherShape, ProcsOK, FlusherOK
  <2>2. s \in Locs /\ s \notin NASes
    BY DEF Locs
  <2>3. CASE disk' = [disk EXCEPT ![b][s] = "absent"]
    <3>1. Holders(b)' = Holders(b) \ {s}
      BY <2>1, <2>2, <2>3 DEF Holders, Sparse
    <3>2. ASSUME NEW a \in Assets, a # b PROVE Holders(a)' = Holders(a)
      BY <2>3, <3>2 DEF Holders, Sparse
    <3>3. Held' = [a \in Assets |-> IF a \in {b} THEN Held[a] \ {s} ELSE Held[a]]
      BY <2>1, <3>1, <3>2 DEF Held
    <3>4. Held[b] \cap NASes # {}
      BY <2>1, NASHolds DEF Held
    <3>5. Cust!Released({b}, s)
      BY <2>2, <3>3, <3>4 DEF Cust!Released, Held
    <3> QED BY <1>0, <2>2, <3>5 DEF Cust!Next
  <2> QED BY <1>1, <2>1, <2>3
<1>4. ASSUME NEW c \in Cards, Format(c) PROVE Cust!Next
  <2> DEFINE as == CardAssets(c)
  <2>1. c \in Locs /\ c \notin NASes /\ c \in safe
    BY <1>4 DEF Format, Locs
  <2>2. disk' = [a \in Assets |-> IF CardOf[a] = c
                                  THEN [disk[a] EXCEPT ![c] = "absent"]
                                  ELSE disk[a]]
    BY <1>4 DEF Format
  <2>3. ASSUME NEW a \in as PROVE Holders(a)' = Holders(a) \ {c}
    BY <2>1, <2>2, <2>3 DEF CardAssets, Holders, Sparse
  <2>4. ASSUME NEW a \in Assets, a \notin as PROVE Holders(a)' = Holders(a)
    BY <2>2, <2>4 DEF CardAssets, Holders, Sparse
  <2>5. as \subseteq Assets
    BY DEF CardAssets
  <2>6. ASSUME NEW a \in as PROVE Held[a] \cap NASes # {}
    BY <2>1, <2>5, <2>6, SafeHolds DEF Held
  <2> HIDE DEF as
  <2>7. Held' = [a \in Assets |-> IF a \in as THEN Held[a] \ {c} ELSE Held[a]]
    BY <2>3, <2>4 DEF Held
  <2>8. Cust!Released(as, c)
    BY <2>1, <2>6, <2>7 DEF Cust!Released, Held
  <2> QED BY <1>0, <2>1, <2>5, <2>8 DEF Cust!Next
<1>5. ASSUME NEW b \in Assets, NEW l \in Locs, Damage(b, l)
      PROVE  Cust!Next \/ Held' = Held
  <2>1. l \in Fragile /\ disk' = [disk EXCEPT ![b][l] = "changed"]
        /\ disk[b][l] = "orig"
    BY <1>5 DEF Damage
  <2>2. ASSUME NEW a \in Assets, a # b PROVE Holders(a)' = Holders(a)
    BY <2>1, <2>2 DEF Holders, Sparse
  <2>3. CASE Sparse(b)
    <3>1. Holders(b)' = Holders(b) \ {l}
      BY <2>1, <2>3 DEF Holders, Sparse
    <3>2. Held' = [Held EXCEPT ![b] = @ \ {l}]
      BY <2>2, <3>1 DEF Held
    <3>3. Cust!Spoiled(b, l)
      BY <2>1, <3>2 DEF Cust!Spoiled, Held
    <3> QED BY <1>0, <3>3 DEF Cust!Next
  <2>4. CASE ~Sparse(b)
    <3>1. Holders(b)' = Holders(b)
      BY <2>1, <2>4 DEF Holders, Sparse
    <3> QED BY <2>2, <3>1 DEF Held
  <2> QED BY <2>3, <2>4
<1> QED BY <1>1, <1>2, <1>3, <1>4, <1>5, DiskChanges

\* The card's copy goes only when the card is formatted, a NAS's never.
LEMMA KeptStep ==
  ASSUME Safety, Kept, Fragile \subseteq Spools, [Next]_vars
  PROVE  Kept'
<1> USE TiersAssumption
<1>1. ASSUME NEW a \in Assets, NEW l, l \notin Spools, Cust!Spoiled(a, l)
      PROVE  FALSE
  BY <1>1 DEF Cust!Spoiled
<1>2. CASE Held' = Held
  <2>1. ASSUME NEW a \in Assets PROVE Holders(a)' = Holders(a)
    BY <1>2, <2>1 DEF Held
  <2> QED BY <2>1 DEF Kept
<1>3. CASE \E a \in Assets, l \in Cust!Places : Cust!Copied(a, l)
  <2>1. PICK b \in Assets, l \in Cust!Places : Cust!Copied(b, l)
    BY <1>3
  <2>2. ASSUME NEW a \in Assets PROVE Holders(a) \subseteq Holders(a)'
    BY <2>1 DEF Cust!Copied
  <2> QED BY <2>2 DEF Kept
<1>4. CASE \E a \in Assets, l \in Cust!Places : Cust!Spoiled(a, l)
  <2>1. PICK b \in Assets, l \in Cust!Places : Cust!Spoiled(b, l)
    BY <1>4
  <2>2. l \in Spools /\ l \notin NASes /\ \A a \in Assets : CardOf[a] # l
    BY <1>1, <2>1
  <2>3. ASSUME NEW a \in Assets PROVE Holders(a) \ {l} \subseteq Holders(a)'
    BY <2>1 DEF Cust!Spoiled
  <2> QED BY <2>2, <2>3 DEF Kept
<1>5. CASE \E as \in SUBSET Assets, l \in Cust!Places : Cust!Released(as, l)
  <2>1. PICK as \in SUBSET Assets, l \in Cust!Places : Cust!Released(as, l)
    BY <1>5
  <2>2. ASSUME NEW a \in Assets
        PROVE  \/ CardOf[a] \in Holders(a)'
               \/ Holders(a)' \cap NASes # {}
    <3>1. CASE a \in as
      <4>1. Holders(a) \cap NASes # {} /\ Holders(a)' = Holders(a) \ {l}
            /\ l \notin NASes
        BY <2>1, <3>1 DEF Cust!Released
      <4> QED BY <4>1
    <3>2. CASE a \notin as
      <4>1. Holders(a)' = Holders(a)
        BY <2>1, <3>2 DEF Cust!Released
      <4> QED BY <4>1 DEF Kept
    <3> QED BY <3>1, <3>2
  <2> QED BY <2>2 DEF Kept
<1> QED BY <1>2, <1>3, <1>4, <1>5, CustodyStep DEF Cust!Next

\* R1, R3 and R4 together: every step of spool, archive, flush, verify and
\* format is a step of Custody or changes nothing Custody can see.
THEOREM TiersImplementsCustody ==
  ASSUME Fragile \subseteq Spools
  PROVE  Spec => ImplementsCustody
<1>1. Init => Kept
  BY CustodyInit DEF Cust!Init, Kept
<1>2. Safety /\ Kept /\ [Next]_vars => Kept'
  BY KeptStep
<1>3. Safety /\ Kept /\ [Next]_vars => [Cust!Next]_Held
  BY CustodyStep
<1>4. Init => Cust!Init
  BY CustodyInit
<1>5. Held = [a \in Assets |-> Holders(a)]
  BY DEF Held
<1> QED BY <1>1, <1>2, <1>3, <1>4, <1>5, SafetyInvariant, PTL
        DEF Spec, ImplementsCustody, Cust!Spec, Held

\* Under the same assumption no asset is ever lost: it is whole on its card or
\* on a NAS.
THEOREM NeverLost ==
  ASSUME Fragile \subseteq Spools
  PROVE  Spec => []Cust!AlwaysHeld
<1>1. Init => Kept
  BY CustodyInit DEF Cust!Init, Kept
<1>2. Safety /\ Kept /\ [Next]_vars => Kept'
  BY KeptStep
<1>3. Kept => Cust!AlwaysHeld
  BY DEF Kept, Cust!AlwaysHeld
<1> QED BY <1>1, <1>2, <1>3, SafetyInvariant, PTL DEF Spec
=============================================================================
