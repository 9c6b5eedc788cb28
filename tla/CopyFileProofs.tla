--------------------------- MODULE CopyFileProofs ---------------------------
(***************************************************************************)
(* Theorems about CopyFile for sources of every size, every number of      *)
(* edits, losses of power and interrupted attempts.  Types hold for any    *)
(* number of copiers, what a file with its final name holds for the one    *)
(* that lockAsset lets run.                                                *)
(***************************************************************************)
EXTENDS CopyFile, SequenceTheorems, TLAPS

\* lockAsset: one Copy at a time for a destination.
OneCopier == \A c, d \in Copiers : c = d

-----------------------------------------------------------------------------
(* Types.                                                                  *)

PCs == {"idle", "check", "open", "resume", "cut", "stream", "sync", "verify",
        "rename", "dirsync"}

Results == {"none", "ok", "exists", "source", "verify", "failed"}

IDs == {SparseID(c) : c \in UNION {[1..n -> Extent] : n \in 0..Size}} \cup {None}

\* The state of a copier, by the fields of one call of Copy.
LEMMA JobType ==
  Job = [pc : PCs, id : IDs, size : 0..Size, fd : Inodes \cup {None},
         pos : 0..Size, resumed : BOOLEAN, hash : Seq(Extent), result : Results]
BY DEF Job, PCs, IDs, Results

\* The identity of a source that is no longer than the catalogued one.
LEMMA IDType ==
  ASSUME NEW s \in Seq(Extent), Len(s) <= Size
  PROVE  SparseID(s) \in IDs
<1>1. Len(s) \in 0..Size /\ s \in [1..Len(s) -> Extent]
  BY CopyFileAssumption
<1> QED BY <1>1 DEF IDs

\* What Copy returns leaves a copier in.
LEMMA IdleType ==
  ASSUME NEW r \in Results
  PROVE  IdleJob(r) \in Job
BY CopyFileAssumption, JobType DEF IdleJob, PCs, IDs

\* Going to the next point of Copy leaves the copiers well typed.
LEMMA GotoType ==
  ASSUME TypeOK, NEW c \in Copiers, NEW pc \in PCs, Goto(c, pc)
  PROVE  copier' \in [Copiers -> Job]
BY JobType DEF TypeOK, Goto

\* So does returning.
LEMMA ReturnType ==
  ASSUME TypeOK, NEW c \in Copiers, NEW r \in Results, Return(c, r)
  PROVE  copier' \in [Copiers -> Job]
BY IdleType DEF TypeOK, Return

\* A write leaves a sequence, as long as it was or one longer.
LEMMA WrittenType ==
  ASSUME NEW f \in Seq(Extent), NEW k \in Nat \ {0}, NEW x \in Extent
  PROVE  /\ Written(f, k, x) \in Seq(Extent)
         /\ k = Len(f) + 1 => Written(f, k, x) = Append(f, x)
<1> DEFINE n == IF k > Len(f) THEN k ELSE Len(f)
<1>1. n \in Nat
  OBVIOUS
<1>2. Written(f, k, x) \in [1..n -> Extent]
  BY DEF Written, Extent
<1>3. [1..n -> Extent] \subseteq Seq(Extent)
  BY <1>1
<1>4. ASSUME k = Len(f) + 1 PROVE Written(f, k, x) = Append(f, x)
  <2>1. Written(f, k, x) = [j \in 1..k |-> IF j = k THEN x ELSE f[j]]
    BY <1>4 DEF Written
  <2>2. Append(f, x) \in Seq(Extent) /\ Len(Append(f, x)) = k
    BY <1>4, AppendProperties
  <2>3. Written(f, k, x) \in Seq(Extent) /\ Len(Written(f, k, x)) = k
    BY <1>2, <1>3, <1>4, <2>1
  <2>4. ASSUME NEW j \in 1..k PROVE Written(f, k, x)[j] = Append(f, x)[j]
    BY <1>4, <2>1, AppendProperties
  <2> QED BY <2>2, <2>3, <2>4, SeqEqual
<1> QED BY <1>2, <1>3, <1>4

\* The state before the first copy is well typed.
LEMMA TypeInit == Init => TypeOK
<1> SUFFICES ASSUME Init PROVE TypeOK
  OBVIOUS
<1>1. Original \in Seq(Extent) /\ Len(Original) = Size
  BY CopyFileAssumption DEF Original, Extent
<1>2. copier \in [Copiers -> Job]
  BY IdleType DEF Init, Results
<1>3. [i \in Inodes |-> <<>>] \in [Inodes -> Seq(Extent)]
  BY EmptySeq
<1>4. /\ src \in Seq(Extent) /\ Len(src) <= Size
      /\ file \in [Inodes -> Seq(Extent)] /\ durable \in [Inodes -> Seq(Extent)]
  BY <1>1, <1>3, CopyFileAssumption DEF Init
<1>5. 0 \in 0..MaxEdits /\ 0 \in 0..MaxLosses
  BY CopyFileAssumption
<1> QED BY <1>2, <1>4, <1>5 DEF Init, TypeOK

Holding == {"resume", "cut", "stream", "sync", "verify", "rename", "dirsync"}

\* From OpenPartial on a copier has a file open.
Shape == \A c \in Copiers : copier[c].pc \in Holding => copier[c].fd \in Inodes

\* Nothing is open in it.
LEMMA ShapeInit == Init => Shape
BY DEF Init, Shape, Holding, IdleJob

\* What a power loss leaves is a sequence, and a synced file is left as it is.
LEMMA SurvivorsType ==
  ASSUME TypeOK, NEW i \in Inodes
  PROVE  /\ Survivors(i) \subseteq Seq(Extent)
         /\ file[i] = durable[i] => Survivors(i) = {file[i]}
<1> DEFINE f == file[i]
           d == durable[i]
           Left(k) == IF k <= Len(f) /\ k <= Len(d) /\ f[k] = d[k] THEN {f[k]}
                      ELSE {"lost"} \cup (IF k <= Len(f) THEN {f[k]} ELSE {})
                                    \cup (IF k <= Len(d) THEN {d[k]} ELSE {})
           With(n) == {c \in [1..n -> Extent] : \A k \in 1..n : c[k] \in Left(k)}
<1>1. f \in Seq(Extent) /\ d \in Seq(Extent) /\ Len(f) \in Nat /\ Len(d) \in Nat
  BY DEF TypeOK
<1>2. Survivors(i) = UNION {With(n) : n \in {Len(f), Len(d)}}
  BY DEF Survivors
<1>3. ASSUME NEW n \in Nat PROVE With(n) \subseteq Seq(Extent)
  <2>1. [1..n -> Extent] \subseteq Seq(Extent)
    OBVIOUS
  <2>2. With(n) \subseteq [1..n -> Extent]
    OBVIOUS
  <2> QED BY <2>1, <2>2
<1>4. ASSUME f = d PROVE Survivors(i) = {f}
  <2>1. ASSUME NEW k \in 1..Len(f) PROVE Left(k) = {f[k]}
    BY <1>1, <1>4
  <2> HIDE DEF Left
  <2>2. f \in [1..Len(f) -> Extent]
    BY <1>1, LenProperties
  <2>3. ASSUME NEW c \in [1..Len(f) -> Extent], \A k \in 1..Len(f) : c[k] = f[k]
        PROVE  c = f
    BY <2>2, <2>3
  <2>4. With(Len(f)) = {f}
    BY <2>1, <2>2, <2>3
  <2> HIDE DEF With, f, d
  <2>5. Survivors(i) = With(Len(f))
    BY <1>2, <1>4
  <2> QED BY <2>4, <2>5
<1> HIDE DEF With
<1> QED BY <1>1, <1>2, <1>3, <1>4

\* An edit of the source keeps it a file of at most Size extents.
LEMMA TypeEdit ==
  ASSUME TypeOK, Edit
  PROVE  src' \in Seq(Extent) /\ Len(src') <= Size
<1>0. src \in Seq(Extent) /\ Len(src) \in Nat /\ Len(src) <= Size /\ Size \in Nat
  BY CopyFileAssumption DEF TypeOK
<1>1. ASSUME NEW k \in 1..Len(src), src' = [src EXCEPT ![k] = "edit"]
      PROVE  src' \in Seq(Extent) /\ Len(src') <= Size
  <2>1. "edit" \in Extent
    BY DEF Extent
  <2> QED BY <1>0, <1>1, <2>1, ExceptSeq
<1>2. ASSUME Len(src) > 1, src' = SubSeq(src, 1, Len(src) - 1)
      PROVE  src' \in Seq(Extent) /\ Len(src') <= Size
  <2>1. \A k \in 1..(Len(src) - 1) : src[k] \in Extent
    BY <1>0, ElementOfSeq
  <2>2. src' \in Seq(Extent) /\ Len(src') = Len(src) - 1
    BY <1>0, <1>2, <2>1, SubSeqProperties
  <2> QED BY <1>0, <2>2
<1> QED BY <1>1, <1>2 DEF Edit

\* Types are kept by every step, whoever else is copying.
LEMMA TypeStep ==
  ASSUME TypeOK, Shape, [Next]_vars
  PROVE  TypeOK' /\ Shape'
<1> DEFINE Frame == UNCHANGED <<src, expect, partial, final, file, durable,
                                settled, told, versions, torn, edits, losses>>
<1>0. ASSUME NEW c \in Copiers, NEW j \in Job,
             copier' = [copier EXCEPT ![c] = j],
             j.pc \in Holding => j.fd \in Inodes
      PROVE  copier' \in [Copiers -> Job] /\ Shape'
  BY <1>0 DEF TypeOK, Shape
<1>1. ASSUME NEW c \in Copiers, NEW r \in Results, Return(c, r)
      PROVE  copier' \in [Copiers -> Job] /\ Shape'
  <2>1. IdleJob(r).pc \notin Holding
    BY DEF IdleJob, Holding
  <2> QED BY <1>0, <1>1, <2>1, IdleType DEF Return
<1>2. ASSUME NEW c \in Copiers, NEW pc \in PCs, Goto(c, pc),
             pc \in Holding => copier[c].pc \in Holding
      PROVE  copier' \in [Copiers -> Job] /\ Shape'
  <2>1. copier[c] \in Job
    BY DEF TypeOK
  <2>2. [copier[c] EXCEPT !.pc = pc] \in Job
    BY <2>1, JobType
  <2>3. [copier[c] EXCEPT !.pc = pc].pc = pc /\ [copier[c] EXCEPT !.pc = pc].fd = copier[c].fd
    BY <2>1, JobType
  <2> QED BY <1>0, <1>2, <2>2, <2>3 DEF Goto, Shape
<1>3. ASSUME NEW c \in Copiers, Open(c) PROVE TypeOK' /\ Shape'
  <2>1. Frame
    BY <1>3 DEF Open
  <2>2. CASE Return(c, "source")
    BY <1>1, <2>1, <2>2 DEF TypeOK, Results
  <2>3. CASE copier' = [copier EXCEPT ![c] =
            [IdleJob("none") EXCEPT !.pc = "check", !.id = SparseID(src),
                                    !.size = Len(src)]]
    <3> DEFINE j == [IdleJob("none") EXCEPT !.pc = "check", !.id = SparseID(src),
                                            !.size = Len(src)]
    <3>1. IdleJob("none") \in Job /\ SparseID(src) \in IDs /\ Len(src) \in 0..Size
      BY IdleType, IDType, CopyFileAssumption DEF TypeOK, Results
    <3>2. j \in Job /\ j.pc = "check"
      BY <3>1, JobType DEF PCs
    <3>3. copier' \in [Copiers -> Job] /\ Shape'
      BY <1>0, <2>3, <3>2 DEF Holding
    <3> QED BY <2>1, <3>3 DEF TypeOK
  <2> QED BY <1>3, <2>2, <2>3 DEF Open
<1>4. ASSUME NEW c \in Copiers, Check(c) PROVE TypeOK' /\ Shape'
  <2>1. copier' \in [Copiers -> Job] /\ Shape'
    BY <1>1, <1>2, <1>4 DEF Check, CheckFinal, PCs, Results, Holding
  <2> QED BY <1>4, <2>1 DEF Check, TypeOK
<1>5. ASSUME NEW c \in Copiers, OpenPartial(c) PROVE TypeOK' /\ Shape'
  <2>1. PICK i \in IF partial = None THEN Free ELSE {partial} :
          /\ partial' = i
          /\ file' = IF partial = None THEN [file EXCEPT ![i] = <<>>] ELSE file
          /\ durable' = IF partial = None THEN [durable EXCEPT ![i] = <<>>]
                                          ELSE durable
          /\ copier' = [copier EXCEPT ![c] =
               [copier[c] EXCEPT !.pc = "resume", !.fd = i]]
    BY <1>5 DEF OpenPartial
  <2>2. i \in Inodes
    BY DEF Free, TypeOK
  <2> DEFINE j == [copier[c] EXCEPT !.pc = "resume", !.fd = i]
  <2>3. j \in Job /\ j.fd = i
    BY <2>2, JobType DEF TypeOK, PCs
  <2>4. copier' \in [Copiers -> Job] /\ Shape'
    BY <1>0, <2>1, <2>2, <2>3
  <2>5. file' \in [Inodes -> Seq(Extent)] /\ durable' \in [Inodes -> Seq(Extent)]
    BY <2>1, EmptySeq DEF TypeOK
  <2> QED BY <1>5, <2>1, <2>2, <2>4, <2>5 DEF OpenPartial, TypeOK
<1>6. ASSUME NEW c \in Copiers, Resume(c) PROVE TypeOK' /\ Shape'
  <2> DEFINE n == Len(file[copier[c].fd])
             j == [copier[c] EXCEPT !.pc = "stream", !.pos = n, !.resumed = TRUE]
  <2>1. copier[c].fd \in Inodes /\ n \in Nat
    BY <1>6 DEF Resume, Shape, Holding, TypeOK
  <2>2. CASE n <= Len(src) /\ copier' = [copier EXCEPT ![c] = j]
    <3>1. n \in 0..Size
      BY <2>1, <2>2, CopyFileAssumption DEF TypeOK
    <3>2. j \in Job /\ j.fd = copier[c].fd
      BY <3>1, JobType DEF TypeOK, PCs
    <3>3. copier' \in [Copiers -> Job] /\ Shape'
      BY <1>0, <2>1, <2>2, <3>2
    <3> QED BY <1>6, <3>3 DEF Resume, TypeOK
  <2>3. CASE Goto(c, "cut")
    <3>1. copier' \in [Copiers -> Job] /\ Shape'
      BY <1>2, <1>6, <2>3 DEF Resume, PCs, Holding
    <3> QED BY <1>6, <3>1 DEF Resume, TypeOK
  <2> QED BY <1>6, <2>2, <2>3 DEF Resume, Kept
<1>7. ASSUME NEW c \in Copiers, Cut(c) PROVE TypeOK' /\ Shape'
  <2>1. copier' \in [Copiers -> Job] /\ Shape'
    BY <1>2, <1>7 DEF Cut, PCs, Holding
  <2>2. file' \in [Inodes -> Seq(Extent)]
    BY <1>7, EmptySeq DEF Cut, TypeOK
  <2> QED BY <1>7, <2>1, <2>2 DEF Cut, TypeOK
<1>8. ASSUME NEW c \in Copiers, Stream(c) PROVE TypeOK' /\ Shape'
  <2> DEFINE k == copier[c].pos + 1
  <2>0. copier[c] \in Job /\ copier[c].pos \in 0..Size /\ copier[c].hash \in Seq(Extent)
    BY JobType DEF TypeOK
  <2>1. CASE Goto(c, "sync") /\ UNCHANGED file
    <3>1. copier' \in [Copiers -> Job] /\ Shape'
      BY <1>2, <1>8, <2>1 DEF Stream, PCs, Holding
    <3> QED BY <1>8, <2>1, <3>1 DEF Stream, TypeOK
  <2>2. CASE Return(c, "failed") /\ UNCHANGED file
    <3>1. copier' \in [Copiers -> Job] /\ Shape'
      BY <1>1, <2>2 DEF Results
    <3> QED BY <1>8, <2>2, <3>1 DEF Stream, TypeOK
  <2>3. ASSUME k <= Len(src),
               file' = [file EXCEPT ![copier[c].fd] =
                          Written(file[copier[c].fd], k, src[k])],
               copier' = [copier EXCEPT ![c] =
                 [copier[c] EXCEPT !.pos = k, !.hash = Append(@, src[k])]]
        PROVE  TypeOK' /\ Shape'
    <3> DEFINE j == [copier[c] EXCEPT !.pos = k, !.hash = Append(@, src[k])]
    <3>1. copier[c].fd \in Inodes
      BY <1>8 DEF Stream, Shape, Holding
    <3>2. k \in 1..Len(src) /\ k \in 0..Size /\ src[k] \in Extent
      BY <2>0, <2>3, CopyFileAssumption, ElementOfSeq DEF TypeOK
    <3>3. Append(copier[c].hash, src[k]) \in Seq(Extent)
      BY <2>0, <3>2, AppendProperties
    <3>4. j \in Job /\ j.fd = copier[c].fd
      BY <2>0, <3>2, <3>3, JobType
    <3>5. copier' \in [Copiers -> Job] /\ Shape'
      BY <1>0, <2>3, <3>1, <3>4
    <3>6. Written(file[copier[c].fd], k, src[k]) \in Seq(Extent)
      <4>0. k \in Nat \ {0}
        BY <3>2 DEF TypeOK
      <4>1. file[copier[c].fd] \in Seq(Extent)
        BY <3>1 DEF TypeOK
      <4> HIDE DEF k
      <4> QED BY <3>2, <4>0, <4>1, WrittenType
    <3>7. file' \in [Inodes -> Seq(Extent)]
      BY <2>3, <3>6 DEF TypeOK
    <3> QED BY <1>8, <3>5, <3>7 DEF Stream, TypeOK
  <2>4. Len(src) \in Nat /\ k \in Nat
    BY <2>0 DEF TypeOK
  <2> QED BY <1>8, <2>1, <2>2, <2>3, <2>4 DEF Stream
<1>9. ASSUME NEW c \in Copiers, Sync(c) PROVE TypeOK' /\ Shape'
  <2>1. copier' \in [Copiers -> Job] /\ Shape'
    BY <1>2, <1>9 DEF Sync, PCs, Holding
  <2>2. durable' \in [Inodes -> Seq(Extent)]
    BY <1>9 DEF Sync, TypeOK, Shape, Holding
  <2> QED BY <1>9, <2>1, <2>2 DEF Sync, TypeOK
<1>10. ASSUME NEW c \in Copiers, Verify(c) PROVE TypeOK' /\ Shape'
  <2>1. copier' \in [Copiers -> Job] /\ Shape'
    BY <1>1, <1>2, <1>10 DEF Verify, PCs, Results, Holding
  <2> QED BY <1>10, <2>1 DEF Verify, TypeOK
<1>11. ASSUME NEW c \in Copiers, Rename(c) PROVE TypeOK' /\ Shape'
  <2>1. copier' \in [Copiers -> Job] /\ Shape'
    BY <1>1, <1>2, <1>11 DEF Rename, PCs, Results, Holding
  <2> QED BY <1>11, <2>1 DEF Rename, TypeOK
<1>12. ASSUME NEW c \in Copiers, SyncDir(c) PROVE TypeOK' /\ Shape'
  <2>1. copier' \in [Copiers -> Job] /\ Shape'
    BY <1>1, <1>12 DEF SyncDir, Results
  <2>2. told' \in Seq(Extent) \cup {None}
    BY <1>12, JobType DEF SyncDir, FullHash, TypeOK
  <2> QED BY <1>12, <2>1, <2>2 DEF SyncDir, TypeOK
<1>13. ASSUME NEW c \in Copiers, Stop(c) PROVE TypeOK' /\ Shape'
  <2>1. copier' \in [Copiers -> Job] /\ Shape'
    BY <1>1, <1>13 DEF Stop, Results
  <2> QED BY <1>13, <2>1 DEF Stop, TypeOK
<1>14. CASE Edit
  <2>1. edits' \in 0..MaxEdits
    <3>1. edits < MaxEdits /\ edits' = edits + 1
      BY <1>14 DEF Edit
    <3> QED BY <3>1, CopyFileAssumption DEF TypeOK
  <2> QED BY <1>14, <2>1, TypeEdit DEF Edit, TypeOK, Shape
<1>15. CASE LosePower
  <2>1. losses' \in 0..MaxLosses
    <3>1. losses < MaxLosses /\ losses' = losses + 1
      BY <1>15 DEF LosePower
    <3> QED BY <3>1, CopyFileAssumption DEF TypeOK
  <2>2. ASSUME NEW i \in Inodes PROVE file'[i] \in Seq(Extent)
    <3>1. file'[i] \in Survivors(i)
      BY <1>15 DEF LosePower
    <3> QED BY <3>1, SurvivorsType
  <2>3. file' \in [Inodes -> Seq(Extent)]
    <3> DEFINE T == UNION {Survivors(i) : i \in Inodes}
    <3>0. file' \in {g \in [Inodes -> T] : \A i \in Inodes : g[i] \in Survivors(i)}
      BY <1>15 DEF LosePower
    <3> HIDE DEF T
    <3>1. file' = [i \in Inodes |-> file'[i]]
      BY <3>0
    <3> QED BY <2>2, <3>1
  <2>4. copier' \in [Copiers -> Job]
    BY <1>15, IdleType DEF LosePower, Results
  <2>5. Shape'
    BY <1>15 DEF LosePower, Shape, Holding, IdleJob
  <2> QED BY <1>15, <2>1, <2>3, <2>4, <2>5 DEF LosePower, TypeOK
<1>16. CASE UNCHANGED vars
  BY <1>16 DEF vars, TypeOK, Shape
<1> QED BY <1>3, <1>4, <1>5, <1>6, <1>7, <1>8, <1>9, <1>10, <1>11, <1>12, <1>13,
           <1>14, <1>15, <1>16 DEF Next, CopyStep

\* Types and shapes hold in every reachable state, for any number of copiers.
THEOREM TypeCorrect == Spec => []TypeOK
<1>1. TypeOK /\ Shape /\ [Next]_vars => (TypeOK /\ Shape)'
  BY TypeStep
<1> QED BY <1>1, TypeInit, ShapeInit, PTL DEF Spec

-----------------------------------------------------------------------------
(* What a file with its final name holds.                                  *)

\* An identity a finished file may have.
Wanted(id) ==
  id \in {SparseID(v) : v \in versions} /\ (expect => id = SparseID(Original))

\* The identity, and that the file is on the platter: a power loss leaves it as it is.
FinalOK ==
  final # None => Wanted(SparseID(file[final])) /\ durable[final] = file[final]

\* What the copier has established on its way, and may still rely on.
CopierOK(c) ==
  LET j == copier[c]
  IN /\ j.pc # "idle" => j.result = "none" /\ Wanted(j.id)
     /\ j.pc \in {"check", "open", "resume", "cut"} =>
          ~j.resumed /\ j.hash = <<>> /\ j.pos = 0
     /\ j.pc \in {"open"} \cup (Holding \ {"dirsync"}) => final = None
     /\ j.pc \in Holding \ {"dirsync"} => partial = j.fd
     /\ j.pc = "stream" /\ ~j.resumed => Len(j.hash) = j.pos
     /\ j.pc \in {"stream", "sync", "verify", "rename", "dirsync"} /\ ~j.resumed =>
          file[j.fd] = j.hash
     /\ j.pc \in {"verify", "rename"} => durable[j.fd] = file[j.fd]
     /\ j.pc = "rename" => SparseID(file[j.fd]) = j.id
     /\ j.pc = "dirsync" => final = j.fd

Safety ==
  /\ src \in versions
  /\ partial # None => partial # final
  /\ FinalOK
  /\ \A c \in Copiers : CopierOK(c)

\* A destination without a file is safe.
LEMMA SafetyInit == Init => Safety
BY CopyFileAssumption DEF Init, Safety, FinalOK, CopierOK, IdleJob, Holding

\* An attempt that ends without a file leaves what was there.
LEMMA SafetyReturn ==
  ASSUME OneCopier, Safety, NEW c \in Copiers, NEW r \in Results, TypeOK, Return(c, r),
         UNCHANGED <<src, expect, partial, final, durable, versions>>,
         file' = file
  PROVE  Safety'
<1>1. copier' = [d \in Copiers |-> IdleJob(r)]
  BY DEF Return, TypeOK, OneCopier
<1> QED BY <1>1 DEF Safety, FinalOK, CopierOK, Wanted, IdleJob, Holding

\* What the one copier takes along to the next point of Copy.
LEMMA SafetyGoto ==
  ASSUME TypeOK, OneCopier, Safety, NEW c \in Copiers, NEW pc \in PCs, Goto(c, pc)
  PROVE  \A d \in Copiers :
           /\ copier'[d] \in Job /\ copier'[d].pc = pc
           /\ copier'[d].id = copier[c].id /\ copier'[d].size = copier[c].size
           /\ copier'[d].fd = copier[c].fd /\ copier'[d].pos = copier[c].pos
           /\ copier'[d].resumed = copier[c].resumed
           /\ copier'[d].hash = copier[c].hash
           /\ copier'[d].result = copier[c].result
<1>1. copier[c] \in Job
  BY DEF TypeOK
<1>2. \A d \in Copiers : copier'[d] = [copier[c] EXCEPT !.pc = pc]
  BY DEF Goto, TypeOK, OneCopier
<1> QED BY <1>1, <1>2, JobType

\* No step, of Copy, an editor or a power loss, breaks the invariant of one copier.
LEMMA SafetyStep ==
  ASSUME TypeOK, Shape, OneCopier, Safety, [Next]_vars
  PROVE  Safety'
<1> USE DEF Safety
<1>0. ASSUME NEW c \in Copiers PROVE CopierOK(c) /\ copier[c] \in Job
  BY DEF TypeOK
<1>1. ASSUME NEW c \in Copiers, Open(c) PROVE Safety'
  <2>1. CASE Return(c, "source")
    BY <1>1, <2>1, SafetyReturn DEF Open, Results
  <2>2. CASE ~(expect /\ SparseID(src) # SparseID(Original))
    <3> DEFINE j == [IdleJob("none") EXCEPT !.pc = "check", !.id = SparseID(src),
                                            !.size = Len(src)]
    <3>1. \A d \in Copiers : copier'[d] = j
      BY <1>1, <2>2 DEF Open, OneCopier, TypeOK
    <3>2. /\ j.pc = "check" /\ j.id = SparseID(src) /\ j.result = "none"
          /\ ~j.resumed /\ j.hash = <<>> /\ j.pos = 0
      BY DEF IdleJob
    <3> HIDE DEF j
    <3>3. \A d \in Copiers : CopierOK(d)'
      BY <1>1, <2>2, <3>1, <3>2 DEF Open, CopierOK, Wanted, Holding
    <3> QED BY <1>1, <3>3 DEF Open, FinalOK, Wanted
  <2> QED BY <1>1, <2>1, <2>2 DEF Open
<1>2. ASSUME NEW c \in Copiers, Check(c) PROVE Safety'
  <2>1. CASE final = None /\ Goto(c, "open")
    <3>1. \A d \in Copiers : CopierOK(d)'
      BY <1>0, <1>2, <2>1, SafetyGoto DEF Check, CopierOK, Wanted, PCs, Holding
    <3> QED BY <1>2, <3>1 DEF Check, FinalOK, Wanted
  <2>2. CASE Return(c, "ok") \/ Return(c, "exists")
    BY <1>2, <2>2, SafetyReturn DEF Check, Results
  <2> QED BY <1>2, <2>1, <2>2 DEF Check, CheckFinal
<1>3. ASSUME NEW c \in Copiers, OpenPartial(c) PROVE Safety'
  <2>1. PICK i \in IF partial = None THEN Free ELSE {partial} :
          /\ partial' = i
          /\ file' = IF partial = None THEN [file EXCEPT ![i] = <<>>] ELSE file
          /\ durable' = IF partial = None THEN [durable EXCEPT ![i] = <<>>]
                                          ELSE durable
          /\ copier' = [copier EXCEPT ![c] =
               [copier[c] EXCEPT !.pc = "resume", !.fd = i]]
    BY <1>3 DEF OpenPartial
  <2>2. i \in Inodes /\ i # None
    BY CopyFileAssumption DEF Free, TypeOK
  <2>3. final = None /\ final' = None
    BY <1>0, <1>3 DEF OpenPartial, CopierOK
  <2> DEFINE j == [copier[c] EXCEPT !.pc = "resume", !.fd = i]
  <2>4. \A d \in Copiers : copier'[d] = j
    BY <2>1 DEF OneCopier, TypeOK
  <2>5. /\ j.pc = "resume" /\ j.fd = i /\ j.id = copier[c].id
        /\ j.pos = copier[c].pos /\ j.resumed = copier[c].resumed
        /\ j.hash = copier[c].hash /\ j.result = copier[c].result
    BY <1>0, JobType
  <2> HIDE DEF j
  <2>6. \A d \in Copiers : CopierOK(d)'
    BY <1>0, <1>3, <2>1, <2>3, <2>4, <2>5 DEF OpenPartial, CopierOK, Wanted, Holding
  <2> QED BY <1>3, <2>1, <2>2, <2>3, <2>6 DEF OpenPartial, FinalOK
<1>4. ASSUME NEW c \in Copiers, Resume(c) PROVE Safety'
  <2> DEFINE n == Len(file[copier[c].fd])
             j == [copier[c] EXCEPT !.pc = "stream", !.pos = n, !.resumed = TRUE]
  <2>1. CASE copier' = [copier EXCEPT ![c] = j]
    <3>1. \A d \in Copiers : copier'[d] = j
      BY <2>1 DEF OneCopier, TypeOK
    <3>2. /\ j.pc = "stream" /\ j.resumed /\ j.fd = copier[c].fd
          /\ j.id = copier[c].id /\ j.result = copier[c].result
      BY <1>0, JobType
    <3> HIDE DEF j
    <3>3. \A d \in Copiers : CopierOK(d)'
      BY <1>0, <1>4, <3>1, <3>2 DEF Resume, CopierOK, Wanted, Holding
    <3> QED BY <1>4, <3>3 DEF Resume, FinalOK, Wanted
  <2>2. CASE Goto(c, "cut")
    <3>1. \A d \in Copiers : CopierOK(d)'
      BY <1>0, <1>4, <2>2, SafetyGoto DEF Resume, CopierOK, Wanted, PCs, Holding
    <3> QED BY <1>4, <3>1 DEF Resume, FinalOK, Wanted
  <2> QED BY <1>4, <2>1, <2>2 DEF Resume, Kept
<1>5. ASSUME NEW c \in Copiers, Cut(c) PROVE Safety'
  <2>1. copier[c].fd \in Inodes /\ final = None
    BY <1>0, <1>5 DEF Cut, Shape, Holding, CopierOK
  <2>2. file'[copier[c].fd] = <<>>
    BY <1>5, <2>1 DEF Cut, TypeOK
  <2>3. \A d \in Copiers : CopierOK(d)'
    BY <1>0, <1>5, <2>1, <2>2, SafetyGoto DEF Cut, CopierOK, Wanted, PCs, Holding
  <2> QED BY <1>5, <2>1, <2>3 DEF Cut, FinalOK
<1>6. ASSUME NEW c \in Copiers, Stream(c) PROVE Safety'
  <2> DEFINE k == copier[c].pos + 1
             j == [copier[c] EXCEPT !.pos = k, !.hash = Append(@, src[k])]
  <2>1. CASE Goto(c, "sync") /\ UNCHANGED file
    <3>1. \A d \in Copiers : CopierOK(d)'
      BY <1>0, <1>6, <2>1, SafetyGoto DEF Stream, CopierOK, Wanted, PCs, Holding
    <3> QED BY <1>6, <2>1, <3>1 DEF Stream, FinalOK, Wanted
  <2>2. CASE Return(c, "failed") /\ UNCHANGED file
    BY <1>6, <2>2, SafetyReturn DEF Stream, Results
  <2>3. ASSUME k <= Len(src),
               file' = [file EXCEPT ![copier[c].fd] =
                          Written(file[copier[c].fd], k, src[k])],
               copier' = [copier EXCEPT ![c] = j]
        PROVE  Safety'
    <3>1. copier[c].fd \in Inodes /\ final = None
      BY <1>0, <1>6 DEF Stream, Shape, Holding, CopierOK
    <3>2. /\ k \in Nat \ {0} /\ k \in 1..Len(src) /\ copier[c].hash \in Seq(Extent)
          /\ file[copier[c].fd] \in Seq(Extent) /\ src[k] \in Extent
      <4>1. src \in Seq(Extent) /\ file[copier[c].fd] \in Seq(Extent)
        BY <3>1 DEF TypeOK
      <4>2. copier[c].pos \in Nat /\ copier[c].hash \in Seq(Extent)
        BY <1>0, JobType DEF TypeOK
      <4>3. Len(src) \in Nat
        BY <4>1
      <4> QED BY <2>3, <4>1, <4>2, <4>3, ElementOfSeq
    <3>3. \A d \in Copiers : copier'[d] = j
      BY <2>3 DEF OneCopier, TypeOK
    <3>4. /\ j.pc = copier[c].pc /\ j.resumed = copier[c].resumed
          /\ j.fd = copier[c].fd /\ j.id = copier[c].id
          /\ j.result = copier[c].result
          /\ j.pos = k /\ j.hash = Append(copier[c].hash, src[k])
      BY <1>0, JobType
    <3> HIDE DEF j
    <3>5. ASSUME ~copier[c].resumed
          PROVE  Len(j.hash) = k /\ file'[copier[c].fd] = j.hash
      <4>1. Len(copier[c].hash) + 1 = k /\ file[copier[c].fd] = copier[c].hash
        BY <1>0, <1>6, <3>5, JobType DEF Stream, CopierOK
      <4>2. Written(copier[c].hash, k, src[k]) = j.hash
        BY <3>2, <3>4, <4>1, WrittenType
      <4>3. Len(j.hash) = k
        BY <3>2, <3>4, <4>1, AppendProperties
      <4>4. file'[copier[c].fd] = j.hash
        BY <2>3, <3>1, <4>1, <4>2 DEF TypeOK
      <4> QED BY <4>3, <4>4
    <3>6. /\ copier[c].pc = "stream" /\ partial = copier[c].fd
          /\ Wanted(copier[c].id) /\ copier[c].result = "none"
          /\ UNCHANGED <<expect, versions, partial, final>>
      BY <1>0, <1>6 DEF Stream, CopierOK, Holding
    <3> HIDE DEF k
    <3>7. \A d \in Copiers : CopierOK(d)'
      BY <3>1, <3>3, <3>4, <3>5, <3>6 DEF CopierOK, Wanted, Holding
    <3> QED BY <1>6, <3>1, <3>7 DEF Stream, FinalOK
  <2>4. Len(src) \in Nat /\ k \in Nat
    BY <1>0, JobType DEF TypeOK
  <2> QED BY <1>6, <2>1, <2>2, <2>3, <2>4 DEF Stream
<1>7. ASSUME NEW c \in Copiers, Sync(c) PROVE Safety'
  <2>1. copier[c].fd \in Inodes /\ final = None
    BY <1>0, <1>7 DEF Sync, Shape, Holding, CopierOK
  <2>2. durable'[copier[c].fd] = file[copier[c].fd]
    BY <1>7, <2>1 DEF Sync, TypeOK
  <2>3. \A d \in Copiers : CopierOK(d)'
    BY <1>0, <1>7, <2>1, <2>2, SafetyGoto DEF Sync, CopierOK, Wanted, PCs, Holding
  <2> QED BY <1>7, <2>1, <2>3 DEF Sync, FinalOK
<1>8. ASSUME NEW c \in Copiers, Verify(c) PROVE Safety'
  <2>1. CASE Complete(copier[c].fd, c) /\ Goto(c, "rename")
    <3>1. \A d \in Copiers : CopierOK(d)'
      BY <1>0, <1>8, <2>1, SafetyGoto DEF Verify, Complete, CopierOK, Wanted, PCs, Holding
    <3> QED BY <1>8, <3>1 DEF Verify, FinalOK, Wanted
  <2>2. CASE Return(c, "verify")
    BY <1>8, <2>2, SafetyReturn DEF Verify, Results
  <2> QED BY <1>8, <2>1, <2>2 DEF Verify
<1>9. ASSUME NEW c \in Copiers, Rename(c) PROVE Safety'
  <2>1. /\ copier[c].fd \in Inodes /\ partial = copier[c].fd /\ partial # None
        /\ Wanted(SparseID(file[partial])) /\ durable[partial] = file[partial]
    BY <1>0, <1>9, CopyFileAssumption DEF Rename, Shape, Holding, CopierOK
  <2>2. final' = partial /\ partial' = None /\ Goto(c, "dirsync")
    BY <1>9, <2>1 DEF Rename
  <2>3. \A d \in Copiers : CopierOK(d)'
    BY <1>0, <1>9, <2>1, <2>2, SafetyGoto DEF Rename, CopierOK, Wanted, PCs, Holding
  <2> QED BY <1>9, <2>1, <2>2, <2>3 DEF Rename, FinalOK, Wanted
<1>10. ASSUME NEW c \in Copiers, SyncDir(c) \/ Stop(c) PROVE Safety'
  BY <1>10, SafetyReturn DEF SyncDir, Stop, Results
<1>11. CASE Edit
  <2>1. versions \subseteq versions' /\ src' \in versions'
    BY <1>11 DEF Edit
  <2>2. \A id : Wanted(id) => Wanted(id)'
    BY <1>11, <2>1 DEF Edit, Wanted
  <2>3. \A c \in Copiers : CopierOK(c)'
    BY <1>0, <1>11, <2>2 DEF Edit, CopierOK
  <2> QED BY <1>11, <2>1, <2>2, <2>3 DEF Edit, FinalOK
<1>12. CASE LosePower
  <2>1. \A c \in Copiers : CopierOK(c)'
    BY <1>12 DEF LosePower, CopierOK, IdleJob, Holding
  <2>2. ASSUME final' # None
        PROVE  final' = final /\ file'[final] = file[final] /\ partial' = partial
    <3>1. final' = final /\ partial' = partial
      BY <1>12, <2>2 DEF LosePower
    <3>2. final \in Inodes /\ durable[final] = file[final]
      BY <2>2, <3>1 DEF TypeOK, FinalOK
    <3>3. file'[final] \in Survivors(final)
      BY <1>12, <3>2 DEF LosePower
    <3>4. Survivors(final) = {file[final]}
      BY <3>2, SurvivorsType
    <3> QED BY <3>1, <3>3, <3>4
  <2>3. FinalOK'
    BY <1>12, <2>2 DEF LosePower, FinalOK, Wanted
  <2> QED BY <1>12, <2>1, <2>2, <2>3 DEF LosePower
<1>13. CASE UNCHANGED vars
  BY <1>13 DEF vars, FinalOK, Wanted, CopierOK
<1> QED BY <1>1, <1>2, <1>3, <1>4, <1>5, <1>6, <1>7, <1>8, <1>9, <1>10, <1>11,
           <1>12, <1>13 DEF Next, CopyStep

\* The invariant of a copy under lockAsset: the names are apart, what is final
\* has its identity and is on the platter, and the copier's progress is real.
THEOREM SafetyInvariant ==
  ASSUME OneCopier
  PROVE  Spec => [](TypeOK /\ Shape /\ Safety)
<1>1. TypeOK /\ Shape /\ Safety /\ [Next]_vars => (TypeOK /\ Shape /\ Safety)'
  BY TypeStep, SafetyStep
<1> QED BY <1>1, TypeInit, ShapeInit, SafetyInit, PTL DEF Spec

-----------------------------------------------------------------------------
(* What the extents are.                                                   *)

\* A blank extent is the work of a power loss, any other the source's at that place.
SoundFile(i) ==
  \A k \in 1..Len(file[i]) :
    file[i][k] \in Had(k) \/ (file[i][k] = "lost" /\ i \in torn)

SoundDisk(i) ==
  \A k \in 1..Len(durable[i]) : durable[i][k] \in Had(k) \cup {"lost"}

\* The copier goes on at or before the end of what there is.
NoGap(c) == copier[c].pc = "stream" => copier[c].pos <= Len(file[copier[c].fd])

Sound ==
  /\ src \in versions
  /\ \A i \in Inodes : SoundFile(i) /\ SoundDisk(i)
  /\ \A c \in Copiers : NoGap(c)

\* There are no extents yet.
LEMMA SoundInit == Init => Sound
<1> SUFFICES ASSUME Init PROVE Sound
  OBVIOUS
<1>1. \A i \in Inodes : file[i] = <<>> /\ durable[i] = <<>>
  BY DEF Init
<1>2. \A c \in Copiers : copier[c].pc = "idle"
  BY DEF Init, IdleJob
<1>3. src \in versions
  BY DEF Init
<1> QED BY <1>1, <1>2, <1>3 DEF Sound, SoundFile, SoundDisk, NoGap

\* Whatever comes back after a power loss was written or synced, or is blank.
LEMMA SurvivorsExtents ==
  ASSUME TypeOK, NEW i \in Inodes, NEW s \in Survivors(i), NEW k \in 1..Len(s)
  PROVE  \/ s[k] = "lost"
         \/ k \in 1..Len(file[i]) /\ s[k] = file[i][k]
         \/ k \in 1..Len(durable[i]) /\ s[k] = durable[i][k]
<1> DEFINE f == file[i]
           d == durable[i]
           Left(j) == IF j <= Len(f) /\ j <= Len(d) /\ f[j] = d[j] THEN {f[j]}
                      ELSE {"lost"} \cup (IF j <= Len(f) THEN {f[j]} ELSE {})
                                    \cup (IF j <= Len(d) THEN {d[j]} ELSE {})
<1>1. Len(f) \in Nat /\ Len(d) \in Nat
  BY DEF TypeOK
<1>2. PICK n \in {Len(f), Len(d)} :
         s \in {c \in [1..n -> Extent] : \A j \in 1..n : c[j] \in Left(j)}
  BY DEF Survivors
<1>3. s \in [1..n -> Extent] /\ \A j \in 1..n : s[j] \in Left(j)
  BY <1>2
<1>4. Len(s) = n
  BY <1>1, <1>3, LenProperties
<1>5. s[k] \in Left(k) /\ k \in Nat \ {0}
  BY <1>1, <1>3, <1>4
<1> QED BY <1>1, <1>5

\* What the source was, it has been.
LEMMA HadGrows ==
  ASSUME versions \subseteq versions', NEW k, NEW x \in Had(k)
  PROVE  x \in Had(k)'
BY DEF Had

\* An extent that is written is the source's, and leaves no gap behind it.
LEMMA WrittenSound ==
  ASSUME TypeOK, Sound, NEW i \in Inodes, NEW k \in 1..Len(src), k <= Len(file[i]) + 1,
         NEW j \in 1..Len(Written(file[i], k, src[k]))
  PROVE  /\ k <= Len(Written(file[i], k, src[k]))
         /\ \/ Written(file[i], k, src[k])[j] \in Had(j)
            \/ Written(file[i], k, src[k])[j] = "lost" /\ i \in torn
<1> DEFINE f == file[i]
           n == IF k > Len(f) THEN k ELSE Len(f)
           w == [m \in 1..n |-> IF m = k THEN src[k] ELSE IF m <= Len(f) THEN f[m] ELSE "lost"]
<1>1. f \in Seq(Extent) /\ Len(f) \in Nat /\ src \in Seq(Extent) /\ k \in Nat \ {0}
  BY DEF TypeOK
<1>2. Written(f, k, src[k]) = w
  BY DEF Written
<1>3. n \in Nat /\ k <= n /\ Len(w) = n
  BY <1>1
<1>4. j \in 1..n /\ (j # k => j \in 1..Len(f))
  BY <1>1, <1>2, <1>3
<1>5. src[k] \in Had(k)
  BY DEF Sound, Had
<1>6. j # k => f[j] \in Had(j) \/ (f[j] = "lost" /\ i \in torn)
  BY <1>4 DEF Sound, SoundFile
<1>7. w[j] = IF j = k THEN src[k] ELSE f[j]
  BY <1>1, <1>4
<1> HIDE DEF w, n, f
<1>8. k <= Len(w) /\ (w[j] \in Had(j) \/ (w[j] = "lost" /\ i \in torn))
  BY <1>3, <1>5, <1>6, <1>7
<1> QED BY <1>2, <1>8 DEF f

\* Every extent stays the source's or blank by a power loss.
LEMMA SoundStep ==
  ASSUME TypeOK, Shape, OneCopier, Safety, Sound, [Next]_vars
  PROVE  Sound'
<1>0. ASSUME NEW c \in Copiers PROVE copier[c] \in Job
  BY DEF TypeOK
<1>1. ASSUME UNCHANGED <<file, durable, torn, src, versions>>, \A c \in Copiers : NoGap(c)'
      PROVE  Sound'
  BY <1>1 DEF Sound, SoundFile, SoundDisk, Had
<1>2. ASSUME NEW c \in Copiers, NEW r \in Results, Return(c, r),
             UNCHANGED <<file, durable, torn, src, versions>>
      PROVE  Sound'
  <2>1. \A d \in Copiers : copier'[d].pc = "idle"
    BY <1>2 DEF Return, IdleJob, TypeOK, OneCopier
  <2> QED BY <1>1, <1>2, <2>1 DEF NoGap
<1>3. ASSUME NEW c \in Copiers, NEW pc \in PCs \ {"stream"}, Goto(c, pc),
             UNCHANGED <<file, durable, torn, src, versions>>
      PROVE  Sound'
  <2>1. \A d \in Copiers : copier'[d].pc = pc
    BY <1>3, SafetyGoto
  <2> QED BY <1>1, <1>3, <2>1 DEF NoGap
<1>4. ASSUME NEW c \in Copiers, Open(c) PROVE Sound'
  <2>1. CASE Return(c, "source")
    BY <1>2, <1>4, <2>1 DEF Open, Results
  <2>2. CASE ~(expect /\ SparseID(src) # SparseID(Original))
    <3>1. \A d \in Copiers : copier'[d].pc = "check"
      BY <1>4, <2>2 DEF Open, OneCopier, TypeOK, IdleJob
    <3> QED BY <1>1, <1>4, <3>1 DEF Open, NoGap
  <2> QED BY <1>4, <2>1, <2>2 DEF Open
<1>5. ASSUME NEW c \in Copiers, Check(c) PROVE Sound'
  BY <1>2, <1>3, <1>5 DEF Check, CheckFinal, PCs, Results
<1>6. ASSUME NEW c \in Copiers, OpenPartial(c) PROVE Sound'
  <2>1. PICK i \in IF partial = None THEN Free ELSE {partial} :
          /\ file' = IF partial = None THEN [file EXCEPT ![i] = <<>>] ELSE file
          /\ durable' = IF partial = None THEN [durable EXCEPT ![i] = <<>>]
                                          ELSE durable
          /\ torn' = IF partial = None THEN torn \ {i} ELSE torn
          /\ copier' = [copier EXCEPT ![c] =
               [copier[c] EXCEPT !.pc = "resume", !.fd = i]]
    BY <1>6 DEF OpenPartial
  <2>2. \A d \in Copiers : copier'[d].pc = "resume"
    <3>1. [copier[c] EXCEPT !.pc = "resume", !.fd = i].pc = "resume"
      BY <1>0, JobType
    <3> QED BY <2>1, <3>1 DEF OneCopier, TypeOK
  <2>3. UNCHANGED <<src, versions>>
    BY <1>6 DEF OpenPartial
  <2>4. ASSUME NEW m \in Inodes PROVE SoundFile(m)' /\ SoundDisk(m)'
    <3>1. SoundFile(m) /\ SoundDisk(m)
      BY DEF Sound
    <3>2. CASE partial = None /\ m = i
      <4>1. file'[m] = <<>> /\ durable'[m] = <<>>
        BY <2>1, <3>2 DEF TypeOK
      <4> QED BY <4>1 DEF SoundFile, SoundDisk
    <3>3. CASE ~(partial = None /\ m = i)
      <4>1. file'[m] = file[m] /\ durable'[m] = durable[m] /\ (m \in torn => m \in torn')
        BY <2>1, <3>3 DEF TypeOK
      <4> QED BY <2>3, <3>1, <4>1 DEF SoundFile, SoundDisk, Had
    <3> QED BY <3>2, <3>3
  <2> QED BY <2>2, <2>3, <2>4 DEF Sound, NoGap
<1>7. ASSUME NEW c \in Copiers, Resume(c) PROVE Sound'
  <2> DEFINE n == Len(file[copier[c].fd])
             j == [copier[c] EXCEPT !.pc = "stream", !.pos = n, !.resumed = TRUE]
  <2>1. copier[c].fd \in Inodes /\ n \in Nat
    BY <1>7 DEF Resume, Shape, Holding, TypeOK
  <2>2. CASE copier' = [copier EXCEPT ![c] = j]
    <3>1. \A d \in Copiers : copier'[d] = j
      BY <2>2 DEF OneCopier, TypeOK
    <3>2. j.pos = n /\ j.fd = copier[c].fd
      BY <1>0, JobType
    <3> HIDE DEF j
    <3>3. \A d \in Copiers : NoGap(d)'
      BY <1>7, <2>1, <3>1, <3>2 DEF Resume, NoGap
    <3> QED BY <1>1, <1>7, <3>3 DEF Resume
  <2>3. CASE Goto(c, "cut")
    BY <1>3, <1>7, <2>3 DEF Resume, PCs
  <2> QED BY <1>7, <2>2, <2>3 DEF Resume, Kept
<1>8. ASSUME NEW c \in Copiers, Cut(c) PROVE Sound'
  <2>1. /\ copier[c].fd \in Inodes /\ copier[c].pos = 0
        /\ file' = [file EXCEPT ![copier[c].fd] = <<>>] /\ torn' = torn \ {copier[c].fd}
        /\ UNCHANGED <<durable, src, versions>> /\ Goto(c, "stream")
    BY <1>8 DEF Cut, Shape, Holding, Safety, CopierOK
  <2>2. \A d \in Copiers : copier'[d].pos = 0 /\ copier'[d].fd = copier[c].fd
    BY <2>1, SafetyGoto DEF PCs
  <2>3. file'[copier[c].fd] = <<>>
    BY <2>1 DEF TypeOK
  <2>4. \A d \in Copiers : NoGap(d)'
    BY <2>2, <2>3 DEF NoGap
  <2>5. ASSUME NEW m \in Inodes PROVE SoundFile(m)' /\ SoundDisk(m)'
    <3>1. SoundFile(m) /\ SoundDisk(m)
      BY DEF Sound
    <3>2. m # copier[c].fd => file'[m] = file[m] /\ (m \in torn => m \in torn')
      BY <2>1 DEF TypeOK
    <3> QED BY <2>1, <2>3, <3>1, <3>2 DEF SoundFile, SoundDisk, Had
  <2> QED BY <2>1, <2>4, <2>5 DEF Sound
<1>9. ASSUME NEW c \in Copiers, Stream(c) PROVE Sound'
  <2> DEFINE k == copier[c].pos + 1
             i == copier[c].fd
             j == [copier[c] EXCEPT !.pos = k, !.hash = Append(@, src[k])]
  <2>0. copier[c].pos \in Nat /\ i \in Inodes /\ Len(src) \in Nat
    BY <1>0, <1>9, JobType, CopyFileAssumption DEF Stream, Shape, Holding, TypeOK
  <2>1. CASE Goto(c, "sync") /\ UNCHANGED file
    BY <1>3, <1>9, <2>1 DEF Stream, PCs
  <2>2. CASE Return(c, "failed") /\ UNCHANGED file
    BY <1>2, <1>9, <2>2 DEF Stream, Results
  <2>3. ASSUME k <= Len(src), file' = [file EXCEPT ![i] = Written(file[i], k, src[k])],
               copier' = [copier EXCEPT ![c] = j]
        PROVE  Sound'
    <3>1. k \in 1..Len(src) /\ k <= Len(file[i]) + 1
      <4>1. copier[c].pos <= Len(file[i]) /\ Len(file[i]) \in Nat
        BY <1>9, <2>0 DEF Stream, Sound, NoGap, TypeOK
      <4> QED BY <2>0, <2>3, <4>1
    <3>2. /\ \A d \in Copiers : copier'[d] = j
          /\ j.pos = k /\ j.fd = i
      BY <1>0, <2>3, JobType DEF OneCopier, TypeOK
    <3>3. file'[i] = Written(file[i], k, src[k]) /\ UNCHANGED <<durable, torn, src, versions>>
      BY <1>9, <2>0, <2>3 DEF Stream, TypeOK
    <3> HIDE DEF j, k
    <3>4. src[k] \in Extent /\ k \in Nat \ {0} /\ file[i] \in Seq(Extent)
      BY <2>0, <3>1, ElementOfSeq DEF TypeOK
    <3>5. k <= Len(file'[i])
      <4> DEFINE n == IF k > Len(file[i]) THEN k ELSE Len(file[i])
      <4>1. n \in Nat /\ k <= n
        BY <3>4
      <4>2. Len(file'[i]) = n
        BY <3>3, <4>1 DEF Written
      <4> QED BY <4>1, <4>2
    <3>6. \A d \in Copiers : NoGap(d)'
      BY <3>2, <3>5 DEF NoGap
    <3>7. ASSUME NEW m \in Inodes PROVE SoundFile(m)' /\ SoundDisk(m)'
      <4>1. SoundFile(m) /\ SoundDisk(m)
        BY DEF Sound
      <4>2. m # i => file'[m] = file[m]
        BY <2>3 DEF TypeOK
      <4> HIDE DEF i
      <4>3. ASSUME NEW q \in 1..Len(file'[i])
            PROVE  file'[i][q] \in Had(q) \/ (file'[i][q] = "lost" /\ i \in torn)
        <5> DEFINE w == Written(file[i], k, src[k])
        <5>1. file'[i] = w /\ q \in 1..Len(w)
          BY <3>3
        <5>2. w[q] \in Had(q) \/ (w[q] = "lost" /\ i \in torn)
          BY <2>0, <3>1, <5>1, WrittenSound
        <5> HIDE DEF w
        <5> QED BY <5>1, <5>2
      <4>4. \A q : Had(q)' = Had(q)
        BY <3>3 DEF Had
      <4>5. SoundDisk(m)'
        BY <3>3, <4>1, <4>4 DEF SoundDisk
      <4>6. CASE m = i
        BY <3>3, <4>3, <4>4, <4>5, <4>6 DEF SoundFile
      <4>7. CASE m # i
        BY <3>3, <4>1, <4>2, <4>4, <4>5, <4>7 DEF SoundFile
      <4> QED BY <4>6, <4>7
    <3> QED BY <3>3, <3>6, <3>7 DEF Sound
  <2> QED BY <1>9, <2>0, <2>1, <2>2, <2>3 DEF Stream
<1>10. ASSUME NEW c \in Copiers, Sync(c) PROVE Sound'
  <2>1. /\ copier[c].fd \in Inodes /\ Goto(c, "verify")
        /\ durable' = [durable EXCEPT ![copier[c].fd] = file[copier[c].fd]]
        /\ UNCHANGED <<file, torn, src, versions>>
    BY <1>10 DEF Sync, Shape, Holding
  <2>2. \A d \in Copiers : NoGap(d)'
    BY <2>1, SafetyGoto DEF NoGap, PCs
  <2>3. ASSUME NEW m \in Inodes PROVE SoundFile(m)' /\ SoundDisk(m)'
    <3>1. SoundFile(m) /\ SoundDisk(m)
      BY DEF Sound
    <3>2. durable'[m] = IF m = copier[c].fd THEN file[m] ELSE durable[m]
      BY <2>1 DEF TypeOK
    <3> QED BY <2>1, <3>1, <3>2 DEF SoundFile, SoundDisk, Had
  <2> QED BY <2>1, <2>2, <2>3 DEF Sound
<1>11. ASSUME NEW c \in Copiers, Verify(c) PROVE Sound'
  BY <1>2, <1>3, <1>11 DEF Verify, PCs, Results
<1>12. ASSUME NEW c \in Copiers, Rename(c) PROVE Sound'
  BY <1>2, <1>3, <1>12 DEF Rename, PCs, Results
<1>13. ASSUME NEW c \in Copiers, SyncDir(c) \/ Stop(c) PROVE Sound'
  BY <1>2, <1>13 DEF SyncDir, Stop, Results
<1>14. CASE Edit
  <2>1. /\ versions \subseteq versions' /\ src' \in versions'
        /\ UNCHANGED <<file, durable, torn, copier>>
    BY <1>14 DEF Edit
  <2>2. ASSUME NEW m \in Inodes PROVE SoundFile(m)' /\ SoundDisk(m)'
    <3>1. SoundFile(m) /\ SoundDisk(m)
      BY DEF Sound
    <3> QED BY <2>1, <3>1, HadGrows DEF SoundFile, SoundDisk
  <2> QED BY <2>1, <2>2 DEF Sound, NoGap
<1>15. CASE LosePower
  <2>1. /\ durable' = file' /\ UNCHANGED <<src, versions>>
        /\ torn' = {i \in Inodes : \E k \in DOMAIN file'[i] : file'[i][k] = "lost"}
        /\ \A i \in Inodes : file'[i] \in Survivors(i)
    BY <1>15 DEF LosePower
  <2>2. \A c \in Copiers : NoGap(c)'
    BY <1>15 DEF LosePower, IdleJob, NoGap
  <2>3. ASSUME NEW m \in Inodes PROVE SoundFile(m)' /\ SoundDisk(m)'
    <3>1. SoundFile(m) /\ SoundDisk(m)
      BY DEF Sound
    <3>2. ASSUME NEW k \in 1..Len(file'[m])
          PROVE  file'[m][k] \in Had(k) \/ (file'[m][k] = "lost" /\ m \in torn')
      <4>1. \/ file'[m][k] = "lost"
            \/ k \in 1..Len(file[m]) /\ file'[m][k] = file[m][k]
            \/ k \in 1..Len(durable[m]) /\ file'[m][k] = durable[m][k]
        BY <2>1, SurvivorsExtents
      <4>2. file'[m][k] \in Had(k) \cup {"lost"}
        BY <3>1, <4>1 DEF SoundFile, SoundDisk
      <4>3. DOMAIN file'[m] = 1..Len(file'[m])
        <5>1. file'[m] \in Seq(Extent)
          BY <2>1, SurvivorsType
        <5> QED BY <5>1, LenProperties
      <4> QED BY <2>1, <4>2, <4>3
    <3> QED BY <2>1, <3>2 DEF SoundFile, SoundDisk, Had
  <2> QED BY <2>1, <2>2, <2>3 DEF Sound
<1>16. CASE UNCHANGED vars
  BY <1>16 DEF vars, Sound, SoundFile, SoundDisk, NoGap, Had
<1> QED BY <1>4, <1>5, <1>6, <1>7, <1>8, <1>9, <1>10, <1>11, <1>12, <1>13, <1>14,
           <1>15, <1>16 DEF Next, CopyStep, Safety

\* R2 as far as it is kept: a file with its final name has the identity of a version,
\* of the catalogued one where Copy was given its identity, and but for what a power
\* loss blanked all its extents are the source's, each in its place.
THEOREM WholeUnderItsName ==
  ASSUME OneCopier
  PROVE  Spec => []FinalIsWhole
<1>1. TypeOK /\ Shape /\ Safety /\ Sound /\ [Next]_vars
        => (TypeOK /\ Shape /\ Safety /\ Sound)'
  BY TypeStep, SafetyStep, SoundStep
<1>2. TypeOK /\ Safety /\ Sound => FinalIsWhole
  BY DEF TypeOK, Safety, FinalOK, Wanted, Sound, SoundFile, FinalIsWhole
<1> QED BY <1>1, <1>2, TypeInit, ShapeInit, SafetyInit, SoundInit, PTL DEF Spec

\* What one step may do to dst.
LEMMA FinalStep ==
  ASSUME TypeOK, Shape, OneCopier, Safety, [Next]_vars, final # None
  PROVE  \/ final' = final /\ file'[final] = file[final]
         \/ losses' # losses /\ ~settled
<1>1. ASSUME NEW c \in Copiers, OpenPartial(c) \/ Cut(c) \/ Stream(c) \/ Rename(c)
      PROVE  FALSE
  BY <1>1 DEF Safety, CopierOK, Holding, OpenPartial, Cut, Stream, Rename
<1>2. ASSUME NEW c \in Copiers,
             \/ Open(c) \/ Check(c) \/ Resume(c) \/ Sync(c)
             \/ Verify(c) \/ SyncDir(c) \/ Stop(c)
      PROVE  final' = final /\ file' = file
  BY <1>2 DEF Open, Check, Resume, Sync, Verify, SyncDir, Stop
<1>3. CASE Edit
  BY <1>3 DEF Edit
<1>4. CASE LosePower
  <2>1. final \in Inodes /\ durable[final] = file[final]
    BY DEF TypeOK, Safety, FinalOK
  <2>2. file'[final] \in Survivors(final)
    BY <1>4, <2>1 DEF LosePower
  <2>3. file'[final] = file[final]
    BY <2>1, <2>2, SurvivorsType
  <2>4. losses \in Nat /\ losses' = losses + 1
    BY <1>4, CopyFileAssumption DEF LosePower, TypeOK
  <2>5. final' = final \/ ~settled
    BY <1>4 DEF LosePower
  <2> QED BY <2>3, <2>4, <2>5
<1>5. CASE UNCHANGED vars
  BY <1>5 DEF vars
<1> QED BY <1>1, <1>2, <1>3, <1>4, <1>5 DEF Next, CopyStep

\* R3: nothing takes dst or its content away, except a power loss before the
\* directory was synced.
THEOREM KeptUnderItsName ==
  ASSUME OneCopier
  PROVE  Spec => FinalIsKept
<1>1. TypeOK /\ Shape /\ Safety /\ [Next]_vars =>
        [final # None =>
           \/ final' = final /\ file'[final] = file[final]
           \/ losses' # losses /\ ~settled]_vars
  BY FinalStep
<1> QED BY <1>1, SafetyInvariant, PTL DEF Spec, FinalIsKept

\* Only the end of a copy reports a full hash while a copy is in dirsync.
LEMMA HashStep ==
  ASSUME TypeOK, OneCopier, Safety, [Next]_vars, NEW c \in Copiers,
         copier[c].pc = "dirsync", copier'[c].result = "ok", told' # None
  PROVE  told' = file[final]
<1>0. /\ copier[c].result = "none" /\ final = copier[c].fd
      /\ ~copier[c].resumed => file[copier[c].fd] = copier[c].hash
  BY DEF Safety, CopierOK
<1>1. ASSUME SyncDir(c) PROVE told' = file[final]
  BY <1>0, <1>1 DEF SyncDir, FullHash
<1>2. ASSUME NEW d \in Copiers,
             \/ Open(d) \/ Check(d) \/ OpenPartial(d) \/ Resume(d) \/ Cut(d)
             \/ Stream(d) \/ Sync(d) \/ Verify(d) \/ Rename(d)
      PROVE  FALSE
  <2>1. d = c
    BY DEF OneCopier
  <2> QED BY <1>2, <2>1 DEF Open, Check, OpenPartial, Resume, Cut, Stream, Sync,
                            Verify, Rename
<1>3. ASSUME NEW d \in Copiers, Stop(d) PROVE FALSE
  <2>1. d = c
    BY DEF OneCopier
  <2>2. copier'[c].result = "failed"
    BY <1>3, <2>1 DEF Stop, Return, IdleJob, TypeOK
  <2> QED BY <2>2
<1>4. CASE Edit
  BY <1>0, <1>4 DEF Edit
<1>5. CASE LosePower
  BY <1>5 DEF LosePower, IdleJob
<1>6. CASE UNCHANGED vars
  BY <1>0, <1>6 DEF vars
<1>7. \A d \in Copiers : SyncDir(d) => d = c
  BY DEF OneCopier
<1> QED BY <1>1, <1>2, <1>3, <1>4, <1>5, <1>6, <1>7 DEF Next, CopyStep

\* The full hash Copy returns, which becomes the asset's, is that of the file it
\* installed; a resumed copy returns none.
THEOREM HashIsTrue ==
  ASSUME OneCopier
  PROVE  Spec => HashIsOfFile
<1>1. TypeOK /\ Shape /\ Safety /\ [Next]_vars =>
        [\A c \in Copiers :
           copier[c].pc = "dirsync" /\ copier'[c].result = "ok" /\ told' # None
             => told' = file[final]]_vars
  BY HashStep
<1> QED BY <1>1, SafetyInvariant, PTL DEF Spec, HashIsOfFile
=============================================================================
