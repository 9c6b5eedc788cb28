------------------------------ MODULE CopyFile ------------------------------
(***************************************************************************)
(* copyfile.Copy: the bytes go to dst.partial, are synced and verified, and *)
(* are then renamed to dst.  A file is a sequence of extents of             *)
(* identity.Chunk bytes; an inode outlives the name it was opened under, as *)
(* it does for a process that still has it open.                            *)
(*                                                                         *)
(* Under lockAsset one Copy at a time runs for a destination: one copier.   *)
(* The lock is in memory, so two mm processes are two copiers.             *)
(***************************************************************************)
EXTENDS Naturals, Sequences

CONSTANTS
  Size,       \* extents in the source as it was catalogued
  Copiers,    \* processes that copy the source to the same destination
  Inodes,     \* files the destination's directory may hold or have held
  Stoppable,  \* copiers that may be cancelled, fail or be killed anywhere
  MaxEdits,   \* changes to the source while it is copied again and again
  MaxLosses,  \* power losses
  None

ASSUME CopyFileAssumption ==
  /\ Size \in Nat \ {0}
  /\ Stoppable \subseteq Copiers
  /\ MaxEdits \in Nat /\ MaxLosses \in Nat
  /\ None \notin Inodes

VARIABLES
  src,       \* the source's content
  expect,    \* ExpectID is set: the asset is video or audio
  partial,   \* the inode named dst.partial
  final,     \* the inode named dst
  file,      \* the content of each inode
  durable,   \* what of it is known to be on the platter
  settled,   \* the directory entry dst is durable
  copier,    \* what each Copy is in the middle of
  told,      \* the full hash the last successful Copy reported
  versions,  \* (history) the contents the source has had
  torn,      \* (history) the inodes a power loss left with a blank extent
  edits, losses

vars == <<src, expect, partial, final, file, durable, settled, copier, told,
          versions, torn, edits, losses>>

Extent == {"orig", "edit", "lost"}

\* identity.Sparse: the size, and the first and last extent; everything when
\* there are no more than two.
SparseID(c) ==
  <<Len(c), IF Len(c) <= 2 THEN c ELSE <<c[1], c[Len(c)]>> >>

Original == [k \in 1..Size |-> "orig"]

Job == [pc : {"idle", "check", "open", "resume", "cut", "stream", "sync",
              "verify", "rename", "dirsync"},
        id : {SparseID(c) : c \in UNION {[1..n -> Extent] : n \in 0..Size}} \cup {None},
        size : 0..Size, fd : Inodes \cup {None}, pos : 0..Size,
        resumed : BOOLEAN, hash : Seq(Extent),
        result : {"none", "ok", "exists", "source", "verify", "failed"}]

IdleJob(r) == [pc |-> "idle", id |-> None, size |-> 0, fd |-> None, pos |-> 0,
               resumed |-> FALSE, hash |-> <<>>, result |-> r]

TypeOK ==
  /\ src \in Seq(Extent) /\ Len(src) <= Size
  /\ expect \in BOOLEAN /\ settled \in BOOLEAN
  /\ partial \in Inodes \cup {None} /\ final \in Inodes \cup {None}
  /\ file \in [Inodes -> Seq(Extent)] /\ durable \in [Inodes -> Seq(Extent)]
  /\ copier \in [Copiers -> Job]
  /\ told \in Seq(Extent) \cup {None}
  /\ versions \subseteq Seq(Extent) /\ torn \subseteq Inodes
  /\ edits \in 0..MaxEdits /\ losses \in 0..MaxLosses

Init ==
  /\ src = Original
  /\ expect \in BOOLEAN
  /\ partial = None /\ final = None
  /\ file = [i \in Inodes |-> <<>>] /\ durable = file
  /\ settled = FALSE
  /\ copier = [c \in Copiers |-> IdleJob("none")]
  /\ told = None
  /\ versions = {Original} /\ torn = {}
  /\ edits = 0 /\ losses = 0

-----------------------------------------------------------------------------
Goto(c, pc) == copier' = [copier EXCEPT ![c] = [copier[c] EXCEPT !.pc = pc]]

Return(c, r) == copier' = [copier EXCEPT ![c] = IdleJob(r)]

Complete(i, c) == SparseID(file[i]) = copier[c].id

\* Open the source and compute its identity; ErrSourceMismatch.
Open(c) ==
  /\ copier[c].pc = "idle"
  /\ IF expect /\ SparseID(src) # SparseID(Original)
     THEN Return(c, "source")
     ELSE copier' = [copier EXCEPT ![c] =
            [IdleJob("none") EXCEPT !.pc = "check", !.id = SparseID(src),
                                    !.size = Len(src)]]
  /\ UNCHANGED <<src, expect, partial, final, file, durable, settled, told,
                 versions, torn, edits, losses>>

CheckNothing(c) == Goto(c, "open")

\* completed: AlreadyComplete, which reports no full hash, or ErrExists.
CheckFinal(c) ==
  IF final = None THEN Goto(c, "open")
  ELSE IF Complete(final, c) THEN Return(c, "ok") ELSE Return(c, "exists")

Check(c) ==
  /\ copier[c].pc = "check"
  /\ CheckFinal(c)
  /\ UNCHANGED <<src, expect, partial, final, file, durable, settled, told,
                 versions, torn, edits, losses>>

Free == Inodes \ ({partial, final} \cup {copier[c].fd : c \in Copiers})

OpenPartial(c) ==
  /\ copier[c].pc = "open"
  /\ \E i \in IF partial = None THEN Free ELSE {partial} :
       /\ partial' = i
       /\ file' = IF partial = None THEN [file EXCEPT ![i] = <<>>] ELSE file
       /\ durable' = IF partial = None THEN [durable EXCEPT ![i] = <<>>]
                                       ELSE durable
       /\ torn' = IF partial = None THEN torn \ {i} ELSE torn
       /\ copier' = [copier EXCEPT ![c] =
            [copier[c] EXCEPT !.pc = "resume", !.fd = i]]
  /\ UNCHANGED <<src, expect, final, settled, told, versions, edits, losses>>

KeptOffByOne(n) == n + 1

Kept(n) == n

\* resumePoint: keep the partial when it is no longer than the source and its
\* last extent is the source's.
Resume(c) ==
  LET p == file[copier[c].fd]
      n == Len(p)
  IN
  /\ copier[c].pc = "resume"
  /\ IF n > 0 /\ n <= copier[c].size /\ n <= Len(src) /\ p[n] = src[n]
     THEN copier' = [copier EXCEPT ![c] =
            [copier[c] EXCEPT !.pc = "stream", !.pos = Kept(n), !.resumed = TRUE]]
     ELSE Goto(c, "cut")
  /\ UNCHANGED <<src, expect, partial, final, file, durable, settled, told,
                 versions, torn, edits, losses>>

Cut(c) ==
  /\ copier[c].pc = "cut"
  /\ file' = [file EXCEPT ![copier[c].fd] = <<>>]
  /\ torn' = torn \ {copier[c].fd}
  /\ Goto(c, "stream")
  /\ UNCHANGED <<src, expect, partial, final, durable, settled, told,
                 versions, edits, losses>>

\* A write at extent k; writing past the end leaves a hole.
Written(f, k, x) ==
  [j \in 1..(IF k > Len(f) THEN k ELSE Len(f)) |->
     IF j = k THEN x ELSE IF j <= Len(f) THEN f[j] ELSE "lost"]

\* One buffer of stream; a source that has become shorter is a read error.
Stream(c) ==
  LET j == copier[c]
      k == j.pos + 1
  IN
  /\ j.pc = "stream"
  /\ IF j.pos = j.size THEN Goto(c, "sync") /\ UNCHANGED file
     ELSE IF k > Len(src) THEN Return(c, "failed") /\ UNCHANGED file
     ELSE /\ file' = [file EXCEPT ![j.fd] = Written(file[j.fd], k, src[k])]
          /\ copier' = [copier EXCEPT ![c] =
               [j EXCEPT !.pos = k, !.hash = Append(j.hash, src[k])]]
  /\ UNCHANGED <<src, expect, partial, final, durable, settled, told,
                 versions, torn, edits, losses>>

SyncForgotten(c) ==
  /\ copier[c].pc = "sync"
  /\ Goto(c, "verify")
  /\ UNCHANGED <<src, expect, partial, final, file, durable, settled, told,
                 versions, torn, edits, losses>>

\* out.Sync
Sync(c) ==
  /\ copier[c].pc = "sync"
  /\ durable' = [durable EXCEPT ![copier[c].fd] = file[copier[c].fd]]
  /\ Goto(c, "verify")
  /\ UNCHANGED <<src, expect, partial, final, file, settled, told,
                 versions, torn, edits, losses>>

\* verify; ErrVerify leaves the partial where it is.
Verify(c) ==
  /\ copier[c].pc = "verify"
  /\ IF Complete(copier[c].fd, c) THEN Goto(c, "rename") ELSE Return(c, "verify")
  /\ UNCHANGED <<src, expect, partial, final, file, durable, settled, told,
                 versions, torn, edits, losses>>

\* os.Rename: whatever has the partial's name now gets the final name, and
\* whatever had the final name loses it.
Rename(c) ==
  /\ copier[c].pc = "rename"
  /\ IF partial = None
     THEN Return(c, "failed") /\ UNCHANGED <<partial, final, settled>>
     ELSE /\ final' = partial /\ partial' = None /\ settled' = FALSE
          /\ Goto(c, "dirsync")
  /\ UNCHANGED <<src, expect, file, durable, told, versions, torn, edits, losses>>

FullHashAlways(j) == j.hash

\* A resumed copy reports no full hash.
FullHash(j) == IF j.resumed THEN None ELSE j.hash

\* syncDir, whose failures are ignored, and the result.
SyncDir(c) ==
  /\ copier[c].pc = "dirsync"
  /\ settled' \in {settled, TRUE}
  /\ told' = FullHash(copier[c])
  /\ Return(c, "ok")
  /\ UNCHANGED <<src, expect, partial, final, file, durable, versions, torn,
                 edits, losses>>

Stop(c) ==
  /\ c \in Stoppable
  /\ copier[c].pc # "idle"
  /\ Return(c, "failed")
  /\ UNCHANGED <<src, expect, partial, final, file, durable, settled, told,
                 versions, torn, edits, losses>>

-----------------------------------------------------------------------------
\* An editor saves the source through its link: one extent changes, or the
\* file loses its end.
Edit ==
  /\ edits < MaxEdits
  /\ \/ \E k \in 1..Len(src) : src' = [src EXCEPT ![k] = "edit"]
     \/ Len(src) > 1 /\ src' = SubSeq(src, 1, Len(src) - 1)
  /\ versions' = versions \cup {src'}
  /\ edits' = edits + 1
  /\ UNCHANGED <<expect, partial, final, file, durable, settled, copier, told,
                 torn, losses>>

\* What may be left of an inode: synced extents that were not written again
\* survive, any other may come back old, new or blank, at either length.
Survivors(i) ==
  LET f == file[i]
      d == durable[i]
      Left(k) == IF k <= Len(f) /\ k <= Len(d) /\ f[k] = d[k] THEN {f[k]}
                 ELSE {"lost"} \cup (IF k <= Len(f) THEN {f[k]} ELSE {})
                               \cup (IF k <= Len(d) THEN {d[k]} ELSE {})
  IN UNION {{c \in [1..n -> Extent] : \A k \in 1..n : c[k] \in Left(k)} :
              n \in {Len(f), Len(d)}}

\* Every process dies with the machine; a rename whose directory was not
\* synced may be undone.
LosePower ==
  /\ losses < MaxLosses
  /\ losses' = losses + 1
  /\ file' \in {g \in [Inodes -> UNION {Survivors(i) : i \in Inodes}] :
                  \A i \in Inodes : g[i] \in Survivors(i)}
  /\ durable' = file'
  /\ torn' = {i \in Inodes : \E k \in DOMAIN file'[i] : file'[i][k] = "lost"}
  /\ \/ UNCHANGED <<partial, final>>
     \/ /\ final # None /\ ~settled /\ partial = None
        /\ partial' = final /\ final' = None
  /\ settled' = TRUE
  /\ copier' = [c \in Copiers |-> IdleJob("none")]
  /\ UNCHANGED <<src, expect, told, versions, edits>>

-----------------------------------------------------------------------------
CopyStep(c) ==
  \/ Open(c) \/ Check(c) \/ OpenPartial(c) \/ Resume(c) \/ Cut(c)
  \/ Stream(c) \/ Sync(c) \/ Verify(c) \/ Rename(c) \/ SyncDir(c)

Next == \/ \E c \in Copiers : CopyStep(c) \/ Stop(c)
        \/ Edit \/ LosePower

Spec == Init /\ [][Next]_vars

\* A begun copy goes on, and a failed one is tried again (a Temporal activity's
\* retries, or the user's next mm archive).
FairSpec == Spec /\ \A c \in Copiers : WF_vars(CopyStep(c))

-----------------------------------------------------------------------------
(* Properties.                                                             *)

\* What the source had as extent k.
Had(k) == {v[k] : v \in {w \in versions : k <= Len(w)}}

\* R2 as far as the code keeps it: a file with its final name has the sparse
\* identity of a version of the source, for video and audio of the catalogued one,
\* and every extent of it is one the source had there, so that nothing is missing,
\* repeated or moved, whatever was resumed, edited, cancelled or lost on the way.
\* Excepted is what a power loss blanked between the ends of a partial: a resume
\* looks at its last extent only, and verify at the first and the last.
FinalIsWhole ==
  final # None =>
    /\ SparseID(file[final]) \in {SparseID(v) : v \in versions}
    /\ expect => SparseID(file[final]) = SparseID(Original)
    /\ final \notin torn =>
         \A k \in 1..Len(file[final]) : file[final][k] \in Had(k)

\* copyfile.go:6-7, "complete by construction", without the exception.
FinalIsComplete ==
  final # None => \A k \in 1..Len(file[final]) : file[final][k] \in Had(k)

\* R3: a file with its final name keeps its content, and keeps its name unless
\* the power goes before the directory is synced.
FinalIsKept ==
  [][final # None =>
       \/ final' = final /\ file'[final] = file[final]
       \/ losses' # losses /\ ~settled]_vars

\* The full hash a copy reports is the hash of the file that was installed,
\* also after earlier attempts were cut short or the source changed.
HashIsOfFile ==
  [][\A c \in Copiers :
       copier[c].pc = "dirsync" /\ copier'[c].result = "ok" /\ told' # None
         => told' = file[final]]_vars

\* copyfile.go:34, ErrVerify: "a retry restarts it": a copy that failed its
\* verification does not stay failed when it is retried.
RetryRestarts ==
  \A c \in Copiers : copier[c].result = "verify" ~> final # None
=============================================================================
