-------------------------------- MODULE Hashes --------------------------------
(***************************************************************************)
(* What the catalog takes one asset's content to be: the size and full     *)
(* hash it recorded, the hashes of the copies, Verify with Full and        *)
(* AllowUpdates, which may make an edited still the new content, and what  *)
(* Spool, Archive and Flush believe of it.  A file is the version it       *)
(* holds; its full hash is the version.  Links and other verifies of the   *)
(* same rows are the subject of Tiers.                                     *)
(***************************************************************************)
EXTENDS Naturals, Sequences, FiniteSets

CONSTANTS
  Order,         \* the locations, best first: the spool, the NASes, the card
  Versions,      \* the original and what else may get into a file
  Original,
  Size, Sparse,  \* what stat and the sparse identity show of a version
  Removable,     \* locations that may be unplugged
  MaxWrites,     \* bound: files that change behind the tool's back
  MaxFaults,     \* bound: commands that die, volumes that go
  None

Locs == {Order[i] : i \in DOMAIN Order}
Spool == Head(Order)
Card == Order[Len(Order)]
NASes == Locs \ {Spool, Card}

ASSUME HashesAssumption ==
  /\ Order \in Seq(Locs) /\ Len(Order) > 2
  /\ \A i, j \in DOMAIN Order : Order[i] = Order[j] => i = j
  /\ Original \in Versions /\ None \notin Versions \cup Locs
  /\ \A v, w \in Versions : Sparse[v] = Sparse[w] => Size[v] = Size[w]
  /\ Removable \subseteq Locs /\ MaxWrites \in Nat /\ MaxFaults \in Nat

VARIABLES
  still,     \* the asset is a still: its ID is the full hash of the original
  disk,      \* disk[l]: the version on l, None for no file
  row,       \* row[l]: state and full hash of the copies row
  asset,     \* size and full hash of the assets row
  mounted,
  mover,     \* the copyTo that holds the lock of the asset
  check,     \* the Verify under way
  found,     \* locations whose file the last verify of it found bad
  retaken,   \* those that Archive has recorded complete since
  adopted,   \* what --allow-updates first adopted since a file last changed
  overlap,   \* a copy or a flush has overlapped an --allow-updates
  writes, faults

vars == <<still, disk, row, asset, mounted, mover, check, found, retaken,
          adopted, overlap, writes, faults>>

Rows == [state : {"none", "partial", "complete", "mismatch"},
         hash : Versions \cup {None}]

NoRow == [state |-> "none", hash |-> None]
NoMove == [pc |-> "idle", dest |-> None, src |-> None, full |-> None, hash |-> None]
NoCheck == [pc |-> "idle", full |-> FALSE, allow |-> FALSE, asset |-> None,
            todo |-> {}, ok |-> {}, bad |-> {}, changed |-> {}, hashes |-> {},
            sum |-> None, at |-> None]

Assets == [size : {Size[v] : v \in Versions}, full : Versions \cup {None}]

TypeOK ==
  /\ still \in BOOLEAN
  /\ disk \in [Locs -> Versions \cup {None}]
  /\ row \in [Locs -> Rows]
  /\ asset \in Assets /\ (still => asset.full # None /\ asset.size = Size[asset.full])
  /\ mounted \subseteq Locs
  /\ mover.pc \in {"idle", "copy", "record"}
  /\ mover.dest \in Locs \cup {None} /\ mover.src \in Locs \cup {None}
  /\ mover.full \in Versions \cup {None} /\ mover.hash \in Versions \cup {None}
  /\ check.pc \in {"idle", "read", "apply", "row", "replace", "put"}
  /\ check.full \in BOOLEAN /\ check.allow \in BOOLEAN
  /\ check.todo \cup check.ok \cup check.bad \subseteq Locs \ {Card}
  /\ check.ok \cap check.bad = {} /\ check.changed \subseteq check.bad
  /\ check.hashes \subseteq Versions /\ check.sum \in Versions \cup {None}
  /\ check.at \in Locs \cup {None}
  /\ overlap \in BOOLEAN /\ retaken \subseteq found /\ found \subseteq Locs
  /\ adopted \in Versions \cup {None}
  /\ writes \in 0..MaxWrites /\ faults \in 0..MaxFaults

\* A card has just been scanned.
Init ==
  /\ still \in BOOLEAN
  /\ disk = [l \in Locs |-> IF l = Card THEN Original ELSE None]
  /\ row = [l \in Locs |-> IF l = Card THEN [NoRow EXCEPT !.state = "complete"]
                           ELSE NoRow]
  /\ asset = [size |-> Size[Original], full |-> IF still THEN Original ELSE None]
  /\ mounted = Locs
  /\ mover = NoMove
  /\ check = NoCheck
  /\ found = {} /\ retaken = {} /\ adopted = None /\ overlap = FALSE
  /\ writes = 0 /\ faults = 0

-----------------------------------------------------------------------------
(* Choosing, and what a look at a file tells.                              *)

Complete(l) == row[l].state = "complete"
Readable(l) == l \in mounted /\ disk[l] # None

First(locs) ==
  IF locs = {} THEN None
  ELSE Order[CHOOSE i \in DOMAIN Order :
               Order[i] \in locs /\ \A j \in 1..(i - 1) : Order[j] \notin locs]

\* The last one will do.
BestLast ==
  LET locs == {l \in mounted : Complete(l)}
  IN IF locs = {} THEN None
     ELSE Order[CHOOSE i \in DOMAIN Order :
                  Order[i] \in locs /\ \A j \in (i + 1)..Len(Order) : Order[j] \notin locs]

\* linktree.Choose
Best == First({l \in mounted : Complete(l)})

Put(l, state, hash) == row' = [row EXCEPT ![l] = [state |-> state, hash |-> hash]]

\* These files are no longer the ones that were found bad, or not found bad now.
Unfind(ls) == found' = found \ ls /\ retaken' = retaken \ ls

Write(l, v) == disk' = [disk EXCEPT ![l] = v] /\ Unfind({l})

-----------------------------------------------------------------------------
(* copyTo.                                                                 *)

\* Spool skips an asset with a spool copy, Archive a NAS that has one.
CopyBegin(d) ==
  /\ mover.pc = "idle"
  /\ d \in mounted \ {Card} /\ ~Complete(d) /\ Best # None
  /\ Put(d, "partial", None)
  /\ mover' = [NoMove EXCEPT !.pc = "copy", !.dest = d, !.src = Best,
                             !.full = asset.full]
  /\ overlap' = (overlap \/ check.allow)
  /\ UNCHANGED <<still, disk, asset, mounted, check, found, retaken, adopted, writes, faults>>

\* completed: a file already under the final name, as far as its size and ends go.
Completed(src, dst) == disk[dst] # None /\ Sparse[disk[dst]] = Sparse[disk[src]]

\* Nothing to expect of a still.
Expected(src) == still \/ Sparse[disk[src]] = Sparse[Original]

CopyFails ==
  /\ mover.pc = "copy"
  /\ \/ ~Readable(mover.src) \/ mover.dest \notin mounted
     \/ Readable(mover.src) /\ ~Expected(mover.src)
     \/ /\ Readable(mover.src) /\ disk[mover.dest] # None
        /\ ~Completed(mover.src, mover.dest)
  /\ mover' = NoMove
  /\ UNCHANGED <<still, disk, row, asset, mounted, check, found, retaken, adopted, overlap, writes, faults>>

AlreadyComplete ==
  /\ mover.pc = "copy" /\ Readable(mover.src) /\ mover.dest \in mounted
  /\ Expected(mover.src) /\ Completed(mover.src, mover.dest)
  /\ mover' = [mover EXCEPT !.pc = "record"]
  /\ UNCHANGED <<still, disk, row, asset, mounted, check, found, retaken, adopted, overlap, writes, faults>>

\* A resumed copy has no hash of the whole.
Copy ==
  /\ mover.pc = "copy" /\ Readable(mover.src) /\ mover.dest \in mounted
  /\ Expected(mover.src) /\ disk[mover.dest] = None
  /\ Write(mover.dest, disk[mover.src])
  /\ \E resumed \in BOOLEAN :
       mover' = [mover EXCEPT !.pc = "record",
                              !.hash = IF resumed THEN None ELSE disk[mover.src]]
  /\ UNCHANGED <<still, row, asset, mounted, check, adopted, overlap, writes, faults>>

\* The asset takes every hash there is.
RecordAnyHash ==
  /\ mover.pc = "record"
  /\ Put(mover.dest, "complete", IF mover.hash # None THEN mover.hash ELSE mover.full)
  /\ asset' = IF mover.hash # None THEN [asset EXCEPT !.full = mover.hash] ELSE asset
  /\ retaken' = retaken \cup ({mover.dest} \cap found)
  /\ mover' = NoMove
  /\ UNCHANGED <<still, disk, mounted, check, found, adopted, overlap, writes, faults>>

\* PutCopy, and SetFullSHA256 of a hash the asset did not have at the beginning,
\* as one step.
Record ==
  /\ mover.pc = "record"
  /\ Put(mover.dest, "complete", IF mover.hash # None THEN mover.hash ELSE mover.full)
  /\ asset' = IF mover.full = None /\ mover.hash # None
              THEN [asset EXCEPT !.full = mover.hash] ELSE asset
  /\ retaken' = retaken \cup ({mover.dest} \cap found)
  /\ mover' = NoMove
  /\ UNCHANGED <<still, disk, mounted, check, found, adopted, overlap, writes, faults>>

-----------------------------------------------------------------------------
(* Flush: the pair, its check, the delete.                                 *)

\* A mismatch counts too.
FlushNASOfAny == First({l \in NASes \cap mounted : row[l].state \in {"complete", "mismatch"}})

\* pickFlushPair
FlushNAS == First({l \in NASes \cap mounted : Complete(l)})

\* verifyPair, by the size the asset has now.
PairVerified(n) ==
  /\ \/ row[Spool].hash = None \/ row[n].hash = None
     \/ row[Spool].hash = row[n].hash
  /\ Readable(n) /\ Readable(Spool)
  /\ Size[disk[n]] = asset.size /\ Size[disk[Spool]] = asset.size
  /\ Sparse[disk[n]] = Sparse[disk[Spool]]
  /\ still \/ Sparse[disk[n]] = Sparse[Original]

Flush ==
  /\ Complete(Spool) /\ FlushNAS # None /\ PairVerified(FlushNAS)
  /\ Write(Spool, None)
  /\ row' = [row EXCEPT ![Spool] = NoRow]
  /\ overlap' = (overlap \/ check.allow)
  /\ UNCHANGED <<still, asset, mounted, mover, check, adopted, writes, faults>>

-----------------------------------------------------------------------------
(* Verify.                                                                 *)

\* The asset and its copies are read once.
VerifyBegin(full, allow) ==
  /\ check.pc = "idle"
  /\ LET jobs == {l \in mounted \ {Card} : row[l].state \in {"complete", "mismatch"}}
     IN /\ jobs # {}
        /\ check' = [NoCheck EXCEPT !.pc = "read", !.full = full, !.allow = allow,
                                    !.asset = asset, !.todo = jobs]
  /\ overlap' = (overlap \/ (allow /\ mover.pc # "idle"))
  /\ UNCHANGED <<still, disk, row, asset, mounted, mover, found, retaken, adopted, writes, faults>>

\* checkCopy
Matches(l) ==
  LET want == IF check.asset.full = None /\ still THEN Original ELSE check.asset.full
  IN /\ Readable(l) /\ Size[disk[l]] = check.asset.size
     /\ still \/ Sparse[disk[l]] = Sparse[Original]
     /\ check.full /\ want # None => disk[l] = want

CheckCopy(l) ==
  /\ check.pc = "read" /\ l \in check.todo
  /\ LET bad == ~Matches(l)
         changed == bad /\ Readable(l)
     IN /\ check' = [check EXCEPT
             !.todo = @ \ {l},
             !.ok = IF bad THEN @ ELSE @ \cup {l},
             !.bad = IF bad THEN @ \cup {l} ELSE @,
             !.changed = IF changed THEN @ \cup {l} ELSE @,
             !.hashes = IF bad \/ ~check.full THEN @ ELSE @ \cup {disk[l]}]
  /\ UNCHANGED <<still, disk, row, asset, mounted, mover, found, retaken, adopted, overlap, writes, faults>>

\* Where there was no hash to compare with, the copies vouch for each other:
\* one hash is recorded, in rows that are put back if they are gone; of
\* several none is right.
ReadEnd ==
  /\ check.pc = "read" /\ check.todo = {}
  /\ LET compare == check.full /\ check.asset.full = None
         agreed == compare /\ Cardinality(check.hashes) = 1
         conflict == compare /\ Cardinality(check.hashes) > 1
         sum == CHOOSE h \in check.hashes : TRUE
     IN /\ check' = [check EXCEPT !.pc = "apply", !.todo = check.ok \cup check.bad,
                                  !.ok = IF conflict THEN {} ELSE @,
                                  !.bad = IF conflict THEN @ \cup check.ok ELSE @]
        /\ asset' = IF agreed THEN [asset EXCEPT !.full = sum] ELSE asset
        /\ row' = [l \in Locs |-> IF agreed /\ l \in check.ok
                                  THEN [state |-> "complete", hash |-> sum] ELSE row[l]]
        /\ Unfind(IF agreed THEN check.ok ELSE {})
  /\ UNCHANGED <<still, disk, mounted, mover, adopted, overlap, writes, faults>>

\* SetCopyState; a row that is gone ends the verify.
Apply(l) ==
  /\ check.pc = "apply" /\ l \in check.todo
  /\ IF row[l].state = "none"
     THEN row' = row /\ check' = NoCheck /\ Unfind({})
     ELSE /\ row' = [row EXCEPT ![l].state = IF l \in check.ok THEN "complete" ELSE "mismatch"]
          /\ check' = [check EXCEPT !.todo = @ \ {l}]
          /\ IF l \in check.ok THEN Unfind({l})
             ELSE /\ found' = IF l \in check.changed /\ Readable(l) /\ ~Matches(l)
                              THEN found \cup {l} ELSE found
                  /\ retaken' = retaken \ {l}
  /\ UNCHANGED <<still, disk, asset, mounted, mover, adopted, overlap, writes, faults>>

\* Video and audio are never updated in place.
Updates == still

\* The changed copy.
Edited == CHOOSE l \in check.changed : TRUE

\* adoptEdit, if there is one edit to adopt: the file is read again.
AdoptContent ==
  /\ check.pc = "apply" /\ check.todo = {}
  /\ IF /\ check.allow /\ Cardinality(check.changed) = 1 /\ check.ok # {}
        /\ Updates /\ Readable(Edited)
     THEN /\ asset' = [size |-> Size[disk[Edited]], full |-> disk[Edited]]
          /\ check' = [check EXCEPT !.pc = "row", !.sum = disk[Edited]]
          /\ adopted' = IF adopted = None THEN disk[Edited] ELSE adopted
          /\ Unfind({l \in Locs : disk[l] = disk[Edited]})
     ELSE check' = NoCheck /\ UNCHANGED <<asset, adopted, found, retaken>>
  /\ UNCHANGED <<still, disk, row, mounted, mover, overlap, writes, faults>>

AdoptRow ==
  /\ check.pc = "row"
  /\ Put(Edited, "complete", check.sum)
  /\ check' = [check EXCEPT !.pc = "replace", !.todo = check.ok]
  /\ UNCHANGED <<still, disk, asset, mounted, mover, found, retaken, adopted, overlap, writes, faults>>

\* replaceFile
Replace(l) ==
  /\ check.pc = "replace" /\ l \in check.todo
  /\ Readable(Edited) /\ l \in mounted
  /\ Write(l, disk[Edited])
  /\ check' = [check EXCEPT !.pc = "put", !.todo = @ \ {l}, !.at = l]
  /\ UNCHANGED <<still, row, asset, mounted, mover, adopted, overlap, writes, faults>>

ReplaceFails(l) ==
  /\ check.pc = "replace" /\ l \in check.todo
  /\ ~Readable(Edited) \/ l \notin mounted
  /\ row' = [row EXCEPT ![l].state = IF @ = "none" THEN @ ELSE "mismatch"]
  /\ check' = [check EXCEPT !.todo = @ \ {l}]
  /\ UNCHANGED <<still, disk, asset, mounted, mover, found, retaken, adopted, overlap, writes, faults>>

ReplaceRow ==
  /\ check.pc = "put"
  /\ Put(check.at, "complete", check.sum)
  /\ check' = [check EXCEPT !.pc = "replace"]
  /\ UNCHANGED <<still, disk, asset, mounted, mover, found, retaken, adopted, overlap, writes, faults>>

VerifyEnd ==
  /\ check.pc = "replace" /\ check.todo = {}
  /\ check' = NoCheck
  /\ UNCHANGED <<still, disk, row, asset, mounted, mover, found, retaken, adopted, overlap, writes, faults>>

-----------------------------------------------------------------------------
(* What happens to files, volumes and commands.                            *)

\* An editor saves, a disk rots.
Change(l, v) ==
  /\ writes < MaxWrites
  /\ l \in mounted \ {Card} /\ disk[l] \notin {None, v} /\ v # Original
  /\ Write(l, v)
  /\ adopted' = None /\ writes' = writes + 1
  /\ UNCHANGED <<still, row, asset, mounted, mover, check, overlap, faults>>

Unplug(l) ==
  /\ faults < MaxFaults /\ l \in Removable \cap mounted
  /\ mounted' = mounted \ {l} /\ faults' = faults + 1
  /\ UNCHANGED <<still, disk, row, asset, mover, check, found, retaken, adopted, overlap, writes>>

Plug(l) ==
  /\ l \in Removable \ mounted
  /\ mounted' = mounted \cup {l}
  /\ UNCHANGED <<still, disk, row, asset, mover, check, found, retaken, adopted, overlap, writes, faults>>

\* Nothing is cleaned up: a row may stay partial.
Crash ==
  /\ faults < MaxFaults /\ faults' = faults + 1
  /\ \/ mover.pc # "idle" /\ mover' = NoMove /\ check' = check
     \/ check.pc # "idle" /\ check' = NoCheck /\ mover' = mover
  /\ UNCHANGED <<still, disk, row, asset, mounted, found, retaken, adopted, overlap, writes>>

Next ==
  \/ \E l \in Locs : CopyBegin(l)
  \/ CopyFails \/ AlreadyComplete \/ Copy \/ Record
  \/ Flush
  \/ \E full, allow \in BOOLEAN : VerifyBegin(full, allow)
  \/ \E l \in Locs : CheckCopy(l) \/ Apply(l) \/ Replace(l) \/ ReplaceFails(l)
  \/ ReadEnd \/ AdoptContent \/ AdoptRow \/ ReplaceRow \/ VerifyEnd
  \/ \E l \in Locs, v \in Versions : Change(l, v)
  \/ \E l \in Locs : Unplug(l) \/ Plug(l)
  \/ Crash

Spec == Init /\ [][Next]_vars

-----------------------------------------------------------------------------
(* Properties.                                                             *)

(* A spool file is deleted on the strength of a NAS file that the last       *)
(* verify of it found bad only if Archive has recorded that file complete    *)
(* since, which looks at its size and its ends, and only while its size is   *)
(* the asset's and, but for stills, its ends are the original's.  A verify   *)
(* without Full that finds it good is a verify of it too.                    *)
FlushHeedsVerify ==
  [][disk[Spool] # None /\ disk'[Spool] = None /\ FlushNAS \in found =>
       /\ FlushNAS \in retaken /\ Size[disk[FlushNAS]] = asset.size
       /\ still \/ Sparse[disk[FlushNAS]] = Sparse[Original]]_vars

(* ingest/verify.go:109, of a copy that no longer matches: it "never counts  *)
(* as a safe copy for flush", whatever Archive makes of its row.             *)
BadIsNeverSafe ==
  [][disk[Spool] # None /\ disk'[Spool] = None => FlushNAS \notin found]_vars

(* An edit that --allow-updates made the content of the asset stays on some *)
(* disk until a file changes again: no later spool, flush or verify takes   *)
(* the old content for the newer.                                           *)
AdoptedIsKept == adopted # None => \E l \in Locs : disk[l] = adopted

(* So it is when no volume goes, no command dies, and no copy or flush of   *)
(* the asset runs beside the verify.                                        *)
EditsAreKept == faults = 0 /\ ~overlap => AdoptedIsKept
=============================================================================
