------------------------------- MODULE Tiers -------------------------------
(***************************************************************************)
(* The tier transitions of ingest/steps.go: one catalog, the files on the  *)
(* cards, spools and NAS it describes, and the link tree derived from it.  *)
(*                                                                         *)
(* Movers run Env.Spool and Env.Archive (goroutines of one import, or      *)
(* activities of one Temporal worker: they share the per-asset locks).     *)
(* Flushers run Env.Flush and verifiers `mm verify`; neither takes an      *)
(* asset lock, and a verifier is a process of its own.                     *)
(*                                                                         *)
(* One step of a process is what it does between two points where another  *)
(* process can see or change something it depends on: a catalog statement, *)
(* a file appearing under its final name or going away, a link swap.  The  *)
(* bytes of a copy, and its .partial file, are the subject of CopyFile.    *)
(***************************************************************************)
EXTENDS Naturals

CONSTANTS
  Assets,      \* catalogued assets, all registered from a card (ScanSource)
  Stills,      \* the assets whose kind does not use the sparse identity
  Spools, NASes, Cards,   \* the locations, by kind
  CardOf,      \* the card each asset was registered from
  Rank,        \* the order of catalog.Copies: spool, NAS, source, priority
  Movers, Flushers, Verifiers,
  Stoppable,   \* processes whose step may end early: error, cancel or crash
  Removable,   \* locations that may be unplugged and plugged in again
  Fragile,     \* locations whose files may change behind the tool's back
  MaxDamage,   \* how many such changes a behaviour has
  None

Locs == Spools \cup NASes \cup Cards
Procs == Movers \cup Flushers \cup Verifiers

ASSUME TiersAssumption ==
  /\ Stills \subseteq Assets
  /\ Spools \cap NASes = {} /\ Spools \cap Cards = {} /\ NASes \cap Cards = {}
  /\ CardOf \in [Assets -> Cards]
  /\ Rank \in [Locs -> Nat]
  /\ Movers \cap Flushers = {} /\ Movers \cap Verifiers = {}
  /\ Flushers \cap Verifiers = {}
  /\ Removable \subseteq Locs /\ Fragile \subseteq Locs
  /\ MaxDamage \in Nat
  /\ None \notin Assets \cup Locs \cup Movers

VARIABLES
  row,       \* catalog: the copies row of an asset at a location
  disk,      \* the file under the asset's final name at a location
  mounted,   \* locations mounted now
  pinned,    \* assets with pinned = 1
  link,      \* the location an asset's link points at
  safe,      \* cards a finished import reported safe to format
  lock,      \* the holder of Env.lockAsset
  mover, flusher, verifier,   \* what each process is in the middle of
  damaged    \* how many files changed behind the tool's back

vars == <<row, disk, mounted, pinned, link, safe, lock,
          mover, flusher, verifier, damaged>>

RowState == {"none", "partial", "complete", "mismatch"}
Version  == {"orig", "changed"}
File     == Version \cup {"absent"}

MoverState ==
  [pc : {"idle", "ready", "copy", "install", "record", "link", "set"},
   asset : Assets \cup {None}, src : Locs \cup {None},
   todo : SUBSET (Spools \cup NASes), dest : Locs \cup {None},
   data : File, target : Locs \cup {None}]

FlusherState ==
  [pc : {"idle", "scan", "remove", "delete", "relink", "write"},
   spool : Spools \cup {None}, list : SUBSET Assets,
   asset : Assets \cup {None}, nas : NASes \cup {None}, did : BOOLEAN,
   want : [Assets -> Locs \cup {None}]]

VerifierState ==
  [pc : {"idle", "check", "apply", "relink", "write"},
   asset : Assets \cup {None}, loc : Locs \cup {None}, ok : BOOLEAN,
   want : [Assets -> Locs \cup {None}]]

IdleMover == [pc |-> "idle", asset |-> None, src |-> None, todo |-> {},
              dest |-> None, data |-> "absent", target |-> None]

NoWant == [a \in Assets |-> None]

IdleFlusher == [pc |-> "idle", spool |-> None, list |-> {}, asset |-> None,
                nas |-> None, did |-> FALSE, want |-> NoWant]

IdleVerifier == [pc |-> "idle", asset |-> None, loc |-> None, ok |-> FALSE,
                 want |-> NoWant]

TypeOK ==
  /\ row \in [Assets -> [Locs -> RowState]]
  /\ disk \in [Assets -> [Locs -> File]]
  /\ mounted \subseteq Locs
  /\ pinned \subseteq Assets
  /\ link \in [Assets -> Locs]
  /\ safe \subseteq Cards
  /\ lock \in [Assets -> Movers \cup {None}]
  /\ mover \in [Movers -> MoverState]
  /\ flusher \in [Flushers -> FlusherState]
  /\ verifier \in [Verifiers -> VerifierState]
  /\ damaged \in Nat

-----------------------------------------------------------------------------
(* What the steps read.                                                    *)

Sparse(a) == a \notin Stills

Usable(a) == {l \in mounted : row[a][l] = "complete"}

\* linktree.Choose over catalog.Copies: the first complete mounted copy.
Best(a) == {l \in Usable(a) : \A k \in Usable(a) : Rank[l] <= Rank[k]}

OnDisk(a, l) == l \in mounted /\ disk[a][l] # "absent"

NASComplete(a) == {n \in NASes : row[a][n] = "complete"}

\* Env.Reconcile's want map; an asset with no usable copy keeps its link.
Wanted == {w \in [Assets -> Locs \cup {None}] :
             \A a \in Assets : IF Usable(a) = {} THEN w[a] = None
                                                 ELSE w[a] \in Best(a)}

RelinkedBare(w) == [a \in Assets |-> w[a]]

Relinked(w) == [a \in Assets |-> IF w[a] = None THEN link[a] ELSE w[a]]

-----------------------------------------------------------------------------
(* After ScanSource: every asset is catalogued with a complete copy on its *)
(* card, and the first Reconcile of the import has linked it there.        *)

Init ==
  /\ row = [a \in Assets |->
             [l \in Locs |-> IF l = CardOf[a] THEN "complete" ELSE "none"]]
  /\ disk = [a \in Assets |->
              [l \in Locs |-> IF l = CardOf[a] THEN "orig" ELSE "absent"]]
  /\ mounted = Locs
  /\ pinned = {}
  /\ link = CardOf
  /\ safe = {}
  /\ lock = [a \in Assets |-> None]
  /\ mover = [p \in Movers |-> IdleMover]
  /\ flusher = [f \in Flushers |-> IdleFlusher]
  /\ verifier = [v \in Verifiers |-> IdleVerifier]
  /\ damaged = 0

-----------------------------------------------------------------------------
(* Env.Spool and Env.Archive.                                              *)

LockUnchecked(p, a) == lock' = [lock EXCEPT ![a] = p]

Lock(p, a) == lock[a] = None /\ lock' = [lock EXCEPT ![a] = p]

\* lockAsset and lookup: the snapshot of the copies fixes the source and the
\* destinations for the whole step.
Start(p, a, dests) ==
  \E src \in Best(a) :
    /\ Lock(p, a)
    /\ mover' = [mover EXCEPT ![p] =
         [IdleMover EXCEPT !.pc = "ready", !.asset = a,
                           !.src = src, !.todo = dests]]
    /\ UNCHANGED <<row, disk, mounted, pinned, link, safe,
                   flusher, verifier, damaged>>

\* A complete copy on any mounted spool makes Spool a no-op.
SpoolBegin(p, a, s) ==
  /\ mover[p].pc = "idle"
  /\ s \in Spools \cap mounted
  /\ \A t \in Spools \cap mounted : row[a][t] # "complete"
  /\ Start(p, a, {s})

LackingNAS(a) == {n \in NASes \cap mounted : row[a][n] # "complete"}

ArchiveBegin(p, a) ==
  /\ mover[p].pc = "idle"
  /\ LackingNAS(a) # {}
  /\ Start(p, a, LackingNAS(a))

PutCompleteFirst(p, d) ==
  /\ mover[p].pc = "ready"
  /\ d \in mover[p].todo
  /\ row' = [row EXCEPT ![mover[p].asset][d] = "complete"]
  /\ mover' = [mover EXCEPT ![p] = [@ EXCEPT !.pc = "copy", !.dest = d]]
  /\ UNCHANGED <<disk, mounted, pinned, link, safe, lock,
                 flusher, verifier, damaged>>

\* copyTo: the row says partial before the first byte is written.
PutPartial(p, d) ==
  /\ mover[p].pc = "ready"
  /\ d \in mover[p].todo
  /\ row' = [row EXCEPT ![mover[p].asset][d] = "partial"]
  /\ mover' = [mover EXCEPT ![p] = [@ EXCEPT !.pc = "copy", !.dest = d]]
  /\ UNCHANGED <<disk, mounted, pinned, link, safe, lock,
                 flusher, verifier, damaged>>

SourceUnchecked(p) == /\ OnDisk(mover[p].asset, mover[p].src)
                      /\ mover[p].dest \in mounted

\* copyfile.Copy opens the source; only sparse kinds pass an ExpectID.
SourceOpens(p) ==
  LET a == mover[p].asset IN
  /\ OnDisk(a, mover[p].src)
  /\ mover[p].dest \in mounted
  /\ Sparse(a) => disk[a][mover[p].src] = "orig"

CopyOpen(p) ==
  LET a == mover[p].asset IN
  /\ mover[p].pc = "copy"
  /\ SourceOpens(p)
  /\ \/ /\ disk[a][mover[p].dest] = "absent"
        /\ mover' = [mover EXCEPT ![p] =
             [@ EXCEPT !.pc = "install", !.data = disk[a][mover[p].src]]]
     \/ /\ disk[a][mover[p].dest] = disk[a][mover[p].src]   \* AlreadyComplete
        /\ mover' = [mover EXCEPT ![p] = [@ EXCEPT !.pc = "record"]]
  /\ UNCHANGED <<row, disk, mounted, pinned, link, safe, lock,
                 flusher, verifier, damaged>>

UnlockForgotten(p) ==
  /\ UNCHANGED lock
  /\ mover' = [mover EXCEPT ![p] = IdleMover]

Unlock(p) ==
  /\ lock' = [lock EXCEPT ![mover[p].asset] = None]
  /\ mover' = [mover EXCEPT ![p] = IdleMover]

\* The source is gone or is not the asset, or ErrExists: the destination
\* holds something else.  The row stays partial.
CopyFails(p) ==
  LET a == mover[p].asset IN
  /\ mover[p].pc = "copy"
  /\ \/ ~SourceOpens(p)
     \/ /\ disk[a][mover[p].dest] # "absent"
        /\ disk[a][mover[p].dest] # disk[a][mover[p].src]
  /\ Unlock(p)
  /\ UNCHANGED <<row, disk, mounted, pinned, link, safe,
                 flusher, verifier, damaged>>

\* The verified partial is renamed to the final name, whatever is there now.
Install(p) ==
  /\ mover[p].pc = "install"
  /\ mover[p].dest \in mounted
  /\ disk' = [disk EXCEPT ![mover[p].asset][mover[p].dest] = mover[p].data]
  /\ mover' = [mover EXCEPT ![p] = [@ EXCEPT !.pc = "record", !.data = "absent"]]
  /\ UNCHANGED <<row, mounted, pinned, link, safe, lock,
                 flusher, verifier, damaged>>

InstallErrorIgnored(p) ==
  /\ mover[p].pc = "install"
  /\ mover[p].dest \notin mounted
  /\ mover' = [mover EXCEPT ![p] = [@ EXCEPT !.pc = "record", !.data = "absent"]]
  /\ UNCHANGED <<row, disk, mounted, pinned, link, safe, lock,
                 flusher, verifier, damaged>>

InstallFails(p) ==
  /\ mover[p].pc = "install"
  /\ mover[p].dest \notin mounted
  /\ Unlock(p)
  /\ UNCHANGED <<row, disk, mounted, pinned, link, safe,
                 flusher, verifier, damaged>>

Record(p) ==
  /\ mover[p].pc = "record"
  /\ row' = [row EXCEPT ![mover[p].asset][mover[p].dest] = "complete"]
  /\ mover' = [mover EXCEPT ![p] = [@ EXCEPT !.pc = "link"]]
  /\ UNCHANGED <<disk, mounted, pinned, link, safe, lock,
                 flusher, verifier, damaged>>

\* reconcileAsset reads the copies, then swaps the link; no e.mu is held.
LinkRead(p) ==
  /\ mover[p].pc = "link"
  /\ \E t \in IF Usable(mover[p].asset) = {} THEN {None}
                                            ELSE Best(mover[p].asset) :
       mover' = [mover EXCEPT ![p] = [@ EXCEPT !.pc = "set", !.target = t]]
  /\ UNCHANGED <<row, disk, mounted, pinned, link, safe, lock,
                 flusher, verifier, damaged>>

LinkSet(p) ==
  LET m == mover[p]
      rest == m.todo \ {m.dest}
  IN
  /\ m.pc = "set"
  /\ link' = IF m.target = None THEN link
             ELSE [link EXCEPT ![m.asset] = m.target]
  /\ IF rest = {}
     THEN Unlock(p)
     ELSE /\ mover' = [mover EXCEPT ![p] =
                [IdleMover EXCEPT !.pc = "ready", !.asset = m.asset,
                                  !.src = m.src, !.todo = rest]]
          /\ UNCHANGED lock
  /\ UNCHANGED <<row, disk, mounted, pinned, safe,
                 flusher, verifier, damaged>>

\* An error return, a cancelled context or a crash of the process: the
\* deferred unlock runs (or the lock dies with the process) and everything
\* on disk and in the catalog stays as it is.
MoverStops(p) ==
  /\ p \in Stoppable
  /\ mover[p].pc # "idle"
  /\ Unlock(p)
  /\ UNCHANGED <<row, disk, mounted, pinned, link, safe,
                 flusher, verifier, damaged>>

-----------------------------------------------------------------------------
(* Env.Flush.                                                              *)

Flushable(s) == {a \in Assets \ pinned :
                   row[a][s] = "complete" /\ NASComplete(a) # {}}

\* The worklist is read once; --older-than leaves some candidates out.
FlushBegin(f, s, list) ==
  /\ flusher[f].pc = "idle"
  /\ s \in Spools \cap mounted
  /\ list \subseteq Flushable(s) /\ list # {}
  /\ flusher' = [flusher EXCEPT ![f] =
       [IdleFlusher EXCEPT !.pc = "scan", !.spool = s, !.list = list]]
  /\ UNCHANGED <<row, disk, mounted, pinned, link, safe, lock,
                 mover, verifier, damaged>>

\* pickFlushPair: the first complete mounted NAS copy in rank order.
FlushNAS(a) ==
  LET up == NASComplete(a) \cap mounted
  IN  {n \in up : \A k \in up : Rank[n] <= Rank[k]}

PairTrusted(a, s, n) == OnDisk(a, s) /\ OnDisk(a, n)

\* verifyPair: both files are read again, compared with each other and, for
\* sparse kinds, with the identity.  Sizes are part of the version.
PairVerified(a, s, n) ==
  /\ OnDisk(a, s) /\ OnDisk(a, n)
  /\ disk[a][s] = disk[a][n]
  /\ Sparse(a) => disk[a][n] = "orig"

FlushPick(f, a) ==
  LET s == flusher[f].spool IN
  /\ flusher[f].pc = "scan"
  /\ a \in flusher[f].list
  /\ row[a][s] = "complete"
  /\ \E n \in FlushNAS(a) :
       /\ PairVerified(a, s, n)
       /\ flusher' = [flusher EXCEPT ![f] =
            [@ EXCEPT !.pc = "remove", !.asset = a, !.nas = n]]
  /\ UNCHANGED <<row, disk, mounted, pinned, link, safe, lock,
                 mover, verifier, damaged>>

FlushRefuse(f, a) ==
  LET s == flusher[f].spool IN
  /\ flusher[f].pc = "scan"
  /\ a \in flusher[f].list
  /\ \/ row[a][s] # "complete"
     \/ FlushNAS(a) = {}
     \/ \E n \in FlushNAS(a) : ~PairVerified(a, s, n)
  /\ flusher' = [flusher EXCEPT ![f] = [@ EXCEPT !.list = flusher[f].list \ {a}]]
  /\ UNCHANGED <<row, disk, mounted, pinned, link, safe, lock,
                 mover, verifier, damaged>>

\* os.Remove; a file that is not there (or a volume that is gone) is not an
\* error.
FlushRemove(f) ==
  LET s == flusher[f].spool IN
  /\ flusher[f].pc = "remove"
  /\ disk' = IF s \in mounted
             THEN [disk EXCEPT ![flusher[f].asset][s] = "absent"]
             ELSE disk
  /\ flusher' = [flusher EXCEPT ![f] = [@ EXCEPT !.pc = "delete"]]
  /\ UNCHANGED <<row, mounted, pinned, link, safe, lock,
                 mover, verifier, damaged>>

\* DeleteCopy; ErrNotFound ends the flush without its Reconcile.
FlushDelete(f) ==
  LET s == flusher[f].spool
      a == flusher[f].asset
  IN
  /\ flusher[f].pc = "delete"
  /\ row' = [row EXCEPT ![a][s] = "none"]
  /\ flusher' = [flusher EXCEPT ![f] =
       IF row[a][s] = "none" THEN IdleFlusher
       ELSE [@ EXCEPT !.pc = "scan", !.list = flusher[f].list \ {a},
                      !.asset = None, !.nas = None, !.did = TRUE]]
  /\ UNCHANGED <<disk, mounted, pinned, link, safe, lock,
                 mover, verifier, damaged>>

\* The list is done, or FreeBytes has been freed.
FlushEnd(f) ==
  /\ flusher[f].pc = "scan"
  /\ flusher[f].list = {} \/ flusher[f].did
  /\ flusher' = [flusher EXCEPT ![f] =
       IF flusher[f].did THEN [IdleFlusher EXCEPT !.pc = "relink"]
                         ELSE IdleFlusher]
  /\ UNCHANGED <<row, disk, mounted, pinned, link, safe, lock,
                 mover, verifier, damaged>>

\* Env.Reconcile: read what every link should be, then set them; e.mu keeps
\* the Reconciles of one process apart.
FlushRelinkRead(f) ==
  /\ flusher[f].pc = "relink"
  /\ \A g \in Flushers : flusher[g].pc # "write"
  /\ \E w \in Wanted :
       flusher' = [flusher EXCEPT ![f] = [@ EXCEPT !.pc = "write", !.want = w]]
  /\ UNCHANGED <<row, disk, mounted, pinned, link, safe, lock,
                 mover, verifier, damaged>>

FlushRelinkWrite(f) ==
  /\ flusher[f].pc = "write"
  /\ link' = Relinked(flusher[f].want)
  /\ flusher' = [flusher EXCEPT ![f] = IdleFlusher]
  /\ UNCHANGED <<row, disk, mounted, pinned, safe, lock,
                 mover, verifier, damaged>>

FlushStops(f) ==
  /\ f \in Stoppable
  /\ flusher[f].pc # "idle"
  /\ flusher' = [flusher EXCEPT ![f] = IdleFlusher]
  /\ UNCHANGED <<row, disk, mounted, pinned, link, safe, lock,
                 mover, verifier, damaged>>

-----------------------------------------------------------------------------
(* Env.Verify of one copy, without --allow-updates.                        *)

VerifyBegin(v, a, l) ==
  /\ verifier[v].pc = "idle"
  /\ l \in mounted \ Cards
  /\ row[a][l] \in {"complete", "mismatch"}
  /\ verifier' = [verifier EXCEPT ![v] =
       [IdleVerifier EXCEPT !.pc = "check", !.asset = a, !.loc = l]]
  /\ UNCHANGED <<row, disk, mounted, pinned, link, safe, lock,
                 mover, flusher, damaged>>

\* checkCopy.  A quick check of a still only compares sizes, so it passes a
\* changed file of the same size; with --full the hash is compared.
CheckPasses(a, l, full) ==
  /\ OnDisk(a, l)
  /\ Sparse(a) \/ full => disk[a][l] = "orig"

VerifyCheck(v, full) ==
  /\ verifier[v].pc = "check"
  /\ verifier' = [verifier EXCEPT ![v] =
       [@ EXCEPT !.pc = "apply",
                 !.ok = CheckPasses(verifier[v].asset, verifier[v].loc, full)]]
  /\ UNCHANGED <<row, disk, mounted, pinned, link, safe, lock,
                 mover, flusher, damaged>>

\* SetCopyState: a row that went away meanwhile ends the run.
VerifyApply(v) ==
  LET a == verifier[v].asset
      l == verifier[v].loc
  IN
  /\ verifier[v].pc = "apply"
  /\ row' = IF row[a][l] = "none" THEN row
            ELSE [row EXCEPT ![a][l] =
                    IF verifier[v].ok THEN "complete" ELSE "mismatch"]
  /\ verifier' = [verifier EXCEPT ![v] =
       IF row[a][l] = "none" \/ verifier[v].ok THEN IdleVerifier
       ELSE [IdleVerifier EXCEPT !.pc = "relink"]]
  /\ UNCHANGED <<disk, mounted, pinned, link, safe, lock,
                 mover, flusher, damaged>>

VerifyRelinkRead(v) ==
  /\ verifier[v].pc = "relink"
  /\ \E w \in Wanted :
       verifier' = [verifier EXCEPT ![v] = [@ EXCEPT !.pc = "write", !.want = w]]
  /\ UNCHANGED <<row, disk, mounted, pinned, link, safe, lock,
                 mover, flusher, damaged>>

VerifyRelinkWrite(v) ==
  /\ verifier[v].pc = "write"
  /\ link' = Relinked(verifier[v].want)
  /\ verifier' = [verifier EXCEPT ![v] = IdleVerifier]
  /\ UNCHANGED <<row, disk, mounted, pinned, safe, lock,
                 mover, flusher, damaged>>

VerifyStops(v) ==
  /\ v \in Stoppable
  /\ verifier[v].pc # "idle"
  /\ verifier' = [verifier EXCEPT ![v] = IdleVerifier]
  /\ UNCHANGED <<row, disk, mounted, pinned, link, safe, lock,
                 mover, flusher, damaged>>

-----------------------------------------------------------------------------
(* The user and the world.                                                 *)

SetPinned(a) ==
  /\ pinned' = IF a \in pinned THEN pinned \ {a} ELSE pinned \cup {a}
  /\ UNCHANGED <<row, disk, mounted, link, safe, lock,
                 mover, flusher, verifier, damaged>>

ArchivedAnywhere(a) == Usable(a) # {}

\* Env.archived: a complete copy on a mounted NAS.
Archived(a) == NASComplete(a) \cap mounted # {}

CardAssets(c) == {a \in Assets : CardOf[a] = c}

\* The last lines of Env.Import.
ReportSafe(c) ==
  /\ c \in Cards \ safe
  /\ CardAssets(c) # {}
  /\ \A a \in CardAssets(c) : Archived(a)
  /\ safe' = safe \cup {c}
  /\ UNCHANGED <<row, disk, mounted, pinned, link, lock,
                 mover, flusher, verifier, damaged>>

\* The user formats a card that was reported safe.  No row changes.
Format(c) ==
  /\ c \in safe
  /\ \E a \in CardAssets(c) : disk[a][c] # "absent"
  /\ disk' = [a \in Assets |->
                IF CardOf[a] = c THEN [disk[a] EXCEPT ![c] = "absent"]
                                 ELSE disk[a]]
  /\ UNCHANGED <<row, mounted, pinned, link, safe, lock,
                 mover, flusher, verifier, damaged>>

Plug(l) ==
  /\ l \in Removable
  /\ mounted' = IF l \in mounted THEN mounted \ {l} ELSE mounted \cup {l}
  /\ UNCHANGED <<row, disk, pinned, link, safe, lock,
                 mover, flusher, verifier, damaged>>

\* An editor saving through a link, or a bad sector.  Not in the moment
\* between verifyPair and os.Remove, which no program could close.
Damage(a, l) ==
  /\ l \in Fragile
  /\ damaged < MaxDamage
  /\ disk[a][l] = "orig"
  /\ \A f \in Flushers : ~(flusher[f].pc = "remove" /\ flusher[f].asset = a)
  /\ disk' = [disk EXCEPT ![a][l] = "changed"]
  /\ damaged' = damaged + 1
  /\ UNCHANGED <<row, mounted, pinned, link, safe, lock,
                 mover, flusher, verifier>>

-----------------------------------------------------------------------------
MoverStep(p) ==
  \/ \E a \in Assets, s \in Spools : SpoolBegin(p, a, s)
  \/ \E a \in Assets : ArchiveBegin(p, a)
  \/ \E d \in Spools \cup NASes : PutPartial(p, d)
  \/ CopyOpen(p) \/ CopyFails(p)
  \/ Install(p) \/ InstallFails(p)
  \/ Record(p) \/ LinkRead(p) \/ LinkSet(p)
  \/ MoverStops(p)

FlusherStep(f) ==
  \/ \E s \in Spools : \E list \in SUBSET Flushable(s) : FlushBegin(f, s, list)
  \/ \E a \in Assets : FlushPick(f, a) \/ FlushRefuse(f, a)
  \/ FlushRemove(f) \/ FlushDelete(f) \/ FlushEnd(f)
  \/ FlushRelinkRead(f) \/ FlushRelinkWrite(f)
  \/ FlushStops(f)

VerifierStep(v) ==
  \/ \E a \in Assets, l \in Locs : VerifyBegin(v, a, l)
  \/ \E full \in BOOLEAN : VerifyCheck(v, full)
  \/ VerifyApply(v) \/ VerifyRelinkRead(v) \/ VerifyRelinkWrite(v)
  \/ VerifyStops(v)

WorldStep ==
  \/ \E a \in Assets : SetPinned(a)
  \/ \E c \in Cards : ReportSafe(c) \/ Format(c)
  \/ \E l \in Locs : Plug(l)
  \/ \E a \in Assets, l \in Locs : Damage(a, l)

Next ==
  \/ \E p \in Movers : MoverStep(p)
  \/ \E f \in Flushers : FlusherStep(f)
  \/ \E v \in Verifiers : VerifierStep(v)
  \/ WorldStep

Spec == Init /\ [][Next]_vars

\* Every step a process has begun goes on to its end (Go's scheduler, a
\* Temporal worker's retries); nothing obliges anyone to begin one.
Begun ==
  /\ \A p \in Movers : WF_vars(mover[p].pc # "idle" /\ MoverStep(p))
  /\ \A f \in Flushers : WF_vars(flusher[f].pc # "idle" /\ FlusherStep(f))
  /\ \A v \in Verifiers : WF_vars(verifier[v].pc # "idle" /\ VerifierStep(v))

\* The user runs `mm flush` and `mm spool` again and again.
Rerun ==
  /\ \A f \in Flushers : WF_vars(FlusherStep(f))
  /\ \A p \in Movers : WF_vars(MoverStep(p))

FairSpec == Spec /\ Begun
RerunSpec == Spec /\ Begun /\ Rerun

-----------------------------------------------------------------------------
(* Properties.                                                             *)

\* A row that says a NAS holds a complete copy is never ahead of the disk:
\* partial is recorded before the copy and complete after the rename (R8), by
\* whichever steps interleave, crash or work from an old snapshot.  What
\* ReportSafe and Flush believe about the NAS rests on it.
NASCompleteOnDisk ==
  \A a \in Assets, n \in NASes :
    row[a][n] = "complete" => disk[a][n] # "absent"

\* R3: once a file has its final name on a NAS, no step of the tool removes or
\* replaces it; in particular two steps that both found the name free
\* never both rename onto it.
NASAppendOnly ==
  [][damaged' = damaged =>
       \A a \in Assets, n \in NASes :
         disk[a][n] # "absent" => disk'[a][n] = disk[a][n]]_vars

\* R1 and R4: when the tool takes a spool copy away, some NAS holds a file with
\* the content that was verified; for video and audio, the original.
FlushKeepsACopy ==
  [][\A a \in Assets, s \in Spools :
       disk[a][s] # "absent" /\ disk'[a][s] = "absent" =>
         \E n \in NASes : /\ disk[a][n] # "absent"
                          /\ Sparse(a) => disk[a][n] = "orig"]_vars

\* A card reported safe to format stays safe: each of its assets is on a NAS
\* from then on, the original bytes for video and audio, as long as only
\* spools and cards are damaged behind the tool's back.
SafeMeansArchived ==
  Fragile \cap NASes = {} =>
    \A c \in safe : \A a \in CardAssets(c) :
      \E n \in NASes : /\ disk[a][n] # "absent"
                       /\ Sparse(a) => disk[a][n] = "orig"

\* A link into the NAS always resolves while the NAS is mounted: neither
\* reconcileAsset nor Reconcile, however old what it read, links to a file
\* that is not there.
NASLinksResolve ==
  \A a \in Assets : link[a] \in NASes => disk[a][link[a]] # "absent"

\* A mover that takes an asset's lock gives it back, whether its copies
\* succeed, fail, or lose their volumes.
LockIsFreed == \A a \in Assets : lock[a] # None ~> lock[a] = None

\* temporal/workflows.go:650: pinning an asset means a flush cannot undo the
\* work of bringing it back to a spool: a flush does not settle on removing an
\* asset that is already pinned.
PinnedIsNotPicked ==
  [][\A f \in Flushers :
       flusher[f].pc = "scan" /\ flusher'[f].pc = "remove" =>
         flusher'[f].asset \notin pinned]_vars

\* docs/design-brief.md R8: a copy is recorded complete only after its file has
\* its final name; only a flush between its remove and its delete lags.
CompleteIsRenamed ==
  \A a \in Assets, s \in Spools :
    row[a][s] = "complete" =>
      \/ disk[a][s] # "absent"
      \/ \E f \in Flushers : /\ flusher[f].pc = "delete"
                             /\ flusher[f].asset = a /\ flusher[f].spool = s

\* ingest/env.go:4: every step is idempotent and resumable, so running flush
\* and spool again after an interrupted flush repairs what it left.
RerunHeals ==
  \A a \in Assets, s \in Spools :
    row[a][s] = "complete" /\ disk[a][s] = "absent"
      ~> ~(row[a][s] = "complete" /\ disk[a][s] = "absent")

\* Where an asset is held whole: any version of a still, the original bytes of
\* anything else.
Holders(a) == {l \in Locs : /\ disk[a][l] # "absent"
                            /\ Sparse(a) => disk[a][l] = "orig"}

Cust == INSTANCE Custody WITH held <- [a \in Assets |-> Holders(a)]

\* R1, R3 and R4 as one promise (module Custody): copies come from copies, and
\* the tool lets go of a spool or card file only while a NAS holds the asset.
ImplementsCustody == Cust!Spec
=============================================================================
