------------------------------ MODULE Companions ------------------------------
(***************************************************************************)
(* The companions of one asset: sidecars, which editors change after the   *)
(* import, and proxies, which can be made again.  Spool and Archive sync   *)
(* them to the tier they filled, Flush secures them on a NAS before it     *)
(* drops them, Reconcile sweeps the real files editors leave in the link   *)
(* tree into storage.  A file is the version it holds.  How the original   *)
(* itself moves between the tiers is the subject of Tiers.                 *)
(***************************************************************************)
EXTENDS Naturals, Sequences, FiniteSets

CONSTANTS
  Comps,         \* the (role, extension) pairs of the asset
  Regenerable,   \* those that are proxies; the rest are sidecars
  Order,         \* the locations, best first: the spool, the NASes, the card
  MaxVersion,    \* bound: versions of one companion
  MaxFaults,     \* bound: commands that die or writes that fail
  CardOut,       \* companions are only written once the card is out for good
  Procs,         \* commands that run at the same time
  None

Locs == {Order[i] : i \in DOMAIN Order}
Spool == Head(Order)
Card == Order[Len(Order)]
NASes == Locs \ {Spool, Card}

ASSUME CompanionsAssumption ==
  /\ Regenerable \subseteq Comps
  /\ Order \in Seq(Locs) /\ Len(Order) > 2
  /\ \A i, j \in DOMAIN Order : Order[i] = Order[j] => i = j
  /\ MaxVersion \in Nat \ {0} /\ MaxFaults \in Nat /\ CardOut \in BOOLEAN
  /\ None \notin Locs \cup Comps

VARIABLES
  disk,     \* disk[c][l]: the version of c on location l, 0 for no file
  rows,     \* rows[c]: the locations of the companions rows of c
  copies,   \* the locations with a complete copy of the original
  cardIn,   \* the card is mounted
  link,     \* link[c]: where the link of c points
  tree,     \* tree[c]: the version in a real file at the path of the link
  newest,   \* the version of c its writer wrote last
  proc,     \* the commands under way
  faults    \* commands that died, writes that failed

vars == <<disk, rows, copies, cardIn, link, tree, newest, proc, faults>>

Version == 0..MaxVersion

Idle == [pc |-> "idle", dest |-> None, from |-> [c \in Comps |-> None],
         comp |-> None, todo |-> {}, relink |-> FALSE, clean |-> TRUE]

TypeOK ==
  /\ disk \in [Comps -> [Locs -> Version]]
  /\ rows \in [Comps -> SUBSET Locs] /\ copies \subseteq Locs
  /\ cardIn \in BOOLEAN
  /\ link \in [Comps -> Locs \cup {None}] /\ tree \in [Comps -> Version]
  /\ newest \in [Comps -> Version]
  /\ proc \in [Procs ->
       [pc : {"idle", "sync", "row", "relink", "drop", "secured", "remove",
              "forget", "sweep", "swept", "sweptrow"},
        dest : Locs \cup {None}, from : [Comps -> Locs \cup {None}],
        comp : Comps \cup {None}, todo : SUBSET Comps, relink : BOOLEAN,
        clean : BOOLEAN]]
  /\ faults \in 0..MaxFaults

\* A card has just been put in; the camera may have written companions.
Init ==
  /\ \E made \in SUBSET Comps :
       /\ disk = [c \in Comps |-> [l \in Locs |->
                    IF c \in made /\ l = Card THEN 1 ELSE 0]]
       /\ newest = [c \in Comps |-> IF c \in made THEN 1 ELSE 0]
  /\ rows = [c \in Comps |-> {}]
  /\ copies = {}
  /\ cardIn = TRUE
  /\ link = [c \in Comps |-> None]
  /\ tree = [c \in Comps |-> 0]
  /\ proc = [p \in Procs |-> Idle]
  /\ faults = 0

-----------------------------------------------------------------------------
(* Choosing copies.                                                        *)

Mounted == IF cardIn THEN Locs ELSE Locs \ {Card}

Rank(l) == CHOOSE i \in DOMAIN Order : Order[i] = l

WorstIn(locs) ==
  IF locs = {} THEN None
  ELSE CHOOSE l \in locs : \A k \in locs : Rank(l) >= Rank(k)

BestIn(locs) ==
  IF locs = {} THEN None
  ELSE CHOOSE l \in locs : \A k \in locs : Rank(l) <= Rank(k)

\* bestCompanions
Best(c, except) == BestIn((rows[c] \cap Mounted) \ except)

\* reconcileAsset and the end of Reconcile: nothing usable leaves the links
\* alone, and so does a real file in the way of one.
Relinked ==
  [c \in Comps |->
     IF copies \cap Mounted # {} /\ Best(c, {}) # None /\ tree[c] = 0
     THEN Best(c, {}) ELSE link[c]]

Set(p, r) == proc' = [proc EXCEPT ![p] = r]
To(p, pc) == proc' = [proc EXCEPT ![p].pc = pc]
Write(c, l, v) == disk' = [disk EXCEPT ![c][l] = v]
Record(c, l) == rows' = [rows EXCEPT ![c] = @ \cup {l}]

-----------------------------------------------------------------------------
(* Scanning the card, and copying the original.                            *)

Scan(p) ==
  /\ proc[p].pc = "idle" /\ cardIn
  /\ copies' = copies \cup {Card}
  /\ rows' = [c \in Comps |-> IF disk[c][Card] # 0 THEN rows[c] \cup {Card}
                              ELSE rows[c]]
  /\ UNCHANGED <<disk, cardIn, link, tree, newest, proc, faults>>

\* lockAsset, which Spool and Archive hold to their end, and e.mu of Reconcile.
Locked == \E p \in Procs : proc[p].relink \/ proc[p].pc \in {"sync", "row"}
Reconciling ==
  \E p \in Procs : proc[p].pc \in {"sweep", "swept", "sweptrow", "relink"} /\ ~proc[p].relink

\* What syncCompanions is about to copy, and from where: the best copy anywhere
\* but dest itself.
SyncTo(p, d, relink) ==
  Set(p, [Idle EXCEPT !.pc = "sync", !.dest = d, !.relink = relink,
                      !.from = [c \in Comps |-> Best(c, {d})]])

\* Spool and Archive up to the complete row; Spool skips an asset it has.
CopyOriginal(p, d) ==
  /\ proc[p].pc = "idle" /\ ~Locked
  /\ d # Card /\ d \notin copies /\ copies \cap Mounted # {}
  /\ copies' = copies \cup {d}
  /\ SyncTo(p, d, TRUE)
  /\ UNCHANGED <<disk, rows, cardIn, link, tree, newest, faults>>

\* Archive of an asset the NAS already has.
Resync(p, d) ==
  /\ proc[p].pc = "idle" /\ ~Locked
  /\ d \in NASes \cap copies
  /\ SyncTo(p, d, FALSE)
  /\ UNCHANGED <<disk, rows, copies, cardIn, link, tree, newest, faults>>

-----------------------------------------------------------------------------
(* syncCompanions.                                                         *)

NextComp(p, c) == [proc[p] EXCEPT !.pc = "sync", !.from[c] = None, !.comp = None]

Readable(c, l) == l \in Mounted /\ disk[c][l] # 0

AddsOnly(c, s, d) == disk[c][d] = 0

\* A proxy is copied where there is none, a sidecar wherever it differs.
Replaces(c, s, d) ==
  IF c \in Regenerable THEN disk[c][d] = 0 ELSE disk[c][d] # disk[c][s]

SyncFile(p, c) ==
  /\ proc[p].pc = "sync" /\ proc[p].from[c] # None
  /\ LET s == proc[p].from[c]
         d == proc[p].dest
     IN IF Readable(c, s) /\ Replaces(c, s, d)
        THEN /\ Write(c, d, disk[c][s])
             /\ Set(p, [proc[p] EXCEPT !.pc = "row", !.comp = c])
        ELSE /\ Set(p, NextComp(p, c))
             /\ UNCHANGED disk
  /\ UNCHANGED <<rows, copies, cardIn, link, tree, newest, faults>>

SyncRow(p) ==
  /\ proc[p].pc = "row"
  /\ Record(proc[p].comp, proc[p].dest)
  /\ Set(p, NextComp(p, proc[p].comp))
  /\ UNCHANGED <<disk, copies, cardIn, link, tree, newest, faults>>

\* Logged, and nothing more.
SyncFails(p, c) ==
  /\ proc[p].pc = "sync" /\ proc[p].from[c] # None
  /\ faults < MaxFaults
  /\ faults' = faults + 1
  /\ Set(p, [NextComp(p, c) EXCEPT !.clean = FALSE])
  /\ UNCHANGED <<disk, rows, copies, cardIn, link, tree, newest>>

Synced(p) == proc[p].pc = "sync" /\ \A c \in Comps : proc[p].from[c] = None

\* Only copyTo goes on to reconcileAsset.
SyncEnd(p) ==
  /\ Synced(p)
  /\ IF proc[p].relink THEN To(p, "relink") ELSE Set(p, Idle)
  /\ UNCHANGED <<disk, rows, copies, cardIn, link, tree, newest, faults>>

Relink(p) ==
  /\ proc[p].pc = "relink"
  /\ link' = Relinked
  /\ Set(p, Idle)
  /\ UNCHANGED <<disk, rows, copies, cardIn, tree, newest, faults>>

-----------------------------------------------------------------------------
(* Flush: dropSpoolCompanions and companionSafeOnNAS.                      *)

Flush(p) ==
  /\ proc[p].pc = "idle"
  /\ Spool \in copies /\ copies \cap NASes # {}
  /\ copies' = copies \ {Spool}
  /\ Set(p, [Idle EXCEPT !.pc = "drop",
                         !.todo = {c \in Comps : Spool \in rows[c]}])
  /\ UNCHANGED <<disk, rows, cardIn, link, tree, newest, faults>>

\* replaceIfDifferent as the proxies have it: a file that is there stays.
FlushSecureOnce(p, c, n) ==
  /\ proc[p].pc = "drop" /\ c \in proc[p].todo /\ n \in NASes
  /\ disk[c][Spool] # 0
  /\ Write(c, n, IF disk[c][n] = 0 THEN disk[c][Spool] ELSE disk[c][n])
  /\ Set(p, [proc[p] EXCEPT !.pc = "secured", !.dest = n, !.comp = c])
  /\ UNCHANGED <<rows, copies, cardIn, link, tree, newest, faults>>

\* The first NAS that will have it, in no particular order.  A proxy that is
\* there already is kept.
FlushSecure(p, c, n) ==
  /\ proc[p].pc = "drop" /\ c \in proc[p].todo /\ n \in NASes
  /\ disk[c][Spool] # 0
  /\ Write(c, n, IF Replaces(c, Spool, n) THEN disk[c][Spool] ELSE disk[c][n])
  /\ Set(p, [proc[p] EXCEPT !.pc = "secured", !.dest = n, !.comp = c])
  /\ UNCHANGED <<rows, copies, cardIn, link, tree, newest, faults>>

FlushRow(p) ==
  /\ proc[p].pc = "secured"
  /\ Record(proc[p].comp, proc[p].dest)
  /\ To(p, "remove")
  /\ UNCHANGED <<disk, copies, cardIn, link, tree, newest, faults>>

FlushRemove(p) ==
  /\ proc[p].pc = "remove"
  /\ Write(proc[p].comp, Spool, 0)
  /\ To(p, "forget")
  /\ UNCHANGED <<rows, copies, cardIn, link, tree, newest, faults>>

FlushForget(p) ==
  /\ proc[p].pc = "forget"
  /\ rows' = [rows EXCEPT ![proc[p].comp] = @ \ {Spool}]
  /\ Set(p, [proc[p] EXCEPT !.pc = "drop", !.todo = @ \ {proc[p].comp}])
  /\ UNCHANGED <<disk, copies, cardIn, link, tree, newest, faults>>

\* What cannot be secured stays on the spool: no file, or no NAS took it.
FlushKeep(p, c) ==
  /\ proc[p].pc = "drop" /\ c \in proc[p].todo
  /\ \/ disk[c][Spool] = 0 /\ UNCHANGED faults
     \/ disk[c][Spool] # 0 /\ faults < MaxFaults /\ faults' = faults + 1
  /\ Set(p, [proc[p] EXCEPT !.todo = @ \ {c}])
  /\ UNCHANGED <<disk, rows, copies, cardIn, link, tree, newest>>

FlushEnd(p) ==
  /\ proc[p].pc = "drop" /\ proc[p].todo = {} /\ ~Reconciling
  /\ Set(p, [Idle EXCEPT !.pc = "sweep"])
  /\ UNCHANGED <<disk, rows, copies, cardIn, link, tree, newest, faults>>

-----------------------------------------------------------------------------
(* Reconcile: the audit, sweepCompanions and the links.                    *)

ReconcileBegin(p) ==
  /\ proc[p].pc = "idle" /\ ~Reconciling
  /\ Set(p, [Idle EXCEPT !.pc = "sweep"])
  /\ UNCHANGED <<disk, rows, copies, cardIn, link, tree, newest, faults>>

\* A sweep that keeps a sidecar storage already has, the way syncing treats
\* a proxy.
SweepOnce(p, c) ==
  /\ proc[p].pc = "sweep" /\ tree[c] # 0
  /\ LET d == BestIn(copies \ {Card})
     IN /\ d # None
        /\ Write(c, d, IF disk[c][d] = 0 THEN tree[c] ELSE disk[c][d])
        /\ Set(p, [proc[p] EXCEPT !.dest = d, !.comp = c,
                     !.pc = IF c \in Regenerable THEN "sweptrow" ELSE "swept"])
  /\ tree' = IF c \in Regenerable THEN [tree EXCEPT ![c] = 0] ELSE tree
  /\ UNCHANGED <<rows, copies, cardIn, link, newest, faults>>

\* A sweep that does not ask whether storage for the asset is mounted.
SweepAnywhere(p, c) ==
  /\ proc[p].pc = "sweep" /\ tree[c] # 0
  /\ LET d == BestIn(copies \ {Card})
     IN /\ Write(c, d, tree[c])
        /\ Set(p, [proc[p] EXCEPT !.dest = d, !.comp = c,
                     !.pc = IF c \in Regenerable THEN "sweptrow" ELSE "swept"])
  /\ tree' = IF c \in Regenerable THEN [tree EXCEPT ![c] = 0] ELSE tree
  /\ UNCHANGED <<rows, copies, cardIn, link, newest, faults>>

\* moveFile for a proxy, replaceIfDifferent for a sidecar.
Sweep(p, c) ==
  /\ proc[p].pc = "sweep" /\ tree[c] # 0
  /\ LET d == BestIn(copies \ {Card})
     IN /\ d # None
        /\ Write(c, d, tree[c])
        /\ Set(p, [proc[p] EXCEPT !.dest = d, !.comp = c,
                     !.pc = IF c \in Regenerable THEN "sweptrow" ELSE "swept"])
  /\ tree' = IF c \in Regenerable THEN [tree EXCEPT ![c] = 0] ELSE tree
  /\ UNCHANGED <<rows, copies, cardIn, link, newest, faults>>

SweepRemove(p) ==
  /\ proc[p].pc = "swept"
  /\ tree' = [tree EXCEPT ![proc[p].comp] = 0]
  /\ To(p, "sweptrow")
  /\ UNCHANGED <<disk, rows, copies, cardIn, link, newest, faults>>

SweepRow(p) ==
  /\ proc[p].pc = "sweptrow"
  /\ Record(proc[p].comp, proc[p].dest)
  /\ To(p, "sweep")
  /\ UNCHANGED <<disk, copies, cardIn, link, tree, newest, faults>>

\* The second audit: a file that could not be swept ends Reconcile.
SweepEnd(p) ==
  /\ proc[p].pc = "sweep"
  /\ IF \A c \in Comps : tree[c] = 0
     THEN To(p, "relink")
     ELSE BestIn(copies \ {Card}) = None /\ Set(p, Idle)
  /\ UNCHANGED <<disk, rows, copies, cardIn, link, tree, newest, faults>>

-----------------------------------------------------------------------------
(* Editors, proxy generators, cards, crashes.                              *)

\* No command is taking the sidecar away from under the editor: a flush, a
\* sweep, or a copy to the spool whose link is still to be set.
Quiet ==
  \A p \in Procs :
    \/ proc[p].pc = "idle"
    \/ proc[p].pc \in {"sync", "row", "relink"} /\ proc[p].dest \in NASes

Dirty == proc' = [p \in Procs |-> [proc[p] EXCEPT !.clean = (@ /\ proc[p].pc = "idle")]]

MayEdit(c) == newest[c] < MaxVersion /\ Quiet /\ (CardOut => ~cardIn)

EditThroughLink(c) ==
  /\ MayEdit(c) /\ c \notin Regenerable
  /\ tree[c] = 0 /\ link[c] # None /\ Readable(c, link[c])
  /\ newest' = [newest EXCEPT ![c] = @ + 1]
  /\ Write(c, link[c], newest'[c])
  /\ Dirty
  /\ UNCHANGED <<rows, copies, cardIn, link, tree, faults>>

\* An editor that saves by renaming leaves a real file where the link was; so
\* does one that makes the sidecar, and a proxy generator.
SaveInTree(c) ==
  /\ MayEdit(c) /\ copies # {}
  /\ newest' = [newest EXCEPT ![c] = @ + 1]
  /\ tree' = [tree EXCEPT ![c] = newest'[c]]
  /\ link' = [link EXCEPT ![c] = None]
  /\ Dirty
  /\ UNCHANGED <<disk, rows, copies, cardIn, faults>>

Eject ==
  /\ cardIn
  /\ cardIn' = FALSE
  /\ UNCHANGED <<disk, rows, copies, link, tree, newest, proc, faults>>

Insert ==
  /\ ~cardIn
  /\ CardOut => \A c \in Comps : newest[c] = disk[c][Card]
  /\ cardIn' = TRUE
  /\ UNCHANGED <<disk, rows, copies, link, tree, newest, proc, faults>>

Crash(p) ==
  /\ proc[p].pc # "idle" /\ faults < MaxFaults
  /\ faults' = faults + 1
  /\ Set(p, Idle)
  /\ UNCHANGED <<disk, rows, copies, cardIn, link, tree, newest>>

-----------------------------------------------------------------------------
CommandStep(p) ==
  \/ Scan(p) \/ (\E d \in Locs : CopyOriginal(p, d) \/ Resync(p, d))
  \/ (\E c \in Comps : SyncFile(p, c) \/ SyncFails(p, c))
  \/ SyncRow(p) \/ SyncEnd(p) \/ Relink(p)
  \/ Flush(p) \/ (\E c \in Comps, n \in NASes : FlushSecure(p, c, n))
  \/ FlushRow(p) \/ FlushRemove(p) \/ FlushForget(p)
  \/ (\E c \in Comps : FlushKeep(p, c)) \/ FlushEnd(p)
  \/ ReconcileBegin(p) \/ (\E c \in Comps : Sweep(p, c))
  \/ SweepRemove(p) \/ SweepRow(p) \/ SweepEnd(p)
  \/ Crash(p)

Next ==
  \/ \E p \in Procs : CommandStep(p)
  \/ \E c \in Comps : EditThroughLink(c) \/ SaveInTree(c)
  \/ Eject \/ Insert

Spec == Init /\ [][Next]_vars

-----------------------------------------------------------------------------
(* Properties.                                                             *)

Sidecars == Comps \ Regenerable

\* docs/design-brief.md:7: sidecars are kept current on the NAS.  As long as
\* nothing failed, whatever imports, archives, flushes, fetches back and sweeps
\* followed, the last edit of every sidecar is still in some file.
EditsAreKept ==
  faults = 0 =>
    \A c \in Sidecars :
      newest[c] = 0 \/ tree[c] = newest[c]
        \/ \E l \in Locs : disk[c][l] = newest[c]

\* ... and the path the editor uses shows it: between commands, a sidecar link
\* that resolves leads to the last edit and to no older version on a slower tier.
EditorSeesNewest ==
  faults = 0 /\ (\A p \in Procs : proc[p] = Idle) =>
    \A c \in Sidecars :
      tree[c] = 0 /\ link[c] # None /\ Readable(c, link[c])
        => disk[c][link[c]] = newest[c]

\* Whatever crashed before, an archive that gets to its end with no edit and no
\* failed write in between leaves the NAS with the sidecar the spool has.
ArchiveKeepsNASCurrent ==
  \A p \in Procs :
    Synced(p) /\ proc[p].clean /\ proc[p].dest \in NASes =>
      \A c \in Sidecars :
        Spool \in rows[c] /\ disk[c][Spool] # 0
          => disk[c][proc[p].dest] = disk[c][Spool]

\* A flush that removes a sidecar from the spool, also after crashes of earlier
\* ones, has the version it removes on a NAS, row and all.
FlushSecuresSidecar ==
  [][\A c \in Sidecars :
       disk[c][Spool] # 0 /\ disk'[c][Spool] = 0 =>
         \E n \in NASes : n \in rows[c] /\ disk[c][n] = disk[c][Spool]]_vars
=============================================================================
