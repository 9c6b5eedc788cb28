------------------------------- MODULE Import -------------------------------
(***************************************************************************)
(* Env.Import in one process: one goroutine spools the card's assets in    *)
(* turn, cap(e.nas) archivers take what it hands them over an unbuffered   *)
(* channel.  archiveSlot holds archive copies back while anything is being *)
(* spooled, e.nas bounds them, the context may be cancelled at any time.   *)
(* What one copy does to catalog and disk is the subject of Tiers.         *)
(***************************************************************************)
EXTENDS Naturals, FiniteSets

CONSTANTS
  Card,        \* src.Assets: the assets ScanSource found on the card
  Earlier,     \* assets of earlier imports
  NASes,       \* the mounted NAS locations
  Serves,      \* those whose trees hold assets of this kind: cfg.Serves
  Archivers,   \* the goroutines over the channel
  Writers,     \* cap(e.nas)
  WhileSpooling   \* cap(e.nasImport); 0 when it is nil

Assets == Card \cup Earlier

ASSUME ImportAssumption ==
  /\ Card \cap Earlier = {}
  /\ Serves \in [Assets -> SUBSET NASes]
  /\ IsFiniteSet(Archivers)
  /\ Writers \in Nat \ {0}
  /\ WhileSpooling \in 0..Writers   \* Concurrency.NASWhileImporting clamps it

VARIABLES
  onSpool, onNAS,   \* the complete copies the catalog records
  todo,             \* card assets the loop has not come to
  left,             \* NeedsArchive's answer, less what was queued
  listed,           \* it answered, and with no error
  main,             \* the goroutine of Import
  arch,             \* the archivers, in the middle of Env.Archive
  spooling, slots, writers,   \* e.spooling, len(e.nasImport), len(e.nas)
  cancelled,
  failed,           \* Summary.Failures
  report            \* Summary.SafeToFormat, once Import has returned it

vars == <<onSpool, onNAS, todo, left, listed, main, arch, spooling, slots,
          writers, cancelled, failed, report>>

NoAsset == [pc |-> "idle", todo |-> {}, slot |-> FALSE, asset |-> {}]

TypeOK ==
  /\ onSpool \subseteq Assets /\ onNAS \in [Assets -> SUBSET NASes]
  /\ todo \subseteq Card /\ left \subseteq Assets /\ listed \in BOOLEAN
  /\ main \in [pc : {"next", "spool", "spooling", "send", "leftovers", "wait",
                     "done"},
               asset : SUBSET Assets, after : {"next", "leftovers"}]
  /\ arch \in [Archivers -> [pc : {"idle", "loop", "slot", "nas", "copy", "exited"},
                             todo : SUBSET NASes, slot : BOOLEAN,
                             asset : SUBSET Assets]]
  /\ spooling \in 0..1 /\ slots \in 0..WhileSpooling /\ writers \in 0..Writers
  /\ cancelled \in BOOLEAN /\ failed \subseteq Assets
  /\ report \in {"none", "safe", "unsafe"}

\* After the scan: earlier runs may have left an asset anywhere.
Init ==
  /\ onSpool \in SUBSET Assets
  /\ onNAS \in [Assets -> SUBSET NASes]
  /\ todo = Card
  /\ left = {} /\ listed = FALSE
  /\ main = [pc |-> "next", asset |-> {}, after |-> "next"]
  /\ arch = [r \in Archivers |-> NoAsset]
  /\ spooling = 0 /\ slots = 0 /\ writers = 0
  /\ cancelled = FALSE
  /\ failed = {}
  /\ report = "none"

-----------------------------------------------------------------------------
(* The goroutine of Import.                                                *)

Queue(a, after) == main' = [pc |-> "send", asset |-> {a}, after |-> after]

\* e.archived, or Spool's own lookup, cannot read the catalog.
LookupFails(a) ==
  /\ main.pc = "next" /\ ~cancelled /\ a \in todo
  /\ todo' = todo \ {a}
  /\ failed' = failed \cup {a}
  /\ UNCHANGED <<onSpool, onNAS, left, listed, main, arch, spooling, slots,
                 writers, cancelled, report>>

\* An asset already archived is sent on for its sidecars; Spool finds one
\* already on a spool, or no spool for its kind with room for it.
Next1(a) ==
  /\ main.pc = "next" /\ ~cancelled /\ a \in todo
  /\ todo' = todo \ {a}
  /\ \/ Queue(a, "next")
     \/ /\ onNAS[a] = {} /\ a \notin onSpool
        /\ main' = [main EXCEPT !.pc = "spool", !.asset = {a}]
  /\ UNCHANGED <<onSpool, onNAS, left, listed, arch, spooling, slots, writers,
                 cancelled, failed, report>>

SpoolStart ==
  /\ main.pc = "spool"
  /\ spooling' = spooling + 1
  /\ main' = [main EXCEPT !.pc = "spooling"]
  /\ UNCHANGED <<onSpool, onNAS, todo, left, listed, arch, slots, writers,
                 cancelled, failed, report>>

SpoolEnd ==
  /\ main.pc = "spooling"
  /\ spooling' = spooling - 1
  /\ onSpool' = onSpool \cup main.asset
  /\ main' = [main EXCEPT !.pc = "send"]
  /\ UNCHANGED <<onNAS, todo, left, listed, arch, slots, writers, cancelled,
                 failed, report>>

SpoolFailsCounted ==
  /\ main.pc = "spooling"
  /\ UNCHANGED spooling
  /\ failed' = failed \cup main.asset
  /\ main' = [main EXCEPT !.pc = "next", !.asset = {}]
  /\ UNCHANGED <<onSpool, onNAS, todo, left, listed, arch, slots, writers,
                 cancelled, report>>

\* Also what a cancelled context makes of a spool copy.
SpoolFails ==
  /\ main.pc = "spooling"
  /\ spooling' = spooling - 1
  /\ failed' = failed \cup main.asset
  /\ main' = [main EXCEPT !.pc = "next", !.asset = {}]
  /\ UNCHANGED <<onSpool, onNAS, todo, left, listed, arch, slots, writers,
                 cancelled, report>>

\* The channel has no buffer: the send completes when an archiver receives.
\* Archive's lookup fixes which NAS the asset is copied to: those that serve its
\* kind and lack it, though that be none.
Send(r) ==
  /\ main.pc = "send" /\ arch[r].pc = "idle"
  /\ main' = [main EXCEPT !.pc = main.after, !.asset = {}]
  /\ arch' = [arch EXCEPT ![r] =
       [NoAsset EXCEPT !.pc = "loop", !.asset = main.asset,
          !.todo = {n \in NASes : \A a \in main.asset : n \in Serves[a] \ onNAS[a]}]]
  /\ UNCHANGED <<onSpool, onNAS, todo, left, listed, spooling, slots, writers,
                 cancelled, failed, report>>

\* The lookup fails, and with it this asset's Archive.
SendFails(r) ==
  /\ main.pc = "send" /\ arch[r].pc = "idle"
  /\ main' = [main EXCEPT !.pc = main.after, !.asset = {}]
  /\ failed' = failed \cup main.asset
  /\ UNCHANGED <<onSpool, onNAS, todo, left, listed, arch, spooling, slots,
                 writers, cancelled, report>>

\* Every asset has at least the complete row of the card it came from.
NeedsArchive == {a \in Assets : onNAS[a] = {}}

\* An error of NeedsArchive is dropped: the import goes on without leftovers.
LoopEnds ==
  /\ main.pc = "next"
  /\ todo = {} \/ cancelled
  /\ \/ ~cancelled /\ listed' = TRUE /\ left' = NeedsArchive \ Card
     \/ listed' = FALSE /\ left' = {}
  /\ main' = [main EXCEPT !.pc = "leftovers", !.after = "leftovers"]
  /\ UNCHANGED <<onSpool, onNAS, todo, arch, spooling, slots, writers,
                 cancelled, failed, report>>

NextLeftover(a) ==
  /\ main.pc = "leftovers" /\ a \in left
  /\ left' = left \ {a}
  /\ Queue(a, "leftovers")
  /\ UNCHANGED <<onSpool, onNAS, todo, listed, arch, spooling, slots, writers,
                 cancelled, failed, report>>

Close ==
  /\ main.pc = "leftovers" /\ left = {}
  /\ main' = [main EXCEPT !.pc = "wait"]
  /\ UNCHANGED <<onSpool, onNAS, todo, left, listed, arch, spooling, slots,
                 writers, cancelled, failed, report>>

Unawaited == TRUE

AllExited == \A r \in Archivers : arch[r].pc = "exited"

\* wg.Wait, then SafeToFormat unless the context was cancelled; an asset the
\* catalog cannot look up counts as not archived.
Return ==
  /\ main.pc = "wait" /\ AllExited
  /\ main' = [main EXCEPT !.pc = "done"]
  /\ \/ cancelled /\ report' = "none"
     \/ ~cancelled /\ report' = "unsafe"
     \/ /\ ~cancelled /\ Card # {} /\ \A a \in Card : onNAS[a] # {}
        /\ report' = "safe"
  /\ UNCHANGED <<onSpool, onNAS, todo, left, listed, arch, spooling, slots,
                 writers, cancelled, failed>>

-----------------------------------------------------------------------------
(* Env.Archive in an archiver.                                             *)

Exit(r) ==
  /\ arch[r].pc = "idle"
  /\ main.pc \in {"wait", "done"}
  /\ arch' = [arch EXCEPT ![r].pc = "exited"]
  /\ UNCHANGED <<onSpool, onNAS, todo, left, listed, main, spooling, slots,
                 writers, cancelled, failed, report>>

\* The next NAS without the asset, or the end of Archive.
ArchiveNext(r) ==
  /\ arch[r].pc = "loop"
  /\ arch' = [arch EXCEPT ![r] = IF arch[r].todo = {} THEN NoAsset
                                 ELSE [arch[r] EXCEPT !.pc = "slot"]]
  /\ UNCHANGED <<onSpool, onNAS, todo, left, listed, main, spooling, slots,
                 writers, cancelled, failed, report>>

\* archiveSlot: nothing is being spooled, or one of the slots is free.
Admit(r) ==
  /\ arch[r].pc = "slot"
  /\ \/ /\ spooling = 0
        /\ arch' = [arch EXCEPT ![r].pc = "nas"]
        /\ UNCHANGED slots
     \/ /\ spooling > 0 /\ slots < WhileSpooling
        /\ slots' = slots + 1
        /\ arch' = [arch EXCEPT ![r].pc = "nas", ![r].slot = TRUE]
  /\ UNCHANGED <<onSpool, onNAS, todo, left, listed, main, spooling, writers,
                 cancelled, failed, report>>

Acquire(r) ==
  /\ arch[r].pc = "nas" /\ writers < Writers
  /\ writers' = writers + 1
  /\ arch' = [arch EXCEPT ![r].pc = "copy"]
  /\ UNCHANGED <<onSpool, onNAS, todo, left, listed, main, spooling, slots,
                 cancelled, failed, report>>

ReleaseForgotten(r) == UNCHANGED slots

Release(r) == slots' = IF arch[r].slot THEN slots - 1 ELSE slots

GiveUp(r) ==
  /\ arch' = [arch EXCEPT ![r] = NoAsset]
  /\ failed' = failed \cup arch[r].asset

\* ctx.Done in archiveSlot, where no slot is held, or while waiting for e.nas.
Cancelled(r) ==
  /\ cancelled
  /\ arch[r].pc \in {"slot", "nas"}
  /\ Release(r)
  /\ GiveUp(r)
  /\ UNCHANGED <<onSpool, onNAS, todo, left, listed, main, spooling, writers,
                 cancelled, report>>

\* The writer kept when a copy ends well.
CopyDoneHolding(r) ==
  /\ arch[r].pc = "copy"
  /\ \E n \in arch[r].todo :
       /\ onNAS' = [a \in Assets |-> IF a \in arch[r].asset
                                     THEN onNAS[a] \cup {n} ELSE onNAS[a]]
       /\ arch' = [arch EXCEPT ![r].pc = "loop", ![r].slot = FALSE,
                               ![r].todo = arch[r].todo \ {n}]
  /\ Release(r)
  /\ UNCHANGED <<onSpool, todo, left, listed, main, spooling, writers, cancelled,
                 failed, report>>

CopyDone(r) ==
  /\ arch[r].pc = "copy"
  /\ \E n \in arch[r].todo :
       /\ onNAS' = [a \in Assets |-> IF a \in arch[r].asset
                                     THEN onNAS[a] \cup {n} ELSE onNAS[a]]
       /\ arch' = [arch EXCEPT ![r].pc = "loop", ![r].slot = FALSE,
                               ![r].todo = arch[r].todo \ {n}]
  /\ writers' = writers - 1
  /\ Release(r)
  /\ UNCHANGED <<onSpool, todo, left, listed, main, spooling, cancelled,
                 failed, report>>

\* The rest of the NAS locations are not tried; the copy may fail because the
\* card of an earlier import is gone.
CopyFails(r) ==
  /\ arch[r].pc = "copy"
  /\ writers' = writers - 1
  /\ Release(r)
  /\ GiveUp(r)
  /\ UNCHANGED <<onSpool, onNAS, todo, left, listed, main, spooling, cancelled,
                 report>>

Cancel ==
  /\ ~cancelled /\ main.pc # "done"
  /\ cancelled' = TRUE
  /\ UNCHANGED <<onSpool, onNAS, todo, left, listed, main, arch, spooling,
                 slots, writers, failed, report>>

Finished == main.pc = "done" /\ UNCHANGED vars

-----------------------------------------------------------------------------
MainStep ==
  \/ \E a \in Card : LookupFails(a) \/ Next1(a)
  \/ SpoolStart \/ SpoolEnd \/ SpoolFails
  \/ \E r \in Archivers : Send(r) \/ SendFails(r)
  \/ LoopEnds \/ (\E a \in Assets : NextLeftover(a)) \/ Close \/ Return

ArchiverStep(r) ==
  \/ Exit(r) \/ ArchiveNext(r) \/ Admit(r) \/ Acquire(r)
  \/ Cancelled(r) \/ CopyDone(r) \/ CopyFails(r)

Next == \/ MainStep
        \/ \E r \in Archivers : ArchiverStep(r)
        \/ Cancel \/ Finished

Spec == Init /\ [][Next]_vars

\* Go's scheduler runs every goroutine that can run; copies end.
FairSpec == Spec /\ WF_vars(MainStep)
                 /\ \A r \in Archivers : WF_vars(ArchiverStep(r))

-----------------------------------------------------------------------------
(* Properties.                                                             *)

\* An import that was not cancelled leaves nothing behind unreported: an asset of
\* the card is on every NAS that serves its kind or among the failures, whatever
\* earlier runs left where; so is every leftover on some NAS, provided the
\* catalog listed the leftovers at all; and a card is reported safe only when all
\* of its assets are on a NAS.
NoneForgotten ==
  main.pc = "done" /\ ~cancelled =>
    /\ \A a \in Card : Serves[a] \subseteq onNAS[a] \/ a \in failed
    /\ listed => \A a \in Earlier :
         Serves[a] # {} => onNAS[a] # {} \/ a \in failed
    /\ report = "safe" => \A a \in Card : onNAS[a] # {}

\* Every slot and semaphore that is taken belongs to a copy that is under way,
\* on every path out of Archive and Spool; otherwise a worker that runs for
\* weeks loses its NAS bandwidth slot by slot.
SlotsAccounted ==
  /\ slots = Cardinality({r \in Archivers : arch[r].slot})
  /\ writers = Cardinality({r \in Archivers : arch[r].pc = "copy"})
  /\ (spooling > 0) = (main.pc = "spooling")

\* Import returns, also when it is cancelled while the spooler is blocked on the
\* channel and every archiver waits for the spooler to pause.
ImportReturns == <>(main.pc = "done")

\* Without the provisos: every asset the catalog knows is on a NAS or among the
\* failures.  import.go:134-144 drops the error of NeedsArchive, and steps.go:285
\* passes over a NAS that does not serve the kind, with no failure for either.
NobodyLeftBehind ==
  main.pc = "done" /\ ~cancelled =>
    \A a \in Assets : onNAS[a] # {} \/ a \in failed

\* ingest/env.go:90: while spool copies are running, at most WhileSpooling
\* archive copies proceed.
CapWhileSpooling ==
  spooling > 0 =>
    Cardinality({r \in Archivers : arch[r].pc = "copy"}) <= WhileSpooling
=============================================================================
