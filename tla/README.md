# mediamanager: models, model checks and proofs

mediamanager (`mm`) takes video, audio and stills from camera cards, copies them to
fast local *spools* and on to a *NAS*, frees the spools again, and keeps a tree of
symlinks that always points an editor at the best copy. Losing a clip is the one
thing it must not do. The modules here model the steps that move, delete and believe
in copies; TLC checks them on small instances, and TLAPS proves the safety properties of each
of them for every number of assets, volumes and processes.

References such as R3 are to the rules of `docs/design-brief.md`.

## Inventory

| part (source) | state | operations | hard because | correct when |
|---|---|---|---|---|
| tier transitions (`ingest/steps.go`) | files on cards, spools, NAS; `copies` rows; links; per-asset locks | `Spool`, `Archive`, `copyTo`, `Flush`, `Reconcile`, `reconcileAsset`, companions | goroutines, Temporal activities and other processes interleave; every step works from rows read earlier; crash or cancellation at every call | no asset is ever without a whole copy (R1, R4), the NAS only grows (R3), rows and links do not claim what is not there (R8) |
| verify (`ingest/verify.go`) | rows, hashes | check every copy, record the findings, `--full` records hashes, `--allow-updates` adopts an edit | hours between reading and recording, no lock, several files and rows changed one by one | rows say what is on disk, an adopted edit is not lost again |
| copying (`copyfile/`) | `dst`, `dst.partial` | `Copy`: resume, stream, sync, verify, rename | power loss, cancellation, edited sources, another process on the same partial | a final name means a whole file (R2), as far as a resume can know, which is then never replaced (R3) |
| import driver (`ingest/import.go`, `env.go`) | work queue, archivers, NAS semaphore, import-time slots | `Import`, `archiveSlot`, `ArchiveAll`, `SpoolAll` | an unbuffered channel, two semaphores, a counter and cancellation | it returns, leaks nothing, forgets no asset, reports safe-to-format truly |
| companions (`ingest/steps.go`) | sidecars and proxies, their rows and links, real files in the link tree | `syncCompanions`, `dropSpoolCompanions`, `sweepCompanions` | the only files that change after import, written by editors through links while steps copy, sweep and remove them | the last edit is never lost, and is what the editor sees |
| sources (`ingest/source.go`, `scan/`) | assets, names, source-file cache | `ScanSource`, `register`, `place` | crash between rows, the same content on two cards, cards refilled under the same names, name collisions | a finished scan is true of the card, names never move, a card that stays in is registered |
| catalog (`catalog/`) | SQLite tables | statements, each atomic | used from several processes | uniqueness of names and rows |
| link tree (`linktree/`) | symlinks | `Audit`, `Reconcile`, `Set`, `Choose` | concurrent swaps | only links and directories (R5) |
| adopt (`ingest/adopt.go`) | NAS files and rows | rename into the naming scheme, catalogue | crash between rename and row, imports taking the same names meanwhile | nothing lost or overwritten, rows true, a rerun heals |
| Temporal (`temporal/`) | workflow state | `ImportSource`, `ArchiveAsset`, `ArchiveBacklog`, `SpoolAssets`, `FlushSpool` | attempts that time out and go on, retries, restarts, cancellation, joins by workflow ID, slots held while waiting | nothing forgotten, nothing copied twice, started archives finish, everything ends |
| naming (`naming/`) | none | `FileName`, `Path`, `WithSuffix`, `Parse` | a name that already carries an identity | one path per asset |
| identity, volume, config, CLI | none that outlives a call | pure functions, parsing, output | | |

How they meet: the import driver, the Temporal activities and the CLI all call the
steps of `ingest`; the steps share the catalog (one SQLite file), the disks, and, inside
one process, `lockAsset`, `e.mu`, the NAS semaphore and the count of running spool
copies. Every byte is moved by `copyfile.Copy`. `Flush` and `Verify` take no asset lock.

## Modules

* **Tiers** – the tier transitions, `Flush`, `Verify`, pinning, unplugging, formatting.
* **Custody** – the abstract promise Tiers implements: places hold an asset; a place that
  is not a NAS lets go only of what a NAS holds.
* **TiersProofs** – the theorems about both; likewise **CopyFileProofs**,
  **ImportProofs**, **SourcesProofs**, **AdoptProofs**, **WorkflowsProofs**,
  **CompanionsProofs** and **HashesProofs** for the modules below.
* **CopyFile** – `copyfile.Copy` down to its extents, inodes and syncs. What Tiers treats
  as `CopyOpen` followed by `Install` is one run of this module.
* **Import** – the goroutines of `Env.Import` over opaque copies.
* **Companions** – sidecars and proxies of one asset over the same locations: scan, sync,
  flush, sweep, relink, and the editor.
* **Naming** – the permanent names, used by **Sources** – registering cards – and by
  **Adopt** – taking over an existing library, next to a scan and an archive.
* **Hashes** – one asset's recorded content: `verify --full` and `--allow-updates`, and
  what copies and flushes make of it.
* **Workflows** – the Temporal workflows, with the steps of Tiers and the slots of Import
  reduced to what the workflows can tell apart.
* **MCTiers**, **MCCopyFile**, **MCImport**, **MCCompanions**, **MCSources**, **MCAdopt**,
  **MCHashes**, **MCWorkflows** – the instances TLC checks; **MCAdoptApart** – that of
  `Adopt.cfg`, with the hypothesis of AdoptProofs as an assumption that TLC evaluates.

Where the modules meet: `Tiers!Record` is followed in the code by `syncCompanions`, which
is Companions; the rows Tiers starts from are what Sources leaves; the copies and admissions
in Workflows are runs of Tiers and Import; the hashes `verifyPair` compares are in Hashes.

### Tiers

One asset is one original. `row[a][l]` is its `copies` row (`none` when there is none),
`disk[a][l]` the file under its final name. A file is the *original* or a *changed*
version: the distinction sizes and identities can make. Video and audio carry a sparse
identity and are checked against it; stills (`Stills`) are not, because `copyTo` passes
no `ExpectID` for them and `verifyPair` only compares the two files, so the properties
claim "the original" for the former and "some version" for the latter.

A step of a process is what it does between two points where someone else can see or
change something it depends on:

| code | actions |
|---|---|
| `Spool`, `Archive`, `copyTo` | `SpoolBegin`/`ArchiveBegin` (lock, snapshot of the rows), `PutPartial`, `CopyOpen`, `Install` (rename), `Record`, `LinkRead`, `LinkSet`; `CopyFails`, `InstallFails`, `MoverStops` |
| `Flush` | `FlushBegin` (worklist), `FlushPick`/`FlushRefuse` (`pickFlushPair`, `verifyPair`), `FlushRemove`, `FlushDelete`, `FlushEnd`, then `Reconcile`: `FlushRelinkRead`, `FlushRelinkWrite`; `FlushStops` |
| `Verify` | `VerifyBegin` (rows), `VerifyCheck` (`checkCopy`), `VerifyApply` (`SetCopyState`), `VerifyRelinkRead`, `VerifyRelinkWrite`; `VerifyStops` |
| `Import`'s last lines | `ReportSafe`; the user's `Format` |
| `SetPinned`; volumes; editors and bad media | `SetPinned`; `Plug`; `Damage` |

The initial state is the one after `ScanSource` and the first `Reconcile`: every asset
has a complete row and its file on the card it came from, and its link points there.

Abstractions, all deliberate:

* Which volumes are mounted is read when needed, not from the `places` snapshot; a step
  that would use a volume that has gone fails at the copy, as it does in the code.
* NAS volumes are visited in any order (the code: configuration order).
* `Damage` does not strike between `verifyPair` and `os.Remove` of the same asset. No
  program could close that window; all other moments are allowed.
* `verifyPair` also refuses when both rows record different full hashes, which only
  refuses more; Hashes has them.
* Catalog errors other than "no such row" are the same as `...Stops`.
* Companions (sidecars, proxies) are separate files with rules of their own: see
  Companions.

### CopyFile

Contents are sequences of extents of `identity.Chunk` bytes: `orig`, `edit` (changed by
an editor) or `lost` (what a power loss may leave). The sparse identity is the length
with the first and last extent, or everything up to two extents. Inodes are separate
from names, since a process keeps writing to the inode it opened. `durable` is what was
synced; `LosePower` leaves of every unsynced extent the old, the new or a blank one, at
either length, and may undo a rename whose directory was not synced. `syncDir` may fail
silently, as the code allows. R2 is kept with one exception: a resume compares only the last
extent of a partial, and `Verify` the ends, so that a blank extent a power loss left between
them stays in a file with its final name. `torn` is the history of the inodes that have one;
`FinalIsWhole` speaks of every extent of all others, and of length and ends of these
(`CopyFilePowerLoss.cfg`). `HashResumedPrefix` is never set by a caller and is left
out; `os.Chtimes` and `Close` are part of `Verify`.

### Import

The spooler takes the card's assets in any order; each is sent to an archiver when it is
already archived, already spooled, spooled now, or finds no spool with room. The
unbuffered send and the receive are one action. `archiveSlot`'s polling loop is a wait
for "nothing being spooled or a slot free", with the two ways in kept apart because only
one of them takes a slot. `Cancel` may happen at any time. Earlier runs may have left any
set of copies: every combination is an initial state. The catalog may fail to look an asset
up before it is spooled (`LookupFails`) or archived (`SendFails`), which are failures the
summary lists, or to list the leftovers in `LoopEnds`, which the code drops; `listed` is
whether it did list them. `Serves[a]` are the NASes that serve the asset's kind: with none,
`Archive` makes no copy and reports no failure, although the card is then not called safe.

### Companions

One asset, several companions, each a sidecar (never regenerable) or a proxy. A file is
its version number; `newest[c]` is the version written last, `link[c]` where the link
leads, `tree[c]` a real file an editor left in its place.

| code | actions |
|---|---|
| `ScanSource`, second loop | `Scan` |
| `copyTo`, `Archive` of what is there | `CopyOriginal`, `Resync`; then `syncCompanions`: `SyncFile`, `SyncRow`, `SyncFails`, `SyncEnd`, and `Relink` |
| `Flush` and `dropSpoolCompanions` | `Flush` (the original's row), `FlushSecure`, `FlushRow`, `FlushRemove`, `FlushForget`, `FlushKeep`, `FlushEnd` |
| `Reconcile`, `sweepCompanions` | `ReconcileBegin`, `Sweep`, `SweepRemove`, `SweepRow`, `SweepEnd`, `Relink` |
| editors, generators, the card, kills | `EditThroughLink`, `SaveInTree`, `Eject`, `Insert`, `Crash` |

`syncCompanions` plans from the rows once and reads the files later, as the code does.
`Locked` is `lockAsset`, held by spool and archive to their end; `Reconciling` is `e.mu`. The
run has one command at a time, where the two exclude nothing; `CompanionsTwo.cfg` has two.
Abstractions: the original's copies are a set; replacing a sidecar (a temporary file and
a rename) is one step; no edit happens while a command is taking the sidecar away from
under the editor (`Quiet`), a window no program could close; edits begin once the card is
out (`CardOut`), because with the card in the code itself loses them (below).

### Naming and Sources

A name is the sequence of its parts, so that a suffix, an identity or the earlier
importer's stamp can be seen in it. A card is a function from paths to contents; the
identity of a file is its content. The cache key is path, size and mtime; two contents
with one `Stamp` would be confused by the code, so the instance gives each its own.

| code | actions |
|---|---|
| `ScanSource` | `Begin`, `End` |
| `register` | `Lookup` (cache hit or miss), `Identify`, `CopyRow`, `CacheRow` |
| `place`, `PutAsset` | `PlaceNew`, `PlaceTaken` (next suffix), `PlaceRaced` (another scan made the row first) |
| cameras and users | `Shoot`, `Insert`, `Eject`, which also kills a scan wherever it is |

Files of unknown or unrouted kinds, which a scan only reports, are left out.

### Adopt

`fs` and `comp` are the originals and companions on one NAS, `relpath`, `copy` and
`compRow` the rows. A run is one of `InPlace` and `Migrate`.

| code | actions |
|---|---|
| `Adopt`, `walk` | `Begin`, `CompanionsBegin`, `End` |
| `original` | `Duplicate`, `Known`, `InPlace`, `Migrate` (with `captureTime`, `splitLegacy`, `migratePath`), `AssetRow`, `CopyRow` |
| `rename` | `Rename` (the look), `Move` (the rename) |
| `companion` | `Orphan`, `CompanionHere` (nothing to rename), `CompanionLook` (rename's look), `CompanionMove`, `CompanionRow` |
| kills; `place` of a scan beside it | `Crash`; `Register` |
| `copyTo` of an archive beside it | `ArchiveBegin` (the lookup, the partial row and the look at the name), `ArchiveLands`, `ArchiveRow` |
| `syncCompanions`, after a copy or when there is nothing to copy (`steps.go:288-291`) | `ProxyLook`, `ProxyLands`, `ProxyRow` |

`crossed` is a history variable: the contents whose companion Adopt was moving while an archive
was copying one to the same name, each past its look. An archive that fails or is killed is
one that takes no further step.

Left out: the dry run, the report of empty directories, and `pruneVacated`, which removes
directories only when they are empty.

### Hashes

A version stands for its hash; `Size` and `Sparse` say what a stat and the sparse
identity can see of it. `asset` is the assets row's size and full hash, `row` the copies
rows with theirs.

| code | actions |
|---|---|
| `copyTo` | `CopyBegin`, `Copy` or `AlreadyComplete`, `Record` (`PutCopy` and `SetFullSHA256`, one step); `CopyFails` |
| `Flush` of one asset | `Flush` (`pickFlushPair`, `verifyPair` and the delete in one step, with the size the asset has now where the code has that of its worklist, `steps.go:555`) |
| `Verify` | `VerifyBegin`, `CheckCopy`, `ReadEnd` (hashes that agree are recorded, or a conflict), `Apply`, `VerifyEnd` |
| `adoptEdit`, `replaceFile` | `AdoptContent`, `AdoptRow`, `Replace`, `ReplaceRow`, `ReplaceFails` |
| world | `Change`, `Unplug`, `Plug`, `Crash` |

`found`, `retaken`, `adopted` and `overlap` are history variables: the files that the last
verify of them found bad, those of them that `Archive` has recorded complete again since, the
edit that was adopted, and whether a copy or a flush overlapped that. An unplugged mount point is taken
to be unwritable. The window inside `Flush` is the subject of Tiers.

### Workflows

`par` are the workflows that start others (imports and the backlog), `kid` the archives,
the batches and the spool-back, `att` the attempts at activities: `live` ones the service
knows, and forgotten ones that time out but go on running in the worker.

| code | actions |
|---|---|
| `ImportSource`, `ArchiveBacklog` | `Start`, `SpoolLarge`, `SpoolSmall`, `HandOn` (after the spool activity), `ReadPage` (leftovers), `Complete`; `Cancel` |
| a quick activity that fails for good | `StartFails` (scan, relink: the workflow fails), `LookupFails` (`IsArchived`: a failure), `PageFails` (`NeedsArchive`, `Refs`: the backlog fails, an import drops it), `Complete` (`AllArchivedOn`: not safe) |
| `startArchive`, `startArchiveBatch`, `alreadyRunning` | `Handoff`, `Owned` |
| `SpoolAssets` | `StartRecall` |
| worker: slots, `lockAsset`, `archiveSlot`, the copy | `Begin`, `LookUp`, `Admit`, `CopyEnds`, `SpoolEnds` |
| results, errors, `classify`, retry policy, heartbeats | `Returns`, `ItemFails`, `Conflicts`, `Fails`, `TimesOut`, `Interrupted`, `Retry`, `Restart` |

Abstractions: one worker, as documented; the quick activities do not time out; a batch is the
small assets of one page or card, whatever their number; each parent runs once; `Pin` and the
flush workflow, one activity each, are left to Tiers; every NAS is mounted, and `Unserved` are
the assets whose kind none of them serves. `listed` is whether a parent read all its pages.

## What the runs check

| run | instance | shows |
|---|---|---|
| `tiers` | a video and a still, one spool, one NAS, 2 movers, a flush, the card pulled and put back, one file on spool or NAS goes bad | `NASAppendOnly` (R3), `FlushKeepsACopy` (R1, R4), `NASLinksResolve` |
| `tiers_verify` | a video; mover, flush and verify all interruptible; NAS unplugged at times; a spool file goes bad | `NASCompleteOnDisk` (R8 for the NAS), `SafeMeansArchived` |
| `tiers_custody` | a still, two spools, two NAS of which one is removable; fair | `LockIsFreed`, `ImplementsCustody` |
| `copyfile` | 3 extents, 2 inodes, one copier cut short anywhere, 2 edits, 2 power losses | `FinalIsWhole` (R2, with the exception above), `FinalIsKept` (R3), `HashIsOfFile` |
| `import` | 2 assets on the card, 1 from before, 2 NAS that serve different kinds, 2 archivers, 1 slot; lookups and the listing of leftovers may fail | `ImportReturns`, `SlotsAccounted`, `NoneForgotten` |
| `companions` | a sidecar and a proxy, one NAS, one command at a time, versions up to 3, two faults | `EditsAreKept`, `EditorSeesNewest`, `ArchiveKeepsNASCurrent`, `FlushSecuresSidecar` |
| `sources` | two cards scanned concurrently, two stills of one name and a clip that may be on both, one more camera session, cards pulled at any time; fair | `ScanIsTrue`, `CacheVouches`, `PathsAreForever`, `CardIsRegistered` |
| `adopt` | four files (a clip twice, once with the earlier importer's name; two stills of one name), three companions, two of the contents scanned and archived step by step beside it, one with a proxy, two kills; fair | `RowsAreTrue`, `DoneIsCatalogued`, `CompanionsFollow`, `ContentsAreKept`, `LibraryIsAdopted` |
| `workflows` | an import of a clip and a photo, the backlog with an asset whose place is taken and one no NAS serves, a spool-back, one NAS slot, one fault (of a quick activity too), cancellation | `NothingForgotten`, `CopiedOnce` |
| `workflows_live` | an import and the backlog that meet at one clip, an older photo, a spool-back, one NAS slot, one fault; fair | `ArchivesSurvive`, `ImportsEnd` |
| `hashes` | a clip or a still, a spool and a removable NAS; edits or damage that change the size and such as neither size nor ends show; two changes or a change and a fault | `EditsAreKept`, `FlushHeedsVerify` |

Each passing run also checks the type invariant of its module where stated in the `.cfg`.

One run is expected to find a violation:

| run | property | what happens |
|---|---|---|
| `hashes_crash` | `AdoptedIsKept` | `verify --allow-updates` records an edit as the asset's content and dies before the other copy is replaced; the next one finds the edited copy intact and the old one "changed", and overwrites the edit |

### Configurations to run by hand

These show further places where the code does not do what its documents say. Each is one
counterexample of a few states; `tlc -config <file> <MC module>` prints it.

| configuration | property | what happens |
|---|---|---|
| `TiersPin.cfg` | `PinnedIsNotPicked` | the flush worklist is read once; an asset pinned later is removed all the same (`temporal/workflows.go:652`: pins "so a flush cannot undo the work") |
| `TiersStaleVerify.cfg` | `CompleteIsRenamed` | verify checks a spool copy, flush removes it, spool starts to bring it back (row `partial`), verify records `complete`: a complete row without a file (R8) |
| `TiersFlushCrash.cfg` | `RerunHeals` | a flush cut off between `os.Remove` and `DeleteCopy` leaves a complete row that neither another flush (refuses: unreadable) nor a spool (skips: complete) repairs; `mm verify` does |
| `CopyFileRetry.cfg` | `RetryRestarts` | after `ErrVerify` the partial is kept when its last chunk matches, so every retry resumes at its end and fails again (`copyfile/copyfile.go:34`: "a retry restarts it") |
| `CopyFileTwo.cfg` | `FinalIsWhole` | two `mm` processes share no lock: one truncates the partial that the other has just renamed (R2) |
| `CopyFilePowerLoss.cfg` | `FinalIsComplete` | a power loss blanks an extent in the middle of a partial; the copy is resumed, verified by its ends and gets its final name (`copyfile/copyfile.go:6`: "complete by construction") |
| `ImportLeftovers.cfg` | `NobodyLeftBehind` | the catalog fails to list the leftovers, the error is dropped (`import.go:134-144`), and the import returns without a failure (an asset whose kind no NAS serves, `steps.go:285`, is passed over in silence too) |
| `WorkflowsLeftovers.cfg` | `EarlierHandedOff` | the same in the workflow: the import completes though `NeedsArchive` failed (`temporal/workflows.go:160`: "Anything already needing archive from earlier runs is handed off too") |
| `ImportCap.cfg` | `CapWhileSpooling` | a copy admitted while nothing is spooled takes no slot and runs on beside the next spool copy (`ingest/env.go:90`) |
| `CompanionsCardBack.cfg` | `EditsAreKept` | the card is back while the NAS sidecar is edited and no spool has one: archiving again takes the card's old sidecar as the source and overwrites the edit (`steps.go:435`) |
| `CompanionsTwo.cfg` | `EditsAreKept` | `mm spool` picks the NAS sidecar as its source; a `Reconcile` beside it sweeps a newer one from the link tree onto the spool; the fetch then writes the old one over it, and the sweep removes the tree file (`steps.go:40`: safe "from concurrent steps"; the asset lock and `e.mu` exclude neither) |
| `SourcesReuse.cfg` | `LinkShowsTheAsset` | a card is formatted and refilled under the same names: until another copy exists, the old asset's link shows the new file (`linktree/linktree.go:3`) |
| `CompanionsTwoNAS.cfg` | `EditsAreKept` | an editor writes through the link to the better of two NAS sidecars, and no spool has one: archiving to that NAS again takes the other NAS's old sidecar as its source, because the destination is never one, and overwrites the edit (`steps.go:435`) |
| `AdoptCompanionRace.cfg` | `CompanionsAreKept` | `rename` looks for the new name of a companion and then renames; the proxy of the same clip, archived from a card in between, is overwritten (`adopt.go:406`: "refusing to overwrite") |
| `AdoptMixed.cfg` | `CompanionsFollow` | a companion recorded in place is not moved by a later `migrate` whose original was known already or whose run died between the two (`adopt.go:376`); with mixed modes a companion's row also misses its file between the rename and the new row |
| `AdoptSameName.cfg` | `RowsAreTrue` | `rename` looks for the new name and then renames; an archive of a card's still of that very name lands in between and is overwritten, so that its complete row leads to the other still (`adopt.go:406`: "refusing to overwrite") |
| `WorkflowsPaging.cfg` | `NothingForgotten` | with pages so small that there are several, an archive that ends between two pages makes the next one skip an asset; `idPage` is 1000, so it takes a backlog of more than that |
| `HashesHidden.cfg` | `BadIsNeverSafe` | damage that size and ends do not show: `verify --full` marks the NAS copy, `mm archive` finds it "already complete" and records it complete with the asset's hash, flush then deletes the last good copy (`verify.go:109`: a mismatch "never counts as a safe copy for flush") |

`HashesTwoNAS.cfg` is a larger instance of `hashes` (two NAS, one edit) and passes in about
a minute.

### Why the bounds are enough

Tiers: what interleaves is one asset's steps, so one asset per kind, two movers (the lock
is pairwise) and one flusher and verifier each meet every pair of steps; the second asset
is there for worklists with more than one entry and for a card whose assets are archived
at different times; the second NAS for an archive that goes on after a copy and for a
flush that finds its first NAS unplugged; `MaxDamage = 1` because properties speak of one
file at a time. The theorems below have no bounds. CopyFile: three extents are the
smallest file with a middle the identity cannot see; two inodes are a final file and a
partial; two edits and two losses give a spoiled partial that is resumed, spoiled and
resumed again. Import: with two archivers, two NAS writers and one slot, an archiver can
hold a writer while another waits for the slot; assets differ only in what they have been
through. Movers and inodes are symmetric (safety runs only).

Companions: one sidecar and one proxy are the two rules there are; three versions are the
card's, an edit, and an edit of what a command has already copied; two faults are a kill
and a failure in the repetition. Sources: two cards with three contents give every collision
of `place` (a name taken, a row raced), and one session refills a card. Adopt: each of the
four files takes another way through `original`; two kills are a run and its rerun; the
card's names meet the library's only where the content is the same, because otherwise
the code itself overwrites (`AdoptSameName.cfg`).
Workflows: one slot is the hardest case for `ImportsEnd`, since everything waits for it;
three tries with one fault let an attempt be lost and repeated without exhausting them, and
the same run's conflicts exhaust them at once. Hashes: of the two versions that may replace the
original one differs in size and one where neither size nor ends show it, the two cases that
`verifyPair` and `verify --full` tell apart; the constraint `TwoEvents` allows two changes of a
file, which are the edit that is adopted and one that changes it again, or a change and a fault.

### Fairness

`Tiers!FairSpec` makes a begun step go on (goroutines are scheduled; file calls return)
and never obliges anyone to begin one. `RerunSpec` adds the user who repeats `mm flush` and
`mm spool`, which is what "idempotent and resumable" speaks about. `CopyFile!FairSpec` is
a copy that runs to its result and is retried, as Temporal activities are.
`Import!FairSpec` is weak fairness of each goroutine; a copy may fail or succeed, not
hang, which a dead mount could make it do.
`Sources!FairSpec`: a scan goes on, and is begun again when it died, as Temporal and the
user do; nobody is obliged to leave a card in, so `CardIsRegistered` speaks of cards that
stay. `Adopt!FairSpec`: a run goes on, and is repeated until one gets to its end; and an archive that
brought its file records it (`ArchiveRow`), if need be by being repeated, as Temporal and the
user do: a file without its row would make every run of Adopt refuse to rename to its name.
`Workflows!FairSpec` is weak fairness of any progress at all, not of each activity: queues
and workers may serve tasks in any order, but not stop while there is something to do.

## What is proved

Each theorem holds for every choice of the constants that satisfies its module's
assumption: any number of assets, locations, processes, versions and faults, where the runs
have two or three. Where a theorem needs more than that, the hypothesis is named in it
(`ASSUME ... PROVE`). In each module the argument is an inductive invariant that ties the
program counter of every process to what it has read and what is still true of it; TLC
checked each as an invariant of an instance before it was proved.

**Tiers and Custody** (TiersProofs)

* `TypeCorrect` – types and the shape of process records.
* `SafetyInvariant` – the inductive invariant. `NASCompleteOnDisk`, `NASLinksResolve` and
  `SafeMeansArchived` are not inductive alone: a mover about to record, a flusher about to
  remove, a verifier about to apply each acts on something it read before. The invariant
  adds, per process, what it has read and is still true: a mover in `install` holds data
  that is the original where the kind is checked, and the lock that keeps the destination
  free if it is on a NAS; a mover in `record` with a NAS destination has its file there; a
  flusher in `remove` has a NAS copy with the verified content; a verifier about to say
  "complete" of a NAS copy has seen it, and it has not gone. They hold because nothing
  takes a file off a NAS (`NASKept`, proved from the lock invariant), which in turn needs
  the mover's part: the argument is one simultaneous induction, laid out as one lemma per
  kind of process for its own steps (`MoverOwn`, `FlusherOwn`, `VerifierOwn`) and one for
  the steps of others (`MoverFrame`, ...).
* `NASRowsAreTrue`, `NASLinksAreGood`, `SafeToFormat`, `NASNeverLoses`, `FlushIsSafe` –
  the properties of the runs, from that invariant.
* `TiersImplementsCustody` – with `Fragile \subseteq Spools` (only spool files change
  behind the tool's back) Tiers implements Custody under the mapping "the places where
  the asset is whole".
* `NeverLost` – under the same assumption an asset is always whole on its card or a NAS.

**CopyFile** (CopyFileProofs). `TypeCorrect` for any number of copiers. With `OneCopier`,
which is what `lockAsset` gives one worker: `SafetyInvariant`, and from it
`WholeUnderItsName` (R2 with its exception), `KeptUnderItsName` (R3) and `HashIsTrue`. The
invariant says that the inode under the final name has a source's identity and is synced, that
it is not the one the copier writes, and of the copier at each point how far its inode agrees
with the source it read. For `WholeUnderItsName` a second one, `Sound`, says of every inode
that each extent is one the source had at that place, or blank in an inode that a power loss
tore. `CopyFileTwo.cfg` shows that the hypothesis is needed, `CopyFilePowerLoss.cfg` the
exception.

**Import** (ImportProofs). `InvariantHolds`, `TypeCorrect`, `SlotsAreAccounted`: the counters
equal the numbers of archivers at the points that hold a slot or a writer (`Counted`).
`NobodyForgotten` adds that every asset is on each NAS that serves it, among the failures, in
the list of an archiver or still with the spooler (`Covered`), and of the leftovers the same if
the catalog listed them.

**Sources** (SourcesProofs). `InvariantHolds`, `TypeCorrect`, `CacheEntriesVouch` and
`PathsStay` hold for any stamps, cards and kills. `ReportsAreTrue` needs `StampsTell` (path,
size and mtime tell the files of a card apart), on which the cache itself relies.

**Adopt** (AdoptProofs). `TypeCorrect` holds whatever the names are like (its invariant is
`Typed`). The others assume `NamesApart`, three conditions on the constants:

* `CardsApart` – no card has a file of another content with the camera's name of a library's
  file and a day that this file is, or gets, filed under. Without it `rename`, which looks
  and then renames, overwrites an archive (`AdoptSameName.cfg`).
* `KindsApart` – files with one camera's name are all stills or all clips (it has their
  extension), and no camera writes the earlier importer's stamp.
* `BesideApart` – where an original of another content may be renamed to the path of one
  with a companion, the latter stays there: it has the name a migration would give it, and no
  card has it.

The instance of `Adopt.cfg` satisfies them; MCAdoptApart has TLC confirm that in the run.
`InvariantHolds` is the inductive invariant. `RowsAreTrue` alone is not one: what keeps a
rename from a file a row names, or an archive from one that a rename has just brought, lies
several steps and another process back. `Inv` says for every path, not only those with a
row, which content may be there: a file is under a name of the library's with its
content, under one that such a file is renamed to, or at its asset's permanent path
(`Files`); a permanent path is one of those or one that a card gives (`Paths`). With
`NamesApart` a card's names are none that another content of the library can get, so that no
import comes between the look at a name and the rename; two files of the library are kept
apart by the look itself, since only this run moves them. Whatever is found where a content
was promised to be is then that content. `Left` says that a library's file which is no
longer where it was is not wanted there again, `Besides` the same of companions, and
`AtFile`, `AtRename`, `AtRows` what the run still knows between the choice of a name, the
look, the rename and the two rows, while imports register and archive beside it. From it:

* `CopiesLeadToTheirBytes`, `NothingIsReplaced` (an action property), `EndIsCatalogued`. The
  last is shown in a stronger form: with names apart, a name that another asset owns
  is never met in place. A companion may be replaced by one of the same content, when Adopt
  and an archive were both past their look at its name (`crossed`); that this is the only way
  is part of the invariant.
* `RowsLeadToTheirBytes` and `CompanionsGoAlong` – where the runs are besides all of one mode
  (`~ Mixed`; `AdoptMixed.cfg` refutes the latter otherwise). `FollowHolds`: `FollowInv` adds that in
  place nothing ever moves, and that in a migration copy rows and companion rows name permanent
  paths and that a companion the run is through with is at one, or had no original.

**Workflows** (WorkflowsProofs). `InvariantHolds` says which lock and slot each attempt
holds, forgotten ones included, and that the attempts agree with what the service knows;
`TypeCorrect` and `NoSecondCopy` follow. `EverythingAccounted` adds that every asset a parent
has met is on the NAS, reported, of a kind no NAS serves, or with a child it waits for or
joined, and the leftovers too once they are listed. It needs `NoPaging`
(all assets fit in one page, `idPage` = 1000): `WorkflowsPaging.cfg` refutes it otherwise.

**Companions** (CompanionsProofs). `TypeCorrect` holds beside any number of commands. With
`OneCommand` at a time and any number of NASes: `ArchiveIsCurrent`, `FlushIsSafe` – what an
archive has still to copy is on the spool, and the sidecar a flush is about to remove is on the
NAS with its row.

**Hashes** (HashesProofs). `TypeCorrect` and `BadIsNeverTrusted` need nothing. For the latter
`Untaken` says that a file found bad whose row is complete has been recorded again by an archive
since, and that a verify records no such file for an edit; the rest is what `verifyPair`
compares. `AdoptedEditIsKept` assumes `IdentityTells`
(versions differ in size or at their ends) and, in the property itself, that nothing died
or overlapped the adopting verify: every copy that counts then has the edit or is about to
get it, one on a NAS does have it, and so no later verify finds anything to adopt.
`HashesHidden.cfg` shows what the exception in `FlushHeedsVerify` lets through, and
`HashesCrash.cfg` refutes the promise about edits where a verify dies.

Two things the proofs rest on besides: the choices of best locations (`BestIn`, `First`) and
of a suffix (`MigratePath`) take a least element, whose existence is proved from the well-foundedness of strict inclusion
on finite sets (`LeastOf`), without induction over an operator; and the assumptions of
Sources, Adopt, Workflows, Companions and Hashes are stated without cardinalities of
unbounded sets, as the orders and the workflow IDs of the code justify them
(`temporal/workflows.go:27-36`).

Only model-checked: the liveness properties (`LockIsFreed`, `ImportReturns`,
`CardIsRegistered`, `LibraryIsAdopted`, `ArchivesSurvive`, `ImportsEnd`), which need fairness
and `ENABLED`; and `EditsAreKept` and `EditorSeesNewest` of Companions, which hold of the
instance of `Companions.cfg` – one command at a time, one NAS, the card out before editing
begins – and not in general (`CompanionsTwo.cfg`, `CompanionsTwoNAS.cfg`,
`CompanionsCardBack.cfg`): the code guarantees none of the three, so no theorem is stated under
them. `AdoptedIsKept` is refuted. Every other property of the runs is a theorem.

There are no recursive definitions over data.

## Not modelled, and the plan

What is left is a composition in which Tiers' copy is a run of CopyFile, for the rename whose
directory was never synced: in Tiers a file that was installed stays, and CopyFile shows that
a power loss may undo that until the directory is synced.

Parts of the source that the models do not have: the dry runs and plans, `emptyDirs` and
`pruneVacated` of Adopt, the sequential loops of `ArchiveAll` and `SpoolAll` over the same
steps, the audit of foreign files and the temporary name of a link swap, the locations
upsert and the imports table of the catalog.

Left out for good: hashing (the identity is taken as collision free), header parsing
(EXIF, MP4), volume lookup (`findmnt`, `diskutil` output), configuration parsing,
CLI output, progress, free-space probing, and the worker's connection to Temporal: none of
them keeps state that a step depends on later.

## Running

    tlc -workers 2 -config Tiers.cfg MCTiers
    tlc -workers 2 -config Companions.cfg MCCompanions
    tlc -workers 2 -config Sources.cfg MCSources
    tlc -workers 2 -config Adopt.cfg MCAdoptApart
    tlc -workers 2 -config Workflows.cfg MCWorkflows
    tlc -workers 2 -config Hashes.cfg MCHashes
    for m in Tiers CopyFile Import Sources Adopt Workflows Companions Hashes
    do tlapm ${m}Proofs.tla; done
