-------------------------------- MODULE Adopt --------------------------------
(***************************************************************************)
(* Env.Adopt: bringing the files of an existing library on a NAS under     *)
(* management, under the names they have or (Migrate) renamed into the     *)
(* tool's layout.  Meanwhile cards are scanned into the same catalog and   *)
(* archived to the same NAS, and a run may die between any two steps.      *)
(* A file is the content it holds, which is its identity.                  *)
(***************************************************************************)
EXTENDS Naming, FiniteSets

CONSTANTS
  Contents, Stills,
  Library,       \* the files to adopt: path -> content
  Beside,        \* the paths of Library with a companion beside them
  Dirs, Depth,   \* directories; Depth[d]: how deep they are
  DirDay,        \* DirDay[d]: the YYYY/MM/DD that d starts with, or None
  CaptureDay,    \* CaptureDay[c]: from the file itself
  Parts,         \* what names are made of
  Legacy,        \* the part of a name the earlier importer added; it has a date
  LegacyDay,
  OnCard,        \* contents a card has; CardName[c]: under this name
  CardName,
  CardBeside,    \* those whose proxy is on the card too
  Suffixes,      \* bound: 100 in place
  MaxFaults,     \* bound: runs that die
  Mixed,         \* may later runs be given another mode than the first
  None

Path == [dir : Dirs, name : Seq(Parts) \ {<<>>}]
PathOrNone == Path \cup {None}

\* A date's directory is filed under that date; a number, an identity and the
\* stamp are told apart wherever they stand in a name.
ASSUME AdoptAssumption ==
  /\ Stills \subseteq Contents /\ OnCard \subseteq Contents
  /\ Beside \subseteq DOMAIN Library /\ CardBeside \subseteq OnCard
  /\ DOMAIN Library \subseteq Path /\ \A p \in DOMAIN Library : Library[p] \in Contents
  /\ DirDay \in [Dirs -> Dirs \cup {None}]
  /\ \A d \in Dirs : DirDay[d] # None => DirDay[DirDay[d]] = DirDay[d]
  /\ \A c \in Contents : CaptureDay[c] \in Dirs /\ DirDay[CaptureDay[c]] = CaptureDay[c]
  /\ LegacyDay \in Dirs /\ DirDay[LegacyDay] = LegacyDay
  /\ \A c \in OnCard : CardName[c] \in Seq(Parts) \ {<<>>}
  /\ Contents \cup 1..Suffixes \subseteq Parts
  /\ Legacy \notin Contents \cup Nat /\ \A c \in Contents : c \notin Nat
  /\ None \notin Contents /\ None \notin Dirs /\ None \notin Path
  /\ Suffixes \in Nat \ {0} /\ MaxFaults \in Nat /\ Mixed \in BOOLEAN

VARIABLES
  fs,        \* the originals on the NAS: path -> content
  comp,      \* the companions: path of the original they are beside -> its
             \* content, and where the companion was, None on a card
  relpath,   \* assets: the permanent path of each, None without a row
  copy,      \* copies: the path of the complete row of each asset on this NAS
  compRow,   \* companions: the path each companion is recorded beside
  ad,        \* the run of Adopt
  arch,      \* how far Archive is with each content of a card
  crossed,   \* history: the contents whose companion Adopt was moving and
             \* Archive was copying at one time, both past their look
  faults

vars == <<fs, comp, relpath, copy, compRow, ad, arch, crossed, faults>>

Companions == [of : Contents, was : PathOrNone]

Modes == {"in-place", "migrate"}

NoRun(mode) == [pc |-> "idle", mode |-> mode, todo |-> {}, ctodo |-> {},
                seen |-> {}, claimed |-> {}, planned |-> <<>>, from |-> None,
                to |-> None, id |-> None, rel |-> None]

Stopped(pc) == [NoRun(ad.mode) EXCEPT !.pc = pc]

TypeOK ==
  /\ DOMAIN fs \subseteq Path /\ \A p \in DOMAIN fs : fs[p] \in Contents
  /\ DOMAIN comp \subseteq Path /\ \A p \in DOMAIN comp : comp[p] \in Companions
  /\ relpath \in [Contents -> PathOrNone]
  /\ copy \in [Contents -> PathOrNone] /\ compRow \in [Contents -> PathOrNone]
  /\ ad.pc \in {"idle", "originals", "rename", "move", "asset", "copy",
                "companions", "cmove", "crow", "done", "owned", "failed"}
  /\ ad.mode \in Modes
  /\ ad.seen \subseteq Contents /\ ad.claimed \subseteq Path
  /\ ad.todo \cup ad.ctodo \cup DOMAIN ad.planned \subseteq Path
  /\ ad.from \in PathOrNone /\ ad.to \in PathOrNone /\ ad.rel \in PathOrNone
  /\ ad.id \in Contents \cup {None}
  /\ arch \in [Contents -> {"none", "copy", "row", "proxy", "proxyRow"}]
  /\ crossed \subseteq Contents /\ faults \in 0..MaxFaults

Init ==
  /\ fs = Library
  /\ comp = [p \in Beside |-> [of |-> Library[p], was |-> p]]
  /\ relpath = [c \in Contents |-> None]
  /\ copy = [c \in Contents |-> None]
  /\ compRow = [c \in Contents |-> None]
  /\ ad \in {NoRun(mode) : mode \in Modes}
  /\ arch = [c \in Contents |-> "none"]
  /\ crossed = {}
  /\ faults = 0

Put(f, p, c) == [q \in DOMAIN f \cup {p} |-> IF q = p THEN c ELSE f[q]]
Drop(f, p) == [q \in DOMAIN f \ {p} |-> f[q]]

-----------------------------------------------------------------------------
(* Names.                                                                  *)

OwnedByOther(path, c) == \E d \in Contents \ {c} : relpath[d] = path

\* splitLegacy and captureTime: the directory a person filed it in beats the
\* earlier importer's stamp, which beats the file.
IsLegacy(p) == Len(p.name) > 1 /\ Last(p.name) = Legacy
OrigName(p) == IF IsLegacy(p) THEN SubSeq(p.name, 1, Len(p.name) - 1) ELSE p.name
DayFiled(p, c) == DirDay[p.dir]
DayOf(p, c) ==
  IF DirDay[p.dir] # None THEN DirDay[p.dir]
  ELSE IF IsLegacy(p) THEN LegacyDay ELSE CaptureDay[c]

Layout(p, c) == DatePath(DayOf(p, c), OrigName(p), c, c \notin Stills)

\* The loop of migratePath as it would be without the look at the disk.
FreeInCatalog(dst, p, c) ==
  dst = p \/ (dst \notin ad.claimed /\ ~OwnedByOther(dst, c))

\* A name is free when it is the file's own, or nobody's.
Free(dst, p, c) ==
  dst = p
    \/ (dst \notin ad.claimed /\ ~OwnedByOther(dst, c) /\ dst \notin DOMAIN fs)

\* migratePath; None when every name is taken.
MigratePath(p, c) ==
  LET free == {n \in 0..(Suffixes - 1) : Free(WithSuffix(Layout(p, c), n), p, c)}
  IN IF relpath[c] # None THEN relpath[c]
     ELSE IF free = {} THEN None
     ELSE WithSuffix(Layout(p, c), CHOOSE n \in free : \A m \in free : n <= m)

-----------------------------------------------------------------------------
(* The originals.                                                          *)

Begin(mode) ==
  /\ ad.pc \in {"idle", "owned", "failed", "done"}
  /\ mode = ad.mode \/ Mixed
  /\ ad' = [NoRun(mode) EXCEPT !.pc = "originals",
                               !.todo = DOMAIN fs, !.ctodo = DOMAIN comp]
  /\ UNCHANGED <<fs, comp, relpath, copy, compRow, arch, crossed, faults>>

\* Shallower paths first.
IsNext(p) ==
  ad.pc = "originals" /\ p \in ad.todo
    /\ \A q \in ad.todo : Depth[p.dir] <= Depth[q.dir]

Plan(p, c) == [q \in DOMAIN ad.planned \cup {p} |->
                 IF q = p THEN c ELSE ad.planned[q]]

Duplicate(p) ==
  /\ IsNext(p) /\ p \in DOMAIN fs /\ fs[p] \in ad.seen
  /\ ad' = [ad EXCEPT !.todo = @ \ {p}]
  /\ UNCHANGED <<fs, comp, relpath, copy, compRow, arch, crossed, faults>>

\* Known when any copy might do.
KnownAnywhere(p) ==
  /\ IsNext(p) /\ p \in DOMAIN fs
  /\ LET c == fs[p]
     IN /\ c \notin ad.seen /\ (copy[c] # None \/ relpath[c] # None)
        /\ ad' = [ad EXCEPT !.todo = @ \ {p}, !.seen = @ \cup {c},
                            !.planned = Plan(p, c)]
  /\ UNCHANGED <<fs, comp, relpath, copy, compRow, arch, crossed, faults>>

Known(p) ==
  /\ IsNext(p) /\ p \in DOMAIN fs
  /\ LET c == fs[p]
     IN /\ c \notin ad.seen /\ copy[c] # None
        /\ ad' = [ad EXCEPT !.todo = @ \ {p}, !.seen = @ \cup {c},
                            !.planned = Plan(p, c)]
  /\ UNCHANGED <<fs, comp, relpath, copy, compRow, arch, crossed, faults>>

\* In place a name another asset owns is a conflict, and only that.
InPlace(p) ==
  /\ ad.mode = "in-place" /\ IsNext(p) /\ p \in DOMAIN fs
  /\ LET c == fs[p]
         rel == IF relpath[c] # None THEN relpath[c] ELSE p
         run == [ad EXCEPT !.todo = @ \ {p}, !.seen = @ \cup {c}]
     IN /\ c \notin ad.seen /\ copy[c] = None
        /\ ad' = IF OwnedByOther(rel, c) THEN run
                 ELSE [run EXCEPT !.pc = "asset", !.from = p, !.to = p,
                                  !.id = c, !.rel = rel,
                                  !.claimed = @ \cup {p}]
  /\ UNCHANGED <<fs, comp, relpath, copy, compRow, arch, crossed, faults>>

Migrate(p) ==
  /\ ad.mode = "migrate" /\ IsNext(p) /\ p \in DOMAIN fs
  /\ LET c == fs[p]
         rel == MigratePath(p, c)
         run == [ad EXCEPT !.todo = @ \ {p}, !.seen = @ \cup {c}]
     IN /\ c \notin ad.seen /\ copy[c] = None
        /\ ad' = IF rel = None THEN Stopped("failed")
                 ELSE [run EXCEPT !.pc = IF rel = p THEN "asset" ELSE "rename",
                                  !.from = p, !.to = rel, !.id = c, !.rel = rel,
                                  !.claimed = @ \cup {rel}]
  /\ UNCHANGED <<fs, comp, relpath, copy, compRow, arch, crossed, faults>>

\* rename: the Lstat, and what os.Rename does whatever is there by then.
Rename ==
  /\ ad.pc = "rename"
  /\ ad' = IF ad.to \in DOMAIN fs THEN Stopped("failed")
           ELSE [ad EXCEPT !.pc = "move"]
  /\ UNCHANGED <<fs, comp, relpath, copy, compRow, arch, crossed, faults>>

Move ==
  /\ ad.pc = "move"
  /\ fs' = Put(Drop(fs, ad.from), ad.to, ad.id)
  /\ ad' = [ad EXCEPT !.pc = "asset"]
  /\ UNCHANGED <<comp, relpath, copy, compRow, arch, crossed, faults>>

\* PutAsset.
AssetRow ==
  /\ ad.pc = "asset"
  /\ IF relpath[ad.id] # None
     THEN /\ ad' = IF relpath[ad.id] = ad.rel THEN [ad EXCEPT !.pc = "copy"]
                   ELSE Stopped("failed")
          /\ UNCHANGED relpath
     ELSE IF OwnedByOther(ad.rel, ad.id)
     THEN /\ ad' = Stopped("owned")
          /\ UNCHANGED relpath
     ELSE /\ relpath' = [relpath EXCEPT ![ad.id] = ad.rel]
          /\ ad' = [ad EXCEPT !.pc = "copy"]
  /\ UNCHANGED <<fs, comp, copy, compRow, arch, crossed, faults>>

\* The row names the path the file was found at.
CopyRowFrom ==
  /\ ad.pc = "copy"
  /\ copy' = [copy EXCEPT ![ad.id] = ad.from]
  /\ ad' = [ad EXCEPT !.pc = "originals", !.planned = Plan(ad.from, ad.id),
                      !.from = None, !.to = None, !.id = None, !.rel = None]
  /\ UNCHANGED <<fs, comp, relpath, compRow, arch, crossed, faults>>

CopyRow ==
  /\ ad.pc = "copy"
  /\ copy' = [copy EXCEPT ![ad.id] = ad.to]
  /\ ad' = [ad EXCEPT !.pc = "originals", !.planned = Plan(ad.from, ad.id),
                      !.from = None, !.to = None, !.id = None, !.rel = None]
  /\ UNCHANGED <<fs, comp, relpath, compRow, arch, crossed, faults>>

-----------------------------------------------------------------------------
(* Their companions, paired by where the originals were found.             *)

CompanionsBegin ==
  /\ ad.pc = "originals" /\ ad.todo = {}
  /\ ad' = [ad EXCEPT !.pc = "companions"]
  /\ UNCHANGED <<fs, comp, relpath, copy, compRow, arch, crossed, faults>>

Orphan(p) ==
  /\ ad.pc = "companions" /\ p \in ad.ctodo \ DOMAIN ad.planned
  /\ ad' = [ad EXCEPT !.ctodo = @ \ {p}]
  /\ UNCHANGED <<fs, comp, relpath, copy, compRow, arch, crossed, faults>>

CompanionPath(c, p) == IF ad.mode = "migrate" THEN relpath[c] ELSE p

\* One that is where it belongs is hashed and gets its row.
CompanionHere(p) ==
  /\ ad.pc = "companions" /\ p \in ad.ctodo \cap DOMAIN ad.planned
  /\ LET c == ad.planned[p]
     IN /\ CompanionPath(c, p) = p
        /\ compRow' = [compRow EXCEPT ![c] = p]
  /\ ad' = [ad EXCEPT !.ctodo = @ \ {p}]
  /\ UNCHANGED <<fs, comp, relpath, copy, arch, crossed, faults>>

\* Without the look at the name it moves to.
CompanionAnyway(p) ==
  /\ ad.pc = "companions" /\ p \in ad.ctodo \cap DOMAIN ad.planned
  /\ LET c == ad.planned[p]
         to == CompanionPath(c, p)
     IN /\ to # p
        /\ ad' = [ad EXCEPT !.pc = "cmove", !.from = p, !.to = to, !.id = c]
        /\ crossed' = crossed \cup (IF arch[c] = "proxy" THEN {c} ELSE {})
  /\ UNCHANGED <<fs, comp, relpath, copy, compRow, arch, faults>>

\* Never moving one.
CompanionStays(p) ==
  /\ ad.pc = "companions" /\ p \in ad.ctodo \cap DOMAIN ad.planned
  /\ compRow' = [compRow EXCEPT ![ad.planned[p]] = p]
  /\ ad' = [ad EXCEPT !.ctodo = @ \ {p}]
  /\ UNCHANGED <<fs, comp, relpath, copy, arch, crossed, faults>>

\* rename's Lstat: refusing to overwrite ends the run.
CompanionLook(p) ==
  /\ ad.pc = "companions" /\ p \in ad.ctodo \cap DOMAIN ad.planned
  /\ LET c == ad.planned[p]
         to == CompanionPath(c, p)
     IN /\ to # p
        /\ IF to \in DOMAIN comp THEN ad' = Stopped("failed") /\ UNCHANGED crossed
           ELSE /\ ad' = [ad EXCEPT !.pc = "cmove", !.from = p, !.to = to, !.id = c]
                /\ crossed' = crossed \cup (IF arch[c] = "proxy" THEN {c} ELSE {})
  /\ UNCHANGED <<fs, comp, relpath, copy, compRow, arch, faults>>

\* os.Rename replaces what is there by now.
CompanionMove ==
  /\ ad.pc = "cmove"
  /\ comp' = Put(Drop(comp, ad.from), ad.to, comp[ad.from])
  /\ ad' = [ad EXCEPT !.pc = "crow", !.ctodo = @ \ {ad.from}]
  /\ UNCHANGED <<fs, relpath, copy, compRow, arch, crossed, faults>>

\* PutCompanion.
CompanionRow ==
  /\ ad.pc = "crow"
  /\ compRow' = [compRow EXCEPT ![ad.id] = ad.to]
  /\ ad' = [ad EXCEPT !.pc = "companions", !.from = None, !.to = None, !.id = None]
  /\ UNCHANGED <<fs, comp, relpath, copy, arch, crossed, faults>>

End ==
  /\ ad.pc = "companions" /\ ad.ctodo = {}
  /\ ad' = [ad EXCEPT !.pc = "done"]
  /\ UNCHANGED <<fs, comp, relpath, copy, compRow, arch, crossed, faults>>

Crash ==
  /\ ad.pc \notin {"idle", "done", "failed", "owned"} /\ faults < MaxFaults
  /\ faults' = faults + 1
  /\ ad' = Stopped("idle")
  /\ UNCHANGED <<fs, comp, relpath, copy, compRow, arch, crossed>>

-----------------------------------------------------------------------------
(* Imports that run at the same time.                                      *)

CardPath(c, n) ==
  WithSuffix(DatePath(CaptureDay[c], CardName[c], c, c \notin Stills), n)

\* place, in a scan of a card
Register(c) ==
  /\ c \in OnCard /\ relpath[c] = None
  /\ \E n \in 0..(Suffixes - 1) :
       /\ ~OwnedByOther(CardPath(c, n), c)
       /\ \A m \in 0..(n - 1) : OwnedByOther(CardPath(c, m), c)
       /\ relpath' = [relpath EXCEPT ![c] = CardPath(c, n)]
  /\ UNCHANGED <<fs, comp, copy, compRow, ad, arch, crossed, faults>>

\* copyTo: dst is looked at before the copy, and replaced at its end; then its
\* row.  A copy that fails or dies is one that gets no further.
ArchiveBegin(c) ==
  /\ c \in OnCard /\ arch[c] = "none" /\ relpath[c] # None /\ copy[c] = None
  /\ relpath[c] \in DOMAIN fs => fs[relpath[c]] = c
  /\ arch' = [arch EXCEPT ![c] = "copy"]
  /\ UNCHANGED <<fs, comp, relpath, copy, compRow, ad, crossed, faults>>

ArchiveLands(c) ==
  /\ arch[c] = "copy"
  /\ fs' = Put(fs, relpath[c], c)
  /\ arch' = [arch EXCEPT ![c] = "row"]
  /\ UNCHANGED <<comp, relpath, copy, compRow, ad, crossed, faults>>

ArchiveRow(c) ==
  /\ arch[c] = "row"
  /\ copy' = [copy EXCEPT ![c] = relpath[c]]
  /\ arch' = [arch EXCEPT ![c] = "none"]
  /\ UNCHANGED <<fs, comp, relpath, compRow, ad, crossed, faults>>

\* syncCompanions, after a copy or for one that was complete: the card's proxy,
\* unless one is there when it looks; the copy replaces what is there at its end.
ProxyLook(c) ==
  /\ c \in CardBeside /\ arch[c] = "none" /\ copy[c] # None
  /\ relpath[c] \notin DOMAIN comp
  /\ arch' = [arch EXCEPT ![c] = "proxy"]
  /\ crossed' = crossed \cup (IF ad.pc = "cmove" /\ ad.id = c THEN {c} ELSE {})
  /\ UNCHANGED <<fs, comp, relpath, copy, compRow, ad, faults>>

ProxyLands(c) ==
  /\ arch[c] = "proxy"
  /\ comp' = Put(comp, relpath[c], [of |-> c, was |-> None])
  /\ arch' = [arch EXCEPT ![c] = "proxyRow"]
  /\ UNCHANGED <<fs, relpath, copy, compRow, ad, crossed, faults>>

ProxyRow(c) ==
  /\ arch[c] = "proxyRow"
  /\ compRow' = [compRow EXCEPT ![c] = relpath[c]]
  /\ arch' = [arch EXCEPT ![c] = "none"]
  /\ UNCHANGED <<fs, comp, relpath, copy, ad, crossed, faults>>

-----------------------------------------------------------------------------
AdoptStep ==
  \/ (\E p \in ad.todo : Duplicate(p) \/ Known(p) \/ InPlace(p) \/ Migrate(p))
  \/ Rename \/ Move \/ AssetRow \/ CopyRow \/ CompanionsBegin
  \/ (\E p \in ad.ctodo : Orphan(p) \/ CompanionHere(p) \/ CompanionLook(p))
  \/ CompanionMove \/ CompanionRow \/ End

Next ==
  \/ \E mode \in Modes : Begin(mode)
  \/ AdoptStep \/ Crash
  \/ \E c \in OnCard :
       \/ Register(c) \/ ArchiveBegin(c) \/ ArchiveLands(c) \/ ArchiveRow(c)
       \/ ProxyLook(c) \/ ProxyLands(c) \/ ProxyRow(c)

Spec == Init /\ [][Next]_vars

\* Adopt is run again until it gets to its end, and so is the import of a card
\* whose archive died between a file and its row: until then every run of Adopt
\* refuses to rename a file to where that one landed.
FairSpec == Spec /\ WF_vars(AdoptStep)
                 /\ WF_vars(ad.pc # "done" /\ \E mode \in Modes : Begin(mode))
                 /\ \A c \in OnCard : WF_vars(ArchiveRow(c))

-----------------------------------------------------------------------------
(* Properties.                                                             *)

\* Nothing an adoption does loses a file: every content and every companion
\* that is on the NAS stays on it, under one name or another, wherever a run
\* dies and whatever is archived next to it, as long as no card's file of another
\* content gets the name that a file is renamed to.  Of the companions of one
\* content, one from the library and one from a card, one stays when each was on
\* its way to the name after the other had looked at it.
ContentsAreKept ==
  [][ /\ \A p \in DOMAIN fs : \E q \in DOMAIN fs' : fs'[q] = fs[p]
      /\ \A p \in DOMAIN comp : \E q \in DOMAIN comp' :
           IF comp[p].of \in crossed THEN comp'[q].of = comp[p].of
           ELSE comp'[q] = comp[p] ]_vars

\* ingest/adopt.go:406: "rename moves a file within the location, refusing to
\* overwrite": no companion goes, not even for one of the same content.
CompanionsAreKept ==
  [][\A p \in DOMAIN comp : \E q \in DOMAIN comp' : comp'[q] = comp[p]]_vars

CopiesLead ==
  \A c \in Contents : copy[c] # None => copy[c] \in DOMAIN fs /\ fs[copy[c]] = c

CompanionsLead ==
  \A c \in Contents :
    compRow[c] # None => compRow[c] \in DOMAIN comp /\ comp[compRow[c]].of = c

\* A complete row leads to the bytes it promises, in every state, as long as
\* no card's file of another content gets the name that a file is renamed to:
\* Flush relies on it, and nothing renames a file a row names.  A companion's
\* row does too, as long as all runs have one mode: a migration renames a
\* companion that a run in place recorded before it records it again.
RowsAreTrue == CopiesLead /\ CompanionsLead

\* A run that gets to its end leaves no content of the library without an asset
\* and a copy, but for the names that are another asset's when adopted in place.
DoneIsCatalogued ==
  ad.pc = "done" =>
    \A c \in ad.seen :
      \/ relpath[c] # None /\ copy[c] # None
      \/ ad.mode = "in-place" /\ \E p \in DOMAIN fs :
           fs[p] = c /\ OwnedByOther(IF relpath[c] # None THEN relpath[c] ELSE p, c)

\* ingest/adopt.go:376: companion records, and in Migrate mode moves, a companion
\* next to its adopted original.  At the end of a run a companion of the library
\* that has a row is beside a file of its original, and no original that was
\* renamed left one.
CompanionsFollow ==
  ad.pc = "done" =>
    \A p \in DOMAIN comp :
      \/ comp[p].was = None
      \/ p \in DOMAIN fs /\ fs[p] = comp[p].of
      \/ p \notin DOMAIN ad.planned /\ compRow[comp[p].of] # p

\* Adopting again heals what a run that died left behind.
LibraryIsAdopted ==
  <>(\A p \in DOMAIN Library : relpath[Library[p]] # None /\ copy[Library[p]] # None)
=============================================================================
