------------------------------- MODULE Sources -------------------------------
(***************************************************************************)
(* ScanSource: one scan per card registers what it finds, with one catalog *)
(* under all of them.  Cameras fill, format and fill cards again; a scan   *)
(* may die between any two catalog writes and is run again.  A file is the *)
(* content it holds, which is also its identity.                           *)
(***************************************************************************)
EXTENDS Naming, FiniteSets

CONSTANTS
  Cards, Contents,
  Stills,        \* contents with a full hash for identity; the rest have sparse ones
  NameOf,        \* NameOf[c]: the name without the extension, as a sequence
  Stamp,         \* Stamp[c]: size and mtime of a file with this content
  Day,           \* Day[k][c]: the capture day read from c on card k
  Suffixes,      \* bound: 100 in place
  MaxSessions,    \* bound: times a camera writes to a card again
  None

Files == {NameOf[c] : c \in Contents}    \* paths on a card

RelPaths == {WithSuffix(DatePath(Day[k][c], NameOf[c], c, c \notin Stills), n) :
               k \in Cards, c \in Contents, n \in 0..Suffixes}

ASSUME SourcesAssumption ==
  /\ Stills \subseteq Contents
  /\ Suffixes \in Nat \ {0} /\ MaxSessions \in Nat
  /\ None \notin Contents \cup Files \cup RelPaths

VARIABLES
  card,      \* card[k][f]: the content of file f on card k
  inserted,  \* the cards that are mounted
  relpath,   \* assets: the permanent path of each asset, None without a row
  copy,      \* copies[c][k]: the file the complete row of c on card k names
  cache,     \* source_files[k][f]: the asset last seen there
  scan,      \* the scan of each card
  sessions   \* that cameras have had since

vars == <<card, inserted, relpath, copy, cache, scan, sessions>>

NoScan == [pc |-> "idle", todo |-> {}, file |-> None, id |-> None, n |-> 0,
           found |-> {}]

TypeOK ==
  /\ card \in [Cards -> [Files -> Contents \cup {None}]]
  /\ inserted \subseteq Cards
  /\ relpath \in [Contents -> RelPaths \cup {None}]
  /\ copy \in [Contents -> [Cards -> Files \cup {None}]]
  /\ cache \in [Cards -> [Files -> Contents \cup {None}]]
  /\ scan \in [Cards ->
       [pc : {"idle", "files", "identify", "place", "copyrow", "cacherow", "done"},
        todo : SUBSET Files, file : Files \cup {None},
        id : Contents \cup {None}, n : 0..Suffixes, found : SUBSET Contents]]
  /\ sessions \in 0..MaxSessions

\* Cards as cameras left them; some write every shot to two.
Init ==
  /\ card \in [Cards -> {held \in [Files -> Contents \cup {None}] :
                           \A f \in Files : held[f] = None \/ NameOf[held[f]] = f}]
  /\ inserted = {}
  /\ relpath = [c \in Contents |-> None]
  /\ copy = [c \in Contents |-> [k \in Cards |-> None]]
  /\ cache = [k \in Cards |-> [f \in Files |-> None]]
  /\ scan = [k \in Cards |-> NoScan]
  /\ sessions = 0

-----------------------------------------------------------------------------
(* Cameras and cards.                                                      *)

Fresh(c) == relpath[c] = None /\ \A k \in Cards : \A f \in Files : card[k][f] # c

\* The camera goes on filling the card, or formats it first.
Shoot(k, shots) ==
  /\ k \notin inserted /\ sessions < MaxSessions
  /\ \A c \in shots : Fresh(c)
  /\ \A c, d \in shots : NameOf[c] = NameOf[d] => c = d
  /\ \E formatted \in BOOLEAN :
       LET old == IF formatted THEN [f \in Files |-> None] ELSE card[k]
       IN /\ \A c \in shots : old[NameOf[c]] = None
          /\ card' = [card EXCEPT ![k] =
               [f \in Files |-> IF \E c \in shots : NameOf[c] = f
                                THEN CHOOSE c \in shots : NameOf[c] = f
                                ELSE old[f]]]
  /\ sessions' = sessions + 1
  /\ UNCHANGED <<inserted, relpath, copy, cache, scan>>

Insert(k) ==
  /\ k \notin inserted
  /\ inserted' = inserted \cup {k}
  /\ UNCHANGED <<card, relpath, copy, cache, scan, sessions>>

\* A read error stops the scan wherever it is.  Scans that die of something else
\* are no different: the card might as well have been out.
Eject(k) ==
  /\ k \in inserted
  /\ inserted' = inserted \ {k}
  /\ scan' = [scan EXCEPT ![k] = NoScan]
  /\ UNCHANGED <<card, relpath, copy, cache, sessions>>

-----------------------------------------------------------------------------
(* ScanSource and register.                                                *)

Set(k, r) == scan' = [scan EXCEPT ![k] = r]

NextFile(k, c) ==
  [scan[k] EXCEPT !.pc = "files", !.file = None, !.id = None, !.n = 0,
                  !.found = @ \cup {c}]

Begin(k) ==
  /\ k \in inserted /\ scan[k].pc \in {"idle", "done"}
  /\ Set(k, [NoScan EXCEPT !.pc = "files",
                           !.todo = {f \in Files : card[k][f] # None}])
  /\ UNCHANGED <<card, inserted, relpath, copy, cache, sessions>>

TrustsName(k, f) == cache[k][f] # None

\* LookupSourceFile
Hit(k, f) ==
  cache[k][f] # None /\ Stamp[cache[k][f]] = Stamp[card[k][f]]

Lookup(k, f) ==
  /\ scan[k].pc = "files" /\ f \in scan[k].todo
  /\ IF Hit(k, f)
     THEN /\ copy' = [copy EXCEPT ![cache[k][f]][k] = f]
          /\ Set(k, [NextFile(k, cache[k][f]) EXCEPT !.todo = @ \ {f}])
     ELSE /\ UNCHANGED copy
          /\ Set(k, [scan[k] EXCEPT !.pc = "identify", !.file = f,
                                    !.todo = @ \ {f}])
  /\ UNCHANGED <<card, inserted, relpath, cache, sessions>>

\* Every file the cache misses taken for a new asset.
IdentifyAnew(k) ==
  /\ scan[k].pc = "identify"
  /\ LET c == card[k][scan[k].file]
     IN Set(k, [scan[k] EXCEPT !.id = c, !.pc = "place"])
  /\ UNCHANGED <<card, inserted, relpath, copy, cache, sessions>>

\* Content seen before, on this card or another, keeps its name.
Identify(k) ==
  /\ scan[k].pc = "identify"
  /\ LET c == card[k][scan[k].file]
     IN Set(k, [scan[k] EXCEPT !.id = c,
                  !.pc = IF relpath[c] # None THEN "copyrow" ELSE "place"])
  /\ UNCHANGED <<card, inserted, relpath, copy, cache, sessions>>

TakenByClip(path) == \E c \in Contents \ Stills : relpath[c] = path

Taken(path) == \E c \in Contents : relpath[c] = path

CandidateSparse(k) ==
  LET c == scan[k].id
  IN WithSuffix(DatePath(Day[k][c], NameOf[c], c, TRUE), scan[k].n)

Candidate(k) ==
  LET c == scan[k].id
  IN WithSuffix(DatePath(Day[k][c], NameOf[c], c, c \notin Stills), scan[k].n)

\* PutAsset: a row for the asset comes first; it must have the same path.
PlaceNew(k) ==
  /\ scan[k].pc = "place" /\ relpath[scan[k].id] = None
  /\ ~Taken(Candidate(k))
  /\ relpath' = [relpath EXCEPT ![scan[k].id] = Candidate(k)]
  /\ Set(k, [scan[k] EXCEPT !.pc = "copyrow"])
  /\ UNCHANGED <<card, inserted, copy, cache, sessions>>

PlaceTaken(k) ==
  /\ scan[k].pc = "place" /\ relpath[scan[k].id] = None
  /\ Taken(Candidate(k))
  /\ Set(k, IF scan[k].n + 1 < Suffixes THEN [scan[k] EXCEPT !.n = @ + 1]
            ELSE NoScan)
  /\ UNCHANGED <<card, inserted, relpath, copy, cache, sessions>>

\* Another scan was faster: fatal to this one unless it chose the same path.
PlaceRaced(k) ==
  /\ scan[k].pc = "place" /\ relpath[scan[k].id] # None
  /\ Set(k, IF relpath[scan[k].id] = Candidate(k)
            THEN [scan[k] EXCEPT !.pc = "copyrow"] ELSE NoScan)
  /\ UNCHANGED <<card, inserted, relpath, copy, cache, sessions>>

\* The cache row before the copy row it promises.
CacheFirst(k) ==
  /\ scan[k].pc \in {"copyrow", "cacherow"}
  /\ cache' = [cache EXCEPT ![k][scan[k].file] = scan[k].id]
  /\ Set(k, NextFile(k, scan[k].id))
  /\ UNCHANGED <<card, inserted, relpath, copy, sessions>>

CopyRow(k) ==
  /\ scan[k].pc = "copyrow"
  /\ copy' = [copy EXCEPT ![scan[k].id][k] = scan[k].file]
  /\ Set(k, [scan[k] EXCEPT !.pc = "cacherow"])
  /\ UNCHANGED <<card, inserted, relpath, cache, sessions>>

CacheRow(k) ==
  /\ scan[k].pc = "cacherow"
  /\ cache' = [cache EXCEPT ![k][scan[k].file] = scan[k].id]
  /\ Set(k, NextFile(k, scan[k].id))
  /\ UNCHANGED <<card, inserted, relpath, copy, sessions>>

End(k) ==
  /\ scan[k].pc = "files" /\ scan[k].todo = {}
  /\ Set(k, [scan[k] EXCEPT !.pc = "done"])
  /\ UNCHANGED <<card, inserted, relpath, copy, cache, sessions>>

-----------------------------------------------------------------------------
(* What the rows are used for.                                             *)

\* Choose, for an asset with neither a spool nor a NAS mounted: what its link
\* shows and its next copy is made from.
Chosen(c) ==
  {card[k][copy[c][k]] :
     k \in {j \in inserted : copy[c][j] # None /\ card[j][copy[c][j]] # None}}

-----------------------------------------------------------------------------
ScanStep(k) ==
  \/ Begin(k) \/ (\E f \in Files : Lookup(k, f)) \/ Identify(k)
  \/ PlaceNew(k) \/ PlaceTaken(k) \/ PlaceRaced(k)
  \/ CopyRow(k) \/ CacheRow(k) \/ End(k)

Next ==
  \/ \E k \in Cards : ScanStep(k)
  \/ \E k \in Cards, shots \in SUBSET Contents : Shoot(k, shots)
  \/ \E k \in Cards : Insert(k) \/ Eject(k)

Spec == Init /\ [][Next]_vars

\* A scan that failed is run again: Temporal retries the activity, and the user
\* the command.
FairSpec == Spec /\ \A k \in Cards : WF_vars(ScanStep(k))

-----------------------------------------------------------------------------
(* Properties.                                                             *)

On(k) == {card[k][f] : f \in Files} \ {None}

\* What a finished scan reports is what the card holds, and every asset of the
\* report has a permanent path and a row that leads to its bytes on this card.
\* Rows and cache entries of what the card held before it was formatted, of
\* other cards and of scans that died do not get in the way.
ScanIsTrue ==
  \A k \in Cards :
    scan[k].pc = "done" =>
      /\ scan[k].found = On(k)
      /\ \A c \in On(k) :
           /\ relpath[c] # None
           /\ copy[c][k] # None /\ card[k][copy[c][k]] = c

\* No two assets share a permanent path, and none ever moves: editors keep the
\* paths they were handed, and what is archived stays where its row says.
PathsAreForever ==
  [][\A c \in Contents :
       /\ relpath[c] # None => relpath'[c] = relpath[c]
       /\ \A d \in Contents \ {c} :
            relpath'[c] # None => relpath'[c] # relpath'[d]]_vars

\* A cache entry vouches for rows that exist: a scan that goes by the entry alone
\* never reports an asset the catalog does not have.
CacheVouches ==
  \A k \in Cards : \A f \in Files :
    LET c == cache[k][f]
    IN c # None => relpath[c] # None /\ copy[c][k] # None

\* A card that stays in is registered in full, whatever scans of it and of other
\* cards with the same shots died or got in each other's way.
CardIsRegistered ==
  \A k \in Cards :
    <>[](k \in inserted) =>
      <>(\A c \in On(k) : relpath[c] # None /\ copy[c][k] # None
                          /\ card[k][copy[c][k]] = c)

\* linktree/linktree.go:3: for every asset, one symlink pointing at the best
\* complete copy that exists right now.
LinkShowsTheAsset ==
  \A c \in Contents : relpath[c] # None => Chosen(c) \subseteq {c}
=============================================================================
