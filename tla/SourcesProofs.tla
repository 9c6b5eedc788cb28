--------------------------- MODULE SourcesProofs ---------------------------
(***************************************************************************)
(* Theorems about Sources for every set of cards and contents, every        *)
(* assignment of names, stamps and capture days and every number of scans.  *)
(* Each program counter of a scan is tied to the rows it has written; a row *)
(* is never taken back, so what holds when it is written holds for good.    *)
(***************************************************************************)
EXTENDS Sources, TLAPS

\* What the cache takes for granted: a camera gives two files with one name
\* different sizes or modification times.
StampsTell ==
  \A c, d \in Contents : NameOf[c] = NameOf[d] /\ Stamp[c] = Stamp[d] => c = d

ScanState ==
  [pc : {"idle", "files", "identify", "place", "copyrow", "cacherow", "done"},
   todo : SUBSET Files, file : Files \cup {None},
   id : Contents \cup {None}, n : 0..Suffixes, found : SUBSET Contents]

AtFile == {"identify", "place", "copyrow", "cacherow"}
Identified == {"place", "copyrow", "cacherow"}

\* A file goes by the name its content was shot under, also in the cache.
Named ==
  \A k \in Cards, f \in Files :
    /\ card[k][f] # None => NameOf[card[k][f]] = f
    /\ cache[k][f] # None => NameOf[cache[k][f]] = f

\* The file the scan of k is at, and the rows it has written for it so far.
At(k) ==
  /\ scan[k].pc # "idle" => k \in inserted /\ \A f \in scan[k].todo : card[k][f] # None
  /\ scan[k].pc \in AtFile => scan[k].file \in Files /\ card[k][scan[k].file] # None
  /\ scan[k].pc \in Identified => scan[k].id = card[k][scan[k].file]
  /\ scan[k].pc \in {"copyrow", "cacherow"} => relpath[scan[k].id] # None
  /\ scan[k].pc = "cacherow" => copy[scan[k].id][k] = scan[k].file

\* Two assets never share a path.
Unique ==
  \A c \in Contents : \A d \in Contents \ {c} :
    relpath[c] # None => relpath[c] # relpath[d]

Inv == TypeOK /\ Named /\ (\A k \in Cards : At(k)) /\ Unique /\ CacheVouches

\* Content c has its path and a row that leads to it on card k.
Registered(k, c) ==
  c \in Contents /\ relpath[c] # None /\ copy[c][k] \in Files /\ card[k][copy[c][k]] = c

\* What a scan has found is registered, what it has not found is ahead of it.
Found(k) ==
  scan[k].pc # "idle" =>
    /\ \A c \in scan[k].found : Registered(k, c)
    /\ \A f \in Files : card[k][f] # None =>
         \/ card[k][f] \in scan[k].found
         \/ f \in scan[k].todo
         \/ scan[k].pc \in AtFile /\ f = scan[k].file
    /\ scan[k].pc = "done" => scan[k].todo = {}

FoundOK == \A k \in Cards : Found(k)

\* An empty catalog satisfies the invariants.
LEMMA InvInit == Init => Inv /\ FoundOK
<1> SUFFICES ASSUME Init PROVE Inv /\ FoundOK
  OBVIOUS
<1>1. NoScan \in ScanState /\ NoScan.pc = "idle"
  BY SourcesAssumption DEF NoScan, ScanState
<1>2. scan \in [Cards -> ScanState] /\ \A k \in Cards : scan[k].pc = "idle"
  BY <1>1 DEF Init
<1>3. TypeOK
  <2>1. /\ card \in [Cards -> [Files -> Contents \cup {None}]]
        /\ inserted \subseteq Cards
        /\ relpath \in [Contents -> RelPaths \cup {None}]
        /\ copy \in [Contents -> [Cards -> Files \cup {None}]]
        /\ cache \in [Cards -> [Files -> Contents \cup {None}]]
        /\ sessions \in 0..MaxSessions
    BY SourcesAssumption DEF Init
  <2> QED BY <1>2, <2>1, Zenon DEF TypeOK, ScanState
<1>4. Named
  BY DEF Init, Named
<1>5. ASSUME NEW k \in Cards PROVE At(k) /\ Found(k)
  BY <1>2 DEF At, Found, AtFile, Identified
<1>6. Unique /\ CacheVouches
  BY DEF Init, Unique, CacheVouches
<1> QED BY <1>3, <1>4, <1>5, <1>6 DEF Inv, FoundOK

-----------------------------------------------------------------------------
(* What a step of one scan leaves alone.                                   *)

\* The scan of k goes to r; the rows of other cards stay, and no row goes away.
ScanTo(k, r) ==
  /\ r \in ScanState
  /\ scan' = [scan EXCEPT ![k] = r]
  /\ UNCHANGED <<card, inserted, sessions>>
  /\ relpath' \in [Contents -> RelPaths \cup {None}]
  /\ \A c \in Contents : relpath[c] # None => relpath'[c] = relpath[c]
  /\ copy' \in [Contents -> [Cards -> Files \cup {None}]]
  /\ \A c \in Contents, j \in Cards \ {k} : copy'[c][j] = copy[c][j]
  /\ \A c \in Contents : copy[c][k] # None => copy'[c][k] # None
  /\ cache' \in [Cards -> [Files -> Contents \cup {None}]]
  /\ \A j \in Cards \ {k}, f \in Files : cache'[j][f] = cache[j][f]

\* The scans' states, as a function.
LEMMA ScanType == TypeOK => scan \in [Cards -> ScanState]
BY DEF TypeOK, ScanState

\* What a step of one scan has to show: its own progress and the cache rows it wrote.
LEMMA ScanToInv ==
  ASSUME Inv, NEW k \in Cards, NEW r, ScanTo(k, r), At(k)', Unique',
         \A f \in Files : cache'[k][f] = cache[k][f]
           \/ /\ cache'[k][f] \in Contents /\ NameOf[cache'[k][f]] = f
              /\ relpath'[cache'[k][f]] # None /\ copy'[cache'[k][f]][k] # None
  PROVE  Inv'
<1>1. /\ scan' \in [Cards -> ScanState] /\ scan'[k] = r
      /\ \A j \in Cards \ {k} : scan'[j] = scan[j]
  BY ScanType DEF Inv, ScanTo
<1>2. TypeOK'
  <2>1. /\ card' \in [Cards -> [Files -> Contents \cup {None}]]
        /\ inserted' \subseteq Cards /\ sessions' \in 0..MaxSessions
    BY DEF Inv, TypeOK, ScanTo
  <2>2. /\ relpath' \in [Contents -> RelPaths \cup {None}]
        /\ copy' \in [Contents -> [Cards -> Files \cup {None}]]
        /\ cache' \in [Cards -> [Files -> Contents \cup {None}]]
    BY DEF ScanTo
  <2> QED BY <1>1, <2>1, <2>2, Zenon DEF TypeOK, ScanState
<1>3. ASSUME NEW j \in Cards, NEW f \in Files, cache'[j][f] # None
      PROVE  /\ NameOf[cache'[j][f]] = f
             /\ relpath'[cache'[j][f]] # None /\ copy'[cache'[j][f]][j] # None
  <2>1. CASE cache'[j][f] = cache[j][f]
    <3>1. cache[j][f] \in Contents
      BY <1>3, <2>1 DEF Inv, TypeOK
    <3>2. /\ NameOf[cache[j][f]] = f
          /\ relpath[cache[j][f]] # None /\ copy[cache[j][f]][j] # None
      BY <1>3, <2>1 DEF Inv, Named, CacheVouches
    <3>3. \A c \in Contents : copy[c][j] # None => copy'[c][j] # None
      BY DEF ScanTo
    <3>4. \A c \in Contents : relpath[c] # None => relpath'[c] # None
      BY DEF ScanTo
    <3> QED BY <2>1, <3>1, <3>2, <3>3, <3>4
  <2>2. CASE cache'[j][f] # cache[j][f]
    BY <2>2 DEF ScanTo
  <2> QED BY <2>1, <2>2
<1>4. Named' /\ CacheVouches'
  BY <1>3 DEF Named, CacheVouches, Inv, ScanTo
<1>5. ASSUME NEW j \in Cards PROVE At(j)'
  <2>1. CASE j = k
    BY <2>1
  <2>2. CASE j # k
    <3>1. scan'[j] = scan[j] /\ scan[j].id \in Contents \cup {None} /\ At(j)
      BY <1>1, <2>2, ScanType DEF Inv, ScanState
    <3>2. scan[j].pc \in Identified => scan[j].id \in Contents
      BY <3>1 DEF At, AtFile, Identified
    <3> QED BY <2>2, <3>1, <3>2 DEF At, ScanTo, Identified
  <2> QED BY <2>1, <2>2
<1> QED BY <1>2, <1>4, <1>5 DEF Inv

\* The same for what scans have found.
LEMMA ScanToFound ==
  ASSUME Inv, FoundOK, NEW k \in Cards, NEW r, ScanTo(k, r), Found(k)'
  PROVE  FoundOK'
<1>1. \A j \in Cards \ {k} : scan'[j] = scan[j]
  BY ScanType DEF Inv, ScanTo
<1>2. ASSUME NEW j \in Cards, j # k PROVE Found(j)'
  <2>1. Found(j) /\ scan'[j] = scan[j] /\ UNCHANGED card
    BY <1>1, <1>2 DEF FoundOK, ScanTo
  <2>2. \A c : Registered(j, c) => Registered(j, c)'
    BY <1>2 DEF Registered, ScanTo
  <2> QED BY <2>1, <2>2 DEF Found
<1> QED BY <1>2 DEF FoundOK

-----------------------------------------------------------------------------
(* The steps of a scan.                                                    *)

\* What a scan takes along to the next file.
LEMMA NextFileFields ==
  ASSUME scan \in [Cards -> ScanState], NEW k \in Cards, NEW c \in Contents
  PROVE  /\ NextFile(k, c) \in ScanState /\ NextFile(k, c).pc = "files"
         /\ NextFile(k, c).todo = scan[k].todo
         /\ NextFile(k, c).found = scan[k].found \cup {c}
<1>1. scan[k] \in ScanState
  OBVIOUS
<1>2. 0 \in 0..Suffixes
  BY SourcesAssumption
<1> QED BY <1>1, <1>2 DEF NextFile, ScanState

\* Steps that move a scan and write no row.
LEMMA ScanOnly ==
  ASSUME Inv, NEW k \in Cards, NEW r \in ScanState, scan' = [scan EXCEPT ![k] = r],
         UNCHANGED <<card, inserted, sessions, relpath, copy, cache>>
  PROVE  ScanTo(k, r) /\ Unique' /\ scan'[k] = r
         /\ \A f \in Files : cache'[k][f] = cache[k][f]
<1>1. scan'[k] = r
  BY ScanType DEF Inv
<1>2. Unique'
  BY DEF Inv, Unique
<1>3. /\ relpath' \in [Contents -> RelPaths \cup {None}]
      /\ copy' \in [Contents -> [Cards -> Files \cup {None}]]
      /\ cache' \in [Cards -> [Files -> Contents \cup {None}]]
  BY DEF Inv, TypeOK
<1>4. ScanTo(k, r)
  BY <1>3 DEF ScanTo
<1> QED BY <1>1, <1>2, <1>4

\* ScanSource begins.
LEMMA BeginInv ==
  ASSUME Inv, NEW k \in Cards, Begin(k)
  PROVE  Inv' /\ (FoundOK => FoundOK')
<1> DEFINE r == [NoScan EXCEPT !.pc = "files", !.todo = {f \in Files : card[k][f] # None}]
<1>1. /\ r \in ScanState /\ r.pc = "files" /\ r.found = {}
      /\ r.todo = {f \in Files : card[k][f] # None}
  <2>1. NoScan \in ScanState /\ NoScan.found = {}
    BY SourcesAssumption DEF NoScan, ScanState
  <2>2. {f \in Files : card[k][f] # None} \in SUBSET Files
    OBVIOUS
  <2> QED BY <2>1, <2>2 DEF ScanState
<1>2. scan' = [scan EXCEPT ![k] = r] /\ k \in inserted
      /\ UNCHANGED <<card, inserted, sessions, relpath, copy, cache>>
  BY DEF Begin, Set
<1> HIDE DEF r
<1>3. ScanTo(k, r) /\ Unique' /\ scan'[k] = r /\ \A f \in Files : cache'[k][f] = cache[k][f]
  BY <1>1, <1>2, ScanOnly
<1>4. At(k)' /\ Found(k)'
  BY <1>1, <1>2, <1>3 DEF At, Found, AtFile, Identified
<1> QED BY <1>3, <1>4, ScanToInv, ScanToFound

\* A scan that gives up, or is through.
LEMMA StopInv ==
  ASSUME Inv, NEW k \in Cards, scan' = [scan EXCEPT ![k] = NoScan],
         UNCHANGED <<card, inserted, sessions, relpath, copy, cache>>
  PROVE  Inv' /\ (FoundOK => FoundOK')
<1>1. NoScan \in ScanState /\ NoScan.pc = "idle"
  BY SourcesAssumption DEF NoScan, ScanState
<1>2. ScanTo(k, NoScan) /\ Unique' /\ scan'[k] = NoScan
      /\ \A f \in Files : cache'[k][f] = cache[k][f]
  BY <1>1, ScanOnly
<1>3. At(k)' /\ Found(k)'
  BY <1>1, <1>2 DEF At, Found, AtFile, Identified
<1> QED BY <1>2, <1>3, ScanToInv, ScanToFound

\* ScanSource ends, with its report.
LEMMA EndInv ==
  ASSUME Inv, NEW k \in Cards, End(k)
  PROVE  Inv' /\ (FoundOK => FoundOK')
<1> DEFINE r == [scan[k] EXCEPT !.pc = "done"]
<1>1. scan[k] \in ScanState
  BY ScanType DEF Inv
<1>2. /\ r \in ScanState /\ r.pc = "done" /\ r.todo = scan[k].todo /\ r.found = scan[k].found
  BY <1>1 DEF ScanState
<1>3. scan' = [scan EXCEPT ![k] = r] /\ scan[k].pc = "files" /\ scan[k].todo = {}
      /\ UNCHANGED <<card, inserted, sessions, relpath, copy, cache>>
  BY DEF End, Set
<1> HIDE DEF r
<1>4. ScanTo(k, r) /\ Unique' /\ scan'[k] = r /\ \A f \in Files : cache'[k][f] = cache[k][f]
  BY <1>2, <1>3, ScanOnly
<1>5. At(k)'
  BY <1>2, <1>3, <1>4 DEF Inv, At, AtFile, Identified
<1>6. FoundOK => Found(k)'
  BY <1>2, <1>3, <1>4 DEF FoundOK, Found, AtFile, Registered
<1> QED BY <1>4, <1>5, <1>6, ScanToInv, ScanToFound

\* register reads a file the cache does not have.
LEMMA IdentifyInv ==
  ASSUME Inv, NEW k \in Cards, Identify(k)
  PROVE  Inv' /\ (FoundOK => FoundOK')
<1>1. scan[k] \in ScanState /\ scan[k].pc = "identify" /\ At(k) /\ scan[k].file \in Files
  BY ScanType DEF Inv, Identify, At, AtFile
<1>c. PICK c \in Contents : c = card[k][scan[k].file] /\ c # None
  BY <1>1 DEF Inv, At, AtFile, TypeOK
<1> DEFINE p == IF relpath[c] # None THEN "copyrow" ELSE "place"
<1> DEFINE r == [scan[k] EXCEPT !.id = c, !.pc = p]
<1>2. scan' = [scan EXCEPT ![k] = r]
      /\ UNCHANGED <<card, inserted, sessions, relpath, copy, cache>>
  BY <1>c DEF Identify, Set
<1>3. p \in {"copyrow", "place"} /\ (p = "copyrow" => relpath[c] # None)
  OBVIOUS
<1> HIDE DEF p
<1>4. /\ r \in ScanState /\ r.pc = p /\ r.id = c /\ r.file = scan[k].file
      /\ r.todo = scan[k].todo /\ r.found = scan[k].found
  BY <1>1, <1>3 DEF ScanState
<1> HIDE DEF r
<1>5. ScanTo(k, r) /\ Unique' /\ scan'[k] = r /\ \A f \in Files : cache'[k][f] = cache[k][f]
  BY <1>2, <1>4, ScanOnly
<1>6. At(k)'
  BY <1>1, <1>c, <1>2, <1>3, <1>4, <1>5 DEF At, AtFile, Identified
<1>7. FoundOK => Found(k)'
  BY <1>1, <1>2, <1>3, <1>4, <1>5 DEF FoundOK, Found, AtFile, Registered
<1> QED BY <1>5, <1>6, <1>7, ScanToInv, ScanToFound

\* place tries the next suffix.
LEMMA PlaceTakenInv ==
  ASSUME Inv, NEW k \in Cards, PlaceTaken(k)
  PROVE  Inv' /\ (FoundOK => FoundOK')
<1> DEFINE r == [scan[k] EXCEPT !.n = @ + 1]
<1>1. scan[k] \in ScanState /\ scan[k].pc = "place" /\ At(k)
      /\ UNCHANGED <<card, inserted, sessions, relpath, copy, cache>>
  BY ScanType DEF Inv, PlaceTaken
<1>2. CASE scan[k].n + 1 < Suffixes
  <2>1. scan[k].n \in Nat /\ scan[k].n + 1 \in 0..Suffixes
    BY <1>1, <1>2, SourcesAssumption DEF ScanState
  <2>2. /\ r \in ScanState /\ r.pc = "place" /\ r.id = scan[k].id /\ r.file = scan[k].file
        /\ r.todo = scan[k].todo /\ r.found = scan[k].found
    BY <1>1, <2>1 DEF ScanState
  <2>3. scan' = [scan EXCEPT ![k] = r]
    BY <1>2 DEF PlaceTaken, Set
  <2> HIDE DEF r
  <2>4. ScanTo(k, r) /\ Unique' /\ scan'[k] = r /\ \A f \in Files : cache'[k][f] = cache[k][f]
    BY <1>1, <2>2, <2>3, ScanOnly
  <2>5. At(k)'
    BY <1>1, <2>2, <2>4 DEF At, AtFile, Identified
  <2>6. FoundOK => Found(k)'
    BY <1>1, <2>2, <2>4 DEF FoundOK, Found, AtFile, Registered
  <2> QED BY <2>4, <2>5, <2>6, ScanToInv, ScanToFound
<1>3. CASE ~(scan[k].n + 1 < Suffixes)
  BY <1>1, <1>3, StopInv DEF PlaceTaken, Set
<1> QED BY <1>2, <1>3

\* PutAsset finds that another scan has made the asset's row.
LEMMA PlaceRacedInv ==
  ASSUME Inv, NEW k \in Cards, PlaceRaced(k)
  PROVE  Inv' /\ (FoundOK => FoundOK')
<1> DEFINE r == [scan[k] EXCEPT !.pc = "copyrow"]
<1>1. scan[k] \in ScanState /\ scan[k].pc = "place" /\ At(k) /\ relpath[scan[k].id] # None
      /\ UNCHANGED <<card, inserted, sessions, relpath, copy, cache>>
  BY ScanType DEF Inv, PlaceRaced
<1>2. CASE relpath[scan[k].id] = Candidate(k)
  <2>1. /\ r \in ScanState /\ r.pc = "copyrow" /\ r.id = scan[k].id /\ r.file = scan[k].file
        /\ r.todo = scan[k].todo /\ r.found = scan[k].found
    BY <1>1 DEF ScanState
  <2>2. scan' = [scan EXCEPT ![k] = r]
    BY <1>2 DEF PlaceRaced, Set
  <2> HIDE DEF r
  <2>3. ScanTo(k, r) /\ Unique' /\ scan'[k] = r /\ \A f \in Files : cache'[k][f] = cache[k][f]
    BY <1>1, <2>1, <2>2, ScanOnly
  <2>4. At(k)'
    BY <1>1, <2>1, <2>3 DEF At, AtFile, Identified
  <2>5. FoundOK => Found(k)'
    BY <1>1, <2>1, <2>3 DEF FoundOK, Found, AtFile, Registered
  <2> QED BY <2>3, <2>4, <2>5, ScanToInv, ScanToFound
<1>3. CASE relpath[scan[k].id] # Candidate(k)
  BY <1>1, <1>3, StopInv DEF PlaceRaced, Set
<1> QED BY <1>2, <1>3

\* PutAsset: the path is nobody else's, and the row is there before the copy row.
LEMMA PlaceNewInv ==
  ASSUME Inv, NEW k \in Cards, PlaceNew(k)
  PROVE  Inv' /\ (FoundOK => FoundOK')
<1> DEFINE r == [scan[k] EXCEPT !.pc = "copyrow"]
<1>a. /\ scan[k] \in ScanState /\ scan[k].pc = "place" /\ At(k)
  BY ScanType DEF Inv, PlaceNew
<1>2. PICK c \in Contents : c = scan[k].id
  BY <1>a DEF Inv, TypeOK, At, AtFile, Identified, ScanState
<1>1. /\ scan[k] \in ScanState /\ scan[k].pc = "place" /\ At(k) /\ relpath[c] = None
      /\ ~Taken(Candidate(k)) /\ scan' = [scan EXCEPT ![k] = r]
      /\ relpath' = [relpath EXCEPT ![c] = Candidate(k)]
      /\ UNCHANGED <<card, inserted, sessions, copy, cache>>
  BY <1>a, <1>2 DEF PlaceNew, Set
<1>3. /\ r \in ScanState /\ r.pc = "copyrow" /\ r.id = c /\ r.file = scan[k].file
      /\ r.todo = scan[k].todo /\ r.found = scan[k].found
  BY <1>1, <1>2 DEF ScanState
<1> HIDE DEF r
<1>4. Candidate(k) \in RelPaths /\ Candidate(k) # None
  <2>1. scan[k].n \in 0..Suffixes
    BY <1>1 DEF ScanState
  <2>2. Candidate(k) \in RelPaths
    BY <1>2, <2>1 DEF Candidate, RelPaths
  <2> QED BY <2>2, SourcesAssumption
<1>5. relpath \in [Contents -> RelPaths \cup {None}]
  BY DEF Inv, TypeOK
<1>6. /\ relpath' \in [Contents -> RelPaths \cup {None}] /\ relpath'[c] = Candidate(k)
      /\ \A d \in Contents \ {c} : relpath'[d] = relpath[d]
  BY <1>1, <1>2, <1>4, <1>5
<1>7. ScanTo(k, r)
  <2>1. /\ copy' \in [Contents -> [Cards -> Files \cup {None}]]
        /\ cache' \in [Cards -> [Files -> Contents \cup {None}]]
    BY <1>1 DEF Inv, TypeOK
  <2>2. \A d \in Contents : relpath[d] # None => relpath'[d] = relpath[d]
    BY <1>1, <1>6
  <2> QED BY <1>1, <1>3, <1>6, <2>1, <2>2 DEF ScanTo
<1>8. Unique'
  <2>1. \A d \in Contents : relpath[d] # Candidate(k)
    BY <1>1 DEF Taken
  <2> QED BY <1>4, <1>6, <2>1 DEF Inv, Unique
<1>9. scan'[k] = r
  BY <1>1, ScanType DEF Inv
<1>10. At(k)'
  BY <1>1, <1>2, <1>3, <1>4, <1>6, <1>9 DEF At, AtFile, Identified
<1>11. FoundOK => Found(k)'
  <2>1. \A d : Registered(k, d) => Registered(k, d)'
    BY <1>1, <1>6 DEF Registered
  <2> QED BY <1>1, <1>3, <1>9, <2>1 DEF FoundOK, Found, AtFile
<1> QED BY <1>1, <1>7, <1>8, <1>10, <1>11, ScanToInv, ScanToFound

\* The copy row of c leads to file f of k from now on, and the scan of k goes to r.
RowWritten(k, c, f, r) ==
  /\ copy' = [copy EXCEPT ![c][k] = f]
  /\ scan' = [scan EXCEPT ![k] = r]
  /\ UNCHANGED <<card, inserted, sessions, relpath, cache>>

\* What PutCopy leaves in the catalog.
LEMMA CopyRowWritten ==
  ASSUME Inv, NEW k \in Cards, NEW c \in Contents, NEW f \in Files, NEW r \in ScanState,
         RowWritten(k, c, f, r)
  PROVE  /\ ScanTo(k, r) /\ Unique' /\ scan'[k] = r
         /\ \A g \in Files : cache'[k][g] = cache[k][g]
         /\ copy'[c][k] = f /\ \A d \in Contents \ {c} : copy'[d][k] = copy[d][k]
         /\ f # None
<1>1. copy \in [Contents -> [Cards -> Files \cup {None}]] /\ f # None
  BY SourcesAssumption DEF Inv, TypeOK
<1>2. /\ copy' \in [Contents -> [Cards -> Files \cup {None}]]
      /\ copy'[c][k] = f /\ \A d \in Contents \ {c} : copy'[d][k] = copy[d][k]
      /\ \A d \in Contents, j \in Cards \ {k} : copy'[d][j] = copy[d][j]
  BY <1>1 DEF RowWritten
<1>3. Unique'
  BY DEF Inv, Unique, RowWritten
<1>4. scan'[k] = r
  BY ScanType DEF Inv, RowWritten
<1>5. /\ relpath' \in [Contents -> RelPaths \cup {None}]
      /\ cache' \in [Cards -> [Files -> Contents \cup {None}]]
  BY DEF Inv, TypeOK, RowWritten
<1>6. ScanTo(k, r)
  BY <1>1, <1>2, <1>5 DEF ScanTo, RowWritten
<1> QED BY <1>1, <1>2, <1>3, <1>4, <1>6 DEF RowWritten

\* register writes the copy row.
LEMMA CopyRowInv ==
  ASSUME Inv, NEW k \in Cards, CopyRow(k)
  PROVE  Inv' /\ (FoundOK => FoundOK')
<1> DEFINE r == [scan[k] EXCEPT !.pc = "cacherow"]
<1>a. scan[k] \in ScanState /\ scan[k].pc = "copyrow" /\ At(k)
  BY ScanType DEF Inv, CopyRow
<1>f. PICK f \in Files : f = scan[k].file /\ card[k][f] # None
  BY <1>a DEF At, AtFile
<1>2. PICK c \in Contents : c = scan[k].id /\ c = card[k][f] /\ relpath[c] # None
  BY <1>a, <1>f DEF Inv, TypeOK, At, AtFile, Identified
<1>1. /\ scan[k] \in ScanState /\ scan[k].pc = "copyrow" /\ At(k)
      /\ copy' = [copy EXCEPT ![c][k] = f] /\ scan' = [scan EXCEPT ![k] = r]
      /\ UNCHANGED <<card, inserted, sessions, relpath, cache>>
  BY <1>a, <1>f, <1>2 DEF CopyRow, Set
<1>3. /\ r \in ScanState /\ r.pc = "cacherow" /\ r.id = c /\ r.file = f
      /\ r.todo = scan[k].todo /\ r.found = scan[k].found
  BY <1>1, <1>2, <1>f DEF ScanState
<1> HIDE DEF r
<1>4. /\ ScanTo(k, r) /\ Unique' /\ scan'[k] = r /\ \A g \in Files : cache'[k][g] = cache[k][g]
      /\ copy'[c][k] = f /\ \A d \in Contents \ {c} : copy'[d][k] = copy[d][k]
  <2>1. RowWritten(k, c, f, r)
    BY <1>1 DEF RowWritten
  <2> QED BY <1>3, <2>1, CopyRowWritten
<1>5. At(k)'
  BY <1>1, <1>2, <1>f, <1>3, <1>4 DEF At, AtFile, Identified
<1>6. FoundOK => Found(k)'
  <2>1. \A d : Registered(k, d) => Registered(k, d)'
    BY <1>1, <1>2, <1>4 DEF Registered
  <2> QED BY <1>1, <1>f, <1>3, <1>4, <2>1 DEF FoundOK, Found, AtFile
<1> QED BY <1>4, <1>5, <1>6, ScanToInv, ScanToFound

\* PutSourceFile comes after it, so that the cache row has what it vouches for.
LEMMA CacheRowInv ==
  ASSUME Inv, NEW k \in Cards, CacheRow(k)
  PROVE  Inv' /\ (FoundOK => FoundOK')
<1>a. scan[k] \in ScanState /\ scan[k].pc = "cacherow" /\ At(k)
  BY ScanType DEF Inv, CacheRow
<1>5. PICK f \in Files : f = scan[k].file /\ card[k][f] # None
  BY <1>a DEF At, AtFile
<1>c. PICK c \in Contents : c = scan[k].id /\ c = card[k][f]
  BY <1>a, <1>5 DEF Inv, TypeOK, At, AtFile, Identified
<1> DEFINE r == NextFile(k, c)
<1>1. /\ scan[k] \in ScanState /\ scan[k].pc = "cacherow" /\ At(k)
      /\ cache' = [cache EXCEPT ![k][f] = c] /\ scan' = [scan EXCEPT ![k] = r]
      /\ UNCHANGED <<card, inserted, sessions, relpath, copy>>
  BY <1>a, <1>5, <1>c DEF CacheRow, Set
<1>2. /\ c # None /\ relpath[c] # None /\ copy[c][k] = f /\ f # None /\ k \in inserted
  BY <1>a, <1>5, <1>c, SourcesAssumption DEF At
<1>3. /\ r \in ScanState /\ r.pc = "files"
      /\ r.todo = scan[k].todo /\ r.found = scan[k].found \cup {c}
  BY <1>2, ScanType, NextFileFields DEF Inv
<1>4. NameOf[c] = f
  BY <1>2, <1>c DEF Inv, Named
<1> HIDE DEF r
<1>6. cache \in [Cards -> [Files -> Contents \cup {None}]]
  BY DEF Inv, TypeOK
<1>7. /\ cache' \in [Cards -> [Files -> Contents \cup {None}]]
      /\ cache'[k][f] = c /\ \A g \in Files \ {f} : cache'[k][g] = cache[k][g]
      /\ \A j \in Cards \ {k}, g \in Files : cache'[j][g] = cache[j][g]
  BY <1>1, <1>2, <1>6
<1>8. ScanTo(k, r)
  <2>1. /\ relpath' \in [Contents -> RelPaths \cup {None}]
        /\ copy' \in [Contents -> [Cards -> Files \cup {None}]]
    BY <1>1 DEF Inv, TypeOK
  <2> QED BY <1>1, <1>3, <1>7, <2>1 DEF ScanTo
<1>9. Unique'
  BY <1>1 DEF Inv, Unique
<1>10. scan'[k] = r
  BY <1>1, ScanType DEF Inv
<1>11. At(k)'
  BY <1>1, <1>2, <1>3, <1>10 DEF At, AtFile, Identified
<1>12. FoundOK => Found(k)'
  <2>1. \A d : Registered(k, d) => Registered(k, d)'
    BY <1>1 DEF Registered
  <2>2. Registered(k, c)'
    BY <1>1, <1>2, <1>c DEF Registered
  <2> QED BY <1>1, <1>2, <1>c, <1>3, <1>5, <1>10, <2>1, <2>2 DEF FoundOK, Found, AtFile
<1>13. \A g \in Files : cache'[k][g] = cache[k][g]
         \/ /\ cache'[k][g] \in Contents /\ NameOf[cache'[k][g]] = g
            /\ relpath'[cache'[k][g]] # None /\ copy'[cache'[k][g]][k] # None
  BY <1>1, <1>2, <1>4, <1>7
<1> QED BY <1>8, <1>9, <1>11, <1>12, <1>13, ScanToInv, ScanToFound

\* LookupSourceFile: with StampsTell, a hit is a hit on the content that is there.
LEMMA LookupInv ==
  ASSUME Inv, NEW k \in Cards, NEW f \in Files, Lookup(k, f)
  PROVE  Inv' /\ (StampsTell /\ FoundOK => FoundOK')
<1>1. /\ scan[k] \in ScanState /\ scan[k].pc = "files" /\ At(k) /\ f \in scan[k].todo
      /\ k \in inserted /\ UNCHANGED <<card, inserted, sessions, relpath, cache>>
  BY ScanType DEF Inv, Lookup, At
<1>2. ASSUME Hit(k, f) PROVE Inv' /\ (StampsTell /\ FoundOK => FoundOK')
  <2>c. PICK c \in Contents : c = cache[k][f] /\ c # None
    BY <1>2 DEF Hit, Inv, TypeOK
  <2> DEFINE q == NextFile(k, c)
  <2> DEFINE r == [q EXCEPT !.todo = @ \ {f}]
  <2>1. copy' = [copy EXCEPT ![c][k] = f] /\ scan' = [scan EXCEPT ![k] = r]
    BY <1>2, <2>c DEF Lookup, Set
  <2>2. Stamp[c] = Stamp[card[k][f]] /\ NameOf[c] = f
        /\ relpath[c] # None
    BY <1>2, <2>c DEF Hit, Inv, Named, CacheVouches
  <2>3. /\ q \in ScanState /\ q.pc = "files"
        /\ q.todo = scan[k].todo /\ q.found = scan[k].found \cup {c}
    BY <2>2, ScanType, NextFileFields DEF Inv
  <2> HIDE DEF q
  <2>4. /\ r \in ScanState /\ r.pc = "files"
        /\ r.todo = scan[k].todo \ {f} /\ r.found = scan[k].found \cup {c}
    BY <2>3 DEF ScanState
  <2> HIDE DEF r
  <2>5. /\ ScanTo(k, r) /\ Unique' /\ scan'[k] = r
        /\ \A g \in Files : cache'[k][g] = cache[k][g]
        /\ copy'[c][k] = f /\ \A d \in Contents \ {c} : copy'[d][k] = copy[d][k]
    <3>1. RowWritten(k, c, f, r)
      BY <1>1, <2>1 DEF RowWritten
    <3> QED BY <2>4, <3>1, CopyRowWritten
  <2>6. At(k)'
    BY <1>1, <2>4, <2>5 DEF At, AtFile, Identified
  <2>7. Inv'
    BY <2>5, <2>6, ScanToInv
  <2>8. ASSUME StampsTell, FoundOK PROVE FoundOK'
    <3>1. card[k][f] # None /\ Found(k)
      BY <1>1, <2>8 DEF FoundOK, At
    <3>2. card[k][f] \in Contents /\ NameOf[card[k][f]] = f
      BY <3>1 DEF Inv, TypeOK, Named
    <3>3. c = card[k][f]
      BY <2>2, <2>8, <3>2 DEF StampsTell
    <3>4. \A d : Registered(k, d) => Registered(k, d)'
      BY <1>1, <2>2, <2>5, <3>3 DEF Registered
    <3>5. Registered(k, c)'
      BY <1>1, <2>2, <2>5, <3>3 DEF Registered
    <3>6. Found(k)'
      BY <1>1, <2>4, <2>5, <3>1, <3>3, <3>4, <3>5 DEF Found, AtFile
    <3> QED BY <2>5, <2>8, <3>6, ScanToFound
  <2> QED BY <2>7, <2>8
<1>3. ASSUME ~Hit(k, f) PROVE Inv' /\ (StampsTell /\ FoundOK => FoundOK')
  <2> DEFINE r == [scan[k] EXCEPT !.pc = "identify", !.file = f, !.todo = @ \ {f}]
  <2>1. /\ r \in ScanState /\ r.pc = "identify" /\ r.file = f
        /\ r.todo = scan[k].todo \ {f} /\ r.found = scan[k].found
    BY <1>1 DEF ScanState
  <2>2. scan' = [scan EXCEPT ![k] = r] /\ UNCHANGED copy
    BY <1>3 DEF Lookup, Set
  <2> HIDE DEF r
  <2>3. ScanTo(k, r) /\ Unique' /\ scan'[k] = r /\ \A g \in Files : cache'[k][g] = cache[k][g]
    BY <1>1, <2>1, <2>2, ScanOnly
  <2>4. FoundOK => Found(k)'
    BY <1>1, <2>1, <2>2, <2>3 DEF FoundOK, Found, AtFile, Registered
  <2>5. At(k)'
    BY <1>1, <2>1, <2>2, <2>3 DEF At, AtFile, Identified
  <2> QED BY <2>3, <2>4, <2>5, ScanToInv, ScanToFound
<1> QED BY <1>2, <1>3

\* Every step of a scan keeps the invariants.
LEMMA ScanInv ==
  ASSUME Inv, NEW k \in Cards, ScanStep(k)
  PROVE  Inv' /\ (StampsTell /\ FoundOK => FoundOK')
BY BeginInv, LookupInv, IdentifyInv, PlaceNewInv, PlaceTakenInv, PlaceRacedInv,
   CopyRowInv, CacheRowInv, EndInv DEF ScanStep

-----------------------------------------------------------------------------
(* Cameras, and cards that come and go.                                    *)

\* A card that is out has no scan, so a camera disturbs none.
LEMMA ShootInv ==
  ASSUME Inv, NEW k \in Cards, NEW shots \in SUBSET Contents, Shoot(k, shots)
  PROVE  Inv' /\ (FoundOK => FoundOK')
<1>1. /\ card \in [Cards -> [Files -> Contents \cup {None}]]
      /\ k \notin inserted /\ sessions < MaxSessions /\ sessions' = sessions + 1
      /\ UNCHANGED <<inserted, relpath, copy, cache, scan>>
  BY DEF Inv, TypeOK, Shoot
<1>2. PICK formatted \in BOOLEAN :
        LET old == IF formatted THEN [f \in Files |-> None] ELSE card[k]
        IN card' = [card EXCEPT ![k] =
             [f \in Files |-> IF \E c \in shots : NameOf[c] = f
                              THEN CHOOSE c \in shots : NameOf[c] = f
                              ELSE old[f]]]
  BY DEF Shoot
<1> DEFINE held == [f \in Files |-> IF \E c \in shots : NameOf[c] = f
                                    THEN CHOOSE c \in shots : NameOf[c] = f
                                    ELSE IF formatted THEN None ELSE card[k][f]]
<1>3. card' = [card EXCEPT ![k] = held]
  <2>1. CASE formatted
    BY <1>2, <2>1
  <2>2. CASE ~formatted
    BY <1>2, <2>2
  <2> QED BY <2>1, <2>2
<1>4. ASSUME NEW f \in Files
      PROVE  held[f] \in Contents \cup {None} /\ (held[f] # None => NameOf[held[f]] = f)
  <2>1. CASE \E c \in shots : NameOf[c] = f
    <3>1. (CHOOSE c \in shots : NameOf[c] = f) \in shots
          /\ NameOf[CHOOSE c \in shots : NameOf[c] = f] = f
      BY <2>1
    <3> QED BY <2>1, <3>1
  <2>2. CASE ~\E c \in shots : NameOf[c] = f
    <3>1. held[f] = IF formatted THEN None ELSE card[k][f]
      BY <2>2
    <3>2. card[k][f] \in Contents \cup {None} /\ (card[k][f] # None => NameOf[card[k][f]] = f)
      BY <1>1 DEF Inv, Named
    <3> QED BY <3>1, <3>2
  <2> QED BY <2>1, <2>2
<1>5. held \in [Files -> Contents \cup {None}]
  BY <1>4
<1> HIDE DEF held
<1>6. /\ card' \in [Cards -> [Files -> Contents \cup {None}]] /\ card'[k] = held
      /\ \A j \in Cards \ {k} : card'[j] = card[j]
  BY <1>1, <1>3, <1>5
<1>7. sessions' \in 0..MaxSessions
  <2>1. sessions \in 0..MaxSessions
    BY DEF Inv, TypeOK
  <2> QED BY <1>1, <2>1, SourcesAssumption
<1>8. TypeOK'
  <2>1. /\ inserted' \subseteq Cards
        /\ relpath' \in [Contents -> RelPaths \cup {None}]
        /\ copy' \in [Contents -> [Cards -> Files \cup {None}]]
        /\ cache' \in [Cards -> [Files -> Contents \cup {None}]]
        /\ scan' \in [Cards -> ScanState]
    BY <1>1, ScanType DEF Inv, TypeOK
  <2> QED BY <1>6, <1>7, <2>1, Zenon DEF TypeOK, ScanState
<1>9. Named'
  BY <1>1, <1>4, <1>6 DEF Inv, Named
<1>10. ASSUME NEW j \in Cards PROVE At(j)' /\ (FoundOK => Found(j)')
  <2>1. CASE j = k
    <3>1. scan'[j].pc = "idle"
      BY <1>1, <2>1 DEF Inv, At
    <3> QED BY <3>1 DEF At, Found, AtFile, Identified
  <2>2. CASE j # k
    <3>1. card'[j] = card[j]
      BY <1>6, <2>2
    <3> QED BY <1>1, <3>1 DEF Inv, At, FoundOK, Found, Registered
  <2> QED BY <2>1, <2>2
<1>11. Unique' /\ CacheVouches'
  BY <1>1 DEF Inv, Unique, CacheVouches
<1> QED BY <1>8, <1>9, <1>10, <1>11 DEF Inv, FoundOK

\* A card that comes or goes, and kills its scan, keeps the invariants.
LEMMA CardInv ==
  ASSUME Inv, NEW k \in Cards, Insert(k) \/ Eject(k)
  PROVE  Inv' /\ (FoundOK => FoundOK')
<1>1. /\ UNCHANGED <<card, relpath, copy, cache, sessions>> /\ inserted' \subseteq Cards
      /\ \A j \in Cards \ {k} : j \in inserted => j \in inserted'
  BY DEF Insert, Eject, Inv, TypeOK
<1>2. /\ scan' \in [Cards -> ScanState] /\ \A j \in Cards \ {k} : scan'[j] = scan[j]
      /\ scan'[k].pc = "idle" \/ (scan' = scan /\ k \in inserted')
  <2>1. NoScan \in ScanState /\ NoScan.pc = "idle"
    BY SourcesAssumption DEF NoScan, ScanState
  <2>2. scan \in [Cards -> ScanState]
    BY ScanType DEF Inv
  <2>3. CASE Insert(k)
    BY <2>2, <2>3 DEF Insert
  <2>4. CASE Eject(k)
    BY <2>1, <2>2, <2>4 DEF Eject
  <2> QED BY <2>3, <2>4
<1>3. TypeOK'
  <2>1. /\ card' \in [Cards -> [Files -> Contents \cup {None}]]
        /\ relpath' \in [Contents -> RelPaths \cup {None}]
        /\ copy' \in [Contents -> [Cards -> Files \cup {None}]]
        /\ cache' \in [Cards -> [Files -> Contents \cup {None}]]
        /\ sessions' \in 0..MaxSessions
    BY <1>1 DEF Inv, TypeOK
  <2> QED BY <1>1, <1>2, <2>1, Zenon DEF TypeOK, ScanState
<1>4. Named' /\ Unique' /\ CacheVouches'
  BY <1>1 DEF Inv, Named, Unique, CacheVouches
<1>5. ASSUME NEW j \in Cards PROVE At(j)' /\ (FoundOK => Found(j)')
  <2>1. CASE scan'[j].pc = "idle"
    BY <2>1 DEF At, Found, AtFile, Identified
  <2>2. CASE scan'[j] = scan[j] /\ (j \in inserted => j \in inserted')
    BY <1>1, <2>2 DEF Inv, At, FoundOK, Found, Registered
  <2> QED BY <1>1, <1>2, <2>1, <2>2
<1> QED BY <1>3, <1>4, <1>5 DEF Inv, FoundOK

\* Every step keeps the invariants; scans find what is there if stamps tell files apart.
LEMMA InvStep ==
  ASSUME Inv, [Next]_vars
  PROVE  Inv' /\ (StampsTell /\ FoundOK => FoundOK')
<1>1. CASE UNCHANGED vars
  <2>1. UNCHANGED <<card, inserted, relpath, copy, cache, scan, sessions>>
    BY <1>1 DEF vars
  <2>2. TypeOK'
    BY <2>1 DEF Inv, TypeOK, ScanState
  <2>3. Named' /\ Unique' /\ CacheVouches' /\ \A k \in Cards : At(k)'
    BY <2>1 DEF Inv, Named, Unique, CacheVouches, At
  <2>4. FoundOK => FoundOK'
    BY <2>1 DEF FoundOK, Found, Registered
  <2> QED BY <2>2, <2>3, <2>4 DEF Inv
<1> QED BY <1>1, ScanInv, ShootInv, CardInv DEF Next

-----------------------------------------------------------------------------
(* The theorems.                                                           *)

\* In every reachable state each scan's progress is in the rows, every cache row has
\* its asset and copy, and no path is taken twice.
THEOREM InvariantHolds == Spec => []Inv
BY InvInit, InvStep, PTL DEF Spec

\* The types of the catalog's rows and of the scans.
THEOREM TypeCorrect == Spec => []TypeOK
<1>1. Inv => TypeOK
  BY DEF Inv
<1> QED BY <1>1, InvariantHolds, PTL

\* ScanSource and PutSourceFile: a cache entry vouches for rows that exist,
\* whenever scans die and whatever happens to the cards.
THEOREM CacheEntriesVouch == Spec => []CacheVouches
<1>1. Inv => CacheVouches
  BY DEF Inv
<1> QED BY <1>1, InvariantHolds, PTL

\* register and PutAsset: no permanent path moves and no two assets share one,
\* however many scans choose paths at once.
THEOREM PathsStay == Spec => PathsAreForever
<1> DEFINE Forever ==
      \A c \in Contents :
        /\ relpath[c] # None => relpath'[c] = relpath[c]
        /\ \A d \in Contents \ {c} : relpath'[c] # None => relpath'[c] # relpath'[d]
<1>1. Inv /\ Inv' /\ [Next]_vars => [Forever]_vars
  <2> SUFFICES ASSUME Inv, Inv', Next PROVE Forever
    OBVIOUS
  <2>1. \A c \in Contents : relpath[c] # None => relpath'[c] = relpath[c]
    <3>1. ASSUME NEW k \in Cards, PlaceNew(k)
          PROVE  \A c \in Contents : relpath[c] # None => relpath'[c] = relpath[c]
      BY <3>1 DEF PlaceNew, Inv, TypeOK
    <3>2. ASSUME NEW k \in Cards, ScanStep(k), ~PlaceNew(k)
          PROVE  UNCHANGED relpath
      BY <3>2 DEF ScanStep, Begin, Lookup, Identify, PlaceTaken, PlaceRaced,
                  CopyRow, CacheRow, End
    <3>3. ASSUME NEW k \in Cards, Insert(k) \/ Eject(k) \/ \E shots \in SUBSET Contents : Shoot(k, shots)
          PROVE  UNCHANGED relpath
      BY <3>3 DEF Insert, Eject, Shoot
    <3> QED BY <3>1, <3>2, <3>3 DEF Next
  <2>2. Unique'
    BY DEF Inv
  <2> QED BY <2>1, <2>2 DEF Unique
<1> QED BY <1>1, InvariantHolds, PTL DEF Spec, PathsAreForever

\* ScanSource, when the stamps tell files of one name apart: the report of a
\* finished scan is what the card holds, and every asset of it has its path and
\* a copy row that leads to its bytes.
THEOREM ReportsAreTrue == ASSUME StampsTell PROVE Spec => []ScanIsTrue
<1>1. Init => Inv /\ FoundOK
  BY InvInit
<1>2. Inv /\ FoundOK /\ [Next]_vars => (Inv /\ FoundOK)'
  BY InvStep
<1>3. Inv /\ FoundOK => ScanIsTrue
  <2> SUFFICES ASSUME Inv, FoundOK, NEW k \in Cards, scan[k].pc = "done"
               PROVE  /\ scan[k].found = On(k)
                      /\ \A c \in On(k) : /\ relpath[c] # None
                                          /\ copy[c][k] # None /\ card[k][copy[c][k]] = c
    BY DEF ScanIsTrue
  <2>1. /\ \A c \in scan[k].found : Registered(k, c)
        /\ \A f \in Files : card[k][f] # None => card[k][f] \in scan[k].found
    BY DEF FoundOK, Found, AtFile
  <2>2. \A c \in scan[k].found : c \in On(k) /\ copy[c][k] # None
    BY <2>1, SourcesAssumption DEF Registered, On
  <2>3. On(k) \subseteq scan[k].found
    BY <2>1 DEF On
  <2>4. scan[k].found = On(k)
    BY <2>2, <2>3
  <2> QED BY <2>1, <2>2, <2>4 DEF Registered
<1> QED BY <1>1, <1>2, <1>3, PTL DEF Spec
=============================================================================
