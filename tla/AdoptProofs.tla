---------------------------- MODULE AdoptProofs ----------------------------
(***************************************************************************)
(* Theorems about Adopt for every library, every set of cards and any      *)
(* number of runs that die, in either mode.  The argument: a file is under *)
(* a name its own content can get, so that nothing but the content a path  *)
(* was promised to is ever at that path; rows, renames and archives then   *)
(* cannot meet at one path for two contents.                               *)
(***************************************************************************)
EXTENDS Adopt, FiniteSetTheorems, WellFoundedInduction, TLAPS

(* What the names have to be like.  AdoptSameName.cfg does without.        *)

\* No card has a file of another content with the camera's name of a library's
\* file and a day that this one is or gets filed under.
CardsApart ==
  \A c \in OnCard, p \in DOMAIN Library :
    Library[p] # c /\ p.name[1] = CardName[c][1]
      => CaptureDay[c] \notin {p.dir, DayOf(p, Library[p])}

\* Extensions keep stills and clips apart, and no camera writes the earlier
\* importer's stamp.
KindsApart ==
  /\ \A c, d \in OnCard : CardName[c][1] = CardName[d][1] => (c \in Stills <=> d \in Stills)
  /\ \A c \in OnCard : ~ (Len(CardName[c]) > 1 /\ Last(CardName[c]) = Legacy)

\* A file with a companion beside it is not renamed away from a path that a file
\* of another content may be renamed to.
BesideApart ==
  \A p \in Beside, q \in DOMAIN Library :
    Library[q] # Library[p] /\ q.name[1] = p.name[1] /\ p.dir = DayOf(q, Library[q])
      => Library[p] \notin OnCard /\ Layout(p, Library[p]) = p

NamesApart == CardsApart /\ KindsApart /\ BesideApart

-----------------------------------------------------------------------------
(* The inductive invariant.                                                *)

Working == {"rename", "move", "asset", "copy"}
Renaming == {"rename", "move"}
Moving == {"cmove", "crow"}

AdoptState ==
  [pc : Working \cup {"idle", "originals", "companions", "cmove", "crow",
                      "done", "owned", "failed"},
   mode : Modes, todo : SUBSET Path, ctodo : SUBSET Path, seen : SUBSET Contents,
   claimed : SUBSET Path, planned : {ad.planned}, from : PathOrNone,
   to : PathOrNone, id : Contents \cup {None}, rel : PathOrNone]

Types ==
  /\ TypeOK
  /\ ad \in AdoptState
  /\ \A p \in DOMAIN ad.planned : ad.planned[p] \in Contents

\* The names that content d has in the library or may be renamed to.
LibraryName(q, d) ==
  \E p \in DOMAIN Library :
    /\ Library[p] = d /\ q.name[1] = p.name[1]
    /\ q = p \/ q.dir = DayOf(p, d)

CardNamed(q, c) == c \in OnCard /\ \E n \in 0..(Suffixes - 1) : q = CardPath(c, n)

\* Two assets never share a path, and each has one that its content can get.
Paths ==
  /\ \A c \in Contents : \A d \in Contents \ {c} :
       relpath[c] # None => relpath[c] # relpath[d]
  /\ \A c \in Contents :
       relpath[c] # None => LibraryName(relpath[c], c) \/ CardNamed(relpath[c], c)

\* Every file is under such a name, and at the path of an asset is only its content.
Files ==
  /\ \A q \in DOMAIN fs : LibraryName(q, fs[q]) \/ relpath[fs[q]] = q
  /\ \A c \in Contents : relpath[c] \in DOMAIN fs => fs[relpath[c]] = c
  /\ \A c \in Contents \ OnCard : relpath[c] # None => relpath[c] \in DOMAIN fs

\* A file of the library is where it was, or was renamed to a better name.
Left ==
  \A p \in DOMAIN Library :
    \/ p \in DOMAIN fs /\ fs[p] = Library[p]
    \/ /\ relpath[Library[p]] # p
       /\ relpath[Library[p]] = None \/ Library[p] \notin OnCard
            => Layout(p, Library[p]) # p

\* Nothing else comes to a path with a companion beside it.
Besides ==
  /\ \A q \in Beside \cap DOMAIN fs : fs[q] = Library[q]
  /\ \A q \in DOMAIN comp :
       \/ q \in Beside /\ Library[q] = comp[q].of
       \/ relpath[comp[q].of] = q

\* The companion at a content's path is its own.
Pairs ==
  \A c \in Contents : relpath[c] \in DOMAIN comp => comp[relpath[c]].of = c

Rows ==
  /\ CopiesLead
  /\ \A c \in Contents : copy[c] # None => relpath[c] # None

\* What an archive relies on after its look.
Archives ==
  \A c \in Contents :
    /\ arch[c] # "none" => relpath[c] # None
    /\ arch[c] = "row" => relpath[c] \in DOMAIN fs
    /\ arch[c] = "proxy" => copy[c] # None /\ (relpath[c] \in DOMAIN comp => c \in crossed)
    /\ arch[c] = "proxyRow" => relpath[c] \in DOMAIN comp

\* The file that the run is at, from the choice of its name to its last row.
AtFile ==
  ad.pc \in Working =>
    /\ ad.id \in Contents /\ ad.from \in Path /\ ad.to \in Path /\ ad.rel \in Path
    /\ \A d \in Contents \ {ad.id} : relpath[d] # ad.to
    /\ LibraryName(ad.to, ad.id) \/ relpath[ad.id] = ad.to
    /\ ad.rel = ad.to \/ (ad.mode = "in-place" /\ relpath[ad.id] = ad.rel)
    /\ ad.from \in ad.ctodo => comp[ad.from].of = ad.id

AtRename ==
  /\ ad.pc \in Renaming =>
       /\ ad.from # ad.to /\ ad.rel = ad.to /\ ad.mode = "migrate"
       /\ ad.from \in DOMAIN fs /\ fs[ad.from] = ad.id
       /\ relpath[ad.id] # ad.from
       /\ ad.id \notin OnCard => relpath[ad.id] \in {None, ad.to}
       /\ relpath[ad.id] = None => Layout(ad.from, ad.id) # ad.from
       /\ copy[ad.id] = None \/ copy[ad.id] = relpath[ad.id]
  /\ ad.pc = "move" =>
       /\ ad.to \in DOMAIN fs => fs[ad.to] = ad.id
       /\ ad.id \notin OnCard => relpath[ad.id] = None

AtRows ==
  /\ ad.pc \in {"asset", "copy"} => ad.to \in DOMAIN fs /\ fs[ad.to] = ad.id
  /\ ad.pc = "copy" => relpath[ad.id] = ad.rel

\* The companion that the run is at: nothing is where it goes but what an archive
\* that was on its way put there.
AtCompanion ==
  /\ ad.pc \in Moving =>
       /\ ad.id \in Contents /\ ad.to \in Path
       /\ ad.mode = "migrate" /\ ad.to = relpath[ad.id] /\ copy[ad.id] # None
  /\ ad.pc = "cmove" =>
       /\ ad.from \in DOMAIN comp /\ comp[ad.from].of = ad.id /\ ad.from # ad.to
       /\ ad.to \in DOMAIN comp \/ arch[ad.id] = "proxy" => ad.id \in crossed
  /\ ad.pc = "crow" => ad.to \in DOMAIN comp

\* What the run has met, and the companions ahead of it.
Progress ==
  /\ ad.ctodo \subseteq DOMAIN comp
  /\ \A p \in DOMAIN ad.planned : copy[ad.planned[p]] # None
  /\ \A p \in DOMAIN ad.planned \cap ad.ctodo : comp[p].of = ad.planned[p]
  /\ \A c \in ad.seen : copy[c] # None \/ (ad.pc \in Working /\ ad.id = c)

Inv == /\ Types /\ Paths /\ Files /\ Left /\ Besides /\ Pairs /\ Rows /\ Archives
       /\ AtFile /\ AtRename /\ AtRows /\ AtCompanion /\ Progress

\* With one mode for all runs: where rows and companions are.
InPlaceRows ==
  ad.mode = "in-place" =>
    /\ ad.pc \notin Renaming /\ DOMAIN Library \subseteq DOMAIN fs
    /\ \A q \in DOMAIN comp : comp[q].was # None => q \in DOMAIN fs

MigrateRows ==
  ad.mode = "migrate" =>
    /\ \A c \in Contents : copy[c] # None => copy[c] = relpath[c]
    /\ \A c \in Contents : compRow[c] # None => compRow[c] = relpath[c]
    /\ \A q \in DOMAIN comp : relpath[comp[q].of] = q => q \in DOMAIN fs

\* A companion that the run is through with is at its asset's path, or had no
\* original beside it.
Through ==
  /\ ad.pc = "done" => ad.ctodo = {}
  /\ ad.mode = "migrate" /\ ad.pc \notin {"idle", "failed", "owned"} =>
       \A q \in DOMAIN comp \ ad.ctodo :
         \/ relpath[comp[q].of] = q
         \/ ad.pc \in Moving \cup {"companions", "done"} /\ q \notin DOMAIN ad.planned

FollowInv == InPlaceRows /\ MigrateRows /\ Through /\ CompanionsLead

-----------------------------------------------------------------------------
(* Names.                                                                  *)

\* A nonempty set of naturals has a least element.
LEMMA LeastOf ==
  ASSUME NEW T \in SUBSET Nat, T # {}
  PROVE  \E x \in T : \A y \in T : x <= y
<1> DEFINE F == {0 .. x : x \in T}
<1>1. F \subseteq FiniteSubsetsOf(Nat)
  <2> SUFFICES ASSUME NEW x \in T PROVE 0 .. x \in FiniteSubsetsOf(Nat)
    OBVIOUS
  <2>1. IsFiniteSet(0 .. x)
    BY FS_Interval
  <2> QED BY <2>1 DEF FiniteSubsetsOf
<1>2. F # {}
  OBVIOUS
<1>3. \A x, y \in T : y < x => <<0 .. y, 0 .. x>> \in StrictSubsetOrdering(Nat)
  <2> SUFFICES ASSUME NEW x \in T, NEW y \in T, y < x
               PROVE  <<0 .. y, 0 .. x>> \in StrictSubsetOrdering(Nat)
    OBVIOUS
  <2>1. 0 .. y \subseteq 0 .. x /\ x \in 0 .. x /\ x \notin 0 .. y
    OBVIOUS
  <2>2. 0 .. y \subseteq Nat /\ 0 .. x \subseteq Nat
    OBVIOUS
  <2>3. 0 .. y # 0 .. x
    BY <2>1
  <2> QED BY <2>1, <2>2, <2>3 DEF StrictSubsetOrdering
<1> HIDE DEF F
<1>4. \E u \in F : \A v \in F : ~ (<<v, u>> \in StrictSubsetOrdering(Nat))
  BY <1>1, <1>2, WFMin, FS_StrictSubsetOrderingWellFounded
<1>5. PICK x \in T : \A y \in T : ~ (<<0 .. y, 0 .. x>> \in StrictSubsetOrdering(Nat))
  BY <1>4 DEF F
<1>6. \A y \in T : ~ (y < x)
  BY <1>3, <1>5
<1> QED BY <1>6

\* What a path is made of.
LEMMA PathFacts ==
  ASSUME NEW p \in Path
  PROVE  /\ p.dir \in Dirs /\ p.name \in Seq(Parts) /\ p.name # <<>>
         /\ Len(p.name) \in Nat \ {0} /\ p = PathOf(p.dir, p.name)
BY DEF Path, PathOf

\* A directory and a name make a path.
LEMMA NewPath ==
  ASSUME NEW d \in Dirs, NEW s \in Seq(Parts), s # <<>>
  PROVE  PathOf(d, s) \in Path
BY DEF Path, PathOf

\* Everything that makes a name keeps its first part, the camera's.
LEMMA FileNameKeeps ==
  ASSUME NEW s \in Seq(Parts), s # <<>>, NEW c \in Contents, NEW sparse \in BOOLEAN
  PROVE  /\ FileName(s, c, sparse) \in Seq(Parts) \ {<<>>}
         /\ FileName(s, c, sparse)[1] = s[1]
<1>1. c \in Parts
  BY AdoptAssumption
<1> QED BY <1>1 DEF FileName

\* A suffix changes neither the directory nor the first part.
LEMMA SuffixKeeps ==
  ASSUME NEW p \in Path, NEW n \in 0..(Suffixes - 1)
  PROVE  /\ WithSuffix(p, n) \in Path
         /\ WithSuffix(p, n).dir = p.dir /\ WithSuffix(p, n).name[1] = p.name[1]
<1>1. n # 0 => n \in Parts
  BY AdoptAssumption
<1>2. CASE n = 0
  BY <1>2 DEF WithSuffix
<1>3. CASE n # 0
  <2>1. WithSuffix(p, n) = PathOf(p.dir, Append(p.name, n))
    BY <1>3 DEF WithSuffix, PathOf, Path
  <2>2. Append(p.name, n) \in Seq(Parts) /\ Append(p.name, n) # <<>>
        /\ Append(p.name, n)[1] = p.name[1]
    BY <1>1, <1>3, PathFacts
  <2> QED BY <2>1, <2>2, NewPath, PathFacts DEF PathOf
<1> QED BY <1>2, <1>3

\* The day of a file is one that its directory, when it is put there, has too.
LEMMA DayFacts ==
  ASSUME NEW p \in Path, NEW c \in Contents
  PROVE  DayOf(p, c) \in Dirs /\ DirDay[DayOf(p, c)] = DayOf(p, c)
BY PathFacts, AdoptAssumption DEF DayOf

\* A migration changes the directory to the day, and keeps the first part.
LEMMA LayoutKeeps ==
  ASSUME NEW p \in Path, NEW c \in Contents
  PROVE  /\ Layout(p, c) \in Path
         /\ Layout(p, c).dir = DayOf(p, c) /\ Layout(p, c).name[1] = p.name[1]
<1>1. OrigName(p) \in Seq(Parts) /\ OrigName(p) # <<>> /\ OrigName(p)[1] = p.name[1]
  <2> DEFINE s == p.name
  <2>1. s \in Seq(Parts) /\ s # <<>> /\ Len(s) \in Nat \ {0}
    BY PathFacts
  <2>2. OrigName(p) = s \/ (Len(s) > 1 /\ OrigName(p) = SubSeq(s, 1, Len(s) - 1))
    BY DEF OrigName, IsLegacy
  <2> HIDE DEF s
  <2>3. Len(s) > 1 => /\ SubSeq(s, 1, Len(s) - 1) \in Seq(Parts)
                      /\ Len(SubSeq(s, 1, Len(s) - 1)) = Len(s) - 1
                      /\ SubSeq(s, 1, Len(s) - 1)[1] = s[1]
    BY <2>1
  <2>4. OrigName(p) \in Seq(Parts) /\ OrigName(p) # <<>> /\ OrigName(p)[1] = s[1]
    BY <2>1, <2>2, <2>3
  <2> QED BY <2>4 DEF s
<1>2. /\ FileName(OrigName(p), c, c \notin Stills) \in Seq(Parts) \ {<<>>}
      /\ FileName(OrigName(p), c, c \notin Stills)[1] = p.name[1]
  BY <1>1, FileNameKeeps
<1> QED BY <1>2, NewPath, DayFacts DEF Layout, DatePath, PathOf

\* What a card gives is filed under the day of capture.
LEMMA CardPathKeeps ==
  ASSUME NEW c \in OnCard, NEW n \in 0..(Suffixes - 1)
  PROVE  /\ CardPath(c, n) \in Path
         /\ CardPath(c, n).dir = CaptureDay[c]
         /\ CardPath(c, n).name[1] = CardName[c][1]
<1>1. c \in Contents /\ CardName[c] \in Seq(Parts) /\ CardName[c] # <<>>
  BY AdoptAssumption
<1> DEFINE p == DatePath(CaptureDay[c], CardName[c], c, c \notin Stills)
<1>2. p \in Path /\ p.dir = CaptureDay[c] /\ p.name[1] = CardName[c][1]
  BY <1>1, FileNameKeeps, NewPath, AdoptAssumption DEF DatePath, PathOf
<1> HIDE DEF p
<1>3. CardPath(c, n) = WithSuffix(p, n)
  BY DEF p, CardPath
<1> QED BY <1>2, <1>3, SuffixKeeps

\* A file stays under the names of its content when it is renamed.
LEMMA LibraryNameKept ==
  ASSUME NEW q \in Path, NEW d \in Contents, LibraryName(q, d),
         NEW n \in 0..(Suffixes - 1)
  PROVE  LibraryName(WithSuffix(Layout(q, d), n), d)
<1> DEFINE r == WithSuffix(Layout(q, d), n)
<1>1. r.dir = DayOf(q, d) /\ r.name[1] = q.name[1]
  BY LayoutKeeps, SuffixKeeps
<1> HIDE DEF r
<1>2. PICK p \in DOMAIN Library : Library[p] = d /\ q.name[1] = p.name[1]
                                  /\ (q = p \/ q.dir = DayOf(p, d))
  BY DEF LibraryName
<1>3. p \in Path
  BY AdoptAssumption
<1>4. DayOf(q, d) = DayOf(p, d)
  <2>1. CASE q = p
    BY <2>1
  <2>2. CASE q.dir = DayOf(p, d)
    <3>1. DayOf(p, d) \in Dirs /\ DirDay[DayOf(p, d)] = DayOf(p, d)
      BY <1>3, DayFacts
    <3> QED BY <2>2, <3>1, AdoptAssumption DEF DayOf
  <2> QED BY <1>2, <2>1, <2>2
<1>5. LibraryName(r, d)
  BY <1>1, <1>2, <1>4 DEF LibraryName
<1> QED BY <1>5 DEF r

\* A card's name is never one of a library's file of another content.
LEMMA CardApart ==
  ASSUME CardsApart, NEW c \in OnCard, NEW n \in 0..(Suffixes - 1),
         NEW d \in Contents, d # c
  PROVE  ~ LibraryName(CardPath(c, n), d)
<1> SUFFICES ASSUME NEW p \in DOMAIN Library, Library[p] = d,
                    CardPath(c, n).name[1] = p.name[1],
                    CardPath(c, n).dir = p.dir \/ CardPath(c, n).dir = DayOf(p, d)
             PROVE  FALSE
  BY DEF LibraryName
<1> QED BY CardPathKeeps DEF CardsApart

\* A name that a card gives is one that a migration would give.
LEMMA CardPathIsLayout ==
  ASSUME KindsApart, NEW c \in OnCard, NEW n \in 0..(Suffixes - 1),
         c \in Stills \/ n = 0
  PROVE  Layout(CardPath(c, n), c) = CardPath(c, n)
<1>0. /\ c \in Contents /\ c \in Parts /\ CardName[c] \in Seq(Parts) /\ CardName[c] # <<>>
      /\ c # Legacy /\ n # Legacy
      /\ ~ (Len(CardName[c]) > 1 /\ CardName[c][Len(CardName[c])] = Legacy)
  BY AdoptAssumption DEF KindsApart, Last
<1> DEFINE q == CardPath(c, n)
           s == FileName(CardName[c], c, c \notin Stills)
<1>1. q \in Path /\ q.dir = CaptureDay[c]
  BY CardPathKeeps
<1>2. DayOf(q, c) = q.dir
  BY <1>0, <1>1, AdoptAssumption DEF DayOf
<1>3. q.name = IF n = 0 THEN s ELSE Append(s, n)
  BY DEF CardPath, DatePath, WithSuffix, PathOf
<1>4. s \in Seq(Parts) /\ s # <<>>
  BY <1>0, FileNameKeeps
<1>5. ~ IsLegacy(q)
  <2>1. ~ (Len(s) > 1 /\ s[Len(s)] = Legacy)
    BY <1>0 DEF FileName, Carries, Last
  <2> QED BY <1>0, <1>3, <1>4, <2>1 DEF IsLegacy, Last
<1>6. FileName(q.name, c, c \notin Stills) = q.name
  <2>1. CASE c \in Stills
    BY <2>1 DEF FileName
  <2>2. CASE c \notin Stills
    <3>1. q.name = s
      BY <1>3, <2>2
    <3>2. Carries(s, c)
      BY <1>0, <2>2 DEF FileName, Carries, Last
    <3> QED BY <3>1, <3>2 DEF FileName
  <2> QED BY <2>1, <2>2
<1>7. Layout(q, c) = PathOf(q.dir, q.name)
  BY <1>2, <1>5, <1>6 DEF Layout, DatePath, OrigName
<1>8. Layout(q, c) = q
  BY <1>1, <1>7, PathFacts
<1> QED BY <1>8

\* The name that a migration chooses, when the content has none yet.
LEMMA MigrateChoice ==
  ASSUME NEW p \in Path, NEW c \in Contents, relpath[c] = None,
         NEW r, r = MigratePath(p, c), r # None
  PROVE  /\ \E n \in 0..(Suffixes - 1) : r = WithSuffix(Layout(p, c), n)
         /\ Free(r, p, c)
         /\ r # p => Layout(p, c) # p
<1> DEFINE free == {n \in 0..(Suffixes - 1) : Free(WithSuffix(Layout(p, c), n), p, c)}
           least == CHOOSE n \in free : \A m \in free : n <= m
<1>1. free # {} /\ r = WithSuffix(Layout(p, c), least)
  BY DEF MigratePath
<1>2. free \in SUBSET Nat
  OBVIOUS
<1>3. \A n \in free : n \in 0..(Suffixes - 1) /\ Free(WithSuffix(Layout(p, c), n), p, c)
  OBVIOUS
<1>4. Layout(p, c) = p => 0 \in free /\ WithSuffix(p, 0) = p
  BY AdoptAssumption DEF Free, WithSuffix
<1> HIDE DEF free
<1>5. \E n \in free : \A m \in free : n <= m
  BY <1>1, <1>2, LeastOf
<1>6. least \in free /\ \A m \in free : least <= m
  BY <1>5
<1> HIDE DEF least
<1>7. Layout(p, c) = p => least = 0
  BY <1>2, <1>4, <1>6
<1> QED BY <1>1, <1>3, <1>4, <1>6, <1>7

-----------------------------------------------------------------------------
(* Types, and steps that move nothing.                                     *)

\* An untouched library satisfies the invariant.
LEMMA InvInit == Init => Inv
<1> SUFFICES ASSUME Init PROVE Inv
  OBVIOUS
<1>1. PICK mode \in Modes : ad = NoRun(mode)
  BY DEF Init
<1>2. /\ ad.pc = "idle" /\ ad.mode = mode /\ ad.todo = {} /\ ad.ctodo = {}
      /\ ad.seen = {} /\ ad.claimed = {} /\ DOMAIN ad.planned = {}
      /\ ad \in AdoptState
  BY <1>1 DEF NoRun, AdoptState, PathOrNone
<1>3. /\ \A c \in Contents : relpath[c] = None /\ copy[c] = None /\ compRow[c] = None
      /\ fs = Library /\ arch = [c \in Contents |-> "none"] /\ crossed = {} /\ faults = 0
      /\ DOMAIN comp = Beside
      /\ \A p \in Beside : comp[p] = [of |-> Library[p], was |-> p]
  BY DEF Init
<1>4. /\ relpath \in [Contents -> PathOrNone] /\ copy \in [Contents -> PathOrNone]
      /\ compRow \in [Contents -> PathOrNone]
  BY DEF Init, PathOrNone
<1>5. Types
  <2>1. \A p \in DOMAIN comp : comp[p] \in Companions
    BY <1>3, AdoptAssumption DEF Companions, PathOrNone
  <2>2. /\ DOMAIN fs \subseteq Path /\ \A p \in DOMAIN fs : fs[p] \in Contents
        /\ DOMAIN comp \subseteq Path /\ faults \in 0..MaxFaults
        /\ arch \in [Contents -> {"none", "copy", "row", "proxy", "proxyRow"}]
        /\ crossed \subseteq Contents
    BY <1>3, AdoptAssumption
  <2> QED BY <1>2, <1>4, <2>1, <2>2 DEF Types, TypeOK, AdoptState, Working, PathOrNone
<1>6. Paths /\ Rows /\ Archives
  BY <1>3 DEF Paths, Rows, CopiesLead, Archives
<1>7. Files
  <2>1. \A c \in Contents : relpath[c] \notin DOMAIN fs
    BY <1>3, AdoptAssumption
  <2>2. \A q \in DOMAIN fs : LibraryName(q, fs[q])
    BY <1>3 DEF LibraryName
  <2> QED BY <1>3, <2>1, <2>2 DEF Files
<1>8. Left /\ Besides /\ Pairs
  <2>1. \A q \in DOMAIN comp : q # None
    BY <1>3, AdoptAssumption
  <2> QED BY <1>3, <2>1 DEF Left, Besides, Pairs
<1>9. AtFile /\ AtRename /\ AtRows /\ AtCompanion /\ Progress
  BY <1>2 DEF AtFile, AtRename, AtRows, AtCompanion, Progress, Working, Renaming, Moving
<1> QED BY <1>5, <1>6, <1>7, <1>8, <1>9 DEF Inv

\* What is on the NAS and in the rows does not depend on where the run is.
LEMMA WorldKept ==
  ASSUME Inv, UNCHANGED <<fs, comp, relpath, copy, compRow, arch, crossed>>
  PROVE  Paths' /\ Files' /\ Left' /\ Besides' /\ Pairs' /\ Rows' /\ Archives'
<1>1. Paths'
  BY DEF Inv, Paths
<1>2. Files'
  BY DEF Inv, Files
<1>3. Left'
  BY DEF Inv, Left
<1>4. Besides'
  BY DEF Inv, Besides
<1>5. Rows'
  BY DEF Inv, Rows, CopiesLead
<1>6. Pairs' /\ Archives'
  BY DEF Inv, Pairs, Archives
<1> QED BY <1>1, <1>2, <1>3, <1>4, <1>5, <1>6

\* The types of all but the run.
LEMMA TypesKept ==
  ASSUME Inv, ad' \in AdoptState', UNCHANGED <<fs, comp, relpath, copy, compRow, arch, crossed>>,
         faults' \in 0..MaxFaults,
         DOMAIN ad'.planned \subseteq Path,
         \A p \in DOMAIN ad'.planned : ad'.planned[p] \in Contents
  PROVE  Types'
BY DEF Inv, Types, TypeOK, AdoptState, Working

\* A run that is at no file and only has less to do, or nothing.
LEMMA Idling ==
  ASSUME Inv, UNCHANGED <<fs, comp, relpath, copy, compRow, arch, crossed>>, faults' \in 0..MaxFaults,
         ad' \in AdoptState', ad'.pc \notin Working \cup Moving,
         ad'.ctodo \subseteq DOMAIN comp,
         ad'.planned = ad.planned \/ DOMAIN ad'.planned = {},
         ad'.ctodo \subseteq ad.ctodo \/ DOMAIN ad'.planned = {},
         ad'.seen = {} \/ (ad'.seen = ad.seen /\ ad.pc \notin Working)
  PROVE  Inv'
<1>1. Types'
  <2>1. DOMAIN ad'.planned \subseteq Path
        /\ \A p \in DOMAIN ad'.planned : ad'.planned[p] \in Contents
    BY DEF Inv, Types, TypeOK
  <2> QED BY <2>1, TypesKept
<1>2. AtFile' /\ AtRename' /\ AtRows' /\ AtCompanion'
  BY DEF AtFile, AtRename, AtRows, AtCompanion, Working, Renaming, Moving
<1>3. Progress'
  BY DEF Inv, Progress
<1> QED BY <1>1, <1>2, <1>3, WorldKept DEF Inv

\* What is left of a run that stopped.
LEMMA StoppedState ==
  ASSUME NEW pc \in {"idle", "owned", "failed"}
  PROVE  /\ Stopped(pc).pc = pc /\ Stopped(pc).ctodo = {} /\ Stopped(pc).seen = {}
         /\ DOMAIN Stopped(pc).planned = {} /\ Stopped(pc).mode = ad.mode
         /\ Types /\ ad' = Stopped(pc) => ad' \in AdoptState'
BY DEF Stopped, NoRun, AdoptState, PathOrNone, Types

\* A run that stops.
LEMMA StopKeeps ==
  ASSUME Inv, UNCHANGED <<fs, comp, relpath, copy, compRow, arch, crossed>>,
         faults' \in 0..MaxFaults,
         NEW pc \in {"idle", "owned", "failed"}, ad' = Stopped(pc)
  PROVE  Inv'
<1>1. /\ ad'.pc = pc /\ ad'.ctodo = {} /\ ad'.seen = {} /\ DOMAIN ad'.planned = {}
      /\ ad' \in AdoptState'
  BY StoppedState DEF Inv
<1>2. ad'.pc \notin Working \cup Moving /\ ad'.ctodo \subseteq DOMAIN comp
  BY <1>1 DEF Working, Moving
<1> QED BY <1>1, <1>2, Idling

\* A run that starts.
LEMMA BeginKeeps ==
  ASSUME Inv, NEW mode \in Modes, Begin(mode)
  PROVE  Inv'
<1>1. ad' = [NoRun(mode) EXCEPT !.pc = "originals", !.todo = DOMAIN fs, !.ctodo = DOMAIN comp]
      /\ UNCHANGED <<fs, comp, relpath, copy, compRow, arch, crossed, faults>>
  BY DEF Begin
<1>2. /\ ad' = [pc |-> "originals", mode |-> mode, todo |-> DOMAIN fs,
                ctodo |-> DOMAIN comp, seen |-> {}, claimed |-> {}, planned |-> <<>>,
                from |-> None, to |-> None, id |-> None, rel |-> None]
      /\ DOMAIN fs \subseteq Path /\ DOMAIN comp \subseteq Path
  BY <1>1 DEF NoRun, Inv, Types, TypeOK
<1>3. /\ ad'.pc = "originals" /\ ad'.ctodo = DOMAIN comp /\ ad'.seen = {}
      /\ DOMAIN ad'.planned = {}
      /\ ad' \in AdoptState'
  BY <1>2 DEF AdoptState, PathOrNone
<1>4. faults' \in 0..MaxFaults
  BY <1>1 DEF Inv, Types, TypeOK
<1>5. ad'.pc \notin Working \cup Moving
  BY <1>3 DEF Working, Moving
<1> QED BY <1>1, <1>3, <1>4, <1>5, Idling

\* A run that dies.
LEMMA CrashKeeps == Inv /\ Crash => Inv'
<1> SUFFICES ASSUME Inv, Crash PROVE Inv'
  OBVIOUS
<1>1. faults' \in 0..MaxFaults
  BY AdoptAssumption DEF Crash, Inv, Types, TypeOK
<1> QED BY <1>1, StopKeeps DEF Crash

\* A file whose content was met, the end of a pass, a companion without an original.
LEMMA PassKeeps ==
  ASSUME Inv, NEW p, Duplicate(p) \/ CompanionsBegin \/ Orphan(p) \/ End
  PROVE  Inv'
<1>1. /\ ad.pc \in {"originals", "companions"}
      /\ UNCHANGED <<fs, comp, relpath, copy, compRow, arch, crossed, faults>>
      /\ \/ ad' = [ad EXCEPT !.todo = @ \ {p}]
         \/ ad' = [ad EXCEPT !.pc = "companions"]
         \/ ad' = [ad EXCEPT !.ctodo = @ \ {p}]
         \/ ad' = [ad EXCEPT !.pc = "done"]
  BY DEF Duplicate, IsNext, CompanionsBegin, Orphan, End
<1>2. ad \in AdoptState
  BY DEF Inv, Types
<1>3. /\ ad'.pc \in {"originals", "companions", "done"} /\ ad'.ctodo \subseteq ad.ctodo
      /\ ad'.planned = ad.planned /\ ad'.seen = ad.seen /\ ad' \in AdoptState'
  BY <1>1, <1>2 DEF AdoptState
<1>4. ad.pc \notin Working /\ ad'.pc \notin Working \cup Moving /\ faults' \in 0..MaxFaults
  BY <1>1, <1>3 DEF Working, Moving, Inv, Types, TypeOK
<1>5. ad'.ctodo \subseteq DOMAIN comp
  BY <1>3 DEF Inv, Progress
<1> QED BY <1>1, <1>3, <1>4, <1>5, Idling

-----------------------------------------------------------------------------
(* The originals, up to the choice of a name.                              *)

\* A companion beside a file is its content's.
LEMMA BesideFound ==
  ASSUME Inv, NEW p \in DOMAIN fs, p \in DOMAIN comp
  PROVE  comp[p].of = fs[p]
<1>1. comp[p].of \in Contents /\ p \in Path
  BY DEF Inv, Types, TypeOK, Companions
<1>2. CASE p \in Beside /\ Library[p] = comp[p].of
  BY <1>2 DEF Inv, Besides
<1>3. CASE relpath[comp[p].of] = p
  BY <1>1, <1>3 DEF Inv, Files
<1> QED BY <1>2, <1>3 DEF Inv, Besides

\* A file that has its rows from an earlier run.
LEMMA KnownKeeps ==
  ASSUME Inv, NEW p \in ad.todo, Known(p)
  PROVE  Inv'
<1> DEFINE c == fs[p]
<1>1. /\ ad.pc = "originals" /\ p \in DOMAIN fs /\ copy[c] # None
      /\ ad' = [ad EXCEPT !.todo = @ \ {p}, !.seen = @ \cup {c}, !.planned = Plan(p, c)]
      /\ UNCHANGED <<fs, comp, relpath, copy, compRow, arch, crossed, faults>>
  BY DEF Known, IsNext
<1>2. c \in Contents /\ p \in Path
  BY <1>1 DEF Inv, Types, TypeOK
<1>3. p \in ad.ctodo => comp[p].of = c
  BY <1>1, BesideFound DEF Inv, Progress
<1> HIDE DEF c
<1>4. /\ ad'.pc = "originals" /\ ad'.ctodo = ad.ctodo /\ ad'.seen = ad.seen \cup {c}
      /\ ad'.planned = Plan(p, c) /\ ad' \in AdoptState'
  BY <1>1, <1>2 DEF AdoptState, Inv, Types
<1>5. /\ DOMAIN ad'.planned = DOMAIN ad.planned \cup {p}
      /\ \A q \in DOMAIN ad'.planned :
           ad'.planned[q] = IF q = p THEN c ELSE ad.planned[q]
  BY <1>4 DEF Plan
<1>6. Types'
  <2>1. faults' \in 0..MaxFaults /\ DOMAIN ad.planned \subseteq Path
    BY <1>1 DEF Inv, Types, TypeOK
  <2>2. \A q \in DOMAIN ad'.planned : ad'.planned[q] \in Contents
    BY <1>2, <1>5 DEF Inv, Types
  <2> QED BY <1>1, <1>2, <1>4, <1>5, <2>1, <2>2, TypesKept
<1>7. AtFile' /\ AtRename' /\ AtRows' /\ AtCompanion'
  BY <1>4 DEF AtFile, AtRename, AtRows, AtCompanion, Working, Renaming, Moving
<1>8. Progress'
  <2>1. ad.pc \notin Working
    BY <1>1 DEF Working
  <2> QED BY <1>1, <1>3, <1>4, <1>5, <2>1 DEF Inv, Progress
<1> QED BY <1>1, <1>6, <1>7, <1>8, WorldKept DEF Inv

\* Taking up a file: what has to be shown of it.
LEMMA TakenUp ==
  ASSUME Inv, NEW p \in Path, p \in DOMAIN fs, NEW to \in Path, NEW rel \in Path,
         NEW pc \in {"rename", "asset"}, ad.pc = "originals",
         UNCHANGED <<fs, comp, relpath, copy, compRow, arch, crossed, faults>>,
         NEW c, c = fs[p],
         ad' = [ad EXCEPT !.todo = @ \ {p}, !.seen = @ \cup {c}, !.pc = pc, !.from = p,
                          !.to = to, !.id = c, !.rel = rel, !.claimed = @ \cup {to}],
         copy[c] = None,
         \A d \in Contents \ {c} : relpath[d] # to,
         LibraryName(to, c) \/ relpath[c] = to,
         rel = to \/ (ad.mode = "in-place" /\ relpath[c] = rel),
         pc = "asset" => to = p,
         pc = "rename" => /\ p # to /\ rel = to /\ ad.mode = "migrate" /\ relpath[c] # p
                          /\ relpath[c] \in {None, to}
                          /\ relpath[c] = None => Layout(p, c) # p
  PROVE  Inv'
<1>1. c \in Contents /\ ad \in AdoptState
  BY DEF Inv, Types, TypeOK
<1>2. /\ ad'.pc = pc /\ ad'.mode = ad.mode /\ ad'.ctodo = ad.ctodo
      /\ ad'.seen = ad.seen \cup {c} /\ ad'.planned = ad.planned
      /\ ad'.from = p /\ ad'.to = to /\ ad'.id = c /\ ad'.rel = rel
      /\ ad' \in AdoptState'
  <2>1. ad' = [pc |-> pc, mode |-> ad.mode, todo |-> ad.todo \ {p},
               ctodo |-> ad.ctodo, seen |-> ad.seen \cup {c},
               claimed |-> ad.claimed \cup {to}, planned |-> ad.planned,
               from |-> p, to |-> to, id |-> c, rel |-> rel]
    BY <1>1 DEF AdoptState
  <2>2. /\ pc \in Working /\ ad.mode \in Modes
        /\ ad.todo \subseteq Path /\ ad.ctodo \subseteq Path
        /\ ad.seen \cup {c} \subseteq Contents /\ ad.claimed \cup {to} \subseteq Path
        /\ p \in PathOrNone /\ to \in PathOrNone /\ rel \in PathOrNone
    BY <1>1 DEF AdoptState, PathOrNone, Working
  <2>3. ad'.planned = ad.planned
    BY <2>1
  <2> QED BY <1>1, <2>1, <2>2, <2>3 DEF AdoptState
<1>3. Types'
  <2>1. faults' \in 0..MaxFaults /\ DOMAIN ad'.planned \subseteq Path
        /\ \A q \in DOMAIN ad'.planned : ad'.planned[q] \in Contents
    BY <1>2 DEF Inv, Types, TypeOK
  <2> QED BY <1>2, <2>1, TypesKept
<1>4. AtFile'
  <2>1. p \in ad.ctodo => comp[p].of = c
    BY BesideFound DEF Inv, Progress
  <2> QED BY <1>1, <1>2, <2>1 DEF AtFile
<1>5. AtRename'
  BY <1>2 DEF AtRename, Renaming
<1>6. AtRows' /\ AtCompanion'
  BY <1>2 DEF AtRows, AtCompanion, Moving
<1>7. Progress'
  <2>1. ad.pc \notin Working /\ ad'.pc \in Working
    BY <1>2 DEF Working
  <2> QED BY <1>2, <2>1 DEF Inv, Progress
<1> QED BY <1>3, <1>4, <1>5, <1>6, <1>7, WorldKept DEF Inv

\* In place a content keeps its path, which can only be its own.
LEMMA InPlaceKeeps ==
  ASSUME Inv, NEW p \in ad.todo, InPlace(p)
  PROVE  Inv' /\ ad'.pc = "asset"
<1> DEFINE c == fs[p]
           rel == IF relpath[c] # None THEN relpath[c] ELSE p
<1>1. /\ ad.pc = "originals" /\ ad.mode = "in-place" /\ p \in DOMAIN fs /\ copy[c] = None
      /\ UNCHANGED <<fs, comp, relpath, copy, compRow, arch, crossed, faults>>
  BY DEF InPlace, IsNext
<1>2. c \in Contents /\ p \in Path /\ rel \in Path /\ ad \in AdoptState
  BY <1>1 DEF Inv, Types, TypeOK, PathOrNone
<1>3. \A d \in Contents \ {c} : relpath[d] # p
  BY <1>1, <1>2 DEF Inv, Files
<1>4. ~ OwnedByOther(rel, c)
  BY <1>2, <1>3 DEF OwnedByOther, Inv, Paths
<1>5. ad' = [ad EXCEPT !.todo = @ \ {p}, !.seen = @ \cup {c}, !.pc = "asset", !.from = p,
                       !.to = p, !.id = c, !.rel = rel, !.claimed = @ \cup {p}]
  <2>1. ad' = [[ad EXCEPT !.todo = @ \ {p}, !.seen = @ \cup {c}]
                 EXCEPT !.pc = "asset", !.from = p, !.to = p, !.id = c, !.rel = rel,
                        !.claimed = @ \cup {p}]
    BY <1>4 DEF InPlace
  <2> QED BY <1>2, <2>1 DEF AdoptState
<1>6. LibraryName(p, c) \/ relpath[c] = p
  BY <1>1 DEF Inv, Files
<1>7. rel = p \/ relpath[c] = rel
  OBVIOUS
<1>8. c = fs[p] /\ ad'.pc = "asset"
  BY <1>2, <1>5 DEF AdoptState
<1>9. rel = p \/ (ad.mode = "in-place" /\ relpath[c] = rel)
  BY <1>1, <1>7
<1> DEFINE pc == "asset"
           to == p
<1>10. Inv'
  <2>1. ad' = [ad EXCEPT !.todo = @ \ {p}, !.seen = @ \cup {c}, !.pc = pc, !.from = p,
                         !.to = to, !.id = c, !.rel = rel, !.claimed = @ \cup {to}]
    BY <1>5
  <2>2. pc \in {"rename", "asset"} /\ pc # "rename" /\ (pc = "asset" => to = p)
    OBVIOUS
  <2>3. /\ \A d \in Contents \ {c} : relpath[d] # to
        /\ LibraryName(to, c) \/ relpath[c] = to
        /\ rel = to \/ (ad.mode = "in-place" /\ relpath[c] = rel)
        /\ to \in Path /\ rel \in Path /\ c = fs[p] /\ copy[c] = None
        /\ p \in Path /\ p \in DOMAIN fs /\ ad.pc = "originals"
        /\ UNCHANGED <<fs, comp, relpath, copy, compRow, arch, crossed, faults>>
    BY <1>1, <1>2, <1>3, <1>6, <1>8, <1>9
  <2> HIDE DEF c, rel, pc, to
  <2> QED BY <2>1, <2>2, <2>3, TakenUp, ZenonT(60)
<1> QED BY <1>8, <1>10

\* In a migration the name is the content's own, or free.
LEMMA MigrateKeeps ==
  ASSUME Inv, NEW p \in ad.todo, Migrate(p)
  PROVE  Inv'
<1> DEFINE c == fs[p]
           rel == MigratePath(p, c)
<1>1. /\ ad.pc = "originals" /\ ad.mode = "migrate" /\ p \in DOMAIN fs /\ copy[c] = None
      /\ UNCHANGED <<fs, comp, relpath, copy, compRow, arch, crossed, faults>>
  BY DEF Migrate, IsNext
<1>2. c \in Contents /\ p \in Path /\ ad \in AdoptState /\ relpath[c] \in PathOrNone
      /\ faults' \in 0..MaxFaults
  BY <1>1 DEF Inv, Types, TypeOK
<1>3. CASE rel = None
  <2>1. ad' = Stopped("failed")
    BY <1>3 DEF Migrate
  <2> QED BY <1>1, <1>2, <2>1, StopKeeps
<1>4. CASE rel # None
  <2> DEFINE pc == IF rel = p THEN "asset" ELSE "rename"
  <2>1. ad' = [ad EXCEPT !.todo = @ \ {p}, !.seen = @ \cup {c}, !.pc = pc, !.from = p,
                         !.to = rel, !.id = c, !.rel = rel, !.claimed = @ \cup {rel}]
    <3>1. ad' = [[ad EXCEPT !.todo = @ \ {p}, !.seen = @ \cup {c}]
                   EXCEPT !.pc = pc, !.from = p, !.to = rel, !.id = c, !.rel = rel,
                          !.claimed = @ \cup {rel}]
      BY <1>4 DEF Migrate
    <3> QED BY <1>2, <3>1 DEF AdoptState
  <2>2. LibraryName(p, c) \/ relpath[c] = p
    BY <1>1 DEF Inv, Files
  <2>3. \A d \in Contents \ {c} : relpath[d] # p
    BY <1>1, <1>2 DEF Inv, Files
  <2>4. /\ rel \in Path
        /\ \A d \in Contents \ {c} : relpath[d] # rel
        /\ LibraryName(rel, c) \/ relpath[c] = rel
        /\ rel # p => relpath[c] # p /\ relpath[c] \in {None, rel}
                  /\ (relpath[c] = None => Layout(p, c) # p)
    <3>1. CASE relpath[c] # None
      <4>1. rel = relpath[c]
        BY <3>1 DEF MigratePath
      <4> HIDE DEF rel, c
      <4> QED BY <1>2, <3>1, <4>1 DEF Inv, Paths, PathOrNone
    <3>2. CASE relpath[c] = None
      <4>0. rel = MigratePath(p, c)
        OBVIOUS
      <4> HIDE DEF rel, c
      <4>1. PICK n \in 0..(Suffixes - 1) : rel = WithSuffix(Layout(p, c), n)
        BY <1>2, <1>4, <3>2, <4>0, MigrateChoice
      <4>2. Free(rel, p, c) /\ (rel # p => Layout(p, c) # p)
        BY <1>2, <1>4, <3>2, <4>0, MigrateChoice
      <4>3. rel \in Path
        BY <1>2, <4>1, LayoutKeeps, SuffixKeeps
      <4>4. p # None
        BY <1>2, AdoptAssumption
      <4>5. LibraryName(p, c)
        BY <2>2, <3>2, <4>4
      <4>6. LibraryName(rel, c)
        BY <1>2, <4>1, <4>5, LibraryNameKept
      <4>7. \A d \in Contents \ {c} : relpath[d] # rel
        BY <2>3, <4>2 DEF Free, OwnedByOther
      <4> QED BY <3>2, <4>2, <4>3, <4>4, <4>6, <4>7
    <3> QED BY <3>1, <3>2
  <2>5. pc \in {"rename", "asset"} /\ (pc = "asset" => rel = p) /\ (pc = "rename" => rel # p)
    OBVIOUS
  <2>6. c = fs[p]
    OBVIOUS
  <2> HIDE DEF c, rel, pc
  <2> QED BY <1>1, <1>2, <2>1, <2>4, <2>5, <2>6, TakenUp
<1> QED BY <1>3, <1>4

\* The look at the name: it is free, or the run ends.
LEMMA RenameKeeps == Inv /\ Rename => Inv'
<1> SUFFICES ASSUME Inv, Rename PROVE Inv'
  OBVIOUS
<1>1. /\ ad.pc = "rename" /\ ad \in AdoptState /\ faults' \in 0..MaxFaults
      /\ UNCHANGED <<fs, comp, relpath, copy, compRow, arch, crossed>>
  BY DEF Rename, Inv, Types, TypeOK
<1>2. CASE ad.to \in DOMAIN fs
  <2>1. ad' = Stopped("failed")
    BY <1>2 DEF Rename
  <2> QED BY <1>1, <2>1, StopKeeps
<1>3. CASE ad.to \notin DOMAIN fs
  <2>1. ad' = [ad EXCEPT !.pc = "move"]
    BY <1>3 DEF Rename
  <2>2. /\ ad'.pc = "move" /\ ad'.mode = ad.mode /\ ad'.ctodo = ad.ctodo
        /\ ad'.seen = ad.seen /\ ad'.planned = ad.planned
        /\ ad'.from = ad.from /\ ad'.to = ad.to /\ ad'.id = ad.id /\ ad'.rel = ad.rel
        /\ ad' \in AdoptState'
    BY <1>1, <2>1 DEF AdoptState, Working
  <2>3. Types'
    BY <1>1, <2>2, TypesKept DEF Inv, Types, TypeOK
  <2>4. ad.pc \in Working /\ ad'.pc \in Working /\ ad.pc \in Renaming /\ ad'.pc \in Renaming
    BY <1>1, <2>2 DEF Working, Renaming
  <2>5. AtFile'
    BY <1>1, <2>2, <2>4 DEF Inv, AtFile
  <2>6. ad.id \notin OnCard => relpath[ad.id] = None
    <3>1. ad.id \in Contents /\ (ad.id \notin OnCard => relpath[ad.id] \in {None, ad.to})
      BY <2>4 DEF Inv, AtFile, AtRename
    <3> QED BY <1>3, <3>1 DEF Inv, Files
  <2>7. AtRename'
    BY <1>1, <1>3, <2>2, <2>4, <2>6 DEF Inv, AtRename
  <2>8. AtRows' /\ AtCompanion'
    BY <2>2 DEF AtRows, AtCompanion, Moving
  <2>9. Progress'
    BY <1>1, <2>2, <2>4 DEF Inv, Progress
  <2> QED BY <1>1, <2>3, <2>5, <2>7, <2>8, <2>9, WorldKept DEF Inv
<1> QED BY <1>2, <1>3

-----------------------------------------------------------------------------
(* Renames and their rows.                                                 *)

\* No file of another content comes to a path with a companion beside it.
LEMMA BesideFree ==
  ASSUME NamesApart, Inv, NEW q \in Beside, NEW d \in Contents, d # Library[q],
         LibraryName(q, d)
  PROVE  q \in DOMAIN fs /\ fs[q] = Library[q]
<1>1. q \in DOMAIN Library
  BY AdoptAssumption
<1>2. PICK p \in DOMAIN Library : Library[p] = d /\ q.name[1] = p.name[1]
                                  /\ (q = p \/ q.dir = DayOf(p, d))
  BY DEF LibraryName
<1>3. q.dir = DayOf(p, Library[p])
  BY <1>2
<1>4. Library[q] \notin OnCard /\ Layout(q, Library[q]) = q
  BY <1>2, <1>3 DEF NamesApart, BesideApart
<1> QED BY <1>1, <1>4 DEF Inv, Left

\* The rename takes the file from a name that no row has to one that no other
\* content was promised.
LEMMA MoveKeeps == NamesApart /\ Inv /\ Move => Inv'
<1> SUFFICES ASSUME NamesApart, Inv, Move PROVE Inv'
  OBVIOUS
<1> DEFINE id == ad.id
           from == ad.from
           to == ad.to
<1>1. /\ ad.pc = "move" /\ fs' = Put(Drop(fs, from), to, id)
      /\ ad' = [ad EXCEPT !.pc = "asset"]
      /\ UNCHANGED <<comp, relpath, copy, compRow, arch, crossed, faults>>
  BY DEF Move
<1>2. ad \in AdoptState /\ ad.pc \in Working /\ ad.pc \in Renaming
  BY <1>1 DEF Inv, Types, Working, Renaming
<1>3. /\ ad'.pc = "asset" /\ ad'.mode = ad.mode /\ ad'.ctodo = ad.ctodo
      /\ ad'.seen = ad.seen /\ ad'.planned = ad.planned
      /\ ad'.from = from /\ ad'.to = to /\ ad'.id = id /\ ad'.rel = ad.rel
      /\ ad' \in AdoptState' /\ ad'.pc \in Working /\ ad'.pc \notin Renaming
  BY <1>1, <1>2 DEF AdoptState, Working, Renaming
<1>4. /\ DOMAIN fs' = (DOMAIN fs \ {from}) \cup {to}
      /\ \A q \in DOMAIN fs' : fs'[q] = IF q = to THEN id ELSE fs[q]
  BY <1>1 DEF Put, Drop
<1>5. /\ id \in Contents /\ from \in Path /\ to \in Path
      /\ \A d \in Contents \ {id} : relpath[d] # to
      /\ LibraryName(to, id) \/ relpath[id] = to
  BY <1>2 DEF Inv, AtFile
<1>6. /\ from # to /\ from \in DOMAIN fs /\ fs[from] = id /\ relpath[id] # from
      /\ relpath[id] = None => Layout(from, id) # from
      /\ copy[id] = None \/ copy[id] = relpath[id]
      /\ to \in DOMAIN fs => fs[to] = id
      /\ id \notin OnCard => relpath[id] = None
  BY <1>1, <1>2 DEF Inv, AtRename
<1>7. AtFile' /\ AtRename' /\ AtRows' /\ AtCompanion'
  <2>1. AtFile'
    BY <1>1, <1>2, <1>3 DEF Inv, AtFile
  <2>2. AtRename'
    BY <1>3 DEF AtRename
  <2>3. AtRows'
    BY <1>3, <1>4 DEF AtRows
  <2>4. AtCompanion'
    BY <1>3 DEF AtCompanion, Moving
  <2> QED BY <2>1, <2>2, <2>3, <2>4
<1>8. Paths' /\ Pairs' /\ Progress'
  BY <1>1, <1>2, <1>3 DEF Inv, Paths, Pairs, Progress
<1> HIDE DEF id, from, to
<1>9. Types'
  <2>1. DOMAIN fs' \subseteq Path /\ \A q \in DOMAIN fs' : fs'[q] \in Contents
    BY <1>4, <1>5 DEF Inv, Types, TypeOK
  <2> QED BY <1>1, <1>3, <2>1 DEF Inv, Types, TypeOK, AdoptState, Working
<1>10. Files'
  <2>1. \A q \in DOMAIN fs' : LibraryName(q, fs'[q]) \/ relpath'[fs'[q]] = q
    BY <1>1, <1>4, <1>5 DEF Inv, Files
  <2>2. \A c \in Contents : relpath'[c] \in DOMAIN fs' => fs'[relpath'[c]] = c
    BY <1>1, <1>4, <1>5 DEF Inv, Files
  <2>3. \A c \in Contents \ OnCard : relpath'[c] # None => relpath'[c] \in DOMAIN fs'
    BY <1>1, <1>4, <1>5, <1>6 DEF Inv, Files
  <2> QED BY <2>1, <2>2, <2>3 DEF Files
<1>11. Left'
  <2> SUFFICES ASSUME NEW p \in DOMAIN Library,
                      ~ (p \in DOMAIN fs' /\ fs'[p] = Library[p])
               PROVE  /\ relpath[Library[p]] # p
                      /\ relpath[Library[p]] = None \/ Library[p] \notin OnCard
                           => Layout(p, Library[p]) # p
    BY <1>1 DEF Left
  <2>1. CASE p \in DOMAIN fs /\ fs[p] = Library[p]
    <3>1. p = from /\ Library[p] = id
      BY <1>4, <1>6, <2>1
    <3> QED BY <1>6, <3>1
  <2>2. CASE ~ (p \in DOMAIN fs /\ fs[p] = Library[p])
    BY <2>2 DEF Inv, Left
  <2> QED BY <2>1, <2>2
<1>12. Besides'
  <2>1. ASSUME to \in Beside PROVE id = Library[to]
    <3>1. CASE LibraryName(to, id)
      BY <1>5, <1>6, <2>1, <3>1, BesideFree
    <3>2. CASE relpath[id] = to
      <4>1. to # None
        BY <1>5, AdoptAssumption
      <4>2. LibraryName(to, id) \/ CardNamed(to, id)
        BY <1>5, <3>2, <4>1 DEF Inv, Paths
      <4>3. to \in DOMAIN Library /\ Library[to] \in Contents /\ LibraryName(to, Library[to])
        BY <2>1, AdoptAssumption DEF LibraryName
      <4>4. CASE CardNamed(to, id)
        BY <4>3, <4>4, CardApart DEF NamesApart, CardNamed
      <4> QED BY <3>1, <4>2, <4>4
    <3> QED BY <1>5, <3>1, <3>2
  <2>2. \A q \in Beside \cap DOMAIN fs' : fs'[q] = Library[q]
    BY <1>4, <2>1 DEF Inv, Besides
  <2> QED BY <1>1, <2>2 DEF Inv, Besides
<1>13. Rows'
  <2>1. ASSUME NEW c \in Contents, copy[c] # None
        PROVE  copy[c] \in DOMAIN fs' /\ fs'[copy[c]] = c
    <3>1. copy[c] \in DOMAIN fs /\ fs[copy[c]] = c
      BY <2>1 DEF Inv, Rows, CopiesLead
    <3>2. copy[c] # from
      BY <1>6, <2>1, <3>1
    <3> QED BY <1>4, <1>6, <3>1, <3>2
  <2> QED BY <1>1, <2>1 DEF Inv, Rows, CopiesLead
<1>14. Archives'
  <2>1. \A c \in Contents : relpath[c] \in DOMAIN fs => relpath[c] \in DOMAIN fs'
    BY <1>4, <1>5, <1>6 DEF Inv, Files
  <2> QED BY <1>1, <2>1 DEF Inv, Archives
<1> QED BY <1>7, <1>8, <1>9, <1>10, <1>11, <1>12, <1>13, <1>14 DEF Inv

\* PutAsset: the content's path is where its file is now.
LEMMA AssetRowKeeps == Inv /\ AssetRow => Inv'
<1> SUFFICES ASSUME Inv, AssetRow PROVE Inv'
  OBVIOUS
<1> DEFINE id == ad.id
           to == ad.to
<1>1. /\ ad.pc = "asset" /\ ad \in AdoptState /\ ad.pc \in Working
      /\ UNCHANGED <<fs, comp, copy, compRow, arch, crossed, faults>> /\ faults' \in 0..MaxFaults
  BY DEF AssetRow, Inv, Types, TypeOK, Working
<1>2. /\ id \in Contents /\ to \in Path /\ ad.rel \in Path
      /\ \A d \in Contents \ {id} : relpath[d] # to
      /\ LibraryName(to, id) \/ relpath[id] = to
      /\ ad.rel = to \/ (ad.mode = "in-place" /\ relpath[id] = ad.rel)
      /\ to \in DOMAIN fs /\ fs[to] = id
  BY <1>1 DEF Inv, AtFile, AtRows
<1>3. to # None /\ ad.rel # None
  BY <1>2, AdoptAssumption
<1>4. CASE \/ ad' = Stopped("failed") /\ relpath' = relpath
           \/ ad' = Stopped("owned") /\ relpath' = relpath
  BY <1>1, <1>4, StopKeeps
<1>5. CASE /\ ad' = [ad EXCEPT !.pc = "copy"]
           /\ \/ relpath[id] = ad.rel /\ relpath' = relpath
              \/ relpath[id] = None /\ relpath' = [relpath EXCEPT ![id] = ad.rel]
  <2>1. /\ ad'.pc = "copy" /\ ad'.mode = ad.mode /\ ad'.ctodo = ad.ctodo
        /\ ad'.seen = ad.seen /\ ad'.planned = ad.planned
        /\ ad'.from = ad.from /\ ad'.to = to /\ ad'.id = id /\ ad'.rel = ad.rel
        /\ ad' \in AdoptState' /\ ad'.pc \in Working /\ ad'.pc \notin Renaming
    BY <1>1, <1>5 DEF AdoptState, Working, Renaming
  <2>2. relpath \in [Contents -> PathOrNone]
    BY DEF Inv, Types, TypeOK
  <2>3. /\ relpath'[id] = ad.rel
        /\ \A d \in Contents \ {id} : relpath'[d] = relpath[d]
        /\ relpath' \in [Contents -> PathOrNone]
    BY <1>2, <1>5, <2>2 DEF PathOrNone
  <2>4. relpath[id] # None => relpath[id] = ad.rel
    BY <1>5
  <2>5. relpath[id] = None => ad.rel = to /\ LibraryName(to, id)
    BY <1>2, <1>3
  <2> HIDE DEF id, to
  <2>6. Types'
    BY <1>1, <2>1, <2>3 DEF Inv, Types, TypeOK, AdoptState, Working
  <2>7. Paths'
    <3>1. \A d \in Contents \ {id} : relpath[d] # ad.rel
      BY <1>2, <1>3, <2>4, <2>5 DEF Inv, Paths
    <3>2. \A c \in Contents : \A d \in Contents \ {c} : relpath'[c] # None => relpath'[c] # relpath'[d]
      BY <2>3, <3>1 DEF Inv, Paths
    <3>3. LibraryName(ad.rel, id) \/ CardNamed(ad.rel, id)
      BY <1>2, <1>3, <2>4, <2>5 DEF Inv, Paths
    <3> QED BY <2>3, <3>2, <3>3 DEF Inv, Paths
  <2>8. Files'
    <3>1. \A q \in DOMAIN fs : LibraryName(q, fs[q]) \/ relpath'[fs[q]] = q
      BY <2>3, <2>4, AdoptAssumption DEF Inv, Files, Types, TypeOK
    <3>2. \A c \in Contents : relpath'[c] \in DOMAIN fs => fs[relpath'[c]] = c
      BY <1>2, <2>3, <2>4, <2>5 DEF Inv, Files
    <3>3. \A c \in Contents \ OnCard : relpath'[c] # None => relpath'[c] \in DOMAIN fs
      BY <1>2, <1>3, <2>3, <2>4, <2>5 DEF Inv, Files
    <3> QED BY <1>1, <3>1, <3>2, <3>3 DEF Files
  <2>9. Left'
    <3> SUFFICES ASSUME NEW p \in DOMAIN Library,
                        ~ (p \in DOMAIN fs /\ fs[p] = Library[p])
                 PROVE  /\ relpath'[Library[p]] # p
                        /\ relpath'[Library[p]] = None \/ Library[p] \notin OnCard
                             => Layout(p, Library[p]) # p
      BY <1>1 DEF Left
    <3>1. /\ relpath[Library[p]] # p /\ Library[p] \in Contents
          /\ relpath[Library[p]] = None \/ Library[p] \notin OnCard
               => Layout(p, Library[p]) # p
      BY AdoptAssumption DEF Inv, Left
    <3>2. CASE Library[p] # id
      BY <2>3, <3>1, <3>2
    <3>3. CASE Library[p] = id
      BY <1>2, <1>3, <2>3, <2>4, <2>5, <3>1, <3>3
    <3> QED BY <3>2, <3>3
  <2>10. Besides'
    <3>1. \A q \in DOMAIN comp : q # None /\ comp[q].of \in Contents
      BY AdoptAssumption DEF Inv, Types, TypeOK, Companions
    <3> QED BY <1>1, <2>3, <2>4, <3>1 DEF Inv, Besides
  <2>11. Rows'
    <3>1. \A c \in Contents : relpath[c] # None => relpath'[c] # None
      BY <1>3, <2>3
    <3> QED BY <1>1, <3>1 DEF Inv, Rows, CopiesLead
  <2>12. AtFile'
    <3>1. /\ ad.from \in Path
          /\ ad.from \in ad.ctodo => comp[ad.from].of = id
      BY <1>1 DEF Inv, AtFile, id
    <3> QED BY <1>1, <1>2, <2>1, <2>3, <2>4, <2>5, <3>1 DEF AtFile
  <2>13. AtRename' /\ AtRows' /\ AtCompanion'
    BY <1>1, <1>2, <2>1, <2>3 DEF AtRename, AtRows, AtCompanion, Moving
  <2>14. Progress'
    BY <1>1, <2>1 DEF Inv, Progress, id
  <2>15. Pairs'
    <3>1. ASSUME relpath[id] = None, to \in DOMAIN comp PROVE comp[to].of = id
      <4>1. comp[to].of = fs[to]
        BY <1>2, <3>1, BesideFound
      <4> QED BY <1>2, <4>1
    <3> QED BY <1>1, <2>3, <2>4, <2>5, <3>1 DEF Inv, Pairs
  <2>16. Archives'
    <3>1. relpath[id] = None => arch[id] = "none"
      BY <1>2 DEF Inv, Archives
    <3> QED BY <1>1, <1>3, <2>3, <2>4, <3>1 DEF Inv, Archives
  <2> QED BY <2>6, <2>7, <2>8, <2>9, <2>10, <2>11, <2>12, <2>13, <2>14, <2>15, <2>16 DEF Inv
<1> QED BY <1>4, <1>5 DEF AssetRow

\* PutCopy, and the original is one that a companion can be paired with.
LEMMA CopyRowKeeps == Inv /\ CopyRow => Inv'
<1> SUFFICES ASSUME Inv, CopyRow PROVE Inv'
  OBVIOUS
<1> DEFINE id == ad.id
           to == ad.to
           from == ad.from
<1>1. /\ ad.pc = "copy" /\ ad \in AdoptState /\ ad.pc \in Working
      /\ copy' = [copy EXCEPT ![id] = to]
      /\ ad' = [ad EXCEPT !.pc = "originals", !.planned = Plan(from, id),
                          !.from = None, !.to = None, !.id = None, !.rel = None]
      /\ UNCHANGED <<fs, comp, relpath, compRow, arch, crossed, faults>> /\ faults' \in 0..MaxFaults
  BY DEF CopyRow, Inv, Types, TypeOK, Working
<1>2. /\ id \in Contents /\ from \in Path /\ to \in Path /\ ad.rel \in Path
      /\ from \in ad.ctodo => comp[from].of = id
      /\ to \in DOMAIN fs /\ fs[to] = id /\ relpath[id] = ad.rel
  BY <1>1 DEF Inv, AtFile, AtRows
<1>3. to # None /\ ad.rel # None
  BY <1>2, AdoptAssumption
<1>4. /\ ad'.pc = "originals" /\ ad'.ctodo = ad.ctodo /\ ad'.seen = ad.seen
      /\ ad'.planned = Plan(from, id) /\ ad' \in AdoptState'
  BY <1>1 DEF AdoptState, PathOrNone
<1>5. /\ DOMAIN ad'.planned = DOMAIN ad.planned \cup {from}
      /\ \A q \in DOMAIN ad'.planned :
           ad'.planned[q] = IF q = from THEN id ELSE ad.planned[q]
  BY <1>4 DEF Plan
<1>6. ad'.pc \notin Working /\ ad'.pc \notin Renaming
  BY <1>4 DEF Working, Renaming
<1>7. copy \in [Contents -> PathOrNone]
  BY DEF Inv, Types, TypeOK
<1>8. /\ copy'[id] = to /\ \A c \in Contents \ {id} : copy'[c] = copy[c]
      /\ copy' \in [Contents -> PathOrNone]
  BY <1>1, <1>2, <1>7 DEF PathOrNone
<1>9. Progress'
  <2>1. \A c \in Contents : copy[c] # None => copy'[c] # None
    BY <1>3, <1>8
  <2>2. \A c \in ad.seen : copy'[c] # None
    <3>1. ad.seen \subseteq Contents
      BY DEF Inv, Types, TypeOK
    <3> QED BY <1>3, <1>8, <2>1, <3>1 DEF Inv, Progress
  <2>3. \A q \in DOMAIN ad'.planned : copy'[ad'.planned[q]] # None
    BY <1>2, <1>3, <1>5, <1>8, <2>1 DEF Inv, Progress, Types
  <2>4. \A q \in DOMAIN ad'.planned \cap ad.ctodo : comp[q].of = ad'.planned[q]
    BY <1>2, <1>5 DEF Inv, Progress
  <2> QED BY <1>1, <1>4, <2>2, <2>3, <2>4 DEF Inv, Progress
<1> HIDE DEF id, to, from
<1>10. Types'
  <2>1. DOMAIN ad'.planned \subseteq Path
        /\ \A q \in DOMAIN ad'.planned : ad'.planned[q] \in Contents
    BY <1>2, <1>5 DEF Inv, Types, TypeOK
  <2> QED BY <1>1, <1>4, <1>8, <2>1 DEF Inv, Types, TypeOK, AdoptState, Working
<1>11. Paths' /\ Files' /\ Left' /\ Besides' /\ Pairs'
  BY <1>1 DEF Inv, Paths, Files, Left, Besides, Pairs
<1>12. Rows'
  BY <1>1, <1>2, <1>3, <1>8 DEF Inv, Rows, CopiesLead
<1>13. AtFile' /\ AtRename' /\ AtRows' /\ AtCompanion'
  BY <1>4, <1>6 DEF AtFile, AtRename, AtRows, AtCompanion, Moving
<1>14. Archives'
  BY <1>1, <1>3, <1>8 DEF Inv, Archives
<1> QED BY <1>9, <1>10, <1>11, <1>12, <1>13, <1>14 DEF Inv

-----------------------------------------------------------------------------
(* Companions.                                                             *)

\* What a companion that comes up is paired with.
LEMMA Paired ==
  ASSUME Inv, NEW p \in ad.ctodo, p \in DOMAIN ad.planned
  PROVE  /\ ad.planned[p] \in Contents /\ p \in Path
         /\ p \in DOMAIN comp /\ comp[p] \in Companions /\ comp[p].of = ad.planned[p]
         /\ relpath[ad.planned[p]] \in Path /\ copy[ad.planned[p]] # None
<1>1. /\ ad.planned[p] \in Contents /\ p \in Path
      /\ p \in DOMAIN comp /\ comp[p] \in Companions /\ comp[p].of = ad.planned[p]
      /\ copy[ad.planned[p]] # None
  BY DEF Inv, Types, TypeOK, Progress
<1>2. relpath[ad.planned[p]] \in Path
  BY <1>1 DEF Inv, Rows, Types, TypeOK, PathOrNone
<1> QED BY <1>1, <1>2

\* A companion that is where it belongs gets its row.
LEMMA CompanionHereKeeps ==
  ASSUME Inv, NEW p \in ad.ctodo, CompanionHere(p)
  PROVE  Inv'
<1> DEFINE c == ad.planned[p]
<1>1. /\ ad.pc = "companions" /\ p \in DOMAIN ad.planned
      /\ compRow' = [compRow EXCEPT ![c] = p]
      /\ ad' = [ad EXCEPT !.ctodo = @ \ {p}]
      /\ UNCHANGED <<fs, comp, relpath, copy, arch, crossed, faults>>
  BY DEF CompanionHere
<1>2. ad \in AdoptState /\ c \in Contents /\ p \in Path
      /\ compRow \in [Contents -> PathOrNone]
  BY <1>1, Paired DEF Inv, Types, TypeOK
<1> HIDE DEF c
<1>3. /\ ad'.pc = "companions" /\ ad'.ctodo = ad.ctodo \ {p} /\ ad'.seen = ad.seen
      /\ ad'.planned = ad.planned /\ ad' \in AdoptState'
  BY <1>1, <1>2 DEF AdoptState
<1>4. compRow' \in [Contents -> PathOrNone]
  BY <1>1, <1>2 DEF PathOrNone
<1>5. Types'
  BY <1>1, <1>3, <1>4 DEF Inv, Types, TypeOK, AdoptState, Working
<1>6. Paths' /\ Files' /\ Left' /\ Besides' /\ Pairs' /\ Rows' /\ Archives'
  BY <1>1 DEF Inv, Paths, Files, Left, Besides, Pairs, Rows, CopiesLead, Archives
<1>7. AtFile' /\ AtRename' /\ AtRows' /\ AtCompanion'
  BY <1>3 DEF AtFile, AtRename, AtRows, AtCompanion, Working, Renaming, Moving
<1>8. Progress'
  <2>1. ad.pc \notin Working
    BY <1>1 DEF Working
  <2> QED BY <1>1, <1>3, <2>1 DEF Inv, Progress
<1> QED BY <1>5, <1>6, <1>7, <1>8 DEF Inv

\* The look at the name it moves to: it is free, or the run ends.
LEMMA CompanionLookKeeps ==
  ASSUME Inv, NEW p \in ad.ctodo, CompanionLook(p)
  PROVE  Inv'
<1> DEFINE c == ad.planned[p]
           to == CompanionPath(c, p)
<1>1. /\ ad.pc = "companions" /\ p \in DOMAIN ad.planned /\ to # p
      /\ UNCHANGED <<fs, comp, relpath, copy, compRow, arch, faults>>
      /\ \/ ad' = Stopped("failed") /\ crossed' = crossed
         \/ /\ to \notin DOMAIN comp
            /\ ad' = [ad EXCEPT !.pc = "cmove", !.from = p, !.to = to, !.id = c]
            /\ crossed' = crossed \cup (IF arch[c] = "proxy" THEN {c} ELSE {})
  BY DEF CompanionLook
<1>2. /\ ad \in AdoptState /\ c \in Contents /\ p \in Path /\ p \in DOMAIN comp
      /\ comp[p].of = c /\ relpath[c] \in Path /\ copy[c] # None
  BY <1>1, Paired DEF Inv, Types
<1>3. ad.mode = "migrate" /\ to = relpath[c]
  BY <1>1 DEF CompanionPath
<1>4. faults' \in 0..MaxFaults
  BY <1>1 DEF Inv, Types, TypeOK
<1> HIDE DEF c, to
<1>5. CASE ad' = Stopped("failed") /\ crossed' = crossed
  BY <1>1, <1>4, <1>5, StopKeeps
<1>6. CASE /\ to \notin DOMAIN comp
           /\ ad' = [ad EXCEPT !.pc = "cmove", !.from = p, !.to = to, !.id = c]
           /\ crossed' = crossed \cup (IF arch[c] = "proxy" THEN {c} ELSE {})
  <2>1. /\ ad'.pc = "cmove" /\ ad'.ctodo = ad.ctodo /\ ad'.seen = ad.seen
        /\ ad'.planned = ad.planned /\ ad'.mode = ad.mode
        /\ ad'.from = p /\ ad'.to = to /\ ad'.id = c /\ ad' \in AdoptState'
    BY <1>2, <1>3, <1>6 DEF AdoptState, PathOrNone
  <2>2. crossed \subseteq crossed' /\ crossed' \subseteq Contents
        /\ (arch[c] = "proxy" => c \in crossed')
    BY <1>2, <1>6 DEF Inv, Types, TypeOK
  <2>3. Types'
    BY <1>1, <2>1, <2>2 DEF Inv, Types, TypeOK, AdoptState, Working
  <2>4. Paths' /\ Files' /\ Left' /\ Besides' /\ Pairs' /\ Rows'
    BY <1>1 DEF Inv, Paths, Files, Left, Besides, Pairs, Rows, CopiesLead
  <2>5. Archives'
    BY <1>1, <2>2 DEF Inv, Archives
  <2>6. AtFile' /\ AtRename' /\ AtRows'
    BY <2>1 DEF AtFile, AtRename, AtRows, Working, Renaming
  <2>7. AtCompanion'
    BY <1>1, <1>2, <1>3, <1>6, <2>1, <2>2 DEF AtCompanion, Moving
  <2>8. Progress'
    <3>1. ad.pc \notin Working
      BY <1>1 DEF Working
    <3> QED BY <1>1, <2>1, <3>1 DEF Inv, Progress
  <2> QED BY <2>3, <2>4, <2>5, <2>6, <2>7, <2>8 DEF Inv
<1> QED BY <1>1, <1>5, <1>6

\* The rename takes a companion from where no content's path is to its own
\* original's path.
LEMMA CompanionMoved ==
  ASSUME Inv, CompanionMove
  PROVE  /\ ad.id \in Contents /\ ad.to \in Path /\ ad.to = relpath[ad.id]
         /\ ad.from \in DOMAIN comp /\ comp[ad.from].of = ad.id
         /\ DOMAIN comp' = (DOMAIN comp \ {ad.from}) \cup {ad.to}
         /\ \A q \in DOMAIN comp' : comp'[q] = IF q = ad.to THEN comp[ad.from] ELSE comp[q]
         /\ \A c \in Contents : relpath[c] # ad.from
         /\ \A c \in Contents \ {ad.id} : relpath[c] # ad.to
         /\ ad'.pc = "crow" /\ ad'.ctodo = ad.ctodo \ {ad.from} /\ ad'.seen = ad.seen
         /\ ad'.planned = ad.planned /\ ad'.mode = ad.mode
         /\ ad'.to = ad.to /\ ad'.id = ad.id /\ ad' \in AdoptState'
<1>1. /\ ad.pc = "cmove" /\ ad.pc \in Moving /\ ad \in AdoptState
      /\ comp' = Put(Drop(comp, ad.from), ad.to, comp[ad.from])
      /\ ad' = [ad EXCEPT !.pc = "crow", !.ctodo = @ \ {ad.from}]
  BY DEF CompanionMove, Moving, Inv, Types
<1>2. /\ ad.id \in Contents /\ ad.to \in Path /\ ad.to = relpath[ad.id]
      /\ ad.from \in DOMAIN comp /\ comp[ad.from].of = ad.id /\ ad.from # ad.to
  BY <1>1 DEF Inv, AtCompanion
<1>3. /\ DOMAIN comp' = (DOMAIN comp \ {ad.from}) \cup {ad.to}
      /\ \A q \in DOMAIN comp' : comp'[q] = IF q = ad.to THEN comp[ad.from] ELSE comp[q]
  BY <1>1 DEF Put, Drop
<1>4. \A c \in Contents : relpath[c] # ad.from
  BY <1>2 DEF Inv, Pairs
<1>5. \A c \in Contents \ {ad.id} : relpath[c] # ad.to
  <2>1. ad.to # None
    BY <1>2, AdoptAssumption
  <2> QED BY <1>2, <2>1 DEF Inv, Paths
<1>6. /\ ad'.pc = "crow" /\ ad'.ctodo = ad.ctodo \ {ad.from} /\ ad'.seen = ad.seen
      /\ ad'.planned = ad.planned /\ ad'.mode = ad.mode
      /\ ad'.to = ad.to /\ ad'.id = ad.id /\ ad' \in AdoptState'
  BY <1>1 DEF AdoptState
<1> QED BY <1>2, <1>3, <1>4, <1>5, <1>6

LEMMA CompanionMoveKeeps == Inv /\ CompanionMove => Inv'
<1> SUFFICES ASSUME Inv, CompanionMove PROVE Inv'
  OBVIOUS
<1> DEFINE id == ad.id
           from == ad.from
           to == ad.to
<1>1. /\ ad.pc = "cmove" /\ ad.pc \in Moving
      /\ UNCHANGED <<fs, relpath, copy, compRow, arch, crossed, faults>>
  BY DEF CompanionMove, Moving
<1>2. /\ id \in Contents /\ to \in Path /\ to = relpath[id]
      /\ from \in DOMAIN comp /\ comp[from].of = id
      /\ DOMAIN comp' = (DOMAIN comp \ {from}) \cup {to}
      /\ \A q \in DOMAIN comp' : comp'[q] = IF q = to THEN comp[from] ELSE comp[q]
      /\ \A c \in Contents : relpath[c] # from
      /\ \A c \in Contents \ {id} : relpath[c] # to
  BY CompanionMoved
<1>3. /\ ad'.pc = "crow" /\ ad'.ctodo = ad.ctodo \ {from} /\ ad'.seen = ad.seen
      /\ ad'.planned = ad.planned /\ ad'.mode = ad.mode
      /\ ad'.to = to /\ ad'.id = id /\ ad' \in AdoptState'
  BY CompanionMoved
<1>4. /\ ad.mode = "migrate" /\ copy[id] # None
      /\ to \in DOMAIN comp \/ arch[id] = "proxy" => id \in crossed
  BY <1>1 DEF Inv, AtCompanion
<1> HIDE DEF id, from, to
<1>5. Types'
  <2>1. DOMAIN comp' \subseteq Path /\ \A q \in DOMAIN comp' : comp'[q] \in Companions
    BY <1>2 DEF Inv, Types, TypeOK
  <2> QED BY <1>1, <1>3, <2>1 DEF Inv, Types, TypeOK, AdoptState, Working
<1>6. Paths' /\ Files' /\ Left' /\ Rows'
  BY <1>1 DEF Inv, Paths, Files, Left, Rows, CopiesLead
<1>7. Besides'
  <2>1. ASSUME NEW q \in DOMAIN comp'
        PROVE  (q \in Beside /\ Library[q] = comp'[q].of) \/ relpath[comp'[q].of] = q
    BY <1>2 DEF Inv, Besides
  <2> QED BY <1>1, <2>1 DEF Inv, Besides
<1>8. Pairs'
  BY <1>1, <1>2 DEF Inv, Pairs
<1>9. Archives'
  BY <1>1, <1>2, <1>4 DEF Inv, Archives
<1>10. AtFile' /\ AtRename' /\ AtRows'
  BY <1>3 DEF AtFile, AtRename, AtRows, Working, Renaming
<1>11. AtCompanion'
  BY <1>1, <1>2, <1>3, <1>4 DEF AtCompanion
<1>12. Progress'
  <2>1. ad.pc \notin Working
    BY <1>1 DEF Working
  <2>2. \A q \in ad.ctodo \ {from} : q \in DOMAIN comp' /\ comp'[q].of = comp[q].of
    BY <1>2 DEF Inv, Pairs, Progress
  <2> QED BY <1>1, <1>3, <2>1, <2>2 DEF Inv, Progress
<1> QED BY <1>5, <1>6, <1>7, <1>8, <1>9, <1>10, <1>11, <1>12 DEF Inv

\* PutCompanion.
LEMMA CompanionRowKeeps == Inv /\ CompanionRow => Inv'
<1> SUFFICES ASSUME Inv, CompanionRow PROVE Inv'
  OBVIOUS
<1>1. /\ ad.pc = "crow" /\ ad.pc \in Moving /\ ad \in AdoptState
      /\ compRow' = [compRow EXCEPT ![ad.id] = ad.to]
      /\ ad' = [ad EXCEPT !.pc = "companions", !.from = None, !.to = None, !.id = None]
      /\ UNCHANGED <<fs, comp, relpath, copy, arch, crossed, faults>>
  BY DEF CompanionRow, Moving, Inv, Types
<1>2. compRow' \in [Contents -> PathOrNone]
  BY <1>1 DEF Inv, Types, TypeOK, AtCompanion, PathOrNone
<1>3. /\ ad'.pc = "companions" /\ ad'.ctodo = ad.ctodo /\ ad'.seen = ad.seen
      /\ ad'.planned = ad.planned /\ ad' \in AdoptState'
  BY <1>1 DEF AdoptState, PathOrNone
<1>4. Types'
  BY <1>1, <1>2, <1>3 DEF Inv, Types, TypeOK, AdoptState, Working
<1>5. Paths' /\ Files' /\ Left' /\ Besides' /\ Pairs' /\ Rows' /\ Archives'
  BY <1>1 DEF Inv, Paths, Files, Left, Besides, Pairs, Rows, CopiesLead, Archives
<1>6. AtFile' /\ AtRename' /\ AtRows' /\ AtCompanion'
  BY <1>3 DEF AtFile, AtRename, AtRows, AtCompanion, Working, Renaming, Moving
<1>7. Progress'
  <2>1. ad.pc \notin Working
    BY <1>1 DEF Working
  <2> QED BY <1>1, <1>3, <2>1 DEF Inv, Progress
<1> QED BY <1>4, <1>5, <1>6, <1>7 DEF Inv

-----------------------------------------------------------------------------
(* Imports beside the run.                                                 *)

\* A clip's name carries its identity, so that nothing else has its first choice.
LEMMA ClipsOwn ==
  ASSUME NamesApart, Inv, NEW c \in OnCard, c \notin Stills, NEW d \in Contents, d # c
  PROVE  relpath[d] # CardPath(c, 0)
<1> SUFFICES ASSUME relpath[d] = CardPath(c, 0) PROVE FALSE
  OBVIOUS
<1> DEFINE s == FileName(CardName[c], c, TRUE)
<1>1. 0 \in 0..(Suffixes - 1) /\ c \in Contents /\ d # Legacy
  BY AdoptAssumption
<1>2. CardPath(c, 0) \in Path
  BY <1>1, CardPathKeeps
<1>3. CardPath(c, 0) # None
  BY <1>2, AdoptAssumption
<1>4. CardNamed(CardPath(c, 0), d)
  BY <1>1, <1>3, CardApart DEF Inv, Paths, NamesApart
<1>5. PICK n \in 0..(Suffixes - 1) : d \in OnCard /\ CardPath(c, 0) = CardPath(d, n)
  BY <1>4 DEF CardNamed
<1>6. CardName[c][1] = CardName[d][1]
  BY <1>1, <1>5, CardPathKeeps
<1>7. d \notin Stills
  BY <1>5, <1>6 DEF NamesApart, KindsApart
<1> DEFINE t == FileName(CardName[d], d, TRUE)
<1>8. CardPath(c, 0).name = s
  BY DEF CardPath, DatePath, WithSuffix, PathOf
<1>9. CardPath(d, n).name = IF n = 0 THEN t ELSE Append(t, n)
  BY <1>7 DEF CardPath, DatePath, WithSuffix, PathOf
<1>10. /\ CardName[c] \in Seq(Parts) /\ CardName[d] \in Seq(Parts)
       /\ c \in Parts /\ d \in Parts /\ c # n
  BY <1>1, <1>5, AdoptAssumption
<1>11. s \in Seq(Parts) /\ Len(s) > 0 /\ s[Len(s)] = c
  BY <1>10 DEF FileName, Carries, Last
<1>12. t \in Seq(Parts) /\ Len(t) > 0 /\ t[Len(t)] = d
  BY <1>10 DEF FileName, Carries, Last
<1> HIDE DEF s, t
<1>13. CASE n = 0
  BY <1>5, <1>8, <1>9, <1>11, <1>12, <1>13
<1>14. CASE n # 0
  <2>1. Append(t, n)[Len(Append(t, n))] = n
    BY <1>12
  <2> QED BY <1>5, <1>8, <1>9, <1>10, <1>11, <1>14, <2>1
<1> QED BY <1>13, <1>14

\* What place chooses is what a migration of the same content would keep.
LEMMA CardKeepsName ==
  ASSUME NamesApart, Inv, NEW c \in OnCard, NEW n \in 0..(Suffixes - 1),
         \A m \in 0..(n - 1) : OwnedByOther(CardPath(c, m), c)
  PROVE  Layout(CardPath(c, n), c) = CardPath(c, n)
<1>1. c \in Stills \/ n = 0
  <2> SUFFICES ASSUME c \notin Stills, n # 0 PROVE FALSE
    OBVIOUS
  <2>1. OwnedByOther(CardPath(c, 0), c)
    OBVIOUS
  <2> QED BY <2>1, ClipsOwn DEF OwnedByOther
<1> QED BY <1>1, CardPathIsLayout DEF NamesApart

\* place gives a content a path that no file but its own can be at.
LEMMA RegisterKeeps ==
  ASSUME NamesApart, Inv, NEW c \in OnCard, Register(c)
  PROVE  Inv'
<1>1. PICK n \in 0..(Suffixes - 1) :
        /\ ~ OwnedByOther(CardPath(c, n), c)
        /\ \A m \in 0..(n - 1) : OwnedByOther(CardPath(c, m), c)
        /\ relpath' = [relpath EXCEPT ![c] = CardPath(c, n)]
  BY DEF Register
<1>2. /\ relpath[c] = None /\ UNCHANGED <<fs, comp, copy, compRow, ad, arch, crossed, faults>>
  BY DEF Register
<1> DEFINE r == CardPath(c, n)
<1>3. /\ c \in Contents /\ r \in Path /\ r # None
      /\ relpath \in [Contents -> PathOrNone]
  BY CardPathKeeps, AdoptAssumption DEF Inv, Types, TypeOK
<1>4. \A d \in Contents \ {c} : relpath[d] # r /\ ~ LibraryName(r, d)
  BY <1>1, CardApart DEF OwnedByOther, NamesApart
<1>5. Layout(r, c) = r
  BY <1>1, CardKeepsName
<1>6. CardNamed(r, c)
  BY DEF CardNamed
<1>7. /\ relpath'[c] = r /\ \A d \in Contents \ {c} : relpath'[d] = relpath[d]
      /\ relpath' \in [Contents -> PathOrNone]
  BY <1>1, <1>3 DEF PathOrNone
<1> HIDE DEF r
<1>8. Types'
  BY <1>2, <1>7 DEF Inv, Types, TypeOK, AdoptState
<1>9. Paths'
  BY <1>3, <1>4, <1>6, <1>7 DEF Inv, Paths
<1>10. Files'
  <2>1. \A q \in DOMAIN fs : q \in Path /\ fs[q] \in Contents /\ q # None
    BY AdoptAssumption DEF Inv, Types, TypeOK
  <2>2. \A q \in DOMAIN fs : LibraryName(q, fs[q]) \/ relpath'[fs[q]] = q
    BY <1>2, <1>7, <2>1 DEF Inv, Files
  <2>3. r \in DOMAIN fs => fs[r] = c
    BY <1>4, <2>1 DEF Inv, Files
  <2>4. \A d \in Contents : relpath'[d] \in DOMAIN fs => fs[relpath'[d]] = d
    BY <1>7, <2>3 DEF Inv, Files
  <2>5. \A d \in Contents \ OnCard : relpath'[d] # None => relpath'[d] \in DOMAIN fs
    BY <1>7 DEF Inv, Files
  <2> QED BY <1>2, <2>2, <2>4, <2>5 DEF Files
<1>11. Left'
  <2> SUFFICES ASSUME NEW p \in DOMAIN Library,
                      ~ (p \in DOMAIN fs /\ fs[p] = Library[p])
               PROVE  /\ relpath'[Library[p]] # p
                      /\ relpath'[Library[p]] = None \/ Library[p] \notin OnCard
                           => Layout(p, Library[p]) # p
    BY <1>2 DEF Left
  <2>1. /\ relpath[Library[p]] # p /\ Library[p] \in Contents
        /\ relpath[Library[p]] = None \/ Library[p] \notin OnCard
             => Layout(p, Library[p]) # p
    BY AdoptAssumption DEF Inv, Left
  <2>2. CASE Library[p] # c
    BY <1>7, <2>1, <2>2
  <2>3. CASE Library[p] = c
    BY <1>2, <1>3, <1>5, <1>7, <2>1, <2>3
  <2> QED BY <2>2, <2>3
<1>12. Besides'
  <2>1. \A q \in DOMAIN comp : q # None /\ comp[q].of \in Contents
    BY AdoptAssumption DEF Inv, Types, TypeOK, Companions
  <2> QED BY <1>2, <1>7, <2>1 DEF Inv, Besides
<1>13. Rows'
  <2>1. \A d \in Contents : relpath[d] # None => relpath'[d] # None
    BY <1>3, <1>7
  <2> QED BY <1>2, <2>1 DEF Inv, Rows, CopiesLead
<1>14. AtFile'
  <2> SUFFICES ASSUME ad.pc \in Working PROVE AtFile'
    BY <1>2 DEF AtFile
  <2>1. /\ ad.id \in Contents /\ ad.to \in Path /\ ad.to # None /\ ad.rel # None
        /\ \A d \in Contents \ {ad.id} : relpath[d] # ad.to
        /\ LibraryName(ad.to, ad.id) \/ relpath[ad.id] = ad.to
        /\ ad.rel = ad.to \/ (ad.mode = "in-place" /\ relpath[ad.id] = ad.rel)
    BY AdoptAssumption DEF Inv, AtFile
  <2>2. \A d \in Contents \ {ad.id} : relpath'[d] # ad.to
    BY <1>4, <1>7, <2>1
  <2>3. LibraryName(ad.to, ad.id) \/ relpath'[ad.id] = ad.to
    BY <1>2, <1>7, <2>1
  <2>4. ad.rel = ad.to \/ (ad.mode = "in-place" /\ relpath'[ad.id] = ad.rel)
    BY <1>2, <1>7, <2>1
  <2> QED BY <1>2, <2>2, <2>3, <2>4 DEF Inv, AtFile
<1>15. AtRename'
  <2> SUFFICES ASSUME ad.pc \in Renaming PROVE AtRename'
    BY <1>2 DEF AtRename, Renaming
  <2>1. ad.pc \in Working
    BY DEF Working, Renaming
  <2>2. ad.id \in Contents /\ ad.from \in Path
    BY <2>1 DEF Inv, AtFile
  <2>3. CASE ad.id # c
    BY <1>2, <1>7, <2>2, <2>3 DEF Inv, AtRename
  <2>4. CASE ad.id = c
    <3>1. copy[c] = None
      BY <1>2, <1>3 DEF Inv, Rows
    <3>2. Layout(ad.from, c) # ad.from
      BY <1>2, <2>4 DEF Inv, AtRename
    <3> QED BY <1>2, <1>5, <1>7, <2>4, <3>1, <3>2 DEF Inv, AtRename
  <2> QED BY <2>3, <2>4
<1>16. AtRows'
  <2>1. ad.pc = "copy" => ad.id \in Contents /\ ad.rel # None
    BY AdoptAssumption DEF Inv, AtFile, Working
  <2> QED BY <1>2, <1>7, <2>1 DEF Inv, AtRows
<1>17. Progress'
  BY <1>2 DEF Inv, Progress
<1>18. Pairs'
  <2>1. ASSUME r \in DOMAIN comp PROVE comp[r].of = c
    <3>1. comp[r].of \in Contents
      BY <2>1 DEF Inv, Types, TypeOK, Companions
    <3>2. r \in Beside => LibraryName(r, Library[r])
      BY AdoptAssumption DEF LibraryName
    <3> QED BY <1>2, <1>3, <1>4, <2>1, <3>1, <3>2 DEF Inv, Besides
  <2> QED BY <1>2, <1>7, <2>1 DEF Inv, Pairs
<1>19. Archives'
  <2>1. arch[c] = "none"
    BY <1>2, <1>3 DEF Inv, Archives
  <2> QED BY <1>2, <1>7, <2>1 DEF Inv, Archives
<1>20. AtCompanion'
  <2>1. ad.pc \in Moving => ad.id \in Contents \ {c}
    BY <1>2, AdoptAssumption DEF Inv, AtCompanion
  <2> QED BY <1>2, <1>7, <2>1 DEF Inv, AtCompanion, Moving
<1> QED BY <1>8, <1>9, <1>10, <1>11, <1>12, <1>13, <1>14, <1>15, <1>16, <1>17, <1>18,
           <1>19, <1>20 DEF Inv

\* An archive's looks: at the path of the original, and at its companion's.
LEMMA ArchiveLooksKeep ==
  ASSUME Inv, NEW c \in OnCard, ArchiveBegin(c) \/ ProxyLook(c)
  PROVE  Inv'
<1>1. c \in Contents /\ arch \in [Contents -> {"none", "copy", "row", "proxy", "proxyRow"}]
  BY AdoptAssumption DEF Inv, Types, TypeOK
<1>2. /\ UNCHANGED <<fs, comp, relpath, copy, compRow, ad, faults>>
      /\ crossed \subseteq crossed' /\ crossed' \subseteq crossed \cup {c}
      /\ \/ arch' = [arch EXCEPT ![c] = "copy"] /\ relpath[c] # None
         \/ /\ arch' = [arch EXCEPT ![c] = "proxy"] /\ copy[c] # None
            /\ relpath[c] \notin DOMAIN comp
            /\ ad.pc = "cmove" /\ ad.id = c => c \in crossed'
  BY DEF ArchiveBegin, ProxyLook
<1>3. /\ \A d \in Contents \ {c} : arch'[d] = arch[d]
      /\ arch' \in [Contents -> {"none", "copy", "row", "proxy", "proxyRow"}]
      /\ \/ arch'[c] = "copy" /\ relpath[c] # None
         \/ /\ arch'[c] = "proxy" /\ copy[c] # None /\ relpath[c] \notin DOMAIN comp
            /\ ad.pc = "cmove" /\ ad.id = c => c \in crossed'
  BY <1>1, <1>2
<1>4. Types'
  BY <1>1, <1>2, <1>3 DEF Inv, Types, TypeOK, AdoptState
<1>5. Paths' /\ Files' /\ Left' /\ Besides' /\ Pairs' /\ Rows'
  BY <1>2 DEF Inv, Paths, Files, Left, Besides, Pairs, Rows, CopiesLead
<1>6. Archives'
  BY <1>1, <1>2, <1>3 DEF Inv, Archives, Rows
<1>7. AtFile' /\ AtRename' /\ AtRows' /\ Progress'
  BY <1>2 DEF Inv, AtFile, AtRename, AtRows, Progress
<1>8. AtCompanion'
  <2>1. ad.pc = "cmove" => ad.id \in Contents
    BY DEF Inv, AtCompanion, Moving
  <2>2. ad.pc = "cmove" /\ arch'[ad.id] = "proxy" => ad.id \in crossed'
    BY <1>2, <1>3, <2>1 DEF Inv, AtCompanion
  <2> QED BY <1>2, <2>2 DEF Inv, AtCompanion
<1> QED BY <1>4, <1>5, <1>6, <1>7, <1>8 DEF Inv

\* The copy replaces nothing but the same content.
LEMMA ArchiveLandsKeeps ==
  ASSUME NamesApart, Inv, NEW c \in OnCard, ArchiveLands(c)
  PROVE  Inv'
<1> DEFINE r == relpath[c]
<1>1. /\ arch[c] = "copy" /\ arch' = [arch EXCEPT ![c] = "row"]
      /\ UNCHANGED <<comp, relpath, copy, compRow, ad, crossed, faults>>
      /\ fs' = Put(fs, r, c)
  BY DEF ArchiveLands
<1>2. c \in Contents /\ r # None /\ r \in Path
  <2>1. c \in Contents
    BY AdoptAssumption
  <2> QED BY <1>1, <2>1 DEF Inv, Archives, Types, TypeOK, PathOrNone
<1>3. r \in DOMAIN fs => fs[r] = c
  BY <1>2 DEF Inv, Files
<1>4. /\ DOMAIN fs' = DOMAIN fs \cup {r} /\ fs'[r] = c
      /\ \A q \in DOMAIN fs : fs'[q] = fs[q]
  BY <1>1, <1>3 DEF Put
<1>5. /\ \A d \in Contents \ {c} : arch'[d] = arch[d]
      /\ arch'[c] = "row"
      /\ arch' \in [Contents -> {"none", "copy", "row", "proxy", "proxyRow"}]
  BY <1>1, <1>2 DEF Inv, Types, TypeOK
<1>6. \A d \in Contents \ {c} : relpath[d] # r
  BY <1>2 DEF Inv, Paths
<1>7. LibraryName(r, c) \/ CardNamed(r, c)
  BY <1>2 DEF Inv, Paths
<1>8. relpath[c] = r
  OBVIOUS
<1> HIDE DEF r
<1>9. Types'
  <2>1. DOMAIN fs' \subseteq Path /\ \A q \in DOMAIN fs' : fs'[q] \in Contents
    BY <1>2, <1>4 DEF Inv, Types, TypeOK
  <2> QED BY <1>1, <1>5, <2>1 DEF Inv, Types, TypeOK, AdoptState
<1>10. Paths' /\ Pairs' /\ AtCompanion' /\ Progress'
  <2>1. ad.pc = "cmove" => ad.id \in Contents
    BY DEF Inv, AtCompanion, Moving
  <2>2. ad.pc = "cmove" /\ arch'[ad.id] = "proxy" => arch[ad.id] = "proxy"
    BY <1>5, <2>1
  <2> QED BY <1>1, <2>2 DEF Inv, Paths, Pairs, AtCompanion, Progress
<1>11. Files'
  <2>1. \A q \in DOMAIN fs' : LibraryName(q, fs'[q]) \/ relpath[fs'[q]] = q
    BY <1>4, <1>8 DEF Inv, Files
  <2>2. \A d \in Contents : relpath[d] \in DOMAIN fs' => fs'[relpath[d]] = d
    BY <1>4, <1>6, <1>8 DEF Inv, Files
  <2> QED BY <1>1, <1>4, <2>1, <2>2 DEF Inv, Files
<1>12. Left'
  BY <1>1, <1>4 DEF Inv, Left
<1>13. Besides'
  <2>1. ASSUME r \in Beside PROVE c = Library[r]
    <3>1. CASE LibraryName(r, c)
      BY <1>2, <1>3, <2>1, <3>1, BesideFree
    <3>2. CASE CardNamed(r, c)
      <4>1. r \in DOMAIN Library /\ Library[r] \in Contents /\ LibraryName(r, Library[r])
        BY <2>1, AdoptAssumption DEF LibraryName
      <4> QED BY <3>2, <4>1, CardApart DEF NamesApart, CardNamed
    <3> QED BY <1>7, <3>1, <3>2
  <2>2. \A q \in Beside \cap DOMAIN fs' : fs'[q] = Library[q]
    BY <1>4, <2>1 DEF Inv, Besides
  <2> QED BY <1>1, <2>2 DEF Inv, Besides
<1>14. Rows'
  BY <1>1, <1>4 DEF Inv, Rows, CopiesLead
<1>15. Archives'
  BY <1>1, <1>2, <1>4, <1>5, <1>8 DEF Inv, Archives
<1>16. AtFile'
  BY <1>1 DEF Inv, AtFile
<1>17. AtRename'
  <2>1. ad.pc = "move" => (ad.to \in DOMAIN fs' => fs'[ad.to] = ad.id)
    <3>1. ad.pc = "move" => \A d \in Contents \ {ad.id} : relpath[d] # ad.to
      BY DEF Inv, AtFile, Working
    <3> QED BY <1>2, <1>4, <1>8, <3>1 DEF Inv, AtRename
  <2> QED BY <1>1, <1>4, <2>1 DEF Inv, AtRename
<1>18. AtRows'
  BY <1>1, <1>4 DEF Inv, AtRows
<1> QED BY <1>9, <1>10, <1>11, <1>12, <1>13, <1>14, <1>15, <1>16, <1>17, <1>18 DEF Inv

\* The row of what landed.
LEMMA ArchiveRowKeeps ==
  ASSUME Inv, NEW c \in OnCard, ArchiveRow(c)
  PROVE  Inv'
<1>1. /\ arch[c] = "row" /\ arch' = [arch EXCEPT ![c] = "none"]
      /\ UNCHANGED <<fs, comp, relpath, compRow, ad, crossed, faults>>
      /\ copy' = [copy EXCEPT ![c] = relpath[c]]
  BY DEF ArchiveRow
<1>2. /\ c \in Contents /\ relpath[c] # None
      /\ copy \in [Contents -> PathOrNone] /\ relpath \in [Contents -> PathOrNone]
      /\ arch \in [Contents -> {"none", "copy", "row", "proxy", "proxyRow"}]
  BY <1>1, AdoptAssumption DEF Inv, Archives, Types, TypeOK
<1>3. relpath[c] \in DOMAIN fs /\ fs[relpath[c]] = c
  BY <1>1, <1>2 DEF Inv, Archives, Files
<1>4. /\ copy'[c] = relpath[c] /\ \A d \in Contents \ {c} : copy'[d] = copy[d]
      /\ copy' \in [Contents -> PathOrNone]
      /\ arch'[c] = "none" /\ \A d \in Contents \ {c} : arch'[d] = arch[d]
      /\ arch' \in [Contents -> {"none", "copy", "row", "proxy", "proxyRow"}]
  BY <1>1, <1>2
<1>5. \A d \in Contents : copy[d] # None => copy'[d] # None
  BY <1>2, <1>4
<1>6. Types'
  BY <1>1, <1>4 DEF Inv, Types, TypeOK, AdoptState
<1>7. Paths' /\ Files' /\ Left' /\ Besides' /\ Pairs'
  BY <1>1 DEF Inv, Paths, Files, Left, Besides, Pairs
<1>8. Rows'
  BY <1>1, <1>2, <1>3, <1>4 DEF Inv, Rows, CopiesLead
<1>9. Archives'
  BY <1>1, <1>4, <1>5 DEF Inv, Archives
<1>10. AtFile' /\ AtRows'
  BY <1>1 DEF Inv, AtFile, AtRows
<1>11. AtRename'
  <2>1. ad.pc \in Renaming => copy'[ad.id] = None \/ copy'[ad.id] = relpath[ad.id]
    <3>1. ad.pc \in Renaming => ad.id \in Contents
      BY DEF Inv, AtFile, Working, Renaming
    <3> QED BY <1>4, <3>1 DEF Inv, AtRename
  <2> QED BY <1>1, <2>1 DEF Inv, AtRename
<1>12. AtCompanion'
  <2>1. ad.pc \in Moving => ad.id \in Contents
    BY DEF Inv, AtCompanion
  <2>2. ad.pc = "cmove" => ad.pc \in Moving
    BY DEF Moving
  <2> QED BY <1>1, <1>4, <1>5, <2>1, <2>2 DEF Inv, AtCompanion
<1>13. Progress'
  <2>1. ad.seen \subseteq Contents /\ \A q \in DOMAIN ad.planned : ad.planned[q] \in Contents
    BY DEF Inv, Types, TypeOK
  <2> QED BY <1>1, <1>5, <2>1 DEF Inv, Progress
<1> QED BY <1>6, <1>7, <1>8, <1>9, <1>10, <1>11, <1>12, <1>13 DEF Inv

\* The card's companion comes to its content's path; one there is the content's too.
LEMMA ProxyLanded ==
  ASSUME Inv, NEW c \in OnCard, ProxyLands(c)
  PROVE  /\ c \in Contents /\ relpath[c] \in Path
         /\ relpath[c] \in DOMAIN comp => c \in crossed
         /\ DOMAIN comp' = DOMAIN comp \cup {relpath[c]}
         /\ comp'[relpath[c]] = [of |-> c, was |-> None]
         /\ \A q \in DOMAIN comp \ {relpath[c]} : comp'[q] = comp[q]
         /\ \A q \in DOMAIN comp : comp'[q].of = comp[q].of
         /\ \A d \in Contents \ {c} : relpath[d] # relpath[c]
<1> DEFINE m == [of |-> c, was |-> None]
<1>1. arch[c] = "proxy" /\ comp' = Put(comp, relpath[c], m)
  BY DEF ProxyLands
<1>2. /\ c \in Contents /\ relpath[c] \in Path /\ relpath[c] # None
      /\ relpath[c] \in DOMAIN comp => c \in crossed /\ comp[relpath[c]].of = c
  <2>1. c \in Contents
    BY AdoptAssumption
  <2>2. relpath[c] # None /\ (relpath[c] \in DOMAIN comp => c \in crossed)
    BY <1>1, <2>1 DEF Inv, Archives
  <2> QED BY <2>1, <2>2 DEF Inv, Pairs, Types, TypeOK, PathOrNone
<1>3. m.of = c
  OBVIOUS
<1> HIDE DEF m
<1>4. /\ DOMAIN comp' = DOMAIN comp \cup {relpath[c]} /\ comp'[relpath[c]] = m
      /\ \A q \in DOMAIN comp \ {relpath[c]} : comp'[q] = comp[q]
  BY <1>1 DEF Put
<1>5. \A q \in DOMAIN comp : comp'[q].of = comp[q].of
  BY <1>2, <1>3, <1>4
<1>6. \A d \in Contents \ {c} : relpath[d] # relpath[c]
  BY <1>2 DEF Inv, Paths
<1> QED BY <1>2, <1>4, <1>5, <1>6 DEF m

LEMMA ProxyLandsKeeps ==
  ASSUME Inv, NEW c \in OnCard, ProxyLands(c)
  PROVE  Inv'
<1> DEFINE r == relpath[c]
<1>1. /\ arch[c] = "proxy" /\ arch' = [arch EXCEPT ![c] = "proxyRow"]
      /\ UNCHANGED <<fs, relpath, copy, compRow, ad, crossed, faults>>
  BY DEF ProxyLands
<1>2. /\ c \in Contents /\ r \in Path /\ relpath[c] = r
      /\ DOMAIN comp' = DOMAIN comp \cup {r}
      /\ comp'[r] = [of |-> c, was |-> None]
      /\ \A q \in DOMAIN comp \ {r} : comp'[q] = comp[q]
      /\ \A q \in DOMAIN comp : comp'[q].of = comp[q].of
      /\ \A d \in Contents \ {c} : relpath[d] # r
  BY ProxyLanded
<1> HIDE DEF r
<1>3. comp'[r].of = c
  BY <1>2
<1>4. /\ arch'[c] = "proxyRow" /\ \A d \in Contents \ {c} : arch'[d] = arch[d]
      /\ arch' \in [Contents -> {"none", "copy", "row", "proxy", "proxyRow"}]
  BY <1>1, <1>2 DEF Inv, Types, TypeOK
<1>5. Types'
  <2>1. [of |-> c, was |-> None] \in Companions
    BY <1>2 DEF Companions, PathOrNone
  <2>2. DOMAIN comp' \subseteq Path /\ \A q \in DOMAIN comp' : comp'[q] \in Companions
    BY <1>2, <2>1 DEF Inv, Types, TypeOK
  <2> QED BY <1>1, <1>4, <2>2 DEF Inv, Types, TypeOK, AdoptState
<1>6. Paths' /\ Files' /\ Left' /\ Rows'
  BY <1>1 DEF Inv, Paths, Files, Left, Rows, CopiesLead
<1>7. Besides'
  <2>1. ASSUME NEW q \in DOMAIN comp'
        PROVE  (q \in Beside /\ Library[q] = comp'[q].of) \/ relpath[comp'[q].of] = q
    BY <1>2, <1>3 DEF Inv, Besides
  <2> QED BY <1>1, <2>1 DEF Inv, Besides
<1>8. Pairs'
  BY <1>1, <1>2, <1>3 DEF Inv, Pairs
<1>9. Archives'
  BY <1>1, <1>2, <1>4 DEF Inv, Archives
<1>10. AtFile' /\ AtRename' /\ AtRows'
  BY <1>1, <1>2 DEF Inv, AtFile, AtRename, AtRows, Progress
<1>11. AtCompanion'
  <2>1. ad.pc \in Moving => ad.id \in Contents /\ ad.to = relpath[ad.id]
    BY DEF Inv, AtCompanion
  <2>2. ad.pc = "cmove" => ad.pc \in Moving
    BY DEF Moving
  <2>3. ad.pc = "cmove" /\ (ad.to \in DOMAIN comp' \/ arch'[ad.id] = "proxy")
          => ad.id \in crossed
    BY <1>1, <1>2, <1>4, <2>1, <2>2 DEF Inv, AtCompanion
  <2>4. ad.pc = "cmove" => ad.from \in DOMAIN comp' /\ comp'[ad.from].of = ad.id
    BY <1>2 DEF Inv, AtCompanion
  <2> QED BY <1>1, <1>2, <2>3, <2>4 DEF Inv, AtCompanion
<1>12. Progress'
  BY <1>1, <1>2 DEF Inv, Progress
<1> QED BY <1>5, <1>6, <1>7, <1>8, <1>9, <1>10, <1>11, <1>12 DEF Inv

\* The companion's row.
LEMMA ProxyRowKeeps ==
  ASSUME Inv, NEW c \in OnCard, ProxyRow(c)
  PROVE  Inv'
<1>1. /\ arch' = [arch EXCEPT ![c] = "none"] /\ compRow' = [compRow EXCEPT ![c] = relpath[c]]
      /\ UNCHANGED <<fs, comp, relpath, copy, ad, crossed, faults>>
  BY DEF ProxyRow
<1>2. /\ c \in Contents /\ compRow' \in [Contents -> PathOrNone]
      /\ arch'[c] = "none" /\ \A d \in Contents \ {c} : arch'[d] = arch[d]
      /\ arch' \in [Contents -> {"none", "copy", "row", "proxy", "proxyRow"}]
  BY <1>1, AdoptAssumption DEF Inv, Types, TypeOK
<1>3. Types'
  BY <1>1, <1>2 DEF Inv, Types, TypeOK, AdoptState
<1>4. Paths' /\ Files' /\ Left' /\ Besides' /\ Pairs' /\ Rows'
  BY <1>1 DEF Inv, Paths, Files, Left, Besides, Pairs, Rows, CopiesLead
<1>5. Archives'
  BY <1>1, <1>2 DEF Inv, Archives
<1>6. AtFile' /\ AtRename' /\ AtRows' /\ Progress'
  BY <1>1 DEF Inv, AtFile, AtRename, AtRows, Progress
<1>7. AtCompanion'
  <2>1. ad.pc = "cmove" => ad.id \in Contents
    BY DEF Inv, AtCompanion, Moving
  <2> QED BY <1>1, <1>2, <2>1 DEF Inv, AtCompanion
<1> QED BY <1>3, <1>4, <1>5, <1>6, <1>7 DEF Inv

-----------------------------------------------------------------------------
(* Every step.                                                             *)

\* Each action by its lemma.
LEMMA InvStep == NamesApart /\ Inv /\ [Next]_vars => Inv'
<1> SUFFICES ASSUME NamesApart, Inv, [Next]_vars PROVE Inv'
  OBVIOUS
<1>1. ASSUME NEW mode \in Modes, Begin(mode) PROVE Inv'
  BY <1>1, BeginKeeps
<1>2. ASSUME NEW p \in ad.todo, Duplicate(p) \/ Known(p) \/ InPlace(p) \/ Migrate(p)
      PROVE  Inv'
  <2>1. p \in Path
    BY DEF Inv, Types, TypeOK
  <2> QED BY <1>2, <2>1, PassKeeps, KnownKeeps, InPlaceKeeps, MigrateKeeps
<1>3. CASE Rename \/ Move \/ AssetRow \/ CopyRow
  BY <1>3, RenameKeeps, MoveKeeps, AssetRowKeeps, CopyRowKeeps
<1>4. CASE CompanionsBegin \/ End
  BY <1>4, PassKeeps
<1>5. ASSUME NEW p \in ad.ctodo, Orphan(p) \/ CompanionHere(p) \/ CompanionLook(p)
      PROVE  Inv'
  BY <1>5, PassKeeps, CompanionHereKeeps, CompanionLookKeeps
<1>6. CASE Crash
  BY <1>6, CrashKeeps
<1>7. ASSUME NEW c \in OnCard,
             \/ Register(c) \/ ArchiveBegin(c) \/ ArchiveLands(c) \/ ArchiveRow(c)
             \/ ProxyLook(c) \/ ProxyLands(c) \/ ProxyRow(c)
      PROVE  Inv'
  BY <1>7, RegisterKeeps, ArchiveLooksKeep, ArchiveLandsKeeps, ArchiveRowKeeps,
     ProxyLandsKeeps, ProxyRowKeeps
<1>8. CASE UNCHANGED vars
  <2>1. UNCHANGED <<fs, comp, relpath, copy, compRow, ad, arch, crossed, faults>>
    BY <1>8 DEF vars
  <2>2. Types'
    BY <2>1 DEF Inv, Types, TypeOK, AdoptState
  <2>3. AtFile' /\ AtRename' /\ AtRows' /\ AtCompanion' /\ Progress'
    BY <2>1 DEF Inv, AtFile, AtRename, AtRows, AtCompanion, Progress
  <2> QED BY <2>1, <2>2, <2>3, WorldKept DEF Inv
<1>9. CASE CompanionMove \/ CompanionRow
  BY <1>9, CompanionMoveKeeps, CompanionRowKeeps
<1> QED BY <1>1, <1>2, <1>3, <1>4, <1>5, <1>6, <1>7, <1>8, <1>9 DEF Next, AdoptStep

-----------------------------------------------------------------------------
(* Companions beside their originals, with one mode for all runs.          *)

\* An untouched library has every companion beside its original.
LEMMA FollowInit == Init => FollowInv
<1> SUFFICES ASSUME Init PROVE FollowInv
  OBVIOUS
<1>1. ad.pc = "idle" /\ fs = Library /\ DOMAIN comp = Beside
  BY DEF Init, NoRun
<1>2. \A c \in Contents : relpath[c] = None /\ copy[c] = None /\ compRow[c] = None
  BY DEF Init
<1>3. InPlaceRows /\ CompanionsLead
  BY <1>1, <1>2, AdoptAssumption DEF InPlaceRows, CompanionsLead, Renaming
<1>4. MigrateRows
  <2>1. \A q \in DOMAIN comp : q # None /\ comp[q].of \in Contents
    BY <1>1, AdoptAssumption DEF Init
  <2> QED BY <1>2, <2>1 DEF MigrateRows
<1>5. Through
  BY <1>1 DEF Through
<1> QED BY <1>3, <1>4, <1>5 DEF FollowInv

\* A step of the run that touches neither files nor rows.
LEMMA FollowIdle ==
  ASSUME FollowInv, UNCHANGED <<fs, comp, relpath, copy, compRow>>,
         ad'.mode = ad.mode, ad'.pc \in Renaming => ad.mode = "migrate", Through'
  PROVE  FollowInv'
<1>1. InPlaceRows'
  BY DEF FollowInv, InPlaceRows
<1>2. MigrateRows'
  BY DEF FollowInv, MigrateRows
<1>3. CompanionsLead'
  BY DEF FollowInv, CompanionsLead
<1> QED BY <1>1, <1>2, <1>3 DEF FollowInv

\* A run that starts, or stops.
LEMMA FollowRuns ==
  ASSUME Inv, FollowInv, ~ Mixed,
         \/ \E mode \in Modes : Begin(mode)
         \/ Crash \/ Rename \/ \E p \in ad.ctodo : CompanionLook(p)
  PROVE  FollowInv'
<1> USE DEF Working, Renaming
<1>1. ad \in AdoptState
  BY DEF Inv, Types
<1>2. ASSUME NEW mode \in Modes, Begin(mode) PROVE FollowInv'
  <2>1. ad' = [NoRun(mode) EXCEPT !.pc = "originals", !.todo = DOMAIN fs, !.ctodo = DOMAIN comp]
        /\ mode = ad.mode /\ UNCHANGED <<fs, comp, relpath, copy, compRow>>
    BY <1>2 DEF Begin
  <2>2. ad'.pc = "originals" /\ ad'.mode = ad.mode /\ ad'.ctodo = DOMAIN comp
    BY <2>1 DEF NoRun
  <2>3. Through'
    BY <2>1, <2>2 DEF Through
  <2> QED BY <2>1, <2>2, <2>3, FollowIdle
<1>3. ASSUME NEW pc \in {"idle", "owned", "failed"}, ad' = Stopped(pc),
             UNCHANGED <<fs, comp, relpath, copy, compRow>>
      PROVE  FollowInv'
  <2>1. ad'.pc = pc /\ ad'.mode = ad.mode
    BY <1>3, StoppedState
  <2>2. Through'
    BY <2>1 DEF Through
  <2> QED BY <1>3, <2>1, <2>2, FollowIdle
<1>4. ASSUME Rename, ad' = [ad EXCEPT !.pc = "move"] PROVE FollowInv'
  <2>1. ad.pc = "rename" /\ UNCHANGED <<fs, comp, relpath, copy, compRow>>
    BY <1>4 DEF Rename
  <2>2. /\ ad'.pc = "move" /\ ad'.mode = ad.mode /\ ad'.ctodo = ad.ctodo
        /\ ad'.planned = ad.planned
    BY <1>1, <1>4 DEF AdoptState
  <2>3. ad.mode = "migrate"
    BY <2>1 DEF Inv, AtRename
  <2>4. Through'
    BY <2>1, <2>2 DEF FollowInv, Through, Moving
  <2> QED BY <2>1, <2>2, <2>3, <2>4, FollowIdle
<1>5. CASE Rename
  BY <1>3, <1>4, <1>5 DEF Rename
<1>6. CASE Crash
  BY <1>3, <1>6 DEF Crash
<1>7. ASSUME NEW p \in ad.ctodo, CompanionLook(p) PROVE FollowInv'
  <2> DEFINE c == ad.planned[p]
             to == CompanionPath(c, p)
  <2>1. /\ ad.pc = "companions" /\ UNCHANGED <<fs, comp, relpath, copy, compRow>>
        /\ \/ ad' = Stopped("failed")
           \/ ad' = [ad EXCEPT !.pc = "cmove", !.from = p, !.to = to, !.id = c]
    BY <1>7 DEF CompanionLook
  <2> HIDE DEF c, to
  <2>2. CASE ad' = [ad EXCEPT !.pc = "cmove", !.from = p, !.to = to, !.id = c]
    <3>1. /\ ad'.pc = "cmove" /\ ad'.mode = ad.mode /\ ad'.ctodo = ad.ctodo
          /\ ad'.planned = ad.planned
      BY <1>1, <2>2 DEF AdoptState
    <3>2. Through'
      BY <2>1, <3>1 DEF FollowInv, Through, Moving
    <3> QED BY <2>1, <3>1, <3>2, FollowIdle
  <2> QED BY <1>3, <2>1, <2>2
<1> QED BY <1>2, <1>5, <1>6, <1>7

\* Taking up originals, and the ends of the two passes.
LEMMA FollowPass ==
  ASSUME Inv, FollowInv,
         \/ \E p \in ad.todo : Duplicate(p) \/ Known(p) \/ InPlace(p) \/ Migrate(p)
         \/ CompanionsBegin \/ End \/ \E p \in ad.ctodo : Orphan(p)
  PROVE  FollowInv'
<1>0. ad \in AdoptState
  BY DEF Inv, Types
<1>1. ASSUME UNCHANGED <<fs, comp, relpath, copy, compRow>>, ad.pc = "originals",
             ad'.pc \in Working \cup {"originals", "companions"}, ad'.mode = ad.mode,
             ad'.pc \in Renaming => ad.mode = "migrate", ad'.ctodo = ad.ctodo
      PROVE  FollowInv'
  <2>1. Through'
    BY <1>1 DEF FollowInv, Through, Working, Moving
  <2> QED BY <1>1, <2>1, FollowIdle
<1>2. ASSUME NEW p \in ad.todo, Duplicate(p) \/ Known(p) PROVE FollowInv'
  <2>1. /\ ad.pc = "originals" /\ UNCHANGED <<fs, comp, relpath, copy, compRow>>
        /\ \/ ad' = [ad EXCEPT !.todo = @ \ {p}]
           \/ ad' = [ad EXCEPT !.todo = @ \ {p}, !.seen = @ \cup {fs[p]},
                               !.planned = Plan(p, fs[p])]
    BY <1>2 DEF Duplicate, Known, IsNext
  <2>2. ad'.pc = "originals" /\ ad'.mode = ad.mode /\ ad'.ctodo = ad.ctodo
    BY <1>0, <2>1 DEF AdoptState
  <2> QED BY <1>1, <2>1, <2>2 DEF Renaming
<1>3. ASSUME NEW p \in ad.todo, InPlace(p) PROVE FollowInv'
  <2>1. /\ ad.pc = "originals" /\ UNCHANGED <<fs, comp, relpath, copy, compRow>>
        /\ ad'.mode = ad.mode /\ ad'.ctodo = ad.ctodo
    BY <1>0, <1>3 DEF InPlace, IsNext, AdoptState
  <2>2. ad'.pc = "asset"
    BY <1>3, InPlaceKeeps
  <2> QED BY <1>1, <2>1, <2>2 DEF Renaming, Working
<1>4. ASSUME NEW p \in ad.todo, Migrate(p) PROVE FollowInv'
  <2> DEFINE rel == MigratePath(p, fs[p])
             run == [ad EXCEPT !.todo = @ \ {p}, !.seen = @ \cup {fs[p]}]
  <2>1. /\ ad.pc = "originals" /\ ad.mode = "migrate"
        /\ UNCHANGED <<fs, comp, relpath, copy, compRow>>
        /\ ad' = IF rel = None THEN Stopped("failed")
                 ELSE [run EXCEPT !.pc = IF rel = p THEN "asset" ELSE "rename",
                                  !.from = p, !.to = rel, !.id = fs[p], !.rel = rel,
                                  !.claimed = @ \cup {rel}]
    BY <1>4 DEF Migrate, IsNext
  <2>2. CASE rel = None
    <3>1. ad'.pc = "failed" /\ ad'.mode = ad.mode
      BY <2>1, <2>2, StoppedState
    <3>2. Through'
      BY <3>1 DEF Through
    <3> QED BY <2>1, <3>1, <3>2, FollowIdle DEF Renaming
  <2>3. CASE rel # None
    <3> HIDE DEF rel
    <3>1. ad'.pc \in {"asset", "rename"} /\ ad'.mode = ad.mode /\ ad'.ctodo = ad.ctodo
      BY <1>0, <2>1, <2>3 DEF AdoptState
    <3> QED BY <1>1, <2>1, <3>1 DEF Working
  <2> QED BY <2>2, <2>3
<1>5. CASE CompanionsBegin
  <2>1. /\ ad.pc = "originals" /\ UNCHANGED <<fs, comp, relpath, copy, compRow>>
        /\ ad'.pc = "companions" /\ ad'.mode = ad.mode /\ ad'.ctodo = ad.ctodo
    BY <1>0, <1>5 DEF CompanionsBegin, AdoptState
  <2> QED BY <1>1, <2>1 DEF Renaming
<1>6. CASE End
  <2>1. /\ ad.pc = "companions" /\ UNCHANGED <<fs, comp, relpath, copy, compRow>>
        /\ ad'.pc = "done" /\ ad'.mode = ad.mode /\ ad'.ctodo = ad.ctodo /\ ad.ctodo = {}
        /\ ad'.planned = ad.planned
    BY <1>0, <1>6 DEF End, AdoptState
  <2>2. Through'
    BY <2>1 DEF FollowInv, Through, Moving
  <2> QED BY <2>1, <2>2, FollowIdle DEF Renaming
<1>7. ASSUME NEW p \in ad.ctodo, Orphan(p) PROVE FollowInv'
  <2>1. /\ ad.pc = "companions" /\ UNCHANGED <<fs, comp, relpath, copy, compRow>>
        /\ ad'.pc = "companions" /\ ad'.mode = ad.mode /\ ad'.ctodo = ad.ctodo \ {p}
        /\ ad'.planned = ad.planned /\ p \notin DOMAIN ad.planned
    BY <1>0, <1>7 DEF Orphan, AdoptState
  <2>2. Through'
    BY <2>1 DEF FollowInv, Through, Moving
  <2> QED BY <2>1, <2>2, FollowIdle DEF Renaming
<1> QED BY <1>2, <1>3, <1>4, <1>5, <1>6, <1>7

\* Renames and their rows: a row names the path that the file was renamed to.
LEMMA FollowFile ==
  ASSUME Inv, FollowInv, Move \/ AssetRow \/ CopyRow
  PROVE  FollowInv'
<1> DEFINE id == ad.id
           to == ad.to
<1>1. ad \in AdoptState /\ ad.pc \in {"move", "asset", "copy"} /\ ad.pc \in Working
  BY DEF Inv, Types, Move, AssetRow, CopyRow, Working
<1>2. /\ id \in Contents /\ to \in Path /\ to # None /\ ad.rel # None
      /\ ad.mode = "migrate" => ad.rel = to
  BY <1>1, AdoptAssumption DEF Inv, AtFile
<1>3. \A q \in DOMAIN comp : q # None /\ comp[q].of \in Contents
  BY AdoptAssumption DEF Inv, Types, TypeOK, Companions
<1>4. ad.mode = "migrate" => \A q \in DOMAIN comp \ ad.ctodo : relpath[comp[q].of] = q
  BY <1>1 DEF FollowInv, Through, Working, Moving
<1>5. CASE Move
  <2>1. /\ fs' = Put(Drop(fs, ad.from), to, id) /\ ad' = [ad EXCEPT !.pc = "asset"]
        /\ UNCHANGED <<comp, relpath, copy, compRow>> /\ ad.pc \in Renaming
    BY <1>5 DEF Move, Renaming
  <2>2. ad'.pc = "asset" /\ ad'.mode = ad.mode /\ ad'.ctodo = ad.ctodo
    BY <1>1, <2>1 DEF AdoptState
  <2>3. /\ ad.mode = "migrate" /\ fs[ad.from] = id /\ relpath[id] # ad.from
        /\ ad.from \in DOMAIN fs
    BY <2>1 DEF Inv, AtRename
  <2> HIDE DEF id, to
  <2>4. DOMAIN fs' = (DOMAIN fs \ {ad.from}) \cup {to}
    BY <2>1 DEF Put, Drop
  <2>5. \A c \in Contents : relpath[c] \in DOMAIN fs => relpath[c] \in DOMAIN fs'
    BY <2>3, <2>4 DEF Inv, Files
  <2>6. InPlaceRows' /\ Through'
    BY <1>4, <2>1, <2>2, <2>3 DEF InPlaceRows, Through
  <2>7. MigrateRows'
    BY <1>3, <2>1, <2>2, <2>5 DEF FollowInv, MigrateRows
  <2>8. CompanionsLead'
    BY <2>1 DEF FollowInv, CompanionsLead
  <2> QED BY <2>6, <2>7, <2>8 DEF FollowInv
<1>6. CASE AssetRow
  <2>1. /\ ad.pc = "asset" /\ UNCHANGED <<fs, comp, copy, compRow>>
        /\ to \in DOMAIN fs
    BY <1>6 DEF AssetRow, Inv, AtRows
  <2>2. CASE \E pc \in {"owned", "failed"} : ad' = Stopped(pc) /\ relpath' = relpath
    <3>1. ad'.pc \in {"owned", "failed"} /\ ad'.mode = ad.mode
      BY <2>2, StoppedState
    <3>2. Through'
      BY <3>1 DEF Through
    <3> QED BY <2>1, <2>2, <3>1, <3>2, FollowIdle DEF Renaming
  <2>3. CASE /\ ad' = [ad EXCEPT !.pc = "copy"]
             /\ relpath' = relpath
    <3>1. ad'.pc = "copy" /\ ad'.mode = ad.mode /\ ad'.ctodo = ad.ctodo
      BY <1>1, <2>3 DEF AdoptState
    <3>2. Through'
      BY <1>4, <2>1, <2>3, <3>1 DEF Through
    <3> QED BY <2>1, <2>3, <3>1, <3>2, FollowIdle DEF Renaming
  <2>4. CASE /\ ad' = [ad EXCEPT !.pc = "copy"] /\ relpath[id] = None
             /\ relpath' = [relpath EXCEPT ![id] = ad.rel]
    <3>1. ad'.pc = "copy" /\ ad'.mode = ad.mode /\ ad'.ctodo = ad.ctodo
      BY <1>1, <2>4 DEF AdoptState
    <3>2. relpath'[id] = ad.rel /\ \A c \in Contents \ {id} : relpath'[c] = relpath[c]
      BY <1>2, <2>4 DEF Inv, Types, TypeOK
    <3> HIDE DEF id, to
    <3>3. InPlaceRows'
      BY <2>1, <3>1 DEF FollowInv, InPlaceRows, Renaming
    <3>4. ad.mode = "migrate" => copy[id] = None /\ compRow[id] = None
      BY <1>2, <2>4 DEF Inv, Rows, FollowInv, MigrateRows
    <3>5. MigrateRows'
      BY <1>2, <1>3, <2>1, <3>1, <3>2, <3>4 DEF FollowInv, MigrateRows
    <3>6. Through'
      BY <1>3, <1>4, <2>1, <2>4, <3>1, <3>2 DEF Through
    <3>7. CompanionsLead'
      BY <2>1 DEF FollowInv, CompanionsLead
    <3> QED BY <3>3, <3>5, <3>6, <3>7 DEF FollowInv
  <2> QED BY <1>6, <2>2, <2>3, <2>4 DEF AssetRow
<1>7. CASE CopyRow
  <2>1. /\ copy' = [copy EXCEPT ![id] = to]
        /\ ad' = [ad EXCEPT !.pc = "originals", !.planned = Plan(ad.from, id),
                            !.from = None, !.to = None, !.id = None, !.rel = None]
        /\ UNCHANGED <<fs, comp, relpath, compRow>>
        /\ relpath[id] = ad.rel
    BY <1>7 DEF CopyRow, Inv, AtRows
  <2>2. ad'.pc = "originals" /\ ad'.mode = ad.mode /\ ad'.ctodo = ad.ctodo
    BY <1>1, <2>1 DEF AdoptState
  <2>3. copy'[id] = to /\ \A c \in Contents \ {id} : copy'[c] = copy[c]
    BY <1>2, <2>1 DEF Inv, Types, TypeOK
  <2> HIDE DEF id, to
  <2>4. InPlaceRows'
    BY <2>1, <2>2 DEF FollowInv, InPlaceRows, Renaming
  <2>5. MigrateRows'
    BY <1>2, <2>1, <2>2, <2>3 DEF FollowInv, MigrateRows
  <2>6. Through'
    BY <1>4, <2>1, <2>2 DEF Through
  <2>7. CompanionsLead'
    BY <2>1 DEF FollowInv, CompanionsLead
  <2> QED BY <2>4, <2>5, <2>6, <2>7 DEF FollowInv
<1> QED BY <1>5, <1>6, <1>7

\* A companion that moves goes to where its original is, and its row follows.
LEMMA FollowCompanion ==
  ASSUME Inv, FollowInv,
         \/ \E p \in ad.ctodo : CompanionHere(p)
         \/ CompanionMove \/ CompanionRow
  PROVE  FollowInv'
<1>1. ad \in AdoptState /\ compRow \in [Contents -> PathOrNone]
  BY DEF Inv, Types, TypeOK
<1>2. ASSUME NEW p \in ad.ctodo, CompanionHere(p) PROVE FollowInv'
  <2> DEFINE c == ad.planned[p]
  <2>1. /\ ad.pc = "companions" /\ p \in DOMAIN ad.planned /\ CompanionPath(c, p) = p
        /\ compRow' = [compRow EXCEPT ![c] = p]
        /\ ad' = [ad EXCEPT !.ctodo = @ \ {p}]
        /\ UNCHANGED <<fs, comp, relpath, copy>>
    BY <1>2 DEF CompanionHere
  <2>2. c \in Contents /\ p \in DOMAIN comp /\ comp[p].of = c
    BY <2>1, Paired
  <2>3. ad.mode = "migrate" => relpath[c] = p
    BY <2>1 DEF CompanionPath
  <2> HIDE DEF c
  <2>4. /\ ad'.pc = "companions" /\ ad'.ctodo = ad.ctodo \ {p} /\ ad'.mode = ad.mode
        /\ ad'.planned = ad.planned
    BY <1>1, <2>1 DEF AdoptState
  <2>5. compRow'[c] = p /\ \A d \in Contents \ {c} : compRow'[d] = compRow[d]
    BY <1>1, <2>1, <2>2
  <2>6. InPlaceRows'
    BY <2>1, <2>4 DEF FollowInv, InPlaceRows, Renaming
  <2>7. MigrateRows'
    BY <2>1, <2>3, <2>4, <2>5 DEF FollowInv, MigrateRows
  <2>8. Through'
    BY <2>1, <2>2, <2>3, <2>4 DEF FollowInv, Through
  <2>9. CompanionsLead'
    BY <2>1, <2>2, <2>5 DEF FollowInv, CompanionsLead
  <2> QED BY <2>6, <2>7, <2>8, <2>9 DEF FollowInv
<1>3. CASE CompanionMove
  <2> DEFINE id == ad.id
             from == ad.from
             to == ad.to
  <2>1. /\ id \in Contents /\ to = relpath[id]
        /\ from \in DOMAIN comp /\ comp[from].of = id
        /\ DOMAIN comp' = (DOMAIN comp \ {from}) \cup {to}
        /\ \A q \in DOMAIN comp' : comp'[q] = IF q = to THEN comp[from] ELSE comp[q]
        /\ \A c \in Contents : relpath[c] # from
        /\ \A c \in Contents \ {id} : relpath[c] # to
    BY <1>3, CompanionMoved
  <2>2. /\ ad'.pc = "crow" /\ ad'.ctodo = ad.ctodo \ {from} /\ ad'.mode = ad.mode
        /\ ad'.planned = ad.planned
    BY <1>3, CompanionMoved
  <2>3. /\ ad.pc = "cmove" /\ ad.mode = "migrate" /\ copy[id] # None
        /\ UNCHANGED <<fs, relpath, copy, compRow>>
    BY <1>3 DEF CompanionMove, Inv, AtCompanion, Moving
  <2> HIDE DEF id, from, to
  <2>4. InPlaceRows'
    BY <2>2, <2>3 DEF InPlaceRows
  <2>5. MigrateRows'
    <3>1. relpath[id] \in DOMAIN fs
      BY <2>1, <2>3 DEF FollowInv, MigrateRows, Inv, Rows, CopiesLead
    <3> QED BY <2>1, <2>2, <2>3, <3>1 DEF FollowInv, MigrateRows
  <2>6. Through'
    <3> SUFFICES ASSUME NEW q \in DOMAIN comp' \ ad'.ctodo
                 PROVE  relpath[comp'[q].of] = q \/ q \notin DOMAIN ad.planned
      BY <2>2, <2>3 DEF Through, Moving
    <3>1. CASE q = to
      BY <2>1, <3>1
    <3>2. CASE q # to
      <4>1. q \in DOMAIN comp \ ad.ctodo /\ comp'[q] = comp[q]
        BY <2>1, <2>2, <3>2
      <4> QED BY <2>3, <4>1 DEF FollowInv, Through
    <3> QED BY <3>1, <3>2
  <2>7. CompanionsLead'
    <3> SUFFICES ASSUME NEW c \in Contents, compRow[c] # None
                 PROVE  compRow[c] \in DOMAIN comp' /\ comp'[compRow[c]].of = c
      BY <2>3 DEF CompanionsLead
    <3>1. /\ compRow[c] \in DOMAIN comp /\ comp[compRow[c]].of = c
          /\ compRow[c] = relpath[c]
      BY <2>3 DEF FollowInv, CompanionsLead, MigrateRows
    <3> QED BY <2>1, <3>1
  <2> QED BY <2>4, <2>5, <2>6, <2>7 DEF FollowInv
<1>4. CASE CompanionRow
  <2> DEFINE id == ad.id
             to == ad.to
  <2>1. /\ ad.pc = "crow" /\ compRow' = [compRow EXCEPT ![id] = to]
        /\ ad' = [ad EXCEPT !.pc = "companions", !.from = None, !.to = None, !.id = None]
        /\ UNCHANGED <<fs, comp, relpath, copy>>
    BY <1>4 DEF CompanionRow
  <2>2. /\ id \in Contents /\ to = relpath[id] /\ to \in DOMAIN comp
        /\ ad.mode = "migrate"
    BY <2>1 DEF Inv, AtCompanion, Moving
  <2>3. comp[to].of = id
    BY <2>2 DEF Inv, Pairs
  <2> HIDE DEF id, to
  <2>4. /\ ad'.pc = "companions" /\ ad'.ctodo = ad.ctodo /\ ad'.mode = ad.mode
        /\ ad'.planned = ad.planned
    BY <1>1, <2>1 DEF AdoptState
  <2>5. compRow'[id] = to /\ \A d \in Contents \ {id} : compRow'[d] = compRow[d]
    BY <1>1, <2>1, <2>2
  <2>6. InPlaceRows'
    BY <2>2, <2>4 DEF InPlaceRows
  <2>7. MigrateRows'
    BY <2>1, <2>2, <2>4, <2>5 DEF FollowInv, MigrateRows
  <2>8. Through'
    BY <2>1, <2>4 DEF FollowInv, Through, Moving
  <2>9. CompanionsLead'
    BY <2>1, <2>2, <2>3, <2>5 DEF FollowInv, CompanionsLead
  <2> QED BY <2>6, <2>7, <2>8, <2>9 DEF FollowInv
<1> QED BY <1>2, <1>3, <1>4

\* Imports: a card's file gets no path with only a companion at it, and its own
\* companion comes after it.
LEMMA FollowImport ==
  ASSUME NamesApart, Inv, FollowInv, NEW c \in OnCard,
         \/ Register(c) \/ ArchiveBegin(c) \/ ArchiveLands(c) \/ ArchiveRow(c)
         \/ ProxyLook(c) \/ ProxyLands(c) \/ ProxyRow(c)
  PROVE  FollowInv'
<1>1. \A q \in DOMAIN comp : q # None /\ comp[q].of \in Contents
  BY AdoptAssumption DEF Inv, Types, TypeOK, Companions
<1>2. c \in Contents /\ ad' = ad
  BY AdoptAssumption DEF Register, ArchiveBegin, ArchiveLands, ArchiveRow, ProxyLook,
                         ProxyLands, ProxyRow
<1>3. CASE Register(c)
  <2>1. PICK n \in 0..(Suffixes - 1) :
          /\ \A m \in 0..(n - 1) : OwnedByOther(CardPath(c, m), c)
          /\ relpath' = [relpath EXCEPT ![c] = CardPath(c, n)]
    BY <1>3 DEF Register
  <2>2. relpath[c] = None /\ UNCHANGED <<fs, comp, copy, compRow>>
    BY <1>3 DEF Register
  <2> DEFINE r == CardPath(c, n)
  <2>3. Layout(r, c) = r /\ r # None
    BY <2>1, CardKeepsName, CardPathKeeps, AdoptAssumption
  <2>4. relpath'[c] = r /\ \A d \in Contents \ {c} : relpath'[d] = relpath[d]
    BY <1>2, <2>1 DEF Inv, Types, TypeOK
  <2> HIDE DEF r
  <2>5. ASSUME NEW q \in DOMAIN comp, comp[q].of = c, q = r PROVE q \in DOMAIN fs
    <3>1. q \in Beside /\ Library[q] = c /\ q \in DOMAIN Library
      BY <1>1, <2>2, <2>5, AdoptAssumption DEF Inv, Besides
    <3> QED BY <2>2, <2>3, <2>5, <3>1 DEF Inv, Left
  <2>6. InPlaceRows'
    BY <1>2, <2>2 DEF FollowInv, InPlaceRows
  <2>7. ad.mode = "migrate" => copy[c] = None /\ compRow[c] = None
    BY <1>2, <2>2 DEF Inv, Rows, FollowInv, MigrateRows
  <2>8. MigrateRows'
    BY <1>1, <1>2, <2>2, <2>4, <2>5, <2>7 DEF FollowInv, MigrateRows
  <2>9. Through'
    BY <1>1, <1>2, <2>2, <2>4 DEF FollowInv, Through
  <2>10. CompanionsLead'
    BY <2>2 DEF FollowInv, CompanionsLead
  <2> QED BY <2>6, <2>8, <2>9, <2>10 DEF FollowInv
<1>4. CASE ArchiveBegin(c) \/ ProxyLook(c)
  <2>1. UNCHANGED <<fs, comp, relpath, copy, compRow, ad>>
    BY <1>4 DEF ArchiveBegin, ProxyLook
  <2> QED BY <2>1 DEF FollowInv, InPlaceRows, MigrateRows, Through, CompanionsLead
<1>5. CASE ArchiveLands(c)
  <2>1. DOMAIN fs \subseteq DOMAIN fs' /\ UNCHANGED <<comp, relpath, copy, compRow, ad>>
    BY <1>5 DEF ArchiveLands, Put
  <2> QED BY <2>1 DEF FollowInv, InPlaceRows, MigrateRows, Through, CompanionsLead
<1>6. CASE ArchiveRow(c)
  <2>1. /\ copy' = [copy EXCEPT ![c] = relpath[c]]
        /\ UNCHANGED <<fs, comp, relpath, compRow, ad>>
    BY <1>6 DEF ArchiveRow
  <2>2. \A d \in Contents : copy'[d] = copy[d] \/ copy'[d] = relpath[d]
    BY <2>1 DEF Inv, Types, TypeOK
  <2> QED BY <2>1, <2>2 DEF FollowInv, InPlaceRows, MigrateRows, Through, CompanionsLead
<1>7. CASE ProxyLands(c)
  <2> DEFINE r == relpath[c]
  <2>1. /\ DOMAIN comp' = DOMAIN comp \cup {r}
        /\ comp'[r] = [of |-> c, was |-> None]
        /\ \A q \in DOMAIN comp \ {r} : comp'[q] = comp[q]
        /\ \A q \in DOMAIN comp : comp'[q].of = comp[q].of
        /\ relpath[c] = r
    BY <1>7, ProxyLanded
  <2>2. arch[c] = "proxy" /\ UNCHANGED <<fs, relpath, copy, compRow, ad>>
    BY <1>7 DEF ProxyLands
  <2>3. ad.mode = "migrate" => r \in DOMAIN fs
    BY <1>2, <2>2 DEF FollowInv, MigrateRows, Inv, Archives, Rows, CopiesLead
  <2> HIDE DEF r
  <2>4. comp'[r].of = c /\ comp'[r].was = None
    BY <2>1
  <2>5. InPlaceRows'
    BY <2>1, <2>2, <2>4 DEF FollowInv, InPlaceRows
  <2>6. MigrateRows'
    BY <2>1, <2>2, <2>3, <2>4 DEF FollowInv, MigrateRows
  <2>7. Through'
    <3> SUFFICES ASSUME ad.mode = "migrate", ad.pc \notin {"idle", "failed", "owned"},
                        NEW q \in DOMAIN comp' \ ad.ctodo
                 PROVE  \/ relpath[comp'[q].of] = q
                        \/ /\ ad.pc \in Moving \cup {"companions", "done"}
                           /\ q \notin DOMAIN ad.planned
      BY <2>2 DEF FollowInv, Through
    <3> QED BY <2>1, <2>4 DEF FollowInv, Through
  <2>8. CompanionsLead'
    BY <2>1, <2>2 DEF FollowInv, CompanionsLead
  <2> QED BY <2>5, <2>6, <2>7, <2>8 DEF FollowInv
<1>8. CASE ProxyRow(c)
  <2>1. /\ compRow' = [compRow EXCEPT ![c] = relpath[c]] /\ arch[c] = "proxyRow"
        /\ UNCHANGED <<fs, comp, relpath, copy, ad>>
    BY <1>8 DEF ProxyRow
  <2>2. relpath[c] \in DOMAIN comp /\ comp[relpath[c]].of = c
    BY <1>2, <2>1 DEF Inv, Archives, Pairs
  <2>3. /\ compRow'[c] = relpath[c] /\ \A d \in Contents \ {c} : compRow'[d] = compRow[d]
    BY <1>2, <2>1 DEF Inv, Types, TypeOK
  <2>4. CompanionsLead'
    BY <2>1, <2>2, <2>3 DEF FollowInv, CompanionsLead
  <2>5. MigrateRows'
    BY <2>1, <2>3 DEF FollowInv, MigrateRows
  <2> QED BY <2>1, <2>4, <2>5 DEF FollowInv, InPlaceRows, Through
<1> QED BY <1>3, <1>4, <1>5, <1>6, <1>7, <1>8

\* Each action by its lemma.
LEMMA FollowStep ==
  ASSUME NamesApart, ~ Mixed, Inv, FollowInv, [Next]_vars
  PROVE  FollowInv'
<1>1. CASE AdoptStep
  BY <1>1, FollowRuns, FollowPass, FollowFile, FollowCompanion DEF AdoptStep
<1>2. CASE Crash \/ \E mode \in Modes : Begin(mode)
  BY <1>2, FollowRuns
<1>3. CASE \E c \in OnCard :
             \/ Register(c) \/ ArchiveBegin(c) \/ ArchiveLands(c) \/ ArchiveRow(c)
             \/ ProxyLook(c) \/ ProxyLands(c) \/ ProxyRow(c)
  BY <1>3, FollowImport
<1>4. CASE UNCHANGED vars
  <2>1. UNCHANGED <<fs, comp, relpath, copy, compRow, ad>>
    BY <1>4 DEF vars
  <2> QED BY <2>1 DEF FollowInv, InPlaceRows, MigrateRows, Through, CompanionsLead
<1> QED BY <1>1, <1>2, <1>3, <1>4 DEF Next

-----------------------------------------------------------------------------
(* Types, whatever the names are like.                                     *)

Typed ==
  /\ Types
  /\ ad.pc \in Working =>
       ad.id \in Contents /\ ad.from \in Path /\ ad.to \in Path /\ ad.rel \in Path
  /\ ad.pc = "copy" => relpath[ad.id] # None
  /\ ad.ctodo \subseteq DOMAIN comp
  /\ \A p \in DOMAIN ad.planned : copy[ad.planned[p]] # None
  /\ ad.pc \in Moving => ad.id \in Contents /\ ad.to \in Path
  /\ ad.pc = "cmove" => ad.from \in DOMAIN comp
  /\ \A c \in Contents : copy[c] # None => relpath[c] # None
  /\ \A c \in Contents : arch[c] # "none" => relpath[c] # None

\* A step of the run that touches neither files nor rows.
LEMMA TypedRun ==
  ASSUME Typed, UNCHANGED <<fs, comp, relpath, copy, compRow, arch, crossed>>,
         faults' \in 0..MaxFaults, ad' \in AdoptState',
         ad'.pc \in Working =>
           ad'.id \in Contents /\ ad'.from \in Path /\ ad'.to \in Path /\ ad'.rel \in Path,
         ad'.pc = "copy" => relpath[ad'.id] # None, ad'.pc \notin Moving,
         ad'.ctodo \subseteq ad.ctodo \/ ad'.ctodo = DOMAIN comp,
         \A p \in DOMAIN ad'.planned :
           p \in Path /\ ad'.planned[p] \in Contents /\ copy[ad'.planned[p]] # None
  PROVE  Typed'
<1>1. Types'
  BY DEF Typed, Types, TypeOK, AdoptState, Working
<1>2. ad'.ctodo \subseteq DOMAIN comp'
  BY DEF Typed
<1> QED BY <1>1, <1>2 DEF Typed, Moving

\* A run that stops, or starts.
LEMMA TypedRuns ==
  ASSUME Typed, UNCHANGED <<fs, comp, relpath, copy, compRow, arch, crossed>>,
         faults' \in 0..MaxFaults,
         \/ \E pc \in {"idle", "owned", "failed"} : ad' = Stopped(pc)
         \/ \E mode \in Modes : Begin(mode)
  PROVE  Typed'
<1>1. ASSUME NEW pc \in {"idle", "owned", "failed"}, ad' = Stopped(pc) PROVE Typed'
  <2>1. /\ ad'.pc = pc /\ ad'.ctodo = {} /\ DOMAIN ad'.planned = {} /\ ad' \in AdoptState'
    BY <1>1, StoppedState DEF Typed
  <2> QED BY <2>1, TypedRun DEF Working, Moving
<1>2. ASSUME NEW mode \in Modes, Begin(mode) PROVE Typed'
  <2>1. /\ ad' = [pc |-> "originals", mode |-> mode, todo |-> DOMAIN fs,
                  ctodo |-> DOMAIN comp, seen |-> {}, claimed |-> {}, planned |-> <<>>,
                  from |-> None, to |-> None, id |-> None, rel |-> None]
        /\ DOMAIN fs \subseteq Path /\ DOMAIN comp \subseteq Path
    BY <1>2 DEF Begin, NoRun, Typed, Types, TypeOK
  <2>2. /\ ad'.pc = "originals" /\ ad'.ctodo = DOMAIN comp /\ DOMAIN ad'.planned = {}
        /\ ad' \in AdoptState'
    BY <2>1 DEF AdoptState, PathOrNone
  <2> QED BY <2>2, TypedRun DEF Working, Moving
<1> QED BY <1>1, <1>2

\* The pass over the originals.
LEMMA TypedPass ==
  ASSUME Typed, NEW p \in ad.todo,
         Duplicate(p) \/ Known(p) \/ InPlace(p) \/ Migrate(p)
  PROVE  Typed'
<1> DEFINE c == fs[p]
           run == [ad EXCEPT !.todo = @ \ {p}, !.seen = @ \cup {c}]
<1>1. /\ ad.pc = "originals" /\ p \in DOMAIN fs
      /\ UNCHANGED <<fs, comp, relpath, copy, compRow, arch, crossed, faults>>
  BY DEF Duplicate, Known, InPlace, Migrate, IsNext
<1>2. /\ p \in Path /\ c \in Contents /\ ad \in AdoptState /\ faults' \in 0..MaxFaults
      /\ relpath[c] \in PathOrNone
      /\ \A q \in DOMAIN ad.planned :
           q \in Path /\ ad.planned[q] \in Contents /\ copy[ad.planned[q]] # None
  BY <1>1 DEF Typed, Types, TypeOK
<1>3. CASE Duplicate(p)
  <2>1. /\ ad'.pc = "originals" /\ ad'.ctodo = ad.ctodo /\ ad'.planned = ad.planned
        /\ ad' \in AdoptState'
    BY <1>1, <1>2, <1>3 DEF Duplicate, AdoptState
  <2> QED BY <1>1, <1>2, <2>1, TypedRun DEF Working, Moving
<1>4. CASE Known(p)
  <2>1. /\ ad' = [ad EXCEPT !.todo = @ \ {p}, !.seen = @ \cup {c}, !.planned = Plan(p, c)]
        /\ copy[c] # None
    BY <1>4 DEF Known
  <2> HIDE DEF c
  <2>2. /\ ad'.pc = "originals" /\ ad'.ctodo = ad.ctodo /\ ad'.planned = Plan(p, c)
        /\ ad' \in AdoptState'
    BY <1>1, <1>2, <2>1 DEF AdoptState
  <2>3. \A q \in DOMAIN ad'.planned :
          q \in Path /\ ad'.planned[q] \in Contents /\ copy[ad'.planned[q]] # None
    BY <1>2, <2>1, <2>2 DEF Plan
  <2> QED BY <1>1, <1>2, <2>2, <2>3, TypedRun DEF Working, Moving
<1>5. ASSUME NEW to \in Path, NEW rel \in Path, NEW pc \in {"asset", "rename"},
             ad' = [run EXCEPT !.pc = pc, !.from = p, !.to = to, !.id = c, !.rel = rel,
                               !.claimed = @ \cup {to}]
      PROVE  Typed'
  <2> HIDE DEF c
  <2>1. /\ ad'.pc = pc /\ ad'.ctodo = ad.ctodo /\ ad'.planned = ad.planned
        /\ ad'.id = c /\ ad'.from = p /\ ad'.to = to /\ ad'.rel = rel
        /\ ad' \in AdoptState'
    BY <1>2, <1>5 DEF AdoptState, Working, PathOrNone
  <2> QED BY <1>1, <1>2, <2>1, TypedRun DEF Moving
<1>6. CASE InPlace(p)
  <2> DEFINE rel == IF relpath[c] # None THEN relpath[c] ELSE p
  <2>1. rel \in Path
    BY <1>2 DEF PathOrNone
  <2>2. \/ ad' = run
        \/ ad' = [run EXCEPT !.pc = "asset", !.from = p, !.to = p, !.id = c, !.rel = rel,
                             !.claimed = @ \cup {p}]
    BY <1>6 DEF InPlace
  <2>3. CASE ad' = run
    <3>1. /\ ad'.pc = "originals" /\ ad'.ctodo = ad.ctodo /\ ad'.planned = ad.planned
          /\ ad' \in AdoptState'
      BY <1>1, <1>2, <2>3 DEF AdoptState
    <3> QED BY <1>1, <1>2, <3>1, TypedRun DEF Working, Moving
  <2> HIDE DEF rel
  <2> QED BY <1>2, <1>5, <2>1, <2>2, <2>3
<1>7. CASE Migrate(p)
  <2> DEFINE rel == MigratePath(p, c)
             pc == IF rel = p THEN "asset" ELSE "rename"
  <2>1. CASE rel = None
    BY <1>1, <1>2, <1>7, <2>1, TypedRuns DEF Migrate
  <2>2. CASE rel # None
    <3>1. ad' = [run EXCEPT !.pc = pc, !.from = p, !.to = rel, !.id = c, !.rel = rel,
                            !.claimed = @ \cup {rel}]
      BY <1>7, <2>2 DEF Migrate
    <3>2. rel \in Path
      <4>1. CASE relpath[c] # None
        BY <1>2, <4>1 DEF MigratePath, PathOrNone
      <4>2. CASE relpath[c] = None
        <5>0. rel = MigratePath(p, c)
          OBVIOUS
        <5> HIDE DEF rel, c
        <5>1. PICK n \in 0..(Suffixes - 1) : rel = WithSuffix(Layout(p, c), n)
          BY <1>2, <2>2, <4>2, <5>0, MigrateChoice
        <5> QED BY <1>2, <5>1, LayoutKeeps, SuffixKeeps
      <4> QED BY <4>1, <4>2
    <3>3. pc \in {"asset", "rename"}
      OBVIOUS
    <3> HIDE DEF rel, pc
    <3> QED BY <1>5, <3>1, <3>2, <3>3
  <2> QED BY <2>1, <2>2
<1> QED BY <1>3, <1>4, <1>6, <1>7

\* The renames and the rows.
LEMMA TypedFile ==
  ASSUME Typed, Rename \/ Move \/ AssetRow \/ CopyRow
  PROVE  Typed'
<1> DEFINE id == ad.id
           to == ad.to
<1>1. /\ ad \in AdoptState /\ faults' \in 0..MaxFaults
      /\ ad.pc \in Working /\ ad.pc \in {"rename", "move", "asset", "copy"}
      /\ \A q \in DOMAIN ad.planned :
           q \in Path /\ ad.planned[q] \in Contents /\ copy[ad.planned[q]] # None
  BY DEF Rename, Move, AssetRow, CopyRow, Typed, Types, TypeOK, Working
<1>2. /\ id \in Contents /\ ad.from \in Path /\ to \in Path /\ ad.rel \in Path
      /\ to # None /\ ad.rel # None
  BY <1>1, AdoptAssumption DEF Typed
<1>3. ASSUME NEW pc \in Working, ad' = [ad EXCEPT !.pc = pc]
      PROVE  /\ ad'.pc = pc /\ ad'.ctodo = ad.ctodo /\ ad'.planned = ad.planned
             /\ ad'.id = id /\ ad'.from = ad.from /\ ad'.to = to /\ ad'.rel = ad.rel
             /\ ad' \in AdoptState'
  BY <1>1, <1>3 DEF AdoptState, Working
<1>4. CASE Rename
  <2>1. \/ ad' = Stopped("failed")
        \/ ad' = [ad EXCEPT !.pc = "move"]
    BY <1>4 DEF Rename
  <2>2. CASE ad' = Stopped("failed")
    BY <1>1, <1>4, <2>2, TypedRuns DEF Rename
  <2>3. CASE ad' = [ad EXCEPT !.pc = "move"]
    BY <1>1, <1>2, <1>3, <1>4, <2>3, TypedRun DEF Rename, Working, Moving
  <2> QED BY <2>1, <2>2, <2>3
<1>5. CASE Move
  <2>1. /\ fs' = Put(Drop(fs, ad.from), to, id) /\ ad' = [ad EXCEPT !.pc = "asset"]
        /\ UNCHANGED <<comp, relpath, copy, compRow, arch, crossed>>
    BY <1>5 DEF Move
  <2>2. /\ ad'.pc = "asset" /\ ad'.ctodo = ad.ctodo /\ ad'.planned = ad.planned
        /\ ad'.id = id /\ ad'.from = ad.from /\ ad'.to = to /\ ad'.rel = ad.rel
        /\ ad' \in AdoptState'
    BY <1>3, <2>1 DEF Working
  <2> HIDE DEF id, to
  <2>3. DOMAIN fs' \subseteq Path /\ \A q \in DOMAIN fs' : fs'[q] \in Contents
    BY <1>2, <2>1 DEF Put, Drop, Typed, Types, TypeOK
  <2>4. Types'
    BY <1>1, <2>1, <2>2, <2>3 DEF Typed, Types, TypeOK, AdoptState, Working
  <2> QED BY <1>2, <2>1, <2>2, <2>4 DEF Typed, Moving
<1>6. CASE AssetRow
  <2>1. UNCHANGED <<fs, comp, copy, compRow, arch, crossed>>
    BY <1>6 DEF AssetRow
  <2>2. CASE \E pc \in {"owned", "failed"} : ad' = Stopped(pc) /\ relpath' = relpath
    BY <1>1, <2>1, <2>2, TypedRuns
  <2>3. CASE /\ ad' = [ad EXCEPT !.pc = "copy"]
             /\ \/ relpath' = relpath /\ relpath[id] # None
                \/ relpath' = [relpath EXCEPT ![id] = ad.rel]
    <3>1. /\ ad'.pc = "copy" /\ ad'.ctodo = ad.ctodo /\ ad'.planned = ad.planned
          /\ ad'.id = id /\ ad'.from = ad.from /\ ad'.to = to /\ ad'.rel = ad.rel
          /\ ad' \in AdoptState'
      BY <1>3, <2>3 DEF Working
    <3> HIDE DEF id, to
    <3>2. /\ relpath' \in [Contents -> PathOrNone] /\ relpath'[id] # None
          /\ \A c \in Contents : relpath[c] # None => relpath'[c] # None
      BY <1>2, <2>3 DEF Typed, Types, TypeOK, PathOrNone
    <3>3. Types'
      BY <1>1, <2>1, <3>1, <3>2 DEF Typed, Types, TypeOK, AdoptState, Working
    <3> QED BY <1>2, <2>1, <3>1, <3>2, <3>3 DEF Typed, Moving
  <2> QED BY <1>6, <2>2, <2>3 DEF AssetRow
<1>7. CASE CopyRow
  <2>1. /\ ad.pc = "copy" /\ copy' = [copy EXCEPT ![id] = to]
        /\ ad' = [ad EXCEPT !.pc = "originals", !.planned = Plan(ad.from, id),
                            !.from = None, !.to = None, !.id = None, !.rel = None]
        /\ UNCHANGED <<fs, comp, relpath, compRow, arch, crossed>>
    BY <1>7 DEF CopyRow
  <2> HIDE DEF id, to
  <2>2. /\ ad'.pc = "originals" /\ ad'.ctodo = ad.ctodo /\ ad'.planned = Plan(ad.from, id)
        /\ ad' \in AdoptState'
    BY <1>1, <2>1 DEF AdoptState, PathOrNone
  <2>3. /\ copy' \in [Contents -> PathOrNone] /\ copy'[id] # None
        /\ \A c \in Contents \ {id} : copy'[c] = copy[c]
    BY <1>2, <2>1 DEF Typed, Types, TypeOK, PathOrNone
  <2>4. \A q \in DOMAIN ad'.planned :
          q \in Path /\ ad'.planned[q] \in Contents /\ copy'[ad'.planned[q]] # None
    BY <1>1, <1>2, <2>2, <2>3 DEF Plan
  <2>5. Types'
    <3>1. /\ DOMAIN ad'.planned \subseteq Path
          /\ \A q \in DOMAIN ad'.planned : ad'.planned[q] \in Contents
      BY <2>4
    <3>2. TypeOK'
      BY <1>1, <2>1, <2>2, <2>3, <3>1 DEF Typed, Types, TypeOK, AdoptState, Working
    <3> QED BY <2>2, <3>1, <3>2 DEF Types, AdoptState
  <2>6. relpath[id] # None
    BY <2>1 DEF Typed, id
  <2> QED BY <2>1, <2>2, <2>3, <2>4, <2>5, <2>6 DEF Typed, Working, Moving
<1> QED BY <1>4, <1>5, <1>6, <1>7

\* The pass over the companions.
LEMMA TypedCompanions ==
  ASSUME Typed,
         \/ CompanionsBegin \/ End \/ CompanionMove \/ CompanionRow
         \/ \E p \in ad.ctodo : Orphan(p) \/ CompanionHere(p) \/ CompanionLook(p)
  PROVE  Typed'
<1>1. /\ ad \in AdoptState /\ faults' \in 0..MaxFaults
      /\ \A q \in DOMAIN ad.planned :
           q \in Path /\ ad.planned[q] \in Contents /\ copy[ad.planned[q]] # None
  BY DEF CompanionsBegin, End, Orphan, CompanionHere, CompanionLook, CompanionMove,
         CompanionRow, Typed, Types, TypeOK
<1>2. CASE CompanionsBegin \/ End \/ \E p \in ad.ctodo : Orphan(p)
  <2>1. /\ UNCHANGED <<fs, comp, relpath, copy, compRow, arch, crossed>>
        /\ \/ ad' = [ad EXCEPT !.pc = "companions"]
           \/ ad' = [ad EXCEPT !.pc = "done"]
           \/ ad.pc = "companions" /\ \E p \in ad.ctodo : ad' = [ad EXCEPT !.ctodo = @ \ {p}]
    BY <1>2 DEF CompanionsBegin, End, Orphan
  <2>2. /\ ad'.pc \in {"companions", "done"} /\ ad'.ctodo \subseteq ad.ctodo
        /\ ad'.planned = ad.planned /\ ad' \in AdoptState'
    BY <1>1, <2>1 DEF AdoptState
  <2> QED BY <1>1, <2>1, <2>2, TypedRun DEF Working, Moving
<1>3. ASSUME NEW p \in ad.ctodo, CompanionHere(p) PROVE Typed'
  <2>1. /\ ad.pc = "companions" /\ p \in DOMAIN ad.planned
        /\ compRow' = [compRow EXCEPT ![ad.planned[p]] = p]
        /\ ad' = [ad EXCEPT !.ctodo = @ \ {p}]
        /\ UNCHANGED <<fs, comp, relpath, copy, arch, crossed>>
    BY <1>3 DEF CompanionHere
  <2>2. /\ ad'.pc = "companions" /\ ad'.ctodo = ad.ctodo \ {p}
        /\ ad'.planned = ad.planned /\ ad' \in AdoptState'
    BY <1>1, <2>1 DEF AdoptState
  <2>3. compRow' \in [Contents -> PathOrNone]
    BY <1>1, <2>1 DEF Typed, Types, TypeOK, PathOrNone
  <2>4. Types'
    BY <1>1, <2>1, <2>2, <2>3 DEF Typed, Types, TypeOK, AdoptState, Working
  <2> QED BY <1>1, <2>1, <2>2, <2>4 DEF Typed, Working, Moving
<1>4. ASSUME NEW p \in ad.ctodo, CompanionLook(p) PROVE Typed'
  <2> DEFINE c == ad.planned[p]
             to == CompanionPath(c, p)
  <2>1. /\ ad.pc = "companions" /\ p \in DOMAIN ad.planned
        /\ UNCHANGED <<fs, comp, relpath, copy, compRow, arch>>
        /\ \/ ad' = Stopped("failed") /\ crossed' = crossed
           \/ /\ ad' = [ad EXCEPT !.pc = "cmove", !.from = p, !.to = to, !.id = c]
              /\ crossed' = crossed \cup (IF arch[c] = "proxy" THEN {c} ELSE {})
    BY <1>4 DEF CompanionLook
  <2>2. /\ c \in Contents /\ p \in DOMAIN comp /\ p \in Path /\ to \in Path
    BY <1>1, <2>1 DEF Typed, Types, TypeOK, PathOrNone, CompanionPath
  <2> HIDE DEF c, to
  <2>3. CASE ad' = Stopped("failed") /\ crossed' = crossed
    BY <1>1, <2>1, <2>3, TypedRuns
  <2>4. CASE /\ ad' = [ad EXCEPT !.pc = "cmove", !.from = p, !.to = to, !.id = c]
             /\ crossed' = crossed \cup (IF arch[c] = "proxy" THEN {c} ELSE {})
    <3>1. /\ ad'.pc = "cmove" /\ ad'.ctodo = ad.ctodo /\ ad'.planned = ad.planned
          /\ ad'.from = p /\ ad'.to = to /\ ad'.id = c /\ ad' \in AdoptState'
      BY <1>1, <2>2, <2>4 DEF AdoptState, PathOrNone
    <3>2. crossed' \subseteq Contents
      BY <2>2, <2>4 DEF Typed, Types, TypeOK
    <3>3. Types'
      BY <1>1, <2>1, <3>1, <3>2 DEF Typed, Types, TypeOK, AdoptState, Working
    <3> QED BY <1>1, <2>1, <2>2, <3>1, <3>3 DEF Typed, Working
  <2> QED BY <2>1, <2>3, <2>4
<1>5. CASE CompanionMove
  <2> DEFINE from == ad.from
             to == ad.to
  <2>1. /\ ad.pc = "cmove" /\ comp' = Put(Drop(comp, from), to, comp[from])
        /\ ad' = [ad EXCEPT !.pc = "crow", !.ctodo = @ \ {from}]
        /\ UNCHANGED <<fs, relpath, copy, compRow, arch, crossed>>
    BY <1>5 DEF CompanionMove
  <2>2. from \in DOMAIN comp /\ to \in Path /\ ad.id \in Contents
    BY <2>1 DEF Typed, Moving
  <2>3. /\ ad'.pc = "crow" /\ ad'.ctodo = ad.ctodo \ {from} /\ ad'.planned = ad.planned
        /\ ad'.to = to /\ ad'.id = ad.id /\ ad' \in AdoptState'
    BY <1>1, <2>1 DEF AdoptState
  <2> HIDE DEF from, to
  <2>4. /\ DOMAIN comp' = (DOMAIN comp \ {from}) \cup {to}
        /\ \A q \in DOMAIN comp' : comp'[q] = IF q = to THEN comp[from] ELSE comp[q]
    BY <2>1 DEF Put, Drop
  <2>5. DOMAIN comp' \subseteq Path /\ \A q \in DOMAIN comp' : comp'[q] \in Companions
    BY <2>2, <2>4 DEF Typed, Types, TypeOK
  <2>6. Types'
    BY <1>1, <2>1, <2>3, <2>5 DEF Typed, Types, TypeOK, AdoptState, Working
  <2> QED BY <1>1, <2>1, <2>2, <2>3, <2>4, <2>6 DEF Typed, Working
<1>6. CASE CompanionRow
  <2>1. /\ ad.pc = "crow" /\ compRow' = [compRow EXCEPT ![ad.id] = ad.to]
        /\ ad' = [ad EXCEPT !.pc = "companions", !.from = None, !.to = None, !.id = None]
        /\ UNCHANGED <<fs, comp, relpath, copy, arch, crossed>>
    BY <1>6 DEF CompanionRow
  <2>2. /\ ad'.pc = "companions" /\ ad'.ctodo = ad.ctodo
        /\ ad'.planned = ad.planned /\ ad' \in AdoptState'
    BY <1>1, <2>1 DEF AdoptState, PathOrNone
  <2>3. compRow' \in [Contents -> PathOrNone]
    BY <2>1 DEF Typed, Types, TypeOK, PathOrNone
  <2>4. Types'
    BY <1>1, <2>1, <2>2, <2>3 DEF Typed, Types, TypeOK, AdoptState, Working
  <2> QED BY <1>1, <2>1, <2>2, <2>4 DEF Typed, Working, Moving
<1> QED BY <1>2, <1>3, <1>4, <1>5, <1>6

\* Imports.
LEMMA TypedImport ==
  ASSUME Typed, NEW c \in OnCard,
         \/ Register(c) \/ ArchiveBegin(c) \/ ArchiveLands(c) \/ ArchiveRow(c)
         \/ ProxyLook(c) \/ ProxyLands(c) \/ ProxyRow(c)
  PROVE  Typed'
<1>1. c \in Contents /\ UNCHANGED <<ad, faults>>
  BY AdoptAssumption DEF Register, ArchiveBegin, ArchiveLands, ArchiveRow, ProxyLook,
                         ProxyLands, ProxyRow
<1>2. CASE Register(c)
  <2>1. PICK n \in 0..(Suffixes - 1) : relpath' = [relpath EXCEPT ![c] = CardPath(c, n)]
    BY <1>2 DEF Register
  <2>2. UNCHANGED <<fs, comp, copy, compRow, arch, crossed>>
    BY <1>2 DEF Register
  <2>3. CardPath(c, n) \in Path /\ CardPath(c, n) # None
    BY CardPathKeeps, AdoptAssumption
  <2>4. /\ relpath' \in [Contents -> PathOrNone]
        /\ \A d \in Contents : relpath[d] # None => relpath'[d] # None
    BY <1>1, <2>1, <2>3 DEF Typed, Types, TypeOK, PathOrNone
  <2>5. Types'
    BY <1>1, <2>2, <2>4 DEF Typed, Types, TypeOK, AdoptState
  <2>6. ad.pc = "copy" => ad.id \in Contents
    BY DEF Typed, Working
  <2> QED BY <1>1, <2>2, <2>4, <2>5, <2>6 DEF Typed
<1>3. ASSUME NEW at \in {"none", "copy", "row", "proxy", "proxyRow"},
             arch' = [arch EXCEPT ![c] = at],
             at = "none" \/ relpath[c] # None, relpath' = relpath,
             DOMAIN fs' \subseteq Path, \A q \in DOMAIN fs' : fs'[q] \in Contents,
             DOMAIN comp \subseteq DOMAIN comp',
             DOMAIN comp' \subseteq Path, \A q \in DOMAIN comp' : comp'[q] \in Companions,
             copy' \in [Contents -> PathOrNone], compRow' \in [Contents -> PathOrNone],
             \A d \in Contents : copy[d] # None => copy'[d] # None,
             \A d \in Contents : copy'[d] # None => relpath[d] # None,
             crossed' \subseteq Contents
      PROVE  Typed'
  <2>1. /\ arch' \in [Contents -> {"none", "copy", "row", "proxy", "proxyRow"}]
        /\ \A d \in Contents : arch'[d] # "none" => relpath[d] # None
    BY <1>1, <1>3 DEF Typed, Types, TypeOK
  <2>2. Types'
    BY <1>1, <1>3, <2>1 DEF Typed, Types, TypeOK, AdoptState
  <2>3. \A q \in DOMAIN ad.planned : copy'[ad.planned[q]] # None
    BY <1>3 DEF Typed, Types
  <2> QED BY <1>1, <1>3, <2>1, <2>2, <2>3 DEF Typed
<1>4. /\ DOMAIN fs \subseteq Path /\ \A q \in DOMAIN fs : fs[q] \in Contents
      /\ DOMAIN comp \subseteq Path /\ \A q \in DOMAIN comp : comp[q] \in Companions
      /\ copy \in [Contents -> PathOrNone] /\ compRow \in [Contents -> PathOrNone]
      /\ \A d \in Contents : copy[d] # None => relpath[d] # None
      /\ crossed \subseteq Contents
  BY DEF Typed, Types, TypeOK
<1>5. arch[c] # "none" => relpath[c] # None /\ relpath[c] \in Path
  BY <1>1 DEF Typed, Types, TypeOK, PathOrNone
<1>6. CASE ArchiveBegin(c) \/ ProxyLook(c)
  <2>1. /\ arch' = [arch EXCEPT ![c] = "copy"] \/ arch' = [arch EXCEPT ![c] = "proxy"]
        /\ relpath[c] # None /\ UNCHANGED <<fs, comp, relpath, copy, compRow>>
        /\ crossed' \subseteq Contents
    BY <1>1, <1>4, <1>6 DEF ArchiveBegin, ProxyLook
  <2> QED BY <1>3, <1>4, <2>1
<1>7. CASE ArchiveLands(c)
  <2>1. /\ arch' = [arch EXCEPT ![c] = "row"] /\ fs' = Put(fs, relpath[c], c)
        /\ relpath[c] # None /\ relpath[c] \in Path
        /\ UNCHANGED <<comp, relpath, copy, compRow, crossed>>
    BY <1>5, <1>7 DEF ArchiveLands
  <2>2. DOMAIN fs' \subseteq Path /\ \A q \in DOMAIN fs' : fs'[q] \in Contents
    BY <1>1, <1>4, <2>1 DEF Put
  <2> QED BY <1>3, <1>4, <2>1, <2>2
<1>8. CASE ArchiveRow(c)
  <2>1. /\ arch' = [arch EXCEPT ![c] = "none"] /\ copy' = [copy EXCEPT ![c] = relpath[c]]
        /\ relpath[c] # None /\ relpath[c] \in Path
        /\ UNCHANGED <<fs, comp, relpath, compRow, crossed>>
    BY <1>5, <1>8 DEF ArchiveRow
  <2>2. /\ copy' \in [Contents -> PathOrNone]
        /\ \A d \in Contents : copy[d] # None => copy'[d] # None
        /\ \A d \in Contents : copy'[d] # None => relpath[d] # None
    BY <1>4, <2>1 DEF PathOrNone
  <2> QED BY <1>3, <1>4, <2>1, <2>2
<1>9. CASE ProxyLands(c)
  <2> DEFINE m == [of |-> c, was |-> None]
  <2>1. /\ arch' = [arch EXCEPT ![c] = "proxyRow"] /\ comp' = Put(comp, relpath[c], m)
        /\ relpath[c] # None /\ relpath[c] \in Path
        /\ UNCHANGED <<fs, relpath, copy, compRow, crossed>>
    BY <1>5, <1>9 DEF ProxyLands
  <2>2. m \in Companions
    BY <1>1 DEF Companions, PathOrNone
  <2> HIDE DEF m
  <2>3. /\ DOMAIN comp \subseteq DOMAIN comp' /\ DOMAIN comp' \subseteq Path
        /\ \A q \in DOMAIN comp' : comp'[q] \in Companions
    BY <1>4, <2>1, <2>2 DEF Put
  <2> QED BY <1>3, <1>4, <2>1, <2>3
<1>10. CASE ProxyRow(c)
  <2>1. /\ arch' = [arch EXCEPT ![c] = "none"]
        /\ compRow' = [compRow EXCEPT ![c] = relpath[c]]
        /\ relpath[c] # None /\ relpath[c] \in Path
        /\ UNCHANGED <<fs, comp, relpath, copy, crossed>>
    BY <1>5, <1>10 DEF ProxyRow
  <2>2. compRow' \in [Contents -> PathOrNone]
    BY <1>4, <2>1 DEF PathOrNone
  <2> QED BY <1>3, <1>4, <2>1, <2>2
<1> QED BY <1>2, <1>6, <1>7, <1>8, <1>9, <1>10

\* Each action by its lemma.
LEMMA TypedStep == Typed /\ [Next]_vars => Typed'
<1> SUFFICES ASSUME Typed, [Next]_vars PROVE Typed'
  OBVIOUS
<1>1. CASE AdoptStep
  BY <1>1, TypedPass, TypedFile, TypedCompanions DEF AdoptStep
<1>2. CASE Crash
  <2>1. faults' \in 0..MaxFaults
    BY <1>2, AdoptAssumption DEF Crash, Typed, Types, TypeOK
  <2> QED BY <1>2, <2>1, TypedRuns DEF Crash
<1>3. CASE \E mode \in Modes : Begin(mode)
  <2>1. UNCHANGED <<fs, comp, relpath, copy, compRow, arch, crossed>> /\ faults' \in 0..MaxFaults
    BY <1>3 DEF Begin, Typed, Types, TypeOK
  <2> QED BY <1>3, <2>1, TypedRuns
<1>4. CASE \E c \in OnCard :
             \/ Register(c) \/ ArchiveBegin(c) \/ ArchiveLands(c) \/ ArchiveRow(c)
             \/ ProxyLook(c) \/ ProxyLands(c) \/ ProxyRow(c)
  BY <1>4, TypedImport
<1>5. CASE UNCHANGED vars
  <2>1. UNCHANGED <<fs, comp, relpath, copy, compRow, ad, arch, crossed, faults>>
    BY <1>5 DEF vars
  <2>2. Types'
    BY <2>1 DEF Typed, Types, TypeOK, AdoptState
  <2> QED BY <2>1, <2>2 DEF Typed
<1> QED BY <1>1, <1>2, <1>3, <1>4, <1>5 DEF Next

-----------------------------------------------------------------------------
(* The theorems.                                                           *)

\* Rows, paths and the run's bookkeeping keep their types in every run of Adopt in
\* either mode, beside imports, and whatever dies: whatever the names are like.
THEOREM TypeCorrect == Spec => []TypeOK
<1>1. Init => Typed
  <2> SUFFICES ASSUME Init PROVE Typed
    OBVIOUS
  <2>1. Types
    BY InvInit DEF Inv
  <2>2. ad.pc = "idle" /\ ad.ctodo = {} /\ DOMAIN ad.planned = {}
    BY DEF Init, NoRun
  <2> QED BY <2>1, <2>2 DEF Typed, Init, Working, Moving
<1>2. Typed => TypeOK
  BY DEF Typed, Types
<1> QED BY <1>1, <1>2, TypedStep, PTL DEF Spec

\* Where no name is two contents' to get, nothing but the content that a path was
\* promised to is ever at that path, in any run of Adopt beside any imports.
THEOREM InvariantHolds ==
  ASSUME NamesApart
  PROVE  Spec => []Inv
<1>1. Inv /\ [Next]_vars => Inv'
  BY InvStep
<1> QED BY <1>1, InvInit, PTL DEF Spec

\* A complete row leads to the bytes it promises in every state (PutCopy): nothing
\* renames a file that a row names (rename), and no archive lands on one (copyTo),
\* as long as no name is two contents' to get, whatever modes the runs are given.
THEOREM CopiesLeadToTheirBytes ==
  ASSUME NamesApart
  PROVE  Spec => []CopiesLead
<1>1. Inv => CopiesLead
  BY DEF Inv, Rows
<1> QED BY <1>1, InvariantHolds, PTL

\* Under the same hypothesis nothing that Adopt renames or an import copies beside
\* it replaces another file (rename, copyTo), and a companion only one of the same
\* content, when each was on its way past its look at the name (syncCompanions).
THEOREM NothingIsReplaced ==
  ASSUME NamesApart
  PROVE  Spec => ContentsAreKept
<1> DEFINE FilesKept == \A p \in DOMAIN fs : \E q \in DOMAIN fs' : fs'[q] = fs[p]
           CompsKept ==
             \A p \in DOMAIN comp : \E q \in DOMAIN comp' :
               IF comp[p].of \in crossed THEN comp'[q].of = comp[p].of
               ELSE comp'[q] = comp[p]
<1>1. Inv /\ [Next]_vars => Inv'
  BY InvStep
<1>2. Inv /\ [Next]_vars => FilesKept /\ CompsKept
  <2> SUFFICES ASSUME Inv, [Next]_vars PROVE FilesKept /\ CompsKept
    OBVIOUS
  <2>1. comp' = comp => CompsKept
    OBVIOUS
  <2>2. fs' = fs => FilesKept
    OBVIOUS
  <2>3. CASE Move
    <3>1. fs' = Put(Drop(fs, ad.from), ad.to, ad.id) /\ comp' = comp
      BY <2>3 DEF Move
    <3>2. /\ DOMAIN fs' = (DOMAIN fs \ {ad.from}) \cup {ad.to}
          /\ \A q \in DOMAIN fs' : fs'[q] = IF q = ad.to THEN ad.id ELSE fs[q]
      BY <3>1 DEF Put, Drop
    <3>3. fs[ad.from] = ad.id /\ (ad.to \in DOMAIN fs => fs[ad.to] = ad.id)
      BY <2>3 DEF Move, Renaming, Inv, AtRename
    <3>4. FilesKept
      BY <3>2, <3>3
    <3> QED BY <2>1, <3>1, <3>4
  <2>4. CASE CompanionMove
    <3>1. fs' = fs /\ ad.pc = "cmove"
      BY <2>4 DEF CompanionMove
    <3>2. /\ ad.id \in Contents /\ ad.to = relpath[ad.id]
          /\ comp[ad.from].of = ad.id
          /\ DOMAIN comp' = (DOMAIN comp \ {ad.from}) \cup {ad.to}
          /\ \A q \in DOMAIN comp' : comp'[q] = IF q = ad.to THEN comp[ad.from] ELSE comp[q]
      BY <2>4, CompanionMoved
    <3>3. ad.to \in DOMAIN comp => ad.id \in crossed /\ comp[ad.to].of = ad.id
      BY <3>1, <3>2 DEF Inv, AtCompanion, Pairs
    <3>4. ASSUME NEW p \in DOMAIN comp
          PROVE  \E q \in DOMAIN comp' :
                   IF comp[p].of \in crossed THEN comp'[q].of = comp[p].of
                   ELSE comp'[q] = comp[p]
      <4>1. CASE p = ad.from \/ p = ad.to
        <5>1. ad.to \in DOMAIN comp' /\ comp'[ad.to] = comp[ad.from]
          BY <3>2
        <5> QED BY <3>2, <3>3, <3>4, <4>1, <5>1
      <4>2. CASE p # ad.from /\ p # ad.to
        <5>1. p \in DOMAIN comp' /\ comp'[p] = comp[p]
          BY <3>2, <4>2
        <5> QED BY <5>1
      <4> QED BY <4>1, <4>2
    <3>5. CompsKept
      BY <3>4
    <3> QED BY <2>2, <3>1, <3>5
  <2>5. ASSUME NEW c \in OnCard, ArchiveLands(c) PROVE FilesKept /\ CompsKept
    <3>1. fs' = Put(fs, relpath[c], c) /\ comp' = comp
      BY <2>5 DEF ArchiveLands
    <3>2. relpath[c] \in DOMAIN fs => fs[relpath[c]] = c
      BY AdoptAssumption DEF Inv, Files
    <3>3. \A p \in DOMAIN fs : p \in DOMAIN fs' /\ fs'[p] = fs[p]
      BY <3>1, <3>2 DEF Put
    <3>4. FilesKept
      BY <3>3
    <3> QED BY <2>1, <3>1, <3>4
  <2>6. ASSUME NEW c \in OnCard, ProxyLands(c) PROVE FilesKept /\ CompsKept
    <3>1. fs' = fs
      BY <2>6 DEF ProxyLands
    <3>2. /\ c \in Contents
          /\ relpath[c] \in DOMAIN comp => c \in crossed
          /\ DOMAIN comp' = DOMAIN comp \cup {relpath[c]}
          /\ \A q \in DOMAIN comp \ {relpath[c]} : comp'[q] = comp[q]
          /\ \A q \in DOMAIN comp : comp'[q].of = comp[q].of
      BY <2>6, ProxyLanded
    <3>3. relpath[c] \in DOMAIN comp => comp[relpath[c]].of = c
      BY <3>2 DEF Inv, Pairs
    <3>4. ASSUME NEW p \in DOMAIN comp
          PROVE  p \in DOMAIN comp' /\ (IF comp[p].of \in crossed THEN comp'[p].of = comp[p].of
                                        ELSE comp'[p] = comp[p])
      BY <3>2, <3>3
    <3>5. CompsKept
      BY <3>4
    <3> QED BY <2>2, <3>1, <3>5
  <2>7. CASE UNCHANGED <<fs, comp>>
    BY <2>1, <2>2, <2>7
  <2> HIDE DEF FilesKept, CompsKept
  <2> QED BY <2>3, <2>4, <2>5, <2>6, <2>7
       DEF Next, AdoptStep, vars, Begin, Duplicate, Known, InPlace, Migrate, Rename,
           AssetRow, CopyRow, CompanionsBegin, Orphan, CompanionHere, CompanionLook,
           CompanionRow, End, Crash, Register, ArchiveBegin, ArchiveRow, ProxyLook, ProxyRow
<1>3. Inv /\ [Next]_vars => [FilesKept /\ CompsKept]_vars
  BY <1>2
<1> QED BY <1>1, <1>3, InvInit, PTL DEF Spec, ContentsAreKept

\* A run of Adopt that gets to its end has an asset and a complete row for every
\* content it met (registerAdopted).
THEOREM EndIsCatalogued ==
  ASSUME NamesApart
  PROVE  Spec => []DoneIsCatalogued
<1>1. Inv => DoneIsCatalogued
  <2> SUFFICES ASSUME Inv, ad.pc = "done", NEW c \in ad.seen
               PROVE  relpath[c] # None /\ copy[c] # None
    BY DEF DoneIsCatalogued
  <2>1. c \in Contents /\ copy[c] # None
    BY DEF Inv, Types, TypeOK, Progress, Working
  <2> QED BY <2>1 DEF Inv, Rows
<1> QED BY <1>1, InvariantHolds, PTL

\* With one mode for all runs, companions are where their rows and originals are.
THEOREM FollowHolds ==
  ASSUME NamesApart, ~ Mixed
  PROVE  Spec => [](Inv /\ FollowInv)
<1> DEFINE Both == Inv /\ FollowInv
<1>1. Init => Both
  BY InvInit, FollowInit
<1>2. Both /\ [Next]_vars => Both'
  <2>1. Inv /\ [Next]_vars => Inv'
    BY InvStep
  <2>2. Inv /\ FollowInv /\ [Next]_vars => FollowInv'
    BY FollowStep
  <2> QED BY <2>1, <2>2
<1> HIDE DEF Both
<1>3. Spec => []Both
  BY <1>1, <1>2, PTL DEF Spec
<1> QED BY <1>3 DEF Both

\* A complete row leads to the bytes it promises, and a companion's row to a
\* companion of its content, in every state (PutCopy, PutCompanion), when all runs
\* are given one mode and no name is two contents' to get.
THEOREM RowsLeadToTheirBytes ==
  ASSUME NamesApart, ~ Mixed
  PROVE  Spec => []RowsAreTrue
<1>1. Inv /\ FollowInv => RowsAreTrue
  BY DEF Inv, Rows, FollowInv, RowsAreTrue
<1> QED BY <1>1, FollowHolds, PTL

\* And when all runs are given one mode, it leaves no companion behind a file that
\* was renamed: one with a row is beside its original (adoptCompanions).
THEOREM CompanionsGoAlong ==
  ASSUME NamesApart, ~ Mixed
  PROVE  Spec => []CompanionsFollow
<1>1. Inv /\ FollowInv => CompanionsFollow
  <2> SUFFICES ASSUME Inv, FollowInv, ad.pc = "done", NEW q \in DOMAIN comp
               PROVE  \/ q \in DOMAIN fs /\ fs[q] = comp[q].of
                      \/ q \notin DOMAIN ad.planned /\ compRow[comp[q].of] # q
                      \/ comp[q].was = None
    BY DEF CompanionsFollow
  <2> DEFINE c == comp[q].of
  <2>1. c \in Contents /\ q # None /\ ad.mode \in Modes
    BY AdoptAssumption DEF Inv, Types, TypeOK, Companions
  <2>2. (q \in Beside /\ Library[q] = c) \/ relpath[c] = q
    BY DEF Inv, Besides
  <2>3. q \in DOMAIN fs => fs[q] = c
    BY <2>1, <2>2 DEF Inv, Besides, Files
  <2> HIDE DEF c
  <2>4. CASE ad.mode = "in-place"
    BY <2>3, <2>4 DEF FollowInv, InPlaceRows, c
  <2>5. CASE ad.mode = "migrate"
    <3>1. relpath[c] = q \/ q \notin DOMAIN ad.planned
      BY <2>5 DEF FollowInv, Through, c
    <3>2. relpath[c] = q => q \in DOMAIN fs
      BY <2>5 DEF FollowInv, MigrateRows, c
    <3>3. compRow[c] = None \/ compRow[c] = relpath[c]
      BY <2>1, <2>5 DEF FollowInv, MigrateRows
    <3> QED BY <2>1, <2>3, <3>1, <3>2, <3>3 DEF c
  <2> QED BY <2>1, <2>4, <2>5 DEF Modes
<1> QED BY <1>1, FollowHolds, PTL
=============================================================================
