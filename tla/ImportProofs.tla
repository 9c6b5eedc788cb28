---------------------------- MODULE ImportProofs ----------------------------
(***************************************************************************)
(* Theorems about Import for every number of assets, NAS locations and     *)
(* archivers and every setting of the two limits.  That the counters agree *)
(* with who holds what, and that no asset drops out between the channel's   *)
(* two ends, are each inductive with what the program counters say.        *)
(***************************************************************************)
EXTENDS Import, FiniteSetTheorems, TLAPS

ArchState == [pc : {"idle", "loop", "slot", "nas", "copy", "exited"},
              todo : SUBSET NASes, slot : BOOLEAN, asset : SUBSET Assets]

Slotted == {r \in Archivers : arch[r].slot}
Copying == {r \in Archivers : arch[r].pc = "copy"}

\* len(e.nasImport), len(e.nas) and e.spooling are what the goroutines hold.
Counted ==
  /\ slots = Cardinality(Slotted)
  /\ writers = Cardinality(Copying)
  /\ spooling = IF main.pc = "spooling" THEN 1 ELSE 0

Busy == {"loop", "slot", "nas", "copy"}
Carrying == {"spool", "spooling", "send"}

\* What Import's goroutine has in its hands.
MainOK ==
  /\ main.pc \in Carrying => \E a \in Assets : main.asset = {a}
  /\ main.pc \notin Carrying => main.asset = {}
  /\ main.pc \in {"next", "spool", "spooling"} => main.after = "next"
  /\ main.pc \in {"leftovers", "wait", "done"} => main.after = "leftovers"
  /\ main.pc = "done" => AllExited

\* An archiver has a slot only from archiveSlot to the release; its asset is on
\* every NAS that serves it and that it does not still have to go to.
ArchOK ==
  \A r \in Archivers :
    /\ arch[r].slot => arch[r].pc \in {"nas", "copy"}
    /\ arch[r].pc \in Busy =>
         \A a \in arch[r].asset : Serves[a] \ arch[r].todo \subseteq onNAS[a]

\* Who may have an asset in hand.
Pending(a) ==
  \/ a \in main.asset
  \/ \E r \in Archivers : arch[r].pc \in Busy /\ a \in arch[r].asset

Settled(a) == Serves[a] \subseteq onNAS[a] \/ a \in failed

LoopOver ==
  main.pc \in {"leftovers", "wait", "done"} \/ (main.pc = "send" /\ main.after = "leftovers")

\* Every asset that Import has come to is settled or in somebody's hands.
Covered ==
  /\ \A a \in Card : Settled(a) \/ Pending(a) \/ a \in todo
  /\ LoopOver /\ ~cancelled =>
       /\ todo = {}
       /\ listed => \A a \in Earlier :
            onNAS[a] # {} \/ Settled(a) \/ Pending(a) \/ a \in left
  /\ main.pc \in {"wait", "done"} => left = {}
  /\ main.pc = "done" /\ ~cancelled =>
       (report = "safe" => \A a \in Card : onNAS[a] # {})

Inv == TypeOK /\ Counted /\ MainOK /\ ArchOK

\* Before an import nobody holds anything, and every asset is covered.
LEMMA InvInit == Init => Inv /\ Covered
<1> SUFFICES ASSUME Init PROVE Inv /\ Covered
  OBVIOUS
<1>1. Slotted = {} /\ Copying = {}
  BY DEF Init, NoAsset, Slotted, Copying
<1>2. Counted
  BY <1>1, FS_EmptySet DEF Init, Counted
<1>3. TypeOK
  <2>1. NoAsset \in ArchState
    BY DEF NoAsset, ArchState
  <2>2. arch \in [Archivers -> ArchState]
    BY <2>1 DEF Init
  <2>3. 0 \in 0..WhileSpooling /\ 0 \in 0..Writers
    BY ImportAssumption
  <2>4. main \in [pc : {"next", "spool", "spooling", "send", "leftovers", "wait", "done"},
                   asset : SUBSET Assets, after : {"next", "leftovers"}]
    BY DEF Init
  <2>5. /\ onSpool \subseteq Assets /\ onNAS \in [Assets -> SUBSET NASes]
        /\ todo \subseteq Card /\ left \subseteq Assets /\ failed \subseteq Assets
        /\ cancelled \in BOOLEAN /\ report \in {"none", "safe", "unsafe"}
        /\ listed \in BOOLEAN
    BY DEF Init
  <2>6. spooling \in 0..1 /\ slots \in 0..WhileSpooling /\ writers \in 0..Writers
    BY <2>3 DEF Init
  <2> QED BY <2>2, <2>4, <2>5, <2>6, Zenon DEF TypeOK, ArchState
<1>4. MainOK /\ ArchOK
  BY DEF Init, MainOK, ArchOK, Carrying, Busy, NoAsset
<1>5. Covered
  BY DEF Init, Covered, LoopOver
<1> QED BY <1>2, <1>3, <1>4, <1>5 DEF Inv

-----------------------------------------------------------------------------
(* Lemmas about one archiver's step.                                       *)

\* The archivers' states, as a function.
LEMMA ArchType == TypeOK => arch \in [Archivers -> ArchState]
BY DEF TypeOK, ArchState

\* Copies under way can be counted.
LEMMA Finite ==
  /\ IsFiniteSet(Slotted) /\ Cardinality(Slotted) \in Nat
  /\ IsFiniteSet(Copying) /\ Cardinality(Copying) \in Nat
<1>1. Slotted \in SUBSET Archivers /\ Copying \in SUBSET Archivers
  BY DEF Slotted, Copying
<1> QED BY <1>1, ImportAssumption, FS_Subset, FS_CardinalityType

\* How the counts change when archiver r goes to x.
LEMMA ArchUpdate ==
  ASSUME TypeOK, NEW r \in Archivers, NEW x \in ArchState,
         arch' = [arch EXCEPT ![r] = x]
  PROVE  /\ arch' \in [Archivers -> ArchState]
         /\ arch'[r] = x /\ \A q \in Archivers \ {r} : arch'[q] = arch[q]
         /\ Cardinality(Slotted)' =
              IF x.slot = arch[r].slot THEN Cardinality(Slotted)
              ELSE IF x.slot THEN Cardinality(Slotted) + 1
              ELSE Cardinality(Slotted) - 1
         /\ Cardinality(Copying)' =
              IF (x.pc = "copy") = (arch[r].pc = "copy") THEN Cardinality(Copying)
              ELSE IF x.pc = "copy" THEN Cardinality(Copying) + 1
              ELSE Cardinality(Copying) - 1
         /\ arch[r].slot => Cardinality(Slotted) > 0
         /\ arch[r].pc = "copy" => Cardinality(Copying) > 0
<1>1. arch \in [Archivers -> ArchState]
  BY ArchType
<1>2. Slotted' = IF x.slot THEN Slotted \cup {r} ELSE Slotted \ {r}
  BY <1>1 DEF Slotted, ArchState
<1>3. Copying' = IF x.pc = "copy" THEN Copying \cup {r} ELSE Copying \ {r}
  BY <1>1 DEF Copying
<1>4. (r \in Slotted <=> arch[r].slot) /\ (r \in Copying <=> arch[r].pc = "copy")
  BY DEF Slotted, Copying
<1>5. /\ x.slot => Cardinality(Slotted') = IF arch[r].slot THEN Cardinality(Slotted)
                                           ELSE Cardinality(Slotted) + 1
      /\ ~x.slot => Cardinality(Slotted') = IF arch[r].slot THEN Cardinality(Slotted) - 1
                                            ELSE Cardinality(Slotted)
  BY <1>2, <1>4, Finite, FS_AddElement, FS_RemoveElement
<1>6. /\ x.pc = "copy" => Cardinality(Copying') = IF arch[r].pc = "copy"
            THEN Cardinality(Copying) ELSE Cardinality(Copying) + 1
      /\ x.pc # "copy" => Cardinality(Copying') = IF arch[r].pc = "copy"
            THEN Cardinality(Copying) - 1 ELSE Cardinality(Copying)
  BY <1>3, <1>4, Finite, FS_AddElement, FS_RemoveElement
<1>7. /\ arch[r].slot => Cardinality(Slotted) > 0
      /\ arch[r].pc = "copy" => Cardinality(Copying) > 0
  BY <1>4, Finite, FS_EmptySet
<1>8. x.slot \in BOOLEAN /\ arch[r].slot \in BOOLEAN
  BY <1>1 DEF ArchState
<1>9. arch' \in [Archivers -> ArchState] /\ arch'[r] = x
      /\ \A q \in Archivers \ {r} : arch'[q] = arch[q]
  BY <1>1
<1> QED BY <1>5, <1>6, <1>7, <1>8, <1>9

-----------------------------------------------------------------------------
(* Every step keeps the counts.                                            *)

MainState == [pc : {"next", "spool", "spooling", "send", "leftovers", "wait", "done"},
              asset : SUBSET Assets, after : {"next", "leftovers"}]

\* Steps that leave the archivers and their counters alone.
LEMMA MainOnly ==
  ASSUME Inv, UNCHANGED <<arch, slots, writers, onNAS>>
  PROVE  /\ arch' \in [Archivers -> ArchState] /\ ArchOK'
         /\ slots' \in 0..WhileSpooling /\ writers' \in 0..Writers
         /\ Cardinality(Slotted)' = Cardinality(Slotted)
         /\ Cardinality(Copying)' = Cardinality(Copying)
<1>1. Slotted' = Slotted /\ Copying' = Copying
  BY DEF Slotted, Copying
<1>2. ArchOK'
  BY DEF Inv, ArchOK
<1> QED BY <1>1, <1>2, ArchType DEF Inv, TypeOK, Counted

\* Import's goroutine is at p with the assets s in hand, and goes on at f.
MainAt(m, p, s, f) == m \in MainState /\ m.pc = p /\ m.asset = s /\ m.after = f

\* What remains of a step of Import's goroutine once it is known where it goes.
LEMMA MainStepInv ==
  ASSUME Inv,
         NEW p \in {"next", "spool", "spooling", "send", "leftovers", "wait", "done"},
         NEW s \in SUBSET Assets, NEW f \in {"next", "leftovers"},
         MainAt(main', p, s, f),
         p \in Carrying => \E a \in Assets : s = {a},
         p \notin Carrying => s = {},
         p \in {"next", "spool", "spooling"} => f = "next",
         p \in {"leftovers", "wait", "done"} => f = "leftovers",
         p = "done" => AllExited',
         spooling' = IF p = "spooling" THEN 1 ELSE 0,
         onSpool' \subseteq Assets, todo' \subseteq Card, left' \subseteq Assets,
         failed' \subseteq Assets, report' \in {"none", "safe", "unsafe"},
         listed' \in BOOLEAN,
         UNCHANGED <<onNAS, slots, writers, cancelled>>,
         arch' \in [Archivers -> ArchState], ArchOK',
         Cardinality(Slotted)' = Cardinality(Slotted),
         Cardinality(Copying)' = Cardinality(Copying)
  PROVE  Inv'
<1>1. main'.pc = p /\ main'.asset = s /\ main'.after = f
  BY DEF MainAt
<1>2. main' \in MainState
  BY DEF MainAt
<1>3. MainOK'
  BY <1>1, Zenon DEF MainOK
<1>4. Counted'
  BY <1>1 DEF Inv, Counted
<1>5. spooling' \in 0..1
  OBVIOUS
<1>6. /\ onNAS' \in [Assets -> SUBSET NASes] /\ slots' \in 0..WhileSpooling
      /\ writers' \in 0..Writers /\ cancelled' \in BOOLEAN
  BY DEF Inv, TypeOK
<1>7. TypeOK'
  BY <1>2, <1>5, <1>6, Zenon DEF TypeOK, MainState, ArchState
<1> QED BY <1>3, <1>4, <1>7 DEF Inv

\* The spooling side of Import: every step of its goroutine keeps the invariant.
LEMMA MainInv ==
  ASSUME Inv, MainStep
  PROVE  Inv'
<1>0. /\ main \in MainState /\ onSpool \subseteq Assets /\ todo \subseteq Card
      /\ left \subseteq Assets /\ failed \subseteq Assets /\ onNAS \in [Assets -> SUBSET NASes]
      /\ cancelled \in BOOLEAN /\ report \in {"none", "safe", "unsafe"} /\ spooling \in 0..1
      /\ listed \in BOOLEAN
  BY DEF Inv, TypeOK, MainState
<1>a. Card \subseteq Assets /\ NeedsArchive \subseteq Assets
  BY DEF Assets, NeedsArchive
<1>b. /\ spooling = IF main.pc = "spooling" THEN 1 ELSE 0
      /\ main.pc \in {"spool", "spooling", "send"} => \E a \in Assets : main.asset = {a}
      /\ main.pc \notin {"spool", "spooling", "send"} => main.asset = {}
      /\ main.pc \in {"next", "spool", "spooling"} => main.after = "next"
      /\ main.pc \in {"leftovers", "wait", "done"} => main.after = "leftovers"
  BY DEF Inv, Counted, MainOK, Carrying
<1>c. main.asset \subseteq Assets /\ main.after \in {"next", "leftovers"}
  BY <1>0 DEF MainState
<1>1. ASSUME NEW a \in Card, Next1(a) PROVE Inv'
  <2>1. /\ main.pc = "next" /\ todo' \subseteq Card /\ a \in Assets
        /\ UNCHANGED <<onSpool, onNAS, left, listed, arch, spooling, slots, writers,
                       cancelled, failed, report>>
    BY <1>0, <1>1, <1>a DEF Next1
  <2>2. PICK p \in {"send", "spool"} : MainAt(main', p, {a}, "next")
    <3>1. CASE Queue(a, "next")
      BY <2>1, <3>1 DEF Queue, MainAt, MainState
    <3>2. CASE main' = [main EXCEPT !.pc = "spool", !.asset = {a}]
      BY <1>0, <1>b, <2>1, <3>2 DEF MainAt, MainState
    <3> QED BY <1>1, <3>1, <3>2 DEF Next1
  <2>3. {a} \in SUBSET Assets /\ spooling' = 0
    BY <1>b, <2>1
  <2>a. /\ arch' \in [Archivers -> ArchState] /\ ArchOK'
        /\ Cardinality(Slotted)' = Cardinality(Slotted)
        /\ Cardinality(Copying)' = Cardinality(Copying)
    BY <2>1, MainOnly
  <2> QED BY <1>0, <2>1, <2>2, <2>3, <2>a, MainStepInv DEF Carrying
<1>d. ASSUME NEW a \in Card, LookupFails(a) PROVE Inv'
  <2>1. /\ main.pc = "next" /\ todo' \subseteq Card /\ failed' \subseteq Assets
        /\ main' = main /\ MainAt(main', "next", {}, "next")
        /\ UNCHANGED <<onSpool, onNAS, left, listed, arch, spooling, slots, writers,
                       cancelled, report>>
    BY <1>0, <1>a, <1>b, <1>d DEF LookupFails, MainAt, MainState
  <2>a. /\ arch' \in [Archivers -> ArchState] /\ ArchOK'
        /\ Cardinality(Slotted)' = Cardinality(Slotted)
        /\ Cardinality(Copying)' = Cardinality(Copying)
    BY <2>1, MainOnly
  <2> QED BY <1>0, <1>b, <1>c, <2>1, <2>a, MainStepInv DEF Carrying
<1>2. CASE SpoolStart
  <2>1. /\ main.pc = "spool" /\ spooling' = 1
        /\ MainAt(main', "spooling", main.asset, "next")
        /\ UNCHANGED <<onSpool, onNAS, todo, left, listed, arch, slots, writers,
                       cancelled, failed, report>>
    BY <1>0, <1>2, <1>b DEF SpoolStart, MainAt, MainState
  <2>a. /\ arch' \in [Archivers -> ArchState] /\ ArchOK'
        /\ Cardinality(Slotted)' = Cardinality(Slotted)
        /\ Cardinality(Copying)' = Cardinality(Copying)
    BY <2>1, MainOnly
  <2> QED BY <1>0, <1>b, <1>c, <2>1, <2>a, MainStepInv DEF Carrying
<1>3. CASE SpoolEnd
  <2>1. /\ main.pc = "spooling" /\ spooling' = 0 /\ onSpool' \subseteq Assets
        /\ MainAt(main', "send", main.asset, "next")
        /\ UNCHANGED <<onNAS, todo, left, listed, arch, slots, writers, cancelled, failed, report>>
    BY <1>0, <1>3, <1>b, <1>c DEF SpoolEnd, MainAt, MainState
  <2>a. /\ arch' \in [Archivers -> ArchState] /\ ArchOK'
        /\ Cardinality(Slotted)' = Cardinality(Slotted)
        /\ Cardinality(Copying)' = Cardinality(Copying)
    BY <2>1, MainOnly
  <2> QED BY <1>0, <1>b, <1>c, <2>1, <2>a, MainStepInv DEF Carrying
<1>4. CASE SpoolFails
  <2>1. /\ main.pc = "spooling" /\ spooling' = 0 /\ failed' \subseteq Assets
        /\ MainAt(main', "next", {}, "next")
        /\ UNCHANGED <<onSpool, onNAS, todo, left, listed, arch, slots, writers, cancelled, report>>
    <3>1. main.pc = "spooling" /\ main' = [main EXCEPT !.pc = "next", !.asset = {}]
      BY <1>4 DEF SpoolFails
    <3>2. MainAt(main', "next", {}, "next")
      BY <1>0, <1>b, <3>1 DEF MainAt, MainState
    <3>3. spooling' = 0 /\ failed' \subseteq Assets
      BY <1>0, <1>4, <1>b, <1>c DEF SpoolFails
    <3> QED BY <1>4, <3>1, <3>2, <3>3 DEF SpoolFails
  <2>a. /\ arch' \in [Archivers -> ArchState] /\ ArchOK'
        /\ Cardinality(Slotted)' = Cardinality(Slotted)
        /\ Cardinality(Copying)' = Cardinality(Copying)
    BY <2>1, MainOnly
  <2> QED BY <1>0, <1>b, <1>c, <2>1, <2>a, MainStepInv DEF Carrying
<1>5. CASE LoopEnds
  <2>1. /\ main.pc = "next" /\ left' \subseteq Assets /\ listed' \in BOOLEAN
        /\ MainAt(main', "leftovers", {}, "leftovers")
        /\ UNCHANGED <<onSpool, onNAS, todo, arch, spooling, slots, writers,
                       cancelled, failed, report>>
    BY <1>0, <1>5, <1>a, <1>b DEF LoopEnds, MainAt, MainState
  <2>a. /\ arch' \in [Archivers -> ArchState] /\ ArchOK'
        /\ Cardinality(Slotted)' = Cardinality(Slotted)
        /\ Cardinality(Copying)' = Cardinality(Copying)
    BY <2>1, MainOnly
  <2> QED BY <1>0, <1>b, <1>c, <2>1, <2>a, MainStepInv DEF Carrying
<1>6. ASSUME NEW a \in Assets, NextLeftover(a) PROVE Inv'
  <2>1. /\ main.pc = "leftovers" /\ left' \subseteq Assets
        /\ MainAt(main', "send", {a}, "leftovers")
        /\ UNCHANGED <<onSpool, onNAS, todo, listed, arch, spooling, slots, writers,
                       cancelled, failed, report>>
    BY <1>0, <1>6 DEF NextLeftover, Queue, MainAt, MainState
  <2>2. {a} \in SUBSET Assets /\ spooling' = 0
    BY <1>b, <2>1
  <2>a. /\ arch' \in [Archivers -> ArchState] /\ ArchOK'
        /\ Cardinality(Slotted)' = Cardinality(Slotted)
        /\ Cardinality(Copying)' = Cardinality(Copying)
    BY <2>1, MainOnly
  <2> QED BY <1>0, <2>1, <2>2, <2>a, MainStepInv DEF Carrying
<1>7. CASE Close
  <2>1. /\ main.pc = "leftovers"
        /\ MainAt(main', "wait", {}, "leftovers")
        /\ UNCHANGED <<onSpool, onNAS, todo, left, listed, arch, spooling, slots, writers,
                       cancelled, failed, report>>
    BY <1>0, <1>7, <1>b DEF Close, MainAt, MainState
  <2>a. /\ arch' \in [Archivers -> ArchState] /\ ArchOK'
        /\ Cardinality(Slotted)' = Cardinality(Slotted)
        /\ Cardinality(Copying)' = Cardinality(Copying)
    BY <2>1, MainOnly
  <2> QED BY <1>0, <1>b, <1>c, <2>1, <2>a, MainStepInv DEF Carrying
<1>8. CASE Return
  <2>1. /\ main.pc = "wait" /\ report' \in {"none", "safe", "unsafe"}
        /\ MainAt(main', "done", {}, "leftovers")
        /\ UNCHANGED <<onSpool, onNAS, todo, left, listed, arch, spooling, slots, writers,
                       cancelled, failed>>
    BY <1>0, <1>8, <1>b DEF Return, MainAt, MainState
  <2>2. AllExited'
    BY <1>8 DEF Return, AllExited
  <2>a. /\ arch' \in [Archivers -> ArchState] /\ ArchOK'
        /\ Cardinality(Slotted)' = Cardinality(Slotted)
        /\ Cardinality(Copying)' = Cardinality(Copying)
    BY <2>1, MainOnly
  <2> QED BY <1>0, <1>b, <1>c, <2>1, <2>2, <2>a, MainStepInv DEF Carrying
<1>9. ASSUME NEW r \in Archivers, Send(r) PROVE Inv'
  <2> DEFINE t == {n \in NASes : \A a \in main.asset : n \in Serves[a] \ onNAS[a]}
  <2> DEFINE x == [NoAsset EXCEPT !.pc = "loop", !.asset = main.asset, !.todo = t]
  <2>0. /\ main.pc = "send" /\ arch[r].pc = "idle" /\ arch' = [arch EXCEPT ![r] = x]
        /\ MainAt(main', main.after, {}, main.after)
        /\ UNCHANGED <<onSpool, onNAS, todo, left, listed, spooling, slots, writers,
                       cancelled, failed, report>>
    <3>1. MainAt(main', main.after, {}, main.after)
      BY <1>0, <1>9, <1>c DEF Send, MainAt, MainState
    <3>2. arch' = [arch EXCEPT ![r] = x]
      BY <1>9 DEF Send
    <3> QED BY <1>9, <3>1, <3>2 DEF Send
  <2>1. x \in ArchState /\ x.pc = "loop" /\ x.slot = FALSE /\ x.asset = main.asset /\ x.todo = t
    BY <1>c DEF NoAsset, ArchState
  <2>2. \A a \in x.asset : Serves[a] \ x.todo \subseteq onNAS[a]
    <3>1. PICK b \in Assets : main.asset = {b}
      BY <1>b, <2>0
    <3>2. Serves[b] \subseteq NASes
      BY ImportAssumption
    <3> QED BY <2>1, <3>1, <3>2
  <2> HIDE DEF x, t
  <2>3. arch[r].slot = FALSE
    BY <2>0, ArchType DEF Inv, ArchOK, ArchState
  <2>4. /\ arch' \in [Archivers -> ArchState] /\ arch'[r] = x
        /\ \A q \in Archivers \ {r} : arch'[q] = arch[q]
        /\ Cardinality(Slotted)' = Cardinality(Slotted)
        /\ Cardinality(Copying)' = Cardinality(Copying)
    BY <2>0, <2>1, <2>3, ArchUpdate DEF Inv
  <2>5. ArchOK'
    BY <2>0, <2>1, <2>2, <2>4, Zenon DEF Inv, ArchOK
  <2>6. spooling' = 0
    BY <1>b, <2>0
  <2> QED BY <1>0, <1>b, <1>c, <2>0, <2>4, <2>5, <2>6, MainStepInv DEF Carrying
<1>10. ASSUME NEW r \in Archivers, SendFails(r) PROVE Inv'
  <2>1. /\ main.pc = "send" /\ failed' \subseteq Assets
        /\ MainAt(main', main.after, {}, main.after)
        /\ UNCHANGED <<onSpool, onNAS, todo, left, listed, arch, spooling, slots, writers,
                       cancelled, report>>
    <3>1. MainAt(main', main.after, {}, main.after)
      BY <1>0, <1>10, <1>c DEF SendFails, MainAt, MainState
    <3> QED BY <1>0, <1>10, <1>c, <3>1 DEF SendFails
  <2>a. /\ arch' \in [Archivers -> ArchState] /\ ArchOK'
        /\ Cardinality(Slotted)' = Cardinality(Slotted)
        /\ Cardinality(Copying)' = Cardinality(Copying)
    BY <2>1, MainOnly
  <2> QED BY <1>0, <1>b, <1>c, <2>1, <2>a, MainStepInv DEF Carrying
<1> QED BY <1>1, <1>2, <1>3, <1>4, <1>5, <1>6, <1>7, <1>8, <1>9, <1>10, <1>d DEF MainStep

\* Archiver r goes to x, where it holds a slot and the semaphore or not.
ArchTo(r, x) ==
  /\ x \in ArchState
  /\ arch' = [arch EXCEPT ![r] = x]
  /\ slots' = IF x.slot = arch[r].slot THEN slots
              ELSE IF x.slot THEN slots + 1 ELSE slots - 1
  /\ slots' <= WhileSpooling
  /\ writers' = IF (x.pc = "copy") = (arch[r].pc = "copy") THEN writers
                ELSE IF x.pc = "copy" THEN writers + 1 ELSE writers - 1
  /\ writers' <= Writers

\* What remains of an archiver's step once it is known where it goes.
LEMMA ArchStepInv ==
  ASSUME Inv, NEW r \in Archivers, NEW x, ArchTo(r, x),
         x.slot => x.pc \in {"nas", "copy"},
         x.pc \in Busy => \A a \in x.asset : Serves[a] \ x.todo \subseteq onNAS'[a],
         \A a \in Assets : onNAS[a] \subseteq onNAS'[a],
         onNAS' \in [Assets -> SUBSET NASes], failed' \subseteq Assets,
         main.pc = "done" => x.pc = "exited",
         UNCHANGED <<onSpool, todo, left, listed, main, spooling, cancelled, report>>
  PROVE  Inv'
<1>0. /\ arch \in [Archivers -> ArchState] /\ x \in ArchState
      /\ arch' = [arch EXCEPT ![r] = x] /\ TypeOK
      /\ slots = Cardinality(Slotted) /\ writers = Cardinality(Copying)
  BY ArchType DEF Inv, ArchTo, Counted
<1>1. /\ arch' \in [Archivers -> ArchState] /\ arch'[r] = x
      /\ \A q \in Archivers \ {r} : arch'[q] = arch[q]
      /\ Cardinality(Slotted)' =
           IF x.slot = arch[r].slot THEN Cardinality(Slotted)
           ELSE IF x.slot THEN Cardinality(Slotted) + 1
           ELSE Cardinality(Slotted) - 1
      /\ Cardinality(Copying)' =
           IF (x.pc = "copy") = (arch[r].pc = "copy") THEN Cardinality(Copying)
           ELSE IF x.pc = "copy" THEN Cardinality(Copying) + 1
           ELSE Cardinality(Copying) - 1
  <2>1. TypeOK /\ x \in ArchState /\ arch' = [arch EXCEPT ![r] = x]
    BY <1>0
  <2> QED BY ONLY <2>1, r \in Archivers, ArchUpdate
<1>2. slots' = Cardinality(Slotted)'
  BY <1>0, <1>1 DEF ArchTo
<1>3. writers' = Cardinality(Copying)'
  BY <1>0, <1>1 DEF ArchTo
<1>4. slots' \in Nat /\ writers' \in Nat
  <2>1. /\ (IsFiniteSet(Slotted) /\ Cardinality(Slotted) \in Nat)'
        /\ (IsFiniteSet(Copying) /\ Cardinality(Copying) \in Nat)'
    <3>1. Slotted' \in SUBSET Archivers /\ Copying' \in SUBSET Archivers
      BY DEF Slotted, Copying
    <3> QED BY <3>1, ImportAssumption, FS_Subset, FS_CardinalityType
  <2> QED BY <1>2, <1>3, <2>1
<1>5. slots' \in 0..WhileSpooling /\ writers' \in 0..Writers
  BY <1>4, ImportAssumption DEF ArchTo
<1>6. ArchOK'
  <2>1. ASSUME NEW q \in Archivers, arch[q].pc \in Busy, NEW a \in arch[q].asset
        PROVE  Serves[a] \ arch[q].todo \subseteq onNAS'[a]
    <3>1. a \in Assets
      BY <1>0 DEF ArchState
    <3>2. Serves[a] \ arch[q].todo \subseteq onNAS[a]
      BY <2>1 DEF Inv, ArchOK
    <3> QED BY <3>1, <3>2
  <2>2. ASSUME NEW q \in Archivers
        PROVE  /\ arch'[q].slot => arch'[q].pc \in {"nas", "copy"}
               /\ arch'[q].pc \in Busy =>
                    \A a \in arch'[q].asset : Serves[a] \ arch'[q].todo \subseteq onNAS'[a]
    <3>1. CASE q = r
      BY <1>1, <3>1
    <3>2. CASE q # r
      <4>1. arch'[q] = arch[q]
        BY <1>1, <3>2
      <4> QED BY <2>1, <4>1 DEF Inv, ArchOK
    <3> QED BY <3>1, <3>2
  <2> QED BY <2>2 DEF ArchOK
<1>7. MainOK'
  <2>1. main.pc = "done" => AllExited'
    BY <1>1 DEF Inv, MainOK, AllExited
  <2> QED BY <2>1 DEF Inv, MainOK
<1>8. spooling = IF main.pc = "spooling" THEN 1 ELSE 0
  BY DEF Inv, Counted
<1>9. Counted'
  BY <1>2, <1>3, <1>8 DEF Counted
<1>10. TypeOK'
  <2>1. /\ onSpool' \subseteq Assets /\ todo' \subseteq Card /\ left' \subseteq Assets
        /\ main' \in [pc : {"next", "spool", "spooling", "send", "leftovers", "wait", "done"},
                      asset : SUBSET Assets, after : {"next", "leftovers"}]
        /\ spooling' \in 0..1 /\ cancelled' \in BOOLEAN /\ listed' \in BOOLEAN
        /\ report' \in {"none", "safe", "unsafe"}
    BY DEF Inv, TypeOK
  <2> QED BY <1>1, <1>5, <2>1, Zenon DEF TypeOK, ArchState
<1> QED BY <1>6, <1>7, <1>9, <1>10 DEF Inv

\* The archiving side: so does every step of an archiver.
LEMMA ArchiverInv ==
  ASSUME Inv, NEW r \in Archivers, ArchiverStep(r)
  PROVE  Inv'
<1>0. /\ arch \in [Archivers -> ArchState] /\ arch[r] \in ArchState
      /\ onNAS \in [Assets -> SUBSET NASes] /\ failed \subseteq Assets
      /\ arch[r].slot \in BOOLEAN /\ arch[r].asset \subseteq Assets /\ arch[r].todo \subseteq NASes
  BY ArchType DEF Inv, TypeOK, ArchState
<1>n. /\ slots \in Nat /\ writers \in Nat /\ WhileSpooling \in Nat /\ Writers \in Nat
      /\ slots <= WhileSpooling /\ writers <= Writers
      /\ arch[r].slot => slots > 0
      /\ arch[r].pc = "copy" => writers > 0
  <2>1. slots = Cardinality(Slotted) /\ writers = Cardinality(Copying)
    BY DEF Inv, Counted
  <2>2. r \in Archivers /\ arch[r].slot => Cardinality(Slotted) > 0
    BY Finite, FS_EmptySet DEF Slotted
  <2>3. r \in Archivers /\ arch[r].pc = "copy" => Cardinality(Copying) > 0
    BY Finite, FS_EmptySet DEF Copying
  <2>4. slots \in 0..WhileSpooling /\ writers \in 0..Writers
    BY DEF Inv, TypeOK
  <2> QED BY <2>1, <2>2, <2>3, <2>4, ImportAssumption
<1>1. /\ arch[r].slot => arch[r].pc \in {"nas", "copy"}
      /\ arch[r].pc \in Busy => \A a \in arch[r].asset : Serves[a] \ arch[r].todo \subseteq onNAS[a]
  BY DEF Inv, ArchOK
<1>2. arch[r].pc # "exited" => main.pc # "done"
  BY DEF Inv, MainOK, AllExited
<1>3. NoAsset \in ArchState /\ NoAsset.pc = "idle" /\ NoAsset.slot = FALSE
  BY DEF NoAsset, ArchState
<1>4. CASE Exit(r)
  <2> DEFINE x == [arch[r] EXCEPT !.pc = "exited"]
  <2>1. x \in ArchState /\ x.pc = "exited" /\ x.slot = arch[r].slot
    BY <1>0 DEF ArchState
  <2>2. /\ arch' = [arch EXCEPT ![r] = x] /\ arch[r].pc = "idle"
        /\ UNCHANGED <<onSpool, onNAS, todo, left, listed, main, spooling, slots, writers,
                       cancelled, failed, report>>
    BY <1>4 DEF Exit
  <2> HIDE DEF x
  <2>3. ArchTo(r, x)
    BY <1>n, <2>1, <2>2 DEF ArchTo
  <2> QED BY <1>0, <1>1, <2>1, <2>2, <2>3, ArchStepInv DEF Busy
<1>5. CASE ArchiveNext(r)
  <2> DEFINE x == IF arch[r].todo = {} THEN NoAsset ELSE [arch[r] EXCEPT !.pc = "slot"]
  <2>1. /\ arch' = [arch EXCEPT ![r] = x] /\ arch[r].pc = "loop"
        /\ UNCHANGED <<onSpool, onNAS, todo, left, listed, main, spooling, slots, writers,
                       cancelled, failed, report>>
    BY <1>5 DEF ArchiveNext
  <2>2. /\ x \in ArchState /\ x.slot = FALSE /\ x.pc \in {"idle", "slot"}
        /\ x.pc = "slot" => x.asset = arch[r].asset /\ x.todo = arch[r].todo
    <3>1. CASE arch[r].todo = {}
      BY <1>3, <3>1
    <3>2. CASE arch[r].todo # {}
      BY <1>0, <1>1, <2>1, <3>2 DEF ArchState
    <3> QED BY <3>1, <3>2
  <2> HIDE DEF x
  <2>3. arch[r].slot = FALSE
    BY <1>0, <1>1, <2>1
  <2>4. ArchTo(r, x)
    BY <1>n, <2>1, <2>2, <2>3 DEF ArchTo
  <2> QED BY <1>0, <1>1, <1>2, <2>1, <2>2, <2>4, ArchStepInv DEF Busy
<1>6. CASE Admit(r)
  <2>1. /\ arch[r].pc = "slot" /\ arch[r].slot = FALSE
        /\ UNCHANGED <<onSpool, onNAS, todo, left, listed, main, spooling, writers,
                       cancelled, failed, report>>
    BY <1>0, <1>1, <1>6 DEF Admit
  <2>2. ASSUME NEW b \in BOOLEAN, NEW x \in ArchState,
               x.slot = b, x.pc = "nas", x.asset = arch[r].asset, x.todo = arch[r].todo,
               arch' = [arch EXCEPT ![r] = x],
               slots' = IF b THEN slots + 1 ELSE slots, slots' <= WhileSpooling
        PROVE  Inv'
    <3>1. ArchTo(r, x)
      BY <1>n, <2>1, <2>2 DEF ArchTo
    <3>2. \A a \in x.asset : Serves[a] \ x.todo \subseteq onNAS'[a]
      BY <1>1, <2>1, <2>2 DEF Busy
    <3>3. main.pc # "done"
      BY <1>2, <2>1
    <3> QED BY <1>0, <2>1, <2>2, <3>1, <3>2, <3>3, ArchStepInv
  <2>3. CASE spooling = 0
    <3> DEFINE x == [arch[r] EXCEPT !.pc = "nas"]
    <3>1. /\ x \in ArchState /\ x.slot = FALSE /\ x.pc = "nas"
          /\ x.asset = arch[r].asset /\ x.todo = arch[r].todo
      BY <1>0, <2>1 DEF ArchState
    <3>2. arch' = [arch EXCEPT ![r] = x] /\ slots' = slots
      BY <1>6, <2>3 DEF Admit
    <3> HIDE DEF x
    <3> QED BY <1>n, <2>2, <3>1, <3>2
  <2>4. CASE spooling > 0 /\ slots < WhileSpooling
    <3> DEFINE x == [arch[r] EXCEPT !.pc = "nas", !.slot = TRUE]
    <3>1. /\ x \in ArchState /\ x.slot = TRUE /\ x.pc = "nas"
          /\ x.asset = arch[r].asset /\ x.todo = arch[r].todo
      BY <1>0, <2>1 DEF ArchState
    <3>2. spooling # 0
      BY <2>4
    <3>3. arch' = [arch EXCEPT ![r] = x] /\ slots' = slots + 1
      BY <1>6, <3>2 DEF Admit
    <3> HIDE DEF x
    <3>4. slots' <= WhileSpooling
      BY <1>n, <2>4, <3>3
    <3> QED BY <2>2, <3>1, <3>3, <3>4
  <2> QED BY <1>6, <2>3, <2>4 DEF Admit
<1>7. CASE Acquire(r)
  <2> DEFINE x == [arch[r] EXCEPT !.pc = "copy"]
  <2>1. /\ x \in ArchState /\ x.slot = arch[r].slot /\ x.pc = "copy"
        /\ x.asset = arch[r].asset /\ x.todo = arch[r].todo
    BY <1>0 DEF ArchState
  <2>2. /\ arch' = [arch EXCEPT ![r] = x] /\ arch[r].pc = "nas"
        /\ writers < Writers /\ writers' = writers + 1
        /\ UNCHANGED <<onSpool, onNAS, todo, left, listed, main, spooling, slots,
                       cancelled, failed, report>>
    BY <1>7 DEF Acquire
  <2> HIDE DEF x
  <2>3. ArchTo(r, x)
    BY <1>n, <2>1, <2>2 DEF ArchTo
  <2>4. \A a \in x.asset : Serves[a] \ x.todo \subseteq onNAS'[a]
    BY <1>1, <2>1, <2>2 DEF Busy
  <2>5. main.pc # "done"
    BY <1>2, <2>2
  <2> QED BY <1>0, <2>1, <2>2, <2>3, <2>4, <2>5, ArchStepInv
<1>8. CASE Cancelled(r) \/ CopyFails(r)
  <2>1. /\ arch' = [arch EXCEPT ![r] = NoAsset] /\ failed' = failed \cup arch[r].asset
        /\ slots' = IF arch[r].slot THEN slots - 1 ELSE slots
        /\ arch[r].pc # "exited"
        /\ UNCHANGED <<onSpool, onNAS, todo, left, listed, main, spooling, cancelled, report>>
    BY <1>8 DEF Cancelled, CopyFails, GiveUp, Release
  <2>2. writers' = IF arch[r].pc = "copy" THEN writers - 1 ELSE writers
    BY <1>8 DEF Cancelled, CopyFails
  <2>3. failed' \subseteq Assets
    BY <1>0, <2>1
  <2>4. ArchTo(r, NoAsset)
    <3>1. slots' <= WhileSpooling /\ writers' <= Writers
      BY <1>n, <2>1, <2>2
    <3>2. slots' = IF FALSE = arch[r].slot THEN slots ELSE slots - 1
      BY <1>0, <2>1
    <3>3. writers' = IF FALSE = (arch[r].pc = "copy") THEN writers ELSE writers - 1
      BY <2>2
    <3> QED BY <1>3, <2>1, <3>1, <3>2, <3>3 DEF ArchTo
  <2> QED BY <1>0, <1>2, <1>3, <2>1, <2>3, <2>4, ArchStepInv DEF Busy
<1>9. CASE CopyDone(r)
  <2>1. PICK n \in arch[r].todo :
          /\ onNAS' = [a \in Assets |-> IF a \in arch[r].asset
                                        THEN onNAS[a] \cup {n} ELSE onNAS[a]]
          /\ arch' = [arch EXCEPT ![r].pc = "loop", ![r].slot = FALSE,
                                  ![r].todo = arch[r].todo \ {n}]
    BY <1>9 DEF CopyDone
  <2> DEFINE x == [arch[r] EXCEPT !.pc = "loop", !.slot = FALSE, !.todo = arch[r].todo \ {n}]
  <2>2. /\ x \in ArchState /\ x.slot = FALSE /\ x.pc = "loop"
        /\ x.asset = arch[r].asset /\ x.todo = arch[r].todo \ {n}
    BY <1>0 DEF ArchState
  <2>3. /\ writers' = writers - 1 /\ slots' = IF arch[r].slot THEN slots - 1 ELSE slots
        /\ arch[r].pc = "copy"
        /\ UNCHANGED <<onSpool, todo, left, listed, main, spooling, cancelled, failed, report>>
    BY <1>9 DEF CopyDone, Release
  <2>4. arch' = [arch EXCEPT ![r] = x]
    BY <1>0, <2>1
  <2> HIDE DEF x
  <2>5. /\ onNAS' \in [Assets -> SUBSET NASes]
        /\ \A a \in Assets : onNAS[a] \subseteq onNAS'[a]
        /\ \A a \in arch[r].asset : onNAS'[a] = onNAS[a] \cup {n}
    BY <1>0, <2>1
  <2>6. \A a \in x.asset : Serves[a] \ x.todo \subseteq onNAS'[a]
    BY <1>1, <2>2, <2>3, <2>5 DEF Busy
  <2>7. ArchTo(r, x)
    <3>1. slots' <= WhileSpooling /\ writers' <= Writers
      BY <1>n, <2>3
    <3>2. slots' = IF FALSE = arch[r].slot THEN slots ELSE slots - 1
      BY <1>0, <2>3
    <3> QED BY <2>2, <2>3, <2>4, <3>1, <3>2 DEF ArchTo
  <2> QED BY <1>0, <1>2, <2>2, <2>3, <2>5, <2>6, <2>7, ArchStepInv
<1> QED BY <1>4, <1>5, <1>6, <1>7, <1>8, <1>9 DEF ArchiverStep

\* Every step keeps the invariant, cancellation included.
LEMMA InvStep ==
  ASSUME Inv, [Next]_vars
  PROVE  Inv'
<1>1. CASE Cancel \/ Finished \/ UNCHANGED vars
  <2>1. UNCHANGED <<onSpool, onNAS, todo, left, listed, main, arch, spooling, slots,
                    writers, failed, report>> /\ cancelled' \in BOOLEAN
    BY <1>1 DEF Cancel, Finished, vars, Inv, TypeOK
  <2>2. MainOK'
    BY <2>1 DEF Inv, MainOK, AllExited
  <2> QED BY <2>1, <2>2, MainOnly DEF Inv, TypeOK, Counted
<1> QED BY <1>1, MainInv, ArchiverInv DEF Next

\* Every slot, NAS writer and lock is with someone who will return it, and every asset
\* is somewhere on its way, in every reachable state.
THEOREM InvariantHolds == Spec => []Inv
BY InvInit, InvStep, PTL DEF Spec

\* Types, and with them the bounds of the three counters.
THEOREM TypeCorrect == Spec => []TypeOK
<1>1. Inv => TypeOK
  BY DEF Inv
<1> QED BY <1>1, InvariantHolds, PTL

\* archiveSlot, e.nas and e.spooling: whatever fails or is cancelled, a slot is
\* held exactly by the copies under way.
THEOREM SlotsAreAccounted == Spec => []SlotsAccounted
<1>1. Inv => SlotsAccounted
  BY DEF Inv, Counted, SlotsAccounted, Slotted, Copying
<1> QED BY <1>1, InvariantHolds, PTL

-----------------------------------------------------------------------------
(* No asset drops out.                                                     *)

Kept(a) == Settled(a) \/ Pending(a)

\* What an archiver leaves behind is settled: it either failed or reached every
\* NAS that serves it.
LEMMA KeptStays ==
  ASSUME Inv, Next, NEW a \in Assets, Kept(a)
  PROVE  Kept(a)'
<1>0. main \in MainState /\ arch \in [Archivers -> ArchState] /\ onNAS \in [Assets -> SUBSET NASes]
  BY ArchType DEF Inv, TypeOK, MainState
<1>a. /\ main.pc \notin {"spool", "spooling", "send"} => main.asset = {}
  BY DEF Inv, MainOK, Carrying
\* A step that leaves the archivers alone.
<1>1. ASSUME UNCHANGED <<onNAS, arch>>, failed \subseteq failed',
             main.asset \subseteq main'.asset \cup failed'
      PROVE  Kept(a)'
  BY <1>1 DEF Kept, Settled, Pending
<1>2. ASSUME MainStep PROVE Kept(a)'
  <2>1. ASSUME NEW b \in Card, Next1(b) PROVE Kept(a)'
    <3>1. main.asset = {} /\ UNCHANGED <<onNAS, arch, failed>>
      BY <1>a, <2>1 DEF Next1
    <3> QED BY <1>1, <3>1
  <2>a. ASSUME NEW b \in Card, LookupFails(b) PROVE Kept(a)'
    <3>1. failed \subseteq failed' /\ UNCHANGED <<onNAS, arch, main>>
      BY <2>a DEF LookupFails
    <3> QED BY <1>1, <3>1
  <2>2. CASE SpoolStart \/ SpoolEnd \/ LoopEnds \/ Close \/ Return
    <3>1. main'.asset = main.asset /\ UNCHANGED <<onNAS, arch, failed>>
      <4>1. CASE SpoolStart
        BY <1>0, <4>1 DEF SpoolStart, MainState
      <4>2. CASE SpoolEnd
        BY <1>0, <4>2 DEF SpoolEnd, MainState
      <4>3. CASE LoopEnds
        BY <1>0, <4>3 DEF LoopEnds, MainState
      <4>4. CASE Close
        BY <1>0, <4>4 DEF Close, MainState
      <4>5. CASE Return
        BY <1>0, <4>5 DEF Return, MainState
      <4> QED BY <2>2, <4>1, <4>2, <4>3, <4>4, <4>5
    <3> QED BY <1>1, <3>1
  <2>3. CASE SpoolFails
    <3>1. failed' = failed \cup main.asset /\ UNCHANGED <<onNAS, arch>>
      BY <2>3 DEF SpoolFails
    <3> QED BY <1>1, <3>1
  <2>4. ASSUME NEW b \in Assets, NextLeftover(b) PROVE Kept(a)'
    <3>1. main.asset = {} /\ UNCHANGED <<onNAS, arch, failed>>
      BY <1>a, <2>4 DEF NextLeftover
    <3> QED BY <1>1, <3>1
  <2>5. ASSUME NEW r \in Archivers, Send(r) PROVE Kept(a)'
    <3>1. /\ arch'[r].pc = "loop" /\ arch'[r].asset = main.asset /\ arch[r].pc = "idle"
          /\ \A q \in Archivers \ {r} : arch'[q] = arch[q]
          /\ UNCHANGED <<onNAS, failed>>
      BY <1>0, <2>5 DEF Send, NoAsset
    <3>2. CASE Settled(a)
      BY <3>1, <3>2 DEF Kept, Settled
    <3>3. CASE a \in main.asset
      BY <3>1, <3>3 DEF Kept, Pending, Busy
    <3>4. ASSUME NEW q \in Archivers, arch[q].pc \in Busy, a \in arch[q].asset
          PROVE  Kept(a)'
      <4>1. q # r
        BY <3>1, <3>4 DEF Busy
      <4>2. arch'[q] = arch[q]
        BY <3>1, <4>1
      <4> QED BY <3>4, <4>2 DEF Kept, Pending
    <3> QED BY <3>2, <3>3, <3>4 DEF Kept, Pending
  <2>6. ASSUME NEW r \in Archivers, SendFails(r) PROVE Kept(a)'
    <3>1. failed' = failed \cup main.asset /\ UNCHANGED <<onNAS, arch>>
      BY <2>6 DEF SendFails
    <3> QED BY <1>1, <3>1
  <2> QED BY <1>2, <2>1, <2>2, <2>3, <2>4, <2>5, <2>6, <2>a DEF MainStep
<1>3. ASSUME NEW r \in Archivers, ArchiverStep(r) PROVE Kept(a)'
  <2>1. ASSUME UNCHANGED main,
               \A q \in Archivers \ {r} : arch'[q] = arch[q],
               failed \subseteq failed',
               onNAS[a] \subseteq onNAS'[a],
               arch[r].pc \in Busy /\ a \in arch[r].asset =>
                 Settled(a)' \/ (arch'[r].pc \in Busy /\ a \in arch'[r].asset)
        PROVE  Kept(a)'
    <3>1. CASE Settled(a)
      BY <2>1, <3>1 DEF Kept, Settled
    <3>2. CASE a \in main.asset
      BY <2>1, <3>2 DEF Kept, Pending
    <3>3. ASSUME NEW q \in Archivers, arch[q].pc \in Busy, a \in arch[q].asset
          PROVE  Kept(a)'
      <4>1. CASE q = r
        BY <2>1, <3>3, <4>1 DEF Kept, Pending
      <4>2. CASE q # r
        <5>1. arch'[q] = arch[q]
          BY <2>1, <4>2
        <5> QED BY <3>3, <5>1 DEF Kept, Pending
      <4> QED BY <4>1, <4>2
    <3> QED BY <3>1, <3>2, <3>3 DEF Kept, Pending
  <2>2. /\ UNCHANGED main /\ failed \subseteq failed'
        /\ \A q \in Archivers \ {r} : arch'[q] = arch[q]
    BY <1>0, <1>3 DEF ArchiverStep, Exit, ArchiveNext, Admit, Acquire, Cancelled,
                      CopyDone, CopyFails, GiveUp
  <2>3. CASE Exit(r)
    <3>1. arch[r].pc \notin Busy /\ UNCHANGED onNAS
      BY <2>3 DEF Exit, Busy
    <3> QED BY <2>1, <2>2, <3>1
  <2>4. CASE ArchiveNext(r)
    <3>1. arch[r].pc = "loop" /\ UNCHANGED <<onNAS, failed>>
      BY <2>4 DEF ArchiveNext
    <3>2. CASE arch[r].todo = {}
      <4>1. a \in arch[r].asset => Serves[a] \subseteq onNAS[a]
        BY <3>1, <3>2 DEF Inv, ArchOK, Busy
      <4>2. a \in arch[r].asset => Settled(a)'
        BY <3>1, <4>1 DEF Settled
      <4> QED BY <2>1, <2>2, <3>1, <4>2
    <3>3. CASE arch[r].todo # {}
      <4>1. arch'[r].pc = "slot" /\ arch'[r].asset = arch[r].asset
        BY <1>0, <2>4, <3>3 DEF ArchiveNext, ArchState
      <4> QED BY <2>1, <2>2, <3>1, <4>1 DEF Busy
    <3> QED BY <3>2, <3>3
  <2>5. CASE Admit(r)
    <3>1. arch'[r].pc = "nas" /\ arch'[r].asset = arch[r].asset /\ UNCHANGED onNAS
      BY <1>0, <2>5 DEF Admit, ArchState
    <3> QED BY <2>1, <2>2, <3>1 DEF Busy
  <2>6. CASE Acquire(r)
    <3>1. arch'[r].pc = "copy" /\ arch'[r].asset = arch[r].asset /\ UNCHANGED onNAS
      BY <1>0, <2>6 DEF Acquire, ArchState
    <3> QED BY <2>1, <2>2, <3>1 DEF Busy
  <2>7. CASE Cancelled(r) \/ CopyFails(r)
    <3>1. failed' = failed \cup arch[r].asset /\ UNCHANGED onNAS
      BY <2>7 DEF Cancelled, CopyFails, GiveUp
    <3>2. a \in arch[r].asset => Settled(a)'
      BY <3>1 DEF Settled
    <3> QED BY <2>1, <2>2, <3>1, <3>2
  <2>8. CASE CopyDone(r)
    <3>1. /\ onNAS[a] \subseteq onNAS'[a]
          /\ arch'[r].pc = "loop" /\ arch'[r].asset = arch[r].asset
      BY <1>0, <2>8 DEF CopyDone, ArchState
    <3> QED BY <2>1, <2>2, <3>1 DEF Busy
  <2> QED BY <1>3, <2>3, <2>4, <2>5, <2>6, <2>7, <2>8 DEF ArchiverStep
<1>4. ASSUME Cancel \/ Finished PROVE Kept(a)'
  BY <1>1, <1>4 DEF Cancel, Finished, vars
<1> QED BY <1>2, <1>3, <1>4 DEF Next

\* A leftover that is on some NAS stays there.
Reached(a) == onNAS[a] # {} \/ Kept(a)

LEMMA ReachedStays ==
  ASSUME Inv, Next, NEW a \in Assets, Reached(a)
  PROVE  Reached(a)'
<1>1. onNAS[a] \subseteq onNAS'[a]
  <2>1. onNAS \in [Assets -> SUBSET NASes]
    BY DEF Inv, TypeOK
  <2>2. CASE MainStep
    BY <2>2 DEF MainStep, Next1, LookupFails, SpoolStart, SpoolEnd, SpoolFails, Send,
                SendFails, LoopEnds, NextLeftover, Close, Return
  <2>3. CASE \E r \in Archivers : ArchiverStep(r)
    BY <2>1, <2>3 DEF ArchiverStep, Exit, ArchiveNext, Admit, Acquire, Cancelled,
                      CopyDone, CopyFails
  <2>4. CASE Cancel \/ Finished
    BY <2>4 DEF Cancel, Finished, vars
  <2> QED BY <2>2, <2>3, <2>4 DEF Next
<1> QED BY <1>1, KeptStays DEF Reached

\* No step drops an asset: it is on a NAS, among the failures, or on its way.
LEMMA CoveredStep ==
  ASSUME Inv, Covered, [Next]_vars
  PROVE  Covered'
<1>0. main \in MainState
  BY DEF Inv, TypeOK, MainState
<1>a. Card \subseteq Assets /\ Earlier \subseteq Assets
  BY DEF Assets
<1>b. /\ main.pc = "send" => main.after \in {"next", "leftovers"}
      /\ main.pc \in {"next", "spool", "spooling"} => main.after = "next"
      /\ main.pc \in {"leftovers", "wait", "done"} => main.after = "leftovers"
      /\ main.pc = "done" => AllExited
  BY <1>0 DEF Inv, MainOK, MainState
<1>1. CASE UNCHANGED vars
  BY <1>1 DEF vars, Covered, Settled, Pending, LoopOver
<1>2. ASSUME Next PROVE Covered'
  <2>1. \A a \in Assets : (Kept(a) => Kept(a)') /\ (Reached(a) => Reached(a)')
    BY <1>2, KeptStays, ReachedStays
  <2>2. /\ \A a \in Card : Kept(a) \/ a \in todo
        /\ LoopOver /\ ~cancelled =>
             todo = {} /\ (listed => \A a \in Earlier : Reached(a) \/ a \in left)
        /\ main.pc \in {"wait", "done"} => left = {}
        /\ main.pc = "done" /\ ~cancelled =>
             (report = "safe" => \A a \in Card : onNAS[a] # {})
    BY DEF Covered, Reached, Kept
  \* A step after which nobody has forgotten anything.
  <2>3. ASSUME \A a \in Card : a \in todo => a \in todo' \/ Kept(a)',
               LoopOver' /\ ~cancelled' =>
                 /\ todo' = {}
                 /\ listed' => \A a \in Earlier : Reached(a)' \/ a \in left',
               main'.pc \in {"wait", "done"} => left' = {},
               main'.pc = "done" /\ ~cancelled' =>
                 (report' = "safe" => \A a \in Card : onNAS'[a] # {})
        PROVE  Covered'
    <3>1. \A a \in Card : Kept(a)' \/ a \in todo'
      BY <1>a, <2>1, <2>2, <2>3
    <3> QED BY <2>3, <3>1 DEF Covered, Reached, Kept
  <2>4. ASSUME NEW b \in Card, Next1(b) PROVE Covered'
    <3>1. /\ todo' = todo \ {b} /\ b \in main'.asset /\ main'.pc \in {"send", "spool"}
          /\ main'.after = "next"
      <4>1. CASE Queue(b, "next")
        BY <2>4, <4>1 DEF Next1, Queue
      <4>2. CASE main' = [main EXCEPT !.pc = "spool", !.asset = {b}]
        BY <1>0, <1>b, <2>4, <4>2 DEF Next1, MainState
      <4> QED BY <2>4, <4>1, <4>2 DEF Next1
    <3>2. Kept(b)'
      BY <3>1 DEF Kept, Pending
    <3> QED BY <2>3, <3>1, <3>2 DEF LoopOver
  <2>a. ASSUME NEW b \in Card, LookupFails(b) PROVE Covered'
    <3>1. /\ todo' = todo \ {b} /\ b \in failed' /\ main'.pc = "next"
      BY <2>a DEF LookupFails
    <3>2. Kept(b)'
      BY <3>1 DEF Kept, Settled
    <3> QED BY <2>3, <3>1, <3>2 DEF LoopOver
  \* Before the loop is over.
  <2>5. CASE SpoolStart \/ SpoolEnd \/ SpoolFails
    <3>1. /\ todo' = todo /\ main'.after = "next" /\ main'.pc \in {"spooling", "send", "next"}
      <4>1. CASE SpoolStart
        BY <1>0, <1>b, <4>1 DEF SpoolStart, MainState
      <4>2. CASE SpoolEnd
        BY <1>0, <1>b, <4>2 DEF SpoolEnd, MainState
      <4>3. CASE SpoolFails
        BY <1>0, <1>b, <4>3 DEF SpoolFails, MainState
      <4> QED BY <2>5, <4>1, <4>2, <4>3
    <3> QED BY <2>3, <3>1 DEF LoopOver
  <2>6. CASE LoopEnds
    <3>1. /\ main'.pc = "leftovers" /\ UNCHANGED <<onNAS, cancelled, todo, failed>>
          /\ ~cancelled => todo = {}
          /\ listed' => left' = NeedsArchive \ Card
      BY <1>0, <2>6 DEF LoopEnds, MainState
    <3>2. ASSUME listed', NEW a \in Earlier PROVE Reached(a)' \/ a \in left'
      BY <1>a, <3>1, <3>2, ImportAssumption DEF NeedsArchive, Reached
    <3> QED BY <2>3, <3>1, <3>2
  <2>7. ASSUME NEW b \in Assets, NextLeftover(b) PROVE Covered'
    <3>1. /\ main'.pc = "send" /\ b \in main'.asset /\ main.pc = "leftovers"
          /\ left' = left \ {b} /\ UNCHANGED <<todo, listed, cancelled>>
      BY <2>7 DEF NextLeftover, Queue
    <3>2. Reached(b)'
      BY <3>1 DEF Reached, Kept, Pending
    <3>3. LoopOver
      BY <3>1 DEF LoopOver
    <3>4. \A a \in Earlier : ~cancelled /\ listed => Reached(a)' \/ a \in left'
      BY <1>a, <2>1, <2>2, <3>1, <3>2, <3>3
    <3> QED BY <2>2, <2>3, <3>1, <3>3, <3>4
  \* The step leaves the loop where it was, and what is left as it was.
  <2>8. ASSUME UNCHANGED <<todo, left, listed>>, LoopOver' /\ ~cancelled' => LoopOver /\ ~cancelled,
               main'.pc \in {"wait", "done"} => left = {},
               main'.pc = "done" /\ ~cancelled' =>
                 (report' = "safe" => \A a \in Card : onNAS'[a] # {})
        PROVE  Covered'
    <3>1. LoopOver' /\ ~cancelled' =>
            todo' = {} /\ (listed' => \A a \in Earlier : Reached(a)' \/ a \in left')
      BY <1>a, <2>1, <2>2, <2>8
    <3> QED BY <2>3, <2>8, <3>1
  <2>9. CASE Close
    <3>1. /\ main.pc = "leftovers" /\ left = {} /\ main'.pc = "wait"
          /\ UNCHANGED <<todo, left, listed, cancelled>>
      BY <1>0, <2>9 DEF Close, MainState
    <3> QED BY <2>8, <3>1 DEF LoopOver
  <2>10. CASE Return
    <3>1. /\ main.pc = "wait" /\ UNCHANGED <<todo, left, listed, cancelled, onNAS>>
          /\ ~cancelled => (report' = "safe" => \A a \in Card : onNAS[a] # {})
      BY <2>10 DEF Return
    <3> QED BY <2>2, <2>8, <3>1 DEF LoopOver
  <2>11. ASSUME NEW r \in Archivers, Send(r) PROVE Covered'
    <3>1. /\ main.pc = "send" /\ main'.pc = main.after /\ main'.pc \in {"next", "leftovers"}
          /\ UNCHANGED <<todo, left, listed, cancelled>>
      BY <1>0, <1>b, <2>11 DEF Send, MainState
    <3> QED BY <2>8, <3>1 DEF LoopOver
  <2>b. ASSUME NEW r \in Archivers, SendFails(r) PROVE Covered'
    <3>1. /\ main.pc = "send" /\ main'.pc = main.after /\ main'.pc \in {"next", "leftovers"}
          /\ UNCHANGED <<todo, left, listed, cancelled>>
      BY <1>0, <1>b, <2>b DEF SendFails, MainState
    <3> QED BY <2>8, <3>1 DEF LoopOver
  <2>12. ASSUME NEW r \in Archivers, ArchiverStep(r) PROVE Covered'
    <3>1. UNCHANGED <<main, todo, left, listed, cancelled, report>>
      BY <2>12 DEF ArchiverStep, Exit, ArchiveNext, Admit, Acquire, Cancelled,
                   CopyDone, CopyFails
    <3>2. arch[r].pc # "exited"
      BY <2>12 DEF ArchiverStep, Exit, ArchiveNext, Admit, Acquire, Cancelled,
                   CopyDone, CopyFails
    <3>3. main.pc # "done"
      BY <1>b, <3>2 DEF AllExited
    <3> QED BY <2>2, <2>8, <3>1, <3>3 DEF LoopOver
  <2>13. CASE Cancel
    <3>1. cancelled' = TRUE /\ UNCHANGED <<todo, left, listed, main>>
      BY <2>13 DEF Cancel
    <3> QED BY <2>2, <2>8, <3>1
  <2>14. CASE Finished
    BY <2>14 DEF Finished, vars, Covered, Settled, Pending, LoopOver
  <2> QED BY <1>2, <2>4, <2>5, <2>6, <2>7, <2>9, <2>10, <2>11, <2>12, <2>13, <2>14,
             <2>a, <2>b
          DEF Next, MainStep
<1> QED BY <1>1, <1>2

\* Import and Env.Archive: when an import that nobody cancelled returns, every
\* asset of the card is on each NAS that serves it or among the failures, every
\* leftover the catalog listed is on a NAS or among them, and SafeToFormat is set
\* only when the card's assets are all on a NAS.
THEOREM NobodyForgotten == Spec => []NoneForgotten
<1>1. Init => Inv /\ Covered
  BY InvInit
<1>2. Inv /\ Covered /\ [Next]_vars => (Inv /\ Covered)'
  BY InvStep, CoveredStep
<1>3. Inv /\ Covered => NoneForgotten
  <2> SUFFICES ASSUME Inv, Covered, main.pc = "done", ~cancelled
               PROVE  /\ \A a \in Card : Settled(a)
                      /\ listed => \A a \in Earlier :
                           Serves[a] # {} => onNAS[a] # {} \/ a \in failed
                      /\ report = "safe" => \A a \in Card : onNAS[a] # {}
    BY DEF NoneForgotten, Settled
  <2>1. main.asset = {} /\ \A r \in Archivers : arch[r].pc = "exited"
    BY DEF Inv, MainOK, Carrying, AllExited
  <2>2. \A a \in Assets : ~Pending(a)
    BY <2>1 DEF Pending, Busy
  <2>3. todo = {} /\ left = {}
    BY DEF Covered, LoopOver
  <2>4. listed => \A a \in Earlier : onNAS[a] # {} \/ Settled(a)
    BY <2>2, <2>3 DEF Covered, LoopOver, Assets
  <2> QED BY <2>2, <2>3, <2>4 DEF Covered, LoopOver, Settled, Assets
<1> QED BY <1>1, <1>2, <1>3, PTL DEF Spec
=============================================================================
