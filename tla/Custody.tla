------------------------------ MODULE Custody ------------------------------
(***************************************************************************)
(* What the tool promises about an asset, whatever steps get it there:     *)
(* some place holds it whole at all times.  Copies appear only from a copy *)
(* that exists; a spool file or a card's file is let go only while a NAS   *)
(* holds the asset; a NAS lets nothing go.  Rules R1, R3 and R4 of         *)
(* docs/design-brief.md in one abstract state machine; Tiers implements it.*)
(***************************************************************************)

CONSTANTS Assets, Spools, NASes, Cards, CardOf,
          Fragile   \* places where a file may be spoiled from outside

VARIABLE held       \* the places that hold each asset whole

Places == Spools \cup NASes \cup Cards

TypeOK == held \in [Assets -> SUBSET Places]

Init == held = [a \in Assets |-> {CardOf[a]}]

Copied(a, l) ==
  /\ held[a] # {}
  /\ held' = [held EXCEPT ![a] = @ \cup {l}]

\* One place lets go of several assets at once: formatting a card.
Released(as, l) ==
  /\ l \notin NASes
  /\ \A a \in as : held[a] \cap NASes # {}
  /\ held' = [a \in Assets |-> IF a \in as THEN held[a] \ {l} ELSE held[a]]

Spoiled(a, l) ==
  /\ l \in Fragile
  /\ held' = [held EXCEPT ![a] = @ \ {l}]

Next ==
  \/ \E a \in Assets, l \in Places : Copied(a, l) \/ Spoiled(a, l)
  \/ \E as \in SUBSET Assets, l \in Places : Released(as, l)

Spec == Init /\ [][Next]_held

\* As long as only spools are fragile, an asset is always on its card or on a
\* NAS, and once on a NAS it stays there.
AlwaysHeld ==
  \A a \in Assets : CardOf[a] \in held[a] \/ held[a] \cap NASes # {}
=============================================================================
