------------------------------ MODULE MCSources ------------------------------
(* A small instance of Sources for TLC: two stills that share a name and a *)
(* day, and a clip whose day is a guess, another on each card.             *)
EXTENDS Sources, TLC

CONSTANTS k1, k2, still1, still2, clip, img, mov, d1, d2

MCNameOf == (still1 :> <<img>>) @@ (still2 :> <<img>>) @@ (clip :> <<mov>>)
MCStamp == (still1 :> 1) @@ (still2 :> 2) @@ (clip :> 3)
MCDay == [k \in Cards |-> [c \in Contents |->
            IF c = clip /\ k = k2 THEN d2 ELSE d1]]
=============================================================================
