----------------------------- MODULE MCWorkflows -----------------------------
(* Two cards with a large clip in common for TLC, and assets of before.    *)
EXTENDS Workflows, TLC

CONSTANTS one, two, clip, photo, old, raw

MCOnCard == [i \in Imports |-> IF i = one THEN {clip, photo} ELSE {clip}]
MCCaptured == [a \in Assets |-> CASE a \in {old, raw} -> 0 [] a = photo -> 1 [] a = clip -> 2]

\* A card that waited longer to be imported than the old asset was taken.
MCCardFirst == [a \in Assets |-> IF a = clip THEN 0 ELSE 1]
=============================================================================
