------------------------------ MODULE MCImport ------------------------------
(* A small instance of Import for TLC.                                     *)
EXTENDS Import, TLC

CONSTANTS a1, a2, a3, b1, n1, n2, r1, r2

\* No NAS has a tree for a2, and one of the two for what earlier runs left.
MCServes ==
  [a \in Assets |-> IF a = a2 THEN {} ELSE IF a = b1 THEN {n2} ELSE NASes]
=============================================================================
