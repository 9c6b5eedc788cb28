------------------------------ MODULE MCHashes ------------------------------
(* An original, an edit that changes the size and one that does not.         *)
EXTENDS Hashes, TLC

CONSTANTS spool, nas, nas2, card, orig, edit, other

OneNAS == <<spool, nas, card>>
TwoNASes == <<spool, nas, nas2, card>>

\* A size is named by one version that has it.
EverySizeDiffers == [v \in Versions |-> v]
OtherHides == [v \in Versions |-> IF v = other THEN orig ELSE v]

\* Bound: two events, changed files and faults taken together.
TwoEvents == writes + faults <= 2
=============================================================================
