------------------------------ MODULE MCTiers ------------------------------
(* Small instances of Tiers for TLC.                                       *)
EXTENDS Tiers, TLC

CONSTANTS video, still, s1, s2, n1, n2, c1, m1, m2, f1, v1

\* catalog.Copies: spools, then NAS, then sources, by priority.
MCRank == s1 :> 0 @@ s2 :> 1 @@ n1 :> 2 @@ n2 :> 3 @@ c1 :> 4

MCRankOf == [l \in Locs |-> MCRank[l]]

MCCardOf == [a \in Assets |-> c1]

MoverSymmetry == Permutations(Movers)
=============================================================================
