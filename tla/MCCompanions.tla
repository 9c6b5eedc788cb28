----------------------------- MODULE MCCompanions -----------------------------
(* A small instance of Companions for TLC.                                 *)
EXTENDS Companions, TLC

CONSTANTS xmp, proxy, p1, p2, spool, nas, nas2, card

MCOrder == <<spool, nas, card>>
MCTwoNASes == <<spool, nas, nas2, card>>
=============================================================================
