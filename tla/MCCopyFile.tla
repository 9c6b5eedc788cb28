----------------------------- MODULE MCCopyFile -----------------------------
(* Small instances of CopyFile for TLC.                                    *)
EXTENDS CopyFile, TLC

CONSTANTS c1, c2, i1, i2

InodeSymmetry == Permutations(Inodes)
=============================================================================
