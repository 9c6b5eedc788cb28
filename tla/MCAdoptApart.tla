---------------------------- MODULE MCAdoptApart ----------------------------
(* The instance of MCAdopt whose names are apart, as the theorems of       *)
(* AdoptProofs suppose.                                                    *)
EXTENDS MCAdopt, AdoptProofs

ASSUME MCNamesApart == NamesApart
=============================================================================
