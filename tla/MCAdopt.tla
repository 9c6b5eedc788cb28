------------------------------- MODULE MCAdopt -------------------------------
(* A small library for TLC: a clip with the earlier importer's name and a  *)
(* copy of it in a nested directory, two stills of one day and one name.   *)
EXTENDS Adopt, TLC

CONSTANTS clip, still, twin, mov, img, other, misc, day, nested

MCLibrary == (PathOf(misc, <<mov, Legacy>>) :> clip)
          @@ (PathOf(nested, <<mov>>) :> clip)
          @@ (PathOf(misc, <<img>>) :> still)
          @@ (PathOf(day, <<img>>) :> twin)
MCBeside == {PathOf(misc, <<mov, Legacy>>), PathOf(nested, <<mov>>),
             PathOf(misc, <<img>>)}
MCDepth == (misc :> 1) @@ (day :> 3) @@ (nested :> 4)
MCDirDay == (misc :> None) @@ (day :> day) @@ (nested :> day)
MCCaptureDay == [c \in Contents |-> day]
\* The card's name for the twin is not the library's.
MCCardName == [c \in Contents |-> IF c = twin THEN <<other>>
                                  ELSE IF c = still THEN <<img>> ELSE <<mov>>]
\* One still to adopt, and a card with another that would get the same name.
MCOneStill == PathOf(misc, <<img>>) :> still
MCSameName == [c \in Contents |-> <<img>>]
MCParts == Contents \cup {mov, img, other, Legacy} \cup 1..Suffixes
=============================================================================
