------------------------------- MODULE Naming -------------------------------
(***************************************************************************)
(* Permanent names.  A name without its extension is the sequence of its   *)
(* parts: what the camera called the file, the identity FileName adds,     *)
(* the numbers WithSuffix adds, the stamp of the importer before this one. *)
(* A path is a directory and a name.  Extensions keep the kinds apart: two *)
(* originals of different kinds never have the same name.                  *)
(***************************************************************************)
EXTENDS Naturals, Sequences

PathOf(dir, name) == [dir |-> dir, name |-> name]

Last(name) == name[Len(name)]

\* Parse: the name ends in this very identity.
Carries(name, id) == Len(name) > 1 /\ Last(name) = id

\* A sparse identity becomes part of the name, once.
FileName(name, id, sparse) ==
  IF sparse /\ ~Carries(name, id) THEN Append(name, id) ELSE name

\* DateScheme.Path
DatePath(day, name, id, sparse) == PathOf(day, FileName(name, id, sparse))

WithSuffix(path, n) ==
  IF n = 0 THEN path ELSE [path EXCEPT !.name = Append(@, n)]
=============================================================================
