--------------------------- MODULE MCArchiveImport ---------------------------
(***************************************************************************)
(* Instances of ArchiveImport for TLC.  Rows, recordings and the paths of  *)
(* one kind are interchangeable: no definition names one or orders them.   *)
(***************************************************************************)
EXTENDS ArchiveImport, TLC

Symmetry == Permutations(Job) \cup Permutations(Recording) \cup Permutations(Inbox)
==============================================================================
