--------------------------- MODULE MCPackageStore ---------------------------
(* Two process identifiers, each used three times, for TLC.  Which is      *)
(* which makes no difference.                                              *)
EXTENDS PackageStore, TLC

Identifiers == Permutations(Procs)
=============================================================================
