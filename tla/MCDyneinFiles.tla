--------------------------- MODULE MCDyneinFiles ---------------------------
(* Small instances of DyneinFiles.  Process slots are interchangeable. *)
EXTENDS DyneinFiles, TLC

Symmetry == Permutations(Procs)
=============================================================================
