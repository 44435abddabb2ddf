----------------------------- MODULE MCSessions -----------------------------
(* Small instances of Sessions for TLC. *)
EXTENDS Sessions

Symmetry == Permutations(Ids) \cup Permutations(Names) \cup Permutations(Procs)
=============================================================================
