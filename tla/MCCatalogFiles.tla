---------------------------- MODULE MCCatalogFiles ----------------------------
(***************************************************************************)
(* CatalogFiles on small instances.                                        *)
(***************************************************************************)
EXTENDS CatalogFiles, TLC

\* Two things go wrong: calls that fail, deaths of the daemon, or one of each.
TwoMishaps == faults + crashes <= 2

Symmetry == Permutations(Setups) \cup Permutations(Paths) \cup Permutations(Keys)
=============================================================================
