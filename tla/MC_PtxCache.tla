---------------------------- MODULE MC_PtxCache ----------------------------
(***************************************************************************)
(* The runs are alike, and so are the options.                             *)
(***************************************************************************)
EXTENDS PtxCache, TLC

Symmetry == Permutations(Runs) \cup Permutations(Options)
=============================================================================
