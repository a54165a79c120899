---------------------------- MODULE MC_PdsPool -----------------------------
(* Instances of PdsPool for TLC.                                           *)
EXTENDS PdsPool, TLC

(* A launch that uses the pool, and every launch there is.                 *)
PoolLaunches == { [size |-> TRUE, base |-> TRUE, bitmap |-> TRUE] }

AllLaunches == Params

Symmetry == Permutations(Blocks)
============================================================================
