------------------------------ MODULE Postdom ------------------------------
(***************************************************************************)
(* compute_postdominators of src/sbt/cfg_verify.cpp: the sweeps that       *)
(* shrink the candidate sets of the blocks, in address order and in place, *)
(* until a whole sweep changes nothing.  The verifier accepts a vbranch    *)
(* only if its join block is in the set computed for the vbranch's block.  *)
(***************************************************************************)
EXTENDS Integers, FlowGraph

CONSTANTS
  N,         (* basic blocks, numbered in address order                    *)
  MaxSuccs   (* successors of a block: a conditional branch has two        *)

ASSUME NAssumption == N \in Nat

Blocks == 1 .. N
Exit   == N + 1      (* the virtual exit, index n in the code              *)

VARIABLES
  succs,     (* the control-flow graph                                     *)
  postdom,   (* postdom[i]: the candidates left for block i                *)
  i,         (* the block the sweep is at                                  *)
  changed    (* the sweep has changed a set                                *)

vars == << succs, postdom, i, changed >>

(* A set with at most k elements: the successors a block can have.         *)
AtMost(S, k) == \A f \in [0 .. k -> S] : \E a, b \in 0 .. k : a # b /\ f[a] = f[b]

(* Mutant: the sets start empty instead of full.                           *)
InitEmpty ==
  /\ succs \in [Blocks -> { S \in SUBSET Blocks : AtMost(S, MaxSuccs) }]
  /\ postdom = [b \in 1 .. Exit |-> IF b = Exit THEN {Exit} ELSE {}]
  /\ i = 1
  /\ changed = FALSE

Init ==
  /\ succs \in [Blocks -> { S \in SUBSET Blocks : AtMost(S, MaxSuccs) }]
  /\ postdom = [b \in 1 .. Exit |-> IF b = Exit THEN {Exit} ELSE 1 .. Exit]
  /\ i = 1
  /\ changed = FALSE

(* What the successors of b have in common, the virtual exit being the     *)
(* successor of a block that has none.                                     *)
Meet(b) ==
  IF succs[b] = {} THEN postdom[Exit]
                   ELSE { d \in 1 .. Exit : \A s \in succs[b] : d \in postdom[s] }

SweepBlock ==
  /\ i \in Blocks
  /\ postdom' = [postdom EXCEPT ![i] = Meet(i) \cup {i}]
  /\ changed' = (changed \/ postdom[i] # Meet(i) \cup {i})
  /\ i' = i + 1
  /\ UNCHANGED succs

(* Mutant: the first block is taken to be number 0.                        *)
NextSweepFromZero == i = Exit /\ changed /\ i' = 0 /\ UNCHANGED << succs, postdom, changed >>

(* Mutant: the flag is not lowered before the next sweep.                  *)
NextSweepKeepsFlag == i = Exit /\ changed /\ i' = 1 /\ UNCHANGED << succs, postdom, changed >>

NextSweep ==
  /\ i = Exit
  /\ changed
  /\ i' = 1
  /\ changed' = FALSE
  /\ UNCHANGED << succs, postdom >>

(* Mutant: one sweep is thought enough.                                    *)
OneSweepDone == i = Exit

Done == i = Exit /\ ~changed

Next == SweepBlock \/ NextSweep \/ (Done /\ UNCHANGED vars)

Spec == Init /\ [][Next]_vars

(* The sweeps are a sequential loop: it runs to its end.                   *)
FairSpec == Spec /\ WF_vars(SweepBlock \/ NextSweep)

----------------------------------------------------------------------------
(* Every variable has its type.                                            *)
TypeOK ==
  /\ succs \in [Blocks -> SUBSET Blocks]
  /\ postdom \in [1 .. Exit -> SUBSET (1 .. Exit)]
  /\ i \in 1 .. Exit
  /\ changed \in BOOLEAN

(* The sets only over-approximate while the sweeps run: no postdominator   *)
(* is ever struck out.                                                     *)
NeverTooSmall ==
  \A d, n \in Blocks : Postdominates(succs, d, n) => d \in postdom[n]

(* When the sweeps end the sets are exact: a join that the verifier finds  *)
(* in a vbranch's set really is on every way out of the function, and a    *)
(* vbranch whose join is on every way out is never turned down.            *)
ExactAtEnd ==
  Done => \A d, n \in Blocks : d \in postdom[n] <=> Postdominates(succs, d, n)

(* A candidate struck out never comes back.                                *)
OnlyShrinks == [][\A n \in 1 .. Exit : postdom'[n] \subseteq postdom[n]]_vars

(* The sweeps end.                                                         *)
SweepsEnd == <>Done
=============================================================================
