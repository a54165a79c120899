----------------------------- MODULE FlowGraph -----------------------------
(***************************************************************************)
(* What the graph algorithms of src/sbt/cfg_verify.cpp compute, as         *)
(* operators on a control-flow graph.  A graph is the function succ from   *)
(* its nodes to their sets of successors.                                  *)
(***************************************************************************)

Nodes(succ) == DOMAIN succ

Preds(succ, n) == { m \in Nodes(succ) : n \in succ[m] }

(* No successor of a node of S is outside S, except for stop.              *)
Closed(succ, S, stop) == \A n \in S : succ[n] \ {stop} \subseteq S

(* The nodes that can be reached from the nodes of From without entering   *)
(* stop: the least closed set.  compute_reachable, and compute_region.     *)
ReachAvoiding(succ, From, stop) ==
  { n \in Nodes(succ) :
      \A S \in SUBSET Nodes(succ) :
        From \subseteq S /\ Closed(succ, S, stop) => n \in S }

(* Control that is in S stays in S, and does not leave the function, until *)
(* it enters d.                                                            *)
Confined(succ, S, d) ==
  \A n \in S \ {d} : succ[n] # {} /\ succ[n] \subseteq S

(* d postdominates n: control at n does not leave the function before it   *)
(* has entered d.  (It may never enter d: it may loop for ever.)           *)
Postdominates(succ, d, n) ==
  \E S \in SUBSET Nodes(succ) : n \in S /\ Confined(succ, S, d)

(* d dominates n: control that is outside the set S of the nodes that d    *)
(* guards enters S through d only.  Control enters the function at entry,  *)
(* and for the algorithm also at a node without predecessors.              *)
Guarded(succ, entry, S, d) ==
  \A n \in S \ {d} : /\ n # entry
                     /\ Preds(succ, n) # {}
                     /\ Preds(succ, n) \subseteq S

Dominates(succ, entry, d, n) ==
  \E S \in SUBSET Nodes(succ) : n \in S /\ Guarded(succ, entry, S, d)
=============================================================================
