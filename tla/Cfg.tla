-------------------------------- MODULE Cfg --------------------------------
(***************************************************************************)
(* build_function_cfg of src/sbt/cfg.cpp: the basic blocks of a function   *)
(* and the edges between them, from its decoded instructions.              *)
(*                                                                         *)
(* insts is a sequence of bundles [pc, inst_pc, inst] and the function is  *)
(* the addresses lo .. hi - 1.  A block is named by the pc of its first    *)
(* bundle.                                                                 *)
(***************************************************************************)
EXTENDS Integers, SequencesExt, Isa

InRange(t, lo, hi) == lo <= t /\ t < hi

Pcs(insts) == { insts[j].pc : j \in DOMAIN insts }

Targets(insts, lo, hi) ==
  { insts[j].inst.target : j \in { k \in DOMAIN insts :
      /\ IsBranch(insts[k].inst) \/ IsJump(insts[k].inst)
      /\ InRange(insts[k].inst.target, lo, hi) } }

(* The function is turned down: it is empty, a bundle is outside it, or a  *)
(* branch goes into the middle of a bundle.                                *)
Rejected(insts, lo, hi) ==
  \/ insts = << >>
  \/ \E j \in DOMAIN insts : ~InRange(insts[j].pc, lo, hi)
  \/ ~(Targets(insts, lo, hi) \subseteq Pcs(insts))

Leaders(insts, lo, hi) ==
  { insts[1].pc, lo } \cup Targets(insts, lo, hi)
    \cup { insts[j].pc : j \in { k \in DOMAIN insts :
             \/ insts[k].inst.op = "join"
             \/ k > 1 /\ IsTerminator(insts[k - 1].inst) } }

(* The indices at which blocks start, and the block of each bundle.        *)
Heads(insts, lo, hi) ==
  { j \in DOMAIN insts : \/ j = 1
                         \/ IsTerminator(insts[j - 1].inst)
                         \/ insts[j].pc \in Leaders(insts, lo, hi) }

BlockOf(insts, lo, hi) ==
  [j \in DOMAIN insts |->
     insts[Max({ h \in Heads(insts, lo, hi) : h <= j })].pc]

(* Mutant: a conditional branch is taken for a jump.                       *)
TakenOnly(b) ==
  (IF IsBranch(b.inst) \/ IsJump(b.inst) THEN { b.inst.target } ELSE {})
    \cup (IF IsTerminator(b.inst) THEN {} ELSE { b.inst_pc + 1 })

(* Where the last bundle of a block sends control: the branch target, the  *)
(* next word, or nowhere.  An address outside the function has no edge.    *)
EdgePcs(b) ==
  (IF IsBranch(b.inst) \/ IsJump(b.inst) THEN { b.inst.target } ELSE {})
    \cup (IF IsJump(b.inst) \/ Leaves(b.inst) THEN {} ELSE { b.inst_pc + 1 })

(* The CFG as a record: the bundles, the block of each bundle, the bundles *)
(* of each block in order, and the successors of each block.               *)
Build(insts, lo, hi) ==
  LET block  == BlockOf(insts, lo, hi)
      starts == { block[j] : j \in DOMAIN insts }
      last   == [s \in starts |-> Max({ j \in DOMAIN insts : block[j] = s })]
      at(t)  == CHOOSE j \in DOMAIN insts : insts[j].pc = t
  IN  [ insts |-> insts, lo |-> lo, hi |-> hi,
        block |-> block,
        first |-> [s \in starts |-> at(s)],
        last  |-> last,
        succs |-> [s \in starts |->
                     { block[at(t)] : t \in { u \in EdgePcs(insts[last[s]]) : InRange(u, lo, hi) } }],
        entry |-> block[1] ]
=============================================================================
