------------------------------ MODULE CfgVerify ----------------------------
(***************************************************************************)
(* verify_function of src/sbt/cfg_verify.cpp: may the vbranches of a       *)
(* function be lowered to plain branches, and its barriers to bar.sync?    *)
(*                                                                         *)
(* The functions take the CFG record that Cfg!Build makes.  A vbranch, a   *)
(* setrpc or a barrier is named by its index in cfg.insts.                 *)
(***************************************************************************)
EXTENDS Cfg, FlowGraph

CONSTANT LookBack     (* how far before a setrpc its auipc may be: 12      *)

NoPc == 0

Indices(cfg, op) == { k \in DOMAIN cfg.insts : cfg.insts[k].inst.op = op }

(* resolve_setrpc_join_pc: the nearest auipc before the setrpc, in address *)
(* order, that writes its register, which no prefix may have extended.     *)
ResolveJoinPc(cfg, k) ==
  LET rs1  == cfg.insts[k].inst.rs1
      near == { j \in Indices(cfg, "auipc") :
                  rs1 < 32 /\ k - LookBack <= j /\ j < k /\ cfg.insts[j].inst.rd = rs1 }
  IN  IF near = {} THEN NoPc ELSE cfg.insts[Max(near)].inst.target

(* current_rpc at instruction k: the last setrpc before it, in address     *)
(* order.                                                                  *)
CurrentRpc(cfg, k) ==
  LET before == { j \in Indices(cfg, "setrpc") : j < k }
  IN  IF before = {} THEN NoPc ELSE ResolveJoinPc(cfg, Max(before))

----------------------------------------------------------------------------
(* compute_vreg_uniform_must: the vector registers that hold one value in  *)
(* all lanes, as the analysis has it.                                      *)

UniformResult(S, w) ==
  \/ w.op = "vmv_v_x"
  \/ w.op = "load_v" /\ w.rs1 \in S
  \/ w.op \in {"op_vx", "op_v"} /\ w.rs2 \in S
  \/ w.op \in {"op_vv", "macc_vv"} /\ {w.rs1, w.rs2} \subseteq S

Transfer(S, w) ==
  IF w.op \notin VectorOps THEN S
  ELSE IF UniformResult(S, w) THEN S \cup {w.rd} ELSE S \ {w.rd}

(* The state before instruction k of the block that S is the input of.     *)
TransferUpTo(cfg, S, n, k) ==
  FoldLeft(LAMBDA acc, b : Transfer(acc, b.inst), S, SubSeq(cfg.insts, cfg.first[n], k - 1))

Reachable(cfg) == ReachAvoiding(cfg.succs, {cfg.entry}, NoPc)

Meet(cfg, in, n) ==
  LET before == Preds(cfg.succs, n) \cap Reachable(cfg)
      outs   == { TransferUpTo(cfg, in[p], p, cfg.last[p] + 1) : p \in before }
  IN  IF n = cfg.entry \/ before = {} THEN {}
      ELSE { r \in UNION outs : \A out \in outs : r \in out }

(* The sweeps shrink the inputs until nothing changes.  They start from    *)
(* every register there is: rd of some word.                               *)
Registers(cfg) == { b.inst.rd : b \in Range(cfg.insts) }

Settle(cfg, start) ==
  LET settled[in \in [Reachable(cfg) -> SUBSET Registers(cfg)]] ==
        LET next == [n \in Reachable(cfg) |-> Meet(cfg, in, n)]
        IN  IF next = in THEN in ELSE settled[next]
  IN  settled[start]

UniformIn(cfg) ==
  Settle(cfg, [n \in Reachable(cfg) |->
                 IF n = cfg.entry THEN {} ELSE Registers(cfg)])

(* The lanes are said to agree on vbranch k: both its operands are uniform.*)
ProvenUniform(cfg, k) ==
  LET n == cfg.block[k]
      w == cfg.insts[k].inst
  IN  /\ n \in Reachable(cfg)
      /\ {w.rs1, w.rs2} \subseteq TransferUpTo(cfg, UniformIn(cfg)[n], n, k)

----------------------------------------------------------------------------
(* The join of vbranch k is a join instruction that starts a block.        *)
JoinIsBlock(cfg, k) ==
  \E j \in Indices(cfg, "join") : cfg.insts[j].pc = CurrentRpc(cfg, k) /\ cfg.block[j] = cfg.insts[j].pc

(* Mutant: the postdominance check is left out.                            *)
JoinIsBlockOnly(cfg, k) == JoinIsBlock(cfg, k)

(* The third test, no_side_exit_ok, cannot fail: the region is closed but  *)
(* for the join.                                                           *)
VBranchOk(cfg, k) ==
  /\ JoinIsBlock(cfg, k)
  /\ Postdominates(cfg.succs, CurrentRpc(cfg, k), cfg.block[k])

(* Mutant: only the first blocks of the two arms are looked at.            *)
FirstBlocksOnly(cfg, k) == cfg.succs[cfg.block[k]] \ {CurrentRpc(cfg, k)}

(* compute_region: what can run between vbranch k and its join.            *)
Region(cfg, k) ==
  LET join == CurrentRpc(cfg, k)
  IN  ReachAvoiding(cfg.succs, cfg.succs[cfg.block[k]] \ {join}, join)

(* The block of vbranch k is a loop's: one of its successors, or what a    *)
(* chain of jumps from it leads to, dominates it.  The walk takes eight    *)
(* steps: LoopsBack[i] are the nodes from which i of them are enough.      *)
LoopsBack(cfg, home) ==
  LET back[i \in 0 .. 8] ==
        IF i = 0 THEN {}
        ELSE { n \in DOMAIN cfg.succs :
                 \/ Dominates(cfg.succs, cfg.entry, n, home)
                 \/ IsJump(cfg.insts[cfg.last[n]].inst) /\ cfg.succs[n] \cap back[i - 1] # {} }
  IN  back[8]

LoopLike(cfg, k) == cfg.succs[cfg.block[k]] \cap LoopsBack(cfg, cfg.block[k]) # {}

SingleEntryOk(cfg, k) ==
  LoopLike(cfg, k) \/ \A n \in Region(cfg, k) :
                        Preds(cfg.succs, n) \subseteq Region(cfg, k) \cup {cfg.block[k]}

(* No vbranch that may diverge has the block of barrier k in its region.   *)
BarrierOk(cfg, k) ==
  \A b \in Indices(cfg, "vbranch") : ProvenUniform(cfg, b) \/ cfg.block[k] \notin Region(cfg, b)

(* What the translator asks of the result before it goes on (sbt_ptx.cpp); *)
(* single_entry_ok is not among it.                                        *)
Accepts(cfg) ==
  /\ \A k \in Indices(cfg, "vbranch") : VBranchOk(cfg, k)
  /\ \A k \in Indices(cfg, "barrier") : BarrierOk(cfg, k)
  /\ Indices(cfg, "jalr") = {}

Verdict(cfg) ==
  [ joins   |-> [k \in Indices(cfg, "vbranch") |-> CurrentRpc(cfg, k)],
    trusted |-> { k \in Indices(cfg, "vbranch") : ProvenUniform(cfg, k) },
    multi   |-> { k \in Indices(cfg, "vbranch") : ~SingleEntryOk(cfg, k) } ]
=============================================================================
