------------------------------- MODULE Lanes -------------------------------
(***************************************************************************)
(* A function on its way through the translator and then on the device:    *)
(* decode_text, build_function_cfg, verify_function, the emission of       *)
(* src/sbt/ptx_emit.cpp, and the run of the emitted code by the lanes of a *)
(* warp.  setrpc and join are emitted as nothing and a vbranch as a branch *)
(* that each lane takes for itself, so it is the verifier that must have   *)
(* made sure that the lanes still meet where the program needs them to.    *)
(***************************************************************************)
EXTENDS FiniteSets, RegextDecode, CfgVerify

CONSTANTS
  Programs,       (* the functions: sequences of words                     *)
  LaneIds,        (* lanes of the warp, numbered                           *)
  VRegs, XRegs,   (* vector and scalar registers that hold data            *)
  Inputs,         (* vector registers that hold the function's arguments   *)
  Values,         (* 0 .. n - 1: what a register may hold                  *)
  BundleRegext,   (* DecodeOptions::bundle_regext                          *)
  RequireKnown    (* DecodeOptions::require_known                          *)

ASSUME LanesAssumption  == LaneIds \subseteq Nat /\ Inputs \subseteq VRegs
ASSUME ValuesAssumption ==
  IsFiniteSet(Values) /\ Values # {} /\ Values = 0 .. Cardinality(Values) - 1

Words == [op : STRING, target : Nat, rd : Nat, rs1 : Nat, rs2 : Nat]

(* The registers that a vector operation reads and writes are modelled.    *)
InFile(w) ==
  w.op \in VectorOps =>
    /\ w.rd \in VRegs
    /\ w.op \in {"op_v", "op_vv", "op_vx", "macc_vv", "madd_vv"} => w.rs2 \in VRegs
    /\ w.op \in {"op_vv", "macc_vv", "madd_vv"} => w.rs1 \in VRegs
    /\ w.op \in {"vmv_v_x", "op_vx"} => w.rs1 \in XRegs \cup {0}

ASSUME ProgramsAssumption ==
  \A p \in Programs :
    /\ p \in Seq(Words)
    /\ \A k \in DOMAIN p : InFile(p[k])
    /\ \A k \in DOMAIN p \ {1} : IsRegext(p[k - 1]) => InFile(Extended(p[k], p[k - 1]))

VARIABLES
  words,     (* the function's words; the first has address 1              *)
  stage,     (* how far the function has come                              *)
  fn,        (* its CFG                                                    *)
  verdict,   (* what the verifier found                                    *)
  pc,        (* pc[l]: the index of the bundle lane l is at                *)
  v,         (* v[l]: vector registers, one value per lane                 *)
  x,         (* scalar registers: every lane holds a copy, all equal       *)
  owed       (* owed[l]: joins of the vbranches that lane l has gone       *)
             (* through and not met since (for checking only)              *)

vars == << words, stage, fn, verdict, pc, v, x, owed >>

Nothing == << >>
Done    == 0        (* the pc of a lane that has left the function         *)

Init ==
  /\ words \in Programs
  /\ stage = "load"
  /\ fn = Nothing /\ verdict = Nothing
  /\ pc = [l \in LaneIds |-> 1]
  /\ v  = [l \in LaneIds |-> [r \in VRegs |-> 0]]
  /\ x  = [r \in XRegs |-> 0]
  /\ owed = [l \in LaneIds |-> {}]

----------------------------------------------------------------------------
(* The translator.                                                         *)

(* Every instruction has a lowering, and every place it goes to a block.   *)
EmittedOps == VectorOps \cup InertOps \cup
  { "branch", "vbranch", "jump", "ret", "endprg", "call", "barrier" }

Emittable(cfg) ==
  \A k \in DOMAIN cfg.insts :
    LET b == cfg.insts[k]
    IN  /\ b.inst.op \in EmittedOps
        /\ IsBranch(b.inst) \/ IsJump(b.inst) => EdgePcs(b) \subseteq Pcs(cfg.insts)

Reject ==
  /\ stage' = "rejected"
  /\ UNCHANGED << words, fn, verdict, pc, v, x, owed >>

Launch(cfg) ==
  /\ stage'   = "run"
  /\ fn'      = cfg
  /\ verdict' = Verdict(cfg)
  /\ x'       \in [XRegs -> Values]
  /\ \E in \in [LaneIds -> [Inputs -> Values]] :
       v' = [l \in LaneIds |-> [r \in VRegs |-> IF r \in Inputs THEN in[l][r] ELSE v[l][r]]]
  /\ UNCHANGED << words, pc, owed >>

Translate ==
  /\ stage = "load"
  /\ LET lo == 1
         hi == Len(words) + 1
         d  == Decode(BundleRegext, RequireKnown, words, lo)
     IN  IF d.err # "none" \/ Rejected(d.out, lo, hi)
           THEN Reject
           ELSE LET cfg == Build(d.out, lo, hi)
                IN  IF Accepts(cfg) /\ Emittable(cfg) THEN Launch(cfg) ELSE Reject

----------------------------------------------------------------------------
(* The lanes.                                                              *)

Running(l) == stage = "run" /\ pc[l] # Done

At(l) == fn.insts[pc[l]].inst

Goto(l, k) == pc' = [pc EXCEPT ![l] = k]

IndexOf(t) == CHOOSE k \in DOMAIN fn.insts : fn.insts[k].pc = t

(* Mutant: the end of the function is not noticed.                         *)
RunPastEnd(k) == k + 1

(* The next bundle; a lane that runs past the last one leaves.             *)
NextOf(k) == IF k = Len(fn.insts) THEN Done ELSE k + 1

(* setrpc and join, auipc (its register is not modelled), and the rest.    *)
Inert(l) ==
  /\ Running(l) /\ At(l).op \in InertOps
  /\ Goto(l, NextOf(pc[l]))
  /\ owed' = [owed EXCEPT ![l] = @ \ (IF At(l).op = "join" THEN { fn.insts[pc[l]].pc } ELSE {})]
  /\ UNCHANGED << words, stage, fn, verdict, v, x >>

(* x0 reads as zero.                                                       *)
Scalar(r) == IF r = 0 THEN 0 ELSE x[r]

(* What a vector operation can leave in lane l of its destination.         *)
Result(l, w) ==
  CASE w.op = "vmv_v_x" -> { Scalar(w.rs1) }
    [] w.op = "vid_v"   -> { l % Cardinality(Values) }
    [] w.op = "load_v"  -> Values
    [] w.op = "op_v"    -> { v[l][w.rs2] }
    [] w.op = "op_vv"   -> { (v[l][w.rs2] + v[l][w.rs1]) % Cardinality(Values) }
    [] w.op = "op_vx"   -> { (v[l][w.rs2] + Scalar(w.rs1)) % Cardinality(Values) }
    [] w.op = "macc_vv" -> { (v[l][w.rd] + v[l][w.rs2] * v[l][w.rs1]) % Cardinality(Values) }
    [] w.op = "madd_vv" -> { (v[l][w.rs2] + v[l][w.rd] * v[l][w.rs1]) % Cardinality(Values) }

VectorOp(l) ==
  /\ Running(l) /\ At(l).op \in VectorOps
  /\ \E r \in Result(l, At(l)) : v' = [v EXCEPT ![l][At(l).rd] = r]
  /\ Goto(l, NextOf(pc[l]))
  /\ UNCHANGED << words, stage, fn, verdict, x, owed >>

(* A call of an inlined builtin, get_local_id: it leaves the lane's number *)
(* in v0, whose value before says which dimension is asked for.            *)
GetId(l) ==
  /\ Running(l) /\ At(l).op = "call"
  /\ v' = [v EXCEPT ![l][0] = IF @ = 0 THEN l % Cardinality(Values) ELSE 0]
  /\ Goto(l, NextOf(pc[l]))
  /\ UNCHANGED << words, stage, fn, verdict, x, owed >>

TakeJump(l) ==
  /\ Running(l) /\ IsJump(At(l))
  /\ Goto(l, IndexOf(At(l).target))
  /\ UNCHANGED << words, stage, fn, verdict, v, x, owed >>

(* A scalar branch compares replicated registers: beq.                     *)
ScalarBranch(l) ==
  /\ Running(l) /\ At(l).op = "branch"
  /\ Goto(l, IF Scalar(At(l).rs1) = Scalar(At(l).rs2) THEN IndexOf(At(l).target) ELSE NextOf(pc[l]))
  /\ UNCHANGED << words, stage, fn, verdict, v, x, owed >>

(* A vbranch compares the lane's own values: vbeq.                         *)
VectorBranch(l) ==
  /\ Running(l) /\ At(l).op = "vbranch"
  /\ Goto(l, IF v[l][At(l).rs2] = v[l][At(l).rs1] THEN IndexOf(At(l).target) ELSE NextOf(pc[l]))
  /\ owed' = [owed EXCEPT ![l] = @ \cup { verdict.joins[pc[l]] }]
  /\ UNCHANGED << words, stage, fn, verdict, v, x >>

Return(l) ==
  /\ Running(l) /\ Leaves(At(l))
  /\ Goto(l, Done)
  /\ UNCHANGED << words, stage, fn, verdict, v, x, owed >>

AtBarrier(l) == Running(l) /\ At(l).op = "barrier"

(* bar.sync 0: one barrier whatever the instruction, complete when every   *)
(* lane that has not left has come to it.                                  *)
BarrierComplete ==
  /\ \E l \in LaneIds : AtBarrier(l)
  /\ \A l \in LaneIds : AtBarrier(l) \/ pc[l] = Done

BarSync ==
  /\ BarrierComplete
  /\ pc' = [l \in LaneIds |-> IF AtBarrier(l) THEN NextOf(pc[l]) ELSE Done]
  /\ UNCHANGED << words, stage, fn, verdict, v, x, owed >>

Stopped ==
  /\ stage = "rejected" \/ \A l \in LaneIds : pc[l] = Done
  /\ UNCHANGED vars

LaneStep(l) ==
  \/ Inert(l)
  \/ VectorOp(l)
  \/ GetId(l)
  \/ TakeJump(l)
  \/ ScalarBranch(l)
  \/ VectorBranch(l)
  \/ Return(l)

Next ==
  \/ Translate
  \/ BarSync
  \/ Stopped
  \/ \E l \in LaneIds : LaneStep(l)

Spec == Init /\ [][Next]_vars

----------------------------------------------------------------------------
(* Every variable has its type.                                            *)
TypeOK ==
  /\ stage \in { "load", "run", "rejected" }
  /\ stage = "run" => \A l \in LaneIds : pc[l] \in DOMAIN fn.insts \cup {Done}
  /\ v \in [LaneIds -> [VRegs -> Values]]
  /\ x \in [XRegs -> Values]
  /\ stage = "run" => \A l \in LaneIds : owed[l] \subseteq Range(verdict.joins)

(* The decoder's pass gives what the words say one by one: a word that no  *)
(* prefix stands before is itself, a word after a prefix is extended by    *)
(* that prefix alone, and the bundles lie end to end over the function.    *)
BundlesExact ==
  stage = "run" =>
    /\ \A k \in DOMAIN fn.insts :
         LET b == fn.insts[k]
         IN  /\ b.inst_pc = IF k = Len(fn.insts) THEN Len(words) ELSE fn.insts[k + 1].pc - 1
             /\ \/ b.pc = b.inst_pc /\ b.inst = words[b.pc]
                \/ /\ b.pc = b.inst_pc - 1 /\ IsRegext(words[b.pc])
                   /\ b.inst = Extended(words[b.inst_pc], words[b.pc])
    /\ fn.insts[1].pc = 1

(* The blocks and edges that the verifier looks at are all there are: a    *)
(* lane stays in its block until the block's end and then goes along an    *)
(* edge to the start of another.                                           *)
EdgesFollowed ==
  [][\A l \in LaneIds :
       stage = "run" /\ pc'[l] \notin {pc[l], Done} =>
         LET from == fn.block[pc[l]]
             to   == fn.block[pc'[l]]
         IN  \/ pc[l] # fn.last[from] /\ to = from /\ pc'[l] = pc[l] + 1
             \/ pc[l] = fn.last[from] /\ to \in fn.succs[from] /\ pc'[l] = fn.first[to]]_vars

(* The vbranches whose join starts the block they are in: the verifier     *)
(* asks that the join postdominate that block, and a block postdominates   *)
(* itself, so that it says nothing of where their lanes meet.              *)
OwnJoins == { k \in DOMAIN verdict.joins : verdict.joins[k] = fn.block[k] }

(* No lane leaves the function from inside an arm of a vbranch: it has met *)
(* the joins of all the vbranches it went through.                         *)
ArmsRejoin ==
  \A l \in LaneIds :
    stage = "run" /\ pc[l] = Done => owed[l] \subseteq { verdict.joins[k] : k \in OwnJoins }

Together == \A l, m \in LaneIds : pc[l] = pc[m]

(* A function with a barrier where lanes may be apart is turned down: when *)
(* a barrier is complete all the lanes are at the same one.  Here for      *)
(* functions in which the verifier trusts no vbranch to be uniform.        *)
BarriersTogether ==
  BarrierComplete /\ verdict.trusted = {} /\ OwnJoins = {} => Together

(* The same of all the functions that the translator accepts.              *)
BarrierOnlyConverged == BarrierComplete => Together

(* Every accepted vbranch has a region that only it leads into.            *)
SingleEntry == stage = "run" => verdict.multi = {}
=============================================================================
