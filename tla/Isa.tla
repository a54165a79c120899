-------------------------------- MODULE Isa --------------------------------
(***************************************************************************)
(* Words of a .text section, as much of them as the control-flow passes    *)
(* look at: src/sbt/cfg.cpp (classify), src/sbt/cfg_verify.cpp and         *)
(* src/sbt/ptx_emit.cpp.                                                   *)
(*                                                                         *)
(* A word has an operation, a target (the pc a branch, jump or call goes   *)
(* to, or the join pc that an auipc and the offset of its setrpc make), a  *)
(* destination and two source registers.  Addresses count words.           *)
(***************************************************************************)

Word(op, target, rd, rs1, rs2) ==
  [op |-> op, target |-> target, rd |-> rd, rs1 |-> rs1, rs2 |-> rs2]

Plain(op)            == Word(op, 0, 0, 0, 0)
Prefix(d, a, b)      == Word("regext", 0, d, a, b)
VBranch(a, b, t)     == Word("vbranch", t, 0, b, a)
Branch(a, b, t)      == Word("branch", t, 0, a, b)
Jump(t)              == Word("jump", t, 0, 0, 0)
Call(t)              == Word("call", t, 1, 0, 0)
Auipc(x, t)          == Word("auipc", t, x, 0, 0)
SetRpc(x)            == Word("setrpc", 0, 0, x, 0)
Vector(op, d, a, b)  == Word(op, 0, d, a, b)

(* Control flow.                                                           *)
IsBranch(w)     == w.op \in {"branch", "vbranch"}
IsJump(w)       == w.op = "jump"
Leaves(w)       == w.op \in {"ret", "endprg", "jalr"}
IsTerminator(w) == IsBranch(w) \/ IsJump(w) \/ Leaves(w)

(* Operations that write a vector register: a splat of a scalar, the lane  *)
(* number, a load from an address per lane, a multiply-add that overwrites *)
(* a factor (vmadd) or the addend (vmacc), and the rest by operand kinds.  *)
VectorOps == { "vmv_v_x", "vid_v", "load_v", "madd_vv", "macc_vv", "op_vv", "op_vx", "op_v" }

(* Operations that do not touch control flow or a modelled register.       *)
InertOps == { "plain", "auipc", "setrpc", "join" }
=============================================================================
