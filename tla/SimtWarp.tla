------------------------------ MODULE SimtWarp -----------------------------
(***************************************************************************)
(* The machine that the functions were written for: a warp of Ventus, with *)
(* one file of scalar registers, a mask of active lanes and the SIMT stack *)
(* of setrpc, vbranch and join (src/doc/ventus-isa/vbranch_simtstack.md).  *)
(*                                                                         *)
(* A word is as in Isa; target is also the immediate of addi, lw and sw.   *)
(***************************************************************************)
EXTENDS Integers, FiniteSets, SequencesExt, Isa

CONSTANTS
  LaneIds,      (* lanes of the warp, numbered                             *)
  Size          (* registers and memory hold 0 .. Size - 1                 *)

ASSUME SimtAssumption ==
  /\ LaneIds \subseteq Nat /\ IsFiniteSet(LaneIds) /\ 0 \in LaneIds
  /\ Size \in Nat \ {0}

Values == 0 .. Size - 1

Sum(a, b) == (a + b) % Size

Scalar(regs, r) == IF r = 0 THEN 0 ELSE regs[r]

Address(regs, w) == Scalar(regs, w.rs1) + w.target

(* A warp at the start of its function; mem is a function on addresses.    *)
Warp(x, v, mem) ==
  [ pc |-> 1, rpc |-> 0, mask |-> LaneIds, stack |-> << >>, x |-> x, v |-> v, mem |-> mem,
    stores |-> << >> ]

Advance(s) == [s EXCEPT !.pc = @ + 1]

WriteX(s, r, val) == IF r = 0 THEN Advance(s) ELSE [Advance(s) EXCEPT !.x[r] = val]

WriteV(s, r, val) ==
  [Advance(s) EXCEPT !.v = [l \in LaneIds |-> IF l \in s.mask THEN [@[l] EXCEPT ![r] = val[l]] ELSE @[l]]]

Frame(rpc, pc, mask) == [rpc |-> rpc, pc |-> pc, mask |-> mask]

(* The two paths of a vbranch: the one with fewer lanes goes first, and    *)
(* either if they have as many.                                            *)
Branches(s, w) ==
  LET taken  == { l \in s.mask : s.v[l][w.rs2] = s.v[l][w.rs1] }
      path(t) == Frame(s.rpc, IF t THEN w.target ELSE s.pc + 1, IF t THEN taken ELSE s.mask \ taken)
      go(f, stack) == [s EXCEPT !.pc = f.pc, !.mask = f.mask, !.stack = stack]
  IN  IF taken = {} \/ taken = s.mask
        THEN { go(path(taken # {}), s.stack) }
        ELSE { go(path(t), << path(~t), Frame(s.rpc, s.rpc, s.mask) >> \o s.stack) :
                 t \in { b \in BOOLEAN : Cardinality(path(b).mask) <= Cardinality(path(~b).mask) } }

(* join: back to the frame on top of the stack if it is for this address.  *)
Join(s) ==
  IF s.stack # << >> /\ Head(s.stack).rpc = s.pc
    THEN [s EXCEPT !.pc = Head(s.stack).pc, !.mask = Head(s.stack).mask, !.stack = Tail(s.stack)]
    ELSE Advance(s)

(* What the word the warp is at can make of it.                            *)
Steps(words, s) ==
  LET w == words[s.pc]
      address == Address(s.x, w)
  IN  CASE w.op = "auipc"   -> { Advance(s) }
        [] w.op = "setrpc"  -> { [Advance(s) EXCEPT !.rpc = words[s.pc - 1].target] }
        [] w.op = "vbranch" -> Branches(s, w)
        [] w.op = "join"    -> { Join(s) }
        [] w.op = "jump"    -> { [s EXCEPT !.pc = w.target] }
        [] w.op = "branch"  ->
             { IF Scalar(s.x, w.rs1) = Scalar(s.x, w.rs2) THEN [s EXCEPT !.pc = w.target] ELSE Advance(s) }
        [] w.op = "addi"    -> { WriteX(s, w.rd, Sum(Scalar(s.x, w.rs1), w.target)) }
        [] w.op = "lw"      -> { WriteX(s, w.rd, s.mem[address]) }
        [] w.op = "sw"      -> { [Advance(s) EXCEPT !.mem[address] = Scalar(s.x, w.rs2),
                                                    !.stores = Append(@, s.pc)] }
        [] w.op = "vmv_x_s" -> { WriteX(s, w.rd, s.v[0][w.rs2]) }
        [] w.op = "vmv_v_x" -> { WriteV(s, w.rd, [l \in LaneIds |-> Scalar(s.x, w.rs1)]) }
=============================================================================
