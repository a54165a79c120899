------------------------------ MODULE EmitOne ------------------------------
(***************************************************************************)
(* The lines of PTX that src/sbt/ptx_emit.cpp writes for one instruction.  *)
(* A line has an operation, a rounding mode, a destination, sources and a  *)
(* guard: the predicate register it depends on, and what that must hold.   *)
(*                                                                         *)
(* Constants of 32 bits are scaled to W: 0x80000000 is High, 0xffffffff is *)
(* Ones, a byte has W / 4 bits, and a warp has 2^LogWarp lanes, not 2^5.   *)
(***************************************************************************)
EXTENDS PtxAlu, DecodeOne, SequencesExt

CONSTANTS
  LogWarp,
  SharedBase, GlobalBase,   (* Options: where the two windows begin        *)
  XRegs, VRegs,             (* the registers there are: 0 .. 255 in the code *)
  Symbols                   (* function addresses to names                 *)

ASSUME RegsAssumption == IsFiniteSet(XRegs) /\ IsFiniteSet(VRegs)
ASSUME WindowsAssumption ==
  { SharedBase, GlobalBase } \subseteq Nat /\ 0 < SharedBase /\ SharedBase < GlobalBase /\ GlobalBase < Top

Always == << None, TRUE >>

L(op, d, s)       == [op |-> op, rm |-> "", d |-> d, s |-> s, g |-> Always]
LRm(op, rm, d, s) == [op |-> op, rm |-> rm, d |-> d, s |-> s, g |-> Always]
If(p, line)       == [line EXCEPT !.g = << p, TRUE >>]
Unless(p, line)   == [line EXCEPT !.g = << p, FALSE >>]

R(i)   == << "r", i >>
RD(i)  == << "rd", i >>
P(i)   == << "p", i >>
F(i)   == << "f", i >>
X(i)   == << "x", i >>
V(i)   == << "v", i >>
UB(i)  == << "ub", i >>
UH(i)  == << "uh", i >>
Imm(n) == << "imm", Wrap(n) >>
Bits(n) == << "imm", n >>        (* the ten bits of a float class            *)
Special(name) == << "special", name >>
NoReg == << "none", 0 >>

Mov(d, s)   == L("mov.u32", d, << s >>)
Jump(label) == L("bra", << "label", label >>, << >>)
Label(name) == L("label", << "label", name >>, << >>)

----------------------------------------------------------------------------
(* Scalar registers: x0 reads as zero and is not written.                  *)
LdX(d, x) == Mov(d, IF x = 0 THEN Imm(0) ELSE X(x))
StX(x, s) == IF x = 0 THEN << >> ELSE << Mov(X(x), s) >>

ReadActiveMask == L("activemask", R(1), << >>)
RefreshLeader  == L("setp.eq.u32", P(0), << R(0), R(2) >>)
SelectLeader   == << ReadActiveMask, L("bfind.u32", R(2), << R(1) >>), RefreshLeader >>
WarpSync       == << ReadActiveMask, L("bar.warp.sync", NoReg, << R(1) >>) >>

TrapIfLaneInactive(lane) ==
  << ReadActiveMask, L("and.b32", R(14), << R(1), Imm(2^lane) >>),
     L("setp.eq.u32", P(1), << R(14), Imm(0) >>), If(1, L("trap", NoReg, << >>)) >>

(* Mutant: the size of a lane's part is scaled in its register.            *)
CsrPdsInPlace(d) ==
  << L("ld.wg_base", R(24), << >>), L("shl.b32", R(29), << R(29), Imm(LogWarp) >>),
     L("mul.lo.u32", R(23), << R(10), R(29) >>), L("add.u32", d, << R(24), R(23) >>) >>

CsrPds(d) ==
  << L("ld.wg_base", R(24), << >>), L("shl.b32", R(25), << R(29), Imm(LogWarp) >>),
     L("mul.lo.u32", R(23), << R(10), R(25) >>), L("add.u32", d, << R(24), R(23) >>) >>

----------------------------------------------------------------------------
(* Addresses.                                                              *)

(* emit_prepare_addr_mapping: P(3) and RD(17) for the shared window, P(4)  *)
(* and RD(16) for the global one; below them a trap.                       *)
AddrMap(addr) ==
  << Mov(R(31), addr),
     L("setp.ge.u32", P(1), << R(31), Imm(SharedBase) >>),
     L("setp.lt.u32", P(2), << R(31), Imm(GlobalBase) >>),
     L("and.pred", P(3), << P(1), P(2) >>),
     L("setp.ge.u32", P(4), << R(31), Imm(GlobalBase) >>),
     L("or.pred", P(5), << P(3), P(4) >>),
     Unless(5, L("trap", NoReg, << >>)),
     L("add.u32", R(16), << R(31), Imm(-SharedBase) >>),
     L("cvt.u64.u32", RD(16), << R(16) >>),
     L("add.u64", RD(17), << RD(2), RD(16) >>),
     L("add.u32", R(16), << R(31), Imm(-GlobalBase) >>),
     L("cvt.u64.u32", RD(16), << R(16) >>),
     L("add.u64", RD(16), << RD(0), RD(16) >>) >>

LdOp ==
  [shared |-> [u8 |-> "ld.shared.u8", u16 |-> "ld.shared.u16", u32 |-> "ld.shared.u32"],
   global |-> [u8 |-> "ld.global.u8", u16 |-> "ld.global.u16", u32 |-> "ld.global.u32"]]
StOp ==
  [shared |-> [u8 |-> "st.shared.u8", u16 |-> "st.shared.u16", u32 |-> "st.shared.u32"],
   global |-> [u8 |-> "st.global.u8", u16 |-> "st.global.u16", u32 |-> "st.global.u32"]]

LoadAt(width, d) ==
  << If(3, L(LdOp.shared[width], d, << RD(17) >>)), If(4, L(LdOp.global[width], d, << RD(16) >>)) >>

StoreAt(width, s) ==
  << If(3, L(StOp.shared[width], NoReg, << RD(17), s >>)),
     If(4, L(StOp.global[width], NoReg, << RD(16), s >>)) >>

LoadWord(d, addr) == AddrMap(addr) \o LoadAt("u32", d)
LoadByte(d, addr) == AddrMap(addr) \o LoadAt("u8", UB(0)) \o << L("cvt.u32.u8", d, << UB(0) >>) >>
LoadHalf(d, addr) == AddrMap(addr) \o LoadAt("u16", UH(0)) \o << L("cvt.u32.u16", d, << UH(0) >>) >>

SignExtend(d, bits) == << L("shl.b32", d, << d, Imm(bits) >>), L("shr.s32", d, << d, Imm(bits) >>) >>

(* A load of width w into d: signed for lb and lh.                         *)
Load(w, d, addr) ==
  CASE w = "w"  -> LoadWord(d, addr)
    [] w = "bu" -> LoadByte(d, addr)
    [] w = "hu" -> LoadHalf(d, addr)
    [] w = "b"  -> LoadByte(d, addr) \o SignExtend(d, (3 * W) \div 4)
    [] w = "h"  -> LoadHalf(d, addr) \o SignExtend(d, W \div 2)

(* Mutant: the word goes into the narrow register as it is.                *)
CutToWhole(w, s) ==
  CASE w = "w" -> << >>
    [] w = "b" -> << Mov(UB(1), s) >>
    [] w = "h" -> << Mov(UH(1), s) >>

(* The value a store of width w takes from s: cut before the mapping.      *)
CutTo(w, s) ==
  CASE w = "w" -> << >>
    [] w = "b" -> << L("cvt.u8.u32", UB(1), << s >>) >>
    [] w = "h" -> << L("cvt.u16.u32", UH(1), << s >>) >>

Store(w, addr, s) ==
  AddrMap(addr) \o (CASE w = "w" -> StoreAt("u32", s)
                      [] w = "b" -> StoreAt("u8", UB(1))
                      [] w = "h" -> StoreAt("u16", UH(1)))

(* Mutant: the leader that was chosen last is taken.                       *)
LeaderStoreStale(w, addr, s) ==
  << Unless(0, Jump("after")) >> \o Store(w, addr, s) \o << Label("after") >> \o WarpSync

(* Scalar stores: one lane, chosen from the active ones, stores.           *)
LeaderStore(w, addr, s) ==
  SelectLeader \o << Unless(0, Jump("after")) >> \o Store(w, addr, s) \o << Label("after") >> \o WarpSync

LoadKnl(d, offset) == << L("add.u32", R(16), << R(30), Imm(offset) >>) >> \o LoadWord(d, R(16))

----------------------------------------------------------------------------
(* What the emitter refuses with an EmitError.                             *)
Unsupported == << L("unsupported", NoReg, << >>) >>

(* CSRs are read only: the value in R(14) is stored in rd.                 *)
CsrValue(csr) ==
  CASE csr = 2048 -> << L("shl.b32", R(14), << R(10), Imm(LogWarp) >>) >>   (* CSR_TID   *)
    [] csr = 2049 -> << Mov(R(14), R(12)) >>                               (* CSR_NUMW  *)
    [] csr = 2050 -> << Mov(R(14), Imm(2^LogWarp)) >>                      (* CSR_NUMT  *)
    [] csr = 2051 -> << Mov(R(14), R(30)) >>                               (* CSR_KNL   *)
    [] csr = 2053 -> << Mov(R(14), R(10)) >>                               (* CSR_WID   *)
    [] csr = 2054 -> << Mov(R(14), Imm(SharedBase)) >>                     (* CSR_LDS   *)
    [] csr = 2055 -> CsrPds(R(14))                                         (* CSR_PDS   *)
    [] csr = 2056 -> << Mov(R(14), Special("ctaid.x")) >>                  (* CSR_GDX   *)
    [] csr = 2057 -> << Mov(R(14), Special("ctaid.y")) >>                  (* CSR_GDY   *)
    [] csr = 2058 -> << Mov(R(14), Special("ctaid.z")) >>                  (* CSR_GDZ   *)
    [] csr = 2059 -> LoadKnl(R(14), 48)                                    (* CSR_PRINT *)
    [] OTHER      -> Unsupported

EmitCsr(di) == CsrValue(di.imm) \o StX(di.rd, R(14))

LoadWidth  == [lw |-> "w", flw |-> "w", lb |-> "b", lbu |-> "bu", lh |-> "h", lhu |-> "hu"]
StoreWidth == [sw |-> "w", fsw |-> "w", sb |-> "b", sh |-> "h"]

EmitScalarLoad(di) ==
  << LdX(R(14), di.rs1), L("add.u32", R(15), << R(14), Imm(di.imm) >>) >>
    \o Load(LoadWidth[di.name[1]], R(17), R(15)) \o StX(di.rd, R(17))

EmitScalarStore(di) ==
  LET w == StoreWidth[di.name[1]]
  IN  << LdX(R(14), di.rs1), LdX(R(15), di.rs2), L("add.u32", R(16), << R(14), Imm(di.imm) >>) >>
        \o CutTo(w, R(15)) \o LeaderStore(w, R(16), R(15))

----------------------------------------------------------------------------
(* Scalar arithmetic.                                                      *)
TwoX(di) == << LdX(R(14), di.rs1), LdX(R(15), di.rs2) >>

AluOp ==
  [add |-> "add.u32", sub |-> "sub.u32", and |-> "and.b32", or |-> "or.b32", xor |-> "xor.b32",
   mul |-> "mul.lo.s32", mulh |-> "mul.hi.s32", mulhu |-> "mul.hi.u32"]

EmitAlu(di) ==
  TwoX(di) \o << L(AluOp[di.name[1]], R(16), << R(14), R(15) >>) >> \o StX(di.rd, R(16))

AluImmOp ==
  [addi |-> "add.s32", andi |-> "and.b32", ori |-> "or.b32", xori |-> "xor.b32",
   slli |-> "shl.b32", srli |-> "shr.u32", srai |-> "shr.s32"]

EmitAluImm(di) ==
  << LdX(R(14), di.rs1), L(AluImmOp[di.name[1]], R(15), << R(14), Imm(di.imm) >>) >>
    \o StX(di.rd, R(15))

ShiftOp == [sll |-> "shl.b32", srl |-> "shr.u32", sra |-> "shr.s32"]

(* Mutant: the amount is not cut to the five bits the instruction reads.   *)
EmitShiftWhole(di) ==
  TwoX(di) \o << L(ShiftOp[di.name[1]], R(16), << R(14), R(15) >>) >> \o StX(di.rd, R(16))

EmitShift(di) ==
  TwoX(di) \o << L("and.b32", R(17), << R(15), Imm(W - 1) >>),
                 L(ShiftOp[di.name[1]], R(16), << R(14), R(17) >>) >> \o StX(di.rd, R(16))

EmitMulhsu(di) ==
  TwoX(di)
    \o << L("cvt.s64.s32", RD(18), << R(14) >>), L("cvt.u64.u32", RD(19), << R(15) >>),
          L("mul.lo.s64", RD(18), << RD(18), RD(19) >>), L("shr.s64", RD(18), << RD(18), Imm(W) >>),
          L("cvt.u32.u64", R(16), << RD(18) >>) >> \o StX(di.rd, R(16))

(* Division by zero and the overflow of a signed one do not reach PTX.     *)
DivOp == [div |-> "div.s32", divu |-> "div.u32", rem |-> "rem.s32", remu |-> "rem.u32"]

EmitDiv(di) ==
  LET signed == di.name[1] \in { "div", "rem" }
      quotient == di.name[1] \in { "div", "divu" }
  IN  TwoX(di)
        \o << L("setp.eq.u32", P(1), << R(15), Imm(0) >>) >>
        \o (IF signed
              THEN << L("setp.eq.u32", P(2), << R(14), Imm(High) >>),
                      L("setp.eq.u32", P(3), << R(15), Imm(Ones) >>),
                      L("and.pred", P(2), << P(2), P(3) >>) >>
              ELSE << L("setp.ne.u32", P(2), << Imm(0), Imm(0) >>) >>)
        \o << L("not.pred", P(4), << P(1) >>), L("not.pred", P(5), << P(2) >>),
              L("and.pred", P(4), << P(4), P(5) >>),
              Mov(R(16), IF quotient THEN Imm(Ones) ELSE R(14)) >>
        \o (IF signed THEN << If(2, Mov(R(16), Imm(IF quotient THEN High ELSE 0))) >> ELSE << >>)
        \o << If(4, L(DivOp[di.name[1]], R(16), << R(14), R(15) >>)) >> \o StX(di.rd, R(16))

(* The twelve low bits of an upper immediate are (3 * W) \div 8 bits here. *)
UpperBits == (3 * W) \div 8

EmitUpper(di, pc) ==
  << Mov(R(14), Imm((IF di.name[1] = "auipc" THEN pc ELSE 0) + di.imm * 2^UpperBits)) >>
    \o StX(di.rd, R(14))

(* slt and its forms: a comparison to 1 or 0.                              *)
EmitSlt(di) ==
  LET cmp == IF di.name[1] \in { "slt", "slti" } THEN "setp.lt.s32" ELSE "setp.lt.u32"
  IN  IF di.name[1] \in { "slt", "sltu" }
        THEN TwoX(di) \o << L(cmp, P(1), << R(14), R(15) >>),
                            L("selp.u32", R(16), << Imm(1), Imm(0), P(1) >>) >> \o StX(di.rd, R(16))
        ELSE << LdX(R(14), di.rs1), L(cmp, P(1), << R(14), Imm(di.imm) >>),
                L("selp.u32", R(15), << Imm(1), Imm(0), P(1) >>) >> \o StX(di.rd, R(15))

----------------------------------------------------------------------------
(* Branches: where to go, in a register of its own, then the end.  A       *)
(* vector branch compares rs2 with rs1, in that order.                     *)
Goto == << "goto", 0 >>

BranchCmp ==
  [eq |-> "setp.eq.u32", ne |-> "setp.ne.u32", lt |-> "setp.lt.s32", ge |-> "setp.ge.s32",
   ltu |-> "setp.lt.u32", geu |-> "setp.ge.u32"]

BranchKind ==
  [beq |-> "eq", bne |-> "ne", blt |-> "lt", bge |-> "ge", bltu |-> "ltu", bgeu |-> "geu",
   vbeq |-> "eq", vbne |-> "ne", vblt |-> "lt", vbge |-> "ge", vbltu |-> "ltu", vbgeu |-> "geu"]

BranchTo(p, pc) == [L("goto", Goto, << Imm(pc) >>) EXCEPT !.g = IF p = None THEN Always ELSE << p, TRUE >>]

Fork(di, pc) == << BranchTo(1, pc + di.imm), BranchTo(None, pc + 4) >>

EmitBranch(di, pc) ==
  LET cmp == BranchCmp[BranchKind[di.name[1]]]
  IN  (IF di.form.rs1 = "x"
         THEN TwoX(di) \o << L(cmp, P(1), << R(14), R(15) >>) >>
         ELSE << L(cmp, P(1), << V(di.rs2), V(di.rs1) >>) >>) \o Fork(di, pc)

EmitJump(di, pc) == << BranchTo(None, pc + di.imm) >>
=============================================================================
