----------------------------- MODULE EmitVector -----------------------------
(***************************************************************************)
(* The vector and the floating-point instructions of emit_one_inst and     *)
(* try_emit_scalar_fp in src/sbt/ptx_emit.cpp.  vfexp.v, which PTX only    *)
(* approximates, is left out.                                              *)
(***************************************************************************)
EXTENDS EmitOne

SignMask == High
MagMask  == High - 1
ExpMask  == InfMag
FracMask == Frac - 1

----------------------------------------------------------------------------
(* Rounding modes: DYN is to the nearest, RMM and the reserved ones are    *)
(* refused.                                                                *)
RmNames == << "rn", "rz", "rm", "rp" >>
NormalRm(rm) == IF rm = 7 THEN 0 ELSE rm
RmKnown(di) == NormalRm(di.rm) \in 0 .. 3
RmF32(di) == RmNames[NormalRm(di.rm) + 1]
RmI32(di) == RmF32(di) \o "i"

XToF == << L("mov.b32", F(0), << R(14) >>), L("mov.b32", F(1), << R(15) >>) >>

(* Sign injection: the magnitude of the first, the sign of the second.     *)
EmitFsgnj(di) ==
  TwoX(di) \o << L("and.b32", R(16), << R(14), Imm(MagMask) >>) >>
    \o (IF di.name[1] = "fsgnjx"
          THEN << L("xor.b32", R(17), << R(14), R(15) >>), L("and.b32", R(17), << R(17), Imm(SignMask) >>) >>
          ELSE << L("and.b32", R(17), << R(15), Imm(SignMask) >>) >>)
    \o (IF di.name[1] = "fsgnjn" THEN << L("xor.b32", R(17), << R(17), Imm(SignMask) >>) >> ELSE << >>)
    \o << L("or.b32", R(16), << R(16), R(17) >>) >> \o StX(di.rd, R(16))

FpOp == [fadd |-> "add.f32", fsub |-> "sub.f32", fmul |-> "mul.f32", fdiv |-> "div.f32"]

EmitFpArith(di) ==
  TwoX(di) \o XToF
    \o << LRm(FpOp[di.name[1]], RmF32(di), F(2), << F(0), F(1) >>), L("mov.b32", R(16), << F(2) >>) >>
    \o StX(di.rd, R(16))

EmitFsqrt(di) ==
  << LdX(R(14), di.rs1), L("mov.b32", F(0), << R(14) >>), LRm("sqrt.f32", RmF32(di), F(1), << F(0) >>),
     L("mov.b32", R(15), << F(1) >>) >> \o StX(di.rd, R(15))

EmitFma(di) ==
  TwoX(di) \o << LdX(R(16), di.rs3) >>
    \o (IF di.name[1] \in { "fmsub", "fnmadd" }
          THEN << L("xor.b32", R(16), << R(16), Imm(SignMask) >>) >> ELSE << >>)
    \o (IF di.name[1] \in { "fnmsub", "fnmadd" }
          THEN << L("xor.b32", R(14), << R(14), Imm(SignMask) >>) >> ELSE << >>)
    \o XToF
    \o << L("mov.b32", F(2), << R(16) >>),
          LRm("fma.f32", RmF32(di), F(3), << F(0), F(1), F(2) >>), L("mov.b32", R(17), << F(3) >>) >>
    \o StX(di.rd, R(17))

(* The minimum and the maximum of F(0) and F(1), and the other when one is *)
(* not a number: fmin, fmax, and the fmax that is inlined for a call.      *)
MinMax(op) ==
  << L("setp.nan.f32", P(2), << F(0), F(0) >>), L("setp.nan.f32", P(3), << F(1), F(1) >>),
     L(op, F(2), << F(0), F(1) >>),
     L("selp.b32", F(2), << F(1), F(2), P(2) >>), L("selp.b32", F(2), << F(0), F(2), P(3) >>) >>

EmitFminmax(di) ==
  TwoX(di) \o XToF \o MinMax(IF di.name[1] = "fmax" THEN "max.f32" ELSE "min.f32")
    \o << L("mov.b32", R(16), << F(2) >>) >> \o StX(di.rd, R(16))

FpCmp == [feq |-> "setp.eq.f32", flt |-> "setp.lt.f32", fle |-> "setp.le.f32"]

EmitFpCmp(di) ==
  TwoX(di) \o XToF
    \o << L(FpCmp[di.name[1]], P(1), << F(0), F(1) >>),
          L("selp.u32", R(16), << Imm(1), Imm(0), P(1) >>) >> \o StX(di.rd, R(16))

(* fcvt: from "w" or "wu" to "s", or back.                                 *)
IsSigned(t)    == t \in { "w", "x" }
CvtFromInt(t) == IF IsSigned(t) THEN "cvt.f32.s32" ELSE "cvt.f32.u32"
CvtToInt(t)   == IF IsSigned(t) THEN "cvt.s32.f32" ELSE "cvt.u32.f32"

EmitFcvt(di) ==
  << LdX(R(14), di.rs1) >>
    \o (IF di.name[2] = "s"
          THEN << LRm(CvtFromInt(di.name[3]), RmF32(di), F(0), << R(14) >>),
                  L("mov.b32", R(15), << F(0) >>) >>
          ELSE << L("mov.b32", F(0), << R(14) >>),
                  LRm(CvtToInt(di.name[2]), RmI32(di), R(15), << F(0) >>) >>)
    \o StX(di.rd, R(15))

----------------------------------------------------------------------------
(* The class of the number in R(14), to R(19): bits 0 to 9 are -inf, -norm,*)
(* -subnorm, -0, +0, +subnorm, +norm, +inf, sNaN, qNaN.                    *)
Both(d, a, b) == L("and.pred", P(d), << P(a), P(b) >>)
Not(d, a)     == L("not.pred", P(d), << P(a) >>)

ClassFlags ==
  << L("and.b32", R(15), << R(14), Imm(SignMask) >>), L("and.b32", R(16), << R(14), Imm(ExpMask) >>),
     L("and.b32", R(17), << R(14), Imm(FracMask) >>),
     L("setp.ne.u32", P(1), << R(15), Imm(0) >>), L("setp.eq.u32", P(2), << R(16), Imm(0) >>),
     L("setp.eq.u32", P(3), << R(16), Imm(ExpMask) >>), L("setp.eq.u32", P(4), << R(17), Imm(0) >>),
     Both(5, 2, 4), Not(6, 4), Both(6, 2, 6), Both(7, 3, 4), Not(8, 4), Both(8, 3, 8),
     Not(9, 2), Not(10, 3), Both(9, 9, 10),
     L("and.b32", R(18), << R(17), Imm(QuietBit) >>), L("setp.ne.u32", P(10), << R(18), Imm(0) >>),
     Both(10, 8, 10), Not(11, 10), Both(11, 8, 11), Mov(R(19), Imm(0)) >>

(* The negative and the positive ones of the kind that P(kind) tells.      *)
BySign(d, kind) == << Both(d, kind, 1), Not(d + 1, 1), Both(d + 1, kind, d + 1) >>

(* The scalar form selects a word and ors it; the vector form is guarded.  *)
OrIf(p, bit, guarded) ==
  IF guarded THEN << If(p, L("or.b32", R(19), << R(19), Bits(bit) >>)) >>
  ELSE << L("selp.u32", R(20), << Bits(bit), Imm(0), P(p) >>), L("or.b32", R(19), << R(19), R(20) >>) >>

ClassOf(guarded) ==
  LET or(p, bit) == OrIf(p, bit, guarded)
      inf  == or(12, 1) \o or(13, 128)
      zero == or(14, 8) \o or(15, 16)
  IN  ClassFlags
        \o (IF guarded THEN BySign(12, 7) \o inf \o BySign(14, 5) \o zero
                       ELSE BySign(12, 7) \o BySign(14, 5) \o inf \o zero)
        \o BySign(12, 6) \o or(12, 4) \o or(13, 32)
        \o BySign(12, 9) \o or(12, 2) \o or(13, 64)
        \o or(11, 256) \o or(10, 512)

EmitFclass(di)  == << LdX(R(14), di.rs1) >> \o ClassOf(FALSE) \o StX(di.rd, R(19))
EmitVfclass(di) == << Mov(R(14), V(di.rs2)) >> \o ClassOf(TRUE) \o << Mov(V(di.rd), R(19)) >>

----------------------------------------------------------------------------
(* The other operand of a vector instruction, by the suffix of its name: a *)
(* vector register, a scalar one by way of R(14), or the immediate.        *)
Suffix(di) == di.name[Len(di.name)]
FromX(di)  == Suffix(di) \in { "vx", "vf", "vxm", "vfm" }
Preload(di) == IF FromX(di) THEN << LdX(R(14), di.rs1) >> ELSE << >>
Other(di) ==
  IF FromX(di) THEN R(14)
  ELSE IF Suffix(di) \in { "vi", "vim" } THEN Imm(di.imm) ELSE V(di.rs1)

VecOp ==
  [vadd |-> "add.u32", vsub |-> "sub.u32", vminu |-> "min.u32", vmin |-> "min.s32",
   vmaxu |-> "max.u32", vmax |-> "max.s32", vand |-> "and.b32", vor |-> "or.b32",
   vxor |-> "xor.b32", vmul |-> "mul.lo.s32", vmulh |-> "mul.hi.s32", vmulhu |-> "mul.hi.u32"]

EmitVecAlu(di) ==
  IF Suffix(di) = "vi" /\ di.name[1] \notin { "vadd", "vand", "vor", "vxor" } THEN Unsupported
  ELSE Preload(di) \o << L(VecOp[di.name[1]], V(di.rd), << V(di.rs2), Other(di) >>) >>

EmitVecReverse(di) == Preload(di) \o << L("sub.u32", V(di.rd), << Other(di), V(di.rs2) >>) >>

EmitVec12(di) ==
  << L(IF di.name[1] = "vadd12" THEN "add.s32" ELSE "sub.s32", V(di.rd), << V(di.rs1), Imm(di.imm) >>) >>

VecShift == [vsll |-> "shl.b32", vsrl |-> "shr.u32", vsra |-> "shr.s32"]

EmitVecShift(di) ==
  Preload(di)
    \o (IF Suffix(di) = "vi" THEN << >> ELSE << L("and.b32", R(14), << Other(di), Imm(W - 1) >>) >>)
    \o << L(VecShift[di.name[1]], V(di.rd),
            << V(di.rs2), IF Suffix(di) = "vi" THEN Imm(di.imm) ELSE R(14) >>) >>

EmitVecMulhsu(di) ==
  Preload(di)
    \o << L("cvt.s64.s32", RD(16), << V(di.rs2) >>), L("cvt.s64.u32", RD(17), << Other(di) >>),
          L("mul.lo.s64", RD(18), << RD(16), RD(17) >>), L("shr.s64", RD(18), << RD(18), Imm(W) >>),
          L("cvt.u32.s64", R(15), << RD(18) >>), Mov(V(di.rd), R(15)) >>

(* Mutant: the quotient of the overflow is written before its divisor is   *)
(* read.                                                                   *)
EmitVecDivEarly(di) ==
  Preload(di)
    \o << Mov(V(di.rd), Imm(Ones)), L("setp.eq.u32", P(1), << Other(di), Imm(0) >>),
          Unless(1, L("div.u32", V(di.rd), << V(di.rs2), Other(di) >>)) >>

VecDivOp == [vdiv |-> "div.s32", vdivu |-> "div.u32", vrem |-> "rem.s32", vremu |-> "rem.u32"]

EmitVecDiv(di) ==
  LET signed   == di.name[1] \in { "vdiv", "vrem" }
      quotient == di.name[1] \in { "vdiv", "vdivu" }
  IN  Preload(di)
        \o << L("setp.eq.u32", P(1), << Other(di), Imm(0) >>) >>
        \o (IF ~signed THEN << >>
            ELSE << L("setp.eq.u32", P(2), << V(di.rs2), Imm(High) >>),
                    L("setp.eq.u32", P(3), << Other(di), Imm(Ones) >>),
                    L("and.pred", P(2), << P(2), P(3) >>), L("or.pred", P(4), << P(1), P(2) >>) >>)
        \o << If(1, Mov(V(di.rd), IF quotient THEN Imm(Ones) ELSE V(di.rs2))) >>
        \o (IF signed THEN << If(2, Mov(V(di.rd), Imm(IF quotient THEN High ELSE 0))) >> ELSE << >>)
        \o << Unless(IF signed THEN 4 ELSE 1, L(VecDivOp[di.name[1]], V(di.rd), << V(di.rs2), Other(di) >>)) >>

(* Multiply and add: vd is a factor of madd and nmsub, a summand of the    *)
(* others; nmsub and nmsac subtract the product.                           *)
EmitVecMad(di) ==
  LET d == V(di.rd)
      b == Other(di)
      t == IF FromX(di) THEN R(15) ELSE R(14)
  IN  Preload(di)
        \o (CASE di.name[1] = "vmadd"  -> << L("mad.lo.s32", d, << d, b, V(di.rs2) >>) >>
              [] di.name[1] = "vmacc"  -> << L("mad.lo.s32", d, << b, V(di.rs2), d >>) >>
              [] di.name[1] = "vnmsub" -> << L("mul.lo.u32", t, << d, b >>), L("sub.u32", d, << V(di.rs2), t >>) >>
              [] di.name[1] = "vnmsac" -> << L("mul.lo.s32", t, << b, V(di.rs2) >>), L("sub.u32", d, << d, t >>) >>)

----------------------------------------------------------------------------
(* Comparisons write 1 or 0 in each lane.                                  *)
MaskFrom(di, p) == << L("selp.u32", V(di.rd), << Imm(1), Imm(0), P(p) >>) >>

VecCmp ==
  [vmseq |-> "setp.eq.u32", vmsne |-> "setp.ne.u32", vmsltu |-> "setp.lt.u32", vmslt |-> "setp.lt.s32",
   vmsleu |-> "setp.le.u32", vmsle |-> "setp.le.s32", vmsgtu |-> "setp.gt.u32", vmsgt |-> "setp.gt.s32"]

EmitVecCmp(di) ==
  Preload(di) \o << L(VecCmp[di.name[1]], P(1), << V(di.rs2), Other(di) >>) >> \o MaskFrom(di, 1)

(* Mask registers: what is not zero is true.  All but the conjunctions and *)
(* the disjunctions are an exclusive or, three of them inverted.           *)
EmitMaskOp(di) ==
  LET n == di.name[1]
  IN  << L("setp.ne.u32", P(1), << V(di.rs2), Imm(0) >>), L("setp.ne.u32", P(2), << V(di.rs1), Imm(0) >>) >>
        \o (IF n \in { "vmandn", "vmorn" } THEN << Not(2, 2) >> ELSE << >>)
        \o << L(CASE n \in { "vmand", "vmandn" } -> "and.pred"
                  [] n \in { "vmor", "vmorn" }   -> "or.pred"
                  [] OTHER                       -> "xor.pred", P(3), << P(1), P(2) >>) >>
        \o (IF n \in { "vmxnor", "vmnand", "vmnor" } THEN << Not(3, 3) >> ELSE << >>) \o MaskFrom(di, 3)

(* vmfgt, vmfge, vfrsub and vfrdiv take the scalar first.                  *)
FloatPair(di, reversed) ==
  LET first  == IF reversed THEN Other(di) ELSE V(di.rs2)
      second == IF reversed THEN V(di.rs2) ELSE Other(di)
  IN  Preload(di) \o << L("mov.b32", F(0), << first >>), L("mov.b32", F(1), << second >>) >>

VecFloatCmp ==
  [vmfeq |-> "setp.eq.f32", vmfne |-> "setp.eq.f32", vmfle |-> "setp.le.f32", vmflt |-> "setp.lt.f32",
   vmfgt |-> "setp.lt.f32", vmfge |-> "setp.le.f32"]

EmitVecFloatCmp(di) ==
  FloatPair(di, di.name[1] \in { "vmfgt", "vmfge" })
    \o << L(VecFloatCmp[di.name[1]], P(1), << F(0), F(1) >>) >> \o MaskFrom(di, 1)
    \o (IF di.name[1] = "vmfne" THEN << Not(1, 1) >> \o MaskFrom(di, 1) ELSE << >>)

VecFloatOp ==
  [vfadd |-> "add.f32", vfsub |-> "sub.f32", vfmul |-> "mul.f32", vfdiv |-> "div.f32",
   vfrsub |-> "sub.f32", vfrdiv |-> "div.f32", vfmin |-> "min.f32", vfmax |-> "max.f32"]

EmitVecFloat(di) ==
  FloatPair(di, di.name[1] \in { "vfrsub", "vfrdiv" })
    \o << LRm(VecFloatOp[di.name[1]], "rn", F(2), << F(0), F(1) >>), L("mov.b32", V(di.rd), << F(2) >>) >>

(* vfcvt, to the nearest or, with "rtz", to zero.                          *)
EmitVfcvt(di) ==
  IF di.name[2] = "f"
    THEN << LRm(CvtFromInt(di.name[3]), "rn", F(0), << V(di.rs2) >>),
            L("mov.b32", V(di.rd), << F(0) >>) >>
    ELSE LET truncates == di.name[2] = "rtz"
             to == CvtToInt(di.name[IF truncates THEN 3 ELSE 2])
         IN  << L("mov.b32", F(0), << V(di.rs2) >>),
                LRm(to, IF truncates THEN "rzi" ELSE "rni", R(14), << F(0) >>),
                Mov(V(di.rd), R(14)) >>

EmitVfsqrt(di) ==
  << L("mov.b32", F(0), << V(di.rs2) >>), LRm("sqrt.f32", "rn", F(1), << F(0) >>),
     L("mov.b32", V(di.rd), << F(1) >>) >>

----------------------------------------------------------------------------
(* The fused multiply-adds: which register is each operand of fma ("d",    *)
(* "1" and "2"), and which operands are negated before it.                 *)
FmaRoles(n, fromX) ==
  CASE n \in { "vfmadd", "vfmsub", "vfnmadd", "vfnmsub" } -> << "d", "1", "2" >>
    [] n = "vfnmacc" /\ ~fromX                            -> << "2", "1", "d" >>
    [] OTHER                                              -> << "1", "2", "d" >>

FmaNegated(n, fromX) ==
  CASE n \in { "vfmsub", "vfmsac" } -> { 3 }
    [] n = "vfnmadd"                -> { 1, 3 }
    [] n = "vfnmsub"                -> { 1 }
    [] n = "vfnmacc"                -> { IF fromX THEN 2 ELSE 1, 3 }
    [] n = "vfnmsac"                -> { IF fromX THEN 2 ELSE 1 }
    [] OTHER                        -> { }

EmitVecFma(di) ==
  LET roles   == FmaRoles(di.name[1], FromX(di))
      negated == FmaNegated(di.name[1], FromX(di))
      reg(i)  == CASE roles[i] = "d" -> V(di.rd)
                   [] roles[i] = "1" -> IF FromX(di) THEN R(15) ELSE V(di.rs1)
                   [] roles[i] = "2" -> V(di.rs2)
      bits    == FlattenSeq([i \in 1 .. 3 |-> << Mov(R(13 + i), reg(i)) >>])
                   \o FlattenSeq([i \in 1 .. 3 |->
                        IF i \in negated THEN << L("xor.b32", R(13 + i), << R(13 + i), Imm(SignMask) >>) >>
                        ELSE << >>])
                   \o [i \in 1 .. 3 |-> L("mov.b32", F(i - 1), << R(13 + i) >>)]
  IN  (IF FromX(di) THEN << LdX(R(15), di.rs1) >> ELSE << >>)
        \o (IF di.name = << "vfmadd", "vv" >>
              THEN [i \in 1 .. 3 |-> L("mov.b32", F(i - 1), << reg(i) >>)] ELSE bits)
        \o << LRm("fma.f32", "rn", F(3), << F(0), F(1), F(2) >>), L("mov.b32", V(di.rd), << F(3) >>) >>

EmitVfsgnj(di) ==
  LET sign == Other(di)
      n == di.name[1]
  IN  Preload(di) \o << L("and.b32", R(15), << V(di.rs2), Imm(MagMask) >>) >>
        \o (CASE n = "vfsgnj"  -> << L("and.b32", R(16), << sign, Imm(SignMask) >>) >>
              [] n = "vfsgnjn" -> << L("not.b32", R(16), << sign >>), L("and.b32", R(16), << R(16), Imm(SignMask) >>) >>
              [] n = "vfsgnjx" -> << L("xor.b32", R(16), << sign, V(di.rs2) >>),
                                     L("and.b32", R(16), << R(16), Imm(SignMask) >>) >>)
        \o << L("or.b32", V(di.rd), << R(15), R(16) >>) >>

----------------------------------------------------------------------------
(* Moves between registers.                                                *)
FromScalar == { << "vmv", "v", "x" >>, << "vmv", "s", "x" >>, << "vfmv", "v", "f" >> }

EmitVmv(di) ==
  CASE di.name = << "vid", "v" >>      -> << Mov(V(di.rd), R(0)) >>
    [] di.name \in FromScalar          -> << LdX(R(14), di.rs1), Mov(V(di.rd), R(14)) >>
    [] di.name = << "vmv", "v", "i" >> -> << Mov(V(di.rd), Imm(di.imm)) >>
    [] di.name = << "vmv", "v", "v" >> -> << Mov(V(di.rd), V(di.rs2)) >>
    [] OTHER                           -> Unsupported

(* Lane 0's element to a scalar register of every lane.                    *)
EmitVmvXS(di) ==
  TrapIfLaneInactive(0)
    \o << L("setp.eq.u32", P(2), << R(0), Imm(0) >>), If(2, Mov(X(di.rd), V(di.rs2))), ReadActiveMask,
          L("shfl.idx", X(di.rd), << X(di.rd), Imm(0) >>) >>

(* vmerge and vfmerge: v0 is the mask.                                     *)
EmitMerge(di) ==
  Preload(di) \o << L("setp.ne.u32", P(1), << V(0), Imm(0) >>),
                    L("selp.u32", V(di.rd), << Other(di), V(di.rs2), P(1) >>) >>

(* vlw.v and vsw.v: the word of this lane in its warp's private memory.    *)
PrivateAddr(di) ==
  << L("add.s32", R(14), << V(di.rs1), Imm(di.imm) >>), L("and.b32", R(15), << R(14), Imm(-4) >>),
     L("shl.b32", R(15), << R(15), Imm(LogWarp) >>), L("shl.b32", R(16), << R(0), Imm(2) >>),
     L("add.u32", R(15), << R(15), R(16) >>) >>
    \o CsrPds(R(24)) \o << L("add.u32", R(14), << R(24), R(15) >>) >>

EmitPrivate(di) ==
  PrivateAddr(di)
    \o (IF di.name[1] = "vlw" THEN LoadWord(R(20), R(14)) \o << Mov(V(di.rd), R(20)) >>
                              ELSE Store("w", R(14), V(di.rs2)))

VecLoadWidth  == [vlw12 |-> "w", vlb12 |-> "b", vlbu12 |-> "bu", vlh12 |-> "h", vlhu12 |-> "hu"]
VecStoreWidth == [vsw12 |-> "w", vsb12 |-> "b", vsh12 |-> "h"]

EmitVecLoad(di) ==
  << L("add.u32", R(14), << V(di.rs1), Imm(di.imm) >>) >>
    \o Load(VecLoadWidth[di.name[1]], R(15), R(14)) \o << Mov(V(di.rd), R(15)) >>

EmitVecStore(di) ==
  LET w == VecStoreWidth[di.name[1]]
  IN  << L("add.u32", R(14), << V(di.rs1), Imm(di.imm) >>) >>
        \o CutTo(w, V(di.rs2)) \o Store(w, R(14), V(di.rs2))
=============================================================================
