------------------------- MODULE Lowering_proofs ----------------------------
(***************************************************************************)
(* For every width, every program and every launch: the registers that     *)
(* identify the warp and the windows of memory hold what the launch says   *)
(* after the prologue, and survive whatever is emitted for instructions    *)
(* and calls.                                                              *)
(***************************************************************************)
EXTENDS LoweringSpec, SequenceTheorems, FiniteSetTheorems, WellFoundedInduction, TLAPS

Lines(s) == Len(s) \in Nat /\ s = [k \in 1 .. Len(s) |-> s[k]]

IsLine(line) == DOMAIN line = { "op", "rm", "d", "s", "g" }

(* A line that leaves the context alone and is not part of a jump.         *)
Quiet(line) ==
  /\ IsLine(line)
  /\ line.op \notin { "bra", "label" }
  /\ line.d \notin ContextRegs

Plain(s) == Lines(s) /\ \A k \in 1 .. Len(s) : Quiet(s[k])

----------------------------------------------------------------------------
(* Sequences of lines.                                                     *)
LEMMA LinesJoined ==
  ASSUME NEW s, NEW t, Lines(s), Lines(t)
  PROVE  /\ Lines(s \o t)
         /\ Len(s \o t) = Len(s) + Len(t)
         /\ \A k \in 1 .. Len(s) : (s \o t)[k] = s[k]
         /\ \A k \in 1 .. Len(t) : (s \o t)[Len(s) + k] = t[k]
         /\ \A k \in 1 .. Len(s \o t) :
              \/ k \in 1 .. Len(s) /\ (s \o t)[k] = s[k]
              \/ \E j \in 1 .. Len(t) : k = Len(s) + j /\ (s \o t)[k] = t[j]
<1>. DEFINE S == { s[k] : k \in 1 .. Len(s) } \cup { t[k] : k \in 1 .. Len(t) }
<1>1. s \in Seq(S) /\ t \in Seq(S)
  <2>1. s \in [1 .. Len(s) -> S] /\ t \in [1 .. Len(t) -> S]
    BY DEF Lines
  <2>. QED BY <2>1, IsASeq DEF Lines
<1>. HIDE DEF S
<1>2. /\ s \o t \in Seq(S) /\ Len(s) \in Nat /\ Len(t) \in Nat
      /\ Len(s \o t) = Len(s) + Len(t)
      /\ \A k \in 1 .. Len(s) + Len(t) : (s \o t)[k] = IF k <= Len(s) THEN s[k] ELSE t[k - Len(s)]
  BY <1>1
<1>3. Lines(s \o t)
  <2>1. s \o t \in [1 .. Len(s \o t) -> S] /\ Len(s \o t) \in Nat
    BY <1>2, LenProperties
  <2>. QED BY <2>1 DEF Lines
<1>4. \A k \in 1 .. Len(t) : (s \o t)[Len(s) + k] = t[k]
  BY <1>2
<1>5. ASSUME NEW k \in 1 .. Len(s \o t)
      PROVE  \/ k \in 1 .. Len(s) /\ (s \o t)[k] = s[k]
             \/ \E j \in 1 .. Len(t) : k = Len(s) + j /\ (s \o t)[k] = t[j]
  <2>1. CASE k <= Len(s)
    BY <1>2, <2>1
  <2>2. CASE k > Len(s)
    <3>1. k - Len(s) \in 1 .. Len(t) /\ k = Len(s) + (k - Len(s)) /\ (s \o t)[k] = t[k - Len(s)]
      BY <1>2, <2>2
    <3>. QED BY <3>1
  <2>. QED BY <1>2, <2>1, <2>2
<1>. QED BY <1>2, <1>3, <1>4, <1>5

LEMMA PlainJoined == \A s, t : Plain(s) /\ Plain(t) => Plain(s \o t)
<1>1. ASSUME NEW s, NEW t, Plain(s), Plain(t) PROVE Plain(s \o t)
  <2>1. Lines(s) /\ Lines(t)
    BY <1>1 DEF Plain
  <2>2. ASSUME NEW k \in 1 .. Len(s \o t) PROVE Quiet((s \o t)[k])
    <3>1. \/ k \in 1 .. Len(s) /\ (s \o t)[k] = s[k]
          \/ \E j \in 1 .. Len(t) : k = Len(s) + j /\ (s \o t)[k] = t[j]
      BY <2>1, LinesJoined
    <3>. QED BY <1>1, <3>1 DEF Plain
  <2>3. Lines(s \o t)
    BY <2>1, LinesJoined
  <2>. QED BY <2>2, <2>3 DEF Plain
<1>. QED BY <1>1

LEMMA PlainNone == Plain(<< >>)
BY DEF Plain, Lines

LEMMA PlainOne == ASSUME NEW a, Quiet(a) PROVE Plain(<< a >>)
BY DEF Plain, Lines

(* Longer pieces of code.                                                  *)
LEMMA Plain13 ==
  ASSUME NEW a, NEW b, NEW c, NEW d, NEW e, NEW f, NEW g, NEW h, NEW i, NEW j, NEW k, NEW l, NEW m,
         Quiet(a), Quiet(b), Quiet(c), Quiet(d), Quiet(e), Quiet(f), Quiet(g), Quiet(h), Quiet(i), Quiet(j),
         Quiet(k), Quiet(l), Quiet(m)
  PROVE  Plain(<< a, b, c, d, e, f, g, h, i, j, k, l, m >>)
<1>. DEFINE z == << a, b, c, d, e, f, g, h, i, j, k, l, m >>
<1>1. Lines(z) /\ Len(z) = 13
  BY DEF Lines
<1>2. \A k_1 \in 1 .. 13 : Quiet(z[k_1])
  OBVIOUS
<1>. QED BY <1>1, <1>2 DEF Plain

LEMMA Plain22 ==
  ASSUME NEW a, NEW b, NEW c, NEW d, NEW e, NEW f, NEW g, NEW h, NEW i, NEW j, NEW k, NEW l, NEW m, NEW n, NEW o,
         NEW p, NEW q, NEW r, NEW s, NEW t, NEW u, NEW v,
         Quiet(a), Quiet(b), Quiet(c), Quiet(d), Quiet(e), Quiet(f), Quiet(g), Quiet(h), Quiet(i), Quiet(j),
         Quiet(k), Quiet(l), Quiet(m), Quiet(n), Quiet(o), Quiet(p), Quiet(q), Quiet(r), Quiet(s), Quiet(t),
         Quiet(u), Quiet(v)
  PROVE  Plain(<< a, b, c, d, e, f, g, h, i, j, k, l, m, n, o, p, q, r, s, t, u, v >>)
<1>. DEFINE z == << a, b, c, d, e, f, g, h, i, j, k, l, m, n, o, p, q, r, s, t, u, v >>
<1>1. Lines(z) /\ Len(z) = 22
  BY DEF Lines
<1>2. \A k_1 \in 1 .. 22 : Quiet(z[k_1])
  OBVIOUS
<1>. QED BY <1>1, <1>2 DEF Plain

----------------------------------------------------------------------------
(* Single lines.                                                           *)
LEMMA Temporaries ==
  /\ \A i : i \notin { 0, 10, 12, 28, 29, 30 } => R(i) \notin ContextRegs
  /\ \A i : i \notin { 0, 2 } => RD(i) \notin ContextRegs
  /\ \A i : P(i) \notin ContextRegs /\ F(i) \notin ContextRegs /\ X(i) \notin ContextRegs
  /\ \A i : V(i) \notin ContextRegs /\ UB(i) \notin ContextRegs /\ UH(i) \notin ContextRegs
  /\ NoReg \notin ContextRegs /\ Goto \notin ContextRegs
  /\ \A blob, n : Param(blob, n) \notin ContextRegs
  /\ \A name : << "param", name >> \notin ContextRegs /\ << "label", name >> \notin ContextRegs
BY DEF ContextRegs, R, RD, P, F, X, V, UB, UH, NoReg, Goto, Param

LEMMA QuietLine ==
  /\ \A op, d, s : op \notin { "bra", "label" } /\ d \notin ContextRegs => Quiet(L(op, d, s))
  /\ \A op, rm, d, s : op \notin { "bra", "label" } /\ d \notin ContextRegs => Quiet(LRm(op, rm, d, s))
  /\ \A op, d, s, p : op \notin { "bra", "label" } /\ d \notin ContextRegs => Quiet(If(p, L(op, d, s)))
  /\ \A op, d, s, p : op \notin { "bra", "label" } /\ d \notin ContextRegs => Quiet(Unless(p, L(op, d, s)))
BY DEF Quiet, IsLine, L, LRm, If, Unless

LEMMA QuietMov ==
  /\ \A d, s : d \notin ContextRegs => Quiet(Mov(d, s))
  /\ \A p, d, s : d \notin ContextRegs => Quiet(If(p, Mov(d, s)))
  /\ \A d, x : d \notin ContextRegs => Quiet(LdX(d, x))
BY QuietLine DEF Mov, LdX

LEMMA StXPlain == \A x, s : Plain(StX(x, s))
BY Temporaries, QuietMov, PlainNone, PlainOne DEF StX

----------------------------------------------------------------------------
(* EmitOne.                                                                *)
LEMMA SelectLeaderPlain == Plain(SelectLeader) /\ Plain(WarpSync)
BY Temporaries, QuietLine DEF SelectLeader, ReadActiveMask, RefreshLeader, WarpSync, Plain, Lines

LEMMA TrapPlain == \A lane : Plain(TrapIfLaneInactive(lane))
BY Temporaries, QuietLine DEF TrapIfLaneInactive, ReadActiveMask, Plain, Lines

LEMMA CsrPdsPlain == \A d : d \notin ContextRegs => Plain(CsrPds(d))
BY Temporaries, QuietLine DEF CsrPds, Plain, Lines

LEMMA AddrMapPlain == \A a : Plain(AddrMap(a))
BY Temporaries, QuietLine, QuietMov, Plain13 DEF AddrMap

LEMMA LoadAtPlain ==
  \A w, d : w \in { "u8", "u16", "u32" } /\ d \notin ContextRegs => Plain(LoadAt(w, d))
BY Temporaries, QuietLine DEF LoadAt, LdOp, Plain, Lines

LEMMA StoreAtPlain == \A w, s : w \in { "u8", "u16", "u32" } => Plain(StoreAt(w, s))
BY Temporaries, QuietLine DEF StoreAt, StOp, Plain, Lines

LEMMA SignExtendPlain == \A d, bits : d \notin ContextRegs => Plain(SignExtend(d, bits))
BY QuietLine DEF SignExtend, Plain, Lines

LEMMA NarrowPlain ==
  \A d, addr : d \notin ContextRegs => Plain(LoadWord(d, addr)) /\ Plain(LoadByte(d, addr)) /\ Plain(LoadHalf(d, addr))
<1>1. \A d, op, s : d \notin ContextRegs => Plain(<< L("cvt.u32.u8", d, s) >>) /\ Plain(<< L("cvt.u32.u16", d, s) >>)
  BY QuietLine, PlainOne
<1>. QED BY <1>1, Temporaries, AddrMapPlain, LoadAtPlain, PlainJoined DEF LoadWord, LoadByte, LoadHalf

LEMMA LoadPlain ==
  \A w, d, addr : w \in { "w", "bu", "hu", "b", "h" } /\ d \notin ContextRegs => Plain(Load(w, d, addr))
BY NarrowPlain, SignExtendPlain, PlainJoined DEF Load

LEMMA CutToPlain == \A w, s : w \in { "w", "b", "h" } => Plain(CutTo(w, s))
BY Temporaries, QuietLine, PlainNone, PlainOne DEF CutTo

LEMMA StorePlain == \A w, addr, s : w \in { "w", "b", "h" } => Plain(Store(w, addr, s))
BY AddrMapPlain, StoreAtPlain, PlainJoined DEF Store

LEMMA LoadKnlPlain == \A d, n : d \notin ContextRegs => Plain(LoadKnl(d, n))
BY Temporaries, QuietLine, PlainOne, NarrowPlain, PlainJoined DEF LoadKnl

LEMMA UnsupportedPlain == Plain(Unsupported)
BY Temporaries, QuietLine, PlainOne DEF Unsupported

LEMMA CsrPlain == \A di : Plain(EmitCsr(di))
<1>1. ASSUME NEW csr PROVE Plain(CsrValue(csr))
  BY Temporaries, QuietLine, QuietMov, PlainOne, CsrPdsPlain, LoadKnlPlain, UnsupportedPlain DEF CsrValue
<1>. QED BY <1>1, StXPlain, PlainJoined DEF EmitCsr

LEMMA ScalarLoadPlain == \A di : di.name[1] \in DOMAIN LoadWidth => Plain(EmitScalarLoad(di))
<1>1. \A n \in DOMAIN LoadWidth : LoadWidth[n] \in { "w", "bu", "hu", "b", "h" }
  BY DEF LoadWidth
<1>2. \A di : Plain(<< LdX(R(14), di.rs1), L("add.u32", R(15), << R(14), Imm(di.imm) >>) >>)
  BY Temporaries, QuietLine, QuietMov DEF Plain, Lines
<1>. QED BY <1>1, <1>2, Temporaries, LoadPlain, StXPlain, PlainJoined DEF EmitScalarLoad

LEMMA TwoXPlain == \A di : Plain(TwoX(di))
BY Temporaries, QuietMov DEF TwoX, Plain, Lines

LEMMA AluPlain ==
  \A di : /\ di.name[1] \in DOMAIN AluOp    => Plain(EmitAlu(di))
          /\ di.name[1] \in DOMAIN AluImmOp => Plain(EmitAluImm(di))
          /\ di.name[1] \in DOMAIN ShiftOp  => Plain(EmitShift(di))
<1>1. \A n \in DOMAIN AluOp : AluOp[n] \notin { "bra", "label" }
  BY DEF AluOp
<1>2. \A n \in DOMAIN AluImmOp : AluImmOp[n] \notin { "bra", "label" }
  BY DEF AluImmOp
<1>3. \A n \in DOMAIN ShiftOp : ShiftOp[n] \notin { "bra", "label" }
  BY DEF ShiftOp
<1>4. ASSUME NEW di, di.name[1] \in DOMAIN AluOp PROVE Plain(EmitAlu(di))
  BY <1>1, <1>4, Temporaries, QuietLine, PlainOne, TwoXPlain, StXPlain, PlainJoined DEF EmitAlu
<1>5. ASSUME NEW di, di.name[1] \in DOMAIN AluImmOp PROVE Plain(EmitAluImm(di))
  <2>1. Plain(<< LdX(R(14), di.rs1), L(AluImmOp[di.name[1]], R(15), << R(14), Imm(di.imm) >>) >>)
    BY <1>2, <1>5, Temporaries, QuietLine, QuietMov DEF Plain, Lines
  <2>. QED BY <2>1, StXPlain, PlainJoined DEF EmitAluImm
<1>6. ASSUME NEW di, di.name[1] \in DOMAIN ShiftOp PROVE Plain(EmitShift(di))
  <2>1. Plain(<< L("and.b32", R(17), << R(15), Imm(W - 1) >>),
                 L(ShiftOp[di.name[1]], R(16), << R(14), R(17) >>) >>)
    BY <1>3, <1>6, Temporaries, QuietLine DEF Plain, Lines
  <2>. QED BY <2>1, TwoXPlain, StXPlain, PlainJoined DEF EmitShift
<1>. QED BY <1>4, <1>5, <1>6

LEMMA MulhsuPlain == \A di : Plain(EmitMulhsu(di))
<1>. DEFINE middle ==
       << L("cvt.s64.s32", RD(18), << R(14) >>), L("cvt.u64.u32", RD(19), << R(15) >>),
          L("mul.lo.s64", RD(18), << RD(18), RD(19) >>), L("shr.s64", RD(18), << RD(18), Imm(W) >>),
          L("cvt.u32.u64", R(16), << RD(18) >>) >>
<1>1. Plain(middle)
  BY Temporaries, QuietLine DEF Plain, Lines
<1>. QED BY <1>1, TwoXPlain, StXPlain, PlainJoined DEF EmitMulhsu

LEMMA DivPlain == \A di : di.name[1] \in DOMAIN DivOp => Plain(EmitDiv(di))
<1>. SUFFICES ASSUME NEW di, di.name[1] \in DOMAIN DivOp PROVE Plain(EmitDiv(di))
  OBVIOUS
<1>1. DivOp[di.name[1]] \notin { "bra", "label" }
  BY DEF DivOp
<1>2. /\ Plain(<< L("setp.eq.u32", P(1), << R(15), Imm(0) >>) >>)
      /\ Plain(<< L("setp.eq.u32", P(2), << R(14), Imm(High) >>), L("setp.eq.u32", P(3), << R(15), Imm(Ones) >>),
                  L("and.pred", P(2), << P(2), P(3) >>) >>)
      /\ Plain(<< L("setp.ne.u32", P(2), << Imm(0), Imm(0) >>) >>)
  BY Temporaries, QuietLine DEF Plain, Lines
<1>3. \A a, b : /\ Plain(<< L("not.pred", P(4), << P(1) >>), L("not.pred", P(5), << P(2) >>),
                            L("and.pred", P(4), << P(4), P(5) >>), Mov(R(16), a) >>)
                /\ Plain(<< If(2, Mov(R(16), b)) >>)
                /\ Plain(<< If(4, L(DivOp[di.name[1]], R(16), << R(14), R(15) >>)) >>)
  BY <1>1, Temporaries, QuietLine, QuietMov DEF Plain, Lines
<1>. QED BY <1>2, <1>3, PlainNone, TwoXPlain, StXPlain, PlainJoined DEF EmitDiv

LEMMA UpperPlain == \A di, pc_ : Plain(EmitUpper(di, pc_))
BY Temporaries, QuietMov, PlainOne, StXPlain, PlainJoined DEF EmitUpper

LEMMA SltPlain == \A di : Plain(EmitSlt(di))
<1>. SUFFICES ASSUME NEW di PROVE Plain(EmitSlt(di))
  OBVIOUS
<1>1. ASSUME NEW cmp \in { "setp.lt.s32", "setp.lt.u32" }
      PROVE  /\ Plain(<< L(cmp, P(1), << R(14), R(15) >>), L("selp.u32", R(16), << Imm(1), Imm(0), P(1) >>) >>)
             /\ Plain(<< LdX(R(14), di.rs1), L(cmp, P(1), << R(14), Imm(di.imm) >>),
                         L("selp.u32", R(15), << Imm(1), Imm(0), P(1) >>) >>)
  BY Temporaries, QuietLine, QuietMov DEF Plain, Lines
<1>. QED BY <1>1, TwoXPlain, StXPlain, PlainJoined DEF EmitSlt

LEMMA BranchPlain ==
  \A di, pc_ : /\ di.name[1] \in DOMAIN BranchKind => Plain(EmitBranch(di, pc_))
               /\ Plain(EmitJump(di, pc_))
<1>1. \A p, n : Quiet(BranchTo(p, n))
  BY Temporaries DEF BranchTo, L, Quiet, IsLine
<1>2. \A di, pc_ : Plain(Fork(di, pc_)) /\ Plain(EmitJump(di, pc_))
  BY <1>1 DEF Fork, EmitJump, Plain, Lines
<1>3. \A n \in DOMAIN BranchKind : BranchCmp[BranchKind[n]] \notin { "bra", "label" }
  BY DEF BranchKind, BranchCmp
<1>4. \A op, s : op \notin { "bra", "label" } => Plain(<< L(op, P(1), s) >>)
  BY Temporaries, QuietLine, PlainOne
<1>. QED BY <1>2, <1>3, <1>4, TwoXPlain, PlainJoined DEF EmitBranch

----------------------------------------------------------------------------
(* EmitVector.                                                             *)
LEMMA XToFPlain == Plain(XToF)
BY Temporaries, QuietLine DEF XToF, Plain, Lines

LEMMA FsgnjPlain == \A di : Plain(EmitFsgnj(di))
<1>. SUFFICES ASSUME NEW di PROVE Plain(EmitFsgnj(di))
  OBVIOUS
<1>1. \A s : /\ Plain(<< L("and.b32", R(16), s) >>) /\ Plain(<< L("and.b32", R(17), s) >>)
             /\ Plain(<< L("xor.b32", R(17), s) >>) /\ Plain(<< L("or.b32", R(16), s) >>)
  BY Temporaries, QuietLine, PlainOne
<1>2. Plain(<< L("xor.b32", R(17), << R(14), R(15) >>), L("and.b32", R(17), << R(17), Imm(SignMask) >>) >>)
  BY Temporaries, QuietLine DEF Plain, Lines
<1>. QED BY <1>1, <1>2, TwoXPlain, StXPlain, PlainNone, PlainJoined DEF EmitFsgnj

LEMMA FpArithPlain == \A di : di.name[1] \in DOMAIN FpOp => Plain(EmitFpArith(di))
<1>1. \A n \in DOMAIN FpOp : FpOp[n] \notin { "bra", "label" }
  BY DEF FpOp
<1>2. ASSUME NEW di, di.name[1] \in DOMAIN FpOp
      PROVE  Plain(<< LRm(FpOp[di.name[1]], RmF32(di), F(2), << F(0), F(1) >>), L("mov.b32", R(16), << F(2) >>) >>)
  BY <1>1, <1>2, Temporaries, QuietLine DEF Plain, Lines
<1>. QED BY <1>2, TwoXPlain, XToFPlain, StXPlain, PlainJoined DEF EmitFpArith

LEMMA FsqrtPlain == \A di : Plain(EmitFsqrt(di))
<1>1. \A di : Plain(<< LdX(R(14), di.rs1), L("mov.b32", F(0), << R(14) >>),
                       LRm("sqrt.f32", RmF32(di), F(1), << F(0) >>), L("mov.b32", R(15), << F(1) >>) >>)
  BY Temporaries, QuietLine, QuietMov DEF Plain, Lines
<1>. QED BY <1>1, StXPlain, PlainJoined DEF EmitFsqrt

LEMMA FmaPlain == \A di : Plain(EmitFma(di))
<1>. SUFFICES ASSUME NEW di PROVE Plain(EmitFma(di))
  OBVIOUS
<1>1. \A s : \A n \in { 14, 16 } : Plain(<< L("xor.b32", R(n), s) >>) /\ Plain(<< LdX(R(n), di.rs3) >>)
  BY Temporaries, QuietLine, QuietMov, PlainOne
<1>2. Plain(<< L("mov.b32", F(2), << R(16) >>), LRm("fma.f32", RmF32(di), F(3), << F(0), F(1), F(2) >>),
               L("mov.b32", R(17), << F(3) >>) >>)
  BY Temporaries, QuietLine DEF Plain, Lines
<1>. QED BY <1>1, <1>2, TwoXPlain, XToFPlain, StXPlain, PlainNone, PlainJoined DEF EmitFma

LEMMA MinMaxPlain == \A op \in { "max.f32", "min.f32" } : Plain(MinMax(op))
BY Temporaries, QuietLine DEF MinMax, Plain, Lines

LEMMA FminmaxPlain == \A di : Plain(EmitFminmax(di))
<1>1. \A s : Plain(<< L("mov.b32", R(16), s) >>)
  BY Temporaries, QuietLine, PlainOne
<1>. QED BY <1>1, TwoXPlain, XToFPlain, MinMaxPlain, StXPlain, PlainJoined DEF EmitFminmax

LEMMA FpCmpPlain == \A di : di.name[1] \in DOMAIN FpCmp => Plain(EmitFpCmp(di))
<1>1. \A n \in DOMAIN FpCmp : FpCmp[n] \notin { "bra", "label" }
  BY DEF FpCmp
<1>2. ASSUME NEW di, di.name[1] \in DOMAIN FpCmp
      PROVE  Plain(<< L(FpCmp[di.name[1]], P(1), << F(0), F(1) >>), L("selp.u32", R(16), << Imm(1), Imm(0), P(1) >>) >>)
  BY <1>1, <1>2, Temporaries, QuietLine DEF Plain, Lines
<1>. QED BY <1>2, TwoXPlain, XToFPlain, StXPlain, PlainJoined DEF EmitFpCmp

LEMMA CvtPlain == \A t : /\ CvtFromInt(t) \notin { "bra", "label" }
                         /\ CvtToInt(t) \notin { "bra", "label" }
BY DEF CvtFromInt, CvtToInt

LEMMA FcvtPlain == \A di : Plain(EmitFcvt(di))
<1>. SUFFICES ASSUME NEW di PROVE Plain(EmitFcvt(di))
  OBVIOUS
<1>1. /\ Plain(<< LRm(CvtFromInt(di.name[3]), RmF32(di), F(0), << R(14) >>), L("mov.b32", R(15), << F(0) >>) >>)
      /\ Plain(<< L("mov.b32", F(0), << R(14) >>), LRm(CvtToInt(di.name[2]), RmI32(di), R(15), << F(0) >>) >>)
      /\ Plain(<< LdX(R(14), di.rs1) >>)
  BY Temporaries, QuietLine, QuietMov, CvtPlain DEF Plain, Lines
<1>. QED BY <1>1, StXPlain, PlainJoined DEF EmitFcvt

LEMMA FlagPlain == \A d, a, b : Quiet(Both(d, a, b)) /\ Quiet(Not(d, a))
BY Temporaries, QuietLine DEF Both, Not

LEMMA ClassFlagsPlain == Plain(ClassFlags)
<1>1. \A s : /\ Quiet(L("and.b32", R(15), s)) /\ Quiet(L("and.b32", R(16), s))
             /\ Quiet(L("and.b32", R(17), s)) /\ Quiet(L("and.b32", R(18), s)) /\ Quiet(Mov(R(19), s))
  BY Temporaries, QuietLine, QuietMov
<1>2. \A n, s : Quiet(L("setp.ne.u32", P(n), s)) /\ Quiet(L("setp.eq.u32", P(n), s))
  BY Temporaries, QuietLine
<1>. QED BY <1>1, <1>2, FlagPlain, Plain22 DEF ClassFlags

LEMMA ClassOfPlain == \A guarded \in BOOLEAN : Plain(ClassOf(guarded))
<1>1. \A d, kind : Plain(BySign(d, kind))
  BY FlagPlain DEF BySign, Plain, Lines
<1>2. \A p, bit, guarded : Plain(OrIf(p, bit, guarded))
  <2>1. \A p, s : Plain(<< If(p, L("or.b32", R(19), s)) >>)
    BY Temporaries, QuietLine, PlainOne
  <2>2. \A s, t : Plain(<< L("selp.u32", R(20), s), L("or.b32", R(19), t) >>)
    BY Temporaries, QuietLine DEF Plain, Lines
  <2>. QED BY <2>1, <2>2 DEF OrIf
<1>. QED BY <1>1, <1>2, ClassFlagsPlain, PlainJoined DEF ClassOf

LEMMA FclassPlain == \A di : Plain(EmitFclass(di)) /\ Plain(EmitVfclass(di))
<1>1. \A x, s : Plain(<< LdX(R(14), x) >>) /\ Plain(<< Mov(R(14), s) >>)
  BY Temporaries, QuietMov, PlainOne
<1>2. \A r, s : Plain(<< Mov(V(r), s) >>)
  BY Temporaries, QuietMov, PlainOne
<1>. QED BY <1>1, <1>2, ClassOfPlain, StXPlain, PlainJoined DEF EmitFclass, EmitVfclass

LEMMA PreloadPlain == \A di : Plain(Preload(di))
BY Temporaries, QuietMov, PlainNone, PlainOne DEF Preload

(* A line that writes a vector register.                                   *)
LEMMA ToVector ==
  \A op, r, s : op \notin { "bra", "label" } => Plain(<< L(op, V(r), s) >>)
BY Temporaries, QuietLine, PlainOne

LEMMA VecAluPlain ==
  \A di : /\ di.name[1] \in DOMAIN VecOp => Plain(EmitVecAlu(di))
          /\ Plain(EmitVecReverse(di)) /\ Plain(EmitVec12(di))
<1>1. \A n \in DOMAIN VecOp : VecOp[n] \notin { "bra", "label" }
  BY DEF VecOp
<1>. QED BY <1>1, ToVector, PreloadPlain, UnsupportedPlain, PlainJoined DEF EmitVecAlu, EmitVecReverse, EmitVec12

LEMMA VecShiftPlain == \A di : di.name[1] \in DOMAIN VecShift => Plain(EmitVecShift(di))
<1>1. \A n \in DOMAIN VecShift : VecShift[n] \notin { "bra", "label" }
  BY DEF VecShift
<1>2. \A s : Plain(<< L("and.b32", R(14), s) >>)
  BY Temporaries, QuietLine, PlainOne
<1>. QED BY <1>1, <1>2, ToVector, PreloadPlain, PlainNone, PlainJoined DEF EmitVecShift

LEMMA VecMulhsuPlain == \A di : Plain(EmitVecMulhsu(di))
<1>. SUFFICES ASSUME NEW di PROVE Plain(EmitVecMulhsu(di))
  OBVIOUS
<1>1. Plain(<< L("cvt.s64.s32", RD(16), << V(di.rs2) >>), L("cvt.s64.u32", RD(17), << Other(di) >>),
               L("mul.lo.s64", RD(18), << RD(16), RD(17) >>), L("shr.s64", RD(18), << RD(18), Imm(W) >>),
               L("cvt.u32.s64", R(15), << RD(18) >>), Mov(V(di.rd), R(15)) >>)
  BY Temporaries, QuietLine, QuietMov DEF Plain, Lines
<1>. QED BY <1>1, PreloadPlain, PlainJoined DEF EmitVecMulhsu

LEMMA VecDivPlain == \A di : di.name[1] \in DOMAIN VecDivOp => Plain(EmitVecDiv(di))
<1>. SUFFICES ASSUME NEW di, di.name[1] \in DOMAIN VecDivOp PROVE Plain(EmitVecDiv(di))
  OBVIOUS
<1>1. VecDivOp[di.name[1]] \notin { "bra", "label" }
  BY DEF VecDivOp
<1>2. \A s, t, u, v : Plain(<< L("setp.eq.u32", P(1), s) >>)
         /\ Plain(<< L("setp.eq.u32", P(2), s), L("setp.eq.u32", P(3), t),
                     L("and.pred", P(2), u), L("or.pred", P(4), v) >>)
  BY Temporaries, QuietLine DEF Plain, Lines
<1>3. \A p, a : Plain(<< If(p, Mov(V(di.rd), a)) >>)
  BY Temporaries, QuietMov, PlainOne
<1>4. \A p, s : Plain(<< Unless(p, L(VecDivOp[di.name[1]], V(di.rd), s)) >>)
  BY <1>1, Temporaries, QuietLine, PlainOne
<1>. QED BY <1>2, <1>3, <1>4, PreloadPlain, PlainNone, PlainJoined DEF EmitVecDiv

LEMMA VecMadPlain ==
  \A di : di.name[1] \in { "vmadd", "vmacc", "vnmsub", "vnmsac" } => Plain(EmitVecMad(di))
<1>. SUFFICES ASSUME NEW di, di.name[1] \in { "vmadd", "vmacc", "vnmsub", "vnmsac" } PROVE Plain(EmitVecMad(di))
  OBVIOUS
<1>1. \A s, u, v :
         /\ Plain(<< L("mul.lo.u32", R(14), s), L("sub.u32", V(u), v) >>)
         /\ Plain(<< L("mul.lo.u32", R(15), s), L("sub.u32", V(u), v) >>)
         /\ Plain(<< L("mul.lo.s32", R(14), s), L("sub.u32", V(u), v) >>)
         /\ Plain(<< L("mul.lo.s32", R(15), s), L("sub.u32", V(u), v) >>)
  BY Temporaries, QuietLine DEF Plain, Lines
<1>2. Plain(Preload(di))
  BY PreloadPlain
<1>3. CASE di.name[1] = "vmadd"
  BY <1>2, <1>3, ToVector, PlainJoined DEF EmitVecMad
<1>4. CASE di.name[1] = "vmacc"
  BY <1>2, <1>4, ToVector, PlainJoined DEF EmitVecMad
<1>5. CASE di.name[1] = "vnmsub"
  <2>1. CASE FromX(di)
    BY <1>1, <1>2, <1>5, <2>1, PlainJoined DEF EmitVecMad
  <2>2. CASE ~FromX(di)
    BY <1>1, <1>2, <1>5, <2>2, PlainJoined DEF EmitVecMad
  <2>. QED BY <2>1, <2>2
<1>6. CASE di.name[1] = "vnmsac"
  <2>1. CASE FromX(di)
    BY <1>1, <1>2, <1>6, <2>1, PlainJoined DEF EmitVecMad
  <2>2. CASE ~FromX(di)
    BY <1>1, <1>2, <1>6, <2>2, PlainJoined DEF EmitVecMad
  <2>. QED BY <2>1, <2>2
<1>. QED BY <1>3, <1>4, <1>5, <1>6

LEMMA MaskFromPlain == \A di, p : Plain(MaskFrom(di, p))
BY ToVector DEF MaskFrom

LEMMA VecCmpPlain == \A di : di.name[1] \in DOMAIN VecCmp => Plain(EmitVecCmp(di))
<1>1. \A n \in DOMAIN VecCmp : VecCmp[n] \notin { "bra", "label" }
  BY DEF VecCmp
<1>2. \A op, s : op \notin { "bra", "label" } => Plain(<< L(op, P(1), s) >>)
  BY Temporaries, QuietLine, PlainOne
<1>. QED BY <1>1, <1>2, MaskFromPlain, PreloadPlain, PlainJoined DEF EmitVecCmp

LEMMA MaskOpPlain == \A di : Plain(EmitMaskOp(di))
<1>1. \A s, t : Plain(<< L("setp.ne.u32", P(1), s), L("setp.ne.u32", P(2), t) >>)
  BY Temporaries, QuietLine DEF Plain, Lines
<1>2. \A op, s : op \in { "and.pred", "or.pred", "xor.pred" } => Plain(<< L(op, P(3), s) >>)
  BY Temporaries, QuietLine, PlainOne
<1>3. \A d, a : Plain(<< Not(d, a) >>)
  BY FlagPlain, PlainOne
<1>. QED BY <1>1, <1>2, <1>3, MaskFromPlain, PlainNone, PlainJoined DEF EmitMaskOp

LEMMA FloatPairPlain == \A di, reversed : Plain(FloatPair(di, reversed))
<1>1. \A s, t : Plain(<< L("mov.b32", F(0), s), L("mov.b32", F(1), t) >>)
  BY Temporaries, QuietLine DEF Plain, Lines
<1>. QED BY <1>1, PreloadPlain, PlainJoined DEF FloatPair

LEMMA VecFloatPlain ==
  \A di : /\ di.name[1] \in DOMAIN VecFloatCmp => Plain(EmitVecFloatCmp(di))
          /\ di.name[1] \in DOMAIN VecFloatOp  => Plain(EmitVecFloat(di))
<1>1. \A n \in DOMAIN VecFloatCmp : VecFloatCmp[n] \notin { "bra", "label" }
  BY DEF VecFloatCmp
<1>2. \A n \in DOMAIN VecFloatOp : VecFloatOp[n] \notin { "bra", "label" }
  BY DEF VecFloatOp
<1>3. \A op, s : op \notin { "bra", "label" } => Plain(<< L(op, P(1), s) >>)
  BY Temporaries, QuietLine, PlainOne
<1>4. Plain(<< Not(1, 1) >>)
  BY FlagPlain, PlainOne
<1>5. \A op, s, r, t : op \notin { "bra", "label" } => Plain(<< LRm(op, "rn", F(2), s), L("mov.b32", V(r), t) >>)
  BY Temporaries, QuietLine DEF Plain, Lines
<1>6. ASSUME NEW di, di.name[1] \in DOMAIN VecFloatCmp PROVE Plain(EmitVecFloatCmp(di))
  BY <1>1, <1>3, <1>4, <1>6, FloatPairPlain, MaskFromPlain, PlainNone, PlainJoined DEF EmitVecFloatCmp
<1>7. ASSUME NEW di, di.name[1] \in DOMAIN VecFloatOp PROVE Plain(EmitVecFloat(di))
  BY <1>2, <1>5, <1>7, FloatPairPlain, PlainJoined DEF EmitVecFloat
<1>. QED BY <1>6, <1>7

LEMMA VfcvtPlain == \A di : Plain(EmitVfcvt(di)) /\ Plain(EmitVfsqrt(di))
<1>1. \A op, rm, s, t, r : op \notin { "bra", "label" } =>
         /\ Plain(<< LRm(op, rm, F(0), s), L("mov.b32", V(r), t) >>)
         /\ Plain(<< L("mov.b32", F(0), t), LRm(op, rm, R(14), s), Mov(V(r), R(14)) >>)
         /\ Plain(<< L("mov.b32", F(0), t), LRm(op, rm, F(1), s), L("mov.b32", V(r), << F(1) >>) >>)
  BY Temporaries, QuietLine, QuietMov DEF Plain, Lines
<1>. QED BY <1>1, CvtPlain DEF EmitVfcvt, EmitVfsqrt

LEMMA VfsgnjPlain ==
  \A di : di.name[1] \in { "vfsgnj", "vfsgnjn", "vfsgnjx" } => Plain(EmitVfsgnj(di))
<1>. SUFFICES ASSUME NEW di, di.name[1] \in { "vfsgnj", "vfsgnjn", "vfsgnjx" } PROVE Plain(EmitVfsgnj(di))
  OBVIOUS
<1>1. \A s : Plain(<< L("and.b32", R(15), s) >>) /\ Plain(<< L("and.b32", R(16), s) >>)
  BY Temporaries, QuietLine, PlainOne
<1>2. \A s, t : /\ Plain(<< L("not.b32", R(16), s), L("and.b32", R(16), t) >>)
                /\ Plain(<< L("xor.b32", R(16), s), L("and.b32", R(16), t) >>)
  BY Temporaries, QuietLine DEF Plain, Lines
<1>3. Plain(Preload(di))
  BY PreloadPlain
<1>4. CASE di.name[1] = "vfsgnj"
  BY <1>1, <1>3, <1>4, ToVector, PlainJoined DEF EmitVfsgnj
<1>5. CASE di.name[1] = "vfsgnjn"
  BY <1>1, <1>2, <1>3, <1>5, ToVector, PlainJoined DEF EmitVfsgnj
<1>6. CASE di.name[1] = "vfsgnjx"
  BY <1>1, <1>2, <1>3, <1>6, ToVector, PlainJoined DEF EmitVfsgnj
<1>. QED BY <1>4, <1>5, <1>6

LEMMA VmvPlain == \A di : Plain(EmitVmv(di)) /\ Plain(EmitVmvXS(di)) /\ Plain(EmitMerge(di))
<1>1. \A r, s, x : Plain(<< Mov(V(r), s) >>) /\ Plain(<< LdX(R(14), x), Mov(V(r), s) >>)
  BY Temporaries, QuietMov DEF Plain, Lines
<1>2. ASSUME NEW di PROVE Plain(EmitVmv(di))
  BY <1>1, UnsupportedPlain DEF EmitVmv
<1>3. \A s, r, t, u : Plain(<< L("setp.eq.u32", P(2), s), If(2, Mov(X(r), t)), ReadActiveMask, L("shfl.idx", X(r), u) >>)
  BY Temporaries, QuietLine, QuietMov DEF ReadActiveMask, Plain, Lines
<1>4. \A s, r, t : Plain(<< L("setp.ne.u32", P(1), s), L("selp.u32", V(r), t) >>)
  BY Temporaries, QuietLine DEF Plain, Lines
<1>. QED BY <1>2, <1>3, <1>4, TrapPlain, PreloadPlain, PlainJoined DEF EmitVmvXS, EmitMerge

LEMMA PrivatePlain == \A di : Plain(EmitPrivate(di))
<1>1. \A r, s, t, u, v, w : Plain(<< L("add.s32", R(14), s), L("and.b32", R(15), t),
         L("shl.b32", R(15), u), L("shl.b32", R(16), v), L("add.u32", R(15), w) >>)
  BY Temporaries, QuietLine DEF Plain, Lines
<1>2. \A r, s, t : Plain(<< L("add.u32", R(14), s) >>) /\ Plain(<< Mov(V(r), t) >>)
  BY Temporaries, QuietLine, QuietMov, PlainOne
<1>. QED BY <1>1, <1>2, Temporaries, CsrPdsPlain, NarrowPlain, StorePlain, PlainJoined DEF EmitPrivate, PrivateAddr

LEMMA VecMemoryPlain ==
  \A di : /\ di.name[1] \in DOMAIN VecLoadWidth  => Plain(EmitVecLoad(di))
          /\ di.name[1] \in DOMAIN VecStoreWidth => Plain(EmitVecStore(di))
<1>1. \A n \in DOMAIN VecLoadWidth : VecLoadWidth[n] \in { "w", "bu", "hu", "b", "h" }
  BY DEF VecLoadWidth
<1>2. \A n \in DOMAIN VecStoreWidth : VecStoreWidth[n] \in { "w", "b", "h" }
  BY DEF VecStoreWidth
<1>3. \A r, s, t : Plain(<< L("add.u32", R(14), s) >>) /\ Plain(<< Mov(V(r), t) >>)
  BY Temporaries, QuietLine, QuietMov, PlainOne
<1>4. ASSUME NEW di, di.name[1] \in DOMAIN VecLoadWidth PROVE Plain(EmitVecLoad(di))
  BY <1>1, <1>3, <1>4, Temporaries, LoadPlain, PlainJoined DEF EmitVecLoad
<1>5. ASSUME NEW di, di.name[1] \in DOMAIN VecStoreWidth PROVE Plain(EmitVecStore(di))
  <2>1. /\ Plain(CutTo(VecStoreWidth[di.name[1]], V(di.rs2)))
        /\ Plain(Store(VecStoreWidth[di.name[1]], R(14), V(di.rs2)))
    BY <1>2, <1>5, CutToPlain, StorePlain
  <2>. QED BY <1>3, <2>1, PlainJoined DEF EmitVecStore
<1>. QED BY <1>4, <1>5

----------------------------------------------------------------------------
(* Sequences of pieces of code.                                            *)
LEMMA NatMinimum ==
  ASSUME NEW T \in SUBSET Nat, T # {}
  PROVE  \E x \in T : \A y \in T : x <= y
<1>. DEFINE Rel == OpToRel(<, Nat)
<1>1. IsWellFoundedOn(Rel, Nat)
  BY NatLessThanWellFounded
<1>2. \A a, b \in Nat : a < b => <<a, b>> \in Rel
  BY DEF OpToRel
<1>. HIDE DEF Rel
<1>3. PICK x \in T : \A y \in T : <<y, x>> \notin Rel
  BY <1>1, WFMin
<1>4. ASSUME NEW y \in T PROVE x <= y
  <2>1. x \in Nat /\ y \in Nat
    OBVIOUS
  <2>2. ~(y < x)
    BY <1>2, <1>3, <2>1, Zenon
  <2>. QED BY <2>1, <2>2
<1>. QED BY <1>4

(* Every line of s is in one of the pieces, and that piece is all in s.    *)
Pieced(s, pieces) ==
  /\ Lines(s)
  /\ \A k \in 1 .. Len(s) :
       \E i \in 1 .. Len(pieces), base \in Nat :
         /\ k - base \in 1 .. Len(pieces[i])
         /\ \A j \in 1 .. Len(pieces[i]) : base + j \in 1 .. Len(s) /\ s[base + j] = pieces[i][j]

LEMMA PiecedMore ==
  ASSUME NEW pieces, NEW s, NEW i \in 1 .. Len(pieces), Lines(pieces[i]), Pieced(s, pieces)
  PROVE  Pieced(s \o pieces[i], pieces)
<1>. DEFINE t == pieces[i]
            u == s \o t
<1>1. Lines(s) /\ Lines(t)
  BY DEF Pieced
<1>0. Len(s) \in Nat /\ Len(t) \in Nat
  BY <1>1 DEF Lines
<1>2. /\ Lines(u) /\ Len(u) = Len(s) + Len(t)
      /\ \A k \in 1 .. Len(s) : u[k] = s[k]
      /\ \A k \in 1 .. Len(t) : u[Len(s) + k] = t[k]
      /\ \A k \in 1 .. Len(u) :
           \/ k \in 1 .. Len(s) /\ u[k] = s[k]
           \/ \E j \in 1 .. Len(t) : k = Len(s) + j /\ u[k] = t[j]
  BY <1>1, LinesJoined
<1>. HIDE DEF u
<1>3. ASSUME NEW k \in 1 .. Len(u)
      PROVE  \E n \in 1 .. Len(pieces), base \in Nat :
               /\ k - base \in 1 .. Len(pieces[n])
               /\ \A j \in 1 .. Len(pieces[n]) : base + j \in 1 .. Len(u) /\ u[base + j] = pieces[n][j]
  <2>1. CASE k \in 1 .. Len(s)
    <3>1. PICK n \in 1 .. Len(pieces), base \in Nat :
            /\ k - base \in 1 .. Len(pieces[n])
            /\ \A j \in 1 .. Len(pieces[n]) : base + j \in 1 .. Len(s) /\ s[base + j] = pieces[n][j]
      BY <2>1 DEF Pieced
    <3>2. \A j \in 1 .. Len(pieces[n]) : base + j \in 1 .. Len(u) /\ u[base + j] = pieces[n][j]
      <4>1. ASSUME NEW j \in 1 .. Len(pieces[n]) PROVE base + j \in 1 .. Len(u) /\ u[base + j] = pieces[n][j]
        <5>1. base + j \in 1 .. Len(s) /\ s[base + j] = pieces[n][j]
          BY <3>1
        <5>2. base + j \in 1 .. Len(u)
          BY <1>0, <1>2, <5>1
        <5>. QED BY <1>2, <5>1, <5>2
      <4>. QED BY <4>1
    <3>. QED BY <3>1, <3>2
  <2>2. CASE \E j \in 1 .. Len(t) : k = Len(s) + j
    <3>1. k - Len(s) \in 1 .. Len(t)
      BY <1>0, <1>2, <2>2
    <3>2. \A j \in 1 .. Len(t) : Len(s) + j \in 1 .. Len(u) /\ u[Len(s) + j] = t[j]
      BY <1>0, <1>2
    <3>. QED BY <1>0, <3>1, <3>2
  <2>. QED BY <1>2, <2>1, <2>2
<1>. QED BY <1>2, <1>3 DEF Pieced, u

LEMMA FlattenPieced ==
  ASSUME NEW pieces, Lines(pieces), \A i \in 1 .. Len(pieces) : Lines(pieces[i])
  PROVE  Pieced(FlattenSeq(pieces), pieces)
<1>. DEFINE n == Len(pieces)
            Of(f, i) == IF i = 1 THEN pieces[i] ELSE f[i - 1] \o pieces[i]
            Folds(f, m) == f = [i \in 1 .. m |-> Of(f, i)] /\ \A i \in 1 .. m : Pieced(f[i], pieces)
            T == { m \in 1 .. n : ~ \E f : Folds(f, m) }
<1>1. n \in Nat
  BY DEF Lines
<1>2. CASE n = 0
  BY <1>2 DEF FlattenSeq, Pieced
<1>3. CASE n # 0
  <2>1. \E f : Folds(f, 1)
    <3>. DEFINE f == [i \in 1 .. 1 |-> pieces[1]]
    <3>1. f = [i \in 1 .. 1 |-> Of(f, i)]
      OBVIOUS
    <3>2. Pieced(pieces[1], pieces)
      <4>1. Lines(pieces[1]) /\ 1 \in 1 .. Len(pieces) /\ 0 \in Nat
        BY <1>1, <1>3
      <4>2. \A k \in 1 .. Len(pieces[1]) : k - 0 \in 1 .. Len(pieces[1])
        BY <4>1 DEF Lines
      <4>3. \A j \in 1 .. Len(pieces[1]) : 0 + j \in 1 .. Len(pieces[1]) /\ pieces[1][0 + j] = pieces[1][j]
        BY <4>1 DEF Lines
      <4>. QED BY <4>1, <4>2, <4>3 DEF Pieced
    <3>3. \A i \in 1 .. 1 : f[i] = pieces[1]
      OBVIOUS
    <3>. QED BY <3>1, <3>2, <3>3
  <2>2. ASSUME NEW m \in 1 .. n, m # 1, NEW g, Folds(g, m - 1) PROVE \E f : Folds(f, m)
    <3>. DEFINE f == [i \in 1 .. m |-> IF i = m THEN Of(g, m) ELSE g[i]]
    <3>0. Of(g, m) = g[m - 1] \o pieces[m]
      BY <2>2
    <3>. HIDE DEF Of
    <3>1. \A i \in 1 .. m - 1 : g[i] = Of(g, i)
      BY <2>2, Zenon
    <3>2. \A i \in 1 .. m : i # 1 => f[i - 1] = g[i - 1]
      BY <1>1
    <3>3. \A i \in 1 .. m : Of(f, i) = Of(g, i)
      BY <3>2 DEF Of
    <3>4. ASSUME NEW i \in 1 .. m PROVE f[i] = Of(f, i)
      <4>1. i = m \/ i \in 1 .. m - 1
        BY <1>1
      <4>. QED BY <4>1, <3>1, <3>3
    <3>5. ASSUME NEW i \in 1 .. m PROVE Pieced(f[i], pieces)
      <4>1. CASE i = m
        <5>1. m - 1 \in 1 .. m - 1 /\ m \in 1 .. Len(pieces)
          BY <1>1, <2>2
        <5>2. Pieced(g[m - 1], pieces) /\ Lines(pieces[m])
          BY <2>2, <5>1
        <5>3. Pieced(g[m - 1] \o pieces[m], pieces)
          BY <5>1, <5>2, PiecedMore
        <5>. QED BY <3>0, <4>1, <5>3
      <4>2. CASE i # m
        <5>1. i \in 1 .. m - 1 /\ f[i] = g[i]
          BY <1>1, <4>2
        <5>. QED BY <2>2, <5>1
      <4>. QED BY <4>1, <4>2
    <3>. HIDE DEF f
    <3>6. f = [i \in 1 .. m |-> Of(f, i)]
      <4>1. f = [i \in 1 .. m |-> f[i]]
        BY DEF f
      <4>. QED BY SMTT(20), <4>1, <3>4
    <3>. QED BY <3>5, <3>6
  <2>3. T = {}
    <3>. SUFFICES ASSUME T # {} PROVE FALSE
      OBVIOUS
    <3>. HIDE DEF Folds
    <3>0. T \in SUBSET Nat
      BY <1>1
    <3>1. PICK m \in T : \A k \in T : m <= k
      <4>. HIDE DEF T
      <4>. QED BY <3>0, NatMinimum
    <3>2. m # 1 /\ m \in 1 .. n
      BY <2>1
    <3>3. m - 1 \in 1 .. n /\ ~(m <= m - 1)
      BY <3>2, <1>1
    <3>4. m - 1 \notin T
      <4>. HIDE DEF T
      <4>. QED BY <3>1, <3>3
    <3>5. PICK g : Folds(g, m - 1)
      BY <3>3, <3>4
    <3>6. \E f : Folds(f, m)
      BY <2>2, <3>2, <3>5
    <3>. QED BY <3>6
  <2>4. n \in 1 .. n
    BY <1>1, <1>3
  <2>5. PICK f : Folds(f, n)
    <3>. HIDE DEF Folds
    <3>. QED BY <2>3, <2>4
  <2>6. ASSUME NEW h, h = [i \in 1 .. n |-> Of(h, i)] PROVE h[n] = f[n]
    <3>. DEFINE U == { i \in 1 .. n : h[i] # f[i] }
    <3>0. ASSUME NEW i \in 1 .. n PROVE h[i] = Of(h, i) /\ f[i] = Of(f, i)
      <4>. HIDE DEF Of
      <4>. QED BY <2>5, <2>6, Zenon
    <3>1. CASE U = {}
      BY <2>4, <3>1
    <3>2. CASE U # {}
      <4>0. U \in SUBSET Nat
        BY <1>1
      <4>1. PICK m \in U : \A k \in U : m <= k
        <5>. HIDE DEF U
        <5>. QED BY <3>2, <4>0, NatMinimum
      <4>2. m \in 1 .. n /\ h[m] # f[m]
        OBVIOUS
      <4>3. m # 1
        BY <3>0, <4>2
      <4>4. m - 1 \in 1 .. n /\ ~(m <= m - 1)
        BY <1>1, <4>2, <4>3
      <4>5. m - 1 \notin U
        <5>. HIDE DEF U
        <5>. QED BY <4>1, <4>4
      <4>6. h[m - 1] = f[m - 1]
        BY <4>4, <4>5
      <4>7. Of(h, m) = Of(f, m)
        BY <4>6
      <4>. HIDE DEF Of
      <4>. QED BY <3>0, <4>2, <4>7
    <3>. QED BY <3>1, <3>2
  <2>7. FlattenSeq(pieces) = (CHOOSE h : h = [i \in 1 .. n |-> Of(h, i)])[n]
    BY <1>3 DEF FlattenSeq
  <2>. DEFINE h == CHOOSE h : h = [i \in 1 .. n |-> Of(h, i)]
  <2>8. h = [i \in 1 .. n |-> Of(h, i)]
    <3>. HIDE DEF Of
    <3>1. \E f_1 : f_1 = [i \in 1 .. n |-> Of(f_1, i)]
      BY <2>5
    <3>. QED BY <3>1
  <2>. HIDE DEF h
  <2>9. h[n] = f[n]
    BY <2>6, <2>8
  <2>. QED BY <2>4, <2>5, <2>7, <2>9 DEF h
<1>. QED BY <1>1, <1>2, <1>3

LEMMA PlainFlatten ==
  ASSUME NEW pieces, Lines(pieces), \A i \in 1 .. Len(pieces) : Plain(pieces[i])
  PROVE  Plain(FlattenSeq(pieces))
<1>. DEFINE s == FlattenSeq(pieces)
<1>1. Pieced(s, pieces)
  BY FlattenPieced DEF Plain
<1>. HIDE DEF s
<1>2. ASSUME NEW k \in 1 .. Len(s) PROVE Quiet(s[k])
  <2>1. PICK i \in 1 .. Len(pieces), base \in Nat :
          /\ k - base \in 1 .. Len(pieces[i])
          /\ \A j \in 1 .. Len(pieces[i]) : base + j \in 1 .. Len(s) /\ s[base + j] = pieces[i][j]
    BY <1>1 DEF Pieced
  <2>2. Len(s) \in Nat
    BY <1>1 DEF Pieced, Lines
  <2>3. s[base + (k - base)] = pieces[i][k - base] /\ base + (k - base) = k
    BY <2>1, <2>2
  <2>. QED BY <2>1, <2>3 DEF Plain
<1>. QED BY <1>1, <1>2 DEF Plain, Pieced, s

LEMMA PlainEach ==
  ASSUME NEW n \in Nat, NEW s, s = [k \in 1 .. n |-> s[k]], \A k \in 1 .. n : Quiet(s[k])
  PROVE  Plain(s)
<1>. DEFINE S == { s[k] : k \in 1 .. n }
<1>1. s \in [1 .. n -> S]
  OBVIOUS
<1>2. Len(s) = n
  BY <1>1
<1>. QED BY <1>2 DEF Plain, Lines

LEMMA VecFmaPlain ==
  \A di : di.name[1] \in { "vfmadd", "vfmsub", "vfnmadd", "vfnmsub", "vfmacc", "vfmsac", "vfnmacc", "vfnmsac" }
            => Plain(EmitVecFma(di))
<1>. SUFFICES ASSUME NEW di PROVE Plain(EmitVecFma(di))
  OBVIOUS
<1>. DEFINE roles   == FmaRoles(di.name[1], FromX(di))
            negated == FmaNegated(di.name[1], FromX(di))
            reg(i)  == CASE roles[i] = "d" -> V(di.rd)
                         [] roles[i] = "1" -> IF FromX(di) THEN R(15) ELSE V(di.rs1)
                         [] roles[i] = "2" -> V(di.rs2)
            moves == [i \in 1 .. 3 |-> << Mov(R(13 + i), reg(i)) >>]
            signs == [i \in 1 .. 3 |->
                        IF i \in negated THEN << L("xor.b32", R(13 + i), << R(13 + i), Imm(SignMask) >>) >>
                        ELSE << >>]
            backs == [i \in 1 .. 3 |-> L("mov.b32", F(i - 1), << R(13 + i) >>)]
            whole == [i \in 1 .. 3 |-> L("mov.b32", F(i - 1), << reg(i) >>)]
<1>. HIDE DEF reg, negated
<1>0. \A i \in 1 .. 3 : R(13 + i) \notin ContextRegs
  <2>1. \A i \in 1 .. 3 : 13 + i \notin { 0, 10, 12, 28, 29, 30 }
    OBVIOUS
  <2>. QED BY <2>1, Temporaries
<1>1. Plain(FlattenSeq(moves))
  <2>1. Lines(moves) /\ Len(moves) = 3
    BY DEF Lines
  <2>2. \A i \in 1 .. 3 : Plain(moves[i])
    BY <1>0, QuietMov, PlainOne
  <2>. QED BY <2>1, <2>2, PlainFlatten
<1>2. Plain(FlattenSeq(signs))
  <2>1. Lines(signs) /\ Len(signs) = 3
    BY DEF Lines
  <2>2. \A i \in 1 .. 3 : Plain(signs[i])
    BY <1>0, QuietLine, PlainOne, PlainNone
  <2>. QED BY <2>1, <2>2, PlainFlatten
<1>3. Plain(backs) /\ Plain(whole)
  <2>1. \A i \in 1 .. 3 : Quiet(backs[i]) /\ Quiet(whole[i])
    BY Temporaries, QuietLine
  <2>2. backs = [i \in 1 .. 3 |-> backs[i]] /\ whole = [i \in 1 .. 3 |-> whole[i]]
    OBVIOUS
  <2>. HIDE DEF backs, whole
  <2>. QED BY <2>1, <2>2, PlainEach
<1>4. \A op, s, t : Plain(<< LRm("fma.f32", "rn", F(3), s), L("mov.b32", V(di.rd), t) >>)
  BY Temporaries, QuietLine DEF Plain, Lines
<1>5. Plain(<< LdX(R(15), di.rs1) >>)
  BY Temporaries, QuietMov, PlainOne
<1>6. EmitVecFma(di) =
        (IF FromX(di) THEN << LdX(R(15), di.rs1) >> ELSE << >>)
          \o (IF di.name = << "vfmadd", "vv" >> THEN whole ELSE FlattenSeq(moves) \o FlattenSeq(signs) \o backs)
          \o << LRm("fma.f32", "rn", F(3), << F(0), F(1), F(2) >>), L("mov.b32", V(di.rd), << F(3) >>) >>
  BY DEF EmitVecFma, reg, negated
<1>. HIDE DEF moves, signs, backs, whole
<1>. QED BY <1>1, <1>2, <1>3, <1>4, <1>5, <1>6, PlainNone, PlainJoined

----------------------------------------------------------------------------
(* EmitCall, what is straight.                                             *)
LEMMA IdOnPlain ==
  /\ \A a : \A kind \in { "local", "workitem_id", "group", "workgroup_id", "global", "global_id" } : Plain(IdOn(kind, a))
  /\ \A a : Plain(SizeOn(a))
<1>1. \A a, b, c, d, e, f :
        /\ Plain(<< Mov(V(0), a) >>)
        /\ Plain(<< Mov(R(21), a), Mov(R(22), b), Mov(R(23), c),
                    L("mul.lo.u32", R(24), d), L("add.u32", R(24), e), Mov(V(0), f) >>)
        /\ Plain(<< Mov(R(21), a), Mov(R(22), b), L("mul.lo.u32", R(23), c), Mov(V(0), d) >>)
  BY Temporaries, QuietLine, QuietMov DEF Plain, Lines
<1>2. \A a : Plain(SizeOn(a))
  BY <1>1 DEF SizeOn
<1>3. \A a : \A kind \in { "local", "workitem_id" } : Plain(IdOn(kind, a))
  BY <1>1 DEF IdOn
<1>4. \A a : \A kind \in { "group", "workgroup_id" } : Plain(IdOn(kind, a))
  BY <1>1 DEF IdOn
<1>5. \A a : \A kind \in { "global", "global_id" } : Plain(IdOn(kind, a))
  BY <1>1 DEF IdOn
<1>. QED BY <1>2, <1>3, <1>4, <1>5

LEMMA MathPlain ==
  /\ Plain(Fmax) /\ Plain(Mad24)
  /\ \A i : Plain(SqrtInPlace(i)) /\ Plain(FabsInPlace(i))
  /\ Plain(FlattenSeq([i \in 1 .. 4 |-> SqrtInPlace(i - 1)]))
  /\ Plain(FlattenSeq([i \in 1 .. 4 |-> FabsInPlace(i - 1)]))
<1>1. Plain(Fmax)
  <2>1. \A s, t : /\ Plain(<< L("mov.b32", F(0), s), L("mov.b32", F(1), t) >>)
                  /\ Plain(<< L("mov.b32", V(0), s) >>)
    BY Temporaries, QuietLine DEF Plain, Lines
  <2>. QED BY <2>1, MinMaxPlain, PlainJoined DEF Fmax
<1>2. Plain(Mad24)
  <2>1. \A a, b, c :
          /\ Plain(<< L("mov.b32", R(14), a), L("mov.b32", R(15), b), L("mov.b32", R(16), c) >>)
          /\ Plain(<< L("shl.b32", R(14), a), L("shr.s32", R(14), b) >>)
          /\ Plain(<< L("shl.b32", R(15), a), L("shr.s32", R(15), b) >>)
          /\ Plain(<< L("mad.lo.s32", R(14), a), L("mov.b32", V(0), b) >>)
    BY Temporaries, QuietLine DEF Plain, Lines
  <2>. QED BY <2>1, PlainJoined DEF Mad24
<1>3. \A i : Plain(SqrtInPlace(i)) /\ Plain(FabsInPlace(i))
  BY Temporaries, QuietLine DEF SqrtInPlace, FabsInPlace, Plain, Lines
<1>. DEFINE sqrts == [i \in 1 .. 4 |-> SqrtInPlace(i - 1)]
            fabss == [i \in 1 .. 4 |-> FabsInPlace(i - 1)]
<1>4. Lines(sqrts) /\ Len(sqrts) = 4 /\ Lines(fabss) /\ Len(fabss) = 4
  BY DEF Lines
<1>5. \A i \in 1 .. 4 : Plain(sqrts[i]) /\ Plain(fabss[i])
  BY <1>3
<1>. HIDE DEF sqrts, fabss
<1>6. Plain(FlattenSeq(sqrts)) /\ Plain(FlattenSeq(fabss))
  BY <1>4, <1>5, PlainFlatten
<1>. QED BY <1>1, <1>2, <1>3, <1>6 DEF sqrts, fabss

LEMMA InOrderLines ==
  ASSUME NEW S, IsFiniteSet(S)
  PROVE  \E n \in Nat : DOMAIN InOrder(S) = 1 .. n
<1>1. Cardinality(S) \in Nat
  BY FS_CardinalityType
<1>. QED BY <1>1 DEF InOrder

(* The blob of the registers a call passes or gives back.                  *)
LEMMA MutablePlain == \A blob : Plain(StoreMutable(blob)) /\ Plain(RestoreMutable(blob))
<1>. SUFFICES ASSUME NEW blob PROVE Plain(StoreMutable(blob)) /\ Plain(RestoreMutable(blob))
  OBVIOUS
<1>. DEFINE xs == InOrder(XRegs \ { 0 })
            vs == InOrder(VRegs)
<1>1. IsFiniteSet(XRegs \ { 0 }) /\ IsFiniteSet(VRegs)
  BY RegsAssumption, FS_Subset
<1>2. PICK n \in Nat : DOMAIN xs = 1 .. n
  BY <1>1, InOrderLines
<1>3. PICK m \in Nat : DOMAIN vs = 1 .. m
  BY <1>1, InOrderLines
<1>. HIDE DEF xs, vs
<1>4. \A off, s, i : Quiet(StParam(blob, off, s)) /\ Quiet(LdParam(X(i), blob, off)) /\ Quiet(LdParam(V(i), blob, off))
  BY Temporaries, QuietLine DEF StParam, LdParam
<1>. DEFINE sx == [k \in DOMAIN xs |-> StParam(blob, MutableXOffset + xs[k] * 4, X(xs[k]))]
            sv == [k \in DOMAIN vs |-> StParam(blob, MutableVOffset + vs[k] * 4, V(vs[k]))]
            lx == [k \in DOMAIN xs |-> LdParam(X(xs[k]), blob, MutableXOffset + xs[k] * 4)]
            lv == [k \in DOMAIN vs |-> LdParam(V(vs[k]), blob, MutableVOffset + vs[k] * 4)]
<1>5. Plain(sx)
  <2>1. sx = [k \in 1 .. n |-> sx[k]] /\ \A k \in 1 .. n : Quiet(sx[k])
    BY <1>2, <1>4
  <2>. HIDE DEF sx
  <2>. QED BY <2>1, PlainEach
<1>6. Plain(sv)
  <2>1. sv = [k \in 1 .. m |-> sv[k]] /\ \A k \in 1 .. m : Quiet(sv[k])
    BY <1>3, <1>4
  <2>. HIDE DEF sv
  <2>. QED BY <2>1, PlainEach
<1>7. Plain(lx)
  <2>1. lx = [k \in 1 .. n |-> lx[k]] /\ \A k \in 1 .. n : Quiet(lx[k])
    BY <1>2, <1>4
  <2>. HIDE DEF lx
  <2>. QED BY <2>1, PlainEach
<1>8. Plain(lv)
  <2>1. lv = [k \in 1 .. m |-> lv[k]] /\ \A k \in 1 .. m : Quiet(lv[k])
    BY <1>3, <1>4
  <2>. HIDE DEF lv
  <2>. QED BY <2>1, PlainEach
<1>9. Plain(<< StParam(blob, 0, R(2)), Mov(R(31), Imm(0)), StParam(blob, MutableXOffset, R(31)) >>)
  BY <1>4, Temporaries, QuietMov DEF Plain, Lines
<1>10. Plain(<< LdParam(R(2), blob, 0), RefreshLeader >>)
  BY Temporaries, QuietLine DEF LdParam, RefreshLeader, Plain, Lines
<1>11. /\ StoreMutable(blob) =
            SelectLeader \o << StParam(blob, 0, R(2)), Mov(R(31), Imm(0)), StParam(blob, MutableXOffset, R(31)) >>
              \o sx \o sv
       /\ RestoreMutable(blob) = << LdParam(R(2), blob, 0), RefreshLeader >> \o lx \o lv
  BY DEF StoreMutable, RestoreMutable, xs, vs
<1>. HIDE DEF sx, sv, lx, lv
<1>. QED BY <1>5, <1>6, <1>7, <1>8, <1>9, <1>10, <1>11, SelectLeaderPlain, PlainJoined

LEMMA CallPlain == \A callee : Plain(DirectCall(callee)) /\ Plain(FuncReturn)
<1>1. \A blob : Plain(StoreMachine(blob))
  <2>. SUFFICES ASSUME NEW blob PROVE Plain(StoreMachine(blob))
    OBVIOUS
  <2>. DEFINE s == StoreMachine(blob)
  <2>1. s = [k \in 1 .. 5 |-> s[k]] /\ \A k \in 1 .. 5 : s[k] = StParam(blob, 4 * (k - 1), R(MachineRegs[k]))
    BY DEF StoreMachine
  <2>. HIDE DEF s
  <2>2. \A k \in 1 .. 5 : Quiet(s[k])
    BY <2>1, Temporaries, QuietLine DEF StParam
  <2>. QED BY <2>1, <2>2, PlainEach DEF s
<1>2. \A s, f : Plain(<< StParam("call_runtime", 0, s), L("call", << "param", "call_mutable_out" >>, f) >>)
  <2>1. \A s : Quiet(StParam("call_runtime", 0, s))
    BY Temporaries, QuietLine DEF StParam
  <2>2. \A f : Quiet(L("call", << "param", "call_mutable_out" >>, f))
    BY Temporaries, QuietLine
  <2>. QED BY <2>1, <2>2 DEF Plain, Lines
<1>3. Plain(<< L("ret", NoReg, << >>) >>)
  BY Temporaries, QuietLine, PlainOne
<1>. QED BY <1>1, <1>2, <1>3, MutablePlain, PlainJoined DEF DirectCall, FuncReturn

----------------------------------------------------------------------------
(* Code with jumps.                                                        *)
DestsOf(s, op) == { s[k].d : k \in { j \in 1 .. Len(s) : s[j].op = op } }
JumpsOf(s)  == DestsOf(s, "bra")
LabelsOf(s) == DestsOf(s, "label")

Tame(s) ==
  /\ Lines(s)
  /\ \A k \in 1 .. Len(s) :
       /\ IsLine(s[k])
       /\ s[k].d \notin ContextRegs
       /\ s[k].op \in { "bra", "label" } => \E name : s[k].d = << "label", name >>

(* Every line leaves the context alone, and every jump has its label.      *)
Linked(s) == Tame(s) /\ JumpsOf(s) \subseteq LabelsOf(s)

LEMMA PlainTame == \A s : Plain(s) => Tame(s) /\ JumpsOf(s) = {}
BY DEF Plain, Quiet, Tame, JumpsOf, DestsOf

LEMMA PlainLinked == \A s : Plain(s) => Linked(s)
BY PlainTame DEF Linked

LEMMA DestsJoined ==
  ASSUME NEW s, NEW t, Lines(s), Lines(t), NEW op
  PROVE  DestsOf(s \o t, op) = DestsOf(s, op) \cup DestsOf(t, op)
<1>. DEFINE u == s \o t
<1>1. /\ Lines(u) /\ Len(u) = Len(s) + Len(t)
      /\ \A k \in 1 .. Len(s) : u[k] = s[k]
      /\ \A k \in 1 .. Len(t) : u[Len(s) + k] = t[k]
      /\ \A k \in 1 .. Len(u) :
           \/ k \in 1 .. Len(s) /\ u[k] = s[k]
           \/ \E j \in 1 .. Len(t) : k = Len(s) + j /\ u[k] = t[j]
  <2>1. Lines(s) /\ Lines(t)
    OBVIOUS
  <2>. QED BY <2>1, LinesJoined
<1>. HIDE DEF u
<1>2. Len(s) \in Nat /\ Len(t) \in Nat
  BY DEF Lines
<1>3. ASSUME NEW k \in 1 .. Len(u), u[k].op = op PROVE u[k].d \in DestsOf(s, op) \cup DestsOf(t, op)
  <2>1. CASE k \in 1 .. Len(s) /\ u[k] = s[k]
    BY <1>3, <2>1 DEF DestsOf
  <2>2. CASE \E j \in 1 .. Len(t) : u[k] = t[j]
    BY <1>3, <2>2 DEF DestsOf
  <2>. QED BY <1>1, <2>1, <2>2
<1>4. ASSUME NEW k \in 1 .. Len(s), s[k].op = op PROVE s[k].d \in DestsOf(u, op)
  <2>1. k \in 1 .. Len(u) /\ u[k] = s[k]
    BY <1>1, <1>2
  <2>. QED BY <1>4, <2>1 DEF DestsOf
<1>5. ASSUME NEW k \in 1 .. Len(t), t[k].op = op PROVE t[k].d \in DestsOf(u, op)
  <2>1. Len(s) + k \in 1 .. Len(u) /\ u[Len(s) + k] = t[k]
    BY <1>1, <1>2
  <2>. QED BY <1>5, <2>1 DEF DestsOf
<1>. QED BY <1>3, <1>4, <1>5 DEF DestsOf, u

LEMMA TameJoined ==
  \A s, t : Tame(s) /\ Tame(t) =>
    /\ Tame(s \o t)
    /\ JumpsOf(s \o t) = JumpsOf(s) \cup JumpsOf(t)
    /\ LabelsOf(s \o t) = LabelsOf(s) \cup LabelsOf(t)
<1>. SUFFICES ASSUME NEW s, NEW t, Tame(s), Tame(t)
              PROVE  /\ Tame(s \o t)
                     /\ JumpsOf(s \o t) = JumpsOf(s) \cup JumpsOf(t)
                     /\ LabelsOf(s \o t) = LabelsOf(s) \cup LabelsOf(t)
  OBVIOUS
<1>. DEFINE u == s \o t
<1>0. Lines(s) /\ Lines(t)
  BY DEF Tame
<1>1. /\ Lines(u)
      /\ \A k \in 1 .. Len(u) :
           \/ k \in 1 .. Len(s) /\ u[k] = s[k]
           \/ \E j \in 1 .. Len(t) : k = Len(s) + j /\ u[k] = t[j]
  BY <1>0, LinesJoined
<1>2. DestsOf(u, "bra") = DestsOf(s, "bra") \cup DestsOf(t, "bra")
  BY <1>0, DestsJoined
<1>3. DestsOf(u, "label") = DestsOf(s, "label") \cup DestsOf(t, "label")
  BY <1>0, DestsJoined
<1>. HIDE DEF u
<1>4. ASSUME NEW k \in 1 .. Len(u)
      PROVE  /\ IsLine(u[k]) /\ u[k].d \notin ContextRegs
             /\ u[k].op \in { "bra", "label" } => \E name : u[k].d = << "label", name >>
  <2>1. CASE k \in 1 .. Len(s) /\ u[k] = s[k]
    BY <2>1 DEF Tame
  <2>2. CASE \E j \in 1 .. Len(t) : u[k] = t[j]
    BY <2>2 DEF Tame
  <2>. QED BY <1>1, <2>1, <2>2
<1>. QED BY <1>1, <1>2, <1>3, <1>4 DEF Tame, JumpsOf, LabelsOf, u

LEMMA LinkedJoined == \A s, t : Linked(s) /\ Linked(t) => Linked(s \o t)
BY TameJoined DEF Linked

(* A jump and a label, alone.                                              *)
LEMMA JumpTame ==
  \A name, p :
    /\ Tame(<< Jump(name) >>) /\ JumpsOf(<< Jump(name) >>) = { << "label", name >> }
    /\ Tame(<< If(p, Jump(name)) >>) /\ JumpsOf(<< If(p, Jump(name)) >>) = { << "label", name >> }
    /\ Tame(<< Unless(p, Jump(name)) >>) /\ JumpsOf(<< Unless(p, Jump(name)) >>) = { << "label", name >> }
    /\ Tame(<< Label(name) >>) /\ LabelsOf(<< Label(name) >>) = { << "label", name >> }
    /\ JumpsOf(<< Label(name) >>) = {}
<1>. SUFFICES ASSUME NEW name, NEW p
              PROVE  /\ Tame(<< Jump(name) >>) /\ JumpsOf(<< Jump(name) >>) = { << "label", name >> }
                     /\ Tame(<< If(p, Jump(name)) >>) /\ JumpsOf(<< If(p, Jump(name)) >>) = { << "label", name >> }
                     /\ Tame(<< Unless(p, Jump(name)) >>) /\ JumpsOf(<< Unless(p, Jump(name)) >>) = { << "label", name >> }
                     /\ Tame(<< Label(name) >>) /\ LabelsOf(<< Label(name) >>) = { << "label", name >> }
                     /\ JumpsOf(<< Label(name) >>) = {}
  OBVIOUS
<1>1. ASSUME NEW line, IsLine(line), line.op \in { "bra", "label" }, line.d = << "label", name >>
      PROVE  /\ Tame(<< line >>)
             /\ line.op = "bra" => JumpsOf(<< line >>) = { << "label", name >> }
             /\ line.op = "label" => LabelsOf(<< line >>) = { << "label", name >> } /\ JumpsOf(<< line >>) = {}
  <2>. DEFINE s == << line >>
  <2>1. Lines(s) /\ Len(s) = 1 /\ s[1] = line
    BY DEF Lines
  <2>. HIDE DEF s
  <2>2. line.d \notin ContextRegs
    BY <1>1, Temporaries
  <2>3. Tame(s)
    BY <1>1, <2>1, <2>2 DEF Tame
  <2>4. \A op : DestsOf(s, op) = IF line.op = op THEN { << "label", name >> } ELSE {}
    BY <1>1, <2>1 DEF DestsOf
  <2>. QED BY <2>3, <2>4 DEF s, JumpsOf, LabelsOf
<1>2. /\ Jump(name).op = "bra" /\ Jump(name).d = << "label", name >> /\ IsLine(Jump(name))
      /\ If(p, Jump(name)).op = "bra" /\ If(p, Jump(name)).d = << "label", name >> /\ IsLine(If(p, Jump(name)))
      /\ Unless(p, Jump(name)).op = "bra" /\ Unless(p, Jump(name)).d = << "label", name >>
      /\ IsLine(Unless(p, Jump(name)))
      /\ Label(name).op = "label" /\ Label(name).d = << "label", name >> /\ IsLine(Label(name))
  BY DEF Jump, Label, If, Unless, L, IsLine
<1>. QED BY <1>1, <1>2

(* emit_scalar_store: the lanes that are not the leader jump.              *)
LEMMA LeaderStoreLinked == \A w, addr, s : w \in { "w", "b", "h" } => Linked(LeaderStore(w, addr, s))
<1>. SUFFICES ASSUME NEW w \in { "w", "b", "h" }, NEW addr, NEW s PROVE Linked(LeaderStore(w, addr, s))
  OBVIOUS
<1>. DEFINE jump == << Unless(0, Jump("after")) >>
            label == << Label("after") >>
            store == Store(w, addr, s)
            name == << "label", "after" >>
<1>1. /\ Tame(SelectLeader) /\ Tame(store) /\ Tame(WarpSync)
      /\ JumpsOf(SelectLeader) = {} /\ JumpsOf(store) = {} /\ JumpsOf(WarpSync) = {}
  BY SelectLeaderPlain, StorePlain, PlainTame
<1>2. Tame(jump) /\ Tame(label) /\ JumpsOf(jump) = { name } /\ JumpsOf(label) = {} /\ LabelsOf(label) = { name }
  BY JumpTame
<1>3. LeaderStore(w, addr, s) = SelectLeader \o jump \o store \o label \o WarpSync
  BY DEF LeaderStore
<1>. HIDE DEF jump, label, store, name
<1>4. Tame(SelectLeader \o jump) /\ JumpsOf(SelectLeader \o jump) = { name }
  BY <1>1, <1>2, TameJoined
<1>5. Tame(SelectLeader \o jump \o store) /\ JumpsOf(SelectLeader \o jump \o store) = { name }
  BY <1>1, <1>4, TameJoined
<1>6. Linked(SelectLeader \o jump \o store \o label)
  BY <1>2, <1>5, TameJoined DEF Linked
<1>. QED BY <1>3, <1>6, SelectLeaderPlain, PlainLinked, LinkedJoined

(* Ten lines.                                                              *)
LEMMA TenLines ==
  ASSUME NEW a, NEW b, NEW c, NEW d, NEW e, NEW f, NEW g, NEW h, NEW i, NEW j
  PROVE  LET s == << a, b, c, d, e, f, g, h, i, j >>
         IN  Lines(s) /\ Len(s) = 10 /\ s[10] = j /\ \A k \in 1 .. 10 : s[k] \in { a, b, c, d, e, f, g, h, i, j }
BY DEF Lines

LEMMA ByDimLinked ==
  ASSUME NEW default, NEW x, NEW y, NEW z, Plain(x), Plain(y), Plain(z)
  PROVE  Linked(ByDim(default, x, y, z))
<1>. DEFINE d0 == << "label", "dim0" >>
            d1 == << "label", "dim1" >>
            d2 == << "label", "dim2" >>
            dn == << "label", "done" >>
            N  == { d0, d1, d2, dn }
            head ==
              << Mov(R(20), V(0)),
                 L("setp.eq.u32", P(5), << R(20), Imm(0) >>), If(5, Jump("dim0")),
                 L("setp.eq.u32", P(6), << R(20), Imm(1) >>), If(6, Jump("dim1")),
                 L("setp.eq.u32", P(7), << R(20), Imm(2) >>), If(7, Jump("dim2")),
                 Mov(V(0), Imm(default)), Jump("done"), Label("dim0") >>
            turn1 == << Jump("done"), Label("dim1") >>
            turn2 == << Jump("done"), Label("dim2") >>
            turn3 == << Jump("done"), Label("done") >>
            Fits(line) ==
              /\ IsLine(line) /\ line.d \notin ContextRegs
              /\ line.op \in { "bra", "label" } => (\E name : line.d = << "label", name >>) /\ line.d \in N
<1>1. /\ \A l : Quiet(l) => Fits(l)
      /\ \A p : /\ Fits(If(p, Jump("dim0"))) /\ Fits(If(p, Jump("dim1"))) /\ Fits(If(p, Jump("dim2")))
      /\ Fits(Jump("done"))
      /\ Fits(Label("dim0")) /\ Fits(Label("dim1")) /\ Fits(Label("dim2")) /\ Fits(Label("done"))
  <2>1. \A l : Quiet(l) => Fits(l)
    BY DEF Quiet
  <2>2. \A p : /\ Fits(If(p, Jump("dim0"))) /\ Fits(If(p, Jump("dim1"))) /\ Fits(If(p, Jump("dim2")))
    BY Temporaries DEF Jump, If, L, IsLine
  <2>3. Fits(Jump("done"))
    BY Temporaries DEF Jump, L, IsLine
  <2>4. Fits(Label("dim0")) /\ Fits(Label("dim1")) /\ Fits(Label("dim2")) /\ Fits(Label("done"))
    BY Temporaries DEF Label, L, IsLine
  <2>. QED BY <2>1, <2>2, <2>3, <2>4
<1>2. \A s : Lines(s) /\ (\A k \in 1 .. Len(s) : Fits(s[k])) => Tame(s) /\ JumpsOf(s) \subseteq N
  BY DEF Tame, JumpsOf, DestsOf
<1>3. \A s, k : k \in 1 .. Len(s) /\ s[k].op = "label" => s[k].d \in LabelsOf(s)
  BY DEF LabelsOf, DestsOf
<1>4. /\ Label("dim0").op = "label" /\ Label("dim0").d = d0
      /\ Label("dim1").op = "label" /\ Label("dim1").d = d1
      /\ Label("dim2").op = "label" /\ Label("dim2").d = d2
      /\ Label("done").op = "label" /\ Label("done").d = dn
  BY DEF Label, L
<1>. HIDE DEF Fits, N, d0, d1, d2, dn
<1>5. Tame(head) /\ JumpsOf(head) \subseteq N /\ d0 \in LabelsOf(head)
  <2>1. /\ Lines(head) /\ Len(head) = 10 /\ head[10] = Label("dim0")
        /\ \A k \in 1 .. 10 : head[k] \in
             { Mov(R(20), V(0)), L("setp.eq.u32", P(5), << R(20), Imm(0) >>), If(5, Jump("dim0")),
               L("setp.eq.u32", P(6), << R(20), Imm(1) >>), If(6, Jump("dim1")),
               L("setp.eq.u32", P(7), << R(20), Imm(2) >>), If(7, Jump("dim2")),
               Mov(V(0), Imm(default)), Jump("done"), Label("dim0") }
    BY TenLines
  <2>2. /\ Fits(Mov(R(20), V(0))) /\ Fits(Mov(V(0), Imm(default)))
        /\ \A p, s : Fits(L("setp.eq.u32", P(p), s))
    BY <1>1, Temporaries, QuietLine, QuietMov
  <2>. HIDE DEF head
  <2>3. \A k \in 1 .. Len(head) : Fits(head[k])
    BY <1>1, <2>1, <2>2
  <2>4. Tame(head) /\ JumpsOf(head) \subseteq N
    BY <1>2, <2>1, <2>3
  <2>5. d0 \in LabelsOf(head)
    BY <1>3, <1>4, <2>1
  <2>. QED BY <2>4, <2>5
<1>. HIDE DEF head
<1>6. ASSUME NEW l, Fits(l), l.op = "label"
      PROVE  /\ Tame(<< Jump("done"), l >>) /\ JumpsOf(<< Jump("done"), l >>) \subseteq N
             /\ l.d \in LabelsOf(<< Jump("done"), l >>)
  <2>. DEFINE s == << Jump("done"), l >>
  <2>1. Lines(s) /\ Len(s) = 2 /\ s[1] = Jump("done") /\ s[2] = l
    BY DEF Lines
  <2>. HIDE DEF s
  <2>2. \A k \in 1 .. Len(s) : Fits(s[k])
    BY <1>1, <1>6, <2>1
  <2>3. 2 \in 1 .. Len(s)
    BY <2>1
  <2>4. l.d \in LabelsOf(s)
    BY <1>3, <1>6, <2>1, <2>3
  <2>5. Tame(s) /\ JumpsOf(s) \subseteq N
    BY <1>2, <2>1, <2>2
  <2>. QED BY <2>4, <2>5 DEF s
<1>7. /\ Tame(turn1) /\ JumpsOf(turn1) \subseteq N /\ d1 \in LabelsOf(turn1)
      /\ Tame(turn2) /\ JumpsOf(turn2) \subseteq N /\ d2 \in LabelsOf(turn2)
      /\ Tame(turn3) /\ JumpsOf(turn3) \subseteq N /\ dn \in LabelsOf(turn3)
  BY <1>1, <1>4, <1>6
<1>8. Tame(x) /\ Tame(y) /\ Tame(z) /\ JumpsOf(x) = {} /\ JumpsOf(y) = {} /\ JumpsOf(z) = {}
  BY PlainTame
<1>9. ByDim(default, x, y, z) = head \o x \o turn1 \o y \o turn2 \o z \o turn3
  BY DEF ByDim, head
<1>. HIDE DEF turn1, turn2, turn3
<1>10. Tame(head \o x) /\ JumpsOf(head \o x) \subseteq N /\ d0 \in LabelsOf(head \o x)
  BY <1>5, <1>8, TameJoined
<1>. DEFINE a == head \o x \o turn1
<1>11. Tame(a) /\ JumpsOf(a) \subseteq N /\ d0 \in LabelsOf(a) /\ d1 \in LabelsOf(a)
  BY <1>7, <1>10, TameJoined
<1>. HIDE DEF a
<1>12. Tame(a \o y) /\ JumpsOf(a \o y) \subseteq N /\ d0 \in LabelsOf(a \o y) /\ d1 \in LabelsOf(a \o y)
  BY <1>8, <1>11, TameJoined
<1>. DEFINE b == a \o y \o turn2
<1>13. Tame(b) /\ JumpsOf(b) \subseteq N /\ d0 \in LabelsOf(b) /\ d1 \in LabelsOf(b) /\ d2 \in LabelsOf(b)
  BY <1>7, <1>12, TameJoined
<1>. HIDE DEF b
<1>14. /\ Tame(b \o z) /\ JumpsOf(b \o z) \subseteq N
       /\ d0 \in LabelsOf(b \o z) /\ d1 \in LabelsOf(b \o z) /\ d2 \in LabelsOf(b \o z)
  BY <1>8, <1>13, TameJoined
<1>. DEFINE c == b \o z \o turn3
<1>15. /\ Tame(c) /\ JumpsOf(c) \subseteq N
       /\ d0 \in LabelsOf(c) /\ d1 \in LabelsOf(c) /\ d2 \in LabelsOf(c) /\ dn \in LabelsOf(c)
  BY <1>7, <1>14, TameJoined
<1>16. ByDim(default, x, y, z) = c
  BY <1>9 DEF a, b
<1>. HIDE DEF c
<1>. QED BY <1>15, <1>16 DEF Linked, N

LEMMA InlineLinked == \A f \in Inlined : Linked(Inline(f))
<1>. SUFFICES ASSUME NEW f \in Inlined PROVE Linked(Inline(f))
  OBVIOUS
<1>1. \A kind \in { "global", "local", "group" } : Linked(GetId(kind))
  BY IdOnPlain, ByDimLinked DEF GetId
<1>2. Linked(GetGlobalSize)
  BY IdOnPlain, ByDimLinked DEF GetGlobalSize
<1>3. CASE f[1] \in DOMAIN GetIds
  <2>1. GetIds[f[1]] \in { "global", "local", "group" }
    BY <1>3 DEF GetIds
  <2>2. Inline(f) = GetId(GetIds[f[1]])
    <3>1. \A w \in WorkIds : w[1] \notin DOMAIN GetIds
      BY DEF WorkIds, GetIds
    <3>2. f # << "get_global_size" >> /\ f # << "fmax" >> /\ f # << "sqrt" >> /\ f # << "sqrt4" >>
            /\ f # << "fabs4" >> /\ f # << "mad24" >>
      BY <1>3 DEF GetIds
    <3>. QED BY <1>3, <3>1, <3>2 DEF Inline
  <2>. QED BY <1>1, <2>1, <2>2
<1>4. CASE f \in WorkIds
  <2>1. f[1] \in { "workitem_id", "workgroup_id", "global_id" } /\ f[1] \notin DOMAIN GetIds
    BY <1>4 DEF WorkIds, GetIds
  <2>2. Plain(IdOn(f[1], f[2]))
    BY <2>1, IdOnPlain
  <2>3. Inline(f) = IdOn(f[1], f[2])
    BY <1>4, <2>1 DEF Inline
  <2>. QED BY <2>2, <2>3, PlainLinked
<1>5. CASE f \in { << "get_global_size" >>, << "fmax" >>, << "sqrt" >>, << "sqrt4" >>, << "fabs4" >>, << "mad24" >> }
  <2>1. f[1] \notin DOMAIN GetIds /\ f \notin WorkIds
    <3>1. \A w \in WorkIds : Len(w) = 2
      BY DEF WorkIds
    <3>2. Len(f) = 1
      BY <1>5
    <3>3. f[1] \in { "get_global_size", "fmax", "sqrt", "sqrt4", "fabs4", "mad24" }
      BY <1>5
    <3>. QED BY <3>1, <3>2, <3>3 DEF GetIds
  <2>. QED BY <1>2, <1>5, <2>1, MathPlain, PlainLinked DEF Inline
<1>6. f[1] \in DOMAIN GetIds \/ f \in WorkIds
        \/ f \in { << "get_global_size" >>, << "fmax" >>, << "sqrt" >>, << "sqrt4" >>, << "fabs4" >>, << "mad24" >> }
  BY DEF Inlined, GetIds
<1>. QED BY <1>3, <1>4, <1>5, <1>6

LEMMA CallToLinked == \A di, at : Linked(EmitCallTo(di, at))
<1>. SUFFICES ASSUME NEW di, NEW at PROVE Linked(EmitCallTo(di, at))
  OBVIOUS
<1>1. Linked(Unsupported) /\ \A s : Linked(<< Mov(R(14), s) >>)
  BY UnsupportedPlain, Temporaries, QuietMov, PlainOne, PlainLinked
<1>2. Linked(StX(di.rd, R(14)))
  BY StXPlain, PlainLinked
<1>3. \A f : Linked(DirectCall(f))
  BY CallPlain, PlainLinked
<1>. QED BY <1>1, <1>2, <1>3, InlineLinked, LinkedJoined DEF EmitCallTo

(* emit_one_inst: whatever the instruction is.                             *)
LEMMA ScalarFpLinked == \A di : di.name[1] \in ScalarFpNames => Linked(EmitScalarFp(di))
<1>. SUFFICES ASSUME NEW di, di.name[1] \in ScalarFpNames PROVE Plain(EmitScalarFp(di))
  BY PlainLinked
<1>1. Plain(<< LdX(R(14), di.rs1) >> \o StX(di.rd, R(14)))
  BY Temporaries, QuietMov, PlainOne, StXPlain, PlainJoined
<1>. QED BY <1>1, UnsupportedPlain, FsgnjPlain, FminmaxPlain, FpCmpPlain, FclassPlain, FpArithPlain, FsqrtPlain,
            FmaPlain, FcvtPlain DEF EmitScalarFp, ScalarFpNames

LEMMA ScalarLinked == \A di, at : Linked(EmitScalar(di, at))
<1>. SUFFICES ASSUME NEW di, NEW at PROVE Linked(EmitScalar(di, at))
  OBVIOUS
<1>1. di.name[1] \in DOMAIN StoreWidth => Linked(EmitScalarStore(di))
  <2>. SUFFICES ASSUME di.name[1] \in DOMAIN StoreWidth PROVE Linked(EmitScalarStore(di))
    OBVIOUS
  <2>1. StoreWidth[di.name[1]] \in { "w", "b", "h" }
    BY DEF StoreWidth
  <2>2. \A s : Linked(<< LdX(R(14), di.rs1), LdX(R(15), di.rs2), L("add.u32", R(16), s) >>)
    <3>1. \A s : Plain(<< LdX(R(14), di.rs1), LdX(R(15), di.rs2), L("add.u32", R(16), s) >>)
      BY Temporaries, QuietLine, QuietMov DEF Plain, Lines
    <3>. QED BY <3>1, PlainLinked
  <2>3. Linked(CutTo(StoreWidth[di.name[1]], R(15)))
    BY <2>1, CutToPlain, PlainLinked
  <2>4. Linked(LeaderStore(StoreWidth[di.name[1]], R(16), R(15)))
    BY <2>1, LeaderStoreLinked
  <2>. QED BY <2>2, <2>3, <2>4, LinkedJoined DEF EmitScalarStore
<1>2. /\ Linked(EmitCsr(di)) /\ Linked(EmitMulhsu(di)) /\ Linked(EmitUpper(di, at)) /\ Linked(EmitSlt(di))
      /\ Linked(EmitJump(di, at)) /\ Linked(FuncReturn) /\ Linked(Unsupported)
  BY CsrPlain, MulhsuPlain, UpperPlain, SltPlain, BranchPlain, CallPlain, UnsupportedPlain, PlainLinked
<1>3. /\ di.name[1] \in DOMAIN LoadWidth => Linked(EmitScalarLoad(di))
      /\ di.name[1] \in DOMAIN AluOp    => Linked(EmitAlu(di))
      /\ di.name[1] \in DOMAIN AluImmOp => Linked(EmitAluImm(di))
      /\ di.name[1] \in DOMAIN ShiftOp  => Linked(EmitShift(di))
      /\ di.name[1] \in DOMAIN DivOp    => Linked(EmitDiv(di))
  BY ScalarLoadPlain, AluPlain, DivPlain, PlainLinked
<1>4. Linked(EmitCallTo(di, at))
  BY CallToLinked
<1>5. { "div", "divu", "rem", "remu" } = DOMAIN DivOp
  BY DEF DivOp
<1>. QED BY <1>1, <1>2, <1>3, <1>4, <1>5 DEF EmitScalar

LEMMA VectorLinked == \A di : Linked(EmitVectorFp(di))
<1>. SUFFICES ASSUME NEW di PROVE Plain(EmitVectorFp(di))
  BY PlainLinked
<1>1. /\ Plain(EmitVecReverse(di)) /\ Plain(EmitVec12(di)) /\ Plain(EmitVecMulhsu(di)) /\ Plain(EmitMerge(di))
      /\ Plain(EmitPrivate(di)) /\ Plain(EmitMaskOp(di)) /\ Plain(Unsupported)
      /\ Plain(EmitVfcvt(di)) /\ Plain(EmitVfclass(di)) /\ Plain(EmitVfsqrt(di))
  BY VecAluPlain, VecMulhsuPlain, VmvPlain, PrivatePlain, MaskOpPlain, UnsupportedPlain, VfcvtPlain, FclassPlain
<1>2. /\ di.name[1] \in DOMAIN VecOp         => Plain(EmitVecAlu(di))
      /\ di.name[1] \in DOMAIN VecShift      => Plain(EmitVecShift(di))
      /\ di.name[1] \in DOMAIN VecDivOp      => Plain(EmitVecDiv(di))
      /\ di.name[1] \in { "vmadd", "vmacc", "vnmsub", "vnmsac" } => Plain(EmitVecMad(di))
      /\ di.name[1] \in DOMAIN VecCmp        => Plain(EmitVecCmp(di))
      /\ di.name[1] \in DOMAIN VecLoadWidth  => Plain(EmitVecLoad(di))
      /\ di.name[1] \in DOMAIN VecStoreWidth => Plain(EmitVecStore(di))
  BY VecAluPlain, VecShiftPlain, VecDivPlain, VecMadPlain, VecCmpPlain, VecMemoryPlain
<1>3. { "vdiv", "vdivu", "vrem", "vremu" } = DOMAIN VecDivOp
  BY DEF VecDivOp
<1>4. Plain(EmitVectorInt(di))
  BY <1>1, <1>2, <1>3 DEF EmitVectorInt
<1>5. /\ di.name[1] \in DOMAIN VecFloatCmp => Plain(EmitVecFloatCmp(di))
      /\ di.name[1] \in DOMAIN VecFloatOp  => Plain(EmitVecFloat(di))
      /\ di.name[1] \in { "vfsgnj", "vfsgnjn", "vfsgnjx" } => Plain(EmitVfsgnj(di))
      /\ di.name[1] \in { "vfmadd", "vfmsub", "vfnmadd", "vfnmsub", "vfmacc", "vfmsac", "vfnmacc", "vfnmsac" }
           => Plain(EmitVecFma(di))
  BY VecFloatPlain, VfsgnjPlain, VecFmaPlain
<1>. QED BY <1>1, <1>4, <1>5 DEF EmitVectorFp

LEMMA EmitLinked == \A di, at : Linked(Emit(di, at))
<1>. SUFFICES ASSUME NEW di, NEW at PROVE Linked(Emit(di, at))
  OBVIOUS
<1>1. Linked(<< >>) /\ Linked(FuncReturn) /\ Linked(<< L("bar.sync", NoReg, << >>) >>)
  BY PlainNone, CallPlain, Temporaries, QuietLine, PlainOne, PlainLinked
<1>2. /\ di.name[1] \in DOMAIN BranchKind => Linked(EmitBranch(di, at))
      /\ Linked(EmitVmvXS(di)) /\ Linked(EmitVmv(di))
  BY BranchPlain, VmvPlain, PlainLinked
<1>. QED BY <1>1, <1>2, ScalarFpLinked, VectorLinked, ScalarLinked DEF Emit

----------------------------------------------------------------------------
(* The code of several instructions: labels carry the number of theirs.    *)
Numbered(s, lo, hi) ==
  /\ Lines(s)
  /\ \A k \in 1 .. Len(s) : s[k].d \notin ContextRegs
  /\ \A k \in 1 .. Len(s) : s[k].op \in { "bra", "label" } => s[k].d[3] \in lo .. hi
  /\ \A k \in 1 .. Len(s) : s[k].op = "bra" => \E j \in 1 .. Len(s) : s[j].op = "label" /\ s[j].d = s[k].d

LEMMA OwnNumbered ==
  ASSUME NEW s, Linked(s), NEW n \in Nat
  PROVE  Numbered(Own(s, n), n, n)
<1>. DEFINE t == Own(s, n)
<1>1. Lines(s) /\ DOMAIN s = 1 .. Len(s) /\ Len(s) \in Nat
  BY DEF Linked, Tame, Lines
<1>2. Lines(t) /\ Len(t) = Len(s)
  BY <1>1 DEF Own, Lines
<1>3. ASSUME NEW k \in 1 .. Len(s), s[k].op \notin { "bra", "label" } PROVE t[k] = s[k]
  BY <1>1, <1>3 DEF Own
<1>4. ASSUME NEW k \in 1 .. Len(s), s[k].op \in { "bra", "label" }
      PROVE  t[k].op = s[k].op /\ t[k].d = Append(s[k].d, n)
  <2>1. IsLine(s[k])
    BY DEF Linked, Tame
  <2>2. t[k] = [s[k] EXCEPT !.d = Append(@, n)]
    BY <1>1, <1>4 DEF Own
  <2>3. "d" \in DOMAIN s[k] /\ "op" \in DOMAIN s[k]
    BY <2>1 DEF IsLine
  <2>. QED BY <2>2, <2>3
<1>5. ASSUME NEW name PROVE /\ Append(<< "label", name >>, n)[3] = n
                            /\ Append(<< "label", name >>, n) \notin ContextRegs
  <2>. DEFINE d == << "label", name >>
              S == { "label", name, n }
  <2>1. d \in Seq(S) /\ Len(d) = 2 /\ n \in S /\ d[1] = "label"
    OBVIOUS
  <2>. HIDE DEF d, S
  <2>2. Append(d, n)[3] = n /\ Append(d, n)[1] = "label"
    <3>1. /\ Append(d, n) \in Seq(S)
          /\ Append(d, n) # << >>
          /\ Len(Append(d, n)) = Len(d) + 1
          /\ \A i \in 1 .. Len(d) : Append(d, n)[i] = d[i]
          /\ Append(d, n)[Len(d) + 1] = n
      <4>1. d \in Seq(S) /\ n \in S
        BY <2>1
      <4>. QED BY <4>1, AppendProperties
    <3>. QED BY <2>1, <3>1
  <2>3. \A a \in ContextRegs : a[1] # "label"
    BY DEF ContextRegs, R, RD
  <2>. QED BY <2>2, <2>3 DEF d
<1>6. \A k \in 1 .. Len(s) : s[k].op \in { "bra", "label" } => \E name : s[k].d = << "label", name >>
  BY DEF Linked, Tame
<1>7. \A k \in 1 .. Len(s) : s[k].d \notin ContextRegs
  BY DEF Linked, Tame
<1>8. \A k \in 1 .. Len(s) : s[k].op = "bra" => \E j \in 1 .. Len(s) : s[j].op = "label" /\ s[j].d = s[k].d
  BY DEF Linked, JumpsOf, LabelsOf, DestsOf
<1>. HIDE DEF t
<1>9. ASSUME NEW k \in 1 .. Len(t) PROVE t[k].op = s[k].op /\ t[k].d \notin ContextRegs
  <2>1. CASE s[k].op \in { "bra", "label" }
    <3>1. PICK name : s[k].d = << "label", name >>
      BY <1>2, <1>6, <2>1
    <3>. QED BY <1>2, <1>4, <1>5, <2>1, <3>1
  <2>2. CASE s[k].op \notin { "bra", "label" }
    BY <1>2, <1>3, <1>7, <2>2
  <2>. QED BY <2>1, <2>2
<1>10. ASSUME NEW k \in 1 .. Len(t), t[k].op \in { "bra", "label" } PROVE t[k].d[3] \in n .. n
  <2>1. s[k].op \in { "bra", "label" } /\ k \in 1 .. Len(s)
    BY <1>2, <1>9, <1>10
  <2>2. PICK name : s[k].d = << "label", name >>
    BY <1>6, <2>1
  <2>3. t[k].d[3] = n
    BY <1>4, <1>5, <2>1, <2>2
  <2>. QED BY <2>3
<1>11. ASSUME NEW k \in 1 .. Len(t), t[k].op = "bra"
       PROVE  \E j \in 1 .. Len(t) : t[j].op = "label" /\ t[j].d = t[k].d
  <2>1. PICK j \in 1 .. Len(s) : s[j].op = "label" /\ s[j].d = s[k].d
    BY <1>2, <1>8, <1>9, <1>11
  <2>2. t[j].op = "label" /\ t[j].d = Append(s[j].d, n) /\ t[k].d = Append(s[k].d, n)
    BY <1>2, <1>4, <1>9, <1>11, <2>1
  <2>. QED BY <1>2, <2>1, <2>2
<1>. QED BY <1>2, <1>9, <1>10, <1>11 DEF Numbered, t

LEMMA EmitAllNumbered ==
  ASSUME NEW insts \in Seq(Insts), NEW m \in Nat
  PROVE  Numbered(EmitAll(insts, m), m + 1, m + Len(insts))
<1>. DEFINE pieces ==
       [n \in DOMAIN insts |-> Own(Emit(DecodeWords(Encode(insts[n])), PcOf(insts, n)), m + n)]
            s == EmitAll(insts, m)
<1>1. DOMAIN insts = 1 .. Len(insts) /\ Len(insts) \in Nat
  OBVIOUS
<1>2. Lines(pieces) /\ Len(pieces) = Len(insts)
  BY <1>1 DEF Lines
<1>3. ASSUME NEW i \in 1 .. Len(pieces) PROVE Numbered(pieces[i], m + i, m + i)
  <2>1. m + i \in Nat /\ i \in DOMAIN insts
    BY <1>1, <1>2
  <2>. QED BY <2>1, EmitLinked, OwnNumbered
<1>4. s = FlattenSeq(pieces)
  BY DEF EmitAll
<1>. HIDE DEF s, pieces
<1>5. Pieced(s, pieces)
  BY <1>2, <1>3, <1>4, FlattenPieced DEF Numbered
<1>6. ASSUME NEW k \in 1 .. Len(s)
      PROVE  /\ s[k].d \notin ContextRegs
             /\ s[k].op \in { "bra", "label" } => s[k].d[3] \in m + 1 .. m + Len(insts)
             /\ s[k].op = "bra" => \E j \in 1 .. Len(s) : s[j].op = "label" /\ s[j].d = s[k].d
  <2>1. PICK i \in 1 .. Len(pieces), base \in Nat :
          /\ k - base \in 1 .. Len(pieces[i])
          /\ \A j \in 1 .. Len(pieces[i]) : base + j \in 1 .. Len(s) /\ s[base + j] = pieces[i][j]
    BY <1>5 DEF Pieced
  <2>2. Len(s) \in Nat
    BY <1>5 DEF Pieced, Lines
  <2>3. s[k] = pieces[i][k - base]
    <3>1. s[base + (k - base)] = pieces[i][k - base] /\ base + (k - base) = k
      BY <2>1, <2>2
    <3>. QED BY <3>1
  <2>4. Numbered(pieces[i], m + i, m + i)
    BY <1>3
  <2>5. s[k].d \notin ContextRegs
    BY <2>1, <2>3, <2>4 DEF Numbered
  <2>6. ASSUME s[k].op \in { "bra", "label" } PROVE s[k].d[3] \in m + 1 .. m + Len(insts)
    <3>1. s[k].d[3] \in m + i .. m + i
      BY <2>1, <2>3, <2>4, <2>6 DEF Numbered
    <3>. QED BY <1>1, <1>2, <3>1
  <2>7. ASSUME s[k].op = "bra" PROVE \E j \in 1 .. Len(s) : s[j].op = "label" /\ s[j].d = s[k].d
    <3>1. PICK j \in 1 .. Len(pieces[i]) : pieces[i][j].op = "label" /\ pieces[i][j].d = s[k].d
      BY SMTT(20), <2>1, <2>3, <2>4, <2>7 DEF Numbered
    <3>2. base + j \in 1 .. Len(s) /\ s[base + j] = pieces[i][j]
      BY <2>1
    <3>. QED BY <3>1, <3>2
  <2>. QED BY <2>5, <2>6, <2>7
<1>. QED BY <1>5, <1>6 DEF Numbered, Pieced, s

(* The entry of the called function, which does write the context.         *)
LEMMA FuncPrologueLines ==
  /\ Lines(FuncPrologue) /\ Len(FuncPrologue) >= 1
  /\ \A k \in 1 .. Len(FuncPrologue) : FuncPrologue[k].op \notin { "call", "ret", "goto", "bra", "label" }
<1>. DEFINE Fits(s) == Lines(s) /\ \A k \in 1 .. Len(s) : s[k].op \notin { "call", "ret", "goto", "bra", "label" }
            a == << Mov(R(0), Special("laneid")), LdParam(RD(0), "runtime_env_in", 0) >>
            b == LoadMachine("machine_ctx_in")
            c == << L("mov.u64", RD(2), << Special("shmem") >>), L("mov.u64", RD(3), << Imm(0) >>) >>
            d == << LdParam(R(2), "mutable_state_in", 0), RefreshLeader >>
            xs == InOrder(XRegs \ { 0 })
            vs == InOrder(VRegs)
            e == [k \in DOMAIN xs |-> LdParam(X(xs[k]), "mutable_state_in", MutableXOffset + xs[k] * 4)]
            f == [k \in DOMAIN vs |-> LdParam(V(vs[k]), "mutable_state_in", MutableVOffset + vs[k] * 4)]
<1>0. \A r, s, o, q : /\ L("mov.u64", r, s).op = "mov.u64" /\ Mov(r, s).op = "mov.u32"
                      /\ LdParam(r, q, o).op = "mov.b32" /\ RefreshLeader.op = "setp.eq.u32"
  BY DEF Mov, LdParam, RefreshLeader, L
<1>1. Fits(a) /\ Fits(c) /\ Fits(d)
  <2>1. \A s, t : s.op \in { "mov.u32", "mov.u64", "mov.b32", "setp.eq.u32" } /\
                   t.op \in { "mov.u32", "mov.u64", "mov.b32", "setp.eq.u32" } => Fits(<< s, t >>)
    BY DEF Lines
  <2>. HIDE DEF Fits
  <2>. QED BY <1>0, <2>1
<1>2. Fits(b) /\ Len(b) = 5
  <2>1. /\ b = [k \in 1 .. 5 |-> b[k]] /\ Len(b) = 5
        /\ \A k \in 1 .. 5 : b[k] = LdParam(R(MachineRegs[k]), "machine_ctx_in", 4 * (k - 1))
    BY DEF LoadMachine
  <2>. HIDE DEF b
  <2>. QED BY <1>0, <2>1 DEF Lines
<1>3. Fits(e) /\ Fits(f)
  <2>1. IsFiniteSet(XRegs \ { 0 }) /\ IsFiniteSet(VRegs)
    BY RegsAssumption, FS_Subset
  <2>2. PICK n \in Nat : DOMAIN xs = 1 .. n
    BY <2>1, InOrderLines
  <2>3. PICK m \in Nat : DOMAIN vs = 1 .. m
    BY <2>1, InOrderLines
  <2>. HIDE DEF xs, vs
  <2>4. Fits(e)
    <3>1. /\ e = [k \in 1 .. n |-> e[k]] /\ Len(e) = n
          /\ \A k \in 1 .. n : e[k] = LdParam(X(xs[k]), "mutable_state_in", MutableXOffset + xs[k] * 4)
      BY <2>2
    <3>. HIDE DEF e
    <3>. QED BY <1>0, <3>1 DEF Lines
  <2>5. Fits(f)
    <3>1. /\ f = [k \in 1 .. m |-> f[k]] /\ Len(f) = m
          /\ \A k \in 1 .. m : f[k] = LdParam(V(vs[k]), "mutable_state_in", MutableVOffset + vs[k] * 4)
      BY <2>3
    <3>. HIDE DEF f
    <3>. QED BY <1>0, <3>1 DEF Lines
  <2>. QED BY <2>4, <2>5
<1>4. ASSUME NEW s, NEW t, Fits(s), Fits(t) PROVE Fits(s \o t) /\ Len(s \o t) = Len(s) + Len(t)
  <2>1. /\ Lines(s \o t) /\ Len(s \o t) = Len(s) + Len(t)
        /\ \A k \in 1 .. Len(s \o t) :
             \/ k \in 1 .. Len(s) /\ (s \o t)[k] = s[k]
             \/ \E j \in 1 .. Len(t) : k = Len(s) + j /\ (s \o t)[k] = t[j]
    <3>1. Lines(s) /\ Lines(t)
      BY <1>4
    <3>. QED BY <3>1, LinesJoined
  <2>. QED BY <1>4, <2>1
<1>5. FuncPrologue = a \o b \o c \o (d \o e \o f) /\ Len(a) = 2
  BY DEF FuncPrologue, RestoreMutable
<1>6. \A s : Fits(s) => Len(s) \in Nat
  BY DEF Lines
<1>. HIDE DEF Fits, a, b, c, d, e, f
<1>7. Fits(d \o e \o f)
  BY <1>1, <1>3, <1>4
<1>8. Fits(a \o b) /\ Len(a \o b) = 2 + Len(b)
  BY <1>1, <1>2, <1>4, <1>5
<1>9. Fits(a \o b \o c) /\ Len(a \o b \o c) = 2 + Len(b) + Len(c)
  BY <1>1, <1>4, <1>8
<1>10. Fits(FuncPrologue) /\ Len(FuncPrologue) = 2 + Len(b) + Len(c) + Len(d \o e \o f)
  BY <1>4, <1>5, <1>7, <1>9
<1>11. Len(FuncPrologue) >= 1
  BY <1>1, <1>2, <1>6, <1>7, <1>10
<1>. QED BY <1>10, <1>11 DEF Fits

----------------------------------------------------------------------------
(* The code of a program: what is called, which ends in its return; from   *)
(* First on the program, which leaves the context alone.                   *)
Laid(c) ==
  /\ Lines(c) /\ First \in 2 .. Len(c)
  /\ c[First - 1].op = "ret"
  /\ \A k \in 1 .. First - 1 : c[k].op \notin { "call", "goto" }
  /\ \A k \in First .. Len(c) - 1 : c[k].op # "ret"
  /\ \A k \in First .. Len(c) : c[k].d \notin ContextRegs
  /\ \A k \in 1 .. Len(c) : c[k].op = "bra" => \E j \in 1 .. Len(c) : c[j].op = "label" /\ c[j].d = c[k].d
  /\ \A k \in 1 .. Len(c), j \in 1 .. Len(c) :
       c[k].op = "bra" /\ c[j].op = "label" /\ c[j].d = c[k].d => (k < First <=> j < First)

LEMMA CodeLaid ==
  ASSUME NEW p \in Progs, p.kind # "entry"
  PROVE  Laid(CodeOf(p))
<1>. DEFINE f == FuncPrologue
            q == Len(Callee)
            a == EmitAll(Callee, 0)
            b == EmitAll(p.insts, q)
            n == Len(p.insts)
            s == f \o a
            t == s \o b
            c == t \o Exit
<1>1. Callee \in Seq(Insts) /\ q \in Nat /\ p.insts \in Seq(Insts) /\ n \in Nat
  BY CallsAssumption, ProgsAssumption
<1>2. Numbered(a, 1, q)
  <2>1. Numbered(EmitAll(Callee, 0), 0 + 1, 0 + Len(Callee))
    BY <1>1, EmitAllNumbered
  <2>2. 0 + 1 = 1 /\ 0 + Len(Callee) = q
    BY <1>1
  <2>. QED BY <2>1, <2>2
<1>3. Numbered(b, q + 1, q + n)
  BY <1>1, EmitAllNumbered
<1>4. Lines(f) /\ Lines(a) /\ Lines(b) /\ Lines(Exit)
  BY <1>2, <1>3, FuncPrologueLines DEF Numbered, Exit, Lines
<1>5. /\ Len(Exit) = 1 /\ Exit[1].op = "exit" /\ Exit[1].d \notin ContextRegs
  BY Temporaries DEF Exit, L
<1>6. \A k \in 1 .. Len(a) : a[k].op \notin { "call", "goto" }
  BY <1>4, CallsAssumption DEF Lines
<1>7. \A k \in 1 .. Len(b) : b[k].op # "ret"
  BY <1>4, CallsAssumption DEF Lines
<1>8. Called = s /\ CodeOf(p) = c /\ First = Len(s) + 1 /\ s[Len(s)].op = "ret"
  BY CallsAssumption DEF Called, CodeOf, First
<1>. HIDE DEF a, b, f, n, q
<1>9. /\ Len(f) \in Nat /\ Len(a) \in Nat /\ Len(b) \in Nat /\ Len(f) >= 1
      /\ \A k \in 1 .. Len(f) : f[k].op \notin { "call", "ret", "goto", "bra", "label" }
  BY <1>4, FuncPrologueLines DEF Lines, f
<1>10. /\ Lines(s)
       /\ Len(s) = Len(f) + Len(a)
       /\ \A k \in 1 .. Len(f) : s[k] = f[k]
       /\ \A k \in 1 .. Len(a) : s[Len(f) + k] = a[k]
       /\ \A k \in 1 .. Len(s) :
            \/ k \in 1 .. Len(f) /\ s[k] = f[k]
            \/ \E j \in 1 .. Len(a) : k = Len(f) + j /\ s[k] = a[j]
  BY <1>4, LinesJoined
<1>. HIDE DEF s
<1>10b. Lines(s) /\ Lines(b)
  BY <1>4, <1>10
<1>11. /\ Lines(t)
       /\ Len(t) = Len(s) + Len(b)
       /\ \A k \in 1 .. Len(s) : t[k] = s[k]
       /\ \A k \in 1 .. Len(b) : t[Len(s) + k] = b[k]
       /\ \A k \in 1 .. Len(t) :
            \/ k \in 1 .. Len(s) /\ t[k] = s[k]
            \/ \E j \in 1 .. Len(b) : k = Len(s) + j /\ t[k] = b[j]
  BY <1>10b, LinesJoined
<1>. HIDE DEF t
<1>te. Lines(t) /\ Lines(Exit)
  BY <1>4, <1>11
<1>12. /\ Lines(c)
       /\ Len(c) = Len(t) + Len(Exit)
       /\ \A k \in 1 .. Len(t) : c[k] = t[k]
       /\ \A k \in 1 .. Len(Exit) : c[Len(t) + k] = Exit[k]
       /\ \A k \in 1 .. Len(c) :
            \/ k \in 1 .. Len(t) /\ c[k] = t[k]
            \/ \E j \in 1 .. Len(Exit) : k = Len(t) + j /\ c[k] = Exit[j]
  BY <1>te, LinesJoined
<1>. HIDE DEF c
<1>13. /\ Len(s) \in Nat /\ Len(s) >= 1 /\ Len(c) = Len(s) + Len(b) + 1
       /\ First = Len(s) + 1 /\ First \in 2 .. Len(c)
  BY <1>5, <1>8, <1>9, <1>10, <1>11, <1>12
<1>14. ASSUME NEW k \in 1 .. First - 1
       PROVE  \/ k \in 1 .. Len(f) /\ c[k] = f[k]
              \/ \E j \in 1 .. Len(a) : k = Len(f) + j /\ c[k] = a[j]
  <2>1. k \in 1 .. Len(s) /\ k \in 1 .. Len(t)
    BY <1>9, <1>11, <1>13
  <2>2. c[k] = s[k]
    BY <1>11, <1>12, <2>1
  <2>. QED BY <1>10, <2>1, <2>2
<1>15. ASSUME NEW k \in First .. Len(c)
       PROVE  \/ k = Len(c) /\ c[k] = Exit[1]
              \/ k \in First .. Len(c) - 1 /\ \E j \in 1 .. Len(b) : c[k] = b[j]
  <2>0. k \in 1 .. Len(c) /\ k > Len(s)
    BY <1>13
  <2>1. CASE k \in 1 .. Len(t) /\ c[k] = t[k]
    <3>1. PICK j \in 1 .. Len(b) : k = Len(s) + j /\ t[k] = b[j]
      BY <1>11, <2>0, <2>1
    <3>2. k \in First .. Len(c) - 1
      BY <1>9, <1>13, <3>1
    <3>. QED BY <2>1, <3>1, <3>2
  <2>2. CASE \E j \in 1 .. Len(Exit) : k = Len(t) + j /\ c[k] = Exit[j]
    <3>1. c[k] = Exit[1] /\ k = Len(t) + 1
      BY <1>5, <2>2
    <3>2. k = Len(c)
      BY <1>5, <1>12, <3>1
    <3>. QED BY <3>1, <3>2
  <2>. QED BY <1>12, <2>0, <2>1, <2>2
<1>16. \A k \in 1 .. Len(b) : Len(s) + k \in First .. Len(c) /\ c[Len(s) + k] = b[k]
  <2>. SUFFICES ASSUME NEW k \in 1 .. Len(b) PROVE Len(s) + k \in First .. Len(c) /\ c[Len(s) + k] = b[k]
    OBVIOUS
  <2>1. Len(s) + k \in First .. Len(c) /\ Len(s) + k \in 1 .. Len(t)
    BY <1>9, <1>11, <1>13
  <2>. QED BY <1>11, <1>12, <2>1
<1>17. \A k \in 1 .. Len(a) : Len(f) + k \in 1 .. First - 1 /\ c[Len(f) + k] = a[k]
  <2>. SUFFICES ASSUME NEW k \in 1 .. Len(a) PROVE Len(f) + k \in 1 .. First - 1 /\ c[Len(f) + k] = a[k]
    OBVIOUS
  <2>1. Len(f) + k \in 1 .. First - 1 /\ Len(f) + k \in 1 .. Len(s) /\ Len(f) + k \in 1 .. Len(t)
    BY <1>9, <1>10, <1>11, <1>13
  <2>. QED BY <1>10, <1>11, <1>12, <2>1
<1>18. c[First - 1].op = "ret"
  <2>1. Len(s) \in 1 .. Len(s) /\ Len(s) \in 1 .. Len(t) /\ First - 1 = Len(s)
    BY <1>9, <1>11, <1>13
  <2>. QED BY <1>8, <1>11, <1>12, <2>1
<1>19. \A k \in 1 .. First - 1 : c[k].op \notin { "call", "goto" }
  BY <1>6, <1>9, <1>14
<1>20. \A k \in First .. Len(c) - 1 : c[k].op # "ret"
  <2>1. \A k \in First .. Len(c) - 1 : k \in First .. Len(c) /\ k # Len(c)
    BY <1>13, <1>9
  <2>. QED BY <1>7, <1>15, <2>1
<1>21. \A k \in First .. Len(c) : c[k].d \notin ContextRegs
  BY <1>3, <1>5, <1>15 DEF Numbered
<1>22. ASSUME NEW k \in 1 .. Len(c), c[k].op \in { "bra", "label" }
       PROVE  \/ k < First /\ \E j \in 1 .. Len(a) : c[k] = a[j] /\ a[j].d[3] \in 1 .. q
              \/ k >= First /\ \E j \in 1 .. Len(b) : c[k] = b[j] /\ b[j].d[3] \in q + 1 .. q + n
  <2>1. CASE k < First
    <3>1. k \in 1 .. First - 1
      BY <1>13, <2>1
    <3>2. PICK j \in 1 .. Len(a) : c[k] = a[j]
      BY <1>9, <1>14, <1>22, <3>1
    <3>. QED BY <1>2, <1>22, <2>1, <3>2 DEF Numbered
  <2>2. CASE k >= First
    <3>1. k \in First .. Len(c)
      BY <1>13, <2>2
    <3>2. PICK j \in 1 .. Len(b) : c[k] = b[j]
      BY <1>5, <1>15, <1>22, <3>1
    <3>. QED BY <1>3, <1>22, <2>2, <3>2 DEF Numbered
  <2>. QED BY <1>13, <2>1, <2>2
<1>23. ASSUME NEW k \in 1 .. Len(c), c[k].op = "bra"
       PROVE  \E j \in 1 .. Len(c) : c[j].op = "label" /\ c[j].d = c[k].d
  <2>1. CASE \E i \in 1 .. Len(a) : c[k] = a[i]
    <3>1. PICK j \in 1 .. Len(a) : a[j].op = "label" /\ a[j].d = c[k].d
      BY <1>2, <1>23, <2>1 DEF Numbered
    <3>2. Len(f) + j \in 1 .. Len(c) /\ c[Len(f) + j] = a[j]
      <4>1. Len(f) + j \in 1 .. First - 1 /\ c[Len(f) + j] = a[j]
        BY <1>17
      <4>. QED BY <4>1, <1>13
    <3>. QED BY <3>1, <3>2
  <2>2. CASE \E i \in 1 .. Len(b) : c[k] = b[i]
    <3>1. PICK j \in 1 .. Len(b) : b[j].op = "label" /\ b[j].d = c[k].d
      BY <1>3, <1>23, <2>2 DEF Numbered
    <3>2. Len(s) + j \in 1 .. Len(c) /\ c[Len(s) + j] = b[j]
      <4>1. Len(s) + j \in First .. Len(c) /\ c[Len(s) + j] = b[j]
        BY <1>16
      <4>. QED BY <4>1, <1>13
    <3>. QED BY <3>1, <3>2
  <2>. QED BY <1>22, <1>23, <2>1, <2>2
<1>24. ASSUME NEW k \in 1 .. Len(c), NEW j \in 1 .. Len(c),
              c[k].op = "bra", c[j].op = "label", c[j].d = c[k].d
       PROVE  k < First <=> j < First
  <2>1. \/ k < First /\ c[k].d[3] \in 1 .. q
        \/ k >= First /\ c[k].d[3] \in q + 1 .. q + n
    BY <1>22, <1>24
  <2>2. \/ j < First /\ c[j].d[3] \in 1 .. q
        \/ j >= First /\ c[j].d[3] \in q + 1 .. q + n
    BY <1>22, <1>24
  <2>3. c[j].d[3] = c[k].d[3]
    BY <1>24
  <2>4. q \in Nat /\ n \in Nat
    BY <1>1 DEF q, n
  <2>. QED BY SMTT(20), <1>13, <2>1, <2>2, <2>3, <2>4
<1>25. /\ \A k \in 1 .. Len(c) : c[k].op = "bra" => \E j \in 1 .. Len(c) : c[j].op = "label" /\ c[j].d = c[k].d
       /\ \A k \in 1 .. Len(c), j \in 1 .. Len(c) :
            c[k].op = "bra" /\ c[j].op = "label" /\ c[j].d = c[k].d => (k < First <=> j < First)
  BY <1>23, <1>24
<1>26. Lines(c) /\ First \in 2 .. Len(c)
  BY <1>12, <1>13
<1>27. Laid(c)
  BY <1>18, <1>19, <1>20, <1>21, <1>25, <1>26 DEF Laid
<1>28. CodeOf(p) = c
  BY <1>8
<1>. QED BY <1>27, <1>28

----------------------------------------------------------------------------
(* What holds of every state: a lane of the program has its context, and   *)
(* one in what is called has left it with the caller.                      *)
Holds(s, c) == \A a \in ContextRegs : a \in DOMAIN s /\ s[a] = c[a]

LaneOK(l) ==
  /\ pc[l] \in 1 .. Len(code)
  /\ pc[l] >= First => Holds(regs[l], Context(l))
  /\ pc[l] < First => caller[l][1] \in First .. Len(code) - 1 /\ Holds(caller[l][2], Context(l))

Together ==
  /\ \A l \in active : now <= pc[l]
  /\ active # {} => \E l \in active : pc[l] = now

GridOK == prog \in Progs /\ Kind # "entry" /\ code = CodeOf(prog) /\ active \subseteq LaneIds

IInv == Kind # "entry" => GridOK /\ Together /\ \A l \in active : LaneOK(l)

(* The lanes move on, and the first place of all is the next.              *)
Least == now' = Min({ pc'[l] : l \in active })

LEMMA LeastIsFirst ==
  ASSUME NEW S, S \subseteq Nat, S # {}
  PROVE  Min(S) \in S /\ \A y \in S : Min(S) <= y
<1>. DEFINE below == OpToRel(<, Nat)
<1>1. PICK x \in S : \A y \in S : << y, x >> \notin below
  BY NatLessThanWellFounded, WFMin
<1>2. \A y \in S : ~(y < x)
  BY <1>1 DEF OpToRel
<1>3. \A y \in S : x =< y
  BY <1>2
<1>. QED BY <1>3 DEF Min

LEMMA UpdatedHolds ==
  ASSUME NEW s, NEW f, NEW c, Holds(s, c), \A a \in DOMAIN f : a \notin ContextRegs
  PROVE  Holds(Updated(s, f), c)
BY DEF Holds, Updated

LEMMA GridKept ==
  ASSUME UNCHANGED grid
  PROVE  active' = active /\ code' = code /\ prog' = prog /\ Kind' = Kind /\ \A l : Context(l)' = Context(l)
<1>1. prog' = prog /\ code' = code /\ input' = input /\ active' = active
  BY DEF grid
<1>2. Kind' = Kind
  BY <1>1 DEF Kind
<1>3. Launch' = Launch /\ Warp' = Warp
  BY <1>1, <1>2 DEF Launch, Warp
<1>4. Shape' = Shape
  BY <1>3 DEF Shape
<1>5. \A l : Context(l)' = Context(l)
  BY <1>3, <1>4 DEF Context
<1>. QED BY <1>1, <1>2, <1>5

LEMMA CodeOK == ASSUME GridOK PROVE Laid(code)
BY CodeLaid DEF GridOK, Kind

(* A line is read at a place of the code that is not its end.              *)
LEMMA LineThere ==
  ASSUME GridOK, Together, \A l \in active : LaneOK(l), ~Over, active # {}
  PROVE  now \in 1 .. Len(code) - 1
<1>1. PICK l \in active : pc[l] = now
  BY DEF Together
<1>2. now \in 1 .. Len(code) /\ now # Len(code)
  BY <1>1 DEF LaneOK, Over, End
<1>3. Len(code) \in Nat
  BY CodeOK DEF Laid, Lines
<1>. QED BY <1>2, <1>3

(* The lanes are well placed when they were and the first is the next.     *)
LEMMA NextPlaces ==
  ASSUME GridOK, UNCHANGED grid, Least, \A l \in active : LaneOK(l)'
  PROVE  IInv'
<1>1. /\ active' = active /\ code' = code /\ prog' = prog /\ Kind' = Kind
  BY GridKept
<1>2. GridOK'
  BY <1>1 DEF GridOK
<1>3. Together'
  <2>. DEFINE S == { pc'[l] : l \in active }
  <2>1. CASE active = {}
    BY <1>1, <2>1 DEF Together
  <2>2. CASE active # {}
    <3>1. S \subseteq Nat /\ S # {}
      BY <1>1, <2>2 DEF LaneOK
    <3>2. Min(S) \in S /\ \A y \in S : Min(S) <= y
      BY <3>1, LeastIsFirst
    <3>. QED BY <1>1, <3>2 DEF Together, Least
  <2>. QED BY <2>1, <2>2
<1>. QED BY <1>1, <1>2, <1>3 DEF IInv

----------------------------------------------------------------------------
(* Steps.  Steady: the state before one, which is not the end.             *)
Steady ==
  GridOK /\ Together /\ (\A l \in active : LaneOK(l)) /\ ~Over

(* A lane stays where it is or goes to a line of the same function.        *)
Moves(l) ==
  \/ pc'[l] = pc[l]
  \/ pc[l] = now /\ pc'[l] \in 1 .. Len(code) /\ (pc'[l] >= First <=> now >= First)

(* Its registers hold the context still.                                   *)
Keeps(l) ==
  pc[l] >= First /\ Holds(regs[l], Context(l)) => Holds(regs'[l], Context(l))

LEMMA StepWithin ==
  ASSUME Steady, UNCHANGED << grid, caller >>, Least, \A l \in active : Moves(l) /\ Keeps(l)
  PROVE  IInv'
<1>1. GridOK /\ UNCHANGED grid /\ Least /\ caller' = caller
  BY DEF Steady
<1>2. /\ active' = active /\ code' = code /\ \A l : Context(l)' = Context(l)
  BY <1>1, GridKept
<1>3. ASSUME NEW l \in active PROVE LaneOK(l)'
  <2>1. LaneOK(l) /\ Moves(l) /\ Keeps(l)
    BY DEF Steady
  <2>2. Context(l)' = Context(l)
    BY <1>2
  <2>3. First \in Nat /\ Len(code) \in Nat
    BY <1>1, CodeOK DEF Laid, Lines
  <2>4. pc'[l] \in 1 .. Len(code) /\ (pc'[l] >= First <=> pc[l] >= First)
    BY <2>1 DEF LaneOK, Moves
  <2>5. pc[l] \in Nat /\ pc'[l] \in Nat
    BY <2>1, <2>3, <2>4 DEF LaneOK
  <2>6. pc'[l] >= First => Holds(regs'[l], Context(l))
    BY <2>1, <2>4 DEF LaneOK, Keeps
  <2>7. pc'[l] < First => caller[l][1] \in First .. Len(code) - 1 /\ Holds(caller[l][2], Context(l))
    BY <2>1, <2>3, <2>4, <2>5 DEF LaneOK
  <2>. QED BY <1>1, <1>2, <2>2, <2>4, <2>6, <2>7 DEF LaneOK
<1>4. \A l \in active : LaneOK(l)'
  BY <1>3
<1>. QED BY <1>1, <1>4, NextPlaces

(* The next line is of the same function but after a return.               *)
LEMMA NextLine ==
  ASSUME Steady, active # {}, Line.op # "ret"
  PROVE  now + 1 \in 1 .. Len(code) /\ (now + 1 >= First <=> now >= First)
<1>1. now \in 1 .. Len(code) - 1
  BY LineThere DEF Steady
<1>2. First \in 2 .. Len(code) /\ Len(code) \in Nat /\ code[First - 1].op = "ret"
  BY CodeOK DEF Steady, Laid, Lines
<1>3. now # First - 1
  BY <1>2 DEF Line
<1>. QED BY <1>1, <1>2, <1>3

LEMMA LanesAreIds == ASSUME Steady, NEW l \in active PROVE l \in LaneIds
BY DEF Steady, GridOK

LEMMA GoOnMoves ==
  ASSUME Steady, GoOn, Line.op # "ret"
  PROVE  Least /\ \A l \in active : Moves(l)
<1>1. Least
  BY DEF GoOn, Least
<1>2. ASSUME NEW l \in active PROVE Moves(l)
  <2>1. now + 1 \in 1 .. Len(code) /\ (now + 1 >= First <=> now >= First)
    BY NextLine
  <2>2. pc'[l] = IF pc[l] = now THEN now + 1 ELSE pc[l]
    BY LanesAreIds DEF GoOn
  <2>. QED BY <2>1, <2>2 DEF Moves
<1>. QED BY <1>1, <1>2

LEMMA GoToMoves ==
  ASSUME Steady, NEW n, GoTo(n), Line.op # "ret",
         active # {} => n \in 1 .. Len(code) /\ (n >= First <=> now >= First)
  PROVE  Least /\ \A l \in active : Moves(l)
<1>1. Least
  BY DEF GoTo, Least
<1>2. ASSUME NEW l \in active PROVE Moves(l)
  <2>1. now + 1 \in 1 .. Len(code) /\ (now + 1 >= First <=> now >= First)
    BY NextLine
  <2>2. pc'[l] = IF l \in Doing THEN n ELSE IF pc[l] = now THEN now + 1 ELSE pc[l]
    BY LanesAreIds DEF GoTo
  <2>3. l \in Doing => pc[l] = now
    BY DEF Doing, Group
  <2>. QED BY <2>1, <2>2, <2>3 DEF Moves
<1>. QED BY <1>1, <1>2

(* What the program writes is not the context.                             *)
LEMMA WriteKeeps ==
  ASSUME Steady, NEW val, Write(val), DOMAIN val = Doing
  PROVE  \A l \in active : Keeps(l)
<1>. SUFFICES ASSUME NEW l \in active, pc[l] >= First, Holds(regs[l], Context(l))
              PROVE  Holds(regs'[l], Context(l))
  BY DEF Keeps
<1>1. regs'[l] = IF l \in Doing THEN Updated(regs[l], [a \in { Line.d } |-> val[l]]) ELSE regs[l]
  BY LanesAreIds DEF Write
<1>2. CASE l \in Doing
  <2>1. now \in First .. Len(code)
    <3>1. pc[l] = now
      BY <1>2 DEF Doing, Group
    <3>2. pc[l] \in 1 .. Len(code)
      BY DEF Steady, LaneOK
    <3>3. First \in Nat /\ Len(code) \in Nat
      BY CodeOK DEF Steady, Laid, Lines
    <3>. QED BY <3>1, <3>2, <3>3
  <2>2. Line.d \notin ContextRegs
    BY <2>1, CodeOK DEF Steady, Laid, Line
  <2>3. \A a \in DOMAIN [a \in { Line.d } |-> val[l]] : a \notin ContextRegs
    BY <2>2
  <2>4. Holds(Updated(regs[l], [a \in { Line.d } |-> val[l]]), Context(l))
    BY <2>3, UpdatedHolds
  <2>. QED BY <1>1, <1>2, <2>4
<1>3. CASE l \notin Doing
  BY <1>1, <1>3
<1>. QED BY <1>2, <1>3

LEMMA ComputedWithin ==
  ASSUME Steady, NEW val, Computed(val), DOMAIN val = Doing, Line.op # "ret"
  PROVE  IInv'
<1>1. GoOn /\ Write(val) /\ UNCHANGED << grid, caller >>
  BY DEF Computed
<1>2. \A l \in active : Keeps(l)
  BY <1>1, WriteKeeps
<1>3. Least /\ \A l \in active : Moves(l)
  BY <1>1, GoOnMoves
<1>. QED BY <1>1, <1>2, <1>3, StepWithin

LEMMA SameRegsKeep ==
  ASSUME regs' = regs
  PROVE  \A l \in active : Keeps(l)
BY DEF Keeps

----------------------------------------------------------------------------
(* Every step.                                                             *)
LEMMA AccessOps == "ret" \notin LoadOps /\ "ret" \notin StoreOps
BY DEF LoadOps, StoreOps, Loading, Storing, Accesses, Bytes, LdOp, StOp

LEMMA BranchWithin == ASSUME Steady, Branch PROVE IInv'
<1>. DEFINE at == CHOOSE n \in DOMAIN code : code[n].op = "label" /\ code[n].d = Line.d
<1>1. GoTo(at) /\ Line.op = "bra" /\ UNCHANGED << grid, caller >> /\ regs' = regs
  BY DEF Branch, NothingBut, At
<1>2. ASSUME active # {} PROVE at \in 1 .. Len(code) /\ (at >= First <=> now >= First)
  <2>1. now \in 1 .. Len(code) - 1
    BY <1>2, LineThere DEF Steady
  <2>2. Laid(code)
    BY CodeOK DEF Steady
  <2>3. DOMAIN code = 1 .. Len(code) /\ Len(code) \in Nat /\ First \in Nat
    BY <2>2 DEF Laid, Lines
  <2>4. now \in 1 .. Len(code) /\ code[now].op = "bra" /\ Line = code[now]
    BY <1>1, <2>1, <2>3 DEF Line
  <2>5. \E j \in 1 .. Len(code) : code[j].op = "label" /\ code[j].d = code[now].d
    BY <2>2, <2>4 DEF Laid
  <2>6. at \in 1 .. Len(code) /\ code[at].op = "label" /\ code[at].d = code[now].d
    BY <2>3, <2>4, <2>5
  <2>7. now < First <=> at < First
    BY <2>2, <2>4, <2>6 DEF Laid
  <2>. QED BY <2>1, <2>3, <2>6, <2>7
<1>. HIDE DEF at
<1>3. Least /\ \A l \in active : Moves(l)
  BY <1>1, <1>2, GoToMoves
<1>. QED BY <1>1, <1>3, SameRegsKeep, StepWithin

LEMMA LeaveBlockWithin == ASSUME Steady, LeaveBlock PROVE IInv'
<1>. DEFINE val == [l \in Doing |-> Line.s[1][2]]
<1>1. GoTo(End) /\ Line.op = "goto" /\ UNCHANGED << grid, caller >> /\ Write(val) /\ DOMAIN val = Doing
  BY DEF LeaveBlock, At
<1>. HIDE DEF val
<1>2. ASSUME active # {} PROVE End \in 1 .. Len(code) /\ (End >= First <=> now >= First)
  <2>1. now \in 1 .. Len(code) - 1
    BY <1>2, LineThere DEF Steady
  <2>2. Laid(code)
    BY CodeOK DEF Steady
  <2>3. First \in 2 .. Len(code) /\ Len(code) \in Nat
    BY <2>2 DEF Laid, Lines
  <2>4. now >= First
    <3>1. now \notin 1 .. First - 1
      BY <1>1, <2>2 DEF Laid, Line
    <3>. QED BY <2>1, <2>3, <3>1
  <2>. QED BY <2>3, <2>4 DEF End
<1>3. Least /\ \A l \in active : Moves(l)
  BY <1>1, <1>2, GoToMoves
<1>4. \A l \in active : Keeps(l)
  BY <1>1, WriteKeeps
<1>. QED BY <1>1, <1>3, <1>4, StepWithin

LEMMA AcquireWithin == ASSUME Steady, AcquirePool PROVE IInv'
<1>1. /\ GoOn /\ Line.op # "ret" /\ UNCHANGED << grid, caller >>
      /\ regs' = [l \in LaneIds |-> IF l \in Doing THEN Updated(regs[l], [a \in AcquireScratch |-> Undef]) ELSE regs[l]]
  BY DEF AcquirePool, At
<1>2. \A a \in AcquireScratch : a \notin ContextRegs
  <2>1. \A i \in 18 .. 25 : R(i) \notin ContextRegs
    BY Temporaries
  <2>2. \A i \in 6 .. 8 : P(i) \notin ContextRegs
    BY Temporaries
  <2>3. \A a \in { R(15), R(16) } \cup { RD(15), RD(16), RD(18) } : a \notin ContextRegs
    BY Temporaries
  <2>. QED BY <2>1, <2>2, <2>3 DEF AcquireScratch
<1>3. ASSUME NEW l \in active PROVE Keeps(l)
  <2>. SUFFICES ASSUME Holds(regs[l], Context(l)) PROVE Holds(regs'[l], Context(l))
    BY DEF Keeps
  <2>. DEFINE f == [a \in AcquireScratch |-> Undef]
  <2>1. regs'[l] = IF l \in Doing THEN Updated(regs[l], f) ELSE regs[l]
    BY <1>1, LanesAreIds
  <2>2. \A a \in DOMAIN f : a \notin ContextRegs
    BY <1>2
  <2>3. Holds(Updated(regs[l], f), Context(l))
    BY <2>2, UpdatedHolds
  <2>. QED BY <2>1, <2>3
<1>4. Least /\ \A l \in active : Moves(l)
  BY <1>1, GoOnMoves
<1>. QED BY <1>1, <1>3, <1>4, StepWithin

LEMMA CallWithin == ASSUME Steady, CallLine PROVE IInv'
<1>1. /\ GoTo(1) /\ Line.op = "call" /\ UNCHANGED grid
      /\ caller' = [l \in LaneIds |-> IF l \in Doing THEN << now, regs[l] >> ELSE caller[l]]
  BY DEF CallLine, At
<1>2. Least
  BY <1>1 DEF GoTo, Least
<1>3. /\ active' = active /\ code' = code /\ \A l : Context(l)' = Context(l)
  BY <1>1, GridKept
<1>4. ASSUME NEW l \in active PROVE LaneOK(l)'
  <2>1. LaneOK(l) /\ l \in LaneIds /\ active # {}
    BY LanesAreIds DEF Steady
  <2>2. Laid(code)
    BY CodeOK DEF Steady
  <2>3. First \in 2 .. Len(code) /\ Len(code) \in Nat
    BY <2>2 DEF Laid, Lines
  <2>4. now \in First .. Len(code) - 1
    <3>1. now \in 1 .. Len(code) - 1
      BY <2>1, LineThere DEF Steady
    <3>2. now \notin 1 .. First - 1
      BY <1>1, <2>2 DEF Laid, Line
    <3>. QED BY <2>3, <3>1, <3>2
  <2>5. l \in Doing => pc[l] = now
    BY DEF Doing, Group
  <2>6. pc'[l] = IF l \in Doing THEN 1 ELSE IF pc[l] = now THEN now + 1 ELSE pc[l]
    BY <1>1, <2>1 DEF GoTo
  <2>7. caller'[l] = IF l \in Doing THEN << now, regs[l] >> ELSE caller[l]
    BY <1>1, <2>1
  <2>8. CASE l \in Doing
    <3>1. Holds(regs[l], Context(l))
      BY <2>1, <2>3, <2>4, <2>5, <2>8 DEF LaneOK
    <3>2. pc'[l] = 1 /\ caller'[l][1] = now /\ caller'[l][2] = regs[l]
      BY <2>6, <2>7, <2>8
    <3>3. pc'[l] \in 1 .. Len(code) /\ ~(pc'[l] >= First)
      BY <2>3, <3>2
    <3>. QED BY <1>3, <2>4, <3>1, <3>2, <3>3 DEF LaneOK
  <2>9. CASE l \notin Doing
    <3>1. pc'[l] \in 1 .. Len(code) /\ (pc'[l] >= First <=> pc[l] >= First) /\ (pc'[l] < First <=> pc[l] < First)
      BY <2>1, <2>3, <2>4, <2>6, <2>9 DEF LaneOK
    <3>2. regs'[l] = regs[l] /\ caller'[l] = caller[l]
      BY <2>1, <2>7, <2>9 DEF CallLine
    <3>. QED BY <1>3, <2>1, <3>1, <3>2 DEF LaneOK
  <2>. QED BY <2>8, <2>9
<1>5. GridOK
  BY DEF Steady
<1>. QED BY <1>1, <1>2, <1>4, <1>5, NextPlaces

LEMMA ReturnWithin == ASSUME Steady, Return PROVE IInv'
<1>1. /\ Line.op = "ret" /\ UNCHANGED grid /\ Least
      /\ pc' = [l \in LaneIds |-> IF l \in Doing THEN caller[l][1] + 1 ELSE pc[l]]
      /\ caller' = [l \in LaneIds |-> IF l \in Doing THEN << >> ELSE caller[l]]
  BY DEF Return, At, Least
<1>3. /\ active' = active /\ code' = code /\ \A l : Context(l)' = Context(l)
  BY <1>1, GridKept
<1>4. ASSUME NEW l \in active PROVE LaneOK(l)'
  <2>1. LaneOK(l) /\ l \in LaneIds /\ active # {}
    BY LanesAreIds DEF Steady
  <2>2. Laid(code)
    BY CodeOK DEF Steady
  <2>3. First \in 2 .. Len(code) /\ Len(code) \in Nat
    BY <2>2 DEF Laid, Lines
  <2>4. now \in 1 .. First - 1
    <3>1. now \in 1 .. Len(code) - 1
      BY <2>1, LineThere DEF Steady
    <3>2. now \notin First .. Len(code) - 1
      BY <1>1, <2>2 DEF Laid, Line
    <3>. QED BY <2>3, <3>1, <3>2
  <2>5. pc'[l] = IF l \in Doing THEN caller[l][1] + 1 ELSE pc[l]
    BY <1>1, <2>1
  <2>6. caller'[l] = IF l \in Doing THEN << >> ELSE caller[l]
    BY <1>1, <2>1
  <2>7. CASE l \in Doing
    <3>. DEFINE f == Passed(l, "mutable_state_out", code[caller[l][1]].d[2])
    <3>1. pc[l] = now
      BY <2>7 DEF Doing, Group
    <3>2. caller[l][1] \in First .. Len(code) - 1 /\ Holds(caller[l][2], Context(l))
      BY <2>1, <2>3, <2>4, <3>1 DEF LaneOK
    <3>3. pc'[l] \in 1 .. Len(code) /\ pc'[l] >= First /\ ~(pc'[l] < First)
      BY <2>3, <2>5, <2>7, <3>2
    <3>4. regs'[l] = Updated(caller[l][2], f)
      BY <2>1, <2>7 DEF Return
    <3>5. \A a \in DOMAIN f : a \notin ContextRegs
      BY Temporaries DEF Passed
    <3>. HIDE DEF f
    <3>6. Holds(Updated(caller[l][2], f), Context(l))
      BY <3>2, <3>5, UpdatedHolds
    <3>. QED BY <1>3, <3>3, <3>4, <3>6 DEF LaneOK
  <2>8. CASE l \notin Doing
    <3>1. regs'[l] = regs[l] /\ caller'[l] = caller[l] /\ pc'[l] = pc[l]
      BY <2>1, <2>5, <2>6, <2>8 DEF Return
    <3>. QED BY <1>3, <2>1, <3>1 DEF LaneOK
  <2>. QED BY <2>7, <2>8
<1>5. GridOK
  BY DEF Steady
<1>. QED BY <1>1, <1>4, <1>5, NextPlaces

LEMMA StepKeeps == ASSUME Steady, Next PROVE IInv'
<1>1. CASE Compute
  <2>. DEFINE val == [l \in Doing |-> Apply(Line.op, Line.rm, Sources(l))]
  <2>1. Computed(val) /\ DOMAIN val = Doing /\ Line.op # "ret"
    BY <1>1 DEF Compute, NotComputed
  <2>. HIDE DEF val
  <2>. QED BY <2>1, ComputedWithin
<1>2. CASE Vote
  <2>. DEFINE val == [l \in Doing |-> MapThenSumSet(LAMBDA k : 2^k, Group)]
  <2>1. Computed(val) /\ DOMAIN val = Doing /\ Line.op # "ret"
    BY <1>2 DEF Vote, At
  <2>. HIDE DEF val
  <2>. QED BY <2>1, ComputedWithin
<1>3. CASE Shuffle
  <2>. DEFINE val == [l \in Doing |-> IF Reg(l, Line.s[2]) \in Doing THEN Reg(Reg(l, Line.s[2]), Line.s[1]) ELSE Undef]
  <2>1. Computed(val) /\ DOMAIN val = Doing /\ Line.op # "ret"
    BY <1>3 DEF Shuffle, At
  <2>. HIDE DEF val
  <2>. QED BY <2>1, ComputedWithin
<1>4. CASE LoadLine
  <2>. DEFINE val == [l \in Doing |-> Read(mem, AccessIn(Loading)[2], Sources(l)[1], AccessIn(Loading)[3])]
  <2>1. Computed(val) /\ DOMAIN val = Doing /\ Line.op # "ret"
    BY <1>4, AccessOps DEF LoadLine, At
  <2>. HIDE DEF val
  <2>. QED BY <2>1, ComputedWithin
<1>5. CASE PoolBase
  <2>. DEFINE val == [l \in Doing |-> Device["wg_base"]]
  <2>1. Computed(val) /\ DOMAIN val = Doing /\ Line.op # "ret"
    BY <1>5 DEF PoolBase, At
  <2>. HIDE DEF val
  <2>. QED BY <2>1, ComputedWithin
<1>6. CASE Pass \/ StoreLine \/ Stop
  <2>1. GoOn /\ Line.op # "ret" /\ UNCHANGED << grid, caller >> /\ regs' = regs
    BY <1>6, AccessOps DEF Pass, StoreLine, Stop, NothingBut, At
  <2>2. Least /\ \A l \in active : Moves(l)
    BY <2>1, GoOnMoves
  <2>. QED BY <2>1, <2>2, SameRegsKeep, StepWithin
<1>7. CASE Done
  <2>. QED BY <1>7 DEF Done, Steady
<1>. QED BY <1>1, <1>2, <1>3, <1>4, <1>5, <1>6, <1>7, AcquireWithin, BranchWithin, LeaveBlockWithin, CallWithin,
            ReturnWithin DEF Next

LEMMA StutterKeeps == ASSUME IInv, UNCHANGED vars PROVE IInv'
<1>1. /\ UNCHANGED grid /\ pc' = pc /\ now' = now /\ regs' = regs /\ caller' = caller
      /\ prog' = prog /\ code' = code /\ active' = active
  BY DEF vars, grid
<1>2. Kind' = Kind /\ \A l : Context(l)' = Context(l)
  BY <1>1, GridKept
<1>3. CASE Kind = "entry"
  BY <1>2, <1>3 DEF IInv
<1>4. CASE Kind # "entry"
  <2>1. GridOK' /\ Together'
    BY <1>1, <1>2, <1>4 DEF IInv, GridOK, Together
  <2>2. \A l \in active : LaneOK(l)'
    BY <1>1, <1>2, <1>4 DEF IInv, LaneOK
  <2>. QED BY <1>1, <2>1, <2>2 DEF IInv
<1>. QED BY <1>3, <1>4

LEMMA InitHolds == ASSUME Init PROVE IInv
<1>. SUFFICES ASSUME Kind # "entry" PROVE GridOK /\ Together /\ \A l \in active : LaneOK(l)
  BY DEF IInv
<1>1. GridOK
  <2>1. prog \in Progs /\ code = CodeOf(prog) /\ active \subseteq prog.lanes
    BY DEF Init
  <2>2. prog.lanes \subseteq LaneIds
    BY <2>1, ProgsAssumption DEF LaneIds
  <2>. QED BY <2>1, <2>2 DEF GridOK
<1>2. First \in Nat /\ First \in 1 .. Len(code)
  <2>1. First \in 2 .. Len(code) /\ Len(code) \in Nat
    BY <1>1, CodeOK DEF Laid, Lines
  <2>. QED BY <2>1
<1>3. now = First /\ \A l \in active : pc[l] = First /\ regs[l] = InitialRegs(l)
  BY <1>1 DEF Init, GridOK
<1>4. ASSUME NEW l \in active PROVE Holds(regs[l], Context(l))
  <2>1. \A a \in ContextRegs : a[1] # "x" /\ a[1] # "v"
    BY DEF ContextRegs, R, RD
  <2>2. Holds(InitialRegs(l), Context(l))
    BY <2>1 DEF Holds, InitialRegs
  <2>. QED BY <1>3, <2>2
<1>5. Together
  BY <1>2, <1>3 DEF Together
<1>6. \A l \in active : LaneOK(l)
  BY <1>2, <1>3, <1>4 DEF LaneOK
<1>. QED BY <1>1, <1>5, <1>6

(* The invariant gives what is wanted at the end.                          *)
LEMMA EndsInContext == ASSUME IInv, Kind # "entry" PROVE ContextKept
<1>. SUFFICES ASSUME Over, fault = "none", NEW l \in active
              PROVE  \A a \in DOMAIN Context(l) : a \in DOMAIN regs[l] /\ regs[l][a] = Context(l)[a]
  BY DEF ContextKept
<1>1. now = Len(code) /\ now <= pc[l] /\ LaneOK(l) /\ GridOK
  BY DEF Over, End, IInv, Together
<1>2. First \in 2 .. Len(code) /\ Len(code) \in Nat
  BY <1>1, CodeOK DEF Laid, Lines
<1>3. pc[l] >= First
  BY <1>1, <1>2 DEF LaneOK
<1>4. Holds(regs[l], Context(l))
  BY <1>1, <1>3 DEF LaneOK
<1>5. DOMAIN Context(l) = ContextRegs
  BY DEF Context
<1>. QED BY <1>4, <1>5 DEF Holds

----------------------------------------------------------------------------
(* Arithmetic of blocks and warps.                                         *)
LEMMA DivMod ==
  ASSUME NEW n \in Nat, NEW m \in Nat \ { 0 }
  PROVE  /\ n \div m \in Nat /\ n % m \in Nat /\ n % m < m
         /\ n = (n \div m) * m + (n % m)
<1>1. n \div m \in Int /\ n % m \in 0 .. m - 1 /\ n = m * (n \div m) + (n % m)
  BY SMT
<1>. DEFINE q == n \div m
<1>2. q \in Int /\ n = m * q + (n % m) /\ n % m \in 0 .. m - 1
  BY <1>1
<1>. HIDE DEF q
<1>3. q >= 0
  <2>. SUFFICES ASSUME q < 0 PROVE FALSE
    BY <1>2
  <2>1. m * q <= -m
    BY <1>2
  <2>. QED BY <1>2, <2>1
<1>4. m * q = q * m
  BY <1>2
<1>. QED BY <1>2, <1>3, <1>4 DEF q

LEMMA TimesGrows ==
  \A i, j, c \in Nat : i < j => i * c + c <= j * c /\ i * c \in Nat /\ j * c \in Nat
<1>. SUFFICES ASSUME NEW i \in Nat, NEW j \in Nat, NEW c \in Nat, i < j
              PROVE  i * c + c <= j * c /\ i * c \in Nat /\ j * c \in Nat
  OBVIOUS
<1>1. PICK d \in Nat : j = i + 1 + d
  <2>1. j - i - 1 \in Nat /\ j = i + 1 + (j - i - 1)
    OBVIOUS
  <2>. QED BY <2>1
<1>2. j * c = i * c + c + d * c /\ d * c \in Nat /\ i * c \in Nat
  BY <1>1
<1>. QED BY <1>2

LEMMA QuotientIs ==
  ASSUME NEW q \in Nat, NEW m \in Nat \ { 0 }, NEW r \in Nat, r < m
  PROVE  (q * m + r) \div m = q
<1>. DEFINE n == q * m + r
            p == n \div m
            t == n % m
<1>1. n \in Nat /\ q * m \in Nat
  OBVIOUS
<1>2. p \in Nat /\ t \in Nat /\ t < m /\ n = p * m + t
  BY <1>1, DivMod
<1>3. n = q * m + r
  OBVIOUS
<1>. HIDE DEF n, p, t
<1>4. p * m \in Nat
  BY <1>2
<1>5. ~(p < q)
  <2>. SUFFICES ASSUME p < q PROVE FALSE
    OBVIOUS
  <2>1. p * m + m <= q * m
    BY <1>2, TimesGrows
  <2>. QED BY <1>1, <1>2, <1>3, <1>4, <2>1
<1>6. ~(q < p)
  <2>. SUFFICES ASSUME q < p PROVE FALSE
    OBVIOUS
  <2>1. q * m + m <= p * m
    BY <1>2, TimesGrows
  <2>. QED BY <1>1, <1>2, <1>3, <1>4, <2>1
<1>7. p = q
  BY <1>2, <1>5, <1>6
<1>. QED BY <1>7 DEF n, p

(* The place of a thread in its block gives its number again, and no sum   *)
(* on the way is more than that number.                                    *)
LEMMA Cube ==
  ASSUME NEW a \in Nat \ { 0 }, NEW b \in Nat \ { 0 }, NEW n \in Nat
  PROVE  /\ n \div (a * b) \in Nat /\ (n \div a) % b \in Nat /\ n % a \in Nat /\ n \div a \in Nat
         /\ b * (n \div (a * b)) \in 0 .. n
         /\ b * (n \div (a * b)) + ((n \div a) % b) = n \div a
         /\ n \div a <= n
         /\ (n \div a) * a \in 0 .. n
         /\ (n \div a) * a + (n % a) = n
<1>. DEFINE q == n \div a
            x == n % a
            z == q \div b
            y == q % b
<1>1. q \in Nat /\ x \in Nat /\ x < a /\ n = q * a + x
  BY DivMod
<1>. HIDE DEF q, x
<1>2. z \in Nat /\ y \in Nat /\ y < b /\ q = z * b + y
  BY <1>1, DivMod
<1>. HIDE DEF z, y
<1>3. n \div (a * b) = z
  <2>. DEFINE r == y * a + x
              m == a * b
  <2>1. m \in Nat \ { 0 } /\ r \in Nat
    BY <1>1, <1>2
  <2>2. y * a + a <= b * a /\ y * a \in Nat
    BY <1>2, TimesGrows
  <2>3. r < m
    <3>1. b * a = a * b
      OBVIOUS
    <3>. QED BY <1>1, <2>1, <2>2, <3>1
  <2>4. n = z * m + r
    <3>1. (z * b + y) * a = z * (a * b) + y * a
      BY <1>2
    <3>. QED BY <1>1, <1>2, <3>1
  <2>. HIDE DEF r, m
  <2>5. n \div m = z
    BY <1>2, <2>1, <2>3, <2>4, QuotientIs
  <2>. QED BY <2>5 DEF m
<1>4. b * z = z * b /\ z * b \in Nat
  BY <1>2
<1>5. q * a \in Nat /\ q * a >= q
  <2>1. PICK d \in Nat : a = d + 1
    <3>1. a - 1 \in Nat /\ a = (a - 1) + 1
      OBVIOUS
    <3>. QED BY <3>1
  <2>2. q * a = q * d + q /\ q * d \in Nat
    BY <1>1, <2>1
  <2>. QED BY <1>1, <2>2
<1>6. (n \div a) = q /\ n % a = x /\ (n \div a) % b = y
  BY DEF q, x, y
<1>. QED BY <1>1, <1>2, <1>3, <1>4, <1>5, <1>6

(* So many warps of p threads hold t threads.                              *)
LEMMA WarpCount ==
  ASSUME NEW t \in Nat \ { 0 }, NEW p \in Nat \ { 0 }
  PROVE  /\ (t + p - 1) \div p \in 1 .. t
         /\ \A n \in 1 .. t : n * p \in t .. t + p - 1 <=> n = (t + p - 1) \div p
<1>. DEFINE s == t + p - 1
            q == s \div p
            r == s % p
<1>1. s \in Nat /\ s = t + p - 1
  OBVIOUS
<1>2. q \in Nat /\ r \in Nat /\ r < p /\ s = q * p + r
  BY <1>1, DivMod
<1>. HIDE DEF s, r
<1>3. q = s \div p
  OBVIOUS
<1>. HIDE DEF q
<1>4. q * p \in Nat /\ q * p >= t /\ q * p <= t + p - 1
  BY <1>1, <1>2
<1>5. q # 0
  BY <1>4
<1>6. q <= t
  <2>. SUFFICES ASSUME t < q PROVE FALSE
    BY <1>2
  <2>1. t * p + p <= q * p /\ t * p \in Nat
    BY <1>2, TimesGrows
  <2>2. PICK d \in Nat : p = d + 1
    <3>1. p - 1 \in Nat /\ p = (p - 1) + 1
      OBVIOUS
    <3>. QED BY <3>1
  <2>3. t * p = t * d + t /\ t * d \in Nat
    BY <2>2
  <2>. QED BY <1>4, <2>1, <2>3
<1>7. ASSUME NEW n \in 1 .. t, n * p \in t .. t + p - 1 PROVE n = q
  <2>1. n \in Nat /\ n * p \in Nat
    OBVIOUS
  <2>2. ~(n < q)
    <3>. SUFFICES ASSUME n < q PROVE FALSE
      OBVIOUS
    <3>1. n * p + p <= q * p
      BY <1>2, <2>1, TimesGrows
    <3>. QED BY <1>4, <1>7, <2>1, <3>1
  <2>3. ~(q < n)
    <3>. SUFFICES ASSUME q < n PROVE FALSE
      OBVIOUS
    <3>1. q * p + p <= n * p
      BY <1>2, <2>1, TimesGrows
    <3>. QED BY <1>4, <1>7, <2>1, <3>1
  <2>. QED BY <1>2, <2>1, <2>2, <2>3
<1>8. q \in 1 .. t
  BY <1>2, <1>5, <1>6
<1>9. (t + p - 1) \div p = q
  BY <1>1, <1>3
<1>. QED BY <1>4, <1>7, <1>8, <1>9

----------------------------------------------------------------------------
(* The code of the entry: straight, and after the lines that make it the   *)
(* context is left alone.                                                  *)
Straight(s) == Plain(s) /\ \A k \in 1 .. Len(s) : s[k].op \notin { "goto", "call", "ret" }

LEMMA StraightJoined == \A s, u : Straight(s) /\ Straight(u) => Straight(s \o u)
<1>1. ASSUME NEW s, NEW u, Straight(s), Straight(u) PROVE Straight(s \o u)
  <2>1. Lines(s) /\ Lines(u)
    BY <1>1 DEF Straight, Plain
  <2>2. ASSUME NEW k \in 1 .. Len(s \o u) PROVE (s \o u)[k].op \notin { "goto", "call", "ret" }
    <3>1. \/ k \in 1 .. Len(s) /\ (s \o u)[k] = s[k]
          \/ \E j \in 1 .. Len(u) : k = Len(s) + j /\ (s \o u)[k] = u[j]
      BY <2>1, LinesJoined
    <3>. QED BY <1>1, <3>1 DEF Straight
  <2>3. Plain(s \o u)
    BY <1>1, PlainJoined DEF Straight
  <2>. QED BY <2>2, <2>3 DEF Straight
<1>. QED BY <1>1

LEMMA StraightShort ==
  /\ Straight(<< >>)
  /\ \A a : Quiet(a) /\ a.op \notin { "goto", "call", "ret" } => Straight(<< a >>)
<1>1. Straight(<< >>)
  BY PlainNone DEF Straight
<1>2. ASSUME NEW a, Quiet(a), a.op \notin { "goto", "call", "ret" } PROVE Straight(<< a >>)
  BY <1>2, PlainOne DEF Straight
<1>. QED BY <1>1, <1>2

LEMMA Ops13 ==
  ASSUME NEW bad, NEW a, NEW b, NEW c, NEW d, NEW e, NEW f, NEW g, NEW h, NEW i, NEW j, NEW k, NEW l, NEW m,
         a.op \notin bad, b.op \notin bad, c.op \notin bad, d.op \notin bad, e.op \notin bad, f.op \notin bad,
         g.op \notin bad, h.op \notin bad, i.op \notin bad, j.op \notin bad, k.op \notin bad, l.op \notin bad,
         m.op \notin bad
  PROVE  LET z == << a, b, c, d, e, f, g, h, i, j, k, l, m >>
         IN  \A n \in 1 .. Len(z) : z[n].op \notin bad
<1>. DEFINE z == << a, b, c, d, e, f, g, h, i, j, k, l, m >>
<1>1. Len(z) = 13
  OBVIOUS
<1>2. \A n \in 1 .. 13 : z[n].op \notin bad
  OBVIOUS
<1>. QED BY <1>1, <1>2

LEMMA StraightStX == \A x, s : Straight(StX(x, s))
<1>1. \A x, s : Quiet(Mov(X(x), s)) /\ Mov(X(x), s).op = "mov.u32"
  BY QuietMov, Temporaries DEF Mov, L
<1>. QED BY <1>1, StraightShort DEF StX

LEMMA StraightLoad == \A n : Straight(LoadKnl(R(17), n))
<1>. SUFFICES ASSUME NEW n PROVE Straight(LoadKnl(R(17), n))
  OBVIOUS
<1>. DEFINE Fits(s) == \A k \in 1 .. Len(s) : s[k].op \notin { "goto", "call", "ret" }
<1>1. Plain(AddrMap(R(16))) /\ Plain(LoadAt("u32", R(17)))
  BY AddrMapPlain, LoadAtPlain, Temporaries
<1>2. Fits(AddrMap(R(16)))
  <2>1. \A op, d, r : L(op, d, r).op = op /\ Unless(5, L(op, d, r)).op = op /\ Mov(d, r).op = "mov.u32"
    BY DEF L, Mov, Unless
  <2>. QED BY <2>1, Ops13 DEF AddrMap
<1>3. Fits(LoadAt("u32", R(17)))
  <2>1. \A op, d, r, p : If(p, L(op, d, r)).op = op
    BY DEF L, If
  <2>2. LdOp.shared["u32"] = "ld.shared.u32" /\ LdOp.global["u32"] = "ld.global.u32"
    BY DEF LdOp
  <2>. QED BY <2>1, <2>2 DEF LoadAt
<1>4. Straight(AddrMap(R(16))) /\ Straight(LoadAt("u32", R(17)))
  BY <1>1, <1>2, <1>3 DEF Straight
<1>5. Straight(<< L("add.u32", R(16), << R(30), Imm(n) >>) >>)
  <2>1. Quiet(L("add.u32", R(16), << R(30), Imm(n) >>))
    BY QuietLine, Temporaries
  <2>2. L("add.u32", R(16), << R(30), Imm(n) >>).op = "add.u32"
    BY DEF L
  <2>. QED BY <2>1, <2>2, StraightShort
<1>. QED BY <1>4, <1>5, StraightJoined DEF LoadKnl, LoadWord

HeadLength == 6 + Len(LoadKnl(R(17), 56))

(* b is the place of its first line.                                       *)
EntryLaid(c, b) ==
  LET t == b + HeadLength
  IN  /\ Lines(c) /\ b \in Nat \ { 0 } /\ HeadLength \in Nat /\ HeadLength >= 6 /\ t + 17 <= Len(c)
      /\ c[b]      = L("mov.u64", RD(0), << Special("global_base") >>)
      /\ c[b + 1]  = L("mov.u32", R(30), << Special("knl_vaddr") >>)
      /\ c[b + 2]  = L("mov.u32", R(28), << Special("pds_base_vaddr") >>)
      /\ c[b + 3]  = L("mov.u32", R(29), << Special("pds_size_per_thread") >>)
      /\ c[t]      = L("mov.u32", R(0), << Special("laneid") >>)
      /\ c[t + 1]  = L("mov.u32", R(3), << Special("tid.x") >>)
      /\ c[t + 2]  = L("mov.u32", R(4), << Special("tid.y") >>)
      /\ c[t + 3]  = L("mov.u32", R(5), << Special("tid.z") >>)
      /\ c[t + 4]  = L("mov.u32", R(6), << Special("ntid.x") >>)
      /\ c[t + 5]  = L("mov.u32", R(7), << Special("ntid.y") >>)
      /\ c[t + 6]  = L("mov.u32", R(8), << Special("ntid.z") >>)
      /\ c[t + 7]  = L("mul.lo.u32", R(9), << R(7), R(5) >>)
      /\ c[t + 8]  = L("add.u32", R(9), << R(9), R(4) >>)
      /\ c[t + 9]  = L("mul.lo.u32", R(9), << R(9), R(6) >>)
      /\ c[t + 10] = L("add.u32", R(9), << R(9), R(3) >>)
      /\ c[t + 11] = L("shr.u32", R(10), << R(9), Imm(LogWarp) >>)
      /\ c[t + 12] = L("mul.lo.u32", R(11), << R(6), R(7) >>)
      /\ c[t + 13] = L("mul.lo.u32", R(11), << R(11), R(8) >>)
      /\ c[t + 14] = L("add.u32", R(12), << R(11), Imm(2^LogWarp - 1) >>)
      /\ c[t + 15] = L("shr.u32", R(12), << R(12), Imm(LogWarp) >>)
      /\ c[t + 16] = L("mov.u64", RD(2), << Special("shmem") >>)
      /\ \A k \in b .. Len(c) : c[k].op \notin { "bra", "goto", "call", "ret" }
      /\ \A k \in b .. Len(c) :
           c[k].d \in ContextRegs => k \in { b, b + 1, b + 2, b + 3, t, t + 11, t + 14, t + 15, t + 16 }

LEMMA EntryLonger ==
  ASSUME NEW c, NEW b, NEW u, EntryLaid(c, b), Straight(u)
  PROVE  EntryLaid(c \o u, b)
<1>. DEFINE t == b + HeadLength
            z == c \o u
<1>1. Lines(c) /\ Lines(u)
  BY DEF EntryLaid, Straight, Plain
<1>2. /\ Lines(c \o u)
      /\ Len(c \o u) = Len(c) + Len(u)
      /\ \A k \in 1 .. Len(c) : (c \o u)[k] = c[k]
      /\ \A k \in 1 .. Len(u) : (c \o u)[Len(c) + k] = u[k]
      /\ \A k \in 1 .. Len(c \o u) :
           \/ k \in 1 .. Len(c) /\ (c \o u)[k] = c[k]
           \/ \E j \in 1 .. Len(u) : k = Len(c) + j /\ (c \o u)[k] = u[j]
  BY <1>1, LinesJoined
<1>3. /\ Len(c) \in Nat /\ Len(u) \in Nat /\ t \in Nat /\ b \in Nat \ { 0 } /\ HeadLength \in Nat /\ HeadLength >= 6
      /\ t + 17 <= Len(c) /\ b + 6 <= t
  <2>1. b \in Nat \ { 0 } /\ HeadLength \in Nat /\ HeadLength >= 6 /\ t + 17 <= Len(c)
    BY DEF EntryLaid
  <2>2. Len(c) \in Nat /\ Len(u) \in Nat
    BY <1>1 DEF Lines
  <2>. QED BY <2>1, <2>2
<1>. HIDE DEF z
<1>4. \A k \in 1 .. Len(c) : z[k] = c[k]
  BY <1>2 DEF z
<1>5. /\ z[b] = c[b] /\ z[b + 1] = c[b + 1] /\ z[b + 2] = c[b + 2] /\ z[b + 3] = c[b + 3]
      /\ z[t] = c[t]
      /\ \A k \in 1 .. 16 : z[t + k] = c[t + k]
  <2>1. b \in 1 .. Len(c) /\ b + 1 \in 1 .. Len(c) /\ b + 2 \in 1 .. Len(c) /\ b + 3 \in 1 .. Len(c)
          /\ t \in 1 .. Len(c)
    BY <1>3
  <2>2. \A k \in 1 .. 16 : t + k \in 1 .. Len(c)
    BY <1>3
  <2>. HIDE DEF t
  <2>. QED BY <1>4, <2>1, <2>2
<1>6. ASSUME NEW k \in b .. Len(z)
      PROVE  /\ z[k].op \notin { "bra", "goto", "call", "ret" }
             /\ z[k].d \in ContextRegs => k \in { b, b + 1, b + 2, b + 3, t, t + 11, t + 14, t + 15, t + 16 }
  <2>1. k \in 1 .. Len(z)
    BY <1>2, <1>3 DEF z
  <2>2. CASE k \in 1 .. Len(c) /\ z[k] = c[k]
    <3>1. k \in b .. Len(c)
      BY <1>3, <2>2
    <3>. QED BY <2>2, <3>1 DEF EntryLaid
  <2>3. CASE \E j \in 1 .. Len(u) : z[k] = u[j]
    BY <2>3 DEF Straight, Plain, Quiet
  <2>. QED BY <1>2, <2>1, <2>2, <2>3 DEF z
<1>7. Lines(z) /\ t + 17 <= Len(z)
  BY <1>2, <1>3 DEF z
<1>8. EntryLaid(z, b)
  <2>. HIDE DEF t
  <2>1. /\ Lines(z) /\ b \in Nat \ { 0 } /\ HeadLength \in Nat /\ HeadLength >= 6 /\ t + 17 <= Len(z)
        /\ \A k \in b .. Len(z) : z[k].op \notin { "bra", "goto", "call", "ret" }
        /\ \A k \in b .. Len(z) :
             z[k].d \in ContextRegs => k \in { b, b + 1, b + 2, b + 3, t, t + 11, t + 14, t + 15, t + 16 }
    BY <1>3, <1>6, <1>7
  <2>2. /\ z[t + 1] = c[t + 1] /\ z[t + 2] = c[t + 2] /\ z[t + 3] = c[t + 3] /\ z[t + 4] = c[t + 4]
        /\ z[t + 5] = c[t + 5] /\ z[t + 6] = c[t + 6] /\ z[t + 7] = c[t + 7] /\ z[t + 8] = c[t + 8]
        /\ z[t + 9] = c[t + 9] /\ z[t + 10] = c[t + 10] /\ z[t + 11] = c[t + 11] /\ z[t + 12] = c[t + 12]
        /\ z[t + 13] = c[t + 13] /\ z[t + 14] = c[t + 14] /\ z[t + 15] = c[t + 15] /\ z[t + 16] = c[t + 16]
    BY <1>5
  <2>3. z[b] = c[b] /\ z[b + 1] = c[b + 1] /\ z[b + 2] = c[b + 2] /\ z[b + 3] = c[b + 3] /\ z[t] = c[t]
    BY <1>5
  <2>. QED BY <2>1, <2>2, <2>3 DEF EntryLaid, t
<1>. QED BY <1>8 DEF z

JoinOf(s, u, z) ==
  /\ Lines(z)
  /\ Len(z) = Len(s) + Len(u)
  /\ \A k \in 1 .. Len(s) : z[k] = s[k]
  /\ \A k \in 1 .. Len(u) : z[Len(s) + k] = u[k]
  /\ \A k \in 1 .. Len(z) :
       \/ k \in 1 .. Len(s) /\ z[k] = s[k]
       \/ \E j \in 1 .. Len(u) : k = Len(s) + j /\ z[k] = u[j]

LEMMA Joined == \A s, u : Lines(s) /\ Lines(u) => JoinOf(s, u, s \o u)
<1>1. ASSUME NEW s, NEW u, Lines(s), Lines(u) PROVE JoinOf(s, u, s \o u)
  BY <1>1, LinesJoined DEF JoinOf
<1>. QED BY <1>1

LEMMA EntryLater ==
  ASSUME NEW a, NEW c, Lines(a), EntryLaid(c, 1)
  PROVE  EntryLaid(a \o c, Len(a) + 1)
<1>1. Lines(a) /\ Lines(c)
  BY DEF EntryLaid
<1>2. JoinOf(a, c, a \o c)
  BY <1>1, Joined
<1>. DEFINE t == 1 + HeadLength
            z == a \o c
            n == Len(a)
<1>3. HeadLength \in Nat /\ HeadLength >= 6 /\ t + 17 <= Len(c) /\ t \in Nat /\ t >= 7 /\ Len(c) \in Nat /\ n \in Nat
  <2>1. HeadLength \in Nat /\ HeadLength >= 6 /\ t + 17 <= Len(c)
    BY DEF EntryLaid
  <2>2. Len(c) \in Nat /\ n \in Nat
    BY <1>1 DEF Lines
  <2>. QED BY <2>1, <2>2
<1>4. Lines(z) /\ Len(z) = n + Len(c) /\ \A k \in 1 .. Len(c) : z[n + k] = c[k]
  BY <1>2 DEF JoinOf
<1>5. ASSUME NEW k \in n + 1 .. Len(z) PROVE k - n \in 1 .. Len(c) /\ z[k] = c[k - n]
  <2>1. k - n \in 1 .. Len(c) /\ k = n + (k - n)
    BY <1>3, <1>4
  <2>. QED BY <1>4, <2>1
<1>. HIDE DEF z, n
<1>6. /\ z[n + 1] = c[1] /\ z[n + 1 + 1] = c[2] /\ z[n + 1 + 2] = c[3] /\ z[n + 1 + 3] = c[4]
  <2>1. 1 \in 1 .. Len(c) /\ 2 \in 1 .. Len(c) /\ 3 \in 1 .. Len(c) /\ 4 \in 1 .. Len(c)
    BY <1>3
  <2>2. n + 1 + 1 = n + 2 /\ n + 1 + 2 = n + 3 /\ n + 1 + 3 = n + 4
    BY <1>3
  <2>. QED BY <1>4, <2>1, <2>2
<1>. DEFINE u == n + 1 + HeadLength
<1>7. ASSUME NEW k \in 0 .. 16 PROVE z[u + k] = c[t + k]
  <2>1. t + k \in 1 .. Len(c) /\ u + k = n + (t + k)
    BY <1>3
  <2>. QED BY <1>4, <2>1
<1>8. ASSUME NEW k \in n + 1 .. Len(z)
      PROVE  /\ z[k].op \notin { "bra", "goto", "call", "ret" }
             /\ z[k].d \in ContextRegs =>
                  k \in { n + 1, n + 1 + 1, n + 1 + 2, n + 1 + 3, u, u + 11, u + 14, u + 15, u + 16 }
  <2>1. k - n \in 1 .. Len(c) /\ z[k] = c[k - n]
    BY <1>5
  <2>2. /\ c[k - n].op \notin { "bra", "goto", "call", "ret" }
        /\ c[k - n].d \in ContextRegs => k - n \in { 1, 1 + 1, 1 + 2, 1 + 3, t, t + 11, t + 14, t + 15, t + 16 }
    BY <2>1 DEF EntryLaid
  <2>3. k \in Int
    BY <1>3, <1>4
  <2>4. k - n \in { 1, 1 + 1, 1 + 2, 1 + 3, t, t + 11, t + 14, t + 15, t + 16 } =>
          k \in { n + 1, n + 1 + 1, n + 1 + 2, n + 1 + 3, u, u + 11, u + 14, u + 15, u + 16 }
    BY <1>3, <2>3
  <2>. QED BY <2>1, <2>2, <2>4
<1>9. n + 1 \in Nat \ { 0 } /\ u + 17 <= Len(z)
  BY <1>3, <1>4
<1>10. u + 0 = u /\ t + 0 = t
  BY <1>3
<1>11. EntryLaid(z, n + 1)
  <2>. HIDE DEF t, u
  <2>1. /\ Lines(z) /\ n + 1 \in Nat \ { 0 } /\ HeadLength \in Nat /\ HeadLength >= 6 /\ u + 17 <= Len(z)
        /\ \A k \in n + 1 .. Len(z) : z[k].op \notin { "bra", "goto", "call", "ret" }
        /\ \A k \in n + 1 .. Len(z) :
             z[k].d \in ContextRegs =>
               k \in { n + 1, n + 1 + 1, n + 1 + 2, n + 1 + 3, u, u + 11, u + 14, u + 15, u + 16 }
    BY <1>3, <1>4, <1>8, <1>9
  <2>2. /\ z[u + 1] = c[t + 1] /\ z[u + 2] = c[t + 2] /\ z[u + 3] = c[t + 3] /\ z[u + 4] = c[t + 4]
        /\ z[u + 5] = c[t + 5] /\ z[u + 6] = c[t + 6] /\ z[u + 7] = c[t + 7] /\ z[u + 8] = c[t + 8]
        /\ z[u + 9] = c[t + 9] /\ z[u + 10] = c[t + 10] /\ z[u + 11] = c[t + 11] /\ z[u + 12] = c[t + 12]
        /\ z[u + 13] = c[t + 13] /\ z[u + 14] = c[t + 14] /\ z[u + 15] = c[t + 15] /\ z[u + 16] = c[t + 16]
    BY <1>7
  <2>3. z[n + 1] = c[1] /\ z[n + 1 + 1] = c[1 + 1] /\ z[n + 1 + 2] = c[1 + 2] /\ z[n + 1 + 3] = c[1 + 3]
          /\ z[u] = c[t]
    BY <1>6, <1>7, <1>10
  <2>. QED BY <2>1, <2>2, <2>3 DEF EntryLaid, t, u
<1>. QED BY <1>11 DEF z, n

LEMMA Lines16 ==
  ASSUME NEW a, NEW b, NEW c, NEW d, NEW e, NEW f, NEW g, NEW h, NEW i, NEW j, NEW k, NEW l, NEW m,
         NEW n, NEW o, NEW p
  PROVE  Lines(<< a, b, c, d, e, f, g, h, i, j, k, l, m, n, o, p >>)
BY DEF Lines

(* The head of the prologue, then the rest of it.                          *)
LEMMA HeadLaid ==
  EntryLaid(<< L("mov.u64", RD(0), << Special("global_base") >>), LdKernelParam(30, "knl_vaddr"),
               LdKernelParam(28, "pds_base_vaddr"), LdKernelParam(29, "pds_size_per_thread"),
               LdKernelParam(26, "pds_bitmap_base_vaddr"), LdKernelParam(27, "pds_pool_num_blocks") >>
              \o LoadKnl(R(17), 56) \o ThreadIds
              \o << L("mov.u64", RD(2), << Special("shmem") >>),
                    L("mul.lo.u32", R(13), << R(10), R(17) >>), L("cvt.u64.u32", RD(13), << R(13) >>),
                    L("add.u64", RD(3), << RD(2), RD(13) >>), L("mov.u64", RD(3), << Imm(0) >>) >>, 1)
<1>. DEFINE h == << L("mov.u64", RD(0), << Special("global_base") >>), LdKernelParam(30, "knl_vaddr"),
                    LdKernelParam(28, "pds_base_vaddr"), LdKernelParam(29, "pds_size_per_thread"),
                    LdKernelParam(26, "pds_bitmap_base_vaddr"), LdKernelParam(27, "pds_pool_num_blocks") >>
            k0 == LoadKnl(R(17), 56)
            m == << L("mov.u64", RD(2), << Special("shmem") >>),
                    L("mul.lo.u32", R(13), << R(10), R(17) >>), L("cvt.u64.u32", RD(13), << R(13) >>),
                    L("add.u64", RD(3), << RD(2), RD(13) >>), L("mov.u64", RD(3), << Imm(0) >>) >>
            s1 == h \o k0
            s2 == s1 \o ThreadIds
            z  == s2 \o m
            n  == Len(k0)
            t  == 1 + HeadLength
            bad == { "bra", "goto", "call", "ret" }
<1>1. /\ Lines(h) /\ Len(h) = 6
      /\ h[1] = L("mov.u64", RD(0), << Special("global_base") >>)
      /\ h[2] = L("mov.u32", R(30), << Special("knl_vaddr") >>)
      /\ h[3] = L("mov.u32", R(28), << Special("pds_base_vaddr") >>)
      /\ h[4] = L("mov.u32", R(29), << Special("pds_size_per_thread") >>)
      /\ h[5] = L("mov.u32", R(26), << Special("pds_bitmap_base_vaddr") >>)
      /\ h[6] = L("mov.u32", R(27), << Special("pds_pool_num_blocks") >>)
  BY DEF Lines, LdKernelParam, Mov
<1>2. Straight(k0) /\ Lines(k0) /\ n \in Nat /\ HeadLength = 6 + n
  BY StraightLoad DEF Straight, Plain, Lines, HeadLength
<1>3. /\ Lines(ThreadIds) /\ Len(ThreadIds) = 16
      /\ ThreadIds[1] = L("mov.u32", R(0), << Special("laneid") >>)
      /\ ThreadIds[2] = L("mov.u32", R(3), << Special("tid.x") >>)
      /\ ThreadIds[3] = L("mov.u32", R(4), << Special("tid.y") >>)
      /\ ThreadIds[4] = L("mov.u32", R(5), << Special("tid.z") >>)
      /\ ThreadIds[5] = L("mov.u32", R(6), << Special("ntid.x") >>)
      /\ ThreadIds[6] = L("mov.u32", R(7), << Special("ntid.y") >>)
      /\ ThreadIds[7] = L("mov.u32", R(8), << Special("ntid.z") >>)
      /\ ThreadIds[8] = L("mul.lo.u32", R(9), << R(7), R(5) >>)
      /\ ThreadIds[9] = L("add.u32", R(9), << R(9), R(4) >>)
      /\ ThreadIds[10] = L("mul.lo.u32", R(9), << R(9), R(6) >>)
      /\ ThreadIds[11] = L("add.u32", R(9), << R(9), R(3) >>)
      /\ ThreadIds[12] = L("shr.u32", R(10), << R(9), Imm(LogWarp) >>)
      /\ ThreadIds[13] = L("mul.lo.u32", R(11), << R(6), R(7) >>)
      /\ ThreadIds[14] = L("mul.lo.u32", R(11), << R(11), R(8) >>)
      /\ ThreadIds[15] = L("add.u32", R(12), << R(11), Imm(2^LogWarp - 1) >>)
      /\ ThreadIds[16] = L("shr.u32", R(12), << R(12), Imm(LogWarp) >>)
  <2>1. Lines(ThreadIds)
    BY Lines16 DEF ThreadIds
  <2>2. ThreadIds[1] = Mov(R(0), Special("laneid")) /\ ThreadIds[2] = Mov(R(3), Special("tid.x"))
        /\ ThreadIds[3] = Mov(R(4), Special("tid.y")) /\ ThreadIds[4] = Mov(R(5), Special("tid.z"))
        /\ ThreadIds[5] = Mov(R(6), Special("ntid.x")) /\ ThreadIds[6] = Mov(R(7), Special("ntid.y"))
        /\ ThreadIds[7] = Mov(R(8), Special("ntid.z"))
    BY DEF ThreadIds
  <2>3. /\ ThreadIds[8] = L("mul.lo.u32", R(9), << R(7), R(5) >>)
        /\ ThreadIds[9] = L("add.u32", R(9), << R(9), R(4) >>)
        /\ ThreadIds[10] = L("mul.lo.u32", R(9), << R(9), R(6) >>)
        /\ ThreadIds[11] = L("add.u32", R(9), << R(9), R(3) >>)
    BY DEF ThreadIds
  <2>4. /\ ThreadIds[12] = L("shr.u32", R(10), << R(9), Imm(LogWarp) >>)
        /\ ThreadIds[13] = L("mul.lo.u32", R(11), << R(6), R(7) >>)
        /\ ThreadIds[14] = L("mul.lo.u32", R(11), << R(11), R(8) >>)
        /\ ThreadIds[15] = L("add.u32", R(12), << R(11), Imm(2^LogWarp - 1) >>)
        /\ ThreadIds[16] = L("shr.u32", R(12), << R(12), Imm(LogWarp) >>)
    BY DEF ThreadIds
  <2>5. Len(ThreadIds) = 16
    BY DEF ThreadIds
  <2>6. \A d, s : Mov(d, s) = L("mov.u32", d, << s >>)
    BY DEF Mov
  <2>. QED BY <2>1, <2>2, <2>3, <2>4, <2>5, <2>6
<1>4. /\ Lines(m) /\ Len(m) = 5
      /\ m[1] = L("mov.u64", RD(2), << Special("shmem") >>)
      /\ \A k \in 1 .. 5 : m[k].op \notin bad
      /\ \A k \in 2 .. 5 : m[k].d \notin ContextRegs
  <2>1. \A op, d, s : L(op, d, s).op = op /\ L(op, d, s).d = d
    BY DEF L
  <2>2. RD(13) \notin ContextRegs /\ RD(3) \notin ContextRegs /\ R(13) \notin ContextRegs
    BY Temporaries
  <2>3. /\ Lines(m) /\ Len(m) = 5
        /\ m[1] = L("mov.u64", RD(2), << Special("shmem") >>)
        /\ m[2] = L("mul.lo.u32", R(13), << R(10), R(17) >>) /\ m[3] = L("cvt.u64.u32", RD(13), << R(13) >>)
        /\ m[4] = L("add.u64", RD(3), << RD(2), RD(13) >>) /\ m[5] = L("mov.u64", RD(3), << Imm(0) >>)
    BY DEF Lines
  <2>. HIDE DEF m
  <2>. QED BY <2>1, <2>2, <2>3
<1>. HIDE DEF h, k0, m
<1>5. JoinOf(h, k0, s1)
  BY <1>1, <1>2, Joined
<1>. HIDE DEF s1
<1>6. JoinOf(s1, ThreadIds, s2)
  <2>1. Lines(s1) /\ Lines(ThreadIds)
    BY <1>3, <1>5 DEF JoinOf
  <2>. QED BY <2>1, Joined
<1>. HIDE DEF s2
<1>7. JoinOf(s2, m, z)
  <2>1. Lines(s2) /\ Lines(m)
    BY <1>4, <1>6 DEF JoinOf
  <2>. QED BY <2>1, Joined
<1>. HIDE DEF z
<1>8. Len(s1) = 6 + n /\ Len(s2) = 22 + n /\ Len(z) = 27 + n /\ Lines(z)
  BY <1>1, <1>2, <1>3, <1>4, <1>5, <1>6, <1>7 DEF JoinOf
<1>. HIDE DEF n
<1>9. ASSUME NEW k \in 1 .. 6 PROVE z[k] = h[k]
  <2>1. k \in 1 .. Len(h) /\ k \in 1 .. Len(s1) /\ k \in 1 .. Len(s2)
    BY <1>1, <1>2, <1>8
  <2>. QED BY <2>1, <1>5, <1>6, <1>7 DEF JoinOf
<1>10. ASSUME NEW k \in 1 .. n PROVE z[6 + k] = k0[k]
  <2>1. k \in 1 .. Len(k0) /\ 6 + k \in 1 .. Len(s1) /\ 6 + k \in 1 .. Len(s2) /\ Len(h) = 6
    BY <1>1, <1>2, <1>8 DEF n
  <2>. QED BY <2>1, <1>5, <1>6, <1>7 DEF JoinOf
<1>11. ASSUME NEW k \in 1 .. 16 PROVE z[6 + n + k] = ThreadIds[k]
  <2>1. k \in 1 .. Len(ThreadIds) /\ 6 + n + k \in 1 .. Len(s2) /\ Len(s1) = 6 + n
    BY <1>2, <1>3, <1>8
  <2>2. s2[6 + n + k] = ThreadIds[k]
    BY <2>1, <1>6 DEF JoinOf
  <2>. QED BY <2>1, <2>2, <1>7 DEF JoinOf
<1>12. ASSUME NEW k \in 1 .. 5 PROVE z[22 + n + k] = m[k]
  <2>1. k \in 1 .. Len(m) /\ Len(s2) = 22 + n
    BY <1>4, <1>8
  <2>. QED BY <2>1, <1>7 DEF JoinOf
<1>13. t = 7 + n /\ t \in Nat /\ n \in Nat
  BY <1>2
<1>14. /\ z[1] = h[1] /\ z[1 + 1] = h[2] /\ z[1 + 2] = h[3] /\ z[1 + 3] = h[4]
       /\ z[t + 16] = m[1]
  <2>1. t + 16 = 22 + n + 1
    BY <1>13
  <2>. QED BY <1>9, <1>12, <2>1
<1>15. ASSUME NEW k \in 0 .. 15 PROVE z[t + k] = ThreadIds[k + 1]
  <2>1. k + 1 \in 1 .. 16 /\ t + k = 6 + n + (k + 1)
    BY <1>13
  <2>. QED BY <1>11, <2>1
<1>. HIDE DEF t
<1>16. /\ z[t] = ThreadIds[1] /\ z[t + 1] = ThreadIds[2] /\ z[t + 2] = ThreadIds[3] /\ z[t + 3] = ThreadIds[4]
       /\ z[t + 4] = ThreadIds[5] /\ z[t + 5] = ThreadIds[6] /\ z[t + 6] = ThreadIds[7] /\ z[t + 7] = ThreadIds[8]
       /\ z[t + 8] = ThreadIds[9] /\ z[t + 9] = ThreadIds[10] /\ z[t + 10] = ThreadIds[11]
       /\ z[t + 11] = ThreadIds[12] /\ z[t + 12] = ThreadIds[13] /\ z[t + 13] = ThreadIds[14]
       /\ z[t + 14] = ThreadIds[15] /\ z[t + 15] = ThreadIds[16]
  <2>1. z[t + 0] = ThreadIds[0 + 1] /\ t + 0 = t
    BY <1>13, <1>15
  <2>. QED BY <1>15, <2>1
<1>17. \A op, d, s : L(op, d, s).op = op /\ L(op, d, s).d = d
  BY DEF L
<1>18. \A j \in 1 .. 6 : h[j].op \notin bad /\ (h[j].d \in ContextRegs => j \in 1 .. 4)
  <2>1. R(26) \notin ContextRegs /\ R(27) \notin ContextRegs
    BY Temporaries
  <2>. QED BY <1>1, <1>17, <2>1
<1>19. \A j \in 1 .. 16 : ThreadIds[j].op \notin bad /\ (ThreadIds[j].d \in ContextRegs => j \in { 1, 12, 15, 16 })
  <2>1. /\ R(3) \notin ContextRegs /\ R(4) \notin ContextRegs /\ R(5) \notin ContextRegs /\ R(6) \notin ContextRegs
        /\ R(7) \notin ContextRegs /\ R(8) \notin ContextRegs /\ R(9) \notin ContextRegs /\ R(11) \notin ContextRegs
    BY Temporaries
  <2>. QED BY <1>3, <1>17, <2>1
<1>20. \A j \in 1 .. n : k0[j].op \notin bad /\ k0[j].d \notin ContextRegs
  BY <1>2 DEF n, Straight, Plain, Quiet
<1>21. ASSUME NEW k \in 1 .. Len(z)
       PROVE  /\ z[k].op \notin bad
              /\ z[k].d \in ContextRegs => k \in { 1, 1 + 1, 1 + 2, 1 + 3, t, t + 11, t + 14, t + 15, t + 16 }
  <2>1. k \in 1 .. 27 + n
    BY <1>8
  <2>2. CASE k \in 1 .. 6
    BY <1>9, <1>18, <2>2
  <2>3. CASE k \in 7 .. 6 + n
    <3>1. k - 6 \in 1 .. n /\ k = 6 + (k - 6)
      BY <1>13, <2>3
    <3>2. z[k] = k0[k - 6]
      BY <1>10, <3>1
    <3>. QED BY <1>20, <3>1, <3>2
  <2>4. CASE k \in t .. t + 15
    <3>. DEFINE i == k - t
    <3>1. i \in 0 .. 15 /\ k = t + i /\ i + 1 \in 1 .. 16
      BY <1>13, <2>4
    <3>. HIDE DEF i
    <3>2. z[k] = ThreadIds[i + 1]
      BY <1>15, <3>1
    <3>3. i + 1 \in { 1, 12, 15, 16 } => i \in { 0, 11, 14, 15 }
      BY <3>1
    <3>4. i \in { 0, 11, 14, 15 } => k \in { t, t + 11, t + 14, t + 15 }
      BY <1>13, <3>1
    <3>. QED BY <1>19, <3>1, <3>2, <3>3, <3>4
  <2>5. CASE k \in t + 16 .. t + 20
    <3>. DEFINE i == k - 22 - n
    <3>1. i \in 1 .. 5 /\ k = 22 + n + i /\ (i = 1 => k = t + 16) /\ (i # 1 => i \in 2 .. 5)
      BY <1>13, <2>5
    <3>. HIDE DEF i
    <3>2. z[k] = m[i]
      BY <1>12, <3>1
    <3>. QED BY <1>4, <3>1, <3>2
  <2>6. k \in 1 .. 6 \/ k \in 7 .. 6 + n \/ k \in t .. t + 15 \/ k \in t + 16 .. t + 20
    BY <1>13, <2>1
  <2>. QED BY <2>2, <2>3, <2>4, <2>5, <2>6
<1>22. t + 17 <= Len(z) /\ HeadLength \in Nat /\ HeadLength >= 6
  BY <1>2, <1>8, <1>13
<1>23. EntryLaid(z, 1)
  <2>1. /\ z[1]     = L("mov.u64", RD(0), << Special("global_base") >>)
        /\ z[1 + 1] = L("mov.u32", R(30), << Special("knl_vaddr") >>)
        /\ z[1 + 2] = L("mov.u32", R(28), << Special("pds_base_vaddr") >>)
        /\ z[1 + 3] = L("mov.u32", R(29), << Special("pds_size_per_thread") >>)
        /\ z[t + 16] = L("mov.u64", RD(2), << Special("shmem") >>)
    BY <1>1, <1>4, <1>14
  <2>2. /\ z[t] = L("mov.u32", R(0), << Special("laneid") >>)
        /\ z[t + 1] = L("mov.u32", R(3), << Special("tid.x") >>)
        /\ z[t + 2] = L("mov.u32", R(4), << Special("tid.y") >>)
        /\ z[t + 3] = L("mov.u32", R(5), << Special("tid.z") >>)
        /\ z[t + 4] = L("mov.u32", R(6), << Special("ntid.x") >>)
        /\ z[t + 5] = L("mov.u32", R(7), << Special("ntid.y") >>)
        /\ z[t + 6] = L("mov.u32", R(8), << Special("ntid.z") >>)
        /\ z[t + 7] = L("mul.lo.u32", R(9), << R(7), R(5) >>)
        /\ z[t + 8] = L("add.u32", R(9), << R(9), R(4) >>)
        /\ z[t + 9] = L("mul.lo.u32", R(9), << R(9), R(6) >>)
        /\ z[t + 10] = L("add.u32", R(9), << R(9), R(3) >>)
        /\ z[t + 11] = L("shr.u32", R(10), << R(9), Imm(LogWarp) >>)
        /\ z[t + 12] = L("mul.lo.u32", R(11), << R(6), R(7) >>)
        /\ z[t + 13] = L("mul.lo.u32", R(11), << R(11), R(8) >>)
        /\ z[t + 14] = L("add.u32", R(12), << R(11), Imm(2^LogWarp - 1) >>)
        /\ z[t + 15] = L("shr.u32", R(12), << R(12), Imm(LogWarp) >>)
    BY <1>3, <1>16
  <2>3. Lines(z) /\ 1 \in Nat \ { 0 } /\ HeadLength \in Nat /\ HeadLength >= 6 /\ t + 17 <= Len(z)
    BY <1>8, <1>22
  <2>4. \A k \in 1 .. Len(z) : z[k].op \notin bad
    BY <1>21
  <2>5. \A k \in 1 .. Len(z) :
          z[k].d \in ContextRegs => k \in { 1, 1 + 1, 1 + 2, 1 + 3, t, t + 11, t + 14, t + 15, t + 16 }
    BY <1>21
  <2>. QED BY <2>1, <2>2, <2>3, <2>4, <2>5 DEF EntryLaid, t
<1>. QED BY <1>23 DEF z, s2, s1, h, k0, m

LEMMA PrologueLaid == (\A gp : EntryLaid(Prologue(gp), 1)) /\ Straight(Exit)
<1>. DEFINE s3 == << L("setp.lt.u32", P(1), << R(28), Imm(GlobalBase) >>),
                     L("setp.ne.u32", P(2), << R(29), Imm(0) >>),
                     L("and.pred", P(1), << P(1), P(2) >>), If(1, L("trap", NoReg, << >>)) >>
            s4 == << Mov(R(15), Imm(0)) >>
<1>1. /\ \A op, d, s : L(op, d, s).op = op /\ If(1, L(op, d, s)).op = op
      /\ \A d, s : Mov(d, s).op = "mov.u32"
      /\ ReadActiveMask.op = "activemask" /\ RefreshLeader.op = "setp.eq.u32"
  BY DEF L, If, Mov, ReadActiveMask, RefreshLeader
<1>2. Straight(SelectLeader) /\ Straight(WarpSync)
  <2>1. Plain(SelectLeader) /\ Plain(WarpSync)
    BY SelectLeaderPlain
  <2>2. \A k \in 1 .. Len(SelectLeader) : SelectLeader[k].op \notin { "goto", "call", "ret" }
    BY <1>1 DEF SelectLeader
  <2>3. \A k \in 1 .. Len(WarpSync) : WarpSync[k].op \notin { "goto", "call", "ret" }
    BY <1>1 DEF WarpSync
  <2>. QED BY <2>1, <2>2, <2>3 DEF Straight
<1>3. Straight(s3)
  <2>1. Plain(s3)
    BY Temporaries, QuietLine DEF Plain, Lines
  <2>2. \A k \in 1 .. Len(s3) : s3[k].op \notin { "goto", "call", "ret" }
    BY <1>1
  <2>. QED BY <2>1, <2>2 DEF Straight
<1>4. Straight(s4) /\ Straight(Acquire) /\ Straight(Exit)
  <2>1. Quiet(Mov(R(15), Imm(0))) /\ Quiet(L("pds.acquire", NoReg, << R(9), R(29), R(27), R(26) >>)) /\ Quiet(L("exit", NoReg, << >>))
    BY Temporaries, QuietLine, QuietMov
  <2>. QED BY <1>1, <2>1, StraightShort DEF Acquire, Exit
<1>5. \A x, n : Straight(StackBase(x, n))
  <2>. SUFFICES ASSUME NEW x, NEW n PROVE Straight(StackBase(x, n))
    OBVIOUS
  <2>. DEFINE u == << L("mul.lo.u32", R(15), << n, R(17) >>), L("add.u32", R(15), << R(15), Imm(SharedBase) >>) >>
  <2>1. Plain(u)
    BY Temporaries, QuietLine DEF Plain, Lines
  <2>2. \A k \in 1 .. Len(u) : u[k].op \notin { "goto", "call", "ret" }
    BY <1>1
  <2>3. Straight(u)
    BY <2>1, <2>2 DEF Straight
  <2>. HIDE DEF u
  <2>4. Straight(u \o StX(x, R(15)))
    BY <2>3, StraightStX, StraightJoined
  <2>. QED BY <2>4 DEF StackBase, u
<1>. HIDE DEF s3, s4
<1>6. \A c, u : EntryLaid(c, 1) /\ Straight(u) => EntryLaid(c \o u, 1)
  BY EntryLonger
<1>7. \A gp : Straight(SetGp(gp))
  <2>. SUFFICES ASSUME NEW gp PROVE Straight(SetGp(gp))
    OBVIOUS
  <2>1. Quiet(Mov(R(15), Imm(gp))) /\ Mov(R(15), Imm(gp)).op = "mov.u32"
    BY <1>1, Temporaries, QuietMov
  <2>2. Straight(<< Mov(R(15), Imm(gp)) >>)
    BY <2>1, StraightShort
  <2>3. Straight(<< Mov(R(15), Imm(gp)) >> \o StX(3, R(15)))
    BY <2>2, StraightStX, StraightJoined
  <2>4. Straight(<< >>)
    BY DEF Straight, Plain, Lines
  <2>. QED BY <2>3, <2>4 DEF SetGp
<1>8. ASSUME NEW gp PROVE EntryLaid(Prologue(gp), 1)
  BY <1>2, <1>3, <1>4, <1>5, <1>6, <1>7, HeadLaid, StraightStX, StraightLoad DEF Prologue, s3, s4
<1>. QED BY <1>4, <1>8

LEMMA EntryCodeLaid ==
  ASSUME NEW p \in Progs, p.kind = "entry"
  PROVE  EntryLaid(CodeOf(p), First)
<1>1. Lines(Called)
  <2>1. Numbered(EmitAll(Callee, 0), 0 + 1, 0 + Len(Callee))
    BY CallsAssumption, EmitAllNumbered
  <2>2. Lines(FuncPrologue) /\ Lines(EmitAll(Callee, 0))
    BY <2>1, FuncPrologueLines DEF Numbered
  <2>. QED BY <2>2, Joined DEF JoinOf, Called
<1>2. EntryLaid(Called \o Prologue(p.gp), Len(Called) + 1)
  <2>1. EntryLaid(Prologue(p.gp), 1)
    BY PrologueLaid
  <2>. QED BY <1>1, <2>1, EntryLater
<1>3. EntryLaid(Called \o Prologue(p.gp) \o Exit, Len(Called) + 1)
  BY <1>2, PrologueLaid, EntryLonger
<1>4. CodeOf(p) = Called \o Prologue(p.gp) \o Exit
  BY DEF CodeOf
<1>. QED BY <1>3, <1>4 DEF First

----------------------------------------------------------------------------
(* The numbers of a block.                                                 *)
LEMMA GridArith ==
  ASSUME NEW a \in Nat \ { 0 }, NEW b \in Nat \ { 0 }, NEW c \in Nat \ { 0 }, NEW n \in Nat, n < a * b * c,
         NEW p \in Nat \ { 0 }, NEW top \in Int, a * b * c + p <= top
  PROVE  /\ n % a \in Nat /\ (n \div a) % b \in Nat /\ (n \div (a * b)) % c \in Nat
         /\ b * ((n \div (a * b)) % c) \in 0 .. top - 1
         /\ b * ((n \div (a * b)) % c) + ((n \div a) % b) = n \div a
         /\ n \div a \in 0 .. top - 1
         /\ (n \div a) * a \in 0 .. top - 1
         /\ (n \div a) * a + (n % a) = n
         /\ n \in 0 .. top - 1
         /\ a * b \in 0 .. top - 1
         /\ a * b * c \in 0 .. top - 1 /\ a * b * c # 0
         /\ a * b * c + (p - 1) \in 0 .. top - 1
<1>. DEFINE m == a * b
            q == n \div m
<1>1. m \in Nat \ { 0 } /\ m * c \in Nat /\ m * c = a * b * c
  OBVIOUS
<1>2. q \in Nat /\ n = q * m + (n % m) /\ n % m \in Nat
  BY <1>1, DivMod
<1>3. m * c = c * m
  BY <1>1
<1>. HIDE DEF m
<1>4. n < m * c /\ m * c + p <= top
  BY <1>1
<1>. HIDE DEF q
<1>5. q < c
  <2>. SUFFICES ASSUME c <= q PROVE FALSE
    BY <1>2
  <2>1. c * m <= q * m
    <3>1. c = q \/ c < q
      BY <1>2
    <3>2. c < q => c * m + m <= q * m /\ c * m \in Nat /\ q * m \in Nat
      BY <1>1, <1>2, TimesGrows
    <3>3. c * m \in Nat
      BY <1>1, <1>3
    <3>. QED BY <1>1, <3>1, <3>2, <3>3
  <2>2. q * m \in Nat
    BY <1>1, <1>2
  <2>. QED BY <1>1, <1>2, <1>3, <1>4, <2>1, <2>2
<1>6. q % c = q
  <2>1. (0 * c + q) \div c = 0
    BY <1>2, <1>5, QuotientIs
  <2>2. 0 * c + q = q /\ 0 * c = 0
    BY <1>2
  <2>3. q = (q \div c) * c + (q % c) /\ q % c \in Nat
    BY <1>2, DivMod
  <2>4. q \div c = 0
    BY <2>1, <2>2
  <2>. QED BY <2>2, <2>3, <2>4
<1>7. m <= m * c
  <2>1. PICK d \in Nat : c = d + 1
    <3>1. c - 1 \in Nat /\ c = (c - 1) + 1
      OBVIOUS
    <3>. QED BY <3>1
  <2>2. m * c = m * d + m /\ m * d \in Nat
    BY <1>1, <2>1
  <2>. QED BY <1>1, <2>2
<1>8. /\ (n \div a) % b \in Nat /\ n % a \in Nat /\ n \div a \in Nat
      /\ b * (n \div (a * b)) \in 0 .. n
      /\ b * (n \div (a * b)) + ((n \div a) % b) = n \div a
      /\ n \div a <= n
      /\ (n \div a) * a \in 0 .. n
      /\ (n \div a) * a + (n % a) = n
  BY Cube
<1>9. (n \div (a * b)) % c = n \div (a * b) /\ n \div (a * b) \in Nat
  BY <1>2, <1>6 DEF q, m
<1>10. n \in 0 .. top - 1 /\ m \in 0 .. top - 1 /\ m * c \in 0 .. top - 1 /\ m * c + (p - 1) \in 0 .. top - 1
        /\ m * c # 0
  BY <1>1, <1>4, <1>7
<1>11. \A i \in 0 .. n : i \in 0 .. top - 1
  BY <1>10
<1>12. a * b = m /\ a * b * c = m * c
  BY <1>1 DEF m
<1>13. n \div a \in 0 .. n
  BY <1>8
<1>14. b * ((n \div (a * b)) % c) = b * (n \div (a * b))
  BY <1>9
<1>. QED BY <1>8, <1>9, <1>10, <1>11, <1>12, <1>13, <1>14

LEMMA Wraps == Top \in Nat \ { 0 } /\ \A v \in 0 .. Top - 1 : Wrap(v) = v
<1>1. Top \in Int
  BY WidthAssumption DEF Top
<1>2. LogWarp \in Nat /\ LogWarp < Top
  BY WidthAssumption, LaunchesAssumption
<1>3. Top \in Nat \ { 0 }
  BY <1>1, <1>2
<1>4. ASSUME NEW v \in 0 .. Top - 1 PROVE Wrap(v) = v
  <2>1. v \in Nat /\ v < Top
    BY <1>3
  <2>2. (0 * Top + v) \div Top = 0
    BY <1>3, <2>1, QuotientIs
  <2>3. 0 * Top + v = v /\ 0 * Top = 0
    BY <1>3, <2>1
  <2>4. v = (v \div Top) * Top + (v % Top) /\ v % Top \in Nat
    BY <1>3, <2>1, DivMod
  <2>5. v \div Top = 0
    BY <2>2, <2>3
  <2>. QED BY <2>3, <2>4, <2>5 DEF Wrap
<1>. QED BY <1>3, <1>4

(* The lane of a launch.                                                   *)
GridE ==
  /\ prog \in Progs /\ Kind = "entry" /\ code = CodeOf(prog) /\ active \subseteq LaneIds
  /\ input[1] \in DOMAIN Launches /\ Warp \in Nat
  /\ \A l \in active : Linear(l) < Threads(Shape)

TidX(l) == Linear(l) % Shape[1]
TidY(l) == (Linear(l) \div Shape[1]) % Shape[2]
TidZ(l) == (Linear(l) \div (Shape[1] * Shape[2])) % Shape[3]

LaneNumbers(l) ==
  /\ l \in Nat /\ Linear(l) \in Nat /\ Warp \in Nat
  /\ Shape[1] \in Nat /\ Shape[2] \in Nat /\ Shape[3] \in Nat
  /\ TidX(l) \in Nat /\ TidY(l) \in Nat /\ TidZ(l) \in Nat
  /\ Shape[2] * TidZ(l) \in 0 .. Top - 1
  /\ Shape[2] * TidZ(l) + TidY(l) = Linear(l) \div Shape[1]
  /\ Linear(l) \div Shape[1] \in 0 .. Top - 1
  /\ (Linear(l) \div Shape[1]) * Shape[1] \in 0 .. Top - 1
  /\ (Linear(l) \div Shape[1]) * Shape[1] + TidX(l) = Linear(l)
  /\ Linear(l) \in 0 .. Top - 1
  /\ Linear(l) \div 2^LogWarp = Warp
  /\ Shape[1] * Shape[2] \in 0 .. Top - 1
  /\ Threads(Shape) = Shape[1] * Shape[2] * Shape[3]
  /\ Threads(Shape) \in 0 .. Top - 1
  /\ 2^LogWarp - 1 \in 0 .. Top - 1
  /\ Threads(Shape) + (2^LogWarp - 1) \in 0 .. Top - 1
  /\ (Threads(Shape) + (2^LogWarp - 1)) \div 2^LogWarp = WarpsOf(Shape)

LEMMA WarpsCounted ==
  ASSUME NEW s, s[1] \in Nat \ { 0 }, s[2] \in Nat \ { 0 }, s[3] \in Nat \ { 0 }
  PROVE  Threads(s) \in Nat \ { 0 } /\ WarpsOf(s) = (Threads(s) + 2^LogWarp - 1) \div 2^LogWarp /\ WarpsOf(s) \in Nat
<1>. DEFINE n == Threads(s)
            p == 2^LogWarp
            q == (n + p - 1) \div p
<1>1. n \in Nat \ { 0 }
  <2>1. s[1] * s[2] \in Nat \ { 0 }
    OBVIOUS
  <2>. DEFINE m == s[1] * s[2]
  <2>2. m * s[3] \in Nat \ { 0 }
    <3>. HIDE DEF m
    <3>. QED BY <2>1 DEF m
  <2>. QED BY <2>2 DEF Threads
<1>2. p \in Nat \ { 0 }
  BY LaunchesAssumption
<1>3. q \in 1 .. n /\ \A i \in 1 .. n : i * p \in n .. n + p - 1 <=> i = q
  <2>. HIDE DEF n, p
  <2>. QED BY <1>1, <1>2, WarpCount
<1>4. WarpsOf(s) = CHOOSE i \in 1 .. n : i * p \in n .. n + p - 1
  BY DEF WarpsOf
<1>. HIDE DEF n, p, q
<1>5. WarpsOf(s) = q
  BY <1>3, <1>4
<1>6. q \in Nat
  BY <1>1, <1>3
<1>. QED BY <1>1, <1>5, <1>6 DEF n, p, q

LEMMA LaneCounted == ASSUME GridE, NEW l \in active PROVE LaneNumbers(l)
<1>. DEFINE a == Shape[1]
            b == Shape[2]
            c == Shape[3]
            n == Linear(l)
            p == 2^LogWarp
<1>1. /\ a \in Nat \ { 0 } /\ b \in Nat \ { 0 } /\ c \in Nat \ { 0 }
      /\ Threads(Shape) + p <= Top
  <2>1. Shape = Launches[input[1]].shape /\ input[1] \in DOMAIN Launches
    BY DEF GridE, Shape, Launch
  <2>. QED BY <2>1, LaunchesAssumption
<1>2. p \in Nat \ { 0 } /\ l \in 0 .. p - 1
  BY LaunchesAssumption DEF GridE, LaneIds
<1>3. Warp \in Nat /\ n = Warp * p + l /\ n < Threads(Shape)
  BY DEF GridE, Linear
<1>4. l \in Nat /\ n \in Nat
  BY <1>2, <1>3
<1>5. Threads(Shape) = a * b * c
  BY DEF Threads
<1>6. n \div p = Warp
  <2>1. l \in Nat /\ l < p
    BY <1>2
  <2>2. (Warp * p + l) \div p = Warp
    <3>. HIDE DEF p
    <3>. QED BY <1>2, <1>3, <2>1, QuotientIs
  <2>. QED BY <1>3, <2>2
<1>7. Top \in Int
  BY Wraps
<1>8. WarpsOf(Shape) = (Threads(Shape) + p - 1) \div p /\ Threads(Shape) \in Nat
  BY <1>1, WarpsCounted
<1>9. (Threads(Shape) + (p - 1)) \div p = WarpsOf(Shape)
  <2>1. Threads(Shape) + (p - 1) = Threads(Shape) + p - 1
    BY <1>2, <1>8
  <2>. QED BY <1>8, <2>1
<1>10. TidX(l) = n % a /\ TidY(l) = (n \div a) % b /\ TidZ(l) = (n \div (a * b)) % c
  BY DEF TidX, TidY, TidZ
<1>. HIDE DEF a, b, c, n, p
<1>11. n < a * b * c /\ a * b * c + p <= Top
  BY <1>1, <1>3, <1>5
<1>12. /\ n % a \in Nat /\ (n \div a) % b \in Nat /\ (n \div (a * b)) % c \in Nat
       /\ b * ((n \div (a * b)) % c) \in 0 .. Top - 1
       /\ b * ((n \div (a * b)) % c) + ((n \div a) % b) = n \div a
       /\ n \div a \in 0 .. Top - 1
       /\ (n \div a) * a \in 0 .. Top - 1
       /\ (n \div a) * a + (n % a) = n
       /\ n \in 0 .. Top - 1
       /\ a * b \in 0 .. Top - 1
       /\ a * b * c \in 0 .. Top - 1 /\ a * b * c # 0
       /\ a * b * c + (p - 1) \in 0 .. Top - 1
  BY <1>1, <1>2, <1>4, <1>7, <1>11, GridArith
<1>13. p - 1 \in 0 .. Top - 1
  BY <1>1, <1>2, <1>7, <1>8
<1>. QED BY <1>1, <1>3, <1>4, <1>5, <1>6, <1>9, <1>10, <1>12, <1>13 DEF LaneNumbers, a, b, c, n, p

----------------------------------------------------------------------------
(* A step of the entry: all lanes go to the next line.                     *)
InStep == active # {} => now \in First .. Len(code) /\ \A l \in active : pc[l] = now

Running == GridE /\ InStep /\ active # {} /\ ~Over

Leaves(l) ==
  \A a : a \notin AcquireScratch /\ a # Line.d /\ a \in DOMAIN regs[l] =>
           a \in DOMAIN regs'[l] /\ regs'[l][a] = regs[l][a]

LEMMA RunningPlace ==
  ASSUME Running
  PROVE  /\ EntryLaid(code, First) /\ First \in Nat \ { 0 } /\ Len(code) \in Nat
         /\ now \in First .. Len(code) - 1 /\ Line.op \notin { "bra", "goto", "call", "ret" }
<1>1. EntryLaid(code, First)
  BY EntryCodeLaid DEF Running, GridE, Kind
<1>2. Len(code) \in Nat /\ First \in Nat \ { 0 }
  BY <1>1 DEF EntryLaid, Lines
<1>3. now \in First .. Len(code) /\ now # Len(code)
  BY DEF Running, InStep, Over, End
<1>4. now \in First .. Len(code) - 1 /\ now \in First .. Len(code)
  BY <1>2, <1>3
<1>5. Line.op \notin { "bra", "goto", "call", "ret" }
  BY <1>1, <1>4 DEF EntryLaid, Line
<1>. QED BY <1>1, <1>2, <1>4, <1>5

LEMMA WriteLeaves ==
  ASSUME Running, NEW val, Write(val), NEW l \in active
  PROVE  Leaves(l)
<1>1. regs'[l] = IF l \in DOMAIN val THEN Updated(regs[l], [a \in { Line.d } |-> val[l]]) ELSE regs[l]
  BY DEF Write, Running, GridE
<1>. QED BY <1>1 DEF Leaves, Updated

LEMMA RunningStep ==
  ASSUME Running, Next
  PROVE  UNCHANGED grid /\ GoOn /\ \A l \in active : Leaves(l)
<1>1. Line.op \notin { "bra", "goto", "call", "ret" } /\ ~Over
  BY RunningPlace DEF Running
<1>2. ~Branch /\ ~LeaveBlock /\ ~CallLine /\ ~Return /\ ~Done
  BY <1>1 DEF Branch, LeaveBlock, CallLine, Return, Done, At
<1>3. ASSUME regs' = regs PROVE \A l \in active : Leaves(l)
  BY <1>3 DEF Leaves
<1>4. ASSUME NEW val, Computed(val) PROVE UNCHANGED grid /\ GoOn /\ \A l \in active : Leaves(l)
  <2>1. Write(val) /\ UNCHANGED grid /\ GoOn
    BY <1>4 DEF Computed
  <2>. QED BY <2>1, WriteLeaves
<1>5. CASE Compute
  <2>. DEFINE val == [l \in Doing |-> Apply(Line.op, Line.rm, Sources(l))]
  <2>1. Computed(val)
    BY <1>5 DEF Compute
  <2>. HIDE DEF val
  <2>. QED BY <2>1, <1>4
<1>6. CASE Vote
  <2>. DEFINE val == [l \in Doing |-> MapThenSumSet(LAMBDA k : 2^k, Group)]
  <2>1. Computed(val)
    BY <1>6 DEF Vote
  <2>. HIDE DEF val
  <2>. QED BY <2>1, <1>4
<1>7. CASE Shuffle
  <2>. DEFINE val == [l \in Doing |-> IF Reg(l, Line.s[2]) \in Doing THEN Reg(Reg(l, Line.s[2]), Line.s[1]) ELSE Undef]
  <2>1. Computed(val)
    BY <1>7 DEF Shuffle
  <2>. HIDE DEF val
  <2>. QED BY <2>1, <1>4
<1>8. CASE LoadLine
  <2>. DEFINE val == [l \in Doing |-> Read(mem, AccessIn(Loading)[2], Sources(l)[1], AccessIn(Loading)[3])]
  <2>1. Computed(val)
    BY <1>8 DEF LoadLine
  <2>. HIDE DEF val
  <2>. QED BY <2>1, <1>4
<1>9. CASE PoolBase
  <2>. DEFINE val == [l \in Doing |-> Device["wg_base"]]
  <2>1. Computed(val)
    BY <1>9 DEF PoolBase
  <2>. HIDE DEF val
  <2>. QED BY <2>1, <1>4
<1>10. CASE Pass \/ StoreLine \/ Stop
  <2>1. GoOn /\ UNCHANGED grid /\ regs' = regs
    BY <1>10 DEF Pass, StoreLine, Stop, NothingBut
  <2>. QED BY <1>3, <2>1
<1>11. CASE AcquirePool
  <2>1. /\ GoOn /\ UNCHANGED grid
        /\ regs' = [l \in LaneIds |-> IF l \in Doing THEN Updated(regs[l], [a \in AcquireScratch |-> Undef]) ELSE regs[l]]
    BY <1>11 DEF AcquirePool
  <2>2. ASSUME NEW l \in active PROVE Leaves(l)
    <3>1. regs'[l] = IF l \in Doing THEN Updated(regs[l], [a \in AcquireScratch |-> Undef]) ELSE regs[l]
      BY <2>1 DEF Running, GridE
    <3>. QED BY <3>1 DEF Leaves, Updated
  <2>. QED BY <2>1, <2>2
<1>. QED BY <1>2, <1>5, <1>6, <1>7, <1>8, <1>9, <1>10, <1>11 DEF Next

LEMMA LanesInStep ==
  ASSUME Running, Next
  PROVE  now' = now + 1 /\ \A l \in active : pc'[l] = now + 1
<1>1. GoOn
  BY RunningStep
<1>2. now \in Nat
  BY RunningPlace
<1>3. \A l \in active : pc'[l] = now + 1
  BY <1>1 DEF GoOn, Running, GridE, InStep
<1>. DEFINE S == { pc'[l] : l \in active }
<1>4. S = { now + 1 }
  BY <1>3 DEF Running
<1>5. now' = Min(S)
  BY <1>1 DEF GoOn
<1>. HIDE DEF S
<1>6. S \subseteq Nat /\ S # {}
  BY <1>2, <1>4
<1>7. Min(S) \in S
  BY <1>6, LeastIsFirst
<1>. QED BY <1>3, <1>4, <1>5, <1>7

(* What a line that moves or computes writes.                              *)
MoveOps == { "mov.u32", "mov.u64", "cvt.u64.u32" }
PairOps ==
  { "mul.lo.u32", "add.u32", "add.u64", "shr.u32", "setp.ge.u32", "setp.lt.u32", "setp.ne.u32", "and.pred", "or.pred" }

LEMMA PlainOps ==
  ASSUME NEW op \in MoveOps \cup PairOps
  PROVE  op \notin NotComputed
<1>1. op \notin LoadOps /\ op \notin StoreOps
  BY DEF LoadOps, StoreOps, Loading, Storing, Accesses, Bytes, LdOp, StOp, MoveOps, PairOps
<1>. QED BY <1>1 DEF NotComputed, MoveOps, PairOps

LEMMA Computes ==
  ASSUME Running, Next, NEW l \in active,
         NEW op \in MoveOps \cup PairOps, NEW d, NEW s,
         Line = L(op, d, s)
  PROVE  d \in DOMAIN regs'[l] /\ regs'[l][d] = Apply(op, "", Sources(l))
<1>1. Line.op = op /\ Line.rm = "" /\ Line.d = d /\ Line.s = s /\ Line.g[1] = None
  BY DEF L, Always
<1>2. op \notin NotComputed
  BY PlainOps
<1>3. Compute
  BY <1>1, <1>2 DEF Next, Vote, Shuffle, Pass, LoadLine, StoreLine, PoolBase, AcquirePool, Branch, LeaveBlock, Stop,
                    CallLine, Return, Done, At, NotComputed, Running
<1>4. l \in Doing /\ l \in LaneIds
  BY <1>1 DEF Doing, Group, Running, InStep, GridE
<1>. DEFINE val == [k \in Doing |-> Apply(Line.op, Line.rm, Sources(k))]
<1>5. Write(val) /\ val[l] = Apply(op, "", Sources(l)) /\ l \in DOMAIN val
  BY <1>1, <1>3, <1>4 DEF Compute, Computed
<1>. HIDE DEF val
<1>6. regs'[l] = Updated(regs[l], [a \in { d } |-> val[l]])
  BY <1>1, <1>4, <1>5 DEF Write
<1>. QED BY <1>5, <1>6 DEF Updated

LEMMA MovWrites ==
  ASSUME Running, Next, NEW l \in active
  PROVE  \A op, d, s : op \in MoveOps /\ Line = L(op, d, << s >>) /\ Reg(l, s) \in Nat =>
           d \in DOMAIN regs'[l] /\ regs'[l][d] = Reg(l, s)
<1>. SUFFICES ASSUME NEW op \in MoveOps, NEW d, NEW s, Line = L(op, d, << s >>), Reg(l, s) \in Nat
              PROVE  d \in DOMAIN regs'[l] /\ regs'[l][d] = Reg(l, s)
  OBVIOUS
<1>1. d \in DOMAIN regs'[l] /\ regs'[l][d] = Apply(op, "", Sources(l))
  BY Computes
<1>2. Line.s = << s >>
  BY DEF L
<1>3. Sources(l) = << Reg(l, s) >>
  BY <1>2 DEF Sources
<1>4. Apply(op, "", << Reg(l, s) >>) = Reg(l, s)
  <2>. DEFINE v == Reg(l, s)
  <2>. HIDE DEF v
  <2>1. v \in Nat
    BY DEF v
  <2>2. v # Undef
    BY <2>1 DEF Undef
  <2>3. Len(<< v >>) = 1 /\ << v >>[1] = v /\ DOMAIN << v >> = 1 .. 1
    OBVIOUS
  <2>4. ~\E i \in DOMAIN << v >> : << v >>[i] = Undef
    BY <2>2, <2>3
  <2>5. Apply(op, "", << v >>) = Apply1(op, "", v)
    <3>. DEFINE z == << v >>
    <3>1. Len(z) = 1 /\ z[1] = v /\ ~\E i \in DOMAIN z : z[i] = Undef
      BY <2>3, <2>4
    <3>. HIDE DEF z
    <3>2. Apply(op, "", z) = Apply1(op, "", v)
      BY <3>1 DEF Apply
    <3>. QED BY <3>2 DEF z
  <2>6. Apply1(op, "", v) = v
    BY DEF Apply1, MoveOps
  <2>. QED BY <2>5, <2>6 DEF v
<1>. QED BY <1>1, <1>3, <1>4

LEMMA OpWrites ==
  ASSUME Running, Next, NEW l \in active
  PROVE  \A op, d, s, u :
           op \in PairOps /\ Line = L(op, d, << s, u >>)
               /\ Reg(l, s) \in Nat /\ Reg(l, u) \in Nat =>
             d \in DOMAIN regs'[l] /\ regs'[l][d] = Apply2(op, "", Reg(l, s), Reg(l, u))
<1>1. ASSUME NEW op, NEW d, NEW s, NEW u,
             op \in PairOps /\ Line = L(op, d, << s, u >>)
               /\ Reg(l, s) \in Nat /\ Reg(l, u) \in Nat
      PROVE  d \in DOMAIN regs'[l] /\ regs'[l][d] = Apply2(op, "", Reg(l, s), Reg(l, u))
  <2>1. d \in DOMAIN regs'[l] /\ regs'[l][d] = Apply(op, "", Sources(l))
    BY <1>1, Computes
  <2>2. Line.s = << s, u >>
    BY <1>1 DEF L
  <2>3. Sources(l) = << Reg(l, s), Reg(l, u) >>
    BY <2>2 DEF Sources
  <2>4. Apply(op, "", << Reg(l, s), Reg(l, u) >>) = Apply2(op, "", Reg(l, s), Reg(l, u))
    <3>. DEFINE v == Reg(l, s)
                w == Reg(l, u)
    <3>. HIDE DEF v, w
    <3>1. v # Undef /\ w # Undef
      BY <1>1 DEF v, w, Undef
    <3>. DEFINE z == << v, w >>
    <3>2. Len(z) = 2 /\ z[1] = v /\ z[2] = w /\ DOMAIN z = 1 .. 2
      OBVIOUS
    <3>. HIDE DEF z
    <3>3. ~\E i \in DOMAIN z : z[i] = Undef
      <4>1. \A i \in 1 .. 2 : i = 1 \/ i = 2
        OBVIOUS
      <4>. QED BY <3>1, <3>2, <4>1
    <3>4. Apply(op, "", z) = Apply2(op, "", v, w)
      BY <3>2, <3>3 DEF Apply
    <3>. QED BY <3>4 DEF v, w, z
  <2>. QED BY <2>1, <2>3, <2>4
<1>. QED BY Zenon, <1>1

----------------------------------------------------------------------------
(* Where the lines of the entry do not write.                              *)
Free(c, a, m, n) == \A k \in m .. n - 1 : c[k].d # a

LEMMA EntryFree ==
  ASSUME NEW c, NEW b, NEW e, EntryLaid(c, b), e = Len(c)
  PROVE  LET t == b + HeadLength
         IN  /\ Free(c, RD(0), b + 1, e)
             /\ Free(c, R(30), b + 2, e)
             /\ Free(c, R(28), b + 3, e)
             /\ Free(c, R(29), b + 4, e)
             /\ Free(c, R(0), t + 1, e)
             /\ Free(c, R(3), t + 2, t + 16)
             /\ Free(c, R(4), t + 3, t + 16)
             /\ Free(c, R(5), t + 4, t + 16)
             /\ Free(c, R(6), t + 5, t + 16)
             /\ Free(c, R(7), t + 6, t + 16)
             /\ Free(c, R(8), t + 7, t + 16)
             /\ Free(c, R(9), t + 11, t + 16)
             /\ Free(c, R(10), t + 12, e)
             /\ Free(c, R(11), t + 14, t + 16)
             /\ Free(c, R(12), t + 16, e)
             /\ Free(c, RD(2), t + 17, e)
<1>. DEFINE t == b + HeadLength
<1>1. b \in Nat \ { 0 } /\ t \in Nat /\ b + 6 <= t /\ e \in Nat /\ t + 17 <= e
  <2>1. b \in Nat \ { 0 } /\ HeadLength \in Nat /\ HeadLength >= 6 /\ t + 17 <= e /\ Lines(c)
    BY DEF EntryLaid
  <2>. QED BY <2>1 DEF Lines
<1>2. \A op, d, s : L(op, d, s).d = d
  BY DEF L
<1>laid. /\ c[b] = L("mov.u64", RD(0), << Special("global_base") >>)
      /\ c[b + 1] = L("mov.u32", R(30), << Special("knl_vaddr") >>)
      /\ c[b + 2] = L("mov.u32", R(28), << Special("pds_base_vaddr") >>)
      /\ c[b + 3] = L("mov.u32", R(29), << Special("pds_size_per_thread") >>)
      /\ c[t] = L("mov.u32", R(0), << Special("laneid") >>)
      /\ c[t + 1] = L("mov.u32", R(3), << Special("tid.x") >>)
      /\ c[t + 2] = L("mov.u32", R(4), << Special("tid.y") >>)
      /\ c[t + 3] = L("mov.u32", R(5), << Special("tid.z") >>)
      /\ c[t + 4] = L("mov.u32", R(6), << Special("ntid.x") >>)
      /\ c[t + 5] = L("mov.u32", R(7), << Special("ntid.y") >>)
      /\ c[t + 6] = L("mov.u32", R(8), << Special("ntid.z") >>)
      /\ c[t + 7] = L("mul.lo.u32", R(9), << R(7), R(5) >>)
      /\ c[t + 8] = L("add.u32", R(9), << R(9), R(4) >>)
      /\ c[t + 9] = L("mul.lo.u32", R(9), << R(9), R(6) >>)
      /\ c[t + 10] = L("add.u32", R(9), << R(9), R(3) >>)
      /\ c[t + 11] = L("shr.u32", R(10), << R(9), Imm(LogWarp) >>)
      /\ c[t + 12] = L("mul.lo.u32", R(11), << R(6), R(7) >>)
      /\ c[t + 13] = L("mul.lo.u32", R(11), << R(11), R(8) >>)
      /\ c[t + 14] = L("add.u32", R(12), << R(11), Imm(2^LogWarp - 1) >>)
      /\ c[t + 15] = L("shr.u32", R(12), << R(12), Imm(LogWarp) >>)
      /\ c[t + 16] = L("mov.u64", RD(2), << Special("shmem") >>)
  BY DEF EntryLaid
<1>. HIDE DEF t
<1>3a. c[b].d = RD(0) /\ c[b + 1].d = R(30) /\ c[b + 2].d = R(28) /\ c[b + 3].d = R(29)
  BY <1>2, <1>laid
<1>3b. c[t].d = R(0) /\ c[t + 1].d = R(3) /\ c[t + 2].d = R(4) /\ c[t + 3].d = R(5)
  BY <1>2, <1>laid
<1>3c. c[t + 4].d = R(6) /\ c[t + 5].d = R(7) /\ c[t + 6].d = R(8) /\ c[t + 7].d = R(9)
  BY <1>2, <1>laid
<1>3d. c[t + 8].d = R(9) /\ c[t + 9].d = R(9) /\ c[t + 10].d = R(9) /\ c[t + 11].d = R(10)
  BY <1>2, <1>laid
<1>3e. c[t + 12].d = R(11) /\ c[t + 13].d = R(11) /\ c[t + 14].d = R(12) /\ c[t + 15].d = R(12)
  BY <1>2, <1>laid
<1>3f. c[t + 16].d = RD(2)
  BY <1>2, <1>laid
<1>4. \A k \in b .. e : c[k].d \in ContextRegs => k \in { b, b + 1, b + 2, b + 3, t, t + 11, t + 14, t + 15, t + 16 }
  BY DEF EntryLaid, t
<1>5. /\ RD(0) \in ContextRegs /\ R(30) \in ContextRegs /\ R(28) \in ContextRegs /\ R(29) \in ContextRegs
      /\ R(0) \in ContextRegs /\ R(10) \in ContextRegs /\ R(12) \in ContextRegs /\ RD(2) \in ContextRegs
  BY DEF ContextRegs
<1>6. /\ \A i : RD(i) = << "rd", i >>
      /\ \A i : R(i) = << "r", i >>
  BY DEF R, RD
<1>8. Free(c, RD(0), b + 1, e)
  <2>1. /\ c[b + 1].d # RD(0) /\ c[b + 2].d # RD(0) /\ c[b + 3].d # RD(0)
        /\ c[t].d # RD(0)
        /\ c[t + 11].d # RD(0)
        /\ c[t + 14].d # RD(0) /\ c[t + 15].d # RD(0)
        /\ c[t + 16].d # RD(0)
    <3>1. c[b + 1].d # RD(0) /\ c[b + 2].d # RD(0) /\ c[b + 3].d # RD(0)
      BY <1>3a, <1>6
    <3>2. c[t].d # RD(0)
      BY <1>3b, <1>6
    <3>3. c[t + 11].d # RD(0)
      BY <1>3d, <1>6
    <3>4. c[t + 14].d # RD(0) /\ c[t + 15].d # RD(0)
      BY <1>3e, <1>6
    <3>5. c[t + 16].d # RD(0)
      BY <1>3f, <1>6
    <3>. QED BY <3>1, <3>2, <3>3, <3>4, <3>5
  <2>2. ASSUME NEW k \in b + 1 .. e - 1 PROVE c[k].d # RD(0)
    <3>1. k \in b .. e /\ k > b
      BY <1>1
    <3>2. c[k].d = RD(0) => k \in { b, b + 1, b + 2, b + 3, t, t + 11, t + 14, t + 15, t + 16 }
      BY <1>4, <1>5, <3>1
    <3>3. k \in { b, b + 1, b + 2, b + 3, t, t + 11, t + 14, t + 15, t + 16 } => k = b + 1 \/ k = b + 2
            \/ k = b + 3 \/ k = t \/ k = t + 11 \/ k = t + 14 \/ k = t + 15 \/ k = t + 16
      BY <1>1, <3>1
    <3>. QED BY <2>1, <3>2, <3>3
  <2>. QED BY <2>2 DEF Free
<1>9. Free(c, R(30), b + 2, e)
  <2>1. /\ c[b + 2].d # R(30) /\ c[b + 3].d # R(30)
        /\ c[t].d # R(30)
        /\ c[t + 11].d # R(30)
        /\ c[t + 14].d # R(30) /\ c[t + 15].d # R(30)
        /\ c[t + 16].d # R(30)
    <3>1. c[b + 2].d # R(30) /\ c[b + 3].d # R(30)
      BY <1>3a, <1>6
    <3>2. c[t].d # R(30)
      BY <1>3b, <1>6
    <3>3. c[t + 11].d # R(30)
      BY <1>3d, <1>6
    <3>4. c[t + 14].d # R(30) /\ c[t + 15].d # R(30)
      BY <1>3e, <1>6
    <3>5. c[t + 16].d # R(30)
      BY <1>3f, <1>6
    <3>. QED BY <3>1, <3>2, <3>3, <3>4, <3>5
  <2>2. ASSUME NEW k \in b + 2 .. e - 1 PROVE c[k].d # R(30)
    <3>1. k \in b .. e /\ k > b + 1
      BY <1>1
    <3>2. c[k].d = R(30) => k \in { b, b + 1, b + 2, b + 3, t, t + 11, t + 14, t + 15, t + 16 }
      BY <1>4, <1>5, <3>1
    <3>3. k \in { b, b + 1, b + 2, b + 3, t, t + 11, t + 14, t + 15, t + 16 } => k = b + 2 \/ k = b + 3
            \/ k = t \/ k = t + 11 \/ k = t + 14 \/ k = t + 15 \/ k = t + 16
      BY <1>1, <3>1
    <3>. QED BY <2>1, <3>2, <3>3
  <2>. QED BY <2>2 DEF Free
<1>10. Free(c, R(28), b + 3, e)
  <2>1. /\ c[b + 3].d # R(28)
        /\ c[t].d # R(28)
        /\ c[t + 11].d # R(28)
        /\ c[t + 14].d # R(28) /\ c[t + 15].d # R(28)
        /\ c[t + 16].d # R(28)
    <3>1. c[b + 3].d # R(28)
      BY <1>3a, <1>6
    <3>2. c[t].d # R(28)
      BY <1>3b, <1>6
    <3>3. c[t + 11].d # R(28)
      BY <1>3d, <1>6
    <3>4. c[t + 14].d # R(28) /\ c[t + 15].d # R(28)
      BY <1>3e, <1>6
    <3>5. c[t + 16].d # R(28)
      BY <1>3f, <1>6
    <3>. QED BY <3>1, <3>2, <3>3, <3>4, <3>5
  <2>2. ASSUME NEW k \in b + 3 .. e - 1 PROVE c[k].d # R(28)
    <3>1. k \in b .. e /\ k > b + 2
      BY <1>1
    <3>2. c[k].d = R(28) => k \in { b, b + 1, b + 2, b + 3, t, t + 11, t + 14, t + 15, t + 16 }
      BY <1>4, <1>5, <3>1
    <3>3. k \in { b, b + 1, b + 2, b + 3, t, t + 11, t + 14, t + 15, t + 16 } => k = b + 3 \/ k = t
            \/ k = t + 11 \/ k = t + 14 \/ k = t + 15 \/ k = t + 16
      BY <1>1, <3>1
    <3>. QED BY <2>1, <3>2, <3>3
  <2>. QED BY <2>2 DEF Free
<1>11. Free(c, R(29), b + 4, e)
  <2>1. /\ c[t].d # R(29)
        /\ c[t + 11].d # R(29)
        /\ c[t + 14].d # R(29) /\ c[t + 15].d # R(29)
        /\ c[t + 16].d # R(29)
    <3>1. c[t].d # R(29)
      BY <1>3b, <1>6
    <3>2. c[t + 11].d # R(29)
      BY <1>3d, <1>6
    <3>3. c[t + 14].d # R(29) /\ c[t + 15].d # R(29)
      BY <1>3e, <1>6
    <3>4. c[t + 16].d # R(29)
      BY <1>3f, <1>6
    <3>. QED BY <3>1, <3>2, <3>3, <3>4
  <2>2. ASSUME NEW k \in b + 4 .. e - 1 PROVE c[k].d # R(29)
    <3>1. k \in b .. e /\ k > b + 3
      BY <1>1
    <3>2. c[k].d = R(29) => k \in { b, b + 1, b + 2, b + 3, t, t + 11, t + 14, t + 15, t + 16 }
      BY <1>4, <1>5, <3>1
    <3>3. k \in { b, b + 1, b + 2, b + 3, t, t + 11, t + 14, t + 15, t + 16 } => k = t \/ k = t + 11
            \/ k = t + 14 \/ k = t + 15 \/ k = t + 16
      BY <1>1, <3>1
    <3>. QED BY <2>1, <3>2, <3>3
  <2>. QED BY <2>2 DEF Free
<1>12. Free(c, R(0), t + 1, e)
  <2>1. /\ c[t + 11].d # R(0)
        /\ c[t + 14].d # R(0) /\ c[t + 15].d # R(0)
        /\ c[t + 16].d # R(0)
    <3>1. c[t + 11].d # R(0)
      BY <1>3d, <1>6
    <3>2. c[t + 14].d # R(0) /\ c[t + 15].d # R(0)
      BY <1>3e, <1>6
    <3>3. c[t + 16].d # R(0)
      BY <1>3f, <1>6
    <3>. QED BY <3>1, <3>2, <3>3
  <2>2. ASSUME NEW k \in t + 1 .. e - 1 PROVE c[k].d # R(0)
    <3>1. k \in b .. e /\ k > t
      BY <1>1
    <3>2. c[k].d = R(0) => k \in { b, b + 1, b + 2, b + 3, t, t + 11, t + 14, t + 15, t + 16 }
      BY <1>4, <1>5, <3>1
    <3>3. k \in { b, b + 1, b + 2, b + 3, t, t + 11, t + 14, t + 15, t + 16 } => k = t + 11 \/ k = t + 14
            \/ k = t + 15 \/ k = t + 16
      BY <1>1, <3>1
    <3>. QED BY <2>1, <3>2, <3>3
  <2>. QED BY <2>2 DEF Free
<1>13. Free(c, R(3), t + 2, t + 16)
  <2>1. /\ c[t + 2].d # R(3) /\ c[t + 3].d # R(3)
        /\ c[t + 4].d # R(3) /\ c[t + 5].d # R(3) /\ c[t + 6].d # R(3) /\ c[t + 7].d # R(3)
        /\ c[t + 8].d # R(3) /\ c[t + 9].d # R(3) /\ c[t + 10].d # R(3) /\ c[t + 11].d # R(3)
        /\ c[t + 12].d # R(3) /\ c[t + 13].d # R(3) /\ c[t + 14].d # R(3) /\ c[t + 15].d # R(3)
    <3>1. c[t + 2].d # R(3) /\ c[t + 3].d # R(3)
      BY <1>3b, <1>6
    <3>2. c[t + 4].d # R(3) /\ c[t + 5].d # R(3) /\ c[t + 6].d # R(3) /\ c[t + 7].d # R(3)
      BY <1>3c, <1>6
    <3>3. c[t + 8].d # R(3) /\ c[t + 9].d # R(3) /\ c[t + 10].d # R(3) /\ c[t + 11].d # R(3)
      BY <1>3d, <1>6
    <3>4. c[t + 12].d # R(3) /\ c[t + 13].d # R(3) /\ c[t + 14].d # R(3) /\ c[t + 15].d # R(3)
      BY <1>3e, <1>6
    <3>. QED BY <3>1, <3>2, <3>3, <3>4
  <2>2. ASSUME NEW k \in t + 2 .. t + 16 - 1 PROVE c[k].d # R(3)
    <3>1. k = t + 2 \/ k = t + 3 \/ k = t + 4 \/ k = t + 5 \/ k = t + 6 \/ k = t + 7 \/ k = t + 8 \/ k = t + 9
            \/ k = t + 10 \/ k = t + 11 \/ k = t + 12 \/ k = t + 13 \/ k = t + 14 \/ k = t + 15
      BY <1>1
    <3>. QED BY <2>1, <3>1
  <2>. QED BY <1>1, <2>2 DEF Free
<1>14. Free(c, R(4), t + 3, t + 16)
  <2>1. /\ c[t + 3].d # R(4)
        /\ c[t + 4].d # R(4) /\ c[t + 5].d # R(4) /\ c[t + 6].d # R(4) /\ c[t + 7].d # R(4)
        /\ c[t + 8].d # R(4) /\ c[t + 9].d # R(4) /\ c[t + 10].d # R(4) /\ c[t + 11].d # R(4)
        /\ c[t + 12].d # R(4) /\ c[t + 13].d # R(4) /\ c[t + 14].d # R(4) /\ c[t + 15].d # R(4)
    <3>1. c[t + 3].d # R(4)
      BY <1>3b, <1>6
    <3>2. c[t + 4].d # R(4) /\ c[t + 5].d # R(4) /\ c[t + 6].d # R(4) /\ c[t + 7].d # R(4)
      BY <1>3c, <1>6
    <3>3. c[t + 8].d # R(4) /\ c[t + 9].d # R(4) /\ c[t + 10].d # R(4) /\ c[t + 11].d # R(4)
      BY <1>3d, <1>6
    <3>4. c[t + 12].d # R(4) /\ c[t + 13].d # R(4) /\ c[t + 14].d # R(4) /\ c[t + 15].d # R(4)
      BY <1>3e, <1>6
    <3>. QED BY <3>1, <3>2, <3>3, <3>4
  <2>2. ASSUME NEW k \in t + 3 .. t + 16 - 1 PROVE c[k].d # R(4)
    <3>1. k = t + 3 \/ k = t + 4 \/ k = t + 5 \/ k = t + 6 \/ k = t + 7 \/ k = t + 8 \/ k = t + 9
            \/ k = t + 10 \/ k = t + 11 \/ k = t + 12 \/ k = t + 13 \/ k = t + 14 \/ k = t + 15
      BY <1>1
    <3>. QED BY <2>1, <3>1
  <2>. QED BY <1>1, <2>2 DEF Free
<1>15. Free(c, R(5), t + 4, t + 16)
  <2>1. /\ c[t + 4].d # R(5) /\ c[t + 5].d # R(5) /\ c[t + 6].d # R(5) /\ c[t + 7].d # R(5)
        /\ c[t + 8].d # R(5) /\ c[t + 9].d # R(5) /\ c[t + 10].d # R(5) /\ c[t + 11].d # R(5)
        /\ c[t + 12].d # R(5) /\ c[t + 13].d # R(5) /\ c[t + 14].d # R(5) /\ c[t + 15].d # R(5)
    <3>1. c[t + 4].d # R(5) /\ c[t + 5].d # R(5) /\ c[t + 6].d # R(5) /\ c[t + 7].d # R(5)
      BY <1>3c, <1>6
    <3>2. c[t + 8].d # R(5) /\ c[t + 9].d # R(5) /\ c[t + 10].d # R(5) /\ c[t + 11].d # R(5)
      BY <1>3d, <1>6
    <3>3. c[t + 12].d # R(5) /\ c[t + 13].d # R(5) /\ c[t + 14].d # R(5) /\ c[t + 15].d # R(5)
      BY <1>3e, <1>6
    <3>. QED BY <3>1, <3>2, <3>3
  <2>2. ASSUME NEW k \in t + 4 .. t + 16 - 1 PROVE c[k].d # R(5)
    <3>1. k = t + 4 \/ k = t + 5 \/ k = t + 6 \/ k = t + 7 \/ k = t + 8 \/ k = t + 9 \/ k = t + 10
            \/ k = t + 11 \/ k = t + 12 \/ k = t + 13 \/ k = t + 14 \/ k = t + 15
      BY <1>1
    <3>. QED BY <2>1, <3>1
  <2>. QED BY <1>1, <2>2 DEF Free
<1>16. Free(c, R(6), t + 5, t + 16)
  <2>1. /\ c[t + 5].d # R(6) /\ c[t + 6].d # R(6) /\ c[t + 7].d # R(6)
        /\ c[t + 8].d # R(6) /\ c[t + 9].d # R(6) /\ c[t + 10].d # R(6) /\ c[t + 11].d # R(6)
        /\ c[t + 12].d # R(6) /\ c[t + 13].d # R(6) /\ c[t + 14].d # R(6) /\ c[t + 15].d # R(6)
    <3>1. c[t + 5].d # R(6) /\ c[t + 6].d # R(6) /\ c[t + 7].d # R(6)
      BY <1>3c, <1>6
    <3>2. c[t + 8].d # R(6) /\ c[t + 9].d # R(6) /\ c[t + 10].d # R(6) /\ c[t + 11].d # R(6)
      BY <1>3d, <1>6
    <3>3. c[t + 12].d # R(6) /\ c[t + 13].d # R(6) /\ c[t + 14].d # R(6) /\ c[t + 15].d # R(6)
      BY <1>3e, <1>6
    <3>. QED BY <3>1, <3>2, <3>3
  <2>2. ASSUME NEW k \in t + 5 .. t + 16 - 1 PROVE c[k].d # R(6)
    <3>1. k = t + 5 \/ k = t + 6 \/ k = t + 7 \/ k = t + 8 \/ k = t + 9 \/ k = t + 10 \/ k = t + 11
            \/ k = t + 12 \/ k = t + 13 \/ k = t + 14 \/ k = t + 15
      BY <1>1
    <3>. QED BY <2>1, <3>1
  <2>. QED BY <1>1, <2>2 DEF Free
<1>17. Free(c, R(7), t + 6, t + 16)
  <2>1. /\ c[t + 6].d # R(7) /\ c[t + 7].d # R(7)
        /\ c[t + 8].d # R(7) /\ c[t + 9].d # R(7) /\ c[t + 10].d # R(7) /\ c[t + 11].d # R(7)
        /\ c[t + 12].d # R(7) /\ c[t + 13].d # R(7) /\ c[t + 14].d # R(7) /\ c[t + 15].d # R(7)
    <3>1. c[t + 6].d # R(7) /\ c[t + 7].d # R(7)
      BY <1>3c, <1>6
    <3>2. c[t + 8].d # R(7) /\ c[t + 9].d # R(7) /\ c[t + 10].d # R(7) /\ c[t + 11].d # R(7)
      BY <1>3d, <1>6
    <3>3. c[t + 12].d # R(7) /\ c[t + 13].d # R(7) /\ c[t + 14].d # R(7) /\ c[t + 15].d # R(7)
      BY <1>3e, <1>6
    <3>. QED BY <3>1, <3>2, <3>3
  <2>2. ASSUME NEW k \in t + 6 .. t + 16 - 1 PROVE c[k].d # R(7)
    <3>1. k = t + 6 \/ k = t + 7 \/ k = t + 8 \/ k = t + 9 \/ k = t + 10 \/ k = t + 11 \/ k = t + 12
            \/ k = t + 13 \/ k = t + 14 \/ k = t + 15
      BY <1>1
    <3>. QED BY <2>1, <3>1
  <2>. QED BY <1>1, <2>2 DEF Free
<1>18. Free(c, R(8), t + 7, t + 16)
  <2>1. /\ c[t + 7].d # R(8)
        /\ c[t + 8].d # R(8) /\ c[t + 9].d # R(8) /\ c[t + 10].d # R(8) /\ c[t + 11].d # R(8)
        /\ c[t + 12].d # R(8) /\ c[t + 13].d # R(8) /\ c[t + 14].d # R(8) /\ c[t + 15].d # R(8)
    <3>1. c[t + 7].d # R(8)
      BY <1>3c, <1>6
    <3>2. c[t + 8].d # R(8) /\ c[t + 9].d # R(8) /\ c[t + 10].d # R(8) /\ c[t + 11].d # R(8)
      BY <1>3d, <1>6
    <3>3. c[t + 12].d # R(8) /\ c[t + 13].d # R(8) /\ c[t + 14].d # R(8) /\ c[t + 15].d # R(8)
      BY <1>3e, <1>6
    <3>. QED BY <3>1, <3>2, <3>3
  <2>2. ASSUME NEW k \in t + 7 .. t + 16 - 1 PROVE c[k].d # R(8)
    <3>1. k = t + 7 \/ k = t + 8 \/ k = t + 9 \/ k = t + 10 \/ k = t + 11 \/ k = t + 12 \/ k = t + 13
            \/ k = t + 14 \/ k = t + 15
      BY <1>1
    <3>. QED BY <2>1, <3>1
  <2>. QED BY <1>1, <2>2 DEF Free
<1>19. Free(c, R(9), t + 11, t + 16)
  <2>1. /\ c[t + 11].d # R(9)
        /\ c[t + 12].d # R(9) /\ c[t + 13].d # R(9) /\ c[t + 14].d # R(9) /\ c[t + 15].d # R(9)
    <3>1. c[t + 11].d # R(9)
      BY <1>3d, <1>6
    <3>2. c[t + 12].d # R(9) /\ c[t + 13].d # R(9) /\ c[t + 14].d # R(9) /\ c[t + 15].d # R(9)
      BY <1>3e, <1>6
    <3>. QED BY <3>1, <3>2
  <2>2. ASSUME NEW k \in t + 11 .. t + 16 - 1 PROVE c[k].d # R(9)
    <3>1. k = t + 11 \/ k = t + 12 \/ k = t + 13 \/ k = t + 14 \/ k = t + 15
      BY <1>1
    <3>. QED BY <2>1, <3>1
  <2>. QED BY <1>1, <2>2 DEF Free
<1>20. Free(c, R(10), t + 12, e)
  <2>1. /\ c[t + 14].d # R(10) /\ c[t + 15].d # R(10)
        /\ c[t + 16].d # R(10)
    <3>1. c[t + 14].d # R(10) /\ c[t + 15].d # R(10)
      BY <1>3e, <1>6
    <3>2. c[t + 16].d # R(10)
      BY <1>3f, <1>6
    <3>. QED BY <3>1, <3>2
  <2>2. ASSUME NEW k \in t + 12 .. e - 1 PROVE c[k].d # R(10)
    <3>1. k \in b .. e /\ k > t + 11
      BY <1>1
    <3>2. c[k].d = R(10) => k \in { b, b + 1, b + 2, b + 3, t, t + 11, t + 14, t + 15, t + 16 }
      BY <1>4, <1>5, <3>1
    <3>3. k \in { b, b + 1, b + 2, b + 3, t, t + 11, t + 14, t + 15, t + 16 } => k = t + 14 \/ k = t + 15
            \/ k = t + 16
      BY <1>1, <3>1
    <3>. QED BY <2>1, <3>2, <3>3
  <2>. QED BY <2>2 DEF Free
<1>21. Free(c, R(11), t + 14, t + 16)
  <2>1. c[t + 14].d # R(11) /\ c[t + 15].d # R(11)
    BY <1>3e, <1>6
  <2>2. ASSUME NEW k \in t + 14 .. t + 16 - 1 PROVE c[k].d # R(11)
    <3>1. k = t + 14 \/ k = t + 15
      BY <1>1
    <3>. QED BY <2>1, <3>1
  <2>. QED BY <1>1, <2>2 DEF Free
<1>22. Free(c, R(12), t + 16, e)
  <2>1. c[t + 16].d # R(12)
    BY <1>3f, <1>6
  <2>2. ASSUME NEW k \in t + 16 .. e - 1 PROVE c[k].d # R(12)
    <3>1. k \in b .. e /\ k > t + 15
      BY <1>1
    <3>2. c[k].d = R(12) => k \in { b, b + 1, b + 2, b + 3, t, t + 11, t + 14, t + 15, t + 16 }
      BY <1>4, <1>5, <3>1
    <3>3. k \in { b, b + 1, b + 2, b + 3, t, t + 11, t + 14, t + 15, t + 16 } => k = t + 16
      BY <1>1, <3>1
    <3>. QED BY <2>1, <3>2, <3>3
  <2>. QED BY <2>2 DEF Free
<1>23. Free(c, RD(2), t + 17, e)
  <2>2. ASSUME NEW k \in t + 17 .. e - 1 PROVE c[k].d # RD(2)
    <3>1. k \in b .. e /\ k > t + 16
      BY <1>1
    <3>2. c[k].d = RD(2) => k \in { b, b + 1, b + 2, b + 3, t, t + 11, t + 14, t + 15, t + 16 }
      BY <1>4, <1>5, <3>1
    <3>3. k \in { b, b + 1, b + 2, b + 3, t, t + 11, t + 14, t + 15, t + 16 } => FALSE
      BY <1>1, <3>1
    <3>. QED BY <3>2, <3>3
  <2>. QED BY <2>2 DEF Free
<1>. QED BY <1>8, <1>9, <1>10, <1>11, <1>12, <1>13, <1>14, <1>15, <1>16, <1>17, <1>18, <1>19, <1>20, <1>21, <1>22,
            <1>23 DEF t

----------------------------------------------------------------------------
(* What the lane has in its registers, as far as it has come.              *)
Has(l, m, n, a, v) == now \in m .. n => a \in DOMAIN regs[l] /\ regs[l][a] = v

EntryHas(l) ==
  LET b == First
      t == First + HeadLength
      e == Len(code)
  IN  /\ Has(l, b + 1, e, RD(0), Device["global_base"])
      /\ Has(l, b + 2, e, R(30), Device["knl_vaddr"])
      /\ Has(l, b + 3, e, R(28), Launch.pdsBase)
      /\ Has(l, b + 4, e, R(29), Launch.pdsSize)
      /\ Has(l, t + 1, e, R(0), l)
      /\ Has(l, t + 2, t + 16, R(3), TidX(l))
      /\ Has(l, t + 3, t + 16, R(4), TidY(l))
      /\ Has(l, t + 4, t + 16, R(5), TidZ(l))
      /\ Has(l, t + 5, t + 16, R(6), Shape[1])
      /\ Has(l, t + 6, t + 16, R(7), Shape[2])
      /\ Has(l, t + 7, t + 16, R(8), Shape[3])
      /\ Has(l, t + 8, t + 8, R(9), Shape[2] * TidZ(l))
      /\ Has(l, t + 9, t + 9, R(9), Linear(l) \div Shape[1])
      /\ Has(l, t + 10, t + 10, R(9), (Linear(l) \div Shape[1]) * Shape[1])
      /\ Has(l, t + 11, t + 16, R(9), Linear(l))
      /\ Has(l, t + 12, e, R(10), Warp)
      /\ Has(l, t + 13, t + 13, R(11), Shape[1] * Shape[2])
      /\ Has(l, t + 14, t + 16, R(11), Threads(Shape))
      /\ Has(l, t + 15, t + 15, R(12), Threads(Shape) + (2^LogWarp - 1))
      /\ Has(l, t + 16, e, R(12), WarpsOf(Shape))
      /\ Has(l, t + 17, e, RD(2), Device["shmem"])

Sets(l, a, v) == a \in DOMAIN regs'[l] /\ regs'[l][a] = v

LEMMA RegOf ==
  /\ \A l, i : R(i) \in DOMAIN regs[l] => Reg(l, R(i)) = regs[l][R(i)]
  /\ \A l, name : Reg(l, Special(name)) = SpecialOf(l, name)
  /\ \A l, n : Reg(l, Imm(n)) = Wrap(n)
BY DEF Reg, R, Special, Imm

LEMMA Sums ==
  /\ \A x, y \in Nat : x * y \in 0 .. Top - 1 => Apply2("mul.lo.u32", "", x, y) = x * y
  /\ \A x, y \in Nat : x + y \in 0 .. Top - 1 => Apply2("add.u32", "", x, y) = x + y
  /\ \A x \in Nat : Apply2("shr.u32", "", x, LogWarp) = x \div 2^LogWarp
<1>1. \A x, y : /\ Apply2("mul.lo.u32", "", x, y) = Wrap(x * y)
                /\ Apply2("add.u32", "", x, y) = Wrap(x + y)
                /\ Apply2("shr.u32", "", x, y) = ShrU(x, y)
  BY DEF Apply2, Comparisons
<1>2. \A x : ShrU(x, LogWarp) = x \div 2^LogWarp
  BY LaunchesAssumption, WidthAssumption DEF ShrU
<1>. QED BY <1>1, <1>2, Wraps

LEMMA SetsBy ==
  ASSUME Running, Next, NEW l \in active
  PROVE  /\ \A d, name : /\ Line = L("mov.u32", d, << Special(name) >>) \/ Line = L("mov.u64", d, << Special(name) >>)
                         /\ SpecialOf(l, name) \in Nat
                         => Sets(l, d, SpecialOf(l, name))
         /\ \A d, s, u, x, y : /\ Line = L("mul.lo.u32", d, << s, u >>) /\ Reg(l, s) = x /\ Reg(l, u) = y
                              /\ x \in Nat /\ y \in Nat /\ x * y \in 0 .. Top - 1
                              => Sets(l, d, x * y)
         /\ \A d, s, u, x, y : /\ Line = L("add.u32", d, << s, u >>) /\ Reg(l, s) = x /\ Reg(l, u) = y
                              /\ x \in Nat /\ y \in Nat /\ x + y \in 0 .. Top - 1
                              => Sets(l, d, x + y)
         /\ \A d, s, x : /\ Line = L("shr.u32", d, << s, Imm(LogWarp) >>) /\ Reg(l, s) = x
                        /\ x \in Nat
                        => Sets(l, d, x \div 2^LogWarp)
<1>1. ASSUME NEW d, NEW name, SpecialOf(l, name) \in Nat,
             Line = L("mov.u32", d, << Special(name) >>) \/ Line = L("mov.u64", d, << Special(name) >>)
      PROVE  Sets(l, d, SpecialOf(l, name))
  BY <1>1, MovWrites, RegOf DEF Sets, MoveOps
<1>5. \A op, d, s, u :
        op \in PairOps /\ Line = L(op, d, << s, u >>)
            /\ Reg(l, s) \in Nat /\ Reg(l, u) \in Nat =>
          d \in DOMAIN regs'[l] /\ regs'[l][d] = Apply2(op, "", Reg(l, s), Reg(l, u))
  BY OpWrites
<1>2. ASSUME NEW d, NEW s, NEW u, NEW x, NEW y, Line = L("mul.lo.u32", d, << s, u >>), Reg(l, s) = x, Reg(l, u) = y,
             x \in Nat, y \in Nat, x * y \in 0 .. Top - 1
      PROVE  Sets(l, d, x * y)
  <2>1. d \in DOMAIN regs'[l] /\ regs'[l][d] = Apply2("mul.lo.u32", "", x, y)
    <3>1. "mul.lo.u32" \in PairOps /\ Line = L("mul.lo.u32", d, << s, u >>)
            /\ Reg(l, s) \in Nat /\ Reg(l, u) \in Nat
      BY <1>2 DEF PairOps
    <3>2. d \in DOMAIN regs'[l] /\ regs'[l][d] = Apply2("mul.lo.u32", "", Reg(l, s), Reg(l, u))
      BY <1>5, <3>1
    <3>. QED BY <1>2, <3>2
  <2>. QED BY <1>2, <2>1, Sums DEF Sets
<1>3. ASSUME NEW d, NEW s, NEW u, NEW x, NEW y, Line = L("add.u32", d, << s, u >>), Reg(l, s) = x, Reg(l, u) = y,
             x \in Nat, y \in Nat, x + y \in 0 .. Top - 1
      PROVE  Sets(l, d, x + y)
  <2>1. d \in DOMAIN regs'[l] /\ regs'[l][d] = Apply2("add.u32", "", x, y)
    <3>1. "add.u32" \in PairOps /\ Line = L("add.u32", d, << s, u >>)
            /\ Reg(l, s) \in Nat /\ Reg(l, u) \in Nat
      BY <1>3 DEF PairOps
    <3>2. d \in DOMAIN regs'[l] /\ regs'[l][d] = Apply2("add.u32", "", Reg(l, s), Reg(l, u))
      BY <1>5, <3>1
    <3>. QED BY <1>3, <3>2
  <2>. QED BY <1>3, <2>1, Sums DEF Sets
<1>4. ASSUME NEW d, NEW s, NEW x, Line = L("shr.u32", d, << s, Imm(LogWarp) >>), Reg(l, s) = x, x \in Nat
      PROVE  Sets(l, d, x \div 2^LogWarp)
  <2>1. Reg(l, Imm(LogWarp)) = LogWarp /\ LogWarp \in Nat
    <3>1. LogWarp \in 0 .. Top - 1
      BY Wraps, LaunchesAssumption, WidthAssumption
    <3>. QED BY <3>1, Wraps, RegOf
  <2>2. d \in DOMAIN regs'[l] /\ regs'[l][d] = Apply2("shr.u32", "", x, LogWarp)
    <3>1. "shr.u32" \in PairOps /\ Line = L("shr.u32", d, << s, Imm(LogWarp) >>)
            /\ Reg(l, s) \in Nat /\ Reg(l, Imm(LogWarp)) \in Nat
      BY <1>4, <2>1 DEF PairOps
    <3>2. d \in DOMAIN regs'[l] /\ regs'[l][d] = Apply2("shr.u32", "", Reg(l, s), Reg(l, Imm(LogWarp)))
      BY <1>5, <3>1
    <3>. QED BY <1>4, <2>1, <3>2
  <2>. QED BY <1>4, <2>2, Sums DEF Sets
<1>. QED BY Zenon, <1>1, <1>2, <1>3, <1>4


LEMMA SpecialValues ==
  ASSUME Running, NEW l \in active
  PROVE  /\ SpecialOf(l, "global_base") = Device["global_base"] /\ Device["global_base"] \in Nat
         /\ SpecialOf(l, "knl_vaddr") = Device["knl_vaddr"] /\ Device["knl_vaddr"] \in Nat
         /\ SpecialOf(l, "pds_base_vaddr") = Launch.pdsBase /\ Launch.pdsBase \in Nat
         /\ SpecialOf(l, "pds_size_per_thread") = Launch.pdsSize /\ Launch.pdsSize \in Nat
         /\ SpecialOf(l, "laneid") = l /\ l \in Nat
         /\ SpecialOf(l, "tid.x") = TidX(l) /\ TidX(l) \in Nat
         /\ SpecialOf(l, "tid.y") = TidY(l) /\ TidY(l) \in Nat
         /\ SpecialOf(l, "tid.z") = TidZ(l) /\ TidZ(l) \in Nat
         /\ SpecialOf(l, "ntid.x") = Shape[1] /\ Shape[1] \in Nat
         /\ SpecialOf(l, "ntid.y") = Shape[2] /\ Shape[2] \in Nat
         /\ SpecialOf(l, "ntid.z") = Shape[3] /\ Shape[3] \in Nat
         /\ SpecialOf(l, "shmem") = Device["shmem"] /\ Device["shmem"] \in Nat
<1>1. LaneNumbers(l)
  BY LaneCounted DEF Running
<1>2. l \in Nat /\ TidX(l) \in Nat /\ TidY(l) \in Nat /\ TidZ(l) \in Nat /\ Shape[1] \in Nat
        /\ Shape[2] \in Nat /\ Shape[3] \in Nat
  BY <1>1 DEF LaneNumbers
<1>3. Device["global_base"] \in Nat /\ Device["knl_vaddr"] \in Nat /\ Device["shmem"] \in Nat
  BY LaunchesAssumption
<1>4. Launch.pdsBase \in Nat /\ Launch.pdsSize \in Nat
  <2>1. Launch = Launches[input[1]] /\ input[1] \in DOMAIN Launches
    BY DEF Running, GridE, Launch
  <2>. QED BY <2>1, LaunchesAssumption
<1>5. /\ SpecialOf(l, "global_base") = Device["global_base"]
      /\ SpecialOf(l, "knl_vaddr") = Device["knl_vaddr"]
      /\ SpecialOf(l, "pds_base_vaddr") = Launch.pdsBase
      /\ SpecialOf(l, "pds_size_per_thread") = Launch.pdsSize
      /\ SpecialOf(l, "shmem") = Device["shmem"]
      /\ SpecialOf(l, "laneid") = l
  BY DEF SpecialOf
<1>6. /\ SpecialOf(l, "tid.x") = TidX(l)
      /\ SpecialOf(l, "tid.y") = TidY(l)
      /\ SpecialOf(l, "tid.z") = TidZ(l)
  BY DEF SpecialOf, TidX, TidY, TidZ
<1>7. SpecialOf(l, "ntid.x") = Shape[1] /\ SpecialOf(l, "ntid.y") = Shape[2] /\ SpecialOf(l, "ntid.z") = Shape[3]
  BY DEF SpecialOf
<1>. QED BY <1>2, <1>3, <1>4, <1>5, <1>6, <1>7

LEMMA EntryWrites ==
  ASSUME Running, Next, NEW l \in active, EntryHas(l)
  PROVE  LET b == First
             t == First + HeadLength
         IN  /\ now = b => Sets(l, RD(0), Device["global_base"])
             /\ now = b + 1 => Sets(l, R(30), Device["knl_vaddr"])
             /\ now = b + 2 => Sets(l, R(28), Launch.pdsBase)
             /\ now = b + 3 => Sets(l, R(29), Launch.pdsSize)
             /\ now = t => Sets(l, R(0), l)
             /\ now = t + 1 => Sets(l, R(3), TidX(l))
             /\ now = t + 2 => Sets(l, R(4), TidY(l))
             /\ now = t + 3 => Sets(l, R(5), TidZ(l))
             /\ now = t + 4 => Sets(l, R(6), Shape[1])
             /\ now = t + 5 => Sets(l, R(7), Shape[2])
             /\ now = t + 6 => Sets(l, R(8), Shape[3])
             /\ now = t + 7 => Sets(l, R(9), Shape[2] * TidZ(l))
             /\ now = t + 8 => Sets(l, R(9), Linear(l) \div Shape[1])
             /\ now = t + 9 => Sets(l, R(9), (Linear(l) \div Shape[1]) * Shape[1])
             /\ now = t + 10 => Sets(l, R(9), Linear(l))
             /\ now = t + 11 => Sets(l, R(10), Warp)
             /\ now = t + 12 => Sets(l, R(11), Shape[1] * Shape[2])
             /\ now = t + 13 => Sets(l, R(11), Threads(Shape))
             /\ now = t + 14 => Sets(l, R(12), Threads(Shape) + (2^LogWarp - 1))
             /\ now = t + 15 => Sets(l, R(12), WarpsOf(Shape))
             /\ now = t + 16 => Sets(l, RD(2), Device["shmem"])
<1>. DEFINE b == First
            t == First + HeadLength
            e == Len(code)
<1>1. b \in Nat /\ t \in Nat /\ b + 6 <= t /\ e \in Nat /\ t + 17 <= e /\ EntryLaid(code, b)
  <2>1. EntryLaid(code, First) /\ First \in Nat \ { 0 } /\ Len(code) \in Nat
    BY RunningPlace
  <2>2. HeadLength \in Nat /\ HeadLength >= 6 /\ t + 17 <= Len(code)
    BY <2>1 DEF EntryLaid
  <2>. QED BY <2>1, <2>2
<1>2. /\ code[b] = L("mov.u64", RD(0), << Special("global_base") >>)
      /\ code[b + 1] = L("mov.u32", R(30), << Special("knl_vaddr") >>)
      /\ code[b + 2] = L("mov.u32", R(28), << Special("pds_base_vaddr") >>)
      /\ code[b + 3] = L("mov.u32", R(29), << Special("pds_size_per_thread") >>)
      /\ code[t] = L("mov.u32", R(0), << Special("laneid") >>)
      /\ code[t + 1] = L("mov.u32", R(3), << Special("tid.x") >>)
      /\ code[t + 2] = L("mov.u32", R(4), << Special("tid.y") >>)
      /\ code[t + 3] = L("mov.u32", R(5), << Special("tid.z") >>)
      /\ code[t + 4] = L("mov.u32", R(6), << Special("ntid.x") >>)
      /\ code[t + 5] = L("mov.u32", R(7), << Special("ntid.y") >>)
      /\ code[t + 6] = L("mov.u32", R(8), << Special("ntid.z") >>)
      /\ code[t + 7] = L("mul.lo.u32", R(9), << R(7), R(5) >>)
      /\ code[t + 8] = L("add.u32", R(9), << R(9), R(4) >>)
      /\ code[t + 9] = L("mul.lo.u32", R(9), << R(9), R(6) >>)
      /\ code[t + 10] = L("add.u32", R(9), << R(9), R(3) >>)
      /\ code[t + 11] = L("shr.u32", R(10), << R(9), Imm(LogWarp) >>)
      /\ code[t + 12] = L("mul.lo.u32", R(11), << R(6), R(7) >>)
      /\ code[t + 13] = L("mul.lo.u32", R(11), << R(11), R(8) >>)
      /\ code[t + 14] = L("add.u32", R(12), << R(11), Imm(2^LogWarp - 1) >>)
      /\ code[t + 15] = L("shr.u32", R(12), << R(12), Imm(LogWarp) >>)
      /\ code[t + 16] = L("mov.u64", RD(2), << Special("shmem") >>)
  BY <1>1 DEF EntryLaid
<1>3. /\ Has(l, b + 1, e, RD(0), Device["global_base"])
      /\ Has(l, b + 2, e, R(30), Device["knl_vaddr"])
      /\ Has(l, b + 3, e, R(28), Launch.pdsBase)
      /\ Has(l, b + 4, e, R(29), Launch.pdsSize)
      /\ Has(l, t + 1, e, R(0), l)
      /\ Has(l, t + 2, t + 16, R(3), TidX(l))
      /\ Has(l, t + 3, t + 16, R(4), TidY(l))
      /\ Has(l, t + 4, t + 16, R(5), TidZ(l))
      /\ Has(l, t + 5, t + 16, R(6), Shape[1])
      /\ Has(l, t + 6, t + 16, R(7), Shape[2])
      /\ Has(l, t + 7, t + 16, R(8), Shape[3])
      /\ Has(l, t + 8, t + 8, R(9), Shape[2] * TidZ(l))
      /\ Has(l, t + 9, t + 9, R(9), Linear(l) \div Shape[1])
      /\ Has(l, t + 10, t + 10, R(9), (Linear(l) \div Shape[1]) * Shape[1])
      /\ Has(l, t + 11, t + 16, R(9), Linear(l))
      /\ Has(l, t + 12, e, R(10), Warp)
      /\ Has(l, t + 13, t + 13, R(11), Shape[1] * Shape[2])
      /\ Has(l, t + 14, t + 16, R(11), Threads(Shape))
      /\ Has(l, t + 15, t + 15, R(12), Threads(Shape) + (2^LogWarp - 1))
      /\ Has(l, t + 16, e, R(12), WarpsOf(Shape))
      /\ Has(l, t + 17, e, RD(2), Device["shmem"])
  BY DEF EntryHas
<1>. HIDE DEF t, b, e
<1>4. LaneNumbers(l)
  BY LaneCounted DEF Running
<1>5. Line = code[now]
  BY DEF Line
<1>6. ASSUME now = b PROVE Sets(l, RD(0), Device["global_base"])
  <2>1. Line = L("mov.u64", RD(0), << Special("global_base") >>)
    BY <1>2, <1>5, <1>6
  <2>2. SpecialOf(l, "global_base") = Device["global_base"] /\ SpecialOf(l, "global_base") \in Nat
    BY SpecialValues
  <2>. QED BY <2>1, <2>2, SetsBy
<1>7. ASSUME now = b + 1 PROVE Sets(l, R(30), Device["knl_vaddr"])
  <2>1. Line = L("mov.u32", R(30), << Special("knl_vaddr") >>)
    BY <1>2, <1>5, <1>7
  <2>2. SpecialOf(l, "knl_vaddr") = Device["knl_vaddr"] /\ SpecialOf(l, "knl_vaddr") \in Nat
    BY SpecialValues
  <2>. QED BY <2>1, <2>2, SetsBy
<1>8. ASSUME now = b + 2 PROVE Sets(l, R(28), Launch.pdsBase)
  <2>1. Line = L("mov.u32", R(28), << Special("pds_base_vaddr") >>)
    BY <1>2, <1>5, <1>8
  <2>2. SpecialOf(l, "pds_base_vaddr") = Launch.pdsBase /\ SpecialOf(l, "pds_base_vaddr") \in Nat
    BY SpecialValues
  <2>. QED BY <2>1, <2>2, SetsBy
<1>9. ASSUME now = b + 3 PROVE Sets(l, R(29), Launch.pdsSize)
  <2>1. Line = L("mov.u32", R(29), << Special("pds_size_per_thread") >>)
    BY <1>2, <1>5, <1>9
  <2>2. SpecialOf(l, "pds_size_per_thread") = Launch.pdsSize /\ SpecialOf(l, "pds_size_per_thread") \in Nat
    BY SpecialValues
  <2>. QED BY <2>1, <2>2, SetsBy
<1>10. ASSUME now = t PROVE Sets(l, R(0), l)
  <2>1. Line = L("mov.u32", R(0), << Special("laneid") >>)
    BY <1>2, <1>5, <1>10
  <2>2. SpecialOf(l, "laneid") = l /\ SpecialOf(l, "laneid") \in Nat
    BY SpecialValues
  <2>. QED BY <2>1, <2>2, SetsBy
<1>11. ASSUME now = t + 1 PROVE Sets(l, R(3), TidX(l))
  <2>1. Line = L("mov.u32", R(3), << Special("tid.x") >>)
    BY <1>2, <1>5, <1>11
  <2>2. SpecialOf(l, "tid.x") = TidX(l) /\ SpecialOf(l, "tid.x") \in Nat
    BY SpecialValues
  <2>. QED BY <2>1, <2>2, SetsBy
<1>12. ASSUME now = t + 2 PROVE Sets(l, R(4), TidY(l))
  <2>1. Line = L("mov.u32", R(4), << Special("tid.y") >>)
    BY <1>2, <1>5, <1>12
  <2>2. SpecialOf(l, "tid.y") = TidY(l) /\ SpecialOf(l, "tid.y") \in Nat
    BY SpecialValues
  <2>. QED BY <2>1, <2>2, SetsBy
<1>13. ASSUME now = t + 3 PROVE Sets(l, R(5), TidZ(l))
  <2>1. Line = L("mov.u32", R(5), << Special("tid.z") >>)
    BY <1>2, <1>5, <1>13
  <2>2. SpecialOf(l, "tid.z") = TidZ(l) /\ SpecialOf(l, "tid.z") \in Nat
    BY SpecialValues
  <2>. QED BY <2>1, <2>2, SetsBy
<1>14. ASSUME now = t + 4 PROVE Sets(l, R(6), Shape[1])
  <2>1. Line = L("mov.u32", R(6), << Special("ntid.x") >>)
    BY <1>2, <1>5, <1>14
  <2>2. SpecialOf(l, "ntid.x") = Shape[1] /\ SpecialOf(l, "ntid.x") \in Nat
    BY SpecialValues
  <2>. QED BY <2>1, <2>2, SetsBy
<1>15. ASSUME now = t + 5 PROVE Sets(l, R(7), Shape[2])
  <2>1. Line = L("mov.u32", R(7), << Special("ntid.y") >>)
    BY <1>2, <1>5, <1>15
  <2>2. SpecialOf(l, "ntid.y") = Shape[2] /\ SpecialOf(l, "ntid.y") \in Nat
    BY SpecialValues
  <2>. QED BY <2>1, <2>2, SetsBy
<1>16. ASSUME now = t + 6 PROVE Sets(l, R(8), Shape[3])
  <2>1. Line = L("mov.u32", R(8), << Special("ntid.z") >>)
    BY <1>2, <1>5, <1>16
  <2>2. SpecialOf(l, "ntid.z") = Shape[3] /\ SpecialOf(l, "ntid.z") \in Nat
    BY SpecialValues
  <2>. QED BY <2>1, <2>2, SetsBy
<1>17. ASSUME now = t + 7 PROVE Sets(l, R(9), Shape[2] * TidZ(l))
  <2>1. Line = L("mul.lo.u32", R(9), << R(7), R(5) >>)
    BY <1>2, <1>5, <1>17
  <2>2. Reg(l, R(7)) = Shape[2]
    <3>1. now \in t + 6 .. t + 16
      BY <1>1, <1>17
    <3>. QED BY <1>3, <3>1, RegOf DEF Has
  <2>3. Reg(l, R(5)) = TidZ(l)
    <3>1. now \in t + 4 .. t + 16
      BY <1>1, <1>17
    <3>. QED BY <1>3, <3>1, RegOf DEF Has
  <2>4. /\ Shape[2] \in Nat /\ TidZ(l) \in Nat /\ Shape[2] * TidZ(l) \in 0 .. Top - 1
    BY <1>4, Wraps DEF LaneNumbers
  <2>. QED BY <2>1, <2>2, <2>3, <2>4, SetsBy
<1>18. ASSUME now = t + 8 PROVE Sets(l, R(9), Linear(l) \div Shape[1])
  <2>1. Line = L("add.u32", R(9), << R(9), R(4) >>)
    BY <1>2, <1>5, <1>18
  <2>2. Reg(l, R(9)) = Shape[2] * TidZ(l)
    <3>1. now \in t + 8 .. t + 8
      BY <1>1, <1>18
    <3>. QED BY <1>3, <3>1, RegOf DEF Has
  <2>3. Reg(l, R(4)) = TidY(l)
    <3>1. now \in t + 3 .. t + 16
      BY <1>1, <1>18
    <3>. QED BY <1>3, <3>1, RegOf DEF Has
  <2>4. /\ (Shape[2] * TidZ(l)) \in Nat /\ TidY(l) \in Nat /\ (Shape[2] * TidZ(l)) + TidY(l) \in 0 .. Top - 1
        /\ (Shape[2] * TidZ(l)) + TidY(l) = Linear(l) \div Shape[1]
    BY <1>4, Wraps DEF LaneNumbers
  <2>5. Sets(l, R(9), (Shape[2] * TidZ(l)) + TidY(l))
    BY <2>1, <2>2, <2>3, <2>4, SetsBy
  <2>. QED BY <2>4, <2>5
<1>19. ASSUME now = t + 9 PROVE Sets(l, R(9), (Linear(l) \div Shape[1]) * Shape[1])
  <2>1. Line = L("mul.lo.u32", R(9), << R(9), R(6) >>)
    BY <1>2, <1>5, <1>19
  <2>2. Reg(l, R(9)) = Linear(l) \div Shape[1]
    <3>1. now \in t + 9 .. t + 9
      BY <1>1, <1>19
    <3>. QED BY <1>3, <3>1, RegOf DEF Has
  <2>3. Reg(l, R(6)) = Shape[1]
    <3>1. now \in t + 5 .. t + 16
      BY <1>1, <1>19
    <3>. QED BY <1>3, <3>1, RegOf DEF Has
  <2>4. /\ (Linear(l) \div Shape[1]) \in Nat /\ Shape[1] \in Nat
          /\ (Linear(l) \div Shape[1]) * Shape[1] \in 0 .. Top - 1
    BY <1>4, Wraps DEF LaneNumbers
  <2>. QED BY <2>1, <2>2, <2>3, <2>4, SetsBy
<1>20. ASSUME now = t + 10 PROVE Sets(l, R(9), Linear(l))
  <2>1. Line = L("add.u32", R(9), << R(9), R(3) >>)
    BY <1>2, <1>5, <1>20
  <2>2. Reg(l, R(9)) = (Linear(l) \div Shape[1]) * Shape[1]
    <3>1. now \in t + 10 .. t + 10
      BY <1>1, <1>20
    <3>. QED BY <1>3, <3>1, RegOf DEF Has
  <2>3. Reg(l, R(3)) = TidX(l)
    <3>1. now \in t + 2 .. t + 16
      BY <1>1, <1>20
    <3>. QED BY <1>3, <3>1, RegOf DEF Has
  <2>4. /\ ((Linear(l) \div Shape[1]) * Shape[1]) \in Nat /\ TidX(l) \in Nat
          /\ ((Linear(l) \div Shape[1]) * Shape[1]) + TidX(l) \in 0 .. Top - 1
        /\ ((Linear(l) \div Shape[1]) * Shape[1]) + TidX(l) = Linear(l)
    BY <1>4, Wraps DEF LaneNumbers
  <2>5. Sets(l, R(9), ((Linear(l) \div Shape[1]) * Shape[1]) + TidX(l))
    BY <2>1, <2>2, <2>3, <2>4, SetsBy
  <2>. QED BY <2>4, <2>5
<1>21. ASSUME now = t + 11 PROVE Sets(l, R(10), Warp)
  <2>1. Line = L("shr.u32", R(10), << R(9), Imm(LogWarp) >>)
    BY <1>2, <1>5, <1>21
  <2>2. Reg(l, R(9)) = Linear(l)
    <3>1. now \in t + 11 .. t + 16
      BY <1>1, <1>21
    <3>. QED BY <1>3, <3>1, RegOf DEF Has
  <2>3. Linear(l) \in Nat /\ (Linear(l)) \div 2^LogWarp = Warp
    BY <1>4, Wraps DEF LaneNumbers
  <2>4. Sets(l, R(10), (Linear(l)) \div 2^LogWarp)
    BY <2>1, <2>2, <2>3, SetsBy
  <2>. QED BY <2>3, <2>4
<1>22. ASSUME now = t + 12 PROVE Sets(l, R(11), Shape[1] * Shape[2])
  <2>1. Line = L("mul.lo.u32", R(11), << R(6), R(7) >>)
    BY <1>2, <1>5, <1>22
  <2>2. Reg(l, R(6)) = Shape[1]
    <3>1. now \in t + 5 .. t + 16
      BY <1>1, <1>22
    <3>. QED BY <1>3, <3>1, RegOf DEF Has
  <2>3. Reg(l, R(7)) = Shape[2]
    <3>1. now \in t + 6 .. t + 16
      BY <1>1, <1>22
    <3>. QED BY <1>3, <3>1, RegOf DEF Has
  <2>4. /\ Shape[1] \in Nat /\ Shape[2] \in Nat /\ Shape[1] * Shape[2] \in 0 .. Top - 1
    BY <1>4, Wraps DEF LaneNumbers
  <2>. QED BY <2>1, <2>2, <2>3, <2>4, SetsBy
<1>23. ASSUME now = t + 13 PROVE Sets(l, R(11), Threads(Shape))
  <2>1. Line = L("mul.lo.u32", R(11), << R(11), R(8) >>)
    BY <1>2, <1>5, <1>23
  <2>2. Reg(l, R(11)) = Shape[1] * Shape[2]
    <3>1. now \in t + 13 .. t + 13
      BY <1>1, <1>23
    <3>. QED BY <1>3, <3>1, RegOf DEF Has
  <2>3. Reg(l, R(8)) = Shape[3]
    <3>1. now \in t + 7 .. t + 16
      BY <1>1, <1>23
    <3>. QED BY <1>3, <3>1, RegOf DEF Has
  <2>4. /\ (Shape[1] * Shape[2]) \in Nat /\ Shape[3] \in Nat /\ (Shape[1] * Shape[2]) * Shape[3] \in 0 .. Top - 1
        /\ (Shape[1] * Shape[2]) * Shape[3] = Threads(Shape)
    BY <1>4, Wraps DEF LaneNumbers
  <2>5. Sets(l, R(11), (Shape[1] * Shape[2]) * Shape[3])
    BY <2>1, <2>2, <2>3, <2>4, SetsBy
  <2>. QED BY <2>4, <2>5
<1>24. ASSUME now = t + 14 PROVE Sets(l, R(12), Threads(Shape) + (2^LogWarp - 1))
  <2>1. Line = L("add.u32", R(12), << R(11), Imm(2^LogWarp - 1) >>)
    BY <1>2, <1>5, <1>24
  <2>2. Reg(l, R(11)) = Threads(Shape)
    <3>1. now \in t + 14 .. t + 16
      BY <1>1, <1>24
    <3>. QED BY <1>3, <3>1, RegOf DEF Has
  <2>3. Reg(l, Imm(2^LogWarp - 1)) = 2^LogWarp - 1
    BY <1>4, RegOf, Wraps DEF LaneNumbers
  <2>4. /\ Threads(Shape) \in Nat /\ (2^LogWarp - 1) \in Nat /\ Threads(Shape) + (2^LogWarp - 1) \in 0 .. Top - 1
    BY <1>4, Wraps DEF LaneNumbers
  <2>. QED BY <2>1, <2>2, <2>3, <2>4, SetsBy
<1>25. ASSUME now = t + 15 PROVE Sets(l, R(12), WarpsOf(Shape))
  <2>1. Line = L("shr.u32", R(12), << R(12), Imm(LogWarp) >>)
    BY <1>2, <1>5, <1>25
  <2>2. Reg(l, R(12)) = Threads(Shape) + (2^LogWarp - 1)
    <3>1. now \in t + 15 .. t + 15
      BY <1>1, <1>25
    <3>. QED BY <1>3, <3>1, RegOf DEF Has
  <2>3. Threads(Shape) + (2^LogWarp - 1) \in Nat /\ (Threads(Shape) + (2^LogWarp - 1)) \div 2^LogWarp = WarpsOf(Shape)
    BY <1>4, Wraps DEF LaneNumbers
  <2>4. Sets(l, R(12), (Threads(Shape) + (2^LogWarp - 1)) \div 2^LogWarp)
    BY <2>1, <2>2, <2>3, SetsBy
  <2>. QED BY <2>3, <2>4
<1>26. ASSUME now = t + 16 PROVE Sets(l, RD(2), Device["shmem"])
  <2>1. Line = L("mov.u64", RD(2), << Special("shmem") >>)
    BY <1>2, <1>5, <1>26
  <2>2. SpecialOf(l, "shmem") = Device["shmem"] /\ SpecialOf(l, "shmem") \in Nat
    BY SpecialValues
  <2>. QED BY <2>1, <2>2, SetsBy
<1>. QED BY <1>6, <1>7, <1>8, <1>9, <1>10, <1>11, <1>12, <1>13, <1>14, <1>15, <1>16, <1>17, <1>18, <1>19, <1>20,
            <1>21, <1>22, <1>23, <1>24, <1>25, <1>26 DEF b, t

(* A register that is not written holds what it held.                      *)
LEMMA FactKept ==
  ASSUME Running, Next, NEW l \in active
  PROVE  \A m, n, a, v :
           m \in Nat /\ n \in Nat /\ a \notin AcquireScratch /\ Has(l, m, n, a, v) /\ Free(code, a, m, n)
               /\ (now + 1 = m => Sets(l, a, v)) =>
             (now + 1 \in m .. n => Sets(l, a, v))
<1>1. ASSUME NEW m, NEW n, NEW a, NEW v,
             m \in Nat /\ n \in Nat /\ a \notin AcquireScratch /\ Has(l, m, n, a, v) /\ Free(code, a, m, n)
               /\ (now + 1 = m => Sets(l, a, v)),
             now + 1 \in m .. n
      PROVE  Sets(l, a, v)
  <2>1. now \in Nat
    BY RunningPlace
  <2>2. CASE now + 1 # m
    <3>1. now \in m .. n /\ now \in m .. n - 1
      BY <1>1, <2>1, <2>2
    <3>2. a \in DOMAIN regs[l] /\ regs[l][a] = v
      BY <1>1, <3>1 DEF Has
    <3>3. a # Line.d
      BY <1>1, <3>1 DEF Free, Line
    <3>4. Leaves(l)
      BY RunningStep
    <3>. QED BY <1>1, <3>2, <3>3, <3>4 DEF Leaves, Sets
  <2>. QED BY <1>1, <2>2
<1>. QED BY Zenon, <1>1

LEMMA NotScratch ==
  /\ \A i \in 0 .. 14 : R(i) \notin AcquireScratch
  /\ \A i \in 26 .. 30 : R(i) \notin AcquireScratch
  /\ RD(0) \notin AcquireScratch /\ RD(2) \notin AcquireScratch
BY DEF AcquireScratch, R, RD, P

LEMMA EntryHasKept ==
  ASSUME Running, Next, NEW l \in active, EntryHas(l)
  PROVE  EntryHas(l)'
<1>. DEFINE b == First
            t == First + HeadLength
            e == Len(code)
<1>1. b \in Nat /\ t \in Nat /\ e \in Nat /\ now \in Nat /\ EntryLaid(code, b)
  <2>1. EntryLaid(code, First) /\ First \in Nat \ { 0 } /\ Len(code) \in Nat /\ now \in First .. Len(code) - 1
    BY RunningPlace
  <2>2. HeadLength \in Nat
    BY <2>1 DEF EntryLaid
  <2>. QED BY <2>1, <2>2
<1>2. /\ Has(l, b + 1, e, RD(0), Device["global_base"])
      /\ Has(l, b + 2, e, R(30), Device["knl_vaddr"])
      /\ Has(l, b + 3, e, R(28), Launch.pdsBase)
      /\ Has(l, b + 4, e, R(29), Launch.pdsSize)
      /\ Has(l, t + 1, e, R(0), l)
      /\ Has(l, t + 2, t + 16, R(3), TidX(l))
      /\ Has(l, t + 3, t + 16, R(4), TidY(l))
      /\ Has(l, t + 4, t + 16, R(5), TidZ(l))
      /\ Has(l, t + 5, t + 16, R(6), Shape[1])
      /\ Has(l, t + 6, t + 16, R(7), Shape[2])
      /\ Has(l, t + 7, t + 16, R(8), Shape[3])
      /\ Has(l, t + 8, t + 8, R(9), Shape[2] * TidZ(l))
      /\ Has(l, t + 9, t + 9, R(9), Linear(l) \div Shape[1])
      /\ Has(l, t + 10, t + 10, R(9), (Linear(l) \div Shape[1]) * Shape[1])
      /\ Has(l, t + 11, t + 16, R(9), Linear(l))
      /\ Has(l, t + 12, e, R(10), Warp)
      /\ Has(l, t + 13, t + 13, R(11), Shape[1] * Shape[2])
      /\ Has(l, t + 14, t + 16, R(11), Threads(Shape))
      /\ Has(l, t + 15, t + 15, R(12), Threads(Shape) + (2^LogWarp - 1))
      /\ Has(l, t + 16, e, R(12), WarpsOf(Shape))
      /\ Has(l, t + 17, e, RD(2), Device["shmem"])
  BY DEF EntryHas
<1>3. /\ Free(code, RD(0), b + 1, e)
      /\ Free(code, R(30), b + 2, e)
      /\ Free(code, R(28), b + 3, e)
      /\ Free(code, R(29), b + 4, e)
      /\ Free(code, R(0), t + 1, e)
      /\ Free(code, R(3), t + 2, t + 16)
      /\ Free(code, R(4), t + 3, t + 16)
      /\ Free(code, R(5), t + 4, t + 16)
      /\ Free(code, R(6), t + 5, t + 16)
      /\ Free(code, R(7), t + 6, t + 16)
      /\ Free(code, R(8), t + 7, t + 16)
      /\ Free(code, R(9), t + 11, t + 16)
      /\ Free(code, R(10), t + 12, e)
      /\ Free(code, R(11), t + 14, t + 16)
      /\ Free(code, R(12), t + 16, e)
      /\ Free(code, RD(2), t + 17, e)
  BY <1>1, EntryFree
<1>4. /\ now = b => Sets(l, RD(0), Device["global_base"])
      /\ now = b + 1 => Sets(l, R(30), Device["knl_vaddr"])
      /\ now = b + 2 => Sets(l, R(28), Launch.pdsBase)
      /\ now = b + 3 => Sets(l, R(29), Launch.pdsSize)
      /\ now = t => Sets(l, R(0), l)
      /\ now = t + 1 => Sets(l, R(3), TidX(l))
      /\ now = t + 2 => Sets(l, R(4), TidY(l))
      /\ now = t + 3 => Sets(l, R(5), TidZ(l))
      /\ now = t + 4 => Sets(l, R(6), Shape[1])
      /\ now = t + 5 => Sets(l, R(7), Shape[2])
      /\ now = t + 6 => Sets(l, R(8), Shape[3])
      /\ now = t + 7 => Sets(l, R(9), Shape[2] * TidZ(l))
      /\ now = t + 8 => Sets(l, R(9), Linear(l) \div Shape[1])
      /\ now = t + 9 => Sets(l, R(9), (Linear(l) \div Shape[1]) * Shape[1])
      /\ now = t + 10 => Sets(l, R(9), Linear(l))
      /\ now = t + 11 => Sets(l, R(10), Warp)
      /\ now = t + 12 => Sets(l, R(11), Shape[1] * Shape[2])
      /\ now = t + 13 => Sets(l, R(11), Threads(Shape))
      /\ now = t + 14 => Sets(l, R(12), Threads(Shape) + (2^LogWarp - 1))
      /\ now = t + 15 => Sets(l, R(12), WarpsOf(Shape))
      /\ now = t + 16 => Sets(l, RD(2), Device["shmem"])
  BY EntryWrites
<1>. HIDE DEF b, t, e
<1>5. \A a : Free(code, a, t + 8, t + 8) /\ Free(code, a, t + 9, t + 9) /\ Free(code, a, t + 10, t + 10)
          /\ Free(code, a, t + 13, t + 13) /\ Free(code, a, t + 15, t + 15)
  BY <1>1 DEF Free
<1>6. now + 1 \in b + 1 .. e => Sets(l, RD(0), Device["global_base"])
  <2>1. b + 1 \in Nat /\ e \in Nat /\ RD(0) \notin AcquireScratch
    BY <1>1, NotScratch
  <2>2. now + 1 = b + 1 => Sets(l, RD(0), Device["global_base"])
    BY <1>1, <1>4
  <2>3. Has(l, b + 1, e, RD(0), Device["global_base"]) /\ Free(code, RD(0), b + 1, e)
    BY <1>2, <1>3
  <2>. QED BY <2>1, <2>2, <2>3, FactKept
<1>7. now + 1 \in b + 2 .. e => Sets(l, R(30), Device["knl_vaddr"])
  <2>1. b + 2 \in Nat /\ e \in Nat /\ R(30) \notin AcquireScratch
    BY <1>1, NotScratch
  <2>2. now + 1 = b + 2 => Sets(l, R(30), Device["knl_vaddr"])
    BY <1>1, <1>4
  <2>3. Has(l, b + 2, e, R(30), Device["knl_vaddr"]) /\ Free(code, R(30), b + 2, e)
    BY <1>2, <1>3
  <2>. QED BY <2>1, <2>2, <2>3, FactKept
<1>8. now + 1 \in b + 3 .. e => Sets(l, R(28), Launch.pdsBase)
  <2>1. b + 3 \in Nat /\ e \in Nat /\ R(28) \notin AcquireScratch
    BY <1>1, NotScratch
  <2>2. now + 1 = b + 3 => Sets(l, R(28), Launch.pdsBase)
    BY <1>1, <1>4
  <2>3. Has(l, b + 3, e, R(28), Launch.pdsBase) /\ Free(code, R(28), b + 3, e)
    BY <1>2, <1>3
  <2>. QED BY <2>1, <2>2, <2>3, FactKept
<1>9. now + 1 \in b + 4 .. e => Sets(l, R(29), Launch.pdsSize)
  <2>1. b + 4 \in Nat /\ e \in Nat /\ R(29) \notin AcquireScratch
    BY <1>1, NotScratch
  <2>2. now + 1 = b + 4 => Sets(l, R(29), Launch.pdsSize)
    BY <1>1, <1>4
  <2>3. Has(l, b + 4, e, R(29), Launch.pdsSize) /\ Free(code, R(29), b + 4, e)
    BY <1>2, <1>3
  <2>. QED BY <2>1, <2>2, <2>3, FactKept
<1>10. now + 1 \in t + 1 .. e => Sets(l, R(0), l)
  <2>1. t + 1 \in Nat /\ e \in Nat /\ R(0) \notin AcquireScratch
    BY <1>1, NotScratch
  <2>2. now + 1 = t + 1 => Sets(l, R(0), l)
    BY <1>1, <1>4
  <2>3. Has(l, t + 1, e, R(0), l) /\ Free(code, R(0), t + 1, e)
    BY <1>2, <1>3
  <2>. QED BY <2>1, <2>2, <2>3, FactKept
<1>11. now + 1 \in t + 2 .. t + 16 => Sets(l, R(3), TidX(l))
  <2>1. t + 2 \in Nat /\ t + 16 \in Nat /\ R(3) \notin AcquireScratch
    BY <1>1, NotScratch
  <2>2. now + 1 = t + 2 => Sets(l, R(3), TidX(l))
    BY <1>1, <1>4
  <2>3. Has(l, t + 2, t + 16, R(3), TidX(l)) /\ Free(code, R(3), t + 2, t + 16)
    BY <1>2, <1>3
  <2>. QED BY <2>1, <2>2, <2>3, FactKept
<1>12. now + 1 \in t + 3 .. t + 16 => Sets(l, R(4), TidY(l))
  <2>1. t + 3 \in Nat /\ t + 16 \in Nat /\ R(4) \notin AcquireScratch
    BY <1>1, NotScratch
  <2>2. now + 1 = t + 3 => Sets(l, R(4), TidY(l))
    BY <1>1, <1>4
  <2>3. Has(l, t + 3, t + 16, R(4), TidY(l)) /\ Free(code, R(4), t + 3, t + 16)
    BY <1>2, <1>3
  <2>. QED BY <2>1, <2>2, <2>3, FactKept
<1>13. now + 1 \in t + 4 .. t + 16 => Sets(l, R(5), TidZ(l))
  <2>1. t + 4 \in Nat /\ t + 16 \in Nat /\ R(5) \notin AcquireScratch
    BY <1>1, NotScratch
  <2>2. now + 1 = t + 4 => Sets(l, R(5), TidZ(l))
    BY <1>1, <1>4
  <2>3. Has(l, t + 4, t + 16, R(5), TidZ(l)) /\ Free(code, R(5), t + 4, t + 16)
    BY <1>2, <1>3
  <2>. QED BY <2>1, <2>2, <2>3, FactKept
<1>14. now + 1 \in t + 5 .. t + 16 => Sets(l, R(6), Shape[1])
  <2>1. t + 5 \in Nat /\ t + 16 \in Nat /\ R(6) \notin AcquireScratch
    BY <1>1, NotScratch
  <2>2. now + 1 = t + 5 => Sets(l, R(6), Shape[1])
    BY <1>1, <1>4
  <2>3. Has(l, t + 5, t + 16, R(6), Shape[1]) /\ Free(code, R(6), t + 5, t + 16)
    BY <1>2, <1>3
  <2>. QED BY <2>1, <2>2, <2>3, FactKept
<1>15. now + 1 \in t + 6 .. t + 16 => Sets(l, R(7), Shape[2])
  <2>1. t + 6 \in Nat /\ t + 16 \in Nat /\ R(7) \notin AcquireScratch
    BY <1>1, NotScratch
  <2>2. now + 1 = t + 6 => Sets(l, R(7), Shape[2])
    BY <1>1, <1>4
  <2>3. Has(l, t + 6, t + 16, R(7), Shape[2]) /\ Free(code, R(7), t + 6, t + 16)
    BY <1>2, <1>3
  <2>. QED BY <2>1, <2>2, <2>3, FactKept
<1>16. now + 1 \in t + 7 .. t + 16 => Sets(l, R(8), Shape[3])
  <2>1. t + 7 \in Nat /\ t + 16 \in Nat /\ R(8) \notin AcquireScratch
    BY <1>1, NotScratch
  <2>2. now + 1 = t + 7 => Sets(l, R(8), Shape[3])
    BY <1>1, <1>4
  <2>3. Has(l, t + 7, t + 16, R(8), Shape[3]) /\ Free(code, R(8), t + 7, t + 16)
    BY <1>2, <1>3
  <2>. QED BY <2>1, <2>2, <2>3, FactKept
<1>17. now + 1 \in t + 8 .. t + 8 => Sets(l, R(9), Shape[2] * TidZ(l))
  <2>1. t + 8 \in Nat /\ t + 8 \in Nat /\ R(9) \notin AcquireScratch
    BY <1>1, NotScratch
  <2>2. now + 1 = t + 8 => Sets(l, R(9), Shape[2] * TidZ(l))
    BY <1>1, <1>4
  <2>3. Has(l, t + 8, t + 8, R(9), Shape[2] * TidZ(l)) /\ Free(code, R(9), t + 8, t + 8)
    BY <1>2, <1>5
  <2>. QED BY <2>1, <2>2, <2>3, FactKept
<1>18. now + 1 \in t + 9 .. t + 9 => Sets(l, R(9), Linear(l) \div Shape[1])
  <2>1. t + 9 \in Nat /\ t + 9 \in Nat /\ R(9) \notin AcquireScratch
    BY <1>1, NotScratch
  <2>2. now + 1 = t + 9 => Sets(l, R(9), Linear(l) \div Shape[1])
    BY <1>1, <1>4
  <2>3. Has(l, t + 9, t + 9, R(9), Linear(l) \div Shape[1]) /\ Free(code, R(9), t + 9, t + 9)
    BY <1>2, <1>5
  <2>. QED BY <2>1, <2>2, <2>3, FactKept
<1>19. now + 1 \in t + 10 .. t + 10 => Sets(l, R(9), (Linear(l) \div Shape[1]) * Shape[1])
  <2>1. t + 10 \in Nat /\ t + 10 \in Nat /\ R(9) \notin AcquireScratch
    BY <1>1, NotScratch
  <2>2. now + 1 = t + 10 => Sets(l, R(9), (Linear(l) \div Shape[1]) * Shape[1])
    BY <1>1, <1>4
  <2>3. Has(l, t + 10, t + 10, R(9), (Linear(l) \div Shape[1]) * Shape[1]) /\ Free(code, R(9), t + 10, t + 10)
    BY <1>2, <1>5
  <2>. QED BY <2>1, <2>2, <2>3, FactKept
<1>20. now + 1 \in t + 11 .. t + 16 => Sets(l, R(9), Linear(l))
  <2>1. t + 11 \in Nat /\ t + 16 \in Nat /\ R(9) \notin AcquireScratch
    BY <1>1, NotScratch
  <2>2. now + 1 = t + 11 => Sets(l, R(9), Linear(l))
    BY <1>1, <1>4
  <2>3. Has(l, t + 11, t + 16, R(9), Linear(l)) /\ Free(code, R(9), t + 11, t + 16)
    BY <1>2, <1>3
  <2>. QED BY <2>1, <2>2, <2>3, FactKept
<1>21. now + 1 \in t + 12 .. e => Sets(l, R(10), Warp)
  <2>1. t + 12 \in Nat /\ e \in Nat /\ R(10) \notin AcquireScratch
    BY <1>1, NotScratch
  <2>2. now + 1 = t + 12 => Sets(l, R(10), Warp)
    BY <1>1, <1>4
  <2>3. Has(l, t + 12, e, R(10), Warp) /\ Free(code, R(10), t + 12, e)
    BY <1>2, <1>3
  <2>. QED BY <2>1, <2>2, <2>3, FactKept
<1>22. now + 1 \in t + 13 .. t + 13 => Sets(l, R(11), Shape[1] * Shape[2])
  <2>1. t + 13 \in Nat /\ t + 13 \in Nat /\ R(11) \notin AcquireScratch
    BY <1>1, NotScratch
  <2>2. now + 1 = t + 13 => Sets(l, R(11), Shape[1] * Shape[2])
    BY <1>1, <1>4
  <2>3. Has(l, t + 13, t + 13, R(11), Shape[1] * Shape[2]) /\ Free(code, R(11), t + 13, t + 13)
    BY <1>2, <1>5
  <2>. QED BY <2>1, <2>2, <2>3, FactKept
<1>23. now + 1 \in t + 14 .. t + 16 => Sets(l, R(11), Threads(Shape))
  <2>1. t + 14 \in Nat /\ t + 16 \in Nat /\ R(11) \notin AcquireScratch
    BY <1>1, NotScratch
  <2>2. now + 1 = t + 14 => Sets(l, R(11), Threads(Shape))
    BY <1>1, <1>4
  <2>3. Has(l, t + 14, t + 16, R(11), Threads(Shape)) /\ Free(code, R(11), t + 14, t + 16)
    BY <1>2, <1>3
  <2>. QED BY <2>1, <2>2, <2>3, FactKept
<1>24. now + 1 \in t + 15 .. t + 15 => Sets(l, R(12), Threads(Shape) + (2^LogWarp - 1))
  <2>1. t + 15 \in Nat /\ t + 15 \in Nat /\ R(12) \notin AcquireScratch
    BY <1>1, NotScratch
  <2>2. now + 1 = t + 15 => Sets(l, R(12), Threads(Shape) + (2^LogWarp - 1))
    BY <1>1, <1>4
  <2>3. Has(l, t + 15, t + 15, R(12), Threads(Shape) + (2^LogWarp - 1)) /\ Free(code, R(12), t + 15, t + 15)
    BY <1>2, <1>5
  <2>. QED BY <2>1, <2>2, <2>3, FactKept
<1>25. now + 1 \in t + 16 .. e => Sets(l, R(12), WarpsOf(Shape))
  <2>1. t + 16 \in Nat /\ e \in Nat /\ R(12) \notin AcquireScratch
    BY <1>1, NotScratch
  <2>2. now + 1 = t + 16 => Sets(l, R(12), WarpsOf(Shape))
    BY <1>1, <1>4
  <2>3. Has(l, t + 16, e, R(12), WarpsOf(Shape)) /\ Free(code, R(12), t + 16, e)
    BY <1>2, <1>3
  <2>. QED BY <2>1, <2>2, <2>3, FactKept
<1>26. now + 1 \in t + 17 .. e => Sets(l, RD(2), Device["shmem"])
  <2>1. t + 17 \in Nat /\ e \in Nat /\ RD(2) \notin AcquireScratch
    BY <1>1, NotScratch
  <2>2. now + 1 = t + 17 => Sets(l, RD(2), Device["shmem"])
    BY <1>1, <1>4
  <2>3. Has(l, t + 17, e, RD(2), Device["shmem"]) /\ Free(code, RD(2), t + 17, e)
    BY <1>2, <1>3
  <2>. QED BY <2>1, <2>2, <2>3, FactKept
<1>27. /\ now' = now + 1 /\ prog' = prog /\ code' = code /\ input' = input /\ active' = active
  BY RunningStep, LanesInStep DEF grid
<1>28. Launch' = Launch /\ Warp' = Warp /\ Shape' = Shape
  BY <1>27 DEF Launch, Warp, Shape, Kind
<1>29. TidX(l)' = TidX(l) /\ TidY(l)' = TidY(l) /\ TidZ(l)' = TidZ(l) /\ Linear(l)' = Linear(l)
  BY <1>28 DEF TidX, TidY, TidZ, Linear
<1>. QED BY <1>6, <1>7, <1>8, <1>9, <1>10, <1>11, <1>12, <1>13, <1>14, <1>15, <1>16, <1>17, <1>18, <1>19, <1>20,
            <1>21, <1>22, <1>23, <1>24, <1>25, <1>26, <1>27, <1>28, <1>29 DEF EntryHas, Has, Sets, b, t, e

----------------------------------------------------------------------------
(* What holds of every state of an entry.                                  *)
EntryInv == Kind = "entry" => GridE /\ InStep /\ \A l \in active : EntryHas(l)

LEMMA EntryInit == ASSUME Init PROVE EntryInv
<1>. SUFFICES ASSUME Kind = "entry" PROVE GridE /\ InStep /\ \A l \in active : EntryHas(l)
  BY DEF EntryInv
<1>1. /\ prog \in Progs /\ code = CodeOf(prog) /\ input \in InputsOf(Kind) /\ now = First
      /\ active = { l \in prog.lanes : Linear(l) < Threads(Shape) } /\ pc = [l \in LaneIds |-> First]
  BY DEF Init
<1>2. active \subseteq LaneIds
  <2>1. prog.lanes \subseteq LaneIds
    BY <1>1, ProgsAssumption DEF LaneIds
  <2>. QED BY <1>1, <2>1
<1>3. input[1] \in DOMAIN Launches /\ Warp \in Nat
  <2>1. PICK k \in DOMAIN Launches : \E w \in 0 .. WarpsOf(Launches[k].shape) - 1 : input = << k, w >>
    BY <1>1 DEF InputsOf
  <2>2. WarpsOf(Launches[k].shape) \in Nat
    BY LaunchesAssumption, WarpsCounted
  <2>. QED BY <2>1, <2>2 DEF Warp
<1>4. GridE
  BY <1>1, <1>2, <1>3 DEF GridE
<1>5. EntryLaid(code, First)
  BY <1>1, EntryCodeLaid DEF Kind
<1>6. First \in Nat /\ HeadLength \in Nat /\ HeadLength >= 6 /\ First + HeadLength + 17 <= Len(code)
        /\ Len(code) \in Nat
  BY <1>5 DEF EntryLaid, Lines
<1>7. InStep
  BY <1>1, <1>2, <1>6 DEF InStep
<1>8. ASSUME NEW l \in active PROVE EntryHas(l)
  <2>1. now = First
    BY <1>1
  <2>. QED BY <1>6, <2>1 DEF EntryHas, Has
<1>. QED BY <1>4, <1>7, <1>8

LEMMA GridEKept ==
  ASSUME UNCHANGED grid, GridE
  PROVE  GridE' /\ Kind' = Kind /\ active' = active /\ code' = code
<1>1. prog' = prog /\ code' = code /\ input' = input /\ active' = active
  BY DEF grid
<1>2. Kind' = Kind
  BY <1>1 DEF Kind
<1>3. Launch' = Launch /\ Warp' = Warp
  BY <1>1, <1>2 DEF Launch, Warp
<1>4. Shape' = Shape
  BY <1>3 DEF Shape
<1>5. \A l : Linear(l)' = Linear(l)
  BY <1>3 DEF Linear
<1>6. Threads(Shape)' = Threads(Shape)
  BY <1>4 DEF Threads
<1>. QED BY <1>1, <1>2, <1>3, <1>5, <1>6 DEF GridE

LEMMA EntryStep == ASSUME EntryInv, Next PROVE EntryInv'
<1>1. UNCHANGED grid
  BY DEF Next, Compute, Vote, Shuffle, Pass, LoadLine, StoreLine, PoolBase, AcquirePool, Branch, LeaveBlock, Stop,
         CallLine, Return, Done, Computed, NothingBut, vars, grid
<1>2. Kind' = Kind
  BY <1>1 DEF grid, Kind
<1>. SUFFICES ASSUME Kind = "entry" PROVE GridE' /\ InStep' /\ \A l \in active' : EntryHas(l)'
  BY <1>2 DEF EntryInv
<1>3. GridE /\ InStep /\ \A l \in active : EntryHas(l)
  BY DEF EntryInv
<1>4. GridE' /\ active' = active /\ code' = code
  BY <1>1, <1>3, GridEKept
<1>5. CASE active = {}
  BY <1>4, <1>5 DEF InStep
<1>6. CASE active # {} /\ ~Over
  <2>1. Running
    BY <1>3, <1>6 DEF Running
  <2>2. now' = now + 1 /\ (\A l \in active : pc'[l] = now + 1) /\ now + 1 \in First .. Len(code)
    BY <2>1, LanesInStep, RunningPlace
  <2>3. InStep'
    BY <1>4, <2>2 DEF InStep
  <2>4. \A l \in active : EntryHas(l)'
    BY <1>3, <2>1, EntryHasKept
  <2>. QED BY <1>4, <2>3, <2>4
<1>7. CASE Over
  <2>1. UNCHANGED vars
    BY <1>7 DEF Next, Compute, Vote, Shuffle, Pass, LoadLine, StoreLine, PoolBase, AcquirePool, Branch, LeaveBlock, Stop,
                CallLine, Return, Done, At
  <2>2. now' = now /\ pc' = pc /\ regs' = regs /\ prog' = prog /\ input' = input
    BY <2>1 DEF vars
  <2>3. Launch' = Launch /\ Warp' = Warp /\ Shape' = Shape
    BY <2>2 DEF Launch, Warp, Shape, Kind
  <2>4. InStep'
    BY <1>3, <1>4, <2>2 DEF InStep
  <2>5. ASSUME NEW l \in active PROVE EntryHas(l)'
    <3>1. EntryHas(l)
      BY <1>3
    <3>2. TidX(l)' = TidX(l) /\ TidY(l)' = TidY(l) /\ TidZ(l)' = TidZ(l) /\ Linear(l)' = Linear(l)
      BY <2>3 DEF TidX, TidY, TidZ, Linear
    <3>. QED BY <1>4, <2>2, <2>3, <3>1, <3>2 DEF EntryHas, Has
  <2>. QED BY <1>4, <2>4, <2>5
<1>. QED BY <1>5, <1>6, <1>7

LEMMA EntryStutter == ASSUME EntryInv, UNCHANGED vars PROVE EntryInv'
<1>1. /\ now' = now /\ pc' = pc /\ regs' = regs /\ prog' = prog /\ input' = input /\ code' = code /\ active' = active
      /\ UNCHANGED grid
  BY DEF vars, grid
<1>2. Launch' = Launch /\ Warp' = Warp /\ Shape' = Shape /\ Kind' = Kind
  BY <1>1 DEF Launch, Warp, Shape, Kind
<1>. SUFFICES ASSUME Kind = "entry" PROVE GridE' /\ InStep' /\ \A l \in active' : EntryHas(l)'
  BY <1>2 DEF EntryInv
<1>3. GridE /\ InStep /\ \A l \in active : EntryHas(l)
  BY DEF EntryInv
<1>4. GridE'
  BY <1>1, <1>3, GridEKept
<1>5. InStep'
  BY <1>1, <1>3 DEF InStep
<1>6. ASSUME NEW l \in active PROVE EntryHas(l)'
  <2>1. EntryHas(l)
    BY <1>3
  <2>2. TidX(l)' = TidX(l) /\ TidY(l)' = TidY(l) /\ TidZ(l)' = TidZ(l) /\ Linear(l)' = Linear(l)
    BY <1>2 DEF TidX, TidY, TidZ, Linear
  <2>. QED BY <1>1, <1>2, <2>1, <2>2 DEF EntryHas, Has
<1>. QED BY <1>1, <1>4, <1>5, <1>6

LEMMA EntryEnds == ASSUME EntryInv, Kind = "entry" PROVE ContextKept
<1>. SUFFICES ASSUME Over, fault = "none", NEW l \in active
              PROVE  \A a \in DOMAIN Context(l) : a \in DOMAIN regs[l] /\ regs[l][a] = Context(l)[a]
  BY DEF ContextKept
<1>1. GridE /\ EntryHas(l) /\ now = Len(code)
  BY DEF EntryInv, Over, End
<1>2. EntryLaid(code, First)
  BY <1>1, EntryCodeLaid DEF GridE, Kind
<1>3. First \in Nat /\ HeadLength \in Nat /\ HeadLength >= 6 /\ First + HeadLength + 17 <= Len(code)
        /\ Len(code) \in Nat
  BY <1>2 DEF EntryLaid, Lines
<1>. DEFINE t == First + HeadLength
            e == Len(code)
            Is(a, v) == a \in DOMAIN regs[l] /\ regs[l][a] = v
<1>4. /\ Has(l, First + 1, e, RD(0), Device["global_base"]) /\ Has(l, First + 2, e, R(30), Device["knl_vaddr"])
      /\ Has(l, First + 3, e, R(28), Launch.pdsBase) /\ Has(l, First + 4, e, R(29), Launch.pdsSize)
      /\ Has(l, t + 1, e, R(0), l) /\ Has(l, t + 12, e, R(10), Warp)
      /\ Has(l, t + 16, e, R(12), WarpsOf(Shape)) /\ Has(l, t + 17, e, RD(2), Device["shmem"])
  BY <1>1 DEF EntryHas
<1>5. /\ now \in First + 1 .. e /\ now \in First + 2 .. e /\ now \in First + 3 .. e /\ now \in First + 4 .. e
      /\ now \in t + 1 .. e /\ now \in t + 12 .. e /\ now \in t + 16 .. e /\ now \in t + 17 .. e
  BY <1>1, <1>3
<1>. HIDE DEF t, e
<1>6. /\ Is(RD(0), Device["global_base"]) /\ Is(R(30), Device["knl_vaddr"]) /\ Is(R(28), Launch.pdsBase)
      /\ Is(R(29), Launch.pdsSize) /\ Is(R(0), l) /\ Is(R(10), Warp) /\ Is(R(12), WarpsOf(Shape))
      /\ Is(RD(2), Device["shmem"])
  BY <1>4, <1>5 DEF Has
<1>7. /\ Context(l)[R(0)] = l /\ Context(l)[R(10)] = Warp /\ Context(l)[R(12)] = WarpsOf(Shape)
      /\ Context(l)[R(28)] = Launch.pdsBase /\ Context(l)[R(29)] = Launch.pdsSize
      /\ Context(l)[R(30)] = Device["knl_vaddr"] /\ Context(l)[RD(0)] = Device["global_base"]
      /\ Context(l)[RD(2)] = Device["shmem"] /\ DOMAIN Context(l) = ContextRegs
  BY DEF Context, ContextRegs, R, RD
<1>. QED BY <1>6, <1>7 DEF ContextRegs

LEMMA ContextStep == ASSUME IInv, EntryInv, Next, ~UNCHANGED vars PROVE IInv' /\ EntryInv'
<1>1. CASE Kind = "entry"
  <2>1. UNCHANGED grid
    BY DEF Next, Compute, Vote, Shuffle, Pass, LoadLine, StoreLine, PoolBase, AcquirePool, Branch, LeaveBlock,
           Stop, CallLine, Return, Done, Computed, NothingBut
  <2>2. IInv'
    BY <1>1, <2>1, GridKept DEF IInv
  <2>. QED BY <2>2, EntryStep
<1>2. CASE Kind # "entry"
  <2>1. Steady
    BY <1>2 DEF IInv, Steady, Next, Compute, Vote, Shuffle, Pass, LoadLine, StoreLine, PoolBase, AcquirePool,
                Branch, LeaveBlock, Stop, CallLine, Return, Done, At
  <2>. QED BY <2>1, StepKeeps, EntryStep
<1>. QED BY <1>1, <1>2

(* Whatever the program, the launch, the width and the size of a warp: at  *)
(* the end of what emit_instruction and emit_direct_call write for any     *)
(* instructions, and of the prologue of an entry, every lane has the       *)
(* registers that name its warp and the windows of memory as the launch    *)
(* says.                                                                   *)
THEOREM ContextSurvives == Spec => []ContextKept
<1>. DEFINE Inv == IInv /\ EntryInv
<1>1. Init => Inv
  BY InitHolds, EntryInit
<1>2. Inv /\ [Next]_vars => Inv'
  <2>. SUFFICES ASSUME Inv, [Next]_vars PROVE Inv'
    OBVIOUS
  <2>1. CASE UNCHANGED vars
    BY <2>1, StutterKeeps, EntryStutter
  <2>2. CASE Next /\ ~UNCHANGED vars
    BY <2>2, ContextStep
  <2>. QED BY <2>1, <2>2
<1>3. Inv => ContextKept
  BY EndsInContext, EntryEnds
<1>. QED BY <1>1, <1>2, <1>3, PTL DEF Spec
=============================================================================
