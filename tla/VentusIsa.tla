------------------------------ MODULE VentusIsa ------------------------------
(***************************************************************************)
(* What one instruction of the Ventus processor is, in words, and what it  *)
(* computes: src/VentusInst_basic.txt and, where that only has the name,   *)
(* the RISC-V manual.  The translator is compared with this.               *)
(*                                                                         *)
(* An instruction is a name, operands as the assembler writes them (rd,    *)
(* rs1, rs2, rs3, an immediate) and a rounding mode.                       *)
(***************************************************************************)
EXTENDS PtxAlu, DecodeOne

Insts == [m : Seq(STRING), rd : Nat, rs1 : Nat, rs2 : Nat, rs3 : Nat, imm : Int, rm : Nat]

I(m, rd, rs1, rs2, imm) ==
  [m |-> m, rd |-> rd, rs1 |-> rs1, rs2 |-> rs2, rs3 |-> 0, imm |-> imm, rm |-> 0]

----------------------------------------------------------------------------
(* Encoding.                                                               *)
Key(op, f3, f7) == << op, f3, f7 >>

RCodes ==
  [add |-> Key(51, 0, 0), sub |-> Key(51, 0, 32), sll |-> Key(51, 1, 0), slt |-> Key(51, 2, 0),
   sltu |-> Key(51, 3, 0), xor |-> Key(51, 4, 0), srl |-> Key(51, 5, 0), sra |-> Key(51, 5, 32),
   or |-> Key(51, 6, 0), and |-> Key(51, 7, 0), mul |-> Key(51, 0, 1), mulh |-> Key(51, 1, 1),
   mulhsu |-> Key(51, 2, 1), mulhu |-> Key(51, 3, 1), div |-> Key(51, 4, 1), divu |-> Key(51, 5, 1),
   rem |-> Key(51, 6, 1), remu |-> Key(51, 7, 1), slli |-> Key(19, 1, 0), srli |-> Key(19, 5, 0),
   srai |-> Key(19, 5, 32)]

ICodes ==
  [addi |-> Key(19, 0, 0), slti |-> Key(19, 2, 0), sltiu |-> Key(19, 3, 0), xori |-> Key(19, 4, 0),
   ori |-> Key(19, 6, 0), andi |-> Key(19, 7, 0), lb |-> Key(3, 0, 0), lh |-> Key(3, 1, 0),
   lw |-> Key(3, 2, 0), lbu |-> Key(3, 4, 0), lhu |-> Key(3, 5, 0), flw |-> Key(7, 2, 0),
   jalr |-> Key(103, 0, 0), csrrw |-> Key(115, 1, 0), csrrs |-> Key(115, 2, 0), csrrc |-> Key(115, 3, 0)]

SCodes == [sb |-> Key(35, 0, 0), sh |-> Key(35, 1, 0), sw |-> Key(35, 2, 0), fsw |-> Key(39, 2, 0)]

BCodes ==
  [beq |-> Key(99, 0, 0), bne |-> Key(99, 1, 0), blt |-> Key(99, 4, 0), bge |-> Key(99, 5, 0),
   bltu |-> Key(99, 6, 0), bgeu |-> Key(99, 7, 0)]

UCodes == [lui |-> 55, auipc |-> 23]
FmaCodes == [fmadd |-> 67, fmsub |-> 71, fnmsub |-> 75, fnmadd |-> 79]

(* OP-FP: funct7, funct3 and rs2; -1 where they hold an operand or a mode. *)
FCodes ==
  [fadd |-> << 0, -1, -1 >>, fsub |-> << 4, -1, -1 >>, fmul |-> << 8, -1, -1 >>, fdiv |-> << 12, -1, -1 >>,
   fsqrt |-> << 44, -1, 0 >>, fsgnj |-> << 16, 0, -1 >>, fsgnjn |-> << 16, 1, -1 >>, fsgnjx |-> << 16, 2, -1 >>,
   fmin |-> << 20, 0, -1 >>, fmax |-> << 20, 1, -1 >>, fle |-> << 80, 0, -1 >>, flt |-> << 80, 1, -1 >>,
   feq |-> << 80, 2, -1 >>, fclass |-> << 112, 1, 0 >>]

FNamed(m) ==
  CASE m = << "fcvt", "w", "s" >>  -> << 96, -1, 0 >>
    [] m = << "fcvt", "wu", "s" >> -> << 96, -1, 1 >>
    [] m = << "fcvt", "s", "w" >>  -> << 104, -1, 0 >>
    [] m = << "fcvt", "s", "wu" >> -> << 104, -1, 1 >>
    [] m = << "fmv", "x", "w" >>   -> << 112, 0, 0 >>
    [] m = << "fmv", "w", "x" >>   -> << 120, 0, 0 >>
    [] OTHER                       -> FCodes[m[1]]

VecI == { "vlw12", "vlb12", "vlbu12", "vlh12", "vlhu12", "vlw", "vadd12", "vsub12" }
VecS == { "vsw12", "vsb12", "vsh12", "vsw" }
VecB == { "vbeq", "vbne", "vblt", "vbge", "vbltu", "vbgeu" }
HasSmallImm(m) == m[Len(m)] \in { "vi", "vim", "i" } /\ m[1] \notin VecI

(* The word of i, with the low five bits of its registers.                 *)
Word(i) ==
  LET n == i.m[1]
      rd == i.rd % 32    rs1 == i.rs1 % 32    rs2 == i.rs2 % 32
      imm == i.imm
      typeI(pat, c) == Fields(pat, c[1], rd, c[2], rs1, imm % 32, (imm % 4096) \div 32)
      typeS(pat, c) == Fields(pat, c[1], imm % 32, c[2], rs1, rs2, (imm % 4096) \div 32)
      typeB(pat, c) == Fields(pat, c[1], ((imm % 32) \div 2) * 2 + ((imm % 4096) \div 2048), c[2], rs1, rs2,
                              ((imm % 8192) \div 4096) * 64 + ((imm % 2048) \div 32))
      f == FNamed(i.m)
  IN  CASE n \in VecI -> typeI(i.m, Key(0, 0, 0))
        [] n \in VecS -> typeS(i.m, Key(0, 0, 0))
        [] n \in VecB -> typeB(i.m, Key(0, 0, 0))
        [] n \in DOMAIN RCodes ->
             Fields(<< >>, RCodes[n][1], rd, RCodes[n][2], rs1,
                    IF RCodes[n][1] = 19 THEN imm ELSE rs2, RCodes[n][3])
        [] n \in DOMAIN ICodes -> typeI(<< >>, ICodes[n])
        [] n \in DOMAIN SCodes -> typeS(<< >>, SCodes[n])
        [] n \in DOMAIN BCodes -> typeB(<< >>, BCodes[n])
        [] n \in DOMAIN UCodes ->
             Fields(<< >>, UCodes[n], rd, imm % 8, (imm \div 8) % 32, (imm \div 256) % 32, imm \div 8192)
        [] n = "jal" ->
             Fields(<< >>, 111, rd, (imm \div 4096) % 8, (imm \div 32768) % 32,
                    ((imm % 32) \div 2) * 2 + ((imm \div 2048) % 2),
                    ((imm % 2^21) \div 2^20) * 64 + ((imm % 2048) \div 32))
        [] n \in DOMAIN FmaCodes -> Fields(<< >>, FmaCodes[n], rd, i.rm, rs1, rs2, (i.rs3 % 32) * 4)
        [] n \in DOMAIN FCodes \cup { "fcvt", "fmv" } ->
             Fields(<< >>, 83, rd, IF f[2] = -1 THEN i.rm ELSE f[2], rs1, IF f[3] = -1 THEN rs2 ELSE f[3], f[1])
        [] OTHER ->
             Fields(i.m, 87, rd, 0, IF HasSmallImm(i.m) THEN imm % 32 ELSE rs1, rs2, 0)

(* The words of i: with regexti or regext before it where it needs one.    *)
Encode(i) ==
  LET high(r) == r \div 32
      prefix(pat, bits) == Fields(pat, 11, 0, 2, 0, bits % 32, bits \div 32)
      wide == i.imm \notin -16 .. 15
  IN  IF HasSmallImm(i.m) /\ (wide \/ high(i.rd) + high(i.rs2) > 0)
        THEN << prefix(<< "regexti" >>, high(i.rd) + 8 * high(i.rs2) + 64 * ((i.imm % 2048) \div 32)), Word(i) >>
        ELSE IF high(i.rd) + high(i.rs1) + high(i.rs2) + high(i.rs3) > 0
               THEN << prefix(<< "regext" >>,
                              high(i.rd) + 8 * high(i.rs1) + 64 * high(i.rs2) + 512 * high(i.rs3)), Word(i) >>
               ELSE << Word(i) >>

----------------------------------------------------------------------------
(* Integers: a is the first operand of the assembler's order.              *)
IntOp(op, a, b) ==
  LET sa == Signed(a)   sb == Signed(b)   by == b % W
  IN  CASE op = "add" -> Wrap(a + b)          [] op = "sub" -> Wrap(a - b)
        [] op = "and" -> BitAnd(a, b)         [] op = "or"  -> Wrap(a + b - BitAnd(a, b))
        [] op = "xor" -> BitXor(a, b)         [] op = "sll" -> Wrap(a * 2^by)
        [] op = "srl" -> a \div 2^by          [] op = "sra" -> Wrap(sa \div 2^by)
        [] op = "mul" -> Wrap(a * b)          [] op = "mulh" -> Wrap((sa * sb) \div Top)
        [] op = "mulhu" -> (a * b) \div Top   [] op = "mulhsu" -> Wrap((sa * b) \div Top)
        [] op = "div" -> IF b = 0 THEN Ones ELSE Wrap(Quot(sa, sb))
        [] op = "rem" -> IF b = 0 THEN a ELSE Wrap(sa - sb * Quot(sa, sb))
        [] op = "divu" -> IF b = 0 THEN Ones ELSE a \div b
        [] op = "remu" -> IF b = 0 THEN a ELSE a % b
        [] op = "seq" -> Bool(a = b)          [] op = "sne" -> Bool(a # b)
        [] op = "slt" -> Bool(sa < sb)        [] op = "sltu" -> Bool(a < b)
        [] op = "sle" -> Bool(sa <= sb)       [] op = "sleu" -> Bool(a <= b)
        [] op = "sgt" -> Bool(sa > sb)        [] op = "sgtu" -> Bool(a > b)
        [] op = "minu" -> IF a < b THEN a ELSE b
        [] op = "maxu" -> IF a < b THEN b ELSE a
        [] op = "min" -> IF sa < sb THEN a ELSE b
        [] op = "max" -> IF sa < sb THEN b ELSE a

ScalarInt ==
  [n \in DOMAIN RCodes \cup { "addi", "slti", "sltiu", "xori", "ori", "andi" } |->
     CASE n = "addi" -> "add" [] n = "slti" -> "slt" [] n = "sltiu" -> "sltu" [] n = "xori" -> "xor"
       [] n = "ori" -> "or" [] n = "andi" -> "and" [] n = "slli" -> "sll" [] n = "srli" -> "srl"
       [] n = "srai" -> "sra" [] OTHER -> n]

VectorInt ==
  [vadd |-> "add", vsub |-> "sub", vadd12 |-> "add", vsub12 |-> "sub", vand |-> "and", vor |-> "or",
   vxor |-> "xor", vsll |-> "sll", vsrl |-> "srl", vsra |-> "sra", vmul |-> "mul", vmulh |-> "mulh",
   vmulhu |-> "mulhu", vmulhsu |-> "mulhsu", vdiv |-> "div", vdivu |-> "divu", vrem |-> "rem",
   vremu |-> "remu", vminu |-> "minu", vmin |-> "min", vmaxu |-> "maxu", vmax |-> "max",
   vmseq |-> "seq", vmsne |-> "sne", vmsltu |-> "sltu", vmslt |-> "slt", vmsleu |-> "sleu",
   vmsle |-> "sle", vmsgtu |-> "sgtu", vmsgt |-> "sgt"]

(* Floating point.                                                         *)
Modes == << "rn", "rz", "rm", "rp" >>
Mode(rm) == IF rm = 7 THEN "rn" ELSE Modes[rm + 1]

Class(a) ==
  2^(CASE IsNaN(a)       -> (IF BitAnd(a, QuietBit) = 0 THEN 8 ELSE 9)
       [] Mag(a) = InfMag -> (IF Neg(a) THEN 0 ELSE 7)
       [] Mag(a) >= Frac  -> (IF Neg(a) THEN 1 ELSE 6)
       [] Mag(a) > 0      -> (IF Neg(a) THEN 2 ELSE 5)
       [] Mag(a) = 0      -> (IF Neg(a) THEN 3 ELSE 4))

FloatOp(op, rm, a, b) ==
  CASE op = "add" -> FAdd(rm, a, b)   [] op = "sub" -> FSub(rm, a, b)
    [] op = "mul" -> FMul(rm, a, b)   [] op = "div" -> FDiv(rm, a, b)
    [] op = "min" -> FMin(a, b)       [] op = "max" -> FMax(a, b)
    [] op = "eq"  -> Bool(FEq(a, b))  [] op = "ne" -> Bool(~FEq(a, b))
    [] op = "lt"  -> Bool(FLess(a, b)) [] op = "le" -> Bool(FLeq(a, b))
    [] op = "gt"  -> Bool(FLess(b, a)) [] op = "ge" -> Bool(FLeq(b, a))
    [] op = "sgnj"  -> WithSign(Neg(b), Mag(a))
    [] op = "sgnjn" -> WithSign(~Neg(b), Mag(a))
    [] op = "sgnjx" -> WithSign(Neg(a) # Neg(b), Mag(a))

ScalarFloat ==
  [fadd |-> "add", fsub |-> "sub", fmul |-> "mul", fdiv |-> "div", fmin |-> "min", fmax |-> "max",
   feq |-> "eq", flt |-> "lt", fle |-> "le", fsgnj |-> "sgnj", fsgnjn |-> "sgnjn", fsgnjx |-> "sgnjx"]

VectorFloat ==
  [vfadd |-> "add", vfsub |-> "sub", vfmul |-> "mul", vfdiv |-> "div", vfmin |-> "min", vfmax |-> "max",
   vmfeq |-> "eq", vmfne |-> "ne", vmflt |-> "lt", vmfle |-> "le", vmfgt |-> "gt", vmfge |-> "ge",
   vfsgnj |-> "sgnj", vfsgnjn |-> "sgnjn", vfsgnjx |-> "sgnjx"]

(* The nearest integer, or the one that rm asks for, within the type's.    *)
ToInt(rm, signed, a) ==
  LET lo == IF signed THEN -High ELSE 0
      hi == IF signed THEN High - 1 ELSE Ones
  IN  Wrap(IF IsNaN(a) THEN hi ELSE IntOfF(rm \o "i", a, lo, hi))
ToFloat(rm, signed, a) == FOfInt(rm, IF signed THEN Signed(a) ELSE a)

(* +-(a * b) +- c.                                                         *)
MulAdd(rm, negProduct, negSum, a, b, c) ==
  FFma(rm, IF negProduct THEN FNeg(a) ELSE a, b, IF negSum THEN FNeg(c) ELSE c)

(* What a scalar instruction writes to rd; b is rs2 or the immediate.      *)
ScalarValue(i, a, b, c) ==
  LET n == i.m[1]   rm == Mode(i.rm)
  IN  CASE n \in DOMAIN ScalarInt   -> IntOp(ScalarInt[n], a, b)
        [] n \in DOMAIN ScalarFloat -> FloatOp(ScalarFloat[n], rm, a, b)
        [] n = "fmv"    -> a
        [] n = "fsqrt"  -> FSqrt(rm, a)
        [] n = "fclass" -> Class(a)
        [] n = "fcvt"   -> IF i.m[2] = "s" THEN ToFloat(rm, i.m[3] = "w", a) ELSE ToInt(rm, i.m[2] = "w", a)
        [] n = "fmadd"  -> MulAdd(rm, FALSE, FALSE, a, b, c)
        [] n = "fmsub"  -> MulAdd(rm, FALSE, TRUE, a, b, c)
        [] n = "fnmadd" -> MulAdd(rm, TRUE, TRUE, a, b, c)
        [] n = "fnmsub" -> MulAdd(rm, TRUE, FALSE, a, b, c)

(* What a vector instruction writes to vd in a lane: a is vs2[i], b is     *)
(* vs1[i], rs1 or the immediate, d is vd[i] and m is v0[i].                *)
VectorValue(i, a, b, d, m) ==
  LET n == i.m[1]   true(x) == x # 0
  IN  CASE n \in DOMAIN VectorInt   -> IntOp(VectorInt[n], a, b)
        [] n \in DOMAIN VectorFloat -> FloatOp(VectorFloat[n], "rn", a, b)
        [] n = "vrsub"  -> Wrap(b - a)
        [] n = "vfrsub" -> FSub("rn", b, a)
        [] n = "vfrdiv" -> FDiv("rn", b, a)
        [] n = "vmadd"  -> Wrap(b * d + a)    [] n = "vnmsub" -> Wrap(a - b * d)
        [] n = "vmacc"  -> Wrap(b * a + d)    [] n = "vnmsac" -> Wrap(d - b * a)
        [] n = "vfmadd" -> MulAdd("rn", FALSE, FALSE, b, d, a)
        [] n = "vfmsub" -> MulAdd("rn", FALSE, TRUE, b, d, a)
        [] n = "vfnmadd" -> MulAdd("rn", TRUE, TRUE, b, d, a)
        [] n = "vfnmsub" -> MulAdd("rn", TRUE, FALSE, b, d, a)
        [] n = "vfmacc" -> MulAdd("rn", FALSE, FALSE, b, a, d)
        [] n = "vfmsac" -> MulAdd("rn", FALSE, TRUE, b, a, d)
        [] n = "vfnmacc" -> MulAdd("rn", TRUE, TRUE, b, a, d)
        [] n = "vfnmsac" -> MulAdd("rn", TRUE, FALSE, b, a, d)
        [] n \in { "vmerge", "vfmerge" } -> IF true(m) THEN b ELSE a
        [] n \in { "vmv", "vfmv" } -> b
        [] n = "vfsqrt"  -> FSqrt("rn", a)
        [] n = "vfclass" -> Class(a)
        [] n = "vfcvt"   -> IF i.m[2] = "f" THEN ToFloat("rn", i.m[3] = "x", a)
                            ELSE IF i.m[2] = "rtz" THEN ToInt("rz", i.m[3] = "x", a)
                            ELSE ToInt("rn", i.m[2] = "x", a)
        [] n = "vmand"  -> Bool(true(a) /\ true(b))   [] n = "vmandn" -> Bool(true(a) /\ ~true(b))
        [] n = "vmor"   -> Bool(true(a) \/ true(b))   [] n = "vmorn"  -> Bool(true(a) \/ ~true(b))
        [] n = "vmxor"  -> Bool(true(a) # true(b))    [] n = "vmxnor" -> Bool(true(a) = true(b))
        [] n = "vmnand" -> Bool(~(true(a) /\ true(b))) [] n = "vmnor" -> Bool(~(true(a) \/ true(b)))
=============================================================================
