------------------------------- MODULE PtxAlu -------------------------------
(***************************************************************************)
(* The operations of PTX that the emitted code uses, on registers of W     *)
(* bits, and the floating-point numbers they work on: a sign, E bits of    *)
(* exponent and W - 1 - E of fraction, with subnormals, infinities and     *)
(* NaNs.  What the PTX manual leaves undefined is Undef, and so is what is *)
(* computed from it.                                                       *)
(***************************************************************************)
EXTENDS Integers, Sequences, FiniteSetsExt

CONSTANTS W, E
ASSUME WidthAssumption == W \in 8 .. 32 /\ W % 4 = 0 /\ E \in 2 .. W - 3

Undef == -1
Top   == 2^W
Wide  == Top * Top       (* the numbers of a register of 64 bits           *)
High  == 2^(W - 1)       (* 0x80000000: the sign bit                       *)
Ones  == Top - 1
Wrap(i)   == i % Top
Signed(a) == IF a < High THEN a ELSE a - Top
Bool(b)   == IF b THEN 1 ELSE 0

(* Bits, four at a time.                                                   *)
AndOf4(a, b) ==
  (a % 2) * (b % 2) + 2 * ((a \div 2) % 2) * ((b \div 2) % 2)
    + 4 * ((a \div 4) % 2) * ((b \div 4) % 2) + 8 * (a \div 8) * (b \div 8)
AndAt(a, b, p) == p * AndOf4((a \div p) % 16, (b \div p) % 16)
BitAnd(a, b) ==
  AndAt(a, b, 1) + AndAt(a, b, 2^4) + AndAt(a, b, 2^8) + AndAt(a, b, 2^12)
    + (IF W <= 16 THEN 0
       ELSE AndAt(a, b, 2^16) + AndAt(a, b, 2^20) + AndAt(a, b, 2^24) + AndAt(a, b, 2^28))
BitOr(a, b)  == a + b - BitAnd(a, b)
BitXor(a, b) == a + b - 2 * BitAnd(a, b)
BitNot(a)    == Ones - a

Shl(a, n)  == IF n >= W THEN 0 ELSE Wrap(a * 2^n)
ShrU(a, n) == IF n >= W THEN 0 ELSE a \div 2^n
ShrS(a, n) == Wrap(Signed(a) \div 2^(IF n >= W THEN W - 1 ELSE n))

(* Division of integers that rounds to zero.                               *)
Abs(i) == IF i < 0 THEN -i ELSE i
Quot(a, b) == (IF (a < 0) # (b < 0) THEN -1 ELSE 1) * (Abs(a) \div Abs(b))

----------------------------------------------------------------------------
(* Floating point.  The finite magnitudes are numbered as their bits are;  *)
(* ValueOf counts in units of the least subnormal.                         *)
Frac    == 2^(W - 1 - E)
InfMag  == (2^E - 1) * Frac
QuietBit == Frac \div 2
One     == Frac * 2^(2^(E - 1) - 2)     (* 1.0 in the units of ValueOf     *)
ValueOf ==
  [m \in 0 .. InfMag |-> IF m < Frac THEN m ELSE (Frac + (m % Frac)) * 2^(m \div Frac - 1)]

Mag(a)    == a % High
Neg(a)    == a >= High
IsNaN(a)  == Mag(a) > InfMag
IsInf(a)  == Mag(a) = InfMag
IsZero(a) == Mag(a) = 0
Real(a)   == IF Neg(a) THEN -ValueOf[Mag(a)] ELSE ValueOf[Mag(a)]
NaN       == High - 1
WithSign(neg, m) == IF neg THEN High + m ELSE m

(* The number that is between magnitudes m and m + 1, on the side of the   *)
(* middle that side is the sign of, rounded as rm says.                    *)
RoundAt(rm, neg, m, exact, side) ==
  LET up == CASE rm = "rn" -> side > 0 \/ (side = 0 /\ m % 2 = 1)
              [] rm = "rz" -> FALSE
              [] rm = "rm" -> neg
              [] rm = "rp" -> ~neg
  IN  WithSign(neg, IF ~exact /\ up THEN m + 1 ELSE m)

(* n / d in the units of ValueOf.                                          *)
Round(rm, neg, n, d) ==
  LET m == CHOOSE k \in 0 .. InfMag - 1 :
             ValueOf[k] * d <= n /\ (k = InfMag - 1 \/ n < ValueOf[k + 1] * d)
  IN  RoundAt(rm, neg, m, ValueOf[m] * d = n, 2 * n - (ValueOf[m] + ValueOf[m + 1]) * d)

(* A sum that is zero: of two zeros of one sign that zero, else +0, or -0  *)
(* when rounding down.                                                     *)
ZeroSum(rm, zeros, neg) ==
  WithSign(IF zeros THEN neg ELSE rm = "rm", 0)

FAdd(rm, a, b) ==
  IF IsNaN(a) \/ IsNaN(b) \/ (IsInf(a) /\ IsInf(b) /\ Neg(a) # Neg(b)) THEN NaN
  ELSE IF IsInf(a) THEN a ELSE IF IsInf(b) THEN b
  ELSE LET s == Real(a) + Real(b)
       IN  IF s = 0 THEN ZeroSum(rm, Neg(a) = Neg(b), Neg(a)) ELSE Round(rm, s < 0, Abs(s), 1)

FNeg(a) == WithSign(~Neg(a), Mag(a))
FSub(rm, a, b) == IF IsNaN(b) THEN NaN ELSE FAdd(rm, a, FNeg(b))

FFma(rm, a, b, c) ==
  LET neg == Neg(a) # Neg(b)
      inf == IsInf(a) \/ IsInf(b)
  IN  IF IsNaN(a) \/ IsNaN(b) \/ IsNaN(c) \/ (inf /\ (IsZero(a) \/ IsZero(b)))
           \/ (inf /\ IsInf(c) /\ Neg(c) # neg) THEN NaN
      ELSE IF inf THEN WithSign(neg, InfMag) ELSE IF IsInf(c) THEN c
      ELSE LET s == Real(a) * Real(b) + Real(c) * One
           IN  IF s = 0 THEN ZeroSum(rm, neg = Neg(c), neg) ELSE Round(rm, s < 0, Abs(s), One)

FMul(rm, a, b) ==
  LET neg == Neg(a) # Neg(b)
      inf == IsInf(a) \/ IsInf(b)
  IN  IF IsNaN(a) \/ IsNaN(b) \/ (inf /\ (IsZero(a) \/ IsZero(b))) THEN NaN
      ELSE IF inf THEN WithSign(neg, InfMag)
      ELSE Round(rm, neg, Abs(Real(a) * Real(b)), One)

FDiv(rm, a, b) ==
  LET neg == Neg(a) # Neg(b)
  IN  IF IsNaN(a) \/ IsNaN(b) \/ (IsInf(a) /\ IsInf(b)) \/ (IsZero(a) /\ IsZero(b)) THEN NaN
      ELSE IF IsInf(a) \/ IsZero(b) THEN WithSign(neg, InfMag)
      ELSE IF IsInf(b) THEN WithSign(neg, 0)
      ELSE Round(rm, neg, Abs(Real(a)) * One, Abs(Real(b)))

FSqrt(rm, a) ==
  IF IsNaN(a) \/ (Neg(a) /\ ~IsZero(a)) THEN NaN
  ELSE IF IsZero(a) \/ IsInf(a) THEN a
  ELSE LET n == Real(a) * One
           m == CHOOSE k \in 0 .. InfMag - 1 : ValueOf[k]^2 <= n /\ n < ValueOf[k + 1]^2
       IN  RoundAt(rm, FALSE, m, ValueOf[m]^2 = n, 4 * n - (ValueOf[m] + ValueOf[m + 1])^2)

(* min and max drop a NaN; -0 is less than +0.                             *)
FBelow(a, b) ==
  IF Neg(a) # Neg(b) THEN Neg(a) ELSE IF Neg(a) THEN Mag(a) > Mag(b) ELSE Mag(a) < Mag(b)
FMin(a, b) ==
  IF IsNaN(a) /\ IsNaN(b) THEN NaN ELSE IF IsNaN(a) THEN b ELSE IF IsNaN(b) THEN a
  ELSE IF FBelow(a, b) THEN a ELSE b
FMax(a, b) ==
  IF IsNaN(a) /\ IsNaN(b) THEN NaN ELSE IF IsNaN(a) THEN b ELSE IF IsNaN(b) THEN a
  ELSE IF FBelow(a, b) THEN b ELSE a

Ordered(a, b) == ~IsNaN(a) /\ ~IsNaN(b)
FLess(a, b)   == Ordered(a, b) /\ Real(a) < Real(b)
FLeq(a, b)    == Ordered(a, b) /\ Real(a) <= Real(b)
FEq(a, b)     == Ordered(a, b) /\ Real(a) = Real(b)

FOfInt(rm, i) == Round(rm, i < 0, Abs(i) * One, 1)

(* To an integer in lo .. hi; PTX makes 0 of a NaN.                        *)
IntOfF(rm, a, lo, hi) ==
  LET n == Abs(Real(a))
      q == n \div One
      r == n % One
      up == CASE rm = "rni" -> 2 * r > One \/ (2 * r = One /\ q % 2 = 1)
              [] rm = "rzi" -> FALSE
              [] rm = "rmi" -> Neg(a) /\ r # 0
              [] rm = "rpi" -> ~Neg(a) /\ r # 0
      i == (IF Neg(a) THEN -1 ELSE 1) * (q + Bool(up))
  IN  IF IsNaN(a) THEN 0
      ELSE IF IsInf(a) \/ i < lo \/ i > hi THEN (IF Neg(a) THEN lo ELSE hi)
      ELSE i

----------------------------------------------------------------------------
(* One operation on its sources s; predicates are 0 and 1.                 *)
Compare(op, a, b) ==
  CASE op = "setp.eq.u32"  -> a = b
    [] op = "setp.ne.u32"  -> a # b
    [] op = "setp.lt.u32"  -> a < b
    [] op = "setp.le.u32"  -> a <= b
    [] op = "setp.gt.u32"  -> a > b
    [] op = "setp.ge.u32"  -> a >= b
    [] op = "setp.lt.s32"  -> Signed(a) < Signed(b)
    [] op = "setp.le.s32"  -> Signed(a) <= Signed(b)
    [] op = "setp.gt.s32"  -> Signed(a) > Signed(b)
    [] op = "setp.ge.s32"  -> Signed(a) >= Signed(b)
    [] op = "setp.eq.f32"  -> FEq(a, b)
    [] op = "setp.lt.f32"  -> FLess(a, b)
    [] op = "setp.le.f32"  -> FLeq(a, b)
    [] op = "setp.nan.f32" -> IsNaN(a) \/ IsNaN(b)

Comparisons ==
  { "setp.eq.u32", "setp.ne.u32", "setp.lt.u32", "setp.le.u32", "setp.gt.u32", "setp.ge.u32",
    "setp.lt.s32", "setp.le.s32", "setp.gt.s32", "setp.ge.s32",
    "setp.eq.f32", "setp.lt.f32", "setp.le.f32", "setp.nan.f32" }

Apply1(op, rm, a) ==
  CASE op \in { "mov.u32", "mov.b32", "mov.u64" } -> a
    [] op \in { "cvt.u64.u32", "cvt.s64.u32", "cvt.u32.u8", "cvt.u32.u16" } -> a
    [] op = "cvt.s64.s32" -> Signed(a) % Wide
    [] op \in { "cvt.u32.u64", "cvt.u32.s64" } -> Wrap(a)
    [] op = "cvt.u8.u32"  -> a % 2^(W \div 4)
    [] op = "cvt.u16.u32" -> a % 2^(W \div 2)
    [] op = "not.b32"     -> BitNot(a)
    [] op = "not.pred"    -> 1 - a
    [] op = "sqrt.f32"    -> FSqrt(rm, a)
    [] op = "cvt.f32.s32" -> FOfInt(rm, Signed(a))
    [] op = "cvt.f32.u32" -> FOfInt(rm, a)
    [] op = "cvt.s32.f32" -> Wrap(IntOfF(rm, a, -High, High - 1))
    [] op = "cvt.u32.f32" -> IntOfF(rm, a, 0, Ones)
    [] op = "bfind.u32"   -> CHOOSE i \in 0 .. W - 1 : a \div 2^i = 1

Apply2(op, rm, a, b) ==
  CASE op \in Comparisons -> Bool(Compare(op, a, b))
    [] op \in { "add.u32", "add.s32" } -> Wrap(a + b)
    [] op \in { "sub.u32", "sub.s32" } -> Wrap(a - b)
    [] op = "add.u64"  -> (a + b) % Wide
    [] op \in { "and.b32", "and.pred" } -> BitAnd(a, b)
    [] op \in { "or.b32", "or.pred" }   -> BitOr(a, b)
    [] op \in { "xor.b32", "xor.pred" } -> BitXor(a, b)
    [] op = "shl.b32"  -> Shl(a, b)
    [] op = "shr.u32"  -> ShrU(a, b)
    [] op = "shr.s32"  -> ShrS(a, b)
    [] op = "shr.s64"  -> ((IF a < Wide \div 2 THEN a ELSE a - Wide) \div 2^b) % Wide
    [] op \in { "mul.lo.s32", "mul.lo.u32" } -> Wrap(a * b)
    [] op = "mul.lo.s64" -> (IF a < Wide \div 2 THEN a * b ELSE (a - Wide) * b) % Wide
    [] op = "mul.hi.s32" -> Wrap((Signed(a) * Signed(b)) \div Top)
    [] op = "mul.hi.u32" -> (a * b) \div Top
    [] op = "div.s32" -> IF b = 0 \/ (a = High /\ b = Ones) THEN Undef ELSE Wrap(Quot(Signed(a), Signed(b)))
    [] op = "rem.s32" -> IF b = 0 \/ (a = High /\ b = Ones) THEN Undef
                         ELSE Wrap(Signed(a) - Signed(b) * Quot(Signed(a), Signed(b)))
    [] op = "div.u32" -> IF b = 0 THEN Undef ELSE a \div b
    [] op = "rem.u32" -> IF b = 0 THEN Undef ELSE a % b
    [] op = "min.u32" -> IF a < b THEN a ELSE b
    [] op = "max.u32" -> IF a < b THEN b ELSE a
    [] op = "min.s32" -> IF Signed(a) < Signed(b) THEN a ELSE b
    [] op = "max.s32" -> IF Signed(a) < Signed(b) THEN b ELSE a
    [] op = "add.f32" -> FAdd(rm, a, b)
    [] op = "sub.f32" -> FSub(rm, a, b)
    [] op = "mul.f32" -> FMul(rm, a, b)
    [] op = "div.f32" -> FDiv(rm, a, b)
    [] op = "min.f32" -> FMin(a, b)
    [] op = "max.f32" -> FMax(a, b)

Apply3(op, rm, a, b, c) ==
  CASE op \in { "selp.u32", "selp.b32" } -> IF c = 1 THEN a ELSE b
    [] op = "mad.lo.s32" -> Wrap(a * b + c)
    [] op = "fma.f32"    -> FFma(rm, a, b, c)

Apply(op, rm, s) ==
  IF \E i \in DOMAIN s : s[i] = Undef THEN Undef
  ELSE CASE Len(s) = 1 -> Apply1(op, rm, s[1])
         [] Len(s) = 2 -> Apply2(op, rm, s[1], s[2])
         [] Len(s) = 3 -> Apply3(op, rm, s[1], s[2], s[3])
=============================================================================
