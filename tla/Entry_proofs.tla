---------------------------- MODULE Entry_proofs ----------------------------
(***************************************************************************)
(* Whatever the launch, the width and the size of a warp: when the         *)
(* prologue of an entry is over, the registers of the stack, of the global *)
(* pointer and of the arguments are as the launch, the file and the        *)
(* metadata say, and the launch is stopped just when its pool is below the *)
(* global window or, by its first warp, when the pool has no blocks or a   *)
(* bitmap below that window.                                               *)
(***************************************************************************)
EXTENDS Lowering_proofs

----------------------------------------------------------------------------
(* The pieces of the prologue, at their places in the code.                *)
Placed(z, o, s) ==
  /\ o \in Nat /\ Lines(s) /\ o + Len(s) <= Len(z)
  /\ \A k \in 1 .. Len(s) : z[o + k] = s[k]

LEMMA PlacedFirst == \A s : Lines(s) => Placed(s, 0, s)
BY DEF Placed, Lines

LEMMA PlacedLast ==
  \A s, u : Lines(s) /\ Lines(u) => Lines(s \o u) /\ Len(s \o u) = Len(s) + Len(u) /\ Placed(s \o u, Len(s), u)
<1>. SUFFICES ASSUME NEW s, NEW u, Lines(s), Lines(u)
              PROVE  Lines(s \o u) /\ Len(s \o u) = Len(s) + Len(u) /\ Placed(s \o u, Len(s), u)
  OBVIOUS
<1>1. Lines(s \o u) /\ Len(s \o u) = Len(s) + Len(u) /\ \A k \in 1 .. Len(u) : (s \o u)[Len(s) + k] = u[k]
  BY LinesJoined
<1>2. Len(s) \in Nat /\ Len(u) \in Nat
  BY DEF Lines
<1>. QED BY <1>1, <1>2 DEF Placed

Join(s, u) == s \o u

LEMMA JoinLines == ASSUME NEW s, NEW u, Lines(s), Lines(u) PROVE Lines(Join(s, u))
  BY LinesJoined DEF Join

LEMMA JoinedAt ==
  ASSUME NEW s, NEW u, Lines(s), Lines(u)
  PROVE  /\ Len(Join(s, u)) = Len(s) + Len(u)
         /\ \A k \in 1 .. Len(s) : Join(s, u)[k] = s[k]
         /\ \A k \in 1 .. Len(u) : Join(s, u)[Len(s) + k] = u[k]
  BY LinesJoined DEF Join

LEMMA TwoAndOne ==
  ASSUME NEW s, NEW u, Lines(s), Lines(u)
  PROVE  Len(s) = 2 /\ Len(u) = 1 =>
         LET z == Join(s, u) IN Lines(z) /\ Len(z) = 3 /\ z[1] = s[1] /\ z[2] = s[2] /\ z[3] = u[1]
<1>. DEFINE z == Join(s, u)
<1>0. Lines(z)
  BY JoinLines
<1>1. /\ Len(z) = Len(s) + Len(u)
      /\ \A k \in 1 .. Len(s) : z[k] = s[k]
      /\ \A k \in 1 .. Len(u) : z[Len(s) + k] = u[k]
  BY JoinedAt
<1>. HIDE DEF z
<1>. SUFFICES ASSUME Len(s) = 2, Len(u) = 1 PROVE Lines(z) /\ Len(z) = 3 /\ z[1] = s[1] /\ z[2] = s[2] /\ z[3] = u[1]
  BY DEF z
<1>2. Lines(z) /\ Len(z) = 3
  BY <1>0, <1>1
<1>3. z[1] = s[1] /\ z[2] = s[2]
  BY <1>1
<1>4. \A k \in 1 .. 1 : z[2 + k] = u[k]
  BY <1>1
<1>5. 1 \in 1 .. 1 /\ 2 + 1 = 3
  OBVIOUS
<1>6. z[2 + 1] = u[1]
  BY <1>4, <1>5
<1>7. z[3] = u[1]
  BY <1>5, <1>6
<1>. QED BY <1>2, <1>3, <1>7

LEMMA OneAndMore ==
  ASSUME NEW s, NEW u, Lines(s), Lines(u)
  PROVE  Len(s) = 1 /\ Len(u) = 15 =>
         LET z == Join(s, u) IN Lines(z) /\ Len(z) = 16 /\ z[1] = s[1] /\ \A k \in 1 .. 15 : z[1 + k] = u[k]
<1>. DEFINE z == Join(s, u)
<1>0. Lines(z)
  BY JoinLines
<1>1. /\ Len(z) = Len(s) + Len(u)
      /\ \A k \in 1 .. Len(s) : z[k] = s[k]
      /\ \A k \in 1 .. Len(u) : z[Len(s) + k] = u[k]
  BY JoinedAt
<1>. HIDE DEF z
<1>. SUFFICES ASSUME Len(s) = 1, Len(u) = 15
              PROVE  Lines(z) /\ Len(z) = 16 /\ z[1] = s[1] /\ \A k \in 1 .. 15 : z[1 + k] = u[k]
  BY DEF z
<1>2. Lines(z) /\ Len(z) = 16
  BY <1>0, <1>1
<1>3. z[1] = s[1]
  BY <1>1
<1>4. \A k \in 1 .. 15 : z[1 + k] = u[k]
  BY <1>1
<1>. QED BY <1>2, <1>3, <1>4

LEMMA MapAndLoad ==
  ASSUME NEW s, NEW u, Lines(s), Lines(u)
  PROVE  Len(s) = 13 /\ Len(u) = 2 =>
         LET z == Join(s, u)
         IN  /\ Lines(z) /\ Len(z) = 15
             /\ \A k \in 1 .. 13 : z[k] = s[k]
             /\ \A k \in 1 .. 2 : z[13 + k] = u[k]
<1>. DEFINE z == Join(s, u)
<1>0. Lines(z)
  BY JoinLines
<1>1. /\ Len(z) = Len(s) + Len(u)
      /\ \A k \in 1 .. Len(s) : z[k] = s[k]
      /\ \A k \in 1 .. Len(u) : z[Len(s) + k] = u[k]
  BY JoinedAt
<1>. HIDE DEF z
<1>. SUFFICES ASSUME Len(s) = 13, Len(u) = 2
              PROVE  /\ Lines(z) /\ Len(z) = 15
                     /\ \A k \in 1 .. 13 : z[k] = s[k]
                     /\ \A k \in 1 .. 2 : z[13 + k] = u[k]
  BY DEF z
<1>2. Lines(z) /\ Len(z) = 15
  BY <1>0, <1>1
<1>3. \A k \in 1 .. 13 : z[k] = s[k]
  BY <1>1
<1>4. \A k \in 1 .. 2 : z[13 + k] = u[k]
  BY <1>1
<1>. QED BY <1>2, <1>3, <1>4

LEMMA PlacedStill == \A s, u, o, v : Lines(s) /\ Lines(u) /\ Placed(s, o, v) => Placed(s \o u, o, v)
<1>. SUFFICES ASSUME NEW s, NEW u, NEW o, NEW v, Lines(s), Lines(u), Placed(s, o, v) PROVE Placed(s \o u, o, v)
  OBVIOUS
<1>1. Len(s \o u) = Len(s) + Len(u) /\ \A k \in 1 .. Len(s) : (s \o u)[k] = s[k]
  BY LinesJoined
<1>2. /\ Len(s) \in Nat /\ Len(u) \in Nat /\ Len(v) \in Nat /\ o \in Nat /\ Lines(v) /\ o + Len(v) <= Len(s)
      /\ \A k \in 1 .. Len(v) : s[o + k] = v[k]
  BY DEF Lines, Placed
<1>. HIDE DEF Placed
<1>3. \A k \in 1 .. Len(v) : o + k \in 1 .. Len(s)
  BY <1>2
<1>4. \A k \in 1 .. Len(v) : (s \o u)[o + k] = v[k]
  BY <1>1, <1>2, <1>3
<1>. QED BY <1>1, <1>2, <1>4 DEF Placed

LEMMA PlacedAfter == \A a, c, o, v : Lines(a) /\ Lines(c) /\ Placed(c, o, v) => Placed(a \o c, Len(a) + o, v)
<1>. SUFFICES ASSUME NEW a, NEW c, NEW o, NEW v, Lines(a), Lines(c), Placed(c, o, v)
              PROVE  Placed(a \o c, Len(a) + o, v)
  OBVIOUS
<1>1. Len(a \o c) = Len(a) + Len(c) /\ \A k \in 1 .. Len(c) : (a \o c)[Len(a) + k] = c[k]
  BY LinesJoined
<1>2. /\ Len(a) \in Nat /\ Len(c) \in Nat /\ Len(v) \in Nat /\ o \in Nat /\ Lines(v) /\ o + Len(v) <= Len(c)
      /\ \A k \in 1 .. Len(v) : c[o + k] = v[k]
  BY DEF Lines, Placed
<1>3. \A k \in 1 .. Len(v) : o + k \in 1 .. Len(c) /\ (Len(a) + o) + k = Len(a) + (o + k)
  BY <1>2
<1>4. \A k \in 1 .. Len(v) : (a \o c)[(Len(a) + o) + k] = v[k]
  BY <1>1, <1>2, <1>3
<1>. QED BY <1>1, <1>2, <1>4 DEF Placed

Params ==
  << L("mov.u64", RD(0), << Special("global_base") >>), LdKernelParam(30, "knl_vaddr"),
     LdKernelParam(28, "pds_base_vaddr"), LdKernelParam(29, "pds_size_per_thread"),
     LdKernelParam(26, "pds_bitmap_base_vaddr"), LdKernelParam(27, "pds_pool_num_blocks") >>

SharedBases ==
  << L("mov.u64", RD(2), << Special("shmem") >>),
     L("mul.lo.u32", R(13), << R(10), R(17) >>), L("cvt.u64.u32", RD(13), << R(13) >>),
     L("add.u64", RD(3), << RD(2), RD(13) >>), L("mov.u64", RD(3), << Imm(0) >>) >>

PoolCheck ==
  << L("setp.lt.u32", P(1), << R(28), Imm(GlobalBase) >>),
     L("setp.ne.u32", P(2), << R(29), Imm(0) >>),
     L("and.pred", P(1), << P(1), P(2) >>), If(1, L("trap", NoReg, << >>)) >>

NoThread == << Mov(R(15), Imm(0)) >>


(* LoadKnl(R(17), n) from place q on.                                      *)
KnlLaid(c, q, n) ==
  /\ c[q] = L("add.u32", R(16), << R(30), Imm(n) >>)
  /\ c[q + 1] = L("mov.u32", R(31), << R(16) >>)
  /\ c[q + 2] = L("setp.ge.u32", P(1), << R(31), Imm(SharedBase) >>)
  /\ c[q + 3] = L("setp.lt.u32", P(2), << R(31), Imm(GlobalBase) >>)
  /\ c[q + 4] = L("and.pred", P(3), << P(1), P(2) >>)
  /\ c[q + 5] = L("setp.ge.u32", P(4), << R(31), Imm(GlobalBase) >>)
  /\ c[q + 6] = L("or.pred", P(5), << P(3), P(4) >>)
  /\ c[q + 7] = Unless(5, L("trap", NoReg, << >>))
  /\ c[q + 8] = L("add.u32", R(16), << R(31), Imm(-SharedBase) >>)
  /\ c[q + 9] = L("cvt.u64.u32", RD(16), << R(16) >>)
  /\ c[q + 10] = L("add.u64", RD(17), << RD(2), RD(16) >>)
  /\ c[q + 11] = L("add.u32", R(16), << R(31), Imm(-GlobalBase) >>)
  /\ c[q + 12] = L("cvt.u64.u32", RD(16), << R(16) >>)
  /\ c[q + 13] = L("add.u64", RD(16), << RD(0), RD(16) >>)
  /\ c[q + 14] = If(3, L("ld.shared.u32", R(17), << RD(17) >>))
  /\ c[q + 15] = If(4, L("ld.global.u32", R(17), << RD(16) >>))

LEMMA KnlLines ==
  ASSUME NEW n
  PROVE  LET z == LoadKnl(R(17), n)
         IN  Lines(z) /\ Len(z) = 16 /\ KnlLaid(z, 1, n)
<1>. DEFINE a == L("add.u32", R(16), << R(30), Imm(n) >>)
            m == AddrMap(R(16))
            d == LoadAt("u32", R(17))
            s == m \o d
            z == << a >> \o s
<1>1. /\ Lines(m) /\ Len(m) = 13
      /\ m[1] = L("mov.u32", R(31), << R(16) >>)
      /\ m[2] = L("setp.ge.u32", P(1), << R(31), Imm(SharedBase) >>)
      /\ m[3] = L("setp.lt.u32", P(2), << R(31), Imm(GlobalBase) >>)
      /\ m[4] = L("and.pred", P(3), << P(1), P(2) >>)
      /\ m[5] = L("setp.ge.u32", P(4), << R(31), Imm(GlobalBase) >>)
      /\ m[6] = L("or.pred", P(5), << P(3), P(4) >>)
      /\ m[7] = Unless(5, L("trap", NoReg, << >>))
      /\ m[8] = L("add.u32", R(16), << R(31), Imm(-SharedBase) >>)
      /\ m[9] = L("cvt.u64.u32", RD(16), << R(16) >>)
      /\ m[10] = L("add.u64", RD(17), << RD(2), RD(16) >>)
      /\ m[11] = L("add.u32", R(16), << R(31), Imm(-GlobalBase) >>)
      /\ m[12] = L("cvt.u64.u32", RD(16), << R(16) >>)
      /\ m[13] = L("add.u64", RD(16), << RD(0), RD(16) >>)
  BY DEF AddrMap, Mov, Lines
<1>2. /\ Lines(d) /\ Len(d) = 2
      /\ d[1] = If(3, L("ld.shared.u32", R(17), << RD(17) >>))
      /\ d[2] = If(4, L("ld.global.u32", R(17), << RD(16) >>))
  <2>1. LdOp.shared["u32"] = "ld.shared.u32" /\ LdOp.global["u32"] = "ld.global.u32"
    BY DEF LdOp
  <2>. QED BY <2>1 DEF LoadAt, Lines
<1>3. Lines(<< a >>) /\ Len(<< a >>) = 1 /\ << a >>[1] = a
  BY DEF Lines
<1>. HIDE DEF a, m, d
<1>4. Lines(s) /\ Len(s) = 15 /\ (\A k \in 1 .. 13 : s[k] = m[k]) /\ (\A k \in 1 .. 2 : s[13 + k] = d[k])
  <2>1. Lines(m) /\ Lines(d) /\ Len(m) = 13 /\ Len(d) = 2
    BY <1>1, <1>2
  <2>2. s = Join(m, d)
    BY DEF Join
  <2>. HIDE DEF s
  <2>. QED BY <2>1, <2>2, MapAndLoad
<1>. HIDE DEF s
<1>5. Lines(z) /\ Len(z) = 16 /\ z[1] = a /\ \A k \in 1 .. 15 : z[1 + k] = s[k]
  <2>. DEFINE f == << a >>
  <2>. HIDE DEF f
  <2>1. Lines(f) /\ Len(f) = 1 /\ f[1] = a
    BY <1>3 DEF f
  <2>2. Lines(f \o s) /\ Len(f \o s) = 16 /\ (f \o s)[1] = a /\ \A k \in 1 .. 15 : (f \o s)[1 + k] = s[k]
    <3>1. f \o s = Join(f, s)
      BY DEF Join
    <3>2. /\ Lines(Join(f, s)) /\ Len(Join(f, s)) = 16 /\ Join(f, s)[1] = f[1]
          /\ \A k \in 1 .. 15 : Join(f, s)[1 + k] = s[k]
      BY <1>4, <2>1, OneAndMore
    <3>. QED BY Zenon, <2>1, <3>1, <3>2
  <2>. QED BY <2>2 DEF f
<1>. HIDE DEF z
<1>6. /\ z[1 + 1] = m[1]
      /\ z[1 + 2] = m[2]
      /\ z[1 + 3] = m[3]
      /\ z[1 + 4] = m[4]
      /\ z[1 + 5] = m[5]
      /\ z[1 + 6] = m[6]
      /\ z[1 + 7] = m[7]
      /\ z[1 + 8] = m[8]
      /\ z[1 + 9] = m[9]
      /\ z[1 + 10] = m[10]
      /\ z[1 + 11] = m[11]
      /\ z[1 + 12] = m[12]
      /\ z[1 + 13] = m[13]
  BY <1>4, <1>5
<1>7. z[1 + 14] = d[1] /\ z[1 + 15] = d[2]
  <2>1. s[13 + 1] = d[1] /\ s[13 + 2] = d[2] /\ 13 + 1 = 14 /\ 13 + 2 = 15
    BY <1>4
  <2>. QED BY <1>5, <2>1
<1>8. KnlLaid(z, 1, n)
  BY <1>1, <1>2, <1>5, <1>6, <1>7 DEF KnlLaid, a
<1>9. LoadKnl(R(17), n) = z
  BY DEF LoadKnl, LoadWord, z, s, m, d, a
<1>. QED BY <1>5, <1>8, <1>9

LEMMA KnlLaidAt ==
  ASSUME NEW c, NEW o, NEW n, Placed(c, o, LoadKnl(R(17), n))
  PROVE  KnlLaid(c, o + 1, n)
<1>. DEFINE z == LoadKnl(R(17), n)
<1>1. Lines(z) /\ Len(z) = 16 /\ KnlLaid(z, 1, n)
  BY KnlLines
<1>. HIDE DEF z
<1>2. o \in Nat /\ \A k \in 1 .. 16 : c[o + k] = z[k]
  BY <1>1 DEF Placed, z
<1>3. \A j \in 0 .. 15 : c[o + 1 + j] = z[1 + j]
  <2>1. \A j \in 0 .. 15 : 1 + j \in 1 .. 16 /\ o + 1 + j = o + (1 + j)
    BY <1>2
  <2>. QED BY <1>2, <2>1
<1>4. /\ c[o + 1 + 1] = z[1 + 1]
      /\ c[o + 1 + 2] = z[1 + 2]
      /\ c[o + 1 + 3] = z[1 + 3]
      /\ c[o + 1 + 4] = z[1 + 4]
      /\ c[o + 1 + 5] = z[1 + 5]
      /\ c[o + 1 + 6] = z[1 + 6]
      /\ c[o + 1 + 7] = z[1 + 7]
      /\ c[o + 1 + 8] = z[1 + 8]
      /\ c[o + 1 + 9] = z[1 + 9]
      /\ c[o + 1 + 10] = z[1 + 10]
      /\ c[o + 1 + 11] = z[1 + 11]
      /\ c[o + 1 + 12] = z[1 + 12]
      /\ c[o + 1 + 13] = z[1 + 13]
      /\ c[o + 1 + 14] = z[1 + 14]
      /\ c[o + 1 + 15] = z[1 + 15]
  BY <1>3
<1>5. c[o + 1] = z[1]
  BY <1>2
<1>. QED BY <1>1, <1>4, <1>5 DEF KnlLaid

(* How many lines set x3, and which.                                       *)
Gp(gp) == IF gp = 0 THEN 0 ELSE 2

LEMMA GpLines ==
  ASSUME NEW gp
  PROVE  /\ Lines(SetGp(gp)) /\ Len(SetGp(gp)) = Gp(gp) /\ Gp(gp) \in { 0, 2 } /\ (Gp(gp) = 0 <=> gp = 0)
         /\ gp # 0 => /\ SetGp(gp)[1] = L("mov.u32", R(15), << Imm(gp) >>)
                      /\ SetGp(gp)[2] = L("mov.u32", X(3), << R(15) >>)
<1>1. CASE gp = 0
  BY <1>1 DEF SetGp, Gp, Lines
<1>2. CASE gp # 0
  <2>. DEFINE u == << L("mov.u32", R(15), << Imm(gp) >>) >>
              v == << L("mov.u32", X(3), << R(15) >>) >>
              z == Join(u, v)
  <2>1. Lines(u) /\ Len(u) = 1 /\ u[1] = L("mov.u32", R(15), << Imm(gp) >>)
    BY DEF Lines
  <2>2. Lines(v) /\ Len(v) = 1 /\ v[1] = L("mov.u32", X(3), << R(15) >>)
    BY DEF Lines
  <2>3. SetGp(gp) = z
    BY <1>2 DEF SetGp, StX, Mov, Join
  <2>. HIDE DEF u, v
  <2>l. Lines(z)
    BY <2>1, <2>2, JoinLines
  <2>a. /\ Len(z) = Len(u) + Len(v)
        /\ \A k \in 1 .. Len(u) : z[k] = u[k]
        /\ \A k \in 1 .. Len(v) : z[Len(u) + k] = v[k]
    BY <2>1, <2>2, JoinedAt DEF Join
  <2>4. /\ Lines(z) /\ Len(z) = Len(u) + Len(v)
        /\ \A k \in 1 .. Len(u) : z[k] = u[k]
        /\ \A k \in 1 .. Len(v) : z[Len(u) + k] = v[k]
    BY <2>l, <2>a
  <2>. HIDE DEF z
  <2>5. Len(z) = 2 /\ z[1] = u[1] /\ z[1 + 1] = v[1]
    BY <2>1, <2>2, <2>4
  <2>. QED BY <1>2, <2>1, <2>2, <2>3, <2>4, <2>5 DEF Gp
<1>. QED BY <1>1, <1>2

(* The pieces of the prologue behind the first o lines of c; those behind  *)
(* the lines that set x3 as if there were u lines without them.            *)
Pieces(c, o, u, gp) ==
  /\ Placed(c, o, Params)
  /\ Placed(c, o + 6, LoadKnl(R(17), 56))
  /\ Placed(c, o + 22, ThreadIds)
  /\ Placed(c, o + 38, SharedBases)
  /\ Placed(c, o + 43, SelectLeader)
  /\ Placed(c, o + 46, PoolCheck)
  /\ Placed(c, o + 50, Acquire)
  /\ Placed(c, o + 51, NoThread)
  /\ Placed(c, o + 52, StX(4, R(15)))
  /\ Placed(c, o + 53, SetGp(gp))
  /\ Placed(c, u + 53, StackBase(2, R(10)))
  /\ Placed(c, u + 56, StackBase(8, R(12)))
  /\ Placed(c, u + 59, LoadKnl(R(17), 4))
  /\ Placed(c, u + 75, StX(10, R(17)))
  /\ Placed(c, u + 76, WarpSync)

(* What the pieces are, line by line.                                      *)
LEMMA PieceLines ==
  /\ Lines(Params) /\ Len(Params) = 6
       /\ Params[1] = L("mov.u64", RD(0), << Special("global_base") >>)
       /\ Params[2] = L("mov.u32", R(30), << Special("knl_vaddr") >>)
       /\ Params[3] = L("mov.u32", R(28), << Special("pds_base_vaddr") >>)
       /\ Params[4] = L("mov.u32", R(29), << Special("pds_size_per_thread") >>)
       /\ Params[5] = L("mov.u32", R(26), << Special("pds_bitmap_base_vaddr") >>)
       /\ Params[6] = L("mov.u32", R(27), << Special("pds_pool_num_blocks") >>)
  /\ Lines(ThreadIds) /\ Len(ThreadIds) = 16
       /\ ThreadIds[1] = L("mov.u32", R(0), << Special("laneid") >>)
       /\ ThreadIds[2] = L("mov.u32", R(3), << Special("tid.x") >>)
       /\ ThreadIds[3] = L("mov.u32", R(4), << Special("tid.y") >>)
       /\ ThreadIds[4] = L("mov.u32", R(5), << Special("tid.z") >>)
       /\ ThreadIds[5] = L("mov.u32", R(6), << Special("ntid.x") >>)
       /\ ThreadIds[6] = L("mov.u32", R(7), << Special("ntid.y") >>)
       /\ ThreadIds[7] = L("mov.u32", R(8), << Special("ntid.z") >>)
       /\ ThreadIds[8] = L("mul.lo.u32", R(9), << R(7), R(5) >>)
       /\ ThreadIds[9] = L("add.u32", R(9), << R(9), R(4) >>)
       /\ ThreadIds[10] = L("mul.lo.u32", R(9), << R(9), R(6) >>)
       /\ ThreadIds[11] = L("add.u32", R(9), << R(9), R(3) >>)
       /\ ThreadIds[12] = L("shr.u32", R(10), << R(9), Imm(LogWarp) >>)
       /\ ThreadIds[13] = L("mul.lo.u32", R(11), << R(6), R(7) >>)
       /\ ThreadIds[14] = L("mul.lo.u32", R(11), << R(11), R(8) >>)
       /\ ThreadIds[15] = L("add.u32", R(12), << R(11), Imm(2^LogWarp - 1) >>)
       /\ ThreadIds[16] = L("shr.u32", R(12), << R(12), Imm(LogWarp) >>)
  /\ Lines(SharedBases) /\ Len(SharedBases) = 5
       /\ SharedBases[1] = L("mov.u64", RD(2), << Special("shmem") >>)
       /\ SharedBases[2] = L("mul.lo.u32", R(13), << R(10), R(17) >>)
       /\ SharedBases[3] = L("cvt.u64.u32", RD(13), << R(13) >>)
       /\ SharedBases[4] = L("add.u64", RD(3), << RD(2), RD(13) >>)
       /\ SharedBases[5] = L("mov.u64", RD(3), << Imm(0) >>)
  /\ Lines(SelectLeader) /\ Len(SelectLeader) = 3
       /\ SelectLeader[1] = L("activemask", R(1), << >>)
       /\ SelectLeader[2] = L("bfind.u32", R(2), << R(1) >>)
       /\ SelectLeader[3] = L("setp.eq.u32", P(0), << R(0), R(2) >>)
  /\ Lines(PoolCheck) /\ Len(PoolCheck) = 4
       /\ PoolCheck[1] = L("setp.lt.u32", P(1), << R(28), Imm(GlobalBase) >>)
       /\ PoolCheck[2] = L("setp.ne.u32", P(2), << R(29), Imm(0) >>)
       /\ PoolCheck[3] = L("and.pred", P(1), << P(1), P(2) >>)
       /\ PoolCheck[4] = If(1, L("trap", NoReg, << >>))
  /\ Lines(Acquire) /\ Len(Acquire) = 1
       /\ Acquire[1] = L("pds.acquire", NoReg, << R(9), R(29), R(27), R(26) >>)
  /\ Lines(NoThread) /\ Len(NoThread) = 1
       /\ NoThread[1] = L("mov.u32", R(15), << Imm(0) >>)
  /\ Lines(StX(4, R(15))) /\ Len(StX(4, R(15))) = 1
       /\ StX(4, R(15))[1] = L("mov.u32", X(4), << R(15) >>)
  /\ Lines(StackBase(2, R(10))) /\ Len(StackBase(2, R(10))) = 3
       /\ StackBase(2, R(10))[1] = L("mul.lo.u32", R(15), << R(10), R(17) >>)
       /\ StackBase(2, R(10))[2] = L("add.u32", R(15), << R(15), Imm(SharedBase) >>)
       /\ StackBase(2, R(10))[3] = L("mov.u32", X(2), << R(15) >>)
  /\ Lines(StackBase(8, R(12))) /\ Len(StackBase(8, R(12))) = 3
       /\ StackBase(8, R(12))[1] = L("mul.lo.u32", R(15), << R(12), R(17) >>)
       /\ StackBase(8, R(12))[2] = L("add.u32", R(15), << R(15), Imm(SharedBase) >>)
       /\ StackBase(8, R(12))[3] = L("mov.u32", X(8), << R(15) >>)
  /\ Lines(StX(10, R(17))) /\ Len(StX(10, R(17))) = 1
       /\ StX(10, R(17))[1] = L("mov.u32", X(10), << R(17) >>)
  /\ Lines(WarpSync) /\ Len(WarpSync) = 2
       /\ WarpSync[1] = L("activemask", R(1), << >>)
       /\ WarpSync[2] = L("bar.warp.sync", NoReg, << R(1) >>)
<1>1. Lines(Params) /\ Len(Params) = 6
       /\ Params[1] = L("mov.u64", RD(0), << Special("global_base") >>)
       /\ Params[2] = L("mov.u32", R(30), << Special("knl_vaddr") >>)
       /\ Params[3] = L("mov.u32", R(28), << Special("pds_base_vaddr") >>)
       /\ Params[4] = L("mov.u32", R(29), << Special("pds_size_per_thread") >>)
       /\ Params[5] = L("mov.u32", R(26), << Special("pds_bitmap_base_vaddr") >>)
       /\ Params[6] = L("mov.u32", R(27), << Special("pds_pool_num_blocks") >>)
  <2>1. Lines(Params) /\ Len(Params) = 6
    BY DEF Params, LdKernelParam, Mov, Lines
  <2>2. /\ Params[1] = L("mov.u64", RD(0), << Special("global_base") >>)
        /\ Params[2] = L("mov.u32", R(30), << Special("knl_vaddr") >>)
        /\ Params[3] = L("mov.u32", R(28), << Special("pds_base_vaddr") >>)
        /\ Params[4] = L("mov.u32", R(29), << Special("pds_size_per_thread") >>)
    BY DEF Params, LdKernelParam, Mov
  <2>3. /\ Params[5] = L("mov.u32", R(26), << Special("pds_bitmap_base_vaddr") >>)
        /\ Params[6] = L("mov.u32", R(27), << Special("pds_pool_num_blocks") >>)
    BY DEF Params, LdKernelParam, Mov
  <2>. QED BY Zenon, <2>1, <2>2, <2>3
<1>2. Lines(ThreadIds) /\ Len(ThreadIds) = 16
       /\ ThreadIds[1] = L("mov.u32", R(0), << Special("laneid") >>)
       /\ ThreadIds[2] = L("mov.u32", R(3), << Special("tid.x") >>)
       /\ ThreadIds[3] = L("mov.u32", R(4), << Special("tid.y") >>)
       /\ ThreadIds[4] = L("mov.u32", R(5), << Special("tid.z") >>)
       /\ ThreadIds[5] = L("mov.u32", R(6), << Special("ntid.x") >>)
       /\ ThreadIds[6] = L("mov.u32", R(7), << Special("ntid.y") >>)
       /\ ThreadIds[7] = L("mov.u32", R(8), << Special("ntid.z") >>)
       /\ ThreadIds[8] = L("mul.lo.u32", R(9), << R(7), R(5) >>)
       /\ ThreadIds[9] = L("add.u32", R(9), << R(9), R(4) >>)
       /\ ThreadIds[10] = L("mul.lo.u32", R(9), << R(9), R(6) >>)
       /\ ThreadIds[11] = L("add.u32", R(9), << R(9), R(3) >>)
       /\ ThreadIds[12] = L("shr.u32", R(10), << R(9), Imm(LogWarp) >>)
       /\ ThreadIds[13] = L("mul.lo.u32", R(11), << R(6), R(7) >>)
       /\ ThreadIds[14] = L("mul.lo.u32", R(11), << R(11), R(8) >>)
       /\ ThreadIds[15] = L("add.u32", R(12), << R(11), Imm(2^LogWarp - 1) >>)
       /\ ThreadIds[16] = L("shr.u32", R(12), << R(12), Imm(LogWarp) >>)
  <2>1. Lines(ThreadIds) /\ Len(ThreadIds) = 16
    BY DEF ThreadIds, Mov, Lines
  <2>2. /\ ThreadIds[1] = L("mov.u32", R(0), << Special("laneid") >>)
        /\ ThreadIds[2] = L("mov.u32", R(3), << Special("tid.x") >>)
        /\ ThreadIds[3] = L("mov.u32", R(4), << Special("tid.y") >>)
        /\ ThreadIds[4] = L("mov.u32", R(5), << Special("tid.z") >>)
    BY DEF ThreadIds, Mov
  <2>3. /\ ThreadIds[5] = L("mov.u32", R(6), << Special("ntid.x") >>)
        /\ ThreadIds[6] = L("mov.u32", R(7), << Special("ntid.y") >>)
        /\ ThreadIds[7] = L("mov.u32", R(8), << Special("ntid.z") >>)
        /\ ThreadIds[8] = L("mul.lo.u32", R(9), << R(7), R(5) >>)
    BY DEF ThreadIds, Mov
  <2>4. /\ ThreadIds[9] = L("add.u32", R(9), << R(9), R(4) >>)
        /\ ThreadIds[10] = L("mul.lo.u32", R(9), << R(9), R(6) >>)
        /\ ThreadIds[11] = L("add.u32", R(9), << R(9), R(3) >>)
        /\ ThreadIds[12] = L("shr.u32", R(10), << R(9), Imm(LogWarp) >>)
    BY DEF ThreadIds, Mov
  <2>5. /\ ThreadIds[13] = L("mul.lo.u32", R(11), << R(6), R(7) >>)
        /\ ThreadIds[14] = L("mul.lo.u32", R(11), << R(11), R(8) >>)
        /\ ThreadIds[15] = L("add.u32", R(12), << R(11), Imm(2^LogWarp - 1) >>)
        /\ ThreadIds[16] = L("shr.u32", R(12), << R(12), Imm(LogWarp) >>)
    BY DEF ThreadIds, Mov
  <2>. QED BY Zenon, <2>1, <2>2, <2>3, <2>4, <2>5
<1>3. Lines(SharedBases) /\ Len(SharedBases) = 5
       /\ SharedBases[1] = L("mov.u64", RD(2), << Special("shmem") >>)
       /\ SharedBases[2] = L("mul.lo.u32", R(13), << R(10), R(17) >>)
       /\ SharedBases[3] = L("cvt.u64.u32", RD(13), << R(13) >>)
       /\ SharedBases[4] = L("add.u64", RD(3), << RD(2), RD(13) >>)
       /\ SharedBases[5] = L("mov.u64", RD(3), << Imm(0) >>)
  <2>1. Lines(SharedBases) /\ Len(SharedBases) = 5
    BY DEF SharedBases, Lines
  <2>2. /\ SharedBases[1] = L("mov.u64", RD(2), << Special("shmem") >>)
        /\ SharedBases[2] = L("mul.lo.u32", R(13), << R(10), R(17) >>)
        /\ SharedBases[3] = L("cvt.u64.u32", RD(13), << R(13) >>)
        /\ SharedBases[4] = L("add.u64", RD(3), << RD(2), RD(13) >>)
    BY DEF SharedBases
  <2>3. /\ SharedBases[5] = L("mov.u64", RD(3), << Imm(0) >>)
    BY DEF SharedBases
  <2>. QED BY Zenon, <2>1, <2>2, <2>3
<1>4. Lines(SelectLeader) /\ Len(SelectLeader) = 3
       /\ SelectLeader[1] = L("activemask", R(1), << >>)
       /\ SelectLeader[2] = L("bfind.u32", R(2), << R(1) >>)
       /\ SelectLeader[3] = L("setp.eq.u32", P(0), << R(0), R(2) >>)
  BY DEF SelectLeader, ReadActiveMask, RefreshLeader, Lines
<1>5. Lines(PoolCheck) /\ Len(PoolCheck) = 4
       /\ PoolCheck[1] = L("setp.lt.u32", P(1), << R(28), Imm(GlobalBase) >>)
       /\ PoolCheck[2] = L("setp.ne.u32", P(2), << R(29), Imm(0) >>)
       /\ PoolCheck[3] = L("and.pred", P(1), << P(1), P(2) >>)
       /\ PoolCheck[4] = If(1, L("trap", NoReg, << >>))
  BY DEF PoolCheck, Lines
<1>6. Lines(Acquire) /\ Len(Acquire) = 1
       /\ Acquire[1] = L("pds.acquire", NoReg, << R(9), R(29), R(27), R(26) >>)
  BY DEF Acquire, Lines
<1>7. Lines(NoThread) /\ Len(NoThread) = 1
       /\ NoThread[1] = L("mov.u32", R(15), << Imm(0) >>)
  BY DEF NoThread, Mov, Lines
<1>8. Lines(StX(4, R(15))) /\ Len(StX(4, R(15))) = 1
       /\ StX(4, R(15))[1] = L("mov.u32", X(4), << R(15) >>)
  BY DEF StX, Mov, Lines
<1>9. Lines(StackBase(2, R(10))) /\ Len(StackBase(2, R(10))) = 3
       /\ StackBase(2, R(10))[1] = L("mul.lo.u32", R(15), << R(10), R(17) >>)
       /\ StackBase(2, R(10))[2] = L("add.u32", R(15), << R(15), Imm(SharedBase) >>)
       /\ StackBase(2, R(10))[3] = L("mov.u32", X(2), << R(15) >>)
  <2>. DEFINE s == StackBase(2, R(10))
              u == << L("mul.lo.u32", R(15), << R(10), R(17) >>), L("add.u32", R(15), << R(15), Imm(SharedBase) >>) >>
              v == << L("mov.u32", X(2), << R(15) >>) >>
  <2>1. Lines(u) /\ Len(u) = 2 /\ u[1] = L("mul.lo.u32", R(15), << R(10), R(17) >>)
          /\ u[2] = L("add.u32", R(15), << R(15), Imm(SharedBase) >>)
    BY DEF Lines
  <2>2. Lines(v) /\ Len(v) = 1 /\ v[1] = L("mov.u32", X(2), << R(15) >>)
    BY DEF Lines
  <2>3. StX(2, R(15)) = v
    BY DEF StX, Mov
  <2>4. s = u \o v
    BY <2>3 DEF StackBase
  <2>. HIDE DEF s, u, v
  <2>5. Lines(s) /\ Len(s) = 3 /\ s[1] = u[1] /\ s[2] = u[2] /\ s[3] = v[1]
    <3>1. s = Join(u, v)
      BY <2>4 DEF Join
    <3>. QED BY <2>1, <2>2, <3>1, TwoAndOne
  <2>. QED BY <2>1, <2>2, <2>5 DEF s
<1>10. Lines(StackBase(8, R(12))) /\ Len(StackBase(8, R(12))) = 3
       /\ StackBase(8, R(12))[1] = L("mul.lo.u32", R(15), << R(12), R(17) >>)
       /\ StackBase(8, R(12))[2] = L("add.u32", R(15), << R(15), Imm(SharedBase) >>)
       /\ StackBase(8, R(12))[3] = L("mov.u32", X(8), << R(15) >>)
  <2>. DEFINE s == StackBase(8, R(12))
              u == << L("mul.lo.u32", R(15), << R(12), R(17) >>), L("add.u32", R(15), << R(15), Imm(SharedBase) >>) >>
              v == << L("mov.u32", X(8), << R(15) >>) >>
  <2>1. Lines(u) /\ Len(u) = 2 /\ u[1] = L("mul.lo.u32", R(15), << R(12), R(17) >>)
          /\ u[2] = L("add.u32", R(15), << R(15), Imm(SharedBase) >>)
    BY DEF Lines
  <2>2. Lines(v) /\ Len(v) = 1 /\ v[1] = L("mov.u32", X(8), << R(15) >>)
    BY DEF Lines
  <2>3. StX(8, R(15)) = v
    BY DEF StX, Mov
  <2>4. s = u \o v
    BY <2>3 DEF StackBase
  <2>. HIDE DEF s, u, v
  <2>5. Lines(s) /\ Len(s) = 3 /\ s[1] = u[1] /\ s[2] = u[2] /\ s[3] = v[1]
    <3>1. s = Join(u, v)
      BY <2>4 DEF Join
    <3>. QED BY <2>1, <2>2, <3>1, TwoAndOne
  <2>. QED BY <2>1, <2>2, <2>5 DEF s
<1>11. Lines(StX(10, R(17))) /\ Len(StX(10, R(17))) = 1
       /\ StX(10, R(17))[1] = L("mov.u32", X(10), << R(17) >>)
  BY DEF StX, Mov, Lines
<1>12. Lines(WarpSync) /\ Len(WarpSync) = 2
       /\ WarpSync[1] = L("activemask", R(1), << >>)
       /\ WarpSync[2] = L("bar.warp.sync", NoReg, << R(1) >>)
  BY DEF WarpSync, ReadActiveMask, Lines
<1>. QED BY <1>1, <1>2, <1>3, <1>4, <1>5, <1>6, <1>7, <1>8, <1>9, <1>10, <1>11, <1>12

(* The prologue up to and with each of its pieces.                         *)
Upto1  == Params
Upto2  == Upto1 \o LoadKnl(R(17), 56)
Upto3  == Upto2 \o ThreadIds
Upto4  == Upto3 \o SharedBases
Upto5  == Upto4 \o SelectLeader
Upto6  == Upto5 \o PoolCheck
Upto7  == Upto6 \o Acquire
Upto8  == Upto7 \o NoThread
Upto9  == Upto8 \o StX(4, R(15))
UptoG(gp)  == Upto9 \o SetGp(gp)
Upto10(gp) == UptoG(gp) \o StackBase(2, R(10))
Upto11(gp) == Upto10(gp) \o StackBase(8, R(12))
Upto12(gp) == Upto11(gp) \o LoadKnl(R(17), 4)
Upto13(gp) == Upto12(gp) \o StX(10, R(17))
Upto14(gp) == Upto13(gp) \o WarpSync

LEMMA ProloguePieces ==
  ASSUME NEW gp
  PROVE  Lines(Prologue(gp)) /\ Len(Prologue(gp)) = Gp(gp) + 78 /\ Pieces(Prologue(gp), 0, Gp(gp), gp)
<1>. DEFINE g == Gp(gp)
<1>gp. g \in Nat
  BY DEF Gp
<1>. HIDE DEF g
<1>linesG. Lines(SetGp(gp)) /\ Len(SetGp(gp)) = g
  BY GpLines DEF g
<1>lines1. Lines(Params) /\ Len(Params) = 6
  BY PieceLines
<1>lines2. Lines(LoadKnl(R(17), 56)) /\ Len(LoadKnl(R(17), 56)) = 16
  BY KnlLines
<1>lines3. Lines(ThreadIds) /\ Len(ThreadIds) = 16
  BY PieceLines
<1>lines4. Lines(SharedBases) /\ Len(SharedBases) = 5
  BY PieceLines
<1>lines5. Lines(SelectLeader) /\ Len(SelectLeader) = 3
  BY PieceLines
<1>lines6. Lines(PoolCheck) /\ Len(PoolCheck) = 4
  BY PieceLines
<1>lines7. Lines(Acquire) /\ Len(Acquire) = 1
  BY PieceLines
<1>lines8. Lines(NoThread) /\ Len(NoThread) = 1
  BY PieceLines
<1>lines9. Lines(StX(4, R(15))) /\ Len(StX(4, R(15))) = 1
  BY PieceLines
<1>lines10. Lines(StackBase(2, R(10))) /\ Len(StackBase(2, R(10))) = 3
  BY PieceLines
<1>lines11. Lines(StackBase(8, R(12))) /\ Len(StackBase(8, R(12))) = 3
  BY PieceLines
<1>lines12. Lines(LoadKnl(R(17), 4)) /\ Len(LoadKnl(R(17), 4)) = 16
  BY KnlLines
<1>lines13. Lines(StX(10, R(17))) /\ Len(StX(10, R(17))) = 1
  BY PieceLines
<1>lines14. Lines(WarpSync) /\ Len(WarpSync) = 2
  BY PieceLines
<1>join2. Upto2 = Upto1 \o LoadKnl(R(17), 56)
  BY DEF Upto2
<1>join3. Upto3 = Upto2 \o ThreadIds
  BY DEF Upto3
<1>join4. Upto4 = Upto3 \o SharedBases
  BY DEF Upto4
<1>join5. Upto5 = Upto4 \o SelectLeader
  BY DEF Upto5
<1>join6. Upto6 = Upto5 \o PoolCheck
  BY DEF Upto6
<1>join7. Upto7 = Upto6 \o Acquire
  BY DEF Upto7
<1>join8. Upto8 = Upto7 \o NoThread
  BY DEF Upto8
<1>join9. Upto9 = Upto8 \o StX(4, R(15))
  BY DEF Upto9
<1>joinG. UptoG(gp) = Upto9 \o SetGp(gp)
  BY DEF UptoG
<1>join10. Upto10(gp) = UptoG(gp) \o StackBase(2, R(10))
  BY DEF Upto10
<1>join11. Upto11(gp) = Upto10(gp) \o StackBase(8, R(12))
  BY DEF Upto11
<1>join12. Upto12(gp) = Upto11(gp) \o LoadKnl(R(17), 4)
  BY DEF Upto12
<1>join13. Upto13(gp) = Upto12(gp) \o StX(10, R(17))
  BY DEF Upto13
<1>join14. Upto14(gp) = Upto13(gp) \o WarpSync
  BY DEF Upto14
<1>1. Lines(Upto1) /\ Len(Upto1) = 6 /\ Placed(Upto1, 0, Params)
  BY <1>lines1, PlacedFirst DEF Upto1
<1>15. Prologue(gp) = Upto14(gp)
  BY DEF Prologue, Params, SharedBases, PoolCheck, NoThread, Upto1, Upto2, Upto3, Upto4, Upto5, Upto6, Upto7, Upto8,
        Upto9, UptoG,
         Upto10, Upto11, Upto12, Upto13, Upto14
<1>2. /\ Lines(Upto2) /\ Len(Upto2) = 22 /\ Placed(Upto2, Len(Upto1), LoadKnl(R(17), 56))
      /\ \A o, v : Placed(Upto1, o, v) => Placed(Upto2, o, v)
  <2>. DEFINE s == LoadKnl(R(17), 56)
  <2>1. Lines(Upto1) /\ Lines(s)
    BY <1>1, <1>lines2
  <2>2. Upto2 = Upto1 \o s
    BY <1>join2
  <2>3. Len(Upto1) = 6 /\ Len(s) = 16
    BY <1>1, <1>lines2
  <2>. HIDE DEF s
  <2>4. Lines(Upto2) /\ Len(Upto2) = Len(Upto1) + Len(s) /\ Placed(Upto2, Len(Upto1), s)
    BY Zenon, <2>1, <2>2, PlacedLast
  <2>5. \A o, v : Placed(Upto1, o, v) => Placed(Upto2, o, v)
    BY Zenon, <2>1, <2>2, PlacedStill
  <2>6. Len(Upto2) = 22
    BY <2>3, <2>4
  <2>. QED BY <2>4, <2>5, <2>6 DEF s
<1>3. /\ Lines(Upto3) /\ Len(Upto3) = 38 /\ Placed(Upto3, Len(Upto2), ThreadIds)
      /\ \A o, v : Placed(Upto2, o, v) => Placed(Upto3, o, v)
  <2>. DEFINE s == ThreadIds
  <2>1. Lines(Upto2) /\ Lines(s)
    BY <1>2, <1>lines3
  <2>2. Upto3 = Upto2 \o s
    BY <1>join3
  <2>3. Len(Upto2) = 22 /\ Len(s) = 16
    BY <1>2, <1>lines3
  <2>. HIDE DEF s
  <2>4. Lines(Upto3) /\ Len(Upto3) = Len(Upto2) + Len(s) /\ Placed(Upto3, Len(Upto2), s)
    BY Zenon, <2>1, <2>2, PlacedLast
  <2>5. \A o, v : Placed(Upto2, o, v) => Placed(Upto3, o, v)
    BY Zenon, <2>1, <2>2, PlacedStill
  <2>6. Len(Upto3) = 38
    BY <2>3, <2>4
  <2>. QED BY <2>4, <2>5, <2>6 DEF s
<1>4. /\ Lines(Upto4) /\ Len(Upto4) = 43 /\ Placed(Upto4, Len(Upto3), SharedBases)
      /\ \A o, v : Placed(Upto3, o, v) => Placed(Upto4, o, v)
  <2>. DEFINE s == SharedBases
  <2>1. Lines(Upto3) /\ Lines(s)
    BY <1>3, <1>lines4
  <2>2. Upto4 = Upto3 \o s
    BY <1>join4
  <2>3. Len(Upto3) = 38 /\ Len(s) = 5
    BY <1>3, <1>lines4
  <2>. HIDE DEF s
  <2>4. Lines(Upto4) /\ Len(Upto4) = Len(Upto3) + Len(s) /\ Placed(Upto4, Len(Upto3), s)
    BY Zenon, <2>1, <2>2, PlacedLast
  <2>5. \A o, v : Placed(Upto3, o, v) => Placed(Upto4, o, v)
    BY Zenon, <2>1, <2>2, PlacedStill
  <2>6. Len(Upto4) = 43
    BY <2>3, <2>4
  <2>. QED BY <2>4, <2>5, <2>6 DEF s
<1>5. /\ Lines(Upto5) /\ Len(Upto5) = 46 /\ Placed(Upto5, Len(Upto4), SelectLeader)
      /\ \A o, v : Placed(Upto4, o, v) => Placed(Upto5, o, v)
  <2>. DEFINE s == SelectLeader
  <2>1. Lines(Upto4) /\ Lines(s)
    BY <1>4, <1>lines5
  <2>2. Upto5 = Upto4 \o s
    BY <1>join5
  <2>3. Len(Upto4) = 43 /\ Len(s) = 3
    BY <1>4, <1>lines5
  <2>. HIDE DEF s
  <2>4. Lines(Upto5) /\ Len(Upto5) = Len(Upto4) + Len(s) /\ Placed(Upto5, Len(Upto4), s)
    BY Zenon, <2>1, <2>2, PlacedLast
  <2>5. \A o, v : Placed(Upto4, o, v) => Placed(Upto5, o, v)
    BY Zenon, <2>1, <2>2, PlacedStill
  <2>6. Len(Upto5) = 46
    BY <2>3, <2>4
  <2>. QED BY <2>4, <2>5, <2>6 DEF s
<1>6. /\ Lines(Upto6) /\ Len(Upto6) = 50 /\ Placed(Upto6, Len(Upto5), PoolCheck)
      /\ \A o, v : Placed(Upto5, o, v) => Placed(Upto6, o, v)
  <2>. DEFINE s == PoolCheck
  <2>1. Lines(Upto5) /\ Lines(s)
    BY <1>5, <1>lines6
  <2>2. Upto6 = Upto5 \o s
    BY <1>join6
  <2>3. Len(Upto5) = 46 /\ Len(s) = 4
    BY <1>5, <1>lines6
  <2>. HIDE DEF s
  <2>4. Lines(Upto6) /\ Len(Upto6) = Len(Upto5) + Len(s) /\ Placed(Upto6, Len(Upto5), s)
    BY Zenon, <2>1, <2>2, PlacedLast
  <2>5. \A o, v : Placed(Upto5, o, v) => Placed(Upto6, o, v)
    BY Zenon, <2>1, <2>2, PlacedStill
  <2>6. Len(Upto6) = 50
    BY <2>3, <2>4
  <2>. QED BY <2>4, <2>5, <2>6 DEF s
<1>7. /\ Lines(Upto7) /\ Len(Upto7) = 51 /\ Placed(Upto7, Len(Upto6), Acquire)
      /\ \A o, v : Placed(Upto6, o, v) => Placed(Upto7, o, v)
  <2>. DEFINE s == Acquire
  <2>1. Lines(Upto6) /\ Lines(s)
    BY <1>6, <1>lines7
  <2>2. Upto7 = Upto6 \o s
    BY <1>join7
  <2>3. Len(Upto6) = 50 /\ Len(s) = 1
    BY <1>6, <1>lines7
  <2>. HIDE DEF s
  <2>4. Lines(Upto7) /\ Len(Upto7) = Len(Upto6) + Len(s) /\ Placed(Upto7, Len(Upto6), s)
    BY Zenon, <2>1, <2>2, PlacedLast
  <2>5. \A o, v : Placed(Upto6, o, v) => Placed(Upto7, o, v)
    BY Zenon, <2>1, <2>2, PlacedStill
  <2>6. Len(Upto7) = 51
    BY <2>3, <2>4
  <2>. QED BY <2>4, <2>5, <2>6 DEF s
<1>8. /\ Lines(Upto8) /\ Len(Upto8) = 52 /\ Placed(Upto8, Len(Upto7), NoThread)
      /\ \A o, v : Placed(Upto7, o, v) => Placed(Upto8, o, v)
  <2>. DEFINE s == NoThread
  <2>1. Lines(Upto7) /\ Lines(s)
    BY <1>7, <1>lines8
  <2>2. Upto8 = Upto7 \o s
    BY <1>join8
  <2>3. Len(Upto7) = 51 /\ Len(s) = 1
    BY <1>7, <1>lines8
  <2>. HIDE DEF s
  <2>4. Lines(Upto8) /\ Len(Upto8) = Len(Upto7) + Len(s) /\ Placed(Upto8, Len(Upto7), s)
    BY Zenon, <2>1, <2>2, PlacedLast
  <2>5. \A o, v : Placed(Upto7, o, v) => Placed(Upto8, o, v)
    BY Zenon, <2>1, <2>2, PlacedStill
  <2>6. Len(Upto8) = 52
    BY <2>3, <2>4
  <2>. QED BY <2>4, <2>5, <2>6 DEF s
<1>9. /\ Lines(Upto9) /\ Len(Upto9) = 53 /\ Placed(Upto9, Len(Upto8), StX(4, R(15)))
      /\ \A o, v : Placed(Upto8, o, v) => Placed(Upto9, o, v)
  <2>. DEFINE s == StX(4, R(15))
  <2>1. Lines(Upto8) /\ Lines(s)
    BY <1>8, <1>lines9
  <2>2. Upto9 = Upto8 \o s
    BY <1>join9
  <2>3. Len(Upto8) = 52 /\ Len(s) = 1
    BY <1>8, <1>lines9
  <2>. HIDE DEF s
  <2>4. Lines(Upto9) /\ Len(Upto9) = Len(Upto8) + Len(s) /\ Placed(Upto9, Len(Upto8), s)
    BY Zenon, <2>1, <2>2, PlacedLast
  <2>5. \A o, v : Placed(Upto8, o, v) => Placed(Upto9, o, v)
    BY Zenon, <2>1, <2>2, PlacedStill
  <2>6. Len(Upto9) = 53
    BY <2>3, <2>4
  <2>. QED BY <2>4, <2>5, <2>6 DEF s
<1>g. /\ Lines(UptoG(gp)) /\ Len(UptoG(gp)) = g + 53 /\ Placed(UptoG(gp), Len(Upto9), SetGp(gp))
      /\ \A o, v : Placed(Upto9, o, v) => Placed(UptoG(gp), o, v)
  <2>. DEFINE s == SetGp(gp)
  <2>1. Lines(Upto9) /\ Lines(s)
    BY <1>9, <1>linesG
  <2>2. UptoG(gp) = Upto9 \o s
    BY <1>joinG
  <2>3. Len(Upto9) = 53 /\ Len(s) = g
    BY <1>9, <1>linesG
  <2>. HIDE DEF s
  <2>4. Lines(UptoG(gp)) /\ Len(UptoG(gp)) = Len(Upto9) + Len(s) /\ Placed(UptoG(gp), Len(Upto9), s)
    BY Zenon, <2>1, <2>2, PlacedLast
  <2>5. \A o, v : Placed(Upto9, o, v) => Placed(UptoG(gp), o, v)
    BY Zenon, <2>1, <2>2, PlacedStill
  <2>6. Len(UptoG(gp)) = g + 53
    BY <1>gp, <2>3, <2>4
  <2>. QED BY <2>4, <2>5, <2>6 DEF s
<1>10. /\ Lines(Upto10(gp)) /\ Len(Upto10(gp)) = g + 56 /\ Placed(Upto10(gp), Len(UptoG(gp)), StackBase(2, R(10)))
      /\ \A o, v : Placed(UptoG(gp), o, v) => Placed(Upto10(gp), o, v)
  <2>. DEFINE s == StackBase(2, R(10))
  <2>1. Lines(UptoG(gp)) /\ Lines(s)
    BY <1>g, <1>lines10
  <2>2. Upto10(gp) = UptoG(gp) \o s
    BY <1>join10
  <2>3. Len(UptoG(gp)) = g + 53 /\ Len(s) = 3
    BY <1>g, <1>lines10
  <2>. HIDE DEF s
  <2>4. Lines(Upto10(gp)) /\ Len(Upto10(gp)) = Len(UptoG(gp)) + Len(s) /\ Placed(Upto10(gp), Len(UptoG(gp)), s)
    BY Zenon, <2>1, <2>2, PlacedLast
  <2>5. \A o, v : Placed(UptoG(gp), o, v) => Placed(Upto10(gp), o, v)
    BY Zenon, <2>1, <2>2, PlacedStill
  <2>6. Len(Upto10(gp)) = g + 56
    BY <1>gp, <2>3, <2>4
  <2>. QED BY <2>4, <2>5, <2>6 DEF s
<1>11. /\ Lines(Upto11(gp)) /\ Len(Upto11(gp)) = g + 59 /\ Placed(Upto11(gp), Len(Upto10(gp)), StackBase(8, R(12)))
      /\ \A o, v : Placed(Upto10(gp), o, v) => Placed(Upto11(gp), o, v)
  <2>. DEFINE s == StackBase(8, R(12))
  <2>1. Lines(Upto10(gp)) /\ Lines(s)
    BY <1>10, <1>lines11
  <2>2. Upto11(gp) = Upto10(gp) \o s
    BY <1>join11
  <2>3. Len(Upto10(gp)) = g + 56 /\ Len(s) = 3
    BY <1>10, <1>lines11
  <2>. HIDE DEF s
  <2>4. Lines(Upto11(gp)) /\ Len(Upto11(gp)) = Len(Upto10(gp)) + Len(s) /\ Placed(Upto11(gp), Len(Upto10(gp)), s)
    BY Zenon, <2>1, <2>2, PlacedLast
  <2>5. \A o, v : Placed(Upto10(gp), o, v) => Placed(Upto11(gp), o, v)
    BY Zenon, <2>1, <2>2, PlacedStill
  <2>6. Len(Upto11(gp)) = g + 59
    BY <1>gp, <2>3, <2>4
  <2>. QED BY <2>4, <2>5, <2>6 DEF s
<1>12. /\ Lines(Upto12(gp)) /\ Len(Upto12(gp)) = g + 75 /\ Placed(Upto12(gp), Len(Upto11(gp)), LoadKnl(R(17), 4))
      /\ \A o, v : Placed(Upto11(gp), o, v) => Placed(Upto12(gp), o, v)
  <2>. DEFINE s == LoadKnl(R(17), 4)
  <2>1. Lines(Upto11(gp)) /\ Lines(s)
    BY <1>11, <1>lines12
  <2>2. Upto12(gp) = Upto11(gp) \o s
    BY <1>join12
  <2>3. Len(Upto11(gp)) = g + 59 /\ Len(s) = 16
    BY <1>11, <1>lines12
  <2>. HIDE DEF s
  <2>4. Lines(Upto12(gp)) /\ Len(Upto12(gp)) = Len(Upto11(gp)) + Len(s) /\ Placed(Upto12(gp), Len(Upto11(gp)), s)
    BY Zenon, <2>1, <2>2, PlacedLast
  <2>5. \A o, v : Placed(Upto11(gp), o, v) => Placed(Upto12(gp), o, v)
    BY Zenon, <2>1, <2>2, PlacedStill
  <2>6. Len(Upto12(gp)) = g + 75
    BY <1>gp, <2>3, <2>4
  <2>. QED BY <2>4, <2>5, <2>6 DEF s
<1>13. /\ Lines(Upto13(gp)) /\ Len(Upto13(gp)) = g + 76 /\ Placed(Upto13(gp), Len(Upto12(gp)), StX(10, R(17)))
      /\ \A o, v : Placed(Upto12(gp), o, v) => Placed(Upto13(gp), o, v)
  <2>. DEFINE s == StX(10, R(17))
  <2>1. Lines(Upto12(gp)) /\ Lines(s)
    BY <1>12, <1>lines13
  <2>2. Upto13(gp) = Upto12(gp) \o s
    BY <1>join13
  <2>3. Len(Upto12(gp)) = g + 75 /\ Len(s) = 1
    BY <1>12, <1>lines13
  <2>. HIDE DEF s
  <2>4. Lines(Upto13(gp)) /\ Len(Upto13(gp)) = Len(Upto12(gp)) + Len(s) /\ Placed(Upto13(gp), Len(Upto12(gp)), s)
    BY Zenon, <2>1, <2>2, PlacedLast
  <2>5. \A o, v : Placed(Upto12(gp), o, v) => Placed(Upto13(gp), o, v)
    BY Zenon, <2>1, <2>2, PlacedStill
  <2>6. Len(Upto13(gp)) = g + 76
    BY <1>gp, <2>3, <2>4
  <2>. QED BY <2>4, <2>5, <2>6 DEF s
<1>14. /\ Lines(Upto14(gp)) /\ Len(Upto14(gp)) = g + 78 /\ Placed(Upto14(gp), Len(Upto13(gp)), WarpSync)
      /\ \A o, v : Placed(Upto13(gp), o, v) => Placed(Upto14(gp), o, v)
  <2>. DEFINE s == WarpSync
  <2>1. Lines(Upto13(gp)) /\ Lines(s)
    BY <1>13, <1>lines14
  <2>2. Upto14(gp) = Upto13(gp) \o s
    BY <1>join14
  <2>3. Len(Upto13(gp)) = g + 76 /\ Len(s) = 2
    BY <1>13, <1>lines14
  <2>. HIDE DEF s
  <2>4. Lines(Upto14(gp)) /\ Len(Upto14(gp)) = Len(Upto13(gp)) + Len(s) /\ Placed(Upto14(gp), Len(Upto13(gp)), s)
    BY Zenon, <2>1, <2>2, PlacedLast
  <2>5. \A o, v : Placed(Upto13(gp), o, v) => Placed(Upto14(gp), o, v)
    BY Zenon, <2>1, <2>2, PlacedStill
  <2>6. Len(Upto14(gp)) = g + 78
    BY <1>gp, <2>3, <2>4
  <2>. QED BY <2>4, <2>5, <2>6 DEF s
<1>16. \A o, v : Placed(Upto13(gp), o, v) => Placed(Upto14(gp), o, v)
  BY <1>14
<1>17. \A o, v : Placed(Upto12(gp), o, v) => Placed(Upto14(gp), o, v)
  BY Zenon, <1>13, <1>16
<1>18. \A o, v : Placed(Upto11(gp), o, v) => Placed(Upto14(gp), o, v)
  BY Zenon, <1>12, <1>17
<1>19. \A o, v : Placed(Upto10(gp), o, v) => Placed(Upto14(gp), o, v)
  BY Zenon, <1>11, <1>18
<1>19g. \A o, v : Placed(UptoG(gp), o, v) => Placed(Upto14(gp), o, v)
  BY Zenon, <1>10, <1>19
<1>20. \A o, v : Placed(Upto9, o, v) => Placed(Upto14(gp), o, v)
  BY Zenon, <1>g, <1>19g
<1>21. \A o, v : Placed(Upto8, o, v) => Placed(Upto14(gp), o, v)
  BY Zenon, <1>9, <1>20
<1>22. \A o, v : Placed(Upto7, o, v) => Placed(Upto14(gp), o, v)
  BY Zenon, <1>8, <1>21
<1>23. \A o, v : Placed(Upto6, o, v) => Placed(Upto14(gp), o, v)
  BY Zenon, <1>7, <1>22
<1>24. \A o, v : Placed(Upto5, o, v) => Placed(Upto14(gp), o, v)
  BY Zenon, <1>6, <1>23
<1>25. \A o, v : Placed(Upto4, o, v) => Placed(Upto14(gp), o, v)
  BY Zenon, <1>5, <1>24
<1>26. \A o, v : Placed(Upto3, o, v) => Placed(Upto14(gp), o, v)
  BY Zenon, <1>4, <1>25
<1>27. \A o, v : Placed(Upto2, o, v) => Placed(Upto14(gp), o, v)
  BY Zenon, <1>3, <1>26
<1>28. \A o, v : Placed(Upto1, o, v) => Placed(Upto14(gp), o, v)
  BY Zenon, <1>2, <1>27
<1>29. /\ Placed(Upto14(gp), 0, Params)
       /\ Placed(Upto14(gp), Len(Upto1), LoadKnl(R(17), 56))
       /\ Placed(Upto14(gp), Len(Upto2), ThreadIds)
       /\ Placed(Upto14(gp), Len(Upto3), SharedBases)
       /\ Placed(Upto14(gp), Len(Upto4), SelectLeader)
       /\ Placed(Upto14(gp), Len(Upto5), PoolCheck)
       /\ Placed(Upto14(gp), Len(Upto6), Acquire)
       /\ Placed(Upto14(gp), Len(Upto7), NoThread)
       /\ Placed(Upto14(gp), Len(Upto8), StX(4, R(15)))
       /\ Placed(Upto14(gp), Len(Upto9), SetGp(gp))
       /\ Placed(Upto14(gp), Len(UptoG(gp)), StackBase(2, R(10)))
       /\ Placed(Upto14(gp), Len(Upto10(gp)), StackBase(8, R(12)))
       /\ Placed(Upto14(gp), Len(Upto11(gp)), LoadKnl(R(17), 4))
       /\ Placed(Upto14(gp), Len(Upto12(gp)), StX(10, R(17)))
       /\ Placed(Upto14(gp), Len(Upto13(gp)), WarpSync)
  <2>1. Placed(Upto14(gp), 0, Params)
    BY Zenon, <1>1, <1>28
  <2>2. Placed(Upto14(gp), Len(Upto1), LoadKnl(R(17), 56))
    BY Zenon, <1>2, <1>27
  <2>3. Placed(Upto14(gp), Len(Upto2), ThreadIds)
    BY Zenon, <1>3, <1>26
  <2>4. Placed(Upto14(gp), Len(Upto3), SharedBases)
    BY Zenon, <1>4, <1>25
  <2>5. Placed(Upto14(gp), Len(Upto4), SelectLeader)
    BY Zenon, <1>5, <1>24
  <2>6. Placed(Upto14(gp), Len(Upto5), PoolCheck)
    BY Zenon, <1>6, <1>23
  <2>7. Placed(Upto14(gp), Len(Upto6), Acquire)
    BY Zenon, <1>7, <1>22
  <2>8. Placed(Upto14(gp), Len(Upto7), NoThread)
    BY Zenon, <1>8, <1>21
  <2>9. Placed(Upto14(gp), Len(Upto8), StX(4, R(15)))
    BY Zenon, <1>9, <1>20
  <2>g. Placed(Upto14(gp), Len(Upto9), SetGp(gp))
    BY Zenon, <1>g, <1>19g
  <2>10. Placed(Upto14(gp), Len(UptoG(gp)), StackBase(2, R(10)))
    BY Zenon, <1>10, <1>19
  <2>11. Placed(Upto14(gp), Len(Upto10(gp)), StackBase(8, R(12)))
    BY Zenon, <1>11, <1>18
  <2>12. Placed(Upto14(gp), Len(Upto11(gp)), LoadKnl(R(17), 4))
    BY Zenon, <1>12, <1>17
  <2>13. Placed(Upto14(gp), Len(Upto12(gp)), StX(10, R(17)))
    BY Zenon, <1>13, <1>16
  <2>14. Placed(Upto14(gp), Len(Upto13(gp)), WarpSync)
    BY Zenon, <1>14
  <2>. QED BY <2>1, <2>2, <2>3, <2>4, <2>5, <2>6, <2>7, <2>8, <2>9, <2>g, <2>10, <2>11, <2>12, <2>13, <2>14
<1>30. /\ Len(Upto1) = 0 + 6 /\ Len(Upto2) = 0 + 22 /\ Len(Upto3) = 0 + 38 /\ Len(Upto4) = 0 + 43 /\ Len(Upto5) = 0 + 46
       /\ Len(Upto6) = 0 + 50 /\ Len(Upto7) = 0 + 51 /\ Len(Upto8) = 0 + 52 /\ Len(Upto9) = 0 + 53
  BY <1>1, <1>2, <1>3, <1>4, <1>5, <1>6, <1>7, <1>8, <1>9
<1>31. /\ Len(UptoG(gp)) = g + 53 /\ Len(Upto10(gp)) = g + 56 /\ Len(Upto11(gp)) = g + 59 /\ Len(Upto12(gp)) = g + 75
       /\ Len(Upto13(gp)) = g + 76
  BY <1>g, <1>10, <1>11, <1>12, <1>13
<1>. QED BY <1>14, <1>15, <1>29, <1>30, <1>31 DEF Pieces, g
----------------------------------------------------------------------------
(* The lines of the entry that matter for what it leaves behind: b is the  *)
(* place of the first, d the same for those behind the lines that set x3.  *)
Results == { R(9), R(17), R(26), R(27), X(2), X(3), X(4), X(8), X(10) }

(* A line that stops nothing, stores nothing and keeps the results.        *)
Tacit(line) == line.op \notin StoreOps \cup { "unsupported", "trap", "pds.acquire" } /\ line.d \notin Results

Loud(b, d) ==
  { b + 4, b + 5, b + 13, b + 20, b + 21, b + 29, b + 30, b + 31, b + 32, b + 49, b + 50, b + 52, d + 52, d + 55, d + 58,
    d + 66, d + 73, d + 74, d + 75 }

EntryCode(c, b, d, gp) ==
  /\ Lines(c) /\ b \in Nat \ { 0 } /\ d \in { b, b + 2 } /\ (d = b <=> gp = 0) /\ Len(c) = d + 78
  /\ KnlLaid(c, b + 6, 56) /\ KnlLaid(c, d + 59, 4)
  /\ c[b + 4] = L("mov.u32", R(26), << Special("pds_bitmap_base_vaddr") >>)
  /\ c[b + 5] = L("mov.u32", R(27), << Special("pds_pool_num_blocks") >>)
  /\ c[b + 29] = L("mul.lo.u32", R(9), << R(7), R(5) >>)
  /\ c[b + 30] = L("add.u32", R(9), << R(9), R(4) >>)
  /\ c[b + 31] = L("mul.lo.u32", R(9), << R(9), R(6) >>)
  /\ c[b + 32] = L("add.u32", R(9), << R(9), R(3) >>)
  /\ c[b + 46] = L("setp.lt.u32", P(1), << R(28), Imm(GlobalBase) >>)
  /\ c[b + 47] = L("setp.ne.u32", P(2), << R(29), Imm(0) >>)
  /\ c[b + 48] = L("and.pred", P(1), << P(1), P(2) >>)
  /\ c[b + 49] = If(1, L("trap", NoReg, << >>))
  /\ c[b + 50] = L("pds.acquire", NoReg, << R(9), R(29), R(27), R(26) >>)
  /\ c[b + 51] = L("mov.u32", R(15), << Imm(0) >>)
  /\ c[b + 52] = L("mov.u32", X(4), << R(15) >>)
  /\ c[d + 53] = L("mul.lo.u32", R(15), << R(10), R(17) >>)
  /\ c[d + 54] = L("add.u32", R(15), << R(15), Imm(SharedBase) >>)
  /\ c[d + 55] = L("mov.u32", X(2), << R(15) >>)
  /\ c[d + 56] = L("mul.lo.u32", R(15), << R(12), R(17) >>)
  /\ c[d + 57] = L("add.u32", R(15), << R(15), Imm(SharedBase) >>)
  /\ c[d + 58] = L("mov.u32", X(8), << R(15) >>)
  /\ c[d + 75] = L("mov.u32", X(10), << R(17) >>)
  /\ gp # 0 => /\ c[b + 53] = L("mov.u32", R(15), << Imm(gp) >>)
               /\ c[b + 54] = L("mov.u32", X(3), << R(15) >>)
  /\ \A k \in b .. d + 77 : Tacit(c[k]) \/ k \in Loud(b, d)

TacitOps == MoveOps \cup PairOps \cup { "activemask", "bfind.u32", "setp.eq.u32", "bar.warp.sync" }

LEMMA TacitLine == \A op, d, s : op \in TacitOps /\ d \notin Results => Tacit(L(op, d, s))
<1>1. \A op \in TacitOps : op \notin StoreOps \cup { "unsupported", "trap", "pds.acquire" }
  BY DEF TacitOps, MoveOps, PairOps, StoreOps, Storing, Accesses, Bytes, StOp
<1>. QED BY <1>1 DEF Tacit, L

LEMMA OtherRegs ==
  /\ \A i \in 0 .. 31 : i \notin { 9, 17, 26, 27 } => R(i) \notin Results
  /\ \A i \in 0 .. 31 : RD(i) \notin Results /\ P(i) \notin Results
  /\ NoReg \notin Results
BY DEF Results, R, RD, P, X, NoReg

LEMMA TacitPieces ==
  /\ Tacit(Params[1])
  /\ Tacit(Params[2])
  /\ Tacit(Params[3])
  /\ Tacit(Params[4])
  /\ Tacit(ThreadIds[1])
  /\ Tacit(ThreadIds[2])
  /\ Tacit(ThreadIds[3])
  /\ Tacit(ThreadIds[4])
  /\ Tacit(ThreadIds[5])
  /\ Tacit(ThreadIds[6])
  /\ Tacit(ThreadIds[7])
  /\ Tacit(ThreadIds[12])
  /\ Tacit(ThreadIds[13])
  /\ Tacit(ThreadIds[14])
  /\ Tacit(ThreadIds[15])
  /\ Tacit(ThreadIds[16])
  /\ Tacit(SharedBases[1])
  /\ Tacit(SharedBases[2])
  /\ Tacit(SharedBases[3])
  /\ Tacit(SharedBases[4])
  /\ Tacit(SharedBases[5])
  /\ Tacit(SelectLeader[1])
  /\ Tacit(SelectLeader[2])
  /\ Tacit(SelectLeader[3])
  /\ Tacit(PoolCheck[1])
  /\ Tacit(PoolCheck[2])
  /\ Tacit(PoolCheck[3])
  /\ Tacit(NoThread[1])
  /\ Tacit(StackBase(2, R(10))[1])
  /\ Tacit(StackBase(2, R(10))[2])
  /\ Tacit(StackBase(8, R(12))[1])
  /\ Tacit(StackBase(8, R(12))[2])
  /\ Tacit(WarpSync[1])
  /\ Tacit(WarpSync[2])
<1>1. /\ Tacit(Params[1])
      /\ Tacit(Params[2])
      /\ Tacit(Params[3])
      /\ Tacit(Params[4])
  <2>1. Tacit(Params[1])
    <3>1. Params[1] = L("mov.u64", RD(0), << Special("global_base") >>)
      BY PieceLines
    <3>2. Tacit(L("mov.u64", RD(0), << Special("global_base") >>))
      BY TacitLine, OtherRegs DEF TacitOps, MoveOps, PairOps
    <3>. QED BY <3>1, <3>2
  <2>2. Tacit(Params[2])
    <3>1. Params[2] = L("mov.u32", R(30), << Special("knl_vaddr") >>)
      BY PieceLines
    <3>2. Tacit(L("mov.u32", R(30), << Special("knl_vaddr") >>))
      BY TacitLine, OtherRegs DEF TacitOps, MoveOps, PairOps
    <3>. QED BY <3>1, <3>2
  <2>3. Tacit(Params[3])
    <3>1. Params[3] = L("mov.u32", R(28), << Special("pds_base_vaddr") >>)
      BY PieceLines
    <3>2. Tacit(L("mov.u32", R(28), << Special("pds_base_vaddr") >>))
      BY TacitLine, OtherRegs DEF TacitOps, MoveOps, PairOps
    <3>. QED BY <3>1, <3>2
  <2>4. Tacit(Params[4])
    <3>1. Params[4] = L("mov.u32", R(29), << Special("pds_size_per_thread") >>)
      BY PieceLines
    <3>2. Tacit(L("mov.u32", R(29), << Special("pds_size_per_thread") >>))
      BY TacitLine, OtherRegs DEF TacitOps, MoveOps, PairOps
    <3>. QED BY <3>1, <3>2
  <2>. QED BY <2>1, <2>2, <2>3, <2>4
<1>2. /\ Tacit(ThreadIds[1])
      /\ Tacit(ThreadIds[2])
      /\ Tacit(ThreadIds[3])
      /\ Tacit(ThreadIds[4])
      /\ Tacit(ThreadIds[5])
      /\ Tacit(ThreadIds[6])
      /\ Tacit(ThreadIds[7])
      /\ Tacit(ThreadIds[12])
      /\ Tacit(ThreadIds[13])
      /\ Tacit(ThreadIds[14])
      /\ Tacit(ThreadIds[15])
      /\ Tacit(ThreadIds[16])
  <2>1. Tacit(ThreadIds[1])
    <3>1. ThreadIds[1] = L("mov.u32", R(0), << Special("laneid") >>)
      BY PieceLines
    <3>2. Tacit(L("mov.u32", R(0), << Special("laneid") >>))
      BY TacitLine, OtherRegs DEF TacitOps, MoveOps, PairOps
    <3>. QED BY <3>1, <3>2
  <2>2. Tacit(ThreadIds[2])
    <3>1. ThreadIds[2] = L("mov.u32", R(3), << Special("tid.x") >>)
      BY PieceLines
    <3>2. Tacit(L("mov.u32", R(3), << Special("tid.x") >>))
      BY TacitLine, OtherRegs DEF TacitOps, MoveOps, PairOps
    <3>. QED BY <3>1, <3>2
  <2>3. Tacit(ThreadIds[3])
    <3>1. ThreadIds[3] = L("mov.u32", R(4), << Special("tid.y") >>)
      BY PieceLines
    <3>2. Tacit(L("mov.u32", R(4), << Special("tid.y") >>))
      BY TacitLine, OtherRegs DEF TacitOps, MoveOps, PairOps
    <3>. QED BY <3>1, <3>2
  <2>4. Tacit(ThreadIds[4])
    <3>1. ThreadIds[4] = L("mov.u32", R(5), << Special("tid.z") >>)
      BY PieceLines
    <3>2. Tacit(L("mov.u32", R(5), << Special("tid.z") >>))
      BY TacitLine, OtherRegs DEF TacitOps, MoveOps, PairOps
    <3>. QED BY <3>1, <3>2
  <2>5. Tacit(ThreadIds[5])
    <3>1. ThreadIds[5] = L("mov.u32", R(6), << Special("ntid.x") >>)
      BY PieceLines
    <3>2. Tacit(L("mov.u32", R(6), << Special("ntid.x") >>))
      BY TacitLine, OtherRegs DEF TacitOps, MoveOps, PairOps
    <3>. QED BY <3>1, <3>2
  <2>6. Tacit(ThreadIds[6])
    <3>1. ThreadIds[6] = L("mov.u32", R(7), << Special("ntid.y") >>)
      BY PieceLines
    <3>2. Tacit(L("mov.u32", R(7), << Special("ntid.y") >>))
      BY TacitLine, OtherRegs DEF TacitOps, MoveOps, PairOps
    <3>. QED BY <3>1, <3>2
  <2>7. Tacit(ThreadIds[7])
    <3>1. ThreadIds[7] = L("mov.u32", R(8), << Special("ntid.z") >>)
      BY PieceLines
    <3>2. Tacit(L("mov.u32", R(8), << Special("ntid.z") >>))
      BY TacitLine, OtherRegs DEF TacitOps, MoveOps, PairOps
    <3>. QED BY <3>1, <3>2
  <2>12. Tacit(ThreadIds[12])
    <3>1. ThreadIds[12] = L("shr.u32", R(10), << R(9), Imm(LogWarp) >>)
      BY PieceLines
    <3>2. Tacit(L("shr.u32", R(10), << R(9), Imm(LogWarp) >>))
      BY TacitLine, OtherRegs DEF TacitOps, MoveOps, PairOps
    <3>. QED BY <3>1, <3>2
  <2>13. Tacit(ThreadIds[13])
    <3>1. ThreadIds[13] = L("mul.lo.u32", R(11), << R(6), R(7) >>)
      BY PieceLines
    <3>2. Tacit(L("mul.lo.u32", R(11), << R(6), R(7) >>))
      BY TacitLine, OtherRegs DEF TacitOps, MoveOps, PairOps
    <3>. QED BY <3>1, <3>2
  <2>14. Tacit(ThreadIds[14])
    <3>1. ThreadIds[14] = L("mul.lo.u32", R(11), << R(11), R(8) >>)
      BY PieceLines
    <3>2. Tacit(L("mul.lo.u32", R(11), << R(11), R(8) >>))
      BY TacitLine, OtherRegs DEF TacitOps, MoveOps, PairOps
    <3>. QED BY <3>1, <3>2
  <2>15. Tacit(ThreadIds[15])
    <3>1. ThreadIds[15] = L("add.u32", R(12), << R(11), Imm(2^LogWarp - 1) >>)
      BY PieceLines
    <3>2. Tacit(L("add.u32", R(12), << R(11), Imm(2^LogWarp - 1) >>))
      BY TacitLine, OtherRegs DEF TacitOps, MoveOps, PairOps
    <3>. QED BY <3>1, <3>2
  <2>16. Tacit(ThreadIds[16])
    <3>1. ThreadIds[16] = L("shr.u32", R(12), << R(12), Imm(LogWarp) >>)
      BY PieceLines
    <3>2. Tacit(L("shr.u32", R(12), << R(12), Imm(LogWarp) >>))
      BY TacitLine, OtherRegs DEF TacitOps, MoveOps, PairOps
    <3>. QED BY <3>1, <3>2
  <2>. QED BY <2>1, <2>2, <2>3, <2>4, <2>5, <2>6, <2>7, <2>12, <2>13, <2>14, <2>15, <2>16
<1>3. /\ Tacit(SharedBases[1])
      /\ Tacit(SharedBases[2])
      /\ Tacit(SharedBases[3])
      /\ Tacit(SharedBases[4])
      /\ Tacit(SharedBases[5])
  <2>1. Tacit(SharedBases[1])
    <3>1. SharedBases[1] = L("mov.u64", RD(2), << Special("shmem") >>)
      BY PieceLines
    <3>2. Tacit(L("mov.u64", RD(2), << Special("shmem") >>))
      BY TacitLine, OtherRegs DEF TacitOps, MoveOps, PairOps
    <3>. QED BY <3>1, <3>2
  <2>2. Tacit(SharedBases[2])
    <3>1. SharedBases[2] = L("mul.lo.u32", R(13), << R(10), R(17) >>)
      BY PieceLines
    <3>2. Tacit(L("mul.lo.u32", R(13), << R(10), R(17) >>))
      BY TacitLine, OtherRegs DEF TacitOps, MoveOps, PairOps
    <3>. QED BY <3>1, <3>2
  <2>3. Tacit(SharedBases[3])
    <3>1. SharedBases[3] = L("cvt.u64.u32", RD(13), << R(13) >>)
      BY PieceLines
    <3>2. Tacit(L("cvt.u64.u32", RD(13), << R(13) >>))
      BY TacitLine, OtherRegs DEF TacitOps, MoveOps, PairOps
    <3>. QED BY <3>1, <3>2
  <2>4. Tacit(SharedBases[4])
    <3>1. SharedBases[4] = L("add.u64", RD(3), << RD(2), RD(13) >>)
      BY PieceLines
    <3>2. Tacit(L("add.u64", RD(3), << RD(2), RD(13) >>))
      BY TacitLine, OtherRegs DEF TacitOps, MoveOps, PairOps
    <3>. QED BY <3>1, <3>2
  <2>5. Tacit(SharedBases[5])
    <3>1. SharedBases[5] = L("mov.u64", RD(3), << Imm(0) >>)
      BY PieceLines
    <3>2. Tacit(L("mov.u64", RD(3), << Imm(0) >>))
      BY TacitLine, OtherRegs DEF TacitOps, MoveOps, PairOps
    <3>. QED BY <3>1, <3>2
  <2>. QED BY <2>1, <2>2, <2>3, <2>4, <2>5
<1>4. /\ Tacit(SelectLeader[1])
      /\ Tacit(SelectLeader[2])
      /\ Tacit(SelectLeader[3])
  <2>1. Tacit(SelectLeader[1])
    <3>1. SelectLeader[1] = L("activemask", R(1), << >>)
      BY PieceLines
    <3>2. Tacit(L("activemask", R(1), << >>))
      BY TacitLine, OtherRegs DEF TacitOps, MoveOps, PairOps
    <3>. QED BY <3>1, <3>2
  <2>2. Tacit(SelectLeader[2])
    <3>1. SelectLeader[2] = L("bfind.u32", R(2), << R(1) >>)
      BY PieceLines
    <3>2. Tacit(L("bfind.u32", R(2), << R(1) >>))
      BY TacitLine, OtherRegs DEF TacitOps, MoveOps, PairOps
    <3>. QED BY <3>1, <3>2
  <2>3. Tacit(SelectLeader[3])
    <3>1. SelectLeader[3] = L("setp.eq.u32", P(0), << R(0), R(2) >>)
      BY PieceLines
    <3>2. Tacit(L("setp.eq.u32", P(0), << R(0), R(2) >>))
      BY TacitLine, OtherRegs DEF TacitOps, MoveOps, PairOps
    <3>. QED BY <3>1, <3>2
  <2>. QED BY <2>1, <2>2, <2>3
<1>5. /\ Tacit(PoolCheck[1])
      /\ Tacit(PoolCheck[2])
      /\ Tacit(PoolCheck[3])
  <2>1. Tacit(PoolCheck[1])
    <3>1. PoolCheck[1] = L("setp.lt.u32", P(1), << R(28), Imm(GlobalBase) >>)
      BY PieceLines
    <3>2. Tacit(L("setp.lt.u32", P(1), << R(28), Imm(GlobalBase) >>))
      BY TacitLine, OtherRegs DEF TacitOps, MoveOps, PairOps
    <3>. QED BY <3>1, <3>2
  <2>2. Tacit(PoolCheck[2])
    <3>1. PoolCheck[2] = L("setp.ne.u32", P(2), << R(29), Imm(0) >>)
      BY PieceLines
    <3>2. Tacit(L("setp.ne.u32", P(2), << R(29), Imm(0) >>))
      BY TacitLine, OtherRegs DEF TacitOps, MoveOps, PairOps
    <3>. QED BY <3>1, <3>2
  <2>3. Tacit(PoolCheck[3])
    <3>1. PoolCheck[3] = L("and.pred", P(1), << P(1), P(2) >>)
      BY PieceLines
    <3>2. Tacit(L("and.pred", P(1), << P(1), P(2) >>))
      BY TacitLine, OtherRegs DEF TacitOps, MoveOps, PairOps
    <3>. QED BY <3>1, <3>2
  <2>. QED BY <2>1, <2>2, <2>3
<1>6. Tacit(NoThread[1])
  <2>1. Tacit(NoThread[1])
    <3>1. NoThread[1] = L("mov.u32", R(15), << Imm(0) >>)
      BY PieceLines
    <3>2. Tacit(L("mov.u32", R(15), << Imm(0) >>))
      BY TacitLine, OtherRegs DEF TacitOps, MoveOps, PairOps
    <3>. QED BY <3>1, <3>2
  <2>. QED BY <2>1
<1>7. Tacit(StackBase(2, R(10))[1]) /\ Tacit(StackBase(2, R(10))[2])
  <2>1. Tacit(StackBase(2, R(10))[1])
    <3>1. StackBase(2, R(10))[1] = L("mul.lo.u32", R(15), << R(10), R(17) >>)
      BY PieceLines
    <3>2. Tacit(L("mul.lo.u32", R(15), << R(10), R(17) >>))
      BY TacitLine, OtherRegs DEF TacitOps, MoveOps, PairOps
    <3>. QED BY <3>1, <3>2
  <2>2. Tacit(StackBase(2, R(10))[2])
    <3>1. StackBase(2, R(10))[2] = L("add.u32", R(15), << R(15), Imm(SharedBase) >>)
      BY PieceLines
    <3>2. Tacit(L("add.u32", R(15), << R(15), Imm(SharedBase) >>))
      BY TacitLine, OtherRegs DEF TacitOps, MoveOps, PairOps
    <3>. QED BY <3>1, <3>2
  <2>. QED BY <2>1, <2>2
<1>8. Tacit(StackBase(8, R(12))[1]) /\ Tacit(StackBase(8, R(12))[2])
  <2>1. Tacit(StackBase(8, R(12))[1])
    <3>1. StackBase(8, R(12))[1] = L("mul.lo.u32", R(15), << R(12), R(17) >>)
      BY PieceLines
    <3>2. Tacit(L("mul.lo.u32", R(15), << R(12), R(17) >>))
      BY TacitLine, OtherRegs DEF TacitOps, MoveOps, PairOps
    <3>. QED BY <3>1, <3>2
  <2>2. Tacit(StackBase(8, R(12))[2])
    <3>1. StackBase(8, R(12))[2] = L("add.u32", R(15), << R(15), Imm(SharedBase) >>)
      BY PieceLines
    <3>2. Tacit(L("add.u32", R(15), << R(15), Imm(SharedBase) >>))
      BY TacitLine, OtherRegs DEF TacitOps, MoveOps, PairOps
    <3>. QED BY <3>1, <3>2
  <2>. QED BY <2>1, <2>2
<1>9. Tacit(WarpSync[1]) /\ Tacit(WarpSync[2])
  <2>1. Tacit(WarpSync[1])
    <3>1. WarpSync[1] = L("activemask", R(1), << >>)
      BY PieceLines
    <3>2. Tacit(L("activemask", R(1), << >>))
      BY TacitLine, OtherRegs DEF TacitOps, MoveOps, PairOps
    <3>. QED BY <3>1, <3>2
  <2>2. Tacit(WarpSync[2])
    <3>1. WarpSync[2] = L("bar.warp.sync", NoReg, << R(1) >>)
      BY PieceLines
    <3>2. Tacit(L("bar.warp.sync", NoReg, << R(1) >>))
      BY TacitLine, OtherRegs DEF TacitOps, MoveOps, PairOps
    <3>. QED BY <3>1, <3>2
  <2>. QED BY <2>1, <2>2
<1>. QED BY <1>1, <1>2, <1>3, <1>4, <1>5, <1>6, <1>7, <1>8, <1>9

LEMMA KnlTacit ==
  ASSUME NEW c, NEW q \in Nat, NEW n, KnlLaid(c, q, n)
  PROVE  \A k \in q .. q + 15 : Tacit(c[k]) \/ k \in { q + 7, q + 14, q + 15 }
<1>1. /\ Tacit(c[q])
      /\ Tacit(c[q + 1])
      /\ Tacit(c[q + 2])
      /\ Tacit(c[q + 3])
      /\ Tacit(c[q + 4])
      /\ Tacit(c[q + 5])
      /\ Tacit(c[q + 6])
      /\ Tacit(c[q + 8])
      /\ Tacit(c[q + 9])
      /\ Tacit(c[q + 10])
      /\ Tacit(c[q + 11])
      /\ Tacit(c[q + 12])
      /\ Tacit(c[q + 13])
  <2>1. Tacit(c[q])
    <3>1. c[q] = L("add.u32", R(16), << R(30), Imm(n) >>)
      BY DEF KnlLaid
    <3>2. Tacit(L("add.u32", R(16), << R(30), Imm(n) >>))
      BY TacitLine, OtherRegs DEF TacitOps, MoveOps, PairOps
    <3>. QED BY <3>1, <3>2
  <2>2. Tacit(c[q + 1])
    <3>1. c[q + 1] = L("mov.u32", R(31), << R(16) >>)
      BY DEF KnlLaid
    <3>2. Tacit(L("mov.u32", R(31), << R(16) >>))
      BY TacitLine, OtherRegs DEF TacitOps, MoveOps, PairOps
    <3>. QED BY <3>1, <3>2
  <2>3. Tacit(c[q + 2])
    <3>1. c[q + 2] = L("setp.ge.u32", P(1), << R(31), Imm(SharedBase) >>)
      BY DEF KnlLaid
    <3>2. Tacit(L("setp.ge.u32", P(1), << R(31), Imm(SharedBase) >>))
      BY TacitLine, OtherRegs DEF TacitOps, MoveOps, PairOps
    <3>. QED BY <3>1, <3>2
  <2>4. Tacit(c[q + 3])
    <3>1. c[q + 3] = L("setp.lt.u32", P(2), << R(31), Imm(GlobalBase) >>)
      BY DEF KnlLaid
    <3>2. Tacit(L("setp.lt.u32", P(2), << R(31), Imm(GlobalBase) >>))
      BY TacitLine, OtherRegs DEF TacitOps, MoveOps, PairOps
    <3>. QED BY <3>1, <3>2
  <2>5. Tacit(c[q + 4])
    <3>1. c[q + 4] = L("and.pred", P(3), << P(1), P(2) >>)
      BY DEF KnlLaid
    <3>2. Tacit(L("and.pred", P(3), << P(1), P(2) >>))
      BY TacitLine, OtherRegs DEF TacitOps, MoveOps, PairOps
    <3>. QED BY <3>1, <3>2
  <2>6. Tacit(c[q + 5])
    <3>1. c[q + 5] = L("setp.ge.u32", P(4), << R(31), Imm(GlobalBase) >>)
      BY DEF KnlLaid
    <3>2. Tacit(L("setp.ge.u32", P(4), << R(31), Imm(GlobalBase) >>))
      BY TacitLine, OtherRegs DEF TacitOps, MoveOps, PairOps
    <3>. QED BY <3>1, <3>2
  <2>7. Tacit(c[q + 6])
    <3>1. c[q + 6] = L("or.pred", P(5), << P(3), P(4) >>)
      BY DEF KnlLaid
    <3>2. Tacit(L("or.pred", P(5), << P(3), P(4) >>))
      BY TacitLine, OtherRegs DEF TacitOps, MoveOps, PairOps
    <3>. QED BY <3>1, <3>2
  <2>9. Tacit(c[q + 8])
    <3>1. c[q + 8] = L("add.u32", R(16), << R(31), Imm(-SharedBase) >>)
      BY DEF KnlLaid
    <3>2. Tacit(L("add.u32", R(16), << R(31), Imm(-SharedBase) >>))
      BY TacitLine, OtherRegs DEF TacitOps, MoveOps, PairOps
    <3>. QED BY <3>1, <3>2
  <2>10. Tacit(c[q + 9])
    <3>1. c[q + 9] = L("cvt.u64.u32", RD(16), << R(16) >>)
      BY DEF KnlLaid
    <3>2. Tacit(L("cvt.u64.u32", RD(16), << R(16) >>))
      BY TacitLine, OtherRegs DEF TacitOps, MoveOps, PairOps
    <3>. QED BY <3>1, <3>2
  <2>11. Tacit(c[q + 10])
    <3>1. c[q + 10] = L("add.u64", RD(17), << RD(2), RD(16) >>)
      BY DEF KnlLaid
    <3>2. Tacit(L("add.u64", RD(17), << RD(2), RD(16) >>))
      BY TacitLine, OtherRegs DEF TacitOps, MoveOps, PairOps
    <3>. QED BY <3>1, <3>2
  <2>12. Tacit(c[q + 11])
    <3>1. c[q + 11] = L("add.u32", R(16), << R(31), Imm(-GlobalBase) >>)
      BY DEF KnlLaid
    <3>2. Tacit(L("add.u32", R(16), << R(31), Imm(-GlobalBase) >>))
      BY TacitLine, OtherRegs DEF TacitOps, MoveOps, PairOps
    <3>. QED BY <3>1, <3>2
  <2>13. Tacit(c[q + 12])
    <3>1. c[q + 12] = L("cvt.u64.u32", RD(16), << R(16) >>)
      BY DEF KnlLaid
    <3>2. Tacit(L("cvt.u64.u32", RD(16), << R(16) >>))
      BY TacitLine, OtherRegs DEF TacitOps, MoveOps, PairOps
    <3>. QED BY <3>1, <3>2
  <2>14. Tacit(c[q + 13])
    <3>1. c[q + 13] = L("add.u64", RD(16), << RD(0), RD(16) >>)
      BY DEF KnlLaid
    <3>2. Tacit(L("add.u64", RD(16), << RD(0), RD(16) >>))
      BY TacitLine, OtherRegs DEF TacitOps, MoveOps, PairOps
    <3>. QED BY <3>1, <3>2
  <2>. QED BY <2>1, <2>2, <2>3, <2>4, <2>5, <2>6, <2>7, <2>9, <2>10, <2>11, <2>12, <2>13, <2>14
<1>2. \A k \in q .. q + 15 :
        k = q \/ k = q + 1 \/ k = q + 2 \/ k = q + 3 \/ k = q + 4 \/ k = q + 5 \/ k = q + 6 \/ k = q + 7
          \/ k = q + 8 \/ k = q + 9 \/ k = q + 10 \/ k = q + 11 \/ k = q + 12 \/ k = q + 13 \/ k = q + 14 \/ k = q + 15
  OBVIOUS
<1>. QED BY <1>1, <1>2

LEMMA PiecesCode ==
  ASSUME NEW c, NEW o \in Nat, NEW u \in Nat, NEW gp, u = o + Gp(gp), Lines(c), Len(c) = u + 79, Pieces(c, o, u, gp)
  PROVE  EntryCode(c, o + 1, u + 1, gp)
<1>. DEFINE b == o + 1
            d == u + 1
<1>d. d \in { b, b + 2 } /\ (d = b <=> gp = 0) /\ d = b + Gp(gp)
  BY DEF Gp
<1>1. KnlLaid(c, b + 6, 56) /\ KnlLaid(c, d + 59, 4)
  <2>1. Placed(c, o + 6, LoadKnl(R(17), 56)) /\ Placed(c, u + 59, LoadKnl(R(17), 4))
    BY DEF Pieces
  <2>2. KnlLaid(c, o + 6 + 1, 56) /\ KnlLaid(c, u + 59 + 1, 4)
    BY <2>1, KnlLaidAt
  <2>3. o + 6 + 1 = b + 6 /\ u + 59 + 1 = d + 59
    OBVIOUS
  <2>. QED BY <2>2, <2>3
<1>2. /\ c[b + 0] = Params[1]
      /\ c[b + 1] = Params[2]
      /\ c[b + 2] = Params[3]
      /\ c[b + 3] = Params[4]
      /\ c[b + 4] = Params[5]
      /\ c[b + 5] = Params[6]
  <2>1. Placed(c, o, Params) /\ Len(Params) = 6
    BY PieceLines DEF Pieces
  <2>. DEFINE s == Params
  <2>2. Len(s) = 6 /\ \A k \in 1 .. Len(s) : c[o + k] = s[k]
    BY <2>1 DEF Placed
  <2>. HIDE DEF s
  <2>3. /\ c[o + 1] = s[1]
        /\ c[o + 2] = s[2]
        /\ c[o + 3] = s[3]
        /\ c[o + 4] = s[4]
        /\ c[o + 5] = s[5]
        /\ c[o + 6] = s[6]
    BY <2>2
  <2>4. /\ o + 1 = b + 0
        /\ o + 2 = b + 1
        /\ o + 3 = b + 2
        /\ o + 4 = b + 3
        /\ o + 5 = b + 4
        /\ o + 6 = b + 5
    OBVIOUS
  <2>. QED BY <2>3, <2>4 DEF s
<1>3. /\ c[b + 22] = ThreadIds[1]
      /\ c[b + 23] = ThreadIds[2]
      /\ c[b + 24] = ThreadIds[3]
      /\ c[b + 25] = ThreadIds[4]
      /\ c[b + 26] = ThreadIds[5]
      /\ c[b + 27] = ThreadIds[6]
      /\ c[b + 28] = ThreadIds[7]
      /\ c[b + 29] = ThreadIds[8]
      /\ c[b + 30] = ThreadIds[9]
      /\ c[b + 31] = ThreadIds[10]
      /\ c[b + 32] = ThreadIds[11]
      /\ c[b + 33] = ThreadIds[12]
      /\ c[b + 34] = ThreadIds[13]
      /\ c[b + 35] = ThreadIds[14]
      /\ c[b + 36] = ThreadIds[15]
      /\ c[b + 37] = ThreadIds[16]
  <2>1. Placed(c, o + 22, ThreadIds) /\ Len(ThreadIds) = 16
    BY PieceLines DEF Pieces
  <2>. DEFINE s == ThreadIds
  <2>2. Len(s) = 16 /\ \A k \in 1 .. Len(s) : c[(o + 22) + k] = s[k]
    BY <2>1 DEF Placed
  <2>. HIDE DEF s
  <2>3. /\ c[(o + 22) + 1] = s[1]
        /\ c[(o + 22) + 2] = s[2]
        /\ c[(o + 22) + 3] = s[3]
        /\ c[(o + 22) + 4] = s[4]
        /\ c[(o + 22) + 5] = s[5]
        /\ c[(o + 22) + 6] = s[6]
        /\ c[(o + 22) + 7] = s[7]
        /\ c[(o + 22) + 8] = s[8]
        /\ c[(o + 22) + 9] = s[9]
        /\ c[(o + 22) + 10] = s[10]
        /\ c[(o + 22) + 11] = s[11]
        /\ c[(o + 22) + 12] = s[12]
        /\ c[(o + 22) + 13] = s[13]
        /\ c[(o + 22) + 14] = s[14]
        /\ c[(o + 22) + 15] = s[15]
        /\ c[(o + 22) + 16] = s[16]
    BY <2>2
  <2>4. /\ (o + 22) + 1 = b + 22
        /\ (o + 22) + 2 = b + 23
        /\ (o + 22) + 3 = b + 24
        /\ (o + 22) + 4 = b + 25
        /\ (o + 22) + 5 = b + 26
        /\ (o + 22) + 6 = b + 27
        /\ (o + 22) + 7 = b + 28
        /\ (o + 22) + 8 = b + 29
        /\ (o + 22) + 9 = b + 30
        /\ (o + 22) + 10 = b + 31
        /\ (o + 22) + 11 = b + 32
        /\ (o + 22) + 12 = b + 33
        /\ (o + 22) + 13 = b + 34
        /\ (o + 22) + 14 = b + 35
        /\ (o + 22) + 15 = b + 36
        /\ (o + 22) + 16 = b + 37
    OBVIOUS
  <2>. QED BY <2>3, <2>4 DEF s
<1>4. /\ c[b + 38] = SharedBases[1]
      /\ c[b + 39] = SharedBases[2]
      /\ c[b + 40] = SharedBases[3]
      /\ c[b + 41] = SharedBases[4]
      /\ c[b + 42] = SharedBases[5]
  <2>1. Placed(c, o + 38, SharedBases) /\ Len(SharedBases) = 5
    BY PieceLines DEF Pieces
  <2>. DEFINE s == SharedBases
  <2>2. Len(s) = 5 /\ \A k \in 1 .. Len(s) : c[(o + 38) + k] = s[k]
    BY <2>1 DEF Placed
  <2>. HIDE DEF s
  <2>3. /\ c[(o + 38) + 1] = s[1]
        /\ c[(o + 38) + 2] = s[2]
        /\ c[(o + 38) + 3] = s[3]
        /\ c[(o + 38) + 4] = s[4]
        /\ c[(o + 38) + 5] = s[5]
    BY <2>2
  <2>4. /\ (o + 38) + 1 = b + 38
        /\ (o + 38) + 2 = b + 39
        /\ (o + 38) + 3 = b + 40
        /\ (o + 38) + 4 = b + 41
        /\ (o + 38) + 5 = b + 42
    OBVIOUS
  <2>. QED BY <2>3, <2>4 DEF s
<1>5. /\ c[b + 43] = SelectLeader[1]
      /\ c[b + 44] = SelectLeader[2]
      /\ c[b + 45] = SelectLeader[3]
  <2>1. Placed(c, o + 43, SelectLeader) /\ Len(SelectLeader) = 3
    BY PieceLines DEF Pieces
  <2>. DEFINE s == SelectLeader
  <2>2. Len(s) = 3 /\ \A k \in 1 .. Len(s) : c[(o + 43) + k] = s[k]
    BY <2>1 DEF Placed
  <2>. HIDE DEF s
  <2>3. /\ c[(o + 43) + 1] = s[1]
        /\ c[(o + 43) + 2] = s[2]
        /\ c[(o + 43) + 3] = s[3]
    BY <2>2
  <2>4. /\ (o + 43) + 1 = b + 43
        /\ (o + 43) + 2 = b + 44
        /\ (o + 43) + 3 = b + 45
    OBVIOUS
  <2>. QED BY <2>3, <2>4 DEF s
<1>6. /\ c[b + 46] = PoolCheck[1]
      /\ c[b + 47] = PoolCheck[2]
      /\ c[b + 48] = PoolCheck[3]
      /\ c[b + 49] = PoolCheck[4]
  <2>1. Placed(c, o + 46, PoolCheck) /\ Len(PoolCheck) = 4
    BY PieceLines DEF Pieces
  <2>. DEFINE s == PoolCheck
  <2>2. Len(s) = 4 /\ \A k \in 1 .. Len(s) : c[(o + 46) + k] = s[k]
    BY <2>1 DEF Placed
  <2>. HIDE DEF s
  <2>3. /\ c[(o + 46) + 1] = s[1]
        /\ c[(o + 46) + 2] = s[2]
        /\ c[(o + 46) + 3] = s[3]
        /\ c[(o + 46) + 4] = s[4]
    BY <2>2
  <2>4. /\ (o + 46) + 1 = b + 46
        /\ (o + 46) + 2 = b + 47
        /\ (o + 46) + 3 = b + 48
        /\ (o + 46) + 4 = b + 49
    OBVIOUS
  <2>. QED BY <2>3, <2>4 DEF s
<1>7. c[b + 50] = Acquire[1]
  <2>1. Placed(c, o + 50, Acquire) /\ Len(Acquire) = 1
    BY PieceLines DEF Pieces
  <2>. DEFINE s == Acquire
  <2>2. Len(s) = 1 /\ \A k \in 1 .. Len(s) : c[(o + 50) + k] = s[k]
    BY <2>1 DEF Placed
  <2>. HIDE DEF s
  <2>3. c[(o + 50) + 1] = s[1]
    BY <2>2
  <2>4. (o + 50) + 1 = b + 50
    OBVIOUS
  <2>. QED BY <2>3, <2>4 DEF s
<1>8. c[b + 51] = NoThread[1]
  <2>1. Placed(c, o + 51, NoThread) /\ Len(NoThread) = 1
    BY PieceLines DEF Pieces
  <2>. DEFINE s == NoThread
  <2>2. Len(s) = 1 /\ \A k \in 1 .. Len(s) : c[(o + 51) + k] = s[k]
    BY <2>1 DEF Placed
  <2>. HIDE DEF s
  <2>3. c[(o + 51) + 1] = s[1]
    BY <2>2
  <2>4. (o + 51) + 1 = b + 51
    OBVIOUS
  <2>. QED BY <2>3, <2>4 DEF s
<1>9. c[b + 52] = StX(4, R(15))[1]
  <2>1. Placed(c, o + 52, StX(4, R(15))) /\ Len(StX(4, R(15))) = 1
    BY PieceLines DEF Pieces
  <2>. DEFINE s == StX(4, R(15))
  <2>2. Len(s) = 1 /\ \A k \in 1 .. Len(s) : c[(o + 52) + k] = s[k]
    BY <2>1 DEF Placed
  <2>. HIDE DEF s
  <2>3. c[(o + 52) + 1] = s[1]
    BY <2>2
  <2>4. (o + 52) + 1 = b + 52
    OBVIOUS
  <2>. QED BY <2>3, <2>4 DEF s
<1>10. /\ c[d + 53] = StackBase(2, R(10))[1]
      /\ c[d + 54] = StackBase(2, R(10))[2]
      /\ c[d + 55] = StackBase(2, R(10))[3]
  <2>1. Placed(c, u + 53, StackBase(2, R(10))) /\ Len(StackBase(2, R(10))) = 3
    BY PieceLines DEF Pieces
  <2>. DEFINE s == StackBase(2, R(10))
  <2>2. Len(s) = 3 /\ \A k \in 1 .. Len(s) : c[(u + 53) + k] = s[k]
    BY <2>1 DEF Placed
  <2>. HIDE DEF s
  <2>3. /\ c[(u + 53) + 1] = s[1]
        /\ c[(u + 53) + 2] = s[2]
        /\ c[(u + 53) + 3] = s[3]
    BY <2>2
  <2>4. /\ (u + 53) + 1 = d + 53
        /\ (u + 53) + 2 = d + 54
        /\ (u + 53) + 3 = d + 55
    OBVIOUS
  <2>. QED BY <2>3, <2>4 DEF s
<1>11. /\ c[d + 56] = StackBase(8, R(12))[1]
      /\ c[d + 57] = StackBase(8, R(12))[2]
      /\ c[d + 58] = StackBase(8, R(12))[3]
  <2>1. Placed(c, u + 56, StackBase(8, R(12))) /\ Len(StackBase(8, R(12))) = 3
    BY PieceLines DEF Pieces
  <2>. DEFINE s == StackBase(8, R(12))
  <2>2. Len(s) = 3 /\ \A k \in 1 .. Len(s) : c[(u + 56) + k] = s[k]
    BY <2>1 DEF Placed
  <2>. HIDE DEF s
  <2>3. /\ c[(u + 56) + 1] = s[1]
        /\ c[(u + 56) + 2] = s[2]
        /\ c[(u + 56) + 3] = s[3]
    BY <2>2
  <2>4. /\ (u + 56) + 1 = d + 56
        /\ (u + 56) + 2 = d + 57
        /\ (u + 56) + 3 = d + 58
    OBVIOUS
  <2>. QED BY <2>3, <2>4 DEF s
<1>12. c[d + 75] = StX(10, R(17))[1]
  <2>1. Placed(c, u + 75, StX(10, R(17))) /\ Len(StX(10, R(17))) = 1
    BY PieceLines DEF Pieces
  <2>. DEFINE s == StX(10, R(17))
  <2>2. Len(s) = 1 /\ \A k \in 1 .. Len(s) : c[(u + 75) + k] = s[k]
    BY <2>1 DEF Placed
  <2>. HIDE DEF s
  <2>3. c[(u + 75) + 1] = s[1]
    BY <2>2
  <2>4. (u + 75) + 1 = d + 75
    OBVIOUS
  <2>. QED BY <2>3, <2>4 DEF s
<1>13. /\ c[d + 76] = WarpSync[1]
      /\ c[d + 77] = WarpSync[2]
  <2>1. Placed(c, u + 76, WarpSync) /\ Len(WarpSync) = 2
    BY PieceLines DEF Pieces
  <2>. DEFINE s == WarpSync
  <2>2. Len(s) = 2 /\ \A k \in 1 .. Len(s) : c[(u + 76) + k] = s[k]
    BY <2>1 DEF Placed
  <2>. HIDE DEF s
  <2>3. c[(u + 76) + 1] = s[1] /\ c[(u + 76) + 2] = s[2]
    BY <2>2
  <2>4. (u + 76) + 1 = d + 76 /\ (u + 76) + 2 = d + 77
    OBVIOUS
  <2>. QED BY <2>3, <2>4 DEF s
<1>14. /\ c[b + 4] = L("mov.u32", R(26), << Special("pds_bitmap_base_vaddr") >>)
      /\ c[b + 5] = L("mov.u32", R(27), << Special("pds_pool_num_blocks") >>)
      /\ c[b + 29] = L("mul.lo.u32", R(9), << R(7), R(5) >>)
      /\ c[b + 30] = L("add.u32", R(9), << R(9), R(4) >>)
      /\ c[b + 31] = L("mul.lo.u32", R(9), << R(9), R(6) >>)
      /\ c[b + 32] = L("add.u32", R(9), << R(9), R(3) >>)
      /\ c[b + 46] = L("setp.lt.u32", P(1), << R(28), Imm(GlobalBase) >>)
      /\ c[b + 47] = L("setp.ne.u32", P(2), << R(29), Imm(0) >>)
      /\ c[b + 48] = L("and.pred", P(1), << P(1), P(2) >>)
      /\ c[b + 49] = If(1, L("trap", NoReg, << >>))
      /\ c[b + 50] = L("pds.acquire", NoReg, << R(9), R(29), R(27), R(26) >>)
      /\ c[b + 51] = L("mov.u32", R(15), << Imm(0) >>)
      /\ c[b + 52] = L("mov.u32", X(4), << R(15) >>)
      /\ c[d + 53] = L("mul.lo.u32", R(15), << R(10), R(17) >>)
      /\ c[d + 54] = L("add.u32", R(15), << R(15), Imm(SharedBase) >>)
      /\ c[d + 55] = L("mov.u32", X(2), << R(15) >>)
      /\ c[d + 56] = L("mul.lo.u32", R(15), << R(12), R(17) >>)
      /\ c[d + 57] = L("add.u32", R(15), << R(15), Imm(SharedBase) >>)
      /\ c[d + 58] = L("mov.u32", X(8), << R(15) >>)
      /\ c[d + 75] = L("mov.u32", X(10), << R(17) >>)
  BY <1>2, <1>3, <1>6, <1>7, <1>8, <1>9, <1>10, <1>11, <1>12, PieceLines
<1>gp. gp # 0 => /\ c[b + 53] = L("mov.u32", R(15), << Imm(gp) >>) /\ c[b + 54] = L("mov.u32", X(3), << R(15) >>)
  <2>. DEFINE s == SetGp(gp)
  <2>1. Placed(c, o + 53, s) /\ Len(s) = Gp(gp)
    BY GpLines DEF Pieces
  <2>. HIDE DEF s
  <2>2. \A k \in 1 .. Gp(gp) : c[(o + 53) + k] = s[k]
    BY <2>1 DEF Placed
  <2>. SUFFICES ASSUME gp # 0 PROVE c[b + 53] = L("mov.u32", R(15), << Imm(gp) >>)
           /\ c[b + 54] = L("mov.u32", X(3), << R(15) >>)
    OBVIOUS
  <2>3. Gp(gp) = 2 /\ s[1] = L("mov.u32", R(15), << Imm(gp) >>) /\ s[2] = L("mov.u32", X(3), << R(15) >>)
    BY GpLines DEF s
  <2>4. (o + 53) + 1 = b + 53 /\ (o + 53) + 2 = b + 54
    OBVIOUS
  <2>5. c[(o + 53) + 1] = s[1] /\ c[(o + 53) + 2] = s[2]
    BY <2>2, <2>3
  <2>. QED BY <2>3, <2>4, <2>5
<1>tacit. \A k \in b + 53 .. d + 52 : Tacit(c[k]) \/ k \in Loud(b, d)
  <2>1. CASE gp = 0
    <3>1. ~(\E k \in b + 53 .. d + 52 : TRUE)
      BY <1>d, <2>1
    <3>. QED BY <3>1
  <2>2. CASE gp # 0
    <3>1. Tacit(L("mov.u32", R(15), << Imm(gp) >>))
      BY TacitLine, OtherRegs DEF TacitOps, MoveOps, PairOps
    <3>2. d = b + 2 /\ d + 52 = b + 54 /\ d + 52 \in Loud(b, d)
      BY <1>d, <2>2 DEF Loud
    <3>3. \A k \in b + 53 .. d + 52 : k = b + 53 \/ k = d + 52
      BY <3>2
    <3>. QED BY <1>gp, <2>2, <3>1, <3>2, <3>3
  <2>. QED BY <2>1, <2>2
<1>15. \A k \in b + 0 .. b + 5 : Tacit(c[k]) \/ k \in Loud(b, d)
  <2>1. /\ Tacit(c[b + 0])
        /\ Tacit(c[b + 1])
        /\ Tacit(c[b + 2])
        /\ Tacit(c[b + 3])
        /\ b + 4 \in Loud(b, d)
        /\ b + 5 \in Loud(b, d)
    BY TacitPieces, <1>2 DEF Loud
  <2>2. \A k \in b + 0 .. b + 5 :
          \/ k = b + 0
            \/ k = b + 1
            \/ k = b + 2
            \/ k = b + 3
            \/ k = b + 4
            \/ k = b + 5
    OBVIOUS
  <2>. QED BY <2>1, <2>2
<1>16. \A k \in b + 6 .. b + 21 : Tacit(c[k]) \/ k \in Loud(b, d)
  <2>1. b + 6 \in Nat
    OBVIOUS
  <2>2. \A k \in b + 6 .. b + 6 + 15 : Tacit(c[k]) \/ k \in { b + 6 + 7, b + 6 + 14, b + 6 + 15 }
    BY <1>1, <2>1, KnlTacit
  <2>3. b + 6 + 15 = b + 21 /\ b + 6 + 7 \in Loud(b, d) /\ b + 6 + 14 \in Loud(b, d) /\ b + 6 + 15 \in Loud(b, d)
    BY DEF Loud
  <2>. QED BY <2>2, <2>3
<1>17. \A k \in b + 22 .. b + 37 : Tacit(c[k]) \/ k \in Loud(b, d)
  <2>1. /\ Tacit(c[b + 22])
        /\ Tacit(c[b + 23])
        /\ Tacit(c[b + 24])
        /\ Tacit(c[b + 25])
        /\ Tacit(c[b + 26])
        /\ Tacit(c[b + 27])
        /\ Tacit(c[b + 28])
        /\ b + 29 \in Loud(b, d)
        /\ b + 30 \in Loud(b, d)
        /\ b + 31 \in Loud(b, d)
        /\ b + 32 \in Loud(b, d)
        /\ Tacit(c[b + 33])
        /\ Tacit(c[b + 34])
        /\ Tacit(c[b + 35])
        /\ Tacit(c[b + 36])
        /\ Tacit(c[b + 37])
    BY TacitPieces, <1>3 DEF Loud
  <2>. DEFINE Good(k) == Tacit(c[k]) \/ k \in Loud(b, d)
  <2>3. \A k \in 22 .. 37 : Good(b + k)
    BY <2>1
  <2>. HIDE DEF Good
  <2>4. \A k \in b + 22 .. b + 37 : Good(k)
    <3>. SUFFICES ASSUME NEW k \in b + 22 .. b + 37 PROVE Good(k)
      OBVIOUS
    <3>1. k - b \in 22 .. 37 /\ b + (k - b) = k
      OBVIOUS
    <3>. QED BY <2>3, <3>1
  <2>. QED BY <2>4 DEF Good
<1>18. \A k \in b + 38 .. b + 42 : Tacit(c[k]) \/ k \in Loud(b, d)
  <2>1. /\ Tacit(c[b + 38])
        /\ Tacit(c[b + 39])
        /\ Tacit(c[b + 40])
        /\ Tacit(c[b + 41])
        /\ Tacit(c[b + 42])
    BY TacitPieces, <1>4
  <2>2. \A k \in b + 38 .. b + 42 : k = b + 38 \/ k = b + 39 \/ k = b + 40 \/ k = b + 41 \/ k = b + 42
    OBVIOUS
  <2>. QED BY <2>1, <2>2
<1>19. \A k \in b + 43 .. b + 45 : Tacit(c[k]) \/ k \in Loud(b, d)
  <2>1. /\ Tacit(c[b + 43])
        /\ Tacit(c[b + 44])
        /\ Tacit(c[b + 45])
    BY TacitPieces, <1>5
  <2>2. \A k \in b + 43 .. b + 45 : k = b + 43 \/ k = b + 44 \/ k = b + 45
    OBVIOUS
  <2>. QED BY <2>1, <2>2
<1>20. \A k \in b + 46 .. b + 49 : Tacit(c[k]) \/ k \in Loud(b, d)
  <2>1. /\ Tacit(c[b + 46])
        /\ Tacit(c[b + 47])
        /\ Tacit(c[b + 48])
        /\ b + 49 \in Loud(b, d)
    BY TacitPieces, <1>6 DEF Loud
  <2>2. \A k \in b + 46 .. b + 49 : k = b + 46 \/ k = b + 47 \/ k = b + 48 \/ k = b + 49
    OBVIOUS
  <2>. QED BY <2>1, <2>2
<1>21. \A k \in b + 50 .. b + 50 : Tacit(c[k]) \/ k \in Loud(b, d)
  <2>1. b + 50 \in Loud(b, d)
    BY  DEF Loud
  <2>2. \A k \in b + 50 .. b + 50 : k = b + 50
    OBVIOUS
  <2>. QED BY <2>1, <2>2
<1>22. \A k \in b + 51 .. b + 51 : Tacit(c[k]) \/ k \in Loud(b, d)
  <2>1. Tacit(c[b + 51])
    BY TacitPieces, <1>8
  <2>2. \A k \in b + 51 .. b + 51 : k = b + 51
    OBVIOUS
  <2>. QED BY <2>1, <2>2
<1>23. \A k \in b + 52 .. b + 52 : Tacit(c[k]) \/ k \in Loud(b, d)
  <2>1. b + 52 \in Loud(b, d)
    BY  DEF Loud
  <2>2. \A k \in b + 52 .. b + 52 : k = b + 52
    OBVIOUS
  <2>. QED BY <2>1, <2>2
<1>24. \A k \in d + 53 .. d + 55 : Tacit(c[k]) \/ k \in Loud(b, d)
  <2>1. /\ Tacit(c[d + 53])
        /\ Tacit(c[d + 54])
        /\ d + 55 \in Loud(b, d)
    BY TacitPieces, <1>10 DEF Loud
  <2>2. \A k \in d + 53 .. d + 55 : k = d + 53 \/ k = d + 54 \/ k = d + 55
    OBVIOUS
  <2>. QED BY <2>1, <2>2
<1>25. \A k \in d + 56 .. d + 58 : Tacit(c[k]) \/ k \in Loud(b, d)
  <2>1. /\ Tacit(c[d + 56])
        /\ Tacit(c[d + 57])
        /\ d + 58 \in Loud(b, d)
    BY TacitPieces, <1>11 DEF Loud
  <2>2. \A k \in d + 56 .. d + 58 : k = d + 56 \/ k = d + 57 \/ k = d + 58
    OBVIOUS
  <2>. QED BY <2>1, <2>2
<1>26. \A k \in d + 59 .. d + 74 : Tacit(c[k]) \/ k \in Loud(b, d)
  <2>1. d + 59 \in Nat
    OBVIOUS
  <2>2. \A k \in d + 59 .. d + 59 + 15 : Tacit(c[k]) \/ k \in { d + 59 + 7, d + 59 + 14, d + 59 + 15 }
    BY <1>1, <2>1, KnlTacit
  <2>e. d + 59 + 7 = d + 66 /\ d + 59 + 14 = d + 73 /\ d + 59 + 15 = d + 74
    OBVIOUS
  <2>f. d + 66 \in Loud(b, d) /\ d + 73 \in Loud(b, d) /\ d + 74 \in Loud(b, d)
    BY Zenon DEF Loud
  <2>3. d + 59 + 15 = d + 74 /\ d + 59 + 7 \in Loud(b, d) /\ d + 59 + 14 \in Loud(b, d) /\ d + 59 + 15 \in Loud(b, d)
    BY <2>e, <2>f
  <2>. QED BY <2>2, <2>3
<1>27. \A k \in d + 75 .. d + 75 : Tacit(c[k]) \/ k \in Loud(b, d)
  <2>1. d + 75 \in Loud(b, d)
    BY  DEF Loud
  <2>2. \A k \in d + 75 .. d + 75 : k = d + 75
    OBVIOUS
  <2>. QED BY <2>1, <2>2
<1>28. \A k \in d + 76 .. d + 77 : Tacit(c[k]) \/ k \in Loud(b, d)
  <2>1. Tacit(c[d + 76]) /\ Tacit(c[d + 77])
    BY TacitPieces, <1>13
  <2>2. \A k \in d + 76 .. d + 77 : k = d + 76 \/ k = d + 77
    OBVIOUS
  <2>. QED BY <2>1, <2>2
<1>29. \A k \in b .. d + 77 : Tacit(c[k]) \/ k \in Loud(b, d)
  <2>. DEFINE Good(k) == Tacit(c[k]) \/ k \in Loud(b, d)
  <2>1. /\ \A k \in b + 0 .. b + 5 : Good(k)
        /\ \A k \in b + 6 .. b + 21 : Good(k)
        /\ \A k \in b + 22 .. b + 37 : Good(k)
        /\ \A k \in b + 38 .. b + 42 : Good(k)
        /\ \A k \in b + 43 .. b + 45 : Good(k)
    BY <1>15, <1>16, <1>17, <1>18, <1>19
  <2>2. /\ \A k \in b + 46 .. b + 49 : Good(k)
        /\ \A k \in b + 50 .. b + 50 : Good(k)
        /\ \A k \in b + 51 .. b + 51 : Good(k)
        /\ \A k \in b + 52 .. b + 52 : Good(k)
        /\ \A k \in b + 53 .. d + 52 : Good(k)
    BY <1>20, <1>21, <1>22, <1>23, <1>tacit
  <2>3. /\ \A k \in d + 53 .. d + 55 : Good(k)
        /\ \A k \in d + 56 .. d + 58 : Good(k)
        /\ \A k \in d + 59 .. d + 74 : Good(k)
        /\ \A k \in d + 75 .. d + 75 : Good(k)
        /\ \A k \in d + 76 .. d + 77 : Good(k)
    BY <1>24, <1>25, <1>26, <1>27, <1>28
  <2>4. b \in Nat /\ d \in Nat
    OBVIOUS
  <2>5. d = b \/ d = b + 2
    BY <1>d
  <2>. HIDE DEF Good, b, d
  <2>6. \A k \in b .. b + 45 : Good(k)
    BY <2>1, <2>4
  <2>7. \A k \in b + 46 .. d + 52 : Good(k)
    BY <2>2, <2>4, <2>5
  <2>8. \A k \in d + 53 .. d + 77 : Good(k)
    BY <2>3, <2>4
  <2>9. \A k \in b .. d + 77 : Good(k)
    BY <2>4, <2>5, <2>6, <2>7, <2>8
  <2>. QED BY <2>9 DEF Good
<1>30. Lines(c) /\ b \in Nat \ { 0 } /\ d \in { b, b + 2 } /\ (d = b <=> gp = 0) /\ Len(c) = d + 78
  BY <1>d
<1>. HIDE DEF b, d
<1>31. EntryCode(c, b, d, gp)
  BY Zenon, <1>30, <1>1, <1>gp, <1>14, <1>29 DEF EntryCode
<1>. QED BY <1>31 DEF b, d

LEMMA EntryCoded ==
  ASSUME NEW p \in Progs, p.kind = "entry"
  PROVE  EntryCode(CodeOf(p), First, First + Gp(p.gp), p.gp) /\ HeadLength = 22
<1>1. Lines(Called) /\ Len(Called) \in Nat
  <2>1. Numbered(EmitAll(Callee, 0), 0 + 1, 0 + Len(Callee))
    BY CallsAssumption, EmitAllNumbered
  <2>2. Lines(FuncPrologue) /\ Lines(EmitAll(Callee, 0))
    BY <2>1, FuncPrologueLines DEF Numbered
  <2>3. Lines(Called)
    BY <2>2, Joined DEF JoinOf, Called
  <2>. QED BY <2>3 DEF Lines
<1>2. Lines(Exit) /\ Len(Exit) = 1
  BY DEF Exit, Lines
<1>. DEFINE a == Called
            gp == p.gp
            pro == Prologue(gp)
            z == a \o pro
            y == z \o Exit
            o == Len(a)
            g == Gp(gp)
            u == o + g
<1>3. CodeOf(p) = y
  BY DEF CodeOf
<1>4. Len(pro) = g + 78 /\ Pieces(pro, 0, g, gp)
  BY ProloguePieces
<1>g. g \in Nat
  BY DEF Gp
<1>p. Lines(pro)
  BY ProloguePieces
<1>5. Len(a) \in Nat
  BY <1>1
<1>a. Lines(a)
  BY <1>1
<1>e. Lines(Exit)
  BY <1>2
<1>. HIDE DEF a, pro, gp, g
<1>6. Len(z) = Len(a) + Len(pro) /\ Lines(z)
  BY Zenon, <1>a, <1>p, PlacedLast
<1>y. Lines(z)
  BY <1>6
<1>7. \A k, v : Placed(pro, k, v) => Placed(z, o + k, v)
  BY Zenon, <1>a, <1>p, PlacedAfter
<1>z. z = a \o pro
  OBVIOUS
<1>. HIDE DEF z
<1>8. Len(y) = Len(z) + Len(Exit) /\ Lines(y)
  BY Zenon, <1>e, <1>y, PlacedLast
<1>9. \A k, v : Placed(z, k, v) => Placed(y, k, v)
  BY Zenon, <1>e, <1>y, PlacedStill
<1>. HIDE DEF y
<1>10. /\ Placed(pro, 0, Params)
       /\ Placed(pro, 0 + 6, LoadKnl(R(17), 56))
       /\ Placed(pro, 0 + 22, ThreadIds)
       /\ Placed(pro, 0 + 38, SharedBases)
       /\ Placed(pro, 0 + 43, SelectLeader)
       /\ Placed(pro, 0 + 46, PoolCheck)
       /\ Placed(pro, 0 + 50, Acquire)
       /\ Placed(pro, 0 + 51, NoThread)
       /\ Placed(pro, 0 + 52, StX(4, R(15)))
       /\ Placed(pro, 0 + 53, SetGp(gp))
       /\ Placed(pro, g + 53, StackBase(2, R(10)))
       /\ Placed(pro, g + 56, StackBase(8, R(12)))
       /\ Placed(pro, g + 59, LoadKnl(R(17), 4))
       /\ Placed(pro, g + 75, StX(10, R(17)))
       /\ Placed(pro, g + 76, WarpSync)
  BY <1>4 DEF Pieces
<1>11. /\ Placed(y, o + 0, Params)
       /\ Placed(y, o + (0 + 6), LoadKnl(R(17), 56))
       /\ Placed(y, o + (0 + 22), ThreadIds)
       /\ Placed(y, o + (0 + 38), SharedBases)
       /\ Placed(y, o + (0 + 43), SelectLeader)
       /\ Placed(y, o + (0 + 46), PoolCheck)
       /\ Placed(y, o + (0 + 50), Acquire)
       /\ Placed(y, o + (0 + 51), NoThread)
       /\ Placed(y, o + (0 + 52), StX(4, R(15)))
       /\ Placed(y, o + (0 + 53), SetGp(gp))
       /\ Placed(y, o + (g + 53), StackBase(2, R(10)))
       /\ Placed(y, o + (g + 56), StackBase(8, R(12)))
       /\ Placed(y, o + (g + 59), LoadKnl(R(17), 4))
       /\ Placed(y, o + (g + 75), StX(10, R(17)))
       /\ Placed(y, o + (g + 76), WarpSync)
  <2>1. Placed(y, o + 0, Params)
    <3>1. Placed(pro, 0, Params)
      BY <1>10
    <3>. QED BY Zenon, <3>1, <1>7, <1>9
  <2>2. Placed(y, o + (0 + 6), LoadKnl(R(17), 56))
    <3>1. Placed(pro, 0 + 6, LoadKnl(R(17), 56))
      BY <1>10
    <3>. QED BY Zenon, <3>1, <1>7, <1>9
  <2>3. Placed(y, o + (0 + 22), ThreadIds)
    <3>1. Placed(pro, 0 + 22, ThreadIds)
      BY <1>10
    <3>. QED BY Zenon, <3>1, <1>7, <1>9
  <2>4. Placed(y, o + (0 + 38), SharedBases)
    <3>1. Placed(pro, 0 + 38, SharedBases)
      BY <1>10
    <3>. QED BY Zenon, <3>1, <1>7, <1>9
  <2>5. Placed(y, o + (0 + 43), SelectLeader)
    <3>1. Placed(pro, 0 + 43, SelectLeader)
      BY <1>10
    <3>. QED BY Zenon, <3>1, <1>7, <1>9
  <2>6. Placed(y, o + (0 + 46), PoolCheck)
    <3>1. Placed(pro, 0 + 46, PoolCheck)
      BY <1>10
    <3>. QED BY Zenon, <3>1, <1>7, <1>9
  <2>7. Placed(y, o + (0 + 50), Acquire)
    <3>1. Placed(pro, 0 + 50, Acquire)
      BY <1>10
    <3>. QED BY Zenon, <3>1, <1>7, <1>9
  <2>8. Placed(y, o + (0 + 51), NoThread)
    <3>1. Placed(pro, 0 + 51, NoThread)
      BY <1>10
    <3>. QED BY Zenon, <3>1, <1>7, <1>9
  <2>9. Placed(y, o + (0 + 52), StX(4, R(15)))
    <3>1. Placed(pro, 0 + 52, StX(4, R(15)))
      BY <1>10
    <3>. QED BY Zenon, <3>1, <1>7, <1>9
  <2>g. Placed(y, o + (0 + 53), SetGp(gp))
    <3>1. Placed(pro, 0 + 53, SetGp(gp))
      BY <1>10
    <3>. QED BY Zenon, <3>1, <1>7, <1>9
  <2>10. Placed(y, o + (g + 53), StackBase(2, R(10)))
    <3>1. Placed(pro, g + 53, StackBase(2, R(10)))
      BY <1>10
    <3>. QED BY Zenon, <3>1, <1>7, <1>9
  <2>11. Placed(y, o + (g + 56), StackBase(8, R(12)))
    <3>1. Placed(pro, g + 56, StackBase(8, R(12)))
      BY <1>10
    <3>. QED BY Zenon, <3>1, <1>7, <1>9
  <2>12. Placed(y, o + (g + 59), LoadKnl(R(17), 4))
    <3>1. Placed(pro, g + 59, LoadKnl(R(17), 4))
      BY <1>10
    <3>. QED BY Zenon, <3>1, <1>7, <1>9
  <2>13. Placed(y, o + (g + 75), StX(10, R(17)))
    <3>1. Placed(pro, g + 75, StX(10, R(17)))
      BY <1>10
    <3>. QED BY Zenon, <3>1, <1>7, <1>9
  <2>14. Placed(y, o + (g + 76), WarpSync)
    <3>1. Placed(pro, g + 76, WarpSync)
      BY <1>10
    <3>. QED BY Zenon, <3>1, <1>7, <1>9
  <2>. QED BY <2>1, <2>2, <2>3, <2>4, <2>5, <2>6, <2>7, <2>8, <2>9, <2>g, <2>10, <2>11, <2>12, <2>13, <2>14
<1>12. o + 0 = o /\ o + (0 + 6) = o + 6 /\ o + (0 + 22) = o + 22 /\ o + (0 + 38) = o + 38 /\ o + (0 + 43) = o + 43
         /\ o + (0 + 46) = o + 46 /\ o + (0 + 50) = o + 50
         /\ o + (0 + 51) = o + 51 /\ o + (0 + 52) = o + 52 /\ o + (0 + 53) = o + 53 /\ o + (g + 53) = u + 53
                  /\ o + (g + 56) = u + 56 /\ o + (g + 59) = u + 59 /\ o + (g + 75) = u + 75 /\ o + (g + 76) = u + 76
  BY <1>5, <1>g
<1>13. Pieces(y, o, u, gp)
  BY <1>11, <1>12 DEF Pieces
<1>l. Len(y) = u + 79
  BY <1>2, <1>4, <1>5, <1>g, <1>6, <1>8
<1>14. EntryCode(y, o + 1, u + 1, gp)
  <2>1. u \in Nat /\ u = o + Gp(gp)
    BY <1>5, <1>g DEF g
  <2>. QED BY <1>5, <1>8, <1>l, <1>13, <2>1, PiecesCode
<1>15. HeadLength = 22
  <2>. DEFINE s == LoadKnl(R(17), 56)
  <2>1. Len(s) = 16
    BY KnlLines
  <2>2. HeadLength = 6 + Len(s)
    BY DEF HeadLength
  <2>. HIDE DEF s
  <2>. QED BY <2>1, <2>2
<1>16. o + 1 = First
  BY DEF First, a
<1>17. u + 1 = (o + 1) + g
  BY <1>5, <1>g
<1>. QED BY Zenon, <1>3, <1>14, <1>15, <1>16, <1>17 DEF gp, g

----------------------------------------------------------------------------
(* Numbers of a register.                                                  *)
LEMMA SmallPowers == \A n \in 0 .. 32 : 2^n \in Nat \ { 0 }
<1>1. /\ 2^0 \in Nat \ { 0 } /\ 2^1 \in Nat \ { 0 } /\ 2^2 \in Nat \ { 0 } /\ 2^3 \in Nat \ { 0 }
      /\ 2^4 \in Nat \ { 0 } /\ 2^5 \in Nat \ { 0 } /\ 2^6 \in Nat \ { 0 } /\ 2^7 \in Nat \ { 0 }
      /\ 2^8 \in Nat \ { 0 } /\ 2^9 \in Nat \ { 0 } /\ 2^10 \in Nat \ { 0 } /\ 2^11 \in Nat \ { 0 }
      /\ 2^12 \in Nat \ { 0 } /\ 2^13 \in Nat \ { 0 } /\ 2^14 \in Nat \ { 0 } /\ 2^15 \in Nat \ { 0 }
      /\ 2^16 \in Nat \ { 0 } /\ 2^17 \in Nat \ { 0 } /\ 2^18 \in Nat \ { 0 } /\ 2^19 \in Nat \ { 0 }
      /\ 2^20 \in Nat \ { 0 } /\ 2^21 \in Nat \ { 0 } /\ 2^22 \in Nat \ { 0 } /\ 2^23 \in Nat \ { 0 }
      /\ 2^24 \in Nat \ { 0 } /\ 2^25 \in Nat \ { 0 } /\ 2^26 \in Nat \ { 0 } /\ 2^27 \in Nat \ { 0 }
      /\ 2^28 \in Nat \ { 0 } /\ 2^29 \in Nat \ { 0 } /\ 2^30 \in Nat \ { 0 } /\ 2^31 \in Nat \ { 0 }
      /\ 2^32 \in Nat \ { 0 }
  BY SMT
<1>2. \A n \in 0 .. 32 :
        \/ n = 0 \/ n = 1 \/ n = 2 \/ n = 3 \/ n = 4 \/ n = 5 \/ n = 6 \/ n = 7 \/ n = 8 \/ n = 9 \/ n = 10
        \/ n = 11 \/ n = 12 \/ n = 13 \/ n = 14 \/ n = 15 \/ n = 16 \/ n = 17 \/ n = 18 \/ n = 19 \/ n = 20
        \/ n = 21 \/ n = 22 \/ n = 23 \/ n = 24 \/ n = 25 \/ n = 26 \/ n = 27 \/ n = 28 \/ n = 29 \/ n = 30
        \/ n = 31 \/ n = 32
  BY SMT
<1>. QED BY Zenon, <1>1, <1>2

LEMMA ReadsNumber == \A a \in Nat : Read(<< >>, "global", a, "u32") \in Nat
<1>. SUFFICES ASSUME NEW a \in Nat PROVE Read(<< >>, "global", a, "u32") \in Nat
  OBVIOUS
<1>. DEFINE w == W \div 4
<1>1. w \in 2 .. 8 /\ w \in 0 .. 32 /\ 0 * w \in 0 .. 32 /\ 1 * w \in 0 .. 32 /\ 2 * w \in 0 .. 32 /\ 3 * w \in 0 .. 32
  BY WidthAssumption
<1>. HIDE DEF w
<1>2. /\ 2^w \in Nat \ { 0 } /\ 2^(0 * w) \in Nat /\ 2^(1 * w) \in Nat
      /\ 2^(2 * w) \in Nat /\ 2^(3 * w) \in Nat
  BY <1>1, SmallPowers
<1>3. Byte \in Nat \ { 0 }
  BY <1>2 DEF Byte, w
<1>4. ASSUME NEW i \in Nat PROVE ByteAt(<< >>, << "global", i >>) \in Nat
  <2>1. << "global", i >> \notin DOMAIN << >>
    OBVIOUS
  <2>. DEFINE n == i + 3 * (i \div 4) + 0
  <2>2. n \in Nat
    OBVIOUS
  <2>3. ByteAt(<< >>, << "global", i >>) = n % Byte
    BY <2>1 DEF ByteAt, Before
  <2>. HIDE DEF n
  <2>4. n % Byte \in Nat
    BY <1>3, <2>2
  <2>. QED BY <2>3, <2>4
<1>5. /\ a + 0 \in Nat /\ a + 1 \in Nat /\ a + 2 \in Nat /\ a + 3 \in Nat
  OBVIOUS
<1>. DEFINE byte(k) == ByteAt(<< >>, << "global", a + k >>)
<1>6. byte(0) \in Nat /\ byte(1) \in Nat /\ byte(2) \in Nat /\ byte(3) \in Nat
  BY <1>4, <1>5
<1>7. Bytes["u32"] = 4
  BY DEF Bytes
<1>8. Read(<< >>, "global", a, "u32") =
        byte(0) * 2^(0 * w) + byte(1) * 2^(1 * w) + byte(2) * 2^(2 * w) + byte(3) * 2^(3 * w)
  BY <1>7 DEF Read, w
<1>. DEFINE b0 == byte(0)
            b1 == byte(1)
            b2 == byte(2)
            b3 == byte(3)
            p0 == 2^(0 * w)
            p1 == 2^(1 * w)
            p2 == 2^(2 * w)
            p3 == 2^(3 * w)
<1>9. /\ b0 \in Nat /\ b1 \in Nat /\ b2 \in Nat /\ b3 \in Nat
      /\ p0 \in Nat /\ p1 \in Nat /\ p2 \in Nat /\ p3 \in Nat
  BY Zenon, <1>2, <1>6
<1>10. Read(<< >>, "global", a, "u32") = b0 * p0 + b1 * p1 + b2 * p2 + b3 * p3
  BY Zenon, <1>8
<1>. HIDE DEF b0, b1, b2, b3, p0, p1, p2, p3
<1>11. b0 * p0 \in Nat /\ b1 * p1 \in Nat /\ b2 * p2 \in Nat /\ b3 * p3 \in Nat
  BY <1>9
<1>. QED BY <1>10, <1>11

LEMMA ModSmall == \A m \in Nat \ { 0 } : \A v \in 0 .. m - 1 : v % m = v
<1>. SUFFICES ASSUME NEW m \in Nat \ { 0 }, NEW v \in 0 .. m - 1 PROVE v % m = v
  OBVIOUS
<1>1. v \in Nat /\ v < m
  OBVIOUS
<1>2. (0 * m + v) \div m = 0
  BY <1>1, QuotientIs
<1>3. 0 * m + v = v
  BY <1>1
<1>4. v = (v \div m) * m + (v % m) /\ v % m \in Nat
  BY <1>1, DivMod
<1>5. v \div m = 0
  BY <1>2, <1>3
<1>. QED BY <1>4, <1>5

LEMMA ModOver == \A m \in Nat \ { 0 } : \A v \in 0 .. m - 1 : (v + m) % m = v
<1>. SUFFICES ASSUME NEW m \in Nat \ { 0 }, NEW v \in 0 .. m - 1 PROVE (v + m) % m = v
  OBVIOUS
<1>1. v \in Nat /\ v < m /\ v + m \in Nat
  OBVIOUS
<1>2. (1 * m + v) \div m = 1
  BY <1>1, QuotientIs
<1>3. 1 * m + v = v + m
  BY <1>1
<1>4. v + m = ((v + m) \div m) * m + ((v + m) % m) /\ (v + m) % m \in Nat
  BY <1>1, DivMod
<1>5. (v + m) \div m = 1
  BY <1>2, <1>3
<1>. QED BY <1>4, <1>5

(* A sum that is cut twice is cut once.                                    *)
LEMMA ModSum == \A m \in Nat \ { 0 } : \A x, y \in Nat : ((x % m) + y) % m = (y + x) % m
<1>. SUFFICES ASSUME NEW m \in Nat \ { 0 }, NEW x \in Nat, NEW y \in Nat PROVE ((x % m) + y) % m = (y + x) % m
  OBVIOUS
<1>. DEFINE q == x \div m
            r == x % m
            n == r + y
            i == n \div m
            j == n % m
<1>1. q \in Nat /\ r \in Nat /\ r < m /\ x = q * m + r
  BY DivMod
<1>. HIDE DEF q, r
<1>2. n \in Nat
  BY <1>1
<1>3. i \in Nat /\ j \in Nat /\ j < m /\ n = i * m + j
  BY <1>2, DivMod
<1>n. n = r + y
  OBVIOUS
<1>. HIDE DEF n, i, j
<1>4. q * m \in Nat /\ i * m \in Nat /\ q + i \in Nat /\ (q + i) * m = q * m + i * m
  BY <1>1, <1>3
<1>5. y + x = (q + i) * m + j
  BY <1>1, <1>3, <1>4, <1>n
<1>6. ((q + i) * m + j) \div m = q + i
  BY <1>3, <1>4, QuotientIs
<1>. DEFINE z == y + x
<1>7. z \in Nat
  OBVIOUS
<1>8. z = (z \div m) * m + (z % m) /\ z % m \in Nat
  BY <1>7, DivMod
<1>9. z \div m = q + i
  BY <1>5, <1>6
<1>10. z % m = j
  BY <1>3, <1>4, <1>5, <1>8, <1>9
<1>. QED BY <1>10 DEF j, n, r

LEMMA Sizes ==
  /\ Top \in Nat \ { 0 } /\ Wide \in Nat \ { 0 } /\ GlobalBase \in Nat /\ SharedBase \in Nat /\ GlobalBase < Top
  /\ Device["knl_vaddr"] \in Nat /\ Device["global_base"] \in Nat /\ Device["knl_vaddr"] >= GlobalBase
  /\ Device["knl_vaddr"] + 64 <= Top /\ Device["global_base"] + Top <= Wide
  /\ Wrap(GlobalBase) = GlobalBase /\ Wrap(SharedBase) = SharedBase /\ Wrap(0) = 0
<1>1. Top \in Nat \ { 0 } /\ \A v \in 0 .. Top - 1 : Wrap(v) = v
  BY Wraps
<1>2. Top * Top \in Nat \ { 0 }
  BY <1>1
<1>3. GlobalBase \in Nat /\ SharedBase \in Nat /\ GlobalBase < Top /\ SharedBase < GlobalBase
  BY WindowsAssumption
<1>4. GlobalBase \in 0 .. Top - 1 /\ SharedBase \in 0 .. Top - 1 /\ 0 \in 0 .. Top - 1
  BY <1>1, <1>3
<1>5. /\ Device["knl_vaddr"] \in Nat /\ Device["global_base"] \in Nat /\ Device["knl_vaddr"] >= GlobalBase
      /\ Device["knl_vaddr"] + 64 <= Top /\ Device["global_base"] + Top <= Wide
  BY LaunchesAssumption
<1>. QED BY <1>1, <1>2, <1>3, <1>4, <1>5 DEF Wide

LEMMA MinusWraps == \A v \in Nat : v \in GlobalBase .. Top - 1 => Wrap(v + Wrap(-GlobalBase)) = v - GlobalBase
<1>. SUFFICES ASSUME NEW v \in Nat, v \in GlobalBase .. Top - 1 PROVE Wrap(v + Wrap(-GlobalBase)) = v - GlobalBase
  OBVIOUS
<1>. DEFINE t == Top
            g == GlobalBase
            x == (-g) % t
            q == (v + x) % t
<1>1. t \in Nat \ { 0 } /\ g \in Nat /\ g < t /\ 0 < g /\ v >= g /\ v < t
  <2>1. 0 < GlobalBase
    BY WindowsAssumption
  <2>. QED BY <2>1, Sizes
<1>. HIDE DEF t, g
<1>2. x = t - g
  <2>. DEFINE e == -g
  <2>0. e \in Int /\ e = -g
    BY <1>1
  <2>. HIDE DEF e
  <2>1. e % t \in 0 .. t - 1 /\ e = t * (e \div t) + (e % t) /\ e \div t \in Int
    BY SMT, <1>1, <2>0
  <2>. DEFINE d == e \div t
  <2>2. x \in 0 .. t - 1 /\ -g = t * d + x /\ d \in Int
    BY <2>0, <2>1 DEF e
  <2>. HIDE DEF d, x
  <2>3. d = -1
    <3>1. ~(d >= 0)
      <4>. SUFFICES ASSUME d >= 0 PROVE FALSE
        OBVIOUS
      <4>1. t * d >= 0
        BY <1>1, <2>2
      <4>. QED BY <1>1, <2>2, <4>1
    <3>2. ~(d <= -2)
      <4>. SUFFICES ASSUME d <= -2 PROVE FALSE
        OBVIOUS
      <4>. DEFINE k == -2 - d
      <4>1. k \in Nat /\ d = -2 - k
        BY <2>2
      <4>. HIDE DEF k
      <4>2. t * k \in Nat
        BY <1>1, <4>1
      <4>3. t * d = -(2 * t) - t * k
        BY <1>1, <4>1
      <4>. QED BY <1>1, <2>2, <4>2, <4>3
    <3>. QED BY <2>2, <3>1, <3>2
  <2>. QED BY <1>1, <2>2, <2>3
<1>. HIDE DEF x
<1>3. v - g \in 0 .. t - 1 /\ (v - g) + t = v + x
  BY <1>1, <1>2
<1>4. ((v - g) + t) % t = v - g
  BY <1>1, <1>3, ModOver
<1>5. (v + x) % t = v - g
  BY <1>3, <1>4
<1>. QED BY <1>5 DEF x, t, g, Wrap

(* Predicates: numbers below 2.                                            *)
LEMMA PredicateBits ==
  \A x, y \in { 0, 1 } : BitAnd(x, y) = (IF x = 1 /\ y = 1 THEN 1 ELSE 0) /\ BitOr(x, y) = (IF x = 1 \/ y = 1 THEN 1 ELSE 0)
<1>. SUFFICES ASSUME NEW x \in { 0, 1 }, NEW y \in { 0, 1 }
              PROVE  /\ BitAnd(x, y) = (IF x = 1 /\ y = 1 THEN 1 ELSE 0)
                     /\ BitOr(x, y) = (IF x = 1 \/ y = 1 THEN 1 ELSE 0)
  OBVIOUS
<1>0. /\ x % 2 = x /\ y % 2 = y /\ x \div 2 = 0 /\ y \div 2 = 0 /\ x \div 4 = 0 /\ y \div 4 = 0
      /\ x \div 8 = 0 /\ y \div 8 = 0 /\ 0 % 2 = 0 /\ 0 \div 2 = 0 /\ 0 \div 4 = 0 /\ 0 \div 8 = 0
  BY SMT
<1>1. AndOf4(x, y) = x * y /\ AndOf4(0, 0) = 0
  <2>1. /\ AndOf4(x, y) = x * y + 2 * 0 * 0 + 4 * 0 * 0 + 8 * 0 * 0
        /\ AndOf4(0, 0) = 0 * 0 + 2 * 0 * 0 + 4 * 0 * 0 + 8 * 0 * 0
    BY Zenon, <1>0 DEF AndOf4
  <2>. DEFINE z == x * y
  <2>2. z \in Int
    OBVIOUS
  <2>. HIDE DEF z
  <2>3. z + 2 * 0 * 0 + 4 * 0 * 0 + 8 * 0 * 0 = z /\ 0 * 0 + 2 * 0 * 0 + 4 * 0 * 0 + 8 * 0 * 0 = 0
    BY SMT, <2>2
  <2>. QED BY Zenon, <2>1, <2>3 DEF z
<1>2. AndAt(x, y, 1) = x * y
  <2>1. (x \div 1) % 16 = x /\ (y \div 1) % 16 = y
    BY SMT
  <2>2. AndAt(x, y, 1) = 1 * AndOf4(x, y)
    BY Zenon, <2>1 DEF AndAt
  <2>. QED BY <1>1, <2>2
<1>3. ASSUME NEW p \in Nat, p > 1 PROVE AndAt(x, y, p) = 0
  <2>1. (x \div p) % 16 = 0 /\ (y \div p) % 16 = 0
    <3>1. \A z \in { 0, 1 } : z \div p = 0
      <4>1. ASSUME NEW z \in { 0, 1 } PROVE z \div p = 0
        <5>1. z \in Nat /\ z < p /\ 0 * p + z = z /\ p \in Nat \ { 0 }
          BY <1>3
        <5>2. (0 * p + z) \div p = 0
          BY <5>1, QuotientIs
        <5>. QED BY <5>1, <5>2
      <4>. QED BY <4>1
    <3>2. 0 % 16 = 0
      OBVIOUS
    <3>. QED BY <3>1, <3>2
  <2>2. AndAt(x, y, p) = p * AndOf4(0, 0)
    BY Zenon, <2>1 DEF AndAt
  <2>. QED BY <1>1, <1>3, <2>2
<1>4. /\ 2^4 \in Nat /\ 2^4 > 1 /\ 2^8 \in Nat /\ 2^8 > 1 /\ 2^12 \in Nat /\ 2^12 > 1 /\ 2^16 \in Nat /\ 2^16 > 1
      /\ 2^20 \in Nat /\ 2^20 > 1 /\ 2^24 \in Nat /\ 2^24 > 1 /\ 2^28 \in Nat /\ 2^28 > 1
  BY SMT
<1>5. /\ AndAt(x, y, 2^4) = 0 /\ AndAt(x, y, 2^8) = 0 /\ AndAt(x, y, 2^12) = 0 /\ AndAt(x, y, 2^16) = 0
      /\ AndAt(x, y, 2^20) = 0 /\ AndAt(x, y, 2^24) = 0 /\ AndAt(x, y, 2^28) = 0
  BY Zenon, <1>3, <1>4
<1>6. BitAnd(x, y) = x * y + 0 + 0 + 0 + (IF W <= 16 THEN 0 ELSE 0 + 0 + 0 + 0)
  BY Zenon, <1>2, <1>5 DEF BitAnd
<1>7. BitAnd(x, y) = x * y
  <2>1. (IF W <= 16 THEN 0 ELSE 0 + 0 + 0 + 0) = 0
    OBVIOUS
  <2>. QED BY <1>6, <2>1
<1>8. BitOr(x, y) = x + y - x * y
  BY <1>7 DEF BitOr
<1>. QED BY <1>7, <1>8

LEMMA PairValues ==
  /\ \A x, y : Apply2("setp.ge.u32", "", x, y) = Bool(x >= y)
  /\ \A x, y : Apply2("setp.lt.u32", "", x, y) = Bool(x < y)
  /\ \A x, y : Apply2("setp.ne.u32", "", x, y) = Bool(x # y)
  /\ \A x, y : Apply2("add.u32", "", x, y) = Wrap(x + y)
  /\ \A x, y : Apply2("add.u64", "", x, y) = (x + y) % Wide
  /\ \A x, y : Apply2("mul.lo.u32", "", x, y) = Wrap(x * y)
  /\ \A x, y : Apply2("and.pred", "", x, y) = BitAnd(x, y)
  /\ \A x, y : Apply2("or.pred", "", x, y) = BitOr(x, y)
<1>1. /\ \A x, y : Apply2("setp.ge.u32", "", x, y) = Bool(x >= y)
      /\ \A x, y : Apply2("setp.lt.u32", "", x, y) = Bool(x < y)
      /\ \A x, y : Apply2("setp.ne.u32", "", x, y) = Bool(x # y)
  BY DEF Apply2, Comparisons, Compare
<1>2. /\ \A x, y : Apply2("add.u32", "", x, y) = Wrap(x + y)
      /\ \A x, y : Apply2("add.u64", "", x, y) = (x + y) % Wide
      /\ \A x, y : Apply2("mul.lo.u32", "", x, y) = Wrap(x * y)
  BY DEF Apply2, Comparisons
<1>3. /\ \A x, y : Apply2("and.pred", "", x, y) = BitAnd(x, y)
      /\ \A x, y : Apply2("or.pred", "", x, y) = BitOr(x, y)
  BY DEF Apply2, Comparisons
<1>. QED BY <1>1, <1>2, <1>3

----------------------------------------------------------------------------
(* What a step of the entry does to the registers of a lane.               *)
LEMMA HeldBy ==
  ASSUME NEW l
  PROVE  \A a, v : a \in DOMAIN regs[l] /\ regs[l][a] = v /\ a[1] \notin { "imm", "special" } => Reg(l, a) = v
BY DEF Reg

LEMMA RegFiles ==
  \A i : /\ R(i)[1] \notin { "imm", "special" } /\ RD(i)[1] \notin { "imm", "special" }
         /\ P(i)[1] \notin { "imm", "special" }
BY DEF R, RD, P

LEMMA PairSets ==
  ASSUME Running, Next, NEW l \in active
  PROVE  \A op, d, s, u : op \in PairOps /\ Line = L(op, d, << s, u >>) /\ Reg(l, s) \in Nat /\ Reg(l, u) \in Nat =>
           Sets(l, d, Apply2(op, "", Reg(l, s), Reg(l, u)))
<1>1. \A op, d, s, u :
        op \in PairOps /\ Line = L(op, d, << s, u >>) /\ Reg(l, s) \in Nat /\ Reg(l, u) \in Nat =>
          d \in DOMAIN regs'[l] /\ regs'[l][d] = Apply2(op, "", Reg(l, s), Reg(l, u))
  BY OpWrites
<1>. QED BY Zenon, <1>1 DEF Sets

LEMMA MoveSets ==
  ASSUME Running, Next, NEW l \in active
  PROVE  \A op, d, s : op \in MoveOps /\ Line = L(op, d, << s >>) /\ Reg(l, s) \in Nat => Sets(l, d, Reg(l, s))
<1>1. \A op, d, s : op \in MoveOps /\ Line = L(op, d, << s >>) /\ Reg(l, s) \in Nat =>
        d \in DOMAIN regs'[l] /\ regs'[l][d] = Reg(l, s)
  BY MovWrites
<1>. QED BY Zenon, <1>1 DEF Sets

(* Only the pool of private memory writes more than the destination.       *)
LEMMA RegStays ==
  ASSUME Running, Next, NEW l \in active, Line.op # "pds.acquire"
  PROVE  \A a, v : a # Line.d /\ a \in DOMAIN regs[l] /\ regs[l][a] = v => Sets(l, a, v)
<1>. SUFFICES ASSUME NEW a, a # Line.d, a \in DOMAIN regs[l] PROVE Sets(l, a, regs[l][a])
  OBVIOUS
<1>0. l \in LaneIds
  BY DEF Running, GridE
<1>1. Line.op \notin { "bra", "goto", "call", "ret" } /\ ~Over
  BY RunningPlace DEF Running
<1>2. ~Branch /\ ~LeaveBlock /\ ~CallLine /\ ~Return /\ ~Done /\ ~AcquirePool
  BY <1>1 DEF Branch, LeaveBlock, CallLine, Return, Done, AcquirePool, At
<1>3. ASSUME regs' = regs PROVE Sets(l, a, regs[l][a])
  BY <1>3 DEF Sets
<1>4. ASSUME NEW val, Computed(val) PROVE Sets(l, a, regs[l][a])
  <2>1. Write(val)
    BY <1>4 DEF Computed
  <2>2. regs'[l] = IF l \in DOMAIN val THEN Updated(regs[l], [c \in { Line.d } |-> val[l]]) ELSE regs[l]
    BY <1>0, <2>1 DEF Write
  <2>. QED BY <2>2 DEF Updated, Sets
<1>5. CASE Compute
  <2>. DEFINE val == [k \in Doing |-> Apply(Line.op, Line.rm, Sources(k))]
  <2>1. Computed(val)
    BY <1>5 DEF Compute
  <2>. HIDE DEF val
  <2>. QED BY <2>1, <1>4
<1>6. CASE Vote
  <2>. DEFINE val == [k \in Doing |-> MapThenSumSet(LAMBDA i : 2^i, Group)]
  <2>1. Computed(val)
    BY <1>6 DEF Vote
  <2>. HIDE DEF val
  <2>. QED BY <2>1, <1>4
<1>7. CASE Shuffle
  <2>. DEFINE val == [k \in Doing |-> IF Reg(k, Line.s[2]) \in Doing THEN Reg(Reg(k, Line.s[2]), Line.s[1]) ELSE Undef]
  <2>1. Computed(val)
    BY <1>7 DEF Shuffle
  <2>. HIDE DEF val
  <2>. QED BY <2>1, <1>4
<1>8. CASE LoadLine
  <2>. DEFINE val == [k \in Doing |-> Read(mem, AccessIn(Loading)[2], Sources(k)[1], AccessIn(Loading)[3])]
  <2>1. Computed(val)
    BY <1>8 DEF LoadLine
  <2>. HIDE DEF val
  <2>. QED BY <2>1, <1>4
<1>9. CASE PoolBase
  <2>. DEFINE val == [k \in Doing |-> Device["wg_base"]]
  <2>1. Computed(val)
    BY <1>9 DEF PoolBase
  <2>. HIDE DEF val
  <2>. QED BY <2>1, <1>4
<1>10. CASE Pass \/ StoreLine \/ Stop
  <2>1. regs' = regs
    BY <1>10 DEF Pass, StoreLine, Stop, NothingBut
  <2>. QED BY <1>3, <2>1
<1>. QED BY <1>2, <1>5, <1>6, <1>7, <1>8, <1>9, <1>10 DEF Next

LEMMA FactStays ==
  ASSUME Running, Next, NEW l \in active
  PROVE  \A m, n, a, v :
           m \in Nat /\ n \in Nat /\ Has(l, m, n, a, v)
               /\ (now \in m .. n - 1 => Line.d # a /\ (Line.op # "pds.acquire" \/ a \notin AcquireScratch))
               /\ (now + 1 = m => Sets(l, a, v)) =>
             (now + 1 \in m .. n => Sets(l, a, v))
<1>1. ASSUME NEW m, NEW n, NEW a, NEW v,
             m \in Nat, n \in Nat, Has(l, m, n, a, v),
             now \in m .. n - 1 => Line.d # a /\ (Line.op # "pds.acquire" \/ a \notin AcquireScratch),
             now + 1 = m => Sets(l, a, v),
             now + 1 \in m .. n
      PROVE  Sets(l, a, v)
  <2>1. now \in Nat
    BY RunningPlace
  <2>2. CASE now + 1 # m
    <3>1. now \in m .. n /\ now \in m .. n - 1
      BY <1>1, <2>1, <2>2
    <3>2. a \in DOMAIN regs[l] /\ regs[l][a] = v
      BY <1>1, <3>1 DEF Has
    <3>3. a # Line.d /\ (Line.op # "pds.acquire" \/ a \notin AcquireScratch)
      BY <1>1, <3>1
    <3>4. CASE Line.op # "pds.acquire"
      BY <3>2, <3>3, <3>4, RegStays
    <3>5. CASE a \notin AcquireScratch
      <4>1. Leaves(l)
        BY RunningStep
      <4>. QED BY <3>2, <3>3, <3>5, <4>1 DEF Leaves, Sets
    <3>. QED BY <3>3, <3>4, <3>5
  <2>. QED BY <1>1, <2>2
<1>. QED BY Zenon, <1>1

(* The load that a predicate of the address lets through.                  *)
LEMMA LoadSets ==
  ASSUME Running, Next, NEW l \in active, NEW d, NEW s, NEW x,
         Line = If(4, L("ld.global.u32", d, << s >>)), Reg(l, P(4)) = 1, Reg(l, s) = x
  PROVE  Sets(l, d, Read(mem, "global", x, "u32"))
<1>1. Line.op = "ld.global.u32" /\ Line.d = d /\ Line.s = << s >> /\ Line.g[1] = 4 /\ Line.g[2] = TRUE
  BY DEF If, L
<1>2. 4 # None /\ Bool(TRUE) = 1
  BY DEF None, Bool
<1>3. l \in Doing /\ l \in LaneIds
  BY <1>1, <1>2 DEF Doing, Group, Running, InStep, GridE
<1>. DEFINE op == "ld.global.u32"
<1>a. << op, "global", "u32" >> \in Loading
  BY DEF Loading, Accesses, Bytes, LdOp
<1>b. op \in LoadOps
  <2>1. << op, "global", "u32" >>[1] = op
    OBVIOUS
  <2>. QED BY <1>a, <2>1 DEF LoadOps
<1>c. op \notin StoreOps
  BY DEF StoreOps, Storing, Accesses, Bytes, StOp
<1>4. op \in LoadOps /\ op \notin StoreOps /\ op \notin { "activemask", "shfl.idx", "bar.warp.sync", "bar.sync", "label",
         "bra", "goto", "trap", "unsupported", "call", "ret", "ld.wg_base", "pds.acquire" }
  BY <1>b, <1>c
<1>5. LoadLine
  BY <1>1, <1>4 DEF Next, Compute, Vote, Shuffle, Pass, StoreLine, PoolBase, AcquirePool, Branch, LeaveBlock, Stop,
                    CallLine, Return, Done, At, NotComputed, Running
<1>6. AccessIn(Loading) = << op, "global", "u32" >>
  <2>1. \A a \in Loading : a[1] = op => a = << op, "global", "u32" >>
    BY DEF Loading, Accesses, Bytes, LdOp
  <2>2. << op, "global", "u32" >> \in Loading
    BY <1>a
  <2>3. << op, "global", "u32" >>[1] = op
    OBVIOUS
  <2>. QED BY <1>1, <2>1, <2>2, <2>3 DEF AccessIn
<1>. DEFINE val == [k \in Doing |-> Read(mem, AccessIn(Loading)[2], Sources(k)[1], AccessIn(Loading)[3])]
<1>7. Write(val)
  BY <1>5 DEF LoadLine, Computed
<1>8. Sources(l)[1] = x
  BY <1>1 DEF Sources
<1>9. val[l] = Read(mem, "global", x, "u32") /\ l \in DOMAIN val
  <2>1. AccessIn(Loading)[2] = "global" /\ AccessIn(Loading)[3] = "u32"
    BY <1>6
  <2>. QED BY <1>3, <1>8, <2>1
<1>. HIDE DEF val
<1>10. regs'[l] = Updated(regs[l], [a \in { d } |-> val[l]])
  BY <1>1, <1>3, <1>7, <1>9 DEF Write
<1>. QED BY <1>9, <1>10 DEF Updated, Sets

(* Nothing but a store changes memory, and nothing but a trap that a lane  *)
(* does stops the launch.                                                  *)
LEMMA MemoryStays == ASSUME Running, Next, Line.op \notin StoreOps PROVE mem' = mem
<1>1. ~StoreLine
  BY DEF StoreLine, At
<1>. QED BY <1>1 DEF Next, Compute, Vote, Shuffle, Pass, LoadLine, PoolBase, AcquirePool, Branch, LeaveBlock, Stop,
         CallLine, Return, Done, Computed, NothingBut, vars

LEMMA NoFault ==
  ASSUME Running, Next, Line.op \notin { "trap", "unsupported", "pds.acquire" } \/ Doing = {}
  PROVE  fault' = fault
<1>1. CASE Stop
  <2>1. Doing = {}
    BY <1>1 DEF Stop, At
  <2>. QED BY <1>1, <2>1 DEF Stop
<1>2. CASE AcquirePool
  <2>1. Doing = {}
    BY <1>2 DEF AcquirePool, At
  <2>. QED BY <1>2, <2>1 DEF AcquirePool
<1>3. CASE ~Stop /\ ~AcquirePool
  BY <1>3 DEF Next, Compute, Vote, Shuffle, Pass, LoadLine, StoreLine, PoolBase, Branch, LeaveBlock,
         CallLine, Return, Done, Computed, NothingBut, vars
<1>. QED BY <1>1, <1>2, <1>3

LEMMA Trapped == ASSUME Running, Next, Line.op = "trap", Doing # {} PROVE fault' = "trap"
<1>1. "trap" \notin LoadOps /\ "trap" \notin StoreOps
  BY DEF LoadOps, StoreOps, Loading, Storing, Accesses, Bytes, LdOp, StOp
<1>2. Stop
  BY <1>1 DEF Next, Compute, Vote, Shuffle, Pass, LoadLine, StoreLine, PoolBase, AcquirePool, Branch, LeaveBlock,
              CallLine, Return, Done, At, NotComputed, Running
<1>. QED BY <1>2 DEF Stop

(* The trap of an address that is in a window, and that of the pool.       *)
LEMMA AddressPasses ==
  ASSUME Running, Next, Line = Unless(5, L("trap", NoReg, << >>)), \A l \in active : Reg(l, P(5)) = 1
  PROVE  fault' = fault
<1>1. Line.g[1] = 5 /\ Line.g[2] = FALSE
  BY DEF Unless, L
<1>2. 5 # None /\ Bool(FALSE) = 0
  BY DEF None, Bool
<1>3. Doing = {}
  <2>. SUFFICES ASSUME NEW l \in Doing PROVE FALSE
    OBVIOUS
  <2>1. l \in active /\ (Line.g[1] = None \/ Reg(l, P(Line.g[1])) = Bool(Line.g[2]))
    BY DEF Doing, Group
  <2>2. Reg(l, P(5)) = 1 /\ Reg(l, P(5)) = 0
    BY Zenon, <1>1, <1>2, <2>1
  <2>. QED BY <2>2
<1>. QED BY <1>3, NoFault

LEMMA PoolStops ==
  ASSUME Running, Next, Line = If(1, L("trap", NoReg, << >>)), NEW bad \in BOOLEAN,
         \A l \in active : Reg(l, P(1)) = Bool(bad)
  PROVE  fault' = IF bad THEN "trap" ELSE fault
<1>1. Line.op = "trap" /\ Line.g[1] = 1 /\ Line.g[2] = TRUE
  BY DEF If, L
<1>2. 1 # None /\ Bool(TRUE) = 1 /\ Bool(FALSE) = 0
  BY DEF None, Bool
<1>3. CASE bad
  <2>1. PICK l \in active : pc[l] = now
    BY DEF Running, InStep
  <2>2. l \in Doing
    BY <1>1, <1>2, <1>3, <2>1 DEF Doing, Group
  <2>. QED BY <1>1, <1>3, <2>2, Trapped
<1>4. CASE ~bad
  <2>1. ASSUME NEW l \in Doing PROVE FALSE
    <3>1. l \in active /\ (Line.g[1] = None \/ Reg(l, P(Line.g[1])) = Bool(Line.g[2]))
      BY DEF Doing, Group
    <3>2. bad = FALSE
      BY <1>4
    <3>3. Reg(l, P(1)) = 1 /\ Reg(l, P(1)) = 0
      BY Zenon, <1>1, <1>2, <3>1, <3>2
    <3>. QED BY <3>3
  <2>2. Doing = {}
    BY <2>1
  <2>. QED BY <1>4, <2>2, NoFault
<1>. QED BY <1>3, <1>4

(* The pool, asked by all lanes: thread 0 alone finds that it is empty or  *)
(* that its bitmap is too low.                                             *)
LEMMA PoolAnswers ==
  ASSUME Running, Next, Line = L("pds.acquire", NoReg, << R(9), R(29), R(27), R(26) >>), 0 \in active,
         \A l \in active : /\ Reg(l, R(9)) = Linear(l) /\ Reg(l, R(29)) = Launch.pdsSize
                           /\ Reg(l, R(27)) = Launch.pdsBlocks /\ Reg(l, R(26)) = Launch.pdsBitmap
  PROVE  fault' = IF NoBlock /\ Warp = 0 THEN "trap" ELSE fault
<1>1. Line.op = "pds.acquire" /\ Line.g[1] = None /\ Line.s = << R(9), R(29), R(27), R(26) >>
  BY DEF L, Always
<1>2. AcquirePool
  <2>1. "pds.acquire" \notin LoadOps /\ "pds.acquire" \notin StoreOps
    BY DEF LoadOps, StoreOps, Loading, Storing, Accesses, Bytes, LdOp, StOp
  <2>. QED BY <1>1, <2>1 DEF Next, Compute, Vote, Shuffle, Pass, LoadLine, StoreLine, PoolBase, Stop, Branch, LeaveBlock,
                CallLine, Return, Done, At, NotComputed, Running
<1>3. Doing = active
  BY <1>1 DEF Doing, Group, Running, InStep
<1>4. ASSUME NEW l \in active PROVE NoPool(l) <=> Linear(l) = 0 /\ NoBlock
  <2>1. /\ Sources(l)[1] = Reg(l, R(9)) /\ Sources(l)[2] = Reg(l, R(29))
        /\ Sources(l)[3] = Reg(l, R(27)) /\ Sources(l)[4] = Reg(l, R(26))
    BY <1>1 DEF Sources
  <2>2. /\ Sources(l)[1] = Linear(l) /\ Sources(l)[2] = Launch.pdsSize
        /\ Sources(l)[3] = Launch.pdsBlocks /\ Sources(l)[4] = Launch.pdsBitmap
    BY <2>1
  <2>. QED BY <2>2 DEF NoPool, NoBlock, Asked
<1>5. ASSUME NEW l \in active PROVE Linear(l) = 0 <=> Warp = 0 /\ l = 0
  <2>. DEFINE p == 2^LogWarp
              x == Warp * p
  <2>1. p \in Nat \ { 0 } /\ Warp \in Nat
    BY LaunchesAssumption DEF Running, GridE
  <2>2. l \in Nat
    BY <2>1 DEF Running, GridE, LaneIds
  <2>3. Linear(l) = x + l
    BY DEF Linear
  <2>. HIDE DEF p
  <2>4. x \in Nat /\ (x = 0 <=> Warp = 0)
    <3>1. x \in Nat
      BY <2>1
    <3>2. Warp = 0 => x = 0
      BY <2>1
    <3>3. Warp # 0 => x # 0
      <4>. SUFFICES ASSUME Warp # 0 PROVE x # 0
        OBVIOUS
      <4>. DEFINE m == Warp - 1
      <4>1. m \in Nat /\ Warp = m + 1
        BY <2>1
      <4>. HIDE DEF m
      <4>2. m * p \in Nat /\ (m + 1) * p = m * p + p
        BY <2>1, <4>1
      <4>. QED BY <2>1, <4>1, <4>2
    <3>. QED BY <3>1, <3>2, <3>3
  <2>. HIDE DEF x
  <2>. QED BY <2>2, <2>3, <2>4
<1>6. (\E l \in active : NoPool(l)) <=> NoBlock /\ Warp = 0
  <2>1. ASSUME NEW l \in active, NoPool(l) PROVE NoBlock /\ Warp = 0
    BY <1>4, <1>5, <2>1
  <2>2. NoBlock /\ Warp = 0 => NoPool(0)
    BY <1>4, <1>5
  <2>. QED BY <2>1, <2>2
<1>. QED BY <1>2, <1>3, <1>6 DEF AcquirePool

----------------------------------------------------------------------------
(* A word of the metadata, loaded for the whole warp.                      *)
WordOf(n) == Read(<< >>, "global", Device["global_base"] + ((Device["knl_vaddr"] + n) - GlobalBase), "u32")

LEMMA WordLoaded ==
  ASSUME NEW n \in { 4, 56 }
  PROVE  LoadAs(<< >>, "w", Device["knl_vaddr"] + n) = WordOf(n) /\ WordOf(n) \in Nat
<1>. DEFINE gb == Device["global_base"]
            a == Device["knl_vaddr"] + n
            h == gb + (a - GlobalBase)
<1>1. gb \in Nat /\ a \in Nat /\ ~(a < GlobalBase) /\ gb + a - GlobalBase = h /\ h \in Nat
  BY Sizes
<1>2. Size("w") = "u32"
  BY DEF Size
<1>3. \A v : Extended("w", v) = v
  BY DEF Extended
<1>4. Host(a)[1] = "global" /\ Host(a)[2] = h
  BY <1>1 DEF Host
<1>5. LoadAs(<< >>, "w", a) = Read(<< >>, "global", h, "u32")
  BY <1>2, <1>3, <1>4 DEF LoadAs
<1>6. Read(<< >>, "global", h, "u32") \in Nat
  BY <1>1, ReadsNumber
<1>7. WordOf(n) = Read(<< >>, "global", h, "u32")
  BY Zenon DEF WordOf
<1>. QED BY Zenon, <1>5, <1>6, <1>7

(* What a lane has while the word at n is loaded, from line q on.          *)
KnlHas(l, q, n) ==
  LET a == Device["knl_vaddr"] + n
  IN  /\ Has(l, q + 1, q + 1, R(16), a)
      /\ Has(l, q + 2, q + 11, R(31), a)
      /\ Has(l, q + 3, q + 4, P(1), 1)
      /\ Has(l, q + 4, q + 4, P(2), 0)
      /\ Has(l, q + 5, q + 6, P(3), 0)
      /\ Has(l, q + 6, q + 15, P(4), 1)
      /\ Has(l, q + 7, q + 7, P(5), 1)
      /\ Has(l, q + 12, q + 12, R(16), a - GlobalBase)
      /\ Has(l, q + 13, q + 13, RD(16), a - GlobalBase)
      /\ Has(l, q + 14, q + 15, RD(16), Device["global_base"] + (a - GlobalBase))

(* The numbers of the address.                                             *)
LEMMA KnlNumbers ==
  ASSUME NEW n \in { 4, 56 }, NEW a, a = Device["knl_vaddr"] + n
  PROVE  /\ a \in Nat /\ a \in GlobalBase .. Top - 1 /\ Wrap(n) = n /\ Wrap(a) = a
         /\ a - GlobalBase \in Nat /\ a >= SharedBase /\ a >= GlobalBase /\ ~(a < GlobalBase)
         /\ Wrap(a + Wrap(-GlobalBase)) = a - GlobalBase
         /\ (Device["global_base"] + (a - GlobalBase)) % Wide = Device["global_base"] + (a - GlobalBase)
         /\ Device["global_base"] + (a - GlobalBase) \in Nat
         /\ Wrap(-GlobalBase) \in Nat
<1>1. /\ a \in Nat /\ a \in GlobalBase .. Top - 1 /\ n \in 0 .. Top - 1 /\ a \in 0 .. Top - 1 /\ a >= GlobalBase
      /\ a - GlobalBase \in Nat /\ a - GlobalBase < Top
  BY Sizes
<1>2. SharedBase < GlobalBase /\ SharedBase \in Nat /\ GlobalBase \in Nat
  BY WindowsAssumption, Sizes
<1>3. Wrap(n) = n /\ Wrap(a) = a
  BY <1>1, Wraps
<1>4. Wrap(a + Wrap(-GlobalBase)) = a - GlobalBase
  BY <1>1, MinusWraps
<1>. DEFINE h == Device["global_base"] + (a - GlobalBase)
<1>5. h \in 0 .. Wide - 1 /\ Wide \in Nat \ { 0 } /\ h \in Nat
  BY <1>1, Sizes
<1>6. h % Wide = h
  <2>. HIDE DEF h
  <2>. QED BY <1>5, ModSmall
<1>7. Wrap(-GlobalBase) \in Nat
  <2>. DEFINE i == -GlobalBase
  <2>1. i \in Int
    BY <1>2
  <2>2. Top \in Nat \ { 0 }
    BY Sizes
  <2>. HIDE DEF i
  <2>3. i % Top \in Nat
    BY <2>1, <2>2
  <2>. QED BY <2>3 DEF Wrap, i
<1>. QED BY <1>1, <1>2, <1>3, <1>4, <1>5, <1>6, <1>7

LEMMA WindowBits ==
  /\ Apply2("and.pred", "", 1, 0) = 0 /\ Apply2("or.pred", "", 0, 1) = 1
<1>1. \A x, y : Apply2("and.pred", "", x, y) = BitAnd(x, y)
  BY PairValues
<1>2. \A x, y : Apply2("or.pred", "", x, y) = BitOr(x, y)
  BY PairValues
<1>3. BitAnd(1, 0) = 0 /\ BitOr(0, 1) = 1
  BY PredicateBits
<1>4. Apply2("and.pred", "", 1, 0) = BitAnd(1, 0)
  BY Zenon, <1>1
<1>5. Apply2("or.pred", "", 0, 1) = BitOr(0, 1)
  BY Zenon, <1>2
<1>. QED BY <1>3, <1>4, <1>5

LEMMA LineFields ==
  \A op, d, s, i : /\ L(op, d, s).op = op /\ L(op, d, s).d = d
                   /\ If(i, L(op, d, s)).op = op /\ If(i, L(op, d, s)).d = d
                   /\ Unless(i, L(op, d, s)).op = op /\ Unless(i, L(op, d, s)).d = d
BY DEF L, If, Unless

(* Which lines leave the registers of the address alone.                   *)
LEMMA KnlFree ==
  ASSUME NEW c, NEW q \in Nat, NEW n, KnlLaid(c, q, n)
  PROVE  /\ \A k \in q .. q + 15 : c[k].op # "pds.acquire"
         /\ \A k \in q + 2 .. q + 10 : c[k].d # R(31)
         /\ \A k \in q + 6 .. q + 14 : c[k].d # P(4)
         /\ c[q + 3].d # P(1) /\ c[q + 5].d # P(3) /\ c[q + 14].d # RD(16)

<1>1. /\ c[q].op = "add.u32" /\ c[q].d = R(16)
      /\ c[q + 1].op = "mov.u32" /\ c[q + 1].d = R(31)
      /\ c[q + 2].op = "setp.ge.u32" /\ c[q + 2].d = P(1)
      /\ c[q + 3].op = "setp.lt.u32" /\ c[q + 3].d = P(2)
      /\ c[q + 4].op = "and.pred" /\ c[q + 4].d = P(3)
      /\ c[q + 5].op = "setp.ge.u32" /\ c[q + 5].d = P(4)
      /\ c[q + 6].op = "or.pred" /\ c[q + 6].d = P(5)
      /\ c[q + 7].op = "trap" /\ c[q + 7].d = NoReg
      /\ c[q + 8].op = "add.u32" /\ c[q + 8].d = R(16)
      /\ c[q + 9].op = "cvt.u64.u32" /\ c[q + 9].d = RD(16)
      /\ c[q + 10].op = "add.u64" /\ c[q + 10].d = RD(17)
      /\ c[q + 11].op = "add.u32" /\ c[q + 11].d = R(16)
      /\ c[q + 12].op = "cvt.u64.u32" /\ c[q + 12].d = RD(16)
      /\ c[q + 13].op = "add.u64" /\ c[q + 13].d = RD(16)
      /\ c[q + 14].op = "ld.shared.u32" /\ c[q + 14].d = R(17)
      /\ c[q + 15].op = "ld.global.u32" /\ c[q + 15].d = R(17)
  <2>1. c[q].op = "add.u32" /\ c[q].d = R(16)
    <3>1. c[q] = L("add.u32", R(16), << R(30), Imm(n) >>)
      BY Zenon DEF KnlLaid
    <3>. QED BY <3>1, LineFields
  <2>2. c[q + 1].op = "mov.u32" /\ c[q + 1].d = R(31)
    <3>1. c[q + 1] = L("mov.u32", R(31), << R(16) >>)
      BY Zenon DEF KnlLaid
    <3>. QED BY <3>1, LineFields
  <2>3. c[q + 2].op = "setp.ge.u32" /\ c[q + 2].d = P(1)
    <3>1. c[q + 2] = L("setp.ge.u32", P(1), << R(31), Imm(SharedBase) >>)
      BY Zenon DEF KnlLaid
    <3>. QED BY <3>1, LineFields
  <2>4. c[q + 3].op = "setp.lt.u32" /\ c[q + 3].d = P(2)
    <3>1. c[q + 3] = L("setp.lt.u32", P(2), << R(31), Imm(GlobalBase) >>)
      BY Zenon DEF KnlLaid
    <3>. QED BY <3>1, LineFields
  <2>5. c[q + 4].op = "and.pred" /\ c[q + 4].d = P(3)
    <3>1. c[q + 4] = L("and.pred", P(3), << P(1), P(2) >>)
      BY Zenon DEF KnlLaid
    <3>. QED BY <3>1, LineFields
  <2>6. c[q + 5].op = "setp.ge.u32" /\ c[q + 5].d = P(4)
    <3>1. c[q + 5] = L("setp.ge.u32", P(4), << R(31), Imm(GlobalBase) >>)
      BY Zenon DEF KnlLaid
    <3>. QED BY <3>1, LineFields
  <2>7. c[q + 6].op = "or.pred" /\ c[q + 6].d = P(5)
    <3>1. c[q + 6] = L("or.pred", P(5), << P(3), P(4) >>)
      BY Zenon DEF KnlLaid
    <3>. QED BY <3>1, LineFields
  <2>8. c[q + 7].op = "trap" /\ c[q + 7].d = NoReg
    <3>1. c[q + 7] = Unless(5, L("trap", NoReg, << >>))
      BY Zenon DEF KnlLaid
    <3>. QED BY <3>1, LineFields
  <2>9. c[q + 8].op = "add.u32" /\ c[q + 8].d = R(16)
    <3>1. c[q + 8] = L("add.u32", R(16), << R(31), Imm(-SharedBase) >>)
      BY Zenon DEF KnlLaid
    <3>. QED BY <3>1, LineFields
  <2>10. c[q + 9].op = "cvt.u64.u32" /\ c[q + 9].d = RD(16)
    <3>1. c[q + 9] = L("cvt.u64.u32", RD(16), << R(16) >>)
      BY Zenon DEF KnlLaid
    <3>. QED BY <3>1, LineFields
  <2>11. c[q + 10].op = "add.u64" /\ c[q + 10].d = RD(17)
    <3>1. c[q + 10] = L("add.u64", RD(17), << RD(2), RD(16) >>)
      BY Zenon DEF KnlLaid
    <3>. QED BY <3>1, LineFields
  <2>12. c[q + 11].op = "add.u32" /\ c[q + 11].d = R(16)
    <3>1. c[q + 11] = L("add.u32", R(16), << R(31), Imm(-GlobalBase) >>)
      BY Zenon DEF KnlLaid
    <3>. QED BY <3>1, LineFields
  <2>13. c[q + 12].op = "cvt.u64.u32" /\ c[q + 12].d = RD(16)
    <3>1. c[q + 12] = L("cvt.u64.u32", RD(16), << R(16) >>)
      BY Zenon DEF KnlLaid
    <3>. QED BY <3>1, LineFields
  <2>14. c[q + 13].op = "add.u64" /\ c[q + 13].d = RD(16)
    <3>1. c[q + 13] = L("add.u64", RD(16), << RD(0), RD(16) >>)
      BY Zenon DEF KnlLaid
    <3>. QED BY <3>1, LineFields
  <2>15. c[q + 14].op = "ld.shared.u32" /\ c[q + 14].d = R(17)
    <3>1. c[q + 14] = If(3, L("ld.shared.u32", R(17), << RD(17) >>))
      BY Zenon DEF KnlLaid
    <3>. QED BY <3>1, LineFields
  <2>16. c[q + 15].op = "ld.global.u32" /\ c[q + 15].d = R(17)
    <3>1. c[q + 15] = If(4, L("ld.global.u32", R(17), << RD(16) >>))
      BY Zenon DEF KnlLaid
    <3>. QED BY <3>1, LineFields
  <2>. QED BY <2>1, <2>2, <2>3, <2>4, <2>5, <2>6, <2>7, <2>8, <2>9, <2>10, <2>11, <2>12, <2>13, <2>14, <2>15, <2>16
<1>2. /\ R(31) \notin { P(1), P(2), P(3), P(4), P(5), NoReg, R(16), R(17), RD(16), RD(17) }
      /\ P(4) \notin { P(5), NoReg, R(16), R(17), RD(16), RD(17) }
      /\ P(2) # P(1) /\ P(4) # P(3) /\ R(17) # RD(16)
  BY DEF R, P, RD, NoReg
<1>3. \A k \in q .. q + 15 : k = q \/ k = q + 1 \/ k = q + 2 \/ k = q + 3 \/ k = q + 4 \/ k = q + 5 \/
        k = q + 6 \/ k = q + 7 \/ k = q + 8 \/ k = q + 9 \/ k = q + 10 \/
        k = q + 11 \/ k = q + 12 \/ k = q + 13 \/ k = q + 14 \/ k = q + 15
  OBVIOUS
<1>4. \A k \in q + 2 .. q + 10 : k = q + 2 \/ k = q + 3 \/ k = q + 4 \/ k = q + 5 \/ k = q + 6 \/
        k = q + 7 \/ k = q + 8 \/ k = q + 9 \/ k = q + 10
  OBVIOUS
<1>5. \A k \in q + 6 .. q + 14 : k = q + 6 \/ k = q + 7 \/ k = q + 8 \/ k = q + 9 \/ k = q + 10 \/
        k = q + 11 \/ k = q + 12 \/ k = q + 13 \/ k = q + 14
  OBVIOUS
<1>6. \A k \in q .. q + 15 : c[k].op # "pds.acquire"
  BY <1>1, <1>3
<1>7. \A k \in q + 2 .. q + 10 : c[k].d # R(31)
  BY <1>1, <1>2, <1>4
<1>8. \A k \in q + 6 .. q + 14 : c[k].d # P(4)
  BY <1>1, <1>2, <1>5
<1>9. c[q + 3].d # P(1) /\ c[q + 5].d # P(3) /\ c[q + 14].d # RD(16)
  BY <1>1, <1>2
<1>. QED BY <1>6, <1>7, <1>8, <1>9

LEMMA KnlWrites ==
  ASSUME Running, Next, NEW l \in active, NEW q \in Nat, NEW n \in { 4, 56 }, KnlLaid(code, q, n), KnlHas(l, q, n),
         NEW a, a = Device["knl_vaddr"] + n, mem = << >>,
         now = q => Reg(l, R(30)) = Device["knl_vaddr"],
         now = q + 13 => Reg(l, RD(0)) = Device["global_base"]
  PROVE  /\ now = q => Sets(l, R(16), a)
         /\ now = q + 1 => Sets(l, R(31), a)
         /\ now = q + 2 => Sets(l, P(1), 1)
         /\ now = q + 3 => Sets(l, P(2), 0)
         /\ now = q + 4 => Sets(l, P(3), 0)
         /\ now = q + 5 => Sets(l, P(4), 1)
         /\ now = q + 6 => Sets(l, P(5), 1)
         /\ now = q + 11 => Sets(l, R(16), a - GlobalBase)
         /\ now = q + 12 => Sets(l, RD(16), a - GlobalBase)
         /\ now = q + 13 => Sets(l, RD(16), Device["global_base"] + (a - GlobalBase))
         /\ now = q + 15 => Sets(l, R(17), WordOf(n))
<1>. DEFINE gb == Device["global_base"]
            v == a - GlobalBase
            h == gb + v
<1>1. Line = code[now] /\ now \in Nat
  BY RunningPlace DEF Line
<1>2. /\ a \in Nat /\ v \in Nat /\ h \in Nat /\ gb \in Nat /\ Device["knl_vaddr"] \in Nat
      /\ SharedBase \in Nat /\ GlobalBase \in Nat /\ Wrap(-GlobalBase) \in Nat /\ n \in Nat
  <2>1. a \in Nat /\ v \in Nat /\ h \in Nat /\ Wrap(-GlobalBase) \in Nat
    BY KnlNumbers
  <2>2. gb \in Nat /\ Device["knl_vaddr"] \in Nat /\ SharedBase \in Nat /\ GlobalBase \in Nat
    BY Sizes
  <2>. QED BY <2>1, <2>2
<1>3. /\ Wrap(Device["knl_vaddr"] + n) = a /\ Wrap(n) = n
      /\ a >= SharedBase /\ a >= GlobalBase /\ ~(a < GlobalBase)
      /\ Wrap(a + Wrap(-GlobalBase)) = v /\ (gb + v) % Wide = h
  BY KnlNumbers
<1>4. Wrap(SharedBase) = SharedBase /\ Wrap(GlobalBase) = GlobalBase
  BY Sizes
<1>5. \A i : Reg(l, Imm(i)) = Wrap(i)
  BY RegOf
<1>6. \A i : /\ R(i) \in DOMAIN regs[l] => Reg(l, R(i)) = regs[l][R(i)]
             /\ RD(i) \in DOMAIN regs[l] => Reg(l, RD(i)) = regs[l][RD(i)]
             /\ P(i) \in DOMAIN regs[l] => Reg(l, P(i)) = regs[l][P(i)]
  BY Zenon, HeldBy, RegFiles
<1>7. Bool(TRUE) = 1 /\ Bool(FALSE) = 0 /\ BitAnd(1, 0) = 0 /\ BitOr(0, 1) = 1
  <2>1. BitAnd(1, 0) = 0 /\ BitOr(0, 1) = 1
    BY PredicateBits
  <2>. QED BY <2>1 DEF Bool
<1>8. /\ Bool(a >= SharedBase) = 1 /\ Bool(a >= GlobalBase) = 1 /\ Bool(a < GlobalBase) = 0
  <2>1. (a >= SharedBase) = TRUE /\ (a >= GlobalBase) = TRUE /\ (a < GlobalBase) = FALSE
    BY <1>3
  <2>. QED BY <2>1, <1>7 DEF Bool

<1>9. /\ Has(l, q + 1, q + 1, R(16), a)
      /\ Has(l, q + 2, q + 11, R(31), a)
      /\ Has(l, q + 3, q + 4, P(1), 1)
      /\ Has(l, q + 4, q + 4, P(2), 0)
      /\ Has(l, q + 5, q + 6, P(3), 0)
      /\ Has(l, q + 6, q + 15, P(4), 1)
      /\ Has(l, q + 7, q + 7, P(5), 1)
      /\ Has(l, q + 12, q + 12, R(16), v)
      /\ Has(l, q + 13, q + 13, RD(16), v)
      /\ Has(l, q + 14, q + 15, RD(16), h)
  BY DEF KnlHas
<1>k. Line = code[now]
  BY <1>1
<1>. HIDE DEF gb, v, h
<1>c. /\ code[q] = L("add.u32", R(16), << R(30), Imm(n) >>)
      /\ code[q + 1] = L("mov.u32", R(31), << R(16) >>)
      /\ code[q + 2] = L("setp.ge.u32", P(1), << R(31), Imm(SharedBase) >>)
      /\ code[q + 3] = L("setp.lt.u32", P(2), << R(31), Imm(GlobalBase) >>)
      /\ code[q + 4] = L("and.pred", P(3), << P(1), P(2) >>)
      /\ code[q + 5] = L("setp.ge.u32", P(4), << R(31), Imm(GlobalBase) >>)
      /\ code[q + 6] = L("or.pred", P(5), << P(3), P(4) >>)
      /\ code[q + 11] = L("add.u32", R(16), << R(31), Imm(-GlobalBase) >>)
      /\ code[q + 12] = L("cvt.u64.u32", RD(16), << R(16) >>)
      /\ code[q + 13] = L("add.u64", RD(16), << RD(0), RD(16) >>)
      /\ code[q + 15] = If(4, L("ld.global.u32", R(17), << RD(16) >>))
  BY DEF KnlLaid
<1>m. "mov.u32" \in MoveOps /\ "cvt.u64.u32" \in MoveOps /\ "add.u32" \in PairOps /\ "add.u64" \in PairOps
        /\ "setp.ge.u32" \in PairOps /\ "setp.lt.u32" \in PairOps /\ "and.pred" \in PairOps /\ "or.pred" \in PairOps
  BY DEF MoveOps, PairOps
<1>z. 0 \in Nat /\ 1 \in Nat
  OBVIOUS

<1>10. ASSUME now = q PROVE Sets(l, R(16), a)
  <2>1. Line = L("add.u32", R(16), << R(30), Imm(n) >>)
    BY <1>k, <1>c, <1>10
  <2>2. Reg(l, R(30)) = Device["knl_vaddr"]
    BY <1>10
  <2>3. Reg(l, Imm(n)) = n
    BY <1>3, <1>4, <1>5
  <2>4. Apply2("add.u32", "", Device["knl_vaddr"], n) = a
    <3>1. \A x, y : Apply2("add.u32", "", x, y) = Wrap(x + y)
      BY PairValues
    <3>. QED BY <1>3, <3>1
  <2>5. "add.u32" \in PairOps /\ Reg(l, R(30)) \in Nat /\ Reg(l, Imm(n)) \in Nat
    BY <1>2, <1>m, <2>2, <2>3
  <2>6. Sets(l, R(16), Apply2("add.u32", "", Reg(l, R(30)), Reg(l, Imm(n))))
    BY <2>1, <2>5, PairSets
  <2>. QED BY <2>2, <2>3, <2>4, <2>6
<1>11. ASSUME now = q + 1 PROVE Sets(l, R(31), a)
  <2>1. Line = L("mov.u32", R(31), << R(16) >>)
    BY <1>k, <1>c, <1>11
  <2>2. Reg(l, R(16)) = a
    <3>1. now \in q + 1 .. q + 1
      BY <1>11
    <3>2. R(16) \in DOMAIN regs[l] /\ regs[l][R(16)] = a
      BY <1>9, <3>1 DEF Has
    <3>. QED BY <1>6, <3>2
  <2>3. "mov.u32" \in MoveOps /\ Reg(l, R(16)) \in Nat
    BY <1>2, <1>m, <2>2
  <2>4. Sets(l, R(31), Reg(l, R(16)))
    BY <2>1, <2>3, MoveSets
  <2>. QED BY <2>2, <2>4
<1>12. ASSUME now = q + 2 PROVE Sets(l, P(1), 1)
  <2>1. Line = L("setp.ge.u32", P(1), << R(31), Imm(SharedBase) >>)
    BY <1>k, <1>c, <1>12
  <2>2. Reg(l, R(31)) = a
    <3>1. now \in q + 2 .. q + 11
      BY <1>12
    <3>2. R(31) \in DOMAIN regs[l] /\ regs[l][R(31)] = a
      BY <1>9, <3>1 DEF Has
    <3>. QED BY <1>6, <3>2
  <2>3. Reg(l, Imm(SharedBase)) = SharedBase
    BY <1>3, <1>4, <1>5
  <2>4. Apply2("setp.ge.u32", "", a, SharedBase) = 1
    <3>1. \A x, y : Apply2("setp.ge.u32", "", x, y) = Bool(x >= y)
      BY PairValues
    <3>. QED BY <1>8, <3>1
  <2>5. "setp.ge.u32" \in PairOps /\ Reg(l, R(31)) \in Nat /\ Reg(l, Imm(SharedBase)) \in Nat
    BY <1>2, <1>m, <2>2, <2>3
  <2>6. Sets(l, P(1), Apply2("setp.ge.u32", "", Reg(l, R(31)), Reg(l, Imm(SharedBase))))
    BY <2>1, <2>5, PairSets
  <2>. QED BY <2>2, <2>3, <2>4, <2>6
<1>13. ASSUME now = q + 3 PROVE Sets(l, P(2), 0)
  <2>1. Line = L("setp.lt.u32", P(2), << R(31), Imm(GlobalBase) >>)
    BY <1>k, <1>c, <1>13
  <2>2. Reg(l, R(31)) = a
    <3>1. now \in q + 2 .. q + 11
      BY <1>13
    <3>2. R(31) \in DOMAIN regs[l] /\ regs[l][R(31)] = a
      BY <1>9, <3>1 DEF Has
    <3>. QED BY <1>6, <3>2
  <2>3. Reg(l, Imm(GlobalBase)) = GlobalBase
    BY <1>3, <1>4, <1>5
  <2>4. Apply2("setp.lt.u32", "", a, GlobalBase) = 0
    <3>1. \A x, y : Apply2("setp.lt.u32", "", x, y) = Bool(x < y)
      BY PairValues
    <3>. QED BY <1>8, <3>1
  <2>5. "setp.lt.u32" \in PairOps /\ Reg(l, R(31)) \in Nat /\ Reg(l, Imm(GlobalBase)) \in Nat
    BY <1>2, <1>m, <2>2, <2>3
  <2>6. Sets(l, P(2), Apply2("setp.lt.u32", "", Reg(l, R(31)), Reg(l, Imm(GlobalBase))))
    BY <2>1, <2>5, PairSets
  <2>. QED BY <2>2, <2>3, <2>4, <2>6
<1>14. ASSUME now = q + 4 PROVE Sets(l, P(3), 0)
  <2>1. Line = L("and.pred", P(3), << P(1), P(2) >>)
    BY <1>k, <1>c, <1>14
  <2>2. Reg(l, P(1)) = 1
    <3>1. now \in q + 3 .. q + 4
      BY <1>14
    <3>2. P(1) \in DOMAIN regs[l] /\ regs[l][P(1)] = 1
      BY <1>9, <3>1 DEF Has
    <3>. QED BY <1>6, <3>2
  <2>3. Reg(l, P(2)) = 0
    <3>1. now \in q + 4 .. q + 4
      BY <1>14
    <3>2. P(2) \in DOMAIN regs[l] /\ regs[l][P(2)] = 0
      BY <1>9, <3>1 DEF Has
    <3>. QED BY <1>6, <3>2
  <2>4. Apply2("and.pred", "", 1, 0) = 0
    BY WindowBits
  <2>5. "and.pred" \in PairOps /\ Reg(l, P(1)) \in Nat /\ Reg(l, P(2)) \in Nat
    BY <1>2, <1>m, <2>2, <2>3
  <2>6. Sets(l, P(3), Apply2("and.pred", "", Reg(l, P(1)), Reg(l, P(2))))
    BY <2>1, <2>5, PairSets
  <2>. QED BY <2>2, <2>3, <2>4, <2>6
<1>15. ASSUME now = q + 5 PROVE Sets(l, P(4), 1)
  <2>1. Line = L("setp.ge.u32", P(4), << R(31), Imm(GlobalBase) >>)
    BY <1>k, <1>c, <1>15
  <2>2. Reg(l, R(31)) = a
    <3>1. now \in q + 2 .. q + 11
      BY <1>15
    <3>2. R(31) \in DOMAIN regs[l] /\ regs[l][R(31)] = a
      BY <1>9, <3>1 DEF Has
    <3>. QED BY <1>6, <3>2
  <2>3. Reg(l, Imm(GlobalBase)) = GlobalBase
    BY <1>3, <1>4, <1>5
  <2>4. Apply2("setp.ge.u32", "", a, GlobalBase) = 1
    <3>1. \A x, y : Apply2("setp.ge.u32", "", x, y) = Bool(x >= y)
      BY PairValues
    <3>. QED BY <1>8, <3>1
  <2>5. "setp.ge.u32" \in PairOps /\ Reg(l, R(31)) \in Nat /\ Reg(l, Imm(GlobalBase)) \in Nat
    BY <1>2, <1>m, <2>2, <2>3
  <2>6. Sets(l, P(4), Apply2("setp.ge.u32", "", Reg(l, R(31)), Reg(l, Imm(GlobalBase))))
    BY <2>1, <2>5, PairSets
  <2>. QED BY <2>2, <2>3, <2>4, <2>6
<1>16. ASSUME now = q + 6 PROVE Sets(l, P(5), 1)
  <2>1. Line = L("or.pred", P(5), << P(3), P(4) >>)
    BY <1>k, <1>c, <1>16
  <2>2. Reg(l, P(3)) = 0
    <3>1. now \in q + 5 .. q + 6
      BY <1>16
    <3>2. P(3) \in DOMAIN regs[l] /\ regs[l][P(3)] = 0
      BY <1>9, <3>1 DEF Has
    <3>. QED BY <1>6, <3>2
  <2>3. Reg(l, P(4)) = 1
    <3>1. now \in q + 6 .. q + 15
      BY <1>16
    <3>2. P(4) \in DOMAIN regs[l] /\ regs[l][P(4)] = 1
      BY <1>9, <3>1 DEF Has
    <3>. QED BY <1>6, <3>2
  <2>4. Apply2("or.pred", "", 0, 1) = 1
    BY WindowBits
  <2>5. "or.pred" \in PairOps /\ Reg(l, P(3)) \in Nat /\ Reg(l, P(4)) \in Nat
    BY <1>2, <1>m, <2>2, <2>3
  <2>6. Sets(l, P(5), Apply2("or.pred", "", Reg(l, P(3)), Reg(l, P(4))))
    BY <2>1, <2>5, PairSets
  <2>. QED BY <2>2, <2>3, <2>4, <2>6
<1>17. ASSUME now = q + 11 PROVE Sets(l, R(16), v)
  <2>1. Line = L("add.u32", R(16), << R(31), Imm(-GlobalBase) >>)
    BY <1>k, <1>c, <1>17
  <2>2. Reg(l, R(31)) = a
    <3>1. now \in q + 2 .. q + 11
      BY <1>17
    <3>2. R(31) \in DOMAIN regs[l] /\ regs[l][R(31)] = a
      BY <1>9, <3>1 DEF Has
    <3>. QED BY <1>6, <3>2
  <2>3. Reg(l, Imm(-GlobalBase)) = Wrap(-GlobalBase)
    BY <1>3, <1>4, <1>5
  <2>4. Apply2("add.u32", "", a, Wrap(-GlobalBase)) = v
    <3>1. \A x, y : Apply2("add.u32", "", x, y) = Wrap(x + y)
      BY PairValues
    <3>. QED BY <1>3, <3>1
  <2>5. "add.u32" \in PairOps /\ Reg(l, R(31)) \in Nat /\ Reg(l, Imm(-GlobalBase)) \in Nat
    BY <1>2, <1>m, <2>2, <2>3
  <2>6. Sets(l, R(16), Apply2("add.u32", "", Reg(l, R(31)), Reg(l, Imm(-GlobalBase))))
    BY <2>1, <2>5, PairSets
  <2>. QED BY <2>2, <2>3, <2>4, <2>6
<1>18. ASSUME now = q + 12 PROVE Sets(l, RD(16), v)
  <2>1. Line = L("cvt.u64.u32", RD(16), << R(16) >>)
    BY <1>k, <1>c, <1>18
  <2>2. Reg(l, R(16)) = v
    <3>1. now \in q + 12 .. q + 12
      BY <1>18
    <3>2. R(16) \in DOMAIN regs[l] /\ regs[l][R(16)] = v
      BY <1>9, <3>1 DEF Has
    <3>. QED BY <1>6, <3>2
  <2>3. "cvt.u64.u32" \in MoveOps /\ Reg(l, R(16)) \in Nat
    BY <1>2, <1>m, <2>2
  <2>4. Sets(l, RD(16), Reg(l, R(16)))
    BY <2>1, <2>3, MoveSets
  <2>. QED BY <2>2, <2>4
<1>19. ASSUME now = q + 13 PROVE Sets(l, RD(16), h)
  <2>1. Line = L("add.u64", RD(16), << RD(0), RD(16) >>)
    BY <1>k, <1>c, <1>19
  <2>2. Reg(l, RD(0)) = gb
    BY <1>19 DEF gb
  <2>3. Reg(l, RD(16)) = v
    <3>1. now \in q + 13 .. q + 13
      BY <1>19
    <3>2. RD(16) \in DOMAIN regs[l] /\ regs[l][RD(16)] = v
      BY <1>9, <3>1 DEF Has
    <3>. QED BY <1>6, <3>2
  <2>4. Apply2("add.u64", "", gb, v) = h
    <3>1. \A x, y : Apply2("add.u64", "", x, y) = (x + y) % Wide
      BY PairValues
    <3>. QED BY <1>3, <3>1 DEF gb, h
  <2>5. "add.u64" \in PairOps /\ Reg(l, RD(0)) \in Nat /\ Reg(l, RD(16)) \in Nat
    BY <1>2, <1>m, <2>2, <2>3
  <2>6. Sets(l, RD(16), Apply2("add.u64", "", Reg(l, RD(0)), Reg(l, RD(16))))
    BY <2>1, <2>5, PairSets
  <2>. QED BY <2>2, <2>3, <2>4, <2>6
<1>20. ASSUME now = q + 15 PROVE Sets(l, R(17), WordOf(n))
  <2>1. Line = If(4, L("ld.global.u32", R(17), << RD(16) >>))
    BY <1>k, <1>c, <1>20
  <2>2. now \in q + 6 .. q + 15 /\ now \in q + 14 .. q + 15
    BY <1>20
  <2>3. Reg(l, P(4)) = 1 /\ Reg(l, RD(16)) = h
    BY <1>6, <1>9, <2>2 DEF Has
  <2>4. Sets(l, R(17), Read(mem, "global", h, "u32"))
    BY <2>1, <2>3, LoadSets
  <2>. QED BY <2>4 DEF WordOf, h, v, gb
<1>. QED BY <1>10, <1>11, <1>12, <1>13, <1>14, <1>15, <1>16, <1>17, <1>18, <1>19, <1>20 DEF gb, v, h

LEMMA KnlKept ==
  ASSUME Running, Next, NEW l \in active, NEW q \in Nat, NEW n \in { 4, 56 }, KnlLaid(code, q, n), KnlHas(l, q, n),
         mem = << >>,
         now = q => Reg(l, R(30)) = Device["knl_vaddr"],
         now = q + 13 => Reg(l, RD(0)) = Device["global_base"]
  PROVE  KnlHas(l, q, n)' /\ (now = q + 15 => Sets(l, R(17), WordOf(n)))
<1>. DEFINE a == Device["knl_vaddr"] + n
            v == a - GlobalBase
            h == Device["global_base"] + v
<1>1. /\ Has(l, q + 1, q + 1, R(16), a)
      /\ Has(l, q + 2, q + 11, R(31), a)
      /\ Has(l, q + 3, q + 4, P(1), 1)
      /\ Has(l, q + 4, q + 4, P(2), 0)
      /\ Has(l, q + 5, q + 6, P(3), 0)
      /\ Has(l, q + 6, q + 15, P(4), 1)
      /\ Has(l, q + 7, q + 7, P(5), 1)
      /\ Has(l, q + 12, q + 12, R(16), v)
      /\ Has(l, q + 13, q + 13, RD(16), v)
      /\ Has(l, q + 14, q + 15, RD(16), h)
  BY DEF KnlHas
<1>2. /\ now = q => Sets(l, R(16), a)
      /\ now = q + 1 => Sets(l, R(31), a)
      /\ now = q + 2 => Sets(l, P(1), 1)
      /\ now = q + 3 => Sets(l, P(2), 0)
      /\ now = q + 4 => Sets(l, P(3), 0)
      /\ now = q + 5 => Sets(l, P(4), 1)
      /\ now = q + 6 => Sets(l, P(5), 1)
      /\ now = q + 11 => Sets(l, R(16), v)
      /\ now = q + 12 => Sets(l, RD(16), v)
      /\ now = q + 13 => Sets(l, RD(16), h)
      /\ now = q + 15 => Sets(l, R(17), WordOf(n))
  BY KnlWrites
<1>. HIDE DEF a, v, h
<1>3. now \in Nat /\ Line = code[now] /\ now' = now + 1
  BY RunningPlace, LanesInStep DEF Line
<1>4. /\ \A k \in q .. q + 15 : code[k].op # "pds.acquire"
      /\ \A k \in q + 2 .. q + 10 : code[k].d # R(31)
      /\ \A k \in q + 6 .. q + 14 : code[k].d # P(4)
      /\ code[q + 3].d # P(1) /\ code[q + 5].d # P(3) /\ code[q + 14].d # RD(16)
  BY KnlFree
<1>5. now + 1 \in q + 1 .. q + 1 => Sets(l, R(16), a)
  <2>1. q + 1 \in Nat /\ q + 1 \in Nat /\ Has(l, q + 1, q + 1, R(16), a)
    BY <1>1
  <2>2. now + 1 = q + 1 => Sets(l, R(16), a)
    BY <1>2, <1>3
  <2>3. now \in q + 1 .. q + 1 - 1 => Line.d # R(16) /\ (Line.op # "pds.acquire" \/ R(16) \notin AcquireScratch)
    OBVIOUS
  <2>. QED BY <2>1, <2>2, <2>3, FactStays
<1>6. now + 1 \in q + 2 .. q + 11 => Sets(l, R(31), a)
  <2>1. q + 2 \in Nat /\ q + 11 \in Nat /\ Has(l, q + 2, q + 11, R(31), a)
    BY <1>1
  <2>2. now + 1 = q + 2 => Sets(l, R(31), a)
    BY <1>2, <1>3
  <2>3. now \in q + 2 .. q + 11 - 1 => Line.d # R(31) /\ (Line.op # "pds.acquire" \/ R(31) \notin AcquireScratch)
    <3>1. now \in q + 2 .. q + 11 - 1 => now \in q + 2 .. q + 10 /\ now \in q .. q + 15
      BY <1>3
    <3>. QED BY <1>3, <1>4, <3>1
  <2>. QED BY <2>1, <2>2, <2>3, FactStays
<1>7. now + 1 \in q + 3 .. q + 4 => Sets(l, P(1), 1)
  <2>1. q + 3 \in Nat /\ q + 4 \in Nat /\ Has(l, q + 3, q + 4, P(1), 1)
    BY <1>1
  <2>2. now + 1 = q + 3 => Sets(l, P(1), 1)
    BY <1>2, <1>3
  <2>3. now \in q + 3 .. q + 4 - 1 => Line.d # P(1) /\ (Line.op # "pds.acquire" \/ P(1) \notin AcquireScratch)
    <3>1. now \in q + 3 .. q + 4 - 1 => now = q + 3 /\ now \in q .. q + 15
      BY <1>3
    <3>. QED BY <1>3, <1>4, <3>1
  <2>. QED BY <2>1, <2>2, <2>3, FactStays
<1>8. now + 1 \in q + 4 .. q + 4 => Sets(l, P(2), 0)
  <2>1. q + 4 \in Nat /\ q + 4 \in Nat /\ Has(l, q + 4, q + 4, P(2), 0)
    BY <1>1
  <2>2. now + 1 = q + 4 => Sets(l, P(2), 0)
    BY <1>2, <1>3
  <2>3. now \in q + 4 .. q + 4 - 1 => Line.d # P(2) /\ (Line.op # "pds.acquire" \/ P(2) \notin AcquireScratch)
    OBVIOUS
  <2>. QED BY <2>1, <2>2, <2>3, FactStays
<1>9. now + 1 \in q + 5 .. q + 6 => Sets(l, P(3), 0)
  <2>1. q + 5 \in Nat /\ q + 6 \in Nat /\ Has(l, q + 5, q + 6, P(3), 0)
    BY <1>1
  <2>2. now + 1 = q + 5 => Sets(l, P(3), 0)
    BY <1>2, <1>3
  <2>3. now \in q + 5 .. q + 6 - 1 => Line.d # P(3) /\ (Line.op # "pds.acquire" \/ P(3) \notin AcquireScratch)
    <3>1. now \in q + 5 .. q + 6 - 1 => now = q + 5 /\ now \in q .. q + 15
      BY <1>3
    <3>. QED BY <1>3, <1>4, <3>1
  <2>. QED BY <2>1, <2>2, <2>3, FactStays
<1>10. now + 1 \in q + 6 .. q + 15 => Sets(l, P(4), 1)
  <2>1. q + 6 \in Nat /\ q + 15 \in Nat /\ Has(l, q + 6, q + 15, P(4), 1)
    BY <1>1
  <2>2. now + 1 = q + 6 => Sets(l, P(4), 1)
    BY <1>2, <1>3
  <2>3. now \in q + 6 .. q + 15 - 1 => Line.d # P(4) /\ (Line.op # "pds.acquire" \/ P(4) \notin AcquireScratch)
    <3>1. now \in q + 6 .. q + 15 - 1 => now \in q + 6 .. q + 14 /\ now \in q .. q + 15
      BY <1>3
    <3>. QED BY <1>3, <1>4, <3>1
  <2>. QED BY <2>1, <2>2, <2>3, FactStays
<1>11. now + 1 \in q + 7 .. q + 7 => Sets(l, P(5), 1)
  <2>1. q + 7 \in Nat /\ q + 7 \in Nat /\ Has(l, q + 7, q + 7, P(5), 1)
    BY <1>1
  <2>2. now + 1 = q + 7 => Sets(l, P(5), 1)
    BY <1>2, <1>3
  <2>3. now \in q + 7 .. q + 7 - 1 => Line.d # P(5) /\ (Line.op # "pds.acquire" \/ P(5) \notin AcquireScratch)
    OBVIOUS
  <2>. QED BY <2>1, <2>2, <2>3, FactStays
<1>12. now + 1 \in q + 12 .. q + 12 => Sets(l, R(16), v)
  <2>1. q + 12 \in Nat /\ q + 12 \in Nat /\ Has(l, q + 12, q + 12, R(16), v)
    BY <1>1
  <2>2. now + 1 = q + 12 => Sets(l, R(16), v)
    BY <1>2, <1>3
  <2>3. now \in q + 12 .. q + 12 - 1 => Line.d # R(16) /\ (Line.op # "pds.acquire" \/ R(16) \notin AcquireScratch)
    OBVIOUS
  <2>. QED BY <2>1, <2>2, <2>3, FactStays
<1>13. now + 1 \in q + 13 .. q + 13 => Sets(l, RD(16), v)
  <2>1. q + 13 \in Nat /\ q + 13 \in Nat /\ Has(l, q + 13, q + 13, RD(16), v)
    BY <1>1
  <2>2. now + 1 = q + 13 => Sets(l, RD(16), v)
    BY <1>2, <1>3
  <2>3. now \in q + 13 .. q + 13 - 1 => Line.d # RD(16) /\ (Line.op # "pds.acquire" \/ RD(16) \notin AcquireScratch)
    OBVIOUS
  <2>. QED BY <2>1, <2>2, <2>3, FactStays
<1>14. now + 1 \in q + 14 .. q + 15 => Sets(l, RD(16), h)
  <2>1. q + 14 \in Nat /\ q + 15 \in Nat /\ Has(l, q + 14, q + 15, RD(16), h)
    BY <1>1
  <2>2. now + 1 = q + 14 => Sets(l, RD(16), h)
    BY <1>2, <1>3
  <2>3. now \in q + 14 .. q + 15 - 1 => Line.d # RD(16) /\ (Line.op # "pds.acquire" \/ RD(16) \notin AcquireScratch)
    <3>1. now \in q + 14 .. q + 15 - 1 => now = q + 14 /\ now \in q .. q + 15
      BY <1>3
    <3>. QED BY <1>3, <1>4, <3>1
  <2>. QED BY <2>1, <2>2, <2>3, FactStays
<1>15. /\ now' \in q + 1 .. q + 1 => R(16) \in DOMAIN regs'[l] /\ regs'[l][R(16)] = a
       /\ now' \in q + 2 .. q + 11 => R(31) \in DOMAIN regs'[l] /\ regs'[l][R(31)] = a
       /\ now' \in q + 3 .. q + 4 => P(1) \in DOMAIN regs'[l] /\ regs'[l][P(1)] = 1
       /\ now' \in q + 4 .. q + 4 => P(2) \in DOMAIN regs'[l] /\ regs'[l][P(2)] = 0
       /\ now' \in q + 5 .. q + 6 => P(3) \in DOMAIN regs'[l] /\ regs'[l][P(3)] = 0
       /\ now' \in q + 6 .. q + 15 => P(4) \in DOMAIN regs'[l] /\ regs'[l][P(4)] = 1
       /\ now' \in q + 7 .. q + 7 => P(5) \in DOMAIN regs'[l] /\ regs'[l][P(5)] = 1
       /\ now' \in q + 12 .. q + 12 => R(16) \in DOMAIN regs'[l] /\ regs'[l][R(16)] = v
       /\ now' \in q + 13 .. q + 13 => RD(16) \in DOMAIN regs'[l] /\ regs'[l][RD(16)] = v
       /\ now' \in q + 14 .. q + 15 => RD(16) \in DOMAIN regs'[l] /\ regs'[l][RD(16)] = h
  BY <1>3, <1>5, <1>6, <1>7, <1>8, <1>9, <1>10, <1>11, <1>12, <1>13, <1>14 DEF Sets
<1>16. KnlHas(l, q, n)'
  <2>1. Has(l, q + 1, q + 1, R(16), a)'
    BY <1>15 DEF Has, a, v, h
  <2>2. Has(l, q + 2, q + 11, R(31), a)'
    BY <1>15 DEF Has, a, v, h
  <2>3. Has(l, q + 3, q + 4, P(1), 1)'
    BY <1>15 DEF Has, a, v, h
  <2>4. Has(l, q + 4, q + 4, P(2), 0)'
    BY <1>15 DEF Has, a, v, h
  <2>5. Has(l, q + 5, q + 6, P(3), 0)'
    BY <1>15 DEF Has, a, v, h
  <2>6. Has(l, q + 6, q + 15, P(4), 1)'
    BY <1>15 DEF Has, a, v, h
  <2>7. Has(l, q + 7, q + 7, P(5), 1)'
    BY <1>15 DEF Has, a, v, h
  <2>8. Has(l, q + 12, q + 12, R(16), v)'
    BY <1>15 DEF Has, a, v, h
  <2>9. Has(l, q + 13, q + 13, RD(16), v)'
    BY <1>15 DEF Has, a, v, h
  <2>10. Has(l, q + 14, q + 15, RD(16), h)'
    BY <1>15 DEF Has, a, v, h
  <2>. QED BY Zenon, <2>1, <2>2, <2>3, <2>4, <2>5, <2>6, <2>7, <2>8, <2>9, <2>10 DEF KnlHas, a, v, h
<1>. QED BY <1>2, <1>16

----------------------------------------------------------------------------
(* The lines of the prologue that stop, store or write a result.           *)
LEMMA BitsOf ==
  /\ \A x \in BOOLEAN : Bool(x) \in { 0, 1 } /\ Bool(x) \in Nat
  /\ \A x, y \in BOOLEAN : Apply2("and.pred", "", Bool(x), Bool(y)) = Bool(y /\ x)
<1>1. \A x \in BOOLEAN : Bool(x) \in { 0, 1 } /\ Bool(x) \in Nat
  BY DEF Bool
<1>2. ASSUME NEW x \in BOOLEAN, NEW y \in BOOLEAN PROVE BitAnd(Bool(x), Bool(y)) = Bool(y /\ x)
  <2>1. BitAnd(1, 1) = 1 /\ BitAnd(1, 0) = 0 /\ BitAnd(0, 1) = 0 /\ BitAnd(0, 0) = 0
    BY PredicateBits
  <2>2. Bool(TRUE) = 1 /\ Bool(FALSE) = 0
    BY DEF Bool
  <2>3. CASE x = TRUE /\ y = TRUE
    BY Zenon, <2>1, <2>2, <2>3
  <2>4. CASE x = TRUE /\ y = FALSE
    BY Zenon, <2>1, <2>2, <2>4
  <2>5. CASE x = FALSE /\ y = TRUE
    BY Zenon, <2>1, <2>2, <2>5
  <2>6. CASE x = FALSE /\ y = FALSE
    BY Zenon, <2>1, <2>2, <2>6
  <2>. QED BY <2>3, <2>4, <2>5, <2>6
<1>3. \A x, y : Apply2("and.pred", "", x, y) = BitAnd(x, y)
  BY PairValues
<1>. QED BY Zenon, <1>1, <1>2, <1>3

LEMMA NotZero == \A x \in Nat : Apply2("setp.ne.u32", "", x, 0) = Bool(x # 0)
<1>1. \A x, y : Apply2("setp.ne.u32", "", x, y) = Bool(x # y)
  BY PairValues
<1>. QED BY <1>1 DEF Bool

LEMMA LoudLines ==
  ASSUME NEW c, NEW b \in Nat, NEW d \in Nat, NEW gp, EntryCode(c, b, d, gp)
  PROVE  /\ c[b + 13].op = "trap" /\ c[b + 13].d = NoReg
         /\ c[b + 20].op = "ld.shared.u32" /\ c[b + 20].d = R(17)
         /\ c[b + 21].op = "ld.global.u32" /\ c[b + 21].d = R(17)
         /\ c[d + 66].op = "trap" /\ c[d + 66].d = NoReg
         /\ c[d + 73].op = "ld.shared.u32" /\ c[d + 73].d = R(17)
         /\ c[d + 74].op = "ld.global.u32" /\ c[d + 74].d = R(17)
         /\ c[b + 49].op = "trap" /\ c[b + 49].d = NoReg
         /\ c[b + 50].op = "pds.acquire" /\ c[b + 50].d = NoReg
         /\ c[b + 4].op = "mov.u32" /\ c[b + 4].d = R(26)
         /\ c[b + 5].op = "mov.u32" /\ c[b + 5].d = R(27)
         /\ c[b + 29].op = "mul.lo.u32" /\ c[b + 29].d = R(9)
         /\ c[b + 30].op = "add.u32" /\ c[b + 30].d = R(9)
         /\ c[b + 31].op = "mul.lo.u32" /\ c[b + 31].d = R(9)
         /\ c[b + 32].op = "add.u32" /\ c[b + 32].d = R(9)
         /\ c[b + 52].op = "mov.u32" /\ c[b + 52].d = X(4)
         /\ c[d + 55].op = "mov.u32" /\ c[d + 55].d = X(2)
         /\ c[d + 58].op = "mov.u32" /\ c[d + 58].d = X(8)
         /\ c[d + 75].op = "mov.u32" /\ c[d + 75].d = X(10)
         /\ d # b => c[d + 52].op = "mov.u32" /\ c[d + 52].d = X(3)
<1>1. KnlLaid(c, b + 6, 56) /\ KnlLaid(c, d + 59, 4)
  BY DEF EntryCode
<1>2. /\ b + 6 + 7 = b + 13 /\ b + 6 + 14 = b + 20 /\ b + 6 + 15 = b + 21
      /\ d + 59 + 7 = d + 66 /\ d + 59 + 14 = d + 73 /\ d + 59 + 15 = d + 74
  OBVIOUS
<1>3. /\ c[b + 6 + 7] = Unless(5, L("trap", NoReg, << >>))
      /\ c[b + 6 + 14] = If(3, L("ld.shared.u32", R(17), << RD(17) >>))
      /\ c[b + 6 + 15] = If(4, L("ld.global.u32", R(17), << RD(16) >>))
  BY Zenon, <1>1 DEF KnlLaid
<1>4. /\ c[d + 59 + 7] = Unless(5, L("trap", NoReg, << >>))
      /\ c[d + 59 + 14] = If(3, L("ld.shared.u32", R(17), << RD(17) >>))
      /\ c[d + 59 + 15] = If(4, L("ld.global.u32", R(17), << RD(16) >>))
  BY Zenon, <1>1 DEF KnlLaid
<1>5. /\ c[b + 49] = If(1, L("trap", NoReg, << >>))
      /\ c[b + 50] = L("pds.acquire", NoReg, << R(9), R(29), R(27), R(26) >>)
      /\ c[b + 4] = L("mov.u32", R(26), << Special("pds_bitmap_base_vaddr") >>)
      /\ c[b + 5] = L("mov.u32", R(27), << Special("pds_pool_num_blocks") >>)
      /\ c[b + 29] = L("mul.lo.u32", R(9), << R(7), R(5) >>)
      /\ c[b + 30] = L("add.u32", R(9), << R(9), R(4) >>)
      /\ c[b + 31] = L("mul.lo.u32", R(9), << R(9), R(6) >>)
      /\ c[b + 32] = L("add.u32", R(9), << R(9), R(3) >>)
      /\ c[b + 52] = L("mov.u32", X(4), << R(15) >>)
      /\ c[d + 55] = L("mov.u32", X(2), << R(15) >>)
      /\ c[d + 58] = L("mov.u32", X(8), << R(15) >>)
      /\ c[d + 75] = L("mov.u32", X(10), << R(17) >>)
  BY Zenon DEF EntryCode
<1>6. c[b + 13].op = "trap" /\ c[b + 13].d = NoReg
  <2>1. c[b + 13] = Unless(5, L("trap", NoReg, << >>))
    BY Zenon, <1>2, <1>3, <1>4, <1>5
  <2>. QED BY <2>1, LineFields
<1>7. c[b + 20].op = "ld.shared.u32" /\ c[b + 20].d = R(17)
  <2>1. c[b + 20] = If(3, L("ld.shared.u32", R(17), << RD(17) >>))
    BY Zenon, <1>2, <1>3, <1>4, <1>5
  <2>. QED BY <2>1, LineFields
<1>8. c[b + 21].op = "ld.global.u32" /\ c[b + 21].d = R(17)
  <2>1. c[b + 21] = If(4, L("ld.global.u32", R(17), << RD(16) >>))
    BY Zenon, <1>2, <1>3, <1>4, <1>5
  <2>. QED BY <2>1, LineFields
<1>9. c[d + 66].op = "trap" /\ c[d + 66].d = NoReg
  <2>1. c[d + 66] = Unless(5, L("trap", NoReg, << >>))
    BY Zenon, <1>2, <1>3, <1>4, <1>5
  <2>. QED BY <2>1, LineFields
<1>10. c[d + 73].op = "ld.shared.u32" /\ c[d + 73].d = R(17)
  <2>1. c[d + 73] = If(3, L("ld.shared.u32", R(17), << RD(17) >>))
    BY Zenon, <1>2, <1>3, <1>4, <1>5
  <2>. QED BY <2>1, LineFields
<1>11. c[d + 74].op = "ld.global.u32" /\ c[d + 74].d = R(17)
  <2>1. c[d + 74] = If(4, L("ld.global.u32", R(17), << RD(16) >>))
    BY Zenon, <1>2, <1>3, <1>4, <1>5
  <2>. QED BY <2>1, LineFields
<1>12. c[b + 49].op = "trap" /\ c[b + 49].d = NoReg
  <2>1. c[b + 49] = If(1, L("trap", NoReg, << >>))
    BY Zenon, <1>2, <1>3, <1>4, <1>5
  <2>. QED BY <2>1, LineFields
<1>13. c[b + 50].op = "pds.acquire" /\ c[b + 50].d = NoReg
  <2>1. c[b + 50] = L("pds.acquire", NoReg, << R(9), R(29), R(27), R(26) >>)
    BY Zenon, <1>2, <1>3, <1>4, <1>5
  <2>. QED BY <2>1, LineFields
<1>14. c[b + 4].op = "mov.u32" /\ c[b + 4].d = R(26)
  <2>1. c[b + 4] = L("mov.u32", R(26), << Special("pds_bitmap_base_vaddr") >>)
    BY Zenon, <1>2, <1>3, <1>4, <1>5
  <2>. QED BY <2>1, LineFields
<1>15. c[b + 5].op = "mov.u32" /\ c[b + 5].d = R(27)
  <2>1. c[b + 5] = L("mov.u32", R(27), << Special("pds_pool_num_blocks") >>)
    BY Zenon, <1>2, <1>3, <1>4, <1>5
  <2>. QED BY <2>1, LineFields
<1>16. c[b + 29].op = "mul.lo.u32" /\ c[b + 29].d = R(9)
  <2>1. c[b + 29] = L("mul.lo.u32", R(9), << R(7), R(5) >>)
    BY Zenon, <1>2, <1>3, <1>4, <1>5
  <2>. QED BY <2>1, LineFields
<1>17. c[b + 30].op = "add.u32" /\ c[b + 30].d = R(9)
  <2>1. c[b + 30] = L("add.u32", R(9), << R(9), R(4) >>)
    BY Zenon, <1>2, <1>3, <1>4, <1>5
  <2>. QED BY <2>1, LineFields
<1>18. c[b + 31].op = "mul.lo.u32" /\ c[b + 31].d = R(9)
  <2>1. c[b + 31] = L("mul.lo.u32", R(9), << R(9), R(6) >>)
    BY Zenon, <1>2, <1>3, <1>4, <1>5
  <2>. QED BY <2>1, LineFields
<1>19. c[b + 32].op = "add.u32" /\ c[b + 32].d = R(9)
  <2>1. c[b + 32] = L("add.u32", R(9), << R(9), R(3) >>)
    BY Zenon, <1>2, <1>3, <1>4, <1>5
  <2>. QED BY <2>1, LineFields
<1>20. c[b + 52].op = "mov.u32" /\ c[b + 52].d = X(4)
  <2>1. c[b + 52] = L("mov.u32", X(4), << R(15) >>)
    BY Zenon, <1>2, <1>3, <1>4, <1>5
  <2>. QED BY <2>1, LineFields
<1>21. c[d + 55].op = "mov.u32" /\ c[d + 55].d = X(2)
  <2>1. c[d + 55] = L("mov.u32", X(2), << R(15) >>)
    BY Zenon, <1>2, <1>3, <1>4, <1>5
  <2>. QED BY <2>1, LineFields
<1>22. c[d + 58].op = "mov.u32" /\ c[d + 58].d = X(8)
  <2>1. c[d + 58] = L("mov.u32", X(8), << R(15) >>)
    BY Zenon, <1>2, <1>3, <1>4, <1>5
  <2>. QED BY <2>1, LineFields
<1>23. c[d + 75].op = "mov.u32" /\ c[d + 75].d = X(10)
  <2>1. c[d + 75] = L("mov.u32", X(10), << R(17) >>)
    BY Zenon, <1>2, <1>3, <1>4, <1>5
  <2>. QED BY <2>1, LineFields
<1>24. ASSUME d # b PROVE c[d + 52].op = "mov.u32" /\ c[d + 52].d = X(3)
  <2>1. gp # 0 /\ d = b + 2
    BY <1>24 DEF EntryCode
  <2>2. c[b + 54] = L("mov.u32", X(3), << R(15) >>)
    BY Zenon, <2>1 DEF EntryCode
  <2>3. d + 52 = b + 54
    BY <2>1
  <2>. QED BY <2>2, <2>3, LineFields
<1>. QED BY <1>6, <1>7, <1>8, <1>9, <1>10, <1>11, <1>12, <1>13, <1>14, <1>15, <1>16, <1>17, <1>18, <1>19, <1>20,
            <1>21, <1>22, <1>23, <1>24

LEMMA ResultLines ==
  ASSUME NEW c, NEW b \in Nat, NEW d \in Nat, NEW gp, EntryCode(c, b, d, gp)
  PROVE  /\ \A k \in b .. d + 77 :
              /\ c[k].op \notin StoreOps \cup { "unsupported" }
              /\ c[k].op = "trap" => k \in { b + 13, b + 49, d + 66 }
              /\ c[k].op = "pds.acquire" => k = b + 50
         /\ \A k \in b + 22 .. d + 55 : c[k].d # R(17)
         /\ \A k \in b + 33 .. b + 49 : c[k].d # R(9)
         /\ \A k \in b + 5 .. b + 49 : c[k].d # R(26)
         /\ \A k \in b + 6 .. b + 49 : c[k].d # R(27)
         /\ \A k \in b + 53 .. d + 77 : c[k].d # X(4)
         /\ \A k \in d + 53 .. d + 77 : c[k].d # X(3)
         /\ \A k \in d + 56 .. d + 77 : c[k].d # X(2)
         /\ \A k \in d + 59 .. d + 77 : c[k].d # X(8)
         /\ \A k \in d + 76 .. d + 77 : c[k].d # X(10)
<1>1. d = b \/ d = b + 2
  BY DEF EntryCode
<1>2. \A k \in b .. d + 77 :
        (c[k].op \notin StoreOps \cup { "unsupported", "trap", "pds.acquire" } /\ c[k].d \notin Results) \/ k \in Loud(b, d)
  BY Zenon DEF EntryCode, Tacit
<1>3. /\ R(17) \in Results /\ R(9) \in Results /\ R(26) \in Results /\ R(27) \in Results
      /\ X(2) \in Results /\ X(3) \in Results /\ X(4) \in Results /\ X(8) \in Results /\ X(10) \in Results
  BY DEF Results
<1>4. /\ R(17) \notin { NoReg, X(2), X(3), X(4), R(9) }
      /\ R(9) \notin { NoReg }
      /\ R(26) \notin { NoReg, R(27), R(17), R(9) }
      /\ R(27) \notin { NoReg, R(17), R(9) }
      /\ X(4) \notin { NoReg, R(17), X(2), X(3), X(8), X(10) }
      /\ X(3) \notin { NoReg, R(17), X(2), X(8), X(10) }
      /\ X(2) \notin { NoReg, R(17), X(8), X(10) }
      /\ X(8) \notin { NoReg, R(17), X(10) }
  BY DEF NoReg, R, X
<1>5. \A o \in { "trap", "pds.acquire", "ld.shared.u32", "ld.global.u32", "mov.u32", "mul.lo.u32", "add.u32" } :
        o \notin StoreOps \cup { "unsupported" }
  BY DEF StoreOps, Storing, Accesses, Bytes, StOp
<1>6. \A k \in Loud(b, d) :
        k \in { b + 4, b + 5, b + 13, b + 20, b + 21, b + 29, b + 30, b + 31, b + 32, b + 49, b + 50, b + 52, d + 52, d + 55, d + 58,
               d + 66, d + 73, d + 74, d + 75 }
  BY Zenon DEF Loud
<1>7. /\ c[b + 13].op = "trap" /\ c[b + 13].d = NoReg
      /\ c[b + 20].op = "ld.shared.u32" /\ c[b + 20].d = R(17)
      /\ c[b + 21].op = "ld.global.u32" /\ c[b + 21].d = R(17)
      /\ c[d + 66].op = "trap" /\ c[d + 66].d = NoReg
      /\ c[d + 73].op = "ld.shared.u32" /\ c[d + 73].d = R(17)
      /\ c[d + 74].op = "ld.global.u32" /\ c[d + 74].d = R(17)
      /\ c[b + 49].op = "trap" /\ c[b + 49].d = NoReg
      /\ c[b + 50].op = "pds.acquire" /\ c[b + 50].d = NoReg
      /\ c[b + 4].op = "mov.u32" /\ c[b + 4].d = R(26)
      /\ c[b + 5].op = "mov.u32" /\ c[b + 5].d = R(27)
      /\ c[b + 29].op = "mul.lo.u32" /\ c[b + 29].d = R(9)
      /\ c[b + 30].op = "add.u32" /\ c[b + 30].d = R(9)
      /\ c[b + 31].op = "mul.lo.u32" /\ c[b + 31].d = R(9)
      /\ c[b + 32].op = "add.u32" /\ c[b + 32].d = R(9)
      /\ c[b + 52].op = "mov.u32" /\ c[b + 52].d = X(4)
      /\ c[d + 55].op = "mov.u32" /\ c[d + 55].d = X(2)
      /\ c[d + 58].op = "mov.u32" /\ c[d + 58].d = X(8)
      /\ c[d + 75].op = "mov.u32" /\ c[d + 75].d = X(10)
      /\ d # b => c[d + 52].op = "mov.u32" /\ c[d + 52].d = X(3)
  BY LoudLines
<1>8. \A k \in b + 22 .. d + 55 : c[k].d # R(17)
  <2>. SUFFICES ASSUME NEW k \in b + 22 .. d + 55 PROVE c[k].d # R(17)
    OBVIOUS
  <2>1. k \in b .. d + 77
    BY <1>1
  <2>2. k \in Loud(b, d) => k \in { b + 29, b + 30, b + 31, b + 32, b + 49, b + 50, b + 52, d + 55 } \/ (d # b /\ k = d + 52)
    BY <1>1, <1>6
  <2>. QED BY <1>2, <1>3, <1>4, <1>7, <2>1, <2>2
<1>9. \A k \in b + 33 .. b + 49 : c[k].d # R(9)
  <2>. SUFFICES ASSUME NEW k \in b + 33 .. b + 49 PROVE c[k].d # R(9)
    OBVIOUS
  <2>1. k \in b .. d + 77
    BY <1>1
  <2>2. k \in Loud(b, d) => k \in { b + 49 }
    BY <1>1, <1>6
  <2>. QED BY <1>2, <1>3, <1>4, <1>7, <2>1, <2>2
<1>10. \A k \in b + 5 .. b + 49 : c[k].d # R(26)
  <2>. SUFFICES ASSUME NEW k \in b + 5 .. b + 49 PROVE c[k].d # R(26)
    OBVIOUS
  <2>1. k \in b .. d + 77
    BY <1>1
  <2>2. k \in Loud(b, d) => k \in { b + 5, b + 13, b + 20, b + 21, b + 29, b + 30, b + 31, b + 32, b + 49 }
    BY <1>1, <1>6
  <2>. QED BY <1>2, <1>3, <1>4, <1>7, <2>1, <2>2
<1>11. \A k \in b + 6 .. b + 49 : c[k].d # R(27)
  <2>. SUFFICES ASSUME NEW k \in b + 6 .. b + 49 PROVE c[k].d # R(27)
    OBVIOUS
  <2>1. k \in b .. d + 77
    BY <1>1
  <2>2. k \in Loud(b, d) => k \in { b + 13, b + 20, b + 21, b + 29, b + 30, b + 31, b + 32, b + 49 }
    BY <1>1, <1>6
  <2>. QED BY <1>2, <1>3, <1>4, <1>7, <2>1, <2>2
<1>12. \A k \in b + 53 .. d + 77 : c[k].d # X(4)
  <2>. SUFFICES ASSUME NEW k \in b + 53 .. d + 77 PROVE c[k].d # X(4)
    OBVIOUS
  <2>1. k \in b .. d + 77
    BY <1>1
  <2>2. k \in Loud(b, d) => k \in { d + 55, d + 58, d + 66, d + 73, d + 74, d + 75 } \/ (d # b /\ k = d + 52)
    BY <1>1, <1>6
  <2>. QED BY <1>2, <1>3, <1>4, <1>7, <2>1, <2>2
<1>13. \A k \in d + 53 .. d + 77 : c[k].d # X(3)
  <2>. SUFFICES ASSUME NEW k \in d + 53 .. d + 77 PROVE c[k].d # X(3)
    OBVIOUS
  <2>1. k \in b .. d + 77
    BY <1>1
  <2>2. k \in Loud(b, d) => k \in { d + 55, d + 58, d + 66, d + 73, d + 74, d + 75 }
    BY <1>1, <1>6
  <2>. QED BY <1>2, <1>3, <1>4, <1>7, <2>1, <2>2
<1>14. \A k \in d + 56 .. d + 77 : c[k].d # X(2)
  <2>. SUFFICES ASSUME NEW k \in d + 56 .. d + 77 PROVE c[k].d # X(2)
    OBVIOUS
  <2>1. k \in b .. d + 77
    BY <1>1
  <2>2. k \in Loud(b, d) => k \in { d + 58, d + 66, d + 73, d + 74, d + 75 }
    BY <1>1, <1>6
  <2>. QED BY <1>2, <1>3, <1>4, <1>7, <2>1, <2>2
<1>15. \A k \in d + 59 .. d + 77 : c[k].d # X(8)
  <2>. SUFFICES ASSUME NEW k \in d + 59 .. d + 77 PROVE c[k].d # X(8)
    OBVIOUS
  <2>1. k \in b .. d + 77
    BY <1>1
  <2>2. k \in Loud(b, d) => k \in { d + 66, d + 73, d + 74, d + 75 }
    BY <1>1, <1>6
  <2>. QED BY <1>2, <1>3, <1>4, <1>7, <2>1, <2>2
<1>16. \A k \in d + 76 .. d + 77 : c[k].d # X(10)
  <2>. SUFFICES ASSUME NEW k \in d + 76 .. d + 77 PROVE c[k].d # X(10)
    OBVIOUS
  <2>1. k \in b .. d + 77
    BY <1>1
  <2>2. k \in Loud(b, d) => FALSE
    BY <1>1, <1>6
  <2>. QED BY <1>2, <1>3, <1>4, <1>7, <2>1, <2>2
<1>17. \A k \in Loud(b, d) :
         /\ c[k].op \in { "trap", "pds.acquire", "ld.shared.u32", "ld.global.u32", "mov.u32", "mul.lo.u32", "add.u32" }
         /\ c[k].op = "trap" => k \in { b + 13, b + 49, d + 66 }
         /\ c[k].op = "pds.acquire" => k = b + 50
  <2>. SUFFICES ASSUME NEW k \in Loud(b, d)
                PROVE  /\ c[k].op \in { "trap", "pds.acquire", "ld.shared.u32", "ld.global.u32", "mov.u32", "mul.lo.u32", "add.u32" }
                       /\ c[k].op = "trap" => k \in { b + 13, b + 49, d + 66 }
                       /\ c[k].op = "pds.acquire" => k = b + 50
    OBVIOUS
  <2>1. k \in { b + 4, b + 5, b + 13, b + 20, b + 21, b + 29, b + 30, b + 31, b + 32, b + 49, b + 50, b + 52, d + 52, d + 55, d + 58,
               d + 66, d + 73, d + 74, d + 75 }
    BY <1>6
  <2>2. k = d + 52 /\ d = b => k = b + 52
    OBVIOUS
  <2>. QED BY <1>7, <2>1, <2>2
<1>18. \A k \in b .. d + 77 :
         /\ c[k].op \notin StoreOps \cup { "unsupported" }
         /\ c[k].op = "trap" => k \in { b + 13, b + 49, d + 66 }
         /\ c[k].op = "pds.acquire" => k = b + 50
  BY <1>2, <1>5, <1>17
<1>. QED BY <1>8, <1>9, <1>10, <1>11, <1>12, <1>13, <1>14, <1>15, <1>16, <1>18

LEMMA WrapSum == \A x, y \in Nat : Wrap(x) \in Nat /\ Wrap(Wrap(x) + y) = Wrap(y + x)
<1>. DEFINE t == Top
<1>1. t \in Nat \ { 0 }
  BY Sizes
<1>. HIDE DEF t
<1>2. \A x, y \in Nat : x % t \in Nat /\ ((x % t) + y) % t = (y + x) % t
  <2>1. \A x, y \in Nat : ((x % t) + y) % t = (y + x) % t
    BY Zenon, <1>1, ModSum
  <2>2. \A x \in Nat : x % t \in Nat
    BY <1>1
  <2>. QED BY Zenon, <2>1, <2>2
<1>. QED BY <1>2 DEF Wrap, t

(* Where the lines go on that follow the two which set x3, if they do.     *)
Later == First + Gp(prog.gp)

LEMMA LaterAt ==
  ASSUME EntryCode(code, First, Later, prog.gp)
  PROVE  /\ First \in Nat /\ Later \in Nat /\ (Later = First \/ Later = First + 2)
         /\ (Later = First <=> prog.gp = 0) /\ Len(code) = Later + 78
<1>1. /\ First \in Nat \ { 0 } /\ Later \in { First, First + 2 } /\ (Later = First <=> prog.gp = 0)
      /\ Len(code) = Later + 78
  BY Zenon DEF EntryCode
<1>. HIDE DEF Later
<1>. QED BY <1>1

LEMMA LaterPlace ==
  ASSUME Running, EntryCode(code, First, Later, prog.gp)
  PROVE  /\ First \in Nat /\ Later \in Nat /\ (Later = First \/ Later = First + 2)
         /\ (Later = First <=> prog.gp = 0) /\ Len(code) = Later + 78
         /\ now \in Nat /\ Line = code[now] /\ now \in First .. Later + 77
<1>1. now \in First .. Len(code) - 1
  BY RunningPlace
<1>. HIDE DEF Later
<1>. QED BY <1>1, LaterAt DEF Line

(* What the launch gives.                                                  *)
LEMMA LaunchNumbers ==
  ASSUME GridE
  PROVE  /\ Warp \in Nat /\ WarpsOf(Shape) \in Nat /\ Launch.pdsBase \in Nat /\ Launch.pdsSize \in Nat
         /\ Launch.pdsBitmap \in Nat /\ Launch.pdsBlocks \in Nat
<1>1. Launch = Launches[input[1]] /\ input[1] \in DOMAIN Launches /\ Warp \in Nat /\ Shape = Launch.shape
  BY DEF GridE, Launch, Shape
<1>2. Launch.pdsBase \in Nat /\ Launch.pdsSize \in Nat /\ Launch.pdsBitmap \in Nat /\ Launch.pdsBlocks \in Nat
  BY <1>1, LaunchesAssumption
<1>3. Shape[1] \in Nat \ { 0 } /\ Shape[2] \in Nat \ { 0 } /\ Shape[3] \in Nat \ { 0 }
  BY <1>1, LaunchesAssumption
<1>4. WarpsOf(Shape) \in Nat
  BY <1>3, WarpsCounted
<1>. QED BY <1>1, <1>2, <1>4

(* What a lane of an entry has, from line to line.                         *)
LaunchHas(l) ==
  LET b == First
      d == Later
      u == WordOf(56)
      z == WordOf(4)
  IN  /\ KnlHas(l, b + 6, 56) /\ KnlHas(l, d + 59, 4)
      /\ Has(l, b + 22, d + 56, R(17), u)
      /\ Has(l, b + 47, b + 48, P(1), Bool(Launch.pdsBase < GlobalBase))
      /\ Has(l, b + 48, b + 48, P(2), Bool(Launch.pdsSize # 0))
      /\ Has(l, b + 49, b + 49, P(1), Bool(LowPool))
      /\ Has(l, b + 52, b + 52, R(15), 0)
      /\ Has(l, b + 53, d + 78, X(4), 0)
      /\ Has(l, d + 54, d + 54, R(15), Wrap(Warp * u))
      /\ Has(l, d + 55, d + 55, R(15), Wrap(SharedBase + Warp * u))
      /\ Has(l, d + 56, d + 78, X(2), Wrap(SharedBase + Warp * u))
      /\ Has(l, d + 57, d + 57, R(15), Wrap(WarpsOf(Shape) * u))
      /\ Has(l, d + 58, d + 58, R(15), Wrap(SharedBase + WarpsOf(Shape) * u))
      /\ Has(l, d + 59, d + 78, X(8), Wrap(SharedBase + WarpsOf(Shape) * u))
      /\ Has(l, d + 75, d + 75, R(17), z)
      /\ Has(l, d + 76, d + 78, X(10), z)

LEMMA EntryHeld ==
  ASSUME Running, NEW l \in active, EntryHas(l), HeadLength = 22, EntryCode(code, First, Later, prog.gp)
  PROVE  LET b == First
             d == Later
         IN  /\ now \in b + 1 .. d + 78 => Reg(l, RD(0)) = Device["global_base"]
             /\ now \in b + 2 .. d + 78 => Reg(l, R(30)) = Device["knl_vaddr"]
             /\ now \in b + 3 .. d + 78 => Reg(l, R(28)) = Launch.pdsBase
             /\ now \in b + 4 .. d + 78 => Reg(l, R(29)) = Launch.pdsSize
             /\ now \in b + 34 .. d + 78 => Reg(l, R(10)) = Warp
             /\ now \in b + 38 .. d + 78 => Reg(l, R(12)) = WarpsOf(Shape)
<1>. DEFINE b == First
            d == Later
            t == First + HeadLength
            e == Len(code)
<1>1. /\ Has(l, b + 1, e, RD(0), Device["global_base"]) /\ Has(l, b + 2, e, R(30), Device["knl_vaddr"])
      /\ Has(l, b + 3, e, R(28), Launch.pdsBase) /\ Has(l, b + 4, e, R(29), Launch.pdsSize)
      /\ Has(l, t + 12, e, R(10), Warp) /\ Has(l, t + 16, e, R(12), WarpsOf(Shape))
  BY DEF EntryHas
<1>2. b \in Nat /\ d \in Nat /\ e = d + 78 /\ t + 12 = b + 34 /\ t + 16 = b + 38
  <2>1. First \in Nat /\ Later \in Nat /\ Len(code) = Later + 78
    BY LaterPlace
  <2>. HIDE DEF Later
  <2>. QED BY <2>1
<1>3. \A i : /\ R(i) \in DOMAIN regs[l] => Reg(l, R(i)) = regs[l][R(i)]
             /\ RD(i) \in DOMAIN regs[l] => Reg(l, RD(i)) = regs[l][RD(i)]
  BY Zenon, HeldBy, RegFiles
<1>. HIDE DEF b, d, t, e
<1>. SUFFICES /\ now \in b + 1 .. d + 78 => Reg(l, RD(0)) = Device["global_base"]
              /\ now \in b + 2 .. d + 78 => Reg(l, R(30)) = Device["knl_vaddr"]
              /\ now \in b + 3 .. d + 78 => Reg(l, R(28)) = Launch.pdsBase
              /\ now \in b + 4 .. d + 78 => Reg(l, R(29)) = Launch.pdsSize
              /\ now \in b + 34 .. d + 78 => Reg(l, R(10)) = Warp
              /\ now \in b + 38 .. d + 78 => Reg(l, R(12)) = WarpsOf(Shape)
  BY DEF b, d
<1>4. ASSUME now \in b + 1 .. d + 78 PROVE Reg(l, RD(0)) = Device["global_base"]
  <2>1. RD(0) \in DOMAIN regs[l] /\ regs[l][RD(0)] = Device["global_base"]
    BY <1>1, <1>2, <1>4 DEF Has
  <2>. QED BY <1>3, <2>1
<1>5. ASSUME now \in b + 2 .. d + 78 PROVE Reg(l, R(30)) = Device["knl_vaddr"]
  <2>1. R(30) \in DOMAIN regs[l] /\ regs[l][R(30)] = Device["knl_vaddr"]
    BY <1>1, <1>2, <1>5 DEF Has
  <2>. QED BY <1>3, <2>1
<1>6. ASSUME now \in b + 3 .. d + 78 PROVE Reg(l, R(28)) = Launch.pdsBase
  <2>1. R(28) \in DOMAIN regs[l] /\ regs[l][R(28)] = Launch.pdsBase
    BY <1>1, <1>2, <1>6 DEF Has
  <2>. QED BY <1>3, <2>1
<1>7. ASSUME now \in b + 4 .. d + 78 PROVE Reg(l, R(29)) = Launch.pdsSize
  <2>1. R(29) \in DOMAIN regs[l] /\ regs[l][R(29)] = Launch.pdsSize
    BY <1>1, <1>2, <1>7 DEF Has
  <2>. QED BY <1>3, <2>1
<1>8. ASSUME now \in b + 34 .. d + 78 PROVE Reg(l, R(10)) = Warp
  <2>1. R(10) \in DOMAIN regs[l] /\ regs[l][R(10)] = Warp
    BY <1>1, <1>2, <1>8 DEF Has
  <2>. QED BY <1>3, <2>1
<1>9. ASSUME now \in b + 38 .. d + 78 PROVE Reg(l, R(12)) = WarpsOf(Shape)
  <2>1. R(12) \in DOMAIN regs[l] /\ regs[l][R(12)] = WarpsOf(Shape)
    BY <1>1, <1>2, <1>9 DEF Has
  <2>. QED BY <1>3, <2>1
<1>. QED BY <1>4, <1>5, <1>6, <1>7, <1>8, <1>9

(* What the lines write.                                                   *)
LEMMA LaunchWrites ==
  ASSUME Running, Next, NEW l \in active, EntryHas(l), LaunchHas(l), EntryCode(code, First, Later, prog.gp), HeadLength = 22
  PROVE  LET b == First
             d == Later
             u == WordOf(56)
             z == WordOf(4)
         IN  /\ now = b + 46 => Sets(l, P(1), Bool(Launch.pdsBase < GlobalBase))
             /\ now = b + 47 => Sets(l, P(2), Bool(Launch.pdsSize # 0))
             /\ now = b + 48 => Sets(l, P(1), Bool(LowPool))
             /\ now = b + 51 => Sets(l, R(15), 0)
             /\ now = b + 52 => Sets(l, X(4), 0)
             /\ now = d + 53 => Sets(l, R(15), Wrap(Warp * u))
             /\ now = d + 54 => Sets(l, R(15), Wrap(SharedBase + Warp * u))
             /\ now = d + 55 => Sets(l, X(2), Wrap(SharedBase + Warp * u))
             /\ now = d + 56 => Sets(l, R(15), Wrap(WarpsOf(Shape) * u))
             /\ now = d + 57 => Sets(l, R(15), Wrap(SharedBase + WarpsOf(Shape) * u))
             /\ now = d + 58 => Sets(l, X(8), Wrap(SharedBase + WarpsOf(Shape) * u))
             /\ now = d + 75 => Sets(l, X(10), z)
<1>. DEFINE b == First
            d == Later
            u == WordOf(56)
            z == WordOf(4)
            N == WarpsOf(Shape)
<1>1. /\ Has(l, b + 22, d + 56, R(17), u)
      /\ Has(l, b + 47, b + 48, P(1), Bool(Launch.pdsBase < GlobalBase))
      /\ Has(l, b + 48, b + 48, P(2), Bool(Launch.pdsSize # 0))
      /\ Has(l, b + 49, b + 49, P(1), Bool(LowPool))
      /\ Has(l, b + 52, b + 52, R(15), 0)
      /\ Has(l, b + 53, d + 78, X(4), 0)
      /\ Has(l, d + 54, d + 54, R(15), Wrap(Warp * u))
      /\ Has(l, d + 55, d + 55, R(15), Wrap(SharedBase + Warp * u))
      /\ Has(l, d + 56, d + 78, X(2), Wrap(SharedBase + Warp * u))
      /\ Has(l, d + 57, d + 57, R(15), Wrap(WarpsOf(Shape) * u))
      /\ Has(l, d + 58, d + 58, R(15), Wrap(SharedBase + WarpsOf(Shape) * u))
      /\ Has(l, d + 59, d + 78, X(8), Wrap(SharedBase + WarpsOf(Shape) * u))
      /\ Has(l, d + 75, d + 75, R(17), z)
      /\ Has(l, d + 76, d + 78, X(10), z)
  BY DEF LaunchHas
<1>2. b \in Nat /\ d \in Nat /\ (d = b \/ d = b + 2) /\ now \in Nat /\ Line = code[now]
  BY Zenon, LaterPlace
<1>3. u \in Nat /\ z \in Nat
  BY WordLoaded
<1>4. Warp \in Nat /\ N \in Nat /\ Launch.pdsBase \in Nat /\ Launch.pdsSize \in Nat
  BY LaunchNumbers DEF Running
<1>6. /\ now \in b + 3 .. d + 78 => Reg(l, R(28)) = Launch.pdsBase
      /\ now \in b + 4 .. d + 78 => Reg(l, R(29)) = Launch.pdsSize
      /\ now \in b + 34 .. d + 78 => Reg(l, R(10)) = Warp
      /\ now \in b + 38 .. d + 78 => Reg(l, R(12)) = N
  BY Zenon, EntryHeld
<1>7. \A i : /\ R(i) \in DOMAIN regs[l] => Reg(l, R(i)) = regs[l][R(i)]
             /\ P(i) \in DOMAIN regs[l] => Reg(l, P(i)) = regs[l][P(i)]
  BY Zenon, HeldBy, RegFiles
<1>8. Reg(l, Imm(GlobalBase)) = GlobalBase /\ Reg(l, Imm(SharedBase)) = SharedBase /\ Reg(l, Imm(0)) = 0
  BY RegOf, Sizes
<1>9. GlobalBase \in Nat /\ SharedBase \in Nat /\ Top \in Nat \ { 0 } /\ 0 \in Nat
  BY Sizes
<1>10. /\ code[b + 46] = L("setp.lt.u32", P(1), << R(28), Imm(GlobalBase) >>)
       /\ code[b + 47] = L("setp.ne.u32", P(2), << R(29), Imm(0) >>)
       /\ code[b + 48] = L("and.pred", P(1), << P(1), P(2) >>)
       /\ code[b + 51] = L("mov.u32", R(15), << Imm(0) >>)
       /\ code[b + 52] = L("mov.u32", X(4), << R(15) >>)
       /\ code[d + 53] = L("mul.lo.u32", R(15), << R(10), R(17) >>)
       /\ code[d + 54] = L("add.u32", R(15), << R(15), Imm(SharedBase) >>)
       /\ code[d + 55] = L("mov.u32", X(2), << R(15) >>)
       /\ code[d + 56] = L("mul.lo.u32", R(15), << R(12), R(17) >>)
       /\ code[d + 57] = L("add.u32", R(15), << R(15), Imm(SharedBase) >>)
       /\ code[d + 58] = L("mov.u32", X(8), << R(15) >>)
       /\ code[d + 75] = L("mov.u32", X(10), << R(17) >>)
  BY Zenon DEF EntryCode
<1>11. "mov.u32" \in MoveOps /\ "mul.lo.u32" \in PairOps /\ "add.u32" \in PairOps /\ "setp.lt.u32" \in PairOps
         /\ "setp.ne.u32" \in PairOps /\ "and.pred" \in PairOps
  BY DEF MoveOps, PairOps
<1>12. Line = code[now]
  BY <1>2
<1>13. \A y \in Nat : Wrap(y) \in Nat /\ Wrap(Wrap(y) + SharedBase) = Wrap(SharedBase + y)
  <2>. SUFFICES ASSUME NEW y \in Nat PROVE Wrap(y) \in Nat /\ Wrap(Wrap(y) + SharedBase) = Wrap(SharedBase + y)
    OBVIOUS
  <2>. QED BY <1>9, WrapSum
<1>14. Warp * u \in Nat /\ N * u \in Nat
  BY <1>3, <1>4
<1>15. Wrap(SharedBase + Warp * u) \in Nat /\ Wrap(SharedBase + N * u) \in Nat
  <2>1. SharedBase + Warp * u \in Nat /\ SharedBase + N * u \in Nat
    BY <1>9, <1>14
  <2>. QED BY <1>13, <2>1
<1>16. \A x \in BOOLEAN : Bool(x) \in Nat
  BY BitsOf
<1>17. LowPool = (Launch.pdsSize # 0 /\ Launch.pdsBase < GlobalBase)
  BY DEF LowPool, Asked
<1>18. Bool(Launch.pdsBase < GlobalBase) \in Nat /\ Bool(Launch.pdsSize # 0) \in Nat
  BY DEF Bool
<1>. HIDE DEF b, d, u, z, N
<1>19. ASSUME now = b + 46 PROVE Sets(l, P(1), Bool(Launch.pdsBase < GlobalBase))
  <2>1. Line = L("setp.lt.u32", P(1), << R(28), Imm(GlobalBase) >>)
    BY <1>10, <1>12, <1>19
  <2>2. Reg(l, R(28)) = Launch.pdsBase
    <3>1. now \in b + 3 .. d + 78
      BY <1>2, <1>19
    <3>. QED BY <1>6, <3>1
  <2>3. Reg(l, Imm(GlobalBase)) = GlobalBase
    BY <1>8
  <2>4. Apply2("setp.lt.u32", "", Launch.pdsBase, GlobalBase) = Bool(Launch.pdsBase < GlobalBase)
    <3>1. \A x, y : Apply2("setp.lt.u32", "", x, y) = Bool(x < y)
      BY PairValues
    <3>. QED BY Zenon, <3>1
  <2>5. "setp.lt.u32" \in PairOps /\ Reg(l, R(28)) \in Nat /\ Reg(l, Imm(GlobalBase)) \in Nat
    BY <1>3, <1>4, <1>9, <1>11, <1>13, <1>14, <1>18, <2>2, <2>3
  <2>6. Sets(l, P(1), Apply2("setp.lt.u32", "", Reg(l, R(28)), Reg(l, Imm(GlobalBase))))
    BY <2>1, <2>5, PairSets
  <2>. QED BY <2>2, <2>3, <2>4, <2>6
<1>20. ASSUME now = b + 47 PROVE Sets(l, P(2), Bool(Launch.pdsSize # 0))
  <2>1. Line = L("setp.ne.u32", P(2), << R(29), Imm(0) >>)
    BY <1>10, <1>12, <1>20
  <2>2. Reg(l, R(29)) = Launch.pdsSize
    <3>1. now \in b + 4 .. d + 78
      BY <1>2, <1>20
    <3>. QED BY <1>6, <3>1
  <2>3. Reg(l, Imm(0)) = 0
    BY <1>8
  <2>4. Apply2("setp.ne.u32", "", Launch.pdsSize, 0) = Bool(Launch.pdsSize # 0)
    BY <1>4, NotZero
  <2>5. "setp.ne.u32" \in PairOps /\ Reg(l, R(29)) \in Nat /\ Reg(l, Imm(0)) \in Nat
    BY <1>3, <1>4, <1>9, <1>11, <1>13, <1>14, <1>18, <2>2, <2>3
  <2>6. Sets(l, P(2), Apply2("setp.ne.u32", "", Reg(l, R(29)), Reg(l, Imm(0))))
    BY <2>1, <2>5, PairSets
  <2>. QED BY <2>2, <2>3, <2>4, <2>6
<1>21. ASSUME now = b + 48 PROVE Sets(l, P(1), Bool(LowPool))
  <2>1. Line = L("and.pred", P(1), << P(1), P(2) >>)
    BY <1>10, <1>12, <1>21
  <2>2. Reg(l, P(1)) = Bool(Launch.pdsBase < GlobalBase)
    <3>1. now \in b + 47 .. b + 48
      BY <1>2, <1>21
    <3>2. P(1) \in DOMAIN regs[l] /\ regs[l][P(1)] = Bool(Launch.pdsBase < GlobalBase)
      BY <1>1, <3>1 DEF Has
    <3>. QED BY <1>7, <3>2
  <2>3. Reg(l, P(2)) = Bool(Launch.pdsSize # 0)
    <3>1. now \in b + 48 .. b + 48
      BY <1>2, <1>21
    <3>2. P(2) \in DOMAIN regs[l] /\ regs[l][P(2)] = Bool(Launch.pdsSize # 0)
      BY <1>1, <3>1 DEF Has
    <3>. QED BY <1>7, <3>2
  <2>4. Apply2("and.pred", "", Bool(Launch.pdsBase < GlobalBase), Bool(Launch.pdsSize # 0)) = Bool(LowPool)
    <3>1. (Launch.pdsBase < GlobalBase) \in BOOLEAN /\ (Launch.pdsSize # 0) \in BOOLEAN
      OBVIOUS
    <3>. QED BY <1>17, <3>1, BitsOf
  <2>5. "and.pred" \in PairOps /\ Reg(l, P(1)) \in Nat /\ Reg(l, P(2)) \in Nat
    BY <1>3, <1>4, <1>9, <1>11, <1>13, <1>14, <1>18, <2>2, <2>3
  <2>6. Sets(l, P(1), Apply2("and.pred", "", Reg(l, P(1)), Reg(l, P(2))))
    BY <2>1, <2>5, PairSets
  <2>. QED BY <2>2, <2>3, <2>4, <2>6
<1>22. ASSUME now = b + 51 PROVE Sets(l, R(15), 0)
  <2>1. Line = L("mov.u32", R(15), << Imm(0) >>)
    BY <1>10, <1>12, <1>22
  <2>2. Reg(l, Imm(0)) = 0
    BY <1>8
  <2>3. "mov.u32" \in MoveOps /\ Reg(l, Imm(0)) \in Nat
    BY <1>3, <1>9, <1>11, <1>15, <2>2
  <2>4. Sets(l, R(15), Reg(l, Imm(0)))
    BY <2>1, <2>3, MoveSets
  <2>. QED BY <2>2, <2>4
<1>23. ASSUME now = b + 52 PROVE Sets(l, X(4), 0)
  <2>1. Line = L("mov.u32", X(4), << R(15) >>)
    BY <1>10, <1>12, <1>23
  <2>2. Reg(l, R(15)) = 0
    <3>1. now \in b + 52 .. b + 52
      BY <1>2, <1>23
    <3>2. R(15) \in DOMAIN regs[l] /\ regs[l][R(15)] = 0
      BY <1>1, <3>1 DEF Has
    <3>. QED BY <1>7, <3>2
  <2>3. "mov.u32" \in MoveOps /\ Reg(l, R(15)) \in Nat
    BY <1>3, <1>9, <1>11, <1>15, <2>2
  <2>4. Sets(l, X(4), Reg(l, R(15)))
    BY <2>1, <2>3, MoveSets
  <2>. QED BY <2>2, <2>4
<1>24. ASSUME now = d + 53 PROVE Sets(l, R(15), Wrap(Warp * u))
  <2>1. Line = L("mul.lo.u32", R(15), << R(10), R(17) >>)
    BY <1>10, <1>12, <1>24
  <2>2. Reg(l, R(10)) = Warp
    <3>1. now \in b + 34 .. d + 78
      BY <1>2, <1>24
    <3>. QED BY <1>6, <3>1
  <2>3. Reg(l, R(17)) = u
    <3>1. now \in b + 22 .. d + 56
      BY <1>2, <1>24
    <3>2. R(17) \in DOMAIN regs[l] /\ regs[l][R(17)] = u
      BY <1>1, <3>1 DEF Has
    <3>. QED BY <1>7, <3>2
  <2>4. Apply2("mul.lo.u32", "", Warp, u) = Wrap(Warp * u)
    <3>1. \A x, y : Apply2("mul.lo.u32", "", x, y) = Wrap(x * y)
      BY PairValues
    <3>. QED BY Zenon, <3>1
  <2>5. "mul.lo.u32" \in PairOps /\ Reg(l, R(10)) \in Nat /\ Reg(l, R(17)) \in Nat
    BY <1>3, <1>4, <1>9, <1>11, <1>13, <1>14, <1>18, <2>2, <2>3
  <2>6. Sets(l, R(15), Apply2("mul.lo.u32", "", Reg(l, R(10)), Reg(l, R(17))))
    BY <2>1, <2>5, PairSets
  <2>. QED BY <2>2, <2>3, <2>4, <2>6
<1>25. ASSUME now = d + 54 PROVE Sets(l, R(15), Wrap(SharedBase + Warp * u))
  <2>1. Line = L("add.u32", R(15), << R(15), Imm(SharedBase) >>)
    BY <1>10, <1>12, <1>25
  <2>2. Reg(l, R(15)) = Wrap(Warp * u)
    <3>1. now \in d + 54 .. d + 54
      BY <1>2, <1>25
    <3>2. R(15) \in DOMAIN regs[l] /\ regs[l][R(15)] = Wrap(Warp * u)
      BY <1>1, <3>1 DEF Has
    <3>. QED BY <1>7, <3>2
  <2>3. Reg(l, Imm(SharedBase)) = SharedBase
    BY <1>8
  <2>4. Apply2("add.u32", "", Wrap(Warp * u), SharedBase) = Wrap(SharedBase + Warp * u)
    <3>1. \A x, y : Apply2("add.u32", "", x, y) = Wrap(x + y)
      BY PairValues
    <3>. QED BY <1>13, <1>14, <3>1
  <2>5. "add.u32" \in PairOps /\ Reg(l, R(15)) \in Nat /\ Reg(l, Imm(SharedBase)) \in Nat
    BY <1>3, <1>4, <1>9, <1>11, <1>13, <1>14, <1>18, <2>2, <2>3
  <2>6. Sets(l, R(15), Apply2("add.u32", "", Reg(l, R(15)), Reg(l, Imm(SharedBase))))
    BY <2>1, <2>5, PairSets
  <2>. QED BY <2>2, <2>3, <2>4, <2>6
<1>26. ASSUME now = d + 55 PROVE Sets(l, X(2), Wrap(SharedBase + Warp * u))
  <2>1. Line = L("mov.u32", X(2), << R(15) >>)
    BY <1>10, <1>12, <1>26
  <2>2. Reg(l, R(15)) = Wrap(SharedBase + Warp * u)
    <3>1. now \in d + 55 .. d + 55
      BY <1>2, <1>26
    <3>2. R(15) \in DOMAIN regs[l] /\ regs[l][R(15)] = Wrap(SharedBase + Warp * u)
      BY <1>1, <3>1 DEF Has
    <3>. QED BY <1>7, <3>2
  <2>3. "mov.u32" \in MoveOps /\ Reg(l, R(15)) \in Nat
    BY <1>3, <1>9, <1>11, <1>15, <2>2
  <2>4. Sets(l, X(2), Reg(l, R(15)))
    BY <2>1, <2>3, MoveSets
  <2>. QED BY <2>2, <2>4
<1>27. ASSUME now = d + 56 PROVE Sets(l, R(15), Wrap(N * u))
  <2>1. Line = L("mul.lo.u32", R(15), << R(12), R(17) >>)
    BY <1>10, <1>12, <1>27
  <2>2. Reg(l, R(12)) = N
    <3>1. now \in b + 38 .. d + 78
      BY <1>2, <1>27
    <3>. QED BY <1>6, <3>1
  <2>3. Reg(l, R(17)) = u
    <3>1. now \in b + 22 .. d + 56
      BY <1>2, <1>27
    <3>2. R(17) \in DOMAIN regs[l] /\ regs[l][R(17)] = u
      BY <1>1, <3>1 DEF Has
    <3>. QED BY <1>7, <3>2
  <2>4. Apply2("mul.lo.u32", "", N, u) = Wrap(N * u)
    <3>1. \A x, y : Apply2("mul.lo.u32", "", x, y) = Wrap(x * y)
      BY PairValues
    <3>. QED BY Zenon, <3>1
  <2>5. "mul.lo.u32" \in PairOps /\ Reg(l, R(12)) \in Nat /\ Reg(l, R(17)) \in Nat
    BY <1>3, <1>4, <1>9, <1>11, <1>13, <1>14, <1>18, <2>2, <2>3
  <2>6. Sets(l, R(15), Apply2("mul.lo.u32", "", Reg(l, R(12)), Reg(l, R(17))))
    BY <2>1, <2>5, PairSets
  <2>. QED BY <2>2, <2>3, <2>4, <2>6
<1>28. ASSUME now = d + 57 PROVE Sets(l, R(15), Wrap(SharedBase + N * u))
  <2>1. Line = L("add.u32", R(15), << R(15), Imm(SharedBase) >>)
    BY <1>10, <1>12, <1>28
  <2>2. Reg(l, R(15)) = Wrap(N * u)
    <3>1. now \in d + 57 .. d + 57
      BY <1>2, <1>28
    <3>2. R(15) \in DOMAIN regs[l] /\ regs[l][R(15)] = Wrap(N * u)
      BY <1>1, <3>1 DEF Has, N
    <3>. QED BY <1>7, <3>2
  <2>3. Reg(l, Imm(SharedBase)) = SharedBase
    BY <1>8
  <2>4. Apply2("add.u32", "", Wrap(N * u), SharedBase) = Wrap(SharedBase + N * u)
    <3>1. \A x, y : Apply2("add.u32", "", x, y) = Wrap(x + y)
      BY PairValues
    <3>. QED BY <1>13, <1>14, <3>1
  <2>5. "add.u32" \in PairOps /\ Reg(l, R(15)) \in Nat /\ Reg(l, Imm(SharedBase)) \in Nat
    BY <1>3, <1>4, <1>9, <1>11, <1>13, <1>14, <1>18, <2>2, <2>3
  <2>6. Sets(l, R(15), Apply2("add.u32", "", Reg(l, R(15)), Reg(l, Imm(SharedBase))))
    BY <2>1, <2>5, PairSets
  <2>. QED BY <2>2, <2>3, <2>4, <2>6
<1>29. ASSUME now = d + 58 PROVE Sets(l, X(8), Wrap(SharedBase + N * u))
  <2>1. Line = L("mov.u32", X(8), << R(15) >>)
    BY <1>10, <1>12, <1>29
  <2>2. Reg(l, R(15)) = Wrap(SharedBase + N * u)
    <3>1. now \in d + 58 .. d + 58
      BY <1>2, <1>29
    <3>2. R(15) \in DOMAIN regs[l] /\ regs[l][R(15)] = Wrap(SharedBase + N * u)
      BY <1>1, <3>1 DEF Has, N
    <3>. QED BY <1>7, <3>2
  <2>3. "mov.u32" \in MoveOps /\ Reg(l, R(15)) \in Nat
    BY <1>3, <1>9, <1>11, <1>15, <2>2
  <2>4. Sets(l, X(8), Reg(l, R(15)))
    BY <2>1, <2>3, MoveSets
  <2>. QED BY <2>2, <2>4
<1>30. ASSUME now = d + 75 PROVE Sets(l, X(10), z)
  <2>1. Line = L("mov.u32", X(10), << R(17) >>)
    BY <1>10, <1>12, <1>30
  <2>2. Reg(l, R(17)) = z
    <3>1. now \in d + 75 .. d + 75
      BY <1>2, <1>30
    <3>2. R(17) \in DOMAIN regs[l] /\ regs[l][R(17)] = z
      BY <1>1, <3>1 DEF Has
    <3>. QED BY <1>7, <3>2
  <2>3. "mov.u32" \in MoveOps /\ Reg(l, R(17)) \in Nat
    BY <1>3, <1>9, <1>11, <1>15, <2>2
  <2>4. Sets(l, X(10), Reg(l, R(17)))
    BY <2>1, <2>3, MoveSets
  <2>. QED BY <2>2, <2>4
<1>. QED BY <1>19, <1>20, <1>21, <1>22, <1>23, <1>24, <1>25, <1>26, <1>27, <1>28, <1>29, <1>30 DEF b, d, u, z, N

LEMMA LaunchKept ==
  ASSUME Running, Next, NEW l \in active, EntryHas(l), LaunchHas(l), EntryCode(code, First, Later, prog.gp),
           HeadLength = 22, mem = << >>
  PROVE  LaunchHas(l)'
<1>. DEFINE b == First
            d == Later
            u == WordOf(56)
            z == WordOf(4)
<1>1. /\ Has(l, b + 22, d + 56, R(17), u)
      /\ Has(l, b + 47, b + 48, P(1), Bool(Launch.pdsBase < GlobalBase))
      /\ Has(l, b + 48, b + 48, P(2), Bool(Launch.pdsSize # 0))
      /\ Has(l, b + 49, b + 49, P(1), Bool(LowPool))
      /\ Has(l, b + 52, b + 52, R(15), 0)
      /\ Has(l, b + 53, d + 78, X(4), 0)
      /\ Has(l, d + 54, d + 54, R(15), Wrap(Warp * u))
      /\ Has(l, d + 55, d + 55, R(15), Wrap(SharedBase + Warp * u))
      /\ Has(l, d + 56, d + 78, X(2), Wrap(SharedBase + Warp * u))
      /\ Has(l, d + 57, d + 57, R(15), Wrap(WarpsOf(Shape) * u))
      /\ Has(l, d + 58, d + 58, R(15), Wrap(SharedBase + WarpsOf(Shape) * u))
      /\ Has(l, d + 59, d + 78, X(8), Wrap(SharedBase + WarpsOf(Shape) * u))
      /\ Has(l, d + 75, d + 75, R(17), z)
      /\ Has(l, d + 76, d + 78, X(10), z)
  BY DEF LaunchHas
<1>2. /\ b \in Nat /\ d \in Nat /\ (d = b \/ d = b + 2)
      /\ now \in Nat /\ Line = code[now] /\ now' = now + 1 /\ now \in b .. d + 77
  BY Zenon, LaterPlace, LanesInStep
<1>3. /\ now = b + 46 => Sets(l, P(1), Bool(Launch.pdsBase < GlobalBase))
      /\ now = b + 47 => Sets(l, P(2), Bool(Launch.pdsSize # 0))
      /\ now = b + 48 => Sets(l, P(1), Bool(LowPool))
      /\ now = b + 51 => Sets(l, R(15), 0)
      /\ now = b + 52 => Sets(l, X(4), 0)
      /\ now = d + 53 => Sets(l, R(15), Wrap(Warp * u))
      /\ now = d + 54 => Sets(l, R(15), Wrap(SharedBase + Warp * u))
      /\ now = d + 55 => Sets(l, X(2), Wrap(SharedBase + Warp * u))
      /\ now = d + 56 => Sets(l, R(15), Wrap(WarpsOf(Shape) * u))
      /\ now = d + 57 => Sets(l, R(15), Wrap(SharedBase + WarpsOf(Shape) * u))
      /\ now = d + 58 => Sets(l, X(8), Wrap(SharedBase + WarpsOf(Shape) * u))
      /\ now = d + 75 => Sets(l, X(10), z)
  BY LaunchWrites
<1>4. /\ now \in b + 1 .. d + 78 => Reg(l, RD(0)) = Device["global_base"]
      /\ now \in b + 2 .. d + 78 => Reg(l, R(30)) = Device["knl_vaddr"]
  BY Zenon, EntryHeld
<1>5. KnlLaid(code, b + 6, 56) /\ KnlLaid(code, d + 59, 4) /\ KnlHas(l, b + 6, 56) /\ KnlHas(l, d + 59, 4)
  BY Zenon DEF EntryCode, LaunchHas
<1>6. /\ \A k \in b + 22 .. d + 55 : code[k].d # R(17)
      /\ \A k \in b + 53 .. d + 77 : code[k].d # X(4)
      /\ \A k \in d + 56 .. d + 77 : code[k].d # X(2)
      /\ \A k \in d + 59 .. d + 77 : code[k].d # X(8)
      /\ \A k \in d + 76 .. d + 77 : code[k].d # X(10)
  <2>1. EntryCode(code, b, d, prog.gp) /\ b \in Nat /\ d \in Nat
    BY <1>2
  <2>. HIDE DEF b, d
  <2>. QED BY <2>1, ResultLines
<1>7. code[b + 47].d # P(1)
  <2>1. code[b + 47] = L("setp.ne.u32", P(2), << R(29), Imm(0) >>)
    BY Zenon DEF EntryCode
  <2>2. code[b + 47].d = P(2)
    BY <2>1, LineFields
  <2>3. P(2) # P(1)
    BY DEF P
  <2>. QED BY <2>2, <2>3
<1>8. /\ R(17) \notin AcquireScratch /\ P(1) \notin AcquireScratch /\ X(2) \notin AcquireScratch
      /\ X(4) \notin AcquireScratch /\ X(8) \notin AcquireScratch /\ X(10) \notin AcquireScratch
  BY DEF AcquireScratch, R, RD, P, X
<1>. HIDE DEF b, d, u, z
<1>9. KnlHas(l, b + 6, 56)' /\ (now = b + 21 => Sets(l, R(17), u))
  <2>. DEFINE q == b + 6
  <2>1. q \in Nat /\ q + 15 = b + 21 /\ (now = q => now \in b + 2 .. d + 78) /\ (now = q + 13 => now \in b + 1 .. d + 78)
    BY <1>2
  <2>2. KnlLaid(code, q, 56) /\ KnlHas(l, q, 56)
    BY <1>5
  <2>. HIDE DEF q
  <2>3. /\ now = q => Reg(l, R(30)) = Device["knl_vaddr"]
        /\ now = q + 13 => Reg(l, RD(0)) = Device["global_base"]
    BY <1>4, <2>1
  <2>4. 56 \in { 4, 56 }
    OBVIOUS
  <2>5. KnlHas(l, q, 56)' /\ (now = q + 15 => Sets(l, R(17), WordOf(56)))
    BY <2>1, <2>2, <2>3, <2>4, KnlKept
  <2>6. KnlHas(l, q, 56)' /\ (now = b + 21 => Sets(l, R(17), WordOf(56)))
    BY <2>1, <2>5
  <2>. QED BY <2>6 DEF q, u
<1>10. KnlHas(l, d + 59, 4)' /\ (now = d + 74 => Sets(l, R(17), z))
  <2>1. PICK q : q = d + 59
    OBVIOUS
  <2>2. q \in Nat /\ q + 15 = d + 74 /\ (now = q => now \in b + 2 .. d + 78) /\ (now = q + 13 => now \in b + 1 .. d + 78)
    BY <1>2, <2>1
  <2>3. KnlLaid(code, q, 4) /\ KnlHas(l, q, 4)
    BY <1>5, <2>1
  <2>4. /\ now = q => Reg(l, R(30)) = Device["knl_vaddr"]
        /\ now = q + 13 => Reg(l, RD(0)) = Device["global_base"]
    BY <1>4, <2>2
  <2>5. 4 \in { 4, 56 }
    OBVIOUS
  <2>6. KnlHas(l, q, 4)' /\ (now = q + 15 => Sets(l, R(17), WordOf(4)))
    BY <2>2, <2>3, <2>4, <2>5, KnlKept
  <2>7. now = d + 74 => Sets(l, R(17), z)
    BY <2>2, <2>6 DEF z
  <2>8. KnlHas(l, d + 59, 4)'
    <3>1. UNCHANGED grid
      BY RunningStep
    <3>2. Later' = Later
      BY <3>1 DEF grid, Later
    <3>3. (Later + 59)' = q
      BY <2>1, <3>2 DEF d
    <3>4. KnlHas(l, Later + 59, 4)'
      BY <2>6, <3>3 DEF KnlHas, Has
    <3>. QED BY <3>4 DEF d
  <2>. QED BY <2>7, <2>8
<1>11. now + 1 \in b + 22 .. d + 56 => Sets(l, R(17), u)
  <2>1. b + 22 \in Nat /\ d + 56 \in Nat /\ Has(l, b + 22, d + 56, R(17), u)
    BY <1>1, <1>2
  <2>2. now + 1 = b + 22 => Sets(l, R(17), u)
    <3>1. now + 1 = b + 22 => now = b + 21
      BY <1>2
    <3>. QED BY <3>1, <1>9
  <2>3. now \in b + 22 .. (d + 56) - 1 => Line.d # R(17) /\ (Line.op # "pds.acquire" \/ R(17) \notin AcquireScratch)
    <3>1. now \in b + 22 .. (d + 56) - 1 => now \in b + 22 .. d + 55
      BY <1>2
    <3>. QED BY <1>2, <1>6, <1>8, <3>1
  <2>. QED BY <2>1, <2>2, <2>3, FactStays
<1>12. now + 1 \in b + 47 .. b + 48 => Sets(l, P(1), Bool(Launch.pdsBase < GlobalBase))
  <2>1. b + 47 \in Nat /\ b + 48 \in Nat /\ Has(l, b + 47, b + 48, P(1), Bool(Launch.pdsBase < GlobalBase))
    BY <1>1, <1>2
  <2>2. now + 1 = b + 47 => Sets(l, P(1), Bool(Launch.pdsBase < GlobalBase))
    <3>1. now + 1 = b + 47 => now = b + 46
      BY <1>2
    <3>. QED BY <3>1, <1>3
  <2>3. now \in b + 47 .. (b + 48) - 1 => Line.d # P(1) /\ (Line.op # "pds.acquire" \/ P(1) \notin AcquireScratch)
    <3>1. now \in b + 47 .. (b + 48) - 1 => now = b + 47
      BY <1>2
    <3>. QED BY <1>2, <1>7, <1>8, <3>1
  <2>. QED BY <2>1, <2>2, <2>3, FactStays
<1>13. now + 1 \in b + 48 .. b + 48 => Sets(l, P(2), Bool(Launch.pdsSize # 0))
  <2>1. b + 48 \in Nat /\ b + 48 \in Nat /\ Has(l, b + 48, b + 48, P(2), Bool(Launch.pdsSize # 0))
    BY <1>1, <1>2
  <2>2. now + 1 = b + 48 => Sets(l, P(2), Bool(Launch.pdsSize # 0))
    <3>1. now + 1 = b + 48 => now = b + 47
      BY <1>2
    <3>. QED BY <3>1, <1>3
  <2>3. now \in b + 48 .. (b + 48) - 1 => Line.d # P(2) /\ (Line.op # "pds.acquire" \/ P(2) \notin AcquireScratch)
    <3>1. ~(now \in b + 48 .. (b + 48) - 1)
      BY <1>2
    <3>. QED BY <3>1
  <2>. QED BY <2>1, <2>2, <2>3, FactStays
<1>14. now + 1 \in b + 49 .. b + 49 => Sets(l, P(1), Bool(LowPool))
  <2>1. b + 49 \in Nat /\ b + 49 \in Nat /\ Has(l, b + 49, b + 49, P(1), Bool(LowPool))
    BY <1>1, <1>2
  <2>2. now + 1 = b + 49 => Sets(l, P(1), Bool(LowPool))
    <3>1. now + 1 = b + 49 => now = b + 48
      BY <1>2
    <3>. QED BY <3>1, <1>3
  <2>3. now \in b + 49 .. (b + 49) - 1 => Line.d # P(1) /\ (Line.op # "pds.acquire" \/ P(1) \notin AcquireScratch)
    <3>1. ~(now \in b + 49 .. (b + 49) - 1)
      BY <1>2
    <3>. QED BY <3>1
  <2>. QED BY <2>1, <2>2, <2>3, FactStays
<1>15. now + 1 \in b + 52 .. b + 52 => Sets(l, R(15), 0)
  <2>1. b + 52 \in Nat /\ b + 52 \in Nat /\ Has(l, b + 52, b + 52, R(15), 0)
    BY <1>1, <1>2
  <2>2. now + 1 = b + 52 => Sets(l, R(15), 0)
    <3>1. now + 1 = b + 52 => now = b + 51
      BY <1>2
    <3>. QED BY <3>1, <1>3
  <2>3. now \in b + 52 .. (b + 52) - 1 => Line.d # R(15) /\ (Line.op # "pds.acquire" \/ R(15) \notin AcquireScratch)
    <3>1. ~(now \in b + 52 .. (b + 52) - 1)
      BY <1>2
    <3>. QED BY <3>1
  <2>. QED BY <2>1, <2>2, <2>3, FactStays
<1>16. now + 1 \in b + 53 .. d + 78 => Sets(l, X(4), 0)
  <2>1. b + 53 \in Nat /\ d + 78 \in Nat /\ Has(l, b + 53, d + 78, X(4), 0)
    BY <1>1, <1>2
  <2>2. now + 1 = b + 53 => Sets(l, X(4), 0)
    <3>1. now + 1 = b + 53 => now = b + 52
      BY <1>2
    <3>. QED BY <3>1, <1>3
  <2>3. now \in b + 53 .. (d + 78) - 1 => Line.d # X(4) /\ (Line.op # "pds.acquire" \/ X(4) \notin AcquireScratch)
    <3>1. now \in b + 53 .. (d + 78) - 1 => now \in b + 53 .. d + 77
      BY <1>2
    <3>. QED BY <1>2, <1>6, <1>8, <3>1
  <2>. QED BY <2>1, <2>2, <2>3, FactStays
<1>17. now + 1 \in d + 54 .. d + 54 => Sets(l, R(15), Wrap(Warp * u))
  <2>1. d + 54 \in Nat /\ d + 54 \in Nat /\ Has(l, d + 54, d + 54, R(15), Wrap(Warp * u))
    BY <1>1, <1>2
  <2>2. now + 1 = d + 54 => Sets(l, R(15), Wrap(Warp * u))
    <3>1. now + 1 = d + 54 => now = d + 53
      BY <1>2
    <3>. QED BY <3>1, <1>3
  <2>3. now \in d + 54 .. (d + 54) - 1 => Line.d # R(15) /\ (Line.op # "pds.acquire" \/ R(15) \notin AcquireScratch)
    <3>1. ~(now \in d + 54 .. (d + 54) - 1)
      BY <1>2
    <3>. QED BY <3>1
  <2>. QED BY <2>1, <2>2, <2>3, FactStays
<1>18. now + 1 \in d + 55 .. d + 55 => Sets(l, R(15), Wrap(SharedBase + Warp * u))
  <2>1. d + 55 \in Nat /\ d + 55 \in Nat /\ Has(l, d + 55, d + 55, R(15), Wrap(SharedBase + Warp * u))
    BY <1>1, <1>2
  <2>2. now + 1 = d + 55 => Sets(l, R(15), Wrap(SharedBase + Warp * u))
    <3>1. now + 1 = d + 55 => now = d + 54
      BY <1>2
    <3>. QED BY <3>1, <1>3
  <2>3. now \in d + 55 .. (d + 55) - 1 => Line.d # R(15) /\ (Line.op # "pds.acquire" \/ R(15) \notin AcquireScratch)
    <3>1. ~(now \in d + 55 .. (d + 55) - 1)
      BY <1>2
    <3>. QED BY <3>1
  <2>. QED BY <2>1, <2>2, <2>3, FactStays
<1>19. now + 1 \in d + 56 .. d + 78 => Sets(l, X(2), Wrap(SharedBase + Warp * u))
  <2>1. d + 56 \in Nat /\ d + 78 \in Nat /\ Has(l, d + 56, d + 78, X(2), Wrap(SharedBase + Warp * u))
    BY <1>1, <1>2
  <2>2. now + 1 = d + 56 => Sets(l, X(2), Wrap(SharedBase + Warp * u))
    <3>1. now + 1 = d + 56 => now = d + 55
      BY <1>2
    <3>. QED BY <3>1, <1>3
  <2>3. now \in d + 56 .. (d + 78) - 1 => Line.d # X(2) /\ (Line.op # "pds.acquire" \/ X(2) \notin AcquireScratch)
    <3>1. now \in d + 56 .. (d + 78) - 1 => now \in d + 56 .. d + 77
      BY <1>2
    <3>. QED BY <1>2, <1>6, <1>8, <3>1
  <2>. QED BY <2>1, <2>2, <2>3, FactStays
<1>20. now + 1 \in d + 57 .. d + 57 => Sets(l, R(15), Wrap(WarpsOf(Shape) * u))
  <2>1. d + 57 \in Nat /\ d + 57 \in Nat /\ Has(l, d + 57, d + 57, R(15), Wrap(WarpsOf(Shape) * u))
    BY <1>1, <1>2
  <2>2. now + 1 = d + 57 => Sets(l, R(15), Wrap(WarpsOf(Shape) * u))
    <3>1. now + 1 = d + 57 => now = d + 56
      BY <1>2
    <3>. QED BY <3>1, <1>3
  <2>3. now \in d + 57 .. (d + 57) - 1 => Line.d # R(15) /\ (Line.op # "pds.acquire" \/ R(15) \notin AcquireScratch)
    <3>1. ~(now \in d + 57 .. (d + 57) - 1)
      BY <1>2
    <3>. QED BY <3>1
  <2>. QED BY <2>1, <2>2, <2>3, FactStays
<1>21. now + 1 \in d + 58 .. d + 58 => Sets(l, R(15), Wrap(SharedBase + WarpsOf(Shape) * u))
  <2>1. d + 58 \in Nat /\ d + 58 \in Nat /\ Has(l, d + 58, d + 58, R(15), Wrap(SharedBase + WarpsOf(Shape) * u))
    BY <1>1, <1>2
  <2>2. now + 1 = d + 58 => Sets(l, R(15), Wrap(SharedBase + WarpsOf(Shape) * u))
    <3>1. now + 1 = d + 58 => now = d + 57
      BY <1>2
    <3>. QED BY <3>1, <1>3
  <2>3. now \in d + 58 .. (d + 58) - 1 => Line.d # R(15) /\ (Line.op # "pds.acquire" \/ R(15) \notin AcquireScratch)
    <3>1. ~(now \in d + 58 .. (d + 58) - 1)
      BY <1>2
    <3>. QED BY <3>1
  <2>. QED BY <2>1, <2>2, <2>3, FactStays
<1>22. now + 1 \in d + 59 .. d + 78 => Sets(l, X(8), Wrap(SharedBase + WarpsOf(Shape) * u))
  <2>1. d + 59 \in Nat /\ d + 78 \in Nat /\ Has(l, d + 59, d + 78, X(8), Wrap(SharedBase + WarpsOf(Shape) * u))
    BY <1>1, <1>2
  <2>2. now + 1 = d + 59 => Sets(l, X(8), Wrap(SharedBase + WarpsOf(Shape) * u))
    <3>1. now + 1 = d + 59 => now = d + 58
      BY <1>2
    <3>. QED BY <3>1, <1>3
  <2>3. now \in d + 59 .. (d + 78) - 1 => Line.d # X(8) /\ (Line.op # "pds.acquire" \/ X(8) \notin AcquireScratch)
    <3>1. now \in d + 59 .. (d + 78) - 1 => now \in d + 59 .. d + 77
      BY <1>2
    <3>. QED BY <1>2, <1>6, <1>8, <3>1
  <2>. QED BY <2>1, <2>2, <2>3, FactStays
<1>23. now + 1 \in d + 75 .. d + 75 => Sets(l, R(17), z)
  <2>1. d + 75 \in Nat /\ d + 75 \in Nat /\ Has(l, d + 75, d + 75, R(17), z)
    BY <1>1, <1>2
  <2>2. now + 1 = d + 75 => Sets(l, R(17), z)
    <3>1. now + 1 = d + 75 => now = d + 74
      BY <1>2
    <3>. QED BY <3>1, <1>10
  <2>3. now \in d + 75 .. (d + 75) - 1 => Line.d # R(17) /\ (Line.op # "pds.acquire" \/ R(17) \notin AcquireScratch)
    <3>1. ~(now \in d + 75 .. (d + 75) - 1)
      BY <1>2
    <3>. QED BY <3>1
  <2>. QED BY <2>1, <2>2, <2>3, FactStays
<1>24. now + 1 \in d + 76 .. d + 78 => Sets(l, X(10), z)
  <2>1. d + 76 \in Nat /\ d + 78 \in Nat /\ Has(l, d + 76, d + 78, X(10), z)
    BY <1>1, <1>2
  <2>2. now + 1 = d + 76 => Sets(l, X(10), z)
    <3>1. now + 1 = d + 76 => now = d + 75
      BY <1>2
    <3>. QED BY <3>1, <1>3
  <2>3. now \in d + 76 .. (d + 78) - 1 => Line.d # X(10) /\ (Line.op # "pds.acquire" \/ X(10) \notin AcquireScratch)
    <3>1. now \in d + 76 .. (d + 78) - 1 => now \in d + 76 .. d + 77
      BY <1>2
    <3>. QED BY <1>2, <1>6, <1>8, <3>1
  <2>. QED BY <2>1, <2>2, <2>3, FactStays
<1>25. /\ now' \in b + 22 .. d + 56 => R(17) \in DOMAIN regs'[l] /\ regs'[l][R(17)] = u
       /\ now' \in b + 47 .. b + 48 => P(1) \in DOMAIN regs'[l] /\ regs'[l][P(1)] = Bool(Launch.pdsBase < GlobalBase)
       /\ now' \in b + 48 .. b + 48 => P(2) \in DOMAIN regs'[l] /\ regs'[l][P(2)] = Bool(Launch.pdsSize # 0)
       /\ now' \in b + 49 .. b + 49 => P(1) \in DOMAIN regs'[l] /\ regs'[l][P(1)] = Bool(LowPool)
       /\ now' \in b + 52 .. b + 52 => R(15) \in DOMAIN regs'[l] /\ regs'[l][R(15)] = 0
       /\ now' \in b + 53 .. d + 78 => X(4) \in DOMAIN regs'[l] /\ regs'[l][X(4)] = 0
       /\ now' \in d + 54 .. d + 54 => R(15) \in DOMAIN regs'[l] /\ regs'[l][R(15)] = Wrap(Warp * u)
       /\ now' \in d + 55 .. d + 55 => R(15) \in DOMAIN regs'[l] /\ regs'[l][R(15)] = Wrap(SharedBase + Warp * u)
       /\ now' \in d + 56 .. d + 78 => X(2) \in DOMAIN regs'[l] /\ regs'[l][X(2)] = Wrap(SharedBase + Warp * u)
       /\ now' \in d + 57 .. d + 57 => R(15) \in DOMAIN regs'[l] /\ regs'[l][R(15)] = Wrap(WarpsOf(Shape) * u)
       /\ now' \in d + 58 .. d + 58 => R(15) \in DOMAIN regs'[l] /\ regs'[l][R(15)] = Wrap(SharedBase + WarpsOf(Shape) * u)
       /\ now' \in d + 59 .. d + 78 => X(8) \in DOMAIN regs'[l] /\ regs'[l][X(8)] = Wrap(SharedBase + WarpsOf(Shape) * u)
       /\ now' \in d + 75 .. d + 75 => R(17) \in DOMAIN regs'[l] /\ regs'[l][R(17)] = z
       /\ now' \in d + 76 .. d + 78 => X(10) \in DOMAIN regs'[l] /\ regs'[l][X(10)] = z
  BY <1>2, <1>11, <1>12, <1>13, <1>14, <1>15, <1>16, <1>17, <1>18, <1>19,
     <1>20, <1>21, <1>22, <1>23, <1>24 DEF Sets
<1>26. Launch' = Launch /\ Warp' = Warp /\ Shape' = Shape /\ Later' = Later
  <2>1. UNCHANGED grid
    BY RunningStep
  <2>2. Kind' = Kind /\ input' = input /\ prog' = prog
    BY <2>1 DEF grid, Kind
  <2>. QED BY <2>2 DEF Launch, Warp, Shape, Later
<1>27. LowPool' = LowPool /\ WarpsOf(Shape)' = WarpsOf(Shape)
  BY <1>26 DEF LowPool, Asked, WarpsOf, Threads
<1>28. LaunchHas(l)'
  <2>1. Has(l, b + 22, d + 56, R(17), u)'
    BY <1>25, <1>26, <1>27 DEF Has, b, d, u, z
  <2>2. Has(l, b + 47, b + 48, P(1), Bool(Launch.pdsBase < GlobalBase))'
    BY <1>25, <1>26, <1>27 DEF Has, b, d, u, z
  <2>3. Has(l, b + 48, b + 48, P(2), Bool(Launch.pdsSize # 0))'
    BY <1>25, <1>26, <1>27 DEF Has, b, d, u, z
  <2>4. Has(l, b + 49, b + 49, P(1), Bool(LowPool))'
    BY <1>25, <1>26, <1>27 DEF Has, b, d, u, z
  <2>5. Has(l, b + 52, b + 52, R(15), 0)'
    BY <1>25, <1>26, <1>27 DEF Has, b, d, u, z
  <2>6. Has(l, b + 53, d + 78, X(4), 0)'
    BY <1>25, <1>26, <1>27 DEF Has, b, d, u, z
  <2>7. Has(l, d + 54, d + 54, R(15), Wrap(Warp * u))'
    BY <1>25, <1>26, <1>27 DEF Has, b, d, u, z
  <2>8. Has(l, d + 55, d + 55, R(15), Wrap(SharedBase + Warp * u))'
    BY <1>25, <1>26, <1>27 DEF Has, b, d, u, z
  <2>9. Has(l, d + 56, d + 78, X(2), Wrap(SharedBase + Warp * u))'
    BY <1>25, <1>26, <1>27 DEF Has, b, d, u, z
  <2>10. Has(l, d + 57, d + 57, R(15), Wrap(WarpsOf(Shape) * u))'
    BY <1>25, <1>26, <1>27 DEF Has, b, d, u, z
  <2>11. Has(l, d + 58, d + 58, R(15), Wrap(SharedBase + WarpsOf(Shape) * u))'
    BY <1>25, <1>26, <1>27 DEF Has, b, d, u, z
  <2>12. Has(l, d + 59, d + 78, X(8), Wrap(SharedBase + WarpsOf(Shape) * u))'
    BY <1>25, <1>26, <1>27 DEF Has, b, d, u, z
  <2>13. Has(l, d + 75, d + 75, R(17), z)'
    BY <1>25, <1>26, <1>27 DEF Has, b, d, u, z
  <2>14. Has(l, d + 76, d + 78, X(10), z)'
    BY <1>25, <1>26, <1>27 DEF Has, b, d, u, z
  <2>. QED BY Zenon, <1>9, <1>10, <2>1, <2>2, <2>3, <2>4, <2>5, <2>6, <2>7, <2>8, <2>9, <2>10, <2>11, <2>12, <2>13,
              <2>14 DEF LaunchHas, b, d, u, z
<1>. QED BY <1>28

(* What the pool is asked with, and the global pointer.                    *)
PoolHas(l) ==
  LET b == First
  IN  /\ Has(l, b + 33, b + 50, R(9), Linear(l))
      /\ Has(l, b + 5, b + 50, R(26), Launch.pdsBitmap)
      /\ Has(l, b + 6, b + 50, R(27), Launch.pdsBlocks)

PointerHas(l) ==
  LET b == First
      d == Later
  IN  prog.gp # 0 => Has(l, b + 54, b + 54, R(15), prog.gp) /\ Has(l, d + 53, d + 78, X(3), prog.gp)

LEMMA PoolKept ==
  ASSUME Running, Next, NEW l \in active, EntryHas(l), PoolHas(l), EntryCode(code, First, Later, prog.gp), HeadLength = 22
  PROVE  PoolHas(l)'
<1>. DEFINE b == First
            d == Later
            x == Linear(l)
            m == Launch.pdsBitmap
            k == Launch.pdsBlocks
<1>1. Has(l, b + 33, b + 50, R(9), x) /\ Has(l, b + 5, b + 50, R(26), m) /\ Has(l, b + 6, b + 50, R(27), k)
  BY DEF PoolHas
<1>2. b \in Nat /\ now \in Nat /\ Line = code[now] /\ now' = now + 1
  BY Zenon, LaterPlace, LanesInStep
<1>3. /\ \A i \in b + 33 .. b + 49 : code[i].d # R(9)
      /\ \A i \in b + 5 .. b + 49 : code[i].d # R(26)
      /\ \A i \in b + 6 .. b + 49 : code[i].d # R(27)
  <2>1. EntryCode(code, b, d, prog.gp) /\ b \in Nat /\ d \in Nat
    BY Zenon, LaterPlace
  <2>. HIDE DEF b, d
  <2>. QED BY <2>1, ResultLines
<1>4. R(9) \notin AcquireScratch /\ R(26) \notin AcquireScratch /\ R(27) \notin AcquireScratch
  BY DEF AcquireScratch, R, RD, P
<1>5. /\ code[b + 4] = L("mov.u32", R(26), << Special("pds_bitmap_base_vaddr") >>)
      /\ code[b + 5] = L("mov.u32", R(27), << Special("pds_pool_num_blocks") >>)
  BY Zenon DEF EntryCode
<1>6. /\ SpecialOf(l, "pds_bitmap_base_vaddr") = m /\ m \in Nat
      /\ SpecialOf(l, "pds_pool_num_blocks") = k /\ k \in Nat
  BY LaunchNumbers DEF SpecialOf, Running
<1>7. now = b + 32 => Sets(l, R(9), x)
  <2>1. now = First + HeadLength + 10 => Sets(l, R(9), Linear(l))
    BY Zenon, EntryWrites
  <2>2. First + HeadLength + 10 = b + 32
    BY <1>2
  <2>. QED BY <2>1, <2>2
<1>. HIDE DEF b, d, x, m, k
<1>8. now = b + 4 => Sets(l, R(26), m)
  <2>. SUFFICES ASSUME now = b + 4 PROVE Sets(l, R(26), m)
    OBVIOUS
  <2>1. Line = L("mov.u32", R(26), << Special("pds_bitmap_base_vaddr") >>)
    BY <1>2, <1>5
  <2>. QED BY <1>6, <2>1, SetsBy
<1>9. now = b + 5 => Sets(l, R(27), k)
  <2>. SUFFICES ASSUME now = b + 5 PROVE Sets(l, R(27), k)
    OBVIOUS
  <2>1. Line = L("mov.u32", R(27), << Special("pds_pool_num_blocks") >>)
    BY <1>2, <1>5
  <2>. QED BY <1>6, <2>1, SetsBy
<1>10. now + 1 \in b + 33 .. b + 50 => Sets(l, R(9), x)
  <2>1. b + 33 \in Nat /\ b + 50 \in Nat /\ Has(l, b + 33, b + 50, R(9), x)
    BY <1>1, <1>2
  <2>2. now + 1 = b + 33 => Sets(l, R(9), x)
    <3>1. now + 1 = b + 33 => now = b + 32
      BY <1>2
    <3>. QED BY <3>1, <1>7
  <2>3. now \in b + 33 .. (b + 50) - 1 => Line.d # R(9) /\ (Line.op # "pds.acquire" \/ R(9) \notin AcquireScratch)
    <3>1. now \in b + 33 .. (b + 50) - 1 => now \in b + 33 .. b + 49
      BY <1>2
    <3>. QED BY <1>2, <1>3, <1>4, <3>1
  <2>. QED BY <2>1, <2>2, <2>3, FactStays
<1>11. now + 1 \in b + 5 .. b + 50 => Sets(l, R(26), m)
  <2>1. b + 5 \in Nat /\ b + 50 \in Nat /\ Has(l, b + 5, b + 50, R(26), m)
    BY <1>1, <1>2
  <2>2. now + 1 = b + 5 => Sets(l, R(26), m)
    <3>1. now + 1 = b + 5 => now = b + 4
      BY <1>2
    <3>. QED BY <3>1, <1>8
  <2>3. now \in b + 5 .. (b + 50) - 1 => Line.d # R(26) /\ (Line.op # "pds.acquire" \/ R(26) \notin AcquireScratch)
    <3>1. now \in b + 5 .. (b + 50) - 1 => now \in b + 5 .. b + 49
      BY <1>2
    <3>. QED BY <1>2, <1>3, <1>4, <3>1
  <2>. QED BY <2>1, <2>2, <2>3, FactStays
<1>12. now + 1 \in b + 6 .. b + 50 => Sets(l, R(27), k)
  <2>1. b + 6 \in Nat /\ b + 50 \in Nat /\ Has(l, b + 6, b + 50, R(27), k)
    BY <1>1, <1>2
  <2>2. now + 1 = b + 6 => Sets(l, R(27), k)
    <3>1. now + 1 = b + 6 => now = b + 5
      BY <1>2
    <3>. QED BY <3>1, <1>9
  <2>3. now \in b + 6 .. (b + 50) - 1 => Line.d # R(27) /\ (Line.op # "pds.acquire" \/ R(27) \notin AcquireScratch)
    <3>1. now \in b + 6 .. (b + 50) - 1 => now \in b + 6 .. b + 49
      BY <1>2
    <3>. QED BY <1>2, <1>3, <1>4, <3>1
  <2>. QED BY <2>1, <2>2, <2>3, FactStays
<1>13. /\ now' \in b + 33 .. b + 50 => R(9) \in DOMAIN regs'[l] /\ regs'[l][R(9)] = x
       /\ now' \in b + 5 .. b + 50 => R(26) \in DOMAIN regs'[l] /\ regs'[l][R(26)] = m
       /\ now' \in b + 6 .. b + 50 => R(27) \in DOMAIN regs'[l] /\ regs'[l][R(27)] = k
  BY <1>2, <1>10, <1>11, <1>12 DEF Sets
<1>14. Launch' = Launch /\ Linear(l)' = Linear(l)
  <2>1. UNCHANGED grid
    BY RunningStep
  <2>2. Kind' = Kind /\ input' = input
    BY <2>1 DEF grid, Kind
  <2>3. Launch' = Launch /\ Warp' = Warp
    BY <2>2 DEF Launch, Warp
  <2>. QED BY <2>3 DEF Linear
<1>. QED BY <1>13, <1>14 DEF PoolHas, Has, b, x, m, k

LEMMA PointerKept ==
  ASSUME Running, Next, NEW l \in active, PointerHas(l), EntryCode(code, First, Later, prog.gp)
  PROVE  PointerHas(l)'
<1>. DEFINE b == First
            d == Later
            g == prog.gp
<1>0. prog' = prog /\ Later' = Later
  <2>1. UNCHANGED grid
    BY RunningStep
  <2>. QED BY <2>1 DEF grid, Later
<1>. SUFFICES ASSUME prog.gp # 0
              PROVE  /\ now' \in First + 54 .. First + 54 => R(15) \in DOMAIN regs'[l] /\ regs'[l][R(15)] = prog.gp
                     /\ now' \in Later + 53 .. Later + 78 => X(3) \in DOMAIN regs'[l] /\ regs'[l][X(3)] = prog.gp
  BY <1>0 DEF PointerHas, Has
<1>1. Has(l, b + 54, b + 54, R(15), g) /\ Has(l, d + 53, d + 78, X(3), g)
  BY DEF PointerHas
<1>2. b \in Nat /\ d \in Nat /\ d = b + 2 /\ now \in Nat /\ Line = code[now] /\ now' = now + 1
  <2>1. /\ First \in Nat /\ Later \in Nat /\ (Later = First \/ Later = First + 2)
        /\ (Later = First <=> prog.gp = 0) /\ now \in Nat /\ Line = code[now]
    BY Zenon, LaterPlace
  <2>2. now' = now + 1
    BY LanesInStep
  <2>. QED BY Zenon, <2>1, <2>2
<1>3. \A i \in d + 53 .. d + 77 : code[i].d # X(3)
  <2>1. EntryCode(code, b, d, prog.gp) /\ b \in Nat /\ d \in Nat
    BY Zenon, LaterPlace
  <2>. HIDE DEF b, d
  <2>. QED BY <2>1, ResultLines
<1>4. X(3) \notin AcquireScratch
  BY DEF AcquireScratch, R, RD, P, X
<1>5. /\ code[b + 53] = L("mov.u32", R(15), << Imm(g) >>)
      /\ code[b + 54] = L("mov.u32", X(3), << R(15) >>)
  BY Zenon DEF EntryCode
<1>6. g \in Nat /\ Reg(l, Imm(g)) = g
  <2>1. prog \in Progs /\ prog.kind = "entry"
    BY DEF Running, GridE, Kind
  <2>2. prog.gp \in 0 .. Top - 1
    BY Zenon, <2>1, ProgsAssumption
  <2>. HIDE DEF g
  <2>3. g \in Nat /\ Wrap(g) = g
    BY <2>2, Wraps DEF g
  <2>. QED BY <2>3, RegOf
<1>7. now \in b + 54 .. b + 54 => Reg(l, R(15)) = g
  <2>1. now \in b + 54 .. b + 54 => R(15) \in DOMAIN regs[l] /\ regs[l][R(15)] = g
    BY <1>1 DEF Has
  <2>. QED BY <2>1, RegOf
<1>. HIDE DEF b, d, g
<1>8. "mov.u32" \in MoveOps
  BY DEF MoveOps
<1>9. now = b + 53 => Sets(l, R(15), g)
  <2>. SUFFICES ASSUME now = b + 53 PROVE Sets(l, R(15), g)
    OBVIOUS
  <2>1. Line = L("mov.u32", R(15), << Imm(g) >>)
    BY <1>2, <1>5
  <2>2. Sets(l, R(15), Reg(l, Imm(g)))
    BY <1>6, <1>8, <2>1, MoveSets
  <2>. QED BY <1>6, <2>2
<1>10. now = b + 54 => Sets(l, X(3), g)
  <2>. SUFFICES ASSUME now = b + 54 PROVE Sets(l, X(3), g)
    OBVIOUS
  <2>1. Line = L("mov.u32", X(3), << R(15) >>)
    BY <1>2, <1>5
  <2>2. Reg(l, R(15)) = g
    BY <1>2, <1>7
  <2>3. Sets(l, X(3), Reg(l, R(15)))
    BY <1>6, <1>8, <2>1, <2>2, MoveSets
  <2>. QED BY <2>2, <2>3
<1>11. now + 1 \in b + 54 .. b + 54 => Sets(l, R(15), g)
  <2>1. b + 54 \in Nat /\ b + 54 \in Nat /\ Has(l, b + 54, b + 54, R(15), g)
    BY <1>1, <1>2
  <2>2. now + 1 = b + 54 => Sets(l, R(15), g)
    <3>1. now + 1 = b + 54 => now = b + 53
      BY <1>2
    <3>. QED BY <3>1, <1>9
  <2>3. now \in b + 54 .. (b + 54) - 1 => Line.d # R(15) /\ (Line.op # "pds.acquire" \/ R(15) \notin AcquireScratch)
    <3>1. ~(now \in b + 54 .. (b + 54) - 1)
      BY <1>2
    <3>. QED BY <3>1
  <2>. QED BY <2>1, <2>2, <2>3, FactStays
<1>12. now + 1 \in d + 53 .. d + 78 => Sets(l, X(3), g)
  <2>1. d + 53 \in Nat /\ d + 78 \in Nat /\ Has(l, d + 53, d + 78, X(3), g)
    BY <1>1, <1>2
  <2>2. now + 1 = d + 53 => Sets(l, X(3), g)
    <3>1. now + 1 = d + 53 => now = b + 54
      BY <1>2
    <3>. QED BY <3>1, <1>10
  <2>3. now \in d + 53 .. (d + 78) - 1 => Line.d # X(3) /\ (Line.op # "pds.acquire" \/ X(3) \notin AcquireScratch)
    <3>1. now \in d + 53 .. (d + 78) - 1 => now \in d + 53 .. d + 77
      BY <1>2
    <3>. QED BY <1>2, <1>3, <1>4, <3>1
  <2>. QED BY <2>1, <2>2, <2>3, FactStays
<1>13. /\ now' \in b + 54 .. b + 54 => R(15) \in DOMAIN regs'[l] /\ regs'[l][R(15)] = g
       /\ now' \in d + 53 .. d + 78 => X(3) \in DOMAIN regs'[l] /\ regs'[l][X(3)] = g
  BY <1>2, <1>11, <1>12 DEF Sets
<1>. QED BY <1>13 DEF b, d, g

----------------------------------------------------------------------------
(* The whole of the entry: lanes, memory, and what stops the launch.       *)
Denied == NoBlock /\ Warp = 0

StopsBy(n) == (LowPool /\ n >= First + 50) \/ (Denied /\ n >= First + 51)

Prepares ==
  Kind = "entry" =>
    /\ 0 \in active /\ mem = << >>
    /\ fault = IF StopsBy(now) THEN "trap" ELSE "none"
    /\ \A l \in active : LaunchHas(l) /\ PoolHas(l) /\ PointerHas(l)

LEMMA FaultFollows ==
  ASSUME Running, Next, EntryCode(code, First, Later, prog.gp), HeadLength = 22, 0 \in active,
         \A l \in active : EntryHas(l) /\ LaunchHas(l) /\ PoolHas(l), mem = << >>,
         fault = IF StopsBy(now) THEN "trap" ELSE "none"
  PROVE  /\ mem' = << >>
         /\ fault' = IF StopsBy(now + 1) THEN "trap" ELSE "none"
<1>. DEFINE b == First
            d == Later
<1>1. b \in Nat /\ d \in Nat /\ (d = b \/ d = b + 2) /\ now \in Nat /\ Line = code[now] /\ now \in b .. d + 77
  BY Zenon, LaterPlace
<1>2. fault = "none"
  BY DEF Running, Over
<1>3. (LowPool => ~(now >= b + 50)) /\ (Denied => ~(now >= b + 51))
  BY <1>2 DEF StopsBy
<1>4. \A k \in b .. d + 77 :
        /\ code[k].op \notin StoreOps \cup { "unsupported" }
        /\ code[k].op = "trap" => k \in { b + 13, b + 49, d + 66 }
        /\ code[k].op = "pds.acquire" => k = b + 50
  <2>1. EntryCode(code, b, d, prog.gp) /\ b \in Nat /\ d \in Nat
    BY <1>1
  <2>. HIDE DEF b, d
  <2>. QED BY <2>1, ResultLines
<1>5. EntryCode(code, b, d, prog.gp)
  OBVIOUS
<1>6. \A l \in active :
        /\ KnlHas(l, b + 6, 56) /\ KnlHas(l, d + 59, 4)
        /\ Has(l, b + 49, b + 49, P(1), Bool(LowPool))
  BY Zenon DEF LaunchHas
<1>7. \A l : \A i : P(i) \in DOMAIN regs[l] => Reg(l, P(i)) = regs[l][P(i)]
  BY Zenon, HeldBy, RegFiles
<1>. SUFFICES mem' = << >> /\ fault' = IF StopsBy(now + 1) THEN "trap" ELSE "none"
  OBVIOUS
<1>. HIDE DEF b, d
<1>8. mem' = << >>
  <2>1. Line.op \notin StoreOps
    BY <1>1, <1>4
  <2>. QED BY <2>1, MemoryStays
<1>9. now \notin { b + 49, b + 50 } => ~StopsBy(now + 1)
  BY <1>1, <1>3 DEF StopsBy, b
<1>10. CASE now \notin { b + 13, b + 49, b + 50, d + 66 }
  <2>1. Line.op \notin { "trap", "unsupported", "pds.acquire" }
    BY <1>1, <1>4, <1>10
  <2>2. fault' = fault
    BY <2>1, NoFault
  <2>. QED BY <1>2, <1>8, <1>9, <1>10, <2>2
<1>11. ASSUME NEW q \in Nat, NEW n, KnlLaid(code, q, n), \A l \in active : KnlHas(l, q, n), now = q + 7,
         q + 7 \notin { b + 49, b + 50 }
       PROVE  mem' = << >> /\ fault' = IF StopsBy(now + 1) THEN "trap" ELSE "none"
  <2>1. Line = Unless(5, L("trap", NoReg, << >>))
    <3>1. code[q + 7] = Unless(5, L("trap", NoReg, << >>))
      BY Zenon, <1>11 DEF KnlLaid
    <3>. QED BY <1>1, <1>11, <3>1
  <2>2. ASSUME NEW l \in active PROVE Reg(l, P(5)) = 1
    <3>1. Has(l, q + 7, q + 7, P(5), 1)
      BY Zenon, <1>11 DEF KnlHas
    <3>2. now \in q + 7 .. q + 7
      BY <1>11
    <3>3. P(5) \in DOMAIN regs[l] /\ regs[l][P(5)] = 1
      BY <3>1, <3>2 DEF Has
    <3>. QED BY <1>7, <3>3
  <2>3. fault' = fault
    BY <2>1, <2>2, AddressPasses
  <2>. QED BY <1>2, <1>8, <1>9, <1>11, <2>3
<1>12. CASE now = b + 13
  <2>. DEFINE q == b + 6
  <2>1. q \in Nat /\ now = q + 7 /\ q + 7 \notin { b + 49, b + 50 }
    BY <1>1, <1>12
  <2>2. KnlLaid(code, q, 56) /\ \A l \in active : KnlHas(l, q, 56)
    BY Zenon, <1>5, <1>6 DEF EntryCode
  <2>. HIDE DEF q
  <2>. QED BY <1>11, <2>1, <2>2
<1>13. CASE now = d + 66
  <2>. DEFINE q == d + 59
  <2>1. q \in Nat /\ now = q + 7 /\ q + 7 \notin { b + 49, b + 50 }
    BY <1>1, <1>13
  <2>2. KnlLaid(code, q, 4) /\ \A l \in active : KnlHas(l, q, 4)
    BY Zenon, <1>5, <1>6 DEF EntryCode
  <2>. HIDE DEF q
  <2>. QED BY <1>11, <2>1, <2>2
<1>14. CASE now = b + 49
  <2>1. Line = If(1, L("trap", NoReg, << >>))
    <3>1. code[b + 49] = If(1, L("trap", NoReg, << >>))
      BY Zenon, <1>5 DEF EntryCode
    <3>. QED BY <1>1, <1>14, <3>1
  <2>2. ASSUME NEW l \in active PROVE Reg(l, P(1)) = Bool(LowPool)
    <3>1. now \in b + 49 .. b + 49
      BY <1>1, <1>14
    <3>2. P(1) \in DOMAIN regs[l] /\ regs[l][P(1)] = Bool(LowPool)
      BY <1>6, <3>1 DEF Has
    <3>. QED BY <1>7, <3>2
  <2>3. LowPool \in BOOLEAN
    BY DEF LowPool, Asked
  <2>4. fault' = IF LowPool THEN "trap" ELSE fault
    BY <2>1, <2>2, <2>3, PoolStops
  <2>5. StopsBy(now + 1) <=> LowPool
    BY <1>1, <1>14 DEF StopsBy, b
  <2>. QED BY <1>2, <1>8, <2>4, <2>5
<1>15. CASE now = b + 50
  <2>1. Line = L("pds.acquire", NoReg, << R(9), R(29), R(27), R(26) >>)
    <3>1. code[b + 50] = L("pds.acquire", NoReg, << R(9), R(29), R(27), R(26) >>)
      BY Zenon, <1>5 DEF EntryCode
    <3>. QED BY <1>1, <1>15, <3>1
  <2>2. ASSUME NEW l \in active
        PROVE  /\ Reg(l, R(9)) = Linear(l) /\ Reg(l, R(29)) = Launch.pdsSize
               /\ Reg(l, R(27)) = Launch.pdsBlocks /\ Reg(l, R(26)) = Launch.pdsBitmap
    <3>1. EntryHas(l) /\ PoolHas(l)
      OBVIOUS
    <3>2. Reg(l, R(29)) = Launch.pdsSize
      <4>1. now \in First + 4 .. Later + 78 => Reg(l, R(29)) = Launch.pdsSize
        BY Zenon, <3>1, EntryHeld
      <4>2. now \in First + 4 .. Later + 78
        BY <1>1, <1>15 DEF b, d
      <4>. QED BY <4>1, <4>2
    <3>3. /\ Has(l, b + 33, b + 50, R(9), Linear(l)) /\ Has(l, b + 5, b + 50, R(26), Launch.pdsBitmap)
          /\ Has(l, b + 6, b + 50, R(27), Launch.pdsBlocks)
      BY <3>1 DEF PoolHas, b
    <3>4. now \in b + 33 .. b + 50 /\ now \in b + 5 .. b + 50 /\ now \in b + 6 .. b + 50
      BY <1>1, <1>15
    <3>5. /\ R(9) \in DOMAIN regs[l] /\ regs[l][R(9)] = Linear(l)
          /\ R(26) \in DOMAIN regs[l] /\ regs[l][R(26)] = Launch.pdsBitmap
          /\ R(27) \in DOMAIN regs[l] /\ regs[l][R(27)] = Launch.pdsBlocks
      BY <3>3, <3>4 DEF Has
    <3>. QED BY <3>2, <3>5, RegOf
  <2>3. fault' = IF Denied THEN "trap" ELSE fault
    BY <2>1, <2>2, PoolAnswers DEF Denied
  <2>4. StopsBy(now + 1) <=> Denied
    BY <1>1, <1>3, <1>15 DEF StopsBy, b
  <2>. QED BY <1>2, <1>8, <2>3, <2>4
<1>. QED BY <1>10, <1>12, <1>13, <1>14, <1>15

(* Every warp of a launch has a thread.                                    *)
LEMMA WarpHasThread ==
  ASSUME NEW s, s[1] \in Nat \ { 0 }, s[2] \in Nat \ { 0 }, s[3] \in Nat \ { 0 }, NEW v \in 0 .. WarpsOf(s) - 1
  PROVE  v * 2^LogWarp < Threads(s)
<1>. DEFINE n == Threads(s)
            p == 2^LogWarp
            q == WarpsOf(s)
<1>1. n \in Nat \ { 0 } /\ q = (n + p - 1) \div p
  BY WarpsCounted
<1>2. p \in Nat \ { 0 }
  BY LaunchesAssumption
<1>3. q \in 1 .. n /\ q * p \in n .. n + p - 1
  <2>. HIDE DEF n, p, q
  <2>1. (n + p - 1) \div p \in 1 .. n /\ \A i \in 1 .. n : i * p \in n .. n + p - 1 <=> i = (n + p - 1) \div p
    BY <1>1, <1>2, WarpCount
  <2>. QED BY <1>1, <2>1
<1>4. v \in Nat /\ v < q
  <2>1. q \in Nat
    BY <1>1, <1>3
  <2>. QED BY <2>1
<1>. HIDE DEF n, p, q
<1>5. v * p + p <= q * p /\ v * p \in Nat /\ q * p \in Nat
  BY <1>1, <1>2, <1>3, <1>4, TimesGrows
<1>6. q * p <= n + p - 1
  BY <1>1, <1>2, <1>3
<1>7. v * p < n
  BY <1>1, <1>2, <1>5, <1>6
<1>. QED BY <1>7 DEF n, p

LEMMA PreparesInit == ASSUME Init PROVE Prepares
<1>. SUFFICES ASSUME Kind = "entry"
              PROVE  /\ 0 \in active /\ mem = << >>
                     /\ fault = IF StopsBy(now) THEN "trap" ELSE "none"
                     /\ \A l \in active : LaunchHas(l) /\ PoolHas(l) /\ PointerHas(l)
  BY DEF Prepares
<1>1. /\ prog \in Progs /\ code = CodeOf(prog) /\ input \in InputsOf(Kind) /\ now = First
      /\ active = { l \in prog.lanes : Linear(l) < Threads(Shape) } /\ mem = << >> /\ fault = "none"
  BY DEF Init
<1>2. First \in Nat /\ Later \in Nat /\ (Later = First \/ Later = First + 2)
  <2>1. EntryCode(code, First, Later, prog.gp)
    BY <1>1, EntryCoded DEF Kind, Later
  <2>. QED BY Zenon, <2>1, LaterAt
<1>3. 0 \in active
  <2>1. PICK k \in DOMAIN Launches : \E v \in 0 .. WarpsOf(Launches[k].shape) - 1 : input = << k, v >>
    BY <1>1 DEF InputsOf
  <2>2. PICK v \in 0 .. WarpsOf(Launches[k].shape) - 1 : input = << k, v >>
    BY <2>1
  <2>3. Shape = Launches[k].shape /\ Warp = v
    BY <2>2 DEF Shape, Launch, Warp
  <2>4. Shape[1] \in Nat \ { 0 } /\ Shape[2] \in Nat \ { 0 } /\ Shape[3] \in Nat \ { 0 }
    BY <2>3, LaunchesAssumption
  <2>5. Warp * 2^LogWarp < Threads(Shape)
    <3>1. v \in 0 .. WarpsOf(Shape) - 1
      BY <2>3
    <3>2. v * 2^LogWarp < Threads(Shape)
      BY <2>4, <3>1, WarpHasThread
    <3>. QED BY <2>3, <3>2
  <2>6. 2^LogWarp \in Nat \ { 0 } /\ prog.lanes = 0 .. 2^LogWarp - 1
    BY <1>1, LaunchesAssumption, ProgsAssumption DEF Kind
  <2>7. 0 \in prog.lanes
    BY <2>6
  <2>8. Linear(0) = Warp * 2^LogWarp
    <3>. DEFINE x == Warp * 2^LogWarp
    <3>1. x \in Int
      <4>1. Warp \in Nat
        <5>1. WarpsOf(Shape) \in Nat
          BY <2>4, WarpsCounted
        <5>. QED BY <2>3, <5>1
      <4>. QED BY <2>6, <4>1
    <3>2. Linear(0) = x + 0
      BY DEF Linear
    <3>. HIDE DEF x
    <3>3. x + 0 = x
      BY <3>1
    <3>. QED BY <3>2, <3>3 DEF x
  <2>. QED BY <1>1, <2>5, <2>7, <2>8
<1>4. fault = IF StopsBy(now) THEN "trap" ELSE "none"
  <2>1. ~(now >= First + 50) /\ ~(now >= First + 51)
    BY <1>1, <1>2
  <2>. QED BY <1>1, <2>1 DEF StopsBy
<1>5. ASSUME NEW l \in active PROVE LaunchHas(l)
  <2>. DEFINE b == First
              d == Later
              u == WordOf(56)
              z == WordOf(4)
  <2>1. now = b /\ b \in Nat /\ d \in Nat /\ (d = b \/ d = b + 2)
    BY <1>1, <1>2
  <2>. HIDE DEF b, d
  <2>2. \A q \in Nat : q >= b => \A n : KnlHas(l, q, n)
    BY <2>1 DEF KnlHas, Has
  <2>3. Has(l, b + 22, d + 56, R(17), u)
    BY <2>1 DEF Has
  <2>4. Has(l, b + 47, b + 48, P(1), Bool(Launch.pdsBase < GlobalBase))
    BY <2>1 DEF Has
  <2>5. Has(l, b + 48, b + 48, P(2), Bool(Launch.pdsSize # 0))
    BY <2>1 DEF Has
  <2>6. Has(l, b + 49, b + 49, P(1), Bool(LowPool))
    BY <2>1 DEF Has
  <2>7. Has(l, b + 52, b + 52, R(15), 0)
    BY <2>1 DEF Has
  <2>8. Has(l, b + 53, d + 78, X(4), 0)
    BY <2>1 DEF Has
  <2>9. Has(l, d + 54, d + 54, R(15), Wrap(Warp * u))
    BY <2>1 DEF Has
  <2>10. Has(l, d + 55, d + 55, R(15), Wrap(SharedBase + Warp * u))
    BY <2>1 DEF Has
  <2>11. Has(l, d + 56, d + 78, X(2), Wrap(SharedBase + Warp * u))
    BY <2>1 DEF Has
  <2>12. Has(l, d + 57, d + 57, R(15), Wrap(WarpsOf(Shape) * u))
    BY <2>1 DEF Has
  <2>13. Has(l, d + 58, d + 58, R(15), Wrap(SharedBase + WarpsOf(Shape) * u))
    BY <2>1 DEF Has
  <2>14. Has(l, d + 59, d + 78, X(8), Wrap(SharedBase + WarpsOf(Shape) * u))
    BY <2>1 DEF Has
  <2>15. Has(l, d + 75, d + 75, R(17), z)
    BY <2>1 DEF Has
  <2>16. Has(l, d + 76, d + 78, X(10), z)
    BY <2>1 DEF Has
  <2>17. b + 6 \in Nat /\ b + 6 >= b /\ d + 59 \in Nat /\ d + 59 >= b
    BY <2>1
  <2>18. KnlHas(l, b + 6, 56) /\ KnlHas(l, d + 59, 4)
    BY <2>2, <2>17
  <2>. QED BY Zenon, <2>3, <2>4, <2>5, <2>6, <2>7, <2>8, <2>9, <2>10, <2>11, <2>12, <2>13, <2>14, <2>15, <2>16,
              <2>18 DEF LaunchHas, b, d, u, z
<1>6. ASSUME NEW l \in active PROVE PoolHas(l)
  <2>1. now = First /\ First \in Nat
    BY <1>1, <1>2
  <2>. QED BY <2>1 DEF PoolHas, Has
<1>7. ASSUME NEW l \in active PROVE PointerHas(l)
  <2>1. now = First /\ First \in Nat /\ Later \in Nat /\ Later >= First
    BY <1>1, <1>2
  <2>. QED BY <2>1 DEF PointerHas, Has
<1>. QED BY <1>1, <1>3, <1>4, <1>5, <1>6, <1>7

LEMMA LaunchStays == ASSUME UNCHANGED vars PROVE \A l : LaunchHas(l) => LaunchHas(l)'
<1>. SUFFICES ASSUME NEW l, LaunchHas(l) PROVE LaunchHas(l)'
  OBVIOUS
<1>1. /\ now' = now /\ regs' = regs /\ prog' = prog /\ input' = input
  BY DEF vars
<1>2. Kind' = Kind
  BY <1>1 DEF Kind
<1>3. Launch' = Launch /\ Warp' = Warp /\ Later' = Later
  BY <1>1, <1>2 DEF Launch, Warp, Later
<1>4. LowPool' = LowPool /\ Shape' = Shape
  BY <1>3 DEF LowPool, Asked, Shape
<1>. DEFINE b == First
            d == Later
            u == WordOf(56)
            z == WordOf(4)
<1>5. WarpsOf(Shape)' = WarpsOf(Shape)
  BY <1>4 DEF WarpsOf, Threads
<1>6. \A q, n : KnlHas(l, q, n) => KnlHas(l, q, n)'
  BY <1>1 DEF KnlHas, Has
<1>7. KnlHas(l, b + 6, 56)' /\ KnlHas(l, d + 59, 4)'
  <2>1. KnlHas(l, b + 6, 56) /\ KnlHas(l, d + 59, 4)
    BY DEF LaunchHas
  <2>2. KnlHas(l, b + 6, 56)'
    BY <1>6, <2>1
  <2>3. KnlHas(l, d + 59, 4)'
    BY <1>1, <1>3, <2>1 DEF KnlHas, Has
  <2>. QED BY <2>2, <2>3
<1>8. Has(l, b + 22, d + 56, R(17), u)'
  <2>1. Has(l, b + 22, d + 56, R(17), u)
    BY DEF LaunchHas
  <2>. QED BY <1>1, <1>3, <1>4, <1>5, <2>1 DEF Has
<1>9. Has(l, b + 47, b + 48, P(1), Bool(Launch.pdsBase < GlobalBase))'
  <2>1. Has(l, b + 47, b + 48, P(1), Bool(Launch.pdsBase < GlobalBase))
    BY DEF LaunchHas
  <2>. QED BY <1>1, <1>3, <1>4, <1>5, <2>1 DEF Has
<1>10. Has(l, b + 48, b + 48, P(2), Bool(Launch.pdsSize # 0))'
  <2>1. Has(l, b + 48, b + 48, P(2), Bool(Launch.pdsSize # 0))
    BY DEF LaunchHas
  <2>. QED BY <1>1, <1>3, <1>4, <1>5, <2>1 DEF Has
<1>11. Has(l, b + 49, b + 49, P(1), Bool(LowPool))'
  <2>1. Has(l, b + 49, b + 49, P(1), Bool(LowPool))
    BY DEF LaunchHas
  <2>. QED BY <1>1, <1>3, <1>4, <1>5, <2>1 DEF Has
<1>12. Has(l, b + 52, b + 52, R(15), 0)'
  <2>1. Has(l, b + 52, b + 52, R(15), 0)
    BY DEF LaunchHas
  <2>. QED BY <1>1, <1>3, <1>4, <1>5, <2>1 DEF Has
<1>13. Has(l, b + 53, d + 78, X(4), 0)'
  <2>1. Has(l, b + 53, d + 78, X(4), 0)
    BY DEF LaunchHas
  <2>. QED BY <1>1, <1>3, <1>4, <1>5, <2>1 DEF Has
<1>14. Has(l, d + 54, d + 54, R(15), Wrap(Warp * u))'
  <2>1. Has(l, d + 54, d + 54, R(15), Wrap(Warp * u))
    BY DEF LaunchHas
  <2>. QED BY <1>1, <1>3, <1>4, <1>5, <2>1 DEF Has
<1>15. Has(l, d + 55, d + 55, R(15), Wrap(SharedBase + Warp * u))'
  <2>1. Has(l, d + 55, d + 55, R(15), Wrap(SharedBase + Warp * u))
    BY DEF LaunchHas
  <2>. QED BY <1>1, <1>3, <1>4, <1>5, <2>1 DEF Has
<1>16. Has(l, d + 56, d + 78, X(2), Wrap(SharedBase + Warp * u))'
  <2>1. Has(l, d + 56, d + 78, X(2), Wrap(SharedBase + Warp * u))
    BY DEF LaunchHas
  <2>. QED BY <1>1, <1>3, <1>4, <1>5, <2>1 DEF Has
<1>17. Has(l, d + 57, d + 57, R(15), Wrap(WarpsOf(Shape) * u))'
  <2>1. Has(l, d + 57, d + 57, R(15), Wrap(WarpsOf(Shape) * u))
    BY DEF LaunchHas
  <2>. QED BY <1>1, <1>3, <1>4, <1>5, <2>1 DEF Has
<1>18. Has(l, d + 58, d + 58, R(15), Wrap(SharedBase + WarpsOf(Shape) * u))'
  <2>1. Has(l, d + 58, d + 58, R(15), Wrap(SharedBase + WarpsOf(Shape) * u))
    BY DEF LaunchHas
  <2>. QED BY <1>1, <1>3, <1>4, <1>5, <2>1 DEF Has
<1>19. Has(l, d + 59, d + 78, X(8), Wrap(SharedBase + WarpsOf(Shape) * u))'
  <2>1. Has(l, d + 59, d + 78, X(8), Wrap(SharedBase + WarpsOf(Shape) * u))
    BY DEF LaunchHas
  <2>. QED BY <1>1, <1>3, <1>4, <1>5, <2>1 DEF Has
<1>20. Has(l, d + 75, d + 75, R(17), z)'
  <2>1. Has(l, d + 75, d + 75, R(17), z)
    BY DEF LaunchHas
  <2>. QED BY <1>1, <1>3, <1>4, <1>5, <2>1 DEF Has
<1>21. Has(l, d + 76, d + 78, X(10), z)'
  <2>1. Has(l, d + 76, d + 78, X(10), z)
    BY DEF LaunchHas
  <2>. QED BY <1>1, <1>3, <1>4, <1>5, <2>1 DEF Has
<1>. QED BY Zenon, <1>7, <1>8, <1>9, <1>10, <1>11, <1>12, <1>13, <1>14, <1>15, <1>16, <1>17, <1>18, <1>19, <1>20,
            <1>21 DEF LaunchHas

LEMMA PoolStays == ASSUME UNCHANGED vars PROVE \A l : PoolHas(l) /\ PointerHas(l) => PoolHas(l)' /\ PointerHas(l)'
<1>1. /\ now' = now /\ regs' = regs /\ prog' = prog /\ input' = input
  BY DEF vars
<1>2. Kind' = Kind /\ Later' = Later
  BY <1>1 DEF Kind, Later
<1>3. Launch' = Launch /\ Warp' = Warp
  BY <1>1, <1>2 DEF Launch, Warp
<1>4. \A l : Linear(l)' = Linear(l)
  BY <1>3 DEF Linear
<1>. SUFFICES ASSUME NEW l, PoolHas(l), PointerHas(l) PROVE PoolHas(l)' /\ PointerHas(l)'
  OBVIOUS
<1>5. PoolHas(l)'
  BY <1>1, <1>3, <1>4 DEF PoolHas, Has
<1>6. PointerHas(l)'
  BY <1>1, <1>2 DEF PointerHas, Has
<1>. QED BY <1>5, <1>6

LEMMA PreparesStep == ASSUME EntryInv, Prepares, Next PROVE Prepares'
<1>1. UNCHANGED grid
  BY DEF Next, Compute, Vote, Shuffle, Pass, LoadLine, StoreLine, PoolBase, AcquirePool, Branch, LeaveBlock, Stop,
         CallLine, Return, Done, Computed, NothingBut, vars, grid
<1>2. Kind' = Kind
  BY <1>1 DEF grid, Kind
<1>. SUFFICES ASSUME Kind = "entry"
              PROVE  /\ 0 \in active' /\ mem' = << >>
                     /\ fault' = IF StopsBy(now)' THEN "trap" ELSE "none"
                     /\ \A l \in active' : LaunchHas(l)' /\ PoolHas(l)' /\ PointerHas(l)'
  BY <1>2 DEF Prepares
<1>3. GridE /\ InStep /\ \A l \in active : EntryHas(l)
  BY DEF EntryInv
<1>4. /\ 0 \in active /\ mem = << >> /\ \A l \in active : LaunchHas(l) /\ PoolHas(l) /\ PointerHas(l)
      /\ fault = IF StopsBy(now) THEN "trap" ELSE "none"
  BY DEF Prepares
<1>5. EntryCode(code, First, Later, prog.gp) /\ HeadLength = 22
  BY <1>3, EntryCoded DEF GridE, Kind, Later
<1>6. active' = active
  BY <1>1 DEF grid
<1>7. Launch' = Launch /\ Warp' = Warp
  BY <1>1, <1>2 DEF grid, Launch, Warp
<1>8. LowPool' = LowPool /\ Denied' = Denied
  BY <1>7 DEF LowPool, Asked, NoBlock, Denied
<1>9. CASE ~Over
  <2>1. Running
    BY <1>3, <1>4, <1>9 DEF Running
  <2>2. now' = now + 1
    BY <2>1, LanesInStep
  <2>3. mem' = << >> /\ fault' = IF StopsBy(now + 1) THEN "trap" ELSE "none"
    <3>1. \A l \in active : EntryHas(l) /\ LaunchHas(l) /\ PoolHas(l)
      BY <1>3, <1>4
    <3>. QED BY <1>4, <1>5, <2>1, <3>1, FaultFollows
  <2>4. ASSUME NEW l \in active PROVE LaunchHas(l)' /\ PoolHas(l)' /\ PointerHas(l)'
    <3>1. EntryHas(l) /\ LaunchHas(l) /\ PoolHas(l) /\ PointerHas(l) /\ mem = << >>
      BY <1>3, <1>4
    <3>2. LaunchHas(l)'
      BY <1>5, <2>1, <3>1, LaunchKept
    <3>3. PoolHas(l)'
      BY <1>5, <2>1, <3>1, PoolKept
    <3>4. PointerHas(l)'
      BY <1>5, <2>1, <3>1, PointerKept
    <3>. QED BY <3>2, <3>3, <3>4
  <2>5. StopsBy(now)' = StopsBy(now + 1)
    BY <1>8, <2>2 DEF StopsBy
  <2>. QED BY <1>4, <1>6, <2>3, <2>4, <2>5
<1>10. CASE Over
  <2>1. UNCHANGED vars
    BY <1>10 DEF Next, Compute, Vote, Shuffle, Pass, LoadLine, StoreLine, PoolBase, AcquirePool, Branch, LeaveBlock, Stop,
                 CallLine, Return, Done, At
  <2>2. now' = now /\ mem' = mem /\ fault' = fault
    BY <2>1 DEF vars
  <2>3. StopsBy(now)' = StopsBy(now)
    BY <1>8, <2>2 DEF StopsBy
  <2>. QED BY <1>4, <1>6, <2>1, <2>2, <2>3, LaunchStays, PoolStays
<1>. QED BY <1>9, <1>10

LEMMA PreparesStutter == ASSUME Prepares, UNCHANGED vars PROVE Prepares'
<1>1. /\ now' = now /\ mem' = mem /\ fault' = fault /\ prog' = prog /\ input' = input /\ active' = active
  BY DEF vars
<1>2. Kind' = Kind
  BY <1>1 DEF Kind
<1>3. Launch' = Launch /\ Warp' = Warp
  BY <1>1, <1>2 DEF Launch, Warp
<1>4. LowPool' = LowPool /\ Denied' = Denied
  BY <1>3 DEF LowPool, Asked, NoBlock, Denied
<1>5. StopsBy(now)' = StopsBy(now)
  BY <1>1, <1>4 DEF StopsBy
<1>. SUFFICES ASSUME Kind = "entry"
              PROVE  /\ 0 \in active' /\ mem' = << >>
                     /\ fault' = IF StopsBy(now)' THEN "trap" ELSE "none"
                     /\ \A l \in active' : LaunchHas(l)' /\ PoolHas(l)' /\ PointerHas(l)'
  BY <1>2 DEF Prepares
<1>6. /\ 0 \in active /\ mem = << >> /\ \A l \in active : LaunchHas(l) /\ PoolHas(l) /\ PointerHas(l)
      /\ fault = IF StopsBy(now) THEN "trap" ELSE "none"
  BY DEF Prepares
<1>. QED BY <1>1, <1>5, <1>6, LaunchStays, PoolStays

LEMMA EntryLeaves == ASSUME EntryInv, Prepares PROVE EntryMatches
<1>. SUFFICES ASSUME Over, Kind = "entry"
              PROVE  LET word(n) == LoadAs(<< >>, "w", Device["knl_vaddr"] + n)
                     IN  /\ fault = IF LowPool \/ (NoBlock /\ Warp = 0) THEN "trap" ELSE "none"
                         /\ ~LowPool /\ ~NoBlock =>
                              \A l \in active :
                                /\ regs[l][X(2)] = Wrap(SharedBase + Warp * word(56))
                                /\ regs[l][X(4)] = 0
                                /\ prog.gp # 0 => regs[l][X(3)] = prog.gp
                                /\ regs[l][X(8)] = Wrap(SharedBase + WarpsOf(Shape) * word(56))
                                /\ regs[l][X(10)] = word(4)
  BY DEF EntryMatches
<1>1. GridE
  BY DEF EntryInv
<1>2. /\ \A l \in active : LaunchHas(l) /\ PointerHas(l)
      /\ fault = IF StopsBy(now) THEN "trap" ELSE "none"
  BY DEF Prepares
<1>3. First \in Nat /\ Later \in Nat /\ (Later = First \/ Later = First + 2) /\ Len(code) = Later + 78
  <2>1. EntryCode(code, First, Later, prog.gp)
    BY <1>1, EntryCoded DEF GridE, Kind, Later
  <2>. QED BY Zenon, <2>1, LaterAt
<1>. HIDE DEF Later
<1>4. fault = IF LowPool \/ Denied THEN "trap" ELSE "none"
  <2>1. CASE fault # "none"
    BY <1>2, <2>1 DEF StopsBy
  <2>2. CASE now = Len(code)
    BY <1>2, <1>3, <2>2 DEF StopsBy
  <2>. QED BY <2>1, <2>2 DEF Over, End
<1>5. ASSUME ~LowPool, ~NoBlock, NEW l \in active
      PROVE  /\ regs[l][X(2)] = Wrap(SharedBase + Warp * WordOf(56)) /\ regs[l][X(4)] = 0
             /\ prog.gp # 0 => regs[l][X(3)] = prog.gp
             /\ regs[l][X(8)] = Wrap(SharedBase + WarpsOf(Shape) * WordOf(56)) /\ regs[l][X(10)] = WordOf(4)
  <2>. DEFINE b == First
              d == Later
  <2>1. now = d + 78 /\ b \in Nat /\ d \in Nat /\ (d = b \/ d = b + 2)
    <3>1. fault = "none"
      BY <1>4, <1>5 DEF Denied
    <3>2. now = Len(code)
      BY <3>1 DEF Over, End
    <3>. QED BY <1>3, <3>2
  <2>2. /\ Has(l, b + 53, d + 78, X(4), 0)
        /\ Has(l, d + 56, d + 78, X(2), Wrap(SharedBase + Warp * WordOf(56)))
        /\ Has(l, d + 59, d + 78, X(8), Wrap(SharedBase + WarpsOf(Shape) * WordOf(56)))
        /\ Has(l, d + 76, d + 78, X(10), WordOf(4))
    BY <1>2 DEF LaunchHas
  <2>3. prog.gp # 0 => Has(l, d + 53, d + 78, X(3), prog.gp)
    BY <1>2 DEF PointerHas
  <2>. HIDE DEF b, d
  <2>4. /\ now \in b + 53 .. d + 78 /\ now \in d + 53 .. d + 78 /\ now \in d + 56 .. d + 78
        /\ now \in d + 59 .. d + 78 /\ now \in d + 76 .. d + 78
    BY <2>1
  <2>. QED BY <2>2, <2>3, <2>4 DEF Has
<1>6. LoadAs(<< >>, "w", Device["knl_vaddr"] + 56) = WordOf(56) /\ LoadAs(<< >>, "w", Device["knl_vaddr"] + 4) = WordOf(4)
  BY WordLoaded
<1>7. fault = IF LowPool \/ (NoBlock /\ Warp = 0) THEN "trap" ELSE "none"
  BY <1>4 DEF Denied
<1>. QED BY Zenon, <1>5, <1>6, <1>7

(* Whatever the launch, the width of a register and the size of a warp:    *)
(* when what emit_entry writes is over, the launch has trapped just if a   *)
(* pool of private memory is asked for and either lies below the global    *)
(* window or, at the warp of thread 0, has no blocks or a bitmap below     *)
(* that window; and if the pool has none of these faults, every lane has   *)
(* the stack of its warp and that of its block in x2 and x8, nothing in    *)
(* x4, the file's global pointer, if it has one, in x3 and the kernel's    *)
(* arguments in x10, of which the sizes and the address are the words the  *)
(* metadata has at 56 and 4, read through the address map that emit_entry  *)
(* writes out twice.                                                       *)
THEOREM EntryAsLaunched == Spec => []EntryMatches
<1>. DEFINE Inv == IInv /\ EntryInv /\ Prepares
<1>1. Init => Inv
  BY InitHolds, EntryInit, PreparesInit
<1>2. Inv /\ [Next]_vars => Inv'
  <2>. SUFFICES ASSUME Inv, [Next]_vars PROVE Inv'
    OBVIOUS
  <2>1. CASE UNCHANGED vars
    BY <2>1, StutterKeeps, EntryStutter, PreparesStutter
  <2>2. CASE Next /\ ~UNCHANGED vars
    BY <2>2, ContextStep, PreparesStep
  <2>. QED BY <2>1, <2>2
<1>3. Inv => EntryMatches
  BY EntryLeaves
<1>. QED BY <1>1, <1>2, <1>3, PTL DEF Spec
=============================================================================
