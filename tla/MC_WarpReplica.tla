---------------------------- MODULE MC_WarpReplica -------------------------
(* Families of functions for WarpReplica.                                  *)
EXTENDS WarpEnds

(* addi d, a, n; lw d, n(a); sw b, n(a); beq a, x0, t.                     *)
Addi(d, a, n) == Word("addi", n, d, a, 0)
Lw(d, a, n)   == Word("lw", n, d, a, 0)
Sw(b, a, n)   == Word("sw", n, 0, a, b)
Beqz(a, t)    == Word("branch", t, 0, a, 0)
VmvVX(d, a)   == Word("vmv_v_x", 0, d, a, 0)
VmvXS(d, b)   == Word("vmv_x_s", 0, d, 0, b)

(* Functions without a vbranch; x5 goes round through memory and vectors,  *)
(* and decides on a branch, forward or back to the start of a loop.        *)
Words == { Addi(5, 5, 1), Sw(5, 0, 1), Lw(5, 0, 1), Lw(5, 5, 0), VmvVX(0, 5), VmvXS(5, 0) }

Straight ==
  { << VmvXS(5, 0) >> \o body \o << Beqz(5, 7), VmvVX(1, 5), Plain("ret") >> :
      body \in [1 .. 3 -> Words] }

Repeats ==
  { << Addi(5, 5, 1), Addi(5, 5, 1), word, Beqz(5, 2), VmvVX(1, 5), Plain("ret") >> : word \in Words }

(* Two arms, which keep to registers and addresses of their own; what they *)
(* leave in scalar registers is not read after the join, but x5 is.        *)
ArmWords(r, a) == { Addi(r, 5, 1), Sw(5, 0, a), Lw(r, 0, a), VmvVX(1, r), VmvXS(r, 0) }

Tails == { << Addi(5, 5, 1), Sw(5, 0, 1) >>, << Lw(5, 0, 2), VmvVX(2, 5) >> }

Branching ==
  { << Addi(5, 5, 1), Auipc(1, 9), SetRpc(1), VBranch(0, 2, 8) >> \o one \o << Jump(9), two, Plain("join") >>
      \o last \o << Plain("ret") >> :
      one \in [1 .. 2 -> ArmWords(6, 1)], two \in ArmWords(7, 2), last \in Tails }

(* A loop that each lane leaves when x5, which counts, is what it holds;   *)
(* x5 is not read after the join, but x7 is.                               *)
Loops ==
  { << Addi(7, 0, 1), Auipc(1, 9), SetRpc(1), VmvVX(1, 5), VBranch(0, 1, 9), word, Addi(5, 5, 1), Jump(2),
       Plain("join"), Sw(7, 0, 2), VmvVX(2, 7), Plain("ret") >> : word \in ArmWords(6, 1) }

Without(fs, op) == { f \in fs : \A k \in DOMAIN f : f[k].op # op }

(* The least solution of what WellFormed says of live, and what can be     *)
(* reached from a vbranch before its join; so many rounds are enough.      *)
LiveIn(ws) ==
  FoldLeft(
    LAMBDA live, i : [k \in DOMAIN ws |->
      ReadsX(ws[k]) \cup ((UNION { live[n] : n \in Follow(ws, k) }) \ WritesX(ws[k]))],
    [k \in DOMAIN ws |-> {}], ws \o ws)

ArmsOf(ws, k) ==
  FoldLeft(
    LAMBDA arms, i : (arms \cup UNION { Follow(ws, n) : n \in arms }) \ { JoinOf(ws, k) },
    Follow(ws, k) \ { JoinOf(ws, k) }, ws)

Annotate(ws) ==
  LET live == LiveIn(ws)
  IN  [k \in DOMAIN ws |->
         ws[k] @@ [live |-> live[k], arms |-> IF ws[k].op = "vbranch" THEN ArmsOf(ws, k) ELSE {}]]

Case(ws, reconverges_) == [words |-> Annotate(ws), reconverges |-> reconverges_]

(* A device that does not reconverge runs what does not store or loop.     *)
Runnable ==
  { Case(ws, TRUE) : ws \in Straight \cup Repeats \cup Branching \cup Loops }
    \cup { Case(ws, FALSE) : ws \in Without(Straight \cup Branching, "sw") }
=============================================================================
