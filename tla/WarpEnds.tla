------------------------------ MODULE WarpEnds -----------------------------
(***************************************************************************)
(* What the lanes of WarpReplica leave, compared with what the warp of     *)
(* SimtWarp can leave.                                                     *)
(***************************************************************************)
EXTENDS WarpReplica

(* The ends that a warp can come to.                                       *)
RECURSIVE Ends(_, _)
Ends(ws, s) ==
  IF ws[s.pc].op = "ret" THEN { s }
  ELSE UNION { Ends(ws, t) : t \in Steps(ws, s) }

(* What the lanes leave when they are over is what a warp of Ventus, with  *)
(* its one file of scalar registers, can leave: in memory, in the vector   *)
(* registers, and in the number of stores each instruction made.           *)
Finished == ~trapped /\ \A l \in LaneIds : Over(l)

Times(s, k) == Cardinality({ i \in DOMAIN s : s[i] = k })

EndsAsWarp ==
  Finished =>
    \E s \in Ends(words, begin) :
      /\ s.v = v
      /\ \A a \in Addresses : s.mem[a] = mem[Cell(a)]
      /\ \A k \in DOMAIN words : stored[k] = Times(s.stores, k)
=============================================================================
