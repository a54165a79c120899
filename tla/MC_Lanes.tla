------------------------------ MODULE MC_Lanes -----------------------------
(* Families of functions for Lanes.  A family is a frame with free places. *)
EXTENDS Lanes

Digits == {0, 1}

(* Bodies of n places, the one at address a being a join.                  *)
Bodies(places, n, first, joins) ==
  { b \in [1 .. n -> places] : \A a \in joins : b[a - first + 1] = Plain("join") }

(* One vbranch, and its join.                                              *)
Arms ==
  UNION { { << Auipc(1, j), SetRpc(1), VBranch(0, 1, t) >> \o body \o << end >> :
              t \in {5, 6, 7}, end \in { Plain("ret"), Plain("plain") },
              body \in Bodies({ Plain("join"), Plain("barrier"), Plain("ret"),
                                Branch(5, 0, 4), Jump(8) }, 4, 4, {j}) } : j \in 4 .. 7 }

(* One vbranch inside the arm of another.                                  *)
Nested ==
  UNION { { << Auipc(1, j), SetRpc(1), VBranch(0, 1, t), Auipc(1, k), SetRpc(1), VBranch(0, 2, u) >>
              \o body \o << Plain("ret") >> :
              t \in {7, 8, 9}, u \in {7, 8, 9},
              body \in Bodies({ Plain("join"), Plain("barrier"), Jump(10) }, 4, 7, {j, k}) } :
            j \in {8, 9, 10}, k \in {7, 8, 9} }

(* Loops: a vbranch on what each lane loads, and ways back to the load.    *)
Loops ==
  UNION { { << Auipc(1, j), SetRpc(1), Vector("load_v", 0, 2, 0), VBranch(0, 1, t) >> \o body \o << Plain("ret") >> :
              t \in 5 .. 8,
              body \in Bodies({ Plain("join"), Plain("barrier"), Branch(5, 0, 3), Jump(3) }, 4, 5, {j}) } : j \in {7, 8} }

(* Prefixes anywhere around a vbranch, and words that nothing decodes.     *)
Prefixed ==
  { << Auipc(1, j), SetRpc(1) >> \o body \o << Plain("join"), Plain("ret") >> :
      j \in {7, 8},
      body \in [1 .. 4 -> { Prefix(0, 1, 0), Prefix(0, 0, 0), VBranch(0, 1, 7), VBranch(0, 1, 8),
                            Plain("barrier") }] }

(* The operands of the vbranch are splats of a scalar, unless the word     *)
(* between writes one of them: a vector operation, or the call of a        *)
(* builtin, which returns its result in v0.                                *)
AfterSplat(words5) ==
  { << Vector("vmv_v_x", 0, 5, 0), Vector("vmv_v_x", 1, 5, 0), w, Auipc(1, 8), SetRpc(1),
       VBranch(0, 1, 8), Plain("barrier"), Plain("join"), Plain("ret") >> : w \in words5 }

VectorWords ==
  { Vector("vid_v", 0, 0, 0), Vector("load_v", 0, 2, 0), Vector("op_vv", 0, 1, 0),
    Vector("op_vx", 0, 5, 1), Vector("op_v", 0, 0, 2), Vector("macc_vv", 2, 1, 0),
    Vector("madd_vv", 1, 0, 0) }

Splats == AfterSplat(VectorWords)

Calls == AfterSplat({ Call(0) })

(* A scalar branch goes into the arm of a vbranch, which the translator    *)
(* accepts.                                                                *)
SideEntries ==
  { << Auipc(1, 8), SetRpc(1), Branch(5, 0, s), VBranch(0, 1, 7),
       Plain("plain"), Plain("plain"), Plain("plain"), Plain("join"), Plain("ret") >> : s \in 4 .. 8 }

(* A loop that begins with the join of the vbranch that closes it: the     *)
(* verifier takes it, for a block postdominates itself.                    *)
OwnJoinLoops ==
  { << Plain("join"), w, Auipc(1, 1), SetRpc(1), VBranch(0, 1, t), e, Plain("ret") >> :
      w \in { Plain("plain"), Plain("barrier"), Vector("load_v", 0, 2, 0) },
      t \in {1, 6}, e \in { Plain("plain"), Plain("barrier"), Jump(1) } }

(* The arms of a vbranch put two scalars into the operand of the next one, *)
(* which is uniform in either arm and not after their join.                *)
SplatArms ==
  { << Auipc(1, 7), SetRpc(1), VBranch(0, 2, 6), Vector("vmv_v_x", 1, 5, 0), Jump(7),
       Vector("vmv_v_x", 1, a, 0), Plain("join"), Vector("vmv_v_x", 32, 5, 0), Auipc(1, 13),
       SetRpc(1), VBranch(1, 32, 13), Plain("barrier"), Plain("join"), Plain("ret") >> : a \in {0, 5} }

StructuredPrograms ==
  Loops \cup Arms \cup Nested \cup Prefixed \cup Splats \cup Calls \cup OwnJoinLoops \cup SplatArms
=============================================================================
