--------------------------- MODULE Postdom_proofs --------------------------
(***************************************************************************)
(* For every number of blocks and every control-flow graph: what the       *)
(* sweeps of compute_postdominators leave is postdominance, and no         *)
(* candidate set ever grows or becomes too small on the way.               *)
(***************************************************************************)
EXTENDS Postdom, TLAPS

USE NAssumption DEF Blocks, Exit

(* What a sweep that has changed nothing so far knows about the blocks it  *)
(* has been at.                                                            *)
Settled == ~changed => \A b \in Blocks : b < i => postdom[b] = Meet(b) \cup {b}

(* No set is smaller than what its own step would make of it.              *)
AboveMeet == \A b \in Blocks : Meet(b) \cup {b} \subseteq postdom[b]

(* The virtual exit is its own only postdominator.                         *)
ExitAlone == postdom[Exit] = {Exit}

IInv == TypeOK /\ ExitAlone /\ AboveMeet /\ NeverTooSmall /\ Settled

----------------------------------------------------------------------------
(* A set that keeps control until d keeps it for each of its members, so a *)
(* block other than d has successors, all postdominated by d.              *)
LEMMA SuccessorsToo ==
  ASSUME TypeOK, NEW d \in Blocks, NEW n \in Blocks, n # d, Postdominates(succs, d, n)
  PROVE  succs[n] # {} /\ \A s \in succs[n] : s \in Blocks /\ Postdominates(succs, d, s)
<1>1. PICK S \in SUBSET Blocks : n \in S /\ Confined(succs, S, d)
  BY DEF TypeOK, Postdominates, Nodes
<1>2. succs[n] # {} /\ succs[n] \subseteq S
  BY <1>1 DEF Confined
<1>3. ASSUME NEW s \in succs[n] PROVE s \in Blocks /\ Postdominates(succs, d, s)
  BY <1>1, <1>2 DEF TypeOK, Postdominates, Nodes
<1>. QED BY <1>2, <1>3

(* Only block i's set changes in its step, and to what Meet says.          *)
LEMMA SweepShape ==
  ASSUME TypeOK, SweepBlock
  PROVE  /\ i \in Blocks
         /\ postdom' \in [1 .. Exit -> SUBSET (1 .. Exit)]
         /\ postdom'[i] = Meet(i) \cup {i}
         /\ \A b \in 1 .. Exit : b # i => postdom'[b] = postdom[b]
<1>1. i \in Blocks /\ Meet(i) \subseteq 1 .. Exit
  BY DEF SweepBlock, TypeOK, Meet
<1>. QED BY <1>1 DEF SweepBlock, TypeOK

(* A step of a block takes nothing into its set, nor into what any block's *)
(* step would make.                                                        *)
LEMMA SweepShrinks ==
  ASSUME TypeOK, AboveMeet, SweepBlock
  PROVE  /\ \A n \in 1 .. Exit : postdom'[n] \subseteq postdom[n]
         /\ \A b \in Blocks : Meet(b)' \subseteq Meet(b)
<1>1. \A n \in 1 .. Exit : postdom'[n] \subseteq postdom[n]
  BY SweepShape DEF AboveMeet
<1>2. \A b \in Blocks : Meet(b)' \subseteq Meet(b)
  BY <1>1 DEF Meet, SweepBlock, TypeOK
<1>. QED BY <1>1, <1>2

----------------------------------------------------------------------------
LEMMA InitIInv == Init => IInv
<1>. SUFFICES ASSUME Init PROVE IInv
  OBVIOUS
<1>1. TypeOK
  <2>1. succs \in [Blocks -> SUBSET Blocks]
    <3>1. { S \in SUBSET Blocks : AtMost(S, MaxSuccs) } \subseteq SUBSET Blocks
      OBVIOUS
    <3>. QED BY <3>1 DEF Init
  <2>2. postdom \in [1 .. Exit -> SUBSET (1 .. Exit)] /\ i \in 1 .. Exit
    BY DEF Init
  <2>3. changed \in BOOLEAN
    BY DEF Init
  <2>. QED BY <2>1, <2>2, <2>3 DEF TypeOK
<1>2. ExitAlone /\ AboveMeet
  BY DEF Init, ExitAlone, AboveMeet, Meet
<1>3. NeverTooSmall /\ Settled
  BY DEF Init, NeverTooSmall, Settled
<1>. QED BY <1>1, <1>2, <1>3 DEF IInv

LEMMA SweepKeepsIInv ==
  ASSUME IInv, SweepBlock
  PROVE  IInv'
<1>. USE DEF IInv
<1>1. TypeOK'
  BY SweepShape DEF SweepBlock, TypeOK
<1>2. ExitAlone'
  BY SweepShape DEF ExitAlone, TypeOK
<1>3. AboveMeet'
  <2>. SUFFICES ASSUME NEW b \in Blocks PROVE Meet(b)' \cup {b} \subseteq postdom'[b]
    BY DEF AboveMeet
  <2>1. Meet(b)' \subseteq Meet(b)
    BY SweepShrinks
  <2>2. Meet(b) \cup {b} \subseteq postdom'[b]
    BY SweepShape DEF AboveMeet
  <2>. QED BY <2>1, <2>2
<1>4. NeverTooSmall'
  <2>. SUFFICES ASSUME NEW d \in Blocks, NEW n \in Blocks, Postdominates(succs, d, n)
                PROVE  d \in postdom'[n]
    BY DEF NeverTooSmall, SweepBlock
  <2>1. CASE n # i
    BY <2>1, SweepShape DEF NeverTooSmall
  <2>2. CASE n = i /\ d = i
    BY <2>2, SweepShape
  <2>3. CASE n = i /\ d # i
    <3>1. succs[i] # {} /\ \A s \in succs[i] : d \in postdom[s]
      BY <2>3, SuccessorsToo DEF NeverTooSmall
    <3>2. d \in Meet(i)
      BY <3>1 DEF Meet
    <3>. QED BY <3>2, <2>3, SweepShape
  <2>. QED BY <2>1, <2>2, <2>3
<1>5. Settled'
  <2>. SUFFICES ASSUME ~changed', NEW b \in Blocks, b < i' PROVE postdom'[b] = Meet(b)' \cup {b}
    BY DEF Settled
  <2>1. ~changed /\ postdom[i] = Meet(i) \cup {i}
    BY DEF SweepBlock
  <2>2. postdom' = postdom
    BY <2>1 DEF SweepBlock, TypeOK
  <2>3. Meet(b)' = Meet(b)
    BY <2>2 DEF Meet, SweepBlock
  <2>4. b < i \/ b = i
    BY DEF SweepBlock
  <2>. QED BY <2>1, <2>2, <2>3, <2>4 DEF Settled
<1>. QED BY <1>1, <1>2, <1>3, <1>4, <1>5

LEMMA NextSweepKeepsIInv ==
  ASSUME IInv, NextSweep
  PROVE  IInv'
<1>. USE DEF IInv, NextSweep
<1>1. TypeOK'
  <2>1. i' \in 1 .. Exit
    OBVIOUS
  <2>2. changed' \in BOOLEAN
    OBVIOUS
  <2>. QED BY <2>1, <2>2 DEF TypeOK
<1>2. ExitAlone' /\ AboveMeet' /\ NeverTooSmall'
  BY DEF ExitAlone, AboveMeet, Meet, NeverTooSmall
<1>3. Settled'
  BY DEF Settled
<1>. QED BY <1>1, <1>2, <1>3

LEMMA StutterKeepsIInv ==
  ASSUME IInv, UNCHANGED vars
  PROVE  IInv'
BY DEF IInv, vars, TypeOK, ExitAlone, AboveMeet, NeverTooSmall, Settled, Meet

(* The inductive invariant holds in every state.                           *)
THEOREM InductiveInvariant == Spec => []IInv
<1>1. IInv /\ [Next]_vars => IInv'
  BY SweepKeepsIInv, NextSweepKeepsIInv, StutterKeepsIInv DEF Next
<1>. QED BY <1>1, InitIInv, PTL DEF Spec

----------------------------------------------------------------------------
(* The variables of compute_postdominators keep their types.               *)
THEOREM TypeCorrect == Spec => []TypeOK
<1>1. IInv => TypeOK
  BY DEF IInv
<1>. QED BY <1>1, InductiveInvariant, PTL

(* The sweeps of compute_postdominators never strike out a postdominator.  *)
THEOREM NoneLost == Spec => []NeverTooSmall
<1>1. IInv => NeverTooSmall
  BY DEF IInv
<1>. QED BY <1>1, InductiveInvariant, PTL

(* After a sweep that changes nothing, the blocks that still have d among  *)
(* their candidates keep control until d.                                  *)
LEMMA CandidatesConfined ==
  ASSUME IInv, Done, NEW d \in Blocks
  PROVE  Confined(succs, { m \in Blocks : d \in postdom[m] }, d)
<1>. DEFINE S == { m \in Blocks : d \in postdom[m] }
<1>. SUFFICES ASSUME NEW n \in S, n # d PROVE succs[n] # {} /\ succs[n] \subseteq S
  BY DEF Confined
<1>1. postdom[n] = Meet(n) \cup {n}
  BY DEF IInv, Settled, Done
<1>2. d \in Meet(n)
  BY <1>1
<1>3. succs[n] # {}
  BY <1>2 DEF Meet, IInv, ExitAlone
<1>4. \A s \in succs[n] : s \in Blocks /\ d \in postdom[s]
  BY <1>2, <1>3 DEF Meet, IInv, TypeOK
<1>. QED BY <1>3, <1>4

(* When the sweeps of compute_postdominators are over, a block's set has   *)
(* exactly its postdominators.                                             *)
THEOREM SweepsExact == Spec => []ExactAtEnd
<1>1. IInv => ExactAtEnd
  <2>. SUFFICES ASSUME IInv, Done, NEW d \in Blocks, NEW n \in Blocks
                PROVE  d \in postdom[n] <=> Postdominates(succs, d, n)
    BY DEF ExactAtEnd
  <2>1. ASSUME d \in postdom[n] PROVE Postdominates(succs, d, n)
    <3>. DEFINE S == { m \in Blocks : d \in postdom[m] }
    <3>1. n \in S /\ S \in SUBSET Nodes(succs)
      BY <2>1 DEF Nodes, IInv, TypeOK
    <3>2. Confined(succs, S, d)
      BY CandidatesConfined
    <3>. QED BY <3>1, <3>2 DEF Postdominates
  <2>2. ASSUME Postdominates(succs, d, n) PROVE d \in postdom[n]
    BY <2>2 DEF IInv, NeverTooSmall
  <2>. QED BY <2>1, <2>2
<1>. QED BY <1>1, InductiveInvariant, PTL

(* No step of compute_postdominators puts a candidate back.                *)
THEOREM CandidatesOnlyShrink == Spec => OnlyShrinks
<1>. DEFINE Shrink == \A n \in 1 .. Exit : postdom'[n] \subseteq postdom[n]
<1>1. IInv /\ [Next]_vars => [Shrink]_vars
  BY SweepShrinks DEF IInv, Next, NextSweep, vars
<1>. QED BY <1>1, InductiveInvariant, PTL DEF Spec, OnlyShrinks
=============================================================================
