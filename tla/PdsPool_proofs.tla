--------------------------- MODULE PdsPool_proofs --------------------------
(***************************************************************************)
(* Proofs about PdsPool for every number of blocks, threads, slots and     *)
(* every word width: type correctness, mutual exclusion of the slots, the  *)
(* exactness of the bitmap and the rule that the last thread releases.     *)
(***************************************************************************)
EXTENDS PdsPool, FiniteSetTheorems, WellFoundedInduction, TLAPS

----------------------------------------------------------------------------
(* The inductive invariant.                                                *)

(* The threads of a block go through the kernel in three phases.           *)
PhaseInv(b) ==
  \/ \A t \in Threads : pc[b][t] = "idle"
  \/ /\ pc[b][Leader] \in {"start", "scan", "try", "alloc", "bar"}
     /\ \A t \in Threads \ {Leader} : pc[b][t] \in {"start", "bar"}
  \/ \A t \in Threads : pc[b][t] \in {"run", "release", "done"}

(* What the leader's registers mean while it looks for a slot.             *)
LeaderInv(b) ==
  /\ pc[b][Leader] \in {"scan", "try", "alloc"} => params.size
  /\ pc[b][Leader] \in {"try", "alloc"} => widx[b] \in 0 .. NWords - 1
  /\ pc[b][Leader] = "try" =>
       free[b] # {} /\ free[b] \subseteq InRangeMask(widx[b])
  /\ pc[b][Leader] = "alloc" => bit[b] \in InRangeMask(widx[b])

(* The exit counter counts the threads that have left.                     *)
Left(b) == { t \in Threads : pc[b][t] \in {"release", "done"} }

CountInv(b) ==
  /\ pc[b][Leader] \in {"scan", "try", "alloc", "bar"} => exitCount[b] = 0
  /\ pc[b][Leader] \in {"run", "release", "done"} =>
       exitCount[b] = Cardinality(Left(b))

(* Only a block with private memory releases, by its last thread.          *)
ReleaseInv(b) ==
  \A t \in Threads : pc[b][t] = "release" =>
    params.size /\ \A u \in Threads \ {t} : pc[b][u] = "done"

(* The bit of a held slot is set ...                                       *)
HeldInv(b) ==
  Holds(b) => /\ HeldSlot(b) \in Slots
              /\ WordOf(HeldSlot(b)) \in 0 .. NWords - 1
              /\ BitOf(HeldSlot(b)) \in bitmap[WordOf(HeldSlot(b))]

(* ... and a set bit belongs to a slot somebody holds.                     *)
UsedInv ==
  \A w \in 0 .. NWords - 1 : \A k \in bitmap[w] :
    \E b \in Blocks : Holds(b) /\ HeldSlot(b) = SlotOf(w, k)

LocalInv(b) == PhaseInv(b) /\ LeaderInv(b) /\ CountInv(b) /\ ReleaseInv(b)

PoolInv ==
  /\ \A b \in Blocks : HeldInv(b)
  /\ SlotExclusive
  /\ UsedInv

IInv == TypeOK /\ (\A b \in Blocks : LocalInv(b)) /\ PoolInv

----------------------------------------------------------------------------
(* Arithmetic of the bitmap.                                               *)

LEMMA NWordsNat == NWords \in Nat
BY NumBlocksAssumption, WordBitsAssumption, SMT DEF NWords

(* Multiplying by the word width keeps word indices apart.                 *)
LEMMA WordMono ==
  ASSUME NEW v \in Int, NEW w \in Int, v + 1 <= w
  PROVE  v * WordBits + WordBits <= w * WordBits
BY WordBitsAssumption, SMT

(* Euclidean division by the word width.                                   *)
LEMMA WordDivision ==
  ASSUME NEW s \in Nat
  PROVE  /\ WordOf(s) \in Int
         /\ BitOf(s) \in Bits
         /\ s = WordOf(s) * WordBits + BitOf(s)
BY WordBitsAssumption, SMT DEF WordOf, BitOf, Bits

(* Word and bit are recovered from the slot index, as the release does     *)
(* with `shr 5` and `and 31`.                                              *)
LEMMA SlotCoding ==
  ASSUME NEW w \in Nat, NEW k \in Bits
  PROVE  /\ SlotOf(w, k) \in Nat
         /\ WordOf(SlotOf(w, k)) = w
         /\ BitOf(SlotOf(w, k)) = k
<1> DEFINE s == SlotOf(w, k)
<1>1. w * WordBits \in Nat
  BY WordBitsAssumption, SMT
<1>2. s \in Nat /\ s = w * WordBits + k
  BY <1>1, WordBitsAssumption, SMT DEF SlotOf, Bits
<1> DEFINE q == WordOf(s)
           m == BitOf(s)
<1>3. q \in Int /\ m \in Bits /\ s = q * WordBits + m
  BY <1>2, WordDivision
<1> HIDE DEF s, q, m
<1>4. ~(q < w)
  <2>1. SUFFICES ASSUME q < w PROVE FALSE
    OBVIOUS
  <2>2. q * WordBits + WordBits <= w * WordBits
    BY <2>1, <1>3, WordMono, SMT
  <2>3. q * WordBits \in Int
    BY <1>3, WordBitsAssumption, SMT
  <2>4. QED
    BY <2>2, <2>3, <1>1, <1>2, <1>3, WordBitsAssumption, SMT DEF Bits
<1>5. ~(w < q)
  <2>1. SUFFICES ASSUME w < q PROVE FALSE
    OBVIOUS
  <2>2. w * WordBits + WordBits <= q * WordBits
    BY <2>1, <1>3, WordMono, SMT
  <2>3. q * WordBits \in Int
    BY <1>3, WordBitsAssumption, SMT
  <2>4. QED
    BY <2>2, <2>3, <1>1, <1>2, <1>3, WordBitsAssumption, SMT DEF Bits
<1>6. q = w
  BY <1>3, <1>4, <1>5, SMT
<1>7. m = k
  BY <1>1, <1>2, <1>3, <1>6, WordBitsAssumption, SMT DEF Bits
<1>8. QED
  BY <1>2, <1>6, <1>7 DEF s, q, m

(* The mask of a word admits only bits of slots that exist.                *)
LEMMA MaskInPool ==
  ASSUME NEW w \in 0 .. NWords - 1, NEW k \in InRangeMask(w)
  PROVE  k \in Bits /\ SlotOf(w, k) \in Slots
<1>1. w \in Nat /\ k \in Bits
  BY NWordsNat, SMT DEF InRangeMask
<1>2. w * WordBits \in Nat
  BY <1>1, WordBitsAssumption, SMT
<1>3. QED
  BY <1>1, <1>2, NumBlocksAssumption, WordBitsAssumption, SMT
     DEF InRangeMask, SlotOf, Slots, Bits

(* A non-empty set of naturals has a least element.                        *)
LEMMA NatMinimum ==
  ASSUME NEW T \in SUBSET Nat, T # {}
  PROVE  \E x \in T : \A y \in T : x <= y
<1> DEFINE R == OpToRel(<, Nat)
<1>1. IsWellFoundedOn(R, Nat)
  BY NatLessThanWellFounded
<1>2. \A x, y \in Nat : x < y => <<x, y>> \in R
  BY DEF OpToRel
<1> HIDE DEF R
<1>3. PICK x \in T : \A y \in T : <<y, x>> \notin R
  BY <1>1, WFMin
<1>4. ASSUME NEW y \in T PROVE x <= y
  <2>1. x \in Nat /\ y \in Nat
    OBVIOUS
  <2>2. <<y, x>> \notin R
    BY <1>3
  <2>3. ~(y < x)
    BY <1>2, <2>1, <2>2, Zenon
  <2>4. QED
    BY <2>1, <2>3
<1>5. QED
  BY <1>4

(* bfind returns a bit of a non-empty word.                                *)
LEMMA BFindIn ==
  ASSUME NEW S \in SUBSET Bits, S # {}
  PROVE  BFind(S) \in S
<1> DEFINE T == { n \in Nat : WordBits - 1 - n \in S }
<1>1. PICK k \in S : TRUE
  OBVIOUS
<1>2. WordBits - 1 - k \in T
  BY <1>1, WordBitsAssumption, SMT DEF Bits
<1>3. PICK n \in T : \A m \in T : n <= m
  BY <1>2, NatMinimum
<1>4. ASSUME NEW j \in S PROVE j <= WordBits - 1 - n
  <2>1. WordBits - 1 - j \in T
    BY WordBitsAssumption, SMT DEF Bits
  <2>2. n <= WordBits - 1 - j
    BY <1>3, <2>1
  <2>3. QED
    BY <2>2, WordBitsAssumption, SMT DEF Bits
<1>5. \E i \in S : \A j \in S : j <= i
  BY <1>3, <1>4
<1>6. QED
  BY <1>5 DEF BFind

----------------------------------------------------------------------------
(* The parts of a block a step of one of its threads may change.           *)
LEMMA GotoType ==
  ASSUME pc \in [Blocks -> [Threads -> Labels]],
         NEW b \in Blocks, NEW t \in Threads, NEW l \in Labels, Goto(b, t, l)
  PROVE  /\ pc' \in [Blocks -> [Threads -> Labels]]
         /\ pc'[b][t] = l
         /\ \A u \in Threads : u # t => pc'[b][u] = pc[b][u]
         /\ \A c \in Blocks : c # b => pc'[c] = pc[c]
BY DEF Goto

LEMMA InitTypeOK == Init => TypeOK
<1> SUFFICES ASSUME Init PROVE TypeOK
  OBVIOUS
<1>1. params \in Params
  BY ParamsAssumption DEF Init
<1>2. 0 \in Bits
  BY WordBitsAssumption, SMT DEF Bits
<1>3. QED
  BY <1>1, <1>2 DEF Init, TypeOK, Labels

(* Every variable keeps its type.                                          *)
LEMMA NextTypeOK == IInv /\ [Next]_vars => TypeOK'
<1> SUFFICES ASSUME IInv, [Next]_vars PROVE TypeOK'
  OBVIOUS
<1>0. /\ "scan" \in Labels /\ "try" \in Labels /\ "alloc" \in Labels /\ "bar" \in Labels
      /\ "release" \in Labels /\ "done" \in Labels /\ "start" \in Labels
      /\ "idle" \in Labels /\ "run" \in Labels /\ Leader \in Threads
  BY ThreadsAssumption DEF Labels
<1>t. TypeOK
  BY DEF IInv
<1>1. CASE NextLaunch
  BY <1>0, <1>1, <1>t, ParamsAssumption DEF NextLaunch, TypeOK
<1>2. CASE Stopped \/ UNCHANGED vars
  BY <1>2, <1>t DEF Stopped, vars, TypeOK
<1>3. ASSUME NEW b \in Blocks, StartBlock(b) PROVE TypeOK'
  <2>1. BlockSize \in Nat
    BY ThreadsAssumption, FS_CardinalityType DEF BlockSize
  <2>2. QED
    BY <1>0, <1>t, <1>3, <2>1 DEF StartBlock, TypeOK
<1>4. ASSUME NEW b \in Blocks, BarSync(b) PROVE TypeOK'
  BY <1>0, <1>t, <1>4 DEF BarSync, TypeOK
<1>5. ASSUME NEW b \in Blocks, EnterAcquire(b) PROVE TypeOK'
  <2>1. pc' \in [Blocks -> [Threads -> Labels]]
    BY <1>0, <1>t, <1>5, GotoType DEF EnterAcquire, ResetExitCount, TypeOK
  <2>2. exitCount' \in [Blocks -> Nat]
    BY <1>t, <1>5 DEF EnterAcquire, ResetExitCount, TypeOK
  <2>3. blockIdx' \in [Blocks -> Nat] /\ widx' \in [Blocks -> Nat]
    <3>1. CASE params.size
      BY <1>t, <1>5, <3>1 DEF EnterAcquire, ResetExitCount, TypeOK
    <3>2. CASE ~params.size
      <4>1. blockIdx' = [blockIdx EXCEPT ![b] = 0] /\ widx' = widx
        BY <1>5, <3>2 DEF EnterAcquire
      <4>2. QED
        BY <1>t, <4>1 DEF TypeOK
    <3>3. QED
      BY <3>1, <3>2
  <2>4. QED
    BY <1>t, <1>5, <2>1, <2>2, <2>3 DEF EnterAcquire, ResetExitCount, TypeOK
<1>6. ASSUME NEW b \in Blocks, ScanRestart(b) PROVE TypeOK'
  BY <1>t, <1>6 DEF ScanRestart, TypeOK
<1>7. ASSUME NEW b \in Blocks, ScanWord(b) PROVE TypeOK'
  <2>1. pc' \in [Blocks -> [Threads -> Labels]]
    BY <1>0, <1>t, <1>7, GotoType DEF ScanWord, TypeOK
  <2>2. InRangeMask(widx[b]) \ bitmap[widx[b]] \in SUBSET Bits
    BY DEF InRangeMask
  <2>3. free' \in [Blocks -> SUBSET Bits] /\ widx' \in [Blocks -> Nat]
    <3>1. CASE InRangeMask(widx[b]) \ bitmap[widx[b]] = {}
      BY <1>t, <1>7, <3>1 DEF ScanWord, TypeOK
    <3>2. CASE InRangeMask(widx[b]) \ bitmap[widx[b]] # {}
      BY <1>t, <1>7, <2>2, <3>2 DEF ScanWord, TypeOK
    <3>3. QED
      BY <3>1, <3>2
  <2>4. QED
    BY <1>t, <1>7, <2>1, <2>3 DEF ScanWord, TypeOK
<1>8. ASSUME NEW b \in Blocks, TryWord(b) PROVE TypeOK'
  <2>1. pc' \in [Blocks -> [Threads -> Labels]]
    BY <1>0, <1>t, <1>8, GotoType DEF TryWord, Won, TypeOK
  <2>2. free[b] \in SUBSET Bits /\ free[b] # {}
    BY <1>t, <1>8 DEF IInv, LocalInv, LeaderInv, TryWord, TypeOK
  <2>3. BFind(free[b]) \in Bits
    BY <2>2, BFindIn
  <2>4. bitmap' \in [0 .. NWords - 1 -> SUBSET Bits]
    BY <1>t, <1>8, <2>3 DEF TryWord, Won, TypeOK
  <2>5. bit' \in [Blocks -> Bits]
    BY <1>t, <1>8, <2>3 DEF TryWord, Won, TypeOK
  <2>6. free' \in [Blocks -> SUBSET Bits] /\ widx' \in [Blocks -> Nat]
    <3> DEFINE k == BFind(free[b])
    <3>1. CASE k \notin bitmap[widx[b]]
      BY <1>t, <1>8, <3>1 DEF TryWord, Won, TypeOK
    <3>2. CASE k \in bitmap[widx[b]] /\ free[b] \ {k} # {}
      BY <1>t, <1>8, <2>2, <3>2 DEF TryWord, Won, TypeOK
    <3>3. CASE k \in bitmap[widx[b]] /\ free[b] \ {k} = {}
      <4>1. /\ free' = [free EXCEPT ![b] = @ \ {k}]
            /\ widx' = [widx EXCEPT ![b] = @ + 1]
        BY <1>8, <3>3 DEF TryWord, Won
      <4>2. QED
        BY <1>t, <4>1 DEF TypeOK
    <3>4. QED
      BY <3>1, <3>2, <3>3
  <2>7. QED
    BY <1>t, <1>8, <2>1, <2>4, <2>5, <2>6 DEF TryWord, Won, TypeOK
<1>9. ASSUME NEW b \in Blocks, AllocSuccess(b) PROVE TypeOK'
  <2>1. pc' \in [Blocks -> [Threads -> Labels]]
    BY <1>0, <1>t, <1>9, GotoType DEF AllocSuccess, TypeOK
  <2>2. SlotOf(widx[b], bit[b]) \in Nat
    BY <1>t, SlotCoding DEF TypeOK
  <2>3. QED
    BY <1>t, <1>9, <2>1, <2>2 DEF AllocSuccess, TypeOK
<1>10. ASSUME NEW b \in Blocks, NEW t \in Threads, ThreadStep(b, t) PROVE TypeOK'
  <2>1. CASE Trap(b, t)
    BY <1>t, <2>1 DEF Trap, TypeOK
  <2>2. CASE SkipToBarrier(b, t)
    BY <1>0, <1>t, <2>2, GotoType DEF SkipToBarrier, TypeOK
  <2>3. CASE Leave(b, t)
    <3>1. pc' \in [Blocks -> [Threads -> Labels]]
      BY <1>0, <1>t, <2>3, GotoType DEF Leave, TypeOK
    <3>2. exitCount' = [exitCount EXCEPT ![b] = @ + 1]
      BY <2>3 DEF Leave
    <3>3. exitCount' \in [Blocks -> Nat]
      BY <1>t, <3>2 DEF TypeOK
    <3>4. QED
      BY <1>t, <2>3, <3>1, <3>3 DEF Leave, TypeOK
  <2>4. CASE Release(b, t)
    <3>1. pc' \in [Blocks -> [Threads -> Labels]]
      BY <1>0, <1>t, <2>4, GotoType DEF Release, TypeOK
    <3>2. QED
      BY <1>t, <2>4, <3>1 DEF Release, TypeOK
  <2>5. QED
    BY <1>10, <2>1, <2>2, <2>3, <2>4 DEF ThreadStep
<1>11. QED
  BY <1>1, <1>2, <1>3, <1>4, <1>5, <1>6, <1>7, <1>8, <1>9, <1>10 DEF Next, LeaderStep

----------------------------------------------------------------------------
(* Frame lemmas: a step of one block leaves the others as they are.        *)

SameBlock(c) ==
  /\ pc'[c]        = pc[c]
  /\ exitCount'[c] = exitCount[c]
  /\ blockIdx'[c]  = blockIdx[c]
  /\ widx'[c]      = widx[c]
  /\ free'[c]      = free[c]
  /\ bit'[c]       = bit[c]

LEMMA SameBlockKeeps ==
  ASSUME NEW c \in Blocks, SameBlock(c), params' = params, LocalInv(c)
  PROVE  /\ LocalInv(c)'
         /\ Holds(c)' <=> Holds(c)
         /\ HeldSlot(c)' = HeldSlot(c)
<1>1. Left(c)' = Left(c)
  BY DEF Left, SameBlock
<1>2. PhaseInv(c)' /\ ReleaseInv(c)'
  BY DEF SameBlock, LocalInv, PhaseInv, ReleaseInv
<1>3. LeaderInv(c)'
  BY DEF SameBlock, LocalInv, LeaderInv
<1>4. CountInv(c)'
  BY <1>1 DEF SameBlock, LocalInv, CountInv
<1>5. (Holds(c)' <=> Holds(c)) /\ HeldSlot(c)' = HeldSlot(c)
  BY DEF SameBlock, Holds, HeldSlot
<1>6. QED
  BY <1>2, <1>3, <1>4, <1>5 DEF LocalInv

(* What a step does to the slots: nothing, or one block takes a slot that  *)
(* nobody holds, or one gives its slot back.                               *)
SameSlot(c) == (Holds(c)' <=> Holds(c)) /\ (Holds(c) => HeldSlot(c)' = HeldSlot(c))

OthersSame(b) == \A c \in Blocks : c # b => SameSlot(c)

Takes(b) ==
  /\ ~Holds(b) /\ Holds(b)' /\ HeldSlot(b)' \in Slots
  /\ \A c \in Blocks : Holds(c) => HeldSlot(c) # HeldSlot(b)'
  /\ OthersSame(b)

Gives(b) == Holds(b) /\ HeldSlot(b) \in Slots /\ ~Holds(b)' /\ OthersSame(b)

PoolStep == (\A c \in Blocks : SameSlot(c)) \/ \E b \in Blocks : Takes(b) \/ Gives(b)

(* A step that leaves the bitmap and what each block holds alone keeps the *)
(* pool's invariant.                                                       *)
LEMMA SameHoldersKeep ==
  ASSUME PoolInv, bitmap' = bitmap,
         \A c \in Blocks : Holds(c)' <=> Holds(c),
         \A c \in Blocks : Holds(c) => HeldSlot(c)' = HeldSlot(c)
  PROVE  PoolInv' /\ PoolStep
<1>1. ASSUME NEW c \in Blocks PROVE HeldInv(c)'
  BY DEF PoolInv, HeldInv
<1>2. SlotExclusive'
  BY DEF PoolInv, SlotExclusive, Holders
<1>3. UsedInv'
  BY DEF PoolInv, UsedInv
<1>4. QED
  BY <1>1, <1>2, <1>3 DEF PoolInv, PoolStep, SameSlot

----------------------------------------------------------------------------
(* One lemma per kind of step.                                             *)

LEMMA StartBlockKeeps ==
  ASSUME IInv, NEW b \in Blocks, StartBlock(b)
  PROVE  (\A c \in Blocks : LocalInv(c))' /\ PoolInv' /\ PoolStep
<1>1. /\ pc' = [pc EXCEPT ![b] = [t \in Threads |-> "start"]]
      /\ \A t \in Threads : pc[b][t] = "idle"
      /\ \E g \in 0 .. BlockSize : exitCount' = [exitCount EXCEPT ![b] = g]
      /\ UNCHANGED << bitmap, params, blockIdx, widx, free, bit >>
      /\ pc \in [Blocks -> [Threads -> Labels]]
      /\ exitCount \in [Blocks -> Nat]
      /\ Leader \in Threads
  BY ThreadsAssumption DEF StartBlock, Idle, IInv, TypeOK
<1>2. \A t \in Threads : pc'[b][t] = "start"
  BY <1>1
<1>3. ASSUME NEW c \in Blocks, c # b
      PROVE LocalInv(c)' /\ (Holds(c)' <=> Holds(c)) /\ HeldSlot(c)' = HeldSlot(c)
  <2>1. SameBlock(c)
    BY <1>1, <1>3 DEF SameBlock
  <2>2. QED
    BY <1>1, <2>1, SameBlockKeeps DEF IInv
<1>4. LocalInv(b)'
  BY <1>1, <1>2 DEF LocalInv, PhaseInv, LeaderInv, CountInv, ReleaseInv
<1>5. ~Holds(b) /\ ~Holds(b)'
  BY <1>1, <1>2 DEF Holds
<1>6. PoolInv' /\ PoolStep
  BY <1>1, <1>3, <1>5, SameHoldersKeep DEF IInv
<1>7. QED
  BY <1>3, <1>4, <1>6

LEMMA NextLaunchKeeps ==
  ASSUME IInv, NextLaunch
  PROVE  (\A c \in Blocks : LocalInv(c))' /\ PoolInv' /\ PoolStep
<1>1. /\ \A c \in Blocks : \A t \in Threads : pc[c][t] = "done" /\ pc'[c][t] = "idle"
      /\ bitmap' = bitmap
      /\ Leader \in Threads
  BY ThreadsAssumption DEF NextLaunch, Finished
<1>2. ASSUME NEW c \in Blocks PROVE LocalInv(c)'
  BY <1>1 DEF LocalInv, PhaseInv, LeaderInv, CountInv, ReleaseInv
<1>3. \A c \in Blocks : ~Holds(c) /\ ~Holds(c)'
  BY <1>1 DEF Holds
<1>4. PoolInv' /\ PoolStep
  BY <1>1, <1>3, SameHoldersKeep DEF IInv
<1>5. QED
  BY <1>2, <1>4

LEMMA BarSyncKeeps ==
  ASSUME IInv, NEW b \in Blocks, BarSync(b)
  PROVE  (\A c \in Blocks : LocalInv(c))' /\ PoolInv' /\ PoolStep
<1>1. /\ pc' = [pc EXCEPT ![b] = [t \in Threads |-> "run"]]
      /\ \A t \in Threads : pc[b][t] = "bar"
      /\ UNCHANGED << bitmap, params, exitCount, blockIdx, widx, free, bit >>
      /\ pc \in [Blocks -> [Threads -> Labels]]
      /\ Leader \in Threads
  BY ThreadsAssumption DEF BarSync, IInv, TypeOK
<1>2. \A t \in Threads : pc'[b][t] = "run"
  BY <1>1
<1>3. ASSUME NEW c \in Blocks, c # b
      PROVE LocalInv(c)' /\ (Holds(c)' <=> Holds(c)) /\ HeldSlot(c)' = HeldSlot(c)
  <2>1. SameBlock(c)
    BY <1>1, <1>3 DEF SameBlock
  <2>2. QED
    BY <1>1, <2>1, SameBlockKeeps DEF IInv
<1>4. LocalInv(b)'
  <2>1. PhaseInv(b)' /\ LeaderInv(b)' /\ ReleaseInv(b)'
    BY <1>1, <1>2 DEF PhaseInv, LeaderInv, ReleaseInv
  <2>2. Left(b)' = {}
    BY <1>2 DEF Left
  <2>3. exitCount'[b] = 0
    BY <1>1 DEF IInv, LocalInv, CountInv
  <2>4. CountInv(b)'
    BY <1>1, <1>2, <2>2, <2>3, FS_EmptySet DEF CountInv
  <2>5. QED
    BY <2>1, <2>4 DEF LocalInv
<1>5. (Holds(b)' <=> Holds(b)) /\ HeldSlot(b)' = HeldSlot(b)
  BY <1>1, <1>2 DEF Holds, HeldSlot
<1>6. PoolInv' /\ PoolStep
  BY <1>1, <1>3, <1>5, SameHoldersKeep DEF IInv
<1>7. QED
  BY <1>3, <1>4, <1>6

LEMMA SkipToBarrierKeeps ==
  ASSUME IInv, NEW b \in Blocks, NEW t \in Threads, SkipToBarrier(b, t)
  PROVE  (\A c \in Blocks : LocalInv(c))' /\ PoolInv' /\ PoolStep
<1>1. /\ pc[b][t] = "start" /\ t # Leader
      /\ pc'[b][t] = "bar"
      /\ \A u \in Threads : u # t => pc'[b][u] = pc[b][u]
      /\ \A c \in Blocks : c # b => pc'[c] = pc[c]
      /\ UNCHANGED << bitmap, params, exitCount, blockIdx, widx, free, bit >>
      /\ Leader \in Threads
  BY GotoType, ThreadsAssumption DEF SkipToBarrier, IInv, TypeOK, Labels
<1>2. /\ pc[b][Leader] \in {"start", "scan", "try", "alloc", "bar"}
      /\ \A u \in Threads \ {Leader} : pc[b][u] \in {"start", "bar"}
  BY <1>1 DEF IInv, LocalInv, PhaseInv
<1>3. ASSUME NEW c \in Blocks, c # b
      PROVE LocalInv(c)' /\ (Holds(c)' <=> Holds(c)) /\ HeldSlot(c)' = HeldSlot(c)
  <2>1. SameBlock(c)
    BY <1>1, <1>3 DEF SameBlock
  <2>2. QED
    BY <1>1, <2>1, SameBlockKeeps DEF IInv
<1>4. LocalInv(b)'
  <2>1. PhaseInv(b)'
    BY <1>1, <1>2 DEF PhaseInv
  <2>2. LeaderInv(b)' /\ CountInv(b)'
    BY <1>1, <1>2 DEF IInv, LocalInv, LeaderInv, CountInv
  <2>3. ReleaseInv(b)'
    BY <1>1, <1>2 DEF ReleaseInv
  <2>4. QED
    BY <2>1, <2>2, <2>3 DEF LocalInv
<1>5. (Holds(b)' <=> Holds(b)) /\ HeldSlot(b)' = HeldSlot(b)
  BY <1>1, <1>2 DEF Holds, HeldSlot
<1>6. PoolInv' /\ PoolStep
  BY <1>1, <1>3, <1>5, SameHoldersKeep DEF IInv
<1>7. QED
  BY <1>3, <1>4, <1>6

(* What the steps of a scanning leader have in common.                     *)
LEMMA LeaderPhase ==
  ASSUME IInv, NEW b \in Blocks,
         pc[b][Leader] \in {"start", "scan", "try", "alloc"}
  PROVE  /\ \A u \in Threads \ {Leader} : pc[b][u] \in {"start", "bar"}
         /\ ~Holds(b) \/ pc[b][Leader] = "alloc"
<1>1. Leader \in Threads
  BY ThreadsAssumption
<1>2. \A u \in Threads \ {Leader} : pc[b][u] \in {"start", "bar"}
  BY <1>1 DEF IInv, LocalInv, PhaseInv
<1>3. QED
  BY <1>1, <1>2 DEF Holds

LEMMA EnterAcquireKeeps ==
  ASSUME IInv, NEW b \in Blocks, EnterAcquire(b)
  PROVE  (\A c \in Blocks : LocalInv(c))' /\ PoolInv' /\ PoolStep
<1>1. /\ pc[b][Leader] = "start"
      /\ pc'[b][Leader] = IF params.size THEN "scan" ELSE "bar"
      /\ \A u \in Threads : u # Leader => pc'[b][u] = pc[b][u]
      /\ \A c \in Blocks : c # b => pc'[c] = pc[c]
      /\ Leader \in Threads
  BY GotoType, ThreadsAssumption DEF EnterAcquire, ResetExitCount, IInv, TypeOK, Labels
<1>2. /\ exitCount'[b] = 0
      /\ \A c \in Blocks : c # b => /\ exitCount'[c] = exitCount[c]
                                    /\ blockIdx'[c] = blockIdx[c]
                                    /\ widx'[c] = widx[c]
      /\ UNCHANGED << bitmap, params, free, bit >>
  BY DEF EnterAcquire, ResetExitCount, IInv, TypeOK
<1>3. \A u \in Threads \ {Leader} : pc[b][u] \in {"start", "bar"}
  BY <1>1, LeaderPhase
<1>4. ASSUME NEW c \in Blocks, c # b
      PROVE LocalInv(c)' /\ (Holds(c)' <=> Holds(c)) /\ HeldSlot(c)' = HeldSlot(c)
  <2>1. SameBlock(c)
    BY <1>1, <1>2, <1>4 DEF SameBlock
  <2>2. QED
    BY <1>2, <2>1, SameBlockKeeps DEF IInv
<1>5. LocalInv(b)'
  <2>1. PhaseInv(b)'
    BY <1>1, <1>3 DEF PhaseInv
  <2>2. LeaderInv(b)' /\ CountInv(b)'
    BY <1>1, <1>2 DEF LeaderInv, CountInv
  <2>3. ReleaseInv(b)'
    BY <1>1, <1>3 DEF ReleaseInv
  <2>4. QED
    BY <2>1, <2>2, <2>3 DEF LocalInv
<1>6. ~Holds(b) /\ ~Holds(b)'
  BY <1>1, <1>2, <1>3 DEF Holds
<1>7. PoolInv' /\ PoolStep
  BY <1>2, <1>4, <1>6, SameHoldersKeep DEF IInv
<1>8. QED
  BY <1>4, <1>5, <1>7

LEMMA ScanRestartKeeps ==
  ASSUME IInv, NEW b \in Blocks, ScanRestart(b)
  PROVE  (\A c \in Blocks : LocalInv(c))' /\ PoolInv' /\ PoolStep
<1>1. /\ pc[b][Leader] = "scan"
      /\ \A c \in Blocks : c # b => widx'[c] = widx[c]
      /\ UNCHANGED << bitmap, params, pc, exitCount, blockIdx, free, bit >>
  BY DEF ScanRestart, IInv, TypeOK
<1>2. ASSUME NEW c \in Blocks, c # b
      PROVE LocalInv(c)' /\ (Holds(c)' <=> Holds(c)) /\ HeldSlot(c)' = HeldSlot(c)
  <2>1. SameBlock(c)
    BY <1>1, <1>2 DEF SameBlock
  <2>2. QED
    BY <1>1, <2>1, SameBlockKeeps DEF IInv
<1>3. LocalInv(b)'
  <2>1. Left(b)' = Left(b)
    BY <1>1 DEF Left
  <2>2. QED
    BY <1>1, <2>1
       DEF IInv, LocalInv, PhaseInv, LeaderInv, CountInv, ReleaseInv
<1>4. (Holds(b)' <=> Holds(b)) /\ HeldSlot(b)' = HeldSlot(b)
  BY <1>1 DEF Holds, HeldSlot
<1>5. PoolInv' /\ PoolStep
  BY <1>1, <1>2, <1>4, SameHoldersKeep DEF IInv
<1>6. QED
  BY <1>2, <1>3, <1>5

LEMMA ScanWordKeeps ==
  ASSUME IInv, NEW b \in Blocks, ScanWord(b)
  PROVE  (\A c \in Blocks : LocalInv(c))' /\ PoolInv' /\ PoolStep
<1> DEFINE seen == InRangeMask(widx[b]) \ bitmap[widx[b]]
<1>0. Leader \in Threads
  BY ThreadsAssumption
<1>1. /\ pc[b][Leader] = "scan" /\ widx[b] \in 0 .. NWords - 1
      /\ \A u \in Threads : u # Leader => pc'[b][u] = pc[b][u]
      /\ UNCHANGED << bitmap, params, exitCount, blockIdx, bit >>
      /\ \A c \in Blocks : c # b => /\ pc'[c] = pc[c]
                                    /\ widx'[c] = widx[c]
                                    /\ free'[c] = free[c]
  <2>1. /\ pc[b][Leader] = "scan" /\ widx[b] < NWords /\ widx[b] \in Nat
        /\ UNCHANGED << bitmap, params, exitCount, blockIdx, bit >>
    BY DEF ScanWord, IInv, TypeOK
  <2>2. CASE seen = {}
    BY <2>1, <2>2, NWordsNat DEF ScanWord, IInv, TypeOK
  <2>3. CASE seen # {}
    <3>1. Goto(b, Leader, "try") /\ widx' = widx /\ free' = [free EXCEPT ![b] = seen]
      BY <2>3 DEF ScanWord
    <3>2. QED
      BY <1>0, <2>1, <3>1, NWordsNat DEF Goto, IInv, TypeOK
  <2>4. QED
    BY <2>2, <2>3
<1>2. \/ pc'[b][Leader] = "scan"
      \/ /\ pc'[b][Leader] = "try" /\ widx'[b] = widx[b]
         /\ free'[b] # {} /\ free'[b] \subseteq InRangeMask(widx'[b])
  <2>1. CASE seen = {}
    BY <1>1, <2>1 DEF ScanWord
  <2>2. CASE seen # {}
    <3>1. Goto(b, Leader, "try") /\ widx' = widx /\ free' = [free EXCEPT ![b] = seen]
      BY <2>2 DEF ScanWord
    <3>2. QED
      BY <1>0, <2>2, <3>1 DEF Goto, IInv, TypeOK
  <2>3. QED
    BY <2>1, <2>2
<1> HIDE DEF seen
<1>3. \A u \in Threads \ {Leader} : pc[b][u] \in {"start", "bar"}
  BY <1>1, LeaderPhase
<1>4. ASSUME NEW c \in Blocks, c # b
      PROVE LocalInv(c)' /\ (Holds(c)' <=> Holds(c)) /\ HeldSlot(c)' = HeldSlot(c)
  <2>1. SameBlock(c)
    BY <1>1, <1>4 DEF SameBlock
  <2>2. QED
    BY <1>1, <2>1, SameBlockKeeps DEF IInv
<1>5. LocalInv(b)'
  <2>1. PhaseInv(b)'
    BY <1>0, <1>1, <1>2, <1>3 DEF PhaseInv
  <2>2. LeaderInv(b)' /\ CountInv(b)'
    BY <1>1, <1>2 DEF IInv, LocalInv, LeaderInv, CountInv
  <2>3. ReleaseInv(b)'
    BY <1>0, <1>1, <1>2, <1>3 DEF ReleaseInv
  <2>4. QED
    BY <2>1, <2>2, <2>3 DEF LocalInv
<1>6. ~Holds(b) /\ ~Holds(b)'
  BY <1>0, <1>1, <1>2, <1>3 DEF Holds
<1>7. PoolInv' /\ PoolStep
  BY <1>1, <1>4, <1>6, SameHoldersKeep DEF IInv
<1>8. QED
  BY <1>4, <1>5, <1>7

LEMMA AllocSuccessKeeps ==
  ASSUME IInv, NEW b \in Blocks, AllocSuccess(b)
  PROVE  (\A c \in Blocks : LocalInv(c))' /\ PoolInv' /\ PoolStep
<1>1. /\ pc[b][Leader] = "alloc" /\ pc'[b][Leader] = "bar"
      /\ \A u \in Threads : u # Leader => pc'[b][u] = pc[b][u]
      /\ \A c \in Blocks : c # b => pc'[c] = pc[c]
      /\ Leader \in Threads
  BY GotoType, ThreadsAssumption DEF AllocSuccess, IInv, TypeOK, Labels
<1>2. /\ blockIdx'[b] = SlotOf(widx[b], bit[b])
      /\ \A c \in Blocks : c # b => blockIdx'[c] = blockIdx[c]
      /\ UNCHANGED << bitmap, params, exitCount, widx, free, bit >>
  BY DEF AllocSuccess, IInv, TypeOK
<1>3. \A u \in Threads \ {Leader} : pc[b][u] \in {"start", "bar"}
  BY <1>1, LeaderPhase
<1>4. ASSUME NEW c \in Blocks, c # b
      PROVE LocalInv(c)' /\ (Holds(c)' <=> Holds(c)) /\ HeldSlot(c)' = HeldSlot(c)
  <2>1. SameBlock(c)
    BY <1>1, <1>2, <1>4 DEF SameBlock
  <2>2. QED
    BY <1>2, <2>1, SameBlockKeeps DEF IInv
<1>5. LocalInv(b)'
  <2>1. PhaseInv(b)'
    BY <1>1, <1>3 DEF PhaseInv
  <2>2. LeaderInv(b)' /\ CountInv(b)'
    BY <1>1, <1>2 DEF IInv, LocalInv, LeaderInv, CountInv
  <2>3. ReleaseInv(b)'
    BY <1>1, <1>3 DEF ReleaseInv
  <2>4. QED
    BY <2>1, <2>2, <2>3 DEF LocalInv
<1>6. (Holds(b)' <=> Holds(b)) /\ HeldSlot(b)' = HeldSlot(b)
  <2>1. params.size
    BY <1>1 DEF IInv, LocalInv, LeaderInv
  <2>2. Holds(b)
    BY <1>1, <2>1 DEF Holds
  <2>3. Holds(b)'
    BY <1>1, <1>2, <2>1 DEF Holds
  <2>4. HeldSlot(b)' = HeldSlot(b)
    BY <1>1, <1>2 DEF HeldSlot
  <2>5. QED
    BY <2>2, <2>3, <2>4
<1>7. PoolInv' /\ PoolStep
  BY <1>2, <1>4, <1>6, SameHoldersKeep DEF IInv
<1>8. QED
  BY <1>4, <1>5, <1>7

LEMMA TrapKeeps ==
  ASSUME IInv, NEW b \in Blocks, NEW t \in Threads, Trap(b, t)
  PROVE  (\A c \in Blocks : LocalInv(c))' /\ PoolInv' /\ PoolStep
<1>1. UNCHANGED << bitmap, params, pc, exitCount, blockIdx, widx, free, bit >>
  BY DEF Trap
<1>2. ASSUME NEW c \in Blocks
      PROVE LocalInv(c)' /\ (Holds(c)' <=> Holds(c)) /\ HeldSlot(c)' = HeldSlot(c)
  <2>1. SameBlock(c)
    BY <1>1 DEF SameBlock
  <2>2. QED
    BY <1>1, <2>1, SameBlockKeeps DEF IInv
<1>3. PoolInv' /\ PoolStep
  BY <1>1, <1>2, SameHoldersKeep DEF IInv
<1>4. QED
  BY <1>2, <1>3

(* The atomic OR found the bit clear: the slot had no owner.               *)
LEMMA BitTaken ==
  ASSUME IInv,
         NEW b \in Blocks, NEW w \in 0 .. NWords - 1, NEW k \in InRangeMask(w),
         k \notin bitmap[w],
         bitmap' = [bitmap EXCEPT ![w] = @ \cup {k}],
         ~Holds(b), Holds(b)', HeldSlot(b)' = SlotOf(w, k),
         \A c \in Blocks : c # b => (Holds(c)' <=> Holds(c)) /\ HeldSlot(c)' = HeldSlot(c)
  PROVE  PoolInv' /\ PoolStep
<1>1. /\ k \in Bits /\ SlotOf(w, k) \in Slots /\ w \in Nat
      /\ WordOf(SlotOf(w, k)) = w /\ BitOf(SlotOf(w, k)) = k
  <2>1. k \in Bits /\ SlotOf(w, k) \in Slots /\ w \in Nat
    BY MaskInPool
  <2>2. QED
    BY <2>1, SlotCoding
<1>2. /\ k \in bitmap'[w]
      /\ \A v \in 0 .. NWords - 1 : bitmap[v] \subseteq bitmap'[v]
      /\ \A v \in 0 .. NWords - 1 : \A j \in bitmap'[v] : j \in bitmap[v] \/ (v = w /\ j = k)
  BY DEF IInv, TypeOK
<1>3. \A c \in Blocks : Holds(c) => HeldSlot(c) # SlotOf(w, k)
  BY <1>1 DEF IInv, PoolInv, HeldInv
<1>4. ASSUME NEW c \in Blocks PROVE HeldInv(c)'
  <2>1. CASE c = b
    BY <1>1, <1>2, <2>1 DEF HeldInv
  <2>2. CASE c # b
    BY <1>2, <2>2 DEF IInv, PoolInv, HeldInv
  <2>3. QED
    BY <2>1, <2>2
<1>5. SlotExclusive'
  BY <1>3 DEF IInv, PoolInv, SlotExclusive, Holders
<1>6. UsedInv'
  <2>1. SUFFICES ASSUME NEW v \in 0 .. NWords - 1, NEW j \in bitmap'[v]
                 PROVE  \E c \in Blocks : Holds(c)' /\ HeldSlot(c)' = SlotOf(v, j)
    BY DEF UsedInv, SlotOf
  <2>2. CASE j \in bitmap[v]
    <3>1. PICK c \in Blocks : Holds(c) /\ HeldSlot(c) = SlotOf(v, j)
      BY <2>2 DEF IInv, PoolInv, UsedInv
    <3>2. QED
      BY <3>1
  <2>3. CASE v = w /\ j = k
    BY <2>3
  <2>4. QED
    BY <1>2, <2>2, <2>3
<1>7. PoolStep
  BY <1>1, <1>3 DEF PoolStep, Takes, OthersSame, SameSlot
<1>8. QED
  BY <1>4, <1>5, <1>6, <1>7 DEF PoolInv

LEMMA TryWordKeeps ==
  ASSUME IInv, NEW b \in Blocks, TryWord(b)
  PROVE  (\A c \in Blocks : LocalInv(c))' /\ PoolInv' /\ PoolStep
<1> DEFINE k == BFind(free[b])
           w == widx[b]
<1>1. /\ pc[b][Leader] = "try" /\ params.size
      /\ Leader \in Threads
      /\ w \in 0 .. NWords - 1
      /\ free[b] # {} /\ free[b] \subseteq InRangeMask(w)
      /\ free[b] \in SUBSET Bits
  BY ThreadsAssumption DEF TryWord, IInv, TypeOK, LocalInv, LeaderInv
<1>2. k \in free[b] /\ k \in InRangeMask(w)
  <2>1. k \in free[b]
    BY <1>1, BFindIn
  <2>2. QED
    BY <1>1, <2>1
<1>3. /\ bitmap' = [bitmap EXCEPT ![w] = @ \cup {k}]
      /\ bit' = [bit EXCEPT ![b] = k]
      /\ UNCHANGED << params, exitCount, blockIdx >>
      /\ \/ /\ k \notin bitmap[w]
            /\ Goto(b, Leader, "alloc") /\ free' = free /\ widx' = widx
         \/ /\ k \in bitmap[w]
            /\ free' = [free EXCEPT ![b] = @ \ {k}]
            /\ \/ free[b] \ {k} # {} /\ pc' = pc /\ widx' = widx
               \/ /\ widx' = [widx EXCEPT ![b] = @ + 1]
                  /\ Goto(b, Leader, "scan")
  BY DEF TryWord, Won
<1>t. TypeOK
  BY DEF IInv
<1>4. \A u \in Threads \ {Leader} : pc[b][u] \in {"start", "bar"}
  BY <1>1, LeaderPhase
<1>5. ~Holds(b)
  BY <1>1, <1>4 DEF Holds
<1>6. exitCount[b] = 0 /\ exitCount'[b] = 0 /\ bit'[b] = k
  BY <1>1, <1>3, <1>t DEF IInv, LocalInv, CountInv, TypeOK
<1> HIDE DEF k
<1>7. \A c \in Blocks : c # b => SameBlock(c)
  <2>1. \A c \in Blocks : c # b =>
          bit'[c] = bit[c] /\ exitCount'[c] = exitCount[c] /\ blockIdx'[c] = blockIdx[c]
    BY <1>3, <1>t DEF TypeOK
  <2>2. \A c \in Blocks : c # b =>
          widx'[c] = widx[c] /\ free'[c] = free[c] /\ pc'[c] = pc[c]
    BY <1>3, <1>t DEF TypeOK, Goto
  <2>3. QED
    BY <2>1, <2>2 DEF SameBlock
<1>8. ASSUME NEW c \in Blocks, c # b
      PROVE LocalInv(c)' /\ (Holds(c)' <=> Holds(c)) /\ HeldSlot(c)' = HeldSlot(c)
  BY <1>3, <1>7, <1>8, SameBlockKeeps DEF IInv
<1>9. /\ pc'[b][Leader] \in {"scan", "try", "alloc"}
      /\ \A u \in Threads : u # Leader => pc'[b][u] = pc[b][u]
  BY <1>1, <1>3, <1>t DEF TypeOK, Goto
<1>10. PhaseInv(b)' /\ ReleaseInv(b)' /\ CountInv(b)'
  BY <1>1, <1>4, <1>6, <1>9 DEF PhaseInv, ReleaseInv, CountInv
<1>11. CASE k \notin bitmap[w]
  <2>1. /\ pc'[b][Leader] = "alloc" /\ widx'[b] = w
    BY <1>1, <1>3, <1>11, <1>t DEF TypeOK, Goto
  <2>2. LeaderInv(b)'
    BY <1>1, <1>2, <1>3, <1>6, <2>1 DEF LeaderInv, InRangeMask
  <2>3. Holds(b)' /\ HeldSlot(b)' = SlotOf(w, k)
    BY <1>1, <1>3, <1>6, <2>1 DEF Holds, HeldSlot
  <2>4. PoolInv' /\ PoolStep
    BY <1>1, <1>2, <1>3, <1>5, <1>8, <1>11, <2>3, BitTaken
  <2>5. QED
    BY <1>8, <1>10, <2>2, <2>4 DEF LocalInv
<1>12. CASE k \in bitmap[w]
  <2>1. bitmap' = bitmap
    BY <1>1, <1>3, <1>12, <1>t DEF TypeOK
  <2>2. \/ pc'[b][Leader] = "scan"
        \/ /\ pc'[b][Leader] = "try" /\ widx'[b] = w
           /\ free'[b] # {} /\ free'[b] \subseteq InRangeMask(w)
    BY <1>1, <1>3, <1>12, <1>t DEF TypeOK, Goto
  <2>3. LeaderInv(b)'
    BY <1>1, <1>3, <2>2 DEF LeaderInv, InRangeMask
  <2>4. ~Holds(b)'
    BY <1>1, <1>4, <1>9, <2>2 DEF Holds
  <2>5. PoolInv' /\ PoolStep
    BY <1>5, <1>8, <2>1, <2>4, SameHoldersKeep DEF IInv
  <2>6. QED
    BY <1>8, <1>10, <2>3, <2>5 DEF LocalInv
<1>13. QED
  BY <1>11, <1>12

(* The exit counter reaches the block size only when every thread has left. *)
LEMMA LastExit ==
  ASSUME IInv, NEW b \in Blocks, NEW t \in Threads, pc[b][t] = "run",
         exitCount[b] + 1 = BlockSize
  PROVE  \A u \in Threads \ {t} : pc[b][u] \in {"release", "done"}
<1>1. /\ Leader \in Threads /\ IsFiniteSet(Threads)
      /\ Left(b) \subseteq Threads /\ t \notin Left(b)
  BY ThreadsAssumption DEF Left
<1>2. pc[b][Leader] \in {"run", "release", "done"}
  BY <1>1 DEF IInv, LocalInv, PhaseInv
<1>3. exitCount[b] = Cardinality(Left(b))
  BY <1>2 DEF IInv, LocalInv, CountInv
<1>4. IsFiniteSet(Left(b)) /\ IsFiniteSet(Left(b) \cup {t})
  BY <1>1, FS_Subset, FS_AddElement
<1>5. Cardinality(Left(b) \cup {t}) = Cardinality(Threads)
  BY <1>1, <1>3, <1>4, FS_AddElement DEF BlockSize
<1>6. Left(b) \cup {t} = Threads
  BY <1>1, <1>5, FS_Subset
<1>7. QED
  BY <1>6 DEF Left

LEMMA LeaveKeeps ==
  ASSUME IInv, NEW b \in Blocks, NEW t \in Threads, Leave(b, t)
  PROVE  (\A c \in Blocks : LocalInv(c))' /\ PoolInv' /\ PoolStep
<1> DEFINE last == exitCount[b] + 1 = BlockSize
<1>t. TypeOK
  BY DEF IInv
<1>1. /\ pc[b][t] = "run"
      /\ Leader \in Threads /\ IsFiniteSet(Threads)
      /\ exitCount' = [exitCount EXCEPT ![b] = @ + 1]
      /\ UNCHANGED << bitmap, params, blockIdx, widx, free, bit >>
      /\ \/ last /\ params.size /\ Goto(b, t, "release")
         \/ ~(last /\ params.size) /\ Goto(b, t, "done")
  BY ThreadsAssumption DEF Leave
<1>2. /\ pc'[b][t] \in {"release", "done"}
      /\ pc'[b][t] = "release" <=> last /\ params.size
      /\ \A u \in Threads : u # t => pc'[b][u] = pc[b][u]
      /\ \A c \in Blocks : c # b => pc'[c] = pc[c]
  BY <1>1, <1>t DEF TypeOK, Goto
<1>3. \A u \in Threads : pc[b][u] \in {"run", "done"}
  <2>1. \A u \in Threads : pc[b][u] \in {"run", "release", "done"}
    BY <1>1 DEF IInv, LocalInv, PhaseInv
  <2>2. \A u \in Threads : pc[b][u] # "release"
    BY <1>1 DEF IInv, LocalInv, ReleaseInv
  <2>3. QED
    BY <2>1, <2>2
<1>4. exitCount[b] = Cardinality(Left(b)) /\ exitCount'[b] = exitCount[b] + 1
  BY <1>1, <1>3, <1>t DEF IInv, LocalInv, CountInv, TypeOK
<1>5. last => \A u \in Threads \ {t} : pc[b][u] = "done"
  BY <1>1, <1>3, LastExit
<1>6. /\ IsFiniteSet(Left(b)) /\ t \notin Left(b)
      /\ Left(b)' = Left(b) \cup {t}
  <2>1. Left(b) \subseteq Threads /\ t \notin Left(b)
    BY <1>1 DEF Left
  <2>2. Left(b)' = Left(b) \cup {t}
    BY <1>1, <1>2 DEF Left
  <2>3. QED
    BY <1>1, <2>1, <2>2, FS_Subset
<1>7. Cardinality(Left(b)') = exitCount'[b]
  BY <1>4, <1>6, FS_AddElement
<1>8. ~last => \E u \in Threads \ {t} : pc[b][u] = "run"
  <2>1. SUFFICES ASSUME \A u \in Threads \ {t} : pc[b][u] = "done" PROVE last
    BY <1>3
  <2>2. Left(b) \cup {t} = Threads
    BY <1>1, <2>1 DEF Left
  <2>3. QED
    BY <1>4, <1>6, <1>7, <2>2 DEF BlockSize
<1> HIDE DEF last
<1>9. ASSUME NEW c \in Blocks, c # b
      PROVE LocalInv(c)' /\ (Holds(c)' <=> Holds(c)) /\ HeldSlot(c)' = HeldSlot(c)
  <2>1. SameBlock(c)
    BY <1>1, <1>2, <1>9, <1>t DEF SameBlock, TypeOK
  <2>2. QED
    BY <1>1, <2>1, SameBlockKeeps DEF IInv
<1>10. LocalInv(b)'
  <2>1. PhaseInv(b)' /\ LeaderInv(b)'
    BY <1>1, <1>2, <1>3 DEF PhaseInv, LeaderInv
  <2>2. CountInv(b)'
    BY <1>1, <1>2, <1>3, <1>7 DEF CountInv
  <2>3. ReleaseInv(b)'
    BY <1>1, <1>2, <1>3, <1>5 DEF ReleaseInv
  <2>4. QED
    BY <2>1, <2>2, <2>3 DEF LocalInv
<1>11. (Holds(b)' <=> Holds(b)) /\ HeldSlot(b)' = HeldSlot(b)
  <2>1. Holds(b) <=> params.size
    BY <1>1, <1>3 DEF Holds
  <2>2. Holds(b)' <=> params.size
    <3>1. params.size => \E u \in Threads : pc'[b][u] \in {"run", "release"}
      BY <1>2, <1>8
    <3>2. QED
      BY <1>1, <3>1 DEF Holds
  <2>3. pc[b][Leader] # "alloc" /\ pc'[b][Leader] # "alloc"
    BY <1>1, <1>2, <1>3
  <2>4. QED
    BY <1>1, <2>1, <2>2, <2>3 DEF HeldSlot
<1>12. PoolInv' /\ PoolStep
  BY <1>1, <1>9, <1>11, SameHoldersKeep DEF IInv
<1>13. QED
  BY <1>9, <1>10, <1>12

(* Two slots with the same word and bit are the same slot: clearing a bit  *)
(* frees one slot only.                                                    *)
LEMMA SlotDecoding ==
  ASSUME NEW r \in Slots, NEW s \in Slots,
         WordOf(r) = WordOf(s), BitOf(r) = BitOf(s)
  PROVE  r = s
<1>1. r \in Nat /\ s \in Nat
  BY NumBlocksAssumption DEF Slots
<1>2. /\ r = WordOf(r) * WordBits + BitOf(r)
      /\ s = WordOf(s) * WordBits + BitOf(s)
  BY <1>1, WordDivision
<1>3. QED
  BY <1>2, Zenon

LEMMA ReleaseKeeps ==
  ASSUME IInv, NEW b \in Blocks, NEW t \in Threads, Release(b, t)
  PROVE  (\A c \in Blocks : LocalInv(c))' /\ PoolInv' /\ PoolStep
<1> DEFINE s == blockIdx[b]
<1>t. TypeOK
  BY DEF IInv
<1>1. /\ pc[b][t] = "release" /\ params.size
      /\ \A u \in Threads \ {t} : pc[b][u] = "done"
      /\ Leader \in Threads
      /\ bitmap' = [bitmap EXCEPT ![WordOf(s)] = @ \ {BitOf(s)}]
      /\ Goto(b, t, "done")
      /\ UNCHANGED << params, exitCount, blockIdx, widx, free, bit >>
  BY ThreadsAssumption DEF Release, IInv, LocalInv, ReleaseInv
<1>2. /\ \A u \in Threads : pc'[b][u] = "done"
      /\ \A c \in Blocks : c # b => pc'[c] = pc[c]
  BY <1>1, <1>t DEF TypeOK, Goto
<1>3. Holds(b) /\ HeldSlot(b) = s /\ ~Holds(b)'
  BY <1>1, <1>2 DEF Holds, HeldSlot
<1>4. s \in Slots /\ WordOf(s) \in 0 .. NWords - 1
  BY <1>3 DEF IInv, PoolInv, HeldInv
<1>5. ASSUME NEW c \in Blocks, c # b
      PROVE LocalInv(c)' /\ (Holds(c)' <=> Holds(c)) /\ HeldSlot(c)' = HeldSlot(c)
  <2>1. SameBlock(c)
    BY <1>1, <1>2, <1>5 DEF SameBlock
  <2>2. QED
    BY <1>1, <2>1, SameBlockKeeps DEF IInv
<1>6. LocalInv(b)'
  <2>1. PhaseInv(b)' /\ LeaderInv(b)' /\ ReleaseInv(b)'
    BY <1>1, <1>2 DEF PhaseInv, LeaderInv, ReleaseInv
  <2>2. Left(b) = Threads /\ Left(b)' = Threads
    BY <1>1, <1>2 DEF Left
  <2>3. exitCount[b] = Cardinality(Left(b))
    BY <1>1 DEF IInv, LocalInv, CountInv
  <2>4. CountInv(b)'
    BY <1>1, <1>2, <2>2, <2>3 DEF CountInv
  <2>5. QED
    BY <2>1, <2>4 DEF LocalInv
<1> HIDE DEF s
<1>7. \A v \in 0 .. NWords - 1 : \A j :
        j \in bitmap'[v] <=> j \in bitmap[v] /\ ~(v = WordOf(s) /\ j = BitOf(s))
  BY <1>1, <1>4, <1>t DEF TypeOK
<1>8. ASSUME NEW c \in Blocks PROVE HeldInv(c)'
  <2>1. SUFFICES ASSUME Holds(c)', c # b PROVE HeldInv(c)'
    BY <1>3 DEF HeldInv
  <2>2. Holds(c) /\ HeldSlot(c)' = HeldSlot(c)
    BY <1>5, <2>1
  <2>3. /\ HeldSlot(c) \in Slots /\ HeldSlot(c) # s
        /\ WordOf(HeldSlot(c)) \in 0 .. NWords - 1
        /\ BitOf(HeldSlot(c)) \in bitmap[WordOf(HeldSlot(c))]
    BY <1>3, <2>1, <2>2 DEF IInv, PoolInv, HeldInv, SlotExclusive, Holders
  <2>4. ~(WordOf(HeldSlot(c)) = WordOf(s) /\ BitOf(HeldSlot(c)) = BitOf(s))
    BY <1>4, <2>3, SlotDecoding
  <2>5. QED
    BY <1>7, <2>2, <2>3, <2>4 DEF HeldInv
<1>9. SlotExclusive'
  BY <1>3, <1>5 DEF IInv, PoolInv, SlotExclusive, Holders
<1>10. UsedInv'
  <2>1. SUFFICES ASSUME NEW v \in 0 .. NWords - 1, NEW j \in bitmap'[v]
                 PROVE  \E c \in Blocks : Holds(c)' /\ HeldSlot(c)' = SlotOf(v, j)
    BY DEF UsedInv, SlotOf
  <2>2. j \in bitmap[v] /\ ~(v = WordOf(s) /\ j = BitOf(s))
    BY <1>7
  <2>3. PICK c \in Blocks : Holds(c) /\ HeldSlot(c) = SlotOf(v, j)
    BY <2>2 DEF IInv, PoolInv, UsedInv
  <2>4. v \in Nat /\ j \in Bits
    BY <2>2, <1>t, NWordsNat DEF TypeOK
  <2>5. SlotOf(v, j) # s
    BY <2>2, <2>4, SlotCoding
  <2>6. c # b
    BY <1>3, <2>3, <2>5
  <2>7. QED
    BY <1>5, <2>3, <2>6
<1>11. PoolStep
  BY <1>3, <1>4, <1>5 DEF PoolStep, Gives, OthersSame, SameSlot
<1>12. QED
  BY <1>5, <1>6, <1>8, <1>9, <1>10, <1>11 DEF PoolInv

----------------------------------------------------------------------------
(* The invariant is inductive.                                             *)

LEMMA InitIInv == Init => IInv
<1> SUFFICES ASSUME Init PROVE IInv
  OBVIOUS
<1>1. \A b \in Blocks : \A t \in Threads : pc[b][t] = "idle"
  BY DEF Init
<1>2. Leader \in Threads
  BY ThreadsAssumption
<1>3. \A b \in Blocks : LocalInv(b) /\ ~Holds(b)
  BY <1>1, <1>2 DEF LocalInv, PhaseInv, LeaderInv, CountInv, ReleaseInv, Holds
<1>4. \A w \in 0 .. NWords - 1 : bitmap[w] = {}
  BY DEF Init
<1>5. PoolInv
  BY <1>3, <1>4 DEF PoolInv, HeldInv, SlotExclusive, Holders, UsedInv
<1>6. QED
  BY <1>3, <1>5, InitTypeOK DEF IInv

LEMMA NextIInv == IInv /\ [Next]_vars => IInv' /\ PoolStep
<1> SUFFICES ASSUME IInv, [Next]_vars PROVE IInv' /\ PoolStep
  OBVIOUS
<1> DEFINE Goal == (\A c \in Blocks : LocalInv(c))' /\ PoolInv' /\ PoolStep
<1>1. CASE NextLaunch
  BY <1>1, NextLaunchKeeps, NextTypeOK DEF IInv
<1>2. CASE Stopped \/ UNCHANGED vars
  <2>1. UNCHANGED << bitmap, params, pc, exitCount, blockIdx, widx, free, bit >>
    BY <1>2 DEF Stopped, vars
  <2>2. ASSUME NEW c \in Blocks
        PROVE LocalInv(c)' /\ (Holds(c)' <=> Holds(c)) /\ HeldSlot(c)' = HeldSlot(c)
    <3>1. SameBlock(c)
      BY <2>1 DEF SameBlock
    <3>2. QED
      BY <2>1, <3>1, SameBlockKeeps DEF IInv
  <2>3. PoolInv' /\ PoolStep
    BY <2>1, <2>2, SameHoldersKeep DEF IInv
  <2>4. QED
    BY <2>2, <2>3, NextTypeOK DEF IInv
<1>3. ASSUME NEW b \in Blocks, StartBlock(b) \/ BarSync(b) \/ LeaderStep(b)
      PROVE Goal
  <2>1. CASE StartBlock(b)
    BY <2>1, StartBlockKeeps
  <2>2. CASE BarSync(b)
    BY <2>2, BarSyncKeeps
  <2>3. CASE EnterAcquire(b)
    BY <2>3, EnterAcquireKeeps
  <2>4. CASE ScanRestart(b)
    BY <2>4, ScanRestartKeeps
  <2>5. CASE ScanWord(b)
    BY <2>5, ScanWordKeeps
  <2>6. CASE TryWord(b)
    BY <2>6, TryWordKeeps
  <2>7. CASE AllocSuccess(b)
    BY <2>7, AllocSuccessKeeps
  <2>8. QED
    BY <1>3, <2>1, <2>2, <2>3, <2>4, <2>5, <2>6, <2>7 DEF LeaderStep
<1>4. ASSUME NEW b \in Blocks, NEW t \in Threads, ThreadStep(b, t)
      PROVE Goal
  <2>1. CASE Trap(b, t)
    BY <2>1, TrapKeeps
  <2>2. CASE SkipToBarrier(b, t)
    BY <2>2, SkipToBarrierKeeps
  <2>3. CASE Leave(b, t)
    BY <2>3, LeaveKeeps
  <2>4. CASE Release(b, t)
    BY <2>4, ReleaseKeeps
  <2>5. QED
    BY <1>4, <2>1, <2>2, <2>3, <2>4 DEF ThreadStep
<1>5. CASE \E b \in Blocks : \/ StartBlock(b) \/ BarSync(b) \/ LeaderStep(b)
                            \/ \E t \in Threads : ThreadStep(b, t)
  <2>1. Goal
    BY <1>3, <1>4, <1>5
  <2>2. QED
    BY <2>1, NextTypeOK DEF IInv
<1>6. QED
  BY <1>1, <1>2, <1>5 DEF Next

LEMMA IInvHolds == Spec => []IInv
BY InitIInv, NextIInv, PTL DEF Spec

----------------------------------------------------------------------------
(* What it is for.                                                         *)

(* In every state of every execution each variable of the acquire and      *)
(* release protocol has its type.                                          *)
THEOREM TypeCorrect == Spec => []TypeOK
<1>1. IInv => TypeOK
  BY DEF IInv
<1>2. QED
  BY <1>1, IInvHolds, PTL

(* Mutual exclusion: whatever the number of blocks, slots and launches and *)
(* however the scans and atomic operations interleave, two blocks of a     *)
(* grid never own the same private-memory slot.                            *)
THEOREM SlotsExclusive == Spec => []SlotExclusive
<1>1. IInv => SlotExclusive
  BY DEF IInv, PoolInv
<1>2. QED
  BY <1>1, IInvHolds, PTL

(* The bitmap in global memory is exact: its bits are the slots held, no   *)
(* slot is leaked, none is freed early, and no bit past the pool is set.   *)
THEOREM BitmapIsExact == Spec => []BitmapExact
<1>1. ASSUME IInv PROVE BitmapExact
  <2>1. ASSUME NEW s \in UsedSlots
        PROVE  \E b \in Holders : HeldSlot(b) = s
    <3>1. /\ s \in 0 .. NWords * WordBits - 1
          /\ BitOf(s) \in bitmap[WordOf(s)]
      BY DEF UsedSlots
    <3>2. NWords * WordBits \in Nat
      BY NWordsNat, WordBitsAssumption, SMT
    <3>3. s \in Nat /\ s < NWords * WordBits
      BY <3>1, <3>2, SMT
    <3>4. WordOf(s) \in Nat /\ BitOf(s) \in Bits /\ s = SlotOf(WordOf(s), BitOf(s))
      BY <3>3, WordDivision, WordBitsAssumption, SMT DEF SlotOf, WordOf
    <3>5. ~(NWords <= WordOf(s))
      <4>1. SUFFICES ASSUME NWords <= WordOf(s) PROVE FALSE
        OBVIOUS
      <4>2. NWords * WordBits <= WordOf(s) * WordBits
        BY <3>4, <4>1, NWordsNat, WordBitsAssumption, SMT
      <4>3. WordOf(s) * WordBits \in Nat
        BY <3>4, WordBitsAssumption, SMT
      <4>4. s = WordOf(s) * WordBits + BitOf(s) /\ BitOf(s) \in Nat
        BY <3>4, SMT DEF SlotOf, Bits
      <4>5. QED
        BY <3>2, <3>3, <4>2, <4>3, <4>4, SMT
    <3>6. WordOf(s) \in 0 .. NWords - 1
      BY <3>4, <3>5, NWordsNat, SMT
    <3>7. PICK b \in Blocks : Holds(b) /\ HeldSlot(b) = SlotOf(WordOf(s), BitOf(s))
      BY <1>1, <3>1, <3>6 DEF IInv, PoolInv, UsedInv
    <3>8. QED
      BY <3>4, <3>7 DEF Holders
  <2>2. ASSUME NEW b \in Holders
        PROVE  HeldSlot(b) \in UsedSlots /\ HeldSlot(b) \in Slots
    <3> DEFINE s == HeldSlot(b)
    <3>1. /\ s \in Slots
          /\ WordOf(s) \in 0 .. NWords - 1
          /\ BitOf(s) \in bitmap[WordOf(s)]
      BY <1>1 DEF IInv, PoolInv, HeldInv, Holders
    <3> HIDE DEF s
    <3>2. s \in 0 .. NWords * WordBits - 1
      <4>1. s \in Nat
        BY <3>1, NumBlocksAssumption DEF Slots
      <4>2. /\ WordOf(s) \in Int /\ BitOf(s) \in Bits
            /\ s = WordOf(s) * WordBits + BitOf(s)
        BY <4>1, WordDivision
      <4>3. WordOf(s) * WordBits + WordBits <= NWords * WordBits
        BY <3>1, <4>2, NWordsNat, WordMono, SMT
      <4>4. WordOf(s) * WordBits \in Int /\ NWords * WordBits \in Int
        BY <4>2, NWordsNat, WordBitsAssumption, SMT
      <4>5. QED
        BY <4>1, <4>2, <4>3, <4>4, WordBitsAssumption, SMT DEF Bits
    <3>3. QED
      BY <3>1, <3>2 DEF UsedSlots, s
  <2>3. QED
    BY <2>1, <2>2 DEF BitmapExact
<1>2. QED
  BY <1>1, IInvHolds, PTL

(* A slot is released by the last thread of its block: no other thread of  *)
(* the block can still be using the private memory.                        *)
THEOREM LastReleases == Spec => []LastThreadReleases
<1>1. IInv => LastThreadReleases
  BY DEF IInv, LocalInv, ReleaseInv, LastThreadReleases
<1>2. QED
  BY <1>1, IInvHolds, PTL

----------------------------------------------------------------------------
(* Launches that trap.                                                     *)

Unusable == BaseCheckTraps \/ PoolCheckTraps

(* Under parameters that a check turns down no leader comes past the check *)
(* and no other thread past the barrier; and nothing else traps.           *)
Stuck(b) ==
  /\ pc[b][Leader] \in {"idle", "start"}
  /\ \A t \in Threads : pc[b][t] \in {"idle", "start", "bar"}

TrapInv ==
  /\ trapped => Unusable
  /\ Unusable => \A b \in Blocks : Stuck(b)

LEMMA InitTrapInv == Init => TrapInv
BY ThreadsAssumption DEF Init, TrapInv, Stuck

(* Nobody is past the check, so the rest of the protocol is out of reach.  *)
LEMMA StuckDisables ==
  ASSUME NEW b \in Blocks, Stuck(b), Unusable
  PROVE  /\ ~LeaderStep(b) /\ ~BarSync(b)
         /\ \A t \in Threads : ~Leave(b, t) /\ ~Release(b, t)
<1>1. ~LeaderStep(b)
  BY DEF Stuck, Unusable, LeaderStep, EnterAcquire, ScanRestart, ScanWord, TryWord, AllocSuccess
<1>2. ~BarSync(b)
  BY ThreadsAssumption DEF Stuck, BarSync
<1>3. \A t \in Threads : ~Leave(b, t) /\ ~Release(b, t)
  BY DEF Stuck, Leave, Release
<1>. QED BY <1>1, <1>2, <1>3

LEMMA NextTrapInv ==
  ASSUME TypeOK, TrapInv, [Next]_vars
  PROVE  TrapInv'
<1>1. CASE NextLaunch
  <2>1. ~trapped' /\ \A b \in Blocks : \A t \in Threads : pc'[b][t] = "idle"
    BY <1>1 DEF NextLaunch
  <2>. QED BY <2>1, ThreadsAssumption DEF TrapInv, Stuck
<1>2. CASE Stopped \/ UNCHANGED vars
  BY <1>2 DEF Stopped, vars, TrapInv, Stuck, Unusable, BaseCheckTraps, PoolCheckTraps
<1>3. ASSUME NEW b \in Blocks, StartBlock(b) \/ BarSync(b) \/ LeaderStep(b)
                               \/ \E t \in Threads : ThreadStep(b, t)
      PROVE  TrapInv'
  <2>1. params' = params /\ \A c \in Blocks : c # b => pc'[c] = pc[c]
    BY <1>3 DEF StartBlock, BarSync, LeaderStep, EnterAcquire, ScanRestart, ScanWord, TryWord,
         AllocSuccess, ThreadStep, Trap, SkipToBarrier, Leave, Release, Goto, TypeOK
  <2>2. Unusable' <=> Unusable
    BY <2>1 DEF Unusable, BaseCheckTraps, PoolCheckTraps
  <2>3. trapped' => Unusable
    <3>1. trapped' = trapped \/ \E t \in Threads : Trap(b, t)
      BY <1>3 DEF StartBlock, BarSync, LeaderStep, EnterAcquire, ScanRestart, ScanWord, TryWord,
           AllocSuccess, ThreadStep, SkipToBarrier, Leave, Release
    <3>. QED BY <3>1 DEF TrapInv, Trap, Unusable
  <2>4. ASSUME Unusable PROVE Stuck(b)'
    <3>1. Stuck(b)
      BY <2>4 DEF TrapInv
    <3>2. CASE StartBlock(b)
      <4>1. \A t \in Threads : pc'[b][t] = "start"
        BY <3>2 DEF StartBlock, TypeOK
      <4>. QED BY <4>1, ThreadsAssumption DEF Stuck
    <3>3. ASSUME NEW t \in Threads, Trap(b, t) PROVE Stuck(b)'
      BY <3>1, <3>3 DEF Trap, Stuck
    <3>4. ASSUME NEW t \in Threads, SkipToBarrier(b, t) PROVE Stuck(b)'
      <4>1. t # Leader /\ pc'[b][t] = "bar" /\ \A u \in Threads : u # t => pc'[b][u] = pc[b][u]
        BY <3>4, GotoType DEF SkipToBarrier, TypeOK, Labels
      <4>. QED BY <4>1, <3>1, ThreadsAssumption DEF Stuck
    <3>. QED BY <1>3, <2>4, <3>1, <3>2, <3>3, <3>4, StuckDisables DEF ThreadStep
  <2>5. \A c \in Blocks : c # b /\ Stuck(c) => Stuck(c)'
    BY <2>1 DEF Stuck
  <2>. QED BY <2>2, <2>3, <2>4, <2>5 DEF TrapInv
<1>. QED BY <1>1, <1>2, <1>3 DEF Next

(* A launch with unusable parameters dies before it has taken a slot, and  *)
(* every launch before it has given all of its slots back.                 *)
THEOREM TrapsFindPoolEmpty == Spec => []TrapFindsPoolEmpty
<1>1. IInv /\ TrapInv => TrapFindsPoolEmpty
  <2>. SUFFICES ASSUME IInv, TrapInv, trapped, NEW w \in DOMAIN bitmap, bitmap[w] # {}
                PROVE  FALSE
    BY DEF TrapFindsPoolEmpty
  <2>1. w \in 0 .. NWords - 1
    BY DEF IInv, TypeOK
  <2>2. PICK b \in Blocks : Holds(b)
    BY <2>1 DEF IInv, PoolInv, UsedInv
  <2>3. Stuck(b)
    BY DEF TrapInv
  <2>. QED BY <2>2, <2>3 DEF Holds, Stuck
<1>2. IInv /\ TrapInv /\ [Next]_vars => TrapInv'
  BY NextTrapInv DEF IInv
<1>. QED BY <1>1, <1>2, IInvHolds, InitTrapInv, PTL DEF Spec

----------------------------------------------------------------------------
(* The pool implements SlotPool.                                           *)

(* The owner of a slot is the one block that holds it.                     *)
OwnerRight ==
  /\ Owner = [s \in Slots |-> Owner[s]]
  /\ \A b \in Blocks : Holds(b) /\ HeldSlot(b) \in Slots => Owner[HeldSlot(b)] = b
  /\ \A s \in Slots : (\A b \in Blocks : Holds(b) => HeldSlot(b) # s) => Owner[s] = NoBlock

LEMMA OwnerOfHeld == SlotExclusive => OwnerRight
<1>. SUFFICES ASSUME SlotExclusive PROVE OwnerRight
  OBVIOUS
<1>1. ASSUME NEW b \in Blocks, Holds(b), HeldSlot(b) \in Slots
      PROVE  Owner[HeldSlot(b)] = b
  <2>. DEFINE s == HeldSlot(b)
              Holder(c) == c \in Holders /\ HeldSlot(c) = s
  <2>1. b \in Holders
    BY <1>1 DEF Holders
  <2>2. \A c \in Holders : HeldSlot(c) = s => c = b
    BY <2>1 DEF SlotExclusive
  <2>3. (CHOOSE c \in Holders : HeldSlot(c) = s) = b
    BY <2>1, <2>2
  <2>4. Owner[s] = CHOOSE c \in Holders : HeldSlot(c) = s
    BY <1>1, <2>1 DEF Owner
  <2>. QED BY <2>3, <2>4
<1>2. ASSUME NEW s \in Slots, \A b \in Blocks : Holds(b) => HeldSlot(b) # s
      PROVE  Owner[s] = NoBlock
  BY <1>2 DEF Owner, Holders
<1>3. Owner = [s \in Slots |-> Owner[s]]
  BY DEF Owner
<1>. QED BY <1>1, <1>2, <1>3 DEF OwnerRight

LEMMA InitOwner == Init => Pool!Init
<1>. SUFFICES ASSUME Init PROVE Pool!Init
  OBVIOUS
<1>1. \A b \in Blocks : ~Holds(b)
  BY ThreadsAssumption DEF Init, Holds
<1>2. OwnerRight
  BY InitIInv, OwnerOfHeld DEF IInv, PoolInv
<1>. QED BY <1>1, <1>2 DEF OwnerRight, Pool!Init

(* What a step does to the slots it does to their owners.                  *)
LEMMA StepOwner ==
  ASSUME IInv, OwnerRight, OwnerRight', PoolStep, IInv'
  PROVE  [Pool!Next]_Owner
<1>1. \A b \in Blocks : Holds(b) => HeldSlot(b) \in Slots
  BY DEF IInv, PoolInv, HeldInv
<1>2. ASSUME NEW s \in Slots,
             \A c \in Blocks : (Holds(c)' /\ HeldSlot(c)' = s) <=> (Holds(c) /\ HeldSlot(c) = s)
      PROVE  Owner'[s] = Owner[s]
  <2>1. CASE \E c \in Blocks : Holds(c) /\ HeldSlot(c) = s
    BY <1>2, <2>1 DEF OwnerRight
  <2>2. CASE ~\E c \in Blocks : Holds(c) /\ HeldSlot(c) = s
    BY <1>2, <2>2 DEF OwnerRight
  <2>. QED BY <2>1, <2>2
<1>3. ASSUME \A c \in Blocks : SameSlot(c) PROVE Owner' = Owner
  <2>1. \A s \in Slots : Owner'[s] = Owner[s]
    BY <1>2, <1>3 DEF SameSlot
  <2>. QED BY <2>1 DEF OwnerRight
<1>4. ASSUME NEW b \in Blocks, Takes(b) PROVE Pool!Next
  <2>. DEFINE r == HeldSlot(b)'
  <2>1. r \in Slots /\ Owner[r] = NoBlock
    BY <1>4 DEF Takes, OwnerRight
  <2>2. ASSUME NEW s \in Slots PROVE Owner[s] # b
    <3>1. CASE \E c \in Blocks : Holds(c) /\ HeldSlot(c) = s
      BY <1>4, <3>1 DEF Takes, OwnerRight
    <3>2. CASE ~\E c \in Blocks : Holds(c) /\ HeldSlot(c) = s
      BY <3>2, NoBlockAssumption DEF OwnerRight
    <3>. QED BY <3>1, <3>2
  <2>3. Owner'[r] = b
    BY <1>4, <2>1 DEF Takes, OwnerRight
  <2>4. \A s \in Slots : s # r => Owner'[s] = Owner[s]
    BY <1>2, <1>4 DEF Takes, OthersSame, SameSlot
  <2>5. Owner' = [Owner EXCEPT ![r] = b]
    BY <2>1, <2>3, <2>4 DEF OwnerRight
  <2>. QED BY <2>1, <2>2, <2>5 DEF Pool!Next, Pool!Acquire
<1>5. ASSUME NEW b \in Blocks, Gives(b) PROVE Pool!Next
  <2>. DEFINE r == HeldSlot(b)
  <2>1. r \in Slots /\ Owner[r] = b
    BY <1>5 DEF Gives, OwnerRight
  <2>2. \A c \in Blocks : Holds(c)' => HeldSlot(c)' # r
    BY <1>5 DEF Gives, OthersSame, SameSlot, IInv, PoolInv, SlotExclusive, Holders
  <2>3. Owner'[r] = NoBlock
    BY <2>1, <2>2 DEF OwnerRight
  <2>4. \A s \in Slots : s # r => Owner'[s] = Owner[s]
    BY <1>2, <1>5 DEF Gives, OthersSame, SameSlot
  <2>5. Owner' = [Owner EXCEPT ![r] = NoBlock]
    BY <2>1, <2>3, <2>4 DEF OwnerRight
  <2>. QED BY <2>1, <2>5 DEF Pool!Next, Pool!Release
<1>. QED BY <1>3, <1>4, <1>5 DEF PoolStep

(* The bitmap, the stale snapshots and the atomic operations come to what  *)
(* SlotPool says: a block takes one slot that is free, and gives it back.  *)
THEOREM SafelyImplements == Spec => Pool!Spec
<1>1. SlotExclusive' => OwnerRight'
  BY OwnerOfHeld, PTL
<1>2. IInv /\ [Next]_vars => IInv' /\ [Pool!Next]_Owner
  <2>. SUFFICES ASSUME IInv, [Next]_vars PROVE IInv' /\ [Pool!Next]_Owner
    OBVIOUS
  <2>1. IInv' /\ PoolStep
    BY NextIInv
  <2>2. OwnerRight /\ OwnerRight'
    BY <1>1, <2>1, OwnerOfHeld DEF IInv, PoolInv
  <2>. QED BY <2>1, <2>2, StepOwner
<1>. QED BY <1>2, InitIInv, InitOwner, PTL DEF Spec, Pool!Spec
=============================================================================
