------------------------------ MODULE PdsPool ------------------------------
(***************************************************************************)
(* The private-memory (PDS) slot pool that every translated kernel carries *)
(* in its prologue and epilogue: src/sbt/ptx_emit.cpp,                     *)
(* emit_entry_pds_pool_acquire and emit_entry_pds_pool_release, with the   *)
(* parts of emit_prologue and emit_one_inst that call them.                *)
(*                                                                         *)
(* Thread blocks of a grid share a bitmap in global memory, one bit per    *)
(* slot.  In each block the thread with linear id 0 (the leader) scans the *)
(* bitmap for a free bit and takes it with an atomic OR; the other threads *)
(* wait at a barrier.  Each thread that leaves the kernel increments a     *)
(* counter in the block's shared memory, and the one that completes the    *)
(* count clears the bit with an atomic AND.                                *)
(*                                                                         *)
(* A step of a thread is what happens between two accesses to memory that  *)
(* another thread can observe.                                             *)
(***************************************************************************)
EXTENDS Integers, FiniteSets

CONSTANTS
  Blocks,        (* thread blocks of a grid                                *)
  Threads,       (* threads of a block                                     *)
  Leader,        (* the thread whose linear id is 0                        *)
  NumBlocks,     (* pds_pool_num_blocks: slots in the pool                 *)
  WordBits,      (* bits of a bitmap word: 32 in the code, fewer in a run  *)
  LaunchParams,  (* the parameter values a launch may pass                 *)
  MaxResident,   (* thread blocks the device runs at one time              *)
  MaxLaunches,   (* bound: grids launched one after the other              *)
  NoBlock        (* the owner of a slot that is free                       *)

(* size: pds_size_per_thread # 0; base: pds_base_vaddr is a Global address *)
(* bitmap: pds_bitmap_base_vaddr is a Global address.                      *)
Params == [size: BOOLEAN, base: BOOLEAN, bitmap: BOOLEAN]

ASSUME BlocksAssumption    == IsFiniteSet(Blocks)
ASSUME ThreadsAssumption   == IsFiniteSet(Threads) /\ Leader \in Threads
ASSUME NoBlockAssumption   == NoBlock \notin Blocks
ASSUME NumBlocksAssumption == NumBlocks \in Nat
ASSUME WordBitsAssumption  == WordBits \in Nat \ {0}
ASSUME ParamsAssumption    == LaunchParams \subseteq Params
ASSUME BoundsAssumption    == MaxResident \in Nat /\ MaxLaunches \in Nat

VARIABLES
  bitmap,     (* bitmap[w]: the bits set in word w, in global memory       *)
  params,     (* the parameters of the running launch                      *)
  launches,   (* grids launched so far                                     *)
  pc,         (* pc[b][t]                                                  *)
  exitCount,  (* exitCount[b]: __sbt_pds_exit_count of block b             *)
  blockIdx,   (* blockIdx[b]: __sbt_pds_block_idx of block b               *)
  widx,       (* widx[b]: the leader's word index, register r21            *)
  free,       (* free[b]: the leader's snapshot of free bits, r22          *)
  bit,        (* bit[b]: the bit the leader took, r20                      *)
  trapped     (* some thread executed `trap`: the grid is dead             *)

vars == << bitmap, params, launches, pc, exitCount, blockIdx,
           widx, free, bit, trapped >>

Labels == { "idle", "start", "scan", "try", "alloc", "bar",
            "run", "release", "done" }

----------------------------------------------------------------------------
(* The shape of the bitmap.                                                *)

NWords     == (NumBlocks + WordBits - 1) \div WordBits
Bits       == 0 .. WordBits - 1
Slots      == 0 .. NumBlocks - 1
SlotOf(w, k) == w * WordBits + k
WordOf(s)  == s \div WordBits
BitOf(s)   == s % WordBits

(* Mutant: a mask of `remaining` ones that forgets to stop at the word.    *)
MaskUnclamped(w) == 0 .. NumBlocks - w * WordBits - 1

(* The mask the scan builds for word w: all ones, or `remaining` ones in   *)
(* the last, partial word.                                                 *)
InRangeMask(w) ==
  LET remaining == NumBlocks - w * WordBits
  IN  { k \in Bits : remaining >= WordBits \/ k < remaining }

(* bfind: the position of the highest bit set.                             *)
BFind(S) == CHOOSE k \in S : \A j \in S : j <= k

(* ntid.x * ntid.y * ntid.z                                                *)
BlockSize == Cardinality(Threads)

----------------------------------------------------------------------------
Idle(b)     == \A t \in Threads : pc[b][t] = "idle"
Finished(b) == \A t \in Threads : pc[b][t] = "done"
Resident(b) == ~Idle(b) /\ ~Finished(b)

Goto(b, t, l) == pc' = [pc EXCEPT ![b][t] = l]

Init ==
  /\ bitmap    = [w \in 0 .. NWords - 1 |-> {}]
  /\ params    \in LaunchParams
  /\ launches  = 1
  /\ pc        = [b \in Blocks |-> [t \in Threads |-> "idle"]]
  /\ exitCount = [b \in Blocks |-> 0]
  /\ blockIdx  = [b \in Blocks |-> 0]
  /\ widx      = [b \in Blocks |-> 0]
  /\ free      = [b \in Blocks |-> {}]
  /\ bit       = [b \in Blocks |-> 0]
  /\ trapped   = FALSE

(* The device starts a block.  Its static shared memory is not cleared:    *)
(* the counter holds whatever an earlier block left there.                 *)
StartBlock(b) ==
  /\ ~trapped
  /\ Idle(b)
  /\ Cardinality({c \in Blocks : Resident(c)}) < MaxResident
  /\ pc' = [pc EXCEPT ![b] = [t \in Threads |-> "start"]]
  /\ \E garbage \in 0 .. BlockSize : exitCount' = [exitCount EXCEPT ![b] = garbage]
  /\ UNCHANGED << bitmap, params, launches, blockIdx, widx, free, bit, trapped >>

(* The host launches the next grid on the same pool once the last is over. *)
NextLaunch ==
  /\ ~trapped
  /\ \A b \in Blocks : Finished(b)
  /\ launches < MaxLaunches
  /\ launches' = launches + 1
  /\ params'   \in LaunchParams
  /\ pc'       = [b \in Blocks |-> [t \in Threads |-> "idle"]]
  /\ UNCHANGED << bitmap, exitCount, blockIdx, widx, free, bit, trapped >>

----------------------------------------------------------------------------
(* Prologue.                                                               *)

(* Every thread checks pds_base_vaddr before anything else.                *)
BaseCheckTraps == params.size /\ ~params.base

(* Mutant: a leader that gives up when the pool is full.                   *)
FullPoolTraps == params.size /\ \A s \in Slots : BitOf(s) \in bitmap[WordOf(s)]

(* Only the leader of a launch that uses PDS checks the pool's parameters. *)
PoolCheckTraps == params.size /\ (NumBlocks = 0 \/ ~params.bitmap)

Trap(b, t) ==
  /\ ~trapped
  /\ pc[b][t] = "start"
  /\ BaseCheckTraps \/ (t = Leader /\ PoolCheckTraps)
  /\ trapped' = TRUE
  /\ UNCHANGED << bitmap, params, launches, pc, exitCount, blockIdx,
                  widx, free, bit >>

(* The other threads skip to the barrier.                                  *)
SkipToBarrier(b, t) ==
  /\ ~trapped
  /\ pc[b][t] = "start"
  /\ t # Leader
  /\ ~BaseCheckTraps
  /\ Goto(b, t, "bar")
  /\ UNCHANGED << bitmap, params, launches, exitCount, blockIdx,
                  widx, free, bit, trapped >>

(* Mutant: the counter of the block that ran here before is kept.          *)
KeepExitCount(b) == UNCHANGED exitCount

ResetExitCount(b) == exitCount' = [exitCount EXCEPT ![b] = 0]

(* The leader resets the exit counter, and bypasses the pool when the      *)
(* kernel has no private memory.                                           *)
EnterAcquire(b) ==
  /\ ~trapped
  /\ pc[b][Leader] = "start"
  /\ ~BaseCheckTraps /\ ~PoolCheckTraps
  /\ ResetExitCount(b)
  /\ IF params.size
       THEN /\ widx' = [widx EXCEPT ![b] = 0]
            /\ Goto(b, Leader, "scan")
            /\ UNCHANGED blockIdx
       ELSE /\ blockIdx' = [blockIdx EXCEPT ![b] = 0]
            /\ Goto(b, Leader, "bar")
            /\ UNCHANGED widx
  /\ UNCHANGED << bitmap, params, launches, free, bit, trapped >>

(* Mutant: the restart forgets to reset the word index.                    *)
RestartInPlace(b) == pc[b][Leader] = "scan" /\ widx[b] >= NWords /\ UNCHANGED vars

(* pds_scan_restart: after the last word the scan starts over, for ever.   *)
ScanRestart(b) ==
  /\ ~trapped
  /\ pc[b][Leader] = "scan"
  /\ widx[b] >= NWords
  /\ widx' = [widx EXCEPT ![b] = 0]
  /\ UNCHANGED << bitmap, params, launches, pc, exitCount, blockIdx,
                  free, bit, trapped >>

(* pds_scan_word: a plain load of one word; the free bits seen are a       *)
(* snapshot that is stale as soon as it is taken.                          *)
ScanWord(b) ==
  /\ ~trapped
  /\ pc[b][Leader] = "scan"
  /\ widx[b] < NWords
  /\ LET seen == InRangeMask(widx[b]) \ bitmap[widx[b]]
     IN  IF seen = {}
           THEN /\ widx' = [widx EXCEPT ![b] = @ + 1]
                /\ UNCHANGED << pc, free >>
           ELSE /\ free' = [free EXCEPT ![b] = seen]
                /\ Goto(b, Leader, "try")
                /\ UNCHANGED widx
  /\ UNCHANGED << bitmap, params, launches, exitCount, blockIdx, bit, trapped >>

(* Mutant: the old word that atom.or returns is not looked at.             *)
AlwaysWon(b) == TRUE

(* The atomic OR found the bit clear: the slot is the leader's.            *)
Won(b) == BFind(free[b]) \notin bitmap[widx[b]]

(* pds_try_word: atom.or of the highest free bit of the snapshot.  The bit *)
(* is the leader's if the old word did not have it; otherwise the leader   *)
(* strikes it from the snapshot and goes on with the next bit, or the next *)
(* word.                                                                   *)
TryWord(b) ==
  /\ ~trapped
  /\ pc[b][Leader] = "try"
  /\ LET k == BFind(free[b])
     IN  /\ bitmap' = [bitmap EXCEPT ![widx[b]] = @ \cup {k}]
         /\ bit'    = [bit EXCEPT ![b] = k]
         /\ IF Won(b)
              THEN /\ Goto(b, Leader, "alloc")
                   /\ UNCHANGED << free, widx >>
              ELSE /\ free' = [free EXCEPT ![b] = @ \ {k}]
                   /\ IF free[b] \ {k} # {}
                        THEN UNCHANGED << pc, widx >>
                        ELSE /\ widx' = [widx EXCEPT ![b] = @ + 1]
                             /\ Goto(b, Leader, "scan")
  /\ UNCHANGED << params, launches, exitCount, blockIdx, trapped >>

(* pds_alloc_success: the slot index goes to shared memory.  The base      *)
(* address computed from it is the subject of PdsAddr.                     *)
AllocSuccess(b) ==
  /\ ~trapped
  /\ pc[b][Leader] = "alloc"
  /\ blockIdx' = [blockIdx EXCEPT ![b] = SlotOf(widx[b], bit[b])]
  /\ Goto(b, Leader, "bar")
  /\ UNCHANGED << bitmap, params, launches, exitCount, widx, free, bit, trapped >>

(* bar.sync 0 lets all the block's threads through once all have arrived.  *)
BarSync(b) ==
  /\ ~trapped
  /\ \A t \in Threads : pc[b][t] = "bar"
  /\ pc' = [pc EXCEPT ![b] = [t \in Threads |-> "run"]]
  /\ UNCHANGED << bitmap, params, launches, exitCount, blockIdx,
                  widx, free, bit, trapped >>

----------------------------------------------------------------------------
(* Epilogue, at every `ret` or `endprg` of the entry function.             *)

(* One atom.shared.add per leaving thread; the last one goes on to release *)
(* the slot unless the kernel has no private memory.                       *)
Leave(b, t) ==
  /\ ~trapped
  /\ pc[b][t] = "run"
  /\ exitCount' = [exitCount EXCEPT ![b] = @ + 1]
  /\ IF exitCount[b] + 1 = BlockSize /\ params.size
       THEN Goto(b, t, "release")
       ELSE Goto(b, t, "done")
  /\ UNCHANGED << bitmap, params, launches, blockIdx, widx, free, bit, trapped >>

(* Mutant: the release clears the whole word.                              *)
ReleaseWord(b, t) ==
  /\ ~trapped
  /\ pc[b][t] = "release"
  /\ bitmap' = [bitmap EXCEPT ![WordOf(blockIdx[b])] = {}]
  /\ Goto(b, t, "done")
  /\ UNCHANGED << params, launches, exitCount, blockIdx, widx, free, bit, trapped >>

(* atom.and of the complement of the slot's bit.                           *)
Release(b, t) ==
  /\ ~trapped
  /\ pc[b][t] = "release"
  /\ bitmap' = [bitmap EXCEPT ![WordOf(blockIdx[b])] = @ \ {BitOf(blockIdx[b])}]
  /\ Goto(b, t, "done")
  /\ UNCHANGED << params, launches, exitCount, blockIdx, widx, free, bit, trapped >>

----------------------------------------------------------------------------
ThreadStep(b, t) ==
  \/ Trap(b, t)
  \/ SkipToBarrier(b, t)
  \/ Leave(b, t)
  \/ Release(b, t)

LeaderStep(b) ==
  \/ EnterAcquire(b)
  \/ ScanRestart(b)
  \/ ScanWord(b)
  \/ TryWord(b)
  \/ AllocSuccess(b)

(* The grids are over, or the device is dead.                              *)
Stopped ==
  /\ \/ trapped
     \/ launches = MaxLaunches /\ \A b \in Blocks : Finished(b)
  /\ UNCHANGED vars

Next ==
  \/ NextLaunch
  \/ Stopped
  \/ \E b \in Blocks :
       \/ StartBlock(b)
       \/ BarSync(b)
       \/ LeaderStep(b)
       \/ \E t \in Threads : ThreadStep(b, t)

Spec == Init /\ [][Next]_vars

(* The device starts a waiting block when there is room, a resident thread *)
(* is eventually scheduled, and the kernel body terminates.                *)
Fairness ==
  \A b \in Blocks :
    /\ WF_vars(StartBlock(b))
    /\ WF_vars(BarSync(b))
    /\ WF_vars(LeaderStep(b))
    /\ \A t \in Threads : WF_vars(ThreadStep(b, t))

FairSpec == Spec /\ Fairness

----------------------------------------------------------------------------
(* A block holds a slot from the atomic OR that took it until the atomic   *)
(* AND that gives it back.                                                 *)
Holds(b) ==
  /\ params.size
  /\ \/ pc[b][Leader] \in {"alloc", "bar"}
     \/ \E t \in Threads : pc[b][t] \in {"run", "release"}

HeldSlot(b) ==
  IF pc[b][Leader] = "alloc" THEN SlotOf(widx[b], bit[b]) ELSE blockIdx[b]

Holders == {b \in Blocks : Holds(b)}

(* Every variable has its type.                                            *)
TypeOK ==
  /\ bitmap    \in [0 .. NWords - 1 -> SUBSET Bits]
  /\ params    \in Params
  /\ launches  \in Nat
  /\ pc        \in [Blocks -> [Threads -> Labels]]
  /\ exitCount \in [Blocks -> Nat]
  /\ blockIdx  \in [Blocks -> Nat]
  /\ widx      \in [Blocks -> Nat]
  /\ free      \in [Blocks -> SUBSET Bits]
  /\ bit       \in [Blocks -> Bits]
  /\ trapped   \in BOOLEAN

(* No two blocks own the same private-memory slot at the same time, though *)
(* each chose its bit from a snapshot the others were changing.            *)
SlotExclusive ==
  \A b, c \in Holders : HeldSlot(b) = HeldSlot(c) => b = c

UsedSlots ==
  { s \in 0 .. NWords * WordBits - 1 : BitOf(s) \in bitmap[WordOf(s)] }

(* The bitmap says exactly which slots are in use: a slot is neither       *)
(* leaked by a block that left nor freed under a block still running, and  *)
(* no bit beyond pds_pool_num_blocks is ever set.                          *)
BitmapExact ==
  /\ UsedSlots = { HeldSlot(b) : b \in Holders }
  /\ UsedSlots \subseteq Slots

(* The slot is given back by the last thread of the block: no thread of it *)
(* is still in the kernel body, where it would use the slot.               *)
LastThreadReleases ==
  \A b \in Blocks : \A t \in Threads :
    pc[b][t] = "release" => \A u \in Threads \ {t} : pc[b][u] = "done"

(* A launch with unusable parameters dies before it has touched the pool,  *)
(* and finds the pool as an earlier launch must leave it: empty.           *)
TrapFindsPoolEmpty == trapped => \A w \in DOMAIN bitmap : bitmap[w] = {}

(* Every launch ends: no block waits for ever for a slot, even when the    *)
(* device runs more blocks than the pool has slots.                        *)
LaunchEnds ==
  \A n \in 1 .. MaxLaunches :
    launches = n ~> (trapped \/ \A b \in Blocks : Finished(b))

(* The pool implements SlotPool: a slot's owner is the block holding it.   *)
Owner ==
  [s \in Slots |->
     IF \E b \in Holders : HeldSlot(b) = s
       THEN CHOOSE b \in Holders : HeldSlot(b) = s
       ELSE NoBlock]

Pool == INSTANCE SlotPool WITH owner <- Owner

ImplementsSlotPool == Pool!FairSpec
============================================================================
