# Verification of the Ventus-to-PTX binary translator

The program translates kernels of the Ventus GPGPU (RISC-V with vector and
divergence instructions) to PTX, so that they run on an NVIDIA device. This
directory holds TLA+ models of the parts of it where a test says little: code
whose result depends on the order in which threads, lanes, processes or sweeps
take their steps, and graph algorithms whose inputs nobody can list. TLC checks
the models on small instances; TLAPS proves theorems for every size.

Paths below are relative to the repository. `PROJECT.json` maps every
definition to the lines it models.

## 1. Inventory

A run of `tools/sbt_ptx.cpp` translates one kernel:
ELF sections and symbols, words, bundles, CFG, verdict of the verifier, closure
of the functions called, PTX text, file and meta file. Everything up to the
files is sequential and in memory. The emitted PTX is a second program, run by
every thread of a grid on the device.

| component | state | operations | what makes it hard | what makes it correct |
|---|---|---|---|---|
| PDS slot pool (`emit_entry_pds_pool_*` in `sbt/ptx_emit.cpp`) | bitmap in global memory shared by all blocks and launches; exit counter and slot index in a block's shared memory; leader's registers | acquire in the prologue, release in the epilogue, trap | stale snapshots, lost races, threads leaving in any order, more blocks than slots | slots exclusive, bitmap exact, last thread releases, every launch ends |
| Postdominator sets (`sbt/cfg_verify.cpp`) | a candidate set per block, a flag | sweeps in place | cycles, unreachable blocks, stopping early | exact at the end, never too small before |
| Verifier (`sbt/cfg_verify.cpp`) | register uniformity per block, regions, verdict | one pass per question | its verdict is about lanes it never sees | accepted functions keep lanes together where they must be |
| CFG builder (`sbt/cfg.cpp`) | leaders, blocks, edges | one pass | addresses of bundles and of words | lanes move along the edges only |
| Decoder (`sbt/riscv_decode.cpp`) | pending `regext` prefix | one pass over words, operands of each | a prefix must change one word; split immediates; operands found from the name's suffix | bundles say what the words say |
| Emitter, control flow (`sbt/ptx_emit.cpp`) | registers and pc of each lane | one PTX sequence per instruction | `setrpc`/`join` become nothing, `vbranch` a plain branch | arms are left through their join, barriers met together |
| Emitter, scalar state | copy of each scalar register per lane, leader | leader stores, `shfl` broadcasts, traps | copies part on diverged paths | copies equal where lanes are together |
| Emitter, address map (`emit_prepare_addr_mapping` and its callers) | none of its own; a fixed pool of temporary registers | loads and stores of three widths, private `vlw`/`vsw` | wrap-around at the windows; temporaries that alias the operands | an address goes to one window or to the trap |
| Emitter, direct-call ABI (`emit_direct_call`, `emit_func_prologue`, `emit_prologue`) | parameter blobs; the machine context in fixed registers | entry, call, return, inlined builtins | a field left out of a blob, a register overwritten | a call leaves what the function's instructions leave; the context stays |
| Emitter, arithmetic (`emit_one_inst`) | temporaries | a PTX sequence per instruction | rounding, NaN, shifts, division by 0, `rd` equal to a source | equal to the instruction's result |
| Call closure (`tools/sbt_ptx.cpp`) | worklist, nodes, colours, search stack | collect, search, emit | diamonds, builtins, calls to the kernel | exact closure, exact recursion test, every call has a name |
| PTX cache (`tools/sbt_ptx.cpp`) | PTX file, meta file, ELF file | look, read, write, note | ELF rebuilt meanwhile, killed runs, short writes, meta files not renamed, concurrent runs, runs without cache | a hit is what a translation would give |
| ELF reader, `sbt_decode`, encoding generator | none kept | parsing | file formats | golden tests |
| `cuda_trace`, `ventus_pocl_fastpath` | statistics; fake pipes | interposed calls | threads, reused `FILE*` | counters add up; each buffer freed once |

`PROJECT.json` lists the hazards line by line, with the properties that would
catch them, or why none does.

## 2. Modules

```
SlotPool  <--implements--  PdsPool  <-- MC_PdsPool
                              ^-------- PdsPool_proofs
FlowGraph <-- Postdom <-- Postdom_proofs
    ^-------- CfgVerify --> Cfg --> Isa <-- RegextDecode
                   ^                              ^
                   +---- Lanes -------------------+   <-- MC_Lanes
                           ^---- Lanes_proofs
Isa <-- SimtWarp <-- WarpReplica <-- WarpEnds <-- MC_WarpReplica
                           ^-------- WarpReplica_proofs
DecodeOne, PtxAlu <-- EmitOne <-- EmitVector <-- EmitCall <--+
                ^---- VentusIsa <---------------------------+-- Lowering
                                     Lowering <-- LoweringSpec <-- MC_Lowering
                                                       ^---------- Lowering_proofs <-- Entry_proofs
CallClosure <-- CallClosure_proofs
PtxCache <-- MC_PtxCache
    ^------- PtxCache_proofs
```

**PdsPool** is the pool as the threads of a grid run it. A step of a thread is
what lies between two accesses that another thread can see: the load of a
bitmap word (`ScanWord`), the atomic OR (`TryWord`), the store of the slot
index (`AllocSuccess`), `bar.sync` (`BarSync`), the increment of the exit
counter (`Leave`), the atomic AND (`Release`). The counter starts with garbage,
as shared memory does. `NextLaunch` starts another grid on the same bitmap with
any parameters; a launch with unusable ones reaches `Trap`. A bitmap word is
the set of its bits. **SlotPool** is what the pool promises: a lock with
`NumBlocks` places, whose next owner is any waiting block. The mapping takes a
slot's owner to be the block between its atomic OR and its atomic AND.

**Postdom** is `compute_postdominators` with one step for each block of a
sweep, on an arbitrary graph. **FlowGraph** states what the graph algorithms
compute: `d` postdominates `n` if some set with `n` in it keeps control until it
enters `d`. Dominance and the reachability walks are used by what they compute.

**Isa**, **RegextDecode**, **Cfg**, **CfgVerify** are `decode_text`,
`build_function_cfg` and `verify_function` as operators on words, with an
address counting words. **Lanes** composes them: a function is decoded, its CFG
built, the verifier asked (`Translate`), and if it is accepted the lanes of a
warp run the emitted code, one bundle at a time and each at its own pace. A word
has an operation, a target and registers; an `auipc` carries the join pc that it
and its `setrpc` make. A register holds one of two values. A load gives any
value. `owed` is a history variable: the joins a lane has still to meet.

**WarpReplica** is what the emitted code makes of scalar state, with PTX operations
as steps: each lane has its copy `x[l]` of the scalar registers, a scalar store is
`activemask`/`bfind`, a branch of the others over it, the store, the barrier; `vmv.x.s`
is the trap, a move in lane 0 and the shuffle. **SimtWarp** is the machine the
functions were written for, from `doc/ventus-isa/vbranch_simtstack.md`: one file of
scalar registers, a mask and the SIMT stack. **WarpEnds** runs it to its ends by the operator
`Ends` and compares the final state of the lanes with those; it stands apart because
`Ends` is recursive and no module with one can be proved about. When lanes that
parted run together again is the device's matter. `Cases` says for each function
whether it does as the PTX assembler lays it out (at the label of a skipped store, at
the join of a `vbranch`: `Meet`), or as it likes (`MeetByChance`). A frame of `wait`
says where lanes parted, where they wait for each other, and who they are.

A word of a function carries two facts that the compiler goes by and the emitter
does not see: `live`, the scalar registers that are read from here on before they
are written, and, for a `vbranch`, `arms`, the words on the ways to its join.
`WellFormed` says that `live` is what the words make it. `KeepsContract` is the assumption
of `openspec/specs/replicated-scalar-state/spec.md:103`, that scalar state live after a
join is uniform on the active lanes, in the form in which a compiler can keep it: an arm
does not write such a register. Control may go back as well as forth.

**Lowering** asks whether the emitted PTX does what the instruction says, for
every instruction the translator knows but `vfexp.v` and for calls and the entry.
Its parts are:

* **DecodeOne**: `decode_one` with `classify_by_name` and `decode_scalar`, from
  the fields of a word to operands, immediate and rounding mode, with the prefix applied.
* **EmitOne**, **EmitVector**, **EmitCall**: the lines of PTX that `emit_one_inst`
  and its helpers write for a decoded instruction, each with its operation,
  destination, sources and guard, and with the emitter's own temporary registers, so that an overlap of
  these registers is seen. `EmitOne` has the scalar instructions, CSRs and the
  address map; `EmitVector` floating point and vectors; `EmitCall` builtins, blobs
  and the two prologues, and `Emit`, which chooses.
* **PtxAlu**: what a line computes, on `W` bits. A float has `E` bits of exponent and
  `W - 1 - E` of fraction; rounding is exact. What PTX leaves undefined is `Undef`.
  `W` is 8 to 32, in whole nibbles, since `and` is made of the products of bits.
* **Lowering**: a warp that runs the lines, the lanes at the first place
  of all together: predicated lines, branches, `activemask`, shuffles, loads and
  stores in two windows, traps, a called `.func` with registers of its own.
* **VentusIsa**, **LoweringSpec**: the other side, written from
  `VentusInst_basic.txt` and the RISC-V manual and not from the translator: how the
  assembler encodes an instruction, and what it computes.
  `LoweringSpec` compares the end of the run with that.

A program runs behind the code of one function that is called, and its labels are numbered
on from the labels of that function, as `new_label` numbers them through the whole module.
`CallsAssumption` says what of calls is covered: the called function is one block that ends in
its `ret` and calls only inlined builtins, and programs do not return. `ProgsAssumption` says of a program of
kind `entry` that its lanes are those of a whole warp (the launch takes away the ones without a
thread) and that `gp` is a number of `W` bits: the value of `__global_pointer$` that `sbt_ptx.cpp`,
line 459, hands over, or 0, at which the prologue leaves `x3` alone.
In this model the acquire of the pool is one line, `pds.acquire`: its loop is the matter of
`PdsPool`, and what counts here are its two traps at thread 0 (`NoPool`) and the registers it
overwrites, which are `Undef` after it. `LaunchesAssumption` says which
launches: a block, rounded up to whole warps, is counted in `W` bits (a block of CUDA has at most
1024 threads), and the addresses the launch passes are numbers; the 64 bytes of metadata
(`KNL_MAX_METADATA_SIZE`) lie in the global window, where the driver maps them
(`doc/IMPLEMENTATION_CODEMAP.md`, line 15), and what backs that window, up to its
top (`ptx_emit.cpp`, line 2507), ends within 64 bits. It also names `2^LogWarp` a
positive number, which the provers cannot compute for an unknown exponent.

An instruction is encoded by the one side and decoded by the other, so a wrong
field or immediate is seen as well as a wrong line. Constants of 32 bits in the
code (`0x80000000`, bytes, masks) are scaled to `W`.

**CallClosure** is the worklist, the depth-first search and the hand-over to
`emit_module`, on an arbitrary call graph in which an address is translatable
code, code that is turned down, a builtin, or unknown. The order functions come
off the worklist and callees are tried in is left open.

**PtxCache** is the cache protocol of translator processes that share an output
path. The PTX is two halves, each with the versions of the three ELF reads
(section, symbols, `__global_pointer$`) and the options it was made from, so that a
torn or mixed file can be told. The executable's time in the key stands beside the ELF's
and is not told apart from it. `GiveUp` is a run that ends in an error. The faults that a run
does not notice are actions of their own, each with a bound: `Kill`, `WriteShort`, `NoteShort` (the
meta file is cut, and matches no key) and `NoteFails` (the meta file cannot be opened aside or renamed;
the old one stays, and the run ends as if all were well).

## 3. Runs

| run | bounds | shows |
|---|---|---|
| `pds_words` | 3 blocks × 2 threads, 3 slots in words of 2 bits, all resident | slots exclusive, bitmap exact, release by the last thread. The second word is partial; a leader can lose every bit of a word and go on to the next |
| `pds_launches` | 3 blocks × 2 threads for 1 slot, 2 resident, 2 launches with every combination of parameters | a trap finds the pool empty; every launch ends; the pool implements `SlotPool`, fairness included |
| `postdom` | every graph of 4 blocks, at most 2 successors each | exactness, monotonicity, termination. Four blocks have nested loops, irreducible loops and unreachable code |
| `lanes_structured` | 2 lanes, 1 bit per register, families of one and of two nested vbranches, loops, prefixes, splats, calls, loops headed by their own join, arms that splat | decoding, edges, joins and barriers of every function that is accepted |
| `lanes_barrier` | splat, call, vbranch, barrier | violated: see Findings |
| `ptx_cache` | 3 runs one after the other, 2 option values, 3 ELF versions, a kill, a short write and a meta file that does not come into place | without a fault a hit is fresh and the meta file tells the truth at rest; after one a hit may be cut or of other options, never made of another ELF. A third run is needed: one writes, one overwrites, one hits |
| `ptx_cache_uncached` | as `ptx_cache` without a fault, some runs without cache | violated: see Findings |
| `ptx_cache_unnoted` | as `ptx_cache`, with no other fault than a meta file that does not come into place | violated: see Findings |
| `warp_replica` | 3 lanes, values 0 to 2, four families of functions: straight ones, ones with a scalar loop, ones with a `vbranch` and two arms, and a loop that the lanes leave one after another; lanes that part meet again, and for functions without loops and stores also need not | copies equal wherever lanes run together and a register is still read; a store made by one lane; memory, vector registers and number of stores as a warp of Ventus leaves them |
| `call_closure` | every call graph of 4 addresses, at most 2 distinct callees | closure, recursion test and names exact; termination |
| `lowering` | `W` = 8, `E` = 3, warps of 2 lanes, one program for each instruction and some of two or three, up to 100 inputs each | registers, memory, places and traps are those of the instruction, integers made of a NaN excepted; temporaries and context intact; blobs and prologues complete |
| `lowering_move` | `vmv.v.v` | violated: see Findings |

`warp_replica` has three lanes so that a path can have two, a leader and another, and
three values so that each of them can leave a loop in a round of its own. On a device
that does not reconverge, lanes of different rounds may meet by chance with different
copies, and each of the lanes that should have met again makes a store; the
code relies on the assembler there, and those functions are run only on a device that does.
Two lanes are enough for barriers and joins, since each property relates two
lanes, and a third lane does what one of the two does. Three blocks and one slot
are the least with a holder, a loser and a block that is not resident.
`BarriersTogether` is restricted to functions in which no vbranch was taken to be
uniform, because of the first finding, and like `ArmsRejoin` it leaves out vbranches
that are their own join (see below). In all cache runs `MaxActive` is 1: nothing says that two translators may work
on one output path at once, and `HitIsFresh` fails if they do.

In `lowering` the values of a register are those at which a sequence goes wrong: 0,
1, 127, 128, 255 and their neighbours as integers; zeros, subnormals, infinities,
NaNs and numbers half-way between two others as floats; addresses at both borders of
each window. Two operands take every pair of these, a third operand goes with their sum.
Registers above 31 (35, 40, 255) need a prefix. Each kind of register that may be
the same as another (`rd` and a source, `x0`, `v0`) is so in some program. With 8
bits the lines are those of 32, shifts and masks scaled; where the code has a shift of 24
or 16 the model has the number of bits that leaves a byte or a half word. The seven launches
have shapes whose last warp is full or not, and a pool in the global window, one
below it, none at all, one of no blocks, one whose bitmap lies below the window, and one below
the window that nobody asks for. The entry is run with and without a `__global_pointer$`. Each program takes only one kind of values: the combinations of
instructions are the matter of the other modules.

### Findings

1. *Uniformity across an inlined builtin* (`lanes_barrier`). The verifier does
   not see that a call of `get_local_id` writes `v0`. After
   `vmv.v.x v0, x5; call get_local_id` it still takes `v0` to be equal in all
   lanes, trusts a `vbranch` on it and accepts a barrier in its arm. The
   specification (`openspec/specs/sbt-rodinia-bringup/spec.md`, line 43) wants it rejected.
2. *Meta file left by a run without cache* (`ptx_cache_uncached`). `--no-cache`
   replaces the PTX and leaves a meta file that describes another one.
3. *Meta file left by a run that cannot replace it* (`ptx_cache_unnoted`). If the meta file
   cannot be opened aside or renamed (`sbt_ptx.cpp`, lines 642 and 646), the run ends with exit
   code 0 and the old meta file stays beside its PTX. A run with the old options takes that.
   `HitAlwaysFresh` fails in the same way with `MaxKills` or `MaxShort` 1 instead of `MaxUnnoted`: the
   PTX is cut and written in place (lines 625 to 631) before the meta file changes, so that the old
   one vouches for what a killed run left, of whatever options; and neither the write of the PTX
   nor its close is checked (lines 630 and 631), so that the meta file is written for a cut PTX too.
4. *Operands of `vmv.v.v`* (`lowering_move`). The decoder finds no case of its own for
   this name and takes it by its suffix `_v` for a unary instruction on `vs2`
   (`riscv_decode.cpp`, line 230), and the emitter moves that register
   (`ptx_emit.cpp`, line 1678). The source is `vs1` (`VentusInst_basic.txt`, line 150); `vs2` is
   0 in the encoding, so every copy is one of `v0`.

Seen while modelling, and kept out of the runs that pass:

* Single entry is not enforced: `single_entry_ok` is computed (`cfg_verify.cpp`, lines 598 to
  612) and reported and never an error, though line 29 of
  `openspec/specs/sbt-rodinia-bringup/spec.md` asks for it. TLC finds `SingleEntry` violated with
  `Programs <- SideEntries`.
* `vmnand.mm` and `vmnor.mm` come out as exclusive-nor (`ptx_emit.cpp`, lines
  2146 to 2151; `VentusInst_basic.txt`, lines 184 and 188). `MC_Lowering` leaves both out.
* `vmv.s.x` writes every lane (`ptx_emit.cpp`, line 1663); `VentusInst_basic.txt`,
  line 141, writes element 0. Left out too.
* `emit_warp_sync` reads the mask of lanes to wait for after the lanes that do not
  store have branched away (`ptx_emit.cpp`, line 237). If these have not met the leader
  again, they wait for themselves only, and a scalar load that follows gives them the old
  value. The assembler usually makes them meet, which `warp_replica` takes for granted
  of functions with stores; PTX does not promise it.
* A vbranch may stand in the block that its own join starts (`cfg_verify.cpp`, line
  582): a block postdominates itself, so the test passes. A loop whose head is
  its own join is accepted; its lanes leave it owing that join, and a barrier in
  it is accepted on a diverged path. The first proof of `ArmsRejoin` failed here, and TLC
  confirms both with `Programs <- OwnJoinLoops`. `OwnJoins` is the exception that the two
  properties make for it.
* Where two arms splat two different scalars into one register, the
  analysis calls the register uniform after the join, since each arm's output has
  it (`cfg_verify.cpp`, lines 355 to 373). A vbranch on it is trusted, and a
  barrier in its arm accepted. TLC finds `BarrierOnlyConverged` violated with
  `Programs <- SplatArms`; it is a second reason for `trusted = {}` in
  `BarriersTogether`.
* A NaN is converted to the integer 0: the emitter writes a bare `cvt` (`ptx_emit.cpp`, line
  1081, and lines 2236 to 2254 for vectors), of which PTX says so. The instruction gives the
  greatest integer of the type (`VentusIsa.ToInt`), and line 111 of
  `openspec/specs/inst-support/spec.md` wants integer results equal; the change that brought
  these instructions names the difference as a risk and keeps the micro-tests away from it
  (`openspec/changes/archive/2026-03-04-support-riscv-f-instructions/design.md`, line 93). The
  runs give these conversions zeros, subnormals, infinities and ties but no NaN, and
  `ScalarsMatch` and `VectorsMatch` claim no more. TLC finds either violated with
  `Progs <- NanPrograms`.
* A shift by an immediate whose prefix extends it beyond five bits is not masked, and the
  `vm` bit is ignored (so says `doc/ventus-isa/others.md`); `VentusIsa` ignores it as well.
  A NaN result is compared as a NaN only, not bit by bit.

### Fairness

`PdsPool`: a resident thread that can step eventually does, and the device
starts a waiting block when one has left. Weak fairness suffices, also for
the losers' spinning, because a free slot stays visible to the one that scans
while the others are done. The kernel body is taken to end. Independent progress
of a block's threads is what the target architecture (`sm_70` and later) gives.
`Postdom`, `CallClosure`: a sequential loop goes on. `Lanes`, `WarpReplica`,
`PtxCache`, `Lowering`: no fairness; only safety is stated.

## 4. Theorems

### The pool

`PdsPool_proofs` proves, for every finite set of blocks and threads, every
number of slots, every word width and every bound,

* `TypeCorrect`: `Spec => []TypeOK`
* `SlotsExclusive`: `Spec => []SlotExclusive`
* `BitmapIsExact`: `Spec => []BitmapExact`
* `LastReleases`: `Spec => []LastThreadReleases`
* `TrapsFindPoolEmpty`: `Spec => []TrapFindsPoolEmpty`
* `SafelyImplements`: `Spec => Pool!Spec`, the safety part of the refinement

from the module's named assumptions only. Mutual exclusion is not inductive. The
invariant `IInv` adds three things:

* `PhaseInv`: the threads of a block are all idle, or all before the barrier, or
  all past it. So the leader's registers mean something only while nobody is in
  the kernel body.
* `LeaderInv` and `CountInv` (in `LocalInv`): the snapshot of free bits lies in
  the mask; past the barrier `exitCount` is the number of threads that have
  left, so the thread that completes the count is the last.
* `PoolInv`: the bits set are the slots of the holders, and no two holders have
  the same. The atomic OR adds a holder exactly when it adds a bit
  (`BitTaken`); the atomic AND takes both away.

Each action has a lemma that it keeps `IInv` and is a `PoolStep`: it changes
nobody's slot, or one block takes a slot that nobody holds, or one gives its slot
back. `StepOwner` carries that over to the owners of `SlotPool`. Arithmetic on slots
(`SlotCoding`, `SlotDecoding`: a slot is one word and one bit) and `bfind` (`BFindIn`)
stand apart. `TrapsFindPoolEmpty` needs one invariant more, `TrapInv`: under
parameters that a check turns down no leader comes past the check and no other
thread past the barrier.

### Postdominators

`Postdom_proofs` proves, for every number of blocks and every graph, `TypeCorrect`,
`NoneLost` (`NeverTooSmall`), `SweepsExact` (`ExactAtEnd`) and
`CandidatesOnlyShrink` (`OnlyShrinks`). The invariant has, beside types and
`NeverTooSmall`, three parts: `ExitAlone`, the virtual exit postdominates itself only;
`AboveMeet`, no set is smaller than what its own step would make of it; and
`Settled`, in a sweep without a change so far, the sets of the blocks that were visited
are what their steps make of them. At the end all are: the blocks that have `d`
among their candidates are then confined to themselves until `d`.

### Call closure

`CallClosure_proofs` proves, for every call graph, `TypeCorrect`, `ClosureIsExact`,
`EveryCallNamed` and `RecursionIsExact`. `NodesInv` says that a function off the
worklist has its callees on the list and that the list lies in every set that is
closed under calls. `PathInv` says that the calls of `dfs` under way call each other
in turn, that their functions are exactly the gray ones, and that what one has tried is black
or is the next. `BlackInv` says that black functions call black ones only, not the
kernel, and not round. A callee on the path closes a round (`RoundFound`); a
function that is left joins none (`NoNewRound`).

### Cache

`PtxCache_proofs` proves `TypeCorrect` for any number of runs at one time, and, with
`MaxActive <= 1` as a premise, `HitsNotForeign` for any number of kills, short writes and
meta files that do not come into place. `FileInv` says that the meta file is never newer than any piece of the
PTX and the PTX never newer than the ELF; `RunInv` places the key of the run at work
between them. A key that equals the meta file leaves one version for all.
`MetaTellsAlways` and `HitsFresh` have as a premise also that no run has
`--no-cache`, and speak of the time before the first fault (`Faultless`): without either the property is
false (`ptx_cache_uncached`, `ptx_cache_unnoted`). `FreshInv` says that between two outputs the PTX is whole and has the options of the
meta file.

### Decoder and CFG

The first half of `Lanes_proofs` proves what the decoder's pass and the CFG builder give for every
sequence of words. The states of the pass are a recursive function on the number of words read;
`ScanIsFold` proves that such a function exists (by the least length without
one), and `DecodeExact` that its bundles lie end to end, each a word or a word with its own
prefix. `FlowFollowsEdges`: if the builder does not turn the
bundles down, each place that control can go to from a bundle is the next one of
its block or the first of a successor. `FlowOut`, `JoinStartsBlock` and
`RegionIsClosed` carry that over to the sets of blocks the verifier computes.

### Lanes

The second half proves, for every set of programs, lanes, registers and values,
`LanesTypeCorrect` (`TypeOK`), `BundlesAreWords` (`BundlesExact`), `LanesFollowEdges`
(`EdgesFollowed`), `LanesRejoin` (`ArmsRejoin`) and `BarriersConverged` (`BarriersTogether`).
The assumptions are that words have registers within the files and that
values are `0 .. n - 1`. The invariant has four parts:

* `Accepted`: the function that runs is made of its words and is one the verifier accepts.
* `LanesType`: the variables have their types.
* `ArmsHold`: a lane that owes a join is in a set of blocks that control leaves only
  through that join, and of the join's block it is at the first bundle. This is
  what postdominance gives at the vbranch (`FlowGraph!Confined`), kept along
  every edge until the join is met.
* `OneWay`: `Outer` is where control goes if the arms of each vbranch are one step from
  the vbranch to its join. Since the last barrier there is one place `s` from which
  every lane has gone this outer way, or is in the region of a vbranch on it. The way
  stops at barriers and at the end, and has one stopping place at most
  (`OneStop`). A barrier in the region of a vbranch is turned down, so that a lane at a
  barrier is on the way and all lanes at barriers are at that one. A lane that has left is on the
  way as well, so with a barrier complete none has left.

No bound on nesting, loops or lanes is used: lanes may be in different rounds of a loop and
at different depths.

### Replicated scalar state

`WarpReplica_proofs` proves, for every set of lanes, registers, addresses and values and
every function that is `WellFormed`, with any loops and any nesting of vbranches,

* `TypeCorrect`: `Spec => []TypeOK`
* `CopiesEqual`: `Spec => [](reconverges => ReplicasEqual)`
* `StoresByOneLane`: `Spec => []OneLaneStores`

The last two are for a device that reconverges and functions of which
`KeepsContract` holds. `ReplicasEqual` is not inductive, since it says nothing of lanes
that are apart and will meet. The invariant `IInv` has six parts:

* `Typed` and `Grouped`: types; the lanes of a group are at one place and wait for the
  same lanes.
* `Framed`: the frames of a lane lie in each other, each with fewer lanes than the next one
  out; the lane is in the store or in the arms that the frame is for, or has come to its end
  (`Inside`); and the end of an outer frame is not in the arms of an inner one (`Past`), so
  that the inner lanes meet first.
* `Shared`: lanes with a frame in common have all the frames outside it in common as well, and
  agree in every register that is read from the frame's place on, wherever each of them is
  now. A word in an arm keeps this because it does not write these registers, and
  `live` of a place inside covers `live` of the place where the frame ends.
* `Replicated`: the lanes of a group agree in every register that is read from their
  word on. When lanes meet, this is what `Shared` said of them while they were apart.
* `Led`: from the choice of the leader to its store the leader is the highest lane
  of the group, and the store is in a group of one lane.

A step either takes a group from a word to one that follows it (`GroupGoesOn`), parts a
group (`GroupParts`) or joins several (`LanesMeet`), and each action has a lemma
that it is one of these.

### The registers that stay

The prologue puts the lane, the warp, the number of warps, the private memory, the launch words and the
bases of the two windows into PTX registers of the file that every emitted
instruction takes its temporaries from by number. `Lowering_proofs` proves

* `ContextSurvives`: `Spec => []ContextKept`

for every width `W` and `E`, every size of a warp, every launch and device, and all programs
of any length made of any of the instructions, `.func` calls, builtins and branches among them;
the assumptions are the named ones of the modules, `CallsAssumption` and `LaunchesAssumption`
among them. The proof has three parts.

*The code.* `Plain` lines keep the structure of a sequence, are no part of a jump and write no
register of `ContextRegs`. Each helper of the emitter has a lemma that it is `Plain`, for any
registers, immediates and operations; those that write a branch and its label are
`Linked`: nothing in `ContextRegs` is written and each branch goes to a label of the same piece.
`EmitLinked` is this for everything that `Emit` can choose, also for words that the
decoder never makes. `EmitAllNumbered` joins the instructions of a program: a label carries the
number of its instruction, so a branch stays in its instruction, and `CodeLaid` joins the
called function, the program and the end.

*The steps.* The context is not kept at every line: in a called function other registers
are current. The invariant `IInv` says that a lane in the program has its context, that a lane
in the called function has it in what its caller saved and will return to the program
(`LaneOK`), and that the line being run is the first of all lanes' (`Together`). `StepWithin`
serves every line that stays in its function; a branch does because its label is in the same
part of the code (`Laid`). TLC found `IInv` to hold in every state of the run `lowering`
before it was proved.

*The entry.* In the kind `entry` the prologue has to compute what the other kinds start
with. `EntryLaid` says which line of the prologue is at which place, and that no line after
them writes the context. There is no jump in that code, the acquire being one line, so the lanes that run
are at one place (`InStep`), and `EntryHas` says of each register from which line to which it
holds which number. What is left is arithmetic: `WarpCount`, `GridArith` and
`LaneCounted` show that the linear id made of a lane's `tid` gives back its warp and its
lane, that no sum on the way is cut to `W` bits, and that the thread count plus a warp less one,
shifted, is the number of warps. `EntryInv`, these together, is proved beside `IInv`.

### What the entry leaves

`Entry_proofs` goes through the whole prologue that `emit_entry` writes and proves

* `EntryAsLaunched`: `Spec => []EntryMatches`

for every width, window, launch, device and size of a warp. When the prologue is over,
each lane has in `x2` and `x8` the stacks of its warp and of its block, the file's global pointer
in `x3` if there is one, 0 in `x4`, and in `x10` the
kernel's arguments; or the launch has trapped. It has exactly if the pool of
private memory is asked for and lies below the global window, or if it is asked for and, at the warp
of thread 0, has no blocks or a bitmap below that window. The other warps of such a block wait for thread 0
at a barrier; the theorem says of them that they do not trap, and nothing of their registers. The size of a stack and the
address of the arguments are the words the metadata has at 56 and at 4, as a load of the
instruction set reads them (`LoadAs`); the prologue reads them by two copies of the
address map, with 64-bit sums and predicated lines (`WordLoaded`).

The argument adds `Prepares` to the invariant `IInv /\ EntryInv` of the theorem before. It says
of the whole warp that lane 0 runs, that memory is as it was, and that there is a trap if and only if
`StopsBy` says so: the pool is below the window and the line of that check is passed (`LowPool`), or it has no
blocks or a low bitmap and the acquire is passed (`Denied`). It says of each lane `LaunchHas`: from which line to which it holds what
in each register that still counts, the predicates and the halves of an address
among them (`KnlHas`, for each of the two loads), `PoolHas` for the four registers that the acquire
reads, and `PointerHas` for `x3`. To see that it is kept,

* `EntryCoded` says for every line of the prologue, 78 or with a global pointer 80 (`Later`), what it is, and that those
  in between are `Tacit`: no store, no trap, no write to these registers (`ResultLines`, `LoudLines`);
* `KnlWrites` and `LaunchWrites` compute what each of the lines writes from what the lane has before it;
  `KnlKept`, `LaunchKept`, `PoolKept` and `PointerKept` keep it to the line where it is read last;
* `FaultFollows` shows that the two address maps do not trap, since metadata lies in
  the global window, and that the pool's check and the acquire do if and only if they should (`PoolAnswers`).

Predicates are numbers, so that `and.pred` and `or.pred` are bit operations (`BitsOf`), and the
difference to a window's base is a sum that wraps (`WrapSum`). That the first lane of a warp has a
thread, so that a run of the prologue is a run of somebody, is `WarpHasThread`.

### What is only model-checked

What the lines of the instructions compute: `ScalarsMatch`, `VectorsMatch`, `MemoryMatches`, `ControlMatches`,
`EffectsDefined` and the types of `Lowering` are about every instruction there is: rounded floats, quotients and
powers of two that are defined by choice, shifts by a number the program has, and bytes that are taken apart and put together. TLC
compares them value by value, at one width. Of these the prologue has only shifts by a constant and the bytes of two
words, which are read on both sides alike.

`ReplicasEqual` on a device that does not reconverge: it holds for the functions
of the run and not for every function. `EndsAsWarp` compares with the recursive
`Ends`.

Liveness and the fair part of the refinement are out of the prover's reach.
What the fixpoint of the uniformity analysis computes is not proved either (and
is not right, see Findings); the theorems about lanes speak of functions in
which it trusts no vbranch.

## 5. Not modelled

* Which pattern a word matches: a generated table with a golden test. A word in
  `DecodeOne` carries the name that the table gives it.
* `vfexp.v` and the builtins for sine, cosine and tangent: the emitter
  uses PTX's approximations, and no document bounds their error.
* Weak memory: the pool's atomics are relaxed and no fence orders a block's
  private stores before its release. The model's memory is sequentially consistent.
* Several warps that share memory, and functions called by lanes that have parted:
  planned. `Lowering` has `.func` calls of lanes that go in step. In `WarpReplica` the arms of a `vbranch` keep to registers
  and addresses of their own, since Ventus runs one arm first and PTX any.
* Command-line front ends, regression scripts, build-time generators, the CUDA
  statistics shim: sequential text or process handling, or outside translation.

## 6. Plan

Done: `PdsPool`, `SlotPool`; `Postdom`; decoder, CFG, verifier and `Lanes`;
`CallClosure`; `PtxCache`; `WarpReplica`;
`Lowering` with the decoder's operands, the emitter's lines, calls and prologues; the
proof modules listed in section 4.
Next, in this order:

1. A proof module for loads and stores: what `KnlWrites` shows for the two loads of the prologue, for the
   addresses of both windows, every width of an access and the trap below them; and the context
   that a called function reads from its parameters.
2. `WarpReplica` with several warps whose stores race with per-lane loads.
3. `FakePipes`: `popen`, `pclose`, `fclose` by several threads with `FILE*` reused.
4. `Lanes` with calls of emitted functions, and the rpc of the machine beside
   the verifier's.
