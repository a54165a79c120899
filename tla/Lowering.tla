------------------------------ MODULE Lowering ------------------------------
(***************************************************************************)
(* One warp runs the PTX that is emitted for a few instructions.           *)
(*                                                                         *)
(* The lanes go together: those at the first place of all run its line.    *)
(* So lanes that part run together again as soon as they can; what happens *)
(* when they do not is the subject of WarpReplica.  A register of PTX that *)
(* nothing has written is Undef.                                           *)
(***************************************************************************)
EXTENDS EmitCall, VentusIsa

CONSTANTS
  Progs,     (* the programs, each with a kind, lanes and insts; an entry *)
             (* with the address gp of __global_pointer$, or 0            *)
  Callee,    (* the instructions of every function that is called         *)
  Values,    (* for each kind the values registers may hold, a sequence   *)
  Launches,  (* a sequence of launches: shape, pdsBase, pdsSize and the   *)
             (* pdsBlocks of the pool with the base pdsBitmap of its map  *)
  Device     (* where the device has the memory of the grid              *)

ASSUME ProgsAssumption ==
  \A p \in Progs :
    /\ p.kind \in DOMAIN Values \cup { "entry" }
    /\ p.insts \in Seq(Insts)
    /\ p.lanes \in (SUBSET (0 .. 2^LogWarp - 1)) \ {{}}
    /\ p.kind = "entry" => p.lanes = 0 .. 2^LogWarp - 1 /\ p.gp \in 0 .. Top - 1

LaneIds == 0 .. 2^LogWarp - 1

(* The threads of a block fit its grid registers, their number and the     *)
(* rounding of it to whole warps as well; what is passed is defined.  The  *)
(* 64 bytes of metadata lie in the global window, where the driver maps    *)
(* them, and the pages behind that window are below the top of 64 bits.    *)
Threads(shape) == shape[1] * shape[2] * shape[3]

ASSUME LaunchesAssumption ==
  /\ LogWarp \in 0 .. W - 1 /\ LogWarp < Top /\ 2^LogWarp \in Nat \ { 0 }
  /\ \A k \in DOMAIN Launches :
       /\ \A d \in 1 .. 3 : Launches[k].shape[d] \in Nat \ { 0 }
       /\ Threads(Launches[k].shape) + 2^LogWarp <= Top
       /\ Launches[k].pdsBase \in Nat /\ Launches[k].pdsSize \in Nat
       /\ Launches[k].pdsBitmap \in Nat /\ Launches[k].pdsBlocks \in Nat
  /\ \A name \in { "global_base", "knl_vaddr", "shmem" } : Device[name] \in Nat
  /\ Device["knl_vaddr"] >= GlobalBase /\ Device["knl_vaddr"] + 64 <= Top
  /\ Device["global_base"] + Top <= Wide

----------------------------------------------------------------------------
(* Code: the called function, then the lines of the instructions, the end. *)

(* Labels are of one instruction, number n of all.                         *)
Own(lines, n) ==
  [k \in DOMAIN lines |->
     IF lines[k].op \in { "label", "bra" } THEN [lines[k] EXCEPT !.d = Append(@, n)] ELSE lines[k]]

Start == 16

(* The words up to and with instruction n of insts.                        *)
WordsTo(insts, n) == MapThenSumSet(LAMBDA k : Len(Encode(insts[k])), 1 .. n)

(* What counts for a branch is the address after any prefix.               *)
PcOf(insts, n) == Start + 4 * (WordsTo(insts, n) - 1)

(* Instructions are numbered from the one after number m.                  *)
EmitAll(insts, m) ==
  FlattenSeq([n \in DOMAIN insts |-> Own(Emit(DecodeWords(Encode(insts[n])), PcOf(insts, n)), m + n)])

Exit == << L("exit", NoReg, << >>) >>

Called == FuncPrologue \o EmitAll(Callee, 0)

CodeOf(p) == Called \o (IF p.kind = "entry" THEN Prologue(p.gp) ELSE EmitAll(p.insts, Len(Callee))) \o Exit

First == Len(Called) + 1

(* Calls are one deep: what is called is one block, calls only functions   *)
(* that are inline and returns in the end; the programs themselves do not  *)
(* return.                                                                 *)
ASSUME CallsAssumption ==
  /\ Callee \in Seq(Insts)
  /\ Called[Len(Called)].op = "ret"
  /\ \A k \in DOMAIN EmitAll(Callee, 0) : EmitAll(Callee, 0)[k].op \notin { "call", "goto" }
  /\ \A p \in Progs : LET lines == EmitAll(p.insts, Len(Callee))
                      IN  \A k \in DOMAIN lines : lines[k].op # "ret"

----------------------------------------------------------------------------
VARIABLES
  prog,    (* the program                                                 *)
  code,    (* the lines that are emitted for it                           *)
  input,   (* which values                                                *)
  active,  (* the lanes that take part                                    *)
  pc,      (* pc[l]: the line lane l is at                                *)
  now,     (* the first of these lines                                    *)
  regs,    (* regs[l]: the registers lane l has written                   *)
  caller,  (* caller[l]: the pc and the registers of lane l's caller      *)
  mem,     (* the bytes that have been written                            *)
  fault

vars == << prog, code, input, active, pc, now, regs, caller, mem, fault >>
grid == << prog, code, input, active >>

Kind == prog.kind

(* The warps that hold the threads of a block, which may not fill the last.*)
WarpsOf(shape) == CHOOSE n \in 1 .. Threads(shape) : n * 2^LogWarp \in Threads(shape) .. Threads(shape) + 2^LogWarp - 1

InputsOf(kind) ==
  IF kind = "entry"
    THEN UNION { { << k, w >> : w \in 0 .. WarpsOf(Launches[k].shape) - 1 } : k \in DOMAIN Launches }
  ELSE (DOMAIN Values[kind]) \X (DOMAIN Values[kind])

(* What register number n holds: one of two values, or a third one.        *)
Value(kind, in, n) ==
  LET choice == CASE n % 3 = 0 -> in[1] [] n % 3 = 1 -> in[2] [] n % 3 = 2 -> in[1] + in[2]
  IN  Values[kind][(choice % Len(Values[kind])) + 1]

(* The grid: the launch and the warp, from the input of an entry.          *)
Launch == Launches[IF Kind = "entry" THEN input[1] ELSE 1]
Warp   == IF Kind = "entry" THEN input[2] ELSE 1
Shape  == Launch.shape
Linear(l) == Warp * 2^LogWarp + l

SpecialOf(l, name) ==
  LET n == Linear(l)
  IN  CASE name = "laneid"  -> l
        [] name = "tid.x"   -> n % Shape[1]
        [] name = "tid.y"   -> (n \div Shape[1]) % Shape[2]
        [] name = "tid.z"   -> (n \div (Shape[1] * Shape[2])) % Shape[3]
        [] name = "ntid.x"  -> Shape[1]
        [] name = "ntid.y"  -> Shape[2]
        [] name = "ntid.z"  -> Shape[3]
        [] name = "pds_base_vaddr"          -> Launch.pdsBase
        [] name = "pds_size_per_thread"     -> Launch.pdsSize
        [] name = "pds_bitmap_base_vaddr"   -> Launch.pdsBitmap
        [] name = "pds_pool_num_blocks"     -> Launch.pdsBlocks
        [] OTHER            -> Device[name]

(* What the prologue has left in the registers that stay.                  *)
ContextRegs == { R(0), R(10), R(12), R(28), R(29), R(30), RD(0), RD(2) }
Context(l) ==
  [a \in ContextRegs |->
     CASE a = R(0)  -> l
       [] a = R(10) -> Warp
       [] a = R(12) -> WarpsOf(Shape)
       [] a = R(28) -> Launch.pdsBase
       [] a = R(29) -> Launch.pdsSize
       [] a = R(30) -> Device["knl_vaddr"]
       [] a = RD(0) -> Device["global_base"]
       [] a = RD(2) -> Device["shmem"]]

XAt(r)    == Value(Kind, input, r)
VAt(l, r) == Value(Kind, << input[1], input[2] + l >>, r)

(* s with what f has in the place of what s has.                           *)
Updated(s, f) == [a \in DOMAIN s \cup DOMAIN f |-> IF a \in DOMAIN f THEN f[a] ELSE s[a]]

InitialRegs(l) ==
  IF Kind = "entry" THEN << >>
  ELSE [a \in ContextRegs \cup { X(r) : r \in XRegs \ {0} } \cup { V(r) : r \in VRegs } |->
          CASE a[1] = "x" -> XAt(a[2]) [] a[1] = "v" -> VAt(l, a[2]) [] OTHER -> Context(l)[a]]

Init ==
  /\ prog \in Progs
  /\ code = CodeOf(prog)
  /\ input \in InputsOf(Kind)
  /\ active = { l \in prog.lanes : Linear(l) < Threads(Shape) }
  /\ pc = [l \in LaneIds |-> First]
  /\ now = First
  /\ regs = [l \in LaneIds |-> InitialRegs(l)]
  /\ caller = [l \in LaneIds |-> << >>]
  /\ mem = << >>
  /\ fault = "none"

----------------------------------------------------------------------------
(* The line that is next, the lanes at it and those its guard lets do it.  *)
End   == Len(code)
Over  == fault # "none" \/ now = End
Line  == code[now]
Group == { l \in active : pc[l] = now }

Reg(l, a) ==
  CASE a[1] = "imm"     -> a[2]
    [] a[1] = "special" -> SpecialOf(l, a[2])
    [] OTHER            -> IF a \in DOMAIN regs[l] THEN regs[l][a] ELSE Undef

Doing == { l \in Group : Line.g[1] = None \/ Reg(l, P(Line.g[1])) = Bool(Line.g[2]) }

Sources(l) == [k \in DOMAIN Line.s |-> Reg(l, Line.s[k])]

At(ops) == ~Over /\ Line.op \in ops

GoTo(n) ==
  LET doing == Doing
  IN  /\ pc' = [l \in LaneIds |-> IF l \in doing THEN n ELSE IF pc[l] = now THEN now + 1 ELSE pc[l]]
      /\ now' = Min({ pc'[l] : l \in active })

GoOn ==
  /\ pc' = [l \in LaneIds |-> IF pc[l] = now THEN now + 1 ELSE pc[l]]
  /\ now' = Min({ pc'[l] : l \in active })

(* The lanes that do the line write val[l] to its destination.             *)
Write(val) ==
  regs' = [l \in LaneIds |-> IF l \in DOMAIN val THEN Updated(regs[l], [a \in { Line.d } |-> val[l]]) ELSE regs[l]]

Computed(val) == Write(val) /\ GoOn /\ UNCHANGED << grid, caller, mem, fault >>

NothingBut == UNCHANGED << grid, regs, caller, mem, fault >>

(* Memory: bytes of W / 4 bits, and what was there before.                 *)
Byte == 2^(W \div 4)
Before(cell) == (cell[2] + 3 * (cell[2] \div 4) + (IF cell[1] = "shared" THEN 1 ELSE 0)) % Byte
ByteAt(m, cell) == IF cell \in DOMAIN m THEN m[cell] ELSE Before(cell)

Bytes == [u8 |-> 1, u16 |-> 2, u32 |-> 4]
Read(m, space, a, width) ==
  LET byte(k) == IF k < Bytes[width] THEN ByteAt(m, << space, a + k >>) * 2^(k * (W \div 4)) ELSE 0
  IN  byte(0) + byte(1) + byte(2) + byte(3)
Written(m, space, a, width, n) ==
  Updated(m, [c \in { << space, a + k >> : k \in 0 .. Bytes[width] - 1 } |-> (n \div Byte^(c[2] - a)) % Byte])

Accesses(ops) ==
  { << ops[space][width], space, width >> : space \in { "shared", "global" }, width \in DOMAIN Bytes }
Loading  == Accesses(LdOp)
Storing  == Accesses(StOp)
LoadOps  == { a[1] : a \in Loading }
StoreOps == { a[1] : a \in Storing }
AccessIn(accesses) == CHOOSE a \in accesses : a[1] = Line.op

NotComputed ==
  { "activemask", "shfl.idx", "bar.warp.sync", "bar.sync", "label", "bra", "goto", "trap", "unsupported",
    "call", "ret", "ld.wg_base", "pds.acquire" } \cup LoadOps \cup StoreOps

----------------------------------------------------------------------------
Compute ==
  /\ ~Over
  /\ Line.op \notin NotComputed
  /\ Computed([l \in Doing |-> Apply(Line.op, Line.rm, Sources(l))])

(* activemask: bit l is lane l.                                            *)
Vote ==
  /\ At({ "activemask" })
  /\ Computed([l \in Doing |-> MapThenSumSet(LAMBDA k : 2^k, Group)])

(* shfl.idx: from the lane that is the second source.                      *)
Shuffle ==
  /\ At({ "shfl.idx" })
  /\ LET from(l) == Reg(l, Line.s[2])
     IN  Computed([l \in Doing |-> IF from(l) \in Doing THEN Reg(from(l), Line.s[1]) ELSE Undef])

(* The lanes that a barrier waits for are all here.                        *)
Pass ==
  /\ At({ "bar.warp.sync", "bar.sync", "label" })
  /\ GoOn
  /\ NothingBut

LoadLine ==
  /\ At(LoadOps)
  /\ LET a == AccessIn(Loading)
     IN  Computed([l \in Doing |-> Read(mem, a[2], Sources(l)[1], a[3])])

(* Lanes that store at one place do so in some order; here the last of     *)
(* them wins.                                                              *)
StoreLine ==
  /\ At(StoreOps)
  /\ LET a == AccessIn(Storing)
         lanes == InOrder(Doing)
     IN  mem' = FoldLeft(LAMBDA m, l : Written(m, a[2], Sources(l)[1], a[3], Sources(l)[2]), mem, lanes)
  /\ GoOn
  /\ UNCHANGED << grid, regs, caller, fault >>

(* The work-group's private memory, that the pool has given it.            *)
PoolBase ==
  /\ At({ "ld.wg_base" })
  /\ Computed([l \in Doing |-> Device["wg_base"]])

(* The thread is number 0, it asks for memory, and no block is in the pool *)
(* or its bitmap is below the global window.                               *)
NoPool(l) ==
  LET s == Sources(l) IN s[1] = 0 /\ s[2] # 0 /\ (s[3] = 0 \/ s[4] < GlobalBase)

AcquirePool ==
  /\ At({ "pds.acquire" })
  /\ regs' = [l \in LaneIds |-> IF l \in Doing THEN Updated(regs[l], [a \in AcquireScratch |-> Undef]) ELSE regs[l]]
  /\ fault' = IF \E l \in Doing : NoPool(l) THEN "trap" ELSE fault
  /\ GoOn
  /\ UNCHANGED << grid, caller, mem >>

Branch ==
  /\ At({ "bra" })
  /\ GoTo(CHOOSE n \in DOMAIN code : code[n].op = "label" /\ code[n].d = Line.d)
  /\ NothingBut

(* A branch of the function ends the program.                              *)
LeaveBlock ==
  /\ At({ "goto" })
  /\ Write([l \in Doing |-> Line.s[1][2]])
  /\ GoTo(End)
  /\ UNCHANGED << grid, caller, mem, fault >>

Stop ==
  /\ At({ "trap", "unsupported" })
  /\ IF Doing = {} THEN fault' = fault ELSE fault' = Line.op
  /\ GoOn
  /\ UNCHANGED << grid, regs, caller, mem >>

(* The words of blob from, as they are in blob to.                         *)
Passed(l, from, to) ==
  LET words == { a \in DOMAIN regs[l] : a[1] = "param" /\ a[2] = from }
  IN  [a \in { Param(to, b[3]) : b \in words } |-> regs[l][Param(from, a[3])]]

(* The called function has registers of its own.                           *)
CallLine ==
  /\ At({ "call" })
  /\ regs' = [l \in LaneIds |->
                IF l \in Doing
                  THEN Updated(Updated(Passed(l, Line.s[2][2], "mutable_state_in"),
                                       Passed(l, Line.s[3][2], "machine_ctx_in")),
                               Passed(l, Line.s[4][2], "runtime_env_in"))
                  ELSE regs[l]]
  /\ caller' = [l \in LaneIds |-> IF l \in Doing THEN << now, regs[l] >> ELSE caller[l]]
  /\ GoTo(1)
  /\ UNCHANGED << grid, mem, fault >>

Return ==
  /\ At({ "ret" })
  /\ regs' = [l \in LaneIds |->
                IF l \in Doing
                  THEN Updated(caller[l][2], Passed(l, "mutable_state_out", code[caller[l][1]].d[2]))
                  ELSE regs[l]]
  /\ pc' = [l \in LaneIds |-> IF l \in Doing THEN caller[l][1] + 1 ELSE pc[l]]
  /\ now' = Min({ pc'[l] : l \in active })
  /\ caller' = [l \in LaneIds |-> IF l \in Doing THEN << >> ELSE caller[l]]
  /\ UNCHANGED << grid, mem, fault >>

Done == Over /\ UNCHANGED vars

Next ==
  \/ Compute \/ Vote \/ Shuffle \/ Pass \/ LoadLine \/ StoreLine \/ PoolBase \/ AcquirePool
  \/ Branch \/ LeaveBlock \/ Stop \/ CallLine \/ Return \/ Done

Spec == Init /\ [][Next]_vars
=============================================================================
