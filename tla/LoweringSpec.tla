---------------------------- MODULE LoweringSpec ---------------------------
(***************************************************************************)
(* What the warp has to have done when the emitted code is over: the       *)
(* instructions one after the other, each on the registers and the memory  *)
(* of the Ventus processor.                                                *)
(***************************************************************************)
EXTENDS Lowering

(* The Ventus warp: x, v of the active lanes, memory, where each lane goes.*)
Begin ==
  [x |-> [r \in XRegs |-> IF r = 0 THEN 0 ELSE XAt(r)],
   v |-> [l \in active |-> [r \in VRegs |-> VAt(l, r)]],
   mem |-> << >>, goto |-> [l \in active |-> Undef], fault |-> "none"]

SetX(s, r, n) == IF r = 0 THEN s ELSE [s EXCEPT !.x[r] = n]
SetV(s, r, f) == [s EXCEPT !.v = [l \in active |-> [s.v[l] EXCEPT ![r] = f[l]]]]
Fails(s, f)   == [s EXCEPT !.fault = f]

----------------------------------------------------------------------------
(* Memory: two windows, and below them nothing.                            *)
Host(a) ==
  IF a < GlobalBase THEN << "shared", Device["shmem"] + a - SharedBase >>
                    ELSE << "global", Device["global_base"] + a - GlobalBase >>
Mapped(a) == a >= SharedBase

Size(w) == CASE w = "w" -> "u32" [] w \in { "h", "hu" } -> "u16" [] w \in { "b", "bu" } -> "u8"
Extended(w, n) ==
  LET top == Byte^Bytes[Size(w)]
  IN  IF w \in { "b", "h" } /\ 2 * n >= top THEN Wrap(n - top) ELSE n
LoadAs(m, w, a) == Extended(w, Read(m, Host(a)[1], Host(a)[2], Size(w)))
StoreAs(m, w, a, n) == Written(m, Host(a)[1], Host(a)[2], Size(w), n)

LoadOf ==
  [lw |-> "w", flw |-> "w", lh |-> "h", lhu |-> "hu", lb |-> "b", lbu |-> "bu",
   vlw12 |-> "w", vlh12 |-> "h", vlhu12 |-> "hu", vlb12 |-> "b", vlbu12 |-> "bu", vlw |-> "w"]
StoreOf ==
  [sw |-> "w", fsw |-> "w", sh |-> "h", sb |-> "b", vsw12 |-> "w", vsh12 |-> "h", vsb12 |-> "b", vsw |-> "w"]

(* The private memory of a warp: words of its lanes side by side.          *)
PdsBase == Wrap(Device["wg_base"] + Warp * Launch.pdsSize * 2^LogWarp)

IsVector(i) == i.m[1] \in VecI \cup VecS

AddressOf(i, s, l) ==
  LET a == Wrap((IF IsVector(i) THEN s.v[l][i.rs1] ELSE s.x[i.rs1]) + i.imm)
  IN  IF i.m[1] \in { "vlw", "vsw" } THEN Wrap(PdsBase + (a - (a % 4)) * 2^LogWarp + 4 * l) ELSE a

Loads1(i, s) ==
  LET w == LoadOf[i.m[1]]
      value == [l \in active |-> LoadAs(s.mem, w, AddressOf(i, s, l))]
  IN  IF \E l \in active : ~Mapped(AddressOf(i, s, l)) THEN Fails(s, "trap")
      ELSE IF IsVector(i) THEN SetV(s, i.rd, value) ELSE SetX(s, i.rd, value[Max(active)])

Stores1(i, s) ==
  LET w == StoreOf[i.m[1]]
      value(l) == IF IsVector(i) THEN s.v[l][i.rs2] ELSE s.x[i.rs2]
  IN  IF \E l \in active : ~Mapped(AddressOf(i, s, l)) THEN Fails(s, "trap")
      ELSE [s EXCEPT !.mem = FoldLeft(LAMBDA m, l : StoreAs(m, w, AddressOf(i, s, l), value(l)), @,
                                      InOrder(active))]

----------------------------------------------------------------------------
(* Branches, calls and the state of the warp.                              *)
Compared == [eq |-> "seq", ne |-> "sne", lt |-> "slt", ge |-> "slt", ltu |-> "sltu", geu |-> "sltu"]

Taken(kind, a, b) == (IntOp(Compared[kind], a, b) = 1) # (kind \in { "ge", "geu" })

Branches(i, s, at) ==
  LET taken(l) == IF i.m[1] \in VecB THEN Taken(BranchKind[i.m[1]], s.v[l][i.rs2], s.v[l][i.rs1])
                  ELSE Taken(BranchKind[i.m[1]], s.x[i.rs1], s.x[i.rs2])
  IN  [s EXCEPT !.goto = [l \in active |-> IF taken(l) THEN at + i.imm ELSE at + 4]]

CsrOf(n) ==
  CASE n = 2048 -> Warp * 2^LogWarp   [] n = 2049 -> WarpsOf(Shape)   [] n = 2050 -> 2^LogWarp
    [] n = 2051 -> Device["knl_vaddr"] [] n = 2053 -> Warp          [] n = 2054 -> SharedBase
    [] n = 2055 -> PdsBase            [] n = 2056 -> Device["ctaid.x"]
    [] n = 2057 -> Device["ctaid.y"]  [] n = 2058 -> Device["ctaid.z"]
    [] n = 2059 -> LoadAs(<< >>, "w", Device["knl_vaddr"] + 48)

(* OpenCL: a number of a work-item on an axis.                             *)
Axes == << "x", "y", "z" >>
OnAxis(f, l, n) ==
  LET a == Axes[n + 1]
      tid == SpecialOf(l, "tid." \o a)    ntid == SpecialOf(l, "ntid." \o a)
      cta == SpecialOf(l, "ctaid." \o a)  ncta == SpecialOf(l, "nctaid." \o a)
  IN  CASE f \in { "get_local_id", "workitem_id" }  -> tid
        [] f \in { "get_group_id", "workgroup_id" } -> cta
        [] f \in { "get_global_id", "global_id" }   -> Wrap(cta * ntid + tid)
        [] f = "get_global_size"                    -> Wrap(ntid * ncta)

Low(n) == LET top == 2^(W - W \div 4) IN IF 2 * (n % top) >= top THEN (n % top) - top ELSE n % top

(* v0 and on of lane l, after a call of the function f.                    *)
Builtin(f, l, v) ==
  LET first(n) == [v EXCEPT ![0] = n]
      four(f1(_)) == [r \in DOMAIN v |-> IF r \in 0 .. 3 THEN f1(v[r]) ELSE v[r]]
  IN  CASE f[1] \in { "workitem_id", "workgroup_id", "global_id" } ->
             first(OnAxis(f[1], l, CHOOSE n \in 0 .. 2 : Axes[n + 1] = f[2]))
        [] f[1] \in { "get_local_id", "get_group_id", "get_global_id", "get_global_size" } ->
             first(IF v[0] \in 0 .. 2 THEN OnAxis(f[1], l, v[0]) ELSE Bool(f[1] = "get_global_size"))
        [] f[1] = "fmax"  -> first(FMax(v[0], v[1]))
        [] f[1] = "sqrt"  -> first(FSqrt("rn", v[0]))
        [] f[1] = "mad24" -> first(Wrap(Low(v[0]) * Low(v[1]) + v[2]))
        [] f[1] = "sqrt4" -> four(LAMBDA n : FSqrt("rn", n))
        [] f[1] = "fabs4" -> four(LAMBDA n : Mag(n))

----------------------------------------------------------------------------
(* One instruction.                                                        *)
Refused(i) == i.rm \in 4 .. 6

ScalarNames ==
  DOMAIN ScalarInt \cup DOMAIN ScalarFloat
    \cup { "fmv", "fsqrt", "fclass", "fcvt", "fmadd", "fmsub", "fnmadd", "fnmsub" }

HasImm(i) == i.m[1] \in { "addi", "slti", "sltiu", "xori", "ori", "andi", "slli", "srli", "srai" }

OtherOf(i, s, l) ==
  LET form == i.m[Len(i.m)]
  IN  IF form \in { "vi", "vim", "i" } THEN Wrap(i.imm)
      ELSE IF form \in { "vx", "vxm", "vf", "vfm", "x", "f" } THEN s.x[i.rs1] ELSE s.v[l][i.rs1]

VectorOf(i, s, l) ==
  CASE i.m[1] \in { "vadd12", "vsub12" } -> VectorValue(i, s.v[l][i.rs1], Wrap(i.imm), 0, 0)
    [] i.m[1] = "vid" -> l
    [] OTHER -> VectorValue(i, s.v[l][i.rs2], OtherOf(i, s, l), s.v[l][i.rd], s.v[l][0])

Step1(i, s, at) ==
  LET n == i.m[1]
  IN  CASE n \in { "setrpc", "join", "vsetvli", "barrier" } -> s
        [] Refused(i)                  -> Fails(s, "unsupported")
        [] n \in DOMAIN LoadOf         -> Loads1(i, s)
        [] n \in DOMAIN StoreOf        -> Stores1(i, s)
        [] n \in DOMAIN BranchKind     -> Branches(i, s, at)
        [] n = "jal" /\ i.rd = 0       -> [s EXCEPT !.goto = [l \in active |-> at + i.imm]]
        [] n \in { "csrrw", "csrrs", "csrrc" } -> SetX(s, i.rd, CsrOf(i.imm))
        [] n = "lui"                   -> SetX(s, i.rd, Wrap(i.imm * 2^UpperBits))
        [] n = "auipc"                 -> SetX(s, i.rd, Wrap(at + i.imm * 2^UpperBits))
        [] n \in ScalarNames           ->
             SetX(s, i.rd, ScalarValue(i, s.x[i.rs1], IF HasImm(i) THEN Wrap(i.imm) ELSE s.x[i.rs2], s.x[i.rs3]))
        [] i.m = << "vmv", "x", "s" >> ->
             IF 0 \in active THEN SetX(s, i.rd, s.v[0][i.rs2]) ELSE Fails(s, "trap")
        [] OTHER                       -> SetV(s, i.rd, [l \in active |-> VectorOf(i, s, l)])

Steps(insts, s) ==
  FoldLeft(LAMBDA t, n : IF t.fault = "none" THEN Step1(insts[n], t, PcOf(insts, n)) ELSE t,
           s, [n \in DOMAIN insts |-> n])

(* A call links, and does what the function does, all but its return.      *)
Call1(i, s, at) ==
  LET linked == SetX(s, i.rd, Wrap(at + 4))
      f == Symbols[at + i.imm]
  IN  IF f \in Inlined THEN [linked EXCEPT !.v = [l \in active |-> Builtin(f, l, linked.v[l])]]
      ELSE Steps(SubSeq(Callee, 1, Len(Callee) - 1), linked)

IsCall(i) == i.m[1] = "jal" /\ i.rd # 0

RunAll(insts) ==
  FoldLeft(LAMBDA t, n : IF t.fault # "none" THEN t
                         ELSE IF IsCall(insts[n]) THEN Call1(insts[n], t, PcOf(insts, n))
                         ELSE Step1(insts[n], t, PcOf(insts, n)),
           Begin, [n \in DOMAIN insts |-> n])

Expected == RunAll(prog.insts)

----------------------------------------------------------------------------
(* Correctness.                                                            *)

(* A float that is not a number may be any one of them.                    *)
Same(a, b) == a = b \/ (Kind \in { "float", "real" } /\ a # Undef /\ IsNaN(a) /\ IsNaN(b))

InRange(a, n) ==
  n = Undef \/
  n \in (CASE a[1] \in { "r", "x", "v", "f", "goto" } -> 0 .. Max({ Ones, 1023 })
           [] a[1] = "p"  -> 0 .. 1
           [] a[1] = "ub" -> 0 .. Byte - 1
           [] a[1] = "uh" -> 0 .. Byte^2 - 1
           [] a[1] \in { "rd", "param" } -> 0 .. Wide - 1)

(* Every register of PTX holds a value of its width; the ten bits of the   *)
(* class of a float go into the 32 of the code.                            *)
TypeOK ==
  /\ active \in (SUBSET LaneIds) \ {{}}
  /\ \A l \in LaneIds : pc[l] \in DOMAIN code
  /\ \A l \in LaneIds : \A a \in DOMAIN regs[l] : InRange(a, regs[l][a])
  /\ \A c \in DOMAIN mem : mem[c] \in 0 .. Byte - 1
  /\ fault \in { "none", "trap", "unsupported" }

(* No guard, no address and no value that goes to memory or to another     *)
(* lane is undefined: what the temporary registers of emit_one_inst hold   *)
(* from earlier, or do not hold yet, decides nothing.                      *)
EffectsDefined ==
  ~Over =>
    /\ \A l \in Group : Line.g[1] # None => Reg(l, P(Line.g[1])) # Undef
    /\ Line.op \in LoadOps \cup StoreOps \cup { "shfl.idx" } =>
         \A l \in Doing : \A k \in DOMAIN Line.s : Sources(l)[k] # Undef

Succeeded == Over /\ fault = "none" /\ Kind # "entry"

(* When the code of the instructions is over, every active lane's copy of  *)
(* a scalar register holds what the instructions leave in that register,   *)
(* also when they go through a called function's blobs.  A program that    *)
(* makes an integer of a NaN is excepted: cvt gives 0, the instruction the *)
(* greatest integer.                                                       *)
ScalarsMatch ==
  Succeeded => \A l \in active : \A r \in XRegs \ {0} : Same(regs[l][X(r)], Expected.x[r])

(* So do the vector registers of every active lane, with the same          *)
(* exception; the other lanes keep theirs.                                 *)
VectorsMatch ==
  Succeeded =>
    \A l \in LaneIds : \A r \in VRegs :
      Same(regs[l][V(r)], IF l \in active THEN Expected.v[l][r] ELSE VAt(l, r))

(* Memory holds what the stores of the instructions put there, each at the *)
(* place in the shared or the global window that its address means, and is *)
(* otherwise as it was.                                                    *)
MemoryMatches ==
  Succeeded =>
    \A c \in DOMAIN mem \cup DOMAIN Expected.mem : ByteAt(mem, c) = ByteAt(Expected.mem, c)

(* A branch goes where its instruction goes in each lane, and the grid is  *)
(* stopped by a trap just when an address is below both windows or lane 0, *)
(* whose value vmv.x.s takes, is not active.                               *)
ControlMatches ==
  Over /\ Kind # "entry" =>
    /\ fault = Expected.fault
    /\ fault = "none" =>
         \A l \in active :
           IF Goto \in DOMAIN regs[l] THEN regs[l][Goto] = Wrap(Expected.goto[l]) ELSE Expected.goto[l] = Undef

(* The registers that identify the warp and the windows of memory are, at  *)
(* the end of every instruction and of the prologue, what the launch says: *)
(* the temporary registers of the same file do not overwrite them.         *)
ContextKept ==
  Over /\ fault = "none" =>
    \A l \in active : \A a \in DOMAIN Context(l) : a \in DOMAIN regs[l] /\ regs[l][a] = Context(l)[a]

(* After the prologue x2 is the stack of this warp and x8 the end of all   *)
(* their stacks in the shared window, x4 is 0, x3 the global pointer if    *)
(* there is one and x10 the word at knl + 4.  A pool of private memory     *)
(* below the global window stops the launch.  So does, at the warp of      *)
(* thread 0, one of no blocks or with a bitmap below that window: the      *)
(* other warps of such a block wait for that thread at a barrier and get   *)
(* no further, so nothing is said of their registers.                      *)
Asked   == Launch.pdsSize # 0
LowPool == Asked /\ Launch.pdsBase < GlobalBase
NoBlock == Asked /\ (Launch.pdsBlocks = 0 \/ Launch.pdsBitmap < GlobalBase)

EntryMatches ==
  LET word(n) == LoadAs(<< >>, "w", Device["knl_vaddr"] + n)
  IN  Over /\ Kind = "entry" =>
        /\ fault = IF LowPool \/ (NoBlock /\ Warp = 0) THEN "trap" ELSE "none"
        /\ ~LowPool /\ ~NoBlock =>
             \A l \in active :
               /\ regs[l][X(2)] = Wrap(SharedBase + Warp * word(56))
               /\ regs[l][X(4)] = 0
               /\ prog.gp # 0 => regs[l][X(3)] = prog.gp
               /\ regs[l][X(8)] = Wrap(SharedBase + WarpsOf(Shape) * word(56))
               /\ regs[l][X(10)] = word(4)
=============================================================================
