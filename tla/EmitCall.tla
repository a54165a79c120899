------------------------------ MODULE EmitCall ------------------------------
(***************************************************************************)
(* Calls, function entries and exits, and the choice of an emitter for an  *)
(* instruction, in src/sbt/ptx_emit.cpp.  The sine, cosine and tangent     *)
(* that PTX approximates are left out.  The code of the pool of private    *)
(* memory is one line here: PdsPool has its steps.                         *)
(***************************************************************************)
EXTENDS EmitVector

(* The functions that are emitted as code in place.                        *)
GetIds == [get_global_id |-> "global", get_local_id |-> "local", get_group_id |-> "group"]
WorkIds ==
  { << kind, axis >> : kind \in { "workitem_id", "workgroup_id", "global_id" }, axis \in { "x", "y", "z" } }
Inlined ==
  { << f >> : f \in DOMAIN GetIds \cup { "get_global_size", "fmax", "sqrt", "sqrt4", "fabs4", "mad24" } }
    \cup WorkIds

Tid(a)    == Special("tid." \o a)
NTid(a)   == Special("ntid." \o a)
CtaId(a)  == Special("ctaid." \o a)
NCtaId(a) == Special("nctaid." \o a)

(* The identifier of kind on an axis, to v0.                               *)
IdOn(kind, a) ==
  CASE kind \in { "local", "workitem_id" }  -> << Mov(V(0), Tid(a)) >>
    [] kind \in { "group", "workgroup_id" } -> << Mov(V(0), CtaId(a)) >>
    [] kind \in { "global", "global_id" }   ->
         << Mov(R(21), Tid(a)), Mov(R(22), NTid(a)), Mov(R(23), CtaId(a)),
            L("mul.lo.u32", R(24), << R(23), R(22) >>), L("add.u32", R(24), << R(24), R(21) >>),
            Mov(V(0), R(24)) >>

(* One of three pieces of code by the number in v0, or the default.        *)
ByDim(default, x, y, z) ==
  << Mov(R(20), V(0)),
     L("setp.eq.u32", P(5), << R(20), Imm(0) >>), If(5, Jump("dim0")),
     L("setp.eq.u32", P(6), << R(20), Imm(1) >>), If(6, Jump("dim1")),
     L("setp.eq.u32", P(7), << R(20), Imm(2) >>), If(7, Jump("dim2")),
     Mov(V(0), Imm(default)), Jump("done"), Label("dim0") >>
    \o x \o << Jump("done"), Label("dim1") >> \o y \o << Jump("done"), Label("dim2") >> \o z
    \o << Jump("done"), Label("done") >>

GetId(kind) == ByDim(0, IdOn(kind, "x"), IdOn(kind, "y"), IdOn(kind, "z"))

SizeOn(a) ==
  << Mov(R(21), NTid(a)), Mov(R(22), NCtaId(a)), L("mul.lo.u32", R(23), << R(21), R(22) >>),
     Mov(V(0), R(23)) >>

GetGlobalSize == ByDim(1, SizeOn("x"), SizeOn("y"), SizeOn("z"))

Fmax ==
  << L("mov.b32", F(0), << V(0) >>), L("mov.b32", F(1), << V(1) >>) >> \o MinMax("max.f32")
    \o << L("mov.b32", V(0), << F(2) >>) >>

SqrtInPlace(i) ==
  << L("mov.b32", F(0), << V(i) >>), LRm("sqrt.f32", "rn", F(1), << F(0) >>), L("mov.b32", V(i), << F(1) >>) >>

FabsInPlace(i) == << L("and.b32", V(i), << V(i), Imm(MagMask) >>) >>

(* The low three quarters of two words, signed, multiplied.                *)
Mad24 ==
  LET signed(r) == << L("shl.b32", R(r), << R(r), Imm(W \div 4) >>), L("shr.s32", R(r), << R(r), Imm(W \div 4) >>) >>
  IN  << L("mov.b32", R(14), << V(0) >>), L("mov.b32", R(15), << V(1) >>), L("mov.b32", R(16), << V(2) >>) >>
        \o signed(14) \o signed(15)
        \o << L("mad.lo.s32", R(14), << R(14), R(15), R(16) >>), L("mov.b32", V(0), << R(14) >>) >>

Inline(callee) ==
  CASE callee[1] \in DOMAIN GetIds    -> GetId(GetIds[callee[1]])
    [] callee \in WorkIds             -> IdOn(callee[1], callee[2])
    [] callee = << "get_global_size" >> -> GetGlobalSize
    [] callee = << "fmax" >>          -> Fmax
    [] callee = << "sqrt" >>          -> SqrtInPlace(0)
    [] callee = << "sqrt4" >>         -> FlattenSeq([i \in 1 .. 4 |-> SqrtInPlace(i - 1)])
    [] callee = << "fabs4" >>         -> FlattenSeq([i \in 1 .. 4 |-> FabsInPlace(i - 1)])
    [] callee = << "mad24" >>         -> Mad24

----------------------------------------------------------------------------
(* What a call passes: words at byte offsets in blobs of its own.          *)
Param(blob, offset) == << "param", blob, offset >>
StParam(blob, offset, s) == L("mov.b32", Param(blob, offset), << s >>)
LdParam(d, blob, offset) == L("mov.b32", d, << Param(blob, offset) >>)

NumXRegs == 256

MutableXOffset == 4
MutableVOffset == MutableXOffset + NumXRegs * 4

InOrder(set) ==
  [k \in 1 .. Cardinality(set) |-> CHOOSE n \in set : Cardinality({ m \in set : m < n }) = k - 1]

StoreMutable(blob) ==
  LET xs == InOrder(XRegs \ { 0 })
      vs == InOrder(VRegs)
  IN  SelectLeader
        \o << StParam(blob, 0, R(2)), Mov(R(31), Imm(0)), StParam(blob, MutableXOffset, R(31)) >>
        \o [k \in DOMAIN xs |-> StParam(blob, MutableXOffset + xs[k] * 4, X(xs[k]))]
        \o [k \in DOMAIN vs |-> StParam(blob, MutableVOffset + vs[k] * 4, V(vs[k]))]

RestoreMutable(blob) ==
  LET xs == InOrder(XRegs \ { 0 })
      vs == InOrder(VRegs)
  IN  << LdParam(R(2), blob, 0), RefreshLeader >>
        \o [k \in DOMAIN xs |-> LdParam(X(xs[k]), blob, MutableXOffset + xs[k] * 4)]
        \o [k \in DOMAIN vs |-> LdParam(V(vs[k]), blob, MutableVOffset + vs[k] * 4)]

(* knl, pds_base, pds_size, warp_id and warps_per_block, in words.         *)
MachineRegs == << 30, 28, 29, 10, 12 >>
StoreMachine(blob) == [k \in 1 .. 5 |-> StParam(blob, 4 * (k - 1), R(MachineRegs[k]))]
LoadMachine(blob)  == [k \in 1 .. 5 |-> LdParam(R(MachineRegs[k]), blob, 4 * (k - 1))]

DirectCall(callee) ==
  StoreMutable("call_mutable_in") \o StoreMachine("call_machine")
    \o << StParam("call_runtime", 0, RD(0)),
          L("call", << "param", "call_mutable_out" >>,
            << << "func", callee >>, << "param", "call_mutable_in" >>, << "param", "call_machine" >>,
               << "param", "call_runtime" >> >>) >>
    \o RestoreMutable("call_mutable_out")

FuncPrologue ==
  << Mov(R(0), Special("laneid")), LdParam(RD(0), "runtime_env_in", 0) >>
    \o LoadMachine("machine_ctx_in")
    \o << L("mov.u64", RD(2), << Special("shmem") >>), L("mov.u64", RD(3), << Imm(0) >>) >>
    \o RestoreMutable("mutable_state_in")

(* endprg and ret in a function that is not the entry.                     *)
FuncReturn == StoreMutable("mutable_state_out") \o << L("ret", NoReg, << >>) >>

EmitCallTo(di, pc) ==
  LET target == pc + di.imm
  IN  IF target \notin DOMAIN Symbols THEN Unsupported
      ELSE << Mov(R(14), Imm(pc + 4)) >> \o StX(di.rd, R(14))
             \o (IF Symbols[target] \in Inlined THEN Inline(Symbols[target]) ELSE DirectCall(Symbols[target]))

----------------------------------------------------------------------------
(* The entry.  emit_entry_pds_pool_acquire reads the number of the thread, *)
(* the size it asks for, the blocks of the pool and the base of its        *)
(* bitmap; what it leaves in the registers it uses is not known.           *)
AcquireScratch ==
  { R(15), R(16) } \cup { R(i) : i \in 18 .. 25 } \cup { RD(15), RD(16), RD(18) } \cup { P(i) : i \in 6 .. 8 }

Acquire == << L("pds.acquire", NoReg, << R(9), R(29), R(27), R(26) >>) >>

LdKernelParam(r, name) == Mov(R(r), Special(name))

(* thread linear id, warp_id_in_block and warps_per_block.                 *)
ThreadIds ==
  << Mov(R(0), Special("laneid")),
     Mov(R(3), Special("tid.x")), Mov(R(4), Special("tid.y")), Mov(R(5), Special("tid.z")),
     Mov(R(6), Special("ntid.x")), Mov(R(7), Special("ntid.y")), Mov(R(8), Special("ntid.z")),
     L("mul.lo.u32", R(9), << R(7), R(5) >>), L("add.u32", R(9), << R(9), R(4) >>),
     L("mul.lo.u32", R(9), << R(9), R(6) >>), L("add.u32", R(9), << R(9), R(3) >>),
     L("shr.u32", R(10), << R(9), Imm(LogWarp) >>),
     L("mul.lo.u32", R(11), << R(6), R(7) >>), L("mul.lo.u32", R(11), << R(11), R(8) >>),
     L("add.u32", R(12), << R(11), Imm(2^LogWarp - 1) >>), L("shr.u32", R(12), << R(12), Imm(LogWarp) >>) >>

(* Mutant: the base is added to the number of the warp.                    *)
StackBaseSwapped(x, n) ==
  << L("add.u32", R(15), << n, Imm(SharedBase) >>), L("mul.lo.u32", R(15), << R(15), R(17) >>) >> \o StX(x, R(15))

(* shared_base and n times the stack of a warp, to x.                      *)
StackBase(x, n) ==
  << L("mul.lo.u32", R(15), << n, R(17) >>), L("add.u32", R(15), << R(15), Imm(SharedBase) >>) >> \o StX(x, R(15))

(* x3, if the file has a __global_pointer$.                                *)
SetGp(gp) == IF gp = 0 THEN << >> ELSE << Mov(R(15), Imm(gp)) >> \o StX(3, R(15))

Prologue(gp) ==
  << L("mov.u64", RD(0), << Special("global_base") >>), LdKernelParam(30, "knl_vaddr"),
     LdKernelParam(28, "pds_base_vaddr"), LdKernelParam(29, "pds_size_per_thread"),
     LdKernelParam(26, "pds_bitmap_base_vaddr"), LdKernelParam(27, "pds_pool_num_blocks") >>
    \o LoadKnl(R(17), 56) \o ThreadIds
    \o << L("mov.u64", RD(2), << Special("shmem") >>),
          L("mul.lo.u32", R(13), << R(10), R(17) >>), L("cvt.u64.u32", RD(13), << R(13) >>),
          L("add.u64", RD(3), << RD(2), RD(13) >>), L("mov.u64", RD(3), << Imm(0) >>) >>
    \o SelectLeader
    \o << L("setp.lt.u32", P(1), << R(28), Imm(GlobalBase) >>),
          L("setp.ne.u32", P(2), << R(29), Imm(0) >>),
          L("and.pred", P(1), << P(1), P(2) >>), If(1, L("trap", NoReg, << >>)) >>
    \o Acquire \o << Mov(R(15), Imm(0)) >> \o StX(4, R(15)) \o SetGp(gp)
    \o StackBase(2, R(10)) \o StackBase(8, R(12))
    \o LoadKnl(R(17), 4) \o StX(10, R(17)) \o WarpSync

----------------------------------------------------------------------------
(* emit_one_inst: the emitter of each name, tried in the order of the code.*)
NoOps == { "setrpc", "join", "vsetvli" }
Csrs  == { "csrrw", "csrrs", "csrrc", "csrrwi", "csrrsi", "csrrci" }

EmitScalarFp(di) ==
  LET n == di.name[1]
  IN  CASE n = "fmv" -> << LdX(R(14), di.rs1) >> \o StX(di.rd, R(14))
        [] n \in { "fsgnj", "fsgnjn", "fsgnjx" } -> EmitFsgnj(di)
        [] n \in { "fmin", "fmax" }  -> EmitFminmax(di)
        [] n \in DOMAIN FpCmp        -> EmitFpCmp(di)
        [] n = "fclass"              -> EmitFclass(di)
        [] ~RmKnown(di)              -> Unsupported
        [] n \in DOMAIN FpOp         -> EmitFpArith(di)
        [] n = "fsqrt"               -> EmitFsqrt(di)
        [] n \in { "fmadd", "fmsub", "fnmsub", "fnmadd" } -> EmitFma(di)
        [] n = "fcvt"                -> EmitFcvt(di)

EmitScalar(di, pc) ==
  LET n == di.name[1]
  IN  CASE n \in Csrs                 -> EmitCsr(di)
        [] n \in DOMAIN LoadWidth     -> EmitScalarLoad(di)
        [] n \in DOMAIN StoreWidth    -> EmitScalarStore(di)
        [] n \in DOMAIN AluOp         -> EmitAlu(di)
        [] n \in DOMAIN AluImmOp      -> EmitAluImm(di)
        [] n \in DOMAIN ShiftOp       -> EmitShift(di)
        [] n = "mulhsu"               -> EmitMulhsu(di)
        [] n \in { "div", "divu", "rem", "remu" }    -> EmitDiv(di)
        [] n \in { "lui", "auipc" }   -> EmitUpper(di, pc)
        [] n \in { "slt", "sltu", "slti", "sltiu" }  -> EmitSlt(di)
        [] n = "jal" /\ di.rd = 0     -> EmitJump(di, pc)
        [] n = "jal"                  -> EmitCallTo(di, pc)
        [] n = "jalr" /\ di.rd = 0 /\ di.rs1 = 1 /\ di.imm = 0 -> FuncReturn
        [] OTHER                      -> Unsupported

EmitVectorInt(di) ==
  LET n == di.name[1]
  IN  CASE n \in DOMAIN VecOp         -> EmitVecAlu(di)
        [] n = "vrsub"                -> EmitVecReverse(di)
        [] n \in { "vadd12", "vsub12" } -> EmitVec12(di)
        [] n \in DOMAIN VecShift      -> EmitVecShift(di)
        [] n = "vmulhsu"              -> EmitVecMulhsu(di)
        [] n \in { "vdiv", "vdivu", "vrem", "vremu" }      -> EmitVecDiv(di)
        [] n \in { "vmadd", "vmacc", "vnmsub", "vnmsac" }  -> EmitVecMad(di)
        [] n \in DOMAIN VecCmp        -> EmitVecCmp(di)
        [] n = "vmerge" \/ n = "vfmerge" -> EmitMerge(di)
        [] n \in { "vlw", "vsw" }     -> EmitPrivate(di)
        [] n \in DOMAIN VecLoadWidth  -> EmitVecLoad(di)
        [] n \in DOMAIN VecStoreWidth -> EmitVecStore(di)
        [] Suffix(di) = "mm"          -> EmitMaskOp(di)
        [] OTHER                      -> Unsupported

EmitVectorFp(di) ==
  LET n == di.name[1]
  IN  CASE n \in DOMAIN VecFloatCmp   -> EmitVecFloatCmp(di)
        [] n \in DOMAIN VecFloatOp    -> EmitVecFloat(di)
        [] n = "vfcvt"                -> EmitVfcvt(di)
        [] n = "vfclass"              -> EmitVfclass(di)
        [] n = "vfsqrt"               -> EmitVfsqrt(di)
        [] n \in { "vfsgnj", "vfsgnjn", "vfsgnjx" } -> EmitVfsgnj(di)
        [] n \in { "vfmadd", "vfmsub", "vfnmadd", "vfnmsub",
                   "vfmacc", "vfmsac", "vfnmacc", "vfnmsac" } -> EmitVecFma(di)
        [] OTHER                      -> EmitVectorInt(di)

ScalarFpNames ==
  { "fmv", "fsgnj", "fsgnjn", "fsgnjx", "fmin", "fmax", "fclass", "fsqrt", "fcvt",
    "fmadd", "fmsub", "fnmsub", "fnmadd" } \cup DOMAIN FpCmp \cup DOMAIN FpOp

Emit(di, pc) ==
  LET n == di.name[1]
  IN  CASE n \in NoOps                -> << >>
        [] n = "endprg"               -> FuncReturn
        [] n = "barrier"              -> << L("bar.sync", NoReg, << >>) >>
        [] n \in DOMAIN BranchKind    -> EmitBranch(di, pc)
        [] n \in ScalarFpNames        -> EmitScalarFp(di)
        [] di.name = << "vmv", "x", "s" >> -> EmitVmvXS(di)
        [] n \in { "vmv", "vfmv", "vid" } -> EmitVmv(di)
        [] Len(di.name) > 1           -> EmitVectorFp(di)
        [] OTHER                      -> EmitScalar(di, pc)
=============================================================================
