---------------------------- MODULE MC_Lowering ----------------------------
(* Programs for Lowering: each instruction of the translator, with the     *)
(* registers it is sensitive to.                                           *)
EXTENDS LoweringSpec

Both1 == { 0, 1 }
P1(kind, i)       == [kind |-> kind, lanes |-> Both1, insts |-> << i >>]
PL(kind, ls, is)  == [kind |-> kind, lanes |-> ls, insts |-> is]
IntValues  == << 0, 1, 2, 127, 128, 255, 7, 129 >>
FloatValues == << 0, 128, 1, 129, 48, 184, 111, 240, 124, 113 >>
RealValues == << 0, 128, 1, 48, 184, 111, 112, 240, 42, 86 >>
Addresses  == << 64, 100, 124, 128, 136, 252, 60, 0 >>

MCValues ==
  [int |-> IntValues, float |-> FloatValues, real |-> RealValues, addr |-> Addresses,
   few |-> << 5, 130, 255 >>, dim |-> << 0, 1, 2, 7 >>]

Launch1(shape, base, size, blocks, bitmap) ==
  [shape |-> shape, pdsBase |-> base, pdsSize |-> size, pdsBlocks |-> blocks, pdsBitmap |-> bitmap]
MCLaunches ==
  << Launch1(<< 3, 2, 1 >>, 140, 8, 2, 132), Launch1(<< 5, 1, 1 >>, 128, 4, 1, 128),
     Launch1(<< 2, 1, 3 >>, 100, 4, 2, 132), Launch1(<< 1, 2, 2 >>, 100, 0, 0, 0),
     Launch1(<< 3, 1, 1 >>, 140, 4, 0, 132), Launch1(<< 2, 2, 1 >>, 140, 4, 2, 127),
     Launch1(<< 3, 1, 1 >>, 127, 4, 0, 0) >>

Device1 == ("global_base" :> 1000) @@ ("shmem" :> 300) @@ ("knl_vaddr" :> 128) @@ ("wg_base" :> 200)
  @@ ("ctaid.x" :> 3) @@ ("ctaid.y" :> 4) @@ ("ctaid.z" :> 5)
  @@ ("nctaid.x" :> 6) @@ ("nctaid.y" :> 7) @@ ("nctaid.z" :> 8)

----------------------------------------------------------------------------
(* Scalar instructions.  x6, x1 and x2 hold the three values of an input.  *)
RR == { P1("int", I(<< n >>, 5, 6, 1, 0)) : n \in DOMAIN RCodes \ { "slli", "srli", "srai" } }
RI == { P1("int", I(<< n >>, 6, 6, 0, -3)) : n \in { "addi", "slti", "sltiu", "xori", "ori", "andi" } }
RS == { P1("int", I(<< n >>, 5, 6, 0, 3)) : n \in { "slli", "srli", "srai" } }
Odd ==
  { P1("int", I(<< "sub" >>, 6, 6, 1, 0)), P1("int", I(<< "sub" >>, 1, 6, 1, 0)),
     P1("int", I(<< "rem" >>, 6, 6, 6, 0)), P1("int", I(<< "div" >>, 1, 6, 1, 0)),
     P1("int", I(<< "sub" >>, 0, 6, 1, 0)), P1("int", I(<< "sub" >>, 5, 0, 1, 0)),
     P1("int", I(<< "sub" >>, 255, 40, 6, 0)), P1("int", I(<< "addi" >>, 40, 255, 0, 127)),
     P1("few", I(<< "lui" >>, 5, 0, 0, 21)), P1("few", I(<< "auipc" >>, 40, 0, 0, 3)),
     PL("few", Both1, << I(<< "addi" >>, 40, 6, 0, 4), I(<< "auipc" >>, 5, 0, 0, 2) >>) }
ScalarInts == RR \cup RI \cup RS \cup Odd

FNames1 == { << n, "s" >> : n \in DOMAIN ScalarFloat }
FModed == { << << n, "s" >>, rm >> : n \in { "fadd", "fmul", "fdiv", "fsqrt" }, rm \in { 1, 2, 3, 4 } }
(* To an integer, of numbers only: PTX makes 0 of a NaN, see NanPrograms.   *)
FConv  == { << "fcvt", "w", "s" >>, << "fcvt", "wu", "s" >> }
FBack  == { << "fcvt", "s", "w" >>, << "fcvt", "s", "wu" >> }
F1(kind, m, rm) == P1(kind, [I(m, 5, 6, 1, 0) EXCEPT !.rm = rm])
F3(m, rd, rm) == P1("real", [I(m, rd, 6, 1, 0) EXCEPT !.rs3 = 2, !.rm = rm])
ScalarFloats ==
  { F1("float", m, 7) : m \in FNames1 } \cup { F1("real", f[1], f[2]) : f \in FModed }
    \cup { F1("real", f[1], f[2]) : f \in FConv \X { 0, 1, 2, 3 } }
    \cup { F1("int", f[1], f[2]) : f \in FBack \X { 0, 1, 2, 3 } }
    \cup { F1("float", m, 0) : m \in { << "fsqrt", "s" >>, << "fclass", "s" >>, << "fmv", "x", "w" >>, << "fmv", "w", "x" >> } }
    \cup { F3(m, 5, 0) : m \in { << n, "s" >> : n \in DOMAIN FmaCodes } }
    \cup { F3(<< "fnmadd", "s" >>, 6, 2) }

Csr1 == { P1("few", I(<< "csrrs" >>, 5, 0, 0, n)) : n \in { 2048, 2049, 2050, 2051, 2053, 2054, 2055, 2056, 2057, 2058, 2059 } }

----------------------------------------------------------------------------
(* Memory.                                                                 *)
ScalarMem ==
  { P1("addr", I(m[1], 5, 6, 0, m[2])) : m \in { << << "lw" >>, 4 >>, << << "lb" >>, 3 >>, << << "lbu" >>, -1 >>, << << "lh" >>, 2 >>, << << "lhu" >>, -2 >>,
         << << "flw" >>, -4 >> } }
    \cup { P1("addr", I(m[1], 0, 6, 1, m[2])) : m \in { << << "sw" >>, 4 >>, << << "sb" >>, 3 >>, << << "sh" >>, -2 >>, << << "fsw" >>, -4 >> } }
    \cup { PL("addr", { 1 }, << I(<< "sw" >>, 0, 6, 1, 0), I(<< "lw" >>, 6, 6, 0, 0) >>),
          PL("addr", { 0 }, << I(<< "sb" >>, 0, 6, 1, 1), I(<< "sh" >>, 0, 6, 6, 2), I(<< "lw" >>, 5, 6, 0, 0) >>) }

VectorMem ==
  { P1("addr", I(m[1], 3, 1, 0, m[2])) : m \in { << << "vlw12", "v" >>, 4 >>, << << "vlb12", "v" >>, 3 >>, << << "vlbu12", "v" >>, -1 >>,
         << << "vlh12", "v" >>, 2 >>, << << "vlhu12", "v" >>, -2 >>, << << "vlw", "v" >>, 3 >> } }
    \cup { P1("addr", I(m[1], 0, 1, 35, m[2])) : m \in { << << "vsw12", "v" >>, 4 >>, << << "vsb12", "v" >>, 3 >>, << << "vsh12", "v" >>, -2 >>,
              << << "vsw", "v" >>, -4 >> } }
    \cup { PL("addr", { 1 }, << I(<< "vsw", "v" >>, 0, 1, 2, 4), I(<< "vlw", "v" >>, 1, 1, 0, 4) >>),
          PL("addr", { 0 }, << I(<< "vlw12", "v" >>, 1, 1, 0, 0) >>) }

----------------------------------------------------------------------------
(* Vector instructions: v3, v1 and v2 hold the three values, v0 the mask.  *)
Forms(names, suffixes) == { << n, s >> : n \in names, s \in suffixes }
Register == { "vadd", "vsub", "vminu", "vmin", "vmaxu", "vmax", "vand", "vor", "vxor", "vmul", "vmulh", "vmulhu",
              "vmulhsu", "vsll", "vsrl", "vsra", "vmseq", "vmsne", "vmsltu", "vmslt", "vmsleu", "vmsle" }
WithX    == Register \cup { "vmsgtu", "vmsgt", "vrsub" }
WithImm  == { "vadd", "vrsub", "vand", "vor", "vxor", "vmseq", "vmsne", "vmsleu", "vmsle", "vmsgtu", "vmsgt" }
Dividing == Forms({ "vdiv", "vdivu", "vrem", "vremu" }, { "vv", "vx" })
Mads     == Forms({ "vmadd", "vmacc", "vnmsub", "vnmsac" }, { "vv", "vx" })
Mask     == { << n, "mm" >> : n \in { "vmand", "vmandn", "vmor", "vmorn", "vmxor", "vmxnor" } }

V3(m, rd, rs1, rs2) == P1("int", I(m, rd, rs1, rs2, 0))
VectorInts ==
  { V3(m, 2, 1, 3) : m \in Forms(Register, { "vv" }) \cup Mask }
    \cup { V3(m, 3, 6, 1) : m \in Forms(WithX, { "vx" }) }
    \cup { P1("int", I(m, 2, 0, 1, -16)) : m \in Forms(WithImm, { "vi" }) }
    \cup { P1("int", I(m, 2, 0, 1, 5)) : m \in Forms({ "vsll", "vsrl", "vsra" }, { "vi" }) }
    \cup { V3(m, 1, 1, 3) : m \in Dividing } \cup { V3(m, 3, 1, 3) : m \in Dividing }
    \cup { V3(m, 2, 1, 3) : m \in Mads } \cup { V3(m, 1, 1, 1) : m \in Mads }
    \cup { V3(<< "vadd", "vv" >>, 35, 35, 35), V3(<< "vrem", "vv" >>, 1, 1, 1),
          V3(<< "vmulhsu", "vx" >>, 35, 40, 1), V3(<< "vsub", "vv" >>, 0, 0, 1),
          P1("int", I(<< "vadd", "vi" >>, 35, 0, 1, 60)), P1("int", I(<< "vand", "vi" >>, 1, 0, 35, -60)),
          P1("int", I(<< "vadd12", "vi" >>, 2, 1, 0, -100)), P1("int", I(<< "vsub12", "vi" >>, 1, 1, 0, 100)) }

VectorMoves ==
  { P1("few", I(<< "vmv", "v", "x" >>, 2, 6, 0, 0)), P1("few", I(<< "vmv", "v", "i" >>, 2, 0, 0, -5)),
     P1("few", I(<< "vfmv", "v", "f" >>, 35, 0, 0, 0)), P1("few", I(<< "vid", "v" >>, 2, 0, 0, 0)),
     P1("int", I(<< "vmv", "x", "s" >>, 5, 0, 1, 0)), PL("int", { 0 }, << I(<< "vmv", "x", "s" >>, 5, 0, 1, 0) >>),
     PL("few", { 1 }, << I(<< "vmv", "x", "s" >>, 5, 0, 1, 0) >>),
     V3(<< "vmerge", "vvm" >>, 2, 1, 3), V3(<< "vmerge", "vxm" >>, 0, 1, 2), V3(<< "vfmerge", "vfm" >>, 1, 6, 1),
     P1("int", I(<< "vmerge", "vim" >>, 2, 0, 1, 7)) }

VBinary == { "vfadd", "vfsub", "vfmul", "vfdiv", "vfmin", "vfmax", "vmfeq", "vmfne", "vmfle", "vmflt",
             "vfsgnj", "vfsgnjn", "vfsgnjx" }
VFused == Forms({ "vfmadd", "vfmsub", "vfnmadd", "vfnmsub", "vfmacc", "vfmsac", "vfnmacc", "vfnmsac" }, { "vv", "vf" })
(* As FConv, of numbers only.                                              *)
VFconv == { << "vfcvt", "xu", "f", "v" >>, << "vfcvt", "x", "f", "v" >>,
            << "vfcvt", "rtz", "xu", "f", "v" >>, << "vfcvt", "rtz", "x", "f", "v" >> }
VectorFloats ==
  { P1("float", I(m, 2, 1, 3, 0)) : m \in Forms(VBinary, { "vv" }) }
    \cup { P1("float", I(m, 1, 6, 1, 0)) : m \in Forms({ "vfrsub", "vfrdiv", "vmfgt", "vmfge", "vfsub", "vfdiv", "vmflt", "vmfle", "vfsgnjx", "vfsgnjn",
                    "vfsgnj", "vmfne" }, { "vf" }) }
    \cup { P1("real", I(m, 2, IF m[2] = "vv" THEN 3 ELSE 6, 1, 0)) : m \in VFused }
    \cup { P1("real", I(m, 1, 1, 35, 0)) : m \in VFused }
    \cup { P1("real", I(m, 2, 0, 1, 0)) : m \in VFconv }
    \cup { P1("int", I(m, 2, 0, 1, 0)) : m \in { << "vfcvt", "f", "xu", "v" >>, << "vfcvt", "f", "x", "v" >> } }
    \cup { P1("float", I(m, 1, 0, 1, 0)) : m \in { << "vfsqrt", "v" >>, << "vfclass", "v" >> } }

----------------------------------------------------------------------------
(* Control, calls and the entry.  The function at 64 + 8 k is number k.    *)
Functions == FoldSet(LAMBDA f, fs : Append(fs, f), << << "f" >> >>, Inlined)
MCSymbols == [a \in { 64 + 8 * k : k \in DOMAIN Functions } |-> Functions[(a - 64) \div 8]]

MCCallee ==
  << I(<< "csrrs" >>, 40, 0, 0, 2055), I(<< "addi" >>, 10, 10, 0, 1), I(<< "sub" >>, 255, 255, 40, 0),
     I(<< "vadd", "vx" >>, 0, 10, 35, 0), I(<< "vid", "v" >>, 35, 0, 0, 0), I(<< "jalr" >>, 0, 1, 0, 0) >>

Control ==
  { P1("int", I(<< n >>, 0, 6, 1, -8)) : n \in DOMAIN BCodes }
    \cup { P1("int", I(<< n >>, 0, 1, 3, 24)) : n \in VecB }
    \cup { P1("few", I(<< "vbne" >>, 0, 35, 1, 12)), P1("few", I(<< "jal" >>, 0, 0, 0, 40)),
          P1("few", I(<< "jal" >>, 0, 0, 0, -12)),
          PL("few", Both1, << I(<< "setrpc" >>, 0, 1, 0, 0), I(<< "barrier" >>, 0, 0, 0, 0), I(<< "join" >>, 0, 0, 0, 0) >>) }

CallOf(k) == I(<< "jal" >>, 1, 0, 0, 64 + 8 * k - Start)
Calls ==
  { P1("few", CallOf(1)), PL("few", { 1 }, << CallOf(1) >>) }
    \cup { P1(IF Functions[k + 1][1] \in { "fmax", "sqrt", "sqrt4" } THEN "float"
             ELSE IF Functions[k + 1][1] \in { "fabs4", "mad24" } THEN "int" ELSE "dim", CallOf(k + 1)) : k \in 1 .. Len(Functions) - 1 }

Entry == { [kind |-> "entry", lanes |-> Both1, insts |-> << >>, gp |-> gp] : gp \in { 0, 200 } }

MCProgs ==
  ScalarInts \cup ScalarFloats \cup Csr1 \cup ScalarMem \cup VectorMem \cup VectorInts \cup VectorMoves \cup VectorFloats
    \cup Control \cup Calls \cup Entry

(* The conversions to an integer, of NaNs as well.                          *)
NanPrograms ==
  { F1("float", m, 1) : m \in FConv } \cup { P1("float", I(m, 2, 0, 1, 0)) : m \in VFconv }

(* vmv.v.v vd, vs1.                                                        *)
MoveProgs == { P1("int", I(<< "vmv", "v", "v" >>, 2, 1, 0, 0)) }
=============================================================================
