----------------------------- MODULE DecodeOne -----------------------------
(***************************************************************************)
(* The operands of one instruction: decode_one, classify_by_name and       *)
(* decode_scalar of src/sbt/riscv_decode.cpp, and the prefix fields that   *)
(* decode_text hands to them.                                              *)
(*                                                                         *)
(* A word is its fields.  A word of the Ventus and vector patterns carries *)
(* the name of the pattern it matches; names are split at the underlines.  *)
(***************************************************************************)
EXTENDS Integers, Sequences

None == -1

Fields(pat, op, rd, f3, rs1, rs2, f7) ==
  [pat |-> pat, op |-> op, rd |-> rd, f3 |-> f3, rs1 |-> rs1, rs2 |-> rs2, f7 |-> f7]

(* sext: the low bits of n, signed.                                        *)
Sext(n, bits) ==
  LET low == n % 2^bits IN IF low < 2^(bits - 1) THEN low ELSE low - 2^bits

ImmI(w) == w.f7 * 32 + w.rs2

(* Mutant: the destination field is not part of the offset of a store.     *)
ImmStoreAsLoad(w) == ImmI(w)

ImmS(w) == w.f7 * 32 + w.rd

(* Mutant: bit 11 stays where the stores have it.                          *)
ImmBranchAsStore(w) == (w.f7 \div 64) * 4096 + (w.f7 % 64) * 32 + w.rd

ImmB(w) ==
  (w.f7 \div 64) * 4096 + (w.rd % 2) * 2048 + (w.f7 % 64) * 32 + (w.rd \div 2) * 2

(* Counted in units of 2^12.                                               *)
ImmU(w) == w.f7 * 8192 + w.rs2 * 256 + w.rs1 * 8 + w.f3

ImmJ(w) ==
  (w.f7 \div 64) * 2^20 + (w.rs1 * 8 + w.f3) * 4096 + (w.rs2 % 2) * 2048
    + (w.f7 % 64) * 32 + (w.rs2 \div 2) * 2

----------------------------------------------------------------------------
VBranches == { "vbeq", "vbne", "vblt", "vbge", "vbltu", "vbgeu" }
Loads     == { "vlw12", "vlb12", "vlbu12", "vlh12", "vlhu12", "vlw" }
Stores    == { "vsw12", "vsb12", "vsh12", "vsw" }

(* The register files of the operands and the kind of the immediate.       *)
Form(rd, rs1, rs2, kind) == [rd |-> rd, rs1 |-> rs1, rs2 |-> rs2, kind |-> kind]

Classify(name) ==
  LET stem == name[1]
      ends(suffixes) == Len(name) > 1 /\ name[Len(name)] \in suffixes
  IN  CASE stem \in { "setrpc", "barrier" }                -> Form("x", "x", "none", "i12")
        [] stem \in { "regext", "regexti", "vsetvli" }     -> Form("x", "x", "none", "raw12")
        [] stem \in { "join", "endprg" }                   -> Form("x", "x", "x", "none")
        [] stem \in VBranches                              -> Form("none", "v", "v", "b13")
        [] stem \in Loads                                  -> Form("v", "v", "none", "i12")
        [] stem \in Stores                                 -> Form("none", "v", "v", "s12")
        [] stem = "vid"                                    -> Form("v", "none", "none", "none")
        [] name \in { << "vmv", "v", "x" >>, << "vmv", "s", "x" >>, << "vfmv", "v", "f" >> }
                                                           -> Form("v", "x", "none", "none")
        [] name = << "vmv", "v", "i" >>                    -> Form("v", "none", "none", "simm5")
        [] name = << "vmv", "x", "s" >>                    -> Form("x", "none", "v", "none")
        [] stem \in { "vadd12", "vsub12" }                 -> Form("v", "v", "none", "i12")
        [] ends({ "vvm", "vv", "mm" })                     -> Form("v", "v", "v", "none")
        [] ends({ "vxm", "vfm", "vx", "vf" })              -> Form("v", "x", "v", "none")
        [] ends({ "vim" })                                 -> Form("v", "none", "v", "simm5")
        [] ends({ "vi" }) /\ stem \in { "vsll", "vsrl", "vsra" }
                                                           -> Form("v", "none", "v", "uimm5")
        [] ends({ "vi" })                                  -> Form("v", "none", "v", "simm5")
        [] ends({ "v" })                                   -> Form("v", "none", "v", "none")
        [] OTHER                                           -> Form("none", "none", "none", "none")

(* The immediate of a pattern word; vlw.v and vsw.v have eleven bits.      *)
ImmOf(name, kind, w) ==
  CASE kind = "i12" /\ name[1] = "vlw" -> Sext(ImmI(w), 11)
    [] kind = "i12"                    -> Sext(ImmI(w), 12)
    [] kind = "s12" /\ name[1] = "vsw" -> Sext((w.f7 % 64) * 32 + w.rd, 11)
    [] kind = "s12"                    -> Sext(ImmS(w), 12)
    [] kind = "b13"                    -> Sext(ImmB(w), 13)
    [] kind = "raw12"                  -> ImmI(w)
    [] kind = "uimm5"                  -> w.rs1
    [] kind = "simm5"                  -> Sext(w.rs1, 5)
    [] OTHER                           -> 0

----------------------------------------------------------------------------
(* The instruction as the emitter gets it.                                 *)
Inst(name, form, w, imm, rs3, rm) ==
  [name |-> name, form |-> form, imm |-> imm, rm |-> rm, rs3 |-> rs3,
   rd  |-> IF form.rd  = "none" THEN None ELSE w.rd,
   rs1 |-> IF form.rs1 = "none" THEN None ELSE w.rs1,
   rs2 |-> IF form.rs2 = "none" THEN None ELSE w.rs2]

NoRm == None

Unknown(w) == Inst(<< "unknown" >>, Form("none", "none", "none", "none"), w, 0, None, NoRm)

RForm == Form("x", "x", "x", "none")
UnaryForm == Form("x", "x", "none", "none")

(* LOAD-FP, STORE-FP, the fused multiply-adds, and OP-FP by funct7; a name *)
(* of one word is not a floating-point instruction.                        *)
FpLoadStore(w) ==
  IF w.op = 7 THEN Inst(<< "flw" >>, Form("x", "x", "none", "i12"), w, Sext(ImmI(w), 12), None, NoRm)
              ELSE Inst(<< "fsw" >>, Form("none", "x", "x", "s12"), w, Sext(ImmS(w), 12), None, NoRm)

FmaName(op) ==
  CASE op = 67 -> "fmadd" [] op = 71 -> "fmsub" [] op = 75 -> "fnmsub" [] op = 79 -> "fnmadd"

(* rs3 is in bits 31 to 27, the format in bits 26 and 25.                  *)
Fma(w) == Inst(<< FmaName(w.op), "s" >>, RForm, w, 0, w.f7 \div 4, w.f3)

FpNamed(w) ==
  CASE w.f7 = 0                   -> << << "fadd", "s" >>, TRUE >>
    [] w.f7 = 4                   -> << << "fsub", "s" >>, TRUE >>
    [] w.f7 = 8                   -> << << "fmul", "s" >>, TRUE >>
    [] w.f7 = 12                  -> << << "fdiv", "s" >>, TRUE >>
    [] w.f7 = 44 /\ w.rs2 = 0     -> << << "fsqrt", "s" >>, TRUE >>
    [] w.f7 = 16 /\ w.f3 \in 0..2 -> << << << "fsgnj", "fsgnjn", "fsgnjx" >>[w.f3 + 1], "s" >>, FALSE >>
    [] w.f7 = 20 /\ w.f3 \in 0..1 -> << << << "fmin", "fmax" >>[w.f3 + 1], "s" >>, FALSE >>
    [] w.f7 = 80 /\ w.f3 \in 0..2 -> << << << "fle", "flt", "feq" >>[w.f3 + 1], "s" >>, FALSE >>
    [] OTHER                      -> << << "none" >>, FALSE >>

FpUnary(w) ==
  CASE w.f7 = 96  /\ w.rs2 = 0              -> << << "fcvt", "w", "s" >>, TRUE >>
    [] w.f7 = 96  /\ w.rs2 = 1              -> << << "fcvt", "wu", "s" >>, TRUE >>
    [] w.f7 = 104 /\ w.rs2 = 0              -> << << "fcvt", "s", "w" >>, TRUE >>
    [] w.f7 = 104 /\ w.rs2 = 1              -> << << "fcvt", "s", "wu" >>, TRUE >>
    [] w.f7 = 112 /\ w.rs2 = 0 /\ w.f3 = 0  -> << << "fmv", "x", "w" >>, FALSE >>
    [] w.f7 = 112 /\ w.rs2 = 0 /\ w.f3 = 1  -> << << "fclass", "s" >>, FALSE >>
    [] w.f7 = 120 /\ w.rs2 = 0 /\ w.f3 = 0  -> << << "fmv", "w", "x" >>, FALSE >>
    [] OTHER                                -> << << "none" >>, FALSE >>

Rm(named, w) == IF named[2] THEN w.f3 ELSE NoRm

IsFp(w) ==
  \/ w.op \in { 7, 39 } /\ w.f3 = 2
  \/ w.op \in { 67, 71, 75, 79 } /\ w.f7 % 4 = 0
  \/ w.op = 83 /\ (FpNamed(w)[1] # << "none" >> \/ FpUnary(w)[1] # << "none" >>)

DecodeFp(w) ==
  CASE w.op \in { 7, 39 } -> FpLoadStore(w)
    [] w.op # 83          -> Fma(w)
    [] FpNamed(w)[1] # << "none" >>
                          -> Inst(FpNamed(w)[1], RForm, w, 0, None, Rm(FpNamed(w), w))
    [] OTHER              -> Inst(FpUnary(w)[1], UnaryForm, w, 0, None, Rm(FpUnary(w), w))

----------------------------------------------------------------------------
(* The integer opcodes: names by funct3, "none" where there is none.       *)
BranchNames == << "beq", "bne", "none", "none", "blt", "bge", "bltu", "bgeu" >>
LoadNames   == << "lb", "lh", "lw", "none", "lbu", "lhu", "none", "none" >>
StoreNames  == << "sb", "sh", "sw", "none", "none", "none", "none", "none" >>
MNames      == << "mul", "mulh", "mulhsu", "mulhu", "div", "divu", "rem", "remu" >>
CsrNames    == << "none", "csrrw", "csrrs", "csrrc", "csr", "csrrwi", "csrrsi", "csrrci" >>

ImmNames(f7) ==
  << "addi", IF f7 = 0 THEN "slli" ELSE "none", "slti", "sltiu", "xori",
     CASE f7 = 0 -> "srli" [] f7 = 32 -> "srai" [] OTHER -> "none", "ori", "andi" >>

(* Only add, sub and the right shifts look at funct7.                      *)
OpNames(f7) ==
  << CASE f7 = 0 -> "add" [] f7 = 32 -> "sub" [] OTHER -> "none", "sll", "slt", "sltu", "xor",
     CASE f7 = 0 -> "srl" [] f7 = 32 -> "sra" [] OTHER -> "none", "or", "and" >>

Named(name, form, w, imm) ==
  IF name = "none" THEN Unknown(w) ELSE Inst(<< name >>, form, w, imm, None, NoRm)

DecodeInt(w) ==
  LET n == w.f3 + 1
      iForm(kind) == Form("x", "x", "none", kind)
  IN  CASE w.op = 55  -> Named("lui", Form("x", "none", "none", "u20"), w, ImmU(w))
        [] w.op = 23  -> Named("auipc", Form("x", "none", "none", "u20"), w, ImmU(w))
        [] w.op = 111 -> Named("jal", Form("x", "none", "none", "j21"), w, Sext(ImmJ(w), 21))
        [] w.op = 103 -> Named(IF w.f3 = 0 THEN "jalr" ELSE "none", iForm("i12"), w, Sext(ImmI(w), 12))
        [] w.op = 99  -> Named(BranchNames[n], Form("none", "x", "x", "b13"), w, Sext(ImmB(w), 13))
        [] w.op = 3   -> Named(LoadNames[n], iForm("i12"), w, Sext(ImmI(w), 12))
        [] w.op = 35  -> Named(StoreNames[n], Form("none", "x", "x", "s12"), w, Sext(ImmS(w), 12))
        [] w.op = 19  -> Named(ImmNames(w.f7)[n], iForm("i12"), w,
                               IF w.f3 \in { 1, 5 } THEN w.rs2 ELSE Sext(ImmI(w), 12))
        [] w.op = 51  -> Named(IF w.f7 = 1 THEN MNames[n] ELSE OpNames(w.f7)[n], RForm, w, 0)
        [] w.op = 115 /\ w.f3 = 0 -> Named("system", Form("none", "none", "none", "none"), w, 0)
        [] w.op = 115 -> Named(CsrNames[n], Form("x", IF w.f3 >= 5 THEN "none" ELSE "x", "none", "csr12"),
                               w, ImmI(w))
        [] OTHER      -> Unknown(w)

----------------------------------------------------------------------------
(* A prefix word and its twelve bits.                                      *)
NoPrefix == [valid |-> FALSE, rd |-> 0, rs1 |-> 0, rs2 |-> 0, rs3 |-> 0, imm |-> None]

PrefixOf(w) ==
  LET bits == ImmI(w)
      three(n) == (bits \div 2^n) % 8
  IN  IF w.pat = << "regext" >>
        THEN [valid |-> TRUE, rd |-> three(0), rs1 |-> three(3), rs2 |-> three(6),
              rs3 |-> three(9), imm |-> None]
        ELSE [valid |-> TRUE, rd |-> three(0), rs1 |-> 0, rs2 |-> three(3), rs3 |-> 0,
              imm |-> bits \div 64]

(* ext_apply on the registers there are; regexti adds six bits above the   *)
(* five of an immediate.                                                   *)
Extend(di, px, w) ==
  LET extended(r, e) == IF r = None THEN None ELSE r + 32 * e
  IN  [di EXCEPT !.rd = extended(@, px.rd), !.rs1 = extended(@, px.rs1),
                 !.rs2 = extended(@, px.rs2), !.rs3 = extended(@, px.rs3),
                 !.imm = IF px.imm # None /\ di.form.kind \in { "uimm5", "simm5" }
                           THEN Sext(px.imm, 6) * 32 + w.rs1 ELSE @]

Decode(w, px) ==
  LET form == Classify(w.pat)
      plain == IF w.pat # << >>
                 THEN Inst(w.pat, form, w, ImmOf(w.pat, form.kind, w), None, NoRm)
                 ELSE IF IsFp(w) THEN DecodeFp(w) ELSE DecodeInt(w)
  IN  IF px.valid THEN Extend(plain, px, w) ELSE plain

(* One instruction, with or without a prefix word before it.               *)
DecodeWords(words) ==
  IF Len(words) = 2 THEN Decode(words[2], PrefixOf(words[1])) ELSE Decode(words[1], NoPrefix)
=============================================================================
