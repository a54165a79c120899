---------------------------- MODULE RegextDecode ---------------------------
(***************************************************************************)
(* decode_text of src/sbt/riscv_decode.cpp: the pass over the words of a   *)
(* function that bundles a regext or regexti prefix with the next word.    *)
(* A prefix word carries in target, rd, rs1 and rs2 its extensions of the  *)
(* immediate and of the registers.                                         *)
(***************************************************************************)
EXTENDS Integers, Sequences, Isa

NoPrefix == 0

IsRegext(w) == w.op \in {"regext", "regexti"}

(* ext_apply: three more bits above the five a word has for a register.    *)
Ext(r, e) == r + 32 * e

(* The word with its registers extended; regexti has no bits for rs1.      *)
Extended(w, p) ==
  [w EXCEPT !.rd  = Ext(@, p.rd),
            !.rs1 = IF p.op = "regext" THEN Ext(@, p.rs1) ELSE @,
            !.rs2 = Ext(@, p.rs2)]

(* The decoder's state after the words before pc: the bundles so far, the  *)
(* prefix that waits for its word and the pc it stands at, the error.      *)
Start(lo) == [pc |-> lo, out |-> << >>, at |-> NoPrefix, prefix |-> Plain("none"), err |-> "none"]

(* Mutant: the extensions stay after the word they were for.               *)
StaleExtensions(s, w) ==
  LET has == s.at # NoPrefix
  IN  [s EXCEPT !.out = Append(@, [pc |-> IF has THEN s.at ELSE s.pc, inst_pc |-> s.pc,
                                   inst |-> Extended(w, s.prefix)]),
                !.at = NoPrefix]

(* decode_one, and px = RegextPrefix{} after it.                           *)
Bundle(s, w) ==
  LET has == s.at # NoPrefix
  IN  [s EXCEPT !.out = Append(@, [pc |-> IF has THEN s.at ELSE s.pc, inst_pc |-> s.pc,
                                   inst |-> IF has THEN Extended(w, s.prefix) ELSE w]),
                !.at = NoPrefix]

DecodeWord(bundleRegext, requireKnown, s, w) ==
  LET next == IF bundleRegext /\ IsRegext(w)
                THEN IF s.at # NoPrefix
                       THEN [s EXCEPT !.err = "nested"]
                       ELSE [s EXCEPT !.at = s.pc, !.prefix = w]
                ELSE IF requireKnown /\ w.op = "unknown"
                       THEN [s EXCEPT !.err = "unknown"]
                       ELSE Bundle(s, w)
  IN  IF s.err # "none" THEN s ELSE [next EXCEPT !.pc = s.pc + 1]

(* The states of the pass: after its first i words, for every i.           *)
Scan(bundleRegext, requireKnown, words, lo) ==
  LET after[i \in 0 .. Len(words)] ==
        IF i = 0 THEN Start(lo)
                 ELSE DecodeWord(bundleRegext, requireKnown, after[i - 1], words[i])
  IN  after

Decode(bundleRegext, requireKnown, words, lo) ==
  LET s == Scan(bundleRegext, requireKnown, words, lo)[Len(words)]
  IN  IF s.err = "none" /\ s.at # NoPrefix THEN [s EXCEPT !.err = "dangling"] ELSE s
=============================================================================
