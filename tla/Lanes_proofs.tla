---------------------------- MODULE Lanes_proofs ---------------------------
(***************************************************************************)
(* For every program, every number of lanes and every contents of the      *)
(* registers: the words are bundled as they stand, the lanes follow the    *)
(* edges of the CFG, no lane leaves an accepted function from inside an    *)
(* arm, and lanes are together when a barrier is complete.                 *)
(***************************************************************************)
EXTENDS Lanes, SequenceTheorems, WellFoundedInduction, FiniteSetTheorems, TLAPS

(* A non-empty set of natural numbers has a least element.                 *)
LEMMA NatMinimum ==
  ASSUME NEW T \in SUBSET Nat, T # {}
  PROVE  \E w \in T : \A y \in T : w <= y
<1>. DEFINE R == OpToRel(<, Nat)
<1>1. IsWellFoundedOn(R, Nat)
  BY NatLessThanWellFounded
<1>2. \A a, b \in Nat : a < b => <<a, b>> \in R
  BY DEF OpToRel
<1>. HIDE DEF R
<1>3. PICK w \in T : \A y \in T : <<y, w>> \notin R
  BY <1>1, WFMin
<1>4. ASSUME NEW y \in T PROVE w <= y
  <2>1. w \in Nat /\ y \in Nat
    OBVIOUS
  <2>2. ~(y < w)
    BY <1>2, <1>3, <2>1, Zenon
  <2>. QED BY <2>1, <2>2
<1>. QED BY <1>4

(* A non-empty set of indices has a greatest element, and it is Max.       *)
LEMMA MaxIsGreatest ==
  ASSUME NEW n \in Nat, NEW S \in SUBSET (1 .. n), S # {}
  PROVE  Max(S) \in S /\ \A y \in S : y <= Max(S)
<1>. DEFINE T == { n - y : y \in S }
<1>1. T \in SUBSET Nat /\ T # {}
  <2>1. \A y \in S : n - y \in Nat
    OBVIOUS
  <2>. QED BY <2>1
<1>2. PICK t \in T : \A u \in T : t <= u
  BY <1>1, NatMinimum
<1>3. PICK w \in S : t = n - w
  OBVIOUS
<1>4. ASSUME NEW y \in S PROVE w >= y
  <2>1. n - y \in T
    OBVIOUS
  <2>. QED BY <1>2, <1>3, <2>1
<1>5. w \in S /\ \A y \in S : w >= y
  BY <1>4
<1>6. Max(S) \in S /\ \A y \in S : Max(S) >= y
  BY <1>5 DEF Max
<1>. QED BY <1>6

----------------------------------------------------------------------------
(* The decoder's pass.                                                     *)

Insts(given) ==
  { given[i] : i \in DOMAIN given }
    \cup { Extended(given[i], given[j]) : i \in DOMAIN given, j \in DOMAIN given }

Bundles(given) == [pc : Nat, inst_pc : Nat, inst : Insts(given)]

(* A bundle is a word as it stands, or a word that the prefix before it    *)
(* extends.                                                                *)
IsBundle(given, b) ==
  /\ b \in Bundles(given)
  /\ b.pc \in DOMAIN given /\ b.inst_pc \in DOMAIN given
  /\ \/ b.pc = b.inst_pc /\ b.inst = given[b.pc]
     \/ /\ b.pc = b.inst_pc - 1 /\ IsRegext(given[b.pc])
        /\ b.inst = Extended(given[b.inst_pc], given[b.pc])

(* The bundles lie end to end over the first n words.                      *)
EndToEnd(out, given, n) ==
  /\ out \in Seq(Bundles(given))
  /\ \A k \in 1 .. Len(out) : IsBundle(given, out[k])
  /\ \A k \in 1 .. Len(out) :
       out[k].inst_pc = IF k = Len(out) THEN n ELSE out[k + 1].pc - 1
  /\ IF out = << >> THEN n = 0 ELSE out[1].pc = 1

Errors == { "none", "nested", "unknown" }

ScanStates(given) ==
  [ pc : Nat, out : Seq(Bundles(given)), at : Nat, prefix : Insts(given) \cup { Plain("none") },
    err : Errors ]

(* The state of the pass after i words: all of them are in bundles, or all *)
(* but a prefix that waits.                                                *)
Scanned(given, i, s) ==
  s.err = "none" =>
    /\ s \in ScanStates(given)
    /\ s.pc = i + 1
    /\ \/ s.at = NoPrefix /\ EndToEnd(s.out, given, i)
       \/ /\ i # 0 /\ s.at = i /\ s.prefix = given[i] /\ IsRegext(given[i])
          /\ EndToEnd(s.out, given, i - 1)

LEMMA AppendBundle ==
  ASSUME NEW W, NEW given \in Seq(W), NEW n \in Nat, NEW out, EndToEnd(out, given, n),
         NEW b, IsBundle(given, b), b.pc = n + 1
  PROVE  EndToEnd(Append(out, b), given, b.inst_pc)
<1>. DEFINE B == Bundles(given)
            m == Len(out)
            new == Append(out, b)
<1>1. b \in B /\ out \in Seq(B) /\ m \in Nat
  BY LenProperties DEF EndToEnd, IsBundle
<1>2. new \in Seq(B) /\ Len(new) = m + 1
  BY <1>1, AppendProperties
<1>3. \A k \in 1 .. m : new[k] = out[k]
  BY <1>1, AppendProperties
<1>4. new[m + 1] = b
  BY <1>1, AppendProperties
<1>5. out = << >> <=> m = 0
  BY <1>1, EmptySeq
<1>6. \A k \in 1 .. m + 1 : IsBundle(given, new[k])
  <2>. TAKE k \in 1 .. m + 1
  <2>1. CASE k = m + 1
    BY <2>1, <1>4
  <2>2. CASE k # m + 1
    <3>1. k \in 1 .. m
      BY <2>2, <1>1
    <3>. QED BY <3>1, <1>3 DEF EndToEnd
  <2>. QED BY <2>1, <2>2
<1>7. \A k \in 1 .. m + 1 :
        new[k].inst_pc = IF k = m + 1 THEN b.inst_pc ELSE new[k + 1].pc - 1
  <2>. TAKE k \in 1 .. m + 1
  <2>1. CASE k = m + 1
    BY <2>1, <1>4
  <2>2. CASE k = m
    <3>1. new[k] = out[k] /\ out[k].inst_pc = n
      BY <2>2, <1>1, <1>3 DEF EndToEnd
    <3>. QED BY <2>2, <3>1, <1>1, <1>4
  <2>3. CASE k < m
    <3>1. k \in 1 .. m /\ k + 1 \in 1 .. m /\ k # m
      BY <2>3, <1>1
    <3>2. out[k].inst_pc = out[k + 1].pc - 1
      BY <3>1 DEF EndToEnd
    <3>3. new[k] = out[k] /\ new[k + 1] = out[k + 1]
      BY <3>1, <1>3
    <3>. QED BY <3>2, <3>3, <2>3, <1>1
  <2>. QED BY <2>1, <2>2, <2>3, <1>1
<1>8. new # << >> /\ new[1].pc = 1
  <2>1. new # << >>
    BY <1>1, AppendProperties
  <2>2. CASE m = 0
    <3>1. n = 0
      BY <2>2, <1>5 DEF EndToEnd
    <3>2. new[1] = b
      BY <2>2, <1>4
    <3>. QED BY <3>1, <3>2, <2>1
  <2>3. CASE m # 0
    <3>1. 1 \in 1 .. m
      BY <2>3, <1>1
    <3>. QED BY <3>1, <2>1, <2>3, <1>3, <1>5 DEF EndToEnd
  <2>. QED BY <2>1, <2>2, <2>3
<1>. HIDE DEF m, new
<1>. QED BY <1>2, <1>6, <1>7, <1>8 DEF EndToEnd, new

(* The fields of the pass's state after a word that waits.                 *)
LEMMA FieldsAfterPrefix ==
  ASSUME NEW O, NEW P, NEW s \in [pc : Nat, out : O, at : Nat, prefix : P, err : Errors],
         NEW p \in P, NEW a \in Nat,
         NEW t, t = [[s EXCEPT !.at = a, !.prefix = p] EXCEPT !.pc = s.pc + 1]
  PROVE  /\ t \in [pc : Nat, out : O, at : Nat, prefix : P, err : Errors]
         /\ t.pc = s.pc + 1 /\ t.at = a /\ t.out = s.out /\ t.prefix = p
<1>. DEFINE r == [s EXCEPT !.at = a, !.prefix = p]
<1>1. /\ r \in [pc : Nat, out : O, at : Nat, prefix : P, err : Errors]
      /\ r.at = a /\ r.out = s.out /\ r.prefix = p
  OBVIOUS
<1>2. t = [r EXCEPT !.pc = s.pc + 1] /\ s.pc + 1 \in Nat
  OBVIOUS
<1>. HIDE DEF r
<1>. QED BY <1>1, <1>2

LEMMA ScanStart ==
  ASSUME NEW W, NEW given \in Seq(W)
  PROVE  Scanned(given, 0, Start(1))
<1>1. << >> \in Seq(Bundles(given)) /\ Len(<< >>) = 0
  BY EmptySeq
<1>2. EndToEnd(<< >>, given, 0)
  BY <1>1 DEF EndToEnd
<1>. DEFINE O == Seq(Bundles(given))
            P == Insts(given) \cup { Plain("none") }
<1>3. Start(1) = [pc |-> 1, out |-> << >>, at |-> 0, prefix |-> Plain("none"), err |-> "none"]
  BY DEF Start, NoPrefix
<1>4. << >> \in O /\ Plain("none") \in P
  BY <1>1
<1>. HIDE DEF O, P
<1>5. Start(1) \in [pc : Nat, out : O, at : Nat, prefix : P, err : Errors]
  BY <1>3, <1>4 DEF Errors
<1>6. Start(1) \in ScanStates(given)
  BY <1>5 DEF ScanStates, O, P
<1>. QED BY <1>2, <1>3, <1>6 DEF Scanned, NoPrefix

(* One word: it waits as a prefix, it makes a bundle, or it is an error.   *)
LEMMA ScanStep ==
  ASSUME NEW W, NEW given \in Seq(W), NEW i \in 1 .. Len(given),
         NEW bundle, NEW known, NEW s, Scanned(given, i - 1, s)
  PROVE  Scanned(given, i, DecodeWord(bundle, known, s, given[i]))
<1>. DEFINE w == given[i]
            t == DecodeWord(bundle, known, s, w)
<1>0. i \in Nat /\ i # 0 /\ i - 1 \in Nat /\ DOMAIN given = 1 .. Len(given) /\ Len(given) \in Nat
  BY LenProperties
<1>. SUFFICES ASSUME t.err = "none" PROVE Scanned(given, i, t)
  BY DEF Scanned
<1>1. s.err = "none"
  BY DEF DecodeWord
<1>2. /\ s \in ScanStates(given) /\ s.pc = i
      /\ \/ s.at = NoPrefix /\ EndToEnd(s.out, given, i - 1)
         \/ /\ i - 1 # 0 /\ s.at = i - 1 /\ s.prefix = given[i - 1] /\ IsRegext(given[i - 1])
            /\ EndToEnd(s.out, given, i - 1 - 1)
  BY <1>0, <1>1 DEF Scanned
<1>3. CASE bundle /\ IsRegext(w)
  <2>1. CASE s.at # NoPrefix
    <3>1. t = [[s EXCEPT !.err = "nested"] EXCEPT !.pc = s.pc + 1]
      BY <2>1, <1>1, <1>3 DEF DecodeWord
    <3>2. t.err = "nested"
      BY <3>1, <1>2 DEF ScanStates
    <3>. QED BY <3>2
  <2>2. CASE s.at = NoPrefix
    <3>1. t = [[s EXCEPT !.at = s.pc, !.prefix = w] EXCEPT !.pc = s.pc + 1]
      BY <2>2, <1>1, <1>3 DEF DecodeWord
    <3>2. w \in Insts(given)
      BY <1>0 DEF Insts
    <3>3. t \in ScanStates(given) /\ t.pc = i + 1 /\ t.at = i /\ t.prefix = w /\ t.out = s.out
      <4>. DEFINE O == Seq(Bundles(given))
                  P == Insts(given) \cup { Plain("none") }
      <4>1. s \in [pc : Nat, out : O, at : Nat, prefix : P, err : Errors] /\ w \in P
        BY <3>2, <1>2 DEF ScanStates
      <4>2. t = [[s EXCEPT !.at = i, !.prefix = w] EXCEPT !.pc = s.pc + 1] /\ s.pc = i
        BY <3>1, <1>2
      <4>. HIDE DEF O, P, t, w
      <4>3. /\ t \in [pc : Nat, out : O, at : Nat, prefix : P, err : Errors]
            /\ t.pc = s.pc + 1 /\ t.at = i /\ t.out = s.out /\ t.prefix = w
        BY <4>1, <4>2, <1>0, FieldsAfterPrefix
      <4>. QED BY <4>2, <4>3 DEF ScanStates, O, P
    <3>4. EndToEnd(s.out, given, i - 1)
      BY <2>2, <1>0, <1>2 DEF NoPrefix
    <3>. QED BY <3>3, <3>4, <1>0, <1>3 DEF Scanned
  <2>. QED BY <2>1, <2>2
<1>4. CASE ~(bundle /\ IsRegext(w)) /\ known /\ w.op = "unknown"
  <2>1. t = [[s EXCEPT !.err = "unknown"] EXCEPT !.pc = s.pc + 1]
    BY <1>1, <1>4 DEF DecodeWord
  <2>2. t.err = "unknown"
    BY <2>1, <1>2 DEF ScanStates
  <2>. QED BY <2>2
<1>5. CASE ~(bundle /\ IsRegext(w)) /\ ~(known /\ w.op = "unknown")
  <2>. DEFINE has == s.at # NoPrefix
              b == [pc |-> IF has THEN s.at ELSE s.pc, inst_pc |-> s.pc,
                    inst |-> IF has THEN Extended(w, s.prefix) ELSE w]
  <2>1. t = [[s EXCEPT !.out = Append(@, b), !.at = NoPrefix] EXCEPT !.pc = s.pc + 1]
    BY <1>1, <1>5 DEF DecodeWord, Bundle
  <2>2. IsBundle(given, b) /\ b.inst_pc = i /\ \E n \in Nat : EndToEnd(s.out, given, n) /\ b.pc = n + 1
    <3>1. CASE has
      <4>1. /\ i - 1 # 0 /\ s.at = i - 1 /\ s.prefix = given[i - 1] /\ IsRegext(given[i - 1])
            /\ EndToEnd(s.out, given, i - 1 - 1)
        BY <3>1, <1>2
      <4>2. i - 1 \in DOMAIN given /\ i \in DOMAIN given /\ i - 1 - 1 \in Nat /\ i - 1 \in Nat
        BY <4>1, <1>0
      <4>3. b = [pc |-> i - 1, inst_pc |-> i, inst |-> Extended(given[i], given[i - 1])]
        BY <3>1, <4>1, <1>2
      <4>4. b.inst \in Insts(given)
        BY <4>2, <4>3 DEF Insts
      <4>. HIDE DEF b
      <4>5. b.pc = i - 1 /\ b.inst_pc = i /\ b.inst = Extended(given[i], given[i - 1]) /\ b \in Bundles(given)
        BY <4>2, <4>3, <4>4 DEF Bundles
      <4>6. IsBundle(given, b)
        BY <4>1, <4>2, <4>5 DEF IsBundle
      <4>. QED BY <4>1, <4>2, <4>5, <4>6
    <3>2. CASE ~has
      <4>1. EndToEnd(s.out, given, i - 1)
        BY <3>2, <1>2, <1>0 DEF NoPrefix
      <4>2. b = [pc |-> i, inst_pc |-> i, inst |-> given[i]]
        BY <3>2, <1>2
      <4>3. b.inst \in Insts(given)
        BY <4>2, <1>0 DEF Insts
      <4>. HIDE DEF b
      <4>4. b.pc = i /\ b.inst_pc = i /\ b.inst = given[i] /\ b \in Bundles(given)
        BY <4>2, <4>3, <1>0 DEF Bundles
      <4>5. IsBundle(given, b)
        BY <4>4, <1>0 DEF IsBundle
      <4>. QED BY <4>1, <4>4, <4>5, <1>0
    <3>. QED BY <3>1, <3>2
  <2>. HIDE DEF b
  <2>3. EndToEnd(Append(s.out, b), given, i)
    BY <2>2, AppendBundle
  <2>4. Append(s.out, b) \in Seq(Bundles(given))
    BY <2>3 DEF EndToEnd
  <2>5. t \in ScanStates(given) /\ t.pc = i + 1 /\ t.at = NoPrefix /\ t.out = Append(s.out, b)
    <3>. DEFINE O == Seq(Bundles(given))
                P == Insts(given) \cup { Plain("none") }
                o == Append(s.out, b)
    <3>1. s \in [pc : Nat, out : O, at : Nat, prefix : P, err : Errors] /\ o \in O
      BY <2>4, <1>2 DEF ScanStates
    <3>2. t = [[s EXCEPT !.out = o, !.at = NoPrefix] EXCEPT !.pc = s.pc + 1] /\ s.pc = i
      BY <2>1, <1>2
    <3>3. NoPrefix \in Nat
      BY DEF NoPrefix
    <3>. DEFINE r == [s EXCEPT !.out = o, !.at = NoPrefix]
    <3>. HIDE DEF O, P, t, o
    <3>4. /\ r \in [pc : Nat, out : O, at : Nat, prefix : P, err : Errors]
          /\ r.at = NoPrefix /\ r.out = o
      BY <3>1, <3>3
    <3>5. t = [r EXCEPT !.pc = i + 1]
      BY <3>2
    <3>. HIDE DEF r
    <3>6. /\ t \in [pc : Nat, out : O, at : Nat, prefix : P, err : Errors]
          /\ t.pc = s.pc + 1 /\ t.at = NoPrefix /\ t.out = o
      BY <3>2, <3>4, <3>5, <1>0
    <3>. QED BY <3>2, <3>6 DEF ScanStates, O, P, o
  <2>. HIDE DEF t
  <2>. QED BY <2>3, <2>5 DEF Scanned
<1>. QED BY <1>3, <1>4, <1>5

(* What the pass computes: its state after no word is Start, and after     *)
(* every further word what DecodeWord makes of the state before.           *)
LEMMA ScanIsFold ==
  ASSUME NEW W, NEW given \in Seq(W), NEW bundle, NEW known
  PROVE  LET after == Scan(bundle, known, given, 1)
         IN  /\ after[0] = Start(1)
             /\ \A i \in 1 .. Len(given) : after[i] = DecodeWord(bundle, known, after[i - 1], given[i])
<1>. DEFINE n == Len(given)
            Of(f, i) == IF i = 0 THEN Start(1) ELSE DecodeWord(bundle, known, f[i - 1], given[i])
            Folds(f, m) == f = [i \in 0 .. m |-> Of(f, i)]
            after == Scan(bundle, known, given, 1)
            T == { m \in 0 .. n : ~ \E f : Folds(f, m) }
<1>1. n \in Nat
  BY LenProperties
<1>2. \E f : Folds(f, 0)
  <2>. DEFINE f == [i \in 0 .. 0 |-> Start(1)]
  <2>1. f = [i \in 0 .. 0 |-> Of(f, i)]
    OBVIOUS
  <2>. QED BY <2>1
<1>3. ASSUME NEW m \in 0 .. n, m # 0, NEW g, Folds(g, m - 1) PROVE \E f : Folds(f, m)
  <2>. DEFINE f == [i \in 0 .. m |-> IF i = m THEN Of(g, m) ELSE g[i]]
  <2>. HIDE DEF Of
  <2>1. \A i \in 0 .. m - 1 : g[i] = Of(g, i)
    BY <1>3, Zenon
  <2>2. \A i \in 0 .. m : i # 0 => f[i - 1] = g[i - 1]
    BY <1>1
  <2>3. \A i \in 0 .. m : Of(f, i) = Of(g, i)
    BY <2>2 DEF Of
  <2>4. ASSUME NEW i \in 0 .. m PROVE f[i] = Of(f, i)
    <3>1. i = m \/ i \in 0 .. m - 1
      BY <1>1
    <3>. QED BY <3>1, <2>1, <2>3
  <2>. HIDE DEF f
  <2>5. f = [i \in 0 .. m |-> Of(f, i)]
    <3>1. f = [i \in 0 .. m |-> f[i]]
      BY DEF f
    <3>. QED BY <3>1, <2>4
  <2>. QED BY <2>5
<1>4. T = {}
  <2>. SUFFICES ASSUME T # {} PROVE FALSE
    OBVIOUS
  <2>. HIDE DEF Folds
  <2>0. T \in SUBSET Nat
    BY <1>1
  <2>1. PICK m \in T : \A k \in T : m <= k
    <3>. HIDE DEF T
    <3>. QED BY <2>0, NatMinimum
  <2>2. m # 0
    BY <1>2
  <2>3. m - 1 \in 0 .. n /\ m - 1 \notin T
    <3>1. m \in 0 .. n
      OBVIOUS
    <3>2. m - 1 \in 0 .. n /\ ~(m <= m - 1)
      BY <3>1, <2>2, <1>1
    <3>. HIDE DEF T
    <3>. QED BY <3>2, <2>1
  <2>4. PICK g : Folds(g, m - 1)
    BY <2>3
  <2>5. m \in 0 .. n
    OBVIOUS
  <2>6. \E f : Folds(f, m)
    BY <1>3, <2>2, <2>4, <2>5
  <2>. QED BY <2>6
<1>5. \E f : Folds(f, n)
  BY <1>1, <1>4
<1>6. after = CHOOSE f : Folds(f, n)
  BY DEF Scan
<1>7. Folds(after, n)
  BY <1>5, <1>6
<1>8. \A i \in 0 .. n : after[i] = Of(after, i)
  BY <1>7, Zenon
<1>9. after[0] = Start(1)
  BY <1>1, <1>8
<1>10. ASSUME NEW i \in 1 .. n PROVE after[i] = DecodeWord(bundle, known, after[i - 1], given[i])
  <2>1. i \in 0 .. n /\ i # 0
    BY <1>1
  <2>. QED BY <1>8, <2>1
<1>. QED BY <1>9, <1>10

(* A list that the pass gives without an error has every word in a bundle, *)
(* alone or with the prefix before it.                                     *)
LEMMA DecodeExact ==
  ASSUME NEW W, NEW given \in Seq(W), NEW bundle, NEW known,
         Decode(bundle, known, given, 1).err = "none"
  PROVE  EndToEnd(Decode(bundle, known, given, 1).out, given, Len(given))
<1>. DEFINE n == Len(given)
            after == Scan(bundle, known, given, 1)
            T == { i \in 0 .. n : ~Scanned(given, i, after[i]) }
<1>1. n \in Nat
  BY LenProperties
<1>2. /\ after[0] = Start(1)
      /\ \A i \in 1 .. n : after[i] = DecodeWord(bundle, known, after[i - 1], given[i])
  BY ScanIsFold
<1>. HIDE DEF after
<1>3. T = {}
  <2>. SUFFICES ASSUME T # {} PROVE FALSE
    OBVIOUS
  <2>0. T \in SUBSET Nat
    BY <1>1
  <2>1. PICK m \in T : \A k \in T : m <= k
    <3>. HIDE DEF T
    <3>. QED BY <2>0, NatMinimum
  <2>2. m \in 0 .. n /\ ~Scanned(given, m, after[m])
    OBVIOUS
  <2>3. m # 0
    BY <2>2, <1>2, ScanStart
  <2>4. m \in 1 .. n /\ m - 1 \in 0 .. n /\ ~(m <= m - 1)
    BY <1>1, <2>2, <2>3
  <2>5. m - 1 \notin T
    <3>. HIDE DEF T
    <3>. QED BY <2>1, <2>4
  <2>6. Scanned(given, m - 1, after[m - 1])
    BY <2>4, <2>5
  <2>. QED BY <1>2, <2>2, <2>4, <2>6, ScanStep
<1>4. Scanned(given, n, after[n])
  BY <1>1, <1>3
<1>. DEFINE s == after[n]
            d == Decode(bundle, known, given, 1)
<1>5. d = IF s.err = "none" /\ s.at # NoPrefix THEN [s EXCEPT !.err = "dangling"] ELSE s
  BY DEF Decode, after
<1>. HIDE DEF s
<1>6. CASE s.err = "none" /\ s.at # NoPrefix
  <2>1. s \in ScanStates(given)
    BY <1>4, <1>6 DEF Scanned, s
  <2>2. d.err = "dangling"
    BY <1>5, <1>6, <2>1 DEF ScanStates
  <2>. QED BY <2>2
<1>7. CASE ~(s.err = "none" /\ s.at # NoPrefix)
  <2>1. d = s /\ s.err = "none" /\ s.at = NoPrefix
    BY <1>5, <1>7
  <2>2. n = 0 \/ n # NoPrefix
    BY DEF NoPrefix
  <2>3. EndToEnd(s.out, given, n)
    BY <1>4, <2>1 DEF Scanned, s, NoPrefix
  <2>. QED BY <2>1, <2>3
<1>. QED BY <1>6, <1>7

----------------------------------------------------------------------------
(* The blocks and the edges.                                               *)

(* The bundles I lie end to end over the addresses 1 .. n.                 *)
Laid(I, n) ==
  /\ n \in Nat /\ Len(I) \in Nat /\ Len(I) # 0 /\ DOMAIN I = 1 .. Len(I)
  /\ \A k \in 1 .. Len(I) : I[k].pc \in Nat /\ I[k].inst_pc \in Nat /\ I[k].pc <= I[k].inst_pc
  /\ \A k \in 1 .. Len(I) : I[k].inst_pc = IF k = Len(I) THEN n ELSE I[k + 1].pc - 1
  /\ I[1].pc = 1

(* cfg is the CFG of a function of n words.                                *)
IsCfg(cfg, n) ==
  /\ Laid(cfg.insts, n)
  /\ ~Rejected(cfg.insts, 1, n + 1)
  /\ cfg = Build(cfg.insts, 1, n + 1)

LEMMA EndToEndLaid ==
  ASSUME NEW W, NEW given \in Seq(W), NEW out, out # << >>, EndToEnd(out, given, Len(given))
  PROVE  Laid(out, Len(given))
<1>1. /\ Len(given) \in Nat
      /\ Len(out) \in Nat /\ DOMAIN out = 1 .. Len(out)
  BY LenProperties DEF EndToEnd
<1>2. Len(out) # 0
  BY EmptySeq DEF EndToEnd
<1>3. ASSUME NEW k \in 1 .. Len(out)
      PROVE  out[k].pc \in Nat /\ out[k].inst_pc \in Nat /\ out[k].pc <= out[k].inst_pc
  <2>1. IsBundle(given, out[k])
    BY DEF EndToEnd
  <2>2. out[k].pc \in Nat /\ out[k].inst_pc \in Nat
    BY <2>1 DEF IsBundle, Bundles
  <2>3. out[k].pc = out[k].inst_pc \/ out[k].pc = out[k].inst_pc - 1
    BY <2>1 DEF IsBundle
  <2>. QED BY <2>2, <2>3
<1>. QED BY <1>1, <1>2, <1>3 DEF Laid, EndToEnd

(* The bundles are in the order of their addresses.                        *)
LEMMA PcsIncrease ==
  ASSUME NEW I, NEW n, Laid(I, n), NEW j \in 1 .. Len(I), NEW k \in 1 .. Len(I), j < k
  PROVE  I[j].pc < I[k].pc
<1>. DEFINE m == Len(I)
            T == { i \in 1 .. m : j < i /\ ~(I[j].pc < I[i].pc) }
<1>1. m \in Nat
  BY DEF Laid
<1>2. T = {}
  <2>. SUFFICES ASSUME T # {} PROVE FALSE
    OBVIOUS
  <2>0. T \in SUBSET Nat
    BY <1>1
  <2>1. PICK i \in T : \A l \in T : i <= l
    <3>. HIDE DEF T
    <3>. QED BY <2>0, NatMinimum
  <2>2. i \in 1 .. m /\ j < i /\ ~(I[j].pc < I[i].pc)
    OBVIOUS
  <2>3. i - 1 \in 1 .. m /\ i - 1 # m /\ i - 1 + 1 = i /\ ~(i <= i - 1) /\ (j < i - 1 \/ j = i - 1)
    BY <2>2, <1>1
  <2>4. I[i - 1].inst_pc = I[i].pc - 1
    BY <2>3 DEF Laid
  <2>5. I[i - 1].pc \in Nat /\ I[i - 1].inst_pc \in Nat /\ I[i].pc \in Nat /\ I[j].pc \in Nat
    BY <2>2, <2>3 DEF Laid
  <2>6. I[i - 1].pc <= I[i - 1].inst_pc
    BY <2>3 DEF Laid
  <2>7. I[i - 1].pc < I[i].pc
    BY <2>4, <2>5, <2>6
  <2>8. i - 1 \notin T
    <3>. HIDE DEF T
    <3>. QED BY <2>1, <2>3
  <2>9. j = i - 1 \/ I[j].pc < I[i - 1].pc
    BY <2>3, <2>8
  <2>. QED BY <2>2, <2>5, <2>7, <2>9
<1>. QED BY <1>2

LEMMA PcsDiffer ==
  ASSUME NEW I, NEW n, Laid(I, n), NEW j \in 1 .. Len(I), NEW k \in 1 .. Len(I), I[j].pc = I[k].pc
  PROVE  j = k
<1>1. Len(I) \in Nat /\ I[j].pc \in Nat /\ I[k].pc \in Nat
  BY DEF Laid
<1>2. CASE j < k
  BY <1>1, <1>2, PcsIncrease
<1>3. CASE k < j
  BY <1>1, <1>3, PcsIncrease
<1>. QED BY <1>1, <1>2, <1>3

LEMMA PcsInFunction ==
  ASSUME NEW I, NEW n, Laid(I, n), NEW k \in 1 .. Len(I)
  PROVE  I[k].pc \in 1 .. n /\ (k = Len(I) => I[k].inst_pc = n)
<1>. DEFINE m == Len(I)
<1>0. m \in Nat /\ m # 0 /\ n \in Nat
  BY DEF Laid
<1>1. m \in 1 .. m /\ 1 \in 1 .. m /\ m \in Nat /\ n \in Nat
  BY <1>0
<1>2. I[1].pc = 1 /\ I[m].pc \in Nat /\ I[m].inst_pc = n /\ I[m].pc <= n /\ I[k].pc \in Nat
  BY <1>1 DEF Laid
<1>3. 1 <= I[k].pc
  <2>1. CASE k = 1
    BY <2>1, <1>2
  <2>2. CASE k # 1
    BY <2>2, <1>1, <1>2, PcsIncrease
  <2>. QED BY <2>1, <2>2
<1>4. I[k].pc <= n
  <2>1. CASE k = m
    BY <2>1, <1>2
  <2>2. CASE k # m
    <3>1. I[k].pc < I[m].pc
      BY <2>2, <1>1, PcsIncrease
    <3>. QED BY <3>1, <1>1, <1>2
  <2>. QED BY <2>1, <2>2
<1>. QED BY <1>1, <1>2, <1>3, <1>4

(* The head of bundle k: the index at which its block starts.              *)
HeadOf(cfg, k) == Max({ h \in Heads(cfg.insts, cfg.lo, cfg.hi) : h <= k })

LEMMA HeadIs ==
  ASSUME NEW cfg, NEW n, IsCfg(cfg, n), NEW k \in 1 .. Len(cfg.insts)
  PROVE  /\ HeadOf(cfg, k) \in Heads(cfg.insts, 1, n + 1) /\ HeadOf(cfg, k) \in 1 .. Len(cfg.insts)
         /\ HeadOf(cfg, k) <= k
         /\ \A h \in Heads(cfg.insts, 1, n + 1) : h <= k => h <= HeadOf(cfg, k)
         /\ cfg.block[k] = cfg.insts[HeadOf(cfg, k)].pc
<1>. DEFINE I == cfg.insts
            H == Heads(I, 1, n + 1)
            S == { h \in H : h <= k }
<1>1. Len(I) \in Nat /\ DOMAIN I = 1 .. Len(I) /\ 1 \in 1 .. Len(I)
  BY DEF IsCfg, Laid
<1>2. 1 \in S /\ S \in SUBSET (1 .. Len(I))
  BY <1>1 DEF Heads
<1>3. Max(S) \in S /\ \A y \in S : y <= Max(S)
  <2>. HIDE DEF S
  <2>. QED BY <1>1, <1>2, MaxIsGreatest
<1>4. cfg.lo = 1 /\ cfg.hi = n + 1 /\ cfg.block = BlockOf(I, 1, n + 1)
  BY DEF IsCfg, Build
<1>5. HeadOf(cfg, k) = Max(S)
  BY <1>4 DEF HeadOf
<1>6. cfg.block[k] = I[Max(S)].pc
  BY <1>1, <1>4 DEF BlockOf
<1>. DEFINE g == Max(S)
<1>7. /\ g \in H /\ g \in 1 .. Len(I) /\ g <= k
      /\ \A h \in H : h <= k => h <= g
  <2>. HIDE DEF H, g
  <2>. QED BY <1>2, <1>3 DEF g
<1>. HIDE DEF g
<1>. QED BY <1>5, <1>6, <1>7 DEF g

(* Two bundles are in one block when they have one head.                   *)
LEMMA SameBlock ==
  ASSUME NEW cfg, NEW n, IsCfg(cfg, n),
         NEW j \in 1 .. Len(cfg.insts), NEW k \in 1 .. Len(cfg.insts), cfg.block[j] = cfg.block[k]
  PROVE  HeadOf(cfg, j) = HeadOf(cfg, k)
<1>1. HeadOf(cfg, j) \in 1 .. Len(cfg.insts) /\ cfg.block[j] = cfg.insts[HeadOf(cfg, j)].pc
  BY HeadIs
<1>2. HeadOf(cfg, k) \in 1 .. Len(cfg.insts) /\ cfg.block[k] = cfg.insts[HeadOf(cfg, k)].pc
  BY HeadIs
<1>3. Laid(cfg.insts, n)
  BY DEF IsCfg
<1>. QED BY <1>1, <1>2, <1>3, PcsDiffer

(* A head is the head of its own block.                                    *)
LEMMA HeadOfHead ==
  ASSUME NEW cfg, NEW n, IsCfg(cfg, n), NEW h \in Heads(cfg.insts, 1, n + 1), h \in 1 .. Len(cfg.insts)
  PROVE  HeadOf(cfg, h) = h /\ cfg.block[h] = cfg.insts[h].pc
<1>1. HeadOf(cfg, h) <= h /\ h <= HeadOf(cfg, h) /\ HeadOf(cfg, h) \in 1 .. Len(cfg.insts)
  <2>1. h <= h
    OBVIOUS
  <2>. QED BY <2>1, HeadIs
<1>2. Len(cfg.insts) \in Nat
  BY DEF IsCfg, Laid
<1>3. HeadOf(cfg, h) = h
  BY <1>1, <1>2
<1>. QED BY <1>3, HeadIs

(* The parts of the record.                                                *)
LEMMA CfgParts ==
  ASSUME NEW cfg, NEW n, IsCfg(cfg, n)
  PROVE  LET I      == cfg.insts
             starts == { cfg.block[j] : j \in DOMAIN I }
         IN  /\ DOMAIN I = 1 .. Len(I) /\ Len(I) \in Nat /\ 1 \in 1 .. Len(I)
             /\ DOMAIN cfg.block = 1 .. Len(I)
             /\ DOMAIN cfg.succs = starts
             /\ cfg.entry = cfg.block[1]
             /\ \A s \in starts : cfg.first[s] = CHOOSE j \in DOMAIN I : I[j].pc = s
             /\ \A s \in starts : cfg.last[s] = Max({ j \in DOMAIN I : cfg.block[j] = s })
<1>. DEFINE I == cfg.insts
<1>1. DOMAIN I = 1 .. Len(I) /\ Len(I) \in Nat /\ Len(I) # 0
  BY DEF IsCfg, Laid
<1>2. 1 \in 1 .. Len(I)
  BY <1>1
<1>3. cfg = Build(I, 1, n + 1)
  BY DEF IsCfg
<1>4. cfg.block = BlockOf(I, 1, n + 1)
  BY <1>3 DEF Build
<1>5. DOMAIN cfg.block = 1 .. Len(I)
  BY <1>1, <1>4 DEF BlockOf
<1>. DEFINE blk == BlockOf(I, 1, n + 1)
            starts == { blk[j] : j \in DOMAIN I }
            lst == [s \in starts |-> Max({ j \in DOMAIN I : blk[j] = s })]
            at(t) == CHOOSE j \in DOMAIN I : I[j].pc = t
            fst == [s \in starts |-> at(s)]
<1>6. cfg.last = lst /\ cfg.first = fst /\ DOMAIN cfg.succs = starts /\ cfg.entry = blk[1]
  <2>. HIDE DEF I
  <2>. QED BY <1>3, Zenon DEF Build
<1>. HIDE DEF blk, at
<1>7. /\ DOMAIN cfg.succs = starts
      /\ \A s \in starts : cfg.first[s] = at(s)
      /\ \A s \in starts : cfg.last[s] = Max({ j \in DOMAIN I : blk[j] = s })
  BY <1>6
<1>9. blk = cfg.block
  BY <1>4 DEF blk
<1>. HIDE DEF I
<1>. DEFINE begins == { cfg.block[j] : j \in DOMAIN I }
<1>10. starts = begins
  BY <1>9
<1>11. \A s \in begins : cfg.last[s] = Max({ j \in DOMAIN I : cfg.block[j] = s })
  <2>. TAKE s \in begins
  <2>1. cfg.last[s] = Max({ j \in DOMAIN I : blk[j] = s })
    <3>. HIDE DEF starts, begins
    <3>. QED BY <1>7, <1>10
  <2>2. { j \in DOMAIN I : blk[j] = s } = { j \in DOMAIN I : cfg.block[j] = s }
    BY <1>9
  <2>. QED BY <2>1, <2>2
<1>13. DOMAIN cfg.succs = begins /\ \A s \in begins : cfg.first[s] = at(s)
  <2>. HIDE DEF starts, begins
  <2>. QED BY <1>7, <1>10
<1>14. cfg.entry = cfg.block[1]
  BY <1>6, <1>9
<1>. QED BY <1>1, <1>2, <1>5, <1>11, <1>13, <1>14, Zenon DEF I, at

(* The index of an address at which a bundle starts.                       *)
LEMMA IndexOfPc ==
  ASSUME NEW I, NEW n, Laid(I, n), NEW k \in 1 .. Len(I)
  PROVE  (CHOOSE j \in DOMAIN I : I[j].pc = I[k].pc) = k
<1>. DEFINE j0 == CHOOSE j \in DOMAIN I : I[j].pc = I[k].pc
<1>0. DOMAIN I = 1 .. Len(I)
  BY DEF Laid
<1>1. j0 \in DOMAIN I /\ I[j0].pc = I[k].pc
  BY <1>0
<1>. HIDE DEF j0
<1>2. j0 = k
  BY <1>0, <1>1, PcsDiffer
<1>. QED BY <1>2 DEF j0

(* A block starts at its head and ends at its last bundle.                 *)
LEMMA BlockEnds ==
  ASSUME NEW cfg, NEW n, IsCfg(cfg, n), NEW k \in 1 .. Len(cfg.insts)
  PROVE  LET b == cfg.block[k]
         IN  /\ b \in DOMAIN cfg.succs
             /\ cfg.first[b] = HeadOf(cfg, k) /\ cfg.first[b] \in 1 .. Len(cfg.insts)
             /\ cfg.insts[cfg.first[b]].pc = b /\ cfg.block[cfg.first[b]] = b
             /\ cfg.last[b] \in 1 .. Len(cfg.insts) /\ cfg.block[cfg.last[b]] = b
             /\ \A j \in 1 .. Len(cfg.insts) : cfg.block[j] = b => j <= cfg.last[b]
<1>. DEFINE I == cfg.insts
            m == Len(I)
            b == cfg.block[k]
            S == { j \in DOMAIN I : cfg.block[j] = b }
<1>1. Laid(I, n)
  BY DEF IsCfg
<1>2. m \in Nat /\ DOMAIN I = 1 .. m
  BY CfgParts
<1>3. b \in DOMAIN cfg.succs /\ cfg.first[b] = CHOOSE j \in DOMAIN I : I[j].pc = b
  <2>1. b \in { cfg.block[j] : j \in DOMAIN I }
    BY <1>2
  <2>. QED BY <2>1, CfgParts
<1>4. HeadOf(cfg, k) \in 1 .. m /\ b = I[HeadOf(cfg, k)].pc /\ HeadOf(cfg, k) \in Heads(I, 1, n + 1)
  BY HeadIs
<1>5. cfg.first[b] = HeadOf(cfg, k)
  BY <1>1, <1>3, <1>4, IndexOfPc
<1>6. cfg.block[HeadOf(cfg, k)] = b
  BY <1>4, HeadOfHead
<1>7. cfg.last[b] = Max(S)
  <2>1. b \in { cfg.block[j] : j \in DOMAIN I }
    BY <1>2
  <2>2. \A s \in { cfg.block[j] : j \in DOMAIN I } : cfg.last[s] = Max({ j \in DOMAIN I : cfg.block[j] = s })
    BY CfgParts
  <2>. QED BY <2>1, <2>2, Zenon
<1>8. S \in SUBSET (1 .. m) /\ k \in S
  BY <1>2
<1>9. Max(S) \in S /\ \A y \in S : y <= Max(S)
  <2>. HIDE DEF S
  <2>. QED BY <1>2, <1>8, MaxIsGreatest
<1>10. /\ cfg.last[b] \in 1 .. m /\ cfg.block[cfg.last[b]] = b
       /\ \A j \in 1 .. m : cfg.block[j] = b => j <= cfg.last[b]
  <2>. DEFINE g == Max(S)
  <2>1. g \in 1 .. m /\ cfg.block[g] = b /\ \A j \in 1 .. m : cfg.block[j] = b => j <= g
    <3>1. \A j \in 1 .. m : cfg.block[j] = b => j \in S
      BY <1>2
    <3>2. \A j \in S : j \in 1 .. m /\ cfg.block[j] = b
      BY <1>2
    <3>. HIDE DEF S
    <3>. QED BY <1>9, <3>1, <3>2
  <2>. HIDE DEF g
  <2>. QED BY <1>7, <2>1 DEF g
<1>. HIDE DEF b
<1>. QED BY <1>2, <1>3, <1>4, <1>5, <1>6, <1>10 DEF b

(* The bundle after k in address order: in the block of k and after no     *)
(* terminator, or the first of another block.                              *)
LEMMA NextBundle ==
  ASSUME NEW cfg, NEW n, IsCfg(cfg, n), NEW k \in 1 .. Len(cfg.insts)
  PROVE  LET m == Len(cfg.insts)
             b == cfg.block[k]
         IN  /\ k # cfg.last[b] => /\ k + 1 \in 1 .. m /\ cfg.block[k + 1] = b
                                   /\ ~IsTerminator(cfg.insts[k].inst)
             /\ k = cfg.last[b] /\ k # m => k + 1 \in 1 .. m /\ cfg.first[cfg.block[k + 1]] = k + 1
<1>. DEFINE I == cfg.insts
            m == Len(I)
            b == cfg.block[k]
            H == Heads(I, 1, n + 1)
            last == cfg.last[b]
<1>1. m \in Nat /\ DOMAIN I = 1 .. m
  BY CfgParts
<1>2. last \in 1 .. m /\ cfg.block[last] = b /\ k <= last
  BY BlockEnds
<1>3. k + 1 \in 1 .. m /\ k + 1 \notin H => cfg.block[k + 1] = b
  <2>. SUFFICES ASSUME k + 1 \in 1 .. m, k + 1 \notin H PROVE cfg.block[k + 1] = b
    OBVIOUS
  <2>. DEFINE g == HeadOf(cfg, k)
              h == HeadOf(cfg, k + 1)
  <2>1. /\ g \in H /\ g \in 1 .. m /\ g <= k /\ \A a \in H : a <= k => a <= g
        /\ b = I[g].pc
    BY HeadIs
  <2>2. /\ h \in H /\ h \in 1 .. m /\ h <= k + 1 /\ \A a \in H : a <= k + 1 => a <= h
        /\ cfg.block[k + 1] = I[h].pc
    BY HeadIs
  <2>. HIDE DEF g, h, H, b, I
  <2>3. h # k + 1
    BY <2>2
  <2>4. h <= k /\ g <= k + 1
    BY <2>1, <2>2, <2>3
  <2>5. g = h
    BY <2>1, <2>2, <2>4
  <2>. QED BY <2>1, <2>2, <2>5
<1>4. ASSUME k # last
      PROVE  k + 1 \in 1 .. m /\ cfg.block[k + 1] = b /\ ~IsTerminator(I[k].inst)
  <2>1. k + 1 \in 1 .. m /\ k + 1 <= last /\ ~(k + 1 <= k)
    BY <1>1, <1>2, <1>4
  <2>2. HeadOf(cfg, last) = HeadOf(cfg, k)
    BY <1>2, SameBlock
  <2>3. HeadOf(cfg, k) <= k /\ HeadOf(cfg, k) \in 1 .. m
    BY HeadIs
  <2>4. k + 1 \notin H
    <3>1. k + 1 \in H => k + 1 <= HeadOf(cfg, k)
      BY <1>2, <2>1, <2>2, HeadIs
    <3>. HIDE DEF H
    <3>. QED BY <3>1, <2>3
  <2>5. ~IsTerminator(I[k].inst)
    <3>1. k + 1 \in DOMAIN I /\ k + 1 - 1 = k
      BY <1>1, <2>1
    <3>2. IsTerminator(I[k].inst) => k + 1 \in H
      BY <3>1 DEF Heads
    <3>. QED BY <3>2, <2>4
  <2>. QED BY <1>3, <2>1, <2>4, <2>5
<1>5. ASSUME k = last, k # m
      PROVE  k + 1 \in 1 .. m /\ cfg.first[cfg.block[k + 1]] = k + 1
  <2>1. k + 1 \in 1 .. m
    BY <1>1, <1>5
  <2>2. k + 1 \in H
    <3>1. cfg.block[k + 1] = b => k + 1 <= last
      BY <2>1, BlockEnds
    <3>2. cfg.block[k + 1] # b
      BY <3>1, <1>5
    <3>. QED BY <3>2, <1>3, <2>1
  <2>3. HeadOf(cfg, k + 1) = k + 1
    BY <2>1, <2>2, HeadOfHead
  <2>. QED BY <2>1, <2>3, BlockEnds
<1>. HIDE DEF b, last
<1>. QED BY <1>4, <1>5 DEF b, last

(* Where a branch or a jump goes a block starts.                           *)
LEMMA TargetStartsBlock ==
  ASSUME NEW cfg, NEW n, IsCfg(cfg, n), NEW k \in 1 .. Len(cfg.insts), NEW j \in 1 .. Len(cfg.insts),
         IsBranch(cfg.insts[k].inst) \/ IsJump(cfg.insts[k].inst),
         cfg.insts[j].pc = cfg.insts[k].inst.target
  PROVE  cfg.first[cfg.block[j]] = j
<1>. DEFINE I == cfg.insts
<1>1. DOMAIN I = 1 .. Len(I) /\ Laid(I, n) /\ n \in Nat
  BY CfgParts DEF IsCfg, Laid
<1>2. I[j].pc \in 1 .. n
  BY <1>1, PcsInFunction
<1>3. InRange(I[k].inst.target, 1, n + 1)
  BY <1>1, <1>2 DEF InRange
<1>4. I[j].pc \in Targets(I, 1, n + 1)
  BY <1>1, <1>3 DEF Targets
<1>5. j \in Heads(I, 1, n + 1)
  BY <1>1, <1>4 DEF Heads, Leaders
<1>6. HeadOf(cfg, j) = j
  BY <1>5, HeadOfHead
<1>. QED BY <1>6, BlockEnds

(* The last bundle of a block goes to the starts of the successors of the  *)
(* block, and to all of them.                                              *)
LEMMA Successors ==
  ASSUME NEW cfg, NEW n, IsCfg(cfg, n), NEW k \in 1 .. Len(cfg.insts), k = cfg.last[cfg.block[k]]
  PROVE  LET m == Len(cfg.insts)
             E == EdgePcs(cfg.insts[k])
         IN  /\ \A j \in 1 .. m : cfg.insts[j].pc \in E => cfg.block[j] \in cfg.succs[cfg.block[k]]
             /\ \A s \in cfg.succs[cfg.block[k]] :
                  \E j \in 1 .. m : cfg.insts[j].pc \in E /\ cfg.block[j] = s
<1>. DEFINE I == cfg.insts
            m == Len(I)
            b == cfg.block[k]
            at(t) == CHOOSE j \in DOMAIN I : I[j].pc = t
            E == { u \in EdgePcs(I[k]) : InRange(u, 1, n + 1) }
<1>1. DOMAIN I = 1 .. m /\ m \in Nat /\ Laid(I, n) /\ n \in Nat
  BY CfgParts DEF IsCfg, Laid
<1>2. cfg.succs[b] = { cfg.block[at(t)] : t \in E }
  <2>. DEFINE blk == BlockOf(I, 1, n + 1)
              starts == { blk[j] : j \in DOMAIN I }
              lst == [s \in starts |-> Max({ j \in DOMAIN I : blk[j] = s })]
  <2>1. cfg = Build(I, 1, n + 1)
    BY DEF IsCfg
  <2>2. cfg.block = blk
    BY <2>1 DEF Build
  <2>3. /\ cfg.last = lst
        /\ cfg.succs = [s \in starts |->
                          { blk[at(t)] : t \in { u \in EdgePcs(I[lst[s]]) : InRange(u, 1, n + 1) } }]
    <3>. HIDE DEF I
    <3>. QED BY <2>1, Zenon DEF Build
  <2>. HIDE DEF blk, at
  <2>4. b \in starts
    BY <1>1, <2>2
  <2>. HIDE DEF starts, lst, I, b
  <2>5. cfg.succs[b] = { blk[at(t)] : t \in { u \in EdgePcs(I[lst[b]]) : InRange(u, 1, n + 1) } }
    BY <2>3, <2>4
  <2>6. lst[b] = k
    BY <2>3 DEF b
  <2>7. cfg.succs[b] = { blk[at(t)] : t \in E }
    BY <2>5, <2>6, Zenon
  <2>. HIDE DEF E
  <2>8. { blk[at(t)] : t \in E } = { cfg.block[at(t)] : t \in E }
    BY <2>2
  <2>. QED BY <2>7, <2>8
<1>3. \A j \in 1 .. m : at(I[j].pc) = j
  BY <1>1, IndexOfPc
<1>4. ASSUME NEW j \in 1 .. m, I[j].pc \in EdgePcs(I[k]) PROVE cfg.block[j] \in cfg.succs[b]
  <2>1. I[j].pc \in 1 .. n
    BY <1>1, PcsInFunction
  <2>2. I[j].pc \in E
    BY <1>1, <1>4, <2>1 DEF InRange
  <2>3. at(I[j].pc) = j
    BY <1>3
  <2>. HIDE DEF E, at
  <2>. QED BY <1>2, <2>2, <2>3
<1>5. \A t \in E : \E j \in 1 .. m : I[j].pc = t
  <2>. TAKE t \in E
  <2>1. CASE (IsBranch(I[k].inst) \/ IsJump(I[k].inst)) /\ t = I[k].inst.target
    <3>1. t \in Targets(I, 1, n + 1)
      BY <2>1, <1>1 DEF Targets
    <3>2. t \in Pcs(I)
      BY <3>1 DEF IsCfg, Rejected
    <3>. QED BY <3>2, <1>1 DEF Pcs
  <2>2. CASE t = I[k].inst_pc + 1
    <3>1. k # m
      <4>. SUFFICES ASSUME k = m PROVE FALSE
        OBVIOUS
      <4>1. I[k].inst_pc = n
        BY <1>1, PcsInFunction
      <4>. QED BY <4>1, <2>2, <1>1 DEF InRange
    <3>2. k + 1 \in 1 .. m
      BY <1>1, <3>1
    <3>3. I[k].inst_pc = I[k + 1].pc - 1 /\ I[k + 1].pc \in Nat
      BY <1>1, <3>1, <3>2 DEF Laid
    <3>. QED BY <3>2, <3>3, <2>2
  <2>. QED BY <2>1, <2>2 DEF EdgePcs
<1>6. ASSUME NEW s \in cfg.succs[b]
      PROVE  \E j \in 1 .. m : I[j].pc \in EdgePcs(I[k]) /\ cfg.block[j] = s
  <2>1. PICK t \in E : s = cfg.block[at(t)]
    <3>. HIDE DEF E, at
    <3>. QED BY <1>2
  <2>2. PICK j \in 1 .. m : I[j].pc = t
    BY <1>5
  <2>3. at(t) = j
    BY <1>3, <2>2
  <2>. QED BY <2>1, <2>2, <2>3
<1>. HIDE DEF b, E, at
<1>. QED BY <1>4, <1>6 DEF b

(* Control goes from bundle k to bundle j.                                 *)
Flows(cfg, k, j) == cfg.insts[j].pc \in EdgePcs(cfg.insts[k])

(* The blocks and the edges are all there is: from a bundle control goes   *)
(* to the next of its block, or, from the block's last one, along an edge  *)
(* to the first bundle of a block.                                         *)
THEOREM FlowFollowsEdges ==
  ASSUME NEW cfg, NEW n, IsCfg(cfg, n),
         NEW k \in 1 .. Len(cfg.insts), NEW j \in 1 .. Len(cfg.insts), Flows(cfg, k, j)
  PROVE  LET from == cfg.block[k]
             to   == cfg.block[j]
         IN  \/ k # cfg.last[from] /\ to = from /\ j = k + 1
             \/ k = cfg.last[from] /\ to \in cfg.succs[from] /\ j = cfg.first[to]
<1>. DEFINE I == cfg.insts
            m == Len(I)
<1>1. Laid(I, n) /\ m \in Nat
  BY DEF IsCfg, Laid
<1>2. CASE k # cfg.last[cfg.block[k]]
  <2>1. k + 1 \in 1 .. m /\ cfg.block[k + 1] = cfg.block[k] /\ ~IsTerminator(I[k].inst)
    BY <1>2, NextBundle
  <2>2. I[j].pc = I[k].inst_pc + 1
    BY <2>1 DEF Flows, EdgePcs, IsTerminator
  <2>3. k # m
    BY <2>1, <1>1
  <2>4. I[k].inst_pc = I[k + 1].pc - 1 /\ I[k + 1].pc \in Nat
    BY <2>1, <2>3, <1>1 DEF Laid
  <2>5. j = k + 1
    BY <2>1, <2>2, <2>4, <1>1, PcsDiffer
  <2>. QED BY <1>2, <2>1, <2>5
<1>3. CASE k = cfg.last[cfg.block[k]]
  <2>1. cfg.block[j] \in cfg.succs[cfg.block[k]]
    BY <1>3, Successors DEF Flows
  <2>2. CASE (IsBranch(I[k].inst) \/ IsJump(I[k].inst)) /\ I[j].pc = I[k].inst.target
    BY <1>3, <2>1, <2>2, TargetStartsBlock
  <2>3. CASE I[j].pc = I[k].inst_pc + 1
    <3>1. k # m
      <4>. SUFFICES ASSUME k = m PROVE FALSE
        OBVIOUS
      <4>1. I[k].inst_pc = n /\ n \in Nat
        BY <1>1, PcsInFunction DEF Laid
      <4>2. I[j].pc \in 1 .. n
        BY <1>1, PcsInFunction
      <4>. QED BY <4>1, <4>2, <2>3
    <3>2. k + 1 \in 1 .. m /\ cfg.first[cfg.block[k + 1]] = k + 1
      BY <1>3, <3>1, NextBundle
    <3>3. I[k].inst_pc = I[k + 1].pc - 1 /\ I[k + 1].pc \in Nat
      BY <3>1, <3>2, <1>1 DEF Laid
    <3>4. j = k + 1
      BY <2>3, <3>2, <3>3, <1>1, PcsDiffer
    <3>. QED BY <1>3, <2>1, <3>2, <3>4
  <2>. QED BY <2>2, <2>3 DEF Flows, EdgePcs
<1>. QED BY <1>2, <1>3

(* Control that goes nowhere from a bundle is at the end of a block that   *)
(* has no successors.                                                      *)
LEMMA FlowOut ==
  ASSUME NEW cfg, NEW n, IsCfg(cfg, n), NEW k \in 1 .. Len(cfg.insts),
         \A j \in 1 .. Len(cfg.insts) : ~Flows(cfg, k, j)
  PROVE  k = cfg.last[cfg.block[k]] /\ cfg.succs[cfg.block[k]] = {}
<1>. DEFINE I == cfg.insts
            m == Len(I)
<1>1. Laid(I, n) /\ m \in Nat
  BY DEF IsCfg, Laid
<1>2. k = cfg.last[cfg.block[k]]
  <2>. SUFFICES ASSUME k # cfg.last[cfg.block[k]] PROVE FALSE
    OBVIOUS
  <2>1. k + 1 \in 1 .. m /\ ~IsTerminator(I[k].inst)
    BY NextBundle
  <2>2. I[k].inst_pc = I[k + 1].pc - 1 /\ I[k + 1].pc \in Nat
    BY <2>1, <1>1 DEF Laid
  <2>3. Flows(cfg, k, k + 1)
    BY <2>1, <2>2 DEF Flows, EdgePcs, IsTerminator
  <2>. QED BY <2>1, <2>3
<1>. QED BY <1>2, Successors DEF Flows

(* The successors of a block are blocks.                                   *)
LEMMA SuccsAreBlocks ==
  ASSUME NEW cfg, NEW n, IsCfg(cfg, n), NEW k \in 1 .. Len(cfg.insts)
  PROVE  cfg.succs[cfg.block[k]] \subseteq DOMAIN cfg.succs
<1>. DEFINE L == cfg.last[cfg.block[k]]
<1>1. L \in 1 .. Len(cfg.insts) /\ cfg.block[L] = cfg.block[k] /\ L = cfg.last[cfg.block[L]]
  BY BlockEnds
<1>2. \A s \in cfg.succs[cfg.block[L]] : \E j \in 1 .. Len(cfg.insts) : cfg.block[j] = s
  <2>. HIDE DEF L
  <2>. QED BY <1>1, Successors
<1>. QED BY <1>1, <1>2, BlockEnds

----------------------------------------------------------------------------
(* What the verifier's tests say of the blocks.                            *)

(* The join of an accepted vbranch is the first bundle of a block, and the *)
(* block is named by it.                                                   *)
LEMMA JoinStartsBlock ==
  ASSUME NEW cfg, NEW n, IsCfg(cfg, n), NEW k, JoinIsBlock(cfg, k)
  PROVE  LET d == CurrentRpc(cfg, k)
         IN  /\ d \in DOMAIN cfg.succs
             /\ cfg.first[d] \in 1 .. Len(cfg.insts)
             /\ cfg.block[cfg.first[d]] = d
             /\ cfg.insts[cfg.first[d]].pc = d
             /\ cfg.insts[cfg.first[d]].inst.op = "join"
<1>. DEFINE d == CurrentRpc(cfg, k)
            I == cfg.insts
<1>1. PICK j \in Indices(cfg, "join") : I[j].pc = d /\ cfg.block[j] = I[j].pc
  BY DEF JoinIsBlock
<1>2. j \in 1 .. Len(I) /\ I[j].inst.op = "join" /\ Laid(I, n)
  BY CfgParts DEF Indices, IsCfg
<1>3. cfg.block[j] = d
  BY <1>1
<1>4. /\ d \in DOMAIN cfg.succs
      /\ cfg.first[d] \in 1 .. Len(I) /\ I[cfg.first[d]].pc = d /\ cfg.block[cfg.first[d]] = d
  <2>. HIDE DEF d, I
  <2>. QED BY <1>2, <1>3, BlockEnds DEF I
<1>5. cfg.first[d] = j
  <2>. HIDE DEF d, I
  <2>. QED BY <1>1, <1>2, <1>4, PcsDiffer
<1>. HIDE DEF d
<1>. QED BY <1>2, <1>4, <1>5 DEF d

(* Between a vbranch and its join, when that is another block: the arms    *)
(* start in the region or at the join, control leaves the region for the   *)
(* join only, and no block of the region is an end of the function.        *)
LEMMA RegionIsClosed ==
  ASSUME NEW cfg, NEW n, IsCfg(cfg, n), NEW k \in 1 .. Len(cfg.insts), VBranchOk(cfg, k),
         CurrentRpc(cfg, k) # cfg.block[k]
  PROVE  LET d == CurrentRpc(cfg, k)
             R == Region(cfg, k)
         IN  /\ cfg.succs[cfg.block[k]] \ {d} \subseteq R
             /\ \A b \in R : cfg.succs[b] \ {d} \subseteq R /\ cfg.succs[b] # {}
<1>. DEFINE d == CurrentRpc(cfg, k)
            R == Region(cfg, k)
            N == DOMAIN cfg.succs
            From == cfg.succs[cfg.block[k]] \ {d}
<1>1. R = { b \in N : \A S \in SUBSET N : From \subseteq S /\ Closed(cfg.succs, S, d) => b \in S }
  BY DEF Region, ReachAvoiding, Nodes
<1>2. From \subseteq N
  BY SuccsAreBlocks
<1>3. \A b \in N : cfg.succs[b] \subseteq N
  <2>. TAKE b \in N
  <2>1. PICK j \in 1 .. Len(cfg.insts) : b = cfg.block[j]
    BY CfgParts
  <2>. QED BY <2>1, SuccsAreBlocks
<1>4. PICK S \in SUBSET N : cfg.block[k] \in S /\ Confined(cfg.succs, S, d)
  BY DEF VBranchOk, Postdominates, Nodes
<1>. DEFINE A == S \ {d}
<1>5. A \in SUBSET N /\ From \subseteq A /\ Closed(cfg.succs, A, d)
  BY <1>4 DEF Confined, Closed
<1>. HIDE DEF R, d, N
<1>6. From \subseteq R
  BY <1>1, <1>2
<1>7. R \subseteq A
  <2>. HIDE DEF A, From
  <2>. QED BY <1>1, <1>5
<1>8. ASSUME NEW b \in R PROVE cfg.succs[b] \ {d} \subseteq R
  <2>. SUFFICES ASSUME NEW s \in cfg.succs[b] \ {d} PROVE s \in R
    OBVIOUS
  <2>1. b \in N /\ s \in N
    BY <1>1, <1>3
  <2>2. ASSUME NEW T \in SUBSET N, From \subseteq T, Closed(cfg.succs, T, d) PROVE s \in T
    <3>1. b \in T
      <4>. HIDE DEF From
      <4>. QED BY <1>1, <2>2
    <3>. QED BY <2>2, <3>1 DEF Closed
  <2>. HIDE DEF From
  <2>. QED BY <1>1, <2>1, <2>2
<1>9. ASSUME NEW b \in R PROVE cfg.succs[b] # {}
  BY <1>4, <1>7 DEF Confined
<1>. QED BY <1>6, <1>8, <1>9 DEF R, d

----------------------------------------------------------------------------
(* The lanes.                                                              *)
USE DEF Done

Bundled == 1 .. Len(fn.insts)

Places == Bundled \cup {Done}

(* A function that runs is one the verifier accepts, made of its words.    *)
Accepted ==
  stage = "run" =>
    /\ fn.insts # << >> /\ EndToEnd(fn.insts, words, Len(words))
    /\ IsCfg(fn, Len(words))
    /\ Accepts(fn) /\ Emittable(fn)
    /\ verdict = Verdict(fn)

(* What the lanes' variables hold.                                         *)
LanesType ==
  /\ words \in Programs
  /\ stage \in { "load", "run", "rejected" }
  /\ DOMAIN pc = LaneIds /\ DOMAIN owed = LaneIds
  /\ stage = "load" => pc = [l \in LaneIds |-> 1] /\ owed = [l \in LaneIds |-> {}]
  /\ stage = "run" => \A l \in LaneIds : pc[l] \in Places
  /\ stage = "run" => \A l \in LaneIds : owed[l] \subseteq Range(verdict.joins)
  /\ v \in [LaneIds -> [VRegs -> Values]]
  /\ x \in [XRegs -> Values]

(* A lane that owes a join is in a set of blocks that control leaves only  *)
(* through the join's block, and of that block it is at the first bundle.  *)
ArmHolds(l, d) ==
  /\ pc[l] # Done
  /\ fn.block[pc[l]] = d => pc[l] = fn.first[d]
  /\ \E S \in SUBSET DOMAIN fn.succs : fn.block[pc[l]] \in S /\ Confined(fn.succs, S, d)

ArmsHold ==
  stage = "run" =>
    \A l \in LaneIds : \A d \in owed[l] :
      d \notin { verdict.joins[k] : k \in OwnJoins } => ArmHolds(l, d)

(* Where control goes when the arms of a vbranch are taken for one step    *)
(* from the vbranch to its join.  It stops at a barrier and at the end.    *)
Outer(k) ==
  LET w == fn.insts[k].inst
  IN  IF w.op = "vbranch" THEN fn.first[verdict.joins[k]]
      ELSE IF IsJump(w) \/ (w.op = "branch" /\ Scalar(w.rs1) = Scalar(w.rs2)) THEN IndexOf(w.target)
      ELSE IF Leaves(w) THEN Done
      ELSE NextOf(k)

Stops(k) == k = Done \/ fn.insts[k].inst.op = "barrier"

OuterClosed(S) == \A k \in S : ~Stops(k) => Outer(k) \in S

(* The places on the outer way from s.                                     *)
Orbit(s) == { k \in Places : \A S \in SUBSET Places : s \in S /\ OuterClosed(S) => k \in S }

(* Since the last barrier, or the start, at s every lane has gone the same *)
(* outer way, or is in an arm that leaves it.                              *)
OnWay(s, l) ==
  \/ pc[l] \in Orbit(s)
  \/ /\ pc[l] # Done
     /\ \E k \in Orbit(s) \cap Indices(fn, "vbranch") : fn.block[pc[l]] \in Region(fn, k)

OneWay ==
  stage = "run" /\ verdict.trusted = {} /\ OwnJoins = {} =>
    \E s \in Places : \A l \in LaneIds : OnWay(s, l)

IInv == Accepted /\ LanesType /\ ArmsHold /\ OneWay

----------------------------------------------------------------------------
(* The translator.                                                         *)

LEMMA ProgramsAreSequences ==
  ASSUME NEW p \in Programs
  PROVE  /\ p \in Seq(Words) /\ Len(p) \in Nat /\ DOMAIN p = 1 .. Len(p)
BY ProgramsAssumption, LenProperties

(* A function that is not rejected is one of those that IInv speaks of.    *)
LEMMA LaunchAccepted ==
  ASSUME LanesType, stage = "load", Translate, stage' # "rejected"
  PROVE  /\ Accepted' /\ stage' = "run"
         /\ UNCHANGED << words, pc, owed >>
         /\ x' \in [XRegs -> Values]
         /\ \E in \in [LaneIds -> [Inputs -> Values]] :
              v' = [l \in LaneIds |-> [r \in VRegs |-> IF r \in Inputs THEN in[l][r] ELSE v[l][r]]]
<1>. DEFINE n == Len(words)
            d == Decode(BundleRegext, RequireKnown, words, 1)
            cfg == Build(d.out, 1, n + 1)
<1>1. words \in Seq(Words)
  BY ProgramsAreSequences DEF LanesType
<1>2. /\ d.err = "none" /\ ~Rejected(d.out, 1, n + 1)
      /\ Accepts(cfg) /\ Emittable(cfg) /\ Launch(cfg)
  BY DEF Translate, Reject
<1>3. stage' = "run" /\ fn' = cfg /\ verdict' = Verdict(cfg) /\ words' = words
  BY <1>2 DEF Launch
<1>4. EndToEnd(d.out, words, n)
  BY <1>1, <1>2, DecodeExact
<1>5. d.out # << >>
  BY <1>2 DEF Rejected
<1>6. cfg.insts = d.out
  BY DEF Build
<1>. HIDE DEF cfg, d
<1>7. Laid(d.out, n)
  BY <1>1, <1>4, <1>5, EndToEndLaid
<1>8. IsCfg(cfg, n)
  BY <1>2, <1>6, <1>7 DEF IsCfg, cfg
<1>9. Accepted'
  BY <1>2, <1>3, <1>4, <1>5, <1>6, <1>8 DEF Accepted
<1>. QED BY <1>2, <1>3, <1>9 DEF Launch

----------------------------------------------------------------------------
(* The lanes.                                                              *)

(* Lane l goes to a bundle that control can go to, or leaves from where    *)
(* control goes nowhere.                                                   *)
Moves(l) ==
  \/ pc'[l] \in Bundled /\ Flows(fn, pc[l], pc'[l])
  \/ pc'[l] = Done /\ \A j \in Bundled : ~Flows(fn, pc[l], j)

LEMMA NextOfFlows ==
  ASSUME Accepted, stage = "run", NEW k \in Bundled,
         ~IsJump(fn.insts[k].inst), ~Leaves(fn.insts[k].inst)
  PROVE  \/ NextOf(k) \in Bundled /\ Flows(fn, k, NextOf(k))
         \/ /\ NextOf(k) = Done /\ ~IsBranch(fn.insts[k].inst)
            /\ \A j \in Bundled : ~Flows(fn, k, j)
<1>. DEFINE I == fn.insts
            m == Len(I)
            n == Len(words)
<1>1. IsCfg(fn, n) /\ Emittable(fn) /\ Laid(I, n) /\ m \in Nat /\ DOMAIN I = 1 .. m /\ n \in Nat
  BY CfgParts DEF Accepted, IsCfg, Laid
<1>2. I[k].inst_pc + 1 \in EdgePcs(I[k])
  BY DEF EdgePcs
<1>3. CASE k = m
  <2>1. I[k].inst_pc = n
    BY <1>1, <1>3, PcsInFunction DEF Bundled
  <2>2. \A j \in 1 .. m : I[j].pc # n + 1
    <3>1. \A j \in 1 .. m : I[j].pc \in 1 .. n
      BY <1>1, PcsInFunction
    <3>. QED BY <1>1, <3>1
  <2>3. ~IsBranch(I[k].inst)
    <3>1. IsBranch(I[k].inst) => n + 1 \in Pcs(I)
      BY <1>1, <1>2, <2>1 DEF Emittable, Bundled
    <3>. QED BY <1>1, <2>2, <3>1 DEF Pcs
  <2>4. EdgePcs(I[k]) = { n + 1 }
    BY <2>1, <2>3 DEF EdgePcs
  <2>. QED BY <1>3, <2>2, <2>3, <2>4 DEF NextOf, Flows, Bundled
<1>4. CASE k # m
  <2>1. k + 1 \in 1 .. m
    BY <1>1, <1>4 DEF Bundled
  <2>2. I[k].inst_pc = I[k + 1].pc - 1 /\ I[k + 1].pc \in Nat
    BY <1>1, <1>4, <2>1 DEF Laid, Bundled
  <2>3. I[k].inst_pc + 1 = I[k + 1].pc
    BY <2>2
  <2>. QED BY <1>2, <1>4, <2>1, <2>3 DEF NextOf, Flows, Bundled
<1>. QED BY <1>3, <1>4

LEMMA TargetFlows ==
  ASSUME Accepted, stage = "run", NEW k \in Bundled,
         IsBranch(fn.insts[k].inst) \/ IsJump(fn.insts[k].inst)
  PROVE  LET j == IndexOf(fn.insts[k].inst.target)
         IN  j \in Bundled /\ Flows(fn, k, j) /\ fn.insts[j].pc = fn.insts[k].inst.target
<1>. DEFINE I == fn.insts
            t == I[k].inst.target
<1>1. DOMAIN I = Bundled /\ Emittable(fn)
  BY CfgParts DEF Accepted, Bundled
<1>2. t \in EdgePcs(I[k])
  BY DEF EdgePcs
<1>3. t \in Pcs(I)
  BY <1>1, <1>2 DEF Emittable
<1>4. IndexOf(t) \in DOMAIN I /\ I[IndexOf(t)].pc = t
  BY <1>3 DEF Pcs, IndexOf
<1>. QED BY <1>1, <1>2, <1>4 DEF Flows

(* A step of a lane: it alone moves, and the registers it writes are its   *)
(* own.                                                                    *)
LEMMA LaneMoves ==
  ASSUME Accepted, LanesType, NEW l \in LaneIds, LaneStep(l)
  PROVE  /\ stage = "run" /\ pc[l] \in Bundled
         /\ UNCHANGED << words, stage, fn, verdict, x >>
         /\ DOMAIN pc' = LaneIds /\ \A m \in LaneIds : m # l => pc'[m] = pc[m]
         /\ Moves(l)
<1>. DEFINE k == pc[l]
            w == fn.insts[k].inst
<1>1. stage = "run" /\ k \in Bundled
  <2>1. Running(l)
    BY DEF LaneStep, Inert, VectorOp, GetId, TakeJump, ScalarBranch, VectorBranch, Return
  <2>. QED BY <2>1 DEF Running, LanesType, Places
<1>2. UNCHANGED << words, stage, fn, verdict, x >>
  BY DEF LaneStep, Inert, VectorOp, GetId, TakeJump, ScalarBranch, VectorBranch, Return
<1>3. ASSUME NEW j, Goto(l, j)
      PROVE  pc'[l] = j /\ DOMAIN pc' = LaneIds /\ \A m \in LaneIds : m # l => pc'[m] = pc[m]
  BY <1>3 DEF Goto, LanesType
<1>4. ASSUME Goto(l, NextOf(k)), ~IsJump(w), ~Leaves(w)
      PROVE  pc'[l] = NextOf(k) /\ Moves(l)
  <2>1. pc'[l] = NextOf(k)
    BY <1>3, <1>4
  <2>2. \/ NextOf(k) \in Bundled /\ Flows(fn, k, NextOf(k))
        \/ NextOf(k) = Done /\ \A j \in Bundled : ~Flows(fn, k, j)
    BY <1>1, <1>4, NextOfFlows
  <2>. QED BY <2>1, <2>2 DEF Moves
<1>5. ASSUME Goto(l, IndexOf(w.target)), IsBranch(w) \/ IsJump(w)
      PROVE  pc'[l] = IndexOf(w.target) /\ Moves(l)
  <2>1. pc'[l] = IndexOf(w.target)
    BY <1>3, <1>5
  <2>2. IndexOf(w.target) \in Bundled /\ Flows(fn, k, IndexOf(w.target))
    BY <1>1, <1>5, TargetFlows
  <2>. QED BY <2>1, <2>2 DEF Moves
<1>6. CASE Inert(l)
  <2>1. Goto(l, NextOf(k)) /\ ~IsJump(w) /\ ~Leaves(w)
    BY <1>6 DEF Inert, At, InertOps, IsJump, Leaves
  <2>. QED BY <2>1, <1>1, <1>2, <1>3, <1>4
<1>7. CASE VectorOp(l)
  <2>1. Goto(l, NextOf(k)) /\ ~IsJump(w) /\ ~Leaves(w)
    BY <1>7 DEF VectorOp, At, VectorOps, IsJump, Leaves
  <2>. QED BY <2>1, <1>1, <1>2, <1>3, <1>4
<1>8. CASE GetId(l)
  <2>1. Goto(l, NextOf(k)) /\ ~IsJump(w) /\ ~Leaves(w)
    BY <1>8 DEF GetId, At, IsJump, Leaves
  <2>. QED BY <2>1, <1>1, <1>2, <1>3, <1>4
<1>9. CASE TakeJump(l)
  <2>1. Goto(l, IndexOf(w.target)) /\ IsJump(w)
    BY <1>9 DEF TakeJump, At
  <2>. QED BY <2>1, <1>1, <1>2, <1>3, <1>5
<1>10. ASSUME NEW c, Goto(l, IF c THEN IndexOf(w.target) ELSE NextOf(k)), IsBranch(w)
       PROVE  (\E j : Goto(l, j)) /\ Moves(l)
  <2>1. ~IsJump(w) /\ ~Leaves(w)
    BY <1>10 DEF IsBranch, IsJump, Leaves
  <2>2. CASE c
    BY <2>2, <1>5, <1>10
  <2>3. CASE ~c
    BY <2>1, <2>3, <1>4, <1>10
  <2>. QED BY <2>2, <2>3
<1>11. CASE ScalarBranch(l)
  <2>1. /\ Goto(l, IF Scalar(w.rs1) = Scalar(w.rs2) THEN IndexOf(w.target) ELSE NextOf(k))
        /\ IsBranch(w)
    BY <1>11 DEF ScalarBranch, At, IsBranch
  <2>. QED BY <2>1, <1>1, <1>2, <1>3, <1>10
<1>12. CASE VectorBranch(l)
  <2>1. /\ Goto(l, IF v[l][w.rs2] = v[l][w.rs1] THEN IndexOf(w.target) ELSE NextOf(k))
        /\ IsBranch(w)
    BY <1>12 DEF VectorBranch, At, IsBranch
  <2>. QED BY <2>1, <1>1, <1>2, <1>3, <1>10
<1>13. CASE Return(l)
  <2>1. Goto(l, Done) /\ Leaves(w)
    BY <1>13 DEF Return, At
  <2>2. EdgePcs(fn.insts[k]) = {}
    BY <2>1 DEF EdgePcs, IsBranch, IsJump, Leaves
  <2>3. \A j \in Bundled : ~Flows(fn, k, j)
    BY <2>2 DEF Flows
  <2>. QED BY <2>1, <2>3, <1>1, <1>2, <1>3 DEF Moves
<1>. QED BY <1>6, <1>7, <1>8, <1>9, <1>11, <1>12, <1>13 DEF LaneStep

(* The barrier: every lane moves that has not left.                        *)
LEMMA BarrierMoves ==
  ASSUME Accepted, LanesType, BarSync
  PROVE  /\ stage = "run"
         /\ UNCHANGED << words, stage, fn, verdict, x, v, owed >>
         /\ DOMAIN pc' = LaneIds
         /\ \A l \in LaneIds : /\ AtBarrier(l) => pc'[l] = NextOf(pc[l]) /\ Moves(l) /\ pc[l] \in Bundled
                               /\ ~AtBarrier(l) => pc'[l] = Done /\ pc[l] = Done
<1>1. stage = "run"
  BY DEF BarSync, BarrierComplete, AtBarrier, Running
<1>2. ASSUME NEW l \in LaneIds, AtBarrier(l)
      PROVE  pc'[l] = NextOf(pc[l]) /\ Moves(l) /\ pc[l] \in Bundled
  <2>1. pc[l] \in Bundled /\ fn.insts[pc[l]].inst.op = "barrier"
    BY <1>1, <1>2 DEF AtBarrier, Running, At, LanesType, Places
  <2>2. pc'[l] = NextOf(pc[l])
    BY <1>2 DEF BarSync
  <2>3. ~IsJump(fn.insts[pc[l]].inst) /\ ~Leaves(fn.insts[pc[l]].inst)
    BY <2>1 DEF IsJump, Leaves
  <2>. QED BY <1>1, <2>1, <2>2, <2>3, NextOfFlows DEF Moves
<1>3. ASSUME NEW l \in LaneIds, ~AtBarrier(l) PROVE pc'[l] = Done /\ pc[l] = Done
  BY <1>3 DEF BarSync, BarrierComplete
<1>. QED BY <1>1, <1>2, <1>3 DEF BarSync

----------------------------------------------------------------------------
(* Types.                                                                  *)

LEMMA ValuesAre ==
  /\ Cardinality(Values) \in Nat \ {0} /\ 0 \in Values
  /\ \A a \in Nat : a % Cardinality(Values) \in Values
<1>. DEFINE N == Cardinality(Values)
<1>1. N \in Nat
  BY ValuesAssumption, FS_CardinalityType
<1>2. N # 0
  BY ValuesAssumption, FS_EmptySet
<1>3. Values = 0 .. N - 1
  BY ValuesAssumption
<1>. HIDE DEF N
<1>4. \A a \in Nat : a % N \in 0 .. N - 1
  BY <1>1, <1>2
<1>5. 0 \in 0 .. N - 1
  BY <1>1, <1>2
<1>6. N \in Nat \ {0} /\ 0 \in Values /\ \A a \in Nat : a % N \in Values
  BY <1>1, <1>2, <1>3, <1>4, <1>5
<1>. QED BY <1>6 DEF N

LEMMA ValuesAreNat == Values \subseteq Nat
<1>1. Cardinality(Values) \in Nat
  BY ValuesAre
<1>2. 0 .. Cardinality(Values) - 1 \subseteq Nat
  BY <1>1
<1>. QED BY <1>2, ValuesAssumption

LEMMA NatProduct == ASSUME NEW a \in Nat, NEW b \in Nat PROVE a * b \in Nat
OBVIOUS

(* The registers of a bundle, extended or not, are modelled ones.          *)
LEMMA BundleInFile ==
  ASSUME Accepted, LanesType, stage = "run", NEW k \in Bundled
  PROVE  InFile(fn.insts[k].inst)
<1>. DEFINE b == fn.insts[k]
<1>1. IsBundle(words, b) /\ words \in Programs
  BY DEF Accepted, EndToEnd, Bundled, LanesType
<1>2. DOMAIN words = 1 .. Len(words) /\ Len(words) \in Nat
  BY <1>1, ProgramsAreSequences
<1>. HIDE DEF b
<1>3. CASE b.pc = b.inst_pc /\ b.inst = words[b.pc]
  BY <1>1, <1>3, ProgramsAssumption DEF IsBundle, b
<1>4. CASE /\ b.pc = b.inst_pc - 1 /\ IsRegext(words[b.pc])
           /\ b.inst = Extended(words[b.inst_pc], words[b.pc])
  <2>1. b.inst_pc \in DOMAIN words /\ b.pc \in DOMAIN words
    BY <1>1 DEF IsBundle
  <2>2. b.inst_pc \in DOMAIN words \ {1}
    BY <1>2, <1>4, <2>1
  <2>. QED BY <1>1, <1>4, <2>2, ProgramsAssumption DEF b
<1>. QED BY <1>1, <1>3, <1>4 DEF IsBundle

(* What a vector operation leaves in its destination is a value.           *)
LEMMA ResultIsValue ==
  ASSUME LanesType, NEW l \in LaneIds, NEW w, w.op \in VectorOps, InFile(w), NEW r \in Result(l, w)
  PROVE  r \in Values
<1>. DEFINE N == Cardinality(Values)
<1>1. v[l] \in [VRegs -> Values] /\ x \in [XRegs -> Values] /\ l \in Nat
  BY LanesAssumption DEF LanesType
<1>2. 0 \in Values /\ \A a \in Nat : a % N \in Values
  BY ValuesAre
<1>3. ASSUME NEW a \in VRegs PROVE v[l][a] \in Values /\ v[l][a] \in Nat
  BY <1>1, ValuesAreNat
<1>4. ASSUME NEW a \in XRegs \cup {0} PROVE Scalar(a) \in Values /\ Scalar(a) \in Nat
  BY <1>1, <1>2, ValuesAreNat DEF Scalar
<1>. HIDE DEF N
<1>5. CASE w.op = "vmv_v_x"
  <2>1. Result(l, w) = { Scalar(w.rs1) } /\ w.rs1 \in XRegs \cup {0}
    BY <1>5 DEF Result, InFile
  <2>. QED BY <2>1, <1>4
<1>6. CASE w.op = "vid_v"
  <2>1. Result(l, w) = { l % N }
    BY <1>6 DEF Result, N
  <2>. QED BY <2>1, <1>1, <1>2
<1>7. CASE w.op = "load_v"
  BY <1>7 DEF Result
<1>8. CASE w.op = "op_v"
  <2>1. Result(l, w) = { v[l][w.rs2] } /\ w.rs2 \in VRegs
    BY <1>8 DEF Result, InFile
  <2>. QED BY <2>1, <1>3
<1>9. CASE w.op = "op_vv"
  <2>1. Result(l, w) = { (v[l][w.rs2] + v[l][w.rs1]) % N } /\ w.rs2 \in VRegs /\ w.rs1 \in VRegs
    BY <1>9 DEF Result, InFile, N
  <2>2. v[l][w.rs2] + v[l][w.rs1] \in Nat
    BY <2>1, <1>3
  <2>. QED BY <2>1, <2>2, <1>2
<1>10. CASE w.op = "op_vx"
  <2>1. /\ Result(l, w) = { (v[l][w.rs2] + Scalar(w.rs1)) % N }
        /\ w.rs2 \in VRegs /\ w.rs1 \in XRegs \cup {0}
    BY <1>10 DEF Result, InFile, N
  <2>2. v[l][w.rs2] + Scalar(w.rs1) \in Nat
    BY <2>1, <1>3, <1>4
  <2>. QED BY <2>1, <2>2, <1>2
<1>11. CASE w.op \in { "macc_vv", "madd_vv" }
  <2>1. w.rd \in VRegs /\ w.rs1 \in VRegs /\ w.rs2 \in VRegs
    BY <1>11 DEF InFile, VectorOps
  <2>. DEFINE a == v[l][w.rd]
              b == v[l][w.rs2]
              c == v[l][w.rs1]
  <2>2. a \in Nat /\ b \in Nat /\ c \in Nat
    BY <2>1, <1>3
  <2>3. Result(l, w) = { (a + b * c) % N } \/ Result(l, w) = { (b + a * c) % N }
    BY <1>11 DEF Result, N
  <2>. HIDE DEF a, b, c
  <2>4. a + b * c \in Nat /\ b + a * c \in Nat
    BY <2>2, NatProduct
  <2>. QED BY <2>3, <2>4, <1>2
<1>. QED BY <1>5, <1>6, <1>7, <1>8, <1>9, <1>10, <1>11 DEF VectorOps

(* The joins that the verdict names.                                       *)
LEMMA JoinsAre ==
  ASSUME Accepted, stage = "run"
  PROVE  /\ DOMAIN verdict.joins = Indices(fn, "vbranch")
         /\ \A k \in Indices(fn, "vbranch") :
              /\ verdict.joins[k] = CurrentRpc(fn, k) /\ VBranchOk(fn, k)
              /\ verdict.joins[k] \in Range(verdict.joins)
         /\ \A d \in Range(verdict.joins) : \E k \in Indices(fn, "vbranch") : d = verdict.joins[k]
<1>1. verdict = Verdict(fn) /\ Accepts(fn)
  BY DEF Accepted
<1>2. verdict.joins = [k \in Indices(fn, "vbranch") |-> CurrentRpc(fn, k)]
  BY <1>1 DEF Verdict
<1>3. \A k \in Indices(fn, "vbranch") : VBranchOk(fn, k)
  BY <1>1 DEF Accepts
<1>. QED BY <1>2, <1>3 DEF Range

LEMMA InvInit == Init => IInv
<1>. SUFFICES ASSUME Init PROVE IInv
  OBVIOUS
<1>1. stage = "load"
  BY DEF Init
<1>2. v \in [LaneIds -> [VRegs -> Values]] /\ x \in [XRegs -> Values]
  BY ValuesAre DEF Init
<1>3. LanesType
  BY <1>1, <1>2 DEF Init, LanesType
<1>. QED BY <1>1, <1>3 DEF IInv, Accepted, ArmsHold, OneWay

(* The way of every lane begins where the lane is.                         *)
LEMMA OrbitStarts == ASSUME NEW s \in Places PROVE s \in Orbit(s)
BY DEF Orbit

LEMMA InvTranslate ==
  ASSUME LanesType, Translate
  PROVE  IInv'
<1>1. stage = "load"
  BY DEF Translate
<1>2. CASE stage' = "rejected"
  <2>1. Reject
    BY <1>2 DEF Translate, Launch
  <2>2. LanesType'
    BY <1>2, <2>1 DEF Reject, LanesType
  <2>. QED BY <1>2, <2>2 DEF IInv, Accepted, ArmsHold, OneWay
<1>3. CASE stage' # "rejected"
  <2>1. /\ Accepted' /\ stage' = "run" /\ words' = words /\ pc' = pc /\ owed' = owed
        /\ x' \in [XRegs -> Values]
        /\ \E in \in [LaneIds -> [Inputs -> Values]] :
             v' = [l \in LaneIds |-> [r \in VRegs |-> IF r \in Inputs THEN in[l][r] ELSE v[l][r]]]
    BY <1>1, <1>3, LaunchAccepted
  <2>2. pc = [l \in LaneIds |-> 1] /\ owed = [l \in LaneIds |-> {}]
    BY <1>1 DEF LanesType
  <2>3. v' \in [LaneIds -> [VRegs -> Values]]
    <3>1. PICK in \in [LaneIds -> [Inputs -> Values]] :
             v' = [l \in LaneIds |-> [r \in VRegs |-> IF r \in Inputs THEN in[l][r] ELSE v[l][r]]]
      BY <2>1
    <3>2. v \in [LaneIds -> [VRegs -> Values]]
      BY DEF LanesType
    <3>. QED BY <3>1, <3>2
  <2>4. 1 \in Places'
    <3>1. IsCfg(fn, Len(words))'
      BY <2>1 DEF Accepted
    <3>2. (1 \in 1 .. Len(fn.insts))'
      BY <3>1, CfgParts
    <3>. QED BY <3>2 DEF Places, Bundled
  <2>5. LanesType'
    BY <2>1, <2>2, <2>3, <2>4 DEF LanesType
  <2>6. ArmsHold'
    BY <2>1, <2>2 DEF ArmsHold
  <2>7. (1 \in Orbit(1))'
    BY <2>4 DEF Orbit
  <2>8. OneWay'
    BY <2>1, <2>2, <2>4, <2>7 DEF OneWay, OnWay
  <2>. QED BY <2>1, <2>5, <2>6, <2>8 DEF IInv
<1>. QED BY <1>2, <1>3

(* A step of a lane or of the barrier leaves the function as it is.        *)
LEMMA AcceptedKept ==
  ASSUME Accepted, UNCHANGED << words, stage, fn, verdict >>
  PROVE  Accepted'
BY DEF Accepted

LEMMA TypeLaneStep ==
  ASSUME Accepted, LanesType, NEW l \in LaneIds, LaneStep(l)
  PROVE  LanesType'
<1>. DEFINE k == pc[l]
            w == fn.insts[k].inst
<1>1. /\ stage = "run" /\ k \in Bundled
      /\ UNCHANGED << words, stage, fn, verdict, x >>
      /\ DOMAIN pc' = LaneIds /\ \A m \in LaneIds : m # l => pc'[m] = pc[m]
      /\ Moves(l)
  BY LaneMoves
<1>2. \A m \in LaneIds : pc'[m] \in Places
  BY <1>1 DEF Moves, LanesType, Places
<1>3. \A m \in LaneIds : pc'[m] \in Places'
  BY <1>1, <1>2 DEF Places, Bundled
<1>4. v' \in [LaneIds -> [VRegs -> Values]]
  <2>1. v \in [LaneIds -> [VRegs -> Values]]
    BY DEF LanesType
  <2>2. ASSUME NEW r, NEW a \in Values, v' = [v EXCEPT ![l][r] = a]
        PROVE  v' \in [LaneIds -> [VRegs -> Values]]
    BY <2>1, <2>2
  <2>3. CASE VectorOp(l)
    <3>1. PICK r \in Result(l, w) : v' = [v EXCEPT ![l][w.rd] = r]
      BY <2>3 DEF VectorOp, At
    <3>2. w.op \in VectorOps
      BY <2>3 DEF VectorOp, At
    <3>3. InFile(w)
      BY <1>1, BundleInFile
    <3>4. r \in Values
      BY <3>2, <3>3, ResultIsValue
    <3>. QED BY <2>2, <3>1, <3>4
  <2>4. CASE GetId(l)
    <3>. DEFINE a == IF v[l][0] = 0 THEN l % Cardinality(Values) ELSE 0
    <3>1. a \in Values
      BY ValuesAre, LanesAssumption
    <3>2. v' = [v EXCEPT ![l][0] = a]
      BY <2>4 DEF GetId
    <3>. HIDE DEF a
    <3>. QED BY <2>2, <3>1, <3>2
  <2>5. CASE ~VectorOp(l) /\ ~GetId(l)
    <3>1. v' = v
      BY <2>5 DEF LaneStep, Inert, TakeJump, ScalarBranch, VectorBranch, Return
    <3>. QED BY <2>1, <3>1
  <2>. QED BY <2>3, <2>4, <2>5
<1>5. DOMAIN owed' = LaneIds /\ \A m \in LaneIds : owed'[m] \subseteq Range(verdict.joins)
  <2>1. DOMAIN owed = LaneIds /\ \A m \in LaneIds : owed[m] \subseteq Range(verdict.joins)
    BY <1>1 DEF LanesType
  <2>2. CASE Inert(l)
    <3>1. \E D : owed' = [owed EXCEPT ![l] = @ \ D]
      BY <2>2 DEF Inert
    <3>. QED BY <2>1, <3>1
  <2>3. CASE VectorBranch(l)
    <3>1. owed' = [owed EXCEPT ![l] = @ \cup { verdict.joins[k] }] /\ w.op = "vbranch"
      BY <2>3 DEF VectorBranch, At
    <3>2. k \in Indices(fn, "vbranch")
      BY <1>1, <3>1, CfgParts DEF Indices, Bundled, Accepted
    <3>3. verdict.joins[k] \in Range(verdict.joins)
      BY <1>1, <3>2, JoinsAre
    <3>. QED BY <2>1, <3>1, <3>3
  <2>4. CASE ~Inert(l) /\ ~VectorBranch(l)
    <3>1. owed' = owed
      BY <2>4 DEF LaneStep, VectorOp, GetId, TakeJump, ScalarBranch, Return
    <3>. QED BY <2>1, <3>1
  <2>. QED BY <2>2, <2>3, <2>4
<1>. QED BY <1>1, <1>3, <1>4, <1>5 DEF LanesType

LEMMA TypeBarSync ==
  ASSUME Accepted, LanesType, BarSync
  PROVE  LanesType'
<1>1. /\ stage = "run" /\ UNCHANGED << words, stage, fn, verdict, x, v, owed >>
      /\ DOMAIN pc' = LaneIds
  BY BarrierMoves
<1>2. \A l \in LaneIds : pc'[l] \in Places
  BY BarrierMoves DEF Moves, Places
<1>3. \A l \in LaneIds : pc'[l] \in Places'
  BY <1>1, <1>2 DEF Places, Bundled
<1>. QED BY <1>1, <1>3 DEF LanesType

----------------------------------------------------------------------------
(* The arms.                                                               *)

(* Control that is held until it enters d stays held, or enters d at its   *)
(* first bundle.                                                           *)
LEMMA ArmMoves ==
  ASSUME Accepted, stage = "run", NEW l \in LaneIds, pc[l] \in Bundled, Moves(l),
         NEW d, NEW S \in SUBSET DOMAIN fn.succs,
         fn.block[pc[l]] \in S, Confined(fn.succs, S, d), fn.block[pc[l]] # d
  PROVE  /\ pc'[l] \in Bundled
         /\ fn.block[pc'[l]] \in S
         /\ fn.block[pc'[l]] = d => pc'[l] = fn.first[d]
<1>. DEFINE k == pc[l]
            j == pc'[l]
            b == fn.block[k]
<1>1. IsCfg(fn, Len(words))
  BY DEF Accepted
<1>2. fn.succs[b] # {} /\ fn.succs[b] \subseteq S
  BY DEF Confined
<1>3. j \in Bundled /\ Flows(fn, k, j)
  <2>1. CASE j = Done /\ \A i \in Bundled : ~Flows(fn, k, i)
    BY <1>1, <1>2, <2>1, FlowOut DEF Bundled
  <2>. QED BY <2>1 DEF Moves
<1>4. \/ k # fn.last[b] /\ fn.block[j] = b /\ j = k + 1
      \/ k = fn.last[b] /\ fn.block[j] \in fn.succs[b] /\ j = fn.first[fn.block[j]]
  BY <1>1, <1>3, FlowFollowsEdges DEF Bundled
<1>. QED BY <1>2, <1>3, <1>4

LEMMA ArmsLaneStep ==
  ASSUME Accepted, LanesType, ArmsHold, NEW l \in LaneIds, LaneStep(l)
  PROVE  ArmsHold'
<1>. DEFINE k == pc[l]
            w == fn.insts[k].inst
            Own == { verdict.joins[i] : i \in OwnJoins }
<1>1. /\ stage = "run" /\ k \in Bundled
      /\ UNCHANGED << words, stage, fn, verdict, x >>
      /\ \A m \in LaneIds : m # l => pc'[m] = pc[m]
      /\ Moves(l)
  BY LaneMoves
<1>2. Own' = Own
  BY <1>1 DEF OwnJoins
<1>3. /\ \A m \in LaneIds : m # l => owed'[m] = owed[m]
      /\ \A d \in owed'[l] : d \in owed[l] \/ (w.op = "vbranch" /\ d = verdict.joins[k])
      /\ w.op = "join" => fn.insts[k].pc \notin owed'[l]
  <2>1. DOMAIN owed = LaneIds
    BY DEF LanesType
  <2>2. CASE Inert(l)
    <3>. DEFINE D == IF w.op = "join" THEN { fn.insts[k].pc } ELSE {}
    <3>1. owed' = [owed EXCEPT ![l] = @ \ D]
      BY <2>2 DEF Inert, At
    <3>2. w.op = "join" => fn.insts[k].pc \in D
      OBVIOUS
    <3>. HIDE DEF D
    <3>. QED BY <2>1, <3>1, <3>2
  <2>3. CASE VectorBranch(l)
    <3>1. owed' = [owed EXCEPT ![l] = @ \cup { verdict.joins[k] }] /\ w.op = "vbranch"
      BY <2>3 DEF VectorBranch, At
    <3>. QED BY <2>1, <3>1
  <2>4. CASE ~Inert(l) /\ ~VectorBranch(l)
    <3>1. owed' = owed /\ w.op # "join"
      BY <2>4 DEF LaneStep, VectorOp, GetId, TakeJump, ScalarBranch, Return, At, VectorOps, IsJump, Leaves
    <3>. QED BY <3>1
  <2>. QED BY <2>2, <2>3, <2>4
<1>4. ASSUME NEW m \in LaneIds, m # l, NEW d \in owed'[m], d \notin Own
      PROVE  ArmHolds(m, d)'
  <2>1. ArmHolds(m, d)
    BY <1>1, <1>3, <1>4 DEF ArmsHold
  <2>2. pc'[m] = pc[m] /\ fn' = fn
    BY <1>1, <1>4
  <2>. QED BY <2>1, <2>2 DEF ArmHolds
<1>5. ASSUME NEW d \in owed'[l], d \notin Own
      PROVE  ArmHolds(l, d)'
  <2>1. fn.block[k] # d /\ \E S \in SUBSET DOMAIN fn.succs : fn.block[k] \in S /\ Confined(fn.succs, S, d)
    <3>1. CASE d \in owed[l]
      <4>1. ArmHolds(l, d)
        BY <1>1, <1>5, <3>1 DEF ArmsHold
      <4>2. ASSUME fn.block[k] = d PROVE FALSE
        <5>1. k = fn.first[d]
          BY <4>1, <4>2 DEF ArmHolds
        <5>2. d \in Range(verdict.joins)
          BY <1>1, <3>1 DEF LanesType
        <5>3. PICK i \in Indices(fn, "vbranch") : d = CurrentRpc(fn, i) /\ VBranchOk(fn, i)
          BY <1>1, <5>2, JoinsAre
        <5>4. w.op = "join" /\ fn.insts[k].pc = d
          BY <1>1, <5>1, <5>3, JoinStartsBlock DEF VBranchOk, Accepted
        <5>. QED BY <1>3, <1>5, <5>4
      <4>. QED BY <4>1, <4>2 DEF ArmHolds
    <3>2. CASE w.op = "vbranch" /\ d = verdict.joins[k]
      <4>1. k \in Indices(fn, "vbranch")
        BY <1>1, <3>2, CfgParts DEF Indices, Bundled, Accepted
      <4>2. VBranchOk(fn, k) /\ d = CurrentRpc(fn, k) /\ k \in DOMAIN verdict.joins
        BY <1>1, <3>2, <4>1, JoinsAre
      <4>3. d # fn.block[k]
        BY <1>5, <3>2, <4>2 DEF OwnJoins
      <4>. QED BY <4>2, <4>3 DEF VBranchOk, Postdominates, Nodes
    <3>. QED BY <1>3, <1>5, <3>1, <3>2
  <2>2. PICK S \in SUBSET DOMAIN fn.succs : fn.block[k] \in S /\ Confined(fn.succs, S, d)
    BY <2>1
  <2>3. /\ pc'[l] \in Bundled /\ fn.block[pc'[l]] \in S
        /\ fn.block[pc'[l]] = d => pc'[l] = fn.first[d]
    BY <1>1, <2>1, <2>2, ArmMoves
  <2>4. pc'[l] # Done
    BY <2>3 DEF Bundled
  <2>. QED BY <1>1, <2>2, <2>3, <2>4 DEF ArmHolds
<1>. HIDE DEF Own
<1>6. \A m \in LaneIds : \A d \in owed'[m] : d \notin Own => ArmHolds(m, d)'
  BY <1>4, <1>5
<1>. QED BY <1>2, <1>6 DEF ArmsHold, Own

(* A lane at a barrier owes what it owed: the barrier's block is not the   *)
(* join's, unless it is in the arm.                                        *)
LEMMA ArmsBarSync ==
  ASSUME Accepted, LanesType, ArmsHold, BarSync
  PROVE  ArmsHold'
<1>. DEFINE Own == { verdict.joins[i] : i \in OwnJoins }
<1>1. stage = "run" /\ UNCHANGED << words, stage, fn, verdict, x, v, owed >>
  BY BarrierMoves
<1>2. Own' = Own
  BY <1>1 DEF OwnJoins
<1>3. ASSUME NEW l \in LaneIds, NEW d \in owed[l], d \notin Own
      PROVE  ArmHolds(l, d)'
  <2>1. ArmHolds(l, d)
    BY <1>1, <1>3 DEF ArmsHold
  <2>2. AtBarrier(l) /\ Moves(l) /\ pc[l] \in Bundled
    BY <2>1, BarrierMoves DEF ArmHolds
  <2>3. ASSUME fn.block[pc[l]] = d PROVE FALSE
    <3>1. pc[l] = fn.first[d]
      BY <2>1, <2>3 DEF ArmHolds
    <3>2. d \in Range(verdict.joins)
      BY <1>1 DEF LanesType
    <3>3. PICK i \in Indices(fn, "vbranch") : d = CurrentRpc(fn, i) /\ VBranchOk(fn, i)
      BY <1>1, <3>2, JoinsAre
    <3>4. fn.insts[pc[l]].inst.op = "join"
      BY <1>1, <3>1, <3>3, JoinStartsBlock DEF VBranchOk, Accepted
    <3>. QED BY <2>2, <3>4 DEF AtBarrier, At
  <2>4. PICK S \in SUBSET DOMAIN fn.succs : fn.block[pc[l]] \in S /\ Confined(fn.succs, S, d)
    BY <2>1 DEF ArmHolds
  <2>5. /\ pc'[l] \in Bundled /\ fn.block[pc'[l]] \in S
        /\ fn.block[pc'[l]] = d => pc'[l] = fn.first[d]
    BY <1>1, <2>2, <2>3, <2>4, ArmMoves
  <2>6. pc'[l] # Done
    BY <2>5 DEF Bundled
  <2>. QED BY <1>1, <2>4, <2>5, <2>6 DEF ArmHolds
<1>. HIDE DEF Own
<1>4. \A l \in LaneIds : \A d \in owed'[l] : d \notin Own => ArmHolds(l, d)'
  BY <1>1, <1>3
<1>. QED BY <1>2, <1>4 DEF ArmsHold, Own

----------------------------------------------------------------------------
(* The outer way.                                                          *)

LEMMA OuterIsPlace ==
  ASSUME Accepted, stage = "run", NEW k \in Bundled
  PROVE  Outer(k) \in Places
<1>. DEFINE w == fn.insts[k].inst
<1>1. DOMAIN fn.insts = Bundled /\ Len(fn.insts) \in Nat /\ IsCfg(fn, Len(words))
  BY CfgParts DEF Accepted, Bundled
<1>2. CASE w.op = "vbranch"
  <2>1. k \in Indices(fn, "vbranch")
    BY <1>1, <1>2 DEF Indices
  <2>2. verdict.joins[k] = CurrentRpc(fn, k) /\ VBranchOk(fn, k)
    BY <2>1, JoinsAre
  <2>3. fn.first[verdict.joins[k]] \in Bundled
    BY <1>1, <2>2, JoinStartsBlock DEF VBranchOk, Bundled
  <2>. QED BY <1>2, <2>3 DEF Outer, Places
<1>3. CASE IsJump(w) \/ (w.op = "branch" /\ Scalar(w.rs1) = Scalar(w.rs2))
  <2>1. IndexOf(w.target) \in Bundled
    BY <1>3, TargetFlows DEF IsBranch
  <2>2. Outer(k) = IndexOf(w.target)
    BY <1>3 DEF Outer, IsJump
  <2>. QED BY <2>1, <2>2 DEF Places
<1>4. CASE w.op # "vbranch" /\ ~(IsJump(w) \/ (w.op = "branch" /\ Scalar(w.rs1) = Scalar(w.rs2)))
  <2>1. Outer(k) \in { Done, NextOf(k) }
    BY <1>4 DEF Outer
  <2>2. NextOf(k) \in Places
    BY <1>1 DEF NextOf, Places, Bundled
  <2>. QED BY <2>1, <2>2 DEF Places
<1>. QED BY <1>2, <1>3, <1>4

LEMMA OrbitIsClosed ==
  ASSUME Accepted, stage = "run", NEW s \in Places
  PROVE  Orbit(s) \subseteq Places /\ s \in Orbit(s) /\ OuterClosed(Orbit(s))
<1>1. Orbit(s) \subseteq Places /\ s \in Orbit(s)
  BY DEF Orbit
<1>2. ASSUME NEW k \in Orbit(s), ~Stops(k) PROVE Outer(k) \in Orbit(s)
  <2>1. k \in Bundled
    BY <1>1, <1>2 DEF Stops, Places
  <2>2. Outer(k) \in Places
    BY <2>1, OuterIsPlace
  <2>3. ASSUME NEW S \in SUBSET Places, s \in S, OuterClosed(S) PROVE Outer(k) \in S
    <3>1. k \in S
      BY <2>3 DEF Orbit
    <3>. QED BY <1>2, <2>3, <3>1 DEF OuterClosed
  <2>. QED BY <2>2, <2>3 DEF Orbit
<1>. QED BY <1>1, <1>2 DEF OuterClosed

(* The outer way stops at one place at most.                               *)
LEMMA OneStop ==
  ASSUME Accepted, stage = "run", NEW s \in Places,
         NEW e \in Orbit(s), Stops(e), NEW f \in Orbit(s), Stops(f)
  PROVE  e = f
<1>. DEFINE B == { p \in Orbit(s) : e \in Orbit(p) }
<1>1. Orbit(s) \subseteq Places /\ s \in Orbit(s) /\ OuterClosed(Orbit(s))
  BY OrbitIsClosed
<1>2. ASSUME NEW p \in B, ~Stops(p) PROVE Outer(p) \in B
  <2>1. Outer(p) \in Orbit(s) /\ Outer(p) \in Places
    BY <1>1, <1>2 DEF OuterClosed
  <2>2. /\ Orbit(Outer(p)) \subseteq Places /\ Outer(p) \in Orbit(Outer(p))
        /\ OuterClosed(Orbit(Outer(p)))
    BY <2>1, OrbitIsClosed
  <2>. DEFINE T == { p } \cup Orbit(Outer(p))
  <2>3. T \in SUBSET Places /\ p \in T /\ OuterClosed(T)
    BY <1>1, <2>2 DEF OuterClosed
  <2>4. e \in T
    <3>. HIDE DEF T
    <3>. QED BY <2>3 DEF Orbit
  <2>5. e # p
    BY <1>2
  <2>. QED BY <2>1, <2>4, <2>5
<1>3. f \in B
  <2>1. B \in SUBSET Places /\ s \in B /\ OuterClosed(B)
    BY <1>1, <1>2 DEF OuterClosed
  <2>. HIDE DEF B
  <2>. QED BY <2>1 DEF Orbit
<1>4. { f } \in SUBSET Places /\ OuterClosed({ f })
  BY <1>1 DEF OuterClosed
<1>. QED BY <1>3, <1>4 DEF Orbit

(* A lane that is not at a vbranch follows the outer way.                  *)
LEMMA LaneOuter ==
  ASSUME Accepted, LanesType, NEW l \in LaneIds, LaneStep(l), At(l).op # "vbranch"
  PROVE  pc'[l] = Outer(pc[l])
<1>. DEFINE k == pc[l]
            w == fn.insts[k].inst
<1>1. DOMAIN pc = LaneIds
  BY DEF LanesType
<1>2. ASSUME NEW j, Goto(l, j) PROVE pc'[l] = j
  BY <1>1, <1>2 DEF Goto
<1>3. w.op # "vbranch"
  BY DEF At
<1>4. CASE Inert(l) \/ VectorOp(l) \/ GetId(l)
  <2>1. Goto(l, NextOf(k)) /\ w.op \in InertOps \cup VectorOps \cup { "call" }
    BY <1>4 DEF Inert, VectorOp, GetId, At
  <2>2. Outer(k) = NextOf(k)
    BY <2>1 DEF Outer, IsJump, Leaves, InertOps, VectorOps
  <2>. QED BY <1>2, <2>1, <2>2
<1>5. CASE TakeJump(l)
  <2>1. Goto(l, IndexOf(w.target)) /\ IsJump(w)
    BY <1>5 DEF TakeJump, At
  <2>. QED BY <1>2, <1>3, <2>1 DEF Outer
<1>6. CASE ScalarBranch(l)
  <2>1. /\ Goto(l, IF Scalar(w.rs1) = Scalar(w.rs2) THEN IndexOf(w.target) ELSE NextOf(k))
        /\ w.op = "branch"
    BY <1>6 DEF ScalarBranch, At
  <2>2. Outer(k) = IF Scalar(w.rs1) = Scalar(w.rs2) THEN IndexOf(w.target) ELSE NextOf(k)
    BY <2>1 DEF Outer, IsJump, Leaves
  <2>. QED BY <1>2, <2>1, <2>2
<1>7. CASE Return(l)
  <2>1. Goto(l, Done) /\ Leaves(w)
    BY <1>7 DEF Return, At
  <2>2. Outer(k) = Done
    BY <2>1 DEF Outer, IsJump, Leaves
  <2>. QED BY <1>2, <2>1, <2>2
<1>8. ~VectorBranch(l)
  BY DEF VectorBranch
<1>. QED BY <1>4, <1>5, <1>6, <1>7, <1>8 DEF LaneStep

(* Control in the region of a vbranch stays in it or comes to the join.    *)
LEMMA RegionMoves ==
  ASSUME Accepted, stage = "run", OwnJoins = {}, NEW l \in LaneIds, pc[l] \in Bundled, Moves(l),
         NEW k \in Indices(fn, "vbranch"), fn.block[pc[l]] \in Region(fn, k)
  PROVE  /\ pc'[l] \in Bundled
         /\ fn.block[pc'[l]] \in Region(fn, k) \/ pc'[l] = Outer(k)
<1>. DEFINE p == pc[l]
            j == pc'[l]
            b == fn.block[p]
            d == CurrentRpc(fn, k)
            R == Region(fn, k)
<1>1. IsCfg(fn, Len(words)) /\ k \in Bundled /\ fn.insts[k].inst.op = "vbranch"
  BY CfgParts DEF Accepted, Indices, Bundled
<1>2. verdict.joins[k] = d /\ VBranchOk(fn, k) /\ k \in DOMAIN verdict.joins
  BY JoinsAre
<1>3. d # fn.block[k]
  BY <1>2 DEF OwnJoins
<1>4. fn.succs[b] \ {d} \subseteq R /\ fn.succs[b] # {}
  BY <1>1, <1>2, <1>3, RegionIsClosed DEF Bundled
<1>5. Outer(k) = fn.first[d]
  BY <1>1, <1>2 DEF Outer
<1>. HIDE DEF R, d
<1>6. j \in Bundled /\ Flows(fn, p, j)
  <2>1. CASE j = Done /\ \A i \in Bundled : ~Flows(fn, p, i)
    BY <1>1, <1>4, <2>1, FlowOut DEF Bundled
  <2>. QED BY <2>1 DEF Moves
<1>7. \/ p # fn.last[b] /\ fn.block[j] = b /\ j = p + 1
      \/ p = fn.last[b] /\ fn.block[j] \in fn.succs[b] /\ j = fn.first[fn.block[j]]
  BY <1>1, <1>6, FlowFollowsEdges DEF Bundled
<1>8. fn.block[j] \in R \/ j = fn.first[d]
  BY <1>4, <1>7 DEF R
<1>. QED BY <1>5, <1>6, <1>8 DEF R

(* A lane on the outer way that comes to a vbranch goes into its region or *)
(* to its join.                                                            *)
LEMMA BranchMoves ==
  ASSUME Accepted, stage = "run", OwnJoins = {}, NEW l \in LaneIds, pc[l] \in Bundled, Moves(l),
         fn.insts[pc[l]].inst.op = "vbranch"
  PROVE  /\ pc'[l] \in Bundled /\ pc[l] \in Indices(fn, "vbranch")
         /\ fn.block[pc'[l]] \in Region(fn, pc[l]) \/ pc'[l] = Outer(pc[l])
<1>. DEFINE k == pc[l]
            j == pc'[l]
            b == fn.block[k]
            d == CurrentRpc(fn, k)
            R == Region(fn, k)
<1>1. IsCfg(fn, Len(words)) /\ k \in Indices(fn, "vbranch")
  BY CfgParts DEF Accepted, Indices, Bundled
<1>2. verdict.joins[k] = d /\ VBranchOk(fn, k) /\ k \in DOMAIN verdict.joins
  BY <1>1, JoinsAre
<1>3. d # b
  BY <1>2 DEF OwnJoins
<1>4. fn.succs[b] \ {d} \subseteq R
  BY <1>1, <1>2, <1>3, RegionIsClosed DEF Bundled
<1>5. Outer(k) = fn.first[d]
  BY <1>1, <1>2 DEF Outer
<1>6. PICK S \in SUBSET DOMAIN fn.succs : b \in S /\ Confined(fn.succs, S, d)
  BY <1>2 DEF VBranchOk, Postdominates, Nodes
<1>7. fn.succs[b] # {}
  BY <1>3, <1>6 DEF Confined
<1>. HIDE DEF R, d
<1>8. j \in Bundled /\ Flows(fn, k, j)
  <2>1. CASE j = Done /\ \A i \in Bundled : ~Flows(fn, k, i)
    BY <1>1, <1>7, <2>1, FlowOut DEF Bundled
  <2>. QED BY <2>1 DEF Moves
<1>9. k = fn.last[b] /\ fn.block[j] \in fn.succs[b] /\ j = fn.first[fn.block[j]]
  <2>1. k = fn.last[b]
    BY <1>1, NextBundle DEF Bundled, IsTerminator, IsBranch
  <2>. QED BY <1>1, <1>8, <2>1, FlowFollowsEdges DEF Bundled
<1>10. fn.block[j] \in R \/ j = fn.first[d]
  BY <1>4, <1>9 DEF R
<1>. QED BY <1>1, <1>5, <1>8, <1>10 DEF R

LEMMA WayLaneStep ==
  ASSUME Accepted, LanesType, OneWay, NEW l \in LaneIds, LaneStep(l)
  PROVE  OneWay'
<1>. DEFINE k == pc[l]
<1>1. /\ stage = "run" /\ k \in Bundled
      /\ UNCHANGED << words, stage, fn, verdict, x >>
      /\ \A m \in LaneIds : m # l => pc'[m] = pc[m]
      /\ Moves(l)
  BY LaneMoves
<1>. SUFFICES ASSUME verdict.trusted = {}, OwnJoins = {}
              PROVE  \E s \in Places' : \A m \in LaneIds : OnWay(s, m)'
  <2>1. OwnJoins' = OwnJoins
    BY <1>1 DEF OwnJoins
  <2>. QED BY <1>1, <2>1 DEF OneWay
<1>2. PICK s \in Places : \A m \in LaneIds : OnWay(s, m)
  BY <1>1 DEF OneWay
<1>3. Places' = Places /\ Orbit(s)' = Orbit(s)
  BY <1>1 DEF Places, Bundled, Orbit, OuterClosed, Stops, Outer, Scalar, IndexOf, NextOf
<1>4. Orbit(s) \subseteq Places /\ OuterClosed(Orbit(s))
  BY <1>1, OrbitIsClosed
<1>5. ~Stops(k)
  <2>1. fn.insts[k].inst.op # "barrier"
    BY DEF LaneStep, Inert, VectorOp, GetId, TakeJump, ScalarBranch, VectorBranch, Return, At,
           InertOps, VectorOps, IsJump, Leaves
  <2>. QED BY <1>1, <2>1 DEF Stops, Bundled
<1>6. \/ pc'[l] \in Orbit(s)
      \/ /\ pc'[l] # Done
         /\ \E i \in Orbit(s) \cap Indices(fn, "vbranch") : fn.block[pc'[l]] \in Region(fn, i)
  <2>1. CASE k \in Orbit(s) /\ fn.insts[k].inst.op # "vbranch"
    BY <1>4, <1>5, <2>1, LaneOuter DEF OuterClosed, At
  <2>2. CASE k \in Orbit(s) /\ fn.insts[k].inst.op = "vbranch"
    <3>1. /\ pc'[l] \in Bundled /\ k \in Indices(fn, "vbranch")
          /\ fn.block[pc'[l]] \in Region(fn, k) \/ pc'[l] = Outer(k)
      BY <1>1, <2>2, BranchMoves
    <3>2. pc'[l] # Done
      BY <3>1 DEF Bundled
    <3>. QED BY <1>4, <1>5, <2>2, <3>1, <3>2 DEF OuterClosed
  <2>3. CASE \E i \in Orbit(s) \cap Indices(fn, "vbranch") : fn.block[k] \in Region(fn, i)
    <3>1. PICK i \in Orbit(s) \cap Indices(fn, "vbranch") : fn.block[k] \in Region(fn, i)
      BY <2>3
    <3>2. /\ pc'[l] \in Bundled
          /\ fn.block[pc'[l]] \in Region(fn, i) \/ pc'[l] = Outer(i)
      BY <1>1, <3>1, RegionMoves
    <3>3. pc'[l] # Done
      BY <3>2 DEF Bundled
    <3>4. ~Stops(i)
      <4>1. i \in Bundled /\ fn.insts[i].inst.op = "vbranch"
        BY <1>1, <3>1, CfgParts DEF Indices, Bundled, Accepted
      <4>. QED BY <4>1 DEF Stops, Bundled
    <3>. QED BY <1>4, <3>1, <3>2, <3>3, <3>4 DEF OuterClosed
  <2>. QED BY <1>2, <2>1, <2>2, <2>3 DEF OnWay
<1>7. ASSUME NEW m \in LaneIds PROVE OnWay(s, m)'
  <2>1. CASE m = l
    BY <1>1, <1>3, <1>6, <2>1 DEF OnWay
  <2>2. CASE m # l
    <3>1. pc'[m] = pc[m]
      BY <1>1, <2>2
    <3>. QED BY <1>1, <1>2, <1>3, <3>1 DEF OnWay
  <2>. QED BY <2>1, <2>2
<1>. QED BY <1>2, <1>3, <1>7

(* When a barrier is complete every lane is at a stopping place of the     *)
(* outer way, of which there is one.                                       *)
LEMMA TogetherAtBarrier ==
  ASSUME Accepted, LanesType, OneWay, BarrierComplete, verdict.trusted = {}, OwnJoins = {}
  PROVE  Together
<1>1. stage = "run"
  BY DEF BarrierComplete, AtBarrier, Running
<1>2. PICK s \in Places : \A l \in LaneIds : OnWay(s, l)
  BY <1>1 DEF OneWay
<1>3. ASSUME NEW l \in LaneIds PROVE pc[l] \in Orbit(s) /\ Stops(pc[l])
  <2>1. CASE AtBarrier(l)
    <3>1. pc[l] \in Bundled /\ fn.insts[pc[l]].inst.op = "barrier"
      BY <1>1, <2>1 DEF AtBarrier, Running, At, LanesType, Places
    <3>2. pc[l] \in Indices(fn, "barrier")
      BY <1>1, <3>1, CfgParts DEF Indices, Bundled, Accepted
    <3>3. BarrierOk(fn, pc[l])
      BY <1>1, <3>2 DEF Accepted, Accepts
    <3>4. ASSUME NEW i \in Indices(fn, "vbranch") PROVE ~ProvenUniform(fn, i)
      <4>1. { j \in Indices(fn, "vbranch") : ProvenUniform(fn, j) } = {}
        BY <1>1 DEF Accepted, Verdict
      <4>. QED BY <4>1
    <3>5. \A i \in Indices(fn, "vbranch") : fn.block[pc[l]] \notin Region(fn, i)
      BY <3>3, <3>4 DEF BarrierOk
    <3>. QED BY <1>2, <3>1, <3>5 DEF OnWay, Stops
  <2>2. CASE pc[l] = Done
    BY <1>2, <2>2 DEF OnWay, Stops
  <2>. QED BY <2>1, <2>2 DEF BarrierComplete
<1>. QED BY <1>1, <1>3, OneStop DEF Together

LEMMA WayBarSync ==
  ASSUME Accepted, LanesType, OneWay, BarSync
  PROVE  OneWay'
<1>1. stage = "run" /\ UNCHANGED << words, stage, fn, verdict, x, v, owed >>
  BY BarrierMoves
<1>. SUFFICES ASSUME verdict.trusted = {}, OwnJoins = {}
              PROVE  \E s \in Places' : \A m \in LaneIds : OnWay(s, m)'
  <2>1. OwnJoins' = OwnJoins
    BY <1>1 DEF OwnJoins
  <2>. QED BY <1>1, <2>1 DEF OneWay
<1>2. Together /\ BarrierComplete
  BY TogetherAtBarrier DEF BarSync
<1>3. PICK l \in LaneIds : AtBarrier(l)
  BY <1>2 DEF BarrierComplete
<1>4. /\ \A m \in LaneIds : pc'[m] = NextOf(pc[l])
      /\ NextOf(pc[l]) \in Places
  <2>1. pc'[l] = NextOf(pc[l]) /\ Moves(l)
    BY <1>3, BarrierMoves
  <2>2. pc'[l] \in Places
    BY <2>1 DEF Moves, Places
  <2>3. ASSUME NEW m \in LaneIds PROVE pc'[m] = NextOf(pc[l])
    <3>1. pc[m] = pc[l]
      BY <1>2 DEF Together
    <3>2. AtBarrier(m)
      BY <1>3, <3>1 DEF AtBarrier, Running, At
    <3>. QED BY <3>1, <3>2, BarrierMoves
  <2>. QED BY <2>1, <2>2, <2>3
<1>5. NextOf(pc[l]) \in Orbit(NextOf(pc[l]))
  BY <1>4, OrbitStarts
<1>6. Places' = Places /\ \A s : Orbit(s)' = Orbit(s)
  BY <1>1 DEF Places, Bundled, Orbit, OuterClosed, Stops, Outer, Scalar, IndexOf, NextOf
<1>. DEFINE e == NextOf(pc[l])
<1>. QED BY <1>4, <1>5, <1>6 DEF OnWay

----------------------------------------------------------------------------
(* The theorems.                                                           *)

LEMMA InvNext == IInv /\ [Next]_vars => IInv'
<1>. SUFFICES ASSUME IInv, [Next]_vars PROVE IInv'
  OBVIOUS
<1>1. Accepted /\ LanesType /\ ArmsHold /\ OneWay
  BY DEF IInv
<1>2. CASE Translate
  BY <1>1, <1>2, InvTranslate
<1>3. CASE BarSync
  <2>1. Accepted'
    BY <1>1, <1>3, AcceptedKept DEF BarSync
  <2>. QED BY <1>1, <1>3, <2>1, TypeBarSync, ArmsBarSync, WayBarSync DEF IInv
<1>4. CASE UNCHANGED vars
  <2>1. UNCHANGED << words, stage, fn, verdict, pc, v, x, owed >>
    BY <1>4 DEF vars
  <2>2. Accepted'
    BY <1>1, <2>1, AcceptedKept
  <2>3. LanesType'
    BY <1>1, <2>1 DEF LanesType, Places, Bundled
  <2>4. ArmsHold'
    BY <1>1, <2>1 DEF ArmsHold, ArmHolds, OwnJoins
  <2>5. Places' = Places /\ \A s : Orbit(s)' = Orbit(s)
    BY <2>1 DEF Places, Bundled, Orbit, OuterClosed, Stops, Outer, Scalar, IndexOf, NextOf
  <2>6. OneWay'
    BY <1>1, <2>1, <2>5 DEF OneWay, OnWay, OwnJoins
  <2>. QED BY <2>2, <2>3, <2>4, <2>6 DEF IInv
<1>5. ASSUME NEW l \in LaneIds, LaneStep(l) PROVE IInv'
  <2>1. Accepted'
    BY <1>1, <1>5, LaneMoves, AcceptedKept
  <2>. QED BY <1>1, <1>5, <2>1, TypeLaneStep, ArmsLaneStep, WayLaneStep DEF IInv
<1>. QED BY <1>2, <1>3, <1>4, <1>5 DEF Next, Stopped

LEMMA InvHolds == Spec => []IInv
BY InvInit, InvNext, PTL DEF Spec

(* Whatever the program, the lanes and the values: every variable keeps    *)
(* its type, and a lane that runs is at a bundle of its function.          *)
THEOREM LanesTypeCorrect == Spec => []TypeOK
<1>1. IInv => TypeOK
  <2>. SUFFICES ASSUME IInv PROVE TypeOK
    OBVIOUS
  <2>1. stage = "run" => DOMAIN fn.insts = Bundled
    BY CfgParts DEF IInv, Accepted, Bundled
  <2>. QED BY <2>1 DEF IInv, LanesType, TypeOK, Places
<1>. QED BY <1>1, InvHolds, PTL

(* The bundles of a function that runs are its words, each extended by the *)
(* prefix before it and by no other, end to end (decode_text).             *)
THEOREM BundlesAreWords == Spec => []BundlesExact
<1>1. IInv => BundlesExact
  <2>. SUFFICES ASSUME IInv, stage = "run" PROVE BundlesExact
    BY DEF BundlesExact
  <2>1. EndToEnd(fn.insts, words, Len(words)) /\ fn.insts # << >>
    BY DEF IInv, Accepted
  <2>2. DOMAIN fn.insts = 1 .. Len(fn.insts)
    BY CfgParts DEF IInv, Accepted
  <2>3. fn.insts[1].pc = 1
    BY <2>1 DEF EndToEnd
  <2>4. ASSUME NEW k \in DOMAIN fn.insts
        PROVE  LET b == fn.insts[k]
               IN  /\ b.inst_pc = IF k = Len(fn.insts) THEN Len(words) ELSE fn.insts[k + 1].pc - 1
                   /\ \/ b.pc = b.inst_pc /\ b.inst = words[b.pc]
                      \/ /\ b.pc = b.inst_pc - 1 /\ IsRegext(words[b.pc])
                         /\ b.inst = Extended(words[b.inst_pc], words[b.pc])
    BY <2>1, <2>2 DEF EndToEnd, IsBundle
  <2>. QED BY <2>3, <2>4 DEF BundlesExact
<1>. QED BY <1>1, InvHolds, PTL

(* Wherever a branch, a jump or the next word takes a lane, the CFG that   *)
(* the verifier went by has the edge (build_function_cfg).                 *)
THEOREM LanesFollowEdges == Spec => EdgesFollowed
<1>. DEFINE Act == \A l \in LaneIds :
       stage = "run" /\ pc'[l] \notin {pc[l], Done} =>
         LET from == fn.block[pc[l]]
             to   == fn.block[pc'[l]]
         IN  \/ pc[l] # fn.last[from] /\ to = from /\ pc'[l] = pc[l] + 1
             \/ pc[l] = fn.last[from] /\ to \in fn.succs[from] /\ pc'[l] = fn.first[to]
<1>1. ASSUME IInv, Next, stage = "run", NEW l \in LaneIds, pc'[l] \notin {pc[l], Done}
      PROVE  LET from == fn.block[pc[l]]
                 to   == fn.block[pc'[l]]
             IN  \/ pc[l] # fn.last[from] /\ to = from /\ pc'[l] = pc[l] + 1
                 \/ pc[l] = fn.last[from] /\ to \in fn.succs[from] /\ pc'[l] = fn.first[to]
  <2>1. Accepted /\ LanesType /\ IsCfg(fn, Len(words))
    BY <1>1 DEF IInv, Accepted
  <2>2. pc[l] \in Bundled /\ Moves(l)
    <3>1. CASE BarSync
      BY <1>1, <2>1, <3>1, BarrierMoves
    <3>2. ASSUME NEW m \in LaneIds, LaneStep(m) PROVE pc[l] \in Bundled /\ Moves(l)
      <4>1. m = l
        BY <1>1, <2>1, <3>2, LaneMoves
      <4>. QED BY <2>1, <3>2, <4>1, LaneMoves
    <3>. QED BY <1>1, <3>1, <3>2 DEF Next, Translate, Stopped, vars
  <2>3. pc'[l] \in Bundled /\ Flows(fn, pc[l], pc'[l])
    BY <1>1, <2>2 DEF Moves
  <2>. QED BY <2>1, <2>2, <2>3, FlowFollowsEdges DEF Bundled
<1>2. IInv /\ [Next]_vars => [Act]_vars
  BY <1>1
<1>. QED BY <1>2, InvHolds, PTL DEF Spec, EdgesFollowed

(* No lane leaves an accepted function inside an arm of a vbranch whose    *)
(* join does not start the vbranch's own block (verify_function).          *)
THEOREM LanesRejoin == Spec => []ArmsRejoin
<1>1. IInv => ArmsRejoin
  BY DEF IInv, ArmsHold, ArmHolds, ArmsRejoin
<1>. QED BY <1>1, InvHolds, PTL

(* Where no vbranch is trusted to be uniform, the lanes are together when  *)
(* a barrier is complete: what verify_function says of the barriers is     *)
(* enough for bar.sync (emit_barrier).                                     *)
THEOREM BarriersConverged == Spec => []BarriersTogether
<1>1. IInv => BarriersTogether
  BY TogetherAtBarrier DEF IInv, BarriersTogether
<1>. QED BY <1>1, InvHolds, PTL
=============================================================================
