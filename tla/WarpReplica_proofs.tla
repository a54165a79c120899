------------------------- MODULE WarpReplica_proofs ------------------------
(***************************************************************************)
(* For every function that keeps the compiler's contract, any number of    *)
(* lanes, registers and values: the copies of a scalar register that is    *)
(* still read are equal in the lanes that run together, and a scalar store *)
(* is made by one lane.                                                    *)
(***************************************************************************)
EXTENDS WarpReplica, FiniteSetTheorems, SequenceTheorems, TLAPS

Frames == [from : Nat, place : Nat \X Nat, lanes : SUBSET LaneIds]

IsPlace(p) == p[1] \in DOMAIN words /\ p[2] \in DOMAIN Emit(words[p[1]])

(* What the variables hold.                                                *)
Typed ==
  /\ WellFormed(words) /\ reconverges \in BOOLEAN
  /\ reconverges => KeepsContract(words)
  /\ place \in [LaneIds -> Nat \X Nat] /\ \A l \in LaneIds : IsPlace(place[l])
  /\ group \in [LaneIds -> SUBSET LaneIds]
  /\ wait \in [LaneIds -> Seq(Frames)]
  /\ leader \in [LaneIds -> BOOLEAN]
  /\ x \in [LaneIds -> [XRegs -> Values]]
  /\ v \in [LaneIds -> [VRegs -> Values]]
  /\ mem \in [Cells -> Values]
  /\ stored \in [DOMAIN words -> Nat]

(* Every lane is in one group, whose lanes are at one place and have       *)
(* parted from the others at the same places.                              *)
Grouped ==
  \A l \in LaneIds :
    /\ l \in group[l]
    /\ \A m \in group[l] : group[m] = group[l] /\ place[m] = place[l] /\ wait[m] = wait[l]

FrameOf(k, r, G) == [from |-> k, place |-> r, lanes |-> G]

(* A lane at p that waits for others at the place of frame f: it is in a   *)
(* store that they skip, or in an arm of a vbranch or at its join.         *)
Inside(p, f) ==
  /\ f.from \in DOMAIN words
  /\ \/ /\ words[f.from].op = "sw" /\ f.place = << f.from, 4 >>
        /\ p[1] = f.from /\ p[2] \in { 3, 4 }
     \/ /\ words[f.from].op = "vbranch" /\ f.place = << JoinOf(words, f.from), 1 >>
        /\ p[1] \in words[f.from].arms \/ p = f.place

(* The lanes of f meet before they can meet those of g.                    *)
Past(f, g) == words[f.from].op = "vbranch" => g.place[1] \notin words[f.from].arms

(* The frames of a lane lie in each other.                                 *)
Framed ==
  \A l \in LaneIds : \A i \in DOMAIN wait[l] :
    /\ reconverges
    /\ group[l] \subseteq wait[l][i].lanes /\ group[l] # wait[l][i].lanes
    /\ Inside(place[l], wait[l][i])
    /\ \A j \in DOMAIN wait[l] : i < j =>
         /\ wait[l][i].lanes \subseteq wait[l][j].lanes /\ wait[l][i].lanes # wait[l][j].lanes
         /\ Past(wait[l][i], wait[l][j])

(* The copies of l and m agree in all that is read from word k on.         *)
Agree(l, m, k) == \A r \in words[k].live : x[l][r] = x[m][r]

(* Lanes that will wait for each other also do so further out, and agree   *)
(* in all that is read from there on.                                      *)
SameFrom(s, i, t, j) ==
  /\ Len(s) - i = Len(t) - j
  /\ \A d \in 0 .. Len(s) - i : s[i + d] = t[j + d]

Shared ==
  \A l, m \in LaneIds : \A i \in DOMAIN wait[l], j \in DOMAIN wait[m] :
    wait[l][i] = wait[m][j] =>
      SameFrom(wait[l], i, wait[m], j) /\ Agree(l, m, wait[l][i].place[1])

Replicated ==
  reconverges => \A l \in LaneIds : \A m \in group[l] : Agree(l, m, place[l][1])

(* The leader of a store is one of the lanes that came to it.              *)
Led ==
  reconverges =>
    \A l \in LaneIds : WordAt(l).op = "sw" =>
      /\ place[l][2] = 2 => (leader[l] <=> l = Max(group[l]))
      /\ place[l][2] = 3 => group[l] = {l}

IInv == Typed /\ Grouped /\ Framed /\ Shared /\ Replicated /\ Led

----------------------------------------------------------------------------
(* The registers that are still read.                                      *)

(* The parts of WellFormed that the proofs need, word by word.             *)
LEMMA WordIs ==
  ASSUME NEW ws, WellFormed(ws), NEW k \in DOMAIN ws
  PROVE  /\ Len(ws) \in Nat /\ DOMAIN ws = 1 .. Len(ws) /\ k \in Nat
         /\ ws[k] \in Annotated
         /\ Follow(ws, k) \subseteq DOMAIN ws
         /\ ws[k].live \cup WritesX(ws[k]) \subseteq XRegs
<1>1. ws \in Seq(Annotated)
  BY DEF WellFormed
<1>2. Len(ws) \in Nat /\ DOMAIN ws = 1 .. Len(ws)
  BY <1>1, LenProperties
<1>3. ws[k] \in Annotated
  BY <1>1, <1>2, ElementOfSeq
<1>4. Follow(ws, k) \subseteq DOMAIN ws /\ WritesX(ws[k]) \subseteq XRegs
  BY DEF WellFormed
<1>5. ws[k].live \subseteq XRegs
  BY <1>3 DEF Annotated
<1>. QED BY <1>2, <1>3, <1>4, <1>5

(* What is read from word k on is read there, or later and not written.    *)
LEMMA LiveIs ==
  ASSUME NEW ws, WellFormed(ws), NEW k \in DOMAIN ws
  PROVE  \A r : r \in ws[k].live <=>
                 \/ r \in ReadsX(ws[k])
                 \/ r \notin WritesX(ws[k]) /\ \E n \in Follow(ws, k) : r \in ws[n].live
<1>1. ws[k].live = ReadsX(ws[k]) \cup ((UNION { ws[n].live : n \in Follow(ws, k) }) \ WritesX(ws[k]))
  BY DEF WellFormed
<1>. QED BY <1>1

(* What is read after word k is read from k on or written by it.           *)
LEMMA LiveStep ==
  ASSUME NEW ws, WellFormed(ws), NEW k \in DOMAIN ws, NEW n \in Follow(ws, k)
  PROVE  /\ n \in DOMAIN ws
         /\ ws[n].live \subseteq ws[k].live \cup WritesX(ws[k])
<1>1. n \in DOMAIN ws
  BY WordIs
<1>2. \A r : r \in ws[n].live /\ r \notin WritesX(ws[k]) => r \in ws[k].live
  BY LiveIs
<1>. QED BY <1>1, <1>2

(* The words of an arm stay in it up to the join, lie around the arms that *)
(* start in it, and write nothing that is read after the join.             *)
LEMMA ContractIs ==
  ASSUME NEW ws, WellFormed(ws), KeepsContract(ws), NEW k \in DOMAIN ws, ws[k].op = "vbranch"
  PROVE  /\ JoinOf(ws, k) \in DOMAIN ws /\ JoinOf(ws, k) \notin ws[k].arms
         /\ Follow(ws, k) \subseteq ws[k].arms \cup { JoinOf(ws, k) }
         /\ ws[JoinOf(ws, k)].live \subseteq ws[k].live
         /\ \A n \in ws[k].arms :
              /\ n \in DOMAIN ws
              /\ Follow(ws, n) # {} /\ Follow(ws, n) \subseteq ws[k].arms \cup { JoinOf(ws, k) }
              /\ ws[n].op = "vbranch" => ws[n].arms \subseteq ws[k].arms
              /\ WritesX(ws[n]) \cap ws[JoinOf(ws, k)].live = {}
  BY DEF KeepsContract

(* What is emitted for a word, operation by operation.                     *)
LEMMA EmitIs ==
  ASSUME NEW w \in Annotated
  PROVE  /\ w.op = "sw" =>
              /\ Len(Emit(w)) = 4 /\ DOMAIN Emit(w) = 1 .. 4
              /\ Emit(w)[1] = "leader" /\ Emit(w)[2] = "skip" /\ Emit(w)[3] = "store" /\ Emit(w)[4] = "sync"
         /\ w.op = "vmv_x_s" =>
              /\ Len(Emit(w)) = 3 /\ DOMAIN Emit(w) = 1 .. 3
              /\ Emit(w)[1] = "trap" /\ Emit(w)[2] = "move" /\ Emit(w)[3] = "shuffle"
         /\ w.op \notin { "sw", "vmv_x_s" } =>
              Len(Emit(w)) = 1 /\ DOMAIN Emit(w) = 1 .. 1 /\ Emit(w)[1] = w.op
<1>1. CASE w.op = "sw"
  BY <1>1 DEF Emit, EmitStore
<1>2. CASE w.op = "vmv_x_s"
  BY <1>2 DEF Emit, EmitVmvXS
<1>3. CASE w.op \notin { "sw", "vmv_x_s" }
  <2>1. Emit(w) = << w.op >>
    BY <1>3 DEF Emit
  <2>. QED BY <1>3, <2>1
<1>. QED BY <1>1, <1>2, <1>3

(* The word an operation belongs to, and its place there.                  *)
LEMMA OperationIs ==
  ASSUME NEW w \in Annotated, NEW q \in DOMAIN Emit(w), NEW op, op = Emit(w)[q]
  PROVE  /\ q \in Nat /\ 1 <= q /\ q <= Len(Emit(w)) /\ Len(Emit(w)) \in 1 .. 4
         /\ op = "leader"  => w.op = "sw" /\ q = 1
         /\ op = "skip"    => w.op = "sw" /\ q = 2
         /\ op = "store"   => w.op = "sw" /\ q = 3
         /\ op = "sync"    => w.op = "sw" /\ q = 4
         /\ op = "trap"    => w.op = "vmv_x_s" /\ q = 1
         /\ op = "move"    => w.op = "vmv_x_s" /\ q = 2
         /\ op = "shuffle" => w.op = "vmv_x_s" /\ q = 3
         /\ op \in Ops \ { "sw", "vmv_x_s" } => w.op = op /\ q = 1 /\ Len(Emit(w)) = 1
<1>1. w.op \in Ops
  BY DEF Annotated
<1>2. CASE w.op = "sw"
  BY <1>2, EmitIs DEF Ops
<1>3. CASE w.op = "vmv_x_s"
  BY <1>3, EmitIs DEF Ops
<1>4. CASE w.op \notin { "sw", "vmv_x_s" }
  BY <1>1, <1>4, EmitIs DEF Ops
<1>. QED BY <1>2, <1>3, <1>4

(* From p a lane can go on to q: further on in the same word, or from the  *)
(* end of it to a word that follows.                                       *)
MayGo(p, q) ==
  \/ q[1] = p[1] /\ p[2] < q[2] /\ q[2] \in DOMAIN Emit(words[p[1]])
  \/ q[1] \in Follow(words, p[1]) /\ q[2] = 1 /\ p[2] = Len(Emit(words[p[1]]))

(* What is known of a place.                                               *)
LEMMA PlaceIs ==
  ASSUME Typed, NEW p \in Nat \X Nat, IsPlace(p)
  PROVE  /\ p[1] \in Nat /\ p[2] \in Nat /\ p[1] \in DOMAIN words /\ words[p[1]] \in Annotated
         /\ p[2] \in DOMAIN Emit(words[p[1]]) /\ 1 <= p[2] /\ p[2] <= 4
<1>1. p[1] \in Nat /\ p[2] \in Nat /\ p[1] \in DOMAIN words /\ p[2] \in DOMAIN Emit(words[p[1]])
  BY DEF IsPlace
<1>2. words[p[1]] \in Annotated
  BY <1>1, WordIs DEF Typed
<1>. QED BY <1>1, <1>2, OperationIs

(* A place a lane can go to is one.                                        *)
LEMMA MayGoPlace ==
  ASSUME Typed, NEW p \in Nat \X Nat, IsPlace(p), NEW q \in Nat \X Nat, MayGo(p, q)
  PROVE  IsPlace(q)
<1>1. CASE q[1] = p[1] /\ q[2] \in DOMAIN Emit(words[p[1]])
  BY <1>1, PlaceIs DEF IsPlace
<1>2. CASE q[1] \in Follow(words, p[1]) /\ q[2] = 1
  <2>1. p[1] \in DOMAIN words /\ WellFormed(words)
    BY PlaceIs DEF Typed
  <2>2. q[1] \in DOMAIN words
    BY <1>2, <2>1, LiveStep
  <2>3. words[q[1]] \in Annotated
    BY <2>1, <2>2, WordIs
  <2>4. 1 \in DOMAIN Emit(words[q[1]])
    BY <2>3, EmitIs
  <2>. QED BY <1>2, <2>2, <2>4 DEF IsPlace
<1>. QED BY <1>1, <1>2 DEF MayGo

(* After p, unless control goes elsewhere, is a place to go to.            *)
LEMMA AfterIs ==
  ASSUME Typed, NEW p \in Nat \X Nat, IsPlace(p), words[p[1]].op \notin { "jump", "ret" }
  PROVE  After(p) \in Nat \X Nat /\ MayGo(p, After(p))
<1>1. /\ p[1] \in Nat /\ p[2] \in Nat /\ p[1] \in DOMAIN words /\ words[p[1]] \in Annotated
      /\ p[2] \in DOMAIN Emit(words[p[1]])
  BY PlaceIs
<1>2. DOMAIN Emit(words[p[1]]) = 1 .. Len(Emit(words[p[1]])) /\ Len(Emit(words[p[1]])) \in Nat
  BY <1>1, EmitIs
<1>3. CASE p[2] < Len(Emit(words[p[1]]))
  <2>1. After(p) = << p[1], p[2] + 1 >>
    BY <1>3 DEF After
  <2>. QED BY <1>1, <1>2, <1>3, <2>1 DEF MayGo
<1>4. CASE p[2] = Len(Emit(words[p[1]]))
  <2>1. After(p) = << p[1] + 1, 1 >>
    BY <1>1, <1>4 DEF After
  <2>2. p[1] + 1 \in Follow(words, p[1])
    BY DEF Follow
  <2>. QED BY <1>1, <1>4, <2>1, <2>2 DEF MayGo
<1>. QED BY <1>1, <1>2, <1>3, <1>4

(* Going on does not add to what is read, but by what the word writes.     *)
LEMMA GoReads ==
  ASSUME Typed, NEW p \in Nat \X Nat, IsPlace(p), NEW q, MayGo(p, q)
  PROVE  /\ words[q[1]].live \subseteq words[p[1]].live \cup WritesX(words[p[1]])
         /\ q[1] # p[1] => q[2] = 1 /\ p[2] = Len(Emit(words[p[1]]))
<1>1. p[1] \in Nat /\ p[1] \in DOMAIN words /\ WellFormed(words)
  BY PlaceIs DEF Typed
<1>2. CASE q[1] = p[1]
  BY <1>2
<1>3. CASE q[1] \in Follow(words, p[1]) /\ q[2] = 1 /\ p[2] = Len(Emit(words[p[1]]))
  BY <1>1, <1>3, LiveStep
<1>. QED BY <1>2, <1>3 DEF MayGo

(* The frame that a lane waits at comes before the others.                 *)
LEMMA NotYet ==
  ASSUME Typed, Framed, NEW l \in LaneIds, ~Waiting(l), NEW i \in DOMAIN wait[l]
  PROVE  place[l] # wait[l][i].place
<1>. DEFINE p == place[l]
            f == wait[l][i]
            h == wait[l][1]
<1>1. wait[l] \in Seq(Frames) /\ p \in Nat \X Nat /\ IsPlace(p)
  BY DEF Typed
<1>2. /\ DOMAIN wait[l] = 1 .. Len(wait[l]) /\ Len(wait[l]) \in Nat /\ i \in Nat
      /\ 1 \in DOMAIN wait[l] /\ Head(wait[l]) = h /\ wait[l] # << >>
  BY <1>1
<1>3. f \in Frames /\ h \in Frames
  BY <1>1, <1>2, ElementOfSeq
<1>4. SUFFICES ASSUME p = f.place PROVE p = h.place
  BY <1>2 DEF Waiting
<1>5. CASE i = 1
  BY <1>4, <1>5
<1>6. CASE i # 1
  <2>1. Past(h, f) /\ Inside(p, h) /\ Inside(p, f)
    BY <1>2, <1>6 DEF Framed
  <2>2. p[1] \in Nat /\ p[2] \in Nat /\ p = << p[1], p[2] >>
    BY <1>1
  <2>. HIDE DEF p, f, h
  <2>3. CASE words[h.from].op = "sw" /\ h.place = << h.from, 4 >> /\ p[1] = h.from /\ p[2] \in { 3, 4 }
    <3>1. p[2] \in { 1, 4 }
      BY <2>1, <1>4 DEF Inside
    <3>. QED BY <2>2, <2>3, <3>1
  <2>4. CASE words[h.from].op = "vbranch"
    <3>1. p[1] \notin words[h.from].arms
      BY <2>1, <2>4, <1>4 DEF Past
    <3>. QED BY <2>1, <2>4, <3>1 DEF Inside
  <2>. QED BY <2>1, <2>3, <2>4 DEF Inside
<1>. QED BY <1>5, <1>6

(* A lane on its way to a frame stays inside, and what it runs writes      *)
(* nothing that is read from there on.                                     *)
LEMMA InsideStays ==
  ASSUME Typed, reconverges, NEW p \in Nat \X Nat, IsPlace(p), NEW f \in Frames, Inside(p, f), p # f.place
  PROVE  /\ WritesX(words[p[1]]) \cap words[f.place[1]].live = {}
         /\ \A q \in Nat \X Nat : MayGo(p, q) => Inside(q, f)
<1>1. /\ p[1] \in Nat /\ p[2] \in Nat /\ p[1] \in DOMAIN words /\ words[p[1]] \in Annotated
      /\ p[2] \in DOMAIN Emit(words[p[1]]) /\ 1 <= p[2] /\ p[2] <= 4 /\ p = << p[1], p[2] >>
  BY PlaceIs
<1>2. f.from \in DOMAIN words
  BY DEF Inside
<1>3. CASE /\ words[f.from].op = "sw" /\ f.place = << f.from, 4 >>
           /\ p[1] = f.from /\ p[2] \in { 3, 4 }
  <2>1. p[2] = 3
    BY <1>1, <1>3
  <2>2. Len(Emit(words[p[1]])) = 4 /\ DOMAIN Emit(words[p[1]]) = 1 .. 4
    BY <1>1, <1>3, EmitIs
  <2>3. WritesX(words[p[1]]) = {}
    BY <1>3 DEF WritesX
  <2>4. ASSUME NEW q \in Nat \X Nat, MayGo(p, q) PROVE Inside(q, f)
    <3>1. q[1] = p[1] /\ q[2] = 4
      BY <2>1, <2>2, <2>4 DEF MayGo
    <3>. QED BY <1>2, <1>3, <3>1 DEF Inside
  <2>. QED BY <2>3, <2>4
<1>4. CASE /\ words[f.from].op = "vbranch" /\ f.place = << JoinOf(words, f.from), 1 >>
           /\ p[1] \in words[f.from].arms
  <2>. DEFINE join == JoinOf(words, f.from)
              arms == words[f.from].arms
  <2>1. WellFormed(words) /\ KeepsContract(words)
    BY DEF Typed
  <2>2. WritesX(words[p[1]]) \cap words[join].live = {} /\ Follow(words, p[1]) \subseteq arms \cup { join }
    BY <1>2, <1>4, <2>1, ContractIs
  <2>3. f.place[1] = join
    BY <1>4
  <2>4. ASSUME NEW q \in Nat \X Nat, MayGo(p, q) PROVE Inside(q, f)
    <3>1. q[1] = p[1] \/ (q[1] \in Follow(words, p[1]) /\ q[2] = 1)
      BY <2>4 DEF MayGo
    <3>2. q[1] \in arms \/ q = << join, 1 >>
      <4>1. q = << q[1], q[2] >>
        OBVIOUS
      <4>. HIDE DEF join, arms
      <4>2. CASE q[1] = p[1]
        BY <1>4, <4>2 DEF arms
      <4>3. CASE q[1] \in Follow(words, p[1]) /\ q[2] = 1
        BY <2>2, <4>1, <4>3
      <4>. QED BY <3>1, <4>2, <4>3
    <3>. QED BY <1>2, <1>4, <3>2 DEF Inside
  <2>. HIDE DEF join
  <2>. QED BY <2>2, <2>3, <2>4
<1>. QED BY <1>3, <1>4 DEF Inside

LEMMA FrameIs ==
  ASSUME Typed, NEW l \in LaneIds, NEW i \in DOMAIN wait[l]
  PROVE  /\ DOMAIN wait[l] = 1 .. Len(wait[l]) /\ Len(wait[l]) \in Nat /\ i \in Nat
         /\ wait[l][i] \in Frames
<1>1. wait[l] \in Seq(Frames)
  BY DEF Typed
<1>. QED BY <1>1, ElementOfSeq

(* The types of what a step leaves, when they are right one by one.        *)
LEMMA TypedNext ==
  ASSUME Typed, words' = words, reconverges' = reconverges,
         place' \in [LaneIds -> Nat \X Nat], \A l \in LaneIds : IsPlace(place'[l]),
         group' \in [LaneIds -> SUBSET LaneIds],
         wait' \in [LaneIds -> Seq(Frames)],
         leader' \in [LaneIds -> BOOLEAN],
         x' \in [LaneIds -> [XRegs -> Values]], v' \in [LaneIds -> [VRegs -> Values]],
         mem' \in [Cells -> Values], stored' \in [DOMAIN words -> Nat]
  PROVE  Typed'
<1>1. \A l \in LaneIds : IsPlace(place[l])'
  BY DEF IsPlace
<1>. QED BY <1>1 DEF Typed

(* The lanes of G go on from p to q: they write only what their word       *)
(* writes, and come to q with equal copies, and with a leader if q is in a *)
(* store.                                                                  *)
GoesOn(G, p, q) ==
  /\ \A l \in LaneIds \ G : x'[l] = x[l] /\ leader'[l] = leader[l]
  /\ \A l \in G : \A r \in XRegs \ WritesX(words[p[1]]) : x'[l][r] = x[l][r]
  /\ reconverges => \A l, m \in G : \A r \in words[q[1]].live : x'[l][r] = x'[m][r]
  /\ reconverges /\ words[q[1]].op = "sw" =>
       /\ q[2] = 2 => \A l \in G : leader'[l] <=> l = Max(G)
       /\ q[2] = 3 => \A l \in G : G = {l}

(* A group goes on together.                                               *)
LEMMA GroupGoesOn ==
  ASSUME IInv, NEW l0 \in LaneIds, NEW G, G = group[l0], ~Waiting(l0),
         NEW q \in Nat \X Nat, MayGo(place[l0], q), Go(G, q),
         words' = words, reconverges' = reconverges, group' = group, wait' = wait,
         leader' \in [LaneIds -> BOOLEAN],
         x' \in [LaneIds -> [XRegs -> Values]], v' \in [LaneIds -> [VRegs -> Values]],
         mem' \in [Cells -> Values], stored' \in [DOMAIN words -> Nat],
         GoesOn(G, place[l0], q)
  PROVE  IInv'
<1>. USE DEF IInv, GoesOn
<1>1. /\ G \subseteq LaneIds /\ l0 \in G /\ place[l0] \in Nat \X Nat /\ IsPlace(place[l0])
      /\ \A l \in LaneIds : l \in group[l] /\ \A m \in group[l] : group[m] = group[l]
      /\ \A m \in G : group[m] = G /\ place[m] = place[l0] /\ wait[m] = wait[l0]
  BY DEF Typed, Grouped
<1>2. /\ place' \in [LaneIds -> Nat \X Nat]
      /\ \A l \in LaneIds : place'[l] = IF l \in G THEN q ELSE place[l]
  BY DEF Go, Typed
<1>3. IsPlace(q)
  BY <1>1, MayGoPlace
<1>4. Typed'
  <2>1. \A l \in LaneIds : IsPlace(place'[l])
    BY <1>2, <1>3 DEF Typed
  <2>2. group' \in [LaneIds -> SUBSET LaneIds] /\ wait' \in [LaneIds -> Seq(Frames)]
    BY DEF Typed
  <2>. QED BY <1>2, <2>1, <2>2, TypedNext
<1>5. \A l \in LaneIds : \A m \in group[l] : m \in LaneIds /\ (m \in G <=> l \in G)
  BY <1>1 DEF Typed
<1>6. Grouped'
  <2>1. \A l \in LaneIds : \A m \in group[l] : place[m] = place[l]
    BY DEF Grouped
  <2>2. \A l \in LaneIds : \A m \in group[l] : place'[m] = place'[l]
    BY <1>2, <1>5, <2>1
  <2>. QED BY <2>2 DEF Grouped
<1>7. ASSUME NEW l \in LaneIds, NEW i \in DOMAIN wait[l], l \in G
      PROVE  /\ reconverges
             /\ WritesX(words[place[l0][1]]) \cap words[wait[l][i].place[1]].live = {}
             /\ Inside(q, wait[l][i])
  <2>1. i \in DOMAIN wait[l0] /\ wait[l][i] = wait[l0][i]
    BY <1>1, <1>7
  <2>2. wait[l0][i] \in Frames
    BY <2>1, FrameIs
  <2>3. place[l0] # wait[l0][i].place
    BY <2>1, NotYet
  <2>4. reconverges /\ Inside(place[l0], wait[l0][i])
    BY <2>1 DEF Framed
  <2>5. /\ WritesX(words[place[l0][1]]) \cap words[wait[l0][i].place[1]].live = {}
        /\ Inside(q, wait[l0][i])
    BY <1>1, <2>2, <2>3, <2>4, InsideStays
  <2>. QED BY <2>1, <2>4, <2>5
<1>8. Framed'
  <2>1. \A p, f : (Inside(p, f)' <=> Inside(p, f)) /\ (Past(p, f)' <=> Past(p, f))
    BY DEF Inside, Past
  <2>2. \A l \in LaneIds : \A i \in DOMAIN wait[l] : Inside(place'[l], wait[l][i])
    BY <1>2, <1>7 DEF Framed
  <2>3. \A l \in LaneIds : \A i \in DOMAIN wait[l] : Inside(place[l], wait[l][i])'
    BY <2>1, <2>2
  <2>4. \A l \in LaneIds : \A i, j \in DOMAIN wait[l] : i < j => Past(wait[l][i], wait[l][j])'
    BY <2>1 DEF Framed
  <2>. HIDE DEF Inside, Past
  <2>. QED BY <2>3, <2>4 DEF Framed
<1>9. ASSUME NEW l \in LaneIds, NEW i \in DOMAIN wait[l], NEW r \in words[wait[l][i].place[1]].live
      PROVE  x'[l][r] = x[l][r]
  <2>1. CASE l \in G
    <3>1. reconverges /\ WritesX(words[place[l0][1]]) \cap words[wait[l][i].place[1]].live = {}
      BY <1>7, <2>1
    <3>2. wait[l][i].place[1] \in DOMAIN words /\ WellFormed(words)
      <4>1. WellFormed(words) /\ KeepsContract(words)
        BY <3>1 DEF Typed
      <4>2. Inside(place[l], wait[l][i]) /\ place[l][1] \in DOMAIN words
        BY DEF Framed, Typed, IsPlace
      <4>. QED BY <4>1, <4>2, ContractIs DEF Inside
    <3>3. r \in XRegs
      BY <3>2, WordIs
    <3>. QED BY <2>1, <3>1, <3>3
  <2>2. CASE l \notin G
    BY <2>2
  <2>. QED BY <2>1, <2>2
<1>10. Shared'
  <2>. SUFFICES ASSUME NEW l \in LaneIds, NEW m \in LaneIds, NEW i \in DOMAIN wait'[l], NEW j \in DOMAIN wait'[m],
                       wait'[l][i] = wait'[m][j]
                PROVE  SameFrom(wait'[l], i, wait'[m], j) /\ Agree(l, m, wait[l][i].place[1])'
    BY Zenon DEF Shared
  <2>1. i \in DOMAIN wait[l] /\ j \in DOMAIN wait[m] /\ wait[l][i] = wait[m][j]
    OBVIOUS
  <2>2. SameFrom(wait[l], i, wait[m], j) /\ Agree(l, m, wait[l][i].place[1])
    BY <2>1, Zenon DEF Shared
  <2>3. wait[m][j].place[1] = wait[l][i].place[1]
    BY <2>1
  <2>4. \A r \in words[wait[l][i].place[1]].live : x'[l][r] = x[l][r] /\ x'[m][r] = x[m][r]
    BY <1>9, <2>1, <2>3
  <2>5. \A r \in words[wait[l][i].place[1]].live : x'[l][r] = x'[m][r]
    BY <2>2, <2>4 DEF Agree
  <2>. QED BY <2>2, <2>5 DEF Agree
<1>11. Replicated'
  <2>. SUFFICES ASSUME reconverges, NEW l \in LaneIds, NEW m \in group[l],
                       NEW r \in words[place'[l][1]].live
                PROVE  x'[l][r] = x'[m][r]
    BY DEF Replicated, Agree
  <2>1. CASE l \in G
    <3>1. m \in G /\ place'[l] = q
      BY <1>2, <1>5, <2>1
    <3>. QED BY <2>1, <3>1
  <2>2. CASE l \notin G
    <3>1. m \notin G /\ m \in LaneIds /\ place'[l] = place[l]
      BY <1>2, <1>5, <2>2
    <3>2. x[l][r] = x[m][r]
      BY <3>1 DEF Replicated, Agree
    <3>. QED BY <2>2, <3>1, <3>2
  <2>. QED BY <2>1, <2>2
<1>12. Led'
  <2>. SUFFICES ASSUME reconverges, NEW l \in LaneIds, words[place'[l][1]].op = "sw"
                PROVE  /\ place'[l][2] = 2 => (leader'[l] <=> l = Max(group[l]))
                       /\ place'[l][2] = 3 => group[l] = {l}
    BY DEF Led, WordAt
  <2>1. CASE l \in G
    BY <1>1, <1>2, <2>1
  <2>2. CASE l \notin G
    BY <1>2, <2>2 DEF Led, WordAt
  <2>. QED BY <2>1, <2>2
<1>. QED BY <1>4, <1>6, <1>8, <1>10, <1>11, <1>12

(* Sequences that go on alike do so when something comes in front of one   *)
(* or goes from there.                                                     *)
LEMMA SameShift ==
  ASSUME NEW s, NEW t, NEW s2, NEW t2, NEW i \in Nat, NEW j \in Nat, NEW a \in Int, NEW b \in Int,
         Len(s) \in Nat, Len(t) \in Nat, Len(s2) = Len(s) + a, Len(t2) = Len(t) + b,
         \A n \in i .. Len(s) : s2[n + a] = s[n], \A n \in j .. Len(t) : t2[n + b] = t[n],
         SameFrom(s, i, t, j)
  PROVE  SameFrom(s2, i + a, t2, j + b)
<1>1. Len(s) - i = Len(t) - j
  BY DEF SameFrom
<1>2. Len(s2) - (i + a) = Len(s) - i /\ Len(t2) - (j + b) = Len(t) - j
  OBVIOUS
<1>3. ASSUME NEW d \in 0 .. Len(s) - i PROVE s2[i + a + d] = t2[j + b + d]
  <2>1. i + d \in i .. Len(s) /\ j + d \in j .. Len(t)
    BY <1>1
  <2>2. i + a + d = (i + d) + a /\ j + b + d = (j + d) + b
    OBVIOUS
  <2>3. s2[(i + d) + a] = s[i + d] /\ t2[(j + d) + b] = t[j + d]
    BY <2>1
  <2>4. s[i + d] = t[j + d]
    BY DEF SameFrom
  <2>. QED BY <2>2, <2>3, <2>4
<1>. QED BY <1>1, <1>2, <1>3 DEF SameFrom

(* A sequence with an element put in front.                                *)
LEMMA PushedIs ==
  ASSUME NEW S, NEW e \in S, NEW s \in Seq(S), NEW t, t = << e >> \o s
  PROVE  /\ t \in Seq(S) /\ Len(t) = Len(s) + 1 /\ Len(s) \in Nat /\ DOMAIN t = 1 .. Len(t)
         /\ t[1] = e /\ \A n \in 1 .. Len(s) : t[n + 1] = s[n]
         /\ \A i \in DOMAIN t : i = 1 \/ (i - 1 \in DOMAIN s /\ t[i] = s[i - 1])
<1>1. t \in Seq(S) /\ Len(t) = Len(s) + 1 /\ Len(s) \in Nat /\ DOMAIN t = 1 .. Len(t) /\ DOMAIN s = 1 .. Len(s)
  OBVIOUS
<1>2. t[1] = e /\ \A n \in 1 .. Len(s) : t[n + 1] = s[n]
  OBVIOUS
<1>3. ASSUME NEW i \in DOMAIN t, i # 1 PROVE i - 1 \in DOMAIN s /\ t[i] = s[i - 1]
  <2>1. i - 1 \in 1 .. Len(s) /\ (i - 1) + 1 = i
    BY <1>1, <1>3
  <2>. QED BY <1>1, <1>2, <2>1
<1>. QED BY <1>1, <1>2, <1>3

(* A sequence without its first element.                                   *)
LEMMA PoppedIs ==
  ASSUME NEW S, NEW s \in Seq(S), s # << >>, NEW t, t = Tail(s)
  PROVE  /\ t \in Seq(S) /\ Len(t) = Len(s) + (-1) /\ Len(s) \in Nat /\ DOMAIN t = 1 .. Len(t)
         /\ \A n \in 2 .. Len(s) : t[n + (-1)] = s[n]
         /\ \A i \in DOMAIN t : i \in Nat /\ i + 1 \in DOMAIN s /\ t[i] = s[i + 1]
<1>1. /\ t \in Seq(S) /\ Len(t) = Len(s) - 1 /\ Len(s) \in Nat /\ DOMAIN t = 1 .. Len(t)
      /\ DOMAIN s = 1 .. Len(s)
  OBVIOUS
<1>2. \A i \in 1 .. Len(s) - 1 : t[i] = s[i + 1]
  OBVIOUS
<1>3. \A n \in 2 .. Len(s) : t[n + (-1)] = s[n]
  <2>. TAKE n \in 2 .. Len(s)
  <2>1. n + (-1) \in 1 .. Len(s) - 1 /\ (n + (-1)) + 1 = n
    BY <1>1
  <2>. QED BY <1>2, <2>1
<1>4. \A i \in DOMAIN t : i \in Nat /\ i + 1 \in DOMAIN s /\ t[i] = s[i + 1]
  BY <1>1, <1>2
<1>. QED BY <1>1, <1>3, <1>4

(* Frames are within the function.                                         *)
LEMMA FrameWord ==
  ASSUME Typed, Framed, NEW l \in LaneIds, NEW i \in DOMAIN wait[l]
  PROVE  /\ wait[l][i].place[1] \in DOMAIN words
         /\ wait[l][i].place[2] \in { 1, 4 }
<1>1. WellFormed(words) /\ KeepsContract(words)
  BY DEF Typed, Framed
<1>2. Inside(place[l], wait[l][i]) /\ place[l][1] \in DOMAIN words
  BY DEF Framed, Typed, IsPlace
<1>. QED BY <1>1, <1>2, ContractIs DEF Inside

(* The lanes of G may part at word k with frames s: some go to p and the   *)
(* others to q, on the way to r, which comes before they meet the lanes of *)
(* s; their copies are equal, and no more than one of them has to store.   *)
MayPart(G, k, s, some, p, q, r) ==
  /\ Inside(p, FrameOf(k, r, G)) /\ Inside(q, FrameOf(k, r, G))
  /\ \A i \in DOMAIN s : Past(FrameOf(k, r, G), s[i])
  /\ \A l, m \in G : Agree(l, m, p[1]) /\ Agree(l, m, q[1]) /\ Agree(l, m, r[1])
  /\ words[p[1]].op = "sw" => p[2] # 2 /\ (p[2] = 3 => \A l \in some : some = {l})
  /\ words[q[1]].op = "sw" => q[2] \notin { 2, 3 }

(* A group parts, on a device that reconverges: some of its lanes go to p, *)
(* the others to q, and all will wait at r.                                *)
LEMMA GroupParts ==
  ASSUME IInv, reconverges, NEW l0 \in LaneIds, NEW G, G = group[l0],
         NEW some, some \subseteq G, some # {}, some # G,
         NEW p \in Nat \X Nat, NEW q \in Nat \X Nat, NEW r \in Nat \X Nat,
         ~Waiting(l0), MayGo(place[l0], p), MayGo(place[l0], q), Part(G, some, p, q, r),
         words' = words, reconverges' = reconverges, leader' = leader, x' = x,
         v' = v, mem' = mem, stored' \in [DOMAIN words -> Nat],
         PlaceOf(G) = place[l0], MayPart(G, place[l0][1], wait[l0], some, p, q, r)
  PROVE  IInv'
<1>. DEFINE by(l) == IF l \in G THEN 1 ELSE 0
            F == FrameOf(place[l0][1], r, G)
<1>0. Typed /\ Grouped /\ Framed /\ Shared /\ Replicated /\ Led
  BY DEF IInv
<1>20. /\ Inside(p, F) /\ Inside(q, F) /\ \A i \in DOMAIN wait[l0] : Past(F, wait[l0][i])
       /\ \A l, m \in G : Agree(l, m, p[1]) /\ Agree(l, m, q[1]) /\ Agree(l, m, r[1])
       /\ words[p[1]].op = "sw" => p[2] # 2 /\ (p[2] = 3 => \A l \in some : some = {l})
       /\ words[q[1]].op = "sw" => q[2] \notin { 2, 3 }
  BY DEF MayPart
<1>1. /\ G \subseteq LaneIds /\ l0 \in G /\ place[l0] \in Nat \X Nat /\ IsPlace(place[l0])
      /\ \A l \in LaneIds : l \in group[l] /\ group[l] \subseteq LaneIds /\ \A m \in group[l] : group[m] = group[l]
      /\ \A m \in G : group[m] = G /\ place[m] = place[l0] /\ wait[m] = wait[l0]
  BY <1>0 DEF Typed, Grouped
<1>2. F \in Frames /\ F.lanes = G /\ F.place = r
  <2>1. place[l0][1] \in Nat
    BY <1>1
  <2>. QED BY <1>1, <2>1 DEF Frames, FrameOf
<1>3. /\ place' = [l \in LaneIds |-> IF l \in some THEN p ELSE IF l \in G THEN q ELSE place[l]]
      /\ group' = [l \in LaneIds |-> IF l \in some THEN some ELSE IF l \in G THEN G \ some ELSE group[l]]
      /\ wait'  = [l \in LaneIds |-> IF l \in G THEN << F >> \o wait[l] ELSE wait[l]]
  BY DEF Part, FrameOf
<1>. HIDE DEF F
<1>4. \A l \in LaneIds : wait[l] \in Seq(Frames)
  BY <1>0 DEF Typed
<1>5. \A l \in G : wait'[l] = << F >> \o wait[l]
  BY <1>1, <1>3
<1>6. \A l \in LaneIds : l \notin G => place'[l] = place[l] /\ group'[l] = group[l] /\ wait'[l] = wait[l]
  BY <1>3
<1>7. \A l \in G : (l \in some /\ place'[l] = p /\ group'[l] = some) \/ (l \notin some /\ place'[l] = q /\ group'[l] = G \ some)
  BY <1>1, <1>3
<1>8. ASSUME NEW l \in LaneIds
      PROVE  /\ wait'[l] \in Seq(Frames) /\ DOMAIN wait'[l] = 1 .. Len(wait'[l])
             /\ Len(wait'[l]) = Len(wait[l]) + by(l) /\ Len(wait[l]) \in Nat /\ DOMAIN wait[l] = 1 .. Len(wait[l])
             /\ \A n \in 1 .. Len(wait[l]) : wait'[l][n + by(l)] = wait[l][n]
             /\ \A i \in DOMAIN wait'[l] :
                  \/ l \in G /\ i = 1 /\ wait'[l][i] = F
                  \/ i - by(l) \in DOMAIN wait[l] /\ wait'[l][i] = wait[l][i - by(l)]
  <2>1. wait[l] \in Seq(Frames) /\ Len(wait[l]) \in Nat /\ DOMAIN wait[l] = 1 .. Len(wait[l])
    BY <1>4
  <2>2. CASE l \in G
    <3>1. by(l) = 1
      BY <2>2
    <3>2. wait'[l] = << F >> \o wait[l]
      BY <1>5, <2>2
    <3>. HIDE DEF by
    <3>3. /\ wait'[l] \in Seq(Frames) /\ DOMAIN wait'[l] = 1 .. Len(wait'[l])
          /\ Len(wait'[l]) = Len(wait[l]) + 1
          /\ \A n \in 1 .. Len(wait[l]) : wait'[l][n + 1] = wait[l][n]
          /\ wait'[l][1] = F
          /\ \A i \in DOMAIN wait'[l] : i = 1 \/ (i - 1 \in DOMAIN wait[l] /\ wait'[l][i] = wait[l][i - 1])
      <4>. DEFINE s == wait[l]
                  t == wait'[l]
      <4>1. s \in Seq(Frames) /\ t = << F >> \o s /\ F \in Frames
        BY <1>2, <2>1, <3>2
      <4>. HIDE DEF s, t
      <4>2. /\ t \in Seq(Frames) /\ Len(t) = Len(s) + 1 /\ DOMAIN t = 1 .. Len(t)
            /\ t[1] = F /\ \A n \in 1 .. Len(s) : t[n + 1] = s[n]
            /\ \A i \in DOMAIN t : i = 1 \/ (i - 1 \in DOMAIN s /\ t[i] = s[i - 1])
        BY <4>1, PushedIs
      <4>. QED BY <4>2 DEF s, t
    <3>. QED BY <2>1, <2>2, <3>1, <3>3
  <2>3. CASE l \notin G
    <3>1. by(l) = 0 /\ wait'[l] = wait[l]
      BY <1>6, <2>3
    <3>2. \A n \in Nat : n + 0 = n /\ n - 0 = n
      OBVIOUS
    <3>. HIDE DEF by
    <3>. QED BY <2>1, <3>1, <3>2
  <2>. QED BY <2>2, <2>3
<1>9. \A l \in LaneIds : \A m \in group[l] : m \in LaneIds /\ (m \in G <=> l \in G)
  BY <1>1
<1>10. Typed'
  <2>1. IsPlace(p) /\ IsPlace(q)
    BY <1>0, <1>1, MayGoPlace
  <2>2. place' \in [LaneIds -> Nat \X Nat]
    BY <1>0, <1>3 DEF Typed
  <2>3. \A l \in LaneIds : IsPlace(place'[l])
    BY <1>0, <1>6, <1>7, <2>1 DEF Typed
  <2>4. group' \in [LaneIds -> SUBSET LaneIds]
    BY <1>0, <1>1, <1>3 DEF Typed
  <2>5. wait' \in [LaneIds -> Seq(Frames)]
    <3>1. \A l \in LaneIds : wait'[l] \in Seq(Frames)
      BY <1>8
    <3>2. wait' = [l \in LaneIds |-> wait'[l]]
      BY <1>3
    <3>. QED BY <3>1, <3>2
  <2>6. /\ leader' \in [LaneIds -> BOOLEAN] /\ x' \in [LaneIds -> [XRegs -> Values]]
        /\ v' \in [LaneIds -> [VRegs -> Values]] /\ mem' \in [Cells -> Values]
    BY <1>0 DEF Typed
  <2>. QED BY <1>0, <2>2, <2>3, <2>4, <2>5, <2>6, TypedNext
<1>11. Grouped'
  <2>. SUFFICES ASSUME NEW l \in LaneIds
                PROVE  /\ l \in group'[l]
                       /\ \A m \in group'[l] : group'[m] = group'[l] /\ place'[m] = place'[l] /\ wait'[m] = wait'[l]
    BY DEF Grouped
  <2>1. CASE l \in G
    <3>1. l \in group'[l]
      BY <1>7, <2>1
    <3>2. ASSUME NEW m \in group'[l] PROVE group'[m] = group'[l] /\ place'[m] = place'[l] /\ wait'[m] = wait'[l]
      <4>1. m \in G /\ (m \in some <=> l \in some)
        BY <1>7, <2>1
      <4>2. wait'[m] = wait'[l]
        <5>1. wait[m] = wait[l]
          BY <1>1, <2>1, <4>1
        <5>. QED BY <1>5, <2>1, <4>1, <5>1
      <4>. QED BY <1>7, <2>1, <4>1, <4>2
    <3>. QED BY <3>1, <3>2
  <2>2. CASE l \notin G
    <3>1. \A m \in group[l] : m \in LaneIds /\ m \notin G /\ group[m] = group[l] /\ place[m] = place[l] /\ wait[m] = wait[l]
      BY <1>0, <1>9, <2>2 DEF Grouped
    <3>. QED BY <1>1, <1>6, <2>2, <3>1
  <2>. QED BY <2>1, <2>2
<1>12. ASSUME NEW l \in LaneIds, l \in G, NEW i \in DOMAIN wait[l]
       PROVE  /\ G \subseteq wait[l][i].lanes /\ G # wait[l][i].lanes
              /\ wait[l][i] \in Frames /\ Past(F, wait[l][i])
              /\ Inside(p, wait[l][i]) /\ Inside(q, wait[l][i])
  <2>1. i \in DOMAIN wait[l0] /\ wait[l][i] = wait[l0][i] /\ group[l] = G
    BY <1>1, <1>12
  <2>2. wait[l0][i] \in Frames
    BY <1>0, <2>1, FrameIs
  <2>3. place[l0] # wait[l0][i].place
    BY <1>0, <2>1, NotYet
  <2>4. Inside(place[l0], wait[l0][i])
    BY <1>0, <2>1 DEF Framed
  <2>5. Inside(p, wait[l0][i]) /\ Inside(q, wait[l0][i])
    BY <1>0, <1>1, <2>2, <2>3, <2>4, InsideStays
  <2>6. G \subseteq wait[l0][i].lanes /\ G # wait[l0][i].lanes
    BY <1>0, <2>1 DEF Framed
  <2>. QED BY <1>20, <2>1, <2>2, <2>5, <2>6
<1>13. Framed'
  <2>1. \A a, f : (Inside(a, f)' <=> Inside(a, f)) /\ (Past(a, f)' <=> Past(a, f))
    BY DEF Inside, Past
  <2>. SUFFICES ASSUME NEW l \in LaneIds, NEW i \in DOMAIN wait'[l]
                PROVE  /\ group'[l] \subseteq wait'[l][i].lanes /\ group'[l] # wait'[l][i].lanes
                       /\ Inside(place'[l], wait'[l][i])
                       /\ \A j \in DOMAIN wait'[l] : i < j =>
                            /\ wait'[l][i].lanes \subseteq wait'[l][j].lanes /\ wait'[l][i].lanes # wait'[l][j].lanes
                            /\ Past(wait'[l][i], wait'[l][j])
    BY <2>1 DEF Framed
  <2>2. CASE l \in G
    <3>1. by(l) = 1
      BY <2>2
    <3>. HIDE DEF by
    <3>2. \A j \in DOMAIN wait'[l] :
            \/ j = 1 /\ wait'[l][j] = F
            \/ j - 1 \in DOMAIN wait[l] /\ wait'[l][j] = wait[l][j - 1]
      BY <1>8, <3>1
    <3>3. DOMAIN wait'[l] = 1 .. Len(wait'[l]) /\ Len(wait'[l]) \in Nat
      <4>1. Len(wait'[l]) = Len(wait[l]) + 1 /\ Len(wait[l]) \in Nat /\ DOMAIN wait'[l] = 1 .. Len(wait'[l])
        BY <1>8, <3>1
      <4>. QED BY <4>1
    <3>4. group'[l] \subseteq G /\ group'[l] # G /\ place'[l] \in { p, q }
      BY <1>7, <2>2
    <3>5. group'[l] \subseteq wait'[l][i].lanes /\ group'[l] # wait'[l][i].lanes
      BY <1>2, <1>12, <2>2, <3>2, <3>4
    <3>6. Inside(place'[l], wait'[l][i])
      <4>1. CASE wait'[l][i] = F
        BY <1>20, <3>4, <4>1
      <4>2. CASE i - 1 \in DOMAIN wait[l] /\ wait'[l][i] = wait[l][i - 1]
        BY <1>12, <2>2, <3>4, <4>2
      <4>. QED BY <3>2, <4>1, <4>2
    <3>7. ASSUME NEW j \in DOMAIN wait'[l], i < j
          PROVE  /\ wait'[l][i].lanes \subseteq wait'[l][j].lanes /\ wait'[l][i].lanes # wait'[l][j].lanes
                 /\ Past(wait'[l][i], wait'[l][j])
      <4>1. j - 1 \in DOMAIN wait[l] /\ wait'[l][j] = wait[l][j - 1] /\ i \in Nat /\ j \in Nat
        BY <3>2, <3>3, <3>7
      <4>2. CASE wait'[l][i] = F
        BY <1>2, <1>12, <2>2, <4>1, <4>2
      <4>3. CASE i - 1 \in DOMAIN wait[l] /\ wait'[l][i] = wait[l][i - 1]
        <5>1. i - 1 < j - 1
          BY <3>7, <4>1
        <5>. QED BY <1>0, <4>1, <4>3, <5>1 DEF Framed
      <4>. QED BY <3>2, <4>2, <4>3
    <3>. QED BY <3>5, <3>6, <3>7
  <2>3. CASE l \notin G
    <3>1. i \in DOMAIN wait[l] /\ wait'[l] = wait[l] /\ place'[l] = place[l] /\ group'[l] = group[l]
      BY <1>6, <2>3
    <3>. HIDE DEF by
    <3>. QED BY <1>0, <3>1 DEF Framed
  <2>. QED BY <2>2, <2>3
<1>14. Shared'
  <2>. SUFFICES ASSUME NEW l \in LaneIds, NEW m \in LaneIds, NEW i \in DOMAIN wait'[l], NEW j \in DOMAIN wait'[m],
                       wait'[l][i] = wait'[m][j]
                PROVE  SameFrom(wait'[l], i, wait'[m], j) /\ Agree(l, m, wait'[l][i].place[1])
    <3>1. \A l, m, k : Agree(l, m, k)' <=> Agree(l, m, k)
      BY DEF Agree
    <3>. QED BY <3>1, Zenon DEF Shared
  <2>1. i \in Nat /\ j \in Nat /\ by(l) \in Int /\ by(m) \in Int
    <3>1. DOMAIN wait'[l] = 1 .. Len(wait'[l]) /\ DOMAIN wait'[m] = 1 .. Len(wait'[m])
      BY <1>8
    <3>. QED BY <3>1
  <2>2. CASE l \in G /\ i = 1 /\ wait'[l][i] = F
    <3>1. m \in G
      <4>. SUFFICES ASSUME m \notin G PROVE FALSE
        OBVIOUS
      <4>1. j \in DOMAIN wait[m] /\ wait[m][j] = F
        BY <1>6, <2>2
      <4>2. group[m] \subseteq F.lanes /\ m \in group[m]
        BY <1>0, <1>1, <4>1 DEF Framed
      <4>. QED BY <1>2, <4>2
    <3>2. j = 1
      <4>. SUFFICES ASSUME j # 1 PROVE FALSE
        OBVIOUS
      <4>1. by(m) = 1
        BY <3>1
      <4>. HIDE DEF by
      <4>2. j - 1 \in DOMAIN wait[m] /\ wait[m][j - 1] = F
        BY <1>8, <2>2, <4>1
      <4>. QED BY <1>2, <1>12, <3>1, <4>2
    <3>3. wait'[m] = wait'[l]
      <4>1. wait[m] = wait[l]
        BY <1>1, <2>2, <3>1
      <4>. QED BY <1>5, <2>2, <3>1, <4>1
    <3>4. SameFrom(wait'[l], 1, wait'[l], 1)
      BY DEF SameFrom
    <3>5. Agree(l, m, r[1])
      BY <1>20, <2>2, <3>1
    <3>. QED BY <1>2, <2>2, <3>2, <3>3, <3>4, <3>5
  <2>3. CASE m \in G /\ j = 1 /\ wait'[m][j] = F
    <3>1. l \in G
      <4>. SUFFICES ASSUME l \notin G PROVE FALSE
        OBVIOUS
      <4>1. i \in DOMAIN wait[l] /\ wait[l][i] = F
        BY <1>6, <2>3
      <4>2. group[l] \subseteq F.lanes /\ l \in group[l]
        BY <1>0, <1>1, <4>1 DEF Framed
      <4>. QED BY <1>2, <4>2
    <3>2. i = 1
      <4>. SUFFICES ASSUME i # 1 PROVE FALSE
        OBVIOUS
      <4>1. by(l) = 1
        BY <3>1
      <4>. HIDE DEF by
      <4>2. i - 1 \in DOMAIN wait[l] /\ wait[l][i - 1] = F
        BY <1>8, <2>3, <4>1
      <4>. QED BY <1>2, <1>12, <3>1, <4>2
    <3>. QED BY <2>2, <2>3, <3>1, <3>2
  <2>4. CASE /\ i - by(l) \in DOMAIN wait[l] /\ wait'[l][i] = wait[l][i - by(l)]
             /\ j - by(m) \in DOMAIN wait[m] /\ wait'[m][j] = wait[m][j - by(m)]
    <3>. HIDE DEF by
    <3>. DEFINE a == i - by(l)
                b == j - by(m)
    <3>1. wait[l][a] = wait[m][b] /\ a \in DOMAIN wait[l] /\ b \in DOMAIN wait[m] /\ wait'[l][i] = wait[l][a]
      BY <2>4
    <3>2. a + by(l) = i /\ b + by(m) = j
      BY <2>1
    <3>3. a \in Nat /\ b \in Nat /\ 1 <= a /\ 1 <= b
      <4>1. DOMAIN wait[l] = 1 .. Len(wait[l]) /\ DOMAIN wait[m] = 1 .. Len(wait[m])
        BY <1>8
      <4>. QED BY <2>4, <4>1
    <3>. HIDE DEF a, b
    <3>4. SameFrom(wait[l], a, wait[m], b) /\ Agree(l, m, wait[l][a].place[1])
      BY <1>0, <3>1, Zenon DEF Shared
    <3>5. \A n \in a .. Len(wait[l]) : wait'[l][n + by(l)] = wait[l][n]
      <4>1. a .. Len(wait[l]) \subseteq 1 .. Len(wait[l])
        BY <3>3, <1>8
      <4>. QED BY <1>8, <4>1
    <3>6. \A n \in b .. Len(wait[m]) : wait'[m][n + by(m)] = wait[m][n]
      <4>1. b .. Len(wait[m]) \subseteq 1 .. Len(wait[m])
        BY <3>3, <1>8
      <4>. QED BY <1>8, <4>1
    <3>7. /\ Len(wait[l]) \in Nat /\ Len(wait[m]) \in Nat
          /\ Len(wait'[l]) = Len(wait[l]) + by(l) /\ Len(wait'[m]) = Len(wait[m]) + by(m)
      BY <1>8
    <3>8. SameFrom(wait'[l], a + by(l), wait'[m], b + by(m))
      BY <2>1, <3>3, <3>4, <3>5, <3>6, <3>7, SameShift
    <3>. QED BY <3>1, <3>2, <3>4, <3>8
  <2>5. \/ l \in G /\ i = 1 /\ wait'[l][i] = F
        \/ i - by(l) \in DOMAIN wait[l] /\ wait'[l][i] = wait[l][i - by(l)]
    <3>. HIDE DEF by
    <3>. QED BY <1>8
  <2>6. \/ m \in G /\ j = 1 /\ wait'[m][j] = F
        \/ j - by(m) \in DOMAIN wait[m] /\ wait'[m][j] = wait[m][j - by(m)]
    <3>. HIDE DEF by
    <3>. QED BY <1>8
  <2>. HIDE DEF by
  <2>. QED BY <2>2, <2>3, <2>4, <2>5, <2>6
<1>15. Replicated'
  <2>. SUFFICES ASSUME NEW l \in LaneIds, NEW m \in group'[l]
                PROVE  Agree(l, m, place'[l][1])
    <3>1. \A l, m, k : Agree(l, m, k)' <=> Agree(l, m, k)
      BY DEF Agree
    <3>. QED BY <3>1, Zenon DEF Replicated
  <2>1. CASE l \in G
    <3>1. m \in G /\ place'[l] \in { p, q }
      BY <1>7, <2>1
    <3>. QED BY <1>20, <2>1, <3>1
  <2>2. CASE l \notin G
    <3>1. m \in group[l] /\ place'[l] = place[l]
      BY <1>6, <2>2
    <3>. QED BY <1>0, <3>1 DEF Replicated
  <2>. QED BY <2>1, <2>2
<1>16. Led'
  <2>. SUFFICES ASSUME NEW l \in LaneIds, words[place'[l][1]].op = "sw"
                PROVE  /\ place'[l][2] = 2 => (leader[l] <=> l = Max(group'[l]))
                       /\ place'[l][2] = 3 => group'[l] = {l}
    BY DEF Led, WordAt
  <2>1. CASE l \in G
    <3>1. CASE l \in some
      <4>1. place'[l] = p /\ group'[l] = some
        BY <1>7, <2>1, <3>1
      <4>. QED BY <1>20, <2>1, <3>1, <4>1
    <3>2. CASE l \notin some
      <4>1. place'[l] = q
        BY <1>7, <2>1, <3>2
      <4>. QED BY <1>20, <4>1
    <3>. QED BY <3>1, <3>2
  <2>2. CASE l \notin G
    BY <1>0, <1>6, <2>2 DEF Led, WordAt
  <2>. QED BY <2>1, <2>2
<1>. QED BY <1>10, <1>11, <1>13, <1>14, <1>15, <1>16 DEF IInv

(* The lanes that wait for each other have all come and run together       *)
(* again; further out they wait alike.                                     *)
LEMMA LanesMeet ==
  ASSUME IInv, Meet
  PROVE  IInv'
<1>0. Typed /\ Grouped /\ Framed /\ Shared /\ Replicated /\ Led
  BY DEF IInv
<1>1. PICK l0 \in LaneIds :
        /\ Waiting(l0)
        /\ \A m \in Head(wait[l0]).lanes : Waiting(m) /\ Head(wait[m]) = Head(wait[l0])
        /\ group' = [m \in LaneIds |-> IF m \in Head(wait[l0]).lanes THEN Head(wait[l0]).lanes ELSE group[m]]
        /\ wait'  = [m \in LaneIds |-> IF m \in Head(wait[l0]).lanes THEN Tail(wait[m]) ELSE wait[m]]
  BY DEF Meet
<1>2. /\ words' = words /\ reconverges' = reconverges /\ place' = place /\ leader' = leader
      /\ x' = x /\ v' = v /\ mem' = mem /\ stored' = stored
  BY DEF Meet
<1>. DEFINE f == Head(wait[l0])
            all == f.lanes
            by(l) == IF l \in all THEN -1 ELSE 0
<1>3. \A l \in LaneIds : wait[l] \in Seq(Frames) /\ Len(wait[l]) \in Nat /\ DOMAIN wait[l] = 1 .. Len(wait[l])
  BY <1>0 DEF Typed
<1>4. wait[l0] # << >> /\ f = wait[l0][1] /\ 1 \in DOMAIN wait[l0]
  BY <1>1, <1>3 DEF Waiting
<1>5. f \in Frames
  BY <1>0, <1>4, FrameIs
<1>6. all \subseteq LaneIds
  BY <1>5 DEF Frames
<1>7. ASSUME NEW m \in all
      PROVE  /\ m \in LaneIds /\ wait[m] # << >> /\ 1 \in DOMAIN wait[m] /\ wait[m][1] = f
             /\ place[m] = f.place /\ group[m] \subseteq all
  <2>1. m \in LaneIds /\ Waiting(m) /\ Head(wait[m]) = f
    BY <1>1, <1>6, <1>7
  <2>2. wait[m] # << >> /\ Head(wait[m]) = wait[m][1] /\ 1 \in DOMAIN wait[m] /\ place[m] = f.place
    BY <1>3, <2>1 DEF Waiting
  <2>3. group[m] \subseteq wait[m][1].lanes
    BY <1>0, <2>1, <2>2 DEF Framed
  <2>. QED BY <2>1, <2>2, <2>3
<1>8. \A l \in LaneIds : l \in group[l] /\ group[l] \subseteq LaneIds /\ \A m \in group[l] : group[m] = group[l]
  BY <1>0 DEF Typed, Grouped
<1>9. ASSUME NEW l \in LaneIds, NEW m \in group[l] PROVE m \in LaneIds /\ (m \in all <=> l \in all)
  BY <1>7, <1>8
<1>10. /\ \A m \in all : group'[m] = all /\ wait'[m] = Tail(wait[m])
       /\ \A l \in LaneIds : l \notin all => group'[l] = group[l] /\ wait'[l] = wait[l]
  BY <1>1, <1>6
<1>11. /\ group' = [m \in LaneIds |-> IF m \in all THEN all ELSE group[m]]
       /\ wait'  = [m \in LaneIds |-> IF m \in all THEN Tail(wait[m]) ELSE wait[m]]
  BY <1>1
<1>12. ASSUME NEW l \in all, NEW m \in all
       PROVE  SameFrom(wait[l], 1, wait[m], 1) /\ Agree(l, m, f.place[1])
  <2>1. /\ l \in LaneIds /\ 1 \in DOMAIN wait[l] /\ m \in LaneIds /\ 1 \in DOMAIN wait[m]
        /\ wait[l][1] = wait[m][1] /\ wait[l][1] = f
    BY <1>7
  <2>2. SameFrom(wait[l], 1, wait[m], 1) /\ Agree(l, m, wait[l][1].place[1])
    BY <1>0, <2>1, Zenon DEF Shared
  <2>. QED BY <2>1, <2>2
<1>13. ASSUME NEW l \in LaneIds
       PROVE  /\ wait'[l] \in Seq(Frames) /\ DOMAIN wait'[l] = 1 .. Len(wait'[l])
              /\ Len(wait'[l]) = Len(wait[l]) + by(l)
              /\ \A n \in 1 .. Len(wait[l]) : n + by(l) # 0 => wait'[l][n + by(l)] = wait[l][n]
              /\ \A i \in DOMAIN wait'[l] : i - by(l) \in DOMAIN wait[l] /\ wait'[l][i] = wait[l][i - by(l)]
  <2>1. CASE l \in all
    <3>1. by(l) = -1
      BY <2>1
    <3>. HIDE DEF by
    <3>. DEFINE s == wait[l]
                t == wait'[l]
    <3>2. s \in Seq(Frames) /\ s # << >> /\ t = Tail(s) /\ Len(s) \in Nat
      BY <1>3, <1>7, <1>10, <2>1
    <3>. HIDE DEF s, t
    <3>3. /\ t \in Seq(Frames) /\ Len(t) = Len(s) + (-1) /\ DOMAIN t = 1 .. Len(t)
          /\ \A n \in 2 .. Len(s) : t[n + (-1)] = s[n]
          /\ \A i \in DOMAIN t : i \in Nat /\ i + 1 \in DOMAIN s /\ t[i] = s[i + 1]
      BY <3>2, PoppedIs
    <3>4. ASSUME NEW n \in 1 .. Len(s), n + (-1) # 0 PROVE t[n + (-1)] = s[n]
      <4>1. n \in 2 .. Len(s)
        BY <3>2, <3>4
      <4>. QED BY <3>3, <4>1
    <3>5. ASSUME NEW i \in DOMAIN t PROVE i - (-1) \in DOMAIN s /\ t[i] = s[i - (-1)]
      <4>1. i \in Nat /\ i - (-1) = i + 1
        BY <3>3
      <4>. QED BY <3>3, <4>1
    <3>. QED BY <3>1, <3>3, <3>4, <3>5 DEF s, t
  <2>2. CASE l \notin all
    <3>1. by(l) = 0 /\ wait'[l] = wait[l]
      BY <1>10, <2>2
    <3>2. \A n \in Nat : n + 0 = n /\ n - 0 = n
      OBVIOUS
    <3>. HIDE DEF by, all
    <3>. QED BY <1>3, <3>1, <3>2
  <2>. QED BY <2>1, <2>2
<1>. HIDE DEF f
<1>14. Typed'
  <2>1. group' \in [LaneIds -> SUBSET LaneIds]
    BY <1>0, <1>6, <1>11 DEF Typed
  <2>2. wait' \in [LaneIds -> Seq(Frames)]
    <3>1. \A l \in LaneIds : wait'[l] \in Seq(Frames)
      BY <1>13
    <3>2. wait' = [l \in LaneIds |-> wait'[l]]
      BY <1>11
    <3>. QED BY <3>1, <3>2
  <2>3. /\ place' \in [LaneIds -> Nat \X Nat] /\ \A l \in LaneIds : IsPlace(place'[l])
        /\ leader' \in [LaneIds -> BOOLEAN] /\ x' \in [LaneIds -> [XRegs -> Values]]
        /\ v' \in [LaneIds -> [VRegs -> Values]] /\ mem' \in [Cells -> Values]
        /\ stored' \in [DOMAIN words -> Nat]
    BY <1>0, <1>2 DEF Typed
  <2>. QED BY <1>0, <1>2, <2>1, <2>2, <2>3, TypedNext
<1>15. Grouped'
  <2>. SUFFICES ASSUME NEW l \in LaneIds
                PROVE  /\ l \in group'[l]
                       /\ \A m \in group'[l] : group'[m] = group'[l] /\ place[m] = place[l] /\ wait'[m] = wait'[l]
    BY <1>2 DEF Grouped
  <2>1. CASE l \in all
    <3>1. ASSUME NEW m \in all PROVE wait'[m] = wait'[l]
      <4>. DEFINE s == wait[l]
                  t == wait[m]
      <4>1. s \in Seq(Frames) /\ t \in Seq(Frames) /\ SameFrom(s, 1, t, 1)
        BY <1>3, <1>7, <1>12, <2>1
      <4>. HIDE DEF s, t
      <4>2. Len(s) = Len(t) /\ Len(s) \in Nat /\ \A d \in 0 .. Len(s) - 1 : s[1 + d] = t[1 + d]
        BY <4>1 DEF SameFrom
      <4>3. ASSUME NEW n \in 1 .. Len(s) PROVE s[n] = t[n]
        <5>1. n - 1 \in 0 .. Len(s) - 1 /\ 1 + (n - 1) = n
          BY <4>2
        <5>. QED BY <4>2, <5>1
      <4>4. s = t
        BY <4>1, <4>2, <4>3, SeqEqual
      <4>. QED BY <1>10, <2>1, <4>4 DEF s, t
    <3>. QED BY <1>7, <1>10, <2>1, <3>1
  <2>2. CASE l \notin all
    <3>1. \A m \in group[l] : m \in LaneIds /\ m \notin all /\ group[m] = group[l] /\ place[m] = place[l] /\ wait[m] = wait[l]
      BY <1>0, <1>9, <2>2 DEF Grouped
    <3>. QED BY <1>8, <1>10, <2>2, <3>1
  <2>. QED BY <2>1, <2>2
<1>16. Framed'
  <2>1. \A a, g : (Inside(a, g)' <=> Inside(a, g)) /\ (Past(a, g)' <=> Past(a, g))
    BY <1>2 DEF Inside, Past
  <2>. SUFFICES ASSUME NEW l \in LaneIds, NEW i \in DOMAIN wait'[l]
                PROVE  /\ reconverges
                       /\ group'[l] \subseteq wait'[l][i].lanes /\ group'[l] # wait'[l][i].lanes
                       /\ Inside(place[l], wait'[l][i])
                       /\ \A j \in DOMAIN wait'[l] : i < j =>
                            /\ wait'[l][i].lanes \subseteq wait'[l][j].lanes /\ wait'[l][i].lanes # wait'[l][j].lanes
                            /\ Past(wait'[l][i], wait'[l][j])
    BY <1>2, <2>1 DEF Framed
  <2>2. CASE l \in all
    <3>1. by(l) = -1
      BY <2>2
    <3>. HIDE DEF by
    <3>2. \A j \in DOMAIN wait'[l] :
            j \in Nat /\ 1 <= j /\ j + 1 \in DOMAIN wait[l] /\ wait'[l][j] = wait[l][j + 1]
      <4>. TAKE j \in DOMAIN wait'[l]
      <4>1. j - (-1) \in DOMAIN wait[l] /\ wait'[l][j] = wait[l][j - (-1)]
        BY <1>13, <3>1
      <4>2. j \in Nat /\ 1 <= j
        <5>1. DOMAIN wait'[l] = 1 .. Len(wait'[l])
          BY <1>13
        <5>. QED BY <5>1
      <4>3. j - (-1) = j + 1
        BY <4>2
      <4>. QED BY <4>1, <4>2, <4>3
    <3>3. 1 \in DOMAIN wait[l] /\ i + 1 \in DOMAIN wait[l] /\ 1 < i + 1 /\ wait[l][1].lanes = all /\ group'[l] = all
      BY <1>7, <1>10, <2>2, <3>2
    <3>. HIDE DEF all
    <3>4. group'[l] \subseteq wait'[l][i].lanes /\ group'[l] # wait'[l][i].lanes
      <4>1. /\ wait[l][1].lanes \subseteq wait[l][i + 1].lanes
            /\ wait[l][1].lanes # wait[l][i + 1].lanes
        BY <1>0, <3>3 DEF Framed
      <4>. QED BY <3>2, <3>3, <4>1
    <3>5. reconverges /\ Inside(place[l], wait'[l][i])
      BY <1>0, <3>2, <3>3 DEF Framed
    <3>6. ASSUME NEW j \in DOMAIN wait'[l], i < j
          PROVE  /\ wait'[l][i].lanes \subseteq wait'[l][j].lanes /\ wait'[l][i].lanes # wait'[l][j].lanes
                 /\ Past(wait'[l][i], wait'[l][j])
      <4>1. i + 1 < j + 1 /\ j + 1 \in DOMAIN wait[l]
        BY <3>2, <3>6
      <4>. QED BY <1>0, <3>2, <3>3, <4>1 DEF Framed
    <3>. QED BY <3>4, <3>5, <3>6
  <2>3. CASE l \notin all
    <3>1. i \in DOMAIN wait[l] /\ wait'[l] = wait[l] /\ group'[l] = group[l]
      BY <1>10, <2>3
    <3>. HIDE DEF by, all
    <3>. QED BY <1>0, <3>1 DEF Framed
  <2>. QED BY <2>2, <2>3
<1>17. Shared'
  <2>. SUFFICES ASSUME NEW l \in LaneIds, NEW m \in LaneIds, NEW i \in DOMAIN wait'[l], NEW j \in DOMAIN wait'[m],
                       wait'[l][i] = wait'[m][j]
                PROVE  SameFrom(wait'[l], i, wait'[m], j) /\ Agree(l, m, wait'[l][i].place[1])
    <3>1. \A l, m, k : Agree(l, m, k)' <=> Agree(l, m, k)
      BY <1>2 DEF Agree
    <3>. QED BY <3>1, Zenon DEF Shared
  <2>1. i \in Nat /\ j \in Nat /\ 1 <= i /\ 1 <= j /\ by(l) \in Int /\ by(m) \in Int
    <3>1. DOMAIN wait'[l] = 1 .. Len(wait'[l]) /\ DOMAIN wait'[m] = 1 .. Len(wait'[m])
      BY <1>13
    <3>. QED BY <3>1
  <2>2. /\ i - by(l) \in DOMAIN wait[l] /\ wait'[l][i] = wait[l][i - by(l)]
        /\ j - by(m) \in DOMAIN wait[m] /\ wait'[m][j] = wait[m][j - by(m)]
    <3>. HIDE DEF by
    <3>. QED BY <1>13
  <2>. HIDE DEF by
  <2>. DEFINE a == i - by(l)
              b == j - by(m)
  <2>3. wait[l][a] = wait[m][b] /\ a \in DOMAIN wait[l] /\ b \in DOMAIN wait[m] /\ wait'[l][i] = wait[l][a]
    BY <2>2
  <2>4. a + by(l) = i /\ b + by(m) = j
    BY <2>1
  <2>5. a \in Nat /\ b \in Nat /\ 1 <= a /\ 1 <= b
    <3>1. DOMAIN wait[l] = 1 .. Len(wait[l]) /\ DOMAIN wait[m] = 1 .. Len(wait[m])
      BY <1>3
    <3>. QED BY <2>2, <3>1
  <2>. HIDE DEF a, b
  <2>6. SameFrom(wait[l], a, wait[m], b) /\ Agree(l, m, wait[l][a].place[1])
    BY <1>0, <2>3, Zenon DEF Shared
  <2>7. \A n \in a .. Len(wait[l]) : wait'[l][n + by(l)] = wait[l][n]
    <3>1. \A n \in a .. Len(wait[l]) : n \in 1 .. Len(wait[l]) /\ n + by(l) # 0
      BY <2>1, <2>4, <2>5, <1>3
    <3>. QED BY <1>13, <3>1
  <2>8. \A n \in b .. Len(wait[m]) : wait'[m][n + by(m)] = wait[m][n]
    <3>1. \A n \in b .. Len(wait[m]) : n \in 1 .. Len(wait[m]) /\ n + by(m) # 0
      BY <2>1, <2>4, <2>5, <1>3
    <3>. QED BY <1>13, <3>1
  <2>9. /\ Len(wait[l]) \in Nat /\ Len(wait[m]) \in Nat
        /\ Len(wait'[l]) = Len(wait[l]) + by(l) /\ Len(wait'[m]) = Len(wait[m]) + by(m)
    BY <1>3, <1>13
  <2>10. SameFrom(wait'[l], a + by(l), wait'[m], b + by(m))
    BY <2>1, <2>5, <2>6, <2>7, <2>8, <2>9, SameShift
  <2>. QED BY <2>3, <2>4, <2>6, <2>10
<1>18. Replicated'
  <2>. SUFFICES ASSUME reconverges, NEW l \in LaneIds, NEW m \in group'[l]
                PROVE  Agree(l, m, place[l][1])
    <3>1. \A l, m, k : Agree(l, m, k)' <=> Agree(l, m, k)
      BY <1>2 DEF Agree
    <3>. QED BY <1>2, <3>1, Zenon DEF Replicated
  <2>1. CASE l \in all
    BY <1>7, <1>10, <1>12, <2>1
  <2>2. CASE l \notin all
    BY <1>0, <1>10, <2>2 DEF Replicated
  <2>. QED BY <2>1, <2>2
<1>19. Led'
  <2>. SUFFICES ASSUME reconverges, NEW l \in LaneIds, words[place[l][1]].op = "sw"
                PROVE  /\ place[l][2] = 2 => (leader[l] <=> l = Max(group'[l]))
                       /\ place[l][2] = 3 => group'[l] = {l}
    BY <1>2 DEF Led, WordAt
  <2>1. CASE l \in all
    <3>1. place[l][2] \in { 1, 4 }
      BY <1>0, <1>7, <2>1, FrameWord
    <3>. QED BY <3>1
  <2>2. CASE l \notin all
    BY <1>0, <1>10, <2>2 DEF Led, WordAt
  <2>. QED BY <2>1, <2>2
<1>. QED BY <1>14, <1>15, <1>16, <1>17, <1>18, <1>19 DEF IInv

(* On another device, where nothing is promised but the types: a group     *)
(* parts, or two run on as one.                                            *)
LEMMA NothingPromised ==
  ASSUME Typed', Grouped', ~reconverges', \A l \in LaneIds : wait'[l] = << >>
  PROVE  IInv'
<1>1. Framed' /\ Shared'
  BY DEF Framed, Shared
<1>2. Replicated' /\ Led'
  BY DEF Replicated, Led
<1>. QED BY <1>1, <1>2 DEF IInv

LEMMA NoFrames ==
  ASSUME IInv, ~reconverges
  PROVE  \A l \in LaneIds : wait[l] = << >>
<1>. TAKE l \in LaneIds
<1>1. wait[l] \in Seq(Frames) /\ Framed
  BY DEF IInv, Typed
<1>2. \A i \in DOMAIN wait[l] : FALSE
  BY <1>1 DEF Framed
<1>3. SUFFICES ASSUME wait[l] # << >> PROVE FALSE
  OBVIOUS
<1>4. 1 \in DOMAIN wait[l]
  BY <1>1, <1>3
<1>. QED BY <1>2, <1>4

LEMMA LanesMeetByChance ==
  ASSUME IInv, MeetByChance
  PROVE  IInv'
<1>0. Typed /\ Grouped
  BY DEF IInv
<1>1. /\ words' = words /\ reconverges' = reconverges /\ place' = place /\ wait' = wait /\ leader' = leader
      /\ x' = x /\ v' = v /\ mem' = mem /\ stored' = stored /\ ~reconverges
  BY DEF MeetByChance
<1>2. PICK l, m \in LaneIds :
        /\ place[l] = place[m]
        /\ group' = [n \in LaneIds |-> IF n \in group[l] \cup group[m] THEN group[l] \cup group[m] ELSE group[n]]
  BY DEF MeetByChance
<1>3. \A n \in LaneIds : wait[n] = << >>
  BY <1>1, NoFrames
<1>4. /\ \A n \in LaneIds : n \in group[n] /\ group[n] \subseteq LaneIds
      /\ \A n \in LaneIds : \A o \in group[n] : group[o] = group[n] /\ place[o] = place[n]
  BY <1>0 DEF Typed, Grouped
<1>5. Typed'
  <2>1. group' \in [LaneIds -> SUBSET LaneIds]
    BY <1>0, <1>2, <1>4 DEF Typed
  <2>2. /\ place' \in [LaneIds -> Nat \X Nat] /\ \A n \in LaneIds : IsPlace(place'[n])
        /\ leader' \in [LaneIds -> BOOLEAN] /\ x' \in [LaneIds -> [XRegs -> Values]]
        /\ v' \in [LaneIds -> [VRegs -> Values]] /\ mem' \in [Cells -> Values]
        /\ stored' \in [DOMAIN words -> Nat] /\ wait' \in [LaneIds -> Seq(Frames)]
    BY <1>0, <1>1 DEF Typed
  <2>. QED BY <1>0, <1>1, <2>1, <2>2, TypedNext
<1>6. Grouped'
  <2>. SUFFICES ASSUME NEW n \in LaneIds
                PROVE  /\ n \in group'[n]
                       /\ \A o \in group'[n] : group'[o] = group'[n] /\ place[o] = place[n] /\ wait[o] = wait[n]
    BY <1>1 DEF Grouped
  <2>. DEFINE all == group[l] \cup group[m]
  <2>1. /\ \A o \in LaneIds : group'[o] = IF o \in all THEN all ELSE group[o]
        /\ all \subseteq LaneIds /\ \A o \in all : place[o] = place[l]
    BY <1>2, <1>4
  <2>2. CASE n \in all
    <3>. HIDE DEF all
    <3>. QED BY <1>3, <2>1, <2>2
  <2>3. CASE n \notin all
    <3>1. \A o \in group[n] : o \in LaneIds /\ o \notin all
      BY <1>4, <2>3
    <3>. HIDE DEF all
    <3>. QED BY <1>3, <1>4, <2>1, <2>3, <3>1
  <2>. QED BY <2>2, <2>3
<1>. QED BY <1>1, <1>3, <1>5, <1>6, NothingPromised

LEMMA GroupPartsFreely ==
  ASSUME IInv, ~reconverges, NEW l0 \in LaneIds, NEW G, G = group[l0], NEW some, some \subseteq G,
         NEW p \in Nat \X Nat, NEW q \in Nat \X Nat, NEW r,
         MayGo(place[l0], p), MayGo(place[l0], q), Part(G, some, p, q, r),
         words' = words, reconverges' = reconverges, leader' = leader, x' = x,
         v' = v, mem' = mem, stored' = stored
  PROVE  IInv'
<1>0. Typed /\ Grouped
  BY DEF IInv
<1>1. /\ G \subseteq LaneIds /\ place[l0] \in Nat \X Nat /\ IsPlace(place[l0])
      /\ \A l \in LaneIds : l \in group[l] /\ group[l] \subseteq LaneIds /\ \A m \in group[l] : group[m] = group[l]
      /\ \A m \in G : group[m] = G
  BY <1>0 DEF Typed, Grouped
<1>2. /\ place' = [l \in LaneIds |-> IF l \in some THEN p ELSE IF l \in G THEN q ELSE place[l]]
      /\ group' = [l \in LaneIds |-> IF l \in some THEN some ELSE IF l \in G THEN G \ some ELSE group[l]]
      /\ wait'  = [l \in LaneIds |-> wait[l]]
  BY DEF Part
<1>3. \A l \in LaneIds : wait'[l] = << >>
  BY <1>2, NoFrames
<1>4. Typed'
  <2>1. IsPlace(p) /\ IsPlace(q)
    BY <1>0, <1>1, MayGoPlace
  <2>2. place' \in [LaneIds -> Nat \X Nat] /\ \A l \in LaneIds : IsPlace(place'[l])
    BY <1>0, <1>2, <2>1 DEF Typed
  <2>3. group' \in [LaneIds -> SUBSET LaneIds]
    BY <1>0, <1>1, <1>2 DEF Typed
  <2>4. wait' \in [LaneIds -> Seq(Frames)]
    BY <1>0, <1>2 DEF Typed
  <2>5. /\ leader' \in [LaneIds -> BOOLEAN] /\ x' \in [LaneIds -> [XRegs -> Values]]
        /\ v' \in [LaneIds -> [VRegs -> Values]] /\ mem' \in [Cells -> Values]
        /\ stored' \in [DOMAIN words -> Nat]
    BY <1>0 DEF Typed
  <2>. QED BY <1>0, <2>2, <2>3, <2>4, <2>5, TypedNext
<1>5. Grouped'
  <2>. SUFFICES ASSUME NEW l \in LaneIds
                PROVE  /\ l \in group'[l]
                       /\ \A m \in group'[l] : group'[m] = group'[l] /\ place'[m] = place'[l] /\ wait'[m] = wait'[l]
    BY DEF Grouped
  <2>1. CASE l \in G
    <3>1. \A m \in G : group'[m] = (IF m \in some THEN some ELSE G \ some) /\ place'[m] = IF m \in some THEN p ELSE q
      BY <1>1, <1>2
    <3>. QED BY <1>1, <1>3, <2>1, <3>1
  <2>2. CASE l \notin G
    <3>1. \A m \in group[l] : m \in LaneIds /\ m \notin G /\ group[m] = group[l] /\ place[m] = place[l]
      BY <1>0, <1>1, <2>2 DEF Grouped
    <3>2. \A m \in LaneIds : m \notin G => group'[m] = group[m] /\ place'[m] = place[m]
      BY <1>2
    <3>. QED BY <1>1, <1>3, <2>2, <3>1, <3>2
  <2>. QED BY <2>1, <2>2
<1>6. ~reconverges'
  OBVIOUS
<1>. QED BY <1>3, <1>4, <1>5, <1>6, NothingPromised

(* When all or none of the lanes of a group part from it, it goes on as    *)
(* it is.                                                                  *)
LEMMA PartOfNone ==
  ASSUME IInv, NEW l0 \in LaneIds, NEW G, G = group[l0], NEW some, some \in {{}, G},
         NEW p, NEW q, NEW r, Part(G, some, p, q, r)
  PROVE  group' = group /\ wait' = wait /\ Go(G, IF some = {} THEN q ELSE p)
<1>0. Typed /\ Grouped
  BY DEF IInv
<1>1. \A l \in G : l \in LaneIds /\ group[l] = G
  BY <1>0 DEF Typed, Grouped
<1>2. l0 \in G
  BY <1>0 DEF Grouped
<1>3. group' = group
  <2>1. \A l \in LaneIds : (IF l \in some THEN some ELSE IF l \in G THEN G \ some ELSE group[l]) = group[l]
    BY <1>1
  <2>2. group' = [l \in LaneIds |-> group[l]]
    BY <2>1 DEF Part
  <2>. QED BY <1>0, <2>2 DEF Typed
<1>4. wait' = wait
  <2>1. wait' = [l \in LaneIds |-> wait[l]]
    BY DEF Part
  <2>. QED BY <1>0, <2>1 DEF Typed
<1>5. Go(G, IF some = {} THEN q ELSE p)
  <2>1. \A l \in LaneIds : (IF l \in some THEN p ELSE IF l \in G THEN q ELSE place[l])
                             = (IF l \in G THEN IF some = {} THEN q ELSE p ELSE place[l])
    BY <1>2
  <2>. QED BY <2>1 DEF Part, Go
<1>. QED BY <1>3, <1>4, <1>5

(* A group goes on and writes no scalar register.                          *)
LEMMA GroupGoesQuietly ==
  ASSUME IInv, NEW l0 \in LaneIds, NEW G, G = group[l0], ~Waiting(l0),
         NEW q \in Nat \X Nat, MayGo(place[l0], q), Go(G, q),
         words' = words, reconverges' = reconverges, group' = group, wait' = wait, leader' = leader, x' = x,
         v' \in [LaneIds -> [VRegs -> Values]],
         mem' \in [Cells -> Values], stored' \in [DOMAIN words -> Nat],
         WritesX(words[place[l0][1]]) = {} \/ q[1] = place[l0][1],
         reconverges /\ words[q[1]].op = "sw" => q[2] # 2 /\ (q[2] = 3 => \A l \in G : G = {l})
  PROVE  IInv'
<1>0. Typed /\ Grouped /\ Replicated
  BY DEF IInv
<1>1. leader' \in [LaneIds -> BOOLEAN] /\ x' \in [LaneIds -> [XRegs -> Values]]
  BY <1>0 DEF Typed
<1>2. \A l \in LaneIds \ G : x'[l] = x[l] /\ leader'[l] = leader[l]
  OBVIOUS
<1>3. \A l \in G : \A r \in XRegs \ WritesX(words[place[l0][1]]) : x'[l][r] = x[l][r]
  OBVIOUS
<1>4. words[q[1]].live \subseteq words[place[l0][1]].live
  <2>1. place[l0] \in Nat \X Nat /\ IsPlace(place[l0])
    BY <1>0 DEF Typed
  <2>. QED BY <1>0, <2>1, GoReads
<1>5. ASSUME reconverges, NEW l \in G, NEW m \in G, NEW r \in words[q[1]].live
      PROVE  x'[l][r] = x'[m][r]
  <2>1. l \in LaneIds /\ m \in group[l] /\ place[l] = place[l0]
    BY <1>0 DEF Typed, Grouped
  <2>. QED BY <1>0, <1>4, <1>5, <2>1 DEF Replicated, Agree
<1>6. reconverges /\ words[q[1]].op = "sw" =>
        /\ q[2] = 2 => \A l \in G : leader'[l] <=> l = Max(G)
        /\ q[2] = 3 => \A l \in G : G = {l}
  OBVIOUS
<1>7. GoesOn(G, place[l0], q)
  BY <1>2, <1>3, <1>5, <1>6 DEF GoesOn
<1>. QED BY <1>1, <1>7, GroupGoesOn

(* A group goes on from a word that has written the same into the copies   *)
(* of its lanes.                                                           *)
LEMMA GroupWrites ==
  ASSUME IInv, NEW l0 \in LaneIds, NEW G, G = group[l0], ~Waiting(l0),
         NEW q \in Nat \X Nat, MayGo(place[l0], q), Go(G, q),
         words' = words, reconverges' = reconverges, group' = group, wait' = wait, leader' = leader,
         v' = v, mem' = mem, stored' = stored, NEW w, w = words[place[l0][1]],
         NEW val, WriteAll(G, w.rd, val), w.op # "sw", WritesX(w) = {w.rd} \ {0},
         \A l \in G : val[l] \in Values, reconverges => \A l, m \in G : val[l] = val[m]
  PROVE  IInv'
<1>0. Typed /\ Grouped /\ Replicated
  BY DEF IInv
<1>1. /\ G \subseteq LaneIds /\ place[l0] \in Nat \X Nat /\ IsPlace(place[l0]) /\ x \in [LaneIds -> [XRegs -> Values]]
      /\ \A m \in G : group[m] = G /\ place[m] = place[l0]
  BY <1>0 DEF Typed, Grouped
<1>2. /\ x' = [l \in LaneIds |-> IF l \in G /\ w.rd # 0 THEN [x[l] EXCEPT ![w.rd] = val[l]] ELSE x[l]]
  BY DEF WriteAll
<1>3. x' \in [LaneIds -> [XRegs -> Values]]
  BY <1>1, <1>2
<1>4. WritesX(w) \subseteq XRegs
  <2>1. place[l0][1] \in DOMAIN words /\ WellFormed(words)
    BY <1>0, <1>1, PlaceIs DEF Typed
  <2>. QED BY <2>1, WordIs
<1>5. \A l \in LaneIds \ G : x'[l] = x[l] /\ leader'[l] = leader[l]
  BY <1>2
<1>6. \A l \in G : \A r \in XRegs \ WritesX(w) : x'[l][r] = x[l][r]
  <2>. TAKE l \in G
  <2>. TAKE r \in XRegs \ WritesX(w)
  <2>1. l \in LaneIds /\ x[l] \in [XRegs -> Values] /\ r \in XRegs /\ (r # w.rd \/ w.rd = 0)
    BY <1>1
  <2>2. x'[l] = IF w.rd # 0 THEN [x[l] EXCEPT ![w.rd] = val[l]] ELSE x[l]
    BY <1>2, <2>1
  <2>. QED BY <2>1, <2>2
<1>7. \A l \in G : \A r \in WritesX(w) : x'[l][r] = val[l]
  <2>. TAKE l \in G
  <2>. TAKE r \in WritesX(w)
  <2>1. l \in LaneIds /\ x[l] \in [XRegs -> Values] /\ r = w.rd /\ w.rd \in XRegs /\ w.rd # 0
    BY <1>1, <1>4
  <2>2. x'[l] = [x[l] EXCEPT ![w.rd] = val[l]]
    BY <1>2, <2>1
  <2>. QED BY <2>1, <2>2
<1>8. ASSUME reconverges, NEW l \in G, NEW m \in G, NEW r \in words[q[1]].live
      PROVE  x'[l][r] = x'[m][r]
  <2>1. CASE r \in WritesX(w)
    BY <1>7, <1>8, <2>1
  <2>2. CASE r \notin WritesX(w)
    <3>1. r \in words[place[l0][1]].live
      BY <1>0, <1>1, <2>2, GoReads
    <3>2. r \in XRegs
      <4>1. place[l0][1] \in DOMAIN words /\ WellFormed(words)
        BY <1>0, <1>1, PlaceIs DEF Typed
      <4>. QED BY <3>1, <4>1, WordIs
    <3>3. x[l][r] = x[m][r]
      <4>1. l \in LaneIds /\ m \in group[l] /\ place[l] = place[l0]
        BY <1>1
      <4>. QED BY <1>0, <1>8, <3>1, <4>1 DEF Replicated, Agree
    <3>. QED BY <1>6, <2>2, <3>2, <3>3
  <2>. QED BY <2>1, <2>2
<1>9. words[q[1]].op = "sw" => q[2] = 1
  BY <1>0, <1>1, GoReads
<1>10. reconverges /\ words[q[1]].op = "sw" =>
         /\ q[2] = 2 => \A l \in G : leader'[l] <=> l = Max(G)
         /\ q[2] = 3 => \A l \in G : G = {l}
  BY <1>9
<1>11. /\ leader' \in [LaneIds -> BOOLEAN] /\ v' \in [LaneIds -> [VRegs -> Values]]
       /\ mem' \in [Cells -> Values] /\ stored' \in [DOMAIN words -> Nat]
  BY <1>0 DEF Typed
<1>12. GoesOn(G, place[l0], q)
  BY <1>5, <1>6, <1>8, <1>10 DEF GoesOn
<1>. QED BY <1>3, <1>11, <1>12, GroupGoesOn

----------------------------------------------------------------------------
(* The operations.                                                         *)

(* Lanes that run an operation are a group at the place of it.             *)
LEMMA RunsIs ==
  ASSUME IInv, NEW G \in SUBSET LaneIds, NEW op, Runs(G, op)
  PROVE  \E l \in LaneIds :
           /\ G = group[l] /\ l \in G /\ ~Waiting(l)
           /\ PlaceOf(G) = place[l] /\ WordOf(G) = words[place[l][1]]
           /\ \A m \in G : place[m] = place[l]
           /\ place[l] \in Nat \X Nat /\ IsPlace(place[l])
           /\ place[l][1] \in DOMAIN words /\ place[l][1] \in Nat /\ words[place[l][1]] \in Annotated
           /\ place[l][2] \in DOMAIN Emit(words[place[l][1]])
           /\ op = Emit(words[place[l][1]])[place[l][2]]
<1>0. Typed /\ Grouped
  BY DEF IInv
<1>1. PICK l \in G : G = group[l] /\ ~Waiting(l) /\ Op(l) = op
  BY DEF Runs
<1>2. l \in LaneIds /\ \A m \in G : place[m] = place[l]
  BY <1>0, <1>1 DEF Grouped
<1>3. PlaceOf(G) = place[l] /\ WordOf(G) = words[place[l][1]]
  BY <1>1, <1>2 DEF PlaceOf, WordOf
<1>4. place[l] \in Nat \X Nat /\ IsPlace(place[l])
  BY <1>0, <1>2 DEF Typed
<1>5. /\ place[l][1] \in DOMAIN words /\ place[l][1] \in Nat /\ words[place[l][1]] \in Annotated
      /\ place[l][2] \in DOMAIN Emit(words[place[l][1]])
  BY <1>0, <1>4, PlaceIs
<1>6. op = Emit(words[place[l][1]])[place[l][2]]
  BY <1>1 DEF Op, WordAt
<1>. QED BY <1>1, <1>2, <1>3, <1>4, <1>5, <1>6

(* What is read as a scalar is a value, and the same in all the lanes.     *)
LEMMA OperandIs ==
  ASSUME IInv, NEW l0 \in LaneIds, NEW G, G = group[l0], NEW w, w = words[place[l0][1]],
         NEW r, r \in Reads(w), w.op \in { "sw", "lw", "addi", "vmv_v_x", "branch" }
  PROVE  /\ \A l \in G : Scalar(x[l], r) \in Values
         /\ reconverges => \A l, m \in G : Scalar(x[l], r) = Scalar(x[m], r)
<1>0. Typed /\ Grouped /\ Replicated
  BY DEF IInv
<1>1. /\ \A l \in G : l \in LaneIds /\ place[l] = place[l0] /\ group[l] = G
      /\ place[l0] \in Nat \X Nat /\ IsPlace(place[l0]) /\ x \in [LaneIds -> [XRegs -> Values]]
  BY <1>0 DEF Typed, Grouped
<1>2. place[l0][1] \in DOMAIN words /\ WellFormed(words)
  BY <1>0, <1>1, PlaceIs DEF Typed
<1>3. CASE r = 0
  BY <1>3, SimtAssumption DEF Scalar, Values
<1>4. CASE r # 0
  <2>1. r \in ReadsX(w)
    BY <1>4 DEF ReadsX
  <2>2. r \in XRegs /\ r \in words[place[l0][1]].live
    BY <1>2, <2>1, WordIs, LiveIs
  <2>3. \A l \in G : x[l][r] \in Values
    BY <1>1, <2>2
  <2>4. reconverges => \A l, m \in G : x[l][r] = x[m][r]
    BY <1>0, <1>1, <2>2 DEF Replicated, Agree
  <2>. QED BY <1>4, <2>3, <2>4 DEF Scalar
<1>. QED BY <1>3, <1>4

LEMMA NothingKeeps ==
  ASSUME IInv, NEW G \in SUBSET LaneIds, Nothing(G)
  PROVE  IInv'
<1>0. Typed
  BY DEF IInv
<1>1. PICK op \in { "auipc", "setrpc", "join", "sync" } : Runs(G, op)
  BY DEF Nothing
<1>2. PICK l \in LaneIds :
        /\ G = group[l] /\ l \in G /\ ~Waiting(l) /\ PlaceOf(G) = place[l]
        /\ place[l] \in Nat \X Nat /\ IsPlace(place[l])
        /\ place[l][1] \in DOMAIN words /\ place[l][1] \in Nat /\ words[place[l][1]] \in Annotated
        /\ place[l][2] \in DOMAIN Emit(words[place[l][1]])
        /\ op = Emit(words[place[l][1]])[place[l][2]]
  BY <1>1, RunsIs
<1>. DEFINE w == words[place[l][1]]
            q == After(place[l])
<1>3. w.op \in { "auipc", "setrpc", "join", "sw" } /\ place[l][2] = Len(Emit(w))
  <2>1. op = "sync" => w.op = "sw" /\ place[l][2] = 4
    BY <1>2, OperationIs
  <2>2. w.op = "sw" => Len(Emit(w)) = 4
    BY <1>2, EmitIs
  <2>3. op # "sync" => w.op = op /\ place[l][2] = 1 /\ Len(Emit(w)) = 1
    BY <1>1, <1>2, OperationIs DEF Ops
  <2>. QED BY <1>1, <2>1, <2>2, <2>3
<1>4. q \in Nat \X Nat /\ MayGo(place[l], q) /\ Go(G, q)
  BY <1>0, <1>2, <1>3, AfterIs DEF Nothing, GoOn
<1>5. q[2] = 1
  <2>1. Len(Emit(w)) \in Nat
    BY <1>2, OperationIs
  <2>. QED BY <1>3, <2>1 DEF After
<1>6. WritesX(w) = {}
  BY <1>3 DEF WritesX
<1>7. /\ words' = words /\ reconverges' = reconverges /\ group' = group /\ wait' = wait /\ leader' = leader /\ x' = x
      /\ v' = v /\ mem' = mem /\ stored' = stored
  BY DEF Nothing
<1>8. v' \in [LaneIds -> [VRegs -> Values]] /\ mem' \in [Cells -> Values] /\ stored' \in [DOMAIN words -> Nat]
  BY <1>0, <1>7 DEF Typed
<1>. HIDE DEF q
<1>. QED BY <1>2, <1>4, <1>5, <1>6, <1>7, <1>8, GroupGoesQuietly

LEMMA SelectLeaderKeeps ==
  ASSUME IInv, NEW G \in SUBSET LaneIds, SelectLeader(G)
  PROVE  IInv'
<1>0. Typed /\ Grouped /\ Replicated
  BY DEF IInv
<1>1. Runs(G, "leader")
  BY DEF SelectLeader
<1>2. PICK l \in LaneIds :
        /\ G = group[l] /\ l \in G /\ ~Waiting(l) /\ PlaceOf(G) = place[l]
        /\ \A m \in G : place[m] = place[l]
        /\ place[l] \in Nat \X Nat /\ IsPlace(place[l])
        /\ place[l][1] \in DOMAIN words /\ place[l][1] \in Nat /\ words[place[l][1]] \in Annotated
        /\ place[l][2] \in DOMAIN Emit(words[place[l][1]])
        /\ "leader" = Emit(words[place[l][1]])[place[l][2]]
  BY <1>1, RunsIs
<1>. DEFINE w == words[place[l][1]]
            q == After(place[l])
<1>3. w.op = "sw" /\ place[l][2] = 1 /\ Len(Emit(w)) = 4
  BY <1>2, OperationIs, EmitIs
<1>4. q \in Nat \X Nat /\ MayGo(place[l], q) /\ Go(G, q)
  BY <1>0, <1>2, <1>3, AfterIs DEF SelectLeader, GoOn
<1>5. q[1] = place[l][1] /\ q[2] = 2
  BY <1>3 DEF After
<1>6. /\ words' = words /\ reconverges' = reconverges /\ group' = group /\ wait' = wait /\ x' = x
      /\ v' = v /\ mem' = mem /\ stored' = stored
      /\ leader' = [n \in LaneIds |-> IF n \in G THEN n = Max(G) ELSE leader[n]]
  BY DEF SelectLeader
<1>7. /\ x' \in [LaneIds -> [XRegs -> Values]] /\ v' \in [LaneIds -> [VRegs -> Values]]
      /\ mem' \in [Cells -> Values] /\ stored' \in [DOMAIN words -> Nat]
  BY <1>0, <1>6 DEF Typed
<1>8. leader' \in [LaneIds -> BOOLEAN]
  <2>1. \A n \in LaneIds : (n = Max(G)) \in BOOLEAN /\ leader[n] \in BOOLEAN
    BY <1>0 DEF Typed
  <2>. QED BY <1>6, <2>1
<1>. HIDE DEF q
<1>9. GoesOn(G, place[l], q)
  <2>1. \A n \in LaneIds \ G : x'[n] = x[n] /\ leader'[n] = leader[n]
    BY <1>6
  <2>2. \A n \in G : leader'[n] <=> n = Max(G)
    BY <1>6
  <2>3. reconverges => \A n, m \in G : \A r \in words[q[1]].live : x'[n][r] = x'[m][r]
    <3>1. \A n \in G : n \in LaneIds /\ place[n] = place[l] /\ \A m \in G : m \in group[n]
      BY <1>0, <1>2 DEF Grouped
    <3>. QED BY <1>0, <1>5, <1>6, <3>1 DEF Replicated, Agree
  <2>. QED BY <1>5, <1>6, <2>1, <2>2, <2>3 DEF GoesOn
<1>. QED BY <1>2, <1>4, <1>6, <1>7, <1>8, <1>9, GroupGoesOn

(* The lanes that skip the store wait behind it for the one that makes it. *)
LEMMA SkipUnlessLeaderKeeps ==
  ASSUME IInv, NEW G \in SUBSET LaneIds, SkipUnlessLeader(G)
  PROVE  IInv'
<1>0. Typed /\ Grouped /\ Framed /\ Replicated /\ Led
  BY DEF IInv
<1>1. Runs(G, "skip")
  BY DEF SkipUnlessLeader
<1>2. PICK l \in LaneIds :
        /\ G = group[l] /\ l \in G /\ ~Waiting(l) /\ PlaceOf(G) = place[l]
        /\ \A m \in G : place[m] = place[l]
        /\ place[l] \in Nat \X Nat /\ IsPlace(place[l])
        /\ place[l][1] \in DOMAIN words /\ place[l][1] \in Nat /\ words[place[l][1]] \in Annotated
        /\ place[l][2] \in DOMAIN Emit(words[place[l][1]])
        /\ "skip" = Emit(words[place[l][1]])[place[l][2]]
  BY <1>1, RunsIs
<1>. DEFINE k == place[l][1]
            w == words[k]
            p == << k, 3 >>
            q == << k, 4 >>
            some == { n \in G : leader[n] }
<1>3. w.op = "sw" /\ place[l][2] = 2 /\ Len(Emit(w)) = 4 /\ DOMAIN Emit(w) = 1 .. 4 /\ WritesX(w) = {}
  BY <1>2, OperationIs, EmitIs DEF WritesX
<1>4. p \in Nat \X Nat /\ MayGo(place[l], p) /\ q \in Nat \X Nat /\ MayGo(place[l], q)
  BY <1>2, <1>3 DEF MayGo
<1>5. /\ Part(G, some, p, q, q)
      /\ words' = words /\ reconverges' = reconverges /\ leader' = leader /\ x' = x
      /\ v' = v /\ mem' = mem /\ stored' = stored
  <2>1. After(place[l]) = p
    BY <1>2, <1>3 DEF After
  <2>. QED BY <1>2, <2>1 DEF SkipUnlessLeader
<1>6. some \subseteq G
  OBVIOUS
<1>7. reconverges => \A n \in some : some = {n}
  <2>. SUFFICES ASSUME reconverges, NEW n \in some, NEW m \in some PROVE m = n
    OBVIOUS
  <2>1. \A a \in G : a \in LaneIds /\ place[a] = place[l] /\ group[a] = G
    BY <1>0, <1>2 DEF Grouped
  <2>2. n = Max(G) /\ m = Max(G)
    BY <1>0, <1>3, <2>1 DEF Led, WordAt
  <2>. QED BY <2>2
<1>8. v' \in [LaneIds -> [VRegs -> Values]] /\ mem' \in [Cells -> Values] /\ stored' \in [DOMAIN words -> Nat]
  BY <1>0, <1>5 DEF Typed
<1>9. CASE some \in {{}, G}
  <2>. DEFINE t == IF some = {} THEN q ELSE p
  <2>1. group' = group /\ wait' = wait /\ Go(G, t)
    <3>. HIDE DEF some, p, q, w, k
    <3>. QED BY <1>2, <1>5, <1>9, PartOfNone
  <2>2. t \in Nat \X Nat /\ MayGo(place[l], t)
    BY <1>4
  <2>3. t[2] # 2 /\ t[1] = place[l][1] /\ (t[2] = 3 => some = G)
    BY <1>9
  <2>4. reconverges /\ words[t[1]].op = "sw" => t[2] # 2 /\ (t[2] = 3 => \A n \in G : G = {n})
    BY <1>7, <2>3
  <2>. HIDE DEF t, some, p, q, w, k
  <2>. QED BY <1>2, <1>5, <1>8, <2>1, <2>2, <2>3, <2>4, GroupGoesQuietly
<1>10. CASE some \notin {{}, G} /\ ~reconverges
  <2>. HIDE DEF some, p, q, w, k
  <2>. QED BY <1>2, <1>4, <1>5, <1>6, <1>10, GroupPartsFreely
<1>11. CASE some \notin {{}, G} /\ reconverges
  <2>. DEFINE F == FrameOf(place[l][1], q, G)
  <2>1. Inside(p, F) /\ Inside(q, F)
    BY <1>2, <1>3 DEF Inside, FrameOf
  <2>2. \A i \in DOMAIN wait[l] : Past(F, wait[l][i])
    BY <1>3 DEF Past, FrameOf
  <2>3. \A n, m \in G : Agree(n, m, p[1]) /\ Agree(n, m, q[1])
    <3>1. \A n \in G : n \in LaneIds /\ place[n] = place[l] /\ group[n] = G
      BY <1>0, <1>2 DEF Grouped
    <3>. QED BY <1>0, <1>11, <3>1 DEF Replicated
  <2>4. words[p[1]].op = "sw" => p[2] # 2 /\ (p[2] = 3 => \A n \in some : some = {n})
    BY <1>7, <1>11
  <2>5. words[q[1]].op = "sw" => q[2] \notin { 2, 3 }
    OBVIOUS
  <2>6. MayPart(G, place[l][1], wait[l], some, p, q, q)
    <3>. HIDE DEF some, p, q, w, k
    <3>. QED BY <2>1, <2>2, <2>3, <2>4, <2>5 DEF MayPart
  <2>. HIDE DEF F, some, p, q, w, k
  <2>. QED BY <1>2, <1>4, <1>5, <1>6, <1>8, <1>11, <2>6, GroupParts
<1>. QED BY <1>9, <1>10, <1>11

(* Nothing changes but whether there was a trap.                           *)
LEMMA SameKeeps ==
  ASSUME IInv, words' = words, reconverges' = reconverges, place' = place, group' = group, wait' = wait,
         leader' = leader, x' = x, v' = v, mem' = mem, stored' = stored
  PROVE  IInv'
<1>0. Typed /\ Grouped /\ Framed /\ Shared /\ Replicated /\ Led
  BY DEF IInv
<1>1. Typed'
  BY <1>0 DEF Typed, IsPlace
<1>2. Grouped'
  BY <1>0 DEF Grouped
<1>3. Framed'
  <2>1. \A a, f : (Inside(a, f)' <=> Inside(a, f)) /\ (Past(a, f)' <=> Past(a, f))
    BY DEF Inside, Past
  <2>. QED BY <1>0, <2>1 DEF Framed
<1>4. Shared' /\ Replicated'
  <2>1. \A l, m, k : Agree(l, m, k)' <=> Agree(l, m, k)
    BY DEF Agree
  <2>. QED BY <1>0, <2>1 DEF Shared, Replicated
<1>5. Led'
  BY <1>0 DEF Led, WordAt
<1>. QED BY <1>1, <1>2, <1>3, <1>4, <1>5 DEF IInv

LEMMA TrapKeeps ==
  ASSUME IInv, Trap
  PROVE  IInv'
<1>1. /\ words' = words /\ reconverges' = reconverges /\ place' = place /\ group' = group /\ wait' = wait
      /\ leader' = leader /\ x' = x /\ v' = v /\ mem' = mem /\ stored' = stored
  BY DEF Trap
<1>. QED BY <1>1, SameKeeps

LEMMA StoreKeeps ==
  ASSUME IInv, NEW G \in SUBSET LaneIds, Store(G)
  PROVE  IInv'
<1>0. Typed /\ Grouped /\ Led
  BY DEF IInv
<1>1. Runs(G, "store")
  BY DEF Store
<1>2. PICK l \in LaneIds :
        /\ G = group[l] /\ l \in G /\ ~Waiting(l) /\ PlaceOf(G) = place[l]
        /\ place[l] \in Nat \X Nat /\ IsPlace(place[l])
        /\ place[l][1] \in DOMAIN words /\ place[l][1] \in Nat /\ words[place[l][1]] \in Annotated
        /\ place[l][2] \in DOMAIN Emit(words[place[l][1]])
        /\ "store" = Emit(words[place[l][1]])[place[l][2]]
  BY <1>1, RunsIs
<1>. DEFINE w == words[place[l][1]]
            q == After(place[l])
            put(c) == { Scalar(x[n], WordOf(G).rs2) :
                          n \in { m \in G : Cell(Address(x[m], WordOf(G))) = c } }
<1>3. CASE Trap
  BY <1>3, TrapKeeps
<1>4. CASE /\ mem' \in { new \in [Cells -> Values] :
                           \A c \in Cells : new[c] \in IF put(c) = {} THEN { mem[c] } ELSE put(c) }
           /\ stored' = [stored EXCEPT ![PlaceOf(G)[1]] = @ + Cardinality(G)]
           /\ GoOn(G)
           /\ UNCHANGED << words, reconverges, group, wait, leader, x, v, trapped, begin >>
  <2>1. w.op = "sw" /\ place[l][2] = 3 /\ Len(Emit(w)) = 4
    BY <1>2, OperationIs, EmitIs
  <2>2. q \in Nat \X Nat /\ MayGo(place[l], q) /\ Go(G, q)
    BY <1>0, <1>2, <1>4, <2>1, AfterIs DEF GoOn
  <2>3. q[1] = place[l][1] /\ q[2] = 4
    BY <2>1 DEF After
  <2>4. mem' \in [Cells -> Values]
    BY <1>4
  <2>5. stored' \in [DOMAIN words -> Nat]
    <3>1. IsFiniteSet(G)
      BY SimtAssumption, FS_Subset
    <3>2. Cardinality(G) \in Nat
      BY <3>1, FS_CardinalityType
    <3>3. stored \in [DOMAIN words -> Nat]
      BY <1>0 DEF Typed
    <3>. QED BY <1>2, <1>4, <3>2, <3>3
  <2>6. v' \in [LaneIds -> [VRegs -> Values]]
    BY <1>0, <1>4 DEF Typed
  <2>. HIDE DEF q, put
  <2>. QED BY <1>2, <1>4, <2>2, <2>3, <2>4, <2>5, <2>6, GroupGoesQuietly
<1>. QED BY <1>3, <1>4 DEF Store

(* An address of a load that is mapped is that of a cell.                  *)
LEMMA LoadIs ==
  ASSUME IInv, NEW l0 \in LaneIds, NEW G, G = group[l0], NEW w, w = words[place[l0][1]], w.op = "lw",
         NEW l \in G, Mapped(Address(x[l], w))
  PROVE  mem[Cell(Address(x[l], w))] \in Values
<1>0. Typed
  BY DEF IInv
<1>1. Scalar(x[l], w.rs1) \in Values
  BY OperandIs DEF Reads
<1>2. place[l0][1] \in DOMAIN words /\ WellFormed(words) /\ w \in Annotated
  BY <1>0, PlaceIs DEF Typed
<1>3. w.target \in Nat /\ Size - 1 + w.target <= TopAddress
  BY <1>2 DEF WellFormed, Annotated
<1>. DEFINE s == Scalar(x[l], w.rs1)
            a == s + w.target
<1>4. s \in Int /\ s <= Size - 1 /\ Size \in Nat
  BY <1>1, SimtAssumption DEF Values
<1>5. a \in Addresses
  <2>. HIDE DEF s
  <2>1. a \in Int /\ a <= TopAddress /\ TopAddress \in Nat /\ SharedBase \in Nat
    BY <1>3, <1>4, WindowsAssumption
  <2>2. SharedBase <= a
    BY <2>1 DEF Mapped, Address, s
  <2>. QED BY <2>1, <2>2 DEF Addresses
<1>6. Address(x[l], w) = a
  BY DEF Address
<1>. HIDE DEF a
<1>7. Cell(a) \in Cells
  BY <1>5 DEF Cells
<1>. QED BY <1>0, <1>6, <1>7 DEF Typed

LEMMA LoadKeeps ==
  ASSUME IInv, NEW G \in SUBSET LaneIds, Load(G)
  PROVE  IInv'
<1>0. Typed
  BY DEF IInv
<1>1. Runs(G, "lw")
  BY DEF Load
<1>2. PICK l \in LaneIds :
        /\ G = group[l] /\ l \in G /\ ~Waiting(l) /\ PlaceOf(G) = place[l] /\ WordOf(G) = words[place[l][1]]
        /\ place[l] \in Nat \X Nat /\ IsPlace(place[l])
        /\ place[l][1] \in DOMAIN words /\ words[place[l][1]] \in Annotated
        /\ place[l][2] \in DOMAIN Emit(words[place[l][1]])
        /\ "lw" = Emit(words[place[l][1]])[place[l][2]]
  BY <1>1, RunsIs
<1>. DEFINE w == words[place[l][1]]
            q == After(place[l])
            val == [n \in G |-> mem[Cell(Address(x[n], WordOf(G)))]]
<1>3. CASE Trap
  BY <1>3, TrapKeeps
<1>4. CASE /\ ~\E n \in G : ~Mapped(Address(x[n], WordOf(G)))
           /\ WriteAll(G, WordOf(G).rd, val)
           /\ GoOn(G)
           /\ UNCHANGED << words, reconverges, group, wait, leader, v, mem, trapped, stored, begin >>
  <2>1. w.op = "lw"
    BY <1>2, OperationIs DEF Ops
  <2>2. q \in Nat \X Nat /\ MayGo(place[l], q) /\ Go(G, q)
    BY <1>0, <1>2, <1>4, <2>1, AfterIs DEF GoOn
  <2>3. \A n \in G : val[n] = mem[Cell(Address(x[n], w))]
    BY <1>2
  <2>4. \A n \in G : val[n] \in Values
    <3>. TAKE n \in G
    <3>1. Mapped(Address(x[n], w))
      BY <1>2, <1>4
    <3>2. mem[Cell(Address(x[n], w))] \in Values
      BY <1>2, <2>1, <3>1, LoadIs
    <3>. HIDE DEF val, w
    <3>. QED BY <2>3, <3>2
  <2>5. reconverges => \A n, m \in G : val[n] = val[m]
    <3>1. reconverges => \A n, m \in G : Scalar(x[n], w.rs1) = Scalar(x[m], w.rs1)
      BY <1>2, <2>1, OperandIs DEF Reads
    <3>. HIDE DEF val, w
    <3>. QED BY <2>3, <3>1 DEF Address
  <2>6. WritesX(w) = {w.rd} \ {0} /\ w.op # "sw"
    BY <2>1 DEF WritesX
  <2>7. WriteAll(G, w.rd, val)
    BY <1>2, <1>4
  <2>. HIDE DEF q, val, w
  <2>. QED BY <1>2, <1>4, <2>2, <2>4, <2>5, <2>6, <2>7, GroupWrites DEF w
<1>. QED BY <1>3, <1>4 DEF Load

(* A sum is cut to the width of a register.                                *)
LEMMA SumIs ==
  ASSUME NEW a \in Values, NEW b \in Nat
  PROVE  Sum(a, b) \in Values
<1>1. a + b \in Int /\ Size \in Nat /\ Size > 0
  BY SimtAssumption DEF Values
<1>2. (a + b) % Size \in 0 .. Size - 1
  BY <1>1
<1>. QED BY <1>2 DEF Sum, Values

LEMMA AddImmediateKeeps ==
  ASSUME IInv, NEW G \in SUBSET LaneIds, AddImmediate(G)
  PROVE  IInv'
<1>0. Typed
  BY DEF IInv
<1>1. Runs(G, "addi")
  BY DEF AddImmediate
<1>2. PICK l \in LaneIds :
        /\ G = group[l] /\ l \in G /\ ~Waiting(l) /\ PlaceOf(G) = place[l] /\ WordOf(G) = words[place[l][1]]
        /\ \A m \in G : place[m] = place[l]
        /\ place[l] \in Nat \X Nat /\ IsPlace(place[l])
        /\ place[l][1] \in DOMAIN words /\ place[l][1] \in Nat /\ words[place[l][1]] \in Annotated
        /\ place[l][2] \in DOMAIN Emit(words[place[l][1]])
        /\ "addi" = Emit(words[place[l][1]])[place[l][2]]
  BY <1>1, RunsIs
<1>. DEFINE w == words[place[l][1]]
            q == After(place[l])
            val == [n \in G |-> Sum(Scalar(x[n], WordOf(G).rs1), WordOf(G).target)]
<1>3. w.op = "addi" /\ w.target \in Nat
  BY <1>2, OperationIs DEF Ops, Annotated
<1>4. q \in Nat \X Nat /\ MayGo(place[l], q) /\ Go(G, q)
  BY <1>0, <1>2, <1>3, AfterIs DEF AddImmediate, GoOn
<1>5. \A n \in G : val[n] = Sum(Scalar(x[n], w.rs1), w.target)
  BY <1>2
<1>6. /\ \A n \in G : Scalar(x[n], w.rs1) \in Values
      /\ reconverges => \A n, m \in G : Scalar(x[n], w.rs1) = Scalar(x[m], w.rs1)
  BY <1>2, <1>3, OperandIs DEF Reads
<1>7. /\ words' = words /\ reconverges' = reconverges /\ group' = group /\ wait' = wait /\ leader' = leader
      /\ v' = v /\ mem' = mem /\ stored' = stored /\ WriteAll(G, w.rd, val)
  BY <1>2 DEF AddImmediate
<1>8. WritesX(w) = {w.rd} \ {0} /\ w.op # "sw"
  BY <1>3 DEF WritesX
<1>. HIDE DEF q, val, w
<1>9. \A n \in G : val[n] \in Values
  BY <1>3, <1>5, <1>6, SumIs
<1>10. reconverges => \A n, m \in G : val[n] = val[m]
  BY <1>5, <1>6
<1>. QED BY <1>2, <1>4, <1>7, <1>8, <1>9, <1>10, GroupWrites DEF w

LEMMA SplatKeeps ==
  ASSUME IInv, NEW G \in SUBSET LaneIds, Splat(G)
  PROVE  IInv'
<1>0. Typed
  BY DEF IInv
<1>1. Runs(G, "vmv_v_x")
  BY DEF Splat
<1>2. PICK l \in LaneIds :
        /\ G = group[l] /\ l \in G /\ ~Waiting(l) /\ PlaceOf(G) = place[l] /\ WordOf(G) = words[place[l][1]]
        /\ \A m \in G : place[m] = place[l]
        /\ place[l] \in Nat \X Nat /\ IsPlace(place[l])
        /\ place[l][1] \in DOMAIN words /\ place[l][1] \in Nat /\ words[place[l][1]] \in Annotated
        /\ place[l][2] \in DOMAIN Emit(words[place[l][1]])
        /\ "vmv_v_x" = Emit(words[place[l][1]])[place[l][2]]
  BY <1>1, RunsIs
<1>. DEFINE w == words[place[l][1]]
            q == After(place[l])
<1>3. w.op = "vmv_v_x" /\ place[l][2] = Len(Emit(w)) /\ Len(Emit(w)) = 1
  <2>1. "vmv_v_x" \in Ops \ { "sw", "vmv_x_s" }
    BY DEF Ops
  <2>2. /\ w \in Annotated /\ place[l][2] \in DOMAIN Emit(w)
        /\ "vmv_v_x" = Emit(w)[place[l][2]]
    BY <1>2
  <2>. HIDE DEF w
  <2>. QED BY <2>1, <2>2, OperationIs
<1>4. q \in Nat \X Nat /\ MayGo(place[l], q) /\ Go(G, q)
  BY <1>0, <1>2, <1>3, AfterIs DEF Splat, GoOn
<1>5. q[2] = 1
  BY <1>3 DEF After
<1>6. /\ words' = words /\ reconverges' = reconverges /\ group' = group /\ wait' = wait /\ leader' = leader
      /\ x' = x /\ mem' = mem /\ stored' = stored
      /\ v' = [n \in LaneIds |-> IF n \in G THEN [v[n] EXCEPT ![w.rd] = Scalar(x[n], w.rs1)] ELSE v[n]]
  BY <1>2 DEF Splat
<1>7. WritesX(w) = {}
  BY <1>3 DEF WritesX
<1>8. \A n \in G : Scalar(x[n], w.rs1) \in Values
  BY <1>2, <1>3, OperandIs DEF Reads
<1>9. v' \in [LaneIds -> [VRegs -> Values]]
  <2>1. v \in [LaneIds -> [VRegs -> Values]]
    BY <1>0 DEF Typed
  <2>. HIDE DEF w
  <2>. QED BY <1>6, <1>8, <2>1
<1>10. mem' \in [Cells -> Values] /\ stored' \in [DOMAIN words -> Nat]
  BY <1>0, <1>6 DEF Typed
<1>. HIDE DEF q
<1>11. G = group[l] /\ ~Waiting(l) /\ l \in LaneIds
  BY <1>2
<1>12. reconverges /\ words[q[1]].op = "sw" => q[2] # 2 /\ (q[2] = 3 => \A n \in G : G = {n})
  BY <1>5
<1>. QED BY <1>4, <1>6, <1>7, <1>9, <1>10, <1>11, <1>12, GroupGoesQuietly

LEMMA TrapIfLaneInactiveKeeps ==
  ASSUME IInv, NEW G \in SUBSET LaneIds, TrapIfLaneInactive(G)
  PROVE  IInv'
<1>0. Typed
  BY DEF IInv
<1>1. Runs(G, "trap")
  BY DEF TrapIfLaneInactive
<1>2. PICK l \in LaneIds :
        /\ G = group[l] /\ l \in G /\ ~Waiting(l) /\ PlaceOf(G) = place[l] /\ WordOf(G) = words[place[l][1]]
        /\ \A m \in G : place[m] = place[l]
        /\ place[l] \in Nat \X Nat /\ IsPlace(place[l])
        /\ place[l][1] \in DOMAIN words /\ place[l][1] \in Nat /\ words[place[l][1]] \in Annotated
        /\ place[l][2] \in DOMAIN Emit(words[place[l][1]])
        /\ "trap" = Emit(words[place[l][1]])[place[l][2]]
  BY <1>1, RunsIs
<1>. DEFINE w == words[place[l][1]]
            q == After(place[l])
<1>3. CASE Trap
  BY <1>3, TrapKeeps
<1>4. CASE GoOn(G) /\ UNCHANGED << words, reconverges, group, wait, leader, x, v, mem, trapped, stored, begin >>
  <2>1. w.op = "vmv_x_s" /\ place[l][2] = 1 /\ Len(Emit(w)) = 3
    BY <1>2, OperationIs, EmitIs
  <2>2. q \in Nat \X Nat /\ MayGo(place[l], q) /\ Go(G, q)
    BY <1>0, <1>2, <1>4, <2>1, AfterIs DEF GoOn
  <2>3. q[1] = place[l][1] /\ q[2] = 2
    BY <2>1 DEF After
  <2>4. v' \in [LaneIds -> [VRegs -> Values]] /\ mem' \in [Cells -> Values] /\ stored' \in [DOMAIN words -> Nat]
    BY <1>0, <1>4 DEF Typed
  <2>. HIDE DEF q
  <2>. QED BY <1>2, <1>4, <2>1, <2>2, <2>3, <2>4, GroupGoesQuietly
<1>. QED BY <1>3, <1>4 DEF TrapIfLaneInactive

LEMMA MoveKeeps ==
  ASSUME IInv, NEW G \in SUBSET LaneIds, Move(G)
  PROVE  IInv'
<1>0. Typed /\ Grouped /\ Replicated
  BY DEF IInv
<1>1. Runs(G, "move")
  BY DEF Move
<1>2. PICK l \in LaneIds :
        /\ G = group[l] /\ l \in G /\ ~Waiting(l) /\ PlaceOf(G) = place[l] /\ WordOf(G) = words[place[l][1]]
        /\ \A m \in G : place[m] = place[l]
        /\ place[l] \in Nat \X Nat /\ IsPlace(place[l])
        /\ place[l][1] \in DOMAIN words /\ place[l][1] \in Nat /\ words[place[l][1]] \in Annotated
        /\ place[l][2] \in DOMAIN Emit(words[place[l][1]])
        /\ "move" = Emit(words[place[l][1]])[place[l][2]]
  BY <1>1, RunsIs
<1>. DEFINE w == words[place[l][1]]
            q == After(place[l])
            val == [n \in G |-> v[n][WordOf(G).rs2]]
<1>3. w.op = "vmv_x_s" /\ place[l][2] = 2 /\ Len(Emit(w)) = 3
  BY <1>2, OperationIs, EmitIs
<1>4. q \in Nat \X Nat /\ MayGo(place[l], q) /\ Go(G, q)
  BY <1>0, <1>2, <1>3, AfterIs DEF Move, GoOn
<1>5. q[1] = place[l][1] /\ q[2] = 3
  BY <1>3 DEF After
<1>6. /\ words' = words /\ reconverges' = reconverges /\ group' = group /\ wait' = wait /\ leader' = leader
      /\ v' = v /\ mem' = mem /\ stored' = stored
      /\ x' = [n \in LaneIds |->
                 IF n \in G \cap {0} /\ w.rd # 0 THEN [x[n] EXCEPT ![w.rd] = val[n]] ELSE x[n]]
  BY <1>2 DEF Move, WriteAll
<1>7. WritesX(w) = {w.rd} \ {0} /\ ReadsX(w) = {}
  BY <1>3 DEF WritesX, ReadsX
<1>8. x \in [LaneIds -> [XRegs -> Values]] /\ v \in [LaneIds -> [VRegs -> Values]]
  BY <1>0 DEF Typed
<1>9. \A n \in G : val[n] \in Values
  <2>1. w.rs2 \in VRegs
    BY <1>0, <1>2, <1>3 DEF Typed, WellFormed
  <2>2. \A n \in G : val[n] = v[n][w.rs2]
    BY <1>2
  <2>. HIDE DEF val, w
  <2>. QED BY <1>8, <2>1, <2>2
<1>. HIDE DEF val
<1>10. x' \in [LaneIds -> [XRegs -> Values]]
  <2>. HIDE DEF w
  <2>. QED BY <1>6, <1>8, <1>9
<1>11. \A n \in LaneIds : \A r \in XRegs \ WritesX(w) : x'[n][r] = x[n][r]
  <2>. TAKE n \in LaneIds
  <2>. TAKE r \in XRegs \ WritesX(w)
  <2>1. x[n] \in [XRegs -> Values] /\ r \in XRegs /\ (r # w.rd \/ w.rd = 0)
    BY <1>7, <1>8
  <2>2. x'[n] = IF n \in G \cap {0} /\ w.rd # 0 THEN [x[n] EXCEPT ![w.rd] = val[n]] ELSE x[n]
    BY <1>6
  <2>. HIDE DEF w
  <2>. QED BY <2>1, <2>2
<1>12. ASSUME NEW r \in words[q[1]].live PROVE r \in XRegs \ WritesX(w) /\ r \in words[place[l][1]].live
  <2>1. WellFormed(words)
    BY <1>0 DEF Typed
  <2>2. r \in words[place[l][1]].live
    BY <1>5
  <2>3. r \in XRegs /\ r \notin WritesX(w)
    BY <1>2, <1>7, <2>1, <2>2, WordIs, LiveIs
  <2>. QED BY <2>2, <2>3
<1>13. leader' \in [LaneIds -> BOOLEAN] /\ v' \in [LaneIds -> [VRegs -> Values]]
       /\ mem' \in [Cells -> Values] /\ stored' \in [DOMAIN words -> Nat]
  BY <1>0, <1>6 DEF Typed
<1>. HIDE DEF q
<1>14. GoesOn(G, place[l], q)
  <2>1. \A n \in LaneIds \ G : x'[n] = x[n] /\ leader'[n] = leader[n]
    <3>. HIDE DEF w
    <3>. QED BY <1>6
  <2>2. ASSUME reconverges, NEW n \in G, NEW m \in G, NEW r \in words[q[1]].live
        PROVE  x'[n][r] = x'[m][r]
    <3>1. x[n][r] = x[m][r]
      <4>1. n \in LaneIds /\ m \in group[n] /\ place[n] = place[l]
        BY <1>0, <1>2 DEF Grouped
      <4>. QED BY <1>0, <1>12, <2>2, <4>1 DEF Replicated, Agree
    <3>2. x'[n][r] = x[n][r] /\ x'[m][r] = x[m][r]
      BY <1>11, <1>12
    <3>. QED BY <3>1, <3>2
  <2>3. \A n \in G : \A r \in XRegs \ WritesX(words[place[l][1]]) : x'[n][r] = x[n][r]
    BY <1>11
  <2>4. words[q[1]].op # "sw"
    BY <1>3, <1>5
  <2>. QED BY <2>1, <2>2, <2>3, <2>4 DEF GoesOn
<1>. QED BY <1>2, <1>4, <1>6, <1>10, <1>13, <1>14, GroupGoesOn

LEMMA ShuffleKeeps ==
  ASSUME IInv, NEW G \in SUBSET LaneIds, Shuffle(G)
  PROVE  IInv'
<1>0. Typed
  BY DEF IInv
<1>1. Runs(G, "shuffle")
  BY DEF Shuffle
<1>2. PICK l \in LaneIds :
        /\ G = group[l] /\ l \in G /\ ~Waiting(l) /\ PlaceOf(G) = place[l] /\ WordOf(G) = words[place[l][1]]
        /\ \A m \in G : place[m] = place[l]
        /\ place[l] \in Nat \X Nat /\ IsPlace(place[l])
        /\ place[l][1] \in DOMAIN words /\ place[l][1] \in Nat /\ words[place[l][1]] \in Annotated
        /\ place[l][2] \in DOMAIN Emit(words[place[l][1]])
        /\ "shuffle" = Emit(words[place[l][1]])[place[l][2]]
  BY <1>1, RunsIs
<1>. DEFINE w == words[place[l][1]]
            q == After(place[l])
<1>3. PICK any \in Values : WriteAll(G, WordOf(G).rd, [n \in G |-> IF 0 \in G THEN x[0][WordOf(G).rd] ELSE any])
  BY DEF Shuffle
<1>. DEFINE val == [n \in G |-> IF 0 \in G THEN x[0][WordOf(G).rd] ELSE any]
            val0 == [n \in G |-> IF w.rd = 0 THEN any ELSE val[n]]
<1>4. w.op = "vmv_x_s"
  BY <1>2, OperationIs
<1>5. q \in Nat \X Nat /\ MayGo(place[l], q) /\ Go(G, q)
  BY <1>0, <1>2, <1>4, AfterIs DEF Shuffle, GoOn
<1>6. /\ words' = words /\ reconverges' = reconverges /\ group' = group /\ wait' = wait /\ leader' = leader
      /\ v' = v /\ mem' = mem /\ stored' = stored
  BY DEF Shuffle
<1>7. WritesX(w) = {w.rd} \ {0} /\ w.op # "sw"
  BY <1>4 DEF WritesX
<1>8. \A n \in G : val[n] = IF 0 \in G THEN x[0][w.rd] ELSE any
  BY <1>2
<1>9. \A n \in G : val0[n] = IF w.rd = 0 THEN any ELSE val[n]
  OBVIOUS
<1>10. WriteAll(G, w.rd, val0)
  <2>1. WriteAll(G, w.rd, val)
    BY <1>2, <1>3
  <2>. HIDE DEF val, val0, w
  <2>. QED BY <1>9, <2>1 DEF WriteAll
<1>. HIDE DEF val, val0
<1>11. \A n \in G : val0[n] \in Values
  <2>1. w.rd # 0 => w.rd \in XRegs
    BY <1>0, <1>2, <1>7, WordIs DEF Typed
  <2>2. x \in [LaneIds -> [XRegs -> Values]]
    BY <1>0 DEF Typed
  <2>3. 0 \in LaneIds
    BY SimtAssumption
  <2>. HIDE DEF w
  <2>. QED BY <1>8, <1>9, <2>1, <2>2, <2>3
<1>12. \A n, m \in G : val0[n] = val0[m]
  <2>. HIDE DEF w
  <2>. QED BY <1>8, <1>9
<1>. HIDE DEF q, w
<1>. QED BY <1>2, <1>5, <1>6, <1>7, <1>10, <1>11, <1>12, GroupWrites DEF w

LEMMA ScalarBranchKeeps ==
  ASSUME IInv, NEW G \in SUBSET LaneIds, ScalarBranch(G)
  PROVE  IInv'
<1>0. Typed
  BY DEF IInv
<1>1. Runs(G, "branch")
  BY DEF ScalarBranch
<1>2. PICK l \in LaneIds :
        /\ G = group[l] /\ l \in G /\ ~Waiting(l) /\ PlaceOf(G) = place[l] /\ WordOf(G) = words[place[l][1]]
        /\ \A m \in G : place[m] = place[l]
        /\ place[l] \in Nat \X Nat /\ IsPlace(place[l])
        /\ place[l][1] \in DOMAIN words /\ place[l][1] \in Nat /\ words[place[l][1]] \in Annotated
        /\ place[l][2] \in DOMAIN Emit(words[place[l][1]])
        /\ "branch" = Emit(words[place[l][1]])[place[l][2]]
  BY <1>1, RunsIs
<1>. DEFINE w == words[place[l][1]]
            k == place[l][1]
<1>3. w.op = "branch" /\ place[l][2] = Len(Emit(w)) /\ Len(Emit(w)) = 1
  <2>1. "branch" \in Ops \ { "sw", "vmv_x_s" }
    BY DEF Ops
  <2>2. w \in Annotated /\ place[l][2] \in DOMAIN Emit(w) /\ "branch" = Emit(w)[place[l][2]]
    BY <1>2
  <2>. HIDE DEF w
  <2>. QED BY <2>1, <2>2, OperationIs
<1>4. After(place[l]) = << k + 1, 1 >>
  BY <1>3 DEF After
<1>5. PICK q \in { << w.target, 1 >>, << k + 1, 1 >> } : Go(G, q)
  BY <1>2, <1>4 DEF ScalarBranch
<1>6. q \in Nat \X Nat /\ MayGo(place[l], q) /\ q[2] = 1
  <2>1. w.target \in Nat
    BY <1>2 DEF Annotated
  <2>2. Follow(words, k) = { w.target, k + 1 }
    BY <1>3 DEF Follow
  <2>. QED BY <1>2, <1>3, <1>5, <2>1, <2>2 DEF MayGo
<1>7. /\ words' = words /\ reconverges' = reconverges /\ group' = group /\ wait' = wait /\ leader' = leader
      /\ x' = x /\ v' = v /\ mem' = mem /\ stored' = stored
  BY DEF ScalarBranch
<1>8. WritesX(w) = {}
  BY <1>3 DEF WritesX
<1>9. v' \in [LaneIds -> [VRegs -> Values]] /\ mem' \in [Cells -> Values] /\ stored' \in [DOMAIN words -> Nat]
  BY <1>0, <1>7 DEF Typed
<1>10. G = group[l] /\ ~Waiting(l) /\ l \in LaneIds
  BY <1>2
<1>11. reconverges /\ words[q[1]].op = "sw" => q[2] # 2 /\ (q[2] = 3 => \A n \in G : G = {n})
  BY <1>6
<1>. QED BY <1>5, <1>6, <1>7, <1>8, <1>9, <1>10, <1>11, GroupGoesQuietly

LEMMA TakeJumpKeeps ==
  ASSUME IInv, NEW G \in SUBSET LaneIds, TakeJump(G)
  PROVE  IInv'
<1>0. Typed
  BY DEF IInv
<1>1. Runs(G, "jump")
  BY DEF TakeJump
<1>2. PICK l \in LaneIds :
        /\ G = group[l] /\ l \in G /\ ~Waiting(l) /\ PlaceOf(G) = place[l] /\ WordOf(G) = words[place[l][1]]
        /\ \A m \in G : place[m] = place[l]
        /\ place[l] \in Nat \X Nat /\ IsPlace(place[l])
        /\ place[l][1] \in DOMAIN words /\ place[l][1] \in Nat /\ words[place[l][1]] \in Annotated
        /\ place[l][2] \in DOMAIN Emit(words[place[l][1]])
        /\ "jump" = Emit(words[place[l][1]])[place[l][2]]
  BY <1>1, RunsIs
<1>. DEFINE w == words[place[l][1]]
            q == << w.target, 1 >>
<1>3. w.op = "jump" /\ place[l][2] = Len(Emit(w))
  BY <1>2, OperationIs DEF Ops
<1>4. q \in Nat \X Nat /\ MayGo(place[l], q) /\ q[2] = 1 /\ Go(G, q)
  <2>1. w.target \in Nat
    BY <1>2 DEF Annotated
  <2>2. w.target \in Follow(words, place[l][1])
    BY <1>3 DEF Follow
  <2>3. Go(G, q)
    BY <1>2 DEF TakeJump
  <2>. QED BY <1>3, <2>1, <2>2, <2>3 DEF MayGo
<1>5. /\ words' = words /\ reconverges' = reconverges /\ group' = group /\ wait' = wait /\ leader' = leader
      /\ x' = x /\ v' = v /\ mem' = mem /\ stored' = stored
  BY DEF TakeJump
<1>6. WritesX(w) = {}
  BY <1>3 DEF WritesX
<1>7. v' \in [LaneIds -> [VRegs -> Values]] /\ mem' \in [Cells -> Values] /\ stored' \in [DOMAIN words -> Nat]
  BY <1>0, <1>5 DEF Typed
<1>. HIDE DEF q
<1>8. G = group[l] /\ ~Waiting(l) /\ l \in LaneIds
  BY <1>2
<1>9. reconverges /\ words[q[1]].op = "sw" => q[2] # 2 /\ (q[2] = 3 => \A n \in G : G = {n})
  BY <1>4
<1>. QED BY <1>4, <1>5, <1>6, <1>7, <1>8, <1>9, GroupGoesQuietly

(* A vbranch: what is read at the join was read at the vbranch, and the    *)
(* join comes no later than where the lanes already wait for others.       *)
LEMMA VectorBranchKeeps ==
  ASSUME IInv, NEW G \in SUBSET LaneIds, VectorBranch(G)
  PROVE  IInv'
<1>0. Typed /\ Grouped /\ Framed /\ Replicated
  BY DEF IInv
<1>1. Runs(G, "vbranch")
  BY DEF VectorBranch
<1>2. PICK l \in LaneIds :
        /\ G = group[l] /\ l \in G /\ ~Waiting(l) /\ PlaceOf(G) = place[l] /\ WordOf(G) = words[place[l][1]]
        /\ \A m \in G : place[m] = place[l]
        /\ place[l] \in Nat \X Nat /\ IsPlace(place[l])
        /\ place[l][1] \in DOMAIN words /\ place[l][1] \in Nat /\ words[place[l][1]] \in Annotated
        /\ place[l][2] \in DOMAIN Emit(words[place[l][1]])
        /\ "vbranch" = Emit(words[place[l][1]])[place[l][2]]
  BY <1>1, RunsIs
<1>. DEFINE k == place[l][1]
            w == words[k]
            some == { n \in G : v[n][w.rs2] = v[n][w.rs1] }
            p == << w.target, 1 >>
            q == << k + 1, 1 >>
            join == JoinOf(words, k)
            r == << join, 1 >>
<1>3. w.op = "vbranch" /\ place[l][2] = 1 /\ Len(Emit(w)) = 1 /\ w.target \in Nat /\ k \in Nat /\ k \in DOMAIN words
  <2>1. "vbranch" \in Ops \ { "sw", "vmv_x_s" }
    BY DEF Ops
  <2>2. w \in Annotated /\ place[l][2] \in DOMAIN Emit(w) /\ "vbranch" = Emit(w)[place[l][2]]
    BY <1>2
  <2>3. w.target \in Nat
    BY <2>2 DEF Annotated
  <2>. HIDE DEF w
  <2>. QED BY <1>2, <2>1, <2>2, <2>3, OperationIs
<1>4. Follow(words, k) = { w.target, k + 1 } /\ WritesX(w) = {} /\ WellFormed(words)
  BY <1>0, <1>3 DEF Follow, WritesX, Typed
<1>5. p \in Nat \X Nat /\ q \in Nat \X Nat /\ MayGo(place[l], p) /\ MayGo(place[l], q)
  BY <1>3, <1>4 DEF MayGo
<1>6. /\ Part(G, some, p, q, r)
      /\ words' = words /\ reconverges' = reconverges /\ leader' = leader /\ x' = x
      /\ v' = v /\ mem' = mem /\ stored' = stored
  BY <1>2 DEF VectorBranch
<1>7. some \subseteq G
  OBVIOUS
<1>8. v' \in [LaneIds -> [VRegs -> Values]] /\ mem' \in [Cells -> Values] /\ stored' \in [DOMAIN words -> Nat]
  BY <1>0, <1>6 DEF Typed
<1>9. p[2] = 1 /\ q[2] = 1 /\ r[2] = 1 /\ p[1] = w.target /\ q[1] = k + 1 /\ r[1] = join
  OBVIOUS
<1>10. CASE some \in {{}, G}
  <2>. DEFINE t == IF some = {} THEN q ELSE p
  <2>1. group' = group /\ wait' = wait /\ Go(G, t)
    <3>. HIDE DEF some, p, q, r, w, k
    <3>. QED BY <1>2, <1>6, <1>10, PartOfNone
  <2>2. t \in Nat \X Nat /\ MayGo(place[l], t)
    BY <1>5
  <2>3. t[2] = 1
    OBVIOUS
  <2>4. reconverges /\ words[t[1]].op = "sw" => t[2] # 2 /\ (t[2] = 3 => \A n \in G : G = {n})
    <3>. HIDE DEF t
    <3>. QED BY <2>3
  <2>5. WritesX(words[place[l][1]]) = {}
    BY <1>4
  <2>6. G = group[l] /\ ~Waiting(l)
    BY <1>2
  <2>. HIDE DEF t, some, p, q, w, k
  <2>. QED BY <1>6, <1>8, <2>1, <2>2, <2>4, <2>5, <2>6, GroupGoesQuietly
<1>11. CASE some \notin {{}, G} /\ ~reconverges
  <2>. HIDE DEF some, p, q, r, w, k
  <2>. QED BY <1>2, <1>5, <1>6, <1>7, <1>11, GroupPartsFreely
<1>12. CASE some \notin {{}, G} /\ reconverges
  <2>1. KeepsContract(words)
    BY <1>0, <1>12 DEF Typed
  <2>2. /\ join \in DOMAIN words /\ Follow(words, k) \subseteq w.arms \cup { join }
        /\ words[join].live \subseteq words[k].live
    BY <1>3, <1>4, <2>1, ContractIs
  <2>3. r \in Nat \X Nat
    <3>1. join \in Nat
      BY <1>4, <2>2, WordIs
    <3>. QED BY <3>1
  <2>. DEFINE F == FrameOf(place[l][1], r, G)
  <2>4. Inside(p, F) /\ Inside(q, F)
    <3>1. /\ p[1] \in w.arms \/ p = r
          /\ q[1] \in w.arms \/ q = r
      BY <1>4, <2>2
    <3>2. F.from = k /\ F.place = << join, 1 >> /\ r = << join, 1 >>
      BY DEF FrameOf
    <3>. HIDE DEF F, p, q, r
    <3>. QED BY <1>3, <3>1, <3>2 DEF Inside
  <2>5. \A i \in DOMAIN wait[l] : Past(F, wait[l][i])
    <3>. TAKE i \in DOMAIN wait[l]
    <3>. DEFINE f == wait[l][i]
                outer == words[f.from]
    <3>1. Inside(place[l], f) /\ place[l] # f.place
      BY <1>0, <1>2, NotYet DEF Framed
    <3>2. /\ f.from \in DOMAIN words /\ outer.op = "vbranch"
          /\ f.place = << JoinOf(words, f.from), 1 >> /\ k \in outer.arms
      <4>. HIDE DEF f
      <4>. QED BY <1>3, <3>1 DEF Inside
    <3>3. w.arms \subseteq outer.arms /\ JoinOf(words, f.from) \notin outer.arms
      <4>. HIDE DEF f
      <4>. QED BY <1>3, <1>4, <2>1, <3>2, ContractIs
    <3>4. f.place[1] \notin w.arms
      <4>. HIDE DEF f, w
      <4>. QED BY <3>2, <3>3
    <3>5. F.from = k
      BY DEF FrameOf
    <3>. HIDE DEF F, f
    <3>. QED BY <3>4, <3>5 DEF Past, f
  <2>6. \A n, m \in G : Agree(n, m, p[1]) /\ Agree(n, m, q[1]) /\ Agree(n, m, r[1])
    <3>1. /\ words[w.target].live \subseteq words[k].live
          /\ words[k + 1].live \subseteq words[k].live
      <4>1. w.target \in Follow(words, k) /\ k + 1 \in Follow(words, k)
        BY <1>4
      <4>. QED BY <1>3, <1>4, <4>1, LiveStep
    <3>2. words[join].live \subseteq words[k].live
      BY <2>2
    <3>3. \A n, m \in G : Agree(n, m, k)
      <4>1. \A n \in G : n \in LaneIds /\ place[n] = place[l] /\ group[n] = G
        BY <1>0, <1>2 DEF Grouped
      <4>. QED BY <1>0, <1>12, <4>1 DEF Replicated
    <3>. HIDE DEF k, w, join
    <3>. QED BY <3>1, <3>2, <3>3 DEF Agree
  <2>7. words[p[1]].op = "sw" => p[2] # 2 /\ (p[2] = 3 => \A n \in some : some = {n})
    BY <1>9
  <2>8. words[q[1]].op = "sw" => q[2] \notin { 2, 3 }
    BY <1>9
  <2>9. G = group[l] /\ ~Waiting(l)
    BY <1>2
  <2>10. PlaceOf(G) = place[l]
    BY <1>2
  <2>11. MayPart(G, place[l][1], wait[l], some, p, q, r)
    <3>. HIDE DEF some, p, q, r, w, k
    <3>. QED BY <2>4, <2>5, <2>6, <2>7, <2>8 DEF MayPart
  <2>. HIDE DEF F, some, p, q, r, w, k
  <2>. QED BY <1>5, <1>6, <1>7, <1>8, <1>12, <2>3, <2>9, <2>10, <2>11, GroupParts
<1>. QED BY <1>10, <1>11, <1>12

----------------------------------------------------------------------------
(* The invariant and what follows from it.                                 *)

LEMMA InitLemma == Init => IInv
<1>. SUFFICES ASSUME Init PROVE IInv
  OBVIOUS
<1>. USE DEF Init
<1>1. WellFormed(words) /\ reconverges \in BOOLEAN /\ (reconverges => KeepsContract(words))
  BY FunctionsAssumption, ContractAssumption, CasesAssumption
<1>2. 1 \in DOMAIN words
  <2>1. words # << >> /\ words \in Seq(Annotated)
    BY <1>1 DEF WellFormed
  <2>. QED BY <2>1
<1>3. 1 \in DOMAIN Emit(words[1])
  <2>. DEFINE w == words[1]
  <2>1. w \in Annotated
    BY <1>1, <1>2, WordIs
  <2>. HIDE DEF w
  <2>2. 1 \in DOMAIN Emit(w)
    BY <2>1, EmitIs
  <2>. QED BY <2>2 DEF w
<1>4. 0 \in Values
  BY SimtAssumption DEF Values
<1>5. Typed
  <2>1. place \in [LaneIds -> Nat \X Nat] /\ \A l \in LaneIds : IsPlace(place[l])
    BY <1>2, <1>3 DEF IsPlace
  <2>2. group \in [LaneIds -> SUBSET LaneIds]
    OBVIOUS
  <2>3. wait \in [LaneIds -> Seq(Frames)]
    <3>1. << >> \in Seq(Frames)
      OBVIOUS
    <3>. QED BY <3>1
  <2>4. leader \in [LaneIds -> BOOLEAN]
    <3>1. \A l \in LaneIds : (l = Max(LaneIds)) \in BOOLEAN
      OBVIOUS
    <3>. QED BY <3>1
  <2>5. x \in [LaneIds -> [XRegs -> Values]]
    BY <1>4
  <2>6. v \in [LaneIds -> [VRegs -> Values]]
    <3>1. PICK input \in [LaneIds -> Values] :
                 v = [l \in LaneIds |-> [r \in VRegs |-> IF r = 0 THEN input[l] ELSE 0]]
      OBVIOUS
    <3>. QED BY <1>4, <3>1
  <2>7. mem \in [Cells -> Values] /\ stored \in [DOMAIN words -> Nat]
    BY <1>4
  <2>. QED BY <1>1, <2>1, <2>2, <2>3, <2>4, <2>5, <2>6, <2>7 DEF Typed
<1>6. \A l \in LaneIds : wait[l] = << >> /\ DOMAIN wait[l] = {} /\ place[l] = << 1, 1 >> /\ group[l] = LaneIds
  OBVIOUS
<1>7. Grouped
  BY <1>6 DEF Grouped
<1>8. Framed /\ Shared
  BY <1>6 DEF Framed, Shared
<1>9. Replicated
  <2>. SUFFICES ASSUME NEW l \in LaneIds, NEW m \in LaneIds, NEW r \in words[1].live
                PROVE  x[l][r] = x[m][r]
    BY <1>6 DEF Replicated, Agree
  <2>1. r \in XRegs
    BY <1>1, <1>2, WordIs
  <2>. QED BY <2>1
<1>10. Led
  BY <1>6 DEF Led
<1>. QED BY <1>5, <1>7, <1>8, <1>9, <1>10 DEF IInv

LEMMA NextLemma == IInv /\ [Next]_vars => IInv'
<1>. SUFFICES ASSUME IInv, [Next]_vars PROVE IInv'
  OBVIOUS
<1>1. CASE UNCHANGED vars
  BY <1>1, SameKeeps DEF vars
<1>2. CASE Meet
  BY <1>2, LanesMeet
<1>3. CASE MeetByChance
  BY <1>3, LanesMeetByChance
<1>4. CASE Stopped
  BY <1>1, <1>4 DEF Stopped
<1>5. ASSUME NEW G \in Range(group), Step(G) PROVE IInv'
  <2>1. G \in SUBSET LaneIds
    <3>1. group \in [LaneIds -> SUBSET LaneIds]
      BY DEF IInv, Typed
    <3>. QED BY <3>1 DEF Range
  <2>. QED BY <1>5, <2>1, NothingKeeps, SelectLeaderKeeps, SkipUnlessLeaderKeeps, StoreKeeps, LoadKeeps,
              AddImmediateKeeps, SplatKeeps, TrapIfLaneInactiveKeeps, MoveKeeps, ShuffleKeeps,
              VectorBranchKeeps, ScalarBranchKeeps, TakeJumpKeeps DEF Step
<1>. QED BY <1>1, <1>2, <1>3, <1>4, <1>5 DEF Next

(* The lanes are always where they can be, in groups, and share what they  *)
(* wait for.                                                               *)
LEMMA InvHolds == Spec => []IInv
BY InitLemma, NextLemma, PTL DEF Spec

(* Every variable has its type and the lanes of a group are at one place   *)
(* (src/sbt/ptx_emit.cpp: one register file of copies in every lane).      *)
THEOREM TypeCorrect == Spec => []TypeOK
<1>1. IInv => TypeOK
  <2>. SUFFICES ASSUME IInv PROVE TypeOK
    OBVIOUS
  <2>. QED BY DEF IInv, Typed, Grouped, TypeOK, IsPlace, WordAt
<1>. QED BY <1>1, InvHolds, PTL

(* On a device that reconverges the copies of a scalar register that is    *)
(* still read are equal in the lanes that run together: at a load or an    *)
(* addi in every lane, at a vmv.x.s from lane 0, and where lanes that had  *)
(* parted meet.                                                            *)
THEOREM CopiesEqual == Spec => [](reconverges => ReplicasEqual)
<1>1. IInv => (reconverges => ReplicasEqual)
  BY DEF IInv, Replicated, Agree, ReplicasEqual, WordAt
<1>. QED BY <1>1, InvHolds, PTL

(* A scalar store is made by one lane: the leader that the lanes of the    *)
(* store chose, and not that of an earlier group.                          *)
THEOREM StoresByOneLane == Spec => []OneLaneStores
<1>1. IInv => OneLaneStores
  <2>. SUFFICES ASSUME IInv, reconverges, NEW l \in LaneIds, Op(l) = "store" PROVE group[l] = {l}
    BY DEF OneLaneStores
  <2>1. Typed /\ Led
    BY DEF IInv
  <2>2. place[l] \in Nat \X Nat /\ IsPlace(place[l])
    BY <2>1 DEF Typed
  <2>3. words[place[l][1]] \in Annotated /\ place[l][2] \in DOMAIN Emit(words[place[l][1]])
    BY <2>1, <2>2, PlaceIs
  <2>4. words[place[l][1]].op = "sw" /\ place[l][2] = 3
    BY <2>3, OperationIs DEF Op, WordAt
  <2>. QED BY <2>1, <2>4 DEF Led, WordAt
<1>. QED BY <1>1, InvHolds, PTL
=============================================================================
