----------------------------- MODULE WarpReplica ---------------------------
(***************************************************************************)
(* Scalar registers in the emitted code (src/sbt/ptx_emit.cpp): every lane *)
(* keeps a copy.  Scalar instructions run in all the active lanes, a store *)
(* in one of them, the leader, which is chosen from the lanes active at    *)
(* the store; vmv.x.s takes the value of lane 0 to the others.             *)
(*                                                                         *)
(* The lanes run PTX.  A place is the number of a word and of an operation *)
(* in what is emitted for it.  Lanes that run together are a group; a      *)
(* branch parts a group.  The PTX machine does not say when lanes that     *)
(* have parted run together again.  On a device that reconverges they wait *)
(* for each other where the ways from the branch meet, as in code that the *)
(* PTX assembler has laid out so; on another they may or may not meet.     *)
(***************************************************************************)
EXTENDS SimtWarp

CONSTANTS
  Cases,        (* a function, and whether the device makes lanes that     *)
                (* parted run together again                               *)
  XRegs, VRegs,
  SharedBase,   (* Options::shared_base_vaddr                              *)
  GlobalBase,   (* Options::global_base_vaddr                              *)
  TopAddress    (* the last address                                        *)

ASSUME WindowsAssumption ==
  /\ { SharedBase, GlobalBase, TopAddress } \subseteq Nat
  /\ 0 < SharedBase /\ SharedBase < GlobalBase /\ GlobalBase <= TopAddress
ASSUME CasesAssumption == \A c \in Cases : c.reconverges \in BOOLEAN

VARIABLES
  words,
  reconverges,  (* the device does                                         *)
  place,    (* place[l]: where lane l is                                   *)
  group,    (* group[l]: the lanes that run with lane l                    *)
  wait,     (* wait[l]: where lane l waits, for whom, and where they       *)
            (* parted; the innermost first                                 *)
  leader,   (* leader[l]: predicate %p0                                    *)
  x,        (* x[l][r]: the copy lane l has of scalar register r           *)
  v,
  mem,      (* the two windows of memory                                   *)
  trapped,
  stored,   (* stored[k]: stores made by word k (for checking only)        *)
  begin     (* the warp as it was at the start (for checking only)         *)

vars == << words, reconverges, place, group, wait, leader, x, v, mem, trapped, stored, begin >>

Addresses == SharedBase .. TopAddress

(* emit_prepare_addr_mapping: the window of an address and the offset in   *)
(* it; below the windows there is nothing.                                 *)
Mapped(a) == a >= SharedBase

Cell(a) ==
  IF a < GlobalBase THEN << "shared", a - SharedBase >> ELSE << "global", a - GlobalBase >>

Cells == { Cell(a) : a \in Addresses }

----------------------------------------------------------------------------
(* What is emitted.                                                        *)

(* Mutant: a store is taken for an operation that all lanes may do.        *)
StoreByAll == << "store", "sync" >>

(* emit_addr_map_and_st_u32_scalar                                         *)
EmitStore == << "leader", "skip", "store", "sync" >>

(* Mutant: the other lanes keep their old copies.                          *)
MoveToOneLane == << "trap", "move" >>

EmitVmvXS == << "trap", "move", "shuffle" >>

(* setrpc is nothing; a join only the label of its block.                  *)
Emit(w) ==
  CASE w.op = "sw"      -> EmitStore
    [] w.op = "vmv_x_s" -> EmitVmvXS
    [] OTHER            -> << w.op >>

----------------------------------------------------------------------------
(* The functions.                                                          *)

Ops ==
  { "auipc", "setrpc", "join", "jump", "branch", "vbranch", "ret",
    "addi", "lw", "sw", "vmv_x_s", "vmv_v_x" }

(* Where control can go from word k.                                       *)
Follow(ws, k) ==
  (IF ws[k].op \in { "vbranch", "branch", "jump" } THEN { ws[k].target } ELSE {})
    \cup (IF ws[k].op \in { "jump", "ret" } THEN {} ELSE { k + 1 })

(* The scalar registers a word reads and writes.                           *)
Reads(w)  == { w.rs1 } \cup (IF w.op \in { "sw", "branch" } THEN { w.rs2 } ELSE {})
ReadsX(w) == IF w.op \in { "sw", "lw", "addi", "vmv_v_x", "branch" } THEN Reads(w) \ {0} ELSE {}
WritesX(w) == IF w.op \in { "lw", "addi", "vmv_x_s" } THEN { w.rd } \ {0} ELSE {}

(* A word carries the facts about it that the compiler goes by: live, the  *)
(* scalar registers that can be read from here on before they are written, *)
(* and, for a vbranch, arms, the words on the ways to its join.            *)
Annotated ==
  [ op : Ops, target : Nat, rd : Nat, rs1 : Nat, rs2 : Nat, live : SUBSET XRegs, arms : SUBSET Nat ]

(* Control stays in the function, registers are in the files, no address   *)
(* is beyond the last, and live is what it says.                           *)
WellFormed(ws) ==
  /\ ws \in Seq(Annotated) /\ ws # << >>
  /\ \A k \in DOMAIN ws :
       LET w == ws[k]
       IN  /\ Follow(ws, k) \subseteq DOMAIN ws
           /\ w.live = ReadsX(w) \cup ((UNION { ws[n].live : n \in Follow(ws, k) }) \ WritesX(w))
           /\ WritesX(w) \subseteq XRegs
           /\ w.op = "vmv_v_x" => w.rd \in VRegs
           /\ w.op = "vmv_x_s" => w.rs2 \in VRegs
           /\ w.op = "vbranch" => { w.rs1, w.rs2 } \subseteq VRegs
           /\ w.op \in { "lw", "sw" } => Size - 1 + w.target <= TopAddress

(* The place where the ways from a vbranch meet: its join.                 *)
JoinOf(ws, k) == ws[Max({ j \in DOMAIN ws : j < k /\ ws[j].op = "auipc" })].target

(* What the emitter relies on (openspec/specs/replicated-scalar-state):    *)
(* arms are left through their join and lie in each other, and scalar      *)
(* state that is live after a join is the same in all its lanes.  The      *)
(* compiler sees to it by leaving these registers alone in the arms.       *)
KeepsContract(ws) ==
  \A k \in { n \in DOMAIN ws : ws[n].op = "vbranch" } :
    LET join == JoinOf(ws, k)
        arms == ws[k].arms
    IN  /\ join \in DOMAIN ws \ arms /\ arms \subseteq DOMAIN ws
        /\ Follow(ws, k) \subseteq arms \cup { join }
        /\ ws[join].live \subseteq ws[k].live
        /\ \A n \in arms :
             /\ Follow(ws, n) # {} /\ Follow(ws, n) \subseteq arms \cup { join }
             /\ ws[n].op = "vbranch" => ws[n].arms \subseteq arms
             /\ WritesX(ws[n]) \cap ws[join].live = {}

ASSUME FunctionsAssumption == \A c \in Cases : WellFormed(c.words)
ASSUME ContractAssumption  == \A c \in Cases : c.reconverges => KeepsContract(c.words)

----------------------------------------------------------------------------
Init ==
  /\ \E c \in Cases : words = c.words /\ reconverges = c.reconverges
  /\ place = [l \in LaneIds |-> << 1, 1 >>]
  /\ group = [l \in LaneIds |-> LaneIds]
  /\ wait  = [l \in LaneIds |-> << >>]
  /\ leader = [l \in LaneIds |-> l = Max(LaneIds)]
  /\ x = [l \in LaneIds |-> [r \in XRegs |-> 0]]
  /\ \E input \in [LaneIds -> Values] :
       v = [l \in LaneIds |-> [r \in VRegs |-> IF r = 0 THEN input[l] ELSE 0]]
  /\ mem = [c \in Cells |-> 0]
  /\ trapped = FALSE
  /\ stored = [k \in DOMAIN words |-> 0]
  /\ begin = Warp(x[0], v, [a \in Addresses |-> 0])

WordAt(l) == words[place[l][1]]
Op(l)     == Emit(WordAt(l))[place[l][2]]
Over(l)   == WordAt(l).op = "ret"

After(p) == IF p[2] < Len(Emit(words[p[1]])) THEN << p[1], p[2] + 1 >> ELSE << p[1] + 1, 1 >>

Waiting(l) == wait[l] # << >> /\ place[l] = Head(wait[l]).place

(* The lanes of G run the operation op.                                    *)
Runs(G, op) ==
  /\ ~trapped
  /\ \E l \in G : G = group[l] /\ ~Waiting(l) /\ Op(l) = op

PlaceOf(G) == place[CHOOSE l \in G : TRUE]
WordOf(G)  == words[PlaceOf(G)[1]]

Go(G, p) == place' = [l \in LaneIds |-> IF l \in G THEN p ELSE place[l]]
GoOn(G)  == Go(G, After(PlaceOf(G)))

(* Some lanes of G go to p and the others to q; the ways from this word    *)
(* meet at r.                                                              *)
Part(G, some, p, q, r) ==
  /\ place' = [l \in LaneIds |-> IF l \in some THEN p ELSE IF l \in G THEN q ELSE place[l]]
  /\ group' = [l \in LaneIds |-> IF l \in some THEN some ELSE IF l \in G THEN G \ some ELSE group[l]]
  /\ wait'  = [l \in LaneIds |->
                 IF reconverges /\ l \in G /\ some \notin {{}, G}
                   THEN << [from |-> PlaceOf(G)[1], place |-> r, lanes |-> G] >> \o wait[l] ELSE wait[l]]

(* The lanes that parted have all come to where they wait for each other.  *)
Meet ==
  /\ ~trapped
  /\ \E l \in LaneIds :
       /\ Waiting(l)
       /\ LET all == Head(wait[l]).lanes
          IN  /\ \A m \in all : Waiting(m) /\ Head(wait[m]) = Head(wait[l])
              /\ group' = [m \in LaneIds |-> IF m \in all THEN all ELSE group[m]]
              /\ wait'  = [m \in LaneIds |-> IF m \in all THEN Tail(wait[m]) ELSE wait[m]]
  /\ UNCHANGED << words, reconverges, place, leader, x, v, mem, trapped, stored, begin >>

(* On another device groups at the same place may run on as one.           *)
MeetByChance ==
  /\ ~trapped /\ ~reconverges
  /\ \E l, m \in LaneIds :
       /\ group[l] # group[m] /\ place[l] = place[m]
       /\ LET all == group[l] \cup group[m]
          IN  group' = [n \in LaneIds |-> IF n \in all THEN all ELSE group[n]]
  /\ UNCHANGED << words, reconverges, place, wait, leader, x, v, mem, trapped, stored, begin >>

Trap ==
  /\ trapped' = TRUE
  /\ UNCHANGED << words, reconverges, place, group, wait, leader, x, v, mem, stored, begin >>

WriteAll(G, r, val) ==
  x' = [l \in LaneIds |-> IF l \in G /\ r # 0 THEN [x[l] EXCEPT ![r] = val[l]] ELSE x[l]]

----------------------------------------------------------------------------
(* Operations without an effect here: the labels, and bar.warp.sync on the *)
(* mask that the same lanes have just read, which waits for no other lane. *)
Nothing(G) ==
  /\ \E op \in { "auipc", "setrpc", "join", "sync" } : Runs(G, op)
  /\ GoOn(G)
  /\ UNCHANGED << words, reconverges, group, wait, leader, x, v, mem, trapped, stored, begin >>

(* Mutant: the leader chosen in the prologue stays the leader.             *)
KeepLeader(G) ==
  /\ Runs(G, "leader")
  /\ GoOn(G)
  /\ UNCHANGED << words, reconverges, group, wait, leader, x, v, mem, trapped, stored, begin >>

(* activemask, bfind: the highest of the lanes that run this.              *)
SelectLeader(G) ==
  /\ Runs(G, "leader")
  /\ leader' = [l \in LaneIds |-> IF l \in G THEN l = Max(G) ELSE leader[l]]
  /\ GoOn(G)
  /\ UNCHANGED << words, reconverges, group, wait, x, v, mem, trapped, stored, begin >>

(* The lanes that are not the leader branch over the store.                *)
SkipUnlessLeader(G) ==
  /\ Runs(G, "skip")
  /\ LET after == << PlaceOf(G)[1], 4 >>
     IN  Part(G, { l \in G : leader[l] }, After(PlaceOf(G)), after, after)
  /\ UNCHANGED << words, reconverges, leader, x, v, mem, trapped, stored, begin >>

(* st: if several lanes store, one of them is the last.                    *)
Store(G) ==
  /\ Runs(G, "store")
  /\ LET address(l) == Address(x[l], WordOf(G))
         put(c) == { Scalar(x[l], WordOf(G).rs2) : l \in { m \in G : Cell(address(m)) = c } }
     IN  IF \E l \in G : ~Mapped(address(l)) THEN Trap
         ELSE /\ mem' \in { new \in [Cells -> Values] :
                              \A c \in Cells : new[c] \in IF put(c) = {} THEN { mem[c] } ELSE put(c) }
              /\ stored' = [stored EXCEPT ![PlaceOf(G)[1]] = @ + Cardinality(G)]
              /\ GoOn(G)
              /\ UNCHANGED << words, reconverges, group, wait, leader, x, v, trapped, begin >>

(* A scalar load is made by every lane.                                    *)
Load(G) ==
  /\ Runs(G, "lw")
  /\ LET address(l) == Address(x[l], WordOf(G))
     IN  IF \E l \in G : ~Mapped(address(l)) THEN Trap
         ELSE /\ WriteAll(G, WordOf(G).rd, [l \in G |-> mem[Cell(address(l))]])
              /\ GoOn(G)
              /\ UNCHANGED << words, reconverges, group, wait, leader, v, mem, trapped, stored, begin >>

AddImmediate(G) ==
  /\ Runs(G, "addi")
  /\ WriteAll(G, WordOf(G).rd, [l \in G |-> Sum(Scalar(x[l], WordOf(G).rs1), WordOf(G).target)])
  /\ GoOn(G)
  /\ UNCHANGED << words, reconverges, group, wait, leader, v, mem, trapped, stored, begin >>

Splat(G) ==
  /\ Runs(G, "vmv_v_x")
  /\ v' = [l \in LaneIds |->
             IF l \in G THEN [v[l] EXCEPT ![WordOf(G).rd] = Scalar(x[l], WordOf(G).rs1)] ELSE v[l]]
  /\ GoOn(G)
  /\ UNCHANGED << words, reconverges, group, wait, leader, x, mem, trapped, stored, begin >>

(* vmv.x.s: lane 0 must be there; it moves its element into its own copy,  *)
(* which is then everyone's.                                               *)
TrapIfLaneInactive(G) ==
  /\ Runs(G, "trap")
  /\ IF 0 \notin G THEN Trap
     ELSE /\ GoOn(G)
          /\ UNCHANGED << words, reconverges, group, wait, leader, x, v, mem, trapped, stored, begin >>

Move(G) ==
  /\ Runs(G, "move")
  /\ WriteAll(G \cap {0}, WordOf(G).rd, [l \in G |-> v[l][WordOf(G).rs2]])
  /\ GoOn(G)
  /\ UNCHANGED << words, reconverges, group, wait, leader, v, mem, trapped, stored, begin >>

Shuffle(G) ==
  /\ Runs(G, "shuffle")
  /\ \E any \in Values :
       WriteAll(G, WordOf(G).rd, [l \in G |-> IF 0 \in G THEN x[0][WordOf(G).rd] ELSE any])
  /\ GoOn(G)
  /\ UNCHANGED << words, reconverges, group, wait, leader, v, mem, trapped, stored, begin >>

VectorBranch(G) ==
  /\ Runs(G, "vbranch")
  /\ LET w == WordOf(G)
         k == PlaceOf(G)[1]
     IN  Part(G, { l \in G : v[l][w.rs2] = v[l][w.rs1] },
              << w.target, 1 >>, << k + 1, 1 >>, << JoinOf(words, k), 1 >>)
  /\ UNCHANGED << words, reconverges, leader, x, v, mem, trapped, stored, begin >>

(* bra.uni: the group goes as one of its lanes says.                       *)
ScalarBranch(G) ==
  /\ Runs(G, "branch")
  /\ \E l \in G :
       Go(G, IF Scalar(x[l], WordOf(G).rs1) = Scalar(x[l], WordOf(G).rs2)
               THEN << WordOf(G).target, 1 >> ELSE After(PlaceOf(G)))
  /\ UNCHANGED << words, reconverges, group, wait, leader, x, v, mem, trapped, stored, begin >>

(* Mutant: the target is taken for a distance, as the encoding has it.     *)
JumpByDistance(G) ==
  /\ Runs(G, "jump")
  /\ Go(G, << PlaceOf(G)[1] + WordOf(G).target, 1 >>)
  /\ UNCHANGED << words, reconverges, group, wait, leader, x, v, mem, trapped, stored, begin >>

TakeJump(G) ==
  /\ Runs(G, "jump")
  /\ Go(G, << WordOf(G).target, 1 >>)
  /\ UNCHANGED << words, reconverges, group, wait, leader, x, v, mem, trapped, stored, begin >>

Stopped == (trapped \/ \A l \in LaneIds : Over(l)) /\ UNCHANGED vars

Step(G) ==
  \/ Nothing(G)      \/ SelectLeader(G)       \/ SkipUnlessLeader(G)
  \/ Store(G)        \/ Load(G)               \/ AddImmediate(G)
  \/ Splat(G)        \/ TrapIfLaneInactive(G) \/ Move(G)
  \/ Shuffle(G)      \/ VectorBranch(G)       \/ ScalarBranch(G)
  \/ TakeJump(G)

Next ==
  \/ Meet
  \/ MeetByChance
  \/ Stopped
  \/ \E G \in Range(group) : Step(G)

Spec == Init /\ [][Next]_vars

----------------------------------------------------------------------------
(* Every variable has its type; a group is at one place.                   *)
TypeOK ==
  /\ \A l \in LaneIds : /\ place[l][1] \in DOMAIN words
                        /\ place[l][2] \in DOMAIN Emit(WordAt(l))
                        /\ l \in group[l]
                        /\ \A m \in group[l] : group[m] = group[l] /\ place[m] = place[l]
  /\ leader \in [LaneIds -> BOOLEAN]
  /\ x \in [LaneIds -> [XRegs -> Values]]
  /\ v \in [LaneIds -> [VRegs -> Values]]
  /\ mem \in [Cells -> Values]
  /\ stored \in [DOMAIN words -> Nat]

(* Lanes that come to an instruction together have the same value in every *)
(* scalar register that is still read.                                     *)
ReplicasEqual ==
  \A l \in LaneIds : \A m \in group[l] :
    place[l][2] = 1 => \A r \in WordAt(l).live : x[l][r] = x[m][r]

(* A scalar store is made by one of the lanes that run together, also when *)
(* the leader of before has gone another way.                              *)
OneLaneStores ==
  reconverges => \A l \in LaneIds : Op(l) = "store" => group[l] = {l}
=============================================================================
