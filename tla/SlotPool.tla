------------------------------ MODULE SlotPool -----------------------------
(***************************************************************************)
(* What the private-memory pool of the translated kernels promises: a set  *)
(* of slots, each owned by at most one thread block, each block owning at  *)
(* most one slot, and every slot taken given back.  PdsPool implements it  *)
(* with a shared bitmap and atomic operations.                             *)
(***************************************************************************)
CONSTANTS
  Blocks,    (* thread blocks                                              *)
  Slots,     (* slots of private memory                                    *)
  NoBlock    (* the owner of a free slot                                   *)

VARIABLE owner    (* owner[s]: the block that owns slot s, or NoBlock      *)

TypeOK == owner \in [Slots -> Blocks \cup {NoBlock}]

Init == owner = [s \in Slots |-> NoBlock]

Acquire(b, s) ==
  /\ owner[s] = NoBlock
  /\ \A r \in Slots : owner[r] # b
  /\ owner' = [owner EXCEPT ![s] = b]

Release(b, s) ==
  /\ owner[s] = b
  /\ owner' = [owner EXCEPT ![s] = NoBlock]

Next == \E b \in Blocks, s \in Slots : Acquire(b, s) \/ Release(b, s)

Spec == Init /\ [][Next]_owner

(* A block that owns a slot gives it back.                                 *)
FairSpec ==
  Spec /\ \A b \in Blocks : WF_owner(\E s \in Slots : Release(b, s))
============================================================================
