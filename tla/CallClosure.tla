---------------------------- MODULE CallClosure ----------------------------
(***************************************************************************)
(* The call graph of src/tools/sbt_ptx.cpp: from the kernel the translator *)
(* collects the functions that can be called, turns down recursion with a  *)
(* depth-first search, and hands the emitter the functions to emit and     *)
(* their names.  A builtin that the emitter inlines is not followed.       *)
(***************************************************************************)
EXTENDS Integers, Sequences

CONSTANTS
  N,          (* addresses that are called, or are the kernel's: 1 .. N    *)
  Entry,      (* the kernel                                                *)
  MaxCalls    (* bound: distinct callees of a function                     *)

ASSUME EntryAssumption == N \in Nat /\ Entry \in 1 .. N /\ MaxCalls \in Nat

Addrs == 1 .. N

(* What an address is: code that the verifier accepts or turns down, a     *)
(* builtin, or nothing that the symbol table knows.                        *)
Kinds == { "code", "bad", "builtin", "unnamed" }

VARIABLES
  kind,     (* kind[a]                                                     *)
  calls,    (* calls[a]: the targets of the calls in the code at a         *)
  phase,
  nodes,    (* nodes_by_start: the functions found                         *)
  callees,  (* callees[a]: Node::callees                                   *)
  work,     (* the worklist; the order functions leave it in is left open  *)
  mark,     (* mark[a]: the colour of the search                           *)
  path,     (* the calls of dfs: the function and the callees left to try  *)
  emitted   (* the functions handed to the emitter beside the kernel       *)

vars == << kind, calls, phase, nodes, callees, work, mark, path, emitted >>

Phases == { "collect", "search", "emit", "done", "failed", "recursive" }

AtMost(S, k) == \A f \in [0 .. k -> S] : \E a, b \in 0 .. k : a # b /\ f[a] = f[b]

Init ==
  /\ kind \in { f \in [Addrs -> Kinds] : f[Entry] = "code" }
  /\ calls \in { f \in [Addrs -> { S \in SUBSET Addrs : AtMost(S, MaxCalls) }] :
                   \A a \in Addrs : kind[a] # "code" => f[a] = {} }
  /\ phase = "collect"
  /\ nodes = {Entry}
  /\ callees = [a \in Addrs |-> {}]
  /\ work = {Entry}
  /\ mark = [a \in Addrs |-> "white"]
  /\ path = << >>
  /\ emitted = {}

Top(s) == s[Len(s)]
Pop(s) == SubSeq(s, 1, Len(s) - 1)

----------------------------------------------------------------------------
(* scan_callees, when every target has a name.                             *)
ScanCallees(a) == { t \in calls[a] : kind[t] # "builtin" }

Fail ==
  /\ phase' = "failed"
  /\ UNCHANGED << kind, calls, nodes, callees, work, mark, path, emitted >>

(* A target without a name, or a callee that cannot be translated.         *)
Untranslatable(a) ==
  \/ \E t \in calls[a] : kind[t] = "unnamed"
  \/ \E t \in ScanCallees(a) \ nodes : kind[t] = "bad"

(* Mutant: the callees of a callee are not scanned.                        *)
ShallowWork(a) == work \ {a}

(* Mutant: a function that was found already is put on the list again.     *)
RepeatedWork(a) == (work \ {a}) \cup ScanCallees(a)

(* The worklist without a, and with what a calls and was not known.        *)
RemainingWork(a) == (work \ {a}) \cup (ScanCallees(a) \ nodes)

(* One function off the worklist: the callees that are new are decoded,    *)
(* verified and put on it.                                                 *)
Collect(a) ==
  /\ phase = "collect" /\ a \in work
  /\ IF Untranslatable(a)
       THEN Fail
       ELSE /\ nodes'   = nodes \cup ScanCallees(a)
            /\ callees' = [callees EXCEPT ![a] = ScanCallees(a)]
            /\ work'    = RemainingWork(a)
            /\ UNCHANGED << kind, calls, phase, mark, path, emitted >>

(* Mutant: the search takes the kernel to be at address 0.                 *)
StartAtZero ==
  /\ phase = "collect" /\ work = {}
  /\ phase' = "search"
  /\ mark' = [mark EXCEPT ![Entry] = "gray"]
  /\ path' = << [fn |-> 0, left |-> callees[Entry]] >>
  /\ UNCHANGED << kind, calls, nodes, callees, work, emitted >>

StartSearch ==
  /\ phase = "collect" /\ work = {}
  /\ phase' = "search"
  /\ mark' = [mark EXCEPT ![Entry] = "gray"]
  /\ path' = << [fn |-> Entry, left |-> callees[Entry]] >>
  /\ UNCHANGED << kind, calls, nodes, callees, work, emitted >>

(* Mutant: a function that was done with before counts as recursion.       *)
SeenBefore(t) == mark[t] # "white"

OnPath(t) == mark[t] = "gray"

(* dfs tries a callee of the function it is in.                            *)
TryCallee(t) ==
  /\ phase = "search" /\ path # << >> /\ t \in Top(path).left
  /\ LET rest == [path EXCEPT ![Len(path)].left = @ \ {t}]
     IN  IF OnPath(t)
           THEN phase' = "recursive" /\ UNCHANGED << mark, path >>
           ELSE /\ IF mark[t] = "white"
                     THEN /\ mark' = [mark EXCEPT ![t] = "gray"]
                          /\ path' = Append(rest, [fn |-> t, left |-> callees[t]])
                     ELSE path' = rest /\ UNCHANGED mark
                /\ UNCHANGED phase
  /\ UNCHANGED << kind, calls, nodes, callees, work, emitted >>

(* Mutant: the search is over when it comes back the first time.           *)
LeaveAll ==
  /\ phase = "search" /\ path # << >> /\ Top(path).left = {}
  /\ mark' = [mark EXCEPT ![Top(path).fn] = "black"]
  /\ path' = << >>
  /\ UNCHANGED << kind, calls, phase, nodes, callees, work, emitted >>

LeaveFunction ==
  /\ phase = "search" /\ path # << >> /\ Top(path).left = {}
  /\ mark' = [mark EXCEPT ![Top(path).fn] = "black"]
  /\ path' = Pop(path)
  /\ UNCHANGED << kind, calls, phase, nodes, callees, work, emitted >>

Emit ==
  /\ phase = "search" /\ path = << >>
  /\ phase' = "done"
  /\ emitted' = nodes \ {Entry}
  /\ UNCHANGED << kind, calls, nodes, callees, work, mark, path >>

Finished == phase \in { "done", "failed", "recursive" }

Work ==
  \/ \E a \in Addrs : Collect(a) \/ TryCallee(a)
  \/ StartSearch
  \/ LeaveFunction
  \/ Emit

Next == Work \/ (Finished /\ UNCHANGED vars)

Spec == Init /\ [][Next]_vars

(* The translator is one sequential program.                               *)
FairSpec == Spec /\ WF_vars(Work)

----------------------------------------------------------------------------
(* Every variable has its type.                                            *)
TypeOK ==
  /\ kind \in [Addrs -> Kinds]
  /\ calls \in [Addrs -> SUBSET Addrs]
  /\ phase \in Phases
  /\ nodes \in SUBSET Addrs
  /\ callees \in [Addrs -> SUBSET Addrs]
  /\ work \in SUBSET Addrs
  /\ mark \in [Addrs -> {"white", "gray", "black"}]
  /\ path \in Seq([fn : Addrs, left : SUBSET Addrs])
  /\ emitted \in SUBSET Addrs

(* The functions that the kernel can come to call, itself among them: in   *)
(* every set that holds the kernel and what its members call.              *)
Callable ==
  { a \in Addrs : \A S \in SUBSET Addrs :
      Entry \in S /\ (\A s \in S : ScanCallees(s) \subseteq S) => a \in S }

(* What is emitted is what can be called: no function is missing from the  *)
(* module, and none is in it that no call can reach.                       *)
ClosureExact == phase = "done" => emitted \cup {Entry} = Callable

(* The emitter can name the target of every call it meets: a builtin, or a *)
(* function of the module; the kernel itself has no name to be called by.  *)
CallsNamed ==
  phase = "done" =>
    \A a \in emitted \cup {Entry} : \A t \in calls[a] :
      kind[t] = "builtin" \/ (t \in emitted /\ kind[t] = "code")

(* Functions that call each other round, from all of which there is always *)
(* another call to one of them.                                            *)
Round(S) == S # {} /\ \A a \in S : S \cap ScanCallees(a) # {}

(* A module that is emitted has no recursion in it, and one is turned down *)
(* for recursion only if it has.                                           *)
RecursionExact ==
  /\ phase = "done" => \A S \in SUBSET Callable : ~Round(S)
  /\ phase = "recursive" => \E S \in SUBSET Callable : Round(S)

(* The translator comes to an end on every call graph.                     *)
Ends == <>Finished
=============================================================================
