------------------------- MODULE CallClosure_proofs ------------------------
(***************************************************************************)
(* For every call graph: the translator emits exactly the functions that   *)
(* can be called, can name the target of every call, and tells recursion   *)
(* from a function that is called twice.                                   *)
(***************************************************************************)
EXTENDS CallClosure, SequenceTheorems, TLAPS

USE EntryAssumption DEF Addrs

----------------------------------------------------------------------------
(* The worklist.                                                           *)

(* What is known of a function that has left the worklist.                 *)
Scanned(a) ==
  /\ callees[a] = ScanCallees(a)
  /\ ScanCallees(a) \subseteq nodes
  /\ \A t \in calls[a] : kind[t] \in { "code", "builtin" }

(* A set with the kernel in it that no call leaves.                        *)
ClosedSet(S) == Entry \in S /\ \A s \in S : ScanCallees(s) \subseteq S

NodesInv ==
  /\ Entry \in nodes
  /\ work \subseteq nodes
  /\ \A a \in nodes : kind[a] = "code"
  /\ \A a \in nodes \ work : Scanned(a)
  /\ \A S \in SUBSET Addrs : ClosedSet(S) => nodes \subseteq S
  /\ phase \in { "search", "done", "recursive" } => work = {}

----------------------------------------------------------------------------
(* The search.                                                             *)
Black == { a \in Addrs : mark[a] = "black" }
Fn(k) == path[k].fn
Calls == 1 .. Len(path)

(* The calls of dfs that are under way: each calls the next, the gray      *)
(* functions are theirs, and what one has tried is black or is the next.   *)
PathInv ==
  /\ \A k \in Calls : /\ Fn(k) \in nodes /\ mark[Fn(k)] = "gray"
                      /\ path[k].left \subseteq callees[Fn(k)]
  /\ \A a \in Addrs : mark[a] = "gray" => \E k \in Calls : Fn(k) = a
  /\ \A j, k \in Calls : Fn(j) = Fn(k) => j = k
  /\ \A k \in 1 .. Len(path) - 1 : Fn(k + 1) \in callees[Fn(k)]
  /\ \A k \in Calls : \A t \in callees[Fn(k)] \ path[k].left :
       t \in Black \/ (k < Len(path) /\ t = Fn(k + 1))
  /\ path # << >> => Fn(1) = Entry
  /\ path = << >> => mark[Entry] = "black"

(* Black functions call black ones only, not the kernel, and not round.    *)
BlackInv ==
  /\ Black \subseteq nodes
  /\ \A a \in Black : callees[a] \subseteq Black /\ Entry \notin callees[a]
  /\ \A S \in SUBSET Black : ~Round(S)

SearchInv ==
  /\ phase \in { "collect", "failed" } => path = << >> /\ \A a \in Addrs : mark[a] = "white"
  /\ phase \in { "search", "done", "recursive" } => PathInv /\ BlackInv

EndInv ==
  /\ phase = "done" => path = << >> /\ emitted = nodes \ {Entry}
  /\ phase = "recursive" => \E S \in SUBSET nodes : Round(S)

IInv == TypeOK /\ NodesInv /\ SearchInv /\ EndInv

----------------------------------------------------------------------------
(* Sequences.                                                              *)
Frames == [fn : Addrs, left : SUBSET Addrs]

LEMMA TopFrame ==
  ASSUME TypeOK, path # << >>
  PROVE  /\ Len(path) \in Nat \ {0}
         /\ Top(path) = path[Len(path)]
         /\ Top(path) \in Frames
<1>1. path \in Seq(Frames)
  BY DEF TypeOK, Frames
<1>2. Len(path) \in Nat \ {0} /\ Len(path) \in 1 .. Len(path)
  BY <1>1, LenProperties, EmptySeq
<1>. QED BY <1>1, <1>2, ElementOfSeq DEF Top

LEMMA PopOne ==
  ASSUME NEW s \in Seq(Frames), s # << >>
  PROVE  /\ Pop(s) \in Seq(Frames)
         /\ Len(Pop(s)) = Len(s) - 1
         /\ \A k \in 1 .. Len(s) - 1 : Pop(s)[k] = s[k]
<1>1. Len(s) \in Nat \ {0}
  BY LenProperties, EmptySeq
<1>2. \A k \in 1 .. Len(s) : s[k] \in Frames
  BY ElementOfSeq
<1>. DEFINE m == Len(s) - 1
<1>3. m \in Int /\ m = Len(s) - 1 /\ m \in Nat
  BY <1>1
<1>4. \A k \in 1 .. m : s[k] \in Frames
  BY <1>1, <1>2
<1>. HIDE DEF m
<1>5. /\ SubSeq(s, 1, m) \in Seq(Frames)
      /\ Len(SubSeq(s, 1, m)) = IF 1 <= m THEN m - 1 + 1 ELSE 0
      /\ \A k \in 1 .. m - 1 + 1 : SubSeq(s, 1, m)[k] = s[1 + k - 1]
  BY <1>3, <1>4, SubSeqProperties
<1>6. Pop(s) = SubSeq(s, 1, m)
  BY <1>3 DEF Pop
<1>7. Len(Pop(s)) = m
  BY <1>3, <1>5, <1>6
<1>8. ASSUME NEW k \in 1 .. m PROVE Pop(s)[k] = s[k]
  <2>1. k \in 1 .. m - 1 + 1 /\ 1 + k - 1 = k
    BY <1>3
  <2>. QED BY <2>1, <1>5, <1>6
<1>. QED BY <1>3, <1>5, <1>6, <1>7, <1>8

(* The last call has one callee less to try.                               *)
Strike(s, t) == [s EXCEPT ![Len(s)].left = @ \ {t}]

LEMMA StrikeOne ==
  ASSUME NEW s \in Seq(Frames), s # << >>, NEW t \in Addrs
  PROVE  /\ Strike(s, t) \in Seq(Frames)
         /\ Len(Strike(s, t)) = Len(s)
         /\ \A k \in 1 .. Len(s) : k # Len(s) => Strike(s, t)[k] = s[k]
         /\ Strike(s, t)[Len(s)].fn = s[Len(s)].fn
         /\ Strike(s, t)[Len(s)].left = s[Len(s)].left \ {t}
<1>. DEFINE n == Len(s)
            f == [s[n] EXCEPT !.left = @ \ {t}]
            r == Strike(s, t)
<1>1. n \in Nat \ {0} /\ n \in 1 .. n /\ s \in [1 .. n -> Frames]
  BY LenProperties, EmptySeq
<1>2. f \in Frames /\ f.fn = s[n].fn /\ f.left = s[n].left \ {t}
  BY <1>1 DEF Frames
<1>3. r = [s EXCEPT ![n] = f]
  BY DEF Strike
<1>. HIDE DEF f, n, r
<1>4. r \in [1 .. n -> Frames] /\ \A k \in 1 .. n : r[k] = IF k = n THEN f ELSE s[k]
  BY <1>1, <1>2, <1>3
<1>5. r \in Seq(Frames)
  BY <1>1, <1>4, SeqDef
<1>6. Len(r) = n
  <2>1. DOMAIN r = 1 .. Len(r) /\ Len(r) \in Nat
    BY <1>5, LenProperties
  <2>2. DOMAIN r = 1 .. n
    BY <1>4
  <2>. DEFINE l == Len(r)
  <2>3. l \in Nat /\ 1 .. l = 1 .. n
    BY <2>1, <2>2
  <2>. HIDE DEF l
  <2>4. n \in 1 .. l
    BY <2>3, <1>1
  <2>5. l \in 1 .. n
    BY <2>3, <2>4, <1>1
  <2>6. l = n
    BY <2>4, <2>5, <1>1
  <2>. QED BY <2>6 DEF l
<1>7. r[n].fn = s[n].fn /\ r[n].left = s[n].left \ {t}
  BY <1>1, <1>2, <1>4
<1>. QED BY <1>1, <1>4, <1>5, <1>6, <1>7 DEF n, r

(* What a callee is called from is on the path or black, or white: in the  *)
(* search every callee of a function is a function of the list.            *)
LEMMA CalleesKnown ==
  ASSUME TypeOK, NodesInv, work = {}, NEW a \in nodes
  PROVE  callees[a] = ScanCallees(a) /\ callees[a] \subseteq nodes
BY DEF NodesInv, Scanned

----------------------------------------------------------------------------
LEMMA InitIInv == Init => IInv
<1>. SUFFICES ASSUME Init PROVE IInv
  OBVIOUS
<1>1. TypeOK
  <2>1. kind \in [Addrs -> Kinds] /\ kind[Entry] = "code"
    BY DEF Init
  <2>2. { S \in SUBSET Addrs : AtMost(S, MaxCalls) } \subseteq SUBSET Addrs
    OBVIOUS
  <2>3. calls \in [Addrs -> SUBSET Addrs]
    BY <2>2 DEF Init
  <2>4. phase \in Phases /\ nodes \in SUBSET Addrs /\ work \in SUBSET Addrs /\ emitted \in SUBSET Addrs
    BY DEF Init, Phases
  <2>5. callees \in [Addrs -> SUBSET Addrs] /\ mark \in [Addrs -> {"white", "gray", "black"}]
    BY DEF Init
  <2>6. path \in Seq([fn : Addrs, left : SUBSET Addrs])
    BY DEF Init
  <2>. QED BY <2>1, <2>3, <2>4, <2>5, <2>6 DEF TypeOK
<1>2. NodesInv
  BY DEF Init, NodesInv, ClosedSet
<1>3. SearchInv /\ EndInv
  BY DEF Init, SearchInv, EndInv
<1>. QED BY <1>1, <1>2, <1>3 DEF IInv

----------------------------------------------------------------------------
(* What a step that leaves the graph, the path or the colours alone keeps. *)
LEMMA GraphKept ==
  ASSUME NodesInv, UNCHANGED << kind, calls, nodes, callees, work >>,
         phase' \in { "search", "done", "recursive" } => work = {}
  PROVE  NodesInv'
BY DEF NodesInv, Scanned, ScanCallees, ClosedSet

LEMMA PathKept ==
  ASSUME PathInv, UNCHANGED << nodes, callees, mark, path >>
  PROVE  PathInv'
BY Zenon DEF PathInv, Calls, Fn, Black

LEMMA BlackKept ==
  ASSUME BlackInv, UNCHANGED << kind, calls, nodes, callees, mark >>
  PROVE  BlackInv'
<1>1. Black' = Black
  BY DEF Black
<1>2. \A S : Round(S)' = Round(S)
  BY DEF Round, ScanCallees
<1>. QED BY <1>1, <1>2 DEF BlackInv

LEMMA CollectTypes ==
  ASSUME TypeOK, NEW a \in Addrs, Collect(a)
  PROVE  TypeOK'
<1>1. CASE Untranslatable(a)
  BY <1>1 DEF Collect, Fail, TypeOK, Phases
<1>2. CASE ~Untranslatable(a)
  <2>1. ScanCallees(a) \in SUBSET Addrs
    BY DEF TypeOK, ScanCallees
  <2>2. /\ nodes' \in SUBSET Addrs /\ callees' \in [Addrs -> SUBSET Addrs] /\ work' \in SUBSET Addrs
        /\ UNCHANGED << kind, calls, phase, mark, path, emitted >>
    BY <1>2, <2>1 DEF Collect, TypeOK, RemainingWork
  <2>. QED BY <2>2 DEF TypeOK
<1>. QED BY <1>1, <1>2

(* A function off the worklist has been scanned, and the list grows only   *)
(* by functions that can be called.                                        *)
LEMMA CollectNodes ==
  ASSUME TypeOK, NodesInv, NEW a \in Addrs, Collect(a)
  PROVE  NodesInv'
<1>1. CASE Untranslatable(a)
  <2>1. phase' = "failed" /\ UNCHANGED << kind, calls, nodes, callees, work >>
    BY <1>1 DEF Collect, Fail
  <2>. QED BY <2>1, GraphKept
<1>2. CASE ~Untranslatable(a)
  <2>. USE <1>2 DEF Collect
  <2>1. a \in nodes /\ nodes' = nodes \cup ScanCallees(a) /\ work' = (work \ {a}) \cup (ScanCallees(a) \ nodes)
    BY DEF NodesInv, RemainingWork
  <2>2. ScanCallees(a) \subseteq Addrs
    BY DEF TypeOK, ScanCallees
  <2>3. \A t \in calls[a] : kind[t] \in { "code", "builtin" }
    <3>. SUFFICES ASSUME NEW t \in calls[a], kind[t] # "builtin" PROVE kind[t] = "code"
      OBVIOUS
    <3>1. t \in ScanCallees(a) /\ t \in Addrs
      BY DEF ScanCallees, TypeOK
    <3>2. kind[t] # "unnamed" /\ (t \in nodes \/ kind[t] # "bad")
      BY <3>1 DEF Untranslatable
    <3>3. kind[t] \in Kinds
      BY <3>1 DEF TypeOK
    <3>. QED BY <3>2, <3>3 DEF NodesInv, Kinds
  <2>4. Entry \in nodes' /\ work' \subseteq nodes'
    BY <2>1 DEF NodesInv
  <2>5. \A b \in nodes' : kind'[b] = "code"
    BY <2>1, <2>3 DEF NodesInv, ScanCallees
  <2>6. ASSUME NEW b \in nodes' \ work' PROVE Scanned(b)'
    <3>1. CASE b = a
      BY <3>1, <2>1, <2>2, <2>3 DEF Scanned, ScanCallees, TypeOK
    <3>2. CASE b # a
      <4>1. b \in nodes \ work
        BY <3>2, <2>1
      <4>2. Scanned(b)
        BY <4>1 DEF NodesInv
      <4>. QED BY <4>1, <4>2, <3>2, <2>1 DEF Scanned, ScanCallees, TypeOK
    <3>. QED BY <3>1, <3>2
  <2>7. ASSUME NEW S \in SUBSET Addrs, ClosedSet(S)' PROVE nodes' \subseteq S
    <3>1. ClosedSet(S)
      BY <2>7 DEF ClosedSet, ScanCallees
    <3>2. nodes \subseteq S
      BY <3>1 DEF NodesInv
    <3>. QED BY <3>1, <3>2, <2>1 DEF ClosedSet
  <2>8. phase' \notin { "search", "done", "recursive" }
    OBVIOUS
  <2>. QED BY <2>4, <2>5, <2>6, <2>7, <2>8 DEF NodesInv
<1>. QED BY <1>1, <1>2

LEMMA CollectKeepsIInv ==
  ASSUME IInv, NEW a \in Addrs, Collect(a)
  PROVE  IInv'
<1>1. TypeOK' /\ NodesInv'
  BY CollectTypes, CollectNodes DEF IInv
<1>2. phase' \in { "collect", "failed" } /\ UNCHANGED << path, mark >>
  BY DEF Collect, Fail
<1>3. SearchInv' /\ EndInv'
  BY <1>2 DEF IInv, SearchInv, EndInv, Collect
<1>. QED BY <1>1, <1>3 DEF IInv

----------------------------------------------------------------------------
LEMMA StartKeepsIInv ==
  ASSUME IInv, StartSearch
  PROVE  IInv'
<1>. USE DEF IInv, StartSearch
<1>1. NodesInv'
  BY GraphKept
<1>2. path' \in Seq(Frames) /\ Len(path') = 1 /\ path'[1] = [fn |-> Entry, left |-> callees[Entry]]
  BY DEF TypeOK, Frames
<1>3. TypeOK'
  BY <1>2 DEF TypeOK, Phases, Frames
<1>4. \A a \in Addrs : mark'[a] = IF a = Entry THEN "gray" ELSE "white"
  BY DEF SearchInv, TypeOK
<1>5. Black' = {}
  BY <1>4 DEF Black
<1>6. PathInv'
  BY <1>2, <1>4 DEF PathInv, Calls, Fn, NodesInv
<1>7. BlackInv'
  BY <1>5 DEF BlackInv, Round
<1>8. SearchInv' /\ EndInv'
  BY <1>6, <1>7 DEF SearchInv, EndInv
<1>. QED BY <1>1, <1>3, <1>8

----------------------------------------------------------------------------
(* A callee that is on the path makes a round: it and all that follow.     *)
LEMMA RoundFound ==
  ASSUME TypeOK, NodesInv, work = {}, PathInv, path # << >>,
         NEW t \in Top(path).left, OnPath(t)
  PROVE  \E S \in SUBSET nodes : Round(S)
<1>. DEFINE n == Len(path)
<1>0. n \in Calls /\ n \in Nat /\ Top(path) = path[n]
  BY TopFrame DEF Calls
<1>1. t \in callees[Fn(n)] /\ t \in Addrs
  BY <1>0, TopFrame DEF PathInv, Fn, Frames
<1>2. PICK j \in Calls : Fn(j) = t
  BY <1>1 DEF PathInv, OnPath
<1>. DEFINE S == { Fn(k) : k \in j .. n }
<1>3. j \in 1 .. n /\ S \subseteq nodes /\ t \in S
  BY <1>0, <1>2 DEF PathInv, Calls
<1>4. ASSUME NEW k \in j .. n PROVE S \cap ScanCallees(Fn(k)) # {}
  <2>1. k \in Calls /\ callees[Fn(k)] = ScanCallees(Fn(k))
    BY <1>3, CalleesKnown DEF PathInv, Calls
  <2>2. CASE k = n
    BY <2>1, <2>2, <1>1, <1>3
  <2>3. CASE k # n
    <3>1. k \in 1 .. n - 1 /\ k + 1 \in j .. n
      BY <2>3, <1>0, <1>3
    <3>2. Fn(k + 1) \in callees[Fn(k)] /\ Fn(k + 1) \in S
      BY <3>1 DEF PathInv
    <3>. QED BY <2>1, <3>2
  <2>. QED BY <2>2, <2>3
<1>5. Round(S)
  BY <1>3, <1>4 DEF Round
<1>. QED BY <1>3, <1>5

LEMMA TryRecursive ==
  ASSUME IInv, NEW t \in Addrs, TryCallee(t), OnPath(t)
  PROVE  IInv'
<1>. USE DEF IInv
<1>1. work = {} /\ PathInv /\ BlackInv
  BY DEF TryCallee, NodesInv, SearchInv
<1>2. phase' = "recursive" /\ UNCHANGED << kind, calls, nodes, callees, work, mark, path, emitted >>
  BY DEF TryCallee
<1>3. NodesInv'
  BY <1>1, <1>2, GraphKept
<1>4. TypeOK'
  BY <1>2 DEF TypeOK, Phases
<1>5. PathInv' /\ BlackInv'
  BY <1>1, <1>2, PathKept, BlackKept
<1>6. \E S \in SUBSET nodes : Round(S)
  BY <1>1, RoundFound DEF TryCallee
<1>7. (\E S \in SUBSET nodes : Round(S))'
  BY <1>2, <1>6 DEF Round, ScanCallees
<1>8. SearchInv' /\ EndInv'
  BY <1>2, <1>5, <1>7 DEF SearchInv, EndInv
<1>. QED BY <1>3, <1>4, <1>8

(* A callee that is new: the search goes into it.                          *)
LEMMA TryWhite ==
  ASSUME IInv, NEW t \in Addrs, TryCallee(t), mark[t] = "white"
  PROVE  IInv'
<1>. USE DEF IInv
<1>. DEFINE n == Len(path)
            rest == Strike(path, t)
            q == Append(rest, [fn |-> t, left |-> callees[t]])
<1>1. work = {} /\ PathInv /\ BlackInv /\ phase = "search" /\ path # << >> /\ t \in Top(path).left
  BY DEF TryCallee, NodesInv, SearchInv
<1>2. /\ mark' = [mark EXCEPT ![t] = "gray"] /\ path' = q
      /\ UNCHANGED << kind, calls, phase, nodes, callees, work, emitted >>
  BY DEF TryCallee, OnPath, Strike
<1>3. path \in Seq(Frames) /\ n \in Nat \ {0} /\ Top(path) = path[n]
  BY <1>1, TopFrame DEF TypeOK, Frames
<1>4. /\ rest \in Seq(Frames) /\ Len(rest) = n
      /\ \A k \in 1 .. n : k # n => rest[k] = path[k]
      /\ rest[n].fn = Fn(n) /\ rest[n].left = path[n].left \ {t}
  BY <1>1, <1>3, StrikeOne DEF Fn
<1>5. [fn |-> t, left |-> callees[t]] \in Frames
  BY DEF TypeOK, Frames
<1>6. /\ q \in Seq(Frames) /\ Len(q) = n + 1
      /\ \A k \in 1 .. n : q[k] = rest[k]
      /\ q[n + 1] = [fn |-> t, left |-> callees[t]]
  <2>. HIDE DEF rest
  <2>. QED BY <1>3, <1>4, <1>5
<1>. HIDE DEF rest, q
<1>7. /\ \A k \in 1 .. n : q[k].fn = Fn(k)
      /\ \A k \in 1 .. n : k # n => q[k].left = path[k].left
      /\ q[n].left = path[n].left \ {t}
      /\ q[n + 1].fn = t /\ q[n + 1].left = callees[t]
  BY <1>3, <1>4, <1>6 DEF Fn
<1>8. t \in callees[Fn(n)] /\ t \in nodes
  <2>1. n \in Calls
    BY <1>3 DEF Calls
  <2>2. Fn(n) \in nodes /\ t \in callees[Fn(n)]
    BY <2>1, <1>1, <1>3 DEF PathInv
  <2>. QED BY <2>2, <1>1, CalleesKnown
<1>9. \A a \in Addrs : mark'[a] = IF a = t THEN "gray" ELSE mark[a]
  BY <1>2 DEF TypeOK
<1>10. Black' = Black
  BY <1>9 DEF Black
<1>11. \A k \in 1 .. n : Fn(k) # t /\ Fn(k) \in Addrs /\ mark'[Fn(k)] = "gray"
  BY <1>1, <1>9 DEF PathInv, Calls, TypeOK
<1>12. NodesInv'
  BY <1>1, <1>2, GraphKept
<1>13. TypeOK'
  BY <1>2, <1>6 DEF TypeOK, Frames
<1>14. PathInv'
  <2>. USE <1>2
  <2>1. ASSUME NEW k \in 1 .. n + 1
        PROVE  q[k].fn \in nodes /\ mark'[q[k].fn] = "gray" /\ q[k].left \subseteq callees[q[k].fn]
    <3>1. CASE k = n + 1
      BY <3>1, <1>7, <1>8, <1>9
    <3>2. CASE k \in 1 .. n
      BY <3>2, <1>1, <1>3, <1>7, <1>11 DEF PathInv, Calls
    <3>. QED BY <3>1, <3>2, <1>3
  <2>2. ASSUME NEW a \in Addrs, mark'[a] = "gray" PROVE \E k \in 1 .. n + 1 : q[k].fn = a
    <3>1. CASE a = t
      BY <3>1, <1>3, <1>7
    <3>2. CASE a # t
      <4>1. PICK k \in 1 .. n : Fn(k) = a
        BY <2>2, <3>2, <1>1, <1>9 DEF PathInv, Calls
      <4>. QED BY <4>1, <1>3, <1>7
    <3>. QED BY <3>1, <3>2
  <2>3. ASSUME NEW j \in 1 .. n + 1, NEW k \in 1 .. n + 1, q[j].fn = q[k].fn
        PROVE  j = k
    <3>1. CASE j \in 1 .. n /\ k \in 1 .. n
      BY <2>3, <3>1, <1>1, <1>7 DEF PathInv, Calls
    <3>2. \A i \in 1 .. n : q[i].fn # q[n + 1].fn
      BY <1>7, <1>11
    <3>3. CASE j = n + 1 \/ k = n + 1
      <4>1. j \notin 1 .. n /\ k \notin 1 .. n
        BY <2>3, <3>2, <3>3
      <4>. QED BY <4>1, <1>3
    <3>. QED BY <3>1, <3>3, <1>3
  <2>4. ASSUME NEW k \in 1 .. n PROVE q[k + 1].fn \in callees[q[k].fn]
    <3>1. CASE k = n
      BY <3>1, <1>3, <1>7, <1>8
    <3>2. CASE k # n
      BY <3>2, <1>1, <1>3, <1>7 DEF PathInv
    <3>. QED BY <3>1, <3>2
  <2>5. ASSUME NEW k \in 1 .. n + 1, NEW u \in callees[q[k].fn] \ q[k].left
        PROVE  u \in Black \/ (k < n + 1 /\ u = q[k + 1].fn)
    <3>1. CASE k = n + 1
      BY <3>1, <1>7, <2>5
    <3>2. CASE k = n
      BY <3>2, <1>1, <1>3, <1>7, <2>5 DEF PathInv, Calls
    <3>3. CASE k \in 1 .. n - 1
      BY <3>3, <1>1, <1>3, <1>7, <2>5 DEF PathInv, Calls
    <3>. QED BY <3>1, <3>2, <3>3, <1>3
  <2>6. q # << >> /\ q[1].fn = Entry
    BY <1>1, <1>3, <1>6, <1>7 DEF PathInv
  <2>7. Calls' = 1 .. n + 1 /\ Len(path') = n + 1 /\ n + 1 - 1 = n /\ \A k : Fn(k)' = q[k].fn
    BY <1>3, <1>6 DEF Calls, Fn
  <2>8. /\ \A k \in Calls' : /\ Fn(k)' \in nodes' /\ mark'[Fn(k)'] = "gray"
                              /\ path'[k].left \subseteq callees'[Fn(k)']
        /\ \A a \in Addrs : mark'[a] = "gray" => \E k \in Calls' : Fn(k)' = a
        /\ \A j, k \in Calls' : Fn(j)' = Fn(k)' => j = k
    BY <2>1, <2>2, <2>3, <2>7
  <2>9. /\ \A k \in 1 .. Len(path') - 1 : Fn(k + 1)' \in callees'[Fn(k)']
        /\ \A k \in Calls' : \A u \in callees'[Fn(k)'] \ path'[k].left :
             u \in Black' \/ (k < Len(path') /\ u = Fn(k + 1)')
        /\ path' # << >> /\ Fn(1)' = Entry
    <3>1. \A k \in 1 .. Len(path') - 1 : Fn(k + 1)' \in callees'[Fn(k)']
      BY <2>4, <2>7
    <3>2. ASSUME NEW k \in Calls', NEW u \in callees'[Fn(k)'] \ path'[k].left
          PROVE  u \in Black' \/ (k < Len(path') /\ u = Fn(k + 1)')
      BY <3>2, <2>5, <2>7, <1>10
    <3>. QED BY <3>1, <3>2, <2>6, <2>7
  <2>. QED BY <2>8, <2>9 DEF PathInv
<1>15. BlackInv'
  BY <1>1, <1>2, <1>10 DEF BlackInv, Round, ScanCallees
<1>16. SearchInv' /\ EndInv'
  BY <1>1, <1>2, <1>14, <1>15 DEF SearchInv, EndInv
<1>. QED BY <1>12, <1>13, <1>16

(* A callee that is done with.                                             *)
LEMMA TryBlack ==
  ASSUME IInv, NEW t \in Addrs, TryCallee(t), mark[t] = "black"
  PROVE  IInv'
<1>. USE DEF IInv
<1>. DEFINE n == Len(path)
            rest == Strike(path, t)
<1>1. work = {} /\ PathInv /\ BlackInv /\ phase = "search" /\ path # << >> /\ t \in Top(path).left
  BY DEF TryCallee, NodesInv, SearchInv
<1>2. path' = rest /\ UNCHANGED << kind, calls, phase, nodes, callees, work, emitted, mark >>
  BY DEF TryCallee, OnPath, Strike
<1>3. path \in Seq(Frames) /\ n \in Nat \ {0}
  BY <1>1, TopFrame DEF TypeOK, Frames
<1>4. /\ rest \in Seq(Frames) /\ Len(rest) = n
      /\ \A k \in 1 .. n : k # n => rest[k] = path[k]
      /\ rest[n].fn = Fn(n) /\ rest[n].left = path[n].left \ {t}
  BY <1>1, <1>3, StrikeOne DEF Fn
<1>. HIDE DEF rest
<1>5. /\ \A k \in 1 .. n : rest[k].fn = Fn(k)
      /\ \A k \in 1 .. n : rest[k].left \subseteq path[k].left
      /\ \A k \in 1 .. n : path[k].left \subseteq rest[k].left \cup {t}
  BY <1>3, <1>4 DEF Fn
<1>6. t \in Black /\ Black' = Black
  BY <1>2 DEF Black
<1>7. NodesInv'
  BY <1>1, <1>2, GraphKept
<1>8. TypeOK'
  BY <1>2, <1>4 DEF TypeOK, Frames
<1>9. PathInv'
  <2>. USE <1>2
  <2>1. \A k \in 1 .. n : /\ rest[k].fn \in nodes /\ mark[rest[k].fn] = "gray"
                          /\ rest[k].left \subseteq callees[rest[k].fn]
    BY <1>1, <1>5 DEF PathInv, Calls
  <2>2. \A a \in Addrs : mark[a] = "gray" => \E k \in 1 .. n : rest[k].fn = a
    BY <1>1, <1>5 DEF PathInv, Calls
  <2>3. \A j, k \in 1 .. n : rest[j].fn = rest[k].fn => j = k
    BY <1>1, <1>5 DEF PathInv, Calls
  <2>4. \A k \in 1 .. n - 1 : rest[k + 1].fn \in callees[rest[k].fn]
    BY <1>1, <1>3, <1>5 DEF PathInv
  <2>5. ASSUME NEW k \in 1 .. n, NEW u \in callees[rest[k].fn] \ rest[k].left
        PROVE  u \in Black \/ (k < n /\ u = rest[k + 1].fn)
    <3>1. u = t \/ u \in callees[Fn(k)] \ path[k].left
      BY <2>5, <1>5
    <3>2. u \in Black \/ (k < n /\ u = Fn(k + 1))
      BY <3>1, <1>1, <1>6 DEF PathInv, Calls
    <3>. QED BY <3>2, <1>3, <1>5
  <2>6. rest # << >> /\ rest[1].fn = Entry
    BY <1>1, <1>3, <1>4, <1>5 DEF PathInv
  <2>7. Calls' = 1 .. n /\ Len(path') = n /\ \A k : Fn(k)' = rest[k].fn
    BY <1>4 DEF Calls, Fn
  <2>8. /\ \A k \in Calls' : /\ Fn(k)' \in nodes' /\ mark'[Fn(k)'] = "gray"
                              /\ path'[k].left \subseteq callees'[Fn(k)']
        /\ \A a \in Addrs : mark'[a] = "gray" => \E k \in Calls' : Fn(k)' = a
        /\ \A j, k \in Calls' : Fn(j)' = Fn(k)' => j = k
    BY <2>1, <2>2, <2>3, <2>7
  <2>9. /\ \A k \in 1 .. Len(path') - 1 : Fn(k + 1)' \in callees'[Fn(k)']
        /\ \A k \in Calls' : \A u \in callees'[Fn(k)'] \ path'[k].left :
             u \in Black' \/ (k < Len(path') /\ u = Fn(k + 1)')
        /\ path' # << >> /\ Fn(1)' = Entry
    BY <2>4, <2>5, <2>6, <2>7, <1>6
  <2>. QED BY <2>8, <2>9 DEF PathInv
<1>10. BlackInv'
  BY <1>1, <1>2, <1>6 DEF BlackInv, Round, ScanCallees
<1>11. SearchInv' /\ EndInv'
  BY <1>1, <1>2, <1>9, <1>10 DEF SearchInv, EndInv
<1>. QED BY <1>7, <1>8, <1>11

----------------------------------------------------------------------------
(* The function that is left calls black functions only: it is in no round *)
(* with them.                                                              *)
LEMMA NoNewRound ==
  ASSUME TypeOK, NodesInv, work = {}, BlackInv, NEW a \in nodes, a \notin Black,
         callees[a] \subseteq Black, NEW S \in SUBSET (Black \cup {a})
  PROVE  ~Round(S)
<1>. SUFFICES ASSUME Round(S) PROVE FALSE
  OBVIOUS
<1>1. \A b \in Black \cup {a} : ScanCallees(b) = callees[b] /\ callees[b] \subseteq Black
  BY CalleesKnown DEF BlackInv
<1>2. \A b \in S : S \cap callees[b] # {}
  BY <1>1 DEF Round
<1>. DEFINE T == S \ {a}
<1>3. \A b \in S : T \cap ScanCallees(b) # {}
  BY <1>1, <1>2
<1>4. T # {} /\ T \subseteq Black
  BY <1>3 DEF Round
<1>5. Round(T)
  BY <1>3, <1>4 DEF Round
<1>. QED BY <1>4, <1>5 DEF BlackInv

LEMMA LeaveKeepsIInv ==
  ASSUME IInv, LeaveFunction
  PROVE  IInv'
<1>. USE DEF IInv
<1>. DEFINE n == Len(path)
            a == Fn(n)
<1>1. work = {} /\ PathInv /\ BlackInv /\ phase = "search" /\ path # << >> /\ Top(path).left = {}
  BY DEF LeaveFunction, NodesInv, SearchInv
<1>2. path \in Seq(Frames) /\ n \in Nat \ {0} /\ Top(path) = path[n] /\ n \in Calls
  BY <1>1, TopFrame DEF TypeOK, Frames, Calls
<1>3. /\ mark' = [mark EXCEPT ![a] = "black"] /\ path' = Pop(path)
      /\ UNCHANGED << kind, calls, phase, nodes, callees, work, emitted >>
  BY <1>2 DEF LeaveFunction, Fn
<1>4. a \in nodes /\ a \in Addrs /\ mark[a] = "gray" /\ callees[a] \subseteq Black
  <2>1. a \in nodes /\ mark[a] = "gray"
    BY <1>1, <1>2 DEF PathInv
  <2>2. path[n].left = {} /\ ~(n < n)
    BY <1>1, <1>2
  <2>3. \A u \in callees[a] : u \in Black
    BY <1>1, <1>2, <2>2 DEF PathInv
  <2>. QED BY <2>1, <2>3 DEF TypeOK
<1>5. path' \in Seq(Frames) /\ Len(path') = n - 1 /\ \A k \in 1 .. n - 1 : path'[k] = path[k]
  BY <1>1, <1>2, <1>3, PopOne
<1>6. \A b \in Addrs : mark'[b] = IF b = a THEN "black" ELSE mark[b]
  BY <1>3, <1>4 DEF TypeOK
<1>7. Black' = Black \cup {a} /\ a \notin Black
  BY <1>4, <1>6 DEF Black
<1>8. NodesInv'
  BY <1>1, <1>3, GraphKept
<1>9. TypeOK'
  BY <1>3, <1>4, <1>5 DEF TypeOK, Frames
<1>10. Fn(1) = Entry /\ mark[Entry] = "gray" /\ Entry \notin Black
  <2>1. 1 \in Calls
    BY <1>2 DEF Calls
  <2>. QED BY <2>1, <1>1 DEF PathInv, Black
<1>11. PathInv'
  <2>1. ASSUME NEW k \in 1 .. n - 1
        PROVE  /\ Fn(k)' = Fn(k) /\ k \in Calls /\ Fn(k) # a
               /\ Fn(k)' \in nodes /\ mark'[Fn(k)'] = "gray"
               /\ path'[k].left \subseteq callees[Fn(k)']
    <3>1. Fn(k)' = Fn(k) /\ k \in Calls /\ k # n
      BY <1>2, <1>5 DEF Fn, Calls
    <3>2. Fn(k) # a
      BY <3>1, <1>1, <1>2 DEF PathInv
    <3>3. Fn(k) \in Addrs /\ mark'[Fn(k)] = "gray"
      BY <3>1, <3>2, <1>1, <1>6 DEF PathInv, TypeOK
    <3>. QED BY <3>1, <3>2, <3>3, <1>1, <1>5 DEF PathInv
  <2>2. ASSUME NEW b \in Addrs, mark'[b] = "gray" PROVE \E k \in 1 .. n - 1 : Fn(k)' = b
    <3>1. b # a /\ mark[b] = "gray"
      BY <2>2, <1>6
    <3>2. PICK k \in Calls : Fn(k) = b
      BY <3>1, <1>1 DEF PathInv
    <3>3. k \in 1 .. n - 1
      BY <3>1, <3>2, <1>2 DEF Calls
    <3>. QED BY <3>2, <3>3, <2>1
  <2>3. \A j, k \in 1 .. n - 1 : Fn(j)' = Fn(k)' => j = k
    BY <2>1, <1>1 DEF PathInv
  <2>4. ASSUME NEW k \in 1 .. n - 2 PROVE Fn(k + 1)' \in callees[Fn(k)']
    <3>1. k \in 1 .. n - 1 /\ k + 1 \in 1 .. n - 1
      BY <1>2
    <3>. QED BY <3>1, <2>1, <1>1 DEF PathInv
  <2>5. ASSUME NEW k \in 1 .. n - 1, NEW u \in callees[Fn(k)'] \ path'[k].left
        PROVE  u \in Black' \/ (k < n - 1 /\ u = Fn(k + 1)')
    <3>1. u \in Black \/ u = Fn(k + 1)
      BY <2>1, <2>5, <1>1, <1>5 DEF PathInv
    <3>2. CASE k = n - 1
      BY <3>1, <3>2, <1>2, <1>7
    <3>3. CASE k # n - 1
      <4>1. k + 1 \in 1 .. n - 1 /\ k < n - 1
        BY <3>3, <1>2
      <4>. QED BY <4>1, <3>1, <2>1, <1>7
    <3>. QED BY <3>2, <3>3
  <2>6. path' # << >> => Fn(1)' = Entry
    <3>. SUFFICES ASSUME path' # << >> PROVE Fn(1)' = Entry
      OBVIOUS
    <3>1. 1 \in 1 .. n - 1
      BY <1>2, <1>5
    <3>. QED BY <3>1, <2>1, <1>10
  <2>7. path' = << >> => mark'[Entry] = "black"
    <3>. SUFFICES ASSUME path' = << >> PROVE mark'[Entry] = "black"
      OBVIOUS
    <3>1. n = 1
      BY <1>2, <1>5
    <3>. QED BY <3>1, <1>6, <1>10
  <2>8. Calls' = 1 .. n - 1 /\ Len(path') = n - 1 /\ n - 1 - 1 = n - 2
    BY <1>2, <1>5 DEF Calls
  <2>9. \A k \in 1 .. n - 1 : Fn(k)' = Fn(k)
    BY <2>1
  <2>10. /\ \A k \in Calls' : /\ Fn(k)' \in nodes' /\ mark'[Fn(k)'] = "gray"
                               /\ path'[k].left \subseteq callees'[Fn(k)']
         /\ \A b \in Addrs : mark'[b] = "gray" => \E k \in Calls' : Fn(k)' = b
         /\ \A j, k \in Calls' : Fn(j)' = Fn(k)' => j = k
    BY <2>1, <2>2, <2>3, <2>8, <1>3
  <2>11. /\ \A k \in 1 .. Len(path') - 1 : Fn(k + 1)' \in callees'[Fn(k)']
         /\ \A k \in Calls' : \A u \in callees'[Fn(k)'] \ path'[k].left :
              u \in Black' \/ (k < Len(path') /\ u = Fn(k + 1)')
    BY <2>4, <2>5, <2>8, <1>3
  <2>. QED BY <2>6, <2>7, <2>10, <2>11 DEF PathInv
<1>12. BlackInv'
  <2>1. Black' \subseteq nodes
    BY <1>1, <1>4, <1>7 DEF BlackInv
  <2>2. \A b \in Black' : callees[b] \subseteq Black' /\ Entry \notin callees[b]
    BY <1>1, <1>4, <1>7, <1>10 DEF BlackInv
  <2>3. \A S \in SUBSET Black' : ~Round(S)
    BY <1>1, <1>4, <1>7, NoNewRound
  <2>. QED BY <2>1, <2>2, <2>3, <1>3 DEF BlackInv, Round, ScanCallees
<1>13. SearchInv' /\ EndInv'
  BY <1>1, <1>3, <1>11, <1>12 DEF SearchInv, EndInv
<1>. QED BY <1>8, <1>9, <1>13

----------------------------------------------------------------------------
LEMMA EmitKeepsIInv ==
  ASSUME IInv, Emit
  PROVE  IInv'
<1>. USE DEF IInv, Emit
<1>1. work = {} /\ PathInv /\ BlackInv
  BY DEF NodesInv, SearchInv
<1>2. NodesInv'
  BY <1>1, GraphKept
<1>3. TypeOK'
  BY DEF TypeOK, Phases
<1>4. PathInv' /\ BlackInv'
  BY <1>1, PathKept, BlackKept
<1>5. SearchInv' /\ EndInv'
  BY <1>4 DEF SearchInv, EndInv
<1>. QED BY <1>2, <1>3, <1>5

LEMMA StutterKeepsIInv ==
  ASSUME IInv, UNCHANGED vars
  PROVE  IInv'
<1>. USE DEF IInv, vars
<1>1. TypeOK'
  BY DEF TypeOK
<1>2. NodesInv'
  <2>1. phase \in { "search", "done", "recursive" } => work = {}
    BY DEF NodesInv
  <2>. QED BY <2>1, GraphKept
<1>3. PathInv /\ BlackInv => PathInv' /\ BlackInv'
  BY PathKept, BlackKept
<1>4. SearchInv'
  BY <1>3 DEF SearchInv
<1>5. EndInv'
  BY DEF EndInv, Round, ScanCallees
<1>. QED BY <1>1, <1>2, <1>4, <1>5

(* The inductive invariant holds in every state.                           *)
THEOREM InductiveInvariant == Spec => []IInv
<1>1. ASSUME IInv, [Next]_vars PROVE IInv'
  <2>1. ASSUME NEW a \in Addrs, Collect(a) PROVE IInv'
    BY <1>1, <2>1, CollectKeepsIInv
  <2>2. ASSUME NEW t \in Addrs, TryCallee(t) PROVE IInv'
    <3>1. mark[t] \in {"white", "gray", "black"}
      BY <1>1 DEF IInv, TypeOK
    <3>. QED BY <1>1, <2>2, <3>1, TryRecursive, TryWhite, TryBlack DEF OnPath
  <2>3. CASE StartSearch
    BY <1>1, <2>3, StartKeepsIInv
  <2>4. CASE LeaveFunction
    BY <1>1, <2>4, LeaveKeepsIInv
  <2>5. CASE Emit
    BY <1>1, <2>5, EmitKeepsIInv
  <2>6. CASE UNCHANGED vars
    BY <1>1, <2>6, StutterKeepsIInv
  <2>. QED BY <1>1, <2>1, <2>2, <2>3, <2>4, <2>5, <2>6 DEF Next, Work
<1>. QED BY <1>1, InitIInv, PTL DEF Spec

----------------------------------------------------------------------------
(* The translator's tables and its search keep their types.                *)
THEOREM TypeCorrect == Spec => []TypeOK
<1>1. IInv => TypeOK
  BY DEF IInv
<1>. QED BY <1>1, InductiveInvariant, PTL

(* The list has what can be called; when nothing is left to scan, all.     *)
LEMMA NodesCallable ==
  ASSUME IInv
  PROVE  nodes \subseteq Callable /\ (work = {} => Callable = nodes)
<1>. USE DEF IInv
<1>1. nodes \subseteq Callable
  BY DEF NodesInv, ClosedSet, Callable, TypeOK
<1>2. ASSUME work = {} PROVE Callable \subseteq nodes
  BY <1>2 DEF NodesInv, Scanned, Callable, TypeOK
<1>. QED BY <1>1, <1>2

(* The module that is emitted has exactly the functions that the kernel    *)
(* can come to call.                                                       *)
THEOREM ClosureIsExact == Spec => []ClosureExact
<1>1. IInv => ClosureExact
  <2>. SUFFICES ASSUME IInv, phase = "done" PROVE emitted \cup {Entry} = Callable
    BY DEF ClosureExact
  <2>1. Entry \in nodes /\ work = {} /\ emitted = nodes \ {Entry}
    BY DEF IInv, NodesInv, EndInv
  <2>. QED BY <2>1, NodesCallable
<1>. QED BY <1>1, InductiveInvariant, PTL

(* When the search is over every function of the list is black.            *)
LEMMA AllBlack ==
  ASSUME IInv, phase = "done"
  PROVE  work = {} /\ nodes \subseteq Black /\ BlackInv
<1>. USE DEF IInv
<1>1. work = {} /\ PathInv /\ BlackInv /\ path = << >>
  BY DEF NodesInv, SearchInv, EndInv
<1>2. Black \subseteq Addrs /\ Entry \in Black
  BY <1>1 DEF PathInv, Black
<1>3. \A s \in Black : ScanCallees(s) \subseteq Black
  BY <1>1, CalleesKnown DEF BlackInv
<1>4. ClosedSet(Black)
  BY <1>2, <1>3 DEF ClosedSet
<1>. QED BY <1>1, <1>2, <1>4 DEF NodesInv

(* The emitter knows a name for every call in the functions it emits.      *)
THEOREM EveryCallNamed == Spec => []CallsNamed
<1>1. IInv => CallsNamed
  <2>. SUFFICES ASSUME IInv, phase = "done", NEW a \in emitted \cup {Entry}, NEW t \in calls[a],
                       kind[t] # "builtin"
                PROVE  t \in emitted /\ kind[t] = "code"
    BY DEF CallsNamed
  <2>. USE DEF IInv
  <2>1. a \in nodes /\ a \in Black /\ work = {} /\ BlackInv /\ emitted = nodes \ {Entry}
    BY AllBlack DEF EndInv, NodesInv
  <2>2. Scanned(a) /\ t \in ScanCallees(a)
    BY <2>1 DEF NodesInv, ScanCallees
  <2>3. t \in nodes /\ t # Entry
    BY <2>1, <2>2 DEF Scanned, BlackInv
  <2>. QED BY <2>1, <2>3 DEF NodesInv
<1>. QED BY <1>1, InductiveInvariant, PTL

(* The depth-first search finds recursion exactly where it is.             *)
THEOREM RecursionIsExact == Spec => []RecursionExact
<1>1. IInv => RecursionExact
  <2>. SUFFICES ASSUME IInv PROVE RecursionExact
    OBVIOUS
  <2>1. ASSUME phase = "done", NEW S \in SUBSET Callable PROVE ~Round(S)
    <3>1. Callable \subseteq Black /\ BlackInv
      BY <2>1, AllBlack, NodesCallable
    <3>. QED BY <3>1 DEF BlackInv
  <2>2. ASSUME phase = "recursive" PROVE \E S \in SUBSET Callable : Round(S)
    <3>1. PICK S \in SUBSET nodes : Round(S)
      BY <2>2 DEF IInv, EndInv
    <3>. QED BY <3>1, NodesCallable
  <2>. QED BY <2>1, <2>2 DEF RecursionExact
<1>. QED BY <1>1, InductiveInvariant, PTL
=============================================================================
