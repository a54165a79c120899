-------------------------- MODULE PtxCache_proofs --------------------------
(***************************************************************************)
(* For every number of translator runs, options and rebuilds of the ELF,   *)
(* and any number of kills, short writes and meta files that do not come   *)
(* into place.  What is said of a hit is said of runs that are at work one *)
(* at a time: MaxActive <= 1.                                              *)
(***************************************************************************)
EXTENDS PtxCache, FiniteSetTheorems, TLAPS

USE DEF Times, Keys, Halves, Fault, faults

----------------------------------------------------------------------------
(* Types.                                                                  *)

Writing == { "half", "rest", "note" }

(* A run writes to a file that it has opened.                              *)
Output == [Halves -> Texts]

Opened == \A p \in Runs : pc[p] \in Writing => ptx \in Output

TypeInv == TypeOK /\ Opened

LEMMA WholeType ==
  ASSUME NEW t \in Texts
  PROVE  Whole(t) \in Output /\ \A h \in Halves : Whole(t)[h] = t
BY DEF Whole, Output

LEMMA BlankType == Blank \in Texts
BY DEF Blank, Texts

LEMMA InitTypeInv == Init => TypeInv
<1>. SUFFICES ASSUME Init PROVE TypeInv
  OBVIOUS
<1>1. /\ elf \in Times /\ kills \in 0 .. MaxKills
      /\ shorts \in 0 .. MaxShort /\ unnoted \in 0 .. MaxUnnoted
  BY PtxCacheAssumption DEF Init
<1>2. pc \in [Runs -> Labels] /\ text \in [Runs -> Texts]
  BY BlankType DEF Init, Labels
<1>3. key \in [Runs -> Keys]
  <2>1. {[time |-> 1, option |-> o] : o \in Options} \subseteq Keys
    BY PtxCacheAssumption
  <2>. QED BY <2>1 DEF Init
<1>4. uncached \in [Runs -> BOOLEAN]
  BY PtxCacheAssumption DEF Init
<1>5. Opened
  BY DEF Init, Opened, Writing
<1>. QED BY <1>1, <1>2, <1>3, <1>4, <1>5 DEF Init, TypeInv, TypeOK

(* Where a run goes, and that the others stay.                             *)
LEMMA GotoOne ==
  ASSUME TypeOK, NEW p \in Runs, NEW l \in Labels, Goto(p, l)
  PROVE  /\ pc' \in [Runs -> Labels]
         /\ pc'[p] = l
         /\ \A q \in Runs : q # p => pc'[q] = pc[q]
BY DEF TypeOK, Goto

(* A step of a run: where it can go, and which variables it can write.     *)
LEMMA StepLabels ==
  ASSUME TypeOK, NEW p \in Runs, Step(p) \/ Fault(p)
  PROVE  /\ pc' \in [Runs -> Labels]
         /\ \A q \in Runs : q # p => pc'[q] = pc[q]
         /\ elf' = elf /\ uncached' = uncached
<1>1. \E l \in Labels : Goto(p, l)
  <2>1. { "look", "meta", "sections", "symbols", "global", "open", "half", "rest", "note", "hit", "new",
          "dead" } \subseteq Labels
    BY DEF Labels
  <2>2. CASE Start(p) \/ Look(p) \/ ReadMeta(p)
    BY <2>1, <2>2 DEF Start, Look, ReadMeta
  <2>3. CASE ReadSections(p) \/ ReadSymbols(p) \/ ReadGlobal(p) \/ GiveUp(p)
    BY <2>1, <2>3 DEF ReadSections, ReadSymbols, ReadGlobal, GiveUp
  <2>4. CASE OpenOut(p) \/ WriteHalf(p) \/ WriteRest(p) \/ NoteMeta(p)
    BY <2>1, <2>4 DEF OpenOut, WriteHalf, WriteRest, NoteMeta, AfterWrite
  <2>5. CASE Fault(p)
    BY <2>1, <2>5 DEF WriteShort, NoteShort, NoteFails, Kill, AfterWrite
  <2>. QED BY <2>2, <2>3, <2>4, <2>5 DEF Step
<1>2. elf' = elf /\ uncached' = uncached
  BY DEF Step, Start, Look, ReadMeta, ReadSections, ReadSymbols, ReadGlobal, GiveUp, OpenOut,
     WriteHalf, WriteRest, NoteMeta, WriteShort, NoteShort, NoteFails, Kill
<1>. QED BY <1>1, <1>2, GotoOne

LEMMA KeyKept ==
  ASSUME TypeOK, NEW p \in Runs, Step(p) \/ Fault(p)
  PROVE  key' \in [Runs -> Keys]
<1>1. CASE Start(p)
  <2>1. key' = [key EXCEPT ![p].time = elf]
    BY <1>1 DEF Start
  <2>. QED BY <2>1 DEF TypeOK
<1>2. CASE ~Start(p)
  <2>1. key' = key
    BY <1>2 DEF Step, Look, ReadMeta, ReadSections, ReadSymbols, ReadGlobal, GiveUp, OpenOut,
       WriteHalf, WriteRest, NoteMeta, WriteShort, NoteShort, NoteFails, Kill
  <2>. QED BY <2>1 DEF TypeOK
<1>. QED BY <1>1, <1>2

LEMMA TextKept ==
  ASSUME TypeOK, NEW p \in Runs, Step(p) \/ Fault(p)
  PROVE  text' \in [Runs -> Texts]
<1>1. CASE ReadSections(p)
  <2>1. text' = [text EXCEPT ![p] = [@ EXCEPT !.sections = elf, !.option = key[p].option]]
    BY <1>1 DEF ReadSections, TypeOK
  <2>2. [text[p] EXCEPT !.sections = elf, !.option = key[p].option] \in Texts
    BY DEF TypeOK, Texts
  <2>. QED BY <2>1, <2>2 DEF TypeOK
<1>2. CASE ReadSymbols(p)
  <2>1. text' = [text EXCEPT ![p] = [@ EXCEPT !.symbols = elf]]
    BY <1>2 DEF ReadSymbols
  <2>2. [text[p] EXCEPT !.symbols = elf] \in Texts
    BY DEF TypeOK, Texts
  <2>. QED BY <2>1, <2>2 DEF TypeOK
<1>3. CASE ReadGlobal(p)
  <2>1. text' = [text EXCEPT ![p] = [@ EXCEPT !.global = elf]]
    BY <1>3 DEF ReadGlobal
  <2>2. [text[p] EXCEPT !.global = elf] \in Texts
    BY DEF TypeOK, Texts
  <2>. QED BY <2>1, <2>2 DEF TypeOK
<1>4. CASE ~ReadSections(p) /\ ~ReadSymbols(p) /\ ~ReadGlobal(p)
  <2>1. text' = text
    BY <1>4 DEF Step, Start, Look, ReadMeta, GiveUp, OpenOut, WriteHalf, WriteRest, NoteMeta,
       WriteShort, NoteShort, NoteFails, Kill
  <2>. QED BY <2>1 DEF TypeOK
<1>. QED BY <1>1, <1>2, <1>3, <1>4

(* The output file, once there, stays.                                     *)
LEMMA OutputKept ==
  ASSUME TypeInv, NEW p \in Runs, Step(p) \/ Fault(p)
  PROVE  /\ ptx' \in Output \cup {None}
         /\ ptx \in Output => ptx' \in Output
         /\ pc'[p] \in Writing => ptx' \in Output
         /\ meta' \in Keys \cup {None, Cut}
         /\ kills' \in 0 .. MaxKills /\ shorts' \in 0 .. MaxShort /\ unnoted' \in 0 .. MaxUnnoted
<1>. USE DEF TypeInv
<1>1. meta' \in Keys \cup {None, Cut}
  BY DEF TypeOK, Step, Start, Look, ReadMeta, ReadSections, ReadSymbols, ReadGlobal, GiveUp,
     OpenOut, WriteHalf, WriteRest, NoteMeta, WriteShort, NoteShort, NoteFails, Kill
<1>2. kills' \in 0 .. MaxKills /\ shorts' \in 0 .. MaxShort /\ unnoted' \in 0 .. MaxUnnoted
  <2>1. /\ kills' = kills \/ (kills < MaxKills /\ kills' = kills + 1)
        /\ shorts' = shorts \/ (shorts < MaxShort /\ shorts' = shorts + 1)
        /\ unnoted' = unnoted \/ (unnoted < MaxUnnoted /\ unnoted' = unnoted + 1)
    BY DEF Step, Start, Look, ReadMeta, ReadSections, ReadSymbols, ReadGlobal, GiveUp, OpenOut,
       WriteHalf, WriteRest, NoteMeta, WriteShort, NoteShort, NoteFails, Kill
  <2>. QED BY <2>1, PtxCacheAssumption DEF TypeOK
<1>3. CASE OpenOut(p)
  <2>1. ptx' \in Output
    BY <1>3, WholeType, BlankType DEF OpenOut
  <2>. QED BY <1>1, <1>2, <2>1
<1>4. CASE WriteHalf(p) \/ WriteRest(p)
  <2>1. ptx \in Output
    BY <1>4 DEF WriteHalf, WriteRest, Opened, Writing, TypeOK
  <2>2. \E h \in Halves : ptx' = [ptx EXCEPT ![h] = text[p]]
    BY <1>4 DEF WriteHalf, WriteRest
  <2>3. ptx' \in Output
    BY <2>1, <2>2 DEF TypeOK, Output
  <2>. QED BY <1>1, <1>2, <2>3
<1>5. CASE ~OpenOut(p) /\ ~WriteHalf(p) /\ ~WriteRest(p)
  <2>1. ptx' = ptx
    BY <1>5 DEF Step, Start, Look, ReadMeta, ReadSections, ReadSymbols, ReadGlobal, GiveUp,
       NoteMeta, WriteShort, NoteShort, NoteFails, Kill
  <2>2. pc'[p] \in Writing => pc[p] \in Writing
    BY <1>5 DEF TypeOK, Step, Start, Look, ReadMeta, ReadSections, ReadSymbols, ReadGlobal, GiveUp,
       NoteMeta, WriteShort, NoteShort, NoteFails, Kill, Goto, Writing, AfterWrite
  <2>. QED BY <1>1, <1>2, <2>1, <2>2 DEF TypeOK, Opened, Output
<1>. QED BY <1>3, <1>4, <1>5

LEMMA NextTypeInv ==
  ASSUME TypeInv, [Next]_vars
  PROVE  TypeInv'
<1>1. CASE Rebuild
  <2>1. elf' \in Times /\ UNCHANGED << ptx, meta, pc, key, uncached, text, kills, shorts, unnoted >>
    BY <1>1, PtxCacheAssumption DEF Rebuild, TypeInv, TypeOK
  <2>. QED BY <2>1 DEF TypeInv, TypeOK, Opened
<1>2. CASE Stopped \/ UNCHANGED vars
  BY <1>2 DEF Stopped, vars, TypeInv, TypeOK, Opened
<1>3. ASSUME NEW p \in Runs, Step(p) \/ Fault(p) PROVE TypeInv'
  <2>1. TypeOK /\ Opened
    BY DEF TypeInv
  <2>2. TypeOK'
    <3>1. pc' \in [Runs -> Labels] /\ elf' \in Times /\ uncached' \in [Runs -> BOOLEAN]
      BY <1>3, <2>1, StepLabels DEF TypeOK
    <3>2. key' \in [Runs -> Keys] /\ text' \in [Runs -> Texts]
      BY <1>3, <2>1, KeyKept, TextKept
    <3>. QED BY <1>3, <3>1, <3>2, OutputKept DEF TypeOK, Output
  <2>3. Opened'
    BY <1>3, <2>1, StepLabels, OutputKept DEF Opened
  <2>. QED BY <2>2, <2>3 DEF TypeInv
<1>. QED BY <1>1, <1>2, <1>3 DEF Next

(* The files, the keys and the texts of the runs keep their types.         *)
THEOREM TypeCorrect == Spec => []TypeOK
<1>1. TypeInv /\ [Next]_vars => TypeInv'
  BY NextTypeInv
<1>2. TypeInv => TypeOK
  BY DEF TypeInv
<1>. QED BY <1>1, <1>2, InitTypeInv, PTL DEF Spec

----------------------------------------------------------------------------
(* Runs one at a time: the invariant.                                      *)

Alone == \A p, q \in Runs : Active(p) /\ Active(q) => p = q

(* A piece of text was made of no older, of no newer version than n.       *)
NoOlder(t, n) == t = Blank \/ (n <= t.sections /\ n <= t.symbols /\ n <= t.global)
NoNewer(t, n) == t = Blank \/ (t.sections <= n /\ t.symbols <= n /\ t.global <= n)

(* Versions in the files: the meta file is never newer than the PTX.       *)
FileInv ==
  /\ meta \in Keys => meta.time <= elf
  /\ ptx \in Output => \A h \in Halves : NoNewer(ptx[h], elf)
  /\ meta \in Keys /\ ptx \in Output => \A h \in Halves : NoOlder(ptx[h], meta.time)

(* Versions in a run at work, and between it and the files.                *)
Reading  == { "look", "meta" }
HasText  == { "symbols", "global", "open", "half", "rest", "note" }
HasBoth  == { "global", "open", "half", "rest", "note" }
HasAll   == { "open", "half", "rest", "note" }

RunInv(p) ==
  /\ Active(p) => key[p].time <= elf /\ (meta \in Keys => meta.time <= key[p].time)
  /\ pc[p] \in Reading /\ ptx \in Output => \A h \in Halves : NoNewer(ptx[h], key[p].time)
  /\ pc[p] = "meta" => ptx \in Output
  /\ pc[p] \in HasText => /\ text[p].option = key[p].option
                          /\ key[p].time <= text[p].sections /\ text[p].sections <= elf
  /\ pc[p] \in HasBoth => key[p].time <= text[p].symbols /\ text[p].symbols <= elf
  /\ pc[p] \in HasAll => key[p].time <= text[p].global /\ text[p].global <= elf
  /\ pc[p] \in Writing => \A h \in Halves : NoOlder(ptx[h], key[p].time)

IInv == TypeInv /\ Alone /\ FileInv /\ \A p \in Runs : RunInv(p)

----------------------------------------------------------------------------
LEMMA InitIInv == Init => IInv
<1>. SUFFICES ASSUME Init PROVE IInv
  OBVIOUS
<1>1. \A p \in Runs : pc[p] = "idle" /\ ~Active(p)
  BY DEF Init, Active
<1>2. Alone /\ \A p \in Runs : RunInv(p)
  BY <1>1 DEF Alone, RunInv, Reading, HasText, HasBoth, HasAll, Writing
<1>3. FileInv
  BY NoneAssumption DEF Init, FileInv, Output
<1>. QED BY <1>2, <1>3, InitTypeInv DEF IInv

----------------------------------------------------------------------------
(* A step of a run leaves the runs that are not at work as they are.       *)

(* A run that starts when there is room for one is the only one.           *)
LEMMA StartsAlone ==
  ASSUME MaxActive <= 1, NEW p \in Runs, Start(p)
  PROVE  \A q \in Runs : ~Active(q)
<1>. DEFINE A == { q \in Runs : Active(q) }
<1>1. IsFiniteSet(A)
  BY PtxCacheAssumption, FS_Subset
<1>2. Cardinality(A) \in Nat /\ Cardinality(A) < 1
  BY <1>1, PtxCacheAssumption, FS_CardinalityType DEF Start
<1>3. A = {}
  BY <1>1, <1>2, FS_EmptySet
<1>. QED BY <1>3

LEMMA OthersIdle ==
  ASSUME MaxActive <= 1, TypeOK, Alone, NEW p \in Runs, Step(p) \/ Fault(p)
  PROVE  /\ \A q \in Runs : q # p => ~Active(q) /\ ~Active(q)'
         /\ Alone'
<1>1. \A q \in Runs : q # p => ~Active(q)
  <2>1. CASE Start(p)
    BY <2>1, StartsAlone
  <2>2. CASE ~Start(p)
    <3>1. Active(p)
      BY <2>2 DEF Active, Step, Look, ReadMeta, ReadSections, ReadSymbols, ReadGlobal, GiveUp,
         OpenOut, WriteHalf, WriteRest, NoteMeta, WriteShort, NoteShort, NoteFails, Kill
    <3>. QED BY <3>1 DEF Alone
  <2>. QED BY <2>1, <2>2
<1>2. \A q \in Runs : q # p => ~Active(q)'
  BY <1>1, StepLabels DEF Active
<1>. QED BY <1>1, <1>2 DEF Alone

(* Nothing is asked of a run that is not at work.                          *)
LEMMA IdleRun ==
  ASSUME NEW p \in Runs, ~Active(p)'
  PROVE  RunInv(p)'
BY DEF RunInv, Active, Reading, HasText, HasBoth, HasAll, Writing

----------------------------------------------------------------------------
(* Each step keeps the invariant on the files and on its run.              *)

LEMMA Numbers ==
  ASSUME TypeOK, NEW p \in Runs
  PROVE  /\ elf \in Nat /\ key[p].time \in Nat \ {0} /\ key[p] \in Keys
         /\ meta \in Keys => meta.time \in Nat \ {0}
         /\ text[p] \in Texts /\ text[p].sections \in Nat /\ text[p].symbols \in Nat
         /\ text[p].global \in Nat
         /\ ptx \in Output => \A h \in Halves : ptx[h] \in Texts /\ ptx[h].sections \in Nat
                                            /\ ptx[h].symbols \in Nat /\ ptx[h].global \in Nat
<1>1. elf \in Nat /\ key[p] \in Keys /\ text[p] \in Texts
  BY DEF TypeOK
<1>2. \A k \in Keys : k.time \in Nat \ {0}
  OBVIOUS
<1>3. \A t \in Texts : t.sections \in Nat /\ t.symbols \in Nat /\ t.global \in Nat
  BY DEF Texts
<1>. QED BY <1>1, <1>2, <1>3 DEF Output

(* A later version is newer than all that was made before.                 *)
LEMMA RebuildKeeps ==
  ASSUME IInv, Rebuild
  PROVE  IInv'
<1>. USE DEF IInv, TypeInv
<1>1. elf' = elf + 1 /\ UNCHANGED << ptx, meta, pc, key, uncached, text, kills, shorts, unnoted >>
  BY DEF Rebuild
<1>2. TypeInv'
  BY NextTypeInv DEF Next
<1>3. Alone'
  BY <1>1 DEF Alone, Active
<1>4. elf \in Nat /\ elf <= elf'
  BY <1>1 DEF TypeOK
<1>5. FileInv'
  <2>1. meta \in Keys => meta.time <= elf'
    BY <1>4, <1>1 DEF FileInv, TypeOK
  <2>2. ptx \in Output => \A h \in Halves : NoNewer(ptx[h], elf')
    <3>. SUFFICES ASSUME ptx \in Output, NEW h \in Halves PROVE NoNewer(ptx[h], elf')
      OBVIOUS
    <3>1. ptx[h].sections \in Nat /\ ptx[h].symbols \in Nat /\ ptx[h].global \in Nat
      BY DEF Output, Texts
    <3>. QED BY <3>1, <1>1, <1>4 DEF FileInv, NoNewer
  <2>. QED BY <1>1, <2>1, <2>2 DEF FileInv, NoNewer, NoOlder
<1>6. ASSUME NEW p \in Runs PROVE RunInv(p)'
  <2>1. RunInv(p)
    OBVIOUS
  <2>2. /\ key[p].time \in Nat /\ text[p].sections \in Nat /\ text[p].symbols \in Nat
        /\ text[p].global \in Nat
    BY Numbers
  <2>3. /\ Active(p) => key[p].time <= elf'
        /\ pc[p] \in HasText => text[p].sections <= elf'
        /\ pc[p] \in HasBoth => text[p].symbols <= elf'
        /\ pc[p] \in HasAll => text[p].global <= elf'
    BY <2>1, <2>2, <1>1, <1>4 DEF RunInv
  <2>. QED BY <2>1, <2>3, <1>1 DEF RunInv, Active, NoNewer, NoOlder
<1>. QED BY <1>2, <1>3, <1>5, <1>6

LEMMA StartKeeps ==
  ASSUME TypeInv, FileInv, NEW p \in Runs, Start(p)
  PROVE  FileInv' /\ RunInv(p)'
<1>. USE DEF TypeInv
<1>1. pc'[p] \in { "look", "sections" } /\ key'[p].time = elf /\ UNCHANGED << elf, ptx, meta, text >>
  BY DEF Start, Goto, TypeOK
<1>2. elf \in Nat
  BY Numbers
<1>3. FileInv'
  BY <1>1 DEF FileInv, NoNewer, NoOlder
<1>4. RunInv(p)'
  BY <1>1, <1>2 DEF RunInv, FileInv, NoNewer, Reading, HasText, HasBoth, HasAll, Writing
<1>. QED BY <1>3, <1>4

LEMMA LookKeeps ==
  ASSUME TypeInv, FileInv, NEW p \in Runs, RunInv(p), Look(p) \/ ReadMeta(p)
  PROVE  FileInv' /\ RunInv(p)'
<1>. USE DEF TypeInv
<1>1. /\ pc[p] \in Reading /\ pc'[p] \in { "meta", "sections", "hit" }
      /\ pc'[p] = "meta" => ptx \in Output
      /\ UNCHANGED << elf, ptx, meta, text, key >>
  BY DEF Look, ReadMeta, Goto, TypeOK, NonEmpty, Output, Reading
<1>2. Active(p)
  BY <1>1 DEF Active, Reading
<1>3. FileInv'
  BY <1>1 DEF FileInv, NoNewer, NoOlder
<1>4. RunInv(p)'
  BY <1>1, <1>2 DEF RunInv, NoNewer, Reading, HasText, HasBoth, HasAll, Writing
<1>. QED BY <1>3, <1>4

LEMMA ReadKeeps ==
  ASSUME TypeInv, FileInv, NEW p \in Runs, RunInv(p),
         ReadSections(p) \/ ReadSymbols(p) \/ ReadGlobal(p)
  PROVE  FileInv' /\ RunInv(p)'
<1>. USE DEF TypeInv
<1>1. Active(p) /\ UNCHANGED << elf, ptx, meta, key >>
  BY DEF ReadSections, ReadSymbols, ReadGlobal, Active
<1>2. FileInv'
  BY <1>1 DEF FileInv, NoNewer, NoOlder
<1>3. elf \in Nat /\ key[p].time <= elf /\ (meta \in Keys => meta.time <= key[p].time)
  BY <1>1, Numbers DEF RunInv
<1>4. CASE ReadSections(p)
  <2>1. pc'[p] = "symbols" /\ text'[p].sections = elf /\ text'[p].option = key[p].option
    BY <1>4 DEF ReadSections, Goto, TypeOK, Texts
  <2>. QED BY <1>1, <1>2, <1>3, <2>1 DEF RunInv, Reading, HasText, HasBoth, HasAll, Writing
<1>5. CASE ReadSymbols(p)
  <2>1. /\ pc[p] = "symbols" /\ pc'[p] = "global" /\ text'[p].symbols = elf
        /\ text'[p].sections = text[p].sections /\ text'[p].option = text[p].option
    BY <1>5 DEF ReadSymbols, Goto, TypeOK, Texts
  <2>2. text[p].option = key[p].option /\ key[p].time <= text[p].sections /\ text[p].sections <= elf
    BY <2>1 DEF RunInv, HasText
  <2>. QED BY <1>1, <1>2, <1>3, <2>1, <2>2 DEF RunInv, Reading, HasText, HasBoth, HasAll, Writing
<1>6. CASE ReadGlobal(p)
  <2>1. /\ pc[p] = "global" /\ pc'[p] = "open" /\ text'[p].global = elf
        /\ text'[p].sections = text[p].sections /\ text'[p].symbols = text[p].symbols
        /\ text'[p].option = text[p].option
    BY <1>6 DEF ReadGlobal, Goto, TypeOK, Texts
  <2>2. /\ text[p].option = key[p].option /\ key[p].time <= text[p].sections /\ text[p].sections <= elf
        /\ key[p].time <= text[p].symbols /\ text[p].symbols <= elf
    BY <2>1 DEF RunInv, HasText, HasBoth
  <2>. QED BY <1>1, <1>2, <1>3, <2>1, <2>2 DEF RunInv, Reading, HasText, HasBoth, HasAll, Writing
<1>. QED BY <1>4, <1>5, <1>6

(* What a run writes is no older than its key, and so than the meta file.  *)
LEMMA WriteKeeps ==
  ASSUME TypeInv, FileInv, NEW p \in Runs, RunInv(p),
         OpenOut(p) \/ WriteHalf(p) \/ WriteRest(p) \/ WriteShort(p)
  PROVE  FileInv' /\ RunInv(p)'
<1>. USE DEF TypeInv
<1>1. /\ pc[p] \in HasAll /\ Active(p) /\ pc'[p] \in { "half", "rest", "note", "new" }
      /\ UNCHANGED << elf, meta, key, text >>
  BY DEF OpenOut, WriteHalf, WriteRest, WriteShort, AfterWrite, Goto, TypeOK, Active, HasAll
<1>2. /\ elf \in Nat /\ key[p].time \in Nat /\ key[p].time <= elf
      /\ meta \in Keys => meta.time <= key[p].time /\ meta.time \in Nat
      /\ text[p].option = key[p].option
      /\ NoOlder(text[p], key[p].time) /\ NoNewer(text[p], elf)
      /\ key[p].time <= text[p].sections /\ text[p].sections <= elf
      /\ key[p].time <= text[p].symbols /\ text[p].symbols <= elf
      /\ key[p].time <= text[p].global /\ text[p].global <= elf
  BY <1>1, Numbers DEF RunInv, HasText, HasBoth, HasAll, NoOlder, NoNewer
<1>3. /\ ptx' \in Output
      /\ \A h \in Halves : NoOlder(ptx'[h], key[p].time) /\ NoNewer(ptx'[h], elf)
  <2>1. CASE OpenOut(p)
    BY <2>1, WholeType, BlankType DEF OpenOut, NoOlder, NoNewer
  <2>2. CASE ~OpenOut(p)
    <3>1. pc[p] \in Writing
      BY <2>2 DEF WriteHalf, WriteRest, WriteShort, Writing
    <3>2. ptx \in Output /\ \A h \in Halves : NoOlder(ptx[h], key[p].time) /\ NoNewer(ptx[h], elf)
      BY <3>1 DEF Opened, RunInv, FileInv
    <3>3. ptx' = ptx \/ \E h \in Halves : ptx' = [ptx EXCEPT ![h] = text[p]]
      BY <2>2 DEF WriteHalf, WriteRest, WriteShort
    <3>4. text[p] \in Texts
      BY DEF TypeOK
    <3>. QED BY <1>2, <3>2, <3>3, <3>4 DEF Output
  <2>. QED BY <2>1, <2>2
<1>4. meta \in Keys => \A h \in Halves : NoOlder(ptx'[h], meta.time)
  <2>. SUFFICES ASSUME meta \in Keys, NEW h \in Halves PROVE NoOlder(ptx'[h], meta.time)
    OBVIOUS
  <2>1. ptx'[h] \in Texts
    BY <1>3 DEF Output
  <2>2. ptx'[h].sections \in Nat /\ ptx'[h].symbols \in Nat /\ ptx'[h].global \in Nat
    BY <2>1 DEF Texts
  <2>. QED BY <1>2, <1>3, <2>2 DEF NoOlder
<1>5. FileInv'
  <2>1. (meta \in Keys => meta.time <= elf)'
    BY <1>1 DEF FileInv
  <2>. QED BY <1>1, <1>3, <1>4, <2>1 DEF FileInv, NoNewer, NoOlder
<1>6. RunInv(p)'
  BY <1>1, <1>2, <1>3 DEF RunInv, NoOlder, Reading, HasText, HasBoth, HasAll, Writing
<1>. QED BY <1>5, <1>6

(* The meta file comes last, so it is no newer than what was written.      *)
LEMMA NoteKeeps ==
  ASSUME TypeInv, FileInv, NEW p \in Runs, RunInv(p), NoteMeta(p)
  PROVE  FileInv' /\ RunInv(p)'
<1>. USE DEF TypeInv
<1>1. /\ pc[p] = "note" /\ Active(p) /\ pc'[p] = "new" /\ meta' = key[p]
      /\ UNCHANGED << elf, ptx, key, text >>
  BY DEF NoteMeta, Goto, TypeOK, Active
<1>2. key[p].time <= elf /\ \A h \in Halves : NoOlder(ptx[h], key[p].time)
  BY <1>1 DEF RunInv, Writing
<1>3. FileInv'
  BY <1>1, <1>2 DEF FileInv, NoNewer, NoOlder
<1>4. RunInv(p)'
  BY <1>1, IdleRun DEF Active
<1>. QED BY <1>3, <1>4

(* A run that ends early leaves the old meta file, or a cut one that       *)
(* matches no key.                                                         *)
LEMMA EndKeeps ==
  ASSUME TypeInv, FileInv, NEW p \in Runs,
         GiveUp(p) \/ NoteShort(p) \/ NoteFails(p) \/ Kill(p)
  PROVE  FileInv' /\ RunInv(p)'
<1>1. pc'[p] \in { "new", "dead" } /\ meta' \in {meta, Cut} /\ UNCHANGED << elf, ptx >>
  BY DEF TypeInv, GiveUp, NoteShort, NoteFails, Kill, Goto, TypeOK
<1>2. FileInv'
  BY <1>1, NoneAssumption DEF FileInv, NoNewer, NoOlder
<1>3. RunInv(p)'
  BY <1>1, IdleRun DEF Active
<1>. QED BY <1>2, <1>3

LEMMA NextIInv ==
  ASSUME MaxActive <= 1, IInv, [Next]_vars
  PROVE  IInv'
<1>1. CASE Rebuild
  BY <1>1, RebuildKeeps
<1>2. CASE Stopped \/ UNCHANGED vars
  <2>1. UNCHANGED << elf, ptx, meta, pc, key, text >>
    BY <1>2 DEF Stopped, vars
  <2>2. TypeInv'
    BY NextTypeInv DEF IInv
  <2>3. FileInv'
    BY <2>1 DEF IInv, FileInv, NoNewer, NoOlder
  <2>4. \A p \in Runs : RunInv(p)'
    BY <2>1 DEF IInv, RunInv, Active, NoNewer, NoOlder
  <2>5. Alone'
    BY <2>1 DEF IInv, Alone, Active
  <2>. QED BY <2>2, <2>3, <2>4, <2>5 DEF IInv
<1>3. ASSUME NEW p \in Runs, Step(p) \/ Fault(p) PROVE IInv'
  <2>1. TypeInv /\ TypeOK /\ Alone /\ FileInv /\ RunInv(p)
    BY DEF IInv, TypeInv
  <2>2. TypeInv'
    BY <2>1, NextTypeInv
  <2>3. FileInv' /\ RunInv(p)'
    BY <1>3, <2>1, StartKeeps, LookKeeps, ReadKeeps, WriteKeeps, NoteKeeps, EndKeeps DEF Step
  <2>4. Alone' /\ \A q \in Runs : q # p => RunInv(q)'
    BY <1>3, <2>1, OthersIdle, IdleRun
  <2>. QED BY <2>2, <2>3, <2>4 DEF IInv
<1>. QED BY <1>1, <1>2, <1>3 DEF Next

(* The step that takes the cached PTX has compared the meta file.          *)
LEMMA HitMatches ==
  ASSUME TypeOK, Next, NEW p \in Runs, TakesCached(p)
  PROVE  meta = key[p]
<1>1. ~(Rebuild \/ Stopped)
  BY DEF TakesCached, Rebuild, Stopped, vars
<1>2. PICK q \in Runs : Step(q) \/ Fault(q)
  BY <1>1 DEF Next
<1>3. q = p
  BY <1>2, StepLabels DEF TakesCached
<1>. QED BY <1>2, <1>3 DEF TypeOK, Step, Start, Look, ReadMeta, ReadSections, ReadSymbols,
   ReadGlobal, GiveUp, OpenOut, WriteHalf, WriteRest, NoteMeta, WriteShort, NoteShort, NoteFails,
   Kill, Goto, MetaMatches, TakesCached

(* A hit when runs are at work one at a time: whatever went wrong before,  *)
(* the PTX has no text of another version of the ELF.                      *)
THEOREM HitsNotForeign == MaxActive <= 1 /\ Spec => HitNotForeign
<1>. DEFINE Hit ==
       \A p \in Runs : TakesCached(p) =>
         \A h \in Halves :
           \/ ptx[h] = Blank
           \/ /\ ptx[h].sections = key[p].time
              /\ ptx[h].symbols = key[p].time
              /\ ptx[h].global = key[p].time
     J == MaxActive <= 1 /\ IInv
<1>1. MaxActive <= 1 /\ Init => J
  BY InitIInv
<1>2. J /\ [Next]_vars => J'
  BY NextIInv
<1>3. J /\ [Next]_vars => [Hit]_vars
  <2>. SUFFICES ASSUME IInv, Next, NEW p \in Runs, TakesCached(p), NEW h \in Halves,
                       ptx[h] # Blank
                PROVE  /\ ptx[h].sections = key[p].time
                       /\ ptx[h].symbols = key[p].time
                       /\ ptx[h].global = key[p].time
    OBVIOUS
  <2>1. meta = key[p]
    BY HitMatches DEF IInv, TypeInv
  <2>2. RunInv(p) /\ FileInv /\ TypeOK
    BY DEF IInv, TypeInv
  <2>3. meta \in Keys /\ ptx \in Output /\ NoNewer(ptx[h], key[p].time) /\ NoOlder(ptx[h], key[p].time)
    BY <2>1, <2>2 DEF TakesCached, TypeOK, RunInv, FileInv, Reading
  <2>4. /\ key[p].time \in Nat /\ ptx[h].sections \in Nat /\ ptx[h].symbols \in Nat
        /\ ptx[h].global \in Nat
    BY <2>2, <2>3, Numbers
  <2>. QED BY <2>3, <2>4 DEF NoNewer, NoOlder
<1>. QED BY <1>1, <1>2, <1>3, PTL DEF Spec, HitNotForeign

----------------------------------------------------------------------------
(* Runs one at a time that all use the cache.                              *)

AllCached == MaxActive <= 1 /\ NoCacheFlag \subseteq {FALSE}

(* How far a run that writes has come, when nothing went wrong.            *)
Written(p) ==
  /\ pc[p] = "rest" => ptx[1] = text[p]
  /\ pc[p] = "note" => ptx = Whole(text[p])

(* Between two outputs the meta file has the options of the PTX, and a     *)
(* version that is no newer.                                               *)
Described ==
  \E t \in Texts :
    /\ ptx = Whole(t) /\ t.option = meta.option
    /\ meta.time <= t.sections /\ meta.time <= t.symbols /\ meta.time <= t.global

Settled == meta \in Keys /\ \A p \in Runs : pc[p] \notin Writing

FreshInv ==
  /\ \A p \in Runs : ~uncached[p]
  /\ Faultless => (\A p \in Runs : Written(p)) /\ meta # Cut /\ (Settled => Described)

LEMMA InitFresh == AllCached /\ Init => FreshInv
BY NoneAssumption DEF AllCached, Init, FreshInv, Written, Settled

LEMMA FaultsStay ==
  ASSUME TypeOK, NEW p \in Runs, Step(p) \/ Fault(p), Faultless'
  PROVE  Faultless /\ Step(p)
<1>1. kills \in Nat /\ shorts \in Nat /\ unnoted \in Nat
  BY PtxCacheAssumption DEF TypeOK
<1>2. ~Fault(p)
  BY <1>1 DEF WriteShort, NoteShort, NoteFails, Kill, Faultless
<1>3. UNCHANGED faults
  BY <1>2 DEF Step, Start, Look, ReadMeta, ReadSections, ReadSymbols, ReadGlobal, GiveUp, OpenOut,
     WriteHalf, WriteRest, NoteMeta
<1>. QED BY <1>2, <1>3 DEF Faultless

LEMMA NextFresh ==
  ASSUME AllCached, IInv, FreshInv, [Next]_vars
  PROVE  FreshInv'
<1>1. CASE Rebuild \/ Stopped \/ UNCHANGED vars
  <2>1. UNCHANGED << ptx, meta, pc, uncached, text, kills, shorts, unnoted >>
    BY <1>1 DEF Rebuild, Stopped, vars
  <2>. QED BY <2>1 DEF FreshInv, Faultless, Written, Settled, Described
<1>2. ASSUME NEW p \in Runs, Step(p) \/ Fault(p) PROVE FreshInv'
  <2>1. TypeInv /\ TypeOK /\ Alone /\ RunInv(p)
    BY DEF IInv, TypeInv
  <2>2. \A q \in Runs : ~uncached'[q]
    BY <1>2, <2>1, StepLabels DEF FreshInv
  <2>3. \A q \in Runs : q # p => ~Active(q)'
    BY <1>2, <2>1, OthersIdle DEF AllCached
  <2>4. \A q \in Runs : q # p => Written(q)' /\ pc'[q] \notin Writing
    BY <2>3 DEF Written, Active, Writing
  <2>5. ASSUME Faultless' PROVE Written(p)' /\ meta' # Cut /\ (Settled' => Described')
    <3>1. Faultless /\ Step(p) /\ Written(p) /\ meta # Cut /\ (Settled => Described)
      BY <1>2, <2>1, <2>5, FaultsStay DEF FreshInv
    <3>2. CASE \/ Start(p) \/ Look(p) \/ ReadMeta(p) \/ ReadSections(p) \/ ReadSymbols(p)
               \/ ReadGlobal(p) \/ GiveUp(p)
      <4>1. /\ pc[p] \notin Writing /\ pc'[p] \notin Writing /\ UNCHANGED << ptx, meta >>
            /\ \A q \in Runs : q # p => pc'[q] = pc[q]
        BY <3>2, <2>1, <1>2, StepLabels DEF TypeOK, Start, Look, ReadMeta, ReadSections,
           ReadSymbols, ReadGlobal, GiveUp, Goto, Writing
      <4>. QED BY <4>1, <3>1 DEF Written, Settled, Described, Writing
    <3>3. CASE OpenOut(p)
      <4>1. pc'[p] = "half"
        BY <3>3, <2>1 DEF OpenOut, Goto, TypeOK
      <4>2. meta' # Cut
        BY <3>1, <3>3 DEF OpenOut
      <4>. QED BY <4>1, <4>2 DEF Written, Settled, Writing
    <3>4. CASE WriteHalf(p)
      <4>1. /\ pc'[p] = "rest" /\ text' = text /\ ptx' = [ptx EXCEPT ![1] = text[p]] /\ ptx \in Output
            /\ meta' # Cut
        BY <3>1, <3>4, <2>1 DEF WriteHalf, Goto, TypeOK, TypeInv, Opened, Writing
      <4>2. ptx'[1] = text'[p]
        BY <4>1 DEF Output
      <4>. QED BY <4>1, <4>2 DEF Written, Settled, Writing
    <3>5. CASE WriteRest(p)
      <4>1. /\ pc'[p] = "note" /\ text' = text /\ ptx' = [ptx EXCEPT ![2] = text[p]]
            /\ ptx \in Output /\ ptx[1] = text[p] /\ meta' # Cut
        BY <3>1, <3>5, <2>1
           DEF WriteRest, AfterWrite, Goto, TypeOK, TypeInv, Opened, Writing, FreshInv, Written
      <4>2. ptx' = Whole(text'[p])
        BY <4>1 DEF Output, Whole
      <4>. QED BY <4>1, <4>2 DEF Written, Settled, Writing
    <3>6. CASE NoteMeta(p)
      <4>1. /\ pc[p] = "note" /\ pc'[p] = "new" /\ meta' = key[p] /\ ptx' = ptx /\ ptx = Whole(text[p])
        BY <3>1, <3>6, <2>1 DEF NoteMeta, Goto, TypeOK, Written
      <4>2. text[p] \in Texts /\ text[p].option = key[p].option
            /\ key[p].time <= text[p].sections /\ key[p].time <= text[p].symbols
            /\ key[p].time <= text[p].global
        BY <4>1, <2>1 DEF TypeOK, RunInv, HasText, HasBoth, HasAll
      <4>3. Described'
        BY <4>1, <4>2 DEF Described
      <4>4. meta' # Cut
        BY <4>1, <2>1, NoneAssumption DEF TypeOK
      <4>. QED BY <4>1, <4>3, <4>4 DEF Written
    <3>. QED BY <3>1, <3>2, <3>3, <3>4, <3>5, <3>6 DEF Step
  <2>. QED BY <2>2, <2>4, <2>5 DEF FreshInv
<1>. QED BY <1>1, <1>2 DEF Next

(* A text that is no older than a version and no newer is of this version. *)
LEMMA OfVersion ==
  ASSUME NEW k \in Keys, NEW t \in Texts, t.option = k.option,
         k.time <= t.sections, k.time <= t.symbols, k.time <= t.global, NoNewer(t, k.time)
  PROVE  t = TextOf(k)
<1>1. k.time \in Nat \ {0} /\ t.sections \in Nat /\ t.symbols \in Nat /\ t.global \in Nat
  BY DEF Texts
<1>2. t.sections = k.time /\ t.symbols = k.time /\ t.global = k.time
  BY <1>1 DEF NoNewer, Blank
<1>. QED BY <1>2 DEF Texts, TextOf

(* While no run is at work and nothing went wrong before, the meta file    *)
(* tells what the PTX was made of, or the ELF has been rebuilt since.      *)
THEOREM MetaTellsAlways == AllCached /\ Spec => []MetaTells
<1>. DEFINE J == AllCached /\ IInv /\ FreshInv
<1>1. AllCached /\ Init => J
  BY InitIInv, InitFresh
<1>2. J /\ [Next]_vars => J'
  BY NextIInv, NextFresh DEF AllCached
<1>3. J => MetaTells
  <2>. SUFFICES ASSUME IInv, FreshInv, Faultless, meta # None, \A p \in Runs : ~Active(p)
                PROVE  /\ meta # Cut
                       /\ \E t \in Texts : ptx = Whole(t) /\ t.option = meta.option
                       /\ ptx = Whole(TextOf(meta)) \/ meta.time < elf
    BY DEF MetaTells
  <2>1. meta # Cut /\ Settled
    BY DEF MetaTells, FreshInv, IInv, TypeInv, TypeOK, Settled, Active, Writing
  <2>2. PICK t \in Texts : /\ ptx = Whole(t) /\ t.option = meta.option
                           /\ meta.time <= t.sections /\ meta.time <= t.symbols
                           /\ meta.time <= t.global
    BY <2>1 DEF FreshInv, Described
  <2>3. meta \in Keys /\ elf \in Nat /\ meta.time \in Nat /\ meta.time <= elf
    BY <2>1 DEF Settled, IInv, TypeInv, TypeOK, FileInv
  <2>4. CASE meta.time = elf
    <3>1. ptx \in Output /\ ptx[1] = t
      BY <2>2, WholeType
    <3>2. NoNewer(t, elf)
      BY <3>1 DEF IInv, FileInv
    <3>. QED BY <2>1, <2>2, <2>3, <2>4, <3>2, OfVersion
  <2>. QED BY <2>1, <2>2, <2>3, <2>4
<1>. QED BY <1>1, <1>2, <1>3, PTL DEF Spec

(* A run that takes the cached PTX when nothing went wrong before gets what*)
(* it would have made itself.                                              *)
THEOREM HitsFresh == AllCached /\ Spec => HitIsFresh
<1>. DEFINE Hit ==
       Faultless => \A p \in Runs : TakesCached(p) => ptx = Whole(TextOf(key[p]))
     J == AllCached /\ IInv /\ FreshInv
<1>1. AllCached /\ Init => J
  BY InitIInv, InitFresh
<1>2. J /\ [Next]_vars => J'
  BY NextIInv, NextFresh DEF AllCached
<1>3. J /\ [Next]_vars => [Hit]_vars
  <2>. SUFFICES ASSUME IInv, FreshInv, Next, Faultless, NEW p \in Runs, TakesCached(p)
                PROVE  ptx = Whole(TextOf(key[p]))
    OBVIOUS
  <2>1. meta = key[p]
    BY HitMatches DEF IInv, TypeInv
  <2>2. RunInv(p) /\ FileInv /\ TypeOK /\ Alone
    BY DEF IInv, TypeInv
  <2>3. Settled
    BY <2>1, <2>2 DEF TakesCached, TypeOK, RunInv, Settled, Alone, Active, Writing
  <2>4. PICK t \in Texts : /\ ptx = Whole(t) /\ t.option = meta.option
                           /\ meta.time <= t.sections /\ meta.time <= t.symbols
                           /\ meta.time <= t.global
    BY <2>3 DEF FreshInv, Described
  <2>5. ptx \in Output /\ ptx[1] = t
    BY <2>4, WholeType
  <2>6. NoNewer(t, key[p].time) /\ key[p] \in Keys
    BY <2>2, <2>5 DEF TakesCached, RunInv, Reading, TypeOK
  <2>. QED BY <2>1, <2>4, <2>6, OfVersion
<1>. QED BY <1>1, <1>2, <1>3, PTL DEF Spec, HitIsFresh
=============================================================================
