------------------------------ MODULE PtxCache -----------------------------
(***************************************************************************)
(* The PTX cache of src/tools/sbt_ptx.cpp.  A translator run writes the    *)
(* PTX of a kernel to a path and beside it a meta file with the parameters *)
(* it ran with (the ELF's time, the options); a later run with the same    *)
(* parameters takes the PTX as it is.                                      *)
(*                                                                         *)
(* A run is a process.  Nothing locks the two files, so the steps of runs  *)
(* interleave; a run may be killed, a write may fall short, the meta file  *)
(* may fail to come into place, and the ELF may be rebuilt at any time.    *)
(***************************************************************************)
EXTENDS Integers, FiniteSets

CONSTANTS
  Runs,         (* translator runs                                         *)
  Options,      (* option values: sm, --no-comments ...                    *)
  MaxTime,      (* bound: versions of the ELF                              *)
  MaxActive,    (* runs at work at one time                                *)
  MaxKills,     (* bound: runs killed                                      *)
  MaxShort,     (* bound: writes that fall short                           *)
  MaxUnnoted,   (* bound: meta files that do not come into place           *)
  NoCacheFlag,  (* the values of --no-cache that runs are given            *)
  None,
  Cut           (* a meta file of which the end is missing                 *)

ASSUME PtxCacheAssumption ==
  /\ MaxTime \in Nat \ {0} /\ MaxActive \in Nat /\ MaxKills \in Nat /\ MaxShort \in Nat
  /\ MaxUnnoted \in Nat
  /\ IsFiniteSet(Runs) /\ NoCacheFlag \subseteq BOOLEAN

VARIABLES
  elf,      (* the version of the ELF file, which is its time too          *)
  ptx,      (* the PTX file: None, or the two halves of its text           *)
  meta,     (* the meta file: None, Cut, or the key in it                  *)
  pc,
  key,      (* key[p]: CacheKey of run p                                   *)
  uncached, (* uncached[p]: run p has --no-cache                           *)
  text,     (* text[p]: what run p makes of the ELF                        *)
  kills,
  shorts,
  unnoted

faults == << kills, shorts, unnoted >>

vars == << elf, ptx, meta, pc, key, uncached, text, kills, shorts, unnoted >>

Times == 1 .. MaxTime
Keys  == [time : Times, option : Options]

(* The text of a run: the versions of the section, of the symbols and of   *)
(* __global_pointer$ it read, and its options.                             *)
Texts ==
  [sections : Times \cup {0}, symbols : Times \cup {0}, global : Times \cup {0},
   option : Options \cup {None}]

Blank == [sections |-> 0, symbols |-> 0, global |-> 0, option |-> None]

(* What a run that saw the ELF of key k all the time writes.               *)
TextOf(k) ==
  [sections |-> k.time, symbols |-> k.time, global |-> k.time, option |-> k.option]

Halves == {1, 2}

ASSUME NoneAssumption ==
  /\ None \notin Keys \cup [Halves -> Texts]
  /\ Cut \notin Keys \cup {None}

Whole(t)   == [h \in Halves |-> t]
NonEmpty   == ptx # None /\ ptx # Whole(Blank)

Labels == { "idle", "look", "meta", "sections", "symbols", "global", "open", "half", "rest",
            "note", "hit", "new", "dead" }

Active(p) == pc[p] \notin { "idle", "hit", "new", "dead" }

Goto(p, l) == pc' = [pc EXCEPT ![p] = l]

Init ==
  /\ elf = 1
  /\ ptx = None
  /\ meta = None
  /\ pc = [p \in Runs |-> "idle"]
  /\ key \in [Runs -> {[time |-> 1, option |-> o] : o \in Options}]
  /\ uncached \in [Runs -> NoCacheFlag]
  /\ text = [p \in Runs |-> Blank]
  /\ kills = 0
  /\ shorts = 0
  /\ unnoted = 0

(* The ELF is rebuilt; its time goes forward.                              *)
Rebuild ==
  /\ elf < MaxTime
  /\ elf' = elf + 1
  /\ UNCHANGED << ptx, meta, pc, key, uncached, text, faults >>

(* Mutant: the time of a file that cannot be asked for its time.           *)
StartNoTime(p) ==
  /\ pc[p] = "idle"
  /\ key' = [key EXCEPT ![p].time = 0]
  /\ Goto(p, IF uncached[p] THEN "sections" ELSE "look")
  /\ UNCHANGED << elf, ptx, meta, uncached, text, faults >>

(* A run takes the ELF's time into its key.                                *)
Start(p) ==
  /\ pc[p] = "idle"
  /\ Cardinality({ q \in Runs : Active(q) }) < MaxActive
  /\ key' = [key EXCEPT ![p].time = elf]
  /\ Goto(p, IF uncached[p] THEN "sections" ELSE "look")
  /\ UNCHANGED << elf, ptx, meta, uncached, text, faults >>

(* Is there a PTX file with something in it, and a meta file?              *)
Look(p) ==
  /\ pc[p] = "look"
  /\ Goto(p, IF NonEmpty /\ meta # None THEN "meta" ELSE "sections")
  /\ UNCHANGED << elf, ptx, meta, key, uncached, text, faults >>

(* Mutant: the options are not compared.                                   *)
TimeMatches(p) == meta \in Keys /\ meta.time = key[p].time

(* Mutant: the ELF's time is not compared.                                 *)
OptionMatches(p) == meta \in Keys /\ meta.option = key[p].option

(* cache_meta_matches: every field of the key.                             *)
MetaMatches(p) == meta = key[p]

ReadMeta(p) ==
  /\ pc[p] = "meta"
  /\ Goto(p, IF MetaMatches(p) THEN "hit" ELSE "sections")
  /\ UNCHANGED << elf, ptx, meta, key, uncached, text, faults >>

ReadSections(p) ==
  /\ pc[p] = "sections"
  /\ text' = [text EXCEPT ![p].sections = elf, ![p].option = key[p].option]
  /\ Goto(p, "symbols")
  /\ UNCHANGED << elf, ptx, meta, key, uncached, faults >>

ReadSymbols(p) ==
  /\ pc[p] = "symbols"
  /\ text' = [text EXCEPT ![p].symbols = elf]
  /\ Goto(p, "global")
  /\ UNCHANGED << elf, ptx, meta, key, uncached, faults >>

(* __global_pointer$ is read when the kernel has been verified; the rest   *)
(* of the work is done in memory.                                          *)
ReadGlobal(p) ==
  /\ pc[p] = "global"
  /\ text' = [text EXCEPT ![p].global = elf]
  /\ Goto(p, "open")
  /\ UNCHANGED << elf, ptx, meta, key, uncached, faults >>

(* A run ends in an error and leaves the files as they are: the ELF cannot *)
(* be read, the kernel is turned down, the output cannot be opened; or a   *)
(* number in a meta file is cut away, which stoll and stoi throw at.       *)
GiveUp(p) ==
  /\ pc[p] \in { "sections", "symbols", "global", "open" } \/ (pc[p] = "meta" /\ meta = Cut)
  /\ Goto(p, "dead")
  /\ UNCHANGED << elf, ptx, meta, key, uncached, text, faults >>

(* The open cuts the PTX file to nothing.  The old meta file stays.        *)
OpenOut(p) ==
  /\ pc[p] = "open"
  /\ ptx' = Whole(Blank)
  /\ Goto(p, "half")
  /\ UNCHANGED << elf, meta, key, uncached, text, faults >>

WriteHalf(p) ==
  /\ pc[p] = "half"
  /\ ptx' = [ptx EXCEPT ![1] = text[p]]
  /\ Goto(p, "rest")
  /\ UNCHANGED << elf, meta, key, uncached, text, faults >>

AfterWrite(p) == IF uncached[p] THEN "new" ELSE "note"

WriteRest(p) ==
  /\ pc[p] = "rest"
  /\ ptx' = [ptx EXCEPT ![2] = text[p]]
  /\ Goto(p, AfterWrite(p))
  /\ UNCHANGED << elf, meta, key, uncached, text, faults >>

(* The write falls short, and neither it nor the close is looked at.       *)
WriteShort(p) ==
  /\ pc[p] \in { "half", "rest" }
  /\ shorts < MaxShort
  /\ shorts' = shorts + 1
  /\ Goto(p, AfterWrite(p))
  /\ UNCHANGED << elf, ptx, meta, key, uncached, text, kills, unnoted >>

(* Mutant: the ELF's time is asked for when the meta file is written.      *)
NoteTimeNow(p) ==
  /\ pc[p] = "note"
  /\ meta' = [key[p] EXCEPT !.time = elf]
  /\ Goto(p, "new")
  /\ UNCHANGED << elf, ptx, key, uncached, text, faults >>

(* The meta file is written aside and renamed into place.                  *)
NoteMeta(p) ==
  /\ pc[p] = "note"
  /\ meta' = key[p]
  /\ Goto(p, "new")
  /\ UNCHANGED << elf, ptx, key, uncached, text, faults >>

(* The write of the meta file is not looked at either: what there is of it *)
(* comes into place.                                                       *)
NoteShort(p) ==
  /\ pc[p] = "note"
  /\ shorts < MaxShort
  /\ shorts' = shorts + 1
  /\ meta' = Cut
  /\ Goto(p, "new")
  /\ UNCHANGED << elf, ptx, key, uncached, text, kills, unnoted >>

(* The file aside cannot be opened, or the rename fails and it is removed. *)
(* The run ends as if all were well, and the old meta file stays beside    *)
(* the new PTX.                                                            *)
NoteFails(p) ==
  /\ pc[p] = "note"
  /\ unnoted < MaxUnnoted
  /\ unnoted' = unnoted + 1
  /\ Goto(p, "new")
  /\ UNCHANGED << elf, ptx, meta, key, uncached, text, kills, shorts >>

Kill(p) ==
  /\ Active(p)
  /\ kills < MaxKills
  /\ kills' = kills + 1
  /\ Goto(p, "dead")
  /\ UNCHANGED << elf, ptx, meta, key, uncached, text, shorts, unnoted >>

Fault(p) ==
  \/ WriteShort(p)
  \/ NoteShort(p)
  \/ NoteFails(p)
  \/ Kill(p)

Stopped == (\A p \in Runs : pc[p] \in { "hit", "new", "dead" }) /\ UNCHANGED vars

Step(p) ==
  \/ Start(p)
  \/ Look(p)
  \/ ReadMeta(p)
  \/ ReadSections(p)
  \/ ReadSymbols(p)
  \/ ReadGlobal(p)
  \/ GiveUp(p)
  \/ OpenOut(p)
  \/ WriteHalf(p)
  \/ WriteRest(p)
  \/ NoteMeta(p)

Next ==
  \/ Rebuild
  \/ Stopped
  \/ \E p \in Runs : Step(p) \/ Fault(p)

Spec == Init /\ [][Next]_vars

----------------------------------------------------------------------------
(* Every variable has its type.                                            *)
TypeOK ==
  /\ elf \in Times
  /\ ptx \in [Halves -> Texts] \cup {None}
  /\ meta \in Keys \cup {None, Cut}
  /\ pc \in [Runs -> Labels]
  /\ key \in [Runs -> Keys]
  /\ uncached \in [Runs -> BOOLEAN]
  /\ text \in [Runs -> Texts]
  /\ kills \in 0 .. MaxKills
  /\ shorts \in 0 .. MaxShort
  /\ unnoted \in 0 .. MaxUnnoted

(* No run has been killed, no write has fallen short, and each meta file   *)
(* has come into place.                                                    *)
Faultless == kills = 0 /\ shorts = 0 /\ unnoted = 0

(* The step in which a run takes the cached PTX.                           *)
TakesCached(p) == pc[p] = "meta" /\ pc'[p] = "hit"

(* A meta file describes the PTX beside it while no run is at work: the    *)
(* text is whole and was made with the options noted; and it was made of   *)
(* the ELF noted, or the ELF has been rebuilt since, so that no run takes  *)
(* it any more.  So it is as long as runs, writes and renames come to      *)
(* their end.                                                              *)
MetaTells ==
  (Faultless /\ meta # None /\ \A p \in Runs : ~Active(p)) =>
    /\ meta # Cut
    /\ \E t \in Texts : ptx = Whole(t) /\ t.option = meta.option
    /\ ptx = Whole(TextOf(meta)) \/ meta.time < elf

(* A run that takes the cached PTX gets, whole, what it would have made of *)
(* the ELF it saw and its options, had it not looked in the cache, as long *)
(* as no run before it was killed, no write has fallen short and no meta   *)
(* file has failed to come into place.                                     *)
HitIsFresh ==
  [][Faultless => \A p \in Runs : TakesCached(p) => ptx = Whole(TextOf(key[p]))]_vars

(* The same of every hit, whatever went wrong before.  A killed run, a     *)
(* short write and a meta file that failed to come into place break it,    *)
(* each by itself.                                                         *)
HitAlwaysFresh ==
  [][\A p \in Runs : TakesCached(p) => ptx = Whole(TextOf(key[p]))]_vars

(* Even then nothing in the PTX that a run takes was made of another       *)
(* version of the ELF than the run saw.  Some of it may be missing, or be  *)
(* made with the options of a run that left no meta file.                  *)
HitNotForeign ==
  [][\A p \in Runs : TakesCached(p) =>
       \A h \in Halves :
         \/ ptx[h] = Blank
         \/ /\ ptx[h].sections = key[p].time
            /\ ptx[h].symbols = key[p].time
            /\ ptx[h].global = key[p].time]_vars
=============================================================================
