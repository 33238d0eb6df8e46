------------------------------ MODULE Problem ------------------------------
(***************************************************************************)
(* A problem slot of the client (common/problem.cpp) shared by two threads *)
(* without a common lock discipline: the cruncher thread that owns the     *)
(* slot calls ProblemRun, and the client's main thread saves and reloads   *)
(* the slot with ProblemRetrieveState and ProblemLoadState.                *)
(*                                                                         *)
(* A slot is three copies of one structure.  MAIN is what everybody sees;  *)
(* a run works on CORE, a load works on TEMP, and only the copies between  *)
(* them are made under the slot's spin lock (copy_lock).  Hence a run and  *)
(* a save-and-reload of the same slot may overlap, and the flags `started' *)
(* and `initialized' decide whether the result of a run is still wanted.   *)
(*                                                                         *)
(* Data are abstracted: a packet is the number of its load, its contest,   *)
(* how many of its Total units are done and whether its key field holds    *)
(* the solution.  The writes of a critical section into MAIN are split in  *)
(* two, so that a reader that ignored the lock would see a torn packet.    *)
(***************************************************************************)
EXTENDS Integers, FiniteSets

CONSTANTS
  Problems,    \* the problem slots; each one has its own cruncher thread
  Contests,    \* the contests a packet may belong to
  All,         \* the index CONTEST_COUNT of loaded_problems: every contest
  Total,       \* units of work in a packet
  MaxLoads,    \* bound: packets handed to LoadState in a behaviour
  HardStop     \* TRUE: saves may be unconditional while crunchers still run

ASSUME ProblemAssumption ==
  /\ IsFiniteSet(Problems)
  /\ Contests # {} /\ All \notin Contests
  /\ Total \in Nat \ {0}
  /\ MaxLoads \in Nat
  /\ HardStop \in BOOLEAN

RESULT_WORKING == 0
RESULT_NOTHING == 1
RESULT_FOUND   == 2
CORE_ERROR     == -1

Finished == {RESULT_NOTHING, RESULT_FOUND}
ResultCode == {CORE_ERROR, RESULT_WORKING} \cup Finished

\* contestwork, with the identity of the load it came from.
Work == [load: Nat, contest: Contests, done: 0..Total, hit: BOOLEAN]

\* One InternalProblem.
Copy == [work: Work, rc: ResultCode, started: BOOLEAN, initialized: BOOLEAN]

\* What RetrieveState hands to the saver: the packet and its result code.
Record == [work: Work, rc: ResultCode]

VARIABLES
  main,       \* [Problems -> Copy]  PICKPROB_MAIN
  core,       \* [Problems -> Copy]  PICKPROB_CORE, the cruncher's
  temp,       \* [Problems -> Copy]  PICKPROB_TEMP, the loader's
  lock,       \* [Problems -> ...]   copy_lock and who holds it
  runpc,      \* [Problems -> ...]   where the cruncher is in ProblemRun
  result,     \* [Problems -> ResultCode]  ProblemRun's local last_resultcode
  ldpc,       \* where the main thread is in its save and load of a slot
  ldslot,     \* the slot it works on
  wrdata,     \* the record it retrieved (a local of the saver)
  loaded,     \* loaded_problems[]: counts per contest, and for All of them
  nextLoad,   \* the number the next load gets (identity only)
  saved,      \* records given to the buffers (history)
  discarded   \* records the buffers refused (history)

slotVars   == <<main, core, temp, lock>>
runVars    == <<runpc, result>>
loaderVars == <<ldpc, ldslot, wrdata>>
histVars   == <<nextLoad, saved, discarded>>
vars == <<slotVars, runVars, loaderVars, loaded, histVars>>

RunPC == {"out", "entered", "copyin", "core", "cored", "sync", "commit"}
LoadPC == {"idle", "visit", "holding", "purge", "empty", "loading", "ready",
           "blast", "blastflags"}

TypeOK ==
  /\ main \in [Problems -> Copy]
  /\ core \in [Problems -> Copy]
  /\ temp \in [Problems -> Copy]
  /\ lock \in [Problems -> {"free", "run", "load"}]
  /\ runpc \in [Problems -> RunPC]
  /\ result \in [Problems -> ResultCode]
  /\ ldpc \in LoadPC
  /\ ldslot \in Problems
  /\ wrdata \in Record
  /\ loaded \in [Contests \cup {All} -> Int]
  /\ nextLoad \in Nat
  /\ saved \subseteq Record
  /\ discarded \subseteq Record

-----------------------------------------------------------------------------
(* Init: ProblemAlloc has cleared the slots. *)

ClearedCopy ==
  [work |-> [load |-> 0, contest |-> CHOOSE c \in Contests : TRUE,
             done |-> 0, hit |-> FALSE],
   rc |-> RESULT_WORKING, started |-> FALSE, initialized |-> FALSE]

RecordOf(copy) == [work |-> copy.work, rc |-> copy.rc]

Init ==
  /\ main = [p \in Problems |-> ClearedCopy]
  /\ core = main /\ temp = main
  /\ lock = [p \in Problems |-> "free"]
  /\ runpc = [p \in Problems |-> "out"]
  /\ result = [p \in Problems |-> RESULT_WORKING]
  /\ ldpc = "idle" /\ ldslot \in Problems /\ wrdata = RecordOf(ClearedCopy)
  /\ loaded = [c \in Contests \cup {All} |-> 0]
  /\ nextLoad = 1 /\ saved = {} /\ discarded = {}

-----------------------------------------------------------------------------
(* The cruncher of slot p: ProblemRun. *)

RunTo(p, from, to) ==
  /\ runpc[p] = from
  /\ runpc' = [runpc EXCEPT ![p] = to]

\* The test of main.initialized made before the lock is taken.
RunEnter(p) ==
  /\ RunTo(p, "out", "entered")
  /\ main[p].initialized
  /\ UNCHANGED <<slotVars, result, loaderVars, loaded, histVars>>

RunLockIn(p) ==
  /\ RunTo(p, "entered", "copyin")
  /\ lock[p] = "free"
  /\ lock' = [lock EXCEPT ![p] = "run"]
  /\ UNCHANGED <<main, core, temp, result, loaderVars, loaded, histVars>>

\* Mutants: a finished packet is run again; the lock is not released.
RunCopyInAlways(p) ==
  /\ RunTo(p, "copyin", "core")
  /\ main' = [main EXCEPT ![p] = [@ EXCEPT !.started = TRUE]]
  /\ core' = [core EXCEPT ![p] = main'[p]]
  /\ lock' = [lock EXCEPT ![p] = "free"]
  /\ result' = [result EXCEPT ![p] = main[p].rc]
  /\ UNCHANGED <<temp, loaderVars, loaded, histVars>>

RunCopyInKeepsLock(p) ==
  /\ runpc[p] = "copyin"
  /\ main' = [main EXCEPT ![p] = [@ EXCEPT !.started = TRUE]]
  /\ core' = [core EXCEPT ![p] = main'[p]]
  /\ result' = [result EXCEPT ![p] = main[p].rc]
  /\ runpc' = [runpc EXCEPT ![p] =
                 IF main[p].rc = RESULT_WORKING THEN "core" ELSE "out"]
  /\ UNCHANGED <<temp, lock, loaderVars, loaded, histVars>>

\* Mark MAIN started, copy it to CORE, and go on only with unfinished work.
RunCopyIn(p) ==
  /\ runpc[p] = "copyin"
  /\ main' = [main EXCEPT ![p] = [@ EXCEPT !.started = TRUE]]
  /\ core' = [core EXCEPT ![p] = main'[p]]
  /\ lock' = [lock EXCEPT ![p] = "free"]
  /\ result' = [result EXCEPT ![p] = main[p].rc]
  /\ runpc' = [runpc EXCEPT ![p] =
                 IF main[p].rc = RESULT_WORKING THEN "core" ELSE "out"]
  /\ UNCHANGED <<temp, loaderVars, loaded, histVars>>

\* A core ran: it found the solution (key field rewritten), or advanced
\* and either finished the packet or has more to do.
RunCore(p) ==
  /\ RunTo(p, "core", "cored")
  /\ \E d \in core[p].work.done .. Total, found \in BOOLEAN :
       /\ found \/ d > core[p].work.done
       /\ core' = [core EXCEPT ![p] =
                      [@ EXCEPT !.work.done = d, !.work.hit = found]]
       /\ result' = [result EXCEPT ![p] =
            IF found THEN RESULT_FOUND
            ELSE IF d = Total THEN RESULT_NOTHING ELSE RESULT_WORKING]
  /\ UNCHANGED <<main, temp, lock, loaderVars, loaded, histVars>>

\* A core failed: its copy may be half changed, and ProblemRun returns the
\* copy's own code (-1 only if the core's wrapper put it there, as RC5-72's
\* does and the OGR ones do not) without touching MAIN.
RunCoreError(p) ==
  /\ RunTo(p, "core", "out")
  /\ \E rc \in {CORE_ERROR, RESULT_WORKING} :
       /\ core' = [core EXCEPT ![p] = [@ EXCEPT !.rc = rc]]
       /\ result' = [result EXCEPT ![p] = rc]
  /\ UNCHANGED <<main, temp, lock, loaderVars, loaded, histVars>>

RunLockOut(p) ==
  /\ RunTo(p, "cored", "sync")
  /\ lock[p] = "free"
  /\ lock' = [lock EXCEPT ![p] = "run"]
  /\ UNCHANGED <<main, core, temp, result, loaderVars, loaded, histVars>>

\* Mutant: a purge that is not followed by a load goes unnoticed.
WantedIfStarted(p) == main[p].started

\* The result of the core is still wanted: nobody purged or reloaded MAIN.
StillWanted(p) == main[p].started /\ main[p].initialized

RunDrop(p) ==
  /\ RunTo(p, "sync", "out")
  /\ ~StillWanted(p)
  /\ result' = [result EXCEPT ![p] = CORE_ERROR]
  /\ lock' = [lock EXCEPT ![p] = "free"]
  /\ UNCHANGED <<main, core, temp, loaderVars, loaded, histVars>>

\* Blast CORE into MAIN: first half of the structure ...
RunCommitWork(p) ==
  /\ RunTo(p, "sync", "commit")
  /\ StillWanted(p)
  /\ core' = [core EXCEPT ![p] = [@ EXCEPT !.rc = result[p]]]
  /\ main' = [main EXCEPT ![p] = [@ EXCEPT !.work = core[p].work]]
  /\ UNCHANGED <<temp, lock, result, loaderVars, loaded, histVars>>

\* ... then the rest, and the lock is released.
RunCommitFlags(p) ==
  /\ RunTo(p, "commit", "out")
  /\ main' = [main EXCEPT ![p] = core[p]]
  /\ lock' = [lock EXCEPT ![p] = "free"]
  /\ UNCHANGED <<core, temp, result, loaderVars, loaded, histVars>>

Cruncher(p) ==
  \/ RunEnter(p) \/ RunLockIn(p) \/ RunCopyIn(p) \/ RunCore(p)
  \/ RunCoreError(p) \/ RunLockOut(p) \/ RunDrop(p)
  \/ RunCommitWork(p) \/ RunCommitFlags(p)

-----------------------------------------------------------------------------
(* The main thread: save a slot (__IndividualProblemSave), reload it       *)
(* (ProblemLoadState).                                                     *)

\* LoadSaveProblems comes to slot p.
Visit(p) ==
  /\ ldpc = "idle"
  /\ ldpc' = "visit" /\ ldslot' = p
  /\ UNCHANGED <<slotVars, runVars, wrdata, loaded, histVars>>

\* Mutant: the copy is made without the lock.
RetrieveUnlocked ==
  /\ ldpc = "visit"
  /\ main[ldslot].initialized
  /\ ldpc' = "holding"
  /\ wrdata' = RecordOf(main[ldslot])
  /\ UNCHANGED <<slotVars, runVars, ldslot, loaded, histVars>>

\* RetrieveState without purge: a copy of MAIN made under the lock.
Retrieve ==
  /\ ldpc = "visit"
  /\ lock[ldslot] = "free"
  /\ main[ldslot].initialized
  /\ ldpc' = "holding"
  /\ wrdata' = RecordOf(main[ldslot])
  /\ UNCHANGED <<slotVars, runVars, ldslot, loaded, histVars>>

\* The slot is empty: go on to load it.
RetrieveNone ==
  /\ ldpc = "visit"
  /\ lock[ldslot] = "free"
  /\ ~main[ldslot].initialized
  /\ ldpc' = "empty"
  /\ UNCHANGED <<slotVars, runVars, ldslot, wrdata, loaded, histVars>>

\* Work that is still in progress stays where it is ...
SaveSkip ==
  /\ ldpc = "holding"
  /\ wrdata.rc = RESULT_WORKING
  /\ ldpc' = "idle"
  /\ UNCHANGED <<slotVars, runVars, ldslot, wrdata, loaded, histVars>>

\* Mutants: unfinished work goes out at any save; a range without a solution is
\* not written.
SaveOutAnything ==
  /\ ldpc = "holding"
  /\ ldpc' = "purge"
  /\ saved' = saved \cup {wrdata}
  /\ UNCHANGED <<slotVars, runVars, ldslot, wrdata, loaded, nextLoad, discarded>>

SaveOutFoundOnly ==
  /\ ldpc = "holding"
  /\ wrdata.rc # RESULT_WORKING \/ HardStop
  /\ ldpc' = IF wrdata.rc = RESULT_FOUND THEN "purge" ELSE "idle"
  /\ saved' = saved \cup {wrdata}
  /\ UNCHANGED <<slotVars, runVars, ldslot, wrdata, loaded, nextLoad, discarded>>

\* ... and everything else (or, on a hard stop, anything) goes out: to the
\* buffers, or nowhere when the buffers refuse it.
SaveOut ==
  /\ ldpc = "holding"
  /\ wrdata.rc # RESULT_WORKING \/ HardStop
  /\ ldpc' = "purge"
  /\ \/ wrdata.rc # CORE_ERROR /\ saved' = saved \cup {wrdata}
        /\ UNCHANGED discarded
     \/ discarded' = discarded \cup {wrdata} /\ UNCHANGED saved
  /\ UNCHANGED <<slotVars, runVars, ldslot, wrdata, loaded, nextLoad>>

\* Mutant: the counter of all contests is forgotten.
PurgeForgetsAll ==
  /\ ldpc = "purge"
  /\ lock[ldslot] = "free"
  /\ main' = [main EXCEPT ![ldslot] = [@ EXCEPT !.initialized = FALSE]]
  /\ loaded' = [loaded EXCEPT ![main[ldslot].work.contest] = @ - 1]
  /\ ldpc' = "empty"
  /\ UNCHANGED <<core, temp, lock, runVars, ldslot, wrdata, histVars>>

\* RetrieveState with purge, a critical section of its own.
Purge ==
  LET p == ldslot IN
  /\ ldpc = "purge"
  /\ lock[p] = "free"
  /\ main' = [main EXCEPT ![p] = [@ EXCEPT !.initialized = FALSE]]
  /\ loaded' = [c \in DOMAIN loaded |->
                  IF c \in {main[p].work.contest, All} THEN loaded[c] - 1
                                                       ELSE loaded[c]]
  /\ ldpc' = "empty"
  /\ UNCHANGED <<core, temp, lock, runVars, ldslot, wrdata, histVars>>

\* LoadState begins with a locked copy of MAIN to TEMP.
LoadCopy ==
  LET p == ldslot IN
  /\ ldpc = "empty"
  /\ lock[p] = "free"
  /\ temp' = [temp EXCEPT ![p] = main[p]]
  /\ ldpc' = "loading"
  /\ UNCHANGED <<main, core, lock, runVars, ldslot, wrdata, loaded, histVars>>

\* No packet, no core, no permission, or a packet that is refused: MAIN has
\* not been changed.
LoadFail ==
  /\ ldpc = "loading"
  /\ ldpc' = "idle"
  /\ UNCHANGED <<slotVars, runVars, ldslot, wrdata, loaded, histVars>>

\* Mutant: `started' is left as the last run of the slot set it.
LoadInternalKeepsStarted ==
  LET p == ldslot IN
  /\ ldpc = "loading"
  /\ ~temp[p].initialized
  /\ nextLoad <= MaxLoads
  /\ \E c \in Contests, d \in 0 .. Total - 1 :
       /\ temp' = [temp EXCEPT ![p] =
            [work |-> [load |-> nextLoad, contest |-> c,
                       done |-> d, hit |-> FALSE], rc |-> RESULT_WORKING,
             started |-> temp[p].started, initialized |-> TRUE]]
       /\ loaded' = [i \in DOMAIN loaded |->
                       IF i \in {c, All} THEN loaded[i] + 1 ELSE loaded[i]]
  /\ nextLoad' = nextLoad + 1
  /\ ldpc' = "ready"
  /\ UNCHANGED <<main, core, lock, runVars, ldslot, wrdata, saved, discarded>>

\* __InternalLoadState, on TEMP and without the lock: a packet that may have
\* been worked on before, and the counters already count it.
LoadInternal ==
  LET p == ldslot IN
  /\ ldpc = "loading"
  /\ ~temp[p].initialized
  /\ nextLoad <= MaxLoads
  /\ \E c \in Contests, d \in 0 .. Total - 1 :
       /\ temp' = [temp EXCEPT ![p] =
            [work |-> [load |-> nextLoad, contest |-> c,
                       done |-> d, hit |-> FALSE],
             rc |-> RESULT_WORKING, started |-> FALSE, initialized |-> TRUE]]
       /\ loaded' = [i \in DOMAIN loaded |->
                       IF i \in {c, All} THEN loaded[i] + 1 ELSE loaded[i]]
  /\ nextLoad' = nextLoad + 1
  /\ ldpc' = "ready"
  /\ UNCHANGED <<main, core, lock, runVars, ldslot, wrdata, saved, discarded>>

LoadLock ==
  /\ ldpc = "ready"
  /\ lock[ldslot] = "free"
  /\ lock' = [lock EXCEPT ![ldslot] = "load"]
  /\ ldpc' = "blast"
  /\ UNCHANGED <<main, core, temp, runVars, ldslot, wrdata, loaded, histVars>>

\* Blast TEMP into MAIN, in two halves like the commit of a run.
LoadCommitWork ==
  LET p == ldslot IN
  /\ ldpc = "blast"
  /\ main' = [main EXCEPT ![p] = [@ EXCEPT !.work = temp[p].work]]
  /\ ldpc' = "blastflags"
  /\ UNCHANGED <<core, temp, lock, runVars, ldslot, wrdata, loaded, histVars>>

LoadCommitFlags ==
  LET p == ldslot IN
  /\ ldpc = "blastflags"
  /\ main' = [main EXCEPT ![p] = temp[p]]
  /\ lock' = [lock EXCEPT ![p] = "free"]
  /\ ldpc' = "idle"
  /\ UNCHANGED <<core, temp, runVars, ldslot, wrdata, loaded, histVars>>

Loader ==
  \/ \E p \in Problems : Visit(p)
  \/ Retrieve \/ RetrieveNone \/ SaveSkip \/ SaveOut
  \/ Purge \/ LoadCopy \/ LoadFail \/ LoadInternal \/ LoadLock
  \/ LoadCommitWork \/ LoadCommitFlags

-----------------------------------------------------------------------------
Next == Loader \/ \E p \in Problems : Cruncher(p)

Spec == Init /\ [][Next]_vars

\* The steps that wait for the lock.
RunLocking(p) == RunLockIn(p) \/ RunLockOut(p)
LoadLocking ==
  \/ Retrieve \/ RetrieveNone
  \/ Purge \/ LoadCopy \/ LoadLock

\* Both threads go on running, and neither is locked out for ever: sections
\* under the lock are plain copies, and the main thread sleeps between its
\* passes.  LoadSaveProblems comes to every slot over and over.
FairSpec ==
  /\ Spec
  /\ \A p \in Problems :
       /\ WF_vars(Cruncher(p)) /\ SF_vars(RunLocking(p))
       /\ SF_vars(Visit(p))
  /\ WF_vars(Loader) /\ SF_vars(LoadLocking)

-----------------------------------------------------------------------------
(* Properties. *)

InCore(p) == runpc[p] \in {"core", "cored", "sync", "commit"}

\* A result about to be blasted into MAIN belongs to the packet MAIN holds:
\* if the slot was purged, or purged and reloaded, while the core ran, the
\* flags tested by ProblemRun say so.
NoStaleResult ==
  \A p \in Problems :
    InCore(p) /\ StillWanted(p) => core[p].work.load = main[p].work.load

\* The key field, the count of keys done and the result code agree.
Coherent(record) ==
  /\ record.rc = RESULT_FOUND <=> record.work.hit
  /\ record.rc = RESULT_NOTHING => record.work.done = Total
  /\ record.rc = RESULT_WORKING => record.work.done < Total
  /\ record.rc # CORE_ERROR

\* RetrieveState never hands out a packet that is half of one run's result
\* and half of another's (problem.cpp's reason for the local result code).
RecordCoherent ==
  /\ ldpc \in {"holding", "purge"} => Coherent(wrdata)
  /\ \A r \in saved \cup discarded : Coherent(r)

\* Slots that loaded_problems[] counts: those whose MAIN is initialized, and
\* the one whose load is past __InternalLoadState.
InFlight(p) == p = ldslot /\ ldpc \in {"ready", "blast", "blastflags"}
Counted(c) ==
  {p \in Problems :
     \/ main[p].initialized /\ c \in {main[p].work.contest, All}
     \/ InFlight(p) /\ c \in {temp[p].work.contest, All}}

\* loaded_problems[] is what a count of the slots would give, although it
\* is changed outside the lock by a load and inside it by a purge.
CounterExact ==
  \A c \in Contests \cup {All} : loaded[c] = Cardinality(Counted(c))

\* A packet leaves its slot once: a late result does not bring a purged
\* packet back to be saved a second time.
SavedOnce ==
  \A r, s \in saved \cup discarded :
    r.work.load = s.work.load => r = s

\* A finished result leaves the slot only as the record that was saved (or
\* refused by the buffers); nothing can change it between the retrieval and
\* the purge, which are two critical sections.  Unconditional saves with
\* crunchers running (HardStop) do not have this property.
NoResultLost ==
  [][\A p \in Problems :
       main[p].initialized /\ ~main'[p].initialized
          /\ main[p].rc \in Finished
       => RecordOf(main[p]) \in saved \cup discarded]_vars

\* What a purge throws away was saved, at worst in an earlier state: a hard
\* stop repeats work but neither skips keys nor invents them.
PurgeNeverAhead ==
  [][\A p \in Problems :
       main[p].initialized /\ ~main'[p].initialized
       => \E r \in saved \cup discarded :
            /\ r.work.load = main[p].work.load
            /\ r.work.done <= main[p].work.done]_vars

\* While a packet stays in its slot its count of keys never goes back, and a
\* result, once there, stays.
ProgressKept ==
  [][\A p \in Problems :
       /\ main[p].initialized /\ main'[p].initialized
       /\ main[p].work.load = main'[p].work.load
       => /\ main[p].work.done <= main'[p].work.done
          /\ main[p].rc \in Finished => RecordOf(main'[p]) = RecordOf(main[p])
     ]_vars

\* A finished packet does leave its slot.
FinishedLeaves ==
  \A p \in Problems :
    (main[p].initialized /\ main[p].rc \in Finished) ~> ~main[p].initialized

\* A run that has a result comes back from ProblemRun, whatever the main
\* thread does with the slot meanwhile.
RunReturns == \A p \in Problems : (runpc[p] = "cored") ~> (runpc[p] = "out")

\* What hyunjin_r72.cpp:117 ("On error ... dnetc will abort") and
\* problem.cpp:1180 and 1250 ("this will cause the problem to be discarded")
\* say of a core error: the packet it hit does not stay in its slot.
CoreErrorDiscards ==
  \A p \in Problems :
    (main[p].initialized /\ result[p] = CORE_ERROR /\ core[p].rc = CORE_ERROR)
      ~> ~main[p].initialized

-----------------------------------------------------------------------------
(* The inductive invariant behind these properties. *)

Loading == ldpc \in {"empty", "loading", "ready", "blast", "blastflags"}
Built   == ldpc \in {"ready", "blast", "blastflags"}
Saving  == ldpc \in {"holding", "purge"}

\* Who holds copy_lock is where the code says it is.
LockInv ==
  \A p \in Problems :
    /\ lock[p] = "run" <=> runpc[p] \in {"copyin", "sync", "commit"}
    /\ lock[p] = "load" <=> ldslot = p /\ ldpc \in {"blast", "blastflags"}

\* CORE holds an earlier state of the packet in MAIN.
CoreMatches(p) ==
  /\ core[p].work.load = main[p].work.load
  /\ core[p].work.contest = main[p].work.contest
  /\ core[p].work.done >= main[p].work.done
  /\ core[p].initialized /\ core[p].started
  /\ main[p].rc = RESULT_WORKING

\* What `initialized' and `started' tell each thread about the other.
FlagInv ==
  /\ Loading => ~main[ldslot].initialized
  /\ Saving => main[ldslot].initialized
  /\ Built => temp[ldslot].initialized /\ ~temp[ldslot].started
  /\ \A p \in Problems :
       /\ InCore(p) /\ StillWanted(p) => CoreMatches(p)
       /\ runpc[p] = "commit" => StillWanted(p) /\ core[p].work = main[p].work

\* Every copy is coherent, but MAIN in the middle of a blast.
CopiesCoherent(p) ==
  /\ \/ runpc[p] = "commit"
     \/ ldslot = p /\ ldpc = "blastflags"
     \/ Coherent(RecordOf(main[p]))
  /\ runpc[p] = "core" => core[p].rc = RESULT_WORKING
  /\ runpc[p] \in {"core", "commit"} => Coherent(RecordOf(core[p]))
  /\ runpc[p] \in {"cored", "sync"} =>
       Coherent([work |-> core[p].work, rc |-> result[p]])

DataInv ==
  /\ \A p \in Problems : CopiesCoherent(p)
  /\ Built => Coherent(RecordOf(temp[ldslot]))
  /\ RecordCoherent

\* Packets are told apart: loads are numbered upwards, a packet is in one
\* slot, and it is among the saved records only while its purge is due.
IdInv ==
  /\ nextLoad >= 1
  /\ Built => /\ temp[ldslot].rc = RESULT_WORKING
              /\ temp[ldslot].work.load = nextLoad - 1
              /\ temp[ldslot].work.load \in 1 .. MaxLoads
  /\ \A p \in Problems : main[p].initialized =>
       /\ main[p].work.load < IF Built THEN nextLoad - 1 ELSE nextLoad
       /\ \A q \in Problems :
            main[q].initialized /\ main[q].work.load = main[p].work.load
              => q = p
       /\ \A r \in saved \cup discarded :
            r.work.load = main[p].work.load
              => r = wrdata /\ ldpc = "purge" /\ ldslot = p
  /\ \A r \in saved \cup discarded :
       r.work.load < IF Built THEN nextLoad - 1 ELSE nextLoad
  /\ SavedOnce

\* The record on its way out is the packet in MAIN, or an earlier state of
\* it; a finished one is exactly what MAIN holds.
SaveInv ==
  /\ Saving =>
       /\ wrdata.work.load = main[ldslot].work.load
       /\ wrdata.work.done <= main[ldslot].work.done
       /\ wrdata.rc # RESULT_WORKING => wrdata = RecordOf(main[ldslot])
  /\ ldpc = "purge" =>
       /\ wrdata \in saved \cup discarded
       /\ wrdata.rc # RESULT_WORKING \/ HardStop

IInv ==
  LockInv /\ FlagInv /\ DataInv /\ IdInv /\ SaveInv /\ CounterExact

-----------------------------------------------------------------------------
(* What a slot promises: ProblemSlot, seen through MAIN.  A commit shows    *)
(* from its first half on, a load only when its flags are there.            *)

SlotView ==
  [p \in Problems |->
     {RecordOf(copy) : copy \in
        IF ~main[p].initialized THEN {}
        ELSE IF runpc[p] = "commit" THEN {core[p]} ELSE {main[p]}}]

Slot == INSTANCE ProblemSlot WITH slot <- SlotView, Loads <- 1 .. MaxLoads

\* Every step of the two threads is an atomic step of the slot, or none.
ImplementsSlot == Slot!Spec

=============================================================================
