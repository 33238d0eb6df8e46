--------------------------- MODULE ProblemProofs ---------------------------
(***************************************************************************)
(* Proofs about Problem, for any number of slots, packets and units.       *)
(*                                                                         *)
(* The invariant is built in layers, each inductive relative to the ones   *)
(* below it: TypeOK; LockInv, who holds copy_lock; FlagInv, what the flags *)
(* say about the packet in CORE while the lock is not held; DataInv, that  *)
(* every copy somebody may read is coherent.                               *)
(***************************************************************************)
EXTENDS Problem, FiniteSetTheorems, TLAPS

\* The updates the actions make keep a copy a copy.
LEMMA SetRc ==
  ASSUME NEW copy \in Copy, NEW rc \in ResultCode
  PROVE  [copy EXCEPT !.rc = rc] \in Copy
BY DEF Copy

LEMMA SetWork ==
  ASSUME NEW copy \in Copy, NEW work \in Work
  PROVE  [copy EXCEPT !.work = work] \in Copy
BY DEF Copy

LEMMA SetFlags ==
  ASSUME NEW copy \in Copy, NEW b \in BOOLEAN
  PROVE  /\ [copy EXCEPT !.started = b] \in Copy
         /\ [copy EXCEPT !.initialized = b] \in Copy
BY DEF Copy

LEMMA SetProgress ==
  ASSUME NEW copy \in Copy, NEW d \in 0 .. Total, NEW h \in BOOLEAN
  PROVE  [copy EXCEPT !.work.done = d, !.work.hit = h] \in Copy
BY DEF Copy, Work

LEMMA RecordOfCopy ==
  ASSUME NEW copy \in Copy PROVE RecordOf(copy) \in Record
BY DEF Copy, Record, RecordOf

\* The type invariant of the slots, both threads' locals and the counters.
THEOREM TypeCorrect == Spec => []TypeOK
<1> USE ProblemAssumption DEF TypeOK, Finished, ResultCode,
      RESULT_WORKING, RESULT_NOTHING, RESULT_FOUND, CORE_ERROR, RunPC, LoadPC
<1>1. Init => TypeOK
  <2>1. (CHOOSE c \in Contests : TRUE) \in Contests
    OBVIOUS
  <2>2. ClearedCopy \in Copy
    BY <2>1 DEF ClearedCopy, Copy, Work
  <2> QED
    BY <2>2, RecordOfCopy DEF Init
<1>2. TypeOK /\ [Next]_vars => TypeOK'
  <2> SUFFICES ASSUME TypeOK, [Next]_vars PROVE TypeOK'
    OBVIOUS
  <2> USE DEF slotVars, runVars, loaderVars, histVars
  <2>1. ASSUME NEW p \in Problems, Cruncher(p) PROVE TypeOK'
    <3> USE DEF RunTo
    <3>1. CASE RunEnter(p) BY <3>1 DEF RunEnter
    <3>2. CASE RunLockIn(p) BY <3>2 DEF RunLockIn
    <3>3. CASE RunCopyIn(p)
      <4>1. [main[p] EXCEPT !.started = TRUE] \in Copy
        BY SetFlags
      <4>2. main' \in [Problems -> Copy]
        BY <3>3, <4>1 DEF RunCopyIn
      <4>3. main[p].rc \in ResultCode
        BY DEF Copy
      <4> QED BY <3>3, <4>2, <4>3 DEF RunCopyIn
    <3>4. CASE RunCore(p)
      <4>1. PICK d \in core[p].work.done .. Total, found \in BOOLEAN :
              /\ core' = [core EXCEPT ![p] =
                        [@ EXCEPT !.work.done = d, !.work.hit = found]]
              /\ result' = [result EXCEPT ![p] =
                   IF found THEN RESULT_FOUND
                   ELSE IF d = Total THEN RESULT_NOTHING ELSE RESULT_WORKING]
        BY <3>4 DEF RunCore
      <4>2. d \in 0 .. Total
        BY DEF Copy, Work
      <4>3. [core[p] EXCEPT !.work.done = d, !.work.hit = found] \in Copy
        BY <4>2, SetProgress
      <4>4. core' \in [Problems -> Copy]
        BY <4>1, <4>3
      <4> QED BY <3>4, <4>1, <4>4 DEF RunCore
    <3>5. CASE RunCoreError(p)
      <4>1. PICK rc \in {CORE_ERROR, RESULT_WORKING} :
              /\ core' = [core EXCEPT ![p] = [@ EXCEPT !.rc = rc]]
              /\ result' = [result EXCEPT ![p] = rc]
        BY <3>5 DEF RunCoreError
      <4>2. [core[p] EXCEPT !.rc = rc] \in Copy
        BY SetRc
      <4>3. core' \in [Problems -> Copy]
        BY <4>1, <4>2
      <4> QED BY <3>5, <4>1, <4>3 DEF RunCoreError
    <3>6. CASE RunLockOut(p) BY <3>6 DEF RunLockOut
    <3>7. CASE RunDrop(p) BY <3>7 DEF RunDrop
    <3>8. CASE RunCommitWork(p)
      <4>1. [core[p] EXCEPT !.rc = result[p]] \in Copy
        BY SetRc
      <4>2. core[p].work \in Work
        BY DEF Copy
      <4>3. [main[p] EXCEPT !.work = core[p].work] \in Copy
        BY <4>2, SetWork
      <4>4. core' \in [Problems -> Copy] /\ main' \in [Problems -> Copy]
        BY <3>8, <4>1, <4>3 DEF RunCommitWork
      <4> QED BY <3>8, <4>4 DEF RunCommitWork
    <3>9. CASE RunCommitFlags(p) BY <3>9 DEF RunCommitFlags
    <3> QED
      BY <2>1, <3>1, <3>2, <3>3, <3>4, <3>5, <3>6, <3>7, <3>8, <3>9
      DEF Cruncher
  <2>2. ASSUME Loader PROVE TypeOK'
    <3>1. ASSUME NEW p \in Problems, Visit(p) PROVE TypeOK'
      BY <3>1 DEF Visit
    <3>2. CASE Retrieve BY <3>2, RecordOfCopy DEF Retrieve
    <3>3. CASE RetrieveNone BY <3>3 DEF RetrieveNone
    <3>4. CASE SaveSkip BY <3>4 DEF SaveSkip
    <3>5. CASE SaveOut BY <3>5 DEF SaveOut
    <3>6. CASE Purge
      <4>1. [main[ldslot] EXCEPT !.initialized = FALSE] \in Copy
        BY SetFlags
      <4>2. main' \in [Problems -> Copy]
        BY <3>6, <4>1 DEF Purge
      <4> QED BY <3>6, <4>2 DEF Purge
    <3>7. CASE LoadCopy BY <3>7 DEF LoadCopy
    <3>8. CASE LoadFail BY <3>8 DEF LoadFail
    <3>9. CASE LoadInternal BY <3>9 DEF LoadInternal, Copy, Work
    <3>10. CASE LoadLock BY <3>10 DEF LoadLock
    <3>11. CASE LoadCommitWork
      <4>1. [main[ldslot] EXCEPT !.work = temp[ldslot].work] \in Copy
        BY SetWork DEF Copy
      <4>2. main' \in [Problems -> Copy]
        BY <3>11, <4>1 DEF LoadCommitWork
      <4> QED BY <3>11, <4>2 DEF LoadCommitWork
    <3>12. CASE LoadCommitFlags BY <3>12 DEF LoadCommitFlags
    <3> QED
      BY <2>2, <3>1, <3>2, <3>3, <3>4, <3>5, <3>6, <3>7, <3>8, <3>9, <3>10,
         <3>11, <3>12 DEF Loader
  <2>3. CASE UNCHANGED vars
    BY <2>3 DEF vars
  <2> QED
    BY <2>1, <2>2, <2>3 DEF Next
<1> QED
  BY <1>1, <1>2, PTL DEF Spec

\* The lock: taken when free, released by its holder.
LEMMA LockStep ==
  ASSUME TypeOK, LockInv, [Next]_vars
  PROVE  LockInv'
<1> USE DEF LockInv, TypeOK, RunPC, LoadPC, slotVars, runVars, loaderVars, histVars
<1>1. ASSUME NEW p \in Problems, Cruncher(p) PROVE LockInv'
  <2> USE DEF RunTo
  <2>1. CASE RunEnter(p) BY <2>1 DEF RunEnter
  <2>2. CASE RunLockIn(p) BY <2>2 DEF RunLockIn
  <2>3. CASE RunCopyIn(p) BY <2>3 DEF RunCopyIn
  <2>4. CASE RunCore(p) BY <2>4 DEF RunCore
  <2>5. CASE RunCoreError(p) BY <2>5 DEF RunCoreError
  <2>6. CASE RunLockOut(p) BY <2>6 DEF RunLockOut
  <2>7. CASE RunDrop(p) BY <2>7 DEF RunDrop
  <2>8. CASE RunCommitWork(p) BY <2>8 DEF RunCommitWork
  <2>9. CASE RunCommitFlags(p) BY <2>9 DEF RunCommitFlags
  <2> QED
    BY <1>1, <2>1, <2>2, <2>3, <2>4, <2>5, <2>6, <2>7, <2>8, <2>9
    DEF Cruncher
<1>2. ASSUME Loader PROVE LockInv'
  <2>1. ASSUME NEW p \in Problems, Visit(p) PROVE LockInv'
    BY <2>1 DEF Visit
  <2>2. CASE Retrieve BY <2>2 DEF Retrieve
  <2>3. CASE RetrieveNone BY <2>3 DEF RetrieveNone
  <2>4. CASE SaveSkip BY <2>4 DEF SaveSkip
  <2>5. CASE SaveOut BY <2>5 DEF SaveOut
  <2>6. CASE Purge BY <2>6 DEF Purge
  <2>7. CASE LoadCopy BY <2>7 DEF LoadCopy
  <2>8. CASE LoadFail BY <2>8 DEF LoadFail
  <2>9. CASE LoadInternal BY <2>9 DEF LoadInternal
  <2>10. CASE LoadLock BY <2>10 DEF LoadLock
  <2>11. CASE LoadCommitWork BY <2>11 DEF LoadCommitWork
  <2>12. CASE LoadCommitFlags BY <2>12 DEF LoadCommitFlags
  <2> QED
    BY <1>2, <2>1, <2>2, <2>3, <2>4, <2>5, <2>6, <2>7,
       <2>8, <2>9, <2>10, <2>11, <2>12 DEF Loader
<1>3. CASE UNCHANGED vars
  BY <1>3 DEF vars
<1> QED
  BY <1>1, <1>2, <1>3 DEF Next

\* A purge clears `initialized', a load clears `started', and only the run's
\* own entry sets `started' again: so CORE is stale only when a flag is clear.
LEMMA FlagStep ==
  ASSUME TypeOK, LockInv, FlagInv, [Next]_vars
  PROVE  FlagInv'
<1> USE DEF FlagInv, CoreMatches, StillWanted, InCore, Loading, Built, Saving,
      LockInv, TypeOK, Copy, Work, slotVars, runVars, loaderVars, histVars
<1>1. ASSUME NEW p \in Problems, Cruncher(p) PROVE FlagInv'
  <2> USE DEF RunTo
  <2>1. CASE RunEnter(p) BY <2>1 DEF RunEnter
  <2>2. CASE RunLockIn(p) BY <2>2 DEF RunLockIn
  <2>3. CASE RunCopyIn(p) BY <2>3 DEF RunCopyIn
  <2>4. CASE RunCore(p) BY <2>4 DEF RunCore
  <2>5. CASE RunCoreError(p) BY <2>5 DEF RunCoreError
  <2>6. CASE RunLockOut(p) BY <2>6 DEF RunLockOut
  <2>7. CASE RunDrop(p) BY <2>7 DEF RunDrop
  <2>8. CASE RunCommitWork(p) BY <2>8 DEF RunCommitWork
  <2>9. CASE RunCommitFlags(p) BY <2>9 DEF RunCommitFlags
  <2> QED
    BY <1>1, <2>1, <2>2, <2>3, <2>4, <2>5, <2>6, <2>7, <2>8, <2>9
    DEF Cruncher
<1>2. ASSUME Loader PROVE FlagInv'
  <2>1. ASSUME NEW p \in Problems, Visit(p) PROVE FlagInv'
    BY <2>1 DEF Visit
  <2>2. CASE Retrieve BY <2>2 DEF Retrieve
  <2>3. CASE RetrieveNone BY <2>3 DEF RetrieveNone
  <2>4. CASE SaveSkip BY <2>4 DEF SaveSkip
  <2>5. CASE SaveOut BY <2>5 DEF SaveOut
  <2>6. CASE Purge BY <2>6 DEF Purge
  <2>7. CASE LoadCopy BY <2>7 DEF LoadCopy
  <2>8. CASE LoadFail BY <2>8 DEF LoadFail
  <2>9. CASE LoadInternal BY <2>9 DEF LoadInternal
  <2>10. CASE LoadLock BY <2>10 DEF LoadLock
  <2>11. CASE LoadCommitWork BY <2>11 DEF LoadCommitWork
  <2>12. CASE LoadCommitFlags BY <2>12 DEF LoadCommitFlags
  <2> QED
    BY <1>2, <2>1, <2>2, <2>3, <2>4, <2>5, <2>6, <2>7,
       <2>8, <2>9, <2>10, <2>11, <2>12 DEF Loader
<1>3. CASE UNCHANGED vars
  BY <1>3 DEF vars
<1> QED
  BY <1>1, <1>2, <1>3 DEF Next

\* What a core leaves in its copy agrees with the result code it returns.
LEMMA RunCoreCoherent ==
  ASSUME TypeOK, NEW p \in Problems, RunCore(p)
  PROVE  Coherent([work |-> core'[p].work, rc |-> result'[p]])
<1>1. PICK d \in core[p].work.done .. Total, found \in BOOLEAN :
        /\ core' = [core EXCEPT ![p] =
                      [@ EXCEPT !.work.done = d, !.work.hit = found]]
        /\ result' = [result EXCEPT ![p] =
             IF found THEN RESULT_FOUND
             ELSE IF d = Total THEN RESULT_NOTHING ELSE RESULT_WORKING]
  BY DEF RunCore
<1>2. core[p] \in Copy /\ p \in DOMAIN core /\ p \in DOMAIN result
  BY DEF TypeOK
<1>3. core'[p] = [core[p] EXCEPT !.work.done = d, !.work.hit = found]
  BY <1>1, <1>2
<1>4. core'[p].work.done = d /\ core'[p].work.hit = found
  <2>1. "work" \in DOMAIN core[p]
    BY <1>2 DEF Copy
  <2>2. "done" \in DOMAIN core[p].work /\ "hit" \in DOMAIN core[p].work
    BY <1>2 DEF Copy, Work
  <2>3. core'[p].work = [core[p].work EXCEPT !.done = d, !.hit = found]
    BY <1>3, <2>1
  <2> QED BY <2>2, <2>3
<1>5. result'[p] = IF found THEN RESULT_FOUND
                   ELSE IF d = Total THEN RESULT_NOTHING ELSE RESULT_WORKING
  BY <1>1, <1>2
<1>6. core[p].work.done \in 0 .. Total
  BY <1>2 DEF Copy, Work
<1> QED
  BY <1>1, <1>4, <1>5, <1>6, ProblemAssumption DEF Coherent,
     RESULT_WORKING, RESULT_NOTHING, RESULT_FOUND, CORE_ERROR

\* A core touches nothing but its slot's copy, result and place in the code.
LEMMA RunCoreFrame ==
  ASSUME TypeOK, NEW p \in Problems, RunCore(p)
  PROVE  /\ runpc'[p] = "cored"
         /\ \A q \in Problems \ {p} :
              /\ core'[q] = core[q] /\ result'[q] = result[q]
              /\ runpc'[q] = runpc[q]
         /\ UNCHANGED <<main, temp, ldpc, ldslot, wrdata, saved, discarded>>
BY DEF TypeOK, RunCore, RunTo, loaderVars, histVars

\* A reader that takes the lock finds MAIN coherent: both halves of a blast are
\* made under it, and the result code a run commits is the one of its work.
LEMMA DataStep ==
  ASSUME TypeOK, LockInv, FlagInv, DataInv, [Next]_vars
  PROVE  DataInv'
<1> USE ProblemAssumption
    DEF DataInv, CopiesCoherent, RecordCoherent, Coherent, RecordOf, Built, Saving, Finished,
      ResultCode, RESULT_WORKING, RESULT_NOTHING, RESULT_FOUND, CORE_ERROR,
      LockInv, TypeOK, Copy, Work, Record,
      slotVars, runVars, loaderVars, histVars
<1>1. ASSUME NEW p \in Problems, Cruncher(p) PROVE DataInv'
  <2> USE DEF RunTo
  <2>1. CASE RunEnter(p) BY <2>1 DEF RunEnter
  <2>2. CASE RunLockIn(p) BY <2>2 DEF RunLockIn
  <2>3. CASE RunCopyIn(p) BY <2>3 DEF RunCopyIn
  <2>4. CASE RunCore(p)
    <3>1. Coherent([work |-> core'[p].work, rc |-> result'[p]])
      BY <2>4, RunCoreCoherent
    <3>2. /\ runpc'[p] = "cored"
          /\ \A q \in Problems \ {p} :
               /\ core'[q] = core[q] /\ result'[q] = result[q]
               /\ runpc'[q] = runpc[q]
          /\ UNCHANGED <<main, temp, ldpc, ldslot, wrdata, saved, discarded>>
      BY <2>4, RunCoreFrame
    <3>3. RecordCoherent' /\ (Built => Coherent(RecordOf(temp[ldslot])))'
      BY <3>2
    <3> HIDE DEF Coherent, Copy, Work, Record, RecordOf, TypeOK, LockInv
    <3>4. ASSUME NEW q \in Problems \ {p} PROVE CopiesCoherent(q)'
      BY <3>2
    <3>5. CopiesCoherent(p)'
      BY <3>1, <3>2, <2>4 DEF RunCore
    <3> QED BY <3>3, <3>4, <3>5
  <2>5. CASE RunCoreError(p) BY <2>5 DEF RunCoreError
  <2>6. CASE RunLockOut(p) BY <2>6 DEF RunLockOut
  <2>7. CASE RunDrop(p) BY <2>7 DEF RunDrop
  <2>8. CASE RunCommitWork(p) BY <2>8 DEF RunCommitWork
  <2>9. CASE RunCommitFlags(p) BY <2>9 DEF RunCommitFlags
  <2> QED
    BY <1>1, <2>1, <2>2, <2>3, <2>4, <2>5, <2>6, <2>7, <2>8, <2>9
    DEF Cruncher
<1>2. ASSUME Loader PROVE DataInv'
  <2>1. ASSUME NEW p \in Problems, Visit(p) PROVE DataInv'
    BY <2>1 DEF Visit
  <2>2. CASE Retrieve BY <2>2 DEF Retrieve
  <2>3. CASE RetrieveNone BY <2>3 DEF RetrieveNone
  <2>4. CASE SaveSkip BY <2>4 DEF SaveSkip
  <2>5. CASE SaveOut BY <2>5 DEF SaveOut
  <2>6. CASE Purge BY <2>6 DEF Purge
  <2>7. CASE LoadCopy BY <2>7 DEF LoadCopy
  <2>8. CASE LoadFail BY <2>8 DEF LoadFail
  <2>9. CASE LoadInternal BY <2>9 DEF LoadInternal
  <2>10. CASE LoadLock BY <2>10 DEF LoadLock
  <2>11. CASE LoadCommitWork BY <2>11 DEF LoadCommitWork
  <2>12. CASE LoadCommitFlags BY <2>12 DEF LoadCommitFlags
  <2> QED
    BY <1>2, <2>1, <2>2, <2>3, <2>4, <2>5, <2>6, <2>7,
       <2>8, <2>9, <2>10, <2>11, <2>12 DEF Loader
<1>3. CASE UNCHANGED vars
  BY <1>3 DEF vars
<1> QED
  BY <1>1, <1>2, <1>3 DEF Next

\* Loads are told apart, and a packet is saved once.
LEMMA IdStep ==
  ASSUME TypeOK, LockInv, FlagInv, IdInv, SaveInv, [Next]_vars
  PROVE  IdInv'
<1> USE ProblemAssumption
    DEF IdInv, SavedOnce, SaveInv, FlagInv, CoreMatches, InCore, StillWanted,
      LockInv, Built, Saving, Loading, RecordOf,
      RESULT_WORKING, TypeOK, Copy, Work, Record,
      slotVars, runVars, loaderVars, histVars
<1>1. ASSUME NEW p \in Problems, Cruncher(p) PROVE IdInv'
  <2> USE DEF RunTo
  <2>1. CASE RunEnter(p) BY <2>1 DEF RunEnter
  <2>2. CASE RunLockIn(p) BY <2>2 DEF RunLockIn
  <2>3. CASE RunCopyIn(p) BY <2>3 DEF RunCopyIn
  <2>4. CASE RunCore(p) BY <2>4 DEF RunCore
  <2>5. CASE RunCoreError(p) BY <2>5 DEF RunCoreError
  <2>6. CASE RunLockOut(p) BY <2>6 DEF RunLockOut
  <2>7. CASE RunDrop(p) BY <2>7 DEF RunDrop
  <2>8. CASE RunCommitWork(p) BY <2>8 DEF RunCommitWork
  <2>9. CASE RunCommitFlags(p) BY <2>9 DEF RunCommitFlags
  <2> QED
    BY <1>1, <2>1, <2>2, <2>3, <2>4, <2>5, <2>6, <2>7, <2>8, <2>9
    DEF Cruncher
<1>2. ASSUME Loader PROVE IdInv'
  <2>1. ASSUME NEW p \in Problems, Visit(p) PROVE IdInv'
    BY <2>1 DEF Visit
  <2>2. CASE Retrieve BY <2>2 DEF Retrieve
  <2>3. CASE RetrieveNone BY <2>3 DEF RetrieveNone
  <2>4. CASE SaveSkip BY <2>4 DEF SaveSkip
  <2>5. CASE SaveOut BY <2>5 DEF SaveOut
  <2>6. CASE Purge BY <2>6 DEF Purge
  <2>7. CASE LoadCopy BY <2>7 DEF LoadCopy
  <2>8. CASE LoadFail BY <2>8 DEF LoadFail
  <2>9. CASE LoadInternal BY <2>9 DEF LoadInternal
  <2>10. CASE LoadLock BY <2>10 DEF LoadLock
  <2>11. CASE LoadCommitWork BY <2>11 DEF LoadCommitWork
  <2>12. CASE LoadCommitFlags BY <2>12 DEF LoadCommitFlags
  <2> QED
    BY <1>2, <2>1, <2>2, <2>3, <2>4, <2>5, <2>6, <2>7,
       <2>8, <2>9, <2>10, <2>11, <2>12 DEF Loader
<1>3. CASE UNCHANGED vars
  BY <1>3 DEF vars
<1> QED
  BY <1>1, <1>2, <1>3 DEF Next

\* Between the retrieval and the purge a finished packet stays as retrieved.
LEMMA SaveStep ==
  ASSUME TypeOK, LockInv, FlagInv, SaveInv, [Next]_vars
  PROVE  SaveInv'
<1> USE ProblemAssumption
    DEF SaveInv, FlagInv, CoreMatches, InCore, StillWanted, LockInv, Built,
      Saving, Loading, RecordOf, RESULT_WORKING, TypeOK, Copy, Work, Record,
      slotVars, runVars, loaderVars, histVars
<1>1. ASSUME NEW p \in Problems, Cruncher(p) PROVE SaveInv'
  <2> USE DEF RunTo
  <2>1. CASE RunEnter(p) BY <2>1 DEF RunEnter
  <2>2. CASE RunLockIn(p) BY <2>2 DEF RunLockIn
  <2>3. CASE RunCopyIn(p) BY <2>3 DEF RunCopyIn
  <2>4. CASE RunCore(p) BY <2>4 DEF RunCore
  <2>5. CASE RunCoreError(p) BY <2>5 DEF RunCoreError
  <2>6. CASE RunLockOut(p) BY <2>6 DEF RunLockOut
  <2>7. CASE RunDrop(p) BY <2>7 DEF RunDrop
  <2>8. CASE RunCommitWork(p) BY <2>8 DEF RunCommitWork
  <2>9. CASE RunCommitFlags(p) BY <2>9 DEF RunCommitFlags
  <2> QED
    BY <1>1, <2>1, <2>2, <2>3, <2>4, <2>5, <2>6, <2>7, <2>8, <2>9
    DEF Cruncher
<1>2. ASSUME Loader PROVE SaveInv'
  <2>1. ASSUME NEW p \in Problems, Visit(p) PROVE SaveInv'
    BY <2>1 DEF Visit
  <2>2. CASE Retrieve BY <2>2 DEF Retrieve
  <2>3. CASE RetrieveNone BY <2>3 DEF RetrieveNone
  <2>4. CASE SaveSkip BY <2>4 DEF SaveSkip
  <2>5. CASE SaveOut BY <2>5 DEF SaveOut
  <2>6. CASE Purge BY <2>6 DEF Purge
  <2>7. CASE LoadCopy BY <2>7 DEF LoadCopy
  <2>8. CASE LoadFail BY <2>8 DEF LoadFail
  <2>9. CASE LoadInternal BY <2>9 DEF LoadInternal
  <2>10. CASE LoadLock BY <2>10 DEF LoadLock
  <2>11. CASE LoadCommitWork BY <2>11 DEF LoadCommitWork
  <2>12. CASE LoadCommitFlags BY <2>12 DEF LoadCommitFlags
  <2> QED
    BY <1>2, <2>1, <2>2, <2>3, <2>4, <2>5, <2>6, <2>7,
       <2>8, <2>9, <2>10, <2>11, <2>12 DEF Loader
<1>3. CASE UNCHANGED vars
  BY <1>3 DEF vars
<1> QED
  BY <1>1, <1>2, <1>3 DEF Next

\* A change of the counters and of the slots they count, told as one.
LEMMA SameCount ==
  ASSUME CounterExact, loaded' = loaded,
         \A c \in Contests \cup {All} : Counted(c)' = Counted(c)
  PROVE  CounterExact'
BY DEF CounterExact

\* Only a purge and a load change what loaded_problems[] has to count, and
\* each changes the counter of the packet's contest and the counter of all.
LEMMA CounterStep ==
  ASSUME TypeOK, LockInv, FlagInv, CounterExact, [Next]_vars
  PROVE  CounterExact'
<1> USE ProblemAssumption DEF slotVars, runVars, loaderVars, histVars
<1>1. ASSUME NEW c \in Contests \cup {All}
      PROVE  Counted(c) \subseteq Problems /\ IsFiniteSet(Counted(c))
  <2>1. Counted(c) \subseteq Problems
    BY DEF Counted
  <2> QED BY <2>1, FS_Subset
<1>2. ASSUME NEW p \in Problems, Cruncher(p) PROVE CounterExact'
  <2>1. loaded' = loaded
    BY <1>2 DEF Cruncher, RunEnter, RunLockIn, RunCopyIn, RunCore, RunCoreError,
       RunLockOut, RunDrop, RunCommitWork, RunCommitFlags
  <2>2. UNCHANGED <<temp, ldslot, ldpc>>
    BY <1>2 DEF Cruncher, RunEnter, RunLockIn, RunCopyIn, RunCore, RunCoreError,
       RunLockOut, RunDrop, RunCommitWork, RunCommitFlags
  <2>3. \A q \in Problems :
          /\ main'[q].initialized = main[q].initialized
          /\ main'[q].work.contest = main[q].work.contest
    <3> USE DEF TypeOK, Copy, Work, RunTo
    <3>1. CASE RunCopyIn(p) BY <3>1 DEF RunCopyIn
    <3>2. CASE RunCommitWork(p)
      BY <3>2 DEF RunCommitWork, FlagInv, InCore, CoreMatches
    <3>3. CASE RunCommitFlags(p)
      BY <3>3 DEF RunCommitFlags, FlagInv, InCore, CoreMatches, StillWanted
    <3>4. CASE main' = main BY <3>4
    <3> QED
      BY <1>2, <3>1, <3>2, <3>3, <3>4 DEF Cruncher, RunEnter, RunLockIn, RunCore,
         RunCoreError, RunLockOut, RunDrop
  <2>4. \A c \in Contests \cup {All} : Counted(c)' = Counted(c)
    BY <2>2, <2>3 DEF Counted, InFlight
  <2> QED BY <2>1, <2>4, SameCount
<1>3. ASSUME Loader PROVE CounterExact'
  <2>1. ASSUME NEW p \in Problems, Visit(p) PROVE CounterExact'
    <3>1. \A c \in Contests \cup {All} : Counted(c)' = Counted(c)
      BY <2>1 DEF Visit, Counted, InFlight
    <3> QED BY <2>1, <3>1, SameCount DEF Visit
  <2>2. CASE Retrieve \/ RetrieveNone \/ SaveSkip \/ SaveOut \/ LoadFail
    <3>1. \A c \in Contests \cup {All} : Counted(c)' = Counted(c)
      BY <2>2 DEF Retrieve, RetrieveNone, SaveSkip, SaveOut, LoadFail, Counted,
         InFlight
    <3> QED
      BY <2>2, <3>1, SameCount
      DEF Retrieve, RetrieveNone, SaveSkip, SaveOut, LoadFail
  <2>3. CASE Purge
    <3> DEFINE p == ldslot
               Of == {main[p].work.contest, All}
    <3>1. p \in Problems /\ main[p].initialized /\ main[p].work.contest \in Contests
      BY <2>3 DEF Purge, TypeOK, FlagInv, Saving, Copy, Work
    <3>2. /\ ~main'[p].initialized /\ main'[p].work = main[p].work
          /\ \A q \in Problems \ {p} : main'[q] = main[q]
      BY <2>3 DEF Purge, TypeOK, Copy
    <3>3. ASSUME NEW c \in Contests \cup {All}
          PROVE  /\ Counted(c)' = IF c \in Of THEN Counted(c) \ {p} ELSE Counted(c)
                 /\ c \in Of => p \in Counted(c)
      BY <2>3, <3>1, <3>2 DEF Purge, Counted, InFlight
    <3>4. ASSUME NEW c \in Contests \cup {All}
          PROVE  loaded'[c] = IF c \in Of THEN loaded[c] - 1 ELSE loaded[c]
      BY <2>3 DEF Purge, TypeOK
    <3> HIDE DEF p, Of
    <3>5. ASSUME NEW c \in Contests \cup {All}
          PROVE  loaded'[c] = Cardinality(Counted(c)')
      BY <1>1, <3>3, <3>4, FS_RemoveElement DEF CounterExact
    <3> QED BY <3>5 DEF CounterExact
  <2>4. CASE LoadCopy \/ LoadLock
    <3>1. \A c \in Contests \cup {All} : Counted(c)' = Counted(c)
      BY <2>4 DEF LoadCopy, LoadLock, Counted, InFlight
    <3> QED BY <2>4, <3>1, SameCount DEF LoadCopy, LoadLock
  <2>5. CASE LoadInternal
    <3> DEFINE p == ldslot
    <3>1. p \in Problems /\ ~main[p].initialized
      BY <2>5 DEF LoadInternal, TypeOK, FlagInv, Loading
    <3>2. PICK d \in Contests :
            /\ temp'[p].work.contest = d
            /\ loaded' = [i \in DOMAIN loaded |->
                            IF i \in {d, All} THEN loaded[i] + 1 ELSE loaded[i]]
      BY <2>5 DEF LoadInternal, TypeOK
    <3>3. ASSUME NEW c \in Contests \cup {All}
          PROVE  /\ Counted(c)' = IF c \in {d, All} THEN Counted(c) \cup {p}
                                                   ELSE Counted(c)
                 /\ p \notin Counted(c)
      BY <2>5, <3>1, <3>2 DEF LoadInternal, Counted, InFlight
    <3>4. ASSUME NEW c \in Contests \cup {All}
          PROVE  loaded'[c] = IF c \in {d, All} THEN loaded[c] + 1 ELSE loaded[c]
      BY <3>2 DEF TypeOK
    <3> HIDE DEF p
    <3>5. ASSUME NEW c \in Contests \cup {All}
          PROVE  loaded'[c] = Cardinality(Counted(c)')
      <4>1. /\ IsFiniteSet(Counted(c)) /\ p \notin Counted(c)
            /\ loaded[c] = Cardinality(Counted(c))
        BY <1>1, <3>3 DEF CounterExact
      <4>2. Cardinality(Counted(c) \cup {p}) = loaded[c] + 1
        BY <4>1, FS_AddElement
      <4> QED BY <3>3, <3>4, <4>1, <4>2
    <3> QED BY <3>5 DEF CounterExact
  <2>6. CASE LoadCommitWork
    <3>1. /\ ldslot \in Problems /\ ~main[ldslot].initialized
          /\ ~main'[ldslot].initialized
          /\ \A q \in Problems \ {ldslot} : main'[q] = main[q]
      BY <2>6 DEF LoadCommitWork, TypeOK, FlagInv, Loading, Copy
    <3>2. \A c \in Contests \cup {All} : Counted(c)' = Counted(c)
      BY <2>6, <3>1 DEF LoadCommitWork, Counted, InFlight
    <3> QED BY <2>6, <3>2, SameCount DEF LoadCommitWork
  <2>7. CASE LoadCommitFlags
    <3>1. /\ ldslot \in Problems /\ ~main[ldslot].initialized
          /\ temp[ldslot].initialized /\ main'[ldslot] = temp[ldslot]
          /\ \A q \in Problems \ {ldslot} : main'[q] = main[q]
      BY <2>7 DEF LoadCommitFlags, TypeOK, FlagInv, Loading, Built, Copy
    <3>2. \A c \in Contests \cup {All} : Counted(c)' = Counted(c)
      BY <2>7, <3>1 DEF LoadCommitFlags, Counted, InFlight
    <3> QED BY <2>7, <3>2, SameCount DEF LoadCommitFlags
  <2> QED
    BY <1>3, <2>1, <2>2, <2>3, <2>4, <2>5, <2>6, <2>7 DEF Loader
<1>4. CASE UNCHANGED vars
  BY <1>4 DEF vars, CounterExact, Counted, InFlight
<1> QED
  BY <1>2, <1>3, <1>4 DEF Next

\* Empty slots, no record and no lock: every part of the invariant holds.
LEMMA InitIInv ==
  ASSUME Init PROVE IInv
<1> USE ProblemAssumption DEF Init, ClearedCopy, RecordOf
<1>1. LockInv /\ FlagInv
  BY DEF LockInv, FlagInv, Loading, Built, Saving, InCore, StillWanted
<1>2. DataInv
  BY DEF DataInv, CopiesCoherent, Coherent, RecordCoherent, Built, RESULT_WORKING,
     RESULT_NOTHING, RESULT_FOUND, CORE_ERROR
<1>3. IdInv /\ SaveInv
  BY DEF IdInv, SavedOnce, SaveInv, Built, Saving
<1>4. CounterExact
  <2>1. \A c \in Contests \cup {All} : Counted(c) = {}
    BY DEF Counted, InFlight
  <2> QED BY <2>1, FS_EmptySet DEF CounterExact
<1> QED BY <1>1, <1>2, <1>3, <1>4 DEF IInv

\* The inductive invariant: lock, flags, coherence, identity, the record
\* being saved, and the counters.
THEOREM Invariant == Spec => [](TypeOK /\ IInv)
<1>1. TypeOK /\ IInv /\ [Next]_vars => IInv'
  BY LockStep, FlagStep, DataStep, IdStep, SaveStep, CounterStep DEF IInv
<1>2. Init => IInv
  BY InitIInv
<1>3. Spec => []TypeOK
  BY TypeCorrect
<1> QED BY <1>1, <1>2, <1>3, PTL DEF Spec

\* No run blasts its result into a packet it did not work on.
THEOREM StaleResultsDropped == Spec => []NoStaleResult
<1>1. IInv => NoStaleResult
  BY DEF IInv, FlagInv, CoreMatches, NoStaleResult
<1> QED BY <1>1, Invariant, PTL

\* Every record the saver holds or has written is coherent.
THEOREM RetrievalCoherent == Spec => []RecordCoherent
<1>1. IInv => RecordCoherent
  BY DEF IInv, DataInv
<1> QED BY <1>1, Invariant, PTL

\* A packet is saved at most once, in one form.
THEOREM PacketSavedOnce == Spec => []SavedOnce
<1>1. IInv => SavedOnce
  BY DEF IInv, IdInv
<1> QED BY <1>1, Invariant, PTL

\* loaded_problems[] is exact at every moment, in every contest.
THEOREM LoadedProblemsExact == Spec => []CounterExact
<1>1. IInv => CounterExact
  BY DEF IInv
<1> QED BY <1>1, Invariant, PTL

\* The flag `initialized' of a MAIN is cleared by the loader's purge alone.
LEMMA OnlyPurgeClears ==
  ASSUME TypeOK, FlagInv, [Next]_vars,
         NEW p \in Problems, main[p].initialized, ~main'[p].initialized
  PROVE  Purge /\ p = ldslot
<1> USE DEF TypeOK, Copy, slotVars, runVars, loaderVars, histVars
<1>1. ASSUME NEW q \in Problems, Cruncher(q) PROVE FALSE
  <2> USE DEF RunTo, FlagInv, InCore, CoreMatches, StillWanted
  <2>1. CASE RunCopyIn(q) BY <2>1 DEF RunCopyIn
  <2>2. CASE RunCommitWork(q) BY <2>2 DEF RunCommitWork
  <2>3. CASE RunCommitFlags(q) BY <2>3 DEF RunCommitFlags
  <2>4. CASE main' = main BY <2>4
  <2> QED
    BY <1>1, <2>1, <2>2, <2>3, <2>4 DEF Cruncher, RunEnter, RunLockIn, RunCore,
       RunCoreError, RunLockOut, RunDrop
<1>2. ASSUME Loader PROVE Purge /\ p = ldslot
  <2>1. CASE Purge BY <2>1 DEF Purge
  <2>2. CASE LoadCommitWork BY <2>2 DEF LoadCommitWork
  <2>3. CASE LoadCommitFlags BY <2>3 DEF LoadCommitFlags, FlagInv, Loading, Built
  <2>4. CASE main' = main BY <2>4
  <2> QED
    BY <1>2, <2>1, <2>2, <2>3, <2>4 DEF Loader, Visit, Retrieve, RetrieveNone,
       SaveSkip, SaveOut, LoadCopy, LoadFail, LoadInternal, LoadLock
<1>3. CASE UNCHANGED vars BY <1>3 DEF vars
<1> QED BY <1>1, <1>2, <1>3 DEF Next

\* Without unconditional saves a finished packet leaves only as saved.
THEOREM ResultsKept ==
  ASSUME HardStop = FALSE PROVE Spec => NoResultLost
<1>1. TypeOK /\ IInv /\ [Next]_vars =>
        [\A p \in Problems :
           main[p].initialized /\ ~main'[p].initialized
              /\ main[p].rc \in Finished
           => RecordOf(main[p]) \in saved \cup discarded]_vars
  <2> SUFFICES ASSUME TypeOK, IInv, [Next]_vars,
                      NEW p \in Problems, main[p].initialized,
                      ~main'[p].initialized
               PROVE  RecordOf(main[p]) \in saved \cup discarded
    OBVIOUS
  <2>1. Purge /\ p = ldslot
    BY OnlyPurgeClears DEF IInv
  <2> QED
    BY <2>1 DEF Purge, IInv, SaveInv, Saving
<1> QED BY <1>1, Invariant, PTL DEF Spec, NoResultLost

\* Even with unconditional saves a purge throws away only what was saved or
\* work done since.
THEOREM PurgesBehindSaves == Spec => PurgeNeverAhead
<1>1. TypeOK /\ IInv /\ [Next]_vars =>
        [\A p \in Problems :
           main[p].initialized /\ ~main'[p].initialized
           => \E r \in saved \cup discarded :
                /\ r.work.load = main[p].work.load
                /\ r.work.done <= main[p].work.done]_vars
  <2> SUFFICES ASSUME TypeOK, IInv, [Next]_vars,
                      NEW p \in Problems, main[p].initialized,
                      ~main'[p].initialized
               PROVE  \E r \in saved \cup discarded :
                        /\ r.work.load = main[p].work.load
                        /\ r.work.done <= main[p].work.done
    OBVIOUS
  <2>1. Purge /\ p = ldslot
    BY OnlyPurgeClears DEF IInv
  <2> QED
    BY <2>1 DEF Purge, IInv, SaveInv, Saving
<1> QED BY <1>1, Invariant, PTL DEF Spec, PurgeNeverAhead

\* One step of ProgressKept, for one slot.
LEMMA ProgressStep ==
  ASSUME TypeOK, LockInv, FlagInv, DataInv, [Next]_vars, NEW p \in Problems,
         main[p].initialized, main'[p].initialized,
         main[p].work.load = main'[p].work.load
  PROVE  /\ main[p].work.done <= main'[p].work.done
         /\ main[p].rc \in Finished => RecordOf(main'[p]) = RecordOf(main[p])
<1> DEFINE Goal ==
      /\ main[p].work.done <= main'[p].work.done
      /\ main[p].rc \in Finished => RecordOf(main'[p]) = RecordOf(main[p])
<1> USE DEF TypeOK, Copy, Work, slotVars, runVars, loaderVars, histVars
<1>1. CASE main' = main BY <1>1
<1>2. ASSUME NEW q \in Problems, Cruncher(q) PROVE Goal
  <2> USE DEF RunTo
  <2>1. CASE RunCopyIn(q) BY <2>1 DEF RunCopyIn, RecordOf
  <2>2. CASE RunCommitWork(q)
    BY <2>2 DEF RunCommitWork, FlagInv, InCore, CoreMatches, Finished,
       RESULT_WORKING, RESULT_NOTHING, RESULT_FOUND
  <2>3. CASE RunCommitFlags(q)
    BY <2>3 DEF RunCommitFlags, FlagInv, InCore, CoreMatches, Finished,
       RESULT_WORKING, RESULT_NOTHING, RESULT_FOUND
  <2> QED
    BY <1>1, <1>2, <2>1, <2>2, <2>3 DEF Cruncher, RunEnter, RunLockIn, RunCore,
       RunCoreError, RunLockOut, RunDrop
<1>3. ASSUME Loader PROVE Goal
  <2>1. CASE Purge BY <2>1 DEF Purge
  <2>2. CASE LoadCommitWork BY <2>2 DEF LoadCommitWork, FlagInv, Loading
  <2>3. CASE LoadCommitFlags BY <2>3 DEF LoadCommitFlags, FlagInv, Loading
  <2> QED
    BY <1>1, <1>3, <2>1, <2>2, <2>3 DEF Loader, Visit, Retrieve, RetrieveNone,
       SaveSkip, SaveOut, LoadCopy, LoadFail, LoadInternal, LoadLock
<1> QED BY <1>1, <1>2, <1>3 DEF Next, vars

\* Keys counted as done stay counted, and results stay, while in the slot.
THEOREM ProgressNeverLost == Spec => ProgressKept
<1>1. TypeOK /\ IInv /\ [Next]_vars =>
        [\A p \in Problems :
           /\ main[p].initialized /\ main'[p].initialized
           /\ main[p].work.load = main'[p].work.load
           => /\ main[p].work.done <= main'[p].work.done
              /\ main[p].rc \in Finished
                   => RecordOf(main'[p]) = RecordOf(main[p])]_vars
  BY ProgressStep DEF IInv
<1> QED BY <1>1, Invariant, PTL DEF Spec, ProgressKept

-----------------------------------------------------------------------------
(* Problem implements ProblemSlot. *)

\* What a slot shows to the abstract specification.
LEMMA ViewOf ==
  ASSUME NEW p \in Problems
  PROVE  SlotView[p] =
           IF ~main[p].initialized THEN {}
           ELSE IF runpc[p] = "commit" THEN {RecordOf(core[p])}
                                       ELSE {RecordOf(main[p])}
BY DEF SlotView

\* A slot whose MAIN, place in ProblemRun and copy to commit stay the same
\* shows the same.
LEMMA SameView ==
  ASSUME NEW p \in Problems,
         main'[p].initialized <=> main[p].initialized,
         main[p].initialized =>
           IF runpc[p] = "commit"
           THEN runpc'[p] = "commit" /\ RecordOf(core'[p]) = RecordOf(core[p])
           ELSE runpc'[p] # "commit" /\ RecordOf(main'[p]) = RecordOf(main[p])
  PROVE  SlotView'[p] = SlotView[p]
BY DEF SlotView

\* Two views that agree on every slot are equal.
LEMMA SameViews ==
  ASSUME \A p \in Problems : SlotView'[p] = SlotView[p]
  PROVE  SlotView' = SlotView
BY DEF SlotView

\* A view that changes in one slot is an EXCEPT of the other.
LEMMA OneView ==
  ASSUME NEW p \in Problems,
         \A q \in Problems \ {p} : SlotView'[q] = SlotView[q]
  PROVE  SlotView' = [SlotView EXCEPT ![p] = SlotView'[p]]
BY DEF SlotView

\* The steps of ProblemRun: the commit of a core's result is an advance, and
\* every other step is invisible.
LEMMA CruncherRefines ==
  ASSUME TypeOK, LockInv, FlagInv, DataInv, NEW p \in Problems, Cruncher(p)
  PROVE  Slot!Next \/ UNCHANGED SlotView
<1> USE DEF TypeOK, RunTo, slotVars, runVars, loaderVars, histVars
<1>1. CASE RunEnter(p) \/ RunLockIn(p) \/ RunCore(p) \/ RunCoreError(p)
             \/ RunLockOut(p) \/ RunDrop(p)
  <2>1. \A q \in Problems :
          /\ main'[q] = main[q]
          /\ runpc[q] = "commit" <=> runpc'[q] = "commit"
          /\ runpc[q] = "commit" => core'[q] = core[q]
    BY <1>1 DEF RunEnter, RunLockIn, RunCore, RunCoreError, RunLockOut, RunDrop
  <2> QED BY <2>1, SameView, SameViews
<1>2. CASE RunCopyIn(p)
  <2>1. \A q \in Problems :
          /\ main'[q].initialized = main[q].initialized
          /\ RecordOf(main'[q]) = RecordOf(main[q])
          /\ runpc[q] = "commit" <=> runpc'[q] = "commit"
          /\ runpc[q] = "commit" => core'[q] = core[q]
    BY <1>2 DEF RunCopyIn, RecordOf, Copy
  <2> QED BY <2>1, SameView, SameViews
<1>3. CASE RunCommitWork(p)
  <2>1. /\ main[p].initialized /\ main'[p].initialized
        /\ runpc[p] = "sync" /\ runpc'[p] = "commit"
        /\ RecordOf(core'[p]) = [work |-> core[p].work, rc |-> result[p]]
        /\ CoreMatches(p)
    BY <1>3 DEF RunCommitWork, StillWanted, RecordOf, Copy, FlagInv, InCore
  <2>2. \A q \in Problems \ {p} : SlotView'[q] = SlotView[q]
    <3>1. \A q \in Problems \ {p} :
            main'[q] = main[q] /\ core'[q] = core[q] /\ runpc'[q] = runpc[q]
      BY <1>3 DEF RunCommitWork
    <3> QED BY <3>1, SameView
  <2>3. /\ SlotView[p] = {RecordOf(main[p])}
        /\ SlotView'[p] = {[work |-> core[p].work, rc |-> result[p]]}
    BY <2>1, ViewOf DEF SlotView
  <2>4. /\ Coherent([work |-> core[p].work, rc |-> result[p]])
        /\ Coherent(RecordOf(main[p]))
    BY <2>1, <1>3 DEF DataInv, CopiesCoherent, LockInv
  <2> DEFINE d == core[p].work.done
             h == core[p].work.hit
  <2>5. core[p].work = [load |-> main[p].work.load,
                        contest |-> main[p].work.contest, done |-> d, hit |-> h]
    BY <2>1 DEF CoreMatches, Copy, Work
  <2>6. /\ main[p].work.done <= d /\ d \in 0 .. Total /\ h \in BOOLEAN
        /\ main[p].work.done \in 0 .. Total
        /\ main[p].rc = RESULT_WORKING
    BY <2>1 DEF CoreMatches, Copy, Work
  <2>7. result[p] = Slot!Outcome(d, h)
    BY <2>4, <2>6, ProblemAssumption DEF Coherent, Slot!Outcome, ResultCode,
       Finished, RESULT_WORKING, RESULT_NOTHING, RESULT_FOUND, CORE_ERROR,
       Slot!RESULT_WORKING, Slot!RESULT_NOTHING, Slot!RESULT_FOUND
  <2>8. CASE h \/ d > main[p].work.done
    <3>1. Slot!Advance(p)
      <4>1. SlotView' = [SlotView EXCEPT ![p] =
              {[work |-> [load |-> main[p].work.load,
                          contest |-> main[p].work.contest, done |-> d, hit |-> h],
                rc |-> Slot!Outcome(d, h)]}]
        BY <2>2, <2>3, <2>5, <2>7, OneView
      <4>2. /\ RecordOf(main[p]) \in SlotView[p]
            /\ RecordOf(main[p]).rc = Slot!RESULT_WORKING
            /\ RecordOf(main[p]).work = main[p].work
        BY <2>3, <2>6 DEF RecordOf, RESULT_WORKING, Slot!RESULT_WORKING
      <4>3. d \in main[p].work.done .. Total
        BY <2>6, ProblemAssumption
      <4> HIDE DEF d, h
      <4> QED BY <4>1, <4>2, <4>3, <2>6, <2>8 DEF Slot!Advance
    <3> QED BY <3>1 DEF Slot!Next
  <2>9. CASE ~h /\ d = main[p].work.done
    <3>1. result[p] = RESULT_WORKING /\ ~main[p].work.hit
      BY <2>4, <2>6, <2>9, ProblemAssumption DEF Coherent, RecordOf, ResultCode,
         Finished, RESULT_WORKING, RESULT_NOTHING, RESULT_FOUND, CORE_ERROR
    <3>2. core[p].work = main[p].work
      BY <3>1, <2>5, <2>9 DEF Copy, Work
    <3>3. SlotView'[p] = SlotView[p]
      BY <3>1, <3>2, <2>3, <2>6 DEF RecordOf
    <3> QED BY <3>3, <2>2, SameViews
  <2> QED BY <2>6, <2>8, <2>9
<1>4. CASE RunCommitFlags(p)
  <2>1. /\ main[p].initialized /\ core[p].initialized
        /\ runpc[p] = "commit" /\ runpc'[p] = "out"
        /\ main'[p] = core[p]
    BY <1>4 DEF RunCommitFlags, StillWanted, FlagInv, InCore, CoreMatches
  <2>2. SlotView'[p] = SlotView[p]
    BY <2>1 DEF SlotView
  <2>3. \A q \in Problems \ {p} :
          main'[q] = main[q] /\ core'[q] = core[q] /\ runpc'[q] = runpc[q]
    BY <1>4 DEF RunCommitFlags
  <2>4. \A q \in Problems \ {p} : SlotView'[q] = SlotView[q]
    BY <2>3, SameView
  <2> QED BY <2>2, <2>4, SameViews
<1> QED
  BY <1>1, <1>2, <1>3, <1>4 DEF Cruncher

\* The steps of the main thread: the purge, the last half of a load's blast,
\* and nothing else, are seen.
LEMMA LoaderRefines ==
  ASSUME TypeOK, LockInv, FlagInv, DataInv, IdInv, Loader
  PROVE  Slot!Next \/ UNCHANGED SlotView
<1> USE DEF TypeOK, slotVars, runVars, loaderVars, histVars
<1>1. CASE UNCHANGED <<main, core, runpc>>
  BY <1>1, SameView, SameViews
<1>2. CASE Purge
  <2>1. /\ ldslot \in Problems /\ main[ldslot].initialized
        /\ ~main'[ldslot].initialized
        /\ \A q \in Problems \ {ldslot} :
             main'[q] = main[q] /\ core'[q] = core[q] /\ runpc'[q] = runpc[q]
    BY <1>2 DEF Purge, FlagInv, Saving, Copy
  <2>2. SlotView[ldslot] # {} /\ SlotView'[ldslot] = {}
    BY <2>1 DEF SlotView
  <2>3. \A q \in Problems \ {ldslot} : SlotView'[q] = SlotView[q]
    BY <2>1, SameView
  <2>4. Slot!Purge(ldslot)
    BY <2>1, <2>2, <2>3, OneView DEF Slot!Purge
  <2> QED BY <2>1, <2>4 DEF Slot!Next
<1>3. CASE LoadCommitWork
  <2>1. /\ ldslot \in Problems /\ ~main[ldslot].initialized
        /\ ~main'[ldslot].initialized
        /\ \A q \in Problems \ {ldslot} :
             main'[q] = main[q] /\ core'[q] = core[q] /\ runpc'[q] = runpc[q]
    BY <1>3 DEF LoadCommitWork, FlagInv, Loading, Copy
  <2> QED BY <2>1, SameView, SameViews
<1>4. CASE LoadCommitFlags
  <2> DEFINE p == ldslot
             w == temp[ldslot].work
  <2>1. /\ p \in Problems /\ ~main[p].initialized
        /\ main'[p] = temp[p] /\ temp[p].initialized /\ runpc'[p] # "commit"
        /\ \A q \in Problems \ {p} :
             main'[q] = main[q] /\ core'[q] = core[q] /\ runpc'[q] = runpc[q]
    BY <1>4 DEF LoadCommitFlags, FlagInv, Loading, Built, StillWanted
  <2>2. SlotView[p] = {} /\ SlotView'[p] = {RecordOf(temp[p])}
    BY <2>1 DEF SlotView
  <2>3. /\ w.load \in 1 .. MaxLoads /\ w.load = nextLoad - 1
        /\ temp[p].rc = RESULT_WORKING
    BY <1>4 DEF LoadCommitFlags, IdInv, Built
  <2>4. w.contest \in Contests /\ w.done \in 0 .. Total - 1 /\ ~w.hit
    <3>1. Coherent(RecordOf(temp[p]))
      BY <1>4 DEF LoadCommitFlags, DataInv, Built
    <3>2. w \in Work
      BY DEF Copy
    <3> QED
      BY <3>1, <3>2, <2>3, ProblemAssumption DEF Coherent, RecordOf, Work,
         RESULT_WORKING, RESULT_FOUND
  <2>5. RecordOf(temp[p]) =
          [work |-> [load |-> w.load, contest |-> w.contest, done |-> w.done,
                     hit |-> FALSE], rc |-> Slot!RESULT_WORKING]
    <3>1. w = [load |-> w.load, contest |-> w.contest, done |-> w.done,
               hit |-> FALSE]
      BY <2>4 DEF Copy, Work
    <3> QED
      BY <3>1, <2>3 DEF RecordOf, RESULT_WORKING, Slot!RESULT_WORKING
  <2>6. \A q \in Problems : \A r \in SlotView[q] : r.work.load < w.load
    <3>1. ASSUME NEW q \in Problems, main[q].initialized
          PROVE  /\ main[q].work.load < w.load
                 /\ runpc[q] = "commit" => core[q].work.load = main[q].work.load
      BY <1>4, <2>3, <3>1 DEF LoadCommitFlags, IdInv, Built, FlagInv, InCore,
         StillWanted
    <3> SUFFICES ASSUME NEW q \in Problems, NEW r \in SlotView[q]
                 PROVE  r.work.load < w.load
      OBVIOUS
    <3>2. /\ main[q].initialized
          /\ r = IF runpc[q] = "commit" THEN RecordOf(core[q])
                                        ELSE RecordOf(main[q])
      BY ViewOf
    <3>3. r.work.load = main[q].work.load
      BY <3>1, <3>2 DEF RecordOf
    <3> QED BY <3>1, <3>2, <3>3
  <2>7. SlotView' = [SlotView EXCEPT ![p] = {RecordOf(temp[p])}]
    <3>1. \A q \in Problems \ {p} : SlotView'[q] = SlotView[q]
      BY <2>1, SameView
    <3> QED BY <2>1, <2>2, <3>1, OneView
  <2> HIDE DEF p, w
  <2>8. Slot!Load(p)
    BY <2>2, <2>3, <2>4, <2>5, <2>6, <2>7 DEF Slot!Load
  <2> QED BY <2>1, <2>8 DEF Slot!Next
<1> QED
  BY <1>1, <1>2, <1>3, <1>4 DEF Loader, Visit, Retrieve, RetrieveNone, SaveSkip,
     SaveOut, LoadCopy, LoadFail, LoadInternal, LoadLock

\* To its users a slot is what ProblemSlot says: copies, flags and the lock
\* make every load, result and purge one atomic step.
THEOREM ProblemImplementsSlot == Spec => ImplementsSlot
<1>1. Init => Slot!Init
  BY DEF Init, ClearedCopy, SlotView, Slot!Init
<1>2. TypeOK /\ IInv /\ [Next]_vars => [Slot!Next]_SlotView
  <2> SUFFICES ASSUME TypeOK, IInv, [Next]_vars
               PROVE  Slot!Next \/ UNCHANGED SlotView
    OBVIOUS
  <2>1. CASE UNCHANGED vars
    <3>1. UNCHANGED <<main, core, runpc>>
      BY <2>1 DEF vars, slotVars, runVars
    <3> QED BY <3>1, SameView, SameViews
  <2> QED
    BY <2>1, CruncherRefines, LoaderRefines DEF Next, IInv
<1> QED BY <1>1, <1>2, Invariant, PTL DEF Spec, ImplementsSlot, Slot!Spec

=============================================================================
