--------------------------- MODULE RunLoopProofs ---------------------------
(***************************************************************************)
(* Proofs about RunLoop, for any number of crunchers, any menu of requests *)
(* and whether or not |= and &= are one step.                              *)
(*                                                                         *)
(* TypeOK comes first; three invariants follow, each inductive relative to *)
(* TypeOK alone: StopInv, who has exited when the main thread stops        *)
(* waiting; LateInv, which crunchers have used up the one run they had     *)
(* decided on; SuspendInv, where in its loop the main thread may hold      *)
(* crunchers suspended.                                                    *)
(***************************************************************************)
EXTENDS RunLoop, TLAPS

\* Everything the threads share keeps its type; |= and &= of a word that was
\* read some time ago keep to the request bits.
THEOREM RunLoopTypeCorrect == Spec => []TypeOK
<1> USE RunLoopAssumption DEF TypeOK, Packet
<1>1. Init => TypeOK
  <2> SUFFICES ASSUME Init PROVE TypeOK
    OBVIOUS
  <2>1. slots \in [Thread -> Packet]
    BY DEF Init
  <2>2. 0 \in 0 .. MaxAsks
    OBVIOUS
  <2> QED BY <2>1, <2>2 DEF Init
<1>2. TypeOK /\ [Next]_vars => TypeOK'
  <2> SUFFICES ASSUME TypeOK, [Next]_vars PROVE TypeOK'
    OBVIOUS
  <2> USE DEF crunchers, flags, locals, world
  <2>1. ASSUME NEW c \in Thread, Cruncher(c) PROVE TypeOK'
    <3> USE DEF Goto
    <3>1. CASE Begin(c) BY <3>1 DEF Begin
    <3>2. CASE Look(c)
      <4>1. /\ cpc' \in [Thread -> {"new", "top", "enter", "run", "norun", "flag",
                                   "exited"}]
            /\ refill' \in [Thread -> BOOLEAN]
        BY <3>2 DEF Look
      <4> QED BY <3>2, <4>1 DEF Look
    <3>3. CASE Enter(c)
      <4>1. late' \in [Thread -> Nat]
        BY <3>3 DEF Enter
      <4>2. cpc' \in [Thread -> {"new", "top", "enter", "run", "norun", "flag",
                                "exited"}]
        BY <3>3 DEF Enter
      <4> QED BY <3>3, <4>1, <4>2 DEF Enter
    <3>4. CASE Run(c) BY <3>4 DEF Run
    <3>5. CASE NoRun(c) BY <3>5 DEF NoRun
    <3>6. CASE Flag(c) BY <3>6 DEF Flag
    <3>7. CASE Leave(c) BY <3>7 DEF Leave
    <3> QED
      BY <2>1, <3>1, <3>2, <3>3, <3>4, <3>5, <3>6, <3>7 DEF Cruncher
  <2>2. ASSUME Main PROVE TypeOK'
    <3> USE DEF Suspend, Resume
    <3>1. CASE Quit BY <3>1 DEF Quit
    <3>2. CASE GoOn
      <4>1. do_suspend' \in BOOLEAN /\ do_exit' \in BOOLEAN
        BY <3>2 DEF GoOn
      <4>2. late' \in [Thread -> Nat]
        BY <3>2 DEF GoOn
      <4> QED BY <3>2, <4>1, <4>2 DEF GoOn
    <3>3. CASE Save BY <3>3 DEF Save
    <3>4. CASE Load BY <3>4 DEF Load
    <3>5. CASE Visited BY <3>5 DEF Visited
    <3>6. CASE Delegate
      <4>1. {"fetch", "flush"} \subseteq Bits
        BY DEF Bits, Groups
      <4> QED BY <3>6, <4>1 DEF Delegate, Read
    <3>7. CASE ClearRefill BY <3>7 DEF ClearRefill
    <3>8. CASE Modes BY <3>8 DEF Modes
    <3>9. CASE Handshake BY <3>9 DEF Handshake
    <3>10. CASE Round BY <3>10 DEF Round
    <3>11. CASE Perform BY <3>11 DEF Perform
    <3>12. CASE Erase BY <3>12 DEF Erase, Read
    <3>13. CASE RoundDone BY <3>13 DEF RoundDone
    <3>14. CASE Served
      <4>1. do_suspend' \in BOOLEAN /\ do_exit' \in BOOLEAN
        BY <3>14 DEF Served
      <4>2. late' \in [Thread -> Nat]
        BY <3>14 DEF Served
      <4> QED BY <3>14, <4>1, <4>2 DEF Served
    <3>15. CASE StopThread BY <3>15 DEF StopThread
    <3>16. CASE UnloadAll BY <3>16 DEF UnloadAll
    <3> QED
      BY <2>2, <3>1, <3>2, <3>3, <3>4, <3>5, <3>6, <3>7, <3>8, <3>9, <3>10,
         <3>11, <3>12, <3>13, <3>14, <3>15, <3>16 DEF Main
  <2>3. CASE Wake BY <2>3 DEF Wake
  <2>4. CASE RaiseExit BY <2>4 DEF RaiseExit
  <2>5. CASE TogglePause BY <2>5 DEF TogglePause
  <2>6. CASE AskRead BY <2>6 DEF AskRead
  <2>7. CASE AskWrite
    <3>1. PICK a \in ui : /\ reqbits' = Read(a.word) \cup a.request
                          /\ asked' = asked \cup a.request
      BY <2>7 DEF AskWrite
    <3>2. a.word \subseteq Bits /\ a.request \subseteq Bits
      OBVIOUS
    <3> QED BY <2>7, <3>1, <3>2 DEF AskWrite, Read
  <2>8. CASE UNCHANGED vars BY <2>8 DEF vars
  <2> QED
    BY <2>1, <2>2, <2>3, <2>4, <2>5, <2>6, <2>7, <2>8 DEF Next
<1> QED
  BY <1>1, <1>2, PTL DEF Spec

-----------------------------------------------------------------------------
(* Who may still be at work. *)

\* A cruncher reports hasexited exactly before it begins and after it has left
\* its loop; the main thread goes on stopping only past crunchers that have
\* left, so none is at work when it unloads all.
StopInv ==
  /\ \A c \in Thread : exited[c] <=> cpc[c] \in {"new", "exited"}
  /\ mpc = "stop" => \A c \in Thread \ todo : cpc[c] = "exited"
  /\ mpc = "off" => \A c \in Thread : cpc[c] = "exited"
  /\ CoreHasPacket

LEMMA StopStep ==
  ASSUME TypeOK, StopInv, [Next]_vars
  PROVE  StopInv'
<1> USE DEF TypeOK, StopInv, CoreHasPacket, Packet, crunchers, flags, locals, world
<1>1. ASSUME NEW c \in Thread, Cruncher(c) PROVE StopInv'
  <2> USE DEF Goto
  <2>1. CASE Begin(c) BY <2>1 DEF Begin
  <2>2. CASE Look(c) BY <2>2 DEF Look
  <2>3. CASE Enter(c) BY <2>3 DEF Enter
  <2>4. CASE Run(c) BY <2>4 DEF Run
  <2>5. CASE NoRun(c) BY <2>5 DEF NoRun
  <2>6. CASE Flag(c) BY <2>6 DEF Flag
  <2>7. CASE Leave(c) BY <2>7 DEF Leave
  <2> QED
    BY <1>1, <2>1, <2>2, <2>3, <2>4, <2>5, <2>6, <2>7 DEF Cruncher
<1>2. ASSUME Main PROVE StopInv'
  <2>1. CASE Quit BY <2>1 DEF Quit
  <2>2. CASE GoOn BY <2>2 DEF GoOn
  <2>3. CASE Save BY <2>3 DEF Save
  <2>4. CASE Load BY <2>4 DEF Load
  <2>5. CASE Visited BY <2>5 DEF Visited
  <2>6. CASE Delegate BY <2>6 DEF Delegate
  <2>7. CASE ClearRefill BY <2>7 DEF ClearRefill
  <2>8. CASE Modes BY <2>8 DEF Modes
  <2>9. CASE Handshake BY <2>9 DEF Handshake
  <2>10. CASE Round BY <2>10 DEF Round
  <2>11. CASE Perform BY <2>11 DEF Perform
  <2>12. CASE Erase BY <2>12 DEF Erase
  <2>13. CASE RoundDone BY <2>13 DEF RoundDone
  <2>14. CASE Served BY <2>14 DEF Served
  <2>15. CASE StopThread BY <2>15 DEF StopThread
  <2>16. CASE UnloadAll BY <2>16 DEF UnloadAll
  <2> QED
    BY <1>2, <2>1, <2>2, <2>3, <2>4, <2>5, <2>6, <2>7, <2>8, <2>9, <2>10,
       <2>11, <2>12, <2>13, <2>14, <2>15, <2>16 DEF Main
<1>3. ASSUME Wake \/ RaiseExit \/ TogglePause \/ AskRead \/ AskWrite \/ UNCHANGED vars
      PROVE  StopInv'
  BY <1>3 DEF Wake, RaiseExit, TogglePause, AskRead, AskWrite, vars
<1> QED
  BY <1>1, <1>2, <1>3 DEF Next

\* The main thread never takes a packet away from a core that works on it, in
\* its passes or when it unloads all after the last thread was stopped.
THEOREM PacketNotTakenFromCore == Spec => []CoreHasPacket
<1>1. Init => StopInv
  BY DEF Init, StopInv, CoreHasPacket
<1>2. TypeOK /\ StopInv /\ [Next]_vars => StopInv'
  BY StopStep
<1>3. StopInv => CoreHasPacket
  BY DEF StopInv
<1> QED
  BY <1>1, <1>2, <1>3, RunLoopTypeCorrect, PTL DEF Spec

-----------------------------------------------------------------------------
(* How long a suspension takes. *)

\* Runs are late only while do_suspend is set, and a cruncher that has begun a
\* late one is past the look at do_suspend, which keeps it from the next.
LateInv ==
  /\ ~do_suspend => \A c \in Thread : late[c] = 0
  /\ \A c \in Thread : cpc[c] = "enter" => late[c] = 0
  /\ OneRunLate

LEMMA LateStep ==
  ASSUME TypeOK, LateInv, [Next]_vars
  PROVE  LateInv'
<1> USE DEF TypeOK, LateInv, OneRunLate, crunchers, flags, locals, world
<1>1. ASSUME NEW c \in Thread, Cruncher(c) PROVE LateInv'
  <2> USE DEF Goto
  <2>1. CASE Begin(c) BY <2>1 DEF Begin
  <2>2. CASE Look(c) BY <2>2 DEF Look
  <2>3. CASE Enter(c) BY <2>3 DEF Enter
  <2>4. CASE Run(c) BY <2>4 DEF Run
  <2>5. CASE NoRun(c) BY <2>5 DEF NoRun
  <2>6. CASE Flag(c) BY <2>6 DEF Flag
  <2>7. CASE Leave(c) BY <2>7 DEF Leave
  <2> QED
    BY <1>1, <2>1, <2>2, <2>3, <2>4, <2>5, <2>6, <2>7 DEF Cruncher
<1>2. ASSUME Main PROVE LateInv'
  <2> USE DEF Suspend, Resume
  <2>1. CASE Quit BY <2>1 DEF Quit
  <2>2. CASE GoOn BY <2>2 DEF GoOn
  <2>3. CASE Modes BY <2>3 DEF Modes
  <2>4. CASE Served BY <2>4 DEF Served
  <2>5. CASE Save \/ Load \/ Visited \/ Delegate \/ ClearRefill \/ Handshake
    BY <2>5 DEF Save, Load, Visited, Delegate, ClearRefill, Handshake
  <2>6. CASE Round \/ Perform \/ Erase \/ RoundDone \/ StopThread \/ UnloadAll
    BY <2>6 DEF Round, Perform, Erase, RoundDone, StopThread, UnloadAll
  <2> QED
    BY <1>2, <2>1, <2>2, <2>3, <2>4, <2>5, <2>6 DEF Main
<1>3. ASSUME Wake \/ RaiseExit \/ TogglePause \/ AskRead \/ AskWrite \/ UNCHANGED vars
      PROVE  LateInv'
  BY <1>3 DEF Wake, RaiseExit, TogglePause, AskRead, AskWrite, vars
<1> QED
  BY <1>1, <1>2, <1>3 DEF Next

\* A cruncher that is to be suspended, by a pause or for a mode request, begins
\* at most the run it had decided on before it could see the flag.
THEOREM OneLateRunAtMost == Spec => []OneRunLate
<1>1. Init => LateInv
  BY DEF Init, LateInv, OneRunLate
<1>2. TypeOK /\ LateInv /\ [Next]_vars => LateInv'
  BY LateStep
<1>3. LateInv => OneRunLate
  BY DEF LateInv
<1> QED
  BY <1>1, <1>2, <1>3, RunLoopTypeCorrect, PTL DEF Spec

-----------------------------------------------------------------------------
(* Why crunchers are suspended. *)

\* A mode request suspends crunchers only when no pause has done so, and only
\* from there until the main loop is back.
SuspendInv ==
  /\ did_suspend =>
       ~wasPaused /\ mpc \in {"handshake", "serve", "perform", "erase", "served"}
  /\ SuspensionExact

LEMMA SuspendStep ==
  ASSUME TypeOK, SuspendInv, [Next]_vars
  PROVE  SuspendInv'
<1> USE DEF TypeOK, SuspendInv, SuspensionExact, crunchers, flags, locals, world
<1>1. ASSUME NEW c \in Thread, Cruncher(c) PROVE SuspendInv'
  BY <1>1 DEF Cruncher, Begin, Look, Enter, Run, NoRun, Flag, Leave
<1>2. ASSUME Main PROVE SuspendInv'
  <2> USE DEF Suspend, Resume
  <2>1. CASE Quit BY <2>1 DEF Quit
  <2>2. CASE GoOn BY <2>2 DEF GoOn
  <2>3. CASE Modes BY <2>3 DEF Modes
  <2>4. CASE Served BY <2>4 DEF Served
  <2>5. CASE Save \/ Load \/ Visited \/ Delegate \/ ClearRefill \/ Handshake
    BY <2>5 DEF Save, Load, Visited, Delegate, ClearRefill, Handshake
  <2>6. CASE Round \/ Perform \/ Erase \/ RoundDone \/ StopThread \/ UnloadAll
    BY <2>6 DEF Round, Perform, Erase, RoundDone, StopThread, UnloadAll
  <2> QED
    BY <1>2, <2>1, <2>2, <2>3, <2>4, <2>5, <2>6 DEF Main
<1>3. ASSUME Wake \/ RaiseExit \/ TogglePause \/ AskRead \/ AskWrite \/ UNCHANGED vars
      PROVE  SuspendInv'
  BY <1>3 DEF Wake, RaiseExit, TogglePause, AskRead, AskWrite, vars
<1> QED
  BY <1>1, <1>2, <1>3 DEF Next

\* Until the client stops, crunchers are told to be suspended exactly while it
\* is paused or serves a request that wants quiet: did_suspend undoes only
\* what ClientRun did for the request.
THEOREM SuspensionHasReason == Spec => []SuspensionExact
<1>1. Init => SuspendInv
  BY DEF Init, SuspendInv, SuspensionExact
<1>2. TypeOK /\ SuspendInv /\ [Next]_vars => SuspendInv'
  BY SuspendStep
<1>3. SuspendInv => SuspensionExact
  BY DEF SuspendInv
<1> QED
  BY <1>1, <1>2, <1>3, RunLoopTypeCorrect, PTL DEF Spec
=============================================================================
