------------------------------ MODULE RunLoop ------------------------------
(***************************************************************************)
(* The threads of a running client (common/clirun.cpp): the crunchers      *)
(* (Go_mt), the main loop of ClientRun with the mode requests it serves    *)
(* (common/modereq.cpp), and the thread of the Windows console, which sets *)
(* request bits and raises triggers at any time.                           *)
(*                                                                         *)
(* Threads share plain words: the flags in the parameter block of each     *)
(* cruncher, the triggers and modereq.reqbits.  A word is read or written  *)
(* in one step; |= and &= are a read and a write.  What happens inside     *)
(* ProblemRun is the matter of Problem: here a packet is worked on, or not.*)
(***************************************************************************)
EXTENDS Integers, Sequences, FiniteSetsExt

CONSTANTS
  NThreads,    \* load_problem_count: crunchers that were started
  Menu,        \* sets of request bits the console may set
  Locked,      \* BOOLEAN: |= and &= are one step after all
  MaxAsks      \* bound: requests of the console

\* What ModeReqRun serves, in its order.  The tests, which nobody asks for
\* while crunchers run, are like "bench".
Groups == <<{"bench"}, {"config"}, {"fetch", "flush"}>>
Bits == UNION {Groups[i] : i \in DOMAIN Groups}

\* MODEREQ_TEST_MASK|MODEREQ_BENCHMARK_MASK|MODEREQ_CONFIG
Quiet == {"bench", "config"}

ASSUME RunLoopAssumption ==
  /\ NThreads \in Nat \ {0} /\ MaxAsks \in Nat
  /\ Menu \subseteq SUBSET Bits /\ Locked \in BOOLEAN

Thread == 1 .. NThreads

VARIABLES
  slots,        \* state of the packet of each cruncher
  cpc,          \* where each cruncher is
  suspended,    \* is_suspended
  exited,       \* hasexited
  refill,       \* refillneeded
  do_suspend, do_exit,   \* flags, set for all crunchers at once
  mpc,          \* where the main thread is
  todo,         \* slots or threads its loop has still to visit
  wasPaused, did_suspend, restart,   \* locals of ClientRun and ModeReqRun
  bits,         \* local of ModeReqRun: requests of this round still to serve
  word,         \* reqbits as the main thread has read it
  exit, pause,  \* triggers
  reqbits,      \* modereq.reqbits
  ui,           \* a request of the console, and reqbits as it has read it
  late,         \* history: runs each cruncher began since do_suspend was set
  asked,        \* history: requests that were made and not served since
  asks          \* bound

crunchers == <<cpc, suspended, exited, late>>
flags == <<do_suspend, do_exit>>
locals == <<wasPaused, did_suspend, restart, bits, word>>
world == <<pause, ui, asks>>
vars == <<slots, crunchers, refill, flags, mpc, todo, locals, exit, reqbits,
          asked, world>>

\* __StartThread has made the blocks; threads may not have begun.
Init ==
  /\ slots \in [Thread -> {"empty", "working"}]
  /\ cpc = [c \in Thread |-> "new"]
  /\ suspended = [c \in Thread |-> FALSE] /\ exited = [c \in Thread |-> TRUE]
  /\ refill = [c \in Thread |-> FALSE]
  /\ do_suspend = FALSE /\ do_exit = FALSE
  /\ mpc = "decide" /\ todo = {}
  /\ wasPaused = FALSE /\ did_suspend = FALSE /\ restart = FALSE
  /\ bits = {} /\ word = {}
  /\ exit = FALSE /\ pause = FALSE /\ reqbits = {} /\ ui = {}
  /\ late = [c \in Thread |-> 0] /\ asked = {} /\ asks = 0

\* The value of reqbits that |= or &= goes on from.
Read(w) == IF Locked THEN reqbits ELSE w

-----------------------------------------------------------------------------
(* A cruncher, Go_mt. *)

Goto(c, place) == cpc' = [cpc EXCEPT ![c] = place]

\* Mutant: a cruncher is not suspended before its first run.
BeginRunning(c) ==
  /\ cpc[c] = "new" /\ Goto(c, "top")
  /\ exited' = [exited EXCEPT ![c] = FALSE]
  /\ UNCHANGED <<slots, suspended, late, refill, flags, mpc, todo, locals, exit,
                 reqbits, asked, world>>

Begin(c) ==
  /\ cpc[c] = "new" /\ Goto(c, "top")
  /\ exited' = [exited EXCEPT ![c] = FALSE]
  /\ suspended' = [suspended EXCEPT ![c] = TRUE]
  /\ UNCHANGED <<slots, late, refill, flags, mpc, todo, locals, exit, reqbits,
                 asked, world>>

\* Mutant: do_suspend is not looked at while there is work.
LookOnlyAtWork(c) ==
  /\ cpc[c] = "top" /\ ~do_exit
  /\ \/ /\ slots[c] = "empty" /\ refill' = [refill EXCEPT ![c] = TRUE]
        /\ UNCHANGED cpc
     \/ slots[c] # "empty" /\ Goto(c, "enter") /\ UNCHANGED refill
  /\ UNCHANGED <<slots, suspended, exited, late, flags, mpc, todo, locals, exit,
                 reqbits, asked, world>>

\* Top of the loop.  A cruncher that is to be suspended sleeps here.
Look(c) ==
  /\ cpc[c] = "top" /\ ~do_exit /\ ~do_suspend
  /\ \/ /\ slots[c] = "empty" /\ refill' = [refill EXCEPT ![c] = TRUE]
        /\ UNCHANGED cpc
     \/ slots[c] # "empty" /\ Goto(c, "enter") /\ UNCHANGED refill
  /\ UNCHANGED <<slots, suspended, exited, late, flags, mpc, todo, locals, exit,
                 reqbits, asked, world>>

\* ProblemRun is called.  It works only if there is an unfinished packet.
Enter(c) ==
  /\ cpc[c] = "enter"
  /\ Goto(c, IF slots[c] = "working" THEN "run" ELSE "norun")
  /\ suspended' = [suspended EXCEPT ![c] = FALSE]
  /\ late' = [late EXCEPT ![c] = IF do_suspend THEN @ + 1 ELSE @]
  /\ UNCHANGED <<slots, exited, refill, flags, mpc, todo, locals, exit, reqbits,
                 asked, world>>

\* It returns: RESULT_WORKING, or a result just found.
Run(c) ==
  /\ cpc[c] = "run"
  /\ \/ Goto(c, "top") /\ UNCHANGED slots
     \/ Goto(c, "flag") /\ slots' = [slots EXCEPT ![c] = "finished"]
  /\ suspended' = [suspended EXCEPT ![c] = TRUE]
  /\ UNCHANGED <<exited, late, refill, flags, mpc, todo, locals, exit, reqbits,
                 asked, world>>

\* Mutant: only a run that did work asks for a refill.
NoRunNoFlag(c) ==
  /\ cpc[c] = "norun" /\ Goto(c, "top")
  /\ suspended' = [suspended EXCEPT ![c] = TRUE]
  /\ UNCHANGED <<slots, exited, late, refill, flags, mpc, todo, locals, exit,
                 reqbits, asked, world>>

\* It returns an old result, or -1 if there is no packet.
NoRun(c) ==
  /\ cpc[c] = "norun" /\ Goto(c, "flag")
  /\ suspended' = [suspended EXCEPT ![c] = TRUE]
  /\ UNCHANGED <<slots, exited, late, refill, flags, mpc, todo, locals, exit,
                 reqbits, asked, world>>

\* "if (run != RESULT_WORKING)"
Flag(c) ==
  /\ cpc[c] = "flag" /\ Goto(c, "top")
  /\ refill' = [refill EXCEPT ![c] = TRUE]
  /\ UNCHANGED <<slots, suspended, exited, late, flags, mpc, todo, locals, exit,
                 reqbits, asked, world>>

Leave(c) ==
  /\ cpc[c] = "top" /\ do_exit /\ Goto(c, "exited")
  /\ exited' = [exited EXCEPT ![c] = TRUE]
  /\ UNCHANGED <<slots, suspended, late, refill, flags, mpc, todo, locals, exit,
                 reqbits, asked, world>>

Cruncher(c) ==
  Begin(c) \/ Look(c) \/ Enter(c) \/ Run(c) \/ NoRun(c) \/ Flag(c) \/ Leave(c)

-----------------------------------------------------------------------------
(* Main loop of ClientRun. *)

\* __gsc_flag_allthreads(thread_data_table, 's') and (thread_data_table, 0)
Suspend == do_suspend' = TRUE /\ UNCHANGED <<do_exit, late>>
Resume == do_suspend' = FALSE /\ late' = [c \in Thread |-> 0] /\ UNCHANGED do_exit

\* The sleep of up to five seconds ends early if somebody raised an alarm.
Alarm == exit \/ reqbits # {} \/ \E c \in Thread : refill[c]

Wake ==
  /\ mpc = "sleep" /\ mpc' = "decide"
  /\ UNCHANGED <<slots, crunchers, refill, flags, todo, locals, exit, reqbits,
                 asked, world>>

\* A limit is reached or somebody asked to exit: crunchers are told to exit,
\* which takes back their suspension.
Quit ==
  /\ mpc = "decide"
  /\ exit' = TRUE
  /\ do_exit' = TRUE /\ do_suspend' = FALSE /\ late' = [c \in Thread |-> 0]
  /\ mpc' = "stop" /\ todo' = Thread
  /\ UNCHANGED <<slots, cpc, suspended, exited, refill, locals, reqbits, asked,
                 world>>

\* The pause trigger is followed.
GoOn ==
  /\ mpc = "decide" /\ ~exit
  /\ \/ pause /\ ~wasPaused /\ Suspend
     \/ ~pause /\ wasPaused /\ Resume
     \/ pause = wasPaused /\ UNCHANGED <<flags, late>>
  /\ wasPaused' = pause
  /\ mpc' = IF pause THEN "modes" ELSE "visit"
  /\ todo' = IF pause THEN {} ELSE Thread
  /\ UNCHANGED <<slots, cpc, suspended, exited, refill, did_suspend, restart, bits,
                 word, exit, reqbits, asked, world>>

\* LoadSaveProblems: a finished packet is saved, an empty slot is loaded if
\* there is something to load.
Save ==
  /\ mpc = "visit" /\ todo # {} /\ mpc' = "load"
  /\ slots' = [slots EXCEPT ![Max(todo)] = IF @ = "finished" THEN "empty" ELSE @]
  /\ UNCHANGED <<crunchers, refill, flags, todo, locals, exit, reqbits, asked,
                 world>>

Load ==
  /\ mpc = "load" /\ mpc' = "visit"
  /\ \/ slots[Max(todo)] = "empty" /\ slots' = [slots EXCEPT ![Max(todo)] = "working"]
     \/ UNCHANGED slots
  /\ todo' = todo \ {Max(todo)}
  /\ UNCHANGED <<crunchers, refill, flags, locals, exit, reqbits, asked, world>>

\* After the last slot it may find that buffers are to be updated and delegate
\* that to the main loop, with ModeReqSet.
Visited ==
  /\ mpc = "visit" /\ todo = {}
  /\ \/ mpc' = "clear" /\ UNCHANGED word
     \/ mpc' = "delegate" /\ word' = reqbits
  /\ UNCHANGED <<slots, crunchers, refill, flags, todo, wasPaused, did_suspend,
                 restart, bits, exit, reqbits, asked, world>>

Delegate ==
  /\ mpc = "delegate" /\ mpc' = "clear"
  /\ LET update == IF exit THEN {"flush"} ELSE {"fetch", "flush"}
     IN reqbits' = Read(word) \cup update /\ asked' = asked \cup update
  /\ word' = {}
  /\ UNCHANGED <<slots, crunchers, refill, flags, todo, wasPaused, did_suspend,
                 restart, bits, exit, world>>

\* __CheckClearIfRefillNeeded(thread_data_table, 1)
ClearRefill ==
  /\ mpc = "clear" /\ mpc' = "modes"
  /\ refill' = [c \in Thread |-> FALSE]
  /\ UNCHANGED <<slots, crunchers, flags, todo, locals, exit, reqbits, asked, world>>

\* Mutant: the crunchers of a paused client are suspended again, and resumed.
SuspendAnyway ==
  /\ mpc = "modes"
  /\ \/ /\ reqbits = {} /\ mpc' = "sleep"
        /\ UNCHANGED <<flags, late, did_suspend>>
     \/ /\ reqbits # {} /\ reqbits \cap Quiet = {} /\ mpc' = "serve"
        /\ UNCHANGED <<flags, late, did_suspend>>
     \/ /\ reqbits \cap Quiet # {} /\ mpc' = "handshake"
        /\ did_suspend' = TRUE /\ Suspend
  /\ UNCHANGED <<slots, cpc, suspended, exited, refill, todo, wasPaused, restart, bits,
                 word, exit, reqbits, asked, world>>

\* Mode requests: some are served only when the crunchers are suspended.
Modes ==
  /\ mpc = "modes"
  /\ \/ /\ reqbits = {} /\ mpc' = "sleep"
        /\ UNCHANGED <<flags, late, did_suspend>>
     \/ /\ reqbits # {} /\ reqbits \cap Quiet = {} /\ mpc' = "serve"
        /\ UNCHANGED <<flags, late, did_suspend>>
     \/ /\ reqbits \cap Quiet # {} /\ mpc' = "handshake"
        /\ IF wasPaused THEN UNCHANGED <<flags, late, did_suspend>>
           ELSE did_suspend' = TRUE /\ Suspend
  /\ UNCHANGED <<slots, cpc, suspended, exited, refill, todo, wasPaused, restart, bits,
                 word, exit, reqbits, asked, world>>

\* __gsc_flag_allthreads(thread_data_table, 'c')
Handshake ==
  /\ mpc = "handshake" /\ (\A c \in Thread : suspended[c]) /\ mpc' = "serve"
  /\ UNCHANGED <<slots, crunchers, refill, flags, todo, locals, exit, reqbits, asked,
                 world>>

-----------------------------------------------------------------------------
(* ModeReqRun. *)

Round ==
  /\ mpc = "serve"
  /\ mpc' = IF reqbits = {} THEN "served" ELSE "perform"
  /\ bits' = reqbits
  /\ UNCHANGED <<slots, crunchers, refill, flags, todo, wasPaused, did_suspend,
                 restart, word, exit, reqbits, asked, world>>

\* The group that is being served.
Current == Groups[Min({i \in DOMAIN Groups : Groups[i] \cap bits # {}})]

\* It is done; reqbits is read to take its bits away ...
Perform ==
  /\ mpc = "perform" /\ bits # {} /\ mpc' = "erase"
  /\ word' = reqbits
  /\ restart' = (restart \/ Current = {"config"})
  /\ UNCHANGED <<slots, crunchers, refill, flags, todo, wasPaused, did_suspend, bits,
                 exit, reqbits, asked, world>>

\* ... and written.
Erase ==
  /\ mpc = "erase" /\ mpc' = "perform"
  /\ reqbits' = Read(word) \ Current /\ word' = {}
  /\ asked' = asked \ (bits \cap Current)
  /\ bits' = bits \ Current
  /\ UNCHANGED <<slots, crunchers, refill, flags, todo, wasPaused, did_suspend,
                 restart, exit, world>>

\* Another round follows, unless the client is to exit.
RoundDone ==
  /\ mpc = "perform" /\ bits = {}
  /\ mpc' = IF exit THEN "served" ELSE "serve"
  /\ restart' = (restart /\ ~exit)
  /\ UNCHANGED <<slots, crunchers, refill, flags, todo, wasPaused, did_suspend, bits,
                 word, exit, reqbits, asked, world>>

\* Back in the main loop, which does not sleep after this.
Served ==
  /\ mpc = "served" /\ mpc' = "decide"
  /\ exit' = (exit \/ restart) /\ restart' = FALSE
  /\ IF did_suspend THEN Resume ELSE UNCHANGED <<flags, late>>
  /\ did_suspend' = FALSE
  /\ UNCHANGED <<slots, cpc, suspended, exited, refill, todo, wasPaused, bits, word,
                 reqbits, asked, world>>

-----------------------------------------------------------------------------
(* Shutdown. *)

\* Mutant: threads are not waited for.
StopNoWait ==
  /\ mpc = "stop" /\ todo # {} /\ todo' = todo \ {Min(todo)}
  /\ UNCHANGED <<slots, crunchers, refill, flags, mpc, locals, exit, reqbits, asked,
                 world>>

\* __StopThread.  By now the thread has begun.
StopThread ==
  /\ mpc = "stop" /\ todo # {}
  /\ cpc[Min(todo)] # "new" /\ exited[Min(todo)]
  /\ todo' = todo \ {Min(todo)}
  /\ UNCHANGED <<slots, crunchers, refill, flags, mpc, locals, exit, reqbits, asked,
                 world>>

\* PROBFILL_UNLOADALL
UnloadAll ==
  /\ mpc = "stop" /\ todo = {} /\ mpc' = "off"
  /\ slots' = [c \in Thread |-> "empty"]
  /\ UNCHANGED <<crunchers, refill, flags, todo, locals, exit, reqbits, asked, world>>

Main ==
  \/ Quit \/ GoOn \/ Save \/ Load \/ Visited \/ Delegate \/ ClearRefill
  \/ Modes \/ Handshake \/ Round \/ Perform \/ Erase \/ RoundDone \/ Served
  \/ StopThread \/ UnloadAll

-----------------------------------------------------------------------------
(* The console's thread and signals. *)

RaiseExit ==
  /\ ~exit /\ exit' = TRUE
  /\ UNCHANGED <<slots, crunchers, refill, flags, mpc, todo, locals, reqbits, asked,
                 world>>

TogglePause ==
  /\ pause' = ~pause
  /\ UNCHANGED <<slots, crunchers, refill, flags, mpc, todo, locals, exit, reqbits,
                 asked, ui, asks>>

\* ModeReqSet
AskRead ==
  /\ asks < MaxAsks /\ asks' = asks + 1
  /\ ui = {} /\ \E m \in Menu : ui' = {[word |-> reqbits, request |-> m]}
  /\ UNCHANGED <<slots, crunchers, refill, flags, mpc, todo, locals, exit, reqbits,
                 asked, pause>>

AskWrite ==
  /\ \E a \in ui : /\ reqbits' = Read(a.word) \cup a.request
                    /\ asked' = asked \cup a.request
  /\ ui' = {}
  /\ UNCHANGED <<slots, crunchers, refill, flags, mpc, todo, locals, exit, pause, asks>>

Next ==
  \/ \E c \in Thread : Cruncher(c)
  \/ Wake \/ Main
  \/ RaiseExit \/ TogglePause \/ AskRead \/ AskWrite

Spec == Init /\ [][Next]_vars

\* Threads keep running; of the sleep only that an alarm ends it: that
\* refills do not wait for its timer is RefillServed.
FairSpec ==
  /\ Spec
  /\ \A c \in Thread : WF_vars(Cruncher(c))
  /\ WF_vars(Main) /\ WF_vars(Wake /\ Alarm)

-----------------------------------------------------------------------------
(* Properties. *)

Packet == {"empty", "working", "finished"}

TypeOK ==
  /\ slots \in [Thread -> Packet]
  /\ cpc \in [Thread -> {"new", "top", "enter", "run", "norun", "flag", "exited"}]
  /\ suspended \in [Thread -> BOOLEAN] /\ exited \in [Thread -> BOOLEAN]
  /\ refill \in [Thread -> BOOLEAN]
  /\ do_suspend \in BOOLEAN /\ do_exit \in BOOLEAN
  /\ mpc \in {"sleep", "decide", "visit", "load", "delegate", "clear", "modes",
              "handshake", "serve", "perform", "erase", "served", "stop", "off"}
  /\ todo \subseteq Thread
  /\ wasPaused \in BOOLEAN /\ did_suspend \in BOOLEAN /\ restart \in BOOLEAN
  /\ bits \subseteq Bits /\ word \subseteq Bits /\ reqbits \subseteq Bits
  /\ exit \in BOOLEAN /\ pause \in BOOLEAN
  /\ ui \subseteq [word : SUBSET Bits, request : Menu] /\ asks \in 0 .. MaxAsks
  /\ late \in [Thread -> Nat] /\ asked \subseteq Bits

\* The main thread never takes a packet away from a core that works on it:
\* not in its passes, and not when it unloads all at the end.
CoreHasPacket == \A c \in Thread : cpc[c] = "run" => slots[c] = "working"

\* A cruncher that is to be suspended begins at most one more run: the one it
\* had decided on before.
OneRunLate == \A c \in Thread : late[c] <= 1

\* Crunchers are told to be suspended exactly as long as the client is paused
\* or serves a request that wants quiet: serving one does not end a pause, and
\* nobody is left suspended after both.
SuspensionExact ==
  mpc \notin {"stop", "off"} => (do_suspend <=> wasPaused \/ did_suspend)

\* "bits can be set/cleared while active. returns a mask of modebits that were
\* cleared during the run" (modereq.h:67): a request is in reqbits until it
\* has been served.
RequestsKept == asked \subseteq reqbits

\* A finished packet is saved without waiting for the timer of the main
\* loop's sleep, although refill flags are cleared after the pass over the
\* slots and may have been raised during it.
RefillServed ==
  \A c \in Thread :
    slots[c] = "finished" ~> slots[c] # "finished" \/ wasPaused

\* A request to exit ends the client, be it paused, serving requests, or
\* waiting for crunchers to be suspended, some of which may not have begun.
ExitEnds == exit ~> mpc = "off"
=============================================================================
