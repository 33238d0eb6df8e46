------------------------------- MODULE Pausing -------------------------------
(***************************************************************************)
(* How the client pauses, goes on and stops: the triggers of               *)
(* common/triggers.cpp, polled by the run loop of common/clirun.cpp and    *)
(* raised by signal handlers, and the crunchers that run without a thread  *)
(* of their own, as procedures of the polling system (common/pollsys.cpp). *)
(*                                                                         *)
(* The run loop sleeps, and the crunchers run while it does, one call of   *)
(* Go_mt each; it awakes and polls the triggers.  A signal handler runs in *)
(* the thread of the run loop, between two of its instructions: a trigger  *)
(* is loaded, changed and stored by three of them.  This is a Unix build:  *)
(* the pause for a defragmentation and the CPU temperature, which is known *)
(* to no build for CUDA, are left out, and so is the restart after a       *)
(* change of the ini file.                                                 *)
(***************************************************************************)
EXTENDS Integers, FiniteSets, Sequences

CONSTANTS
  Crunchers,    \* number of crunchers
  Apps,         \* number of names in pauseplist
  Chunk,        \* mcount: entries in a piece of the table of procedures
  Signals,      \* "asleep": they come while the run loop sleeps; "anytime"
  None

ASSUME PausingAssumption ==
  /\ Apps \in Nat /\ Chunk \in Nat \ {0}
  /\ Crunchers \in Nat \ {0} /\ Signals \in {"asleep", "anytime"} /\ None \notin Nat

VARIABLES
  world,        \* the flag files, the power source, the programs that run
  trig, last,   \* pausetrig.trigger, a set of TRIGSETBY and TRIGPAUSEBY; .laststate # 0
  lastapp,      \* lastactivep
  exit,         \* exittrig.trigger
  rmw,          \* a trigger that has been loaded and not yet stored
  pc,           \* where the run loop is
  paused,       \* wasPaused
  suspend,      \* do_suspend of the crunchers
  runlist,      \* the table of procedures
  nextrun,      \* where the next scan of it begins, 0 for NULL
  held,         \* pollsysdatapaused
  polled, crunched  \* in this sleep: whether one was called; those that did work

triggers == <<trig, last, lastapp, exit, rmw>>
polling  == <<runlist, nextrun, held>>
vars == <<world, triggers, pc, paused, suspend, polling, polled, crunched>>

Free(list) == {i \in DOMAIN list : list[i] = None}
Least(S) == CHOOSE i \in S : \A j \in S : i <= j

\* RegPolledProcedure: the first entry that is free, or a new piece of the table.
RegPolledProcedure(list, c) ==
  IF Free(list) # {} THEN [list EXCEPT ![Least(Free(list))] = c]
  ELSE list \o [i \in 1 .. Chunk |-> IF i = 1 THEN c ELSE None]

\* The procedures of a sequence are registered, one after the other.
Registered(list, seq) ==
  LET reg[i \in 0 .. Len(seq)] ==
        IF i = 0 THEN list ELSE RegPolledProcedure(reg[i - 1], seq[i])
  IN reg[Len(seq)]

PauseBits == {"signal", "file", "app", "battery"}
NoRmw == [old |-> {}, add |-> {}, del |-> {}, of |-> "none"]

Init ==
  /\ world = [file |-> FALSE, exitfile |-> FALSE, battery |-> "no", apps |-> {}]
  /\ trig = {} /\ last = FALSE /\ lastapp = 1 /\ exit = {}
  /\ rmw = NoRmw
  /\ pc = "exit" /\ paused = FALSE /\ suspend = FALSE
  /\ runlist = Registered(<<>>, [c \in 1 .. Crunchers |-> c])
  /\ nextrun = 0 /\ held = <<>>
  /\ polled = FALSE /\ crunched = {}

-----------------------------------------------------------------------------
(* The polling system. *)

InUse == {i \in DOMAIN runlist : runlist[i] # None}

\* RegQueuedPolledProcedures, the last one held first.
RegQueuedPolledProcedures == Registered(runlist, held)

\* Mutant: the scan begins with the first entry.
ScanFromFirst == IF InUse = {} THEN 0 ELSE Least(InUse)

\* The scan of __RunPollingLoop at the one priority in use: from nextrun on, and
\* round.
Scan ==
  LET from == IF nextrun = 0 THEN 1 ELSE nextrun
      onward == {i \in InUse : i >= from}
  IN IF InUse = {} THEN 0 ELSE Least(IF onward # {} THEN onward ELSE InUse)

\* Mutant: a cruncher that is held stays registered.
CallGoMtTwice ==
  /\ pc = "sleep" /\ Scan # 0
  /\ LET c == runlist[Scan]
     IN /\ nextrun' = IF Scan = Len(runlist) THEN 1 ELSE Scan + 1
        /\ polled' = TRUE
        /\ crunched' = IF suspend THEN crunched ELSE crunched \cup {c}
        /\ held' = IF suspend THEN <<c>> \o held ELSE held
        /\ UNCHANGED runlist
  /\ UNCHANGED <<world, triggers, pc, paused, suspend>>

\* One procedure is taken out and called.  Go_mt works at its packet, unless it is
\* suspended, and registers itself again, or has itself held until the pause ends.
CallGoMt ==
  /\ pc = "sleep" /\ Scan # 0
  /\ LET c == runlist[Scan]
         without == [runlist EXCEPT ![Scan] = None]
     IN /\ nextrun' = IF Scan = Len(runlist) THEN 1 ELSE Scan + 1
        /\ polled' = TRUE
        /\ crunched' = IF suspend THEN crunched ELSE crunched \cup {c}
        /\ held' = IF suspend THEN <<c>> \o held ELSE held
        /\ runlist' = IF suspend THEN without ELSE RegPolledProcedure(without, c)
  /\ UNCHANGED <<world, triggers, pc, paused, suspend>>

\* A second of sleep is over; in each of them a procedure is called, if there is one.
Awake ==
  /\ pc = "sleep" /\ (polled \/ InUse = {})
  /\ pc' = "exit" /\ polled' = FALSE
  /\ UNCHANGED <<world, triggers, paused, suspend, polling, crunched>>

-----------------------------------------------------------------------------
(* The triggers. *)

PollUnchanged == UNCHANGED <<world, paused, suspend, polling, polled, crunched>>

Load(of, old, add, del) == rmw' = [old |-> old, add |-> add, del |-> del, of |-> of]

\* The store that ends a change of a trigger.
Store(next) ==
  /\ rmw.of # "none"
  /\ LET new == (rmw.old \cup rmw.add) \ rmw.del
     IN IF rmw.of = "exit" THEN exit' = new /\ UNCHANGED trig
                           ELSE trig' = new /\ UNCHANGED exit
  /\ rmw' = NoRmw /\ pc' = next

\* CheckExitRequestTrigger looks for the flag file when its nextcheck has come, until
\* the trigger is set.
LookForExitFile ==
  /\ pc = "exit" /\ rmw = NoRmw /\ exit = {}
  /\ Load("exit", exit, {b \in {"file"} : world.exitfile}, {b \in {"file"} : ~world.exitfile})
  /\ UNCHANGED <<trig, exit, pc, last, lastapp>> /\ PollUnchanged

PollExit ==
  /\ pc = "exit"
  /\ \/ LookForExitFile
     \/ Store("exited") /\ UNCHANGED <<last, lastapp>> /\ PollUnchanged
     \/ /\ rmw = NoRmw /\ pc' = "exited"
        /\ UNCHANGED triggers /\ PollUnchanged

\* Mutant: the client does not quit in a pause.
TimeToQuitUnpaused ==
  /\ pc = "exited"
  /\ pc' = IF exit # {} /\ ~paused THEN "stopped" ELSE "app"
  /\ UNCHANGED <<world, triggers, paused, suspend, polling, polled, crunched>>

\* The run loop ends, or goes on with CheckPauseRequestTrigger.  Crunchers without
\* a thread are not waited for.
TimeToQuit ==
  /\ pc = "exited"
  /\ pc' = IF exit # {} THEN "stopped" ELSE "app"
  /\ runlist' = IF exit # {} THEN <<>> ELSE runlist
  /\ held' = IF exit # {} THEN <<>> ELSE held
  /\ nextrun' = IF exit # {} THEN 0 ELSE nextrun
  /\ UNCHANGED <<world, triggers, paused, suspend, polled, crunched>>

\* The program that the client pauses for: the one found before while it runs, and
\* then the first in the list that does; 0 for none.
FirstActive ==
  LET found == {i \in 1 .. Apps : i \in world.apps}
  IN IF "app" \in trig /\ lastapp \in world.apps THEN lastapp
     ELSE IF found = {} THEN 0 ELSE Least(found)

PollApps ==
  /\ pc = "app" /\ UNCHANGED last /\ PollUnchanged
  /\ \/ /\ rmw = NoRmw
        /\ ("app" \in trig) = (FirstActive # 0)
        /\ lastapp' = IF FirstActive = 0 THEN lastapp ELSE FirstActive
        /\ pc' = "battery" /\ UNCHANGED <<trig, exit, rmw>>
     \/ /\ rmw = NoRmw
        /\ ("app" \in trig) # (FirstActive # 0)
        /\ lastapp' = IF FirstActive = 0 THEN 1 ELSE FirstActive
        /\ Load("pause", trig, {b \in {"app"} : FirstActive # 0}, {b \in {"app"} : FirstActive = 0})
        /\ UNCHANGED <<trig, exit, pc>>
     \/ Store("battery") /\ UNCHANGED lastapp

\* Nothing changes while the power source is unknown.
PollBattery ==
  /\ pc = "battery" /\ UNCHANGED <<last, lastapp>> /\ PollUnchanged
  /\ \/ /\ rmw = NoRmw /\ world.battery = "unknown"
        /\ pc' = "file" /\ UNCHANGED <<trig, exit, rmw>>
     \/ /\ rmw = NoRmw /\ world.battery # "unknown"
        /\ Load("pause", trig, {b \in {"battery"} : world.battery = "yes"},
                               {b \in {"battery"} : world.battery = "no"})
        /\ UNCHANGED <<trig, exit, pc>>
     \/ Store("file")

\* Mutant: the trigger is cleared, not the bit of the file.
LookForPauseFileClears ==
  /\ pc = "file" /\ rmw = NoRmw
  /\ Load("pause", trig, {b \in {"file"} : world.file}, {b \in PauseBits : ~world.file})
  /\ UNCHANGED <<trig, exit, pc, last, lastapp>> /\ PollUnchanged

\* __PollExternalTrigger of the pause file, when its nextcheck has come; it is undone
\* when the file is gone.
LookForPauseFile ==
  /\ pc = "file" /\ rmw = NoRmw
  /\ Load("pause", trig, {b \in {"file"} : world.file}, {b \in {"file"} : ~world.file})
  /\ UNCHANGED <<trig, exit, pc, last, lastapp>> /\ PollUnchanged

PollFile ==
  /\ pc = "file"
  /\ \/ LookForPauseFile
     \/ Store("compare") /\ UNCHANGED <<last, lastapp>> /\ PollUnchanged
     \/ /\ rmw = NoRmw /\ pc' = "compare"
        /\ UNCHANGED triggers /\ PollUnchanged

\* The trigger is compared with what it was.  When it has become clear, the
\* procedures held are registered.
Compare ==
  /\ pc = "compare"
  /\ last' = (trig # {})
  /\ IF last /\ trig = {}
       THEN runlist' = RegQueuedPolledProcedures /\ held' = <<>>
       ELSE UNCHANGED <<runlist, held>>
  /\ pc' = "flag"
  /\ UNCHANGED <<world, trig, lastapp, exit, rmw, paused, suspend, nextrun, polled, crunched>>

\* The crunchers are told; the trigger is read again for that.
FlagThreads ==
  /\ pc = "flag"
  /\ paused' = (trig # {})
  /\ suspend' = IF (trig # {}) # paused THEN trig # {} ELSE suspend
  /\ pc' = "sleep" /\ crunched' = {}
  /\ UNCHANGED <<world, triggers, polling, polled>>

-----------------------------------------------------------------------------
(* What comes from outside. *)

Signal(b, raise) ==
  /\ Signals = "asleep" => pc = "sleep"
  /\ pc # "stopped"
  /\ CASE b = "pause" -> /\ trig' = IF raise THEN trig \cup {"signal"} ELSE trig \ {"signal"}
                         /\ UNCHANGED exit
       [] b = "exit"  -> exit' = exit \cup {"signal"} /\ UNCHANGED trig
  /\ UNCHANGED <<world, last, lastapp, rmw, pc, paused, suspend, polling, polled, crunched>>

PauseSignal == Signal("pause", TRUE)
UnpauseSignal == Signal("pause", FALSE)
ExitSignal == Signal("exit", TRUE)

WorldChanges ==
  /\ pc # "stopped"
  /\ \/ world' = [world EXCEPT !.file = ~world.file]
     \/ world' = [world EXCEPT !.exitfile = ~world.exitfile]
     \/ \E b \in {"no", "yes", "unknown"} : b # world.battery /\ world' = [world EXCEPT !.battery = b]
     \/ \E a \in 1 .. Apps :
          world' = [world EXCEPT !.apps = IF a \in world.apps THEN world.apps \ {a} ELSE world.apps \cup {a}]
  /\ UNCHANGED <<triggers, pc, paused, suspend, polling, polled, crunched>>

-----------------------------------------------------------------------------
RunLoop == PollExit \/ TimeToQuit \/ PollApps \/ PollBattery \/ PollFile \/ Compare \/ FlagThreads
Environment == PauseSignal \/ UnpauseSignal \/ ExitSignal \/ WorldChanges

Next == CallGoMt \/ Awake \/ RunLoop \/ Environment

Spec == Init /\ [][Next]_vars

\* The run loop goes on, a sleep ends, and time passes, so that the flag files are
\* looked for again and again.
Fairness ==
  /\ WF_vars(RunLoop) /\ WF_vars(CallGoMt) /\ WF_vars(Awake)
  /\ SF_vars(LookForExitFile) /\ SF_vars(LookForPauseFile)

FairSpec == Spec /\ Fairness

-----------------------------------------------------------------------------
(* Properties. *)

TypeOK ==
  /\ trig \subseteq PauseBits /\ last \in BOOLEAN /\ exit \subseteq {"signal", "file"}
  /\ lastapp \in 1 .. Apps \cup {1}
  /\ pc \in {"sleep", "exit", "exited", "app", "battery", "file", "compare", "flag", "stopped"}
  /\ paused \in BOOLEAN /\ suspend \in BOOLEAN /\ polled \in BOOLEAN
  /\ \A i \in DOMAIN runlist : runlist[i] \in 1 .. Crunchers \cup {None}
  /\ nextrun \in 0 .. Len(runlist) /\ crunched \subseteq 1 .. Crunchers

\* Until the client stops, every cruncher is registered once or held once: none is
\* forgotten when a pause begins or ends, and none is called twice as often.
OnePlace ==
  pc # "stopped" =>
    \A c \in 1 .. Crunchers :
      Cardinality({i \in DOMAIN runlist : runlist[i] = c})
        + Cardinality({i \in DOMAIN held : held[i] = c}) = 1

Reason == "signal" \in trig \/ world.file \/ world.battery # "no" \/ world.apps # {}
Stopped == pc = "stopped"
Quiet == Stopped \/ crunched = {}

\* When no reason to pause is left, every cruncher works again and again: it is
\* released, it is not suspended, and the others let it have its turn.
Resumes == <>[]~Reason => \A c \in 1 .. Crunchers : []<>(Stopped \/ c \in crunched)

\* While the pause file is there, or the client runs on battery, or one program of
\* the list runs, no cruncher works, whatever the others of these reasons do.
Pauses ==
  /\ <>[]world.file => <>[]Quiet
  /\ <>[](world.battery = "yes") => <>[]Quiet
  /\ \A a \in 1 .. Apps : <>[](a \in world.apps) => <>[]Quiet

\* An exit request, and an exit file that stays, end the run loop, paused or not.
ExitObeyed == (exit # {} ~> Stopped) /\ (<>[]world.exitfile => <>Stopped)
=============================================================================
