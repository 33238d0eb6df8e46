------------------------------ MODULE LoadSave ------------------------------
(***************************************************************************)
(* LoadSaveProblems of common/probfill.cpp: the pass over the problem      *)
(* slots that saves finished packets and loads new ones, the packet limit, *)
(* and its callers: the run loop of common/clirun.cpp and the hard stop of *)
(* the Windows console, which comes from another thread at any moment.     *)
(*                                                                         *)
(* A buffer is a set of packets.  BufferUpdate appears by its outcome (see *)
(* BuffUpdate.tla), a slot by its packet and by whether that is finished   *)
(* (see Problem.tla).  The project takes random packets and is enabled,    *)
(* and nonewblocks, which nothing sets, is 0.  The out-buffer keeps a      *)
(* result as a result: a file in Moo! format does not, see BuffUpdate.     *)
(***************************************************************************)
EXTENDS Integers, FiniteSets, Sequences

CONSTANTS
  Planned,      \* number of problems allocated
  Packets,      \* packets of the buffers
  Randoms,      \* bound: the random packets that can be made
  Tests, Bad,   \* the packets that are test packets; that LoadState refuses
  Limits,       \* the values of blockcount besides -1, until the buffers are empty
  Disturbed,    \* whether other clients use the in-buffer in the middle of a pass, and
                \* an exit request may come while the first pass updates the buffers
  MaxFaults,    \* bound: puts that fail, threads that fail to start
  None

ASSUME LoadSaveAssumption ==
  /\ Planned \in Nat \ {0} /\ MaxFaults \in Nat
  /\ Packets \cap Randoms = {} /\ None \notin Packets \cup Randoms
  /\ Tests \subseteq Packets /\ Bad \subseteq Packets
  /\ Limits \subseteq Nat /\ Disturbed \in BOOLEAN

VARIABLES
  limit, memory,    \* blockcount, nodiskbuffers
  slot,
  inb, outb,        \* the buffers
  others,           \* packets that can be fetched, or that other clients hold
  sent, gone,       \* history: packets flushed; packets lost on the way
  done,             \* BlocksDone of the summary data
  prev, abortive,   \* previous_load_problem_count, abortive_action
  pass,             \* the local variables of LoadSaveProblems
  main, count,      \* where the run loop is, its load_problem_count
  requests,         \* mode requests
  exiting,          \* the exit request trigger
  faults            \* bound

setup  == <<limit, memory>>
stores == <<inb, outb, others, sent, gone>>
vars == <<setup, slot, stores, done, prev, abortive, pass, main, count, requests, exiting, faults>>

Slots == 0 .. Planned - 1
All == Packets \cup Randoms
Empty == [packet |-> None, state |-> "empty"]
IsEmpty(i) == slot[i] = Empty

NoPass == [pc |-> "none", mode |-> "any", order |-> <<>>, count |-> 0, total |-> 0, saved |-> 0,
           loaded |-> 0, empty |-> 0, pending |-> {}, abort |-> FALSE]

Init ==
  /\ limit \in Limits \cup {-1} /\ memory \in BOOLEAN
  /\ slot = [i \in Slots |-> Empty]
  /\ inb \in SUBSET Packets /\ others = Packets \ inb
  /\ (memory => inb = {})
  /\ outb = {} /\ sent = {} /\ gone = {}
  /\ done = 0 /\ prev = 0 /\ abortive = FALSE
  /\ pass = NoPass /\ main = "initial" /\ count = Planned
  /\ requests = {} /\ exiting = FALSE /\ faults = 0

Fault == faults < MaxFaults /\ faults' = faults + 1

-----------------------------------------------------------------------------
(* The begin of a pass. *)

Ascending(n) == [k \in 1 .. n |-> k - 1]
Descending(from, to) == [k \in 1 .. from - to + 1 |-> from - k + 1]

\* Mutant: a resize visits the slots that stay.
SlotOrderKept(mode, n) == IF prev = 0 THEN Ascending(n) ELSE Descending(n - 1, 0)

\* The first pass goes upwards, a resize from the top down to the new size, and
\* every other pass from the top to 0.
SlotOrder(mode, n) ==
  CASE prev = 0 -> Ascending(n)
    [] prev # 0 /\ mode = "resize" -> Descending(prev - 1, n)
    [] OTHER -> Descending(n - 1, 0)

\* Mutant: a count of 0 is taken as it is.
CountedAsGiven(mode, n) == n

\* A count of 0 stands for the last one.
Counted(mode, n) == IF n = 0 /\ mode = "unload" THEN prev ELSE n

Begin(mode, n, abort) ==
  LET m == Counted(mode, n)
  IN pass' = [NoPass EXCEPT !.pc = IF m = 0 THEN "none" ELSE "visit", !.mode = mode,
                !.order = IF m = 0 THEN <<>> ELSE SlotOrder(mode, m), !.count = m,
                !.total = done, !.abort = abort]

\* The thread that runs the pass: that of the run loop, unless the system has
\* suspended it.
Runs == main # "dead" \/ pass.abort
MainRuns == main # "dead" /\ pass.pc = "none"
This == Head(pass.order)
Next1 == [pc |-> IF Tail(pass.order) = <<>> THEN "end" ELSE "visit", order |-> Tail(pass.order)]
Unloading == pass.mode \in {"unload", "resize"}

-----------------------------------------------------------------------------
(* A slot of the pass. *)

\* Mutant: the crunchers at work are not counted (bug 3672 that the source names).
LimitReachedByDone(total, empty) == limit > 0 /\ total >= limit

\* Whether the limit forbids to load, with `total' saved and `empty' slots found.
\* The first pass counts what it has loaded; a later one counts a slot that it
\* has not come to as busy.
LimitReached(total, empty) ==
  /\ limit > 0
  /\ IF pass.mode = "initial" THEN total + pass.loaded >= limit
     ELSE total + pass.count - empty >= limit

\* The slot is left: after a save, and with or without a load to follow.
Leave(saved, empty) ==
  LET total == pass.total + saved
      all == pass.empty + (IF empty THEN 1 ELSE 0)
      load == empty /\ ~Unloading /\ ~LimitReached(total, all)
  IN pass' = [pass EXCEPT !.pc = IF load THEN "load" ELSE Next1.pc,
                !.order = IF load THEN pass.order ELSE Next1.order,
                !.total = total, !.empty = all, !.saved = pass.saved + saved,
                !.pending = IF saved = 1 /\ memory THEN pass.pending \cup {"flush"} ELSE pass.pending]

\* Mutant: RESULT_NOTHING is not taken for a result.
FinitoIfFound(state) == FALSE

\* A packet with a result is a result for the out-buffer.
Finito(state) == state = "done"

Clear == slot' = [slot EXCEPT ![This] = Empty]
Due == slot[This].state = "done" \/ (Unloading /\ ~IsEmpty(This))

\* __IndividualProblemSave of a slot that is empty, or at work.
VisitNothing ==
  /\ Runs /\ pass.pc = "visit" /\ ~Due
  /\ Leave(0, IsEmpty(This))
  /\ UNCHANGED <<setup, slot, stores, done, prev, abortive, main, count, requests, exiting, faults>>

\* A result goes to the out-buffer, an unfinished packet back to the in-buffer.
VisitSaves ==
  /\ Runs /\ pass.pc = "visit" /\ Due
  /\ LET p == slot[This].packet
         finito == Finito(slot[This].state)
     IN /\ outb' = IF finito THEN outb \cup {p} ELSE outb
        /\ inb' = IF finito THEN inb ELSE inb \cup {p}
        /\ done' = IF finito /\ p \notin Tests THEN done + 1 ELSE done
  /\ Clear /\ Leave(1, TRUE)
  /\ UNCHANGED <<setup, others, sent, gone, prev, abortive, main, count, requests, exiting, faults>>

\* When the put fails, the packet is purged all the same.
VisitDiscards ==
  /\ Runs /\ pass.pc = "visit" /\ Due
  /\ Fault
  /\ gone' = gone \cup {slot[This].packet}
  /\ Clear /\ Leave(0, TRUE)
  /\ UNCHANGED <<setup, inb, outb, others, sent, done, prev, abortive, main, count, requests, exiting>>

-----------------------------------------------------------------------------
(* __IndividualProblemLoad, once round its loop. *)

Loading == Runs /\ pass.pc = "load"
LoadOver == pass' = [pass EXCEPT !.pc = Next1.pc, !.order = Next1.order]

\* What LoadState does with packet p, after which n are left in the buffer and
\* `pending' updates are to be asked for; a packet that it refuses is lost, and
\* another one is tried.
LoadState(p, n, pending) ==
  IF p \in Bad THEN /\ gone' = gone \cup {p}
                    /\ pass' = [pass EXCEPT !.pending = pending]
                    /\ UNCHANGED slot
  ELSE /\ slot' = [slot EXCEPT ![This] = [packet |-> p, state |-> "work"]]
       /\ pass' = [pass EXCEPT !.pc = Next1.pc, !.order = Next1.order, !.loaded = pass.loaded + 1,
                     !.empty = pass.empty - 1,
                     !.pending = IF p \in Packets /\ n < pass.count - This
                                   THEN pending \cup {"fetch"} ELSE pending]
       /\ UNCHANGED gone

LoadPacket ==
  /\ Loading
  /\ \E p \in inb :
       /\ inb' = inb \ {p}
       /\ LoadState(p, Cardinality(inb) - 1, pass.pending)
  /\ UNCHANGED <<setup, outb, others, sent, done, prev, abortive, main, count, requests, exiting, faults>>

\* The buffer is empty: BufferUpdate is called in the middle of the pass.
Updates == Loading /\ inb = {} /\ ~exiting /\ limit >= 0

\* It fetches some packets, or none, and may flush the out-buffer; it need not be
\* asked again for what it has done.
BufferUpdate(got, flushed) ==
  /\ others' = others \ got
  /\ outb' = IF flushed THEN {} ELSE outb
  /\ sent' = IF flushed THEN sent \cup outb ELSE sent
StillPending(got, flushed) ==
  pass.pending \ ({s \in {"fetch"} : got # {}} \cup {s \in {"flush"} : flushed})

\* One of the packets that were fetched is loaded.
LoadFetched ==
  /\ Updates
  /\ \E got \in SUBSET others \ {{}}, flushed \in {FALSE, outb # {}} : \E p \in got :
       /\ BufferUpdate(got, flushed) /\ inb' = got \ {p}
       /\ LoadState(p, Cardinality(got) - 1, StillPending(got, flushed))
  /\ UNCHANGED <<setup, done, prev, abortive, main, count, requests, exiting, faults>>

\* Nothing was fetched, so that a random packet is made, ...
LoadRandom ==
  /\ Updates
  /\ \E p \in Randoms, flushed \in {FALSE, outb # {}} :
       /\ p \notin inb \cup outb \cup sent \cup gone /\ \A i \in Slots : slot[i].packet # p
       /\ BufferUpdate({}, flushed)
       /\ LoadState(p, 0, StillPending({}, flushed))
  /\ UNCHANGED <<setup, inb, done, prev, abortive, main, count, requests, exiting, faults>>

\* ... or none, since the client has been asked to stop while the update was going on,
LoadStopped ==
  /\ Updates /\ (pass.mode # "initial" \/ Disturbed)
  /\ \E got \in SUBSET others, flushed \in {FALSE, outb # {}} :
       BufferUpdate(got, flushed) /\ inb' = got
  /\ exiting' = TRUE
  /\ LoadOver
  /\ UNCHANGED <<setup, slot, gone, done, prev, abortive, main, count, requests, faults>>

\* or before, or since only the buffers are run down.
LoadNone ==
  /\ Loading /\ inb = {} /\ (exiting \/ limit < 0)
  /\ LoadOver
  /\ UNCHANGED <<setup, slot, stores, done, prev, abortive, main, count, requests, exiting, faults>>

-----------------------------------------------------------------------------
(* The end of a pass, and where its caller goes on. *)

\* UNLOADALL.  Buffers in memory are flushed, if that works, and emptied.
UnloadEnds ==
  /\ Runs /\ pass.pc = "end" /\ pass.mode = "unload"
  /\ prev' = 0
  /\ \E flushed \in BOOLEAN :
       /\ flushed => memory
       /\ outb' = IF memory THEN {} ELSE outb
       /\ inb' = IF memory THEN {} ELSE inb
       /\ sent' = IF flushed THEN sent \cup outb ELSE sent
       /\ gone' = CASE ~memory -> gone
                    [] memory /\ flushed -> gone \cup inb
                    [] OTHER -> gone \cup inb \cup outb
  /\ pass' = NoPass
  /\ main' = IF pass.abort THEN "dead" ELSE "closed"
  /\ UNCHANGED <<setup, slot, others, done, abortive, count, requests, exiting, faults>>

\* The other modes: an update is asked for, and the exit request may be raised.
\* The run loop takes the number of packets that its first pass has loaded for the
\* number of crunchers to start.
PassReturns(stop) ==
  /\ Runs /\ pass.pc = "end" /\ pass.mode # "unload"
  /\ prev' = pass.count
  /\ requests' = IF pass.pending # {} /\ limit >= 0
                   THEN requests \cup {"flush"} \cup {r \in {"fetch"} : ~exiting} ELSE requests
  /\ exiting' = (exiting \/ (pass.mode # "resize" /\ stop))
  /\ pass' = [NoPass EXCEPT !.mode = pass.mode]
  /\ count' = IF pass.mode = "initial" THEN pass.loaded ELSE count
  /\ main' = CASE pass.mode # "initial" -> "loop"
               [] pass.mode = "initial" /\ ~exiting' /\ count' # 0 -> "start"
               [] OTHER -> "stop"
  /\ UNCHANGED <<memory, slot, stores, done, abortive, faults>>

\* Mutant: the limit must be exceeded.
PassEndsAfterLimit ==
  LET over == limit < 0 \/ (limit > 0 /\ pass.total > limit)
      idle == pass.empty >= pass.count
  IN PassReturns(over /\ idle) /\ UNCHANGED limit

\* Mutant: the shutdown does not wait for all the crunchers.
PassEndsEarly ==
  LET over == limit < 0 \/ (limit > 0 /\ pass.total >= limit)
      idle == pass.empty > 0
  IN PassReturns(over /\ idle) /\ UNCHANGED limit

\* The client stops when it has done what it was told to and its crunchers are idle.
PassEnds ==
  LET over == limit < 0 \/ (limit > 0 /\ pass.total >= limit)
      idle == pass.empty >= pass.count
  IN PassReturns(over /\ idle) /\ UNCHANGED limit

-----------------------------------------------------------------------------
(* The run loop. *)

LoopUnchanged == UNCHANGED <<setup, slot, stores, done, prev, abortive, requests, exiting>>

InitialLoad ==
  /\ MainRuns /\ main = "initial"
  /\ Begin("initial", Planned, FALSE)
  /\ LoopUnchanged /\ UNCHANGED <<main, count, faults>>

\* Crunchers 0 .. k-1 start; the slots of the others are unloaded.  When none starts,
\* all that were loaded are, and the unload at the end has nothing left to do.
StartCrunchers ==
  /\ MainRuns /\ main = "start"
  /\ \E k \in 0 .. count :
       /\ IF k < count THEN Fault ELSE UNCHANGED faults
       /\ count' = k
       /\ \/ k = count /\ UNCHANGED pass
          \/ 0 < k /\ k < count /\ Begin("resize", k, FALSE)
          \/ k = 0 /\ Begin("unload", count, FALSE)
       /\ main' = IF k = 0 THEN "stop" ELSE "loop"
  /\ LoopUnchanged

Refresh ==
  /\ MainRuns /\ main = "loop" /\ ~exiting
  /\ Begin("any", count, FALSE)
  /\ LoopUnchanged /\ UNCHANGED <<main, count, faults>>

LeaveLoop ==
  /\ MainRuns /\ main = "loop" /\ exiting
  /\ main' = "stop"
  /\ LoopUnchanged /\ UNCHANGED <<pass, count, faults>>

UnloadAll ==
  /\ MainRuns /\ main = "stop"
  /\ Begin("unload", count, FALSE)
  /\ main' = IF pass'.pc = "none" THEN "closed" ELSE main
  /\ LoopUnchanged /\ UNCHANGED <<count, faults>>

\* ModeReqRun: the update that was asked for.
ServeRequests ==
  /\ MainRuns /\ main = "loop" /\ requests # {}
  /\ requests' = {}
  /\ \E got \in IF "fetch" \in requests THEN SUBSET others ELSE {{}} :
       others' = others \ got /\ inb' = inb \cup got
  /\ \/ outb' = {} /\ sent' = sent \cup outb
     \/ UNCHANGED <<outb, sent>>
  /\ UNCHANGED <<setup, slot, gone, done, prev, abortive, pass, main, count, exiting, faults>>

-----------------------------------------------------------------------------
(* The crunchers, the other clients, the user and the system. *)

Crunching == main = "loop" \/ (main = "stop" /\ pass.pc = "none")

\* A core that fails leaves the packet at work, to be run again (Problem.tla).
Finish(i) ==
  /\ Crunching /\ i < count /\ slot[i].state = "work"
  /\ slot' = [slot EXCEPT ![i].state = "done"]
  /\ UNCHANGED <<setup, stores, done, prev, abortive, pass, main, count, requests, exiting, faults>>

\* Another client of the shared in-buffer, a file, puts a packet into it, or takes
\* one out.
Share ==
  /\ ~memory /\ (pass.pc = "none" \/ Disturbed)
  /\ \E p \in Packets :
       \/ p \in others /\ inb' = inb \cup {p} /\ others' = others \ {p}
       \/ p \in inb /\ inb' = inb \ {p} /\ others' = others \cup {p}
  /\ UNCHANGED <<setup, slot, outb, sent, gone, done, prev, abortive, pass, main, count, requests, exiting, faults>>

RaiseExit ==
  /\ ~exiting /\ exiting' = TRUE
  /\ UNCHANGED <<setup, slot, stores, done, prev, abortive, pass, main, count, requests, faults>>

\* WM_ENDSESSION: the exit request is raised, all other threads have been
\* suspended, and LoadSaveProblems(NULL, 0, UNLOADALL) is called.  It does nothing
\* when a pass was going on.  The process ends.
HardStop ==
  /\ ~abortive /\ main \notin {"dead", "closed"}
  /\ exiting' = TRUE
  /\ abortive' = (prev # 0 \/ pass.pc # "none")
  /\ main' = "dead"
  /\ IF pass.pc = "none" THEN Begin("unload", 0, TRUE) ELSE UNCHANGED pass
  /\ UNCHANGED <<setup, slot, stores, done, prev, count, requests, faults>>

-----------------------------------------------------------------------------
Visit == VisitNothing \/ VisitSaves \/ VisitDiscards
Load == LoadPacket \/ LoadFetched \/ LoadRandom \/ LoadStopped \/ LoadNone
Pass == Visit \/ Load \/ UnloadEnds \/ PassEnds
RunLoop == InitialLoad \/ StartCrunchers \/ Refresh \/ LeaveLoop \/ UnloadAll
Outside == ServeRequests \/ Share \/ RaiseExit \/ HardStop

Next == Pass \/ RunLoop \/ Outside \/ \E i \in Slots : Finish(i)

Spec == Init /\ [][Next]_vars

\* Every thread runs, and every core ends with its packet: one that failed for ever
\* would keep it, and the client with it.
Fairness ==
  /\ WF_vars(Pass) /\ WF_vars(RunLoop)
  /\ \A i \in Slots : WF_vars(Finish(i))

FairSpec == Spec /\ Fairness

-----------------------------------------------------------------------------
(* Properties. *)

Locals ==
  [pc : {"none", "visit", "load", "end"}, mode : {"initial", "any", "resize", "unload"},
   order : Seq(Slots), count : 0 .. Planned, total : Nat, saved : Nat, loaded : Nat,
   empty : Int, pending : SUBSET {"fetch", "flush"}, abort : BOOLEAN]

TypeOK ==
  /\ limit \in Limits \cup {-1} /\ memory \in BOOLEAN
  /\ slot \in [Slots -> {Empty} \cup [packet : All, state : {"work", "done"}]]
  /\ inb \subseteq All /\ outb \subseteq All /\ others \subseteq Packets
  /\ sent \subseteq All /\ gone \subseteq All
  /\ done \in Nat /\ prev \in 0 .. Planned /\ abortive \in BOOLEAN
  /\ pass \in Locals
  /\ main \in {"initial", "start", "loop", "stop", "closed", "dead"}
  /\ count \in 0 .. Planned /\ requests \subseteq {"fetch", "flush"}
  /\ exiting \in BOOLEAN /\ faults \in 0 .. MaxFaults

Busy == {i \in Slots : ~IsEmpty(i)}

\* A client told to do n packets (-n, run-work-limit) never takes more than n: what
\* it has done and what its slots hold stay within the limit, whichever slots the
\* pass has yet to come to and whatever the crunchers finish meanwhile.  The guard of
\* Take in PacketSupply, below, says it of each load.
LimitKept == limit > 0 => done + Cardinality(Busy) <= limit

\* No packet is in two places, and when the client has stopped by itself none is
\* left in a slot: the slots are freed then.
Conserved ==
  LET held == [i \in Slots |-> slot[i].packet]
      places == <<inb, outb, others, sent, gone>>
  IN /\ \A a, b \in 1 .. 5 : a # b => places[a] \cap places[b] = {}
     /\ \A i \in Busy : /\ \A a \in 1 .. 5 : held[i] \notin places[a]
                        /\ \A j \in Busy : held[i] = held[j] => i = j
     /\ Packets \subseteq inb \cup outb \cup others \cup sent \cup gone \cup {held[i] : i \in Busy}
     /\ main = "closed" => Busy = {}

\* The hard stop, which is told neither the client nor the number of its slots,
\* leaves nothing in a slot, wherever the run loop was; unless a pass was going on.
HardStopSaves == main = "dead" /\ pass.pc = "none" => Busy = {}

\* LoadSaveProblems stops the client only when all crunchers are idle, and the limit
\* is reached or, without one, the in-buffer is empty.
StopsWhenDone ==
  [][exiting' /\ ~exiting /\ pass.pc = "end" /\ pass'.pc = "none"
       => /\ \A i \in 0 .. pass.count - 1 : IsEmpty(i)
          /\ IF limit < 0 THEN inb = {} ELSE Cardinality(outb \cup sent) >= limit]_vars

\* The passes, with all that happens between and during them, do with each packet
\* what PacketSupply promises: a step moves it from one place to a place that may
\* follow, and a slot takes one only while the limit leaves room for it.
In(state) == {slot[i].packet : i \in {j \in Slots : slot[j].state = state}}
Supply == INSTANCE PacketSupply WITH
  away <- others, waiting <- inb, working <- In("work"), finished <- In("done"),
  reported <- outb, lost <- gone
ImplementsSupply == Supply!Spec

\* A client with a limit, or without new work, stops in the end, if its cores end with
\* their packets.
LimitEnds == (limit # 0) ~> (main \in {"closed", "dead"})
=============================================================================
