----------------------------- MODULE BuffUpdate -----------------------------
(***************************************************************************)
(* BufferUpdate of common/buffbase.cpp: a client that fetches work from,   *)
(* and flushes results to, buffer files in another directory (remote       *)
(* buffers), and what it does when that fails.  One project, RC5-72, as in *)
(* the CUDA build.                                                         *)
(*                                                                         *)
(* The network is never used: BufferNetUpdate is a stub (buffpub.cpp:375). *)
(* A remote file of the stock layout is never opened (buffpub.cpp:81), so  *)
(* that remote files are moo files, or files without a record, which have  *)
(* no format (void).  A local buffer is kept in memory or in a moo file.   *)
(*                                                                         *)
(* The order of the records in a buffer is left out; a packet counts for   *)
(* one stats unit, and stats units are counted in whole units.             *)
(***************************************************************************)
EXTENDS Integers, FiniteSets

CONSTANTS
  Packets,
  Threshold,    \* ClientGetInThreshold
  Crunchers,    \* ProblemCountLoaded, or the number of processors
  Limit,        \* __get_threshold_limit: records in a full file
  MemStep, MemMax,                  \* MEMBUFF_STEPS, MEMBUFF_COUNT_MAX
  MinDelay, DoubleUpTo, MaxDelay,   \* 30, 1800, 3600 seconds
  Requests,     \* the sets of services asked for
  MaxFaults     \* bound: reads and writes of a buffer that fail

Services == {"fetch", "flush"}

ASSUME BuffUpdateAssumption ==
  /\ IsFiniteSet(Packets)
  /\ Threshold \in Nat \ {0} /\ Crunchers \in Nat \ {0} /\ Limit \in Nat \ {0}
  /\ MemStep \in Nat \ {0} /\ MemMax \in Nat \ {0}
  /\ MinDelay \in Nat \ {0} /\ DoubleUpTo \in Nat /\ MaxDelay \in Nat
  /\ MinDelay <= DoubleUpTo /\ 2 * DoubleUpTo <= MaxDelay
  /\ Requests \subseteq SUBSET Services /\ MaxFaults \in Nat

VARIABLES
  setup,        \* how the client is configured
  inb, outb,    \* the local buffers
  rin, rout,    \* the remote ones
  void,         \* which of the remote files hold no record and no header
  mooMode,      \* moo_output_mode: some moo file has been seen
  cap,          \* places of the local buffers: maxcount in memory, and the number
                \* of records, blank ones too, that the header of the in-file gives
  away,         \* packets that slots and other clients work at
  gone,         \* history: packets lost since they could not be put back either
  dropped,      \* history: packets lost since they could not be cross-saved
  upd,          \* the local variables of BufferUpdate and of its two loops
  failed,       \* last_buffupd_failed_time # 0
  delay,        \* buffupd_retry_delay
  wait,         \* what is left of it
  exiting,      \* the exit request trigger
  faults        \* bound

packets == <<inb, outb, rin, rout, void, mooMode, cap, away, gone, dropped>>
client  == <<failed, delay, wait>>
vars == <<setup, packets, upd, client, exiting, faults>>

\* The buffers are in memory (nodiskbuffers), or the remote in-buffer is the same
\* file as the local one by mistake, or neither; connectoften; blockcount < 0.  Some
\* combinations that bring nothing new are left out.
Setup == {c \in [memory : BOOLEAN, same : BOOLEAN, topOff : BOOLEAN, runbuffers : BOOLEAN] :
            ~(c.memory /\ c.same) /\ (c.same => ~c.topOff) /\ (c.runbuffers => c.memory /\ ~c.topOff)}

Memory == setup.memory
SameFile == setup.same

Idle == [pc |-> "idle", asked |-> {}, brk |-> FALSE, moved |-> 0, last |-> -1,
         warnings |-> 0, did |-> {}, error |-> FALSE]

Init ==
  /\ setup \in Setup
  /\ \E local, remote \in SUBSET Packets :
       /\ local \cap remote = {}
       /\ Memory => local = {}
       /\ inb = local
       /\ rin = IF SameFile THEN local ELSE remote
       /\ away = Packets \ (IF SameFile THEN local ELSE local \cup remote)
  /\ outb = {} /\ rout = {} /\ gone = {} /\ dropped = {}
  /\ void = {"out"} \cup {x \in {"in"} : rin = {}}
  /\ mooMode = (~Memory /\ inb # {})
  /\ cap = [b \in {"in", "out"} |-> IF b = "in" THEN Cardinality(inb) ELSE 0]
  /\ upd = Idle
  /\ failed = FALSE /\ delay = 0 /\ wait = 0
  /\ exiting = FALSE /\ faults = 0

-----------------------------------------------------------------------------
(* The buffers. *)

\* BufferPutMemRecord makes room when there is none, up to MEMBUFF_COUNT_MAX.  A
\* file grows by a record when none of its records is blank.
Room(b, n) == Memory => n < cap[b] \/ cap[b] < MemMax
Step == IF Memory THEN MemStep ELSE 1
Grown(b, n) ==
  IF n >= cap[b] THEN [cap EXCEPT ![b] = cap[b] + Step] ELSE cap

\* What PutBufferRecord returns: the records of a buffer in memory, and all the
\* places of a moo file.
CountAfterPut(n) == IF Memory THEN n + 1 ELSE Grown("in", n)["in"]

\* BufferAssertIsBufferFull.  In memory, the room taken is compared.
Full == IF Memory THEN cap["in"] >= MemMax ELSE Cardinality(inb) >= Limit

\* Mutant: the limit is compared with the threshold only when it is set, not here.
UnitsThresholdOnly ==
  LET n == Cardinality(inb)
  IN  IF n < Threshold THEN Threshold - n ELSE 0

\* BufferReComputeUnitsToFetch: up to the threshold, or one for each cruncher.
BufferReComputeUnitsToFetch ==
  LET n == Cardinality(inb)
      thresh == IF Threshold > Limit THEN Limit ELSE Threshold
  IN  CASE Full -> 0
        [] ~Full /\ n < thresh -> thresh - n
        [] OTHER -> IF n < Crunchers THEN Crunchers - n ELSE 0

\* BufferCheckIfUpdateNeeded, for a project that is open.
Needed(asked, topOff) ==
     {s \in asked \cap {"fetch"} :
        ~Full /\ (inb = {} \/ (topOff /\ Cardinality(inb) < Threshold))}
  \cup {s \in asked \cap {"flush"} : outb # {}}

\* So many reads and writes fail.
Faults(n) == faults + n <= MaxFaults /\ faults' = faults + n
NoFault == faults' = faults

-----------------------------------------------------------------------------
(* BufferUpdate: begin and end. *)

\* Mutant: the delay is not compared with the time, only with nought.
UpdateBeginNoRetry(services, interactive) ==
  /\ upd.pc = "idle"
  /\ ~(failed /\ delay > 0)
  /\ LET asked == IF setup.runbuffers /\ ~interactive THEN {} ELSE services
         needed == Needed(asked, setup.topOff \/ interactive)
     IN upd' = [Idle EXCEPT !.asked = asked, !.brk = exiting,
                  !.pc = CASE needed = {} -> "end"
                           [] needed # {} /\ "fetch" \in asked -> "fetch"
                           [] OTHER -> "flush"]
  /\ UNCHANGED <<packets, client, exiting, faults>>

\* Nothing is done while the delay runs, nor for a client that only runs its
\* buffers down unless a user asks.  When one of the services is needed,
\* all that were asked for are tried.
UpdateBegin(services, interactive) ==
  /\ upd.pc = "idle"
  /\ ~(failed /\ wait > 0)
  /\ LET asked == IF setup.runbuffers /\ ~interactive THEN {} ELSE services
         needed == Needed(asked, setup.topOff \/ interactive)
     IN upd' = [Idle EXCEPT !.asked = asked, !.brk = exiting,
                  !.pc = CASE needed = {} -> "end"
                           [] needed # {} /\ "fetch" \in asked -> "fetch"
                           [] OTHER -> "flush"]
  /\ UNCHANGED <<packets, client, exiting, faults>>

\* 30, 60, ... 1920, 3600 seconds.
NextDelay(d) ==
  CASE d < MinDelay -> MinDelay
    [] d >= MinDelay /\ d <= DoubleUpTo -> 2 * d
    [] OTHER -> MaxDelay

\* Mutant: the time of the last failure is not forgotten.
UpdateEndKeeps ==
  /\ upd.pc = "end"
  /\ failed' = (failed \/ upd.did = {})
  /\ delay' = IF upd.did # {} THEN 0 ELSE NextDelay(delay)
  /\ wait' = delay'
  /\ upd' = Idle
  /\ UNCHANGED <<packets, exiting, faults>>

\* An update that moved no packet counts as a failure, also when none was needed.
UpdateEnd ==
  /\ upd.pc = "end"
  /\ failed' = (upd.did = {})
  /\ delay' = IF upd.did # {} THEN 0 ELSE NextDelay(delay)
  /\ wait' = delay'
  /\ upd' = Idle
  /\ UNCHANGED <<packets, exiting, faults>>

-----------------------------------------------------------------------------
(* BufferFetchFile. *)

\* An error keeps BufferUpdate from flushing; what was moved still counts.
FetchEnd(error, moved) ==
  upd' = [upd EXCEPT !.pc = IF error \/ "flush" \notin upd.asked THEN "end" ELSE "flush",
                     !.error = error,
                     !.did = IF moved > 0 THEN @ \cup {"fetch"} ELSE @,
                     !.moved = 0, !.last = -1, !.warnings = 0]

FetchStop ==
  /\ upd.pc = "fetch"
  /\ (exiting /\ ~upd.brk) \/ BufferReComputeUnitsToFetch = 0
  /\ FetchEnd(FALSE, upd.moved)
  /\ UNCHANGED <<packets, client, exiting, faults>>

Fetching ==
  /\ upd.pc = "fetch" /\ ~(exiting /\ ~upd.brk)
  /\ BufferReComputeUnitsToFetch > 0
  /\ UNCHANGED <<client, exiting>>

\* The file cannot be read, or has no record and so no format.
FetchGetFails ==
  /\ Fetching
  /\ IF "in" \in void THEN NoFault ELSE Faults(1)
  /\ FetchEnd(TRUE, upd.moved)
  /\ UNCHANGED packets

\* All the records are blank: the file is truncated.
FetchGetEmpty ==
  /\ Fetching /\ "in" \notin void /\ rin = {}
  /\ void' = void \cup {"in"} /\ mooMode' = TRUE
  /\ cap' = IF SameFile THEN [cap EXCEPT !["in"] = 0] ELSE cap
  /\ FetchEnd(FALSE, upd.moved)
  /\ NoFault
  /\ UNCHANGED <<inb, outb, rin, rout, away, gone, dropped>>

\* MAX_REMOTE_BUFFER_WARNINGS.
MaxWarnings == 3

\* Mutant: a buffer that does not grow is not noticed.
FetchPacketForever(p) ==
  /\ Fetching /\ "in" \notin void
  /\ LET before == Cardinality(inb \ {p})
         remaining == Cardinality(rin \ {p})
     IN /\ Room("in", before)
        /\ inb' = inb \cup {p} /\ cap' = Grown("in", before)
        /\ rin' = IF SameFile THEN rin ELSE rin \ {p}
        /\ IF remaining = 0 \/ BufferReComputeUnitsToFetch = 1
           THEN FetchEnd(FALSE, upd.moved + 1)
           ELSE upd' = [upd EXCEPT !.moved = 1]
  /\ mooMode' = TRUE /\ NoFault
  /\ UNCHANGED <<outb, rout, void, away, gone, dropped>>

\* A packet is taken from the remote buffer and put into the local one.
FetchPacket(p) ==
  /\ Fetching /\ "in" \notin void
  /\ LET before == Cardinality(inb \ {p})
         remaining == Cardinality(rin \ {p})
         count == CountAfterPut(before)
         stuck == upd.moved > 0 /\ upd.last >= count
     IN /\ Room("in", before)
        /\ inb' = inb \cup {p} /\ cap' = Grown("in", before)
        /\ rin' = IF SameFile THEN rin ELSE rin \ {p}
        /\ IF \/ stuck /\ upd.warnings = MaxWarnings
              \/ remaining = 0
              \/ BufferReComputeUnitsToFetch = 1
           THEN FetchEnd(FALSE, upd.moved + 1)
           ELSE upd' = [upd EXCEPT !.moved = 1, !.last = count,
                                   !.warnings = IF stuck THEN @ + 1 ELSE @]
  /\ mooMode' = TRUE /\ NoFault
  /\ UNCHANGED <<outb, rout, void, away, gone, dropped>>

\* Mutant: the packet is not put back.
FetchPutFailsDrops(p) ==
  /\ Fetching /\ "in" \notin void
  /\ Faults(1)
  /\ rin' = rin \ {p} /\ inb' = IF SameFile THEN rin' ELSE inb
  /\ gone' = gone \cup {p}
  /\ mooMode' = TRUE
  /\ FetchEnd(TRUE, upd.moved)
  /\ UNCHANGED <<outb, rout, void, cap, away, dropped>>

\* It cannot be put there, and is put back; when that write fails too, it is lost.
FetchPutFails(p) ==
  /\ Fetching /\ "in" \notin void
  /\ \/ /\ Faults(1)
        /\ UNCHANGED <<rin, inb, gone>>
     \/ /\ Faults(2)
        /\ rin' = rin \ {p} /\ inb' = IF SameFile THEN rin' ELSE inb
        /\ gone' = gone \cup {p}
  /\ mooMode' = TRUE
  /\ FetchEnd(TRUE, upd.moved)
  /\ UNCHANGED <<outb, rout, void, cap, away, dropped>>

-----------------------------------------------------------------------------
(* BufferFlushFile. *)

FlushEnd(error, moved) ==
  upd' = [upd EXCEPT !.pc = "end", !.error = error,
                     !.did = IF moved > 0 THEN @ \cup {"flush"} ELSE @]

FlushStop ==
  /\ upd.pc = "flush"
  /\ (exiting /\ ~upd.brk) \/ outb = {}
  /\ FlushEnd(FALSE, upd.moved)
  /\ UNCHANGED <<packets, client, exiting, faults>>

Flushing ==
  /\ upd.pc = "flush" /\ ~(exiting /\ ~upd.brk)
  /\ outb # {}
  /\ UNCHANGED client

\* GetBufferRecord on a moo out-buffer: every record is read as RESULT_WORKING
\* (buffpub.cpp:281), which does not belong there and is cross-saved into the
\* in-buffer.  A packet whose write fails there is neither put back nor counted as
\* an error.  The loop ends when no record is left, or before, when one cannot be
\* read or the client is asked to exit.
FlushCrossSaves ==
  /\ Flushing /\ ~Memory
  /\ \E read \in SUBSET outb : \E lost \in SUBSET read :
       /\ \/ read = outb /\ Faults(Cardinality(lost)) /\ UNCHANGED exiting
          \/ /\ read # outb /\ read # {} /\ ~upd.brk
             /\ Faults(Cardinality(lost)) /\ exiting' = TRUE
          \/ read # outb /\ Faults(Cardinality(lost) + 1) /\ UNCHANGED exiting
       /\ outb' = outb \ read /\ dropped' = dropped \cup lost
       /\ inb' = inb \cup (read \ lost)
  /\ LET size == Cardinality(inb')
     IN cap' = IF size > cap["in"] THEN [cap EXCEPT !["in"] = size] ELSE cap
  /\ rin' = IF SameFile THEN inb' ELSE rin
  /\ void' = IF SameFile /\ inb' # inb THEN void \ {"in"} ELSE void
  /\ mooMode' = TRUE
  /\ FlushEnd(FALSE, upd.moved)
  /\ UNCHANGED <<rout, away, gone>>

\* Can a packet be put into the remote out-buffer?  A file without a header
\* gets one when the client has seen a moo file.
Writable == "out" \notin void \/ mooMode

FlushPacket(p) ==
  /\ Flushing /\ Memory /\ Writable
  /\ outb' = outb \ {p} /\ rout' = rout \cup {p} /\ void' = void \ {"out"}
  /\ mooMode' = (mooMode \/ "out" \notin void)
  /\ LET left == Cardinality(outb) - 1
         stuck == upd.moved > 0 /\ upd.last <= left
     IN IF left = 0 \/ (stuck /\ upd.warnings = MaxWarnings)
        THEN FlushEnd(FALSE, upd.moved + 1)
        ELSE upd' = [upd EXCEPT !.moved = 1, !.last = left,
                                !.warnings = IF stuck THEN @ + 1 ELSE @]
  /\ NoFault
  /\ UNCHANGED <<inb, rin, cap, away, gone, dropped, exiting>>

\* It cannot, since the write fails or the file has no format (not Writable), and
\* is put back into the local one; that fails only for want of memory, since there
\* is room.
FlushPutFails(p) ==
  /\ Flushing /\ Memory
  /\ LET put == IF Writable THEN 1 ELSE 0
     IN \/ /\ Faults(put)
           /\ UNCHANGED <<outb, gone>>
        \/ /\ Faults(put + 1)
           /\ outb' = outb \ {p} /\ gone' = gone \cup {p}
  /\ FlushEnd(TRUE, upd.moved)
  /\ UNCHANGED <<inb, rin, rout, void, mooMode, cap, away, dropped, exiting>>

-----------------------------------------------------------------------------
(* The rest of the client, and others. *)

\* A slot is filled from the in-buffer, between updates; when the buffer is a
\* file, other clients may use it at any time.
Take(p) ==
  /\ upd.pc = "idle" \/ ~Memory
  /\ p \in inb
  /\ inb' = inb \ {p} /\ away' = away \cup {p}
  /\ rin' = IF SameFile THEN inb' ELSE rin
  /\ mooMode' = (mooMode \/ ~Memory)
  /\ UNCHANGED <<outb, rout, void, cap, gone, dropped, upd, client, exiting, faults>>

\* A slot, or another client, finds only blank records: the file is truncated.
TakeNone ==
  /\ ~Memory /\ inb = {} /\ cap["in"] > 0
  /\ cap' = [cap EXCEPT !["in"] = 0]
  /\ void' = IF SameFile THEN void \cup {"in"} ELSE void
  /\ mooMode' = TRUE
  /\ UNCHANGED <<inb, outb, rin, rout, away, gone, dropped, upd, client, exiting, faults>>

\* A result is put into the out-buffer.
Return(p) ==
  /\ upd.pc = "idle" \/ ~Memory
  /\ p \in away
  /\ Room("out", Cardinality(outb))
  /\ outb' = outb \cup {p} /\ away' = away \ {p}
  /\ cap' = IF Memory THEN Grown("out", Cardinality(outb)) ELSE cap
  /\ UNCHANGED <<inb, rin, rout, void, mooMode, gone, dropped, upd, client, exiting, faults>>

\* Somebody puts a packet into the remote in-buffer.
Supply(p) ==
  /\ p \in away /\ ~SameFile
  /\ rin' = rin \cup {p} /\ away' = away \ {p} /\ void' = void \ {"in"}
  /\ UNCHANGED <<inb, outb, rout, mooMode, cap, gone, dropped, upd, client, exiting, faults>>

Tick ==
  /\ wait > 0 /\ wait' = wait - 1
  /\ UNCHANGED <<packets, upd, failed, delay, exiting, faults>>

Exit ==
  /\ exiting' = TRUE
  /\ UNCHANGED <<packets, upd, client, faults>>

Fetch ==
  \/ FetchStop \/ FetchGetFails \/ FetchGetEmpty
  \/ \E p \in rin : FetchPacket(p) \/ FetchPutFails(p)

Flush ==
  \/ FlushStop \/ FlushCrossSaves
  \/ \E p \in outb : FlushPacket(p) \/ FlushPutFails(p)

Update == Fetch \/ Flush \/ UpdateEnd

Next ==
  /\ UNCHANGED setup
  /\ \/ \E services \in Requests, interactive \in BOOLEAN : UpdateBegin(services, interactive)
     \/ Update
     \/ \E p \in Packets : Take(p) \/ Return(p) \/ Supply(p)
     \/ TakeNone \/ Tick \/ Exit

\* The main loop asks again as long as work is missing (probfill.cpp:1135).  Users
\* may ask for other things, but not for ever at the moment a delay ends.
Ask == UpdateBegin(Services, FALSE)

Fairness ==
  /\ WF_vars(Update /\ UNCHANGED setup)
  /\ WF_vars(Tick /\ UNCHANGED setup)
  /\ SF_vars(Ask /\ UNCHANGED setup)

Spec == Init /\ [][Next]_vars /\ Fairness

-----------------------------------------------------------------------------
(* Properties. *)

Locals == [pc : {"idle", "fetch", "flush", "end"}, asked : SUBSET Services,
           brk : BOOLEAN, moved : 0 .. 1, last : Int, warnings : 0 .. MaxWarnings,
           did : SUBSET Services, error : BOOLEAN]

TypeOK ==
  /\ setup \in Setup
  /\ inb \in SUBSET Packets /\ outb \in SUBSET Packets
  /\ rin \in SUBSET Packets /\ rout \in SUBSET Packets
  /\ void \in SUBSET {"in", "out"} /\ mooMode \in BOOLEAN
  /\ cap \in [{"in", "out"} -> Nat]
  /\ away \in SUBSET Packets /\ gone \in SUBSET Packets /\ dropped \in SUBSET Packets
  /\ upd \in Locals
  /\ failed \in BOOLEAN /\ delay \in Nat /\ wait \in Nat
  /\ exiting \in BOOLEAN /\ faults \in 0 .. MaxFaults

\* A packet is in one place, whatever reads and writes fail and however often.  It
\* is lost in one of two ways only: putting it back fails too, so that two writes
\* must fail (one, when the first put was refused for want of a format), or the one
\* write of a cross-save fails, which only files have (BufferFetchFile,
\* BufferFlushFile, GetBufferRecord).
Conserved ==
  LET places == IF SameFile THEN <<inb, outb, rout, away, gone, dropped>>
                            ELSE <<inb, outb, rin, rout, away, gone, dropped>>
  IN /\ \A p \in Packets : Cardinality({i \in DOMAIN places : p \in places[i]}) = 1
     /\ SameFile => inb = rin
     /\ IF Memory THEN dropped = {} /\ Cardinality(gone) <= faults
                  ELSE 2 * Cardinality(gone) + Cardinality(dropped) <= faults

\* The time of the last failure and the delay, two fields that three files read,
\* agree after any sequence of failed, useless and successful updates: a delay is
\* kept as long as the failure is remembered, and no longer; it never passes the
\* maximum (BufferUpdate).
DelayRight ==
  /\ failed <=> delay # 0
  /\ wait <= delay
  /\ delay <= MaxDelay

\* A fetch brings the in-buffer up to the threshold, or to what a full file holds
\* when that is less, or to one packet for each cruncher, and not beyond, while
\* others take packets out of it (BufferFetchFile with BufferReComputeUnitsToFetch
\* in its loop).
Measured ==
  [][Cardinality(inb') > Cardinality(inb) /\ upd.pc = "fetch"
       => \/ Cardinality(inb') <= Threshold /\ Cardinality(inb') <= Limit
          \/ Cardinality(inb') <= Crunchers]_vars

\* An update ends, also when the remote buffer is the local one, so that every
\* packet fetched is put where it came from (MAX_REMOTE_BUFFER_WARNINGS).
UpdateEnds == upd.pc # "idle" ~> upd.pc = "idle"

\* A client without work gets the work that is there, however its earlier updates
\* failed: delays end and the main loop asks again (BufferUpdate).  One whose buffer
\* in memory has once taken all the room it may have gets none: the buffer counts as
\* full for ever, also when it is empty (BufferAssertIsBufferFull).
Restocked ==
  (inb = {} /\ rin # {} /\ ~setup.runbuffers /\ ~Full)
    ~> (inb # {} \/ rin = {} \/ exiting)

\* BufferFetchFile says of a remote buffer that is empty or does not exist: "move
\* on" (buffbase.cpp).  No file failed, so no error.
ErrorMeansFault == upd.error => faults > 0

=============================================================================
