------------------------------ MODULE Recovery ------------------------------
(***************************************************************************)
(* The way of packets through a client that keeps a checkpoint file        *)
(* (common/checkpt.cpp), crashes and is started again: ClientRun's main    *)
(* thread (clirun.cpp) with LoadSaveProblems (probfill.cpp) and            *)
(* BufferImportFileRecords (buffbase.cpp) between the in-buffer, the       *)
(* slots, the out-buffer and the checkpoint.                               *)
(*                                                                         *)
(* A file is a set of packets: what happens between the writes of one put  *)
(* or get is the matter of RecordFile.  Slots are those of ProblemSlot,    *)
(* searched by crunchers while the main thread works.                      *)
(***************************************************************************)
EXTENDS Integers, FiniteSetsExt

CONSTANTS
  Ids,          \* packets
  Marked,       \* those that hold the solution, in their second unit
  NSlots,       \* planned_problem_count
  Units,        \* units of a packet
  Moo,          \* BOOLEAN: the files have the format of the Moo! Wrapper
  EarlyFetch,   \* BOOLEAN: packets may arrive during the initial load
  MaxCrashes    \* bound: crashes

ASSUME RecoveryAssumption ==
  /\ Marked \subseteq Ids
  /\ NSlots \in Nat \ {0} /\ Units \in Nat \ {0, 1} /\ MaxCrashes \in Nat
  /\ Moo \in BOOLEAN /\ EarlyFetch \in BOOLEAN

\* key: does the key field name the first key of the packet or the solution?
Packet == [id : Ids, done : 0 .. Units, key : {"first", "solution"},
           rc : {"working", "found", "nothing"}]

Fresh(id) == [id |-> id, done |-> 0, key |-> "first", rc |-> "working"]

Slot == 1 .. NSlots

VARIABLES
  inbuf, outbuf, ckpt,   \* the files
  outside,               \* packets that others will put into the in-buffer
  slots,                 \* the packet in each slot, as a set of at most one
  hand,                  \* the packet being imported, likewise
  pc,                    \* where the main thread is
  todo,                  \* slots a loop has still to visit
  count,                 \* load_problem_count
  due,                   \* timeNextCheckpoint = 0
  exiting,               \* the exit request trigger
  kept,                  \* history: units in the last copy put on disk, -1 when none is left
  lost,                  \* history: packets whose last put a crash undid
  crashes                \* bound

files == <<inbuf, outbuf, ckpt, outside>>
history == <<kept, lost, crashes>>
vars == <<files, slots, hand, pc, todo, count, due, exiting, history>>

Init ==
  /\ \E there \in SUBSET Ids :
       /\ inbuf = {Fresh(i) : i \in there}
       /\ outside = {Fresh(i) : i \in Ids \ there}
  /\ outbuf = {} /\ ckpt = {}
  /\ slots = [s \in Slot |-> {}] /\ hand = {}
  /\ pc = "open" /\ todo = {} /\ count = 0 /\ due = TRUE /\ exiting = FALSE
  /\ kept = [i \in Ids |-> -1] /\ lost = {} /\ crashes = 0

Empty(s) == slots[s] = {}
Finished(p) == p.rc # "working"

\* PutBufferRecord: results go to the out-buffer, the rest to the in-buffer.
PutBufferRecord(packets) ==
  /\ outbuf' = outbuf \cup {p \in packets : Finished(p)}
  /\ inbuf' = inbuf \cup {p \in packets : ~Finished(p)}

\* A packet is taken out of the in-buffer into slot s.
Take(s) ==
  \E p \in inbuf :
    /\ inbuf' = inbuf \ {p}
    /\ slots' = [slots EXCEPT ![s] = {p}]
    /\ kept' = [kept EXCEPT ![p.id] = -1]

\* Packets have just been put.
Keep(packets) ==
  kept' = [i \in Ids |-> IF \E p \in packets : p.id = i
                         THEN Max({kept[i]} \cup {p.done : p \in {q \in packets : q.id = i}})
                         ELSE kept[i]]

-----------------------------------------------------------------------------
(* CheckpointAction(CHECKPOINT_OPEN). *)

\* BufferImportFileRecords takes a packet from the checkpoint.  A stock file is
\* not opened at all, because the flag BUFFER_FLAGS_REMOTEBUF is given.  Read
\* from a moo file, every packet is RESULT_WORKING.
ImportGet ==
  /\ pc = "open" /\ hand = {}
  /\ \/ Moo /\ \E p \in ckpt :
          /\ hand' = {[p EXCEPT !.rc = "working"]} /\ ckpt' = ckpt \ {p}
          /\ pc' = "import"
     \/ (Moo => ckpt = {}) /\ pc' = "close" /\ UNCHANGED <<hand, ckpt>>
  /\ UNCHANGED <<inbuf, outbuf, outside, slots, todo, count, due, exiting, history>>

\* Mutant: the import ends after one packet.
ImportPutOnce ==
  /\ pc = "import"
  /\ PutBufferRecord(hand) /\ Keep(hand) /\ pc' = "close"
  /\ hand' = {}
  /\ UNCHANGED <<ckpt, outside, slots, todo, count, due, exiting, lost, crashes>>

\* It puts the packet into the buffer.
ImportPut ==
  /\ pc = "import"
  /\ PutBufferRecord(hand) /\ Keep(hand) /\ pc' = "open"
  /\ hand' = {}
  /\ UNCHANGED <<ckpt, outside, slots, todo, count, due, exiting, lost, crashes>>

\* In any case the checkpoint is zapped, before the initial load.
CloseOpen ==
  /\ pc = "close"
  /\ ckpt' = {} /\ pc' = "fill" /\ todo' = Slot /\ count' = 0
  /\ UNCHANGED <<inbuf, outbuf, outside, slots, hand, due, exiting, history>>

-----------------------------------------------------------------------------
(* Initial load, and the start of the crunchers. *)

\* The first slots come first; a slot that gets nothing stays empty.
Fill ==
  /\ pc = "fill" /\ todo # {}
  /\ LET s == Min(todo) IN
       /\ todo' = todo \ {s}
       /\ \/ Take(s) /\ count' = count + 1
          \/ inbuf = {} /\ UNCHANGED <<slots, inbuf, kept, count>>
  /\ UNCHANGED <<outbuf, ckpt, outside, hand, pc, due, exiting, lost, crashes>>

\* count packets were loaded: that many crunchers are started, for the first
\* slots, or fewer, if threads fail; then what lies behind is unloaded.  With
\* no cruncher the client ends.
StartThreads ==
  /\ pc = "fill" /\ todo = {}
  /\ \E threads \in 0 .. count :
       /\ count' = IF threads = 0 THEN count ELSE threads
       /\ todo' = IF threads = 0 THEN 1 .. count
                  ELSE IF threads < count THEN threads + 1 .. NSlots ELSE {}
       /\ pc' = IF threads = 0 THEN "unload"
                ELSE IF threads < count THEN "resize" ELSE "sleep"
  /\ due' = TRUE
  /\ UNCHANGED <<files, slots, hand, exiting, history>>

\* PROBFILL_RESIZETABLE and PROBFILL_UNLOADALL of one slot.
UnloadSlot(s) ==
  /\ PutBufferRecord(slots[s]) /\ Keep(slots[s])
  /\ slots' = [slots EXCEPT ![s] = {}]

Resize ==
  /\ pc = "resize"
  /\ IF todo = {}
     THEN pc' = "sleep" /\ UNCHANGED <<inbuf, outbuf, slots, todo, kept>>
     ELSE UnloadSlot(Max(todo)) /\ todo' = todo \ {Max(todo)} /\ UNCHANGED pc
  /\ UNCHANGED <<ckpt, outside, hand, count, due, exiting, lost, crashes>>

-----------------------------------------------------------------------------
(* Main loop. *)

\* After its sleep the loop ends, or goes on; a paused client only writes
\* its checkpoint, when the pause begins.
Wake ==
  /\ pc = "sleep"
  /\ \/ pc' = "unload" /\ todo' = 1 .. count /\ UNCHANGED due
     \/ ~exiting /\ pc' = "visit" /\ todo' = 1 .. count /\ UNCHANGED due
     \/ ~exiting /\ pc' = "check" /\ due' = TRUE /\ UNCHANGED todo
  /\ UNCHANGED <<files, slots, hand, count, exiting, history>>

\* Mutant: a finished packet goes back into the in-buffer.
SaveUnfinished ==
  /\ pc = "visit" /\ todo # {}
  /\ LET s == Max(todo) IN
       IF \E p \in slots[s] : Finished(p)
       THEN /\ inbuf' = inbuf \cup {[p EXCEPT !.rc = "working"] : p \in slots[s]}
            /\ Keep(slots[s])
            /\ slots' = [slots EXCEPT ![s] = {}]
            /\ due' = TRUE
       ELSE UNCHANGED <<inbuf, slots, kept, due>>
  /\ pc' = "load"
  /\ UNCHANGED <<outbuf, ckpt, outside, hand, todo, count, exiting, lost, crashes>>

\* A finished packet is saved and purged.
Save ==
  /\ pc = "visit" /\ todo # {}
  /\ LET s == Max(todo) IN
       IF \E p \in slots[s] : Finished(p)
       THEN UnloadSlot(s) /\ due' = TRUE
       ELSE UNCHANGED <<inbuf, outbuf, slots, kept, due>>
  /\ pc' = "load"
  /\ UNCHANGED <<ckpt, outside, hand, todo, count, exiting, lost, crashes>>

\* Mutant: only a save asks for a checkpoint.
LoadQuietly ==
  /\ pc = "load"
  /\ LET s == Max(todo) IN
       \/ Empty(s) /\ Take(s)
       \/ UNCHANGED <<slots, inbuf, kept>>
  /\ todo' = todo \ {Max(todo)} /\ pc' = "visit"
  /\ UNCHANGED <<outbuf, ckpt, outside, hand, count, due, exiting, lost, crashes>>

\* Mutant: the packet stays in the in-buffer.
LoadCopies ==
  /\ pc = "load"
  /\ LET s == Max(todo) IN
       \/ \E p \in inbuf :
            /\ Empty(s) /\ slots' = [slots EXCEPT ![s] = {p}] /\ due' = TRUE
       \/ UNCHANGED <<slots, due>>
  /\ todo' = todo \ {Max(todo)} /\ pc' = "visit"
  /\ UNCHANGED <<inbuf, outbuf, ckpt, outside, hand, count, exiting, history>>

\* An empty slot is loaded, unless there is nothing or the limit of packets is
\* reached.
Load ==
  /\ pc = "load"
  /\ LET s == Max(todo) IN
       \/ Empty(s) /\ Take(s) /\ due' = TRUE
       \/ UNCHANGED <<slots, inbuf, kept, due>>
  /\ todo' = todo \ {Max(todo)} /\ pc' = "visit"
  /\ UNCHANGED <<outbuf, ckpt, outside, hand, count, exiting, lost, crashes>>

VisitsDone ==
  /\ pc = "visit" /\ todo = {} /\ pc' = "check"
  /\ UNCHANGED <<files, slots, hand, todo, count, due, exiting, history>>

\* CHECKPOINT_REFRESH: at once if something changed, else after ten minutes,
\* and not if the client is about to exit.  The file is zapped first.
SkipRefresh ==
  /\ pc = "check" /\ (due => exiting) /\ pc' = "sleep"
  /\ UNCHANGED <<files, slots, hand, todo, count, due, exiting, history>>

ZapCheckpoint ==
  /\ pc = "check" /\ ~exiting
  /\ ckpt' = {} /\ pc' = "refresh" /\ todo' = 1 .. count
  /\ UNCHANGED <<inbuf, outbuf, outside, slots, hand, count, due, exiting, history>>

\* Then the packet of each slot is put into it, as RESULT_WORKING.
Refresh ==
  /\ pc = "refresh" /\ todo # {}
  /\ LET s == Min(todo)
         copies == {[p EXCEPT !.rc = "working"] : p \in slots[s]}
     IN /\ ckpt' = ckpt \cup copies /\ Keep(copies)
        /\ todo' = todo \ {s}
  /\ UNCHANGED <<inbuf, outbuf, outside, slots, hand, pc, count, due, exiting, lost, crashes>>

Refreshed ==
  /\ pc = "refresh" /\ todo = {}
  /\ due' = FALSE /\ pc' = "sleep"
  /\ UNCHANGED <<files, slots, hand, todo, count, exiting, history>>

-----------------------------------------------------------------------------
(* Shutdown: the crunchers are stopped, all is unloaded, then the checkpoint *)
(* is zapped.                                                                *)

Unload ==
  /\ pc = "unload" /\ todo # {}
  /\ UnloadSlot(Max(todo)) /\ todo' = todo \ {Max(todo)}
  /\ UNCHANGED <<ckpt, outside, hand, pc, count, due, exiting, lost, crashes>>

\* The client ends and is started again.
Exit ==
  /\ pc = "unload" /\ todo = {}
  /\ ckpt' = {} /\ slots' = [s \in Slot |-> {}]
  /\ pc' = "open" /\ exiting' = FALSE
  /\ UNCHANGED <<inbuf, outbuf, outside, hand, todo, count, due, history>>

-----------------------------------------------------------------------------
(* Crunchers, others, and the world. *)

Crunching(s) == s <= count /\ pc \in {"sleep", "visit", "load", "check", "refresh", "resize"}

\* One run of ProblemRun.  The key of a solution overwrites the first key; a
\* packet that was saved like this goes on from the wrong place.
Crunch(s) ==
  /\ Crunching(s)
  /\ \E p \in slots[s] :
       /\ ~Finished(p) /\ p.done < Units
       /\ LET hit == p.id \in Marked /\ p.key = "first" /\ p.done = 1 IN
          slots' = [slots EXCEPT ![s] = {[p EXCEPT
            !.done = IF hit THEN @ ELSE @ + 1,
            !.key = IF hit THEN "solution" ELSE @,
            !.rc = IF hit THEN "found" ELSE IF p.done + 1 = Units THEN "nothing" ELSE @]}]
  /\ UNCHANGED <<files, hand, pc, todo, count, due, exiting, history>>

\* A fetch, or another client that shares the in-buffer.
Arrive ==
  /\ outside # {} /\ (pc = "fill" => EarlyFetch)
  /\ \E p \in outside : inbuf' = inbuf \cup {p} /\ outside' = outside \ {p}
  /\ UNCHANGED <<outbuf, ckpt, slots, hand, pc, todo, count, due, exiting, history>>

RaiseExit ==
  /\ ~exiting /\ pc \in {"sleep", "visit", "load", "check", "refresh"}
  /\ exiting' = TRUE
  /\ UNCHANGED <<files, slots, hand, pc, todo, count, due, history>>

\* What a crash leaves is in the files.
Crash ==
  /\ crashes < MaxCrashes /\ crashes' = crashes + 1
  /\ lost' = lost \cup {i \in Ids :
       /\ \A p \in inbuf \cup ckpt : p.id = i => p.done < kept[i]
       /\ \A p \in outbuf \cup outside : p.id # i}
  /\ slots' = [s \in Slot |-> {}] /\ hand' = {} /\ todo' = {}
  /\ pc' = "open" /\ exiting' = FALSE
  /\ UNCHANGED <<files, count, due, kept>>

Next ==
  \/ ImportGet \/ ImportPut \/ CloseOpen \/ Fill \/ StartThreads \/ Resize
  \/ Wake \/ Save \/ Load \/ VisitsDone
  \/ SkipRefresh \/ ZapCheckpoint \/ Refresh \/ Refreshed
  \/ Unload \/ Exit
  \/ \E s \in Slot : Crunch(s)
  \/ Arrive \/ RaiseExit \/ Crash

Spec == Init /\ [][Next]_vars

-----------------------------------------------------------------------------
(* Properties. *)

IdsOf(packets) == {p.id : p \in packets}
Loaded == UNION {slots[s] : s \in Slot}

TypeOK ==
  /\ inbuf \subseteq Packet /\ outbuf \subseteq Packet
  /\ ckpt \subseteq Packet /\ outside \subseteq Packet
  /\ \A p \in inbuf \cup ckpt \cup outside : ~Finished(p)
  /\ \A p \in outbuf : Finished(p)
  /\ slots \in [Slot -> SUBSET Packet] /\ hand \subseteq Packet
  /\ \A s \in Slot : Cardinality(slots[s]) <= 1
  /\ pc \in {"open", "import", "close", "fill", "resize", "sleep", "visit",
             "load", "check", "refresh", "unload"}
  /\ todo \subseteq Slot /\ count \in 0 .. NSlots
  /\ due \in BOOLEAN /\ exiting \in BOOLEAN
  /\ kept \in [Ids -> -1 .. Units] /\ lost \subseteq Ids
  /\ crashes \in 0 .. MaxCrashes

\* "we always recover irrespective of TimeToQuit" (clirun.cpp:1447): a packet
\* that was not lost in the very moment of a crash is in a file or a slot, with
\* what was done of it when it was last put; the checkpoint alone will do
\* as long as it was not yet imported.
Conserved ==
  \A i \in Ids \ lost :
    \/ i \in IdsOf(outbuf \cup outside)
    \/ \E p \in inbuf \cup Loaded \cup hand
                \cup (IF pc \in {"open", "import", "close"} THEN ckpt ELSE {}) :
         p.id = i /\ p.done >= kept[i]

\* While the client sleeps the checkpoint holds the packets of its crunchers
\* and no other: whatever changed a slot asked for a refresh.
CheckpointCovers ==
  pc = "sleep" /\ ~due => IdsOf(ckpt) = IdsOf(UNION {slots[s] : s \in 1 .. count})

\* Without a crash no packet is in two places.
OnePlace ==
  crashes = 0 =>
    /\ \A s, t \in Slot : s # t => IdsOf(slots[s]) \cap IdsOf(slots[t]) = {}
    /\ IdsOf(Loaded) \cap IdsOf(inbuf \cup outbuf) = {}
    /\ IdsOf(inbuf) \cap IdsOf(outbuf) = {}

\* Without a crash a solution that is in a packet is reported.
SolutionReported ==
  crashes = 0 => \A p \in outbuf : p.id \in Marked => p.rc = "found"

\* The checkpoint is there "so that it can recover partially completed work if
\* the client had previously failed to shutdown normally" (confopt.cpp:336):
\* no crash loses the solution of a packet.
SolutionSurvives == \A p \in outbuf : p.id \in Marked => p.rc = "found"
=============================================================================
