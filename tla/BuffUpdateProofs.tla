-------------------------- MODULE BuffUpdateProofs --------------------------
(***************************************************************************)
(* Proofs about BuffUpdate, for any packets, thresholds, limits, delays    *)
(* and number of faults.                                                   *)
(*                                                                         *)
(* TypeOK and DelayRight are inductive.  Conserved speaks of the number of *)
(* places a packet is in; it follows from Apart, that the places are       *)
(* disjoint and hold all packets, which is inductive.                      *)
(***************************************************************************)
EXTENDS BuffUpdate, FiniteSetTheorems, TLAPS

\* The buffers are finite, and counting them gives a natural number.
LEMMA FiniteBuffer ==
  ASSUME NEW S \in SUBSET Packets
  PROVE  IsFiniteSet(S) /\ Cardinality(S) \in Nat
BY BuffUpdateAssumption, FS_Subset, FS_CardinalityType

\* The updates of the locals keep their types.
LEMMA SetCounts ==
  ASSUME NEW u \in Locals, NEW m \in 0 .. 1, NEW l \in Int, NEW w \in 0 .. MaxWarnings
  PROVE  [u EXCEPT !.moved = m, !.last = l, !.warnings = w] \in Locals
BY DEF Locals

LEMMA SetEnd ==
  ASSUME NEW u \in Locals, NEW pc \in {"flush", "end"}, NEW error \in BOOLEAN,
         NEW did \in SUBSET Services
  PROVE  [u EXCEPT !.pc = pc, !.error = error, !.did = did] \in Locals
BY DEF Locals

\* How the loops of BufferFetchFile and BufferFlushFile leave their locals.
LEMMA EndTypes ==
  ASSUME upd \in Locals, NEW error \in BOOLEAN, NEW moved
  PROVE  /\ FetchEnd(error, moved) => upd' \in Locals
         /\ FlushEnd(error, moved) => upd' \in Locals
<1> DEFINE pc == IF error \/ "flush" \notin upd.asked THEN "end" ELSE "flush"
           did(s) == IF moved > 0 THEN upd.did \cup {s} ELSE upd.did
           ended(s) == [upd EXCEPT !.pc = pc, !.error = error, !.did = did(s)]
<1>1. ASSUME NEW s \in Services PROVE did(s) \in SUBSET Services
  BY DEF Locals
<1>2. ASSUME NEW s \in Services PROVE ended(s) \in Locals
  <2>1. pc \in {"flush", "end"}
    OBVIOUS
  <2> HIDE DEF pc, did
  <2> QED BY <1>1, <1>2, <2>1, SetEnd
<1>3. ASSUME FetchEnd(error, moved) PROVE upd' \in Locals
  <2>1. upd' = [ended("fetch") EXCEPT !.moved = 0, !.last = -1, !.warnings = 0]
    BY <1>3 DEF FetchEnd
  <2>2. ended("fetch") \in Locals
    BY <1>2 DEF Services
  <2> HIDE DEF ended
  <2>3. 0 \in 0 .. 1 /\ -1 \in Int /\ 0 \in 0 .. MaxWarnings
    BY DEF MaxWarnings
  <2> QED BY <2>1, <2>2, <2>3, SetCounts
<1>4. ASSUME FlushEnd(error, moved) PROVE upd' \in Locals
  <2> DEFINE flushed == [upd EXCEPT !.pc = "end", !.error = error, !.did = did("flush")]
  <2>1. upd' = flushed
    BY <1>4 DEF FlushEnd
  <2>2. did("flush") \in SUBSET Services
    BY <1>1 DEF Services
  <2> HIDE DEF did
  <2> QED BY <2>1, <2>2, SetEnd
<1> QED
  BY <1>3, <1>4

\* A buffer that grows still has room for a number of records, and what is told
\* of it after a put is a number.
LEMMA GrownType ==
  ASSUME cap \in [{"in", "out"} -> Nat], NEW b \in {"in", "out"}, NEW n \in Nat
  PROVE  /\ Grown(b, n) \in [{"in", "out"} -> Nat]
         /\ CountAfterPut(n) \in Nat
<1>1. Step \in Nat
  BY BuffUpdateAssumption DEF Step
<1>2. ASSUME NEW c \in {"in", "out"} PROVE Grown(c, n) \in [{"in", "out"} -> Nat]
  BY <1>1 DEF Grown
<1> QED BY <1>2 DEF CountAfterPut

\* The delay after the next failure is a positive number up to the maximum.
LEMMA NextDelayRange ==
  ASSUME NEW d \in Nat
  PROVE  NextDelay(d) \in 1 .. MaxDelay
BY BuffUpdateAssumption DEF NextDelay

\* Buffers, locals, delays and counters keep their types.
THEOREM BuffUpdateTypeCorrect == Spec => []TypeOK
<1> USE BuffUpdateAssumption DEF TypeOK, Faults, NoFault
<1>1. Init => TypeOK
  <2> SUFFICES ASSUME Init PROVE TypeOK
    OBVIOUS
  <2>1. inb \in SUBSET Packets /\ rin \in SUBSET Packets /\ away \in SUBSET Packets
    BY DEF Init
  <2>2. cap \in [{"in", "out"} -> Nat]
    BY <2>1, FiniteBuffer DEF Init
  <2>3. upd \in Locals
    BY DEF Init, Idle, Locals, MaxWarnings
  <2>4. void \in SUBSET {"in", "out"} /\ mooMode \in BOOLEAN
    BY DEF Init
  <2>5. 0 \in 0 .. MaxFaults
    OBVIOUS
  <2> QED
    BY <2>1, <2>2, <2>3, <2>4, <2>5 DEF Init
<1>2. TypeOK /\ [Next]_vars => TypeOK'
  <2> SUFFICES ASSUME TypeOK, [Next]_vars PROVE TypeOK'
    OBVIOUS
  <2> USE DEF packets, client
  <2>1. ASSUME NEW services \in Requests, NEW interactive \in BOOLEAN,
               UpdateBegin(services, interactive), UNCHANGED setup
        PROVE  TypeOK'
    <3>1. upd' \in Locals
      <4>1. PICK asked \in SUBSET Services, pc \in {"end", "fetch", "flush"} :
              upd' = [Idle EXCEPT !.asked = asked, !.brk = exiting, !.pc = pc]
        BY <2>1 DEF UpdateBegin
      <4>2. upd' = [pc |-> pc, asked |-> asked, brk |-> exiting, moved |-> 0,
                    last |-> -1, warnings |-> 0, did |-> {}, error |-> FALSE]
        BY <4>1 DEF Idle
      <4> QED BY <4>2 DEF Locals, MaxWarnings
    <3> QED BY <2>1, <3>1 DEF UpdateBegin
  <2>2. ASSUME Fetch, UNCHANGED setup PROVE TypeOK'
    <3>1. CASE FetchStop BY <2>2, <3>1, EndTypes DEF FetchStop
    <3>2. CASE FetchGetFails
      <4>1. upd' \in Locals
        BY <3>2, EndTypes DEF FetchGetFails
      <4>2. faults' \in 0 .. MaxFaults
        BY <3>2 DEF FetchGetFails
      <4> QED BY <2>2, <3>2, <4>1, <4>2 DEF FetchGetFails, Fetching
    <3>3. CASE FetchGetEmpty BY <2>2, <3>3, EndTypes DEF FetchGetEmpty, Fetching
    <3>4. ASSUME NEW p \in rin, FetchPacket(p) PROVE TypeOK'
      <4> DEFINE before == Cardinality(inb \ {p})
      <4>1. before \in Nat
        BY FiniteBuffer
      <4>2. cap' \in [{"in", "out"} -> Nat]
        BY <3>4, <4>1, GrownType DEF FetchPacket
      <4>3. upd' \in Locals
        <5>1. \/ FetchEnd(FALSE, upd.moved + 1)
              \/ \E w \in 0 .. MaxWarnings :
                   upd' = [upd EXCEPT !.moved = 1, !.last = CountAfterPut(before),
                                      !.warnings = w]
          <6>1. upd.warnings \in 0 .. MaxWarnings
            BY DEF Locals
          <6>2. upd.warnings # MaxWarnings => upd.warnings + 1 \in 0 .. MaxWarnings
            BY <6>1 DEF MaxWarnings
          <6> QED BY <3>4, <6>1, <6>2 DEF FetchPacket
        <5>2. CountAfterPut(before) \in Int
          BY <4>1, GrownType
        <5>3. 1 \in 0 .. 1
          OBVIOUS
        <5>4. CASE FetchEnd(FALSE, upd.moved + 1)
          BY <5>4, EndTypes
        <5>5. ASSUME NEW w \in 0 .. MaxWarnings,
                     upd' = [upd EXCEPT !.moved = 1, !.last = CountAfterPut(before),
                                        !.warnings = w]
              PROVE  upd' \in Locals
          <6> HIDE DEF before
          <6> QED BY <5>2, <5>3, <5>5, SetCounts
        <5> QED BY <5>1, <5>4, <5>5
      <4> QED BY <2>2, <3>4, <4>2, <4>3 DEF FetchPacket, Fetching
    <3>5. ASSUME NEW p \in rin, FetchPutFails(p) PROVE TypeOK'
      <4>1. upd' \in Locals
        BY <3>5, EndTypes DEF FetchPutFails
      <4>2. faults' \in 0 .. MaxFaults
        BY <3>5 DEF FetchPutFails
      <4> QED BY <2>2, <3>5, <4>1, <4>2 DEF FetchPutFails, Fetching
    <3> QED BY <2>2, <3>1, <3>2, <3>3, <3>4, <3>5 DEF Fetch
  <2>3. ASSUME Flush, UNCHANGED setup PROVE TypeOK'
    <3>1. CASE FlushStop BY <2>3, <3>1, EndTypes DEF FlushStop
    <3>2. CASE FlushCrossSaves
      <4>1. PICK read \in SUBSET outb, lost \in SUBSET outb :
              /\ lost \subseteq read
              /\ \/ Faults(Cardinality(lost)) \/ Faults(Cardinality(lost) + 1)
              /\ exiting' \in BOOLEAN
              /\ outb' = outb \ read /\ dropped' = dropped \cup lost
              /\ inb' = inb \cup (read \ lost)
        BY <3>2 DEF FlushCrossSaves
      <4>2. Cardinality(lost) \in Nat
        BY <4>1, FiniteBuffer
      <4>3. faults' \in 0 .. MaxFaults
        BY <4>1, <4>2
      <4>4. /\ inb' \in SUBSET Packets /\ outb' \in SUBSET Packets
            /\ dropped' \in SUBSET Packets
        BY <4>1
      <4>5. cap' \in [{"in", "out"} -> Nat]
        <5>1. Cardinality(inb') \in Nat
          BY <4>4, FiniteBuffer
        <5> QED BY <3>2, <5>1 DEF FlushCrossSaves
      <4>6. upd' \in Locals
        BY <3>2, EndTypes DEF FlushCrossSaves
      <4> QED
        BY <2>3, <3>2, <4>1, <4>3, <4>4, <4>5, <4>6 DEF FlushCrossSaves, Flushing
    <3>3. ASSUME NEW p \in outb, FlushPacket(p) PROVE TypeOK'
      <4> DEFINE left == Cardinality(outb) - 1
      <4>1. left \in Int
        BY FiniteBuffer
      <4>2. upd' \in Locals
        <5>1. \/ FlushEnd(FALSE, upd.moved + 1)
              \/ \E w \in 0 .. MaxWarnings :
                   upd' = [upd EXCEPT !.moved = 1, !.last = left, !.warnings = w]
          <6>1. upd.warnings \in 0 .. MaxWarnings
            BY DEF Locals
          <6>2. upd.warnings # MaxWarnings => upd.warnings + 1 \in 0 .. MaxWarnings
            BY <6>1 DEF MaxWarnings
          <6> QED BY <3>3, <6>1, <6>2 DEF FlushPacket
        <5>2. left \in Int
          BY <4>1
        <5>3. 1 \in 0 .. 1
          OBVIOUS
        <5>4. CASE FlushEnd(FALSE, upd.moved + 1)
          BY <5>4, EndTypes
        <5>5. ASSUME NEW w \in 0 .. MaxWarnings,
                     upd' = [upd EXCEPT !.moved = 1, !.last = left, !.warnings = w]
              PROVE  upd' \in Locals
          <6> HIDE DEF left
          <6> QED BY <5>2, <5>3, <5>5, SetCounts
        <5> QED BY <5>1, <5>4, <5>5
      <4> QED BY <2>3, <3>3, <4>2 DEF FlushPacket, Flushing
    <3>4. ASSUME NEW p \in outb, FlushPutFails(p) PROVE TypeOK'
      <4>1. upd' \in Locals
        BY <3>4, EndTypes DEF FlushPutFails
      <4>2. faults' \in 0 .. MaxFaults
        BY <3>4 DEF FlushPutFails
      <4> QED BY <2>3, <3>4, <4>1, <4>2 DEF FlushPutFails, Flushing
    <3> QED BY <2>3, <3>1, <3>2, <3>3, <3>4 DEF Flush
  <2>4. ASSUME UpdateEnd, UNCHANGED setup PROVE TypeOK'
    <3>1. Idle \in Locals
      BY DEF Idle, Locals, MaxWarnings
    <3>2. NextDelay(delay) \in Nat
      BY NextDelayRange
    <3> QED BY <2>4, <3>1, <3>2 DEF UpdateEnd
  <2>5. ASSUME NEW p \in Packets, Take(p), UNCHANGED setup PROVE TypeOK'
    BY <2>5 DEF Take
  <2>6. ASSUME NEW p \in Packets, Return(p), UNCHANGED setup PROVE TypeOK'
    <3>1. cap' \in [{"in", "out"} -> Nat]
      BY <2>6, FiniteBuffer, GrownType DEF Return
    <3> QED BY <2>6, <3>1 DEF Return
  <2>7. ASSUME NEW p \in Packets, Supply(p), UNCHANGED setup PROVE TypeOK'
    BY <2>7 DEF Supply
  <2>8. ASSUME TakeNone \/ Tick \/ Exit, UNCHANGED setup PROVE TypeOK'
    <3>1. CASE TakeNone
      BY <2>8, <3>1 DEF TakeNone
    <3>2. CASE Tick
      <4>1. wait' \in Nat
        BY <3>2 DEF Tick
      <4> QED BY <2>8, <3>2, <4>1 DEF Tick
    <3>3. CASE Exit
      BY <2>8, <3>3 DEF Exit
    <3> QED BY <2>8, <3>1, <3>2, <3>3
  <2>9. CASE UNCHANGED vars BY <2>9 DEF vars
  <2> QED
    BY <2>1, <2>2, <2>3, <2>4, <2>5, <2>6, <2>7, <2>8, <2>9 DEF Next, Update
<1> QED
  BY <1>1, <1>2, PTL DEF Spec

-----------------------------------------------------------------------------
(* The delay. *)

LEMMA DelayStep ==
  ASSUME TypeOK, DelayRight, [Next]_vars
  PROVE  DelayRight'
<1> USE DEF DelayRight, client
<1>1. CASE UpdateEnd
  <2>1. delay \in Nat
    BY DEF TypeOK
  <2>2. NextDelay(delay) \in 1 .. MaxDelay
    BY <2>1, NextDelayRange
  <2>3. CASE upd.did = {}
    <3>1. delay' \in 1 .. MaxDelay /\ wait' = delay' /\ failed'
      BY <1>1, <2>2, <2>3 DEF UpdateEnd
    <3> QED BY <3>1, BuffUpdateAssumption
  <2>4. CASE upd.did # {}
    <3>1. delay' = 0 /\ wait' = 0 /\ ~failed'
      BY <1>1, <2>4 DEF UpdateEnd
    <3> QED BY <3>1, BuffUpdateAssumption
  <2> QED BY <2>3, <2>4
<1>2. CASE Tick
  BY <1>2 DEF Tick, TypeOK
<1>3. CASE UNCHANGED client
  BY <1>3
<1>4. ASSUME NEW services \in Requests, NEW interactive \in BOOLEAN,
             UpdateBegin(services, interactive)
      PROVE  UNCHANGED client
  BY <1>4 DEF UpdateBegin
<1>5. Fetch => UNCHANGED client
  BY DEF Fetch, FetchStop, FetchGetFails, FetchGetEmpty, FetchPacket,
         FetchPutFails, Fetching
<1>6. Flush => UNCHANGED client
  BY DEF Flush, FlushStop, FlushCrossSaves, FlushPacket, FlushPutFails, Flushing
<1>7. ASSUME NEW p \in Packets, Take(p) \/ Return(p) \/ Supply(p)
      PROVE  UNCHANGED client
  BY <1>7 DEF Take, Return, Supply
<1>8. TakeNone \/ Exit \/ UNCHANGED vars => UNCHANGED client
  BY DEF TakeNone, Exit, vars
<1> QED
  BY <1>1, <1>2, <1>3, <1>4, <1>5, <1>6, <1>7, <1>8 DEF Next, Update

\* last_buffupd_failed_time and buffupd_retry_delay agree after any sequence of
\* updates: a delay is kept as long as the failure is remembered, and it stays
\* within the maximum, since the last delay that is doubled is at most half of it.
THEOREM DelayAgrees == Spec => []DelayRight
<1>1. Init => DelayRight
  BY BuffUpdateAssumption DEF Init, DelayRight
<1>2. TypeOK /\ DelayRight /\ [Next]_vars => DelayRight'
  BY DelayStep
<1> QED
  BY <1>1, <1>2, BuffUpdateTypeCorrect, PTL DEF Spec

-----------------------------------------------------------------------------
(* Packets are not lost or doubled. *)

\* What faults the packets lost have cost.
Paid == IF Memory THEN dropped = {} /\ Cardinality(gone) <= faults
                  ELSE 2 * Cardinality(gone) + Cardinality(dropped) <= faults

\* The places are disjoint and between them hold all packets; one is given up only
\* together with the faults that it takes.
Apart ==
  /\ Packets = inb \cup outb \cup rin \cup rout \cup away \cup gone \cup dropped
  /\ inb \cap (outb \cup rout \cup away \cup gone \cup dropped) = {}
  /\ rin \cap (outb \cup rout \cup away \cup gone \cup dropped) = {}
  /\ outb \cap (rout \cup away \cup gone \cup dropped) = {}
  /\ rout \cap (away \cup gone \cup dropped) = {}
  /\ away \cap (gone \cup dropped) = {}
  /\ gone \cap dropped = {}
  /\ IF SameFile THEN rin = inb ELSE rin \cap inb = {}
  /\ Paid

\* A packet that could not be put back makes one more of them at most.
LEMMA OneMoreGone ==
  ASSUME TypeOK, NEW p
  PROVE  /\ Cardinality(gone) \in Nat /\ Cardinality(dropped) \in Nat
         /\ Cardinality(gone \cup {p}) \in Nat
         /\ Cardinality(gone \cup {p}) <= Cardinality(gone) + 1
<1>1. IsFiniteSet(gone) /\ Cardinality(gone) \in Nat /\ Cardinality(dropped) \in Nat
  BY FiniteBuffer DEF TypeOK
<1>2. /\ IsFiniteSet(gone \cup {p})
      /\ Cardinality(gone \cup {p}) = IF p \in gone THEN Cardinality(gone)
                                                    ELSE Cardinality(gone) + 1
  BY <1>1, FS_AddElement
<1> QED BY <1>1, <1>2

\* Packets that could not be cross-saved make so many more at most.
LEMMA MoreDropped ==
  ASSUME TypeOK, NEW lost \in SUBSET Packets
  PROVE  /\ Cardinality(lost) \in Nat /\ Cardinality(dropped) \in Nat
         /\ Cardinality(dropped \cup lost) \in Nat
         /\ Cardinality(dropped \cup lost) <= Cardinality(dropped) + Cardinality(lost)
<1>1. /\ IsFiniteSet(dropped) /\ Cardinality(dropped) \in Nat
      /\ IsFiniteSet(lost) /\ Cardinality(lost) \in Nat
  BY FiniteBuffer DEF TypeOK
<1>2. /\ IsFiniteSet(dropped \cup lost)
      /\ Cardinality(dropped \cup lost)
           = Cardinality(dropped) + Cardinality(lost) - Cardinality(dropped \cap lost)
  BY <1>1, FS_Union
<1>3. Cardinality(dropped \cap lost) \in Nat
  BY <1>1, FS_Intersection, FS_CardinalityType
<1> QED BY <1>1, <1>2, <1>3, FS_CardinalityType

\* More faults, without another packet lost, are more than enough.
LEMMA MoreFaults ==
  ASSUME TypeOK, Paid, UNCHANGED <<gone, dropped, setup>>, faults' \in Nat, faults' >= faults
  PROVE  Paid'
<1>1. Cardinality(gone) \in Nat /\ Cardinality(dropped) \in Nat /\ faults \in Nat
  BY FiniteBuffer DEF TypeOK
<1> QED BY <1>1 DEF Paid, Memory

LEMMA ApartStep ==
  ASSUME TypeOK, Apart, [Next]_vars
  PROVE  Apart'
<1> USE DEF Apart, SameFile, packets, Faults, NoFault
<1>0. faults \in Nat
  BY DEF TypeOK
<1>p. UNCHANGED <<gone, dropped, setup, faults>> => Paid'
  BY <1>0, MoreFaults
<1>1. ASSUME NEW services \in Requests, NEW interactive \in BOOLEAN,
             UpdateBegin(services, interactive), UNCHANGED setup
      PROVE  Apart'
  BY <1>p, <1>1 DEF UpdateBegin
<1>2. ASSUME Fetch, UNCHANGED setup PROVE Apart'
  <2>1. CASE FetchStop BY <1>p, <1>2, <2>1 DEF FetchStop
  <2>2. CASE FetchGetFails
    <3>1. Paid'
      BY <1>0, <1>2, <2>2, MoreFaults DEF FetchGetFails
    <3> QED BY <1>2, <2>2, <3>1 DEF FetchGetFails
  <2>3. CASE FetchGetEmpty BY <1>p, <1>2, <2>3 DEF FetchGetEmpty
  <2>4. ASSUME NEW p \in rin, FetchPacket(p) PROVE Apart'
    <3>1. inb' = inb \cup {p} /\ rin' = IF SameFile THEN rin ELSE rin \ {p}
      BY <2>4 DEF FetchPacket
    <3>2. UNCHANGED <<outb, rout, away, gone, dropped, faults>>
      BY <2>4 DEF FetchPacket
    <3> QED BY <1>p, <1>2, <3>1, <3>2
  <2>5. ASSUME NEW p \in rin, FetchPutFails(p) PROVE Apart'
    <3>1. UNCHANGED <<outb, rout, away, dropped>>
      BY <2>5 DEF FetchPutFails
    <3>2. CASE Faults(1) /\ UNCHANGED <<rin, inb, gone>>
      <4>1. Paid'
        BY <1>0, <1>2, <3>1, <3>2, MoreFaults
      <4> QED BY <1>2, <3>1, <3>2, <4>1
    <3>3. CASE /\ Faults(2)
               /\ rin' = rin \ {p} /\ inb' = IF SameFile THEN rin' ELSE inb
               /\ gone' = gone \cup {p}
      <4>1. Paid'
        <5>1. /\ Cardinality(gone) \in Nat /\ Cardinality(dropped) \in Nat
              /\ Cardinality(gone') \in Nat
              /\ Cardinality(gone') <= Cardinality(gone) + 1
          BY <3>3, OneMoreGone
        <5>2. faults' = faults + 2 /\ UNCHANGED <<setup, dropped>>
          BY <1>2, <3>1, <3>3
        <5>3. Paid
          OBVIOUS
        <5> HIDE DEF Apart
        <5> QED BY <1>0, <5>1, <5>2, <5>3 DEF Paid, Memory
      <4>2. p \notin outb \cup rout \cup away \cup gone \cup dropped
        OBVIOUS
      <4>3. CASE SameFile
        BY <1>2, <3>1, <3>3, <4>1, <4>2, <4>3
      <4>4. CASE ~SameFile
        <5>1. inb' = inb /\ rin' = rin \ {p} /\ gone' = gone \cup {p}
          BY <3>3, <4>4
        <5>2. p \notin inb
          BY <4>4
        <5>3. Packets = inb' \cup outb' \cup rin' \cup rout' \cup away' \cup gone' \cup dropped'
          BY <3>1, <5>1
        <5>4. UNCHANGED setup
          BY <1>2
        <5> QED BY <3>1, <4>1, <4>2, <4>4, <5>1, <5>2, <5>3, <5>4
      <4> QED BY <4>3, <4>4
    <3> QED BY <2>5, <3>2, <3>3 DEF FetchPutFails
  <2> QED BY <1>2, <2>1, <2>2, <2>3, <2>4, <2>5 DEF Fetch
<1>3. ASSUME Flush, UNCHANGED setup PROVE Apart'
  <2>1. CASE FlushStop BY <1>p, <1>3, <2>1 DEF FlushStop
  <2>2. CASE FlushCrossSaves
    <3>1. PICK read \in SUBSET outb, lost \in SUBSET outb :
            /\ lost \subseteq read
            /\ Faults(Cardinality(lost)) \/ Faults(Cardinality(lost) + 1)
            /\ outb' = outb \ read /\ dropped' = dropped \cup lost
            /\ inb' = inb \cup (read \ lost)
      BY <2>2 DEF FlushCrossSaves
    <3>2. /\ rin' = IF SameFile THEN inb' ELSE rin
          /\ UNCHANGED <<rout, away, gone>>
          /\ ~Memory
      BY <2>2 DEF FlushCrossSaves
    <3>3. Paid'
      <4>1. lost \in SUBSET Packets
        BY <3>1 DEF TypeOK
      <4>2. /\ Cardinality(lost) \in Nat /\ Cardinality(dropped) \in Nat
            /\ Cardinality(dropped') \in Nat
            /\ Cardinality(dropped') <= Cardinality(dropped) + Cardinality(lost)
        BY <3>1, <4>1, MoreDropped
      <4>3. Cardinality(gone) \in Nat
        BY FiniteBuffer DEF TypeOK
      <4>4. faults' >= faults + Cardinality(lost) /\ faults' \in Nat
        BY <1>0, <3>1, <4>2
      <4>5. 2 * Cardinality(gone) + Cardinality(dropped) <= faults
        BY <3>2 DEF Paid
      <4>6. 2 * Cardinality(gone) + Cardinality(dropped') <= faults'
        BY <1>0, <4>2, <4>3, <4>4, <4>5
      <4> QED BY <1>3, <3>2, <4>6 DEF Paid, Memory
    <3> QED BY <1>3, <3>1, <3>2, <3>3
  <2>3. ASSUME NEW p \in outb, FlushPacket(p) PROVE Apart'
    <3>1. /\ outb' = outb \ {p} /\ rout' = rout \cup {p}
          /\ UNCHANGED <<inb, rin, away, gone, dropped, faults>>
      BY <2>3 DEF FlushPacket
    <3> QED BY <1>p, <1>3, <3>1
  <2>4. ASSUME NEW p \in outb, FlushPutFails(p) PROVE Apart'
    <3>1. UNCHANGED <<inb, rin, rout, away, dropped>> /\ Memory
      BY <2>4 DEF FlushPutFails
    <3>2. PICK put \in {0, 1} :
            \/ Faults(put) /\ UNCHANGED <<outb, gone>>
            \/ Faults(put + 1) /\ outb' = outb \ {p} /\ gone' = gone \cup {p}
      BY <2>4 DEF FlushPutFails
    <3>3. CASE Faults(put) /\ UNCHANGED <<outb, gone>>
      <4>1. Paid'
        BY <1>0, <1>3, <3>1, <3>2, <3>3, MoreFaults
      <4> QED BY <1>3, <3>1, <3>3, <4>1
    <3>4. CASE Faults(put + 1) /\ outb' = outb \ {p} /\ gone' = gone \cup {p}
      <4>1. Paid'
        BY <1>0, <1>3, <3>1, <3>2, <3>4, OneMoreGone DEF Paid, Memory
      <4> QED BY <1>3, <3>1, <3>4, <4>1
    <3> QED BY <3>2, <3>3, <3>4
  <2> QED BY <1>3, <2>1, <2>2, <2>3, <2>4 DEF Flush
<1>4. ASSUME UpdateEnd \/ TakeNone \/ Tick \/ Exit, UNCHANGED setup PROVE Apart'
  BY <1>p, <1>4 DEF UpdateEnd, TakeNone, Tick, Exit
<1>5. ASSUME NEW p \in Packets, Take(p), UNCHANGED setup PROVE Apart'
  BY <1>p, <1>5 DEF Take
<1>6. ASSUME NEW p \in Packets, Return(p), UNCHANGED setup PROVE Apart'
  BY <1>p, <1>6 DEF Return
<1>7. ASSUME NEW p \in Packets, Supply(p), UNCHANGED setup PROVE Apart'
  BY <1>p, <1>7 DEF Supply
<1>8. CASE UNCHANGED vars BY <1>p, <1>8 DEF vars
<1> QED
  BY <1>1, <1>2, <1>3, <1>4, <1>5, <1>6, <1>7, <1>8 DEF Next, Update

LEMMA AlwaysApart == Spec => []Apart
<1>1. Init => Apart
  <2> SUFFICES ASSUME Init PROVE Apart
    OBVIOUS
  <2>1. Paid
    BY FS_EmptySet DEF Init, Paid
  <2>2. PICK local, remote \in SUBSET Packets :
          /\ local \cap remote = {} /\ inb = local
          /\ rin = IF SameFile THEN local ELSE remote
          /\ away = Packets \ (IF SameFile THEN local ELSE local \cup remote)
    BY DEF Init
  <2> QED BY <2>1, <2>2 DEF Init, Apart
<1>2. TypeOK /\ Apart /\ [Next]_vars => Apart'
  BY ApartStep
<1> QED
  BY <1>1, <1>2, BuffUpdateTypeCorrect, PTL DEF Spec

\* What is in one of disjoint places that hold all is in one place.
LEMMA ApartCounts ==
  ASSUME Apart
  PROVE  Conserved
<1> DEFINE places == IF SameFile THEN <<inb, outb, rout, away, gone, dropped>>
                                 ELSE <<inb, outb, rin, rout, away, gone, dropped>>
           holding(p) == {i \in DOMAIN places : p \in places[i]}
<1>1. ASSUME NEW p \in Packets PROVE \E i : holding(p) = {i}
  <2>1. CASE SameFile
    <3>1. DOMAIN places = 1 .. 6 /\ places[1] = inb /\ places[2] = outb
          /\ places[3] = rout /\ places[4] = away /\ places[5] = gone
          /\ places[6] = dropped
      BY <2>1
    <3> HIDE DEF places
    <3>2. CASE p \in inb
      <4>1. holding(p) = {1}
        BY <2>1, <3>1, <3>2 DEF Apart
      <4> QED BY <4>1
    <3>3. CASE p \in outb BY <2>1, <3>1, <3>3 DEF Apart
    <3>4. CASE p \in rout BY <2>1, <3>1, <3>4 DEF Apart
    <3>5. CASE p \in away BY <2>1, <3>1, <3>5 DEF Apart
    <3>6. CASE p \in gone BY <2>1, <3>1, <3>6 DEF Apart
    <3>7. CASE p \in dropped BY <2>1, <3>1, <3>7 DEF Apart
    <3> QED BY <2>1, <3>2, <3>3, <3>4, <3>5, <3>6, <3>7 DEF Apart
  <2>2. CASE ~SameFile
    <3>1. DOMAIN places = 1 .. 7 /\ places[1] = inb /\ places[2] = outb
          /\ places[3] = rin /\ places[4] = rout /\ places[5] = away
          /\ places[6] = gone /\ places[7] = dropped
      BY <2>2
    <3> HIDE DEF places
    <3>2. CASE p \in inb
      <4>1. holding(p) = {1}
        BY <2>2, <3>1, <3>2 DEF Apart
      <4> QED BY <4>1
    <3>3. CASE p \in outb
      <4>1. holding(p) = {2}
        BY <2>2, <3>1, <3>3 DEF Apart
      <4> QED BY <4>1
    <3>4. CASE p \in rin BY <2>2, <3>1, <3>4 DEF Apart
    <3>5. CASE p \in rout BY <2>2, <3>1, <3>5 DEF Apart
    <3>6. CASE p \in away BY <2>2, <3>1, <3>6 DEF Apart
    <3>7. CASE p \in gone BY <2>2, <3>1, <3>7 DEF Apart
    <3>8. CASE p \in dropped BY <2>2, <3>1, <3>8 DEF Apart
    <3> QED BY <2>2, <3>2, <3>3, <3>4, <3>5, <3>6, <3>7, <3>8 DEF Apart
  <2> QED BY <2>1, <2>2
<1>2. \A p \in Packets : Cardinality(holding(p)) = 1
  <2> HIDE DEF holding
  <2> QED BY <1>1, FS_Singleton
<1> QED
  BY <1>2 DEF Conserved, Apart, Paid

\* A packet is in one place whatever reads and writes fail.  In a file client a
\* packet that could not be put back has cost two writes that failed, and one that
\* could not be cross-saved has cost one; in a client with buffers in memory nothing
\* is lost to a cross-save.
THEOREM PacketsConserved == Spec => []Conserved
BY AlwaysApart, ApartCounts, PTL

-----------------------------------------------------------------------------
(* How much is fetched. *)

\* Of the steps of a fetch only one that puts a packet adds to the in-buffer.
\* It does so when BufferReComputeUnitsToFetch is above nought, that is below
\* the threshold and the limit, or the number of crunchers, so it brings the buffer up to one
\* of them and not beyond, whatever others take out of it meanwhile.
THEOREM FetchIsMeasured == Spec => Measured
<1>1. ASSUME TypeOK, Apart, [Next]_vars, upd.pc = "fetch", Cardinality(inb') > Cardinality(inb)
      PROVE  \/ Cardinality(inb') <= Threshold /\ Cardinality(inb') <= Limit
             \/ Cardinality(inb') <= Crunchers
  <2> USE <1>1
  <2>1. inb \in SUBSET Packets /\ IsFiniteSet(inb) /\ Cardinality(inb) \in Nat
    BY FiniteBuffer DEF TypeOK
  <2>2. ASSUME NEW p \in rin, FetchPacket(p)
        PROVE  \/ Cardinality(inb') <= Threshold /\ Cardinality(inb') <= Limit
               \/ Cardinality(inb') <= Crunchers
    <3>1. Cardinality(inb') <= Cardinality(inb) + 1 /\ Cardinality(inb') \in Nat
      <4>1. inb' = inb \cup {p}
        BY <2>2 DEF FetchPacket
      <4>2. /\ IsFiniteSet(inb \cup {p})
            /\ Cardinality(inb \cup {p}) =
                 IF p \in inb THEN Cardinality(inb) ELSE Cardinality(inb) + 1
        BY <2>1, FS_AddElement
      <4> QED BY <2>1, <4>1, <4>2
    <3>2. BufferReComputeUnitsToFetch > 0
      BY <2>2 DEF FetchPacket, Fetching
    <3>3. \/ Cardinality(inb) < Threshold /\ Cardinality(inb) < Limit
          \/ Cardinality(inb) < Crunchers
      BY <2>1, <3>2, BuffUpdateAssumption DEF BufferReComputeUnitsToFetch
    <3> QED BY <2>1, <3>1, <3>3, BuffUpdateAssumption
  <2>3. ASSUME NEW p \in rin, FetchPutFails(p)
        PROVE  inb' \subseteq inb
    BY <2>3 DEF FetchPutFails, Apart
  <2>4. ASSUME NEW p \in Packets, Take(p) PROVE inb' \subseteq inb
    BY <2>4 DEF Take
  <2>5. ~(inb' \subseteq inb)
    <3>1. inb' \subseteq inb => Cardinality(inb') <= Cardinality(inb)
      BY <2>1, FS_Subset
    <3>2. inb' \subseteq inb => Cardinality(inb') \in Nat
      BY <2>1, FS_Subset, FS_CardinalityType
    <3> QED BY <2>1, <3>1, <3>2
  <2>6. CASE Fetch
    <3>1. ASSUME FetchStop \/ FetchGetFails \/ FetchGetEmpty PROVE inb' = inb
      BY <3>1 DEF FetchStop, FetchGetFails, FetchGetEmpty, packets
    <3> QED BY <2>1, <2>2, <2>3, <2>5, <2>6, <3>1 DEF Fetch
  <2>7. ~Flush /\ ~UpdateEnd
    BY DEF Flush, FlushStop, FlushCrossSaves, FlushPacket, FlushPutFails, Flushing,
           UpdateEnd
  <2>8. ASSUME NEW services \in Requests, NEW interactive \in BOOLEAN
        PROVE  ~UpdateBegin(services, interactive)
    BY DEF UpdateBegin
  <2>9. ASSUME NEW p \in Packets, Return(p) \/ Supply(p) PROVE inb' = inb
    BY <2>9 DEF Return, Supply
  <2>10. ASSUME TakeNone \/ Tick \/ Exit \/ UNCHANGED vars PROVE inb' = inb
    BY <2>10 DEF TakeNone, Tick, Exit, packets, vars
  <2> QED
    BY <2>1, <2>4, <2>5, <2>6, <2>7, <2>8, <2>9, <2>10 DEF Next, Update
<1> QED
  BY <1>1, BuffUpdateTypeCorrect, AlwaysApart, PTL DEF Spec, Measured

-----------------------------------------------------------------------------
(* The room of a buffer in memory. *)

\* The room that BufferPutMemRecord takes is never given back, so that a buffer
\* which has once taken all of it would count as full for ever.  No fetch goes that
\* far when the limit and the crunchers leave a step of room below the maximum (in
\* the CUDA build 10000 and 200 below 20000): it puts a packet only while the buffer
\* is below the threshold or the crunchers, and the room grows only when it is used
\* up.
THEOREM MemoryNeverFull ==
  ASSUME Limit + MemStep <= MemMax, Crunchers + MemStep <= MemMax
  PROVE  Spec => [](Memory => ~Full)
<1> DEFINE RoomLeft == Memory => cap["in"] < MemMax
<1>1. Init => RoomLeft
  <2> SUFFICES ASSUME Init, Memory PROVE cap["in"] < MemMax
    OBVIOUS
  <2>1. inb = {} /\ cap["in"] = Cardinality(inb)
    BY DEF Init
  <2> QED BY <2>1, FS_EmptySet, BuffUpdateAssumption
<1>2. ASSUME TypeOK, RoomLeft, [Next]_vars PROVE RoomLeft'
  <2> SUFFICES ASSUME Memory PROVE cap'["in"] < MemMax
    BY <1>2 DEF Next, vars, Memory
  <2> USE <1>2
  <2>1. CASE cap'["in"] = cap["in"]
    BY <2>1
  <2>2. ASSUME NEW p \in rin, FetchPacket(p) PROVE cap'["in"] < MemMax
    <3> DEFINE before == Cardinality(inb \ {p})
    <3>1. /\ inb \in SUBSET Packets /\ IsFiniteSet(inb)
          /\ Cardinality(inb) \in Nat /\ before \in Nat
      BY FiniteBuffer DEF TypeOK
    <3>2. before <= Cardinality(inb)
      BY <3>1, FS_Subset
    <3>3. Cardinality(inb) < Limit \/ Cardinality(inb) < Crunchers
      BY <2>2, <3>1, BuffUpdateAssumption
      DEF FetchPacket, Fetching, BufferReComputeUnitsToFetch
    <3>4. before + MemStep < MemMax
      BY <3>1, <3>2, <3>3, BuffUpdateAssumption
    <3>5. cap' = IF before >= cap["in"] THEN [cap EXCEPT !["in"] = cap["in"] + MemStep] ELSE cap
      BY <2>2 DEF FetchPacket, Grown, Step
    <3>6. cap["in"] \in Nat /\ cap \in [{"in", "out"} -> Nat]
      BY DEF TypeOK
    <3>7. CASE before >= cap["in"]
      <4>1. cap'["in"] = cap["in"] + MemStep
        BY <3>5, <3>6, <3>7
      <4> HIDE DEF before
      <4> QED BY <3>1, <3>4, <3>6, <3>7, <4>1, BuffUpdateAssumption
    <3>8. CASE ~(before >= cap["in"])
      BY <2>1, <3>5, <3>8
    <3> QED BY <3>7, <3>8
  <2>3. CASE Fetch
    <3>1. FetchStop \/ FetchGetFails => cap' = cap
      BY DEF FetchStop, FetchGetFails, packets
    <3>2. FetchGetEmpty => cap' = cap
      <4>1. ~SameFile
        BY DEF TypeOK, Setup, Memory, SameFile
      <4> QED BY <4>1 DEF FetchGetEmpty
    <3>3. ASSUME NEW p \in rin, FetchPutFails(p) PROVE cap' = cap
      BY <3>3 DEF FetchPutFails
    <3> QED BY <2>1, <2>2, <2>3, <3>1, <3>2, <3>3 DEF Fetch
  <2>4. ASSUME Flush PROVE cap' = cap
    BY <2>4 DEF Flush, FlushStop, FlushCrossSaves, FlushPacket, FlushPutFails, packets
  <2>5. ASSUME NEW p \in Packets, Return(p) PROVE cap'["in"] = cap["in"]
    BY <2>5 DEF Return, Grown, TypeOK
  <2>6. ASSUME NEW p \in Packets, Take(p) \/ Supply(p) PROVE cap' = cap
    BY <2>6 DEF Take, Supply
  <2>7. ASSUME NEW services \in Requests, NEW interactive \in BOOLEAN,
               UpdateBegin(services, interactive)
        PROVE  cap' = cap
    BY <2>7 DEF UpdateBegin, packets
  <2>8. UpdateEnd \/ TakeNone \/ Tick \/ Exit \/ UNCHANGED vars => cap' = cap
    BY DEF UpdateEnd, TakeNone, Tick, Exit, packets, vars
  <2> QED
    BY <2>1, <2>3, <2>4, <2>5, <2>6, <2>7, <2>8 DEF Next, Update
<1>3. TypeOK /\ RoomLeft => (Memory => ~Full)
  <2> SUFFICES ASSUME TypeOK, RoomLeft, Memory PROVE ~Full
    OBVIOUS
  <2>1. cap["in"] \in Nat
    BY DEF TypeOK
  <2> QED BY <2>1, BuffUpdateAssumption DEF Full
<1> QED
  BY <1>1, <1>2, <1>3, BuffUpdateTypeCorrect, PTL DEF Spec
=============================================================================
