--------------------------- MODULE RecoveryProofs ---------------------------
(***************************************************************************)
(* Proofs about Recovery, for any packets, slots, units and crashes: that  *)
(* the checkpoint holds what the crunchers have (CheckpointCovers), that   *)
(* without a crash no packet is in two places (OnePlace) and no solution   *)
(* goes unreported (SolutionReported), and that a packet is lost only in   *)
(* the moment of a crash (Conserved).  The last needs moo files and no     *)
(* packets that arrive during the initial load: without either it does not *)
(* hold.                                                                   *)
(*                                                                         *)
(* The invariants: Shape, where the main thread is and what it holds;      *)
(* Untouched, of packets that never came in; Covering, the checkpoint in   *)
(* the middle of a refresh; Single and Sound, what no crash has disturbed; *)
(* Prefix, that the loaded slots are the first ones; Safe.                 *)
(***************************************************************************)
EXTENDS Recovery, FiniteSetTheorems, NaturalsInduction, WellFoundedInduction,
        TLAPS

Starting == pc \in {"open", "import", "close"}

Shape ==
  /\ \A s \in Slot : \A p, q \in slots[s] : p = q
  /\ pc # "import" => hand = {}
  /\ Starting => \A s \in Slot : slots[s] = {}
  /\ pc = "load" => todo # {}
  /\ pc \in {"visit", "load", "refresh", "unload"} => todo \subseteq 1 .. count
  /\ pc = "fill" => \A s \in todo : s > count

\* A packet is outside only as it was made, and nowhere else then.
Untouched ==
  \A p \in outside :
    /\ p = Fresh(p.id) /\ kept[p.id] = -1
    /\ \A q \in inbuf \cup outbuf \cup ckpt \cup hand : q.id # p.id
    /\ \A s \in Slot : \A q \in slots[s] : q.id # p.id

\* The checkpoint has the packets of the slots in S, and no other.
Covers(S) == \A i \in Ids : (\E p \in ckpt : p.id = i) <=> \E s \in S : \E p \in slots[s] : p.id = i

Covering ==
  /\ pc \in {"sleep", "visit", "load", "check"} /\ ~due => Covers(1 .. count)
  /\ pc = "refresh" => Covers((1 .. count) \ todo)
  /\ pc = "resize" => due

\* No packet is in two of the places a client works with.
Disjoint ==
  /\ \A p, q \in inbuf : p.id = q.id => p = q
  /\ \A s, t \in Slot : \A p \in slots[s], q \in slots[t] : p.id = q.id => s = t
  /\ \A s \in Slot : \A p \in slots[s], q \in inbuf \cup outbuf : p.id # q.id
  /\ \A p \in inbuf, q \in outbuf : p.id # q.id

Single ==
  crashes = 0 => /\ Starting => ckpt = {} /\ hand = {}
                 /\ Disjoint

\* The solution of p was found, or the search has not come to it.
Good(p) ==
  p.id \in Marked => \/ p.rc = "found"
                     \/ p.rc = "working" /\ p.key = "first" /\ p.done <= 1

AllGood ==
  /\ \A p \in inbuf \cup outbuf \cup outside : Good(p)
  /\ \A s \in Slot : \A p \in slots[s] : Good(p)

Sound == crashes = 0 => AllGood

\* While packets are loaded, the slots visited are full or the in-buffer is empty.
Prefix ==
  /\ pc \in {"fill", "sleep", "visit", "load", "check", "refresh", "unload"} =>
       \A s \in Slot : s > count => slots[s] = {}
  /\ pc = "resize" => \A s \in Slot : s > count /\ s \notin todo => slots[s] = {}
  /\ pc = "fill" => inbuf = {} \/ \A s \in Slot \ todo : s <= count
  /\ pc = "unload" => \A s \in 1 .. count : s \notin todo => slots[s] = {}
  /\ pc = "close" => ckpt = {}

\* A copy of packet i that is as good as the last one put.
Copy(i, p) == p.id = i /\ p.done >= kept[i]

Safe ==
  \A i \in Ids \ lost :
    \/ \E p \in outbuf \cup outside : p.id = i
    \/ \E p \in inbuf \cup hand : Copy(i, p)
    \/ \E s \in Slot : \E p \in slots[s] : Copy(i, p)
    \/ Starting /\ \E p \in ckpt : Copy(i, p)

-----------------------------------------------------------------------------
(* Types, and what the operators of the actions do. *)

\* Slots, and counts of units, are numbers: there is a first and a last of them.
LEMMA MinOfPlaces ==
  ASSUME NEW S \in SUBSET Nat, S # {}
  PROVE  Min(S) \in S /\ \A i \in S : Min(S) <= i
<1>1. PICK m \in S : \A i \in S : <<i, m>> \notin OpToRel(<, Nat)
  BY NatLessThanWellFounded, WFMin, Zenon
<1>2. \A i \in S : ~(i < m)
  BY <1>1, Zenon DEF OpToRel
<1>3. \A i \in S : m <= i
  BY <1>2
<1> QED
  BY <1>3 DEF Min

LEMMA MaxOfPlaces ==
  ASSUME NEW n \in Int, NEW S \in SUBSET Int, S # {}, \A i \in S : i <= n
  PROVE  Max(S) \in S /\ \A i \in S : Max(S) >= i
<1> DEFINE T == {n - i : i \in S}
<1>1. T \in SUBSET Nat /\ T # {}
  <2>1. \A i \in S : n - i \in Nat
    OBVIOUS
  <2> QED BY <2>1
<1>2. Min(T) \in T /\ \A t \in T : Min(T) <= t
  BY <1>1, MinOfPlaces
<1>3. PICK m \in S : Min(T) = n - m
  BY <1>2
<1>4. ASSUME NEW i \in S PROVE m >= i
  <2>1. n - i \in T
    OBVIOUS
  <2>2. n - m <= n - i
    BY <1>2, <1>3, <2>1
  <2> QED BY <2>2
<1> QED
  BY <1>4 DEF Max

\* The places that the loops take next.
LEMMA Ends ==
  ASSUME TypeOK, todo # {}
  PROVE  /\ Max(todo) \in todo /\ Max(todo) \in Slot
         /\ Min(todo) \in todo /\ Min(todo) \in Slot
         /\ \A s \in todo : Min(todo) <= s
<1>1. todo \in SUBSET (1 .. NSlots) /\ NSlots \in Nat
  BY RecoveryAssumption DEF TypeOK, Slot
<1>2. todo \in SUBSET Nat
  BY <1>1
<1>3. todo \in SUBSET Int /\ NSlots \in Int /\ \A s \in todo : s <= NSlots
  BY <1>1
<1> QED
  BY <1>1, <1>2, <1>3, MaxOfPlaces, MinOfPlaces DEF Slot

\* Slot s gets the packets S, the others keep theirs.
Becomes(s, S) ==
  /\ slots' \in [Slot -> SUBSET Packet]
  /\ slots'[s] = S
  /\ \A t \in Slot : t # s => slots'[t] = slots[t]
  /\ \A t \in Slot : Cardinality(slots'[t]) <= 1

LEMMA SlotSet ==
  ASSUME TypeOK, NEW s \in Slot, NEW S \in SUBSET Packet, Cardinality(S) <= 1,
         slots' = [slots EXCEPT ![s] = S]
  PROVE  Becomes(s, S)
BY DEF TypeOK, Becomes

LEMMA SlotOne ==
  ASSUME TypeOK, NEW s \in Slot, NEW p \in Packet, slots' = [slots EXCEPT ![s] = {p}]
  PROVE  Becomes(s, {p})
<1>1. {p} \in SUBSET Packet
  OBVIOUS
<1>2. Cardinality({p}) = 1
  BY FS_Singleton
<1>3. Cardinality({p}) <= 1
  BY <1>2
<1> QED
  BY <1>1, <1>3, SlotSet

\* A packet that is put is conserved by the copy put, or by what it had before.
LEMMA KeepFacts ==
  ASSUME TypeOK, NEW packets \in SUBSET Packet, Keep(packets)
  PROVE  /\ kept' \in [Ids -> -1 .. Units]
         /\ \A i \in Ids : \/ kept'[i] = kept[i]
                           \/ \E p \in packets : p.id = i /\ p.done = kept'[i]
<1> SUFFICES ASSUME NEW i \in Ids
             PROVE  /\ kept'[i] \in -1 .. Units
                    /\ \/ kept'[i] = kept[i]
                       \/ \E p \in packets : p.id = i /\ p.done = kept'[i]
  BY DEF Keep
<1> DEFINE dones == {p.done : p \in {q \in packets : q.id = i}}
<1>1. CASE \E p \in packets : p.id = i
  <2>1. kept'[i] = Max({kept[i]} \cup dones)
    BY <1>1 DEF Keep
  <2>2. dones \subseteq 0 .. Units
    BY DEF Packet
  <2>3. {kept[i]} \cup dones \in SUBSET (-1 .. Units)
    <3>1. kept[i] \in -1 .. Units
      BY DEF TypeOK
    <3>2. 0 .. Units \subseteq -1 .. Units
      BY RecoveryAssumption
    <3> HIDE DEF dones
    <3> QED BY <2>2, <3>1, <3>2
  <2>4. kept'[i] \in {kept[i]} \cup dones
    <3> HIDE DEF dones
    <3>1. Units \in Nat
      BY RecoveryAssumption
    <3>2. {kept[i]} \cup dones # {}
      OBVIOUS
    <3>3. /\ {kept[i]} \cup dones \in SUBSET Int /\ Units \in Int
          /\ \A n \in {kept[i]} \cup dones : n <= Units
      BY <2>3, <3>1
    <3> QED BY <2>1, <3>2, <3>3, MaxOfPlaces
  <2>5. kept'[i] \in -1 .. Units
    BY <2>3, <2>4
  <2> QED BY <2>4, <2>5
<1>2. CASE ~(\E p \in packets : p.id = i)
  BY <1>2 DEF Keep, TypeOK
<1> QED
  BY <1>1, <1>2

LEMMA TakeFacts ==
  ASSUME TypeOK, NEW s \in Slot, Take(s)
  PROVE  \E p \in inbuf :
           /\ p \in Packet /\ inbuf' = inbuf \ {p} /\ Becomes(s, {p})
           /\ kept' \in [Ids -> -1 .. Units]
           /\ kept' = [kept EXCEPT ![p.id] = -1]
<1>1. PICK p \in inbuf : /\ inbuf' = inbuf \ {p}
                         /\ slots' = [slots EXCEPT ![s] = {p}]
                         /\ kept' = [kept EXCEPT ![p.id] = -1]
  BY DEF Take
<1>2. p \in Packet /\ p.id \in Ids
  BY DEF TypeOK, Packet
<1>3. Becomes(s, {p})
  BY <1>1, <1>2, SlotOne
<1>4. -1 \in -1 .. Units
  BY RecoveryAssumption
<1>5. kept' \in [Ids -> -1 .. Units]
  BY <1>1, <1>2, <1>4 DEF TypeOK
<1> QED
  BY <1>1, <1>2, <1>3, <1>5

LEMMA UnloadFacts ==
  ASSUME TypeOK, NEW s \in Slot, UnloadSlot(s)
  PROVE  /\ slots[s] \in SUBSET Packet
         /\ PutBufferRecord(slots[s]) /\ Keep(slots[s]) /\ Becomes(s, {})
<1>1. slots[s] \in SUBSET Packet
  BY DEF TypeOK
<1>2. {} \in SUBSET Packet /\ Cardinality({}) <= 1
  BY FS_EmptySet
<1>3. slots' = [slots EXCEPT ![s] = {}]
  BY DEF UnloadSlot
<1>4. Becomes(s, {})
  BY <1>2, <1>3, SlotSet
<1> QED
  BY <1>1, <1>4 DEF UnloadSlot

LEMMA PutType ==
  ASSUME TypeOK, NEW packets \in SUBSET Packet, PutBufferRecord(packets)
  PROVE  /\ inbuf' \subseteq Packet /\ outbuf' \subseteq Packet
         /\ \A p \in inbuf' : ~Finished(p)
         /\ \A p \in outbuf' : Finished(p)
BY DEF TypeOK, PutBufferRecord

LEMMA UnloadType ==
  ASSUME TypeOK, NEW s \in Slot, UnloadSlot(s)
  PROVE  /\ inbuf' \subseteq Packet /\ outbuf' \subseteq Packet
         /\ \A p \in inbuf' : ~Finished(p)
         /\ \A p \in outbuf' : Finished(p)
         /\ kept' \in [Ids -> -1 .. Units]
         /\ slots' \in [Slot -> SUBSET Packet]
         /\ \A t \in Slot : Cardinality(slots'[t]) <= 1
BY UnloadFacts, PutType, KeepFacts DEF Becomes

\* The copy of a packet as RESULT_WORKING.
Working(p) == [p EXCEPT !.rc = "working"]

LEMMA WorkingCopy ==
  ASSUME NEW p \in Packet
  PROVE  /\ Working(p) \in Packet /\ ~Finished(Working(p))
         /\ Working(p).id = p.id /\ Working(p).done = p.done
BY DEF Working, Packet, Finished

LEMMA CrunchFacts ==
  ASSUME TypeOK, NEW s \in Slot, Crunch(s)
  PROVE  \E p \in slots[s], c \in Packet :
           /\ Becomes(s, {c}) /\ c.id = p.id /\ c.done >= p.done
           /\ Good(p) => Good(c)
<1>1. PICK p \in slots[s] :
        /\ ~Finished(p) /\ p.done < Units
        /\ LET hit == p.id \in Marked /\ p.key = "first" /\ p.done = 1 IN
           slots' = [slots EXCEPT ![s] = {[p EXCEPT
             !.done = IF hit THEN @ ELSE @ + 1,
             !.key = IF hit THEN "solution" ELSE @,
             !.rc = IF hit THEN "found" ELSE IF p.done + 1 = Units THEN "nothing" ELSE @]}]
  BY DEF Crunch
<1> DEFINE hit == p.id \in Marked /\ p.key = "first" /\ p.done = 1
           c == [p EXCEPT
             !.done = IF hit THEN @ ELSE @ + 1,
             !.key = IF hit THEN "solution" ELSE @,
             !.rc = IF hit THEN "found" ELSE IF p.done + 1 = Units THEN "nothing" ELSE @]
<1>2. p \in Packet /\ p.rc = "working" /\ p.done \in 0 .. Units /\ Units \in Nat \ {0, 1}
  BY <1>1, RecoveryAssumption DEF TypeOK, Packet, Finished
<1>3. CASE hit
  <2>1. c = [p EXCEPT !.key = "solution", !.rc = "found"]
    BY <1>2, <1>3 DEF Packet
  <2>2. c \in Packet /\ c.id = p.id /\ c.done = p.done /\ c.rc = "found"
    BY <1>2, <2>1 DEF Packet
  <2>3. c.done >= p.done
    BY <1>2, <2>2
  <2> HIDE DEF c
  <2>4. slots' = [slots EXCEPT ![s] = {c}]
    BY <1>1 DEF c
  <2> QED BY <2>2, <2>3, <2>4, SlotOne DEF Good
<1>4. CASE ~hit
  <2>1. c = [p EXCEPT !.done = p.done + 1,
                      !.rc = IF p.done + 1 = Units THEN "nothing" ELSE p.rc]
    BY <1>2, <1>4 DEF Packet
  <2>2. p.done + 1 \in 0 .. Units
    BY <1>1, <1>2
  <2>3. /\ c \in Packet /\ c.id = p.id /\ c.done = p.done + 1 /\ c.key = p.key
        /\ c.rc = IF p.done + 1 = Units THEN "nothing" ELSE "working"
    BY <1>2, <2>1, <2>2 DEF Packet
  <2>4. c.done >= p.done
    BY <1>2, <2>3
  <2>5. Good(p) => Good(c)
    <3>1. SUFFICES ASSUME Good(p), p.id \in Marked PROVE Good(c)
      BY <2>3 DEF Good
    <3>2. p.key = "first" /\ p.done <= 1
      BY <1>2, <3>1 DEF Good
    <3>3. p.done = 0
      BY <1>2, <1>4, <3>1, <3>2
    <3>4. c.done = 1 /\ c.rc = "working"
      BY <1>2, <2>3, <3>3
    <3> QED BY <2>3, <3>2, <3>4 DEF Good
  <2>6. Becomes(s, {c})
    <3> HIDE DEF c
    <3>1. slots' = [slots EXCEPT ![s] = {c}]
      BY <1>1 DEF c
    <3> QED BY <2>3, <3>1, SlotOne
  <2> HIDE DEF c
  <2> QED BY <2>3, <2>4, <2>5, <2>6
<1> QED
  BY <1>3, <1>4

LEMMA TypeStep ==
  ASSUME TypeOK, Shape, [Next]_vars
  PROVE  TypeOK'
<1> USE RecoveryAssumption DEF files, history
<1>1. CASE ImportGet
  <2>1. CASE \E p \in ckpt : /\ hand' = {Working(p)} /\ ckpt' = ckpt \ {p}
                             /\ pc' = "import"
    <3>1. hand' \subseteq Packet
      BY <2>1, WorkingCopy DEF TypeOK
    <3> QED BY <1>1, <2>1, <3>1 DEF ImportGet, TypeOK
  <2>2. CASE pc' = "close" /\ UNCHANGED <<hand, ckpt>>
    BY <1>1, <2>2 DEF ImportGet, TypeOK
  <2> QED BY <1>1, <2>1, <2>2 DEF ImportGet, Working
<1>2. CASE ImportPut
  <2>1. hand \in SUBSET Packet /\ PutBufferRecord(hand) /\ Keep(hand)
    BY <1>2 DEF ImportPut, TypeOK
  <2>2. kept' \in [Ids -> -1 .. Units]
    BY <2>1, KeepFacts
  <2> QED BY <1>2, <2>1, <2>2, PutType DEF ImportPut, TypeOK
<1>3. CASE CloseOpen
  <2>1. 0 \in 0 .. NSlots
    OBVIOUS
  <2> QED BY <1>3, <2>1 DEF CloseOpen, TypeOK
<1>4. CASE Fill
  <2>1. Min(todo) \in todo /\ Min(todo) \in Slot /\ todo' \subseteq Slot
    BY <1>4, Ends DEF Fill, TypeOK
  <2>2. CASE Take(Min(todo)) /\ count' = count + 1
    <3>1. count < Min(todo)
      BY <1>4, <2>1 DEF Fill, Shape
    <3>2. count' \in 0 .. NSlots
      BY <2>1, <2>2, <3>1 DEF TypeOK, Slot
    <3> QED BY <1>4, <2>1, <2>2, <3>2, TakeFacts DEF Fill, TypeOK, Becomes
  <2>3. CASE UNCHANGED <<slots, inbuf, kept, count>>
    BY <1>4, <2>1, <2>3 DEF Fill, TypeOK
  <2> QED BY <1>4, <2>2, <2>3 DEF Fill
<1>5. CASE StartThreads
  <2>1. PICK threads \in 0 .. count :
          /\ count' = IF threads = 0 THEN count ELSE threads
          /\ todo' = IF threads = 0 THEN 1 .. count
                     ELSE IF threads < count THEN threads + 1 .. NSlots ELSE {}
          /\ pc' \in {"unload", "resize", "sleep"}
    BY <1>5 DEF StartThreads
  <2>2. count' \in 0 .. NSlots /\ todo' \subseteq Slot
    BY <2>1 DEF TypeOK, Slot
  <2> QED BY <1>5, <2>1, <2>2 DEF StartThreads, TypeOK
<1>6. CASE Resize
  <2>1. CASE todo = {}
    BY <1>6, <2>1 DEF Resize, TypeOK
  <2>2. CASE todo # {}
    <3>1. Max(todo) \in Slot /\ UnloadSlot(Max(todo))
      BY <1>6, <2>2, Ends DEF Resize
    <3> QED BY <1>6, <2>2, <3>1, UnloadType DEF Resize, TypeOK
  <2> QED BY <2>1, <2>2
<1>7. CASE Wake
  <2>1. 1 .. count \subseteq Slot
    BY DEF TypeOK, Slot
  <2> QED BY <1>7, <2>1 DEF Wake, TypeOK
<1>8. CASE Save
  <2>1. Max(todo) \in Slot
    BY <1>8, Ends DEF Save
  <2>2. CASE UnloadSlot(Max(todo)) /\ due' = TRUE
    BY <1>8, <2>1, <2>2, UnloadType DEF Save, TypeOK
  <2>3. CASE UNCHANGED <<inbuf, outbuf, slots, kept, due>>
    BY <1>8, <2>3 DEF Save, TypeOK
  <2> QED BY <1>8, <2>2, <2>3 DEF Save
<1>9. CASE Load
  <2>1. Max(todo) \in Slot
    BY <1>9, Ends DEF Load, Shape
  <2>2. CASE Take(Max(todo)) /\ due' = TRUE
    BY <1>9, <2>1, <2>2, TakeFacts DEF Load, TypeOK, Becomes
  <2>3. CASE UNCHANGED <<slots, inbuf, kept, due>>
    BY <1>9, <2>3 DEF Load, TypeOK
  <2> QED BY <1>9, <2>2, <2>3 DEF Load
<1>10. CASE VisitsDone \/ SkipRefresh \/ Refreshed \/ RaiseExit
  BY <1>10 DEF VisitsDone, SkipRefresh, Refreshed, RaiseExit, TypeOK
<1>11. CASE ZapCheckpoint
  <2>1. 1 .. count \subseteq Slot
    BY DEF TypeOK, Slot
  <2> QED BY <1>11, <2>1 DEF ZapCheckpoint, TypeOK
<1>12. CASE Refresh
  <2>1. Min(todo) \in Slot
    BY <1>12, Ends DEF Refresh
  <2> DEFINE copies == {Working(p) : p \in slots[Min(todo)]}
  <2>2. copies \in SUBSET Packet /\ \A p \in copies : ~Finished(p)
    BY <2>1, WorkingCopy DEF TypeOK
  <2>3. ckpt' = ckpt \cup copies /\ Keep(copies)
    BY <1>12 DEF Refresh, Working
  <2> HIDE DEF copies
  <2>4. kept' \in [Ids -> -1 .. Units]
    BY <2>2, <2>3, KeepFacts
  <2> QED BY <1>12, <2>2, <2>3, <2>4 DEF Refresh, TypeOK
<1>13. CASE Unload
  <2>1. Max(todo) \in Slot /\ UnloadSlot(Max(todo))
    BY <1>13, Ends DEF Unload
  <2> QED BY <1>13, <2>1, UnloadType DEF Unload, TypeOK
<1>14. CASE Exit
  <2>1. slots' \in [Slot -> SUBSET Packet] /\ \A s \in Slot : Cardinality(slots'[s]) <= 1
    BY <1>14, FS_EmptySet DEF Exit
  <2> QED BY <1>14, <2>1 DEF Exit, TypeOK
<1>15. ASSUME NEW s \in Slot, Crunch(s) PROVE TypeOK'
  BY <1>15, CrunchFacts DEF Crunch, TypeOK, Becomes
<1>16. CASE Arrive
  BY <1>16 DEF Arrive, TypeOK
<1>17. CASE Crash
  <2>1. slots' \in [Slot -> SUBSET Packet] /\ \A s \in Slot : Cardinality(slots'[s]) <= 1
    BY <1>17, FS_EmptySet DEF Crash
  <2>2. crashes' \in 0 .. MaxCrashes
    BY <1>17 DEF Crash, TypeOK
  <2>3. lost' \subseteq Ids
    BY <1>17 DEF Crash, TypeOK
  <2> QED BY <1>17, <2>1, <2>2, <2>3 DEF Crash, TypeOK
<1>18. CASE UNCHANGED vars
  BY <1>18 DEF vars, TypeOK
<1> QED
  BY <1>1, <1>2, <1>3, <1>4, <1>5, <1>6, <1>7, <1>8, <1>9, <1>10, <1>11, <1>12, <1>13,
     <1>14, <1>15, <1>16, <1>17, <1>18 DEF Next

\* The slots after an action: only one of them changes, and it holds one packet
\* at most.
LEMMA OneEach ==
  ASSUME NEW s \in Slot, NEW S, Becomes(s, S), \A p, q \in S : p = q,
         \A t \in Slot : \A p, q \in slots[t] : p = q
  PROVE  \A t \in Slot : \A p, q \in slots'[t] : p = q
BY DEF Becomes

LEMMA ShapeStep ==
  ASSUME TypeOK, Shape, [Next]_vars
  PROVE  Shape'
<1> USE RecoveryAssumption DEF files, history
<1>1. CASE ImportGet
  BY <1>1 DEF ImportGet, Shape, Starting
<1>2. CASE ImportPut
  BY <1>2 DEF ImportPut, Shape, Starting
<1>3. CASE CloseOpen
  BY <1>3 DEF CloseOpen, Shape, Starting, Slot
<1>4. CASE Fill
  <2>1. /\ Min(todo) \in todo /\ Min(todo) \in Slot
        /\ \A s \in todo : Min(todo) <= s
    BY <1>4, Ends DEF Fill
  <2>2. CASE Take(Min(todo)) /\ count' = count + 1
    <3>1. PICK p : Becomes(Min(todo), {p})
      BY <2>1, <2>2, TakeFacts
    <3>2. \A t \in Slot : \A q, r \in slots'[t] : q = r
      BY <2>1, <3>1, OneEach DEF Shape
    <3>3. ASSUME NEW s \in todo' PROVE s > count'
      <4>1. s \in todo /\ s # Min(todo) /\ s \in Slot
        BY <1>4, <3>3 DEF Fill, TypeOK
      <4>2. count < Min(todo) /\ Min(todo) <= s
        BY <1>4, <2>1, <4>1 DEF Fill, Shape
      <4> QED BY <2>1, <2>2, <4>1, <4>2 DEF TypeOK, Slot
    <3> QED BY <1>4, <3>2, <3>3 DEF Fill, Shape, Starting
  <2>3. CASE UNCHANGED <<slots, inbuf, kept, count>>
    BY <1>4, <2>3 DEF Fill, Shape, Starting
  <2> QED BY <1>4, <2>2, <2>3 DEF Fill
<1>5. CASE StartThreads
  <2>1. PICK threads \in 0 .. count :
          /\ count' = IF threads = 0 THEN count ELSE threads
          /\ todo' = IF threads = 0 THEN 1 .. count
                     ELSE IF threads < count THEN threads + 1 .. NSlots ELSE {}
          /\ pc' = IF threads = 0 THEN "unload"
                   ELSE IF threads < count THEN "resize" ELSE "sleep"
    BY <1>5 DEF StartThreads
  <2>2. pc' = "unload" => todo' \subseteq 1 .. count'
    BY <2>1
  <2>3. pc' \in {"unload", "resize", "sleep"}
    BY <2>1
  <2> QED BY <1>5, <2>2, <2>3 DEF StartThreads, Shape, Starting
<1>6. CASE Resize
  <2>1. CASE todo = {}
    BY <1>6, <2>1 DEF Resize, Shape, Starting
  <2>2. CASE todo # {}
    <3>1. Max(todo) \in Slot /\ UnloadSlot(Max(todo))
      BY <1>6, <2>2, Ends DEF Resize
    <3>2. \A t \in Slot : \A q, r \in slots'[t] : q = r
      BY <3>1, UnloadFacts, OneEach DEF Shape
    <3> QED BY <1>6, <2>2, <3>2 DEF Resize, Shape, Starting
  <2> QED BY <2>1, <2>2
<1>7. CASE Wake
  BY <1>7 DEF Wake, Shape, Starting
<1>8. CASE Save
  <2>1. Max(todo) \in Slot
    BY <1>8, Ends DEF Save
  <2>2. \A t \in Slot : \A q, r \in slots'[t] : q = r
    BY <1>8, <2>1, UnloadFacts, OneEach DEF Save, Shape
  <2> QED BY <1>8, <2>2 DEF Save, Shape, Starting
<1>9. CASE Load
  <2>1. Max(todo) \in Slot
    BY <1>9, Ends DEF Load, Shape
  <2>2. CASE Take(Max(todo))
    <3>1. PICK p : Becomes(Max(todo), {p})
      BY <2>1, <2>2, TakeFacts
    <3>2. \A t \in Slot : \A q, r \in slots'[t] : q = r
      BY <2>1, <3>1, OneEach DEF Shape
    <3> QED BY <1>9, <3>2 DEF Load, Shape, Starting
  <2>3. CASE slots' = slots
    BY <1>9, <2>3 DEF Load, Shape, Starting
  <2> QED BY <1>9, <2>2, <2>3 DEF Load
<1>10. CASE VisitsDone \/ SkipRefresh \/ ZapCheckpoint \/ Refresh \/ Refreshed
  BY <1>10 DEF VisitsDone, SkipRefresh, ZapCheckpoint, Refresh, Refreshed, Shape, Starting
<1>11. CASE Unload
  <2>1. Max(todo) \in Slot /\ UnloadSlot(Max(todo))
    BY <1>11, Ends DEF Unload
  <2>2. \A t \in Slot : \A q, r \in slots'[t] : q = r
    BY <2>1, UnloadFacts, OneEach DEF Shape
  <2> QED BY <1>11, <2>2 DEF Unload, Shape, Starting
<1>12. CASE Exit \/ Crash
  BY <1>12 DEF Exit, Crash, Shape, Starting
<1>13. ASSUME NEW s \in Slot, Crunch(s) PROVE Shape'
  <2>1. PICK c : Becomes(s, {c})
    BY <1>13, CrunchFacts
  <2>2. \A t \in Slot : \A q, r \in slots'[t] : q = r
    BY <2>1, OneEach DEF Shape
  <2>3. ~Starting
    BY <1>13 DEF Crunch, Crunching, Starting
  <2> QED BY <1>13, <2>2, <2>3 DEF Crunch, Shape, Starting
<1>14. CASE Arrive \/ RaiseExit \/ UNCHANGED vars
  BY <1>14 DEF Arrive, RaiseExit, vars, Shape, Starting
<1> QED
  BY <1>1, <1>2, <1>3, <1>4, <1>5, <1>6, <1>7, <1>8, <1>9, <1>10, <1>11, <1>12, <1>13,
     <1>14 DEF Next

\* Types, with where the main thread is, for any packets, slots and crashes.
THEOREM RecoveryTypeCorrect == Spec => [](TypeOK /\ Shape)
<1>1. Init => TypeOK /\ Shape
  <2> SUFFICES ASSUME Init PROVE TypeOK /\ Shape
    OBVIOUS
  <2> USE RecoveryAssumption DEF Init
  <2>1. \A i \in Ids : Fresh(i) \in Packet /\ ~Finished(Fresh(i))
    BY DEF Fresh, Packet, Finished
  <2>2. inbuf \subseteq Packet /\ outside \subseteq Packet
        /\ \A p \in inbuf \cup outside : ~Finished(p)
    BY <2>1
  <2>3. \A s \in Slot : slots[s] = {} /\ Cardinality(slots[s]) <= 1
    BY FS_EmptySet
  <2>4. kept \in [Ids -> -1 .. Units] /\ slots \in [Slot -> SUBSET Packet]
    OBVIOUS
  <2>5. count \in 0 .. NSlots /\ crashes \in 0 .. MaxCrashes
    OBVIOUS
  <2>6. TypeOK
    BY <2>2, <2>3, <2>4, <2>5 DEF TypeOK
  <2>7. Shape
    BY <2>3 DEF Shape, Starting
  <2> QED BY <2>6, <2>7
<1>2. TypeOK /\ Shape /\ [Next]_vars => (TypeOK /\ Shape)'
  BY TypeStep, ShapeStep
<1> QED
  BY <1>1, <1>2, PTL DEF Spec

-----------------------------------------------------------------------------
(* The checkpoint. *)

\* A cruncher works on the same packet.
LEMMA CrunchIds ==
  ASSUME TypeOK, Shape, NEW s \in Slot, Crunch(s), NEW S \in SUBSET Slot, Covers(S)
  PROVE  \A i \in Ids : (\E p \in ckpt : p.id = i) <=> \E t \in S : \E p \in slots'[t] : p.id = i
<1>1. PICK p \in slots[s], c \in Packet : Becomes(s, {c}) /\ c.id = p.id
  BY CrunchFacts
<1>2. \A i \in Ids, t \in Slot : (\E q \in slots[t] : q.id = i) <=> \E q \in slots'[t] : q.id = i
  BY <1>1 DEF Becomes, Shape
<1> QED
  BY <1>2 DEF Covers

LEMMA CoveringStep ==
  ASSUME TypeOK, Shape, Covering, [Next]_vars
  PROVE  Covering'
<1> USE RecoveryAssumption DEF files, history
<1>1. CASE ImportGet \/ ImportPut \/ CloseOpen \/ Fill
  BY <1>1 DEF ImportGet, ImportPut, CloseOpen, Fill, Covering
<1>2. CASE StartThreads
  <2>1. pc' \in {"unload", "resize", "sleep"} /\ due' = TRUE
    BY <1>2 DEF StartThreads
  <2> QED BY <2>1 DEF Covering
<1>3. CASE Resize
  BY <1>3 DEF Resize, Covering
<1>4. CASE Wake
  BY <1>4 DEF Wake, Covering, Covers
<1>5. CASE Save
  BY <1>5 DEF Save, Covering, Covers
<1>6. CASE Load
  BY <1>6 DEF Load, Covering, Covers
<1>7. CASE VisitsDone \/ SkipRefresh
  BY <1>7 DEF VisitsDone, SkipRefresh, Covering, Covers
<1>8. CASE ZapCheckpoint
  <2>1. (1 .. count') \ todo' = {}
    BY <1>8 DEF ZapCheckpoint
  <2> QED BY <1>8, <2>1 DEF ZapCheckpoint, Covering, Covers
<1>9. CASE Refresh
  <2> DEFINE s == Min(todo)
             copies == {Working(p) : p \in slots[s]}
  <2>1. s \in todo /\ s \in Slot /\ todo \subseteq 1 .. count
    BY <1>9, Ends DEF Refresh, Shape
  <2>2. \A i : (\E p \in copies : p.id = i) <=> \E p \in slots[s] : p.id = i
    <3>1. \A p \in slots[s] : Working(p).id = p.id
      BY <2>1, WorkingCopy DEF TypeOK
    <3> QED BY <3>1
  <2>3. ckpt' = ckpt \cup copies /\ todo' = todo \ {s}
    BY <1>9 DEF Refresh, Working
  <2>4. (1 .. count) \ todo' = ((1 .. count) \ todo) \cup {s}
    BY <2>1, <2>3
  <2>5. pc = "refresh" /\ pc' = pc /\ count' = count /\ slots' = slots
    BY <1>9 DEF Refresh
  <2>6. Covers((1 .. count) \ todo)
    BY <2>5 DEF Covering
  <2> HIDE DEF s, copies
  <2>7. Covers((1 .. count) \ todo)'
    BY <2>2, <2>3, <2>4, <2>5, <2>6 DEF Covers
  <2> QED BY <2>5, <2>7 DEF Covering
<1>10. CASE Refreshed
  <2>1. (1 .. count) \ todo = 1 .. count
    BY <1>10 DEF Refreshed
  <2> QED BY <1>10, <2>1 DEF Refreshed, Covering, Covers
<1>11. CASE Unload \/ Exit \/ Crash
  BY <1>11 DEF Unload, Exit, Crash, Covering
<1>12. ASSUME NEW s \in Slot, Crunch(s) PROVE Covering'
  <2>1. UNCHANGED <<files, pc, todo, count, due>>
    BY <1>12 DEF Crunch
  <2>2. 1 .. count \in SUBSET Slot /\ (1 .. count) \ todo \in SUBSET Slot
    BY DEF TypeOK, Slot
  <2>3. ASSUME Covers(1 .. count) PROVE Covers(1 .. count)'
    <3>1. \A i \in Ids : (\E p \in ckpt : p.id = i)
                          <=> \E t \in 1 .. count : \E p \in slots'[t] : p.id = i
      BY <1>12, <2>2, <2>3, CrunchIds
    <3> QED BY <2>1, <3>1 DEF Covers
  <2>4. ASSUME Covers((1 .. count) \ todo) PROVE Covers((1 .. count) \ todo)'
    <3>1. \A i \in Ids : (\E p \in ckpt : p.id = i)
                          <=> \E t \in (1 .. count) \ todo : \E p \in slots'[t] : p.id = i
      BY <1>12, <2>2, <2>4, CrunchIds
    <3> QED BY <2>1, <3>1 DEF Covers
  <2> QED BY <2>1, <2>3, <2>4 DEF Covering
<1>13. CASE Arrive \/ RaiseExit \/ UNCHANGED vars
  BY <1>13 DEF Arrive, RaiseExit, vars, Covering, Covers
<1> QED
  BY <1>1, <1>2, <1>3, <1>4, <1>5, <1>6, <1>7, <1>8, <1>9, <1>10, <1>11, <1>12, <1>13
     DEF Next

\* While the client sleeps and asks for no refresh, the checkpoint holds the packets
\* of its crunchers and no other (CheckpointAction), in moo files or stock ones.
THEOREM CheckpointIsCurrent == Spec => []CheckpointCovers
<1>1. Init => Covering
  BY DEF Init, Covering
<1>2. TypeOK /\ Shape /\ Covering /\ [Next]_vars => Covering'
  BY CoveringStep
<1>3. TypeOK /\ Covering => CheckpointCovers
  <2> SUFFICES ASSUME TypeOK, Covering, pc = "sleep", ~due
               PROVE  IdsOf(ckpt) = IdsOf(UNION {slots[s] : s \in 1 .. count})
    BY DEF CheckpointCovers
  <2>1. Covers(1 .. count)
    BY DEF Covering
  <2>2. /\ \A p \in ckpt : p.id \in Ids
        /\ \A s \in 1 .. count : \A p \in slots[s] : p.id \in Ids
    BY RecoveryAssumption DEF TypeOK, Packet, Slot
  <2> QED BY <2>1, <2>2 DEF Covers, IdsOf
<1> QED
  BY <1>1, <1>2, <1>3, RecoveryTypeCorrect, PTL DEF Spec

-----------------------------------------------------------------------------
(* Packets that did not come in. *)

LEMMA TakeUntouched ==
  ASSUME TypeOK, Untouched, NEW s \in Slot, Take(s),
         UNCHANGED <<outbuf, ckpt, outside, hand>>
  PROVE  Untouched'
<1>1. PICK p \in inbuf : /\ p \in Packet /\ inbuf' = inbuf \ {p} /\ Becomes(s, {p})
                         /\ kept' = [kept EXCEPT ![p.id] = -1]
  BY TakeFacts
<1>2. \A q \in outside : q.id # p.id /\ q.id \in Ids
  BY DEF Untouched, TypeOK, Packet
<1>3. \A q \in outside : kept'[q.id] = kept[q.id]
  BY <1>1, <1>2 DEF TypeOK
<1> QED
  BY <1>1, <1>2, <1>3 DEF Untouched, Becomes

LEMMA UnloadUntouched ==
  ASSUME TypeOK, Untouched, NEW s \in Slot, UnloadSlot(s),
         UNCHANGED <<ckpt, outside, hand>>
  PROVE  Untouched'
<1>1. /\ slots[s] \in SUBSET Packet
      /\ PutBufferRecord(slots[s]) /\ Keep(slots[s]) /\ Becomes(s, {})
  BY UnloadFacts
<1>2. \A q \in outside : q.id \in Ids /\ \A p \in slots[s] : p.id # q.id
  BY DEF Untouched, TypeOK, Packet
<1>3. \A q \in outside : kept'[q.id] = kept[q.id]
  BY <1>1, <1>2, KeepFacts
<1> QED
  BY <1>1, <1>2, <1>3 DEF Untouched, Becomes, PutBufferRecord

LEMMA UntouchedStep ==
  ASSUME TypeOK, Shape, Untouched, [Next]_vars
  PROVE  Untouched'
<1> USE DEF files, history
<1>1. CASE ImportGet
  <2>1. CASE \E p \in ckpt : hand' = {Working(p)} /\ ckpt' = ckpt \ {p}
    <3>1. PICK p \in ckpt : hand' = {Working(p)} /\ ckpt' = ckpt \ {p}
      BY <2>1
    <3>2. Working(p).id = p.id
      BY WorkingCopy DEF TypeOK
    <3> QED BY <1>1, <3>1, <3>2 DEF ImportGet, Untouched
  <2>2. CASE UNCHANGED <<hand, ckpt>>
    BY <1>1, <2>2 DEF ImportGet, Untouched
  <2> QED BY <1>1, <2>1, <2>2 DEF ImportGet, Working
<1>2. CASE ImportPut
  <2>1. hand \in SUBSET Packet /\ PutBufferRecord(hand) /\ Keep(hand)
    BY <1>2 DEF ImportPut, TypeOK
  <2>2. \A q \in outside : q.id \in Ids /\ \A p \in hand : p.id # q.id
    BY DEF Untouched, TypeOK, Packet
  <2>3. \A q \in outside : kept'[q.id] = kept[q.id]
    BY <2>1, <2>2, KeepFacts
  <2> QED BY <1>2, <2>1, <2>2, <2>3 DEF ImportPut, PutBufferRecord, Untouched
<1>3. CASE CloseOpen \/ ZapCheckpoint
  BY <1>3 DEF CloseOpen, ZapCheckpoint, Untouched
<1>4. CASE Fill
  <2>1. Min(todo) \in Slot
    BY <1>4, Ends DEF Fill
  <2>2. CASE Take(Min(todo))
    BY <1>4, <2>1, <2>2, TakeUntouched DEF Fill
  <2>3. CASE UNCHANGED <<slots, inbuf, kept>>
    BY <1>4, <2>3 DEF Fill, Untouched
  <2> QED BY <1>4, <2>2, <2>3 DEF Fill
<1>5. CASE Resize
  <2>1. CASE todo = {}
    BY <1>5, <2>1 DEF Resize, Untouched
  <2>2. CASE todo # {}
    BY <1>5, <2>2, Ends, UnloadUntouched DEF Resize
  <2> QED BY <2>1, <2>2
<1>6. CASE Save
  <2>1. Max(todo) \in Slot
    BY <1>6, Ends DEF Save
  <2>2. CASE UnloadSlot(Max(todo))
    BY <1>6, <2>1, <2>2, UnloadUntouched DEF Save
  <2>3. CASE UNCHANGED <<inbuf, outbuf, slots, kept>>
    BY <1>6, <2>3 DEF Save, Untouched
  <2> QED BY <1>6, <2>2, <2>3 DEF Save
<1>7. CASE Load
  <2>1. Max(todo) \in Slot
    BY <1>7, Ends DEF Load, Shape
  <2>2. CASE Take(Max(todo))
    BY <1>7, <2>1, <2>2, TakeUntouched DEF Load
  <2>3. CASE UNCHANGED <<slots, inbuf, kept>>
    BY <1>7, <2>3 DEF Load, Untouched
  <2> QED BY <1>7, <2>2, <2>3 DEF Load
<1>8. CASE Refresh
  <2> DEFINE copies == {Working(p) : p \in slots[Min(todo)]}
  <2>1. Min(todo) \in Slot
    BY <1>8, Ends DEF Refresh
  <2>2. copies \in SUBSET Packet
    BY <2>1, WorkingCopy DEF TypeOK
  <2>3. \A q \in outside : q.id \in Ids /\ \A c \in copies : c.id # q.id
    BY <2>1, WorkingCopy DEF TypeOK, Untouched, Packet
  <2>4. ckpt' = ckpt \cup copies /\ Keep(copies)
    BY <1>8 DEF Refresh, Working
  <2> HIDE DEF copies
  <2>5. \A q \in outside : kept'[q.id] = kept[q.id]
    BY <2>2, <2>3, <2>4, KeepFacts
  <2> QED BY <1>8, <2>3, <2>4, <2>5 DEF Refresh, Untouched
<1>9. CASE Unload
  BY <1>9, Ends, UnloadUntouched DEF Unload
<1>10. CASE Exit \/ Crash
  BY <1>10 DEF Exit, Crash, Untouched
<1>11. ASSUME NEW s \in Slot, Crunch(s) PROVE Untouched'
  <2>1. PICK p \in slots[s], c \in Packet : Becomes(s, {c}) /\ c.id = p.id
    BY <1>11, CrunchFacts
  <2> QED BY <1>11, <2>1 DEF Crunch, Untouched, Becomes
<1>12. CASE Arrive
  <2>1. PICK p \in outside : inbuf' = inbuf \cup {p} /\ outside' = outside \ {p}
    BY <1>12 DEF Arrive
  <2>2. \A q \in outside' : q.id # p.id
    BY <2>1 DEF Untouched
  <2> QED BY <1>12, <2>1, <2>2 DEF Arrive, Untouched
<1>13. CASE StartThreads \/ Wake \/ VisitsDone \/ SkipRefresh \/ Refreshed \/ RaiseExit
            \/ UNCHANGED vars
  BY <1>13 DEF StartThreads, Wake, VisitsDone, SkipRefresh, Refreshed, RaiseExit, vars,
               Untouched
<1> QED
  BY <1>1, <1>2, <1>3, <1>4, <1>5, <1>6, <1>7, <1>8, <1>9, <1>10, <1>11, <1>12, <1>13
     DEF Next

-----------------------------------------------------------------------------
(* Without a crash. *)

LEMMA TakeDisjoint ==
  ASSUME TypeOK, Disjoint, NEW s \in Slot, Take(s), UNCHANGED outbuf
  PROVE  Disjoint'
<1>1. PICK p \in inbuf : inbuf' = inbuf \ {p} /\ Becomes(s, {p})
  BY TakeFacts
<1>2. \A t \in Slot, q \in Packet : q \in slots'[t] =>
        \/ t = s /\ q = p
        \/ t # s /\ q \in slots[t] /\ q.id # p.id
  BY <1>1 DEF Becomes, Disjoint
<1>3. \A t \in Slot : \A q \in slots'[t] : q \in Packet
  BY <1>1 DEF Becomes
<1>4. \A q \in inbuf' : q \in inbuf /\ q.id # p.id
  BY <1>1 DEF Disjoint
<1> QED
  BY <1>1, <1>2, <1>3, <1>4 DEF Disjoint

LEMMA UnloadDisjoint ==
  ASSUME TypeOK, Shape, Disjoint, NEW s \in Slot, UnloadSlot(s)
  PROVE  Disjoint'
<1>1. PutBufferRecord(slots[s]) /\ Becomes(s, {})
  BY UnloadFacts
<1>2. \A t \in Slot : slots'[t] = IF t = s THEN {} ELSE slots[t]
  BY <1>1 DEF Becomes
<1>3. /\ inbuf' \subseteq inbuf \cup slots[s] /\ outbuf' \subseteq outbuf \cup slots[s]
      /\ \A p \in slots[s] : p \in inbuf' /\ p \in outbuf' => p \in inbuf \/ p \in outbuf
  BY <1>1 DEF PutBufferRecord
<1>4. \A p, q \in slots[s] : p = q
  BY DEF Shape
<1>5. \A p, q \in inbuf' : p.id = q.id => p = q
  BY <1>3, <1>4 DEF Disjoint
<1>6. \A p \in inbuf', q \in outbuf' : p.id # q.id
  BY <1>3, <1>4 DEF Disjoint
<1> QED
  BY <1>2, <1>3, <1>5, <1>6 DEF Disjoint

LEMMA CrunchDisjoint ==
  ASSUME TypeOK, Disjoint, NEW s \in Slot, Crunch(s)
  PROVE  Disjoint'
<1>1. PICK p \in slots[s], c \in Packet : Becomes(s, {c}) /\ c.id = p.id
  BY CrunchFacts
<1>2. inbuf' = inbuf /\ outbuf' = outbuf
  BY DEF Crunch, files
<1>3. \A t \in Slot : \A q \in slots'[t] : \E r \in slots[t] : r.id = q.id
  BY <1>1 DEF Becomes
<1> QED
  BY <1>2, <1>3 DEF Disjoint

LEMMA SingleStep ==
  ASSUME TypeOK, Shape, Untouched, Single, [Next]_vars
  PROVE  Single'
<1> USE DEF files, history
<1>1. CASE ImportGet
  BY <1>1 DEF ImportGet, Single, Starting, Disjoint
<1>2. CASE ImportPut
  <2>1. crashes = 0 => inbuf' = inbuf /\ outbuf' = outbuf
    BY <1>2 DEF ImportPut, Single, Starting, PutBufferRecord
  <2> QED BY <1>2, <2>1 DEF ImportPut, Single, Starting, Disjoint
<1>3. CASE CloseOpen \/ ZapCheckpoint \/ Refresh
  BY <1>3 DEF CloseOpen, ZapCheckpoint, Refresh, Single, Starting, Disjoint
<1>4. CASE Fill
  <2>1. Min(todo) \in Slot
    BY <1>4, Ends DEF Fill
  <2>2. crashes = 0 => Disjoint'
    <3>1. CASE Take(Min(todo))
      BY <1>4, <2>1, <3>1, TakeDisjoint DEF Fill, Single
    <3>2. CASE UNCHANGED <<slots, inbuf, kept>>
      BY <1>4, <3>2 DEF Fill, Single, Disjoint
    <3> QED BY <1>4, <3>1, <3>2 DEF Fill
  <2> QED BY <1>4, <2>2 DEF Fill, Single, Starting
<1>5. CASE Resize
  <2>1. crashes = 0 => Disjoint'
    <3>1. CASE todo = {}
      BY <1>5, <3>1 DEF Resize, Single, Disjoint
    <3>2. CASE todo # {}
      BY <1>5, <3>2, Ends, UnloadDisjoint DEF Resize, Single
    <3> QED BY <3>1, <3>2
  <2> QED BY <1>5, <2>1 DEF Resize, Single, Starting
<1>6. CASE Save
  <2>1. Max(todo) \in Slot
    BY <1>6, Ends DEF Save
  <2>2. crashes = 0 => Disjoint'
    <3>1. CASE UnloadSlot(Max(todo))
      BY <1>6, <2>1, <3>1, UnloadDisjoint DEF Save, Single
    <3>2. CASE UNCHANGED <<inbuf, outbuf, slots, kept>>
      BY <1>6, <3>2 DEF Save, Single, Disjoint
    <3> QED BY <1>6, <3>1, <3>2 DEF Save
  <2> QED BY <1>6, <2>2 DEF Save, Single, Starting
<1>7. CASE Load
  <2>1. Max(todo) \in Slot
    BY <1>7, Ends DEF Load, Shape
  <2>2. crashes = 0 => Disjoint'
    <3>1. CASE Take(Max(todo))
      BY <1>7, <2>1, <3>1, TakeDisjoint DEF Load, Single
    <3>2. CASE UNCHANGED <<slots, inbuf, kept>>
      BY <1>7, <3>2 DEF Load, Single, Disjoint
    <3> QED BY <1>7, <3>1, <3>2 DEF Load
  <2> QED BY <1>7, <2>2 DEF Load, Single, Starting
<1>8. CASE Unload
  <2>1. crashes = 0 => Disjoint'
    BY <1>8, Ends, UnloadDisjoint DEF Unload, Single
  <2> QED BY <1>8, <2>1 DEF Unload, Single, Starting
<1>9. CASE Exit
  BY <1>9 DEF Exit, Single, Shape, Disjoint
<1>10. ASSUME NEW s \in Slot, Crunch(s) PROVE Single'
  <2>1. crashes = 0 => Disjoint'
    BY <1>10, CrunchDisjoint DEF Single
  <2> QED BY <1>10, <2>1 DEF Crunch, Single, Starting
<1>11. CASE Arrive
  <2>1. PICK p \in outside : inbuf' = inbuf \cup {p} /\ outside' = outside \ {p}
    BY <1>11 DEF Arrive
  <2>2. /\ \A q \in inbuf \cup outbuf : q.id # p.id
        /\ \A s \in Slot : \A q \in slots[s] : q.id # p.id
    BY DEF Untouched
  <2>3. crashes = 0 => Disjoint'
    BY <1>11, <2>1, <2>2 DEF Arrive, Single, Disjoint
  <2> QED BY <1>11, <2>3 DEF Arrive, Single, Starting
<1>12. CASE StartThreads \/ Wake \/ VisitsDone \/ SkipRefresh \/ Refreshed \/ RaiseExit
            \/ UNCHANGED vars
  BY <1>12 DEF StartThreads, Wake, VisitsDone, SkipRefresh, Refreshed, RaiseExit, vars,
               Single, Starting, Disjoint
<1>13. CASE Crash
  BY <1>13 DEF Crash, Single, TypeOK
<1> QED
  BY <1>1, <1>2, <1>3, <1>4, <1>5, <1>6, <1>7, <1>8, <1>9, <1>10, <1>11, <1>12, <1>13
     DEF Next

LEMMA DataInit == Init => Untouched /\ Single /\ Sound
<1> SUFFICES ASSUME Init PROVE Untouched /\ Single /\ Sound
  OBVIOUS
<1> PICK there \in SUBSET Ids : /\ inbuf = {Fresh(i) : i \in there}
                                /\ outside = {Fresh(i) : i \in Ids \ there}
  BY DEF Init
<1>1. \A i \in Ids : /\ Fresh(i).id = i /\ Fresh(i).rc = "working" /\ Fresh(i).key = "first"
                     /\ Fresh(i).done = 0
  BY DEF Fresh
<1>2. Untouched
  BY <1>1 DEF Init, Untouched
<1>3. Single
  BY <1>1 DEF Init, Single, Disjoint
<1>4. Sound
  BY <1>1 DEF Init, Sound, AllGood, Good
<1> QED
  BY <1>2, <1>3, <1>4

LEMMA AlwaysSingle == Spec => [](TypeOK /\ Shape /\ Untouched /\ Single)
<1>1. TypeOK /\ Shape /\ Untouched /\ Single /\ [Next]_vars => (Untouched /\ Single)'
  BY UntouchedStep, SingleStep
<1> QED
  BY <1>1, DataInit, RecoveryTypeCorrect, PTL DEF Spec

\* Without a crash no packet is in two places: two slots, a slot and a buffer, or
\* two buffers, whatever arrives and however often the client ends and begins again.
THEOREM OnePlaceEach == Spec => []OnePlace
<1>1. TypeOK /\ Single => OnePlace
  <2> SUFFICES ASSUME TypeOK, crashes = 0, Disjoint
               PROVE  /\ \A s, t \in Slot : s # t => IdsOf(slots[s]) \cap IdsOf(slots[t]) = {}
                      /\ IdsOf(Loaded) \cap IdsOf(inbuf \cup outbuf) = {}
                      /\ IdsOf(inbuf) \cap IdsOf(outbuf) = {}
    BY DEF OnePlace, Single
  <2>1. \A s, t \in Slot : s # t => IdsOf(slots[s]) \cap IdsOf(slots[t]) = {}
    BY DEF Disjoint, IdsOf
  <2>2. IdsOf(Loaded) \cap IdsOf(inbuf \cup outbuf) = {}
    BY DEF Disjoint, IdsOf, Loaded
  <2>3. IdsOf(inbuf) \cap IdsOf(outbuf) = {}
    BY DEF Disjoint, IdsOf
  <2> QED BY <2>1, <2>2, <2>3
<1> QED
  BY <1>1, AlwaysSingle, PTL

-----------------------------------------------------------------------------
(* Solutions. *)

LEMMA TakeGood ==
  ASSUME TypeOK, AllGood, NEW s \in Slot, Take(s), UNCHANGED <<outbuf, outside>>
  PROVE  AllGood'
<1>1. PICK p \in inbuf : inbuf' = inbuf \ {p} /\ Becomes(s, {p})
  BY TakeFacts
<1> QED
  BY <1>1 DEF AllGood, Becomes, Good

LEMMA UnloadGood ==
  ASSUME TypeOK, AllGood, NEW s \in Slot, UnloadSlot(s), UNCHANGED outside
  PROVE  AllGood'
<1>1. PutBufferRecord(slots[s]) /\ Becomes(s, {})
  BY UnloadFacts
<1> QED
  BY <1>1 DEF AllGood, Becomes, Good, PutBufferRecord

LEMMA SoundStep ==
  ASSUME TypeOK, Shape, Single, Sound, [Next]_vars
  PROVE  Sound'
<1> USE DEF files, history
<1>1. CASE ImportPut
  <2>1. crashes = 0 => inbuf' = inbuf /\ outbuf' = outbuf
    BY <1>1 DEF ImportPut, Single, Starting, PutBufferRecord
  <2> QED BY <1>1, <2>1 DEF ImportPut, Sound, AllGood, Good
<1>2. CASE Fill
  <2>1. Min(todo) \in Slot
    BY <1>2, Ends DEF Fill
  <2>2. CASE Take(Min(todo))
    BY <1>2, <2>1, <2>2, TakeGood DEF Fill, Sound
  <2>3. CASE UNCHANGED <<slots, inbuf, kept>>
    BY <1>2, <2>3 DEF Fill, Sound, AllGood, Good
  <2> QED BY <1>2, <2>2, <2>3 DEF Fill
<1>3. CASE Resize
  <2>1. CASE todo = {}
    BY <1>3, <2>1 DEF Resize, Sound, AllGood, Good
  <2>2. CASE todo # {}
    BY <1>3, <2>2, Ends, UnloadGood DEF Resize, Sound
  <2> QED BY <2>1, <2>2
<1>4. CASE Save
  <2>1. Max(todo) \in Slot
    BY <1>4, Ends DEF Save
  <2>2. CASE UnloadSlot(Max(todo))
    BY <1>4, <2>1, <2>2, UnloadGood DEF Save, Sound
  <2>3. CASE UNCHANGED <<inbuf, outbuf, slots, kept>>
    BY <1>4, <2>3 DEF Save, Sound, AllGood, Good
  <2> QED BY <1>4, <2>2, <2>3 DEF Save
<1>5. CASE Load
  <2>1. Max(todo) \in Slot
    BY <1>5, Ends DEF Load, Shape
  <2>2. CASE Take(Max(todo))
    BY <1>5, <2>1, <2>2, TakeGood DEF Load, Sound
  <2>3. CASE UNCHANGED <<slots, inbuf, kept>>
    BY <1>5, <2>3 DEF Load, Sound, AllGood, Good
  <2> QED BY <1>5, <2>2, <2>3 DEF Load
<1>6. CASE Unload
  BY <1>6, Ends, UnloadGood DEF Unload, Sound
<1>7. ASSUME NEW s \in Slot, Crunch(s) PROVE Sound'
  <2>1. PICK p \in slots[s], c \in Packet : Becomes(s, {c}) /\ (Good(p) => Good(c))
    BY <1>7, CrunchFacts
  <2>2. UNCHANGED <<inbuf, outbuf, outside, crashes>>
    BY <1>7 DEF Crunch
  <2>3. AllGood => AllGood'
    <3> SUFFICES ASSUME AllGood PROVE AllGood'
      OBVIOUS
    <3>1. \A t \in Slot : \A q \in slots'[t] : Good(q)
      BY <2>1 DEF Becomes, AllGood
    <3>2. \A q : Good(q)' <=> Good(q)
      BY DEF Good
    <3> QED BY <2>2, <3>1 DEF AllGood, Good
  <2> QED BY <2>2, <2>3 DEF Sound
<1>8. CASE Exit
  BY <1>8 DEF Exit, Sound, AllGood, Good
<1>9. CASE Crash
  BY <1>9 DEF Crash, Sound, TypeOK
<1>10. CASE Arrive
  BY <1>10 DEF Arrive, Sound, AllGood, Good
<1>11. CASE \/ ImportGet \/ CloseOpen \/ StartThreads \/ Wake \/ VisitsDone \/ SkipRefresh
            \/ ZapCheckpoint \/ Refresh \/ Refreshed \/ RaiseExit \/ UNCHANGED vars
  BY <1>11 DEF ImportGet, CloseOpen, StartThreads, Wake, VisitsDone, SkipRefresh,
               ZapCheckpoint, Refresh, Refreshed, RaiseExit, vars, Sound, AllGood, Good
<1> QED
  BY <1>1, <1>2, <1>3, <1>4, <1>5, <1>6, <1>7, <1>8, <1>9, <1>10, <1>11 DEF Next

\* Without a crash a packet that holds the solution comes into the out-buffer with
\* it: its search goes on where it stopped, whatever files it passes.
THEOREM SolutionIsReported == Spec => []SolutionReported
<1>1. TypeOK /\ Shape /\ Single /\ Sound /\ [Next]_vars => Sound'
  BY SoundStep
<1>2. TypeOK /\ Sound => SolutionReported
  BY DEF TypeOK, Sound, AllGood, Good, Finished, SolutionReported
<1> QED
  BY <1>1, <1>2, DataInit, AlwaysSingle, PTL DEF Spec

-----------------------------------------------------------------------------
(* Crashes. *)

\* The slots loaded are the first ones, of as many as were loaded.
LEMMA PrefixStep ==
  ASSUME Moo, ~EarlyFetch, TypeOK, Shape, Prefix, [Next]_vars
  PROVE  Prefix'
<1> USE RecoveryAssumption DEF files, history
<1>1. CASE ImportGet
  BY <1>1 DEF ImportGet, Prefix
<1>2. CASE ImportPut \/ Exit \/ Crash
  BY <1>2 DEF ImportPut, Exit, Crash, Prefix
<1>3. CASE CloseOpen
  BY <1>3 DEF CloseOpen, Prefix, Shape, Starting
<1>4. CASE Fill
  <2>1. /\ Min(todo) \in todo /\ Min(todo) \in Slot
        /\ \A s \in todo : Min(todo) <= s
    BY <1>4, Ends DEF Fill
  <2>2. pc = "fill" /\ pc' = "fill" /\ todo' = todo \ {Min(todo)}
    BY <1>4 DEF Fill
  <2>3. CASE Take(Min(todo)) /\ count' = count + 1
    <3>1. PICK p \in inbuf : Becomes(Min(todo), {p})
      BY <2>1, <2>3, TakeFacts
    <3>2. \A s \in Slot \ todo : s <= count
      BY <2>2, <3>1 DEF Prefix
    <3>3. count < Min(todo)
      BY <2>1, <2>2 DEF Shape
    <3>4. Min(todo) = count + 1
      <4> SUFFICES ASSUME Min(todo) # count + 1 PROVE FALSE
        OBVIOUS
      <4>1. count + 1 \in Slot /\ count + 1 < Min(todo)
        BY <2>1, <3>3 DEF TypeOK, Slot
      <4>2. count + 1 \notin todo
        BY <2>1, <4>1 DEF TypeOK, Slot
      <4> QED BY <3>2, <4>1, <4>2 DEF TypeOK, Slot
    <3>5. ASSUME NEW s \in Slot, s > count' PROVE slots'[s] = {}
      <4>1. s > count /\ s # Min(todo)
        BY <2>3, <3>4, <3>5 DEF TypeOK, Slot
      <4> QED BY <2>2, <3>1, <4>1 DEF Becomes, Prefix
    <3>6. ASSUME NEW s \in Slot \ todo' PROVE s <= count'
      BY <2>2, <2>3, <3>2, <3>4, <3>6 DEF TypeOK, Slot
    <3> QED BY <2>2, <3>5, <3>6 DEF Prefix
  <2>4. CASE inbuf = {} /\ UNCHANGED <<slots, inbuf, kept, count>>
    BY <2>2, <2>4 DEF Prefix
  <2> QED BY <1>4, <2>3, <2>4 DEF Fill
<1>5. CASE StartThreads
  <2>1. PICK threads \in 0 .. count :
          /\ count' = IF threads = 0 THEN count ELSE threads
          /\ todo' = IF threads = 0 THEN 1 .. count
                     ELSE IF threads < count THEN threads + 1 .. NSlots ELSE {}
          /\ pc' = IF threads = 0 THEN "unload"
                   ELSE IF threads < count THEN "resize" ELSE "sleep"
    BY <1>5 DEF StartThreads
  <2>2. slots' = slots /\ \A s \in Slot : s > count => slots[s] = {}
    BY <1>5 DEF StartThreads, Prefix
  <2>3. CASE threads = 0
    BY <2>1, <2>2, <2>3 DEF Prefix
  <2>4. CASE threads # 0 /\ threads < count
    <3>1. count' = threads /\ todo' = threads + 1 .. NSlots /\ pc' = "resize"
      BY <2>1, <2>4
    <3>2. \A s \in Slot : s > count' => s \in todo'
      BY <3>1 DEF Slot, TypeOK
    <3> QED BY <3>1, <3>2 DEF Prefix
  <2>5. CASE threads # 0 /\ ~(threads < count)
    <3>1. count' = count /\ pc' = "sleep"
      BY <2>1, <2>5 DEF TypeOK
    <3> QED BY <2>2, <3>1 DEF Prefix
  <2> QED BY <2>3, <2>4, <2>5
<1>6. CASE Resize
  <2>1. CASE todo = {}
    BY <1>6, <2>1 DEF Resize, Prefix
  <2>2. CASE todo # {}
    <3>1. Max(todo) \in Slot /\ Becomes(Max(todo), {})
      BY <1>6, <2>2, Ends, UnloadFacts DEF Resize
    <3> QED BY <1>6, <2>2, <3>1 DEF Resize, Becomes, Prefix
  <2> QED BY <2>1, <2>2
<1>7. CASE Wake
  BY <1>7 DEF Wake, Prefix
<1>8. CASE Save
  <2>1. Max(todo) \in Slot
    BY <1>8, Ends DEF Save
  <2>2. slots' = slots \/ Becomes(Max(todo), {})
    BY <1>8, <2>1, UnloadFacts DEF Save
  <2> QED BY <1>8, <2>1, <2>2 DEF Save, Becomes, Prefix
<1>9. CASE Load
  <2>1. Max(todo) \in Slot /\ Max(todo) <= count
    BY <1>9, Ends DEF Load, Shape, TypeOK
  <2>2. slots' = slots \/ \E p : Becomes(Max(todo), {p})
    BY <1>9, <2>1, TakeFacts DEF Load
  <2>3. \A s \in Slot : s > count => slots'[s] = slots[s]
    BY <2>1, <2>2 DEF Becomes, TypeOK, Slot
  <2> QED BY <1>9, <2>3 DEF Load, Prefix
<1>10. CASE VisitsDone \/ SkipRefresh \/ ZapCheckpoint \/ Refresh \/ Refreshed
  BY <1>10 DEF VisitsDone, SkipRefresh, ZapCheckpoint, Refresh, Refreshed, Prefix
<1>11. CASE Unload
  <2>1. Max(todo) \in Slot /\ Becomes(Max(todo), {})
    BY <1>11, Ends, UnloadFacts DEF Unload
  <2>2. 1 .. count \subseteq Slot
    BY DEF TypeOK, Slot
  <2> QED BY <1>11, <2>1, <2>2 DEF Unload, Becomes, Prefix
<1>12. ASSUME NEW s \in Slot, Crunch(s) PROVE Prefix'
  <2>1. PICK p \in slots[s], c \in Packet : Becomes(s, {c})
    BY <1>12, CrunchFacts
  <2>2. UNCHANGED <<files, pc, todo, count>> /\ pc # "unload"
    BY <1>12 DEF Crunch, Crunching
  <2>3. \A t \in Slot : slots[t] = {} => slots'[t] = {}
    BY <2>1 DEF Becomes
  <2> QED BY <2>2, <2>3 DEF Prefix
<1>13. CASE Arrive
  BY <1>13 DEF Arrive, Prefix
<1>14. CASE RaiseExit \/ UNCHANGED vars
  BY <1>14 DEF RaiseExit, vars, Prefix
<1> QED
  BY <1>1, <1>2, <1>3, <1>4, <1>5, <1>6, <1>7, <1>8, <1>9, <1>10, <1>11, <1>12, <1>13,
     <1>14 DEF Next

\* The ways a packet is safe, with the steps that keep it so.
Reported(i) == \E p \in outbuf \cup outside : p.id = i
Buffered(i) == \E p \in inbuf \cup hand : Copy(i, p)
InSlot(i) == \E s \in Slot : \E p \in slots[s] : Copy(i, p)
InCheckpoint(i) == Starting /\ \E p \in ckpt : Copy(i, p)

LEMMA SafeWays ==
  /\ Safe <=> \A i \in Ids \ lost :
       Reported(i) \/ Buffered(i) \/ InSlot(i) \/ InCheckpoint(i)
  /\ Safe' <=> \A i \in Ids \ lost' :
       (Reported(i) \/ Buffered(i) \/ InSlot(i) \/ InCheckpoint(i))'
BY DEF Safe, Reported, Buffered, InSlot, InCheckpoint

LEMMA TakeSafe ==
  ASSUME TypeOK, NEW s \in Slot, slots[s] = {}, Take(s),
         UNCHANGED <<outbuf, outside, hand>>, NEW i \in Ids,
         Reported(i) \/ Buffered(i) \/ InSlot(i)
  PROVE  (Reported(i) \/ Buffered(i) \/ InSlot(i))'
<1>1. PICK p \in inbuf : /\ p \in Packet /\ inbuf' = inbuf \ {p} /\ Becomes(s, {p})
                         /\ kept' = [kept EXCEPT ![p.id] = -1]
  BY TakeFacts
<1>2. CASE i = p.id
  <2>1. kept'[i] = -1 /\ p.done >= -1
    BY <1>1, <1>2 DEF TypeOK, Packet
  <2> QED BY <1>1, <1>2, <2>1 DEF InSlot, Copy, Becomes
<1>3. CASE i # p.id
  <2>1. kept'[i] = kept[i]
    BY <1>1, <1>3 DEF TypeOK
  <2>2. Reported(i) => Reported(i)'
    BY DEF Reported
  <2>3. Buffered(i) => Buffered(i)'
    BY <1>1, <1>3, <2>1 DEF Buffered, Copy
  <2>4. InSlot(i) => InSlot(i)'
    BY <1>1, <2>1 DEF InSlot, Copy, Becomes
  <2> QED BY <2>2, <2>3, <2>4
<1> QED
  BY <1>2, <1>3

LEMMA UnloadSafe ==
  ASSUME TypeOK, NEW s \in Slot, UnloadSlot(s), UNCHANGED <<outside, hand>>,
         NEW i \in Ids, Reported(i) \/ Buffered(i) \/ InSlot(i)
  PROVE  (Reported(i) \/ Buffered(i) \/ InSlot(i))'
<1>1. /\ slots[s] \in SUBSET Packet
      /\ PutBufferRecord(slots[s]) /\ Keep(slots[s]) /\ Becomes(s, {})
  BY UnloadFacts
<1>2. /\ inbuf \subseteq inbuf' /\ outbuf \subseteq outbuf'
      /\ \A p \in slots[s] : p \in inbuf' \/ p \in outbuf'
  BY <1>1 DEF PutBufferRecord
<1>3. Reported(i) => Reported(i)'
  BY <1>2 DEF Reported
<1>4. CASE \E p \in slots[s] : p.id = i /\ p.done = kept'[i]
  <2>1. PICK p \in slots[s] : p.id = i /\ p.done = kept'[i]
    BY <1>4
  <2>2. p.done >= kept'[i]
    BY <1>1, <2>1 DEF Packet
  <2> QED BY <1>2, <2>1, <2>2 DEF Reported, Buffered, Copy
<1>5. CASE kept'[i] = kept[i]
  <2>1. Buffered(i) => Buffered(i)'
    BY <1>2, <1>5 DEF Buffered, Copy
  <2>2. ASSUME InSlot(i) PROVE (Reported(i) \/ Buffered(i) \/ InSlot(i))'
    <3>1. PICK t \in Slot : \E p \in slots[t] : Copy(i, p)
      BY <2>2 DEF InSlot
    <3>2. PICK p \in slots[t] : Copy(i, p)
      BY <3>1
    <3>3. CASE t = s
      BY <1>2, <1>5, <3>2, <3>3 DEF Reported, Buffered, Copy
    <3>4. CASE t # s
      BY <1>1, <1>5, <3>2, <3>4 DEF InSlot, Copy, Becomes
    <3> QED BY <3>3, <3>4
  <2> QED BY <1>3, <2>1, <2>2
<1> QED
  BY <1>1, <1>4, <1>5, KeepFacts

LEMMA CrunchSafe ==
  ASSUME TypeOK, Shape, NEW s \in Slot, Crunch(s), NEW i \in Ids, InSlot(i)
  PROVE  InSlot(i)'
<1>1. PICK p \in slots[s], c \in Packet : Becomes(s, {c}) /\ c.id = p.id /\ c.done >= p.done
  BY CrunchFacts
<1>2. PICK t \in Slot : \E q \in slots[t] : Copy(i, q)
  BY DEF InSlot
<1>3. PICK q \in slots[t] : Copy(i, q)
  BY <1>2
<1>4. kept' = kept
  BY DEF Crunch, history
<1>5. CASE t = s
  <2>1. q = p /\ p \in Packet
    BY <1>5 DEF Shape, TypeOK
  <2>2. c.done \in Int /\ p.done \in Int /\ kept[i] \in Int
    BY <1>1, <2>1 DEF Packet, TypeOK
  <2>3. c.id = i /\ c.done >= kept'[i]
    BY <1>1, <1>3, <1>4, <2>1, <2>2 DEF Copy
  <2> QED BY <1>1, <2>3 DEF InSlot, Becomes, Copy
<1>6. CASE t # s
  BY <1>1, <1>3, <1>4, <1>6 DEF InSlot, Becomes, Copy
<1> QED
  BY <1>5, <1>6

LEMMA SafeStep ==
  ASSUME Moo, TypeOK, Shape, Prefix, Untouched, Safe, [Next]_vars
  PROVE  Safe'
<1> USE DEF files, history
<1> SUFFICES ASSUME NEW i \in Ids, i \notin lost'
             PROVE  (Reported(i) \/ Buffered(i) \/ InSlot(i) \/ InCheckpoint(i))'
  BY SafeWays
<1> DEFINE There == Reported(i) \/ Buffered(i) \/ InSlot(i)
<1>0. i \notin lost => There \/ InCheckpoint(i)
  BY SafeWays
<1>a. ASSUME UNCHANGED <<inbuf, outbuf, outside, hand, slots, kept>>, There PROVE There'
  BY <1>a DEF Reported, Buffered, InSlot, Copy
<1>b. ~Starting => ~InCheckpoint(i)
  BY DEF InCheckpoint
<1>1. CASE ImportGet
  <2>1. lost' = lost /\ UNCHANGED <<inbuf, outbuf, outside, slots, kept>> /\ hand = {}
        /\ Starting /\ Starting'
    BY <1>1 DEF ImportGet, Starting
  <2>2. CASE \E p \in ckpt : hand' = {Working(p)} /\ ckpt' = ckpt \ {p}
    <3>1. PICK p \in ckpt : hand' = {Working(p)} /\ ckpt' = ckpt \ {p}
      BY <2>2
    <3>2. Working(p).id = p.id /\ Working(p).done = p.done
      BY WorkingCopy DEF TypeOK
    <3>3. There => There'
      BY <2>1 DEF Reported, Buffered, InSlot, Copy
    <3>4. InCheckpoint(i) => (Buffered(i) \/ InCheckpoint(i))'
      BY <2>1, <3>1, <3>2 DEF Buffered, InCheckpoint, Copy
    <3> QED BY <1>0, <2>1, <3>3, <3>4
  <2>3. CASE UNCHANGED <<hand, ckpt>>
    BY <1>0, <1>a, <2>1, <2>3 DEF InCheckpoint, Copy
  <2> QED BY <1>1, <2>2, <2>3 DEF ImportGet, Working
<1>2. CASE ImportPut
  <2>1. /\ hand \in SUBSET Packet /\ PutBufferRecord(hand) /\ Keep(hand) /\ hand' = {}
        /\ UNCHANGED <<ckpt, outside, slots, lost>> /\ Starting'
    BY <1>2 DEF ImportPut, TypeOK, Starting
  <2>2. /\ inbuf \subseteq inbuf' /\ outbuf \subseteq outbuf'
        /\ \A p \in hand : p \in inbuf' \/ p \in outbuf'
    BY <2>1 DEF PutBufferRecord
  <2>3. CASE \E p \in hand : p.id = i /\ p.done = kept'[i]
    <3>1. PICK p \in hand : p.id = i /\ p.done = kept'[i]
      BY <2>3
    <3>2. p.done >= kept'[i]
      BY <2>1, <3>1 DEF Packet
    <3> QED BY <2>2, <3>1, <3>2 DEF Reported, Buffered, Copy
  <2>4. CASE kept'[i] = kept[i]
    <3>1. There => There'
      BY <2>1, <2>2, <2>4 DEF Reported, Buffered, InSlot, Copy
    <3>2. InCheckpoint(i) => InCheckpoint(i)'
      BY <2>1, <2>4 DEF InCheckpoint, Copy
    <3> QED BY <1>0, <2>1, <3>1, <3>2
  <2> QED BY <2>1, <2>3, <2>4, KeepFacts
<1>3. CASE CloseOpen
  <2>1. ckpt = {} /\ lost' = lost
    BY <1>3 DEF CloseOpen, Prefix
  <2>2. ~InCheckpoint(i)
    BY <2>1 DEF InCheckpoint
  <2> QED BY <1>0, <1>3, <1>a, <2>1, <2>2 DEF CloseOpen
<1>4. CASE Fill
  <2>1. Min(todo) \in todo /\ Min(todo) \in Slot /\ ~Starting /\ lost' = lost
    BY <1>4, Ends DEF Fill, Starting
  <2>2. CASE Take(Min(todo))
    <3>1. slots[Min(todo)] = {}
      BY <1>4, <2>1 DEF Fill, Shape, Prefix
    <3> QED BY <1>0, <1>4, <1>b, <2>1, <2>2, <3>1, TakeSafe DEF Fill
  <2>3. CASE UNCHANGED <<slots, inbuf, kept>>
    BY <1>0, <1>4, <1>a, <1>b, <2>1, <2>3 DEF Fill
  <2> QED BY <1>4, <2>2, <2>3 DEF Fill
<1>5. CASE Resize
  <2>1. ~Starting /\ lost' = lost
    BY <1>5 DEF Resize, Starting
  <2>2. CASE todo = {}
    BY <1>0, <1>5, <1>a, <1>b, <2>1, <2>2 DEF Resize
  <2>3. CASE todo # {}
    BY <1>0, <1>5, <1>b, <2>1, <2>3, Ends, UnloadSafe DEF Resize
  <2> QED BY <2>2, <2>3
<1>6. CASE Save
  <2>1. Max(todo) \in Slot /\ ~Starting /\ lost' = lost
    BY <1>6, Ends DEF Save, Starting
  <2>2. CASE UnloadSlot(Max(todo))
    BY <1>0, <1>6, <1>b, <2>1, <2>2, UnloadSafe DEF Save
  <2>3. CASE UNCHANGED <<inbuf, outbuf, slots, kept>>
    BY <1>0, <1>6, <1>a, <1>b, <2>1, <2>3 DEF Save
  <2> QED BY <1>6, <2>2, <2>3 DEF Save
<1>7. CASE Load
  <2>1. Max(todo) \in Slot /\ ~Starting /\ lost' = lost
    BY <1>7, Ends DEF Load, Shape, Starting
  <2>2. CASE Empty(Max(todo)) /\ Take(Max(todo))
    BY <1>0, <1>7, <1>b, <2>1, <2>2, TakeSafe DEF Load, Empty
  <2>3. CASE UNCHANGED <<slots, inbuf, kept>>
    BY <1>0, <1>7, <1>a, <1>b, <2>1, <2>3 DEF Load
  <2> QED BY <1>7, <2>2, <2>3 DEF Load
<1>8. CASE Refresh
  <2> DEFINE copies == {Working(p) : p \in slots[Min(todo)]}
  <2>1. Min(todo) \in Slot /\ ~Starting /\ lost' = lost
    BY <1>8, Ends DEF Refresh, Starting
  <2>2. copies \in SUBSET Packet
    BY <2>1, WorkingCopy DEF TypeOK
  <2>3. \A c \in copies : \E p \in slots[Min(todo)] : p.id = c.id /\ p.done = c.done
    BY <2>1, WorkingCopy DEF TypeOK
  <2>4. Keep(copies) /\ UNCHANGED <<inbuf, outbuf, outside, slots, hand>>
    BY <1>8 DEF Refresh, Working
  <2> HIDE DEF copies
  <2>5. CASE \E c \in copies : c.id = i /\ c.done = kept'[i]
    <3>1. PICK c \in copies : c.id = i /\ c.done = kept'[i]
      BY <2>5
    <3>2. PICK p \in slots[Min(todo)] : p.id = i /\ p.done = kept'[i]
      BY <2>3, <3>1
    <3>3. p.done >= kept'[i]
      BY <2>1, <3>2 DEF TypeOK, Packet
    <3> QED BY <2>1, <2>4, <3>2, <3>3 DEF InSlot, Copy
  <2>6. CASE kept'[i] = kept[i]
    BY <1>0, <1>b, <2>1, <2>4, <2>6 DEF Reported, Buffered, InSlot, Copy
  <2> QED BY <2>2, <2>4, <2>5, <2>6, KeepFacts
<1>9. CASE Unload
  <2>1. ~Starting /\ lost' = lost
    BY <1>9 DEF Unload, Starting
  <2> QED BY <1>0, <1>9, <1>b, <2>1, Ends, UnloadSafe DEF Unload
<1>10. CASE Exit
  <2>1. ~Starting /\ lost' = lost
    BY <1>10 DEF Exit, Starting
  <2>2. \A s \in Slot : slots[s] = {}
    BY <1>10 DEF Exit, Prefix, TypeOK, Slot
  <2>3. ~InSlot(i)
    BY <2>2 DEF InSlot
  <2> QED BY <1>0, <1>10, <1>b, <2>1, <2>3 DEF Exit, Reported, Buffered, Copy
<1>11. ASSUME NEW s \in Slot, Crunch(s) PROVE There'
  <2>1. ~Starting /\ UNCHANGED <<files, hand, history>>
    BY <1>11 DEF Crunch, Crunching, Starting
  <2>2. InSlot(i) => InSlot(i)'
    BY <1>11, CrunchSafe
  <2> QED BY <1>0, <1>b, <2>1, <2>2 DEF Reported, Buffered, Copy
<1>12. CASE Arrive
  <2>1. PICK p \in outside : inbuf' = inbuf \cup {p} /\ outside' = outside \ {p}
    BY <1>12 DEF Arrive
  <2>2. UNCHANGED <<outbuf, ckpt, slots, hand, pc, history>>
    BY <1>12 DEF Arrive
  <2>3. Copy(p.id, p)
    BY DEF Untouched, Copy, TypeOK, Packet
  <2>4. Reported(i) => (Reported(i) \/ Buffered(i))'
    BY <2>1, <2>2, <2>3 DEF Reported, Buffered, Copy
  <2>5. /\ Buffered(i) => Buffered(i)'
        /\ InSlot(i) => InSlot(i)'
        /\ InCheckpoint(i) => InCheckpoint(i)'
    BY <2>1, <2>2 DEF Buffered, InSlot, InCheckpoint, Copy, Starting
  <2> QED BY <1>0, <2>2, <2>4, <2>5
<1>13. CASE StartThreads \/ Wake \/ VisitsDone \/ SkipRefresh \/ ZapCheckpoint \/ Refreshed
  <2>1. ~Starting
    BY <1>13 DEF StartThreads, Wake, VisitsDone, SkipRefresh, ZapCheckpoint, Refreshed,
                 Starting
  <2>2. UNCHANGED <<inbuf, outbuf, outside, hand, slots, history>>
    BY <1>13 DEF StartThreads, Wake, VisitsDone, SkipRefresh, ZapCheckpoint, Refreshed
  <2> QED BY <1>0, <1>a, <1>b, <2>1, <2>2
<1>14. CASE RaiseExit \/ UNCHANGED vars
  <2>1. UNCHANGED <<files, slots, hand, pc, history>>
    BY <1>14 DEF RaiseExit, vars
  <2>2. InCheckpoint(i) => InCheckpoint(i)'
    BY <2>1 DEF InCheckpoint, Copy, Starting
  <2> QED BY <1>0, <1>a, <2>1, <2>2
<1>15. CASE Crash
  <2>1. UNCHANGED <<files, kept>> /\ Starting'
    BY <1>15 DEF Crash, Starting
  <2>2. \/ \E p \in inbuf \cup ckpt : p.id = i /\ ~(p.done < kept[i])
        \/ \E p \in outbuf \cup outside : p.id = i
    BY <1>15 DEF Crash
  <2>3. kept[i] \in Int /\ \A p \in inbuf \cup ckpt : p.done \in Int
    BY DEF TypeOK, Packet
  <2>4. \/ \E p \in inbuf \cup ckpt : Copy(i, p)
        \/ Reported(i)
    BY <2>2, <2>3 DEF Copy, Reported
  <2> QED BY <2>1, <2>4 DEF Reported, Buffered, InCheckpoint, Copy
<1> QED
  BY <1>1, <1>2, <1>3, <1>4, <1>5, <1>6, <1>7, <1>8, <1>9, <1>10, <1>11, <1>12, <1>13,
     <1>14, <1>15 DEF Next

\* A packet is in a file or a slot with what was done of it when it was last put,
\* unless a crash undid just that put: the checkpoint alone will do until it is
\* imported.  Moo files, and a buffer to which nothing comes during the first load.
THEOREM PacketIsConserved ==
  ASSUME Moo, ~EarlyFetch
  PROVE  Spec => []Conserved
<1>1. Init => Prefix /\ Safe
  <2> SUFFICES ASSUME Init PROVE Prefix /\ Safe
    OBVIOUS
  <2> PICK there \in SUBSET Ids : /\ inbuf = {Fresh(i) : i \in there}
                                  /\ outside = {Fresh(i) : i \in Ids \ there}
    BY DEF Init
  <2>1. Prefix
    BY DEF Init, Prefix
  <2>2. \A i \in Ids : Fresh(i).id = i /\ Fresh(i).done = 0 /\ kept[i] = -1
    BY DEF Fresh, Init
  <2>3. \A i \in Ids : Copy(i, Fresh(i))
    BY <2>2 DEF Copy
  <2>4. Safe
    BY <2>2, <2>3 DEF Safe
  <2> QED BY <2>1, <2>4
<1>2. TypeOK /\ Shape /\ Untouched /\ Prefix /\ Safe /\ [Next]_vars => (Prefix /\ Safe)'
  BY PrefixStep, SafeStep
<1>3. TypeOK /\ Safe => Conserved
  BY DEF Safe, Copy, Conserved, IdsOf, Loaded, Starting
<1> QED
  BY <1>1, <1>2, <1>3, AlwaysSingle, PTL DEF Spec
=============================================================================
