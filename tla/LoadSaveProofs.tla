--------------------------- MODULE LoadSaveProofs ---------------------------
(***************************************************************************)
(* Proofs about LoadSave, for any slots, packets, limits and faults: that  *)
(* the packet limit is kept (LimitKept) and that the client implements     *)
(* PacketSupply (ImplementsSupply), whatever other clients do to the       *)
(* in-buffer; and when nothing disturbs the passes (~Disturbed), that      *)
(* packets are conserved (Conserved), that a hard stop saves all           *)
(* (HardStopSaves) and that the client is stopped only when its work is    *)
(* done (StopsWhenDone).  A client that is disturbed breaks Conserved, see *)
(* LoadSaveShared.cfg.                                                     *)
(*                                                                         *)
(* The invariants: Path, which slots a pass has still to visit; Control,   *)
(* which pass goes on when the main thread is where; FirstLoad, that the   *)
(* first pass loads the first slots; Where, which slots may be busy;       *)
(* Counts, what the counters of a pass count; Places; Results, what the    *)
(* out-buffer and the server hold of what was done; RunDown.               *)
(***************************************************************************)
EXTENDS LoadSave, FiniteSetTheorems, SequenceTheorems, TLAPS

Going == pass.pc \in {"visit", "load"}
First == pass.mode = "initial"

\* The last slot that a pass downwards visits.
Lowest == IF pass.mode = "resize" THEN pass.count ELSE 0

\* The slots that a pass has still to leave.
Left == IF ~Going THEN {} ELSE IF First THEN This .. Planned - 1 ELSE Lowest .. This

Path ==
  Going =>
    /\ This \in Slots
    /\ IF First
       THEN pass.order = [k \in 1 .. Planned - This |-> This + k - 1]
       ELSE /\ Lowest <= This
            /\ pass.order = [k \in 1 .. This - Lowest + 1 |-> This - k + 1]
    /\ pass.mode \in {"any", "unload"} => This < pass.count

Control ==
  /\ main = "initial" => prev = 0
  /\ main = "start" => pass.pc = "none" /\ prev = Planned /\ count > 0
  /\ main = "loop" => count > 0 /\ count <= prev
  /\ main = "stop" => prev > 0
  /\ main = "closed" => pass.pc = "none" /\ prev = 0
  /\ pass.pc # "none" =>
       /\ pass.count > 0
       /\ First => main \in {"initial", "dead"} /\ pass.count = Planned
       /\ pass.mode \in {"any", "resize"} => main \in {"loop", "dead"} /\ pass.count = count
       /\ pass.mode = "unload" => main \in {"stop", "dead"}
       /\ pass.abort => main = "dead" /\ pass.mode = "unload"
       /\ pass.mode # "unload" => ~pass.abort
  /\ pass.pc = "load" => /\ pass.mode \in {"initial", "any"} /\ IsEmpty(This)
                         /\ ~LimitReached(pass.total, pass.empty)

\* Nothing will be loaded any more in the first pass.
Halted ==
  \/ inb = {} /\ (exiting \/ limit < 0)
  \/ limit > 0 /\ pass.total + pass.loaded >= limit

\* Nothing is in the way of a first pass: it is not disturbed, or random packets fill
\* the slots as long as the client goes on.
Alone == ~Disturbed
Calm == Alone \/ (limit > 0 /\ ~exiting)

FirstLoad ==
  pass.pc # "none" /\ First =>
    /\ Cardinality(Busy) <= pass.loaded /\ pass.loaded <= Planned
    /\ Going => pass.loaded <= This /\ \A i \in Busy : i < This
    /\ Calm => /\ \A i \in Busy : i < pass.loaded
               /\ Going => pass.loaded = This \/ Halted

Where ==
  /\ main = "initial" /\ pass.pc = "none" => Busy = {}
  /\ Calm /\ pass.pc = "none" =>
       /\ \A i \in Busy : i < prev
       /\ main \in {"start", "loop"} \/ (main = "stop" /\ count # 0) => \A i \in Busy : i < count
       /\ main \in {"closed", "dead"} => Busy = {}
  /\ Calm /\ pass.pc # "none" =>
       /\ pass.mode = "resize" => \A i \in Busy : i < pass.count \/ i \in Left
       /\ pass.mode = "unload" => Busy \subseteq Left
  /\ (Alone \/ limit > 0) /\ pass.pc # "none" /\ pass.mode = "any" =>
       \A i \in Busy : i < pass.count

\* The slots of a pass of which it has made up its mind whether they are empty.
Seen == (0 .. pass.count - 1) \ (IF pass.pc = "load" THEN Left \ {This} ELSE Left)

Counts ==
  pass.pc # "none" =>
    /\ pass.total >= done
    /\ pass.mode \in {"initial", "any"} => pass.empty = Cardinality(Seen \ Busy)

\* The places of a packet, each in one of them.
Places ==
  /\ inb \cap outb = {} /\ inb \cap others = {} /\ inb \cap sent = {} /\ inb \cap gone = {}
  /\ outb \cap others = {} /\ outb \cap sent = {} /\ outb \cap gone = {}
  /\ others \cap sent = {} /\ others \cap gone = {} /\ sent \cap gone = {}
  /\ \A i \in Busy : slot[i].packet \notin inb \cup outb \cup others \cup sent \cup gone
  /\ \A i, j \in Busy : slot[i].packet = slot[j].packet => i = j
  /\ \A p \in Packets : \/ p \in inb \cup outb \cup others \cup sent \cup gone
                        \/ \E i \in Busy : slot[i].packet = p

Out == outb \cup sent

\* What was done, and what a pass has saved, is in the out-buffer or was sent.
Results ==
  /\ pass.pc # "none" \/ main \notin {"closed", "dead"} =>
       IsFiniteSet(Out) /\ done <= Cardinality(Out)
  /\ pass.pc # "none" /\ pass.mode \in {"initial", "any"} => pass.total <= Cardinality(Out)

\* A slot left empty by a client that only runs its buffers down means that there is
\* nothing to load.
RunDown ==
  /\ pass.pc # "none" /\ pass.mode \in {"initial", "any"} /\ limit < 0
  /\ (Seen \ (IF pass.pc = "load" THEN {This} ELSE {})) \ Busy # {}
  => inb = {}

-----------------------------------------------------------------------------
(* What the operators of a pass do. *)

LEMMA Orders ==
  ASSUME NEW m \in Nat, NEW q \in [1 .. m -> Slots]
  PROVE  /\ q \in Seq(Slots) /\ Len(q) = m
         /\ m = 0 => q = <<>>
         /\ m > 0 => /\ q # <<>> /\ Head(q) = q[1]
                     /\ Tail(q) \in Seq(Slots)
                     /\ Tail(q) = [k \in 1 .. m - 1 |-> q[k + 1]]
<1>1. q \in Seq(Slots)
  BY SeqDef
<1>2. Len(q) = m
  BY <1>1, LenProperties
<1>3. m = 0 => q = <<>>
  BY <1>1, <1>2, EmptySeq
<1>4. ASSUME m > 0
      PROVE  /\ q # <<>> /\ Head(q) = q[1]
             /\ Tail(q) \in Seq(Slots)
             /\ Tail(q) = [k \in 1 .. m - 1 |-> q[k + 1]]
  <2>1. q # <<>>
    BY <1>1, <1>2, <1>4, EmptySeq
  <2>2. /\ Tail(q) \in Seq(Slots) /\ Len(Tail(q)) = m - 1
        /\ \A k \in 1 .. m - 1 : Tail(q)[k] = q[k + 1]
    BY <1>1, <1>2, <2>1, HeadTailProperties
  <2>3. DOMAIN Tail(q) = 1 .. m - 1 /\ Tail(q) = [k \in DOMAIN Tail(q) |-> Tail(q)[k]]
    BY <2>2, LenProperties
  <2> QED BY <2>1, <2>2, <2>3, <1>1
<1> QED
  BY <1>1, <1>2, <1>3, <1>4

\* A pass goes on with the next slot, upwards or downwards.
LEMMA Advance ==
  ASSUME TypeOK, Path, Going
  PROVE  /\ This \in Slots /\ pass.order # <<>>
         /\ Tail(pass.order) \in Seq(Slots)
         /\ First => IF This = Planned - 1 THEN Tail(pass.order) = <<>>
                     ELSE /\ Tail(pass.order) # <<>> /\ Head(Tail(pass.order)) = This + 1
                          /\ Tail(pass.order) =
                               [k \in 1 .. Planned - (This + 1) |-> (This + 1) + k - 1]
         /\ ~First => IF This = Lowest THEN Tail(pass.order) = <<>>
                      ELSE /\ Tail(pass.order) # <<>> /\ Head(Tail(pass.order)) = This - 1
                           /\ Tail(pass.order) =
                                [k \in 1 .. (This - 1) - Lowest + 1 |-> (This - 1) - k + 1]
<1> DEFINE q == Tail(pass.order)
<1>1. This \in 0 .. Planned - 1 /\ This \in Int /\ Planned \in Nat
  BY LoadSaveAssumption DEF Path, Slots
<1>2. Lowest \in 0 .. Planned
  BY <1>1 DEF TypeOK, Locals, Lowest
<1>3. CASE First
  <2> DEFINE m == Planned - This
             n == Planned - (This + 1)
  <2>1. m \in Nat /\ m > 0 /\ n \in Nat /\ n = m - 1
    BY <1>1
  <2>2. pass.order = [k \in 1 .. m |-> This + k - 1]
    BY <1>3 DEF Path
  <2>3. pass.order \in [1 .. m -> Slots]
    BY <1>1, <2>2 DEF Slots
  <2>4. /\ pass.order # <<>> /\ q \in Seq(Slots)
        /\ q = [k \in 1 .. m - 1 |-> pass.order[k + 1]]
    BY <2>1, <2>3, Orders
  <2>5. q = [k \in 1 .. n |-> (This + 1) + k - 1]
    BY <1>1, <2>1, <2>2, <2>4
  <2>6. q \in [1 .. n -> Slots]
    <3>1. \A k \in 1 .. n : (This + 1) + k - 1 \in Slots
      BY <1>1 DEF Slots
    <3> HIDE DEF n, q
    <3> QED BY <2>5, <3>1
  <2>7. CASE This = Planned - 1
    <3>1. n = 0
      BY <1>1, <2>7
    <3> HIDE DEF n, q
    <3>2. q = <<>>
      BY <2>1, <2>6, <3>1, Orders
    <3> QED BY <1>3, <2>4, <2>7, <3>2 DEF q, Path
  <2>8. CASE This # Planned - 1
    <3>1. n > 0
      BY <1>1, <2>8
    <3>2. q # <<>> /\ Head(q) = q[1]
      <4> HIDE DEF n, q
      <4> QED BY <2>1, <2>6, <3>1, Orders
    <3>3. q[1] = This + 1
      <4>1. 1 \in 1 .. n /\ (This + 1) + 1 - 1 = This + 1
        BY <1>1, <2>1, <3>1
      <4> HIDE DEF n, q
      <4> QED BY <2>5, <4>1
    <3> QED BY <1>3, <2>4, <2>5, <2>8, <3>2, <3>3 DEF Path
  <2> QED BY <2>7, <2>8
<1>4. CASE ~First
  <2> DEFINE m == This - Lowest + 1
             n == (This - 1) - Lowest + 1
  <2>1. m \in Nat /\ m > 0 /\ n \in Nat /\ n = m - 1
    BY <1>1, <1>2, <1>4 DEF Path
  <2>2. pass.order = [k \in 1 .. m |-> This - k + 1]
    BY <1>4 DEF Path
  <2>3. pass.order \in [1 .. m -> Slots]
    BY <1>1, <1>2, <2>2 DEF Slots
  <2>4. /\ pass.order # <<>> /\ q \in Seq(Slots)
        /\ q = [k \in 1 .. m - 1 |-> pass.order[k + 1]]
    BY <2>1, <2>3, Orders
  <2>5. q = [k \in 1 .. n |-> (This - 1) - k + 1]
    BY <1>1, <2>1, <2>2, <2>4
  <2>6. q \in [1 .. n -> Slots]
    <3>1. \A k \in 1 .. n : (This - 1) - k + 1 \in Slots
      BY <1>1, <1>2 DEF Slots
    <3> HIDE DEF n, q
    <3> QED BY <2>5, <3>1
  <2>7. CASE This = Lowest
    <3>1. n = 0
      BY <1>1, <2>7
    <3> HIDE DEF n, q
    <3>2. q = <<>>
      BY <2>1, <2>6, <3>1, Orders
    <3> QED BY <1>4, <2>4, <2>7, <3>2 DEF q, Path
  <2>8. CASE This # Lowest
    <3>1. n > 0
      BY <1>1, <1>2, <1>4, <2>8 DEF Path
    <3>2. q # <<>> /\ Head(q) = q[1]
      <4> HIDE DEF n, q
      <4> QED BY <2>1, <2>6, <3>1, Orders
    <3>3. q[1] = This - 1
      <4>1. 1 \in 1 .. n /\ (This - 1) - 1 + 1 = This - 1
        BY <1>1, <2>1, <3>1
      <4> HIDE DEF n, q
      <4> QED BY <2>5, <4>1
    <3> QED BY <1>4, <2>4, <2>5, <2>8, <3>2, <3>3 DEF Path
  <2> QED BY <2>7, <2>8
<1> QED
  BY <1>3, <1>4

\* What an action of a pass leaves alone, and the step to the next slot.
Keeps == pass'.mode = pass.mode /\ pass'.count = pass.count /\ pass'.abort = pass.abort
Passes == pass'.order = Tail(pass.order) /\ pass'.pc = Next1.pc /\ Keeps

LEMMA LeftBehind ==
  ASSUME TypeOK, Path, Going, Passes
  PROVE  Path' /\ Left' = Left \ {This} /\ This \in Left /\ pass'.pc \in {"visit", "end"}
<1> DEFINE q == Tail(pass.order)
<1>1. This \in 0 .. Planned - 1 /\ Planned \in Nat
  BY LoadSaveAssumption DEF Path, Slots
<1>2. Lowest \in 0 .. Planned /\ Lowest' = Lowest /\ First' = First
  BY <1>1 DEF TypeOK, Locals, Lowest, First, Passes, Keeps
<1>3. pass'.pc = IF q = <<>> THEN "end" ELSE "visit"
  BY DEF Passes, Next1
<1>4. pass'.order = q
  BY DEF Passes
<1>5. This' = Head(q)
  BY <1>4 DEF This
<1>6. CASE First
  <2>1. CASE This = Planned - 1
    <3>1. ~Going'
      BY <1>3, <1>6, <2>1, Advance DEF Going
    <3>2. Left = This .. Planned - 1
      BY <1>6 DEF Left
    <3>3. Left \ {This} = {} /\ This \in Left
      BY <1>1, <2>1, <3>2
    <3> QED BY <1>3, <3>1, <3>3 DEF Path, Left
  <2>2. CASE This # Planned - 1
    <3>1. /\ q # <<>> /\ Head(q) = This + 1
          /\ q = [k \in 1 .. Planned - (This + 1) |-> (This + 1) + k - 1]
      BY <1>6, <2>2, Advance
    <3> HIDE DEF q
    <3>a. pass'.pc = "visit" /\ This' = This + 1
      BY <1>3, <1>5, <3>1
    <3>2. Going' /\ This' = This + 1 /\ This' \in Slots
      BY <1>1, <2>2, <3>a DEF Going, Slots
    <3>3. pass'.order = [k \in 1 .. Planned - This' |-> This' + k - 1]
      BY <1>4, <3>1, <3>2
    <3>4. Left = This .. Planned - 1 /\ Left' = This' .. Planned - 1
      BY <1>2, <1>6, <3>2 DEF Left
    <3>5. Left' = Left \ {This} /\ This \in Left
      BY <1>1, <3>2, <3>4
    <3>6. pass'.mode \notin {"any", "unload"}
      BY <1>2, <1>6 DEF First
    <3> QED BY <1>2, <1>3, <1>6, <3>2, <3>3, <3>5, <3>6 DEF Path
  <2> QED BY <2>1, <2>2
<1>7. CASE ~First
  <2>0. Lowest <= This /\ Left = Lowest .. This
    BY <1>7 DEF Path, Left
  <2>1. CASE This = Lowest
    <3>1. ~Going'
      BY <1>3, <1>7, <2>1, Advance DEF Going
    <3>2. Left \ {This} = {} /\ This \in Left
      BY <1>1, <2>0, <2>1
    <3> QED BY <1>3, <3>1, <3>2 DEF Path, Left
  <2>2. CASE This # Lowest
    <3>1. /\ q # <<>> /\ Head(q) = This - 1
          /\ q = [k \in 1 .. (This - 1) - Lowest + 1 |-> (This - 1) - k + 1]
      BY <1>7, <2>2, Advance
    <3> HIDE DEF q
    <3>2. Going' /\ This' = This - 1 /\ This' \in Slots /\ Lowest' <= This'
      BY <1>1, <1>2, <1>3, <1>5, <2>0, <2>2, <3>1 DEF Going, Slots
    <3>3. pass'.order = [k \in 1 .. This' - Lowest' + 1 |-> This' - k + 1]
      BY <1>2, <1>4, <3>1, <3>2
    <3>4. Left' = Lowest' .. This'
      BY <1>2, <1>7, <3>2 DEF Left
    <3>5. Left' = Left \ {This} /\ This \in Left
      BY <1>1, <1>2, <2>0, <3>2, <3>4
    <3>6. pass'.mode \in {"any", "unload"} => This' < pass'.count
      BY <1>1, <3>2 DEF Path, Passes, Keeps, TypeOK, Locals
    <3> QED BY <1>2, <1>3, <1>7, <3>2, <3>3, <3>5, <3>6 DEF Path
  <2> QED BY <2>1, <2>2
<1> QED
  BY <1>6, <1>7

Modes == {"initial", "any", "resize", "unload"}

LEMMA NoPassType ==
  /\ NoPass \in Locals /\ \A mode \in Modes : [NoPass EXCEPT !.mode = mode] \in Locals
  /\ NoPass.pc = "none" /\ \A mode \in Modes : [NoPass EXCEPT !.mode = mode].pc = "none"
<1>1. <<>> \in Seq(Slots) /\ 0 \in 0 .. Planned
  BY LoadSaveAssumption
<1>2. NoPass \in Locals /\ NoPass.pc = "none"
  BY <1>1 DEF NoPass, Locals
<1>3. ASSUME NEW mode \in Modes
      PROVE  [NoPass EXCEPT !.mode = mode] \in Locals /\ [NoPass EXCEPT !.mode = mode].pc = "none"
  BY <1>2 DEF Locals, Modes
<1> QED
  BY <1>2, <1>3

\* A pass begins with all slots of its mode before it.
LEMMA BeginFacts ==
  ASSUME TypeOK, NEW mode \in Modes, NEW n \in 0 .. Planned, NEW abort \in BOOLEAN,
         NEW m \in 1 .. Planned, m = Counted(mode, n), Begin(mode, n, abort),
         prev = 0 <=> mode = "initial", mode = "initial" => m = Planned,
         mode = "resize" => m < prev
  PROVE  /\ pass' \in Locals
         /\ pass'.pc = "visit" /\ pass'.mode = mode /\ pass'.count = m /\ pass'.total = done
         /\ pass'.saved = 0 /\ pass'.loaded = 0 /\ pass'.empty = 0 /\ pass'.pending = {}
         /\ pass'.abort = abort
         /\ Path' /\ Left' = IF mode = "resize" THEN m .. prev - 1 ELSE 0 .. m - 1
         /\ Going' /\ (mode = "initial" => This' = 0)
<1>1. /\ m \in Nat /\ Planned \in Nat /\ prev \in 0 .. Planned /\ done \in Nat
      /\ m <= Planned /\ m > 0
  BY LoadSaveAssumption DEF TypeOK
<1>2. pass' = [NoPass EXCEPT !.pc = "visit", !.mode = mode, !.order = SlotOrder(mode, m),
                 !.count = m, !.total = done, !.abort = abort]
  <2>1. pass' = [NoPass EXCEPT !.pc = IF m = 0 THEN "none" ELSE "visit", !.mode = mode,
                  !.order = IF m = 0 THEN <<>> ELSE SlotOrder(mode, m), !.count = m,
                  !.total = done, !.abort = abort]
    BY DEF Begin
  <2>2. m # 0
    BY <1>1
  <2> QED BY <2>1, <2>2
<1>3. pass' = [pc |-> "visit", mode |-> mode, order |-> SlotOrder(mode, m), count |-> m,
               total |-> done, saved |-> 0, loaded |-> 0, empty |-> 0, pending |-> {},
               abort |-> abort]
  BY <1>2 DEF NoPass
<1>4. SlotOrder(mode, m) =
        IF mode = "initial" THEN [k \in 1 .. m |-> k - 1]
        ELSE IF mode = "resize" THEN [k \in 1 .. prev - m |-> prev - k]
        ELSE [k \in 1 .. m |-> m - k]
  <2>1. CASE mode = "initial"
    BY <2>1 DEF SlotOrder, Ascending
  <2>2. CASE mode = "resize"
    <3>1. SlotOrder(mode, m) = [k \in 1 .. (prev - 1) - m + 1 |-> (prev - 1) - k + 1]
      BY <2>2 DEF SlotOrder, Descending
    <3> QED BY <1>1, <2>2, <3>1
  <2>3. CASE mode \in {"any", "unload"}
    <3>1. SlotOrder(mode, m) = [k \in 1 .. (m - 1) - 0 + 1 |-> (m - 1) - k + 1]
      BY <2>3 DEF SlotOrder, Descending
    <3>2. (m - 1) - 0 + 1 = m /\ \A k \in 1 .. m : (m - 1) - k + 1 = m - k
      BY <1>1
    <3>3. SlotOrder(mode, m) = [k \in 1 .. m |-> m - k]
      BY <3>1, <3>2
    <3> QED BY <2>3, <3>3
  <2> QED BY <2>1, <2>2, <2>3 DEF Modes
<1> DEFINE len == IF mode = "resize" THEN prev - m ELSE m
           q == SlotOrder(mode, m)
<1>5. len \in Nat /\ len > 0
  BY <1>1
<1>6. q \in [1 .. len -> Slots]
  BY <1>1, <1>4 DEF Slots
<1>7. q \in Seq(Slots) /\ Head(q) = q[1]
  <2> HIDE DEF len, q
  <2> QED BY <1>5, <1>6, Orders
<1>8. q[1] = IF mode = "initial" THEN 0 ELSE IF mode = "resize" THEN prev - 1 ELSE m - 1
  BY <1>1, <1>4
<1> HIDE DEF len, q
<1>9. pass' \in Locals
  BY <1>1, <1>3, <1>7 DEF Locals, Modes, q
<1>10. This' = q[1] /\ pass'.order = q
  BY <1>3, <1>7 DEF This, q
<1>11. This' \in Slots /\ Going'
  BY <1>1, <1>3, <1>8, <1>10 DEF Slots, Going
<1>12. First' <=> mode = "initial"
  BY <1>3 DEF First
<1>13. Lowest' = IF mode = "resize" THEN m ELSE 0
  BY <1>3 DEF Lowest
<1>14. CASE mode = "initial"
  <2>1. q = [k \in 1 .. Planned - This' |-> This' + k - 1]
    BY <1>1, <1>4, <1>8, <1>10, <1>14 DEF q
  <2>2. Path'
    BY <1>3, <1>10, <1>11, <1>12, <1>14, <2>1 DEF Path
  <2>3. Left' = 0 .. m - 1
    BY <1>8, <1>10, <1>11, <1>12, <1>14 DEF Left
  <2> QED BY <1>3, <1>8, <1>9, <1>10, <1>11, <1>14, <2>2, <2>3
<1>15. CASE mode # "initial"
  <2>1. q = [k \in 1 .. This' - Lowest' + 1 |-> This' - k + 1]
    <3>1. CASE mode = "resize"
      <4>1. This' = prev - 1 /\ Lowest' = m /\ q = [k \in 1 .. prev - m |-> prev - k]
        BY <1>4, <1>8, <1>10, <1>13, <3>1 DEF q
      <4> QED BY <1>1, <4>1
    <3>2. CASE mode # "resize"
      <4>1. This' = m - 1 /\ Lowest' = 0 /\ q = [k \in 1 .. m |-> m - k]
        BY <1>4, <1>8, <1>10, <1>13, <1>15, <3>2 DEF q
      <4> QED BY <1>1, <4>1
    <3> QED BY <3>1, <3>2
  <2>2. Lowest' <= This' /\ (mode # "resize" => This' < m)
    BY <1>1, <1>8, <1>10, <1>13, <1>15
  <2>3. Path'
    BY <1>3, <1>10, <1>11, <1>12, <1>15, <2>1, <2>2 DEF Path
  <2>4. Left' = IF mode = "resize" THEN m .. prev - 1 ELSE 0 .. m - 1
    BY <1>8, <1>10, <1>11, <1>12, <1>13, <1>15 DEF Left
  <2> QED BY <1>3, <1>9, <1>11, <1>15, <2>3, <2>4
<1> QED
  BY <1>14, <1>15

\* The slot is left, or a packet is to be loaded into it.
LEMMA LeaveFacts ==
  ASSUME TypeOK, Path, pass.pc = "visit", NEW saved \in {0, 1}, NEW empty \in BOOLEAN,
         Leave(saved, empty)
  PROVE  /\ pass' \in Locals /\ Keeps /\ pass'.loaded = pass.loaded
         /\ pass'.total = pass.total + saved
         /\ pass'.empty = pass.empty + (IF empty THEN 1 ELSE 0)
         /\ \/ /\ pass'.pc = "load" /\ pass'.order = pass.order
               /\ empty /\ ~Unloading /\ ~LimitReached(pass'.total, pass'.empty)
            \/ /\ Passes
               /\ empty => Unloading \/ LimitReached(pass'.total, pass'.empty)
<1> DEFINE total == pass.total + saved
           all == pass.empty + (IF empty THEN 1 ELSE 0)
           load == empty /\ ~Unloading /\ ~LimitReached(total, all)
           pend == IF saved = 1 /\ memory THEN pass.pending \cup {"flush"} ELSE pass.pending
<1>1. /\ pass \in Locals /\ Tail(pass.order) \in Seq(Slots)
      /\ pass.order \in Seq(Slots)
  BY Advance DEF Going, TypeOK, Locals
<1>2. /\ total \in Nat /\ all \in Int /\ pass.saved + saved \in Nat
      /\ pend \in SUBSET {"fetch", "flush"} /\ load \in BOOLEAN
      /\ Next1.pc \in {"visit", "end"} /\ Next1.order = Tail(pass.order)
  BY <1>1 DEF Locals, Next1
<1>3. pass' = [pass EXCEPT !.pc = IF load THEN "load" ELSE Next1.pc,
                 !.order = IF load THEN pass.order ELSE Next1.order,
                 !.total = total, !.empty = all, !.saved = pass.saved + saved,
                 !.pending = pend]
  BY DEF Leave
<1> HIDE DEF total, all, load, pend
<1>4. /\ pass' \in Locals
      /\ pass'.pc = (IF load THEN "load" ELSE Next1.pc)
      /\ pass'.order = (IF load THEN pass.order ELSE Next1.order)
      /\ pass'.total = total /\ pass'.empty = all /\ pass'.mode = pass.mode
      /\ pass'.count = pass.count /\ pass'.abort = pass.abort /\ pass'.loaded = pass.loaded
  BY <1>1, <1>2, <1>3 DEF Locals
<1>5. CASE load
  BY <1>4, <1>5 DEF Keeps, load, total, all
<1>6. CASE ~load
  BY <1>2, <1>4, <1>6 DEF Keeps, Passes, load, total, all
<1> QED
  BY <1>5, <1>6

SlotType == [Slots -> {Empty} \cup [packet : All, state : {"work", "done"}]]

LEMMA ClearFacts ==
  ASSUME TypeOK, This \in Slots, Clear
  PROVE  /\ slot' \in SlotType /\ Busy' = Busy \ {This}
         /\ \A i \in Busy' : slot'[i] = slot[i]
BY DEF TypeOK, SlotType, Clear, Busy, IsEmpty

\* The pass stays at its slot, whatever updates it will ask for.
Stays == /\ Keeps /\ pass'.pc = pass.pc /\ pass'.order = pass.order
         /\ pass'.total = pass.total /\ pass'.loaded = pass.loaded /\ pass'.empty = pass.empty

LEMMA StaysThere ==
  ASSUME Stays
  PROVE  UNCHANGED <<This, Left, Lowest, First, Going>>
BY DEF Stays, Keeps, This, Left, Lowest, First, Going

LEMMA LoadFacts ==
  ASSUME TypeOK, Path, pass.pc = "load", NEW p \in All, NEW n,
         NEW pending \in SUBSET {"fetch", "flush"}, LoadState(p, n, pending)
  PROVE  \/ /\ p \in Bad /\ gone' = gone \cup {p} /\ slot' = slot
            /\ pass' \in Locals /\ Stays
         \/ /\ gone' = gone /\ slot' \in SlotType /\ pass' \in Locals /\ Passes
            /\ pass'.total = pass.total /\ pass'.loaded = pass.loaded + 1
            /\ pass'.empty = pass.empty - 1
            /\ Busy' = Busy \cup {This} /\ slot'[This].packet = p
            /\ \A i \in Slots \ {This} : slot'[i] = slot[i]
<1>1. CASE p \in Bad
  <2>1. /\ gone' = gone \cup {p} /\ slot' = slot
        /\ pass' = [pass EXCEPT !.pending = pending]
    BY <1>1 DEF LoadState
  <2>2. pass \in Locals
    BY DEF TypeOK
  <2>3. pass' \in Locals
    BY <2>1, <2>2 DEF Locals
  <2>4. Stays
    BY <2>1, <2>2 DEF Locals, Stays, Keeps
  <2> QED BY <1>1, <2>1, <2>3, <2>4
<1>2. CASE p \notin Bad
  <2> DEFINE pend == IF p \in Packets /\ n < pass.count - This
                       THEN pending \cup {"fetch"} ELSE pending
             new == [packet |-> p, state |-> "work"]
  <2>1. /\ gone' = gone /\ slot' = [slot EXCEPT ![This] = new]
        /\ pass' = [pass EXCEPT !.pc = Next1.pc, !.order = Next1.order,
                      !.loaded = pass.loaded + 1, !.empty = pass.empty - 1, !.pending = pend]
    BY <1>2 DEF LoadState
  <2>2. /\ pass \in Locals /\ This \in Slots /\ Tail(pass.order) \in Seq(Slots)
        /\ pend \in SUBSET {"fetch", "flush"}
        /\ Next1.pc \in {"visit", "end"} /\ Next1.order = Tail(pass.order)
    BY Advance DEF Going, TypeOK, Next1
  <2> HIDE DEF pend
  <2>a. pass.loaded + 1 \in Nat /\ pass.empty - 1 \in Int
    BY <2>2 DEF Locals
  <2>3. /\ pass' \in Locals /\ Passes
        /\ pass'.total = pass.total /\ pass'.loaded = pass.loaded + 1
        /\ pass'.empty = pass.empty - 1
    BY <2>1, <2>2, <2>a DEF Locals, Passes, Keeps
  <2>4. new \in [packet : All, state : {"work", "done"}] /\ new # Empty
    BY DEF Empty
  <2>5. slot \in SlotType
    BY DEF TypeOK, SlotType
  <2> HIDE DEF new
  <2>6. /\ slot' \in SlotType /\ slot'[This] = new
        /\ \A i \in Slots \ {This} : slot'[i] = slot[i]
    BY <2>1, <2>2, <2>4, <2>5 DEF SlotType
  <2>7. Busy' = Busy \cup {This}
    BY <2>2, <2>4, <2>6 DEF Busy, IsEmpty
  <2>8. slot'[This].packet = p
    BY <2>6 DEF new
  <2> QED BY <2>1, <2>3, <2>6, <2>7, <2>8
<1> QED
  BY <1>1, <1>2

\* The results that an update sends, if it flushes.
Sending == (outb' = {} /\ sent' = sent \cup outb) \/ UNCHANGED <<outb, sent>>

Sizes == {0} \cup {Cardinality(g) - 1 : g \in SUBSET (inb \cup others)}

\* A packet out of the in-buffer, fetched for it or made, given to LoadState.
LEMMA LoadingSteps ==
  ASSUME TypeOK, LoadPacket \/ LoadFetched \/ LoadRandom
  PROVE  /\ pass.pc = "load" /\ ~(inb = {} /\ (exiting \/ limit < 0))
         /\ UNCHANGED <<setup, done, prev, abortive, main, count, requests, exiting, faults>>
         /\ Sending /\ (inb # {} => UNCHANGED <<outb, sent>>)
         /\ \E p \in All, got \in SUBSET others, n \in Sizes,
               pending \in SUBSET {"fetch", "flush"} :
              /\ LoadState(p, n, pending) /\ (inb # {} => got = {})
              /\ others' = others \ got /\ inb' = (inb \cup got) \ {p}
              /\ \/ p \in inb \cup got
                 \/ /\ inb = {} /\ p \in Randoms /\ \A i \in Slots : slot[i].packet # p
                    /\ p \notin inb \cup outb \cup others \cup sent \cup gone
<1>1. pass.pending \in SUBSET {"fetch", "flush"} /\ limit \in Int
  BY LoadSaveAssumption DEF TypeOK, Locals
<1>2. CASE LoadPacket
  <2>1. PICK p \in inb : inb' = inb \ {p} /\ LoadState(p, Cardinality(inb) - 1, pass.pending)
    BY <1>2 DEF LoadPacket
  <2>2. /\ UNCHANGED <<setup, outb, others, sent, done, prev, abortive, main, count, requests,
                       exiting, faults>>
        /\ pass.pc = "load"
    BY <1>2 DEF LoadPacket, Loading
  <2>3. p \in All /\ Cardinality(inb) - 1 \in Sizes /\ {} \in SUBSET others
    BY DEF TypeOK, Sizes
  <2>4. others' = others \ {} /\ inb' = (inb \cup {}) \ {p} /\ p \in inb \cup {} /\ inb # {}
    BY <2>1, <2>2
  <2>5. \E q \in All, got \in SUBSET others, n \in Sizes, pending \in SUBSET {"fetch", "flush"} :
          /\ LoadState(q, n, pending) /\ got = {}
          /\ others' = others \ got /\ inb' = (inb \cup got) \ {q} /\ q \in inb \cup got
    <3> DEFINE m == Cardinality(inb) - 1
               u == pass.pending
               none == {}
    <3>1. LoadState(p, m, u) /\ m \in Sizes /\ u \in SUBSET {"fetch", "flush"}
      BY <1>1, <2>1, <2>3
    <3>2. /\ none \in SUBSET others /\ none = {}
          /\ others' = others \ none /\ inb' = (inb \cup none) \ {p} /\ p \in inb \cup none
      BY <2>4
    <3> HIDE DEF m, u, none
    <3> QED BY <2>3, <3>1, <3>2
  <2>6. Sending /\ UNCHANGED <<outb, sent>>
    BY <2>2 DEF Sending
  <2>7. \E q \in All, got \in SUBSET others, n \in Sizes, pending \in SUBSET {"fetch", "flush"} :
          /\ LoadState(q, n, pending) /\ (inb # {} => got = {})
          /\ others' = others \ got /\ inb' = (inb \cup got) \ {q}
          /\ \/ q \in inb \cup got
             \/ /\ inb = {} /\ q \in Randoms /\ \A i \in Slots : slot[i].packet # q
                /\ q \notin inb \cup outb \cup others \cup sent \cup gone
    <3> HIDE <1>1, <1>2, <2>1, <2>2, <2>3, <2>4, <2>6
    <3> QED BY <2>5
  <2> QED BY <2>2, <2>4, <2>6, <2>7
<1>3. CASE LoadFetched
  <2>1. PICK got \in SUBSET others \ {{}}, flushed \in {FALSE, outb # {}} : \E p \in got :
          /\ BufferUpdate(got, flushed) /\ inb' = got \ {p}
          /\ LoadState(p, Cardinality(got) - 1, StillPending(got, flushed))
    BY <1>3 DEF LoadFetched
  <2>2. PICK p \in got :
          /\ BufferUpdate(got, flushed) /\ inb' = got \ {p}
          /\ LoadState(p, Cardinality(got) - 1, StillPending(got, flushed))
    BY <2>1
  <2>3. /\ UNCHANGED <<setup, done, prev, abortive, main, count, requests, exiting, faults>>
        /\ pass.pc = "load" /\ inb = {} /\ ~exiting /\ limit >= 0
    BY <1>3 DEF LoadFetched, Updates, Loading
  <2>4. /\ p \in All /\ got \in SUBSET others /\ Cardinality(got) - 1 \in Sizes
        /\ StillPending(got, flushed) \in SUBSET {"fetch", "flush"}
    BY <1>1 DEF TypeOK, All, Sizes, StillPending
  <2>5. others' = others \ got /\ inb' = (inb \cup got) \ {p} /\ p \in inb \cup got
    BY <2>2, <2>3 DEF BufferUpdate
  <2>6. Sending
    BY <2>2 DEF BufferUpdate, Sending
  <2> QED BY <1>1, <2>2, <2>3, <2>4, <2>5, <2>6
<1>4. CASE LoadRandom
  <2>1. PICK p \in Randoms, flushed \in {FALSE, outb # {}} :
          /\ p \notin inb \cup outb \cup sent \cup gone /\ \A i \in Slots : slot[i].packet # p
          /\ BufferUpdate({}, flushed) /\ LoadState(p, 0, StillPending({}, flushed))
    BY <1>4 DEF LoadRandom
  <2>2. /\ UNCHANGED <<setup, inb, done, prev, abortive, main, count, requests, exiting, faults>>
        /\ pass.pc = "load" /\ inb = {} /\ ~exiting /\ limit >= 0
    BY <1>4 DEF LoadRandom, Updates, Loading
  <2>3. /\ p \in All /\ p \notin others /\ 0 \in Sizes /\ {} \in SUBSET others
        /\ StillPending({}, flushed) \in SUBSET {"fetch", "flush"}
    BY <1>1, LoadSaveAssumption DEF TypeOK, All, Sizes, StillPending
  <2>4. others' = others \ {} /\ inb' = (inb \cup {}) \ {p}
    BY <2>1, <2>2 DEF BufferUpdate
  <2>5. Sending
    BY <2>1 DEF BufferUpdate, Sending
  <2> QED BY <1>1, <2>1, <2>2, <2>3, <2>4, <2>5
<1> QED
  BY <1>2, <1>3, <1>4

\* Nothing is loaded: on to the next slot.
LEMMA PassOver ==
  ASSUME TypeOK, Path, Going, LoadOver
  PROVE  /\ pass' \in Locals /\ Passes /\ pass'.total = pass.total
         /\ pass'.loaded = pass.loaded /\ pass'.empty = pass.empty
<1>1. /\ pass \in Locals /\ Tail(pass.order) \in Seq(Slots)
      /\ Next1.pc \in {"visit", "end"} /\ Next1.order = Tail(pass.order)
  BY Advance DEF TypeOK, Next1
<1> QED
  BY <1>1 DEF LoadOver, Locals, Passes, Keeps

LEMMA FaultType ==
  ASSUME TypeOK, Fault
  PROVE  faults' \in 0 .. MaxFaults
BY LoadSaveAssumption DEF TypeOK, Fault

\* No pass, a resize or an unload follows the start of the crunchers.
LEMMA Starting ==
  ASSUME TypeOK, Control, StartCrunchers
  PROVE  /\ main = "start" /\ pass.pc = "none" /\ prev = Planned /\ prev # 0
         /\ count \in 1 .. Planned /\ count \in 0 .. Planned /\ faults' \in 0 .. MaxFaults
         /\ main' \in {"stop", "loop"} /\ count' \in 0 .. Planned
         /\ UNCHANGED <<setup, slot, stores, done, prev, abortive, requests, exiting>>
         /\ \/ pass' = pass /\ count' = count /\ main' = "loop"
            \/ \E k \in 1 .. Planned :
                 /\ main' = "loop" /\ count' = k /\ k \in 0 .. Planned /\ k < prev
                 /\ k < count /\ k = Counted("resize", k) /\ Begin("resize", k, FALSE)
            \/ /\ main' = "stop" /\ count' = 0 /\ count = Counted("unload", count)
               /\ Begin("unload", count, FALSE)
<1>1. /\ main = "start" /\ pass.pc = "none" /\ prev = Planned /\ prev # 0
      /\ count \in 1 .. Planned /\ count \in 0 .. Planned /\ count \in Nat /\ Planned \in Nat
      /\ UNCHANGED <<setup, slot, stores, done, prev, abortive, requests, exiting>>
  BY LoadSaveAssumption DEF StartCrunchers, LoopUnchanged, Control, TypeOK
<1>2. PICK k \in 0 .. count :
        /\ IF k < count THEN Fault ELSE UNCHANGED faults
        /\ count' = k
        /\ \/ k = count /\ UNCHANGED pass
           \/ 0 < k /\ k < count /\ Begin("resize", k, FALSE)
           \/ k = 0 /\ Begin("unload", count, FALSE)
        /\ main' = IF k = 0 THEN "stop" ELSE "loop"
  BY DEF StartCrunchers
<1>3. faults' \in 0 .. MaxFaults /\ main' \in {"stop", "loop"} /\ count' \in 0 .. Planned
  <2>1. faults' \in 0 .. MaxFaults
    BY <1>2, FaultType DEF TypeOK
  <2>2. main' \in {"stop", "loop"} /\ count' \in 0 .. Planned
    BY <1>1, <1>2
  <2> QED BY <2>1, <2>2
<1>4. CASE k = count /\ UNCHANGED pass
  <2>1. pass' = pass /\ count' = count /\ main' = "loop"
    BY <1>1, <1>2, <1>4
  <2> QED BY <1>1, <1>3, <2>1
<1>5. CASE 0 < k /\ k < count /\ Begin("resize", k, FALSE)
  <2>1. /\ k \in 1 .. Planned /\ k \in 0 .. Planned /\ k < prev
        /\ count' = k /\ main' = "loop"
    BY <1>1, <1>2, <1>5
  <2>2. k = Counted("resize", k)
    BY DEF Counted
  <2> QED BY <1>1, <1>3, <1>5, <2>1, <2>2
<1>6. CASE k = 0 /\ Begin("unload", count, FALSE)
  <2>1. count' = 0 /\ main' = "stop"
    BY <1>2, <1>6
  <2>2. count = Counted("unload", count)
    BY <1>1 DEF Counted
  <2> QED BY <1>1, <1>3, <1>6, <2>1, <2>2
<1> QED
  BY <1>2, <1>4, <1>5, <1>6

-----------------------------------------------------------------------------
(* Types, and where a pass and the main thread are. *)

LEMMA TypeStep ==
  ASSUME TypeOK, Path, Control, FirstLoad, [Next]_vars
  PROVE  TypeOK'
<1> USE LoadSaveAssumption DEF setup, stores
<1>1. CASE VisitNothing
  <2>1. pass.pc = "visit" /\ Leave(0, IsEmpty(This)) /\ IsEmpty(This) \in BOOLEAN
    BY <1>1 DEF VisitNothing, IsEmpty
  <2>2. pass' \in Locals
    BY <2>1, LeaveFacts
  <2> QED BY <1>1, <2>2 DEF VisitNothing, TypeOK
<1>2. CASE VisitSaves
  <2>1. pass' \in Locals /\ slot' \in SlotType
    BY <1>2, LeaveFacts, ClearFacts, Advance DEF VisitSaves, Going
  <2>2. slot[This].packet \in All
    <3>1. This \in Slots
      BY <1>2 DEF VisitSaves, Path, Going
    <3>2. slot[This] # Empty
      BY <1>2 DEF VisitSaves, Due, IsEmpty, Empty
    <3> QED BY <3>1, <3>2 DEF TypeOK
  <2>3. inb' \subseteq All /\ outb' \subseteq All /\ done' \in Nat
    BY <1>2, <2>2 DEF VisitSaves, TypeOK
  <2> QED BY <1>2, <2>1, <2>3 DEF VisitSaves, TypeOK, SlotType
<1>3. CASE VisitDiscards
  <2>1. pass' \in Locals /\ slot' \in SlotType
    BY <1>3, LeaveFacts, ClearFacts, Advance DEF VisitDiscards, Going
  <2>2. slot[This].packet \in All
    <3>1. This \in Slots
      BY <1>3 DEF VisitDiscards, Path, Going
    <3>2. slot[This] # Empty
      BY <1>3 DEF VisitDiscards, Due, IsEmpty, Empty
    <3> QED BY <3>1, <3>2 DEF TypeOK
  <2>3. faults' \in 0 .. MaxFaults
    BY <1>3, FaultType DEF VisitDiscards, TypeOK
  <2> QED BY <1>3, <2>1, <2>2, <2>3 DEF VisitDiscards, TypeOK, SlotType
<1>4. CASE LoadPacket \/ LoadFetched \/ LoadRandom
  <2>1. /\ pass.pc = "load" /\ Sending
        /\ UNCHANGED <<setup, done, prev, abortive, main, count, requests, exiting, faults>>
    BY <1>4, LoadingSteps
  <2>2. PICK p \in All, got \in SUBSET others, n \in Sizes, pending \in SUBSET {"fetch", "flush"} :
          /\ LoadState(p, n, pending)
          /\ others' = others \ got /\ inb' = (inb \cup got) \ {p}
    BY <1>4, LoadingSteps
  <2>3. gone' \subseteq All /\ slot' \in SlotType /\ pass' \in Locals
    BY <2>1, <2>2, LoadFacts DEF TypeOK, SlotType
  <2>4. /\ others' \subseteq Packets /\ inb' \subseteq All
        /\ outb' \subseteq All /\ sent' \subseteq All
    BY <2>1, <2>2 DEF TypeOK, All, Sending
  <2> QED BY <2>1, <2>3, <2>4 DEF TypeOK, SlotType
<1>5. CASE LoadStopped
  <2>1. pass' \in Locals
    BY <1>5, PassOver DEF LoadStopped, Updates, Loading, Going
  <2>2. PICK got \in SUBSET others, flushed \in {FALSE, outb # {}} :
          BufferUpdate(got, flushed) /\ inb' = got
    BY <1>5 DEF LoadStopped
  <2>3. /\ others' \subseteq Packets /\ inb' \subseteq All
        /\ outb' \subseteq All /\ sent' \subseteq All
    BY <2>2 DEF BufferUpdate, TypeOK, All
  <2> QED BY <1>5, <2>1, <2>3 DEF LoadStopped, TypeOK
<1>6. CASE LoadNone
  <2>1. pass' \in Locals
    BY <1>6, PassOver DEF LoadNone, Loading, Going
  <2> QED BY <1>6, <2>1 DEF LoadNone, TypeOK
<1>7. CASE UnloadEnds
  <2>1. pass' \in Locals /\ prev' \in 0 .. Planned
    BY <1>7, NoPassType DEF UnloadEnds
  <2>2. inb' \subseteq All /\ outb' \subseteq All /\ sent' \subseteq All /\ gone' \subseteq All
    BY <1>7 DEF UnloadEnds, TypeOK
  <2>3. main' \in {"closed", "dead"}
    BY <1>7 DEF UnloadEnds
  <2> QED BY <1>7, <2>1, <2>2, <2>3 DEF UnloadEnds, TypeOK
<1>8. CASE PassEnds
  <2>1. PICK stop \in BOOLEAN : PassReturns(stop) /\ UNCHANGED limit
    BY <1>8 DEF PassEnds
  <2>2. pass \in Locals /\ pass.mode \in Modes
    BY DEF TypeOK, Locals, Modes
  <2>3. pass' \in Locals /\ prev' \in 0 .. Planned
    BY <2>1, <2>2, NoPassType DEF PassReturns, Locals
  <2>4. count' \in 0 .. Planned
    BY <2>1, <2>2 DEF PassReturns, FirstLoad, First, Locals, TypeOK
  <2>5. main' \in {"loop", "start", "stop"} /\ exiting' \in BOOLEAN
    BY <2>1 DEF PassReturns, TypeOK
  <2>6. requests' \subseteq {"fetch", "flush"}
    BY <2>1 DEF PassReturns, TypeOK
  <2> QED BY <2>1, <2>3, <2>4, <2>5, <2>6 DEF PassReturns, TypeOK
<1>9. CASE InitialLoad
  <2>1. pass' \in Locals
    <3>1. Planned = Counted("initial", Planned) /\ Planned \in 1 .. Planned /\ prev = 0
      BY <1>9 DEF Counted, InitialLoad, Control
    <3>2. Begin("initial", Planned, FALSE)
      BY <1>9 DEF InitialLoad
    <3>3. Planned \in 0 .. Planned
      OBVIOUS
    <3> QED BY <3>1, <3>2, <3>3, BeginFacts DEF Modes
  <2> QED BY <1>9, <2>1 DEF InitialLoad, LoopUnchanged, TypeOK
<1>10. CASE StartCrunchers
  <2>1. /\ faults' \in 0 .. MaxFaults
        /\ UNCHANGED <<setup, slot, stores, done, prev, abortive, requests, exiting>>
        /\ main' \in {"stop", "loop"} /\ count' \in 0 .. Planned
    BY <1>10, Starting
  <2>2. pass' \in Locals
    <3>1. prev = Planned /\ prev # 0 /\ count \in 1 .. Planned /\ count \in 0 .. Planned
      BY <1>10, Starting
    <3>2. CASE pass' = pass
      BY <3>2 DEF TypeOK
    <3>3. ASSUME NEW k \in 1 .. Planned, k \in 0 .. Planned, k < prev,
                 k = Counted("resize", k), Begin("resize", k, FALSE)
          PROVE  pass' \in Locals
      BY <3>1, <3>3, BeginFacts DEF Modes
    <3>4. CASE count = Counted("unload", count) /\ Begin("unload", count, FALSE)
      BY <3>1, <3>4, BeginFacts DEF Modes
    <3> QED BY <1>10, <3>2, <3>3, <3>4, Starting
  <2> QED BY <2>1, <2>2 DEF TypeOK
<1>11. CASE Refresh
  <2>1. pass' \in Locals
    <3>1. count = Counted("any", count) /\ count \in 1 .. Planned /\ prev # 0
      BY <1>11 DEF Counted, Refresh, Control, TypeOK
    <3> QED BY <1>11, <3>1, BeginFacts DEF Refresh, Modes, TypeOK
  <2> QED BY <1>11, <2>1 DEF Refresh, LoopUnchanged, TypeOK
<1>12. CASE LeaveLoop
  BY <1>12 DEF LeaveLoop, LoopUnchanged, TypeOK
<1>13. CASE UnloadAll
  <2>1. pass' \in Locals
    <3> DEFINE m == Counted("unload", count)
    <3>1. m \in 1 .. Planned /\ prev # 0
      BY <1>13 DEF Counted, UnloadAll, Control, TypeOK
    <3> HIDE DEF m
    <3> QED BY <1>13, <3>1, BeginFacts DEF UnloadAll, Modes, TypeOK, m
  <2>2. main' \in {"closed", "stop"}
    BY <1>13 DEF UnloadAll
  <2> QED BY <1>13, <2>1, <2>2 DEF UnloadAll, LoopUnchanged, TypeOK
<1>14. CASE ServeRequests
  <2>1. PICK got \in SUBSET others : others' = others \ got /\ inb' = inb \cup got
    BY <1>14 DEF ServeRequests
  <2>2. others' \subseteq Packets /\ inb' \subseteq All
    BY <2>1 DEF TypeOK, All
  <2>3. outb' \subseteq All /\ sent' \subseteq All
    BY <1>14 DEF ServeRequests, TypeOK
  <2> QED BY <1>14, <2>2, <2>3 DEF ServeRequests, TypeOK
<1>15. CASE Share
  <2>1. others' \subseteq Packets /\ inb' \subseteq All
    BY <1>15 DEF Share, TypeOK, All
  <2> QED BY <1>15, <2>1 DEF Share, TypeOK
<1>16. CASE RaiseExit
  BY <1>16 DEF RaiseExit, TypeOK
<1>17. CASE HardStop
  <2>1. pass' \in Locals
    <3>1. CASE pass.pc # "none"
      BY <1>17, <3>1 DEF HardStop, TypeOK
    <3>2. CASE pass.pc = "none" /\ prev = 0
      <4>1. Begin("unload", 0, TRUE) /\ Counted("unload", 0) = 0
        BY <1>17, <3>2 DEF HardStop, Counted
      <4>2. pass' = [NoPass EXCEPT !.pc = "none", !.mode = "unload", !.order = <<>>,
                       !.count = 0, !.total = done, !.abort = TRUE]
        BY <4>1 DEF Begin
      <4>3. <<>> \in Seq(Slots) /\ 0 \in 0 .. Planned /\ done \in Nat
        BY DEF TypeOK
      <4> QED BY <4>2, <4>3, NoPassType DEF Locals
    <3>3. CASE pass.pc = "none" /\ prev # 0
      <4>1. Begin("unload", 0, TRUE)
        BY <1>17, <3>3 DEF HardStop
      <4>2. Counted("unload", 0) = prev /\ prev \in 1 .. Planned /\ 0 \in 0 .. Planned
        BY <3>3 DEF Counted, TypeOK
      <4> QED BY <3>3, <4>1, <4>2, BeginFacts DEF Modes
    <3> QED BY <3>1, <3>2, <3>3
  <2>2. abortive' \in BOOLEAN
    BY <1>17 DEF HardStop, TypeOK
  <2> QED BY <1>17, <2>1, <2>2 DEF HardStop, TypeOK
<1>18. ASSUME NEW i \in Slots, Finish(i) PROVE TypeOK'
  <2>1. slot' \in SlotType
    BY <1>18 DEF Finish, TypeOK, SlotType, Empty
  <2> QED BY <1>18, <2>1 DEF Finish, TypeOK, SlotType
<1>19. CASE UNCHANGED vars
  BY <1>19 DEF vars, TypeOK
<1> QED
  BY <1>1, <1>2, <1>3, <1>4, <1>5, <1>6, <1>7, <1>8, <1>9, <1>10, <1>11, <1>12, <1>13,
     <1>14, <1>15, <1>16, <1>17, <1>18, <1>19
     DEF Next, Pass, Visit, Load, RunLoop, Outside

\* The slot visited is left with or without its packet.
LEMMA VisitFacts ==
  ASSUME TypeOK, Path, Visit
  PROVE  /\ pass.pc = "visit" /\ This \in Slots /\ This \in Left
         /\ pass' \in Locals /\ Keeps /\ pass'.loaded = pass.loaded
         /\ UNCHANGED <<setup, others, sent, prev, abortive, main, count, requests, exiting>>
         /\ \E saved \in {0, 1}, empty \in BOOLEAN :
              /\ pass'.total = pass.total + saved
              /\ pass'.empty = pass.empty + (IF empty THEN 1 ELSE 0)
              /\ \/ /\ pass'.pc = "load" /\ pass'.order = pass.order
                    /\ empty /\ ~Unloading /\ ~LimitReached(pass'.total, pass'.empty)
                 \/ /\ Passes
                    /\ empty => Unloading \/ LimitReached(pass'.total, pass'.empty)
              /\ Busy' = (IF empty THEN Busy \ {This} ELSE Busy) /\ (empty \/ This \in Busy)
              /\ Unloading /\ This \in Busy => empty
         /\ \A i \in Busy' : slot'[i] = slot[i]
         /\ This \notin Busy => UNCHANGED <<slot, inb, outb, gone, done>>
<1>1. pass.pc = "visit" /\ This \in Slots /\ Going
  BY DEF Visit, VisitNothing, VisitSaves, VisitDiscards, Path, Going
<1>2. This \in Left
  BY <1>1, LoadSaveAssumption DEF Left, Path, Slots, First, Lowest, TypeOK, Locals
<1>3. This \in Busy <=> ~IsEmpty(This)
  BY <1>1 DEF Busy
<1>4. CASE VisitNothing
  <2>1. Leave(0, IsEmpty(This)) /\ IsEmpty(This) \in BOOLEAN /\ ~Due
    BY <1>4 DEF VisitNothing, IsEmpty
  <2>2. slot' = slot /\ Busy' = Busy
    BY <1>4 DEF VisitNothing, Busy, IsEmpty
  <2>3. Busy = (IF IsEmpty(This) THEN Busy \ {This} ELSE Busy)
    BY <1>3
  <2>4. ~(Unloading /\ This \in Busy)
    BY <1>3, <2>1 DEF Due
  <2>5. UNCHANGED <<setup, stores, prev, abortive, main, count, requests, exiting, done>>
    BY <1>4 DEF VisitNothing
  <2>6. /\ pass' \in Locals /\ Keeps /\ pass'.loaded = pass.loaded
        /\ pass'.total = pass.total + 0
        /\ pass'.empty = pass.empty + (IF IsEmpty(This) THEN 1 ELSE 0)
        /\ \/ /\ pass'.pc = "load" /\ pass'.order = pass.order
              /\ IsEmpty(This) /\ ~Unloading /\ ~LimitReached(pass'.total, pass'.empty)
           \/ /\ Passes
              /\ IsEmpty(This) => Unloading \/ LimitReached(pass'.total, pass'.empty)
    BY <1>1, <2>1, LeaveFacts
  <2> QED BY <1>1, <1>2, <1>3, <2>1, <2>2, <2>3, <2>4, <2>5, <2>6 DEF stores
<1>5. CASE VisitSaves \/ VisitDiscards
  <2>1. PICK saved \in {0, 1} : Leave(saved, TRUE) /\ Clear /\ Due
    BY <1>5 DEF VisitSaves, VisitDiscards
  <2>2. /\ pass' \in Locals /\ Keeps /\ pass'.loaded = pass.loaded
        /\ pass'.total = pass.total + saved
        /\ pass'.empty = pass.empty + (IF TRUE THEN 1 ELSE 0)
        /\ \/ /\ pass'.pc = "load" /\ pass'.order = pass.order
              /\ TRUE /\ ~Unloading /\ ~LimitReached(pass'.total, pass'.empty)
           \/ /\ Passes
              /\ TRUE => Unloading \/ LimitReached(pass'.total, pass'.empty)
    BY <1>1, <2>1, LeaveFacts
  <2>3. Busy' = Busy \ {This} /\ \A i \in Busy' : slot'[i] = slot[i]
    BY <1>1, <2>1, ClearFacts
  <2>4. UNCHANGED <<setup, others, sent, prev, abortive, main, count, requests, exiting>>
    BY <1>5 DEF VisitSaves, VisitDiscards, stores
  <2>5. This \in Busy
    BY <1>1, <2>1 DEF Due, Busy, IsEmpty, Empty
  <2> QED BY <1>1, <1>2, <2>2, <2>3, <2>4, <2>5
<1> QED
  BY <1>4, <1>5 DEF Visit

\* The control of a pass that goes on.
LEMMA ControlKept ==
  ASSUME Control, UNCHANGED <<main, prev, count>>, Keeps, pass.pc # "none", pass'.pc # "none",
         pass'.pc = "load" => /\ pass.mode \in {"initial", "any"} /\ IsEmpty(This)'
                              /\ ~LimitReached(pass.total, pass.empty)'
  PROVE  Control'
BY DEF Control, Keeps, First

\* The invariants of a pass that are proved together: the slots it has to visit, those
\* that may be busy, and who runs it.
PassInv == Path /\ Control /\ FirstLoad /\ Where

\* What a pass counts is finite.
LEMMA Finite ==
  ASSUME TypeOK
  PROVE  /\ IsFiniteSet(Busy) /\ Cardinality(Busy) \in Nat
         /\ IsFiniteSet(Seen \ Busy) /\ Cardinality(Seen \ Busy) \in Nat
         /\ IsFiniteSet(0 .. pass.count - 1) /\ Cardinality(0 .. pass.count - 1) = pass.count
<1>1. pass.count \in Nat /\ Planned \in Nat
  BY LoadSaveAssumption DEF TypeOK, Locals
<1>2. IsFiniteSet(0 .. Planned - 1) /\ IsFiniteSet(0 .. pass.count - 1)
  BY <1>1, FS_Interval
<1>3. Cardinality(0 .. pass.count - 1) = IF 0 > pass.count - 1 THEN 0 ELSE (pass.count - 1) - 0 + 1
  <2>1. 0 \in Int /\ pass.count - 1 \in Int
    BY <1>1
  <2> QED BY <2>1, FS_Interval
<1>4. Cardinality(0 .. pass.count - 1) = pass.count
  BY <1>1, <1>3
<1>5. Busy \subseteq 0 .. Planned - 1 /\ Seen \ Busy \subseteq 0 .. pass.count - 1
  BY DEF Busy, Slots, Seen
<1>6. IsFiniteSet(Busy) /\ IsFiniteSet(Seen \ Busy)
  BY <1>2, <1>5, FS_Subset
<1> QED
  BY <1>2, <1>4, <1>6, FS_CardinalityType

LEMMA VisitKeeps ==
  ASSUME TypeOK, PassInv, Visit
  PROVE  PassInv'
<1> USE DEF PassInv, setup
<1>1. /\ pass.pc = "visit" /\ This \in Slots /\ This \in Left
      /\ pass' \in Locals /\ Keeps /\ pass'.loaded = pass.loaded
      /\ UNCHANGED <<limit, main, prev, count, exiting>>
      /\ This \notin Busy => UNCHANGED <<slot, inb, outb, gone, done>>
  BY VisitFacts
<1>2. PICK saved \in {0, 1}, empty \in BOOLEAN :
        /\ pass'.total = pass.total + saved
        /\ pass'.empty = pass.empty + (IF empty THEN 1 ELSE 0)
        /\ \/ /\ pass'.pc = "load" /\ pass'.order = pass.order
              /\ empty /\ ~Unloading /\ ~LimitReached(pass'.total, pass'.empty)
           \/ /\ Passes
              /\ empty => Unloading \/ LimitReached(pass'.total, pass'.empty)
        /\ Busy' = (IF empty THEN Busy \ {This} ELSE Busy) /\ (empty \/ This \in Busy)
        /\ Unloading /\ This \in Busy => empty
  BY VisitFacts
<1>3. /\ pass.total \in Nat /\ pass.loaded \in Nat /\ pass.mode \in Modes
      /\ pass'.total \in Nat /\ limit \in Int /\ This \in Int /\ Planned \in Nat
      /\ First' = First
  BY <1>1, LoadSaveAssumption DEF TypeOK, Locals, Modes, Slots, Keeps, First
<1>4. First => This \notin Busy
  BY <1>1, <1>3 DEF FirstLoad, Going, First, Slots
<1>5. Going
  BY <1>1 DEF Going
<1>6. CASE pass'.pc = "load" /\ pass'.order = pass.order
           /\ empty /\ ~Unloading /\ ~LimitReached(pass'.total, pass'.empty)
  <2>1. This' = This /\ Lowest' = Lowest /\ Left' = Left /\ Going'
    BY <1>1, <1>3, <1>5, <1>6 DEF This, Lowest, Left, Keeps, Going
  <2>2. Path'
    BY <1>1, <1>3, <1>5, <1>6, <2>1 DEF Path, Keeps
  <2>3. ~LimitReached(pass.total, pass.empty)'
    BY <1>1, <1>6 DEF LimitReached, Keeps
  <2>4. IsEmpty(This)'
    BY <1>1, <1>2, <1>6, <2>1 DEF Busy
  <2>5. pass.mode \in {"initial", "any"}
    BY <1>3, <1>6 DEF Unloading, Modes
  <2>6. Control'
    BY <1>1, <1>6, <2>3, <2>4, <2>5, ControlKept
  <2>7. FirstLoad'
    <3> SUFFICES ASSUME First PROVE FirstLoad'
      BY <1>3 DEF FirstLoad
    <3>1. Busy' = Busy /\ inb' = inb
      BY <1>1, <1>2, <1>4
    <3>2. (Halted => Halted') /\ Calm' = Calm
      BY <1>1, <1>2, <1>3, <3>1 DEF Halted, Calm, Alone
    <3> QED BY <1>1, <1>5, <2>1, <3>1, <3>2 DEF FirstLoad
  <2>8. Where'
    BY <1>1, <1>2, <1>6, <2>1 DEF Where, Keeps, Calm, Alone
  <2> QED BY <2>2, <2>6, <2>7, <2>8
<1>7. CASE Passes /\ (empty => Unloading \/ LimitReached(pass'.total, pass'.empty))
  <2>1. Path' /\ Left' = Left \ {This} /\ pass'.pc \in {"visit", "end"}
    BY <1>5, <1>7, LeftBehind
  <2>2. Control'
    BY <1>1, <2>1, ControlKept
  <2>3. FirstLoad'
    <3> SUFFICES ASSUME First PROVE FirstLoad'
      BY <1>3 DEF FirstLoad
    <3>1. Busy' = Busy /\ inb' = inb /\ done' = done /\ Calm' = Calm
      BY <1>1, <1>2, <1>4 DEF Calm, Alone
    <3>2. Halted'
      <4>1. empty /\ ~Unloading
        BY <1>2, <1>4, <3>1 DEF Unloading, First
      <4>2. limit > 0 /\ pass'.total + pass.loaded >= limit
        BY <1>7, <4>1 DEF LimitReached, First
      <4> QED BY <1>1, <4>2 DEF Halted
    <3>3. Going' => This' = This + 1
      <4>1. pass'.order = Tail(pass.order)
        BY <1>7 DEF Passes
      <4>2. This' = Head(Tail(pass.order)) /\ pass'.pc = Next1.pc
        BY <1>7, <4>1 DEF This, Passes
      <4> QED BY <1>5, <4>2, Advance DEF Going, Next1
    <3>4. Going' => \A i \in Busy : i < This'
      <4>1. \A i \in Busy : i < This
        BY <1>1, <1>5 DEF FirstLoad
      <4>2. \A i \in Busy : i \in Int
        BY <1>3 DEF Busy, Slots
      <4> QED BY <1>3, <3>3, <4>1, <4>2
    <3>5. /\ Cardinality(Busy') <= pass'.loaded /\ pass'.loaded <= Planned
          /\ Calm' => \A i \in Busy' : i < pass'.loaded
      BY <1>1, <1>5, <3>1 DEF FirstLoad
    <3>6. Going' => pass'.loaded <= This'
      BY <1>1, <1>3, <1>5, <3>3 DEF FirstLoad
    <3> QED BY <3>1, <3>2, <3>4, <3>5, <3>6 DEF FirstLoad
  <2>4. Where'
    <3>1. Busy' \subseteq Busy /\ (Unloading => This \notin Busy')
      BY <1>2
    <3> QED BY <1>1, <2>1, <3>1 DEF Where, Keeps, Unloading, Calm, Alone
  <2> QED BY <2>1, <2>2, <2>3, <2>4
<1> QED
  BY <1>2, <1>6, <1>7

\* A packet is refused, loaded, or there is none.
LEMMA LoadSteps ==
  ASSUME TypeOK, Path, Control, Load
  PROVE  /\ pass.pc = "load" /\ Going /\ This \in Slots /\ This \in Left /\ This \notin Busy
         /\ UNCHANGED <<setup, done, prev, main, count, faults>> /\ Sending
         /\ pass' \in Locals /\ pass'.total = pass.total
         /\ \/ /\ Stays /\ slot' = slot /\ exiting' = exiting
               /\ ~(inb = {} /\ (exiting \/ limit < 0))
            \/ /\ Passes /\ pass'.loaded = pass.loaded + 1 /\ pass'.empty = pass.empty - 1
               /\ Busy' = Busy \cup {This} /\ exiting' = exiting
               /\ ~(inb = {} /\ (exiting \/ limit < 0))
            \/ /\ Passes /\ pass'.loaded = pass.loaded /\ pass'.empty = pass.empty
               /\ slot' = slot /\ inb' = inb /\ inb = {} /\ (exiting \/ limit < 0)
               /\ exiting' = exiting
            \/ /\ Passes /\ pass'.loaded = pass.loaded /\ pass'.empty = pass.empty
               /\ slot' = slot /\ limit >= 0 /\ exiting' /\ (First => ~Alone)
<1> USE DEF setup, stores
<1>1. pass.pc = "load" /\ This \in Slots /\ Going
  BY DEF Load, LoadPacket, LoadFetched, LoadRandom, LoadStopped, Updates, LoadNone, Loading, Path,
         Going
<1>2. This \in Left /\ This \notin Busy
  BY <1>1, LoadSaveAssumption DEF Left, Path, Slots, First, Lowest, TypeOK, Locals, Control, Busy
<1>3. CASE LoadPacket \/ LoadFetched \/ LoadRandom
  <2>1. /\ ~(inb = {} /\ (exiting \/ limit < 0)) /\ Sending
        /\ UNCHANGED <<setup, done, prev, main, count, exiting, faults>>
    BY <1>3, LoadingSteps
  <2>2. PICK p \in All, n \in Sizes, pending \in SUBSET {"fetch", "flush"} :
          LoadState(p, n, pending)
    BY <1>3, LoadingSteps
  <2>3. \/ slot' = slot /\ pass' \in Locals /\ Stays
        \/ /\ pass' \in Locals /\ Passes /\ pass'.total = pass.total
           /\ pass'.loaded = pass.loaded + 1 /\ pass'.empty = pass.empty - 1
           /\ Busy' = Busy \cup {This}
    BY <1>1, <2>2, LoadFacts
  <2> QED BY <1>1, <1>2, <2>1, <2>3 DEF Stays
<1>4. CASE LoadStopped \/ LoadNone
  <2>1. LoadOver /\ UNCHANGED <<setup, slot, done, prev, main, count, faults>>
    BY <1>4 DEF LoadStopped, LoadNone
  <2>2. /\ pass' \in Locals /\ Passes /\ pass'.total = pass.total
        /\ pass'.loaded = pass.loaded /\ pass'.empty = pass.empty
    BY <1>1, <2>1, PassOver
  <2>3. CASE LoadStopped
    <3>1. limit >= 0 /\ exiting' /\ (First => ~Alone)
      BY <2>3 DEF LoadStopped, Updates, First, Alone
    <3>2. Sending
      BY <2>3 DEF LoadStopped, BufferUpdate, Sending
    <3> QED BY <1>1, <1>2, <2>1, <2>2, <3>1, <3>2
  <2>4. CASE LoadNone
    <3>1. /\ inb = {} /\ (exiting \/ limit < 0) /\ UNCHANGED <<inb, outb, sent, exiting>>
      BY <2>4 DEF LoadNone
    <3> QED BY <1>1, <1>2, <2>1, <2>2, <3>1 DEF Sending
  <2> QED BY <1>4, <2>3, <2>4
<1> QED
  BY <1>3, <1>4 DEF Load

LEMMA LoadKeeps ==
  ASSUME TypeOK, PassInv, Load
  PROVE  PassInv'
<1> USE DEF PassInv, setup
<1>1. /\ pass.pc = "load" /\ Going /\ This \in Slots /\ This \in Left /\ This \notin Busy
      /\ UNCHANGED <<limit, done, prev, main, count>>
  BY LoadSteps
<1>2. /\ pass.total \in Nat /\ pass.loaded \in Nat /\ pass.mode \in {"initial", "any"}
      /\ limit \in Int /\ This \in 0 .. Planned - 1 /\ Planned \in Nat
      /\ pass.count \in 0 .. Planned
  BY <1>1, LoadSaveAssumption DEF TypeOK, Locals, Slots, Control
<1>3. /\ exiting' = exiting => Calm' = Calm
      /\ IsFiniteSet(Busy) /\ Cardinality(Busy) \in Nat
  BY <1>1, Finite DEF Calm, Alone
<1>4. \A i \in Busy : i \in Int
  BY <1>2 DEF Busy, Slots
<1>5. First /\ Calm /\ ~(inb = {} /\ (exiting \/ limit < 0)) => pass.loaded = This
  <2> SUFFICES ASSUME First, Calm, ~(inb = {} /\ (exiting \/ limit < 0)) PROVE pass.loaded = This
    OBVIOUS
  <2>1. ~(limit > 0 /\ pass.total + pass.loaded >= limit)
    BY <1>1 DEF Control, LimitReached, First
  <2>2. ~Halted
    BY <2>1 DEF Halted
  <2> QED BY <1>1, <2>2 DEF FirstLoad
<1>6. CASE /\ Stays /\ slot' = slot /\ exiting' = exiting
           /\ ~(inb = {} /\ (exiting \/ limit < 0))
  <2>1. UNCHANGED <<This, Left, Lowest, Busy, First, Going>>
    BY <1>6, StaysThere DEF Busy, IsEmpty
  <2>2. Path'
    BY <1>6, <2>1 DEF Path, Stays, Keeps
  <2>3. Control'
    BY <1>1, <1>6, <2>1 DEF Control, LimitReached, IsEmpty, Stays, Keeps
  <2>4. FirstLoad'
    BY <1>3, <1>1, <1>5, <1>6, <2>1 DEF FirstLoad, Stays, Keeps
  <2>5. Where'
    BY <1>3, <1>1, <1>6, <2>1 DEF Where, Stays, Keeps
  <2> QED BY <2>2, <2>3, <2>4, <2>5
<1>7. ASSUME Passes
      PROVE  /\ Path' /\ Left' = Left \ {This} /\ pass'.pc \in {"visit", "end"} /\ Control'
             /\ First' = First
             /\ First /\ Going' => This' = This + 1
  <2>1. Path' /\ Left' = Left \ {This} /\ pass'.pc \in {"visit", "end"}
    BY <1>1, <1>7, LeftBehind
  <2>2. Keeps
    BY <1>7 DEF Passes
  <2>3. Control'
    BY <1>1, <2>1, <2>2, ControlKept
  <2>4. First /\ Going' => This' = This + 1
    <3>1. This' = Head(Tail(pass.order)) /\ pass'.pc = Next1.pc
      BY <1>7 DEF This, Passes
    <3> QED BY <1>1, <3>1, Advance DEF Going, Next1
  <2> QED BY <2>1, <2>2, <2>3, <2>4 DEF Keeps, First
<1>8. CASE /\ Passes /\ pass'.loaded = pass.loaded + 1 /\ Busy' = Busy \cup {This}
           /\ exiting' = exiting /\ ~(inb = {} /\ (exiting \/ limit < 0))
  <2>1. FirstLoad'
    <3> SUFFICES ASSUME First PROVE FirstLoad'
      BY <1>7, <1>8 DEF FirstLoad
    <3>1. \A i \in Busy : i < This /\ i \in Int
      BY <1>1, <1>4 DEF FirstLoad
    <3>2. \A i \in Busy' : i < This + 1
      BY <1>2, <1>8, <3>1
    <3>3. Calm => pass'.loaded = This + 1
      BY <1>5, <1>8
    <3>4. Cardinality(Busy') <= pass'.loaded
      <4>1. Cardinality(Busy \cup {This}) = Cardinality(Busy) + 1
        BY <1>3, <1>1, FS_AddElement
      <4>2. Cardinality(Busy) <= pass.loaded
        BY <1>1 DEF FirstLoad
      <4> QED BY <1>3, <1>2, <1>8, <4>1, <4>2
    <3>5. pass'.loaded <= This + 1 /\ pass'.loaded <= Planned
      BY <1>1, <1>2, <1>8 DEF FirstLoad
    <3>6. Going' => This' = This + 1
      BY <1>7, <1>8
    <3>a. Calm' = Calm
      BY <1>3, <1>8
    <3>7. Calm' => /\ \A i \in Busy' : i < pass'.loaded
                   /\ Going' => pass'.loaded = This'
      BY <3>a, <3>2, <3>3, <3>6
    <3> QED BY <3>2, <3>4, <3>5, <3>6, <3>7 DEF FirstLoad
  <2>2. Where'
    <3>1. pass.mode = "any" => This < pass.count
      BY <1>1 DEF Path
    <3> QED BY <1>3, <1>1, <1>2, <1>7, <1>8, <3>1 DEF Where, Passes, Keeps, Alone
  <2> QED BY <1>7, <1>8, <2>1, <2>2
<1>9. CASE /\ Passes /\ pass'.loaded = pass.loaded /\ slot' = slot
           /\ \/ /\ exiting' = exiting
                 /\ inb' = inb /\ inb = {} /\ (exiting \/ limit < 0)
              \/ exiting' /\ (First => ~Alone)
  <2>1. Busy' = Busy
    BY <1>9 DEF Busy, IsEmpty
  <2>2. Calm' => Calm
    BY <1>1, <1>9 DEF Calm, Alone
  <2>3. FirstLoad'
    <3> SUFFICES ASSUME First PROVE FirstLoad'
      BY <1>7, <1>9 DEF FirstLoad
    <3>1. Calm' => Halted'
      BY <1>1, <1>9 DEF Halted, Calm, Alone
    <3>2. Going' => This' = This + 1
      BY <1>7, <1>9
    <3>3. /\ pass.loaded <= This /\ Cardinality(Busy) <= pass.loaded /\ pass.loaded <= Planned
          /\ \A i \in Busy : i < This
          /\ Calm => \A i \in Busy : i < pass.loaded
      BY <1>1 DEF FirstLoad
    <3>4. Going' => pass.loaded <= This' /\ \A i \in Busy : i < This'
      BY <1>2, <1>4, <3>2, <3>3
    <3> QED BY <1>9, <2>1, <2>2, <3>1, <3>3, <3>4 DEF FirstLoad
  <2>4. Where'
    BY <1>1, <1>2, <1>7, <1>9, <2>1, <2>2 DEF Where, Passes, Keeps, Alone
  <2> QED BY <1>7, <1>9, <2>3, <2>4
<1> QED
  BY <1>6, <1>8, <1>9, LoadSteps

LEMMA NoneLeft == ASSUME pass.pc = "end" PROVE Left = {}
BY DEF Left, Going

\* The end of a pass, and the begin of another.
LEMMA UnloadEndsKeeps ==
  ASSUME TypeOK, PassInv, UnloadEnds
  PROVE  PassInv'
<1> USE DEF PassInv
<1>1. pass.pc = "end" /\ pass.mode = "unload" /\ prev' = 0 /\ slot' = slot /\ pass'.pc = "none"
  BY NoPassType DEF UnloadEnds
<1>2. main' = "dead" \/ main' = "closed"
  BY DEF UnloadEnds
<1>3. Calm => Busy = {}
  BY <1>1, NoneLeft DEF Where
<1>4. Busy' = Busy /\ Calm' = Calm
  BY <1>1 DEF UnloadEnds, Busy, IsEmpty, Calm, Alone, setup
<1>5. Path' /\ FirstLoad'
  BY <1>1 DEF Path, Going, FirstLoad
<1>6. Control'
  BY <1>1, <1>2 DEF Control
<1>7. Where'
  BY <1>1, <1>2, <1>3, <1>4 DEF Where
<1> QED
  BY <1>5, <1>6, <1>7

LEMMA PassEndsKeeps ==
  ASSUME TypeOK, PassInv, PassEnds
  PROVE  PassInv'
<1> USE DEF PassInv
<1>1. PICK stop \in BOOLEAN : PassReturns(stop) /\ UNCHANGED limit
  BY DEF PassEnds
<1>2. pass \in Locals /\ pass.mode \in Modes /\ Planned \in Nat /\ Planned > 0
  BY LoadSaveAssumption DEF TypeOK, Locals, Modes
<1>3. /\ pass.pc = "end" /\ pass.mode # "unload" /\ prev' = pass.count /\ slot' = slot
      /\ pass'.pc = "none" /\ count' = IF First THEN pass.loaded ELSE count
      /\ main' = CASE ~First -> "loop"
                   [] First /\ ~exiting' /\ count' # 0 -> "start"
                   [] OTHER -> "stop"
  BY <1>1, <1>2, NoPassType DEF PassReturns, First
<1>4. Busy' = Busy /\ Left = {} /\ (Calm' => Calm)
  BY <1>1, <1>3, NoneLeft DEF PassReturns, Busy, IsEmpty, Calm, Alone
<1>5. main # "dead" \/ pass.abort
  BY <1>1 DEF PassReturns, Runs
<1>6. Path' /\ FirstLoad'
  BY <1>3 DEF Path, Going, FirstLoad
<1>7. CASE First
  <2>1. /\ prev' = Planned /\ count' = pass.loaded /\ pass.loaded \in 0 .. Planned
        /\ main' \in {"start", "stop"} /\ (main' = "start" => count' # 0)
    BY <1>2, <1>3, <1>7 DEF Control, FirstLoad, Locals
  <2>2. Calm => \A i \in Busy : i < pass.loaded /\ i \in Int
    BY <1>3, <1>7 DEF FirstLoad, Busy, Slots
  <2>3. Control'
    BY <1>2, <1>3, <2>1 DEF Control
  <2>4. Where'
    BY <1>2, <1>3, <1>4, <2>1, <2>2 DEF Where
  <2> QED BY <1>6, <2>3, <2>4
<1>8. CASE ~First
  <2>1. pass.mode \in {"any", "resize"} /\ ~pass.abort
    BY <1>2, <1>3, <1>8 DEF First, Modes, Control
  <2>2. /\ main = "loop" /\ pass.count = count /\ pass.count > 0
        /\ prev' = count /\ count' = count /\ main' = "loop"
    BY <1>3, <1>5, <1>8, <2>1 DEF Control
  <2>3. Calm => \A i \in Busy : i < count
    BY <1>3, <1>4, <2>1, <2>2 DEF Where, Calm
  <2>4. Control'
    BY <1>3, <2>2 DEF Control, TypeOK
  <2>5. Where'
    BY <1>3, <1>4, <2>2, <2>3 DEF Where
  <2> QED BY <1>6, <2>4, <2>5
<1> QED
  BY <1>7, <1>8

LEMMA InitialLoadKeeps ==
  ASSUME TypeOK, PassInv, InitialLoad
  PROVE  PassInv'
<1> USE DEF PassInv
<1>1. /\ main = "initial" /\ prev = 0 /\ pass.pc = "none"
      /\ Begin("initial", Planned, FALSE)
      /\ UNCHANGED <<slot, limit, inb, prev, main, count, exiting, done>>
  BY DEF InitialLoad, MainRuns, LoopUnchanged, Control, setup, stores
<1>2. /\ Planned = Counted("initial", Planned) /\ Planned \in 1 .. Planned
      /\ Planned \in 0 .. Planned
  BY LoadSaveAssumption DEF Counted
<1>3. /\ pass'.pc = "visit" /\ pass'.mode = "initial" /\ pass'.count = Planned
      /\ pass'.loaded = 0 /\ pass'.abort = FALSE
      /\ Path' /\ Going' /\ This' = 0
  BY <1>1, <1>2, BeginFacts DEF Modes
<1>4. Busy = {}
  BY <1>1 DEF Where
<1>5. Busy' = {} /\ Cardinality(Busy') = 0
  BY <1>1, <1>4, FS_EmptySet DEF Busy, IsEmpty
<1>6. Control'
  BY <1>1, <1>2, <1>3 DEF Control, First
<1>7. FirstLoad' /\ Where'
  BY <1>2, <1>3, <1>5 DEF FirstLoad, Where
<1> QED
  BY <1>3, <1>6, <1>7

\* An unload of all slots that may be busy, by the run loop or by the hard stop.
LEMMA BeginUnload ==
  ASSUME TypeOK, PassInv, NEW n \in 0 .. Planned, NEW abort \in BOOLEAN,
         Begin("unload", n, abort), UNCHANGED <<slot, prev>>, pass.pc = "none",
         prev # 0, n = 0 \/ (Calm => \A i \in Busy : i < n), Calm' => Calm,
         main' \in {"stop", "dead"}, abort => main' = "dead"
  PROVE  PassInv' /\ pass'.pc = "visit"
<1> USE DEF PassInv
<1> DEFINE m == Counted("unload", n)
<1>1. m \in 1 .. Planned /\ m = (IF n = 0 THEN prev ELSE n) /\ prev \in 0 .. Planned
  BY DEF Counted, TypeOK
<1> HIDE DEF m
<1>2. /\ pass'.pc = "visit" /\ pass'.mode = "unload" /\ pass'.count = m
      /\ pass'.abort = abort /\ Path' /\ Left' = 0 .. m - 1
  BY <1>1, BeginFacts DEF Modes, m
<1>3. Busy' = Busy /\ (Calm => \A i \in Busy : i < m /\ i \in Nat)
  BY <1>1 DEF Busy, IsEmpty, Where, Slots
<1>4. Calm' => Busy' \subseteq Left'
  BY <1>1, <1>2, <1>3
<1>5. Control'
  BY <1>1, <1>2 DEF Control, First
<1>6. FirstLoad' /\ Where'
  BY <1>2, <1>4 DEF FirstLoad, Where, First
<1> QED
  BY <1>2, <1>5, <1>6

LEMMA StartCrunchersKeeps ==
  ASSUME TypeOK, PassInv, StartCrunchers
  PROVE  PassInv'
<1> USE DEF PassInv
<1>1. /\ main = "start" /\ pass.pc = "none" /\ prev = Planned /\ prev # 0
      /\ UNCHANGED <<slot, prev, exiting, limit, inb>>
      /\ count \in 1 .. Planned /\ count \in 0 .. Planned /\ Planned \in Nat
  BY Starting, LoadSaveAssumption DEF setup, stores
<1>2. /\ Busy' = Busy /\ Calm' = Calm
      /\ \A i \in Busy : (Calm => i < count) /\ i < Planned /\ i \in 0 .. Planned - 1
  BY <1>1 DEF Busy, IsEmpty, Where, Slots, Calm, Alone
<1>3. CASE pass' = pass /\ count' = count /\ main' = "loop"
  <2>1. Path' /\ FirstLoad'
    BY <1>1, <1>3 DEF Path, Going, FirstLoad
  <2>2. Control'
    BY <1>1, <1>3 DEF Control
  <2>3. Where'
    BY <1>1, <1>2, <1>3 DEF Where
  <2> QED BY <2>1, <2>2, <2>3
<1>4. ASSUME NEW k \in 1 .. Planned, main' = "loop", count' = k, k \in 0 .. Planned, k < prev,
             k < count, k = Counted("resize", k), Begin("resize", k, FALSE)
      PROVE  PassInv'
  <2>1. /\ pass'.pc = "visit" /\ pass'.mode = "resize" /\ pass'.count = k
        /\ pass'.abort = FALSE /\ Path' /\ Left' = k .. prev - 1
    BY <1>1, <1>4, BeginFacts DEF Modes
  <2>2. Calm => \A i \in Busy : i < k \/ i \in Left'
    BY <1>1, <1>2, <1>4, <2>1
  <2>3. Control'
    BY <1>1, <1>4, <2>1 DEF Control, First
  <2>4. FirstLoad' /\ Where'
    BY <1>2, <2>1, <2>2 DEF FirstLoad, Where, First
  <2> QED BY <2>1, <2>3, <2>4
<1>5. CASE main' = "stop" /\ Begin("unload", count, FALSE)
  BY <1>1, <1>2, <1>5, BeginUnload
<1> QED
  BY <1>3, <1>4, <1>5, Starting

LEMMA RefreshKeeps ==
  ASSUME TypeOK, PassInv, Refresh
  PROVE  PassInv'
<1> USE DEF PassInv
<1>1. /\ main = "loop" /\ pass.pc = "none" /\ count > 0 /\ count <= prev
      /\ Begin("any", count, FALSE)
      /\ UNCHANGED <<slot, prev, main, count, limit, exiting>> /\ count \in 0 .. Planned
      /\ ~exiting
  BY DEF Refresh, MainRuns, LoopUnchanged, Control, TypeOK, setup
<1>2. count = Counted("any", count) /\ count \in 1 .. Planned /\ prev # 0
  BY <1>1 DEF Counted, TypeOK
<1>3. /\ pass'.pc = "visit" /\ pass'.mode = "any" /\ pass'.count = count
      /\ pass'.abort = FALSE /\ Path'
  BY <1>1, <1>2, BeginFacts DEF Modes
<1>4. Busy' = Busy /\ (Alone \/ limit > 0 => \A i \in Busy : i < count)
  BY <1>1 DEF Busy, IsEmpty, Where, Calm
<1>5. Control'
  BY <1>1, <1>3 DEF Control, First
<1>6. FirstLoad' /\ Where'
  BY <1>1, <1>3, <1>4 DEF FirstLoad, Where, First, Alone
<1> QED
  BY <1>3, <1>5, <1>6

LEMMA HardStopKeeps ==
  ASSUME TypeOK, PassInv, HardStop
  PROVE  PassInv'
<1> USE DEF PassInv
<1>1. /\ main' = "dead" /\ exiting' = TRUE /\ main \notin {"dead", "closed"}
      /\ UNCHANGED <<slot, limit, inb, prev, count>>
  BY DEF HardStop, setup, stores
<1>2. Busy' = Busy /\ (Calm' => Calm)
  BY <1>1 DEF Busy, IsEmpty, Calm, Alone
<1>3. CASE pass.pc # "none"
  <2>1. pass' = pass
    BY <1>3 DEF HardStop
  <2>2. UNCHANGED <<This, Left, Lowest, First, Going>>
    BY <2>1 DEF This, Left, Lowest, First, Going
  <2>3. Path'
    BY <2>1, <2>2 DEF Path
  <2>4. Control'
    BY <1>1, <1>3, <2>1, <2>2 DEF Control, LimitReached, IsEmpty
  <2>5. FirstLoad'
    BY <1>1, <1>2, <2>1, <2>2 DEF FirstLoad, Halted
  <2>6. Where'
    BY <1>1, <1>2, <1>3, <2>1, <2>2 DEF Where, Alone
  <2> QED BY <2>3, <2>4, <2>5, <2>6
<1>4. CASE pass.pc = "none" /\ prev = 0
  <2>1. Begin("unload", 0, TRUE) /\ Counted("unload", 0) = 0
    BY <1>4 DEF HardStop, Counted
  <2>2. pass'.pc = "none"
    BY <2>1 DEF Begin, NoPass
  <2>3. Calm => Busy = {}
    BY <1>4 DEF Where, Busy, Slots
  <2>4. Path' /\ FirstLoad'
    BY <2>2 DEF Path, Going, FirstLoad
  <2>5. Control'
    BY <1>1, <2>2 DEF Control
  <2>6. Where'
    BY <1>1, <1>2, <2>2, <2>3 DEF Where
  <2> QED BY <2>4, <2>5, <2>6
<1>5. CASE pass.pc = "none" /\ prev # 0
  <2>1. Begin("unload", 0, TRUE)
    BY <1>5 DEF HardStop
  <2>2. 0 \in 0 .. Planned
    BY LoadSaveAssumption
  <2> QED BY <1>1, <1>2, <1>5, <2>1, <2>2, BeginUnload
<1> QED
  BY <1>3, <1>4, <1>5 DEF TypeOK

LEMMA UnloadAllKeeps ==
  ASSUME TypeOK, PassInv, UnloadAll
  PROVE  PassInv'
<1> USE DEF PassInv
<1>1. /\ main = "stop" /\ pass.pc = "none" /\ prev > 0 /\ Begin("unload", count, FALSE)
      /\ UNCHANGED <<slot, prev, count, limit, exiting>> /\ count \in 0 .. Planned
  BY DEF UnloadAll, MainRuns, LoopUnchanged, Control, TypeOK, setup
<1>2. Counted("unload", count) # 0
  BY <1>1 DEF Counted
<1>3. pass'.pc = "visit"
  BY <1>1, <1>2 DEF Begin, NoPass
<1>4. main' = "stop"
  BY <1>1, <1>3 DEF UnloadAll
<1>5. count = 0 \/ (Calm => \A i \in Busy : i < count)
  BY <1>1 DEF Where
<1>6. prev # 0 /\ (Calm' => Calm)
  BY <1>1 DEF Calm, Alone
<1> QED
  BY <1>1, <1>4, <1>5, <1>6, BeginUnload

\* A core ends with its packet: the slot stays busy with it.
LEMMA EndsFacts ==
  ASSUME TypeOK, NEW i \in Slots, Finish(i)
  PROVE  /\ Busy' = Busy /\ \A j \in Busy : slot'[j].packet = slot[j].packet
         /\ UNCHANGED <<setup, stores, done, prev, abortive, pass, main, count, requests, exiting>>
<1>1. slot' = [slot EXCEPT ![i].state = "done"] /\ slot[i].state = "work"
  BY DEF Finish
<1>2. slot[i] \in [packet : All, state : {"work", "done"}]
  BY <1>1 DEF TypeOK, Empty
<1>3. /\ slot'[i] = [packet |-> slot[i].packet, state |-> "done"]
      /\ \A j \in Slots \ {i} : slot'[j] = slot[j]
  BY <1>1, <1>2 DEF TypeOK
<1>4. /\ slot'[i].packet = slot[i].packet /\ slot'[i].state = "done"
      /\ slot'[i] # Empty /\ slot[i] # Empty
  BY <1>1, <1>3 DEF Empty
<1>5. Busy' = Busy
  BY <1>3, <1>4 DEF Busy, IsEmpty
<1>6. \A j \in Busy : slot'[j].packet = slot[j].packet
  BY <1>3, <1>4 DEF Busy
<1>7. UNCHANGED <<setup, stores, done, prev, abortive, pass, main, count, requests, exiting>>
  BY DEF Finish
<1> QED
  BY <1>5, <1>6, <1>7

\* Steps that leave the slots, the pass and the run loop where they are.
LEMMA PassLeftAlone ==
  ASSUME TypeOK, PassInv, Busy' = Busy, UNCHANGED <<limit, pass, prev, main, count>>,
         exiting => exiting', inb' = inb \/ pass.pc = "none" \/ ~Alone
  PROVE  PassInv'
<1> USE DEF PassInv
<1>1. UNCHANGED <<This, Left, Lowest, First, Going>>
  BY DEF This, Left, Lowest, First, Going
<1>2. Path'
  BY <1>1 DEF Path
<1>3. Control'
  <2>1. pass.pc = "load" => IsEmpty(This)'
    <3> SUFFICES ASSUME pass.pc = "load" PROVE IsEmpty(This)'
      OBVIOUS
    <3>1. This \in Slots /\ IsEmpty(This)
      BY DEF Path, Going, Control
    <3> QED BY <1>1, <3>1 DEF Busy
  <2> QED BY <1>1, <2>1 DEF Control, LimitReached
<1>4. Calm' => Calm
  BY DEF Calm, Alone
<1>5. FirstLoad'
  <2>1. CASE inb' = inb \/ pass.pc = "none"
    BY <1>1, <1>4, <2>1 DEF FirstLoad, Halted
  <2>2. CASE ~Alone
    <3>1. Calm' /\ Halted => Halted'
      <4>1. limit \in Int
        BY LoadSaveAssumption DEF TypeOK
      <4> QED BY <2>2, <4>1 DEF Calm, Alone, Halted
    <3> QED BY <1>1, <1>4, <3>1 DEF FirstLoad
  <2> QED BY <2>1, <2>2
<1>6. Where'
  BY <1>1, <1>4 DEF Where, Alone
<1> QED
  BY <1>2, <1>3, <1>5, <1>6

LEMMA PassStep ==
  ASSUME TypeOK, PassInv, [Next]_vars
  PROVE  PassInv'
<1> USE DEF setup, stores
<1>1. CASE Visit
  BY <1>1, VisitKeeps
<1>2. CASE Load
  BY <1>2, LoadKeeps
<1>3. CASE UnloadEnds \/ PassEnds
  BY <1>3, UnloadEndsKeeps, PassEndsKeeps
<1>4. CASE RunLoop
  <2>1. CASE LeaveLoop
    <3>1. /\ UNCHANGED <<limit, inb, slot, pass, prev, count>> /\ main = "loop" /\ main' = "stop"
          /\ pass.pc = "none" /\ Busy' = Busy /\ Calm' = Calm
      BY <2>1 DEF LeaveLoop, MainRuns, LoopUnchanged, Busy, IsEmpty, Calm, Alone
    <3>2. Path' /\ FirstLoad'
      BY <3>1 DEF PassInv, Path, Going, FirstLoad
    <3>3. Control'
      BY <3>1 DEF PassInv, Control, TypeOK
    <3>4. Where'
      BY <3>1 DEF PassInv, Where
    <3> QED BY <3>2, <3>3, <3>4 DEF PassInv
  <2> QED BY <1>4, <2>1, InitialLoadKeeps, StartCrunchersKeeps, RefreshKeeps, UnloadAllKeeps
          DEF RunLoop
<1>5. CASE ServeRequests
  <2>1. Busy' = Busy
    BY <1>5 DEF ServeRequests, Busy, IsEmpty
  <2> QED BY <1>5, <2>1, PassLeftAlone DEF ServeRequests, MainRuns
<1>6. CASE Share
  <2>1. Busy' = Busy
    BY <1>6 DEF Share, Busy, IsEmpty
  <2> QED BY <1>6, <2>1, PassLeftAlone DEF Share, Alone
<1>7. CASE RaiseExit
  <2>1. Busy' = Busy
    BY <1>7 DEF RaiseExit, Busy, IsEmpty
  <2> QED BY <1>7, <2>1, PassLeftAlone DEF RaiseExit
<1>8. CASE HardStop
  BY <1>8, HardStopKeeps
<1>9. ASSUME NEW i \in Slots, Finish(i) PROVE PassInv'
  BY <1>9, EndsFacts, PassLeftAlone
<1>10. CASE UNCHANGED vars
  <2>1. Busy' = Busy
    BY <1>10 DEF vars, Busy, IsEmpty
  <2> QED BY <1>10, <2>1, PassLeftAlone DEF vars
<1> QED
  BY <1>1, <1>2, <1>3, <1>4, <1>5, <1>6, <1>7, <1>8, <1>9, <1>10 DEF Next, Pass, Outside

LEMMA InitInv == Init => TypeOK /\ PassInv
<1> SUFFICES ASSUME Init PROVE TypeOK /\ PassInv
  OBVIOUS
<1> USE LoadSaveAssumption
<1>1. slot = [i \in Slots |-> Empty] /\ pass \in Locals /\ pass.pc = "none" /\ prev = 0
      /\ main = "initial"
  BY NoPassType DEF Init
<1>2. Busy = {}
  BY <1>1 DEF Busy, IsEmpty
<1>3. TypeOK
  <2>1. inb \subseteq All /\ others \subseteq Packets
    BY DEF Init, All
  <2>2. slot \in [Slots -> {Empty} \cup [packet : All, state : {"work", "done"}]]
    BY <1>1
  <2>3. count \in 0 .. Planned /\ prev \in 0 .. Planned /\ faults \in 0 .. MaxFaults
    BY DEF Init
  <2>4. exiting \in BOOLEAN /\ abortive \in BOOLEAN /\ memory \in BOOLEAN /\ done \in Nat
        /\ limit \in Limits \cup {-1} /\ requests = {} /\ outb = {} /\ sent = {} /\ gone = {}
    BY DEF Init
  <2> QED BY <1>1, <2>1, <2>2, <2>3, <2>4 DEF TypeOK
<1>4. Path /\ FirstLoad
  BY <1>1 DEF Path, Going, FirstLoad
<1>5. Control
  BY <1>1 DEF Control
<1>6. Where
  BY <1>1, <1>2 DEF Where
<1> QED
  BY <1>3, <1>4, <1>5, <1>6 DEF PassInv

\* Types, with the slots that a pass visits and those that may be busy.
THEOREM LoadSaveTypeCorrect == Spec => [](TypeOK /\ PassInv)
<1>1. TypeOK /\ PassInv /\ [Next]_vars => (TypeOK /\ PassInv)'
  BY TypeStep, PassStep DEF PassInv
<1> QED
  BY <1>1, InitInv, PTL DEF Spec

\* The hard stop leaves nothing in a slot, wherever it finds the run loop, unless a
\* pass was going on (LoadSaveProblems with no client and a count of 0).
THEOREM HardStopIsClean ==
  ASSUME ~Disturbed
  PROVE  Spec => []HardStopSaves
<1>1. PassInv => HardStopSaves
  BY DEF PassInv, Where, HardStopSaves, Calm, Alone
<1> QED
  BY <1>1, LoadSaveTypeCorrect, PTL

-----------------------------------------------------------------------------
(* Each packet is in one place. *)

\* Steps that move no packet.
LEMMA PlacesLeftAlone ==
  ASSUME Places, UNCHANGED stores, Busy' = Busy, \A i \in Busy : slot'[i].packet = slot[i].packet
  PROVE  Places'
BY DEF Places, stores

\* The packet of a slot that is cleared goes to one of three places.
LEMMA PlacesSaved ==
  ASSUME Places, NEW t \in Busy, Busy' = Busy \ {t}, \A i \in Busy' : slot'[i] = slot[i],
         UNCHANGED <<others, sent>>,
         \/ inb' = inb \cup {slot[t].packet} /\ UNCHANGED <<outb, gone>>
         \/ outb' = outb \cup {slot[t].packet} /\ UNCHANGED <<inb, gone>>
         \/ gone' = gone \cup {slot[t].packet} /\ UNCHANGED <<inb, outb>>
  PROVE  Places'
<1> DEFINE p == slot[t].packet
<1>1. p \notin inb \cup outb \cup others \cup sent \cup gone
  BY DEF Places
<1>2. \A i \in Busy' : slot'[i].packet = slot[i].packet /\ slot[i].packet # p
  BY DEF Places
<1>3. \A q \in Packets : \/ q \in inb \cup outb \cup others \cup sent \cup gone \cup {p}
                         \/ \E i \in Busy' : slot'[i].packet = q
  BY DEF Places
<1> QED
  BY <1>1, <1>2, <1>3 DEF Places

\* A packet p taken from the in-buffer, or fetched, or made, goes to a slot or is lost.
LEMMA PlacesLoaded ==
  ASSUME Places, NEW p, NEW t, t \notin Busy, NEW from, from \subseteq inb \cup others,
         p \in from \/ p \notin Packets \cup inb \cup outb \cup others \cup sent \cup gone,
         \A i \in Busy : slot[i].packet # p,
         inb' \cap others' = {}, inb' \cup others' = (inb \cup others) \ {p}, Sending,
         \/ gone' = gone \cup {p} /\ UNCHANGED slot /\ Busy' = Busy
         \/ /\ gone' = gone /\ Busy' = Busy \cup {t} /\ slot'[t].packet = p
            /\ \A i \in Busy : slot'[i] = slot[i]
  PROVE  Places'
<1>1. p \notin outb \cup sent \cup gone
  BY DEF Places
<1>a. outb' \cup sent' = outb \cup sent /\ outb' \cap sent' = {}
  BY DEF Places, Sending
<1>2. CASE gone' = gone \cup {p} /\ UNCHANGED slot /\ Busy' = Busy
  <2>1. /\ inb' \cap outb' = {} /\ inb' \cap sent' = {} /\ inb' \cap gone' = {}
        /\ others' \cap outb' = {} /\ others' \cap sent' = {} /\ others' \cap gone' = {}
        /\ outb' \cap gone' = {} /\ sent' \cap gone' = {} /\ outb' \cap sent' = {}
    BY <1>1, <1>a, <1>2 DEF Places
  <2>2. \A i \in Busy' : slot'[i].packet \notin inb' \cup outb' \cup others' \cup sent' \cup gone'
    BY <1>a, <1>2 DEF Places
  <2>3. \A i, j \in Busy' : slot'[i].packet = slot'[j].packet => i = j
    BY <1>a, <1>2 DEF Places
  <2>4. \A q \in Packets : \/ q \in inb' \cup outb' \cup others' \cup sent' \cup gone'
                           \/ \E i \in Busy' : slot'[i].packet = q
    BY <1>a, <1>2 DEF Places
  <2> QED BY <2>1, <2>2, <2>3, <2>4 DEF Places
<1>3. CASE /\ gone' = gone /\ Busy' = Busy \cup {t} /\ slot'[t].packet = p
           /\ \A i \in Busy : slot'[i] = slot[i]
  <2>1. /\ inb' \cap outb' = {} /\ inb' \cap sent' = {} /\ inb' \cap gone' = {}
        /\ others' \cap outb' = {} /\ others' \cap sent' = {} /\ others' \cap gone' = {}
        /\ outb' \cap gone' = {} /\ sent' \cap gone' = {} /\ outb' \cap sent' = {}
    BY <1>1, <1>a, <1>3 DEF Places
  <2>2. \A i \in Busy' : slot'[i].packet \notin inb' \cup outb' \cup others' \cup sent' \cup gone'
    <3>1. \A i \in Busy : slot'[i].packet \notin inb \cup outb \cup others \cup sent \cup gone
      BY <1>3 DEF Places
    <3>2. slot'[t].packet \notin inb' \cup outb' \cup others' \cup sent' \cup gone'
      BY <1>1, <1>a, <1>3
    <3> QED BY <1>a, <1>3, <3>1, <3>2
  <2>3. \A i, j \in Busy' : slot'[i].packet = slot'[j].packet => i = j
    BY <1>3 DEF Places
  <2>4. \A q \in Packets : \/ q \in inb' \cup outb' \cup others' \cup sent' \cup gone'
                           \/ \E i \in Busy' : slot'[i].packet = q
    <3>1. ASSUME NEW q \in Packets, NEW i \in Busy, slot[i].packet = q
          PROVE  \E j \in Busy' : slot'[j].packet = q
      BY <1>3, <3>1
    <3>2. \E j \in Busy' : slot'[j].packet = p
      BY <1>3
    <3>3. ASSUME NEW q \in Packets, q \in inb \cup outb \cup others \cup sent \cup gone, q # p
          PROVE  q \in inb' \cup outb' \cup others' \cup sent' \cup gone'
      BY <1>a, <1>3, <3>3
    <3> QED BY <3>1, <3>2, <3>3 DEF Places
  <2> QED BY <2>1, <2>2, <2>3, <2>4 DEF Places
<1> QED
  BY <1>2, <1>3

LEMMA PlacesStep ==
  ASSUME TypeOK, PassInv, Places, [Next]_vars
  PROVE  Places'
<1> USE DEF setup
<1>1. CASE Visit
  <2>1. This \in Slots /\ (This \in Busy <=> ~IsEmpty(This))
    BY <1>1, VisitFacts DEF PassInv, Busy
  <2>2. CASE VisitNothing
    <3>1. Busy' = Busy
      BY <2>2 DEF VisitNothing, Busy, IsEmpty
    <3> QED BY <2>2, <3>1, PlacesLeftAlone DEF VisitNothing
  <2>3. CASE VisitSaves
    <3>1. This \in Busy
      BY <2>1, <2>3 DEF VisitSaves, Due, IsEmpty, Empty
    <3>2. Busy' = Busy \ {This} /\ \A i \in Busy' : slot'[i] = slot[i]
      BY <2>1, <2>3, ClearFacts DEF VisitSaves
    <3>3. \/ inb' = inb \cup {slot[This].packet} /\ UNCHANGED <<outb, gone>>
          \/ outb' = outb \cup {slot[This].packet} /\ UNCHANGED <<inb, gone>>
      BY <2>3 DEF VisitSaves, Finito
    <3>4. UNCHANGED <<others, sent>>
      BY <2>3 DEF VisitSaves, Finito
    <3> QED BY <3>1, <3>2, <3>3, <3>4, PlacesSaved
  <2>4. CASE VisitDiscards
    <3>1. This \in Busy
      BY <2>1, <2>4 DEF VisitDiscards, Due, IsEmpty, Empty
    <3>2. Busy' = Busy \ {This} /\ \A i \in Busy' : slot'[i] = slot[i]
      BY <2>1, <2>4, ClearFacts DEF VisitDiscards
    <3>3. gone' = gone \cup {slot[This].packet} /\ UNCHANGED <<inb, outb, others, sent>>
      BY <2>4 DEF VisitDiscards
    <3> QED BY <3>1, <3>2, <3>3, PlacesSaved
  <2> QED BY <1>1, <2>2, <2>3, <2>4 DEF Visit
<1>2. CASE Load
  <2>1. pass.pc = "load" /\ This \in Slots /\ This \notin Busy
    BY <1>2, LoadSteps DEF PassInv
  <2>2. CASE LoadPacket \/ LoadFetched \/ LoadRandom
    <3>1. Sending
      BY <2>2, LoadingSteps
    <3>2. PICK p \in All, got \in SUBSET others, n \in Sizes,
               pending \in SUBSET {"fetch", "flush"} :
            /\ LoadState(p, n, pending)
            /\ others' = others \ got /\ inb' = (inb \cup got) \ {p}
            /\ \/ p \in inb \cup got
               \/ /\ p \in Randoms /\ \A i \in Slots : slot[i].packet # p
                  /\ p \notin inb \cup outb \cup others \cup sent \cup gone
      BY <2>2, LoadingSteps
    <3>3. \/ gone' = gone \cup {p} /\ UNCHANGED slot /\ Busy' = Busy
          \/ /\ gone' = gone /\ Busy' = Busy \cup {This} /\ slot'[This].packet = p
             /\ \A i \in Busy : slot'[i] = slot[i]
      <4>1. Busy \subseteq Slots \ {This} /\ (UNCHANGED slot => Busy' = Busy)
        BY <2>1 DEF Busy, IsEmpty
      <4> QED BY <2>1, <3>2, <4>1, LoadFacts DEF PassInv
    <3>4. \A i \in Busy : slot[i].packet # p
      BY <3>2 DEF Places, Busy
    <3>5. inb' \cap others' = {} /\ inb' \cup others' = (inb \cup others) \ {p}
      BY <3>2 DEF Places
    <3>6. /\ inb \cup got \subseteq inb \cup others
          /\ p \in inb \cup got \/ p \notin Packets \cup inb \cup outb \cup others \cup sent \cup gone
      BY <3>2, LoadSaveAssumption
    <3> QED BY <2>1, <3>1, <3>3, <3>4, <3>5, <3>6, PlacesLoaded
  <2>3. CASE LoadStopped
    <3>1. Busy' = Busy /\ slot' = slot /\ gone' = gone /\ inb = {}
      BY <2>3 DEF LoadStopped, Updates, Busy, IsEmpty
    <3>2. PICK got \in SUBSET others, flushed \in {FALSE, outb # {}} :
            BufferUpdate(got, flushed) /\ inb' = got
      BY <2>3 DEF LoadStopped
    <3>3. /\ inb' \cap others' = {} /\ inb' \cup others' = inb \cup others
          /\ outb' \cap sent' = {} /\ outb' \cup sent' = outb \cup sent
      BY <3>1, <3>2 DEF BufferUpdate, Places
    <3> QED BY <3>1, <3>3 DEF Places
  <2>4. CASE LoadNone
    <3>1. Busy' = Busy
      BY <2>4 DEF LoadNone, Busy, IsEmpty
    <3> QED BY <2>4, <3>1, PlacesLeftAlone DEF LoadNone
  <2> QED BY <1>2, <2>2, <2>3, <2>4 DEF Load
<1>3. CASE UnloadEnds
  <2>1. Busy' = Busy /\ slot' = slot /\ others' = others
    BY <1>3 DEF UnloadEnds, Busy, IsEmpty
  <2>2. PICK flushed \in BOOLEAN :
          /\ flushed => memory
          /\ outb' = IF memory THEN {} ELSE outb
          /\ inb' = IF memory THEN {} ELSE inb
          /\ sent' = IF flushed THEN sent \cup outb ELSE sent
          /\ gone' = CASE ~memory -> gone
                       [] memory /\ flushed -> gone \cup inb
                       [] OTHER -> gone \cup inb \cup outb
    BY <1>3 DEF UnloadEnds
  <2>3. CASE ~memory
    <3>1. UNCHANGED stores
      BY <2>1, <2>2, <2>3 DEF stores
    <3> QED BY <2>1, <3>1, PlacesLeftAlone
  <2>4. CASE memory /\ flushed
    <3>1. inb' = {} /\ outb' = {} /\ sent' = sent \cup outb /\ gone' = gone \cup inb
      BY <2>2, <2>4
    <3> QED BY <2>1, <3>1 DEF Places
  <2>5. CASE memory /\ ~flushed
    <3>1. inb' = {} /\ outb' = {} /\ sent' = sent /\ gone' = gone \cup inb \cup outb
      BY <2>2, <2>5
    <3> QED BY <2>1, <3>1 DEF Places
  <2> QED BY <2>3, <2>4, <2>5
<1>4. CASE ServeRequests
  <2>1. Busy' = Busy /\ slot' = slot /\ gone' = gone
    BY <1>4 DEF ServeRequests, Busy, IsEmpty
  <2>2. PICK got \in SUBSET others : others' = others \ got /\ inb' = inb \cup got
    BY <1>4 DEF ServeRequests
  <2>3. (outb' = {} /\ sent' = sent \cup outb) \/ UNCHANGED <<outb, sent>>
    BY <1>4 DEF ServeRequests
  <2>4. CASE outb' = {} /\ sent' = sent \cup outb
    BY <2>1, <2>2, <2>4 DEF Places
  <2>5. CASE UNCHANGED <<outb, sent>>
    BY <2>1, <2>2, <2>5 DEF Places
  <2> QED BY <2>3, <2>4, <2>5
<1>5. CASE Share
  <2>1. Busy' = Busy /\ UNCHANGED <<slot, outb, sent, gone>>
    BY <1>5 DEF Share, Busy, IsEmpty
  <2>2. PICK p \in Packets :
          \/ p \in others /\ inb' = inb \cup {p} /\ others' = others \ {p}
          \/ p \in inb /\ inb' = inb \ {p} /\ others' = others \cup {p}
    BY <1>5 DEF Share
  <2>3. CASE p \in others /\ inb' = inb \cup {p} /\ others' = others \ {p}
    BY <2>1, <2>3 DEF Places
  <2>4. CASE p \in inb /\ inb' = inb \ {p} /\ others' = others \cup {p}
    BY <2>1, <2>4 DEF Places
  <2> QED BY <2>2, <2>3, <2>4
<1>6. CASE PassEnds \/ RunLoop \/ RaiseExit \/ HardStop \/ UNCHANGED vars
  <2>1. UNCHANGED <<slot, stores>>
    BY <1>6 DEF PassEnds, PassReturns, RunLoop, InitialLoad, StartCrunchers, Refresh, LeaveLoop,
                UnloadAll, LoopUnchanged, RaiseExit, HardStop, vars
  <2>2. Busy' = Busy
    BY <2>1 DEF Busy, IsEmpty
  <2> QED BY <2>1, <2>2, PlacesLeftAlone
<1>7. ASSUME NEW i \in Slots, Finish(i) PROVE Places'
  BY <1>7, EndsFacts, PlacesLeftAlone
<1> QED
  BY <1>1, <1>2, <1>3, <1>4, <1>5, <1>6, <1>7 DEF Next, Pass, Outside

LEMMA PlacesInv == Spec => []Places
<1>1. Init => Places
  <2> SUFFICES ASSUME Init PROVE Places
    OBVIOUS
  <2>1. Busy = {}
    BY DEF Init, Busy, IsEmpty
  <2>2. /\ inb \subseteq Packets /\ others = Packets \ inb
        /\ outb = {} /\ sent = {} /\ gone = {}
    BY DEF Init
  <2> QED BY <2>1, <2>2 DEF Places
<1>2. TypeOK /\ PassInv /\ Places /\ [Next]_vars => Places'
  BY PlacesStep
<1> QED
  BY <1>1, <1>2, LoadSaveTypeCorrect, PTL DEF Spec

\* A packet is in one place, and the slots are empty when the client has stopped.
THEOREM PacketsInOnePlace ==
  ASSUME ~Disturbed
  PROVE  Spec => []Conserved
<1>1. PassInv /\ Places => Conserved
  <2> SUFFICES ASSUME PassInv, Places PROVE Conserved
    OBVIOUS
  <2> DEFINE held == [i \in Slots |-> slot[i].packet]
             places == <<inb, outb, others, sent, gone>>
  <2>1. \A a \in 1 .. 5 : a = 1 \/ a = 2 \/ a = 3 \/ a = 4 \/ a = 5
    OBVIOUS
  <2>2. /\ places[1] = inb /\ places[2] = outb /\ places[3] = others /\ places[4] = sent
        /\ places[5] = gone
    OBVIOUS
  <2>3. \A i \in Busy : held[i] = slot[i].packet
    BY DEF Busy
  <2> HIDE DEF held, places
  <2>4. \A a, b \in 1 .. 5 : a # b => places[a] \cap places[b] = {}
    <3> SUFFICES ASSUME NEW a \in 1 .. 5, NEW b \in 1 .. 5, a # b
                 PROVE  places[a] \cap places[b] = {}
      OBVIOUS
    <3> QED BY <2>1, <2>2 DEF Places
  <2>5. \A i \in Busy : \A a \in 1 .. 5 : held[i] \notin places[a]
    BY <2>1, <2>2, <2>3 DEF Places
  <2>6. \A i \in Busy : \A j \in Busy : held[i] = held[j] => i = j
    BY <2>3 DEF Places
  <2>7. Packets \subseteq inb \cup outb \cup others \cup sent \cup gone \cup {held[i] : i \in Busy}
    BY <2>3 DEF Places
  <2>8. main = "closed" => Busy = {}
    BY DEF PassInv, Where, Control, Calm, Alone
  <2> QED BY <2>4, <2>5, <2>6, <2>7, <2>8 DEF Conserved, held, places
<1> QED
  BY <1>1, LoadSaveTypeCorrect, PlacesInv, PTL

-----------------------------------------------------------------------------
(* What the counters of a pass count, and the limit. *)

\* The first pass and the later ones come to slots of the new number of them.
LEMMA ThisCounted ==
  ASSUME TypeOK, PassInv, Going, pass.mode \in {"initial", "any"}
  PROVE  This \in 0 .. pass.count - 1
<1>1. This \in 0 .. Planned - 1 /\ pass.count \in 0 .. Planned /\ Planned \in Nat
  BY LoadSaveAssumption DEF PassInv, Path, Slots, TypeOK, Locals
<1>2. CASE pass.mode = "initial"
  <2>1. pass.count = Planned
    BY <1>2 DEF PassInv, Control, First, Going
  <2> QED BY <1>1, <2>1
<1>3. CASE pass.mode = "any"
  <2>1. This < pass.count
    BY <1>3 DEF PassInv, Path
  <2> QED BY <1>1, <2>1
<1> QED
  BY <1>2, <1>3

\* The slot that a visit makes up its mind about is seen from then on.
LEMMA VisitSeen ==
  ASSUME TypeOK, PassInv, Visit, pass.mode \in {"initial", "any"}
  PROVE  Seen' = Seen \cup {This} /\ This \notin Seen
<1>1. /\ pass.pc = "visit" /\ This \in Left /\ pass'.count = pass.count /\ pass'.mode = pass.mode
      /\ (pass'.pc = "load" /\ pass'.order = pass.order) \/ Passes
  BY VisitFacts DEF PassInv, Keeps
<1>2. This \in 0 .. pass.count - 1
  BY <1>1, ThisCounted DEF Going
<1>3. CASE pass'.pc = "load" /\ pass'.order = pass.order
  <2>1. This' = This /\ Left' = Left
    BY <1>1, <1>3 DEF This, Left, Going, First, Lowest
  <2> QED BY <1>1, <1>2, <1>3, <2>1 DEF Seen
<1>4. CASE Passes
  <2>1. Left' = Left \ {This} /\ pass'.pc # "load"
    BY <1>1, <1>4, LeftBehind DEF PassInv, Going
  <2> QED BY <1>1, <1>2, <2>1 DEF Seen
<1> QED
  BY <1>1, <1>3, <1>4

LEMMA LoadSeen ==
  ASSUME TypeOK, PassInv, Load
  PROVE  Seen' = Seen /\ This \in Seen \ Busy
<1>1. /\ pass.pc = "load" /\ Going /\ This \in Left /\ This \notin Busy
      /\ Stays \/ Passes
  BY LoadSteps DEF PassInv
<1>2. This \in 0 .. pass.count - 1
  BY <1>1, ThisCounted DEF PassInv, Control
<1>3. This \in Seen \ Busy
  BY <1>1, <1>2 DEF Seen
<1>4. CASE Stays
  BY <1>3, <1>4, StaysThere DEF Seen, Stays, Keeps
<1>5. CASE Passes
  <2>1. Left' = Left \ {This} /\ pass'.pc # "load" /\ pass'.count = pass.count
    BY <1>1, <1>5, LeftBehind DEF PassInv, Passes, Keeps
  <2> QED BY <1>1, <1>3, <2>1 DEF Seen
<1> QED
  BY <1>1, <1>4, <1>5

\* A saved packet is counted by the pass, and by the summary unless it is a test packet.
LEMMA DoneFacts ==
  ASSUME TypeOK, PassInv, Visit
  PROVE  /\ done' \in Nat /\ done <= done' /\ done' - done <= pass'.total - pass.total
         /\ done' # done => This \in Busy /\ Busy' = Busy \ {This} /\ done' = done + 1
<1>1. /\ pass.pc = "visit" /\ This \in Slots /\ pass.total \in Nat /\ done \in Nat
  BY VisitFacts DEF PassInv, TypeOK, Locals
<1>2. CASE VisitNothing \/ VisitDiscards
  <2>1. done' = done
    BY <1>2 DEF VisitNothing, VisitDiscards, stores
  <2>2. PICK saved \in {0, 1} : pass'.total = pass.total + saved
    BY VisitFacts DEF PassInv
  <2> QED BY <1>1, <2>1, <2>2
<1>3. CASE VisitSaves
  <2>1. Leave(1, TRUE) /\ Clear /\ Due /\ done' \in {done, done + 1}
    BY <1>3 DEF VisitSaves
  <2>2. pass'.total = pass.total + 1
    BY <1>1, <2>1, LeaveFacts DEF PassInv
  <2>3. Busy' = Busy \ {This} /\ This \in Busy
    BY <1>1, <2>1, ClearFacts DEF Due, Busy, IsEmpty, Empty
  <2> QED BY <1>1, <2>1, <2>2, <2>3
<1> QED
  BY <1>2, <1>3 DEF Visit

LEMMA CountsVisit ==
  ASSUME TypeOK, PassInv, Counts, Visit
  PROVE  Counts'
<1>1. pass.pc = "visit" /\ pass'.mode = pass.mode
  BY VisitFacts DEF PassInv, Keeps
<1>2. pass'.total >= done'
  <2>1. /\ pass.total \in Nat /\ done \in Nat /\ pass.total >= done /\ pass'.total \in Nat
        /\ done' \in Nat /\ done' - done <= pass'.total - pass.total
    BY <1>1, DoneFacts, VisitFacts DEF PassInv, Counts, TypeOK, Locals
  <2> QED BY <2>1
<1>3. ASSUME pass.mode \in {"initial", "any"}
      PROVE  pass'.empty = Cardinality(Seen \ Busy)'
  <2>1. PICK empty \in BOOLEAN :
          /\ pass'.empty = pass.empty + (IF empty THEN 1 ELSE 0)
          /\ Busy' = (IF empty THEN Busy \ {This} ELSE Busy) /\ (empty \/ This \in Busy)
    BY VisitFacts DEF PassInv
  <2>2. pass.empty = Cardinality(Seen \ Busy)
    BY <1>1, <1>3 DEF Counts
  <2>3. Seen' = Seen \cup {This} /\ This \notin Seen
    BY <1>3, VisitSeen
  <2>4. IsFiniteSet(Seen \ Busy) /\ Cardinality(Seen \ Busy) \in Nat
    BY Finite
  <2>5. CASE empty
    <3>1. (Seen \ Busy)' = (Seen \ Busy) \cup {This}
      BY <2>1, <2>3, <2>5
    <3>2. Cardinality((Seen \ Busy) \cup {This}) = Cardinality(Seen \ Busy) + 1
      BY <2>3, <2>4, FS_AddElement
    <3> QED BY <2>1, <2>2, <2>5, <3>1, <3>2
  <2>6. CASE ~empty
    <3>1. (Seen \ Busy)' = Seen \ Busy
      BY <2>1, <2>3, <2>6
    <3>2. pass'.empty = pass.empty + 0
      BY <2>1, <2>6
    <3> QED BY <2>2, <2>4, <3>1, <3>2
  <2> QED BY <2>5, <2>6
<1> QED
  BY <1>1, <1>2, <1>3 DEF Counts

LEMMA CountsLoad ==
  ASSUME TypeOK, PassInv, Counts, Load
  PROVE  Counts'
<1>1. /\ pass.pc = "load" /\ pass.mode \in {"initial", "any"} /\ done' = done
      /\ pass.empty = Cardinality(Seen \ Busy) /\ pass.total >= done
  BY LoadSteps DEF PassInv, Control, Counts
<1>2. Seen' = Seen /\ This \in Seen \ Busy
  BY LoadSeen
<1>3. IsFiniteSet(Seen \ Busy) /\ Cardinality(Seen \ Busy) \in Nat
  BY Finite
<1>4. pass'.total = pass.total /\ pass'.pc # "none"
  <2>1. CASE Stays
    BY <1>1, <2>1 DEF Stays
  <2>2. CASE Passes
    BY <1>1, <2>2, LeftBehind, LoadSteps DEF PassInv, Going
  <2> QED BY <2>1, <2>2, LoadSteps DEF PassInv
<1>5. CASE pass'.empty = pass.empty - 1 /\ Busy' = Busy \cup {This}
  <2>1. (Seen \ Busy)' = (Seen \ Busy) \ {This}
    BY <1>2, <1>5
  <2>2. Cardinality((Seen \ Busy) \ {This}) = Cardinality(Seen \ Busy) - 1
    BY <1>2, <1>3, FS_RemoveElement
  <2> QED BY <1>1, <1>4, <1>5, <2>1, <2>2 DEF Counts
<1>6. CASE pass'.empty = pass.empty /\ slot' = slot
  <2>1. Busy' = Busy
    BY <1>6 DEF Busy, IsEmpty
  <2> QED BY <1>1, <1>2, <1>4, <1>6, <2>1 DEF Counts
<1> QED
  BY <1>5, <1>6, LoadSteps DEF PassInv, Stays

\* With nothing seen, a pass counts from what was done.
LEMMA CountsBegin ==
  ASSUME TypeOK, NEW mode \in Modes, NEW n \in 0 .. Planned, NEW abort \in BOOLEAN,
         NEW m \in 1 .. Planned, m = Counted(mode, n), Begin(mode, n, abort),
         prev = 0 <=> mode = "initial", mode = "initial" => m = Planned,
         mode = "resize" => m < prev, done' = done
  PROVE  Counts'
<1>1. /\ pass'.pc = "visit" /\ pass'.mode = mode /\ pass'.count = m /\ pass'.total = done
      /\ pass'.empty = 0 /\ Left' = IF mode = "resize" THEN m .. prev - 1 ELSE 0 .. m - 1
  BY BeginFacts
<1>2. done \in Nat
  BY DEF TypeOK
<1>3. mode \in {"initial", "any"} => Seen' = {}
  BY <1>1 DEF Seen
<1>4. mode \in {"initial", "any"} => (Seen \ Busy)' = {}
  BY <1>3
<1>5. mode \in {"initial", "any"} => Cardinality((Seen \ Busy)') = 0
  BY <1>4, FS_EmptySet
<1> QED
  BY <1>1, <1>2, <1>5 DEF Counts

LEMMA CountsStep ==
  ASSUME TypeOK, PassInv, Counts, [Next]_vars
  PROVE  Counts'
<1> USE DEF setup, stores
<1>1. CASE Visit \/ Load
  BY <1>1, CountsVisit, CountsLoad
<1>2. CASE UnloadEnds \/ PassEnds
  <2>1. pass'.pc = "none"
    BY <1>2, NoPassType DEF UnloadEnds, PassEnds, PassReturns, TypeOK, Locals, Modes
  <2> QED BY <2>1 DEF Counts
<1>3. CASE InitialLoad
  <2>1. prev = 0 /\ Begin("initial", Planned, FALSE) /\ done' = done
    BY <1>3 DEF InitialLoad, LoopUnchanged, PassInv, Control
  <2>2. /\ Planned = Counted("initial", Planned) /\ Planned \in 1 .. Planned
        /\ Planned \in 0 .. Planned
    BY LoadSaveAssumption DEF Counted
  <2> QED BY <2>1, <2>2, CountsBegin DEF Modes
<1>4. CASE StartCrunchers
  <2>1. /\ prev = Planned /\ prev # 0 /\ count \in 1 .. Planned /\ count \in 0 .. Planned
        /\ pass.pc = "none" /\ done' = done
    BY <1>4, Starting DEF PassInv
  <2>2. CASE pass' = pass
    BY <2>1, <2>2 DEF Counts
  <2>3. ASSUME NEW k \in 1 .. Planned, k \in 0 .. Planned, k < prev,
               k = Counted("resize", k), Begin("resize", k, FALSE)
        PROVE  Counts'
    BY <2>1, <2>3, CountsBegin DEF Modes
  <2>4. CASE count = Counted("unload", count) /\ Begin("unload", count, FALSE)
    BY <2>1, <2>4, CountsBegin DEF Modes
  <2> QED BY <1>4, <2>2, <2>3, <2>4, Starting DEF PassInv
<1>5. CASE Refresh
  <2>1. /\ Begin("any", count, FALSE) /\ done' = done
        /\ count > 0 /\ count <= prev /\ count \in 0 .. Planned
    BY <1>5 DEF Refresh, LoopUnchanged, PassInv, Control, TypeOK
  <2>2. count = Counted("any", count) /\ count \in 1 .. Planned /\ prev # 0
    BY <2>1 DEF Counted, TypeOK
  <2> QED BY <2>1, <2>2, CountsBegin DEF Modes
<1>6. CASE UnloadAll
  <2> DEFINE m == Counted("unload", count)
  <2>1. /\ Begin("unload", count, FALSE) /\ done' = done
        /\ prev > 0 /\ prev \in 0 .. Planned /\ count \in 0 .. Planned
    BY <1>6 DEF UnloadAll, LoopUnchanged, PassInv, Control, TypeOK
  <2>2. m \in 1 .. Planned /\ prev # 0
    BY <2>1 DEF Counted
  <2> HIDE DEF m
  <2> QED BY <2>1, <2>2, CountsBegin DEF Modes, m
<1>7. CASE HardStop
  <2>1. done' = done /\ 0 \in 0 .. Planned
    BY <1>7, LoadSaveAssumption DEF HardStop
  <2>2. CASE pass.pc # "none"
    <3>1. UNCHANGED <<pass, slot>>
      BY <1>7, <2>2 DEF HardStop
    <3> QED BY <2>1, <3>1 DEF Counts, Seen, Left, This, Going, First, Lowest, Busy, IsEmpty
  <2>3. CASE pass.pc = "none" /\ prev = 0
    <3>1. Begin("unload", 0, TRUE) /\ Counted("unload", 0) = 0
      BY <1>7, <2>3 DEF HardStop, Counted
    <3>2. pass'.pc = "none"
      BY <3>1 DEF Begin, NoPass
    <3> QED BY <3>2 DEF Counts
  <2>4. CASE pass.pc = "none" /\ prev # 0
    <3>1. Begin("unload", 0, TRUE)
      BY <1>7, <2>4 DEF HardStop
    <3>2. Counted("unload", 0) = prev /\ prev \in 1 .. Planned
      BY <2>4 DEF Counted, TypeOK
    <3> QED BY <2>1, <2>4, <3>1, <3>2, CountsBegin DEF Modes
  <2> QED BY <2>2, <2>3, <2>4
<1>8. ASSUME UNCHANGED <<pass, done>>, Busy' = Busy PROVE Counts'
  BY <1>8 DEF Counts, Seen, Left, This, Going, First, Lowest
<1>9. CASE LeaveLoop \/ ServeRequests \/ Share \/ RaiseExit \/ UNCHANGED vars
  <2>1. UNCHANGED <<pass, done, slot>>
    BY <1>9 DEF LeaveLoop, LoopUnchanged, ServeRequests, Share, RaiseExit, vars
  <2> QED BY <1>8, <2>1 DEF Busy, IsEmpty
<1>10. ASSUME NEW i \in Slots, Finish(i) PROVE Counts'
  BY <1>8, <1>10, EndsFacts
<1> QED
  BY <1>1, <1>2, <1>3, <1>4, <1>5, <1>6, <1>7, <1>9, <1>10 DEF Next, Pass, RunLoop, Outside

\* The slots that may be busy are no more than the limit leaves room for.
LEMMA RoomToLoad ==
  ASSUME TypeOK, PassInv, Counts, pass.pc = "load", limit > 0
  PROVE  done + Cardinality(Busy) < limit
<1>1. /\ done \in Nat /\ pass.total \in Nat /\ pass.loaded \in Nat /\ pass.count \in Nat
      /\ pass.empty \in Int /\ limit \in Int /\ done <= pass.total
      /\ pass.mode \in {"initial", "any"} /\ pass.empty = Cardinality(Seen \ Busy)
      /\ ~LimitReached(pass.total, pass.empty)
  BY LoadSaveAssumption DEF TypeOK, Locals, PassInv, Control, Counts
<1>2. /\ IsFiniteSet(Busy) /\ Cardinality(Busy) \in Nat /\ IsFiniteSet(Seen \ Busy)
      /\ IsFiniteSet(0 .. pass.count - 1) /\ Cardinality(0 .. pass.count - 1) = pass.count
  BY Finite
<1>3. \A i \in Busy : i \in Nat
  BY DEF Busy, Slots
<1>4. CASE pass.mode = "initial"
  <2>1. pass.total + pass.loaded < limit
    BY <1>1, <1>4 DEF LimitReached
  <2>2. Cardinality(Busy) <= pass.loaded
    BY <1>4 DEF PassInv, FirstLoad, First
  <2> QED BY <1>1, <1>2, <2>1, <2>2
<1>5. CASE pass.mode = "any"
  <2>1. pass.total + pass.count - pass.empty < limit
    BY <1>1, <1>5 DEF LimitReached
  <2>2. \A i \in Busy : i < pass.count
    BY <1>5 DEF PassInv, Where
  <2>3. Busy \subseteq 0 .. pass.count - 1
    BY <1>1, <1>3, <2>2
  <2>4. Seen \ Busy \subseteq 0 .. pass.count - 1
    BY DEF Seen
  <2>5. Busy \cap (Seen \ Busy) = {}
    OBVIOUS
  <2>6. /\ IsFiniteSet(Busy \cup (Seen \ Busy))
        /\ Cardinality(Busy \cup (Seen \ Busy)) =
             Cardinality(Busy) + Cardinality(Seen \ Busy) - Cardinality(Busy \cap (Seen \ Busy))
    BY <1>2, FS_Union
  <2>7. Cardinality(Busy \cap (Seen \ Busy)) = 0
    BY <2>5, FS_EmptySet
  <2>8. Cardinality(Busy \cup (Seen \ Busy)) <= pass.count
    BY <1>2, <2>3, <2>4, FS_Subset
  <2>9. Cardinality(Busy) + pass.empty <= pass.count
    BY <1>1, <1>2, <2>6, <2>7, <2>8
  <2> QED BY <1>1, <1>2, <2>1, <2>9
<1> QED
  BY <1>1, <1>4, <1>5

LEMMA LimitStep ==
  ASSUME TypeOK, PassInv, Counts, LimitKept, [Next]_vars
  PROVE  LimitKept'
<1> SUFFICES ASSUME limit' > 0 PROVE done' + Cardinality(Busy)' <= limit'
  BY DEF LimitKept
<1> USE DEF setup, stores
<1>1. limit' = limit
  BY DEF Next, Pass, Visit, VisitNothing, VisitSaves, VisitDiscards, Load, LoadPacket, LoadFetched,
         LoadRandom, LoadStopped, LoadNone, UnloadEnds, PassEnds, RunLoop, InitialLoad,
         StartCrunchers, Refresh, LeaveLoop, UnloadAll, LoopUnchanged, Outside, ServeRequests, Share,
         RaiseExit, HardStop, Finish, vars
<1>2. /\ limit \in Int /\ done \in Nat /\ IsFiniteSet(Busy) /\ Cardinality(Busy) \in Nat
      /\ done + Cardinality(Busy) <= limit
  BY <1>1, Finite, LoadSaveAssumption DEF TypeOK, LimitKept
<1>3. ASSUME UNCHANGED done, Busy' = Busy
      PROVE  done' + Cardinality(Busy)' <= limit'
  BY <1>1, <1>2, <1>3
<1>4. CASE Visit
  <2>1. Busy' = Busy \/ (This \in Busy /\ Busy' = Busy \ {This})
    BY <1>4, VisitFacts DEF PassInv
  <2>2. done' \in Nat /\ (done' = done \/ (This \in Busy /\ Busy' = Busy \ {This} /\ done' = done + 1))
    BY <1>4, DoneFacts
  <2>3. CASE This \in Busy /\ Busy' = Busy \ {This}
    <3>1. Cardinality(Busy \ {This}) = Cardinality(Busy) - 1
      BY <1>2, <2>3, FS_RemoveElement
    <3>2. done' <= done + 1
      BY <1>2, <2>2
    <3> QED BY <1>1, <1>2, <2>2, <2>3, <3>1, <3>2
  <2> QED BY <1>3, <2>1, <2>2, <2>3
<1>5. CASE Load
  <2>1. pass.pc = "load" /\ This \notin Busy /\ done' = done
    BY <1>5, LoadSteps DEF PassInv
  <2>2. CASE Busy' = Busy \cup {This}
    <3>1. done + Cardinality(Busy) < limit
      BY <1>1, <2>1, RoomToLoad
    <3>2. Cardinality(Busy \cup {This}) = Cardinality(Busy) + 1
      BY <1>2, <2>1, FS_AddElement
    <3> QED BY <1>1, <1>2, <2>1, <2>2, <3>1, <3>2
  <2>3. CASE slot' = slot
    BY <1>3, <2>1, <2>3 DEF Busy, IsEmpty
  <2> QED BY <1>5, <2>2, <2>3, LoadSteps DEF PassInv
<1>6. CASE UnloadEnds \/ PassEnds \/ RunLoop \/ ServeRequests \/ Share \/ RaiseExit \/ HardStop
           \/ UNCHANGED vars
  <2>1. UNCHANGED <<slot, done>>
    BY <1>6 DEF UnloadEnds, PassEnds, PassReturns, RunLoop, InitialLoad, StartCrunchers, Refresh,
                LeaveLoop, UnloadAll, LoopUnchanged, ServeRequests, Share, RaiseExit, HardStop, vars
  <2> QED BY <1>3, <2>1 DEF Busy, IsEmpty
<1>7. ASSUME NEW i \in Slots, Finish(i)
      PROVE  done' + Cardinality(Busy)' <= limit'
  BY <1>3, <1>7, EndsFacts
<1> QED
  BY <1>4, <1>5, <1>6, <1>7 DEF Next, Pass, Outside

LEMMA CountsInv == Spec => []Counts
<1>1. Init => Counts
  BY NoPassType DEF Init, Counts
<1>2. TypeOK /\ PassInv /\ Counts /\ [Next]_vars => Counts'
  BY CountsStep
<1> QED
  BY <1>1, <1>2, LoadSaveTypeCorrect, PTL DEF Spec

\* A client with a limit never takes more packets than it was told to do.
THEOREM LimitIsKept == Spec => []LimitKept
<1>1. Init => LimitKept
  <2> SUFFICES ASSUME Init PROVE LimitKept
    OBVIOUS
  <2>1. Busy = {} /\ done = 0 /\ limit \in Int
    BY LoadSaveAssumption DEF Init, Busy, IsEmpty
  <2>2. Cardinality(Busy) = 0
    BY <2>1, FS_EmptySet
  <2> QED BY <2>1, <2>2 DEF LimitKept
<1>2. TypeOK /\ PassInv /\ Counts /\ LimitKept /\ [Next]_vars => LimitKept'
  BY LimitStep
<1> QED
  BY <1>1, <1>2, LoadSaveTypeCorrect, CountsInv, PTL DEF Spec

-----------------------------------------------------------------------------
(* When the client is stopped. *)

\* A result that a pass saves is one more.
LEMMA VisitOut ==
  ASSUME TypeOK, PassInv, Places, Visit, IsFiniteSet(Out)
  PROVE  /\ IsFiniteSet(Out') /\ Cardinality(Out) \in Nat /\ Cardinality(Out') \in Nat
         /\ done' - done <= Cardinality(Out') - Cardinality(Out)
         /\ pass.mode \in {"initial", "any"} =>
              pass'.total - pass.total <= Cardinality(Out') - Cardinality(Out) /\ inb' = inb
<1>1. /\ pass.pc = "visit" /\ This \in Slots /\ pass.total \in Nat /\ done \in Nat
      /\ Cardinality(Out) \in Nat
  BY VisitFacts, FS_CardinalityType DEF PassInv, TypeOK, Locals
<1>2. CASE VisitNothing \/ VisitDiscards
  <2>1. Out' = Out /\ done' = done /\ inb' = inb
    BY <1>2 DEF VisitNothing, VisitDiscards, stores, Out
  <2>2. pass'.total = pass.total + 0
    BY <1>1, <1>2, LeaveFacts DEF VisitNothing, VisitDiscards, PassInv, IsEmpty
  <2>3. pass'.total = pass.total
    BY <1>1, <2>2
  <2> QED BY <1>1, <2>1, <2>3
<1>3. CASE VisitSaves
  <2> DEFINE p == slot[This].packet
  <2>1. Leave(1, TRUE) /\ Due /\ sent' = sent
    BY <1>3 DEF VisitSaves
  <2>2. pass'.total = pass.total + 1
    BY <1>1, <2>1, LeaveFacts DEF PassInv
  <2>3. This \in Busy
    BY <1>1, <2>1 DEF Due, Busy, IsEmpty, Empty
  <2>4. p \notin Out
    BY <2>3 DEF Places, Out
  <2>5. CASE slot[This].state = "done"
    <3>1. outb' = outb \cup {p} /\ inb' = inb /\ done' \in {done, done + 1}
      BY <1>3, <2>5 DEF VisitSaves, Finito
    <3>2. Out' = Out \cup {p}
      BY <2>1, <3>1 DEF Out
    <3>3. IsFiniteSet(Out \cup {p}) /\ Cardinality(Out \cup {p}) = Cardinality(Out) + 1
      BY <2>4, FS_AddElement
    <3> QED BY <1>1, <2>2, <3>1, <3>2, <3>3
  <2>6. CASE slot[This].state # "done"
    <3>1. Unloading
      BY <2>1, <2>6 DEF Due
    <3>2. Out' = Out /\ done' = done
      BY <1>3, <2>1, <2>6 DEF VisitSaves, Out, Finito
    <3> QED BY <1>1, <3>1, <3>2 DEF Unloading
  <2> QED BY <2>5, <2>6
<1> QED
  BY <1>2, <1>3 DEF Visit

\* Steps that begin no pass: Results depends on the results and the pass alone.
LEMMA ResultsKept ==
  ASSUME Results, UNCHANGED <<done, Out>>,
         \/ pass'.pc = "none"
         \/ pass.pc # "none" /\ UNCHANGED <<pass.mode, pass.total>>
         \/ main \notin {"closed", "dead"} /\ pass'.total = done,
         pass.pc = "none" /\ main \in {"closed", "dead"} =>
           pass'.pc = "none" /\ main' \in {"closed", "dead"}
  PROVE  Results'
BY DEF Results

LEMMA ResultsStep ==
  ASSUME TypeOK, PassInv, Places, Results, [Next]_vars
  PROVE  Results'
<1> USE DEF setup, stores
<1>1. CASE Visit
  <2>1. /\ pass.pc = "visit" /\ pass'.mode = pass.mode /\ pass.total \in Nat /\ done \in Nat
        /\ IsFiniteSet(Out) /\ done <= Cardinality(Out)
        /\ pass.mode \in {"initial", "any"} => pass.total <= Cardinality(Out)
    BY <1>1, VisitFacts DEF PassInv, Keeps, Results, TypeOK, Locals
  <2>2. done' \in Nat /\ pass'.total \in Nat
    BY <1>1, VisitFacts, DoneFacts DEF PassInv, Locals
  <2>3. /\ IsFiniteSet(Out') /\ Cardinality(Out) \in Nat /\ Cardinality(Out') \in Nat
        /\ done' - done <= Cardinality(Out') - Cardinality(Out)
        /\ pass.mode \in {"initial", "any"} =>
             pass'.total - pass.total <= Cardinality(Out') - Cardinality(Out)
    BY <1>1, <2>1, VisitOut
  <2>4. done' <= Cardinality(Out')
    BY <2>1, <2>2, <2>3
  <2>5. pass.mode \in {"initial", "any"} => pass'.total <= Cardinality(Out')
    BY <2>1, <2>2, <2>3
  <2> QED BY <2>1, <2>3, <2>4, <2>5 DEF Results
<1>2. CASE Load
  <2>1. pass.pc = "load" /\ Sending /\ done' = done /\ (Stays \/ Passes)
        /\ pass'.total = pass.total
    BY <1>2, LoadSteps DEF PassInv
  <2>2. pass'.mode = pass.mode
    BY <2>1 DEF Stays, Passes, Keeps
  <2>3. Out' = Out
    BY <2>1 DEF Out, Sending
  <2> QED BY <2>1, <2>2, <2>3, ResultsKept
<1>3. CASE UnloadEnds
  BY <1>3, NoPassType DEF UnloadEnds, Results
<1>4. CASE PassEnds
  <2>1. pass.pc = "end" /\ pass'.pc = "none" /\ UNCHANGED <<done, Out>>
    BY <1>4, NoPassType DEF PassEnds, PassReturns, TypeOK, Locals, Modes, Out
  <2> QED BY <2>1, ResultsKept
<1>5. CASE RunLoop \/ HardStop
  <2>1. UNCHANGED <<done, Out>>
    BY <1>5 DEF RunLoop, InitialLoad, StartCrunchers, Refresh, LeaveLoop, UnloadAll,
                LoopUnchanged, HardStop, Out
  <2>2. main \notin {"closed", "dead"}
    BY <1>5 DEF RunLoop, InitialLoad, StartCrunchers, Refresh, LeaveLoop, UnloadAll, HardStop
  <2>3. pass' = pass \/ pass'.total = done
    BY <1>5 DEF RunLoop, InitialLoad, StartCrunchers, Refresh, LeaveLoop, UnloadAll,
                LoopUnchanged, HardStop, Begin, NoPass
  <2> QED BY <2>1, <2>2, <2>3, ResultsKept
<1>6. CASE ServeRequests
  <2>1. pass' = pass /\ main' = main /\ done' = done
    BY <1>6 DEF ServeRequests
  <2>2. Out' = Out
    BY <1>6 DEF ServeRequests, Out
  <2> QED BY <2>1, <2>2, ResultsKept
<1>7. CASE Share \/ RaiseExit \/ UNCHANGED vars
  <2>1. UNCHANGED <<pass, main, done, outb, sent>>
    BY <1>7 DEF Share, RaiseExit, vars
  <2> QED BY <2>1, ResultsKept DEF Out
<1>8. ASSUME NEW i \in Slots, Finish(i) PROVE Results'
  <2>1. UNCHANGED <<pass, main, done, outb, sent>>
    BY <1>8, EndsFacts
  <2> QED BY <2>1, ResultsKept DEF Out
<1> QED
  BY <1>1, <1>2, <1>3, <1>4, <1>5, <1>6, <1>7, <1>8 DEF Next, Pass, Outside

\* The slots that a pass has left empty.
LEMMA RunDownVisit ==
  ASSUME TypeOK, PassInv, Places, Results, RunDown, Visit
  PROVE  RunDown'
<1>1. /\ pass.pc = "visit" /\ pass'.mode = pass.mode /\ limit' = limit
  BY VisitFacts DEF PassInv, Keeps, setup
<1> SUFFICES ASSUME pass.mode \in {"initial", "any"}, limit < 0
             PROVE  ((Seen \ (IF pass.pc = "load" THEN {This} ELSE {})) \ Busy)' # {} => inb' = {}
  BY <1>1 DEF RunDown
<1>2. PICK saved \in {0, 1}, empty \in BOOLEAN :
        /\ \/ /\ pass'.pc = "load" /\ pass'.order = pass.order
              /\ empty /\ ~Unloading /\ ~LimitReached(pass'.total, pass'.empty)
           \/ /\ Passes
              /\ empty => Unloading \/ LimitReached(pass'.total, pass'.empty)
        /\ Busy' = (IF empty THEN Busy \ {This} ELSE Busy) /\ (empty \/ This \in Busy)
  BY VisitFacts DEF PassInv
<1>3. Seen' = Seen \cup {This} /\ This \notin Seen
  BY VisitSeen
<1>4. IsFiniteSet(Out)
  BY <1>1 DEF Results
<1>5. inb' = inb
  BY <1>4, VisitOut
<1>6. ~Unloading /\ ~LimitReached(pass'.total, pass'.empty)
  BY LoadSaveAssumption DEF Unloading, LimitReached, TypeOK
<1>7. ((Seen \ (IF pass.pc = "load" THEN {This} ELSE {})) \ Busy)' \subseteq Seen \ Busy
  <2>1. CASE empty
    <3>1. pass'.pc = "load" /\ This' = This
      BY <1>2, <1>6, <2>1 DEF This
    <3> QED BY <1>2, <1>3, <2>1, <3>1
  <2>2. CASE ~empty
    BY <1>2, <1>3, <2>2
  <2> QED BY <2>1, <2>2
<1>8. Seen \ Busy # {} => inb = {}
  BY <1>1 DEF RunDown
<1> QED
  BY <1>5, <1>7, <1>8

LEMMA RunDownLoad ==
  ASSUME TypeOK, PassInv, RunDown, Load
  PROVE  RunDown'
<1>1. /\ pass.pc = "load" /\ limit' = limit /\ This \notin Busy
  BY LoadSteps DEF PassInv, setup
<1> SUFFICES ASSUME pass.mode \in {"initial", "any"}, limit < 0
             PROVE  ((Seen \ (IF pass.pc = "load" THEN {This} ELSE {})) \ Busy)' # {} => inb' = {}
  BY <1>1, LoadSteps DEF RunDown, PassInv, Stays, Passes, Keeps
<1>2. Seen' = Seen /\ (Seen \ {This}) \ Busy # {} => inb = {}
  BY <1>1, LoadSeen DEF RunDown
<1>3. inb = {} => inb' = {}
  <2>1. limit \in Int /\ ~(limit >= 0)
    BY LoadSaveAssumption DEF TypeOK
  <2> QED BY <2>1 DEF Load, LoadPacket, LoadFetched, LoadRandom, LoadStopped, Updates, LoadNone,
                      stores
<1>4. CASE Stays /\ slot' = slot
  <2>1. pass'.pc = "load" /\ This' = This /\ Busy' = Busy
    BY <1>1, <1>4, StaysThere DEF Stays, Busy, IsEmpty
  <2> QED BY <1>2, <1>3, <2>1, LoadSeen
<1>5. CASE Busy' = Busy \cup {This}
  BY <1>2, <1>3, <1>5, LoadSeen
<1>6. CASE inb' = inb /\ inb = {}
  BY <1>6
<1>7. ~(limit >= 0)
  BY LoadSaveAssumption DEF TypeOK
<1> QED
  BY <1>4, <1>5, <1>6, <1>7, LoadSteps DEF PassInv

LEMMA RunDownStep ==
  ASSUME ~Disturbed, TypeOK, PassInv, Counts, Places, Results, RunDown, [Next]_vars
  PROVE  RunDown'
<1> USE DEF setup, stores
<1>1. CASE Visit \/ Load
  BY <1>1, RunDownVisit, RunDownLoad
<1>2. CASE UnloadEnds \/ PassEnds
  <2>1. pass'.pc = "none"
    BY <1>2, NoPassType DEF UnloadEnds, PassEnds, PassReturns, TypeOK, Locals, Modes
  <2> QED BY <2>1 DEF RunDown
<1>3. CASE RunLoop \/ HardStop
  <2>1. UNCHANGED <<limit, inb, slot>>
    BY <1>3 DEF RunLoop, InitialLoad, StartCrunchers, Refresh, LeaveLoop, UnloadAll,
                LoopUnchanged, HardStop
  <2>2. CASE pass' = pass
    BY <2>1, <2>2 DEF RunDown, Seen, Left, This, Going, First, Lowest, Busy, IsEmpty
  <2>3. CASE pass' # pass
    <3>1. \E mode \in Modes, n \in 0 .. Planned, abort \in BOOLEAN : Begin(mode, n, abort)
      <4>0. 0 \in 0 .. Planned /\ Planned \in 0 .. Planned /\ count \in 0 .. Planned
        BY LoadSaveAssumption DEF TypeOK
      <4>1. CASE StartCrunchers
        <5>1. PICK k \in 0 .. count : Begin("resize", k, FALSE) \/ Begin("unload", count, FALSE)
          BY <2>3, <4>0, <4>1 DEF StartCrunchers
        <5>2. k \in 0 .. Planned
          BY <4>0
        <5> QED BY <4>0, <5>1, <5>2 DEF Modes
      <4>2. CASE InitialLoad
        BY <4>0, <4>2 DEF InitialLoad, Modes
      <4>3. CASE Refresh \/ UnloadAll
        BY <4>0, <4>3 DEF Refresh, UnloadAll, Modes
      <4>4. CASE HardStop
        BY <2>3, <4>0, <4>4 DEF HardStop, Modes
      <4> QED BY <1>3, <2>3, <4>1, <4>2, <4>3, <4>4 DEF RunLoop, LeaveLoop
    <3>2. pass'.empty = 0 /\ Counts'
      BY <3>1, CountsStep DEF Begin, NoPass
    <3>3. ASSUME pass'.pc # "none", pass'.mode \in {"initial", "any"} PROVE (Seen \ Busy)' = {}
      <4>1. Cardinality((Seen \ Busy)') = 0
        BY <3>2, <3>3 DEF Counts
      <4>2. IsFiniteSet((Seen \ Busy)')
        <5>1. TypeOK'
          BY TypeStep DEF PassInv
        <5>2. pass'.count \in Int
          BY <5>1, LoadSaveAssumption DEF TypeOK, Locals
        <5>3. IsFiniteSet(0 .. pass'.count - 1)
          BY <5>2, FS_Interval
        <5>4. (Seen \ Busy)' \subseteq 0 .. pass'.count - 1
          BY DEF Seen
        <5> QED BY <5>3, <5>4, FS_Subset
      <4> QED BY <4>1, <4>2, FS_EmptySet
    <3> QED BY <3>3 DEF RunDown
  <2> QED BY <2>2, <2>3
<1>4. CASE LeaveLoop \/ RaiseExit \/ UNCHANGED vars
  BY <1>4 DEF LeaveLoop, LoopUnchanged, RaiseExit, vars,
              RunDown, Seen, Left, This, Going, First, Lowest, Busy, IsEmpty
<1>5. CASE ServeRequests \/ Share
  <2>1. pass'.pc = "none"
    BY <1>5 DEF ServeRequests, MainRuns, Share
  <2> QED BY <2>1 DEF RunDown
<1>6. ASSUME NEW i \in Slots, Finish(i) PROVE RunDown'
  <2>1. UNCHANGED <<limit, inb, pass>> /\ Busy' = Busy
    BY <1>6, EndsFacts
  <2> QED BY <2>1 DEF RunDown, Seen, Left, This, Going, First, Lowest
<1> QED
  BY <1>1, <1>2, <1>3, <1>4, <1>5, <1>6 DEF Next, Pass, Outside

\* The client is stopped by the end of a pass that found all slots empty.
LEMMA StopStep ==
  ASSUME TypeOK, PassInv, Counts, Results, RunDown, [Next]_vars,
         exiting', ~exiting, pass.pc = "end", pass'.pc = "none"
  PROVE  /\ \A i \in 0 .. pass.count - 1 : IsEmpty(i)
         /\ IF limit < 0 THEN inb = {} ELSE Cardinality(outb \cup sent) >= limit
<1> USE DEF setup, stores
<1>1. PassEnds
  <2>1. pass' # pass
    OBVIOUS
  <2>2. \A i \in Slots : ~Finish(i)
    BY <2>1 DEF Finish
  <2> QED BY <2>1, <2>2 DEF Next, Pass, Visit, VisitNothing, VisitSaves, VisitDiscards, Load, Loading, LoadPacket,
         Updates, LoadFetched, LoadRandom, LoadStopped, LoadNone, UnloadEnds, RunLoop, MainRuns,
         InitialLoad, StartCrunchers, Refresh, LeaveLoop, UnloadAll, Outside, ServeRequests, Share, RaiseExit,
         HardStop, vars
<1>2. /\ pass.mode \in Modes /\ pass.count \in Nat /\ pass.empty \in Int /\ pass.total \in Nat
      /\ limit \in Int /\ pass.count <= Planned
  BY LoadSaveAssumption DEF TypeOK, Locals, Modes
<1>3. /\ pass.mode \in {"initial", "any"} /\ pass.empty >= pass.count
      /\ limit < 0 \/ (limit > 0 /\ pass.total >= limit)
  BY <1>1, <1>2 DEF PassEnds, PassReturns, Modes
<1>4. pass.count > 0
  BY DEF PassInv, Control
<1>5. Seen = 0 .. pass.count - 1
  BY NoneLeft DEF Seen
<1>6. pass.empty = Cardinality(Seen \ Busy)
  BY <1>3 DEF Counts
<1>7. Seen \ Busy = Seen
  <2>1. IsFiniteSet(Seen) /\ Cardinality(Seen) = pass.count
    BY <1>5, Finite
  <2>2. Cardinality(Seen \ Busy) <= Cardinality(Seen) /\ Cardinality(Seen \ Busy) \in Nat
    BY <2>1, Finite, FS_Subset
  <2>3. Cardinality(Seen) = Cardinality(Seen \ Busy)
    BY <1>2, <1>3, <1>6, <2>1, <2>2
  <2> QED BY <2>1, <2>3, FS_Subset
<1>8. \A i \in 0 .. pass.count - 1 : IsEmpty(i)
  <2>1. 0 .. pass.count - 1 \subseteq Slots
    BY <1>2, LoadSaveAssumption DEF Slots
  <2> QED BY <1>5, <1>7, <2>1 DEF Busy
<1>9. CASE limit < 0
  <2>1. 0 \in Seen \ Busy
    BY <1>2, <1>4, <1>5, <1>7
  <2> QED BY <1>3, <1>8, <1>9, <2>1 DEF RunDown
<1>10. CASE ~(limit < 0)
  <2>1. pass.total <= Cardinality(Out) /\ IsFiniteSet(Out)
    BY <1>3 DEF Results
  <2>2. Cardinality(Out) \in Nat /\ pass.total >= limit
    BY <1>3, <1>10, <2>1, FS_CardinalityType
  <2>3. Cardinality(Out) >= limit
    BY <1>2, <2>1, <2>2
  <2> QED BY <1>8, <1>10, <2>3 DEF Out
<1> QED
  BY <1>9, <1>10

\* The client stops only when its crunchers are idle, and the limit is reached or,
\* without one, the in-buffer is empty.
THEOREM ClientStopsWhenDone ==
  ASSUME ~Disturbed
  PROVE  Spec => StopsWhenDone
<1>1. Init => Results /\ RunDown
  <2> SUFFICES ASSUME Init PROVE Results /\ RunDown
    OBVIOUS
  <2>1. pass.pc = "none" /\ Out = {} /\ done = 0
    BY NoPassType DEF Init, Out
  <2>2. IsFiniteSet(Out) /\ Cardinality(Out) = 0
    BY <2>1, FS_EmptySet
  <2> QED BY <2>1, <2>2 DEF Results, RunDown
<1>2. TypeOK /\ PassInv /\ Places /\ Results /\ [Next]_vars => Results'
  BY ResultsStep
<1>3. TypeOK /\ PassInv /\ Counts /\ Places /\ Results /\ RunDown /\ [Next]_vars => RunDown'
  BY RunDownStep
<1>4. TypeOK /\ PassInv /\ Counts /\ Results /\ RunDown /\ [Next]_vars =>
        [exiting' /\ ~exiting /\ pass.pc = "end" /\ pass'.pc = "none"
           => /\ \A i \in 0 .. pass.count - 1 : IsEmpty(i)
              /\ IF limit < 0 THEN inb = {} ELSE Cardinality(outb \cup sent) >= limit]_vars
  BY StopStep
<1> QED
  BY <1>1, <1>2, <1>3, <1>4, LoadSaveTypeCorrect, CountsInv, PlacesInv, PTL DEF Spec, StopsWhenDone

-----------------------------------------------------------------------------
(* The passes implement PacketSupply. *)

States == {"work", "done"}

\* The packets of the slots in use are those at work or with a result.
LEMMA HeldPackets ==
  ASSUME TypeOK
  PROVE  /\ Supply!Held = {slot[i].packet : i \in Busy}
         /\ \A i \in Busy : slot[i].state \in States /\ slot[i].packet \in In(slot[i].state)
<1>1. \A i \in Slots : IF slot[i] = Empty THEN slot[i].state = "empty" ELSE slot[i].state \in States
  BY DEF TypeOK, Empty, States
<1>2. \A i \in Slots : i \in Busy <=> slot[i].state \in States
  BY <1>1 DEF Busy, IsEmpty, States
<1>3. Busy \subseteq Slots
  BY DEF Busy
<1> QED
  BY <1>2, <1>3 DEF Supply!Held, In, States

\* A slot that is cleared held a packet of its own.
LEMMA SlotCleared ==
  ASSUME TypeOK, Places, NEW t \in Busy, slot' = [slot EXCEPT ![t] = Empty]
  PROVE  \A s \in States : In(s)' = In(s) \ {slot[t].packet}
<1> SUFFICES ASSUME NEW s \in States PROVE In(s)' = In(s) \ {slot[t].packet}
  OBVIOUS
<1>1. t \in Slots /\ slot'[t] = Empty /\ \A i \in Slots \ {t} : slot'[i] = slot[i]
  BY DEF TypeOK, Busy
<1>2. Empty.state # s
  BY DEF Empty, States
<1>3. \A i \in Slots : slot[i].state = s => i \in Busy
  BY <1>2 DEF Busy, IsEmpty
<1>4. \A i \in Slots \ {t} : slot[i].state = s => slot[i].packet # slot[t].packet
  BY <1>3 DEF Places
<1>5. {j \in Slots : slot'[j].state = s} = {j \in Slots : slot[j].state = s} \ {t}
  BY <1>1, <1>2
<1> QED
  BY <1>1, <1>4, <1>5 DEF In

\* A packet in a slot that was empty.
LEMMA SlotLoaded ==
  ASSUME TypeOK, NEW p, NEW t \in Slots \ Busy,
         slot' = [slot EXCEPT ![t] = [packet |-> p, state |-> "work"]]
  PROVE  /\ In("work")' = In("work") \cup {p}
         /\ In("done")' = In("done")
<1>1. /\ slot'[t] = [packet |-> p, state |-> "work"] /\ slot[t] = Empty
      /\ \A i \in Slots \ {t} : slot'[i] = slot[i]
  BY DEF TypeOK, Busy, IsEmpty
<1>2. slot'[t].packet = p /\ slot'[t].state = "work" /\ slot[t].state = "empty"
  BY <1>1 DEF Empty
<1>3. /\ {j \in Slots : slot'[j].state = "work"} = {j \in Slots : slot[j].state = "work"} \cup {t}
      /\ {j \in Slots : slot'[j].state = "done"} = {j \in Slots : slot[j].state = "done"} \ {t}
      /\ t \notin {j \in Slots : slot[j].state \in States}
  BY <1>1, <1>2 DEF States
<1> QED
  BY <1>1, <1>2, <1>3 DEF In, States

\* The core of a slot ends with the packet that the slot alone holds.
LEMMA SlotEnds ==
  ASSUME TypeOK, Places, NEW t \in Slots, slot[t].state = "work",
         slot' = [slot EXCEPT ![t].state = "done"]
  PROVE  /\ slot[t].packet \in In("work") /\ In("work")' = In("work") \ {slot[t].packet}
         /\ In("done")' = In("done") \cup {slot[t].packet}
<1>1. slot[t] \in [packet : All, state : {"work", "done"}] /\ t \in Busy
  BY DEF TypeOK, Empty, Busy, IsEmpty
<1>2. /\ slot'[t].packet = slot[t].packet /\ slot'[t].state = "done"
      /\ \A i \in Slots \ {t} : slot'[i] = slot[i]
  BY <1>1 DEF TypeOK
<1>3. \A i \in Slots \ {t} : slot[i].state = "work" => slot[i].packet # slot[t].packet
  <2>1. \A i \in Slots : slot[i].state = "work" => i \in Busy
    BY DEF Busy, IsEmpty, Empty
  <2> QED BY <1>1, <2>1 DEF Places
<1>4. {j \in Slots : slot'[j].state = "work"} = {j \in Slots : slot[j].state = "work"} \ {t}
  BY <1>2
<1>5. {j \in Slots : slot'[j].state = "done"} = {j \in Slots : slot[j].state = "done"} \cup {t}
  BY <1>2
<1>6. In("work")' = In("work") \ {slot[t].packet}
  BY <1>2, <1>3, <1>4 DEF In
<1>7. In("done")' = In("done") \cup {slot[t].packet}
  BY <1>2, <1>5 DEF In
<1> QED
  BY <1>6, <1>7 DEF In

\* A slot takes a packet only when the limit leaves room for it.
LEMMA RoomForPacket ==
  ASSUME TypeOK, PassInv, Counts, pass.pc = "load"
  PROVE  limit > 0 => done + Cardinality(Supply!Held) < limit
<1> SUFFICES ASSUME limit > 0 PROVE done + Cardinality(Supply!Held) < limit
  OBVIOUS
<1> DEFINE packet == [i \in Busy |-> slot[i].packet]
<1>1. IsFiniteSet(Busy) /\ Cardinality(Busy) \in Nat
  BY Finite
<1>2. packet \in Surjection(Busy, Supply!Held)
  BY HeldPackets DEF Surjection
<1>3. IsFiniteSet(Supply!Held) /\ Cardinality(Supply!Held) <= Cardinality(Busy)
  BY <1>1, <1>2, FS_Surjection
<1>4. Cardinality(Supply!Held) \in Nat
  BY <1>3, FS_CardinalityType
<1>5. done + Cardinality(Busy) < limit /\ done \in Nat /\ limit \in Int
  BY RoomToLoad, LoadSaveAssumption DEF TypeOK
<1> QED
  BY <1>1, <1>3, <1>4, <1>5

\* A packet p on its way into a slot is taken, whatever LoadState does with it.
LEMMA LoadTakes ==
  ASSUME TypeOK, PassInv, Places, Counts, Load, NEW p, NEW n, NEW pending,
         LoadState(p, n, pending), Sending, inb # {} => UNCHANGED <<outb, sent>>,
         NEW got \in IF inb = {} THEN SUBSET others ELSE {{}},
         p \in inb \cup got \cup (IF inb = {} THEN Randoms \ Supply!Known ELSE {}),
         others' = others \ got, inb' = (inb \cup got) \ {p}
  PROVE  Supply!Take
<1>1. pass.pc = "load" /\ This \in Slots \ Busy /\ UNCHANGED <<limit, done>>
  BY LoadSteps DEF PassInv, setup
<1>a. IF inb = {} THEN Supply!Sends ELSE UNCHANGED <<outb, sent>>
  BY DEF Supply!Sends, Sending
\* PacketSupply counts with an instance of FiniteSets of its own.
<1>2. Supply!Cardinality(Supply!Held) = Cardinality(Supply!Held)
  BY DEF Cardinality, Supply!Cardinality
<1>3. limit > 0 => done + Supply!Cardinality(Supply!Held) < limit
  BY <1>1, <1>2, RoomForPacket
<1>4. CASE p \in Bad
  <2>1. gone' = gone \cup {p} /\ slot' = slot
    BY <1>4 DEF LoadState
  <2>2. UNCHANGED <<In("work"), In("done")>>
    BY <2>1 DEF In
  <2> QED BY <1>1, <1>a, <1>3, <2>1, <2>2 DEF Supply!Take
<1>5. CASE p \notin Bad
  <2>1. gone' = gone /\ slot' = [slot EXCEPT ![This] = [packet |-> p, state |-> "work"]]
    BY <1>5 DEF LoadState
  <2>2. In("work")' = In("work") \cup {p} /\ In("done")' = In("done")
    BY <1>1, <2>1, SlotLoaded
  <2> QED BY <1>1, <1>a, <1>3, <2>1, <2>2 DEF Supply!Take
<1> QED
  BY <1>4, <1>5

\* The variables of PacketSupply.
Moved == <<limit, others, inb, In("work"), In("done"), outb, sent, gone, done>>

LEMMA VisitImplements ==
  ASSUME TypeOK, PassInv, Places, Visit
  PROVE  Supply!Report \/ Supply!PutBack \/ Supply!Lose \/ UNCHANGED Moved
<1>1. This \in Slots /\ UNCHANGED <<limit, others, sent>>
  BY VisitFacts DEF PassInv, setup
<1>2. CASE VisitNothing
  BY <1>2 DEF VisitNothing, Moved, In, setup, stores
<1>3. ASSUME Due, Clear
      PROVE  /\ This \in Busy /\ slot[This].state \in States
             /\ slot[This].packet \in In(slot[This].state) /\ slot[This].packet \in Supply!Held
             /\ \A s \in States : In(s)' = In(s) \ {slot[This].packet}
             /\ \A s \in States \ {slot[This].state} : In(s)' = In(s)
  <2>1. This \in Busy
    BY <1>1, <1>3 DEF Due, Busy, IsEmpty, Empty
  <2>2. \A s \in States : In(s)' = In(s) \ {slot[This].packet}
    BY <1>3, <2>1, SlotCleared DEF Clear
  <2>3. /\ slot[This].state \in States /\ slot[This].packet \in In(slot[This].state)
        /\ slot[This].packet \in Supply!Held
    BY <2>1, HeldPackets
  <2>4. ASSUME NEW s \in States \ {slot[This].state} PROVE slot[This].packet \notin In(s)
    <3>1. \A i \in Slots : slot[i].state = s => i \in Busy
      BY DEF Busy, IsEmpty, Empty, States
    <3>2. \A i \in Slots : slot[i].state = s => slot[i].packet # slot[This].packet
      BY <2>1, <3>1 DEF Places
    <3> QED BY <3>2 DEF In
  <2> QED BY <2>1, <2>2, <2>3, <2>4
<1>4. CASE VisitSaves
  <2> DEFINE p == slot[This].packet
  <2>1. /\ Due /\ Clear /\ gone' = gone
        /\ outb' = IF slot[This].state = "done" THEN outb \cup {p} ELSE outb
        /\ inb' = IF slot[This].state = "done" THEN inb ELSE inb \cup {p}
        /\ done' = IF slot[This].state = "done" /\ p \notin Tests THEN done + 1 ELSE done
    BY <1>4 DEF VisitSaves, Finito
  <2>2. CASE slot[This].state = "done"
    <3>1. /\ p \in In("done") /\ In("done")' = In("done") \ {p}
          /\ In("work")' = In("work")
      BY <1>3, <2>1, <2>2 DEF States
    <3> QED BY <1>1, <2>1, <2>2, <3>1 DEF Supply!Report
  <2>3. CASE slot[This].state = "work"
    <3>1. /\ p \in In("work") /\ In("work")' = In("work") \ {p}
          /\ In("done")' = In("done")
      BY <1>3, <2>1, <2>3 DEF States
    <3> QED BY <1>1, <2>1, <2>3, <3>1 DEF Supply!PutBack
  <2> QED BY <1>3, <2>1, <2>2, <2>3 DEF States
<1>5. CASE VisitDiscards
  <2>1. /\ Due /\ Clear /\ gone' = gone \cup {slot[This].packet}
        /\ UNCHANGED <<inb, outb, done>>
    BY <1>5 DEF VisitDiscards
  <2>2. /\ slot[This].packet \in Supply!Held
        /\ In("work")' = In("work") \ {slot[This].packet}
        /\ In("done")' = In("done") \ {slot[This].packet}
    BY <1>3, <2>1 DEF States
  <2> QED BY <1>1, <2>1, <2>2 DEF Supply!Lose
<1> QED
  BY <1>2, <1>4, <1>5 DEF Visit

LEMMA LoadImplements ==
  ASSUME TypeOK, PassInv, Places, Counts, Load
  PROVE  Supply!Take \/ Supply!Exchange \/ UNCHANGED Moved
<1>1. CASE LoadPacket \/ LoadFetched \/ LoadRandom
  <2>1. Sending /\ (inb # {} => UNCHANGED <<outb, sent>>)
    BY <1>1, LoadingSteps
  <2>2. PICK p \in All, got \in SUBSET others, n \in Sizes, pending \in SUBSET {"fetch", "flush"} :
          /\ LoadState(p, n, pending) /\ (inb # {} => got = {})
          /\ others' = others \ got /\ inb' = (inb \cup got) \ {p}
          /\ \/ p \in inb \cup got
             \/ /\ inb = {} /\ p \in Randoms /\ \A i \in Slots : slot[i].packet # p
                /\ p \notin inb \cup outb \cup others \cup sent \cup gone
    BY <1>1, LoadingSteps
  <2>3. got \in IF inb = {} THEN SUBSET others ELSE {{}}
    BY <2>2
  <2>4. p \in inb \cup got \cup (IF inb = {} THEN Randoms \ Supply!Known ELSE {})
    <3> SUFFICES ASSUME p \notin inb \cup got PROVE inb = {} /\ p \in Randoms \ Supply!Known
      OBVIOUS
    <3>1. p \notin Supply!Held
      BY <2>2, HeldPackets DEF Busy
    <3> QED BY <2>2, <3>1 DEF Supply!Known
  <2> QED BY <2>1, <2>2, <2>3, <2>4, LoadTakes
<1>2. CASE LoadStopped
  <2>1. PICK got \in SUBSET others, flushed \in {FALSE, outb # {}} :
          BufferUpdate(got, flushed) /\ inb' = got
    BY <1>2 DEF LoadStopped
  <2>2. UNCHANGED <<limit, slot, gone, done>> /\ inb = {}
    BY <1>2 DEF LoadStopped, Updates, setup
  <2>3. others' = (others \ got) \cup {} /\ inb' = (inb \ {}) \cup got /\ Supply!Sends
    BY <2>1, <2>2 DEF BufferUpdate, Supply!Sends
  <2>4. UNCHANGED <<In("work"), In("done")>>
    BY <2>2 DEF In
  <2> QED BY <2>2, <2>3, <2>4 DEF Supply!Exchange
<1>3. CASE LoadNone
  BY <1>3 DEF LoadNone, Moved, In, setup, stores
<1> QED
  BY <1>1, <1>2, <1>3 DEF Load

LEMMA EndsImplement ==
  ASSUME TypeOK, Places, NEW i \in Slots, Finish(i)
  PROVE  Supply!End
<1>1. UNCHANGED <<limit, others, inb, outb, sent, gone, done>>
  BY EndsFacts DEF setup, stores
<1>2. slot' = [slot EXCEPT ![i].state = "done"] /\ slot[i].state = "work"
  BY DEF Finish
<1> QED
  BY <1>1, <1>2, SlotEnds DEF Supply!End

\* The end of an unload, updates and other clients move packets past the slots.
LEMMA StoresImplement ==
  ASSUME TypeOK, UnloadEnds \/ ServeRequests \/ Share
  PROVE  Supply!Close \/ Supply!Exchange \/ UNCHANGED Moved
<1>1. UNCHANGED <<limit, done, In("work"), In("done")>>
  BY DEF UnloadEnds, ServeRequests, Share, setup, In
<1>2. CASE UnloadEnds
  <2>1. PICK flushed \in BOOLEAN :
          /\ flushed => memory
          /\ outb' = IF memory THEN {} ELSE outb
          /\ inb' = IF memory THEN {} ELSE inb
          /\ sent' = IF flushed THEN sent \cup outb ELSE sent
          /\ gone' = CASE ~memory -> gone
                       [] memory /\ flushed -> gone \cup inb
                       [] OTHER -> gone \cup inb \cup outb
    BY <1>2 DEF UnloadEnds
  <2>2. others' = others
    BY <1>2 DEF UnloadEnds
  <2>3. CASE ~memory
    BY <1>1, <2>1, <2>2, <2>3 DEF Moved
  <2>4. CASE memory
    <3>1. /\ inb' = {} /\ outb' = {}
          /\ \/ sent' = sent \cup outb /\ gone' = gone \cup inb
             \/ gone' = gone \cup inb \cup outb /\ sent' = sent
      BY <2>1, <2>4
    <3> QED BY <1>1, <2>2, <3>1 DEF Supply!Close
  <2> QED BY <2>3, <2>4
<1>3. ASSUME NEW got \in SUBSET others, NEW put \in SUBSET inb,
             others' = (others \ got) \cup put, inb' = (inb \ put) \cup got,
             (outb' = {} /\ sent' = sent \cup outb) \/ UNCHANGED <<outb, sent>>, gone' = gone
      PROVE  Supply!Exchange
  BY <1>1, <1>3 DEF Supply!Exchange, Supply!Sends
<1>4. CASE ServeRequests
  <2>1. PICK got \in SUBSET others : others' = others \ got /\ inb' = inb \cup got
    BY <1>4 DEF ServeRequests
  <2>2. others' = (others \ got) \cup {} /\ inb' = (inb \ {}) \cup got
    BY <2>1
  <2>3. /\ (outb' = {} /\ sent' = sent \cup outb) \/ UNCHANGED <<outb, sent>>
        /\ gone' = gone
    BY <1>4 DEF ServeRequests
  <2> QED BY <1>3, <2>2, <2>3
<1>5. CASE Share
  <2>1. PICK p \in Packets :
          \/ p \in others /\ inb' = inb \cup {p} /\ others' = others \ {p}
          \/ p \in inb /\ inb' = inb \ {p} /\ others' = others \cup {p}
    BY <1>5 DEF Share
  <2>2. UNCHANGED <<outb, sent>> /\ gone' = gone
    BY <1>5 DEF Share
  <2>3. CASE p \in others /\ inb' = inb \cup {p} /\ others' = others \ {p}
    <3>1. /\ others' = (others \ {p}) \cup {} /\ inb' = (inb \ {}) \cup {p}
          /\ {p} \in SUBSET others /\ {} \in SUBSET inb
      BY <2>3
    <3> QED BY <1>3, <2>2, <3>1
  <2>4. CASE p \in inb /\ inb' = inb \ {p} /\ others' = others \cup {p}
    <3>1. /\ others' = (others \ {}) \cup {p} /\ inb' = (inb \ {p}) \cup {}
          /\ {} \in SUBSET others /\ {p} \in SUBSET inb
      BY <2>4
    <3> QED BY <1>3, <2>2, <3>1
  <2> QED BY <2>1, <2>3, <2>4
<1> QED
  BY <1>2, <1>4, <1>5

\* Each step of the client is a step of the supply of packets, or none: no packet
\* is worked on twice, reported before it is finished or taken beyond the limit,
\* whatever other clients do to the in-buffer.
THEOREM ClientImplementsSupply == Spec => ImplementsSupply
<1>1. Init => Supply!Init
  <2> SUFFICES ASSUME Init PROVE Supply!Init
    OBVIOUS
  <2>1. \A i \in Slots : slot[i].state = "empty"
    BY DEF Init, Empty
  <2>2. In("work") = {} /\ In("done") = {}
    BY <2>1 DEF In
  <2>3. limit \in Int
    BY LoadSaveAssumption DEF Init
  <2>4. inb \subseteq Packets /\ others = Packets \ inb
    BY DEF Init
  <2>5. outb = {} /\ sent = {} /\ gone = {} /\ done = 0
    BY DEF Init
  <2> QED BY <2>2, <2>3, <2>4, <2>5 DEF Supply!Init, Supply!Held
<1>2. TypeOK /\ PassInv /\ Places /\ Counts /\ [Next]_vars => [Supply!Next]_Moved
  <2> SUFFICES ASSUME TypeOK, PassInv, Places, Counts, [Next]_vars
               PROVE  Supply!Next \/ UNCHANGED Moved
    OBVIOUS
  <2>1. CASE Visit
    BY <2>1, VisitImplements DEF Supply!Next
  <2>2. CASE Load
    BY <2>2, LoadImplements DEF Supply!Next
  <2>3. CASE UnloadEnds \/ ServeRequests \/ Share
    BY <2>3, StoresImplement DEF Supply!Next
  <2>4. ASSUME NEW i \in Slots, Finish(i) PROVE Supply!Next
    BY <2>4, EndsImplement DEF Supply!Next
  <2>5. CASE PassEnds \/ RunLoop \/ RaiseExit \/ HardStop \/ UNCHANGED vars
    <3>1. UNCHANGED <<limit, slot, inb, outb, others, sent, gone, done>>
      BY <2>5 DEF stores, PassEnds, PassReturns, RunLoop, InitialLoad, StartCrunchers, Refresh, LeaveLoop,
                  UnloadAll, LoopUnchanged, RaiseExit, HardStop, vars, setup
    <3>2. UNCHANGED <<In("work"), In("done")>>
      BY <3>1 DEF In
    <3> QED BY <3>1, <3>2 DEF Moved
  <2> QED BY <2>1, <2>2, <2>3, <2>4, <2>5 DEF Next, Pass, Outside
<1> QED
  BY <1>1, <1>2, LoadSaveTypeCorrect, PlacesInv, CountsInv, PTL
     DEF Spec, ImplementsSupply, Supply!Spec, Moved
=============================================================================
