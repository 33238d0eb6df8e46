------------------------------- MODULE Rc572 -------------------------------
(***************************************************************************)
(* One RC5-72 packet on its way through Run_RC5_72 (common/problem.cpp),   *)
(* the shim rc5_72_unit_func_hyunjin and the host loop hyunjin_r72_run.    *)
(*                                                                         *)
(* A packet is a first key and a number of keys.  It is searched in slices *)
(* of a length the run loop proposes, each slice in passes of the device.  *)
(* The same cursor is kept three times: as key plus keysdone (two words),  *)
(* as refL0 and as the core's L0, the latter two in "mangled" form, and    *)
(* advanced by three different pieces of code; they must agree for ever,   *)
(* also after the packet was saved unfinished and loaded again.            *)
(*                                                                         *)
(* Arithmetic is that of the code with narrower bytes: a byte has Base     *)
(* values, a word four bytes; a key is one byte and two words.             *)
(* Whether a key matches is chosen when the packet is loaded.  A run works *)
(* on a copy of the packet (module Problem), so a run that fails leaves    *)
(* the packet of this module as it was.                                    *)
(***************************************************************************)
EXTENDS Integers, FiniteSetsExt

CONSTANTS
  Base,         \* values of a byte (256 in the code)
  Minimum,      \* MINIMUM_ITERATIONS (48)
  Pipeline,     \* HYUNJIN_PIPELINE (4)
  MaxPass,      \* keys of one launch: nthreads * MAX_GRID * HYUNJIN_PIPELINE
  Starts,       \* first keys of packets, as numbers
  Sizes,        \* numbers of keys in packets
  Slices,       \* proposed time slices (pub_data.tslice)
  Marks,        \* offsets at which keys may match
  MaxTroubles   \* bound: device errors and resets per packet

Word  == Base * Base * Base * Base
Space == Base * Word * Word

\* Whole pipelines: 4 divides 48, MaxPass and 2 ^ 32, and 48 does not divide
\* 2 ^ 32.  No packet is so large that its last slice could wrap keysdone.
ASSUME Rc572Assumption ==
  /\ Base \in Nat \ {0, 1} /\ Minimum \in Nat \ {0} /\ Pipeline \in Nat \ {0}
  /\ MaxPass \in Nat \ {0} /\ MaxTroubles \in Nat
  /\ Minimum % Pipeline = 0 /\ MaxPass % Pipeline = 0 /\ Word % Pipeline = 0
  /\ Word % Minimum # 0 /\ Minimum < Word
  /\ Slices \subseteq 1 .. Word - 1 /\ Starts \subseteq 0 .. Space - 1
  /\ Sizes \subseteq 0 .. Word * (Word - 1) /\ Marks \subseteq Nat
  /\ IsFiniteSet(Marks)

RESULT_WORKING == 0
RESULT_NOTHING == 1
RESULT_FOUND   == 2

-----------------------------------------------------------------------------
(* Keys. *)

Key == [hi : 0 .. Base - 1, mid : 0 .. Word - 1, lo : 0 .. Word - 1]

NoKey == [hi |-> 0, mid |-> 0, lo |-> 0]

\* The number an unmangled key stands for, and the key of a number.
Value(key) == (key.hi * Word + key.mid) * Word + key.lo
KeyOf(n) ==
  [hi |-> (n \div (Word * Word)) % Base, mid |-> (n \div Word) % Word,
   lo |-> n % Word]

\* The bytes of a word, most significant first, and back.
Bytes(word) ==
  <<(word \div (Base * Base * Base)) % Base, (word \div (Base * Base)) % Base,
    (word \div Base) % Base, word % Base>>
FromBytes(bytes) ==
  ((bytes[1] * Base + bytes[2]) * Base + bytes[3]) * Base + bytes[4]

\* __SwitchRC572Format: mangled and unmangled are each other's byte reversal.
SwitchRC572Format ==
  [key \in Key |->
     LET m == Bytes(key.mid)
         l == Bytes(key.lo)
     IN [hi  |-> l[4],
         mid |-> FromBytes(<<l[3], l[2], l[1], m[4]>>),
         lo  |-> FromBytes(<<m[3], m[2], m[1], key.hi>>)]]

\* __IncrementKey: the client's own count, by way of the unmangled form.
IncrementKey(key, iters) ==
  LET plain == SwitchRC572Format[key]
      lo    == (plain.lo + iters) % Word
      carry == IF lo < iters THEN 1 ELSE 0
      mid   == (plain.mid + carry) % Word
      hi    == IF carry = 1 /\ mid = 0 THEN plain.hi + 1 ELSE plain.hi
  IN SwitchRC572Format[[hi |-> hi % Base, mid |-> mid, lo |-> lo]]

Bswap(word) ==
  LET b == Bytes(word) IN FromBytes(<<b[4], b[3], b[2], b[1]>>)

\* hy_increment_l0: the core's count, on the mangled form; the carry runs from
\* hi, the least significant byte, through mid to lo.
HyIncrementL0(key, amount) ==
  LET low  == key.hi + Bswap(key.mid) * Base + amount
      high == Bswap(key.lo) + low \div (Base * Word)
  IN [hi  |-> low % Base,
      mid |-> Bswap((low \div Base) % Word),
      lo  |-> Bswap(high % Word)]

Count(n) == [hi |-> n \div Word, lo |-> n % Word]
Number(count) == count.hi * Word + count.lo

-----------------------------------------------------------------------------
VARIABLES
  pc,        \* "empty": no packet; "ready"; "pass": in the core; "tail"
  work,      \* contestwork.bigcrypto: key, keysdone, iterations, check
  unit,      \* rc5_72unitwork: L0, check
  refL0,     \* the client's mangled cursor
  rc,        \* last_resultcode
  run,       \* locals of the host loop during a run
  troubles,  \* device errors and resets so far (bound)
  truth      \* what was loaded, which keys match, which were searched (history)

vars == <<pc, work, unit, refL0, rc, run, troubles, truth>>

NoRun ==
  [asked |-> 0, base |-> NoKey, done |-> 0, ret |-> RESULT_NOTHING,
   nCheck |-> 0, check |-> NoKey, found |-> NoKey, out |-> 0, tested |-> {}]

NoCheck == [count |-> 0, key |-> NoKey]
NoUnit  == [L0 |-> NoKey, check |-> NoCheck]
NoWork  == [key |-> NoKey, keysdone |-> Count(0), iterations |-> Count(0),
            check |-> NoCheck]
NoTruth == [start |-> 0, size |-> 0, matches |-> {}, solution |-> {},
            searched |-> {}]

Init ==
  /\ pc = "empty" /\ rc = RESULT_WORKING /\ troubles = 0 /\ run = NoRun
  /\ work = NoWork /\ unit = NoUnit /\ refL0 = NoKey /\ truth = NoTruth

\* Mutant: only the low word of keysdone is added.
FirstL0LowWord(key, keysdone) ==
  LET lo  == (key.lo + keysdone.lo) % Word
      mid == IF lo < keysdone.lo THEN (key.mid + 1) % Word ELSE key.mid
      hi  == IF lo < keysdone.lo /\ mid = 0 THEN key.hi + 1 ELSE key.hi
  IN SwitchRC572Format[[hi |-> hi % Base, mid |-> mid, lo |-> lo]]

\* The first key not yet searched, with both of __InternalLoadState's carries.
FirstL0(key, keysdone) ==
  LET mid1 == (key.mid + keysdone.hi) % Word
      hi1  == IF mid1 < keysdone.hi THEN key.hi + 1 ELSE key.hi
      lo   == (key.lo + keysdone.lo) % Word
      mid2 == IF lo < keysdone.lo THEN (mid1 + 1) % Word ELSE mid1
      hi2  == IF lo < keysdone.lo /\ mid2 = 0 THEN hi1 + 1 ELSE hi1
  IN SwitchRC572Format[[hi |-> hi2 % Base, mid |-> mid2, lo |-> lo]]

\* The RC5-72 part of __InternalLoadState, for a packet w.
LoadState(w) ==
  /\ work' = w
  /\ unit' = [L0 |-> FirstL0(w.key, w.keysdone),
              check |-> [w.check EXCEPT !.key = SwitchRC572Format[@]]]
  /\ refL0' = unit'.L0
  /\ rc' = RESULT_WORKING
  /\ pc' = "ready"
  /\ run' = NoRun

\* A fresh packet from the buffers.
LoadFresh ==
  /\ pc = "empty"
  /\ \E start \in Starts, size \in Sizes, matches \in kSubset(2, Marks)
                                        \cup kSubset(1, Marks) \cup {{}} :
       \E solution \in {{}} \cup kSubset(1, matches) :
         /\ LoadState([key |-> KeyOf(start), keysdone |-> Count(0),
                       iterations |-> Count(size), check |-> NoCheck])
         /\ truth' = [start |-> start, size |-> size,
                      matches  |-> {start + m : m \in matches},
                      solution |-> {start + m : m \in solution},
                      searched |-> {}]
  /\ troubles' = 0

\* The packet was saved unfinished and comes back, to the build it left ...
Reload ==
  /\ pc = "ready" /\ rc = RESULT_WORKING
  /\ LoadState(work)
  /\ UNCHANGED <<troubles, truth>>

\* ... or to another one, which starts again.
ReloadReset ==
  /\ pc = "ready" /\ rc = RESULT_WORKING
  /\ Number(work.keysdone) # 0
  /\ LoadState([work EXCEPT !.keysdone = Count(0), !.check = NoCheck])
  /\ truth' = [truth EXCEPT !.searched = {}]
  /\ troubles < MaxTroubles /\ troubles' = troubles + 1

\* A finished packet leaves, and what is left of it in the slot is dead.
Unload ==
  /\ pc = "ready" /\ rc # RESULT_WORKING
  /\ pc' = "empty" /\ rc' = RESULT_WORKING /\ troubles' = 0 /\ run' = NoRun
  /\ work' = NoWork /\ unit' = NoUnit /\ refL0' = NoKey /\ truth' = NoTruth

-----------------------------------------------------------------------------
(* Run_RC5_72. *)

\* Mutant: the slice is neither raised nor rounded.
KeysToCheckUnaligned(tslice) ==
  IF (work.keysdone.lo + tslice) % Word < tslice
  THEN (work.iterations.lo - work.keysdone.lo) % Word ELSE tslice

\* How many keys to ask of the core: the proposal, cut when the low word of
\* keysdone would overflow near the end, at least and in multiples of Minimum.
KeysToCheck(tslice) ==
  LET left == (work.iterations.hi - work.keysdone.hi) % Word
      cut  == IF left <= 1 /\ (work.keysdone.lo + tslice) % Word < tslice
              THEN (work.iterations.lo - work.keysdone.lo) % Word
              ELSE tslice
      up   == (Minimum - (cut % Minimum)) % Minimum
  IN IF cut < Minimum THEN Minimum ELSE (cut + up) % Word

BeginRun ==
  /\ pc = "ready" /\ rc = RESULT_WORKING
  /\ \E tslice \in Slices :
       run' = [NoRun EXCEPT !.asked = KeysToCheck(tslice), !.base = unit.L0]
  /\ pc' = "pass"
  /\ UNCHANGED <<work, unit, refL0, rc, troubles, truth>>

-----------------------------------------------------------------------------
(* hyunjin_r72_run. *)

\* One launch: threads for what is left to do, at most MaxPass keys, each
\* testing Pipeline keys from the base key on.
Launched ==
  LET keys == IF run.asked - run.done < MaxPass THEN run.asked - run.done
                                                ELSE MaxPass
  IN ((keys + Pipeline - 1) \div Pipeline) * Pipeline

KeyAt(offset) == HyIncrementL0(run.base, offset)
Plain(offset) == Value(SwitchRC572Format[KeyAt(offset)])
Hits(keys, n) == {offset \in 0 .. n - 1 : Plain(offset) \in keys}

\* The scan of the first n results: partial matches are counted, the last of
\* them is kept.
Scanned(n) ==
  LET partial == Hits(truth.matches, n)
  IN [run EXCEPT !.nCheck = @ + Cardinality(partial),
                 !.check  = IF partial = {} THEN @ ELSE KeyAt(Max(partial)),
                 !.tested = @ \cup {Plain(offset) : offset \in 0 .. n - 1}]

\* No exact match: on to the next pass.
PassNothing ==
  /\ pc = "pass" /\ run.ret = RESULT_NOTHING /\ run.done < run.asked
  /\ Hits(truth.solution, Launched) = {}
  /\ run' = [Scanned(Launched) EXCEPT !.base = HyIncrementL0(@, Launched),
                                      !.done = @ + Launched]
  /\ UNCHANGED <<pc, work, unit, refL0, rc, troubles, truth>>

\* An exact match ends the scan.
PassFound ==
  /\ pc = "pass" /\ run.ret = RESULT_NOTHING /\ run.done < run.asked
  /\ \E offset \in Hits(truth.solution, Launched) :
       run' = [Scanned(offset + 1) EXCEPT !.ret = RESULT_FOUND,
                 !.found = KeyAt(offset), !.out = run.done + offset]
  /\ UNCHANGED <<pc, work, unit, refL0, rc, troubles, truth>>

\* The shim hands the count back in a word.
PassesDone ==
  /\ pc = "pass"
  /\ run.ret = RESULT_FOUND \/ run.done >= run.asked
  /\ run' = [run EXCEPT !.out =
                (IF run.ret = RESULT_FOUND THEN @ ELSE run.done) % Word]
  /\ pc' = "tail"
  /\ UNCHANGED <<work, unit, refL0, rc, troubles, truth>>

-----------------------------------------------------------------------------
(* The rest of Run_RC5_72, after the shim has put the core's results into   *)
(* the unit.                                                               *)

\* Mutant: the count of this call replaces the packet's.
ShimUnitAssigns ==
  [L0 |-> IF run.ret = RESULT_FOUND THEN run.found ELSE run.base,
   check |-> IF run.nCheck = 0 THEN unit.check
             ELSE [count |-> run.nCheck, key |-> run.check]]

ShimUnit ==
  [L0 |-> IF run.ret = RESULT_FOUND THEN run.found ELSE run.base,
   check |-> IF run.nCheck = 0 THEN unit.check
             ELSE [count |-> unit.check.count + run.nCheck, key |-> run.check]]

\* Mutant: no carry into the high word.
KeysDoneNoCarry ==
  [lo |-> (work.keysdone.lo + run.out) % Word, hi |-> work.keysdone.hi]

KeysDone ==
  LET lo == (work.keysdone.lo + run.out) % Word
  IN [lo |-> lo,
      hi |-> IF lo < run.out THEN (work.keysdone.hi + 1) % Word
                             ELSE work.keysdone.hi]

\* Mutant: the carry out of the low word stops at mid.
FoundKeyShortCarry(key, keysdone) ==
  LET lo  == (key.lo + keysdone.lo) % Word
      mid == (key.mid + (IF lo < key.lo THEN 1 ELSE 0) + keysdone.hi) % Word
  IN [hi |-> key.hi, mid |-> mid, lo |-> lo]

\* The key that was found, written over the first key of the packet.
FoundKey(key, keysdone) ==
  LET lo    == (key.lo + keysdone.lo) % Word
      carry == IF lo < key.lo THEN 1 ELSE 0
      mid1  == (key.mid + carry) % Word
      hi1   == IF carry = 1 /\ mid1 = 0 THEN key.hi + 1 ELSE key.hi
      mid2  == (mid1 + keysdone.hi) % Word
  IN [hi |-> IF mid2 < mid1 THEN hi1 + 1 ELSE hi1, mid |-> mid2, lo |-> lo]

\* Mutant: only the high words are compared.
PacketDoneHighWord(keysdone) == keysdone.hi >= work.iterations.hi

\* The count of keys done has reached the size of the packet.
PacketDone(keysdone) ==
  \/ keysdone.hi > work.iterations.hi
  \/ keysdone.hi = work.iterations.hi /\ keysdone.lo >= work.iterations.lo

\* The client's count and the core's differ although nothing was found.
Mismatch ==
  /\ IncrementKey(refL0, run.out) # ShimUnit.L0
  /\ run.ret # RESULT_FOUND

EndRun ==
  /\ pc = "tail" /\ ~Mismatch
  /\ refL0' = IncrementKey(refL0, run.out)
  /\ unit' = ShimUnit
  /\ work' = [work EXCEPT
       !.keysdone = KeysDone,
       !.check = [ShimUnit.check EXCEPT !.key = SwitchRC572Format[@]],
       !.key = IF run.ret = RESULT_FOUND THEN FoundKey(@, KeysDone) ELSE @]
  /\ rc' = IF run.ret = RESULT_FOUND THEN RESULT_FOUND
           ELSE IF PacketDone(KeysDone) THEN RESULT_NOTHING ELSE RESULT_WORKING
  /\ truth' = [truth EXCEPT !.searched = @ \cup run.tested]
  /\ pc' = "ready" /\ run' = NoRun
  /\ UNCHANGED troubles

\* The run fails and all it did is given up: a call to the device fails, or
\* the two counts differ.
RunFails ==
  /\ pc \in {"pass", "tail"}
  /\ IF pc = "pass" THEN troubles < MaxTroubles ELSE Mismatch
  /\ troubles' = IF pc = "pass" THEN troubles + 1 ELSE troubles
  /\ pc' = "ready" /\ run' = NoRun
  /\ UNCHANGED <<work, unit, refL0, rc, truth>>

Next ==
  \/ LoadFresh \/ Reload \/ ReloadReset \/ Unload
  \/ BeginRun \/ PassNothing \/ PassFound \/ PassesDone \/ EndRun \/ RunFails

Spec == Init /\ [][Next]_vars

-----------------------------------------------------------------------------
(* Properties. *)

TypeOK ==
  /\ pc \in {"empty", "ready", "pass", "tail"}
  /\ work.key \in Key /\ work.check.key \in Key
  /\ work.keysdone \in [hi : 0 .. Word - 1, lo : 0 .. Word - 1]
  /\ unit.L0 \in Key /\ refL0 \in Key /\ unit.check.key \in Key
  /\ rc \in {RESULT_WORKING, RESULT_NOTHING, RESULT_FOUND}
  /\ run.asked \in 0 .. Word - 1 /\ run.base \in Key /\ run.found \in Key
  /\ troubles \in 0 .. MaxTroubles

\* The three cursors agree: what the core will search next is what keysdone
\* says is next, through every carry, byte reversal, save and reload.
CursorsAgree ==
  pc # "empty" /\ rc = RESULT_WORKING =>
    /\ refL0 = unit.L0
    /\ Value(SwitchRC572Format[unit.L0])
          = (truth.start + Number(work.keysdone)) % Space

\* keysdone keys have been searched, from the first one on, none left out
\* between two slices, two passes or two loads.
SearchedExactly ==
  pc # "empty" =>
    LET n == Number(work.keysdone) + (IF rc = RESULT_FOUND THEN 1 ELSE 0)
    IN truth.searched = {(truth.start + i) % Space : i \in 0 .. n - 1}

\* A result is true: NOTHING only if no key of the packet is the solution, and
\* the key reported with FOUND is the solution.
ResultTrue ==
  /\ rc = RESULT_NOTHING =>
       \A i \in 0 .. truth.size - 1 :
         (truth.start + i) % Space \in truth.searched \ truth.solution
  /\ rc = RESULT_FOUND => truth.solution = {Value(work.key)}

\* The counter-measure check: number and last key of the partial matches in
\* what was searched, whatever slices, failed runs and reloads it took.
ChecksExact ==
  pc # "empty" =>
    LET hits == truth.matches \cap truth.searched
    IN /\ work.check.count = Cardinality(hits)
       /\ hits # {} => Value(work.check.key) = Max(hits)

\* Every run that ends brings the packet nearer to its result: no slice is
\* of no keys, at no alignment of the packet.
SliceAdvances ==
  [][EndRun => \/ rc' # RESULT_WORKING
               \/ Number(work'.keysdone) > Number(work.keysdone)]_vars
=============================================================================
