---------------------------- MODULE ProblemSlot ----------------------------
(***************************************************************************)
(* What a problem slot promises its users, free of copies, flags and locks *)
(* (the "work in pairs" contract above ProblemLoadState): a slot is empty  *)
(* or holds one packet; a packet is loaded into an empty slot only, under  *)
(* a number no earlier load had; it advances in atomic steps until it has  *)
(* a result, and then stays as it is; and it can be purged at any time.    *)
(***************************************************************************)
EXTENDS Integers

CONSTANTS
  Problems,    \* the slots
  Contests,    \* the contests a packet may belong to
  Total,       \* units of work in a packet
  Loads        \* the numbers loads may have, in increasing order

RESULT_WORKING == 0
RESULT_NOTHING == 1
RESULT_FOUND   == 2

VARIABLE slot       \* [Problems -> {} or {the record it holds}]

Init == slot = [p \in Problems |-> {}]

Load(p) ==
  /\ slot[p] = {}
  /\ \E n \in Loads, c \in Contests, d \in 0 .. Total - 1 :
       /\ \A q \in Problems : \A r \in slot[q] : r.work.load < n
       /\ slot' = [slot EXCEPT ![p] =
            {[work |-> [load |-> n, contest |-> c, done |-> d, hit |-> FALSE],
              rc |-> RESULT_WORKING]}]

Outcome(d, found) ==
  IF found THEN RESULT_FOUND
  ELSE IF d = Total THEN RESULT_NOTHING ELSE RESULT_WORKING

Advance(p) ==
  \E r \in slot[p] :
    /\ r.rc = RESULT_WORKING
    /\ \E d \in r.work.done .. Total, found \in BOOLEAN :
         /\ found \/ d > r.work.done
         /\ slot' = [slot EXCEPT ![p] =
              {[work |-> [load |-> r.work.load, contest |-> r.work.contest,
                          done |-> d, hit |-> found],
                rc |-> Outcome(d, found)]}]

Purge(p) ==
  /\ slot[p] # {}
  /\ slot' = [slot EXCEPT ![p] = {}]

Next == \E p \in Problems : Load(p) \/ Advance(p) \/ Purge(p)

Spec == Init /\ [][Next]_slot

=============================================================================
