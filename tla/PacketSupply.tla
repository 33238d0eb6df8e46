---------------------------- MODULE PacketSupply ----------------------------
(***************************************************************************)
(* What a client promises of its packets, free of slots, passes and        *)
(* threads: a packet is worked on by one slot at a time; it is reported    *)
(* once, after a slot has finished it, and never worked on again; what is  *)
(* reported is sent once or lost; a slot is given a packet just fetched,   *)
(* or made, only when none is waiting; and with a limit (-n,               *)
(* run-work-limit) it takes a packet only while what is done and what is   *)
(* held leave room for it.                                                 *)
(* It is a promise of the passes over the slots: results that a flush      *)
(* cross-saves into the in-buffer are BuffUpdate's matter.                 *)
(***************************************************************************)
EXTENDS Integers, FiniteSets

CONSTANTS
  Packets,    \* packets of the buffers and of the server
  Randoms,    \* the random packets that can be made
  Tests       \* the packets whose results do not count

VARIABLES
  limit,
  away,       \* packets that can be fetched, or that other clients hold
  waiting,    \* in the in-buffer
  working, finished,            \* in a slot: at work, with a result
  reported,   \* in the out-buffer
  sent, lost,
  done        \* results that count for the limit

Held == working \cup finished
Known == away \cup waiting \cup Held \cup reported \cup sent \cup lost

Init ==
  /\ limit \in Int /\ done = 0
  /\ away \cup waiting = Packets /\ away \cap waiting = {}
  /\ Held = {} /\ reported = {} /\ sent = {} /\ lost = {}

Sends ==
  \/ reported' = {} /\ sent' = sent \cup reported
  \/ UNCHANGED <<reported, sent>>

\* Packets come and go, and results are sent.
Exchange ==
  /\ \E got \in SUBSET away, put \in SUBSET waiting :
       away' = (away \ got) \cup put /\ waiting' = (waiting \ put) \cup got
  /\ Sends
  /\ UNCHANGED <<limit, working, finished, lost, done>>

\* A packet for a slot, which may refuse it.  When none is waiting the client asks
\* for some, and may send its results with that.
Take ==
  /\ limit > 0 => done + Cardinality(Held) < limit
  /\ \E got \in IF waiting = {} THEN SUBSET away ELSE {{}} :
     \E p \in waiting \cup got \cup (IF waiting = {} THEN Randoms \ Known ELSE {}) :
       /\ away' = away \ got /\ waiting' = (waiting \cup got) \ {p}
       /\ \/ working' = working \cup {p} /\ UNCHANGED lost
          \/ lost' = lost \cup {p} /\ UNCHANGED working
  /\ IF waiting = {} THEN Sends ELSE UNCHANGED <<reported, sent>>
  /\ UNCHANGED <<limit, finished, done>>

\* A core ends with its packet.
End ==
  /\ \E p \in working : working' = working \ {p} /\ finished' = finished \cup {p}
  /\ UNCHANGED <<limit, away, waiting, reported, sent, lost, done>>

Report ==
  /\ \E p \in finished :
       /\ finished' = finished \ {p} /\ reported' = reported \cup {p}
       /\ done' = IF p \in Tests THEN done ELSE done + 1
  /\ UNCHANGED <<limit, away, waiting, working, sent, lost>>

PutBack ==
  /\ \E p \in working : working' = working \ {p} /\ waiting' = waiting \cup {p}
  /\ UNCHANGED <<limit, away, finished, reported, sent, lost, done>>

\* A buffer that cannot be written.
Lose ==
  /\ \E p \in Held : /\ working' = working \ {p} /\ finished' = finished \ {p}
                     /\ lost' = lost \cup {p}
  /\ UNCHANGED <<limit, away, waiting, reported, sent, done>>

\* The end of buffers in memory, whose results may still be sent.
Close ==
  /\ waiting' = {} /\ reported' = {}
  /\ \/ sent' = sent \cup reported /\ lost' = lost \cup waiting
     \/ lost' = lost \cup waiting \cup reported /\ UNCHANGED sent
  /\ UNCHANGED <<limit, away, working, finished, done>>

Next == Exchange \/ Take \/ End \/ Report \/ PutBack \/ Lose \/ Close

Spec ==
  /\ Init
  /\ [][Next]_<<limit, away, waiting, working, finished, reported, sent, lost, done>>
=============================================================================
