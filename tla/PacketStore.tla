---------------------------- MODULE PacketStore ----------------------------
(***************************************************************************)
(* What a buffer file promises the clients that use it: packets are put    *)
(* and got whole, a packet that was put is there until it is got, and it   *)
(* is got once.  A client that crashes takes with it what it holds.        *)
(***************************************************************************)
CONSTANTS Packets, Clients

VARIABLES
  stored,   \* packets in the file
  hand      \* packets each client holds

Init == stored \subseteq Packets /\ hand \in [Clients -> SUBSET (Packets \ stored)]

Put(c) ==
  \E p \in hand[c] :
    /\ stored' = stored \cup {p}
    /\ hand' = [hand EXCEPT ![c] = @ \ {p}]

Get(c) ==
  \E p \in stored :
    /\ stored' = stored \ {p}
    /\ hand' = [hand EXCEPT ![c] = @ \cup {p}]

Crash(c) ==
  /\ hand' = [hand EXCEPT ![c] = {}]
  /\ UNCHANGED stored

Next == \E c \in Clients : Put(c) \/ Get(c) \/ Crash(c)

Spec == Init /\ [][Next]_<<stored, hand>>
=============================================================================
