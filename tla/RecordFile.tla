----------------------------- MODULE RecordFile -----------------------------
(***************************************************************************)
(* A buffer file of common/buffpub.cpp: fixed-size records, blank where a  *)
(* packet was taken out, in the client's own format ("stock") or in that   *)
(* of the Moo! Wrapper ("moo", a header with a count before the records).  *)
(*                                                                         *)
(* BufferPutFileRecord and BufferGetFileRecord are sequences of writes to  *)
(* the disk.  Between two of them the client may crash, or another client  *)
(* may use the same file: BufferOpenFile takes no lock.  What is read by   *)
(* an operation is read in its first step.  A file that does not exist is  *)
(* an empty one: every operation creates it first.                         *)
(***************************************************************************)
EXTENDS Integers, Sequences, FiniteSetsExt

CONSTANTS
  Packets,       \* packets, all different
  Clients,       \* processes that use the file
  MaxCrashes     \* bound: crashes of clients

ASSUME RecordFileAssumption == IsFiniteSet(Packets) /\ MaxCrashes \in Nat

Blank == "blank"
None  == "none"

ASSUME RecordsDiffer == {Blank, None} \cap Packets = {}

VARIABLES
  file,      \* the file: format, count in its header, records
  sticky,    \* moo_output_mode of each client
  pc,        \* where each client is
  op,        \* locals of the operation under way
  hand,      \* packets each client holds
  rc,        \* what its last operation returned
  promised,  \* packets of which a put returned success, not got since
  crashes    \* bound

vars == <<file, sticky, pc, op, hand, rc, promised, crashes>>

EmptyFile == [fmt |-> "empty", count |-> 0, recs |-> <<>>]
Garbled   == [fmt |-> "garbled", count |-> 0, recs |-> <<>>]
NoOp      == [packet |-> None, fmt |-> "stock", at |-> 1, all |-> FALSE]

\* Places of a record; those a scan of the file gets to; the blank and the
\* full ones among them.
At(record) == {i \in DOMAIN file.recs : file.recs[i] = record}
Scanned == {i \in DOMAIN file.recs : file.fmt = "moo" => i <= file.count}
Free == Scanned \cap At(Blank)
Full == Scanned \ At(Blank)

Stored == {file.recs[i] : i \in Full} \cap Packets

Init ==
  /\ \/ file = EmptyFile
     \/ \E p \in Packets :
          file \in {[fmt |-> "stock", count |-> 0, recs |-> <<Blank, p>>],
                    [fmt |-> "moo", count |-> 2, recs |-> <<Blank, p>>],
                    [fmt |-> "moo", count |-> 0, recs |-> <<>>]}
  /\ \E holder \in [Packets \ Stored -> Clients] :
       hand = [c \in Clients |-> {p \in Packets \ Stored : holder[p] = c}]
  /\ sticky = [c \in Clients |-> FALSE]
  /\ pc = [c \in Clients |-> "idle"]
  /\ op = [c \in Clients |-> NoOp]
  /\ rc = [c \in Clients |-> 0]
  /\ promised = Stored
  /\ crashes = 0

-----------------------------------------------------------------------------
(* The disk. *)

\* Records with record i overwritten; what lies between the end of the file
\* and i reads as blank.
With(recs, i, record) ==
  [j \in 1 .. (IF i > Len(recs) THEN i ELSE Len(recs)) |->
     IF j = i THEN record ELSE IF j <= Len(recs) THEN recs[j] ELSE Blank]

\* The file after record i was written in the format the writer believes in:
\* of a file that has another format by now nothing can be read.
FileWith(fmt, i, record) ==
  IF file.fmt = fmt \/ (file.fmt = "empty" /\ fmt = "stock")
  THEN [file EXCEPT !.fmt = fmt, !.recs = With(@, i, record)]
  ELSE Garbled

-----------------------------------------------------------------------------
(* BufferPutFileRecord. *)

\* moo_file_detect, or no information in the file and moo_output_mode set.
WritesMoo(c) == file.fmt = "moo" \/ (sticky[c] /\ file.fmt = "empty")

\* Mutant: a record is appended one place too early.
StockSlotShort(counting) ==
  IF Free = {} THEN IF file.recs = <<>> THEN 1 ELSE Len(file.recs)
  ELSE IF counting THEN Max(Free) ELSE Min(Free)

\* A caller that wants the count makes the scan go on to the last blank.
StockSlot(counting) ==
  IF Free = {} THEN Len(file.recs) + 1
  ELSE IF counting THEN Max(Free) ELSE Min(Free)

\* Mutant: blank records are not used again.
MooSlotAppends == file.count + 1

MooSlot == IF Free = {} THEN file.count + 1 ELSE Min(Free)

\* Where the packet will go.  A file that cannot be opened is an error.
BeginPut(c) ==
  /\ pc[c] = "idle"
  /\ \E p \in hand[c], counting \in BOOLEAN :
       LET fmt  == IF WritesMoo(c) THEN "moo" ELSE "stock"
           slot == IF WritesMoo(c) THEN MooSlot ELSE StockSlot(counting)
       IN IF file.fmt = "garbled"
          THEN /\ rc' = [rc EXCEPT ![c] = -1]
               /\ UNCHANGED <<pc, op>>
          ELSE /\ op' = [op EXCEPT ![c] = [packet |-> p, fmt |-> fmt,
                                           at |-> slot, all |-> FALSE]]
               /\ pc' = [pc EXCEPT ![c] = IF fmt = "moo" /\ slot > file.count
                                          THEN "header" ELSE "packet"]
               /\ UNCHANGED rc
  /\ sticky' = [sticky EXCEPT ![c] = @ \/ file.fmt = "moo"]
  /\ UNCHANGED <<file, hand, promised, crashes>>

\* The file did not exist: it is created with a header that counts nothing.
CreateMoo(c) ==
  /\ pc[c] = "header" /\ file = EmptyFile
  /\ file' = [fmt |-> "moo", count |-> 0, recs |-> <<>>]
  /\ UNCHANGED <<sticky, pc, op, hand, rc, promised, crashes>>

\* Mutant: the header keeps its count.
WriteHeaderStale(c) ==
  /\ pc[c] = "header"
  /\ file' = IF file.fmt = "stock" THEN Garbled ELSE [file EXCEPT !.fmt = "moo"]
  /\ pc' = [pc EXCEPT ![c] = "packet"]
  /\ UNCHANGED <<sticky, op, hand, rc, promised, crashes>>

\* The count goes to the disk before the record it counts.
WriteHeader(c) ==
  /\ pc[c] = "header"
  /\ file' = IF file.fmt = "stock" THEN Garbled
             ELSE [file EXCEPT !.fmt = "moo", !.count = op[c].at]
  /\ pc' = [pc EXCEPT ![c] = "packet"]
  /\ UNCHANGED <<sticky, op, hand, rc, promised, crashes>>

\* Mutant: a put that appends to its file drops its packet.
WritePacketBlank(c) ==
  /\ pc[c] = "packet"
  /\ file' = FileWith(op[c].fmt, op[c].at,
                      IF op[c].at > Len(file.recs) THEN Blank ELSE op[c].packet)
  /\ hand' = [hand EXCEPT ![c] = @ \ {op[c].packet}]
  /\ promised' = promised \cup {op[c].packet}
  /\ rc' = [rc EXCEPT ![c] = 0]
  /\ pc' = [pc EXCEPT ![c] = "idle"]
  /\ op' = [op EXCEPT ![c] = NoOp]
  /\ UNCHANGED <<sticky, crashes>>

WritePacket(c) ==
  /\ pc[c] = "packet"
  /\ file' = FileWith(op[c].fmt, op[c].at, op[c].packet)
  /\ hand' = [hand EXCEPT ![c] = @ \ {op[c].packet}]
  /\ promised' = promised \cup {op[c].packet}
  /\ rc' = [rc EXCEPT ![c] = 0]
  /\ pc' = [pc EXCEPT ![c] = "idle"]
  /\ op' = [op EXCEPT ![c] = NoOp]
  /\ UNCHANGED <<sticky, crashes>>

-----------------------------------------------------------------------------
(* BufferGetFileRecord. *)

\* The first record that is not blank.
GetFinds(c) ==
  /\ pc[c] = "idle" /\ Full # {}
  /\ op' = [op EXCEPT ![c] =
       [packet |-> file.recs[Min(Full)], fmt |-> file.fmt, at |-> Min(Full),
        all |-> file.fmt = "stock" /\ Min(Full) = Len(file.recs)]]
  /\ pc' = [pc EXCEPT ![c] = "blank"]
  /\ sticky' = [sticky EXCEPT ![c] = @ \/ file.fmt = "moo"]
  /\ UNCHANGED <<file, hand, rc, promised, crashes>>

\* None: a file of blanks is truncated, and if the header counts more than
\* there is, that is a read error.
GetMisses(c) ==
  /\ pc[c] = "idle" /\ Full = {}
  /\ LET short == \/ file.fmt = "garbled"
                  \/ file.fmt = "moo" /\ Len(file.recs) < file.count
         zap == ~short /\ (file.fmt = "moo" \/ file.recs # <<>>)
     IN /\ rc' = [rc EXCEPT ![c] = IF short THEN -1 ELSE 1]
        /\ pc' = [pc EXCEPT ![c] = IF zap THEN "zap" ELSE "idle"]
  /\ sticky' = [sticky EXCEPT ![c] = @ \/ file.fmt = "moo"]
  /\ UNCHANGED <<file, op, hand, promised, crashes>>

WriteBlank(c) ==
  /\ pc[c] = "blank"
  /\ file' = FileWith(op[c].fmt, op[c].at, Blank)
  /\ hand' = [hand EXCEPT ![c] = @ \cup {op[c].packet}]
  /\ promised' = promised \ {op[c].packet}
  /\ rc' = [rc EXCEPT ![c] = 0]
  /\ pc' = [pc EXCEPT ![c] = IF op[c].all THEN "zap" ELSE "idle"]
  /\ op' = [op EXCEPT ![c] = NoOp]
  /\ UNCHANGED <<sticky, crashes>>

\* BufferZapFileRecords.
Zap(c) ==
  /\ pc[c] = "zap"
  /\ file' = EmptyFile
  /\ pc' = [pc EXCEPT ![c] = "idle"]
  /\ UNCHANGED <<sticky, op, hand, rc, promised, crashes>>

-----------------------------------------------------------------------------
(* The rest of a client's life: it meets a moo file elsewhere, or dies. *)

Sniff(c) ==
  /\ pc[c] = "idle" /\ ~sticky[c]
  /\ sticky' = [sticky EXCEPT ![c] = TRUE]
  /\ UNCHANGED <<file, pc, op, hand, rc, promised, crashes>>

Crash(c) ==
  /\ crashes < MaxCrashes /\ crashes' = crashes + 1
  /\ pc' = [pc EXCEPT ![c] = "idle"]
  /\ op' = [op EXCEPT ![c] = NoOp]
  /\ sticky' = [sticky EXCEPT ![c] = FALSE]
  /\ hand' = [hand EXCEPT ![c] = {}]
  /\ rc' = [rc EXCEPT ![c] = 0]
  /\ UNCHANGED <<file, promised>>

Next ==
  \E c \in Clients :
    \/ BeginPut(c) \/ CreateMoo(c) \/ WriteHeader(c) \/ WritePacket(c)
    \/ GetFinds(c) \/ GetMisses(c) \/ WriteBlank(c) \/ Zap(c)
    \/ Sniff(c) \/ Crash(c)

Spec == Init /\ [][Next]_vars

-----------------------------------------------------------------------------
(* Properties. *)

Record == Packets \cup {Blank}
File == [fmt : {"empty", "stock", "moo", "garbled"}, count : Nat, recs : Seq(Record)]

TypeOK ==
  /\ file \in File
  /\ file.fmt = "empty" => file = EmptyFile
  /\ file.fmt = "garbled" => file = Garbled
  /\ sticky \in [Clients -> BOOLEAN]
  /\ pc \in [Clients -> {"idle", "header", "packet", "blank", "zap"}]
  /\ op \in [Clients -> [packet : Packets \cup {None},
                         fmt : {"stock", "moo"}, at : Nat \ {0}, all : BOOLEAN]]
  /\ \A c \in Clients : pc[c] \notin {"idle", "zap"} => op[c].packet \in Packets
  /\ hand \in [Clients -> SUBSET Packets]
  /\ rc \in [Clients -> {-1, 0, 1}]
  /\ promised \subseteq Packets
  /\ crashes \in 0 .. MaxCrashes

\* "on failure returns -1, else 0" (buffpub.cpp:456): a packet of which a put
\* said 0 is in the file until it is got, whoever crashes in between; and it is
\* there once, and in no client's hand, so that it is not searched twice.
PutStores ==
  /\ promised \subseteq Stored
  /\ \A i, j \in DOMAIN file.recs :
       i # j /\ file.recs[i] \in Packets => file.recs[i] # file.recs[j]
  /\ \A c \in Clients : hand[c] \cap Stored = {}

\* Places are used again: a file is never longer than the packets it may hold,
\* but for a place lost in each crash.
Bounded ==
  /\ Len(file.recs) <= Cardinality(Packets) + MaxCrashes
  /\ file.count <= Cardinality(Packets) + MaxCrashes

\* The file does what PacketStore promises: a put happens with the write of
\* its packet, a get with the write of its blank.
Store == INSTANCE PacketStore WITH stored <- Stored
ImplementsStore == Store!Spec
=============================================================================
