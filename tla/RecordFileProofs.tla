-------------------------- MODULE RecordFileProofs --------------------------
(***************************************************************************)
(* Proofs about RecordFile: types for any number of clients, and, for one  *)
(* client at a time, that packets are kept (PutStores), that the file does *)
(* not grow without bound (Bounded) and that it implements PacketStore,    *)
(* for any packets and any number of crashes.                              *)
(*                                                                         *)
(* The invariants: FileInv, the header counts every record there is;       *)
(* OpInv, what was read when an operation began is still so when it        *)
(* writes; Kept, PutStores said of the records; GrowthInv, how far the     *)
(* count may be ahead of the records, one place for every crash.           *)
(***************************************************************************)
EXTENDS RecordFile, FiniteSetTheorems, NaturalsInduction, SequenceTheorems,
        WellFoundedInduction, TLAPS

-----------------------------------------------------------------------------
(* Places of records. *)

\* Places are numbers, so that there is a first and a last among some of them.
LEMMA MinOfPlaces ==
  ASSUME NEW S \in SUBSET Nat, S # {}
  PROVE  Min(S) \in S /\ \A i \in S : Min(S) <= i
<1>1. PICK m \in S : \A i \in S : <<i, m>> \notin OpToRel(<, Nat)
  BY NatLessThanWellFounded, WFMin, Zenon
<1>2. \A i \in S : ~(i < m)
  BY <1>1, Zenon DEF OpToRel
<1>3. \A i \in S : m <= i
  BY <1>2
<1> QED
  BY <1>3 DEF Min

LEMMA MaxOfPlaces ==
  ASSUME NEW n \in Int, NEW S \in SUBSET Int, S # {}, \A i \in S : i <= n
  PROVE  Max(S) \in S /\ \A i \in S : Max(S) >= i
<1> DEFINE T == {n - i : i \in S}
<1>1. T \in SUBSET Nat /\ T # {}
  <2>1. \A i \in S : n - i \in Nat
    OBVIOUS
  <2> QED BY <2>1
<1>2. Min(T) \in T /\ \A t \in T : Min(T) <= t
  BY <1>1, MinOfPlaces
<1>3. PICK m \in S : Min(T) = n - m
  BY <1>2
<1>4. ASSUME NEW i \in S PROVE m >= i
  <2>1. n - i \in T
    OBVIOUS
  <2>2. n - m <= n - i
    BY <1>2, <1>3, <2>1
  <2> QED BY <2>2
<1> QED
  BY <1>4 DEF Max

\* A record is written at any place, within the file or beyond its end.
LEMMA WithIsSeq ==
  ASSUME NEW recs \in Seq(Record), NEW i \in Nat \ {0}, NEW record \in Record
  PROVE  /\ With(recs, i, record) \in Seq(Record)
         /\ Len(With(recs, i, record)) = IF i > Len(recs) THEN i ELSE Len(recs)
         /\ \A j \in 1 .. Len(With(recs, i, record)) :
              With(recs, i, record)[j] =
                IF j = i THEN record ELSE IF j <= Len(recs) THEN recs[j] ELSE Blank
<1> DEFINE n == IF i > Len(recs) THEN i ELSE Len(recs)
           at(j) == IF j = i THEN record ELSE IF j <= Len(recs) THEN recs[j] ELSE Blank
<1>1. n \in Nat
  OBVIOUS
<1>2. \A j \in 1 .. n : at(j) \in Record
  BY DEF Record
<1>3. With(recs, i, record) = [j \in 1 .. n |-> at(j)]
  BY DEF With
<1> HIDE DEF n, at
<1>4. With(recs, i, record) \in [1 .. n -> Record]
  BY <1>2, <1>3
<1>5. With(recs, i, record) \in Seq(Record)
  BY <1>1, <1>4, SeqDef
<1>6. Len(With(recs, i, record)) = n
  BY <1>1, <1>4, <1>5, LenProperties
<1> QED
  BY <1>3, <1>5, <1>6 DEF n, at

LEMMA WithLen ==
  ASSUME NEW recs \in Seq(Record), NEW i \in Nat \ {0}, NEW record \in Record
  PROVE  Len(With(recs, i, record)) = IF i > Len(recs) THEN i ELSE Len(recs)
BY WithIsSeq

\* The first record that is not blank, and the place a put chooses.
LEMMA Slots ==
  ASSUME TypeOK
  PROVE  /\ Free \subseteq 1 .. Len(file.recs) /\ Full \subseteq 1 .. Len(file.recs)
         /\ Full # {} => Min(Full) \in Full
         /\ MooSlot \in Nat \ {0}
         /\ IF Free = {} THEN MooSlot = file.count + 1 ELSE MooSlot \in Free
         /\ \A b \in BOOLEAN :
              /\ StockSlot(b) \in Nat \ {0}
              /\ IF Free = {} THEN StockSlot(b) = Len(file.recs) + 1
                              ELSE StockSlot(b) \in Free
<1>1. file.recs \in Seq(Record) /\ file.count \in Nat
  BY DEF TypeOK, File
<1>2. DOMAIN file.recs = 1 .. Len(file.recs) /\ Len(file.recs) \in Nat
  BY <1>1, LenProperties
<1>3. Free \subseteq 1 .. Len(file.recs) /\ Full \subseteq 1 .. Len(file.recs)
  BY <1>2 DEF Free, Full, Scanned
<1>4. Free \in SUBSET Nat /\ Full \in SUBSET Nat
  BY <1>2, <1>3
<1>5. Full # {} => Min(Full) \in Full
  BY <1>4, MinOfPlaces
<1>6. Free # {} => Min(Free) \in Free /\ Max(Free) \in Free
  <2>1. Free \in SUBSET Int /\ \A i \in Free : i <= Len(file.recs)
    BY <1>2, <1>3
  <2>2. Len(file.recs) \in Int
    BY <1>2
  <2> QED BY <1>4, <2>1, <2>2, MinOfPlaces, MaxOfPlaces
<1>7. \A i \in Free : i \in Nat \ {0}
  BY <1>3
<1>8. /\ MooSlot \in Nat \ {0}
      /\ IF Free = {} THEN MooSlot = file.count + 1 ELSE MooSlot \in Free
  BY <1>1, <1>6, <1>7 DEF MooSlot
<1>9. ASSUME NEW b \in BOOLEAN
      PROVE  /\ StockSlot(b) \in Nat \ {0}
             /\ IF Free = {} THEN StockSlot(b) = Len(file.recs) + 1
                             ELSE StockSlot(b) \in Free
  BY <1>2, <1>6, <1>7 DEF StockSlot
<1> QED
  BY <1>3, <1>5, <1>8, <1>9
-----------------------------------------------------------------------------
(* Types, for any clients that use the file at a time. *)

\* What is written goes to a file that still is one.
LEMMA FileWithType ==
  ASSUME TypeOK, NEW fmt \in {"stock", "moo"}, NEW i \in Nat \ {0}, NEW record \in Record
  PROVE  /\ FileWith(fmt, i, record) \in File
         /\ FileWith(fmt, i, record).fmt # "empty"
         /\ FileWith(fmt, i, record).fmt = "garbled" => FileWith(fmt, i, record) = Garbled
<1>1. With(file.recs, i, record) \in Seq(Record)
  BY WithIsSeq DEF TypeOK, File
<1>2. Garbled \in File
  BY EmptySeq DEF Garbled, File
<1>3. [file EXCEPT !.fmt = fmt, !.recs = With(@, i, record)] \in File
  BY <1>1 DEF TypeOK, File
<1>4. [file EXCEPT !.fmt = fmt, !.recs = With(@, i, record)].fmt = fmt
  BY DEF TypeOK, File
<1> QED
  BY <1>2, <1>3, <1>4 DEF FileWith, Garbled

\* The file and the locals of every client keep their types, and an operation
\* that has begun has a packet, also when other clients change the file meanwhile.
THEOREM RecordFileTypeCorrect == Spec => []TypeOK
<1> DEFINE Op == [packet : Packets \cup {None}, fmt : {"stock", "moo"},
                  at : Nat \ {0}, all : BOOLEAN]
           PC == {"idle", "header", "packet", "blank", "zap"}
<1>0. NoOp \in Op
  BY DEF NoOp
<1>1. Init => TypeOK
  <2> SUFFICES ASSUME Init PROVE TypeOK
    OBVIOUS
  <2>1. Blank \in Record /\ \A p \in Packets : p \in Record
    BY DEF Record
  <2>2. /\ file \in File
        /\ file.fmt = "empty" => file = EmptyFile
        /\ file.fmt # "garbled"
    <3>1. CASE file = EmptyFile
      BY <3>1, EmptySeq DEF EmptyFile, File
    <3>2. ASSUME NEW p \in Packets,
                 file \in {[fmt |-> "stock", count |-> 0, recs |-> <<Blank, p>>],
                          [fmt |-> "moo", count |-> 2, recs |-> <<Blank, p>>],
                          [fmt |-> "moo", count |-> 0, recs |-> <<>>]}
          PROVE  file \in File /\ file.fmt # "empty" /\ file.fmt # "garbled"
      <4>1. <<Blank, p>> \in Seq(Record) /\ <<>> \in Seq(Record)
        BY <2>1, EmptySeq
      <4>2. PICK fmt \in {"stock", "moo"}, count \in {0, 2}, recs \in {<<Blank, p>>, <<>>} :
              file = [fmt |-> fmt, count |-> count, recs |-> recs]
        BY <3>2
      <4>3. recs \in Seq(Record)
        BY <4>1
      <4> QED BY <4>2, <4>3 DEF File
    <3> QED BY <3>1, <3>2 DEF Init
  <2>3. hand \in [Clients -> SUBSET Packets] /\ promised \subseteq Packets
    BY DEF Init, Stored
  <2>4. 0 \in 0 .. MaxCrashes
    BY RecordFileAssumption
  <2> QED BY <1>0, <2>2, <2>3, <2>4 DEF Init, TypeOK
<1>2. TypeOK /\ [Next]_vars => TypeOK'
  <2> SUFFICES ASSUME TypeOK, [Next]_vars PROVE TypeOK'
    OBVIOUS
  <2> USE DEF TypeOK, File
  <2>1. ASSUME NEW c \in Clients, BeginPut(c) PROVE TypeOK'
    <3>1. PICK p \in hand[c], counting \in BOOLEAN :
            LET fmt  == IF WritesMoo(c) THEN "moo" ELSE "stock"
                slot == IF WritesMoo(c) THEN MooSlot ELSE StockSlot(counting)
            IN IF file.fmt = "garbled"
               THEN /\ rc' = [rc EXCEPT ![c] = -1]
                    /\ UNCHANGED <<pc, op>>
               ELSE /\ op' = [op EXCEPT ![c] = [packet |-> p, fmt |-> fmt,
                                                at |-> slot, all |-> FALSE]]
                    /\ pc' = [pc EXCEPT ![c] = IF fmt = "moo" /\ slot > file.count
                                               THEN "header" ELSE "packet"]
                    /\ UNCHANGED rc
      BY <2>1 DEF BeginPut
    <3>2. p \in Packets
      OBVIOUS
    <3>3. CASE file.fmt = "garbled"
      BY <2>1, <3>1, <3>3 DEF BeginPut
    <3>4. CASE file.fmt # "garbled"
      <4>1. PICK fmt \in {"stock", "moo"}, slot \in Nat \ {0}, next \in {"header", "packet"} :
              /\ op' = [op EXCEPT ![c] = [packet |-> p, fmt |-> fmt,
                                          at |-> slot, all |-> FALSE]]
              /\ pc' = [pc EXCEPT ![c] = next]
              /\ UNCHANGED rc
        BY <3>1, <3>4, Slots
      <4>2. [packet |-> p, fmt |-> fmt, at |-> slot, all |-> FALSE] \in Op
        BY <3>2
      <4>3. op' \in [Clients -> Op] /\ pc' \in [Clients -> PC]
        BY <4>1, <4>2
      <4>4. \A d \in Clients : pc'[d] \notin {"idle", "zap"} => op'[d].packet \in Packets
        BY <3>2, <4>1
      <4> QED BY <2>1, <4>1, <4>3, <4>4 DEF BeginPut
    <3> QED BY <3>3, <3>4
  <2>2. ASSUME NEW c \in Clients, CreateMoo(c) PROVE TypeOK'
    BY <2>2, EmptySeq DEF CreateMoo
  <2>3. ASSUME NEW c \in Clients, WriteHeader(c) PROVE TypeOK'
    <3>1. /\ file' \in File
          /\ file'.fmt # "empty"
          /\ file'.fmt = "garbled" => file' = Garbled
      BY <2>3, EmptySeq DEF WriteHeader, Garbled
    <3> QED BY <2>3, <3>1 DEF WriteHeader
  <2>4. ASSUME NEW c \in Clients, WritePacket(c) PROVE TypeOK'
    <3>1. op[c].packet \in Packets
      BY <2>4 DEF WritePacket
    <3>2. /\ file' \in File
          /\ file'.fmt # "empty"
          /\ file'.fmt = "garbled" => file' = Garbled
      <4>1. op[c].packet \in Record /\ op[c].fmt \in {"stock", "moo"} /\ op[c].at \in Nat \ {0}
        BY <3>1 DEF Record
      <4>2. file' = FileWith(op[c].fmt, op[c].at, op[c].packet)
        BY <2>4 DEF WritePacket
      <4> HIDE DEF TypeOK, File
      <4> QED BY <4>1, <4>2, FileWithType
    <3> QED BY <1>0, <2>4, <3>1, <3>2 DEF WritePacket
  <2>5. ASSUME NEW c \in Clients, GetFinds(c) PROVE TypeOK'
    <3>1. Min(Full) \in Full /\ Min(Full) \in 1 .. Len(file.recs)
      BY <2>5, Slots DEF GetFinds
    <3>2. file.recs[Min(Full)] \in Record
      BY <3>1, ElementOfSeq
    <3>3. file.recs[Min(Full)] # Blank
      BY <3>1 DEF Full, At, Scanned
    <3>4. file.recs[Min(Full)] \in Packets
      BY <3>2, <3>3 DEF Record
    <3>5. file.fmt \in {"stock", "moo"}
      <4>1. file.recs # <<>>
        BY <3>1, EmptySeq
      <4> QED BY <4>1 DEF EmptyFile, Garbled
    <3>6. Min(Full) \in Nat \ {0}
      BY <3>1
    <3>7. op' \in [Clients -> Op]
      BY <2>5, <3>4, <3>5, <3>6 DEF GetFinds
    <3>8. \A d \in Clients : pc'[d] \notin {"idle", "zap"} => op'[d].packet \in Packets
      BY <2>5, <3>4 DEF GetFinds
    <3> QED BY <2>5, <3>7, <3>8 DEF GetFinds
  <2>6. ASSUME NEW c \in Clients, GetMisses(c) PROVE TypeOK'
    <3>1. PICK r \in {-1, 1}, next \in {"zap", "idle"} :
            rc' = [rc EXCEPT ![c] = r] /\ pc' = [pc EXCEPT ![c] = next]
      BY <2>6 DEF GetMisses
    <3> QED BY <2>6, <3>1 DEF GetMisses
  <2>7. ASSUME NEW c \in Clients, WriteBlank(c) PROVE TypeOK'
    <3>1. op[c].packet \in Packets
      BY <2>7 DEF WriteBlank
    <3>2. /\ file' \in File
          /\ file'.fmt # "empty"
          /\ file'.fmt = "garbled" => file' = Garbled
      <4>1. Blank \in Record /\ op[c].fmt \in {"stock", "moo"} /\ op[c].at \in Nat \ {0}
        BY DEF Record
      <4>2. file' = FileWith(op[c].fmt, op[c].at, Blank)
        BY <2>7 DEF WriteBlank
      <4> HIDE DEF TypeOK, File
      <4> QED BY <4>1, <4>2, FileWithType
    <3> QED BY <1>0, <2>7, <3>1, <3>2 DEF WriteBlank
  <2>8. ASSUME NEW c \in Clients, Zap(c) PROVE TypeOK'
    BY <2>8, EmptySeq DEF Zap, EmptyFile
  <2>9. ASSUME NEW c \in Clients, Sniff(c) PROVE TypeOK'
    BY <2>9 DEF Sniff
  <2>10. ASSUME NEW c \in Clients, Crash(c) PROVE TypeOK'
    <3>1. crashes' \in 0 .. MaxCrashes
      BY <2>10, RecordFileAssumption DEF Crash
    <3> QED BY <1>0, <2>10, <3>1 DEF Crash
  <2>11. CASE UNCHANGED vars BY <2>11 DEF vars
  <2> QED
    BY <2>1, <2>2, <2>3, <2>4, <2>5, <2>6, <2>7, <2>8, <2>9, <2>10, <2>11 DEF Next
<1> QED
  BY <1>1, <1>2, PTL DEF Spec
-----------------------------------------------------------------------------
(* What a write does to the packets in a file. *)

Packed(recs) == {recs[i] : i \in DOMAIN recs} \cap Packets
Once(recs) ==
  \A i, j \in DOMAIN recs : i # j /\ recs[i] \in Packets => recs[i] # recs[j]

\* A packet written over a blank or beyond the end is added to the others.
LEMMA PutAdds ==
  ASSUME NEW recs \in Seq(Record), NEW i \in Nat \ {0}, NEW p \in Packets,
         i \in DOMAIN recs => recs[i] = Blank, p \notin Packed(recs), Once(recs)
  PROVE  /\ Packed(With(recs, i, p)) = Packed(recs) \cup {p}
         /\ Once(With(recs, i, p))
<1> DEFINE new == With(recs, i, p)
<1>1. p \in Record /\ Blank \notin Packets
  BY RecordsDiffer DEF Record
<1>2. /\ new \in Seq(Record) /\ Len(new) \in Nat /\ DOMAIN new = 1 .. Len(new)
      /\ Len(recs) \in Nat /\ DOMAIN recs = 1 .. Len(recs)
  BY <1>1, WithIsSeq, LenProperties
<1>3. /\ Len(new) = IF i > Len(recs) THEN i ELSE Len(recs)
      /\ \A j \in 1 .. Len(new) :
           new[j] = IF j = i THEN p ELSE IF j <= Len(recs) THEN recs[j] ELSE Blank
  BY <1>1, WithIsSeq
<1> HIDE DEF new
<1>4. new[i] = p /\ i \in DOMAIN new
  BY <1>2, <1>3
<1>5. \A j \in DOMAIN recs : j # i => j \in DOMAIN new /\ new[j] = recs[j]
  BY <1>2, <1>3
<1>6. \A j \in DOMAIN new : j # i /\ new[j] \in Packets => j \in DOMAIN recs /\ new[j] = recs[j]
  BY <1>1, <1>2, <1>3
<1>7. Packed(new) \subseteq Packed(recs) \cup {p}
  BY <1>4, <1>6 DEF Packed
<1>8. Packed(recs) \cup {p} \subseteq Packed(new)
  BY <1>1, <1>4, <1>5 DEF Packed
<1>9. Once(new)
  <2> SUFFICES ASSUME NEW j \in DOMAIN new, NEW k \in DOMAIN new,
                      j # k, new[j] \in Packets, new[j] = new[k]
               PROVE  FALSE
    BY DEF Once
  <2>1. CASE j = i
    <3>1. k \in DOMAIN recs /\ recs[k] = p
      BY <1>4, <1>6, <2>1
    <3> QED BY <3>1 DEF Packed
  <2>2. CASE k = i
    <3>1. j \in DOMAIN recs /\ recs[j] = p
      BY <1>4, <1>6, <2>2
    <3> QED BY <3>1 DEF Packed
  <2>3. CASE j # i /\ k # i
    <3>1. j \in DOMAIN recs /\ k \in DOMAIN recs /\ recs[j] = recs[k] /\ recs[j] \in Packets
      BY <1>6, <2>3
    <3> QED BY <3>1 DEF Once
  <2> QED BY <2>1, <2>2, <2>3
<1> QED
  BY <1>7, <1>8, <1>9 DEF new

\* Blanking the place of a packet takes it out, and no other.
LEMMA GetRemoves ==
  ASSUME NEW recs \in Seq(Record), NEW i \in DOMAIN recs, NEW p \in Packets,
         recs[i] = p, Once(recs)
  PROVE  /\ Packed(With(recs, i, Blank)) = Packed(recs) \ {p}
         /\ Once(With(recs, i, Blank))
         /\ DOMAIN With(recs, i, Blank) = DOMAIN recs
         /\ \A j \in DOMAIN recs : With(recs, i, Blank)[j] = IF j = i THEN Blank ELSE recs[j]
<1> DEFINE new == With(recs, i, Blank)
<1>1. Blank \in Record /\ Blank \notin Packets
  BY RecordsDiffer DEF Record
<1>2. Len(recs) \in Nat /\ DOMAIN recs = 1 .. Len(recs) /\ i \in Nat \ {0}
  BY LenProperties
<1>0. /\ new \in Seq(Record)
      /\ Len(new) = IF i > Len(recs) THEN i ELSE Len(recs)
      /\ \A j \in 1 .. Len(new) :
           new[j] = IF j = i THEN Blank ELSE IF j <= Len(recs) THEN recs[j] ELSE Blank
  <2> HIDE DEF new
  <2>1. i \in Nat \ {0}
    BY <1>2
  <2> QED BY <1>1, <2>1, WithIsSeq DEF new
<1> HIDE DEF new
<1>3. new \in Seq(Record) /\ Len(new) = Len(recs)
  BY <1>2, <1>0
<1>4. DOMAIN new = DOMAIN recs
  BY <1>2, <1>3, LenProperties
<1>5. \A j \in DOMAIN recs : new[j] = IF j = i THEN Blank ELSE recs[j]
  BY <1>2, <1>3, <1>0
<1>6. Packed(new) = Packed(recs) \ {p}
  BY <1>1, <1>4, <1>5 DEF Packed, Once
<1>7. Once(new)
  BY <1>1, <1>4, <1>5 DEF Once
<1> QED
  BY <1>4, <1>5, <1>6, <1>7 DEF new

-----------------------------------------------------------------------------
(* One client at a time. *)

\* The file has one format, and its header counts all of its records.
FileInv ==
  /\ file.fmt # "garbled"
  /\ IF file.fmt = "moo" THEN Len(file.recs) <= file.count ELSE file.count = 0

\* An operation writes to the file as it was when it began: to a blank place or
\* at the end, or over the packet it has read.
OpInv ==
  \A c \in Clients :
    /\ pc[c] \in {"header", "packet"} =>
         /\ op[c].packet \in hand[c]
         /\ op[c].at \in DOMAIN file.recs => file.recs[op[c].at] = Blank
    /\ pc[c] = "header" =>
         /\ op[c].fmt = "moo" /\ file.fmt # "stock" /\ op[c].at = file.count + 1
         /\ At(Blank) = {}
    /\ pc[c] = "packet" =>
         IF op[c].fmt = "moo" THEN file.fmt = "moo" /\ op[c].at <= file.count
                              ELSE file.fmt # "moo"
    /\ pc[c] = "blank" =>
         /\ op[c].fmt = file.fmt /\ op[c].at \in DOMAIN file.recs
         /\ file.recs[op[c].at] = op[c].packet
         /\ op[c].all => \A i \in DOMAIN file.recs : i # op[c].at => file.recs[i] = Blank
    /\ pc[c] = "zap" => \A i \in DOMAIN file.recs : file.recs[i] = Blank

Kept ==
  /\ promised \subseteq Packed(file.recs)
  /\ Once(file.recs)
  /\ \A c \in Clients : hand[c] \cap Packed(file.recs) = {}

KeepInv == FileInv /\ OpInv /\ Kept

\* A scan gets to every record there is.
LEMMA AllScanned ==
  ASSUME TypeOK, FileInv
  PROVE  /\ Len(file.recs) \in Nat /\ DOMAIN file.recs = 1 .. Len(file.recs)
         /\ Scanned = DOMAIN file.recs
         /\ Free = At(Blank) /\ Full = DOMAIN file.recs \ At(Blank)
         /\ Stored = Packed(file.recs)
<1>1. Len(file.recs) \in Nat /\ DOMAIN file.recs = 1 .. Len(file.recs) /\ file.count \in Nat
  BY LenProperties DEF TypeOK, File
<1>2. Scanned = DOMAIN file.recs
  BY <1>1 DEF Scanned, FileInv
<1>3. Free = At(Blank) /\ Full = DOMAIN file.recs \ At(Blank)
  BY <1>2 DEF Free, Full, At
<1>4. Stored = Packed(file.recs)
  BY <1>3, RecordsDiffer DEF Stored, Packed, At
<1> QED
  BY <1>1, <1>2, <1>3, <1>4
\* The client writes in the format of the file.
LEMMA WritesFit ==
  ASSUME TypeOK, FileInv, OpInv, NEW c \in Clients, pc[c] \in {"packet", "blank"},
         NEW record
  PROVE  FileWith(op[c].fmt, op[c].at, record)
           = [file EXCEPT !.fmt = op[c].fmt, !.recs = With(file.recs, op[c].at, record)]
<1>1. op[c].fmt \in {"stock", "moo"} /\ file.fmt \in {"empty", "stock", "moo"}
  BY DEF TypeOK, File, FileInv
<1>2. CASE pc[c] = "packet"
  BY <1>1, <1>2 DEF OpInv, FileWith
<1>3. CASE pc[c] = "blank"
  BY <1>1, <1>3 DEF OpInv, FileWith
<1> QED
  BY <1>2, <1>3

\* What the two writes do to the file, and what of it they leave alone.
LEMMA PutWrites ==
  ASSUME TypeOK, KeepInv, NEW c \in Clients, WritePacket(c)
  PROVE  /\ file'.fmt = op[c].fmt /\ file'.count = file.count
         /\ Len(file'.recs) =
              IF op[c].at > Len(file.recs) THEN op[c].at ELSE Len(file.recs)
         /\ op[c].packet \in Packets \ Packed(file.recs) /\ op[c].packet \in hand[c]
         /\ Packed(file'.recs) = Packed(file.recs) \cup {op[c].packet}
         /\ Once(file'.recs)
<1>1. pc[c] = "packet" /\ op[c].packet \in Packets /\ op[c].packet \in hand[c]
  BY DEF WritePacket, TypeOK, KeepInv, OpInv
<1>2. file' = [file EXCEPT !.fmt = op[c].fmt,
                           !.recs = With(file.recs, op[c].at, op[c].packet)]
  BY <1>1, WritesFit DEF WritePacket, KeepInv
<1>3. /\ file'.fmt = op[c].fmt /\ file'.count = file.count
      /\ file'.recs = With(file.recs, op[c].at, op[c].packet)
  BY <1>2 DEF TypeOK, File
<1>4. file.recs \in Seq(Record) /\ op[c].at \in Nat \ {0} /\ op[c].packet \in Record
  BY <1>1 DEF TypeOK, File, Record
<1>5. op[c].packet \notin Packed(file.recs) /\ Once(file.recs)
  BY <1>1 DEF KeepInv, Kept
<1>6. op[c].at \in DOMAIN file.recs => file.recs[op[c].at] = Blank
  BY <1>1 DEF KeepInv, OpInv
<1>7. /\ Packed(file'.recs) = Packed(file.recs) \cup {op[c].packet}
      /\ Once(file'.recs)
  BY <1>1, <1>3, <1>4, <1>5, <1>6, PutAdds
<1>8. Len(file'.recs) = IF op[c].at > Len(file.recs) THEN op[c].at ELSE Len(file.recs)
  <2>1. Len(With(file.recs, op[c].at, op[c].packet))
          = IF op[c].at > Len(file.recs) THEN op[c].at ELSE Len(file.recs)
    BY <1>4, WithLen
  <2> QED BY <1>3, <2>1
<1> QED
  BY <1>1, <1>3, <1>5, <1>7, <1>8

LEMMA GetWrites ==
  ASSUME TypeOK, KeepInv, NEW c \in Clients, WriteBlank(c)
  PROVE  /\ file'.fmt = file.fmt /\ file'.count = file.count
         /\ DOMAIN file'.recs = DOMAIN file.recs /\ Len(file'.recs) = Len(file.recs)
         /\ op[c].packet \in Packets \cap Packed(file.recs)
         /\ Packed(file'.recs) = Packed(file.recs) \ {op[c].packet}
         /\ Once(file'.recs)
         /\ \A i \in DOMAIN file.recs :
              file'.recs[i] = IF i = op[c].at THEN Blank ELSE file.recs[i]
<1>1. pc[c] = "blank" /\ op[c].packet \in Packets
  BY DEF WriteBlank, TypeOK
<1>2. /\ op[c].fmt = file.fmt /\ op[c].at \in DOMAIN file.recs
      /\ file.recs[op[c].at] = op[c].packet
  BY <1>1 DEF KeepInv, OpInv
<1>3. file' = [file EXCEPT !.fmt = op[c].fmt, !.recs = With(file.recs, op[c].at, Blank)]
  BY <1>1, WritesFit DEF WriteBlank, KeepInv
<1>4. /\ file'.fmt = file.fmt /\ file'.count = file.count
      /\ file'.recs = With(file.recs, op[c].at, Blank)
  BY <1>2, <1>3 DEF TypeOK, File
<1>5. file.recs \in Seq(Record) /\ Once(file.recs)
  BY DEF TypeOK, File, KeepInv, Kept
<1>6. /\ Packed(file'.recs) = Packed(file.recs) \ {op[c].packet}
      /\ Once(file'.recs) /\ DOMAIN file'.recs = DOMAIN file.recs
      /\ \A i \in DOMAIN file.recs :
           file'.recs[i] = IF i = op[c].at THEN Blank ELSE file.recs[i]
  BY <1>1, <1>2, <1>4, <1>5, GetRemoves
<1>7. op[c].packet \in Packed(file.recs)
  BY <1>1, <1>2 DEF Packed
<1>8. Len(file'.recs) = Len(file.recs)
  <2>1. Blank \in Record /\ op[c].at \in Nat \ {0} /\ op[c].at \in 1 .. Len(file.recs)
    BY <1>2, <1>5, LenProperties DEF Record, TypeOK
  <2>2. Len(With(file.recs, op[c].at, Blank))
          = IF op[c].at > Len(file.recs) THEN op[c].at ELSE Len(file.recs)
    BY <1>5, <2>1, WithIsSeq
  <2> QED BY <1>4, <1>5, <2>1, <2>2, LenProperties
<1> QED
  BY <1>1, <1>4, <1>6, <1>7, <1>8

LEMMA KeepStep ==
  ASSUME NEW one, Clients = {one}, TypeOK, KeepInv, [Next]_vars
  PROVE  KeepInv'
<1> USE DEF KeepInv, FileInv, OpInv, Kept
<1>0. /\ Len(file.recs) \in Nat /\ DOMAIN file.recs = 1 .. Len(file.recs)
      /\ Free = At(Blank) /\ Full = DOMAIN file.recs \ At(Blank)
      /\ file.count \in Nat
  BY AllScanned DEF TypeOK, File
<1>1. ASSUME NEW c \in Clients, BeginPut(c) PROVE KeepInv'
  <2>1. UNCHANGED <<file, hand, promised>>
    BY <1>1 DEF BeginPut
  <2>2. CASE UNCHANGED <<pc, op>>
    BY <2>1, <2>2 DEF At
  <2>3. CASE ~UNCHANGED <<pc, op>>
    <3>1. PICK p \in hand[c], counting \in BOOLEAN :
            LET fmt  == IF WritesMoo(c) THEN "moo" ELSE "stock"
                slot == IF WritesMoo(c) THEN MooSlot ELSE StockSlot(counting)
            IN  /\ op' = [op EXCEPT ![c] = [packet |-> p, fmt |-> fmt,
                                            at |-> slot, all |-> FALSE]]
                /\ pc' = [pc EXCEPT ![c] = IF fmt = "moo" /\ slot > file.count
                                           THEN "header" ELSE "packet"]
      BY <1>1, <2>3 DEF BeginPut
    <3>2. CASE WritesMoo(c)
      <4>1. /\ op'[c] = [packet |-> p, fmt |-> "moo", at |-> MooSlot, all |-> FALSE]
            /\ pc'[c] = IF MooSlot > file.count THEN "header" ELSE "packet"
        BY <3>1, <3>2 DEF TypeOK
      <4>2. file.fmt = "moo" \/ file = EmptyFile
        BY <3>2 DEF WritesMoo, TypeOK
      <4>3. Len(file.recs) <= file.count
        BY <4>2, EmptySeq DEF EmptyFile
      <4>4. IF At(Blank) = {} THEN MooSlot = file.count + 1 ELSE MooSlot \in At(Blank)
        BY <1>0, Slots
      <4>5. MooSlot \in DOMAIN file.recs => file.recs[MooSlot] = Blank
        BY <1>0, <4>3, <4>4 DEF At
      <4>6. MooSlot > file.count => At(Blank) = {} /\ MooSlot = file.count + 1
        BY <1>0, <4>3, <4>4 DEF At
      <4>7. MooSlot <= file.count => file.fmt = "moo"
        <5>1. file = EmptyFile => At(Blank) = {} /\ file.count = 0
          BY DEF EmptyFile, At
        <5> QED BY <4>2, <4>4, <5>1
      <4>8. MooSlot \in Nat
        BY Slots
      <4> QED BY <1>0, <2>1, <4>1, <4>2, <4>5, <4>6, <4>7, <4>8 DEF At, EmptyFile
    <3>3. CASE ~WritesMoo(c)
      <4>1. /\ op'[c] = [packet |-> p, fmt |-> "stock", at |-> StockSlot(counting),
                         all |-> FALSE]
            /\ pc'[c] = "packet"
        BY <3>1, <3>3 DEF TypeOK
      <4>2. StockSlot(counting) \in DOMAIN file.recs => file.recs[StockSlot(counting)] = Blank
        BY <1>0, Slots DEF At
      <4> QED BY <2>1, <3>3, <4>1, <4>2 DEF WritesMoo
    <3> QED BY <3>2, <3>3
  <2> QED BY <2>2, <2>3
<1>2. ASSUME NEW c \in Clients, CreateMoo(c) PROVE KeepInv'
  <2>1. file.recs = <<>> /\ file.count = 0 /\ file'.recs = <<>> /\ file'.count = 0
        /\ file'.fmt = "moo"
    BY <1>2 DEF CreateMoo, EmptyFile
  <2> QED BY <1>2, <2>1, EmptySeq DEF CreateMoo, At
<1>3. ASSUME NEW c \in Clients, WriteHeader(c) PROVE KeepInv'
  <2>1. file.fmt # "stock" /\ op[c].at = file.count + 1 /\ op[c].fmt = "moo"
    BY <1>3 DEF WriteHeader
  <2>2. file'.fmt = "moo" /\ file'.count = file.count + 1 /\ file'.recs = file.recs
    BY <1>3, <2>1 DEF WriteHeader, TypeOK, File
  <2>3. Len(file.recs) <= file.count
    BY EmptySeq, <2>1 DEF TypeOK, File, EmptyFile
  <2> QED BY <1>0, <1>3, <2>1, <2>2, <2>3 DEF WriteHeader, TypeOK
<1>4. ASSUME NEW c \in Clients, WritePacket(c) PROVE KeepInv'
  <2>1. /\ file'.fmt = op[c].fmt /\ file'.count = file.count
        /\ Len(file'.recs) = IF op[c].at > Len(file.recs) THEN op[c].at ELSE Len(file.recs)
        /\ Packed(file'.recs) = Packed(file.recs) \cup {op[c].packet}
        /\ Once(file'.recs)
    BY <1>4, PutWrites
  <2>2. FileInv'
    BY <1>0, <1>4, <2>1 DEF WritePacket, TypeOK, File
  <2>3. OpInv'
    BY <1>4 DEF WritePacket, TypeOK
  <2>4. Kept'
    BY <1>4, <2>1 DEF WritePacket, TypeOK
  <2> QED BY <2>2, <2>3, <2>4
<1>5. ASSUME NEW c \in Clients, GetFinds(c) PROVE KeepInv'
  <2>1. UNCHANGED <<file, hand, promised>>
    BY <1>5 DEF GetFinds
  <2>2. Min(Full) \in Full
    BY <1>5, Slots DEF GetFinds
  <2>3. Min(Full) \in DOMAIN file.recs
    BY <1>0, <2>2
  <2>4. /\ op'[c] = [packet |-> file.recs[Min(Full)], fmt |-> file.fmt, at |-> Min(Full),
                     all |-> file.fmt = "stock" /\ Min(Full) = Len(file.recs)]
        /\ pc'[c] = "blank"
    BY <1>5 DEF GetFinds, TypeOK
  <2>5. Min(Full) = Len(file.recs) =>
          \A i \in DOMAIN file.recs : i # Min(Full) => file.recs[i] = Blank
    <3>1. \A i \in Full : Min(Full) =< i
      <4>1. Full \in SUBSET Nat
        BY <1>0
      <4> QED BY <2>2, <4>1, MinOfPlaces
    <3> SUFFICES ASSUME Min(Full) = Len(file.recs),
                        NEW i \in DOMAIN file.recs, i # Min(Full), file.recs[i] # Blank
                 PROVE  FALSE
      OBVIOUS
    <3>2. i \in Full
      BY <1>0 DEF At
    <3> QED BY <1>0, <3>1, <3>2
  <2>6. FileInv' /\ Kept'
    BY <2>1
  <2>7. /\ op'[c].packet = file.recs[Min(Full)] /\ op'[c].fmt = file.fmt
        /\ op'[c].at = Min(Full)
        /\ op'[c].all => Min(Full) = Len(file.recs)
    <3>1. op'[c].all = (file.fmt = "stock" /\ Min(Full) = Len(file.recs))
      BY <2>4
    <3>2. op'[c].packet = file.recs[Min(Full)] /\ op'[c].fmt = file.fmt
          /\ op'[c].at = Min(Full)
      BY <2>4
    <3> QED BY <3>1, <3>2
  <2>8. OpInv'
    <3> SUFFICES ASSUME NEW d \in Clients PROVE d = c
      BY <2>1, <2>3, <2>4, <2>5, <2>7
    <3> QED OBVIOUS
  <2> QED BY <2>6, <2>8
<1>6. ASSUME NEW c \in Clients, GetMisses(c) PROVE KeepInv'
  <2>1. UNCHANGED <<file, op, hand, promised>> /\ Full = {} /\ pc'[c] \in {"zap", "idle"}
    BY <1>6 DEF GetMisses, TypeOK
  <2>2. \A i \in DOMAIN file.recs : file.recs[i] = Blank
    BY <1>0, <2>1 DEF At
  <2> QED BY <2>1, <2>2 DEF At
<1>7. ASSUME NEW c \in Clients, WriteBlank(c) PROVE KeepInv'
  <2>1. /\ file'.fmt = file.fmt /\ file'.count = file.count
        /\ DOMAIN file'.recs = DOMAIN file.recs /\ Len(file'.recs) = Len(file.recs)
        /\ Packed(file'.recs) = Packed(file.recs) \ {op[c].packet}
        /\ op[c].packet \in Packets
        /\ Once(file'.recs)
        /\ \A i \in DOMAIN file.recs :
             file'.recs[i] = IF i = op[c].at THEN Blank ELSE file.recs[i]
    BY <1>7, GetWrites
  <2>2. FileInv'
    BY <2>1
  <2>3. OpInv'
    BY <1>7, <2>1 DEF WriteBlank, TypeOK
  <2>4. Kept'
    BY <1>7, <2>1 DEF WriteBlank, TypeOK
  <2> QED BY <2>2, <2>3, <2>4
<1>8. ASSUME NEW c \in Clients, Zap(c) PROVE KeepInv'
  <2>1. \A i \in DOMAIN file.recs : file.recs[i] = Blank
    BY <1>8 DEF Zap
  <2>2. Packed(file.recs) = {}
    BY <2>1, RecordsDiffer DEF Packed
  <2>3. /\ file'.fmt = "empty" /\ file'.count = 0 /\ file'.recs = <<>>
        /\ Packed(file'.recs) = {} /\ Once(file'.recs)
    BY <1>8 DEF Zap, EmptyFile, Packed, Once
  <2> QED BY <1>8, <2>2, <2>3 DEF Zap, TypeOK
<1>9. ASSUME NEW c \in Clients, Sniff(c) PROVE KeepInv'
  BY <1>9 DEF Sniff, At
<1>10. ASSUME NEW c \in Clients, Crash(c) PROVE KeepInv'
  BY <1>10 DEF Crash, TypeOK
<1>11. CASE UNCHANGED vars BY <1>11 DEF vars, At
<1> QED
  BY <1>1, <1>2, <1>3, <1>4, <1>5, <1>6, <1>7, <1>8, <1>9, <1>10, <1>11 DEF Next

\* Several clients may hold the packets that the file does not.
LEMMA KeepInit ==
  ASSUME Init PROVE KeepInv
<1>1. CASE file = EmptyFile
  BY <1>1 DEF Init, EmptyFile, KeepInv, FileInv, OpInv, Kept, Packed, Once, Stored,
              Full, Scanned
<1>2. ASSUME NEW p \in Packets,
             file \in {[fmt |-> "stock", count |-> 0, recs |-> <<Blank, p>>],
                       [fmt |-> "moo", count |-> 2, recs |-> <<Blank, p>>],
                       [fmt |-> "moo", count |-> 0, recs |-> <<>>]}
      PROVE  KeepInv
  <2>1. FileInv
    <3>1. Len(<<Blank, p>>) = 2 /\ Len(<<>>) = 0
      OBVIOUS
    <3>2. CASE file = [fmt |-> "stock", count |-> 0, recs |-> <<Blank, p>>]
      BY <3>2 DEF FileInv
    <3>3. CASE file = [fmt |-> "moo", count |-> 2, recs |-> <<Blank, p>>]
      BY <3>1, <3>3 DEF FileInv
    <3>4. CASE file = [fmt |-> "moo", count |-> 0, recs |-> <<>>]
      BY <3>1, <3>4 DEF FileInv
    <3> QED BY <1>2, <3>2, <3>3, <3>4
  <2>2. OpInv
    BY DEF Init, OpInv
  <2>3. Kept
    BY <1>2, RecordsDiffer DEF Init, Kept, Packed, Once, Stored, Full, Scanned, At
  <2> QED BY <2>1, <2>2, <2>3 DEF KeepInv
<1> QED
  BY <1>1, <1>2 DEF Init
LEMMA AlwaysKept ==
  ASSUME NEW CONSTANT one, Clients = {one}
  PROVE  Spec => []KeepInv
<1>1. Init => KeepInv
  BY KeepInit
<1>2. TypeOK /\ KeepInv /\ [Next]_vars => KeepInv'
  BY KeepStep
<1> QED
  BY <1>1, <1>2, RecordFileTypeCorrect, PTL DEF Spec

\* "on failure returns -1, else 0" (buffpub.cpp:456): a packet of which a put said
\* 0 is in the file until it is got, once, and in nobody's hand, for any number of
\* crashes between any two writes.  One client uses the file at a time: nothing
\* locks it, and two that do not take turns can write to the same place.
THEOREM PutIsKept ==
  ASSUME NEW CONSTANT one, Clients = {one}
  PROVE  Spec => []PutStores
<1>1. TypeOK /\ KeepInv => PutStores
  BY AllScanned DEF KeepInv, Kept, PutStores, Once
<1> QED
  BY <1>1, AlwaysKept, RecordFileTypeCorrect, PTL

-----------------------------------------------------------------------------
(* The length of the file. *)

\* When no place is blank, the packet to be put makes one more than there are in
\* the file, all of them different.
LEMMA FullHouse ==
  ASSUME TypeOK, KeepInv, At(Blank) = {}, NEW c \in Clients, NEW p \in hand[c]
  PROVE  Len(file.recs) + 1 <= Cardinality(Packets)
<1>1. /\ Len(file.recs) \in Nat /\ DOMAIN file.recs = 1 .. Len(file.recs)
      /\ file.recs \in [1 .. Len(file.recs) -> Record]
  BY LenProperties DEF TypeOK, File
<1>2. \A i \in DOMAIN file.recs : file.recs[i] \in Packets
  BY <1>1 DEF At, Record
<1>3. \A i \in DOMAIN file.recs : file.recs[i] # p
  BY <1>2 DEF KeepInv, Kept, Packed
<1>4. file.recs \in Injection(1 .. Len(file.recs), Packets \ {p})
  BY <1>1, <1>2, <1>3 DEF KeepInv, Kept, Once, Injection, IsInjective
<1>5. p \in Packets
  BY DEF TypeOK
<1>6. /\ IsFiniteSet(Packets \ {p})
      /\ Cardinality(Packets \ {p}) = Cardinality(Packets) - 1
      /\ Cardinality(Packets) \in Nat
  BY <1>5, RecordFileAssumption, FS_RemoveElement, FS_CardinalityType
<1>7. Cardinality(1 .. Len(file.recs)) <= Cardinality(Packets \ {p})
  BY <1>4, <1>6, FS_Injection
<1>8. Cardinality(1 .. Len(file.recs)) = Len(file.recs)
  BY <1>1, FS_Interval
<1> QED
  BY <1>1, <1>6, <1>7, <1>8

\* The client writes beyond the end of the file.
Extending == \E c \in Clients : pc[c] = "packet" /\ op[c].at > Len(file.recs)

\* A file grows when it has no blank place.  The count of a moo file is ahead of
\* its records by the places that were counted and not written: one for each
\* crash, and one while the client is between the two writes.
GrowthInv ==
  /\ IF file.fmt = "moo"
     THEN /\ file.count <= Cardinality(Packets) + crashes
          /\ file.count - Len(file.recs) <= crashes + (IF Extending THEN 1 ELSE 0)
     ELSE Len(file.recs) <= Cardinality(Packets)
  /\ \A c \in Clients : pc[c] = "packet" /\ op[c].at > Len(file.recs) =>
       IF op[c].fmt = "moo" THEN op[c].at = file.count
                            ELSE op[c].at <= Cardinality(Packets)

LEMMA GrowthStep ==
  ASSUME NEW one, Clients = {one}, TypeOK, KeepInv, KeepInv', GrowthInv, [Next]_vars
  PROVE  GrowthInv'
<1> USE DEF GrowthInv, Extending
<1>0. /\ Len(file.recs) \in Nat /\ DOMAIN file.recs = 1 .. Len(file.recs)
      /\ Free = At(Blank) /\ Full = DOMAIN file.recs \ At(Blank)
      /\ file.count \in Nat /\ crashes \in Nat /\ Cardinality(Packets) \in Nat
  BY AllScanned, RecordFileAssumption, FS_CardinalityType DEF TypeOK, File, KeepInv
<1>1. ASSUME NEW c \in Clients, BeginPut(c) PROVE GrowthInv'
  <2>1. UNCHANGED <<file, crashes>> /\ pc[c] = "idle"
    BY <1>1 DEF BeginPut
  <2>2. CASE UNCHANGED <<pc, op>>
    BY <2>1, <2>2
  <2>3. CASE ~UNCHANGED <<pc, op>>
    <3>1. PICK p \in hand[c], counting \in BOOLEAN :
            LET fmt  == IF WritesMoo(c) THEN "moo" ELSE "stock"
                slot == IF WritesMoo(c) THEN MooSlot ELSE StockSlot(counting)
            IN  /\ op' = [op EXCEPT ![c] = [packet |-> p, fmt |-> fmt,
                                            at |-> slot, all |-> FALSE]]
                /\ pc' = [pc EXCEPT ![c] = IF fmt = "moo" /\ slot > file.count
                                           THEN "header" ELSE "packet"]
      BY <1>1, <2>3 DEF BeginPut
    <3>2. CASE WritesMoo(c)
      <4>1. op'[c].at = MooSlot /\ pc'[c] = IF MooSlot > file.count THEN "header" ELSE "packet"
        BY <3>1, <3>2 DEF TypeOK
      <4>2. IF At(Blank) = {} THEN MooSlot = file.count + 1 ELSE MooSlot <= Len(file.recs)
        BY <1>0, Slots
      <4>3. pc'[c] = "packet" => op'[c].at <= Len(file.recs)
        BY <1>0, <4>1, <4>2
      <4>4. MooSlot \in Nat
        BY Slots
      <4> QED BY <1>0, <2>1, <4>1, <4>3, <4>4
    <3>3. CASE ~WritesMoo(c)
      <4>1. /\ op'[c].at = StockSlot(counting) /\ pc'[c] = "packet" /\ op'[c].fmt = "stock"
        BY <3>1, <3>3 DEF TypeOK
      <4>2. IF At(Blank) = {} THEN StockSlot(counting) = Len(file.recs) + 1
                              ELSE StockSlot(counting) <= Len(file.recs)
        BY <1>0, Slots
      <4>3. file.fmt # "moo"
        BY <3>3 DEF WritesMoo
      <4>4. StockSlot(counting) > Len(file.recs) => StockSlot(counting) <= Cardinality(Packets)
        <5>1. CASE At(Blank) = {}
          <6>1. Len(file.recs) + 1 <= Cardinality(Packets)
            BY <5>1, FullHouse
          <6> QED BY <4>2, <5>1, <6>1
        <5>2. CASE At(Blank) # {}
          <6>1. StockSlot(counting) <= Len(file.recs) /\ StockSlot(counting) \in Nat
            BY <4>2, <5>2, Slots
          <6> QED BY <1>0, <6>1
        <5> QED BY <5>1, <5>2
      <4> QED BY <2>1, <4>1, <4>3, <4>4
    <3> QED BY <3>2, <3>3
  <2> QED BY <2>2, <2>3
<1>2. ASSUME NEW c \in Clients, CreateMoo(c) PROVE GrowthInv'
  <2>1. /\ file'.recs = <<>> /\ file'.count = 0 /\ file'.fmt = "moo" /\ pc'[c] = "header"
        /\ crashes' = crashes
    BY <1>2 DEF CreateMoo
  <2> QED BY <1>0, <2>1, EmptySeq
<1>3. ASSUME NEW c \in Clients, WriteHeader(c) PROVE GrowthInv'
  <2>1. /\ file.fmt # "stock" /\ op[c].at = file.count + 1 /\ op[c].fmt = "moo"
        /\ At(Blank) = {} /\ op[c].packet \in hand[c] /\ file.fmt # "garbled"
    BY <1>3 DEF WriteHeader, KeepInv, OpInv, FileInv
  <2>2. /\ file'.fmt = "moo" /\ file'.count = file.count + 1 /\ file'.recs = file.recs
        /\ op' = op /\ pc'[c] = "packet" /\ pc[c] = "header" /\ crashes' = crashes
    BY <1>3, <2>1 DEF WriteHeader, TypeOK, File
  <2>3. Len(file.recs) + 1 <= Cardinality(Packets)
    BY <2>1, FullHouse
  <2>4. Len(file.recs) <= file.count /\ file.count - Len(file.recs) <= crashes
    <3>1. CASE file.fmt = "moo"
      <4>1. ~Extending
        BY <2>2
      <4>2. file.count - Len(file.recs) <= crashes
        BY <1>0, <3>1, <4>1
      <4> QED BY <3>1, <4>2 DEF KeepInv, FileInv
    <3>2. CASE file.fmt # "moo"
      <4>1. file.count = 0 /\ Len(file.recs) = 0
        BY <2>1, <3>2, EmptySeq DEF TypeOK, File, EmptyFile
      <4> QED BY <1>0, <4>1
    <3> QED BY <3>1, <3>2
  <2> QED BY <1>0, <2>1, <2>2, <2>3, <2>4
<1>4. ASSUME NEW c \in Clients, WritePacket(c) PROVE GrowthInv'
  <2>1. /\ file'.fmt = op[c].fmt /\ file'.count = file.count
        /\ Len(file'.recs) = IF op[c].at > Len(file.recs) THEN op[c].at ELSE Len(file.recs)
    BY <1>4, PutWrites
  <2>2. pc[c] = "packet" /\ pc'[c] = "idle" /\ crashes' = crashes
    BY <1>4 DEF WritePacket, TypeOK
  <2>3. /\ op[c].fmt \in {"stock", "moo"} /\ op[c].at \in Nat
        /\ IF op[c].fmt = "moo" THEN file.fmt = "moo" ELSE file.fmt # "moo"
    BY <2>2 DEF TypeOK, KeepInv, OpInv
  <2> QED BY <1>0, <2>1, <2>2, <2>3
<1>5. ASSUME NEW c \in Clients, GetFinds(c) \/ GetMisses(c) \/ Sniff(c) PROVE GrowthInv'
  <2>1. /\ UNCHANGED <<file, crashes>> /\ pc[c] = "idle" /\ pc'[c] # "packet"
    BY <1>5 DEF GetFinds, GetMisses, Sniff, TypeOK
  <2> QED BY <2>1
<1>6. ASSUME NEW c \in Clients, WriteBlank(c) PROVE GrowthInv'
  <2>1. /\ file'.fmt = file.fmt /\ file'.count = file.count
        /\ Len(file'.recs) = Len(file.recs)
    BY <1>6, GetWrites
  <2>2. /\ pc[c] = "blank" /\ pc'[c] # "packet" /\ crashes' = crashes
    BY <1>6 DEF WriteBlank, TypeOK
  <2> QED BY <2>1, <2>2
<1>7. ASSUME NEW c \in Clients, Zap(c) PROVE GrowthInv'
  <2>1. file'.fmt = "empty" /\ file'.recs = <<>> /\ pc'[c] = "idle"
    BY <1>7 DEF Zap, TypeOK, EmptyFile
  <2> QED BY <1>0, <2>1, EmptySeq
<1>8. ASSUME NEW c \in Clients, Crash(c) PROVE GrowthInv'
  <2>1. pc'[c] = "idle" /\ crashes' = crashes + 1 /\ file' = file
    BY <1>8 DEF Crash, TypeOK
  <2> QED BY <1>0, <2>1
<1>9. CASE UNCHANGED vars BY <1>9 DEF vars
<1> QED
  BY <1>1, <1>2, <1>3, <1>4, <1>5, <1>6, <1>7, <1>8, <1>9 DEF Next

\* Blank places are used again: a file holds no more places than there are packets
\* and crashes, however often packets are put and got.  The files the model
\* begins with have two places, hence the hypothesis on the number of packets.
THEOREM FileIsBounded ==
  ASSUME NEW CONSTANT one, Clients = {one}, Cardinality(Packets) >= 2
  PROVE  Spec => []Bounded
<1>1. Init => GrowthInv
  <2> SUFFICES ASSUME Init PROVE GrowthInv
    OBVIOUS
  <2>1. Len(<<>>) = 0 /\ \A p : Len(<<Blank, p>>) = 2
    OBVIOUS
  <2>2. Cardinality(Packets) \in Nat /\ crashes = 0 /\ \A c \in Clients : pc[c] = "idle"
    BY RecordFileAssumption, FS_CardinalityType DEF Init
  <2>3. CASE file = EmptyFile
    BY <2>1, <2>2, <2>3 DEF EmptyFile, GrowthInv
  <2>4. ASSUME NEW p \in Packets, file = [fmt |-> "stock", count |-> 0, recs |-> <<Blank, p>>]
        PROVE  GrowthInv
    BY <2>1, <2>2, <2>4 DEF GrowthInv
  <2>5. ASSUME NEW p \in Packets, file = [fmt |-> "moo", count |-> 2, recs |-> <<Blank, p>>]
        PROVE  GrowthInv
    BY <2>1, <2>2, <2>5 DEF GrowthInv, Extending
  <2>6. ASSUME file = [fmt |-> "moo", count |-> 0, recs |-> <<>>] PROVE GrowthInv
    BY <2>1, <2>2, <2>6 DEF GrowthInv, Extending
  <2> QED BY <2>3, <2>4, <2>5, <2>6 DEF Init
<1>2. TypeOK /\ KeepInv /\ KeepInv' /\ GrowthInv /\ [Next]_vars => GrowthInv'
  BY GrowthStep
<1>3. TypeOK /\ KeepInv /\ GrowthInv => Bounded
  <2> SUFFICES ASSUME TypeOK, KeepInv, GrowthInv PROVE Bounded
    OBVIOUS
  <2>1. /\ Len(file.recs) \in Nat /\ file.count \in Nat /\ Cardinality(Packets) \in Nat
        /\ crashes \in Nat /\ crashes <= MaxCrashes /\ MaxCrashes \in Nat
    BY RecordFileAssumption, FS_CardinalityType, LenProperties DEF TypeOK, File
  <2> QED BY <2>1 DEF GrowthInv, KeepInv, FileInv, Bounded
<1> QED
  BY <1>1, <1>2, <1>3, AlwaysKept, RecordFileTypeCorrect, PTL DEF Spec

-----------------------------------------------------------------------------
(* The refinement. *)

\* A file implements a store of packets: the write of a packet is the put, the
\* write of a blank over it the get, a crash is a crash, and every other step,
\* the header's and the truncation of a file of blanks among them, changes
\* nothing that a store promises.
THEOREM FileImplementsStore ==
  ASSUME NEW CONSTANT one, Clients = {one}
  PROVE  Spec => ImplementsStore
<1>1. Init => Store!Init
  <2> SUFFICES ASSUME Init PROVE Store!Init
    OBVIOUS
  <2>1. Stored \subseteq Packets
    BY DEF Stored
  <2> QED BY <2>1 DEF Init, Store!Init
<1>2. TypeOK /\ TypeOK' /\ KeepInv /\ KeepInv' /\ [Next]_vars
        => [Store!Next]_<<Stored, hand>>
  <2> SUFFICES ASSUME TypeOK, TypeOK', KeepInv, KeepInv', [Next]_vars
               PROVE  [Store!Next]_<<Stored, hand>>
    OBVIOUS
  <2>1. Stored = Packed(file.recs)
    BY AllScanned DEF KeepInv
  <2>2. Stored' = Packed(file'.recs)
    <3>1. /\ Len(file'.recs) \in Nat /\ DOMAIN file'.recs = 1 .. Len(file'.recs)
          /\ file'.count \in Nat
      BY LenProperties DEF TypeOK, File
    <3>2. Scanned' = DOMAIN file'.recs
      BY <3>1 DEF Scanned, KeepInv, FileInv
    <3> QED BY <3>2, RecordsDiffer DEF Stored, Packed, Full, At
  <2>3. ASSUME NEW c \in Clients, WritePacket(c) PROVE Store!Put(c)
    <3>1. /\ op[c].packet \in hand[c]
          /\ Packed(file'.recs) = Packed(file.recs) \cup {op[c].packet}
      BY <2>3, PutWrites
    <3> QED BY <2>1, <2>2, <2>3, <3>1 DEF WritePacket, Store!Put
  <2>4. ASSUME NEW c \in Clients, WriteBlank(c) PROVE Store!Get(c)
    <3>1. /\ op[c].packet \in Packed(file.recs)
          /\ Packed(file'.recs) = Packed(file.recs) \ {op[c].packet}
      BY <2>4, GetWrites
    <3> QED BY <2>1, <2>2, <2>4, <3>1 DEF WriteBlank, Store!Get
  <2>5. ASSUME NEW c \in Clients, Crash(c) PROVE Store!Crash(c)
    BY <2>1, <2>2, <2>5 DEF Crash, Store!Crash
  <2>6. ASSUME NEW c \in Clients, Zap(c) PROVE UNCHANGED <<Stored, hand>>
    <3>1. \A i \in DOMAIN file.recs : file.recs[i] = Blank
      BY <2>6 DEF Zap, KeepInv, OpInv
    <3>2. Packed(file.recs) = {}
      BY <3>1, RecordsDiffer DEF Packed
    <3>3. Packed(file'.recs) = {} /\ hand' = hand
      BY <2>6 DEF Zap, EmptyFile, Packed
    <3> QED BY <2>1, <2>2, <3>2, <3>3
  <2>7. ASSUME NEW c \in Clients, CreateMoo(c) \/ WriteHeader(c)
        PROVE  UNCHANGED <<Stored, hand>>
    <3>1. file'.recs = file.recs /\ hand' = hand
      <4>1. CASE CreateMoo(c)
        BY <4>1 DEF CreateMoo, EmptyFile
      <4>2. CASE WriteHeader(c)
        <5>1. file.fmt # "stock"
          BY <4>2 DEF WriteHeader, KeepInv, OpInv
        <5> QED BY <4>2, <5>1 DEF WriteHeader, TypeOK, File
      <4> QED BY <2>7, <4>1, <4>2
    <3> QED BY <2>1, <2>2, <3>1
  <2>8. ASSUME NEW c \in Clients, BeginPut(c) \/ GetFinds(c) \/ GetMisses(c) \/ Sniff(c)
        PROVE  UNCHANGED <<Stored, hand>>
    <3>1. UNCHANGED <<file, hand>>
      BY <2>8 DEF BeginPut, GetFinds, GetMisses, Sniff
    <3> QED BY <2>1, <2>2, <3>1
  <2>9. CASE UNCHANGED vars
    BY <2>1, <2>2, <2>9 DEF vars
  <2> QED
    BY <2>3, <2>4, <2>5, <2>6, <2>7, <2>8, <2>9 DEF Next, Store!Next
<1> QED
  BY <1>1, <1>2, AlwaysKept, RecordFileTypeCorrect, PTL
  DEF Spec, ImplementsStore, Store!Spec
=============================================================================
