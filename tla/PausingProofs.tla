---------------------------- MODULE PausingProofs ----------------------------
(***************************************************************************)
(* Proofs about Pausing, for any numbers of crunchers and of names in      *)
(* pauseplist, any size of the pieces of the table, and signals that come  *)
(* at any time: types (PausingTypeCorrect), and that every cruncher is     *)
(* registered once or held once (CruncherInOnePlace), which rests on what  *)
(* RegPolledProcedure does to a table and on an induction over the         *)
(* procedures that are registered again.                                   *)
(***************************************************************************)
EXTENDS Pausing, FiniteSetTheorems, NaturalsInduction, SequenceTheorems,
        WellFoundedInduction, TLAPS

All == 1 .. Crunchers
Entries == All \cup {None}

\* Whether cruncher c is in a list, and whether none is there twice.
In(list, c) == \E i \in DOMAIN list : list[i] = c
Once(list) == \A i, j \in DOMAIN list : list[i] = list[j] /\ list[i] \in All => i = j

\* Every cruncher is registered, or held, and not both, and not twice.
Placed ==
  pc # "stopped" =>
    /\ runlist \in Seq(Entries) /\ Once(runlist)
    /\ held \in Seq(All) /\ Once(held)
    /\ \A c \in All : In(runlist, c) <=> ~In(held, c)

\* A trigger on its way is changed by bits of its own.
Loaded ==
  /\ runlist \in Seq(Entries) /\ held \in Seq(All)
  /\ \/ rmw = NoRmw
     \/ rmw.of = "pause" /\ rmw.old \subseteq PauseBits /\ rmw.add \subseteq PauseBits
     \/ rmw.of = "exit" /\ rmw.old \subseteq {"signal", "file"} /\ rmw.add \subseteq {"signal", "file"}

-----------------------------------------------------------------------------
(* The table of procedures. *)

\* Places are numbers, so that there is a first among some of them ...
LEMMA LeastOf ==
  ASSUME NEW S \in SUBSET Nat, S # {}
  PROVE  Least(S) \in S /\ \A i \in S : Least(S) <= i
<1>1. PICK m \in S : \A i \in S : <<i, m>> \notin OpToRel(<, Nat)
  BY NatLessThanWellFounded, WFMin, Zenon
<1>2. \A i \in S : ~(i < m)
  BY <1>1, Zenon DEF OpToRel
<1>3. \A i \in S : m <= i
  BY <1>2
<1> QED
  BY <1>3 DEF Least

\* ... and one can count through all of them.
LEMMA SetInduction ==
  ASSUME NEW P \in SUBSET Nat, 0 \in P, \A n \in P : n + 1 \in P
  PROVE  Nat \subseteq P
<1> SUFFICES ASSUME Nat \ P # {} PROVE FALSE
  OBVIOUS
<1> DEFINE m == Least(Nat \ P)
<1>1. m \in Nat \ P /\ \A i \in Nat \ P : m <= i
  BY LeastOf
<1> HIDE DEF m
<1>2. m - 1 \in Nat /\ m - 1 \in P
  BY <1>1
<1> QED
  BY <1>1, <1>2

LEMMA NoneIsNoCruncher == None \notin All
BY PausingAssumption DEF All

\* A procedure is put into one entry that was free, or into the first of a new piece.
LEMMA RegFacts ==
  ASSUME NEW list \in Seq(Entries), NEW c \in All
  PROVE  LET new == RegPolledProcedure(list, c)
         IN /\ new \in Seq(Entries) /\ Len(list) <= Len(new)
            /\ \E k \in DOMAIN new :
                 /\ new[k] = c /\ (k \in DOMAIN list => list[k] = None)
                 /\ \A i \in DOMAIN new \ {k} : IF i \in DOMAIN list THEN new[i] = list[i]
                                                                    ELSE new[i] = None
                 /\ DOMAIN list \subseteq DOMAIN new
<1> DEFINE new == RegPolledProcedure(list, c)
<1>0. DOMAIN list = 1 .. Len(list) /\ Len(list) \in Nat /\ c \in Entries /\ None \in Entries
  BY LenProperties DEF Entries
<1>1. CASE Free(list) # {}
  <2> DEFINE k == Least(Free(list))
  <2>1. k \in Free(list)
    <3>1. Free(list) \in SUBSET Nat
      BY <1>0 DEF Free
    <3> QED BY <1>1, <3>1, LeastOf
  <2>2. k \in DOMAIN list /\ list[k] = None
    BY <2>1 DEF Free
  <2>3. new = [list EXCEPT ![k] = c]
    BY <1>1 DEF RegPolledProcedure
  <2> HIDE DEF k, new
  <2>4. new \in Seq(Entries) /\ Len(new) = Len(list)
    BY <1>0, <2>2, <2>3, ExceptSeq
  <2>5. DOMAIN new = DOMAIN list /\ new[k] = c /\ \A i \in DOMAIN new \ {k} : new[i] = list[i]
    BY <2>2, <2>3
  <2> QED BY <1>0, <2>2, <2>4, <2>5 DEF new
<1>2. CASE Free(list) = {}
  <2> DEFINE piece == [i \in 1 .. Chunk |-> IF i = 1 THEN c ELSE None]
             k == Len(list) + 1
  <2>1. Chunk \in Nat /\ Chunk > 0
    BY PausingAssumption
  <2>2. piece \in Seq(Entries) /\ Len(piece) = Chunk
    <3>1. piece \in [1 .. Chunk -> Entries]
      BY <1>0
    <3> HIDE DEF piece
    <3>2. piece \in Seq(Entries)
      BY <2>1, <3>1, SeqDef
    <3>3. DOMAIN piece = 1 .. Chunk
      BY <3>1
    <3> QED BY <2>1, <3>2, <3>3, LenProperties
  <2>3. \A i \in 1 .. Chunk : piece[i] = IF i = 1 THEN c ELSE None
    OBVIOUS
  <2>4. new = list \o piece
    BY <1>2 DEF RegPolledProcedure
  <2> HIDE DEF piece, new
  <2>5. new \in Seq(Entries) /\ Len(new) = Len(list) + Chunk
    BY <2>2, <2>4, ConcatProperties
  <2>6. \A i \in 1 .. Len(new) : new[i] = IF i <= Len(list) THEN list[i] ELSE piece[i - Len(list)]
    BY <2>2, <2>4, ConcatProperties
  <2>7. DOMAIN new = 1 .. Len(new)
    BY <2>5, LenProperties
  <2>8. k \in DOMAIN new /\ k \notin DOMAIN list /\ DOMAIN list \subseteq DOMAIN new
    BY <1>0, <2>1, <2>5, <2>7
  <2>9. new[k] = c
    <3>1. k - Len(list) = 1 /\ ~(k <= Len(list)) /\ 1 \in 1 .. Chunk
      BY <1>0, <2>1
    <3> HIDE DEF k
    <3> QED BY <2>3, <2>6, <2>7, <2>8, <3>1
  <2>10. ASSUME NEW i \in DOMAIN new \ {k}
         PROVE  IF i \in DOMAIN list THEN new[i] = list[i] ELSE new[i] = None
    <3>1. CASE i \in DOMAIN list
      BY <1>0, <2>6, <2>7, <3>1
    <3>2. CASE i \notin DOMAIN list
      <4>1. ~(i <= Len(list)) /\ i - Len(list) \in 1 .. Chunk /\ i - Len(list) # 1
        BY <1>0, <2>1, <2>5, <2>7, <3>2
      <4> HIDE DEF k
      <4> QED BY <2>3, <2>6, <2>7, <3>2, <4>1
    <3> QED BY <3>1, <3>2
  <2> HIDE DEF k
  <2> QED BY <1>0, <2>1, <2>5, <2>8, <2>9, <2>10 DEF new
<1> QED
  BY <1>1, <1>2

\* The others keep their places.
LEMMA RegPlaces ==
  ASSUME NEW list \in Seq(Entries), NEW c \in All
  PROVE  LET new == RegPolledProcedure(list, c)
         IN /\ new \in Seq(Entries) /\ Len(list) <= Len(new)
            /\ \A d \in All : In(new, d) <=> In(list, d) \/ d = c
            /\ Once(list) /\ ~In(list, c) => Once(new)
<1> DEFINE new == RegPolledProcedure(list, c)
<1>1. PICK k \in DOMAIN new :
        /\ new[k] = c /\ (k \in DOMAIN list => list[k] = None)
        /\ \A i \in DOMAIN new \ {k} : IF i \in DOMAIN list THEN new[i] = list[i]
                                                           ELSE new[i] = None
        /\ DOMAIN list \subseteq DOMAIN new
  BY RegFacts
<1>2. new \in Seq(Entries) /\ Len(list) <= Len(new)
  BY RegFacts
<1> HIDE DEF new
<1>3. \A d \in All : In(new, d) <=> In(list, d) \/ d = c
  BY <1>1, NoneIsNoCruncher DEF In
<1>4. ASSUME Once(list), ~In(list, c) PROVE Once(new)
  <2>1. \A i \in DOMAIN new \ {k} : new[i] # c
    BY <1>1, <1>4, NoneIsNoCruncher DEF In
  <2>2. \A i, j \in DOMAIN new \ {k} : new[i] = new[j] /\ new[i] \in All => i = j
    BY <1>1, <1>4, NoneIsNoCruncher DEF Once
  <2> QED BY <1>1, <2>1, <2>2 DEF Once
<1> QED
  BY <1>2, <1>3, <1>4 DEF new

-----------------------------------------------------------------------------
(* Procedures that are registered one after the other. *)

\* What the function that registers them computes, step by step.
LEMMA RegistersAll ==
  ASSUME NEW list \in Seq(Entries), NEW seq \in Seq(All)
  PROVE  \E reg : /\ \A i \in 0 .. Len(seq) :
                       reg[i] = IF i = 0 THEN list ELSE RegPolledProcedure(reg[i - 1], seq[i])
                  /\ Registered(list, seq) = reg[Len(seq)]
<1> DEFINE n == Len(seq)
           Step(f, i) == IF i = 0 THEN list ELSE RegPolledProcedure(f[i - 1], seq[i])
           Upto(m) == \E f : f = [i \in 0 .. m |-> Step(f, i)]
           P == {m \in Nat : Upto(m)}
<1>1. n \in Nat
  BY LenProperties
<1>2. 0 \in P
  <2> DEFINE f == [i \in 0 .. 0 |-> list]
  <2>1. f = [i \in 0 .. 0 |-> Step(f, i)]
    OBVIOUS
  <2> QED BY <2>1
<1>3. ASSUME NEW m \in P PROVE m + 1 \in P
  <2>1. PICK f : f = [i \in 0 .. m |-> Step(f, i)]
    OBVIOUS
  <2> DEFINE g == [i \in 0 .. m + 1 |-> IF i = m + 1 THEN RegPolledProcedure(f[m], seq[m + 1])
                                                  ELSE f[i]]
  <2>2. ASSUME NEW i \in 0 .. m + 1 PROVE g[i] = Step(g, i)
    <3>1. CASE i = m + 1
      <4>1. i # 0 /\ i - 1 = m /\ m \in 0 .. m + 1 /\ m # m + 1
        BY <3>1
      <4>2. g[m] = f[m] /\ g[i] = RegPolledProcedure(f[m], seq[m + 1])
        BY <3>1, <4>1
      <4> QED BY <3>1, <4>1, <4>2
    <3>2. CASE i # m + 1
      <4>1. i \in 0 .. m
        BY <3>2
      <4>2. g[i] = f[i] /\ f[i] = Step(f, i)
        BY <2>1, <3>2, <4>1
      <4>3. CASE i = 0
        BY <4>2, <4>3
      <4>4. CASE i # 0
        <5>1. i - 1 \in 0 .. m + 1 /\ i - 1 # m + 1
          BY <4>1, <4>4
        <5>2. g[i - 1] = f[i - 1]
          BY <5>1
        <5> QED BY <4>2, <4>4, <5>2
      <4> QED BY <4>3, <4>4
    <3> QED BY <3>1, <3>2
  <2>3. g = [i \in 0 .. m + 1 |-> Step(g, i)]
    BY <2>2
  <2>4. Upto(m + 1)
    <3> HIDE DEF g
    <3> QED BY <2>3
  <2>5. m + 1 \in Nat
    OBVIOUS
  <2> HIDE DEF Upto
  <2> QED BY <2>4, <2>5
<1>4. Upto(n)
  <2> HIDE DEF Upto
  <2>1. Nat \subseteq P
    <3>1. P \in SUBSET Nat
      OBVIOUS
    <3> HIDE DEF P
    <3> QED BY <1>2, <1>3, <3>1, SetInduction
  <2> QED BY <1>1, <2>1
<1> DEFINE reg == CHOOSE f : f = [i \in 0 .. n |-> Step(f, i)]
<1>5. reg = [i \in 0 .. n |-> Step(reg, i)]
  BY <1>4
<1>6. Registered(list, seq) = reg[n]
  BY DEF Registered
<1> HIDE DEF reg
<1> QED
  BY <1>5, <1>6

LEMMA RegisteredPlaces ==
  ASSUME NEW list \in Seq(Entries), NEW seq \in Seq(All)
  PROVE  LET new == Registered(list, seq)
         IN /\ new \in Seq(Entries) /\ Len(list) <= Len(new)
            /\ \A d \in All : In(new, d) <=> In(list, d) \/ In(seq, d)
            /\ Once(list) /\ Once(seq) /\ (\A d \in All : In(seq, d) => ~In(list, d)) => Once(new)
<1> DEFINE n == Len(seq)
           Fresh == Once(list) /\ Once(seq) /\ (\A d \in All : In(seq, d) => ~In(list, d))
<1>1. PICK reg : /\ \A i \in 0 .. n :
                      reg[i] = IF i = 0 THEN list ELSE RegPolledProcedure(reg[i - 1], seq[i])
                 /\ Registered(list, seq) = reg[n]
  BY RegistersAll
<1>2. n \in Nat /\ DOMAIN seq = 1 .. n /\ Len(list) \in Nat /\ \A i \in 1 .. n : seq[i] \in All
  BY LenProperties, ElementOfSeq
<1> DEFINE Good(i) ==
             /\ reg[i] \in Seq(Entries) /\ Len(list) <= Len(reg[i])
             /\ \A d \in All : In(reg[i], d) <=> In(list, d) \/ \E k \in 1 .. i : seq[k] = d
             /\ Fresh => Once(reg[i])
           P == {i \in Nat : i <= n => Good(i)}
<1>3. 0 \in P
  <2>1. reg[0] = list /\ 1 .. 0 = {}
    BY <1>1, <1>2
  <2> HIDE DEF n
  <2> QED BY <1>2, <2>1
<1>4. ASSUME NEW i \in P PROVE i + 1 \in P
  <2> SUFFICES ASSUME i + 1 <= n PROVE Good(i + 1)
    OBVIOUS
  <2>1. Good(i) /\ i + 1 \in 1 .. n /\ i + 1 \in 0 .. n /\ (i + 1) - 1 = i /\ i + 1 # 0
    BY <1>2
  <2> DEFINE c == seq[i + 1]
             list2 == reg[i]
             new == RegPolledProcedure(list2, c)
  <2>2. reg[i + 1] = new /\ c \in All /\ list2 \in Seq(Entries)
    BY <1>1, <1>2, <2>1
  <2> HIDE DEF new, c, list2
  <2>3. /\ new \in Seq(Entries) /\ Len(list2) <= Len(new)
        /\ \A d \in All : In(new, d) <=> In(list2, d) \/ d = c
        /\ Once(list2) /\ ~In(list2, c) => Once(new)
    BY <2>2, RegPlaces DEF new
  <2>4. \A k \in 1 .. i + 1 : k \in 1 .. i \/ k = i + 1
    OBVIOUS
  <2>5. 1 .. i \subseteq 1 .. i + 1 /\ i + 1 \in 1 .. i + 1
    OBVIOUS
  <2>6. ASSUME NEW d \in All
        PROVE  In(new, d) <=> In(list, d) \/ \E k \in 1 .. i + 1 : seq[k] = d
    BY <2>1, <2>3, <2>4, <2>5 DEF c, list2
  <2>7. Len(list) <= Len(new)
    <3>1. Len(list2) \in Nat /\ Len(new) \in Nat
      BY <2>2, <2>3, LenProperties
    <3> QED BY <1>2, <2>1, <2>3, <3>1 DEF list2
  <2>8. ASSUME Fresh PROVE Once(new)
    <3>1. ~\E k \in 1 .. i : seq[k] = c
      <4> SUFFICES ASSUME NEW k \in 1 .. i, seq[k] = c PROVE FALSE
        OBVIOUS
      <4>1. k \in DOMAIN seq /\ i + 1 \in DOMAIN seq /\ k # i + 1
        BY <1>2, <2>1
      <4> QED BY <2>2, <2>8, <4>1 DEF Once, c
    <3>2. ~In(list, c)
      <4>1. In(seq, c)
        BY <1>2, <2>1 DEF In, c
      <4> QED BY <2>2, <2>8, <4>1
    <3> QED BY <2>1, <2>2, <2>3, <2>8, <3>1, <3>2 DEF list2
  <2> QED BY <2>2, <2>3, <2>6, <2>7, <2>8
<1>5. n \in P
  <2>1. P \in SUBSET Nat
    OBVIOUS
  <2> HIDE DEF P
  <2>2. Nat \subseteq P
    BY <1>3, <1>4, <2>1, SetInduction
  <2> QED BY <1>2, <2>2
<1>6. Good(n)
  BY <1>2, <1>5
<1>7. \A d \in All : In(seq, d) <=> \E k \in 1 .. n : seq[k] = d
  BY <1>2 DEF In
<1> QED
  BY <1>1, <1>6, <1>7

-----------------------------------------------------------------------------
(* Types. *)

\* The procedure that is called is in the table.
LEMMA ScanFacts ==
  ASSUME runlist \in Seq(Entries), Scan # 0
  PROVE  /\ Scan \in DOMAIN runlist /\ Scan \in 1 .. Len(runlist) /\ Len(runlist) \in Nat
         /\ runlist[Scan] \in All
<1> DEFINE from == IF nextrun = 0 THEN 1 ELSE nextrun
           onward == {i \in InUse : i >= from}
           S == IF onward # {} THEN onward ELSE InUse
<1>1. DOMAIN runlist = 1 .. Len(runlist) /\ Len(runlist) \in Nat
  BY LenProperties
<1>2. InUse # {} /\ Scan = Least(S)
  BY DEF Scan
<1>3. S \subseteq InUse /\ S # {} /\ S \in SUBSET Nat
  BY <1>1, <1>2 DEF InUse
<1> HIDE DEF S
<1>4. Scan \in InUse
  BY <1>2, <1>3, LeastOf
<1>5. Scan \in DOMAIN runlist /\ runlist[Scan] # None
  BY <1>4 DEF InUse
<1>6. runlist[Scan] \in Entries
  BY <1>1, <1>5, ElementOfSeq
<1> QED
  BY <1>1, <1>5, <1>6 DEF Entries

\* The table without the procedure that is called.
LEMMA Without ==
  ASSUME runlist \in Seq(Entries), NEW s \in DOMAIN runlist, runlist[s] \in All
  PROVE  LET without == [runlist EXCEPT ![s] = None]
         IN /\ without \in Seq(Entries) /\ Len(without) = Len(runlist)
            /\ \A d \in All \ {runlist[s]} : In(without, d) <=> In(runlist, d)
            /\ Once(runlist) => Once(without) /\ ~In(without, runlist[s])
<1> DEFINE without == [runlist EXCEPT ![s] = None]
<1>1. None \in Entries /\ s \in 1 .. Len(runlist)
  BY LenProperties DEF Entries
<1>2. without \in Seq(Entries) /\ Len(without) = Len(runlist)
  BY <1>1, ExceptSeq
<1>3. /\ DOMAIN without = DOMAIN runlist /\ without[s] = None
      /\ \A i \in DOMAIN runlist \ {s} : without[i] = runlist[i]
  OBVIOUS
<1> HIDE DEF without
<1>4. \A d \in All \ {runlist[s]} : In(without, d) <=> In(runlist, d)
  BY <1>3, NoneIsNoCruncher DEF In
<1>5. Once(runlist) => Once(without)
  BY <1>3, NoneIsNoCruncher DEF Once
<1>6. Once(runlist) => ~In(without, runlist[s])
  BY <1>3, NoneIsNoCruncher DEF Once, In
<1> QED
  BY <1>2, <1>4, <1>5, <1>6 DEF without

LEMMA FirstActiveType ==
  ASSUME TypeOK
  PROVE  FirstActive = 0 \/ FirstActive \in 1 .. Apps \cup {1}
<1> DEFINE found == {i \in 1 .. Apps : i \in world.apps}
<1>1. found \in SUBSET Nat
  OBVIOUS
<1>2. found # {} => Least(found) \in 1 .. Apps
  <2>1. found # {} => Least(found) \in found
    <3> HIDE DEF found
    <3> QED BY <1>1, LeastOf
  <2> QED BY <2>1
<1>3. lastapp \in 1 .. Apps \cup {1}
  BY DEF TypeOK
<1>4. FirstActive = lastapp \/ FirstActive = 0 \/ (found # {} /\ FirstActive = Least(found))
  BY DEF FirstActive
<1> QED
  BY <1>2, <1>3, <1>4

\* A trigger that is stored.
LEMMA StoreType ==
  ASSUME TypeOK, Loaded, NEW next, Store(next), UNCHANGED <<runlist, held>>
  PROVE  Loaded' /\ trig' \subseteq PauseBits /\ exit' \subseteq {"signal", "file"} /\ pc' = next
<1>1. trig \subseteq PauseBits /\ exit \subseteq {"signal", "file"}
  BY DEF TypeOK
<1>2. rmw.of # "none" /\ rmw' = NoRmw /\ pc' = next
  BY DEF Store
<1>3. rmw # NoRmw
  BY <1>2 DEF NoRmw
<1>4. CASE rmw.of = "pause"
  <2>1. trig' = (rmw.old \cup rmw.add) \ rmw.del /\ exit' = exit
    BY <1>4 DEF Store
  <2> QED BY <1>1, <1>2, <1>3, <1>4, <2>1 DEF Loaded
<1>5. CASE rmw.of = "exit"
  <2>1. exit' = (rmw.old \cup rmw.add) \ rmw.del /\ trig' = trig
    BY <1>5 DEF Store
  <2> QED BY <1>1, <1>2, <1>3, <1>5, <2>1 DEF Loaded
<1> QED
  BY <1>3, <1>4, <1>5 DEF Loaded

\* The parts of the state that the polls of the triggers leave alone.
Rest ==
  /\ last \in BOOLEAN /\ paused \in BOOLEAN /\ suspend \in BOOLEAN /\ polled \in BOOLEAN
  /\ \A i \in DOMAIN runlist : runlist[i] \in All \cup {None}
  /\ nextrun \in 0 .. Len(runlist) /\ crunched \subseteq All

LEMMA PollType ==
  ASSUME TypeOK, Loaded, PollUnchanged, last' = last,
         PollExit \/ PollApps \/ PollBattery \/ PollFile
  PROVE  TypeOK' /\ Loaded'
<1>1. Rest' /\ UNCHANGED <<runlist, held>>
  BY DEF Rest, All, TypeOK, PollUnchanged, polling
<1>2. ASSUME UNCHANGED <<trig, exit>> \/ (trig' \subseteq PauseBits /\ exit' \subseteq {"signal", "file"}),
             lastapp' \in 1 .. Apps \cup {1}, Loaded',
             pc' \in {"exit", "exited", "app", "battery", "file", "compare"}
      PROVE  TypeOK' /\ Loaded'
  BY <1>1, <1>2 DEF TypeOK, Rest, All
<1>3. /\ lastapp \in 1 .. Apps \cup {1}
      /\ UNCHANGED rmw => Loaded'
  BY <1>1 DEF TypeOK, Loaded
<1>4. CASE PollExit
  <2>1. CASE LookForExitFile
    <3>1. Load("exit", exit, {b \in {"file"} : world.exitfile}, {b \in {"file"} : ~world.exitfile})
          /\ UNCHANGED <<trig, exit, pc, lastapp>> /\ pc = "exit"
      BY <2>1 DEF LookForExitFile
    <3>2. Loaded'
      BY <1>1, <3>1 DEF Loaded, Load, TypeOK
    <3> QED BY <1>2, <1>3, <3>1, <3>2
  <2>2. CASE Store("exited") /\ UNCHANGED <<last, lastapp>>
    BY <1>1, <1>2, <1>3, <2>2, StoreType
  <2>3. CASE rmw = NoRmw /\ pc' = "exited" /\ UNCHANGED triggers
    BY <1>2, <1>3, <2>3 DEF triggers
  <2> QED BY <1>4, <2>1, <2>2, <2>3 DEF PollExit
<1>5. CASE PollApps
  <2>1. CASE Store("battery") /\ UNCHANGED lastapp
    BY <1>1, <1>2, <1>3, <2>1, StoreType
  <2>2. CASE /\ lastapp' = IF FirstActive = 0 THEN lastapp ELSE FirstActive
             /\ pc' = "battery" /\ UNCHANGED <<trig, exit, rmw>>
    <3>1. lastapp' \in 1 .. Apps \cup {1}
      BY <1>3, <2>2, FirstActiveType
    <3> QED BY <1>2, <1>3, <2>2, <3>1
  <2>3. CASE /\ lastapp' = IF FirstActive = 0 THEN 1 ELSE FirstActive
             /\ Load("pause", trig, {b \in {"app"} : FirstActive # 0}, {b \in {"app"} : FirstActive = 0})
             /\ UNCHANGED <<trig, exit, pc>>
    <3>1. lastapp' \in 1 .. Apps \cup {1}
      BY <2>3, FirstActiveType
    <3>2. Loaded'
      BY <1>1, <2>3 DEF Loaded, Load, TypeOK, PauseBits
    <3>3. pc' = "app"
      BY <1>5, <2>3 DEF PollApps
    <3> QED BY <1>2, <2>3, <3>1, <3>2, <3>3
  <2> QED BY <1>5, <2>1, <2>2, <2>3 DEF PollApps
<1>6. CASE PollBattery
  <2>1. CASE Store("file")
    BY <1>1, <1>2, <1>3, <1>6, <2>1, StoreType DEF PollBattery
  <2>2. CASE pc' = "file" /\ UNCHANGED <<trig, exit, rmw>>
    BY <1>2, <1>3, <1>6, <2>2 DEF PollBattery
  <2>3. CASE /\ Load("pause", trig, {b \in {"battery"} : world.battery = "yes"},
                                  {b \in {"battery"} : world.battery = "no"})
             /\ UNCHANGED <<trig, exit, pc>>
    <3>1. Loaded'
      BY <1>1, <2>3 DEF Loaded, Load, TypeOK, PauseBits
    <3> QED BY <1>2, <1>3, <1>6, <2>3, <3>1 DEF PollBattery
  <2> QED BY <1>6, <2>1, <2>2, <2>3 DEF PollBattery
<1>7. CASE PollFile
  <2>1. CASE LookForPauseFile
    <3>1. /\ Load("pause", trig, {b \in {"file"} : world.file}, {b \in {"file"} : ~world.file})
          /\ UNCHANGED <<trig, exit, pc, lastapp>> /\ pc = "file"
      BY <2>1 DEF LookForPauseFile
    <3>2. Loaded'
      BY <1>1, <3>1 DEF Loaded, Load, TypeOK, PauseBits
    <3> QED BY <1>2, <1>3, <3>1, <3>2
  <2>2. CASE Store("compare") /\ UNCHANGED <<last, lastapp>>
    BY <1>1, <1>2, <1>3, <2>2, StoreType
  <2>3. CASE rmw = NoRmw /\ pc' = "compare" /\ UNCHANGED triggers
    BY <1>2, <1>3, <2>3 DEF triggers
  <2> QED BY <1>7, <2>1, <2>2, <2>3 DEF PollFile
<1> QED
  BY <1>4, <1>5, <1>6, <1>7

LEMMA EmptySeqs == <<>> \in Seq(All) /\ <<>> \in Seq(Entries) /\ Len(<<>>) = 0 /\ DOMAIN <<>> = {}
BY EmptySeq

LEMMA TypeStep ==
  ASSUME TypeOK, Loaded, [Next]_vars
  PROVE  TypeOK' /\ Loaded'
<1> USE DEF triggers, polling
<1>0. runlist \in Seq(Entries) /\ held \in Seq(All) /\ Len(runlist) \in Nat
  BY LenProperties DEF Loaded
<1>a. ASSUME NEW list \in Seq(Entries) PROVE \A i \in DOMAIN list : list[i] \in All \cup {None}
  BY LenProperties, ElementOfSeq DEF Entries
<1>1. CASE CallGoMt
  <2> DEFINE c == runlist[Scan]
             without == [runlist EXCEPT ![Scan] = None]
  <2>1. Scan # 0 /\ pc = "sleep" /\ UNCHANGED <<trig, last, lastapp, exit, rmw, pc, paused, suspend>>
    BY <1>1 DEF CallGoMt
  <2>2. Scan \in DOMAIN runlist /\ Scan \in 1 .. Len(runlist) /\ c \in All
    BY <1>0, <2>1, ScanFacts
  <2>3. without \in Seq(Entries) /\ Len(without) = Len(runlist)
    BY <1>0, <2>2, Without
  <2>4. /\ nextrun' = IF Scan = Len(runlist) THEN 1 ELSE Scan + 1
        /\ polled' = TRUE
        /\ crunched' = IF suspend THEN crunched ELSE crunched \cup {c}
        /\ held' = IF suspend THEN <<c>> \o held ELSE held
        /\ runlist' = IF suspend THEN without ELSE RegPolledProcedure(without, c)
    BY <1>1 DEF CallGoMt
  <2> HIDE DEF c, without
  <2>5. runlist' \in Seq(Entries) /\ Len(runlist) <= Len(runlist') /\ Len(runlist') \in Nat
    <3>1. runlist' \in Seq(Entries) /\ Len(runlist) <= Len(runlist')
      BY <1>0, <2>2, <2>3, <2>4, RegPlaces
    <3> QED BY <3>1, LenProperties
  <2>6. held' \in Seq(All)
    <3>1. <<c>> \in Seq(All)
      BY <2>2
    <3>2. <<c>> \o held \in Seq(All)
      BY <1>0, <3>1, ConcatProperties
    <3> QED BY <1>0, <2>4, <3>2
  <2>7. nextrun' \in 0 .. Len(runlist')
    BY <1>0, <2>2, <2>4, <2>5
  <2>8. crunched' \subseteq All
    BY <2>2, <2>4 DEF TypeOK, All
  <2>9. Loaded'
    BY <2>1, <2>5, <2>6 DEF Loaded
  <2> QED BY <1>a, <2>1, <2>4, <2>5, <2>7, <2>8, <2>9 DEF TypeOK, All
<1>2. CASE Awake
  BY <1>2 DEF Awake, TypeOK, Loaded
<1>3. CASE PollExit \/ PollApps \/ PollBattery \/ PollFile
  <2>1. PollUnchanged /\ last' = last
    BY <1>3 DEF PollExit, LookForExitFile, PollApps, PollBattery, PollFile, LookForPauseFile
  <2> QED BY <1>3, <2>1, PollType
<1>4. CASE TimeToQuit
  <2>1. UNCHANGED <<trig, last, lastapp, exit, rmw, paused, suspend, polled, crunched>>
        /\ pc' \in {"stopped", "app"}
    BY <1>4 DEF TimeToQuit
  <2>2. CASE exit # {}
    <3>1. runlist' = <<>> /\ held' = <<>> /\ nextrun' = 0
      BY <1>4, <2>2 DEF TimeToQuit
    <3>2. Loaded'
      BY <2>1, <3>1, EmptySeqs DEF Loaded
    <3>3. nextrun' \in 0 .. Len(runlist') /\ DOMAIN runlist' = {}
      BY <3>1, EmptySeqs
    <3> QED BY <2>1, <3>2, <3>3 DEF TypeOK
  <2>3. CASE exit = {}
    <3>1. UNCHANGED <<runlist, held, nextrun>>
      BY <1>4, <2>3 DEF TimeToQuit
    <3> QED BY <2>1, <3>1 DEF TypeOK, Loaded
  <2> QED BY <2>2, <2>3
<1>5. CASE Compare
  <2>1. UNCHANGED <<trig, lastapp, exit, rmw, paused, suspend, nextrun, polled, crunched>>
        /\ pc' = "flag" /\ last' = (trig # {})
    BY <1>5 DEF Compare
  <2>2. /\ runlist' \in Seq(Entries) /\ Len(runlist) <= Len(runlist') /\ held' \in Seq(All)
    <3>1. CASE last /\ trig = {}
      <4>1. runlist' = Registered(runlist, held) /\ held' = <<>>
        BY <1>5, <3>1 DEF Compare, RegQueuedPolledProcedures
      <4> QED BY <1>0, <4>1, EmptySeqs, RegisteredPlaces
    <3>2. CASE ~(last /\ trig = {})
      <4>1. UNCHANGED <<runlist, held>>
        BY <1>5, <3>2 DEF Compare
      <4> QED BY <1>0, <4>1
    <3> QED BY <3>1, <3>2
  <2>3. Len(runlist') \in Nat
    BY <2>2, LenProperties
  <2>4. nextrun' \in 0 .. Len(runlist')
    BY <1>0, <2>1, <2>2, <2>3 DEF TypeOK
  <2>5. Loaded'
    BY <2>1, <2>2 DEF Loaded
  <2>6. last' \in BOOLEAN
    BY <2>1
  <2> QED BY <1>a, <2>1, <2>2, <2>4, <2>5, <2>6 DEF TypeOK, All
<1>6. CASE FlagThreads
  <2>1. UNCHANGED <<trig, last, lastapp, exit, rmw, runlist, nextrun, held, polled>>
        /\ pc' = "sleep" /\ crunched' = {} /\ paused' \in BOOLEAN /\ suspend' \in BOOLEAN
    BY <1>6 DEF FlagThreads, TypeOK
  <2> QED BY <2>1 DEF TypeOK, Loaded
<1>7. CASE Environment
  <2>1. UNCHANGED <<last, lastapp, rmw, pc, paused, suspend, runlist, nextrun, held, polled, crunched>>
    BY <1>7 DEF Environment, PauseSignal, UnpauseSignal, ExitSignal, Signal, WorldChanges
  <2>2. trig' \subseteq PauseBits /\ exit' \subseteq {"signal", "file"}
    BY <1>7 DEF Environment, PauseSignal, UnpauseSignal, ExitSignal, Signal, WorldChanges, TypeOK,
                PauseBits
  <2> QED BY <2>1, <2>2 DEF TypeOK, Loaded
<1>8. CASE UNCHANGED vars
  BY <1>8 DEF vars, TypeOK, Loaded
<1> QED
  BY <1>1, <1>2, <1>3, <1>4, <1>5, <1>6, <1>7, <1>8 DEF Next, RunLoop

-----------------------------------------------------------------------------
(* The place of every cruncher. *)

LEMMA HeldFirst ==
  ASSUME NEW list \in Seq(All), NEW c \in All
  PROVE  LET new == <<c>> \o list
         IN /\ new \in Seq(All)
            /\ \A d \in All : In(new, d) <=> In(list, d) \/ d = c
            /\ Once(list) /\ ~In(list, c) => Once(new)
<1> DEFINE new == <<c>> \o list
<1>1. <<c>> \in Seq(All) /\ Len(<<c>>) = 1 /\ <<c>>[1] = c
  OBVIOUS
<1>2. new \in Seq(All) /\ Len(new) = 1 + Len(list)
  BY <1>1, ConcatProperties
<1>3. \A i \in 1 .. Len(new) : new[i] = IF i <= 1 THEN <<c>>[i] ELSE list[i - 1]
  BY <1>1, ConcatProperties
<1>4. DOMAIN new = 1 .. Len(new) /\ DOMAIN list = 1 .. Len(list) /\ Len(list) \in Nat
  BY <1>2, LenProperties
<1> HIDE DEF new
<1>5. 1 \in DOMAIN new /\ new[1] = c
  <2>1. 1 \in 1 .. Len(new)
    BY <1>2, <1>4
  <2> QED BY <1>1, <1>3, <1>4, <2>1
<1>6. \A i \in DOMAIN new : i # 1 => i - 1 \in DOMAIN list /\ new[i] = list[i - 1]
  BY <1>2, <1>3, <1>4
<1>7. \A j \in DOMAIN list : j + 1 \in DOMAIN new /\ j + 1 # 1 /\ (j + 1) - 1 = j
  BY <1>2, <1>4
<1>8. \A j \in DOMAIN list : new[j + 1] = list[j]
  BY <1>6, <1>7
<1>9. ASSUME NEW d \in All PROVE In(new, d) <=> In(list, d) \/ d = c
  BY <1>5, <1>6, <1>7, <1>8 DEF In
<1>10. ASSUME Once(list), ~In(list, c) PROVE Once(new)
  <2> SUFFICES ASSUME NEW i \in DOMAIN new, NEW j \in DOMAIN new, new[i] = new[j], new[i] \in All
               PROVE  i = j
    BY DEF Once
  <2>1. CASE i # 1 /\ j # 1
    <3>1. i - 1 = j - 1
      BY <1>6, <1>10, <2>1 DEF Once
    <3> QED BY <1>4, <3>1
  <2>2. CASE i = 1 \/ j = 1
    BY <1>5, <1>6, <1>10, <2>2 DEF In
  <2> QED BY <2>1, <2>2
<1> QED
  BY <1>2, <1>9, <1>10 DEF new

LEMMA NothingIn == Once(<<>>) /\ \A c \in All : ~In(<<>>, c)
BY EmptySeqs DEF Once, In

LEMMA PlacedStep ==
  ASSUME Placed, [Next]_vars
  PROVE  Placed'
<1> SUFFICES ASSUME pc' # "stopped" PROVE Placed'
  BY DEF Placed
<1> USE DEF triggers, polling
<1>1. /\ runlist \in Seq(Entries) /\ Once(runlist) /\ held \in Seq(All) /\ Once(held)
      /\ \A c \in All : In(runlist, c) <=> ~In(held, c)
  <2>1. pc # "stopped"
    BY DEF Next, CallGoMt, Awake, RunLoop, PollExit, LookForExitFile, TimeToQuit, PollApps,
           PollBattery, PollFile, LookForPauseFile, Compare, FlagThreads, Environment, PauseSignal,
           UnpauseSignal, ExitSignal, Signal, WorldChanges, vars
  <2> QED BY <2>1 DEF Placed
<1>2. CASE CallGoMt
  <2> DEFINE c == runlist[Scan]
             without == [runlist EXCEPT ![Scan] = None]
  <2>1. Scan # 0
    BY <1>2 DEF CallGoMt
  <2>2. Scan \in DOMAIN runlist /\ c \in All
    BY <1>1, <2>1, ScanFacts
  <2>3. /\ without \in Seq(Entries) /\ Once(without) /\ ~In(without, c)
        /\ \A d \in All \ {c} : In(without, d) <=> In(runlist, d)
    BY <1>1, <2>2, Without
  <2>4. In(runlist, c) /\ ~In(held, c)
    BY <1>1, <2>2 DEF In
  <2>5. /\ held' = IF suspend THEN <<c>> \o held ELSE held
        /\ runlist' = IF suspend THEN without ELSE RegPolledProcedure(without, c)
    BY <1>2 DEF CallGoMt
  <2> HIDE DEF c, without
  <2>6. CASE suspend
    <3>1. /\ held' \in Seq(All) /\ Once(held')
          /\ \A d \in All : In(held', d) <=> In(held, d) \/ d = c
      BY <1>1, <2>2, <2>4, <2>5, <2>6, HeldFirst
    <3>2. runlist' = without
      BY <2>5, <2>6
    <3>3. \A d \in All : In(runlist', d) <=> ~In(held', d)
      BY <1>1, <2>3, <2>4, <3>1, <3>2
    <3> QED BY <2>3, <3>1, <3>2, <3>3 DEF Placed, In, Once
  <2>7. CASE ~suspend
    <3>1. /\ runlist' \in Seq(Entries) /\ Once(runlist')
          /\ \A d \in All : In(runlist', d) <=> In(without, d) \/ d = c
      BY <2>2, <2>3, <2>5, <2>7, RegPlaces
    <3>2. held' = held
      BY <2>5, <2>7
    <3>3. \A d \in All : In(runlist', d) <=> ~In(held', d)
      BY <1>1, <2>3, <2>4, <3>1, <3>2
    <3> QED BY <1>1, <3>1, <3>2, <3>3 DEF Placed, In, Once
  <2> QED BY <2>6, <2>7
<1>3. CASE Compare /\ last /\ trig = {}
  <2>1. runlist' = Registered(runlist, held) /\ held' = <<>>
    BY <1>3 DEF Compare, RegQueuedPolledProcedures
  <2>2. /\ runlist' \in Seq(Entries) /\ Once(runlist')
        /\ \A d \in All : In(runlist', d) <=> In(runlist, d) \/ In(held, d)
    BY <1>1, <2>1, RegisteredPlaces
  <2>3. \A d \in All : In(runlist', d) /\ ~In(held', d)
    BY <1>1, <2>1, <2>2, NothingIn
  <2>4. held' \in Seq(All) /\ Once(held')
    BY <2>1, NothingIn, EmptySeqs
  <2> QED BY <2>2, <2>3, <2>4 DEF Placed, In, Once
<1>4. ASSUME UNCHANGED <<runlist, held>> PROVE Placed'
  BY <1>1, <1>4 DEF Placed, In, Once
<1>5. CASE Compare /\ ~(last /\ trig = {})
  BY <1>4, <1>5 DEF Compare
<1>6. CASE TimeToQuit
  BY <1>4, <1>6 DEF TimeToQuit
<1>7. CASE Awake \/ PollExit \/ PollApps \/ PollBattery \/ PollFile \/ FlagThreads \/ Environment
           \/ UNCHANGED vars
  BY <1>4, <1>7 DEF Awake, PollExit, LookForExitFile, PollApps, PollBattery, PollFile,
     LookForPauseFile, FlagThreads, Environment, PauseSignal, UnpauseSignal, ExitSignal, Signal,
     WorldChanges, PollUnchanged, vars
<1> QED
  BY <1>2, <1>3, <1>5, <1>6, <1>7 DEF Next, RunLoop

\* One place that holds c, and only one.
LEMMA CountIn ==
  ASSUME NEW list, NEW c \in All, Once(list)
  PROVE  Cardinality({i \in DOMAIN list : list[i] = c}) = IF In(list, c) THEN 1 ELSE 0
<1> DEFINE S == {i \in DOMAIN list : list[i] = c}
<1>1. CASE In(list, c)
  <2>1. PICK k \in DOMAIN list : list[k] = c
    BY <1>1 DEF In
  <2>2. S = {k}
    BY <2>1 DEF Once
  <2>3. Cardinality({k}) = 1
    BY FS_Singleton
  <2> QED BY <1>1, <2>2, <2>3
<1>2. CASE ~In(list, c)
  <2>1. S = {}
    BY <1>2 DEF In
  <2> QED BY <1>2, <2>1, FS_EmptySet
<1> QED
  BY <1>1, <1>2

LEMMA InitInv == Init => TypeOK /\ Loaded /\ Placed
<1> SUFFICES ASSUME Init PROVE TypeOK /\ Loaded /\ Placed
  OBVIOUS
<1> DEFINE seq == [c \in 1 .. Crunchers |-> c]
<1>1. Crunchers \in Nat
  BY PausingAssumption
<1>2. seq \in Seq(All) /\ DOMAIN seq = All /\ \A c \in All : seq[c] = c
  <2>1. seq \in [1 .. Crunchers -> All]
    BY DEF All
  <2>2. seq \in Seq(All)
    BY <1>1, <2>1, SeqDef
  <2> QED BY <2>2 DEF All
<1>3. runlist = Registered(<<>>, seq) /\ held = <<>> /\ rmw = NoRmw /\ pc = "exit" /\ nextrun = 0
  BY DEF Init
<1> HIDE DEF seq
<1>4. Once(seq) /\ \A c \in All : In(seq, c)
  BY <1>2 DEF Once, In
<1>5. /\ runlist \in Seq(Entries)
      /\ \A d \in All : In(runlist, d) <=> In(<<>>, d) \/ In(seq, d)
      /\ Once(runlist)
  BY <1>2, <1>3, <1>4, EmptySeqs, NothingIn, RegisteredPlaces
<1>6. Len(runlist) \in Nat /\ \A i \in DOMAIN runlist : runlist[i] \in All \cup {None}
  BY <1>5, LenProperties, ElementOfSeq DEF Entries
<1>7. Loaded
  BY <1>3, <1>5, EmptySeqs DEF Loaded
<1>8. Placed
  BY <1>3, <1>4, <1>5, EmptySeqs, NothingIn DEF Placed
<1>9. TypeOK
  <2>1. /\ trig = {} /\ last = FALSE /\ lastapp = 1 /\ exit = {} /\ paused = FALSE
        /\ suspend = FALSE /\ polled = FALSE /\ crunched = {}
    BY DEF Init
  <2>2. nextrun \in 0 .. Len(runlist)
    BY <1>3, <1>6
  <2> QED BY <1>3, <1>6, <2>1, <2>2 DEF TypeOK, All
<1> QED
  BY <1>7, <1>8, <1>9

\* Types, of a trigger on its way to be stored, too.
THEOREM PausingTypeCorrect == Spec => [](TypeOK /\ Loaded)
<1>1. TypeOK /\ Loaded /\ [Next]_vars => (TypeOK /\ Loaded)'
  BY TypeStep
<1> QED
  BY <1>1, InitInv, PTL DEF Spec

\* Until the client stops, every cruncher without a thread is registered with the
\* polling system once, or is held once until the pause ends (Go_mt, RegPolledProcedure
\* and RegQueuedPolledProcedures), whenever signals come.
THEOREM CruncherInOnePlace == Spec => []OnePlace
<1>1. Placed => OnePlace
  <2> SUFFICES ASSUME Placed, pc # "stopped", NEW c \in All
               PROVE  Cardinality({i \in DOMAIN runlist : runlist[i] = c})
                        + Cardinality({i \in DOMAIN held : held[i] = c}) = 1
    BY DEF OnePlace, All
  <2>1. Cardinality({i \in DOMAIN runlist : runlist[i] = c}) = IF In(runlist, c) THEN 1 ELSE 0
    BY CountIn DEF Placed
  <2>2. Cardinality({i \in DOMAIN held : held[i] = c}) = IF In(held, c) THEN 1 ELSE 0
    BY CountIn DEF Placed
  <2>3. In(runlist, c) <=> ~In(held, c)
    BY DEF Placed
  <2> QED BY <2>1, <2>2, <2>3
<1>2. Placed /\ [Next]_vars => Placed'
  BY PlacedStep
<1> QED
  BY <1>1, <1>2, InitInv, PTL DEF Spec
=============================================================================
