---------------------------- MODULE Rc572Proofs ----------------------------
(***************************************************************************)
(* Proofs about Rc572, for any width of a byte, any launch size, slices,   *)
(* packets and matches, and any number of failed runs, saves and reloads:  *)
(* that the three cursors agree (CursorsAgree), that the keys counted are  *)
(* those that were searched (SearchedExactly), that a result is true       *)
(* (ResultTrue), that the check is exact (ChecksExact), that every run     *)
(* that ends advances the packet (SliceAdvances), and that the client's    *)
(* count and the core's never differ where Run_RC5_72 compares them.       *)
(*                                                                         *)
(* A mangled key stands for a number (Pos).  The five computations on keys *)
(* are first shown to be additions on these numbers: __IncrementKey and    *)
(* hy_increment_l0 modulo the key space, __InternalLoadState's first key   *)
(* too, the report of a find exactly, and keysdone as long as it does not  *)
(* wrap.  What is then left to prove is about stretches of numbers.        *)
(*                                                                         *)
(* The invariants: Types; Given, what a packet is; Cursors; Progress, what *)
(* was searched before this run; Passes and Results, how far the run is    *)
(* and what it found.                                                      *)
(***************************************************************************)
EXTENDS Rc572, FiniteSetTheorems, NaturalsInduction, WellFoundedInduction, TLAPS

Byte == 0 .. Base - 1
Words == 0 .. Word - 1
CountType == [hi : Words, lo : Words]

\* The word of four bytes, and the number a mangled key stands for.
WordOf(a, b, c, d) == ((a * Base + b) * Base + c) * Base + d
Pos(key) == Value(SwitchRC572Format[key])

-----------------------------------------------------------------------------
(* The invariants. *)

\* The variables; tested and searched are sets of keys as numbers.
Check == [count : Nat, key : Key]
Packet == [key : Key, keysdone : CountType, iterations : CountType, check : Check]
Unit == [L0 : Key, check : Check]
Run == [asked : Words, base : Key, done : Nat, ret : {RESULT_NOTHING, RESULT_FOUND},
        nCheck : Nat, check : Key, found : Key, out : Nat, tested : SUBSET Int]
Truth == [start : 0 .. Space - 1, size : 0 .. Word * (Word - 1), matches : SUBSET Nat,
          solution : SUBSET Nat, searched : SUBSET Int]

Types ==
  /\ pc \in {"empty", "ready", "pass", "tail"}
  /\ rc \in {RESULT_WORKING, RESULT_NOTHING, RESULT_FOUND}
  /\ pc # "ready" => rc = RESULT_WORKING
  /\ work \in Packet /\ unit \in Unit /\ refL0 \in Key
  /\ run \in Run /\ troubles \in 0 .. MaxTroubles /\ truth \in Truth

\* The n-th key after s, and the keys from the a-th on to the one before the b-th.
At(s, n) == (s + n) % Space
Keys(s, a, b) == {At(s, i) : i \in a .. b - 1}

Searching == pc # "empty" /\ rc = RESULT_WORKING
Running == pc \in {"pass", "tail"}
N == Number(work.keysdone)

\* What the packet is: at most one of its keys is the solution, and that one
\* matches; matches are at or after its first key.
Given ==
  pc # "empty" =>
    /\ Number(work.iterations) = truth.size
    /\ truth.solution \subseteq truth.matches
    /\ \A a, b \in truth.solution : a = b
    /\ \A m \in truth.matches : m >= truth.start
    /\ rc # RESULT_FOUND => Value(work.key) = truth.start

\* The cursors, and the unit's copy of the check.
Cursors ==
  /\ Searching => refL0 = unit.L0 /\ Pos(unit.L0) = At(truth.start, N)
  /\ pc # "empty" => unit.check = [count |-> work.check.count,
                                   key |-> SwitchRC572Format[work.check.key]]

\* What was searched before this run, and what came of it.
Progress ==
  pc # "empty" =>
    /\ rc = RESULT_WORKING => N <= Word * (Word - 1)
    /\ rc = RESULT_NOTHING => N >= truth.size
    /\ rc # RESULT_FOUND => truth.searched \cap truth.solution = {}
    /\ rc = RESULT_FOUND => truth.solution = {Value(work.key)}

\* The number of keys a run has tested.
Tested == IF run.ret = RESULT_FOUND THEN run.out + 1 ELSE run.done

\* How far the run is: whole pipelines, not beyond what was asked.
Passes ==
  Running =>
    /\ run.asked >= 1 /\ run.asked % Pipeline = 0 /\ run.done % Pipeline = 0
    /\ run.done <= run.asked
    /\ Pos(run.base) = At(truth.start, N + run.done)
    /\ Tested <= run.asked
    /\ pc = "tail" /\ run.ret = RESULT_NOTHING => run.done = run.asked /\ run.out = run.done

\* What it has tested, and found.
Results ==
  Running =>
    LET hits == truth.matches \cap run.tested
    IN /\ run.tested = Keys(truth.start, N, N + Tested)
       /\ run.nCheck = Cardinality(hits)
       /\ hits # {} => Pos(run.check) = Max(hits)
       /\ run.ret = RESULT_NOTHING => run.tested \cap truth.solution = {}
       /\ run.ret = RESULT_FOUND =>
            /\ Pos(run.found) = At(truth.start, N + run.out)
            /\ Pos(run.found) \in truth.solution

IInv ==
  /\ Types /\ Given /\ Cursors /\ Progress /\ Passes /\ Results
  /\ SearchedExactly /\ ChecksExact

-----------------------------------------------------------------------------
(* Arithmetic. *)

\* The sizes of bytes, words and keys, ordered.
LEMMA Widths ==
  /\ Base \in Nat \ {0} /\ Base > 1 /\ Word \in Nat \ {0} /\ Word > 1 /\ Word >= Base
  /\ Base * Word \in Nat \ {0} /\ Space \in Nat \ {0} /\ Space = (Base * Word) * Word
  /\ Word * Word \in Nat /\ Word * Word =< Space /\ Word =< Space
<1>1. Base \in Nat /\ Base > 1
  BY Rc572Assumption
<1>2. Word \in Nat /\ Word >= Base /\ Word > 1
  <2>1. Base * Base \in Nat /\ Base * Base > Base
    BY <1>1
  <2>2. Base * Base * Base \in Nat /\ Base * Base * Base > Base
    BY <1>1, <2>1
  <2> QED BY <1>1, <2>2 DEF Word
<1>3. Space = (Base * Word) * Word /\ Base * Word \in Nat /\ Base * Word > Word
  BY <1>1, <1>2 DEF Space
<1>4. Word * Word \in Nat /\ Word * Word >= Word /\ Space >= Word * Word
  BY <1>1, <1>2, <1>3
<1> QED
  BY <1>1, <1>2, <1>3, <1>4

\* What % and \div are, and that nothing else is.
LEMMA DivMod ==
  ASSUME NEW x \in Int, NEW d \in Nat \ {0}
  PROVE  /\ x \div d \in Int /\ x % d \in 0 .. d - 1
         /\ x = (x \div d) * d + (x % d)
OBVIOUS

LEMMA DivUnique ==
  ASSUME NEW d \in Nat \ {0}, NEW q \in Int, NEW r \in 0 .. d - 1
  PROVE  (q * d + r) \div d = q /\ (q * d + r) % d = r
OBVIOUS

\* The remainder of a number that is less than twice the divisor.
LEMMA ModOnce ==
  ASSUME NEW d \in Nat \ {0}, NEW x \in 0 .. 2 * d - 1
  PROVE  x % d = (IF x < d THEN x ELSE x - d)
<1>1. CASE x < d
  <2>1. x = 0 * d + x
    OBVIOUS
  <2> QED BY <1>1, <2>1, DivUnique
<1>2. CASE x >= d
  <2>1. x = 1 * d + (x - d) /\ x - d \in 0 .. d - 1
    BY <1>2
  <2> QED BY <1>2, <2>1, DivUnique
<1> QED
  BY <1>1, <1>2

\* Remainders may be taken on the way.
LEMMA ModPlus ==
  ASSUME NEW d \in Nat \ {0}, NEW x \in Int, NEW y \in Int
  PROVE  ((x % d) + y) % d = (x + y) % d
<1> DEFINE p == x \div d
           z == (x % d) + y
           q == z \div d
           r == z % d
<1>1. p \in Int /\ x % d \in Int /\ x = p * d + (x % d)
  BY DivMod
<1>2. z \in Int
  BY <1>1
<1>3. q \in Int /\ r \in 0 .. d - 1 /\ z = q * d + r
  <2> HIDE DEF z
  <2> QED BY <1>2, DivMod
<1>4. x + y = p * d + z
  <2> HIDE DEF p
  <2> QED BY <1>1
<1>5. x + y = (p + q) * d + r /\ p + q \in Int
  <2> HIDE DEF p, z, q, r
  <2> QED BY <1>1, <1>3, <1>4
<1>6. (x + y) % d = r
  <2> HIDE DEF p, q, r
  <2> QED BY <1>3, <1>5, DivUnique
<1> QED
  BY <1>6

\* A number cut in two: the digits above the lowest d values, and those.
LEMMA ModSplit ==
  ASSUME NEW d \in Nat \ {0}, NEW e \in Nat \ {0}, NEW x \in Nat
  PROVE  /\ ((x \div d) % e) * d + (x % d) = x % (d * e)
         /\ (x \div d) \div e = x \div (d * e)
<1> DEFINE q == x \div d
           r == x % d
           p == q \div e
           s == q % e
<1>1. q \in Int /\ r \in 0 .. d - 1 /\ x = q * d + r
  BY DivMod
<1>2. p \in Int /\ s \in 0 .. e - 1 /\ q = p * e + s
  <2> HIDE DEF q
  <2> QED BY <1>1, DivMod
<1> HIDE DEF p, q, r, s
<1>3. x = p * (d * e) + (s * d + r)
  BY <1>1, <1>2
<1>4. s * d + r \in 0 .. d * e - 1 /\ d * e \in Nat \ {0}
  <2>1. s * d + r >= 0 /\ s * d + r \in Int
    BY <1>1, <1>2
  <2>2. (s + 1) * d =< e * d
    BY <1>2
  <2>3. s * d + r < (s + 1) * d
    BY <1>1, <1>2
  <2> QED BY <1>2, <2>1, <2>2, <2>3
<1> QED
  <2>1. x % (d * e) = s * d + r /\ x \div (d * e) = p
    BY <1>2, <1>3, <1>4, DivUnique
  <2> QED BY <2>1 DEF p, q, r, s

\* There is a first among any naturals, and a last among numbers up to a bound.
LEMMA MinOfPlaces ==
  ASSUME NEW S \in SUBSET Nat, S # {}
  PROVE  Min(S) \in S /\ \A i \in S : Min(S) <= i
<1>1. PICK m \in S : \A i \in S : <<i, m>> \notin OpToRel(<, Nat)
  BY NatLessThanWellFounded, WFMin, Zenon
<1>2. \A i \in S : ~(i < m)
  BY <1>1, Zenon DEF OpToRel
<1>3. \A i \in S : m <= i
  BY <1>2
<1> QED
  BY <1>3 DEF Min

LEMMA MaxOfPlaces ==
  ASSUME NEW n \in Int, NEW S \in SUBSET Int, S # {}, \A i \in S : i <= n
  PROVE  Max(S) \in S /\ \A i \in S : Max(S) >= i
<1> DEFINE T == {n - i : i \in S}
<1>1. T \in SUBSET Nat /\ T # {}
  <2>1. \A i \in S : n - i \in Nat
    OBVIOUS
  <2> QED BY <2>1
<1>2. Min(T) \in T /\ \A t \in T : Min(T) <= t
  BY <1>1, MinOfPlaces
<1>3. PICK m \in S : Min(T) = n - m
  BY <1>2
<1>4. ASSUME NEW i \in S PROVE m >= i
  <2>1. n - i \in T
    OBVIOUS
  <2>2. n - m <= n - i
    BY <1>2, <1>3, <2>1
  <2> QED BY <2>2
<1> QED
  BY <1>4 DEF Max

-----------------------------------------------------------------------------
(* Bytes. *)

\* Four bytes are a word, and Bytes takes it apart again.
LEMMA WordOfType ==
  ASSUME NEW a \in Byte, NEW b \in Byte, NEW c \in Byte, NEW d \in Byte
  PROVE  WordOf(a, b, c, d) \in Words
<1>1. a * Base + b \in 0 .. Base * Base - 1
  BY Widths DEF Byte
<1> QED
  BY <1>1, Widths DEF Byte, Words, WordOf, Word

LEMMA BytesOf ==
  ASSUME NEW a \in Byte, NEW b \in Byte, NEW c \in Byte, NEW d \in Byte
  PROVE  Bytes(WordOf(a, b, c, d)) = <<a, b, c, d>>
<1> DEFINE w == WordOf(a, b, c, d)
<1>1. w % Base = d /\ w \div Base = (a * Base + b) * Base + c
  BY Widths, DivUnique DEF Byte, WordOf
<1>2. w \div (Base * Base) = a * Base + b
  <2>1. w = (a * Base + b) * (Base * Base) + (c * Base + d)
    BY Widths DEF Byte, WordOf
  <2>2. c * Base + d \in 0 .. Base * Base - 1 /\ Base * Base \in Nat \ {0}
    BY Widths DEF Byte
  <2>3. a * Base + b \in Int
    BY Widths DEF Byte
  <2> QED BY <2>1, <2>2, <2>3, DivUnique
<1>3. w \div (Base * Base * Base) = a
  <2>1. w = a * (Base * Base * Base) + ((b * Base + c) * Base + d)
    BY Widths DEF Byte, WordOf
  <2>2. b * Base + c \in 0 .. Base * Base - 1
    BY Widths DEF Byte
  <2>3. /\ (b * Base + c) * Base + d \in 0 .. Base * Base * Base - 1
        /\ Base * Base * Base \in Nat \ {0}
    BY <2>2, Widths DEF Byte
  <2> QED BY <2>1, <2>3, DivUnique DEF Byte
<1>4. ((a * Base + b) * Base + c) % Base = c /\ (a * Base + b) % Base = b
  BY Widths, DivUnique DEF Byte
<1>5. a % Base = a
  <2>1. a = 0 * Base + a
    BY Widths DEF Byte
  <2> QED BY <2>1, Widths, DivUnique DEF Byte
<1> HIDE DEF w
<1> QED
  BY <1>1, <1>2, <1>3, <1>4, <1>5 DEF Bytes, w

\* Every word is four bytes.
LEMMA Digits ==
  ASSUME NEW w \in Words
  PROVE  \E a, b, c, d \in Byte : w = WordOf(a, b, c, d)
<1> DEFINE x == w \div Base
           y == x \div Base
           a == y \div Base
           d == w % Base
           c == x % Base
           b == y % Base
<1>1. w \in Int
  BY Widths DEF Words
<1>2. x \in Int /\ d \in Byte /\ w = x * Base + d
  BY <1>1, Widths, DivMod DEF Byte
<1>3. y \in Int /\ c \in Byte /\ x = y * Base + c
  <2> HIDE DEF x
  <2> QED BY <1>2, Widths, DivMod DEF Byte
<1>4. a \in Int /\ b \in Byte /\ y = a * Base + b
  <2> HIDE DEF y
  <2> QED BY <1>3, Widths, DivMod DEF Byte
<1> HIDE DEF a, b, c, d, x, y
<1>5. w = WordOf(a, b, c, d)
  BY <1>2, <1>3, <1>4 DEF WordOf
<1>6. x >= 0 /\ x < Base * Base * Base
  BY <1>2, Widths DEF Byte, Words, Word
<1>7. y >= 0 /\ y < Base * Base
  BY <1>3, <1>6, Widths DEF Byte
<1>8. a \in Byte
  BY <1>4, <1>7, Widths DEF Byte
<1> QED
  BY <1>2, <1>3, <1>4, <1>5, <1>8

-----------------------------------------------------------------------------
(* Keys. *)

\* Keys are their three parts, and those are these nine bytes.
LEMMA KeyParts ==
  ASSUME NEW key \in Key
  PROVE  key.hi \in Byte /\ key.mid \in Words /\ key.lo \in Words
BY DEF Key, Byte, Words

LEMMA KeyEqual ==
  ASSUME NEW k1 \in Key, NEW k2 \in Key, k1.hi = k2.hi, k1.mid = k2.mid, k1.lo = k2.lo
  PROVE  k1 = k2
BY DEF Key

KeyIs(key, h, m1, m2, m3, m4, l1, l2, l3, l4) ==
  key \in Key /\ key.hi = h /\ key.mid = WordOf(m1, m2, m3, m4) /\ key.lo = WordOf(l1, l2, l3, l4)

LEMMA KeyBytes ==
  ASSUME NEW key \in Key
  PROVE  \E h, m1, m2, m3, m4, l1, l2, l3, l4 \in Byte :
           KeyIs(key, h, m1, m2, m3, m4, l1, l2, l3, l4)
<1>1. PICK m1, m2, m3, m4 \in Byte : key.mid = WordOf(m1, m2, m3, m4)
  BY KeyParts, Digits
<1>2. PICK l1, l2, l3, l4 \in Byte : key.lo = WordOf(l1, l2, l3, l4)
  BY KeyParts, Digits
<1>3. key.hi \in Byte
  BY KeyParts
<1>4. KeyIs(key, key.hi, m1, m2, m3, m4, l1, l2, l3, l4)
  BY <1>1, <1>2 DEF KeyIs
<1> QED
  BY <1>3, <1>4

\* __SwitchRC572Format reverses the nine bytes of a key, so that doing it twice
\* gives the key back.
LEMMA SwitchOf ==
  ASSUME NEW h \in Byte, NEW m1 \in Byte, NEW m2 \in Byte, NEW m3 \in Byte, NEW m4 \in Byte,
         NEW l1 \in Byte, NEW l2 \in Byte, NEW l3 \in Byte, NEW l4 \in Byte,
         NEW key, KeyIs(key, h, m1, m2, m3, m4, l1, l2, l3, l4)
  PROVE  KeyIs(SwitchRC572Format[key], l4, l3, l2, l1, m4, m3, m2, m1, h)
<1>1. Bytes(key.mid) = <<m1, m2, m3, m4>> /\ Bytes(key.lo) = <<l1, l2, l3, l4>>
  BY BytesOf DEF KeyIs
<1>2. key \in Key /\ key.hi = h
  BY DEF KeyIs
<1>3. SwitchRC572Format[key]
        = [hi |-> l4, mid |-> WordOf(l3, l2, l1, m4), lo |-> WordOf(m3, m2, m1, h)]
  BY <1>1, <1>2 DEF SwitchRC572Format, FromBytes, WordOf
<1>4. WordOf(l3, l2, l1, m4) \in Words /\ WordOf(m3, m2, m1, h) \in Words
  BY WordOfType
<1>5. [hi |-> l4, mid |-> WordOf(l3, l2, l1, m4), lo |-> WordOf(m3, m2, m1, h)] \in Key
  BY <1>4 DEF Key, Byte, Words
<1> QED
  BY <1>3, <1>5 DEF KeyIs

LEMMA SwitchFacts ==
  ASSUME NEW key \in Key
  PROVE  /\ SwitchRC572Format[key] \in Key
         /\ SwitchRC572Format[SwitchRC572Format[key]] = key
<1>1. PICK h, m1, m2, m3, m4, l1, l2, l3, l4 \in Byte :
        KeyIs(key, h, m1, m2, m3, m4, l1, l2, l3, l4)
  BY KeyBytes
<1>2. KeyIs(SwitchRC572Format[key], l4, l3, l2, l1, m4, m3, m2, m1, h)
  BY <1>1, SwitchOf
<1>3. KeyIs(SwitchRC572Format[SwitchRC572Format[key]], h, m1, m2, m3, m4, l1, l2, l3, l4)
  BY <1>2, SwitchOf
<1> QED
  BY <1>1, <1>2, <1>3, KeyEqual DEF KeyIs

\* hy_bswap32 reverses a word.
LEMMA BswapFacts ==
  ASSUME NEW w \in Words
  PROVE  Bswap(w) \in Words /\ Bswap(Bswap(w)) = w
<1>1. PICK a, b, c, d \in Byte : w = WordOf(a, b, c, d)
  BY Digits
<1>2. Bytes(w) = <<a, b, c, d>>
  BY <1>1, BytesOf
<1>3. Bswap(w) = WordOf(d, c, b, a)
  BY <1>2 DEF Bswap, FromBytes, WordOf
<1>4. Bytes(Bswap(w)) = <<d, c, b, a>>
  BY <1>3, BytesOf
<1>5. Bswap(Bswap(w)) = WordOf(a, b, c, d)
  BY <1>4 DEF Bswap, FromBytes, WordOf
<1> QED
  BY <1>1, <1>3, <1>5, WordOfType

\* What hy_increment_l0's comment says of a mangled key:
\* K = hi + bswap(mid) * 2^8 + bswap(lo) * 2^40.
LEMMA PosOf ==
  ASSUME NEW key \in Key
  PROVE  Pos(key) = Bswap(key.lo) * (Base * Word) + (Bswap(key.mid) * Base + key.hi)
<1>1. PICK h, m1, m2, m3, m4, l1, l2, l3, l4 \in Byte :
        KeyIs(key, h, m1, m2, m3, m4, l1, l2, l3, l4)
  BY KeyBytes
<1>2. KeyIs(SwitchRC572Format[key], l4, l3, l2, l1, m4, m3, m2, m1, h)
  BY <1>1, SwitchOf
<1>3. Bswap(key.mid) = WordOf(m4, m3, m2, m1) /\ Bswap(key.lo) = WordOf(l4, l3, l2, l1)
  <2>1. Bytes(key.mid) = <<m1, m2, m3, m4>> /\ Bytes(key.lo) = <<l1, l2, l3, l4>>
    BY <1>1, BytesOf DEF KeyIs
  <2> QED BY <2>1 DEF Bswap, FromBytes, WordOf
<1>4. Pos(key) = (l4 * Word + WordOf(l3, l2, l1, m4)) * Word + WordOf(m3, m2, m1, h)
  BY <1>2 DEF Pos, Value, KeyIs
<1>5. \A x \in Byte : x \in Int
  BY Widths DEF Byte
<1>6. m1 \in Int /\ m2 \in Int /\ m3 \in Int /\ m4 \in Int /\ h \in Int
  BY <1>5
<1>7. l1 \in Int /\ l2 \in Int /\ l3 \in Int /\ l4 \in Int
  BY <1>5
<1>8. (l4 * Word + WordOf(l3, l2, l1, m4)) * Word + WordOf(m3, m2, m1, h)
        = WordOf(l4, l3, l2, l1) * (Base * Word) + (WordOf(m4, m3, m2, m1) * Base + h)
  BY <1>6, <1>7, Widths DEF Word, WordOf
<1>9. key.hi = h
  BY <1>1 DEF KeyIs
<1> QED
  BY <1>3, <1>4, <1>8, <1>9

\* Keys and the numbers below Space are the same, by Value and by Pos.
LEMMA ValueFacts ==
  ASSUME NEW key \in Key
  PROVE  Value(key) \in 0 .. Space - 1
<1>1. key.hi \in Byte /\ key.mid \in Words /\ key.lo \in Words
  BY DEF Key, Byte, Words
<1>2. key.hi * Word + key.mid \in 0 .. Base * Word - 1
  <2>1. (key.hi + 1) * Word =< Base * Word
    BY <1>1, Widths DEF Byte
  <2>2. key.hi * Word + key.mid < (key.hi + 1) * Word /\ key.hi * Word + key.mid \in Nat
    BY <1>1, Widths DEF Byte, Words
  <2> QED BY <2>1, <2>2, <1>1, Widths DEF Byte, Words
<1> DEFINE n == key.hi * Word + key.mid
<1>3. n \in 0 .. Base * Word - 1 /\ Value(key) = n * Word + key.lo
  BY <1>2 DEF Value
<1> HIDE DEF n
<1>4. (n + 1) * Word =< (Base * Word) * Word
  BY <1>3, Widths
<1>5. n * Word + key.lo < (n + 1) * Word /\ n * Word + key.lo \in Nat
  BY <1>1, <1>3, Widths DEF Words
<1> QED
  BY <1>3, <1>4, <1>5, Widths

LEMMA KeyOfFacts ==
  ASSUME NEW n \in 0 .. Space - 1
  PROVE  KeyOf(n) \in Key /\ Value(KeyOf(n)) = n
<1> DEFINE x == n \div Word
           lo == n % Word
           y == n \div (Word * Word)
           mid == x % Word
           hi == y % Base
<1>1. x \in Int /\ lo \in Words /\ n = x * Word + lo
  BY Widths, DivMod DEF Words
<1>2. x \div Word = y
  <2>1. n \in Nat /\ Word \in Nat \ {0}
    BY Widths
  <2> QED BY <2>1, ModSplit
<1>3. mid \in Words /\ y \in Int /\ x = y * Word + mid
  <2>1. (x \div Word) \in Int /\ mid \in Words /\ x = (x \div Word) * Word + mid
    <3> HIDE DEF x
    <3> QED BY <1>1, Widths, DivMod DEF Words
  <2> HIDE DEF x, y, mid
  <2> QED BY <1>2, <2>1
<1> HIDE DEF x, y, lo, mid
<1>4. x >= 0 /\ x < Base * Word
  BY <1>1, Widths DEF Words
<1>5. y >= 0 /\ y < Base
  BY <1>3, <1>4, Widths DEF Words
<1>6. hi = y
  <2>1. y = 0 * Base + y /\ y \in 0 .. Base - 1
    BY <1>3, <1>5, Widths
  <2> QED BY <2>1, Widths, DivUnique
<1>7. KeyOf(n) = [hi |-> y, mid |-> mid, lo |-> lo]
  BY <1>6 DEF KeyOf, x, y, lo, mid
<1> QED
  BY <1>1, <1>3, <1>5, <1>7, Widths DEF Key, Value, Words

LEMMA ValueEqual ==
  ASSUME NEW k1 \in Key, NEW k2 \in Key, Value(k1) = Value(k2)
  PROVE  k1 = k2
<1>1. /\ k1.hi \in Byte /\ k1.mid \in Words /\ k1.lo \in Words
      /\ k2.hi \in Byte /\ k2.mid \in Words /\ k2.lo \in Words
  BY KeyParts
<1> DEFINE n1 == k1.hi * Word + k1.mid
           n2 == k2.hi * Word + k2.mid
<1>2. n1 \in Int /\ n2 \in Int /\ n1 * Word + k1.lo = n2 * Word + k2.lo
  BY <1>1, Widths DEF Value, Byte, Words
<1>3. n1 = n2 /\ k1.lo = k2.lo
  <2> HIDE DEF n1, n2
  <2>1. (n1 * Word + k1.lo) \div Word = n1 /\ (n1 * Word + k1.lo) % Word = k1.lo
    BY <1>1, <1>2, Widths, DivUnique DEF Words
  <2>2. (n2 * Word + k2.lo) \div Word = n2 /\ (n2 * Word + k2.lo) % Word = k2.lo
    BY <1>1, <1>2, Widths, DivUnique DEF Words
  <2> QED BY <1>2, <2>1, <2>2
<1>4. k1.hi = k2.hi /\ k1.mid = k2.mid
  <2>1. /\ Word \in Nat \ {0} /\ k1.hi \in Int /\ k2.hi \in Int
        /\ k1.mid \in 0 .. Word - 1 /\ k2.mid \in 0 .. Word - 1
    BY <1>1, Widths DEF Byte, Words
  <2>2. n1 \div Word = k1.hi /\ n1 % Word = k1.mid
    BY <2>1, DivUnique
  <2>3. n2 \div Word = k2.hi /\ n2 % Word = k2.mid
    BY <2>1, DivUnique
  <2> HIDE DEF n1, n2
  <2> QED BY <1>3, <2>2, <2>3
<1> QED
  BY <1>3, <1>4, KeyEqual

LEMMA PosFacts ==
  ASSUME NEW key \in Key
  PROVE  /\ Pos(key) \in 0 .. Space - 1
         /\ Pos(SwitchRC572Format[key]) = Value(key)
         /\ Value(SwitchRC572Format[key]) = Pos(key)
BY SwitchFacts, ValueFacts DEF Pos

LEMMA PosEqual ==
  ASSUME NEW k1 \in Key, NEW k2 \in Key, Pos(k1) = Pos(k2)
  PROVE  k1 = k2
<1>1. SwitchRC572Format[k1] = SwitchRC572Format[k2]
  BY SwitchFacts, ValueEqual DEF Pos
<1> QED
  BY <1>1, SwitchFacts

-----------------------------------------------------------------------------
(* The three ways the client and the core count. *)

\* hy_increment_l0 counts.
LEMMA HyIncrements ==
  ASSUME NEW key \in Key, NEW n \in Words
  PROVE  /\ HyIncrementL0(key, n) \in Key
         /\ Pos(HyIncrementL0(key, n)) = (Pos(key) + n) % Space
<1> DEFINE low == key.hi + Bswap(key.mid) * Base + n
           high == Bswap(key.lo) + low \div (Base * Word)
           mid == (low \div Base) % Word
           new == [hi |-> low % Base, mid |-> Bswap(mid), lo |-> Bswap(high % Word)]
<1>1. key.hi \in Byte /\ Bswap(key.mid) \in Words /\ Bswap(key.lo) \in Words
  BY KeyParts, BswapFacts
<1>2. low \in Nat
  BY <1>1, Widths DEF Byte, Words
<1>3. HyIncrementL0(key, n) = new
  BY DEF HyIncrementL0, Words
<1> HIDE DEF low
<1> DEFINE BW == Base * Word
           q == low \div BW
           e == low % BW
<1>4. low % Base \in Byte /\ low \div Base \in Int
  BY <1>2, Widths, DivMod DEF Byte
<1>5. mid \in Words
  <2> DEFINE x == low \div Base
  <2>1. x \in Int
    BY <1>4
  <2> HIDE DEF x
  <2>2. x % Word \in Words
    BY <2>1, Widths, DivMod DEF Words
  <2> QED BY <2>2 DEF x
<1>6. q \in Int /\ e \in 0 .. BW - 1 /\ low = q * BW + e
  <2>1. BW \in Nat \ {0}
    BY Widths
  <2> HIDE DEF BW
  <2> QED BY <1>2, <2>1, DivMod
<1> HIDE DEF q, e
<1>7. high = Bswap(key.lo) + q /\ high \in Int
  BY <1>1, <1>6, Widths DEF Words, q
<1> HIDE DEF high
<1> DEFINE p == high \div Word
           d == high % Word
<1>8. d \in Words /\ p \in Int /\ high = p * Word + d
  BY <1>7, Widths, DivMod DEF Words
<1> HIDE DEF mid, p, d
<1>9. new = [hi |-> low % Base, mid |-> Bswap(mid), lo |-> Bswap(d)]
  BY DEF d
<1> HIDE DEF new
<1>10. new \in Key
  <2>1. Bswap(mid) \in Words /\ Bswap(d) \in Words
    BY <1>5, <1>8, BswapFacts
  <2> QED BY <1>4, <1>9, <2>1 DEF Key, Byte, Words
<1>11. Pos(new) = d * BW + e
  <2>1. Pos(new) = Bswap(new.lo) * BW + (Bswap(new.mid) * Base + new.hi)
    BY <1>10, PosOf
  <2>2. Bswap(new.lo) = d /\ Bswap(new.mid) = mid /\ new.hi = low % Base
    BY <1>5, <1>8, <1>9, BswapFacts
  <2>3. mid * Base + (low % Base) = e
    BY <1>2, Widths, ModSplit DEF mid, e
  <2> QED BY <2>1, <2>2, <2>3
<1>12. Pos(key) + n = p * Space + (d * BW + e)
  <2>1. Pos(key) + n = Bswap(key.lo) * BW + low
    BY PosOf, <1>1, Widths DEF low, Byte, Words
  <2>2. Bswap(key.lo) \in Int /\ BW \in Int /\ d \in Int /\ e \in Int
    BY <1>1, <1>6, <1>8, Widths DEF Words
  <2>3. Space = BW * Word /\ Word \in Int
    BY Widths
  <2> HIDE DEF BW
  <2>4. Pos(key) + n = (p * Word + d) * BW + e
    BY <1>6, <1>7, <1>8, <2>1, <2>2
  <2> QED BY <1>8, <2>2, <2>3, <2>4
<1> DEFINE r == d * BW + e
<1>13. r \in 0 .. Space - 1
  BY <1>10, <1>11, PosFacts
<1>14. (Pos(key) + n) % Space = r
  <2>1. Pos(key) + n = p * Space + r
    BY <1>12
  <2> HIDE DEF r
  <2>2. Space \in Nat \ {0} /\ p \in Int
    BY <1>8, Widths
  <2>3. (p * Space + r) % Space = r
    BY <1>13, <2>2, DivUnique
  <2> QED BY <2>1, <2>3
<1> QED
  BY <1>3, <1>10, <1>11, <1>14

\* Adding to a word, and the carry out of it: the sum is less than what was
\* added, to either side; or it is zero, when that was 1.
LEMMA Carry ==
  ASSUME NEW x \in Words, NEW n \in Words
  PROVE  LET s == (x + n) % Word
             c == IF s < n THEN 1 ELSE 0
         IN /\ s \in Words /\ c \in {0, 1} /\ x + n = c * Word + s
            /\ (s < n <=> s < x) /\ (n = 1 => (s < n <=> s = 0))
<1>1. x + n \in 0 .. 2 * Word - 1 /\ x \in Int /\ n \in Int /\ Word \in Int
  BY Widths DEF Words
<1> DEFINE s == (x + n) % Word
<1>2. s = (IF x + n < Word THEN x + n ELSE x + n - Word)
  <2> DEFINE y == x + n
  <2>1. y \in 0 .. 2 * Word - 1 /\ Word \in Nat \ {0}
    BY <1>1, Widths
  <2> HIDE DEF y
  <2>2. y % Word = (IF y < Word THEN y ELSE y - Word)
    BY <2>1, ModOnce
  <2>3. s = y % Word
    BY DEF y
  <2> HIDE DEF s
  <2> QED BY <1>1, <2>2, <2>3 DEF y
<1> HIDE DEF s
<1>3. CASE x + n < Word
  <2>1. s = x + n /\ ~(s < n) /\ ~(s < x)
    BY <1>2, <1>3, Widths DEF Words
  <2>2. n = 1 => s # 0
    BY <2>1, Widths DEF Words
  <2>3. s \in Words /\ x + n = 0 * Word + s
    BY <1>3, <2>1, Widths DEF Words
  <2> QED BY <2>1, <2>2, <2>3 DEF s
<1>4. CASE ~(x + n < Word)
  <2>1. s = x + n - Word /\ s < n /\ s < x
    BY <1>2, <1>4, Widths DEF Words
  <2>2. n = 1 => s = 0
    BY <1>4, <2>1, Widths DEF Words
  <2>3. s \in Words /\ x + n = 1 * Word + s
    BY <1>1, <1>4, <2>1, Widths DEF Words
  <2> QED BY <2>1, <2>2, <2>3 DEF s
<1> QED
  BY <1>3, <1>4

\* A plain key whose high byte may be too large: what is beyond the byte is lost.
LEMMA Truncated ==
  ASSUME NEW h \in Nat, NEW mid \in Words, NEW lo \in Words
  PROVE  /\ [hi |-> h % Base, mid |-> mid, lo |-> lo] \in Key
         /\ Value([hi |-> h % Base, mid |-> mid, lo |-> lo])
              = ((h * Word + mid) * Word + lo) % Space
<1> DEFINE key == [hi |-> h % Base, mid |-> mid, lo |-> lo]
           p == h \div Base
           b == h % Base
<1>1. p \in Int /\ b \in Byte /\ h = p * Base + b
  BY Widths, DivMod DEF Byte
<1>2. key \in Key
  BY <1>1 DEF Key, Byte, Words
<1>3. Value(key) = (b * Word + mid) * Word + lo
  BY DEF Value
<1> HIDE DEF key, p, b
<1>4. (h * Word + mid) * Word + lo = p * Space + Value(key)
  BY <1>1, <1>3, Widths DEF Byte, Words, Space
<1>5. ((h * Word + mid) * Word + lo) % Space = Value(key)
  <2> DEFINE v == Value(key)
  <2>1. v \in 0 .. Space - 1
    BY <1>2, ValueFacts
  <2> HIDE DEF v
  <2>2. (p * Space + v) % Space = v
    BY <1>1, <2>1, Widths, DivUnique
  <2> QED BY <1>4, <2>2 DEF v
<1> QED
  BY <1>2, <1>5 DEF key

\* __IncrementKey counts.
LEMMA ClientIncrements ==
  ASSUME NEW key \in Key, NEW n \in Words
  PROVE  /\ IncrementKey(key, n) \in Key
         /\ Pos(IncrementKey(key, n)) = (Pos(key) + n) % Space
<1> DEFINE plain == SwitchRC572Format[key]
           lo == (plain.lo + n) % Word
           c == IF lo < n THEN 1 ELSE 0
           mid == (plain.mid + c) % Word
           h == IF c = 1 /\ mid = 0 THEN plain.hi + 1 ELSE plain.hi
           new == [hi |-> h % Base, mid |-> mid, lo |-> lo]
<1>1. plain \in Key /\ Value(plain) = Pos(key)
  BY SwitchFacts DEF Pos
<1> HIDE DEF plain
<1>2. plain.hi \in Byte /\ plain.mid \in Words /\ plain.lo \in Words
  BY <1>1, KeyParts
<1>3. lo \in Words /\ c \in {0, 1} /\ plain.lo + n = c * Word + lo
  BY <1>2, Carry
<1> HIDE DEF lo, c
<1>4. mid \in Words /\ h \in Nat /\ plain.hi * Word + plain.mid + c = h * Word + mid
  <2>1. CASE c = 0
    <3>1. mid = plain.mid
      BY <1>2, <2>1, Widths, ModOnce DEF Words
    <3> QED BY <1>2, <2>1, <3>1, Widths DEF Byte, Words
  <2>2. CASE c = 1
    <3>1. 1 \in Words
      BY Widths DEF Words
    <3> DEFINE d == IF mid < 1 THEN 1 ELSE 0
    <3>2. /\ mid \in Words /\ d \in {0, 1} /\ plain.mid + 1 = d * Word + mid
          /\ (mid < 1 <=> mid = 0)
      BY <1>2, <2>2, <3>1, Carry
    <3> HIDE DEF mid
    <3>3. h = plain.hi + d
      BY <1>2, <2>2, <3>2, Widths DEF Byte
    <3> QED BY <1>2, <2>2, <3>2, <3>3, Widths DEF Byte, Words
  <2> QED BY <1>3, <2>1, <2>2
<1> HIDE DEF mid, h
<1>5. Pos(key) + n = (h * Word + mid) * Word + lo
  <2>1. Pos(key) + n = (plain.hi * Word + plain.mid) * Word + (plain.lo + n)
    BY <1>1, <1>2, Widths DEF Value, Byte, Words
  <2> DEFINE x == plain.hi * Word + plain.mid
  <2>2. x \in Int /\ lo \in Int /\ c \in Int /\ Word \in Int
    BY <1>2, <1>3, Widths DEF Byte, Words
  <2>3. x + c = h * Word + mid
    BY <1>4
  <2> HIDE DEF x
  <2>4. x * Word + (c * Word + lo) = (x + c) * Word + lo
    BY <2>2
  <2> QED BY <1>3, <2>1, <2>3, <2>4 DEF x
<1>6. new \in Key /\ Value(new) = (Pos(key) + n) % Space
  BY <1>3, <1>4, <1>5, Truncated
<1>7. IncrementKey(key, n) = SwitchRC572Format[new]
  BY DEF IncrementKey, plain, lo, c, mid, h
<1> HIDE DEF new
<1> QED
  BY <1>6, <1>7, SwitchFacts, PosFacts

\* A count of two words.
LEMMA CountFacts ==
  ASSUME NEW k \in CountType
  PROVE  k.hi \in Words /\ k.lo \in Words /\ Number(k) \in 0 .. Word * Word - 1
<1>1. k.hi \in Words /\ k.lo \in Words
  BY DEF CountType
<1>2. (k.hi + 1) * Word =< Word * Word
  BY <1>1, Widths DEF Words
<1>3. k.hi * Word + k.lo < (k.hi + 1) * Word /\ k.hi * Word + k.lo \in Nat
  BY <1>1, Widths DEF Words
<1> QED
  BY <1>1, <1>2, <1>3, Widths DEF Number, Words

\* __InternalLoadState's first key.
LEMMA LoadsFirst ==
  ASSUME NEW key \in Key, NEW k \in CountType
  PROVE  /\ FirstL0(key, k) \in Key
         /\ Pos(FirstL0(key, k)) = (Value(key) + Number(k)) % Space
<1> DEFINE mid1 == (key.mid + k.hi) % Word
           h1 == IF mid1 < k.hi THEN key.hi + 1 ELSE key.hi
           lo == (key.lo + k.lo) % Word
           mid2 == IF lo < k.lo THEN (mid1 + 1) % Word ELSE mid1
           h2 == IF lo < k.lo /\ mid2 = 0 THEN h1 + 1 ELSE h1
           c1 == IF mid1 < k.hi THEN 1 ELSE 0
           c == IF lo < k.lo THEN 1 ELSE 0
           new == [hi |-> h2 % Base, mid |-> mid2, lo |-> lo]
<1>1. /\ key.hi \in Byte /\ key.mid \in Words /\ key.lo \in Words
      /\ k.hi \in Words /\ k.lo \in Words
  BY KeyParts, CountFacts
<1>2. mid1 \in Words /\ c1 \in {0, 1} /\ key.mid + k.hi = c1 * Word + mid1
  BY <1>1, Carry
<1>3. lo \in Words /\ c \in {0, 1} /\ key.lo + k.lo = c * Word + lo
  BY <1>1, Carry
<1> HIDE DEF mid1, lo
<1>4. h1 = key.hi + c1 /\ h1 \in Nat
  BY <1>1, Widths DEF Byte
<1> HIDE DEF h1, c1
<1>5. mid2 \in Words /\ h2 \in Nat /\ h1 * Word + mid1 + c = h2 * Word + mid2
  <2>1. CASE c = 0
    <3>1. ~(lo < k.lo)
      BY <2>1
    <3>2. mid2 = mid1 /\ h2 = h1
      BY <3>1
    <3> HIDE DEF mid2, h2, c
    <3> QED BY <1>2, <1>4, <2>1, <3>2, Widths DEF Words
  <2>2. CASE c = 1
    <3>1. 1 \in Words /\ lo < k.lo
      BY <2>2, Widths DEF Words
    <3> DEFINE d == IF mid2 < 1 THEN 1 ELSE 0
    <3>2. mid2 = (mid1 + 1) % Word
      BY <3>1
    <3> HIDE DEF mid2
    <3>3. /\ mid2 \in Words /\ d \in {0, 1} /\ mid1 + 1 = d * Word + mid2
          /\ (mid2 < 1 <=> mid2 = 0)
      BY <1>2, <3>1, <3>2, Carry
    <3>4. h2 = h1 + d
      BY <1>4, <3>1, <3>3
    <3> HIDE DEF h2, d, c
    <3> QED BY <1>2, <1>4, <2>2, <3>3, <3>4, Widths DEF Words
  <2> QED BY <1>3, <2>1, <2>2
<1> HIDE DEF mid2, h2, c
<1>6. Value(key) + Number(k) = (h2 * Word + mid2) * Word + lo
  <2>1. Value(key) + Number(k) = (key.hi * Word + (key.mid + k.hi)) * Word + (key.lo + k.lo)
    BY <1>1, Widths DEF Value, Number, Byte, Words
  <2>2. (key.hi * Word + (key.mid + k.hi)) * Word + (key.lo + k.lo)
          = (h1 * Word + mid1 + c) * Word + lo
    BY <1>1, <1>2, <1>3, <1>4, Widths DEF Byte, Words
  <2> QED BY <1>5, <2>1, <2>2
<1>7. new \in Key /\ Value(new) = (Value(key) + Number(k)) % Space
  BY <1>3, <1>5, <1>6, Truncated
<1>8. FirstL0(key, k) = SwitchRC572Format[new]
  BY DEF FirstL0, mid1, lo, h1, mid2, h2
<1> HIDE DEF new
<1> QED
  BY <1>7, <1>8, SwitchFacts, PosFacts

\* The key that is reported: the carries lose nothing.
LEMMA ReportsKey ==
  ASSUME NEW key \in Key, NEW k \in CountType
  PROVE  /\ FoundKey(key, k).mid \in Words /\ FoundKey(key, k).lo \in Words
         /\ FoundKey(key, k).hi \in Nat
         /\ FoundKey(key, k) = [hi |-> FoundKey(key, k).hi, mid |-> FoundKey(key, k).mid,
                                 lo |-> FoundKey(key, k).lo]
         /\ Value(FoundKey(key, k)) = Value(key) + Number(k)
<1> DEFINE lo == (key.lo + k.lo) % Word
           c == IF lo < key.lo THEN 1 ELSE 0
           mid1 == (key.mid + c) % Word
           h1 == IF c = 1 /\ mid1 = 0 THEN key.hi + 1 ELSE key.hi
           mid2 == (mid1 + k.hi) % Word
           h2 == IF mid2 < mid1 THEN h1 + 1 ELSE h1
<1>1. /\ key.hi \in Byte /\ key.mid \in Words /\ key.lo \in Words
      /\ k.hi \in Words /\ k.lo \in Words
  BY KeyParts, CountFacts
<1>2. lo \in Words /\ c \in {0, 1} /\ key.lo + k.lo = c * Word + lo
  <2>1. /\ lo \in Words /\ (lo < k.lo <=> lo < key.lo)
        /\ key.lo + k.lo = (IF lo < k.lo THEN 1 ELSE 0) * Word + lo
    BY <1>1, Carry
  <2> HIDE DEF lo
  <2> QED BY <2>1
<1> HIDE DEF lo, c
<1>3. mid1 \in Words /\ h1 \in Nat /\ key.hi * Word + key.mid + c = h1 * Word + mid1
  <2>1. CASE c = 0
    <3>1. mid1 = key.mid
      <4>1. key.mid + c = 0 * Word + key.mid /\ key.mid \in 0 .. Word - 1
            /\ Word \in Nat \ {0} /\ 0 \in Int
        BY <1>1, <2>1, Widths DEF Words
      <4> QED BY <4>1, DivUnique
    <3> QED BY <1>1, <2>1, <3>1, Widths DEF Byte, Words
  <2>2. CASE c = 1
    <3>1. 1 \in Words
      BY Widths DEF Words
    <3> DEFINE d == IF mid1 < 1 THEN 1 ELSE 0
    <3>2. /\ mid1 \in Words /\ d \in {0, 1} /\ key.mid + 1 = d * Word + mid1
          /\ (mid1 < 1 <=> mid1 = 0)
      BY <1>1, <2>2, <3>1, Carry
    <3> HIDE DEF mid1
    <3>3. h1 = key.hi + d
      BY <1>1, <2>2, <3>2, Widths DEF Byte
    <3> QED BY <1>1, <2>2, <3>2, <3>3, Widths DEF Byte, Words
  <2> QED BY <1>2, <2>1, <2>2
<1> HIDE DEF mid1, h1
<1> DEFINE d == IF mid2 < k.hi THEN 1 ELSE 0
<1>4. /\ mid2 \in Words /\ d \in {0, 1} /\ mid1 + k.hi = d * Word + mid2
      /\ (mid2 < k.hi <=> mid2 < mid1)
  BY <1>1, <1>3, Carry
<1> HIDE DEF mid2
<1>5. h2 = h1 + d /\ h2 \in Nat
  BY <1>3, <1>4
<1> HIDE DEF h2, d
<1>6. Value(key) + Number(k) = (h2 * Word + mid2) * Word + lo
  <2>1. Value(key) + Number(k) = (key.hi * Word + key.mid + k.hi) * Word + (key.lo + k.lo)
    BY <1>1, Widths DEF Value, Number, Byte, Words
  <2> DEFINE x == key.hi * Word + key.mid + k.hi
  <2>2. x \in Int /\ lo \in Int /\ c \in Int /\ Word \in Int
    BY <1>1, <1>2, Widths DEF Byte, Words
  <2>3. x + c = h2 * Word + mid2
    BY <1>1, <1>2, <1>3, <1>4, <1>5, Widths DEF Byte, Words
  <2> HIDE DEF x
  <2>4. x * Word + (c * Word + lo) = (x + c) * Word + lo
    BY <2>2
  <2> QED BY <1>2, <2>1, <2>3, <2>4 DEF x
<1>7. FoundKey(key, k) = [hi |-> h2, mid |-> mid2, lo |-> lo]
  BY DEF FoundKey, mid1, lo, c, h1, mid2, h2
<1> QED
  BY <1>2, <1>4, <1>5, <1>6, <1>7 DEF Value

-----------------------------------------------------------------------------
(* The keys of a packet, and which of them match. *)

\* The keys after a key, which may wrap around the end of the key space.
LEMMA AtFacts ==
  ASSUME NEW s \in 0 .. Space - 1, NEW n \in Nat
  PROVE  /\ At(s, n) \in 0 .. Space - 1
         /\ \A m \in Nat : (At(s, n) + m) % Space = At(s, n + m)
<1>1. Space \in Nat \ {0}
  BY Widths
<1>2. s + n \in Int
  OBVIOUS
<1>3. (s + n) % Space \in 0 .. Space - 1
  BY <1>1, <1>2, DivMod
<1>4. ASSUME NEW m \in Nat PROVE (((s + n) % Space) + m) % Space = (s + (n + m)) % Space
  <2>1. (((s + n) % Space) + m) % Space = ((s + n) + m) % Space
    <3> DEFINE x == s + n
    <3>1. x \in Int /\ m \in Int
      BY <1>2
    <3> HIDE DEF x
    <3>2. ((x % Space) + m) % Space = (x + m) % Space
      BY <1>1, <3>1, ModPlus
    <3> QED BY <3>2 DEF x
  <2>2. (s + n) + m = s + (n + m)
    OBVIOUS
  <2> QED BY <2>1, <2>2
<1> QED
  BY <1>3, <1>4 DEF At

\* A key that is not before the first one was not reached by wrapping around.
LEMMA AtExact ==
  ASSUME NEW s \in 0 .. Space - 1, NEW n \in 0 .. Space - 1, At(s, n) >= s
  PROVE  At(s, n) = s + n
<1>1. Space \in Nat \ {0} /\ s + n \in 0 .. 2 * Space - 1 /\ s \in Int /\ n \in Int
  BY Widths
<1>2. At(s, n) = (IF s + n < Space THEN s + n ELSE s + n - Space)
  <2> DEFINE x == s + n
  <2> HIDE DEF x
  <2>1. x % Space = (IF x < Space THEN x ELSE x - Space)
    BY <1>1, ModOnce DEF x
  <2>2. At(s, n) = x % Space
    BY DEF At, x
  <2> QED BY <1>1, <2>1, <2>2 DEF x
<1> QED
  BY <1>1, <1>2

LEMMA AtDistinct ==
  ASSUME NEW s \in 0 .. Space - 1, NEW i \in 0 .. Space - 1, NEW j \in 0 .. Space - 1,
         At(s, i) = At(s, j)
  PROVE  i = j
<1>1. Space \in Nat \ {0} /\ s + i \in 0 .. 2 * Space - 1 /\ s + j \in 0 .. 2 * Space - 1
  BY Widths
<1> DEFINE x == s + i
           y == s + j
<1> HIDE DEF x, y
<1>2. /\ x % Space = (IF x < Space THEN x ELSE x - Space)
      /\ y % Space = (IF y < Space THEN y ELSE y - Space)
  BY <1>1, ModOnce DEF x, y
<1>3. x % Space = y % Space
  BY DEF At, x, y
<1> QED
  BY <1>1, <1>2, <1>3 DEF x, y

\* Two stretches of keys, one after the other.
LEMMA KeysJoin ==
  ASSUME NEW s \in 0 .. Space - 1, NEW a \in Nat, NEW b \in Nat, NEW c \in Nat,
         a <= b, b <= c, c <= Space
  PROVE  /\ Keys(s, a, c) = Keys(s, a, b) \cup Keys(s, b, c)
         /\ Keys(s, a, b) \cap Keys(s, b, c) = {}
         /\ Keys(s, a, a) = {}
<1>1. a .. c - 1 = (a .. b - 1) \cup (b .. c - 1)
  OBVIOUS
<1>2. Space \in Nat
  BY Widths
<1>3. ASSUME NEW i \in a .. b - 1, NEW j \in b .. c - 1, At(s, i) = At(s, j)
      PROVE  FALSE
  <2>1. i \in 0 .. Space - 1 /\ j \in 0 .. Space - 1 /\ i # j
    BY <1>2
  <2> QED BY <1>3, <2>1, AtDistinct
<1>4. Keys(s, a, c) = Keys(s, a, b) \cup Keys(s, b, c)
  <2> HIDE DEF At
  <2> QED BY <1>1 DEF Keys
<1>5. Keys(s, a, b) \cap Keys(s, b, c) = {}
  BY <1>3 DEF Keys
<1>6. a .. a - 1 = {}
  OBVIOUS
<1>7. Keys(s, a, a) = {}
  BY <1>6 DEF Keys
<1> QED
  BY <1>4, <1>5, <1>7

LEMMA KeysType ==
  ASSUME NEW s \in 0 .. Space - 1, NEW a \in Nat, NEW b \in Nat
  PROVE  Keys(s, a, b) \in SUBSET (0 .. Space - 1)
<1>1. \A i \in a .. b - 1 : i \in Nat
  OBVIOUS
<1> QED
  BY <1>1, AtFacts DEF Keys

\* Those of the keys that match are numbered from the first key on.
LEMMA HitAt ==
  ASSUME NEW s \in 0 .. Space - 1, NEW a \in Nat, NEW b \in Nat, b <= Space,
         NEW M \in SUBSET Nat, \A m \in M : m >= s, NEW m \in M \cap Keys(s, a, b)
  PROVE  m - s \in a .. b - 1 /\ m \in Int
<1>1. PICK i \in a .. b - 1 : m = At(s, i)
  BY DEF Keys
<1>2. i \in 0 .. Space - 1
  BY Widths
<1>3. m = s + i
  BY <1>1, <1>2, AtExact
<1> QED
  BY <1>2, <1>3

\* The highest of some keys.
LEMMA MaxHit ==
  ASSUME NEW S \in SUBSET (0 .. Space - 1), S # {}
  PROVE  Max(S) \in S /\ \A i \in S : Max(S) >= i
<1>1. Space \in Nat
  BY Widths
<1>2. Space \in Int /\ S \in SUBSET Int /\ \A i \in S : i <= Space
  BY <1>1
<1> QED
  BY <1>2, MaxOfPlaces

LEMMA MaxIs ==
  ASSUME NEW S \in SUBSET (0 .. Space - 1), NEW m \in S, \A i \in S : m >= i
  PROVE  Max(S) = m
<1>1. Max(S) \in S /\ Max(S) >= m /\ m >= Max(S)
  BY MaxHit
<1>2. Max(S) \in Int /\ m \in Int
  <2>1. \A i \in 0 .. Space - 1 : i \in Int
    BY Widths
  <2> QED BY <1>1, <2>1
<1> QED
  BY <1>1, <1>2

\* The matches of two stretches of keys: they add up, and the last is the last
\* of the later stretch.
LEMMA HitsJoin ==
  ASSUME NEW s \in 0 .. Space - 1, NEW a \in Nat, NEW b \in Nat, NEW c \in Nat,
         a <= b, b <= c, c <= Space, NEW M \in SUBSET Nat, \A m \in M : m >= s
  PROVE  LET H1 == M \cap Keys(s, a, b)
             H2 == M \cap Keys(s, b, c)
             H  == M \cap Keys(s, a, c)
         IN /\ H = H1 \cup H2
            /\ Cardinality(H1) \in Nat /\ Cardinality(H2) \in Nat
            /\ Cardinality(H2) = 0 <=> H2 = {}
            /\ Cardinality(H) = Cardinality(H1) + Cardinality(H2)
            /\ H2 # {} => Max(H) = Max(H2)
<1> DEFINE H1 == M \cap Keys(s, a, b)
           H2 == M \cap Keys(s, b, c)
           H  == M \cap Keys(s, a, c)
<1>1. H = H1 \cup H2 /\ H1 \cap H2 = {}
  BY KeysJoin
<1>2. H1 \in SUBSET (0 .. Space - 1) /\ H2 \in SUBSET (0 .. Space - 1)
  BY KeysType
<1>3. IsFiniteSet(H1) /\ IsFiniteSet(H2)
  <2>1. IsFiniteSet(0 .. Space - 1)
    <3>1. 0 \in Int /\ Space - 1 \in Int
      BY Widths
    <3> QED BY <3>1, FS_Interval
  <2> HIDE DEF H1, H2
  <2> QED BY <1>2, <2>1, FS_Subset
<1>4. ASSUME NEW i \in H1, NEW j \in H2 PROVE j >= i
  <2>0. b <= Space
    BY Widths
  <2>1. i - s \in a .. b - 1 /\ i \in Int
    BY <2>0, HitAt
  <2>2. j - s \in b .. c - 1 /\ j \in Int
    BY HitAt
  <2> QED BY <2>1, <2>2
<1> HIDE DEF H1, H2, H
<1>5. Cardinality(H1) \in Nat /\ Cardinality(H2) \in Nat /\ (Cardinality(H2) = 0 <=> H2 = {})
  BY <1>3, FS_CardinalityType, FS_EmptySet
<1>6. Cardinality(H) = Cardinality(H1) + Cardinality(H2)
  <2>1. Cardinality(H1 \cup H2) = Cardinality(H1) + Cardinality(H2) - Cardinality({})
    BY <1>1, <1>3, FS_Union
  <2> QED BY <1>1, <1>5, <2>1, FS_EmptySet
<1>7. ASSUME H2 # {} PROVE Max(H) = Max(H2)
  <2> DEFINE m == Max(H2)
  <2>1. m \in H2 /\ \A i \in H2 : m >= i
    BY <1>2, <1>7, MaxHit
  <2> HIDE DEF m
  <2>2. m \in H /\ \A i \in H : m >= i
    BY <1>1, <1>4, <2>1
  <2>3. H \in SUBSET (0 .. Space - 1)
    BY <1>1, <1>2
  <2> QED BY <2>2, <2>3, MaxIs DEF m
<1>8. QED
  BY <1>1, <1>5, <1>6, <1>7 DEF H1, H2, H

\* The kernel's results, by offset, are the matches among the keys it tested.
LEMMA OffsetsHit ==
  ASSUME NEW s \in 0 .. Space - 1, NEW a \in Nat, NEW n \in Nat, a + n <= Space,
         NEW M \in SUBSET Nat, \A m \in M : m >= s
  PROVE  LET P == {i \in 0 .. n - 1 : At(s, a + i) \in M}
             H == M \cap Keys(s, a, a + n)
         IN /\ Keys(s, a, a + n) = {At(s, a + i) : i \in 0 .. n - 1}
            /\ Cardinality(P) = Cardinality(H)
            /\ P = {} <=> H = {}
            /\ P # {} => Max(P) \in P /\ At(s, a + Max(P)) = Max(H)
<1> DEFINE P == {i \in 0 .. n - 1 : At(s, a + i) \in M}
           H == M \cap Keys(s, a, a + n)
           f == [i \in P |-> At(s, a + i)]
<1>1. Keys(s, a, a + n) = {At(s, a + i) : i \in 0 .. n - 1}
  <2> DEFINE J == a .. a + n - 1
             I == 0 .. n - 1
  <2>1. \A i \in I : a + i \in J
    OBVIOUS
  <2>2. \A j \in J : j - a \in I /\ j = a + (j - a)
    OBVIOUS
  <2>3. Keys(s, a, a + n) = {At(s, j) : j \in J}
    BY DEF Keys
  <2> HIDE DEF At, I, J
  <2>4. \A j \in J : \E i \in I : At(s, j) = At(s, a + i)
    BY <2>2
  <2>5. \A i \in I : \E j \in J : At(s, a + i) = At(s, j)
    BY <2>1
  <2>6. {At(s, j) : j \in J} = {At(s, a + i) : i \in I}
    BY <2>4, <2>5
  <2>7. Keys(s, a, a + n) = {At(s, a + i) : i \in I}
    BY <2>3, <2>6
  <2> QED BY <2>7 DEF I
<1>2. \A i \in P : At(s, a + i) \in H
  BY <1>1
<1>3. \A h \in H : \E i \in P : h = At(s, a + i)
  BY <1>1
<1>4. ASSUME NEW i \in P, NEW j \in P, At(s, a + i) = At(s, a + j) PROVE i = j
  <2>1. a + i \in 0 .. Space - 1 /\ a + j \in 0 .. Space - 1 /\ i \in Int /\ j \in Int
    BY Widths
  <2>2. a + i = a + j
    BY <1>4, <2>1, AtDistinct
  <2> QED BY <2>1, <2>2
<1>5. IsFiniteSet(P)
  <2>1. IsFiniteSet(0 .. n - 1)
    <3>1. 0 \in Int /\ n - 1 \in Int
      OBVIOUS
    <3> QED BY <3>1, FS_Interval
  <2>2. P \in SUBSET (0 .. n - 1)
    OBVIOUS
  <2> HIDE DEF P
  <2> QED BY <2>1, <2>2, FS_Subset
<1>6. P \in SUBSET (0 .. n - 1) /\ H \in SUBSET (0 .. Space - 1)
  BY KeysType
<1>7. ASSUME NEW i \in P PROVE At(s, a + i) = s + (a + i)
  <2>1. a + i \in 0 .. Space - 1
    BY Widths
  <2>2. At(s, a + i) >= s
    OBVIOUS
  <2> QED BY <2>1, <2>2, AtExact
<1> HIDE DEF P, H
<1>8. f \in Bijection(P, H)
  <2>1. f \in [P -> H]
    BY <1>2
  <2>2. \A i, j \in P : f[i] = f[j] => i = j
    BY <1>4
  <2>3. \A h \in H : \E i \in P : f[i] = h
    BY <1>3
  <2> HIDE DEF f
  <2> QED BY <2>1, <2>2, <2>3 DEF Bijection, Injection, Surjection, IsInjective
<1>9. Cardinality(P) = Cardinality(H)
  BY <1>5, <1>8, FS_Bijection DEF ExistsBijection
<1>10. P = {} <=> H = {}
  BY <1>2, <1>3
<1>11. ASSUME P # {} PROVE Max(P) \in P /\ At(s, a + Max(P)) = Max(H)
  <2> DEFINE x == Max(P)
  <2>1. x \in P /\ \A i \in P : x >= i
    <3>1. P \in SUBSET Int /\ n \in Int /\ \A i \in P : i <= n
      BY <1>6
    <3> QED BY <1>11, <3>1, MaxOfPlaces
  <2> HIDE DEF x
  <2>2. At(s, a + x) \in H
    BY <1>2, <2>1
  <2>3. ASSUME NEW h \in H PROVE At(s, a + x) >= h
    <3>1. PICK i \in P : h = At(s, a + i)
      BY <1>3
    <3>2. h = s + (a + i) /\ At(s, a + x) = s + (a + x) /\ x >= i
      BY <1>7, <2>1, <3>1
    <3>3. x \in Int /\ i \in Int
      BY <1>6, <2>1
    <3> QED BY <3>2, <3>3
  <2> QED BY <1>6, <2>1, <2>2, <2>3, MaxIs DEF x
<1> QED
  BY <1>1, <1>9, <1>10, <1>11 DEF P, H
-----------------------------------------------------------------------------
(* Slices and launches. *)

\* Multiples, as % tells them.
LEMMA Multiple ==
  ASSUME NEW d \in Nat \ {0}, NEW n \in Int
  PROVE  n % d = 0 <=> \E k \in Int : n = k * d
<1>1. ASSUME n % d = 0 PROVE \E k \in Int : n = k * d
  <2>1. n \div d \in Int /\ n = (n \div d) * d + (n % d)
    BY DivMod
  <2> DEFINE q == n \div d
             r == n % d
  <2> HIDE DEF q, r
  <2>2. q \in Int /\ n = q * d
    BY <1>1, <2>1 DEF q, r
  <2> QED BY <2>2
<1>2. ASSUME NEW k \in Int, n = k * d PROVE n % d = 0
  <2>1. n = k * d + 0 /\ 0 \in 0 .. d - 1
    BY <1>2
  <2> QED BY <2>1, DivUnique
<1> QED
  BY <1>1, <1>2

LEMMA Multiples ==
  ASSUME NEW d \in Nat \ {0}, NEW n \in Int, NEW m \in Int, n % d = 0, m % d = 0
  PROVE  (n + m) % d = 0 /\ (n - m) % d = 0
<1>1. PICK i \in Int : n = i * d
  BY Multiple
<1>2. PICK j \in Int : m = j * d
  BY Multiple
<1>3. n + m = (i + j) * d /\ n - m = (i - j) * d
  BY <1>1, <1>2
<1>4. n + m \in Int /\ n - m \in Int /\ i + j \in Int /\ i - j \in Int
  OBVIOUS
<1> QED
  BY <1>3, <1>4, Multiple

\* A number of keys rounded up to a multiple of Minimum, in a word.
LEMMA RoundedUp ==
  ASSUME NEW cut \in Words, cut >= Minimum
  PROVE  LET up == (Minimum - (cut % Minimum)) % Minimum
         IN (cut + up) % Word \in 1 .. Word - 1 /\ ((cut + up) % Word) % Pipeline = 0
<1> DEFINE q == cut \div Minimum
           r == cut % Minimum
           up == (Minimum - r) % Minimum
           k == IF r = 0 THEN q ELSE q + 1
<1>1. /\ Minimum \in Nat \ {0} /\ Pipeline \in Nat \ {0} /\ Word \in Nat \ {0}
      /\ Minimum < Word /\ cut \in Int /\ cut < Word
  BY Rc572Assumption, Widths DEF Words
<1>0. /\ Minimum % Pipeline = 0 /\ Word % Pipeline = 0 /\ Word % Minimum # 0
      /\ Minimum \in Int /\ Word \in Int
  BY <1>1, Rc572Assumption
<1>2. q \in Int /\ r \in 0 .. Minimum - 1 /\ cut = q * Minimum + r
  BY <1>1, DivMod
<1> HIDE DEF q, r
<1>3. up = (IF r = 0 THEN 0 ELSE Minimum - r)
  <2>1. Minimum - r \in 0 .. 2 * Minimum - 1
    BY <1>1, <1>2
  <2>2. up = (IF Minimum - r < Minimum THEN Minimum - r ELSE Minimum - r - Minimum)
    <3> DEFINE x == Minimum - r
    <3> HIDE DEF x
    <3>1. x % Minimum = (IF x < Minimum THEN x ELSE x - Minimum)
      BY <1>1, <2>1, ModOnce DEF x
    <3> QED BY <3>1 DEF x
  <2> HIDE DEF up
  <2> QED BY <1>1, <1>2, <2>2
<1> HIDE DEF up
<1>4. cut + up = k * Minimum /\ k \in Int /\ cut + up \in Minimum .. Word + Minimum - 1
  BY <1>1, <1>2, <1>3
<1> HIDE DEF k
<1>5. cut + up # Word
  <2>1. SUFFICES ASSUME Word = k * Minimum PROVE FALSE
    BY <1>4
  <2>2. Word % Minimum = 0
    BY <1>0, <1>1, <1>4, <2>1, Multiple
  <2> QED BY <1>0, <2>2
<1> DEFINE x == cut + up
<1>6. x % Word = (IF x < Word THEN x ELSE x - Word)
  <2>1. x \in 0 .. 2 * Word - 1
    BY <1>1, <1>4
  <2> HIDE DEF x
  <2> QED BY <1>1, <2>1, ModOnce
<1>7. x % Pipeline = 0
  <2>1. PICK m \in Int : Minimum = m * Pipeline
    BY <1>0, <1>1, Multiple
  <2>2. x = (k * m) * Pipeline
    BY <1>1, <1>4, <2>1
  <2>3. k * m \in Int /\ x \in Int
    BY <1>1, <1>4
  <2> HIDE DEF x
  <2> QED BY <1>1, <2>2, <2>3, Multiple
<1>8. x \in Int /\ x >= 1 /\ x < 2 * Word /\ x # Word
  BY <1>1, <1>4, <1>5
<1> HIDE DEF x
<1>9. (x - Word) % Pipeline = 0
  BY <1>0, <1>1, <1>7, <1>8, Multiples
<1>10. x % Word \in 1 .. Word - 1 /\ (x % Word) % Pipeline = 0
  <2>1. CASE x < Word
    BY <1>1, <1>6, <1>7, <1>8, <2>1
  <2>2. CASE ~(x < Word)
    BY <1>1, <1>6, <1>8, <1>9, <2>2
  <2> QED BY <2>1, <2>2
<1> QED
  BY <1>10 DEF x, up, r

\* A slice is of some keys, in whole pipelines.
LEMMA SliceOf ==
  ASSUME work \in Packet, NEW tslice \in Slices
  PROVE  KeysToCheck(tslice) \in 1 .. Word - 1 /\ KeysToCheck(tslice) % Pipeline = 0
<1> DEFINE left == (work.iterations.hi - work.keysdone.hi) % Word
           rest == (work.iterations.lo - work.keysdone.lo) % Word
           cut == IF left <= 1 /\ (work.keysdone.lo + tslice) % Word < tslice
                  THEN rest ELSE tslice
           up == (Minimum - (cut % Minimum)) % Minimum
<1>1. rest \in Words
  <2>1. work.iterations.lo \in Words /\ work.keysdone.lo \in Words
    BY CountFacts DEF Packet
  <2>2. work.iterations.lo - work.keysdone.lo \in Int /\ Word \in Nat \ {0}
    BY <2>1, Widths DEF Words
  <2> QED BY <2>2, DivMod DEF Words
<1>2. tslice \in Words
  BY Rc572Assumption, Widths DEF Words
<1>3. cut \in Words
  BY <1>1, <1>2
<1>4. KeysToCheck(tslice) = (IF cut < Minimum THEN Minimum ELSE (cut + up) % Word)
  BY DEF KeysToCheck
<1> HIDE DEF cut
<1>5. CASE cut < Minimum
  BY <1>4, <1>5, Rc572Assumption, Widths
<1>6. CASE ~(cut < Minimum)
  <2>1. cut >= Minimum
    BY <1>3, <1>6, Rc572Assumption, Widths DEF Words
  <2>2. KeysToCheck(tslice) = (cut + up) % Word
    BY <1>4, <1>6
  <2> QED BY <1>3, <2>1, <2>2, RoundedUp
<1> QED
  BY <1>5, <1>6

\* A launch tests whole pipelines, and no more keys than were asked for.
LEMMA Launches ==
  ASSUME run \in Run, run.asked % Pipeline = 0, run.done % Pipeline = 0,
         run.done < run.asked
  PROVE  Launched \in 1 .. run.asked - run.done /\ Launched % Pipeline = 0
<1> DEFINE left == run.asked - run.done
           keys == IF left < MaxPass THEN left ELSE MaxPass
<1>1. /\ Pipeline \in Nat \ {0} /\ MaxPass \in Nat \ {0} /\ MaxPass % Pipeline = 0
      /\ run.asked \in Int /\ run.done \in Int /\ left \in Nat \ {0}
  BY Rc572Assumption, Widths DEF Run, Words
<1>2. left % Pipeline = 0
  BY <1>1, Multiples
<1> HIDE DEF left
<1>3. keys \in 1 .. left /\ keys % Pipeline = 0 /\ keys \in Int
  BY <1>1, <1>2
<1>4. Launched = ((keys + Pipeline - 1) \div Pipeline) * Pipeline
  BY DEF Launched, left
<1> HIDE DEF keys
<1>5. PICK k \in Int : keys = k * Pipeline
  BY <1>1, <1>3, Multiple
<1>6. keys + Pipeline - 1 = k * Pipeline + (Pipeline - 1) /\ Pipeline - 1 \in 0 .. Pipeline - 1
  BY <1>1, <1>5
<1>7. (keys + Pipeline - 1) \div Pipeline = k
  BY <1>1, <1>6, DivUnique
<1> QED
  BY <1>3, <1>4, <1>5, <1>7 DEF left

-----------------------------------------------------------------------------
(* The count of keys done. *)

\* A number of keys as two words, and the sum and the comparison of such counts.
LEMMA CountOf ==
  ASSUME NEW n \in 0 .. Word * (Word - 1)
  PROVE  Count(n) \in CountType /\ Number(Count(n)) = n
<1> DEFINE q == n \div Word
           r == n % Word
<1>1. Word \in Nat \ {0} /\ n \in Int /\ n >= 0 /\ n <= Word * (Word - 1)
  BY Widths
<1>2. q \in Int /\ r \in Words /\ n = q * Word + r
  BY <1>1, DivMod DEF Words
<1> HIDE DEF q, r
<1>3. q \in Words
  <2>1. q >= 0
    BY <1>1, <1>2 DEF Words
  <2>2. q <= Word - 1
    <3>1. SUFFICES ASSUME q >= Word PROVE FALSE
      BY <1>1, <1>2
    <3>2. q * Word >= Word * Word
      BY <1>1, <1>2, <3>1
    <3> QED BY <1>1, <1>2, <3>2 DEF Words
  <2> QED BY <1>1, <1>2, <2>1, <2>2 DEF Words
<1>4. Count(n) = [hi |-> q, lo |-> r]
  BY DEF Count, q, r
<1> QED
  BY <1>2, <1>3, <1>4 DEF CountType, Number

LEMMA Counted ==
  ASSUME work \in Packet, run.out \in Words, N + run.out < Word * Word
  PROVE  KeysDone \in CountType /\ Number(KeysDone) = N + run.out
<1> DEFINE k == work.keysdone
           lo == (k.lo + run.out) % Word
           c == IF lo < run.out THEN 1 ELSE 0
           hi == IF lo < run.out THEN (k.hi + 1) % Word ELSE k.hi
<1>1. k.hi \in Words /\ k.lo \in Words /\ N = k.hi * Word + k.lo
  BY CountFacts DEF Packet, N, Number
<1>2. lo \in Words /\ c \in {0, 1} /\ k.lo + run.out = c * Word + lo
  BY <1>1, Carry
<1>3. KeysDone = [lo |-> lo, hi |-> hi]
  BY DEF KeysDone
<1> HIDE DEF k, lo
<1>4. hi = k.hi + c /\ hi \in Words
  <2>1. CASE c = 0
    BY <1>1, <2>1, Widths DEF Words
  <2>2. CASE c = 1
    <3>1. k.hi + 1 < Word
      <4>1. SUFFICES ASSUME k.hi = Word - 1 PROVE FALSE
        BY <1>1, Widths DEF Words
      <4>2. N + run.out = Word * Word + lo
        BY <1>1, <1>2, <2>2, <4>1, Widths DEF Words
      <4> QED BY <1>2, <4>2, Widths DEF Words
    <3>2. (k.hi + 1) % Word = k.hi + 1
      <4>1. k.hi + 1 \in 0 .. 2 * Word - 1 /\ Word \in Nat \ {0}
        BY <1>1, <3>1, Widths DEF Words
      <4> DEFINE x == k.hi + 1
      <4> HIDE DEF x
      <4>2. x % Word = (IF x < Word THEN x ELSE x - Word)
        BY <4>1, ModOnce DEF x
      <4> QED BY <3>1, <4>2 DEF x
    <3>3. hi = k.hi + 1
      BY <2>2, <3>2
    <3> HIDE DEF hi
    <3> QED BY <1>1, <2>2, <3>1, <3>3, Widths DEF Words
  <2> QED BY <1>2, <2>1, <2>2
<1> HIDE DEF hi, c
<1>5. KeysDone \in CountType
  BY <1>2, <1>3, <1>4 DEF CountType
<1>6. Number(KeysDone) = hi * Word + lo
  BY <1>3 DEF Number
<1> QED
  BY <1>1, <1>2, <1>4, <1>5, <1>6, Widths DEF Words

LEMMA Compared ==
  ASSUME work \in Packet, NEW k \in CountType
  PROVE  PacketDone(k) <=> Number(k) >= Number(work.iterations)
<1> DEFINE w == work.iterations
<1>1. k.hi \in Words /\ k.lo \in Words /\ w.hi \in Words /\ w.lo \in Words
  BY CountFacts DEF Packet
<1>2. PacketDone(k) <=> (k.hi > w.hi \/ (k.hi = w.hi /\ k.lo >= w.lo))
  BY DEF PacketDone
<1> HIDE DEF w
<1>3. CASE k.hi > w.hi
  <2>1. (w.hi + 1) * Word =< k.hi * Word
    BY <1>1, <1>3, Widths DEF Words
  <2>2. Number(k) >= Number(w)
    BY <1>1, <2>1, Widths DEF Words, Number
  <2> QED BY <1>2, <1>3, <2>2 DEF w
<1>4. CASE k.hi = w.hi
  <2>1. Number(k) >= Number(w) <=> k.lo >= w.lo
    BY <1>1, <1>4, Widths DEF Words, Number
  <2>2. ~(k.hi > w.hi)
    BY <1>1, <1>4, Widths DEF Words
  <2> QED BY <1>2, <1>4, <2>1, <2>2 DEF w
<1>5. CASE k.hi < w.hi
  <2>1. (k.hi + 1) * Word =< w.hi * Word
    BY <1>1, <1>5, Widths DEF Words
  <2>2. ~(Number(k) >= Number(w))
    BY <1>1, <2>1, Widths DEF Words, Number
  <2>3. ~(k.hi > w.hi) /\ k.hi # w.hi
    BY <1>1, <1>5, Widths DEF Words
  <2> QED BY <1>2, <2>2, <2>3 DEF w
<1> QED
  BY <1>1, <1>3, <1>4, <1>5, Widths DEF Words

-----------------------------------------------------------------------------
(* The initial state. *)

LEMMA Empties ==
  /\ NoKey \in Key /\ NoCheck \in Check /\ NoUnit \in Unit /\ NoRun \in Run
  /\ Count(0) \in CountType /\ Number(Count(0)) = 0
  /\ NoWork \in Packet /\ NoTruth \in Truth
<1>1. /\ 0 \in Byte /\ 0 \in Words /\ 0 \in 0 .. Space - 1
      /\ 0 \in 0 .. Word * (Word - 1)
  BY Widths DEF Byte, Words
<1>2. NoKey \in Key
  BY <1>1 DEF NoKey, Key, Byte, Words
<1>3. NoCheck \in Check /\ NoUnit \in Unit
  BY <1>2 DEF NoCheck, Check, NoUnit, Unit
<1>4. NoRun \in Run
  BY <1>1, <1>2 DEF NoRun, Run
<1>5. Count(0) \in CountType /\ Number(Count(0)) = 0
  BY <1>1, CountOf
<1>6. NoWork \in Packet
  BY <1>2, <1>3, <1>5 DEF NoWork, Packet
<1>7. NoTruth \in Truth
  BY <1>1 DEF NoTruth, Truth
<1> QED
  BY <1>2, <1>3, <1>4, <1>5, <1>6, <1>7

LEMMA Initially == Init => IInv
<1> SUFFICES ASSUME Init PROVE IInv
  OBVIOUS
<1> USE DEF Init
<1>1. Types
  BY Empties, Rc572Assumption DEF Types
<1>2. Given /\ Cursors /\ Progress /\ Passes /\ Results
  BY DEF Given, Cursors, Searching, Progress, Passes, Results, Running,
         RESULT_WORKING, RESULT_FOUND
<1>3. SearchedExactly /\ ChecksExact
  BY DEF SearchedExactly, ChecksExact
<1> QED
  BY <1>1, <1>2, <1>3 DEF IInv

-----------------------------------------------------------------------------
(* Loading. *)

\* What __InternalLoadState leaves.
LEMMA Loaded ==
  ASSUME NEW w \in Packet, LoadState(w)
  PROVE  /\ work' = w /\ unit' \in Unit /\ refL0' \in Key /\ refL0' = unit'.L0
         /\ Pos(unit'.L0) = (Value(w.key) + Number(w.keysdone)) % Space
         /\ unit'.check = [count |-> w.check.count, key |-> SwitchRC572Format[w.check.key]]
         /\ pc' = "ready" /\ rc' = RESULT_WORKING /\ run' = NoRun
<1>1. /\ w.key \in Key /\ w.keysdone \in CountType
      /\ w.check.count \in Nat /\ w.check.key \in Key
  BY DEF Packet, Check
<1>2. w.check = [count |-> w.check.count, key |-> w.check.key]
  BY DEF Packet, Check
<1>3. /\ work' = w /\ refL0' = unit'.L0 /\ unit'.L0 = FirstL0(w.key, w.keysdone)
      /\ unit' = [L0 |-> unit'.L0, check |-> unit'.check]
      /\ unit'.check = [w.check EXCEPT !.key = SwitchRC572Format[@]]
      /\ pc' = "ready" /\ rc' = RESULT_WORKING /\ run' = NoRun
  BY DEF LoadState
<1>4. unit'.check = [count |-> w.check.count, key |-> SwitchRC572Format[w.check.key]]
  BY <1>2, <1>3
<1>5. unit'.check \in Check
  BY <1>1, <1>4, SwitchFacts DEF Check
<1>6. unit'.L0 \in Key /\ Pos(unit'.L0) = (Value(w.key) + Number(w.keysdone)) % Space
  BY <1>1, <1>3, LoadsFirst
<1>7. unit' \in Unit
  BY <1>3, <1>5, <1>6 DEF Unit
<1> QED
  BY <1>3, <1>4, <1>6, <1>7

\* After a load of a packet with the count of keys done it was saved with.
LEMMA LoadKeeps ==
  ASSUME NEW w \in Packet, LoadState(w), truth' \in Truth, troubles' \in 0 .. MaxTroubles,
         Number(w.iterations) = truth'.size, truth'.solution \subseteq truth'.matches,
         \A a, b \in truth'.solution : a = b, \A m \in truth'.matches : m >= truth'.start,
         Value(w.key) = truth'.start, Number(w.keysdone) <= Word * (Word - 1),
         truth'.searched \cap truth'.solution = {},
         truth'.searched = Keys(truth'.start, 0, Number(w.keysdone)),
         w.check.count = Cardinality(truth'.matches \cap truth'.searched),
         truth'.matches \cap truth'.searched # {}
            => Value(w.check.key) = Max(truth'.matches \cap truth'.searched)
  PROVE  IInv'
<1>1. /\ work' = w /\ unit' \in Unit /\ refL0' \in Key /\ refL0' = unit'.L0
      /\ Pos(unit'.L0) = (Value(w.key) + Number(w.keysdone)) % Space
      /\ unit'.check = [count |-> w.check.count, key |-> SwitchRC572Format[w.check.key]]
      /\ pc' = "ready" /\ rc' = RESULT_WORKING /\ run' = NoRun
  BY Loaded
<1>2. RESULT_WORKING # RESULT_FOUND /\ RESULT_WORKING # RESULT_NOTHING
  BY DEF RESULT_WORKING, RESULT_FOUND, RESULT_NOTHING
<1>3. Types'
  BY <1>1, Empties DEF Types
<1>4. Given'
  BY <1>1, <1>2 DEF Given
<1>5. Cursors'
  BY <1>1 DEF Cursors, At, N
<1>6. Progress'
  BY <1>1, <1>2 DEF Progress, N
<1>7. Passes' /\ Results'
  BY <1>1 DEF Passes, Results, Running
<1>8. SearchedExactly'
  <2>1. Number(w.keysdone) \in Int /\ Number(w.keysdone) + 0 = Number(w.keysdone)
    BY CountFacts DEF Packet
  <2> QED BY <1>1, <1>2, <2>1 DEF SearchedExactly, Keys, At
<1>9. ChecksExact'
  BY <1>1 DEF ChecksExact
<1> QED
  BY <1>3, <1>4, <1>5, <1>6, <1>7, <1>8, <1>9 DEF IInv

LEMMA NoKeys ==
  ASSUME NEW s \in 0 .. Space - 1
  PROVE  Keys(s, 0, 0) = {}
<1>1. 0 .. 0 - 1 = {}
  OBVIOUS
<1> QED
  BY <1>1 DEF Keys

LEMMA LoadFreshKeeps ==
  ASSUME IInv, LoadFresh
  PROVE  IInv'
<1>1. PICK start \in Starts, size \in Sizes,
           matches \in kSubset(2, Marks) \cup kSubset(1, Marks) \cup {{}} :
        \E solution \in {{}} \cup kSubset(1, matches) :
         /\ LoadState([key |-> KeyOf(start), keysdone |-> Count(0),
                       iterations |-> Count(size), check |-> NoCheck])
         /\ truth' = [start |-> start, size |-> size,
                      matches  |-> {start + m : m \in matches},
                      solution |-> {start + m : m \in solution},
                      searched |-> {}]
  BY DEF LoadFresh
<1>2. PICK solution \in {{}} \cup kSubset(1, matches) :
         /\ LoadState([key |-> KeyOf(start), keysdone |-> Count(0),
                       iterations |-> Count(size), check |-> NoCheck])
         /\ truth' = [start |-> start, size |-> size,
                      matches  |-> {start + m : m \in matches},
                      solution |-> {start + m : m \in solution},
                      searched |-> {}]
  BY <1>1
<1> DEFINE w == [key |-> KeyOf(start), keysdone |-> Count(0),
                 iterations |-> Count(size), check |-> NoCheck]
<1>3. /\ start \in 0 .. Space - 1 /\ start \in Nat /\ size \in 0 .. Word * (Word - 1)
      /\ Marks \in SUBSET Nat /\ IsFiniteSet(Marks)
  BY Rc572Assumption, Widths
<1>4. /\ KeyOf(start) \in Key /\ Value(KeyOf(start)) = start
      /\ Count(size) \in CountType /\ Number(Count(size)) = size
  BY <1>3, KeyOfFacts, CountOf
<1>5. w \in Packet
  BY <1>4, Empties DEF Packet
<1>6. matches \in SUBSET Nat /\ IsFiniteSet(matches)
  <2>1. matches \in SUBSET Marks
    BY DEF kSubset
  <2> QED BY <1>3, <2>1, FS_Subset
<1>7. solution \in SUBSET matches /\ \A a, b \in solution : a = b
  <2>1. CASE solution = {}
    BY <2>1
  <2>2. CASE solution \in kSubset(1, matches)
    <3>1. solution \in SUBSET matches /\ Cardinality(solution) = 1
      BY <2>2 DEF kSubset
    <3>2. \E x : solution = {x}
      BY <1>6, <3>1, FS_Subset, FS_Singleton
    <3> QED BY <3>1, <3>2
  <2> QED BY <2>1, <2>2
<1>8. /\ truth'.start = start /\ truth'.size = size /\ truth'.searched = {}
      /\ truth'.matches = {start + m : m \in matches}
      /\ truth'.solution = {start + m : m \in solution}
  BY <1>2
<1>9. \A m \in matches : m \in Nat /\ start + m \in Nat /\ start + m >= start
  BY <1>3, <1>6
<1>10. truth' \in Truth
  BY <1>2, <1>3, <1>7, <1>9 DEF Truth
<1>11. /\ truth'.solution \subseteq truth'.matches
       /\ \A a, b \in truth'.solution : a = b
       /\ \A m \in truth'.matches : m >= truth'.start
  <2>1. ASSUME NEW a \in truth'.solution, NEW b \in truth'.solution PROVE a = b
    BY <1>7, <1>8
  <2>2. truth'.solution \subseteq truth'.matches
    BY <1>7, <1>8
  <2>3. \A m \in truth'.matches : m >= truth'.start
    BY <1>8, <1>9
  <2> QED BY <2>1, <2>2, <2>3
<1>12. /\ w.key = KeyOf(start) /\ w.keysdone = Count(0) /\ w.iterations = Count(size)
       /\ w.check = NoCheck /\ NoCheck.count = 0
  BY DEF NoCheck
<1>13. LoadState(w) /\ troubles' \in 0 .. MaxTroubles
  BY <1>2, Rc572Assumption DEF LoadFresh
<1> HIDE DEF w
<1>14. truth'.searched = Keys(truth'.start, 0, Number(w.keysdone))
  BY <1>3, <1>8, <1>12, Empties, NoKeys
<1>15. /\ w.check.count = Cardinality(truth'.matches \cap truth'.searched)
       /\ truth'.matches \cap truth'.searched = {}
       /\ truth'.searched \cap truth'.solution = {}
  <2>1. truth'.matches \cap truth'.searched = {} /\ truth'.searched \cap truth'.solution = {}
    BY <1>8
  <2> QED BY <1>12, <2>1, FS_EmptySet
<1>16. /\ Number(w.iterations) = truth'.size /\ Value(w.key) = truth'.start
       /\ Number(w.keysdone) <= Word * (Word - 1)
  BY <1>3, <1>4, <1>8, <1>12, Empties, Widths
<1> QED
  BY <1>5, <1>10, <1>11, <1>13, <1>14, <1>15, <1>16, LoadKeeps

LEMMA ReloadKeeps ==
  ASSUME IInv, Reload
  PROVE  IInv'
<1>1. /\ pc = "ready" /\ rc = RESULT_WORKING /\ LoadState(work)
      /\ troubles' = troubles /\ truth' = truth
  BY DEF Reload
<1>2. RESULT_WORKING # RESULT_FOUND
  BY DEF RESULT_WORKING, RESULT_FOUND
<1>3. work \in Packet /\ truth' \in Truth /\ troubles' \in 0 .. MaxTroubles
  BY <1>1 DEF IInv, Types
<1>4. /\ Number(work.iterations) = truth'.size /\ truth'.solution \subseteq truth'.matches
      /\ \A a, b \in truth'.solution : a = b
      /\ \A m \in truth'.matches : m >= truth'.start
      /\ Value(work.key) = truth'.start
  BY <1>1, <1>2 DEF IInv, Given
<1>5. N <= Word * (Word - 1) /\ truth'.searched \cap truth'.solution = {}
  BY <1>1, <1>2 DEF IInv, Progress
<1>6. truth'.searched = Keys(truth'.start, 0, N)
  <2>1. N \in Int
    BY <1>3, CountFacts DEF Packet, N
  <2>2. N + 0 = N
    BY <2>1
  <2> QED BY <1>1, <1>2, <2>2 DEF IInv, SearchedExactly, Keys, At, N
<1>7. /\ work.check.count = Cardinality(truth'.matches \cap truth'.searched)
      /\ truth'.matches \cap truth'.searched # {}
            => Value(work.check.key) = Max(truth'.matches \cap truth'.searched)
  BY <1>1 DEF IInv, ChecksExact
<1> QED
  BY <1>1, <1>3, <1>4, <1>5, <1>6, <1>7, LoadKeeps DEF N

LEMMA ReloadResetKeeps ==
  ASSUME IInv, ReloadReset
  PROVE  IInv'
<1> DEFINE w == [work EXCEPT !.keysdone = Count(0), !.check = NoCheck]
<1>1. /\ pc = "ready" /\ rc = RESULT_WORKING /\ LoadState(w)
      /\ truth' = [truth EXCEPT !.searched = {}]
      /\ troubles < MaxTroubles /\ troubles' = troubles + 1
  BY DEF ReloadReset
<1>2. RESULT_WORKING # RESULT_FOUND
  BY DEF RESULT_WORKING, RESULT_FOUND
<1>3. work \in Packet /\ truth \in Truth /\ troubles \in 0 .. MaxTroubles
  BY DEF IInv, Types
<1>4. /\ w \in Packet /\ w.key = work.key /\ w.iterations = work.iterations
      /\ w.keysdone = Count(0) /\ w.check = NoCheck /\ NoCheck.count = 0
  BY <1>3, Empties DEF Packet, NoCheck
<1>5. /\ truth' \in Truth /\ truth'.start = truth.start /\ truth'.size = truth.size
      /\ truth'.matches = truth.matches /\ truth'.solution = truth.solution
      /\ truth'.searched = {} /\ truth'.start \in 0 .. Space - 1
  BY <1>1, <1>3 DEF Truth
<1>6. troubles' \in 0 .. MaxTroubles
  BY <1>1, <1>3, Rc572Assumption
<1> HIDE DEF w
<1>7. /\ Number(w.iterations) = truth'.size /\ truth'.solution \subseteq truth'.matches
      /\ \A a, b \in truth'.solution : a = b
      /\ \A m \in truth'.matches : m >= truth'.start
      /\ Value(w.key) = truth'.start
  BY <1>1, <1>2, <1>4, <1>5 DEF IInv, Given
<1>8. truth'.searched = Keys(truth'.start, 0, Number(w.keysdone))
  BY <1>4, <1>5, Empties, NoKeys
<1>9. Number(w.keysdone) <= Word * (Word - 1)
  BY <1>4, Empties, Widths
<1>10. /\ w.check.count = Cardinality(truth'.matches \cap truth'.searched)
       /\ truth'.matches \cap truth'.searched = {}
       /\ truth'.searched \cap truth'.solution = {}
  <2>1. truth'.matches \cap truth'.searched = {} /\ truth'.searched \cap truth'.solution = {}
    BY <1>5
  <2> QED BY <1>4, <2>1, FS_EmptySet
<1> QED
  BY <1>1, <1>4, <1>5, <1>6, <1>7, <1>8, <1>9, <1>10, LoadKeeps

LEMMA UnloadKeeps ==
  ASSUME IInv, Unload
  PROVE  IInv'
<1> USE DEF Unload
<1>1. Types'
  BY Empties, Rc572Assumption DEF Types
<1>2. Given' /\ Cursors' /\ Progress' /\ Passes' /\ Results'
  BY DEF Given, Cursors, Searching, Progress, Passes, Results, Running
<1>3. SearchedExactly' /\ ChecksExact'
  BY DEF SearchedExactly, ChecksExact
<1> QED
  BY <1>1, <1>2, <1>3 DEF IInv

-----------------------------------------------------------------------------
(* A run. *)

\* A packet never ends so close to the highest count that a slice could wrap it.
LEMMA Room ==
  ASSUME IInv, Running
  PROVE  /\ N \in Nat /\ run.asked \in Words /\ run.done \in Nat /\ run.out \in Nat
         /\ run.asked \in Nat /\ truth.start \in 0 .. Space - 1
         /\ N + run.asked < Word * Word /\ N + run.asked <= Space
         /\ rc = RESULT_WORKING /\ rc # RESULT_FOUND /\ rc # RESULT_NOTHING
         /\ pc # "empty" /\ Searching
<1>1. rc = RESULT_WORKING /\ pc # "empty" /\ work \in Packet /\ run \in Run /\ truth \in Truth
  BY DEF IInv, Types, Running
<1>2. /\ run.asked \in Words /\ run.done \in Nat /\ run.out \in Nat
      /\ truth.start \in 0 .. Space - 1
  BY <1>1 DEF Run, Truth
<1>3. N \in Nat /\ N <= Word * (Word - 1)
  <2>1. N \in 0 .. Word * Word - 1
    BY <1>1, CountFacts DEF Packet, N
  <2>2. N <= Word * (Word - 1)
    BY <1>1 DEF IInv, Progress
  <2> QED BY <2>1, <2>2, Widths
<1>4. Word * (Word - 1) + (Word - 1) < Word * Word
  BY Widths
<1>5. N + run.asked < Word * Word /\ run.asked \in Nat
  BY <1>2, <1>3, <1>4, Widths DEF Words
<1> QED
  BY <1>1, <1>2, <1>3, <1>5, Widths
     DEF Searching, RESULT_WORKING, RESULT_FOUND, RESULT_NOTHING

\* What a step leaves alone that only goes on with a run.
LEMMA SamePacket ==
  ASSUME IInv, Running, pc' # "empty", UNCHANGED <<work, unit, refL0, rc, truth>>
  PROVE  Given' /\ Cursors' /\ Progress' /\ SearchedExactly' /\ ChecksExact'
<1>1. pc # "empty" /\ rc = RESULT_WORKING
  BY Room
<1>2. N' = N /\ work' = work /\ unit' = unit /\ refL0' = refL0 /\ rc' = rc /\ truth' = truth
  BY DEF N
<1>3. Given' /\ Progress'
  BY <1>1, <1>2 DEF IInv, Given, Progress
<1>4. Cursors'
  BY <1>1, <1>2 DEF IInv, Cursors, Searching
<1>5. SearchedExactly' /\ ChecksExact'
  BY <1>1, <1>2 DEF IInv, SearchedExactly, ChecksExact
<1> QED
  BY <1>3, <1>4, <1>5

LEMMA RunFailsKeeps ==
  ASSUME IInv, RunFails
  PROVE  IInv'
<1>1. /\ Running /\ pc' = "ready" /\ run' = NoRun
      /\ UNCHANGED <<work, unit, refL0, rc, truth>>
  BY DEF RunFails, Running
<1>2. Given' /\ Cursors' /\ Progress' /\ SearchedExactly' /\ ChecksExact'
  BY <1>1, SamePacket
<1>3. troubles' \in 0 .. MaxTroubles
  <2>1. troubles \in 0 .. MaxTroubles /\ MaxTroubles \in Nat
    BY Rc572Assumption DEF IInv, Types
  <2> QED BY <2>1 DEF RunFails
<1>4. Types'
  BY <1>1, <1>3, Empties DEF IInv, Types
<1>5. Passes' /\ Results'
  BY <1>1 DEF Passes, Results, Running
<1> QED
  BY <1>2, <1>4, <1>5 DEF IInv

LEMMA BeginRunKeeps ==
  ASSUME IInv, BeginRun
  PROVE  IInv'
<1>1. PICK tslice \in Slices :
        run' = [NoRun EXCEPT !.asked = KeysToCheck(tslice), !.base = unit.L0]
  BY DEF BeginRun
<1>2. /\ pc = "ready" /\ rc = RESULT_WORKING /\ pc' = "pass"
      /\ UNCHANGED <<work, unit, refL0, rc, troubles, truth>>
  BY DEF BeginRun
<1>3. work \in Packet /\ unit \in Unit /\ truth \in Truth
  BY DEF IInv, Types
<1>4. KeysToCheck(tslice) \in 1 .. Word - 1 /\ KeysToCheck(tslice) % Pipeline = 0
  BY <1>3, SliceOf
<1>5. /\ run' \in Run /\ run'.asked = KeysToCheck(tslice) /\ run'.base = unit.L0
      /\ run'.done = 0 /\ run'.ret = RESULT_NOTHING /\ run'.out = 0
      /\ run'.nCheck = 0 /\ run'.tested = {}
  <2>1. KeysToCheck(tslice) \in Words /\ unit.L0 \in Key
    BY <1>3, <1>4, Widths DEF Words, Unit
  <2>2. /\ NoRun.done = 0 /\ NoRun.ret = RESULT_NOTHING /\ NoRun.out = 0
        /\ NoRun.nCheck = 0 /\ NoRun.tested = {}
    BY DEF NoRun
  <2> QED BY <1>1, <2>1, <2>2, Empties DEF Run
<1>6. N' = N /\ truth' = truth /\ N \in Nat /\ truth.start \in 0 .. Space - 1
  <2>1. N \in 0 .. Word * Word - 1
    BY <1>3, CountFacts DEF Packet, N
  <2> QED BY <1>2, <1>3, <2>1, Widths DEF N, Truth
<1>7. Tested' = 0 /\ RESULT_NOTHING # RESULT_FOUND
  BY <1>5 DEF Tested, RESULT_NOTHING, RESULT_FOUND
<1>8. Types'
  BY <1>2, <1>5 DEF IInv, Types
<1>9. Given' /\ Progress'
  BY <1>2, <1>6 DEF IInv, Given, Progress
<1>10. Cursors'
  BY <1>2, <1>6 DEF IInv, Cursors, Searching
<1>11. Passes'
  <2>1. Pos(run'.base) = At(truth'.start, N' + run'.done)
    BY <1>2, <1>5, <1>6 DEF IInv, Cursors, Searching
  <2>2. 0 % Pipeline = 0
    BY Rc572Assumption
  <2>3. run'.asked >= 1 /\ run'.asked % Pipeline = 0 /\ run'.done % Pipeline = 0
        /\ run'.done <= run'.asked /\ Tested' <= run'.asked /\ pc' # "tail"
    BY <1>2, <1>4, <1>5, <1>7, <2>2, Widths
  <2> QED BY <2>1, <2>3 DEF Passes
<1>12. Results'
  <2>1. Keys(truth.start, N, N + 0) = {}
    <3>1. N + 0 = N /\ N <= N /\ N <= Space
      <4>1. N \in 0 .. Word * Word - 1
        BY <1>3, CountFacts DEF Packet, N
      <4> QED BY <4>1, Widths
    <3>2. Keys(truth.start, N, N) = {}
      BY <1>6, <3>1, KeysJoin
    <3> QED BY <3>1, <3>2
  <2>2. truth'.matches \cap run'.tested = {} /\ run'.tested \cap truth'.solution = {}
    BY <1>5
  <2>3. run'.tested = Keys(truth'.start, N', N' + Tested')
    BY <1>5, <1>6, <1>7, <2>1
  <2> QED BY <1>5, <1>7, <2>2, <2>3, FS_EmptySet DEF Results
<1>13. SearchedExactly' /\ ChecksExact'
  BY <1>2 DEF IInv, SearchedExactly, ChecksExact
<1> QED
  BY <1>8, <1>9, <1>10, <1>11, <1>12, <1>13 DEF IInv

\* The scan of n results of a pass.
LEMMA ScanOf ==
  ASSUME IInv, pc = "pass", run.ret = RESULT_NOTHING, NEW n \in 1 .. run.asked - run.done
  PROVE  LET s == truth.start
             a == N + run.done
             H == truth.matches \cap Keys(s, N, a + n)
             S == Scanned(n)
         IN /\ \A o \in 0 .. n - 1 : KeyAt(o) \in Key /\ Pos(KeyAt(o)) = At(s, a + o)
            /\ \A K : Hits(K, n) = {o \in 0 .. n - 1 : At(s, a + o) \in K}
            /\ S \in Run /\ S.asked = run.asked /\ S.base = run.base /\ S.done = run.done
            /\ S.ret = run.ret
            /\ S.tested = Keys(s, N, a + n)
            /\ S.tested = run.tested \cup {At(s, a + o) : o \in 0 .. n - 1}
            /\ S.nCheck = Cardinality(H)
            /\ H # {} => Pos(S.check) = Max(H)
<1> DEFINE s == truth.start
           a == N + run.done
           M == truth.matches
           H1 == M \cap Keys(s, N, a)
           H2 == M \cap Keys(s, a, a + n)
           H == M \cap Keys(s, N, a + n)
           P == {o \in 0 .. n - 1 : At(s, a + o) \in M}
           S == Scanned(n)
<1>1. /\ N \in Nat /\ run.asked \in Words /\ run.done \in Nat /\ run.asked \in Nat
      /\ s \in 0 .. Space - 1 /\ N + run.asked <= Space /\ Running /\ pc # "empty"
      /\ Space \in Nat
  BY Room, Widths DEF Running
<1>2. /\ n \in Nat /\ n <= run.asked - run.done /\ a \in Nat /\ a + n <= Space
      /\ N <= a /\ a <= a + n /\ a + n \in Nat
  BY <1>1
<1>3. \A o \in 0 .. n - 1 : o \in Words
  BY <1>1, <1>2, Widths DEF Words
<1>4. run \in Run /\ run.base \in Key /\ Pos(run.base) = At(s, a)
  BY <1>1 DEF IInv, Types, Run, Passes
<1>5. M \in SUBSET Nat /\ \A m \in M : m >= s
  BY <1>1 DEF IInv, Types, Truth, Given
<1>6. run.tested = Keys(s, N, a) /\ run.nCheck = Cardinality(H1)
      /\ (H1 # {} => Pos(run.check) = Max(H1))
  <2>1. Tested = run.done
    BY DEF Tested, RESULT_NOTHING, RESULT_FOUND
  <2>2. a = N + Tested
    BY <2>1
  <2> QED BY <1>1, <2>2 DEF IInv, Results
<1> HIDE DEF a, s, M
<1>7. ASSUME NEW o \in 0 .. n - 1
      PROVE  /\ KeyAt(o) \in Key /\ Pos(KeyAt(o)) = At(s, a + o)
             /\ Plain(o) = At(s, a + o)
  <2>1. HyIncrementL0(run.base, o) \in Key
        /\ Pos(HyIncrementL0(run.base, o)) = (Pos(run.base) + o) % Space
    BY <1>3, <1>4, HyIncrements
  <2>2. (At(s, a) + o) % Space = At(s, a + o)
    <3>1. o \in Nat
      OBVIOUS
    <3> QED BY <1>1, <1>2, <3>1, AtFacts
  <2> QED BY <1>4, <2>1, <2>2 DEF KeyAt, Plain, Pos
<1>8. \A K : Hits(K, n) = {o \in 0 .. n - 1 : At(s, a + o) \in K}
  BY <1>7 DEF Hits
<1>9. {Plain(o) : o \in 0 .. n - 1} = {At(s, a + o) : o \in 0 .. n - 1}
  BY <1>7
<1>10. Hits(M, n) = P
  BY <1>8
<1>11. /\ Keys(s, a, a + n) = {At(s, a + o) : o \in 0 .. n - 1}
       /\ Cardinality(P) = Cardinality(H2) /\ (P = {} <=> H2 = {})
       /\ (P # {} => Max(P) \in P /\ At(s, a + Max(P)) = Max(H2))
  BY <1>1, <1>2, <1>5, OffsetsHit
<1>12. /\ H = H1 \cup H2 /\ Cardinality(H1) \in Nat /\ Cardinality(H2) \in Nat
       /\ Cardinality(H) = Cardinality(H1) + Cardinality(H2)
       /\ (H2 # {} => Max(H) = Max(H2))
  <2> DEFINE c == a + n
  <2>1. /\ s \in 0 .. Space - 1 /\ N \in Nat /\ a \in Nat /\ c \in Nat
        /\ N <= a /\ a <= c /\ c <= Space /\ M \in SUBSET Nat /\ \A m \in M : m >= s
    BY <1>1, <1>2, <1>5
  <2> HIDE DEF c
  <2>2. LET K1 == M \cap Keys(s, N, a)
            K2 == M \cap Keys(s, a, c)
            K  == M \cap Keys(s, N, c)
        IN /\ K = K1 \cup K2
           /\ Cardinality(K1) \in Nat /\ Cardinality(K2) \in Nat
           /\ Cardinality(K2) = 0 <=> K2 = {}
           /\ Cardinality(K) = Cardinality(K1) + Cardinality(K2)
           /\ K2 # {} => Max(K) = Max(K2)
    BY <2>1, HitsJoin
  <2> QED BY <2>2, Zenon DEF c
<1>13. Keys(s, N, a + n) = Keys(s, N, a) \cup Keys(s, a, a + n)
  BY <1>1, <1>2, KeysJoin
<1>14. S = [run EXCEPT !.nCheck = @ + Cardinality(P),
                       !.check  = IF P = {} THEN @ ELSE KeyAt(Max(P)),
                       !.tested = @ \cup {At(s, a + o) : o \in 0 .. n - 1}]
  <2> HIDE DEF P
  <2> QED BY <1>9, <1>10, Zenon DEF Scanned, M
<1> DEFINE check == IF P = {} THEN run.check ELSE KeyAt(Max(P))
           tested == run.tested \cup {At(s, a + o) : o \in 0 .. n - 1}
<1>15. check \in Key
  <2>1. CASE P = {}
    BY <1>4, <2>1 DEF Run
  <2>2. CASE P # {}
    <3>1. Max(P) \in 0 .. n - 1
      BY <1>11, <2>2
    <3> HIDE DEF P
    <3> QED BY <1>7, <2>2, <3>1
  <2> QED BY <2>1, <2>2
<1>16. H # {} => Pos(check) = Max(H)
  <2>1. CASE P = {}
    <3>1. H = H1 /\ check = run.check
      BY <1>11, <1>12, <2>1
    <3> QED BY <1>6, <3>1
  <2>2. CASE P # {}
    <3>1. Max(P) \in 0 .. n - 1 /\ check = KeyAt(Max(P)) /\ H2 # {}
      BY <1>11, <2>2
    <3>2. Pos(check) = At(s, a + Max(P))
      BY <1>7, <3>1
    <3> QED BY <1>11, <1>12, <2>2, <3>1, <3>2
  <2> QED BY <2>1, <2>2
<1>17. tested = Keys(s, N, a + n) /\ tested \in SUBSET Int
  <2>1. tested = Keys(s, N, a + n)
    BY <1>6, <1>11, <1>13
  <2>2. Keys(s, N, a + n) \in SUBSET (0 .. Space - 1)
    BY <1>1, <1>2, KeysType
  <2>3. \A i \in 0 .. Space - 1 : i \in Int
    BY Widths
  <2> QED BY <2>1, <2>2, <2>3
<1>18. run.nCheck + Cardinality(P) = Cardinality(H) /\ Cardinality(H) \in Nat
  BY <1>6, <1>11, <1>12
<1> HIDE DEF H, H1, H2, P
<1>19. S = [run EXCEPT !.nCheck = Cardinality(H), !.check = check, !.tested = tested]
  BY <1>14, <1>18
<1> HIDE DEF check, tested, S
<1>20. /\ S \in Run /\ S.asked = run.asked /\ S.base = run.base /\ S.done = run.done
       /\ S.ret = run.ret /\ S.tested = tested /\ S.nCheck = Cardinality(H) /\ S.check = check
  BY <1>4, <1>15, <1>17, <1>18, <1>19 DEF Run
<1>21. \A o \in 0 .. n - 1 : KeyAt(o) \in Key /\ Pos(KeyAt(o)) = At(s, a + o)
  BY <1>7
<1> QED
  BY <1>8, <1>16, <1>17, <1>20, <1>21 DEF s, a, M, H, S, tested

\* A pass without a find, and one with.
LEMMA PassNothingKeeps ==
  ASSUME IInv, PassNothing
  PROVE  IInv'
<1> DEFINE n == Launched
           s == truth.start
           a == N + run.done
           S == Scanned(n)
<1>1. /\ pc = "pass" /\ run.ret = RESULT_NOTHING /\ run.done < run.asked
      /\ Hits(truth.solution, n) = {}
      /\ run' = [S EXCEPT !.base = HyIncrementL0(@, n), !.done = @ + n]
      /\ UNCHANGED <<pc, work, unit, refL0, rc, troubles, truth>>
  BY DEF PassNothing
<1>2. Running /\ run \in Run
  BY <1>1 DEF IInv, Types, Running
<1>3. /\ N \in Nat /\ run.asked \in Words /\ run.done \in Nat /\ run.asked \in Nat
      /\ s \in 0 .. Space - 1 /\ N + run.asked <= Space
  BY <1>2, Room
<1>4. /\ run.asked >= 1 /\ run.asked % Pipeline = 0 /\ run.done % Pipeline = 0
      /\ Pos(run.base) = At(s, a)
  BY <1>2 DEF IInv, Passes
<1>5. n \in 1 .. run.asked - run.done /\ n % Pipeline = 0
  BY <1>1, <1>2, <1>4, Launches
<1> HIDE DEF n
<1>6. /\ \A K : Hits(K, n) = {o \in 0 .. n - 1 : At(s, a + o) \in K}
      /\ S \in Run /\ S.asked = run.asked /\ S.base = run.base /\ S.done = run.done
      /\ S.ret = run.ret /\ S.tested = Keys(s, N, a + n)
      /\ S.tested = run.tested \cup {At(s, a + o) : o \in 0 .. n - 1}
      /\ S.nCheck = Cardinality(truth.matches \cap Keys(s, N, a + n))
      /\ (truth.matches \cap Keys(s, N, a + n) # {}
            => Pos(S.check) = Max(truth.matches \cap Keys(s, N, a + n)))
  BY <1>1, <1>5, ScanOf
<1> HIDE DEF S
<1>7. HyIncrementL0(run.base, n) \in Key
      /\ Pos(HyIncrementL0(run.base, n)) = (Pos(run.base) + n) % Space
  <2>1. n \in Words /\ run.base \in Key
    BY <1>2, <1>3, <1>5, Widths DEF Words, Run
  <2> QED BY <2>1, HyIncrements
<1>8. /\ run' \in Run /\ run'.asked = run.asked /\ run'.ret = run.ret
      /\ run'.done = run.done + n /\ run'.base = HyIncrementL0(run.base, n)
      /\ run'.tested = S.tested /\ run'.nCheck = S.nCheck /\ run'.check = S.check
  <2>1. run.done + n \in Nat
    BY <1>3, <1>5
  <2> QED BY <1>1, <1>6, <1>7, <2>1 DEF Run
<1>9. Tested = run.done /\ Tested' = run.done + n /\ RESULT_NOTHING # RESULT_FOUND
  BY <1>1, <1>8 DEF Tested, RESULT_NOTHING, RESULT_FOUND
<1>10. /\ N + (run.done + n) = a + n /\ run.done + n <= run.asked
       /\ a \in Nat /\ n \in Nat
  BY <1>3, <1>5
<1>11. N' = N /\ truth' = truth /\ pc' = "pass" /\ rc' = rc
  BY <1>1 DEF N
<1>12. Types'
  BY <1>1, <1>8 DEF IInv, Types
<1>13. Given' /\ Cursors' /\ Progress' /\ SearchedExactly' /\ ChecksExact'
  BY <1>1, <1>2, SamePacket
<1>14. Passes'
  <2>1. Pos(run'.base) = At(s, N + (run.done + n))
    <3>1. (At(s, a) + n) % Space = At(s, a + n)
      <4> HIDE DEF a, s
      <4> QED BY <1>3, <1>10, AtFacts
    <3> QED BY <1>4, <1>7, <1>8, <1>10, <3>1
  <2>2. (run.done + n) % Pipeline = 0
    <3>1. Pipeline \in Nat \ {0} /\ run.done \in Int /\ n \in Int
      BY <1>3, <1>10, Rc572Assumption
    <3> QED BY <1>4, <1>5, <3>1, Multiples
  <2> HIDE DEF a
  <2>3. /\ run'.asked >= 1 /\ run'.asked % Pipeline = 0 /\ run'.done % Pipeline = 0
        /\ run'.done <= run'.asked /\ Tested' <= run'.asked /\ pc' # "tail"
    BY <1>4, <1>8, <1>9, <1>10, <1>11, <2>2
  <2>4. Pos(run'.base) = At(truth'.start, N' + run'.done)
    BY <1>8, <1>11, <2>1
  <2> QED BY <2>3, <2>4 DEF Passes
<1>15. Results'
  <2>1. run'.tested = Keys(truth'.start, N', N' + Tested')
    BY <1>6, <1>8, <1>9, <1>10, <1>11
  <2>2. run'.nCheck = Cardinality(truth'.matches \cap run'.tested)
        /\ (truth'.matches \cap run'.tested # {}
              => Pos(run'.check) = Max(truth'.matches \cap run'.tested))
    BY <1>6, <1>8, <1>11
  <2>3. run'.tested \cap truth'.solution = {}
    <3>1. run.tested \cap truth.solution = {}
      BY <1>1, <1>2 DEF IInv, Results
    <3>2. \A o \in 0 .. n - 1 : At(s, a + o) \notin truth.solution
      <4>1. {o \in 0 .. n - 1 : At(s, a + o) \in truth.solution} = {}
        BY <1>1, <1>6
      <4> QED BY <4>1
    <3> QED BY <1>6, <1>8, <1>11, <3>1, <3>2
  <2>4. run'.ret # RESULT_FOUND
    BY <1>1, <1>8, <1>9
  <2> QED BY <2>1, <2>2, <2>3, <2>4 DEF Results
<1> QED
  BY <1>12, <1>13, <1>14, <1>15 DEF IInv

LEMMA PassFoundKeeps ==
  ASSUME IInv, PassFound
  PROVE  IInv'
<1> DEFINE s == truth.start
           a == N + run.done
<1>1. /\ pc = "pass" /\ run.ret = RESULT_NOTHING /\ run.done < run.asked
      /\ UNCHANGED <<pc, work, unit, refL0, rc, troubles, truth>>
  BY DEF PassFound
<1>2. PICK o \in Hits(truth.solution, Launched) :
        run' = [Scanned(o + 1) EXCEPT !.ret = RESULT_FOUND,
                 !.found = KeyAt(o), !.out = run.done + o]
  BY DEF PassFound
<1> DEFINE n == o + 1
           S == Scanned(n)
<1>3. Running /\ run \in Run
  BY <1>1 DEF IInv, Types, Running
<1>4. /\ N \in Nat /\ run.asked \in Words /\ run.done \in Nat /\ run.asked \in Nat
      /\ s \in 0 .. Space - 1 /\ N + run.asked <= Space
  BY <1>3, Room
<1>5. /\ run.asked >= 1 /\ run.asked % Pipeline = 0 /\ run.done % Pipeline = 0
      /\ Pos(run.base) = At(s, a)
  BY <1>3 DEF IInv, Passes
<1>6. Launched \in 1 .. run.asked - run.done
  BY <1>1, <1>3, <1>5, Launches
<1>7. /\ o \in 0 .. Launched - 1 /\ At(s, a + o) \in truth.solution
  <2>1. Hits(truth.solution, Launched)
          = {i \in 0 .. Launched - 1 : At(s, a + i) \in truth.solution}
    BY <1>1, <1>6, ScanOf
  <2> HIDE DEF s, a
  <2> QED BY <2>1
<1>8. o \in Nat /\ n \in 1 .. run.asked - run.done /\ o \in 0 .. n - 1 /\ run.done + o \in Nat
  BY <1>4, <1>6, <1>7
<1> HIDE DEF n
<1>9. /\ KeyAt(o) \in Key /\ Pos(KeyAt(o)) = At(s, a + o)
      /\ S \in Run /\ S.asked = run.asked /\ S.base = run.base /\ S.done = run.done
      /\ S.tested = Keys(s, N, a + n)
      /\ S.nCheck = Cardinality(truth.matches \cap Keys(s, N, a + n))
      /\ (truth.matches \cap Keys(s, N, a + n) # {}
            => Pos(S.check) = Max(truth.matches \cap Keys(s, N, a + n)))
  BY <1>1, <1>8, ScanOf
<1>10. run' = [S EXCEPT !.ret = RESULT_FOUND, !.found = KeyAt(o), !.out = run.done + o]
  BY <1>2 DEF n
<1> HIDE DEF S
<1>11. /\ run' \in Run /\ run'.asked = run.asked /\ run'.ret = RESULT_FOUND
       /\ run'.done = run.done /\ run'.base = run.base /\ run'.out = run.done + o
       /\ run'.found = KeyAt(o)
       /\ run'.tested = S.tested /\ run'.nCheck = S.nCheck /\ run'.check = S.check
  BY <1>8, <1>9, <1>10 DEF Run
<1>12. Tested' = run.done + o + 1 /\ RESULT_NOTHING # RESULT_FOUND
  BY <1>11 DEF Tested, RESULT_NOTHING, RESULT_FOUND
<1>13. /\ N + (run.done + o + 1) = a + n /\ run.done + o + 1 <= run.asked
       /\ N + (run.done + o) = a + o
  BY <1>4, <1>8 DEF n
<1>14. N' = N /\ truth' = truth /\ pc' = "pass" /\ rc' = rc
  BY <1>1 DEF N
<1>15. Types'
  BY <1>1, <1>11 DEF IInv, Types
<1>16. Given' /\ Cursors' /\ Progress' /\ SearchedExactly' /\ ChecksExact'
  BY <1>1, <1>3, SamePacket
<1>17. Passes'
  <2>1. Pos(run'.base) = At(truth'.start, N' + run'.done)
    BY <1>5, <1>11, <1>14
  <2>2. /\ run'.asked >= 1 /\ run'.asked % Pipeline = 0 /\ run'.done % Pipeline = 0
        /\ run'.done <= run'.asked /\ Tested' <= run'.asked /\ pc' # "tail"
    BY <1>1, <1>4, <1>5, <1>11, <1>12, <1>13, <1>14
  <2> QED BY <2>1, <2>2 DEF Passes
<1>18. Results'
  <2>1. run'.tested = Keys(truth'.start, N', N' + Tested')
    BY <1>9, <1>11, <1>12, <1>13, <1>14
  <2>2. run'.nCheck = Cardinality(truth'.matches \cap run'.tested)
        /\ (truth'.matches \cap run'.tested # {}
              => Pos(run'.check) = Max(truth'.matches \cap run'.tested))
    BY <1>9, <1>11, <1>14
  <2>3. Pos(run'.found) = At(truth'.start, N' + run'.out) /\ Pos(run'.found) \in truth'.solution
    BY <1>7, <1>9, <1>11, <1>13, <1>14
  <2>4. run'.ret # RESULT_NOTHING
    BY <1>11, <1>12
  <2> QED BY <2>1, <2>2, <2>3, <2>4 DEF Results
<1> QED
  BY <1>15, <1>16, <1>17, <1>18 DEF IInv

LEMMA PassesDoneKeeps ==
  ASSUME IInv, PassesDone
  PROVE  IInv'
<1>1. /\ pc = "pass" /\ pc' = "tail" /\ (run.ret = RESULT_FOUND \/ run.done >= run.asked)
      /\ run' = [run EXCEPT !.out = (IF run.ret = RESULT_FOUND THEN @ ELSE run.done) % Word]
      /\ UNCHANGED <<work, unit, refL0, rc, troubles, truth>>
  BY DEF PassesDone
<1>2. Running /\ Running' /\ run \in Run /\ RESULT_NOTHING # RESULT_FOUND
      /\ run.ret \in {RESULT_NOTHING, RESULT_FOUND}
  BY <1>1 DEF IInv, Types, Running, RESULT_NOTHING, RESULT_FOUND, Run
<1>3. /\ run.asked \in Words /\ run.done \in Nat /\ run.out \in Nat /\ run.asked \in Nat
  BY <1>2, Room
<1>4. /\ run.done <= run.asked /\ Tested <= run.asked
  BY <1>2 DEF IInv, Passes
<1> DEFINE out == IF run.ret = RESULT_FOUND THEN run.out ELSE run.done
<1>5. out \in Words /\ out \in Nat
  BY <1>2, <1>3, <1>4, Widths DEF Tested, Words
<1>6. out % Word = out
  <2> HIDE DEF out
  <2>1. out = 0 * Word + out /\ Word \in Nat \ {0}
    BY <1>5, Widths
  <2> QED BY <1>5, <2>1, DivUnique DEF Words
<1>7. run' = [run EXCEPT !.out = out]
  <2> HIDE DEF out
  <2>1. run' = [run EXCEPT !.out = out % Word]
    BY <1>1 DEF out
  <2> QED BY <1>6, <2>1
<1>8. /\ run' \in Run /\ run'.asked = run.asked /\ run'.ret = run.ret
      /\ run'.done = run.done /\ run'.base = run.base /\ run'.out = out
      /\ run'.found = run.found
      /\ run'.tested = run.tested /\ run'.nCheck = run.nCheck /\ run'.check = run.check
  <2> HIDE DEF out
  <2> QED BY <1>2, <1>5, <1>7 DEF Run
<1>9. Tested' = Tested /\ (run.ret = RESULT_FOUND => out = run.out)
      /\ (run.ret = RESULT_NOTHING => out = run.done /\ run.done = run.asked)
  BY <1>1, <1>2, <1>3, <1>4, <1>8 DEF Tested
<1> HIDE DEF out
<1>10. N' = N /\ truth' = truth
  BY <1>1 DEF N
<1>11. Types'
  BY <1>1, <1>8 DEF IInv, Types
<1>12. Given' /\ Cursors' /\ Progress' /\ SearchedExactly' /\ ChecksExact'
  BY <1>1, <1>2, SamePacket
<1>13. Passes'
  <2>1. run'.ret = RESULT_NOTHING => run'.done = run'.asked /\ run'.out = run'.done
    BY <1>8, <1>9
  <2> QED BY <1>2, <1>8, <1>9, <1>10, <2>1 DEF IInv, Passes
<1>14. Results'
  BY <1>2, <1>8, <1>9, <1>10 DEF IInv, Results
<1> QED
  BY <1>11, <1>12, <1>13, <1>14 DEF IInv

\* Without a find the client's count and the core's arrive at the same key.
LEMMA NeverDiffer ==
  ASSUME IInv, pc = "tail", run.ret = RESULT_NOTHING
  PROVE  IncrementKey(refL0, run.out) = ShimUnit.L0 /\ ~Mismatch
<1> DEFINE s == truth.start
<1>1. Running /\ refL0 \in Key /\ run.base \in Key /\ RESULT_NOTHING # RESULT_FOUND
  BY DEF IInv, Types, Running, Run, RESULT_NOTHING, RESULT_FOUND
<1>2. /\ N \in Nat /\ run.asked \in Words /\ run.out \in Nat /\ s \in 0 .. Space - 1
      /\ Searching
  BY <1>1, Room
<1>3. run.done = run.asked /\ run.out = run.done /\ Pos(run.base) = At(s, N + run.done)
  BY <1>1 DEF IInv, Passes
<1>4. Pos(refL0) = At(s, N)
  BY <1>2 DEF IInv, Cursors
<1>5. IncrementKey(refL0, run.out) \in Key
      /\ Pos(IncrementKey(refL0, run.out)) = (Pos(refL0) + run.out) % Space
  <2>1. run.out \in Words
    BY <1>2, <1>3
  <2> QED BY <1>1, <2>1, ClientIncrements
<1>6. (At(s, N) + run.out) % Space = At(s, N + run.out)
  <2> HIDE DEF s
  <2> QED BY <1>2, AtFacts
<1>7. IncrementKey(refL0, run.out) = run.base
  BY <1>1, <1>3, <1>4, <1>5, <1>6, PosEqual
<1>8. ShimUnit.L0 = run.base
  BY <1>1 DEF ShimUnit
<1> QED
  BY <1>7, <1>8 DEF Mismatch

\* What was found is the key after the N + out-th, and is reported unwrapped.
LEMMA Found ==
  ASSUME IInv, pc = "tail", run.ret = RESULT_FOUND
  PROVE  /\ FoundKey(work.key, KeysDone) \in Key
         /\ truth.solution = {Value(FoundKey(work.key, KeysDone))}
<1> DEFINE s == truth.start
           n == N + run.out
           key == FoundKey(work.key, KeysDone)
<1>1. Running /\ work \in Packet /\ work.key \in Key /\ run.found \in Key /\ truth \in Truth
  BY DEF IInv, Types, Running, Run, Packet
<1>2. /\ N \in Nat /\ run.asked \in Words /\ run.out \in Nat /\ run.asked \in Nat
      /\ s \in 0 .. Space - 1 /\ N + run.asked < Word * Word /\ N + run.asked <= Space
      /\ rc # RESULT_FOUND /\ pc # "empty"
  BY <1>1, Room
<1>3. run.out + 1 <= run.asked
  BY <1>1 DEF IInv, Passes, Tested
<1>4. Pos(run.found) = At(s, n) /\ Pos(run.found) \in truth.solution
  BY <1>1 DEF IInv, Results
<1>5. /\ Value(work.key) = s /\ truth.solution \subseteq truth.matches
      /\ \A a, b \in truth.solution : a = b /\ \A m \in truth.matches : m >= s
  BY <1>2 DEF IInv, Given
<1>6. n \in 0 .. Space - 1 /\ run.out \in Words /\ n < Word * Word
  BY <1>2, <1>3, Widths DEF Words
<1>7. At(s, n) = s + n /\ At(s, n) \in 0 .. Space - 1
  <2> HIDE DEF n, s
  <2>1. At(s, n) >= s
    BY <1>4, <1>5
  <2>2. n \in Nat
    BY <1>6, Widths
  <2> QED BY <1>2, <1>6, <2>1, <2>2, AtExact, AtFacts
<1>8. KeysDone \in CountType /\ Number(KeysDone) = n
  BY <1>1, <1>6, Counted
<1>9. /\ key.mid \in Words /\ key.lo \in Words /\ key.hi \in Nat
      /\ key = [hi |-> key.hi, mid |-> key.mid, lo |-> key.lo]
      /\ Value(key) = Value(work.key) + Number(KeysDone)
  BY <1>1, <1>8, ReportsKey
<1> HIDE DEF key, n, s
<1>10. Value(key) = At(s, n) /\ Value(key) < Space
  <2>1. Space \in Int
    BY Widths
  <2> QED BY <1>5, <1>7, <1>8, <1>9, <2>1
<1>11. key.hi < Base
  <2>1. SUFFICES ASSUME key.hi >= Base PROVE FALSE
    BY <1>9, Widths
  <2>2. key.hi * Word + key.mid >= Base * Word /\ key.hi * Word + key.mid \in Int
    BY <1>9, <2>1, Widths DEF Words
  <2>3. (key.hi * Word + key.mid) * Word >= (Base * Word) * Word
    BY <2>2, Widths
  <2>4. Value(key) >= Space
    BY <1>9, <2>2, <2>3, Widths DEF Value, Words
  <2>5. Value(key) \in Int /\ Space \in Int
    BY <1>9, <2>2, Widths DEF Value, Words
  <2> QED BY <1>10, <2>4, <2>5
<1>12. key \in Key
  BY <1>9, <1>11, Widths DEF Key, Words
<1>13. truth.solution = {Value(key)}
  BY <1>4, <1>5, <1>10
<1> QED
  BY <1>12, <1>13 DEF key

\* What a run adds to what was searched, and to the check.
LEMMA RunAdds ==
  ASSUME IInv, EndRun
  PROVE  /\ KeysDone \in CountType /\ Number(KeysDone) = N + run.out
         /\ Tested = (IF run.ret = RESULT_FOUND THEN run.out + 1 ELSE run.out)
         /\ truth.searched \cup run.tested = Keys(truth.start, 0, N + Tested)
         /\ ShimUnit.check \in Check
         /\ LET hits == truth.matches \cap (truth.searched \cup run.tested)
            IN /\ ShimUnit.check.count = Cardinality(hits)
               /\ hits # {} => Pos(ShimUnit.check.key) = Max(hits)
<1> DEFINE s == truth.start
           M == truth.matches
           c == N + Tested
           H1 == M \cap Keys(s, 0, N)
           H2 == M \cap Keys(s, N, c)
           H == M \cap Keys(s, 0, c)
<1>1. pc = "tail" /\ Running /\ RESULT_NOTHING # RESULT_FOUND
  BY DEF EndRun, Running, RESULT_NOTHING, RESULT_FOUND
<1>2. /\ work \in Packet /\ unit \in Unit /\ run \in Run /\ M \in SUBSET Nat
      /\ unit.check \in Check /\ work.check \in Check
  BY DEF IInv, Types, Packet, Unit, Truth
<1>3. /\ N \in Nat /\ run.asked \in Words /\ run.out \in Nat /\ run.asked \in Nat
      /\ s \in 0 .. Space - 1 /\ N + run.asked < Word * Word /\ N + run.asked <= Space
      /\ rc # RESULT_FOUND /\ pc # "empty" /\ run.done \in Nat
  BY <1>1, Room
<1>4. Tested = (IF run.ret = RESULT_FOUND THEN run.out + 1 ELSE run.out) /\ Tested <= run.asked
  <2>1. run.ret \in {RESULT_NOTHING, RESULT_FOUND}
    BY <1>2 DEF Run
  <2>2. Tested <= run.asked /\ (run.ret = RESULT_NOTHING => run.out = run.done)
    BY <1>1 DEF IInv, Passes
  <2> QED BY <1>1, <2>1, <2>2 DEF Tested
<1>5. /\ run.out \in Words /\ N + run.out < Word * Word /\ Tested \in Nat
      /\ c \in Nat /\ N <= c /\ c <= Space
  BY <1>3, <1>4, Widths DEF Words
<1>6. KeysDone \in CountType /\ Number(KeysDone) = N + run.out
  BY <1>2, <1>5, Counted
<1>7. truth.searched = Keys(s, 0, N)
  <2>1. N + 0 = N
    BY <1>3
  <2> QED BY <1>3, <2>1 DEF IInv, SearchedExactly, Keys, At, N
<1>8. run.tested = Keys(s, N, c)
  BY <1>1 DEF IInv, Results
<1>9. \A m \in M : m >= s
  BY <1>3 DEF IInv, Given
<1> HIDE DEF c, s, M
<1>10. Keys(s, 0, c) = Keys(s, 0, N) \cup Keys(s, N, c)
  BY <1>3, <1>5, KeysJoin
<1>11. /\ H = H1 \cup H2 /\ Cardinality(H1) \in Nat /\ Cardinality(H2) \in Nat
       /\ (Cardinality(H2) = 0 <=> H2 = {})
       /\ Cardinality(H) = Cardinality(H1) + Cardinality(H2)
       /\ (H2 # {} => Max(H) = Max(H2))
  <2>1. LET K1 == M \cap Keys(s, 0, N)
            K2 == M \cap Keys(s, N, c)
            K  == M \cap Keys(s, 0, c)
        IN /\ K = K1 \cup K2
           /\ Cardinality(K1) \in Nat /\ Cardinality(K2) \in Nat
           /\ Cardinality(K2) = 0 <=> K2 = {}
           /\ Cardinality(K) = Cardinality(K1) + Cardinality(K2)
           /\ K2 # {} => Max(K) = Max(K2)
    <3>1. /\ s \in 0 .. Space - 1 /\ 0 \in Nat /\ N \in Nat /\ c \in Nat
          /\ 0 <= N /\ N <= c /\ c <= Space /\ M \in SUBSET Nat /\ \A m \in M : m >= s
      BY <1>2, <1>3, <1>5, <1>9 DEF M, s
    <3> QED BY <3>1, HitsJoin
  <2> QED BY <2>1, Zenon
<1>12. /\ work.check.count = Cardinality(H1)
       /\ (H1 # {} => Value(work.check.key) = Max(H1))
  BY <1>3, <1>7 DEF IInv, ChecksExact, M
<1>13. /\ run.nCheck = Cardinality(H2)
       /\ (H2 # {} => Pos(run.check) = Max(H2))
  BY <1>1, <1>8 DEF IInv, Results, M
<1>14. /\ unit.check.count = work.check.count
       /\ unit.check.key = SwitchRC572Format[work.check.key]
  BY <1>3 DEF IInv, Cursors
<1>15. Pos(unit.check.key) = Value(work.check.key)
  <2>1. work.check.key \in Key
    BY <1>2 DEF Check
  <2> QED BY <1>14, <2>1, PosFacts
<1>16. ShimUnit.check = (IF run.nCheck = 0 THEN unit.check
                         ELSE [count |-> unit.check.count + run.nCheck, key |-> run.check])
  BY DEF ShimUnit
<1>17. truth.matches \cap (truth.searched \cup run.tested) = H
  BY <1>7, <1>8, <1>10 DEF M
<1> HIDE DEF H1, H2, H
<1>18. /\ ShimUnit.check \in Check /\ ShimUnit.check.count = Cardinality(H)
       /\ (H # {} => Pos(ShimUnit.check.key) = Max(H))
  <2>1. CASE run.nCheck = 0
    <3>1. H = H1 /\ ShimUnit.check = unit.check /\ Cardinality(H) = Cardinality(H1)
      BY <1>11, <1>13, <1>16, <2>1
    <3> QED BY <1>2, <1>12, <1>14, <1>15, <3>1
  <2>2. CASE run.nCheck # 0
    <3>1. /\ H2 # {} /\ ShimUnit.check.count = unit.check.count + run.nCheck
          /\ ShimUnit.check.key = run.check
          /\ ShimUnit.check = [count |-> unit.check.count + run.nCheck, key |-> run.check]
      BY <1>11, <1>13, <1>16, <2>2
    <3>2. unit.check.count + run.nCheck = Cardinality(H)
      BY <1>11, <1>12, <1>13, <1>14
    <3>3. ShimUnit.check \in Check
      <4>1. unit.check.count \in Nat /\ run.nCheck \in Nat /\ run.check \in Key
        BY <1>2 DEF Check, Run
      <4> QED BY <3>1, <4>1 DEF Check
    <3> QED BY <1>11, <1>13, <3>1, <3>2, <3>3
  <2> QED BY <2>1, <2>2
<1> QED
  BY <1>4, <1>6, <1>7, <1>8, <1>10, <1>17, <1>18 DEF s, c

LEMMA EndRunKeeps ==
  ASSUME IInv, EndRun
  PROVE  IInv'
<1> DEFINE found == run.ret = RESULT_FOUND
           key == IF found THEN FoundKey(work.key, KeysDone) ELSE work.key
           check == ShimUnit.check
           hits == truth.matches \cap (truth.searched \cup run.tested)
<1>1. /\ pc = "tail" /\ ~Mismatch /\ refL0' = IncrementKey(refL0, run.out)
      /\ unit' = ShimUnit
      /\ work' = [work EXCEPT
           !.keysdone = KeysDone,
           !.check = [check EXCEPT !.key = SwitchRC572Format[@]],
           !.key = IF found THEN FoundKey(@, KeysDone) ELSE @]
      /\ rc' = IF found THEN RESULT_FOUND
               ELSE IF PacketDone(KeysDone) THEN RESULT_NOTHING ELSE RESULT_WORKING
      /\ truth' = [truth EXCEPT !.searched = @ \cup run.tested]
      /\ pc' = "ready" /\ run' = NoRun /\ troubles' = troubles
  BY DEF EndRun
<1>2. Running /\ ~Running' /\ RESULT_NOTHING # RESULT_FOUND /\ RESULT_WORKING # RESULT_FOUND
      /\ RESULT_WORKING # RESULT_NOTHING
  BY <1>1 DEF Running, RESULT_NOTHING, RESULT_FOUND, RESULT_WORKING
<1>3. /\ work \in Packet /\ unit \in Unit /\ run \in Run /\ truth \in Truth /\ refL0 \in Key
      /\ run.ret \in {RESULT_NOTHING, RESULT_FOUND} /\ run.found \in Key /\ run.base \in Key
      /\ work.key \in Key
  BY DEF IInv, Types, Run, Packet
<1>4. /\ N \in Nat /\ run.asked \in Words /\ run.out \in Nat /\ run.asked \in Nat
      /\ truth.start \in 0 .. Space - 1 /\ rc # RESULT_FOUND /\ pc # "empty" /\ run.done \in Nat
  BY <1>2, Room
<1>5. /\ KeysDone \in CountType /\ Number(KeysDone) = N + run.out
      /\ Tested = (IF found THEN run.out + 1 ELSE run.out)
      /\ truth.searched \cup run.tested = Keys(truth.start, 0, N + Tested)
      /\ check \in Check /\ check.count = Cardinality(hits)
      /\ (hits # {} => Pos(check.key) = Max(hits))
  BY RunAdds
<1>6. /\ found => key \in Key /\ truth.solution = {Value(key)}
      /\ ~found => key \in Key /\ key = work.key
  BY <1>1, <1>3, Found
<1>7. ~found => /\ refL0' = ShimUnit.L0 /\ ShimUnit.L0 = run.base
                /\ Pos(run.base) = At(truth.start, N + run.out)
  <2>1. ~found => run.out = run.done /\ ShimUnit.L0 = run.base
    BY <1>1, <1>2, <1>3 DEF IInv, Passes, ShimUnit
  <2>2. Pos(run.base) = At(truth.start, N + run.done)
    BY <1>2 DEF IInv, Passes
  <2> QED BY <1>1, <1>3, <2>1, <2>2, NeverDiffer
<1>8. check.key \in Key /\ check = [count |-> check.count, key |-> check.key]
  BY <1>5 DEF Check
<1>9. unit' = [L0 |-> unit'.L0, check |-> check] /\ unit'.L0 \in Key
  BY <1>1, <1>3 DEF ShimUnit
<1>10. SwitchRC572Format[check.key] \in Key
       /\ SwitchRC572Format[SwitchRC572Format[check.key]] = check.key
       /\ Value(SwitchRC572Format[check.key]) = Pos(check.key)
  BY <1>8, SwitchFacts, PosFacts
<1> HIDE DEF check, key, hits, found
<1>11. /\ work' \in Packet /\ work'.key = key /\ work'.keysdone = KeysDone
       /\ work'.iterations = work.iterations /\ work'.check.count = check.count
       /\ work'.check.key = SwitchRC572Format[check.key]
  <2>1. work' = [work EXCEPT !.keysdone = KeysDone,
                   !.check = [count |-> check.count, key |-> SwitchRC572Format[check.key]],
                   !.key = key]
    <3> DEFINE c == [check EXCEPT !.key = SwitchRC572Format[@]]
    <3>1. c = [count |-> check.count, key |-> SwitchRC572Format[check.key]]
      BY <1>8
    <3>2. work' = [work EXCEPT !.keysdone = KeysDone, !.check = c,
                     !.key = IF found THEN FoundKey(@, KeysDone) ELSE @]
      BY <1>1, Zenon
    <3> HIDE DEF c
    <3>3. work' = [work EXCEPT !.keysdone = KeysDone, !.check = c, !.key = key]
      BY <3>2, Zenon DEF key
    <3> QED BY <3>1, <3>3
  <2>2. [count |-> check.count, key |-> SwitchRC572Format[check.key]] \in Check
    BY <1>5, <1>10 DEF Check
  <2>3. key \in Key
    BY <1>6
  <2> QED BY <1>3, <1>5, <2>1, <2>2, <2>3 DEF Packet
<1>12. /\ truth' \in Truth /\ truth'.start = truth.start /\ truth'.size = truth.size
       /\ truth'.matches = truth.matches /\ truth'.solution = truth.solution
       /\ truth'.searched = truth.searched \cup run.tested
  BY <1>1, <1>3 DEF Truth, Run
<1>13. N' = N + run.out
  BY <1>5, <1>11 DEF N
<1>14. PacketDone(KeysDone) <=> N' >= truth.size
  <2>1. Number(work.iterations) = truth.size
    BY <1>4 DEF IInv, Given
  <2> QED BY <1>3, <1>5, <1>13, <2>1, Compared
<1>15. /\ rc' = RESULT_FOUND => found
       /\ rc' = RESULT_NOTHING => ~found /\ PacketDone(KeysDone)
       /\ rc' = RESULT_WORKING => ~found /\ ~PacketDone(KeysDone)
       /\ found => rc' = RESULT_FOUND
       /\ rc' \in {RESULT_WORKING, RESULT_NOTHING, RESULT_FOUND}
  BY <1>1, <1>2
<1>16. Types'
  <2>1. refL0' \in Key
    <3>1. run.out \in Words
      <4>1. run.out <= Tested /\ Tested <= run.asked
        <5>1. Tested <= run.asked
          BY <1>2 DEF IInv, Passes
        <5> QED BY <1>4, <1>5, <5>1
      <4>2. Tested \in Nat
        BY <1>4, <1>5
      <4> QED BY <1>4, <4>1, <4>2, Widths DEF Words
    <3> QED BY <1>1, <1>3, <3>1, ClientIncrements
  <2>2. unit' \in Unit
    BY <1>5, <1>9 DEF Unit
  <2>3. troubles' \in 0 .. MaxTroubles
    BY <1>1 DEF IInv, Types
  <2> QED BY <1>1, <1>11, <1>12, <1>15, <2>1, <2>2, <2>3, Empties DEF Types
<1>17. Given'
  <2>1. rc' # RESULT_FOUND => Value(work'.key) = truth'.start
    <3>1. Value(work.key) = truth.start
      BY <1>4 DEF IInv, Given
    <3> QED BY <1>6, <1>11, <1>12, <1>15, <3>1
  <2>2. /\ Number(work.iterations) = truth.size
        /\ truth.solution \subseteq truth.matches
        /\ \A a, b \in truth.solution : a = b
        /\ \A m \in truth.matches : m >= truth.start
    BY <1>4 DEF IInv, Given
  <2> QED BY <1>11, <1>12, <2>1, <2>2 DEF Given
<1>18. Cursors'
  <2>1. Searching' => refL0' = unit'.L0 /\ Pos(unit'.L0) = At(truth'.start, N')
    BY <1>1, <1>7, <1>12, <1>13, <1>15 DEF Searching
  <2>2. unit'.check = [count |-> work'.check.count,
                       key |-> SwitchRC572Format[work'.check.key]]
    BY <1>8, <1>9, <1>10, <1>11
  <2> QED BY <2>1, <2>2 DEF Cursors
<1>19. Progress'
  <2>1. rc' = RESULT_WORKING => N' <= Word * (Word - 1)
    <3>1. truth.size \in 0 .. Word * (Word - 1) /\ N' \in Nat
      BY <1>3, <1>4, <1>13 DEF Truth
    <3>2. Word * (Word - 1) \in Int
      BY Widths
    <3> QED BY <1>14, <1>15, <3>1, <3>2
  <2>2. rc' = RESULT_NOTHING => N' >= truth'.size
    BY <1>12, <1>14, <1>15
  <2>3. rc' # RESULT_FOUND => truth'.searched \cap truth'.solution = {}
    <3>1. truth.searched \cap truth.solution = {}
      BY <1>4 DEF IInv, Progress
    <3>2. ~found => run.tested \cap truth.solution = {}
      BY <1>2, <1>3 DEF IInv, Results, found
    <3> QED BY <1>12, <1>15, <3>1, <3>2
  <2>4. rc' = RESULT_FOUND => truth'.solution = {Value(work'.key)}
    BY <1>6, <1>11, <1>12, <1>15
  <2> QED BY <2>1, <2>2, <2>3, <2>4 DEF Progress
<1>20. Passes' /\ Results'
  BY <1>2 DEF Passes, Results
<1>21. SearchedExactly'
  <2>1. N + Tested = N' + (IF rc' = RESULT_FOUND THEN 1 ELSE 0)
    BY <1>4, <1>5, <1>13, <1>15
  <2>2. truth'.searched = Keys(truth'.start, 0, N' + (IF rc' = RESULT_FOUND THEN 1 ELSE 0))
    BY <1>5, <1>12, <2>1
  <2> QED BY <2>2 DEF SearchedExactly, Keys, At, N
<1>22. ChecksExact'
  <2>1. truth'.matches \cap truth'.searched = hits
    BY <1>12 DEF hits
  <2> QED BY <1>5, <1>10, <1>11, <2>1 DEF ChecksExact
<1> QED
  BY <1>16, <1>17, <1>18, <1>19, <1>20, <1>21, <1>22 DEF IInv

-----------------------------------------------------------------------------
(* Theorems. *)

\* The invariant of the specification.
LEMMA Inductive ==
  ASSUME IInv, [Next]_vars
  PROVE  IInv'
<1>1. CASE UNCHANGED vars
  <2>1. /\ UNCHANGED <<pc, work, unit, refL0, rc, run, troubles, truth>>
    BY <1>1 DEF vars
  <2>2. Types' /\ Given' /\ Progress' /\ SearchedExactly' /\ ChecksExact'
    BY <2>1 DEF IInv, Types, Given, Progress, N, SearchedExactly, ChecksExact
  <2>3. Cursors' /\ Passes' /\ Results'
    BY <2>1 DEF IInv, Cursors, Searching, Passes, Results, Running, Tested, N
  <2> QED BY <2>2, <2>3 DEF IInv
<1>2. CASE Next
  BY <1>2, LoadFreshKeeps, ReloadKeeps, ReloadResetKeeps, UnloadKeeps, BeginRunKeeps,
     PassNothingKeeps, PassFoundKeeps, PassesDoneKeeps, EndRunKeeps, RunFailsKeeps DEF Next
<1> QED
  BY <1>1, <1>2

LEMMA Invariant == Spec => []IInv
<1>1. Init => IInv
  BY Initially
<1>2. IInv /\ [Next]_vars => IInv'
  BY Inductive
<1> QED
  BY <1>1, <1>2, PTL DEF Spec

\* The cursors, counts and results of a packet are what the code declares them
\* to be, and a run is asked for a number of keys that fits a word (TypeOK).
THEOREM TypeCorrect == Spec => []TypeOK
<1>1. IInv => TypeOK
  <2> SUFFICES ASSUME IInv PROVE TypeOK
    OBVIOUS
  <2>1. /\ work \in Packet /\ unit \in Unit /\ run \in Run
        /\ pc \in {"empty", "ready", "pass", "tail"} /\ refL0 \in Key
        /\ rc \in {RESULT_WORKING, RESULT_NOTHING, RESULT_FOUND}
        /\ troubles \in 0 .. MaxTroubles
    BY DEF IInv, Types
  <2>2. work.key \in Key /\ work.check.key \in Key /\ work.keysdone \in CountType
    BY <2>1 DEF Packet, Check
  <2>3. unit.L0 \in Key /\ unit.check.key \in Key
    BY <2>1 DEF Unit, Check
  <2>4. run.asked \in Words /\ run.base \in Key /\ run.found \in Key
    BY <2>1 DEF Run
  <2> QED BY <2>1, <2>2, <2>3, <2>4 DEF TypeOK, CountType, Words
<1> QED
  BY <1>1, Invariant, PTL

\* refL0, the core's L0 and key plus keysdone name the same key whenever a packet
\* is not in the core, after any slices, saves and reloads (CursorsAgree).
THEOREM CursorsCorrect == Spec => []CursorsAgree
<1>1. IInv => CursorsAgree
  BY DEF IInv, Cursors, Searching, CursorsAgree, Pos, At, N
<1> QED
  BY <1>1, Invariant, PTL

\* The first keysdone keys of a packet have been searched, and no others: none is
\* skipped or searched twice between passes, slices and loads (SearchedExactly).
THEOREM SearchCorrect == Spec => []SearchedExactly
<1>1. IInv => SearchedExactly
  BY DEF IInv
<1> QED
  BY <1>1, Invariant, PTL

LEMMA NumbersOf ==
  ASSUME IInv
  PROVE  N \in Int /\ truth.size \in Int
<1>1. work \in Packet /\ truth \in Truth
  BY DEF IInv, Types
<1>2. N \in 0 .. Word * Word - 1
  BY <1>1, CountFacts DEF Packet, N
<1>3. truth.size \in 0 .. Word * (Word - 1)
  BY <1>1 DEF Truth
<1>4. Word * Word - 1 \in Int /\ Word * (Word - 1) \in Int
  BY Widths
<1>5. \A m \in Int : \A i \in 0 .. m : i \in Int
  OBVIOUS
<1>6. N \in Int
  <2> HIDE DEF N
  <2> QED BY <1>2, <1>4, <1>5
<1>7. truth.size \in Int
  BY <1>3, <1>4, <1>5
<1> QED
  BY <1>6, <1>7

\* A packet is reported as searched in vain only if it was and its solution is
\* not in it; the key reported as found is the solution (ResultTrue).
THEOREM ResultCorrect == Spec => []ResultTrue
<1>1. ASSUME IInv PROVE ResultTrue
  <2>1. RESULT_WORKING # RESULT_FOUND /\ RESULT_WORKING # RESULT_NOTHING
        /\ RESULT_FOUND # RESULT_NOTHING
    BY DEF RESULT_NOTHING, RESULT_FOUND, RESULT_WORKING
  <2>2. rc # RESULT_WORKING => pc # "empty"
    BY <1>1 DEF IInv, Types
  <2>3. ASSUME rc = RESULT_NOTHING, NEW i \in 0 .. truth.size - 1
        PROVE  (truth.start + i) % Space \in truth.searched \ truth.solution
    <3>1. truth.searched \cap truth.solution = {} /\ N >= truth.size
      BY <1>1, <2>1, <2>2, <2>3 DEF IInv, Progress
    <3>2. N \in Int /\ truth.size \in Int
      BY <1>1, NumbersOf
    <3>3. truth.searched = Keys(truth.start, 0, N)
      <4>1. N + 0 = N /\ rc # RESULT_FOUND /\ pc # "empty" /\ SearchedExactly
        BY <1>1, <2>1, <2>2, <2>3, <3>2 DEF IInv
      <4> QED BY <4>1 DEF SearchedExactly, Keys, At, N
    <3>4. i \in 0 .. N - 1
      BY <3>1, <3>2
    <3> QED BY <3>1, <3>3, <3>4 DEF Keys, At
  <2>4. rc = RESULT_FOUND => truth.solution = {Value(work.key)}
    BY <1>1, <2>1, <2>2 DEF IInv, Progress
  <2> QED BY <2>3, <2>4 DEF ResultTrue
<1> QED
  BY <1>1, Invariant, PTL

\* The check that is reported with a packet counts the partial matches in it and
\* names the last, as the scan of the results and the shim add them up (ChecksExact).
THEOREM CheckCorrect == Spec => []ChecksExact
<1>1. IInv => ChecksExact
  BY DEF IInv
<1> QED
  BY <1>1, Invariant, PTL

\* The comparison after a run without a find, of the key __IncrementKey counted
\* to with the one the core counted to, never fails: Run_RC5_72 has nothing to give up.
THEOREM CountsNeverDiffer == Spec => [](pc = "tail" => ~Mismatch)
<1>1. ASSUME IInv PROVE pc = "tail" => ~Mismatch
  BY <1>1, NeverDiffer DEF IInv, Types, Run, Mismatch
<1> QED
  BY <1>1, Invariant, PTL

\* A run that ends without a result has added to keysdone: no proposed slice, at
\* no alignment of the packet, makes Run_RC5_72 ask for nothing (SliceAdvances).
THEOREM SlicesAdvance == Spec => SliceAdvances
<1> DEFINE Adv == EndRun => \/ rc' # RESULT_WORKING
                            \/ Number(work'.keysdone) > Number(work.keysdone)
<1>1. ASSUME IInv, EndRun, rc' = RESULT_WORKING
      PROVE  Number(work'.keysdone) > Number(work.keysdone)
  <2>1. /\ pc = "tail" /\ Running /\ work \in Packet /\ run \in Run
        /\ work'.keysdone = KeysDone
    BY <1>1 DEF IInv, Types, EndRun, Running, Packet
  <2>2. run.ret = RESULT_NOTHING
    BY <1>1, <2>1 DEF EndRun, Run, RESULT_WORKING, RESULT_FOUND, RESULT_NOTHING
  <2>3. run.out = run.asked /\ run.asked >= 1
    BY <1>1, <2>1, <2>2 DEF IInv, Passes
  <2>4. N \in Nat /\ run.asked \in Nat
    BY <1>1, <2>1, Room
  <2>5. Number(KeysDone) = N + run.out
    BY <1>1, RunAdds
  <2> QED BY <2>1, <2>3, <2>4, <2>5 DEF N
<1>2. IInv /\ [Next]_vars => [Adv]_vars
  BY <1>1
<1>3. Spec => [][Adv]_vars
  BY <1>2, Invariant, PTL DEF Spec
<1> QED
  BY <1>3 DEF SliceAdvances
=============================================================================
