-------------------------- MODULE ReadHorizonPins --------------------------
(***************************************************************************)
(* What the operations on the pins do: each of hold_published, hold_at and *)
(* release of ReadPins changes the count of one epoch and keeps the deque  *)
(* in order, wherever in it the epoch is.                                  *)
(***************************************************************************)
EXTENDS ReadHorizon, FiniteSetTheorems, SequenceTheorems, TLAPS

\* Zenon proves a step unless the step names another prover.
USE Zenon

Pin == [epoch : Nat, readers : Nat]
PinSeq == Seq(Pin)
Counts == [Nat -> Nat]

\* How many read at each epoch.
Readers == [e \in Nat |-> Cardinality({r \in Reader : reads[r] = {e}})]

\* The entries q of the pins count f(e) readers of each epoch e, in order.
PinsMatch(q, f) ==
    /\ \A i, j \in 1 .. Len(q) : i < j => q[i].epoch < q[j].epoch
    /\ \A i \in 1 .. Len(q) : q[i].readers = f[q[i].epoch]
    /\ \A e \in Nat : f[e] # 0 <=> \E i \in 1 .. Len(q) : q[i].epoch = e
----------------------------------------------------------------------------
(* Numbers and sequences *)

\* Numbers in order differ.
LEMMA Apart ==
  ASSUME NEW a \in Nat, NEW b \in Nat, a < b \/ b < a PROVE a # b
  BY SMT

\* What is neither smaller nor equal is larger.
LEMMA Above ==
  ASSUME NEW a \in Nat, NEW b \in Nat, ~(a < b), a # b PROVE b < a
  BY SMT

\* One more than a count.
LEMMA OneMore ==
  ASSUME NEW a \in Nat PROVE a + 1 \in Nat \ {0}
  BY SMT

\* One less than a count, which is 0 for the last.
LEMMA OneLess ==
  ASSUME NEW a \in Nat, a # 0 PROVE a - 1 \in Nat /\ (a - 1 = 0 <=> a = 1)
  BY SMT

\* The larger of two numbers.
LEMMA MaxPair ==
  ASSUME NEW a \in Int, NEW b \in Int
  PROVE  Max({a, b}) = IF a >= b THEN a ELSE b
<1>1. \A m : m \in {a, b} /\ (\A y \in {a, b} : m >= y) <=> m = IF a >= b THEN a ELSE b
  BY SMT
<1>2. QED
  BY <1>1 DEF Max

\* The larger of two counts is at least each.
LEMMA MaxOfNats ==
  ASSUME NEW a \in Nat, NEW b \in Nat
  PROVE  Max({a, b}) \in Nat /\ a <= Max({a, b}) /\ b <= Max({a, b})
<1>1. Max({a, b}) = IF a >= b THEN a ELSE b
  BY MaxPair, SMT
<1>2. QED
  BY <1>1, SMT

\* The smaller of two numbers.
LEMMA MinPair ==
  ASSUME NEW a \in Int, NEW b \in Int
  PROVE  Min({a, b}) = IF a <= b THEN a ELSE b
<1>1. \A m : m \in {a, b} /\ (\A y \in {a, b} : m =< y) <=> m = IF a <= b THEN a ELSE b
  BY SMT
<1>2. QED
  BY <1>1 DEF Min

\* How many there are in 1 .. n.
LEMMA UpToCount ==
  ASSUME NEW n \in Nat PROVE IsFiniteSet(1 .. n) /\ Cardinality(1 .. n) = n
<1>1. IsFiniteSet(1 .. n) /\ Cardinality(1 .. n) = IF 1 > n THEN 0 ELSE (n - 1) + 1
  BY FS_Interval, SMT
<1>2. QED
  BY <1>1, SMT

\* A set that has every smaller position with a position is 1 .. its size.
LEMMA InitialSegment ==
  ASSUME NEW n \in Nat, NEW S \in SUBSET (1 .. n), \A j \in S : 1 .. j \subseteq S
  PROVE  Cardinality(S) \in 0 .. n /\ S = 1 .. Cardinality(S)
<1>1. IsFiniteSet(S) /\ Cardinality(S) <= n
  <2>1. IsFiniteSet(1 .. n) /\ Cardinality(1 .. n) = n
    BY UpToCount
  <2>2. IsFiniteSet(S) /\ Cardinality(S) <= Cardinality(1 .. n)
    BY <2>1, FS_Subset
  <2>3. QED
    BY <2>1, <2>2
<1>2. Cardinality(S) \in Nat
  BY <1>1, FS_CardinalityType
<1>3. ASSUME NEW j \in S PROVE j \in 1 .. Cardinality(S)
  <2>1. j \in Nat /\ 1 <= j /\ 1 .. j \in SUBSET S
    BY SMT
  <2>2. Cardinality(1 .. j) = j
    BY <2>1, UpToCount
  <2>3. Cardinality(1 .. j) <= Cardinality(S)
    BY <1>1, <2>1, FS_Subset
  <2>4. QED
    BY <1>2, <2>1, <2>2, <2>3, SMT
<1>4. S \in SUBSET (1 .. Cardinality(S))
  BY <1>3
<1>5. IsFiniteSet(1 .. Cardinality(S)) /\ Cardinality(1 .. Cardinality(S)) = Cardinality(S)
  BY <1>2, UpToCount
<1>6. S = 1 .. Cardinality(S)
  BY <1>4, <1>5, FS_Subset
<1>7. QED
  BY <1>1, <1>2, <1>6, SMT

\* The member at j once e is put into s at i.
WithMember(s, i, e, j) == IF j < i THEN s[j] ELSE IF j = i THEN e ELSE s[j - 1]

\* A member put into a sequence moves those after it.
LEMMA InsertAtIs ==
  ASSUME NEW S, NEW s \in Seq(S), NEW e \in S, NEW i \in 1 .. Len(s) + 1
  PROVE  /\ InsertAt(s, i, e) \in Seq(S)
         /\ Len(InsertAt(s, i, e)) = Len(s) + 1
         /\ \A j \in 1 .. Len(s) + 1 : InsertAt(s, i, e)[j] = WithMember(s, i, e, j)
<1> DEFINE a == SubSeq(s, 1, i - 1)
           b == SubSeq(s, i, Len(s))
<1>1. a \in Seq(S) /\ Len(a) = i - 1 /\ \A j \in 1 .. i - 1 : a[j] = s[j]
  BY SubSeqProperties, ElementOfSeq, SMT
<1>2. b \in Seq(S) /\ Len(b) = (Len(s) - i) + 1 /\ \A j \in 1 .. (Len(s) - i) + 1 : b[j] = s[(i + j) - 1]
  BY SubSeqProperties, ElementOfSeq, SMT
<1>3. <<e>> \in Seq(S) /\ Len(<<e>>) = 1 /\ <<e>>[1] = e
  BY SMT
<1> DEFINE c == a \o <<e>>
<1> HIDE DEF a, b
<1>4. c \in Seq(S) /\ Len(c) = i /\ \A j \in 1 .. i : c[j] = IF j < i THEN s[j] ELSE e
  BY <1>1, <1>3, ConcatProperties, SMT
<1> HIDE DEF c
<1>5. /\ c \o b \in Seq(S) /\ Len(c \o b) = Len(s) + 1
      /\ \A j \in 1 .. Len(s) + 1 : (c \o b)[j] = IF j <= i THEN c[j] ELSE b[j - i]
  BY <1>2, <1>4, ConcatProperties, SMT
<1>6. \A j \in 1 .. Len(s) + 1 : (c \o b)[j] = WithMember(s, i, e, j)
  BY <1>2, <1>4, <1>5, SMT DEF WithMember
<1>7. InsertAt(s, i, e) = c \o b
  BY DEF InsertAt, a, b, c
<1>8. QED
  BY <1>5, <1>6, <1>7

\* A member taken out of a sequence moves those after it back.
LEMMA RemoveAtIs ==
  ASSUME NEW S, NEW s \in Seq(S), NEW i \in 1 .. Len(s)
  PROVE  /\ RemoveAt(s, i) \in Seq(S)
         /\ Len(RemoveAt(s, i)) = Len(s) - 1
         /\ \A j \in 1 .. Len(s) - 1 : RemoveAt(s, i)[j] = IF j < i THEN s[j] ELSE s[j + 1]
<1> DEFINE a == SubSeq(s, 1, i - 1)
           b == SubSeq(s, i + 1, Len(s))
<1>1. a \in Seq(S) /\ Len(a) = i - 1 /\ \A j \in 1 .. i - 1 : a[j] = s[j]
  BY SubSeqProperties, ElementOfSeq, SMT
<1>2. b \in Seq(S) /\ Len(b) = Len(s) - i /\ \A j \in 1 .. Len(s) - i : b[j] = s[i + j]
  BY SubSeqProperties, ElementOfSeq, SMT
<1> HIDE DEF a, b
<1>3. /\ a \o b \in Seq(S) /\ Len(a \o b) = Len(a) + Len(b)
      /\ \A j \in 1 .. Len(a) + Len(b) : (a \o b)[j] = IF j <= Len(a) THEN a[j] ELSE b[j - Len(a)]
  BY <1>1, <1>2, ConcatProperties
<1>4. Len(s) \in Nat /\ Len(a) + Len(b) = Len(s) - 1
  BY <1>1, <1>2, LenProperties, SMT
<1>5. ASSUME NEW j \in 1 .. Len(s) - 1 PROVE (a \o b)[j] = IF j < i THEN s[j] ELSE s[j + 1]
  <2>1. j \in 1 .. Len(a) + Len(b) /\ (j <= Len(a) <=> j < i)
    BY <1>1, <1>4, SMT
  <2>2. (a \o b)[j] = IF j < i THEN a[j] ELSE b[j - Len(a)]
    BY <1>3, <2>1
  <2>3. CASE j < i
    BY <1>1, <2>2, <2>3, SMT
  <2>4. CASE ~(j < i)
    <3>1. j - Len(a) \in 1 .. Len(s) - i /\ i + (j - Len(a)) = j + 1
      BY <1>1, <1>4, <2>4, SMT
    <3>2. QED
      BY <1>2, <2>2, <2>4, <3>1
  <2>5. QED
    BY <2>3, <2>4
<1>6. RemoveAt(s, i) = a \o b
  BY DEF RemoveAt, a, b
<1>7. QED
  BY <1>3, <1>5, <1>6, <1>4
----------------------------------------------------------------------------
(* The pins *)

\* What the pins are made of.
LEMMA PinsTyped ==
  ASSUME NEW q \in PinSeq
  PROVE  /\ Len(q) \in Nat
         /\ \A i \in 1 .. Len(q) : q[i] \in Pin /\ q[i].epoch \in Nat /\ q[i].readers \in Nat
<1>1. \A i \in 1 .. Len(q) : q[i] \in Pin
  BY ElementOfSeq DEF PinSeq
<1>2. \A p \in Pin : p.epoch \in Nat /\ p.readers \in Nat
  BY DEF Pin
<1>3. QED
  BY <1>1, <1>2, LenProperties DEF PinSeq

\* The entries with one count changed.
Recount(q, i, c) == [q EXCEPT ![i].readers = c]

\* Only that count changes.
LEMMA RecountIs ==
  ASSUME NEW q \in PinSeq, NEW i \in 1 .. Len(q), NEW c \in Nat
  PROVE  /\ Recount(q, i, c) \in PinSeq /\ Len(Recount(q, i, c)) = Len(q)
         /\ \A j \in 1 .. Len(q) : Recount(q, i, c)[j].epoch = q[j].epoch
         /\ \A j \in 1 .. Len(q) : j # i => Recount(q, i, c)[j].readers = q[j].readers
         /\ Recount(q, i, c)[i].readers = c
<1> DEFINE p == [q[i] EXCEPT !.readers = c]
           t == [q EXCEPT ![i] = p]
<1>1. q[i] \in Pin
  BY ElementOfSeq DEF PinSeq
<1>2. p \in Pin /\ p.epoch = q[i].epoch /\ p.readers = c
  BY <1>1 DEF Pin
<1> HIDE DEF p
<1>3. t \in PinSeq /\ Len(t) = Len(q) /\ \A j \in 1 .. Len(q) : t[j] = IF j = i THEN p ELSE q[j]
  BY <1>2, ExceptSeq, SMT DEF PinSeq
<1>4. Recount(q, i, c) = t
  BY DEF p, Recount
<1> HIDE DEF t
<1>5. QED
  BY <1>2, <1>3, <1>4

\* A pin put among the others.
LEMMA InsertPin ==
  ASSUME NEW q \in PinSeq, NEW p \in Pin, NEW i \in 1 .. Len(q) + 1
  PROVE  /\ InsertAt(q, i, p) \in PinSeq /\ Len(InsertAt(q, i, p)) = Len(q) + 1
         /\ \A j \in 1 .. Len(q) + 1 : InsertAt(q, i, p)[j] =
              IF j < i THEN q[j] ELSE IF j = i THEN p ELSE q[j - 1]
<1> DEFINE S == Pin
<1>1. q \in Seq(S) /\ p \in S
  BY DEF PinSeq
<1> HIDE DEF S
<1>2. InsertAt(q, i, p) \in Seq(S)
  BY <1>1, InsertAtIs
<1>3. Len(InsertAt(q, i, p)) = Len(q) + 1
  BY <1>1, InsertAtIs
<1>4. \A j \in 1 .. Len(q) + 1 : InsertAt(q, i, p)[j] = WithMember(q, i, p, j)
  BY <1>1, InsertAtIs
<1>5. QED
  BY <1>2, <1>3, <1>4 DEF PinSeq, S, WithMember

\* A pin put at the back.
LEMMA AppendPin ==
  ASSUME NEW q \in PinSeq, NEW p \in Pin
  PROVE  /\ Append(q, p) \in PinSeq /\ Len(Append(q, p)) = Len(q) + 1
         /\ Append(q, p)[Len(q) + 1] = p
         /\ \A j \in 1 .. Len(q) : Append(q, p)[j] = q[j]
  BY AppendProperties, SMT DEF PinSeq

\* A pin taken out.
LEMMA RemovePin ==
  ASSUME NEW q \in PinSeq, NEW i \in 1 .. Len(q)
  PROVE  /\ RemoveAt(q, i) \in PinSeq /\ Len(RemoveAt(q, i)) = Len(q) - 1
         /\ \A j \in 1 .. Len(q) - 1 : RemoveAt(q, i)[j] = IF j < i THEN q[j] ELSE q[j + 1]
<1>1. q \in Seq(Pin)
  BY DEF PinSeq
<1>2. /\ RemoveAt(q, i) \in Seq(Pin) /\ Len(RemoveAt(q, i)) = Len(q) - 1
      /\ \A j \in 1 .. Len(q) - 1 : RemoveAt(q, i)[j] = IF j < i THEN q[j] ELSE q[j + 1]
  BY ONLY <1>1, i \in 1 .. Len(q), RemoveAtIs
<1>3. QED
  BY <1>2 DEF PinSeq

\* Where the binary search ends: an epoch's own pin, or where it would be.
LEMMA BeforeIs ==
  ASSUME pins \in PinSeq, NEW e \in Nat, NEW f, PinsMatch(pins, f)
  PROVE  /\ Before(e) \in 0 .. Len(pins)
         /\ \A i \in 1 .. Len(pins) : i <= Before(e) <=> pins[i].epoch < e
<1> DEFINE n == Len(pins)
           S == {i \in 1 .. n : pins[i].epoch < e}
<1>1. DOMAIN pins = 1 .. n /\ n \in Nat
  BY LenProperties DEF PinSeq
<1>2. \A i \in 1 .. n : pins[i].epoch \in Nat
  BY PinsTyped
<1>3. \A i, j \in 1 .. n : i < j => pins[i].epoch < pins[j].epoch
  BY DEF PinsMatch
<1>4. Before(e) = Cardinality(S)
  BY <1>1 DEF Before
<1> HIDE DEF n
<1>5. \A j \in S : 1 .. j \subseteq S
  BY <1>1, <1>2, <1>3, SMTT(30)
<1>6. Cardinality(S) \in 0 .. n /\ S = 1 .. Cardinality(S)
  BY <1>1, <1>5, InitialSegment
<1>7. \A i \in 1 .. n : i <= Cardinality(S) <=> i \in S
  BY <1>1, <1>6, SMT
<1>8. QED
  BY <1>4, <1>6, <1>7 DEF n

\* The pin of an epoch is where the search ends, and the only one of it.
LEMMA PinnedAt ==
  ASSUME pins \in PinSeq, NEW e \in Nat, NEW f, PinsMatch(pins, f), IsPinned(e)
  PROVE  /\ Before(e) + 1 \in 1 .. Len(pins) /\ pins[Before(e) + 1].epoch = e
         /\ \A i \in 1 .. Len(pins) : i # Before(e) + 1 => pins[i].epoch # e
<1> DEFINE n == Len(pins)
           k == Before(e)
<1>1. n \in Nat /\ \A i \in 1 .. n : pins[i].epoch \in Nat
  BY PinsTyped
<1>2. \A i, j \in 1 .. n : i < j => pins[i].epoch < pins[j].epoch
  BY DEF PinsMatch
<1>3. k \in 0 .. n /\ \A i \in 1 .. n : i <= k <=> pins[i].epoch < e
  BY BeforeIs
<1>4. PICK m \in 1 .. n : pins[m].epoch = e
  BY LenProperties DEF IsPinned, PinSeq
<1> HIDE DEF n, k
<1>5. \A i \in 1 .. n : i # m => pins[i].epoch # e
  BY <1>1, <1>2, <1>4, SMT
<1>6. m > k
  BY <1>1, <1>3, <1>4, SMT
<1>7. ~(m > k + 1)
  <2>1. SUFFICES ASSUME m > k + 1 PROVE FALSE
    OBVIOUS
  <2>2. k + 1 \in 1 .. n /\ ~(k + 1 <= k)
    BY <1>1, <1>3, <2>1, SMT
  <2>3. pins[k + 1].epoch < pins[m].epoch
    BY <1>2, <2>1, <2>2
  <2>4. QED
    BY <1>3, <1>4, <2>2, <2>3
<1>8. m = k + 1
  BY <1>1, <1>3, <1>6, <1>7, SMT
<1>9. QED
  BY <1>4, <1>5, <1>8 DEF n, k

\* Counting one epoch anew, in its entry.
LEMMA RecountMatches ==
  ASSUME NEW q \in PinSeq, NEW f \in Counts, PinsMatch(q, f), NEW c \in Nat \ {0},
         NEW i \in 1 .. Len(q), NEW e \in Nat, q[i].epoch = e
  PROVE  PinsMatch(Recount(q, i, c), [f EXCEPT ![e] = c])
<1> DEFINE n == Len(q)
           t == Recount(q, i, c)
           g == [f EXCEPT ![e] = c]
<1>1. n \in Nat /\ i \in 1 .. n /\ \A j \in 1 .. n : q[j].epoch \in Nat
  BY PinsTyped
<1>2. /\ Len(t) = n /\ \A j \in 1 .. n : t[j].epoch = q[j].epoch
      /\ \A j \in 1 .. n : j # i => t[j].readers = q[j].readers
      /\ t[i].readers = c
  BY RecountIs, SMT
<1>3. /\ \A j, k \in 1 .. n : j < k => q[j].epoch < q[k].epoch
      /\ \A j \in 1 .. n : q[j].readers = f[q[j].epoch]
      /\ \A x \in Nat : f[x] # 0 <=> \E j \in 1 .. n : q[j].epoch = x
  BY DEF PinsMatch
<1>4. g[e] = c /\ \A x \in Nat : x # e => g[x] = f[x]
  BY DEF Counts
<1> HIDE DEF n, t, g
<1>5. ASSUME NEW j \in 1 .. n, j # i PROVE q[j].epoch # e
  <2>1. j < i \/ i < j
    BY <1>1, <1>5, SMT
  <2>2. q[j].epoch < e \/ e < q[j].epoch
    BY <1>1, <1>3, <2>1
  <2>3. q[j].epoch \in Nat
    BY <1>1
  <2>4. QED
    BY <2>2, <2>3, Apart
<1>6. \A j, k \in 1 .. n : j < k => t[j].epoch < t[k].epoch
  BY <1>2, <1>3, SMT
<1>7. ASSUME NEW j \in 1 .. n PROVE t[j].readers = g[t[j].epoch]
  <2>1. CASE j = i
    BY <1>1, <1>2, <1>4, <2>1
  <2>2. CASE j # i
    <3>1. q[j].epoch # e /\ q[j].epoch \in Nat
      BY <1>1, <1>5, <2>2
    <3>2. g[q[j].epoch] = f[q[j].epoch]
      BY <1>4, <3>1
    <3>3. QED
      BY <1>2, <1>3, <2>2, <3>2
  <2>3. QED
    BY <2>1, <2>2
<1>8. ASSUME NEW x \in Nat PROVE g[x] # 0 <=> \E j \in 1 .. n : t[j].epoch = x
  <2>1. CASE x = e
    <3>1. g[x] # 0
      BY <1>4, <2>1
    <3>2. t[i].epoch = x
      BY <1>1, <1>2, <2>1
    <3>3. QED
      BY <1>1, <3>1, <3>2
  <2>2. CASE x # e
    <3>1. g[x] = f[x]
      BY <1>4, <2>2
    <3>2. (\E j \in 1 .. n : t[j].epoch = x) <=> \E j \in 1 .. n : q[j].epoch = x
      BY <1>2
    <3>3. QED
      BY <1>3, <3>1, <3>2
  <2>3. QED
    BY <2>1, <2>2
<1>9. PinsMatch(t, g)
  BY <1>2, <1>6, <1>7, <1>8 DEF PinsMatch
<1>10. QED
  BY <1>9 DEF t, g

\* An epoch nobody read gets an entry where the search ends.
LEMMA InsertMatches ==
  ASSUME pins \in PinSeq, NEW f \in Counts, PinsMatch(pins, f), NEW e \in Nat,
         ~IsPinned(e), NEW p \in Pin, p.epoch = e, p.readers = 1
  PROVE  /\ InsertAt(pins, Before(e) + 1, p) \in PinSeq
         /\ f[e] = 0 /\ PinsMatch(InsertAt(pins, Before(e) + 1, p), [f EXCEPT ![e] = 1])
<1> DEFINE n == Len(pins)
           k == Before(e)
           q == InsertAt(pins, k + 1, p)
           g == [f EXCEPT ![e] = 1]
<1>1. n \in Nat /\ \A i \in 1 .. n : pins[i].epoch \in Nat
  BY PinsTyped
<1>2. k \in 0 .. n /\ \A i \in 1 .. n : i <= k <=> pins[i].epoch < e
  BY BeforeIs
<1>3. /\ \A i, j \in 1 .. n : i < j => pins[i].epoch < pins[j].epoch
      /\ \A i \in 1 .. n : pins[i].readers = f[pins[i].epoch]
      /\ \A x \in Nat : f[x] # 0 <=> \E i \in 1 .. n : pins[i].epoch = x
  BY DEF PinsMatch
<1>4. \A i \in 1 .. n : pins[i].epoch # e
  BY LenProperties DEF IsPinned, PinSeq
<1> HIDE DEF k
<1>5. k + 1 \in 1 .. Len(pins) + 1
  BY <1>1, <1>2, SMT
<1> DEFINE m == k + 1
<1> HIDE DEF m
<1>6. /\ InsertAt(pins, m, p) \in PinSeq /\ Len(InsertAt(pins, m, p)) = n + 1
      /\ \A j \in 1 .. n + 1 : InsertAt(pins, m, p)[j] =
            IF j < m THEN pins[j] ELSE IF j = m THEN p ELSE pins[j - 1]
  <2>1. m \in 1 .. Len(pins) + 1
    BY <1>5 DEF m
  <2>2. QED
    BY <2>1, InsertPin, SMT
<1>7. /\ q \in PinSeq /\ Len(q) = n + 1
      /\ \A j \in 1 .. n + 1 : q[j] = IF j < k + 1 THEN pins[j] ELSE IF j = k + 1 THEN p ELSE pins[j - 1]
  BY <1>6 DEF m
<1>8. g[e] = 1 /\ \A x \in Nat : x # e => g[x] = f[x]
  BY DEF Counts
<1> HIDE DEF n, q, g
<1>9. f[e] = 0
  BY <1>3, <1>4
<1>10. ASSUME NEW j \in 1 .. k PROVE q[j] = pins[j] /\ j \in 1 .. n
  <2>1. j \in 1 .. n + 1 /\ j < k + 1 /\ j \in 1 .. n
    BY <1>1, <1>2, SMT
  <2>2. QED
    BY <1>7, <2>1
<1>11. ASSUME NEW j \in k + 2 .. n + 1 PROVE q[j] = pins[j - 1] /\ j - 1 \in 1 .. n /\ k < j - 1
  <2>1. j \in 1 .. n + 1 /\ ~(j < k + 1) /\ j # k + 1 /\ j - 1 \in 1 .. n /\ k < j - 1
    BY <1>1, <1>2, SMT
  <2>2. QED
    BY <1>7, <2>1
<1>12. q[k + 1] = p /\ k + 1 \in 1 .. n + 1
  <2>1. k + 1 \in 1 .. n + 1 /\ ~(k + 1 < k + 1)
    BY <1>1, <1>2, SMT
  <2>2. QED
    BY <1>7, <2>1
<1>13. \A j \in 1 .. n + 1 : j \in 1 .. k \/ j = k + 1 \/ j \in k + 2 .. n + 1
  BY <1>1, <1>2, SMT
<1>14. ASSUME NEW i \in 1 .. n, k < i PROVE e < pins[i].epoch
  <2>1. ~(i <= k)
    BY <1>1, <1>2, <1>14, SMT
  <2>2. ~(pins[i].epoch < e) /\ pins[i].epoch # e /\ pins[i].epoch \in Nat
    BY <1>1, <1>2, <1>4, <2>1
  <2>3. QED
    BY <2>2, Above
<1>15. ASSUME NEW i \in 1 .. n + 1, NEW j \in 1 .. n + 1, i < j PROVE q[i].epoch < q[j].epoch
  <2>1. CASE j \in 1 .. k
    <3>1. i \in 1 .. k
      BY <1>1, <1>2, <1>15, <2>1, SMT
    <3>2. QED
      BY <1>3, <1>10, <1>15, <2>1, <3>1
  <2>2. CASE j = k + 1
    <3>1. i \in 1 .. k /\ i <= k
      BY <1>1, <1>2, <1>15, <2>2, SMTT(30)
    <3>2. QED
      BY <1>2, <1>10, <1>12, <2>2, <3>1
  <2>3. CASE j \in k + 2 .. n + 1 /\ i \in 1 .. k
    <3>1. i < j - 1
      BY <1>1, <1>2, <2>3, SMT
    <3>2. QED
      BY <1>3, <1>10, <1>11, <2>3, <3>1, SMTT(30)
  <2>4. CASE j \in k + 2 .. n + 1 /\ i = k + 1
    BY <1>11, <1>12, <1>14, <2>4
  <2>5. CASE j \in k + 2 .. n + 1 /\ i \in k + 2 .. n + 1
    <3>1. i - 1 < j - 1
      BY <1>1, <1>2, <1>15, <2>5, SMT
    <3>2. QED
      BY <1>3, <1>11, <2>5, <3>1, SMT
  <2>6. QED
    BY <1>13, <2>1, <2>2, <2>3, <2>4, <2>5
<1>16. ASSUME NEW i \in 1 .. n PROVE \E j \in 1 .. n + 1 : q[j] = pins[i]
  <2>1. CASE i <= k
    <3>1. i \in 1 .. k /\ i \in 1 .. n + 1
      BY <1>1, <1>2, <2>1, SMT
    <3>2. QED
      BY <1>10, <3>1
  <2>2. CASE ~(i <= k)
    <3>1. i + 1 \in k + 2 .. n + 1 /\ (i + 1) - 1 = i /\ i + 1 \in 1 .. n + 1
      BY <1>1, <1>2, <2>2, SMT
    <3>2. QED
      BY <1>11, <3>1
  <2>3. QED
    BY <2>1, <2>2
<1>17. ASSUME NEW j \in 1 .. n + 1, j # k + 1 PROVE \E i \in 1 .. n : q[j] = pins[i]
  BY <1>10, <1>11, <1>13, <1>17
<1>18. ASSUME NEW j \in 1 .. n + 1 PROVE q[j].readers = g[q[j].epoch]
  <2>1. CASE j = k + 1
    BY <1>8, <1>12, <2>1
  <2>2. CASE j # k + 1
    <3>1. PICK i \in 1 .. n : q[j] = pins[i]
      BY <1>17, <2>2
    <3>2. pins[i].epoch \in Nat /\ pins[i].epoch # e /\ pins[i].readers = f[pins[i].epoch]
      BY <1>1, <1>3, <1>4
    <3>3. QED
      BY <1>8, <3>1, <3>2
  <2>3. QED
    BY <2>1, <2>2
<1>19. ASSUME NEW x \in Nat PROVE g[x] # 0 <=> \E j \in 1 .. n + 1 : q[j].epoch = x
  <2>1. CASE x = e
    <3>1. q[k + 1].epoch = x
      BY <1>12, <2>1
    <3>2. g[x] # 0
      BY <1>8, <2>1, SMT
    <3>3. QED
      BY <1>12, <3>1, <3>2
  <2>2. CASE x # e
    <3>1. g[x] = f[x]
      BY <1>8, <2>2
    <3>2. ASSUME NEW j \in 1 .. n + 1, q[j].epoch = x PROVE \E i \in 1 .. n : pins[i].epoch = x
      <4>1. j # k + 1
        BY <1>12, <2>2, <3>2
      <4>2. QED
        BY <1>17, <3>2, <4>1
    <3>3. ASSUME NEW i \in 1 .. n, pins[i].epoch = x PROVE \E j \in 1 .. n + 1 : q[j].epoch = x
      BY <1>16, <3>3
    <3>4. QED
      BY <1>3, <3>1, <3>2, <3>3
  <2>3. QED
    BY <2>1, <2>2
<1>20. PinsMatch(q, g)
  BY <1>7, <1>15, <1>18, <1>19 DEF PinsMatch
<1>21. QED
  BY <1>7, <1>9, <1>20 DEF q, g, k

\* hold_at counts one reader more of its epoch.
LEMMA HoldAtMatches ==
  ASSUME pins \in PinSeq, NEW f \in Counts, PinsMatch(pins, f), NEW e \in Nat
  PROVE  HoldAt(e) \in PinSeq /\ PinsMatch(HoldAt(e), [f EXCEPT ![e] = @ + 1])
<1> DEFINE k == Before(e)
<1>1. CASE IsPinned(e)
  <2>1. PICK i \in 1 .. Len(pins) : i = k + 1 /\ pins[i].epoch = e
    BY <1>1, PinnedAt
  <2> DEFINE c == f[e] + 1
  <2>2. c \in Nat \ {0} /\ c \in Nat
    BY OneMore DEF Counts
  <2>3. pins[i].readers = f[e]
    BY <2>1 DEF PinsMatch
  <2>4. HoldAt(e) = Recount(pins, i, c)
    BY <1>1, <2>1, <2>3 DEF HoldAt, Recount
  <2> HIDE DEF k, c
  <2>5. HoldAt(e) \in PinSeq
    BY <2>1, <2>2, <2>4, RecountIs, SMT
  <2>6. PinsMatch(HoldAt(e), [f EXCEPT ![e] = c])
    BY <2>1, <2>2, <2>4, RecountMatches, SMT
  <2>7. QED
    BY <2>5, <2>6 DEF c
<1>2. CASE ~IsPinned(e)
  <2> DEFINE p == [epoch |-> e, readers |-> 1]
  <2>1. p \in Pin /\ p.epoch = e /\ p.readers = 1
    BY DEF Pin
  <2>2. HoldAt(e) = InsertAt(pins, k + 1, p)
    BY <1>2 DEF HoldAt
  <2> HIDE DEF p
  <2>3. /\ InsertAt(pins, k + 1, p) \in PinSeq /\ f[e] = 0
        /\ PinsMatch(InsertAt(pins, k + 1, p), [f EXCEPT ![e] = 1])
    BY <1>2, <2>1, InsertMatches
  <2>4. [f EXCEPT ![e] = @ + 1] = [f EXCEPT ![e] = 1]
    BY <2>3, SMT DEF Counts
  <2>5. QED
    BY <2>2, <2>3, <2>4
<1>3. QED
  BY <1>1, <1>2

\* An entry taken out leaves the others as they are.
LEMMA RemoveMatches ==
  ASSUME NEW q \in PinSeq, NEW f \in Counts, PinsMatch(q, f),
         NEW m \in 1 .. Len(q), NEW e \in Nat, q[m].epoch = e
  PROVE  PinsMatch(RemoveAt(q, m), [f EXCEPT ![e] = 0])
<1> DEFINE n == Len(q)
           t == RemoveAt(q, m)
           g == [f EXCEPT ![e] = 0]
<1>1. n \in Nat /\ m \in 1 .. n /\ \A i \in 1 .. n : q[i].epoch \in Nat
  BY PinsTyped
<1>2. Len(t) = n - 1 /\ \A j \in 1 .. n - 1 : t[j] = IF j < m THEN q[j] ELSE q[j + 1]
  BY RemovePin
<1>3. /\ \A i, j \in 1 .. n : i < j => q[i].epoch < q[j].epoch
      /\ \A i \in 1 .. n : q[i].readers = f[q[i].epoch]
      /\ \A x \in Nat : f[x] # 0 <=> \E i \in 1 .. n : q[i].epoch = x
  BY DEF PinsMatch
<1>4. g[e] = 0 /\ \A x \in Nat : x # e => g[x] = f[x]
  BY DEF Counts
<1> HIDE DEF n, t, g
<1>5. ASSUME NEW i \in 1 .. n, i # m PROVE q[i].epoch # e
  <2>1. i < m \/ m < i
    BY <1>1, <1>5, SMT
  <2>2. q[i].epoch < e \/ e < q[i].epoch
    BY <1>1, <1>3, <2>1
  <2>3. q[i].epoch \in Nat
    BY <1>1
  <2>4. QED
    BY <2>2, <2>3, Apart
<1>6. ASSUME NEW j \in 1 .. n - 1
      PROVE  \E i \in 1 .. n : /\ i # m /\ t[j] = q[i]
                               /\ i = IF j < m THEN j ELSE j + 1
  <2>1. CASE j < m
    <3>1. j \in 1 .. n /\ j # m
      BY <1>1, <2>1, SMT
    <3>2. QED
      BY <1>2, <2>1, <3>1
  <2>2. CASE ~(j < m)
    <3>1. j + 1 \in 1 .. n /\ j + 1 # m
      BY <1>1, <2>2, SMT
    <3>2. QED
      BY <1>2, <2>2, <3>1
  <2>3. QED
    BY <2>1, <2>2
<1>7. ASSUME NEW i \in 1 .. n, i # m PROVE \E j \in 1 .. n - 1 : t[j] = q[i]
  <2>1. CASE i < m
    <3>1. i \in 1 .. n - 1
      BY <1>1, <2>1, SMT
    <3>2. QED
      BY <1>2, <2>1, <3>1
  <2>2. CASE ~(i < m)
    <3>1. i - 1 \in 1 .. n - 1 /\ ~(i - 1 < m) /\ (i - 1) + 1 = i
      BY <1>1, <1>7, <2>2, SMT
    <3>2. QED
      BY <1>2, <3>1
  <2>3. QED
    BY <2>1, <2>2
<1>8. ASSUME NEW i \in 1 .. n - 1, NEW j \in 1 .. n - 1, i < j PROVE t[i].epoch < t[j].epoch
  <2>1. PICK x \in 1 .. n : t[i] = q[x] /\ x = IF i < m THEN i ELSE i + 1
    BY <1>6
  <2>2. PICK y \in 1 .. n : t[j] = q[y] /\ y = IF j < m THEN j ELSE j + 1
    BY <1>6
  <2>3. x < y
    BY <1>1, <1>8, <2>1, <2>2, SMTT(30)
  <2>4. QED
    BY <1>3, <2>1, <2>2, <2>3, SMT
<1>9. ASSUME NEW j \in 1 .. n - 1 PROVE t[j].readers = g[t[j].epoch]
  <2>1. PICK i \in 1 .. n : i # m /\ t[j] = q[i]
    BY <1>6
  <2>2. q[i].epoch # e /\ q[i].epoch \in Nat
    BY <1>1, <1>5, <2>1
  <2>3. QED
    BY <1>3, <1>4, <2>1, <2>2, SMTT(30)
<1>10. ASSUME NEW x \in Nat PROVE g[x] # 0 <=> \E j \in 1 .. n - 1 : t[j].epoch = x
  <2>1. CASE x = e
    BY <1>4, <1>5, <1>6, <2>1, SMTT(30)
  <2>2. CASE x # e
    <3>1. g[x] = f[x]
      BY <1>4, <2>2
    <3>2. ASSUME NEW j \in 1 .. n - 1, t[j].epoch = x PROVE \E i \in 1 .. n : q[i].epoch = x
      BY <1>6, <3>2
    <3>3. ASSUME NEW i \in 1 .. n, q[i].epoch = x PROVE \E j \in 1 .. n - 1 : t[j].epoch = x
      <4>1. i # m
        BY <2>2, <3>3
      <4>2. QED
        BY <1>7, <3>3, <4>1
    <3>4. QED
      BY <1>3, <3>1, <3>2, <3>3
  <2>3. QED
    BY <2>1, <2>2
<1>11. PinsMatch(t, g)
  BY <1>2, <1>8, <1>9, <1>10 DEF PinsMatch
<1>12. QED
  BY <1>11 DEF t, g

\* release counts one reader less, and drops an epoch without readers.
LEMMA ReleasedMatches ==
  ASSUME pins \in PinSeq, NEW f \in Counts, PinsMatch(pins, f), NEW e \in Nat, f[e] # 0
  PROVE  Released(e) \in PinSeq /\ PinsMatch(Released(e), [f EXCEPT ![e] = @ - 1])
<1> DEFINE c == f[e] - 1
<1>1. IsPinned(e)
  <2>1. \E i \in 1 .. Len(pins) : pins[i].epoch = e
    BY DEF PinsMatch
  <2>2. QED
    BY <2>1, LenProperties DEF IsPinned, PinSeq
<1>2. PICK i \in 1 .. Len(pins) : i = Before(e) + 1 /\ pins[i].epoch = e
  BY <1>1, PinnedAt
<1>3. pins[i].readers = f[e]
  BY <1>2 DEF PinsMatch
<1>4. c \in Nat /\ (c = 0 <=> f[e] = 1)
  BY OneLess DEF Counts
<1>5. CASE f[e] = 1
  <2>1. Released(e) = RemoveAt(pins, i)
    BY <1>1, <1>2, <1>3, <1>5 DEF Released
  <2>2. c = 0
    BY <1>4, <1>5
  <2> HIDE DEF c
  <2>3. Released(e) \in PinSeq
    BY <2>1, RemovePin
  <2>4. PinsMatch(Released(e), [f EXCEPT ![e] = c])
    BY <1>2, <2>1, <2>2, RemoveMatches
  <2>5. QED
    BY <2>3, <2>4 DEF c
<1>6. CASE f[e] # 1
  <2>1. Released(e) = Recount(pins, i, c)
    BY <1>1, <1>2, <1>3, <1>6 DEF Released, Recount
  <2>2. c \in Nat \ {0}
    BY <1>4, <1>6
  <2> HIDE DEF c
  <2>3. Recount(pins, i, c) \in PinSeq
    BY <1>4, RecountIs
  <2>4. PinsMatch(Recount(pins, i, c), [f EXCEPT ![e] = c])
    BY <1>2, <2>2, RecountMatches
  <2>5. PinsMatch(Released(e), [f EXCEPT ![e] = c])
    BY <2>1, <2>4
  <2>6. QED
    BY <2>1, <2>3, <2>5 DEF c
<1>7. QED
  BY <1>5, <1>6

\* An entry added past the others.
LEMMA AppendMatches ==
  ASSUME NEW q \in PinSeq, NEW f \in Counts, PinsMatch(q, f), NEW e \in Nat,
         \A i \in 1 .. Len(q) : q[i].epoch < e, NEW p \in Pin, p.epoch = e, p.readers = 1
  PROVE  f[e] = 0 /\ PinsMatch(Append(q, p), [f EXCEPT ![e] = 1])
<1> DEFINE n == Len(q)
           t == Append(q, p)
           g == [f EXCEPT ![e] = 1]
<1>1. n \in Nat /\ \A i \in 1 .. n : q[i].epoch \in Nat
  BY PinsTyped
<1>2. Len(t) = n + 1 /\ t[n + 1] = p /\ \A j \in 1 .. n : t[j] = q[j]
  BY AppendPin
<1>3. /\ \A i, j \in 1 .. n : i < j => q[i].epoch < q[j].epoch
      /\ \A i \in 1 .. n : q[i].readers = f[q[i].epoch]
      /\ \A x \in Nat : f[x] # 0 <=> \E i \in 1 .. n : q[i].epoch = x
  BY DEF PinsMatch
<1>4. g[e] = 1 /\ \A x \in Nat : x # e => g[x] = f[x]
  BY DEF Counts
<1>5. \A i \in 1 .. n : q[i].epoch < e
  OBVIOUS
<1> HIDE DEF n, t, g
<1>6. \A i \in 1 .. n : q[i].epoch # e
  BY <1>1, <1>5, Apart
<1>7. f[e] = 0
  BY <1>3, <1>6
<1>8. /\ n + 1 \in 1 .. n + 1 /\ \A i \in 1 .. n : i \in 1 .. n + 1
      /\ \A j \in 1 .. n + 1 : j \in 1 .. n \/ j = n + 1
  BY <1>1, SMT
<1>9. ASSUME NEW i \in 1 .. n + 1, NEW j \in 1 .. n + 1, i < j PROVE t[i].epoch < t[j].epoch
  <2>1. i \in 1 .. n
    BY <1>1, <1>9, SMT
  <2>2. CASE j \in 1 .. n
    BY <1>2, <1>3, <1>9, <2>1, <2>2
  <2>3. CASE j = n + 1
    BY <1>2, <1>5, <2>1, <2>3
  <2>4. QED
    BY <1>8, <2>2, <2>3
<1>10. ASSUME NEW j \in 1 .. n + 1 PROVE t[j].readers = g[t[j].epoch]
  <2>1. CASE j \in 1 .. n
    <3>1. q[j].epoch \in Nat /\ q[j].epoch # e
      BY <1>1, <1>6, <2>1
    <3>2. QED
      BY <1>2, <1>3, <1>4, <2>1, <3>1, SMTT(30)
  <2>2. CASE j = n + 1
    BY <1>2, <1>4, <2>2
  <2>3. QED
    BY <1>8, <2>1, <2>2
<1>11. ASSUME NEW x \in Nat PROVE g[x] # 0 <=> \E j \in 1 .. n + 1 : t[j].epoch = x
  <2>1. CASE x = e
    BY <1>2, <1>4, <1>8, <2>1, SMT
  <2>2. CASE x # e
    <3>1. g[x] = f[x]
      BY <1>4, <2>2
    <3>2. ASSUME NEW j \in 1 .. n + 1, t[j].epoch = x PROVE \E i \in 1 .. n : q[i].epoch = x
      BY <1>2, <1>8, <2>2, <3>2
    <3>3. ASSUME NEW i \in 1 .. n, q[i].epoch = x PROVE \E j \in 1 .. n + 1 : t[j].epoch = x
      BY <1>2, <1>8, <3>3
    <3>4. QED
      BY <1>3, <3>1, <3>2, <3>3
  <2>3. QED
    BY <2>1, <2>2
<1>12. PinsMatch(t, g)
  BY <1>2, <1>9, <1>10, <1>11 DEF PinsMatch
<1>13. QED
  BY <1>7, <1>12 DEF t, g

\* hold_published does the same at the back: no pin is past the published epoch.
LEMMA HoldPublishedMatches ==
  ASSUME pins \in PinSeq, NEW f \in Counts, PinsMatch(pins, f), published \in Nat,
         \A e \in Nat : f[e] # 0 => e <= published
  PROVE  /\ HoldPublished \in PinSeq
         /\ PinsMatch(HoldPublished, [f EXCEPT ![published] = @ + 1])
<1> DEFINE n == Len(pins)
           e == published
           c == f[e] + 1
<1>1. n \in Nat /\ \A i \in 1 .. n : pins[i].epoch \in Nat
  BY PinsTyped
<1>2. \A i \in 1 .. n : pins[i].epoch <= e
  <2>1. \A x \in Nat : f[x] # 0 <=> \E i \in 1 .. n : pins[i].epoch = x
    BY DEF PinsMatch
  <2>2. QED
    BY <1>1, <2>1
<1>3. CASE n > 0 /\ pins[n].epoch = e
  <2>1. n \in 1 .. n
    BY <1>1, <1>3, SMT
  <2>2. pins[n].readers = f[e]
    BY <1>3, <2>1 DEF PinsMatch
  <2>3. c \in Nat \ {0} /\ c \in Nat
    BY OneMore DEF Counts
  <2>4. HoldPublished = Recount(pins, n, c)
    BY <1>3, <2>2 DEF HoldPublished, Recount
  <2> HIDE DEF c
  <2>5. HoldPublished \in PinSeq
    BY <2>1, <2>3, <2>4, RecountIs
  <2>6. PinsMatch(HoldPublished, [f EXCEPT ![e] = c])
    BY <1>3, <2>1, <2>3, <2>4, RecountMatches
  <2>7. QED
    BY <2>5, <2>6 DEF c
<1>4. CASE ~(n > 0 /\ pins[n].epoch = e)
  <2> DEFINE p == [epoch |-> e, readers |-> 1]
  <2>1. p \in Pin /\ p.epoch = e /\ p.readers = 1
    BY DEF Pin
  <2>2. HoldPublished = Append(pins, p)
    BY <1>4 DEF HoldPublished
  <2> HIDE DEF p
  <2>3. ASSUME NEW i \in 1 .. n PROVE pins[i].epoch < e
    <3>1. n \in 1 .. n /\ n > 0
      BY <1>1, SMT
    <3>2. pins[n].epoch <= e /\ pins[n].epoch # e /\ pins[n].epoch \in Nat /\ pins[i].epoch \in Nat
      BY <1>1, <1>2, <1>4, <3>1
    <3>3. i = n \/ i < n
      BY <1>1, SMT
    <3>4. i = n \/ pins[i].epoch < pins[n].epoch
      BY <3>1, <3>3 DEF PinsMatch
    <3>5. QED
      BY <3>2, <3>4, SMT
  <2>4. HoldPublished \in PinSeq
    BY <2>1, <2>2, AppendPin
  <2>5. f[e] = 0 /\ PinsMatch(HoldPublished, [f EXCEPT ![e] = 1])
    BY <2>1, <2>2, <2>3, AppendMatches
  <2>6. [f EXCEPT ![e] = @ + 1] = [f EXCEPT ![e] = 1]
    BY <2>5, SMT DEF Counts
  <2>7. QED
    BY <2>4, <2>5, <2>6
<1>5. QED
  BY <1>3, <1>4

\* The counts are numbers, of an epoch that is read not 0.
LEMMA ReadersCount ==
  /\ Readers \in Counts
  /\ \A e \in Nat : Readers[e] # 0 <=> \E r \in Reader : reads[r] = {e}
<1> SUFFICES ASSUME NEW e \in Nat
    PROVE  /\ Cardinality({r \in Reader : reads[r] = {e}}) \in Nat
           /\ Cardinality({r \in Reader : reads[r] = {e}}) # 0 <=> \E r \in Reader : reads[r] = {e}
  BY DEF Readers, Counts
<1> DEFINE at == {r \in Reader : reads[r] = {e}}
<1>1. IsFiniteSet(at)
  BY ReaderAssumption, FS_Subset
<1>2. at # {} <=> \E r \in Reader : reads[r] = {e}
  OBVIOUS
<1> HIDE DEF at
<1>3. Cardinality(at) \in Nat
  BY <1>1, FS_CardinalityType
<1>4. Cardinality(at) # 0 <=> at # {}
  BY <1>1, FS_EmptySet
<1>5. QED
  BY <1>2, <1>3, <1>4 DEF at

\* A reader that begins to read is counted.
LEMMA ReaderBegins ==
  ASSUME reads \in [Reader -> SUBSET Nat], NEW r \in Reader, NEW e \in Nat, reads[r] = {},
         reads' = [reads EXCEPT ![r] = {e}]
  PROVE  Readers' = [Readers EXCEPT ![e] = @ + 1]
<1> DEFINE R(x) == {s \in Reader : reads[s] = {x}}
<1>1. \A x \in Nat : {s \in Reader : reads'[s] = {x}} = IF x = e THEN R(x) \cup {r} ELSE R(x)
  OBVIOUS
<1>2. \A x : IsFiniteSet(R(x)) /\ r \notin R(x)
  BY ReaderAssumption, FS_Subset
<1>3. Cardinality(R(e) \cup {r}) = Cardinality(R(e)) + 1
  BY <1>2, FS_AddElement
<1>4. Readers' = [x \in Nat |-> Cardinality(IF x = e THEN R(x) \cup {r} ELSE R(x))]
  BY <1>1 DEF Readers
<1>5. QED
  BY <1>3, <1>4 DEF Readers

\* A reader that ends is no longer counted.
LEMMA ReaderEnds ==
  ASSUME reads \in [Reader -> SUBSET Nat], NEW r \in Reader, NEW e \in Nat, reads[r] = {e},
         reads' = [reads EXCEPT ![r] = {}]
  PROVE  Readers' = [Readers EXCEPT ![e] = @ - 1]
<1> DEFINE R(x) == {s \in Reader : reads[s] = {x}}
<1>1. \A x \in Nat : {s \in Reader : reads'[s] = {x}} = IF x = e THEN R(x) \ {r} ELSE R(x)
  OBVIOUS
<1>2. \A x : IsFiniteSet(R(x))
  BY ReaderAssumption, FS_Subset
<1>3. Cardinality(R(e) \ {r}) = Cardinality(R(e)) - 1
  <2>1. r \in R(e) /\ IsFiniteSet(R(e))
    BY <1>2
  <2> HIDE DEF R
  <2>2. QED
    BY <2>1, FS_RemoveElement
<1>4. Readers' = [x \in Nat |-> Cardinality(IF x = e THEN R(x) \ {r} ELSE R(x))]
  BY <1>1 DEF Readers
<1>5. QED
  BY <1>3, <1>4 DEF Readers
=============================================================================
