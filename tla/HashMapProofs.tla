---------------------------- MODULE HashMapProofs ----------------------------
(***************************************************************************)
(* Proofs about HashMap for every set of keys and of values, every         *)
(* function from keys to hashes and maps of every capacity.                *)
(*                                                                         *)
(* IInv describes the lists without following them: entries hold one key   *)
(* that no other entry holds and link to entries of the same index, every  *)
(* set of entries has one whose link leads out of it (so that no links     *)
(* form a circle), and every set with a bucket that is closed under links  *)
(* has all entries of that index.  From these follow what the three loops  *)
(* over a list compute, by an argument on the smallest counterexample.     *)
(***************************************************************************)
EXTENDS HashMap, FiniteSetTheorems, Induction

(* what doubling makes of p *)
Doublings(p) ==
    {x \in Nat : \A S \in SUBSET Nat : p \in S /\ (\A y \in S : 2 * y \in S) => x \in S}

(* the capacities of maps *)
PowersOf2 == Doublings(1)

LEMMA DoublingsFacts ==
    ASSUME NEW p \in Nat
    PROVE  /\ Doublings(p) \subseteq Nat /\ p \in Doublings(p)
           /\ \A x \in Doublings(p) : 2 * x \in Doublings(p) /\ p <= x
           /\ Doublings(p) = {p} \cup Doublings(2 * p)
<1>1. Doublings(p) \subseteq Nat /\ p \in Doublings(p)
  BY DEF Doublings
<1>2. ASSUME NEW x \in Doublings(p)
      PROVE  2 * x \in Doublings(p)
  <2>1. x \in Nat /\ 2 * x \in Nat
    BY DEF Doublings
  <2>2. QED
    BY <2>1 DEF Doublings
<1>3. ASSUME NEW x \in Doublings(p)
      PROVE  p <= x
  <2> DEFINE S == {y \in Nat : p <= y}
  <2>1. S \in SUBSET Nat /\ p \in S /\ \A y \in S : 2 * y \in S
    OBVIOUS
  <2>2. x \in S
    BY <2>1 DEF Doublings
  <2>3. QED
    BY <2>2
<1>4. Doublings(2 * p) \subseteq Doublings(p)
  <2>1. 2 * p \in Doublings(p)
    BY <1>1, <1>2
  <2>2. QED
    BY <1>1, <1>2, <2>1 DEF Doublings
<1>5. Doublings(p) \subseteq {p} \cup Doublings(2 * p)
  <2> DEFINE S == {p} \cup Doublings(2 * p)
  <2>1. 2 * p \in Nat /\ 2 * p \in Doublings(2 * p) /\ Doublings(2 * p) \subseteq Nat
    BY DEF Doublings
  <2>2. \A y \in Doublings(2 * p) : 2 * y \in Doublings(2 * p)
    <3> SUFFICES ASSUME NEW y \in Doublings(2 * p)
                 PROVE  2 * y \in Doublings(2 * p)
      OBVIOUS
    <3>1. y \in Nat /\ 2 * y \in Nat
      BY <2>1
    <3>2. QED
      BY <2>1, <3>1 DEF Doublings
  <2>3. S \in SUBSET Nat /\ p \in S /\ \A y \in S : 2 * y \in S
    BY <2>1, <2>2
  <2>4. QED
    BY <2>3 DEF Doublings
<1>6. QED
  BY <1>1, <1>2, <1>3, <1>4, <1>5

(* the recursive function of CeilPower2 exists, and doubles *)
LEMMA CeilPower2Facts ==
    ASSUME NEW n \in Nat
    PROVE  CeilPower2(n) \in PowersOf2
<1> DEFINE Eq(f) == f = [p \in Nat |-> IF p < n THEN f[2 * p] ELSE p]
           least == CHOOSE f : Eq(f)
<1>1. \E f : Eq(f)
  <2> DEFINE big(p) == {x \in Doublings(p) : x >= n}
             f == [p \in Nat |-> Min(big(p))]
  <2>1. ASSUME NEW p \in Nat, p < n
        PROVE  Min(big(p)) = Min(big(2 * p))
    <3>1. Doublings(p) = {p} \cup Doublings(2 * p)
      BY DoublingsFacts
    <3>2. big(p) = big(2 * p)
      BY <2>1, <3>1
    <3>3. QED
      BY <3>2, Zenon
  <2>2. ASSUME NEW p \in Nat, ~ (p < n)
        PROVE  Min(big(p)) = p
    <3>1. big(p) = Doublings(p) /\ p \in big(p) /\ \A x \in big(p) : x \in Nat /\ p <= x
      BY <2>2, DoublingsFacts
    <3> HIDE DEF big
    <3>2. QED
      BY <3>1 DEF Min
  <2> HIDE DEF big
  <2>3. \A p \in Nat : f[p] = IF p < n THEN f[2 * p] ELSE p
    BY <2>1, <2>2
  <2>4. Eq(f)
    BY <2>3
  <2>5. QED
    BY <2>4
<1>2. Eq(least)
  BY <1>1, Zenon
<1>3. CeilPower2(n) = least[1]
  BY DEF CeilPower2
<1> HIDE DEF least
<1>4. \A p \in Nat : least[p] = IF p < n THEN least[2 * p] ELSE p
  BY <1>2
<1>5. \A p \in PowersOf2 : least[p] \in PowersOf2
  <2> DEFINE T == {m \in Nat : \E p \in PowersOf2 : p < n /\ m = n - p /\ least[p] \notin PowersOf2}
  <2>1. ASSUME T # {}
        PROVE  FALSE
    <3>1. PICK m \in T : \A y \in T : m <= y
      BY <2>1, LeastNat
    <3>2. PICK p \in PowersOf2 : p < n /\ m = n - p /\ least[p] \notin PowersOf2
      BY <3>1
    <3>3. p \in Nat /\ 1 <= p /\ 2 * p \in PowersOf2
      BY DoublingsFacts DEF PowersOf2
    <3>4. least[p] = least[2 * p]
      BY <1>4, <3>2, <3>3
    <3>5. 2 * p < n
      BY <1>4, <3>2, <3>3, <3>4
    <3>6. n - 2 * p \in T /\ n - 2 * p < m
      BY <3>2, <3>3, <3>4, <3>5
    <3>7. QED
      BY <3>1, <3>6
  <2>2. ASSUME NEW p \in PowersOf2
        PROVE  least[p] \in PowersOf2
    <3>1. p \in Nat
      BY DoublingsFacts DEF PowersOf2
    <3>2. CASE p < n
      <4>1. n - p \in Nat
        BY <3>1, <3>2
      <4>2. n - p \in T \/ least[p] \in PowersOf2
        BY <3>2, <4>1
      <4>3. QED
        BY <2>1, <4>2, Zenon
    <3>3. CASE ~ (p < n)
      BY <1>4, <3>1, <3>3
    <3>4. QED
      BY <3>2, <3>3
  <2>3. QED
    BY <2>2
<1>6. QED
  BY <1>3, <1>5, DoublingsFacts DEF PowersOf2

(* dividing an even number with an odd factor by two *)
LEMMA OddTimes ==
    ASSUME NEW s \in {5, 7, 9, 11}, NEW r \in Nat, NEW q \in Nat, r * s = 2 * q
    PROVE  \E h \in Nat : r = 2 * h
<1>1. CASE s = 5
  <2>1. r = 2 * (q - 2 * r) /\ q - 2 * r \in Nat
    BY <1>1
  <2>2. QED
    BY <2>1
<1>2. CASE s = 7
  <2>1. r = 2 * (q - 3 * r) /\ q - 3 * r \in Nat
    BY <1>2
  <2>2. QED
    BY <2>1
<1>3. CASE s = 9
  <2>1. r = 2 * (q - 4 * r) /\ q - 4 * r \in Nat
    BY <1>3
  <2>2. QED
    BY <2>1
<1>4. CASE s = 11
  <2>1. r = 2 * (q - 5 * r) /\ q - 5 * r \in Nat
    BY <1>4
  <2>2. QED
    BY <2>1
<1>5. QED
  BY <1>1, <1>2, <1>3, <1>4

(* a power of two that divides d * s divides d *)
LEMMA OddFactor ==
    ASSUME NEW s \in {5, 7, 9, 11}
    PROVE  \A c \in PowersOf2, d, q \in Nat : d * s = q * c => \E r \in Nat : d = r * c
<1> DEFINE G == {c \in Nat : \A d, q \in Nat : d * s = q * c => \E r \in Nat : d = r * c}
<1>1. 1 \in G
  OBVIOUS
<1>2. ASSUME NEW c \in G
      PROVE  2 * c \in G
  <2>1. c \in Nat /\ 2 * c \in Nat
    OBVIOUS
  <2>2. CASE c = 0
    BY <2>2
  <2>3. CASE c # 0
    <3> SUFFICES ASSUME NEW d \in Nat, NEW q \in Nat, d * s = q * (2 * c)
                 PROVE  \E r \in Nat : d = r * (2 * c)
      BY <2>1
    <3>1. d * s = (2 * q) * c /\ 2 * q \in Nat
      BY <2>1
    <3>2. PICK r \in Nat : d = r * c
      BY <3>1
    <3>3. (r * s) * c = (2 * q) * c
      BY <2>1, <3>1, <3>2
    <3>4. r * s = 2 * q
      BY <2>1, <2>3, <3>3
    <3>5. PICK h \in Nat : r = 2 * h
      <4>1. \A r1, q1 \in Nat : r1 * s = 2 * q1 => \E h \in Nat : r1 = 2 * h
        BY OddTimes
      <4>2. QED
        BY <3>4, <4>1, Zenon
    <3>6. d = h * (2 * c)
      BY <2>1, <3>2, <3>5
    <3>7. QED
      BY <3>6
  <2>4. QED
    BY <2>2, <2>3
<1>3. PowersOf2 \subseteq G
  BY <1>1, <1>2 DEF PowersOf2, Doublings
<1>4. QED
  BY <1>3

LEMMA DivMod ==
    ASSUME NEW a \in Nat, NEW c \in Nat \ {0}
    PROVE  a % c \in 0 .. c - 1 /\ \E q \in Nat : a = q * c + (a % c)
<1>1. a % c \in 0 .. c - 1
  OBVIOUS
<1>2. a \div c \in Nat /\ a = (a \div c) * c + (a % c)
  OBVIOUS
<1>3. QED
  BY <1>1, <1>2

(* odd steps visit all of a power of two *)
LEMMA OddStepsVisitAll ==
    ASSUME NEW c \in PowersOf2, NEW s \in {5, 7, 9, 11}, NEW pos \in Nat
    PROVE  \A x \in 0 .. c - 1 : \E i \in 0 .. c - 1 : (pos + i * s) % c = x
<1>1. c \in Nat \ {0}
  BY DoublingsFacts DEF PowersOf2
<1> DEFINE D == 0 .. c - 1
           f == [i \in D |-> (pos + i * s) % c]
<1>2. \A i \in D : pos + i * s \in Nat /\ (pos + i * s) % c \in D
  BY <1>1
<1>3. f \in [D -> D]
  BY <1>2
<1>4. ASSUME NEW i \in D, NEW j \in D, i < j, f[i] = f[j]
      PROVE  FALSE
  <2>1. PICK m \in Nat : m = (pos + i * s) % c /\ m = (pos + j * s) % c
    BY <1>2, <1>4
  <2>2. PICK p \in Nat : pos + i * s = p * c + m
    BY <1>1, <1>2, <2>1, DivMod
  <2>3. PICK q \in Nat : pos + j * s = q * c + m
    BY <1>1, <1>2, <2>1, DivMod
  <2>4. j - i \in Nat /\ j - i < c /\ j - i # 0
    BY <1>1, <1>4
  <2>5. (j - i) * s = (q - p) * c
    <3>1. j * s - i * s = q * c - p * c
      BY <1>1, <2>2, <2>3
    <3>2. QED
      BY <1>1, <3>1
  <2>6. q - p \in Nat
    <3>1. (j - i) * s > 0
      BY <2>4
    <3>2. QED
      BY <1>1, <2>5, <3>1
  <2>7. PICK r \in Nat : j - i = r * c
    <3>1. \A c1 \in PowersOf2, d, e \in Nat : d * s = e * c1 => \E r \in Nat : d = r * c1
      BY OddFactor
    <3> HIDE DEF D, f
    <3>2. QED
      BY <2>4, <2>5, <2>6, <3>1, Zenon
  <2>8. r # 0
    BY <1>1, <2>4, <2>7
  <2>9. r * c >= c
    BY <1>1, <2>8
  <2>10. QED
    BY <1>1, <2>4, <2>7, <2>9
<1>5. f \in Injection(D, D)
  <2>1. \A i, j \in D : i # j => i < j \/ j < i
    BY <1>1
  <2>2. \A i, j \in D : f[i] = f[j] => i = j
    BY <1>4, <2>1
  <2>3. QED
    BY <1>3, <2>2 DEF Injection, IsInjective
<1>6. IsFiniteSet(D)
  BY <1>1, FS_Interval
<1>7. f \in Surjection(D, D)
  BY <1>5, <1>6, FS_Injection
<1>8. QED
  BY <1>7 DEF Surjection

-----------------------------------------------------------------------------
(* The lists. *)

(* the entries with index b *)
Members(b) == {p \in Present : \A k \in vec[p].key : IndexOf(k) = b}

Closed(S) == \A p \in S : vec[p].next \in Positions => vec[p].next \in S

(* what the links lead to from p *)
Reach(p) == {q \in Positions : \A S \in SUBSET Positions : p \in S /\ Closed(S) => q \in S}

(* an entry has a key, its bucket is taken, a bucket holds a key with its  *)
(* index, and a link leads to an entry of the same index                   *)
EntriesInPlace ==
    \A p \in Present : \E k \in Keys :
        /\ vec[p].key = {k}
        /\ IndexOf(k) \in Present
        /\ p \in Buckets => IndexOf(k) = p
        /\ vec[p].next # NoNext => vec[p].next \in Members(IndexOf(k))

KeysOnce == \A p, q \in Present : vec[p].key = vec[q].key => p = q

(* no links form a circle *)
ListsEnd == \A S \in SUBSET Present : S # {} => \E p \in S : vec[p].next \notin S

(* links lead from a bucket to all entries of its index *)
AllReached ==
    \A b \in Buckets \cap Present, S \in SUBSET Positions :
        b \in S /\ Closed(S) => Members(b) \subseteq S

Counted == size = Cardinality(Present)

IInv ==
    /\ TypeOK
    /\ cap \in PowersOf2
    /\ EntriesInPlace
    /\ KeysOnce
    /\ ListsEnd
    /\ AllReached
    /\ Counted

(* the buckets and the entries that insert chooses *)
LEMMA StepIsOdd ==
    ASSUME NEW pos \in Nat
    PROVE  Step(pos) \in {5, 7, 9, 11}
<1>1. pos % 4 = 0 \/ pos % 4 = 1 \/ pos % 4 = 2 \/ pos % 4 = 3
  OBVIOUS
<1>2. QED
  BY <1>1 DEF Step

LEMMA IndexIsBucket ==
    ASSUME TypeOK, NEW k \in Keys
    PROVE  IndexOf(k) \in Buckets /\ IndexOf(k) \in Positions /\ IndexOf(k) \in Nat
<1>1. cap \in Nat \ {0} /\ hash[k] \in Nat
  BY HashAssumption DEF TypeOK
<1>2. PICK a \in Nat : a = hash[k]
  BY <1>1
<1>3. a % cap \in 0 .. cap - 1
  BY <1>1, DivMod
<1>4. QED
  BY <1>1, <1>2, <1>3 DEF IndexOf, Buckets, Positions

LEMMA PlaceFacts ==
    ASSUME TypeOK, cap \in PowersOf2, NEW k \in Keys
    PROVE  \/ Place(k) = IndexOf(k) /\ Empty(IndexOf(k))
           \/ /\ ~ Empty(IndexOf(k))
              /\ Place(k) \in Collisions /\ Empty(Place(k))
           \/ /\ ~ Empty(IndexOf(k))
              /\ Place(k) = NoEntry /\ Collisions \subseteq Present
<1>1. CASE Empty(IndexOf(k))
  BY <1>1 DEF Place
<1>2. CASE ~ Empty(IndexOf(k))
  <2> DEFINE pos == IndexOf(k)
             free == {i \in 0 .. cap - 1 : Empty(Probe(pos, i))}
  <2>1. pos \in Nat /\ cap \in Nat \ {0}
    BY IndexIsBucket DEF TypeOK
  <2>2. Step(pos) \in {5, 7, 9, 11}
    BY <2>1, StepIsOdd
  <2>3. ASSUME NEW i \in 0 .. cap - 1
        PROVE  Probe(pos, i) \in Collisions
    <3>1. PICK a \in Nat : a = pos + i * Step(pos)
      <4>1. i * Step(pos) \in Nat
        BY <2>1, <2>2
      <4>2. QED
        BY <2>1, <4>1
    <3>2. a % cap \in 0 .. cap - 1
      BY <2>1, DivMod
    <3>3. Probe(pos, i) = cap + (a % cap)
      BY <3>1 DEF Probe
    <3>4. QED
      BY <2>1, <3>2, <3>3 DEF Collisions
  <2>4. Place(k) = IF free = {} THEN NoEntry ELSE Probe(pos, Min(free))
    BY <1>2 DEF Place, PickCollision
  <2>5. CASE free = {}
    <3>1. \A x \in 0 .. cap - 1 : \E i \in 0 .. cap - 1 : (pos + i * Step(pos)) % cap = x
      <4>1. PICK c \in PowersOf2, s \in {5, 7, 9, 11} : c = cap /\ s = Step(pos)
        BY <2>1, <2>2
      <4>2. \A x \in 0 .. c - 1 : \E i \in 0 .. c - 1 : (pos + i * s) % c = x
        BY <2>1, OddStepsVisitAll, ZenonT(60)
      <4>3. QED
        BY <4>1, <4>2
    <3>2. ASSUME NEW q \in Collisions
          PROVE  q \in Present
      <4>1. q - cap \in 0 .. cap - 1 /\ q \in Positions
        BY <2>1 DEF Collisions, Positions
      <4>2. PICK i \in 0 .. cap - 1 : (pos + i * Step(pos)) % cap = q - cap
        BY <3>1, <4>1
      <4>3. Probe(pos, i) = q
        BY <2>1, <4>1, <4>2 DEF Probe, Collisions
      <4>4. ~ Empty(q)
        BY <2>5, <4>3
      <4>5. QED
        BY <4>1, <4>4 DEF Present
    <3>3. QED
      BY <1>2, <2>4, <2>5, <3>2
  <2>6. CASE free # {}
    <3>1. \E x \in free : \A y \in free : x <= y
      <4>1. free \subseteq Nat
        BY <2>1
      <4> HIDE DEF free
      <4>2. QED
        BY <2>6, <4>1, LeastNat
    <3>2. Min(free) \in free
      BY <3>1 DEF Min
    <3>3. QED
      BY <1>2, <2>3, <2>4, <2>6, <3>2
  <2>7. QED
    BY <2>5, <2>6
<1>3. QED
  BY <1>1, <1>2

LEMMA ReachFacts ==
    ASSUME NEW p \in Present
    PROVE  /\ p \in Reach(p) /\ Reach(p) \subseteq Positions
           /\ vec[p].next \notin Positions => Reach(p) = {p}
           /\ vec[p].next \in Positions => Reach(p) = {p} \cup Reach(vec[p].next)
<1>1. p \in Positions
  BY DEF Present
<1>2. p \in Reach(p) /\ Reach(p) \subseteq Positions
  BY <1>1 DEF Reach
<1>3. ASSUME vec[p].next \notin Positions
      PROVE  Reach(p) = {p}
  <2>1. Closed({p}) /\ {p} \in SUBSET Positions
    BY <1>1, <1>3 DEF Closed
  <2>2. QED
    BY <1>2, <2>1 DEF Reach
<1>4. ASSUME vec[p].next \in Positions
      PROVE  Reach(p) = {p} \cup Reach(vec[p].next)
  <2> DEFINE n == vec[p].next
             S == {p} \cup Reach(n)
  <2>1. n \in Reach(n)
    BY <1>4 DEF Reach
  <2>2. \A q \in Reach(n) : vec[q].next \in Positions => vec[q].next \in Reach(n)
    BY DEF Reach, Closed
  <2>3. Closed(S) /\ S \in SUBSET Positions /\ p \in S
    BY <1>1, <1>4, <2>1, <2>2 DEF Closed, Reach
  <2>4. Reach(p) \subseteq S
    BY <2>3 DEF Reach
  <2>5. Reach(n) \subseteq Reach(p)
    BY <1>4 DEF Reach, Closed
  <2>6. QED
    BY <1>2, <2>4, <2>5
<1>5. QED
  BY <1>2, <1>3, <1>4

(* what a loop over a list for key k returns when it starts at p *)
Finds(k, p, r) ==
    \/ r \in Reach(p) /\ vec[r].key = {k}
    \/ r = NotFound /\ \A q \in Reach(p) : vec[q].key # {k}

LEMMA LinksStay ==
    ASSUME IInv, NEW p \in Present
    PROVE  /\ vec[p].next = NoNext \/ vec[p].next \in Present
           /\ p \in Positions /\ vec[p].next # NoEntry
           /\ NoNext \notin Positions /\ NoEntry \notin Positions
<1>1. cap \in Nat
  BY DEF IInv, TypeOK
<1>2. NoNext \notin Positions /\ NoEntry \notin Positions
  BY <1>1 DEF Positions, NoNext, NoEntry
<1>3. vec[p].next = NoNext \/ vec[p].next \in Present
  BY DEF IInv, EntriesInPlace, Members
<1>4. QED
  BY <1>2, <1>3 DEF Present, Empty

LEMMA ReachPresent ==
    ASSUME IInv, NEW p \in Present
    PROVE  Reach(p) \subseteq Present
<1>1. Closed(Present) /\ Present \in SUBSET Positions
  BY LinksStay DEF Closed, Present
<1>2. QED
  BY <1>1 DEF Reach

(* what every solution of the loop's equation returns *)
LEMMA LoopFinds ==
    ASSUME IInv, NEW k \in Keys, NEW f,
           \A p \in Present : f[p] = IF vec[p].key = {k} THEN p
                                     ELSE IF vec[p].next = NoNext THEN NotFound
                                     ELSE f[vec[p].next]
    PROVE  \A p \in Present : Finds(k, p, f[p])
<1> DEFINE S == {p \in Present : ~ Finds(k, p, f[p])}
<1>1. SUFFICES ASSUME S # {}
               PROVE  FALSE
  BY Zenon
<1>2. PICK p \in S : vec[p].next \notin S
  <2>1. S \in SUBSET Present
    OBVIOUS
  <2>2. QED
    BY <1>1, <2>1 DEF IInv, ListsEnd
<1>3. p \in Present /\ ~ Finds(k, p, f[p])
  OBVIOUS
<1>4. p \in Reach(p)
  BY <1>3, ReachFacts
<1>5. CASE vec[p].key = {k}
  BY <1>3, <1>4, <1>5 DEF Finds
<1>6. CASE vec[p].key # {k} /\ vec[p].next = NoNext
  <2>1. Reach(p) = {p}
    BY <1>3, <1>6, ReachFacts, LinksStay
  <2>2. QED
    BY <1>3, <1>6, <2>1 DEF Finds
<1>7. CASE vec[p].key # {k} /\ vec[p].next # NoNext
  <2>1. vec[p].next \in Present /\ vec[p].next \in Positions
    BY <1>3, <1>7, LinksStay DEF Present
  <2>2. Reach(p) = {p} \cup Reach(vec[p].next)
    BY <1>3, <2>1, ReachFacts
  <2>3. Finds(k, vec[p].next, f[vec[p].next])
    BY <1>2, <2>1
  <2>4. f[p] = f[vec[p].next]
    BY <1>3, <1>7
  <2>5. QED
    BY <1>3, <1>7, <2>2, <2>3, <2>4 DEF Finds
<1>8. QED
  BY <1>5, <1>6, <1>7

(* and that the equation has a solution *)
Lookup(k, p) ==
    IF \E q \in Reach(p) : vec[q].key = {k}
    THEN CHOOSE q \in Reach(p) : vec[q].key = {k}
    ELSE NotFound

LEMMA LookupSolves ==
    ASSUME IInv, NEW k \in Keys, NEW p \in Present
    PROVE  Lookup(k, p) = IF vec[p].key = {k} THEN p
                          ELSE IF vec[p].next = NoNext THEN NotFound
                          ELSE Lookup(k, vec[p].next)
<1>1. p \in Reach(p) /\ Reach(p) \subseteq Present
  BY ReachFacts, ReachPresent
<1>2. CASE vec[p].key = {k}
  <2>1. \A q \in Reach(p) : vec[q].key = {k} => q = p
    BY <1>1, <1>2 DEF IInv, KeysOnce
  <2>2. QED
    BY <1>1, <1>2, <2>1 DEF Lookup
<1>3. CASE vec[p].key # {k} /\ vec[p].next = NoNext
  <2>1. Reach(p) = {p}
    BY <1>3, ReachFacts, LinksStay
  <2>2. QED
    BY <1>3, <2>1 DEF Lookup
<1>4. CASE vec[p].key # {k} /\ vec[p].next # NoNext
  <2>1. vec[p].next \in Present /\ vec[p].next \in Positions
    BY <1>4, LinksStay DEF Present
  <2>2. Reach(p) = {p} \cup Reach(vec[p].next)
    BY <2>1, ReachFacts
  <2>3. PICK n : n = vec[p].next
    OBVIOUS
  <2>4. \A q \in Reach(p) : vec[q].key = {k} <=> (q \in Reach(n) /\ vec[q].key = {k})
    BY <1>4, <2>2, <2>3
  <2>5. \A q : (q \in Reach(p) /\ vec[q].key = {k}) <=> (q \in Reach(n) /\ vec[q].key = {k})
    BY <1>4, <2>2, <2>3
  <2>6. Lookup(k, p) = Lookup(k, n)
    BY <2>5 DEF Lookup
  <2>7. QED
    BY <1>4, <2>3, <2>6
<1>5. QED
  BY <1>2, <1>3, <1>4

(* what C finds *)
LEMMA FindFromFinds ==
    ASSUME IInv, NEW k \in Keys, NEW b \in Present
    PROVE  Finds(k, b, FindFrom(k, b))
<1> DEFINE Eq(f) == f = [p \in Present |-> IF vec[p].key = {k} THEN p
                                           ELSE IF vec[p].next = NoNext THEN NotFound
                                           ELSE f[vec[p].next]]
           at == CHOOSE f : Eq(f)
           g == [p \in Present |-> Lookup(k, p)]
<1>1. \A p \in Present : g[p] = IF vec[p].key = {k} THEN p
                                ELSE IF vec[p].next = NoNext THEN NotFound
                                ELSE g[vec[p].next]
  BY LookupSolves, LinksStay
<1>2. Eq(g)
  BY <1>1
<1>3. Eq(at)
  <2> HIDE DEF g, Eq
  <2>1. QED
    BY <1>2
<1>4. FindFrom(k, b) = at[b]
  BY DEF FindFrom
<1> HIDE DEF at
<1>5. \A p \in Present : at[p] = IF vec[p].key = {k} THEN p
                                 ELSE IF vec[p].next = NoNext THEN NotFound
                                 ELSE at[vec[p].next]
  BY <1>3
<1>6. \A p \in Present : Finds(k, p, at[p])
  BY <1>5, LoopFinds
<1>7. QED
  BY <1>4, <1>6

(* an entry with key k, or NotFound if there is none *)
Answer(k, r) ==
    \/ r \in Present /\ vec[r].key = {k}
    \/ r = NotFound /\ \A q \in Present : vec[q].key # {k}

LEMMA FindsIsAnswer ==
    ASSUME IInv, NEW k \in Keys, IndexOf(k) \in Present, NEW r, Finds(k, IndexOf(k), r)
    PROVE  Answer(k, r)
<1> DEFINE b == IndexOf(k)
<1>1. Reach(b) \subseteq Present
  BY ReachPresent
<1>2. ASSUME NEW q \in Present, vec[q].key = {k}
      PROVE  q \in Reach(b)
  <2>1. b \in Buckets \cap Present
    BY IndexIsBucket DEF IInv
  <2>2. q \in Members(b)
    BY <1>2 DEF Members
  <2>3. q \in Positions
    BY DEF Present
  <2>4. QED
    BY <2>1, <2>2, <2>3 DEF IInv, AllReached, Reach
<1>3. QED
  BY <1>1, <1>2 DEF Finds, Answer

LEMMA NothingThere ==
    ASSUME IInv, NEW k \in Keys, IndexOf(k) \notin Present
    PROVE  Answer(k, NotFound)
BY DEF IInv, EntriesInPlace, Answer

LEMMA EmptyIsNotPresent ==
    ASSUME TypeOK, NEW k \in Keys
    PROVE  Empty(IndexOf(k)) <=> IndexOf(k) \notin Present
BY IndexIsBucket DEF Present

LEMMA FoundAnswers ==
    ASSUME IInv, NEW k \in Keys
    PROVE  Answer(k, IF Empty(IndexOf(k)) THEN NotFound ELSE FindFrom(k, IndexOf(k)))
<1>1. CASE Empty(IndexOf(k))
  BY <1>1, NothingThere, EmptyIsNotPresent DEF IInv
<1>2. CASE ~ Empty(IndexOf(k))
  <2>1. IndexOf(k) \in Present
    BY <1>2, EmptyIsNotPresent DEF IInv
  <2>2. PICK b \in Present : b = IndexOf(k)
    BY <2>1
  <2>3. Finds(k, b, FindFrom(k, b))
    BY FindFromFinds
  <2>4. QED
    BY <1>2, <2>1, <2>2, <2>3, FindsIsAnswer
<1>3. QED
  BY <1>1, <1>2

-----------------------------------------------------------------------------
(* The invariant is inductive. *)

LEMMA PresentIsFinite ==
    ASSUME TypeOK
    PROVE  /\ IsFiniteSet(Present) /\ Present \subseteq Positions
           /\ IsFiniteSet(Positions) /\ Cardinality(Positions) = 2 * cap
           /\ Cardinality(Present) \in 0 .. 2 * cap
<1>1. cap \in Nat \ {0} /\ 0 \in Int /\ 2 * cap - 1 \in Int /\ 0 <= 2 * cap - 1
  BY DEF TypeOK
<1>2. IsFiniteSet(Positions)
  BY <1>1, FS_Interval DEF Positions
<1>3. Cardinality(Positions) = 2 * cap
  <2>1. Cardinality(0 .. 2 * cap - 1) = (2 * cap - 1) - 0 + 1
    BY <1>1, FS_Interval
  <2>2. QED
    BY <1>1, <2>1 DEF Positions
<1>4. Present \subseteq Positions
  BY DEF Present
<1>5. IsFiniteSet(Present) /\ Cardinality(Present) <= Cardinality(Positions)
  BY <1>2, <1>4, FS_Subset
<1>6. Cardinality(Present) \in Nat
  BY <1>5, FS_CardinalityType
<1>7. QED
  BY <1>1, <1>2, <1>3, <1>4, <1>5, <1>6

(* a map without entries *)
LEMMA NothingKept ==
    ASSUME cap \in PowersOf2, hash \in Hash, vec = Cleared(cap), size = 0
    PROVE  IInv
<1>1. cap \in Nat \ {0}
  BY DoublingsFacts DEF PowersOf2
<1>2. \A p \in Positions : vec[p] = NothingStored
  BY DEF Cleared, Positions
<1>3. Present = {}
  BY <1>2 DEF Present, Empty, NothingStored
<1>4. TypeOK
  <2>1. vec \in [Positions -> [key : {{}} \cup {{k} : k \in Keys},
                               val : {0} \cup Vals,
                               next : {NoEntry, NoNext} \cup Collisions]]
    BY DEF Cleared, Positions, NothingStored
  <2>2. size \in 0 .. 2 * cap
    BY <1>1
  <2>3. QED
    BY <1>1, <2>1, <2>2 DEF TypeOK
<1>5. size = Cardinality(Present)
  BY <1>3, FS_EmptySet
<1>6. QED
  BY <1>3, <1>4, <1>5
     DEF IInv, EntriesInPlace, KeysOnce, ListsEnd, AllReached, Counted

(* an entry added at q, in its bucket or as the second of its list *)
LEMMA NewEntryKept ==
    ASSUME IInv, NEW k \in Keys, NEW v \in Vals, NEW q \in Positions, NEW b,
           q \notin Present, b = IndexOf(k),
           cap' = cap, hash' = hash, size' = size + 1,
           \A p \in Present : vec[p].key # {k},
           \/ /\ q = b
              /\ vec' = [vec EXCEPT ![b] = Entry(k, v, NoNext)]
           \/ /\ b \in Present /\ q \in Collisions
              /\ vec' = [vec EXCEPT ![q] = Entry(k, v, NextOfNew(b)), ![b].next = q]
    PROVE  IInv'
<1>1. cap \in Nat \ {0} /\ b \in Buckets /\ b \in Positions /\ TypeOK
  BY IndexIsBucket DEF IInv, TypeOK
<1>2. Positions' = Positions /\ Buckets' = Buckets /\ Collisions' = Collisions
  BY DEF Positions, Buckets, Collisions
<1>3. \A j : IndexOf(j)' = IndexOf(j)
  BY DEF IndexOf
<1>4. q \in Buckets => q = b
  BY <1>1 DEF Buckets, Collisions
<1>5. b # q => q \in Collisions /\ b \in Present
  OBVIOUS
<1>6. vec \in [Positions -> [key : {{}} \cup {{j} : j \in Keys},
                             val : {0} \cup Vals,
                             next : {NoEntry, NoNext} \cup Collisions]]
  BY DEF IInv, TypeOK
<1>7. /\ vec'[q].key = {k} /\ vec'[q].val = v
      /\ vec'[q].next = IF b = q THEN NoNext ELSE vec[b].next
  BY <1>1, <1>6 DEF Entry, NextOfNew
<1>8. \A p \in Positions : p # q => vec'[p].key = vec[p].key /\ vec'[p].val = vec[p].val
  BY <1>1, <1>6
<1>9. \A p \in Positions : p # q /\ p # b => vec'[p] = vec[p]
  BY <1>1, <1>6
<1>10. b # q => vec'[b].next = q
  BY <1>1, <1>6
<1>11. \A p \in Present : vec[p].next = NoNext \/ vec[p].next \in Present
  BY LinksStay
<1>12. \A p \in Present : p \in Positions /\ vec[p].next # NoEntry
  BY DEF Present, Empty
<1>13. \A p \in Positions : p \notin Present => vec[p].next = NoEntry
  BY DEF Present, Empty
<1>14. q # NoEntry /\ NoNext # NoEntry /\ NoNext \notin Positions /\ NoEntry \notin Positions
  BY <1>1 DEF NoEntry, NoNext, Positions
<1>15. Present' = Present \cup {q}
  <2>1. \A p \in Positions : vec'[p].next # NoEntry <=> p \in Present \cup {q}
    BY <1>5, <1>7, <1>9, <1>10, <1>12, <1>13, <1>14
  <2>2. Present' = {p \in Positions : vec'[p].next # NoEntry}
    BY <1>2 DEF Present, Empty
  <2>3. QED
    BY <1>12, <2>1, <2>2
<1> DEFINE M(i) == {p \in Present \cup {q} : \A j \in vec'[p].key : IndexOf(j) = i}
<1>16. \A i : Members(i) \subseteq M(i)
  BY <1>8, <1>12 DEF Members
<1>17. q \in M(b)
  BY <1>7
<1>18. \A i : M(i) \subseteq Members(i) \cup {q}
  BY <1>8, <1>12 DEF Members
<1>19. \A i : i # b => q \notin M(i)
  BY <1>7
<1>20. vec' \in [Positions -> [key : {{}} \cup {{j} : j \in Keys},
                              val : {0} \cup Vals,
                              next : {NoEntry, NoNext} \cup Collisions]]
  <2>1. vec[b].next \in {NoEntry, NoNext} \cup Collisions
    BY <1>1, <1>6
  <2>2. Entry(k, v, NoNext) \in [key : {{}} \cup {{j} : j \in Keys},
                                 val : {0} \cup Vals,
                                 next : {NoEntry, NoNext} \cup Collisions]
    BY DEF Entry
  <2>3. Entry(k, v, vec[b].next) \in [key : {{}} \cup {{j} : j \in Keys},
                                      val : {0} \cup Vals,
                                      next : {NoEntry, NoNext} \cup Collisions]
    BY <2>1 DEF Entry
  <2>4. QED
    BY <1>1, <1>6, <2>2, <2>3 DEF NextOfNew
<1>21. EntriesInPlace'
  <2> DEFINE InPlace(p) ==
          \E j \in Keys :
              /\ vec'[p].key = {j}
              /\ IndexOf(j) \in Present \cup {q}
              /\ p \in Buckets => IndexOf(j) = p
              /\ vec'[p].next # NoNext => vec'[p].next \in M(IndexOf(j))
  <2>1. SUFFICES \A p \in Present \cup {q} : InPlace(p)
    BY <1>2, <1>3, <1>15 DEF EntriesInPlace, Members
  <2> HIDE DEF M
  <2>2. ASSUME NEW p \in Present, p # b
        PROVE  InPlace(p)
    <3>1. PICK j \in Keys : /\ vec[p].key = {j}
                            /\ IndexOf(j) \in Present
                            /\ p \in Buckets => IndexOf(j) = p
                            /\ vec[p].next # NoNext => vec[p].next \in Members(IndexOf(j))
      BY DEF IInv, EntriesInPlace
    <3>2. vec'[p] = vec[p]
      BY <1>9, <1>12, <2>2
    <3>3. QED
      BY <1>16, <3>1, <3>2
  <2>3. ASSUME b # q
        PROVE  /\ \E j \in Keys : vec[b].key = {j} /\ IndexOf(j) = b
               /\ vec[b].next # NoNext => vec[b].next \in Members(b)
    BY <1>1, <1>5, <2>3 DEF IInv, EntriesInPlace
  <2>4. ASSUME b # q
        PROVE  InPlace(b)
    BY <1>1, <1>5, <1>8, <1>10, <1>17, <2>3, <2>4
  <2>5. InPlace(q)
    BY <1>4, <1>5, <1>7, <1>16, <2>3
  <2>6. QED
    BY <2>2, <2>4, <2>5, Zenon
<1>22. KeysOnce'
  <2>1. \A p, r \in Present \cup {q} : vec'[p].key = vec'[r].key => p = r
    BY <1>7, <1>8, <1>12 DEF IInv, KeysOnce
  <2>2. QED
    BY <1>15, <2>1 DEF KeysOnce
<1>23. ListsEnd'
  <2> SUFFICES ASSUME NEW S \in SUBSET (Present \cup {q}), S # {}
               PROVE  \E p \in S : vec'[p].next \notin S
    BY <1>15 DEF ListsEnd
  <2>1. CASE S = {q}
    BY <1>5, <1>7, <1>11, <1>14, <2>1
  <2>2. CASE S # {q}
    <3>1. S \ {q} \in SUBSET Present /\ S \ {q} # {}
      BY <2>2
    <3>2. PICK p \in S \ {q} : vec[p].next \notin S \ {q}
      BY <3>1 DEF IInv, ListsEnd
    <3>3. vec[p].next # q /\ vec[p].next \notin S
      BY <1>11, <1>14, <3>1, <3>2
    <3>4. CASE p # b
      <4>1. vec'[p] = vec[p]
        BY <1>9, <1>12, <3>1, <3>2, <3>4
      <4>2. QED
        BY <3>2, <3>3, <4>1
    <3>5. CASE p = b
      BY <1>7, <1>10, <3>2, <3>3, <3>5
    <3>6. QED
      BY <3>4, <3>5
  <2>3. QED
    BY <2>1, <2>2
<1>24. AllReached'
  <2> SUFFICES ASSUME NEW i \in Buckets, i \in Present \cup {q},
                      NEW S \in SUBSET Positions, i \in S,
                      \A p \in S : vec'[p].next \in Positions => vec'[p].next \in S
               PROVE  M(i) \subseteq S
    BY <1>2, <1>3, <1>15 DEF AllReached, Members, Closed
  <2> HIDE DEF M
  <2>1. ASSUME b # q, b \in S
        PROVE  q \in S
    BY <1>10, <2>1
  <2>2. Closed(S)
    <3> SUFFICES ASSUME NEW p \in S, vec[p].next \in Positions
                 PROVE  vec[p].next \in S
      BY DEF Closed
    <3>1. p \in Present
      BY <1>13, <1>14
    <3>2. CASE p # b
      BY <1>9, <1>12, <3>1, <3>2
    <3>3. CASE p = b
      BY <1>7, <2>1, <3>1, <3>3
    <3>4. QED
      BY <3>2, <3>3
  <2>3. CASE i \in Present
    <3>1. Members(i) \subseteq S
      BY <2>2, <2>3 DEF IInv, AllReached
    <3>2. q \in M(i) => q \in S
      BY <1>19, <2>1, <2>3
    <3>3. QED
      BY <1>18, <3>1, <3>2
  <2>4. CASE i = q
    <3>1. Members(i) = {}
      BY <1>4, <2>4 DEF IInv, EntriesInPlace, Members
    <3>2. QED
      BY <1>18, <2>4, <3>1
  <2>5. QED
    BY <2>3, <2>4
<1>25. Counted'
  <2>1. IsFiniteSet(Present)
    BY <1>1, PresentIsFinite
  <2>2. Cardinality(Present \cup {q}) = Cardinality(Present) + 1
    BY <2>1, FS_AddElement
  <2>3. size' = Cardinality(Present \cup {q})
    BY <2>2 DEF IInv, Counted
  <2>4. QED
    BY <1>15, <2>3 DEF Counted
<1>26. TypeOK'
  <2>1. Present \cup {q} \subseteq Positions /\ IsFiniteSet(Positions) /\ Cardinality(Positions) = 2 * cap
    BY <1>1, PresentIsFinite
  <2>2. Cardinality(Present \cup {q}) <= 2 * cap /\ Cardinality(Present \cup {q}) \in Nat
    BY <2>1, FS_Subset, FS_CardinalityType
  <2>3. size' = Cardinality(Present \cup {q})
    BY <1>15, <1>25 DEF Counted
  <2>4. size' \in 0 .. 2 * cap
    BY <1>1, <2>2, <2>3
  <2>5. hash' \in Hash
    BY DEF IInv, TypeOK
  <2>6. QED
    BY <1>1, <1>2, <1>20, <2>4, <2>5 DEF TypeOK
<1>27. cap' \in PowersOf2
  BY DEF IInv, PowersOf2, Doublings
<1>28. QED
  BY <1>21, <1>22, <1>23, <1>24, <1>25, <1>26, <1>27 DEF IInv

LEMMA InitKept ==
    ASSUME Init
    PROVE  IInv
<1>1. PICK c \in Capacities : cap = CeilPower2(c)
  BY DEF Init
<1>2. cap \in PowersOf2
  BY <1>1, CapacitiesAssumption, CeilPower2Facts
<1>3. vec = Cleared(cap)
  BY DEF Init, Cleared
<1>4. QED
  BY <1>2, <1>3, NothingKept DEF Init

(* an insert changes nothing, or adds one entry where there was none *)
LEMMA InsertCases ==
    ASSUME IInv, NEW k \in Keys, NEW v \in Vals, Insert(k, v)
    PROVE  \/ UNCHANGED vars
           \/ /\ IndexOf(k) \in Positions \ Present
              /\ vec' = [vec EXCEPT ![IndexOf(k)] = Entry(k, v, NoNext)]
              /\ size' = size + 1 /\ cap' = cap /\ hash' = hash
              /\ \A p \in Present : vec[p].key # {k}
           \/ /\ IndexOf(k) \in Present
              /\ Place(k) \in Collisions \ Present
              /\ vec' = [vec EXCEPT ![Place(k)] = Entry(k, v, NextOfNew(IndexOf(k))),
                                    ![IndexOf(k)].next = Place(k)]
              /\ size' = size + 1 /\ cap' = cap /\ hash' = hash
              /\ \A p \in Present : vec[p].key # {k}
<1> DEFINE first == IndexOf(k)
           found == IF Empty(first) THEN NotFound ELSE FindFrom(k, first)
           place == Place(k)
<1>1. TypeOK /\ cap \in PowersOf2 /\ cap \in Nat \ {0}
  BY DEF IInv, TypeOK
<1>2. first \in Buckets /\ first \in Positions
  BY <1>1, IndexIsBucket
<1>3. first \notin Collisions /\ NoEntry \notin Collisions /\ first # NoEntry
      /\ NotFound \notin Positions
  BY <1>1, <1>2 DEF Buckets, Collisions, NoEntry, NotFound, Positions
<1>4. Answer(k, found)
  BY FoundAnswers
<1>5. found = NotFound => \A p \in Present : vec[p].key # {k}
  BY <1>3, <1>4 DEF Answer, Present
<1>6. \/ place = first /\ Empty(first)
      \/ ~ Empty(first) /\ place \in Collisions /\ Empty(place)
      \/ ~ Empty(first) /\ place = NoEntry
  BY <1>1, PlaceFacts
<1>7. Empty(first) => found = NotFound
  OBVIOUS
<1>8. /\ \/ found # NotFound /\ UNCHANGED <<vec, size>>
         \/ found = NotFound /\ place = NoEntry /\ UNCHANGED <<vec, size>>
         \/ /\ place = first
            /\ vec' = [vec EXCEPT ![first] = Entry(k, v, NoNext)]
            /\ size' = size + 1
         \/ /\ found = NotFound /\ place \notin {first, NoEntry}
            /\ vec' = [vec EXCEPT ![place] = Entry(k, v, NextOfNew(first)),
                                  ![first].next = place]
            /\ size' = size + 1
      /\ cap' = cap /\ hash' = hash
  BY DEF Insert, InsertPresent
<1>9. \A p : Empty(p) => p \notin Present
  BY DEF Present
<1>10. Empty(first) <=> first \notin Present
  BY <1>1, EmptyIsNotPresent
<1> HIDE DEF first, found, place
<1>11. CASE UNCHANGED <<vec, size>>
  BY <1>8, <1>11 DEF vars
<1>12. CASE /\ place = first
            /\ vec' = [vec EXCEPT ![first] = Entry(k, v, NoNext)]
            /\ size' = size + 1
  <2>1. Empty(first)
    BY <1>3, <1>6, <1>12
  <2>2. \A p \in Present : vec[p].key # {k}
    BY <1>5, <1>7, <2>1
  <2>3. QED
    BY <1>2, <1>8, <1>10, <1>12, <2>1, <2>2 DEF first
<1>13. CASE /\ found = NotFound /\ place \notin {first, NoEntry}
            /\ vec' = [vec EXCEPT ![place] = Entry(k, v, NextOfNew(first)),
                                  ![first].next = place]
            /\ size' = size + 1
  <2>1. first \in Present /\ place \in Collisions /\ place \notin Present
    BY <1>6, <1>9, <1>10, <1>13
  <2>2. QED
    BY <1>5, <1>8, <1>13, <2>1 DEF first, place
<1>14. QED
  BY <1>8, <1>11, <1>12, <1>13

LEMMA StutterKept ==
    ASSUME IInv, UNCHANGED vars
    PROVE  IInv'
<1>1. /\ Present' = Present /\ Positions' = Positions
      /\ Buckets' = Buckets /\ Collisions' = Collisions
  BY DEF vars, Present, Positions, Buckets, Collisions, Empty
<1>2. \A j : IndexOf(j)' = IndexOf(j)
  BY DEF vars, IndexOf
<1>3. EntriesInPlace' /\ KeysOnce' /\ ListsEnd'
  BY <1>1, <1>2
     DEF vars, IInv, EntriesInPlace, KeysOnce, ListsEnd, Members
<1>4. AllReached'
  BY <1>1, <1>2 DEF vars, IInv, AllReached, Members, Closed
<1>5. TypeOK' /\ (cap \in PowersOf2)' /\ Counted'
  BY <1>1 DEF vars, IInv, TypeOK, Counted, PowersOf2, Doublings
<1>6. QED
  BY <1>3, <1>4, <1>5 DEF IInv

LEMMA InsertKept ==
    ASSUME IInv, NEW k \in Keys, NEW v \in Vals, Insert(k, v)
    PROVE  IInv'
<1>1. PICK b : b = IndexOf(k)
  OBVIOUS
<1>2. PICK q : q = Place(k)
  OBVIOUS
<1>3. Collisions \subseteq Positions
  BY DEF IInv, TypeOK, Collisions, Positions
<1>4. CASE UNCHANGED vars
  BY <1>4, StutterKept
<1>5. CASE /\ b \in Positions \ Present
           /\ vec' = [vec EXCEPT ![b] = Entry(k, v, NoNext)]
           /\ size' = size + 1 /\ cap' = cap /\ hash' = hash
           /\ \A p \in Present : vec[p].key # {k}
  BY <1>1, <1>5, NewEntryKept
<1>6. CASE /\ b \in Present
           /\ q \in Collisions \ Present
           /\ vec' = [vec EXCEPT ![q] = Entry(k, v, NextOfNew(b)), ![b].next = q]
           /\ size' = size + 1 /\ cap' = cap /\ hash' = hash
           /\ \A p \in Present : vec[p].key # {k}
  <2>1. q \in Positions
    BY <1>3, <1>6
  <2>2. QED
    BY <1>1, <1>6, <2>1, NewEntryKept
<1>7. QED
  BY <1>1, <1>2, <1>4, <1>5, <1>6, InsertCases

LEMMA ClearKept ==
    ASSUME IInv, Clear
    PROVE  IInv'
<1>1. /\ cap' \in PowersOf2 /\ hash' \in Hash /\ vec' = Cleared(cap') /\ size' = 0
  BY DEF Clear, IInv, TypeOK
<1>2. cap' \in Nat \ {0}
  BY <1>1, DoublingsFacts DEF PowersOf2
<1>3. \A p \in Positions' : vec'[p] = NothingStored
  BY <1>1 DEF Cleared, Positions
<1>4. Present' = {}
  BY <1>3 DEF Present, Empty, NothingStored
<1>5. TypeOK'
  <2>1. vec' \in [Positions' -> [key : {{}} \cup {{k} : k \in Keys},
                                val : {0} \cup Vals,
                                next : {NoEntry, NoNext} \cup Collisions']]
    BY <1>1 DEF Cleared, Positions, NothingStored
  <2>2. size' \in 0 .. 2 * cap'
    <3>1. \A c \in Nat \ {0} : 0 \in 0 .. 2 * c
      OBVIOUS
    <3>2. QED
      BY <1>1, <1>2, <3>1, Zenon
  <2>3. QED
    BY <1>1, <1>2, <2>1, <2>2 DEF TypeOK
<1>6. size' = Cardinality(Present')
  BY <1>1, <1>4, FS_EmptySet
<1>7. QED
  BY <1>1, <1>4, <1>5, <1>6
     DEF IInv, EntriesInPlace, KeysOnce, ListsEnd, AllReached, Counted, PowersOf2, Doublings

-----------------------------------------------------------------------------
(* The invariant holds in every reachable state. *)
THEOREM Inductive == Spec => []IInv
<1>1. Init => IInv
  BY InitKept
<1>2. IInv /\ [Next]_vars => IInv'
  <2> SUFFICES ASSUME IInv, [Next]_vars
               PROVE  IInv'
    OBVIOUS
  <2>1. CASE Next
    BY <2>1, InsertKept, ClearKept DEF Next
  <2>2. CASE UNCHANGED vars
    BY <2>2, StutterKept
  <2>3. QED
    BY <2>1, <2>2
<1>3. QED
  BY <1>1, <1>2, PTL DEF Spec

(* Entries hold keys, values and links of their kinds, and no map has more *)
(* entries than vec (m6hashmap_insert).                                    *)
THEOREM TypeCorrect == Spec => []TypeOK
<1>1. IInv => TypeOK
  BY DEF IInv
<1>2. QED
  BY <1>1, Inductive, PTL

(* A key that is not there is refused only when its bucket and all of the  *)
(* half for collisions are taken: the steps of m6hash_pick_collision_index *)
(* are odd, so they visit all of a power of two.                           *)
THEOREM InsertFailsOnlyWhenFullHolds == Spec => []InsertFailsOnlyWhenFull
<1>1. IInv => InsertFailsOnlyWhenFull
  <2> SUFFICES ASSUME IInv, NEW k \in Keys
               PROVE  Place(k) = NoEntry <=> IndexOf(k) \in Present /\ Collisions \subseteq Present
    BY DEF InsertFailsOnlyWhenFull
  <2>1. /\ TypeOK /\ cap \in PowersOf2 /\ cap \in Nat \ {0}
    BY DEF IInv, TypeOK
  <2>2. IndexOf(k) \in Nat /\ (Empty(IndexOf(k)) <=> IndexOf(k) \notin Present)
    BY <2>1, IndexIsBucket, EmptyIsNotPresent
  <2>3. NoEntry \notin Nat /\ NoEntry \notin Collisions
    BY <2>1 DEF NoEntry, Collisions
  <2>4. \A p \in Collisions : Empty(p) => p \notin Present
    BY DEF Present
  <2>5. QED
    BY <2>1, <2>2, <2>3, <2>4, PlaceFacts
<1>2. QED
  BY <1>1, Inductive, PTL

(* Until the map is cleared an entry keeps its position, its key and its   *)
(* value: pointers that find and insert returned stay valid.               *)
THEOREM EntriesStayHolds == Spec => EntriesStay
<1> DEFINE Stay == \A p \in Present : vec'[p].key = vec[p].key /\ vec'[p].val = vec[p].val
<1>1. IInv /\ [Next]_vars => [Clear \/ Stay]_vars
  <2> SUFFICES ASSUME IInv, NEW k \in Keys, NEW v \in Vals, Insert(k, v)
               PROVE  Stay
    BY DEF Next
  <2>1. vec \in [Positions -> [key : {{}} \cup {{j} : j \in Keys},
                               val : {0} \cup Vals,
                               next : {NoEntry, NoNext} \cup Collisions]]
    BY DEF IInv, TypeOK
  <2>2. Present \subseteq Positions
    BY DEF Present
  <2>3. PICK b : b = IndexOf(k)
    OBVIOUS
  <2>4. PICK q : q = Place(k)
    OBVIOUS
  <2>5. CASE UNCHANGED vars
    BY <2>5 DEF vars
  <2>6. CASE b \notin Present /\ vec' = [vec EXCEPT ![b] = Entry(k, v, NoNext)]
    BY <2>1, <2>2, <2>6
  <2>7. CASE /\ b \in Present /\ q \notin Present
             /\ vec' = [vec EXCEPT ![q] = Entry(k, v, NextOfNew(b)), ![b].next = q]
    BY <2>1, <2>2, <2>7
  <2>8. QED
    BY <2>3, <2>4, <2>5, <2>6, <2>7, InsertCases
<1>2. QED
  BY <1>1, Inductive, PTL DEF Spec, EntriesStay

-----------------------------------------------------------------------------
(* C and Forth *)

LEMMA AnswersAgree ==
    ASSUME IInv, NEW k \in Keys, NEW r, NEW s, Answer(k, r), Answer(k, s)
    PROVE  r = s
BY DEF Answer, IInv, KeysOnce

LEMMA FindAnswers ==
    ASSUME IInv, NEW k \in Keys
    PROVE  Answer(k, Find(k))
<1>1. CASE size = 0
  <2>1. IsFiniteSet(Present) /\ Cardinality(Present) = 0
    BY <1>1, PresentIsFinite DEF IInv, Counted
  <2>2. Present = {}
    BY <2>1, FS_EmptySet
  <2>3. QED
    BY <1>1, <2>2 DEF Find, Answer
<1>2. CASE size # 0
  <2>1. Find(k) = IF Empty(IndexOf(k)) THEN NotFound ELSE FindFrom(k, IndexOf(k))
    BY <1>2 DEF Find
  <2>2. QED
    BY <2>1, FoundAnswers
<1>3. QED
  BY <1>1, <1>2

LEMMA ForthFindAnswers ==
    ASSUME IInv, NEW k \in Keys
    PROVE  Answer(k, ForthFind(k))
<1> DEFINE Eq(f) == f = [p \in Positions |-> IF vec[p].next = NoEntry THEN NotFound
                                             ELSE IF vec[p].key = {k} THEN p
                                             ELSE IF vec[p].next = NoNext THEN NotFound
                                             ELSE f[vec[p].next]]
           at == CHOOSE f : Eq(f)
           g == [p \in Positions |-> IF p \in Present THEN Lookup(k, p) ELSE NotFound]
<1>1. \A p \in Positions : p \in Present <=> vec[p].next # NoEntry
  BY DEF Present, Empty
<1>2. ASSUME NEW p \in Positions
      PROVE  g[p] = IF vec[p].next = NoEntry THEN NotFound
                    ELSE IF vec[p].key = {k} THEN p
                    ELSE IF vec[p].next = NoNext THEN NotFound
                    ELSE g[vec[p].next]
  <2>1. CASE p \notin Present
    BY <1>1, <2>1
  <2>2. CASE p \in Present
    <3>1. Lookup(k, p) = IF vec[p].key = {k} THEN p
                         ELSE IF vec[p].next = NoNext THEN NotFound
                         ELSE Lookup(k, vec[p].next)
      BY <2>2, LookupSolves
    <3>2. vec[p].next = NoNext \/ (vec[p].next \in Present /\ vec[p].next \in Positions)
      BY <2>2, LinksStay DEF Present
    <3>3. QED
      BY <1>1, <2>2, <3>1, <3>2
  <2>3. QED
    BY <2>1, <2>2
<1>3. Eq(g)
  BY <1>2
<1>4. Eq(at)
  <2> HIDE DEF g, Eq
  <2>1. QED
    BY <1>3
<1>5. ForthFind(k) = at[IndexOf(k)]
  BY DEF ForthFind
<1> HIDE DEF at
<1>6. \A p \in Positions : at[p] = IF vec[p].next = NoEntry THEN NotFound
                                   ELSE IF vec[p].key = {k} THEN p
                                   ELSE IF vec[p].next = NoNext THEN NotFound
                                   ELSE at[vec[p].next]
  BY <1>4
<1>7. \A p \in Present : at[p] = IF vec[p].key = {k} THEN p
                                 ELSE IF vec[p].next = NoNext THEN NotFound
                                 ELSE at[vec[p].next]
  BY <1>6, <1>1 DEF Present
<1>8. \A p \in Present : Finds(k, p, at[p])
  BY <1>7, LoopFinds
<1>9. IndexOf(k) \in Positions
  BY IndexIsBucket DEF IInv
<1>10. CASE IndexOf(k) \in Present
  BY <1>5, <1>8, <1>10, FindsIsAnswer
<1>11. CASE IndexOf(k) \notin Present
  <2>1. at[IndexOf(k)] = NotFound
    BY <1>1, <1>6, <1>9, <1>11
  <2>2. QED
    BY <1>5, <1>11, <2>1, NothingThere
<1>12. QED
  BY <1>10, <1>11

(* The loop in Forth (hashmap-find/cell) finds the entry that the one in C *)
(* finds (m6hashmap_find), although it reads neither the size nor whether  *)
(* the bucket is taken.                                                    *)
THEOREM FindsAgreeHolds == Spec => []FindsAgree
<1>1. IInv => FindsAgree
  BY FindAnswers, ForthFindAnswers, AnswersAgree DEF FindsAgree
<1>2. QED
  BY <1>1, Inductive, PTL

-----------------------------------------------------------------------------
(* A list ends after at most as many steps as vec has entries. *)

(* the equation of Walk has a solution up to n *)
WalksTo(f, b, n) ==
    /\ f[0] = b
    /\ \A i \in 1 .. n : f[i] = IF f[i - 1] \in Positions THEN vec[f[i - 1]].next ELSE f[i - 1]

LEMMA WalkExists ==
    ASSUME NEW b, NEW n \in Nat
    PROVE  \E f : WalksTo(f, b, n)
<1> DEFINE T == {m \in Nat : \A f : ~ WalksTo(f, b, m)}
<1>1. ASSUME T # {}
      PROVE  FALSE
  <2>1. T \subseteq Nat
    OBVIOUS
  <2>2. PICK m \in T : \A y \in T : m <= y
    <3> HIDE DEF T
    <3>1. QED
      BY <1>1, <2>1, LeastNat
  <2>3. m \in Nat /\ \A f : ~ WalksTo(f, b, m)
    OBVIOUS
  <2>4. m # 0
    <3>1. WalksTo([i \in {0} |-> b], b, 0)
      BY DEF WalksTo
    <3>2. QED
      BY <2>3, <3>1
  <2>5. m - 1 \in Nat /\ ~ (m <= m - 1)
    BY <2>3, <2>4
  <2>6. PICK f : WalksTo(f, b, m - 1)
    BY <2>2, <2>5
  <2> DEFINE last == IF f[m - 1] \in Positions THEN vec[f[m - 1]].next ELSE f[m - 1]
             g == [i \in 0 .. m |-> IF i = m THEN last ELSE f[i]]
  <2>7. g[m] = last /\ g[m - 1] = f[m - 1]
    BY <2>3, <2>5
  <2>8. \A i \in 0 .. m - 1 : g[i] = f[i]
    BY <2>3
  <2> HIDE DEF g
  <2>9. g[0] = b
    BY <2>5, <2>6, <2>8 DEF WalksTo
  <2>10. ASSUME NEW i \in 1 .. m
         PROVE  g[i] = IF g[i - 1] \in Positions THEN vec[g[i - 1]].next ELSE g[i - 1]
    <3>1. CASE i = m
      BY <2>7, <3>1
    <3>2. CASE i # m
      <4>1. i \in 1 .. m - 1 /\ i \in 0 .. m - 1 /\ i - 1 \in 0 .. m - 1
        BY <2>3, <3>2
      <4>2. f[i] = IF f[i - 1] \in Positions THEN vec[f[i - 1]].next ELSE f[i - 1]
        BY <2>6, <4>1 DEF WalksTo
      <4>3. QED
        BY <2>8, <4>1, <4>2
    <3>3. QED
      BY <3>1, <3>2
  <2>11. WalksTo(g, b, m)
    BY <2>9, <2>10 DEF WalksTo
  <2>12. QED
    BY <2>3, <2>11
<1>2. QED
  BY <1>1

LEMMA WalkFacts ==
    ASSUME TypeOK, NEW b
    PROVE  WalksTo(Walk(b), b, 2 * cap)
<1> DEFINE N == 2 * cap
           Eq(f) == f = [i \in 0 .. N |-> IF i = 0 THEN b
                                          ELSE IF f[i - 1] \in Positions
                                               THEN vec[f[i - 1]].next
                                               ELSE f[i - 1]]
           at == CHOOSE f : Eq(f)
<1>1. N \in Nat
  BY DEF TypeOK
<1>2. PICK f : WalksTo(f, b, N)
  <2> HIDE DEF N
  <2>1. QED
    BY <1>1, WalkExists
<1>3. Walk(b) = at
  BY DEF Walk
<1> HIDE DEF N
<1> DEFINE g == [i \in 0 .. N |-> f[i]]
<1>4. \A i \in 0 .. N : g[i] = IF i = 0 THEN b
                               ELSE IF g[i - 1] \in Positions THEN vec[g[i - 1]].next
                               ELSE g[i - 1]
  <2> SUFFICES ASSUME NEW i \in 0 .. N
               PROVE  g[i] = IF i = 0 THEN b
                             ELSE IF g[i - 1] \in Positions THEN vec[g[i - 1]].next
                             ELSE g[i - 1]
    OBVIOUS
  <2>1. CASE i = 0
    BY <1>2, <2>1 DEF WalksTo
  <2>2. CASE i # 0
    <3>1. i \in 1 .. N /\ i - 1 \in 0 .. N
      BY <1>1, <2>2
    <3>2. f[i] = IF f[i - 1] \in Positions THEN vec[f[i - 1]].next ELSE f[i - 1]
      BY <1>2, <3>1 DEF WalksTo
    <3>3. QED
      BY <2>2, <3>1, <3>2
  <2>3. QED
    BY <2>1, <2>2
<1>5. Eq(g)
  BY <1>4
<1>6. Eq(at)
  <2> HIDE DEF g, Eq
  <2>1. QED
    BY <1>5
<1> HIDE DEF at
<1>7. at[0] = b
  BY <1>1, <1>6
<1>8. \A i \in 1 .. N : at[i] = IF at[i - 1] \in Positions THEN vec[at[i - 1]].next ELSE at[i - 1]
  <2>1. \A i \in 0 .. N : at[i] = IF i = 0 THEN b
                                  ELSE IF at[i - 1] \in Positions THEN vec[at[i - 1]].next
                                  ELSE at[i - 1]
    BY <1>6
  <2>2. \A i \in 1 .. N : i \in 0 .. N /\ i # 0
    BY <1>1
  <2>3. QED
    BY <2>1, <2>2
<1>9. WalksTo(at, b, N)
  BY <1>7, <1>8 DEF WalksTo
<1>10. QED
  BY <1>3, <1>9 DEF N

LEMMA WalkVisits ==
    ASSUME IInv, NEW b \in Buckets \cap Present
    PROVE  /\ Walk(b)[2 * cap] = NoNext
           /\ Chain(Walk(b)) = Members(b)
<1> DEFINE N == 2 * cap
           w == Walk(b)
<1>1. N \in Nat /\ cap \in Nat /\ TypeOK
  BY DEF IInv, TypeOK
<1>2. WalksTo(w, b, N)
  BY <1>1, WalkFacts
<1> HIDE DEF w, N
<1>3. NoNext \notin Positions /\ Present \subseteq Positions
  BY <1>1 DEF NoNext, Positions, Present
<1>4. b \in Members(b)
  BY DEF IInv, EntriesInPlace, Members
<1>5. \A p \in Members(b) : vec[p].next = NoNext \/ vec[p].next \in Members(b)
  BY DEF IInv, EntriesInPlace, Members
<1>6. Members(b) \subseteq Present
  BY DEF Members
<1>7. \A i \in 0 .. N : w[i] = NoNext \/ w[i] \in Members(b)
  <2> DEFINE T == {i \in 0 .. N : ~ (w[i] = NoNext \/ w[i] \in Members(b))}
  <2>1. ASSUME T # {}
        PROVE  FALSE
    <3>1. T \subseteq Nat
      BY <1>1
    <3>2. PICK i \in T : \A y \in T : i <= y
      <4> HIDE DEF T
      <4>1. QED
        BY <2>1, <3>1, LeastNat
    <3>3. i \in 0 .. N /\ w[i] # NoNext /\ w[i] \notin Members(b)
      OBVIOUS
    <3>4. i # 0
      BY <1>2, <1>4, <3>3 DEF WalksTo
    <3>5. i \in 1 .. N /\ i - 1 \in 0 .. N /\ ~ (i <= i - 1)
      BY <1>1, <3>3, <3>4
    <3>6. w[i - 1] = NoNext \/ w[i - 1] \in Members(b)
      BY <3>2, <3>5
    <3>7. w[i] = IF w[i - 1] \in Positions THEN vec[w[i - 1]].next ELSE w[i - 1]
      BY <1>2, <3>5 DEF WalksTo
    <3>8. QED
      BY <1>3, <1>5, <1>6, <3>3, <3>6, <3>7
  <2>2. QED
    BY <2>1
<1>8. ASSUME w[N] # NoNext, NEW i \in 0 .. N
      PROVE  w[i] \in Members(b)
  <2> DEFINE T == {j \in i .. N : w[j] # NoNext}
  <2>1. SUFFICES ASSUME w[i] = NoNext
                 PROVE  FALSE
    BY <1>7
  <2>2. N \in T /\ T \subseteq Nat
    BY <1>1, <1>8
  <2>3. PICK j \in T : \A y \in T : j <= y
    <3> HIDE DEF T
    <3>1. QED
      BY <2>2, LeastNat
  <2>4. j \in i .. N /\ w[j] # NoNext
    OBVIOUS
  <2>5. j # i
    BY <2>1, <2>4
  <2>6. j - 1 \in i .. N /\ j \in 1 .. N /\ ~ (j <= j - 1)
    BY <1>1, <2>4, <2>5
  <2>7. w[j - 1] = NoNext
    BY <2>3, <2>6
  <2>8. QED
    BY <1>2, <1>3, <2>4, <2>6, <2>7 DEF WalksTo
<1>9. ASSUME w[N] # NoNext, NEW i \in 0 .. N, NEW j \in 0 .. N, i < j, w[i] = w[j]
      PROVE  FALSE
  <2> DEFINE S == {w[l] : l \in i .. j - 1}
  <2>1. \A l \in i .. j - 1 : l \in 0 .. N /\ l + 1 \in 1 .. N /\ l + 1 \in i + 1 .. j
    BY <1>1
  <2>2. S \in SUBSET Present
    BY <1>6, <1>8, <1>9, <2>1
  <2>3. i \in i .. j - 1
    BY <1>1, <1>9
  <2>4. w[i] \in S
    BY <2>3
  <2>5. PICK p \in S : vec[p].next \notin S
    BY <2>2, <2>4 DEF IInv, ListsEnd
  <2>6. PICK l \in i .. j - 1 : p = w[l]
    OBVIOUS
  <2>7. w[l + 1] = vec[p].next
    <3>1. w[l + 1] = IF w[l + 1 - 1] \in Positions THEN vec[w[l + 1 - 1]].next ELSE w[l + 1 - 1]
      BY <1>2, <2>1 DEF WalksTo
    <3>2. l + 1 - 1 = l /\ w[l] \in Positions
      BY <1>3, <2>2, <2>6
    <3>3. QED
      BY <2>6, <3>1, <3>2
  <2>8. CASE l + 1 = j
    BY <1>9, <2>4, <2>5, <2>7, <2>8
  <2>9. CASE l + 1 # j
    <3>1. l + 1 \in i .. j - 1
      BY <2>1, <2>9
    <3>2. QED
      BY <2>5, <2>7, <3>1
  <2>10. QED
    BY <2>8, <2>9
<1>10. w[N] = NoNext
  <2> SUFFICES ASSUME w[N] # NoNext
               PROVE  FALSE
    OBVIOUS
  <2> DEFINE D == 0 .. N
             f == [i \in D |-> w[i]]
  <2>1. f \in [D -> Positions]
    BY <1>3, <1>6, <1>8
  <2>2. \A i, j \in D : f[i] = f[j] => i = j
    <3> SUFFICES ASSUME NEW i \in D, NEW j \in D, f[i] = f[j], i # j
                 PROVE  FALSE
      OBVIOUS
    <3>1. i < j \/ j < i
      BY <1>1
    <3>2. w[i] = w[j]
      OBVIOUS
    <3>3. QED
      BY <1>9, <3>1, <3>2
  <2>3. f \in Injection(D, Positions)
    BY <2>1, <2>2 DEF Injection, IsInjective
  <2>4. IsFiniteSet(Positions) /\ Cardinality(Positions) = N
    BY <1>1, PresentIsFinite DEF N
  <2>5. Cardinality(D) = N + 1
    BY <1>1, FS_Interval
  <2>6. Cardinality(D) <= Cardinality(Positions)
    <3> HIDE DEF D, f
    <3>1. QED
      BY <2>3, <2>4, FS_Injection
  <2>7. QED
    BY <1>1, <2>4, <2>5, <2>6
<1>11. Chain(w) \subseteq Members(b)
  BY <1>3, <1>7 DEF Chain, N
<1>12. Closed(Chain(w)) /\ Chain(w) \in SUBSET Positions /\ b \in Chain(w)
  <2>1. b \in Chain(w)
    <3>1. 0 \in 0 .. N /\ w[0] = b
      BY <1>1, <1>2 DEF WalksTo
    <3>2. QED
      BY <1>3, <3>1 DEF Chain, N
  <2>2. ASSUME NEW p \in Chain(w), vec[p].next \in Positions
        PROVE  vec[p].next \in Chain(w)
    <3>1. PICK i \in 0 .. N : p = w[i]
      BY DEF Chain, N
    <3>2. p \in Positions
      BY DEF Chain
    <3>3. i # N
      BY <1>3, <1>10, <3>1, <3>2
    <3>4. i + 1 \in 1 .. N /\ i + 1 \in 0 .. N /\ i + 1 - 1 = i
      BY <1>1, <3>3
    <3>5. w[i + 1] = vec[p].next
      BY <1>2, <3>1, <3>2, <3>4 DEF WalksTo
    <3>6. QED
      BY <2>2, <3>4, <3>5 DEF Chain, N
  <2>3. QED
    BY <2>1, <2>2 DEF Closed, Chain
<1>13. Members(b) \subseteq Chain(w)
  BY <1>12 DEF IInv, AllReached
<1>14. QED
  BY <1>10, <1>11, <1>13 DEF w, N

(* The list of a bucket ends within 2 * cap steps, and it has exactly the  *)
(* entries with the index of the bucket.                                   *)
THEOREM EachEntryInItsChainHolds == Spec => []EachEntryInItsChain
<1>1. IInv => EachEntryInItsChain
  <2> SUFFICES ASSUME IInv
               PROVE  EachEntryInItsChain
    OBVIOUS
  <2>1. \A p \in Present : \A k \in vec[p].key : IndexOf(k) \in Present
    BY DEF IInv, EntriesInPlace
  <2>2. ASSUME NEW b \in Buckets \cap Present
        PROVE  Members(b) = {p \in Present : vec[p].key \subseteq {k \in Keys : IndexOf(k) = b}}
    <3>1. \A p \in Present : vec[p].key \subseteq Keys
      BY DEF IInv, EntriesInPlace
    <3>2. QED
      BY <3>1 DEF Members
  <2>3. QED
    BY <2>1, <2>2, WalkVisits DEF EachEntryInItsChain
<1>2. QED
  BY <1>1, Inductive, PTL

-----------------------------------------------------------------------------
(* The refinement. *)


(* what find says of the keys that are there *)
Contents == [k \in {k \in Keys : Find(k) # NotFound} |-> vec[Find(k)].val]

Holds(k) == \E p \in Present : vec[p].key = {k}

ContentsAreEntries ==
    /\ DOMAIN Contents = {k \in Keys : Holds(k)}
    /\ \A k \in Keys, p \in Present : vec[p].key = {k} => Contents[k] = vec[p].val

LEMMA ContentsFacts == IInv => ContentsAreEntries
<1> SUFFICES ASSUME IInv
             PROVE  ContentsAreEntries
  OBVIOUS
<1>1. NotFound \notin Present
  BY DEF Present, Positions, NotFound, IInv, TypeOK
<1>2. ASSUME NEW k \in Keys, NEW p \in Present, vec[p].key = {k}
      PROVE  Find(k) = p /\ Find(k) # NotFound
  <2>1. Answer(k, p) /\ Answer(k, Find(k))
    BY <1>2, FindAnswers DEF Answer
  <2>2. QED
    BY <1>1, <2>1, AnswersAgree
<1>3. ASSUME NEW k \in Keys, Find(k) # NotFound
      PROVE  Holds(k)
  BY <1>3, FindAnswers DEF Answer, Holds
<1>4. QED
  BY <1>2, <1>3 DEF ContentsAreEntries, Contents, Holds

LEMMA ContentsFactsNext == IInv' => ContentsAreEntries'
BY ContentsFacts, PTL

LEMMA ContentsIsFunction == Contents = [k \in DOMAIN Contents |-> Contents[k]]
BY DEF Contents

LEMMA EmptyMap == IInv /\ Present = {} => Contents = <<>>
<1> SUFFICES ASSUME IInv, Present = {}
             PROVE  Contents = <<>>
  OBVIOUS
<1>1. DOMAIN Contents = {}
  BY ContentsFacts DEF ContentsAreEntries, Holds
<1>2. QED
  BY <1>1, ContentsIsFunction

LEMMA InsertRefines ==
    ASSUME IInv, IInv', NEW k \in Keys, NEW v \in Vals, Insert(k, v)
    PROVE  Map!PInsert(k, v) \/ Contents' = Contents
<1>1. ContentsAreEntries /\ ContentsAreEntries'
  BY ContentsFacts, ContentsFactsNext
<1>2. Contents = [j \in DOMAIN Contents |-> Contents[j]]
  BY ContentsIsFunction
<1>3. Contents' = [j \in DOMAIN Contents' |-> Contents'[j]]
  BY DEF Contents
<1>4. PICK b : b = IndexOf(k)
  OBVIOUS
<1>5. PICK r : r = Place(k)
  OBVIOUS
<1>6. vec \in [Positions -> [key : {{}} \cup {{j} : j \in Keys},
                             val : {0} \cup Vals,
                             next : {NoEntry, NoNext} \cup Collisions]]
  BY DEF IInv, TypeOK
<1>7. Present \subseteq Positions /\ Collisions \subseteq Positions
  BY DEF Present, Collisions, Positions, IInv, TypeOK
<1>8. \A p : p \in Present' <=> p \in Positions' /\ vec'[p].next # NoEntry
  BY DEF Present, Empty
<1>9. \A p \in Positions : p \in Present <=> vec[p].next # NoEntry
  BY DEF Present, Empty
<1>10. CASE UNCHANGED vars
  <2>1. Present' = Present
    BY <1>10 DEF vars, Present, Positions, Empty
  <2>2. \A j : Holds(j)' <=> Holds(j)
    BY <1>10, <2>1 DEF Holds, vars
  <2>3. DOMAIN Contents' = DOMAIN Contents
    BY <1>1, <2>2 DEF ContentsAreEntries
  <2>4. \A j \in DOMAIN Contents : Contents'[j] = Contents[j]
    BY <1>1, <1>10, <2>1 DEF ContentsAreEntries, Holds, vars
  <2>5. QED
    BY <1>2, <1>3, <2>3, <2>4
<1>11. ASSUME NEW q \in Positions \ Present,
              Positions' = Positions,
              \A p \in Present : vec[p].key # {k},
              vec'[q].key = {k}, vec'[q].val = v, vec'[q].next # NoEntry,
              \A p \in Positions \ {q} : /\ vec'[p].key = vec[p].key
                                         /\ vec'[p].val = vec[p].val
                                         /\ p \in Present' <=> p \in Present
       PROVE  Map!PInsert(k, v)
  <2>1. Present' = Present \cup {q}
    BY <1>7, <1>8, <1>11
  <2>2. \A j \in Keys : Holds(j)' <=> Holds(j) \/ j = k
    <3>1. \A j : Holds(j)' <=> \E p \in Present \cup {q} : vec'[p].key = {j}
      BY <2>1 DEF Holds
    <3>2. ASSUME NEW j, NEW p \in Present \cup {q}, vec'[p].key = {j}
          PROVE  Holds(j) \/ j = k
      <4>1. CASE p = q
        BY <1>11, <3>2, <4>1
      <4>2. CASE p # q
        BY <1>7, <1>11, <3>2, <4>2 DEF Holds
      <4>3. QED
        BY <4>1, <4>2
    <3>3. ASSUME NEW j, NEW p \in Present, vec[p].key = {j}
          PROVE  vec'[p].key = {j}
      BY <1>7, <1>11, <3>3
    <3>4. ASSUME NEW j, Holds(j) \/ j = k
          PROVE  Holds(j)'
      BY <1>11, <3>1, <3>3, <3>4 DEF Holds
    <3>5. QED
      BY <3>1, <3>2, <3>4, Zenon
  <2>3. DOMAIN Contents' = DOMAIN Contents \cup {k}
    BY <1>1, <2>2 DEF ContentsAreEntries
  <2>4. k \notin DOMAIN Contents
    BY <1>1, <1>11 DEF ContentsAreEntries, Holds
  <2>5. Contents'[k] = v
    BY <1>1, <1>11, <2>1 DEF ContentsAreEntries
  <2>6. \A j \in DOMAIN Contents : Contents'[j] = Contents[j]
    <3> SUFFICES ASSUME NEW j \in DOMAIN Contents
                 PROVE  Contents'[j] = Contents[j]
      OBVIOUS
    <3>1. PICK p \in Present : vec[p].key = {j}
      BY <1>1 DEF ContentsAreEntries, Holds
    <3>2. vec'[p].key = {j} /\ vec'[p].val = vec[p].val /\ p \in Present' /\ j \in Keys
      BY <1>1, <1>7, <1>11, <2>1, <3>1 DEF ContentsAreEntries
    <3>3. QED
      BY <1>1, <3>1, <3>2 DEF ContentsAreEntries
  <2>7. Contents' = [j \in DOMAIN Contents \cup {k} |-> IF j = k THEN v ELSE Contents[j]]
    BY <1>3, <2>3, <2>4, <2>5, <2>6
  <2>8. QED
    BY <2>4, <2>7 DEF Map!PInsert, Contents
<1>12. CASE /\ b \in Positions \ Present
            /\ vec' = [vec EXCEPT ![b] = Entry(k, v, NoNext)]
            /\ size' = size + 1 /\ cap' = cap /\ hash' = hash
            /\ \A p \in Present : vec[p].key # {k}
  <2>1. Positions' = Positions
    BY <1>12 DEF Positions
  <2>2. vec'[b].key = {k} /\ vec'[b].val = v /\ vec'[b].next # NoEntry
    BY <1>6, <1>12 DEF Entry, NoNext, NoEntry
  <2>3. \A p \in Positions \ {b} : vec'[p] = vec[p]
    BY <1>6, <1>12
  <2>4. QED
    BY <1>8, <1>9, <1>11, <1>12, <2>1, <2>2, <2>3
<1>13. CASE /\ b \in Present
            /\ r \in Collisions \ Present
            /\ vec' = [vec EXCEPT ![r] = Entry(k, v, NextOfNew(b)), ![b].next = r]
            /\ size' = size + 1 /\ cap' = cap /\ hash' = hash
            /\ \A p \in Present : vec[p].key # {k}
  <2>1. Positions' = Positions
    BY <1>13 DEF Positions
  <2>2. r # b /\ vec[b].next # NoEntry /\ r # NoEntry /\ r \in Positions
    BY <1>7, <1>9, <1>13 DEF Positions, NoEntry, IInv, TypeOK
  <2>3. vec'[r].key = {k} /\ vec'[r].val = v /\ vec'[r].next # NoEntry
    BY <1>6, <1>7, <1>13, <2>2 DEF Entry, NextOfNew
  <2>4. \A p \in Positions \ {r, b} : vec'[p] = vec[p]
    BY <1>6, <1>13
  <2>5. vec'[b].key = vec[b].key /\ vec'[b].val = vec[b].val /\ vec'[b].next = r
    BY <1>6, <1>7, <1>13, <2>2
  <2>6. \A p \in Positions \ {r} : /\ vec'[p].key = vec[p].key
                                   /\ vec'[p].val = vec[p].val
                                   /\ p \in Present' <=> p \in Present
    <3> SUFFICES ASSUME NEW p \in Positions \ {r}
                 PROVE  /\ vec'[p].key = vec[p].key
                        /\ vec'[p].val = vec[p].val
                        /\ p \in Present' <=> p \in Present
      OBVIOUS
    <3>1. CASE p = b
      BY <1>8, <1>13, <2>1, <2>2, <2>5, <3>1
    <3>2. CASE p # b
      BY <1>8, <1>9, <2>1, <2>4, <3>2
    <3>3. QED
      BY <3>1, <3>2
  <2>7. r \in Positions \ Present
    BY <1>13, <2>2
  <2>8. QED
    BY <1>11, <1>13, <2>1, <2>3, <2>6, <2>7
<1>14. QED
  BY <1>4, <1>5, <1>10, <1>12, <1>13, InsertCases

LEMMA ClearRefines ==
    ASSUME IInv', Clear
    PROVE  Map!PClear
<1>1. \A p \in Positions' : vec'[p] = NothingStored
  BY DEF Cleared, Positions, Clear
<1>2. Present' = {}
  BY <1>1 DEF Present, Empty, NothingStored
<1>3. DOMAIN Contents' = {}
  BY <1>2, ContentsFactsNext DEF ContentsAreEntries, Holds
<1>4. Contents' = [j \in DOMAIN Contents' |-> Contents'[j]]
  BY DEF Contents
<1>5. Contents' = <<>>
  BY <1>3, <1>4
<1>6. QED
  BY <1>5 DEF Map!PClear, Contents

(* What find returns is a partial map: an insert adds a key that was not   *)
(* there or changes nothing (it implements PartialMap).                    *)
THEOREM ImplementsMapHolds == Spec => ImplementsMap
<1>1. Init => Map!PInit
  <2> SUFFICES ASSUME Init
               PROVE  Map!PInit
    OBVIOUS
  <2>1. IInv
    BY InitKept
  <2>2. Present = {}
    BY DEF Init, Present, Empty, Positions, NothingStored
  <2>3. QED
    BY <2>1, <2>2, EmptyMap DEF Map!PInit, Contents
<1>2. IInv /\ IInv' /\ [Next]_vars => [Map!PNext]_Contents
  <2> SUFFICES ASSUME IInv, IInv', [Next]_vars
               PROVE  Map!PNext \/ Contents' = Contents
    OBVIOUS
  <2>1. CASE UNCHANGED vars
    <3>1. Present' = Present
      BY <2>1 DEF vars, Present, Positions, Empty
    <3>2. \A j : Holds(j)' <=> Holds(j)
      BY <2>1, <3>1 DEF Holds, vars
    <3>3. ContentsAreEntries /\ ContentsAreEntries'
      BY ContentsFacts, ContentsFactsNext
    <3>4. DOMAIN Contents' = DOMAIN Contents
      BY <3>2, <3>3 DEF ContentsAreEntries
    <3>5. \A j \in DOMAIN Contents : Contents'[j] = Contents[j]
      BY <2>1, <3>1, <3>3 DEF ContentsAreEntries, Holds, vars
    <3>6. Contents' = [j \in DOMAIN Contents' |-> Contents'[j]]
      BY DEF Contents
    <3>7. QED
      BY <3>4, <3>5, <3>6, ContentsIsFunction
  <2>2. CASE Clear
    BY <2>2, ClearRefines DEF Map!PNext
  <2>3. ASSUME NEW k \in Keys, NEW v \in Vals, Insert(k, v)
        PROVE  Map!PNext \/ Contents' = Contents
    BY <2>3, InsertRefines DEF Map!PNext
  <2>4. QED
    BY <2>1, <2>2, <2>3 DEF Next
<1>3. Map!PSpec <=> Map!PInit /\ [][Map!PNext]_Contents
  BY DEF Map!PSpec, Contents
<1>4. QED
  BY <1>1, <1>2, <1>3, Inductive, PTL DEF Spec, ImplementsMap
=============================================================================
