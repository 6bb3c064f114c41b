---------------------------- MODULE OutBufProofs ----------------------------
(***************************************************************************)
(* Proofs about OutBuf for every size of the buffer, every length of the   *)
(* strings written and every set of errors: the output is in order and     *)
(* complete, and an operation that succeeds has sent what it promises.     *)
(***************************************************************************)
EXTENDS OutBuf, SequenceTheorems, TLAPS

Increasing(s) == \A i, j \in DOMAIN s : i < j => s[i] < s[j]

Below(X, Y) == \A x \in X, y \in Y : x < y

(* The iobuf keeps nothing to write between two operations, and writes a   *)
(* long string only when the buffer is empty.                              *)
AtRest ==
    /\ pc \in {"program", "lost"} => arg = <<>>
    /\ pc = "overflow" => pos = end

IInv == TypeOK /\ OutputInOrder /\ AtRest

-----------------------------------------------------------------------------
(* Sequences of characters. *)

LEMMA ConcatFacts ==
    ASSUME NEW S, NEW s \in Seq(S), NEW t \in Seq(S)
    PROVE  /\ s \o t \in Seq(S)
           /\ Range(s \o t) = Range(s) \cup Range(t)
<1>1. /\ s \o t \in Seq(S)
      /\ DOMAIN (s \o t) = 1 .. Len(s) + Len(t)
      /\ DOMAIN s = 1 .. Len(s) /\ DOMAIN t = 1 .. Len(t)
      /\ Len(s) \in Nat /\ Len(t) \in Nat
      /\ \A i \in 1 .. Len(s) : (s \o t)[i] = s[i]
      /\ \A i \in Len(s) + 1 .. Len(s) + Len(t) : (s \o t)[i] = t[i - Len(s)]
  BY ConcatProperties, LenProperties
<1>2. ASSUME NEW x \in Range(t)
      PROVE  x \in Range(s \o t)
  <2>1. PICK j \in 1 .. Len(t) : x = t[j]
    BY <1>1 DEF Range
  <2>2. Len(s) + j \in DOMAIN (s \o t) /\ (s \o t)[Len(s) + j] = x
    BY <1>1, <2>1
  <2>3. QED
    BY <2>2 DEF Range
<1>3. ASSUME NEW x \in Range(s)
      PROVE  x \in Range(s \o t)
  <2>1. PICK i \in 1 .. Len(s) : x = s[i]
    BY <1>1 DEF Range
  <2>2. i \in DOMAIN (s \o t) /\ (s \o t)[i] = x
    BY <1>1, <2>1
  <2>3. QED
    BY <2>2 DEF Range
<1>4. ASSUME NEW x \in Range(s \o t)
      PROVE  x \in Range(s) \cup Range(t)
  <2>1. PICK i \in 1 .. Len(s) + Len(t) : x = (s \o t)[i]
    BY <1>1 DEF Range
  <2>2. CASE i <= Len(s)
    BY <1>1, <2>1, <2>2 DEF Range
  <2>3. CASE i > Len(s)
    <3>1. i - Len(s) \in DOMAIN t /\ x = t[i - Len(s)]
      BY <1>1, <2>1, <2>3
    <3>2. QED
      BY <3>1 DEF Range
  <2>4. QED
    BY <1>1, <2>1, <2>2, <2>3
<1>5. QED
  BY <1>1, <1>2, <1>3, <1>4

LEMMA RangeSeq ==
    ASSUME NEW S, NEW T, NEW s \in Seq(S), Range(s) \subseteq T
    PROVE  s \in Seq(T)
<1>1. Len(s) \in Nat /\ s \in [1 .. Len(s) -> S]
  BY LenProperties
<1>2. s \in [1 .. Len(s) -> T]
  BY <1>1 DEF Range
<1>3. s \in UNION {[1 .. n -> T] : n \in Nat}
  BY <1>1, <1>2
<1>4. UNION {[1 .. n -> T] : n \in Nat} = Seq(T)
  BY SeqDef, Zenon
<1>5. QED
  BY <1>3, <1>4, Zenon

LEMMA IncreasingConcat ==
    ASSUME NEW s \in Seq(Int), NEW t \in Seq(Int)
    PROVE  Increasing(s \o t) <=> Increasing(s) /\ Increasing(t) /\ Below(Range(s), Range(t))
<1> DEFINE r == s \o t
<1>1. /\ DOMAIN r = 1 .. Len(s) + Len(t)
      /\ DOMAIN s = 1 .. Len(s) /\ DOMAIN t = 1 .. Len(t)
      /\ Len(s) \in Nat /\ Len(t) \in Nat
      /\ \A i \in 1 .. Len(s) : r[i] = s[i]
      /\ \A i \in Len(s) + 1 .. Len(s) + Len(t) : r[i] = t[i - Len(s)]
      /\ \A j \in 1 .. Len(t) : r[Len(s) + j] = t[j]
  BY ConcatProperties, LenProperties
<1> HIDE DEF r
<1>2. ASSUME Increasing(r)
      PROVE  Increasing(s) /\ Increasing(t) /\ Below(Range(s), Range(t))
  <2>1. Increasing(s)
    BY <1>1, <1>2 DEF Increasing
  <2>2. \A i, j \in DOMAIN t : i < j => t[i] < t[j]
    <3> SUFFICES ASSUME NEW i \in DOMAIN t, NEW j \in DOMAIN t, i < j
                 PROVE  t[i] < t[j]
      OBVIOUS
    <3>1. Len(s) + i \in DOMAIN r /\ Len(s) + j \in DOMAIN r
      BY <1>1
    <3>2. r[Len(s) + i] < r[Len(s) + j]
      BY <1>1, <1>2, <3>1 DEF Increasing
    <3>3. QED
      BY <1>1, <3>2
  <2>3. \A i \in DOMAIN s, j \in DOMAIN t : s[i] < t[j]
    <3> SUFFICES ASSUME NEW i \in DOMAIN s, NEW j \in DOMAIN t
                 PROVE  s[i] < t[j]
      OBVIOUS
    <3>1. i \in DOMAIN r /\ Len(s) + j \in DOMAIN r /\ i < Len(s) + j
      BY <1>1
    <3>2. r[i] < r[Len(s) + j]
      BY <1>2, <3>1 DEF Increasing
    <3>3. QED
      BY <1>1, <3>2
  <2>4. QED
    BY <2>1, <2>2, <2>3 DEF Increasing, Below, Range
<1>3. ASSUME Increasing(s), Increasing(t), Below(Range(s), Range(t))
      PROVE  Increasing(r)
  <2> SUFFICES ASSUME NEW i \in 1 .. Len(s) + Len(t), NEW j \in 1 .. Len(s) + Len(t), i < j
               PROVE  r[i] < r[j]
    BY <1>1 DEF Increasing
  <2>1. CASE j <= Len(s)
    BY <1>1, <1>3, <2>1, SMTT(30) DEF Increasing
  <2>2. CASE i <= Len(s) /\ j > Len(s)
    <3>1. r[i] = s[i] /\ r[j] = t[j - Len(s)] /\ j - Len(s) \in DOMAIN t
      BY <1>1, <2>2
    <3>2. i \in DOMAIN s
      BY <1>1, <2>2
    <3>3. s[i] < t[j - Len(s)]
      BY <1>3, <3>1, <3>2 DEF Below, Range
    <3>4. QED
      BY <3>1, <3>3
  <2>3. CASE i > Len(s)
    <3>1. /\ r[i] = t[i - Len(s)] /\ r[j] = t[j - Len(s)]
          /\ i - Len(s) \in DOMAIN t /\ j - Len(s) \in DOMAIN t /\ i - Len(s) < j - Len(s)
      BY <1>1, <2>3
    <3>2. QED
      BY <1>3, <3>1 DEF Increasing
  <2>4. QED
    BY <1>1, <2>1, <2>2, <2>3
<1>4. QED
  BY <1>2, <1>3 DEF r

(* What a device takes of a sequence, and the rest of it. *)
LEMMA Split ==
    ASSUME NEW S, NEW s \in Seq(S), NEW u \in 0 .. Len(s)
    PROVE  /\ SubSeq(s, 1, u) \in Seq(S) /\ SubSeq(s, u + 1, Len(s)) \in Seq(S)
           /\ s = SubSeq(s, 1, u) \o SubSeq(s, u + 1, Len(s))
<1>1. Len(s) \in Nat /\ DOMAIN s = 1 .. Len(s) /\ \A i \in 1 .. Len(s) : s[i] \in S
  BY LenProperties, ElementOfSeq
<1> DEFINE a == SubSeq(s, 1, u)
           b == SubSeq(s, u + 1, Len(s))
<1>2. a \in Seq(S) /\ Len(a) = u /\ \A i \in 1 .. u : a[i] = s[i]
  BY <1>1, SubSeqProperties
<1>3. b \in Seq(S) /\ Len(b) = Len(s) - u /\ \A i \in 1 .. Len(s) - u : b[i] = s[u + i]
  <2>1. /\ b \in Seq(S)
        /\ Len(b) = IF u + 1 <= Len(s) THEN Len(s) - (u + 1) + 1 ELSE 0
        /\ \A i \in 1 .. Len(s) - (u + 1) + 1 : b[i] = s[u + 1 + i - 1]
    BY <1>1, SubSeqProperties
  <2> HIDE DEF b
  <2>2. Len(b) = Len(s) - u
    <3>1. \A n, m \in Nat : \A v \in 0 .. n :
              m = (IF v + 1 <= n THEN n - (v + 1) + 1 ELSE 0) => m = n - v
      OBVIOUS
    <3>2. Len(b) \in Nat
      BY <2>1, LenProperties
    <3>3. QED
      BY <1>1, <2>1, <3>1, <3>2, Zenon
  <2>3. ASSUME NEW i \in 1 .. Len(s) - u
        PROVE  b[i] = s[u + i]
    <3>1. i \in 1 .. Len(s) - (u + 1) + 1 /\ u + 1 + i - 1 = u + i
      BY <1>1
    <3>2. QED
      BY <2>1, <3>1
  <2>4. QED
    BY <2>1, <2>2, <2>3
<1> HIDE DEF a, b
<1>4. a \o b \in Seq(S) /\ Len(a \o b) = Len(s)
      /\ \A i \in 1 .. Len(s) : (a \o b)[i] = s[i]
  <2>1. /\ a \o b \in Seq(S)
        /\ Len(a \o b) = u + (Len(s) - u)
        /\ \A i \in 1 .. u + (Len(s) - u) :
               (a \o b)[i] = IF i <= u THEN a[i] ELSE b[i - u]
    BY <1>2, <1>3, ConcatProperties
  <2> DEFINE r == a \o b
  <2>2. \A i \in 1 .. Len(s) : r[i] = s[i]
    <3> HIDE DEF r
    <3> SUFFICES ASSUME NEW i \in 1 .. Len(s)
                 PROVE  r[i] = s[i]
      OBVIOUS
    <3>1. r[i] = IF i <= u THEN a[i] ELSE b[i - u]
      BY <1>1, <2>1 DEF r
    <3>2. i > u => i - u \in 1 .. Len(s) - u /\ u + (i - u) = i
      BY <1>1
    <3>3. QED
      BY <1>1, <1>2, <1>3, <3>1, <3>2
  <2>3. QED
    BY <1>1, <2>1, <2>2
<1>5. a \o b = s
  BY <1>1, <1>4, SeqEqual
<1>6. QED
  BY <1>2, <1>3, <1>5 DEF a, b

(* One part of the stream after the other. *)
InParts(s, p, a, w, r) ==
    /\ Range(s) \cup Range(p) \cup Range(a) = (1 .. w) \ r
    /\ Increasing(s) /\ Increasing(p) /\ Increasing(a)
    /\ Below(Range(s), Range(p))
    /\ Below(Range(s) \cup Range(p), Range(a))

(* A stream is in order when its parts are, one after the other. *)
LEMMA Parts ==
    ASSUME NEW s \in Seq(Int), NEW p \in Seq(Int), NEW a \in Seq(Int)
    PROVE  \A w, r :
               Range(s \o p \o a) = (1 .. w) \ r /\ Increasing(s \o p \o a)
               <=> InParts(s, p, a, w, r)
<1> DEFINE sp == s \o p
<1>1. sp \in Seq(Int) /\ Range(sp) = Range(s) \cup Range(p)
  BY ConcatFacts
<1>2. Increasing(sp) <=> Increasing(s) /\ Increasing(p) /\ Below(Range(s), Range(p))
  BY IncreasingConcat
<1> HIDE DEF sp
<1>3. Range(sp \o a) = Range(sp) \cup Range(a)
  BY <1>1, ConcatFacts
<1>4. Increasing(sp \o a) <=> Increasing(sp) /\ Increasing(a) /\ Below(Range(sp), Range(a))
  BY <1>1, IncreasingConcat
<1>5. QED
  BY <1>1, <1>2, <1>3, <1>4 DEF sp, InParts

LEMMA EmptyFacts ==
    /\ <<>> \in Seq(Int) /\ Range(<<>>) = {} /\ Increasing(<<>>)
    /\ \A S : <<>> \in Seq(S)
BY DEF Range, Increasing

(* The characters that a write of n brings. *)
LEMMA FreshFacts ==
    ASSUME written \in Nat, NEW n \in Nat
    PROVE  /\ Fresh(n) \in Seq(1 .. written + n) /\ Len(Fresh(n)) = n
           /\ Range(Fresh(n)) = written + 1 .. written + n
           /\ Increasing(Fresh(n))
<1> DEFINE f == Fresh(n)
<1>1. f = [i \in 1 .. n |-> written + i]
  BY DEF Fresh
<1> HIDE DEF f
<1>2. f \in [1 .. n -> 1 .. written + n]
  BY <1>1
<1>3. f \in Seq(1 .. written + n)
  BY <1>2, SeqDef
<1>4. Len(f) = n
  BY <1>2, <1>3, LenProperties
<1>5. ASSUME NEW x \in written + 1 .. written + n
      PROVE  x \in Range(f)
  <2>1. x - written \in DOMAIN f /\ f[x - written] = x
    BY <1>1
  <2>2. QED
    BY <2>1 DEF Range
<1>6. Range(f) \subseteq written + 1 .. written + n
  BY <1>1 DEF Range
<1>7. Increasing(f)
  BY <1>1 DEF Increasing
<1>8. QED
  BY <1>3, <1>4, <1>5, <1>6, <1>7 DEF f

(* The characters between two positions of the buffer. *)
LEMMA WindowFacts ==
    ASSUME NEW m \in [0 .. Size - 1 -> Int], NEW p \in Nat, NEW e \in Nat,
           p <= e, e <= Size
    PROVE  LET window == [i \in 1 .. e - p |-> m[p + i - 1]]
           IN window \in Seq(Int) /\ Len(window) = e - p
<1> DEFINE window == [i \in 1 .. e - p |-> m[p + i - 1]]
<1>1. \A i \in 1 .. e - p : p + i - 1 \in 0 .. Size - 1
  BY SizeAssumption
<1>2. window \in [1 .. e - p -> Int] /\ DOMAIN window = 1 .. e - p
  BY <1>1
<1> HIDE DEF window
<1>3. e - p \in Nat
  OBVIOUS
<1>4. window \in Seq(Int)
  BY <1>2, <1>3, SeqDef
<1>5. Len(window) \in Nat /\ 1 .. Len(window) = 1 .. e - p
  BY <1>2, <1>4, LenProperties
<1>6. Len(window) = e - p
  BY <1>3, <1>5
<1>7. QED
  BY <1>4, <1>6 DEF window

LEMMA PendingFacts ==
    ASSUME TypeOK
    PROVE  /\ Pending \in Seq(Int) /\ Len(Pending) = end - pos
           /\ \A i \in 1 .. end - pos : Pending[i] = addr[pos + i - 1]
<1>1. /\ addr \in [0 .. Size - 1 -> Int] /\ pos \in Nat /\ end \in Nat
      /\ pos <= end /\ end <= Size
  BY SizeAssumption DEF TypeOK
<1>2. QED
  BY <1>1, WindowFacts DEF Pending

(* addr after a store: what was before it stays, and s is there *)
LEMMA StoredFacts ==
    ASSUME NEW w \in Nat, addr \in [0 .. Size - 1 -> 0 .. w],
           NEW n \in 0 .. Size, NEW s \in Seq(1 .. w), n + Len(s) <= Size
    PROVE  /\ Stored(n, s) \in [0 .. Size - 1 -> 0 .. w]
           /\ \A k \in 0 .. n - 1 : Stored(n, s)[k] = addr[k]
           /\ \A i \in 1 .. Len(s) : Stored(n, s)[n + i - 1] = s[i]
<1>1. Len(s) \in Nat /\ \A i \in 1 .. Len(s) : s[i] \in 1 .. w
  BY LenProperties, ElementOfSeq
<1> DEFINE a == Stored(n, s)
<1>2. a = [k \in 0 .. Size - 1 |-> IF k \in n .. n + Len(s) - 1 THEN s[k - n + 1] ELSE addr[k]]
  BY DEF Stored
<1> HIDE DEF a
<1>3. ASSUME NEW k \in 0 .. Size - 1
      PROVE  a[k] \in 0 .. w
  <2>1. CASE k \in n .. n + Len(s) - 1
    <3>1. k - n + 1 \in 1 .. Len(s) /\ a[k] = s[k - n + 1]
      BY <1>1, <1>2, <2>1
    <3>2. QED
      BY <1>1, <3>1
  <2>2. QED
    BY <1>2, <2>1
<1>4. a \in [0 .. Size - 1 -> 0 .. w]
  BY <1>2, <1>3
<1>5. \A k \in 0 .. n - 1 : a[k] = addr[k]
  BY <1>1, <1>2, SizeAssumption
<1>6. ASSUME NEW i \in 1 .. Len(s)
      PROVE  a[n + i - 1] = s[i]
  <2>1. n + i - 1 \in n .. n + Len(s) - 1 /\ n + i - 1 \in 0 .. Size - 1 /\ n + i - 1 - n + 1 = i
    BY <1>1, SizeAssumption
  <2>2. QED
    BY <1>2, <2>1
<1>7. QED
  BY <1>4, <1>5, <1>6 DEF a

-----------------------------------------------------------------------------
LEMMA StreamParts ==
    ASSUME TypeOK
    PROVE  OutputInOrder <=> InParts(sent, Pending, arg, written, refused)
<1>1. sent \in Seq(Int) /\ arg \in Seq(Int)
  BY SeqMonotonic DEF TypeOK
<1>2. Pending \in Seq(Int)
  BY PendingFacts
<1>3. OutputInOrder <=> Range(Stream) = (1 .. written) \ refused /\ Increasing(Stream)
  BY DEF OutputInOrder, Increasing
<1>4. Stream = sent \o Pending \o arg
  BY DEF Stream
<1>5. QED
  BY <1>1, <1>2, <1>3, <1>4, Parts

LEMMA StreamPartsPrimed ==
    ASSUME TypeOK'
    PROVE  /\ OutputInOrder' <=> InParts(sent', Pending', arg', written', refused')
           /\ Pending' \in Seq(Int) /\ Len(Pending') = end' - pos'
<1>1. sent' \in Seq(Int) /\ arg' \in Seq(Int)
  BY SeqMonotonic DEF TypeOK
<1>2. /\ addr' \in [0 .. Size - 1 -> Int] /\ pos' \in Nat /\ end' \in Nat
      /\ pos' <= end' /\ end' <= Size
  BY SizeAssumption DEF TypeOK
<1>3. Pending' \in Seq(Int) /\ Len(Pending') = end' - pos'
  BY <1>2, WindowFacts DEF Pending
<1>4. OutputInOrder' <=> Range(Stream') = (1 .. written') \ refused' /\ Increasing(Stream')
  BY DEF OutputInOrder, Increasing
<1>5. Stream' = sent' \o Pending' \o arg'
  BY DEF Stream
<1>6. \A s, p, a \in Seq(Int) : \A w, r :
        Range(s \o p \o a) = (1 .. w) \ r /\ Increasing(s \o p \o a)
        <=> InParts(s, p, a, w, r)
  BY Parts
<1>7. Range(sent' \o Pending' \o arg') = (1 .. written') \ refused'
      /\ Increasing(sent' \o Pending' \o arg')
      <=> InParts(sent', Pending', arg', written', refused')
  BY <1>1, <1>3, <1>6
<1>8. QED
  BY <1>3, <1>4, <1>5, <1>7

-----------------------------------------------------------------------------
(* The steps. *)

LEMMA Initial == Init => IInv
<1> SUFFICES ASSUME Init
             PROVE  IInv
  OBVIOUS
<1>1. TypeOK
  BY SizeAssumption, LengthsAssumption, EmptyFacts DEF Init, TypeOK
<1>2. Pending = <<>>
  BY <1>1, PendingFacts, EmptySeq DEF Init
<1>3. InParts(sent, Pending, arg, written, refused)
  BY <1>2, EmptyFacts DEF Init, InParts, Below
<1>4. QED
  BY <1>1, <1>3, StreamParts DEF IInv, AtRest, Init

(* What is in the buffer grows by the characters that a write stores. *)
LEMMA WriteFits ==
    ASSUME IInv, NEW what \in {"char", "string"}, NEW n \in Nat, Write(what, n), Fits(n)
    PROVE  IInv'
<1>1. /\ TypeOK /\ pc = "program" /\ arg = <<>> /\ written \in Nat
      /\ written + n <= MaxChars /\ written' = written + n
      /\ addr' = Stored(end, Fresh(n)) /\ end' = end + Len(Fresh(n)) /\ pos' = pos
      /\ pc' = "program" /\ ior' = 0 /\ then' = "none" /\ arg' = <<>>
      /\ err' = err /\ sent' = sent /\ refused' = refused
      /\ end + n <= Size
  BY DEF IInv, TypeOK, AtRest, Write, Store, Return, Fits
<1>2. /\ pos \in Nat /\ end \in Nat /\ pos <= end /\ end <= Size /\ Size \in Nat
      /\ addr \in [0 .. Size - 1 -> 0 .. written + n]
      /\ MaxChars \in Nat
  BY <1>1, SizeAssumption, LengthsAssumption DEF TypeOK
<1>3. /\ Fresh(n) \in Seq(1 .. written + n) /\ Len(Fresh(n)) = n
      /\ Range(Fresh(n)) = written + 1 .. written + n /\ Increasing(Fresh(n))
  BY <1>1, FreshFacts
<1> DEFINE f == Fresh(n)
<1>f. /\ f \in Seq(1 .. written + n) /\ f \in Seq(Int) /\ Len(f) = n
      /\ Range(f) = written + 1 .. written + n /\ Increasing(f)
      /\ addr' = Stored(end, f) /\ written + n \in Nat
  BY <1>1, <1>3, SeqMonotonic
<1> HIDE DEF f
<1>4. /\ addr' \in [0 .. Size - 1 -> 0 .. written + n]
      /\ \A k \in 0 .. end - 1 : addr'[k] = addr[k]
      /\ \A i \in 1 .. n : addr'[end + i - 1] = f[i]
  <2>1. /\ Stored(end, f) \in [0 .. Size - 1 -> 0 .. written + n]
        /\ \A k \in 0 .. end - 1 : Stored(end, f)[k] = addr[k]
        /\ \A i \in 1 .. Len(f) : Stored(end, f)[end + i - 1] = f[i]
    <3>1. PICK w \in Nat, e \in 0 .. Size : w = written + n /\ e = end
      BY <1>2, <1>f
    <3>2. PICK g \in Seq(1 .. w) : g = f
      BY <1>f, <3>1
    <3>3. addr \in [0 .. Size - 1 -> 0 .. w] /\ e + Len(g) <= Size
      BY <1>1, <1>2, <1>f, <3>1, <3>2
    <3>4. /\ Stored(e, g) \in [0 .. Size - 1 -> 0 .. w]
          /\ \A k \in 0 .. e - 1 : Stored(e, g)[k] = addr[k]
          /\ \A i \in 1 .. Len(g) : Stored(e, g)[e + i - 1] = g[i]
      BY <3>3, StoredFacts
    <3>5. QED
      BY <3>1, <3>2, <3>4
  <2>2. QED
    BY <1>f, <2>1
<1>5. TypeOK'
  <2>1. sent' \in Seq(1 .. written') /\ arg' \in Seq(1 .. written')
    BY <1>1, SeqMonotonic, EmptyFacts DEF TypeOK
  <2>2. refused' \subseteq 1 .. written' /\ written' \in 0 .. MaxChars
    BY <1>1, <1>2 DEF TypeOK
  <2>3. pos' \in 0 .. end' /\ end' \in 0 .. Size
    BY <1>1, <1>2, <1>3
  <2>4. QED
    BY <1>1, <1>4, <2>1, <2>2, <2>3 DEF TypeOK
<1>6. Pending' = Pending \o f
  <2>1. /\ Pending \in Seq(Int) /\ Len(Pending) = end - pos
        /\ \A i \in 1 .. end - pos : Pending[i] = addr[pos + i - 1]
    BY <1>1, PendingFacts
  <2>2. Pending' \in Seq(Int) /\ Len(Pending') = end' - pos'
    BY <1>5, StreamPartsPrimed
  <2> DEFINE p == Pending
             pf == Pending \o f
             pp == Pending'
  <2>4. /\ pf \in Seq(Int) /\ Len(pf) = end - pos + n
        /\ \A i \in 1 .. end - pos + n :
               pf[i] = IF i <= end - pos THEN p[i] ELSE f[i - (end - pos)]
    <3>1. p \in Seq(Int) /\ Len(p) = end - pos
      BY <2>1
    <3> HIDE DEF p
    <3>2. /\ p \o f \in Seq(Int) /\ Len(p \o f) = Len(p) + Len(f)
          /\ \A i \in 1 .. Len(p) + Len(f) :
                (p \o f)[i] = IF i <= Len(p) THEN p[i] ELSE f[i - Len(p)]
      BY <1>f, <3>1, ConcatProperties, ZenonT(30)
    <3>3. QED
      BY <1>f, <3>1, <3>2 DEF p
  <2>5. pp = [i \in 1 .. end' - pos' |-> addr'[pos' + i - 1]]
    BY DEF Pending
  <2> HIDE DEF p, pf, pp
  <2>6. ASSUME NEW i \in 1 .. end - pos + n
        PROVE  pp[i] = pf[i]
    <3>1. pp[i] = addr'[pos + i - 1]
      BY <1>1, <1>2, <1>3, <2>5
    <3>2. CASE i <= end - pos
      <4>1. pos + i - 1 \in 0 .. end - 1
        BY <1>2, <3>2
      <4>2. p[i] = addr[pos + i - 1]
        BY <2>1, <3>2, <1>2 DEF p
      <4>3. QED
        BY <1>4, <2>4, <3>1, <3>2, <4>1, <4>2
    <3>3. CASE i > end - pos
      <4>1. i - (end - pos) \in 1 .. n /\ end + (i - (end - pos)) - 1 = pos + i - 1
        BY <1>2, <3>3
      <4>2. addr'[end + (i - (end - pos)) - 1] = f[i - (end - pos)]
        BY <1>4, <4>1
      <4>3. QED
        BY <1>2, <2>4, <3>1, <3>3, <4>1, <4>2, SMTT(30)
    <3>4. QED
      BY <1>2, <3>2, <3>3
  <2>7. Len(pp) = end - pos + n /\ pp \in Seq(Int)
    <3>1. Len(pp) = end' - pos' /\ pp \in Seq(Int)
      BY <2>2 DEF pp
    <3>2. end' - pos' = end - pos + n
      BY <1>1, <1>2, <1>3
    <3>3. QED
      BY <3>1, <3>2
  <2>8. pp = pf
    BY <2>4, <2>6, <2>7, SeqEqual
  <2>9. QED
    BY <2>8 DEF pp, pf
<1>7. InParts(sent, Pending, <<>>, written, refused)
  BY <1>1, StreamParts DEF IInv
<1>8. InParts(sent', Pending', arg', written', refused')
  <2>1. Pending \in Seq(Int) /\ f \in Seq(Int)
    BY <1>1, <1>f, PendingFacts
  <2> DEFINE p == Pending
             pp == Pending'
  <2>2. Range(pp) = Range(p) \cup Range(f)
        /\ (Increasing(pp) <=> Increasing(p) /\ Increasing(f) /\ Below(Range(p), Range(f)))
    BY <1>6, <2>1, ConcatFacts, IncreasingConcat
  <2> HIDE DEF p, pp
  <2>3. Range(f) = written + 1 .. written + n /\ Increasing(f)
    BY <1>f
  <2>4. /\ Range(sent) \cup Range(p) = (1 .. written) \ refused
        /\ Increasing(sent) /\ Increasing(p) /\ Below(Range(sent), Range(p))
    BY <1>7, EmptyFacts DEF InParts, p
  <2>5. Below(Range(p), Range(f)) /\ Below(Range(sent), Range(f))
    <3>1. \A x \in Range(p) \cup Range(sent) : x \in 1 .. written
      BY <2>4
    <3>2. QED
      BY <1>1, <2>3, <3>1 DEF Below
  <2>6. Below(Range(sent), Range(pp))
    BY <2>2, <2>4, <2>5 DEF Below
  <2>7. Range(sent) \cup Range(pp) = (1 .. written + n) \ refused
    <3>1. refused \subseteq 1 .. written
      BY <1>1 DEF TypeOK
    <3>2. (1 .. written + n) \ refused
            = ((1 .. written) \ refused) \cup (written + 1 .. written + n)
      BY <1>1, <3>1
    <3>3. QED
      BY <2>2, <2>3, <2>4, <3>2
  <2>8. InParts(sent, pp, <<>>, written + n, refused)
    BY <2>2, <2>3, <2>4, <2>5, <2>6, <2>7, EmptyFacts DEF InParts, Below
  <2>9. QED
    BY <1>1, <2>8 DEF pp
<1>9. QED
  BY <1>1, <1>5, <1>8, StreamPartsPrimed DEF IInv, AtRest

LEMMA WriteFlushes ==
    ASSUME IInv, NEW what \in {"char", "string"}, NEW n \in Nat, Write(what, n), ~Fits(n)
    PROVE  IInv'
<1>1. /\ TypeOK /\ pc = "program" /\ arg = <<>> /\ written \in Nat
      /\ written + n <= MaxChars /\ written' = written + n
      /\ addr' = addr /\ pos' = pos /\ end' = end
      /\ pc' = "flush" /\ ior' = ior /\ then' = what /\ arg' = Fresh(n)
      /\ err' = err /\ sent' = sent /\ refused' = refused
  BY DEF IInv, TypeOK, AtRest, Write, StartFlush, buffer
<1> DEFINE f == Fresh(n)
<1>2. /\ f \in Seq(1 .. written + n) /\ Range(f) = written + 1 .. written + n
      /\ Increasing(f) /\ arg' = f
  BY <1>1, FreshFacts
<1> HIDE DEF f
<1>3. TypeOK'
  <2>1. sent' \in Seq(1 .. written')
    BY <1>1, SeqMonotonic DEF TypeOK
  <2>2. /\ refused' \subseteq 1 .. written' /\ written' \in 0 .. MaxChars
        /\ addr' \in [0 .. Size - 1 -> 0 .. written']
    BY <1>1, LengthsAssumption DEF TypeOK
  <2>3. QED
    BY <1>1, <1>2, <2>1, <2>2 DEF TypeOK
<1>4. InParts(sent, Pending, <<>>, written, refused)
  BY <1>1, StreamParts DEF IInv
<1>5. Pending' = Pending
  BY <1>1 DEF Pending
<1>6. InParts(sent, Pending, f, written + n, refused)
  <2> DEFINE p == Pending
  <2>1. /\ Range(sent) \cup Range(p) = (1 .. written) \ refused
        /\ Increasing(sent) /\ Increasing(p) /\ Below(Range(sent), Range(p))
    BY <1>4, EmptyFacts DEF InParts
  <2> HIDE DEF p
  <2>2. \A x \in Range(sent) \cup Range(p) : x \in 1 .. written
    BY <2>1
  <2>3. Below(Range(sent) \cup Range(p), Range(f))
    BY <1>1, <1>2, <2>2 DEF Below
  <2>4. refused \subseteq 1 .. written
    BY <1>1 DEF TypeOK
  <2>5. (1 .. written + n) \ refused
          = ((1 .. written) \ refused) \cup (written + 1 .. written + n)
    BY <1>1, <2>4
  <2>6. InParts(sent, p, f, written + n, refused)
    BY <1>2, <2>1, <2>3, <2>5 DEF InParts
  <2>7. QED
    BY <2>6 DEF p
<1>7. InParts(sent', Pending', arg', written', refused')
  BY <1>1, <1>2, <1>5, <1>6
<1>8. QED
  BY <1>1, <1>3, <1>7, StreamPartsPrimed DEF IInv, AtRest

LEMMA FlushStarts ==
    ASSUME IInv, Flush
    PROVE  IInv'
<1>1. /\ TypeOK /\ OutputInOrder /\ arg = <<>>
      /\ UNCHANGED <<addr, pos, end, ior, err, written, sent, refused>>
      /\ pc' = "flush" /\ then' = "none" /\ arg' = <<>>
  BY DEF IInv, AtRest, Flush, StartFlush, buffer
<1>2. TypeOK'
  BY <1>1 DEF TypeOK
<1>3. OutputInOrder'
  <2>1. Stream' = Stream
    BY <1>1 DEF Stream, Pending
  <2>2. QED
    BY <1>1, <2>1 DEF OutputInOrder
<1>4. QED
  BY <1>1, <1>2, <1>3 DEF IInv, AtRest

(* What the I/O function takes of the pending characters is sent, the rest *)
(* stays; after an error the operation forgets what it had to write.       *)
LEMMA FlushSomeStep ==
    ASSUME IInv, NEW u \in 0 .. MaxChars, NEW e \in {0} \cup Errors, FlushSome(u, e)
    PROVE  IInv'
<1>1. /\ TypeOK /\ pc = "flush" /\ pos < end
      /\ u \in 0 .. Len(Pending) /\ sent' = sent \o SubSeq(Pending, 1, u)
      /\ pos' = pos + u
      /\ UNCHANGED <<addr, end, written>>
      /\ \/ e = 0 /\ UNCHANGED <<err, pc, then, arg, ior, refused>>
         \/ /\ e # 0 /\ err' = e /\ arg' = <<>> /\ refused' = refused \cup Range(arg)
            /\ pc' \in {"lost", "program"} /\ then' \in {"none", then} /\ ior' \in {ior, e}
  BY DEF IInv, FlushSome, Device, PosAfter, FlushFails, Return
<1>2. /\ Pending \in Seq(Int) /\ Len(Pending) = end - pos
      /\ \A i \in 1 .. end - pos : Pending[i] = addr[pos + i - 1]
  BY <1>1, PendingFacts
<1>3. /\ pos \in Nat /\ end \in Nat /\ end <= Size /\ Size \in Nat /\ u \in 0 .. end - pos
      /\ written \in Nat
  BY <1>1, <1>2, SizeAssumption DEF TypeOK
<1>w. PICK w \in Nat : w = written
  BY <1>3
<1>4. PICK s \in Seq(1 .. w), p \in Seq(Int), a \in Seq(1 .. w) :
        s = sent /\ p = Pending /\ a = arg
  BY <1>1, <1>2, <1>w DEF TypeOK
<1> DEFINE taken == SubSeq(p, 1, u)
           rest == SubSeq(p, u + 1, Len(p))
<1>5. /\ taken \in Seq(Int) /\ rest \in Seq(Int) /\ p = taken \o rest
  BY <1>1, <1>4, Split
<1>6. InParts(s, p, a, w, refused)
  BY <1>1, <1>4, <1>w, StreamParts DEF IInv
<1> HIDE DEF taken, rest
<1>7. /\ Range(p) = Range(taken) \cup Range(rest)
      /\ Increasing(taken) /\ Increasing(rest) /\ Below(Range(taken), Range(rest))
  BY <1>5, <1>6, ConcatFacts, IncreasingConcat DEF InParts
<1>8. s \in Seq(Int) /\ a \in Seq(Int)
  BY <1>4, SeqMonotonic
<1>9. /\ Range(s \o taken) = Range(s) \cup Range(taken)
      /\ Increasing(s \o taken)
  <2>1. Below(Range(s), Range(taken)) /\ Increasing(s)
    BY <1>6, <1>7 DEF InParts, Below
  <2>2. QED
    BY <1>5, <1>7, <1>8, <2>1, ConcatFacts, IncreasingConcat
<1>10. sent' = s \o taken
  BY <1>1, <1>4 DEF taken
<1>11. Range(taken) \subseteq 1 .. w
  BY <1>6, <1>7 DEF InParts
<1>12. taken \in Seq(1 .. w)
  BY <1>5, <1>11, RangeSeq
<1>13. TypeOK'
  <2>1. sent' \in Seq(1 .. written')
    <3>1. s \o taken \in Seq(1 .. w)
      BY <1>4, <1>12, ConcatFacts
    <3>2. QED
      BY <1>1, <1>10, <1>w, <3>1
  <2>2. pos' \in 0 .. end' /\ end' \in 0 .. Size
    BY <1>1, <1>3
  <2>3. refused' \subseteq 1 .. written' /\ arg' \in Seq(1 .. written')
    <3>1. CASE e = 0
      BY <1>1, <3>1 DEF TypeOK
    <3>2. CASE e # 0
      <4>1. Range(arg) \subseteq 1 .. written
        BY <1>4, <1>6, <1>w DEF InParts
      <4>2. QED
        BY <1>1, <3>2, <4>1, EmptyFacts DEF TypeOK
    <3>3. QED
      BY <3>1, <3>2
  <2>4. QED
    BY <1>1, <2>1, <2>2, <2>3 DEF TypeOK
<1>14. Pending' = rest
  <2>1. Pending' \in Seq(Int) /\ Len(Pending') = end' - pos'
    BY <1>13, StreamPartsPrimed
  <2>2. /\ Len(rest) = IF u + 1 <= Len(p) THEN Len(p) - (u + 1) + 1 ELSE 0
        /\ \A i \in 1 .. Len(p) - (u + 1) + 1 : rest[i] = p[u + 1 + i - 1]
    <3>1. \A i \in u + 1 .. Len(p) : p[i] \in Int
      BY <1>2, <1>3, <1>4, ElementOfSeq
    <3>2. Len(p) \in Int
      BY <1>2, <1>3, <1>4
    <3>3. QED
      BY <3>1, <3>2, SubSeqProperties, SMTT(30) DEF rest
  <2> DEFINE pp == Pending'
  <2>3. pp = [i \in 1 .. end' - pos' |-> addr'[pos' + i - 1]]
    BY DEF Pending
  <2>4. end' - pos' = end - pos - u
    BY <1>1, <1>3
  <2> HIDE DEF pp
  <2>5. Len(rest) = end - pos - u
    BY <1>2, <1>3, <1>4, <2>2
  <2>6. ASSUME NEW i \in 1 .. end - pos - u
        PROVE  pp[i] = rest[i]
    <3>1. pp[i] = addr[pos + u + i - 1]
      BY <1>1, <2>3, <2>4
    <3>2. rest[i] = p[u + 1 + i - 1] /\ u + 1 + i - 1 = u + i
      BY <1>2, <1>3, <1>4, <2>2
    <3>3. u + i \in 1 .. end - pos /\ pos + (u + i) - 1 = pos + u + i - 1
      BY <1>3
    <3>4. p[u + i] = addr[pos + (u + i) - 1]
      BY <1>2, <1>4, <3>3
    <3>5. QED
      BY <3>1, <3>2, <3>3, <3>4
  <2>7. pp \in Seq(Int) /\ Len(pp) = end - pos - u
    BY <2>1, <2>4 DEF pp
  <2>8. pp = rest
    BY <1>5, <2>5, <2>6, <2>7, SeqEqual
  <2>9. QED
    BY <2>8 DEF pp
<1>15. CASE e = 0
  <2>1. InParts(s \o taken, rest, a, w, refused)
    BY <1>6, <1>7, <1>9 DEF InParts, Below
  <2>2. InParts(sent', Pending', arg', written', refused')
    BY <1>1, <1>4, <1>10, <1>14, <1>w, <1>15, <2>1
  <2>3. QED
    BY <1>1, <1>13, <1>15, <2>2, StreamPartsPrimed DEF IInv, AtRest
<1>16. CASE e # 0
  <2>1. \A x \in Range(s) \cup Range(p) : x \notin Range(a)
    BY <1>6 DEF InParts, Below
  <2>2. Range(s) \cup Range(p) = (1 .. w) \ (refused \cup Range(a))
    BY <1>6, <2>1 DEF InParts
  <2>3. InParts(s \o taken, rest, <<>>, w, refused \cup Range(a))
    BY <1>6, <1>7, <1>9, <2>2, EmptyFacts DEF InParts, Below
  <2>4. InParts(sent', Pending', arg', written', refused')
    BY <1>1, <1>4, <1>10, <1>14, <1>w, <1>16, <2>3
  <2>5. QED
    BY <1>1, <1>13, <1>16, <2>4, StreamPartsPrimed DEF IInv, AtRest
<1>17. QED
  BY <1>15, <1>16

LEMMA FlushedStep ==
    ASSUME IInv, Flushed
    PROVE  IInv'
<1>1. /\ TypeOK /\ pc = "flush" /\ pos = end /\ pos' = 0
      /\ UNCHANGED <<err, written, sent, refused>>
      /\ Size \in Nat \ {0}
  BY SizeAssumption DEF IInv, Flushed
<1>2. PICK w \in Nat : w = written
  BY <1>1 DEF TypeOK
<1>3. PICK s \in Seq(1 .. w), a \in Seq(1 .. w) : s = sent /\ a = arg
  BY <1>1, <1>2 DEF TypeOK
<1>4. Pending = <<>>
  <2>1. Pending \in Seq(Int) /\ Len(Pending) = 0
    BY <1>1, PendingFacts DEF TypeOK
  <2>2. QED
    BY <2>1, EmptySeq
<1>5. InParts(s, <<>>, a, w, refused)
  BY <1>1, <1>2, <1>3, <1>4, StreamParts DEF IInv
<1>6. CASE Len(arg) > Size
  <2>1. /\ pc' = "overflow" /\ end' = 0 /\ UNCHANGED <<addr, then, arg, ior>>
    BY <1>6 DEF Flushed
  <2>2. TypeOK'
    BY <1>1, <2>1 DEF TypeOK
  <2>3. Pending' = <<>>
    <3>1. Pending' \in Seq(Int) /\ Len(Pending') = end' - pos'
      BY <2>2, StreamPartsPrimed
    <3>2. Len(Pending') = 0
      BY <1>1, <2>1, <3>1
    <3>3. QED
      BY <3>1, <3>2, EmptySeq
  <2>4. InParts(sent', Pending', arg', written', refused')
    BY <1>1, <1>2, <1>3, <1>5, <2>1, <2>3
  <2>5. QED
    BY <1>1, <2>1, <2>2, <2>4, StreamPartsPrimed DEF IInv, AtRest
<1>7. CASE ~(Len(arg) > Size)
  <2>1. /\ addr' = Stored(0, a) /\ end' = Len(a)
        /\ pc' = "program" /\ ior' = 0 /\ then' = "none" /\ arg' = <<>>
    BY <1>3, <1>7 DEF Flushed, Return
  <2>2. Len(a) \in Nat /\ Len(a) <= Size
    BY <1>1, <1>3, <1>7, LenProperties
  <2>3. addr \in [0 .. Size - 1 -> 0 .. w]
    BY <1>1, <1>2 DEF TypeOK
  <2>4. /\ Stored(0, a) \in [0 .. Size - 1 -> 0 .. w]
        /\ \A i \in 1 .. Len(a) : Stored(0, a)[0 + i - 1] = a[i]
    <3>1. 0 \in 0 .. Size /\ 0 + Len(a) <= Size
      BY <1>1, <2>2
    <3>2. QED
      BY <2>3, <3>1, StoredFacts
  <2>5. TypeOK'
    BY <1>1, <1>2, <2>1, <2>2, <2>4, EmptyFacts DEF TypeOK
  <2>6. Pending' = a
    <3> DEFINE pp == Pending'
    <3>1. pp \in Seq(Int) /\ Len(pp) = end' - pos'
      BY <2>5, StreamPartsPrimed
    <3>2. pp = [i \in 1 .. end' - pos' |-> addr'[pos' + i - 1]]
      BY DEF Pending
    <3>3. end' - pos' = Len(a) /\ \A i \in Int : pos' + i - 1 = 0 + i - 1
      BY <1>1, <2>1, <2>2
    <3> HIDE DEF pp
    <3>4. \A i \in 1 .. Len(a) : pp[i] = a[i]
      BY <2>1, <2>2, <2>4, <3>2, <3>3
    <3>5. a \in Seq(Int)
      BY SeqMonotonic
    <3>6. pp = a
      BY <3>1, <3>3, <3>4, <3>5, SeqEqual
    <3>7. QED
      BY <3>6 DEF pp
  <2>7. InParts(s, a, <<>>, w, refused)
    BY <1>5, EmptyFacts DEF InParts, Below
  <2>8. InParts(sent', Pending', arg', written', refused')
    BY <1>1, <1>2, <1>3, <2>1, <2>6, <2>7
  <2>9. QED
    BY <1>1, <2>1, <2>5, <2>8, StreamPartsPrimed DEF IInv, AtRest
<1>8. QED
  BY <1>6, <1>7

(* A string too long for the buffer goes to the I/O function, part by part. *)
LEMMA OverflowSomeStep ==
    ASSUME IInv, NEW u \in 0 .. MaxChars, NEW e \in {0} \cup Errors, OverflowSome(u, e)
    PROVE  IInv'
<1>1. /\ TypeOK /\ pc = "overflow" /\ pos = end
      /\ u \in 0 .. Len(arg) /\ sent' = sent \o SubSeq(arg, 1, u)
      /\ UNCHANGED <<addr, pos, end, written>>
      /\ \/ e = 0 /\ arg' = Rest(u) /\ UNCHANGED <<err, pc, then, ior, refused>>
         \/ /\ e # 0 /\ err' = e /\ arg' = <<>> /\ refused' = refused \cup Range(Rest(u))
            /\ pc' = "program" /\ then' = "none" /\ ior' = e
  BY DEF IInv, AtRest, OverflowSome, Device, Return, buffer
<1>w. PICK w \in Nat : w = written
  BY <1>1 DEF TypeOK
<1>2. PICK s \in Seq(1 .. w), a \in Seq(1 .. w) : s = sent /\ a = arg
  BY <1>1, <1>w DEF TypeOK
<1>3. Pending = <<>>
  <2>1. Pending \in Seq(Int) /\ Len(Pending) = 0
    BY <1>1, PendingFacts DEF TypeOK
  <2>2. QED
    BY <2>1, EmptySeq
<1>4. InParts(s, <<>>, a, w, refused)
  BY <1>1, <1>w, <1>2, <1>3, StreamParts DEF IInv
<1> DEFINE taken == SubSeq(a, 1, u)
           rest == SubSeq(a, u + 1, Len(a))
<1>5. /\ taken \in Seq(1 .. w) /\ rest \in Seq(1 .. w) /\ a = taken \o rest
  BY <1>1, <1>2, Split
<1>6. sent' = s \o taken /\ Rest(u) = rest
  BY <1>1, <1>2 DEF Rest
<1> HIDE DEF taken, rest
<1>7. s \in Seq(Int) /\ taken \in Seq(Int) /\ rest \in Seq(Int)
  BY <1>5, SeqMonotonic
<1>8. /\ Range(a) = Range(taken) \cup Range(rest)
      /\ Increasing(taken) /\ Increasing(rest) /\ Below(Range(taken), Range(rest))
  BY <1>4, <1>5, <1>7, ConcatFacts, IncreasingConcat DEF InParts
<1>9. /\ Range(s \o taken) = Range(s) \cup Range(taken)
      /\ Increasing(s \o taken) /\ s \o taken \in Seq(1 .. w)
  <2>1. Below(Range(s), Range(taken)) /\ Increasing(s)
    BY <1>4, <1>8 DEF InParts, Below
  <2>2. QED
    BY <1>5, <1>7, <1>8, <2>1, ConcatFacts, IncreasingConcat
<1>10. TypeOK'
  <2>1. refused' \subseteq 1 .. written' /\ arg' \in Seq(1 .. written')
    <3>1. Range(rest) \subseteq 1 .. w
      BY <1>4, <1>8 DEF InParts
    <3>2. refused \subseteq 1 .. w
      BY <1>1, <1>w DEF TypeOK
    <3>3. QED
      BY <1>1, <1>w, <1>5, <1>6, <3>1, <3>2, EmptyFacts
  <2>2. sent' \in Seq(1 .. written')
    BY <1>1, <1>w, <1>6, <1>9
  <2>3. QED
    BY <1>1, <2>1, <2>2 DEF TypeOK
<1>11. Pending' = <<>>
  BY <1>1, <1>3 DEF Pending
<1>12. CASE e = 0
  <2>1. InParts(s \o taken, <<>>, rest, w, refused)
    BY <1>4, <1>8, <1>9, EmptyFacts DEF InParts, Below
  <2>2. InParts(sent', Pending', arg', written', refused')
    BY <1>1, <1>w, <1>6, <1>11, <1>12, <2>1
  <2>3. QED
    BY <1>1, <1>10, <1>12, <2>2, StreamPartsPrimed DEF IInv, AtRest
<1>13. CASE e # 0
  <2>1. \A x \in Range(s) \cup Range(taken) : x \notin Range(rest)
    BY <1>4, <1>8 DEF InParts, Below
  <2>2. Range(s) \cup Range(taken) = (1 .. w) \ (refused \cup Range(rest))
    BY <1>4, <1>8, <2>1, EmptyFacts DEF InParts
  <2>3. InParts(s \o taken, <<>>, <<>>, w, refused \cup Range(rest))
    BY <1>9, <2>2, EmptyFacts DEF InParts, Below
  <2>4. InParts(sent', Pending', arg', written', refused')
    BY <1>1, <1>w, <1>6, <1>11, <1>13, <2>3
  <2>5. QED
    BY <1>1, <1>10, <1>13, <2>4, StreamPartsPrimed DEF IInv, AtRest
<1>14. QED
  BY <1>12, <1>13

LEMMA OverflowDoneStep ==
    ASSUME IInv, OverflowDone
    PROVE  IInv'
<1>1. /\ TypeOK /\ OutputInOrder /\ arg = <<>>
      /\ UNCHANGED <<addr, pos, end, err, written, sent, refused>>
      /\ pc' = "program" /\ ior' = 0 /\ then' = "none" /\ arg' = <<>>
  BY DEF IInv, OverflowDone, OverflowEnds, Return, buffer
<1>2. TypeOK'
  BY <1>1 DEF TypeOK
<1>3. Stream' = Stream
  BY <1>1 DEF Stream, Pending
<1>4. QED
  BY <1>1, <1>2, <1>3 DEF IInv, AtRest, OutputInOrder

LEMMA StutterStep ==
    ASSUME IInv, UNCHANGED vars
    PROVE  IInv'
<1>1. TypeOK' /\ AtRest'
  BY DEF IInv, vars, TypeOK, AtRest
<1>2. Stream' = Stream
  BY DEF vars, Stream, Pending
<1>3. QED
  BY <1>1, <1>2 DEF IInv, OutputInOrder, vars

LEMMA NextStep == IInv /\ [Next]_vars => IInv'
<1> SUFFICES ASSUME IInv, [Next]_vars
             PROVE  IInv'
  OBVIOUS
<1>1. ASSUME NEW what \in {"char", "string"}, NEW n \in Nat, Write(what, n)
      PROVE  IInv'
  BY <1>1, WriteFits, WriteFlushes
<1>2. CASE WriteChar
  BY <1>1, <1>2 DEF WriteChar
<1>3. ASSUME NEW n \in Lengths, WriteString(n)
      PROVE  IInv'
  BY <1>1, <1>3, LengthsAssumption DEF WriteString
<1>4. CASE Flush
  BY <1>4, FlushStarts
<1>5. ASSUME NEW u \in 0 .. MaxChars, NEW e \in {0} \cup Errors,
             FlushSome(u, e) \/ OverflowSome(u, e)
      PROVE  IInv'
  BY <1>5, FlushSomeStep, OverflowSomeStep
<1>6. CASE Flushed
  BY <1>6, FlushedStep
<1>7. CASE OverflowDone
  BY <1>7, OverflowDoneStep
<1>8. CASE Lost \/ UNCHANGED vars
  BY <1>8, StutterStep DEF Lost
<1>9. QED
  BY <1>2, <1>3, <1>4, <1>5, <1>6, <1>7, <1>8 DEF Next, Program, Iobuf

-----------------------------------------------------------------------------
(* The theorems. *)

(* What the iobuf has sent, what its buffer holds and what it still has to *)
(* write are always the characters written, in order.                      *)
THEOREM Inductive == Spec => []IInv
BY Initial, NextStep, PTL DEF Spec

(* addr, pos and end of the iobuf always bound characters that were        *)
(* written, and the two positions stay in the buffer.                      *)
THEOREM TypeCorrect == Spec => []TypeOK
<1>1. IInv => TypeOK
  BY DEF IInv
<1>2. QED
  BY <1>1, Inductive, PTL

(* obuf-flush and (obuf-overflow) lose, repeat and reorder nothing, for    *)
(* every size of the buffer and every behaviour of the I/O function.       *)
THEOREM OutputInOrderHolds == Spec => []OutputInOrder
<1>1. IInv => OutputInOrder
  BY DEF IInv
<1>2. QED
  BY <1>1, Inductive, PTL

(* obuf-flush and the writes that flush return 0 only if everything was    *)
(* sent that had to be.                                                    *)
THEOREM SuccessSendsAllHolds == Spec => SuccessSendsAll
<1> DEFINE Promise ==
        (pc \in {"flush", "overflow"}) /\ pc' = "program" /\ ior' = 0 =>
            (1 .. written) \ refused = Range(sent') \cup JustStored
<1>1. ASSUME IInv, [Next]_vars
      PROVE  [Promise]_vars
  <2> SUFFICES ASSUME pc \in {"flush", "overflow"}, pc' = "program", ior' = 0
               PROVE  (1 .. written) \ refused = Range(sent') \cup JustStored
    OBVIOUS
  <2>1. TypeOK /\ InParts(sent, Pending, arg, written, refused)
    BY <1>1, StreamParts DEF IInv
  <2>2. pos = end => Pending = <<>>
    <3>1. Pending \in Seq(Int) /\ (pos = end => Len(Pending) = 0)
      BY <2>1, PendingFacts DEF TypeOK
    <3>2. QED
      BY <3>1, EmptySeq
  <2>3. CASE Flushed
    <3>1. pos = end /\ sent' = sent /\ pc = "flush"
      BY <2>3 DEF Flushed
    <3>2. QED
      BY <2>1, <2>2, <3>1, EmptyFacts DEF InParts, JustStored
  <2>4. CASE OverflowDone
    <3>1. pos = end /\ sent' = sent /\ pc = "overflow" /\ arg = <<>>
      BY <1>1, <2>4 DEF OverflowDone, OverflowEnds, IInv, AtRest
    <3>2. QED
      BY <2>1, <2>2, <3>1, EmptyFacts DEF InParts, JustStored
  <2>5. ASSUME NEW u \in 0 .. MaxChars, NEW e \in {0} \cup Errors,
               FlushSome(u, e) \/ OverflowSome(u, e)
        PROVE  FALSE
    BY <2>5 DEF FlushSome, OverflowSome, FlushFails, Return
  <2>6. ~Program /\ ~Lost /\ ~UNCHANGED vars
    BY DEF Program, WriteChar, WriteString, Write, Flush, Lost, vars
  <2>7. QED
    BY <1>1, <2>3, <2>4, <2>5, <2>6 DEF Next, Iobuf
<1>2. QED
  BY <1>1, Inductive, PTL DEF Spec, SuccessSendsAll
=============================================================================
