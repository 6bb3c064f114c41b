-------------------------- MODULE DictionaryProofs --------------------------
(***************************************************************************)
(* Proofs about Dictionary for every set of names and wordlists, every     *)
(* size of cells, tokens, headers and data space, and every dictionary of  *)
(* built-in words whose links lead down.                                   *)
(*                                                                         *)
(* IInv describes the wordlists without following them: some set L of      *)
(* headers has every word that a wordlist begins with and every word one   *)
(* of L refers to, and the words of L have their bytes to themselves below *)
(* HERE, those of the last word above all the others.  What Chain, a       *)
(* recursive function, makes of such headers follows from what it does at  *)
(* one header, by arguments on the smallest counterexample.                *)
(***************************************************************************)
EXTENDS Dictionary, Induction, SequenceTheorems

LEMMA Arithmetic ==
    ASSUME NEW a \in Int
    PROVE  /\ Aligned(a) \in Int /\ a <= Aligned(a)
           /\ WordXt(a) \in Int /\ a < WordXt(a)
BY SizesAssumption DEF Aligned, WordXt

LEMMA FrontShorter ==
    ASSUME NEW S, NEW s \in Seq(S), s # <<>>
    PROVE  Front(s) \in Seq(S) /\ Len(Front(s)) = Len(s) - 1
<1>1. Len(s) \in Nat \ {0} /\ \A i \in 1 .. Len(s) : s[i] \in S
  BY EmptySeq, LenProperties, ElementOfSeq
<1>2. SubSeq(s, 1, Len(s) - 1) \in Seq(S) /\ Len(SubSeq(s, 1, Len(s) - 1)) = Len(s) - 1
  BY <1>1, SubSeqProperties, SMTT(30)
<1>3. QED
  BY <1>2 DEF Front

---------------------------------------------------------------------------
(* Links of a set of headers lead down, and there is a lowest header.      *)
Linked(m) == /\ DOMAIN m \subseteq Int
             /\ \A a \in DOMAIN m : WordPrev(m, a) \in Int
             /\ \E low \in Int : \A a \in DOMAIN m : low <= a

(* The recursive function of Chain exists: what it has to be below an      *)
(* address is unique, and for every address there is one.                  *)
Step(m, f, a) == IF a \notin DOMAIN m THEN <<>>
                 ELSE <<a>> \o (IF WordPrev(m, a) < a THEN f[WordPrev(m, a)] ELSE <<>>)
SolvedBelow(m, f, b) == \A a \in Int : a < b => f[a] = Step(m, f, a)

LEMMA SolutionsAgree ==
    ASSUME NEW m, Linked(m), NEW b \in Int, NEW f, NEW g, SolvedBelow(m, f, b), SolvedBelow(m, g, b),
           NEW a \in Int, a < b
    PROVE  f[a] = g[a]
<1> DEFINE T == {x \in Int : x < b /\ f[x] # g[x]}
<1> SUFFICES ASSUME T # {}
             PROVE  FALSE
  OBVIOUS
<1>1. PICK low \in Int : \A x \in DOMAIN m : low <= x
  BY DEF Linked
<1>2. \A x \in T : x \in DOMAIN m
  BY DEF SolvedBelow, Step
<1>3. T \subseteq Int /\ \A x \in T : low <= x
  BY <1>1, <1>2
<1> HIDE DEF T
<1>4. PICK x \in T : \A y \in T : x <= y
  BY <1>3, LeastInt
<1>5. x \in Int /\ x < b /\ f[x] # g[x]
  BY DEF T
<1>6. WordPrev(m, x) \in Int
  BY <1>2 DEF Linked
<1>7. ASSUME WordPrev(m, x) < x
      PROVE  f[WordPrev(m, x)] = g[WordPrev(m, x)]
  <2>1. WordPrev(m, x) < b
    BY <1>5, <1>6, <1>7
  <2>2. WordPrev(m, x) \notin T
    BY <1>3, <1>4, <1>5, <1>6, <1>7
  <2>3. QED
    BY <1>6, <2>1, <2>2 DEF T
<1>8. Step(m, f, x) = Step(m, g, x)
  BY <1>7 DEF Step
<1>9. QED
  BY <1>5, <1>8 DEF SolvedBelow

LEMMA SolutionBelow ==
    ASSUME NEW m, Linked(m), NEW b \in Int
    PROVE  \E f : SolvedBelow(m, f, b)
<1>1. PICK low \in Int : \A x \in DOMAIN m : low <= x
  BY DEF Linked
<1> DEFINE T == {x \in Int : low <= x /\ \A f : ~ SolvedBelow(m, f, x)}
           none == [a \in Int |-> <<>>]
<1>2. ASSUME NEW x \in Int, x <= low
      PROVE  SolvedBelow(m, none, x)
  BY <1>1, <1>2 DEF SolvedBelow, Step
<1>3. ASSUME T # {}
      PROVE  FALSE
  <2>1. T \subseteq Int /\ \A x \in T : low <= x
    OBVIOUS
  <2>2. PICK x \in T : \A y \in T : x <= y
    <3> HIDE DEF T
    <3> QED
      BY <1>3, <2>1, LeastInt
  <2>3. x \in Int /\ low <= x /\ \A f : ~ SolvedBelow(m, f, x)
    BY <2>2
  <2>4. x - 1 \notin T
    <3> HIDE DEF T
    <3> QED
      BY <2>2, <2>3
  <2>5. PICK f : SolvedBelow(m, f, x - 1)
    <3>1. CASE low <= x - 1
      BY <2>3, <2>4, <3>1
    <3>2. CASE ~ (low <= x - 1)
      BY <1>2, <2>3, <3>2
    <3>3. QED
      BY <3>1, <3>2
  <2> DEFINE g == [a \in Int |-> IF a = x - 1 THEN Step(m, f, a) ELSE f[a]]
  <2>6. ASSUME NEW a \in Int, a < x
        PROVE  g[a] = Step(m, g, a)
    <3>1. g[a] = Step(m, f, a)
      <4>1. CASE a = x - 1
        BY <4>1
      <4>2. CASE a # x - 1
        <5>1. a < x - 1
          BY <2>3, <2>6, <4>2
        <5>2. QED
          BY <2>5, <4>2, <5>1 DEF SolvedBelow
      <4>3. QED
        BY <4>1, <4>2
    <3>2. ASSUME a \in DOMAIN m, WordPrev(m, a) < a
          PROVE  g[WordPrev(m, a)] = f[WordPrev(m, a)]
      <4>1. WordPrev(m, a) \in Int
        BY <3>2 DEF Linked
      <4>2. WordPrev(m, a) # x - 1
        BY <2>3, <2>6, <3>2, <4>1
      <4>3. QED
        BY <4>1, <4>2
    <3>3. Step(m, f, a) = Step(m, g, a)
      <4> HIDE DEF g
      <4> QED
        BY <3>2 DEF Step
    <3>4. QED
      BY <3>1, <3>3
  <2>7. SolvedBelow(m, g, x)
    <3> HIDE DEF g
    <3> QED
      BY <2>6 DEF SolvedBelow
  <2>8. QED
    BY <2>3, <2>7
<1>4. b \notin T
  BY <1>3
<1>5. CASE low <= b
  BY <1>4, <1>5
<1>6. CASE ~ (low <= b)
  BY <1>2, <1>6
<1>7. QED
  BY <1>5, <1>6

(* What Chain computes.                                                    *)
LEMMA ChainStep ==
    ASSUME NEW m, Linked(m), NEW nt \in Int
    PROVE  Chain(m, nt) =
               IF nt \notin DOMAIN m THEN <<>>
               ELSE <<nt>> \o (IF WordPrev(m, nt) < nt THEN Chain(m, WordPrev(m, nt)) ELSE <<>>)
<1> DEFINE Eq(f) == f = [a \in Int |-> IF a \notin DOMAIN m THEN <<>>
                                       ELSE <<a>> \o (IF WordPrev(m, a) < a THEN f[WordPrev(m, a)] ELSE <<>>)]
           chain == CHOOSE f : Eq(f)
           below(a) == CHOOSE f : SolvedBelow(m, f, a + 1)
           F == [a \in Int |-> below(a)[a]]
<1>1. \A a \in Int : SolvedBelow(m, below(a), a + 1)
  <2> SUFFICES ASSUME NEW a \in Int
               PROVE  SolvedBelow(m, below(a), a + 1)
    OBVIOUS
  <2>1. a + 1 \in Int
    OBVIOUS
  <2>2. \E f : SolvedBelow(m, f, a + 1)
    BY <2>1, SolutionBelow
  <2>3. QED
    BY <2>2, Zenon
<1> HIDE DEF below
<1>2. ASSUME NEW a \in Int
      PROVE  F[a] = Step(m, F, a)
  <2>1. F[a] = Step(m, below(a), a)
    BY <1>1 DEF SolvedBelow
  <2>2. ASSUME a \in DOMAIN m, WordPrev(m, a) < a
        PROVE  below(a)[WordPrev(m, a)] = F[WordPrev(m, a)]
    <3>1. PICK p \in Int : p = WordPrev(m, a)
      BY <2>2 DEF Linked
    <3>2. p < a
      BY <2>2, <3>1
    <3>3. SolvedBelow(m, below(a), p + 1) /\ SolvedBelow(m, below(p), p + 1)
      <4>1. SolvedBelow(m, below(a), a + 1) /\ SolvedBelow(m, below(p), p + 1)
        BY <1>1
      <4>2. \A x \in Int : x < p + 1 => x < a + 1
        BY <3>2
      <4>3. QED
        BY <4>1, <4>2 DEF SolvedBelow
    <3>4. p + 1 \in Int /\ p < p + 1
      OBVIOUS
    <3>5. below(a)[p] = below(p)[p]
      BY <3>3, <3>4, SolutionsAgree
    <3>6. QED
      BY <3>1, <3>5
  <2>3. Step(m, below(a), a) = Step(m, F, a)
    <3> HIDE DEF F
    <3> QED
      BY <2>2 DEF Step
  <2>4. QED
    BY <2>1, <2>3
<1> HIDE DEF F
<1>3. Eq(F)
  <2>1. F = [a \in Int |-> F[a]]
    BY DEF F
  <2>2. \A a \in Int : F[a] = IF a \notin DOMAIN m THEN <<>>
                              ELSE <<a>> \o (IF WordPrev(m, a) < a THEN F[WordPrev(m, a)] ELSE <<>>)
    BY <1>2 DEF Step
  <2>3. QED
    BY <2>1, <2>2
<1>4. Eq(chain)
  <2> HIDE DEF Eq
  <2> QED
    BY <1>3, Zenon
<1>5. \A a \in Int : chain[a] = Chain(m, a)
  BY DEF Chain
<1> HIDE DEF chain
<1>6. \A a \in Int : chain[a] = IF a \notin DOMAIN m THEN <<>>
                                ELSE <<a>> \o (IF WordPrev(m, a) < a THEN chain[WordPrev(m, a)] ELSE <<>>)
  BY <1>4
<1>7. nt \in DOMAIN m => WordPrev(m, nt) \in Int
  BY DEF Linked
<1>8. QED
  BY <1>5, <1>6, <1>7

(* Headers that only refer to each other: what a wordlist chains.          *)
ClosedIn(m, K) == /\ Linked(m) /\ 0 \notin DOMAIN m /\ K \subseteq DOMAIN m
                  /\ \A a \in K : WordPrev(m, a) \in {0} \cup {b \in K : b < a}

Decreasing(s) == \A i, j \in DOMAIN s : i < j => s[j] < s[i]

LEMMA ChainUnfolds ==
    ASSUME NEW m, NEW K, ClosedIn(m, K)
    PROVE  /\ Chain(m, 0) = <<>>
           /\ \A a \in K : Chain(m, a) = <<a>> \o Chain(m, WordPrev(m, a))
<1>1. Chain(m, 0) = <<>>
  <2>1. Linked(m) /\ 0 \in Int /\ 0 \notin DOMAIN m
    BY DEF ClosedIn
  <2>2. Chain(m, 0) = IF 0 \notin DOMAIN m THEN <<>>
                      ELSE <<0>> \o (IF WordPrev(m, 0) < 0 THEN Chain(m, WordPrev(m, 0)) ELSE <<>>)
    BY <2>1, ChainStep, Zenon
  <2>3. QED
    BY <2>1, <2>2
<1>2. ASSUME NEW a \in K
      PROVE  Chain(m, a) = <<a>> \o Chain(m, WordPrev(m, a))
  <2>1. a \in Int /\ a \in DOMAIN m /\ WordPrev(m, a) \in Int
    BY DEF ClosedIn, Linked
  <2>2. CASE WordPrev(m, a) = 0
    <3>1. (IF WordPrev(m, a) < a THEN Chain(m, WordPrev(m, a)) ELSE <<>>) = <<>>
      BY <1>1, <2>2
    <3>2. QED
      BY <1>1, <2>1, <2>2, <3>1, ChainStep DEF ClosedIn
  <2>3. CASE WordPrev(m, a) # 0
    <3>1. WordPrev(m, a) < a
      BY <2>3 DEF ClosedIn
    <3>2. QED
      BY <2>1, <3>1, ChainStep DEF ClosedIn
  <2>4. QED
    BY <2>2, <2>3
<1>3. QED
  BY <1>1, <1>2

(* A number before a sequence of smaller ones.                             *)
LEMMA DecreasingPushed ==
    ASSUME NEW K, K \subseteq Int, NEW a \in K, NEW s \in Seq(K), Decreasing(s),
           \A i \in DOMAIN s : s[i] < a
    PROVE  /\ <<a>> \o s \in Seq(K) /\ Decreasing(<<a>> \o s)
           /\ \A i \in DOMAIN (<<a>> \o s) : (<<a>> \o s)[i] <= a
<1> DEFINE t == <<a>> \o s
<1>1. Len(s) \in Nat /\ DOMAIN s = 1 .. Len(s) /\ a \in Int /\ \A i \in 1 .. Len(s) : s[i] \in Int
  <2>1. Len(s) \in Nat /\ DOMAIN s = 1 .. Len(s)
    OBVIOUS
  <2>2. \A i \in 1 .. Len(s) : s[i] \in K
    OBVIOUS
  <2>3. \A x \in K : x \in Int
    OBVIOUS
  <2>4. QED
    BY <2>1, <2>2, <2>3, Zenon
<1>2. /\ t \in Seq(K) /\ Len(t) = Len(s) + 1 /\ DOMAIN t = 1 .. (Len(s) + 1)
      /\ t[1] = a /\ \A i \in 2 .. (Len(s) + 1) : t[i] = s[i - 1]
  <2>1. <<a>> \in Seq(K) /\ Len(<<a>>) = 1 /\ <<a>>[1] = a
    OBVIOUS
  <2>2. t \in Seq(K) /\ Len(t) = Len(s) + 1
    BY <2>1
  <2>3. DOMAIN t = 1 .. (Len(s) + 1)
    BY <2>2
  <2>4. t[1] = a
    BY <1>1, <2>1
  <2>5. \A i \in 2 .. (Len(s) + 1) : t[i] = s[i - 1]
    BY <1>1, <2>1
  <2>6. QED
    BY <2>2, <2>3, <2>4, <2>5
<1> HIDE DEF t
<1>3. \A i \in 2 .. (Len(s) + 1) : i - 1 \in 1 .. Len(s)
  BY <1>1
<1>4. \A i \in DOMAIN t : i = 1 \/ i \in 2 .. (Len(s) + 1)
  BY <1>1, <1>2
<1>5. \A i \in DOMAIN t : i # 1 => t[i] < a
  BY <1>1, <1>2, <1>3, <1>4
<1>6. ASSUME NEW i \in DOMAIN t, NEW j \in DOMAIN t, i < j
      PROVE  t[j] < t[i]
  <2>1. i \in Int /\ j \in Int /\ j # 1 /\ j \in 2 .. (Len(s) + 1)
    BY <1>1, <1>2, <1>6
  <2>2. CASE i = 1
    BY <1>2, <1>5, <2>1, <2>2
  <2>3. CASE i # 1
    <3>1. i \in 2 .. (Len(s) + 1)
      BY <1>4, <2>3
    <3>2. i - 1 \in DOMAIN s /\ j - 1 \in DOMAIN s /\ i - 1 < j - 1
      BY <1>1, <1>3, <1>6, <2>1, <3>1
    <3>3. s[j - 1] < s[i - 1]
      BY <3>2 DEF Decreasing
    <3>4. QED
      BY <1>2, <2>1, <3>1, <3>3
  <2>4. QED
    BY <2>2, <2>3
<1>7. \A i \in DOMAIN t : t[i] <= a
  <2>1. \A i \in DOMAIN t : t[i] \in K
    BY <1>2
  <2>2. QED
    BY <1>1, <1>2, <1>5, <2>1
<1>8. QED
  BY <1>2, <1>6, <1>7 DEF Decreasing, t

(* What a wordlist chains are its headers, newest first.                   *)
LEMMA ChainFacts ==
    ASSUME NEW m, NEW K, ClosedIn(m, K), NEW nt \in K \cup {0}
    PROVE  /\ Chain(m, nt) \in Seq(K) /\ Decreasing(Chain(m, nt))
           /\ \A i \in DOMAIN Chain(m, nt) : Chain(m, nt)[i] <= nt
<1> DEFINE Good(a) == /\ Chain(m, a) \in Seq(K) /\ Decreasing(Chain(m, a))
                      /\ \A i \in DOMAIN Chain(m, a) : Chain(m, a)[i] <= a
           T == {a \in K : ~ Good(a)}
<1>1. Good(0)
  <2>1. Chain(m, 0) = <<>>
    BY ChainUnfolds
  <2>2. <<>> \in Seq(K) /\ DOMAIN <<>> = {}
    OBVIOUS
  <2>3. QED
    BY <2>1, <2>2 DEF Decreasing
<1>2. K \subseteq Int
  BY DEF ClosedIn, Linked
<1>3. PICK low \in Int : \A x \in DOMAIN m : low <= x
  BY DEF ClosedIn, Linked
<1>4. T \subseteq Int /\ \A x \in T : low <= x
  BY <1>2, <1>3 DEF ClosedIn
<1> HIDE DEF Good
<1>5. ASSUME T # {}
      PROVE  FALSE
  <2>1. PICK a \in T : \A x \in T : a <= x
    <3> HIDE DEF T
    <3> QED
      BY <1>4, <1>5, LeastInt
  <2>2. a \in K /\ a \in Int /\ ~ Good(a)
    BY <1>2, <2>1
  <2>3. PICK p \in K \cup {0} : p = WordPrev(m, a) /\ (p = 0 \/ p < a)
    BY <2>2 DEF ClosedIn
  <2>4. Good(p)
    <3>1. CASE p = 0
      BY <1>1, <3>1
    <3>2. CASE p # 0
      <4>1. p \in K /\ p \in Int /\ p < a
        BY <1>2, <2>3, <3>2
      <4>2. p \notin T
        <5> HIDE DEF T
        <5> QED
          BY <2>1, <2>2, <4>1
      <4>3. QED
        BY <4>1, <4>2
    <3>3. QED
      BY <3>1, <3>2
  <2> DEFINE s == Chain(m, p)
  <2>5. s \in Seq(K) /\ Decreasing(s) /\ \A i \in DOMAIN s : s[i] <= p
    BY <2>4 DEF Good
  <2>6. Chain(m, a) = <<a>> \o s
    BY <2>2, <2>3, ChainUnfolds
  <2>7. p = 0 => s = <<>>
    BY ChainUnfolds
  <2> HIDE DEF s
  <2>8. \A i \in DOMAIN s : s[i] < a
    <3>1. CASE p = 0
      BY <2>7, <3>1
    <3>2. CASE p # 0
      <4>1. p \in Int /\ p < a /\ \A i \in DOMAIN s : s[i] \in Int
        <5>1. \A i \in DOMAIN s : s[i] \in K
          BY <2>5
        <5>2. QED
          BY <1>2, <2>3, <3>2, <5>1
      <4>2. QED
        BY <2>2, <2>5, <4>1
    <3>3. QED
      BY <3>1, <3>2
  <2>9. Good(a)
    BY <1>2, <2>2, <2>5, <2>6, <2>8, DecreasingPushed DEF Good
  <2>10. QED
    BY <2>2, <2>9
<1>6. Good(nt)
  BY <1>1, <1>5
<1>7. QED
  BY <1>6 DEF Good

(* Chains only depend on the links of the headers in them.                 *)
LEMMA SameChain ==
    ASSUME NEW m, NEW n, NEW K, ClosedIn(m, K), Linked(n), 0 \notin DOMAIN n,
           \A a \in K : a \in DOMAIN n /\ WordPrev(n, a) = WordPrev(m, a),
           NEW nt \in K \cup {0}
    PROVE  Chain(n, nt) = Chain(m, nt)
<1>1. ClosedIn(n, K)
  BY DEF ClosedIn
<1> DEFINE T == {a \in K : Chain(n, a) # Chain(m, a)}
<1>2. K \subseteq Int
  BY DEF ClosedIn, Linked
<1>3. PICK low \in Int : \A x \in DOMAIN m : low <= x
  BY DEF ClosedIn, Linked
<1>4. T \subseteq Int /\ \A x \in T : low <= x
  BY <1>2, <1>3 DEF ClosedIn
<1>5. Chain(n, 0) = Chain(m, 0)
  BY <1>1, ChainUnfolds
<1>6. ASSUME T # {}
      PROVE  FALSE
  <2>1. PICK a \in T : \A x \in T : a <= x
    <3> HIDE DEF T
    <3> QED
      BY <1>4, <1>6, LeastInt
  <2>2. a \in K /\ a \in Int /\ Chain(n, a) # Chain(m, a)
    BY <1>2, <2>1
  <2>3. PICK p \in K \cup {0} : p = WordPrev(m, a) /\ (p = 0 \/ p < a)
    BY <2>2 DEF ClosedIn
  <2>4. Chain(n, p) = Chain(m, p)
    <3>1. CASE p = 0
      BY <1>5, <3>1
    <3>2. CASE p # 0
      <4>1. p \in K /\ p \in Int /\ p < a
        BY <1>2, <2>3, <3>2
      <4>2. p \notin T
        <5> HIDE DEF T
        <5> QED
          BY <2>1, <2>2, <4>1
      <4>3. QED
        BY <4>1, <4>2
    <3>3. QED
      BY <3>1, <3>2
  <2>5. WordPrev(n, a) = p
    BY <2>2, <2>3
  <2>6. Chain(m, a) = <<a>> \o Chain(m, p)
    BY <2>2, <2>3, ChainUnfolds
  <2>7. Chain(n, a) = <<a>> \o Chain(n, p)
    <3> HIDE DEF T
    <3> QED
      BY <1>1, <2>2, <2>5, ChainUnfolds
  <2>8. QED
    BY <2>2, <2>4, <2>6, <2>7
<1>7. QED
  BY <1>5, <1>6

---------------------------------------------------------------------------
(* The inductive invariant.  L is a set with all words of wordlists, and   *)
(* possibly words that were in one before everything was forgotten.        *)

HeadersTyped ==
    /\ mem \in [DOMAIN mem -> Header] /\ DOMAIN mem \subseteq Int
    /\ \A nt \in DOMAIN BuiltIns : nt \in DOMAIN mem /\ mem[nt] = BuiltIns[nt]
    /\ \A nt \in DOMAIN mem \ DOMAIN BuiltIns :
          /\ DataStart <= Start(nt)
          /\ mem[nt].name \in Names \cup {<<>>}
          /\ "create" \in mem[nt].flags => mem[nt].code # "data address"

StateTyped ==
    /\ here \in DataStart .. DataSpace /\ latest \in 0 .. DataSpace
    /\ state = 0 \/ (state = WordXt(latest) /\ latest \in DOMAIN mem /\ state <= here)
    /\ sys \in Seq(SUBSET {"noname"})
    /\ last \in [Wids -> Int] /\ \A w \in Wids \ wids : last[w] = 0

SearchTyped ==
    /\ BuiltInWids \subseteq wids /\ wids \subseteq Wids /\ current \in wids
    /\ order \in Seq(wids) /\ Len(order) <= SearchOrderMax

(* wordlists begin with a word of L and no word of L refers to another one *)
Closed(L) ==
    /\ L \subseteq DOMAIN mem \ DOMAIN BuiltIns
    /\ \A w \in Wids : last[w] \in L \cup {0}
    /\ \A nt \in L : WordPrev(mem, nt) \in {0} \cup {a \in L \cup DOMAIN BuiltIns : a < nt}
Apart(L) == \A v \in L : End(v) <= here /\ \A w \in L : v < w => End(v) <= Start(w)
(* the last word begins after all words of L, or is the last one of them   *)
OnTop(L) ==
    latest \in DOMAIN mem =>
       /\ \A v \in L \ {latest} : End(v) <= Start(latest)
       /\ IF latest \in L THEN state = 0 /\ DataAddr(latest) <= here ELSE mem[latest].data_n = 0
Live(L) == Closed(L) /\ Apart(L) /\ OnTop(L)
WordsLive == \E L \in SUBSET DOMAIN mem : Live(L)

IInv == HeadersTyped /\ StateTyped /\ SearchTyped /\ WordsLive

---------------------------------------------------------------------------
(* Where a header and what belongs to it are.                              *)
LEMMA Extents ==
    HeadersTyped =>
      \A a \in DOMAIN mem :
        /\ mem[a] \in Header /\ a \in Int /\ Start(a) \in Int /\ Start(a) <= a
        /\ WordXt(a) \in Int /\ a < WordXt(a)
        /\ DataAddr(a) \in Int /\ WordXt(a) + SZt * mem[a].code_n \in Int
        /\ WordXt(a) <= WordXt(a) + SZt * mem[a].code_n
        /\ WordXt(a) + SZt * mem[a].code_n <= DataAddr(a)
        /\ End(a) \in Int /\ WordXt(a) + SZt * mem[a].code_n <= End(a)
        /\ mem[a].data_n # 0 => DataAddr(a) < End(a) /\ End(a) = DataAddr(a) + mem[a].data_n
        /\ WordPrev(mem, a) \in Int
<1> SUFFICES ASSUME HeadersTyped, NEW a \in DOMAIN mem
             PROVE  /\ mem[a] \in Header /\ a \in Int /\ Start(a) \in Int /\ Start(a) <= a
                    /\ WordXt(a) \in Int /\ a < WordXt(a)
                    /\ DataAddr(a) \in Int /\ WordXt(a) + SZt * mem[a].code_n \in Int
                    /\ WordXt(a) <= WordXt(a) + SZt * mem[a].code_n
                    /\ WordXt(a) + SZt * mem[a].code_n <= DataAddr(a)
                    /\ End(a) \in Int /\ WordXt(a) + SZt * mem[a].code_n <= End(a)
                    /\ mem[a].data_n # 0 => DataAddr(a) < End(a) /\ End(a) = DataAddr(a) + mem[a].data_n
                    /\ WordPrev(mem, a) \in Int
  OBVIOUS
<1>1. mem[a] \in Header /\ a \in Int
  BY DEF HeadersTyped
<1>2. PICK h \in Header : h = mem[a]
  BY <1>1
<1>3. h.name_off \in Nat /\ h.prev_off \in Nat /\ h.code_n \in Nat /\ h.data_n \in Nat
  BY DEF Header
<1>4. PICK c \in Nat : c = SZt * h.code_n
  BY <1>3, SizesAssumption
<1>5. WordXt(a) \in Int /\ a < WordXt(a)
  BY <1>1, Arithmetic
<1>6. PICK x \in Int : x = WordXt(a) + c
  BY <1>5
<1>7. Aligned(x) \in Int /\ x <= Aligned(x)
  BY Arithmetic
<1>8. PICK d \in Int : d = Aligned(x)
  BY <1>7
<1>9. DataAddr(a) = d /\ x <= d
  BY <1>2, <1>4, <1>6, <1>7, <1>8 DEF DataAddr
<1>10. End(a) = IF h.data_n = 0 THEN x ELSE d + h.data_n
  BY <1>2, <1>4, <1>6, <1>9 DEF End
<1>11. Start(a) = a - h.name_off
  BY <1>2 DEF Start
<1>12. WordPrev(mem, a) = IF h.prev_off = 0 THEN 0 ELSE a - h.prev_off
  BY <1>2 DEF WordPrev
<1>13. WordXt(a) + SZt * mem[a].code_n = x /\ WordXt(a) <= x
  BY <1>2, <1>4, <1>5, <1>6
<1>14. Start(a) \in Int /\ Start(a) <= a /\ WordPrev(mem, a) \in Int
  BY <1>1, <1>3, <1>11, <1>12
<1>15. End(a) \in Int /\ x <= End(a) /\ (h.data_n # 0 => d < End(a) /\ End(a) = d + h.data_n)
  BY <1>3, <1>9, <1>10
<1>16. QED
  BY <1>1, <1>2, <1>5, <1>9, <1>13, <1>14, <1>15

(* The same after a step.                                                  *)
ExtentsHold ==
      \A a \in DOMAIN mem :
        /\ mem[a] \in Header /\ a \in Int /\ Start(a) \in Int /\ Start(a) <= a
        /\ WordXt(a) \in Int /\ a < WordXt(a)
        /\ DataAddr(a) \in Int /\ WordXt(a) + SZt * mem[a].code_n \in Int
        /\ WordXt(a) <= WordXt(a) + SZt * mem[a].code_n
        /\ WordXt(a) + SZt * mem[a].code_n <= DataAddr(a)
        /\ End(a) \in Int /\ WordXt(a) + SZt * mem[a].code_n <= End(a)
        /\ mem[a].data_n # 0 => DataAddr(a) < End(a) /\ End(a) = DataAddr(a) + mem[a].data_n
        /\ WordPrev(mem, a) \in Int

LEMMA ExtentsAfter ==
    HeadersTyped' =>
      \A a \in DOMAIN mem' :
        /\ mem'[a] \in Header /\ a \in Int /\ Start(a)' \in Int /\ Start(a)' <= a
        /\ WordXt(a) \in Int /\ a < WordXt(a)
        /\ DataAddr(a)' \in Int /\ WordXt(a) + SZt * mem'[a].code_n \in Int
        /\ WordXt(a) <= WordXt(a) + SZt * mem'[a].code_n
        /\ WordXt(a) + SZt * mem'[a].code_n <= DataAddr(a)'
        /\ End(a)' \in Int /\ WordXt(a) + SZt * mem'[a].code_n <= End(a)'
        /\ mem'[a].data_n # 0 => DataAddr(a)' < End(a)' /\ End(a)' = DataAddr(a)' + mem'[a].data_n
        /\ WordPrev(mem', a) \in Int
<1>1. HeadersTyped => ExtentsHold
  BY Extents DEF ExtentsHold
<1>2. HeadersTyped' => ExtentsHold'
  BY <1>1, PTL
<1>3. QED
  BY <1>2 DEF ExtentsHold

(* Built-in words have negative addresses, the others positive ones.       *)
LEMMA Signs ==
    HeadersTyped => /\ \A a \in DOMAIN BuiltIns : a < 0 /\ WordXt(a) <= 0
                    /\ \A a \in DOMAIN mem \ DOMAIN BuiltIns : a \in Int /\ 0 < a /\ DataStart <= a
                    /\ 0 \notin DOMAIN mem
<1> SUFFICES ASSUME HeadersTyped
             PROVE  /\ \A a \in DOMAIN BuiltIns : a < 0 /\ WordXt(a) <= 0
                    /\ \A a \in DOMAIN mem \ DOMAIN BuiltIns : a \in Int /\ 0 < a /\ DataStart <= a
                    /\ 0 \notin DOMAIN mem
  OBVIOUS
<1>1. \A a \in DOMAIN BuiltIns : a < 0 /\ WordXt(a) <= 0
  BY BuiltInsAssumption, SizesAssumption DEF WordXt
<1>2. DataStart \in Int /\ 0 < DataStart
  BY SizesAssumption DEF DataStart
<1>3. \A a \in DOMAIN mem \ DOMAIN BuiltIns : a \in Int /\ 0 < a /\ DataStart <= a
  <2> SUFFICES ASSUME NEW a \in DOMAIN mem \ DOMAIN BuiltIns
               PROVE  a \in Int /\ 0 < a /\ DataStart <= a
    OBVIOUS
  <2>1. DataStart <= Start(a)
    BY DEF HeadersTyped
  <2>2. a \in Int /\ Start(a) \in Int /\ Start(a) <= a
    BY Extents
  <2>3. QED
    BY <1>2, <2>1, <2>2
<1>4. QED
  BY <1>1, <1>3

SignsHold == /\ \A a \in DOMAIN BuiltIns : a < 0 /\ WordXt(a) <= 0
             /\ \A a \in DOMAIN mem \ DOMAIN BuiltIns : a \in Int /\ 0 < a /\ DataStart <= a
             /\ 0 \notin DOMAIN mem

LEMMA SignsAfter ==
    HeadersTyped' => /\ \A a \in DOMAIN BuiltIns : a < 0 /\ WordXt(a) <= 0
                    /\ \A a \in DOMAIN mem' \ DOMAIN BuiltIns : a \in Int /\ 0 < a /\ DataStart <= a
                    /\ 0 \notin DOMAIN mem'
<1>1. HeadersTyped => SignsHold
  BY Signs DEF SignsHold
<1>2. HeadersTyped' => SignsHold'
  BY <1>1, PTL
<1>3. QED
  BY <1>2 DEF SignsHold

(* What Overwritten leaves is as it was.                                   *)
LEMMA OverwrittenKeeps ==
    ASSUME NEW m, NEW a, NEW b
    PROVE  /\ DOMAIN Overwritten(m, a, b) \subseteq DOMAIN m
           /\ \A x \in DOMAIN Overwritten(m, a, b) : Overwritten(m, a, b)[x] = m[x]
           /\ \A x \in DOMAIN m : WordXt(x) <= a => x \in DOMAIN Overwritten(m, a, b)
BY DEF Overwritten

(* The fields that a step keeps of a word that can be found.               *)
SameWord(h, g) ==
    /\ g.name = h.name /\ g.name_off = h.name_off /\ g.prev_off = h.prev_off /\ g.code_n = h.code_n
    /\ h.code \in {"call does", "data address"} => g.code = h.code
    /\ h.flags \cap {"immediate"} \subseteq g.flags

(* name, puts a header at or after HERE and keeps those before HERE.       *)
NewHeader(name, off) == [name |-> name, name_off |-> off, prev_off |-> 0, flags |-> {},
                         code |-> "tokens", code_n |-> 0, data_n |-> 0]

LEMMA NameCommaFacts ==
    ASSUME HeadersTyped, NEW h \in Int, h = here, DataStart <= h, NEW name \in Seq(Nat)
    PROVE  \E nt \in Int, off \in Nat :
              /\ nt = NameComma(mem, name).nt
              /\ h <= nt - off /\ h <= nt /\ nt \notin DOMAIN BuiltIns
              /\ DOMAIN NameComma(mem, name).mem \subseteq DOMAIN mem \cup {nt}
              /\ nt \in DOMAIN NameComma(mem, name).mem
              /\ NameComma(mem, name).mem[nt] = NewHeader(name, off)
              /\ \A a \in DOMAIN NameComma(mem, name).mem \ {nt} : NameComma(mem, name).mem[a] = mem[a]
              /\ \A a \in DOMAIN mem : WordXt(a) <= h => a # nt /\ a \in DOMAIN NameComma(mem, name).mem
<1> DEFINE pad == IF name = <<>> THEN 0 ELSE 2 * (Len(name) + 1)
           nt0 == Aligned(here + pad)
           off0 == IF name = <<>> THEN 0 ELSE nt0 - here
           rest == Overwritten(mem, here, WordXt(nt0))
           m == [a \in DOMAIN rest \cup {nt0} |-> IF a = nt0 THEN NewHeader(name, off0) ELSE rest[a]]
<1>1. pad \in Nat
  OBVIOUS
<1>2. here + pad \in Int /\ h <= here + pad
  BY <1>1
<1>3. nt0 \in Int /\ h <= nt0
  <2> HIDE DEF pad
  <2>1. Aligned(here + pad) \in Int /\ here + pad <= Aligned(here + pad)
    BY <1>2, Arithmetic
  <2>2. QED
    BY <1>2, <2>1
<1>4. NameComma(mem, name) = [nt |-> nt0, mem |-> m]
  BY DEF NameComma, NewHeader
<1> HIDE DEF pad
<1>5. off0 \in Nat /\ h <= nt0 - off0
  BY <1>3
<1>6. NameComma(mem, name).nt = nt0 /\ NameComma(mem, name).mem = m
  BY <1>4
<1>7. nt0 \notin DOMAIN BuiltIns
  BY <1>3, Signs, SizesAssumption DEF DataStart
<1>8. \A a \in DOMAIN mem : WordXt(a) <= h => a # nt0
  <2>1. \A a \in DOMAIN mem : a \in Int /\ WordXt(a) \in Int /\ a < WordXt(a)
    BY Extents
  <2>2. QED
    BY <1>3, <2>1
<1> HIDE DEF nt0, off0
<1>9. /\ DOMAIN m = DOMAIN rest \cup {nt0} /\ m[nt0] = NewHeader(name, off0)
      /\ \A a \in DOMAIN m \ {nt0} : a \in DOMAIN rest /\ m[a] = rest[a]
  OBVIOUS
<1>10. /\ DOMAIN rest \subseteq DOMAIN mem
       /\ \A x \in DOMAIN rest : rest[x] = mem[x]
       /\ \A x \in DOMAIN mem : WordXt(x) <= here => x \in DOMAIN rest
  BY OverwrittenKeeps
<1> HIDE DEF m, rest
<1>11. QED
  BY <1>3, <1>5, <1>6, <1>7, <1>8, <1>9, <1>10

(* The headers a step leaves as they were but for what finding created     *)
(* words variables changes.                                                *)
AlmostSame(h, g) == /\ g \in Header /\ SameWord(h, g) /\ g.data_n = h.data_n
                    /\ "create" \in g.flags => g = h

LEMMA LatestOptimizedKeeps ==
    ASSUME NEW m, NEW l, l = latest, m \in [DOMAIN m -> Header]
    PROVE  /\ LatestOptimized(m) \in [DOMAIN m -> Header]
           /\ \A a \in DOMAIN m : AlmostSame(m[a], LatestOptimized(m)[a])
           /\ \A a \in DOMAIN m : a # l \/ "create" \notin m[a].flags => LatestOptimized(m)[a] = m[a]
<1>1. \A a \in DOMAIN m : m[a] \in Header
  OBVIOUS
<1>2. CASE ~ (l \in DOMAIN m /\ "create" \in m[l].flags /\ m[l].code = "call noop")
  <2>1. LatestOptimized(m) = m
    BY <1>2 DEF LatestOptimized
  <2>2. QED
    BY <1>1, <2>1 DEF AlmostSame, SameWord
<1>3. CASE l \in DOMAIN m /\ "create" \in m[l].flags /\ m[l].code = "call noop"
  <2> DEFINE g == [m[l] EXCEPT !.code = "data address", !.flags = (@ \ {"create"}) \cup {"var"}]
  <2>1. LatestOptimized(m) = [m EXCEPT ![l].code = "data address", ![l].flags = (@ \ {"create"}) \cup {"var"}]
    BY <1>3 DEF LatestOptimized
  <2>2. LatestOptimized(m) = [m EXCEPT ![l] = g]
    BY <1>1, <1>3, <2>1 DEF Header
  <2>3. m[l] \in Header
    BY <1>1, <1>3
  <2>4. /\ g \in Header /\ g.name = m[l].name /\ g.name_off = m[l].name_off /\ g.prev_off = m[l].prev_off
        /\ g.code_n = m[l].code_n /\ g.data_n = m[l].data_n
        /\ g.flags = (m[l].flags \ {"create"}) \cup {"var"}
    <3>1. m[l].flags \in SUBSET {"create", "var", "value", "immediate"}
      BY <2>3 DEF Header
    <3>2. (m[l].flags \ {"create"}) \cup {"var"} \in SUBSET {"create", "var", "value", "immediate"}
      BY <3>1
    <3>3. /\ g.name = m[l].name /\ g.name_off = m[l].name_off /\ g.prev_off = m[l].prev_off
          /\ g.code_n = m[l].code_n /\ g.data_n = m[l].data_n
          /\ g.flags = (m[l].flags \ {"create"}) \cup {"var"}
      BY <2>3 DEF Header
    <3>4. g \in Header
      BY <2>3, <3>2 DEF Header
    <3>5. QED
      BY <3>3, <3>4
  <2> HIDE DEF g
  <2>5. AlmostSame(m[l], g)
    BY <1>3, <2>4 DEF AlmostSame, SameWord
  <2>6. /\ LatestOptimized(m) \in [DOMAIN m -> Header]
        /\ \A a \in DOMAIN m : LatestOptimized(m)[a] = IF a = l THEN g ELSE m[a]
    <3>1. g \in Header /\ l \in DOMAIN m
      BY <1>3, <2>4
    <3>2. [m EXCEPT ![l] = g] \in [DOMAIN m -> Header]
      BY <3>1
    <3>3. \A a \in DOMAIN m : [m EXCEPT ![l] = g][a] = IF a = l THEN g ELSE m[a]
      BY <3>1
    <3>4. QED
      BY <2>2, <3>2, <3>3
  <2>7. \A a \in DOMAIN m : AlmostSame(m[a], LatestOptimized(m)[a])
    BY <1>1, <2>5, <2>6 DEF AlmostSame, SameWord
  <2>8. QED
    BY <1>3, <2>6, <2>7
<1>4. QED
  BY <1>2, <1>3

(* A step that makes or changes one header, nt, and leaves the others.     *)
LEMMA HeadersAfter ==
    ASSUME HeadersTyped, NEW nt \in Int, nt \notin DOMAIN BuiltIns,
           mem' = [a \in DOMAIN mem' |-> mem'[a]],
           DOMAIN mem' \subseteq DOMAIN mem \cup {nt}, DOMAIN BuiltIns \subseteq DOMAIN mem',
           \A a \in DOMAIN BuiltIns : mem'[a] = mem[a],
           \A a \in DOMAIN mem' \ {nt} : AlmostSame(mem[a], mem'[a]),
           nt \in DOMAIN mem' =>
              /\ mem'[nt] \in Header /\ mem'[nt].name \in Names \cup {<<>>}
              /\ DataStart <= nt - mem'[nt].name_off
              /\ "create" \in mem'[nt].flags => mem'[nt].code # "data address"
    PROVE  HeadersTyped'
<1>1. \A a \in DOMAIN mem' : mem'[a] \in Header
  BY DEF AlmostSame
<1>2. mem' \in [DOMAIN mem' -> Header] /\ DOMAIN mem' \subseteq Int
  BY <1>1 DEF HeadersTyped
<1>3. ASSUME NEW a \in DOMAIN mem' \ DOMAIN BuiltIns
      PROVE  /\ DataStart <= Start(a)'
             /\ mem'[a].name \in Names \cup {<<>>}
             /\ "create" \in mem'[a].flags => mem'[a].code # "data address"
  <2>1. CASE a = nt
    BY <2>1 DEF Start
  <2>2. CASE a # nt
    <3>1. a \in DOMAIN mem \ DOMAIN BuiltIns /\ AlmostSame(mem[a], mem'[a])
      BY <2>2
    <3>2. /\ DataStart <= Start(a) /\ mem[a].name \in Names \cup {<<>>}
          /\ "create" \in mem[a].flags => mem[a].code # "data address"
      BY <3>1 DEF HeadersTyped
    <3>3. mem'[a].name_off = mem[a].name_off /\ mem'[a].name = mem[a].name
      BY <3>1 DEF AlmostSame, SameWord
    <3>4. Start(a)' = Start(a)
      BY <3>3 DEF Start
    <3>5. "create" \in mem'[a].flags => mem'[a] = mem[a]
      BY <3>1 DEF AlmostSame
    <3>6. QED
      BY <3>2, <3>3, <3>4, <3>5
  <2>3. QED
    BY <2>1, <2>2
<1>4. \A a \in DOMAIN BuiltIns : a \in DOMAIN mem' /\ mem'[a] = BuiltIns[a]
  BY DEF HeadersTyped
<1>5. QED
  BY <1>2, <1>3, <1>4 DEF HeadersTyped

(* What a step does to the words that can be found.                        *)
Keeps(L) == \A a \in L \cup DOMAIN BuiltIns : a \in DOMAIN mem' /\ SameWord(mem[a], mem'[a])
KeepsData(L) == \A a \in L : mem'[a].data_n = mem[a].data_n

LEMMA KeptWord ==
    ASSUME NEW a, SameWord(mem[a], mem'[a])
    PROVE  /\ Start(a)' = Start(a) /\ DataAddr(a)' = DataAddr(a) /\ WordPrev(mem', a) = WordPrev(mem, a)
           /\ mem'[a].data_n = mem[a].data_n => End(a)' = End(a)
BY DEF SameWord, Start, DataAddr, WordPrev, End

LEMMA ClosedStays ==
    ASSUME NEW L, Closed(L), Keeps(L), last' = last
    PROVE  Closed(L)'
<1>1. \A a \in L : WordPrev(mem', a) = WordPrev(mem, a)
  BY KeptWord DEF Keeps
<1>2. QED
  BY <1>1 DEF Closed, Keeps

LEMMA ApartStays ==
    ASSUME NEW L, Apart(L), Keeps(L), KeepsData(L), \A a \in L : End(a) <= here'
    PROVE  Apart(L)'
<1>1. \A a \in L : End(a)' = End(a) /\ Start(a)' = Start(a)
  BY KeptWord DEF Keeps, KeepsData
<1>2. QED
  BY <1>1 DEF Apart

(* What a wordlist begins with is below a word above all others.           *)
LEMMA LastWordBelow ==
    ASSUME HeadersTyped, SearchTyped, NEW L, Closed(L), NEW nt \in Int, 0 < nt, \A a \in L : a < nt
    PROVE  LastWord(current) \in {0} \cup {a \in L \cup DOMAIN BuiltIns : a < nt} /\ LastWord(current) \in Int
<1>1. current \in Wids
  BY DEF SearchTyped
<1>2. \A a \in DOMAIN BuiltIns : a \in Int /\ a < nt
  <2>1. \A a \in DOMAIN BuiltIns : a \in Int /\ a < 0
    BY Signs, BuiltInsAssumption
  <2>2. QED
    BY <2>1
<1>3. last[current] \in L \cup {0}
  BY <1>1 DEF Closed
<1>4. current \in BuiltInWids => Dict[current] \in DOMAIN BuiltIns \cup {0}
  BY BuiltInsAssumption
<1>5. LastWord(current) \in L \cup DOMAIN BuiltIns \cup {0}
  BY <1>1, <1>3, <1>4, WidsAssumption DEF LastWord
<1>6. \A a \in L : a \in Int
  BY DEF Closed, HeadersTyped
<1>7. QED
  BY <1>2, <1>5, <1>6

(* A new word on top of all others.                                        *)
LEMMA LivePushed ==
    ASSUME HeadersTyped, HeadersTyped', SearchTyped, StateTyped,
           NEW L, Closed(L), Apart(L), Keeps(L), KeepsData(L),
           NEW nt \in DOMAIN mem', nt \notin DOMAIN BuiltIns, nt = latest', state' = 0,
           WordPrev(mem', nt) = LastWord(current), last' = [last EXCEPT ![current] = nt],
           \A a \in L : a # nt /\ End(a) <= here' /\ End(a) <= Start(nt)',
           End(nt)' <= here', DataAddr(nt)' <= here'
    PROVE  Live(L \cup {nt})'
<1>1. /\ nt \in Int /\ Start(nt)' \in Int /\ Start(nt)' <= nt /\ nt < WordXt(nt)
      /\ End(nt)' \in Int /\ nt < End(nt)' /\ WordXt(nt) \in Int
  <2>1. \A a \in DOMAIN mem' : /\ a \in Int /\ Start(a)' \in Int /\ Start(a)' <= a /\ a < WordXt(a) /\ WordXt(a) \in Int
                               /\ End(a)' \in Int
                               /\ WordXt(a) <= WordXt(a) + SZt * mem'[a].code_n
                               /\ WordXt(a) + SZt * mem'[a].code_n <= End(a)'
                               /\ WordXt(a) + SZt * mem'[a].code_n \in Int
    BY ExtentsAfter
  <2>2. PICK x \in Int : x = WordXt(nt) + SZt * mem'[nt].code_n
    BY <2>1
  <2>3. /\ nt \in Int /\ Start(nt)' \in Int /\ Start(nt)' <= nt /\ nt < WordXt(nt) /\ WordXt(nt) \in Int
        /\ End(nt)' \in Int /\ WordXt(nt) <= x /\ x <= End(nt)'
    BY <2>1, <2>2
  <2>4. QED
    BY <2>3
<1>2. \A a \in L : a \in DOMAIN mem /\ a \in Int /\ a < WordXt(a) /\ WordXt(a) \in Int /\ End(a) \in Int /\ WordXt(a) <= End(a)
  <2> SUFFICES ASSUME NEW a \in L
               PROVE  a \in DOMAIN mem /\ a \in Int /\ a < WordXt(a) /\ WordXt(a) \in Int /\ End(a) \in Int /\ WordXt(a) <= End(a)
    OBVIOUS
  <2>1. a \in DOMAIN mem
    BY DEF Closed
  <2>2. PICK x \in Int : x = WordXt(a) + SZt * mem[a].code_n
    BY <2>1, Extents
  <2>3. a \in Int /\ a < WordXt(a) /\ WordXt(a) \in Int /\ End(a) \in Int /\ WordXt(a) <= x /\ x <= End(a)
    BY <2>1, <2>2, Extents
  <2>4. QED
    BY <2>1, <2>3
<1>3. \A a \in L : a < nt /\ ~ (nt < a)
  <2> SUFFICES ASSUME NEW a \in L
               PROVE  a < nt /\ ~ (nt < a)
    OBVIOUS
  <2>1. End(a) <= Start(nt)'
    OBVIOUS
  <2>2. QED
    BY <1>1, <1>2, <2>1
<1>5. current \in Wids
  BY DEF SearchTyped
<1>6. LastWord(current) \in {0} \cup {a \in L \cup DOMAIN BuiltIns : a < nt}
  <2>1. nt \in DOMAIN mem' \ DOMAIN BuiltIns
    OBVIOUS
  <2>2. 0 < nt
    BY <2>1, SignsAfter
  <2>3. QED
    BY <1>1, <1>3, <2>2, LastWordBelow
<1>7. Closed(L \cup {nt})'
  <2>1. L \cup {nt} \subseteq DOMAIN mem' \ DOMAIN BuiltIns
    BY DEF Closed, Keeps
  <2>2. \A w \in Wids : last'[w] \in (L \cup {nt}) \cup {0}
    BY DEF Closed, StateTyped
  <2>3. \A a \in L : WordPrev(mem', a) = WordPrev(mem, a)
    BY KeptWord DEF Keeps
  <2>4. \A a \in L : WordPrev(mem', a) \in {0} \cup {b \in (L \cup {nt}) \cup DOMAIN BuiltIns : b < a}
    BY <2>3 DEF Closed
  <2>5. WordPrev(mem', nt) \in {0} \cup {b \in (L \cup {nt}) \cup DOMAIN BuiltIns : b < nt}
    BY <1>6
  <2>6. QED
    BY <2>1, <2>2, <2>4, <2>5 DEF Closed
<1>8. Apart(L \cup {nt})'
  <2>1. \A a \in L : End(a)' = End(a) /\ Start(a)' = Start(a)
    BY KeptWord DEF Keeps, KeepsData
  <2>2. \A v \in L : End(v)' <= here' /\ End(v)' <= Start(nt)' /\ \A w \in L : v < w => End(v)' <= Start(w)'
    BY <2>1 DEF Apart
  <2>3. ~ (nt < nt)
    BY <1>1
  <2>4. QED
    BY <1>3, <2>2, <2>3 DEF Apart
<1>9. OnTop(L \cup {nt})'
  <2>1. \A a \in L : End(a)' = End(a)
    BY KeptWord DEF Keeps, KeepsData
  <2>2. QED
    BY <2>1 DEF OnTop
<1>10. QED
  BY <1>7, <1>8, <1>9 DEF Live

---------------------------------------------------------------------------
(* What every step leaves, and what it does to the wordlists.              *)
Pushes == \E nt \in DOMAIN mem' : /\ mem'[nt].name \in Names \cup {<<>>}
                                  /\ WordPrev(mem', nt) = LastWord(current)
                                  /\ last' = [last EXCEPT ![current] = nt]
Outcome(L) ==
    /\ HeadersTyped' /\ StateTyped' /\ SearchTyped' /\ WordsLive'
    /\ (Keeps(L) /\ (last' = last \/ Pushes)) \/ ForgetAll \/ Clear

LEMMA LiveIsLive ==
    ASSUME NEW M, Live(M)'
    PROVE  WordsLive'
<1>1. M \in SUBSET DOMAIN mem'
  BY DEF Live, Closed
<1>2. QED
  BY <1>1 DEF WordsLive

LEMMA SameHeaders ==
    ASSUME HeadersTyped, mem' = mem, NEW L, Closed(L)
    PROVE  HeadersTyped' /\ Keeps(L) /\ KeepsData(L)
<1>1. HeadersTyped'
  BY DEF HeadersTyped, Start
<1>2. QED
  BY <1>1 DEF HeadersTyped, Closed, Keeps, KeepsData, SameWord

(* Words and built-in words lie below HERE.                                *)
LEMMA LiveBelow ==
    ASSUME HeadersTyped, StateTyped, NEW L, Closed(L), Apart(L)
    PROVE  /\ here \in Int /\ DataStart \in Int /\ DataStart <= here /\ here <= DataSpace /\ 0 < DataStart
           /\ \A a \in L : /\ a \in DOMAIN mem /\ a \in Int /\ a < WordXt(a) /\ WordXt(a) \in Int
                           /\ End(a) \in Int /\ WordXt(a) <= End(a) /\ End(a) <= here
           /\ \A a \in L \cup DOMAIN BuiltIns : a \in DOMAIN mem /\ WordXt(a) \in Int /\ WordXt(a) <= here
<1>1. here \in Int /\ DataStart \in Int /\ DataStart <= here /\ here <= DataSpace /\ 0 < DataStart
  BY SizesAssumption DEF StateTyped, DataStart
<1>2. ASSUME NEW a \in L
      PROVE  /\ a \in DOMAIN mem /\ a \in Int /\ a < WordXt(a) /\ WordXt(a) \in Int
             /\ End(a) \in Int /\ WordXt(a) <= End(a) /\ End(a) <= here
  <2>1. a \in DOMAIN mem
    BY DEF Closed
  <2>2. PICK x \in Int : x = WordXt(a) + SZt * mem[a].code_n
    BY <2>1, Extents
  <2>3. a \in Int /\ a < WordXt(a) /\ WordXt(a) \in Int /\ End(a) \in Int /\ WordXt(a) <= x /\ x <= End(a)
    BY <2>1, <2>2, Extents
  <2>4. End(a) <= here
    BY DEF Apart
  <2>5. QED
    BY <2>1, <2>3, <2>4
<1>3. \A a \in L : WordXt(a) <= here
  BY <1>1, <1>2
<1>4. ASSUME NEW a \in DOMAIN BuiltIns
      PROVE  a \in DOMAIN mem /\ WordXt(a) \in Int /\ WordXt(a) <= here
  <2>1. WordXt(a) <= 0 /\ WordXt(a) \in Int
    BY BuiltInsAssumption, SizesAssumption DEF WordXt
  <2>2. WordXt(a) <= here
    BY <1>1, <2>1
  <2>3. QED
    BY <2>1, <2>2 DEF HeadersTyped
<1>5. QED
  BY <1>1, <1>2, <1>3, <1>4

(* The search-order words change nothing else.                             *)
LEMMA SearchOnly ==
    ASSUME HeadersTyped, StateTyped, NEW L, Live(L), UNCHANGED <<heap, compiler, last>>,
           wids \subseteq wids', SearchTyped'
    PROVE  Outcome(L)
<1>1. mem' = mem /\ here' = here /\ latest' = latest /\ state' = state /\ sys' = sys /\ last' = last
  BY DEF heap, compiler
<1>2. HeadersTyped' /\ Keeps(L)
  BY <1>1, SameHeaders DEF Live
<1>3. StateTyped'
  BY <1>1 DEF StateTyped
<1>4. Live(L)'
  BY <1>1 DEF Live, Closed, Apart, OnTop, End, Start, DataAddr
<1>5. QED
  BY <1>1, <1>2, <1>3, <1>4, LiveIsLive DEF Outcome

LEMMA OrderStep ==
    ASSUME IInv, NEW L, Live(L), Order
    PROVE  Outcome(L)
<1> USE DEF IInv
<1>1. Forth \in wids /\ Root \in wids /\ User \in wids
  BY DEF SearchTyped, BuiltInWids
<1>2. SearchOrderMax \in Nat /\ 1 <= SearchOrderMax
  BY SizesAssumption
<1>3. order \in Seq(wids) /\ Len(order) \in Nat /\ Len(order) <= SearchOrderMax
  BY DEF SearchTyped
<1>4. ASSUME NEW o \in Seq(wids), Len(o) <= SearchOrderMax, SetOrderTo(o)
      PROVE  Outcome(L)
  <2>1. SearchTyped'
    BY <1>4 DEF SearchTyped, SetOrderTo
  <2>2. UNCHANGED <<heap, compiler, last>> /\ wids \subseteq wids'
    BY <1>4 DEF SetOrderTo
  <2>3. QED
    BY <2>1, <2>2, SearchOnly
<1>5. CASE Also
  <2>1. order # <<>>
    BY <1>5 DEF Also, Typed, SearchOrderUnique
  <2>2. SetOrderTo(Append(order, Last(order))) /\ Len(order) < SearchOrderMax
    BY <1>5, <2>1 DEF Also
  <2>3. Last(order) \in wids
    BY <1>3, <2>1 DEF Last
  <2>4. Append(order, Last(order)) \in Seq(wids) /\ Len(Append(order, Last(order))) = Len(order) + 1
    BY <1>3, <2>3
  <2>5. Len(Append(order, Last(order))) <= SearchOrderMax
    BY <1>2, <1>3, <2>2, <2>4
  <2>6. QED
    BY <1>4, <2>2, <2>4, <2>5
<1>6. CASE Previous
  <2>1. order # <<>> /\ SetOrderTo(Front(order))
    BY <1>6 DEF Previous
  <2>3. Front(order) \in Seq(wids) /\ Len(Front(order)) = Len(order) - 1
    BY <1>3, <2>1, FrontShorter
  <2>4. Len(Front(order)) <= SearchOrderMax
    BY <1>2, <1>3, <2>3
  <2>5. QED
    BY <1>4, <2>1, <2>3, <2>4
<1>7. CASE Only
  <2>1. SetOrderTo(<<Root>>)
    BY <1>7 DEF Only
  <2>2. <<Root>> \in Seq(wids) /\ Len(<<Root>>) <= SearchOrderMax
    BY <1>1, <1>2
  <2>3. QED
    BY <1>4, <2>1, <2>2
<1>8. CASE Definitions
  <2>1. Last(order) \in wids
    BY <1>3, <1>8 DEF Definitions, Last
  <2>2. SearchTyped' /\ UNCHANGED <<heap, compiler, last>> /\ wids \subseteq wids'
    BY <1>8, <2>1 DEF Definitions, SearchTyped
  <2>3. QED
    BY <2>2, SearchOnly
<1>9. ASSUME NEW wid \in Wids, ReplaceFirst(wid)
      PROVE  Outcome(L)
  <2>1. order # <<>> /\ wid \in wids /\ SetOrderTo(Append(Front(order), wid))
    BY <1>9 DEF ReplaceFirst
  <2>3. Front(order) \in Seq(wids) /\ Len(Front(order)) = Len(order) - 1
    BY <1>3, <2>1, FrontShorter
  <2>4. Append(Front(order), wid) \in Seq(wids) /\ Len(Append(Front(order), wid)) = Len(order)
    BY <1>3, <2>1, <2>3
  <2>5. QED
    BY <1>3, <1>4, <2>1, <2>4
<1>10. ASSUME NEW wid \in Wids, SetCurrent(wid)
       PROVE  Outcome(L)
  <2>1. SearchTyped' /\ UNCHANGED <<heap, compiler, last>> /\ wids \subseteq wids'
    BY <1>10 DEF SetCurrent, SearchTyped
  <2>2. QED
    BY <2>1, SearchOnly
<1>11. ASSUME NEW wid \in Wids, Wordlist(wid)
       PROVE  Outcome(L)
  <2>1. wids' = wids \cup {wid} /\ UNCHANGED <<heap, compiler, last, current, order>>
    BY <1>11 DEF Wordlist
  <2>2. order \in Seq(wids')
    BY <1>3, <2>1
  <2>3. SearchTyped'
    BY <2>1, <2>2 DEF SearchTyped
  <2>4. QED
    BY <2>1, <2>3, SearchOnly
<1>12. ASSUME NEW wl \in Orders, SetOrder(wl)
       PROVE  Outcome(L)
  <2> DEFINE n == IF Len(wl) < SearchOrderMax THEN Len(wl) ELSE SearchOrderMax
  <2>1. wl \in Seq(Wids) /\ ToSet(wl) \subseteq wids
    BY <1>12, WidsAssumption DEF SetOrder
  <2>2. wl \in Seq(wids)
    <3>1. Len(wl) \in Nat /\ wl = [i \in 1 .. Len(wl) |-> wl[i]] /\ \A i \in 1 .. Len(wl) : wl[i] \in ToSet(wl)
      BY <2>1 DEF ToSet
    <3>2. QED
      BY <2>1, <3>1
  <2>3. Len(wl) \in Nat /\ n \in Nat /\ n <= Len(wl) /\ n <= SearchOrderMax
    BY <1>2, <2>2
  <2>4. SetOrderTo(SubSeq(wl, 1, n))
    BY <1>12 DEF SetOrder, SetOrderTo
  <2> HIDE DEF n
  <2>5. SubSeq(wl, 1, n) \in Seq(wids) /\ Len(SubSeq(wl, 1, n)) = n
    BY <2>2, <2>3
  <2>6. QED
    BY <1>4, <2>3, <2>4, <2>5
<1>13. QED
  BY <1>5, <1>6, <1>7, <1>8, <1>9, <1>10, <1>11, <1>12 DEF Order

---------------------------------------------------------------------------
(* What the compiler does between the start and the end of a definition.   *)

LEMMA LatestFacts ==
    ASSUME HeadersTyped, StateTyped, latest \in DOMAIN mem
    PROVE  /\ latest \in DOMAIN mem \ DOMAIN BuiltIns /\ latest \in Int
           /\ DataStart <= Start(latest) /\ Start(latest) \in Int /\ Start(latest) <= latest
           /\ latest < WordXt(latest) /\ WordXt(latest) \in Int
<1>1. latest \in Int /\ 0 <= latest
  BY SizesAssumption DEF StateTyped
<1>2. latest \notin DOMAIN BuiltIns
  BY <1>1, Signs
<1>3. QED
  BY <1>2, Extents DEF HeadersTyped

LEMMA ErrorStep ==
    ASSUME IInv, NEW L, Live(L), Error
    PROVE  Outcome(L)
<1> USE DEF IInv
<1>1. mem' = mem /\ latest' = latest /\ last' = last /\ state' = 0 /\ UNCHANGED <<wids, current, order>>
  BY DEF Error, CompilerAbort, search
<1>2. HeadersTyped' /\ Keeps(L) /\ KeepsData(L)
  BY <1>1, SameHeaders DEF Live
<1>3. SearchTyped'
  BY <1>1 DEF SearchTyped
<1>4. Closed(L)'
  BY <1>1, <1>2, ClosedStays DEF Live
<1>5. CASE state = 0
  <2>1. here' = here /\ sys' = sys
    BY <1>5 DEF Error, CompilerAbort
  <2>2. StateTyped'
    BY <1>1, <2>1 DEF StateTyped
  <2>3. Live(L)'
    BY <1>1, <1>4, <1>5, <2>1 DEF Live, Apart, OnTop, End, Start, DataAddr
  <2>4. QED
    BY <1>1, <1>2, <1>3, <2>2, <2>3, LiveIsLive DEF Outcome
<1>6. CASE state # 0
  <2>1. latest \in DOMAIN mem /\ state = WordXt(latest) /\ state <= here
    BY <1>6 DEF StateTyped
  <2>2. here' = Start(latest) /\ sys' = IF sys = <<>> THEN <<>> ELSE Front(sys)
    BY <1>6, <2>1 DEF Error, CompilerAbort
  <2>3. here' \in DataStart .. DataSpace
    <3>1. /\ DataStart <= Start(latest) /\ Start(latest) \in Int /\ Start(latest) <= latest
          /\ latest < WordXt(latest) /\ WordXt(latest) \in Int /\ latest \in Int
      BY <2>1, LatestFacts
    <3>2. here \in Int /\ here <= DataSpace /\ DataStart \in Int /\ DataSpace \in Int
      BY SizesAssumption DEF StateTyped, DataStart
    <3>3. QED
      BY <2>1, <2>2, <3>1, <3>2
  <2>4. sys' \in Seq(SUBSET {"noname"})
    <3>1. sys \in Seq(SUBSET {"noname"})
      BY DEF StateTyped
    <3>2. CASE sys = <<>>
      BY <2>2, <3>2
    <3>3. CASE sys # <<>>
      BY <2>2, <3>1, <3>3, FrontShorter
    <3>4. QED
      BY <3>2, <3>3
  <2>5. StateTyped'
    BY <1>1, <2>3, <2>4 DEF StateTyped
  <2>6. latest \notin L /\ mem[latest].data_n = 0 /\ \A v \in L : End(v) <= Start(latest)
    BY <1>6, <2>1 DEF Live, OnTop
  <2>7. Apart(L)'
    BY <1>2, <2>2, <2>6, ApartStays DEF Live
  <2>8. OnTop(L)'
    BY <1>1, <2>6 DEF OnTop, End, Start, DataAddr
  <2>9. QED
    BY <1>1, <1>2, <1>3, <1>4, <2>5, <2>7, <2>8, LiveIsLive DEF Outcome, Live
<1>7. QED
  BY <1>5, <1>6

(* Bytes written at HERE harm no word.                                     *)
LEMMA WritingStep ==
    ASSUME IInv, NEW L, Live(L), NEW n \in Nat, here' = here + n, here' <= DataSpace,
           mem' = Overwritten(mem, here, here'), UNCHANGED <<compiler, last, search>>
    PROVE  Outcome(L)
<1> USE DEF IInv
<1>1. UNCHANGED <<latest, state, sys, last, wids, current, order>>
  BY DEF compiler, search
<1>2. SearchTyped'
  BY <1>1 DEF SearchTyped
<1>3. /\ DOMAIN mem' \subseteq DOMAIN mem /\ \A a \in DOMAIN mem' : mem'[a] = mem[a]
      /\ \A a \in DOMAIN mem : WordXt(a) <= here => a \in DOMAIN mem'
  <2>1. PICK h : h = here'
    OBVIOUS
  <2>2. PICK m : m = mem
    OBVIOUS
  <2>3. PICK g : g = here
    OBVIOUS
  <2>4. mem' = Overwritten(m, g, h)
    BY <2>1, <2>2, <2>3
  <2>5. QED
    BY <2>2, <2>3, <2>4, OverwrittenKeeps
<1>4. /\ here \in Int /\ DataStart \in Int /\ DataStart <= here /\ here <= DataSpace /\ 0 < DataStart
      /\ \A a \in L : End(a) \in Int /\ End(a) <= here
      /\ \A a \in L \cup DOMAIN BuiltIns : a \in DOMAIN mem'
  BY <1>3, LiveBelow DEF Live
<1>5. mem' = [a \in DOMAIN mem' |-> mem'[a]]
  BY DEF Overwritten
<1>6. HeadersTyped'
  <2>1. \A a \in DOMAIN mem' : mem'[a] \in Header
    BY <1>3 DEF HeadersTyped
  <2>2. \A a \in DOMAIN mem' : Start(a)' = Start(a)
    BY <1>3 DEF Start
  <2>3. mem' \in [DOMAIN mem' -> Header]
    BY <1>5, <2>1
  <2>4. QED
    BY <1>3, <1>4, <2>2, <2>3 DEF HeadersTyped
<1>7. Keeps(L) /\ KeepsData(L)
  BY <1>3, <1>4 DEF Keeps, KeepsData, SameWord
<1>8. here' \in Int /\ here <= here'
  BY <1>4
<1>9. StateTyped'
  <2>1. here' \in DataStart .. DataSpace
    BY <1>4, <1>8, SizesAssumption
  <2>2. state = 0 \/ (state = WordXt(latest) /\ latest \in DOMAIN mem' /\ state <= here')
    <3>1. CASE state # 0
      <4>1. state = WordXt(latest) /\ latest \in DOMAIN mem /\ state <= here
        BY <3>1 DEF StateTyped
      <4>2. WordXt(latest) \in Int
        BY <4>1, LatestFacts
      <4>3. state <= here'
        BY <1>4, <1>8, <4>1, <4>2
      <4>4. QED
        BY <1>3, <4>1, <4>3
    <3>2. QED
      BY <3>1
  <2>3. QED
    BY <1>1, <2>1, <2>2 DEF StateTyped
<1>10. Closed(L)'
  BY <1>1, <1>7, ClosedStays DEF Live
<1>11. Apart(L)'
  <2>1. \A a \in L : End(a) <= here'
    BY <1>4, <1>8
  <2>2. QED
    BY <1>7, <2>1, ApartStays DEF Live
<1>12. OnTop(L)'
  <2>1. \A a \in DOMAIN mem' : End(a)' = End(a) /\ Start(a)' = Start(a) /\ DataAddr(a)' = DataAddr(a)
    BY <1>3 DEF End, Start, DataAddr
  <2>2. \A v \in L : v \in DOMAIN mem'
    BY <1>4
  <2>3. SUFFICES ASSUME latest \in DOMAIN mem'
                 PROVE  /\ \A v \in L \ {latest} : End(v)' <= Start(latest)'
                        /\ IF latest \in L THEN state' = 0 /\ DataAddr(latest)' <= here' ELSE mem'[latest].data_n = 0
    BY <1>1 DEF OnTop
  <2>4. latest \in DOMAIN mem
    BY <1>3, <2>3
  <2>5. /\ \A v \in L \ {latest} : End(v) <= Start(latest)
        /\ IF latest \in L THEN state = 0 /\ DataAddr(latest) <= here ELSE mem[latest].data_n = 0
    BY <2>4 DEF Live, OnTop
  <2>6. DataAddr(latest) \in Int
    BY <2>4, Extents
  <2>7. latest \in L => DataAddr(latest) <= here'
    BY <1>4, <1>8, <2>5, <2>6
  <2>8. QED
    BY <1>1, <1>3, <2>1, <2>2, <2>3, <2>5, <2>7
<1>13. QED
  BY <1>1, <1>2, <1>6, <1>7, <1>9, <1>10, <1>11, <1>12, LiveIsLive DEF Outcome, Live

(* A step that changes fields of the last header.                          *)
LEMMA LatestHeader ==
    ASSUME HeadersTyped, StateTyped, NEW L, Closed(L), NEW l, l = latest, l \in DOMAIN mem,
           NEW h \in Header, mem' = [mem EXCEPT ![l] = h],
           h.name = mem[l].name, h.name_off = mem[l].name_off,
           "create" \in h.flags => h.code # "data address",
           l \in L => SameWord(mem[l], h)
    PROVE  /\ HeadersTyped' /\ Keeps(L) /\ DOMAIN mem' = DOMAIN mem
           /\ mem'[l] = h /\ \A a \in DOMAIN mem : a # l => mem'[a] = mem[a]
<1>1. /\ DOMAIN mem' = DOMAIN mem /\ mem' \in [DOMAIN mem -> Header]
      /\ mem'[l] = h /\ \A a \in DOMAIN mem : a # l => mem'[a] = mem[a]
  <2>1. mem \in [DOMAIN mem -> Header]
    BY DEF HeadersTyped
  <2>2. QED
    BY <2>1
<1>2. \A a \in DOMAIN mem : Start(a)' = Start(a)
  BY <1>1 DEF Start
<1>3. l \notin DOMAIN BuiltIns
  BY LatestFacts
<1>4. HeadersTyped'
  <2>1. \A a \in DOMAIN mem \ DOMAIN BuiltIns :
          /\ DataStart <= Start(a)' /\ mem'[a].name \in Names \cup {<<>>}
          /\ "create" \in mem'[a].flags => mem'[a].code # "data address"
    BY <1>1, <1>2 DEF HeadersTyped
  <2>2. \A a \in DOMAIN BuiltIns : a \in DOMAIN mem' /\ mem'[a] = BuiltIns[a]
    BY <1>1, <1>3 DEF HeadersTyped
  <2>3. DOMAIN mem \subseteq Int
    BY DEF HeadersTyped
  <2>4. QED
    BY <1>1, <2>1, <2>2, <2>3 DEF HeadersTyped
<1>5. ASSUME NEW a \in L \cup DOMAIN BuiltIns
      PROVE  a \in DOMAIN mem' /\ SameWord(mem[a], mem'[a])
  <2>1. a \in DOMAIN mem
    BY DEF Closed, HeadersTyped
  <2>2. CASE a = l
    BY <1>1, <1>3, <1>5, <2>1, <2>2
  <2>3. CASE a # l
    BY <1>1, <2>1, <2>3 DEF SameWord
  <2>4. QED
    BY <2>2, <2>3
<1>6. QED
  BY <1>1, <1>4, <1>5 DEF Keeps

(* ... and not how long anything is.                                       *)
LEMMA MarkingStep ==
    ASSUME IInv, NEW L, Live(L), NEW l, l = latest, l \in DOMAIN mem,
           NEW h \in Header, mem' = [mem EXCEPT ![l] = h], SameWord(mem[l], h), h.data_n = mem[l].data_n,
           "create" \in h.flags => h.code # "data address",
           UNCHANGED <<here, compiler, last, search>>
    PROVE  Outcome(L)
<1> USE DEF IInv
<1>1. UNCHANGED <<here, latest, state, sys, last, wids, current, order>>
  BY DEF compiler, search
<1>2. h.name = mem[l].name /\ h.name_off = mem[l].name_off
  BY DEF SameWord
<1>3. /\ HeadersTyped' /\ Keeps(L) /\ DOMAIN mem' = DOMAIN mem
      /\ mem'[l] = h /\ \A a \in DOMAIN mem : a # l => mem'[a] = mem[a]
  BY <1>2, LatestHeader DEF Live
<1>4. \A a \in DOMAIN mem : SameWord(mem[a], mem'[a]) /\ mem'[a].data_n = mem[a].data_n
  BY <1>3 DEF SameWord
<1>5. \A a \in DOMAIN mem : Start(a)' = Start(a) /\ DataAddr(a)' = DataAddr(a) /\ End(a)' = End(a)
  BY <1>4, KeptWord
<1>6. L \subseteq DOMAIN mem
  BY DEF Live, Closed
<1>7. SearchTyped' /\ StateTyped'
  BY <1>1, <1>3 DEF SearchTyped, StateTyped
<1>8. Closed(L)'
  BY <1>1, <1>3, ClosedStays DEF Live
<1>9. Apart(L)'
  BY <1>1, <1>5, <1>6 DEF Live, Apart
<1>10. OnTop(L)'
  BY <1>1, <1>3, <1>4, <1>5, <1>6 DEF Live, OnTop
<1>11. QED
  BY <1>1, <1>3, <1>7, <1>8, <1>9, <1>10, LiveIsLive DEF Outcome, Live

LEMMA DoesStep ==
    ASSUME IInv, NEW L, Live(L), Does
    PROVE  Outcome(L)
<1>1. PICK l : l = latest
  OBVIOUS
<1>2. l \in DOMAIN mem \ DOMAIN BuiltIns /\ "create" \in mem[l].flags
  BY <1>1, LatestFacts DEF Does, IInv
<1>3. PICK g \in Header : g = mem[l]
  BY <1>2 DEF IInv, HeadersTyped
<1>4. g.code # "data address"
  BY <1>2, <1>3 DEF IInv, HeadersTyped
<1> DEFINE h == [g EXCEPT !.code = "call does"]
<1>5. h \in Header /\ SameWord(g, h) /\ h.data_n = g.data_n /\ h.code = "call does"
  BY <1>4 DEF Header, SameWord
<1>6. mem' = [mem EXCEPT ![l] = h]
  BY <1>1, <1>3 DEF Does
<1>7. UNCHANGED <<here, compiler, last, search>>
  BY DEF Does
<1> HIDE DEF h
<1>8. QED
  BY <1>1, <1>2, <1>3, <1>5, <1>6, <1>7, MarkingStep

LEMMA ImmediateStep ==
    ASSUME IInv, NEW L, Live(L), Immediate
    PROVE  Outcome(L)
<1>1. PICK l : l = latest
  OBVIOUS
<1>2. l \in DOMAIN mem \ DOMAIN BuiltIns
  BY <1>1, LatestFacts DEF Immediate, IInv
<1>3. PICK g \in Header : g = mem[l]
  BY <1>2 DEF IInv, HeadersTyped
<1>4. "create" \in g.flags => g.code # "data address"
  BY <1>2, <1>3 DEF IInv, HeadersTyped
<1> DEFINE h == [g EXCEPT !.flags = @ \cup {"immediate"}]
<1>5. h \in Header /\ h.flags = g.flags \cup {"immediate"}
  <2>1. g.flags \cup {"immediate"} \in SUBSET {"create", "var", "value", "immediate"}
    BY DEF Header
  <2>2. QED
    BY <2>1 DEF Header
<1>6. SameWord(g, h) /\ h.data_n = g.data_n /\ h.code = g.code
  BY DEF Header, SameWord
<1>7. mem' = [mem EXCEPT ![l] = h]
  BY <1>1, <1>3 DEF Immediate
<1>8. UNCHANGED <<here, compiler, last, search>>
  BY DEF Immediate
<1> HIDE DEF h
<1>9. "create" \in h.flags => h.code # "data address"
  BY <1>4, <1>5, <1>6
<1>10. QED
  BY <1>1, <1>2, <1>3, <1>5, <1>6, <1>7, <1>8, <1>9, MarkingStep

(* The length of the code of a word that is not finished.                  *)
LEMMA LengthStep ==
    ASSUME IInv, NEW L, Live(L), NEW l, l = latest, state # 0, NEW n \in Nat,
           NEW h \in Header, h = [mem[l] EXCEPT !.code_n = n], mem' = [mem EXCEPT ![l] = h],
           state' \in {0, state}, UNCHANGED <<here, latest, sys, last, search>>
    PROVE  Outcome(L)
<1> USE DEF IInv
<1>1. UNCHANGED <<here, latest, sys, last, wids, current, order>>
  BY DEF search
<1>2. l \in DOMAIN mem \ DOMAIN BuiltIns
  BY LatestFacts DEF StateTyped
<1>3. PICK g \in Header : g = mem[l]
  BY <1>2 DEF HeadersTyped
<1>4. "create" \in g.flags => g.code # "data address"
  BY <1>2, <1>3 DEF HeadersTyped
<1>5. /\ h.name = g.name /\ h.name_off = g.name_off /\ h.flags = g.flags /\ h.code = g.code
      /\ h.data_n = g.data_n
  BY <1>3 DEF Header
<1>7. l \notin L /\ g.data_n = 0 /\ \A v \in L : End(v) <= Start(l)
  BY <1>2, <1>3 DEF Live, OnTop
<1>8. /\ HeadersTyped' /\ Keeps(L) /\ DOMAIN mem' = DOMAIN mem
      /\ mem'[l] = h /\ \A a \in DOMAIN mem : a # l => mem'[a] = mem[a]
  <2>1. /\ Closed(L) /\ l \in DOMAIN mem /\ h \in Header
        /\ h.name = mem[l].name /\ h.name_off = mem[l].name_off
        /\ "create" \in h.flags => h.code # "data address"
    <3>1. "create" \in h.flags => h.code # "data address"
      BY <1>4, <1>5
    <3>2. QED
      BY <1>2, <1>3, <1>5, <3>1 DEF Live
  <2>2. l \in L => SameWord(mem[l], h)
    BY <1>7
  <2>3. HeadersTyped /\ StateTyped
    OBVIOUS
  <2> HIDE DEF IInv
  <2>4. QED
    BY <2>1, <2>2, <2>3, LatestHeader
<1>9. L \subseteq DOMAIN mem
  BY DEF Live, Closed
<1>10. KeepsData(L)
  BY <1>7, <1>8, <1>9 DEF KeepsData
<1>11. SearchTyped' /\ StateTyped'
  BY <1>1, <1>8 DEF SearchTyped, StateTyped
<1>12. Closed(L)'
  BY <1>1, <1>8, ClosedStays DEF Live
<1>13. Apart(L)'
  BY <1>1, <1>8, <1>10, ApartStays DEF Live, Apart
<1>14. OnTop(L)'
  <2>1. \A v \in L : End(v)' = End(v)
    BY <1>8, <1>10, KeptWord DEF Keeps, KeepsData
  <2>2. Start(l)' = Start(l)
    BY <1>3, <1>5, <1>8 DEF Start
  <2>3. latest' = l /\ mem'[l].data_n = 0
    BY <1>1, <1>5, <1>7, <1>8
  <2>4. \A v \in L \ {latest'} : End(v)' <= Start(latest)'
    BY <1>7, <2>1, <2>2, <2>3
  <2>5. QED
    BY <1>7, <2>3, <2>4 DEF OnTop
<1>15. QED
  BY <1>1, <1>8, <1>11, <1>12, <1>13, <1>14, LiveIsLive DEF Outcome, Live

(* How many tokens are between a word's XT and HERE.                       *)
LEMMA TokensSinceXt ==
    ASSUME IInv, state # 0
    PROVE  (here - state) \div SZt \in Nat /\ state \in Int /\ here \in Int /\ state = WordXt(latest) /\ 0 < state
           /\ latest \in DOMAIN mem /\ state <= here
<1>1. state = WordXt(latest) /\ latest \in DOMAIN mem /\ state <= here
  BY DEF IInv, StateTyped
<1>2. WordXt(latest) \in Int /\ latest < WordXt(latest) /\ latest \in Int
  BY <1>1, LatestFacts DEF IInv
<1>3. here \in Int /\ 0 <= latest
  BY SizesAssumption DEF IInv, StateTyped, DataStart
<1>4. PICK d \in Nat : d = here - state
  BY <1>1, <1>2, <1>3
<1>5. d \div SZt \in Nat
  BY SizesAssumption
<1>6. QED
  BY <1>1, <1>2, <1>3, <1>4, <1>5

LEMMA LengthSet ==
    ASSUME IInv, NEW l, l = latest, state # 0, NEW n \in Nat
    PROVE  [mem[l] EXCEPT !.code_n = n] \in Header
<1>1. l \in DOMAIN mem
  BY DEF IInv, StateTyped
<1>2. mem[l] \in Header
  BY <1>1 DEF IInv, HeadersTyped
<1>3. QED
  BY <1>2 DEF Header

LEMMA LeftBracketStep ==
    ASSUME IInv, NEW L, Live(L), LeftBracket
    PROVE  Outcome(L)
<1>1. PICK n \in Nat : n = (here - state) \div SZt
  BY TokensSinceXt DEF LeftBracket
<1>2. PICK l : l = latest
  OBVIOUS
<1>3. state # 0 /\ mem' = [mem EXCEPT ![l].code_n = n] /\ state' = 0 /\ UNCHANGED <<here, latest, sys, last, search>>
  BY <1>1, <1>2 DEF LeftBracket
<1>4. state' \in {0, state}
  BY <1>3
<1>5. PICK h \in Header : h = [mem[l] EXCEPT !.code_n = n]
  BY <1>2, <1>3, LengthSet
<1>6. mem' = [mem EXCEPT ![l] = h]
  BY <1>3, <1>5
<1>7. QED
  BY <1>2, <1>3, <1>4, <1>5, <1>6, LengthStep

LEMMA SyncLastwStep ==
    ASSUME IInv, NEW L, Live(L), SyncLastw
    PROVE  Outcome(L)
<1> USE DEF IInv
<1>1. PICK l : l = latest
  OBVIOUS
<1>2. CASE state # 0
  <2>1. PICK n \in Nat : n = (here - WordXt(latest)) \div SZt
    BY <1>2, TokensSinceXt
  <2>2. mem' = [mem EXCEPT ![l].code_n = n] /\ state' = state /\ UNCHANGED <<here, latest, sys, last, search>>
    BY <1>1, <1>2, <2>1 DEF SyncLastw, compiler
  <2>3. state' \in {0, state}
    BY <2>2
  <2> HIDE DEF IInv
  <2>4. PICK h \in Header : h = [mem[l] EXCEPT !.code_n = n]
    BY <1>1, <1>2, <2>2, LengthSet
  <2>5. mem' = [mem EXCEPT ![l] = h]
    BY <2>2, <2>4
  <2>6. QED
    BY <1>1, <1>2, <2>2, <2>3, <2>4, <2>5, LengthStep
<1>3. CASE state = 0
  <2>1. UNCHANGED <<here, latest, state, sys, last, wids, current, order>>
    BY DEF SyncLastw, compiler, search
  <2>2. l \in DOMAIN mem \ DOMAIN BuiltIns
    BY <1>1, LatestFacts DEF SyncLastw
  <2>3. l \in L
    <3>1. PICK w \in wids : l = last[w]
      BY <1>1, <1>3 DEF SyncLastw
    <3>2. w \in Wids
      BY DEF SearchTyped
    <3>3. last[w] \in L \cup {0}
      BY <3>2 DEF Live, Closed
    <3>4. l # 0
      BY <2>2, Signs
    <3>5. QED
      BY <3>1, <3>3, <3>4
  <2>4. PICK g \in Header : g = mem[l]
    BY <2>2 DEF HeadersTyped
  <2>5. PICK d \in Nat : d = here - DataAddr(l)
    <3>1. DataAddr(l) \in Int /\ DataAddr(l) <= here
      BY <1>1, <2>2, <2>3, Extents DEF Live, OnTop
    <3>2. here \in Int
      BY LiveBelow DEF Live
    <3>3. here - DataAddr(l) \in Nat
      BY <3>1, <3>2
    <3>4. QED
      BY <3>3
  <2> DEFINE h == [g EXCEPT !.data_n = d]
  <2>6. /\ h \in Header /\ SameWord(g, h) /\ h.flags = g.flags /\ h.code = g.code /\ h.data_n = d
        /\ h.name = g.name /\ h.name_off = g.name_off
    BY DEF Header, SameWord
  <2>7. mem' = [mem EXCEPT ![l] = h]
    BY <1>1, <1>3, <2>4, <2>5 DEF SyncLastw
  <2> HIDE DEF h
  <2>8. "create" \in g.flags => g.code # "data address"
    BY <2>2, <2>4 DEF HeadersTyped
  <2>9. /\ HeadersTyped' /\ Keeps(L) /\ DOMAIN mem' = DOMAIN mem
        /\ mem'[l] = h /\ \A a \in DOMAIN mem : a # l => mem'[a] = mem[a]
    BY <1>1, <2>2, <2>4, <2>6, <2>7, <2>8, LatestHeader DEF Live
  <2>10. SearchTyped' /\ StateTyped'
    BY <2>1, <2>9 DEF SearchTyped, StateTyped
  <2>11. Closed(L)'
    BY <2>1, <2>9, ClosedStays DEF Live
  <2>12. /\ \A v \in L : Start(v)' = Start(v) /\ DataAddr(v)' = DataAddr(v)
         /\ \A v \in L : v # l => End(v)' = End(v)
    <3>1. \A v \in L : v # l => mem'[v].data_n = mem[v].data_n
      BY <2>9 DEF Live, Closed
    <3>2. QED
      BY <2>9, <3>1, KeptWord DEF Keeps
  <2>13. DataAddr(l) \in Int /\ DataAddr(l) <= here /\ here \in Int
    BY <1>1, <2>2, <2>3, Extents, LiveBelow DEF Live, OnTop
  <2>14. End(l)' <= here
    <3>1. PICK x \in Int : x = WordXt(l) + SZt * g.code_n
      BY <2>2, <2>4, Extents
    <3>2. x <= DataAddr(l)
      BY <2>2, <2>4, <3>1, Extents
    <3>3. h.code_n = g.code_n
      BY <2>6 DEF SameWord
    <3>4. End(l)' = IF d = 0 THEN x ELSE DataAddr(l) + d
      BY <2>3, <2>6, <2>9, <2>12, <3>1, <3>3 DEF End
    <3>5. QED
      BY <2>5, <2>13, <3>2, <3>4
  <2>15. \A v \in L : v # l => End(v) <= Start(l) /\ v < l
    <3>1. \A v \in L : v # l => End(v) <= Start(l)
      BY <1>1, <2>2 DEF Live, OnTop
    <3>2. Start(l) \in Int /\ Start(l) <= l /\ l \in Int
      BY <2>2, Extents
    <3>3. \A v \in L : v \in Int /\ v < WordXt(v) /\ WordXt(v) \in Int /\ End(v) \in Int /\ WordXt(v) <= End(v)
      BY LiveBelow DEF Live
    <3>4. QED
      BY <3>1, <3>2, <3>3
  <2>16. Apart(L)'
    <3>1. \A v \in L : End(v)' <= here'
      BY <2>1, <2>12, <2>14 DEF Live, Apart
    <3>2. \A v, w \in L : v < w => v # l
      <4>1. \A w \in L : w \in Int
        BY LiveBelow DEF Live
      <4>2. QED
        BY <2>3, <2>15, <4>1
    <3>3. \A v, w \in L : v < w => End(v)' <= Start(w)'
      BY <2>12, <3>2 DEF Live, Apart
    <3>4. QED
      BY <3>1, <3>3 DEF Apart
  <2>17. OnTop(L)'
    BY <1>1, <1>3, <2>1, <2>3, <2>12, <2>13, <2>15 DEF OnTop
  <2>18. QED
    BY <2>1, <2>9, <2>10, <2>11, <2>16, <2>17, LiveIsLive DEF Outcome, Live
<1>4. QED
  BY <1>2, <1>3

LEMMA CompileTokenStep ==
    ASSUME IInv, NEW L, Live(L), CompileToken
    PROVE  Outcome(L)
<1>1. SZt \in Nat /\ here' = here + SZt /\ here' <= DataSpace
  BY SizesAssumption DEF CompileToken, Fits
<1>2. mem' = Overwritten(mem, here, here') /\ UNCHANGED <<compiler, last, search>>
  BY DEF CompileToken
<1>3. QED
  BY <1>1, <1>2, WritingStep

LEMMA CommaStep ==
    ASSUME IInv, NEW L, Live(L), Comma
    PROVE  Outcome(L)
<1>1. SZ \in Nat /\ here' = here + SZ /\ here' <= DataSpace
  BY SizesAssumption DEF Comma, Fits
<1>2. mem' = Overwritten(mem, here, here') /\ UNCHANGED <<compiler, last, search>>
  BY DEF Comma
<1>3. QED
  BY <1>1, <1>2, WritingStep

(* ] takes the last word out of L: nothing refers to it.                   *)
LEMMA RightBracketStep ==
    ASSUME IInv, NEW L, Live(L), RightBracket
    PROVE  Outcome(L)
<1> USE DEF IInv
<1>1. PICK l : l = latest
  OBVIOUS
<1>2. UNCHANGED <<mem, here, latest, sys, last, wids, current, order>> /\ state' = WordXt(l)
  BY <1>1 DEF RightBracket, heap, search
<1>3. l \in DOMAIN mem \ DOMAIN BuiltIns /\ l \in Int
  BY <1>1, LatestFacts DEF RightBracket
<1>4. PICK x \in Int : x = WordXt(l) + SZt * mem[l].code_n
  BY <1>3, Extents
<1>5. here = x
  BY <1>1, <1>4 DEF RightBracket
<1>6. WordXt(l) <= here
  BY <1>3, <1>4, <1>5, Extents
<1>7. mem[l].data_n = 0
  <2>1. CASE l \in L
    <3>1. End(l) <= here
      BY <2>1 DEF Live, Apart
    <3>2. DataAddr(l) \in Int /\ x <= DataAddr(l) /\ End(l) \in Int
      BY <1>3, <1>4, Extents
    <3>3. mem[l].data_n # 0 => DataAddr(l) < End(l)
      BY <1>3, Extents
    <3>4. QED
      BY <1>5, <3>1, <3>2, <3>3
  <2>2. CASE l \notin L
    BY <1>1, <1>3, <2>2 DEF Live, OnTop
  <2>3. QED
    BY <2>1, <2>2
<1>8. \A v \in L \ {l} : End(v) <= Start(l) /\ v < l /\ v \in Int
  <2>1. \A v \in L \ {l} : End(v) <= Start(l)
    BY <1>1, <1>3 DEF Live, OnTop
  <2>2. Start(l) \in Int /\ Start(l) <= l
    BY <1>3, Extents
  <2>3. \A v \in L : v \in Int /\ v < WordXt(v) /\ WordXt(v) \in Int /\ End(v) \in Int /\ WordXt(v) <= End(v)
    BY LiveBelow DEF Live
  <2>4. QED
    BY <1>3, <2>1, <2>2, <2>3
<1>9. HeadersTyped' /\ Keeps(L)
  BY <1>2, SameHeaders DEF Live
<1>10. SearchTyped' /\ StateTyped'
  <2>1. SearchTyped'
    BY <1>2 DEF SearchTyped
  <2>2. StateTyped'
    BY <1>1, <1>2, <1>3, <1>6 DEF StateTyped
  <2>3. QED
    BY <2>1, <2>2
<1>11. Closed(L \ {l})'
  <2>1. \A w \in Wids : last[w] # l
    <3>1. l # 0
      BY <1>3, Signs
    <3>2. \A w \in wids : last[w] # l
      BY <1>1 DEF RightBracket
    <3>3. \A w \in Wids \ wids : last[w] = 0
      BY DEF StateTyped
    <3>4. QED
      BY <3>1, <3>2, <3>3
  <2>2. \A w \in Wids : last[w] \in (L \ {l}) \cup {0}
    BY <2>1 DEF Live, Closed
  <2>3. \A nt \in L \ {l} : WordPrev(mem, nt) \in {0} \cup {a \in (L \ {l}) \cup DOMAIN BuiltIns : a < nt}
    <3>1. \A nt \in L \ {l} : ~ (l < nt)
      BY <1>3, <1>8
    <3>2. QED
      BY <3>1 DEF Live, Closed
  <2>4. L \ {l} \subseteq DOMAIN mem \ DOMAIN BuiltIns
    BY DEF Live, Closed
  <2>5. QED
    BY <1>2, <2>2, <2>3, <2>4 DEF Closed
<1>12. Apart(L \ {l})'
  BY <1>2 DEF Live, Apart, End, Start, DataAddr
<1>13. OnTop(L \ {l})'
  <2>1. \A v \in L \ {l} : End(v)' <= Start(l)'
    BY <1>2, <1>8 DEF End, Start, DataAddr
  <2>2. mem'[l].data_n = 0 /\ latest' = l
    BY <1>1, <1>2, <1>7
  <2>3. QED
    BY <2>1, <2>2 DEF OnTop
<1>14. WordsLive'
  BY <1>11, <1>12, <1>13, LiveIsLive DEF Live
<1>15. QED
  BY <1>2, <1>9, <1>10, <1>14 DEF Outcome

---------------------------------------------------------------------------
(* Words that begin and end definitions.                                   *)

(* the link m6wordlist_add_word puts into a header is to the word before   *)
LinkTo(nt, p) == IF p = 0 THEN 0 ELSE nt - p
LEMMA SemiStep ==
    ASSUME IInv, NEW L, Live(L), NEW n \in CodeLengths, Semi(n)
    PROVE  Outcome(L)
<1> USE DEF IInv
<1>1. PICK l : l = latest
  OBVIOUS
<1>2. n \in Nat
  <2>1. (here - state) \div SZt \in Nat
    BY TokensSinceXt DEF Semi
  <2>2. SZ \div SZt \in Nat
    BY SizesAssumption
  <2>3. PICK d \in Nat, c \in Nat : d = (here - state) \div SZt /\ c = SZ \div SZt
    BY <2>1, <2>2
  <2>4. \E k \in 1 .. (d + 1), asm \in {0, 2 + c} : n = k + asm
    BY <2>3 DEF CodeLengths
  <2>5. QED
    BY <2>4
<1>3. PICK p : p = LastWord(current)
  OBVIOUS
<1>4. PICK m : m = Overwritten(mem, here, Aligned(state + SZt * n))
  OBVIOUS
<1>5. /\ state = WordXt(l) /\ state # 0 /\ l \in DOMAIN m
      /\ here' = Aligned(WordXt(l) + SZt * n) /\ here' <= DataSpace
      /\ mem' = Added([m EXCEPT ![l].code_n = n], l, current)
      /\ last' = [last EXCEPT ![current] = l] /\ state' = 0 /\ sys # <<>> /\ sys' = Front(sys)
      /\ latest' = l /\ UNCHANGED <<wids, current, order>>
  BY <1>1, <1>4, TokensSinceXt DEF Semi, Fits, search
<1>6. mem' = [[m EXCEPT ![l].code_n = n] EXCEPT ![l].prev_off = LinkTo(l, p)]
  BY <1>3, <1>5 DEF Added, LinkTo
<1>7. /\ DOMAIN m \subseteq DOMAIN mem /\ \A a \in DOMAIN m : m[a] = mem[a]
      /\ \A a \in DOMAIN mem : WordXt(a) <= here => a \in DOMAIN m
  <2>1. PICK e, g, b : e = mem /\ g = here /\ b = Aligned(state + SZt * n)
    OBVIOUS
  <2>2. m = Overwritten(e, g, b)
    BY <1>4, <2>1
  <2>3. QED
    BY <2>1, <2>2, OverwrittenKeeps
<1>8. /\ l \in DOMAIN mem \ DOMAIN BuiltIns /\ l \in Int /\ DataStart <= Start(l) /\ Start(l) \in Int
      /\ Start(l) <= l /\ l < WordXt(l) /\ WordXt(l) \in Int
  BY <1>1, <1>5, <1>7, LatestFacts
<1>9. l \notin L /\ mem[l].data_n = 0 /\ \A v \in L : End(v) <= Start(l)
  BY <1>1, <1>5, <1>8 DEF Live, OnTop
<1>10. PICK g \in Header : g = mem[l]
  BY <1>8 DEF HeadersTyped
<1>11. \A v \in L : v \in DOMAIN mem /\ v < l /\ v \in Int /\ End(v) \in Int
  <2>1. \A v \in L : v \in DOMAIN mem /\ v \in Int /\ v < WordXt(v) /\ WordXt(v) \in Int /\ End(v) \in Int /\ WordXt(v) <= End(v)
    BY LiveBelow DEF Live
  <2>2. QED
    BY <1>8, <1>9, <2>1
<1>12. 0 < l
  BY <1>8, Signs
<1>13. p \in Int /\ (p = 0 \/ p < l)
  BY <1>3, <1>8, <1>11, <1>12, LastWordBelow DEF Live
<1>14. LinkTo(l, p) \in Nat
  BY <1>8, <1>13 DEF LinkTo
<1>15. PICK h \in Header : h = [g EXCEPT !.code_n = n, !.prev_off = LinkTo(l, p)]
  BY <1>2, <1>14 DEF Header
<1>16. /\ h.name = g.name /\ h.name_off = g.name_off /\ h.flags = g.flags /\ h.code = g.code
       /\ h.data_n = g.data_n /\ h.code_n = n /\ h.prev_off = LinkTo(l, p)
  BY <1>15 DEF Header
<1>17. /\ DOMAIN mem' = DOMAIN m /\ mem'[l] = h /\ \A a \in DOMAIN m : a # l => mem'[a] = mem[a]
       /\ mem' = [a \in DOMAIN mem' |-> mem'[a]]
  <2>1. m = [a \in DOMAIN m |-> m[a]]
    BY <1>4 DEF Overwritten
  <2>2. m[l] = g
    BY <1>5, <1>7, <1>10
  <2>3. mem' = [m EXCEPT ![l] = h]
    BY <1>5, <1>6, <1>15, <2>1, <2>2
  <2>4. QED
    BY <1>5, <1>7, <2>1, <2>3
<1>18. \A a \in L \cup DOMAIN BuiltIns : a \in DOMAIN mem' /\ a # l /\ mem'[a] = mem[a]
  <2>1. \A a \in L \cup DOMAIN BuiltIns : a \in DOMAIN mem /\ WordXt(a) <= here
    BY LiveBelow DEF Live
  <2>2. QED
    BY <1>7, <1>8, <1>9, <1>17, <2>1
<1>19. Keeps(L) /\ KeepsData(L)
  BY <1>18 DEF Keeps, KeepsData, SameWord
<1>20. HeadersTyped'
  <2>1. \A a \in DOMAIN mem' \ {l} : AlmostSame(mem[a], mem'[a])
    <3>1. \A a \in DOMAIN mem' \ {l} : a \in DOMAIN mem /\ mem'[a] = mem[a]
      BY <1>7, <1>17
    <3>2. \A a \in DOMAIN mem : mem[a] \in Header
      BY DEF HeadersTyped
    <3>3. QED
      BY <3>1, <3>2 DEF AlmostSame, SameWord
  <2>2. /\ h \in Header /\ h.name \in Names \cup {<<>>} /\ DataStart <= l - h.name_off
        /\ "create" \in h.flags => h.code # "data address"
    <3>1. /\ g.name \in Names \cup {<<>>} /\ DataStart <= Start(l)
          /\ "create" \in g.flags => g.code # "data address"
      BY <1>8, <1>10 DEF HeadersTyped
    <3>2. Start(l) = l - h.name_off
      BY <1>10, <1>16 DEF Start
    <3>3. QED
      BY <1>16, <3>1, <3>2
  <2>3. DOMAIN mem' \subseteq DOMAIN mem \cup {l}
    BY <1>7, <1>17
  <2>4. DOMAIN BuiltIns \subseteq DOMAIN mem' /\ \A a \in DOMAIN BuiltIns : mem'[a] = mem[a]
    BY <1>18
  <2>5. QED
    BY <1>8, <1>17, <2>1, <2>2, <2>3, <2>4, HeadersAfter
<1>21. WordPrev(mem', l) = p
  <2>1. mem'[l].prev_off = LinkTo(l, p)
    BY <1>16, <1>17
  <2>2. QED
    BY <1>8, <1>13, <2>1 DEF WordPrev, LinkTo
<1>22. l \in DOMAIN mem'
  BY <1>5, <1>17
<1>23. /\ DataAddr(l)' = here' /\ End(l)' <= here' /\ WordXt(l) <= here' /\ here' \in Int
  <2>1. DataAddr(l)' = here'
    BY <1>5, <1>16, <1>17 DEF DataAddr
  <2>2. PICK x \in Int : x = WordXt(l) + SZt * mem'[l].code_n
    BY <1>20, <1>22, ExtentsAfter
  <2>3. x <= DataAddr(l)' /\ WordXt(l) <= x /\ DataAddr(l)' \in Int
    BY <1>20, <1>22, <2>2, ExtentsAfter
  <2>4. End(l)' = x
    BY <1>9, <1>10, <1>16, <1>17, <2>2 DEF End
  <2>5. QED
    BY <1>8, <2>1, <2>3, <2>4
<1>24. here' \in DataStart .. DataSpace
  BY <1>5, <1>8, <1>23, SizesAssumption DEF DataStart
<1>25. SearchTyped'
  BY <1>5 DEF SearchTyped
<1>26. StateTyped'
  <2>1. sys' \in Seq(SUBSET {"noname"})
    BY <1>5, FrontShorter DEF StateTyped
  <2>2. last' \in [Wids -> Int] /\ \A w \in Wids \ wids' : last'[w] = 0
    BY <1>5, <1>8 DEF StateTyped, SearchTyped
  <2>3. latest' \in 0 .. DataSpace
    BY <1>1, <1>5 DEF StateTyped
  <2>4. QED
    BY <1>5, <1>24, <2>1, <2>2, <2>3 DEF StateTyped
<1>27. Live(L \cup {l})'
  <2>1. Start(l)' = Start(l)
    BY <1>10, <1>16, <1>17 DEF Start
  <2>2. \A a \in L : a # l /\ End(a) <= here' /\ End(a) <= Start(l)'
    BY <1>8, <1>9, <1>11, <1>23, <2>1
  <2>3. WordPrev(mem', l) = LastWord(current) /\ l = latest' /\ DataAddr(l)' <= here'
    BY <1>3, <1>5, <1>21, <1>23
  <2>4. QED
    BY <1>5, <1>8, <1>19, <1>20, <1>22, <1>23, <2>2, <2>3, LivePushed DEF Live
<1>28. Pushes
  <2>1. mem'[l].name \in Names \cup {<<>>}
    BY <1>8, <1>20, <1>22 DEF HeadersTyped
  <2>2. QED
    BY <1>3, <1>5, <1>21, <1>22, <2>1 DEF Pushes
<1>29. QED
  BY <1>19, <1>20, <1>25, <1>26, <1>27, <1>28, LiveIsLive DEF Outcome

LEMMA NamesAreTexts == \A name \in Names \cup {<<>>} : name \in Seq(Nat)
<1>1. <<>> \in Seq(Nat)
  OBVIOUS
<1>2. Names \subseteq Seq(Nat)
  BY NamesAssumption, Zenon
<1>3. QED
  BY <1>1, <1>2, Zenon

LEMMA BuiltInsBelow ==
    HeadersTyped => \A a \in DOMAIN BuiltIns : a \in DOMAIN mem /\ WordXt(a) \in Int /\ WordXt(a) <= 0
<1>1. \A a \in DOMAIN BuiltIns : WordXt(a) \in Int /\ WordXt(a) <= 0
  BY BuiltInsAssumption, SizesAssumption DEF WordXt
<1>2. QED
  BY <1>1 DEF HeadersTyped

LEMMA NewHasNoFlags ==
    \A name, off : /\ [NewHeader(name, off) EXCEPT !.flags = {}] = NewHeader(name, off)
                   /\ NewHeader(name, off).name = name /\ NewHeader(name, off).name_off = off
                   /\ NewHeader(name, off).flags = {} /\ NewHeader(name, off).data_n = 0
BY DEF NewHeader

(* The headers after name, and after a created word became a variable.     *)
LEMMA CreatedHeaders ==
    ASSUME HeadersTyped, StateTyped, NEW name \in Names \cup {<<>>}, NEW o,
           o = NameComma(mem, name).mem \/ o = LatestOptimized(NameComma(mem, name).mem)
    PROVE  \E nt \in Int, off \in Nat :
              /\ nt = NameComma(mem, name).nt /\ here <= nt - off /\ nt \notin DOMAIN BuiltIns
              /\ o \in [DOMAIN o -> Header] /\ DOMAIN o \subseteq DOMAIN mem \cup {nt}
              /\ nt \in DOMAIN o /\ o[nt] = NewHeader(name, off)
              /\ \A a \in DOMAIN o \ {nt} : AlmostSame(mem[a], o[a])
              /\ \A a \in DOMAIN BuiltIns : a \in DOMAIN o /\ o[a] = mem[a]
              /\ \A a \in DOMAIN mem : WordXt(a) <= here => a # nt /\ a \in DOMAIN o
<1>1. name \in Seq(Nat)
  BY NamesAreTexts
<1>2. here \in Int /\ DataStart <= here /\ DataStart \in Int /\ 0 < DataStart
  BY SizesAssumption DEF StateTyped, DataStart
<1>3. PICK w : w = NameComma(mem, name).mem
  OBVIOUS
<1>4. PICK nt \in Int, off \in Nat :
         /\ nt = NameComma(mem, name).nt
         /\ here <= nt - off /\ nt \notin DOMAIN BuiltIns
         /\ DOMAIN w \subseteq DOMAIN mem \cup {nt} /\ nt \in DOMAIN w
         /\ w[nt] = NewHeader(name, off)
         /\ \A a \in DOMAIN w \ {nt} : w[a] = mem[a]
         /\ \A a \in DOMAIN mem : WordXt(a) <= here => a # nt /\ a \in DOMAIN w
  <2>1. PICK h \in Int : h = here /\ DataStart <= h
    BY <1>2
  <2>2. PICK nt \in Int, off \in Nat :
              /\ nt = NameComma(mem, name).nt
              /\ h <= nt - off /\ h <= nt /\ nt \notin DOMAIN BuiltIns
              /\ DOMAIN NameComma(mem, name).mem \subseteq DOMAIN mem \cup {nt}
              /\ nt \in DOMAIN NameComma(mem, name).mem
              /\ NameComma(mem, name).mem[nt] = NewHeader(name, off)
              /\ \A a \in DOMAIN NameComma(mem, name).mem \ {nt} : NameComma(mem, name).mem[a] = mem[a]
              /\ \A a \in DOMAIN mem : WordXt(a) <= h => a # nt /\ a \in DOMAIN NameComma(mem, name).mem
    BY <1>1, <2>1, NameCommaFacts
  <2>3. QED
    BY <1>3, <2>1, <2>2
<1>5. w = [a \in DOMAIN w |-> w[a]]
  BY <1>3 DEF NameComma
<1>6. NewHeader(name, off) \in Header
  BY <1>1 DEF NewHeader, Header
<1>7. \A a \in DOMAIN mem : mem[a] \in Header
  BY DEF HeadersTyped
<1>8. w \in [DOMAIN w -> Header]
  <2>1. \A a \in DOMAIN w : w[a] \in Header
    BY <1>4, <1>6, <1>7
  <2>2. QED
    BY <1>5, <2>1
<1>9. \A a \in DOMAIN BuiltIns : a \in DOMAIN w /\ w[a] = mem[a]
  <2>1. \A a \in DOMAIN BuiltIns : a \in DOMAIN mem /\ WordXt(a) \in Int /\ WordXt(a) <= 0
    BY BuiltInsBelow
  <2>2. \A a \in DOMAIN BuiltIns : a \in DOMAIN mem /\ WordXt(a) <= here
    BY <1>2, <2>1
  <2>3. QED
    BY <1>4, <2>2
<1>10. /\ o \in [DOMAIN w -> Header] /\ \A a \in DOMAIN w : AlmostSame(w[a], o[a])
       /\ \A a \in DOMAIN w : a # latest \/ "create" \notin w[a].flags => o[a] = w[a]
  <2>1. CASE o = w
    <3>1. \A a \in DOMAIN w : w[a] \in Header
      BY <1>8
    <3>2. QED
      BY <1>8, <2>1, <3>1 DEF AlmostSame, SameWord
  <2>2. CASE o = LatestOptimized(w)
    <3>1. PICK l : l = latest
      OBVIOUS
    <3>2. QED
      BY <1>8, <2>2, <3>1, LatestOptimizedKeeps
  <2>3. QED
    BY <1>3, <2>1, <2>2
<1>11. DOMAIN o = DOMAIN w
  BY <1>10
<1>12. o[nt] = NewHeader(name, off)
  <2>1. "create" \notin w[nt].flags
    BY <1>4 DEF NewHeader
  <2>2. QED
    BY <1>4, <1>10, <2>1
<1>13. \A a \in DOMAIN o \ {nt} : AlmostSame(mem[a], o[a])
  <2>1. \A a \in DOMAIN w \ {nt} : w[a] = mem[a] /\ AlmostSame(w[a], o[a])
    BY <1>4, <1>10
  <2>2. QED
    BY <1>11, <2>1
<1>14. \A a \in DOMAIN BuiltIns : o[a] = mem[a]
  <2>1. 0 <= latest
    BY DEF StateTyped
  <2>2. latest \notin DOMAIN BuiltIns
    BY <2>1, Signs, BuiltInsAssumption DEF StateTyped
  <2>3. QED
    BY <1>9, <1>10, <2>2
<1>15. QED
  BY <1>4, <1>9, <1>10, <1>11, <1>12, <1>13, <1>14

(* A header that is not in a wordlist yet: code may follow.                *)
LEMMA NewWordStep ==
    ASSUME IInv, NEW L, Live(L), NEW name \in Names \cup {<<>>}, NEW nt \in Int, nt = NameComma(mem, name).nt,
           mem' = NameComma(mem, name).mem
           \/ mem' = [LatestOptimized(NameComma(mem, name).mem) EXCEPT ![nt].flags = {}],
           latest' = nt, WordXt(nt) <= DataSpace,
           \/ state' = 0 /\ here' = nt
           \/ state' = WordXt(nt) /\ here' = WordXt(nt),
           sys' \in Seq(SUBSET {"noname"}), UNCHANGED <<last, search>>
    PROVE  Outcome(L)
<1> USE DEF IInv
<1>1. UNCHANGED <<last, wids, current, order>>
  BY DEF search
<1>2. PICK o : o = IF mem' = NameComma(mem, name).mem THEN NameComma(mem, name).mem
                   ELSE LatestOptimized(NameComma(mem, name).mem)
  OBVIOUS
<1>3. PICK off \in Nat :
         /\ here <= nt - off /\ nt \notin DOMAIN BuiltIns
         /\ o \in [DOMAIN o -> Header] /\ DOMAIN o \subseteq DOMAIN mem \cup {nt}
         /\ nt \in DOMAIN o /\ o[nt] = NewHeader(name, off)
         /\ \A a \in DOMAIN o \ {nt} : AlmostSame(mem[a], o[a])
         /\ \A a \in DOMAIN BuiltIns : a \in DOMAIN o /\ o[a] = mem[a]
         /\ \A a \in DOMAIN mem : WordXt(a) <= here => a # nt /\ a \in DOMAIN o
  <2>1. o = NameComma(mem, name).mem \/ o = LatestOptimized(NameComma(mem, name).mem)
    BY <1>2
  <2>2. HeadersTyped /\ StateTyped
    OBVIOUS
  <2>3. PICK x \in Int, off \in Nat :
         /\ x = NameComma(mem, name).nt /\ here <= x - off /\ x \notin DOMAIN BuiltIns
         /\ o \in [DOMAIN o -> Header] /\ DOMAIN o \subseteq DOMAIN mem \cup {x}
         /\ x \in DOMAIN o /\ o[x] = NewHeader(name, off)
         /\ \A a \in DOMAIN o \ {x} : AlmostSame(mem[a], o[a])
         /\ \A a \in DOMAIN BuiltIns : a \in DOMAIN o /\ o[a] = mem[a]
         /\ \A a \in DOMAIN mem : WordXt(a) <= here => a # x /\ a \in DOMAIN o
    BY <2>1, <2>2, CreatedHeaders
  <2>4. x = nt
    BY <2>3
  <2>5. QED
    BY <2>3, <2>4
<1>4. mem' = o
  <2>1. CASE mem' = NameComma(mem, name).mem
    BY <1>2, <2>1
  <2>2. CASE mem' # NameComma(mem, name).mem
    <3>1. mem' = [o EXCEPT ![nt].flags = {}]
      BY <1>2, <2>2
    <3>2. [o[nt] EXCEPT !.flags = {}] = o[nt]
      BY <1>3, NewHasNoFlags
    <3>3. mem' = [o EXCEPT ![nt] = o[nt]]
      BY <3>1, <3>2
    <3>4. QED
      BY <1>3, <3>3
  <2>3. QED
    BY <2>1, <2>2
<1>5. /\ here \in Int /\ DataStart \in Int /\ DataStart <= here /\ here <= DataSpace /\ 0 < DataStart
      /\ \A a \in L : /\ a \in DOMAIN mem /\ a \in Int /\ End(a) \in Int /\ End(a) <= here
      /\ \A a \in L \cup DOMAIN BuiltIns : a \in DOMAIN mem /\ WordXt(a) <= here
  BY LiveBelow DEF Live
<1>6. nt < WordXt(nt) /\ WordXt(nt) \in Int /\ here <= nt /\ DataStart <= nt - off /\ DataSpace \in Int
  BY <1>3, <1>5, SizesAssumption, SMTT(30) DEF WordXt
<1>7. HeadersTyped'
  <2>1. mem'[nt] = NewHeader(name, off)
    BY <1>3, <1>4
  <2>2. /\ mem'[nt] \in Header /\ mem'[nt].name = name /\ mem'[nt].name_off = off
        /\ mem'[nt].flags = {}
    BY <1>3, <1>4, <2>1, NewHasNoFlags
  <2>3. mem' = [a \in DOMAIN mem' |-> mem'[a]]
    BY <1>3, <1>4
  <2>4. DOMAIN BuiltIns \subseteq DOMAIN mem' /\ \A a \in DOMAIN BuiltIns : mem'[a] = mem[a]
    BY <1>3, <1>4
  <2>5. DOMAIN mem' \subseteq DOMAIN mem \cup {nt} /\ \A a \in DOMAIN mem' \ {nt} : AlmostSame(mem[a], mem'[a])
    BY <1>3, <1>4
  <2>6. DataStart <= nt - mem'[nt].name_off
    BY <1>6, <2>2
  <2>7. QED
    <3>1. nt \in DOMAIN mem' =>
              /\ mem'[nt] \in Header /\ mem'[nt].name \in Names \cup {<<>>}
              /\ DataStart <= nt - mem'[nt].name_off
              /\ "create" \in mem'[nt].flags => mem'[nt].code # "data address"
      BY <2>2, <2>6
    <3>2. HeadersTyped /\ nt \in Int /\ nt \notin DOMAIN BuiltIns
      BY <1>3
    <3> HIDE DEF IInv
    <3>3. QED
      BY <2>3, <2>4, <2>5, <3>1, <3>2, HeadersAfter
<1>8. \A a \in L \cup DOMAIN BuiltIns : a \in DOMAIN mem' /\ a # nt /\ AlmostSame(mem[a], mem'[a])
  <2>1. \A a \in L \cup DOMAIN BuiltIns : a \in DOMAIN mem' /\ a # nt
    BY <1>3, <1>4, <1>5
  <2>2. QED
    BY <1>3, <1>4, <2>1
<1>9. Keeps(L) /\ KeepsData(L)
  BY <1>8 DEF AlmostSame, Keeps, KeepsData
<1>10. Closed(L)'
  BY <1>1, <1>9, ClosedStays DEF Live
<1>11. here' \in Int /\ here <= here' /\ DataStart <= here' /\ here' <= DataSpace
  BY <1>5, <1>6
<1>12. Apart(L)'
  <2>1. \A a \in L : End(a) <= here'
    BY <1>5, <1>11
  <2>2. QED
    BY <1>9, <2>1, ApartStays DEF Live
<1>13. OnTop(L)'
  <2>1. mem'[nt] = NewHeader(name, off)
    BY <1>3, <1>4
  <2>2. mem'[nt].data_n = 0 /\ Start(nt)' = nt - off
    BY <2>1 DEF NewHeader, Start
  <2>3. \A v \in L : End(v)' = End(v)
    BY <1>9, KeptWord DEF Keeps, KeepsData
  <2>4. \A v \in L : End(v)' <= Start(nt)'
    BY <1>3, <1>5, <2>2, <2>3
  <2>5. nt \notin L
    BY <1>8
  <2>6. QED
    BY <2>2, <2>4, <2>5 DEF OnTop
<1>14. SearchTyped'
  BY <1>1 DEF SearchTyped
<1>15. StateTyped'
  <2>1. here' \in DataStart .. DataSpace
    BY <1>5, <1>6, <1>11
  <2>2. latest' \in 0 .. DataSpace
    BY <1>5, <1>6
  <2>3. nt \in DOMAIN mem'
    BY <1>3, <1>4
  <2>4. state' = 0 \/ (state' = WordXt(latest') /\ latest' \in DOMAIN mem' /\ state' <= here')
    BY <1>6, <2>3
  <2>5. QED
    BY <1>1, <2>1, <2>2, <2>4 DEF StateTyped
<1>16. QED
  BY <1>1, <1>7, <1>9, <1>10, <1>12, <1>13, <1>14, <1>15, LiveIsLive DEF Outcome, Live

LEMMA NewWordAddress ==
    ASSUME IInv, NEW name \in Names \cup {<<>>}
    PROVE  NameComma(mem, name).nt \in Int
<1>1. PICK o : o = NameComma(mem, name).mem
  OBVIOUS
<1>2. QED
  BY <1>1, CreatedHeaders DEF IInv

LEMMA SysPushed ==
    ASSUME IInv, NEW f \in SUBSET {"noname"}
    PROVE  Append(sys, f) \in Seq(SUBSET {"noname"})
BY DEF IInv, StateTyped

LEMMA ColonStep ==
    ASSUME IInv, NEW L, Live(L), NEW name \in Names, Colon(name)
    PROVE  Outcome(L)
<1>1. PICK nt \in Int : nt = NameComma(mem, name).nt
  BY NewWordAddress
<1>2. /\ mem' = [LatestOptimized(NameComma(mem, name).mem) EXCEPT ![nt].flags = {}]
      /\ here' = WordXt(nt) /\ latest' = nt /\ state' = WordXt(nt) /\ WordXt(nt) <= DataSpace
      /\ sys' = Append(sys, {}) /\ UNCHANGED <<last, search>>
  BY <1>1 DEF Colon, Create, Fits
<1>3. sys' \in Seq(SUBSET {"noname"})
  BY <1>2, SysPushed
<1>4. name \in Names \cup {<<>>}
  OBVIOUS
<1>5. QED
  BY <1>1, <1>2, <1>3, <1>4, NewWordStep

LEMMA NonameStep ==
    ASSUME IInv, NEW L, Live(L), Noname
    PROVE  Outcome(L)
<1>1. <<>> \in Names \cup {<<>>}
  OBVIOUS
<1>2. PICK name \in Names \cup {<<>>} : name = <<>>
  BY <1>1
<1>3. PICK nt \in Int : nt = NameComma(mem, name).nt
  BY NewWordAddress
<1>4. /\ mem' = NameComma(mem, name).mem /\ latest' = nt /\ WordXt(nt) <= DataSpace
      /\ state' = IF state = 0 THEN WordXt(nt) ELSE 0
      /\ IF state = 0 THEN here' = WordXt(nt) /\ sys' = Append(sys, {"noname"}) ELSE here' = nt /\ sys' = sys
      /\ UNCHANGED <<last, search>>
  BY <1>2, <1>3 DEF Noname, Fits
<1>5. sys' \in Seq(SUBSET {"noname"})
  <2>1. sys \in Seq(SUBSET {"noname"})
    BY DEF IInv, StateTyped
  <2>2. Append(sys, {"noname"}) \in Seq(SUBSET {"noname"})
    BY SysPushed
  <2>3. QED
    BY <1>4, <2>1, <2>2
<1>6. \/ state' = 0 /\ here' = nt
      \/ state' = WordXt(nt) /\ here' = WordXt(nt)
  BY <1>4
<1>7. QED
  BY <1>3, <1>4, <1>5, <1>6, NewWordStep

LEMMA HostColonStep ==
    ASSUME IInv, NEW L, Live(L), HostColon
    PROVE  Outcome(L)
<1>1. <<>> \in Names \cup {<<>>}
  OBVIOUS
<1>2. PICK name \in Names \cup {<<>>} : name = <<>>
  BY <1>1
<1>3. PICK nt \in Int : nt = NameComma(mem, name).nt
  BY NewWordAddress
<1>4. /\ mem' = NameComma(mem, name).mem /\ latest' = nt /\ WordXt(nt) <= DataSpace
      /\ state' = WordXt(nt) /\ here' = WordXt(nt) /\ sys' = Append(sys, {})
      /\ UNCHANGED <<last, search>>
  BY <1>2, <1>3 DEF HostColon, Fits
<1>5. sys' \in Seq(SUBSET {"noname"})
  BY <1>4, SysPushed
<1>6. QED
  BY <1>3, <1>4, <1>5, NewWordStep

\* how a defining word leaves the code of the word it makes
MadeAs(flags, code) == /\ flags \in SUBSET {"create", "var", "value", "immediate"}
                       /\ code \in {"tokens", "call noop", "call does", "data address"}
                       /\ "create" \in flags => code # "data address"

LEMMA DefiningStep ==
    ASSUME IInv, NEW L, Live(L), NEW name \in Names, NEW flags, NEW code, MadeAs(flags, code),
           NEW n \in Nat, NEW data_n \in Nat, Defining(name, flags, code, n, data_n)
    PROVE  Outcome(L)
<1> USE DEF IInv
<1>1. PICK o : o = LatestOptimized(NameComma(mem, name).mem)
  OBVIOUS
<1>2. PICK nt \in Int, off \in Nat :
         /\ nt = NameComma(mem, name).nt /\ here <= nt - off /\ nt \notin DOMAIN BuiltIns
         /\ o \in [DOMAIN o -> Header] /\ DOMAIN o \subseteq DOMAIN mem \cup {nt}
         /\ nt \in DOMAIN o /\ o[nt] = NewHeader(name, off)
         /\ \A a \in DOMAIN o \ {nt} : AlmostSame(mem[a], o[a])
         /\ \A a \in DOMAIN BuiltIns : a \in DOMAIN o /\ o[a] = mem[a]
         /\ \A a \in DOMAIN mem : WordXt(a) <= here => a # nt /\ a \in DOMAIN o
  <2>1. name \in Names \cup {<<>>} /\ HeadersTyped /\ StateTyped
    OBVIOUS
  <2> HIDE DEF IInv
  <2>2. QED
    BY <1>1, <2>1, CreatedHeaders
<1>3. PICK p : p = LastWord(current)
  OBVIOUS
<1>4. /\ here \in Int /\ DataStart \in Int /\ DataStart <= here /\ here <= DataSpace /\ 0 < DataStart
      /\ \A a \in L : /\ a \in DOMAIN mem /\ a \in Int /\ End(a) \in Int /\ End(a) <= here
      /\ \A a \in L : WordXt(a) \in Int /\ a < WordXt(a) /\ WordXt(a) <= here
      /\ \A a \in L \cup DOMAIN BuiltIns : a \in DOMAIN mem /\ WordXt(a) \in Int /\ WordXt(a) <= here
  BY LiveBelow DEF Live
<1>5. nt < WordXt(nt) /\ WordXt(nt) \in Int /\ here <= nt /\ DataStart <= nt - off /\ DataSpace \in Int /\ 0 < nt
  BY <1>2, <1>4, SizesAssumption DEF WordXt
<1>6. PICK x \in Int, d \in Int : x = WordXt(nt) + SZt * n /\ d = Aligned(x) /\ WordXt(nt) <= x /\ x <= d
  <2>1. PICK c \in Nat : c = SZt * n
    BY SizesAssumption
  <2>2. PICK x \in Int : x = WordXt(nt) + c
    BY <1>5
  <2>3. Aligned(x) \in Int /\ x <= Aligned(x)
    BY Arithmetic
  <2>4. WordXt(nt) <= x
    BY <1>5, <2>2
  <2>5. QED
    BY <2>1, <2>2, <2>3, <2>4
<1>7. PICK r : r = Overwritten(o, WordXt(nt), d + data_n)
  OBVIOUS
<1> DEFINE hd == [o[nt] EXCEPT !.flags = flags, !.code = code, !.code_n = n, !.data_n = data_n]
<1>8. /\ state = 0 /\ here' = d + data_n /\ here' <= DataSpace
      /\ mem' = Added([r EXCEPT ![nt] = hd], nt, current)
      /\ latest' = nt /\ last' = [last EXCEPT ![current] = nt]
      /\ UNCHANGED <<state, sys, wids, current, order>>
  BY <1>1, <1>2, <1>6, <1>7 DEF Defining, Fits, search
<1>9. \A v \in L : v < nt
  BY <1>4, <1>5
<1>10. p \in Int /\ (p = 0 \/ p < nt)
  BY <1>3, <1>5, <1>9, LastWordBelow DEF Live
<1>11. LinkTo(nt, p) \in Nat
  BY <1>10 DEF LinkTo
<1>12. mem' = [[r EXCEPT ![nt] = hd] EXCEPT ![nt].prev_off = LinkTo(nt, p)]
  BY <1>3, <1>8 DEF Added, LinkTo
<1>13. NewHeader(name, off) \in Header
  BY <1>2
<1>14. PICK h \in Header : h = [hd EXCEPT !.prev_off = LinkTo(nt, p)]
  <2>1. hd \in Header
    BY <1>2, <1>13 DEF Header, MadeAs
  <2> HIDE DEF hd
  <2>2. [hd EXCEPT !.prev_off = LinkTo(nt, p)] \in Header
    BY <1>11, <2>1 DEF Header
  <2>3. QED
    BY <2>2
<1>15. /\ h.name = name /\ h.name_off = off /\ h.flags = flags /\ h.code = code
       /\ h.data_n = data_n /\ h.code_n = n /\ h.prev_off = LinkTo(nt, p)
  BY <1>2, <1>14 DEF NewHeader
<1> HIDE DEF hd
<1>16. /\ DOMAIN r \subseteq DOMAIN o /\ \A a \in DOMAIN r : r[a] = o[a]
       /\ \A a \in DOMAIN o : WordXt(a) <= WordXt(nt) => a \in DOMAIN r
  BY <1>7, OverwrittenKeeps
<1>17. nt \in DOMAIN r
  BY <1>2, <1>5, <1>16
<1>18. /\ DOMAIN mem' = DOMAIN r /\ mem'[nt] = h /\ \A a \in DOMAIN r : a # nt => mem'[a] = r[a]
       /\ mem' = [a \in DOMAIN mem' |-> mem'[a]]
  <2>1. r = [a \in DOMAIN r |-> r[a]]
    BY <1>7 DEF Overwritten
  <2>2. mem' = [r EXCEPT ![nt] = h]
    BY <1>12, <1>14, <1>17, <2>1
  <2>3. QED
    BY <1>17, <2>1, <2>2
<1>19. \A a \in L \cup DOMAIN BuiltIns : a \in DOMAIN mem' /\ a # nt /\ AlmostSame(mem[a], mem'[a])
  <2>1. \A a \in L \cup DOMAIN BuiltIns : a \in DOMAIN o /\ a # nt /\ WordXt(a) <= WordXt(nt)
    BY <1>2, <1>4, <1>5
  <2>2. QED
    BY <1>2, <1>16, <1>18, <2>1
<1>20. Keeps(L) /\ KeepsData(L)
  BY <1>19 DEF AlmostSame, Keeps, KeepsData
<1>21. HeadersTyped'
  <2>1. DOMAIN mem' \subseteq DOMAIN mem \cup {nt} /\ \A a \in DOMAIN mem' \ {nt} : AlmostSame(mem[a], mem'[a])
    BY <1>2, <1>16, <1>18
  <2>2. DOMAIN BuiltIns \subseteq DOMAIN mem' /\ \A a \in DOMAIN BuiltIns : mem'[a] = mem[a]
    BY <1>2, <1>16, <1>18, <1>19
  <2>3. nt \in DOMAIN mem' =>
           /\ mem'[nt] \in Header /\ mem'[nt].name \in Names \cup {<<>>}
           /\ DataStart <= nt - mem'[nt].name_off
           /\ "create" \in mem'[nt].flags => mem'[nt].code # "data address"
    BY <1>5, <1>15, <1>18 DEF MadeAs
  <2>4. HeadersTyped /\ nt \in Int /\ nt \notin DOMAIN BuiltIns /\ mem' = [a \in DOMAIN mem' |-> mem'[a]]
    BY <1>2, <1>18
  <2> HIDE DEF IInv
  <2>5. QED
    BY <2>1, <2>2, <2>3, <2>4, HeadersAfter
<1>22. nt \in DOMAIN mem'
  BY <1>17, <1>18
<1>23. WordPrev(mem', nt) = p
  BY <1>10, <1>15, <1>18 DEF WordPrev, LinkTo
<1>24. /\ DataAddr(nt)' = d /\ End(nt)' <= here' /\ here' \in Int /\ d <= here' /\ Start(nt)' = nt - off
  <2>1. DataAddr(nt)' = d
    BY <1>6, <1>15, <1>18 DEF DataAddr
  <2>2. End(nt)' = IF data_n = 0 THEN x ELSE d + data_n
    BY <1>6, <1>15, <1>18, <2>1 DEF End
  <2>3. Start(nt)' = nt - off
    BY <1>15, <1>18 DEF Start
  <2>4. QED
    BY <1>6, <1>8, <2>1, <2>2, <2>3
<1>25. here' \in DataStart .. DataSpace /\ here <= here' /\ nt <= DataSpace /\ 0 <= nt
  BY <1>4, <1>5, <1>6, <1>8, <1>24
<1>26. SearchTyped'
  BY <1>8 DEF SearchTyped
<1>27. StateTyped'
  <2>1. last' \in [Wids -> Int] /\ \A w \in Wids \ wids' : last'[w] = 0
    BY <1>8 DEF StateTyped, SearchTyped
  <2>2. latest' \in 0 .. DataSpace
    BY <1>5, <1>8, <1>25
  <2>3. QED
    BY <1>8, <1>25, <2>1, <2>2 DEF StateTyped
<1>28. Live(L \cup {nt})'
  <2>1. \A a \in L : a # nt /\ End(a) <= here' /\ End(a) <= Start(nt)'
    BY <1>2, <1>4, <1>19, <1>24, <1>25
  <2>2. WordPrev(mem', nt) = LastWord(current) /\ nt = latest' /\ DataAddr(nt)' <= here' /\ state' = 0
    BY <1>3, <1>8, <1>23, <1>24
  <2>3. Closed(L) /\ Apart(L)
    BY DEF Live
  <2>4. QED
    BY <1>2, <1>8, <1>20, <1>21, <1>22, <1>24, <2>1, <2>2, <2>3, LivePushed
<1>29. Pushes
  BY <1>3, <1>8, <1>15, <1>18, <1>22, <1>23 DEF Pushes
<1>30. QED
  BY <1>20, <1>21, <1>26, <1>27, <1>28, <1>29, LiveIsLive DEF Outcome

LEMMA DefiningWordStep ==
    ASSUME IInv, NEW L, Live(L), NEW name \in Names, CreateWord(name) \/ BufferColon(name) \/ Value(name)
    PROVE  Outcome(L)
<1>1. MadeAs({"create"}, "call noop") /\ MadeAs({"var"}, "data address") /\ MadeAs({"value"}, "data address")
  BY DEF MadeAs
<1>2. 0 \in Nat /\ 2 \in Nat /\ 3 \in Nat /\ SZ \in Nat /\ CreateTokens \in Nat
  <2>1. SZ \div SZt \in Nat
    BY SizesAssumption
  <2>2. QED
    BY <2>1, SizesAssumption DEF CreateTokens
<1>3. \/ Defining(name, {"create"}, "call noop", CreateTokens, 0)
      \/ Defining(name, {"var"}, "data address", 2, SZ)
      \/ Defining(name, {"value"}, "data address", 3, SZ)
  BY DEF CreateWord, BufferColon, Value
<1>4. \E f, c : MadeAs(f, c) /\ \E n, k \in Nat : Defining(name, f, c, n, k)
  BY <1>1, <1>2, <1>3, Zenon
<1>5. QED
  BY <1>4, DefiningStep

---------------------------------------------------------------------------
(* Forgetting, clearing, and the beginning.                                *)

LEMMA ForgetAllStep ==
    ASSUME IInv, NEW L, Live(L), ForgetAll
    PROVE  Outcome(L)
<1> USE DEF IInv
<1>1. /\ UNCHANGED <<mem, here, latest, state, sys, wids, current, order>>
      /\ last' = [last EXCEPT ![current] = 0]
  BY DEF ForgetAll, heap, compiler, search
<1>2. HeadersTyped' /\ SearchTyped'
  BY <1>1, SameHeaders DEF Live, SearchTyped
<1>3. last' \in [Wids -> Int] /\ \A w \in Wids : last'[w] = last[w] \/ last'[w] = 0
  <2>1. last \in [Wids -> Int]
    BY DEF StateTyped
  <2>2. last' = [last EXCEPT ![current] = 0]
    BY <1>1
  <2> HIDE DEF IInv
  <2>3. last' \in [Wids -> Int]
    <3>1. PICK z \in Int : z = 0
      OBVIOUS
    <3>2. last' = [last EXCEPT ![current] = z]
      BY <2>2, <3>1
    <3>3. QED
      BY <2>1, <3>2
  <2>4. \A w \in Wids : last'[w] = last[w] \/ last'[w] = 0
    BY <2>1, <2>2
  <2>5. QED
    BY <2>3, <2>4
<1>4. StateTyped'
  BY <1>1, <1>3 DEF StateTyped
<1>5. Live(L)'
  <2>1. Closed(L)'
    BY <1>1, <1>3 DEF Live, Closed
  <2>2. Apart(L)' /\ OnTop(L)'
    BY <1>1 DEF Live, Apart, OnTop, End, Start, DataAddr
  <2>3. QED
    BY <2>1, <2>2 DEF Live
<1>6. QED
  BY <1>2, <1>4, <1>5, LiveIsLive DEF Outcome

Cleared == /\ mem = BuiltIns /\ here = DataStart /\ latest = 0 /\ state = 0 /\ sys = <<>>
           /\ last = [w \in Wids |-> 0]

LEMMA NothingLive == Cleared => HeadersTyped /\ StateTyped /\ Live({})
<1> SUFFICES ASSUME Cleared
             PROVE  HeadersTyped /\ StateTyped /\ Live({})
  OBVIOUS
<1>1. mem \in [DOMAIN mem -> Header] /\ DOMAIN mem \subseteq Int
  BY HeadersAssumption, BuiltInsAssumption DEF Cleared
<1>2. HeadersTyped
  BY <1>1 DEF Cleared, HeadersTyped
<1>3. DataStart \in DataStart .. DataSpace /\ 0 \in 0 .. DataSpace
  BY SizesAssumption DEF DataStart
<1>4. StateTyped
  BY <1>3 DEF Cleared, StateTyped
<1>5. 0 \notin DOMAIN mem
  BY <1>2, Signs
<1>6. QED
  BY <1>2, <1>4, <1>5 DEF Live, Closed, Apart, OnTop, Cleared

LEMMA NothingLiveAfter == Cleared' => HeadersTyped' /\ StateTyped' /\ Live({})'
BY NothingLive, PTL

LEMMA ClearStep ==
    ASSUME IInv, NEW L, Clear
    PROVE  Outcome(L)
<1> USE DEF IInv
<1>1. last' = [w \in Wids |-> 0]
  BY DEF Clear, StateTyped
<1>2. Cleared'
  BY <1>1 DEF Clear, Cleared, search
<1>3. SearchTyped'
  BY DEF Clear, search, SearchTyped
<1>4. HeadersTyped' /\ StateTyped' /\ WordsLive'
  BY <1>2, NothingLiveAfter, LiveIsLive
<1>5. QED
  BY <1>3, <1>4 DEF Outcome

LEMMA Begins == Init => IInv
<1> SUFFICES ASSUME Init
             PROVE  IInv
  OBVIOUS
<1>1. Cleared
  BY DEF Init, Cleared
<1>2. WordsLive
  BY <1>1, NothingLive DEF WordsLive
<1>3. Forth \in wids /\ User \in wids /\ wids = BuiltInWids
  BY DEF Init, BuiltInWids
<1>4. order \in Seq(wids) /\ Len(order) \in Nat /\ Len(order) <= SearchOrderMax
  <2>1. ASSUME NEW o \in Seq(wids), Len(o) <= SearchOrderMax, NEW w \in wids
        PROVE  AlsoWid(o, w) \in Seq(wids) /\ Len(AlsoWid(o, w)) <= SearchOrderMax
    BY <2>1, SizesAssumption DEF AlsoWid
  <2>2. <<>> \in Seq(wids) /\ Len(<<>>) <= SearchOrderMax
    BY SizesAssumption
  <2>3. AlsoWid(<<>>, User) \in Seq(wids) /\ Len(AlsoWid(<<>>, User)) <= SearchOrderMax
    BY <1>3, <2>1, <2>2
  <2>4. PICK o \in Seq(wids) : o = AlsoWid(AlsoWid(<<>>, User), Forth) /\ Len(o) <= SearchOrderMax
    BY <1>3, <2>1, <2>3
  <2>5. order = AlsoWid(o, Forth)
    BY <2>4 DEF Init
  <2>6. QED
    BY <1>3, <2>1, <2>4, <2>5
<1>5. SearchTyped
  BY <1>3, <1>4 DEF SearchTyped, Wids, Init
<1>6. QED
  BY <1>1, <1>2, <1>5, NothingLive DEF IInv

---------------------------------------------------------------------------
(* The invariant is inductive.                                             *)

LEMMA NextStep ==
    ASSUME IInv, NEW L, Live(L), Next
    PROVE  Outcome(L)
<1>1. CASE Define
  <2>1. ASSUME NEW name \in Names, Colon(name)
        PROVE  Outcome(L)
    BY <2>1, ColonStep
  <2>2. ASSUME NEW name \in Names, CreateWord(name) \/ BufferColon(name) \/ Value(name)
        PROVE  Outcome(L)
    BY <2>2, DefiningWordStep
  <2>3. ASSUME NEW n \in CodeLengths, Semi(n)
        PROVE  Outcome(L)
    BY <2>3, SemiStep
  <2>4. QED
    BY <1>1, <2>1, <2>2, <2>3, NonameStep DEF Define
<1>2. CASE Body
  BY <1>2, CompileTokenStep, CommaStep, DoesStep, ImmediateStep, LeftBracketStep, RightBracketStep, ErrorStep
     DEF Body
<1>3. CASE Order
  BY <1>3, OrderStep
<1>4. CASE Host
  BY <1>4, ForgetAllStep, ClearStep, HostColonStep, SyncLastwStep DEF Host
<1>5. QED
  BY <1>1, <1>2, <1>3, <1>4 DEF Next

LEMMA SomeLive ==
    ASSUME WordsLive
    PROVE  \E L \in SUBSET DOMAIN mem : Live(L)
BY DEF WordsLive

LEMMA NothingHappens ==
    ASSUME IInv, UNCHANGED vars
    PROVE  IInv'
<1>1. /\ mem' = mem /\ here' = here /\ latest' = latest /\ state' = state /\ sys' = sys
      /\ last' = last /\ wids' = wids /\ current' = current /\ order' = order
  BY DEF vars
<1>2. WordsLive'
  BY <1>1 DEF IInv, WordsLive, Live, Closed, Apart, OnTop, End, Start, DataAddr
<1>3. HeadersTyped' /\ StateTyped' /\ SearchTyped'
  BY <1>1 DEF IInv, HeadersTyped, StateTyped, SearchTyped, Start
<1>4. QED
  BY <1>2, <1>3 DEF IInv

(* What is in a wordlist and what is being compiled stays typed, linked to *)
(* words below it and clear of the others, whatever is defined, thrown,    *)
(* forgotten or cleared (Dictionary's actions: forth/m64th/core.S:594,     *)
(* generic_asm/core.S:128).                                                *)
THEOREM Inductive == Spec => []IInv
<1>1. ASSUME IInv, [Next]_vars
      PROVE  IInv'
  <2>1. PICK L \in SUBSET DOMAIN mem : Live(L)
    BY <1>1, SomeLive DEF IInv
  <2>2. CASE Next
    BY <1>1, <2>1, <2>2, NextStep DEF Outcome, IInv
  <2>3. CASE UNCHANGED vars
    BY <1>1, <2>3, NothingHappens
  <2>4. QED
    BY <1>1, <2>2, <2>3
<1>2. QED
  BY <1>1, Begins, PTL DEF Spec

(* The type of the state, with a search order that is never too long and   *)
(* never holds the NULL wordlist (TypeOK).                                 *)
THEOREM TypeCorrect == Spec => []TypeOK
<1>1. IInv => TypeOK
  <2> SUFFICES ASSUME IInv
               PROVE  TypeOK
    OBVIOUS
  <2>1. Len(order) \in Nat /\ \A i \in DOMAIN order : order[i] \in wids
    BY DEF IInv, SearchTyped
  <2>2. \A w \in Wids : last[w] = 0 \/ w \in wids
    BY DEF IInv, StateTyped
  <2>3. QED
    BY <2>1, <2>2 DEF IInv, HeadersTyped, StateTyped, SearchTyped, TypeOK, SearchOrderUnique
<1>2. QED
  BY <1>1, Inductive, PTL

---------------------------------------------------------------------------
(* What wordlists chain.                                                   *)
Known(L) == L \cup DOMAIN BuiltIns

LEMMA HeadersLinked ==
    ASSUME HeadersTyped
    PROVE  Linked(mem)
<1>1. PICK first \in DOMAIN BuiltIns \cup {0} : \A nt \in DOMAIN BuiltIns : first <= nt
  BY BuiltInsAssumption
<1>2. first \in Int /\ first <= 0
  BY Signs, BuiltInsAssumption
<1>3. \A a \in DOMAIN mem \ DOMAIN BuiltIns : a \in Int /\ 0 < a
  BY Signs
<1>4. \A a \in DOMAIN mem : first <= a
  BY <1>1, <1>2, <1>3
<1>5. DOMAIN mem \subseteq Int /\ \A a \in DOMAIN mem : WordPrev(mem, a) \in Int
  BY Extents
<1>6. QED
  BY <1>2, <1>4, <1>5 DEF Linked

LEMMA KnownClosed ==
    ASSUME HeadersTyped, NEW L, Closed(L)
    PROVE  ClosedIn(mem, Known(L))
<1>1. Linked(mem)
  BY HeadersLinked
<1>2. 0 \notin DOMAIN mem
  BY Signs
<1>3. Known(L) \subseteq DOMAIN mem
  BY DEF Known, Closed, HeadersTyped
<1>4. ASSUME NEW a \in Known(L)
      PROVE  WordPrev(mem, a) \in {0} \cup {b \in Known(L) : b < a}
  <2>1. CASE a \in L
    BY <2>1 DEF Closed, Known
  <2>2. CASE a \in DOMAIN BuiltIns
    <3>1. mem[a] = BuiltIns[a]
      BY <2>2 DEF HeadersTyped
    <3>2. WordPrev(mem, a) = WordPrev(BuiltIns, a)
      BY <3>1 DEF WordPrev
    <3>3. QED
      BY <2>2, <3>2, BuiltInsAssumption DEF Known
  <2>3. QED
    BY <1>4, <2>1, <2>2 DEF Known
<1>5. QED
  BY <1>1, <1>2, <1>3, <1>4 DEF ClosedIn

LEMMA LastWordKnown ==
    ASSUME NEW L, Closed(L), NEW w \in Wids
    PROVE  LastWord(w) \in Known(L) \cup {0}
<1>1. last[w] \in L \cup {0}
  BY DEF Closed
<1>2. w \in BuiltInWids => Dict[w] \in DOMAIN BuiltIns \cup {0}
  BY BuiltInsAssumption
<1>3. QED
  BY <1>1, <1>2, WidsAssumption DEF LastWord, Known

LEMMA WordsKnown ==
    ASSUME HeadersTyped, NEW L, Closed(L), NEW w \in Wids
    PROVE  Words(w) \in Seq(Known(L)) /\ Decreasing(Words(w)) /\ ToSet(Words(w)) \subseteq Known(L)
<1>1. Words(w) \in Seq(Known(L)) /\ Decreasing(Words(w))
  BY KnownClosed, LastWordKnown, ChainFacts DEF Words
<1>2. QED
  BY <1>1 DEF ToSet

(* Words of wordlists and the word being compiled each have their name,    *)
(* header, code and data to themselves below HERE (WordsApart: name, at    *)
(* generic_asm/core.S:128, compiler-abort, _finish_).                      *)
THEOREM WordsApartHolds == Spec => []WordsApart
<1>1. ASSUME IInv
      PROVE  WordsApart
  <2>1. HeadersTyped /\ StateTyped /\ SearchTyped
    BY <1>1 DEF IInv
  <2>2. PICK L \in SUBSET DOMAIN mem : Closed(L) /\ Apart(L) /\ OnTop(L)
    BY <1>1, SomeLive DEF IInv, Live
  <2>3. wids \subseteq Wids
    BY <2>1 DEF SearchTyped
  <2>4. ASSUME NEW w \in wids
        PROVE  /\ LastWord(w) \in DOMAIN mem \cup {0}
               /\ \A nt \in ToSet(Words(w)) : WordPrev(mem, nt) \in {0} \cup {a \in DOMAIN mem : a < nt}
    <3>1. ClosedIn(mem, Known(L)) /\ LastWord(w) \in Known(L) \cup {0} /\ ToSet(Words(w)) \subseteq Known(L)
      BY <2>1, <2>2, <2>3, KnownClosed, LastWordKnown, WordsKnown
    <3>2. QED
      BY <3>1 DEF ClosedIn
  <2>5. UserWords \subseteq L
    <3>1. ASSUME NEW w \in wids, NEW nt \in ToSet(Words(w)), nt > 0
          PROVE  nt \in L
      <4>1. nt \in Known(L)
        BY <2>1, <2>2, <2>3, WordsKnown
      <4>2. nt \notin DOMAIN BuiltIns
        BY <2>1, <3>1, Signs, BuiltInsAssumption
      <4>3. QED
        BY <4>1, <4>2 DEF Known
    <3>2. QED
      BY <3>1 DEF UserWords
  <2>6. ASSUME NEW v \in L
        PROVE  /\ v \in Int /\ End(v) \in Int /\ v < End(v) /\ End(v) <= here
               /\ Start(v) \in Int /\ Start(v) <= v /\ here \in Int
    BY <2>1, <2>2, LiveBelow, Extents
  <2>7. state # 0 => /\ latest \in DOMAIN mem \ L /\ \A v \in L : End(v) <= Start(latest)
                     /\ WordXt(latest) <= here /\ latest \in Int /\ Start(latest) \in Int /\ Start(latest) <= latest
    <3>1. state # 0 => latest \in DOMAIN mem /\ WordXt(latest) <= here
      BY <2>1 DEF StateTyped
    <3>2. latest \in DOMAIN mem => latest \in Int /\ Start(latest) \in Int /\ Start(latest) <= latest
      BY <2>1, Extents
    <3>3. QED
      BY <2>2, <3>1, <3>2 DEF OnTop
  <2> DEFINE words == UserWords \cup Unfinished
             end(nt) == IF nt \in Unfinished THEN WordXt(nt) ELSE End(nt)
  <2>8. ASSUME NEW v \in words
        PROVE  end(v) <= here /\ \A w \in words : v < w => end(v) <= Start(w)
    <3>1. CASE v \in Unfinished
      <4>1. state # 0 /\ v = latest
        BY <3>1 DEF Unfinished
      <4>2. \A w \in words : ~ (v < w)
        <5>1. ASSUME NEW w \in words, v < w
              PROVE  FALSE
          <6>1. w \in L \/ w = latest
            BY <2>5, <4>1 DEF Unfinished
          <6>2. CASE w = latest
            BY <2>7, <4>1, <5>1, <6>2
          <6>3. CASE w \in L
            BY <2>6, <2>7, <4>1, <5>1, <6>3
          <6>4. QED
            BY <6>1, <6>2, <6>3
        <5>2. QED
          BY <5>1
      <4>3. QED
        BY <2>7, <3>1, <4>1, <4>2
    <3>2. CASE v \notin Unfinished
      <4>1. v \in L
        BY <2>5, <2>8, <3>2
      <4>2. end(v) = End(v)
        BY <3>2
      <4>3. ASSUME NEW w \in words, v < w
            PROVE  End(v) <= Start(w)
        <5>1. w \in L \/ (state # 0 /\ w = latest)
          BY <2>5 DEF Unfinished
        <5>2. QED
          BY <2>2, <2>7, <4>1, <4>3, <5>1 DEF Apart
      <4>4. QED
        BY <2>6, <4>1, <4>2, <4>3
    <3>3. QED
      BY <3>1, <3>2
  <2> HIDE DEF words, end
  <2>9. \A v \in words : end(v) <= here /\ \A w \in words : v < w => end(v) <= Start(w)
    BY <2>8
  <2>10. QED
    BY <2>4, <2>9 DEF WordsApart, words, end
<1>2. QED
  BY <1>1, Inductive, PTL

---------------------------------------------------------------------------
(* Finding words.                                                          *)

LEMMA LeastIndex ==
    ASSUME NEW n \in Nat, NEW S \in SUBSET (1 .. n), S # {}
    PROVE  Min(S) \in S /\ \A y \in S : Min(S) <= y
<1>1. S \subseteq Nat
  OBVIOUS
<1>2. \E x \in S : \A y \in S : x <= y
  BY <1>1, LeastNat
<1>3. QED
  BY <1>2 DEF Min

LEMMA GreatestIndex ==
    ASSUME NEW n \in Nat, NEW S \in SUBSET (1 .. n), S # {}
    PROVE  Max(S) \in S /\ \A y \in S : y <= Max(S)
<1> DEFINE T == {n - y : y \in S}
<1>1. T \subseteq Nat /\ T # {}
  <2>1. \A y \in S : n - y \in Nat
    OBVIOUS
  <2>2. QED
    BY <2>1
<1> HIDE DEF T
<1>2. PICK t \in T : \A u \in T : t <= u
  BY <1>1, LeastNat
<1>3. PICK x \in S : t = n - x
  BY <1>2 DEF T
<1>4. \A y \in S : n - x <= n - y
  BY <1>2, <1>3 DEF T
<1>5. \A y \in S : x >= y
  BY <1>4
<1>6. Max(S) \in S /\ \A y \in S : Max(S) >= y
  BY <1>3, <1>5 DEF Max
<1>7. QED
  BY <1>6

LEMMA NoNameMatches ==
    ASSUME NEW str \in Names
    PROVE  ~ CiEquals(str, <<>>)
<1>1. str \in Seq(Nat) /\ str # <<>>
  BY NamesAssumption
<1>2. DOMAIN str # {}
  <2>1. Len(str) \in Nat /\ Len(str) # 0 /\ DOMAIN str = 1 .. Len(str)
    BY <1>1, EmptySeq
  <2>2. 1 \in DOMAIN str
    BY <2>1
  <2>3. QED
    BY <2>2
<1>3. QED
  BY <1>2 DEF CiEquals

Named(w, str) == {n \in ToSet(Words(w)) : CiEquals(str, mem[n].name)}

(* A wordlist finds its newest word of a name.                             *)
LEMMA WordlistFindNewest ==
    ASSUME HeadersTyped, NEW L, Closed(L), NEW w \in Wids, NEW str \in Names
    PROVE  IF Named(w, str) = {} THEN WordlistFind(w, str) = 0
           ELSE /\ WordlistFind(w, str) # 0 /\ WordlistFind(w, str) \in Named(w, str)
                /\ \A n \in Named(w, str) : n <= WordlistFind(w, str)
<1>1. PICK words : words = Words(w)
  OBVIOUS
<1>2. words \in Seq(Known(L)) /\ Decreasing(words) /\ Known(L) \subseteq Int /\ 0 \notin Known(L)
  BY <1>1, WordsKnown, KnownClosed DEF ClosedIn, Linked
<1> DEFINE found == {i \in DOMAIN words : mem[words[i]].name # <<>> /\ CiEquals(str, mem[words[i]].name)}
<1>3. found = {i \in DOMAIN words : CiEquals(str, mem[words[i]].name)}
  BY NoNameMatches
<1>4. WordlistFind(w, str) = IF found = {} THEN 0 ELSE words[Min(found)]
  BY <1>1 DEF WordlistFind
<1>5. Named(w, str) = {words[i] : i \in found}
  BY <1>1, <1>3 DEF Named, ToSet
<1>6. Len(words) \in Nat /\ DOMAIN words = 1 .. Len(words) /\ \A i \in DOMAIN words : words[i] \in Int /\ words[i] # 0
  BY <1>2
<1>7. found \subseteq DOMAIN words
  OBVIOUS
<1> HIDE DEF found
<1>8. CASE found = {}
  BY <1>4, <1>5, <1>8
<1>9. CASE found # {}
  <2>1. PICK k \in found : k = Min(found) /\ \A i \in found : k <= i
    BY <1>6, <1>7, <1>9, LeastIndex
  <2>2. \A i \in found : words[i] <= words[k]
    <3>1. ASSUME NEW i \in found
          PROVE  words[i] <= words[k]
      <4>1. i \in DOMAIN words /\ k \in DOMAIN words /\ k <= i /\ i \in Int /\ k \in Int
        BY <1>6, <1>7, <2>1
      <4>2. CASE k < i
        BY <1>2, <1>6, <4>1, <4>2 DEF Decreasing
      <4>3. CASE k = i
        BY <1>6, <4>1, <4>3
      <4>4. QED
        BY <4>1, <4>2, <4>3
    <3>2. QED
      BY <3>1
  <2>3. WordlistFind(w, str) = words[k] /\ words[k] # 0 /\ Named(w, str) # {}
    BY <1>4, <1>5, <1>6, <1>7, <1>9, <2>1
  <2>4. QED
    BY <1>5, <2>1, <2>2, <2>3
<1>10. QED
  BY <1>8, <1>9

(* string>name finds the newest word of a name in the first wordlist, from *)
(* the end of the search order, that has one (FindsNewest:                 *)
(* forth/m64th/core.S:652, m64th.c:1320).                                  *)
THEOREM FindsNewestHolds == Spec => []FindsNewest
<1>1. ASSUME IInv, NEW str \in Names
      PROVE  IF Matching(str) = {} THEN StringToName(str) = 0
             ELSE \E i \in DOMAIN order :
                /\ <<i, StringToName(str)>> \in Matching(str)
                /\ \A m \in Matching(str) : m[1] < i \/ (m[1] = i /\ m[2] <= StringToName(str))
  <2>1. HeadersTyped /\ SearchTyped
    BY <1>1 DEF IInv
  <2>2. PICK L \in SUBSET DOMAIN mem : Closed(L)
    BY <1>1, SomeLive DEF IInv, Live
  <2>3. Len(order) \in Nat /\ DOMAIN order = 1 .. Len(order) /\ \A i \in DOMAIN order : order[i] \in Wids
    BY <2>1 DEF SearchTyped
  <2>4. ASSUME NEW i \in DOMAIN order
        PROVE  IF Named(order[i], str) = {} THEN WordlistFind(order[i], str) = 0
               ELSE /\ WordlistFind(order[i], str) # 0 /\ WordlistFind(order[i], str) \in Named(order[i], str)
                    /\ \A n \in Named(order[i], str) : n <= WordlistFind(order[i], str)
    BY <2>1, <2>2, <2>3, WordlistFindNewest
  <2> DEFINE found == {i \in DOMAIN order : WordlistFind(order[i], str) # 0}
  <2>5. StringToName(str) = IF found = {} THEN 0 ELSE WordlistFind(order[Max(found)], str)
    BY DEF StringToName
  <2>6. \A i \in DOMAIN order : i \in found <=> Named(order[i], str) # {}
    BY <2>4
  <2>7. found \subseteq DOMAIN order
    OBVIOUS
  <2>8. Matching(str) = {m \in (DOMAIN order) \X UNION {Named(order[i], str) : i \in DOMAIN order} :
                            m[2] \in Named(order[m[1]], str)}
    BY DEF Matching, Named
  <2>9. \A m \in Matching(str) : m[1] \in found /\ m[2] \in Named(order[m[1]], str)
    BY <2>6, <2>8
  <2> HIDE DEF found
  <2>10. CASE found = {}
    BY <2>5, <2>9, <2>10
  <2>11. CASE found # {}
    <3>1. PICK k \in found : k = Max(found) /\ \A i \in found : i <= k
      BY <2>3, <2>7, <2>11, GreatestIndex
    <3>2. PICK nt : nt = StringToName(str) /\ nt = WordlistFind(order[k], str)
      BY <2>5, <2>11, <3>1
    <3>3. k \in DOMAIN order /\ nt \in Named(order[k], str) /\ \A n \in Named(order[k], str) : n <= nt
      BY <2>4, <2>6, <2>7, <3>1, <3>2
    <3>4. <<k, nt>> \in Matching(str)
      BY <3>3 DEF Matching, Named
    <3>5. ASSUME NEW m \in Matching(str)
          PROVE  m[1] < k \/ (m[1] = k /\ m[2] <= nt)
      <4>1. m[1] \in found /\ m[2] \in Named(order[m[1]], str)
        BY <2>9
      <4>2. m[1] <= k /\ m[1] \in Int /\ k \in Int
        BY <2>3, <2>7, <3>1, <4>1
      <4>3. CASE m[1] = k
        BY <3>3, <4>1, <4>3
      <4>4. CASE m[1] # k
        BY <4>2, <4>4
      <4>5. QED
        BY <4>3, <4>4
    <3>6. QED
      BY <3>2, <3>3, <3>4, <3>5
  <2>12. QED
    BY <2>10, <2>11
<1>2. IInv => FindsNewest
  BY <1>1 DEF FindsNewest
<1>3. QED
  BY <1>2, Inductive, PTL

---------------------------------------------------------------------------
(* What a step does to the words that can be found.                        *)

LEMMA StepOutcome ==
    ASSUME IInv, [Next]_vars
    PROVE  \E L : /\ Closed(L) /\ HeadersTyped'
                  /\ (Keeps(L) /\ (last' = last \/ Pushes)) \/ ForgetAll \/ Clear
<1>1. PICK L \in SUBSET DOMAIN mem : Live(L)
  BY SomeLive DEF IInv
<1>2. CASE Next
  BY <1>1, <1>2, NextStep DEF Outcome, Live
<1>3. CASE UNCHANGED vars
  <2>1. mem' = mem /\ last' = last
    BY <1>3 DEF vars
  <2>2. QED
    BY <1>1, <2>1, SameHeaders DEF IInv, Live
<1>4. QED
  BY <1>2, <1>3

(* A word that can be found keeps the address of its data, does not lose a *)
(* does> or become something else, and stays immediate (BodiesStay:        *)
(* forth/m64th/impl.S:1881).                                               *)
THEOREM BodiesStayHolds == Spec => BodiesStay
<1> DEFINE SameBody(w, nt) ==
             /\ nt \in DOMAIN mem'
             /\ DataAddr(nt)' = DataAddr(nt)
             /\ mem[nt].code \in {"call does", "data address"} => mem'[nt].code = mem[nt].code
             /\ mem[nt].flags \cap {"immediate"} \subseteq mem'[nt].flags
<1>1. ASSUME IInv, [Next]_vars, NEW w \in wids, NEW nt \in ToSet(Words(w)), last'[w] # 0
      PROVE  SameBody(w, nt)
  <2>1. PICK L : /\ Closed(L)
                 /\ (Keeps(L) /\ (last' = last \/ Pushes)) \/ ForgetAll \/ Clear
    BY <1>1, StepOutcome
  <2>2. w \in Wids /\ HeadersTyped
    BY <1>1 DEF IInv, SearchTyped
  <2>3. nt \in Known(L) /\ Known(L) \subseteq DOMAIN mem
    BY <2>1, <2>2, WordsKnown, KnownClosed DEF ClosedIn
  <2>4. CASE Keeps(L)
    <3>1. nt \in DOMAIN mem' /\ SameWord(mem[nt], mem'[nt])
      BY <2>3, <2>4 DEF Keeps, Known
    <3>2. DataAddr(nt)' = DataAddr(nt)
      BY <3>1, KeptWord
    <3>3. QED
      BY <3>1, <3>2 DEF SameWord
  <2>5. CASE ForgetAll
    <3>1. mem' = mem
      BY <2>5 DEF ForgetAll, heap
    <3>2. QED
      BY <2>3, <3>1 DEF DataAddr
  <2>6. CASE Clear
    BY <1>1, <2>2, <2>6 DEF Clear
  <2>7. QED
    BY <2>1, <2>4, <2>5, <2>6
<1>2. IInv /\ [Next]_vars =>
        [\A w \in wids : \A nt \in ToSet(Words(w)) : last'[w] # 0 => SameBody(w, nt)]_vars
  BY <1>1
<1>3. QED
  BY <1>2, Inductive, PTL DEF Spec, BodiesStay

---------------------------------------------------------------------------
(* The wordlists as piles of names.                                        *)

\* what the links of a state are: K has every word of the wordlists
LinksHold == \E K : ClosedIn(mem, K) /\ \A w \in Wids : last[w] \in K \cup {0}

LEMMA LinksInvariant == IInv => LinksHold
<1> SUFFICES ASSUME IInv
             PROVE  LinksHold
  OBVIOUS
<1>1. PICK L \in SUBSET DOMAIN mem : Closed(L)
  BY SomeLive DEF IInv, Live
<1>2. ClosedIn(mem, Known(L))
  BY <1>1, KnownClosed DEF IInv
<1>3. \A w \in Wids : last[w] \in Known(L) \cup {0}
  BY <1>1 DEF Closed, Known
<1>4. QED
  BY <1>2, <1>3 DEF LinksHold

LEMMA LinksAfter == IInv' => LinksHold'
BY LinksInvariant, PTL

LEMMA BuiltInsClosed == ClosedIn(BuiltIns, DOMAIN BuiltIns)
<1>1. PICK first \in DOMAIN BuiltIns \cup {0} : \A nt \in DOMAIN BuiltIns : first <= nt
  BY BuiltInsAssumption
<1>2. DOMAIN BuiltIns \subseteq Int /\ first \in Int /\ 0 \notin DOMAIN BuiltIns
  BY BuiltInsAssumption, SizesAssumption DEF WordXt
<1>3. \A a \in DOMAIN BuiltIns : WordPrev(BuiltIns, a) \in {0} \cup {b \in DOMAIN BuiltIns : b < a}
  BY BuiltInsAssumption
<1>4. \A a \in DOMAIN BuiltIns : WordPrev(BuiltIns, a) \in Int
  BY <1>2, <1>3
<1>5. QED
  BY <1>1, <1>2, <1>3, <1>4 DEF ClosedIn, Linked

LEMMA SameNames ==
    ASSUME NEW m, NEW n, NEW K, ClosedIn(m, K), Linked(n), 0 \notin DOMAIN n,
           \A a \in K : a \in DOMAIN n /\ WordPrev(n, a) = WordPrev(m, a) /\ n[a].name = m[a].name,
           NEW nt \in K \cup {0}
    PROVE  NamesIn(n, Chain(n, nt)) = NamesIn(m, Chain(m, nt))
<1>1. PICK s : s = Chain(m, nt) /\ s = Chain(n, nt)
  BY SameChain
<1>2. s \in Seq(K)
  BY <1>1, ChainFacts
<1>3. \A i \in DOMAIN s : n[s[i]].name = m[s[i]].name
  BY <1>2
<1>4. NamesIn(n, s) = NamesIn(m, s)
  BY <1>3 DEF NamesIn
<1>5. QED
  BY <1>1, <1>4

LEMMA NamesPushed ==
    ASSUME NEW m, NEW K, NEW s \in Seq(K), NEW nt \in K
    PROVE  NamesIn(m, <<nt>> \o s) = <<m[nt].name>> \o NamesIn(m, s)
<1>1. PICK t : t = <<nt>> \o s
  OBVIOUS
<1>2. Len(s) \in Nat /\ DOMAIN s = 1 .. Len(s) /\ t \in Seq(K) /\ Len(t) = Len(s) + 1 /\ DOMAIN t = 1 .. Len(s) + 1
  BY <1>1, ConcatProperties
<1>3. t[1] = nt /\ \A i \in 2 .. Len(s) + 1 : t[i] = s[i - 1]
  BY <1>1, <1>2
<1>4. PICK u : u = NamesIn(m, s)
  OBVIOUS
<1>5. u \in Seq({m[a].name : a \in K}) /\ Len(u) = Len(s) /\ \A i \in 1 .. Len(s) : u[i] = m[s[i]].name
  BY <1>2, <1>4 DEF NamesIn
<1>6. PICK v : v = <<m[nt].name>> \o u
  OBVIOUS
<1>7. v \in Seq({m[a].name : a \in K}) /\ Len(v) = Len(s) + 1 /\ DOMAIN v = 1 .. Len(s) + 1
      /\ v[1] = m[nt].name /\ \A i \in 2 .. Len(s) + 1 : v[i] = u[i - 1]
  BY <1>2, <1>5, <1>6, ConcatProperties
<1>8. \A i \in 1 .. Len(s) + 1 : v[i] = m[t[i]].name
  <2>1. ASSUME NEW i \in 1 .. Len(s) + 1
        PROVE  v[i] = m[t[i]].name
    <3>1. CASE i = 1
      BY <1>3, <1>7, <3>1
    <3>2. CASE i # 1
      <4>1. i \in 2 .. Len(s) + 1 /\ i - 1 \in 1 .. Len(s)
        BY <1>2, <3>2
      <4>2. QED
        BY <1>3, <1>5, <1>7, <4>1
    <3>3. QED
      BY <3>1, <3>2
  <2>2. QED
    BY <2>1
<1>9. v = [i \in 1 .. Len(s) + 1 |-> m[t[i]].name]
  BY <1>7, <1>8
<1>10. QED
  BY <1>1, <1>2, <1>6, <1>4, <1>9 DEF NamesIn

LEMMA KeptNames ==
    ASSUME IInv, IInv', NEW L, Closed(L), Keeps(L), NEW nt \in Known(L) \cup {0}
    PROVE  NamesIn(mem', Chain(mem', nt)) = NamesIn(mem, Chain(mem, nt))
<1>1. PICK n : n = mem'
  OBVIOUS
<1>2. ClosedIn(mem, Known(L))
  BY KnownClosed DEF IInv
<1>3. Linked(n) /\ 0 \notin DOMAIN n
  BY <1>1, LinksAfter DEF LinksHold, ClosedIn
<1>4. \A a \in Known(L) : a \in DOMAIN n /\ WordPrev(n, a) = WordPrev(mem, a) /\ n[a].name = mem[a].name
  BY <1>1 DEF Keeps, Known, SameWord, WordPrev
<1>5. NamesIn(n, Chain(n, nt)) = NamesIn(mem, Chain(mem, nt))
  BY <1>2, <1>3, <1>4, SameNames
<1>6. QED
  BY <1>1, <1>5

(* A wordlist that no step redefines keeps its names.                      *)
LEMMA UntouchedNames ==
    ASSUME IInv, IInv', NEW L, Closed(L), Keeps(L), NEW w \in Wids, last'[w] = last[w]
    PROVE  NamesOf(w)' = NamesOf(w)
<1>1. PICK nt \in Known(L) \cup {0} : nt = LastWord(w)
  BY LastWordKnown
<1>2. LastWord(w)' = nt
  BY <1>1 DEF LastWord
<1>3. QED
  BY <1>1, <1>2, KeptNames DEF NamesOf, Words

(* A finished definition is the only new word of its wordlist.             *)
LEMMA PushedNames ==
    ASSUME IInv, IInv', NEW L, Closed(L), Keeps(L), Pushes, NEW c, c = current
    PROVE  /\ c \in Wids /\ NamesOf(c)' \in {<<n>> \o NamesOf(c) : n \in Names \cup {<<>>}}
           /\ \A w \in Wids \ {c} : NamesOf(w)' = NamesOf(w)
<1>1. c \in Wids /\ last \in [Wids -> Int]
  BY DEF IInv, SearchTyped, StateTyped
<1>2. PICK nt : /\ nt \in DOMAIN mem' /\ mem'[nt].name \in Names \cup {<<>>}
                /\ WordPrev(mem', nt) = LastWord(c) /\ last' = [last EXCEPT ![c] = nt]
  BY DEF Pushes
<1>3. last'[c] = nt /\ \A w \in Wids \ {c} : last'[w] = last[w]
  BY <1>1, <1>2
<1>4. PICK m : m = mem'
  OBVIOUS
<1>5. PICK K : ClosedIn(m, K) /\ nt \in K /\ nt # 0
  <2>1. PICK K : ClosedIn(mem', K) /\ \A w \in Wids : last'[w] \in K \cup {0}
    BY LinksAfter DEF LinksHold
  <2>2. 0 \notin DOMAIN mem'
    BY <2>1 DEF ClosedIn
  <2>3. QED
    BY <1>1, <1>2, <1>3, <1>4, <2>1, <2>2
<1>6. PICK p \in Known(L) \cup {0} : p = LastWord(c)
  BY <1>1, LastWordKnown
<1>7. Chain(m, nt) = <<nt>> \o Chain(m, p)
  BY <1>2, <1>4, <1>5, <1>6, ChainUnfolds
<1>8. Chain(m, p) \in Seq(K)
  <2>1. p \in K \cup {0}
    BY <1>2, <1>4, <1>5, <1>6 DEF ClosedIn
  <2>2. QED
    BY <1>5, <2>1, ChainFacts
<1>9. NamesIn(m, Chain(m, nt)) = <<m[nt].name>> \o NamesIn(m, Chain(m, p))
  BY <1>5, <1>7, <1>8, NamesPushed
<1>10. NamesIn(m, Chain(m, p)) = NamesOf(c)
  BY <1>4, <1>6, KeptNames DEF NamesOf, Words
<1>11. LastWord(c)' = nt
  BY <1>1, <1>3, <1>5, WidsAssumption DEF LastWord
<1>12. NamesOf(c)' = NamesIn(m, Chain(m, nt))
  BY <1>4, <1>11 DEF NamesOf, Words
<1>13. NamesOf(c)' \in {<<n>> \o NamesOf(c) : n \in Names \cup {<<>>}}
  BY <1>2, <1>4, <1>9, <1>10, <1>12
<1>14. QED
  BY <1>1, <1>3, <1>13, UntouchedNames

(* A wordlist without words of the user has the names it was built with.   *)
LEMMA EmptiedNames ==
    ASSUME HeadersTyped, NEW w \in Wids, last[w] = 0
    PROVE  NamesOf(w) = BuiltInNames[w]
<1>1. PICK nt \in DOMAIN BuiltIns \cup {0} : nt = IF w \in BuiltInWids THEN Dict[w] ELSE 0
  BY BuiltInsAssumption
<1>2. LastWord(w) = nt
  BY <1>1, WidsAssumption DEF LastWord
<1>3. Linked(mem) /\ 0 \notin DOMAIN mem
  BY HeadersLinked, Signs
<1>4. \A a \in DOMAIN BuiltIns : /\ a \in DOMAIN mem /\ WordPrev(mem, a) = WordPrev(BuiltIns, a)
                                 /\ mem[a].name = BuiltIns[a].name
  BY DEF HeadersTyped, WordPrev
<1>5. NamesIn(mem, Chain(mem, nt)) = NamesIn(BuiltIns, Chain(BuiltIns, nt))
  BY <1>3, <1>4, BuiltInsClosed, SameNames
<1>6. QED
  BY <1>1, <1>2, <1>5 DEF NamesOf, Words, BuiltInNames

EmptiedHold == \A w \in Wids : last[w] = 0 => NamesOf(w) = BuiltInNames[w]

LEMMA EmptiedInvariant == IInv => EmptiedHold
BY EmptiedNames DEF IInv, EmptiedHold

LEMMA EmptiedAfter == IInv' => EmptiedHold'
BY EmptiedInvariant, PTL

LEMMA ForgotNames ==
    ASSUME IInv, IInv', ForgetAll, NEW c, c = current
    PROVE  /\ c \in Wids /\ NamesOf(c)' = BuiltInNames[c]
           /\ \A w \in Wids \ {c} : NamesOf(w)' = NamesOf(w)
<1>1. c \in Wids /\ last \in [Wids -> Int]
  BY DEF IInv, SearchTyped, StateTyped
<1>2. mem' = mem /\ last' = [last EXCEPT ![c] = 0]
  BY DEF ForgetAll, heap
<1>3. last'[c] = 0 /\ \A w \in Wids \ {c} : last'[w] = last[w]
  BY <1>1, <1>2
<1>4. PICK L : Closed(L) /\ Keeps(L)
  BY <1>2, SomeLive, SameHeaders DEF IInv, Live
<1>5. NamesOf(c)' = BuiltInNames[c]
  BY <1>1, <1>3, EmptiedAfter DEF EmptiedHold
<1>6. QED
  BY <1>1, <1>3, <1>4, <1>5, UntouchedNames

LEMMA StaysNames ==
    ASSUME IInv, IInv', NEW L, Closed(L), (Keeps(L) /\ last' = last) \/ Clear
    PROVE  \A w \in Wids : NamesOf(w)' = NamesOf(w)
<1>1. CASE Keeps(L) /\ last' = last
  BY <1>1, UntouchedNames
<1>2. CASE Clear
  <2>1. \A w \in Wids : last[w] = 0 /\ last'[w] = 0
    BY <1>2 DEF Clear
  <2>2. QED
    BY <2>1, EmptiedInvariant, EmptiedAfter DEF EmptiedHold
<1>3. QED
  BY <1>1, <1>2

(* Wordlists are piles of definitions: finishing a definition puts its     *)
(* name on top of the compilation wordlist, forgetting takes away all user *)
(* words of one wordlist, and nothing else changes what can be found       *)
(* (ImplementsWordLists: m64th.c:1314, generic_asm/core.S:368).            *)
THEOREM ImplementsWordListsHolds == Spec => ImplementsWordLists
<1> DEFINE piles == [w \in Wids |-> NamesOf(w)]
<1>1. Init => WL!WInit
  <2> SUFFICES ASSUME Init
               PROVE  piles = BuiltInNames
    BY DEF WL!WInit
  <2>1. \A w \in Wids : last[w] = 0
    BY DEF Init
  <2>2. \A w \in Wids : NamesOf(w) = BuiltInNames[w]
    BY <2>1, Begins, EmptiedInvariant DEF EmptiedHold
  <2>3. QED
    BY <2>2 DEF BuiltInNames
<1>2. IInv /\ IInv' /\ [Next]_vars => [WL!WNext]_piles
  <2> SUFFICES ASSUME IInv, IInv', [Next]_vars
               PROVE  WL!WNext \/ piles' = piles
    OBVIOUS
  <2>1. PICK L : /\ Closed(L)
                 /\ (Keeps(L) /\ (last' = last \/ Pushes)) \/ ForgetAll \/ Clear
    BY StepOutcome
  <2>2. \A w \in Wids : piles[w] = NamesOf(w) /\ piles'[w] = NamesOf(w)'
    OBVIOUS
  <2>3. piles' = [w \in Wids |-> NamesOf(w)']
    OBVIOUS
  <2>4. PICK c : c = current
    OBVIOUS
  <2>5. CASE (Keeps(L) /\ last' = last) \/ Clear
    <3>1. \A w \in Wids : NamesOf(w)' = NamesOf(w)
      BY <2>1, <2>5, StaysNames
    <3>2. QED
      BY <2>3, <3>1
  <2>6. CASE Keeps(L) /\ Pushes
    <3>1. /\ c \in Wids /\ NamesOf(c)' \in {<<n>> \o NamesOf(c) : n \in Names \cup {<<>>}}
          /\ \A w \in Wids \ {c} : NamesOf(w)' = NamesOf(w)
      BY <2>1, <2>4, <2>6, PushedNames
    <3>2. WL!Define(c) /\ \A w \in Wids \ {c} : piles'[w] = piles[w]
      BY <2>2, <3>1 DEF WL!Define
    <3>3. QED
      BY <3>1, <3>2 DEF WL!WNext
  <2>7. CASE ForgetAll
    <3>1. /\ c \in Wids /\ NamesOf(c)' = BuiltInNames[c]
          /\ \A w \in Wids \ {c} : NamesOf(w)' = NamesOf(w)
      BY <2>4, <2>7, ForgotNames
    <3>2. WL!Forget(c) /\ \A w \in Wids \ {c} : piles'[w] = piles[w]
      BY <2>2, <3>1 DEF WL!Forget
    <3>3. QED
      BY <3>1, <3>2 DEF WL!WNext
  <2>8. QED
    BY <2>1, <2>5, <2>6, <2>7
<1>3. QED
  BY <1>1, <1>2, Inductive, PTL DEF Spec, ImplementsWordLists, WL!WSpec
=============================================================================
