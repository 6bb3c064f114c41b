---------------------------- MODULE LocalsProofs ----------------------------
(***************************************************************************)
(* Proofs about Locals for every number of register variables and every    *)
(* assignment of registers, also one that uses a register twice: LOCL and  *)
(* the frames form a chain, and exit finds every return address.  When no  *)
(* two variables share a register, every word has variables of its own:    *)
(* Locals implements LocalVars.                                            *)
(***************************************************************************)
EXTENDS Locals, SequenceTheorems, Induction

Activations == [n : {0} \cup Sizes, at : 0 .. MaxR, base : 0 .. MaxR]

(* the last cell below what the word a has pushed itself *)
Top(a) == IF calls[a].n = 0 THEN calls[a].base ELSE calls[a].at

(* The areas of the active words, and the frame of a call of a C function, *)
(* lie one above the other.                                                *)
Layout ==
    /\ \A a \in DOMAIN calls :
           calls[a].n # 0 => calls[a].base + calls[a].n + 1 <= calls[a].at
    /\ \A a, b \in DOMAIN calls : a < b => Top(a) < calls[b].base
    /\ IF InC THEN rsp = locl /\ Top(Len(calls)) + Ln + 1 <= rsp
       ELSE Top(Len(calls)) <= rsp

IInv == TypeOK /\ Layout /\ LoclIsInnermost /\ ReturnAddressesKept

(* the cells that the invariant is about *)
Kept == {f + 1 : f \in Frames} \cup {calls[a].base + 1 : a \in DOMAIN calls}

-----------------------------------------------------------------------------
(* The sequence of active words. *)

LEMMA AppendFacts ==
    ASSUME NEW S, NEW s \in Seq(S), NEW e \in S
    PROVE  /\ Append(s, e) \in Seq(S) /\ Append(s, e) # <<>>
           /\ DOMAIN Append(s, e) = 1 .. Len(s) + 1 /\ Len(Append(s, e)) = Len(s) + 1
           /\ Append(s, e)[Len(s) + 1] = e
           /\ \A a \in 1 .. Len(s) : Append(s, e)[a] = s[a]
<1>1. Len(s) \in Nat
  BY LenProperties
<1>2. QED
  BY <1>1, AppendProperties

LEMMA FrontFacts ==
    ASSUME NEW S, NEW s \in Seq(S), s # <<>>
    PROVE  /\ Len(s) \in Nat \ {0} /\ DOMAIN s = 1 .. Len(s) /\ Last(s) = s[Len(s)]
           /\ Front(s) \in Seq(S)
           /\ DOMAIN Front(s) = 1 .. Len(s) - 1 /\ Len(Front(s)) = Len(s) - 1
           /\ \A a \in 1 .. Len(s) - 1 : Front(s)[a] = s[a]
<1>1. Len(s) \in Nat \ {0} /\ DOMAIN s = 1 .. Len(s) /\ \A i \in 1 .. Len(s) : s[i] \in S
  BY EmptySeq, LenProperties, ElementOfSeq
<1>2. Front(s) = SubSeq(s, 1, Len(s) - 1)
  BY DEF Front
<1>3. /\ SubSeq(s, 1, Len(s) - 1) \in Seq(S)
      /\ Len(SubSeq(s, 1, Len(s) - 1)) = Len(s) - 1
      /\ \A a \in 1 .. Len(s) - 1 : SubSeq(s, 1, Len(s) - 1)[a] = s[a]
  BY <1>1, SubSeqProperties
<1>4. DOMAIN Front(s) = 1 .. Len(s) - 1
  BY <1>1, <1>2, <1>3, LenProperties
<1>5. QED
  BY <1>1, <1>2, <1>3, <1>4 DEF Last

LEMMA ReplaceLast ==
    ASSUME NEW S, NEW s \in Seq(S), s # <<>>, NEW e \in S
    PROVE  LET r == Append(Front(s), e)
           IN  /\ r \in Seq(S) /\ r # <<>> /\ Len(r) = Len(s) /\ DOMAIN r = 1 .. Len(s)
               /\ r[Len(s)] = e
               /\ \A a \in 1 .. Len(s) - 1 : r[a] = s[a]
<1>1. /\ Len(s) \in Nat \ {0}
      /\ Front(s) \in Seq(S) /\ Len(Front(s)) = Len(s) - 1
      /\ \A a \in 1 .. Len(s) - 1 : Front(s)[a] = s[a]
  BY FrontFacts
<1> DEFINE f == Front(s)
           r == Append(f, e)
<1>2. /\ r \in Seq(S) /\ r # <<>>
      /\ DOMAIN r = 1 .. Len(f) + 1 /\ Len(r) = Len(f) + 1
      /\ r[Len(f) + 1] = e
      /\ \A a \in 1 .. Len(f) : r[a] = f[a]
  BY <1>1, AppendFacts
<1> HIDE DEF r
<1>3. Len(f) + 1 = Len(s)
  BY <1>1
<1>4. /\ r \in Seq(S) /\ r # <<>> /\ Len(r) = Len(s) /\ DOMAIN r = 1 .. Len(s)
      /\ r[Len(s)] = e
  BY <1>2, <1>3
<1>5. \A a \in 1 .. Len(s) - 1 : r[a] = s[a]
  BY <1>1, <1>2
<1>6. QED
  BY <1>4, <1>5 DEF r

-----------------------------------------------------------------------------
(* What the invariant says of the running word and of the frames. *)

LEMMA Words ==
    ASSUME TypeOK
    PROVE  /\ Len(calls) \in Nat \ {0} /\ DOMAIN calls = 1 .. Len(calls)
           /\ Me = calls[Len(calls)]
           /\ calls \in Seq(Activations) /\ calls # <<>>
           /\ \A a \in DOMAIN calls :
                  /\ calls[a] \in Activations
                  /\ calls[a].n \in Nat /\ calls[a].at \in Nat /\ calls[a].base \in Nat
           /\ rsp \in Nat /\ locl \in Nat /\ MaxR \in Nat /\ Ln \in Nat
<1>1. calls \in Seq(Activations) /\ calls # <<>>
  BY DEF TypeOK, Activations
<1>2. /\ Len(calls) \in Nat \ {0} /\ DOMAIN calls = 1 .. Len(calls)
      /\ Last(calls) = calls[Len(calls)]
  BY <1>1, FrontFacts
<1>3. \A a \in DOMAIN calls : calls[a] \in Activations
  BY <1>1, <1>2, ElementOfSeq
<1>4. MaxR \in Nat /\ Ln \in Nat /\ {0} \cup Sizes \subseteq Nat
  BY RegAssumption, DataAssumption
<1>5. \A x \in Activations : x.n \in Nat /\ x.at \in Nat /\ x.base \in Nat
  BY <1>4 DEF Activations
<1>6. \A a \in DOMAIN calls :
          calls[a].n \in Nat /\ calls[a].at \in Nat /\ calls[a].base \in Nat
  BY <1>3, <1>5
<1>7. rsp \in Nat /\ locl \in Nat
  BY <1>4 DEF TypeOK
<1>8. QED
  BY <1>1, <1>2, <1>3, <1>4, <1>6, <1>7 DEF Me

LEMMA ActivationFacts ==
    \A n \in {0} \cup Sizes, at, base \in 0 .. MaxR :
        LET x == Activation(n, at, base)
        IN  x \in Activations /\ x.n = n /\ x.at = at /\ x.base = base
BY DEF Activation, Activations

LEMMA Heights ==
    ASSUME TypeOK, Layout
    PROVE  /\ \A a \in DOMAIN calls :
                  /\ Top(a) \in Nat /\ calls[a].base <= Top(a) /\ Top(a) <= rsp
                  /\ a # Len(calls) => Top(a) < Me.base
           /\ Me.base <= Top(Len(calls))
<1>1. \A a \in DOMAIN calls : Top(a) \in Nat /\ calls[a].base <= Top(a)
  BY Words DEF Layout, Top
<1>2. Len(calls) \in DOMAIN calls
  BY Words
<1>3. Top(Len(calls)) <= rsp
  BY <1>1, <1>2, Words DEF Layout
<1>4. \A a \in DOMAIN calls : a # Len(calls) => Top(a) < calls[Len(calls)].base
  BY <1>2, Words, SMTT(30) DEF Layout
<1>5. \A a \in DOMAIN calls : Top(a) <= rsp
  BY <1>1, <1>2, <1>3, <1>4, Words
<1>6. QED
  BY <1>1, <1>2, <1>4, <1>5, Words

LEMMA Highest ==
    ASSUME TypeOK, Layout
    PROVE  \A a \in DOMAIN calls :
               /\ calls[a].base \in Nat /\ Top(a) \in Nat
               /\ calls[a].base <= Top(a) /\ Top(a) <= Top(Len(calls))
<1>1. PICK N \in DOMAIN calls : N = Len(calls) /\ Me = calls[N]
  BY Words
<1>2. PICK t \in Nat, base \in Nat : t = Top(N) /\ base = Me.base /\ base <= t
  BY <1>1, Heights, Words
<1> SUFFICES ASSUME NEW a \in DOMAIN calls
             PROVE  /\ calls[a].base \in Nat /\ Top(a) \in Nat
                    /\ calls[a].base <= Top(a) /\ Top(a) <= t
  BY <1>1, <1>2
<1>3. /\ calls[a].base \in Nat /\ Top(a) \in Nat
      /\ calls[a].base <= Top(a) /\ (a # N => Top(a) < base)
  BY <1>1, <1>2, Heights, Words
<1>4. QED
  BY <1>2, <1>3

LEMMA WordFrames ==
    ASSUME TypeOK, Layout, ~InC
    PROVE  \A f \in Frames :
               \E a \in DOMAIN calls : calls[a].n # 0 /\ f = calls[a].at /\ f = Top(a)
BY DEF Frames, Top

LEMMA FramesBelow ==
    ASSUME TypeOK, Layout
    PROVE  \A f \in Frames : f \in Nat /\ f <= rsp
<1> SUFFICES ASSUME NEW f \in Frames
             PROVE  f \in Nat /\ f <= rsp
  OBVIOUS
<1>1. CASE InC /\ f = locl
  BY <1>1, Words DEF Layout
<1>2. CASE f \in {calls[a].at : a \in {b \in DOMAIN calls : calls[b].n # 0}}
  <2>1. PICK a \in DOMAIN calls : calls[a].n # 0 /\ f = calls[a].at
    BY <1>2
  <2>2. f = Top(a)
    BY <2>1 DEF Top
  <2>3. QED
    BY <2>2, Heights
<1>3. QED
  BY <1>1, <1>2 DEF Frames

(* a word that has variables is the one LOCL is for *)
LEMMA MyFrame ==
    ASSUME IInv, InWord, Me.n # 0
    PROVE  /\ locl = Me.at /\ Top(Len(calls)) = Me.at
           /\ locl \in Frames
           /\ \A f \in Frames : f = locl \/ f < Me.base
           /\ Me.base + Me.n + 1 <= locl
<1>1. TypeOK /\ Layout /\ ~InC
  BY DEF IInv, InC, InWord
<1>2. Len(calls) \in DOMAIN calls /\ Top(Len(calls)) = Me.at /\ Me.base + Me.n + 1 <= Me.at
  BY <1>1, Words DEF Layout, Top
<1>3. \A f \in Frames : f = Me.at \/ f < Me.base
  BY <1>1, <1>2, WordFrames, Heights
<1>4. Me.at \in Frames
  BY <1>1, <1>2, Words DEF Frames
<1>5. locl \in Frames /\ Me.at <= locl
  BY <1>4 DEF IInv, LoclIsInnermost, Innermost
<1>6. locl = Me.at
  BY <1>1, <1>2, <1>3, <1>5, Words, SMTT(30)
<1>7. QED
  BY <1>2, <1>3, <1>5, <1>6

-----------------------------------------------------------------------------
(* The registers to and from a frame. *)

LEMMA SpilledFacts ==
    ASSUME NEW n \in Nat, NEW outer
    PROVE  /\ Spilled(n, outer) \in Nat
           /\ Spilled(n, outer) <= n /\ Spilled(n, outer) <= Ln
<1>1. Ln \in Nat
  BY RegAssumption
<1>2. QED
  BY <1>1 DEF Spilled, Lesser

LEMMA SpillRegsType ==
    ASSUME TypeOK
    PROVE  \A at, k \in Nat : k <= Ln => SpillRegs(at, k) \in [0 .. MaxR -> Int]
<1> SUFFICES ASSUME NEW at \in Nat, NEW k \in Nat, k <= Ln,
                    NEW c \in 0 .. MaxR
             PROVE  (IF c = rsp + 1 THEN rtop
                     ELSE IF c \in at - k + 1 .. at THEN reg[Reg[at - c]]
                     ELSE rmem[c]) \in Int
  BY DEF SpillRegs, TypeOK
<1>1. ASSUME c \in at - k + 1 .. at
      PROVE  reg[Reg[at - c]] \in Int
  <2>1. Ln \in Nat
    BY RegAssumption
  <2>2. at - c \in 0 .. Ln - 1
    BY <1>1, <2>1, DataAssumption
  <2>3. Reg[at - c] \in Phys
    BY <2>2, RegAssumption
  <2>4. QED
    BY <2>3 DEF TypeOK
<1>2. rtop \in Int /\ rmem[c] \in Int
  BY DEF TypeOK
<1>3. QED
  BY <1>1, <1>2, Zenon

LEMMA ReloadRegsType ==
    ASSUME TypeOK
    PROVE  \A at, k \in Nat :
               k <= Ln /\ at <= MaxR /\ k <= at + 1 =>
                   ReloadRegs(at, k) \in [Phys -> Int]
<1> SUFFICES ASSUME NEW at \in Nat, NEW k \in Nat, k <= Ln, at <= MaxR, k <= at + 1,
                    NEW p \in Phys
             PROVE  (IF \E j \in 0 .. k - 1 : Reg[j] = p
                     THEN rmem[at - (CHOOSE j \in 0 .. k - 1 :
                            Reg[j] = p /\ \A i \in 0 .. j - 1 : Reg[i] # p)]
                     ELSE reg[p]) \in Int
  BY DEF ReloadRegs
<1> DEFINE First(j) == Reg[j] = p /\ \A i \in 0 .. j - 1 : Reg[i] # p
<1>1. ASSUME \E j \in 0 .. k - 1 : Reg[j] = p
      PROVE  rmem[at - (CHOOSE j \in 0 .. k - 1 : First(j))] \in Int
  <2> DEFINE these == {j \in 0 .. k - 1 : Reg[j] = p}
  <2>1. these \subseteq Nat /\ these # {}
    BY <1>1
  <2>2. PICK x \in these : \A y \in these : x <= y
    BY <2>1, LeastNat, Zenon
  <2>3. ASSUME NEW i \in 0 .. x - 1
        PROVE  Reg[i] # p
    <3>1. i \in 0 .. k - 1 /\ ~ (x <= i)
      BY <2>2
    <3>2. QED
      BY <2>2, <3>1
  <2>4. x \in 0 .. k - 1 /\ First(x)
    BY <2>2, <2>3
  <2> HIDE DEF First
  <2>5. (CHOOSE j \in 0 .. k - 1 : First(j)) \in 0 .. k - 1
    BY <2>4
  <2>6. PICK j \in 0 .. k - 1 : j = CHOOSE i \in 0 .. k - 1 : First(i)
    BY <2>5
  <2>7. at - j \in 0 .. MaxR
    BY DataAssumption
  <2>8. rmem[at - j] \in Int
    BY <2>7 DEF TypeOK
  <2>9. QED
    BY <2>6, <2>8
<1>2. reg[p] \in Int
  BY DEF TypeOK
<1>3. QED
  BY <1>1, <1>2, Zenon

-----------------------------------------------------------------------------
(* Cells of the return stack that a step leaves alone. *)

LEMMA NotAbove == \A c, p, q \in Nat : p < q /\ c <= p + 1 => c # q + 1
OBVIOUS

LEMMA CellsUnderPush ==
    ASSUME TypeOK, rsp' \in Nat, rsp' > rsp,
           \A c \in 0 .. rsp : rmem'[c] = rmem[c], rmem'[rsp + 1] = rtop
    PROVE  \A c \in Nat : c <= rsp + 1 => Cell(c)' = Cell(c)
<1> SUFFICES ASSUME NEW c \in Nat, c <= rsp + 1
             PROVE  Cell(c)' = Cell(c)
  OBVIOUS
<1>1. Cell(c)' = (IF c = rsp' + 1 THEN rtop' ELSE rmem'[c])
  BY DEF Cell
<1>2. rsp \in Nat
  BY Words
<1>3. c # rsp' + 1
  BY <1>2, NotAbove, Zenon
<1>4. CASE c = rsp + 1
  BY <1>1, <1>3, <1>4 DEF Cell
<1>5. CASE c # rsp + 1
  <2>1. c \in 0 .. rsp
    BY <1>2, <1>5
  <2>2. QED
    BY <1>1, <1>3, <1>5, <2>1 DEF Cell
<1>6. QED
  BY <1>4, <1>5

LEMMA CellsUnderPop ==
    ASSUME TypeOK, rsp' \in Nat, rsp' < rsp, rmem' = rmem, rtop' = rmem[rsp' + 1]
    PROVE  \A c \in Nat : c <= rsp' + 1 => Cell(c)' = Cell(c)
<1> SUFFICES ASSUME NEW c \in Nat, c <= rsp' + 1
             PROVE  Cell(c)' = Cell(c)
  OBVIOUS
<1>1. Cell(c)' = (IF c = rsp' + 1 THEN rtop' ELSE rmem'[c])
  BY DEF Cell
<1>2. rsp \in Nat
  BY Words
<1>3. c # rsp + 1
  BY <1>2, NotAbove, Zenon
<1>4. QED
  BY <1>1, <1>3 DEF Cell

LEMMA PushFrameFacts ==
    ASSUME TypeOK, NEW n \in Nat, PushFrame(n)
    PROVE  /\ rmem' \in [0 .. MaxR -> Int]
           /\ rsp' = rsp + n + 1 /\ rsp' \in 0 .. MaxR /\ rsp' > rsp
           /\ locl' = rsp' /\ rtop' = locl
           /\ \A c \in Nat : c <= rsp + 1 => Cell(c)' = Cell(c)
<1>1. PICK k \in Nat : k = Spilled(n, locl) /\ k <= n /\ k <= Ln
  BY SpilledFacts
<1>2. PICK at \in Nat : at = rsp + n + 1
  BY Words
<1>3. /\ rmem' = SpillRegs(at, k)
      /\ rsp' = rsp + n + 1 /\ locl' = rsp' /\ rtop' = locl /\ rsp + n + 1 <= MaxR
  BY <1>1, <1>2 DEF PushFrame
<1>4. rmem' \in [0 .. MaxR -> Int]
  BY <1>1, <1>3, SpillRegsType
<1>5. rsp' \in 0 .. MaxR /\ rsp' > rsp /\ rsp' \in Nat
  BY <1>3, Words
<1>6. ASSUME NEW c \in 0 .. rsp
      PROVE  rmem'[c] = rmem[c]
  <2>2. rsp \in Nat /\ MaxR \in Nat /\ rsp <= MaxR
    BY Words DEF TypeOK
  <2>3. DOMAIN rmem = 0 .. MaxR
    BY DEF TypeOK
  <2>4. c \in DOMAIN rmem /\ c # rsp + 1
    BY <2>2, <2>3
  <2>5. c \notin at - k + 1 .. at
    BY <1>1, <1>2, <2>2
  <2>6. QED
    BY <1>3, <2>4, <2>5 DEF SpillRegs
<1>7. rmem'[rsp + 1] = rtop
  <2>1. rsp + 1 \in DOMAIN rmem
    BY <1>3, Words, SMTT(30) DEF TypeOK
  <2>2. QED
    BY <1>3, <2>1 DEF SpillRegs
<1>8. \A c \in Nat : c <= rsp + 1 => Cell(c)' = Cell(c)
  BY <1>5, <1>6, <1>7, CellsUnderPush
<1>9. QED
  BY <1>3, <1>4, <1>5, <1>8

-----------------------------------------------------------------------------
(* What a step does to the words and their frames. *)

LEMMA KeptCells ==
    ASSUME TypeOK, Layout
    PROVE  /\ \A c \in Kept : c \in Nat /\ c <= rsp + 1
           /\ \A f \in Frames : f + 1 \in Kept
           /\ \A a \in DOMAIN calls : calls[a].base + 1 \in Kept
<1>1. \A f \in Frames : f + 1 \in Nat /\ f + 1 <= rsp + 1
  BY FramesBelow, Words
<1>2. \A a \in DOMAIN calls : calls[a].base \in Nat /\ calls[a].base <= rsp
  BY Heights, Words
<1>3. \A a \in DOMAIN calls : calls[a].base + 1 \in Nat /\ calls[a].base + 1 <= rsp + 1
  BY <1>2, Words
<1>4. QED
  BY <1>1, <1>3 DEF Kept

LEMMA SameFrames ==
    ASSUME LoclIsInnermost, Frames' = Frames, locl' = locl,
           \A f \in Frames : Cell(f + 1)' = Cell(f + 1)
    PROVE  LoclIsInnermost'
<1>1. Innermost(locl, Frames)'
  BY DEF LoclIsInnermost, Innermost
<1>2. ASSUME NEW f \in Frames
      PROVE  Innermost(Cell(f + 1), {g \in Frames : g < f})'
  BY <1>2 DEF LoclIsInnermost, Innermost
<1>3. QED
  BY <1>1, <1>2 DEF LoclIsInnermost

LEMMA FrameAdded ==
    ASSUME LoclIsInnermost, Frames \subseteq Nat, locl' \in Nat,
           \A f \in Frames : f < locl' /\ Cell(f + 1)' = Cell(f + 1),
           Frames' = Frames \cup {locl'}, rsp' = locl', rtop' = locl
    PROVE  LoclIsInnermost'
<1>1. Innermost(locl, Frames)'
  BY DEF Innermost
<1>2. ASSUME NEW f \in Frames
      PROVE  Innermost(Cell(f + 1), {g \in Frames : g < f})'
  <2>1. {g \in Frames : g < f}' = {g \in Frames : g < f}
    BY <1>2
  <2>2. Cell(f + 1)' = Cell(f + 1)
    BY <1>2
  <2>3. Innermost(Cell(f + 1), {g \in Frames : g < f})
    BY <1>2 DEF LoclIsInnermost
  <2>4. QED
    BY <2>1, <2>2, <2>3 DEF Innermost
<1>3. ASSUME NEW f \in {locl'}
      PROVE  Innermost(Cell(f + 1), {g \in Frames : g < f})'
  <2>1. {g \in Frames : g < f}' = Frames
    <3>1. f = locl' /\ ~ (f < f) /\ \A g \in Frames : g < f
      BY <1>3
    <3>2. QED
      BY <3>1, Zenon
  <2>2. Cell(f + 1)' = locl
    BY <1>3 DEF Cell
  <2>3. QED
    BY <2>1, <2>2 DEF LoclIsInnermost, Innermost
<1>4. QED
  BY <1>1, <1>2, <1>3 DEF LoclIsInnermost

LEMMA FrameDropped ==
    ASSUME LoclIsInnermost, Frames \subseteq Nat, locl \in Frames,
           \A f \in Frames : f # locl => Cell(f + 1)' = Cell(f + 1),
           Frames' = Frames \ {locl}, rsp = locl, locl' = rtop
    PROVE  LoclIsInnermost'
<1>1. \A f \in Frames : f <= locl
  BY DEF LoclIsInnermost, Innermost
<1>2. Innermost(locl, Frames)'
  <2>1. {g \in Frames : g < locl} = Frames'
    <3>1. \A g \in Frames : g # locl => g < locl
      BY <1>1
    <3>2. ~ (locl < locl)
      OBVIOUS
    <3>3. QED
      BY <3>1, <3>2, Zenon
  <2>2. Innermost(Cell(locl + 1), {g \in Frames : g < locl})
    BY DEF LoclIsInnermost
  <2>3. Cell(locl + 1) = locl'
    BY DEF Cell
  <2>4. QED
    BY <2>1, <2>2, <2>3 DEF Innermost
<1>3. ASSUME NEW f \in Frames, f # locl
      PROVE  Innermost(Cell(f + 1), {g \in Frames : g < f})'
  <2>1. {g \in Frames : g < f}' = {g \in Frames : g < f}
    BY <1>1, <1>3
  <2>2. Cell(f + 1)' = Cell(f + 1)
    BY <1>3
  <2>3. Innermost(Cell(f + 1), {g \in Frames : g < f})
    BY <1>3 DEF LoclIsInnermost
  <2>4. QED
    BY <2>1, <2>2, <2>3 DEF Innermost
<1>4. QED
  BY <1>2, <1>3 DEF LoclIsInnermost

(* the words stay, and so do the cells the invariant is about *)
LEMMA SameWords ==
    ASSUME TypeOK, Layout, LoclIsInnermost, ReturnAddressesKept,
           calls' = calls, locl' = locl, InC' <=> InC,
           IF InC THEN rsp' = rsp ELSE Top(Len(calls)) <= rsp',
           \A c \in Kept : Cell(c)' = Cell(c)
    PROVE  Layout' /\ LoclIsInnermost' /\ ReturnAddressesKept'
<1>1. Layout'
  <2>1. \A a : Top(a)' = Top(a)
    BY DEF Top
  <2>2. QED
    BY <2>1 DEF Layout
<1>2. LoclIsInnermost'
  <2>1. Frames' = Frames
    BY DEF Frames
  <2>2. \A f \in Frames : Cell(f + 1)' = Cell(f + 1)
    BY KeptCells
  <2>3. QED
    BY <2>1, <2>2, SameFrames
<1>3. ReturnAddressesKept'
  <2> SUFFICES ASSUME NEW a \in DOMAIN calls
               PROVE  Cell(calls[a].base + 1)' = ReturnAddress(a - 1)
    BY DEF ReturnAddressesKept
  <2>1. PICK c \in Kept : c = calls[a].base + 1
    BY KeptCells
  <2>2. Cell(c)' = Cell(c)
    OBVIOUS
  <2>3. c = (calls[a].base + 1)'
    BY <2>1
  <2>4. QED
    BY <2>1, <2>2, <2>3 DEF ReturnAddressesKept, Cell
<1>4. QED
  BY <1>1, <1>2, <1>3

LEMMA StackUnchanged ==
    ASSUME IInv, UNCHANGED <<rmem, rsp, rtop, locl, calls>>, InC' <=> InC
    PROVE  Layout' /\ LoclIsInnermost' /\ ReturnAddressesKept'
<1>1. \A c \in Kept : Cell(c)' = Cell(c)
  BY DEF Cell
<1>2. IF InC THEN rsp' = rsp ELSE Top(Len(calls)) <= rsp'
  BY DEF IInv, Layout
<1>3. QED
  BY <1>1, <1>2, SameWords DEF IInv

-----------------------------------------------------------------------------
(* Every step preserves the invariant. *)

LEMMA ComputeStep == ASSUME IInv, NEW v \in Values, Compute(v) PROVE IInv'
<1>1. TypeOK'
  BY DataAssumption DEF IInv, TypeOK, Compute
<1>2. QED
  BY <1>1, StackUnchanged DEF IInv, Compute, InC, CSaves

LEMMA FromLocalStep ==
    ASSUME IInv, NEW j \in 0 .. Me.n - 1, FromLocal(j)
    PROVE  IInv'
<1>1. TypeOK
  BY DEF IInv
<1>2. Me.n \in Nat /\ Me.base \in Nat /\ MaxR \in Nat /\ Ln \in Nat
  BY <1>1, Words
<1>3. j \in Nat /\ Me.n # 0 /\ j < Me.n
  BY <1>2
<1>4. locl - j \in 0 .. MaxR
  <2>1. Me.base + Me.n + 1 <= locl
    BY <1>3, MyFrame DEF FromLocal
  <2>2. locl \in Nat /\ locl <= MaxR
    BY <1>1, <1>2 DEF TypeOK
  <2>3. QED
    BY <1>2, <1>3, <2>1, <2>2
<1>5. Fetched(j) \in Int
  <2>1. CASE j < Ln
    <3>1. Reg[j] \in Phys
      BY <1>2, <1>3, <2>1, RegAssumption
    <3>2. QED
      BY <1>1, <2>1, <3>1 DEF Fetched, TypeOK
  <2>2. CASE ~ (j < Ln)
    BY <1>1, <1>4, <2>2 DEF Fetched, TypeOK
  <2>3. QED
    BY <2>1, <2>2
<1>6. TypeOK'
  BY <1>1, <1>5 DEF TypeOK, FromLocal
<1>7. QED
  BY <1>6, StackUnchanged DEF IInv, FromLocal, InC, CSaves

LEMMA ToLocalStep ==
    ASSUME IInv, NEW j \in 0 .. Me.n - 1, ToLocal(j)
    PROVE  IInv'
<1>1. TypeOK /\ Layout /\ ~InC /\ InWord
  BY DEF IInv, InC, InWord, ToLocal
<1>2. Me.n \in Nat /\ Me.base \in Nat /\ MaxR \in Nat /\ Ln \in Nat /\ rsp \in Nat
  BY <1>1, Words
<1>3. j \in Nat /\ Me.n # 0 /\ j < Me.n
  BY <1>2
<1>4. TypeOK'
  <2>1. reg' \in [Phys -> Int] /\ rmem' \in [0 .. MaxR -> Int]
    BY <1>1 DEF TypeOK, ToLocal
  <2>2. dtop' \in Int
    BY DataAssumption DEF ToLocal
  <2>3. UNCHANGED <<rsp, rtop, locl, phase, calls>>
    BY DEF ToLocal
  <2>4. QED
    BY <1>1, <2>1, <2>2, <2>3 DEF TypeOK
<1>5. CASE j < Ln
  BY <1>1, <1>4, <1>5, StackUnchanged DEF IInv, ToLocal, InC, CSaves
<1>6. CASE ~ (j < Ln)
  <2>1. PICK at \in Nat : at = locl
    BY <1>1, Words
  <2>2. rmem' = [rmem EXCEPT ![at - j] = dtop] /\ rsp' = rsp /\ rtop' = rtop
    BY <1>6, <2>1 DEF ToLocal
  <2>3. /\ Me.base + Me.n + 1 <= at /\ at <= rsp
        /\ \A f \in Frames : f = at \/ f < Me.base
    BY <1>1, <1>3, <2>1, MyFrame, FramesBelow
  <2>4. \A a \in DOMAIN calls : calls[a].base \in Nat /\ calls[a].base <= Me.base
    BY <1>1, Heights, Words
  <2>5. \A c \in Kept : c # at - j
    <3>1. \A f \in Frames : f \in Nat /\ f + 1 # at - j
      BY <1>1, <1>2, <1>3, <2>3, FramesBelow
    <3>2. \A a \in DOMAIN calls : calls[a].base + 1 # at - j
      BY <1>2, <1>3, <2>3, <2>4
    <3>3. QED
      BY <3>1, <3>2 DEF Kept
  <2>6. \A c \in Kept : Cell(c)' = Cell(c)
    <3> SUFFICES ASSUME NEW c \in Kept
                 PROVE  Cell(c)' = Cell(c)
      OBVIOUS
    <3>1. rmem'[c] = rmem[c]
      BY <1>1, <2>2, <2>5 DEF TypeOK
    <3>2. QED
      BY <2>2, <3>1 DEF Cell
  <2>7. calls' = calls /\ locl' = locl /\ (InC' <=> InC)
    BY DEF ToLocal, InC, CSaves
  <2>8. IF InC THEN rsp' = rsp ELSE Top(Len(calls)) <= rsp'
    BY <1>1, <2>2 DEF Layout
  <2>9. QED
    BY <1>4, <2>6, <2>7, <2>8, SameWords DEF IInv
<1>7. QED
  BY <1>5, <1>6

LEMMA CCallStep == ASSUME IInv, CCall PROVE IInv'
<1>1. TypeOK'
  <2>1. Values \subseteq Int
    BY DataAssumption
  <2>2. reg' \in [Phys -> Int] /\ dtop' \in Int
    BY <2>1 DEF CCall
  <2>3. QED
    BY <2>2 DEF IInv, TypeOK, CCall
<1>2. QED
  BY <1>1, StackUnchanged DEF IInv, CCall, InC, CSaves

LEMMA ToRStep == ASSUME IInv, ToR PROVE IInv'
<1>1. TypeOK /\ Layout /\ ~InC
  BY DEF IInv, InC, InWord, ToR
<1>2. /\ rsp \in Nat /\ rsp < MaxR /\ rsp' = rsp + 1
      /\ rmem' = [rmem EXCEPT ![rsp + 1] = rtop]
      /\ calls' = calls /\ locl' = locl /\ phase' = phase
  BY <1>1, Words DEF ToR, Push
<1>3. TypeOK'
  <2>1. rsp' \in 0 .. MaxR
    BY <1>2, DataAssumption
  <2>2. QED
    BY <1>1, <1>2, <2>1, DataAssumption, SMTT(30) DEF TypeOK, ToR, Push
<1>4. \A c \in 0 .. rsp : rmem'[c] = rmem[c]
  BY <1>1, <1>2, DataAssumption DEF TypeOK
<1>5. rmem'[rsp + 1] = rtop
  BY <1>1, <1>2, DataAssumption DEF TypeOK
<1>6. \A c \in Kept : Cell(c)' = Cell(c)
  <2>1. \A c \in Nat : c <= rsp + 1 => Cell(c)' = Cell(c)
    BY <1>1, <1>2, <1>4, <1>5, CellsUnderPush
  <2>2. QED
    BY <1>1, <2>1, KeptCells
<1>7. Top(Len(calls)) <= rsp'
  BY <1>1, <1>2, Heights, Words
<1>8. InC' <=> InC
  BY <1>2 DEF InC, CSaves
<1>9. QED
  BY <1>1, <1>2, <1>3, <1>6, <1>7, <1>8, SameWords DEF IInv

LEMMA RFromStep == ASSUME IInv, RFrom PROVE IInv'
<1>1. TypeOK /\ Layout /\ ~InC
  BY DEF IInv, InC, InWord, RFrom
<1>2. /\ rsp' = rsp - 1 /\ rmem' = rmem /\ rtop' = rmem[rsp] /\ dtop' = rtop
      /\ calls' = calls /\ locl' = locl /\ phase' = phase /\ reg' = reg
  BY DEF RFrom, Pop
<1>3. Top(Len(calls)) \in Nat /\ Top(Len(calls)) < rsp
  BY <1>1, Heights, Words DEF RFrom, Mine, Top
<1>4. rsp \in 1 .. MaxR /\ rsp' \in Nat /\ rsp' < rsp /\ Top(Len(calls)) <= rsp'
  BY <1>1, <1>2, <1>3 DEF TypeOK
<1>5. rtop' = rmem[rsp' + 1]
  BY <1>2, <1>4
<1>6. TypeOK'
  <2>1. rtop' \in Int /\ dtop' \in Int
    BY <1>1, <1>2, <1>4 DEF TypeOK
  <2>2. rsp' \in 0 .. MaxR
    BY <1>2, <1>4, DataAssumption
  <2>3. QED
    BY <1>1, <1>2, <2>1, <2>2 DEF TypeOK
<1>7. \A c \in Nat : c <= rsp' + 1 => Cell(c)' = Cell(c)
  BY <1>1, <1>2, <1>4, <1>5, CellsUnderPop
<1>8. \A c \in Kept : c \in Nat /\ c <= rsp' + 1
  <2>1. \A f \in Frames : f \in Nat /\ f <= Top(Len(calls))
    BY <1>1, WordFrames, Highest
  <2>2. \A a \in DOMAIN calls : calls[a].base \in Nat /\ calls[a].base <= Top(Len(calls))
    <3> SUFFICES ASSUME NEW a \in DOMAIN calls
                 PROVE  calls[a].base \in Nat /\ calls[a].base <= Top(Len(calls))
      OBVIOUS
    <3>1. PICK p \in Nat, q \in Nat : p = calls[a].base /\ q = Top(a) /\ p <= q
      BY <1>1, Highest
    <3>2. QED
      BY <1>1, <1>3, <3>1, Highest
  <2>3. \A f \in Frames : f + 1 \in Nat /\ f + 1 <= rsp' + 1
    BY <1>3, <1>4, <2>1
  <2>4. \A a \in DOMAIN calls : calls[a].base + 1 \in Nat /\ calls[a].base + 1 <= rsp' + 1
    BY <1>3, <1>4, <2>2
  <2>5. QED
    BY <2>3, <2>4 DEF Kept
<1>9. InC' <=> InC
  BY <1>2 DEF InC, CSaves
<1>10. QED
  BY <1>1, <1>2, <1>4, <1>6, <1>7, <1>8, <1>9, SameWords DEF IInv

LEMMA CallStep == ASSUME IInv, Call PROVE IInv'
<1>1. TypeOK /\ Layout /\ LoclIsInnermost /\ ReturnAddressesKept /\ ~InC /\ ~InC'
  BY DEF IInv, InC, InWord, Call, Push
<1>2. PICK N \in Nat \ {0} : N = Len(calls)
  BY <1>1, Words
<1>3. /\ rsp \in Nat /\ rsp < MaxR /\ rsp' = rsp + 1
      /\ rmem' = [rmem EXCEPT ![rsp + 1] = rtop] /\ rtop' = ReturnAddress(N)
      /\ calls' = Append(calls, Activation(0, 0, rsp'))
      /\ UNCHANGED <<reg, dtop, locl, phase>>
  BY <1>1, <1>2, Words DEF Call, Push
<1>4. rsp' \in 0 .. MaxR /\ rsp' \in Nat
  BY <1>3, DataAssumption
<1>5. PICK x \in Activations : x = Activation(0, 0, rsp') /\ x.n = 0 /\ x.base = rsp'
  BY <1>4, DataAssumption, ActivationFacts
<1>6. /\ DOMAIN calls = 1 .. N /\ DOMAIN calls' = 1 .. N + 1 /\ Len(calls') = N + 1
      /\ calls' \in Seq(Activations) /\ calls' # <<>>
      /\ calls'[N + 1] = x /\ \A a \in 1 .. N : calls'[a] = calls[a]
  BY <1>1, <1>2, <1>3, <1>5, Words, AppendFacts
<1>7. TypeOK'
  <2>1. rtop' \in Int
    BY <1>3 DEF ReturnAddress
  <2>2. rmem' \in [0 .. MaxR -> Int]
    BY <1>1, <1>3 DEF TypeOK
  <2>3. QED
    BY <1>1, <1>3, <1>4, <1>6, <2>1, <2>2 DEF TypeOK, Activations
<1>8. \A c \in Nat : c <= rsp + 1 => Cell(c)' = Cell(c)
  <2>1. \A c \in 0 .. rsp : rmem'[c] = rmem[c]
    BY <1>1, <1>3, DataAssumption DEF TypeOK
  <2>2. rmem'[rsp + 1] = rtop
    BY <1>1, <1>3, DataAssumption DEF TypeOK
  <2>3. QED
    BY <1>1, <1>3, <1>4, <2>1, <2>2, CellsUnderPush
<1>9. \A c \in Kept : Cell(c)' = Cell(c)
  BY <1>1, <1>8, KeptCells
<1>10. Layout'
  <2>1. \A a \in 1 .. N : Top(a)' = Top(a) /\ Top(a) <= rsp /\ Top(a) \in Nat
    BY <1>1, <1>6, Heights DEF Top
  <2>2. Top(N + 1)' = rsp'
    BY <1>5, <1>6 DEF Top
  <2>3. \A a \in DOMAIN calls' :
            calls'[a].n # 0 => calls'[a].base + calls'[a].n + 1 <= calls'[a].at
    BY <1>1, <1>5, <1>6 DEF Layout
  <2>4. ASSUME NEW a \in 1 .. N + 1, NEW b \in 1 .. N + 1, a < b
        PROVE  Top(a)' < calls'[b].base
    <3>1. a \in 1 .. N
      BY <2>4
    <3>2. CASE b \in 1 .. N
      BY <1>1, <1>6, <2>1, <2>4, <3>1, <3>2 DEF Layout
    <3>3. CASE b = N + 1
      BY <1>3, <1>5, <1>6, <2>1, <3>1, <3>3
    <3>4. QED
      BY <3>2, <3>3
  <2>5. Top(Len(calls))' <= rsp'
    BY <1>4, <1>6, <2>2
  <2>6. QED
    BY <1>1, <1>6, <2>3, <2>4, <2>5 DEF Layout
<1>11. LoclIsInnermost'
  <2>1. {b \in DOMAIN calls' : calls'[b].n # 0} = {b \in DOMAIN calls : calls[b].n # 0}
    BY <1>5, <1>6
  <2>2. Frames' = Frames
    BY <1>1, <1>6, <2>1 DEF Frames
  <2>3. \A f \in Frames : Cell(f + 1)' = Cell(f + 1)
    BY <1>1, <1>9, KeptCells
  <2>4. QED
    BY <1>1, <1>3, <2>2, <2>3, SameFrames
<1>12. ReturnAddressesKept'
  <2>1. ASSUME NEW a \in 1 .. N
        PROVE  Cell(calls[a].base + 1)' = ReturnAddress(a - 1)
    <3>1. PICK c \in Kept : c = calls[a].base + 1
      BY <1>1, <1>6, KeptCells
    <3>2. Cell(c)' = ReturnAddress(a - 1)
      BY <1>1, <1>6, <1>9, <3>1 DEF ReturnAddressesKept
    <3>3. c = (calls[a].base + 1)'
      BY <1>6, <3>1
    <3>4. QED
      BY <3>2, <3>3 DEF Cell
  <2>2. Cell(calls[N + 1].base + 1)' = ReturnAddress(N + 1 - 1)
    BY <1>3, <1>5, <1>6 DEF Cell
  <2>3. QED
    BY <1>6, <2>1, <2>2 DEF ReturnAddressesKept
<1>13. QED
  BY <1>7, <1>10, <1>11, <1>12 DEF IInv

LEMMA ExitStep == ASSUME IInv, Exit PROVE IInv'
<1>1. TypeOK /\ Layout /\ LoclIsInnermost /\ ReturnAddressesKept /\ ~InC /\ ~InC'
  BY DEF IInv, InC, InWord, Exit, Pop
<1>2. PICK N \in Nat \ {0} : N = Len(calls)
  BY <1>1, Words
<1>3. /\ N - 1 \in Nat \ {0} /\ Me = calls[N] /\ Me.n = 0 /\ ~ (rsp > Me.base)
      /\ calls' = Front(calls)
      /\ rsp' = rsp - 1 /\ rtop' = rmem[rsp]
      /\ UNCHANGED <<reg, dtop, rmem, locl, phase>>
  BY <1>1, <1>2, Words DEF Exit, Pop, Mine
<1>4. /\ DOMAIN calls = 1 .. N /\ DOMAIN calls' = 1 .. N - 1 /\ Len(calls') = N - 1
      /\ calls' \in Seq(Activations) /\ calls' # <<>>
      /\ \A a \in 1 .. N - 1 : calls'[a] = calls[a]
  <2>1. calls \in Seq(Activations) /\ calls # <<>>
    BY <1>1, Words
  <2>2. /\ DOMAIN calls = 1 .. N /\ DOMAIN calls' = 1 .. N - 1 /\ Len(calls') = N - 1
        /\ calls' \in Seq(Activations)
        /\ \A a \in 1 .. N - 1 : calls'[a] = calls[a]
    BY <1>2, <1>3, <2>1, FrontFacts
  <2>3. calls' # <<>>
    BY <1>3, <2>2
  <2>4. QED
    BY <2>2, <2>3
<1>5. /\ \A a \in 1 .. N - 1 : /\ Top(a) \in Nat /\ calls[a].base \in Nat
                                /\ calls[a].base <= Top(a) /\ Top(a) < rsp
      /\ rsp \in Nat /\ rsp = Me.base
  <2>1. Top(N) = Me.base /\ Me.base \in Nat /\ rsp \in Nat
    BY <1>1, <1>2, <1>3, <1>4, Words DEF Top
  <2>2. rsp = Me.base
    BY <1>1, <1>2, <1>3, <2>1 DEF Layout
  <2>3. \A a \in 1 .. N - 1 : a \in DOMAIN calls /\ a # Len(calls)
    BY <1>2, <1>4
  <2>4. \A a \in 1 .. N - 1 : /\ Top(a) \in Nat /\ calls[a].base \in Nat
                             /\ calls[a].base <= Top(a) /\ Top(a) < Me.base
    BY <1>1, <2>3, Heights, Words
  <2>5. QED
    BY <2>1, <2>2, <2>4
<1>6. rsp \in 1 .. MaxR /\ rsp' \in Nat /\ rsp' < rsp
  <2>1. Top(1) \in Nat /\ Top(1) < rsp
    BY <1>3, <1>5
  <2>2. QED
    BY <1>1, <1>3, <2>1 DEF TypeOK
<1>7. TypeOK'
  <2>1. rtop' \in Int
    BY <1>1, <1>3, <1>6 DEF TypeOK
  <2>2. rsp' \in 0 .. MaxR
    BY <1>3, <1>6, DataAssumption
  <2>3. QED
    BY <1>1, <1>3, <1>4, <2>1, <2>2 DEF TypeOK, Activations
<1>8. \A c \in Nat : c <= rsp => Cell(c)' = Cell(c)
  <2>1. rsp' + 1 = rsp
    BY <1>3, <1>5
  <2>2. QED
    BY <1>1, <1>3, <1>6, <2>1, CellsUnderPop
<1>9. Layout'
  <2>1. \A a \in 1 .. N - 1 : Top(a)' = Top(a)
    BY <1>4 DEF Top
  <2>2. \A a, b \in DOMAIN calls' : a < b => Top(a)' < calls'[b].base
    BY <1>1, <1>2, <1>4, <2>1 DEF Layout
  <2>3. \A a \in DOMAIN calls' :
            calls'[a].n # 0 => calls'[a].base + calls'[a].n + 1 <= calls'[a].at
    BY <1>1, <1>2, <1>4 DEF Layout
  <2>4. Top(Len(calls))' <= rsp'
    BY <1>3, <1>4, <1>5, <2>1
  <2>5. QED
    BY <1>1, <2>2, <2>3, <2>4 DEF Layout
<1>10. LoclIsInnermost'
  <2>1. {b \in DOMAIN calls' : calls'[b].n # 0} = {b \in DOMAIN calls : calls[b].n # 0}
    BY <1>3, <1>4
  <2>2. Frames' = Frames
    BY <1>1, <1>4, <2>1 DEF Frames
  <2>3. ASSUME NEW f \in Frames
        PROVE  Cell(f + 1)' = Cell(f + 1)
    <3>1. PICK a \in DOMAIN calls : calls[a].n # 0 /\ f = Top(a)
      BY <1>1, WordFrames
    <3>2. a \in 1 .. N - 1
      BY <1>2, <1>3, <1>4, <3>1
    <3>3. f + 1 \in Nat /\ f + 1 <= rsp
      BY <1>5, <3>1, <3>2
    <3>4. QED
      BY <1>8, <3>3
  <2>4. QED
    BY <1>1, <1>3, <2>2, <2>3, SameFrames
<1>11. ReturnAddressesKept'
  <2>1. ASSUME NEW a \in 1 .. N - 1
        PROVE  Cell(calls[a].base + 1)' = ReturnAddress(a - 1)
    <3>1. PICK c \in Nat : c = calls[a].base + 1 /\ c <= rsp
      BY <1>5
    <3>2. Cell(c)' = ReturnAddress(a - 1)
      BY <1>1, <1>2, <1>4, <1>8, <3>1 DEF ReturnAddressesKept
    <3>3. c = (calls[a].base + 1)'
      BY <1>4, <3>1
    <3>4. QED
      BY <3>2, <3>3 DEF Cell
  <2>2. QED
    BY <1>4, <2>1 DEF ReturnAddressesKept
<1>12. QED
  BY <1>7, <1>9, <1>10, <1>11 DEF IInv

(* The running word becomes x, which starts where it started: what remains *)
(* to show of the layout and of the return addresses.                      *)
LEMMA WordReplaced ==
    ASSUME TypeOK, Layout, ReturnAddressesKept, ~InC,
           NEW x \in Activations, calls' = WithMe(x), x.base = Me.base,
           x.n # 0 => x.base + x.n + 1 <= x.at,
           ~InC', (IF x.n = 0 THEN x.base ELSE x.at) <= rsp',
           \A c \in Nat : c <= Me.base + 1 => Cell(c)' = Cell(c)
    PROVE  /\ calls' \in Seq(Activations) /\ calls' # <<>>
           /\ DOMAIN calls' = DOMAIN calls
           /\ calls'[Len(calls)] = x
           /\ \A a \in DOMAIN calls : a # Len(calls) => calls'[a] = calls[a]
           /\ Layout' /\ ReturnAddressesKept'
<1>1. PICK N \in Nat \ {0} : N = Len(calls) /\ DOMAIN calls = 1 .. N /\ Me = calls[N]
  BY Words
<1>2. calls \in Seq(Activations) /\ calls # <<>>
  BY Words
<1>3. /\ calls' \in Seq(Activations) /\ calls' # <<>> /\ Len(calls') = N
      /\ DOMAIN calls' = 1 .. N /\ calls'[N] = x
      /\ \A a \in 1 .. N - 1 : calls'[a] = calls[a]
  BY <1>1, <1>2, ReplaceLast, SMTT(30) DEF WithMe
<1>4. \A a \in 1 .. N : calls'[a].base = calls[a].base
  BY <1>1, <1>3
<1>5. Layout'
  <2>1. \A a \in 1 .. N - 1 : Top(a)' = Top(a)
    BY <1>3 DEF Top
  <2>2. Top(N)' = IF x.n = 0 THEN x.base ELSE x.at
    BY <1>3 DEF Top
  <2>3. \A a \in 1 .. N :
            calls'[a].n # 0 => calls'[a].base + calls'[a].n + 1 <= calls'[a].at
    BY <1>1, <1>3 DEF Layout
  <2>4. ASSUME NEW a \in 1 .. N, NEW b \in 1 .. N, a < b
        PROVE  Top(a)' < calls'[b].base
    <3>1. a \in 1 .. N - 1
      BY <2>4
    <3>2. QED
      BY <1>1, <1>4, <2>1, <2>4, <3>1 DEF Layout
  <2>5. QED
    BY <1>3, <2>2, <2>3, <2>4 DEF Layout
<1>6. ReturnAddressesKept'
  <2>1. ASSUME NEW a \in 1 .. N
        PROVE  Cell(calls[a].base + 1)' = ReturnAddress(a - 1)
    <3>1. calls[a].base \in Nat /\ calls[a].base <= Me.base /\ Me.base \in Nat
      BY <1>1, Heights, Words
    <3>2. PICK c \in Nat : c = calls[a].base + 1 /\ c <= Me.base + 1
      BY <3>1
    <3>3. Cell(c)' = ReturnAddress(a - 1)
      BY <1>1, <3>2 DEF ReturnAddressesKept
    <3>4. c = (calls[a].base + 1)'
      BY <1>4, <3>2
    <3>5. QED
      BY <3>3, <3>4 DEF Cell
  <2>2. QED
    BY <1>3, <2>1 DEF ReturnAddressesKept
<1>7. QED
  BY <1>1, <1>3, <1>5, <1>6

LEMMA LenterStep == ASSUME IInv, NEW n \in Sizes, Lenter(n) PROVE IInv'
<1>1. TypeOK /\ Layout /\ LoclIsInnermost /\ ReturnAddressesKept /\ ~InC /\ ~InC'
  BY DEF IInv, InC, InWord, Lenter
<1>2. n \in Nat \ {0}
  BY DataAssumption
<1>3. /\ Me.n = 0 /\ calls' = WithMe(Activation(n, rsp', Me.base))
      /\ UNCHANGED <<reg, dtop, phase>>
  BY DEF Lenter
<1>4. /\ rmem' \in [0 .. MaxR -> Int]
      /\ rsp' = rsp + n + 1 /\ rsp' \in 0 .. MaxR /\ rsp' > rsp
      /\ locl' = rsp' /\ rtop' = locl
      /\ \A c \in Nat : c <= rsp + 1 => Cell(c)' = Cell(c)
  BY <1>1, <1>2, PushFrameFacts DEF Lenter
<1>5. Me.base \in 0 .. MaxR /\ Me.base <= rsp /\ rsp \in Nat
  <2>1. Len(calls) \in DOMAIN calls /\ Me = calls[Len(calls)] /\ rsp \in Nat
    BY <1>1, Words
  <2>2. Top(Len(calls)) = Me.base
    BY <1>3, <2>1 DEF Top
  <2>3. Me \in Activations
    BY <1>1, <2>1, Words
  <2>4. QED
    BY <1>1, <2>1, <2>2, <2>3, Heights DEF Activations
<1>6. PICK x \in Activations :
          x = Activation(n, rsp', Me.base) /\ x.n = n /\ x.at = rsp' /\ x.base = Me.base
  <2>1. n \in {0} \cup Sizes
    OBVIOUS
  <2>2. QED
    BY <1>4, <1>5, <2>1, ActivationFacts
<1>7. /\ calls' \in Seq(Activations) /\ calls' # <<>>
      /\ DOMAIN calls' = DOMAIN calls
      /\ calls'[Len(calls)] = x
      /\ \A a \in DOMAIN calls : a # Len(calls) => calls'[a] = calls[a]
      /\ Layout' /\ ReturnAddressesKept'
  <2>1. x.base + x.n + 1 <= x.at /\ x.at <= rsp' /\ x.n # 0
    BY <1>2, <1>4, <1>5, <1>6
  <2>2. \A c \in Nat : c <= Me.base + 1 => Cell(c)' = Cell(c)
    BY <1>4, <1>5
  <2>3. QED
    BY <1>1, <1>3, <1>6, <2>1, <2>2, WordReplaced
<1>8. TypeOK'
  <2>1. locl' \in 0 .. MaxR /\ rtop' \in Int
    BY <1>1, <1>4 DEF TypeOK
  <2>2. reg' \in [Phys -> Int] /\ dtop' \in Int /\ phase' \in {"word", "saved", "returned"}
    BY <1>1, <1>3 DEF TypeOK
  <2>3. QED
    BY <1>4, <1>7, <2>1, <2>2 DEF TypeOK, Activations
<1>9. LoclIsInnermost'
  <2>1. Frames' = Frames \cup {locl'}
    <3>1. Len(calls) \in DOMAIN calls /\ calls[Len(calls)].n = 0
      BY <1>1, <1>3, Words
    <3>2. {b \in DOMAIN calls' : calls'[b].n # 0}
          = {b \in DOMAIN calls : calls[b].n # 0} \cup {Len(calls)}
      BY <1>2, <1>6, <1>7, <3>1
    <3>3. QED
      BY <1>1, <1>4, <1>6, <1>7, <3>1, <3>2 DEF Frames
  <2>2. \A f \in Frames : f \in Nat /\ f < locl' /\ f + 1 \in Nat /\ f + 1 <= rsp + 1
    BY <1>1, <1>4, <1>5, FramesBelow
  <2>3. Frames \subseteq Nat /\ locl' \in Nat
    BY <1>4, <2>2, DataAssumption
  <2>4. \A f \in Frames : Cell(f + 1)' = Cell(f + 1)
    BY <1>4, <2>2
  <2>5. QED
    BY <1>1, <1>4, <2>1, <2>2, <2>3, <2>4, FrameAdded
<1>10. QED
  BY <1>7, <1>8, <1>9 DEF IInv

LEMMA LexitStep == ASSUME IInv, Lexit PROVE IInv'
<1>1. /\ TypeOK /\ Layout /\ LoclIsInnermost /\ ReturnAddressesKept /\ ~InC /\ ~InC'
      /\ InWord /\ Me.n # 0
  BY DEF IInv, InC, InWord, Lexit
<1>2. PICK n \in Nat \ {0}, base \in Nat :
          n = Me.n /\ base = Me.base /\ Me.n \in Sizes /\ Me.base \in 0 .. MaxR
  <2>1. Len(calls) \in DOMAIN calls /\ Me = calls[Len(calls)]
    BY <1>1, Words
  <2>2. Me \in Activations /\ Me.n \in Nat /\ Me.base \in Nat
    BY <1>1, <2>1, Words
  <2>3. QED
    BY <1>1, <2>2 DEF Activations
<1>3. PICK k \in Nat : k = Spilled(n, rtop) /\ k <= n /\ k <= Ln
  BY SpilledFacts
<1>4. /\ locl = Me.at /\ locl \in Frames /\ base + n + 1 <= locl
      /\ \A f \in Frames : f = locl \/ f < base
  BY <1>1, <1>2, MyFrame
<1>5. rsp \in Nat /\ MaxR \in Nat /\ rsp <= MaxR /\ locl \in Nat
  BY <1>1, Words DEF TypeOK
<1>6. rsp = locl
  <2>1. locl <= rsp
    BY <1>1, <1>4, FramesBelow
  <2>2. ~ (rsp > locl)
    BY <1>1, <1>4 DEF Lexit, Mine
  <2>3. QED
    BY <1>5, <2>1, <2>2
<1>7. /\ reg' = ReloadRegs(rsp, k) /\ locl' = rtop /\ rtop' = rmem[rsp - n]
      /\ rsp' = rsp - n - 1 /\ rmem' = rmem
      /\ calls' = WithMe(Activation(0, 0, Me.base))
      /\ UNCHANGED <<dtop, phase>>
  BY <1>2, <1>3, <1>6 DEF Lexit, PopFrame
<1>8. rsp' \in Nat /\ base <= rsp' /\ rsp' < rsp /\ rsp - n = rsp' + 1
  BY <1>4, <1>5, <1>6, <1>7
<1>9. \A c \in Nat : c <= rsp' + 1 => Cell(c)' = Cell(c)
  BY <1>1, <1>7, <1>8, CellsUnderPop
<1>10. PICK x \in Activations : x = Activation(0, 0, Me.base) /\ x.n = 0 /\ x.base = Me.base
  BY <1>2, DataAssumption, ActivationFacts
<1>11. /\ calls' \in Seq(Activations) /\ calls' # <<>>
       /\ DOMAIN calls' = DOMAIN calls
       /\ calls'[Len(calls)] = x
       /\ \A a \in DOMAIN calls : a # Len(calls) => calls'[a] = calls[a]
       /\ Layout' /\ ReturnAddressesKept'
  <2>1. \A c \in Nat : c <= Me.base + 1 => Cell(c)' = Cell(c)
    <3>1. \A c, p, q \in Nat : p <= q /\ c <= p + 1 => c <= q + 1
      OBVIOUS
    <3>2. QED
      BY <1>2, <1>8, <1>9, <3>1, Zenon
  <2>2. x.base <= rsp'
    BY <1>2, <1>8, <1>10
  <2>3. QED
    BY <1>1, <1>7, <1>10, <2>1, <2>2, WordReplaced
<1>12. LoclIsInnermost'
  <2>1. Len(calls) \in DOMAIN calls /\ Me = calls[Len(calls)]
    BY <1>1, Words
  <2>2. Frames' = Frames \ {locl}
    <3>1. {b \in DOMAIN calls' : calls'[b].n # 0}
          = {b \in DOMAIN calls : calls[b].n # 0} \ {Len(calls)}
      BY <1>10, <1>11, <2>1
    <3>2. \A a \in DOMAIN calls : a # Len(calls) /\ calls[a].n # 0 => calls[a].at # locl
      <4> SUFFICES ASSUME NEW a \in DOMAIN calls, a # Len(calls), calls[a].n # 0
                   PROVE  calls[a].at # locl
        OBVIOUS
      <4>1. Top(a) = calls[a].at /\ Top(a) < base /\ Top(a) \in Nat
        BY <1>1, <1>2, Heights DEF Top
      <4>2. QED
        BY <1>4, <1>5, <4>1
    <3>3. QED
      BY <1>1, <1>4, <1>11, <2>1, <3>1, <3>2 DEF Frames
  <2>3. \A f \in Frames : f \in Nat
    BY <1>1, FramesBelow
  <2>4. \A f \in Frames : f # locl => f + 1 \in Nat /\ f + 1 <= rsp' + 1
    BY <1>4, <1>8, <2>3
  <2>5. \A f \in Frames : f # locl => Cell(f + 1)' = Cell(f + 1)
    BY <1>9, <2>4
  <2>6. QED
    BY <1>1, <1>4, <1>6, <1>7, <2>2, <2>3, <2>5, FrameDropped
<1>13. TypeOK'
  <2>1. rsp' \in 0 .. MaxR /\ rsp - n \in 0 .. MaxR
    <3>1. \A p, q, m \in Nat : p < q /\ q <= m => p \in 0 .. m /\ p + 1 \in 0 .. m
      OBVIOUS
    <3>2. QED
      BY <1>5, <1>8, <3>1, Zenon
  <2>2. rtop' \in Int
    BY <1>1, <1>7, <2>1 DEF TypeOK
  <2>3. reg' \in [Phys -> Int]
    <3>1. k <= rsp + 1
      BY <1>3, <1>4, <1>5, <1>6
    <3>2. QED
      BY <1>1, <1>3, <1>5, <1>7, <3>1, ReloadRegsType
  <2>4. locl' \in 0 .. MaxR
    <3>1. Innermost(Cell(locl + 1), {g \in Frames : g < locl})
      BY <1>1, <1>4 DEF LoclIsInnermost
    <3>2. Cell(locl + 1) = locl'
      BY <1>6, <1>7 DEF Cell
    <3>3. locl' = 0 \/ locl' \in Frames
      BY <3>1, <3>2 DEF Innermost, NoLocals
    <3>4. locl' \in Nat /\ locl' <= rsp
      BY <1>1, <1>5, <3>3, FramesBelow
    <3>5. QED
      BY <1>5, <3>4
  <2>5. QED
    BY <1>1, <1>7, <1>11, <2>1, <2>2, <2>3, <2>4 DEF TypeOK, Activations
<1>14. QED
  BY <1>11, <1>12, <1>13 DEF IInv

(* the frame that saves the variables of the running word during a call    *)
LEMMA CLocalsSaveStep == ASSUME IInv, CLocalsSave PROVE IInv'
<1>1. /\ TypeOK /\ Layout /\ LoclIsInnermost /\ ReturnAddressesKept /\ ~InC
      /\ calls' = calls /\ phase' = "saved" /\ UNCHANGED <<reg, dtop>>
  BY DEF IInv, InC, InWord, CLocalsSave
<1>2. CASE ~CSaves
  <2>1. UNCHANGED <<rmem, rsp, rtop, locl, calls>> /\ ~InC'
    BY <1>1, <1>2 DEF CLocalsSave, InC, CSaves
  <2>2. TypeOK'
    BY <1>1, <2>1 DEF TypeOK
  <2>3. QED
    BY <1>1, <2>1, <2>2, StackUnchanged DEF IInv
<1>3. CASE CSaves
  <2>1. Ln \in Nat \ {0} /\ rsp \in Nat /\ MaxR \in Nat
    BY <1>1, <1>3, Words DEF CSaves
  <2>2. /\ rmem' \in [0 .. MaxR -> Int]
        /\ rsp' = rsp + Ln + 1 /\ rsp' \in 0 .. MaxR /\ rsp' > rsp
        /\ locl' = rsp' /\ rtop' = locl
        /\ \A c \in Nat : c <= rsp + 1 => Cell(c)' = Cell(c)
    BY <1>1, <1>3, <2>1, PushFrameFacts DEF CLocalsSave
  <2>3. locl' # 0 /\ locl' \in Nat
    BY <2>1, <2>2
  <2>4. InC'
    BY <1>1, <2>1, <2>3 DEF InC, CSaves, NoLocals
  <2>5. TypeOK'
    <3>1. locl' \in 0 .. MaxR /\ rtop' \in Int
      BY <1>1, <2>2 DEF TypeOK
    <3>2. QED
      BY <1>1, <2>2, <3>1 DEF TypeOK
  <2>6. Layout'
    <3>1. \A a : Top(a)' = Top(a)
      BY <1>1 DEF Top
    <3>2. Top(Len(calls)) \in Nat /\ Top(Len(calls)) <= rsp
      BY <1>1, Heights, Words
    <3>3. Top(Len(calls)) + Ln + 1 <= rsp'
      BY <2>1, <2>2, <3>2
    <3>4. QED
      BY <1>1, <2>2, <2>4, <3>1, <3>3 DEF Layout
  <2>7. LoclIsInnermost'
    <3>1. Frames' = Frames \cup {locl'}
      BY <1>1, <2>4 DEF Frames
    <3>2. \A f \in Frames : f \in Nat /\ f < locl' /\ f + 1 \in Nat /\ f + 1 <= rsp + 1
      BY <1>1, <2>1, <2>2, FramesBelow
    <3>3. \A f \in Frames : Cell(f + 1)' = Cell(f + 1)
      BY <2>2, <3>2
    <3>4. QED
      BY <1>1, <2>2, <2>3, <3>1, <3>2, <3>3, FrameAdded
  <2>8. ReturnAddressesKept'
    <3> SUFFICES ASSUME NEW a \in DOMAIN calls
                 PROVE  Cell(calls[a].base + 1)' = ReturnAddress(a - 1)
      BY <1>1 DEF ReturnAddressesKept
    <3>1. calls[a].base + 1 \in Nat /\ calls[a].base + 1 <= rsp + 1
      BY <1>1, KeptCells
    <3>2. PICK c \in Nat : c = calls[a].base + 1
      BY <3>1
    <3>3. Cell(c)' = ReturnAddress(a - 1)
      BY <1>1, <2>2, <3>1, <3>2 DEF ReturnAddressesKept
    <3>4. c = (calls[a].base + 1)'
      BY <1>1, <3>2
    <3>5. QED
      BY <3>3, <3>4 DEF Cell
  <2>9. QED
    BY <2>5, <2>6, <2>7, <2>8 DEF IInv
<1>4. QED
  BY <1>2, <1>3

LEMMA CLocalsLoadStep == ASSUME IInv, CLocalsLoad PROVE IInv'
<1>1. /\ TypeOK /\ Layout /\ LoclIsInnermost /\ ReturnAddressesKept /\ ~InC'
      /\ calls' = calls /\ phase = "returned" /\ phase' = "word" /\ UNCHANGED dtop
  BY DEF IInv, InC, InWord, CLocalsLoad
<1>2. CASE ~CLoads
  <2>1. UNCHANGED <<reg, rmem, rsp, rtop, locl, calls>> /\ ~InC
    BY <1>1, <1>2 DEF CLocalsLoad, InC, CSaves, CLoads
  <2>2. TypeOK'
    BY <1>1, <2>1 DEF TypeOK
  <2>3. QED
    BY <1>1, <2>1, <2>2, StackUnchanged DEF IInv
<1>3. CASE CLoads
  <2>1. Ln \in Nat \ {0} /\ rsp \in Nat /\ MaxR \in Nat /\ rsp <= MaxR
    BY <1>1, <1>3, Words DEF CLoads, TypeOK
  <2>2. InC
    BY <1>1, <1>3 DEF InC, CSaves, CLoads
  <2>3. PICK t \in Nat : t = Top(Len(calls)) /\ rsp = locl /\ t + Ln + 1 <= rsp
    BY <1>1, <2>2, Heights, Words DEF Layout
  <2>4. /\ reg' = ReloadRegs(locl, Ln) /\ locl' = rtop /\ rtop' = rmem[rsp - Ln]
        /\ rsp' = rsp - Ln - 1 /\ rmem' = rmem
    BY <1>3 DEF CLocalsLoad, PopFrame
  <2>5. rsp' \in Nat /\ t <= rsp' /\ rsp' < rsp /\ rsp - Ln = rsp' + 1
    BY <2>1, <2>3, <2>4
  <2>6. \A c \in Nat : c <= rsp' + 1 => Cell(c)' = Cell(c)
    BY <1>1, <2>4, <2>5, CellsUnderPop
  <2>7. Layout'
    <3>1. \A a : Top(a)' = Top(a)
      BY <1>1 DEF Top
    <3>2. QED
      BY <1>1, <2>3, <2>5, <3>1 DEF Layout
  <2>8. \A a \in DOMAIN calls :
            /\ Top(a) \in Nat /\ Top(a) <= t
            /\ calls[a].base \in Nat /\ calls[a].base <= Top(a)
    <3>1. /\ Len(calls) \in DOMAIN calls /\ Me.base \in Nat /\ Me.base <= t
          /\ \A a \in DOMAIN calls :
                 /\ Top(a) \in Nat /\ calls[a].base \in Nat /\ calls[a].base <= Top(a)
                 /\ a # Len(calls) => Top(a) < Me.base
      BY <1>1, <2>3, Heights, Words
    <3>2. \A a \in DOMAIN calls : Top(a) <= t
      BY <2>3, <3>1
    <3>3. QED
      BY <3>1, <3>2
  <2>9. LoclIsInnermost'
    <3>1. \A a \in DOMAIN calls : calls[a].n # 0 =>
              calls[a].at \in Nat /\ calls[a].at # locl /\ calls[a].at <= rsp'
      <4> SUFFICES ASSUME NEW a \in DOMAIN calls, calls[a].n # 0
                   PROVE  calls[a].at \in Nat /\ calls[a].at # locl /\ calls[a].at <= rsp'
        OBVIOUS
      <4>1. calls[a].at \in Nat /\ calls[a].at <= t
        BY <2>8 DEF Top
      <4>2. QED
        BY <2>1, <2>3, <2>5, <4>1
    <3>2. Frames = {calls[a].at : a \in {b \in DOMAIN calls : calls[b].n # 0}} \cup {locl}
      BY <2>2 DEF Frames
    <3>3. Frames' = {calls[a].at : a \in {b \in DOMAIN calls : calls[b].n # 0}}
      BY <1>1 DEF Frames
    <3>4. Frames' = Frames \ {locl} /\ locl \in Frames
      BY <3>1, <3>2, <3>3
    <3>5. \A f \in Frames : f # locl => f + 1 \in Nat /\ f + 1 <= rsp' + 1
      BY <2>5, <3>1, <3>2
    <3>6. \A f \in Frames : f # locl => Cell(f + 1)' = Cell(f + 1)
      BY <2>6, <3>5
    <3>7. Frames \subseteq Nat
      BY <1>1, FramesBelow
    <3>8. QED
      BY <1>1, <2>3, <2>4, <3>4, <3>6, <3>7, FrameDropped
  <2>10. ReturnAddressesKept'
    <3> SUFFICES ASSUME NEW a \in DOMAIN calls
                 PROVE  Cell(calls[a].base + 1)' = ReturnAddress(a - 1)
      BY <1>1 DEF ReturnAddressesKept
    <3>1. PICK c \in Nat : c = calls[a].base + 1 /\ c <= rsp' + 1
      BY <2>3, <2>5, <2>8
    <3>2. Cell(c)' = ReturnAddress(a - 1)
      BY <1>1, <2>6, <3>1 DEF ReturnAddressesKept
    <3>3. c = (calls[a].base + 1)'
      BY <1>1, <3>1
    <3>4. QED
      BY <3>2, <3>3 DEF Cell
  <2>11. TypeOK'
    <3>1. rsp' \in 0 .. MaxR /\ rsp - Ln \in 0 .. MaxR
      <4>1. \A p, q, m \in Nat : p < q /\ q <= m => p \in 0 .. m /\ p + 1 \in 0 .. m
        OBVIOUS
      <4>2. QED
        BY <2>1, <2>5, <4>1, Zenon
    <3>2. rtop' \in Int
      BY <1>1, <2>4, <3>1 DEF TypeOK
    <3>3. reg' \in [Phys -> Int]
      BY <1>1, <2>1, <2>3, <2>4, ReloadRegsType
    <3>4. locl' \in 0 .. MaxR
      <4>1. locl \in Frames
        BY <2>2 DEF Frames
      <4>2. Innermost(Cell(locl + 1), {g \in Frames : g < locl})
        BY <1>1, <4>1 DEF LoclIsInnermost
      <4>3. Cell(locl + 1) = locl'
        BY <2>3, <2>4 DEF Cell
      <4>4. locl' = 0 \/ locl' \in Frames
        BY <4>2, <4>3 DEF Innermost, NoLocals
      <4>5. locl' \in Nat /\ locl' <= rsp
        BY <1>1, <2>1, <4>4, FramesBelow
      <4>6. QED
        BY <2>1, <4>5
    <3>5. QED
      BY <1>1, <2>4, <3>1, <3>2, <3>3, <3>4 DEF TypeOK
  <2>12. QED
    BY <2>7, <2>9, <2>10, <2>11 DEF IInv
<1>4. QED
  BY <1>2, <1>3

-----------------------------------------------------------------------------
LEMMA Initial == Init => IInv
<1> SUFFICES ASSUME Init PROVE IInv
  OBVIOUS
<1>1. PICK x \in Activations : x = Activation(0, 0, 0) /\ x.n = 0 /\ x.base = 0
  BY DataAssumption, ActivationFacts
<1>2. calls = <<x>> /\ Len(calls) = 1 /\ DOMAIN calls = {1} /\ calls[1] = x
  BY <1>1 DEF Init
<1>3. TypeOK
  <2>1. Values \subseteq Int /\ 0 \in 0 .. MaxR
    BY DataAssumption
  <2>2. reg \in [Phys -> Int] /\ dtop \in Int
    BY <2>1 DEF Init
  <2>3. rmem \in [0 .. MaxR -> Int]
    BY DEF Init
  <2>4. calls \in Seq(Activations) /\ calls # <<>>
    BY <1>2
  <2>5. QED
    BY <2>1, <2>2, <2>3, <2>4 DEF Init, TypeOK, Activations, ReturnAddress, NoLocals
<1>4. ~InC /\ rsp = 0 /\ locl = 0 /\ rtop = ReturnAddress(0) /\ Frames = {}
  BY <1>1, <1>2 DEF Init, InC, Frames, NoLocals
<1>5. Layout
  BY <1>1, <1>2, <1>4 DEF Layout, Top
<1>6. LoclIsInnermost
  BY <1>4 DEF LoclIsInnermost, Innermost, NoLocals
<1>7. ReturnAddressesKept
  BY <1>1, <1>2, <1>4 DEF ReturnAddressesKept, Cell
<1>8. QED
  BY <1>3, <1>5, <1>6, <1>7 DEF IInv

LEMMA NextStep == IInv /\ [Next]_vars => IInv'
<1> SUFFICES ASSUME IInv, [Next]_vars PROVE IInv'
  OBVIOUS
<1>1. CASE UNCHANGED vars
  <2>1. TypeOK'
    BY <1>1 DEF IInv, TypeOK, vars
  <2>2. QED
    BY <1>1, <2>1, StackUnchanged DEF IInv, vars, InC, CSaves
<1>2. CASE Next
  BY <1>2, ComputeStep, ToRStep, RFromStep, CallStep, ExitStep, LenterStep, LexitStep,
     FromLocalStep, ToLocalStep, CLocalsSaveStep, CCallStep, CLocalsLoadStep DEF Next
<1>3. QED
  BY <1>1, <1>2

-----------------------------------------------------------------------------
(* The theorems. *)

(* The areas of active words lie one above the other on the return stack,  *)
(* and with them the frames and the return addresses are where they were   *)
(* put, whatever a program does (local.S).                                 *)
THEOREM Inductive == Spec => []IInv
BY Initial, NextStep, PTL DEF Spec

(* Registers and stack hold cells, and no frame is read or written outside *)
(* of the return stack.                                                    *)
THEOREM TypeCorrect == Spec => []TypeOK
<1>1. IInv => TypeOK
  BY DEF IInv
<1>2. QED
  BY <1>1, Inductive, PTL

(* LOCL is the frame of the innermost word that has variables, for every   *)
(* number of register variables.                                           *)
THEOREM LoclIsInnermostHolds == Spec => []LoclIsInnermost
<1>1. IInv => LoclIsInnermost
  BY DEF IInv
<1>2. QED
  BY <1>1, Inductive, PTL

(* exit finds the return address of the word after (lexit), however many   *)
(* variables, frames and pushed data there were.                           *)
THEOREM ReturnAddressesKeptHolds == Spec => []ReturnAddressesKept
<1>1. IInv => ReturnAddressesKept
  BY DEF IInv
<1>2. QED
  BY <1>1, Inductive, PTL

-----------------------------------------------------------------------------
(* Where the variables of the active words are. *)

InRegister(a, j) == j < Ln /\ Holding(a, j) = {}
Home(a, j) == IF j >= Ln THEN calls[a].at - j ELSE Min(Holding(a, j)) - j

LEMMA VariableIs ==
    \A a, j : Variable(a, j) = IF j >= Ln \/ ~ (Holding(a, j) = {})
                               THEN rmem[Home(a, j)] ELSE reg[Reg[j]]
BY DEF Variable, Home

LEMMA MinOf ==
    ASSUME NEW T, T \subseteq Nat, T # {}
    PROVE  Min(T) \in T /\ \A y \in T : Min(T) <= y
<1>1. \E x \in T : \A y \in T : x <= y
  BY LeastNat
<1>2. QED
  BY <1>1 DEF Min

LEMMA MinIs ==
    ASSUME NEW T, T \subseteq Nat, NEW m \in T, \A y \in T : m <= y
    PROVE  Min(T) = m
<1>1. Min(T) \in T /\ \A y \in T : Min(T) <= y
  BY MinOf
<1>2. PICK x \in Nat : x = Min(T)
  BY <1>1
<1>3. x <= m /\ m <= x
  BY <1>1, <1>2
<1>4. QED
  BY <1>2, <1>3

(* a frame that holds a register of a word lies above what the word pushed *)
LEMMA HoldingFacts ==
    ASSUME TypeOK, Layout,
           NEW a \in DOMAIN calls, NEW j \in Nat, j < Ln
    PROVE  \A f \in Holding(a, j) :
               f \in Frames /\ f \in Nat /\ f <= rsp /\ Top(a) + j + 1 < f
<1> SUFFICES ASSUME NEW f \in Holding(a, j)
             PROVE  f \in Frames /\ f \in Nat /\ f <= rsp /\ Top(a) + j + 1 < f
  OBVIOUS
<1>1. PICK t \in Nat : t = Top(a) /\ t <= rsp
  BY Heights
<1>2. CASE InC /\ f = locl
  <2>1. PICK u \in Nat : u = Top(Len(calls)) /\ u + Ln + 1 <= rsp /\ rsp = locl
    BY <1>2, Heights, Words DEF Layout
  <2>2. t <= u
    BY <1>1, <2>1, Heights, Words, SMTT(30)
  <2>3. rsp \in Nat /\ Ln \in Nat
    BY Words
  <2>4. f \in Frames
    BY <1>2 DEF Frames
  <2>5. QED
    BY <1>1, <1>2, <2>1, <2>2, <2>3, <2>4
<1>3. CASE f \in {calls[b].at : b \in {c \in DOMAIN calls : c > a /\ calls[c].n > j}}
  <2>1. PICK b \in DOMAIN calls : b > a /\ calls[b].n > j /\ f = calls[b].at
    BY <1>3
  <2>2. PICK n \in Nat, base \in Nat : n = calls[b].n /\ base = calls[b].base /\ f \in Nat
    BY <2>1, Words
  <2>3. n # 0
    BY <2>1, <2>2
  <2>4. base + n + 1 <= f
    BY <2>1, <2>2, <2>3 DEF Layout
  <2>5. t < base
    BY <1>1, <2>1, <2>2, Words DEF Layout
  <2>6. f \in Frames
    BY <2>1, <2>2, <2>3 DEF Frames
  <2>7. f <= rsp
    BY <2>6, FramesBelow
  <2>8. t + j + 1 < f
    BY <2>1, <2>2, <2>4, <2>5
  <2>9. QED
    BY <1>1, <2>2, <2>6, <2>7, <2>8
<1>4. QED
  BY <1>2, <1>3 DEF Holding

(* the cell of a variable is on the stack, above the return address *)
LEMMA HomeFacts ==
    ASSUME TypeOK, Layout,
           NEW a \in DOMAIN calls, NEW j \in Nat, j < calls[a].n,
           j >= Ln \/ ~ (Holding(a, j) = {})
    PROVE  Home(a, j) \in Nat /\ calls[a].base + 1 < Home(a, j) /\ Home(a, j) <= rsp
<1>1. PICK n \in Nat, base \in Nat : n = calls[a].n /\ base = calls[a].base
  BY Words
<1>2. n # 0 /\ Ln \in Nat /\ rsp \in Nat
  BY <1>1, Words
<1>3. PICK at \in Nat : at = calls[a].at /\ at = Top(a) /\ at <= rsp
  BY <1>1, <1>2, Heights DEF Top
<1>4. base + n + 1 <= at
  BY <1>1, <1>2, <1>3 DEF Layout
<1>5. CASE j >= Ln
  BY <1>1, <1>2, <1>3, <1>4, <1>5 DEF Home
<1>6. CASE j < Ln
  <2>1. Holding(a, j) \subseteq Nat /\ Holding(a, j) # {}
    BY <1>2, <1>6, HoldingFacts
  <2>2. PICK f \in Holding(a, j) : f = Min(Holding(a, j))
    BY <2>1, MinOf
  <2>3. f \in Nat /\ f <= rsp /\ at + j + 1 < f
    BY <1>3, <1>6, HoldingFacts
  <2>4. Home(a, j) = f - j
    BY <1>2, <1>6, <2>2 DEF Home
  <2>5. QED
    BY <1>1, <1>2, <1>4, <2>3, <2>4
<1>7. QED
  BY <1>2, <1>5, <1>6

-----------------------------------------------------------------------------
(* Steps that leave every variable where it is. *)

(* a variable that stays where it is *)
LEMMA VariableStays ==
    ASSUME IInv, NEW a \in DOMAIN calls, NEW j \in Nat, j < calls[a].n,
           calls'[a] = calls[a], j < Ln => Holding(a, j)' = Holding(a, j),
           IF j >= Ln \/ ~ (Holding(a, j) = {})
           THEN rmem'[Home(a, j)] = rmem[Home(a, j)] ELSE reg'[Reg[j]] = reg[Reg[j]]
    PROVE  Variable(a, j)' = Variable(a, j)
<1>1. Ln \in Nat
  BY Words DEF IInv
<1>2. CASE j >= Ln
  BY <1>2 DEF Variable, Home
<1>3. CASE j < Ln
  <2>1. ~ (j >= Ln)
    BY <1>1, <1>3
  <2>2. QED
    BY <1>3, <2>1 DEF Variable, Home
<1>4. QED
  BY <1>1, <1>2, <1>3

(* words that keep their variables *)
LEMMA VariablesStay ==
    ASSUME IInv, calls' = calls,
           \A a \in DOMAIN calls, j \in Nat :
               j < calls[a].n => Variable(a, j)' = Variable(a, j)
    PROVE  Variables' = Variables
<1>1. Variables' = [a \in DOMAIN calls |-> [i \in 1 .. calls[a].n |-> Variable(a, i - 1)']]
  BY DEF Variables, Variable, Holding
<1>2. ASSUME NEW a \in DOMAIN calls, NEW i \in 1 .. calls[a].n
      PROVE  Variable(a, i - 1)' = Variable(a, i - 1)
  <2>1. PICK j \in Nat : j = i - 1 /\ j < calls[a].n
    BY Words DEF IInv
  <2>2. Variable(a, j)' = Variable(a, j)
    BY <2>1
  <2>3. QED
    BY <2>1, <2>2
<1>3. QED
  BY <1>1, <1>2 DEF Variables

LEMMA HasFrame ==
    ASSUME IInv, NEW a \in DOMAIN calls, calls[a].n # 0
    PROVE  calls[a].at \in Frames /\ calls[a].at # NoLocals /\ locl # NoLocals
<1>1. calls[a].at \in Frames
  BY DEF Frames
<1>2. PICK n \in Nat, base \in Nat, at \in Nat :
          n = calls[a].n /\ base = calls[a].base /\ at = calls[a].at
  BY Words DEF IInv
<1>3. base + n + 1 <= at
  BY <1>2 DEF IInv, Layout
<1>4. at <= locl /\ locl \in Nat
  BY <1>1, <1>2, Words DEF IInv, LoclIsInnermost, Innermost
<1>5. QED
  BY <1>1, <1>2, <1>3, <1>4 DEF NoLocals

LEMMA StackKept ==
    ASSUME IInv, calls' = calls, locl' = locl, InC' <=> InC,
           \A c \in Nat : c <= rsp => rmem'[c] = rmem[c],
           reg' = reg \/ ~InWord
    PROVE  Variables' = Variables
<1> SUFFICES ASSUME NEW a \in DOMAIN calls, NEW j \in Nat, j < calls[a].n
             PROVE  Variable(a, j)' = Variable(a, j)
  BY VariablesStay
<1>1. Holding(a, j)' = Holding(a, j)
  BY DEF Holding
<1>2. CASE j >= Ln \/ ~ (Holding(a, j) = {})
  <2>1. Home(a, j) \in Nat /\ Home(a, j) <= rsp
    BY <1>2, HomeFacts DEF IInv
  <2>2. rmem'[Home(a, j)] = rmem[Home(a, j)]
    BY <2>1
  <2>3. QED
    BY <1>1, <1>2, <2>2, VariableStays
<1>3. CASE ~ (j >= Ln) /\ Holding(a, j) = {}
  <2>1. ~InC /\ Ln > 0
    <3>1. Ln \in Nat
      BY Words DEF IInv
    <3>2. QED
      BY <1>3, <3>1 DEF Holding
  <2>2. locl # NoLocals
    <3>1. calls[a].n \in Nat /\ calls[a].n # 0
      BY Words DEF IInv
    <3>2. QED
      BY <3>1, HasFrame
  <2>3. InWord
    BY <2>1, <2>2 DEF InC, CSaves, InWord
  <2>4. QED
    BY <1>1, <1>3, <2>3, VariableStays
<1>4. QED
  BY <1>2, <1>3

LEMMA ToRKeeps == ASSUME IInv, ToR PROVE Variables' = Variables
<1>1. /\ rsp \in Nat /\ rsp < MaxR /\ MaxR \in Nat
      /\ rmem' = [rmem EXCEPT ![rsp + 1] = rtop] /\ rmem \in [0 .. MaxR -> Int]
      /\ calls' = calls /\ locl' = locl /\ phase' = phase /\ reg' = reg
  BY Words DEF IInv, TypeOK, ToR, Push
<1>2. \A c \in Nat : c <= rsp => rmem'[c] = rmem[c]
  BY <1>1
<1>3. QED
  BY <1>1, <1>2, StackKept DEF InC, CSaves

LEMMA CCallKeeps == ASSUME IInv, CCall PROVE Variables' = Variables
<1>1. ~InWord /\ calls' = calls /\ locl' = locl /\ rmem' = rmem /\ (InC' <=> InC)
  BY DEF CCall, InWord, InC, CSaves
<1>2. QED
  BY <1>1, StackKept

(* a variable that is stored to *)
LEMMA ToLocalStores ==
    ASSUME IInv, RegistersApart, NEW i \in Nat, i < Me.n, ToLocal(i),
           NEW a \in DOMAIN calls, NEW j \in Nat, j < calls[a].n
    PROVE  Variable(a, j)' = IF a = Len(calls) /\ j = i THEN dtop ELSE Variable(a, j)
<1>1. /\ TypeOK /\ Layout /\ ~InC /\ ~InC' /\ InWord
      /\ UNCHANGED <<rsp, rtop, locl, phase, calls>>
  BY DEF IInv, InC, InWord, ToLocal
<1>2. PICK N \in Nat \ {0} : N = Len(calls) /\ Me = calls[N] /\ DOMAIN calls = 1 .. N
  BY <1>1, Words
<1>3. PICK n \in Nat, base \in Nat, at \in Nat : n = Me.n /\ base = Me.base /\ at = locl
  BY <1>1, <1>2, Words, SMTT(30)
<1>4. Me.n # 0 /\ n # 0 /\ i < n
  BY <1>3
<1>5. /\ at = Me.at /\ base + n + 1 <= at /\ at \in Frames
      /\ \A f \in Frames : f = at \/ f < base
  BY <1>1, <1>3, <1>4, MyFrame
<1>6. Ln \in Nat /\ MaxR \in Nat /\ at \in 0 .. MaxR
  BY <1>1, <1>3, Words DEF TypeOK
<1>7. Holding(a, j)' = Holding(a, j)
  BY <1>1 DEF Holding
<1>8. a \in 1 .. N /\ (a = N => Holding(a, j) = {})
  BY <1>1, <1>2 DEF Holding
<1>9. /\ Variable(a, j) = IF j >= Ln \/ ~ (Holding(a, j) = {})
                          THEN rmem[Home(a, j)] ELSE reg[Reg[j]]
      /\ Variable(a, j)' = IF j >= Ln \/ ~ (Holding(a, j) = {})
                           THEN rmem'[Home(a, j)] ELSE reg'[Reg[j]]
  BY <1>1, <1>7 DEF Variable, Home
<1>10. ASSUME j >= Ln \/ ~ (Holding(a, j) = {})
       PROVE  /\ Home(a, j) \in 0 .. MaxR
              /\ i >= Ln => (Home(a, j) = at - i <=> a = N /\ j = i)
  <2>1. Home(a, j) \in Nat /\ Home(a, j) <= rsp /\ rsp \in Nat /\ rsp <= MaxR
    <3>1. Home(a, j) \in Nat /\ Home(a, j) <= rsp
      BY <1>1, <1>10, HomeFacts
    <3>2. QED
      BY <1>1, <1>6, <3>1 DEF TypeOK
  <2>2. base < at - i
    BY <1>4, <1>5
  <2>3. ASSUME i >= Ln
        PROVE  Home(a, j) = at - i <=> a = N /\ j = i
    <3>1. CASE a = N
      <4>1. j >= Ln /\ Home(a, j) = at - j
        BY <1>2, <1>5, <1>8, <1>10, <3>1 DEF Home
      <4>2. QED
        BY <3>1, <4>1
    <3>2. CASE a # N /\ j >= Ln
      <4>1. calls[a].at = Top(a) /\ Top(a) \in Nat /\ Top(a) < Me.base
        <5>1. calls[a].n # 0
          BY <1>1, Words
        <5>2. QED
          BY <1>1, <1>2, <3>2, <5>1, Heights DEF Top
      <4>2. Home(a, j) = calls[a].at - j
        BY <3>2 DEF Home
      <4>3. QED
        BY <1>3, <2>2, <3>2, <4>1, <4>2
    <3>3. CASE a # N /\ ~ (j >= Ln)
      <4>1. j < Ln
        BY <1>6, <3>3
      <4>2. \A f \in Holding(a, j) : f \in Nat /\ (f = at \/ f < base)
        BY <1>1, <1>5, <4>1, HoldingFacts
      <4>3. Holding(a, j) \subseteq Nat /\ Holding(a, j) # {}
        BY <1>10, <3>3, <4>2
      <4>4. PICK f \in Nat : f = Min(Holding(a, j)) /\ (f = at \/ f < base)
        BY <4>2, <4>3, MinOf
      <4>5. Home(a, j) = f - j
        BY <3>3, <4>4 DEF Home
      <4>6. QED
        BY <1>6, <2>2, <2>3, <3>3, <4>1, <4>4, <4>5
    <3>4. QED
      BY <3>1, <3>2, <3>3
  <2>4. Home(a, j) \in 0 .. MaxR
    BY <1>6, <2>1
  <2>5. QED
    BY <2>3, <2>4
<1>11. CASE i < Ln
  <2>1. reg' = [reg EXCEPT ![Reg[i]] = dtop] /\ rmem' = rmem
    BY <1>11 DEF ToLocal
  <2>2. CASE j >= Ln \/ ~ (Holding(a, j) = {})
    <3>1. ~ (a = N /\ j = i)
      BY <1>6, <1>8, <1>11, <2>2
    <3>2. QED
      BY <1>2, <1>9, <2>1, <2>2, <3>1
  <2>3. CASE ~ (j >= Ln) /\ Holding(a, j) = {}
    <3>1. j \in 0 .. Ln - 1 /\ i \in 0 .. Ln - 1
      BY <1>6, <1>11, <2>3
    <3>2. Reg[i] \in Phys /\ reg \in [Phys -> Int] /\ (Reg[i] = Reg[j] => i = j)
      BY <1>1, <3>1, RegAssumption DEF TypeOK, RegistersApart
    <3>3. reg'[Reg[j]] = IF j = i THEN dtop ELSE reg[Reg[j]]
      <4>1. Reg[j] \in Phys
        BY <3>1, RegAssumption
      <4>2. QED
        BY <2>1, <3>2, <4>1
    <3>4. j = i => a = N
      <4> SUFFICES ASSUME j = i, a # N
                   PROVE  Holding(a, j) # {}
        BY <2>3
      <4>1. N \in DOMAIN calls /\ N > a /\ calls[N].n > j
        BY <1>2, <1>3, <1>4, <1>8
      <4>2. QED
        BY <4>1 DEF Holding
    <3>5. QED
      BY <1>2, <1>9, <2>3, <3>3, <3>4
  <2>4. QED
    BY <2>2, <2>3
<1>12. CASE ~ (i < Ln)
  <2>1. rmem' = [rmem EXCEPT ![at - i] = dtop] /\ reg' = reg /\ i >= Ln
    BY <1>3, <1>6, <1>12 DEF ToLocal
  <2>2. rmem \in [0 .. MaxR -> Int]
    BY <1>1 DEF TypeOK
  <2>3. CASE j >= Ln \/ ~ (Holding(a, j) = {})
    <3>1. rmem'[Home(a, j)] = IF a = N /\ j = i THEN dtop ELSE rmem[Home(a, j)]
      <4>1. Home(a, j) \in 0 .. MaxR /\ (Home(a, j) = at - i <=> a = N /\ j = i)
        BY <1>10, <2>1, <2>3
      <4>2. QED
        BY <2>1, <2>2, <4>1
    <3>2. QED
      BY <1>2, <1>9, <2>3, <3>1
  <2>4. CASE ~ (j >= Ln) /\ Holding(a, j) = {}
    <3>1. j # i
      BY <2>1, <2>4
    <3>2. QED
      BY <1>2, <1>9, <2>1, <2>4, <3>1
  <2>5. QED
    BY <2>3, <2>4
<1>13. QED
  BY <1>11, <1>12

-----------------------------------------------------------------------------
(* A frame saves the registers of the words below it. *)

LEMMA FramePushed ==
    ASSUME IInv, NEW n \in Nat \ {0}, PushFrame(n), reg' = reg, locl # NoLocals,
           NEW a \in DOMAIN calls, NEW j \in Nat, j < calls[a].n, calls'[a] = calls[a],
           j < Ln => Holding(a, j)' =
               Holding(a, j) \cup (IF j < n THEN {rsp + n + 1} ELSE {})
    PROVE  Variable(a, j)' = Variable(a, j)
<1>1. TypeOK /\ Layout
  BY DEF IInv
<1>2. rsp \in Nat /\ Ln \in Nat /\ MaxR \in Nat /\ rsp + n + 1 <= MaxR
  BY <1>1, Words DEF PushFrame
<1>3. PICK k \in Nat : k = Spilled(n, locl)
  BY SpilledFacts
<1>4. k = Lesser(n, Ln)
  BY <1>3 DEF Spilled
<1>5. PICK at \in Nat : at = rsp + n + 1
  BY <1>2
<1>6. /\ rmem' = [c \in DOMAIN rmem |->
                      IF c = rsp + 1 THEN rtop
                      ELSE IF c \in at - k + 1 .. at THEN reg[Reg[at - c]]
                      ELSE rmem[c]]
      /\ DOMAIN rmem = 0 .. MaxR
  BY <1>1, <1>3, <1>5 DEF PushFrame, SpillRegs, TypeOK
<1>7. \A c \in Nat : c <= rsp => rmem'[c] = rmem[c]
  <2> SUFFICES ASSUME NEW c \in Nat, c <= rsp
               PROVE  rmem'[c] = rmem[c]
    OBVIOUS
  <2>1. c \in 0 .. MaxR /\ c # rsp + 1
    BY <1>2
  <2>2. c \notin at - k + 1 .. at
    BY <1>2, <1>4, <1>5 DEF Lesser
  <2>3. QED
    BY <1>6, <2>1, <2>2
<1>8. CASE j >= Ln
  <2>1. Home(a, j) \in Nat /\ Home(a, j) <= rsp
    BY <1>1, <1>8, HomeFacts
  <2>2. QED
    BY <1>2, <1>7, <1>8, <2>1, VariableStays
<1>9. ASSUME j < Ln, Holding(a, j) # {}
      PROVE  Variable(a, j)' = Variable(a, j)
  <2>1. Home(a, j) \in Nat /\ Home(a, j) <= rsp
    BY <1>1, <1>9, HomeFacts
  <2>2. \A f \in Holding(a, j) : f \in Nat /\ f < at
    BY <1>1, <1>2, <1>5, <1>9, HoldingFacts
  <2>3. PICK m \in Holding(a, j) : m = Min(Holding(a, j)) /\ \A f \in Holding(a, j) : m <= f
    <3>1. Holding(a, j) \subseteq Nat
      BY <2>2
    <3>2. QED
      BY <1>9, <3>1, MinOf
  <2>4. Min(Holding(a, j)') = m /\ Holding(a, j)' # {}
    <3>1. PICK T : T = Holding(a, j)'
      OBVIOUS
    <3>2. T \subseteq Nat /\ m \in T /\ \A f \in T : m <= f
      BY <1>5, <1>9, <2>2, <2>3, <3>1
    <3>3. Min(T) = m
      BY <3>2, MinIs
    <3>4. QED
      BY <3>1, <3>2, <3>3
  <2>5. ~ (j >= Ln)
    BY <1>2, <1>9
  <2>6. Variable(a, j) = rmem[m - j] /\ Home(a, j) = m - j
    BY <1>9, <2>3, <2>5 DEF Variable, Home
  <2>7. Variable(a, j)' = rmem'[m - j]
    BY <2>4, <2>5 DEF Variable
  <2>8. QED
    BY <1>7, <2>1, <2>6, <2>7
<1>10. ASSUME j < Ln, Holding(a, j) = {}, j < n
       PROVE  Variable(a, j)' = Variable(a, j)
  <2>1. PICK T : T = Holding(a, j)'
    OBVIOUS
  <2>2. T = {at}
    BY <1>5, <1>10, <2>1
  <2>3. Min(T) = at
    BY <2>2, MinIs
  <2>4. ~ (j >= Ln)
    BY <1>2, <1>10
  <2>5. Variable(a, j)' = rmem'[at - j]
    BY <2>1, <2>2, <2>3, <2>4 DEF Variable
  <2>6. PICK c \in Nat : c = at - j
    BY <1>2, <1>5, <1>10
  <2>7. /\ c # rsp + 1 /\ c \in 0 .. MaxR /\ at - c = j
        /\ c \in at - k + 1 .. at
    BY <1>2, <1>4, <1>5, <1>10, <2>6 DEF Lesser
  <2>8. rmem'[c] = reg[Reg[at - c]]
    BY <1>6, <2>7
  <2>9. QED
    BY <1>10, <2>4, <2>5, <2>6, <2>7, <2>8 DEF Variable
<1>11. ASSUME j < Ln, Holding(a, j) = {}, ~ (j < n)
       PROVE  Variable(a, j)' = Variable(a, j)
  <2>1. ~ (j >= Ln)
    BY <1>2, <1>11
  <2>2. QED
    BY <1>11, <2>1, VariableStays
<1>12. QED
  BY <1>2, <1>8, <1>9, <1>10, <1>11

(* what is reloaded from the frame `at' *)
LEMMA ReloadRegsFacts ==
    ASSUME TypeOK, RegistersApart, NEW at \in Nat, NEW k \in Nat, k <= Ln,
           NEW j \in Nat, j < Ln
    PROVE  ReloadRegs(at, k)[Reg[j]] = IF j < k THEN rmem[at - j] ELSE reg[Reg[j]]
<1>1. Ln \in Nat /\ j \in 0 .. Ln - 1
  BY Words
<1>2. Reg[j] \in Phys
  BY <1>1, RegAssumption
<1> DEFINE First(i) == Reg[i] = Reg[j] /\ \A h \in 0 .. i - 1 : Reg[h] # Reg[j]
<1>3. ReloadRegs(at, k)[Reg[j]] =
          IF \E i \in 0 .. k - 1 : Reg[i] = Reg[j]
          THEN rmem[at - (CHOOSE i \in 0 .. k - 1 : First(i))] ELSE reg[Reg[j]]
  BY <1>2 DEF ReloadRegs
<1>4. \A i \in Nat : i < Ln /\ Reg[i] = Reg[j] => i = j
  <2>1. \A i \in Nat : i < Ln => i \in 0 .. Ln - 1
    BY <1>1
  <2>2. QED
    BY <1>1, <2>1 DEF RegistersApart
<1>5. \A i \in 0 .. k - 1 : i \in Nat /\ i < Ln
  BY <1>1
<1>6. CASE j < k
  <2>1. j \in 0 .. k - 1
    BY <1>6
  <2>2. First(j)
    <3> SUFFICES ASSUME NEW h \in 0 .. j - 1
                 PROVE  Reg[h] # Reg[j]
      OBVIOUS
    <3>1. h \in Nat /\ h < Ln /\ h # j
      BY <1>1
    <3>2. QED
      BY <1>4, <3>1
  <2>3. \A i \in 0 .. k - 1 : First(i) => i = j
    BY <1>4, <1>5
  <2>4. (CHOOSE i \in 0 .. k - 1 : First(i)) = j
    <3> HIDE DEF First
    <3>1. QED
      BY <2>1, <2>2, <2>3
  <2>5. \E i \in 0 .. k - 1 : Reg[i] = Reg[j]
    BY <2>1
  <2>6. QED
    BY <1>3, <1>6, <2>4, <2>5
<1>7. CASE ~ (j < k)
  <2>1. \A i \in 0 .. k - 1 : Reg[i] # Reg[j]
    BY <1>4, <1>5, <1>7
  <2>2. QED
    BY <1>3, <1>7, <2>1
<1>8. QED
  BY <1>6, <1>7

LEMMA FramePopped ==
    ASSUME IInv, RegistersApart, NEW n \in Nat \ {0}, NEW k \in Nat,
           PopFrame(n, k, locl), k = Lesser(n, Ln),
           NEW a \in DOMAIN calls, NEW j \in Nat, j < calls[a].n, calls'[a] = calls[a],
           \A f \in Holding(a, j)' : f < locl,
           j < Ln => Holding(a, j) =
               Holding(a, j)' \cup (IF j < n THEN {locl} ELSE {})
    PROVE  Variable(a, j)' = Variable(a, j)
<1>1. TypeOK /\ Layout
  BY DEF IInv
<1>2. Ln \in Nat /\ locl \in Nat /\ k <= Ln /\ (j < k <=> j < n /\ j < Ln)
  BY <1>1, Words DEF Lesser
<1>3. reg' = ReloadRegs(locl, k) /\ rmem' = rmem
  BY DEF PopFrame
<1>4. CASE j >= Ln
  BY <1>2, <1>3, <1>4, VariableStays
<1>5. ASSUME j < Ln
      PROVE  Variable(a, j)' = Variable(a, j)
  <2>1. ~ (j >= Ln)
    BY <1>2, <1>5
  <2>2. PICK T : T = Holding(a, j)'
    OBVIOUS
  <2>3. \A f \in Holding(a, j) : f \in Nat
    BY <1>1, <1>5, HoldingFacts
  <2>4. CASE T # {}
    <3>1. T \subseteq Nat
      BY <1>5, <2>2, <2>3
    <3>2. PICK m \in T : m = Min(T) /\ \A f \in T : m <= f
      BY <2>4, <3>1, MinOf
    <3>3. Holding(a, j) \subseteq Nat /\ m \in Holding(a, j)
      BY <1>5, <2>2, <2>3
    <3>4. \A f \in Holding(a, j) : m <= f
      <4>1. m < locl /\ m \in Nat
        BY <2>2, <3>1
      <4>2. m <= locl
        BY <1>2, <4>1
      <4>3. QED
        BY <1>5, <2>2, <3>2, <4>2
    <3>5. Min(Holding(a, j)) = m
      BY <3>3, <3>4, MinIs
    <3>6. QED
      BY <1>3, <2>1, <2>2, <2>4, <3>2, <3>3, <3>5 DEF Variable
  <2>5. CASE T = {} /\ j < n
    <3>1. Holding(a, j) = {locl}
      BY <1>5, <2>2, <2>5
    <3>2. Min(Holding(a, j)) = locl
      BY <1>2, <3>1, MinIs
    <3>3. Variable(a, j) = rmem[locl - j]
      BY <2>1, <3>1, <3>2 DEF Variable
    <3>4. Variable(a, j)' = reg'[Reg[j]]
      BY <2>1, <2>2, <2>5 DEF Variable
    <3>5. QED
      BY <1>1, <1>2, <1>3, <1>5, <2>5, <3>3, <3>4, ReloadRegsFacts
  <2>6. CASE T = {} /\ ~ (j < n)
    <3>1. reg'[Reg[j]] = reg[Reg[j]]
      BY <1>1, <1>2, <1>3, <1>5, <2>6, ReloadRegsFacts
    <3>2. Holding(a, j) = {} /\ Holding(a, j)' = {}
      BY <1>5, <2>2, <2>6
    <3>3. QED
      BY <2>1, <3>1, <3>2, VariableStays
  <2>7. QED
    BY <2>4, <2>5, <2>6
<1>6. QED
  BY <1>2, <1>4, <1>5

-----------------------------------------------------------------------------
(* Every step is a step of LocalVars. *)

(* the sequence of the variables of all words *)
VariablesOfWords ==
    /\ Variables = [a \in DOMAIN calls |-> Variables[a]]
    /\ DOMAIN Variables = 1 .. Len(calls) /\ DOMAIN calls = 1 .. Len(calls)
    /\ Len(calls) \in Nat \ {0}
    /\ \A a \in DOMAIN calls :
           /\ Variables[a] = [i \in 1 .. calls[a].n |-> Variables[a][i]]
           /\ DOMAIN Variables[a] = 1 .. calls[a].n
           /\ \A j \in Nat : j < calls[a].n => Variables[a][j + 1] = Variable(a, j)

LEMMA VariablesFacts == IInv => VariablesOfWords
<1> SUFFICES ASSUME IInv
             PROVE  VariablesOfWords
  OBVIOUS
<1>1. /\ DOMAIN calls = 1 .. Len(calls) /\ Len(calls) \in Nat \ {0}
      /\ \A a \in DOMAIN calls : calls[a].n \in Nat
  BY Words DEF IInv
<1>2. ASSUME NEW a \in DOMAIN calls
      PROVE  /\ Variables[a] = [i \in 1 .. calls[a].n |-> Variables[a][i]]
             /\ DOMAIN Variables[a] = 1 .. calls[a].n
             /\ \A j \in Nat : j < calls[a].n => Variables[a][j + 1] = Variable(a, j)
  <2>1. Variables[a] = [i \in 1 .. calls[a].n |-> Variable(a, i - 1)]
    BY DEF Variables
  <2>2. \A j \in Nat : j < calls[a].n => j + 1 \in 1 .. calls[a].n /\ (j + 1) - 1 = j
    BY <1>1
  <2>3. \A j \in Nat : j < calls[a].n => Variables[a][j + 1] = Variable(a, j)
    BY <2>1, <2>2
  <2>4. QED
    BY <2>1, <2>3
<1>3. QED
  BY <1>1, <1>2 DEF VariablesOfWords, Variables

LEMMA VariablesFactsNext == IInv' => VariablesOfWords'
BY VariablesFacts, PTL

(* two sequences of variables, one after the other *)
LEMMA VariablesSeqs ==
    ASSUME IInv, IInv'
    PROVE  \E S : /\ Variables \in Seq(S) /\ Variables' \in Seq(S)
                  /\ Len(Variables) = Len(calls) /\ Len(Variables') = Len(calls')
                  /\ Variables # <<>> /\ Variables' # <<>> /\ <<>> \in S
<1>1. PICK N \in Nat \ {0} : N = Len(calls)
  BY Words DEF IInv
<1>2. PICK M \in Nat \ {0} : M = Len(calls')
  BY VariablesFactsNext DEF VariablesOfWords
<1>3. PICK f : f = Variables /\ f = [a \in 1 .. N |-> f[a]]
  BY <1>1, VariablesFacts DEF VariablesOfWords
<1>4. PICK g : g = Variables' /\ g = [a \in 1 .. M |-> g[a]]
  BY <1>2, VariablesFactsNext DEF VariablesOfWords
<1> DEFINE S == {f[a] : a \in 1 .. N} \cup {g[a] : a \in 1 .. M} \cup {<<>>}
<1>5. f \in [1 .. N -> S] /\ g \in [1 .. M -> S]
  BY <1>3, <1>4
<1>6. <<>> \in S
  OBVIOUS
<1> HIDE DEF S
<1>7. /\ f \in Seq(S) /\ Len(f) = N /\ f # <<>>
      /\ g \in Seq(S) /\ Len(g) = M /\ g # <<>>
  BY <1>5
<1>8. QED
  BY <1>1, <1>2, <1>3, <1>4, <1>6, <1>7

LEMMA SameVariables ==
    ASSUME IInv, IInv', NEW a \in DOMAIN calls, calls'[a] = calls[a], a \in DOMAIN calls',
           \A j \in Nat : j < calls[a].n => Variable(a, j)' = Variable(a, j)
    PROVE  Variables'[a] = Variables[a]
<1>1. VariablesOfWords /\ VariablesOfWords'
  BY VariablesFacts, VariablesFactsNext
<1>2. PICK n \in Nat : n = calls[a].n
  BY Words DEF IInv
<1>3. /\ Variables[a] = [i \in 1 .. n |-> Variables[a][i]]
      /\ \A j \in Nat : j < n => Variables[a][j + 1] = Variable(a, j)
  BY <1>1, <1>2 DEF VariablesOfWords
<1>4. /\ Variables'[a] = [i \in 1 .. n |-> Variables'[a][i]]
      /\ \A j \in Nat : j < n => Variables'[a][j + 1] = Variable(a, j)'
  BY <1>1, <1>2 DEF VariablesOfWords
<1>5. ASSUME NEW i \in 1 .. n
      PROVE  Variables'[a][i] = Variables[a][i]
  <2>1. PICK j \in Nat : j < n /\ i = j + 1
    BY <1>2
  <2>2. QED
    BY <1>2, <1>3, <1>4, <2>1
<1>6. QED
  BY <1>3, <1>4, <1>5

LEMMA EndsOfVars == \A s : Vars!Last(s) = Last(s) /\ Vars!Front(s) = Front(s)
BY DEF Vars!Last, Last, Vars!Front, Front

LEMMA CallRefines == ASSUME IInv, IInv', Call PROVE Vars!LCall
<1>1. /\ TypeOK /\ Layout /\ ~InC /\ ~InC' /\ dtop' = dtop
      /\ rsp \in Nat /\ rsp < MaxR /\ MaxR \in Nat
      /\ rmem' = [rmem EXCEPT ![rsp + 1] = rtop] /\ rmem \in [0 .. MaxR -> Int]
      /\ calls' = Append(calls, Activation(0, 0, rsp'))
      /\ UNCHANGED <<reg, locl>>
  BY Words DEF IInv, TypeOK, InC, InWord, Call, Push
<1>2. PICK N \in Nat \ {0} : N = Len(calls)
  BY <1>1, Words
<1>3. rsp' \in 0 .. MaxR
  BY <1>1 DEF Call, Push
<1>4. PICK x \in Activations : x = Activation(0, 0, rsp') /\ x.n = 0
  BY <1>1, <1>3, ActivationFacts
<1>5. /\ DOMAIN calls = 1 .. N /\ DOMAIN calls' = 1 .. N + 1 /\ Len(calls') = N + 1
      /\ calls'[N + 1] = x /\ \A a \in 1 .. N : calls'[a] = calls[a]
  BY <1>1, <1>2, <1>4, Words, AppendFacts
<1>6. \A c \in Nat : c <= rsp => rmem'[c] = rmem[c]
  BY <1>1
<1>7. ASSUME NEW a \in 1 .. N
      PROVE  Variables'[a] = Variables[a]
  <2>1. ASSUME NEW j \in Nat, j < calls[a].n
        PROVE  Variable(a, j)' = Variable(a, j)
    <3>1. {c \in DOMAIN calls' : c > a /\ calls'[c].n > j}
          = {c \in DOMAIN calls : c > a /\ calls[c].n > j}
      BY <1>4, <1>5
    <3>2. Holding(a, j)' = Holding(a, j)
      BY <1>1, <1>5, <3>1 DEF Holding
    <3>3. CASE j >= Ln \/ ~ (Holding(a, j) = {})
      <4>1. Home(a, j) \in Nat /\ Home(a, j) <= rsp
        BY <1>1, <1>5, <2>1, <3>3, HomeFacts
      <4>2. QED
        BY <1>5, <1>6, <2>1, <3>2, <3>3, <4>1, VariableStays
    <3>4. CASE ~ (j >= Ln) /\ Holding(a, j) = {}
      BY <1>1, <1>5, <2>1, <3>2, <3>4, VariableStays
    <3>5. QED
      BY <3>3, <3>4
  <2>2. a \in DOMAIN calls /\ a \in DOMAIN calls' /\ calls'[a] = calls[a]
    BY <1>5
  <2>3. QED
    BY <2>1, <2>2, SameVariables
<1>8. Variables'[N + 1] = <<>>
  <2>1. N + 1 \in DOMAIN calls'
    BY <1>5
  <2>2. Variables'[N + 1] = [i \in 1 .. calls'[N + 1].n |-> Variables'[N + 1][i]]
    BY <2>1, VariablesFactsNext DEF VariablesOfWords
  <2>3. 1 .. calls'[N + 1].n = {}
    BY <1>4, <1>5
  <2>4. QED
    BY <2>2, <2>3
<1>9. PICK S : /\ Variables \in Seq(S) /\ Variables' \in Seq(S) /\ <<>> \in S
               /\ Len(Variables) = N /\ Len(Variables') = N + 1
  BY <1>2, <1>5, VariablesSeqs
<1>10. PICK g : g = Append(Variables, <<>>)
  OBVIOUS
<1>11. /\ g \in Seq(S) /\ Len(g) = N + 1 /\ g[N + 1] = <<>>
       /\ \A a \in 1 .. N : g[a] = Variables[a]
  BY <1>9, <1>10, AppendFacts
<1>12. \A a \in 1 .. N + 1 : Variables'[a] = g[a]
  BY <1>2, <1>7, <1>8, <1>11
<1>13. Variables' = g
  BY <1>9, <1>11, <1>12, SeqEqual
<1>14. QED
  BY <1>1, <1>10, <1>13 DEF Vars!LCall, Vars!NoVars

LEMMA ExitRefines == ASSUME IInv, IInv', Exit PROVE Vars!LReturn
<1>1. /\ TypeOK /\ Layout /\ ~InC /\ ~InC' /\ dtop' = dtop
      /\ Len(calls) > 1 /\ Me.n = 0 /\ calls' = Front(calls)
      /\ UNCHANGED <<reg, rmem, locl>>
  BY DEF IInv, InC, InWord, Exit, Pop
<1>2. PICK N \in Nat \ {0} : N = Len(calls) /\ Me = calls[N] /\ N > 1
  BY <1>1, Words
<1>3. /\ DOMAIN calls = 1 .. N /\ DOMAIN calls' = 1 .. N - 1 /\ Len(calls') = N - 1
      /\ \A a \in 1 .. N - 1 : calls'[a] = calls[a]
  <2>1. calls \in Seq(Activations) /\ calls # <<>>
    BY <1>1, Words
  <2>2. QED
    BY <1>1, <1>2, <2>1, FrontFacts
<1>4. ASSUME NEW a \in 1 .. N - 1
      PROVE  Variables'[a] = Variables[a]
  <2>1. ASSUME NEW j \in Nat, j < calls[a].n
        PROVE  Variable(a, j)' = Variable(a, j)
    <3>1. {c \in DOMAIN calls' : c > a /\ calls'[c].n > j}
          = {c \in DOMAIN calls : c > a /\ calls[c].n > j}
      BY <1>1, <1>2, <1>3
    <3>2. Holding(a, j)' = Holding(a, j)
      BY <1>1, <1>3, <3>1 DEF Holding
    <3>3. a \in DOMAIN calls
      BY <1>3
    <3>4. QED
      BY <1>1, <1>3, <2>1, <3>2, <3>3, VariableStays
  <2>2. a \in DOMAIN calls /\ a \in DOMAIN calls' /\ calls'[a] = calls[a]
    BY <1>3
  <2>3. QED
    BY <2>1, <2>2, SameVariables
<1>5. PICK S : /\ Variables \in Seq(S) /\ Variables' \in Seq(S)
               /\ Variables # <<>> /\ Len(Variables) = N /\ Len(Variables') = N - 1
  BY <1>2, <1>3, VariablesSeqs
<1>6. PICK g : g = Front(Variables)
  OBVIOUS
<1>7. /\ g \in Seq(S) /\ Len(g) = N - 1 /\ Last(Variables) = Variables[N]
      /\ \A a \in 1 .. N - 1 : g[a] = Variables[a]
  BY <1>5, <1>6, FrontFacts
<1>8. \A a \in 1 .. N - 1 : Variables'[a] = g[a]
  BY <1>4, <1>7
<1>9. Variables' = g
  BY <1>5, <1>7, <1>8, SeqEqual
<1>10. Variables[N] = <<>>
  <2>1. N \in DOMAIN calls
    BY <1>2, <1>3
  <2>2. Variables[N] = [i \in 1 .. calls[N].n |-> Variables[N][i]]
    BY <2>1, VariablesFacts DEF VariablesOfWords
  <2>3. 1 .. calls[N].n = {}
    BY <1>1, <1>2
  <2>4. QED
    BY <2>2, <2>3
<1>11. QED
  BY <1>1, <1>2, <1>5, <1>6, <1>7, <1>9, <1>10, EndsOfVars
     DEF Vars!LReturn, Vars!Own, Vars!NoVars

(* a step that changes the variables of the running word only *)
LEMMA MineReplaced ==
    ASSUME IInv, IInv', Len(calls') = Len(calls), DOMAIN calls' = DOMAIN calls,
           \A a \in DOMAIN calls : a # Len(calls) => calls'[a] = calls[a],
           \A a \in DOMAIN calls, j \in Nat :
               a # Len(calls) /\ j < calls[a].n => Variable(a, j)' = Variable(a, j)
    PROVE  /\ Len(Variables') = Len(Variables)
           /\ Front(Variables') = Front(Variables)
           /\ Last(Variables) = Variables[Len(calls)]
           /\ Last(Variables') = Variables'[Len(calls)]
           /\ \A v : Last(Variables') = v => Variables' = Append(Front(Variables), v)
<1>1. PICK N \in Nat \ {0} : N = Len(calls) /\ DOMAIN calls = 1 .. N
  BY Words DEF IInv
<1>2. PICK S : /\ Variables \in Seq(S) /\ Variables' \in Seq(S)
               /\ Len(Variables) = N /\ Len(Variables') = N
               /\ Variables # <<>> /\ Variables' # <<>>
  BY <1>1, VariablesSeqs
<1>3. ASSUME NEW a \in 1 .. N - 1
      PROVE  Variables'[a] = Variables[a]
  <2>1. a \in DOMAIN calls /\ a # Len(calls)
    <3>1. a \in 1 .. N /\ a # N
      OBVIOUS
    <3>2. QED
      BY <1>1, <3>1
  <2>2. calls'[a] = calls[a] /\ a \in DOMAIN calls'
    BY <2>1
  <2>3. \A j \in Nat : j < calls[a].n => Variable(a, j)' = Variable(a, j)
    BY <2>1
  <2>4. QED
    BY <2>1, <2>2, <2>3, SameVariables
<1>4. PICK f, g : f = Front(Variables) /\ g = Front(Variables')
  OBVIOUS
<1>5. /\ f \in Seq(S) /\ Len(f) = N - 1 /\ Last(Variables) = Variables[N]
      /\ \A a \in 1 .. N - 1 : f[a] = Variables[a]
  BY <1>2, <1>4, FrontFacts
<1>6. /\ g \in Seq(S) /\ Len(g) = N - 1 /\ Last(Variables') = Variables'[N]
      /\ \A a \in 1 .. N - 1 : g[a] = Variables'[a]
  BY <1>2, <1>4, FrontFacts
<1>7. f = g
  <2>1. \A a \in 1 .. N - 1 : f[a] = g[a]
    BY <1>3, <1>5, <1>6
  <2>2. QED
    BY <1>5, <1>6, <2>1, SeqEqual
<1>8. ASSUME NEW v, Last(Variables') = v
      PROVE  Variables' = Append(f, v)
  <2>1. Variables'[N] = v /\ v \in S
    <3>1. Variables'[N] = v /\ N \in 1 .. Len(Variables')
      BY <1>2, <1>6, <1>8
    <3>2. QED
      BY <1>2, <3>1, ElementOfSeq
  <2>2. PICK h : h = Append(f, v)
    OBVIOUS
  <2>3. /\ h \in Seq(S) /\ Len(h) = N /\ h[N] = v
        /\ \A a \in 1 .. N - 1 : h[a] = f[a]
    <3>1. /\ h \in Seq(S) /\ Len(h) = Len(f) + 1 /\ h[Len(f) + 1] = v
          /\ \A a \in 1 .. Len(f) : h[a] = f[a]
      BY <1>5, <2>1, <2>2, AppendFacts
    <3>2. Len(f) + 1 = N
      BY <1>5
    <3>3. QED
      BY <1>5, <3>1, <3>2
  <2>4. \A a \in 1 .. N : Variables'[a] = h[a]
    <3> SUFFICES ASSUME NEW a \in 1 .. N
                 PROVE  Variables'[a] = h[a]
      OBVIOUS
    <3>1. CASE a = N
      BY <2>1, <2>3, <3>1
    <3>2. CASE a # N
      <4>1. a \in 1 .. N - 1
        BY <3>2
      <4>2. QED
        BY <1>3, <1>5, <2>3, <4>1
    <3>3. QED
      BY <3>1, <3>2
  <2>5. Variables' = h
    BY <1>2, <2>3, <2>4, SeqEqual
  <2>6. QED
    BY <2>2, <2>5
<1>9. QED
  BY <1>1, <1>2, <1>4, <1>5, <1>6, <1>7, <1>8

LEMMA LenterRefines ==
    ASSUME IInv, IInv', NEW n \in Sizes, Lenter(n)
    PROVE  Vars!LDeclare
<1>1. /\ TypeOK /\ Layout /\ ~InC /\ ~InC' /\ dtop' = dtop /\ reg' = reg
      /\ Me.n = 0 /\ PushFrame(n) /\ calls' = WithMe(Activation(n, rsp', Me.base))
  BY DEF IInv, InC, InWord, Lenter
<1>2. n \in Nat \ {0} /\ n \in {0} \cup Sizes /\ MaxR \in Nat /\ rsp \in Nat /\ Ln \in Nat
  BY <1>1, DataAssumption, Words
<1>3. PICK N \in Nat \ {0} : N = Len(calls) /\ Me = calls[N] /\ DOMAIN calls = 1 .. N
  BY <1>1, Words
<1>4. PICK at \in 0 .. MaxR : at = rsp + n + 1 /\ at = rsp'
  BY <1>2, <1>1 DEF PushFrame
<1>5. PICK x \in Activations : x = Activation(n, rsp', Me.base) /\ x.n = n /\ x.at = at
  <2>1. Me.base \in 0 .. MaxR
    <3>1. Me \in Activations
      BY <1>1, <1>3, Words
    <3>2. QED
      BY <3>1 DEF Activations
  <2>2. QED
    BY <1>2, <1>4, <2>1, ActivationFacts
<1>6. /\ Len(calls') = N /\ DOMAIN calls' = 1 .. N /\ calls'[N] = x
      /\ \A a \in 1 .. N - 1 : calls'[a] = calls[a]
  BY <1>1, <1>3, <1>5, Words, ReplaceLast DEF WithMe
<1>7. ASSUME NEW a \in DOMAIN calls, NEW j \in Nat, a # N, j < calls[a].n
      PROVE  Variable(a, j)' = Variable(a, j)
  <2>1. a \in 1 .. N - 1 /\ calls'[a] = calls[a]
    BY <1>3, <1>6, <1>7
  <2>2. locl # NoLocals
    <3>1. calls[a].n # 0
      BY <1>1, <1>7, Words
    <3>2. QED
      BY <1>7, <3>1, HasFrame
  <2>3. Holding(a, j)' = Holding(a, j) \cup (IF j < n THEN {at} ELSE {})
    <3>1. \A c \in DOMAIN calls : c # N => calls'[c] = calls[c]
      BY <1>3, <1>6
    <3>2. N > a /\ N \in DOMAIN calls /\ DOMAIN calls' = DOMAIN calls /\ ~ (0 > j)
      BY <1>3, <1>6, <2>1
    <3>3. {c \in DOMAIN calls' : c > a /\ calls'[c].n > j}
          = {c \in DOMAIN calls : c > a /\ calls[c].n > j} \cup (IF j < n THEN {N} ELSE {})
      BY <1>1, <1>2, <1>3, <1>5, <1>6, <3>1, <3>2
    <3>4. N \notin {c \in DOMAIN calls : c > a /\ calls[c].n > j}
      BY <1>1, <1>3, <3>2
    <3>5. QED
      BY <1>1, <1>5, <1>6, <3>1, <3>3, <3>4 DEF Holding
  <2>4. QED
    BY <1>1, <1>2, <1>4, <1>7, <2>1, <2>2, <2>3, FramePushed
<1>8. /\ Len(Variables') = Len(Variables) /\ Front(Variables') = Front(Variables)
      /\ Last(Variables) = Variables[N] /\ Last(Variables') = Variables'[N]
  BY <1>3, <1>6, <1>7, MineReplaced
<1>9. Variables[N] = <<>>
  <2>1. Variables[N] = [i \in 1 .. calls[N].n |-> Variables[N][i]]
    <3>1. N \in DOMAIN calls
      BY <1>3
    <3>2. QED
      BY <3>1, VariablesFacts DEF VariablesOfWords
  <2>2. 1 .. calls[N].n = {}
    BY <1>1, <1>3
  <2>3. QED
    BY <2>1, <2>2
<1>10. Variables'[N] # <<>>
  <2>1. DOMAIN Variables'[N] = 1 .. calls'[N].n
    BY <1>3, <1>6, VariablesFactsNext DEF VariablesOfWords
  <2>2. 1 \in DOMAIN Variables'[N]
    BY <1>2, <1>5, <1>6, <2>1
  <2>3. QED
    BY <2>2
<1>11. QED
  BY <1>1, <1>8, <1>9, <1>10, EndsOfVars DEF Vars!LDeclare, Vars!Own, Vars!NoVars

(* what the innermost frame links to is a frame of a word below it *)
LEMMA OuterFrame ==
    ASSUME IInv, rsp = locl, locl \in Frames,
           NEW a \in DOMAIN calls, calls[a].n # 0, calls[a].at < locl
    PROVE  rtop # NoLocals
<1>1. calls[a].at \in Frames /\ calls[a].at # NoLocals
  BY HasFrame
<1>2. Innermost(Cell(locl + 1), {g \in Frames : g < locl})
  BY DEF IInv, LoclIsInnermost
<1>3. Cell(locl + 1) = rtop
  BY DEF Cell
<1>4. calls[a].at <= rtop /\ rtop \in Frames
  BY <1>1, <1>2, <1>3 DEF Innermost
<1>5. calls[a].at \in Nat /\ rtop \in Nat
  BY <1>1, <1>4, FramesBelow DEF IInv
<1>6. QED
  BY <1>1, <1>4, <1>5 DEF NoLocals

LEMMA LexitRefines ==
    ASSUME IInv, IInv', RegistersApart, Lexit
    PROVE  Vars!LForget
<1>1. /\ TypeOK /\ Layout /\ ~InC /\ ~InC' /\ InWord /\ dtop' = dtop
      /\ Me.n # 0 /\ calls' = WithMe(Activation(0, 0, Me.base))
  BY DEF IInv, InC, InWord, Lexit
<1>2. PICK N \in Nat \ {0} : N = Len(calls) /\ Me = calls[N] /\ DOMAIN calls = 1 .. N
  BY <1>1, Words
<1>3. PICK n \in Nat, base \in Nat : n = Me.n /\ base = Me.base /\ Me.base \in 0 .. MaxR
  <2>1. Me \in Activations /\ Me.n \in Nat /\ Me.base \in Nat
    BY <1>1, <1>2, Words
  <2>2. QED
    BY <2>1 DEF Activations
<1>4. PICK at \in Nat : at = locl
  BY <1>1, Words
<1>5. /\ at = Me.at /\ at \in Frames /\ base + n + 1 <= at
      /\ \A f \in Frames : f = at \/ f < base
  BY <1>1, <1>3, <1>4, MyFrame
<1>6. rsp = locl /\ rsp \in Nat /\ Ln \in Nat
  <2>1. at <= rsp /\ rsp \in Nat
    BY <1>1, <1>5, Words, FramesBelow
  <2>2. ~ (rsp > at)
    BY <1>1, <1>5 DEF Lexit, Mine
  <2>3. QED
    BY <1>1, <1>4, <2>1, <2>2, Words
<1>7. PICK x \in Activations : x = Activation(0, 0, Me.base) /\ x.n = 0
  BY <1>3, DataAssumption, ActivationFacts
<1>8. /\ Len(calls') = N /\ DOMAIN calls' = 1 .. N /\ calls'[N] = x
      /\ \A a \in 1 .. N - 1 : calls'[a] = calls[a]
  BY <1>1, <1>2, <1>7, Words, ReplaceLast DEF WithMe
<1>9. ASSUME NEW a \in DOMAIN calls, NEW j \in Nat, a # N, j < calls[a].n
      PROVE  Variable(a, j)' = Variable(a, j)
  <2>1. a \in 1 .. N - 1 /\ calls'[a] = calls[a] /\ calls[a].n # 0
    BY <1>1, <1>2, <1>8, <1>9, Words
  <2>2. \A b \in DOMAIN calls : b # N /\ calls[b].n # 0 => calls[b].at < locl
    <3> SUFFICES ASSUME NEW b \in DOMAIN calls, b # N, calls[b].n # 0
                 PROVE  calls[b].at < locl
      OBVIOUS
    <3>1. calls[b].at = Top(b) /\ Top(b) < Me.base /\ Top(b) \in Nat
      BY <1>1, <1>2, Heights DEF Top
    <3>2. QED
      BY <1>3, <1>4, <1>5, <3>1
  <2>3. rtop # NoLocals
    BY <1>4, <1>5, <1>6, <1>9, <2>1, <2>2, OuterFrame
  <2>4. PopFrame(n, Lesser(n, Ln), locl)
    <3>1. Spilled(n, rtop) = Lesser(n, Ln)
      BY <2>3 DEF Spilled
    <3>2. QED
      BY <1>3, <1>6, <3>1 DEF Lexit
  <2>5. Lesser(n, Ln) \in Nat /\ n # 0
    BY <1>1, <1>3, <1>6 DEF Lesser
  <2>6. {c \in DOMAIN calls : c > a /\ calls[c].n > j}
        = {c \in DOMAIN calls' : c > a /\ calls'[c].n > j} \cup (IF j < n THEN {N} ELSE {})
    <3>1. N > a /\ N \in DOMAIN calls /\ DOMAIN calls' = DOMAIN calls /\ ~ (0 > j)
      BY <1>2, <1>8, <2>1
    <3>2. \A c \in DOMAIN calls : c # N => calls'[c] = calls[c]
      BY <1>2, <1>8
    <3>3. calls[N].n > j <=> j < n
      BY <1>2, <1>3
    <3>4. QED
      BY <1>7, <1>8, <3>1, <3>2, <3>3
  <2>7. Holding(a, j)' = {calls[b].at : b \in {c \in DOMAIN calls' : c > a /\ calls'[c].n > j}}
    <3>1. \A c \in DOMAIN calls' : calls'[c].n > j => calls'[c] = calls[c]
      <4>1. ~ (calls'[N].n > j)
        BY <1>7, <1>8
      <4>2. QED
        BY <1>8, <4>1
    <3>2. QED
      BY <1>1, <3>1 DEF Holding
  <2>8. Holding(a, j) = Holding(a, j)' \cup (IF j < n THEN {locl} ELSE {})
    <3>1. PICK P, Q : /\ P = {c \in DOMAIN calls : c > a /\ calls[c].n > j}
                      /\ Q = {c \in DOMAIN calls' : c > a /\ calls'[c].n > j}
      OBVIOUS
    <3>2. Holding(a, j) = {calls[b].at : b \in P}
      BY <1>1, <3>1 DEF Holding
    <3>3. Holding(a, j)' = {calls[b].at : b \in Q}
      BY <2>7, <3>1
    <3>4. P = Q \cup (IF j < n THEN {N} ELSE {})
      BY <2>6, <3>1
    <3>5. calls[N].at = locl
      BY <1>2, <1>4, <1>5
    <3>6. QED
      BY <3>2, <3>3, <3>4, <3>5
  <2>9. \A f \in Holding(a, j)' : f < locl
    <3>1. \A c \in DOMAIN calls' : calls'[c].n > j => c \in DOMAIN calls /\ c # N /\ calls[c].n # 0
      <4>1. ~ (calls'[N].n > j) /\ ~ (0 > j)
        BY <1>7, <1>8
      <4>2. \A c \in DOMAIN calls : c # N => calls'[c] = calls[c]
        BY <1>2, <1>8
      <4>3. QED
        BY <1>2, <1>8, <4>1, <4>2
    <3>2. QED
      BY <2>2, <2>7, <3>1
  <2>10. QED
    BY <1>9, <2>1, <2>4, <2>5, <2>8, <2>9, <1>3, FramePopped
<1>10. /\ Last(Variables) = Variables[N] /\ Last(Variables') = Variables'[N]
       /\ \A v : Last(Variables') = v => Variables' = Append(Front(Variables), v)
  <2>1. Len(calls') = Len(calls) /\ DOMAIN calls' = DOMAIN calls
    BY <1>2, <1>8
  <2>2. \A a \in DOMAIN calls : a # Len(calls) => calls'[a] = calls[a]
    BY <1>2, <1>8
  <2>3. QED
    BY <1>2, <1>9, <2>1, <2>2, MineReplaced
<1>11. Variables'[N] = <<>> /\ Variables[N] # <<>>
  <2>1. N \in DOMAIN calls /\ N \in DOMAIN calls'
    BY <1>2, <1>8
  <2>2. Variables'[N] = [i \in 1 .. calls'[N].n |-> Variables'[N][i]]
    BY <2>1, VariablesFactsNext DEF VariablesOfWords
  <2>3. 1 .. calls'[N].n = {}
    BY <1>7, <1>8
  <2>4. DOMAIN Variables[N] = 1 .. n
    BY <1>2, <1>3, <2>1, VariablesFacts DEF VariablesOfWords
  <2>5. 1 \in DOMAIN Variables[N]
    BY <1>1, <1>3, <2>4
  <2>6. QED
    BY <2>2, <2>3, <2>5
<1>12. QED
  BY <1>1, <1>10, <1>11, EndsOfVars
     DEF Vars!LForget, Vars!Own, Vars!NoVars, Vars!WithOwn

LEMMA FromLocalRefines ==
    ASSUME IInv, NEW i \in 0 .. Me.n - 1, FromLocal(i)
    PROVE  Vars!LFetch
<1>1. /\ TypeOK /\ InWord /\ ~InC /\ dtop' = Fetched(i)
      /\ UNCHANGED <<reg, rmem, rsp, rtop, locl, phase, calls>>
  BY DEF IInv, InC, InWord, FromLocal
<1>2. PICK N \in Nat \ {0} : N = Len(calls) /\ Me = calls[N] /\ DOMAIN calls = 1 .. N
  BY <1>1, Words
<1>3. PICK n \in Nat : n = Me.n
  BY <1>1, <1>2, Words
<1>4. i \in Nat /\ i < n /\ Me.n # 0 /\ Ln \in Nat
  BY <1>1, <1>3, Words
<1>5. Variables' = Variables
  BY <1>1 DEF Variables, Variable, Holding, InC, CSaves
<1>6. Variable(N, i) = Fetched(i)
  <2>1. locl = calls[N].at
    BY <1>1, <1>2, <1>4, MyFrame
  <2>2. Holding(N, i) = {}
    BY <1>1, <1>2 DEF Holding
  <2>3. i < Ln <=> ~ (i >= Ln)
    BY <1>4
  <2>4. QED
    BY <2>1, <2>2, <2>3 DEF Variable, Fetched
<1>7. Last(Variables) = Variables[N]
  BY <1>2, VariablesFacts DEF VariablesOfWords, Last
<1>8. Variables[N][i + 1] = dtop' /\ i + 1 \in DOMAIN Variables[N]
  <2>1. N \in DOMAIN calls /\ i + 1 \in 1 .. n
    BY <1>2, <1>3, <1>4
  <2>2. QED
    BY <1>1, <1>2, <1>3, <1>4, <1>6, <2>1, VariablesFacts DEF VariablesOfWords
<1>9. QED
  BY <1>5, <1>7, <1>8, EndsOfVars DEF Vars!LFetch, Vars!Own

LEMMA ToLocalRefines ==
    ASSUME IInv, IInv', RegistersApart, NEW i \in 0 .. Me.n - 1, ToLocal(i)
    PROVE  Vars!LStore
<1>1. TypeOK /\ calls' = calls
  BY DEF IInv, ToLocal
<1>2. PICK N \in Nat \ {0} : N = Len(calls) /\ Me = calls[N] /\ DOMAIN calls = 1 .. N
  BY <1>1, Words
<1>3. PICK n \in Nat : n = Me.n /\ n = calls[N].n
  BY <1>1, <1>2, Words
<1>4. i \in Nat /\ i < n
  BY <1>3
<1>5. \A a \in DOMAIN calls, j \in Nat : j < calls[a].n =>
          Variable(a, j)' = IF a = N /\ j = i THEN dtop ELSE Variable(a, j)
  BY <1>2, <1>3, <1>4, ToLocalStores
<1>6. /\ Last(Variables) = Variables[N] /\ Last(Variables') = Variables'[N]
      /\ \A v : Last(Variables') = v => Variables' = Append(Front(Variables), v)
  <2>1. \A a \in DOMAIN calls, j \in Nat :
            a # Len(calls) /\ j < calls[a].n => Variable(a, j)' = Variable(a, j)
    BY <1>2, <1>5
  <2>2. QED
    BY <1>1, <1>2, <2>1, MineReplaced
<1>7. PICK f : f = Variables[N]
  OBVIOUS
<1>8. N \in DOMAIN calls /\ N \in DOMAIN calls' /\ calls'[N].n = n
  BY <1>1, <1>2, <1>3
<1>9. /\ f = [k \in 1 .. n |-> f[k]] /\ DOMAIN f = 1 .. n
      /\ \A j \in Nat : j < n => f[j + 1] = Variable(N, j)
  BY <1>3, <1>7, <1>8, VariablesFacts DEF VariablesOfWords
<1>10. PICK g : g = Variables'[N]
  OBVIOUS
<1>11. /\ g = [k \in 1 .. n |-> g[k]] /\ DOMAIN g = 1 .. n
       /\ \A j \in Nat : j < n => g[j + 1] = Variable(N, j)'
  BY <1>8, <1>10, VariablesFactsNext DEF VariablesOfWords
<1>12. g = [f EXCEPT ![i + 1] = dtop]
  <2>1. ASSUME NEW k \in 1 .. n
        PROVE  g[k] = [f EXCEPT ![i + 1] = dtop][k]
    <3>1. PICK j \in Nat : k = j + 1 /\ j < n
      OBVIOUS
    <3>2. g[k] = IF j = i THEN dtop ELSE f[k]
      BY <1>3, <1>5, <1>8, <1>9, <1>11, <3>1
    <3>3. k = i + 1 <=> j = i
      BY <1>4, <3>1
    <3>4. QED
      BY <1>9, <3>2, <3>3
  <2>2. QED
    BY <1>9, <1>11, <2>1
<1>13. i + 1 \in DOMAIN f
  BY <1>3, <1>4, <1>9
<1>14. dtop' \in Int
  BY DataAssumption DEF ToLocal
<1>15. Variables' = Append(Front(Variables), [f EXCEPT ![i + 1] = dtop])
  BY <1>6, <1>10, <1>12
<1>16. Vars!Own = f
  BY <1>6, <1>7, EndsOfVars DEF Vars!Own
<1>17. Vars!WithOwn([f EXCEPT ![i + 1] = dtop]) = Variables'
  BY <1>15, EndsOfVars DEF Vars!WithOwn
<1>18. QED
  BY <1>13, <1>14, <1>16, <1>17 DEF Vars!LStore

LEMMA CLocalsSaveKeeps == ASSUME IInv, CLocalsSave PROVE Variables' = Variables
<1>1. /\ TypeOK /\ Layout /\ ~InC /\ calls' = calls /\ reg' = reg /\ phase' = "saved"
      /\ InWord
  BY DEF IInv, InC, InWord, CLocalsSave
<1>2. CASE ~CSaves
  <2>1. UNCHANGED <<rmem, rsp, rtop, locl>> /\ ~InC'
    BY <1>2 DEF CLocalsSave, InC, CSaves
  <2>2. QED
    BY <1>1, <2>1, StackKept
<1>3. CASE CSaves
  <2>1. Ln \in Nat \ {0} /\ rsp \in Nat /\ locl # NoLocals /\ PushFrame(Ln)
    BY <1>1, <1>3, Words DEF CLocalsSave, CSaves
  <2>2. InC' /\ locl' = rsp + Ln + 1
    BY <1>1, <2>1 DEF PushFrame, InC, CSaves, NoLocals
  <2>3. ASSUME NEW a \in DOMAIN calls, NEW j \in Nat, j < calls[a].n
        PROVE  Variable(a, j)' = Variable(a, j)
    <3>1. Holding(a, j)' = Holding(a, j) \cup {rsp + Ln + 1}
      BY <1>1, <2>2 DEF Holding
    <3>2. j < Ln =>
              Holding(a, j)' = Holding(a, j) \cup (IF j < Ln THEN {rsp + Ln + 1} ELSE {})
      BY <3>1
    <3>3. QED
      BY <1>1, <2>1, <2>3, <3>2, FramePushed
  <2>4. QED
    BY <1>1, <2>3, VariablesStay
<1>4. QED
  BY <1>2, <1>3

LEMMA CLocalsLoadKeeps ==
    ASSUME IInv, RegistersApart, CLocalsLoad
    PROVE  Variables' = Variables
<1>1. /\ TypeOK /\ Layout /\ ~InC' /\ calls' = calls /\ ~InWord
      /\ phase = "returned" /\ phase' = "word"
  BY DEF IInv, InC, InWord, CLocalsLoad
<1>2. CASE ~CLoads
  <2>1. UNCHANGED <<reg, rmem, rsp, rtop, locl>> /\ ~InC
    BY <1>1, <1>2 DEF CLocalsLoad, InC, CSaves, CLoads
  <2>2. QED
    BY <1>1, <2>1, StackKept
<1>3. CASE CLoads
  <2>1. Ln \in Nat \ {0} /\ PopFrame(Ln, Ln, locl)
    BY <1>1, <1>3, Words DEF CLocalsLoad, CLoads
  <2>2. InC /\ Lesser(Ln, Ln) = Ln
    BY <1>1, <1>3, <2>1 DEF InC, CSaves, CLoads, Lesser
  <2>3. ASSUME NEW a \in DOMAIN calls, NEW j \in Nat, j < calls[a].n
        PROVE  Variable(a, j)' = Variable(a, j)
    <3>1. Holding(a, j)' = {calls[b].at : b \in {c \in DOMAIN calls : c > a /\ calls[c].n > j}}
      BY <1>1 DEF Holding
    <3>2. Holding(a, j) = Holding(a, j)' \cup {locl}
      BY <2>2, <3>1 DEF Holding
    <3>3. ASSUME NEW f \in Holding(a, j)'
          PROVE  f < locl
      <4>1. PICK b \in DOMAIN calls : f = calls[b].at /\ calls[b].n > j
        BY <3>1
      <4>2. calls[b].n # 0
        BY <1>1, <4>1, Words
      <4>3. PICK t \in Nat, u \in Nat :
                t = Top(b) /\ t = f /\ u = Top(Len(calls)) /\ t <= u
        <5>1. PICK N \in Nat \ {0} : N = Len(calls) /\ DOMAIN calls = 1 .. N
          BY <1>1, Words
        <5>2. /\ Top(b) = f /\ Top(b) \in Nat /\ Top(N) \in Nat
              /\ Me.base \in Nat /\ Me.base <= Top(N)
              /\ b # N => Top(b) < Me.base
          BY <1>1, <4>1, <4>2, <5>1, Heights, Words, SMTT(30) DEF Top
        <5>3. Top(b) <= Top(N)
          BY <5>2
        <5>4. QED
          BY <5>1, <5>2, <5>3
      <4>4. u + Ln + 1 <= locl
        BY <1>1, <2>2, <4>3 DEF Layout
      <4>5. locl \in Nat
        BY <1>1, Words
      <4>6. QED
        BY <2>1, <4>3, <4>4, <4>5
    <3>4. j < Ln => Holding(a, j) = Holding(a, j)' \cup (IF j < Ln THEN {locl} ELSE {})
      BY <3>2
    <3>5. QED
      BY <1>1, <2>1, <2>2, <2>3, <3>3, <3>4, FramePopped
  <2>4. QED
    BY <1>1, <2>3, VariablesStay
<1>4. QED
  BY <1>2, <1>3

LEMMA InitRefines == Init => Vars!LInit
<1> SUFFICES ASSUME Init
             PROVE  Vars!LInit
  OBVIOUS
<1>1. calls = <<Activation(0, 0, 0)>> /\ dtop \in Int
  BY DataAssumption DEF Init
<1>2. DOMAIN calls = {1} /\ calls[1].n = 0
  BY <1>1 DEF Activation
<1>3. Variables = [a \in {1} |-> [i \in 1 .. 0 |-> Variable(a, i - 1)]]
  BY <1>2 DEF Variables
<1>4. 1 .. 0 = {}
  OBVIOUS
<1>5. \A a : [i \in 1 .. 0 |-> Variable(a, i - 1)] = <<>>
  BY <1>4
<1>6. Variables = [a \in {1} |-> <<>>]
  BY <1>3, <1>5
<1>7. Variables = << <<>> >>
  BY <1>6
<1>8. QED
  BY <1>1, <1>7 DEF Vars!LInit, Vars!NoVars

(* When no two variables are in one register, spilling and reloading gives *)
(* every word variables of its own, whatever words are called in between,  *)
(* how many variables they have and what C functions do to the registers   *)
(* (local.S; LocalVars).                                                   *)
THEOREM ImplementsLocalVarsHolds ==
    ASSUME RegistersApart
    PROVE  Spec => ImplementsLocalVars
<1>1. IInv /\ IInv' /\ [Next]_vars => [Vars!LNext]_<<Variables, dtop>>
  <2> SUFFICES ASSUME IInv, IInv', [Next]_vars
               PROVE  Vars!LNext \/ (Variables' = Variables /\ dtop' = dtop)
    OBVIOUS
  <2>1. CASE UNCHANGED vars
    BY <2>1 DEF vars, Variables, Variable, Holding, InC, CSaves
  <2>2. ASSUME Variables' = Variables, dtop' \in Int
        PROVE  Vars!LNext
    BY <2>2 DEF Vars!LNext, Vars!LCompute
  <2>3. dtop' \in Int
    BY DEF IInv, TypeOK
  <2>4. ASSUME NEW v \in Values, Compute(v)
        PROVE  Vars!LNext
    BY <2>2, <2>3, <2>4 DEF Compute, Variables, Variable, Holding, InC, CSaves
  <2>5. CASE ToR
    BY <2>2, <2>3, <2>5, ToRKeeps
  <2>6. CASE RFrom
    BY <2>2, <2>3, <2>6 DEF RFrom, Pop, Variables, Variable, Holding, InC, CSaves
  <2>7. CASE Call
    BY <2>7, CallRefines DEF Vars!LNext
  <2>8. CASE Exit
    BY <2>8, ExitRefines DEF Vars!LNext
  <2>9. ASSUME NEW n \in Sizes, Lenter(n)
        PROVE  Vars!LNext
    BY <2>9, LenterRefines DEF Vars!LNext
  <2>10. CASE Lexit
    BY <2>10, LexitRefines DEF Vars!LNext
  <2>11. ASSUME NEW j \in 0 .. Me.n - 1, FromLocal(j)
         PROVE  Vars!LNext
    BY <2>11, FromLocalRefines DEF Vars!LNext
  <2>12. ASSUME NEW j \in 0 .. Me.n - 1, ToLocal(j)
         PROVE  Vars!LNext
    BY <2>12, ToLocalRefines DEF Vars!LNext
  <2>13. CASE CLocalsSave
    BY <2>2, <2>3, <2>13, CLocalsSaveKeeps
  <2>14. CASE CCall
    BY <2>2, <2>3, <2>14, CCallKeeps
  <2>15. CASE CLocalsLoad
    BY <2>2, <2>3, <2>15, CLocalsLoadKeeps
  <2>16. QED
    BY <2>1, <2>4, <2>5, <2>6, <2>7, <2>8, <2>9, <2>10, <2>11, <2>12, <2>13, <2>14, <2>15
       DEF Next
<1>2. Vars!LSpec <=> Vars!LInit /\ [][Vars!LNext]_<<Variables, dtop>>
  BY DEF Vars!LSpec, Vars!lvars
<1>3. QED
  BY <1>1, <1>2, InitRefines, Inductive, PTL DEF Spec, ImplementsLocalVars
=============================================================================
