---- MODULE LineEditProofs ----
EXTENDS LineEdit, Induction, SequenceTheorems

LEMMA Sizes ==
    /\ Limit \in Nat \ {0} /\ BufLen \in Nat \ {0, 1} /\ Offsets = 0 .. Limit
    /\ Cols \in Nat \ {0, 1} /\ Prompt \in Nat /\ HistoryMaxLen \in Nat \ {0}
    /\ Nul \notin Chars
  BY BufLenAssumption, ColsAssumption, PromptAssumption, HistoryAssumption, CharsAssumption
  DEF Limit, Offsets

(* Min and Max choose the smallest and the greatest.                       *)
LEMMA MinIs ==
    ASSUME NEW T, NEW n \in T, T \subseteq Int, \A y \in T : n <= y
    PROVE  Min(T) = n
<1>1. Min(T) \in T /\ \A y \in T : Min(T) <= y
  <2>1. \E x \in T : \A y \in T : x <= y
    OBVIOUS
  <2>2. QED
    BY <2>1 DEF Min
<1> PICK m \in Int : m = Min(T)
  BY <1>1
<1>2. m <= n /\ n <= m /\ n \in Int
  BY <1>1
<1>3. m = n
  BY <1>2
<1>4. QED
  BY <1>3

LEMMA MinIn ==
    ASSUME NEW T, T \subseteq Nat, T # {}
    PROVE  Min(T) \in T /\ \A y \in T : Min(T) <= y
<1>1. \E x \in T : \A y \in T : x <= y
  BY LeastNat
<1>2. QED
  BY <1>1 DEF Min

LEMMA MaxIn ==
    ASSUME NEW T, NEW p \in Nat, T \subseteq 0 .. p, T # {}
    PROVE  Max(T) \in T /\ \A y \in T : Max(T) >= y
<1> DEFINE D == {n \in Nat : p - n \in T}
<1>1. \A y \in T : p - y \in D
  <2> SUFFICES ASSUME NEW y \in T
               PROVE  p - y \in D
    OBVIOUS
  <2>1. y \in 0 .. p
    OBVIOUS
  <2>2. p - y \in Nat /\ p - (p - y) = y
    BY <2>1
  <2>3. QED
    BY <2>2
<1>2. D \subseteq Nat /\ D # {}
  BY <1>1
<1>3. PICK n \in D : \A k \in D : n <= k
  BY <1>2, LeastNat
<1>4. p - n \in T /\ n \in Nat
  OBVIOUS
<1>5. \A y \in T : p - n >= y
  <2> SUFFICES ASSUME NEW y \in T
               PROVE  p - n >= y
    OBVIOUS
  <2>1. n <= p - y /\ y \in 0 .. p
    BY <1>1, <1>3
  <2>2. QED
    BY <1>4, <2>1
<1>6. \E x \in T : \A y \in T : x >= y
  BY <1>4, <1>5
<1>7. QED
  BY <1>6 DEF Max

LEMMA MaxOfTwo == ASSUME NEW a \in Nat, NEW b \in Nat PROVE Max({a, b}) \in Nat
<1>1. \E x \in {a, b} : \A y \in {a, b} : x >= y
  OBVIOUS
<1>2. QED
  BY <1>1 DEF Max

(* What ends with Nul after n characters is a string of n characters.      *)
LEMMA StringOf ==
    ASSUME NEW b, NEW n \in 0 .. Limit, EndsAt(b, n)
    PROVE  /\ CString(b) \in Seq(Chars) /\ Len(CString(b)) = n
           /\ CString(b) = [i \in 1 .. n |-> b[i - 1]]
<1>1. Min({i \in Offsets : b[i] = Nul}) = n
  <2> DEFINE T == {i \in Offsets : b[i] = Nul}
  <2>1. n \in T
    BY Sizes DEF EndsAt
  <2>2. T \subseteq Int
    BY Sizes
  <2>3. \A y \in T : n <= y
    <3> SUFFICES ASSUME NEW y \in T, y < n
                 PROVE  FALSE
      BY Sizes
    <3>1. y \in 0 .. n - 1 /\ b[y] = Nul
      BY Sizes
    <3>2. QED
      BY <3>1, Sizes DEF EndsAt
  <2> HIDE DEF T
  <2>4. Min(T) = n
    BY <2>1, <2>2, <2>3, MinIs
  <2>5. QED
    BY <2>4 DEF T
<1>2. CString(b) = [i \in 1 .. n |-> b[i - 1]]
  BY <1>1 DEF CString
<1>3. \A i \in 1 .. n : b[i - 1] \in Chars
  <2> SUFFICES ASSUME NEW i \in 1 .. n
               PROVE  b[i - 1] \in Chars
    OBVIOUS
  <2>1. i - 1 \in 0 .. n - 1
    BY Sizes
  <2>2. QED
    BY <2>1 DEF EndsAt
<1>4. n \in Nat
  BY Sizes
<1>5. CString(b) \in [1 .. n -> Chars]
  BY <1>2, <1>3
<1>6. CString(b) \in Seq(Chars)
  BY <1>4, <1>5
<1>7. DOMAIN CString(b) = 1 .. n
  BY <1>2
<1>8. QED
  BY <1>2, <1>4, <1>6, <1>7, LenProperties

-----------------------------------------------------------------------------
(* A refresh changes the screen and what is known of it only.              *)

LEMMA RowsAreNat == ASSUME NEW n \in Nat PROVE RowsOf(n) \in Nat
<1>1. n + Cols - 1 \in Nat /\ Cols \in Nat \ {0}
  BY Sizes
<1>2. QED
  BY <1>1 DEF RowsOf

SameLine(r, s) ==
    /\ r.buf = s.buf /\ r.len = s.len /\ r.pos = s.pos /\ r.index = s.index
    /\ r.hist = s.hist

LEMMA RefreshedFrom ==
    ASSUME NEW s, NEW c, NEW oldpos, Kinds(s)
    PROVE  Kinds(RefreshFrom(s, c, oldpos)) /\ SameLine(RefreshFrom(s, c, oldpos), s)
<1>1. PICK screen, edge : RefreshFrom(s, c, oldpos)
          = [s EXCEPT !.screen = screen, !.oldpos = s.pos,
                      !.maxrows = Max({s.maxrows, IF edge THEN RowsOf(Prompt + s.len) + 1
                                                  ELSE RowsOf(Prompt + s.len)})]
  BY ZenonT(30) DEF RefreshFrom
<1>2. s.len \in Nat /\ s.maxrows \in Nat /\ s.pos \in Nat
  BY Sizes DEF Kinds
<1>3. RowsOf(Prompt + s.len) \in Nat /\ RowsOf(Prompt + s.len) + 1 \in Nat
  <2>1. Prompt + s.len \in Nat
    BY <1>2, Sizes
  <2>2. RowsOf(Prompt + s.len) \in Nat
    BY <2>1, RowsAreNat
  <2>3. QED
    BY <2>2
<1> PICK rows : rows = Max({s.maxrows, IF edge THEN RowsOf(Prompt + s.len) + 1
                                       ELSE RowsOf(Prompt + s.len)})
  OBVIOUS
<1>4. rows \in Nat
  <2>1. CASE edge
    BY <1>2, <1>3, <2>1, MaxOfTwo
  <2>2. CASE ~edge
    BY <1>2, <1>3, <2>2, MaxOfTwo
  <2>3. QED
    BY <2>1, <2>2
<1> PICK r : r = RefreshFrom(s, c, oldpos)
  OBVIOUS
<1>5. r = [s EXCEPT !.screen = screen, !.oldpos = s.pos, !.maxrows = rows]
  BY <1>1
<1>6. Kinds(r) /\ SameLine(r, s)
  BY <1>2, <1>4, <1>5 DEF Kinds, SameLine
<1>7. QED
  BY <1>6

LEMMA Refreshed ==
    ASSUME NEW s, Kinds(s)
    PROVE  Kinds(Refresh(s)) /\ SameLine(Refresh(s), s)
<1>1. CASE spilled
  BY <1>1 DEF Refresh, SameLine
<1>2. CASE ~spilled
  BY <1>2, RefreshedFrom DEF Refresh, RefreshMultiLine
<1>3. QED
  BY <1>1, <1>2

SameHistory(r, s) == r.hist = s.hist /\ r.index = s.index
HasLine(r, b, n, p) == r.buf = b /\ r.len = n /\ r.pos = p

Texts == [Offsets -> Chars \cup {Nul, Leftover}]

LEMMA PutIs ==
    ASSUME NEW s, NEW b, NEW n, NEW p, IsLine(s), b \in Texts, n \in 0 .. Limit, p \in 0 .. n,
           EndsAt(b, n)
    PROVE  /\ Editable(Put(s, b, n, p)) /\ SameHistory(Put(s, b, n, p), s)
           /\ HasLine(Put(s, b, n, p), b, n, p)
<1> PICK q : q = [s EXCEPT !.buf = b, !.len = n, !.pos = p]
  OBVIOUS
<1>1. Kinds(q) /\ q.buf = b /\ q.len = n /\ q.pos = p /\ q.hist = s.hist /\ q.index = s.index
  <2>1. Kinds(s) /\ p \in Nat
    BY Sizes DEF IsLine
  <2>2. QED
    BY <2>1 DEF Kinds, Texts
<1> PICK r : r = Refresh(q)
  OBVIOUS
<1>2. Kinds(r) /\ SameLine(r, q)
  BY <1>1, Refreshed
<1>3. r.len = n /\ r.pos = p /\ r.buf = b /\ r.hist = s.hist /\ r.index = s.index
  BY <1>1, <1>2 DEF SameLine
<1>4. r.pos <= r.len
  BY <1>3, Sizes
<1>5. IsLine(r)
  BY <1>2, <1>3 DEF IsLine
<1>6. Put(s, b, n, p) = r
  BY DEF Put
<1>7. QED
  BY <1>3, <1>4, <1>5, <1>6 DEF Editable, SameHistory, HasLine

LEMMA MovedTo ==
    ASSUME NEW s, NEW p, IsLine(s), p \in 0 .. s.len
    PROVE  /\ Editable(Refresh([s EXCEPT !.pos = p]))
           /\ SameHistory(Refresh([s EXCEPT !.pos = p]), s)
           /\ HasLine(Refresh([s EXCEPT !.pos = p]), s.buf, s.len, p)
           /\ Editable(MoveTo(s, p)) /\ SameHistory(MoveTo(s, p), s)
           /\ HasLine(MoveTo(s, p), s.buf, s.len, p)
<1> PICK q : q = [s EXCEPT !.pos = p]
  OBVIOUS
<1>1. /\ Kinds(q) /\ q.buf = s.buf /\ q.len = s.len /\ q.pos = p /\ q.hist = s.hist
      /\ q.index = s.index /\ s.len \in 0 .. Limit
  <2>1. Kinds(s)
    BY DEF IsLine
  <2>2. s.len \in 0 .. Limit /\ p \in Nat
    BY <2>1, Sizes DEF Kinds
  <2>3. QED
    BY <2>1, <2>2 DEF Kinds
<1> PICK r : r = Refresh(q)
  OBVIOUS
<1>2. Kinds(r) /\ SameLine(r, q)
  BY <1>1, Refreshed
<1>3. p <= s.len
  BY <1>1, Sizes
<1>4. Editable(r) /\ SameHistory(r, s) /\ HasLine(r, s.buf, s.len, p)
  BY <1>1, <1>2, <1>3 DEF Editable, IsLine, SameLine, SameHistory, HasLine
<1>5. CASE p = s.pos
  <2>1. MoveTo(s, p) = s
    BY <1>5 DEF MoveTo
  <2>2. Editable(s) /\ SameHistory(s, s) /\ HasLine(s, s.buf, s.len, p)
    BY <1>3, <1>5 DEF Editable, SameHistory, HasLine
  <2>3. QED
    BY <1>4, <2>1, <2>2
<1>6. CASE p # s.pos
  <2>1. MoveTo(s, p) = r
    BY <1>6 DEF MoveTo
  <2>2. QED
    BY <1>4, <2>1
<1>7. QED
  BY <1>5, <1>6

-----------------------------------------------------------------------------
(* What the keys do to the text: it stays a string, of the length they     *)
(* keep account of.                                                        *)

LEMMA LineFacts ==
    ASSUME NEW s, IsLine(s)
    PROVE  /\ s.buf \in Texts /\ s.len \in 0 .. Limit /\ s.pos \in Nat /\ EndsAt(s.buf, s.len)
           /\ s.hist \in Seq(Seq(Chars)) /\ s.index \in Nat
  BY DEF IsLine, Kinds, Texts

LEMMA MemmoveIs ==
    ASSUME NEW b \in Texts, NEW to \in Int, NEW from \in Int, NEW n \in Int
    PROVE  /\ Memmove(b, to, from, n) \in Texts
           /\ \A i \in Offsets :
                  /\ i < to \/ i >= to + n => Memmove(b, to, from, n)[i] = b[i]
                  /\ to <= i /\ i < to + n /\ from + i - to \in Offsets
                         => Memmove(b, to, from, n)[i] = b[from + i - to]
<1>1. \A i \in Offsets : i \in Int /\ (i \in to .. to + n - 1 <=> to <= i /\ i < to + n)
  BY Sizes
<1> DEFINE e(i) == IF i \notin to .. to + n - 1 THEN b[i]
                   ELSE IF from + i - to \in Offsets THEN b[from + i - to] ELSE Leftover
<1>2. Memmove(b, to, from, n) = [i \in Offsets |-> e(i)]
  BY DEF Memmove
<1>3. \A i \in Offsets : e(i) \in Chars \cup {Nul, Leftover}
  BY DEF Texts
<1>4. \A i \in Offsets :
          /\ i < to \/ i >= to + n => e(i) = b[i]
          /\ to <= i /\ i < to + n /\ from + i - to \in Offsets => e(i) = b[from + i - to]
  BY <1>1
<1> HIDE DEF e
<1>5. QED
  BY <1>2, <1>3, <1>4 DEF Texts

(* what editInsert makes of the buffer                                     *)
WithInserted(b, l, p, c) == [Memmove(b, p + 1, p, l - p) EXCEPT ![p] = c, ![l + 1] = Nul]

LEMMA TextInserted ==
    ASSUME NEW b \in Texts, NEW l \in Nat, NEW p \in 0 .. l, NEW c \in Chars,
           l + 1 < Limit, EndsAt(b, l)
    PROVE  /\ WithInserted(b, l, p, c) \in Texts /\ EndsAt(WithInserted(b, l, p, c), l + 1)
           /\ \A i \in 0 .. l : WithInserted(b, l, p, c)[i]
                  = IF i < p THEN b[i] ELSE IF i = p THEN c ELSE b[i - 1]
<1> PICK to \in Int, from \in Int, k \in Int : to = p + 1 /\ from = p /\ k = l - p
  OBVIOUS
<1> PICK m : m = Memmove(b, to, from, k)
  OBVIOUS
<1>0. /\ m \in Texts
      /\ \A i \in Offsets :
             /\ i < to \/ i >= to + k => m[i] = b[i]
             /\ to <= i /\ i < to + k /\ from + i - to \in Offsets => m[i] = b[from + i - to]
  BY MemmoveIs
<1>1. /\ m \in Texts
      /\ \A i \in Offsets :
             /\ i < p + 1 \/ i >= p + 1 + (l - p) => m[i] = b[i]
             /\ p + 1 <= i /\ i < p + 1 + (l - p) /\ p + i - (p + 1) \in Offsets
                    => m[i] = b[p + i - (p + 1)]
  BY <1>0
<1> PICK d : d = [m EXCEPT ![p] = c, ![l + 1] = Nul]
  OBVIOUS
<1>2. p \in Offsets /\ l + 1 \in Offsets
  BY Sizes
<1>3. d \in Texts
  BY <1>1, <1>2 DEF Texts
<1>4. ASSUME NEW i \in 0 .. l
      PROVE  d[i] = IF i < p THEN b[i] ELSE IF i = p THEN c ELSE b[i - 1]
  <2>1. i \in Offsets /\ i # l + 1
    BY Sizes
  <2>2. CASE i < p
    BY <1>1, <1>2, <2>1, <2>2 DEF Texts
  <2>3. CASE i = p
    BY <1>1, <1>2, <2>1, <2>3 DEF Texts
  <2>4. CASE i > p
    <3>1. p + i - (p + 1) = i - 1 /\ i - 1 \in Offsets
      BY <2>1, <2>4, Sizes
    <3>2. d[i] = m[i]
      BY <1>1, <1>2, <2>1, <2>4 DEF Texts
    <3>3. m[i] = b[i - 1]
      BY <1>1, <2>1, <2>4, <3>1
    <3>4. QED
      BY <2>4, <3>2, <3>3
  <2>5. QED
    BY <2>2, <2>3, <2>4
<1>5. ASSUME NEW i \in 0 .. l + 1 - 1
      PROVE  d[i] \in Chars
  <2>1. i \in 0 .. l /\ (i < p => i \in 0 .. l - 1) /\ (i > p => i - 1 \in 0 .. l - 1)
    OBVIOUS
  <2>2. QED
    BY <1>4, <2>1 DEF EndsAt
<1>6. d[l + 1] = Nul
  BY <1>1, <1>2 DEF Texts
<1>7. d = WithInserted(b, l, p, c)
  BY DEF WithInserted
<1>8. d \in Texts /\ EndsAt(d, l + 1)
  BY <1>3, <1>5, <1>6 DEF EndsAt
<1>9. QED
  BY <1>4, <1>7, <1>8

(* the k characters of d are those of b without the n at q                 *)
CutOut(d, b, k, q, n) == \A i \in 0 .. k - 1 : d[i] = IF i < q THEN b[i] ELSE b[i + n]

LEMMA TextErased ==
    ASSUME NEW b \in Texts, NEW l \in 0 .. Limit, NEW q \in Nat, NEW n \in Nat, NEW k \in Int,
           NEW r \in Int, q + n <= l, k >= l - q - n + 1, r = l - n, EndsAt(b, l)
    PROVE  /\ Memmove(b, q, q + n, k) \in Texts /\ EndsAt(Memmove(b, q, q + n, k), r)
           /\ CutOut(Memmove(b, q, q + n, k), b, r, q, n)
<1> PICK m : m = Memmove(b, q, q + n, k)
  OBVIOUS
<1>1. /\ m \in Texts
      /\ \A i \in Offsets :
             /\ i < q \/ i >= q + k => m[i] = b[i]
             /\ q <= i /\ i < q + k /\ (q + n) + i - q \in Offsets => m[i] = b[(q + n) + i - q]
  BY MemmoveIs
<1>2. ASSUME NEW i \in 0 .. r
      PROVE  m[i] = IF i < q THEN b[i] ELSE b[i + n]
  <2>1. i \in Offsets /\ i + n \in Offsets /\ i + n = (q + n) + i - q
    BY Sizes
  <2>2. QED
    BY <1>1, <2>1
<1>3. m[r] = Nul
  <2>1. r \in 0 .. r /\ ~ (r < q) /\ r + n = l
    BY Sizes
  <2>2. QED
    BY <1>2, <2>1 DEF EndsAt
<1>4. ASSUME NEW i \in 0 .. r - 1
      PROVE  m[i] \in Chars
  <2>1. i \in 0 .. r /\ i \in 0 .. l - 1 /\ i + n \in 0 .. l - 1
    BY Sizes
  <2>2. b[i] \in Chars /\ b[i + n] \in Chars
    BY <2>1 DEF EndsAt
  <2>3. QED
    BY <1>2, <2>1, <2>2
<1>5. m \in Texts /\ EndsAt(m, r)
  BY <1>1, <1>3, <1>4 DEF EndsAt
<1>6. \A i \in 0 .. r - 1 : i \in 0 .. r
  OBVIOUS
<1>7. CutOut(m, b, r, q, n)
  BY <1>2, <1>6 DEF CutOut
<1>8. QED
  BY <1>5, <1>7

LEMMA TextCut ==
    ASSUME NEW b \in Texts, NEW l \in 0 .. Limit, NEW q \in 0 .. l, EndsAt(b, l)
    PROVE  [b EXCEPT ![q] = Nul] \in Texts /\ EndsAt([b EXCEPT ![q] = Nul], q)
<1>1. q \in Offsets
  BY Sizes
<1>2. \A i \in 0 .. q - 1 : i \in 0 .. l - 1 /\ i \in Offsets /\ i # q
  BY Sizes
<1>3. QED
  BY <1>1, <1>2 DEF Texts, EndsAt

LEMMA TextSwapped ==
    ASSUME NEW b \in Texts, NEW l \in 0 .. Limit, NEW p \in 1 .. l - 1, EndsAt(b, l), NEW d,
           d = [b EXCEPT ![p - 1] = b[p], ![p] = b[p - 1]]
    PROVE  d \in Texts /\ EndsAt(d, l)
<1>1. p \in Offsets /\ p - 1 \in Offsets /\ p # p - 1 /\ l # p /\ l # p - 1 /\ l \in Offsets
  BY Sizes
<1>2. d \in Texts
  BY <1>1 DEF Texts
<1>3. p \in 0 .. l - 1 /\ p - 1 \in 0 .. l - 1
  BY Sizes
<1>4. b[p] \in Chars /\ b[p - 1] \in Chars /\ b[l] = Nul
  BY <1>3 DEF EndsAt
<1>5. \A i \in 0 .. l - 1 : i \in Offsets /\ b[i] \in Chars
  BY Sizes DEF EndsAt
<1>6. d[l] = Nul
  BY <1>1, <1>4 DEF Texts
<1>7. \A i \in 0 .. l - 1 : d[i] \in Chars
  BY <1>1, <1>4, <1>5 DEF Texts
<1>8. QED
  BY <1>2, <1>6, <1>7 DEF EndsAt

-----------------------------------------------------------------------------
(* The text before and after the cursor.                                   *)

LEMMA LineIs ==
    ASSUME NEW s, IsLine(s)
    PROVE  Line(s) \in Seq(Chars) /\ Len(Line(s)) = s.len
<1>1. s.len \in Nat /\ EndsAt(s.buf, s.len)
  BY LineFacts, Sizes
<1>2. \A i \in 1 .. s.len : s.buf[i - 1] \in Chars
  <2> SUFFICES ASSUME NEW i \in 1 .. s.len
               PROVE  s.buf[i - 1] \in Chars
    OBVIOUS
  <2>1. i - 1 \in 0 .. s.len - 1
    BY <1>1
  <2>2. QED
    BY <1>1, <2>1 DEF EndsAt
<1>3. Line(s) \in [1 .. s.len -> Chars]
  BY <1>2 DEF Line
<1>4. Line(s) \in Seq(Chars)
  BY <1>1, <1>3
<1>5. QED
  BY <1>1, <1>3, <1>4, LenProperties

(* A part of a line.                                                       *)
LEMMA PartOf ==
    ASSUME NEW t \in Seq(Chars), NEW m \in Int, NEW n \in Int, m >= 1, n <= Len(t)
    PROVE  /\ SubSeq(t, m, n) \in Seq(Chars)
           /\ Len(SubSeq(t, m, n)) = IF m <= n THEN n - m + 1 ELSE 0
<1>1. \A i \in m .. n : t[i] \in Chars
  <2>1. \A i \in m .. n : i \in 1 .. Len(t)
    BY LenProperties
  <2>2. QED
    BY <2>1, ElementOfSeq
<1>2. QED
  BY <1>1, SubSeqProperties


(* t is the text of n characters at offset f of b                          *)
Reads(t, b, f, n) ==
    t \in Seq(Chars) /\ Len(t) = n /\ \A i \in 1 .. n : t[i] = b[f + i - 1]
Before(s) == SubSeq(Line(s), 1, s.pos)
After(s) == SubSeq(Line(s), s.pos + 1, s.len)

LEMMA ReadsOne ==
    ASSUME NEW t, NEW u, NEW b, NEW f, NEW n, Reads(t, b, f, n), Reads(u, b, f, n)
    PROVE  t = u
<1>1. t \in Seq(Chars) /\ u \in Seq(Chars) /\ Len(t) = Len(u) /\ \A i \in 1 .. Len(t) : t[i] = u[i]
  BY DEF Reads
<1>2. QED
  BY <1>1, SeqEqual

LEMMA ReadsMoved ==
    ASSUME NEW t, NEW b, NEW d, NEW f, NEW g, NEW n, Reads(t, b, f, n),
           \A i \in 1 .. n : d[g + i - 1] = b[f + i - 1]
    PROVE  Reads(t, d, g, n)
  BY DEF Reads

LEMMA ReadsPart ==
    ASSUME NEW t, NEW b, NEW f \in Int, NEW n \in Nat, NEW m \in Int, NEW k \in Int,
           NEW g \in Int, NEW l \in Int,
           Reads(t, b, f, n), m >= 1, m <= k + 1, k <= n, g = f + m - 1, l = k - m + 1
    PROVE  Reads(SubSeq(t, m, k), b, g, l)
<1>1. \A i \in m .. k : i \in 1 .. Len(t) /\ t[i] \in Chars
  <2>1. t \in Seq(Chars) /\ Len(t) = n
    BY DEF Reads
  <2>2. \A i \in m .. k : i \in 1 .. Len(t)
    BY <2>1
  <2>3. QED
    BY <2>1, <2>2, ElementOfSeq
<1> PICK u : u = SubSeq(t, m, k)
  OBVIOUS
<1>2. u \in Seq(Chars) /\ Len(u) = (IF m <= k THEN k - m + 1 ELSE 0)
      /\ \A i \in 1 .. k - m + 1 : u[i] = t[m + i - 1]
  BY <1>1, SubSeqProperties
<1>3. ASSUME NEW i \in 1 .. l
      PROVE  u[i] = b[g + i - 1]
  <2>1. m + i - 1 \in 1 .. n /\ f + (m + i - 1) - 1 = g + i - 1 /\ i \in 1 .. k - m + 1
    OBVIOUS
  <2>2. QED
    BY <1>2, <2>1 DEF Reads
<1>4. Len(u) = l
  BY <1>2
<1>5. QED
  BY <1>2, <1>3, <1>4 DEF Reads

LEMMA ReadsJoined ==
    ASSUME NEW t, NEW u, NEW b, NEW f \in Int, NEW n \in Nat, NEW g \in Int, NEW k \in Nat,
           NEW l \in Nat, Reads(t, b, f, n), Reads(u, b, g, k), g = f + n, l = n + k
    PROVE  Reads(t \o u, b, f, l)
<1>1. /\ t \in Seq(Chars) /\ Len(t) = n /\ \A i \in 1 .. n : t[i] = b[f + i - 1]
      /\ u \in Seq(Chars) /\ Len(u) = k /\ \A i \in 1 .. k : u[i] = b[g + i - 1]
  BY DEF Reads
<1> PICK v : v = t \o u
  OBVIOUS
<1>2. /\ v \in Seq(Chars) /\ Len(v) = n + k
      /\ \A i \in 1 .. n + k : v[i] = IF i <= n THEN t[i] ELSE u[i - n]
  <2>1. /\ v \in Seq(Chars) /\ Len(v) = Len(t) + Len(u)
        /\ \A i \in 1 .. Len(t) + Len(u) :
               v[i] = IF i <= Len(t) THEN t[i] ELSE u[i - Len(t)]
    BY <1>1, ConcatProperties, ZenonT(30)
  <2>2. QED
    BY <1>1, <2>1
<1>3. ASSUME NEW i \in 1 .. l
      PROVE  v[i] = b[f + i - 1]
  <2>1. CASE i <= n
    BY <1>1, <1>2, <2>1
  <2>2. CASE ~ (i <= n)
    <3>1. i - n \in 1 .. k /\ g + (i - n) - 1 = f + i - 1
      BY <2>2
    <3>2. QED
      BY <1>1, <1>2, <2>2, <3>1
  <2>3. QED
    BY <2>1, <2>2
<1>4. QED
  BY <1>2, <1>3 DEF Reads

LEMMA ReadsChar ==
    ASSUME NEW b, NEW f \in Int, NEW c \in Chars, b[f] = c
    PROVE  Reads(<<c>>, b, f, 1)
<1>1. <<c>> \in Seq(Chars) /\ Len(<<c>>) = 1 /\ \A i \in 1 .. 1 : <<c>>[i] = b[f + i - 1]
  OBVIOUS
<1>2. QED
  BY <1>1 DEF Reads

LEMMA ReadsLine == ASSUME NEW s, IsLine(s) PROVE Reads(Line(s), s.buf, 0, s.len)
<1>1. Line(s) \in Seq(Chars) /\ Len(Line(s)) = s.len
  BY LineIs
<1>2. \A i \in 1 .. s.len : 0 + i - 1 = i - 1
  BY LineFacts, Sizes
<1>3. \A i \in 1 .. s.len : Line(s)[i] = s.buf[0 + i - 1]
  BY <1>2 DEF Line
<1>4. QED
  BY <1>1, <1>3 DEF Reads

(* The texts on both sides of the cursor, and the line that they are.      *)
LEMMA Sides ==
    ASSUME NEW s, NEW b, NEW l, NEW p, Editable(s), HasLine(s, b, l, p)
    PROVE  /\ l \in Nat /\ l \in 0 .. Limit /\ p \in Nat /\ p <= l /\ l - p \in Nat
           /\ b \in Texts /\ EndsAt(b, l)
           /\ Reads(Before(s), b, 0, p) /\ Reads(After(s), b, p, l - p)
           /\ Before(s) \o After(s) = Line(s) /\ Len(Line(s)) = l
<1>1. /\ IsLine(s) /\ l \in Nat /\ l \in 0 .. Limit /\ p \in Nat /\ p <= l
      /\ b \in Texts /\ EndsAt(b, l)
  BY LineFacts, Sizes DEF Editable, HasLine
<1> PICK t : t = Line(s)
  OBVIOUS
<1>2. Reads(t, b, 0, l)
  BY <1>1, ReadsLine DEF HasLine
<1> PICK one \in Int, zero \in Int, next \in Int, rest \in Nat, len \in Int :
          one = 1 /\ zero = 0 /\ next = p + 1 /\ rest = l - p /\ len = l
  BY <1>1
<1>3. Reads(SubSeq(t, one, p), b, zero, p)
  BY <1>1, <1>2, ReadsPart
<1>4. Reads(SubSeq(t, next, len), b, p, rest)
  <2>1. p = zero + next - 1 /\ rest = len - next + 1 /\ next >= 1 /\ next <= len + 1 /\ p \in Int
    BY <1>1
  <2>2. Reads(t, b, zero, l)
    BY <1>2
  <2>3. QED
    BY <1>1, <2>1, <2>2, ReadsPart
<1>5. Reads(SubSeq(t, one, p) \o SubSeq(t, next, len), b, zero, l)
  <2>1. p = zero + p /\ l = p + rest
    BY <1>1
  <2>2. QED
    BY <1>1, <1>3, <1>4, <2>1, ReadsJoined
<1>6. SubSeq(t, one, p) \o SubSeq(t, next, len) = t
  BY <1>2, <1>5, ReadsOne
<1>7. Before(s) = SubSeq(t, one, p) /\ After(s) = SubSeq(t, next, len)
  BY DEF Before, After, HasLine
<1>8. Len(t) = l
  BY <1>2 DEF Reads
<1>9. QED
  BY <1>1, <1>3, <1>4, <1>6, <1>7, <1>8

(* What EditedLine says of a key: r is s, edited at the cursor.            *)
EditedTo(s, r) ==
    Edits!Place(Before(r), After(r))
        \in {Edits!Place(Before(s), After(s))} \cup Edits!Edited(Edits!Place(Before(s), After(s)))

LEMMA SameIsEdited ==
    ASSUME NEW s, NEW r, SameLine(r, s)
    PROVE  EditedTo(s, r)
<1>1. Before(r) = Before(s) /\ After(r) = After(s)
  BY DEF SameLine, Before, After, Line
<1>2. QED
  BY <1>1 DEF EditedTo

LEMMA MovedIsEdited ==
    ASSUME NEW s, NEW r, NEW p, Editable(s), Editable(r), HasLine(r, s.buf, s.len, p)
    PROVE  EditedTo(s, r)
<1> PICK x, y, t, k : x = Before(s) /\ y = After(s) /\ t = Line(r) /\ k = r.pos
  OBVIOUS
<1>1. Line(r) = Line(s)
  BY DEF HasLine, Line
<1>2. Before(s) \o After(s) = Line(s) /\ Len(Line(s)) = s.len
  BY Sides DEF HasLine
<1>3. k \in 0 .. s.len /\ r.len = s.len
  BY LineFacts, Sizes DEF HasLine, Editable
<1>4. x \o y = t /\ Len(t) = s.len
  BY <1>1, <1>2
<1>5. Before(r) = SubSeq(t, 1, k) /\ After(r) = SubSeq(t, k + 1, Len(t))
  BY <1>3, <1>4 DEF Before, After
<1>6. Edits!Place(Before(r), After(r)) \in Edits!Moved(x, y)
  BY <1>3, <1>4, <1>5 DEF Edits!Moved
<1>7. Edits!Moved(x, y) \subseteq Edits!Edited(Edits!Place(x, y))
  BY DEF Edits!Edited, Edits!Place
<1>8. QED
  BY <1>6, <1>7 DEF EditedTo

LEMMA TypedIsEdited ==
    ASSUME NEW s, NEW r, NEW c \in Chars, Before(r) = Append(Before(s), c), After(r) = After(s)
    PROVE  EditedTo(s, r)
<1> PICK x, y : x = Before(s) /\ y = After(s)
  OBVIOUS
<1>1. Edits!Place(Before(r), After(r)) \in Edits!Typed(x, y)
  BY DEF Edits!Typed
<1>2. Edits!Typed(x, y) \subseteq Edits!Edited(Edits!Place(x, y))
  BY DEF Edits!Edited, Edits!Place
<1>3. QED
  BY <1>1, <1>2 DEF EditedTo

LEMMA ErasedIsEdited ==
    ASSUME NEW s, NEW r,
           \/ \E k \in 0 .. Len(Before(s)) :
                  Before(r) = SubSeq(Before(s), 1, k) /\ After(r) = After(s)
           \/ \E k \in 1 .. Len(After(s)) + 1 :
                  Before(r) = Before(s) /\ After(r) = SubSeq(After(s), k, Len(After(s)))
           \/ Before(r) = <<>> /\ After(r) = <<>>
    PROVE  EditedTo(s, r)
<1> PICK x, y : x = Before(s) /\ y = After(s)
  OBVIOUS
<1>1. Edits!Place(Before(r), After(r)) \in Edits!Erased(x, y)
  BY DEF Edits!Erased
<1>2. Edits!Erased(x, y) \subseteq Edits!Edited(Edits!Place(x, y))
  BY DEF Edits!Edited, Edits!Place
<1>3. QED
  BY <1>1, <1>2 DEF EditedTo


(* The keys that erase what is between q and e, on one side of the cursor. *)
LEMMA CutIsEdited ==
    ASSUME NEW s, NEW r, NEW b, NEW l, NEW p, NEW d, NEW k, NEW q \in Nat, NEW n \in Nat,
           NEW e \in Nat, Editable(s), HasLine(s, b, l, p), Editable(r), HasLine(r, d, k, q),
           q <= p, p <= e, e <= l, e = q + n, k = l - n, q = p \/ e = p, CutOut(d, b, k, q, n)
    PROVE  EditedTo(s, r)
<1>0. \A i \in 0 .. k - 1 : d[i] = IF i < q THEN b[i] ELSE b[i + n]
  BY DEF CutOut
<1> PICK x, y : x = Before(s) /\ y = After(s)
  OBVIOUS
<1>1. /\ l \in Nat /\ p \in Nat /\ p <= l /\ l - p \in Nat
      /\ Reads(x, b, 0, p) /\ Reads(y, b, p, l - p)
  BY Sides
<1>2. /\ k \in Nat /\ q <= k /\ k - q \in Nat
      /\ Reads(Before(r), d, 0, q) /\ Reads(After(r), d, q, k - q)
  BY Sides
<1> PICK zero \in Int, one \in Int, m \in Int, len \in Nat, rest \in Nat :
         zero = 0 /\ one = 1 /\ m = e - p + 1 /\ len = l - p /\ rest = l - e
  BY <1>1
<1>3. Before(r) = SubSeq(x, one, q)
  <2>1. Reads(SubSeq(x, one, q), b, zero, q)
    <3>1. Reads(x, b, zero, p) /\ one >= 1 /\ one <= q + 1 /\ zero = zero + one - 1 /\ q = q - one + 1
      BY <1>1
    <3>2. QED
      BY <1>1, <3>1, ReadsPart
  <2>2. \A i \in 1 .. q : d[zero + i - 1] = b[zero + i - 1]
    <3>1. \A i \in 1 .. q : zero + i - 1 = i - 1 /\ i - 1 \in 0 .. k - 1 /\ i - 1 < q
      BY <1>2
    <3>2. QED
      BY <1>0, <3>1
  <2>3. Reads(SubSeq(x, one, q), d, zero, q)
    BY <2>1, <2>2, ReadsMoved
  <2>4. Reads(Before(r), d, zero, q)
    BY <1>2
  <2>5. QED
    BY <2>3, <2>4, ReadsOne
<1>4. After(r) = SubSeq(y, m, len)
  <2>1. Reads(SubSeq(y, m, len), b, e, rest)
    <3>1. /\ Reads(y, b, p, len) /\ m >= 1 /\ m <= len + 1 /\ len <= len /\ e = p + m - 1
          /\ rest = len - m + 1 /\ p \in Int /\ e \in Int /\ rest \in Int /\ len \in Int
      BY <1>1
    <3>2. QED
      BY <3>1, ReadsPart
  <2>2. \A i \in 1 .. rest : d[q + i - 1] = b[e + i - 1]
    <3>1. \A i \in 1 .. rest : /\ q + i - 1 \in 0 .. k - 1 /\ ~ (q + i - 1 < q)
                               /\ (q + i - 1) + n = e + i - 1
      BY <1>1, <1>2
    <3>2. QED
      BY <1>0, <3>1
  <2>3. Reads(SubSeq(y, m, len), d, q, rest)
    BY <2>1, <2>2, ReadsMoved
  <2>4. Reads(After(r), d, q, rest)
    <3>1. k - q = rest
      BY <1>1
    <3>2. QED
      BY <1>2, <3>1
  <2>5. QED
    BY <2>3, <2>4, ReadsOne
<1>5. x \in Seq(Chars) /\ y \in Seq(Chars) /\ Len(x) = p /\ Len(y) = len
  BY <1>1 DEF Reads
<1>6. CASE q = p
  <2>1. Before(r) = x
    BY <1>3, <1>5, <1>6, SubSeqFull
  <2>2. m \in 1 .. Len(y) + 1
    BY <1>1, <1>5
  <2>3. \E i \in 1 .. Len(y) + 1 : Before(r) = x /\ After(r) = SubSeq(y, i, Len(y))
    BY <1>4, <1>5, <2>1, <2>2
  <2>4. QED
    BY <2>3, ErasedIsEdited
<1>7. CASE e = p
  <2>1. After(r) = y
    <3>1. m = 1 /\ len = Len(y)
      BY <1>1, <1>5, <1>7
    <3>2. QED
      BY <1>4, <1>5, <3>1, SubSeqFull
  <2>2. q \in 0 .. Len(x)
    BY <1>1, <1>5
  <2>3. \E i \in 0 .. Len(x) : Before(r) = SubSeq(x, 1, i) /\ After(r) = y
    BY <1>3, <2>1, <2>2
  <2>4. QED
    BY <2>3, ErasedIsEdited
<1>8. QED
  BY <1>6, <1>7

Done(s, r) == Editable(r) /\ SameHistory(r, s) /\ EditedTo(s, r)

LEMMA NothingDone == ASSUME NEW s, Editable(s) PROVE Done(s, s)
<1>1. SameLine(s, s) /\ SameHistory(s, s)
  BY DEF SameLine, SameHistory
<1>2. QED
  BY <1>1, SameIsEdited DEF Done

-----------------------------------------------------------------------------
(* Every key keeps the line a string with the cursor in it or at its end,  *)
(* and edits it at the cursor.                                             *)

LEMMA InsertDone == ASSUME NEW s, NEW c \in Chars, Editable(s) PROVE Done(s, Insert(s, c))
<1>1. CASE s.len + 1 >= Limit
  BY <1>1, NothingDone DEF Insert
<1>2. CASE ~ (s.len + 1 >= Limit)
  <2> PICK b, l, p, d : b = s.buf /\ l = s.len /\ p = s.pos /\ d = WithInserted(b, l, p, c)
    OBVIOUS
  <2>1. /\ IsLine(s) /\ b \in Texts /\ l \in Nat /\ p \in 0 .. l /\ EndsAt(b, l)
        /\ l + 1 < Limit
    BY <1>2, LineFacts, Sizes DEF Editable
  <2>2. /\ d \in Texts /\ EndsAt(d, l + 1)
        /\ \A i \in 0 .. l : d[i] = IF i < p THEN b[i] ELSE IF i = p THEN c ELSE b[i - 1]
    BY <2>1, TextInserted
  <2> PICK n \in Nat, q \in Nat : n = l + 1 /\ q = p + 1
    BY <2>1
  <2>3. n \in 0 .. Limit /\ q \in 0 .. n
    BY <2>1, Sizes
  <2> PICK r : r = Put(s, d, n, q)
    OBVIOUS
  <2>4. Editable(r) /\ SameHistory(r, s) /\ HasLine(r, d, n, q)
    BY <2>1, <2>2, <2>3, PutIs
  <2>5. EditedTo(s, r)
    <3> PICK x, y : x = Before(s) /\ y = After(s)
      OBVIOUS
    <3> PICK zero \in Int : zero = 0
      OBVIOUS
    <3> PICK one \in Nat : one = 1
      OBVIOUS
    <3> PICK rest \in Nat : rest = l - p
      BY <2>1
    <3>1. Reads(x, b, zero, p) /\ Reads(y, b, p, rest)
      <4>1. HasLine(s, b, l, p)
        BY DEF HasLine
      <4>2. QED
        BY <4>1, Sides
    <3>2. Reads(Before(r), d, zero, q) /\ Reads(After(r), d, q, rest)
      <4>1. Reads(Before(r), d, 0, q) /\ Reads(After(r), d, q, n - q)
        BY <2>4, Sides
      <4>2. n - q = rest
        BY <2>1
      <4>3. QED
        BY <4>1, <4>2
    <3>3. Reads(x, d, zero, p)
      <4>1. \A i \in 1 .. p : zero + i - 1 \in 0 .. l /\ zero + i - 1 < p
        BY <2>1
      <4>2. \A i \in 1 .. p : d[zero + i - 1] = b[zero + i - 1]
        BY <2>2, <4>1
      <4>3. QED
        BY <3>1, <4>2, ReadsMoved
    <3>4. Reads(y, d, q, rest)
      <4>1. \A i \in 1 .. rest : /\ q + i - 1 \in 0 .. l /\ ~ (q + i - 1 < p) /\ q + i - 1 # p
                                 /\ (q + i - 1) - 1 = p + i - 1
        BY <2>1
      <4>2. \A i \in 1 .. rest : d[q + i - 1] = b[p + i - 1]
        BY <2>2, <4>1
      <4>3. QED
        BY <3>1, <4>2, ReadsMoved
    <3>5. Reads(<<c>>, d, p, one)
      <4>1. d[p] = c /\ p \in Int
        BY <2>1, <2>2
      <4>2. QED
        BY <4>1, ReadsChar
    <3>6. Reads(x \o <<c>>, d, zero, q)
      <4>1. p = zero + p /\ q = p + one /\ p \in Nat
        BY <2>1
      <4>2. QED
        BY <3>3, <3>5, <4>1, ReadsJoined
    <3>7. x \o <<c>> = Append(x, c)
      BY <3>1, AppendIsConcat DEF Reads
    <3>8. Before(r) = Append(x, c)
      BY <3>2, <3>6, <3>7, ReadsOne
    <3>9. After(r) = y
      BY <3>2, <3>4, ReadsOne
    <3>10. QED
      BY <3>8, <3>9, TypedIsEdited
  <2>6. Insert(s, c) = r
    BY <1>2 DEF Insert, WithInserted
  <2>7. QED
    BY <2>4, <2>5, <2>6 DEF Done
<1>3. QED
  BY <1>1, <1>2

(* The keys that erase one character write the terminator after the move.  *)
LEMMA OneErased ==
    ASSUME NEW b \in Texts, NEW l \in 1 .. Limit, NEW q \in Nat, NEW k \in Int, NEW r \in Int,
           q + 1 <= l, k = l - q - 1, r = l - 1, EndsAt(b, l)
    PROVE  /\ [Memmove(b, q, q + 1, k) EXCEPT ![r] = Nul] \in Texts
           /\ EndsAt([Memmove(b, q, q + 1, k) EXCEPT ![r] = Nul], r)
           /\ CutOut([Memmove(b, q, q + 1, k) EXCEPT ![r] = Nul], b, r, q, 1)
<1> PICK from \in Int : from = q + 1
  OBVIOUS
<1> PICK m : m = Memmove(b, q, from, k)
  OBVIOUS
<1>1. /\ m \in Texts
      /\ \A i \in Offsets :
             /\ i < q \/ i >= q + k => m[i] = b[i]
             /\ q <= i /\ i < q + k /\ from + i - q \in Offsets => m[i] = b[from + i - q]
  BY MemmoveIs
<1>2. r \in Offsets
  BY Sizes
<1> PICK d : d = [m EXCEPT ![r] = Nul]
  OBVIOUS
<1>3. d \in Texts /\ d[r] = Nul
  BY <1>1, <1>2 DEF Texts
<1>4. ASSUME NEW i \in 0 .. r - 1
      PROVE  d[i] = IF i < q THEN b[i] ELSE b[i + 1]
  <2>1. i \in Offsets /\ i # r /\ i + 1 \in Offsets /\ i + 1 = from + i - q
    BY Sizes
  <2>2. m[i] = IF i < q THEN b[i] ELSE b[i + 1]
    BY <1>1, <2>1
  <2>3. d[i] = m[i]
    BY <1>1, <2>1 DEF Texts
  <2>4. QED
    BY <2>2, <2>3
<1>5. ASSUME NEW i \in 0 .. r - 1
      PROVE  d[i] \in Chars
  <2>1. i \in 0 .. l - 1 /\ i + 1 \in 0 .. l - 1
    BY Sizes
  <2>2. b[i] \in Chars /\ b[i + 1] \in Chars
    BY <2>1 DEF EndsAt
  <2>3. QED
    BY <1>4, <2>2
<1>6. EndsAt(d, r)
  BY <1>3, <1>5 DEF EndsAt
<1>7. CutOut(d, b, r, q, 1)
  BY <1>4 DEF CutOut
<1>8. QED
  BY <1>3, <1>6, <1>7

LEMMA DeleteDone == ASSUME NEW s, Editable(s) PROVE Done(s, Delete(s))
<1>1. CASE s.pos >= s.len
  BY <1>1, NothingDone DEF Delete
<1>2. CASE ~ (s.pos >= s.len)
  <2> PICK b, l, p, k, n, d : b = s.buf /\ l = s.len /\ p = s.pos /\ k = l - p - 1 /\ n = l - 1
                     /\ d = [Memmove(b, p, p + 1, k) EXCEPT ![n] = Nul]
    OBVIOUS
  <2>1. /\ IsLine(s) /\ b \in Texts /\ l \in 1 .. Limit /\ p \in Nat /\ EndsAt(b, l)
        /\ p + 1 <= l /\ HasLine(s, b, l, p)
    BY <1>2, LineFacts, Sizes DEF Editable, HasLine
  <2>2. k \in Int /\ n \in Int
    BY <2>1, Sizes
  <2>3. d \in Texts /\ EndsAt(d, n) /\ CutOut(d, b, n, p, 1)
    BY <2>1, <2>2, OneErased
  <2>4. n \in 0 .. Limit /\ p \in 0 .. n
    BY <2>1, Sizes
  <2> PICK r : r = Put(s, d, n, p)
    OBVIOUS
  <2>5. Editable(r) /\ SameHistory(r, s) /\ HasLine(r, d, n, p)
    BY <2>1, <2>3, <2>4, PutIs
  <2> PICK e \in Nat : e = p + 1
    BY <2>1
  <2> PICK one \in Nat : one = 1
    OBVIOUS
  <2>6. p <= p /\ p <= e /\ e <= l /\ e = p + one /\ n = l - one /\ CutOut(d, b, n, p, one)
    BY <2>1, <2>3, Sizes
  <2>7. EditedTo(s, r)
    BY <2>1, <2>5, <2>6, CutIsEdited
  <2>8. Delete(s) = r
    BY <1>2 DEF Delete
  <2>9. QED
    BY <2>5, <2>7, <2>8 DEF Done
<1>3. QED
  BY <1>1, <1>2

LEMMA BackspaceDone == ASSUME NEW s, Editable(s) PROVE Done(s, Backspace(s))
<1>1. CASE s.pos = 0 \/ s.len = 0
  BY <1>1, NothingDone DEF Backspace
<1>2. CASE ~ (s.pos = 0 \/ s.len = 0)
  <2> PICK b, l, p : b = s.buf /\ l = s.len /\ p = s.pos
    OBVIOUS
  <2>1. /\ IsLine(s) /\ b \in Texts /\ l \in 1 .. Limit /\ p \in 1 .. l /\ EndsAt(b, l)
        /\ HasLine(s, b, l, p)
    BY <1>2, LineFacts, Sizes DEF Editable, HasLine
  <2> PICK q \in Nat, k \in Int, n \in Int : q = p - 1 /\ k = l - q - 1 /\ n = l - 1
    BY <2>1, Sizes
  <2>2. q + 1 <= l /\ n \in 0 .. Limit /\ q \in 0 .. n /\ p = q + 1 /\ l - p = k
    BY <2>1, Sizes, SMTT(30)
  <2> PICK d : d = [Memmove(b, q, q + 1, k) EXCEPT ![n] = Nul]
    OBVIOUS
  <2>3. d \in Texts /\ EndsAt(d, n) /\ CutOut(d, b, n, q, 1)
    BY <2>1, <2>2, OneErased
  <2> PICK r : r = Put(s, d, n, q)
    OBVIOUS
  <2>4. Editable(r) /\ SameHistory(r, s) /\ HasLine(r, d, n, q)
    BY <2>1, <2>2, <2>3, PutIs
  <2> PICK one \in Nat : one = 1
    OBVIOUS
  <2>5. /\ q <= p /\ p <= p /\ p <= l /\ p \in Nat /\ p = q + one /\ n = l - one
        /\ CutOut(d, b, n, q, one)
    BY <2>1, <2>2, <2>3, Sizes
  <2>6. EditedTo(s, r)
    BY <2>1, <2>4, <2>5, CutIsEdited
  <2>7. Backspace(s) = r
    BY <1>2, <2>2 DEF Backspace
  <2>8. QED
    BY <2>4, <2>6, <2>7 DEF Done
<1>3. QED
  BY <1>1, <1>2

LEMMA MoveDone ==
    ASSUME NEW s, NEW p, Editable(s), p \in 0 .. s.len
    PROVE  Done(s, Refresh([s EXCEPT !.pos = p])) /\ Done(s, MoveTo(s, p))
<1>1. IsLine(s)
  BY DEF Editable
<1>2. /\ Editable(Refresh([s EXCEPT !.pos = p])) /\ SameHistory(Refresh([s EXCEPT !.pos = p]), s)
      /\ HasLine(Refresh([s EXCEPT !.pos = p]), s.buf, s.len, p)
      /\ Editable(MoveTo(s, p)) /\ SameHistory(MoveTo(s, p), s)
      /\ HasLine(MoveTo(s, p), s.buf, s.len, p)
  BY <1>1, MovedTo
<1> PICK r, q : r = Refresh([s EXCEPT !.pos = p]) /\ q = MoveTo(s, p)
  OBVIOUS
<1>3. EditedTo(s, r) /\ EditedTo(s, q)
  BY <1>2, MovedIsEdited
<1>4. QED
  BY <1>2, <1>3 DEF Done

LEMMA CursorDone ==
    ASSUME NEW s, Editable(s)
    PROVE  /\ Done(s, MoveLeft(s)) /\ Done(s, MoveRight(s))
           /\ Done(s, MoveHome(s)) /\ Done(s, MoveEnd(s))
<1>1. IsLine(s) /\ s.len \in Nat /\ s.pos \in 0 .. s.len
  BY LineFacts, Sizes DEF Editable
<1> PICK l, r, n : l = Less(s.pos, 1) /\ r = (IF s.pos # s.len THEN s.pos + 1 ELSE s.pos) /\ n = s.len
  OBVIOUS
<1>2. l \in 0 .. s.len /\ r \in 0 .. s.len /\ 0 \in 0 .. s.len /\ n \in 0 .. s.len
  BY <1>1 DEF Less
<1>3. Done(s, MoveTo(s, l)) /\ Done(s, MoveTo(s, r)) /\ Done(s, MoveTo(s, 0)) /\ Done(s, MoveTo(s, n))
  BY <1>1, <1>2, MoveDone
<1>4. QED
  BY <1>3 DEF MoveLeft, MoveRight, MoveHome, MoveEnd

LEMMA SkipIs ==
    ASSUME NEW s, NEW p, NEW chars, s.len \in Nat, p \in 0 .. s.len
    PROVE  Skip(s, p, chars) \in p .. s.len
<1> PICK T : T = {s.len} \cup {i \in p .. s.len - 1 : s.buf[i] \notin chars}
  OBVIOUS
<1>1. T \subseteq Nat /\ T # {} /\ T \subseteq p .. s.len
  OBVIOUS
<1>2. Min(T) \in T
  BY <1>1, MinIn
<1>3. QED
  BY <1>1, <1>2 DEF Skip

LEMMA SkipBackIs ==
    ASSUME NEW s, NEW p \in Nat, NEW chars
    PROVE  SkipBack(s, p, chars) \in 0 .. p
<1> PICK T : T = {0} \cup {i \in 1 .. p : s.buf[i - 1] \notin chars}
  OBVIOUS
<1>1. T \subseteq 0 .. p /\ T # {}
  OBVIOUS
<1>2. Max(T) \in T
  BY <1>1, MaxIn
<1>3. QED
  BY <1>1, <1>2 DEF SkipBack

LEMMA WordsAround ==
    ASSUME NEW s, Editable(s)
    PROVE  NextWord(s) \in s.pos .. s.len /\ PrevWord(s) \in 0 .. s.pos
<1>1. s.len \in Nat /\ s.pos \in 0 .. s.len /\ s.pos \in Nat
  BY LineFacts, Sizes DEF Editable
<1> PICK p : p = s.pos
  OBVIOUS
<1> PICK q : q = Skip(s, p, Chars \ AlphaOrDigit)
  OBVIOUS
<1>2. q \in p .. s.len
  BY <1>1, SkipIs
<1>3. q \in 0 .. s.len
  BY <1>1, <1>2
<1>4. Skip(s, q, AlphaOrDigit) \in q .. s.len
  BY <1>1, <1>3, SkipIs
<1> PICK r : r = SkipBack(s, p, Chars \ AlphaOrDigit)
  OBVIOUS
<1>5. r \in 0 .. p
  BY <1>1, SkipBackIs
<1>6. SkipBack(s, r, AlphaOrDigit) \in 0 .. r
  BY <1>1, <1>5, SkipBackIs
<1>7. QED
  BY <1>1, <1>2, <1>4, <1>5, <1>6 DEF NextWord, PrevWord

LEMMA WordDone ==
    ASSUME NEW s, Editable(s)
    PROVE  Done(s, MoveNextWord(s)) /\ Done(s, MovePrevWord(s))
<1>1. IsLine(s) /\ s.len \in Nat /\ s.pos \in 0 .. s.len
  BY LineFacts, Sizes DEF Editable
<1> PICK n, p : n = NextWord(s) /\ p = PrevWord(s)
  OBVIOUS
<1>2. n \in 0 .. s.len /\ p \in 0 .. s.len
  BY <1>1, WordsAround
<1>3. /\ Done(s, Refresh([s EXCEPT !.pos = n])) /\ Done(s, Refresh([s EXCEPT !.pos = p]))
      /\ Done(s, s)
  BY <1>1, <1>2, MoveDone, NothingDone
<1>4. QED
  BY <1>3 DEF MoveNextWord, MovePrevWord

LEMMA DeleteNextWordDone == ASSUME NEW s, Editable(s) PROVE Done(s, DeleteNextWord(s))
<1>1. /\ IsLine(s) /\ s.buf \in Texts /\ s.len \in 0 .. Limit /\ s.len \in Nat
      /\ s.pos \in 0 .. s.len /\ s.pos \in Nat /\ EndsAt(s.buf, s.len)
  BY LineFacts, Sizes DEF Editable
<1> PICK b, l, p, e : b = s.buf /\ l = s.len /\ p = s.pos /\ e = NextWord(s)
  OBVIOUS
<1>2. e \in p .. l
  BY WordsAround
<1> PICK n \in Nat, k \in Int, r \in Int : n = e - p /\ k = l - p + 1 /\ r = l - n
  BY <1>1, <1>2
<1>3. CASE n = 0
  BY <1>3, NothingDone DEF DeleteNextWord
<1>4. CASE n # 0
  <2>1. b \in Texts /\ l \in 0 .. Limit /\ p \in Nat /\ EndsAt(b, l)
    BY <1>1
  <2>2. p + n <= l /\ k >= l - p - n + 1 /\ r \in 0 .. Limit /\ p \in 0 .. r
    <3>1. l \in Nat /\ p \in Nat /\ l <= Limit /\ Limit \in Nat /\ e \in Nat /\ p <= e /\ e <= l
      BY <1>2, <2>1, Sizes
    <3>2. QED
      BY <3>1
  <2> PICK d : d = Memmove(b, p, p + n, k)
    OBVIOUS
  <2>3. d \in Texts /\ EndsAt(d, r) /\ CutOut(d, b, r, p, n)
    BY <2>1, <2>2, TextErased
  <2> PICK u : u = Put(s, d, r, p)
    OBVIOUS
  <2>4. Editable(u) /\ SameHistory(u, s) /\ HasLine(u, d, r, p)
    BY <1>1, <2>2, <2>3, PutIs
  <2>5. HasLine(s, b, l, p) /\ p <= p /\ p <= e /\ e <= l /\ e = p + n /\ e \in Nat
    BY <1>1, <1>2 DEF HasLine
  <2>6. EditedTo(s, u)
    BY <2>1, <2>3, <2>4, <2>5, CutIsEdited
  <2>7. DeleteNextWord(s) = u
    BY <1>4 DEF DeleteNextWord
  <2>8. QED
    BY <2>4, <2>6, <2>7 DEF Done
<1>5. QED
  BY <1>3, <1>4

LEMMA DeletePrevWordDone == ASSUME NEW s, Editable(s) PROVE Done(s, DeletePrevWord(s))
<1>1. /\ IsLine(s) /\ s.buf \in Texts /\ s.len \in 0 .. Limit /\ s.len \in Nat
      /\ s.pos \in 0 .. s.len /\ s.pos \in Nat /\ EndsAt(s.buf, s.len)
  BY LineFacts, Sizes DEF Editable
<1> PICK b, l, p, q : b = s.buf /\ l = s.len /\ p = s.pos /\ q = PrevWord(s)
  OBVIOUS
<1>2. q \in 0 .. p
  BY WordsAround
<1> PICK n \in Nat, k \in Int, r \in Int : n = p - q /\ k = l - p + 1 /\ r = l - n
  BY <1>1, <1>2
<1>3. CASE n = 0
  BY <1>3, NothingDone DEF DeletePrevWord
<1>4. CASE n # 0
  <2>1. b \in Texts /\ l \in 0 .. Limit /\ q \in Nat /\ EndsAt(b, l)
    BY <1>1, <1>2
  <2>2. q + n <= l /\ k >= l - q - n + 1 /\ r \in 0 .. Limit /\ q \in 0 .. r
    <3>1. l \in Nat /\ p \in Nat /\ l <= Limit /\ Limit \in Nat /\ q \in Nat /\ q <= p /\ p <= l
      BY <1>1, <1>2, <2>1, Sizes
    <3>2. QED
      BY <3>1
  <2>3. p - n = q /\ q + n = p
    BY <1>1, <1>2
  <2> PICK d : d = Memmove(b, q, q + n, k)
    OBVIOUS
  <2>4. d \in Texts /\ EndsAt(d, r) /\ CutOut(d, b, r, q, n)
    BY <2>1, <2>2, TextErased
  <2> PICK u : u = Put(s, d, r, q)
    OBVIOUS
  <2>5. Editable(u) /\ SameHistory(u, s) /\ HasLine(u, d, r, q)
    BY <1>1, <2>2, <2>4, PutIs
  <2>6. HasLine(s, b, l, p) /\ q <= p /\ p <= p /\ p <= l /\ p = q + n /\ p \in Nat
    BY <1>1, <1>2, <2>3 DEF HasLine
  <2>7. EditedTo(s, u)
    BY <2>1, <2>4, <2>5, <2>6, CutIsEdited
  <2>8. DeletePrevWord(s) = u
    BY <1>4, <2>3 DEF DeletePrevWord
  <2>9. QED
    BY <2>5, <2>7, <2>8 DEF Done
<1>5. QED
  BY <1>3, <1>4

LEMMA CutDone ==
    ASSUME NEW s, Editable(s)
    PROVE  Done(s, DeleteToEnd(s)) /\ Done(s, DeleteAll(s))
<1>1. /\ IsLine(s) /\ s.buf \in Texts /\ s.len \in 0 .. Limit /\ s.len \in Nat
      /\ s.pos \in 0 .. s.len /\ EndsAt(s.buf, s.len)
  BY LineFacts, Sizes DEF Editable
<1> PICK b, l, p : b = s.buf /\ l = s.len /\ p = s.pos
  OBVIOUS
<1>2. ASSUME NEW q \in 0 .. l
      PROVE  LET r == Put(s, [b EXCEPT ![q] = Nul], q, q)
             IN  Editable(r) /\ SameHistory(r, s) /\ HasLine(r, [b EXCEPT ![q] = Nul], q, q)
  <2> PICK d : d = [b EXCEPT ![q] = Nul]
    OBVIOUS
  <2>1. d \in Texts /\ EndsAt(d, q)
    BY <1>1, TextCut
  <2>2. q \in 0 .. Limit /\ q \in 0 .. q
    BY <1>1, Sizes
  <2>3. QED
    BY <1>1, <2>1, <2>2, PutIs
<1> PICK zero \in Nat : zero = 0
  OBVIOUS
<1>3. Done(s, DeleteToEnd(s))
  <2> PICK d, r : d = [b EXCEPT ![p] = Nul] /\ r = Put(s, d, p, p)
    OBVIOUS
  <2>1. Editable(r) /\ SameHistory(r, s) /\ HasLine(r, d, p, p) /\ HasLine(s, b, l, p)
    BY <1>1, <1>2 DEF HasLine
  <2> PICK n \in Nat : n = l - p
    BY <1>1
  <2>2. CutOut(d, b, p, p, n)
    <3>1. \A i \in 0 .. p - 1 : i < p /\ i # p
      BY <1>1
    <3>2. \A i \in 0 .. p - 1 : i \in Offsets
      BY <1>1, Sizes
    <3>3. \A i \in 0 .. p - 1 : d[i] = b[i]
      BY <1>1, <3>1, <3>2 DEF Texts
    <3>4. QED
      BY <3>1, <3>3 DEF CutOut
  <2>3. p \in Nat /\ l \in Nat /\ p <= p /\ p <= l /\ l <= l /\ l = p + n /\ p = l - n
    BY <1>1
  <2>4. EditedTo(s, r)
    BY <2>1, <2>2, <2>3, CutIsEdited
  <2>5. DeleteToEnd(s) = r
    BY DEF DeleteToEnd
  <2>6. QED
    BY <2>1, <2>4, <2>5 DEF Done
<1>4. Done(s, DeleteAll(s))
  <2> PICK d, r : d = [b EXCEPT ![zero] = Nul] /\ r = Put(s, d, zero, zero)
    OBVIOUS
  <2>1. Editable(r) /\ SameHistory(r, s) /\ HasLine(r, d, zero, zero)
    BY <1>1, <1>2
  <2>2. Before(r) = <<>> /\ After(r) = <<>>
    <3>1. Reads(Before(r), d, 0, zero) /\ Reads(After(r), d, zero, zero - zero)
      BY <2>1, Sides
    <3>2. QED
      BY <3>1, EmptySeq DEF Reads
  <2>3. EditedTo(s, r)
    BY <2>2, ErasedIsEdited
  <2>4. DeleteAll(s) = r
    BY DEF DeleteAll
  <2>5. QED
    BY <2>1, <2>3, <2>4 DEF Done
<1>5. QED
  BY <1>3, <1>4

(* d is b with the characters on both sides of p exchanged                 *)
SwappedAt(d, b, l, p) ==
    \A i \in 0 .. l - 1 : d[i] = IF i = p - 1 THEN b[p] ELSE IF i = p THEN b[p - 1] ELSE b[i]

LEMMA SwappedSides ==
    ASSUME NEW x, NEW y, NEW b, NEW d, NEW l \in Nat, NEW p \in Nat, NEW rest \in Nat,
           1 <= p, p <= l - 1, rest = l - p, Reads(x, b, 0, p), Reads(y, b, p, rest),
           SwappedAt(d, b, l, p)
    PROVE  /\ x # <<>> /\ y # <<>>
           /\ Reads(Append(Front(x), Head(y)) \o (<<Last(x)>> \o Tail(y)), d, 0, l)
<1> PICK q \in Nat, next \in Nat, tail \in Nat, zero \in Nat, one \in Nat, two \in Nat :
         q = p - 1 /\ next = p + 1 /\ tail = rest - 1 /\ zero = 0 /\ one = 1 /\ two = 2
  OBVIOUS
<1>0. q \in Int /\ next \in Int /\ tail \in Int /\ zero \in Int /\ one \in Int /\ two \in Int
      /\ p \in Int /\ rest \in Int
  OBVIOUS
<1>1. x \in Seq(Chars) /\ Len(x) = p /\ y \in Seq(Chars) /\ Len(y) = rest
  BY DEF Reads
<1> PICK u, v : u = b[p] /\ v = b[q]
  OBVIOUS
<1>2. x[p] = v /\ y[1] = u
  <2>1. p \in 1 .. p /\ 1 \in 1 .. rest /\ 0 + p - 1 = q /\ p + 1 - 1 = p
    OBVIOUS
  <2>2. (\A i \in 1 .. p : x[i] = b[0 + i - 1]) /\ \A i \in 1 .. rest : y[i] = b[p + i - 1]
    BY DEF Reads
  <2>3. QED
    BY <2>1, <2>2
<1>3. u \in Chars /\ v \in Chars
  <2>1. p \in 1 .. Len(x) /\ 1 \in 1 .. Len(y)
    BY <1>1
  <2>2. QED
    BY <1>1, <1>2, <2>1, ElementOfSeq
<1>4. x # <<>> /\ y # <<>>
  BY <1>1, EmptySeq
<1>5. Last(x) = v /\ Head(y) = u
  BY <1>1, <1>2, <1>4 DEF Last
<1>6. \A i \in 0 .. l - 1 : d[i] = IF i = q THEN u ELSE IF i = p THEN v ELSE b[i]
  BY DEF SwappedAt
<1>7. Reads(SubSeq(x, one, q), d, zero, q)
  <2>1. Reads(SubSeq(x, one, q), b, zero, q)
    <3>1. Reads(x, b, zero, p) /\ one >= 1 /\ one <= q + 1 /\ q <= p /\ zero = zero + one - 1
          /\ q = q - one + 1
      OBVIOUS
    <3>2. QED
      BY <1>0, <3>1, ReadsPart
  <2>2. \A i \in 1 .. q : d[zero + i - 1] = b[zero + i - 1]
    <3>1. \A i \in 1 .. q : zero + i - 1 \in 0 .. l - 1 /\ zero + i - 1 # q /\ zero + i - 1 # p
      OBVIOUS
    <3>2. QED
      BY <1>6, <3>1
  <2>3. QED
    BY <2>1, <2>2, ReadsMoved
<1>8. Reads(<<u>>, d, q, one) /\ Reads(<<v>>, d, p, one)
  <2>1. q \in 0 .. l - 1 /\ p \in 0 .. l - 1 /\ p # q
    OBVIOUS
  <2>2. d[q] = u /\ d[p] = v
    BY <1>6, <2>1
  <2>3. QED
    BY <1>0, <1>3, <2>2, ReadsChar
<1>9. Reads(SubSeq(y, two, rest), d, next, tail)
  <2>1. Reads(SubSeq(y, two, rest), b, next, tail)
    <3>1. /\ two >= 1 /\ two <= rest + 1 /\ rest <= rest /\ next = p + two - 1
          /\ tail = rest - two + 1
      OBVIOUS
    <3>2. QED
      BY <1>0, <3>1, ReadsPart
  <2>2. \A i \in 1 .. tail : d[next + i - 1] = b[next + i - 1]
    <3>1. \A i \in 1 .. tail : next + i - 1 \in 0 .. l - 1 /\ next + i - 1 # q /\ next + i - 1 # p
      OBVIOUS
    <3>2. QED
      BY <1>6, <3>1
  <2>3. QED
    BY <2>1, <2>2, ReadsMoved
<1> PICK left, right : left = SubSeq(x, one, q) \o <<u>> /\ right = <<v>> \o SubSeq(y, two, rest)
  OBVIOUS
<1>10. Reads(left, d, zero, p) /\ Reads(right, d, p, rest)
  <2>1. q = zero + q /\ p = q + one /\ next = p + one /\ rest = one + tail
    OBVIOUS
  <2>2. Reads(left, d, zero, p)
    BY <1>0, <1>7, <1>8, <2>1, ReadsJoined
  <2>3. Reads(right, d, p, rest)
    BY <1>0, <1>8, <1>9, <2>1, ReadsJoined
  <2>4. QED
    BY <2>2, <2>3
<1>11. Reads(left \o right, d, zero, l)
  <2>1. p = zero + p /\ l = p + rest
    OBVIOUS
  <2>2. QED
    BY <1>0, <1>10, <2>1, ReadsJoined
<1>12. left = Append(Front(x), Head(y))
  <2>1. Front(x) = SubSeq(x, one, q)
    BY <1>1 DEF Front
  <2>2. Front(x) \in Seq(Chars)
    BY <1>7, <2>1 DEF Reads
  <2>3. Append(Front(x), u) = Front(x) \o <<u>>
    BY <1>3, <2>2, AppendIsConcat
  <2>4. QED
    BY <1>5, <2>1, <2>3
<1>13. right = <<Last(x)>> \o Tail(y)
  <2>1. Tail(y) = SubSeq(y, 2, Len(y))
    BY <1>1, <1>4, TailIsSubSeq
  <2>2. QED
    BY <1>1, <1>5, <2>1
<1>14. QED
  BY <1>4, <1>11, <1>12, <1>13

LEMMA TransposeDone == ASSUME NEW s, Editable(s) PROVE Done(s, Transpose(s))
<1>1. CASE s.pos = 0 \/ s.pos >= s.len
  BY <1>1, NothingDone DEF Transpose
<1>2. CASE ~ (s.pos = 0 \/ s.pos >= s.len)
  <2> PICK b, l, p : b = s.buf /\ l = s.len /\ p = s.pos
    OBVIOUS
  <2>1. /\ IsLine(s) /\ b \in Texts /\ l \in 0 .. Limit /\ p \in 1 .. l - 1 /\ EndsAt(b, l)
        /\ HasLine(s, b, l, p)
    BY <1>2, LineFacts, Sizes DEF Editable, HasLine
  <2>2. l \in Nat /\ p \in Nat /\ 1 <= p /\ p <= l - 1 /\ l - p \in Nat
    BY <2>1, Sizes
  <2> PICK d, k : /\ d = [b EXCEPT ![p - 1] = b[p], ![p] = b[p - 1]]
                  /\ k = IF p # l - 1 THEN p + 1 ELSE p
    OBVIOUS
  <2>3. d \in Texts /\ EndsAt(d, l)
    BY <2>1, TextSwapped
  <2>4. k \in 0 .. l /\ k \in Nat
    BY <2>2
  <2> PICK r : r = Put(s, d, l, k)
    OBVIOUS
  <2>5. Editable(r) /\ SameHistory(r, s) /\ HasLine(r, d, l, k)
    BY <2>1, <2>3, <2>4, PutIs
  <2> PICK x, y, left, right : /\ x = Before(s) /\ y = After(s)
                               /\ left = Append(Front(x), Head(y))
                               /\ right = <<Last(x)>> \o Tail(y)
    OBVIOUS
  <2> PICK rest \in Nat : rest = l - p
    BY <2>2
  <2>6. Reads(x, b, 0, p) /\ Reads(y, b, p, rest)
    BY <2>1, Sides
  <2>7. SwappedAt(d, b, l, p)
    <3>1. \A i \in 0 .. l - 1 : i \in Offsets
      BY <2>1, Sizes
    <3>2. p - 1 # p
      BY <2>2
    <3>3. QED
      BY <2>1, <3>1, <3>2 DEF Texts, SwappedAt
  <2>8. x # <<>> /\ y # <<>> /\ Reads(left \o right, d, 0, l)
    BY <2>2, <2>6, <2>7, SwappedSides
  <2> PICK t : t = left \o right
    OBVIOUS
  <2>9. t = Line(r) /\ Len(t) = l
    <3>1. Reads(Line(r), d, 0, l)
      BY <2>5, ReadsLine DEF Editable, HasLine
    <3>2. t = Line(r)
      BY <2>8, <3>1, ReadsOne
    <3>3. QED
      BY <2>8, <3>2 DEF Reads
  <2>10. Before(r) = SubSeq(t, 1, k) /\ After(r) = SubSeq(t, k + 1, Len(t)) /\ k \in 0 .. Len(t)
    BY <2>4, <2>5, <2>9 DEF Before, After, HasLine
  <2>11. EditedTo(s, r)
    <3> PICK m, q : m = right /\ q = left
      OBVIOUS
    <3>1. x # <<>> /\ y # <<>> /\ q = Append(Front(x), Head(y)) /\ m = <<Last(x)>> \o Tail(y)
          /\ t = q \o m
      BY <2>8
    <3>2. Edits!Place(Before(r), After(r)) \in Edits!Moved(q, m)
      BY <2>10, <3>1, ZenonT(30) DEF Edits!Moved
    <3>3. Edits!Swapped(x, y) = Edits!Moved(q, m)
      BY <3>1 DEF Edits!Swapped, Front, Last, Edits!Front, Edits!Last
    <3>4. Edits!Swapped(x, y) \subseteq Edits!Edited(Edits!Place(x, y))
      BY DEF Edits!Edited, Edits!Place
    <3>5. QED
      BY <3>2, <3>3, <3>4 DEF EditedTo
  <2>12. Transpose(s) = r
    BY <1>2 DEF Transpose
  <2>13. QED
    BY <2>5, <2>11, <2>12 DEF Done
<1>3. QED
  BY <1>1, <1>2

LEMMA ClearScreenDone == ASSUME NEW s, Editable(s) PROVE Done(s, ClearScreen(s))
<1> PICK blank : blank = BlankScreen(0)
  OBVIOUS
<1> PICK q : q = [s EXCEPT !.screen = blank, !.top = 0]
  OBVIOUS
<1>1. Kinds(s)
  BY DEF Editable, IsLine
<1>2. Kinds(q) /\ SameLine(q, s)
  BY <1>1 DEF Kinds, SameLine
<1> PICK r : r = Refresh(q)
  OBVIOUS
<1>3. Kinds(r) /\ SameLine(r, q)
  BY <1>2, Refreshed
<1>4. Editable(r) /\ SameLine(r, s) /\ SameHistory(r, s)
  BY <1>2, <1>3 DEF SameLine, SameHistory, Editable, IsLine
<1>5. EditedTo(s, r)
  BY <1>4, SameIsEdited
<1>6. ClearScreen(s) = r
  BY DEF ClearScreen
<1>7. QED
  BY <1>4, <1>5, <1>6 DEF Done

-----------------------------------------------------------------------------
(* The history. *)

(* strncpy, cut to leave room for ENTER, copies the start of the entry.     *)
CopyLength(entry) == IF Len(entry) < Limit - 1 THEN Len(entry) ELSE Limit - 1

LEMMA CopyIs ==
    ASSUME NEW b \in Texts, NEW entry \in Seq(Chars), NEW d, NEW m, m = CopyLength(entry),
           d = [i \in Offsets |->
                   IF i >= Limit THEN b[i]
                   ELSE IF i < Len(entry) /\ i # Limit - 1 THEN entry[i + 1] ELSE Nul]
    PROVE  /\ d \in Texts /\ m \in 0 .. Limit /\ EndsAt(d, m) /\ m <= Len(entry)
           /\ Reads(SubSeq(entry, 1, m), d, 0, m)
<1>1. Len(entry) \in Nat /\ m \in Nat /\ m <= Limit - 1 /\ m <= Len(entry) /\ m \in Offsets
  BY Sizes DEF CopyLength
<1>2. \A i \in 1 .. Len(entry) : entry[i] \in Chars
  OBVIOUS
<1>3. d[m] = Nul
  BY <1>1, Sizes DEF CopyLength
<1>4. \A i \in 0 .. m - 1 : d[i] = entry[i + 1] /\ d[i] \in Chars
  <2> SUFFICES ASSUME NEW i \in 0 .. m - 1
               PROVE  d[i] = entry[i + 1] /\ d[i] \in Chars
    OBVIOUS
  <2>1. i \in Offsets /\ i < Limit - 1 /\ i < Len(entry) /\ i + 1 \in 1 .. Len(entry)
    BY <1>1, Sizes
  <2>2. d[i] = entry[i + 1]
    BY <2>1, Sizes
  <2>3. QED
    BY <1>2, <2>1, <2>2
<1>5. \A i \in Offsets : d[i] \in Chars \cup {Nul, Leftover}
  <2> SUFFICES ASSUME NEW i \in Offsets
               PROVE  d[i] \in Chars \cup {Nul, Leftover}
    OBVIOUS
  <2>1. CASE i >= Limit
    BY <2>1 DEF Texts
  <2>2. CASE ~ (i >= Limit) /\ i < Len(entry) /\ i # Limit - 1
    <3>1. d[i] = entry[i + 1] /\ i + 1 \in 1 .. Len(entry)
      BY <2>2, <1>1, Sizes
    <3>2. QED
      BY <1>2, <3>1
  <2>3. CASE ~ (i >= Limit) /\ ~ (i < Len(entry) /\ i # Limit - 1)
    BY <2>3
  <2>4. QED
    BY <2>1, <2>2, <2>3
<1>6. d \in Texts
  BY <1>5 DEF Texts
<1>7. m \in 0 .. Limit /\ EndsAt(d, m)
  BY <1>1, <1>3, <1>4, Sizes DEF EndsAt
<1>8. Reads(SubSeq(entry, 1, m), d, 0, m)
  <2> PICK u : u = SubSeq(entry, 1, m)
    OBVIOUS
  <2>1. \A i \in 1 .. m : i \in 1 .. Len(entry)
    BY <1>1
  <2>2. u \in Seq(Chars) /\ Len(u) = m /\ \A i \in 1 .. m : u[i] = entry[i]
    BY <1>1, <1>2, <2>1, SubSeqProperties
  <2>4. ASSUME NEW i \in 1 .. m
        PROVE  u[i] = d[0 + i - 1]
    <3> PICK j : j = i - 1
      OBVIOUS
    <3>1. j \in 0 .. m - 1 /\ 0 + i - 1 = j /\ j + 1 = i
      BY <1>1
    <3>2. d[j] = entry[j + 1] /\ u[i] = entry[i]
      BY <1>4, <2>2, <3>1
    <3>3. QED
      BY <3>1, <3>2
  <2>5. QED
    BY <2>2, <2>4 DEF Reads
<1>9. QED
  BY <1>1, <1>6, <1>7, <1>8

(* h is the history of s with the line that is edited saved in it          *)
SavedIn(h, s) ==
    /\ Len(h) = Len(s.hist) /\ Len(s.hist) \in Nat
    /\ \A i \in 1 .. Len(h) : h[i] = IF i = Len(h) - s.index THEN Line(s) ELSE s.hist[i]

LEMMA SavedDone ==
    ASSUME NEW s, Editable(s)
    PROVE  /\ Editable(Saved(s)) /\ SavedIn(Saved(s).hist, s)
           /\ HasLine(Saved(s), s.buf, s.len, s.pos) /\ Saved(s).index = s.index
<1>1. /\ Kinds(s) /\ s.buf \in Texts /\ s.len \in 0 .. Limit /\ EndsAt(s.buf, s.len)
      /\ s.hist \in Seq(Seq(Chars)) /\ s.index \in Nat /\ s.index < Len(s.hist)
      /\ HistoryFits(s.hist)
  BY LineFacts DEF Editable, IsLine
<1> PICK line, h, at : line = CString(s.buf) /\ at = Len(s.hist) - s.index
                    /\ h = [s.hist EXCEPT ![at] = line]
  OBVIOUS
<1>2. line \in Seq(Chars) /\ Len(line) = s.len /\ s.len <= Limit /\ line = Line(s)
  <2> PICK b, l : b = s.buf /\ l = s.len
    OBVIOUS
  <2>1. l \in 0 .. Limit /\ EndsAt(b, l) /\ l <= Limit
    BY <1>1, Sizes
  <2>2. /\ CString(b) \in Seq(Chars) /\ Len(CString(b)) = l
        /\ CString(b) = [i \in 1 .. l |-> b[i - 1]]
    BY <2>1, StringOf
  <2>3. QED
    BY <2>1, <2>2 DEF Line
<1>3. at \in DOMAIN s.hist /\ DOMAIN h = DOMAIN s.hist
  BY <1>1
<1>4. h \in Seq(Seq(Chars)) /\ Len(h) = Len(s.hist)
  BY <1>1, <1>2, <1>3, ExceptSeq
<1>5. \A i \in DOMAIN s.hist : h[i] = IF i = at THEN line ELSE s.hist[i]
  BY <1>1
<1>6. HistoryFits(h)
  BY <1>1, <1>2, <1>3, <1>4, <1>5 DEF HistoryFits
<1> PICK r : r = [s EXCEPT !.hist = h]
  OBVIOUS
<1>7. Kinds(r) /\ r.hist = h /\ r.buf = s.buf /\ r.len = s.len /\ r.pos = s.pos
      /\ r.index = s.index
  BY <1>1, <1>4 DEF Kinds
<1>8. Editable(r)
  BY <1>1, <1>4, <1>6, <1>7 DEF Editable, IsLine
<1>9. SavedIn(h, s)
  <2>1. Len(s.hist) \in Nat /\ DOMAIN s.hist = 1 .. Len(s.hist)
    BY <1>1, LenProperties
  <2>2. QED
    BY <1>2, <1>4, <1>5, <2>1 DEF SavedIn
<1>10. Saved(s) = r
  BY DEF Saved
<1>11. QED
  BY <1>7, <1>8, <1>9, <1>10 DEF HasLine

(* r is s at the entry i of the history, after the keys up and down: the   *)
(* line is the start of that entry, the cursor at its end                  *)
Recalled(s, r, i) ==
    /\ i \in 1 .. Len(s.hist) /\ r.index = Len(s.hist) - i /\ r.index # s.index
    /\ SavedIn(r.hist, s) /\ s.hist[i] \in Seq(Chars)
    /\ Before(r) = SubSeq(s.hist[i], 1, CopyLength(s.hist[i])) /\ After(r) = <<>>
    /\ Line(r) = Before(r)

LEMMA AtEnd ==
    ASSUME NEW r, NEW b, NEW l, NEW p, Editable(r), HasLine(r, b, l, p), p = l
    PROVE  Reads(Before(r), b, 0, p) /\ After(r) = <<>> /\ Line(r) = Before(r)
<1> PICK rest : rest = l - p
  OBVIOUS
<1>1. /\ l \in Nat /\ Reads(Before(r), b, 0, p) /\ Reads(After(r), b, p, rest)
      /\ Before(r) \o After(r) = Line(r)
  BY Sides
<1>2. rest = 0
  BY <1>1
<1>3. Before(r) \in Seq(Chars) /\ After(r) \in Seq(Chars) /\ Len(After(r)) = 0
  BY <1>1, <1>2 DEF Reads
<1>4. After(r) = <<>>
  BY <1>3, EmptySeq
<1>5. QED
  BY <1>1, <1>3, <1>4, ConcatEmptySeq

(* What the keys up and down do.                                           *)
LEMMA HistoryDone ==
    ASSUME NEW s, NEW dir \in {-1, 1}, Editable(s)
    PROVE  /\ Editable(HistoryNext(s, dir))
           /\ \/ SameHistory(HistoryNext(s, dir), s) /\ EditedTo(s, HistoryNext(s, dir))
                 /\ Len(s.hist) <= 1
              \/ /\ HistoryNext(s, dir).index = s.index /\ SavedIn(HistoryNext(s, dir).hist, s)
                 /\ EditedTo(s, HistoryNext(s, dir))
              \/ \E i \in DOMAIN s.hist : Recalled(s, HistoryNext(s, dir), i)
<1> PICK n, saved, index : n = Len(s.hist) /\ saved = Saved(s) /\ index = s.index + dir
  OBVIOUS
<1>0. /\ Editable(saved) /\ IsLine(saved) /\ SavedIn(saved.hist, s)
      /\ HasLine(saved, s.buf, s.len, s.pos) /\ saved.index = s.index
  BY SavedDone DEF Editable
<1>1. CASE n <= 1
  <2>1. HistoryNext(s, dir) = s
    BY <1>1 DEF HistoryNext
  <2>2. SameHistory(s, s) /\ EditedTo(s, s)
    BY NothingDone DEF Done
  <2>3. QED
    BY <1>1, <2>1, <2>2
<1>2. CASE ~ (n <= 1) /\ index \notin 0 .. n - 1
  <2>1. HistoryNext(s, dir) = saved
    BY <1>2 DEF HistoryNext
  <2>2. Before(saved) = Before(s) /\ After(saved) = After(s)
    BY <1>0 DEF HasLine, Before, After, Line
  <2>3. EditedTo(s, saved)
    BY <2>2 DEF EditedTo
  <2>4. QED
    BY <1>0, <2>1, <2>3
<1>3. CASE ~ (n <= 1) /\ index \in 0 .. n - 1
  <2>1. /\ saved.hist \in Seq(Seq(Chars)) /\ s.buf \in Texts /\ Kinds(saved) /\ IsLine(s)
        /\ s.hist \in Seq(Seq(Chars)) /\ s.index \in Nat /\ Len(saved.hist) = n /\ n \in Nat
    BY <1>0, LineFacts DEF Editable, IsLine, SavedIn
  <2>a. n - index \in 1 .. n /\ index \in Nat
    <3>1. n \in Nat
      BY <2>1
    <3>2. QED
      BY <1>3, <3>1
  <2>b. n - (n - index) = index
    BY <2>1, <2>a
  <2>c. index # s.index
    BY <2>1, <2>a
  <2>2. PICK at \in 1 .. n : at = n - index /\ index \in Nat /\ index = n - at /\ index # s.index
    BY <2>a, <2>b, <2>c
  <2> PICK entry, b : entry = saved.hist[at] /\ b = s.buf
    OBVIOUS
  <2>3. entry \in Seq(Chars) /\ entry = s.hist[at]
    <3>1. at # n - s.index
      BY <2>1, <2>2
    <3>2. entry = s.hist[at]
      BY <1>0, <2>1, <2>2, <3>1 DEF SavedIn
    <3>3. QED
      BY <2>1, <2>2, <3>2, ElementOfSeq
  <2> PICK copy, m : copy = [i \in Offsets |->
                   IF i >= Limit THEN b[i]
                   ELSE IF i < Len(entry) /\ i # Limit - 1 THEN entry[i + 1] ELSE Nul]
                  /\ m = CopyLength(entry)
    OBVIOUS
  <2>4. /\ copy \in Texts /\ m \in 0 .. Limit /\ EndsAt(copy, m) /\ m <= Len(entry)
        /\ Reads(SubSeq(entry, 1, m), copy, 0, m)
    BY <2>1, <2>3, CopyIs
  <2>5. Len(CString(copy)) = m /\ m \in 0 .. m /\ m \in Nat
    BY <2>4, StringOf, Sizes
  <2> PICK q, r : q = [saved EXCEPT !.index = index] /\ r = Put(q, copy, m, m)
    OBVIOUS
  <2>6. IsLine(q) /\ q.hist = saved.hist /\ q.index = index
    <3>1. /\ Kinds(q) /\ q.buf = saved.buf /\ q.len = saved.len /\ q.hist = saved.hist
          /\ q.index = index
      BY <2>1, <2>2 DEF Kinds
    <3>2. index < n
      BY <1>3, <2>2
    <3>3. QED
      BY <1>0, <2>1, <3>1, <3>2 DEF IsLine
  <2>7. Editable(r) /\ SameHistory(r, q) /\ HasLine(r, copy, m, m)
    BY <2>4, <2>5, <2>6, PutIs
  <2>8. Reads(Before(r), copy, 0, m) /\ After(r) = <<>> /\ Line(r) = Before(r)
    BY <2>7, AtEnd
  <2>11. Before(r) = SubSeq(entry, 1, m)
    BY <2>4, <2>8, ReadsOne
  <2>12. Recalled(s, r, at)
    BY <1>0, <2>2, <2>3, <2>6, <2>7, <2>8, <2>11 DEF Recalled, SameHistory
  <2>13. HistoryNext(s, dir) = r
    <3>1. entry = saved.hist[n - index] /\ b = s.buf
      BY <2>2
    <3>2. HistoryNext(s, dir) = Put(q, copy, Len(CString(copy)), Len(CString(copy)))
      BY <1>3, <3>1 DEF HistoryNext
    <3>3. QED
      BY <2>5, <3>2
  <2>14. at \in DOMAIN s.hist
    BY <2>1, <2>2, LenProperties
  <2>15. QED
    BY <2>7, <2>12, <2>13, <2>14
<1>4. QED
  BY <1>1, <1>2, <1>3

-----------------------------------------------------------------------------
(* The elements of a sequence that are in a set.                           *)

SelectedStep(seq, S, f, i) ==
    IF i = 0 THEN <<>>
    ELSE IF seq[i] \in S THEN Append(f[i - 1], seq[i]) ELSE f[i - 1]
(* f is the function of Selected on the numbers below b *)
SelectedBelow(seq, S, f, b) == \A i \in Nat : i < b => f[i] = SelectedStep(seq, S, f, i)

LEMMA SelectedExists == ASSUME NEW seq, NEW S, NEW b \in Nat PROVE \E f : SelectedBelow(seq, S, f, b)
<1> DEFINE T == {x \in Nat : \A f : ~ SelectedBelow(seq, S, f, x)}
<1>1. ASSUME T # {}
      PROVE  FALSE
  <2>1. PICK x \in T : \A y \in T : x <= y
    <3>1. T \subseteq Nat
      OBVIOUS
    <3> HIDE DEF T
    <3>2. QED
      BY <1>1, <3>1, LeastNat
  <2>2. x \in Nat /\ \A f : ~ SelectedBelow(seq, S, f, x)
    OBVIOUS
  <2>3. x # 0
    <3>1. ASSUME NEW f PROVE SelectedBelow(seq, S, f, 0)
      BY DEF SelectedBelow
    <3>2. QED
      BY <2>2, <3>1
  <2>4. x - 1 \in Nat /\ x - 1 \notin T
    <3> HIDE DEF T
    <3> QED
      BY <2>1, <2>2, <2>3
  <2>5. PICK f : SelectedBelow(seq, S, f, x - 1)
    BY <2>4
  <2> DEFINE g == [i \in Nat |-> IF i = x - 1 THEN SelectedStep(seq, S, f, i) ELSE f[i]]
  <2>6. ASSUME NEW i \in Nat, i < x
        PROVE  g[i] = SelectedStep(seq, S, g, i)
    <3>1. g[i] = SelectedStep(seq, S, f, i)
      <4>1. CASE i = x - 1
        BY <4>1
      <4>2. CASE i # x - 1
        <5>1. i < x - 1
          BY <2>2, <2>6, <4>2
        <5>2. QED
          BY <2>5, <4>2, <5>1 DEF SelectedBelow
      <4>3. QED
        BY <4>1, <4>2
    <3>2. i # 0 => g[i - 1] = f[i - 1]
      <4>1. i # 0 => i - 1 \in Nat /\ i - 1 # x - 1
        BY <2>2, <2>6
      <4>2. QED
        BY <4>1
    <3>3. SelectedStep(seq, S, f, i) = SelectedStep(seq, S, g, i)
      <4> HIDE DEF g
      <4> QED
        BY <3>2 DEF SelectedStep
    <3>4. QED
      BY <3>1, <3>3
  <2>7. SelectedBelow(seq, S, g, x)
    <3> HIDE DEF g
    <3> QED
      BY <2>6 DEF SelectedBelow
  <2>8. QED
    BY <2>2, <2>7
<1>2. QED
  <2>1. b \notin T
    <3> HIDE DEF T
    <3> QED
      BY <1>1
  <2>2. QED
    BY <2>1

SameUpTo(n, seq, other) == \A i \in 1 .. n : seq[i] = other[i]

LEMMA SelectedAgree ==
    ASSUME NEW seq, NEW other, NEW S, NEW f, NEW g, NEW b \in Nat, NEW n \in Nat, n < b,
           SelectedBelow(seq, S, f, b), SelectedBelow(other, S, g, b),
           SameUpTo(n, seq, other)
    PROVE  f[n] = g[n]
<1> DEFINE T == {x \in Nat : x <= n /\ f[x] # g[x]}
<1>1. ASSUME T # {}
      PROVE  FALSE
  <2>1. PICK x \in T : \A y \in T : x <= y
    <3>1. T \subseteq Nat
      OBVIOUS
    <3> HIDE DEF T
    <3>2. QED
      BY <1>1, <3>1, LeastNat
  <2>2. x \in Nat /\ x <= n /\ f[x] # g[x] /\ x < b
    OBVIOUS
  <2>3. f[x] = SelectedStep(seq, S, f, x) /\ g[x] = SelectedStep(other, S, g, x)
    BY <2>2 DEF SelectedBelow
  <2>4. x # 0 => f[x - 1] = g[x - 1] /\ seq[x] = other[x]
    <3>1. x # 0 => x - 1 \in Nat /\ x - 1 <= n /\ ~ (x <= x - 1) /\ x \in 1 .. n
      BY <2>2
    <3>2. QED
      BY <2>1, <3>1 DEF SameUpTo
  <2>5. QED
    BY <2>2, <2>3, <2>4 DEF SelectedStep
<1>2. n \notin T
  <2> HIDE DEF T
  <2> QED
    BY <1>1
<1>3. QED
  BY <1>2

(* Selected is what its function says of the length.                       *)
LEMMA SelectedIs ==
    ASSUME NEW seq, NEW S
    PROVE  \E f : /\ Selected(seq, S) = f[Len(seq)]
                  /\ \A b \in Nat : SelectedBelow(seq, S, f, b)
<1> DEFINE Eq(f) == f = [i \in Nat |->
                            IF i = 0 THEN <<>>
                            ELSE IF seq[i] \in S THEN Append(f[i - 1], seq[i]) ELSE f[i - 1]]
           kept == CHOOSE f : Eq(f)
           below(b) == CHOOSE f : SelectedBelow(seq, S, f, b + 1)
           F == [i \in Nat |-> below(i)[i]]
<1>1. \A b \in Nat : SelectedBelow(seq, S, below(b), b + 1)
  <2> SUFFICES ASSUME NEW b \in Nat
               PROVE  SelectedBelow(seq, S, below(b), b + 1)
    OBVIOUS
  <2>1. b + 1 \in Nat
    OBVIOUS
  <2>2. \E f : SelectedBelow(seq, S, f, b + 1)
    BY <2>1, SelectedExists
  <2>3. QED
    BY <2>2, Zenon
<1> HIDE DEF below
<1>2. ASSUME NEW i \in Nat
      PROVE  F[i] = SelectedStep(seq, S, F, i)
  <2>1. F[i] = SelectedStep(seq, S, below(i), i)
    BY <1>1 DEF SelectedBelow
  <2>2. i # 0 => below(i)[i - 1] = F[i - 1]
    <3> SUFFICES ASSUME i # 0
                 PROVE  below(i)[i - 1] = F[i - 1]
      OBVIOUS
    <3> PICK j \in Nat : j = i - 1
      OBVIOUS
    <3>1. SelectedBelow(seq, S, below(i), i) /\ SelectedBelow(seq, S, below(j), i)
      <4>1. SelectedBelow(seq, S, below(i), i + 1) /\ SelectedBelow(seq, S, below(j), j + 1)
        BY <1>1
      <4>2. j + 1 = i /\ \A x \in Nat : x < i => x < i + 1
        OBVIOUS
      <4>3. QED
        BY <4>1, <4>2 DEF SelectedBelow
    <3>2. j < i
      OBVIOUS
    <3>3. below(i)[j] = below(j)[j]
      <4>1. SameUpTo(j, seq, seq)
        BY DEF SameUpTo
      <4>2. QED
        BY <3>1, <3>2, <4>1, SelectedAgree
    <3>4. QED
      BY <3>3
  <2>3. QED
    <3> HIDE DEF F
    <3> QED
      BY <2>1, <2>2 DEF SelectedStep
<1>3. Eq(F)
  <2>1. F = [i \in Nat |-> F[i]]
    OBVIOUS
  <2>2. \A i \in Nat : F[i] = IF i = 0 THEN <<>>
                              ELSE IF seq[i] \in S THEN Append(F[i - 1], seq[i])
                              ELSE F[i - 1]
    <3> HIDE DEF F
    <3> QED
      BY <1>2 DEF SelectedStep
  <2> HIDE DEF F
  <2>3. QED
    BY <2>1, <2>2
<1>4. Eq(kept)
  <2>1. \E f : Eq(f)
    BY <1>3, Zenon
  <2> HIDE DEF Eq
  <2>2. QED
    BY <2>1, Zenon
<1>5. Selected(seq, S) = kept[Len(seq)]
  BY DEF Selected
<1> HIDE DEF kept
<1>6. \A i \in Nat : kept[i] = SelectedStep(seq, S, kept, i)
  BY <1>4 DEF SelectedStep
<1> HIDE DEF Eq
<1>7. \A b \in Nat : SelectedBelow(seq, S, kept, b)
  BY <1>6 DEF SelectedBelow
<1>8. QED
  BY <1>5, <1>7

LEMMA SelectedAreIn ==
    ASSUME NEW T, NEW seq \in Seq(T), NEW S
    PROVE  Selected(seq, S) \in Seq(S)
<1>1. PICK f : Selected(seq, S) = f[Len(seq)] /\ \A b \in Nat : SelectedBelow(seq, S, f, b)
  BY SelectedIs
<1> DEFINE U == {x \in Nat : f[x] \notin Seq(S)}
<1>2. ASSUME U # {}
      PROVE  FALSE
  <2>1. PICK x \in U : \A y \in U : x <= y
    <3>1. U \subseteq Nat
      OBVIOUS
    <3> HIDE DEF U
    <3>2. QED
      BY <1>2, <3>1, LeastNat
  <2>2. x \in Nat /\ f[x] \notin Seq(S)
    OBVIOUS
  <2>3. f[x] = SelectedStep(seq, S, f, x)
    <3>1. x + 1 \in Nat /\ x < x + 1
      BY <2>2
    <3>2. QED
      BY <1>1, <2>2, <3>1 DEF SelectedBelow
  <2>4. x # 0 => f[x - 1] \in Seq(S)
    <3>1. x # 0 => x - 1 \in Nat /\ ~ (x <= x - 1)
      BY <2>2
    <3>2. QED
      BY <2>1, <3>1
  <2>5. x # 0 /\ seq[x] \in S => Append(f[x - 1], seq[x]) \in Seq(S)
    BY <2>4, AppendProperties
  <2>6. QED
    BY <2>2, <2>3, <2>4, <2>5, EmptySeq DEF SelectedStep
<1>3. Len(seq) \in Nat /\ Len(seq) \notin U
  <2> HIDE DEF U
  <2> QED
    BY <1>2, LenProperties
<1>4. QED
  BY <1>1, <1>3

LEMMA SelectedNone == ASSUME NEW S PROVE Selected(<<>>, S) = <<>>
<1>1. <<>> \in Seq({})
  BY EmptySeq
<1> PICK seq, n : seq = <<>> /\ n = Len(seq)
  OBVIOUS
<1>2. n = 0
  BY <1>1, EmptySeq
<1>3. PICK f : Selected(seq, S) = f[n] /\ \A b \in Nat : SelectedBelow(seq, S, f, b)
  BY SelectedIs
<1>4. f[0] = SelectedStep(seq, S, f, 0)
  BY <1>3 DEF SelectedBelow
<1>5. QED
  BY <1>2, <1>3, <1>4 DEF SelectedStep

LEMMA SelectedLast ==
    ASSUME NEW T, NEW seq \in Seq(T), NEW x \in T, NEW S
    PROVE  Selected(Append(seq, x), S) = IF x \in S THEN Append(Selected(seq, S), x)
                                         ELSE Selected(seq, S)
<1> PICK longer : longer = Append(seq, x)
  OBVIOUS
<1>1. /\ Len(seq) \in Nat /\ longer \in Seq(T) /\ Len(longer) = Len(seq) + 1
      /\ \A i \in 1 .. Len(seq) : longer[i] = seq[i]
      /\ longer[Len(seq) + 1] = x
  BY LenProperties, AppendProperties
<1> PICK n \in Nat, m \in Nat : n = Len(seq) /\ m = n + 1
  BY <1>1
<1>2. PICK f : Selected(seq, S) = f[Len(seq)] /\ \A b \in Nat : SelectedBelow(seq, S, f, b)
  BY SelectedIs
<1>3. PICK g : Selected(longer, S) = g[Len(longer)]
              /\ \A b \in Nat : SelectedBelow(longer, S, g, b)
  BY SelectedIs
<1>4. g[n] = f[n]
  <2>1. SelectedBelow(longer, S, g, m) /\ SelectedBelow(seq, S, f, m) /\ n < m
    BY <1>2, <1>3
  <2>2. SameUpTo(n, longer, seq)
    BY <1>1 DEF SameUpTo
  <2>3. QED
    BY <2>1, <2>2, SelectedAgree
<1>5. g[m] = SelectedStep(longer, S, g, m)
  <2>1. m + 1 \in Nat /\ m < m + 1
    OBVIOUS
  <2>2. QED
    BY <1>3, <2>1 DEF SelectedBelow
<1>6. m # 0 /\ m - 1 = n /\ longer[m] = x /\ Len(longer) = m
  BY <1>1
<1>7. g[m] = IF x \in S THEN Append(g[n], x) ELSE g[n]
  BY <1>5, <1>6 DEF SelectedStep
<1>8. QED
  BY <1>2, <1>3, <1>4, <1>6, <1>7

-----------------------------------------------------------------------------
(* What is offered as completion are words.                                *)

LEMMA WordsAreTexts == Range(Words) \subseteq Seq(Chars) /\ \A i \in 1 .. Len(Words) : Words[i] \in Range(Words)
<1>1. Words \in Seq(Seq(Chars)) /\ DOMAIN Words = 1 .. Len(Words)
  BY WordsAssumption, LenProperties
<1>2. \A i \in 1 .. Len(Words) : Words[i] \in Seq(Chars)
  BY <1>1, ElementOfSeq
<1>3. QED
  BY <1>1, <1>2 DEF Range

LEMMA OfferedAreTexts == ASSUME NEW lc \in Seq(Range(Words)) PROVE lc \in Seq(Seq(Chars))
<1>1. Len(lc) \in Nat /\ lc \in [1 .. Len(lc) -> Range(Words)]
  BY LenProperties
<1>2. lc \in [1 .. Len(lc) -> Seq(Chars)]
  BY <1>1, WordsAreTexts
<1>3. QED
  BY <1>1, <1>2

LEMMA LargerSeq ==
    ASSUME NEW S, NEW T, S \subseteq T, NEW s \in Seq(S)
    PROVE  s \in Seq(T)
<1>1. Len(s) \in Nat /\ s \in [1 .. Len(s) -> S]
  BY LenProperties
<1>2. s \in [1 .. Len(s) -> T]
  BY <1>1
<1>3. QED
  BY <1>1, <1>2

LEMMA CompletionsAreWords == ASSUME NEW stem PROVE Completions(stem) \in Seq(Range(Words))
<1> PICK S : S = {w \in Range(Words) : IsPrefix(stem, w) /\ w # stem}
  OBVIOUS
<1>1. Selected(Words, S) \in Seq(S)
  BY WordsAssumption, SelectedAreIn
<1>2. S \subseteq Range(Words)
  OBVIOUS
<1>3. QED
  BY <1>1, <1>2, LargerSeq DEF Completions

-----------------------------------------------------------------------------
(* The key that ends a completion accepts it: the line stays a string.     *)

LEMMA StemIs ==
    ASSUME NEW s, Editable(s)
    PROVE  Stem(s) \in Seq(Chars) /\ Len(Stem(s)) \in 0 .. s.pos
<1>1. IsLine(s) /\ s.pos \in Nat /\ s.pos <= s.len /\ s.len \in Nat
  BY LineFacts, Sizes DEF Editable
<1> PICK T : T = {0} \cup {i \in 1 .. s.pos : s.buf[i - 1] = Space}
  OBVIOUS
<1> PICK p \in Nat : p = s.pos
  BY <1>1
<1> PICK line : line = Line(s)
  OBVIOUS
<1>2. T \subseteq 0 .. p /\ T # {}
  OBVIOUS
<1>3. Max(T) \in 0 .. p
  BY <1>2, MaxIn
<1> PICK from : from = Max(T) + 1
  OBVIOUS
<1>4. line \in Seq(Chars) /\ Len(line) = s.len
  BY <1>1, LineIs
<1>5. from \in 1 .. p + 1 /\ p \in from - 1 .. Len(line)
  BY <1>1, <1>3, <1>4
<1>6. SubSeq(line, from, p) \in Seq(Chars)
      /\ Len(SubSeq(line, from, p)) = IF from <= p THEN p - from + 1 ELSE 0
  <2>1. from \in Int /\ p \in Int
    BY <1>5
  <2>2. \A i \in from .. p : line[i] \in Chars
    <3>1. \A i \in from .. p : i \in 1 .. Len(line)
      BY <1>5, <1>1, <1>4
    <3>2. QED
      BY <1>4, <3>1, ElementOfSeq
  <2>3. QED
    BY <2>1, <2>2, SubSeqProperties
<1>7. Stem(s) = SubSeq(line, from, p)
  BY DEF Stem
<1>8. QED
  BY <1>5, <1>6, <1>7

(* p is the text before the cursor with a completion in the place of its   *)
(* end                                                                     *)
CompletedBefore(s, c, p) ==
    /\ p \in Seq(Chars)
    /\ \E n \in 0 .. Len(Before(s)) : p = SubSeq(Before(s), 1, n) \o c.word
(* the first n characters of text are in d                                 *)
Copies(d, text, n) == \A k \in 0 .. n - 1 : d[k] = text[k + 1]

LEMMA CompletedIs ==
    ASSUME NEW s, NEW c, Editable(s), c.word \in Seq(Chars), c.stem \in 0 .. s.pos
    PROVE  \E p : /\ CompletedBefore(s, c, p) /\ After(s) \in Seq(Chars)
                  /\ InputAndCompletion(s, c).text = p \o After(s)
                  /\ InputAndCompletion(s, c).cursor = Len(p)
<1> PICK b, l, q : b = s.buf /\ l = s.len /\ q = s.pos
  OBVIOUS
<1>1. /\ l \in Nat /\ q \in Nat /\ q <= l /\ Reads(Before(s), b, 0, q) /\ Reads(After(s), b, q, l - q)
      /\ Before(s) \o After(s) = Line(s) /\ Reads(Line(s), b, 0, l)
  <2>1. HasLine(s, b, l, q) /\ IsLine(s)
    BY DEF HasLine, Editable
  <2>2. QED
    BY <2>1, Sides, ReadsLine
<1> PICK x, y, line, word : x = Before(s) /\ y = After(s) /\ line = Line(s) /\ word = c.word
  OBVIOUS
<1>2. x \in Seq(Chars) /\ Len(x) = q /\ y \in Seq(Chars)
  BY <1>1 DEF Reads
<1>3. CASE word = <<>>
  <2>1. InputAndCompletion(s, c).text = x \o y /\ InputAndCompletion(s, c).cursor = q
    BY <1>1, <1>3 DEF InputAndCompletion
  <2>2. CompletedBefore(s, c, x)
    <3>1. x = SubSeq(x, 1, q) /\ x \o word = x
      BY <1>2, <1>3, SubSeqFull, ConcatEmptySeq
    <3>2. x = SubSeq(x, 1, q) \o word /\ q \in 0 .. Len(x)
      BY <1>1, <1>2, <3>1, SMTT(30)
    <3>3. QED
      BY <1>2, <3>2 DEF CompletedBefore
  <2>3. QED
    BY <1>2, <2>1, <2>2
<1>4. CASE word # <<>>
  <2> PICK from : from = q - c.stem
    OBVIOUS
  <2>1. from \in 0 .. q /\ from \in Nat /\ from <= q /\ from <= l
    <3> PICK stem \in 0 .. q : stem = c.stem
      OBVIOUS
    <3>1. from = q - stem /\ q \in Nat /\ q <= l /\ l \in Nat
      BY <1>1
    <3>2. QED
      BY <3>1
  <2>2. SubSeq(line, 1, from) = SubSeq(x, 1, from)
    <3> PICK one \in Int, zero \in Int, f \in Int : one = 1 /\ zero = 0 /\ f = from
      BY <2>1
    <3>1. one >= 1 /\ one <= f + 1 /\ f <= q /\ f <= l /\ zero = zero + one - 1 /\ f = f - one + 1
          /\ l \in Nat /\ q \in Nat
      BY <1>1, <2>1
    <3>2. Reads(line, b, zero, l) /\ Reads(x, b, zero, q)
      BY <1>1
    <3>3. Reads(SubSeq(line, one, f), b, zero, f) /\ Reads(SubSeq(x, one, f), b, zero, f)
      BY <3>1, <3>2, ReadsPart
    <3>4. SubSeq(line, one, f) = SubSeq(x, one, f)
      BY <3>3, ReadsOne
    <3>5. QED
      BY <3>4
  <2> PICK left, p : left = SubSeq(x, 1, from) /\ p = left \o word
    OBVIOUS
  <2>3. left \in Seq(Chars) /\ Len(left) = from
    <3> PICK one \in Int, f \in Int : one = 1 /\ f = from
      BY <2>1
    <3>1. SubSeq(x, one, f) \in Seq(Chars) /\ Len(SubSeq(x, one, f)) = IF one <= f THEN f - one + 1 ELSE 0
      <4>1. one >= 1 /\ f <= Len(x)
        BY <1>2, <2>1
      <4>2. QED
        BY <1>2, <4>1, PartOf
    <3>2. QED
      BY <2>1, <3>1
  <2>4. p \in Seq(Chars) /\ Len(p) = from + Len(word)
    BY <2>3, ConcatProperties
  <2>5. InputAndCompletion(s, c).text = p \o y /\ InputAndCompletion(s, c).cursor = from + Len(word)
    BY <1>4, <2>2 DEF InputAndCompletion, After
  <2>6. CompletedBefore(s, c, p)
    BY <1>2, <2>1, <2>4 DEF CompletedBefore
  <2>7. QED
    BY <1>2, <2>4, <2>5, <2>6
<1>5. QED
  BY <1>3, <1>4

LEMMA CopiedSides ==
    ASSUME NEW p \in Seq(Chars), NEW y \in Seq(Chars), NEW d, NEW n \in Nat, NEW q \in Nat,
           NEW rest \in Nat, q = Len(p), n <= Len(p \o y), rest = n - q,
           Copies(d, p \o y, n)
    PROVE  Reads(p, d, 0, q) /\ Reads(SubSeq(y, 1, rest), d, q, rest) /\ rest \in 0 .. Len(y)
<1> PICK t, m : t = p \o y /\ m = Len(y)
  OBVIOUS
<1>1. /\ Len(t) = q + m /\ m \in Nat
      /\ \A i \in 1 .. q + m : t[i] = IF i <= q THEN p[i] ELSE y[i - q]
  BY ConcatProperties, LenProperties
<1>2. n <= q + m /\ rest <= m
  BY <1>1
<1>3. \A k \in 0 .. n - 1 : d[k] = t[k + 1]
  BY DEF Copies
<1>4. ASSUME NEW i \in 1 .. q
      PROVE  p[i] = d[0 + i - 1]
  <2> PICK k : k = i - 1
    OBVIOUS
  <2>1. k \in 0 .. n - 1 /\ k + 1 = i /\ 0 + i - 1 = k /\ i \in 1 .. q + m /\ i <= q
    BY <1>1
  <2>2. QED
    BY <1>1, <1>3, <2>1
<1>5. Reads(p, d, 0, q)
  BY <1>4 DEF Reads
<1> PICK u : u = SubSeq(y, 1, rest)
  OBVIOUS
<1>6. u \in Seq(Chars) /\ Len(u) = rest /\ \A i \in 1 .. rest : u[i] = y[i]
  <2>1. \A i \in 1 .. rest : i \in 1 .. Len(y)
    BY <1>1, <1>2
  <2>2. \A i \in 1 .. rest : y[i] \in Chars
    BY <2>1, ElementOfSeq
  <2>3. QED
    BY <1>1, <2>2, SubSeqProperties
<1>7. ASSUME NEW i \in 1 .. rest
      PROVE  u[i] = d[q + i - 1]
  <2> PICK k, j : k = q + i - 1 /\ j = q + i
    OBVIOUS
  <2>1. k \in 0 .. n - 1 /\ k + 1 = j /\ j \in 1 .. q + m /\ ~ (j <= q) /\ j - q = i
    BY <1>1, <1>2
  <2>2. d[k] = t[j] /\ t[j] = y[i]
    BY <1>1, <1>3, <2>1
  <2>3. QED
    BY <1>6, <2>2
<1>8. Reads(u, d, q, rest)
  BY <1>6, <1>7 DEF Reads
<1>9. QED
  BY <1>1, <1>2, <1>5, <1>8

(* The text that fits is copied and the rest is lost.                      *)
LEMMA TextCopied ==
    ASSUME NEW b \in Texts, NEW text \in Seq(Chars), NEW n, NEW d,
           n = Min({Limit, Len(text)}),
           d = [k \in Offsets |-> IF k < n THEN text[k + 1] ELSE IF k = n THEN Nul ELSE b[k]]
    PROVE  /\ d \in Texts /\ EndsAt(d, n) /\ n \in 0 .. Limit /\ n <= Len(text)
           /\ Copies(d, text, n)
<1>1. Len(text) \in Nat
  BY LenProperties
<1>2. n \in {Limit, Len(text)} /\ n <= Limit /\ n <= Len(text)
  <2>1. {Limit, Len(text)} \subseteq Nat
    BY <1>1, Sizes
  <2>2. n \in {Limit, Len(text)} /\ \A y \in {Limit, Len(text)} : n <= y
    BY <2>1, MinIn
  <2>3. QED
    BY <2>2
<1>3. n \in 0 .. Limit /\ n \in Nat /\ n \in Offsets
  BY <1>1, <1>2, Sizes
<1>4. \A k \in Offsets : k < n => text[k + 1] \in Chars
  <2> SUFFICES ASSUME NEW k \in Offsets, k < n
               PROVE  text[k + 1] \in Chars
    OBVIOUS
  <2>1. k + 1 \in 1 .. Len(text)
    BY <1>1, <1>2, <1>3, Sizes
  <2>2. QED
    BY <2>1, ElementOfSeq
<1>5. \A k \in Offsets : b[k] \in Chars \cup {Nul, Leftover}
  BY DEF Texts
<1>6. d \in Texts
  BY <1>4, <1>5 DEF Texts
<1>7. d[n] = Nul
  BY <1>3
<1>8. \A i \in 0 .. n - 1 : d[i] \in Chars
  <2>1. \A i \in 0 .. n - 1 : i \in Offsets /\ i < n
    BY <1>2, <1>3, Sizes
  <2>2. QED
    BY <1>4, <2>1
<1>9. \A k \in 0 .. n - 1 : d[k] = text[k + 1]
  <2>1. \A k \in 0 .. n - 1 : k \in Offsets /\ k < n
    BY <1>2, <1>3, Sizes
  <2>2. QED
    BY <2>1
<1>10. Copies(d, text, n)
  BY <1>9 DEF Copies
<1>11. QED
  BY <1>2, <1>10, <1>3, <1>6, <1>7, <1>8 DEF EndsAt

LEMMA CompletionIs ==
    ASSUME NEW s, NEW lc, NEW i, Editable(s), lc \in Seq(Range(Words))
    PROVE  /\ Completion(s, lc, i).word \in Seq(Chars) /\ Completion(s, lc, i).stem \in 0 .. s.pos
           /\ i \in DOMAIN lc => Completion(s, lc, i).word \in Range(Words)
<1>1. s.pos \in Nat
  BY LineFacts DEF Editable
<1>2. CASE i \notin DOMAIN lc
  BY <1>1, <1>2, EmptySeq DEF Completion, NoCompletion
<1>3. CASE i \in DOMAIN lc
  <2>1. lc[i] \in Seq(Chars) /\ lc[i] \in Range(Words)
    <3>1. lc[i] \in Range(Words)
      BY <1>3, ElementOfSeq, LenProperties
    <3>2. QED
      BY <3>1, WordsAreTexts
  <2>2. Len(Stem(s)) \in 0 .. s.pos
    BY StemIs
  <2>3. QED
    BY <1>3, <2>1, <2>2 DEF Completion
<1>4. QED
  BY <1>2, <1>3

(* r is s with a completion accepted, if one was shown                     *)
AcceptedTo(s, r) ==
    Edits!Place(Before(r), After(r))
        \in {Edits!Place(Before(s), After(s))} \cup Edits!Completed(Before(s), After(s))

LEMMA AcceptIs ==
    ASSUME NEW s, NEW lc, NEW i, Editable(s), lc \in Seq(Range(Words))
    PROVE  /\ IsLine(Accept(s, lc, i)) /\ SameHistory(Accept(s, lc, i), s)
           /\ Editable(Accept(s, lc, i)) => AcceptedTo(s, Accept(s, lc, i))
<1>1. CASE i \notin DOMAIN lc
  <2>1. Accept(s, lc, i) = s
    BY <1>1 DEF Accept
  <2>2. QED
    BY <2>1 DEF Editable, SameHistory, AcceptedTo
<1>2. CASE i \in DOMAIN lc
  <2> PICK c : c = Completion(s, lc, i)
    OBVIOUS
  <2>1. c.word \in Seq(Chars) /\ c.stem \in 0 .. s.pos /\ c.word \in Range(Words)
    BY <1>2, CompletionIs
  <2> PICK text, cursor : text = InputAndCompletion(s, c).text
                       /\ cursor = InputAndCompletion(s, c).cursor
    OBVIOUS
  <2> PICK y : y = After(s)
    OBVIOUS
  <2>2. PICK p : CompletedBefore(s, c, p) /\ y \in Seq(Chars) /\ text = p \o y /\ cursor = Len(p)
    BY <2>1, CompletedIs
  <2>3. p \in Seq(Chars) /\ text \in Seq(Chars) /\ cursor \in Nat
    <3>1. p \in Seq(Chars)
      BY <2>2 DEF CompletedBefore
    <3>2. p \o y \in Seq(Chars) /\ Len(p) \in Nat
      BY <2>2, <3>1, ConcatProperties, LenProperties
    <3>3. QED
      BY <2>2, <3>1, <3>2
  <2> PICK b, n : b = s.buf /\ n = Min({Limit, Len(text)})
    OBVIOUS
  <2> PICK d : d = [k \in Offsets |-> IF k < n THEN text[k + 1] ELSE IF k = n THEN Nul ELSE b[k]]
    OBVIOUS
  <2>4. IsLine(s) /\ Kinds(s) /\ b \in Texts
    BY LineFacts DEF Editable, IsLine
  <2>5. /\ d \in Texts /\ EndsAt(d, n) /\ n \in 0 .. Limit /\ n <= Len(text)
        /\ Copies(d, text, n)
    BY <2>3, <2>4, TextCopied
  <2> PICK r : r = [s EXCEPT !.buf = d, !.len = n, !.pos = cursor]
    OBVIOUS
  <2>6. /\ Kinds(r) /\ r.buf = d /\ r.len = n /\ r.pos = cursor /\ r.hist = s.hist
        /\ r.index = s.index
    BY <2>3, <2>4, <2>5 DEF Kinds, Texts
  <2>7. IsLine(r) /\ SameHistory(r, s)
    BY <2>4, <2>5, <2>6 DEF IsLine, SameHistory
  <2>8. ASSUME Editable(r)
        PROVE  AcceptedTo(s, r)
    <3>1. HasLine(r, d, n, cursor)
      BY <2>6 DEF HasLine
    <3> PICK rest : rest = n - cursor
      OBVIOUS
    <3>2. /\ n \in Nat /\ rest \in Nat /\ Reads(Before(r), d, 0, cursor)
          /\ Reads(After(r), d, cursor, rest)
      BY <2>8, <3>1, Sides
    <3>3. Reads(p, d, 0, cursor) /\ Reads(SubSeq(y, 1, rest), d, cursor, rest) /\ rest \in 0 .. Len(y)
      <4>1. n <= Len(p \o y) /\ Copies(d, p \o y, n)
        BY <2>2, <2>5
      <4>2. QED
        BY <2>2, <2>3, <3>2, <4>1, CopiedSides
    <3>4. Before(r) = p /\ After(r) = SubSeq(y, 1, rest)
      BY <3>2, <3>3, ReadsOne
    <3> PICK x, word : x = Before(s) /\ word = c.word
      OBVIOUS
    <3>5. \E k \in 0 .. Len(x), w \in Range(Words) : p = SubSeq(x, 1, k) \o w
      BY <2>1, <2>2 DEF CompletedBefore
    <3>6. Edits!Place(Before(r), After(r)) \in Edits!Completed(x, y)
      <4> PICK left, right : left = p /\ right = SubSeq(y, 1, rest)
        OBVIOUS
      <4>1. Edits!Place(left, right) \in Edits!Completed(x, y)
        BY <3>3, <3>5 DEF Edits!Completed
      <4>2. QED
        BY <3>4, <4>1
    <3>7. QED
      BY <3>6 DEF AcceptedTo
  <2>9. Accept(s, lc, i) = r
    BY <1>2 DEF Accept
  <2>10. QED
    BY <2>7, <2>8, <2>9
<1>3. QED
  BY <1>1, <1>2

LEMMA EditDone ==
    ASSUME NEW s, NEW k \in Keys \ {"up", "down"}, Editable(s)
    PROVE  Done(s, Edit(s, k))
<1>1. k \in Chars => Done(s, Insert(s, k))
  BY InsertDone
<1>2. /\ Done(s, MoveLeft(s)) /\ Done(s, MoveRight(s)) /\ Done(s, MoveHome(s))
      /\ Done(s, MoveEnd(s)) /\ Done(s, MoveNextWord(s)) /\ Done(s, MovePrevWord(s))
  BY CursorDone, WordDone
<1>3. /\ Done(s, Delete(s)) /\ Done(s, Backspace(s)) /\ Done(s, DeleteNextWord(s))
      /\ Done(s, DeletePrevWord(s)) /\ Done(s, DeleteToEnd(s)) /\ Done(s, DeleteAll(s))
  BY DeleteDone, BackspaceDone, DeleteNextWordDone, DeletePrevWordDone, CutDone
<1>4. Done(s, Transpose(s)) /\ Done(s, ClearScreen(s))
  BY TransposeDone, ClearScreenDone
<1>5. QED
  BY <1>1, <1>2, <1>3, <1>4 DEF Edit, Keys, NamedKeys

LEMMA EditKeeps == ASSUME NEW s, NEW k \in Keys, Editable(s) PROVE Editable(Edit(s, k))
<1>1. CASE k \notin {"up", "down"}
  BY <1>1, EditDone DEF Done
<1>2. k \in Chars => Editable(Insert(s, k))
  BY InsertDone DEF Done
<1>3. CASE k \in {"up", "down"}
  <2>1. Editable(HistoryNext(s, 1)) /\ Editable(HistoryNext(s, -1))
    BY HistoryDone
  <2>2. QED
    BY <1>2, <1>3, <2>1 DEF Edit
<1>4. QED
  BY <1>1, <1>3


-----------------------------------------------------------------------------
(* The history between two lines.                                          *)

Histories == {h \in Seq(Seq(Chars)) : HistoryFits(h)}

LEMMA HistoryAdded ==
    ASSUME NEW h \in Histories, NEW line \in Seq(Chars), Len(line) <= Limit
    PROVE  HistoryAdd(h, line) \in Histories /\ Len(HistoryAdd(h, line)) > 0
<1>1. h \in Seq(Seq(Chars)) /\ HistoryFits(h) /\ Len(h) \in Nat
  BY LenProperties DEF Histories
<1>2. CASE h # <<>> /\ Last(h) = line
  <2>1. HistoryAdd(h, line) = h
    BY <1>2 DEF HistoryAdd
  <2>2. Len(h) > 0
    BY <1>1, <1>2, EmptySeq
  <2>3. QED
    BY <2>1, <2>2
<1>3. CASE ~ (h # <<>> /\ Last(h) = line)
  <2> PICK kept, new : /\ kept = IF Len(h) = HistoryMaxLen THEN Tail(h) ELSE h
                       /\ new = Append(kept, line)
    OBVIOUS
  <2>1. /\ kept \in Seq(Seq(Chars)) /\ Len(kept) \in Nat /\ Len(kept) + 1 <= HistoryMaxLen
        /\ \A i \in DOMAIN kept : Len(kept[i]) <= Limit
    <3>1. CASE Len(h) = HistoryMaxLen
      <4>1. h # <<>>
        BY <1>1, <3>1, Sizes, EmptySeq
      <4>2. /\ Tail(h) \in Seq(Seq(Chars)) /\ Len(Tail(h)) = Len(h) - 1
            /\ \A i \in 1 .. Len(Tail(h)) : Tail(h)[i] = h[i + 1]
        BY <1>1, <4>1, HeadTailProperties
      <4>3. \A i \in DOMAIN kept : Len(kept[i]) <= Limit
        <5> SUFFICES ASSUME NEW i \in DOMAIN kept
                     PROVE  Len(kept[i]) <= Limit
          OBVIOUS
        <5>1. kept = Tail(h)
          BY <3>1
        <5>2. i \in 1 .. Len(Tail(h))
          BY <4>2, <5>1, LenProperties
        <5>3. i + 1 \in DOMAIN h /\ kept[i] = h[i + 1]
          BY <1>1, <4>2, <5>1, <5>2, LenProperties
        <5>4. QED
          BY <1>1, <5>3 DEF HistoryFits
      <4>4. QED
        BY <1>1, <3>1, <4>2, <4>3, Sizes
    <3>2. CASE Len(h) # HistoryMaxLen
      BY <1>1, <3>2, Sizes DEF HistoryFits
    <3>3. QED
      BY <3>1, <3>2
  <2>2. new \in Seq(Seq(Chars)) /\ Len(new) = Len(kept) + 1
        /\ \A i \in 1 .. Len(new) : new[i] = IF i = Len(kept) + 1 THEN line ELSE kept[i]
    BY <2>1, AppendProperties
  <2>3. HistoryFits(new)
    <3>1. \A i \in DOMAIN new : Len(new[i]) <= Limit
      <4> SUFFICES ASSUME NEW i \in DOMAIN new
                   PROVE  Len(new[i]) <= Limit
        OBVIOUS
      <4>1. i \in 1 .. Len(new)
        BY <2>2, LenProperties
      <4>2. CASE i = Len(kept) + 1
        BY <2>2, <4>1, <4>2
      <4>3. CASE i # Len(kept) + 1
        <5>1. i \in DOMAIN kept
          BY <2>1, <2>2, <4>1, <4>3, LenProperties
        <5>2. QED
          BY <2>1, <2>2, <4>1, <4>3, <5>1
      <4>4. QED
        BY <4>2, <4>3
    <3>2. QED
      BY <2>1, <2>2, <3>1 DEF HistoryFits
  <2>4. HistoryAdd(h, line) = new
    BY <1>3 DEF HistoryAdd
  <2>5. QED
    BY <2>1, <2>2, <2>3, <2>4 DEF Histories
<1>4. QED
  BY <1>2, <1>3

LEMMA ScratchRemoved ==
    ASSUME NEW h \in Histories, Len(h) > 0
    PROVE  WithoutScratch(h) \in Histories
<1>1. h \in Seq(Seq(Chars)) /\ HistoryFits(h) /\ Len(h) \in Nat /\ h # <<>>
  BY LenProperties, EmptySeq DEF Histories
<1> PICK f : f = Front(h)
  OBVIOUS
<1>2. f \in Seq(Seq(Chars)) /\ Len(f) = Len(h) - 1 /\ \A i \in 1 .. Len(f) : f[i] = h[i]
  <2>0. Len(h) - 1 \in Int
    BY <1>1
  <2> PICK m \in Int : m = 1
    OBVIOUS
  <2> PICK n \in Int : n = Len(h) - 1
    BY <2>0
  <2>1. f = SubSeq(h, m, n)
    BY DEF Front
  <2>2. \A i \in m .. n : h[i] \in Seq(Chars)
    BY <1>1, ElementOfSeq
  <2>3. /\ SubSeq(h, m, n) \in Seq(Seq(Chars))
        /\ Len(SubSeq(h, m, n)) = IF m <= n THEN n - m + 1 ELSE 0
        /\ \A i \in 1 .. n - m + 1 : SubSeq(h, m, n)[i] = h[m + i - 1]
    BY <2>2, SubSeqProperties
  <2>4. Len(f) = Len(h) - 1
    BY <1>1, <2>1, <2>3
  <2>5. \A i \in 1 .. Len(f) : i \in 1 .. n - m + 1 /\ m + i - 1 = i
    BY <1>1, <2>4
  <2>6. QED
    BY <2>1, <2>3, <2>4, <2>5
<1>3. \A i \in DOMAIN f : i \in DOMAIN h /\ f[i] = h[i]
  <2>1. DOMAIN f = 1 .. Len(f) /\ DOMAIN h = 1 .. Len(h)
    BY <1>1, <1>2, LenProperties
  <2>2. \A i \in 1 .. Len(f) : i \in 1 .. Len(h)
    BY <1>1, <1>2
  <2>3. QED
    BY <1>2, <2>1, <2>2
<1>4. HistoryFits(f)
  BY <1>1, <1>2, <1>3, Sizes DEF HistoryFits
<1>5. QED
  BY <1>2, <1>4 DEF WithoutScratch, Histories

LEMMA PromptedIs ==
    ASSUME NEW h \in Histories, NEW top \in Nat
    PROVE  /\ Kinds(Prompted(h, top)) /\ Prompted(h, top).hist = h
           /\ Len(h) > 0 => Editable(Prompted(h, top))
<1> PICK screen, b : b = EmptyBuffer /\ screen = Write(BlankScreen(top), PromptText)
  OBVIOUS
<1> PICK r : r = [buf |-> b, len |-> 0, pos |-> 0, oldpos |-> 0, maxrows |-> 0, index |-> 0,
                  hist |-> h, top |-> top, screen |-> screen]
  OBVIOUS
<1>1. h \in Seq(Seq(Chars)) /\ HistoryFits(h)
  BY DEF Histories
<1>2. b \in Texts /\ EndsAt(b, 0)
  BY Sizes DEF EmptyBuffer, Texts, EndsAt
<1>3. Kinds(r) /\ r.hist = h /\ r.buf = b /\ r.len = 0 /\ r.pos = 0 /\ r.index = 0
  BY <1>1, <1>2, Sizes DEF Kinds, Texts
<1>4. Len(h) > 0 => Editable(r)
  <2>1. Len(h) > 0 => IsLine(r)
    BY <1>1, <1>2, <1>3 DEF IsLine
  <2>2. QED
    BY <1>3, <2>1 DEF Editable
<1>5. Prompted(h, top) = r
  BY DEF Prompted
<1>6. QED
  BY <1>3, <1>4, <1>5

(* The history and the text of a line.                                     *)
LEMMA LineHistory ==
    ASSUME NEW s, IsLine(s)
    PROVE  /\ s.hist \in Histories /\ Len(s.hist) > 0 /\ s.len \in 0 .. Limit
           /\ CString(s.buf) \in Seq(Chars) /\ Len(CString(s.buf)) <= Limit
<1>1. s.hist \in Histories
  BY LineFacts DEF IsLine, Histories
<1>2. Len(s.hist) > 0
  <2>1. s.index \in Nat /\ s.index < Len(s.hist) /\ Len(s.hist) \in Nat
    BY LineFacts, LenProperties DEF IsLine
  <2>2. QED
    BY <2>1
<1>3. s.len \in 0 .. Limit /\ EndsAt(s.buf, s.len)
  BY LineFacts
<1>4. CString(s.buf) \in Seq(Chars) /\ Len(CString(s.buf)) = s.len
  BY <1>3, StringOf
<1>5. QED
  BY <1>1, <1>2, <1>3, <1>4, Sizes

-----------------------------------------------------------------------------
(* The invariant holds initially, and every action preserves it.           *)

LEMMA InitHolds == Init => IInv
<1> SUFFICES ASSUME Init
             PROVE  IInv
  OBVIOUS
<1> PICK h \in Histories, top \in Nat : h = <<>> /\ top = 0
  <2>1. <<>> \in Seq(Seq(Chars)) /\ Len(<<>>) = 0
    BY EmptySeq
  <2>2. <<>> \in Histories
    BY <2>1, Sizes DEF Histories, HistoryFits
  <2>3. QED
    BY <2>2
<1>1. Kinds(Prompted(h, top)) /\ Prompted(h, top).hist = h /\ HistoryFits(h)
  BY PromptedIs DEF Histories
<1>2. st = Prompted(h, top) /\ ~ rawmode
  BY DEF Init
<1>3. Kinds(st) /\ HistoryFits(st.hist) /\ (rawmode => Editable(st))
  BY <1>1, <1>2
<1>4. completions \in Seq(Range(Words)) /\ shown \in 1 .. Len(completions) + 1
  BY EmptySeq DEF Init
<1>5. {tty, rawmode, overrun, spilled, began.moved} \subseteq BOOLEAN /\ result.n \in 0 .. Limit
  <2>1. /\ tty \in BOOLEAN /\ rawmode = FALSE /\ overrun = FALSE /\ spilled = FALSE
        /\ began.moved = FALSE /\ result.n = 0
    BY DEF Init, Success
  <2>2. {tty, rawmode, overrun, spilled, began.moved} \subseteq BOOLEAN
    BY <2>1, Zenon
  <2>3. QED
    BY <2>1, <2>2, Sizes
<1>6. QED
  BY <1>3, <1>4, <1>5 DEF IInv

(* what the end of a line leaves *)
LEMMA FinishKeeps ==
    ASSUME IInv, NEW h \in Histories, NEW r, r.n \in 0 .. Limit, Finish(h, r)
    PROVE  IInv'
<1> PICK top \in Nat : top = 0
  OBVIOUS
<1> PICK p : p = Prompted(h, top)
  OBVIOUS
<1>1. Kinds(p) /\ p.hist = h /\ HistoryFits(h)
  BY PromptedIs DEF Histories
<1>2. st' = p /\ rawmode' = FALSE /\ result' = r /\ completions' = <<>> /\ shown' = 1
      /\ UNCHANGED <<tty, overrun, spilled, began>>
  BY DEF Finish, DisableRawMode, NoMoreCompletions
<1>3. Kinds(st') /\ HistoryFits(st'.hist)
  BY <1>1, <1>2
<1>4. completions' \in Seq(Range(Words)) /\ shown' \in 1 .. Len(completions') + 1
  BY <1>2, EmptySeq
<1>5. {tty, rawmode, overrun, spilled, began.moved}' \subseteq BOOLEAN
  BY <1>2 DEF IInv
<1>6. result'.n \in 0 .. Limit
  BY <1>2
<1>7. QED
  BY <1>2, <1>3, <1>4, <1>5, <1>6 DEF IInv, Kinds, HistoryFits

(* what a key leaves, the line edited *)
LEMMA EditingKeeps ==
    ASSUME IInv, Editable(st'), rawmode' = rawmode, completions' \in Seq(Range(Words)),
           shown' \in 1 .. Len(completions') + 1, result' = result,
           {tty', overrun', spilled', began'.moved} \subseteq BOOLEAN
    PROVE  IInv'
<1>1. Kinds(st') /\ HistoryFits(st'.hist)
  BY DEF Editable, IsLine
<1>2. {tty, rawmode, overrun, spilled, began.moved}' \subseteq BOOLEAN
  BY Zenon DEF IInv
<1>3. result'.n \in 0 .. Limit
  BY DEF IInv
<1>4. rawmode' => Editable(st)'
  BY DEF Editable, IsLine, Kinds, EndsAt, HistoryFits
<1>5. Kinds(st)' /\ HistoryFits(st.hist)'
  BY <1>1 DEF Kinds, HistoryFits
<1>6. QED
  BY <1>2, <1>3, <1>4, <1>5 DEF IInv

(* the line a key other than TAB finds *)
LEMMA InputIs ==
    IInv /\ rawmode =>
        /\ Editable(st) /\ IsLine(st) /\ IsLine(Input) /\ SameHistory(Input, st)
        /\ Input.pos <= Input.len => Editable(Input) /\ AcceptedTo(st, Input)
<1> SUFFICES ASSUME IInv, rawmode
             PROVE  /\ Editable(st) /\ IsLine(st) /\ IsLine(Input) /\ SameHistory(Input, st)
                    /\ Input.pos <= Input.len => Editable(Input) /\ AcceptedTo(st, Input)
  OBVIOUS
<1>1. Editable(st) /\ completions \in Seq(Range(Words))
  BY DEF IInv
<1>2. /\ IsLine(Input) /\ SameHistory(Input, st)
      /\ Editable(Input) => AcceptedTo(st, Input)
  BY <1>1, AcceptIs DEF Input
<1>3. QED
  BY <1>1, <1>2 DEF Editable

LEMMA StartStep == IInv /\ Start => IInv'
<1> SUFFICES ASSUME IInv, Start
             PROVE  IInv'
  OBVIOUS
<1>1. st.hist \in Histories /\ <<>> \in Seq(Chars) /\ Len(<<>>) <= Limit
  BY EmptySeq, Sizes DEF IInv, Histories, Kinds
<1> PICK top \in Nat : top = 1
  OBVIOUS
<1> PICK h : h = HistoryAdd(st.hist, <<>>)
  OBVIOUS
<1>2. h \in Histories /\ Len(h) > 0
  BY <1>1, HistoryAdded
<1> PICK p : p = Prompted(h, top)
  OBVIOUS
<1>3. Editable(p)
  BY <1>2, PromptedIs
<1>4. /\ rawmode' = TRUE /\ st' = p /\ completions' = <<>> /\ shown' = 1 /\ spilled' = FALSE
      /\ began'.moved = FALSE /\ result'.n = 0 /\ tty' = tty /\ overrun' = overrun
  BY DEF Start, EnableRawMode, NoMoreCompletions, Success
<1>5. Editable(st)'
  BY <1>3, <1>4 DEF Editable, IsLine, Kinds, EndsAt, HistoryFits
<1>6. Kinds(st)' /\ HistoryFits(st.hist)'
  BY <1>5 DEF Editable, IsLine
<1>7. completions' \in Seq(Range(Words)) /\ shown' \in 1 .. Len(completions') + 1
  BY <1>4, EmptySeq
<1>8. {tty, rawmode, overrun, spilled, began.moved}' \subseteq BOOLEAN
  BY <1>4, Zenon DEF IInv
<1>9. result'.n \in 0 .. Limit
  BY <1>4, Sizes
<1>10. QED
  BY <1>5, <1>6, <1>7, <1>8, <1>9 DEF IInv

LEMMA NoPromptStep == IInv /\ NoPrompt => IInv'
<1> SUFFICES ASSUME IInv, NoPrompt
             PROVE  IInv'
  OBVIOUS
<1>1. st.hist \in Histories /\ <<>> \in Seq(Chars) /\ Len(<<>>) <= Limit
  BY EmptySeq, Sizes DEF IInv, Histories, Kinds
<1> PICK h, r : h = HistoryAdd(st.hist, <<>>) /\ r = Failure("EIO")
  OBVIOUS
<1>2. h \in Histories
  BY <1>1, HistoryAdded
<1>3. r.n \in 0 .. Limit
  BY Sizes DEF Failure
<1>4. Finish(h, r)
  BY DEF NoPrompt
<1>5. QED
  BY <1>2, <1>3, <1>4, FinishKeeps

LEMMA KeyStep == IInv /\ (Key \/ HistoryKey \/ AcceptCompletion) => IInv'
<1> SUFFICES ASSUME IInv, Key \/ HistoryKey \/ AcceptCompletion
             PROVE  IInv'
  OBVIOUS
<1>1. rawmode /\ Input.pos <= Input.len
  BY DEF Key, HistoryKey, AcceptCompletion
<1> PICK s : s = Input
  OBVIOUS
<1>2. Editable(s)
  BY <1>1, InputIs
<1>3. Editable(st')
  <2>1. ASSUME NEW k \in Keys
        PROVE  Editable(Edit(s, k))
    BY <1>2, EditKeeps
  <2>2. CASE \E k \in Keys : st' = Edit(s, k)
    BY <2>1, <2>2
  <2>3. CASE st' = s
    BY <1>2, <2>3
  <2>4. (\E k \in Keys : st' = Edit(s, k)) \/ st' = s
    BY DEF Key, HistoryKey, AcceptCompletion, Keys, NamedKeys
  <2>5. QED
    BY <2>2, <2>3, <2>4
<1>4. /\ completions' = <<>> /\ shown' = 1 /\ rawmode' = rawmode /\ result' = result
      /\ tty' = tty /\ overrun' = overrun /\ spilled' = spilled
      /\ began' = began \/ began'.moved = TRUE
  BY DEF Key, HistoryKey, AcceptCompletion, NoMoreCompletions
<1>5. completions' \in Seq(Range(Words)) /\ shown' \in 1 .. Len(completions') + 1
  BY <1>4, EmptySeq
<1>6. {tty', overrun', spilled', began'.moved} \subseteq BOOLEAN
  BY <1>4, Zenon DEF IInv
<1>7. QED
  BY <1>3, <1>4, <1>5, <1>6, EditingKeeps

(* TAB shows a completion, or the line again.                              *)
LEMMA ShownIs ==
    ASSUME NEW lc, NEW i, Kinds(st), Show(lc, i)
    PROVE  Kinds(st') /\ SameLine(st', st) /\ rawmode' = rawmode
<1> PICK c, blank : c = Completion(st, lc, i) /\ blank = BlankScreen(0)
  OBVIOUS
<1>1. CASE spilled'
  <2>1. st' = [st EXCEPT !.screen = blank, !.maxrows = 0, !.oldpos = 0, !.top = 0]
    BY <1>1 DEF Show
  <2>2. Kinds(st') /\ SameLine(st', st)
    BY <2>1 DEF Kinds, SameLine
  <2>3. QED
    BY <2>2 DEF Show
<1>2. CASE ~ spilled'
  <2>1. st' = RefreshFrom(st, c, st.oldpos)
    BY <1>2 DEF Show, RefreshMultiLine
  <2>2. Kinds(st') /\ SameLine(st', st)
    BY <2>1, RefreshedFrom
  <2>3. QED
    BY <2>2 DEF Show
<1>3. QED
  BY <1>1, <1>2

LEMMA ShowKeeps ==
    ASSUME IInv, rawmode, NEW lc \in Seq(Range(Words)), NEW i \in 1 .. Len(lc) + 1, Show(lc, i)
    PROVE  IInv'
<1>1. Editable(st) /\ Kinds(st)
  BY DEF IInv
<1>2. Kinds(st') /\ SameLine(st', st)
  BY <1>1, ShownIs
<1>3. Editable(st')
  BY <1>1, <1>2 DEF Editable, IsLine, SameLine
<1> PICK c : c = Completion(st, lc, i)
  OBVIOUS
<1>4. /\ completions' = lc /\ shown' = i /\ rawmode' = rawmode /\ result' = result
      /\ tty' = tty /\ overrun' = overrun /\ began' = began
      /\ spilled' = (spilled \/ Spills(st, c))
  BY DEF Show
<1>5. {tty', overrun', spilled', began'.moved} \subseteq BOOLEAN
  <2>1. spilled' \in BOOLEAN
    BY <1>4, Zenon
  <2>2. QED
    BY <1>4, <2>1, Zenon DEF IInv
<1>6. completions' \in Seq(Range(Words)) /\ shown' \in 1 .. Len(completions') + 1
  BY <1>4
<1>7. QED
  BY <1>3, <1>4, <1>5, <1>6, EditingKeeps

LEMMA TabStep == IInv /\ (Tab \/ NextCompletion) => IInv'
<1> SUFFICES ASSUME IInv, Tab \/ NextCompletion
             PROVE  IInv'
  OBVIOUS
<1>0. rawmode
  BY DEF Tab, NextCompletion
<1>1. CASE Tab
  <2> PICK lc, i : lc = Completions(Stem(st)) /\ i = 1
    OBVIOUS
  <2>1. lc \in Seq(Range(Words)) /\ i \in 1 .. Len(lc) + 1
    <3>1. lc \in Seq(Range(Words))
      BY CompletionsAreWords
    <3>2. Len(lc) \in Nat
      BY <3>1, LenProperties
    <3>3. QED
      BY <3>1, <3>2
  <2>2. Show(lc, i) \/ UNCHANGED vars
    BY <1>1 DEF Tab
  <2>3. CASE Show(lc, i)
    BY <1>0, <2>1, <2>3, ShowKeeps
  <2>4. CASE UNCHANGED vars
    BY <2>4 DEF vars, IInv, Editable, IsLine, Kinds, EndsAt, HistoryFits
  <2>5. QED
    BY <2>2, <2>3, <2>4
<1>2. CASE NextCompletion
  <2> PICK lc, i : lc = completions /\ i = (shown % (Len(completions) + 1)) + 1
    OBVIOUS
  <2>1. lc \in Seq(Range(Words)) /\ shown \in 1 .. Len(lc) + 1
    BY DEF IInv
  <2>2. i \in 1 .. Len(lc) + 1
    <3> PICK n : n = Len(lc) + 1
      OBVIOUS
    <3>1. n \in Nat \ {0} /\ shown \in Int
      BY <2>1, LenProperties
    <3>2. shown % n \in 0 .. n - 1
      BY <3>1
    <3>3. QED
      BY <3>1, <3>2
  <2>3. Show(lc, i)
    BY <1>2 DEF NextCompletion
  <2>4. QED
    BY <1>0, <2>1, <2>2, <2>3, ShowKeeps
<1>3. QED
  BY <1>1, <1>2

LEMMA KeyPastEndStep == IInv /\ KeyPastEnd => IInv'
<1> SUFFICES ASSUME IInv, KeyPastEnd
             PROVE  IInv'
  OBVIOUS
<1>1. /\ overrun' = TRUE /\ rawmode' = FALSE
      /\ UNCHANGED <<tty, st, completions, shown, result, spilled, began>>
  BY DEF KeyPastEnd
<1>2. {tty, rawmode, overrun, spilled, began.moved}' \subseteq BOOLEAN
  BY <1>1, Zenon DEF IInv
<1>3. Kinds(st)' /\ HistoryFits(st.hist)'
  BY <1>1 DEF IInv, Kinds, HistoryFits
<1>4. QED
  BY <1>1, <1>2, <1>3 DEF IInv

LEMMA EnterStep == IInv /\ Enter => IInv'
<1> SUFFICES ASSUME IInv, Enter
             PROVE  IInv'
  OBVIOUS
<1>0. rawmode
  BY DEF Enter
<1> PICK input, s : input = Input /\ s = MoveEnd(input)
  OBVIOUS
<1>1. IsLine(input)
  BY <1>0, InputIs
<1>2. IsLine(s)
  <2> PICK n : n = input.len
    OBVIOUS
  <2>1. n \in 0 .. input.len
    BY <1>1, LineFacts, Sizes
  <2>2. Editable(MoveTo(input, n))
    BY <1>1, <2>1, MovedTo
  <2>3. QED
    BY <2>2 DEF MoveEnd, Editable
<1> PICK line, r, kept : line = CString(s.buf) /\ r = Success(s.len) /\ kept = WithoutScratch(s.hist)
  OBVIOUS
<1>3. /\ s.hist \in Histories /\ Len(s.hist) > 0 /\ s.len \in 0 .. Limit
      /\ line \in Seq(Chars) /\ Len(line) <= Limit
  BY <1>2, LineHistory
<1>4. kept \in Histories
  BY <1>3, ScratchRemoved
<1> PICK h : h = HistoryAdd(kept, line)
  OBVIOUS
<1>5. h \in Histories
  BY <1>3, <1>4, HistoryAdded
<1>6. r.n \in 0 .. Limit
  BY <1>3 DEF Success
<1>7. Finish(h, r)
  BY DEF Enter
<1>8. QED
  BY <1>5, <1>6, <1>7, FinishKeeps

LEMMA CtrlDStep == IInv /\ CtrlD => IInv'
<1> SUFFICES ASSUME IInv, CtrlD
             PROVE  IInv'
  OBVIOUS
<1> PICK s, r, h : s = Input /\ r = Failure("none") /\ h = WithoutScratch(s.hist)
  OBVIOUS
<1>1. IsLine(s)
  BY InputIs DEF CtrlD
<1>2. s.hist \in Histories /\ Len(s.hist) > 0
  BY <1>1, LineHistory
<1>3. h \in Histories
  BY <1>2, ScratchRemoved
<1>4. r.n \in 0 .. Limit
  BY Sizes DEF Failure
<1>5. Finish(h, r)
  BY DEF CtrlD
<1>6. QED
  BY <1>3, <1>4, <1>5, FinishKeeps

LEMMA CtrlCStep == IInv /\ CtrlC => IInv'
<1> SUFFICES ASSUME IInv, CtrlC
             PROVE  IInv'
  OBVIOUS
<1> PICK r, h : r = Failure("EAGAIN") /\ h = Input.hist
  OBVIOUS
<1>1. IsLine(Input)
  BY InputIs DEF CtrlC
<1>2. h \in Histories
  BY <1>1, LineHistory
<1>3. r.n \in 0 .. Limit
  BY Sizes DEF Failure
<1>4. Finish(h, r)
  BY DEF CtrlC
<1>5. QED
  BY <1>2, <1>3, <1>4, FinishKeeps

LEMMA ReadFailsStep == IInv /\ ReadFails => IInv'
<1> SUFFICES ASSUME IInv, ReadFails
             PROVE  IInv'
  OBVIOUS
<1>1. PICK s \in {st, Input} : Finish(HistoryAdd(s.hist, CString(s.buf)), Success(s.len))
  BY DEF ReadFails
<1>2. IsLine(s)
  BY InputIs DEF ReadFails
<1> PICK line, r : line = CString(s.buf) /\ r = Success(s.len)
  OBVIOUS
<1>3. s.hist \in Histories /\ s.len \in 0 .. Limit /\ line \in Seq(Chars) /\ Len(line) <= Limit
  BY <1>2, LineHistory
<1> PICK old, h : old = s.hist /\ h = HistoryAdd(old, line)
  OBVIOUS
<1>4. h \in Histories
  BY <1>3, HistoryAdded
<1>5. r.n \in 0 .. Limit
  BY <1>3 DEF Success
<1>6. QED
  BY <1>1, <1>4, <1>5, FinishKeeps

LEMMA FgetsStep == IInv /\ Fgets => IInv'
<1> SUFFICES ASSUME IInv, Fgets
             PROVE  IInv'
  OBVIOUS
<1>1. st.hist \in Histories
  BY DEF IInv, Histories, Kinds
<1> PICK old : old = st.hist
  OBVIOUS
<1>2. ASSUME NEW c \in AlphaOrDigit, Finish(HistoryAdd(old, <<c>>), Success(1))
      PROVE  IInv'
  <2> PICK h, r, line : h = HistoryAdd(old, line) /\ r = Success(1) /\ line = <<c>>
    OBVIOUS
  <2>1. line \in Seq(Chars) /\ Len(line) <= Limit
    BY Sizes DEF Chars
  <2>2. h \in Histories
    BY <1>1, <2>1, HistoryAdded
  <2>3. r.n \in 0 .. Limit
    BY Sizes DEF Success
  <2>4. QED
    BY <1>2, <2>2, <2>3, FinishKeeps
<1>3. ASSUME NEW errno \in {"none", "ENOTTY"}, Finish(old, Failure(errno))
      PROVE  IInv'
  <2> PICK r : r = Failure(errno)
    OBVIOUS
  <2>1. r.n \in 0 .. Limit
    BY Sizes DEF Failure
  <2>2. QED
    BY <1>1, <1>3, <2>1, FinishKeeps
<1>4. QED
  BY <1>2, <1>3 DEF Fgets

(* What every key and every end of a line preserve.                        *)
THEOREM Inductive == Spec => []IInv
<1>1. Init => IInv
  BY InitHolds
<1>2. IInv /\ [Next]_vars => IInv'
  <2>1. IInv /\ UNCHANGED vars => IInv'
    BY DEF vars, IInv, Editable, IsLine, Kinds, EndsAt, HistoryFits
  <2>2. QED
    BY <2>1, StartStep, NoPromptStep, KeyStep, TabStep, KeyPastEndStep, EnterStep, CtrlDStep,
       CtrlCStep, ReadFailsStep, FgetsStep DEF Next
<1>3. QED
  BY <1>1, <1>2, PTL DEF Spec

(* Whatever the keys, the line is a string with the cursor in it or at its *)
(* end, it fits the buffer of the caller and so do the lines of the        *)
(* history, which are never more than HistoryMaxLen, and the entry edited  *)
(* is one of them (linenoiseEdit, linenoiseHistoryAdd, completeLine).      *)
THEOREM TypeCorrect == Spec => []TypeOK
<1>1. IInv => TypeOK
  <2> SUFFICES ASSUME IInv
               PROVE  TypeOK
    OBVIOUS
  <2>1. /\ st.buf \in [Offsets -> Chars \cup {Nul, Leftover}]
        /\ st.len \in 0 .. Limit /\ st.pos \in Nat /\ st.oldpos \in Nat /\ st.maxrows \in Nat
        /\ st.index \in Nat
    BY DEF IInv, Kinds
  <2>2. LineIsString
    <3> SUFFICES ASSUME rawmode
                 PROVE  st.len = Len(CString(st.buf)) /\ st.pos <= st.len /\ st.index < Len(st.hist)
      BY DEF LineIsString
    <3>1. Editable(st)
      BY DEF IInv
    <3> PICK b, n : b = st.buf /\ n = st.len
      OBVIOUS
    <3>2. EndsAt(b, n) /\ n \in 0 .. Limit /\ st.pos <= n /\ st.index < Len(st.hist)
      BY <3>1, LineFacts DEF Editable, IsLine
    <3>3. Len(CString(b)) = n
      BY <3>2, StringOf
    <3>4. QED
      BY <3>2, <3>3
  <2>3. QED
    BY <2>1, <2>2 DEF TypeOK, IInv, HistoryFits
<1>2. QED
  BY <1>1, Inductive, PTL

-----------------------------------------------------------------------------
(* Every key edits the line at the cursor only: LineEdit implements        *)
(* EditedLine.                                                             *)

EditsVars ==
    <<rawmode, IF rawmode THEN SubSeq(Line(st), 1, st.pos) ELSE <<>>,
      IF rawmode THEN SubSeq(Line(st), st.pos + 1, st.len) ELSE <<>> >>

LEMMA EditsKey ==
    ASSUME rawmode, rawmode', NEW s, AcceptedTo(st, s), EditedTo(s, st')
    PROVE  Edits!Key
<1> PICK x, y, u, v : x = Before(st) /\ y = After(st) /\ u = Before(st') /\ v = After(st')
  OBVIOUS
<1> PICK p : p = Edits!Place(Before(s), After(s))
  OBVIOUS
<1>1. p \in {Edits!Place(x, y)} \cup Edits!Completed(x, y)
  BY DEF AcceptedTo
<1>2. Edits!Place(u, v) \in {p} \cup Edits!Edited(p)
  BY DEF EditedTo
<1>3. /\ (IF rawmode THEN SubSeq(Line(st), 1, st.pos) ELSE <<>>) = x
      /\ (IF rawmode THEN SubSeq(Line(st), st.pos + 1, st.len) ELSE <<>>) = y
      /\ (IF rawmode THEN SubSeq(Line(st), 1, st.pos) ELSE <<>>)' = u
      /\ (IF rawmode THEN SubSeq(Line(st), st.pos + 1, st.len) ELSE <<>>)' = v
  BY DEF Before, After, Line
<1>4. QED
  BY <1>1, <1>2, <1>3 DEF Edits!Key

LEMMA EditsStutter ==
    ASSUME rawmode' = rawmode, rawmode => SameLine(st', st)
    PROVE  UNCHANGED EditsVars
  BY DEF EditsVars, SameLine, Line

LEMMA StartRefines == IInv' /\ Start => Edits!Begin
<1> SUFFICES ASSUME IInv', Start
             PROVE  Edits!Begin
  OBVIOUS
<1> PICK b : b = st'.buf
  OBVIOUS
<1> PICK zero : zero = 0
  OBVIOUS
<1>1. ~ rawmode /\ rawmode' /\ HasLine(st', b, zero, zero)
  BY DEF Start, CanRead, EnableRawMode, Prompted, HasLine
<1>2. Editable(st')
  BY <1>1 DEF IInv, Editable, IsLine, Kinds, EndsAt, HistoryFits
<1>3. Reads(Before(st'), b, 0, zero) /\ After(st') = <<>>
  BY <1>1, <1>2, AtEnd
<1>4. Before(st') = <<>>
  BY <1>3, EmptySeq DEF Reads
<1>5. /\ (IF rawmode THEN SubSeq(Line(st), 1, st.pos) ELSE <<>>)' = <<>>
      /\ (IF rawmode THEN SubSeq(Line(st), st.pos + 1, st.len) ELSE <<>>)' = <<>>
  BY <1>1, <1>3, <1>4 DEF Before, After, Line
<1>6. QED
  BY <1>1, <1>5 DEF Edits!Begin

LEMMA KeyRefines == IInv /\ (Key \/ AcceptCompletion) => Edits!Key
<1> SUFFICES ASSUME IInv, Key \/ AcceptCompletion
             PROVE  Edits!Key
  OBVIOUS
<1>1. rawmode /\ rawmode' /\ Input.pos <= Input.len
  BY DEF Key, AcceptCompletion
<1> PICK s : s = Input
  OBVIOUS
<1>2. Editable(s) /\ AcceptedTo(st, s)
  BY <1>1, InputIs
<1>3. EditedTo(s, st')
  <2>1. ASSUME NEW k \in Keys \ {"up", "down"}
        PROVE  EditedTo(s, Edit(s, k))
    BY <1>2, EditDone DEF Done
  <2>2. CASE \E k \in Keys \ {"up", "down"} : st' = Edit(s, k)
    BY <2>1, <2>2
  <2>3. CASE st' = s
    BY <1>2, <2>3, NothingDone DEF Done
  <2>4. (\E k \in Keys \ {"up", "down"} : st' = Edit(s, k)) \/ st' = s
    BY DEF Key, AcceptCompletion
  <2>5. QED
    BY <2>2, <2>3, <2>4
<1>4. QED
  BY <1>1, <1>2, <1>3, EditsKey

(* What HistoryKey does.                                                   *)
LEMMA HistoryKeyIs ==
    ASSUME IInv, HistoryKey, NEW s, s = Input
    PROVE  /\ rawmode /\ rawmode' /\ Editable(s) /\ AcceptedTo(st, s) /\ SameHistory(s, st)
           /\ \/ SameHistory(st', s) /\ EditedTo(s, st') /\ Len(s.hist) <= 1
              \/ st'.index = s.index /\ SavedIn(st'.hist, s) /\ EditedTo(s, st')
              \/ \E i \in DOMAIN s.hist : Recalled(s, st', i)
<1>1. rawmode /\ rawmode' /\ Input.pos <= Input.len
  BY DEF HistoryKey
<1>2. Editable(s) /\ AcceptedTo(st, s) /\ SameHistory(s, st)
  BY <1>1, InputIs
<1>3. PICK dir \in {-1, 1} : st' = HistoryNext(s, dir)
  <2>1. Edit(s, "up") = HistoryNext(s, 1) /\ Edit(s, "down") = HistoryNext(s, -1)
    <3>1. "up" \notin Chars /\ "down" \notin Chars
      BY KeysAssumption DEF NamedKeys
    <3>2. QED
      BY <3>1 DEF Edit
  <2>2. st' = Edit(s, "up") \/ st' = Edit(s, "down")
    BY DEF HistoryKey
  <2>3. QED
    BY <2>1, <2>2
<1>4. QED
  BY <1>1, <1>2, <1>3, HistoryDone

LEMMA HistoryKeyRefines == IInv /\ HistoryKey => Edits!Key \/ Edits!History
<1> SUFFICES ASSUME IInv, HistoryKey
             PROVE  Edits!Key \/ Edits!History
  OBVIOUS
<1> PICK s : s = Input
  OBVIOUS
<1>1. /\ rawmode /\ rawmode' /\ Editable(s) /\ AcceptedTo(st, s) /\ SameHistory(s, st)
      /\ EditedTo(s, st') \/ \E i \in DOMAIN s.hist : Recalled(s, st', i)
  BY HistoryKeyIs
<1>2. CASE EditedTo(s, st')
  BY <1>1, <1>2, EditsKey
<1>3. CASE \E i \in DOMAIN s.hist : Recalled(s, st', i)
  <2> PICK i \in DOMAIN s.hist : Recalled(s, st', i)
    BY <1>3
  <2> PICK entry, m, u : entry = s.hist[i] /\ m = CopyLength(entry) /\ u = Before(st')
    OBVIOUS
  <2>1. entry \in Seq(Chars) /\ u = SubSeq(entry, 1, m) /\ After(st') = <<>>
    BY DEF Recalled
  <2>2. m \in Nat /\ m <= Len(entry)
    <3>1. Len(entry) \in Nat
      BY <2>1, LenProperties
    <3>2. QED
      BY <3>1, Sizes DEF CopyLength
  <2>3. Len(u) = m
    <3> PICK one \in Int, k \in Int : one = 1 /\ k = m
      BY <2>2
    <3>1. one >= 1 /\ k <= Len(entry)
      BY <2>2
    <3>2. Len(SubSeq(entry, one, k)) = IF one <= k THEN k - one + 1 ELSE 0
      BY <2>1, <3>1, PartOf
    <3>3. QED
      BY <2>1, <2>2, <3>2
  <2>4. SubSeq(u, 1, m) = u
    <3>1. u \in Seq(Chars)
      <4> PICK one \in Int, k \in Int : one = 1 /\ k = m
        BY <2>2
      <4>1. one >= 1 /\ k <= Len(entry)
        BY <2>2
      <4>2. SubSeq(entry, one, k) \in Seq(Chars)
        BY <2>1, <4>1, PartOf
      <4>3. QED
        BY <2>1, <4>2
    <3>2. QED
      BY <2>3, <3>1, SubSeqFull
  <2>5. Edits!IsPrefix(u, entry)
    BY <2>1, <2>2, <2>3, <2>4 DEF Edits!IsPrefix
  <2>6. entry \in Range(st.hist)
    BY <1>1 DEF SameHistory, Range
  <2>7. /\ (IF rawmode THEN SubSeq(Line(st), 1, st.pos) ELSE <<>>)' = u
        /\ (IF rawmode THEN SubSeq(Line(st), st.pos + 1, st.len) ELSE <<>>)' = <<>>
    BY <1>1, <2>1 DEF Before, After, Line
  <2>8. Edits!History
    BY <1>1, <2>5, <2>6, <2>7 DEF Edits!History
  <2>9. QED
    BY <2>8
<1>4. QED
  BY <1>1, <1>2, <1>3

(* Every key edits the line at the cursor only: it leaves what is before   *)
(* and after it as it was, but for what the key types, erases, swaps or    *)
(* completes, and only up and down put another line in its place           *)
(* (linenoiseEdit, completeLine, editHistoryNext).                         *)
THEOREM EditsAtCursorHolds == Spec => EditsAtCursor
<1>1. Init => Edits!Init
  <2>1. Init => rawmode = FALSE
    BY DEF Init
  <2>2. QED
    BY <2>1 DEF Edits!Init
<1>2. IInv /\ IInv' /\ [Next]_vars => [Edits!Next]_EditsVars
  <2> SUFFICES ASSUME IInv, IInv', [Next]_vars
               PROVE  [Edits!Next]_EditsVars
    OBVIOUS
  <2>1. CASE Start
    BY <2>1, StartRefines DEF Edits!Next
  <2>2. CASE Key \/ AcceptCompletion
    BY <2>2, KeyRefines DEF Edits!Next
  <2>3. CASE HistoryKey
    BY <2>3, HistoryKeyRefines DEF Edits!Next
  <2>4. CASE Tab \/ NextCompletion
    <3>1. rawmode /\ Kinds(st)
      BY <2>4 DEF Tab, NextCompletion, IInv
    <3>2. CASE \E lc, i : Show(lc, i)
      <4>1. SameLine(st', st) /\ rawmode' = rawmode
        BY <3>1, <3>2, ShownIs
      <4>2. QED
        BY <4>1, EditsStutter
    <3>3. CASE UNCHANGED vars
      <4>1. SameLine(st', st) /\ rawmode' = rawmode
        BY <3>3 DEF vars, SameLine
      <4>2. QED
        BY <4>1, EditsStutter
    <3>4. (\E lc, i : Show(lc, i)) \/ UNCHANGED vars
      BY <2>4 DEF Tab, NextCompletion
    <3>5. QED
      BY <3>2, <3>3, <3>4
  <2>5. CASE KeyPastEnd \/ Enter \/ CtrlD \/ CtrlC \/ ReadFails
    <3>1. rawmode /\ ~ rawmode'
      BY <2>5 DEF KeyPastEnd, Enter, CtrlD, CtrlC, ReadFails, Finish, DisableRawMode
    <3>2. Edits!Finish
      BY <3>1 DEF Edits!Finish
    <3>3. QED
      BY <3>2 DEF Edits!Next
  <2>6. CASE NoPrompt \/ Fgets
    <3>1. rawmode \in BOOLEAN
      BY Zenon DEF IInv
    <3>2. ~ rawmode /\ rawmode' = FALSE
      BY <2>6 DEF NoPrompt, Fgets, CanRead, Finish, DisableRawMode
    <3>3. rawmode' = rawmode
      BY <3>1, <3>2
    <3>4. QED
      BY <3>2, <3>3, EditsStutter
  <2>7. CASE UNCHANGED vars
    <3>1. SameLine(st', st) /\ rawmode' = rawmode
      BY <2>7 DEF vars, SameLine
    <3>2. QED
      BY <3>1, EditsStutter
  <2>8. QED
    BY <2>1, <2>2, <2>3, <2>4, <2>5, <2>6, <2>7 DEF Next
<1>3. QED
  BY <1>1, <1>2, Inductive, PTL DEF Spec, EditsAtCursor, Edits!Spec, EditsVars

-----------------------------------------------------------------------------
(* Up and back down again.                                                 *)

(* Only up and down go to another entry of the history.                    *)
LEMMA IndexKept ==
    IInv /\ [Next]_vars /\ rawmode /\ rawmode' =>
        HistoryKey \/ (SameHistory(st', st) /\ began' = began)
<1> SUFFICES ASSUME IInv, [Next]_vars, rawmode, rawmode'
             PROVE  HistoryKey \/ (SameHistory(st', st) /\ began' = began)
  OBVIOUS
<1>1. CASE Key \/ AcceptCompletion
  <2> PICK s : s = Input
    OBVIOUS
  <2>1. Input.pos <= Input.len /\ began' = began
    BY <1>1 DEF Key, AcceptCompletion
  <2>2. Editable(s) /\ SameHistory(s, st)
    BY <2>1, InputIs
  <2>3. SameHistory(st', s)
    <3>1. ASSUME NEW k \in Keys \ {"up", "down"}
          PROVE  SameHistory(Edit(s, k), s)
      BY <2>2, EditDone DEF Done
    <3>2. CASE \E k \in Keys \ {"up", "down"} : st' = Edit(s, k)
      BY <3>1, <3>2
    <3>3. CASE st' = s
      BY <3>3 DEF SameHistory
    <3>4. (\E k \in Keys \ {"up", "down"} : st' = Edit(s, k)) \/ st' = s
      BY <1>1 DEF Key, AcceptCompletion
    <3>5. QED
      BY <3>2, <3>3, <3>4
  <2>4. QED
    BY <2>1, <2>2, <2>3 DEF SameHistory
<1>2. CASE Tab \/ NextCompletion
  <2>1. Kinds(st)
    BY DEF IInv
  <2>2. CASE \E lc, i : Show(lc, i)
    <3>1. SameLine(st', st) /\ began' = began
      BY <2>1, <2>2, ShownIs DEF Show
    <3>2. QED
      BY <3>1 DEF SameLine, SameHistory
  <2>3. CASE UNCHANGED vars
    BY <2>3 DEF vars, SameHistory
  <2>4. (\E lc, i : Show(lc, i)) \/ UNCHANGED vars
    BY <1>2 DEF Tab, NextCompletion
  <2>5. QED
    BY <2>2, <2>3, <2>4
<1>3. CASE UNCHANGED vars
  BY <1>3 DEF vars, SameHistory
<1>4. ~ Start /\ ~ NoPrompt /\ ~ Fgets
  BY DEF Start, NoPrompt, Fgets, CanRead
<1>5. ~ KeyPastEnd /\ ~ Enter /\ ~ CtrlD /\ ~ CtrlC /\ ~ ReadFails
  BY DEF KeyPastEnd, Enter, CtrlD, CtrlC, ReadFails, Finish, DisableRawMode
<1>6. QED
  BY <1>1, <1>2, <1>3, <1>4, <1>5 DEF Next

(* What up and down do to the line that was typed.                         *)
LEMMA HistoryKeySaves == IInv /\ TypedSaved /\ HistoryKey => TypedSaved'
<1> SUFFICES ASSUME IInv, TypedSaved, HistoryKey, rawmode', st'.index # 0
             PROVE  st'.hist[Len(st'.hist)] = began'.typed
  BY DEF TypedSaved
<1> PICK s : s = Input
  OBVIOUS
<1>1. /\ rawmode /\ Editable(s) /\ SameHistory(s, st)
      /\ \/ SameHistory(st', s) /\ Len(s.hist) <= 1
         \/ st'.index = s.index /\ SavedIn(st'.hist, s)
         \/ \E i \in DOMAIN s.hist : Recalled(s, st', i)
  BY HistoryKeyIs
<1>2. /\ s.index \in Nat /\ s.index < Len(s.hist) /\ Len(s.hist) \in Nat
      /\ s.index = st.index /\ s.hist = st.hist
  <2>1. s.hist \in Seq(Seq(Chars)) /\ s.index \in Nat /\ s.index < Len(s.hist)
    BY <1>1, LineFacts DEF Editable, IsLine
  <2>2. QED
    BY <1>1, <2>1, LenProperties DEF SameHistory
<1>3. began'.typed = IF s.index = 0 THEN Line(s) ELSE began.typed
  <2>1. began'.typed = IF st'.index = 0 THEN <<>>
                       ELSE IF st.index = 0 THEN Line(Input) ELSE began.typed
    BY DEF HistoryKey
  <2>2. QED
    BY <1>2, <2>1
<1>4. CASE SameHistory(st', s) /\ Len(s.hist) <= 1
  BY <1>2, <1>4 DEF SameHistory
<1>5. CASE SavedIn(st'.hist, s)
  <2> PICK h, n, k : h = st'.hist /\ n = Len(s.hist) /\ k = s.index
    OBVIOUS
  <2>1. /\ Len(h) = n /\ n \in Nat /\ k \in Nat /\ k < n
        /\ \A i \in 1 .. n : h[i] = IF i = n - k THEN Line(s) ELSE s.hist[i]
    BY <1>2, <1>5 DEF SavedIn
  <2>2. n \in 1 .. n /\ (n = n - k <=> k = 0)
    BY <2>1
  <2>3. h[n] = IF k = 0 THEN Line(s) ELSE s.hist[n]
    BY <2>1, <2>2
  <2>4. k # 0 => s.hist[n] = began.typed
    BY <1>1, <1>2 DEF TypedSaved
  <2>5. QED
    BY <1>3, <2>1, <2>3, <2>4
<1>6. QED
  BY <1>1, <1>4, <1>5 DEF Recalled

LEMMA TypedSavedStep == IInv /\ TypedSaved /\ [Next]_vars => TypedSaved'
<1> SUFFICES ASSUME IInv, TypedSaved, [Next]_vars, rawmode', st'.index # 0
             PROVE  st'.hist[Len(st'.hist)] = began'.typed
  BY DEF TypedSaved
<1>1. CASE rawmode
  <2>1. CASE HistoryKey
    BY <2>1, HistoryKeySaves DEF TypedSaved
  <2>2. CASE SameHistory(st', st) /\ began' = began
    BY <1>1, <2>2 DEF SameHistory, TypedSaved
  <2>3. QED
    BY <1>1, <2>1, <2>2, IndexKept
<1>2. CASE ~ rawmode
  <2>1. rawmode \in BOOLEAN
    BY Zenon DEF IInv
  <2>2. CASE Start
    BY <2>2 DEF Start, Prompted
  <2>3. ~ Start => rawmode' = FALSE \/ rawmode' = rawmode
    BY <1>2 DEF Next, vars, NoPrompt, Key, HistoryKey, Tab, NextCompletion, AcceptCompletion,
       KeyPastEnd, Enter, CtrlD, CtrlC, ReadFails, Fgets, Finish, DisableRawMode
  <2>4. QED
    BY <1>2, <2>1, <2>2, <2>3
<1>3. QED
  BY <1>1, <1>2

LEMMA TypedSavedAlways == Spec => [](IInv /\ TypedSaved)
<1>1. Init => TypedSaved
  BY DEF Init, TypedSaved
<1>2. QED
  BY <1>1, TypedSavedStep, Inductive, PTL DEF Spec

(* Going up in the history and back down gives the line that was typed,    *)
(* cut to leave room for ENTER, whatever was edited on the way and however *)
(* far up it was (editHistoryNext saves the line it leaves, of the index   *)
(* it has).                                                                *)
THEOREM RecallsTypedHolds == Spec => RecallsTyped
<1>1. ASSUME IInv, TypedSaved, [Next]_vars, rawmode, rawmode', st.index = 1, st'.index = 0
      PROVE  Line(st') = SubSeq(began.typed, 1, Min({Limit - 1, Len(began.typed)}))
  <2>1. HistoryKey
    <3>1. ~ SameHistory(st', st)
      BY <1>1 DEF SameHistory
    <3>2. QED
      BY <1>1, <3>1, IndexKept
  <2> PICK s : s = Input
    OBVIOUS
  <2>2. /\ Editable(s) /\ SameHistory(s, st)
        /\ \/ SameHistory(st', s)
           \/ st'.index = s.index
           \/ \E i \in DOMAIN s.hist : Recalled(s, st', i)
    BY <1>1, <2>1, HistoryKeyIs
  <2>3. PICK i \in DOMAIN s.hist : Recalled(s, st', i)
    BY <1>1, <2>2 DEF SameHistory
  <2> PICK n, entry, m : n = Len(s.hist) /\ entry = s.hist[i] /\ m = CopyLength(entry)
    OBVIOUS
  <2>4. entry \in Seq(Chars) /\ Line(st') = SubSeq(entry, 1, m) /\ i \in 1 .. n /\ n - i = 0
    BY <1>1, <2>3 DEF Recalled
  <2>5. n \in Nat
    BY <2>2, LineFacts, LenProperties DEF Editable
  <2>6. i = n
    BY <2>4, <2>5
  <2>7. entry = began.typed
    BY <1>1, <2>2, <2>6 DEF TypedSaved, SameHistory
  <2>8. Min({Limit - 1, Len(entry)}) = m
    <3> PICK T, l : l = Len(entry) /\ T = {Limit - 1, l}
      OBVIOUS
    <3>1. l \in Nat /\ Limit - 1 \in Nat
      BY <2>4, LenProperties, Sizes
    <3>2. m = IF l < Limit - 1 THEN l ELSE Limit - 1
      BY DEF CopyLength
    <3>3. m \in T /\ T \subseteq Int /\ \A y \in T : m <= y
      BY <3>1, <3>2
    <3>4. Min(T) = m
      BY <3>3, MinIs
    <3>5. QED
      BY <3>4
  <2>9. QED
    BY <2>4, <2>7, <2>8
<1>2. IInv /\ TypedSaved /\ [Next]_vars =>
          [(rawmode /\ rawmode' /\ st.index = 1 /\ st'.index = 0) =>
             Line(st') = SubSeq(began.typed, 1, Min({Limit - 1, Len(began.typed)}))]_vars
  BY <1>1
<1>3. QED
  BY <1>2, TypedSavedAlways, PTL DEF Spec, RecallsTyped

-----------------------------------------------------------------------------
(* The lines of the history that are kept.                                 *)

LEMMA SameSequence ==
    ASSUME NEW T, NEW s \in Seq(T), NEW t \in Seq(T), Len(s) = Len(t),
           \A i \in 1 .. Len(s) : s[i] = t[i]
    PROVE  s = t
<1>1. s \in [1 .. Len(s) -> T] /\ t \in [1 .. Len(s) -> T]
  BY LenProperties
<1>2. QED
  BY <1>1

(* a sequence without its k first elements *)
Cut(h, k) == SubSeq(h, k + 1, Len(h))

LEMMA CutIs ==
    ASSUME NEW T, NEW h \in Seq(T), NEW k \in Nat
    PROVE  /\ Cut(h, k) \in Seq(T)
           /\ Len(Cut(h, k)) = IF k <= Len(h) THEN Len(h) - k ELSE 0
           /\ \A i \in 1 .. Len(Cut(h, k)) : Cut(h, k)[i] = h[k + i]
<1>1. Len(h) \in Nat
  BY LenProperties
<1> PICK m \in Int, n \in Nat : m = k + 1 /\ n = Len(h)
  BY <1>1
<1> PICK c : c = SubSeq(h, m, n)
  OBVIOUS
<1>2. \A i \in m .. n : h[i] \in T
  <2>1. \A i \in m .. n : i \in 1 .. Len(h)
    OBVIOUS
  <2>2. QED
    BY <2>1, ElementOfSeq
<1>3. /\ c \in Seq(T) /\ Len(c) = (IF m <= n THEN n - m + 1 ELSE 0)
      /\ \A i \in 1 .. n - m + 1 : c[i] = h[m + i - 1]
  BY <1>2, SubSeqProperties
<1>4. (IF m <= n THEN n - m + 1 ELSE 0) = IF k <= n THEN n - k ELSE 0
  OBVIOUS
<1>5. \A i \in 1 .. Len(c) : i \in 1 .. n - m + 1 /\ m + i - 1 = k + i
  BY <1>3
<1>6. Cut(h, k) = c
  BY DEF Cut
<1>7. QED
  BY <1>3, <1>4, <1>5, <1>6

LEMMA CutNone == ASSUME NEW T, NEW h \in Seq(T) PROVE Cut(h, 0) = h
<1>1. Len(h) \in Nat
  BY LenProperties
<1> PICK k \in Nat : k = 0
  OBVIOUS
<1> PICK c : c = Cut(h, k)
  OBVIOUS
<1>2. c \in Seq(T) /\ Len(c) = Len(h) /\ \A i \in 1 .. Len(c) : c[i] = h[i]
  BY <1>1, CutIs
<1>3. QED
  BY <1>2, SameSequence

LEMMA CutTail == ASSUME NEW T, NEW h \in Seq(T), h # <<>> PROVE Tail(h) = Cut(h, 1)
<1> PICK k \in Nat : k = 1
  OBVIOUS
<1>0. PICK c, t : c = Cut(h, k) /\ t = Tail(h)
  OBVIOUS
<1>1. /\ t \in Seq(T) /\ Len(t) = Len(h) - 1
      /\ \A i \in 1 .. Len(t) : t[i] = h[i + 1]
  BY <1>0, HeadTailProperties
<1>2. /\ c \in Seq(T) /\ Len(c) = IF k <= Len(h) THEN Len(h) - k ELSE 0
      /\ \A i \in 1 .. Len(c) : c[i] = h[k + i]
  BY <1>0, CutIs
<1>3. Len(h) \in Nat \ {0}
  BY EmptySeq
<1>4. Len(c) = Len(t)
  BY <1>1, <1>2, <1>3
<1>5. \A i \in 1 .. Len(c) : i + 1 = k + i
  BY <1>2
<1>6. \A i \in 1 .. Len(c) : c[i] = t[i]
  BY <1>1, <1>2, <1>4, <1>5
<1>7. c = t
  BY <1>1, <1>2, <1>4, <1>6, SameSequence
<1>8. QED
  BY <1>0, <1>7

LEMMA CutTwice == ASSUME NEW T, NEW h \in Seq(T) PROVE Cut(Cut(h, 1), 1) = Cut(h, 2)
<1> PICK k \in Nat, j \in Nat : k = 1 /\ j = 2
  OBVIOUS
<1> PICK c, d, e : c = Cut(h, k) /\ d = Cut(c, k) /\ e = Cut(h, j)
  OBVIOUS
<1>1. /\ c \in Seq(T) /\ Len(c) = IF k <= Len(h) THEN Len(h) - k ELSE 0
      /\ \A i \in 1 .. Len(c) : c[i] = h[k + i]
  BY CutIs
<1>2. /\ d \in Seq(T) /\ Len(d) = IF k <= Len(c) THEN Len(c) - k ELSE 0
      /\ \A i \in 1 .. Len(d) : d[i] = c[k + i]
  BY <1>1, CutIs
<1>3. /\ e \in Seq(T) /\ Len(e) = IF j <= Len(h) THEN Len(h) - j ELSE 0
      /\ \A i \in 1 .. Len(e) : e[i] = h[j + i]
  BY CutIs
<1>4. Len(h) \in Nat
  BY LenProperties
<1>5. Len(d) = Len(e)
  BY <1>1, <1>2, <1>3, <1>4
<1>6. \A i \in 1 .. Len(d) : d[i] = e[i]
  <2> SUFFICES ASSUME NEW i \in 1 .. Len(d)
               PROVE  d[i] = e[i]
    OBVIOUS
  <2>1. k + i \in 1 .. Len(c) /\ k + (k + i) = j + i
    BY <1>1, <1>2, <1>4
  <2>2. QED
    BY <1>1, <1>2, <1>3, <1>5, <2>1
<1>7. QED
  BY <1>2, <1>3, <1>5, <1>6, SameSequence, SMTT(30)

(* d is what is left of h without its first k elements                     *)
CutTo(T, h, k, d) ==
    /\ d \in Seq(T) /\ Len(d) = IF k <= Len(h) THEN Len(h) - k ELSE 0
    /\ \A i \in 1 .. Len(d) : d[i] = h[k + i]

LEMMA CutToIs ==
    ASSUME NEW T, NEW h \in Seq(T), NEW k \in Nat
    PROVE  CutTo(T, h, k, Cut(h, k))
  BY CutIs DEF CutTo

LEMMA CutAppended ==
    ASSUME NEW T, NEW h \in Seq(T), NEW x \in T
    PROVE  Cut(Append(h, x), 1) = IF h = <<>> THEN Cut(h, 1) ELSE Append(Cut(h, 1), x)
<1>1. Len(h) \in Nat /\ (h = <<>> <=> Len(h) = 0)
  BY LenProperties, EmptySeq
<1> PICK k \in Nat : k = 1
  OBVIOUS
<1> PICK a, c, d : a = Append(h, x) /\ c = Cut(h, k) /\ d = Cut(a, k)
  OBVIOUS
<1>2. /\ a \in Seq(T) /\ Len(a) = Len(h) + 1 /\ a[Len(h) + 1] = x
      /\ \A i \in 1 .. Len(h) : a[i] = h[i]
  BY AppendProperties
<1>3. /\ c \in Seq(T) /\ Len(c) = IF k <= Len(h) THEN Len(h) - k ELSE 0
      /\ \A i \in 1 .. Len(c) : c[i] = h[k + i]
  BY CutIs
<1>4. /\ d \in Seq(T) /\ Len(d) = Len(h)
      /\ \A i \in 1 .. Len(d) : d[i] = a[k + i]
  <2>1. /\ d \in Seq(T) /\ Len(d) = IF k <= Len(a) THEN Len(a) - k ELSE 0
        /\ \A i \in 1 .. Len(d) : d[i] = a[k + i]
    <3>1. a \in Seq(T)
      BY <1>2
    <3>2. CutTo(T, a, k, d)
      BY <3>1, CutToIs
    <3>3. QED
      BY <3>2 DEF CutTo
  <2>2. QED
    BY <1>1, <1>2, <2>1
<1>5. CASE h = <<>>
  <2>1. Len(d) = Len(c) /\ \A i \in 1 .. Len(d) : d[i] = c[i]
    BY <1>1, <1>3, <1>4, <1>5
  <2>2. QED
    BY <1>3, <1>4, <1>5, <2>1, SameSequence
<1>6. CASE h # <<>>
  <2> PICK b : b = Append(c, x)
    OBVIOUS
  <2>1. /\ b \in Seq(T) /\ Len(b) = Len(c) + 1 /\ b[Len(c) + 1] = x
        /\ \A i \in 1 .. Len(c) : b[i] = c[i]
    BY <1>3, AppendProperties
  <2>2. Len(b) = Len(d) /\ Len(c) + 1 = Len(h)
    BY <1>1, <1>3, <1>4, <1>6, <2>1
  <2>3. \A i \in 1 .. Len(d) : d[i] = b[i]
    <3> SUFFICES ASSUME NEW i \in 1 .. Len(d)
                 PROVE  d[i] = b[i]
      OBVIOUS
    <3>1. CASE i = Len(h)
      <4>1. d[i] = x
        BY <1>2, <1>4, <3>1
      <4>2. b[i] = x
        BY <2>1, <2>2, <3>1
      <4>3. QED
        BY <4>1, <4>2
    <3>2. CASE i # Len(h)
      <4>1. i \in 1 .. Len(c) /\ k + i \in 1 .. Len(h)
        BY <1>1, <1>4, <2>2, <3>2
      <4>2. QED
        BY <1>2, <1>3, <1>4, <2>1, <4>1
    <3>3. QED
      BY <3>1, <3>2
  <2>4. QED
    BY <1>4, <1>6, <2>1, <2>2, <2>3, SameSequence
<1>7. QED
  BY <1>5, <1>6

LEMMA FrontIs ==
    ASSUME NEW T, NEW h \in Seq(T), h # <<>>
    PROVE  /\ Front(h) \in Seq(T) /\ Last(h) \in T /\ h = Append(Front(h), Last(h))
           /\ Len(Front(h)) = Len(h) - 1 /\ Len(h) \in Nat \ {0}
<1>1. Len(h) \in Nat \ {0}
  BY EmptySeq
<1> PICK m \in Int, n \in Nat : m = 1 /\ n = Len(h) - 1
  BY <1>1
<1> PICK f, x : f = SubSeq(h, m, n) /\ x = Last(h)
  OBVIOUS
<1>2. \A i \in 1 .. Len(h) : h[i] \in T
  BY ElementOfSeq
<1>3. \A i \in m .. n : h[i] \in T
  BY <1>1, <1>2
<1>4. /\ f \in Seq(T) /\ Len(f) = IF m <= n THEN n - m + 1 ELSE 0
      /\ \A i \in 1 .. n - m + 1 : f[i] = h[m + i - 1]
  BY <1>3, SubSeqProperties
<1>5. Len(f) = n /\ \A i \in 1 .. n : i \in 1 .. n - m + 1 /\ m + i - 1 = i
  BY <1>4
<1>6. x = h[Len(h)] /\ x \in T
  BY <1>1, <1>2 DEF Last
<1> PICK a : a = Append(f, x)
  OBVIOUS
<1>7. /\ a \in Seq(T) /\ Len(a) = n + 1 /\ a[n + 1] = x /\ \A i \in 1 .. n : a[i] = f[i]
  BY <1>4, <1>5, <1>6, AppendProperties
<1>8. a = h
  <2>1. n + 1 = Len(h)
    BY <1>1
  <2>2. \A i \in 1 .. Len(a) : a[i] = h[i]
    <3> SUFFICES ASSUME NEW i \in 1 .. Len(a)
                 PROVE  a[i] = h[i]
      OBVIOUS
    <3>1. CASE i = n + 1
      BY <1>6, <1>7, <2>1, <3>1
    <3>2. CASE i # n + 1
      <4>1. i \in 1 .. n
        BY <1>7, <3>2
      <4>2. QED
        BY <1>4, <1>5, <1>7, <4>1
    <3>3. QED
      BY <3>1, <3>2
  <2>3. QED
    BY <1>7, <2>1, <2>2, SameSequence
<1>9. Front(h) = f
  BY DEF Front
<1>10. QED
  BY <1>1, <1>4, <1>5, <1>6, <1>8, <1>9

LEMMA FrontAppended ==
    ASSUME NEW T, NEW h \in Seq(T), NEW x \in T
    PROVE  Front(Append(h, x)) = h /\ Last(Append(h, x)) = x
<1> PICK a, f : a = Append(h, x) /\ f = Front(a)
  OBVIOUS
<1>1. /\ a \in Seq(T) /\ a # <<>> /\ Len(a) = Len(h) + 1 /\ a[Len(h) + 1] = x
      /\ \A i \in 1 .. Len(h) : a[i] = h[i]
      /\ Len(h) \in Nat
  BY AppendProperties, LenProperties
<1>2. f \in Seq(T) /\ Len(f) = Len(h)
  <2>1. f \in Seq(T) /\ Len(f) = Len(a) - 1
    BY <1>1, FrontIs
  <2>2. QED
    BY <1>1, <2>1
<1>3. \A i \in 1 .. Len(h) : f[i] = h[i]
  <2> PICK y : y = Last(a)
    OBVIOUS
  <2>1. y \in T /\ a = Append(f, y)
    BY <1>1, FrontIs
  <2>2. \A i \in 1 .. Len(f) : a[i] = f[i]
    BY <1>2, <2>1, AppendProperties
  <2>3. QED
    BY <1>1, <1>2, <2>2
<1>4. f = h
  BY <1>2, <1>3, SameSequence
<1>5. Last(a) = x
  BY <1>1 DEF Last
<1>6. QED
  BY <1>4, <1>5

LEMMA PrefixAppended ==
    ASSUME NEW T, NEW s \in Seq(T), NEW x \in T
    PROVE  IsPrefix(s, Append(s, x))
<1> PICK m \in Int, n \in Nat : m = 1 /\ n = Len(s)
  BY LenProperties
<1> PICK a : a = Append(s, x)
  OBVIOUS
<1>1. a \in Seq(T) /\ Len(a) = n + 1 /\ \A i \in 1 .. n : a[i] = s[i]
  BY AppendProperties
<1>2. \A i \in m .. n : s[i] \in T /\ a[i] = s[i]
  BY <1>1, ElementOfSeq
<1>3. /\ SubSeq(s, m, n) \in Seq(T)
      /\ Len(SubSeq(s, m, n)) = IF m <= n THEN n - m + 1 ELSE 0
      /\ \A i \in 1 .. n - m + 1 : SubSeq(s, m, n)[i] = s[m + i - 1]
  BY <1>2, SubSeqProperties
<1>4. /\ SubSeq(a, m, n) \in Seq(T)
      /\ Len(SubSeq(a, m, n)) = IF m <= n THEN n - m + 1 ELSE 0
      /\ \A i \in 1 .. n - m + 1 : SubSeq(a, m, n)[i] = a[m + i - 1]
  <2>1. \A i \in m .. n : a[i] \in T
    BY <1>2
  <2>2. QED
    BY <2>1, SubSeqProperties
<1>5. \A i \in 1 .. Len(SubSeq(s, m, n)) : SubSeq(s, m, n)[i] = SubSeq(a, m, n)[i]
  <2> SUFFICES ASSUME NEW i \in 1 .. Len(SubSeq(s, m, n))
               PROVE  SubSeq(s, m, n)[i] = SubSeq(a, m, n)[i]
    OBVIOUS
  <2>1. i \in 1 .. n - m + 1 /\ m + i - 1 \in 1 .. n
    BY <1>3
  <2>2. QED
    BY <1>1, <1>3, <1>4, <2>1
<1>6. SubSeq(s, m, n) = SubSeq(a, m, n)
  BY <1>3, <1>4, <1>5, SameSequence
<1>7. n <= Len(a)
  BY <1>1
<1>8. QED
  BY <1>6, <1>7 DEF IsPrefix

LEMMA PrefixOfItself == ASSUME NEW T, NEW s \in Seq(T) PROVE IsPrefix(s, s)
  BY LenProperties DEF IsPrefix

(* The lines that are not empty, and what an empty line and another one    *)
(* add to them.                                                            *)
LEMMA NotEmptyIs ==
    ASSUME NEW h \in Seq(Seq(Chars)), NEW x \in Seq(Chars)
    PROVE  /\ NotEmpty(h) \in Seq(Seq(Chars))
           /\ NotEmpty(Append(h, x)) = IF x = <<>> THEN NotEmpty(h) ELSE Append(NotEmpty(h), x)
<1> PICK S : S = Seq(Chars) \ {<<>>}
  OBVIOUS
<1>1. NotEmpty(h) = Selected(h, S) /\ NotEmpty(Append(h, x)) = Selected(Append(h, x), S)
  BY DEF NotEmpty
<1>2. Selected(h, S) \in Seq(Seq(Chars))
  <2>1. Selected(h, S) \in Seq(S) /\ S \subseteq Seq(Chars)
    BY SelectedAreIn
  <2>2. QED
    BY <2>1, LargerSeq
<1>3. Selected(Append(h, x), S) = IF x \in S THEN Append(Selected(h, S), x) ELSE Selected(h, S)
  BY SelectedLast
<1>4. x \in S <=> x # <<>>
  OBVIOUS
<1>5. QED
  BY <1>1, <1>2, <1>3, <1>4

LEMMA EmptyAdded ==
    ASSUME NEW h \in Seq(Seq(Chars)), NEW empty, empty = <<>>, NEW longer,
           longer = Append(h, empty)
    PROVE  /\ NotEmpty(longer) = NotEmpty(h) /\ Front(longer) = h /\ Len(longer) = Len(h) + 1
           /\ NotEmpty(Cut(longer, 1)) = NotEmpty(Cut(h, 1))
<1>1. empty \in Seq(Chars)
  BY EmptySeq
<1>2. NotEmpty(Append(h, empty)) = NotEmpty(h)
  BY <1>1, NotEmptyIs
<1>3. Front(Append(h, empty)) = h
  BY <1>1, FrontAppended
<1>4. Len(Append(h, empty)) = Len(h) + 1
  BY <1>1, AppendProperties
<1> PICK one \in Nat : one = 1
  OBVIOUS
<1> PICK c : c = Cut(h, one)
  OBVIOUS
<1>5. c \in Seq(Seq(Chars))
  BY CutIs
<1>6. NotEmpty(Append(c, empty)) = NotEmpty(c)
  BY <1>1, <1>5, NotEmptyIs
<1>7. Cut(Append(h, empty), 1) = IF h = <<>> THEN Cut(h, 1) ELSE Append(Cut(h, 1), empty)
  BY <1>1, CutAppended
<1>8. QED
  BY <1>2, <1>3, <1>4, <1>6, <1>7

(* h keeps the lines of one of the histories that old may become, and h    *)
(* has the same lines                                                      *)
Keeps(old, h) == \E d \in Dropped(old) : IsPrefix(NotEmpty(d), NotEmpty(h))
Like(old, h) == \E d \in Dropped(old) : NotEmpty(h) = NotEmpty(d)

LEMMA LikeCut ==
    ASSUME NEW old \in Seq(Seq(Chars)), NEW h, NEW k \in Nat,
           k <= Less(Len(old) + 2, HistoryMaxLen), NotEmpty(h) = NotEmpty(Cut(old, k))
    PROVE  Like(old, h)
<1> PICK n : n = Less(Len(old) + 2, HistoryMaxLen)
  OBVIOUS
<1>1. n \in Nat /\ k \in 0 .. n
  <2>1. Len(old) \in Nat /\ HistoryMaxLen \in Nat
    BY LenProperties, Sizes
  <2>2. Less(Len(old) + 2, HistoryMaxLen) \in Nat
    BY <2>1 DEF Less
  <2>3. QED
    BY <2>2
<1>2. Cut(old, k) \in Dropped(old)
  BY <1>1 DEF Dropped, Cut
<1>3. QED
  BY <1>2 DEF Like

LEMMA LikeKeeps ==
    ASSUME NEW old, NEW h \in Seq(Seq(Chars)), Like(old, h)
    PROVE  Keeps(old, h)
<1>1. NotEmpty(h) \in Seq(Seq(Chars))
  <2>1. <<>> \in Seq(Chars)
    BY EmptySeq
  <2>2. QED
    BY <2>1, NotEmptyIs
<1>2. IsPrefix(NotEmpty(h), NotEmpty(h))
  BY <1>1, PrefixOfItself
<1>3. QED
  BY <1>2 DEF Like, Keeps

LEMMA AppendKeeps ==
    ASSUME NEW old, NEW h \in Seq(Seq(Chars)), Like(old, h), NEW line \in Seq(Chars)
    PROVE  Keeps(old, Append(h, line))
<1> PICK kept : kept = NotEmpty(h)
  OBVIOUS
<1>1. /\ kept \in Seq(Seq(Chars))
      /\ NotEmpty(Append(h, line)) = IF line = <<>> THEN kept ELSE Append(kept, line)
  BY NotEmptyIs
<1>2. IsPrefix(kept, kept) /\ IsPrefix(kept, Append(kept, line))
  BY <1>1, PrefixOfItself, PrefixAppended
<1>3. IsPrefix(kept, NotEmpty(Append(h, line)))
  BY <1>1, <1>2
<1>4. QED
  BY <1>3 DEF Like, Keeps

(* linenoiseHistoryAdd drops the oldest line if there is no room.          *)
LEMMA AddKeeps ==
    ASSUME NEW old, NEW h \in Seq(Seq(Chars)), NEW line \in Seq(Chars), Like(old, h),
           Len(h) = HistoryMaxLen => Like(old, Tail(h))
    PROVE  Keeps(old, HistoryAdd(h, line)) /\ Last(HistoryAdd(h, line)) = line
<1>1. CASE h # <<>> /\ Last(h) = line
  <2>1. HistoryAdd(h, line) = h
    BY <1>1 DEF HistoryAdd
  <2>2. QED
    BY <1>1, <2>1, LikeKeeps
<1>2. CASE ~ (h # <<>> /\ Last(h) = line)
  <2> PICK kept : kept = IF Len(h) = HistoryMaxLen THEN Tail(h) ELSE h
    OBVIOUS
  <2>1. HistoryAdd(h, line) = Append(kept, line)
    BY <1>2 DEF HistoryAdd
  <2>2. Len(h) = HistoryMaxLen => h # <<>>
    BY Sizes, EmptySeq
  <2>3. Len(h) = HistoryMaxLen => Tail(h) \in Seq(Seq(Chars))
    BY <2>2, HeadTailProperties
  <2>4. kept \in Seq(Seq(Chars)) /\ Like(old, kept)
    BY <2>3
  <2>5. Last(Append(kept, line)) = line
    BY <2>4, FrontAppended
  <2>6. QED
    BY <2>1, <2>4, <2>5, AppendKeeps
<1>3. QED
  BY <1>1, <1>2

(* Adding the line that is to be edited drops a line at most, and none if  *)
(* the newest is empty; then room is left for the line that is entered.    *)
LEMMA ScratchAdded ==
    ASSUME NEW old \in Histories, NEW h, h = HistoryAdd(old, <<>>)
    PROVE  /\ h \in Histories /\ h # <<>> /\ Front(h) \in Seq(Seq(Chars))
           /\ Like(old, h) /\ Like(old, Front(h))
           /\ Len(Front(h)) # HistoryMaxLen
           /\ Len(h) = HistoryMaxLen => Like(old, Tail(h))
<1> PICK empty : empty = <<>>
  OBVIOUS
<1>1. /\ old \in Seq(Seq(Chars)) /\ Len(old) \in Nat /\ Len(old) <= HistoryMaxLen
      /\ (old = <<>> <=> Len(old) = 0)
  BY LenProperties, EmptySeq DEF Histories, HistoryFits
<1>2. empty \in Seq(Chars) /\ Len(empty) = 0
  BY EmptySeq
<1>3. h \in Histories /\ Len(h) > 0 /\ h \in Seq(Seq(Chars)) /\ h # <<>> /\ Len(h) <= HistoryMaxLen
  <2>1. Len(empty) <= Limit
    BY <1>2, Sizes
  <2>2. h \in Histories /\ Len(h) > 0
    BY <1>2, <2>1, HistoryAdded
  <2>3. QED
    BY <2>2, EmptySeq DEF Histories, HistoryFits
<1>4. Front(h) \in Seq(Seq(Chars)) /\ Len(Front(h)) # HistoryMaxLen
  <2>1. Front(h) \in Seq(Seq(Chars)) /\ Len(Front(h)) = Len(h) - 1 /\ Len(h) \in Nat
    BY <1>3, FrontIs
  <2>2. QED
    BY <1>3, <2>1, Sizes
<1>5. Tail(h) = Cut(h, 1) /\ (old # <<>> => Tail(old) = Cut(old, 1))
  BY <1>1, <1>3, CutTail
<1> PICK one \in Nat, two \in Nat, none \in Nat : one = 1 /\ two = 2 /\ none = 0
  OBVIOUS
<1>6. /\ Cut(old, none) = old /\ Cut(old, one) \in Seq(Seq(Chars))
      /\ Cut(Cut(old, one), one) = Cut(old, two)
  BY <1>1, CutNone, CutTwice, CutIs
<1>7. none <= Less(Len(old) + 2, HistoryMaxLen)
  BY <1>1, Sizes DEF Less
<1>8. CASE old # <<>> /\ Last(old) = <<>>
  <2>1. h = old
    BY <1>8 DEF HistoryAdd
  <2>2. Like(old, h)
    BY <1>1, <1>6, <1>7, <2>1, LikeCut
  <2>3. NotEmpty(Front(h)) = NotEmpty(old)
    <3> PICK f : f = Front(h)
      OBVIOUS
    <3>1. f \in Seq(Seq(Chars)) /\ old = Append(f, empty)
      BY <1>1, <1>8, <2>1, FrontIs
    <3>2. NotEmpty(Append(f, empty)) = NotEmpty(f)
      BY <1>2, <3>1, NotEmptyIs
    <3>3. QED
      BY <3>1, <3>2
  <2>4. Like(old, Front(h))
    BY <1>1, <1>6, <1>7, <2>3, LikeCut
  <2>5. Len(h) = HistoryMaxLen => Like(old, Tail(h))
    <3> SUFFICES ASSUME Len(h) = HistoryMaxLen
                 PROVE  Like(old, Tail(h))
      OBVIOUS
    <3>1. one <= Less(Len(old) + 2, HistoryMaxLen)
      BY <1>1, <2>1, Sizes DEF Less
    <3>2. Tail(h) = Cut(old, one)
      BY <1>5, <2>1
    <3>3. QED
      BY <1>1, <3>1, <3>2, LikeCut
  <2>6. QED
    BY <1>3, <1>4, <2>2, <2>4, <2>5
<1>9. CASE ~ (old # <<>> /\ Last(old) = <<>>) /\ Len(old) = HistoryMaxLen
  <2> PICK c : c = Cut(old, one)
    OBVIOUS
  <2>1. h = Append(c, empty) /\ c \in Seq(Seq(Chars))
    <3>1. old # <<>>
      BY <1>1, <1>9, Sizes
    <3>2. QED
      BY <1>5, <1>6, <1>9, <3>1 DEF HistoryAdd
  <2>2. one <= Less(Len(old) + 2, HistoryMaxLen) /\ two <= Less(Len(old) + 2, HistoryMaxLen)
    BY <1>1, <1>9, Sizes DEF Less
  <2>3. /\ NotEmpty(h) = NotEmpty(c) /\ Front(h) = c
        /\ NotEmpty(Cut(h, 1)) = NotEmpty(Cut(c, 1))
    BY <2>1, EmptyAdded
  <2>4. Like(old, h) /\ Like(old, Front(h))
    BY <1>1, <2>2, <2>3, LikeCut
  <2>5. NotEmpty(Tail(h)) = NotEmpty(Cut(old, two))
    <3>1. Cut(c, 1) = Cut(old, two)
      BY <1>6
    <3>2. QED
      BY <1>5, <2>3, <3>1
  <2>6. Like(old, Tail(h))
    BY <1>1, <2>2, <2>5, LikeCut
  <2>7. QED
    BY <1>3, <1>4, <2>4, <2>6
<1>10. CASE ~ (old # <<>> /\ Last(old) = <<>>) /\ Len(old) # HistoryMaxLen
  <2>1. h = Append(old, empty)
    BY <1>10 DEF HistoryAdd
  <2>2. /\ NotEmpty(h) = NotEmpty(old) /\ Front(h) = old /\ Len(h) = Len(old) + 1
        /\ NotEmpty(Cut(h, 1)) = NotEmpty(Cut(old, 1))
    BY <1>1, <2>1, EmptyAdded
  <2>3. Like(old, h) /\ Like(old, Front(h))
    BY <1>1, <1>6, <1>7, <2>2, LikeCut
  <2>4. Len(h) = HistoryMaxLen => Like(old, Tail(h))
    <3> SUFFICES ASSUME Len(h) = HistoryMaxLen
                 PROVE  Like(old, Tail(h))
      OBVIOUS
    <3>1. one <= Less(Len(old) + 2, HistoryMaxLen)
      BY <1>1, <2>2, Sizes DEF Less
    <3>2. NotEmpty(Tail(h)) = NotEmpty(Cut(old, one))
      BY <1>5, <2>2
    <3>3. QED
      BY <1>1, <3>1, <3>2, LikeCut
  <2>5. QED
    BY <1>3, <1>4, <2>3, <2>4
<1>11. QED
  BY <1>8, <1>9, <1>10

-----------------------------------------------------------------------------
(* What the end of a line leaves of the history.                           *)

Began == HistoryBegan /\ began.hist \in Histories

LEMMA BeganInit == Init => Began
<1> SUFFICES ASSUME Init
             PROVE  Began
  OBVIOUS
<1> PICK h : h = <<>>
  OBVIOUS
<1>1. rawmode = FALSE /\ began.hist = h
  BY DEF Init
<1>2. h \in Histories
  BY EmptySeq, Sizes DEF Histories, HistoryFits
<1>3. QED
  BY <1>1, <1>2 DEF Began, HistoryBegan

LEMMA BeganStep == IInv /\ Began /\ [Next]_vars => Began'
<1> SUFFICES ASSUME IInv, Began, [Next]_vars
             PROVE  Began'
  OBVIOUS
<1>1. began'.hist \in Histories
  <2>1. CASE Start
    <3>1. began'.hist = st.hist
      BY <2>1 DEF Start
    <3>2. st.hist \in Histories
      BY DEF IInv, Kinds, Histories
    <3>3. QED
      BY <3>1, <3>2
  <2>2. CASE HistoryKey
    <3> PICK h : h = <<>>
      OBVIOUS
    <3>1. began'.hist = h
      BY <2>2 DEF HistoryKey
    <3>2. h \in Histories
      BY EmptySeq, Sizes DEF Histories, HistoryFits
    <3>3. QED
      BY <3>1, <3>2
  <2>3. ~ Start /\ ~ HistoryKey => began' = began
    BY DEF Next, vars, NoPrompt, Key, Tab, NextCompletion, Show, AcceptCompletion,
       KeyPastEnd, Enter, CtrlD, CtrlC, ReadFails, Fgets, Finish
  <2>4. QED
    BY <2>1, <2>2, <2>3 DEF Began
<1>2. HistoryBegan'
  <2> SUFFICES ASSUME rawmode', ~began'.moved
               PROVE  st'.hist = HistoryAdd(began'.hist, <<>>)
    BY DEF HistoryBegan
  <2>1. CASE rawmode
    <3>1. ~ HistoryKey
      <4>1. HistoryKey => began'.moved = TRUE
        BY DEF HistoryKey
      <4>2. began'.moved # TRUE
        OBVIOUS
      <4>3. QED
        BY <4>1, <4>2
    <3>2. SameHistory(st', st) /\ began' = began
      BY <2>1, <3>1, IndexKept
    <3>3. QED
      BY <2>1, <3>2 DEF Began, HistoryBegan, SameHistory
  <2>2. CASE ~ rawmode
    <3>1. rawmode \in BOOLEAN
      BY Zenon DEF IInv
    <3>2. CASE Start
      BY <3>2 DEF Start, Prompted
    <3>3. ~ Start => rawmode' = FALSE \/ rawmode' = rawmode
      BY <2>2 DEF Next, vars, NoPrompt, Key, HistoryKey, Tab, NextCompletion, AcceptCompletion,
         KeyPastEnd, Enter, CtrlD, CtrlC, ReadFails, Fgets, Finish, DisableRawMode
    <3>4. QED
      BY <2>2, <3>1, <3>2, <3>3
  <2>3. QED
    BY <2>1, <2>2
<1>3. QED
  BY <1>1, <1>2 DEF Began

(* The line s ends, with or without its own entry in the history.          *)
LEMMA EndKeeps ==
    ASSUME Began, rawmode, ~began.moved, NEW s, IsLine(s), s.hist = st.hist,
           NEW h, NEW line, h = s.hist \/ h = Front(s.hist), line = CString(s.buf)
    PROVE  /\ Keeps(began.hist, h)
           /\ Keeps(began.hist, HistoryAdd(h, line)) /\ Last(HistoryAdd(h, line)) = line
<1> PICK old, a : old = began.hist /\ a = st.hist
  OBVIOUS
<1>1. old \in Histories /\ a = HistoryAdd(old, <<>>)
  BY DEF Began, HistoryBegan
<1>2. /\ a \in Histories /\ Front(a) \in Seq(Seq(Chars))
      /\ Like(old, a) /\ Like(old, Front(a)) /\ Len(Front(a)) # HistoryMaxLen
      /\ Len(a) = HistoryMaxLen => Like(old, Tail(a))
  BY <1>1, ScratchAdded
<1>3. h \in Seq(Seq(Chars)) /\ Like(old, h) /\ (Len(h) = HistoryMaxLen => Like(old, Tail(h)))
  <2>1. a \in Seq(Seq(Chars))
    BY <1>2 DEF Histories
  <2>2. CASE h = a
    BY <1>2, <2>1, <2>2
  <2>3. CASE h = Front(a)
    BY <1>2, <2>3
  <2>4. QED
    BY <2>2, <2>3
<1>4. line \in Seq(Chars)
  BY LineHistory
<1>5. Keeps(old, h)
  BY <1>3, LikeKeeps
<1>6. Keeps(old, HistoryAdd(h, line)) /\ Last(HistoryAdd(h, line)) = line
  BY <1>3, <1>4, AddKeeps
<1>7. QED
  BY <1>5, <1>6

(* With no completion shown, the line that ends is the line.               *)
LEMMA LineEnds ==
    ASSUME IInv, rawmode, completions = <<>>
    PROVE  Input = st /\ CString(st.buf) = Line(st)
<1>1. Input = st
  BY DEF Input, Accept
<1>2. Editable(st)
  BY DEF IInv
<1> PICK b, n : b = st.buf /\ n = st.len
  OBVIOUS
<1>3. n \in 0 .. Limit /\ EndsAt(b, n)
  BY <1>2, LineFacts DEF Editable
<1>4. CString(b) = [i \in 1 .. n |-> b[i - 1]]
  BY <1>3, StringOf
<1>5. QED
  BY <1>1, <1>4 DEF Line

LEMMA FinishedHistory == ASSUME NEW h, NEW r, Finish(h, r) PROVE st'.hist = h /\ result' = r
  BY DEF Finish, Prompted

LEMMA EnterKeepsHistory ==
    ASSUME IInv, Began, rawmode, ~began.moved, Enter
    PROVE  /\ Keeps(began.hist, st'.hist)
           /\ completions = <<>> => Last(st'.hist) = Line(st)
<1> PICK input, s : input = Input /\ s = MoveEnd(input)
  OBVIOUS
<1>1. IsLine(input) /\ SameHistory(input, st)
  BY InputIs
<1>2. IsLine(s) /\ SameHistory(s, input) /\ s.buf = input.buf
  <2> PICK n : n = input.len
    OBVIOUS
  <2>1. n \in 0 .. input.len
    BY <1>1, LineFacts, Sizes
  <2>2. /\ Editable(MoveTo(input, n)) /\ SameHistory(MoveTo(input, n), input)
        /\ HasLine(MoveTo(input, n), input.buf, input.len, n)
    BY <1>1, <2>1, MovedTo
  <2>3. QED
    BY <2>2 DEF MoveEnd, Editable, HasLine
<1> PICK kept, line, h, r :
        /\ kept = Front(s.hist) /\ line = CString(s.buf)
        /\ h = HistoryAdd(kept, line) /\ r = Success(s.len)
  OBVIOUS
<1>3. s.hist = st.hist
  BY <1>1, <1>2 DEF SameHistory
<1>4. Keeps(began.hist, h) /\ Last(h) = line
  BY <1>2, <1>3, EndKeeps
<1>5. Finish(h, r)
  BY DEF Enter, WithoutScratch
<1>6. st'.hist = h
  BY <1>5, FinishedHistory
<1>7. completions = <<>> => line = Line(st)
  BY <1>2, LineEnds
<1>8. QED
  BY <1>4, <1>6, <1>7

LEMMA ReadFailsKeepsHistory ==
    ASSUME IInv, Began, rawmode, ~began.moved, ReadFails
    PROVE  /\ Keeps(began.hist, st'.hist)
           /\ completions = <<>> => Last(st'.hist) = Line(st)
<1>1. PICK s : /\ s = st \/ (completions # <<>> /\ s = Input)
               /\ Finish(HistoryAdd(s.hist, CString(s.buf)), Success(s.len))
  BY DEF ReadFails
<1>2. IsLine(s) /\ s.hist = st.hist
  BY <1>1, InputIs DEF SameHistory
<1> PICK old, line, h, r :
        /\ old = s.hist /\ line = CString(s.buf)
        /\ h = HistoryAdd(old, line) /\ r = Success(s.len)
  OBVIOUS
<1>3. Keeps(began.hist, h) /\ Last(h) = line
  BY <1>2, EndKeeps
<1>4. st'.hist = h
  BY <1>1, FinishedHistory
<1>5. completions = <<>> => line = Line(st)
  BY <1>1, LineEnds
<1>6. QED
  BY <1>3, <1>4, <1>5

LEMMA ControlKeepsHistory ==
    ASSUME IInv, Began, rawmode, ~began.moved, CtrlC \/ CtrlD
    PROVE  Keeps(began.hist, st'.hist) /\ result'.err # "none"
<1> PICK s, line : s = Input /\ line = CString(s.buf)
  OBVIOUS
<1>1. IsLine(s) /\ s.hist = st.hist
  BY InputIs DEF SameHistory
<1>2. PICK h, r : /\ h = s.hist \/ h = Front(s.hist)
                  /\ r = Failure("EAGAIN") \/ r = Failure("none")
                  /\ Finish(h, r)
  BY DEF CtrlC, CtrlD, WithoutScratch
<1>3. Keeps(began.hist, h)
  BY <1>1, <1>2, EndKeeps
<1>4. st'.hist = h /\ result' = r
  BY <1>2, FinishedHistory
<1>5. r.err # "none"
  BY <1>2 DEF Failure
<1>6. QED
  BY <1>3, <1>4, <1>5

(* However a line ends, the lines of the history that are not empty stay,  *)
(* in order, but for as many of the oldest as there is no room for, and a  *)
(* line ended with ENTER is the newest (linenoiseEdit adds the line being  *)
(* edited and takes it away at each of its returns but one,                *)
(* linenoiseHistoryAdd drops the oldest of a full history).                *)
THEOREM HistoryKeptHolds == Spec => HistoryKept
<1>1. ASSUME IInv, Began, [Next]_vars, rawmode, ~rawmode', ~overrun', ~began.moved
      PROVE  /\ \E h \in Dropped(began.hist) : IsPrefix(NotEmpty(h), NotEmpty(st'.hist))
             /\ (result'.err = "none" /\ Line(st) # <<>> /\ completions = <<>>) =>
                   Last(st'.hist) = Line(st)
  <2>1. ~ Start /\ ~ NoPrompt /\ ~ Fgets
    BY <1>1 DEF Start, NoPrompt, Fgets, CanRead
  <2>2. ~ Key /\ ~ HistoryKey /\ ~ AcceptCompletion /\ ~ KeyPastEnd /\ ~ UNCHANGED vars
    BY <1>1 DEF Key, HistoryKey, AcceptCompletion, KeyPastEnd, vars
  <2>3. ~ Tab /\ ~ NextCompletion
    BY <1>1 DEF Tab, NextCompletion, Show, vars
  <2>4. CASE Enter
    BY <1>1, <2>4, EnterKeepsHistory DEF Keeps
  <2>5. CASE ReadFails
    BY <1>1, <2>5, ReadFailsKeepsHistory DEF Keeps
  <2>6. CASE CtrlC \/ CtrlD
    BY <1>1, <2>6, ControlKeepsHistory DEF Keeps
  <2>7. QED
    BY <1>1, <2>1, <2>2, <2>3, <2>4, <2>5, <2>6 DEF Next
<1>2. IInv /\ Began /\ [Next]_vars =>
          [(rawmode /\ ~rawmode' /\ ~overrun' /\ ~began.moved) =>
             /\ \E h \in Dropped(began.hist) : IsPrefix(NotEmpty(h), NotEmpty(st'.hist))
             /\ (result'.err = "none" /\ Line(st) # <<>> /\ completions = <<>>) =>
                   Last(st'.hist) = Line(st)]_vars
  BY <1>1
<1>3. Spec => [](IInv /\ Began)
  BY BeganInit, BeganStep, Inductive, PTL DEF Spec
<1>4. QED
  BY <1>2, <1>3, PTL DEF Spec, HistoryKept

-----------------------------------------------------------------------------
(* Rows of Cols characters.                                                *)

LEMMA DivMod ==
    ASSUME NEW n \in Nat
    PROVE  /\ n \div Cols \in Nat /\ (n % Cols) \in 0 .. Cols - 1
           /\ n = (n \div Cols) * Cols + (n % Cols)
  BY ColsAssumption

LEMMA OneDivision ==
    ASSUME NEW q \in Int, NEW p \in Int, NEW m \in 0 .. Cols - 1, NEW k \in 0 .. Cols - 1,
           q * Cols + m = p * Cols + k
    PROVE  q = p /\ m = k
  BY ColsAssumption

LEMMA DivMonotonic ==
    ASSUME NEW n \in Nat, NEW k \in Nat, n <= k
    PROVE  n \div Cols <= k \div Cols
  BY ColsAssumption

LEMMA DivIs ==
    ASSUME NEW n \in Nat, NEW q \in Int, NEW m \in 0 .. Cols - 1, n = q * Cols + m
    PROVE  n \div Cols = q /\ (n % Cols) = m
  BY ColsAssumption

(* The quotient and the remainder of the next number.                      *)
LEMMA DivNext ==
    ASSUME NEW n \in Nat
    PROVE  /\ n % Cols = Cols - 1 => /\ (n + 1) \div Cols = n \div Cols + 1
                                     /\ ((n + 1) % Cols) = 0
           /\ n % Cols # Cols - 1 => /\ (n + 1) \div Cols = n \div Cols
                                     /\ ((n + 1) % Cols) = (n % Cols) + 1
<1> PICK q \in Nat, m \in 0 .. Cols - 1 : q = n \div Cols /\ m = (n % Cols)
  BY DivMod
<1>1. n = q * Cols + m
  BY DivMod
<1> PICK k \in Nat : k = n + 1
  OBVIOUS
<1>2. CASE m = Cols - 1
  <2>1. q + 1 \in Int /\ 0 \in 0 .. Cols - 1 /\ k = (q + 1) * Cols + 0
    BY <1>1, <1>2, ColsAssumption
  <2>2. k \div Cols = q + 1 /\ (k % Cols) = 0
    BY <2>1, DivIs
  <2>3. QED
    BY <1>2, <2>2
<1>3. CASE m # Cols - 1
  <2>1. q \in Int /\ m + 1 \in 0 .. Cols - 1 /\ k = q * Cols + (m + 1)
    BY <1>1, <1>3, ColsAssumption
  <2>2. k \div Cols = q /\ (k % Cols) = m + 1
    BY <2>1, DivIs
  <2>3. QED
    BY <1>3, <2>2
<1>4. QED
  BY <1>2, <1>3

LEMMA RowsIs ==
    ASSUME NEW n \in Nat
    PROVE  RowsOf(n) = IF (n % Cols) = 0 THEN n \div Cols ELSE n \div Cols + 1
<1> PICK q \in Nat, m \in 0 .. Cols - 1 : q = n \div Cols /\ m = (n % Cols)
  BY DivMod
<1>1. n = q * Cols + m
  BY DivMod
<1>2. CASE m = 0
  <2>1. /\ n + Cols - 1 = q * Cols + (Cols - 1) /\ Cols - 1 \in 0 .. Cols - 1
        /\ n + Cols - 1 \in Nat
    BY <1>1, <1>2, ColsAssumption
  <2>2. (n + Cols - 1) \div Cols = q
    BY <2>1, DivIs
  <2>3. QED
    BY <2>2, <1>2 DEF RowsOf
<1>3. CASE m # 0
  <2>1. /\ n + Cols - 1 = (q + 1) * Cols + (m - 1) /\ m - 1 \in 0 .. Cols - 1
        /\ n + Cols - 1 \in Nat /\ q + 1 \in Int
    BY <1>1, <1>3, ColsAssumption
  <2>2. (n + Cols - 1) \div Cols = q + 1
    BY <2>1, DivIs
  <2>3. QED
    BY <2>2, <1>3 DEF RowsOf
<1>4. QED
  BY <1>2, <1>3

-----------------------------------------------------------------------------
(* What the terminal shows of a text written to it.                        *)

(* the first i characters of a text that starts at the left of row top     *)
CellsUpTo(top, text, i) ==
    [rc \in Rows \X Columns |->
        LET j == (rc[1] - top) * Cols + rc[2] + 1
        IN IF rc[1] >= top /\ j \in 1 .. i THEN text[j] ELSE Nothing]
Drawn(top, text, i) ==
    [cells |-> CellsUpTo(top, text, i),
     row |-> top + (IF i = 0 THEN 0 ELSE (i - 1) \div Cols),
     col |-> IF i = 0 THEN 0 ELSE ((i - 1) % Cols) + 1]

SameAt(A, B, f, g) == \A x \in A, y \in B : f[<<x, y>>] = g[<<x, y>>]
SameOn(S, f, g) == \A x \in S : f[x] = g[x]
LEMMA OnPairs ==
    ASSUME NEW A, NEW B, NEW f, NEW g, SameAt(A, B, f, g)
    PROVE  SameOn(A \X B, f, g)
<1> SUFFICES ASSUME NEW rc \in A \X B
             PROVE  f[rc] = g[rc]
  BY DEF SameOn
<1>1. PICK x \in A, y \in B : rc = <<x, y>>
  OBVIOUS
<1>2. QED
  BY <1>1 DEF SameAt

LEMMA CellDrawn ==
    ASSUME NEW top \in Nat, NEW text, NEW i \in Nat \ {0}, NEW q \in Nat, NEW m \in Nat,
           q = (i - 1) \div Cols, m = ((i - 1) % Cols), top + q <= Height - 1
    PROVE  CellsUpTo(top, text, i)
               = [CellsUpTo(top, text, i - 1) EXCEPT ![<<top + q, m>>] = text[i]]
<1> PICK n \in Nat : n = i - 1
  OBVIOUS
<1>1. m \in 0 .. Cols - 1 /\ n = q * Cols + m
  BY DivMod
<1>2. top + q \in Rows /\ m \in Columns
  BY <1>1, HeightAssumption DEF Rows, Columns
<1> PICK new, old : new = CellsUpTo(top, text, i) /\ old = CellsUpTo(top, text, n)
  OBVIOUS
<1> PICK r \in Rows : r = top + q
  BY <1>2
<1>3. DOMAIN new = Rows \X Columns /\ DOMAIN old = Rows \X Columns
      /\ new = [rc \in Rows \X Columns |-> new[rc]]
  BY DEF CellsUpTo
<1>4. ASSUME NEW x \in Rows, NEW y \in Columns
      PROVE  new[<<x, y>>] = [old EXCEPT ![<<r, m>>] = text[i]][<<x, y>>]
  <2> PICK j \in Int : j = (x - top) * Cols + y + 1
    BY ColsAssumption DEF Rows, Columns
  <2>1. /\ new[<<x, y>>] = IF x >= top /\ j \in 1 .. i THEN text[j] ELSE Nothing
        /\ old[<<x, y>>] = IF x >= top /\ j \in 1 .. n THEN text[j] ELSE Nothing
    BY DEF CellsUpTo
  <2>2. j = i => x = r /\ y = m
    <3> SUFFICES ASSUME j = i
                 PROVE  x = r /\ y = m
      OBVIOUS
    <3> PICK p \in Int : p = x - top
      BY DEF Rows
    <3>1. p * Cols + y = q * Cols + m /\ y \in 0 .. Cols - 1 /\ q \in Int
      <4>1. y \in Int /\ Cols \in Int
        BY ColsAssumption DEF Columns
      <4>2. p * Cols \in Int /\ j = p * Cols + y + 1
        BY <4>1
      <4>3. p * Cols + y = n
        BY <4>1, <4>2
      <4>4. QED
        BY <1>1, <4>3 DEF Columns
    <3>2. p = q /\ y = m
      BY <1>1, <3>1, OneDivision
    <3>3. QED
      BY <3>2 DEF Rows
  <2>3. x = r /\ y = m => j = i /\ x >= top
    <3> SUFFICES ASSUME x = r, y = m
                 PROVE  j = i /\ x >= top
      OBVIOUS
    <3>1. x - top = q /\ x >= top
      BY DEF Rows
    <3>2. j = q * Cols + m + 1
      BY <3>1
    <3>3. q * Cols \in Int
      BY ColsAssumption
    <3>4. j = n + 1
      BY <1>1, <3>2, <3>3
    <3>5. QED
      BY <3>1, <3>4
  <2>4. [old EXCEPT ![<<r, m>>] = text[i]][<<x, y>>]
            = IF x = r /\ y = m THEN text[i] ELSE old[<<x, y>>]
    BY <1>3
  <2>5. j # i => (j \in 1 .. i <=> j \in 1 .. n)
    OBVIOUS
  <2>6. j = i => j \in 1 .. i
    OBVIOUS
  <2>7. QED
    BY <2>1, <2>2, <2>3, <2>4, <2>5, <2>6
<1> PICK put : put = [old EXCEPT ![<<r, m>>] = text[i]]
  OBVIOUS
<1>5. \A rc \in Rows \X Columns : new[rc] = put[rc]
  <2>1. SameAt(Rows, Columns, new, put)
    BY <1>4 DEF SameAt
  <2>2. SameOn(Rows \X Columns, new, put)
    BY <2>1, OnPairs
  <2>3. QED
    BY <2>2 DEF SameOn
<1>6. put = [rc \in Rows \X Columns |-> put[rc]]
  BY <1>3
<1>7. new = put
  BY <1>3, <1>5, <1>6
<1>8. QED
  BY <1>7

LEMMA CharDrawn ==
    ASSUME NEW top \in Nat, NEW text, NEW i \in Nat \ {0}, top + ((i - 1) \div Cols) <= Height - 1
    PROVE  PutChar(Drawn(top, text, i - 1), text[i]) = Drawn(top, text, i)
<1> PICK n \in Nat : n = i - 1
  OBVIOUS
<1> PICK q \in Nat, m \in Nat : q = n \div Cols /\ m = (n % Cols)
  BY DivMod, ColsAssumption, SMTT(30)
<1> PICK t : t = Drawn(top, text, n)
  OBVIOUS
<1> PICK row, col : /\ row = IF t.col = Cols THEN Min({t.row + 1, Height - 1}) ELSE t.row
                    /\ col = IF t.col = Cols THEN 0 ELSE t.col
  OBVIOUS
<1>1. row = top + q /\ col = m
  <2>1. CASE n = 0
    <3>1. q = 0 /\ m = 0
      <4> PICK zero \in Nat, p \in Int, k \in 0 .. Cols - 1 : zero = 0 /\ p = 0 /\ k = 0
        BY ColsAssumption
      <4>1. zero = p * Cols + k
        BY ColsAssumption
      <4>2. zero \div Cols = p /\ (zero % Cols) = k
        BY <4>1, DivIs
      <4>3. QED
        BY <2>1, <4>2
    <3>2. t.row = top + 0 /\ t.col = 0 /\ Cols # 0
      BY <2>1, ColsAssumption DEF Drawn
    <3>3. QED
      BY <3>1, <3>2
  <2>2. CASE n # 0
    <3> PICK before \in Nat : before = n - 1
      BY <2>2
    <3> PICK p \in Nat, k \in 0 .. Cols - 1 : p = before \div Cols /\ k = (before % Cols)
      BY DivMod
    <3>1. before + 1 = n /\ t.row = top + p /\ t.col = k + 1
      BY <2>2 DEF Drawn
    <3>2. CASE k = Cols - 1
      <4>1. q = p + 1 /\ m = 0
        BY <3>1, <3>2, DivNext
      <4>2. t.col = Cols
        BY <3>1, <3>2, ColsAssumption
      <4>3. Min({t.row + 1, Height - 1}) = top + q
        <5> PICK a \in Int, b \in Int : a = t.row + 1 /\ b = Height - 1
          BY <3>1, HeightAssumption
        <5>1. a = top + q /\ a <= b
          BY <3>1, <4>1
        <5> PICK both : both = {a, b}
          OBVIOUS
        <5>2. Min(both) = a
          <6>1. a \in both /\ both \subseteq Int /\ \A y \in both : a <= y
            BY <5>1
          <6>2. QED
            BY <6>1, MinIs
        <5>3. QED
          BY <5>1, <5>2
      <4>4. QED
        BY <4>1, <4>2, <4>3
    <3>3. CASE k # Cols - 1
      <4>1. q = p /\ m = k + 1
        BY <3>1, <3>3, DivNext
      <4>2. t.col # Cols
        BY <3>1, <3>3, ColsAssumption
      <4>3. QED
        BY <3>1, <4>1, <4>2
    <3>4. QED
      BY <3>2, <3>3
  <2>3. QED
    BY <2>1, <2>2
<1> PICK old, new : old = CellsUpTo(top, text, n) /\ new = CellsUpTo(top, text, i)
  OBVIOUS
<1>2. PutChar(t, text[i]) = [cells |-> [t.cells EXCEPT ![<<row, col>>] = text[i]],
                             row |-> row, col |-> col + 1]
  BY DEF PutChar
<1>3. t.cells = old
  BY DEF Drawn
<1>4. new = [old EXCEPT ![<<top + q, m>>] = text[i]]
  <2>1. q = (i - 1) \div Cols /\ m = ((i - 1) % Cols) /\ top + q <= Height - 1
    OBVIOUS
  <2>2. QED
    BY <2>1, CellDrawn
<1>5. Drawn(top, text, i) = [cells |-> new, row |-> top + q, col |-> m + 1]
  BY DEF Drawn
<1>6. QED
  BY <1>1, <1>2, <1>3, <1>4, <1>5

(* f is what is on the screen t after each character of a text *)
Writing(t, text, f) ==
    f = [i \in 0 .. Len(text) |-> IF i = 0 THEN t ELSE PutChar(f[i - 1], text[i])]

(* A text written on a blank screen that is tall enough.                   *)
LEMMA TextDrawn ==
    ASSUME NEW top \in Nat, NEW text, NEW n \in Nat, n = Len(text), top + (n \div Cols) <= Height - 1
    PROVE  Write(BlankScreen(top), text) = Drawn(top, text, n)
<1> PICK t : t = BlankScreen(top)
  OBVIOUS
<1>1. t = Drawn(top, text, 0)
  <2>1. BlankCells = CellsUpTo(top, text, 0)
    BY DEF BlankCells, CellsUpTo
  <2>2. top + 0 = top
    OBVIOUS
  <2>3. QED
    BY <2>1, <2>2 DEF BlankScreen, Drawn
<1>2. ASSUME NEW i \in 0 .. n, i # 0
      PROVE  PutChar(Drawn(top, text, i - 1), text[i]) = Drawn(top, text, i)
  <2>1. top + ((i - 1) \div Cols) <= Height - 1
    <3> PICK k \in Nat : k = i - 1
      BY <1>2
    <3>1. k <= n
      BY <1>2
    <3>2. k \div Cols <= n \div Cols /\ k \div Cols \in Nat /\ n \div Cols \in Nat
      BY <3>1, DivMonotonic, DivMod
    <3>3. QED
      BY <3>2, HeightAssumption
  <2>2. i \in Nat \ {0}
    BY <1>2
  <2>3. QED
    BY <2>1, <2>2, CharDrawn
<1> PICK g : g = [i \in 0 .. n |-> Drawn(top, text, i)]
  OBVIOUS
<1>3. Writing(t, text, g)
  <2>1. ASSUME NEW i \in 0 .. n
        PROVE  g[i] = IF i = 0 THEN t ELSE PutChar(g[i - 1], text[i])
    <3>1. i # 0 => i - 1 \in 0 .. n
      OBVIOUS
    <3>2. QED
      BY <1>1, <1>2, <3>1
  <2>2. g = [i \in 0 .. n |-> IF i = 0 THEN t ELSE PutChar(g[i - 1], text[i])]
    BY <2>1
  <2>3. QED
    BY <2>2 DEF Writing
<1> PICK f : f = CHOOSE h : Writing(t, text, h)
  OBVIOUS
<1>4. Writing(t, text, f)
  BY <1>3
<1>5. Write(t, text) = f[n]
  BY DEF Write, Writing
<1>6. \A i \in 0 .. n : f[i] = g[i]
  <2> PICK T : T = {i \in 0 .. n : f[i] # g[i]}
    OBVIOUS
  <2> SUFFICES ASSUME T # {}
               PROVE  FALSE
    OBVIOUS
  <2>0. T \subseteq Nat
    OBVIOUS
  <2>1. PICK i \in T : \A y \in T : i <= y
    BY <2>0, LeastNat
  <2>2. i \in 0 .. n /\ f[i] # g[i]
    OBVIOUS
  <2>3. f[i] = (IF i = 0 THEN t ELSE PutChar(f[i - 1], text[i]))
        /\ g[i] = (IF i = 0 THEN t ELSE PutChar(g[i - 1], text[i]))
    BY <1>3, <1>4, <2>2 DEF Writing
  <2>4. i # 0 /\ f[i - 1] # g[i - 1]
    BY <2>2, <2>3
  <2>5. i - 1 \in 0 .. n /\ ~ (i <= i - 1)
    BY <2>2, <2>4
  <2>6. i - 1 \in T
    BY <2>4, <2>5
  <2>7. QED
    BY <2>1, <2>5, <2>6
<1>7. f[n] = Drawn(top, text, n)
  BY <1>6
<1>8. QED
  BY <1>5, <1>7

LEMMA CellsDrawn ==
    ASSUME NEW top, NEW text, NEW n \in Nat, DOMAIN text = 1 .. n
    PROVE  CellsUpTo(top, text, n) = CellsOf(top, text)
  BY DEF CellsUpTo, CellsOf

LEMMA DivOfMore == ASSUME NEW n \in Nat PROVE (n + Cols) \div Cols = n \div Cols + 1
<1> PICK q \in Nat, m \in 0 .. Cols - 1 : q = n \div Cols /\ m = (n % Cols)
  BY DivMod
<1> PICK k \in Nat : k = n + Cols
  BY ColsAssumption
<1>1. q + 1 \in Int /\ k = (q + 1) * Cols + m
  BY DivMod, ColsAssumption
<1>2. k \div Cols = q + 1
  BY <1>1, DivIs
<1>3. QED
  BY <1>2

(* The terminal holds any line, also if it starts on the second row.       *)
LEMMA Tall ==
    ASSUME NEW n \in Nat, n <= Prompt + Limit
    PROVE  /\ n \div Cols <= (Prompt + Limit) \div Cols /\ (Prompt + Limit) \div Cols \in Nat
           /\ (Prompt + Limit) \div Cols + 2 <= Height /\ n \div Cols \in Nat
<1> PICK k \in Nat : k = Prompt + Limit
  BY Sizes
<1>1. n \div Cols <= k \div Cols /\ k \div Cols \in Nat /\ n \div Cols \in Nat
  BY DivMonotonic, DivMod
<1>2. QED
  BY <1>1, TallAssumption

LEMMA RowLimit ==
    ASSUME NEW row \in Nat, row < Height
    PROVE  Min({row, Height - 1}) = row
<1> PICK b \in Int : b = Height - 1
  BY HeightAssumption
<1> PICK both : both = {row, b}
  OBVIOUS
<1>1. row \in both /\ both \subseteq Int /\ \A y \in both : row <= y
  BY HeightAssumption
<1>2. Min(both) = row
  BY <1>1, MinIs
<1>3. QED
  BY <1>2

IsScreen(t) == t \in [cells : {t.cells}, row : {t.row}, col : {t.col}]

(* What a refresh erases is all that the line left on the screen.          *)
Erasable(s) ==
    /\ s.top \in {0, 1} /\ s.maxrows <= (Prompt + Limit) \div Cols + 1
    /\ EraseUp(Down(s.screen, Less(s.maxrows, (Prompt + s.oldpos + Cols) \div Cols)),
               Less(s.maxrows, 1))
           = BlankScreen(s.top)

LEMMA Cleared == ASSUME NEW s, Kinds(s), Clearable(s) PROVE Erasable(s)
<1> PICK top, max, old, t : top = s.top /\ max = s.maxrows /\ old = s.oldpos /\ t = s.screen
  OBVIOUS
<1>1. max \in Nat /\ old \in Nat
  BY DEF Kinds
<1> PICK n \in Nat : n = Prompt + old
  BY <1>1, Sizes
<1> PICK r \in Nat : r = n \div Cols
  BY DivMod
<1> PICK high \in Nat : high = (Prompt + Limit) \div Cols
  <2> PICK k \in Nat : k = Prompt + Limit
    BY Sizes
  <2>1. k \div Cols \in Nat
    BY DivMod
  <2>2. QED
    BY <2>1
<1> PICK used : used = RowsUsed(s)
  OBVIOUS
<1>2. /\ top \in {0, 1} /\ max <= high + 1 /\ r < used
      /\ t \in [cells : {t.cells}, row : {top + r}, col : {t.col}]
      /\ \A x \in Rows, y \in Columns : x \notin top .. top + used - 1 => t.cells[<<x, y>>] = Nothing
  BY DEF Clearable, NothingOutside
<1>3. used = (IF max = 0 THEN 1 ELSE max) /\ used \in Nat /\ top \in Nat
  BY <1>1, <1>2 DEF RowsUsed
<1>4. (n + Cols) \div Cols = r + 1
  BY DivOfMore
<1> PICK d \in Nat, up \in Nat : d = Less(max, r + 1) /\ up = Less(max, 1)
  BY <1>1 DEF Less
<1>5. top + r + d = top + used - 1 /\ up = used - 1
  BY <1>1, <1>2, <1>3 DEF Less
<1>6. top + used - 1 < Height /\ top + used - 1 \in Nat
  <2>1. high + 2 <= Height /\ Height \in Nat
    BY TallAssumption, HeightAssumption
  <2>2. used <= high + 1 /\ used >= 1
    BY <1>1, <1>2, <1>3
  <2>3. QED
    BY <1>2, <1>3, <2>1, <2>2
<1> PICK low \in Nat : low = top + used - 1
  BY <1>6
<1> PICK down : down = Down(t, d)
  OBVIOUS
<1>7. down \in [cells : {t.cells}, row : {low}, col : {t.col}]
  <2>1. t.row = top + r
    BY <1>2
  <2>2. Min({t.row + d, Height - 1}) = low
    <3>1. t.row + d = low /\ low < Height
      BY <1>5, <1>6, <2>1
    <3>2. QED
      BY <3>1, RowLimit
  <2>3. down = [t EXCEPT !.row = low]
    BY <2>2 DEF Down
  <2>4. QED
    BY <1>2, <2>3
<1> PICK u : u = Up(down, up)
  OBVIOUS
<1>8. u.row = top
  <2>1. ~ (up > low) /\ low - up = top
    BY <1>3, <1>5
  <2>2. u = [down EXCEPT !.row = IF up > low THEN 0 ELSE low - up]
    BY <1>7 DEF Up
  <2>3. QED
    BY <1>7, <2>1, <2>2
<1> PICK new : new = [rc \in Rows \X Columns |->
                        IF rc[1] \in u.row .. down.row THEN Nothing ELSE down.cells[rc]]
  OBVIOUS
<1>9. EraseUp(down, up) = [cells |-> new, row |-> top, col |-> 0]
  BY <1>8 DEF EraseUp
<1>10. new = BlankCells
  <2>1. ASSUME NEW x \in Rows, NEW y \in Columns
        PROVE  new[<<x, y>>] = BlankCells[<<x, y>>]
    <3>1. new[<<x, y>>] = IF x \in top .. low THEN Nothing ELSE t.cells[<<x, y>>]
      BY <1>7, <1>8
    <3>2. QED
      BY <1>2, <3>1 DEF BlankCells
  <2>2. SameAt(Rows, Columns, new, BlankCells)
    BY <2>1 DEF SameAt
  <2>3. SameOn(Rows \X Columns, new, BlankCells)
    BY <2>2, OnPairs
  <2>4. QED
    BY <2>3 DEF SameOn, BlankCells
<1>11. Less(s.maxrows, (Prompt + s.oldpos + Cols) \div Cols) = d /\ Less(s.maxrows, 1) = up
  BY <1>4
<1>12. QED
  BY <1>2, <1>9, <1>10, <1>11 DEF BlankScreen, Erasable

LEMMA LessIsNat == ASSUME NEW a \in Nat, NEW b \in Nat PROVE Less(a, b) \in Nat
  BY DEF Less

(* From where the text ends to where the cursor belongs.                   *)
Placing(t, top, rows, x, more, below, rows2) ==
    /\ top \in {0, 1} /\ rows \in Nat /\ x \in Nat /\ more \in {0, 1}
    /\ IsScreen(t) /\ t.row = top + (IF rows = 0 THEN 0 ELSE rows - 1)
    /\ more = 1 => x = rows /\ rows # 0 /\ top + rows < Height
    /\ more # 1 => x < rows \/ (rows = 0 /\ x = 0)
    /\ below = IF more = 1 THEN NextRow(t) ELSE t
    /\ rows2 = IF more = 1 THEN rows + 1 ELSE rows
InRow(u, row, t) == u.row = row /\ u.cells = t.cells /\ IsScreen(u)
LEMMA CursorPlaced ==
    ASSUME NEW t, NEW top, NEW rows, NEW x, NEW more, NEW below, NEW rows2,
           Placing(t, top, rows, x, more, below, rows2)
    PROVE  InRow(Up(below, Less(rows2, x + 1)), top + x, t)
<1> /\ top \in {0, 1} /\ rows \in Nat /\ x \in Nat /\ more \in {0, 1}
    /\ IsScreen(t) /\ t.row = top + (IF rows = 0 THEN 0 ELSE rows - 1)
    /\ more = 1 => x = rows /\ rows # 0 /\ top + rows < Height
    /\ more # 1 => x < rows \/ (rows = 0 /\ x = 0)
    /\ below = IF more = 1 THEN NextRow(t) ELSE t
    /\ rows2 = IF more = 1 THEN rows + 1 ELSE rows
  BY DEF Placing
<1>0. rows2 \in Nat
  OBVIOUS
<1> PICK n \in Nat : n = Less(rows2, x + 1)
  <2> PICK y \in Nat : y = x + 1
    OBVIOUS
  <2>1. Less(rows2, y) \in Nat
    BY <1>0, LessIsNat
  <2>2. QED
    BY <2>1
<1> PICK u : u = Up(below, n)
  OBVIOUS
<1>1. CASE more = 1
  <2> PICK row \in Nat : row = top + rows
    OBVIOUS
  <2>1. Min({t.row + 1, Height - 1}) = row
    <3>1. t.row + 1 = row /\ row < Height
      BY <1>1
    <3>2. QED
      BY <3>1, RowLimit
  <2>2. below = [t EXCEPT !.row = row, !.col = 0]
    BY <1>1, <2>1 DEF NextRow
  <2>3. below.row = row /\ below.cells = t.cells /\ IsScreen(below)
    BY <2>2 DEF IsScreen
  <2>4. n = 0
    BY <1>1 DEF Less
  <2>5. u = [below EXCEPT !.row = row]
    BY <2>3, <2>4 DEF Up
  <2>6. u.row = row /\ u.cells = t.cells /\ IsScreen(u)
    BY <2>3, <2>5 DEF IsScreen
  <2>7. QED
    BY <1>1, <2>6 DEF InRow
<1>2. CASE more # 1
  <2> PICK row \in Nat : row = t.row
    OBVIOUS
  <2>1. below = t /\ rows2 = rows
    BY <1>2
  <2>2. ~ (n > row) /\ row - n = top + x
    BY <1>2, <2>1 DEF Less
  <2>3. u = [t EXCEPT !.row = top + x]
    BY <2>1, <2>2 DEF Up
  <2>4. u.row = top + x /\ u.cells = t.cells /\ IsScreen(u)
    BY <2>3 DEF IsScreen
  <2>5. QED
    BY <2>4 DEF InRow
<1>3. QED
  BY <1>1, <1>2

LEMMA TextRows ==
    ASSUME NEW n \in Nat, NEW rows, rows = RowsOf(n)
    PROVE  /\ rows \in Nat /\ n <= rows * Cols /\ (n = 0 <=> rows = 0)
           /\ n # 0 => (n - 1) \div Cols = rows - 1
<1>1. CASE n = 0
  <2> PICK k \in Nat, q \in Int, m \in 0 .. Cols - 1 : k = Cols - 1 /\ q = 0 /\ m = Cols - 1
    BY ColsAssumption
  <2>1. k = q * Cols + m
    BY ColsAssumption
  <2>2. k \div Cols = q
    BY <2>1, DivIs
  <2>3. n + Cols - 1 = k
    BY <1>1, ColsAssumption
  <2>4. rows = 0
    BY <2>2, <2>3 DEF RowsOf
  <2>5. QED
    BY <1>1, <2>4, ColsAssumption
<1>2. CASE n # 0
  <2> PICK k \in Nat : k = n - 1
    BY <1>2
  <2> PICK q \in Nat, m \in 0 .. Cols - 1 : q = k \div Cols /\ m = (k % Cols)
    BY DivMod
  <2>1. n + Cols - 1 = k + Cols
    BY ColsAssumption
  <2>2. rows = q + 1
    BY <2>1, DivOfMore DEF RowsOf
  <2>3. k = q * Cols + m
    BY DivMod
  <2>4. n <= (q + 1) * Cols
    BY <2>3, ColsAssumption
  <2>5. QED
    BY <1>2, <2>2, <2>4
<1>3. QED
  BY <1>1, <1>2

(* The rows that a refresh counts: one more if the cursor, at the end of   *)
(* the line, is past the last column.                                      *)
Counting(len, pos, q, rows, x, more, high) ==
    /\ len \in Nat /\ pos \in Nat /\ q \in Nat /\ more \in {0, 1}
    /\ pos <= len /\ len <= Limit /\ rows = RowsOf(Prompt + len)
    /\ x = (Prompt + q) \div Cols /\ x = (Prompt + pos) \div Cols
    /\ q = pos \/ ((Prompt + len) % Cols) # 0
    /\ more = 1 <=> (q > 0 /\ q = len /\ ((q + Prompt) % Cols) = 0)
    /\ high = (Prompt + Limit) \div Cols
Counted(rows, x, more, high) ==
    /\ rows \in Nat /\ x \in Nat /\ high \in Nat
    /\ more = 1 => x = rows /\ rows # 0 /\ rows <= high
    /\ more # 1 => (x < rows \/ (rows = 0 /\ x = 0)) /\ rows <= high + 1
LEMMA RowsCounted ==
    ASSUME NEW len, NEW pos, NEW q, NEW rows, NEW x, NEW more, NEW high,
           Counting(len, pos, q, rows, x, more, high)
    PROVE  Counted(rows, x, more, high)
<1> len \in Nat /\ pos \in Nat /\ q \in Nat /\ more \in {0, 1}
  BY DEF Counting
<1>0. /\ pos <= len /\ len <= Limit /\ rows = RowsOf(Prompt + len)
      /\ x = (Prompt + q) \div Cols /\ x = (Prompt + pos) \div Cols
      /\ q = pos \/ ((Prompt + len) % Cols) # 0
      /\ more = 1 <=> (q > 0 /\ q = len /\ ((q + Prompt) % Cols) = 0)
      /\ high = (Prompt + Limit) \div Cols
  BY DEF Counting
<1> PICK n \in Nat, k \in Nat, l \in Nat : n = Prompt + len /\ k = Prompt + pos /\ l = Prompt + q
  BY Sizes
<1> PICK d \in Nat, m \in 0 .. Cols - 1 : d = n \div Cols /\ m = (n % Cols)
  BY DivMod
<1> PICK e \in Nat, j \in 0 .. Cols - 1 : e = k \div Cols /\ j = (k % Cols)
  BY DivMod
<1>1. n = d * Cols + m /\ k = e * Cols + j
  BY DivMod
<1>2. rows = (IF m = 0 THEN d ELSE d + 1) /\ rows \in Nat
  <2>1. RowsOf(n) = IF m = 0 THEN d ELSE d + 1
    BY RowsIs
  <2>2. QED
    BY <1>0, <2>1
<1>3. x = e /\ x \in Nat
  BY <1>0
<1>4. d <= high /\ high \in Nat
  <2>1. n <= Prompt + Limit
    BY <1>0, Sizes
  <2>2. QED
    BY <1>0, <2>1, Tall
<1>5. e <= d
  <2>1. k <= n
    BY <1>0, Sizes
  <2>2. QED
    BY <2>1, DivMonotonic
<1>6. CASE more = 1
  <2>1. q = len /\ n = l /\ m = 0 /\ q > 0
    <3>1. q = len /\ ((q + Prompt) % Cols) = 0 /\ q > 0
      BY <1>0, <1>6
    <3>2. q + Prompt = n /\ n = l
      BY <3>1, Sizes
    <3>3. QED
      BY <3>1, <3>2
  <2>2. x = d /\ rows = d
    BY <1>0, <1>2, <2>1
  <2>3. d # 0
    BY <1>1, <2>1, Sizes, ColsAssumption
  <2>4. QED
    BY <1>2, <1>3, <1>4, <1>6, <2>2, <2>3 DEF Counted
<1>7. CASE more # 1
  <2>1. CASE m # 0
    BY <1>2, <1>3, <1>4, <1>5, <1>7, <2>1 DEF Counted
  <2>2. CASE m = 0
    <3>1. q = pos
      BY <1>0, <2>2
    <3>2. CASE pos < len
      <4>1. e * Cols + j < d * Cols
        BY <1>1, <2>2, <3>2, Sizes, ColsAssumption
      <4>2. e < d
        <5> SUFFICES ASSUME d <= e
                     PROVE  FALSE
          OBVIOUS
        <5>1. e = d
          BY <1>5
        <5>2. e * Cols \in Int
          BY ColsAssumption
        <5>3. QED
          BY <4>1, <5>1, <5>2
      <4>3. QED
        BY <1>2, <1>3, <1>4, <1>7, <2>2, <4>2 DEF Counted
    <3>3. CASE pos = len
      <4>1. n = l /\ q + Prompt = n
        BY <3>1, <3>3, Sizes
      <4>2. q = 0
        BY <1>0, <1>7, <2>2, <3>1, <3>3, <4>1
      <4>3. n = Prompt /\ n <= Cols - 1
        BY <4>1, <4>2, PromptAssumption, ColsAssumption
      <4>4. d = 0
        <5> PICK zero \in Int, r \in 0 .. Cols - 1 : zero = 0 /\ r = n
          BY <4>3
        <5>1. n = zero * Cols + r
          BY ColsAssumption
        <5>2. n \div Cols = zero
          BY <5>1, DivIs
        <5>3. QED
          BY <5>2
      <4>5. e = 0 /\ rows = 0
        BY <1>2, <1>5, <2>2, <4>4
      <4>6. QED
        BY <1>3, <1>4, <1>7, <4>5 DEF Counted
    <3>4. QED
      BY <1>0, <3>2, <3>3
  <2>3. QED
    BY <2>1, <2>2
<1>8. QED
  BY <1>6, <1>7 DEF Counted

LEMMA GreaterOfTwo ==
    ASSUME NEW a \in Nat, NEW b \in Nat
    PROVE  /\ Max({a, b}) \in {a, b} /\ Max({a, b}) \in Nat
           /\ Max({a, b}) >= a /\ Max({a, b}) >= b
<1> PICK both : both = {a, b}
  OBVIOUS
<1>1. \E x \in both : \A y \in both : x >= y
  OBVIOUS
<1>2. Max(both) \in both /\ \A y \in both : Max(both) >= y
  BY <1>1 DEF Max
<1>3. QED
  BY <1>2

(* A text is below no row that it needs.                                   *)
LEMMA BlankBelow ==
    ASSUME NEW top \in Nat, NEW text, NEW n \in Nat, NEW used \in Nat, n <= used * Cols
    PROVE  NothingOutside(CellsUpTo(top, text, n), top, top + used - 1)
<1> SUFFICES ASSUME NEW x \in Rows, NEW y \in Columns, x \notin top .. top + used - 1
             PROVE  CellsUpTo(top, text, n)[<<x, y>>] = Nothing
  BY DEF NothingOutside
<1>1. x \in Nat /\ y \in Nat
  BY HeightAssumption, ColsAssumption DEF Rows, Columns
<1>2. CASE x >= top
  <2> PICK p \in Nat : p = x - top
    BY <1>1, <1>2
  <2>1. p >= used
    BY <1>1, <1>2
  <2>2. p * Cols >= used * Cols
    BY <2>1, ColsAssumption
  <2> PICK j \in Int : j = p * Cols + y + 1
    BY <1>1, ColsAssumption
  <2>3. j > n
    <3>1. p * Cols \in Int /\ used * Cols \in Int
      BY ColsAssumption
    <3>2. QED
      BY <1>1, <2>2, <3>1
  <2>4. ~ (j \in 1 .. n)
    BY <2>3
  <2>5. QED
    BY <2>4 DEF CellsUpTo
<1>3. CASE ~ (x >= top)
  BY <1>3 DEF CellsUpTo
<1>4. QED
  BY <1>2, <1>3

-----------------------------------------------------------------------------
(* A refresh shows the line, and leaves a screen that can be cleared.      *)

(* with the completion, the line takes the rows that it takes without, and *)
(* has the cursor in the same one                                          *)
Fits(s, c) ==
    LET input == InputAndCompletion(s, c)
    IN /\ Len(input.text) <= Limit
       /\ RowsOf(Prompt + Len(input.text)) = RowsOf(Prompt + s.len)
       /\ (Prompt + input.cursor) \div Cols = (Prompt + s.pos) \div Cols
       /\ input.cursor = s.pos \/ ((Prompt + s.len) % Cols) # 0

LEMMA InputIsText ==
    ASSUME NEW s, NEW c, Editable(s), c.word \in Seq(Chars), c.stem \in 0 .. s.pos
    PROVE  /\ InputAndCompletion(s, c).text \in Seq(Chars)
           /\ InputAndCompletion(s, c).cursor \in Nat
<1>1. PICK p : /\ CompletedBefore(s, c, p) /\ After(s) \in Seq(Chars)
               /\ InputAndCompletion(s, c).text = p \o After(s)
               /\ InputAndCompletion(s, c).cursor = Len(p)
  BY CompletedIs
<1>2. p \in Seq(Chars)
  BY <1>1 DEF CompletedBefore
<1>3. p \o After(s) \in Seq(Chars) /\ Len(p) \in Nat
  BY <1>1, <1>2, ConcatProperties, LenProperties
<1>4. QED
  BY <1>1, <1>3

LEMMA LineFits == ASSUME NEW s, Editable(s) PROVE Fits(s, NoCompletion)
<1> PICK input : input = InputAndCompletion(s, NoCompletion)
  OBVIOUS
<1>1. input.text = Line(s) /\ input.cursor = s.pos
  BY DEF InputAndCompletion, NoCompletion
<1>2. IsLine(s) /\ s.len \in 0 .. Limit
  BY LineFacts DEF Editable
<1>3. Len(Line(s)) = s.len
  BY <1>2, LineIs
<1>4. s.len <= Limit
  BY <1>2, Sizes
<1>5. QED
  BY <1>1, <1>3, <1>4 DEF Fits

LEMMA NotSpilledFits ==
    ASSUME NEW s, NEW c, Editable(s), ~ Spills(s, c), c.word \in Seq(Chars), c.stem \in 0 .. s.pos
    PROVE  Fits(s, c)
<1> PICK input : input = InputAndCompletion(s, c)
  OBVIOUS
<1>1. /\ ~ (Len(input.text) > Limit) /\ RowsOf(Prompt + Len(input.text)) = RowsOf(Prompt + s.len)
      /\ (Prompt + input.cursor) \div Cols = (Prompt + s.pos) \div Cols
      /\ ((Prompt + s.len) % Cols) # 0
  BY DEF Spills
<1>2. Len(input.text) \in Nat
  BY InputIsText, LenProperties
<1>3. Len(input.text) <= Limit
  BY <1>1, <1>2, Sizes
<1>4. QED
  BY <1>1, <1>3 DEF Fits

LEMMA PromptIs ==
    ASSUME NEW text \in Seq(Chars)
    PROVE  /\ Len(PromptText \o text) = Prompt + Len(text)
           /\ DOMAIN (PromptText \o text) = 1 .. Prompt + Len(text)
<1> PICK T : T = Chars \cup {">"}
  OBVIOUS
<1>1. PromptText \in Seq(T) /\ Len(PromptText) = Prompt
  <2>1. PromptText \in [1 .. Prompt -> T] /\ Prompt \in Nat
    BY Sizes DEF PromptText
  <2>2. QED
    BY <2>1
<1>2. text \in Seq(T)
  BY LargerSeq
<1> PICK p : p = PromptText \o text
  OBVIOUS
<1>3. p \in Seq(T) /\ Len(p) = Prompt + Len(text)
  BY <1>1, <1>2, ConcatProperties
<1>4. QED
  BY <1>3, LenProperties

(* the part of a line that the screen depends on *)
SameScreen(r, s) ==
    r.screen = s.screen /\ r.maxrows = s.maxrows /\ r.oldpos = s.oldpos /\ r.top = s.top

LEMMA RefreshShows ==
    ASSUME NEW s, NEW c, Editable(s), Erasable(s), c.word \in Seq(Chars), c.stem \in 0 .. s.pos,
           Fits(s, c)
    PROVE  Clearable(RefreshMultiLine(s, c)) /\ Shows(RefreshMultiLine(s, c), c)
<1>a. PICK len, pos, max, old, top : /\ len = s.len /\ pos = s.pos /\ max = s.maxrows
                                     /\ old = s.oldpos /\ top = s.top
  OBVIOUS
<1>1. Kinds(s) /\ len \in Nat /\ len <= Limit /\ pos \in Nat /\ pos <= len /\ max \in Nat
      /\ old \in Nat
  BY <1>a, Sizes DEF Editable, IsLine, Kinds
<1>2. top \in {0, 1} /\ top \in Nat /\ max <= (Prompt + Limit) \div Cols + 1
  BY <1>a DEF Erasable
<1>b. PICK input : input = InputAndCompletion(s, c)
  OBVIOUS
<1>c. PICK q, text, n : /\ q = input.cursor /\ text = PromptText \o input.text
                        /\ n = Prompt + Len(input.text)
  OBVIOUS
<1>3. input.text \in Seq(Chars) /\ q \in Nat /\ n \in Nat
  <2>1. input.text \in Seq(Chars) /\ q \in Nat
    BY <1>b, <1>c, InputIsText
  <2>2. Len(input.text) \in Nat
    BY <2>1, LenProperties
  <2>3. n \in Nat
    BY <1>c, <2>2, Sizes
  <2>4. QED
    BY <2>1, <2>3
<1>4. Len(text) = n /\ DOMAIN text = 1 .. n
  BY <1>c, <1>3, PromptIs
<1>d. PICK rows, x, high : /\ rows = RowsOf(Prompt + len) /\ x = (Prompt + q) \div Cols
                           /\ high = (Prompt + Limit) \div Cols
  OBVIOUS
<1>5. /\ Len(input.text) <= Limit /\ RowsOf(n) = rows /\ x = (Prompt + pos) \div Cols
      /\ q = pos \/ ((Prompt + len) % Cols) # 0
  BY <1>a, <1>b, <1>c, <1>d DEF Fits
<1>e. PICK more : /\ more \in {0, 1}
                  /\ more = 1 <=> (q > 0 /\ q = len /\ ((q + Prompt) % Cols) = 0)
  <2>1. CASE q > 0 /\ q = len /\ ((q + Prompt) % Cols) = 0
    BY <2>1
  <2>2. CASE ~ (q > 0 /\ q = len /\ ((q + Prompt) % Cols) = 0)
    BY <2>2
  <2>3. QED
    BY <2>1, <2>2
<1>6. /\ rows \in Nat /\ x \in Nat /\ high \in Nat
      /\ more = 1 => x = rows /\ rows # 0 /\ rows <= high
      /\ more # 1 => (x < rows \/ (rows = 0 /\ x = 0)) /\ rows <= high + 1
  <2>1. Counting(len, pos, q, rows, x, more, high)
    BY <1>1, <1>3, <1>5, <1>d, <1>e DEF Counting
  <2>2. Counted(rows, x, more, high)
    BY <2>1, RowsCounted
  <2>3. QED
    BY <2>2 DEF Counted
<1>7. n <= rows * Cols /\ (n = 0 <=> rows = 0) /\ (n # 0 => (n - 1) \div Cols = rows - 1)
  BY <1>3, <1>5, TextRows
<1>8. n \div Cols <= high /\ high + 2 <= Height
  <2>1. n <= Prompt + Limit
    <3>1. Len(input.text) \in Nat
      BY <1>3, LenProperties
    <3>2. QED
      BY <1>5, <1>c, <3>1, Sizes
  <2>2. QED
    BY <1>3, <1>d, <2>1, Tall
<1>f. PICK t : t = Write(BlankScreen(top), text)
  OBVIOUS
<1>9. t = Drawn(top, text, n)
  <2>1. top + (n \div Cols) <= Height - 1
    <3> PICK d \in Nat : d = n \div Cols
      BY <1>3, DivMod
    <3>1. d <= high /\ high + 2 <= Height /\ top <= 1
      BY <1>2, <1>8
    <3>2. top + d <= Height - 1
      BY <1>2, <1>6, <3>1, HeightAssumption
    <3>3. QED
      BY <3>2
  <2>2. QED
    BY <1>2, <1>3, <1>4, <1>f, <2>1, TextDrawn
<1>10. t.cells = CellsUpTo(top, text, n) /\ IsScreen(t) /\ t.row = top + (IF rows = 0 THEN 0 ELSE rows - 1)
  <2>1. t.row = top + (IF n = 0 THEN 0 ELSE (n - 1) \div Cols)
    BY <1>9 DEF Drawn
  <2>2. QED
    BY <1>7, <1>9, <2>1 DEF Drawn, IsScreen
<1>g. PICK below, rows2 : /\ below = IF more = 1 THEN NextRow(t) ELSE t
                          /\ rows2 = IF more = 1 THEN rows + 1 ELSE rows
  OBVIOUS
<1>h. PICK up : up = Up(below, Less(rows2, x + 1))
  OBVIOUS
<1>11. up.row = top + x /\ up.cells = t.cells /\ IsScreen(up)
  <2>1. more = 1 => top + rows < Height
    BY <1>2, <1>6, <1>8, HeightAssumption
  <2>2. QED
    <3>1. Placing(t, top, rows, x, more, below, rows2)
      BY <1>2, <1>6, <1>10, <1>e, <1>g, <2>1 DEF Placing
    <3>2. InRow(Up(below, Less(rows2, x + 1)), top + x, t)
      BY <3>1, CursorPlaced
    <3>3. QED
      BY <1>h, <3>2 DEF InRow
<1>i. PICK col : col = ((Prompt + q) % Cols)
  OBVIOUS
<1>j. PICK screen : screen = ToColumn(up, col)
  OBVIOUS
<1>12. screen \in [cells : {t.cells}, row : {top + x}, col : {col}]
  BY <1>11, <1>j DEF ToColumn, IsScreen
<1>k. PICK max2 : max2 = Max({max, rows2})
  OBVIOUS
<1>13. rows2 \in Nat /\ rows2 <= high + 1 /\ rows <= rows2 /\ (x < rows2 \/ (rows2 = 0 /\ x = 0))
  BY <1>6, <1>g
<1>14. max2 \in Nat /\ max2 <= high + 1 /\ rows2 <= max2
  <2>1. max2 \in {max, rows2} /\ max2 \in Nat /\ max2 >= rows2
    BY <1>1, <1>13, <1>k, GreaterOfTwo
  <2>2. QED
    BY <1>2, <1>6, <1>13, <1>d, <2>1
<1>l. PICK r : r = [s EXCEPT !.screen = screen, !.maxrows = max2, !.oldpos = pos]
  OBVIOUS
<1>15. RefreshMultiLine(s, c) = r
  <2>1. EraseUp(Down(s.screen, Less(s.maxrows, (Prompt + s.oldpos + Cols) \div Cols)),
                Less(s.maxrows, 1)) = BlankScreen(top)
    BY <1>a DEF Erasable
  <2>2. (Prompt + input.cursor + Cols) \div Cols = x + 1
    <3>1. PICK k \in Nat : k = Prompt + q
      BY <1>3, Sizes
    <3>2. (k + Cols) \div Cols = k \div Cols + 1
      BY DivOfMore
    <3>3. QED
      BY <1>c, <1>d, <3>1, <3>2
  <2>3. more = 1 <=> (/\ input.cursor > 0 /\ input.cursor = s.len
                /\ (input.cursor + Prompt) % Cols = 0)
    BY <1>a, <1>c, <1>e
  <2>4. QED
    BY <1>a, <1>b, <1>c, <1>d, <1>f, <1>g, <1>h, <1>i, <1>j, <1>k, <1>l, <2>1, <2>2, <2>3
    DEF RefreshMultiLine, RefreshFrom
<1>16. /\ r.screen = screen /\ r.maxrows = max2 /\ r.oldpos = pos /\ r.top = top
       /\ r.buf = s.buf /\ r.len = s.len /\ r.pos = s.pos
  BY <1>1, <1>a, <1>l DEF Kinds
<1>m. PICK used : used = RowsUsed(r)
  OBVIOUS
<1>17. used \in Nat /\ x < used /\ rows <= used
  BY <1>6, <1>13, <1>14, <1>16, <1>m DEF RowsUsed
<1>18. NothingOutside(t.cells, top, top + used - 1)
  <2>1. n <= used * Cols
    <3>1. rows * Cols <= used * Cols /\ rows * Cols \in Int /\ used * Cols \in Int
      BY <1>6, <1>17, ColsAssumption
    <3> PICK i \in Int, j \in Int : i = rows * Cols /\ j = used * Cols
      BY <3>1
    <3>2. n <= i /\ i <= j /\ n \in Int
      BY <1>3, <1>7, <3>1
    <3>3. n <= j
      BY <3>2
    <3>4. QED
      BY <3>3
  <2>2. NothingOutside(CellsUpTo(top, text, n), top, top + used - 1)
    BY <1>2, <1>3, <1>17, <2>1, BlankBelow
  <2>3. QED
    BY <1>10, <2>2
<1>19. Clearable(r)
  <2>1. /\ screen.cells = t.cells
        /\ screen \in [cells : {screen.cells}, row : {top + x}, col : {screen.col}]
    BY <1>12
  <2>2. NothingOutside(screen.cells, top, top + used - 1)
    BY <1>18, <2>1
  <2> PICK row : row = (Prompt + r.oldpos) \div Cols
    OBVIOUS
  <2>3. row = x
    BY <1>5, <1>16
  <2>4. r.top \in {0, 1} /\ r.maxrows <= (Prompt + Limit) \div Cols + 1 /\ row < RowsUsed(r)
    BY <1>2, <1>14, <1>16, <1>17, <1>d, <1>m, <2>3
  <2>5. r.screen \in [cells : {r.screen.cells}, row : {r.top + row}, col : {r.screen.col}]
    BY <1>16, <2>1, <2>3
  <2>6. NothingOutside(r.screen.cells, r.top, r.top + RowsUsed(r) - 1)
    BY <1>16, <1>m, <2>2
  <2>7. QED
    BY <2>4, <2>5, <2>6 DEF Clearable
<1>20. Shows(r, c)
  <2>1. InputAndCompletion(r, c) = input
    BY <1>16, <1>b DEF InputAndCompletion, Line
  <2>2. t.cells = CellsOf(top, text)
    <3>1. CellsUpTo(top, text, n) = CellsOf(top, text)
      BY <1>4, CellsDrawn
    <3>2. QED
      BY <1>10, <3>1
  <2>3. screen.cells = CellsOf(top, text) /\ screen.row = top + x /\ screen.col = col
    BY <1>12, <2>2
  <2>4. QED
    BY <1>5, <1>16, <1>c, <1>d, <1>i, <2>1, <2>3 DEF Shows
<1>21. QED
  BY <1>15, <1>19, <1>20

-----------------------------------------------------------------------------
(* Every key leaves the line on the screen.                                *)

Seen(s) == Clearable(s) /\ Shows(s, NoCompletion)

LEMMA SameSeen ==
    ASSUME NEW s, NEW r, NEW c, SameScreen(r, s)
    PROVE  /\ Clearable(s) => Clearable(r)
           /\ SameLine(r, s) /\ Shows(s, c) => Shows(r, c)
<1>1. Clearable(s) => Clearable(r)
  BY DEF SameScreen, Clearable, RowsUsed
<1>2. ASSUME SameLine(r, s), Shows(s, c)
      PROVE  Shows(r, c)
  <2>1. InputAndCompletion(r, c) = InputAndCompletion(s, c)
    BY <1>2 DEF SameLine, InputAndCompletion, Line
  <2>2. QED
    BY <1>2, <2>1 DEF Shows, SameScreen
<1>3. QED
  BY <1>1, <1>2

LEMMA RefreshSeen ==
    ASSUME NEW s, ~ spilled, Editable(s), Erasable(s)
    PROVE  Seen(Refresh(s))
<1> PICK c : c = NoCompletion
  OBVIOUS
<1>1. c.word \in Seq(Chars) /\ c.stem \in 0 .. s.pos /\ Fits(s, c)
  <2>1. s.pos \in Nat
    BY LineFacts DEF Editable
  <2>2. QED
    BY <2>1, LineFits, EmptySeq DEF NoCompletion
<1>2. Clearable(RefreshMultiLine(s, c)) /\ Shows(RefreshMultiLine(s, c), c)
  BY <1>1, RefreshShows
<1>3. QED
  BY <1>2 DEF Refresh, Seen

LEMMA PutSeen ==
    ASSUME NEW s, NEW b, NEW n, NEW p, ~ spilled, Kinds(s), Clearable(s), Editable(Put(s, b, n, p))
    PROVE  Seen(Put(s, b, n, p))
<1> PICK r : r = [s EXCEPT !.buf = b, !.len = n, !.pos = p]
  OBVIOUS
<1> PICK t : t = RefreshFrom(r, NoCompletion, r.oldpos)
  OBVIOUS
<1>1. Put(s, b, n, p) = t /\ Put(s, b, n, p) = Refresh(r)
  BY DEF Put, Refresh, RefreshMultiLine
<1>2. PICK screen, max, old : t = [r EXCEPT !.screen = screen, !.maxrows = max, !.oldpos = old]
  BY DEF RefreshFrom
<1>3. /\ r.buf = b /\ r.len = n /\ r.pos = p /\ r.hist = s.hist /\ r.index = s.index
      /\ SameScreen(r, s)
  BY DEF Kinds, SameScreen
<1>4. t.buf = b /\ t.len = n /\ t.pos = p /\ t.hist = s.hist /\ t.index = s.index
  BY <1>2 DEF Kinds
<1>5. Editable(t)
  BY <1>1
<1>6. Editable(r)
  <2>1. /\ b \in [Offsets -> Chars \cup {Nul, Leftover}] /\ n \in 0 .. Limit /\ p \in Nat
        /\ EndsAt(b, n) /\ HistoryFits(s.hist) /\ s.index < Len(s.hist) /\ p <= n
    BY <1>4, <1>5 DEF Editable, IsLine, Kinds
  <2>2. Kinds(r)
    BY <2>1 DEF Kinds
  <2>3. QED
    BY <1>3, <2>1, <2>2 DEF Editable, IsLine
<1>7. Clearable(r)
  BY <1>3, SameSeen
<1>8. Seen(Refresh(r))
  <2>1. Erasable(r)
    BY <1>6, <1>7, Cleared DEF Editable, IsLine
  <2>2. QED
    BY <1>6, <2>1, RefreshSeen
<1>9. QED
  BY <1>1, <1>8

LEMMA MoveSeen ==
    ASSUME NEW s, NEW p, ~ spilled, Editable(s), Seen(s), p \in 0 .. s.len
    PROVE  Seen(Refresh([s EXCEPT !.pos = p])) /\ Seen(MoveTo(s, p))
<1> PICK r : r = [s EXCEPT !.pos = p]
  OBVIOUS
<1>1. Editable(r) /\ SameScreen(r, s)
  <2>1. Kinds(s) /\ s.len \in 0 .. Limit
    BY LineFacts DEF Editable, IsLine
  <2>2. p \in Nat /\ p <= s.len
    BY <2>1, Sizes
  <2>3. Kinds(r) /\ r.buf = s.buf /\ r.len = s.len /\ r.pos = p /\ r.hist = s.hist /\ r.index = s.index
    BY <2>1, <2>2 DEF Kinds
  <2>4. QED
    BY <2>1, <2>2, <2>3 DEF Editable, IsLine, SameScreen, Kinds
<1>2. Seen(Refresh(r))
  <2>1. Clearable(r)
    BY <1>1, SameSeen DEF Seen
  <2>2. Erasable(r)
    BY <1>1, <2>1, Cleared DEF Editable, IsLine
  <2>3. QED
    BY <1>1, <2>2, RefreshSeen
<1>3. QED
  BY <1>2 DEF MoveTo

(* t is s, or what a key puts in its place *)
PutFor(s, t) == t = s \/ \E b, n, p : t = Put(s, b, n, p)

LEMMA PutForSeen ==
    ASSUME NEW s, NEW t, ~ spilled, Editable(s), Seen(s), Editable(t), PutFor(s, t)
    PROVE  Seen(t)
<1>1. Kinds(s) /\ Clearable(s)
  BY DEF Editable, IsLine, Seen
<1>2. QED
  BY <1>1, PutSeen DEF PutFor

LEMMA CursorSeen ==
    ASSUME NEW s, ~ spilled, Editable(s), Seen(s)
    PROVE  /\ Seen(MoveLeft(s)) /\ Seen(MoveRight(s)) /\ Seen(MoveHome(s)) /\ Seen(MoveEnd(s))
           /\ Seen(MoveNextWord(s)) /\ Seen(MovePrevWord(s))
<1>1. s.len \in Nat /\ s.pos \in 0 .. s.len
  BY LineFacts, Sizes DEF Editable
<1> PICK l, r, n : l = Less(s.pos, 1) /\ r = (IF s.pos # s.len THEN s.pos + 1 ELSE s.pos) /\ n = s.len
  OBVIOUS
<1>2. l \in 0 .. s.len /\ r \in 0 .. s.len /\ 0 \in 0 .. s.len /\ n \in 0 .. s.len
  BY <1>1 DEF Less
<1>3. Seen(MoveTo(s, l)) /\ Seen(MoveTo(s, r)) /\ Seen(MoveTo(s, 0)) /\ Seen(MoveTo(s, n))
  BY <1>2, MoveSeen
<1> PICK next, prev : next = NextWord(s) /\ prev = PrevWord(s)
  OBVIOUS
<1>4. next \in 0 .. s.len /\ prev \in 0 .. s.len
  BY <1>1, WordsAround
<1>5. Seen(Refresh([s EXCEPT !.pos = next])) /\ Seen(Refresh([s EXCEPT !.pos = prev]))
  BY <1>4, MoveSeen
<1>6. QED
  BY <1>3, <1>5 DEF MoveLeft, MoveRight, MoveHome, MoveEnd, MoveNextWord, MovePrevWord

LEMMA TextSeen ==
    ASSUME NEW s, ~ spilled, Editable(s), Seen(s)
    PROVE  /\ \A c \in Chars : Seen(Insert(s, c))
           /\ Seen(Delete(s)) /\ Seen(Backspace(s)) /\ Seen(DeleteNextWord(s))
           /\ Seen(DeletePrevWord(s)) /\ Seen(DeleteToEnd(s)) /\ Seen(DeleteAll(s))
           /\ Seen(Transpose(s))
<1>1. /\ \A c \in Chars : Editable(Insert(s, c))
      /\ Editable(Delete(s)) /\ Editable(Backspace(s)) /\ Editable(DeleteNextWord(s))
      /\ Editable(DeletePrevWord(s)) /\ Editable(DeleteToEnd(s)) /\ Editable(DeleteAll(s))
      /\ Editable(Transpose(s))
  BY InsertDone, DeleteDone, BackspaceDone, DeleteNextWordDone, DeletePrevWordDone, CutDone,
     TransposeDone DEF Done
<1>2. \A c \in Chars : PutFor(s, Insert(s, c))
  BY Zenon DEF Insert, PutFor
<1>3. PutFor(s, Delete(s))
  BY Zenon DEF Delete, PutFor
<1>4. PutFor(s, Backspace(s))
  BY Zenon DEF Backspace, PutFor
<1>5. PutFor(s, DeleteNextWord(s))
  BY Zenon DEF DeleteNextWord, PutFor
<1>6. PutFor(s, DeletePrevWord(s))
  BY Zenon DEF DeletePrevWord, PutFor
<1>7. PutFor(s, DeleteToEnd(s)) /\ PutFor(s, DeleteAll(s))
  BY Zenon DEF DeleteToEnd, DeleteAll, PutFor
<1>8. PutFor(s, Transpose(s))
  BY Zenon DEF Transpose, PutFor
<1>9. QED
  BY <1>1, <1>2, <1>3, <1>4, <1>5, <1>6, <1>7, <1>8, PutForSeen

(* control-L clears the whole screen. The rows that the refresh goes down   *)
(* and up do not matter, as it cannot go above the first one.               *)
LEMMA ClearScreenSeen ==
    ASSUME NEW s, ~ spilled, Editable(s), Seen(s)
    PROVE  Seen(ClearScreen(s))
<1>a. PICK blank : blank = BlankScreen(0)
  OBVIOUS
<1>b. PICK r : r = [s EXCEPT !.screen = blank, !.top = 0]
  OBVIOUS
<1>1. /\ Kinds(s) /\ s.maxrows <= (Prompt + Limit) \div Cols + 1 /\ s.oldpos \in Nat
      /\ s.maxrows \in Nat
  BY DEF Editable, IsLine, Seen, Clearable, Kinds
<1>2. /\ Kinds(r) /\ SameLine(r, s) /\ r.screen = blank /\ r.top = 0
      /\ r.maxrows = s.maxrows /\ r.oldpos = s.oldpos
  BY <1>1, <1>b DEF Kinds, SameLine
<1>3. Editable(r)
  BY <1>2 DEF Editable, IsLine, SameLine
<1>c. PICK max \in Nat, old \in Nat : max = s.maxrows /\ old = s.oldpos
  BY <1>1
<1>d. PICK k \in Nat : k = (Prompt + old + Cols) \div Cols /\ k >= 1
  <2>1. PICK n \in Nat : n = Prompt + old
    BY Sizes
  <2>2. n \div Cols \in Nat /\ (n + Cols) \div Cols = n \div Cols + 1
    BY DivMod, DivOfMore
  <2>3. QED
    BY <2>1, <2>2
<1>e. PICK d \in Nat, up \in Nat : d = Less(max, k) /\ up = Less(max, 1) /\ d <= up
  <2>1. Less(max, k) \in Nat /\ Less(max, 1) \in Nat /\ Less(max, k) <= Less(max, 1)
    BY <1>d DEF Less
  <2>2. QED
    BY <2>1
<1>f. PICK down : down = Down(blank, d)
  OBVIOUS
<1>4. PICK m \in Nat : m <= d /\ down = [cells |-> BlankCells, row |-> m, col |-> 0]
  <2>a. PICK high \in Nat : high = Height - 1
    BY HeightAssumption
  <2>1. PICK both : both = {0 + d, Height - 1}
    OBVIOUS
  <2>2. both \subseteq Nat /\ both # {} /\ d \in both
    BY <2>1, <2>a
  <2>3. Min(both) \in Nat /\ Min(both) <= d
    BY <2>2, MinIn
  <2>4. down = [blank EXCEPT !.row = Min(both)]
    BY <1>a, <1>f, <2>1 DEF Down, BlankScreen
  <2>5. QED
    BY <1>a, <2>3, <2>4 DEF BlankScreen
<1>g. PICK u : u = Up(down, up)
  OBVIOUS
<1>5. u.row = 0
  <2>1. u = [down EXCEPT !.row = IF up > m THEN 0 ELSE m - up]
    BY <1>4, <1>g DEF Up
  <2>2. (IF up > m THEN 0 ELSE m - up) = 0
    BY <1>4, <1>e
  <2>3. QED
    BY <1>4, <2>1, <2>2
<1>6. EraseUp(down, up) = blank
  <2>1. PICK new : new = [rc \in Rows \X Columns |->
                            IF rc[1] \in u.row .. down.row THEN Nothing ELSE down.cells[rc]]
    OBVIOUS
  <2>2. EraseUp(down, up) = [cells |-> new, row |-> 0, col |-> 0]
    BY <1>5, <1>g, <2>1 DEF EraseUp
  <2>3. new = BlankCells
    BY <1>4, <2>1 DEF BlankCells
  <2>4. QED
    BY <1>a, <2>2, <2>3 DEF BlankScreen
<1>7. Erasable(r)
  BY <1>1, <1>2, <1>6, <1>a, <1>c, <1>d, <1>e, <1>f DEF Erasable
<1>8. Seen(Refresh(r))
  BY <1>3, <1>7, RefreshSeen
<1>9. QED
  BY <1>8, <1>a, <1>b DEF ClearScreen

SameLineSeen(r, s) ==
    r.buf = s.buf /\ r.len = s.len /\ r.pos = s.pos /\ SameScreen(r, s)
LEMMA StillSeen == ASSUME NEW s, NEW r, SameLineSeen(r, s), Seen(s) PROVE Seen(r)
<1>1. Clearable(r)
  BY DEF SameLineSeen, SameScreen, Clearable, RowsUsed, Seen
<1>2. InputAndCompletion(r, NoCompletion) = InputAndCompletion(s, NoCompletion)
  BY DEF SameLineSeen, InputAndCompletion, Line
<1>3. Shows(r, NoCompletion)
  BY <1>2 DEF Shows, SameScreen, SameLineSeen, Seen
<1>4. QED
  BY <1>1, <1>3 DEF Seen

(* going through the history saves the line, which is not seen, and shows   *)
(* the entry                                                                *)
LEMMA HistorySeen ==
    ASSUME NEW s, NEW dir \in {-1, 1}, ~ spilled, Editable(s), Seen(s)
    PROVE  Seen(HistoryNext(s, dir))
<1> PICK n, saved, index, r : /\ n = Len(s.hist) /\ saved = Saved(s) /\ index = s.index + dir
                              /\ r = HistoryNext(s, dir)
  OBVIOUS
<1>1. Kinds(s) /\ Editable(r)
  BY HistoryDone DEF Editable, IsLine
<1>2. Kinds(saved) /\ SameLineSeen(saved, s)
  <2>1. Editable(saved) /\ HasLine(saved, s.buf, s.len, s.pos)
    BY SavedDone
  <2>2. SameScreen(saved, s)
    BY <1>1 DEF Saved, SameScreen, Kinds
  <2>3. QED
    BY <2>1, <2>2 DEF SameLineSeen, Editable, IsLine, HasLine
<1>3. CASE r = s
  BY <1>3
<1>4. CASE r = saved
  BY <1>2, <1>4, StillSeen
<1>5. CASE index \in Nat /\ \E b, m : r = Put([saved EXCEPT !.index = index], b, m, m)
  <2>1. PICK b, m : r = Put([saved EXCEPT !.index = index], b, m, m)
    BY <1>5
  <2> PICK q : q = [saved EXCEPT !.index = index]
    OBVIOUS
  <2>2. Kinds(q) /\ SameScreen(q, saved)
    BY <1>2, <1>5 DEF Kinds, SameScreen
  <2>3. Clearable(q)
    <3>1. Clearable(saved)
      BY <1>2, StillSeen DEF Seen
    <3>2. QED
      BY <2>2, <3>1, SameSeen
  <2>4. QED
    BY <1>1, <2>1, <2>2, <2>3, PutSeen
<1>6. \/ r = s \/ r = saved
      \/ index \in Nat /\ \E b, m : r = Put([saved EXCEPT !.index = index], b, m, m)
  <2>1. index \in 0 .. n - 1 => index \in Nat
    <3>1. n \in Nat
      BY LineFacts, LenProperties DEF Editable
    <3>2. QED
      BY <3>1
  <2>2. ~ (n <= 1) /\ index \in 0 .. n - 1 => \E b, m : r = Put([saved EXCEPT !.index = index], b, m, m)
    BY Zenon DEF HistoryNext
  <2>3. n <= 1 => r = s
    BY DEF HistoryNext
  <2>4. ~ (n <= 1) /\ index \notin 0 .. n - 1 => r = saved
    BY DEF HistoryNext
  <2>5. QED
    BY <2>1, <2>2, <2>3, <2>4
<1>7. QED
  BY <1>3, <1>4, <1>5, <1>6

LEMMA EditSeen ==
    ASSUME NEW s, NEW k \in Keys, ~ spilled, Editable(s), Seen(s)
    PROVE  Seen(Edit(s, k))
<1>1. k \in Chars => Seen(Insert(s, k))
  BY TextSeen
<1>2. /\ Seen(MoveLeft(s)) /\ Seen(MoveRight(s)) /\ Seen(MoveHome(s)) /\ Seen(MoveEnd(s))
      /\ Seen(MoveNextWord(s)) /\ Seen(MovePrevWord(s))
  BY CursorSeen
<1>3. /\ Seen(Delete(s)) /\ Seen(Backspace(s)) /\ Seen(DeleteNextWord(s))
      /\ Seen(DeletePrevWord(s)) /\ Seen(DeleteToEnd(s)) /\ Seen(DeleteAll(s))
      /\ Seen(Transpose(s))
  BY TextSeen
<1>4. Seen(ClearScreen(s)) /\ Seen(HistoryNext(s, 1)) /\ Seen(HistoryNext(s, -1))
  BY ClearScreenSeen, HistorySeen
<1>5. QED
  BY <1>1, <1>2, <1>3, <1>4 DEF Edit, Keys, NamedKeys

(* The buffer that a text was copied into.                                *)
CopyOf(text, n, b, d) ==
    d = [k \in Offsets |-> IF k < n THEN text[k + 1] ELSE IF k = n THEN Nul ELSE b[k]]

LEMMA LineCopied ==
    ASSUME NEW text, NEW n, NEW b, NEW d, NEW l, text \in Seq(Chars), n = Len(text), n <= Limit,
           CopyOf(text, n, b, d), l = [k \in 1 .. n |-> d[k - 1]]
    PROVE  l = text
<1>1. text = [k \in 1 .. n |-> text[k]] /\ n \in Nat
  OBVIOUS
<1>2. \A k \in 1 .. n : d[k - 1] = text[k]
  <2> SUFFICES ASSUME NEW k \in 1 .. n
               PROVE  d[k - 1] = text[k]
    OBVIOUS
  <2>1. k - 1 \in Offsets /\ k - 1 < n /\ (k - 1) + 1 = k
    BY <1>1, Sizes
  <2>2. QED
    BY <2>1 DEF CopyOf
<1>3. QED
  BY <1>1, <1>2

(* A completion that is accepted has been seen.                            *)
LEMMA AcceptSeen ==
    ASSUME NEW s, NEW lc, NEW i, Editable(s), lc \in Seq(Range(Words)), Clearable(s),
           Shows(s, Completion(s, lc, i))
    PROVE  Seen(Accept(s, lc, i))
<1>1. CASE i \notin DOMAIN lc
  <2>1. Accept(s, lc, i) = s /\ Completion(s, lc, i) = NoCompletion
    BY <1>1 DEF Accept, Completion
  <2>2. QED
    BY <2>1 DEF Seen
<1>2. CASE i \in DOMAIN lc
  <2> PICK c : c = Completion(s, lc, i)
    OBVIOUS
  <2> PICK input : input = InputAndCompletion(s, c)
    OBVIOUS
  <2> PICK text, b : text = input.text /\ b = s.buf
    OBVIOUS
  <2>1. c.word \in Seq(Chars) /\ c.stem \in 0 .. s.pos
    BY CompletionIs
  <2>2. text \in Seq(Chars) /\ Len(text) \in Nat /\ Len(text) <= Limit
    <3>1. text \in Seq(Chars)
      BY <2>1, InputIsText
    <3>2. QED
      BY <3>1, LenProperties DEF Shows
  <2>n. PICK n : n = Min({Limit, Len(text)})
    OBVIOUS
  <2>3. n = Len(text) /\ n \in Nat
    <3>1. PICK both, m : both = {Limit, m} /\ m = Len(text)
      OBVIOUS
    <3>2. m \in both /\ both \subseteq Int /\ \A y \in both : m <= y
      BY <2>2, <3>1, Sizes
    <3>3. Min(both) = m
      BY <3>2, MinIs
    <3>4. QED
      BY <2>2, <2>n, <3>1, <3>3
  <2>d. PICK d : d = [k \in Offsets |-> IF k < n THEN text[k + 1] ELSE IF k = n THEN Nul ELSE b[k]]
    OBVIOUS
  <2>r. PICK r : r = [s EXCEPT !.buf = d, !.len = n, !.pos = input.cursor]
    OBVIOUS
  <2>4. r.buf = d /\ r.len = n /\ r.pos = input.cursor /\ SameScreen(r, s)
    BY <2>r DEF Editable, IsLine, Kinds, SameScreen
  <2>5. Line(r) = text
    <3>1. CopyOf(text, n, b, d)
      BY <2>d DEF CopyOf
    <3>2. PICK l : l = [k \in 1 .. n |-> d[k - 1]]
      OBVIOUS
    <3>3. l = text
      BY <2>2, <2>3, <3>1, <3>2, LineCopied
    <3>4. QED
      BY <2>4, <3>2, <3>3 DEF Line
  <2>6. /\ InputAndCompletion(r, NoCompletion).text = input.text
        /\ InputAndCompletion(r, NoCompletion).cursor = input.cursor
    BY <2>4, <2>5 DEF InputAndCompletion, NoCompletion
  <2>7. Shows(r, NoCompletion)
    BY <2>4, <2>6 DEF Shows, SameScreen
  <2>8. Clearable(r)
    BY <2>4, SameSeen
  <2>9. Accept(s, lc, i) = r
    BY <1>2, <2>n, <2>d, <2>r DEF Accept
  <2>10. QED
    BY <2>7, <2>8, <2>9 DEF Seen
<1>3. QED
  BY <1>1, <1>2

LEMMA PromptFits ==
    ASSUME NEW n \in Nat, n <= Prompt
    PROVE  n \div Cols = 0 /\ (n % Cols) = n
<1> PICK zero \in Int, m \in 0 .. Cols - 1 : zero = 0 /\ m = n
  BY PromptAssumption, ColsAssumption
<1>1. n = zero * Cols + m
  BY ColsAssumption
<1>2. n \div Cols = zero /\ (n % Cols) = m
  BY <1>1, DivIs
<1>3. QED
  BY <1>2

LEMMA PromptSeen == ASSUME NEW h PROVE Seen(Prompted(h, 1))
<1>a. PICK r, top, text, screen : /\ r = Prompted(h, 1) /\ top = 1 /\ text = PromptText
                                         /\ screen = Write(BlankScreen(top), text)
  OBVIOUS
<1>b. PICK n \in Nat : n = Prompt
  BY Sizes
<1>1. /\ r.len = 0 /\ r.pos = 0 /\ r.oldpos = 0 /\ r.maxrows = 0 /\ r.top = top
      /\ r.screen = screen
  BY <1>a DEF Prompted
<1>2. /\ n \div Cols = 0 /\ (n % Cols) = n
      /\ n # 0 => (n - 1) \div Cols = 0 /\ ((n - 1) % Cols) = n - 1
  <2>1. n \div Cols = 0 /\ (n % Cols) = n
    BY <1>b, PromptFits
  <2>2. ASSUME n # 0
        PROVE  (n - 1) \div Cols = 0 /\ ((n - 1) % Cols) = n - 1
    <3>1. PICK k \in Nat : k = n - 1
      BY <2>2
    <3>2. k <= Prompt
      BY <1>b, <3>1
    <3>3. k \div Cols = 0 /\ (k % Cols) = k
      BY <3>2, PromptFits
    <3>4. QED
      BY <3>1, <3>3
  <2>3. QED
    BY <2>1, <2>2
<1>c. PICK high \in Nat : high = (Prompt + Limit) \div Cols /\ high + 2 <= Height
  <2>1. n <= Prompt + Limit
    BY <1>b, Sizes
  <2>2. QED
    BY <2>1, Tall
<1>3. text = [i \in 1 .. n |-> ">"] /\ Len(text) = n /\ DOMAIN text = 1 .. n /\ text \in Seq({">"})
  BY <1>a, <1>b DEF PromptText
<1>4. screen = Drawn(top, text, n)
  <2>1. top + (n \div Cols) <= Height - 1
    BY <1>2, <1>a, <1>c, HeightAssumption
  <2>2. QED
    BY <1>3, <1>a, <2>1, TextDrawn
<1>5. screen = [cells |-> CellsUpTo(top, text, n), row |-> top, col |-> n]
  <2>1. (IF n = 0 THEN 0 ELSE (n - 1) \div Cols) = 0
    BY <1>2
  <2>2. (IF n = 0 THEN 0 ELSE ((n - 1) % Cols) + 1) = n
    BY <1>2
  <2>3. top + 0 = top
    BY <1>a
  <2>4. QED
    BY <1>4, <2>1, <2>2, <2>3 DEF Drawn
<1>6. Prompt + r.oldpos = n /\ Prompt + r.pos = n
  BY <1>1, <1>b
<1>7. Clearable(r)
  <2>1. RowsUsed(r) = 1 /\ top + 1 - 1 = top /\ top \in {0, 1}
    BY <1>1, <1>a DEF RowsUsed
  <2>2. NothingOutside(screen.cells, top, top + 1 - 1)
    <3>1. n <= 1 * Cols
      BY <1>b, PromptAssumption, ColsAssumption
    <3> PICK one \in Nat : one = 1
      OBVIOUS
    <3>2. NothingOutside(CellsUpTo(top, text, n), top, top + one - 1)
      BY <1>a, <1>b, <3>1, BlankBelow
    <3>3. QED
      BY <1>5, <3>2
  <2>3. screen \in [cells : {screen.cells}, row : {top + 0}, col : {screen.col}]
    BY <1>5, <1>a
  <2>4. r.maxrows <= (Prompt + Limit) \div Cols + 1 /\ 0 < RowsUsed(r)
    BY <1>1, <1>c, <2>1
  <2>5. (Prompt + r.oldpos) \div Cols = 0
    BY <1>2, <1>6
  <2>6. QED
    BY <1>1, <2>1, <2>2, <2>3, <2>4, <2>5 DEF Clearable
<1>8. Shows(r, NoCompletion)
  <2>1. Line(r) = <<>>
    BY <1>1 DEF Line
  <2>2. /\ InputAndCompletion(r, NoCompletion).text = <<>>
        /\ InputAndCompletion(r, NoCompletion).cursor = r.pos
    BY <2>1 DEF InputAndCompletion, NoCompletion
  <2>3. PromptText \o <<>> = text
    BY <1>3, <1>a, ConcatEmptySeq
  <2>4. screen.cells = CellsOf(top, text)
    BY <1>3, <1>5, CellsDrawn
  <2>5. Len(<<>>) <= Limit
    BY EmptySeq, Sizes
  <2>6. screen.row = top + ((Prompt + r.pos) \div Cols) /\ screen.col = ((Prompt + r.pos) % Cols)
    BY <1>2, <1>5, <1>6, <1>a
  <2>7. QED
    BY <1>1, <2>2, <2>3, <2>4, <2>5, <2>6 DEF Shows
<1>9. QED
  BY <1>7, <1>8, <1>a DEF Seen

-----------------------------------------------------------------------------
(* What is on the screen is the prompt and the line.                       *)

LEMMA ScreenNext ==
    ASSUME rawmode' /\ ~ spilled' =>
               Clearable(st') /\ Shows(st', Completion(st', completions', shown'))
    PROVE  ScreenKept'
  BY DEF ScreenKept, Clearable, RowsUsed, NothingOutside, Shows, InputAndCompletion, Line,
         Completion, Stem, NoCompletion

LEMMA NoneShown ==
    ASSUME Seen(st'), completions' = <<>>, shown' = 1
    PROVE  ScreenKept'
<1>1. Completion(st', completions', shown') = NoCompletion
  BY DEF Completion
<1>2. QED
  BY <1>1, ScreenNext DEF Seen

LEMMA StartScreen == Start => ScreenKept'
<1> SUFFICES ASSUME Start
             PROVE  ScreenKept'
  OBVIOUS
<1>1. st' = Prompted(HistoryAdd(st.hist, <<>>), 1) /\ completions' = <<>> /\ shown' = 1
  BY DEF Start, NoMoreCompletions
<1> PICK h : h = HistoryAdd(st.hist, <<>>)
  OBVIOUS
<1>2. Seen(Prompted(h, 1))
  BY PromptSeen
<1>3. Seen(st')
  BY <1>1, <1>2
<1>4. QED
  BY <1>1, <1>3, NoneShown

LEMMA KeyScreen == IInv /\ ScreenKept /\ (Key \/ HistoryKey \/ AcceptCompletion) => ScreenKept'
<1> SUFFICES ASSUME IInv, ScreenKept, Key \/ HistoryKey \/ AcceptCompletion
             PROVE  ScreenKept'
  OBVIOUS
<1>1. /\ rawmode /\ Input.pos <= Input.len /\ completions' = <<>> /\ shown' = 1
      /\ spilled' = spilled
  BY DEF Key, HistoryKey, AcceptCompletion, NoMoreCompletions
<1>2. CASE spilled
  BY <1>1, <1>2, ScreenNext
<1>3. CASE ~ spilled
  <2> PICK s : s = Input
    OBVIOUS
  <2>1. Editable(s) /\ Editable(st) /\ completions \in Seq(Range(Words))
    BY <1>1, InputIs DEF IInv
  <2>2. Clearable(st) /\ Shows(st, Completion(st, completions, shown))
    BY <1>1, <1>3 DEF ScreenKept
  <2>3. Seen(s)
    BY <2>1, <2>2, AcceptSeen DEF Input
  <2>4. ASSUME NEW k \in Keys
        PROVE  Seen(Edit(s, k))
    BY <1>3, <2>1, <2>3, EditSeen
  <2>5. (\E k \in Keys : st' = Edit(s, k)) \/ st' = s
    BY DEF Key, HistoryKey, AcceptCompletion, Keys, NamedKeys
  <2>6. Seen(st')
    BY <2>3, <2>4, <2>5
  <2>7. QED
    BY <1>1, <2>6, NoneShown
<1>4. QED
  BY <1>2, <1>3

LEMMA ShowScreen ==
    ASSUME IInv, ScreenKept, rawmode, NEW lc \in Seq(Range(Words)), NEW i, Show(lc, i)
    PROVE  ScreenKept'
<1>1. Editable(st) /\ Kinds(st)
  BY DEF IInv
<1> PICK c : c = Completion(st, lc, i)
  OBVIOUS
<1>2. completions' = lc /\ shown' = i /\ spilled' = (spilled \/ Spills(st, c))
  BY DEF Show
<1>3. CASE spilled'
  BY <1>3, ScreenNext
<1>4. CASE ~ spilled'
  <2>1. ~ spilled /\ ~ Spills(st, c)
    BY <1>2, <1>4, Zenon
  <2>2. c.word \in Seq(Chars) /\ c.stem \in 0 .. st.pos
    BY <1>1, CompletionIs
  <2>3. Fits(st, c)
    BY <1>1, <2>1, <2>2, NotSpilledFits
  <2>4. Erasable(st)
    BY <1>1, <2>1, Cleared DEF ScreenKept
  <2>5. st' = RefreshMultiLine(st, c)
    BY <1>4 DEF Show
  <2>6. Clearable(st') /\ Shows(st', c)
    BY <1>1, <2>2, <2>3, <2>4, <2>5, RefreshShows
  <2>7. SameLine(st', st)
    BY <1>1, ShownIs
  <2>8. Completion(st', completions', shown') = c
    BY <1>2, <2>7 DEF Completion, Stem, Line, SameLine
  <2>9. QED
    BY <2>6, <2>8, ScreenNext
<1>5. QED
  BY <1>3, <1>4

LEMMA TabScreen == IInv /\ ScreenKept /\ (Tab \/ NextCompletion) => ScreenKept'
<1> SUFFICES ASSUME IInv, ScreenKept, Tab \/ NextCompletion
             PROVE  ScreenKept'
  OBVIOUS
<1>1. rawmode
  BY DEF Tab, NextCompletion
<1>2. completions \in Seq(Range(Words)) /\ Completions(Stem(st)) \in Seq(Range(Words))
  BY CompletionsAreWords DEF IInv
<1>3. CASE UNCHANGED vars
  <2>1. UNCHANGED <<rawmode, st, completions, shown, spilled>>
    BY <1>3 DEF vars
  <2>2. QED
    BY <2>1, ScreenNext DEF ScreenKept
<1>4. CASE \E lc \in Seq(Range(Words)) : \E i : Show(lc, i)
  BY <1>1, <1>4, ShowScreen
<1>5. UNCHANGED vars \/ \E lc \in Seq(Range(Words)) : \E i : Show(lc, i)
  BY <1>2, Zenon DEF Tab, NextCompletion
<1>6. QED
  BY <1>3, <1>4, <1>5

LEMMA ScreenStep == IInv /\ ScreenKept /\ [Next]_vars => ScreenKept'
<1> SUFFICES ASSUME IInv, ScreenKept, [Next]_vars
             PROVE  ScreenKept'
  OBVIOUS
<1>1. CASE Start
  BY <1>1, StartScreen
<1>2. CASE Key \/ HistoryKey \/ AcceptCompletion
  BY <1>2, KeyScreen
<1>3. CASE Tab \/ NextCompletion
  BY <1>3, TabScreen
<1>4. CASE NoPrompt \/ KeyPastEnd \/ Enter \/ CtrlD \/ CtrlC \/ ReadFails \/ Fgets
  <2>1. ~ rawmode'
    BY <1>4 DEF NoPrompt, KeyPastEnd, Enter, CtrlD, CtrlC, ReadFails, Fgets, Finish, DisableRawMode
  <2>2. QED
    BY <2>1, ScreenNext
<1>5. CASE UNCHANGED vars
  <2>1. UNCHANGED <<rawmode, st, completions, shown, spilled>>
    BY <1>5 DEF vars
  <2>2. QED
    BY <2>1, ScreenNext DEF ScreenKept
<1>6. QED
  BY <1>1, <1>2, <1>3, <1>4, <1>5 DEF Next

(* ScreenShowsLine: what is seen is the prompt and the line, with the      *)
(* completion that is offered, if any, and the cursor where it is in it,   *)
(* whatever the keys before and the sizes of the line and the screen: the  *)
(* rows that each refresh erases and the distances it moves, which it      *)
(* computes from the one before, add up.                                   *)
THEOREM ScreenShowsLineHolds == Spec => []ScreenShowsLine
<1>1. Init => ScreenKept
  BY DEF Init, ScreenKept
<1>2. IInv /\ ScreenKept /\ [Next]_vars => ScreenKept'
  BY ScreenStep
<1>3. ScreenKept => ScreenShowsLine
  BY DEF ScreenKept, Shows, ScreenShowsLine
<1>4. QED
  BY <1>1, <1>2, <1>3, Inductive, PTL DEF Spec
====
