----------------------------- MODULE InBufProofs -----------------------------
(***************************************************************************)
(* Proofs about InBuf for every input and every size of the buffer, for    *)
(* files and for lines.  TypeOK /\ DataIsNext is inductive: what is in the *)
(* buffer follows what the program consumed, and the text that the I/O     *)
(* function did not return yet follows what is in the buffer.              *)
(***************************************************************************)
EXTENDS InBuf, Induction

IInv == TypeOK /\ DataIsNext

RunningOK == phase \in {"repl", "interpret", "word", "done"} /\ compiling \in BOOLEAN

LEMMA MinFacts ==
    ASSUME NEW T, T \subseteq Nat, T # {}
    PROVE  Min(T) \in T /\ \A y \in T : Min(T) <= y
<1>1. \E x \in T : \A y \in T : x <= y
  BY LeastNat
<1>2. QED
  BY <1>1 DEF Min

LEMMA TypeFacts ==
    ASSUME TypeOK
    PROVE  /\ text \in Seq(Chars) /\ Len(text) \in Nat
           /\ taken \in Nat /\ taken <= Len(text)
           /\ pos \in Nat /\ end \in Nat /\ Size \in Nat \ {0}
           /\ pos <= end /\ end <= Size
           /\ \A k \in 0 .. Size - 1 : addr[k] \in 0 .. taken
           /\ \A c \in 1 .. Len(text) : text[c] \in Chars
<1>1. text \in Seq(Chars)
  BY TextsAssumption, TypedAssumption DEF TypeOK
<1>2. Len(text) \in Nat /\ \A c \in 1 .. Len(text) : text[c] \in Chars
  BY <1>1
<1>3. QED
  BY <1>1, <1>2, SizeAssumption DEF TypeOK

(* the data are characters that were delivered *)
LEMMA DataFacts ==
    ASSUME IInv
    PROVE  /\ \A k \in pos .. end - 1 : addr[k] \in 1 .. taken /\ Consumed < addr[k]
           /\ \A c \in 1 .. taken : Consumed < c =>
                  \/ \E k \in pos .. end - 1 : addr[k] = c
                  \/ byLine /\ text[c] = "\n"
           /\ Consumed \in 0 .. taken
<1>1. {addr[k] : k \in pos .. end - 1} =
          {c \in 1 .. taken : Consumed < c /\ (byLine => text[c] # "\n")}
  BY DEF IInv, DataIsNext
<1>2. \A k \in pos .. end - 1 : addr[k] \in 1 .. taken /\ Consumed < addr[k]
  BY <1>1
<1>3. Consumed \in 0 .. taken
  <2>1. taken \in Nat /\ pos \in Nat /\ end \in Nat /\ pos <= end
    BY TypeFacts DEF IInv
  <2>2. CASE pos = end
    BY <2>1, <2>2 DEF Consumed
  <2>3. CASE pos # end
    <3>1. pos \in pos .. end - 1
      BY <2>1, <2>3
    <3>2. addr[pos] \in 1 .. taken
      BY <1>2, <3>1
    <3>3. QED
      BY <2>1, <2>3, <3>2 DEF Consumed
  <2>4. QED
    BY <2>2, <2>3
<1>4. QED
  BY <1>1, <1>2, <1>3

-----------------------------------------------------------------------------
(* Words that consume data. *)

LEMMA FindFacts ==
    ASSUME TypeOK, NEW from \in pos .. end, NEW kinds
    PROVE  /\ Find(from, kinds) \in from .. end
           /\ \A k \in from .. Find(from, kinds) - 1 : text[addr[k]] \notin kinds
           /\ Find(from, kinds) # end => text[addr[Find(from, kinds)]] \in kinds
<1> DEFINE found == {k \in from .. end - 1 : text[addr[k]] \in kinds}
<1>1. pos \in Nat /\ end \in Nat /\ from \in Nat
  BY TypeFacts
<1>2. Find(from, kinds) = IF found = {} THEN end ELSE Min(found)
  BY DEF Find
<1>3. CASE found = {}
  <2>1. \A k \in from .. end - 1 : text[addr[k]] \notin kinds
    BY <1>3
  <2>2. QED
    BY <1>1, <1>2, <1>3, <2>1
<1>4. CASE found # {}
  <2>1. found \subseteq Nat
    BY <1>1
  <2>2. \A m \in found : m \in from .. end - 1 /\ text[addr[m]] \in kinds
    OBVIOUS
  <2>3. \A m \in from .. end - 1 : text[addr[m]] \in kinds => m \in found
    OBVIOUS
  <2> HIDE DEF found
  <2>4. PICK m \in found : m = Min(found) /\ \A y \in found : m <= y
    BY <1>4, <2>1, MinFacts
  <2>5. m \in from .. end - 1 /\ text[addr[m]] \in kinds
    BY <2>2
  <2>6. \A k \in from .. m - 1 : text[addr[k]] \notin kinds
    BY <1>1, <2>3, <2>4, <2>5
  <2>7. QED
    BY <1>1, <1>2, <1>4, <2>4, <2>5, <2>6
<1>5. QED
  BY <1>3, <1>4

(* consuming data up to `to' *)
LEMMA ConsumeKept ==
    ASSUME IInv, NEW to \in pos .. end, pos' = to,
           UNCHANGED <<text, byLine, taken, addr, end, err>>,
           RunningOK',
           item' \in Seq(1 .. taken)
    PROVE  /\ IInv'
           /\ \A c \in Consumed + 1 .. Consumed' :
                  text[c] \in Blanks \/ \E k \in pos .. to - 1 : c = addr[k]
<1>1. /\ taken \in Nat /\ pos \in Nat /\ end \in Nat /\ to \in Nat
      /\ pos <= end /\ pos <= to /\ to <= end
  BY TypeFacts DEF IInv
<1>2. TypeOK'
  BY <1>1 DEF IInv, TypeOK, RunningOK
<1>3. \A i, j \in pos .. end - 1 : i < j => addr[i] < addr[j]
  BY DEF IInv, DataIsNext
<1>4. \A k \in pos .. end - 1 : addr[k] \in 1 .. taken /\ Consumed < addr[k]
  BY DataFacts
<1>5. \A c \in 1 .. taken : Consumed < c =>
          (\E k \in pos .. end - 1 : addr[k] = c) \/ (byLine /\ text[c] = "\n")
  BY DataFacts
<1>6. Consumed \in 0 .. taken
  BY DataFacts
<1>7. Consumed' = IF to = end THEN taken ELSE addr[to] - 1
  BY DEF Consumed
<1>8. \A k \in to .. end - 1 : k \in pos .. end - 1
  BY <1>1
<1>9. to # end => to \in to .. end - 1 /\ to \in pos .. end - 1
  BY <1>1
<1>10. Consumed' \in Consumed .. taken
  BY <1>1, <1>4, <1>6, <1>7, <1>9
<1>11. \A k \in to .. end - 1 : Consumed' < addr[k]
  <2> SUFFICES ASSUME NEW k \in to .. end - 1
               PROVE  Consumed' < addr[k]
    OBVIOUS
  <2>1. k = to \/ addr[to] < addr[k]
    BY <1>1, <1>3, <1>8, <1>9
  <2>2. addr[k] \in Nat /\ addr[to] \in Nat /\ to # end
    BY <1>1, <1>4, <1>8, <1>9
  <2>3. QED
    BY <1>7, <2>1, <2>2
<1>12. \A k \in pos .. to - 1 : addr[k] <= Consumed'
  <2> SUFFICES ASSUME NEW k \in pos .. to - 1
               PROVE  addr[k] <= Consumed'
    OBVIOUS
  <2>1. k \in pos .. end - 1 /\ addr[k] \in 1 .. taken
    BY <1>1, <1>4
  <2>2. CASE to = end
    BY <1>1, <1>7, <2>1, <2>2
  <2>3. CASE to # end
    <3>1. addr[k] < addr[to] /\ addr[to] \in Nat
      BY <1>1, <1>3, <1>4, <1>9, <2>1, <2>3
    <3>2. QED
      BY <1>7, <2>1, <2>3, <3>1
  <2>4. QED
    BY <2>2, <2>3
<1>13. \A k \in pos .. end - 1 : k \in to .. end - 1 \/ k \in pos .. to - 1
  BY <1>1
<1>14. {addr[k] : k \in to .. end - 1} =
           {c \in 1 .. taken : Consumed' < c /\ (byLine => text[c] # "\n")}
  <2>1. ASSUME NEW k \in to .. end - 1
        PROVE  addr[k] \in 1 .. taken /\ Consumed' < addr[k] /\ (byLine => text[addr[k]] # "\n")
    <3>1. addr[k] \in {addr[l] : l \in pos .. end - 1}
      BY <1>8
    <3>2. QED
      BY <1>4, <1>8, <1>11, <3>1 DEF IInv, DataIsNext
  <2>2. ASSUME NEW c \in 1 .. taken, Consumed' < c, byLine => text[c] # "\n"
        PROVE  \E k \in to .. end - 1 : addr[k] = c
    <3>1. Consumed < c
      BY <1>1, <1>6, <1>10, <2>2
    <3>2. PICK k \in pos .. end - 1 : addr[k] = c
      BY <1>5, <2>2, <3>1
    <3>3. k \notin pos .. to - 1
      BY <1>1, <1>6, <1>10, <1>12, <2>2, <3>2
    <3>4. QED
      BY <1>13, <3>2, <3>3
  <2>3. QED
    BY <2>1, <2>2
<1>15. DataIsNext'
  <2>1. \A i, j \in to .. end - 1 : i < j => addr[i] < addr[j]
    BY <1>3, <1>8
  <2>2. QED
    BY <1>14, <2>1 DEF DataIsNext
<1>16. ASSUME NEW c \in Consumed + 1 .. Consumed'
       PROVE  text[c] \in Blanks \/ \E k \in pos .. to - 1 : c = addr[k]
  <2>1. c \in 1 .. taken /\ Consumed < c /\ c <= Consumed'
    BY <1>1, <1>6, <1>10
  <2>2. CASE byLine /\ text[c] = "\n"
    BY <2>2 DEF Blanks
  <2>3. CASE \E k \in pos .. end - 1 : addr[k] = c
    <3>1. PICK k \in pos .. end - 1 : addr[k] = c
      BY <2>3
    <3>2. k \notin to .. end - 1
      BY <1>6, <1>10, <1>11, <2>1, <3>1
    <3>3. QED
      BY <1>13, <3>1, <3>2
  <2>4. QED
    BY <1>5, <2>1, <2>2, <2>3
<1>17. QED
  BY <1>2, <1>15, <1>16 DEF IInv

LEMMA CharactersFacts ==
    ASSUME IInv, NEW from \in pos .. end, NEW upto \in from .. end
    PROVE  /\ Characters(from, upto) \in Seq(1 .. taken)
           /\ \A k \in from .. upto - 1 : addr[k] \in Range(Characters(from, upto))
<1>1. from \in Nat /\ upto \in Nat /\ pos <= from /\ from <= upto /\ upto <= end
      /\ pos \in Nat /\ end \in Nat
  BY TypeFacts DEF IInv
<1>2. upto - from \in Nat
  BY <1>1
<1>3. PICK n \in Nat : n = upto - from
  BY <1>2
<1>4. \A i \in 1 .. n : addr[from + i - 1] \in 1 .. taken
  <2>1. \A i \in 1 .. n : from + i - 1 \in pos .. end - 1
    BY <1>1, <1>3
  <2>2. QED
    BY <2>1, DataFacts
<1>5. Characters(from, upto) = [i \in 1 .. n |-> addr[from + i - 1]]
  BY <1>3 DEF Characters
<1>6. [i \in 1 .. n |-> addr[from + i - 1]] \in Seq(1 .. taken)
  BY <1>4
<1>7. ASSUME NEW k \in from .. upto - 1
      PROVE  addr[k] \in Range(Characters(from, upto))
  <2>1. k - from + 1 \in 1 .. n /\ from + (k - from + 1) - 1 = k
    BY <1>1, <1>3
  <2>2. DOMAIN Characters(from, upto) = 1 .. n /\ Characters(from, upto)[k - from + 1] = addr[k]
    BY <1>5, <2>1
  <2>3. QED
    BY <2>1, <2>2 DEF Range
<1>8. QED
  BY <1>5, <1>6, <1>7

(* what a step passes over is read, or is of no interest *)
Passed ==
    \A c \in Consumed + 1 .. Consumed' :
        c \in Range(item') \/ text[c] \in Blanks \cup Quotes \/ GivenUp(c)

(* Take, between blanks and what ends the item *)
LEMMA TakeKept ==
    ASSUME IInv, NEW from \in pos .. end, NEW upto \in from .. end, NEW to \in upto .. end,
           Take(from, upto, to), UNCHANGED <<text, byLine, taken, err>>,
           RunningOK',
           \A k \in pos .. from - 1 : text[addr[k]] \in Blanks \cup Quotes,
           \A k \in upto .. to - 1 : text[addr[k]] \in Blanks \cup Quotes
    PROVE  IInv' /\ Passed
<1>1. /\ from \in Nat /\ upto \in Nat /\ to \in Nat /\ pos \in Nat /\ end \in Nat
      /\ pos <= from /\ from <= upto /\ upto <= to /\ to <= end
  BY TypeFacts DEF IInv
<1>2. to \in pos .. end
  BY <1>1
<1>3. item' = Characters(from, upto) /\ pos' = to /\ UNCHANGED <<addr, end>>
  BY DEF Take
<1>4. item' \in Seq(1 .. taken)
  BY <1>3, CharactersFacts
<1>5. IInv' /\ \A c \in Consumed + 1 .. Consumed' :
                   text[c] \in Blanks \/ \E k \in pos .. to - 1 : c = addr[k]
  BY <1>2, <1>3, <1>4, ConsumeKept
<1>6. ASSUME NEW k \in pos .. to - 1
      PROVE  addr[k] \in Range(item') \/ text[addr[k]] \in Blanks \cup Quotes
  <2>1. k \in pos .. from - 1 \/ k \in from .. upto - 1 \/ k \in upto .. to - 1
    BY <1>1
  <2>2. QED
    BY <1>3, <2>1, CharactersFacts
<1>7. QED
  BY <1>5, <1>6 DEF Passed

LEMMA SkipFacts ==
    ASSUME IInv
    PROVE  /\ SkipBlanks \in pos .. end
           /\ \A k \in pos .. SkipBlanks - 1 : text[addr[k]] \in Blanks
           /\ SkipOneBlank \in pos .. end
           /\ \A k \in pos .. SkipOneBlank - 1 : text[addr[k]] \in Blanks
<1>1. /\ pos \in Nat /\ end \in Nat /\ pos <= end /\ taken \in Nat /\ taken <= Len(text)
      /\ Len(text) \in Nat
  BY TypeFacts DEF IInv
<1>2. pos \in pos .. end
  BY <1>1
<1>3. /\ SkipBlanks \in pos .. end
      /\ \A k \in pos .. SkipBlanks - 1 : text[addr[k]] \notin Quotes \cup Others
  BY <1>2, FindFacts DEF SkipBlanks, IInv
<1>4. \A k \in pos .. end - 1 : text[addr[k]] \in Chars
  <2>1. \A k \in pos .. end - 1 : addr[k] \in 1 .. Len(text)
    BY <1>1, DataFacts
  <2>2. QED
    BY <2>1, TypeFacts DEF IInv
<1>5. \A k \in pos .. SkipBlanks - 1 : text[addr[k]] \in Blanks
  <2>1. \A k \in pos .. SkipBlanks - 1 : k \in pos .. end - 1
    BY <1>1, <1>3
  <2>2. QED
    BY <1>3, <1>4, <2>1 DEF Chars
<1>6. /\ SkipOneBlank \in pos .. end
      /\ \A k \in pos .. SkipOneBlank - 1 : text[addr[k]] \in Blanks
  BY <1>1 DEF SkipOneBlank
<1>7. QED
  BY <1>3, <1>5, <1>6

LEMMA TakeNameKept ==
    ASSUME IInv, TakeName, UNCHANGED <<text, byLine, taken, err>>,
           RunningOK'
    PROVE  IInv' /\ Passed
<1>1. PICK from \in pos .. end : from = SkipBlanks
  BY SkipFacts
<1>2. PICK to \in from .. end : to = EndOfName
  BY <1>1, FindFacts DEF EndOfName, IInv
<1>3. Take(from, to, to)
  BY <1>1, <1>2 DEF TakeName
<1>4. to \in to .. end /\ \A k \in to .. to - 1 : FALSE
  BY <1>2, TypeFacts DEF IInv
<1>5. \A k \in pos .. from - 1 : text[addr[k]] \in Blanks \cup Quotes
  BY <1>1, SkipFacts
<1>6. QED
  BY <1>3, <1>4, <1>5, TakeKept

LEMMA TakeStringKept ==
    ASSUME IInv, NEW delimiters, delimiters \subseteq Blanks \cup Quotes,
           TakeString(SkipOneBlank, delimiters), UNCHANGED <<text, byLine, taken, err>>,
           RunningOK'
    PROVE  IInv' /\ Passed
<1>1. PICK from \in pos .. end : from = SkipOneBlank
  BY SkipFacts
<1>2. PICK found \in from .. end : /\ found = Find(from, delimiters)
                                   /\ found # end => text[addr[found]] \in delimiters
  BY <1>1, FindFacts DEF IInv
<1>3. PICK to : to = After(found)
  OBVIOUS
<1>4. pos \in Nat /\ end \in Nat /\ from \in Nat /\ found \in Nat
  BY TypeFacts DEF IInv
<1>5. to \in found .. end /\ \A k \in found .. to - 1 : text[addr[k]] \in Blanks \cup Quotes
  <2>1. CASE found < end
    <3>1. to = found + 1
      BY <1>3, <2>1 DEF After
    <3>2. \A k \in found .. to - 1 : k = found
      BY <1>4, <3>1
    <3>3. QED
      BY <1>2, <1>4, <2>1, <3>1, <3>2
  <2>2. CASE ~ (found < end)
    BY <1>3, <1>4, <2>2 DEF After
  <2>3. QED
    BY <2>1, <2>2
<1>6. Take(from, found, to)
  BY <1>1, <1>2, <1>3 DEF TakeString
<1>7. \A k \in pos .. from - 1 : text[addr[k]] \in Blanks \cup Quotes
  BY <1>1, SkipFacts
<1>8. QED
  BY <1>5, <1>6, <1>7, TakeKept

LEMMA KeyKept ==
    ASSUME IInv, Key
    PROVE  IInv' /\ Passed
<1>1. pos \in Nat /\ end \in Nat /\ pos < end
  BY TypeFacts DEF IInv, Key
<1>2. pos \in pos .. end /\ pos + 1 \in pos .. end /\ pos + 1 \in pos + 1 .. end
      /\ (\A k \in pos .. pos - 1 : FALSE) /\ \A k \in pos + 1 .. pos + 1 - 1 : FALSE
  BY <1>1
<1>3. /\ Take(pos, pos + 1, pos + 1)
      /\ UNCHANGED <<text, byLine, taken, err, phase, compiling>>
  BY DEF Key, Reads, InWord, device
<1>4. PICK p, q : p = pos /\ q = pos + 1
  OBVIOUS
<1>5. /\ p \in pos .. end /\ q \in p .. end /\ q \in q .. end /\ Take(p, q, q)
      /\ (\A k \in pos .. p - 1 : FALSE) /\ \A k \in q .. q - 1 : FALSE
  BY <1>2, <1>3, <1>4
<1>6. RunningOK'
  BY <1>3 DEF IInv, TypeOK, RunningOK
<1>7. QED
  BY <1>3, <1>5, <1>6, TakeKept

(* repl goes on after blanks *)
LEMMA SkipBlanksKept ==
    ASSUME IInv, pos' = SkipBlanks, item' = <<>>,
           UNCHANGED <<text, byLine, taken, addr, end, err>>, RunningOK'
    PROVE  IInv' /\ Passed
<1>1. PICK to \in pos .. end : to = SkipBlanks
  BY SkipFacts
<1>2. item' \in Seq(1 .. taken)
  OBVIOUS
<1>3. IInv' /\ \A c \in Consumed + 1 .. Consumed' :
                   text[c] \in Blanks \/ \E k \in pos .. to - 1 : c = addr[k]
  BY <1>1, <1>2, ConsumeKept
<1>4. \A k \in pos .. to - 1 : text[addr[k]] \in Blanks
  BY <1>1, SkipFacts
<1>5. QED
  BY <1>3, <1>4 DEF Passed

(* what compiler-abort discards is on the line of the next name: a newline *)
(* before it in the text is in the buffer, so it was found or skipped      *)
LEMMA RestOfLineKept ==
    ASSUME IInv, pos' = RestOfLine, item' = <<>>,
           compiling, compiling' = FALSE, phase = "word", phase' = "repl",
           UNCHANGED <<text, byLine, taken, addr, end, err>>
    PROVE  IInv' /\ Passed
<1>1. PICK from \in pos .. end : from = SkipBlanks
  BY SkipFacts
<1>2. PICK found \in from .. end :
          /\ found = Find(from, {"\n"})
          /\ \A k \in from .. found - 1 : text[addr[k]] \notin {"\n"}
          /\ found # end => text[addr[found]] \in {"\n"}
  BY <1>1, FindFacts DEF IInv
<1>3. pos \in Nat /\ end \in Nat /\ from \in Nat /\ found \in Nat /\ taken \in Nat
  BY TypeFacts DEF IInv
<1>4. PICK to \in pos .. end : to = RestOfLine /\ (to = found \/ (to = found + 1 /\ found < end))
  BY <1>1, <1>2, <1>3 DEF RestOfLine, After
<1>5. item' \in Seq(1 .. taken) /\ RunningOK'
  <2>1. item' \in Seq(1 .. taken)
    OBVIOUS
  <2>2. RunningOK'
    BY Zenon DEF RunningOK
  <2>3. QED
    BY <2>1, <2>2
<1>6. IInv' /\ \A c \in Consumed + 1 .. Consumed' :
                   text[c] \in Blanks \/ \E k \in pos .. to - 1 : c = addr[k]
  BY <1>4, <1>5, ConsumeKept
<1>7. \A k \in pos .. from - 1 : text[addr[k]] \in Blanks
  BY <1>1, SkipFacts
<1>8. \A k \in pos .. to - 1 :
          k \in pos .. from - 1 \/ k \in from .. found - 1 \/ (k = found /\ found # end)
  BY <1>3, <1>4
<1>9. \A i, j \in pos .. end - 1 : i < j => addr[i] < addr[j]
  BY DEF IInv, DataIsNext
<1>10. \A k \in pos .. end - 1 : addr[k] \in 1 .. taken /\ Consumed < addr[k]
  BY DataFacts
<1>11. Consumed \in 0 .. taken
  BY DataFacts
<1>12. ASSUME NEW k \in from .. found - 1, k \in pos .. end - 1
       PROVE  GivenUp(addr[k])
  <2>1. ASSUME NEW b \in Consumed + 1 .. addr[k], ~ byLine
        PROVE  \E i \in pos .. k : b = addr[i]
    <3>1. b \in 1 .. taken /\ Consumed < b
      BY <1>3, <1>10, <1>11, <1>12
    <3>2. PICK i \in pos .. end - 1 : addr[i] = b
      BY <2>1, <3>1, DataFacts
    <3>3. i <= k
      BY <1>3, <1>9, <1>10, <1>12, <3>2
    <3>4. QED
      BY <1>3, <3>2, <3>3
  <2>2. ASSUME NEW d \in Consumed + 1 .. addr[k], ~ byLine, text[d] = "\n",
               NEW b \in Consumed + 1 .. d
        PROVE  text[b] \in Blanks
    <3>1. PICK j \in pos .. k : d = addr[j]
      BY <2>1, <2>2
    <3>2. j < from
      BY <1>2, <1>3, <1>12, <2>2, <3>1
    <3>3. b \in Consumed + 1 .. addr[k] /\ b <= d
      BY <1>3, <1>10, <1>11, <1>12, <2>2
    <3>4. PICK i \in pos .. k : b = addr[i]
      BY <2>1, <2>2, <3>3
    <3>5. i <= j
      <4>1. i \in pos .. end - 1 /\ j \in pos .. end - 1 /\ addr[i] <= addr[j]
        BY <1>3, <1>12, <3>1, <3>3, <3>4
      <4>2. QED
        BY <1>3, <1>9, <1>10, <4>1
    <3>6. i \in pos .. from - 1
      BY <1>3, <3>2, <3>5
    <3>7. QED
      BY <1>7, <3>4, <3>6
  <2>3. QED
    BY <2>2 DEF GivenUp
<1>13. ASSUME NEW c \in Consumed + 1 .. Consumed'
       PROVE  text[c] \in Blanks \/ GivenUp(c)
  <2>1. CASE text[c] \in Blanks
    BY <2>1
  <2>2. CASE text[c] \notin Blanks
    <3>1. PICK k \in pos .. to - 1 : c = addr[k]
      BY <1>6, <2>2
    <3>2. k \in from .. found - 1
      BY <1>2, <1>7, <1>8, <2>2, <3>1 DEF Blanks
    <3>3. k \in pos .. end - 1
      BY <1>3
    <3>4. QED
      BY <1>12, <3>1, <3>2, <3>3
  <2>3. QED
    BY <2>1, <2>2
<1>14. QED
  BY <1>6, <1>13 DEF Passed

LEMMA FinishKept ==
    ASSUME IInv, Finish
    PROVE  IInv' /\ Passed
<1>1. RunningOK' /\ phase' = "repl" /\ UNCHANGED <<text, byLine, taken, addr, end, err>>
  BY DEF Finish, Return, Throw, IInv, TypeOK, RunningOK, device
<1>2. CASE Return
  BY <1>1, <1>2, SkipBlanksKept DEF Return
<1>3. CASE Throw /\ compiling
  BY <1>1, <1>3, RestOfLineKept DEF Throw
<1>4. CASE Throw /\ ~ compiling
  BY <1>1, <1>4, SkipBlanksKept DEF Throw
<1>5. QED
  BY <1>2, <1>3, <1>4 DEF Finish

-----------------------------------------------------------------------------
(* Refill. *)

(* what the I/O function may return: the next characters, and with no      *)
(* characters it is done with no more than the end of a line               *)
LEMMA ReturnedFacts ==
    ASSUME IInv, NEW room \in 0 .. Size, NEW r \in Returned(room)
    PROVE  \E n \in taken .. Len(text) :
               /\ r.chars = Upto(n) /\ n - taken <= room
               /\ r.done \in n .. Len(text)
               /\ r.err \in {NoError, EOF, ReadError}
               /\ \A c \in taken + 1 .. n : byLine => text[c] # "\n"
               /\ \A c \in n + 1 .. r.done : byLine /\ text[c] = "\n"
<1>1. taken \in Nat /\ Len(text) \in Nat /\ taken <= Len(text) /\ room \in Nat
  BY TypeFacts DEF IInv
<1> DEFINE Good(n) == /\ r.chars = Upto(n) /\ n - taken <= room
                      /\ r.done \in n .. Len(text)
                      /\ r.err \in {NoError, EOF, ReadError}
                      /\ \A c \in taken + 1 .. n : byLine => text[c] # "\n"
                      /\ \A c \in n + 1 .. r.done : byLine /\ text[c] = "\n"
<1>2. ASSUME NEW e \in {NoError, EOF, ReadError}, r = Result(taken, taken, e)
      PROVE  taken \in taken .. Len(text) /\ Good(taken)
  BY <1>1, <1>2 DEF Result
<1>3. CASE r \in FromFile(room) /\ ~ byLine
  <2>1. CASE taken = Len(text) /\ room > 0
    BY <1>2, <1>3, <2>1 DEF FromFile
  <2>2. CASE ~ (taken = Len(text) /\ room > 0)
    <3>1. PICK n : n = Min({taken + room, Len(text)})
      OBVIOUS
    <3>2. n \in {taken + room, Len(text)} /\ n <= taken + room /\ n <= Len(text)
      <4>1. {taken + room, Len(text)} \subseteq Nat
        BY <1>1
      <4>2. QED
        BY <3>1, <4>1, MinFacts
    <3>3. r = Result(n, n, NoError)
      BY <1>3, <2>2, <3>1 DEF FromFile
    <3>4. n \in taken .. Len(text) /\ n - taken <= room
      BY <1>1, <3>2
    <3>5. Good(n)
      BY <1>1, <1>3, <3>3, <3>4 DEF Result
    <3>6. QED
      BY <3>4, <3>5
  <2>3. QED
    BY <2>1, <2>2
<1>4. CASE r \in FromLine(room) /\ byLine
  <2> DEFINE ends == {n \in taken + 1 .. Len(text) : text[n] = "\n"}
             next == IF ends = {} THEN Len(text) + 1 ELSE Min(ends)
  <2>1. CASE taken = Len(text)
    BY <1>2, <1>4, <2>1 DEF FromLine
  <2>2. CASE taken # Len(text)
    <3>1. /\ ~ (next - taken > room)
          /\ r = Result(next - 1, Min({next, Len(text)}), NoError)
      <4>1. FromLine(room) = IF next - taken > room THEN {}
                             ELSE {Result(next - 1, Min({next, Len(text)}), NoError)}
        BY <2>2 DEF FromLine
      <4> HIDE DEF next
      <4>2. QED
        BY <1>4, <4>1
    <3>2. \A c \in taken + 1 .. Len(text) : text[c] = "\n" => c \in ends
      OBVIOUS
    <3>3. /\ next \in taken + 1 .. Len(text) + 1
          /\ next # Len(text) + 1 => text[next] = "\n"
          /\ \A c \in taken + 1 .. next - 1 : text[c] # "\n"
      <4>1. CASE ends = {}
        <5>1. next = Len(text) + 1
          BY <4>1
        <5>2. \A c \in taken + 1 .. Len(text) : text[c] # "\n"
          BY <3>2, <4>1
        <5>3. QED
          BY <1>1, <5>1, <5>2
      <4>2. CASE ends # {}
        <5>1. ends \subseteq Nat /\ next = Min(ends)
          BY <1>1, <4>2
        <5>2. \A m \in ends : m \in taken + 1 .. Len(text) /\ text[m] = "\n"
          OBVIOUS
        <5> HIDE DEF ends
        <5>3. next \in ends /\ \A y \in ends : next <= y
          <6>1. PICK S : S = ends
            OBVIOUS
          <6>2. Min(S) \in S /\ \A y \in S : Min(S) <= y
            BY <4>2, <5>1, <6>1, MinFacts
          <6>3. QED
            BY <5>1, <6>1, <6>2
        <5>4. PICK m : m = next
          OBVIOUS
        <5>5. m \in taken + 1 .. Len(text) /\ text[m] = "\n" /\ \A y \in ends : m <= y
          BY <5>2, <5>3, <5>4
        <5>6. \A c \in taken + 1 .. m - 1 : text[c] # "\n"
          BY <1>1, <3>2, <5>5
        <5>7. QED
          BY <1>1, <5>4, <5>5, <5>6
      <4>3. QED
        BY <4>1, <4>2
    <3> HIDE DEF next
    <3>4. PICK m \in taken + 1 .. Len(text) + 1 : m = next
      BY <3>3
    <3>5. PICK d : d = Min({m, Len(text)})
      OBVIOUS
    <3>6. d = IF m = Len(text) + 1 THEN m - 1 ELSE m
      <4>1. {m, Len(text)} \subseteq Nat /\ {m, Len(text)} # {}
        BY <1>1
      <4>2. d \in {m, Len(text)} /\ d <= m /\ d <= Len(text)
        BY <3>5, <4>1, MinFacts
      <4>3. QED
        BY <1>1, <4>2
    <3>7. r = Result(m - 1, d, NoError) /\ m - taken <= room
      BY <1>1, <3>1, <3>4, <3>5
    <3>8. m - 1 \in taken .. Len(text) /\ d \in m - 1 .. Len(text)
      BY <1>1, <3>6
    <3>9. \A c \in taken + 1 .. m - 1 : text[c] # "\n"
      BY <3>3, <3>4
    <3>10. \A c \in m - 1 + 1 .. d : text[c] = "\n"
      BY <1>1, <3>3, <3>4, <3>6
    <3>11. r.chars = Upto(m - 1) /\ r.done = d /\ r.err = NoError
      BY <3>7 DEF Result
    <3>12. Good(m - 1)
      BY <1>1, <1>4, <3>7, <3>8, <3>9, <3>10, <3>11
    <3>13. QED
      BY <3>8, <3>12
  <2>3. QED
    BY <2>1, <2>2
<1>5. CASE r = Result(taken, taken, ReadError)
  BY <1>2, <1>5
<1>6. byLine \in BOOLEAN
  BY DEF IInv, TypeOK
<1>7. QED
  BY <1>3, <1>4, <1>5, <1>6 DEF Returned

LEMMA SeqGrows ==
    ASSUME NEW a \in Nat, NEW b \in Nat, a <= b, NEW x \in Seq(1 .. a)
    PROVE  x \in Seq(1 .. b)
<1>1. Len(x) \in Nat /\ x \in [1 .. Len(x) -> 1 .. a]
  OBVIOUS
<1>2. x \in [1 .. Len(x) -> 1 .. b]
  BY <1>1
<1>3. QED
  BY <1>1, <1>2

LEMMA RefillKept ==
    ASSUME IInv, Refill, UNCHANGED <<text, byLine, item>>,
           RunningOK'
    PROVE  IInv' /\ Passed
<1> DEFINE n == end - pos
<1>1. /\ taken \in Nat /\ pos \in Nat /\ end \in Nat /\ Size \in Nat /\ Len(text) \in Nat
      /\ pos <= end /\ end <= Size /\ taken <= Len(text)
      /\ \A k \in 0 .. Size - 1 : addr[k] \in 0 .. taken
  BY TypeFacts DEF IInv
<1>2. n \in Nat /\ n <= Size /\ Size - n \in 0 .. Size
  BY <1>1
<1>3. PICK r \in Returned(Size - n) :
          /\ addr' = [k \in 0 .. Size - 1 |->
                       IF k \in n .. n + Len(r.chars) - 1 THEN r.chars[k - n + 1]
                       ELSE Moved(k)]
          /\ pos' = 0 /\ end' = n + Len(r.chars)
          /\ taken' = r.done /\ err' = r.err
  BY DEF Refill, Room
<1>4. PICK m \in taken .. Len(text) :
          /\ r.chars = Upto(m) /\ m - taken <= Size - n
          /\ r.done \in m .. Len(text)
          /\ r.err \in {NoError, EOF, ReadError}
          /\ \A c \in taken + 1 .. m : byLine => text[c] # "\n"
          /\ \A c \in m + 1 .. r.done : byLine /\ text[c] = "\n"
  BY <1>2, <1>3, ReturnedFacts
<1> HIDE DEF n
<1>5. PICK l \in Nat : l = m - taken
  BY <1>1
<1>6. Len(r.chars) = l /\ \A i \in 1 .. l : r.chars[i] = taken + i
  <2>1. r.chars = [i \in 1 .. l |-> taken + i]
    BY <1>4, <1>5 DEF Upto
  <2>2. [i \in 1 .. l |-> taken + i] \in Seq(Nat)
    BY <1>1, <1>5
  <2>3. QED
    BY <1>5, <2>1, <2>2
<1>7. \A k \in 0 .. n - 1 : addr'[k] = addr[pos + k]
  <2> SUFFICES ASSUME NEW k \in 0 .. n - 1
               PROVE  addr'[k] = addr[pos + k]
    OBVIOUS
  <2>1. k \in 0 .. Size - 1 /\ k \notin n .. n + l - 1 /\ k < end - pos
    BY <1>1, <1>2 DEF n
  <2>2. QED
    BY <1>3, <1>6, <2>1 DEF Moved
<1>8. \A k \in n .. n + l - 1 : addr'[k] = taken + (k - n + 1)
  <2> SUFFICES ASSUME NEW k \in n .. n + l - 1
               PROVE  addr'[k] = taken + (k - n + 1)
    OBVIOUS
  <2>1. k \in 0 .. Size - 1 /\ k - n + 1 \in 1 .. l
    BY <1>1, <1>2, <1>4, <1>5
  <2>2. QED
    BY <1>3, <1>6, <2>1
<1>9. /\ pos' = 0 /\ end' = n + l /\ taken' \in m .. Len(text) /\ taken' \in Nat
      /\ taken <= taken' /\ taken' <= Len(text) /\ m = taken + l
  BY <1>1, <1>3, <1>4, <1>5, <1>6
<1>10. TypeOK'
  <2>1. ASSUME NEW k \in 0 .. Size - 1
        PROVE  addr'[k] \in 0 .. taken'
    <3>1. CASE k \in n .. n + l - 1
      <4>1. addr'[k] = taken + (k - n + 1)
        BY <1>8, <3>1
      <4>2. QED
        BY <1>1, <1>2, <1>9, <3>1, <4>1
    <3>2. CASE k \notin n .. n + l - 1
      <4>1. addr'[k] = Moved(k)
        BY <1>3, <1>6, <3>2
      <4>2. pos + k \in 0 .. Size - 1 \/ ~ (k < end - pos)
        BY <1>1
      <4>3. Moved(k) \in 0 .. taken
        BY <1>1, <4>2 DEF Moved
      <4>4. QED
        BY <1>1, <1>9, <4>1, <4>3
    <3>3. QED
      BY <3>1, <3>2
  <2>2. addr' \in [0 .. Size - 1 -> 0 .. taken']
    BY <1>3, <2>1
  <2>3. end' \in 0 .. Size /\ pos' \in 0 .. end' /\ taken' \in 0 .. Len(text)
    BY <1>1, <1>2, <1>4, <1>5, <1>9
  <2>4. item' \in Seq(1 .. taken')
    <3>1. item \in Seq(1 .. taken)
      BY DEF IInv, TypeOK
    <3>2. 1 .. taken \subseteq 1 .. taken'
      BY <1>1, <1>9
    <3>3. item' = item
      OBVIOUS
    <3>4. \A a, b \in Nat : a <= b => \A x \in Seq(1 .. a) : x \in Seq(1 .. b)
      BY SeqGrows
    <3>5. QED
      BY <1>1, <1>9, <3>1, <3>3, <3>4, Zenon
  <2>5. err' \in {NoError, EOF, ReadError}
    BY <1>3, <1>4
  <2>6. QED
    BY <2>2, <2>3, <2>4, <2>5 DEF IInv, TypeOK, RunningOK
<1>11. Consumed \in 0 .. taken /\ (n = 0 => Consumed = taken)
  BY <1>1, DataFacts DEF Consumed, n
<1>12. Consumed' = IF n + l = 0 THEN taken' ELSE Consumed
  <2>1. Consumed' = IF n + l = 0 THEN taken' ELSE addr'[0] - 1
    BY <1>9 DEF Consumed
  <2>2. CASE n # 0
    <3>1. 0 \in 0 .. n - 1 /\ pos # end /\ n + l # 0
      BY <1>1, <1>2, <2>2 DEF n
    <3>2. addr'[0] = addr[pos]
      BY <1>1, <1>7, <3>1
    <3>3. QED
      BY <2>1, <3>1, <3>2 DEF Consumed
  <2>3. CASE n = 0 /\ l # 0
    <3>1. 0 \in n .. n + l - 1 /\ n + l # 0
      BY <2>3
    <3>2. addr'[0] = taken + (0 - 0 + 1)
      BY <1>8, <2>3, <3>1
    <3>3. QED
      BY <1>1, <1>11, <2>1, <2>3, <3>1, <3>2
  <2>4. CASE n = 0 /\ l = 0
    BY <2>1, <2>4
  <2>5. QED
    BY <2>2, <2>3, <2>4
<1>13. \A k \in 0 .. n - 1 : pos + k \in pos .. end - 1
  BY <1>1 DEF n
<1>14. \A k \in pos .. end - 1 : k - pos \in 0 .. n - 1 /\ pos + (k - pos) = k
  BY <1>1 DEF n
<1>15. \A k \in pos .. end - 1 : addr[k] \in 1 .. taken /\ Consumed < addr[k]
  BY DataFacts
<1>16. \A k \in 0 .. n + l - 1 : k \in 0 .. n - 1 \/ k \in n .. n + l - 1
  BY <1>2
<1>17. \A i, j \in 0 .. n + l - 1 : i < j => addr'[i] < addr'[j]
  <2> SUFFICES ASSUME NEW i \in 0 .. n + l - 1, NEW j \in 0 .. n + l - 1, i < j
               PROVE  addr'[i] < addr'[j]
    OBVIOUS
  <2>1. CASE j \in 0 .. n - 1
    <3>1. i \in 0 .. n - 1
      BY <1>2, <2>1
    <3>2. pos + i < pos + j
      BY <1>1
    <3>3. addr[pos + i] < addr[pos + j]
      BY <1>13, <2>1, <3>1, <3>2 DEF IInv, DataIsNext
    <3>4. QED
      BY <1>7, <2>1, <3>1, <3>3
  <2>2. CASE j \in n .. n + l - 1 /\ i \in 0 .. n - 1
    <3>1. addr'[i] \in 1 .. taken
      BY <1>7, <1>13, <1>15, <2>2
    <3>2. addr'[j] = taken + (j - n + 1)
      BY <1>8, <2>2
    <3>3. QED
      BY <1>1, <1>2, <2>2, <3>1, <3>2
  <2>3. CASE j \in n .. n + l - 1 /\ i \in n .. n + l - 1
    <3>1. addr'[i] = taken + (i - n + 1) /\ addr'[j] = taken + (j - n + 1)
      BY <1>8, <2>3
    <3>2. QED
      BY <1>1, <1>2, <3>1
  <2>4. QED
    BY <1>16, <2>1, <2>2, <2>3
<1>18. {addr'[k] : k \in 0 .. n + l - 1} =
           {c \in 1 .. taken' : Consumed' < c /\ (byLine => text[c] # "\n")}
  <2>1. ASSUME NEW k \in 0 .. n + l - 1
        PROVE  /\ addr'[k] \in 1 .. taken' /\ Consumed' < addr'[k]
               /\ byLine => text[addr'[k]] # "\n"
    <3>1. Consumed' = Consumed
      BY <1>2, <1>12
    <3>2. CASE k \in 0 .. n - 1
      <4>1. addr[pos + k] \in {addr[j] : j \in pos .. end - 1}
        BY <1>13, <3>2
      <4>2. byLine => text[addr[pos + k]] # "\n"
        BY <4>1 DEF IInv, DataIsNext
      <4>3. addr[pos + k] \in 1 .. taken' /\ Consumed < addr[pos + k]
        BY <1>1, <1>9, <1>13, <1>15, <3>2
      <4>4. QED
        BY <1>7, <3>1, <3>2, <4>2, <4>3
    <3>3. CASE k \in n .. n + l - 1
      <4>1. PICK c \in Nat : c = taken + (k - n + 1) /\ c \in taken + 1 .. m
        BY <1>1, <1>2, <1>9, <3>3
      <4>2. addr'[k] = c
        BY <1>8, <3>3, <4>1
      <4>3. c \in 1 .. taken' /\ Consumed < c
        BY <1>1, <1>9, <1>11, <4>1
      <4>4. QED
        BY <1>4, <3>1, <4>1, <4>2, <4>3
    <3>4. QED
      BY <1>16, <3>2, <3>3
  <2>2. ASSUME NEW c \in 1 .. taken', Consumed' < c, byLine => text[c] # "\n"
        PROVE  \E k \in 0 .. n + l - 1 : addr'[k] = c
    <3>1. n + l # 0 /\ Consumed < c
      BY <1>9, <1>12, <2>2
    <3>2. CASE c <= taken
      <4>1. c \in 1 .. taken
        BY <1>1, <3>2
      <4>2. PICK k \in pos .. end - 1 : addr[k] = c
        BY <2>2, <3>1, <4>1, DataFacts
      <4>3. k - pos \in 0 .. n - 1 /\ k - pos \in 0 .. n + l - 1 /\ addr'[k - pos] = c
        BY <1>2, <1>7, <1>14, <4>2
      <4>4. QED
        BY <4>3
    <3>3. CASE ~ (c <= taken)
      <4>1. c \notin m + 1 .. taken'
        BY <1>3, <1>4, <2>2
      <4>2. c - taken - 1 + n \in n .. n + l - 1 /\ c - taken - 1 + n \in 0 .. n + l - 1
        BY <1>1, <1>2, <1>9, <3>3, <4>1
      <4>3. taken + (c - taken - 1 + n - n + 1) = c
        BY <1>1, <1>2
      <4>4. PICK k : k = c - taken - 1 + n
        OBVIOUS
      <4>5. addr'[k] = taken + (k - n + 1)
        BY <1>8, <4>2, <4>4
      <4>6. QED
        BY <1>1, <1>2, <4>2, <4>4, <4>5
    <3>4. QED
      BY <3>2, <3>3
  <2>3. QED
    BY <2>1, <2>2
<1>19. DataIsNext'
  <2>1. pos' = 0 /\ end' = n + l
    BY <1>9
  <2>2. pos' .. end' - 1 = 0 .. n + l - 1
    <3>1. end' - 1 = n + l - 1
      BY <1>2, <2>1
    <3>2. QED
      BY <2>1, <3>1, Zenon
  <2>3. /\ \A i, j \in pos' .. end' - 1 : i < j => addr'[i] < addr'[j]
        /\ {addr'[k] : k \in pos' .. end' - 1} =
               {c \in 1 .. taken' : Consumed' < c /\ (byLine' => text'[c] # "\n")}
    <3>1. text' = text /\ byLine' = byLine
      OBVIOUS
    <3>2. {c \in 1 .. taken' : Consumed' < c /\ (byLine' => text'[c] # "\n")} =
              {c \in 1 .. taken' : Consumed' < c /\ (byLine => text[c] # "\n")}
      BY <3>1
    <3>3. PICK D : /\ D = 0 .. n + l - 1 /\ D = pos' .. end' - 1
                   /\ \A i, j \in D : i < j => addr'[i] < addr'[j]
                   /\ {addr'[k] : k \in D} =
                          {c \in 1 .. taken' : Consumed' < c /\ (byLine => text[c] # "\n")}
      BY <1>17, <1>18, <2>2, Zenon
    <3>4. QED
      BY <3>2, <3>3, Zenon
  <2>4. QED
    BY <2>3, Zenon DEF DataIsNext
<1>20. Passed
  <2> SUFFICES ASSUME NEW c \in Consumed + 1 .. Consumed'
               PROVE  text[c] \in Blanks
    BY DEF Passed
  <2>1. n + l = 0 /\ Consumed = taken /\ c \in m + 1 .. taken'
    BY <1>1, <1>2, <1>9, <1>11, <1>12
  <2>2. text[c] = "\n"
    BY <1>3, <1>4, <2>1
  <2>3. QED
    BY <2>2 DEF Blanks
<1>21. QED
  BY <1>10, <1>19, <1>20 DEF IInv

-----------------------------------------------------------------------------

LEMMA StutterKept ==
    ASSUME IInv, UNCHANGED <<text, byLine, taken, addr, pos, end, err>>,
           RunningOK', item' \in Seq(1 .. taken)
    PROVE  IInv' /\ Passed
<1>1. TypeOK'
  BY DEF IInv, TypeOK, RunningOK
<1>2. Consumed' = Consumed /\ Consumed \in Nat
  BY DataFacts, TypeFacts DEF Consumed, IInv
<1>3. DataIsNext'
  BY <1>2 DEF IInv, DataIsNext
<1>4. Passed
  BY <1>2 DEF Passed
<1>5. QED
  BY <1>1, <1>3, <1>4 DEF IInv

LEMMA NextKept ==
    ASSUME IInv, [Next]_vars
    PROVE  IInv' /\ (Passed \/ UNCHANGED vars)
<1>1. RunningOK /\ item \in Seq(1 .. taken)
  BY DEF IInv, TypeOK, RunningOK
<1>2. CASE Repl
  <2>1. RunningOK' /\ UNCHANGED <<text, byLine, item>>
    BY <1>1, <1>2 DEF Repl, device, RunningOK
  <2>2. CASE Refill
    BY <2>1, <2>2, RefillKept
  <2>3. CASE UNCHANGED <<buffer, taken, err>>
    BY <1>1, <2>1, <2>3, StutterKept DEF buffer
  <2>4. QED
    BY <1>2, <2>2, <2>3 DEF Repl
<1>3. CASE Interpret
  <2>1. TakeName /\ UNCHANGED <<text, byLine, taken, err>> /\ RunningOK'
    BY <1>1, <1>3 DEF Interpret, device, RunningOK
  <2>2. QED
    BY <2>1, TakeNameKept
<1>4. Reads => UNCHANGED <<text, byLine, taken, err>> /\ RunningOK'
  BY <1>1 DEF Reads, InWord, device, RunningOK
<1>5. CASE ParseName
  BY <1>4, <1>5, TakeNameKept DEF ParseName
<1>6. CASE Parse
  <2>1. PICK delimiters \in {Quotes, {"\n"}} : TakeString(SkipOneBlank, delimiters)
    BY <1>6 DEF Parse
  <2>2. delimiters \subseteq Blanks \cup Quotes
    BY DEF Blanks, Quotes
  <2>3. QED
    BY <1>4, <1>6, <2>1, <2>2, TakeStringKept DEF Parse
<1>7. CASE Key
  BY <1>7, KeyKept
<1>8. CASE KeyOfNothing
  <2>1. item' \in Seq(1 .. taken)
    BY <1>8 DEF KeyOfNothing
  <2>2. QED
    BY <1>4, <1>8, <2>1, StutterKept DEF KeyOfNothing, buffer
<1>9. CASE WordRefill
  <2>1. RunningOK' /\ UNCHANGED <<text, byLine, item>> /\ Refill
    BY <1>1, <1>9 DEF WordRefill, InWord, device, RunningOK
  <2>2. QED
    BY <2>1, RefillKept
<1>10. CASE SetState
  <2>1. RunningOK' /\ UNCHANGED <<text, byLine, taken, addr, pos, end, err, item>>
    BY <1>1, <1>10 DEF SetState, InWord, device, buffer, RunningOK
  <2>2. QED
    BY <1>1, <2>1, StutterKept
<1>11. CASE Finish
  BY <1>11, FinishKept
<1>12. CASE UNCHANGED vars
  <2>1. RunningOK' /\ UNCHANGED <<text, byLine, taken, addr, pos, end, err, item>>
    BY <1>1, <1>12 DEF vars, RunningOK
  <2>2. QED
    BY <1>1, <2>1, StutterKept
<1>13. QED
  BY <1>2, <1>3, <1>5, <1>6, <1>7, <1>8, <1>9, <1>10, <1>11, <1>12 DEF Next, Done

LEMMA InitKept ==
    ASSUME Init
    PROVE  IInv
<1>1. /\ byLine \in BOOLEAN /\ text \in (IF byLine THEN Typed ELSE Texts)
      /\ taken = 0 /\ pos = 0 /\ end = 0 /\ err = 0 /\ phase = "repl" /\ item = <<>>
      /\ compiling \in BOOLEAN
      /\ addr = [k \in 0 .. Size - 1 |-> 0]
  BY DEF Init
<1>2. text \in Seq(Chars)
  BY <1>1, TextsAssumption, TypedAssumption
<1>3. Len(text) \in Nat /\ Size \in Nat
  BY <1>2, SizeAssumption
<1>4. TypeOK
  <2>1. compiling \in BOOLEAN /\ phase \in {"repl", "interpret", "word", "done"}
    BY <1>1, Zenon
  <2>2. QED
    BY <1>1, <1>3, <2>1 DEF TypeOK, NoError
<1>5. DataIsNext
  BY <1>1 DEF DataIsNext
<1>6. QED
  BY <1>4, <1>5 DEF IInv

(* The invariant holds in every reachable state. *)
THEOREM Inductive == Spec => []IInv
<1>1. Init => IInv
  BY InitKept
<1>2. IInv /\ [Next]_vars => IInv'
  BY NextKept
<1>3. QED
  BY <1>1, <1>2, PTL DEF Spec

(* The data stay in the buffer, of any size, and every cell of it holds a  *)
(* character that the I/O function is done with (ibuf_refill).             *)
THEOREM TypeCorrect == Spec => []TypeOK
<1>1. IInv => TypeOK
  BY DEF IInv
<1>2. QED
  BY <1>1, Inductive, PTL

(* The buffer has the last characters that were returned, in order, each   *)
(* once, whatever is left in it when it is refilled (ibuf_refill).         *)
THEOREM DataIsNextHolds == Spec => []DataIsNext
<1>1. IInv => DataIsNext
  BY DEF IInv
<1>2. QED
  BY <1>1, Inductive, PTL

(* No step passes over text without returning it, unless it is blank or a  *)
(* delimiter, or on the one line given up with a word that failed to       *)
(* compile (ibuf_find_nonblanks, ibuf_find_char, ibuf_refill, key, repl,   *)
(* compiler_abort).                                                        *)
THEOREM NothingSkippedHolds == Spec => NothingSkipped
<1>1. IInv /\ [Next]_vars => [Passed]_vars
  BY NextKept
<1>2. [][Passed]_vars => NothingSkipped
  BY DEF NothingSkipped, Passed
<1>3. QED
  BY <1>1, <1>2, Inductive, PTL DEF Spec
=============================================================================
