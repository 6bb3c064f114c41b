------------------------------- MODULE Numbers -------------------------------
(***************************************************************************)
(* Words that read and write text, above all numbers: string>number and    *)
(* the words it calls (forth/m64th/impl.S, user.S), the tokens that look   *)
(* for a character (generic_asm/mem.S) and pictured numeric output         *)
(* (generic_asm/io.S).  Text is a sequence of character codes; an address  *)
(* is the number of characters before it.                                  *)
(***************************************************************************)
EXTENDS Tokens, FiniteSetsExt

Printable == " !\"#$%&'()*+,-./0123456789:;<=>?@ABCDEFGHIJKLMNOPQRSTUVWXYZ[\\]^_"   \* ASCII 32 .. 95
LowerCase == "abcdefghijklmnopqrstuvwxyz{|}~"                                            \* ASCII 97 .. 126
CodeOf(ch) ==
  CHOOSE n \in 32 .. 126 : \/ n - 31 \in 1 .. 64 /\ SubSeq(Printable, n - 31, n - 31) = ch
                           \/ n - 96 \in 1 .. 30 /\ SubSeq(LowerCase, n - 96, n - 96) = ch
Code == [ch \in {SubSeq(Printable, k, k) : k \in 1 .. 64} \union {SubSeq(LowerCase, k, k) : k \in 1 .. 30} |-> CodeOf(ch)]
Text(string) == [k \in 1 .. Len(string) |-> Code[SubSeq(string, k, k)]]
CR == 13
LF == 10
In(ch, from, to) == Code[from] <= ch /\ ch <= Code[to]

-----------------------------------------------------------------------------
\* Reading numbers.  All words get the text that addresses refer to.

\* char>base fetches the byte at ch - '#' from its own data; for the two
\* characters before '#' that is the padding before the data.
CharToBase(ch) == CASE ch = Code["#"] -> 10 [] ch = Code["$"] -> 16 [] ch = Code["%"] -> 2 [] OTHER -> 0

CharToU(ch) ==
  CASE In(ch, "0", "9") -> ch - Code["0"]
    [] In(ch, "A", "Z") -> ch - Code["A"] + 10
    [] In(ch, "a", "z") -> ch - Code["a"] + 10
    [] OTHER -> -1

StringToBase(text, a, n, base) ==
  IF n # 0 /\ CharToBase(text[a + 1]) # 0 THEN <<a + 1, n - 1, CharToBase(text[a + 1])>> ELSE <<a, n, base>>

StringToChar(text, a, n) ==
  IF n = 3 /\ text[a + 1] = Code["'"] /\ text[a + 3] = Code["'"] THEN <<a + 3, 0, text[a + 2]>> ELSE <<a, n, -1>>

StringToSign(text, a, n) ==
  IF n # 0 /\ text[a + 1] = Code["-"] THEN <<a + 1, n - 1, -1>> ELSE <<a, n, 1>>

\* string&base>u converts as many digits as there are.
StringAndBaseToU(text, a, n, base) ==
  LET digit == [k \in 1 .. n |-> CharToU(text[a + k])]
      many == Max({k \in 0 .. n : \A j \in 1 .. k : U(digit[j]) < U(base)})
      u[k \in 0 .. many] == IF k = 0 THEN 0 ELSE Cell(u[k - 1] * base + digit[k])
  IN <<a + many, n - many, u[many]>>

\* Mutation of StringToNumber: an error does not look at what is left of the text.
PrefixToNumber(text, a, n, base) ==
  LET based == StringToBase(text, a, n, base)
      signed == StringToSign(text, based[1], based[2])
      number == StringAndBaseToU(text, signed[1], signed[2], based[3])
  IN <<Cell(number[3] * signed[3]), Flag(number[1] > a)>>
StringToNumber(text, a, n, base) ==
  LET char == StringToChar(text, a, n)
      based == StringToBase(text, a, n, base)
      signed == StringToSign(text, based[1], based[2])
      number == StringAndBaseToU(text, signed[1], signed[2], based[3])
  IN CASE n = 0 -> <<0, 0>>
       [] n # 0 /\ char[3] # -1 -> <<char[3], -1>>
       [] n # 0 /\ char[3] = -1 /\ signed[2] = 0 -> <<based[3], 0>>
       [] OTHER -> <<Cell(number[3] * signed[3]), Flag(number[2] = 0)>>

-----------------------------------------------------------------------------
\* Looking for characters; a text that has none is left at its end.
FirstOf(text, a, n, Wanted(_)) == Min({k \in 0 .. n - 1 : Wanted(text[a + k + 1])} \cup {n})
Blank(ch) == ch <= 32
StringFindBlank(text, a, n) == FirstOf(text, a, n, Blank)
StringFindNonblank(text, a, n) == FirstOf(text, a, n, LAMBDA ch : ~Blank(ch))
StringFindChar(text, a, n, wanted) == FirstOf(text, a, n, LAMBDA ch : ch = wanted)
LineFindChar(text, a, n, wanted) == FirstOf(text, a, n, LAMBDA ch : ch \in {wanted, LF, CR})

ToLower(ch) == IF In(ch, "A", "Z") THEN ch + 32 ELSE ch
StringEqual(text, a, b, n) == \A k \in 1 .. n : text[a + k] = text[b + k]
StringCiEqual(text, a, b, n) == \A k \in 1 .. n : ToLower(text[a + k]) = ToLower(text[b + k])

-----------------------------------------------------------------------------
\* Numbers that have a token; the numbers of these tokens (include/dict.mh).
TokenNumber ==
  [ minus_two |-> 858, minus_one |-> 859, zero |-> 860, one |-> 861, two |-> 862, three |-> 863,
    four |-> 864, five |-> 865, six |-> 866, seven |-> 867, eight |-> 868, sixteen |-> 869, bl |-> 53 ]
TokenOf(n) ==      \* _missing_: another token
  IF \E t \in DOMAIN TokenNumber : TokenNumber[t] = n THEN CHOOSE t \in DOMAIN TokenNumber : TokenNumber[t] = n
                                                     ELSE "_missing_"

\* The data of (optimize-literal): numbers, each before its token.
LiteralTokens == <<"minus_two", "minus_one", "zero", "one", "two", "three", "four", "five", "six", "seven",
                   "eight", "sixteen", "bl">>
LiteralData ==
  [k \in 1 .. 2 * Len(LiteralTokens) |->
     LET t == LiteralTokens[(k + 1) \div 2] IN IF k % 2 = 1 THEN Literals[t] ELSE TokenNumber[t]]
\* It looks at every element of the data, at the tokens too.
OptimizeLiteral(x) ==
  LET found == {k \in DOMAIN LiteralData : LiteralData[k] = x}
  IN IF found = {} THEN <<x, 0>>
     ELSE <<IF Min(found) = Len(LiteralData) THEN 0 ELSE LiteralData[Min(found) + 1], -1>>

-----------------------------------------------------------------------------
\* What the word t leaves of its arguments.
Arguments ==
  [ char_to_base |-> 1, char_to_u |-> 1, valid_base_q |-> 1, string_to_base |-> 2, string_to_char |-> 2,
    string_to_sign |-> 2, string_base_to_u |-> 3, string_to_number |-> 2, string_equal |-> 3,
    string_ci_equal |-> 3, string_find_blank |-> 2, string_find_nonblank |-> 2, string_find_char |-> 3,
    line_find_char |-> 3, optimize_literal |-> 1, um_div_mod |-> 3 ]
TextWord(t, x, text, base) ==
  CASE t = "char_to_base" -> <<CharToBase(x[1])>>
    [] t = "char_to_u" -> <<CharToU(x[1])>>
    [] t = "valid_base_q" -> Ternary.within[x[1], 2, 37]
    [] t = "string_to_base" -> StringToBase(text, x[1], x[2], base)
    [] t = "string_to_char" -> StringToChar(text, x[1], x[2])
    [] t = "string_to_sign" -> StringToSign(text, x[1], x[2])
    [] t = "string_base_to_u" -> StringAndBaseToU(text, x[1], x[2], x[3])
    [] t = "string_to_number" -> StringToNumber(text, x[1], x[2], base)
    [] t = "string_equal" -> Append(x, Flag(StringEqual(text, x[1], x[2], x[3])))
    [] t = "string_ci_equal" -> Append(x, Flag(StringCiEqual(text, x[1], x[2], x[3])))
    [] t = "string_find_blank" -> <<StringFindBlank(text, x[1], x[2])>>
    [] t = "string_find_nonblank" -> <<StringFindNonblank(text, x[1], x[2])>>
    [] t = "string_find_char" -> <<StringFindChar(text, x[1], x[2], x[3])>>
    [] t = "line_find_char" -> <<LineFindChar(text, x[1], x[2], x[3])>>
    [] t = "optimize_literal" -> OptimizeLiteral(x[1])
    [] t = "um_div_mod" -> \* du/mod, m64th_ud_div_mod
         LET du == U(x[2]) * 2^CellBits + U(x[1])
         IN <<Cell(du % U(x[3])), Cell(du \div U(x[3]))>>

-----------------------------------------------------------------------------
\* Pictured numeric output: the text from pict_start to its end.
PictMax == 2 * CellBits + 2      \* M64TH_PICT_MAXSIZE, 16 SZ + 2
UToChar(u) ==
  CASE U(u) < 10 -> Code["0"] + U(u) [] U(u) >= 10 /\ U(u) < 36 -> Code["a"] - 10 + U(u) [] OTHER -> Code["?"]
Full(pict) == Len(pict) = PictMax
Hold(pict, ch) == <<ch>> \o pict
=============================================================================
