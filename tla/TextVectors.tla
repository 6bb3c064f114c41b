----------------------------- MODULE TextVectors -----------------------------
(***************************************************************************)
(* The repository's own tests of words that read or write text:            *)
(* t/testexecute.c and t/testio.c.  Besides tokens and stacks a test has   *)
(* the text that addresses refer to, the input and the output, before and  *)
(* after.  Left out: tests that store into memory or buffers; results      *)
(* wider than a cell are taken modulo its size.                            *)
(***************************************************************************)
EXTENDS Numbers

Tested(code, text, d, dAfter, in, inAfter, out, outAfter) ==
  [code |-> code, text |-> Text(text), d |-> d, dAfter |-> [k \in DOMAIN dAfter |-> Cell(dAfter[k])],
   in |-> in, inAfter |-> inAfter, out |-> Text(out), outAfter |-> outAfter]
On(text, token, d, dAfter) == Tested(<<token>>, text, d, dAfter, <<>>, <<>>, "", <<>>)
Data1(token, d, dAfter) == On("", token, d, dAfter)
Writes(code, text, d, out, outAfter) == Tested(code, text, d, <<>>, <<>>, <<>>, out, outAfter)

\* Division, base, one character.
TestsBase ==
  << Data1("um_div_mod", <<3, 1, 2>>, <<1, 1 + 2^(CellBits - 1)>>),
     Data1("base_fetch", <<>>, <<10>>),
     Tested(<<"hex", "base_fetch">>, "", <<>>, <<16>>, <<>>, <<>>, "", <<>>),
     Tested(<<"decimal", "base_fetch">>, "", <<>>, <<10>>, <<>>, <<>>, "", <<>>),
     Data1("char_to_base", Text("#"), <<10>>), Data1("char_to_base", Text("$"), <<16>>),
     Data1("char_to_base", Text("%"), <<2>>), Data1("char_to_base", Text("&"), <<0>>),
     Data1("char_to_base", Text("\""), <<0>>),
     On("", "string_to_base", <<0, 0>>, <<0, 0, 10>>), On("#", "string_to_base", <<0, 1>>, <<1, 0, 10>>),
     On("$", "string_to_base", <<0, 1>>, <<1, 0, 16>>), On("%", "string_to_base", <<0, 1>>, <<1, 0, 2>>),
     On("0", "string_to_base", <<0, 1>>, <<0, 1, 10>>),
     On("''", "string_to_char", <<0, 2>>, <<0, 2, -1>>),
     On("'x'", "string_to_char", <<0, 3>>, <<3, 0, Code["x"]>>),
     On("(y'", "string_to_char", <<0, 3>>, <<0, 3, -1>>), On("'z)", "string_to_char", <<0, 3>>, <<0, 3, -1>>),
     On("'00'", "string_to_char", <<0, 4>>, <<0, 4, -1>>) >>

\* Signs and digits.
TestsDigit ==
  << On("", "string_to_sign", <<0, 0>>, <<0, 0, 1>>), On("0", "string_to_sign", <<0, 1>>, <<0, 1, 1>>),
     On("-123", "string_to_sign", <<0, 4>>, <<1, 3, -1>>),
     Data1("char_to_u", Text("/"), <<-1>>), Data1("char_to_u", Text("0"), <<0>>),
     Data1("char_to_u", Text("9"), <<9>>), Data1("char_to_u", Text(":"), <<-1>>),
     Data1("char_to_u", Text("@"), <<-1>>), Data1("char_to_u", Text("A"), <<10>>),
     Data1("char_to_u", Text("Z"), <<35>>), Data1("char_to_u", Text("["), <<-1>>),
     Data1("char_to_u", <<96>>, <<-1>>), Data1("char_to_u", Text("a"), <<10>>),
     Data1("char_to_u", Text("z"), <<35>>), Data1("char_to_u", Text("{"), <<-1>>),
     Data1("valid_base_q", <<0>>, <<0>>), Data1("valid_base_q", <<1>>, <<0>>),
     Data1("valid_base_q", <<2>>, <<-1>>), Data1("valid_base_q", <<3>>, <<-1>>),
     Data1("valid_base_q", <<10>>, <<-1>>), Data1("valid_base_q", <<16>>, <<-1>>),
     Data1("valid_base_q", <<35>>, <<-1>>), Data1("valid_base_q", <<36>>, <<-1>>),
     Data1("valid_base_q", <<37>>, <<0>>), Data1("valid_base_q", <<38>>, <<0>>) >>

\* Numbers without sign or prefix.
TestsUnsigned ==
  << On("", "string_base_to_u", <<0, 0, 10>>, <<0, 0, 0>>),
     On("%1011", "string_base_to_u", <<1, 4, 2>>, <<5, 0, 11>>),
     On("$12345a", "string_base_to_u", <<1, 6, 2>>, <<2, 5, 1>>),
     On("$12345a", "string_base_to_u", <<1, 6, 10>>, <<6, 1, 12345>>),
     On("1234567890", "string_base_to_u", <<0, 10, 10>>, <<10, 0, 1234567890>>),
     On("4294967295", "string_base_to_u", <<0, 10, 10>>, <<10, 0, -1>>),
     On("$12345a", "string_base_to_u", <<1, 6, 16>>, <<7, 0, 1193050>>),
     On("$123defg", "string_base_to_u", <<1, 7, 16>>, <<7, 1, 1195503>>),
     On("$ffffffff", "string_base_to_u", <<1, 8, 16>>, <<9, 0, -1>>),
     On("18446744073709551615", "string_base_to_u", <<0, 20, 10>>, <<20, 0, -1>>),
     On("$ffffffffffffffff", "string_base_to_u", <<1, 16, 16>>, <<17, 0, -1>>),
     On("0az", "string_base_to_u", <<0, 3, 36>>, <<3, 0, 395>>),
     On("z:", "string_base_to_u", <<0, 2, 36>>, <<1, 1, 35>>) >>

TestsNumber ==
  << On("", "string_to_number", <<0, 0>>, <<0, 0>>),
     On("$12345a", "string_to_number", <<1, 6>>, <<12345, 0>>),
     On("1234567890", "string_to_number", <<0, 10>>, <<1234567890, -1>>),
     On("4294967295", "string_to_number", <<0, 10>>, <<-1, -1>>),
     On("%1011", "string_to_number", <<0, 5>>, <<11, -1>>),
     On("$12345a", "string_to_number", <<0, 7>>, <<1193050, -1>>),
     On("$123defg", "string_to_number", <<0, 8>>, <<1195503, 0>>),
     On("$ffffffff", "string_to_number", <<0, 9>>, <<-1, -1>>),
     On("18446744073709551615", "string_to_number", <<0, 20>>, <<-1, -1>>),
     On("$ffffffffffffffff", "string_to_number", <<0, 17>>, <<-1, -1>>) >>

\* Comparing and searching text.  Two strings are one after the other.
Compares(a, b, token, n, flag) == On(a \o b, token, <<0, Len(a), n>>, <<0, Len(a), n, flag>>)
Crlf == <<32, CR, LF, 32>>
OnCrlf(token, d, dAfter) == [Data1(token, d, dAfter) EXCEPT !.text = Crlf]
OnTwoLines(n, ch, k) == [Data1("line_find_char", <<0, n, Code[ch]>>, <<k>>) EXCEPT
                           !.text = Text("abc") \o <<LF>> \o Text("d")]
TestsSearch ==
  << OnTwoLines(3, "c", 2), OnTwoLines(3, "d", 3), OnTwoLines(5, "d", 3),
     Compares("abcdefgh0", "abcdefgh1", "string_equal", 7, -1),
     Compares("abcdefgh0", "abcdefgh1", "string_equal", 8, -1),
     Compares("abcdefgh0", "abcdefgh1", "string_equal", 9, 0),
     Compares("ex-message@", "ex-message!", "string_ci_equal", 11, 0),
     Compares("abcdef@+", "abcdef@+ ", "string_ci_equal", 8, -1),
     Compares("abcdef@+", "abCdeF@", "string_ci_equal", 7, -1),
     [Data1("string_ci_equal", <<0, 8, 8>>, <<0, 8, 8, 0>>) EXCEPT
        !.text = Text("abcdef@+abCdeF") \o <<96>> \o Text("+")],
     On("", "string_find_blank", <<0, 0>>, <<0>>), On(" ", "string_find_blank", <<0, 1>>, <<0>>),
     On("x", "string_find_blank", <<0, 1>>, <<1>>), On("yz =", "string_find_blank", <<0, 3>>, <<2>>),
     On("yz =", "string_find_blank", <<0, 4>>, <<2>>),
     On("", "string_find_char", <<0, 0, Code["."]>>, <<0>>),
     On(" ", "string_find_char", <<0, 1, Code["."]>>, <<1>>),
     On(" yz =", "string_find_char", <<0, 4, Code["z"]>>, <<2>>),
     OnCrlf("string_find_char", <<1, 3, 32>>, <<2>>),
     On("", "string_find_nonblank", <<0, 0>>, <<0>>), On(" ", "string_find_nonblank", <<0, 1>>, <<1>>),
     On("x", "string_find_nonblank", <<0, 1>>, <<0>>), On(" yz =", "string_find_nonblank", <<0, 4>>, <<1>>),
     OnCrlf("string_find_nonblank", <<0, 4>>, <<4>>) >>

\* (optimize-literal) ( x -- token t | x f )
OfNumber(x, token) == Data1("optimize_literal", <<x>>, <<TokenNumber[token], -1>>)
TestsLiteral ==
  << Data1("optimize_literal", <<-3>>, <<-3, 0>>), OfNumber(-2, "minus_two"), OfNumber(-1, "minus_one"),
     OfNumber(0, "zero"), OfNumber(1, "one"), OfNumber(2, "two"), OfNumber(3, "three"), OfNumber(4, "four"),
     OfNumber(5, "five"), OfNumber(8, "eight"), Data1("optimize_literal", <<9>>, <<9, 0>>) >>

\* Output, to a buffer whose reader has all of it.
TestsOutput ==
  << Writes(<<"cr">>, "", <<>>, "", <<LF>>), Writes(<<"space">>, "", <<>>, "", Text(" ")),
     Writes(<<"cr", "space">>, "", <<>>, "", <<LF, 32>>), Writes(<<"spaces">>, "", <<3>>, "", Text("   ")),
     Writes(<<"emit">>, "", <<Code["#"]>>, "", Text("#")),
     Writes(<<"emit", "emit">>, "", <<Code[")"], Code["("]>>, "", Text("()")),
     Writes(<<"type">>, "k", <<0, 1>>, "", Text("k")), Writes(<<"type">>, "pq", <<0, 2>>, "o", Text("opq")),
     Writes(<<"type">>, "foobarbaz", <<0, 9>>, "e", Text("efoobarbaz")),
     Writes(<<"emit", "emit">>, "", <<Code["y"], Code["x"]>>, "", Text("xy")),
     Writes(<<"cr", "space">>, "", <<>>, "", <<LF, 32>>), Writes(<<"type">>, " x ", <<0, 3>>, "", Text(" x ")),
     Writes(<<"type", "emit">>, "a", <<Code["b"], 0, 1>>, "", Text("ab")),
     Writes(<<"emit", "type">>, "q", <<0, 1, Code["p"]>>, "", Text("pq")) >>

\* Pictured numeric output; `.' is what the word compiles.
Underflow == <<"depth", "zero_less_equal", "_lit_", -4, "and", "throw">>
Dot == Underflow \o
       << "dup_to_r", "dup", "zero_less", "_if_", 2, "negate", "then", "num_start", "bl", "hold", "u_to_d",
          "num_s", "r_from", "sign", "num_end", "type" >>
UDot == Underflow \o << "num_start", "bl", "hold", "u_to_d", "num_s", "num_end", "type" >>
TestsPictured ==
  << Writes(<<"num_start", "num_end", "type">>, "", <<0, 0>>, "", <<>>),
     Writes(<<"num_start", "hold", "num_end", "type">>, "", <<0, 0, Code["a"]>>, "", Text("a")),
     Writes(<<"num_start", "hold", "hold", "num_end", "type">>, "", <<0, 0, Code["c"], Code["b"]>>, "", Text("cb")),
     Writes(<<"num_start", "u_to_d", "num", "num_end", "type">>, "", <<3>>, "", Text("3")),
     Writes(<<"num_start", "u_to_d", "num_s", "num_end", "type">>, "", <<123>>, "", Text("123")),
     Writes(Dot, "", <<12348>>, "", Text("12348 ")),
     Writes(UDot, "", <<-1>>, "", IF CellBits = 16 THEN Text("65535 ") ELSE Text("18446744073709551615 ")) >>

\* Input, from a buffer that has all of it.
Parsed(word, in, out) ==    \* ( and .(
  Tested(<<"ibuf_skip_1blank", "_lit_", Code[")"], "ibuf_find_char", word>>, "", <<>>, <<>>, Text(in), <<>>, "", out)
TestsBuffered ==
  << Tested(<<"ibuf_skip_blanks">>, "", <<>>, <<>>, <<1, 2, 3, 4, 5, 6, 7, 8, 9, 10, 11, 12, 13>> \o Text(" # "),
            Text("# "), "", <<>>),
     Tested(<<"ibuf_find_char", "type">>, "", <<Code["\""]>>, <<>>, Text(" foo\"x"), Text("x"), "", Text(" foo")),
     Tested(<<"ibuf_find_char", "type">>, "", <<Code["z"]>>, <<>>, Text("  x y ") \o <<LF>>, <<>>, "",
            Text("  x y ") \o <<LF>>),
     Parsed("two_drop", " foo)", <<>>), Parsed("type", " bar)", Text("bar")) >>
Parses(n, in, inAfter, out) ==
  Tested(IF n = 1 THEN <<"parse_name", "type">> ELSE <<"parse_name", "type", "parse_name", "type">>,
         "", <<>>, <<>>, Text(in), Text(inAfter), "", Text(out))
TestsInput ==
  << Parses(1, "   ", "", ""), Parses(1, " a ", " ", "a"), Parses(2, " a ", "", "a"),
     Parses(1, " a b ", " b ", "a"), Parses(2, " a b ", " ", "ab"), Parses(1, "  11   22", "   22", "11"),
     Parses(1, " foobarbaz qwertyuiop", " qwertyuiop", "foobarbaz") >>

TextTests ==
  TestsBase \o TestsDigit \o TestsUnsigned \o TestsNumber \o TestsSearch \o TestsLiteral \o TestsOutput
  \o TestsPictured \o TestsBuffered \o TestsInput
=============================================================================
