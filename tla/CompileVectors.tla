---------------------------- MODULE CompileVectors ----------------------------
(***************************************************************************)
(* The repository's own tests of the compiler, t/testcompile.c: a line of  *)
(* input, the data stack before it, and the tokens and operands that must  *)
(* be compiled, and what must be left on the control stack.  Left out:     *)
(* strings, calls, defining words, local variables, fetching from memory   *)
(* and numbers of more than 16 bits.                                       *)
(***************************************************************************)
EXTENDS TextVectors

CW == INSTANCE ControlWords

\* Tokens, and the operands of those that have one, in their order.
WithOperands(tokens, operands) ==
  LET Cells[k \in 0 .. Len(tokens)] ==
        IF k = 0 THEN <<>>
        ELSE LET nth == Cardinality({j \in 1 .. k : tokens[j] \in CW!WithOneOperand})
             IN Cells[k - 1] \o <<CW!Token(tokens[k])>>
                \o IF tokens[k] \in CW!WithOneOperand THEN <<CW!Operand(operands[nth])>> ELSE <<>>
  IN Cells[Len(tokens)]

ColonSys == <<CW!Sys(0, "colon")>>       \* COLON_SYS
CompileTest(line, d, cs, csAfter, tokens, operands) ==
  [line |-> Text(line), d |-> d, cs |-> cs, csAfter |-> csAfter, code |-> WithOperands(tokens, operands)]
Appends(line, tokens, operands) == CompileTest(line, <<>>, <<>>, <<>>, tokens, operands)
LeavesOpen(line, sys, tokens, operands) ==
  CompileTest(line, <<>>, <<>>, [k \in DOMAIN sys |-> CW!Sys(sys[k][1], sys[k][2])], tokens, operands)
Finishes(line, tokens, operands) ==      \* the line ends with ;
  CompileTest(line, <<>>, ColonSys, <<>>, Append(tokens, "exit"), operands)

\* testcompile_a
TestsNumbersCompiled ==
  << Appends("", <<>>, <<>>), Appends("0", <<"zero">>, <<>>), Appends("1 2", <<"one", "two">>, <<>>),
     Appends("3 4 8", <<"three", "four", "eight">>, <<>>), Appends("-1 5", <<"minus_one", "five">>, <<>>),
     Appends("-3 9", <<"_lit_", "_lit_">>, <<-3, 9>>), Appends("'!'", <<"_lit_">>, Text("!")),
     Appends("'4'", <<"_lit_">>, Text("4")), Appends("'@'", <<"_lit_">>, Text("@")),
     Appends("'k'", <<"_lit_">>, Text("k")), Appends("'~'", <<"_lit_">>, Text("~")),
     Appends("#1234", <<"_lit_">>, <<1234>>), Appends("#-4321", <<"_lit_">>, <<-4321>>),
     Appends("$99", <<"_lit_">>, <<153>>), Appends("$-7def", <<"_lit_">>, <<-32239>>),
     Appends("$-7DEF", <<"_lit_">>, <<-32239>>), Appends("%1011", <<"_lit_">>, <<11>>),
     Appends("$ffffffffffffffff", <<"minus_one">>, <<>>) >>
Literally(line, n, token) == CompileTest(line, <<n>>, <<>>, <<>>, <<token>>, <<n>>)
TestsLiterals ==
  << Literally("LITERAL", 0, "zero"), Literally("LiTeRaL", 0, "zero"), Literally("literal", -3, "_lit_"),
     Literally("literal", -2, "minus_two"), Literally("literal", -1, "minus_one"),
     Literally("literal", 0, "zero"), Literally("literal", 1, "one"), Literally("literal", 2, "two"),
     Literally("literal", 3, "three"), Literally("literal", 4, "four"), Literally("literal", 5, "five"),
     Literally("literal", 8, "eight"), Literally("literal", 11, "_lit_"),
     Literally("literal", 32767, "_lit_"), Literally("literal", -32768, "_lit_") >>
TestsTokensCompiled ==
  << Appends("! * + - /", <<"store", "times", "plus", "minus", "div">>, <<>>),
     Appends("<> = 0<> 0=", <<"ne", "equal", "zero_ne", "zero_equal">>, <<>>),
     Appends("< <= > >=", <<"less", "less_equal", "more", "more_equal">>, <<>>),
     Appends("u< u<= u> u>=", <<"u_less", "u_less_equal", "u_more", "u_more_equal">>, <<>>),
     Appends("0< 0<= 0> 0>=", <<"zero_less", "zero_less_equal", "zero_more", "zero_more_equal">>, <<>>),
     Appends("/mod drop false true", <<"div_mod", "drop", "false", "true">>, <<>>),
     Appends("?dup dup exit", <<"question_dup", "dup", "exit">>, <<>>),
     Appends("string=", <<"string_equal">>, <<>>),
     Appends("string<>", <<"string_equal", "zero_equal">>, <<>>),
     Appends("STRING-CI=", <<"string_ci_equal">>, <<>>),
     Appends("sTrInG-CI<>", <<"string_ci_equal", "zero_equal">>, <<>>),
     Appends("c, short, int, ,", <<"c_comma", "short_comma", "int_comma", "comma">>, <<>>),
     Appends("valid-base?", <<"two", "_lit_", "within">>, <<37>>) >>

\* testcompile_c
TestsConditionals ==
  << LeavesOpen("if", <<<<2, "_if_">>>>, <<"_if_">>, <<-1>>), Appends("if then", <<"_if_", "then">>, <<1>>),
     Appends("if 1 then", <<"_if_", "one", "then">>, <<2>>), Appends("if dup then", <<"_if_", "dup", "then">>, <<2>>),
     LeavesOpen("if else", <<<<4, "_else_">>>>, <<"_if_", "_else_">>, <<2, -1>>),
     Appends("if else then", <<"_if_", "_else_", "then">>, <<2, 1>>),
     Appends("if 1 else 2 then", <<"_if_", "one", "_else_", "two", "then">>, <<3, 2>>),
     Appends("if + else - then", <<"_if_", "plus", "_else_", "minus", "then">>, <<3, 2>>),
     Appends("if + if * else / then else - then",
             <<"_if_", "plus", "_if_", "times", "_else_", "div", "then", "_else_", "minus", "then">>, <<10, 3, 2, 2>>),
     LeavesOpen("ahead", <<<<2, "_ahead_">>>>, <<"_ahead_">>, <<-1>>), Appends("ahead then", <<"_ahead_", "then">>, <<1>>),
     Appends("ahead 1 then", <<"_ahead_", "one", "then">>, <<2>>) >>
TestsDo ==
  << LeavesOpen("do", <<<<2, "_do_">>>>, <<"_do_">>, <<-1>>), LeavesOpen("?do", <<<<2, "_do_">>>>, <<"_q_do_">>, <<-1>>),
     Appends("do loop", <<"_do_", "_loop_">>, <<2, -2>>),
     Appends("do 1 +loop", <<"_do_", "one", "_plus_loop_">>, <<3, -3>>),
     Appends("do i +loop", <<"_do_", "i", "_plus_loop_">>, <<3, -3>>),
     LeavesOpen("do leave", <<<<2, "_do_">>, <<4, "_leave_">>>>, <<"_do_", "_leave_">>, <<-1, -1>>),
     Appends("do leave loop", <<"_do_", "_leave_", "_loop_">>, <<4, 2, -4>>),
     Appends("?do leave loop", <<"_q_do_", "_leave_", "_loop_">>, <<4, 2, -4>>),
     LeavesOpen("do if ", <<<<2, "_do_">>, <<4, "_if_">>>>, <<"_do_", "_if_">>, <<-1, -1>>),
     LeavesOpen("do if leave", <<<<2, "_do_">>, <<6, "_leave_">>, <<4, "_if_">>>>,
             <<"_do_", "_if_", "_leave_">>, <<-1, -1, -1>>),
     LeavesOpen("do if leave then", <<<<2, "_do_">>, <<6, "_leave_">>>>,
             <<"_do_", "_if_", "_leave_", "then">>, <<-1, 3, -1>>),
     Appends("do if leave then loop", <<"_do_", "_if_", "_leave_", "then", "_loop_">>, <<7, 3, 3, -7>>) >>
TestsBegin ==
  << LeavesOpen("begin", <<<<1, "begin">>>>, <<"begin">>, <<>>), Appends("begin again", <<"begin", "_again_">>, <<-2>>),
     Appends("begin 1+ again", <<"begin", "one_plus", "_again_">>, <<-3>>),
     LeavesOpen("begin if", <<<<1, "begin">>, <<3, "_if_">>>>, <<"begin", "_if_">>, <<-1>>),
     LeavesOpen("begin if then", <<<<1, "begin">>>>, <<"begin", "_if_", "then">>, <<1>>),
     Appends("begin if then again", <<"begin", "_if_", "then", "_again_">>, <<1, -5>>),
     Appends("begin 1 until", <<"begin", "one", "_until_">>, <<-3>>),
     LeavesOpen("begin while", <<<<3, "_while_">>, <<1, "begin">>>>, <<"begin", "_while_">>, <<-1>>),
     LeavesOpen("begin while again", <<<<3, "_while_">>>>, <<"begin", "_while_", "_again_">>, <<-1, -4>>),
     Appends("begin while again then", <<"begin", "_while_", "_again_", "then">>, <<3, -4>>),
     Appends("begin while repeat", <<"begin", "_while_", "_repeat_">>, <<2, -4>>) >>
TestsCaseOf ==
  << LeavesOpen("case", <<<<1, "case">>>>, <<"case">>, <<>>),
     LeavesOpen("case 1 of", <<<<1, "case">>, <<4, "_of_">>>>, <<"case", "one", "_of_">>, <<-1>>),
     LeavesOpen("case 1 of 2 endof", <<<<1, "case">>, <<7, "_endof_">>>>,
             <<"case", "one", "_of_", "two", "_endof_">>, <<3, -1>>),
     LeavesOpen("case 2 of 3 endof 4 of 5 endof", <<<<1, "case">>, <<7, "_endof_">>, <<13, "_endof_">>>>,
             <<"case", "two", "_of_", "three", "_endof_", "four", "_of_", "five", "_endof_">>, <<3, -1, 3, -1>>),
     Appends("case endcase", <<"case", "endcase">>, <<>>),
     Appends("case 3 of 4 endof 5 of 6 endof 7 endcase",
             <<"case", "three", "_of_", "four", "_endof_", "five", "_of_", "six", "_endof_", "seven", "endcase">>,
             <<3, 8, 3, 2>>),
     LeavesOpen("case 1 of fallthrough", <<<<1, "case">>, <<6, "_fallthrough_">>>>,
             <<"case", "one", "_of_", "_fallthrough_">>, <<2, -1>>),
     LeavesOpen("case 1 of fallthrough 2 of fallthrough", <<<<1, "case">>, <<11, "_fallthrough_">>>>,
             <<"case", "one", "_of_", "_fallthrough_", "two", "_of_", "_fallthrough_">>, <<2, 3, 2, -1>>),
     Appends("case 1 of fallthrough endcase", <<"case", "one", "_of_", "_fallthrough_", "endcase">>, <<2, 0>>),
     Finishes("recurse ;", <<"_recurse_">>, <<-2>>),
     CompileTest("non-existent-name 1", <<-1, -1>>, ColonSys, <<>>, <<>>, <<>>) >>

\* testcompile_d: the line ends with ; which optimizes
TestsOptimized ==
  << Finishes("cell+ ;", <<"_SZ_plus">>, <<>>), Finishes("cells ;", <<"_SZ_times">>, <<>>),
     Finishes("char+ ;", <<"one_plus">>, <<>>), Finishes("chars ;", <<>>, <<>>),
     Finishes("false ;", <<"zero">>, <<>>), Finishes("noop ;", <<>>, <<>>), Finishes("true ;", <<"minus_one">>, <<>>),
     Finishes("1+ 1- ;", <<>>, <<>>), Finishes("1+ 1+ ;", <<"two_plus">>, <<>>),
     Finishes("1+ noop 1+ ;", <<"two_plus">>, <<>>), Finishes("swap drop ;", <<"nip">>, <<>>),
     Finishes("1 rshift ;", <<"u_two_div">>, <<>>), Finishes("2 / ;", <<"two_sm_div">>, <<>>),
     Finishes("2 u/ ;", <<"u_two_div">>, <<>>), Finishes("drop drop ;", <<"two_drop">>, <<>>),
     Finishes("if noop 1+ then ;", <<"_if_", "one_plus", "then">>, <<2>>),
     Finishes("if 1+ 1+ then ;", <<"_if_", "two_plus", "then">>, <<2>>),
     Finishes("if recurse then ;", <<"_if_", "_recurse_", "then">>, <<3, -4>>),
     Finishes("256 * ;", <<"eight_lshift">>, <<>>), Finishes("$ff and ;", <<"to_char">>, <<>>),
     Finishes("over over < choose ;", <<"min">>, <<>>), Finishes("case endcase ;", <<"drop">>, <<>>),
     Finishes("dup dup dup dup drop drop drop drop ;", <<>>, <<>>),
     Finishes("drop dup dup dup drop drop drop drop ;", <<"two_drop">>, <<>>),
     Finishes("if drop else nip then ;", <<"choose">>, <<>>),
     Finishes("if nip else drop then ;", <<"zero_equal", "choose">>, <<>>),
     Finishes("2dup < if drop else nip then ;", <<"min">>, <<>>),
     Finishes("2dup <= if nip else drop then ;", <<"max">>, <<>>) >>
TestsOptimizedIf ==
  << Finishes("if then ;", <<"drop">>, <<>>), Finishes("if chars then ;", <<"drop">>, <<>>),
     Finishes("if 1+ 1- then ;", <<"drop">>, <<>>),
     Finishes("if else 1 then ;", <<"_if0_", "one", "then">>, <<2>>), Finishes("0= if then ;", <<"drop">>, <<>>),
     Finishes("0= if 1 then ;", <<"_if0_", "one", "then">>, <<2>>),
     Finishes("0= if else 1 then ;", <<"_if_", "one", "then">>, <<2>>), Finishes("dup if then ;", <<>>, <<>>),
     Finishes("dup if dup then ;", <<"question_dup">>, <<>>), Finishes("dup if noop then ;", <<>>, <<>>),
     Finishes("dup if 1+ 1- then ;", <<>>, <<>>), Finishes("dup if 1 then ;", <<"_q_if_", "one", "then">>, <<2>>),
     Finishes("dup if else 1 then ;", <<"_q_if0_", "one", "then">>, <<2>>),
     Finishes("dup 0= if 2 then ;", <<"_q_if0_", "two", "then">>, <<2>>),
     Finishes("dup 0= if else 3 then ;", <<"_q_if_", "three", "then">>, <<2>>) >>
TestsOptimizedBegin ==
  << Finishes("begin noop again ;", <<"begin", "_again_">>, <<-2>>),
     Finishes("begin while noop repeat ;", <<"begin", "_while_", "_repeat_">>, <<2, -4>>),
     Finishes("begin dup while noop repeat ;", <<"begin", "_q_while_", "_repeat_">>, <<2, -4>>),
     Finishes("begin dup while dup if then repeat ;", <<"begin", "_q_while_", "_repeat_">>, <<2, -4>>),
     Finishes("begin dup 0<> while noop repeat ;", <<"begin", "_q_while_", "_repeat_">>, <<2, -4>>),
     Finishes("begin dup 0= while noop repeat ;", <<"begin", "_q_while0_", "_repeat_">>, <<2, -4>>),
     Finishes("begin dup 0= while dup if then repeat ;", <<"begin", "_q_while0_", "_repeat_">>, <<2, -4>>),
     Finishes("begin until ;", <<"begin", "_until_">>, <<-2>>), Finishes("begin 0= until ;", <<"begin", "_until0_">>, <<-2>>),
     Finishes("begin 0<> until ;", <<"begin", "_until_">>, <<-2>>),
     Finishes("begin dup until ;", <<"begin", "_q_until_">>, <<-2>>),
     Finishes("begin dup 0= until ;", <<"begin", "_q_until0_">>, <<-2>>) >>

CompileTests ==
  TestsNumbersCompiled \o TestsLiterals \o TestsTokensCompiled \o TestsConditionals \o TestsDo \o TestsBegin
  \o TestsCaseOf \o TestsOptimized \o TestsOptimizedIf \o TestsOptimizedBegin
=============================================================================
