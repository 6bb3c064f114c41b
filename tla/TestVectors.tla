---------------------------- MODULE TestVectors ----------------------------
(***************************************************************************)
(* The repository's own tests of the tokens, t/testexecute.c: the tokens   *)
(* to run, the data stack before and after, and the return stack before    *)
(* and after.  Every test there ends with the token bye, left out here.    *)
(* Left out: tests of tokens that touch memory or buffers, and values of   *)
(* more than 16 bits.                                                      *)
(***************************************************************************)
EXTENDS Integers, Sequences

Both(code, d, r, dAfter, rAfter) == [code |-> code, d |-> d, r |-> r, dAfter |-> dAfter, rAfter |-> rAfter]
Data(token, d, dAfter) == Both(<<token>>, d, <<>>, dAfter, <<>>)

\* Constants and arithmetic, pairs of cells.
TestsArithmetic ==
  << Data("times", <<20, 7>>, <<140>>), Data("plus", <<-3, 2>>, <<-1>>),
     Data("minus", <<3, 5>>, <<-2>>), Data("div", <<-20, 7>>, <<-2>>), Data("div", <<20, 7>>, <<2>>),
     Data("div_mod", <<-20, 7>>, <<-6, -2>>), Data("div_mod", <<20, 7>>, <<6, 2>>),
     Data("minus_one", <<>>, <<-1>>), Data("zero", <<>>, <<0>>), Data("one", <<>>, <<1>>),
     Data("one_minus", <<-3>>, <<-4>>), Data("one_plus", <<-6>>, <<-5>>), Data("two", <<>>, <<2>>),
     Data("two_times", <<-6>>, <<-12>>), Data("two_plus", <<-6>>, <<-4>>),
     Data("two_minus", <<-3>>, <<-5>>), Data("two_div", <<-5>>, <<-3>>), Data("two_div", <<5>>, <<2>>),
     Both(<<"two_to_r">>, <<7, 8, 9>>, <<0>>, <<7>>, <<0, 8, 9>>), Data("two_drop", <<0, 5>>, <<>>),
     Data("two_drop", <<-3, -2, -1>>, <<-3>>), Data("two_dup", <<8, 9>>, <<8, 9, 8, 9>>),
     Both(<<"two_dup_two_to_r">>, <<8, 9>>, <<>>, <<8, 9>>, <<8, 9>>),
     Data("two_nip", <<1, 2, 3, 4>>, <<3, 4>>), Data("two_over", <<1, 2, 3, 4>>, <<1, 2, 3, 4, 1, 2>>),
     Both(<<"two_r_from">>, <<0>>, <<5, 6>>, <<0, 5, 6>>, <<>>),
     Both(<<"two_r_from_two_drop">>, <<0>>, <<7, 8>>, <<0>>, <<>>),
     Both(<<"two_r_fetch">>, <<0>>, <<9, 10>>, <<0, 9, 10>>, <<9, 10>>),
     Data("two_swap", <<1, 2, 3, 4>>, <<3, 4, 1, 2>>),
     Data("two_tuck", <<1, 2, 3, 4>>, <<3, 4, 1, 2, 3, 4>>), Data("three", <<>>, <<3>>),
     Data("four", <<>>, <<4>>), Data("four_times", <<-7>>, <<-28>>), Data("four_plus", <<-7>>, <<-3>>),
     Data("four_div", <<-27>>, <<-7>>), Data("four_div", <<15>>, <<3>>), Data("five", <<>>, <<5>>),
     Data("six", <<>>, <<6>>), Data("seven", <<>>, <<7>>), Data("eight", <<>>, <<8>>),
     Data("eight_times", <<-3>>, <<-24>>), Data("eight_plus", <<-3>>, <<5>>),
     Data("eight_div", <<-25>>, <<-4>>), Data("eight_div", <<31>>, <<3>>) >>

\* Alignment, shifts, the stack.
TestsStack ==
  << Data("question_dup", <<0>>, <<0>>), Data("question_dup", <<1>>, <<1, 1>>),
     Data("abs", <<0>>, <<0>>), Data("abs", <<11>>, <<11>>), Data("abs", <<-3>>, <<3>>),
     Data("aligned", <<0>>, <<0>>), Data("aligned", <<1>>, <<8>>), Data("aligned", <<7>>, <<8>>),
     Data("short_aligned", <<0>>, <<0>>), Data("short_aligned", <<1>>, <<2>>),
     Data("short_aligned", <<3>>, <<4>>), Data("int_aligned", <<0>>, <<0>>),
     Data("int_aligned", <<1>>, <<4>>), Data("int_aligned", <<3>>, <<4>>),
     Data("and", <<-7, 14>>, <<8>>), Data("bl", <<>>, <<32>>), Data("bounds", <<5, 6>>, <<11, 5>>),
     Data("choose", <<1, 2, -3>>, <<1>>), Data("choose", <<1, 2, 0>>, <<2>>),
     Data("depth", <<>>, <<0>>), Data("depth", <<3>>, <<3, 1>>), Data("depth", <<3, 4>>, <<3, 4, 2>>),
     Data("drop", <<1>>, <<>>), Data("drop", <<1, 2>>, <<1>>), Data("dup", <<-5>>, <<-5, -5>>),
     Data("false", <<>>, <<0>>), Data("hop", <<-3, -2, -1>>, <<-3, -2, -1, -3>>),
     Data("lshift", <<99, 3>>, <<792>>), Data("max", <<1, 2>>, <<2>>), Data("min", <<3, 4>>, <<3>>),
     Data("mod", <<20, 7>>, <<6>>), Data("mod", <<-20, 7>>, <<-6>>), Data("n_to_drop", <<0>>, <<>>),
     Data("n_to_drop", <<-1, 1>>, <<>>), Data("n_to_drop", <<-2, -1, 2>>, <<>>),
     Data("negate", <<-12>>, <<12>>), Data("nip", <<3, 4>>, <<4>>),
     Both(<<"noop", "drop">>, <<1>>, <<>>, <<>>, <<>>), Data("or", <<-7, 14>>, <<-1>>),
     Data("over", <<1, 0>>, <<1, 0, 1>>) >>

\* pick, roll and the rest of the stack.
TestsReach ==
  << Data("pick", <<-1, 0>>, <<-1, -1>>), Data("pick", <<-2, -1, 1>>, <<-2, -1, -2>>),
     Data("pick", <<-3, -2, -1, 2>>, <<-3, -2, -1, -3>>),
     Data("two_pick", <<-2, -1, 0>>, <<-2, -1, -2, -1>>),
     Data("two_pick", <<-4, -3, -2, -1, 1>>, <<-4, -3, -2, -1, -4, -3>>),
     Data("two_pick", <<-6, -5, -4, -3, -2, -1, 2>>, <<-6, -5, -4, -3, -2, -1, -6, -5>>),
     Data("roll", <<-1, 0>>, <<-1>>), Data("roll", <<-2, -1, 1>>, <<-1, -2>>),
     Data("roll", <<-3, -2, -1, 2>>, <<-2, -1, -3>>),
     Data("roll", <<-4, -3, -2, -1, 3>>, <<-3, -2, -1, -4>>),
     Data("roll", <<-9, -8, -7, -6, -5, -4, -3, -2, -1, 8>>, <<-8, -7, -6, -5, -4, -3, -2, -1, -9>>),
     Data("minus_roll", <<-1, 0>>, <<-1>>), Data("minus_roll", <<-2, -1, 1>>, <<-1, -2>>),
     Data("minus_roll", <<-3, -2, -1, 2>>, <<-1, -3, -2>>),
     Data("minus_roll", <<-4, -3, -2, -1, 3>>, <<-1, -4, -3, -2>>),
     Data("minus_roll", <<-9, -8, -7, -6, -5, -4, -3, -2, -1, 8>>, <<-1, -9, -8, -7, -6, -5, -4, -3, -2>>),
     Data("two_roll", <<-2, -1, 0>>, <<-2, -1>>),
     Data("two_roll", <<-4, -3, -2, -1, 1>>, <<-2, -1, -4, -3>>),
     Data("two_roll", <<-6, -5, -4, -3, -2, -1, 2>>, <<-4, -3, -2, -1, -6, -5>>),
     Data("minus_two_roll", <<-2, -1, 0>>, <<-2, -1>>),
     Data("minus_two_roll", <<-4, -3, -2, -1, 1>>, <<-2, -1, -4, -3>>),
     Data("minus_two_roll", <<-6, -5, -4, -3, -2, -1, 2>>, <<-2, -1, -6, -5, -4, -3>>),
     Data("rot", <<1, 2, 3>>, <<2, 3, 1>>), Data("minus_rot", <<1, 2, 3>>, <<3, 1, 2>>),
     Data("two_rot", <<1, 2, 3, 4, 5, 6>>, <<3, 4, 5, 6, 1, 2>>),
     Data("minus_two_rot", <<1, 2, 3, 4, 5, 6>>, <<5, 6, 1, 2, 3, 4>>),
     Data("rshift", <<99, 3>>, <<12>>), Data("squared", <<-3>>, <<9>>), Data("sub", <<3, 5>>, <<2>>),
     Data("swap", <<4, 5>>, <<5, 4>>), Data("trail", <<4, 5>>, <<4, 4, 5>>), Data("true", <<>>, <<-1>>),
     Data("tuck", <<0, 1>>, <<1, 0, 1>>), Both(<<"unloop">>, <<>>, <<1, 2, 3>>, <<>>, <<1>>),
     Data("xor", <<-7, 14>>, <<-9>>) >>

\* Sizes and conversions of narrower numbers.
TestsTypes ==
  << Data("byte_plus", <<6>>, <<7>>), Data("char_plus", <<6>>, <<7>>),
     Data("short_plus", <<12>>, <<14>>), Data("ushort_plus", <<12>>, <<14>>),
     Data("int_plus", <<12>>, <<16>>), Data("uint_plus", <<12>>, <<16>>),
     Data("cell_plus", <<12>>, <<20>>), Data("token_plus", <<12>>, <<14>>), Data("bytes", <<8>>, <<8>>),
     Data("chars", <<8>>, <<8>>), Data("shorts", <<8>>, <<16>>), Data("ushorts", <<8>>, <<16>>),
     Data("ints", <<8>>, <<32>>), Data("uints", <<8>>, <<32>>), Data("cells", <<3>>, <<24>>),
     Data("tokens", <<3>>, <<6>>), Data("div_byte", <<-13>>, <<-13>>),
     Data("div_char", <<-14>>, <<-14>>), Data("div_short", <<-15>>, <<-8>>),
     Data("div_short", <<15>>, <<7>>), Data("div_ushort", <<-15>>, <<-8>>),
     Data("div_ushort", <<15>>, <<7>>), Data("div_int", <<-15>>, <<-4>>),
     Data("div_int", <<15>>, <<3>>), Data("div_uint", <<-15>>, <<-4>>), Data("div_uint", <<15>>, <<3>>),
     Data("div_cell", <<-13>>, <<-2>>), Data("div_cell", <<13>>, <<1>>),
     Data("div_token", <<-13>>, <<-7>>), Data("div_token", <<13>>, <<6>>),
     Data("to_byte", <<-261>>, <<-5>>), Data("to_byte", <<-128>>, <<-128>>),
     Data("to_byte", <<127>>, <<127>>), Data("to_byte", <<259>>, <<3>>),
     Data("to_char", <<-261>>, <<251>>), Data("to_char", <<-7>>, <<249>>),
     Data("to_char", <<0>>, <<0>>), Data("to_char", <<255>>, <<255>>), Data("to_char", <<259>>, <<3>>),
     Data("to_short", <<-32768>>, <<-32768>>), Data("to_short", <<32767>>, <<32767>>),
     Data("to_ushort", <<0>>, <<0>>) >>

\* Comparisons.
TestsFlags ==
  << Data("zero_less", <<-1>>, <<-1>>), Data("zero_less", <<0>>, <<0>>),
     Data("zero_less_equal", <<0>>, <<-1>>), Data("zero_less_equal", <<1>>, <<0>>),
     Data("zero_ne", <<-1>>, <<-1>>), Data("zero_ne", <<0>>, <<0>>), Data("zero_ne", <<1>>, <<-1>>),
     Data("zero_equal", <<-1>>, <<0>>), Data("zero_equal", <<0>>, <<-1>>),
     Data("zero_equal", <<1>>, <<0>>), Data("zero_more", <<0>>, <<0>>),
     Data("zero_more", <<1>>, <<-1>>), Data("zero_more_equal", <<-1>>, <<0>>),
     Data("zero_more_equal", <<0>>, <<-1>>), Data("less", <<-1, 0>>, <<-1>>),
     Data("less", <<1, 2>>, <<-1>>), Data("less", <<3, 3>>, <<0>>),
     Data("less_equal", <<4, 4>>, <<-1>>), Data("less_equal", <<5, 4>>, <<0>>),
     Data("ne", <<1, 2>>, <<-1>>), Data("ne", <<3, 3>>, <<0>>), Data("equal", <<1, 2>>, <<0>>),
     Data("equal", <<3, 3>>, <<-1>>), Data("more", <<2, 1>>, <<-1>>), Data("more", <<3, 3>>, <<0>>),
     Data("more_equal", <<-2, -1>>, <<0>>), Data("more_equal", <<-2, -2>>, <<-1>>),
     Data("u_less", <<-1, 0>>, <<0>>), Data("u_less", <<0, -1>>, <<-1>>),
     Data("u_less", <<-1, -2>>, <<0>>), Data("u_less", <<-2, -1>>, <<-1>>),
     Data("u_less", <<-3, -3>>, <<0>>), Data("u_less_equal", <<-1, 0>>, <<0>>),
     Data("u_less_equal", <<0, -1>>, <<-1>>), Data("u_less_equal", <<-1, -2>>, <<0>>),
     Data("u_less_equal", <<-2, -1>>, <<-1>>), Data("u_less_equal", <<-3, -3>>, <<-1>>),
     Data("u_more", <<-1, 0>>, <<-1>>), Data("u_more", <<0, -1>>, <<0>>),
     Data("u_more", <<-1, -2>>, <<-1>>), Data("u_more", <<-2, -1>>, <<0>>),
     Data("u_more", <<-3, -3>>, <<0>>), Data("u_more_equal", <<-1, 0>>, <<-1>>),
     Data("u_more_equal", <<0, -1>>, <<0>>), Data("u_more_equal", <<-1, -2>>, <<-1>>),
     Data("u_more_equal", <<-2, -1>>, <<0>>), Data("u_more_equal", <<-3, -3>>, <<-1>>),
     Data("within", <<0, 1, 4>>, <<0>>), Data("within", <<1, 1, 4>>, <<-1>>),
     Data("within", <<3, 1, 4>>, <<-1>>), Data("within", <<4, 1, 4>>, <<0>>),
     Data("within", <<-6, -5, -1>>, <<0>>), Data("within", <<-5, -5, -1>>, <<-1>>),
     Data("within", <<-2, -5, -1>>, <<-1>>), Data("within", <<-1, -5, -1>>, <<0>>),
     Data("within", <<-9, -2, -8>>, <<-1>>), Data("within", <<-8, -2, -8>>, <<0>>),
     Data("within", <<-7, -2, -8>>, <<0>>), Data("within", <<-3, -2, -8>>, <<0>>),
     Data("within", <<-2, -2, -8>>, <<-1>>), Data("within", <<-1, -2, -8>>, <<-1>>) >>

\* The return stack.
TestsReturnStack ==
  << Both(<<"to_r">>, <<99>>, <<>>, <<>>, <<99>>), Both(<<"i">>, <<>>, <<9>>, <<9>>, <<9>>),
     Both(<<"i_times">>, <<2>>, <<9>>, <<18>>, <<9>>), Both(<<"i_plus">>, <<2>>, <<9>>, <<11>>, <<9>>),
     Both(<<"i_minus">>, <<2>>, <<9>>, <<-7>>, <<9>>),
     Both(<<"i_prime">>, <<>>, <<10, 11>>, <<10>>, <<10, 11>>),
     Both(<<"j">>, <<>>, <<12, 13, 14>>, <<12>>, <<12, 13, 14>>),
     Both(<<"r_fetch">>, <<>>, <<4>>, <<4>>, <<4>>), Both(<<"r_store">>, <<11>>, <<0>>, <<>>, <<11>>),
     Both(<<"r_plus_store">>, <<30>>, <<4>>, <<>>, <<34>>),
     Both(<<"r_from">>, <<>>, <<99>>, <<99>>, <<>>), Both(<<"dup_to_r">>, <<33>>, <<>>, <<33>>, <<33>>),
     Both(<<"r_from_drop">>, <<>>, <<99>>, <<>>, <<>>) >>

\* Conditional jumps.
TestsBranches ==
  << Both(<<"do">>, <<0, 1>>, <<>>, <<>>, <<0, 1>>), Both(<<"do">>, <<1, 0>>, <<>>, <<>>, <<1, 0>>),
     Both(<<"_q_do_", 0>>, <<0, 0>>, <<>>, <<>>, <<>>),
     Both(<<"_q_do_", 0>>, <<1, 0>>, <<>>, <<>>, <<1, 0>>),
     Both(<<"_q_if_", 1, "one">>, <<0>>, <<>>, <<0>>, <<>>),
     Both(<<"_q_if_", 1, "two">>, <<1>>, <<>>, <<1, 2>>, <<>>),
     Both(<<"_q_if0_", 1, "three">>, <<0>>, <<>>, <<0, 3>>, <<>>),
     Both(<<"_q_if0_", 1, "four">>, <<1>>, <<>>, <<1>>, <<>>),
     Both(<<"_if_", 1, "two">>, <<0>>, <<>>, <<>>, <<>>),
     Both(<<"_if_", 1, "four">>, <<1>>, <<>>, <<4>>, <<>>),
     Both(<<"_if0_", 1, "two">>, <<0>>, <<>>, <<2>>, <<>>),
     Both(<<"_if0_", 1, "three">>, <<1>>, <<>>, <<>>, <<>>),
     Both(<<"_else_", 1, "true">>, <<>>, <<>>, <<>>, <<>>) >>

\* Loops.
TestsLoops ==
  << Both(<<"_leave_", 0>>, <<>>, <<0, 1>>, <<>>, <<>>),
     Both(<<"_plus_loop_", 0>>, <<2>>, <<0, 0>>, <<>>, <<0, 2>>),
     Both(<<"_plus_loop_", 0>>, <<-1>>, <<0, 0>>, <<>>, <<>>),
     Both(<<"_plus_loop_", 0>>, <<-1>>, <<0, 1>>, <<>>, <<0, 0>>),
     Both(<<"_plus_loop_", 0>>, <<1>>, <<1, 0>>, <<>>, <<>>),
     Both(<<"_loop_", 0>>, <<>>, <<0, 0>>, <<>>, <<0, 1>>),
     Both(<<"_loop_", 0>>, <<>>, <<0, 1>>, <<>>, <<0, 2>>),
     Both(<<"_loop_", 0>>, <<>>, <<1, 0>>, <<>>, <<>>),
     Both(<<"do", "_loop_", -2>>, <<10, 0>>, <<>>, <<>>, <<>>),
     Both(<<"do", "i", "_loop_", -3>>, <<5, 0>>, <<>>, <<0, 1, 2, 3, 4>>, <<>>) >>

\* CASE.
TestsCase ==
  << Data("case", <<>>, <<>>), Both(<<"_of_", 1, "two">>, <<0, 1>>, <<>>, <<0>>, <<>>),
     Both(<<"_of_", 1, "three">>, <<1, 1>>, <<>>, <<3>>, <<>>),
     Both(<<"_endof_", 0, "four">>, <<>>, <<>>, <<4>>, <<>>),
     Both(<<"_endof_", 1, "five">>, <<>>, <<>>, <<>>, <<>>), Data("endcase", <<6>>, <<>>),
     Both(<<"case", "one", "_of_", 3, "minus_one", "_endof_", 3, "two_times", "zero", "endcase">>, <<1>>, <<>>, <<-1>>, <<>>),
     Both(<<"case", "one", "_of_", 3, "minus_one", "_endof_", 3, "two_times", "zero", "endcase">>, <<3>>, <<>>, <<6>>, <<>>) >>

\* The optimizer: tokens, and what is left of them after one pass or after all
\* passes at high priority.
Once(code, codeAfter) == [kind |-> "optimize once", code |-> code, codeAfter |-> codeAfter]
Repeated(code, codeAfter) == [kind |-> "optimize", code |-> code, codeAfter |-> codeAfter]
TestsOptimizer ==
  << Once(<<"noop">>, <<>>), Once(<<"two_drop">>, <<"drop", "drop">>), Once(<<"false">>, <<"zero">>),
     Once(<<"one_plus">>, <<"one_plus">>), Once(<<"swap", "drop">>, <<"nip">>),
     Once(<<"ne", "zero_more">>, <<"drop", "drop", "zero">>),
     Once(<<"r_from", "plus", "to_r">>, <<"r_plus_store">>), Once(<<"one", "minus">>, <<"one_minus">>),
     Once(<<"two", "times", "dup">>, <<"two_times", "dup">>),
     Once(<<"dup", "times", "exit">>, <<"squared", "exit">>),
     Once(<<"four", "times", "two", "times">>, <<"four_times", "two_times">>),
     Once(<<"dup", "times", "dup", "times">>, <<"squared", "squared">>),
     Repeated(<<"one", "times", "two", "times", "four", "times">>, <<"eight_times">>),
     Repeated(<<"one", "minus", "one", "minus", "four", "plus">>, <<"two_plus">>) >>

Tests == TestsArithmetic \o TestsStack \o TestsReach \o TestsTypes \o TestsFlags
           \o TestsReturnStack \o TestsBranches \o TestsLoops \o TestsCase
=============================================================================
