------------------------------ MODULE OptRules ------------------------------
(***************************************************************************)
(* The rewriting rules of the optimizer, include/opt_rules.mh, and those   *)
(* of low priority, (optimize-2token-lowprio) in forth/m64th/impl.S.       *)
(* A record maps the first token and the second one to the tokens that     *)
(* replace them.  Left out: rules whose tokens touch memory, HERE, IP or   *)
(* the local variables.                                                    *)
(***************************************************************************)
EXTENDS Integers, Sequences

\* OPT1_RULES: one token.
Opt1Rules ==
  [ two_drop |-> <<"drop", "drop">>, two_dup |-> <<"over", "over">>, cell_plus |-> <<"_SZ_plus">>,
    cells |-> <<"_SZ_times">>, char_plus |-> <<"one_plus">>, chars |-> <<>>, false |-> <<"zero">>,
    noop |-> <<>>, r_fetch |-> <<"i">>, true |-> <<"minus_one">> ]

\* OPT2_RULES: two tokens.
\* A constant and an operation on it.
ConstantRules ==
  [ minus_two |-> [
          times |-> <<"two_times", "negate">>, plus |-> <<"two_minus">>, minus |-> <<"two_plus">>,
          ne |-> <<"two_plus", "zero_ne">>, equal |-> <<"two_plus", "zero_equal">> ],
    minus_one |-> [
          times |-> <<"negate">>, plus |-> <<"one_minus">>, minus |-> <<"one_plus">>,
          div |-> <<"negate">>, div_mod |-> <<"negate", "zero">>, ne |-> <<"invert", "zero_ne">>,
          equal |-> <<"invert", "zero_equal">>, and |-> <<>>, mod |-> <<"drop", "zero">>,
          or |-> <<"drop", "minus_one">>, _continue_if_ |-> <<"_continue_">>,
          _until0_ |-> <<"_again_">>, xor |-> <<"invert">> ],
    zero |-> [
          times |-> <<"drop", "zero">>, minus |-> <<>>, plus |-> <<>>, less |-> <<"zero_less">>,
          less_equal |-> <<"zero_less_equal">>, ne |-> <<"zero_ne">>, equal |-> <<"zero_equal">>,
          more |-> <<"zero_more">>, more_equal |-> <<"zero_more_equal">>, and |-> <<"drop", "zero">>,
          two_roll |-> <<>>, minus_two_roll |-> <<>>, lshift |-> <<>>, or |-> <<>>, pick |-> <<"dup">>,
          roll |-> <<>>, minus_roll |-> <<>>, rshift |-> <<>>, u_less |-> <<"drop", "zero">>,
          u_less_equal |-> <<"zero_equal">>, u_more |-> <<"zero_ne">>,
          u_more_equal |-> <<"drop", "minus_one">>, _continue_if0_ |-> <<"_continue_">>,
          _until_ |-> <<"_again_">>, xor |-> <<>> ],
    one |-> [
          times |-> <<>>, plus |-> <<"one_plus">>, minus |-> <<"one_minus">>, div |-> <<>>,
          div_mod |-> <<"drop", "zero">>, ne |-> <<"one_minus", "zero_ne">>,
          equal |-> <<"one_minus", "zero_equal">>, two_roll |-> <<"two_swap">>,
          minus_two_roll |-> <<"two_swap">>, lshift |-> <<"two_times">>, mod |-> <<>>,
          pick |-> <<"over">>, roll |-> <<"swap">>, minus_roll |-> <<"swap">>,
          rshift |-> <<"u_two_div">>, _continue_if_ |-> <<"_continue_">>, _until0_ |-> <<"_again_">>,
          u_div |-> <<>> ],
    two |-> [
          times |-> <<"two_times">>, plus |-> <<"two_plus">>, minus |-> <<"two_minus">>,
          div |-> <<"two_sm_div">>, ne |-> <<"two_minus", "zero_ne">>,
          equal |-> <<"two_minus", "zero_equal">>, two_roll |-> <<"two_rot">>,
          minus_two_roll |-> <<"minus_two_rot">>, lshift |-> <<"four_times">>, pick |-> <<"hop">>,
          roll |-> <<"rot">>, minus_roll |-> <<"minus_rot">>, rshift |-> <<"u_four_div">>,
          u_div |-> <<"u_two_div">> ],
    three |-> [ drop |-> <<>>, lshift |-> <<"eight_times">>, rshift |-> <<"u_eight_div">> ],
    four |-> [
          times |-> <<"four_times">>, plus |-> <<"four_plus">>, minus |-> <<"four_minus">>,
          div |-> <<"four_sm_div">>, ne |-> <<"four_minus", "zero_ne">>,
          equal |-> <<"four_minus", "zero_equal">>, u_div |-> <<"u_four_div">> ],
    eight |-> [
          times |-> <<"eight_times">>, plus |-> <<"eight_plus">>, minus |-> <<"eight_minus">>,
          div |-> <<"eight_sm_div">>, ne |-> <<"eight_minus", "zero_ne">>,
          equal |-> <<"eight_minus", "zero_equal">>, lshift |-> <<"eight_lshift">>,
          rshift |-> <<"eight_rshift">>, u_div |-> <<"u_eight_div">> ] ]

\* Two additions, multiplications or divisions by a constant.
ShiftRules ==
  [ one_plus |-> [
          two_minus |-> <<"one_minus">>, one_minus |-> <<>>, one_plus |-> <<"two_plus">>,
          negate |-> <<"invert">> ],
    one_minus |-> [
          one_minus |-> <<"two_minus">>, one_plus |-> <<>>, two_plus |-> <<"one_plus">>,
          invert |-> <<"negate">> ],
    two_times |-> [ two_times |-> <<"four_times">>, four_times |-> <<"eight_times">> ],
    two_plus |-> [
          four_minus |-> <<"two_minus">>, two_minus |-> <<>>, one_minus |-> <<"one_plus">>,
          two_plus |-> <<"four_plus">> ],
    two_minus |-> [
          two_minus |-> <<"four_minus">>, one_plus |-> <<"one_minus">>, two_plus |-> <<>>,
          four_plus |-> <<"two_plus">> ],
    two_div |-> [ four_div |-> <<"eight_div">>, two_div |-> <<"four_div">> ],
    two_sm_div |-> [ four_sm_div |-> <<"eight_sm_div">>, two_sm_div |-> <<"four_sm_div">> ],
    four_times |-> [ two_times |-> <<"eight_times">> ],
    four_plus |-> [
          eight_minus |-> <<"four_minus">>, four_minus |-> <<>>, two_minus |-> <<"two_plus">>,
          four_plus |-> <<"eight_plus">> ],
    four_minus |-> [
          four_minus |-> <<"eight_minus">>, two_plus |-> <<"two_minus">>, four_plus |-> <<>>,
          eight_plus |-> <<"four_plus">> ],
    four_div |-> [ two_div |-> <<"four_div">> ],
    four_sm_div |-> [ two_sm_div |-> <<"four_sm_div">> ],
    eight_plus |-> [ eight_minus |-> <<>>, four_minus |-> <<"four_plus">> ],
    eight_minus |-> [ four_plus |-> <<"four_minus">>, eight_plus |-> <<>> ] ]

\* A comparison and a test of its flag; * / u/mod.
FlagRules ==
  [ zero_less |-> [
          zero_less |-> <<"zero_less">>, zero_less_equal |-> <<"drop", "minus_one">>,
          zero_ne |-> <<"zero_less">>, zero_equal |-> <<"zero_more_equal">>,
          zero_more |-> <<"drop", "zero">>, zero_more_equal |-> <<"zero_more_equal">>,
          invert |-> <<"zero_more_equal">> ],
    zero_less_equal |-> [
          zero_less |-> <<"zero_less">>, zero_less_equal |-> <<"drop", "minus_one">>,
          zero_ne |-> <<"zero_less">>, zero_equal |-> <<"zero_more">>,
          zero_more |-> <<"drop", "zero">>, zero_more_equal |-> <<"zero_more">>,
          invert |-> <<"zero_more">> ],
    zero_ne |-> [
          zero_less |-> <<"zero_less">>, zero_less_equal |-> <<"drop", "minus_one">>,
          zero_ne |-> <<"zero_ne">>, zero_equal |-> <<"zero_equal">>, zero_more |-> <<"drop", "zero">>,
          zero_more_equal |-> <<"zero_equal">>, _if_ |-> <<"_if_">>, _if0_ |-> <<"_if0_">>,
          _until_ |-> <<"_until_">>, _until0_ |-> <<"_until0_">>, _while_ |-> <<"_while_">>,
          _while0_ |-> <<"_while0_">>, invert |-> <<"zero_equal">> ],
    zero_equal |-> [
          zero_less |-> <<"zero_less">>, zero_less_equal |-> <<"drop", "minus_one">>,
          zero_ne |-> <<"zero_equal">>, zero_equal |-> <<"zero_ne">>, zero_more |-> <<"drop", "zero">>,
          zero_more_equal |-> <<"zero_ne">>, _if_ |-> <<"_if0_">>, _if0_ |-> <<"_if_">>,
          _continue_if_ |-> <<"_continue_if0_">>, _continue_if0_ |-> <<"_continue_if_">>,
          _until_ |-> <<"_until0_">>, _until0_ |-> <<"_until_">>, _while_ |-> <<"_while0_">>,
          _while0_ |-> <<"_while_">>, invert |-> <<"zero_ne">> ],
    zero_more |-> [
          zero_less |-> <<"zero_less">>, zero_less_equal |-> <<"drop", "minus_one">>,
          zero_ne |-> <<"zero_more">>, zero_equal |-> <<"zero_less_equal">>,
          zero_more |-> <<"drop", "zero">>, zero_more_equal |-> <<"zero_less_equal">>,
          invert |-> <<"zero_less_equal">> ],
    zero_more_equal |-> [
          zero_less |-> <<"zero_less">>, zero_less_equal |-> <<"drop", "minus_one">>,
          zero_ne |-> <<"zero_more_equal">>, zero_equal |-> <<"zero_less">>,
          zero_more |-> <<"drop", "zero">>, zero_more_equal |-> <<"zero_less">>,
          invert |-> <<"zero_less">> ],
    times |-> [ negate |-> <<"negate", "times">> ],
    div |-> [ negate |-> <<"negate", "div">> ],
    div_mod |-> [ drop |-> <<"mod">>, nip |-> <<"div">> ],
    less |-> [
          invert |-> <<"more_equal">>, zero_less |-> <<"less">>,
          zero_less_equal |-> <<"drop", "drop", "minus_one">>, zero_ne |-> <<"less">>,
          zero_equal |-> <<"more_equal">>, zero_more |-> <<"drop", "drop", "zero">>,
          zero_more_equal |-> <<"more_equal">> ],
    less_equal |-> [
          invert |-> <<"more">>, zero_less |-> <<"less_equal">>,
          zero_less_equal |-> <<"drop", "drop", "minus_one">>, zero_ne |-> <<"less_equal">>,
          zero_equal |-> <<"more">>, zero_more |-> <<"drop", "drop", "zero">>,
          zero_more_equal |-> <<"more">> ],
    ne |-> [
          invert |-> <<"equal">>, zero_less |-> <<"ne">>,
          zero_less_equal |-> <<"drop", "drop", "minus_one">>, zero_ne |-> <<"ne">>,
          zero_equal |-> <<"equal">>, zero_more |-> <<"drop", "drop", "zero">>,
          zero_more_equal |-> <<"equal">> ],
    equal |-> [
          invert |-> <<"ne">>, zero_less |-> <<"equal">>,
          zero_less_equal |-> <<"drop", "drop", "minus_one">>, zero_ne |-> <<"equal">>,
          zero_equal |-> <<"ne">>, zero_more |-> <<"drop", "drop", "zero">>,
          zero_more_equal |-> <<"ne">> ],
    more |-> [
          invert |-> <<"less_equal">>, zero_less |-> <<"more">>,
          zero_less_equal |-> <<"drop", "drop", "minus_one">>, zero_ne |-> <<"more">>,
          zero_equal |-> <<"less_equal">>, zero_more |-> <<"drop", "drop", "zero">>,
          zero_more_equal |-> <<"less_equal">> ],
    more_equal |-> [
          invert |-> <<"less">>, zero_less |-> <<"more_equal">>,
          zero_less_equal |-> <<"drop", "drop", "minus_one">>, zero_ne |-> <<"more_equal">>,
          zero_equal |-> <<"less">>, zero_more |-> <<"drop", "drop", "zero">>,
          zero_more_equal |-> <<"less">> ],
    u_less |-> [ invert |-> <<"u_more_equal">> ],
    u_less_equal |-> [ invert |-> <<"u_more">> ],
    u_more |-> [ invert |-> <<"u_less_equal">> ],
    u_more_equal |-> [ invert |-> <<"u_less">> ],
    u_div_mod |-> [ nip |-> <<"u_div">> ] ]

\* Words on one or two stacks, up to dup.
StackRulesA ==
  [ two_to_r |-> [ two_r_from |-> <<>> ],
    two_over |-> [
          nip |-> <<"hop">>, drop |-> <<"three", "pick">>, two_nip |-> <<"drop", "drop", "two_dup">> ],
    two_r_from |-> [ two_to_r |-> <<>>, drop |-> <<"r_from_drop", "r_from">> ],
    two_r_fetch |-> [ drop |-> <<"r2nd_fetch">>, nip |-> <<"r_fetch">> ],
    two_rot |-> [
          two_nip |-> <<"two_drop", "two_swap">>, two_rot |-> <<"minus_two_rot">>,
          minus_two_rot |-> <<>> ],
    minus_two_rot |-> [ two_rot |-> <<>>, minus_two_rot |-> <<"two_rot">> ],
    two_swap |-> [ two_nip |-> <<"drop", "drop">>, two_swap |-> <<>> ],
    to_r |-> [ r_fetch |-> <<"dup_to_r">>, r_from |-> <<>> ],
    plus |-> [ negate |-> <<"negate", "sub">> ],
    minus |-> [ negate |-> <<"sub">> ],
    aligned |-> [
          aligned |-> <<"aligned">>, int_aligned |-> <<"aligned">>, short_aligned |-> <<"aligned">> ],
    int_aligned |-> [
          aligned |-> <<"aligned">>, int_aligned |-> <<"int_aligned">>,
          short_aligned |-> <<"int_aligned">> ],
    short_aligned |-> [
          aligned |-> <<"aligned">>, int_aligned |-> <<"int_aligned">>,
          short_aligned |-> <<"short_aligned">> ],
    abs |-> [
          zero_ne |-> <<"zero_ne">>, zero_equal |-> <<"zero_equal">>, abs |-> <<"abs">>,
          squared |-> <<"squared">> ],
    case |-> [ endcase |-> <<"drop">> ],
    dup |-> [
          _if_ |-> <<"_q_if_">>, _if0_ |-> <<"_q_if0_">>, _continue_if_ |-> <<"_q_continue_if_">>,
          _continue_if0_ |-> <<"_q_continue_if0_">>, _until_ |-> <<"_q_until_">>,
          _until0_ |-> <<"_q_until0_">>, _while_ |-> <<"_q_while_">>, _while0_ |-> <<"_q_while0_">>,
          times |-> <<"squared">>, plus |-> <<"two_times">>, minus |-> <<"drop", "zero">>,
          div |-> <<"drop", "one">>, less |-> <<"drop", "zero">>,
          less_equal |-> <<"drop", "minus_one">>, ne |-> <<"drop", "zero">>,
          equal |-> <<"drop", "minus_one">>, more |-> <<"drop", "zero">>,
          more_equal |-> <<"drop", "minus_one">>, to_r |-> <<"dup_to_r">>, and |-> <<>>, drop |-> <<>>,
          max |-> <<>>, min |-> <<>>, mod |-> <<"drop", "zero">>, nip |-> <<>>, or |-> <<>>,
          over |-> <<"dup", "dup">>, u_less |-> <<"drop", "zero">>,
          u_less_equal |-> <<"drop", "minus_one">>, u_more |-> <<"drop", "zero">>,
          u_more_equal |-> <<"drop", "minus_one">>, minus_rot |-> <<"tuck">>,
          rot |-> <<"dup", "flip">>, sub |-> <<"drop", "zero">>, swap |-> <<"dup">>,
          trail |-> <<"dup", "dup">>, tuck |-> <<"dup", "dup">>, xor |-> <<"drop", "zero">> ] ]

\* Words on one or two stacks, from flip on.
StackRulesB ==
  [ flip |-> [
          flip |-> <<>>, nip |-> <<"nip", "swap">>, minus_rot |-> <<"swap">>,
          rot |-> <<"rot", "swap">>, swap |-> <<"minus_rot">> ],
    hop |-> [ drop |-> <<>>, nip |-> <<"drop", "over">> ],
    i |-> [ drop |-> <<>>, times |-> <<"i_times">>, plus |-> <<"i_plus">>, minus |-> <<"i_minus">> ],
    i_plus |-> [ r_store |-> <<"r_plus_store">> ],
    invert |-> [
          zero_less |-> <<"zero_more_equal">>, zero_more_equal |-> <<"zero_less">>,
          one_plus |-> <<"negate">>, invert |-> <<>>, negate |-> <<"one_plus">> ],
    negate |-> [
          _if_ |-> <<"_if_">>, _if0_ |-> <<"_if0_">>, _continue_if_ |-> <<"_continue_if_">>,
          _continue_if0_ |-> <<"_continue_if0_">>, _until_ |-> <<"_until_">>,
          _until0_ |-> <<"_until0_">>, _while_ |-> <<"_while_">>, _while0_ |-> <<"_while0_">>,
          plus |-> <<"minus">>, minus |-> <<"plus">>, one_minus |-> <<"invert">>,
          zero_ne |-> <<"zero_ne">>, zero_equal |-> <<"zero_equal">>, abs |-> <<"abs">>,
          negate |-> <<>>, invert |-> <<"one_minus">>, squared |-> <<"squared">> ],
    over |-> [
          plus |-> <<"bounds", "swap">>, minus |-> <<"trail", "sub">>, drop |-> <<>>,
          flip |-> <<"over">>, hop |-> <<"over", "dup">>, nip |-> <<"drop", "dup">>,
          minus_rot |-> <<"trail">>, rot |-> <<"swap", "dup">>, swap |-> <<"trail">> ],
    pick |-> [ drop |-> <<"drop">> ],
    r_from |-> [ to_r |-> <<>>, drop |-> <<"r_from_drop">> ],
    r_from_drop |-> [ to_r |-> <<"r_store">>, r_from_drop |-> <<"two_r_from_two_drop">> ],
    rot |-> [
          flip |-> <<"swap">>, nip |-> <<"drop", "swap">>, rot |-> <<"minus_rot">>,
          minus_rot |-> <<>> ],
    minus_rot |-> [
          drop |-> <<"nip", "swap">>, nip |-> <<"flip", "drop">>, over |-> <<"flip", "tuck">>,
          rot |-> <<>>, minus_rot |-> <<"rot">>, flip |-> <<"swap", "minus_rot">>,
          tuck |-> <<"flip", "over">> ],
    sub |-> [ negate |-> <<"minus">> ],
    swap |-> [
          times |-> <<"times">>, plus |-> <<"plus">>, minus |-> <<"sub">>, less |-> <<"more">>,
          less_equal |-> <<"more_equal">>, ne |-> <<"ne">>, equal |-> <<"equal">>, flip |-> <<"rot">>,
          more |-> <<"less_equal">>, more_equal |-> <<"less_equal">>, and |-> <<"and">>,
          drop |-> <<"nip">>, max |-> <<"max">>, min |-> <<"min">>, nip |-> <<"drop">>,
          or |-> <<"or">>, over |-> <<"tuck">>, rot |-> <<"flip">>, sub |-> <<"minus">>, swap |-> <<>>,
          tuck |-> <<"over">>, u_less |-> <<"u_more">>, u_less_equal |-> <<"u_more_equal">>,
          u_more |-> <<"u_less">>, u_more_equal |-> <<"u_less_equal">>, xor |-> <<"xor">> ],
    trail |-> [
          plus |-> <<"bounds", "swap">>, drop |-> <<"drop", "dup">>, nip |-> <<>>, rot |-> <<"over">>,
          swap |-> <<"over">>, tuck |-> <<"over", "over">> ],
    tuck |-> [
          drop |-> <<"swap">>, hop |-> <<"tuck", "dup">>, nip |-> <<"nip", "dup">>, rot |-> <<"dup">>,
          minus_rot |-> <<"dup">> ],
    xor |-> [ invert |-> <<"invert", "xor">> ] ]

\* Two tokens, at low priority: they undo rules above, or join a comparison
\* and a jump.
LowPriorityRules ==
  [ drop |-> [ drop |-> <<"two_drop">> ],
    over |-> [ over |-> <<"two_dup">> ],
    less |-> [ _if_ |-> <<"_if_less_">>, _if0_ |-> <<"_if_more_equal_">> ],
    less_equal |-> [ _if_ |-> <<"_if_less_equal_">>, _if0_ |-> <<"_if_more_">> ],
    ne |-> [ _if_ |-> <<"_if_ne_">>, _if0_ |-> <<"_if_equal_">> ],
    equal |-> [ _if_ |-> <<"_if_equal_">>, _if0_ |-> <<"_if_ne_">> ],
    more |-> [ _if_ |-> <<"_if_more_">>, _if0_ |-> <<"_if_less_equal_">> ],
    more_equal |-> [ _if_ |-> <<"_if_more_equal_">>, _if0_ |-> <<"_if_less_">> ] ]

\* OPT3_RULES: three tokens.  (lit) T(n) is one token here.
Opt3Rules ==
  { <<<<"lit_256", "times">>, <<"eight_lshift">>>>, <<<<"lit_256", "u_div">>, <<"eight_rshift">>>>,
    <<<<"lit_255", "and">>, <<"to_char">>>>, <<<<"two_swap", "drop", "drop">>, <<"two_nip">>>>,
    <<<<"to_r", "dup", "r_from">>, <<"trail">>>>, <<<<"to_r", "over", "r_from">>, <<"hop", "swap">>>>,
    <<<<"r_from", "plus", "to_r">>, <<"r_plus_store">>>>,
    <<<<"minus_two_rot", "drop", "drop">>, <<"two_nip", "two_swap">>>>,
    <<<<"over", "trail", "two_nip">>, <<"swap">>>>,
    <<<<"over", "trail", "two_swap">>, <<"tuck", "trail">>>>,
    <<<<"over", "trail", "swap">>, <<"two_dup">>>>,
    <<<<"over", "over", "two_to_r">>, <<"two_dup_two_to_r">>>>,
    <<<<"over", "over", "two_nip">>, <<>>>>,
    <<<<"over", "over", "two_over">>, <<"two_dup", "two_dup">>>>,
    <<<<"over", "over", "two_swap">>, <<"over", "over">>>> }

\* (optimize-4token).
Opt4Rules ==
  { <<<<"over", "over", "less", "choose">>, <<"min">>>>, <<<<"over", "over", "less_equal", "choose">>, <<"min">>>>,
    <<<<"over", "over", "more", "choose">>, <<"max">>>>, <<<<"over", "over", "more_equal", "choose">>, <<"max">>>> }

\* (optimize-3jump), (optimize-4jump), (optimize-5token), (optimize-7token).  They
\* match any operand; these are the operands (compile-jump) and (resolve-jump)
\* give to if else then.  [recompile] resolves the jumps that are left.
Jumping == {"_if_", "_if0_", "_q_if_", "_q_if0_", "_else_", "_continue_"}
DropElseNip(if) == <<if, "drop", "_else_", "nip", "then">>
NipElseDrop(if) == <<if, "nip", "_else_", "drop", "then">>
JumpPatterns ==
  { <<<<"_if_", "then">>, <<0>>, <<"drop">>>>, <<<<"_if0_", "then">>, <<0>>, <<"drop">>>>,
    <<<<"_q_if_", "then">>, <<0>>, <<>>>>, <<<<"_q_if0_", "then">>, <<0>>, <<>>>>,
    <<<<"_else_", "then">>, <<0>>, <<"then">>>>,
    <<<<"_if_", "_else_">>, <<2>>, <<"_if0_">>>>, <<<<"_if0_", "_else_">>, <<2>>, <<"_if_">>>>,
    <<<<"_q_if_", "_else_">>, <<2>>, <<"_q_if0_">>>>, <<<<"_q_if0_", "_else_">>, <<2>>, <<"_q_if_">>>>,
    <<<<"_q_if_", "dup", "then">>, <<1>>, <<"question_dup">>>>,
    <<<<"_if_", "_continue_", "then">>, <<2, 100>>, <<"_continue_if_">>>>,
    <<<<"_if0_", "_continue_", "then">>, <<2, 100>>, <<"_continue_if0_">>>>,
    <<<<"_q_if_", "_continue_", "then">>, <<2, 100>>, <<"_q_continue_if_">>>>,
    <<<<"_q_if0_", "_continue_", "then">>, <<2, 100>>, <<"_q_continue_if0_">>>>,
    <<DropElseNip("_if_"), <<3, 2>>, <<"choose">>>>, <<DropElseNip("_if0_"), <<3, 2>>, <<"zero_equal", "choose">>>>,
    <<NipElseDrop("_if_"), <<3, 2>>, <<"zero_equal", "choose">>>>, <<NipElseDrop("_if0_"), <<3, 2>>, <<"choose">>>>,
    <<DropElseNip("_q_if_"), <<3, 2>>, <<"dup", "choose">>>>,
    <<DropElseNip("_q_if0_"), <<3, 2>>, <<"dup", "zero_equal", "choose">>>>,
    <<NipElseDrop("_q_if_"), <<3, 2>>, <<"dup", "zero_equal", "choose">>>>,
    <<NipElseDrop("_q_if0_"), <<3, 2>>, <<"dup", "choose">>>> }

\* The rules with operands, to be run; an operand at the end leads out of the code.
Interleave(tokens, operands) ==
  LET Cells[k \in 0 .. Len(tokens)] ==
        IF k = 0 THEN <<>>
        ELSE LET nth == Len(SelectSeq(SubSeq(tokens, 1, k), LAMBDA t : t \in Jumping))
             IN Cells[k - 1] \o <<tokens[k]>> \o (IF tokens[k] \in Jumping /\ nth <= Len(operands) THEN <<operands[nth]>> ELSE <<>>)
  IN Cells[Len(tokens)]
JumpRules == {<<Interleave(p[1], p[2]), p[3]>> : p \in JumpPatterns}

\* All rules, as pairs of what is replaced and what replaces it.
Pairs1(table) == {<<<<a>>, table[a]>> : a \in DOMAIN table}
Pairs2(table) == UNION {{<<<<a, b>>, table[a][b]>> : b \in DOMAIN table[a]} : a \in DOMAIN table}
Opt2Rules ==
  UNION {Pairs2(ConstantRules), Pairs2(ShiftRules), Pairs2(FlagRules), Pairs2(StackRulesA), Pairs2(StackRulesB)}

LowRules == Pairs2(LowPriorityRules)                                             \* M6OPTS_PRIO_LOW
OnePriority ==    \* mutation of HighRules: the rules of low priority are not kept for later
  Pairs1(Opt1Rules) \union Opt2Rules \union Opt3Rules \union Opt4Rules \union LowRules
HighRules == Pairs1(Opt1Rules) \union Opt2Rules \union Opt3Rules \union Opt4Rules   \* M6OPTS_PRIO_HIGH
=============================================================================
