------------------------------- MODULE Compile -------------------------------
(***************************************************************************)
(* The machine with the words that read and write text, and the compiler:  *)
(* (eval) takes names from the input and compiles or executes them, and ;  *)
(* optimizes the word with [optimize] and [recompile].  Besides the jobs   *)
(* of Machine there are                                                    *)
(*  - the tests of t/testexecute.c, t/testio.c about text;                 *)
(*  - the tests of t/testcompile.c: a line, and what it must compile;      *)
(*  - programs: a line ending with ; whose code runs from the same stacks  *)
(*    before and after the optimizer;                                      *)
(*  - printing a number with . or u. and reading it back;                  *)
(*  - reading any short text as a number;                                  *)
(*  - compiling a number with literal.                                     *)
(***************************************************************************)
EXTENDS Machine, CompileVectors

CONSTANTS
  Programs, ProgramStacks,        \* lines, and the data stacks their words start from
  PrintedNumbers, PrintBases,     \* what . and u. print
  ReadTexts, ReadBases,           \* the texts string>number reads
  LiteralNumbers                  \* the numbers literal compiles

VARIABLES
  text,      \* memory: what addresses refer to, or the pictured numeric output
  in, out,   \* what is left of the input, the output
  base,
  word       \* the word being compiled and the control stack: code, here, cs, ok
extra == <<text, in, out, base, word>>
allVars == <<vars, extra>>

NoWord == [code |-> <<>>, here |-> 0, cs |-> <<>>, ok |-> TRUE]

-----------------------------------------------------------------------------
\* Words and tokens about text.
UseText ==
  /\ Token \in DOMAIN Arguments /\ D(Arguments[Token])
  /\ LeavesData(Below(d, Arguments[Token]) \o TextWord(Token, Top(d, Arguments[Token]), text, base))
  /\ UNCHANGED extra

PushOperand ==
  \/ Token = "_lit_" /\ JumpsIf(FALSE, Append(d, Operand), r) /\ UNCHANGED extra
  \/ Token = "_do_" /\ D(2) /\ JumpsIf(FALSE, Below(d, 2), r \o Top(d, 2)) /\ UNCHANGED extra

UseBase ==
  \/ /\ Token \in {"decimal", "hex"} /\ LeavesData(d)
     /\ base' = IF Token = "hex" THEN 16 ELSE 10
     /\ UNCHANGED <<text, in, out, word>>
  \/ Token = "base_fetch" /\ LeavesData(Append(d, base)) /\ UNCHANGED extra

\* Pictured numeric output.
Holds(ch, ds) ==
  /\ ~Full(text) /\ text' = Hold(text, ch) /\ LeavesData(ds)
  /\ UNCHANGED <<in, out, base, word>>
HoldChar == Token = "hold" /\ D(1) /\ Holds(LowUnsigned(top, 8), Below(d, 1))

UToD == Token = "u_to_d" /\ LeavesData(Append(d, 0)) /\ UNCHANGED extra

\* # ( du -- du' ) and one turn of #s ( du -- 0 0 ).
Number == U(second) + U(top) * 2^CellBits
Rest == Number \div base
Divided == Below(d, 2) \o <<Cell(Rest % 2^CellBits), Cell(Rest \div 2^CellBits)>>
Num ==
  /\ Token \in {"num", "num_s"} /\ D(2) /\ base > 0 /\ ~Full(text)
  /\ text' = Hold(text, UToChar(Number % base)) /\ d' = Divided
  /\ ip' = IF Token = "num_s" /\ Rest # 0 THEN ip ELSE ip + 1
  /\ UNCHANGED <<job, phase, code, r, fault, goal, excused, in, out, base, word>>

Sign ==
  /\ Token = "sign" /\ D(1)
  /\ IF top < 0 THEN Holds(Code["-"], Below(d, 1)) ELSE LeavesData(Below(d, 1)) /\ UNCHANGED extra

Picture ==
  \/ Token = "num_start" /\ text' = <<>> /\ LeavesData(d) /\ UNCHANGED <<in, out, base, word>>
  \/ Token = "num_end" /\ D(2) /\ LeavesData(Below(d, 2) \o <<0, Len(text)>>) /\ UNCHANGED extra

\* throw, a full pictured output, a division by base 0.
TextFault ==
  \/ Token = "throw" /\ D(1) /\ top = 0 /\ LeavesData(Below(d, 1)) /\ UNCHANGED extra
  \/ /\ \/ Token = "throw" /\ D(1) /\ top # 0
        \/ Token \in {"hold", "num", "num_s"} /\ Full(text)
        \/ Token = "sign" /\ D(1) /\ top < 0 /\ Full(text)
        \/ Token \in {"num", "num_s"} /\ base = 0
     /\ fault' = TRUE
     /\ UNCHANGED <<job, phase, code, ip, d, r, goal, excused, extra>>

Outputs(chars, ds) == out' = out \o chars /\ LeavesData(ds) /\ UNCHANGED <<text, in, base, word>>
Output ==
  \/ Token = "type" /\ D(2) /\ Outputs(SubSeq(text, second + 1, second + top), Below(d, 2))
  \/ Token = "emit" /\ D(1) /\ Outputs(<<LowUnsigned(top, 8)>>, Below(d, 1))
  \/ Token = "cr" /\ Outputs(<<LF>>, d)
  \/ Token = "space" /\ Outputs(<<Code[" "]>>, d)
  \/ Token = "spaces" /\ D(1) /\ Outputs([k \in 1 .. top |-> Code[" "]], Below(d, 1))

\* Words that consume input; the text they leave is in the input buffer.
FromInput(ds, consumed) ==
  /\ text' = in /\ in' = SubSeq(in, consumed + 1, Len(in)) /\ LeavesData(ds)
  /\ UNCHANGED <<out, base, word>>
Input ==
  LET blanks == StringFindNonblank(in, 0, Len(in))
      name == StringFindBlank(in, blanks, Len(in) - blanks)
  IN \/ Token = "parse_name" /\ FromInput(d \o <<blanks, name>>, blanks + name)
     \/ Token = "ibuf_skip_blanks" /\ FromInput(d, blanks)
     \/ Token = "ibuf_skip_1blank" /\ FromInput(d, IF blanks = 0 THEN 0 ELSE 1)
     \/ /\ Token = "ibuf_find_char" /\ D(1)
        /\ LET found == StringFindChar(in, 0, Len(in), top)
           IN FromInput(Below(d, 1) \o <<0, found>>, IF found = Len(in) THEN found ELSE found + 1)

TextStep ==
  UseText \/ PushOperand \/ UseBase \/ HoldChar \/ UToD \/ Num \/ Sign \/ Picture \/ TextFault \/ Output \/ Input

\* . or u. has printed: read what it printed.
ReadBack ==
  /\ Halted /\ job.kind = "print" /\ phase = "source"
  /\ phase' = "result" /\ code' = <<"string_to_number">> /\ ip' = 1
  /\ text' = Below(out, 1) /\ d' = <<0, Len(out) - 1>>
  /\ UNCHANGED <<job, r, fault, goal, excused, in, out, base, word>>

-----------------------------------------------------------------------------
\* The names the lines use: what compile, appends for them, or what they execute.
Compiled ==
  { <<"!", "store">>, <<"*", "times">>, <<"+", "plus">>, <<"-", "minus">>, <<"/", "div">>, <<"<>", "ne">>,
    <<"=", "equal">>, <<"0<>", "zero_ne">>, <<"0=", "zero_equal">>, <<"<", "less">>, <<"<=", "less_equal">>,
    <<">", "more">>, <<">=", "more_equal">>, <<"u<", "u_less">>, <<"u<=", "u_less_equal">>, <<"u>", "u_more">>,
    <<"u>=", "u_more_equal">>, <<"0<", "zero_less">>, <<"0<=", "zero_less_equal">>, <<"0>", "zero_more">>,
    <<"0>=", "zero_more_equal">>, <<"/mod", "div_mod">>, <<"drop", "drop">>, <<"false", "false">>,
    <<"true", "true">>, <<"?dup", "question_dup">>, <<"dup", "dup">>, <<"exit", "exit">>,
    <<"string=", "string_equal">>, <<"string-ci=", "string_ci_equal">>, <<"c,", "c_comma">>,
    <<"short,", "short_comma">>, <<"int,", "int_comma">>, <<",", "comma">>, <<"i", "i">>, <<"1+", "one_plus">>,
    <<"1-", "one_minus">>, <<"cell+", "cell_plus">>, <<"cells", "cells">>, <<"char+", "char_plus">>,
    <<"chars", "chars">>, <<"noop", "noop">>, <<"swap", "swap">>, <<"rshift", "rshift">>, <<"u/", "u_div">>,
    <<"and", "and">>, <<"over", "over">>, <<"choose", "choose">>, <<"nip", "nip">>, <<"2dup", "two_dup">> }
CompiledInline ==
  { <<"string<>", <<"string_equal", "zero_equal">>, <<>>>>, <<"string-ci<>", <<"string_ci_equal", "zero_equal">>, <<>>>>,
    <<"valid-base?", <<"two", "_lit_", "within">>, <<37>>>> }
Immediate ==
  { <<"if", "_if_">>, <<"then", "then">>, <<"else", "_else_">>, <<"ahead", "_ahead_">>, <<"do", "_do_">>,
    <<"?do", "_q_do_">>, <<"loop", "_loop_">>, <<"+loop", "_plus_loop_">>, <<"leave", "_leave_">>,
    <<"begin", "begin">>, <<"again", "_again_">>, <<"until", "_until_">>, <<"while", "_while_">>,
    <<"repeat", "_repeat_">>, <<"case", "case">>, <<"of", "_of_">>, <<"endof", "_endof_">>,
    <<"endcase", "endcase">>, <<"fallthrough", "_fallthrough_">>, <<"recurse", "_recurse_">> }
Names == {p[1] : p \in Compiled \union CompiledInline \union Immediate}
Entry ==
  [name \in {Text(n) : n \in Names} |->
     IF \E p \in Immediate : Text(p[1]) = name
     THEN [immediate |-> TRUE, token |-> (CHOOSE p \in Immediate : Text(p[1]) = name)[2], cells |-> <<>>]
     ELSE [immediate |-> FALSE, token |-> "",
           cells |-> IF \E p \in Compiled : Text(p[1]) = name
                     THEN <<CW!Token((CHOOSE p \in Compiled : Text(p[1]) = name)[2])>>
                     ELSE LET p == CHOOSE p \in CompiledInline : Text(p[1]) = name IN WithOperands(p[2], p[3])]]

\* parse-name: what (eval) finds next in the input, and what it leaves.
NameAt == StringFindNonblank(in, 0, Len(in))
NameLength == StringFindBlank(in, NameAt, Len(in) - NameAt)
Name == [k \in 1 .. NameLength |-> ToLower(in[NameAt + k])]
AsNumber == StringToNumber(in, NameAt, NameLength, base)
Consumes == in' = SubSeq(in, NameAt + NameLength + 1, Len(in))

Evaluating == phase = "compiling"
Appended(cells) == [word EXCEPT !.code = @ \o cells, !.here = @ + Len(cells)]

\* literal ( x -- ): (optimize-literal) knows a token for x, or (lit) x.
LiteralOnly(x) == WithOperands(<<"_lit_">>, <<x>>)    \* mutation of LiteralCells: no tokens for numbers
LiteralCells(x) ==
  LET best == OptimizeLiteral(x)
  IN IF best[2] # 0 THEN <<CW!Token(TokenOf(best[1]))>> ELSE WithOperands(<<"_lit_">>, <<x>>)

Compiles(w) ==
  /\ Consumes /\ word' = w
  /\ UNCHANGED <<job, phase, code, ip, d, r, fault, goal, excused, text, out, base>>
\* An error ends the evaluation of the line; abort forgets the word.
Throws ==
  /\ phase' = "compiled" /\ in' = <<>> /\ d' = <<>> /\ word' = NoWord
  /\ UNCHANGED <<job, code, ip, r, fault, goal, excused, text, out, base>>

CompileName ==
  /\ Evaluating /\ Name \in DOMAIN Entry
  /\ LET entry == Entry[Name]
         after == CW!Execute(entry.token, word)
     IN IF ~entry.immediate THEN Compiles(Appended(entry.cells))
        ELSE IF after.ok THEN Compiles(after) ELSE Throws
CompileNumber ==
  /\ Evaluating /\ NameLength > 0 /\ Name \notin DOMAIN Entry \union {Text(";"), Text("literal")}
  /\ IF AsNumber[2] # 0 THEN Compiles(Appended(LiteralCells(AsNumber[1]))) ELSE Throws
CompileLiteral ==
  /\ Evaluating /\ Name = Text("literal") /\ D(1)
  /\ Consumes /\ word' = Appended(LiteralCells(top)) /\ d' = Below(d, 1)
  /\ UNCHANGED <<job, phase, code, ip, r, fault, goal, excused, text, out, base>>
EndOfLine ==
  /\ Evaluating /\ NameLength = 0
  /\ phase' = "compiled"
  /\ UNCHANGED <<job, code, ip, d, r, fault, goal, excused, extra>>

-----------------------------------------------------------------------------
\* ; finishes the word and optimizes it.  A program runs first.
WithoutExit(cells) == Below(cells, 1)
Flat(cells) == [k \in DOMAIN cells |-> IF cells[k].tok = "operand" THEN cells[k].offset ELSE cells[k].tok]
Finish ==
  /\ Evaluating /\ Name = Text(";")
  /\ IF ~CW!Is(word, "colon") THEN Throws
     ELSE /\ Consumes
          /\ word' = CW!DropSys(Appended(<<CW!Token("exit")>>))
          /\ IF job.kind = "program" THEN phase' = "source" /\ code' = Flat(word.code)
                                     ELSE phase' = "high" /\ code' = code
          /\ UNCHANGED <<job, ip, d, r, fault, goal, excused, text, out, base>>
OptimizeProgram ==
  /\ Halted /\ job.kind = "program" /\ phase = "source"
  /\ goal' = Outcome /\ phase' = "high" /\ Restart
  /\ UNCHANGED <<job, code, fault, excused, extra>>

\* Tokens with their operands; (lit) 255 and (lit) 256 are one token of the rules.
Places(cells) == SelectSeq([k \in DOMAIN cells |-> k], LAMBDA k : cells[k].tok # "operand")
HasOperand(t) == t \in CW!WithOneOperand \union Jumping
OperandOf(cells, k) == IF HasOperand(cells[k].tok) THEN cells[k + 1].offset ELSE 0
TokenName(cells, k) ==
  IF cells[k].tok = "_lit_" /\ OperandOf(cells, k) \in {255, 256}
  THEN IF OperandOf(cells, k) = 255 THEN "lit_255" ELSE "lit_256" ELSE cells[k].tok
CellsOf(t, operand) ==
  IF t \in {"lit_255", "lit_256"} THEN <<CW!Token("_lit_"), CW!Operand(Literals[t])>>
  ELSE <<CW!Token(t)>> \o IF HasOperand(t) THEN <<CW!Operand(operand)>> ELSE <<>>
LeftCells(cells, places, segments) ==
  LET CellsLeft(segment) ==
        LET Each[j \in 0 .. Len(segment.new)] ==
              IF j = 0 THEN <<>>
              ELSE Each[j - 1] \o CellsOf(segment.new[j], OperandOf(cells, places[segment.last]))
        IN Each[Len(segment.new)]
      Upto[k \in 0 .. Len(segments)] == IF k = 0 THEN <<>> ELSE Upto[k - 1] \o CellsLeft(segments[k])
  IN Upto[Len(segments)]

\* [optimize]: the passes of one priority; after the last one [recompile] resolves
\* the jumps again, from the first token, with the control stack ; leaves.
WordPass(priority, table, next) ==
  /\ phase = priority /\ job.kind \in {"compile", "program"}
  /\ \E places \in {Places(word.code)}:
     \E once \in {OptimizeOnce([k \in DOMAIN places |-> TokenName(word.code, places[k])], table)}:
     LET left == [word EXCEPT !.code = LeftCells(word.code, places, once)]
         more == Replaced(once) # {}
     IN /\ word' = IF more THEN left ELSE [left EXCEPT !.here = 0, !.cs = ColonSys]
        /\ excused' = (excused \/ Replaced(once) \intersect KnownWrong # {})
        /\ phase' = IF more THEN priority ELSE next
  /\ UNCHANGED <<job, code, ip, d, r, fault, goal, text, in, out, base>>
HighWordPass == WordPass("high", High, "recompile high")
LowWordPass == WordPass("low", Low, "recompile low")

RecompileToken ==
  /\ phase \in {"recompile high", "recompile low"} /\ word.ok /\ word.here < Len(word.code)
  /\ word' = CW!RecompileNext(word)
  /\ UNCHANGED <<job, phase, code, ip, d, r, fault, goal, excused, text, in, out, base>>
Recompiled ==
  /\ phase \in {"recompile high", "recompile low"} /\ word.ok /\ word.here = Len(word.code)
  /\ CW!Is(word, "colon") /\ word' = CW!DropSys(word)
  /\ \/ phase = "recompile high" /\ phase' = "low" /\ code' = code
     \/ phase = "recompile low" /\ job.kind = "compile" /\ phase' = "compiled" /\ code' = code
     \/ /\ phase = "recompile low" /\ job.kind = "program" /\ phase' = "result"
        /\ code' = Flat(WithoutExit(word.code))
  /\ UNCHANGED <<job, ip, d, r, fault, goal, excused, text, in, out, base>>

-----------------------------------------------------------------------------
TextTest(n) == [kind |-> "text", test |-> TextTests[n]]
CompileTestJob(n) == [kind |-> "compile", test |-> CompileTests[n]]
ProgramJob(line, ds, rs) == [kind |-> "program", line |-> line, d |-> ds, r |-> rs]
Printed(n, b, words) == [kind |-> "print", n |-> n, base |-> b, words |-> words]
Read(t, b) == [kind |-> "read", text |-> t, base |-> b]
LiteralJob(n) == [kind |-> "number", n |-> n]

With(t, i, o, b, w) == text = t /\ in = i /\ out = o /\ base = b /\ word = w
CompileInit ==
  \/ Init /\ With(<<>>, <<>>, <<>>, 10, NoWord)
  \/ \E n \in DOMAIN TextTests:
       LET t == TextTests[n]
       IN Starts(TextTest(n), "source", t.code, t.d, <<>>) /\ With(t.text, t.in, t.out, 10, NoWord)
  \/ \E n \in DOMAIN CompileTests:
       LET t == CompileTests[n]
       IN /\ Starts(CompileTestJob(n), "compiling", <<>>, t.d, <<>>)
          /\ With(<<>>, t.line, <<>>, 10, [NoWord EXCEPT !.cs = t.cs])
  \/ \E line \in Programs, ds \in ProgramStacks, rs \in RuleReturns:
       /\ Starts(ProgramJob(line, ds, rs), "compiling", <<>>, ds, rs)
       /\ With(<<>>, line, <<>>, 10, [NoWord EXCEPT !.cs = ColonSys])
  \/ \E n \in PrintedNumbers, b \in PrintBases, words \in {Dot, UDot}:
       Starts(Printed(n, b, words), "source", words, <<n>>, <<>>) /\ With(<<>>, <<>>, <<>>, b, NoWord)
  \/ \E t \in ReadTexts, b \in ReadBases:
       Starts(Read(t, b), "source", <<"string_to_number">>, <<0, Len(t)>>, <<>>) /\ With(t, <<>>, <<>>, b, NoWord)
  \/ \E n \in LiteralNumbers:
       Starts(LiteralJob(n), "compiling", <<>>, <<n>>, <<>>) /\ With(<<>>, Text("literal"), <<>>, 10, NoWord)

CompileBye ==
  /\ phase = "compiled" \/ (Halted /\ job.kind \in {"text", "read"})
  /\ UNCHANGED allVars
CompileNext ==
  \/ Next /\ UNCHANGED extra
  \/ Running /\ TextStep
  \/ ReadBack \/ CompileName \/ CompileNumber \/ CompileLiteral \/ EndOfLine \/ Finish
  \/ OptimizeProgram \/ HighWordPass \/ LowWordPass \/ RecompileToken \/ Recompiled \/ CompileBye
AllPasses == (Passes /\ UNCHANGED extra) \/ HighWordPass \/ LowWordPass
CompileSpec == CompileInit /\ [][CompileNext]_allVars /\ WF_allVars(AllPasses)

-----------------------------------------------------------------------------
\* The tests of the repository pass: tokens leave the stacks that t/testexecute.c
\* compares; a word about text also the input and the output that t/testio.c
\* compares; a line leaves the code, the control stack and the data stack that
\* m64th_testcompile compares, after the optimizer and the resolution of all jumps
\* if it ends with ;.
AllTestsPass ==
  /\ TestsPass
  /\ job.kind = "text" =>
       /\ ~fault
       /\ Halted => d = job.test.dAfter /\ in = job.test.inAfter /\ out = job.test.outAfter
  /\ (job.kind = "compile" /\ phase = "compiled") =>
       word.code = job.test.code /\ word.cs = job.test.csAfter /\ d = <<>>

\* What . and u. print in a base that valid-base? accepts, string>number reads as
\* the same number, and the pictured output never overflows; and it reads a text
\* as a number iff the text is written as one.
Digits(t, b) == Len(t) > 0 /\ \A k \in DOMAIN t : CharToU(t[k]) \in 0 .. b - 1
Valued(t, b) == LET V[k \in 0 .. Len(t)] == IF k = 0 THEN 0 ELSE V[k - 1] * b + CharToU(t[k]) IN V[Len(t)]
Prefixes == {<<<<>>, 0>>, <<Text("#"), 10>>, <<Text("$"), 16>>, <<Text("%"), 2>>}
Radix(p, b) == IF p[2] = 0 THEN b ELSE p[2]
Written(t, b) ==    \* the numbers the text is written as
  {c \in 0 .. 127 : t = <<Code["'"], c, Code["'"]>>}
  \union UNION {LET digits == SubSeq(t, k, Len(t))
                    before == p[1] \o IF s = -1 THEN Text("-") ELSE <<>>
                IN IF SubSeq(t, 1, k - 1) = before /\ Digits(digits, Radix(p, b))
                   THEN {Cell(s * Valued(digits, Radix(p, b)))} ELSE {} :
                p \in Prefixes, s \in {1, -1}, k \in 1 .. Len(t)}
NumbersRead ==
  /\ (job.kind = "print" /\ job.base \in 2 .. 36) =>
       ~fault /\ ((phase = "result" /\ Halted) => d = <<job.n, -1>>)
  /\ (job.kind = "read" /\ Halted) =>
       IF Written(job.text, job.base) = {} THEN d[2] = 0
       ELSE d[2] = -1 /\ Written(job.text, job.base) = {d[1]}

\* literal compiles a number, never another token.
LiteralsPushed ==
  (job.kind = "number" /\ phase = "compiled") =>
    \/ word.code = WithOperands(<<"_lit_">>, <<job.n>>)
    \/ \E t \in DOMAIN TokenNumber: word.code = <<CW!Token(t)>> /\ Literals[t] = job.n
=============================================================================
