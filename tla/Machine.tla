------------------------------ MODULE Machine ------------------------------
(***************************************************************************)
(* The interpreter runs one job, token after token, until the final bye:   *)
(*  - a test of t/testexecute.c: a sequence of tokens, the stacks before   *)
(*    and the stacks it must leave;                                        *)
(*  - a rule of the optimizer: what it replaces and then, from the same    *)
(*    stacks, its replacement;                                             *)
(*  - a word: its tokens, then the passes of [optimize], then what they    *)
(*    left, from the same stacks;                                          *)
(*  - a test of the optimizer: the passes, and the tokens they must leave; *)
(*  - a turn of a loop.                                                    *)
(* IP is an index in the code; operands are offsets from the operand's     *)
(* end, as in generic_asm/loop.S and amd64/loop.S.                         *)
(***************************************************************************)
EXTENDS Tokens, OptRules, TestVectors

CONSTANTS
  Amd64,                   \* TRUE: amd64/loop.S; FALSE: arm64/loop.S
  RuleStacks,              \* the data stacks and return stacks the rules start from
  RuleReturns,
  Words, WordStacks,       \* the words to be optimized, and the stacks they start from
  Turns                    \* the (+loop) jobs: step, limit and index

ASSUME MachineAssumption == Amd64 \in BOOLEAN

VARIABLES job, phase, code, ip, d, r, fault, goal, excused
vars == <<job, phase, code, ip, d, r, fault, goal, excused>>

Far == 100                 \* an offset out of the code, for the jumps of the rules
None == [d |-> <<>>, r |-> <<>>, far |-> FALSE]

-----------------------------------------------------------------------------
Running == phase \in {"source", "result"} /\ ~fault /\ ip <= Len(code)
Halted == phase \in {"source", "result"} /\ ~fault /\ ip > Len(code)
Token == Canonical(code[ip])
Operand == IF ip < Len(code) THEN code[ip + 1] ELSE Far

D(n) == Len(d) >= n
R(n) == Len(r) >= n
top == d[Len(d)]
second == d[Len(d) - 1]

\* NEXT(): the token has left these stacks; go to the next one.
Leaves(ds, rs) ==
  /\ d' = ds /\ r' = rs
  /\ ip' = ip + 1
  /\ UNCHANGED <<job, phase, code, fault, goal, excused>>
LeavesData(ds) == Leaves(ds, r)

\* RELJUMP() or a skipped operand.
JumpsIf(condition, ds, rs) ==
  /\ d' = ds /\ r' = rs
  /\ ip' = IF condition THEN ip + 2 + Operand ELSE ip + 2
  /\ UNCHANGED <<job, phase, code, fault, goal, excused>>

-----------------------------------------------------------------------------
\* Stacks and arithmetic.
Push == Token \in DOMAIN Literals /\ LeavesData(Append(d, Literals[Token]))

Shuffle ==
  /\ Token \in DOMAIN Moves
  /\ LET m == Moves[Token]
         cells == Top(d, m.dn) \o Top(r, m.rn)
         Chosen(places) == [k \in DOMAIN places |-> cells[places[k]]]
     IN D(m.dn) /\ R(m.rn) /\ Leaves(Below(d, m.dn) \o Chosen(m.dOut), Below(r, m.rn) \o Chosen(m.rOut))

Replace == Token \in DOMAIN Unary /\ D(1) /\ LeavesData(Append(Below(d, 1), Unary[Token][top]))

Combine == Token \in DOMAIN Binary /\ D(2) /\ LeavesData(Append(Below(d, 2), Binary[Token][second, top]))

CombineWithI ==
  Token \in DOMAIN WithI /\ D(1) /\ R(1) /\ LeavesData(Append(Below(d, 1), WithI[Token][top, r[Len(r)]]))

CombineMore ==
  \/ /\ Token \in DOMAIN Ternary /\ D(3)
     /\ LeavesData(Below(d, 3) \o Ternary[Token][d[Len(d) - 2], second, top])
  \/ Token \in DOMAIN Pairs /\ D(2) /\ LeavesData(Below(d, 2) \o Pairs[Token][second, top])
  \/ Token = "question_dup" /\ D(1) /\ LeavesData(Below(d, 1) \o QuestionDup(top))

Divide ==
  D(2) /\ \/ /\ Token \in DOMAIN Divisions /\ ~Traps(second, top)
             /\ LeavesData(Below(d, 2) \o Divisions[Token][second, top])
          \/ /\ Token \in DOMAIN UnsignedDivisions /\ top # 0
             /\ LeavesData(Below(d, 2) \o UnsignedDivisions[Token][second, top])

ReachInto ==
  /\ Token \in ReachingTokens /\ D(1)
  /\ top >= 0 /\ Reached(Token, top) < Len(d)
  /\ LeavesData(Reaching(Token, Below(d, 1), top))

Depth == Token = "depth" /\ LeavesData(Append(d, Len(d)))

ChangeI ==
  \/ Token = "r_plus_store" /\ D(1) /\ R(1) /\ Leaves(Below(d, 1), Append(Below(r, 1), Cell(r[Len(r)] + top)))
  \/ Token = "r_one_plus" /\ R(1) /\ Leaves(d, Append(Below(r, 1), Cell(r[Len(r)] + 1)))
  \/ Token = "r_one_minus" /\ R(1) /\ Leaves(d, Append(Below(r, 1), Cell(r[Len(r)] - 1)))

\* A division raises SIGFPE; pick and roll below the stack are undefined.
Fault ==
  /\ \/ D(2) /\ Token \in DOMAIN Divisions /\ Traps(second, top)
     \/ D(2) /\ Token \in DOMAIN UnsignedDivisions /\ top = 0
     \/ D(1) /\ Token \in ReachingTokens /\ (top < 0 \/ Reached(Token, top) >= Len(d))
  /\ fault' = TRUE
  /\ UNCHANGED <<job, phase, code, ip, d, r, goal, excused>>

-----------------------------------------------------------------------------
\* Jumps: which tokens jump, on what (include/func_alias.mh).
Always ==
  {"_jump_", "_else_", "_ahead_", "_endof_", "_fallthrough_", "_again_", "_repeat_", "_continue_"}
JumpIfZero == {"_if_", "_until_", "_while_", "_continue_if0_"}
JumpUnlessZero == {"_if0_", "_until0_", "_while0_", "_continue_if_"}
KeepJumpIfZero == {"_q_if_", "_q_until_", "_q_while_", "_q_continue_if0_"}
KeepJumpUnlessZero == {"_q_if0_", "_q_until0_", "_q_while0_", "_q_continue_if_"}

\* The comparing tokens jump unless the comparison holds.
ComparisonHolds(t, x, y) ==
  CASE t = "_if_less_" -> x < y
    [] t = "_if_less_equal_" -> x <= y
    [] t = "_if_ne_" -> x # y
    [] t = "_if_equal_" -> x = y
    [] t = "_if_more_" -> IF Amd64 THEN ~(x < y) ELSE x > y           \* cmovl
    [] t = "_if_more_equal_" -> IF Amd64 THEN ~(x <= y) ELSE x >= y   \* cmovle
Comparing == {"_if_less_", "_if_less_equal_", "_if_ne_", "_if_equal_", "_if_more_", "_if_more_equal_"}

Branch ==
  \/ Token \in Always /\ JumpsIf(TRUE, d, r)
  \/ Token \in JumpIfZero /\ D(1) /\ JumpsIf(top = 0, Below(d, 1), r)
  \/ Token \in JumpUnlessZero /\ D(1) /\ JumpsIf(top # 0, Below(d, 1), r)
  \/ Token \in KeepJumpIfZero /\ D(1) /\ JumpsIf(top = 0, d, r)
  \/ Token \in KeepJumpUnlessZero /\ D(1) /\ JumpsIf(top # 0, d, r)
  \/ Token \in Comparing /\ D(2) /\ JumpsIf(~ComparisonHolds(Token, second, top), Below(d, 2), r)

\* (of) ( x y -- x| )
Of ==
  /\ Token = "_of_" /\ D(2)
  /\ JumpsIf(second # top, Below(d, IF second = top THEN 2 ELSE 1), r)

\* (?do) enters the loop as do does, or drops limit and index and jumps.
QuestionDo ==
  /\ Token = "_q_do_" /\ D(2)
  /\ JumpsIf(second = top, Below(d, 2), IF second = top THEN r ELSE r \o Top(d, 2))

Leave == Token = "_leave_" /\ R(2) /\ JumpsIf(TRUE, d, Below(r, 2))

\* The turn of a loop ends: jump back with index i, or drop limit and index.
Turn(leave, ds, i) ==
  JumpsIf(~leave, ds, IF leave THEN Below(r, 2) ELSE Append(Below(r, 1), i))

Loop ==
  /\ Token = "_loop_" /\ R(2)
  /\ LET i == Cell(r[Len(r)] + 1) IN Turn(i = r[Len(r) - 1], d, i)

\* (+loop) leaves when adding the step to i - limit + mincell overflows.
Overflows(x, y) == x + y # Cell(x + y)
OverflowsFromZero(i, limit, step) == Overflows(Cell(i - limit), step)   \* mutation of Crosses: mincell not added
Crosses(i, limit, step) == Overflows(Cell(i - limit + MinCell), step)
PlusLoop ==
  /\ Token = "_plus_loop_" /\ D(1) /\ R(2)
  /\ LET i == r[Len(r)]
         limit == r[Len(r) - 1]
     IN Turn(Crosses(i, limit, top), Below(d, 1), Cell(i + top))

-----------------------------------------------------------------------------
\* What the optimizer replaces by tokens that do something else; TLC finds a
\* counterexample for each.
KnownWrong ==
  { <<"swap", "more">>,                                     \* for equal cells
    <<"tuck", "minus_rot">>,                                \* leaves a b b, not b b a
    <<"one", "mod">>,                                       \* leaves the dividend, not zero
    <<"one", "div_mod">>, <<"minus_one", "div_mod">>,       \* remainder and quotient swapped or dropped
    <<"four_div", "two_div">>, <<"four_sm_div", "two_sm_div">>,  \* divides by 4, not by 8
    <<"zero_less_equal", "zero_ne">>,                       \* 0< where 0<= is meant
    <<"zero_less_equal", "zero_less">>, <<"zero_ne", "zero_less">>, <<"zero_equal", "zero_less">>,
    <<"zero_more", "zero_less">>, <<"zero_more_equal", "zero_less">>,
    <<"div", "negate">> }                                   \* mincell 1 / negate: divides mincell by -1

\* (optimize-tokens): the shortest tokens from the i-th on that a rule replaces.
\* A jump is matched with any operand.
Table(rules) == [old \in {rule[1] : rule \in rules} |-> (CHOOSE rule \in rules : rule[1] = old)[2]]
High == Table(HighRules \union {<<p[1], p[3]>> : p \in JumpPatterns})
Low == Table(LowRules)
Longest == 5
Matches(tokens, i, table) ==
  {n \in 1 .. Longest : i + n - 1 <= Len(tokens) /\ SubSeq(tokens, i, i + n - 1) \in DOMAIN table}
\* [optimize-once] ( opts -- t|f ) goes over the tokens once, from left to right;
\* a token is copied if no rule applies there.  The result tells what was taken at
\* a time, what it left, and the place of the last token taken.
Shortest(lengths) == CHOOSE n \in lengths : \A m \in lengths : n <= m
Taken(tokens, i, table) == Shortest(Matches(tokens, i, table) \union {Longest + 1})
Segment(tokens, i, n, table) ==
  IF n > Longest THEN [old |-> <<tokens[i]>>, new |-> <<tokens[i]>>, last |-> i, replaced |-> FALSE]
  ELSE LET old == SubSeq(tokens, i, i + n - 1)
       IN [old |-> old, new |-> table[old], last |-> i + n - 1, replaced |-> TRUE]
OptimizeOnce(tokens, table) ==
  LET From[i \in 1 .. Len(tokens) + 1] ==
        IF i > Len(tokens) THEN <<>>
        ELSE LET segment == Segment(tokens, i, Taken(tokens, i, table), table)
             IN <<segment>> \o From[segment.last + 1]
  IN From[1]
Replaced(segments) == {segments[k].old : k \in {j \in DOMAIN segments : segments[j].replaced}}
LeftTokens(segments) ==
  LET Upto[k \in 0 .. Len(segments)] == IF k = 0 THEN <<>> ELSE Upto[k - 1] \o segments[k].new
  IN Upto[Len(segments)]

-----------------------------------------------------------------------------
\* Jobs.
Test(n) == [kind |-> "test", test |-> Tests[n]]
OptimizerTest(n) == [kind |-> TestsOptimizer[n].kind, test |-> TestsOptimizer[n]]
Rule(rule, ds, rs) == [kind |-> "rule", new |-> rule[2], d |-> ds, r |-> rs, wrong |-> rule[1] \in KnownWrong]
Word(ds, rs) == [kind |-> "word", d |-> ds, r |-> rs]
OneTurn(turn) == [kind |-> "turn", turn |-> turn]

Starts(j, in, tokens, ds, rs) ==
  /\ job = j /\ phase = in /\ code = tokens /\ d = ds /\ r = rs
  /\ ip = 1 /\ fault = FALSE /\ goal = None /\ excused = FALSE
Ready(j, tokens, ds, rs) ==
  Starts(j, IF j.kind \in {"optimize", "optimize once"} THEN "high" ELSE "source", tokens, ds, rs)
Init ==
  \/ \E n \in DOMAIN Tests: Ready(Test(n), Tests[n].code, Tests[n].d, Tests[n].r)
  \/ \E n \in DOMAIN TestsOptimizer: Ready(OptimizerTest(n), TestsOptimizer[n].code, <<>>, <<>>)
  \/ \E rule \in HighRules \union LowRules, ds \in RuleStacks, rs \in RuleReturns:
       Ready(Rule(rule, ds, rs), rule[1], ds, rs)
  \/ \E rule \in JumpRules, ds \in RuleStacks, rs \in RuleReturns: Ready(Rule(rule, ds, rs), rule[1], ds, rs)
  \/ \E w \in Words, ds \in WordStacks, rs \in RuleReturns: Ready(Word(ds, rs), w, ds, rs)
  \/ \E t \in Turns: Ready(OneTurn(t), <<"_plus_loop_">>, <<t.step>>, <<t.limit, t.i>>)

Outcome == [d |-> d, r |-> r, far |-> ip > Far]

\* The same stacks again.
Restart == d' = job.d /\ r' = job.r /\ ip' = 1

\* What a rule replaces has run: run the replacement.
Rewrite ==
  /\ Halted /\ job.kind = "rule" /\ phase = "source"
  /\ goal' = Outcome /\ phase' = "result"
  /\ code' = job.new /\ excused' = job.wrong
  /\ Restart
  /\ UNCHANGED <<job, fault>>

\* The word has run: optimize it.
Optimize ==
  /\ Halted /\ job.kind = "word" /\ phase = "source"
  /\ goal' = Outcome /\ phase' = "high"
  /\ Restart
  /\ UNCHANGED <<job, code, fault, excused>>

\* [optimize] runs [optimize-once] at high priority while it finds something to
\* replace, and then at low priority.
Pass(priority, table, next) ==
  /\ phase = priority /\ job.kind \in {"word", "optimize", "optimize once"}
  /\ \E once \in {OptimizeOnce(code, table)}:
       /\ code' = LeftTokens(once)
       /\ excused' = (excused \/ Replaced(once) \intersect KnownWrong # {})
       /\ phase' = IF Replaced(once) = {} \/ job.kind = "optimize once" THEN next ELSE priority
  /\ UNCHANGED <<job, ip, d, r, fault, goal>>
HighPass == Pass("high", High, IF job.kind = "word" THEN "low" ELSE "optimized")
LowPass == Pass("low", Low, "result")

Bye ==
  /\ \/ fault \/ phase = "optimized"
     \/ Halted /\ (phase = "result" \/ job.kind \in {"test", "turn"})
  /\ UNCHANGED vars

Step ==
  \/ Push \/ Shuffle \/ Replace \/ Combine \/ CombineWithI \/ CombineMore \/ Divide \/ ReachInto
  \/ Depth \/ ChangeI \/ Fault \/ Branch \/ Of \/ QuestionDo \/ Leave \/ Loop \/ PlusLoop
Next == (Running /\ Step) \/ Rewrite \/ Optimize \/ HighPass \/ LowPass \/ Bye
\* The optimizer does not stop between two passes.
Passes == HighPass \/ LowPass
Spec == Init /\ [][Next]_vars /\ WF_vars(Passes)

-----------------------------------------------------------------------------
\* Every test of t/testexecute.c passes: run to its end, and with the stacks, or
\* for the optimizer the tokens, that m64test_run compares.
TestsPass ==
  /\ job.kind = "test" =>
       ~fault /\ (Halted => d = job.test.dAfter /\ r = job.test.rAfter)
  /\ phase = "optimized" => code = job.test.codeAfter

\* The optimizer may not change what a word does: from any stacks, a rule's
\* replacement, and a word after all passes, leaves the stacks and takes the
\* jump that the tokens replaced would, and does not fault where they do not;
\* unless one of the rules known to be wrong was used.
RewritesKeepMeaning ==
  (phase = "result" /\ job.kind \in {"rule", "word", "program"} /\ ~excused) => ~fault /\ (Halted => Outcome = goal)

\* The passes of each priority end: no rules undo each other for ever, though words are moved
\* back and forth (2dup => over over, over over => 2dup).
OptimizerEnds == (phase = "high" ~> phase # "high") /\ (phase = "low" ~> phase # "low")

\* Forth's +LOOP leaves iff one of the unit steps the index makes goes from
\* limit - 1 to limit or back, in the circle of cells; the overflow that
\* (+loop) looks at must say the same for every step, at both ends of the cells.
PlusLoopCrosses ==
  (job.kind = "turn" /\ Halted) =>
    LET t == job.turn
        crossed == IF t.step >= 0 THEN U(t.limit - 1 - t.i) < t.step ELSE U(t.i - t.limit) < -t.step
    IN (ip < Far) = crossed

\* (if>) and the other comparing tokens "continue to next instruction" iff the
\* comparison they are named for holds, "otherwise jump" (amd64/loop.S).
Named(t, x, y) ==
  CASE t = "_if_less_" -> x < y [] t = "_if_less_equal_" -> x <= y [] t = "_if_ne_" -> x # y
    [] t = "_if_equal_" -> x = y [] t = "_if_more_" -> x > y [] t = "_if_more_equal_" -> x >= y
ComparesAsNamed ==
  [][(Running /\ Token \in Comparing) => (ip' = ip + 2) = Named(Token, second, top)]_vars
=============================================================================
