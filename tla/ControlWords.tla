----------------------------- MODULE ControlWords -----------------------------
(***************************************************************************)
(* What the immediate words IF ... THEN, BEGIN ... REPEAT, DO ... LOOP,    *)
(* CASE ... ENDCASE do to the word being compiled: they append tokens and  *)
(* unresolved jumps, and keep on the control stack where a jump is to be   *)
(* resolved or what to jump back to.                                       *)
(*                                                                         *)
(* A jump is two cells of code: its token and an operand, the distance to  *)
(* the destination from the cell after the operand.  A "location" counts   *)
(* the cells before it, so that location l follows cell code[l].  Words    *)
(* that compile one token have the name of that token: `if' is "_if_".     *)
(***************************************************************************)
EXTENDS Integers, Sequences, FiniteSets, SequencesExt, FiniteSetsExt

Comparisons == {"_if_less_", "_if_less_equal_", "_if_ne_", "_if_equal_", "_if_more_", "_if_more_equal_"}
IfTokens == {"_if_", "_if0_", "_q_if_", "_q_if0_"} \cup Comparisons
WhileTokens == {"_while_", "_while0_", "_q_while_", "_q_while0_"}
UntilTokens == {"_until_", "_until0_", "_q_until_", "_q_until0_"}
(* flagged "reexec": [recompile] executes their words again *)
ControlTokens ==
    IfTokens \cup WhileTokens \cup UntilTokens
    \cup {"_else_", "then", "begin", "_repeat_", "_again_", "_do_", "_q_do_", "_leave_", "_loop_",
          "_plus_loop_", "case", "_of_", "_endof_", "_fallthrough_", "endcase", "_ahead_", "_recurse_"}
(* one operand follows these tokens *)
WithOneOperand == (ControlTokens \ {"then", "begin", "case", "endcase"}) \cup {"_lit_"}

Unresolved == -1
Token(t) == [tok |-> t, offset |-> 0]
Operand(n) == [tok |-> "operand", offset |-> n]

-----------------------------------------------------------------------------
(* Words change the state s of the compiler, [code, here, cs, ok]; ok is   *)
(* FALSE after M6ERR_CONTROL_STRUCTURE_MISMATCH was thrown.                *)

Thrown(s) == [s EXCEPT !.ok = FALSE]

(* while the word is compiled again, the cell is written over an old one *)
Put(s, cell) ==
    [s EXCEPT !.here = @ + 1,
              !.code = IF s.here < Len(@) THEN [@ EXCEPT ![s.here + 1] = cell]
                       ELSE Append(@, cell)]

Sys(l, category) == [loc |-> l, cat |-> category]
PushSys(s, sys) == [s EXCEPT !.cs = Append(@, sys)]
TopSys(s) == Last(s.cs)
DropSys(s) == [s EXCEPT !.cs = Front(@)]
Is(s, category) == TopSys(s).cat = category   \* [check]

CsSwap(s) ==
    LET n == Len(s.cs)
    IN [s EXCEPT !.cs[n] = s.cs[n - 1], !.cs[n - 1] = s.cs[n]]

(* [compile-jump-lit], [compile-sys-lit] *)
CompileJump(s, t, category) ==
    PushSys(Put(Put(s, Token(t)), Operand(Unresolved)), Sys(s.here + 2, category))
CompileSys(s, t) == PushSys(Put(s, Token(t)), Sys(s.here + 1, t))

(* [resolve-jump-here] *)
ResolveHere(s) ==
    LET orig == TopSys(s)
    IN [DropSys(s) EXCEPT !.code[orig.loc] = Operand(s.here - orig.loc)]

(* [resolve-jump-there]: from the top to the one below *)
ResolveThere(s) ==
    LET orig == TopSys(s)
        dest == TopSys(DropSys(s))
    IN [DropSys(DropSys(s)) EXCEPT !.code[orig.loc] = Operand(dest.loc - orig.loc)]

(* [resolve-jump-here] as long as the top is of the category *)
ResolveAllHere(s, category) ==
    LET kept == Max({0} \cup {i \in DOMAIN s.cs : s.cs[i].cat # category})
        origs == {s.cs[i].loc : i \in kept + 1 .. Len(s.cs)}
    IN [s EXCEPT !.cs = SubSeq(@, 1, kept),
                 !.code = FoldSet(LAMBDA l, c : [c EXCEPT ![l] = Operand(s.here - l)],
                                  s.code, origs)]

(* if .. else .. then; `else' and `then' do not check what they resolve *)
If(s, t) == CompileJump(s, t, "_if_")
Ahead(s) == CompileJump(s, "_ahead_", "_ahead_")
ElseFirst(s) == CompileJump(ResolveHere(s), "_else_", "_else_")
Else(s) == ResolveHere(CsSwap(CompileJump(s, "_else_", "_else_")))
Then(s) == ResolveHere(Put(s, Token("then")))

(* begin .. while .. repeat, begin .. again, begin .. until *)
Begin(s) == CompileSys(s, "begin")
While(s, t) ==
    IF Is(s, "begin") THEN CsSwap(CompileJump(s, t, "_while_")) ELSE Thrown(s)
BackToBegin(s, t) ==
    IF Is(s, "begin") THEN ResolveThere(CompileJump(s, t, t)) ELSE Thrown(s)
Repeat(s) ==
    LET back == BackToBegin(s, "_repeat_")
    IN IF back.ok /\ Is(back, "_while_") THEN ResolveHere(back) ELSE Thrown(back)

(* do .. leave .. loop *)
Do(s, t) == CompileJump(s, t, "_do_")

(* [cs-find] -cs-roll: the jump of `leave' goes under everything that is   *)
(* inside its loop                                                         *)
LoopToLeaveOuter(dos) == Min(dos)
LoopToLeave(dos) == Max(dos)
LeaveInside(s) ==
    IF \E i \in DOMAIN s.cs : s.cs[i].cat = "_do_"
    THEN CompileJump(s, "_leave_", "_leave_") ELSE Thrown(s)
Leave(s) ==
    LET leave == CompileJump(s, "_leave_", "_leave_")
        dos == {i \in DOMAIN s.cs : s.cs[i].cat = "_do_"}
    IN IF dos = {} THEN Thrown(leave)
       ELSE [leave EXCEPT
              !.cs = InsertAt(s.cs, LoopToLeave(dos) + 1, TopSys(leave))]

(* [resolve-loop] *)
Loop(s, t) ==
    LET loop == CompileJump(s, t, "_loop_")
        left == ResolveAllHere(DropSys(loop), "_leave_")
        do == TopSys(left)
    IN IF ~Is(left, "_do_") THEN Thrown(left)
       ELSE ResolveThere(PushSys(PushSys(ResolveHere(left), do), TopSys(loop)))

(* case .. of .. endof .. of .. fallthrough .. endcase *)
Case(s) == CompileSys(s, "case")
Of(s) ==
    LET of == CompileJump(s, "_of_", "_of_")
    IN IF Is(s, "_fallthrough_") THEN ResolveHere(CsSwap(of)) ELSE of
EndOf(s, t) ==
    IF Is(s, "_of_") THEN ResolveHere(CsSwap(CompileJump(s, t, t))) ELSE Thrown(s)
Endcase(s) ==
    LET e == Put(s, Token("endcase"))
        f == IF Is(e, "_fallthrough_") THEN ResolveThere(PushSys(e, TopSys(e))) ELSE e
        ended == ResolveAllHere(f, "_endof_")
    IN IF Is(ended, "case") THEN DropSys(ended) ELSE Thrown(ended)

Recurse(s) == Put(Put(s, Token("_recurse_")), Operand(-(s.here + 2)))

(* executing an immediate word, or the word of a token *)
Execute(t, s) ==
    CASE t \in IfTokens -> If(s, t)
      [] t = "_ahead_" -> Ahead(s)
      [] t = "_else_" -> Else(s)
      [] t = "then" -> Then(s)
      [] t = "begin" -> Begin(s)
      [] t \in WhileTokens -> While(s, t)
      [] t = "_repeat_" -> Repeat(s)
      [] t \in UntilTokens \cup {"_again_"} -> BackToBegin(s, t)
      [] t \in {"_do_", "_q_do_"} -> Do(s, t)
      [] t = "_leave_" -> Leave(s)
      [] t \in {"_loop_", "_plus_loop_"} -> Loop(s, t)
      [] t = "case" -> Case(s)
      [] t = "_of_" -> Of(s)
      [] t \in {"_endof_", "_fallthrough_"} -> EndOf(s, t)
      [] t = "endcase" -> Endcase(s)
      [] t = "_recurse_" -> Recurse(s)
CompileToken(t, s) == IF t \in ControlTokens THEN Execute(t, s) ELSE Put(s, Token(t))

(* [recompile-token] skips the other tokens and their operands *)
RecompileNext(s) ==
    LET t == s.code[s.here + 1].tok
    IN IF t \in ControlTokens THEN Execute(t, s)
       ELSE [s EXCEPT !.here = @ + IF t \in WithOneOperand THEN 2 ELSE 1]
=============================================================================
