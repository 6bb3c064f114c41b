----------------------------- MODULE ControlFlow -----------------------------
(***************************************************************************)
(* How m64th compiles control structures: a program is written with any of *)
(* the control words of ControlWords, `;' optimizes its tokens and         *)
(* resolves all jumps again, and then the word runs, with any data.        *)
(***************************************************************************)
EXTENDS ControlWords

CONSTANTS
    Words,      \* the words programs are written with
    Rules,      \* rewritings of the optimizer, [old |-> tokens, new |-> tokens]
    MaxWords    \* bound: number of words in a definition

VARIABLES
    phase,     \* "compile", "finished", "optimize", "recompile", "run", "thrown"
    code,      \* the word being compiled
    here,      \* location where the next token goes
    cs,        \* control stack, top last
    ip,        \* IP of the running word
    loops,     \* number of its (do) loops on the return stack
    cases,     \* number of its CASE values on the data stack
    source     \* history: the tokens that were compiled, without operands

vars == <<phase, code, here, cs, ip, loops, cases, source>>
running == <<ip, loops, cases>>

Jumps == {"_if_", "_else_", "_while_", "_repeat_", "_again_", "_until_", "_do_",
          "_q_do_", "_loop_", "_leave_", "_of_", "_endof_", "_fallthrough_"}
Labels == {"begin", "then", "case", "endcase"}
Plain == {"x"}   \* any token that does not jump
Tokens == Jumps \cup Labels \cup Plain \cup {"exit"}

ASSUME WordsAssumption == Words \subseteq Jumps \cup Labels \cup Plain
EndsWithJump(tokens) == tokens # <<>> /\ Last(tokens) \in Jumps
ASSUME RulesAssumption ==
    \A rule \in Rules :
        /\ DOMAIN rule = {"old", "new"}
        /\ rule.old \in Seq(Tokens) /\ rule.new \in Seq(Tokens)
        /\ rule.old # <<>>
        /\ EndsWithJump(rule.old) <=> EndsWithJump(rule.new)
ASSUME BoundAssumption == MaxWords \in Nat

Compiler == [code |-> code, here |-> here, cs |-> cs, ok |-> TRUE]
Becomes(s) == code' = s.code /\ here' = s.here /\ cs' = s.cs

-----------------------------------------------------------------------------
(* The definition of a word. *)

(* Programs use ELSE and THEN on what IF, ELSE or WHILE left, as Forth     *)
(* requires: m64th does not check it.                                      *)
Write(t) ==
    /\ phase = "compile"
    /\ Len(source) < MaxWords   \* bound
    /\ t \in {"_else_", "then"} => TopSys(Compiler).cat \in {"_if_", "_else_", "_while_"}
    /\ LET s == CompileToken(t, Compiler)
       IN Becomes(s) /\ phase' = IF s.ok THEN "compile" ELSE "thrown"
    /\ source' = Append(source, t)
    /\ UNCHANGED running

(* [finish]: check colon-sys and compile exit *)
Semicolon ==
    /\ phase = "compile"
    /\ IF Is(Compiler, "colon")
       THEN Becomes(Put(DropSys(Compiler), Token("exit"))) /\ phase' = "finished"
       ELSE UNCHANGED <<code, here, cs>> /\ phase' = "thrown"
    /\ source' = Append(source, "exit")
    /\ UNCHANGED running

-----------------------------------------------------------------------------
(* The optimizer. *)

CellsOf(t) == IF t \in Jumps THEN 2 ELSE 1

(* location of each token, and the one after the last *)
Starts ==
    LET start[i \in 1 .. Len(source) + 1] ==
            IF i = 1 THEN 0 ELSE start[i - 1] + CellsOf(source[i - 1])
    IN start

(* the tokens of a rule, followed by an operand if they end with a jump *)
WithOperandLost(tokens, operand) == [i \in DOMAIN tokens |-> Token(tokens[i])]
WithOperand(tokens, operand) ==
    LET cells == [i \in DOMAIN tokens |-> Token(tokens[i])]
    IN IF EndsWithJump(tokens) THEN Append(cells, operand) ELSE cells

(* [optimize-once] replaces the tokens from the i-th on.  The operand of   *)
(* the new tokens is that of the last old jump; all are stale now.         *)
Rewrite(rule, i) ==
    LET n == Len(rule.old)
        from == Starts[i]
        to == Starts[i + n]
    IN /\ phase \in {"finished", "optimize"}
       /\ SubSeq(source, i, i + n - 1) = rule.old
       /\ code' = SubSeq(code, 1, from) \o WithOperand(rule.new, code[to])
                  \o SubSeq(code, to + 1, Len(code))
       /\ source' = SubSeq(source, 1, i - 1) \o rule.new
                    \o SubSeq(source, i + n, Len(source))
       /\ phase' = "optimize"
       /\ here' = Len(code')
       /\ UNCHANGED <<cs, running>>

Optimize ==
    \E rule \in Rules : \E i \in 1 .. Len(source) - Len(rule.old) : Rewrite(rule, i)

(* [recompile]: from the start, with the old cells ahead *)
ColonSys == Sys(0, "colon")
Recompile ==
    /\ phase \in {"finished", "optimize"}
    /\ phase' = "recompile" /\ here' = 0 /\ cs' = <<ColonSys>>
    /\ UNCHANGED <<code, running, source>>

(* [recompile-token]: words flagged "reexec" are executed, other tokens    *)
(* are skipped                                                             *)
RecompileToken ==
    /\ phase = "recompile" /\ here < Len(code)
    /\ LET s == RecompileNext(Compiler)
       IN Becomes(s) /\ phase' = IF s.ok THEN "recompile" ELSE "thrown"
    /\ UNCHANGED <<running, source>>

RecompileEnd ==
    /\ phase = "recompile" /\ here = Len(code)
    /\ IF Is(Compiler, "colon")
       THEN cs' = Front(cs) /\ phase' = "finished"
       ELSE UNCHANGED cs /\ phase' = "thrown"
    /\ UNCHANGED <<code, here, running, source>>

-----------------------------------------------------------------------------
(* The word runs, with any data: every condition may be true or false.     *)

Here == code[ip + 1].tok
Started == phase = "run" /\ ip < Len(code)
Proceed == ip' = ip + CellsOf(Here)
Jump == ip' = ip + 2 + code[ip + 2].offset
Running == UNCHANGED <<phase, code, here, cs, source>>

Start ==
    /\ phase = "finished"
    /\ phase' = "run" /\ ip' = 0
    /\ UNCHANGED <<code, here, cs, loops, cases, source>>

RunPlain ==
    /\ Started /\ Here \in Plain \cup {"begin", "then"} /\ Proceed
    /\ Running /\ UNCHANGED <<loops, cases>>
RunJump ==
    /\ Started /\ Here \in {"_else_", "_repeat_", "_again_", "_endof_", "_fallthrough_"}
    /\ Jump
    /\ Running /\ UNCHANGED <<loops, cases>>
RunIf ==
    /\ Started /\ Here \in {"_if_", "_while_", "_until_"} /\ (Proceed \/ Jump)
    /\ Running /\ UNCHANGED <<loops, cases>>
RunDo ==
    /\ Started
    /\ \/ Here \in {"_do_", "_q_do_"} /\ Proceed /\ loops' = loops + 1
       \/ Here = "_q_do_" /\ Jump /\ UNCHANGED loops
    /\ Running /\ UNCHANGED cases
RunLoop ==
    /\ Started
    /\ \/ Here = "_loop_" /\ Jump /\ UNCHANGED loops
       \/ Here = "_loop_" /\ Proceed /\ loops' = loops - 1
       \/ Here = "_leave_" /\ Jump /\ loops' = loops - 1
    /\ Running /\ UNCHANGED cases
RunCase ==
    /\ Started
    /\ \/ Here = "case" /\ Proceed /\ cases' = cases + 1
       \/ Here = "_of_" /\ Proceed /\ cases' = cases - 1
       \/ Here = "_of_" /\ Jump /\ UNCHANGED cases
       \/ Here = "endcase" /\ Proceed /\ cases' = cases - 1
    /\ Running /\ UNCHANGED loops

(* the interpreter starts to compile after `:' *)
Init ==
    /\ phase = "compile" /\ code = <<>> /\ here = 0 /\ cs = <<ColonSys>>
    /\ ip = 0 /\ loops = 0 /\ cases = 0 /\ source = <<>>

Compile == (\E t \in Words : Write(t)) \/ Semicolon
Optimizer == Optimize \/ Recompile \/ RecompileToken \/ RecompileEnd
Run == Start \/ RunPlain \/ RunJump \/ RunIf \/ RunDo \/ RunLoop \/ RunCase
(* the word returned, or REPL took the exception and gave up the word *)
Ended == (phase = "thrown" \/ (phase = "run" /\ Here = "exit")) /\ UNCHANGED vars

Next == Compile \/ Optimizer \/ Run \/ Ended
Spec == Init /\ [][Next]_vars
-----------------------------------------------------------------------------
(* Properties. *)

(* Locations on the control stack are in the code; those of jumps are of   *)
(* operands that are still to be resolved.                                 *)
TypeOK ==
    /\ phase \in {"compile", "finished", "optimize", "recompile", "run", "thrown"}
    /\ code \in Seq([tok : Tokens \cup {"operand"}, offset : Int])
    /\ here \in 0 .. Len(code)
    /\ \A i \in DOMAIN cs :
        /\ cs[i].loc \in 0 .. here
        /\ cs[i].cat \notin Labels \cup {"colon"} => code[cs[i].loc] = Operand(Unresolved)
    /\ ip \in 0 .. Len(code) - 1 \/ ip = 0
    /\ source \in Seq(Tokens)

(* How Forth nests control structures, without a stack: what opens a       *)
(* structure adds one to the depth, what closes it takes one away.         *)
Openers == {"_if_", "begin", "_do_", "_q_do_", "case", "_of_"}
Closers == {"then", "_repeat_", "_again_", "_until_", "_loop_", "endcase", "_endof_",
            "_fallthrough_"}
Depth(i) ==
    Cardinality({j \in 1 .. i : source[j] \in Openers})
        - Cardinality({j \in 1 .. i : source[j] \in Closers})

(* the opener of the innermost structure that word j is in, or closes *)
OpenAt(j) == {i \in 1 .. j - 1 : source[i] \in Openers /\ \A k \in i .. j - 1 : Depth(k) >= Depth(i)}
Opener(j) == Max(OpenAt(j))
Closer(i) == Min({j \in i + 1 .. Len(source) : Depth(j) < Depth(i)})
OuterLoop(j) == {i \in OpenAt(j) : source[i] \in {"_do_", "_q_do_"}}

OpenerOf(t) ==
    CASE t \in {"then", "_else_"} -> {"_if_"}
      [] t \in {"_while_", "_repeat_", "_again_", "_until_"} -> {"begin"}
      [] t = "_loop_" -> {"_do_", "_q_do_"}
      [] t \in {"endcase", "_of_"} -> {"case"}
      [] t \in {"_endof_", "_fallthrough_"} -> {"_of_"}
      [] OTHER -> Openers
(* the words of kind t that belong to the same structure as word j *)
Siblings(j, t) ==
    {k \in DOMAIN source : source[k] = t /\ OpenAt(k) # {} /\ Opener(k) = Opener(j)}

NestedAt(j) ==
    LET t == source[j]
    IN /\ t \notin Openers \cup Plain \cup {"exit"} \/ t = "_of_" =>
            OpenAt(j) # {} /\ (t = "_leave_" \/ source[Opener(j)] \in OpenerOf(t))
       /\ t \in {"_else_", "_while_"} => Siblings(j, t) = {j}
       /\ t = "_repeat_" => Siblings(j, "_while_") # {}
       /\ t \in {"_again_", "_until_"} => Siblings(j, "_while_") = {}
       /\ t = "_leave_" => OuterLoop(j) # {}
       /\ t = "exit" => Depth(j) = 0
WellNested == \A j \in DOMAIN source : NestedAt(j)

(* the word that Forth continues with when word j jumps *)
NextOf(j) == {k \in Siblings(Opener(j), "_of_") : k > j}
Destination(j) ==
    LET t == source[j]
    IN CASE t = "_if_" ->
              LET elses == Siblings(j + 1, "_else_") \cap (j + 1 .. Closer(j))
              IN IF elses = {} THEN Closer(j) + 1 ELSE Max(elses) + 1
         [] t \in {"_else_", "_while_"} -> Closer(Opener(j)) + 1
         [] t \in {"_repeat_", "_again_", "_until_", "_loop_"} -> Opener(j) + 1
         [] t \in {"_do_", "_q_do_", "_of_"} -> Closer(j) + 1
         [] t = "_leave_" -> Closer(Max(OuterLoop(j))) + 1
         [] t = "_endof_" -> Closer(Opener(Opener(j))) + 1
         [] t = "_fallthrough_" -> IF NextOf(j) = {} THEN j + 1 ELSE Min(NextOf(j)) + 1

(* In a word that nests its control structures as Forth does, every jump   *)
(* leads where Forth says, both as it was compiled and after the optimizer *)
(* changed the code and resolved the jumps again ([resolve-jump-here],     *)
(* [resolve-loop], [recompile]).                                           *)
JumpsMatchSource ==
    phase = "finished" /\ WellNested =>
        \A j \in DOMAIN source :
            source[j] \in Jumps =>
                Starts[j] + 2 + code[Starts[j] + 2].offset = Starts[Destination(j)]

(* A word whose control structures are nested is never refused (leave,     *)
(* [cs-find]; [check]).                                                    *)
NestedWordsCompile == phase = "thrown" => ~WellNested

(* Whatever the optimizer did to a word that was compiled, its jumps can   *)
(* be resolved again ([recompile], "[check] colon").                       *)
OptimizedRecompiles ==
    [][phase = "recompile" => phase' # "thrown"]_vars

(* On every path through CASE its value is dropped once, by the OF that    *)
(* matches it or by ENDCASE (_of_, endcase).  Two words break it: LEAVE    *)
(* takes the value along, and the last FALLTHROUGH, which has no OF to     *)
(* jump into, goes on to ENDCASE although its OF dropped the value.        *)
LastFallsThrough ==
    \E j \in DOMAIN source :
        source[j] = "_fallthrough_" /\ code[Starts[j] + 2].offset = 0
CasesBalanced ==
    ~LastFallsThrough /\ "_leave_" \notin Range(source) =>
        /\ Here \in {"_of_", "endcase"} => cases > 0
        /\ Here = "exit" => cases = 0

(* A word that was compiled, nested or not, runs from token to token and   *)
(* returns with the stacks it was called with: on every path the loops     *)
(* that it entered were left, by LOOP, LEAVE or ?DO (_q_do_, _leave_,      *)
(* _loop_), and the values of its CASEs were dropped.                      *)
StacksBalanced ==
    phase = "run" =>
        /\ \E i \in DOMAIN source : ip = Starts[i] /\ Here = source[i]
        /\ Here \in {"_loop_", "_leave_"} => loops > 0
        /\ Here = "exit" => loops = 0
        /\ CasesBalanced
=============================================================================
