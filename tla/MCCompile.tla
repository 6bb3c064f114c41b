------------------------------ MODULE MCCompile ------------------------------
(***************************************************************************)
(* Compile with cells of 16 bits: all tests of the modules TestVectors,    *)
(* TextVectors and CompileVectors; the rules, words and turns of           *)
(* MCMachine; the programs, numbers and texts below.                      *)
(***************************************************************************)
EXTENDS MCMachine, Compile

\* The lines of the repository's tests that end with ;, longer ones with loops and
\* branches, and lines that must be refused.
TestedPrograms ==
  {CompileTests[n].line : n \in {k \in DOMAIN CompileTests :
     CompileTests[k].cs = ColonSys /\ \A c \in DOMAIN CompileTests[k].code :
        CompileTests[k].code[c].tok \notin {"_recurse_"}}}
MorePrograms ==
  { "8 0 do i + i 5 = if leave then loop ;", "0 5 -4 do i + 2 +loop ;", "0 -4 5 do i + -3 +loop ;",
    "4 4 ?do 1+ loop 1+ ;", "3 0 do 2 0 do i + noop loop 1- loop ;", "begin dup while 1- repeat 0= ;",
    "1+ begin 1- dup 0= until ;", "begin 0= 0= dup while drop 1+ repeat over over > choose ;",
    "case 1 of 2 endof 2 of fallthrough 7 of 4 1+ 1+ endof 5 swap endcase ;",
    "dup if dup else noop 1 then + ;", "0= if noop else drop 1 then ;", "dup 0= if drop 1 then 2 u/ ;",
    "over 0< if swap drop else drop then 1+ 1+ ;", "if dup if 1+ then else dup 0= if 2 then then ;",
    "dup 0<> if drop else nip then ;", "ahead 1 then 2 + ;", "if chars then begin dup while 1- noop repeat ;" }
RefusedPrograms == { "if ;", "1 while ;", "begin repeat ;", "loop ;", "do 2 leave begin loop ;", "leave ;", "case 1 endof ;" }
MCPrograms == TestedPrograms \union {Text(line) : line \in MorePrograms \union RefusedPrograms}
MCProgramStacks == {<<0, 3, -1, 0, 5, 2, 0, 7, x, y>> : x \in {0, 1, 7}, y \in {0, 1, 2, 7}}

MCPrintedNumbers == {MinCell, MinCell + 1, -10, -1, 0, 1, 9, 35, 36, 255, MaxCell}
MCPrintBases == 0 .. 40
Chars == {Code["#"], Code["$"], Code["%"], Code["-"], Code["'"], Code["0"], Code["1"], Code["9"], Code["a"],
          Code["Z"], Code["/"], Code[":"], Code["&"]}
MCReadTexts == UNION {[1 .. n -> Chars] : n \in 0 .. 3}
MCReadBases == {2, 10, 16, 36}
=============================================================================
