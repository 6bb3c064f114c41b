------------------------------ MODULE MCMachine ------------------------------
(***************************************************************************)
(* Machine with cells of 16 bits: all tests of the module TestVectors; all *)
(* rules, from the stacks below; turns of (+loop) at both ends of the      *)
(* cells and around the limit.                                             *)
(***************************************************************************)
EXTENDS Machine

\* The two top cells take these values; the cells below differ from each other.
Edges == {MinCell, MinCell + 1, -256, -1, 0, 1, 2, 7, 64, MaxCell}
MCRuleStacks == {<<21, 22, 23, 24, 25, 26, x, y>> : x, y \in Edges}
MCRuleReturns == {<<31, 32, 33>>}

\* Words of one to three of the tokens with most rules.
Alphabet == {"dup", "over", "swap", "rot", "minus_rot", "flip", "tuck", "trail", "hop", "nip", "drop",
             "two_swap", "two_nip", "to_r", "r_from", "zero", "one", "plus", "negate", "more", "zero_equal"}
MCWords == UNION {[1 .. n -> Alphabet] : n \in 1 .. 3}
MCWordStacks == {<<31, 32, 33, 34, 35, 36, -21, 22, -23, 24, 25, 26, 1>>}

Limits == {MinCell, MinCell + 2, -1, 0, 5, MaxCell}
MCTurns == {[step |-> step, limit |-> limit, i |-> Cell(limit + off)] :
              step \in {MinCell, -300, -2, -1, 0, 1, 2, 300, MaxCell}, limit \in Limits,
              off \in {MinCell, -300, -2, -1, 0, 1, 2, 299, MaxCell}}
=============================================================================
