---------------------------- MODULE MCControlFlow ----------------------------
(* ControlFlow with all the control words, definitions of up to MaxWords   *)
(* words, and rules as those of include/opt_rules.mh and (optimize-3jump). *)
EXTENDS ControlFlow

MCWords == Tokens \ {"exit"}

Rule(old, new) == [old |-> old, new |-> new]
MCRules ==
    {Rule(<<"x">>, <<>>),
     Rule(<<"x", "_if_">>, <<"_if_">>),
     Rule(<<"x", "_until_">>, <<"_again_">>),
     Rule(<<"_if_", "then">>, <<"x">>),
     Rule(<<"_if_", "_else_">>, <<"_if_">>),
     Rule(<<"_else_", "then">>, <<"then">>),
     Rule(<<"case", "endcase">>, <<"x">>)}

(* Control structures that need one more word to end, at least. *)
Open == {i \in DOMAIN cs : cs[i].cat \in {"_if_", "_else_", "begin", "_do_", "case", "_of_"}}

(* Only definitions that may still end within MaxWords words, and one "x". *)
Used(words) == Cardinality({i \in DOMAIN source : source[i] \in words})
FewWords ==
    /\ phase = "compile" => Len(source) + Cardinality(Open) <= MaxWords
    /\ Used({"x"}) <= 1

(* A word that leaves CASE by LEAVE or by its last FALLTHROUGH in a loop   *)
(* may change the data stack for ever.                                     *)
FewCases == cases \in -2 .. 2
=============================================================================
