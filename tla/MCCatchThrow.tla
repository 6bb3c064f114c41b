----------------------------- MODULE MCCatchThrow -----------------------------
(* CatchThrow on small stacks. *)
EXTENDS CatchThrow, FiniteSets, FiniteSetsExt

MCXTs == {8}
MCLiterals == {5}

(* Cells above the pointer of the return stack and of its history are      *)
(* never read again, nor is the bottom cell of the data stack; its cells   *)
(* above the pointer only if THROW restores a depth that includes them.    *)
(* States that differ only in what is never read are one.                  *)
Depths == {dsp} \cup {rmem[p - 2] : p \in Live("catch")}
LiveState ==
    <<status, ip, reg0, [k \in 1 .. Max(Depths) |-> dmem[k]], dsp,
      IF dsp < 0 THEN 0 ELSE dtop, rsp, rtop, locl, handler, ex,
      [k \in 0 .. rsp |-> rmem[k]], [k \in 0 .. rsp + 1 |-> tag[k]],
      IF status = "c" THEN 0 ELSE entry>>

(* Bound on the activations other than CATCH that are pending at once, one *)
(* less in a run that follows one that was left in a CATCH or in a word    *)
(* with local variables.                                                   *)
FirstEntry == entry = [t \in Chained |-> 0]
FewActivations ==
    /\ Cardinality(Live("data")) <= 1
    /\ Cardinality(Live("ret") \cup Live("data") \cup Live("locl")) <=
           IF FirstEntry THEN 3 ELSE 2

(* Bound on what the run before left: a CATCH, or a word with local        *)
(* variables, below one more activation.  The saved pointer is then less   *)
(* than, equal to or greater than those of the frames of the run.          *)
FewLeftBehind == FirstEntry \/ <<entry["catch"], entry["locl"]>> \in {<<5, 0>>, <<0, 3>>}
=============================================================================
