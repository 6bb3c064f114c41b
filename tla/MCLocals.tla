------------------------------ MODULE MCLocals ------------------------------
(* Locals with three register variables. *)
EXTENDS Locals, FiniteSets

MCLn == 3
MCPhys == {"xmm0", "xmm1", "xmm2"}
MCReg == <<"xmm1", "xmm2">> @@ (0 :> "xmm0")
MCSizes == {1, 2, 4}
MCValues == {0, 99}

(* Bounds: words that are active, those of them that have variables, and   *)
(* copies of the value 99 in registers and on the stack.  Values are only  *)
(* copied, so what a mixed-up variable gives can be told by a few 99 among *)
(* variables that are 0.                                                   *)
Copies ==
    Cardinality({p \in Phys : reg[p] = 99}) + Cardinality({c \in 0 .. rsp : rmem[c] = 99})
FewWords ==
    /\ Len(calls) <= 3
    /\ Cardinality(Frames) <= 3
    /\ Copies <= 2

(* Cells above the stack pointer are read again only as variables that     *)
(* were never stored.                                                      *)
LiveState == <<reg, [c \in 0 .. rsp |-> rmem[c]], rtop, locl, dtop, phase, calls>>
=============================================================================
