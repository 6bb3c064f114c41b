--------------------------- MODULE ExceptionScopes ---------------------------
(***************************************************************************)
(* What CATCH and THROW promise, without any of the cells, registers and   *)
(* saved pointers that implement them: a stack of activations, in which    *)
(* THROW returns to the innermost CATCH that is still active, with the     *)
(* data stack depth and the locals frame that were current there.          *)
(***************************************************************************)
EXTENDS Integers, Sequences, SequencesExt

CONSTANTS Words, InvalidAddress, StackUnderflow

VARIABLES
    status,    \* "vm", "c" or "lost"
    ip,
    raising,   \* exception being thrown, 0 if none
    outcome,   \* what the CATCH that just ended will report
    data,      \* data stack, top last
    stack,     \* activations, innermost last
    locals,    \* current locals frame, 0 if none
    abandoned  \* not 0 if C got control back inside a CATCH and was not cleared since

svars == <<status, ip, raising, outcome, data, stack, locals, abandoned>>

Activation(kind, val, depth, frame) ==
    [kind |-> kind, val |-> val, depth |-> depth, locals |-> frame]

Plain(kind, val) == Activation(kind, val, 0, 0)

Top == Last(stack)
Ready == status = "vm" /\ raising = 0
ResumeOf(x) == x + 2

Calm == status' = status /\ raising' = 0 /\ outcome' = 0 /\ abandoned' = abandoned

SPush ==
    /\ Ready /\ Calm
    /\ Len(data') = Len(data) + 1 /\ Front(data') = data
    /\ UNCHANGED <<ip, stack, locals>>

SDrop ==
    /\ Ready /\ Calm /\ data # <<>> /\ data' = Front(data)
    /\ UNCHANGED <<ip, stack, locals>>

SToR ==
    /\ Ready /\ Calm /\ data # <<>> /\ data' = Front(data)
    /\ stack' = Append(stack, Plain("data", Last(data)))
    /\ UNCHANGED <<ip, locals>>

SRFrom ==
    /\ Ready /\ Calm /\ Top.kind = "data"
    /\ data' = Append(data, Top.val)
    /\ stack' = Front(stack)
    /\ UNCHANGED <<ip, locals>>

SCall ==
    /\ Ready /\ Calm /\ ip' \in Words
    /\ stack' = Append(stack, Plain("ret", ip))
    /\ UNCHANGED <<data, locals>>

SExecute ==
    /\ Ready /\ data # <<>> /\ Last(data) \in Words
    /\ Calm
    /\ ip' = Last(data)
    /\ data' = Front(data)
    /\ stack' = Append(stack, Plain("ret", ip))
    /\ UNCHANGED locals

SExecuteInvalid ==
    /\ Ready
    /\ raising' = IF data = <<>> THEN StackUnderflow ELSE InvalidAddress
    /\ data # <<>> => Last(data) \notin Words
    /\ UNCHANGED <<status, ip, outcome, data, stack, locals, abandoned>>

(* a word called by CATCH that returns makes it report 0 *)
SExit ==
    /\ Ready /\ Calm /\ Top.kind \in {"ret", "catch"}
    /\ ip' = Top.val
    /\ stack' = Front(stack)
    /\ UNCHANGED <<data, locals>>

SLocalsEnter ==
    /\ Ready /\ Calm
    /\ locals' > 0
    /\ stack' = Append(stack, Plain("locl", locals))
    /\ UNCHANGED <<ip, data>>

SLocalsExit ==
    /\ Ready /\ Calm /\ Top.kind = "locl"
    /\ locals' = Top.val
    /\ stack' = Front(stack)
    /\ UNCHANGED <<ip, data>>

SCatch ==
    /\ Ready /\ data # <<>>
    /\ data' = Front(data)
    /\ stack' = Append(stack,
                       Activation("catch", ResumeOf(ip), Len(data'), locals))
    /\ IF Last(data) \in Words
       THEN ip' = Last(data) /\ raising' = 0
       ELSE ip' = ip /\ raising' = InvalidAddress
    /\ outcome' = 0
    /\ UNCHANGED <<status, locals, abandoned>>

(* the word after CATCH finds the outcome on the data stack *)
SCatchEnd ==
    /\ Ready /\ Calm
    /\ ResumeOf(ip') = ip
    /\ data' = Append(data, outcome)
    /\ UNCHANGED <<stack, locals>>

SThrowToken ==
    /\ Ready /\ data # <<>>
    /\ raising' = Last(data)
    /\ data' = Front(data)
    /\ UNCHANGED <<status, ip, outcome, stack, locals, abandoned>>

Catches == {i \in DOMAIN stack : stack[i].kind = "catch"}

(* to the innermost active CATCH: deeper cells are kept, missing ones are  *)
(* invented                                                                *)
SThrow ==
    /\ status = "vm" /\ raising # 0 /\ Catches # {}
    /\ LET c == Max(Catches)
       IN /\ ip' = stack[c].val
          /\ stack' = SubSeq(stack, 1, c - 1)
          /\ Len(data') = stack[c].depth
          /\ \A i \in DOMAIN data' : i \in DOMAIN data => data'[i] = data[i]
          /\ locals' = stack[c].locals
    /\ outcome' = raising
    /\ raising' = 0
    /\ UNCHANGED <<status, abandoned>>

(* no CATCH is active: THROW returns to C; so does BYE, from anywhere.     *)
(* C is not told of the scopes that BYE leaves.                            *)
SReturnToC ==
    /\ status = "vm" /\ (raising # 0 => Catches = {} /\ abandoned = 0)
    /\ status' = "c"
    /\ raising' = 0 /\ outcome' = 0
    /\ stack' = <<>>
    /\ abandoned' = 0 <=> (abandoned = 0 /\ Catches = {})
    /\ UNCHANGED <<ip, data, locals>>

SRun ==
    /\ status = "c" /\ status' = "vm"
    /\ raising' = 0 /\ outcome' = 0
    /\ ip' \in Words
    /\ Len(stack') = 1 /\ stack'[1].kind = "ret"
    /\ \/ UNCHANGED <<data, locals, abandoned>>
       \/ data' = <<>> /\ locals' = 0 /\ abandoned' = 0

(* the code loses track of the program when CATCH finds no XT, or is used  *)
(* below a word that has local variables, and when an exception that no    *)
(* CATCH waits for goes to a scope that was left                           *)
SLost ==
    /\ status = "vm"
    /\ \/ raising = 0 /\ (data = <<>> \/ locals # 0)
       \/ raising # 0 /\ Catches = {} /\ abandoned # 0
    /\ status' = "lost"
    /\ UNCHANGED <<ip, raising, outcome, data, stack, locals, abandoned>>

SInit ==
    /\ status = "c" /\ raising = 0 /\ outcome = 0
    /\ data = <<>> /\ stack = <<>> /\ locals = 0 /\ abandoned = 0

SNext ==
    \/ SPush \/ SDrop \/ SToR \/ SRFrom \/ SCall \/ SExecute
    \/ SExecuteInvalid \/ SExit \/ SLocalsEnter \/ SLocalsExit \/ SCatch
    \/ SCatchEnd \/ SThrowToken \/ SThrow \/ SReturnToC \/ SRun \/ SLost

SSpec == SInit /\ [][SNext]_svars
=============================================================================
