------------------------------- MODULE Locals -------------------------------
(***************************************************************************)
(* Local variables of the m64th virtual machine (generic_asm/local.S).     *)
(* The first Ln variables of the running word are CPU registers shared by  *)
(* all words; the others are cells of its frame on the return stack.  A    *)
(* word that declares n variables spills there the first n registers, on   *)
(* behalf of its callers, and reloads them before it returns.              *)
(*                                                                         *)
(* The return stack is as in module CatchThrow: cell k is at end - 8*k,    *)
(* rsp is its pointer and rtop caches cell rsp+1.  A frame of n variables  *)
(* has variable j, or the spilled register j, in cell locl - j; the cell   *)
(* below holds the saved RTOP, and RTOP the frame's outer LOCL.            *)
(*                                                                         *)
(* `calls' is a history of the active words.  Words are well formed: the   *)
(* compiler puts (lexit) before every exit, and a word takes back from the *)
(* return stack what it pushed there before it exits.                      *)
(***************************************************************************)
EXTENDS Integers, Sequences, SequencesExt

CONSTANTS
    Ln,       \* number of local variables kept in registers
    Phys,     \* the CPU registers used for them
    Reg,      \* which register variable j is: [0 .. Ln-1 -> Phys]
    Sizes,    \* how many variables a word may declare
    Values,   \* the data a program computes with
    MaxR      \* bound: highest value of rsp

ASSUME RegAssumption ==
    /\ Ln = 0 \/ (Ln \in Nat /\ Ln >= 3)   \* `#if Ln >= 3': 1 and 2 do not work
    /\ Reg \in [0 .. Ln - 1 -> Phys]

ASSUME DataAssumption ==
    Sizes \subseteq Nat \ {0} /\ Values \subseteq Nat /\ MaxR \in Nat

VARIABLES
    reg,               \* the registers
    rmem, rsp, rtop,   \* return stack memory, pointer, cached top
    locl,              \* LOCL: cell number of the current frame, or 0
    dtop,              \* DTOP; the rest of the data stack is any data
    phase,             \* where the running word is in a call of a C function
    calls              \* history: active words, innermost last

vars == <<reg, rmem, rsp, rtop, locl, dtop, phase, calls>>

NoLocals == 0
Lesser(a, b) == IF a < b THEN a ELSE b

(* a word that was called when the return stack was base; it declared n    *)
(* variables and at is its frame                                           *)
Activation(n, at, base) == [n |-> n, at |-> at, base |-> base]
Me == Last(calls)
WithMe(a) == Append(Front(calls), a)

ReturnAddress(depth) == -depth   \* distinct, and no data

InWord == phase = "word"

-----------------------------------------------------------------------------
(* The registers to and from a frame. *)

(* memory after the first k registers are stored to the frame `at' and     *)
(* RTOP below it                                                           *)
SpillRegsOnly(at, k) ==
    [c \in DOMAIN rmem |->
        IF c \in at - k + 1 .. at THEN reg[Reg[at - c]] ELSE rmem[c]]
SpillRegs(at, k) ==
    [c \in DOMAIN rmem |->
        IF c = rsp + 1 THEN rtop
        ELSE IF c \in at - k + 1 .. at THEN reg[Reg[at - c]]
        ELSE rmem[c]]

(* registers after the first k are loaded from the frame `at', the lowest  *)
(* variable last                                                           *)
ReloadRegs(at, k) ==
    [p \in Phys |->
        IF \E j \in 0 .. k - 1 : Reg[j] = p
        THEN rmem[at - (CHOOSE j \in 0 .. k - 1 :
                          Reg[j] = p /\ \A i \in 0 .. j - 1 : Reg[i] # p)]
        ELSE reg[p]]

(* a frame of one or two variables is always spilled, a larger one only on *)
(* behalf of a caller that has a frame                                     *)
SpilledOneLess(n, outer) == IF n <= 2 \/ outer # NoLocals THEN Lesser(n, Ln - 1) ELSE 0
Spilled(n, outer) == IF n <= 2 \/ outer # NoLocals THEN Lesser(n, Ln) ELSE 0

PushFrame(n) ==
    /\ rsp + n + 1 <= MaxR   \* bound
    /\ rmem' = SpillRegs(rsp + n + 1, Spilled(n, locl))
    /\ rsp' = rsp + n + 1
    /\ locl' = rsp + n + 1
    /\ rtop' = locl

PopFrame(n, k, at) ==
    /\ reg' = ReloadRegs(at, k)
    /\ locl' = rtop
    /\ rtop' = rmem[rsp - n]
    /\ rsp' = rsp - n - 1
    /\ UNCHANGED rmem

-----------------------------------------------------------------------------
(* Tokens that an ordinary word is made of. *)

Compute(v) ==  \* whatever computes a value
    /\ InWord /\ dtop' = v
    /\ UNCHANGED <<reg, rmem, rsp, rtop, locl, phase, calls>>

Push(v) ==  \* RPUSH(RTOP) MOVE(v, RTOP)
    /\ rsp < MaxR   \* bound
    /\ rmem' = [rmem EXCEPT ![rsp + 1] = rtop]
    /\ rsp' = rsp + 1
    /\ rtop' = v
    /\ UNCHANGED <<reg, locl, phase>>

Pop == rtop' = rmem[rsp] /\ rsp' = rsp - 1 /\ UNCHANGED <<reg, rmem, locl, phase>>

ToR ==  \* >r
    /\ InWord /\ Push(dtop)
    /\ dtop' \in Values
    /\ UNCHANGED calls

(* r> of what this word pushed, before or after it declared variables *)
Mine == rsp > (IF Me.n = 0 THEN Me.base ELSE Me.at)
RFrom ==
    /\ InWord /\ Mine /\ Pop
    /\ dtop' = rtop
    /\ UNCHANGED calls

Call ==
    /\ InWord /\ Push(ReturnAddress(Len(calls)))
    /\ calls' = Append(calls, Activation(0, 0, rsp'))
    /\ UNCHANGED dtop

Exit ==
    /\ InWord /\ Len(calls) > 1 /\ Me.n = 0 /\ ~Mine
    /\ Pop
    /\ calls' = Front(calls)
    /\ UNCHANGED dtop

(* (lenter-1) ... (lenter-g), (lenter-x) *)
Lenter(n) ==
    /\ InWord /\ Me.n = 0 /\ PushFrame(n)
    /\ calls' = WithMe(Activation(n, rsp', Me.base))
    /\ UNCHANGED <<reg, dtop, phase>>

(* (lexit-1) ... (lexit-g), (lexit-x): the first three load from RSTK, the *)
(* others from LOCL                                                        *)
Lexit ==
    /\ InWord /\ Me.n # 0 /\ ~Mine
    /\ PopFrame(Me.n, Spilled(Me.n, rtop), IF Me.n <= 3 THEN rsp ELSE locl)
    /\ calls' = WithMe(Activation(0, 0, Me.base))
    /\ UNCHANGED <<dtop, phase>>

(* (l0) ... (lf), (lx) *)
Fetched(j) == IF j < Ln THEN reg[Reg[j]] ELSE rmem[locl - j]
FromLocal(j) ==
    /\ InWord /\ dtop' = Fetched(j)
    /\ UNCHANGED <<reg, rmem, rsp, rtop, locl, phase, calls>>

(* (>l0) ... (>lf), (>lx) pop the data stack; (dup>l0) ... do not *)
ToLocal(j) ==
    /\ InWord
    /\ IF j < Ln
       THEN reg' = [reg EXCEPT ![Reg[j]] = dtop] /\ UNCHANGED rmem
       ELSE rmem' = [rmem EXCEPT ![locl - j] = dtop] /\ UNCHANGED reg
    /\ dtop' \in Values
    /\ UNCHANGED <<rsp, rtop, locl, phase, calls>>

-----------------------------------------------------------------------------
(* A call of a C function: (c-locals-save) (c-call) (c-locals-load). *)

CSaves == Ln > 0 /\ locl # NoLocals

CLocalsSave ==
    /\ InWord
    /\ IF CSaves
       THEN PushFrame(Ln)
       ELSE UNCHANGED <<rmem, rsp, rtop, locl>>
    /\ phase' = "saved"
    /\ UNCHANGED <<reg, dtop, calls>>

(* The C function uses the registers as it likes. *)
CCall ==
    /\ phase = "saved"
    /\ reg' \in [Phys -> Values]
    /\ dtop' \in Values
    /\ phase' = "returned"
    /\ UNCHANGED <<rmem, rsp, rtop, locl, calls>>

CLoadsMine == Ln > 0 /\ Me.n # 0
CLoads == Ln > 0 /\ locl # NoLocals
CLocalsLoad ==
    /\ phase = "returned"
    /\ IF CLoads
       THEN PopFrame(Ln, Ln, locl)
       ELSE UNCHANGED <<reg, rmem, rsp, rtop, locl>>
    /\ phase' = "word"
    /\ UNCHANGED <<dtop, calls>>

(* the state m64th_run starts a word in, with LSTK = 0; the registers hold *)
(* anything, cells that were never written read as 0                       *)
Init ==
    /\ reg \in [Phys -> Values] /\ dtop \in Values
    /\ rmem = [c \in 0 .. MaxR |-> 0]
    /\ rsp = 0 /\ rtop = ReturnAddress(0)
    /\ locl = NoLocals /\ phase = "word"
    /\ calls = <<Activation(0, 0, 0)>>

Next ==
    \/ \E v \in Values : Compute(v)
    \/ ToR \/ RFrom \/ Call \/ Exit
    \/ \E n \in Sizes : Lenter(n)
    \/ Lexit
    \/ \E j \in 0 .. Me.n - 1 : FromLocal(j) \/ ToLocal(j)
    \/ CLocalsSave \/ CCall \/ CLocalsLoad

Spec == Init /\ [][Next]_vars
-----------------------------------------------------------------------------
(* Properties. *)

(* Registers, stack and history hold values of their kinds, and the frames *)
(* and bases of the active words are on the stack.                         *)
TypeOK ==
    /\ reg \in [Phys -> Int] /\ dtop \in Int
    /\ rmem \in [0 .. MaxR -> Int] /\ rsp \in 0 .. MaxR /\ rtop \in Int
    /\ locl \in 0 .. MaxR
    /\ phase \in {"word", "saved", "returned"}
    /\ calls \in Seq([n : {0} \cup Sizes, at : 0 .. MaxR, base : 0 .. MaxR])
    /\ calls # <<>>

(* logical cell c of the return stack, wherever it is *)
Cell(c) == IF c = rsp + 1 THEN rtop ELSE rmem[c]

InC == phase # "word" /\ CSaves   \* the innermost frame is of a C call

(* the frames of the active words, and the one that saves them during a    *)
(* call of a C function                                                    *)
Frames == {calls[a].at : a \in {b \in DOMAIN calls : calls[b].n # 0}}
          \cup (IF InC THEN {locl} ELSE {})

Innermost(v, set) ==
    IF set = {} THEN v = NoLocals ELSE v \in set /\ \A f \in set : f <= v

(* LOCL is the frame of the innermost word that has variables, also across *)
(* words that have none and calls of C functions, and the cell above each  *)
(* frame is the next outer one (local.S, _lenter_x_ and _lexit_x_).        *)
LoclIsInnermost ==
    /\ Innermost(locl, Frames)
    /\ \A f \in Frames : Innermost(Cell(f + 1), {g \in Frames : g < f})

(* Whatever frames and data were pushed over it, the return address of     *)
(* every active word is in the cell it was pushed to, where exit finds it  *)
(* after (lexit) (local.S, "LOAD(RTOP ...)"; call.S, exit).                *)
ReturnAddressesKept ==
    \A a \in DOMAIN calls : Cell(calls[a].base + 1) = ReturnAddress(a - 1)

(* frames that hold register j on behalf of the active word a *)
Holding(a, j) ==
    {calls[b].at : b \in {c \in DOMAIN calls : c > a /\ calls[c].n > j}}
    \cup (IF InC THEN {locl} ELSE {})

(* variable j of the active word a, wherever it is *)
Variable(a, j) ==
    IF j >= Ln THEN rmem[calls[a].at - j]
    ELSE IF Holding(a, j) = {} THEN reg[Reg[j]]
    ELSE rmem[Min(Holding(a, j)) - j]

Variables == [a \in DOMAIN calls |-> [i \in 1 .. calls[a].n |-> Variable(a, i - 1)]]

(* Spilling and reloading registers gives every word its own variables,    *)
(* when no two of them are in one register.                                *)
RegistersApart == \A i, j \in 0 .. Ln - 1 : Reg[i] = Reg[j] => i = j
Vars == INSTANCE LocalVars WITH frames <- Variables, top <- dtop
ImplementsLocalVars == Vars!LSpec
=============================================================================
