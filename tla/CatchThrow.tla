----------------------------- MODULE CatchThrow -----------------------------
(***************************************************************************)
(* The exception machinery of the m64th virtual machine: CATCH and THROW   *)
(* over the two stacks (generic_asm/call.S), the tokens that move the      *)
(* return stack under them, and the way in and out of the VM from C        *)
(* (amd64/call.S: m64th_run, bye; m64th.c: m64th_clear,                    *)
(* m64th_execute_word).                                                    *)
(*                                                                         *)
(* Both stacks are memory, growing down, with their top element cached in  *)
(* a register.  Cell k of a stack is at address end - 8*k, so dsp is       *)
(* (dend - DSTK) / 8 and rsp is (rend - RSTK) / 8; the register DTOP (RTOP)*)
(* is logically cell dsp+1 (rsp+1).  An empty data stack has dsp = -1.     *)
(*                                                                         *)
(* A word's body is one address: a multiple of 8 as every XT is.  Only the *)
(* position that matters inside a body has an address of its own: the      *)
(* (catch-end) that follows a (catch-beg), two bytes into the body.        *)
(***************************************************************************)
EXTENDS Integers, Sequences

CONSTANTS
    XTs,       \* addresses of the bodies of the defined words
    Literals,  \* the other cells a program pushes: data and throw codes
    TextLow,   \* address of the first word: lower bound of a plausible XT
    CStack,    \* saved C stack pointer: upper bound of a plausible XT
    MaxD,      \* bound: highest value of dsp
    MaxR       \* bound: highest value of rsp

(* error codes, include/err.mh *)
StackUnderflow == -4
InvalidAddress == -9

(* what _validate_xt_to_reg0_ accepts as an XT, the stack depth apart *)
PlausibleXT(v) == v % 8 = 0 /\ TextLow <= v /\ v < CStack

ASSUME XTsAssumption ==
    /\ XTs \subseteq {x \in Nat : x >= 8 /\ PlausibleXT(x)}
    /\ XTs # {}

(* Forth does not defend against a cell that looks like an XT and is not   *)
(* one; programs that execute such a cell are outside the model.           *)
ASSUME LiteralsAssumption ==
    /\ Literals \subseteq Int
    /\ \A v \in Literals : PlausibleXT(v) => v \in XTs

ASSUME BoundsAssumption ==
    /\ TextLow \in Nat \ {0} /\ CStack \in Nat
    /\ MaxD \in Nat /\ MaxR \in Nat /\ MaxR >= 1

(* the token that m64th_execute_word puts after the call: bye *)
HostBye == 4
CatchEndOf(x) == x + 2
Bodies == XTs
CatchEnds == {CatchEndOf(x) : x \in XTs}
Addresses == Bodies \cup CatchEnds \cup {HostBye}

NoLocals == 0       \* LOCL when no caller has local variables
FrameLocals == 16   \* cells reserved by (lenter-g) in (catch-beg)

VARIABLES
    status,    \* "vm" running, "c" returned to C, "lost" jumped nowhere
    ip,        \* IP
    reg0,      \* REG0: exception being thrown, 0 if none
    dmem, dsp, dtop,   \* data stack memory, pointer, cached top
    rmem, rsp, rtop,   \* return stack memory, pointer, cached top
    locl,      \* LOCL: cell number of the current locals frame, or 0
    handler,   \* m64th.handler: rend - rstk of the innermost catch, or 0
    ex,        \* m64th.ex
    tag,       \* history: what each return stack cell was pushed for
    entry      \* history: m64th.handler and LOCL when C entered the VM

stacks == <<dmem, dsp, dtop, rmem, rsp, rtop>>
vars == <<status, ip, reg0, dmem, dsp, dtop, rmem, rsp, rtop, locl, handler,
          ex, tag, entry>>

Tags == {"bottom", "ret", "data", "locl", "saved", "catch"}
Chained == {"catch", "locl"}   \* those whose cells save a pointer to the next outer one

-----------------------------------------------------------------------------
(* Stack primitives. *)

DPop ==  \* DPOP___DTOP()
    /\ dtop' = dmem[dsp]
    /\ dsp' = dsp - 1
    /\ UNCHANGED dmem

DPush(v) ==  \* DPUSH__DTOP() MOVE(v, DTOP)
    /\ dsp < MaxD   \* bound
    /\ dmem' = [dmem EXCEPT ![dsp + 1] = dtop]
    /\ dsp' = dsp + 1
    /\ dtop' = v

(* RPUSH(RTOP) MOVE(v, RTOP), for the purpose named by the tag *)
RPush(v, t) ==
    /\ rsp < MaxR   \* bound
    /\ rmem' = [rmem EXCEPT ![rsp + 1] = rtop]
    /\ rsp' = rsp + 1
    /\ rtop' = v
    /\ tag' = [tag EXCEPT ![rsp + 2] = t]

RPop ==  \* RPOP(RTOP)
    /\ rtop' = rmem[rsp]
    /\ rsp' = rsp - 1
    /\ UNCHANGED <<rmem, tag>>

RTag == tag[rsp + 1]   \* what the cached top of the return stack is

Running == status = "vm" /\ reg0 = 0
InBody == Running /\ ip \in Bodies
AtCatchEnd == Running /\ ip \in CatchEnds

(* TOKEN_CALL_NOTHROW(_validate_xt_to_reg0_): the value left in REG0 *)
ValidateXT ==
    IF dsp < 0 THEN StackUnderflow
    ELSE IF PlausibleXT(dtop) THEN 0 ELSE InvalidAddress

-----------------------------------------------------------------------------
(* Tokens that an ordinary word is made of. *)

Push(v) ==
    /\ InBody /\ DPush(v)
    /\ UNCHANGED <<status, ip, reg0, rmem, rsp, rtop, locl, handler, ex, tag, entry>>

Drop ==
    /\ InBody /\ dsp >= 0 /\ DPop
    /\ UNCHANGED <<status, ip, reg0, rmem, rsp, rtop, locl, handler, ex, tag, entry>>

ToR ==  \* >r
    /\ InBody /\ dsp >= 0 /\ DPop /\ RPush(dtop, "data")
    /\ UNCHANGED <<status, ip, reg0, locl, handler, ex, entry>>

RFrom ==  \* r>
    /\ InBody /\ RTag = "data" /\ DPush(rtop) /\ RPop
    /\ UNCHANGED <<status, ip, reg0, locl, handler, ex, entry>>

Call(x) ==  \* (call): the return address is in the calling body
    /\ InBody /\ RPush(ip, "ret")
    /\ ip' = x
    /\ UNCHANGED <<status, reg0, dmem, dsp, dtop, locl, handler, ex, entry>>

Execute ==
    /\ InBody
    /\ IF ValidateXT # 0
       THEN /\ reg0' = ValidateXT
            /\ UNCHANGED <<ip, stacks, tag>>
       ELSE /\ RPush(ip, "ret") /\ DPop
            /\ ip' = dtop
            /\ UNCHANGED reg0
    /\ UNCHANGED <<status, locl, handler, ex, entry>>

(* exit: the compiler and the rules of Forth leave the return address of   *)
(* this activation on top of the return stack, which is the address of a   *)
(* (catch-end) when the word was called by (catch-beg).                    *)
Exit ==
    /\ InBody /\ RTag \in {"ret", "catch"}
    /\ RTag = "catch" => dsp < MaxD   \* bound: (catch-end) pushes a cell
    /\ ip' = rtop
    /\ RPop
    /\ UNCHANGED <<status, reg0, dmem, dsp, dtop, locl, handler, ex, entry>>

(* (lenter-1): save RTOP, spill one register of the caller, link LOCL.     *)
(* The value of the spilled register is abstracted to 0 (module Locals).   *)
LocalsEnter ==
    /\ InBody
    /\ rsp + 2 <= MaxR   \* bound
    /\ rmem' = [rmem EXCEPT ![rsp + 1] = rtop, ![rsp + 2] = 0]
    /\ rsp' = rsp + 2
    /\ rtop' = locl
    /\ locl' = rsp + 2
    /\ tag' = [tag EXCEPT ![rsp + 2] = "saved", ![rsp + 3] = "locl"]
    /\ UNCHANGED <<status, ip, reg0, dmem, dsp, dtop, handler, ex, entry>>

LocalsExit ==  \* (lexit-1)
    /\ InBody /\ RTag = "locl"
    /\ locl' = rtop
    /\ rtop' = rmem[rsp - 1]
    /\ rsp' = rsp - 2
    /\ UNCHANGED <<status, ip, reg0, dmem, dsp, dtop, rmem, handler, ex, tag, entry>>

-----------------------------------------------------------------------------
(* catch *)

(* _catch_beg_ without local variables: the frame is                       *)
(*    old-RTOP  old-LOCL  depth  old-handler   with RTOP = IP              *)
(* and depth is the one left after the XT was popped.                      *)
SavedDepth == dsp - 1

CatchBeg ==
    /\ InBody /\ locl = NoLocals /\ dsp >= 0
    /\ rsp + 4 <= MaxR   \* bound
    /\ rmem' = [rmem EXCEPT ![rsp + 1] = rtop, ![rsp + 2] = locl,
                            ![rsp + 3] = SavedDepth, ![rsp + 4] = handler]
    /\ rsp' = rsp + 4
    /\ rtop' = CatchEndOf(ip)
    /\ tag' = [tag EXCEPT ![rsp + 2] = "saved", ![rsp + 3] = "saved",
                          ![rsp + 4] = "saved", ![rsp + 5] = "catch"]
    /\ handler' = rsp + 4
    /\ ex' = 0
    /\ DPop
    /\ reg0' = ValidateXT                        \* throw if XT is invalid
    /\ ip' = IF ValidateXT = 0 THEN dtop ELSE ip
    /\ UNCHANGED <<status, locl, entry>>

(* _catch_beg_ when some caller has local variables: TOKEN_CALL_NOTHROW    *)
(* pushes VM, (lenter-g) moves RSTK by 17 cells and the matching RPOP(VM)  *)
(* takes the spilled local 0 for VM: the next NEXT0() jumps there.         *)
CatchLosesVM ==
    /\ InBody /\ locl # NoLocals
    /\ status' = "lost"
    /\ UNCHANGED <<ip, reg0, stacks, locl, handler, ex, tag, entry>>

(* _catch_beg_ on an empty stack: _validate_xt_to_reg0_ returns before it  *)
(* turns REG1 = dend into a depth, and (throw) restores that "depth".      *)
CatchLosesDepth ==
    /\ InBody /\ locl = NoLocals /\ dsp < 0
    /\ status' = "lost"
    /\ UNCHANGED <<ip, reg0, stacks, locl, handler, ex, tag, entry>>

(* _catch_end_ , both after the XT returned and after throw *)
ExKept == ex
ExAfterCatchEnd == 0
HandlerKept == handler
HandlerAfterReturn == rtop

CatchEnd ==
    /\ AtCatchEnd
    /\ \E x \in XTs : CatchEndOf(x) = ip /\ ip' = x
    /\ DPush(ex)
    /\ IF ex # 0
       THEN /\ ex' = ExAfterCatchEnd
            /\ UNCHANGED <<rmem, rsp, rtop, locl, handler>>
       ELSE LET frame == rsp - 1   \* cell that holds old-LOCL
                base == IF rmem[frame] = NoLocals THEN frame - 1
                        ELSE frame - 1 - FrameLocals
            IN /\ handler' = HandlerAfterReturn
               /\ locl' = rmem[frame]
               /\ rtop' = rmem[base]
               /\ rsp' = base - 1
               /\ UNCHANGED <<ex, rmem>>
    /\ UNCHANGED <<status, reg0, tag, entry>>

-----------------------------------------------------------------------------
(* throw *)

ThrowToken ==  \* throw ( ex -- ): 0 throws nothing
    /\ InBody /\ dsp >= 0
    /\ reg0' = dtop
    /\ DPop
    /\ UNCHANGED <<status, ip, rmem, rsp, rtop, locl, handler, ex, tag, entry>>

(* the saved IP is still in RTOP unless something was pushed since *)
SavedIPInRTOP == rtop
SavedIP == IF handler = rsp THEN rtop ELSE rmem[handler + 1]

(* restore the data stack depth, and DTOP with it *)
RestoreDepthDTOPLost(depth) ==
    /\ dsp' = depth
    /\ dtop' = IF depth < dsp THEN dmem[depth + 1]
               ELSE IF depth > dsp THEN -1 ELSE dtop
    /\ UNCHANGED dmem
RestoreDepth(depth) ==
    /\ dsp' = depth
    /\ dtop' = IF depth < dsp THEN dmem[depth + 1]
               ELSE IF depth > dsp THEN -1 ELSE dtop
    /\ dmem' = IF depth > dsp THEN [dmem EXCEPT ![dsp + 1] = dtop] ELSE dmem

(* the locals frame that was current when _catch_beg_ ran *)
LoclOfThrower(frame) == locl
LoclFromDepth(frame) == rmem[frame + 1]
LoclAfterThrow(frame) == rmem[frame]

(* cells of the return stack that were pushed for a purpose *)
Live(t) == {p \in 0 .. rsp + 1 : tag[p] = t}

(* _throw_reg0_ with a handler *)
Throwing == status = "vm" /\ reg0 # 0
Throw ==
    /\ Throwing /\ handler # 0 /\ Live("catch") # {}
    /\ ex' = reg0
    /\ reg0' = 0
    /\ ip' = SavedIP
    /\ handler' = rmem[handler]
    /\ RestoreDepth(rmem[handler - 1])
    /\ LET frame == handler - 2
           base == IF rmem[frame] = NoLocals THEN frame - 1
                   ELSE frame - 1 - FrameLocals    \* _lexit_g_
       IN /\ locl' = LoclAfterThrow(frame)
          /\ rtop' = rmem[base]
          /\ rsp' = base - 1
    /\ UNCHANGED <<status, rmem, tag, entry>>

(* _throw_reg0_ where no CATCH of this run is active and m64th.handler is  *)
(* the one of an earlier run: RSTK moves to where that run had its frame,  *)
(* and what is popped there is whatever was stored since.                  *)
ThrowLosesFrame ==
    /\ Throwing /\ handler # 0 /\ Live("catch") = {}
    /\ status' = "lost"
    /\ UNCHANGED <<ip, reg0, stacks, locl, handler, ex, tag, entry>>

-----------------------------------------------------------------------------
(* C side.  The return stack is the C stack (the default of main.c): bye   *)
(* forgets it, m64th_run starts a new one.  The data stack survives.       *)

ReturnToC ==
    /\ status' = "c"
    /\ dmem' = [dmem EXCEPT ![dsp + 1] = dtop]
    /\ dsp' = dsp + 1
    /\ UNCHANGED <<ip, dtop, rmem, rsp, rtop, locl, handler, tag, entry>>

Bye ==
    /\ Running /\ ip \notin CatchEnds
    /\ ReturnToC
    /\ UNCHANGED <<reg0, ex>>

(* _throw_reg0_ without a handler *)
Uncaught ==
    /\ Throwing /\ handler = 0
    /\ ex' = reg0
    /\ reg0' = 0
    /\ ReturnToC

(* m64th_execute_word: m64th_run enters at a call of x followed by bye,    *)
(* with this handler and LOCL                                              *)
Enter(x, h, l) ==
    /\ status = "c"
    /\ status' = "vm"
    /\ ip' = x
    /\ rmem' = [rmem EXCEPT ![0] = 0]
    /\ rsp' = 0
    /\ rtop' = HostBye
    /\ tag' = [tag EXCEPT ![0] = "bottom", ![1] = "ret"]
    /\ handler' = h /\ locl' = l
    /\ entry' = [t \in Chained |-> IF t = "catch" THEN h ELSE l]
    /\ UNCHANGED reg0

(* m64th.handler, LOCL and m64th.ex stay as the run before left them       *)
Run(x) ==
    /\ Enter(x, handler, locl)
    /\ DPop
    /\ UNCHANGED ex

(* m64th_clear, then m64th_execute_word *)
ClearAndRun(x) ==
    /\ Enter(x, 0, NoLocals)
    /\ dtop' = dmem[0]
    /\ dsp' = -1
    /\ ex' = 0
    /\ UNCHANGED dmem

(* the state m64th_new leaves: m6mem_map fills the data stack with -1 *)
Init ==
    /\ status = "c" /\ ip = HostBye /\ reg0 = 0
    /\ dmem = [k \in 0 .. MaxD + 1 |-> -1] /\ dsp = 0 /\ dtop = -1
    /\ rmem = [k \in 0 .. MaxR |-> 0] /\ rsp = -1 /\ rtop = 0
    /\ tag = [k \in 0 .. MaxR + 1 |-> "bottom"]
    /\ locl = NoLocals /\ handler = 0 /\ ex = 0
    /\ entry = [t \in Chained |-> 0]

(* a program whose IP was lost does nothing more that is known *)
Lost == status = "lost" /\ UNCHANGED vars

Tokens ==
    \/ \E v \in Literals \cup XTs : Push(v)
    \/ Drop \/ ToR \/ RFrom
    \/ \E x \in XTs : Call(x)
    \/ Execute \/ Exit \/ LocalsEnter \/ LocalsExit
    \/ CatchBeg \/ CatchLosesVM \/ CatchLosesDepth \/ CatchEnd
    \/ ThrowToken \/ Throw \/ ThrowLosesFrame \/ Uncaught \/ Bye \/ Lost

Next == Tokens \/ \E x \in XTs : Run(x) \/ ClearAndRun(x)
Spec == Init /\ [][Next]_vars
-----------------------------------------------------------------------------
(* Properties. *)

(* a cell a program computes with: what looks like an XT is one *)
Datum == {v \in Int : PlausibleXT(v) => v \in XTs}

(* The registers and memories hold values of their kinds; EXECUTE and      *)
(* CATCH only ever find an XT that _validate_xt_to_reg0_ may accept where  *)
(* a program put one.                                                      *)
TypeOK ==
    /\ status \in {"vm", "c", "lost"}
    /\ ip \in Addresses
    /\ reg0 \in Datum /\ ex \in Datum
    /\ dmem \in [0 .. MaxD + 1 -> Datum] /\ dtop \in Datum
    /\ dsp \in -1 .. MaxD + 1
    /\ rmem \in [0 .. MaxR -> Int] /\ rtop \in Int
    /\ rsp \in -1 .. MaxR
    /\ tag \in [0 .. MaxR + 1 -> Tags]
    /\ locl \in 0 .. MaxR /\ handler \in 0 .. MaxR
    /\ entry \in [Chained -> 0 .. MaxR]

(* logical cell p of the return stack, wherever it is *)
Cell(p) == IF p = rsp + 1 THEN rtop ELSE rmem[p]

(* v is the saved pointer (cell number - 1) to the innermost cell pushed   *)
(* for t at or below top, or if there is none what the run began with      *)
Innermost(t, v, top) ==
    \/ v = entry[t] /\ \A p \in 0 .. top : tag[p] # t
    \/ /\ v \in 1 .. top - 1 /\ tag[v + 1] = t
       /\ \A p \in v + 2 .. top : tag[p] # t

(* between the exit of the caught word and (catch-end), the old handler is *)
(* in RTOP and not yet in m64th.handler                                    *)
ReturnedFromCatch == AtCatchEnd /\ ex = 0
HandlerInForce == IF ReturnedFromCatch THEN rtop ELSE handler

(* While the VM runs, m64th.handler designates the innermost CATCH that is *)
(* still active, and the handler saved in each active frame designates the *)
(* next outer one: throw never unwinds to a frame that was already left    *)
(* and never skips one.  The outermost frame keeps what the run was        *)
(* entered with, which is not 0 after BYE inside a CATCH (call.S,          *)
(* _catch_beg_, _catch_end_, throw; amd64/call.S, bye, m64th_run).         *)
HandlerChain ==
    status = "vm" =>
        /\ Innermost("catch", HandlerInForce, rsp + 1)
        /\ \A p \in Live("catch") : p >= 5 /\ Innermost("catch", rmem[p - 1], p - 1)

(* While the VM runs, LOCL is the innermost locals frame that is still on  *)
(* the return stack, also after a throw has unwound over words with local  *)
(* variables; without such a frame it is what the run was entered with     *)
(* (call.S, throw; local.S, _lenter_1_; amd64/call.S, m64th_run).          *)
LoclChain ==
    status = "vm" =>
        /\ Innermost("locl", locl, rsp + 1)
        /\ \A p \in Live("locl") : p >= 2 /\ Innermost("locl", Cell(p), p - 1)

(* (catch-end) tells by m64th.ex alone how it was reached: 0 exactly when  *)
(* the caught word returned and its frame is still on the return stack,    *)
(* whatever exceptions were thrown and caught inside it (_catch_end_).     *)
ExTellsHow == AtCatchEnd => (ex = 0 <=> RTag = "saved")

(* A throw with an active CATCH resumes right after the innermost one, in  *)
(* the body that executed it, with the return stack that CATCH found, the  *)
(* data stack depth that CATCH left to the caught word and the locals      *)
(* frame of that time (throw, "return stack now contains").                *)
ThrowStep ==
    LET c == handler + 1
    IN /\ c \in Live("catch") /\ \A p \in Live("catch") : p <= c
       /\ ip' = Cell(c) /\ ip' \in CatchEnds
       /\ rsp' + 1 = c - 4 /\ rtop' = rmem[c - 4]
       /\ dsp' = rmem[c - 2] /\ locl' = rmem[c - 3]
       /\ \A k \in 0 .. dsp : k <= dsp' => dmem'[k] = dmem[k]
ThrowResumesInnermost ==
    [][Throwing /\ Live("catch") # {} => ThrowStep]_vars

(* CATCH leaves the program with an instruction pointer also below a word  *)
(* with local variables ("save locals to rstk", _catch_beg_, call.S).      *)
CatchSavesLocals == [][locl # NoLocals /\ ~ Throwing => status' # "lost"]_vars

-----------------------------------------------------------------------------
(* The inductive invariant: the shape of every live cell of the return     *)
(* stack, given what it was pushed for.                                    *)

(* cell q is what a running body finds on top of the return stack *)
OnTopOfBody(q) == q >= 1 /\ tag[q] # "saved"

(* cells q-2 .. q are what _catch_beg_ saved: LOCL, depth and handler *)
CatchFrame(q) ==
    /\ q >= 4
    /\ tag[q] = "saved" /\ tag[q - 1] = "saved" /\ tag[q - 2] = "saved"
    /\ OnTopOfBody(q - 3)
    /\ Innermost("catch", Cell(q), q)
    /\ Cell(q - 1) \in -1 .. MaxD - 1
    /\ Cell(q - 2) = NoLocals
    /\ Innermost("locl", NoLocals, q)

WellFormed(p) ==
    /\ p = 0 <=> tag[p] = "bottom"
    /\ tag[p] = "ret" => /\ Cell(p) \in Bodies \cup {HostBye}
                         /\ Cell(p) \in Bodies => OnTopOfBody(p - 1)
    /\ tag[p] = "data" => OnTopOfBody(p - 1) /\ Cell(p) \in Datum
    /\ tag[p] = "locl" => /\ tag[p - 1] = "saved"
                          /\ OnTopOfBody(p - 2)
                          /\ Innermost("locl", Cell(p), p - 1)
    /\ tag[p] = "catch" => CatchFrame(p - 1) /\ Cell(p) \in CatchEnds

StackShape == \A p \in 0 .. rsp + 1 : WellFormed(p)

Control ==
    /\ dsp <= MaxD
    /\ ip \notin Bodies => reg0 = 0
    /\ ip \in Bodies => OnTopOfBody(rsp + 1)
    /\ ip \notin CatchEnds => (handler # 0 => ex = 0)
    /\ ip \in CatchEnds => /\ dsp < MaxD
                           /\ ex # 0 => OnTopOfBody(rsp + 1)
                           /\ ex = 0 => CatchFrame(rsp + 1)

Chains ==
    /\ Innermost("catch", HandlerInForce, rsp + 1)
    /\ Innermost("locl", locl, rsp + 1)

(* The invariant that the steps of the machine preserve: HandlerChain,     *)
(* LoclChain and ExTellsHow follow from it (call.S, local.S).              *)
IInv ==
    /\ TypeOK
    /\ status = "vm" => Control /\ Chains /\ StackShape
    /\ status = "c" => dsp >= 0 /\ reg0 = 0 /\ (handler # 0 => ex = 0)

-----------------------------------------------------------------------------
(* The machine as scopes of CATCH and THROW.                               *)

(* What cell p of the return stack was pushed for, with what throw takes   *)
(* from the cells of a frame.                                              *)
ActivationAt(p) ==
    [kind |-> tag[p], val |-> Cell(p),
     depth |-> IF tag[p] = "catch" THEN rmem[p - 2] + 1 ELSE 0,
     locals |-> IF tag[p] = "catch" THEN rmem[p - 3] ELSE 0]

(* The cells up to n that begin an activation, in order: all but the       *)
(* bottom and those saved on behalf of another.                            *)
Begun(acts, n) ==
    LET begun[p \in Int] ==
            IF p < 0 THEN <<>>
            ELSE IF acts[p].kind \in {"bottom", "saved"} THEN begun[p - 1]
            ELSE Append(begun[p - 1], acts[p])
    IN  begun[n]

AbstractStack ==
    IF status = "c" THEN <<>> ELSE Begun([p \in 0 .. rsp + 1 |-> ActivationAt(p)], rsp + 1)

AbstractData ==
    IF status = "c" THEN [i \in 1 .. dsp |-> dmem[i]]
    ELSE [i \in 1 .. dsp + 1 |-> IF i = dsp + 1 THEN dtop ELSE dmem[i]]

AbstractOutcome == IF AtCatchEnd THEN ex ELSE 0

(* the handler of an earlier run that ended inside a CATCH                 *)
Abandoned == IF status = "c" THEN handler ELSE entry["catch"]

Scopes == INSTANCE ExceptionScopes WITH
    Words <- XTs,
    raising <- reg0,
    outcome <- AbstractOutcome,
    data <- AbstractData,
    stack <- AbstractStack,
    locals <- locl,
    abandoned <- Abandoned

(* The machine with its cached tops, saved pointers and handler cells      *)
(* implements nested scopes of CATCH and THROW (generic_asm/call.S).       *)
ImplementsScopes == Scopes!SSpec
=============================================================================
