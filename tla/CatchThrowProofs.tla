--------------------------- MODULE CatchThrowProofs ---------------------------
(***************************************************************************)
(* Proofs about CatchThrow for every set of words, every literal and every *)
(* size of the two stacks: IInv is inductive, and it implies that the      *)
(* types are right, that m64th.handler and LOCL designate the innermost    *)
(* live frame, and that a throw resumes the innermost active CATCH.  The   *)
(* second half proves that the machine implements ExceptionScopes: what    *)
(* Begun makes of the live cells of the return stack, then one lemma per   *)
(* action, S...Step, that maps it to a step of the scopes.                 *)
(***************************************************************************)
EXTENDS CatchThrow, Induction, SequenceTheorems

(* The three kinds of code addresses are told apart by IP alone. *)
LEMMA AddressKinds ==
    /\ Bodies \subseteq Nat /\ CatchEnds \subseteq Nat
    /\ Bodies \cap CatchEnds = {}
    /\ HostBye \notin Bodies /\ HostBye \notin CatchEnds
    /\ \A x \in XTs : CatchEndOf(x) \in CatchEnds
    /\ Addresses \subseteq Int
<1>1. \A x \in XTs : x \in Nat /\ x >= 8 /\ x % 8 = 0
  BY XTsAssumption DEF PlausibleXT
<1>2. \A x, y \in XTs : x + 2 # y
  BY <1>1
<1>3. QED
  BY <1>1, <1>2 DEF Bodies, CatchEnds, CatchEndOf, HostBye, Addresses

LEMMA DatumFacts ==
    /\ Literals \cup XTs \subseteq Datum /\ Datum \subseteq Int
    /\ 0 \in Datum /\ -1 \in Datum
    /\ StackUnderflow \in Datum /\ InvalidAddress \in Datum
    /\ \A v \in Datum : PlausibleXT(v) => v \in XTs
<1>1. XTs \subseteq Int /\ Literals \subseteq Int
  BY XTsAssumption, LiteralsAssumption
<1>2. Literals \cup XTs \subseteq Datum
  BY <1>1, LiteralsAssumption DEF Datum
<1>3. \A v \in Int : v < 1 => v \in Datum
  BY BoundsAssumption DEF Datum, PlausibleXT
<1>4. QED
  BY <1>2, <1>3 DEF Datum, StackUnderflow, InvalidAddress

(* A cell of the return stack keeps its shape as long as it and the cells  *)
(* below it keep their values and their tags.                              *)
LEMMA WellFormedStable ==
    ASSUME TypeOK, TypeOK', NEW p \in 0 .. MaxR + 1, entry' = entry,
           \A k \in 0 .. p : tag'[k] = tag[k] /\ Cell(k)' = Cell(k),
           WellFormed(p)
    PROVE  WellFormed(p)'
<1> USE BoundsAssumption
<1>1. tag'[p] = tag[p] /\ Cell(p)' = Cell(p)
  OBVIOUS
<1>2. \A q \in 1 .. p : OnTopOfBody(q) => OnTopOfBody(q)'
  BY DEF OnTopOfBody
<1>3. ASSUME NEW t, NEW v, NEW q \in 0 .. p, Innermost(t, v, q)
      PROVE  Innermost(t, v, q)'
  BY <1>3 DEF Innermost
<1>4. (p = 0 <=> tag[p] = "bottom")'
  BY <1>1 DEF WellFormed
<1>5. tag[p] = "ret" => (/\ Cell(p) \in Bodies \cup {HostBye}
                         /\ Cell(p) \in Bodies => OnTopOfBody(p - 1))'
  BY <1>1, <1>2 DEF WellFormed, OnTopOfBody
<1>6. tag[p] = "data" => (OnTopOfBody(p - 1) /\ Cell(p) \in Datum)'
  BY <1>1, <1>2 DEF WellFormed, OnTopOfBody
<1>7. CASE tag[p] = "locl"
  <2>1. p # 0 /\ OnTopOfBody(p - 2) /\ tag[p - 1] = "saved"
        /\ Innermost("locl", Cell(p), p - 1)
    BY <1>7 DEF WellFormed
  <2>2. p - 2 >= 1 /\ OnTopOfBody(p - 2)' /\ tag'[p - 1] = "saved"
    BY <2>1, <1>2 DEF OnTopOfBody
  <2>3. Innermost("locl", Cell(p), p - 1)'
    BY <2>1, <2>2, <1>1, <1>3 DEF Innermost
  <2>4. QED
    BY <1>1, <1>4, <1>7, <2>2, <2>3 DEF WellFormed
<1>8. CASE tag[p] = "catch"
  <2> DEFINE q == p - 1
  <2>1. CatchFrame(q) /\ q >= 4 /\ q \in 0 .. p
    BY <1>8 DEF WellFormed, CatchFrame
  <2>2. /\ tag'[q] = "saved" /\ tag'[q - 1] = "saved" /\ tag'[q - 2] = "saved"
        /\ OnTopOfBody(q - 3)'
        /\ Cell(q - 1)' \in -1 .. MaxD - 1 /\ Cell(q - 2)' = NoLocals
        /\ Cell(q)' = Cell(q)
    BY <2>1, <1>2 DEF CatchFrame, OnTopOfBody
  <2>3. Innermost("catch", Cell(q), q)'
    BY <2>1, <2>2 DEF CatchFrame, Innermost
  <2>4. Innermost("locl", NoLocals, q)'
    BY <2>1, <1>3 DEF CatchFrame, NoLocals, Innermost
  <2>5. CatchFrame(q)'
    BY <2>1, <2>2, <2>3, <2>4 DEF CatchFrame
  <2>6. Cell(p)' \in CatchEnds
    BY <1>1, <1>8 DEF WellFormed
  <2>7. QED
    BY <1>1, <1>4, <1>8, <2>5, <2>6 DEF WellFormed, CatchEnds
<1>9. QED
  BY <1>1, <1>4, <1>5, <1>6, <1>7, <1>8 DEF WellFormed

(* A step that keeps the cells up to top keeps the shape of the stack if   *)
(* the cells it puts above top are well formed.                            *)
LEMMA StackShapeStep ==
    ASSUME TypeOK, TypeOK', StackShape, entry' = entry,
           NEW top \in 0 .. MaxR + 1, top <= rsp + 1, top <= rsp' + 1,
           \A k \in 0 .. top : tag'[k] = tag[k] /\ Cell(k)' = Cell(k),
           \A p \in 0 .. rsp' + 1 : p > top => WellFormed(p)'
    PROVE  StackShape'
<1> USE BoundsAssumption
<1>1. rsp \in -1 .. MaxR /\ rsp' \in -1 .. MaxR
  BY DEF TypeOK
<1>2. SUFFICES ASSUME NEW p \in 0 .. rsp' + 1 PROVE WellFormed(p)'
  BY DEF StackShape
<1>3. CASE p <= top
  <2>1. p \in 0 .. MaxR + 1 /\ p \in 0 .. rsp + 1
    BY <1>1, <1>3
  <2>2. WellFormed(p)
    BY <2>1 DEF StackShape
  <2>3. \A k \in 0 .. p : tag'[k] = tag[k] /\ Cell(k)' = Cell(k)
    BY <1>3
  <2>4. QED
    BY <2>1, <2>2, <2>3, WellFormedStable
<1>4. CASE ~(p <= top)
  <2>1. p > top
    BY <1>1, <1>4
  <2>2. QED
    BY <2>1, Zenon
<1>5. QED
  BY <1>3, <1>4

(* The data stack alone moves: what is known of the return stack stays.    *)
LEMMA DataStep ==
    ASSUME IInv, InBody,
           UNCHANGED <<status, ip, rmem, rsp, rtop, locl, handler, ex, tag, entry>>,
           reg0' \in Datum, dtop' \in Datum, dsp' \in -1 .. MaxD,
           dmem' \in [0 .. MaxD + 1 -> Datum]
    PROVE  IInv'
<1> USE BoundsAssumption
<1>1. TypeOK'
  BY DEF IInv, TypeOK
<1>2. /\ status' = "vm" /\ ip' \in Bodies /\ ip' \notin CatchEnds
      /\ ip \in Bodies /\ ip \notin CatchEnds
  BY AddressKinds DEF InBody, Running
<1>3. \A k : Cell(k)' = Cell(k)
  BY DEF Cell
<1>4. StackShape'
  <2>1. \A k \in 0 .. rsp + 1 : tag'[k] = tag[k] /\ Cell(k)' = Cell(k)
    BY <1>3
  <2>2. TypeOK /\ StackShape /\ rsp + 1 \in 0 .. MaxR + 1
    BY DEF IInv, InBody, Running, TypeOK
  <2>3. QED
    BY <1>1, <2>1, <2>2, StackShapeStep
<1>5. Control'
  BY <1>2 DEF IInv, Control, InBody, Running, OnTopOfBody, TypeOK
<1>6. Chains'
  BY <1>2 DEF IInv, Chains, InBody, Running, HandlerInForce,
              ReturnedFromCatch, AtCatchEnd, Innermost
<1>7. QED
  BY <1>1, <1>2, <1>4, <1>5, <1>6 DEF IInv


LEMMA PushStep == ASSUME IInv, NEW v \in Literals \cup XTs, Push(v) PROVE IInv'
  BY DataStep, DatumFacts, BoundsAssumption
  DEF Push, DPush, InBody, IInv, TypeOK

LEMMA DropStep == ASSUME IInv, Drop PROVE IInv'
<1>1. dmem[dsp] \in Datum
  BY BoundsAssumption DEF Drop, IInv, TypeOK, Control, InBody, Running
<1>2. QED
  BY <1>1, DataStep, BoundsAssumption
  DEF Drop, DPop, InBody, IInv, TypeOK, Control, Running

LEMMA ThrowTokenStep == ASSUME IInv, ThrowToken PROVE IInv'
<1>1. dmem[dsp] \in Datum
  BY BoundsAssumption DEF ThrowToken, IInv, TypeOK, Control, InBody, Running
<1>2. QED
  BY <1>1, DataStep, BoundsAssumption
  DEF ThrowToken, DPop, InBody, IInv, TypeOK, Control, Running

(* A body that runs is not at a (catch-end): the handler in force is the   *)
(* one in m64th.handler.                                                   *)
LEMMA BodyFacts ==
    ASSUME IInv, InBody
    PROVE  /\ TypeOK /\ Control /\ Chains /\ StackShape
           /\ status = "vm" /\ reg0 = 0 /\ ip \in Bodies /\ ip \notin CatchEnds
           /\ rsp \in 0 .. MaxR /\ dsp \in -1 .. MaxD
           /\ OnTopOfBody(rsp + 1) /\ RTag # "saved" /\ WellFormed(rsp + 1)
           /\ Innermost("catch", handler, rsp + 1)
           /\ Innermost("locl", locl, rsp + 1)
<1>1. /\ TypeOK /\ Control /\ Chains /\ StackShape
      /\ status = "vm" /\ reg0 = 0 /\ ip \in Bodies /\ ip \notin CatchEnds
  BY AddressKinds DEF IInv, InBody, Running
<1>2. OnTopOfBody(rsp + 1) /\ dsp <= MaxD
  BY <1>1 DEF Control
<1>3. rsp \in 0 .. MaxR /\ dsp \in -1 .. MaxD /\ RTag # "saved"
  BY <1>1, <1>2, BoundsAssumption DEF OnTopOfBody, TypeOK, RTag
<1>4. WellFormed(rsp + 1)
  BY <1>1, <1>3 DEF StackShape
<1>5. Innermost("catch", handler, rsp + 1) /\ Innermost("locl", locl, rsp + 1)
  BY <1>1 DEF Chains, HandlerInForce, ReturnedFromCatch, AtCatchEnd
<1>6. QED
  BY <1>1, <1>2, <1>3, <1>4, <1>5

(* The innermost cell pushed for t stays so when the cells that come or go *)
(* above the unchanged ones were pushed for something else.                *)
LEMMA InnermostStep ==
    ASSUME NEW t, NEW h, NEW top \in Int, NEW newTop \in Int,
           Innermost(t, h, top), entry' = entry,
           \A k \in 0 .. newTop : k <= top => tag'[k] = tag[k],
           \A k \in 0 .. newTop : k > top => tag'[k] # t,
           \A k \in 0 .. top : k > newTop => tag[k] # t
    PROVE  Innermost(t, h, newTop)'
<1>1. CASE h = entry[t] /\ \A p \in 0 .. top : tag[p] # t
  BY <1>1 DEF Innermost
<1>2. CASE h \in 1 .. top - 1 /\ tag[h + 1] = t
           /\ \A p \in h + 2 .. top : tag[p] # t
  <2>1. h + 1 <= newTop /\ h + 1 \in 0 .. top /\ h \in 1 .. newTop - 1
    BY <1>2
  <2>2. tag'[h + 1] = t
    BY <1>2, <2>1
  <2>3. \A p \in h + 2 .. newTop : tag'[p] # t
    BY <1>2, <2>1
  <2>4. QED
    BY <2>1, <2>2, <2>3 DEF Innermost
<1>3. QED
  BY <1>1, <1>2 DEF Innermost

(* One cell is pushed on the return stack by a body that goes on, or calls.*)
LEMMA PushedCell ==
    ASSUME IInv, InBody, NEW v \in Int, NEW t \in {"ret", "data"}, RPush(v, t),
           t = "ret" => v \in Bodies, t = "data" => v \in Datum,
           ip' \in Bodies, reg0' = 0,
           UNCHANGED <<status, locl, handler, ex, entry>>,
           dtop' \in Datum, dsp' \in -1 .. MaxD,
           dmem' \in [0 .. MaxD + 1 -> Datum]
    PROVE  IInv'
<1> USE BoundsAssumption
<1>0. /\ TypeOK /\ StackShape /\ status = "vm" /\ rsp \in 0 .. MaxR
      /\ OnTopOfBody(rsp + 1)
      /\ Innermost("catch", handler, rsp + 1)
      /\ Innermost("locl", locl, rsp + 1)
  BY BodyFacts
<1>1. /\ rsp < MaxR /\ rsp' = rsp + 1 /\ rtop' = v
      /\ rmem' = [rmem EXCEPT ![rsp + 1] = rtop]
      /\ tag' = [tag EXCEPT ![rsp + 2] = t]
      /\ rsp + 1 \in 0 .. MaxR /\ rsp + 2 \in 0 .. MaxR + 1
  BY <1>0 DEF RPush
<1>2. TypeOK'
  <2>1. rmem' \in [0 .. MaxR -> Int] /\ rtop' \in Int /\ rsp' \in -1 .. MaxR
    BY <1>0, <1>1 DEF TypeOK
  <2>2. tag' \in [0 .. MaxR + 1 -> Tags]
    BY <1>0, <1>1 DEF TypeOK, Tags
  <2>3. dsp' \in -1 .. MaxD + 1 /\ ip' \in Addresses /\ reg0' \in Datum
    BY DatumFacts DEF Addresses
  <2>4. QED
    BY <1>0, <2>1, <2>2, <2>3 DEF TypeOK
<1> PICK r \in 0 .. MaxR - 1 : r = rsp
  BY <1>0, <1>1
<1>3. /\ rsp' = r + 1 /\ tag'[r + 2] = t /\ Cell(r + 2)' = v
      /\ \A k \in 0 .. r + 1 : tag'[k] = tag[k] /\ Cell(k)' = Cell(k)
  <2>1. rsp' = r + 1 /\ tag'[r + 2] = t /\ Cell(r + 2)' = v
    BY <1>0, <1>1 DEF Cell, TypeOK
  <2>2. ASSUME NEW k \in 0 .. r + 1
        PROVE  tag'[k] = tag[k] /\ Cell(k)' = Cell(k)
    <3>1. tag'[k] = tag[k]
      BY <1>0, <1>1 DEF TypeOK
    <3>2. k # r + 1 => rmem'[k] = rmem[k]
      BY <1>0, <1>1 DEF TypeOK
    <3>3. rmem'[r + 1] = rtop
      BY <1>0, <1>1 DEF TypeOK
    <3>4. QED
      BY <1>1, <3>1, <3>2, <3>3 DEF Cell
  <2>3. QED
    BY <2>1, <2>2
<1>4. OnTopOfBody(r + 1)' /\ OnTopOfBody(r + 2)'
  BY <1>0, <1>3 DEF OnTopOfBody
<1>5. WellFormed(r + 2)'
  BY <1>0, <1>3, <1>4 DEF WellFormed
<1>6. StackShape'
  <2>1. ASSUME NEW p \in 0 .. rsp' + 1, p > r + 1 PROVE WellFormed(p)'
    <3>1. p = r + 2
      BY <1>3, <2>1
    <3>2. QED
      BY <3>1, <1>5
  <2>2. r + 1 \in 0 .. MaxR + 1 /\ r + 1 <= rsp' + 1 /\ r + 1 <= rsp + 1
    BY <1>3
  <2>3. QED
    BY <1>0, <1>2, <1>3, <2>1, <2>2, StackShapeStep
<1>7. ip' \notin CatchEnds
  BY AddressKinds
<1>8. Control'
  BY <1>3, <1>4, <1>7, BodyFacts DEF Control
<1>9. Innermost("catch", handler, r + 2)' /\ Innermost("locl", locl, r + 2)'
  <2>1. \A k \in 0 .. r + 2 : k <= r + 1 => tag'[k] = tag[k]
    BY <1>3
  <2>2. \A k \in 0 .. r + 2 : k > r + 1 => tag'[k] = t
    BY <1>3
  <2>3. Innermost("catch", handler, r + 1) /\ Innermost("locl", locl, r + 1)
    BY <1>0
  <2>4. \A k \in 0 .. r + 1 : ~(k > r + 2)
    OBVIOUS
  <2>5. ASSUME NEW h, NEW k \in {"catch", "locl"}, Innermost(k, h, r + 1)
        PROVE  Innermost(k, h, r + 2)'
    BY <2>1, <2>2, <2>4, <2>5, InnermostStep
  <2>6. handler' = handler /\ locl' = locl
    OBVIOUS
  <2>7. Innermost("catch", handler, r + 2)'
    BY <2>3, <2>5, <2>6 DEF Innermost
  <2>8. Innermost("locl", locl, r + 2)'
    BY <2>3, <2>5, <2>6 DEF Innermost
  <2>9. QED
    BY <2>7, <2>8
<1>10. Chains'
  BY <1>3, <1>7, <1>9 DEF Chains, HandlerInForce, ReturnedFromCatch, AtCatchEnd
<1>11. QED
  BY <1>0, <1>2, <1>6, <1>8, <1>10 DEF IInv

LEMMA ToRStep == ASSUME IInv, ToR PROVE IInv'
<1>1. /\ TypeOK /\ dsp \in 0 .. MaxD /\ ip \in Bodies /\ InBody /\ reg0 = 0
  BY BodyFacts, BoundsAssumption DEF ToR
<1>2. /\ dtop \in Datum /\ dmem[dsp] \in Datum
      /\ dmem \in [0 .. MaxD + 1 -> Datum]
  BY <1>1, BoundsAssumption DEF TypeOK
<1>3. dtop \in Int
  BY <1>2, DatumFacts
<1>4. dsp - 1 \in -1 .. MaxD
  BY <1>1, BoundsAssumption
<1>5. /\ RPush(dtop, "data") /\ dtop' \in Datum /\ dsp' \in -1 .. MaxD
      /\ dmem' \in [0 .. MaxD + 1 -> Datum] /\ ip' \in Bodies /\ reg0' = 0
      /\ UNCHANGED <<status, locl, handler, ex, entry>>
  BY <1>1, <1>2, <1>4 DEF ToR, DPop
<1>6. QED
  BY <1>1, <1>2, <1>3, <1>5, PushedCell

LEMMA CallStep == ASSUME IInv, NEW x \in XTs, Call(x) PROVE IInv'
<1>1. /\ dtop \in Datum /\ dsp \in -1 .. MaxD
      /\ dmem \in [0 .. MaxD + 1 -> Datum] /\ ip \in Bodies /\ ip \in Int
  BY BodyFacts, AddressKinds DEF Call, TypeOK
<1>2. /\ RPush(ip, "ret") /\ dtop' \in Datum /\ dsp' \in -1 .. MaxD
      /\ dmem' \in [0 .. MaxD + 1 -> Datum] /\ ip' \in Bodies /\ reg0' = 0
      /\ UNCHANGED <<status, locl, handler, ex, entry>> /\ InBody
  BY <1>1 DEF Call, InBody, Running, Bodies
<1>3. QED
  BY <1>1, <1>2, PushedCell

LEMMA ExecuteStep == ASSUME IInv, Execute PROVE IInv'
<1>0. InBody /\ BoundsAssumption
  BY BoundsAssumption DEF Execute
<1>1. /\ dtop \in Datum /\ dsp \in -1 .. MaxD /\ ip \in Bodies /\ ip \in Int
      /\ dmem \in [0 .. MaxD + 1 -> Datum] /\ reg0 = 0
  BY <1>0, BodyFacts, AddressKinds DEF TypeOK
<1>2. CASE ValidateXT # 0
  <2>1. /\ UNCHANGED <<status, ip, rmem, rsp, rtop, locl, handler, ex, tag, entry>>
        /\ dtop' \in Datum /\ dsp' \in -1 .. MaxD
        /\ dmem' \in [0 .. MaxD + 1 -> Datum]
    BY <1>1, <1>2 DEF Execute, stacks
  <2>2. reg0' \in Datum
    BY <1>2, DatumFacts DEF Execute, ValidateXT
  <2>3. QED
    BY <1>0, <2>1, <2>2, DataStep
<1>3. CASE ValidateXT = 0
  <2>1. dsp \in 0 .. MaxD /\ PlausibleXT(dtop)
    BY <1>1, <1>3 DEF ValidateXT, StackUnderflow, InvalidAddress
  <2>2. dtop \in Bodies /\ dmem[dsp] \in Datum /\ dsp - 1 \in -1 .. MaxD
    BY <1>0, <1>1, <2>1, DatumFacts DEF Bodies
  <2>3. /\ RPush(ip, "ret") /\ dtop' \in Datum /\ dsp' \in -1 .. MaxD
        /\ dmem' \in [0 .. MaxD + 1 -> Datum] /\ ip' \in Bodies /\ reg0' = 0
        /\ UNCHANGED <<status, locl, handler, ex, entry>>
    BY <1>1, <1>3, <2>2 DEF Execute, DPop
  <2>4. QED
    BY <1>0, <1>1, <2>3, PushedCell
<1>4. QED
  BY <1>2, <1>3

-----------------------------------------------------------------------------
(* Steps that pop the return stack. *)

LEMMA InnermostPop ==
    ASSUME NEW t, NEW h, NEW top \in Int, NEW newTop \in Int, newTop <= top,
           Innermost(t, h, top), \A k \in 0 .. top : k > newTop => tag[k] # t
    PROVE  Innermost(t, h, newTop)
<1>1. CASE h = entry[t] /\ \A p \in 0 .. top : tag[p] # t
  BY <1>1 DEF Innermost
<1>2. CASE h \in 1 .. top - 1 /\ tag[h + 1] = t
           /\ \A p \in h + 2 .. top : tag[p] # t
  <2>1. h + 1 <= newTop
    BY <1>2
  <2>2. QED
    BY <1>2, <2>1 DEF Innermost
<1>3. QED
  BY <1>1, <1>2 DEF Innermost

(* The return stack is cut back to cell top, which the register caches.    *)
LEMMA Unwound ==
    ASSUME TypeOK, TypeOK', StackShape, NEW top \in 0 .. MaxR + 1,
           top <= rsp + 1, rsp' = top - 1, rtop' = Cell(top),
           UNCHANGED <<rmem, tag, entry>>
    PROVE  StackShape' /\ \A k \in 0 .. top : Cell(k)' = Cell(k)
<1>1. rsp \in -1 .. MaxR /\ BoundsAssumption
  BY BoundsAssumption DEF TypeOK
<1>2. ASSUME NEW k \in 0 .. top PROVE Cell(k)' = Cell(k)
  <2>1. CASE k = top
    BY <1>1, <2>1 DEF Cell
  <2>2. CASE k # top
    BY <1>1, <2>2 DEF Cell
  <2>3. QED
    BY <2>1, <2>2
<1>3. \A k \in 0 .. top : tag'[k] = tag[k] /\ Cell(k)' = Cell(k)
  BY <1>2
<1>4. top <= rsp' + 1 /\ \A p \in 0 .. rsp' + 1 : ~(p > top)
  <2>1. rsp' + 1 = top
    OBVIOUS
  <2>2. QED
    BY <2>1
<1>5. StackShape'
  BY <1>3, <1>4, StackShapeStep
<1>6. QED
  BY <1>2, <1>5

(* ... and a body, or the host's bye, goes on from there. *)
LEMMA Resumes ==
    ASSUME TypeOK, TypeOK', StackShape, NEW top \in 0 .. MaxR + 1,
           top <= rsp + 1, rsp' = top - 1, rtop' = Cell(top),
           UNCHANGED <<rmem, tag, entry>>,
           status' = "vm", reg0' = 0, dsp' <= MaxD,
           ip' \in Bodies \cup {HostBye},
           ip' \in Bodies => OnTopOfBody(top), handler' # 0 => ex' = 0,
           NEW h, handler' = h, Innermost("catch", h, top),
           NEW l, locl' = l, Innermost("locl", l, top)
    PROVE  IInv'
<1>1. StackShape'
  BY Unwound
<1>2. ip' \notin CatchEnds /\ rsp' + 1 = top
  BY AddressKinds
<1>3. ip' \in Bodies => OnTopOfBody(rsp + 1)'
  BY <1>2 DEF OnTopOfBody
<1>4. Control'
  BY <1>2, <1>3 DEF Control
<1>5. HandlerInForce' = h
  BY <1>2 DEF HandlerInForce, ReturnedFromCatch, AtCatchEnd
<1>6. Innermost("catch", HandlerInForce, rsp + 1)'
  BY <1>2, <1>5 DEF Innermost
<1>7. Innermost("locl", locl, rsp + 1)'
  BY <1>2 DEF Innermost
<1>8. Chains'
  BY <1>6, <1>7 DEF Chains
<1>9. QED
  BY <1>1, <1>4, <1>8 DEF IInv

LEMMA RFromStep == ASSUME IInv, RFrom PROVE IInv'
<1> USE BoundsAssumption
<1>1. InBody /\ RTag = "data"
  BY DEF RFrom
<1>2. /\ TypeOK /\ StackShape /\ rsp \in 0 .. MaxR /\ reg0 = 0 /\ status = "vm"
      /\ WellFormed(rsp + 1) /\ ip \in Bodies /\ dsp \in -1 .. MaxD
      /\ Innermost("catch", handler, rsp + 1)
      /\ Innermost("locl", locl, rsp + 1)
      /\ handler # 0 => ex = 0
  BY <1>1, BodyFacts DEF Control
<1>3. /\ OnTopOfBody(rsp) /\ Cell(rsp + 1) \in Datum /\ tag[rsp + 1] = "data"
      /\ rsp \in 1 .. MaxR
  BY <1>1, <1>2 DEF WellFormed, RTag, OnTopOfBody
<1>4. /\ rtop = Cell(rsp + 1) /\ rmem[rsp] = Cell(rsp) /\ rmem[rsp] \in Int
  BY <1>2, <1>3 DEF Cell, TypeOK
<1>5. TypeOK'
  <2>1. /\ dsp' \in -1 .. MaxD /\ dtop' \in Datum
        /\ dmem' \in [0 .. MaxD + 1 -> Datum]
    BY <1>2, <1>3, <1>4 DEF RFrom, DPush, TypeOK
  <2>2. /\ rtop' \in Int /\ rsp' \in -1 .. MaxR
        /\ UNCHANGED <<rmem, tag, status, ip, reg0, locl, handler, ex, entry>>
    BY <1>2, <1>4 DEF RFrom, RPop
  <2>3. QED
    BY <1>2, <2>1, <2>2, SMTT(30) DEF TypeOK
<1>6. Innermost("catch", handler, rsp) /\ Innermost("locl", locl, rsp)
  BY <1>2, <1>3, InnermostPop
<1>7. /\ rsp' = rsp - 1 /\ rtop' = Cell(rsp) /\ dsp' <= MaxD
      /\ UNCHANGED <<rmem, tag, status, ip, reg0, locl, handler, ex, entry>>
  BY <1>2, <1>4 DEF RFrom, RPop, DPush
<1>8. QED
  BY <1>2, <1>3, <1>5, <1>6, <1>7, Resumes

LEMMA LocalsExitStep == ASSUME IInv, LocalsExit PROVE IInv'
<1> USE BoundsAssumption
<1>1. InBody /\ RTag = "locl"
  BY DEF LocalsExit
<1>2. /\ TypeOK /\ StackShape /\ rsp \in 0 .. MaxR /\ reg0 = 0 /\ status = "vm"
      /\ WellFormed(rsp + 1) /\ ip \in Bodies /\ dsp \in -1 .. MaxD
      /\ Innermost("catch", handler, rsp + 1)
      /\ handler # 0 => ex = 0
  BY <1>1, BodyFacts DEF Control
<1>3. /\ tag[rsp + 1] = "locl" /\ tag[rsp] = "saved" /\ OnTopOfBody(rsp - 1)
      /\ Innermost("locl", Cell(rsp + 1), rsp)
  BY <1>1, <1>2 DEF WellFormed, RTag
<1>4. rsp \in 2 .. MaxR
  BY <1>2, <1>3 DEF OnTopOfBody
<1>5. /\ rtop = Cell(rsp + 1) /\ rmem[rsp - 1] = Cell(rsp - 1)
      /\ rmem[rsp - 1] \in Int
  BY <1>2, <1>4 DEF Cell, TypeOK
<1>6. Innermost("locl", rtop, rsp - 1) /\ rtop \in 0 .. MaxR
  <2>1. Innermost("locl", rtop, rsp)
    BY <1>3, <1>5
  <2>2. Innermost("locl", rtop, rsp - 1)
    BY <1>3, <1>4, <2>1, InnermostPop
  <2>3. entry["locl"] \in 0 .. MaxR
    BY <1>2 DEF TypeOK, Chained
  <2>4. QED
    BY <1>4, <2>2, <2>3 DEF Innermost
<1>7. Innermost("catch", handler, rsp - 1)
  BY <1>2, <1>3, <1>4, InnermostPop
<1>8. /\ rsp' = rsp - 2 /\ rtop' = Cell(rsp - 1) /\ locl' = rtop
      /\ UNCHANGED <<status, ip, reg0, dmem, dsp, dtop, rmem, handler, ex, tag, entry>>
  BY <1>5 DEF LocalsExit
<1>9. TypeOK'
  <2>1. rsp' \in -1 .. MaxR /\ rtop' \in Int /\ locl' \in 0 .. MaxR
    BY <1>4, <1>5, <1>6, <1>8
  <2>2. /\ status' \in {"vm", "c", "lost"} /\ ip' \in Addresses
        /\ reg0' \in Datum /\ ex' \in Datum
        /\ dmem' \in [0 .. MaxD + 1 -> Datum] /\ dtop' \in Datum
        /\ dsp' \in -1 .. MaxD + 1 /\ rmem' \in [0 .. MaxR -> Int]
        /\ tag' \in [0 .. MaxR + 1 -> Tags] /\ handler' \in 0 .. MaxR
        /\ entry' \in [Chained -> 0 .. MaxR]
    BY <1>2, <1>8 DEF TypeOK
  <2>3. QED
    BY <2>1, <2>2, Zenon DEF TypeOK
<1>10. rsp - 1 \in 0 .. MaxR + 1 /\ rsp' = (rsp - 1) - 1 /\ dsp' <= MaxD
  BY <1>2, <1>4, <1>8
<1>11. QED
  BY <1>2, <1>3, <1>4, <1>6, <1>7, <1>8, <1>9, <1>10, Resumes

LEMMA ExitStep == ASSUME IInv, Exit PROVE IInv'
<1> USE BoundsAssumption
<1>1. InBody /\ RTag \in {"ret", "catch"}
  BY DEF Exit
<1>2. /\ TypeOK /\ StackShape /\ rsp \in 0 .. MaxR /\ reg0 = 0 /\ status = "vm"
      /\ WellFormed(rsp + 1) /\ ip \in Bodies /\ dsp \in -1 .. MaxD
      /\ Innermost("catch", handler, rsp + 1)
      /\ Innermost("locl", locl, rsp + 1)
      /\ handler # 0 => ex = 0
  BY <1>1, BodyFacts DEF Control
<1>3. /\ rtop = Cell(rsp + 1) /\ rmem[rsp] = Cell(rsp) /\ rmem[rsp] \in Int
  BY <1>2 DEF Cell, TypeOK
<1>4. /\ rsp' = rsp - 1 /\ rtop' = Cell(rsp) /\ ip' = Cell(rsp + 1)
      /\ UNCHANGED <<status, reg0, dmem, dsp, dtop, rmem, locl, handler, ex, tag, entry>>
  BY <1>3 DEF Exit, RPop
<1>5. Cell(rsp + 1) \in Addresses => TypeOK'
  BY <1>2, <1>3, <1>4, SMTT(30) DEF TypeOK
<1>6. Innermost("locl", locl, rsp)
  BY <1>1, <1>2, InnermostPop DEF RTag
<1>7. CASE RTag = "ret"
  <2>0. tag[rsp + 1] = "ret"
    BY <1>7 DEF RTag
  <2>1. /\ ip' \in Bodies \cup {HostBye}
        /\ ip' \in Bodies => OnTopOfBody(rsp)
    <3>1. /\ Cell(rsp + 1) \in Bodies \cup {HostBye}
          /\ Cell(rsp + 1) \in Bodies => OnTopOfBody(rsp + 1 - 1)
      BY <1>2, <2>0 DEF WellFormed
    <3>2. rsp + 1 - 1 = rsp
      BY <1>2
    <3>3. QED
      BY <1>4, <3>1, <3>2
  <2>2. TypeOK' /\ dsp' <= MaxD
    BY <1>2, <1>4, <1>5, <2>1 DEF Addresses
  <2>3. Innermost("catch", handler, rsp)
    BY <1>2, <2>0, InnermostPop
  <2>4. QED
    BY <1>2, <1>4, <1>6, <2>1, <2>2, <2>3, Resumes
<1>8. CASE RTag = "catch"
  <2>1. /\ tag[rsp + 1] = "catch" /\ CatchFrame(rsp) /\ ip' \in CatchEnds
        /\ dsp < MaxD
    BY <1>2, <1>4, <1>8 DEF WellFormed, RTag, Exit
  <2>2. TypeOK' /\ dsp' < MaxD
    BY <1>2, <1>4, <1>5, <2>1 DEF Addresses
  <2>3. handler # 0
    BY <1>2, <2>1 DEF Innermost
  <2>4. ex' = 0 /\ rsp >= 4 /\ rsp \in 0 .. MaxR + 1 /\ rsp <= rsp + 1
    BY <1>2, <1>4, <2>1, <2>3 DEF CatchFrame
  <2>5. StackShape' /\ \A k \in 0 .. rsp : Cell(k)' = Cell(k)
    BY <1>2, <1>4, <2>2, <2>4, Unwound
  <2> PICK q \in 4 .. MaxR : q = rsp
    BY <1>2, <2>4
  <2>6. rsp' + 1 = q /\ \A k \in 0 .. q : Cell(k)' = Cell(k)
    BY <1>2, <1>4, <2>5
  <2>7. /\ tag[q] = "saved" /\ tag[q - 1] = "saved" /\ tag[q - 2] = "saved"
        /\ OnTopOfBody(q - 3) /\ Innermost("catch", Cell(q), q)
        /\ Cell(q - 1) \in -1 .. MaxD - 1 /\ Cell(q - 2) = NoLocals
        /\ Innermost("locl", NoLocals, q)
    BY <2>1 DEF CatchFrame
  <2>8. /\ Cell(q)' = Cell(q) /\ Cell(q - 1)' = Cell(q - 1)
        /\ Cell(q - 2)' = Cell(q - 2) /\ UNCHANGED <<tag, entry>>
    BY <1>4, <2>6
  <2>9. Innermost("catch", Cell(q), q)' /\ Innermost("locl", NoLocals, q)'
    BY <2>7, <2>8 DEF Innermost, NoLocals
  <2>10. CatchFrame(q)'
    BY <2>7, <2>8, <2>9 DEF CatchFrame, OnTopOfBody
  <2>11. CatchFrame(rsp + 1)'
    BY <2>6, <2>10 DEF CatchFrame, OnTopOfBody, Innermost
  <2>12. status' = "vm" /\ reg0' = 0 /\ rtop' = Cell(q)' /\ locl' = locl
    BY <1>2, <1>4, <2>8
  <2>13. Control'
    <3>1. ip' \notin Bodies /\ dsp' <= MaxD /\ dsp' < MaxD
      BY <1>2, <2>1, <2>2, AddressKinds DEF TypeOK
    <3>2. QED
      BY <2>4, <2>11, <2>12, <3>1 DEF Control
  <2>14. HandlerInForce' = Cell(q)
    BY <2>1, <2>4, <2>8, <2>12
    DEF HandlerInForce, ReturnedFromCatch, AtCatchEnd, Running
  <2>15. Innermost("catch", HandlerInForce, rsp + 1)'
    BY <2>6, <2>7, <2>8, <2>14 DEF Innermost
  <2>16. Innermost("locl", locl, rsp + 1)'
    BY <1>6, <2>6, <2>8, <2>12 DEF Innermost
  <2>17. QED
    BY <2>2, <2>5, <2>12, <2>13, <2>15, <2>16 DEF IInv, Chains
<1>9. QED
  BY <1>1, <1>7, <1>8

(* The cells that _catch_beg_ saved are intact when (catch-end) runs: what *)
(* it finds below them is what the body that executed CATCH left.          *)
LEMMA FrameBelow ==
    ASSUME TypeOK, NEW q \in 0 .. MaxR + 1, CatchFrame(q)
    PROVE  /\ Innermost("catch", Cell(q), q - 3) /\ Cell(q) \in 0 .. MaxR
           /\ Innermost("locl", NoLocals, q - 3)
           /\ OnTopOfBody(q - 3) /\ q >= 4
<1> USE BoundsAssumption
<1>1. /\ q >= 4 /\ OnTopOfBody(q - 3) /\ Innermost("catch", Cell(q), q)
      /\ Innermost("locl", NoLocals, q)
      /\ tag[q] = "saved" /\ tag[q - 1] = "saved" /\ tag[q - 2] = "saved"
  BY DEF CatchFrame
<1>2. \A k \in 0 .. q : k > q - 3 => tag[k] = "saved"
  BY <1>1
<1>3. Innermost("catch", Cell(q), q - 3)
  BY <1>1, <1>2, InnermostPop
<1>4. Innermost("locl", NoLocals, q - 3)
  BY <1>1, <1>2, InnermostPop
<1>5. Cell(q) \in 0 .. MaxR
  <2>1. entry["catch"] \in 0 .. MaxR
    BY DEF TypeOK, Chained
  <2>2. QED
    BY <1>1, <1>3, <2>1 DEF Innermost
<1>6. QED
  BY <1>1, <1>3, <1>4, <1>5

LEMMA CatchEndStep == ASSUME IInv, CatchEnd PROVE IInv'
<1> USE BoundsAssumption
<1>1. /\ TypeOK /\ Control /\ Chains /\ StackShape
      /\ status = "vm" /\ reg0 = 0 /\ ip \in CatchEnds /\ rsp \in -1 .. MaxR
  BY DEF IInv, TypeOK, CatchEnd, AtCatchEnd, Running
<1>2. /\ dsp < MaxD
      /\ ex # 0 => OnTopOfBody(rsp + 1)
      /\ ex = 0 => CatchFrame(rsp + 1)
  BY <1>1 DEF Control
<1>3. /\ ip' \in Bodies /\ status' = "vm" /\ reg0' = 0 /\ ex' = 0
      /\ UNCHANGED <<rmem, tag, entry>>
  BY <1>1 DEF CatchEnd, Bodies, ExAfterCatchEnd
<1>4. /\ dsp' \in -1 .. MaxD /\ dtop' \in Datum
      /\ dmem' \in [0 .. MaxD + 1 -> Datum]
  BY <1>1, <1>2 DEF CatchEnd, DPush, TypeOK
<1>5. ASSUME rtop' \in Int, rsp' \in -1 .. MaxR, locl' \in 0 .. MaxR,
             handler' \in 0 .. MaxR
      PROVE  TypeOK'
  <2>1. /\ rmem' \in [0 .. MaxR -> Int] /\ tag' \in [0 .. MaxR + 1 -> Tags]
        /\ reg0' \in Datum /\ ex' \in Datum /\ ip' \in Addresses
        /\ entry' \in [Chained -> 0 .. MaxR]
    BY <1>1, <1>3, DatumFacts DEF TypeOK, Addresses
  <2>2. dsp' \in -1 .. MaxD + 1
    BY <1>4
  <2>3. QED
    BY <1>3, <1>4, <1>5, <2>1, <2>2 DEF TypeOK
<1>6. CASE ex # 0
  <2>1. UNCHANGED <<rsp, rtop, locl, handler>> /\ rtop = Cell(rsp + 1)
    BY <1>6 DEF CatchEnd, Cell
  <2>2. TypeOK'
    BY <1>1, <1>5, <2>1 DEF TypeOK
  <2>3. Innermost("catch", handler, rsp + 1) /\ Innermost("locl", locl, rsp + 1)
    BY <1>1, <1>6 DEF Chains, HandlerInForce, ReturnedFromCatch
  <2>4. /\ rsp + 1 \in 0 .. MaxR + 1 /\ rsp' = (rsp + 1) - 1
        /\ rtop' = Cell(rsp + 1) /\ dsp' <= MaxD /\ rsp + 1 <= rsp + 1
    BY <1>1, <1>4, <2>1
  <2>5. OnTopOfBody(rsp + 1) /\ ip' \in Bodies \cup {HostBye} /\ handler' = handler
    BY <1>2, <1>3, <1>6, <2>1
  <2>6. QED
    BY <1>1, <1>3, <2>1, <2>2, <2>3, <2>4, <2>5, Resumes
<1>7. CASE ex = 0
  <2> DEFINE q == rsp + 1
  <2>1. CatchFrame(q) /\ q \in 0 .. MaxR + 1
    BY <1>1, <1>2, <1>7
  <2>2. /\ Innermost("catch", Cell(q), q - 3) /\ Cell(q) \in 0 .. MaxR
        /\ Innermost("locl", NoLocals, q - 3) /\ OnTopOfBody(q - 3) /\ q >= 4
    BY <1>1, <2>1, FrameBelow
  <2>3. Cell(q - 2) = NoLocals
    BY <2>1 DEF CatchFrame
  <2>4. /\ rtop = Cell(q) /\ rmem[rsp - 1] = NoLocals /\ rmem[rsp - 2] \in Int
        /\ rmem[rsp - 2] = Cell(q - 3)
    BY <1>1, <2>2, <2>3 DEF Cell, TypeOK
  <2>5. /\ handler' = rtop /\ locl' = NoLocals /\ rtop' = rmem[rsp - 2]
        /\ rsp' = rsp - 3
    BY <1>1, <1>7, <2>4 DEF CatchEnd, HandlerAfterReturn
  <2>6. TypeOK'
    BY <1>1, <1>5, <2>2, <2>4, <2>5 DEF NoLocals
  <2>7. /\ q - 3 \in 0 .. MaxR + 1 /\ rsp' = (q - 3) - 1 /\ q - 3 <= rsp + 1
        /\ rtop' = Cell(q - 3) /\ dsp' <= MaxD /\ handler' = Cell(q)
    BY <1>1, <1>4, <2>2, <2>4, <2>5
  <2>8. QED
    BY <1>1, <1>3, <2>2, <2>5, <2>6, <2>7, Resumes
<1>8. QED
  BY <1>6, <1>7

(* _throw_reg0_ with a handler set: the frame it designates is one that    *)
(* _catch_beg_ left and nobody has touched.                                *)
LEMMA ThrowFacts ==
    ASSUME IInv, Throw
    PROVE  /\ TypeOK /\ StackShape /\ status = "vm" /\ reg0 \in Datum
           /\ rsp \in -1 .. MaxR /\ dsp \in -1 .. MaxD
           /\ handler \in 4 .. rsp /\ tag[handler + 1] = "catch"
           /\ \A p \in handler + 2 .. rsp + 1 : tag[p] # "catch"
           /\ CatchFrame(handler) /\ Cell(handler + 1) \in CatchEnds
           /\ \A k \in 0 .. rsp : Cell(k) = rmem[k]
           /\ SavedIP = Cell(handler + 1)
<1> USE BoundsAssumption
<1>1. /\ TypeOK /\ Control /\ Chains /\ StackShape /\ reg0 \in Datum
      /\ status = "vm" /\ reg0 # 0 /\ rsp \in -1 .. MaxR /\ dsp \in -1 .. MaxD
      /\ handler # 0 /\ handler \in 0 .. MaxR /\ Live("catch") # {}
  <2>1. /\ TypeOK /\ Control /\ Chains /\ StackShape /\ status = "vm" /\ reg0 # 0
        /\ handler # 0 /\ Live("catch") # {}
    BY DEF IInv, Throw, Throwing
  <2>2. dsp \in -1 .. MaxD
    BY <2>1 DEF TypeOK, Control
  <2>3. reg0 \in Datum /\ rsp \in -1 .. MaxR /\ handler \in 0 .. MaxR
    BY <2>1 DEF TypeOK
  <2>4. QED
    BY <2>1, <2>2, <2>3
<1>2. HandlerInForce = handler
  BY <1>1 DEF HandlerInForce, ReturnedFromCatch, AtCatchEnd, Running
<1>3. /\ handler \in 1 .. rsp /\ tag[handler + 1] = "catch"
      /\ \A p \in handler + 2 .. rsp + 1 : tag[p] # "catch"
  BY <1>1, <1>2 DEF Chains, Innermost, Live
<1>4. WellFormed(handler + 1)
  BY <1>1, <1>3 DEF StackShape
<1>5. CatchFrame(handler) /\ Cell(handler + 1) \in CatchEnds
  <2>1. handler + 1 - 1 = handler
    BY <1>1
  <2>2. QED
    BY <1>3, <1>4, <2>1 DEF WellFormed
<1>6. handler \in 4 .. rsp
  BY <1>3, <1>5 DEF CatchFrame
<1>7. \A k \in 0 .. rsp : Cell(k) = rmem[k]
  BY <1>1 DEF Cell
<1>8. SavedIP = Cell(handler + 1)
  BY <1>1, <1>6 DEF SavedIP, Cell
<1>9. QED
  BY <1>1, <1>3, <1>5, <1>6, <1>7, <1>8

LEMMA RestoredDepth ==
    ASSUME TypeOK, NEW depth \in -1 .. MaxD - 1, RestoreDepth(depth)
    PROVE  /\ dsp' = depth /\ dtop' \in Datum
           /\ dmem' \in [0 .. MaxD + 1 -> Datum]
<1> USE BoundsAssumption
<1>1. /\ dmem \in [0 .. MaxD + 1 -> Datum] /\ dtop \in Datum
      /\ dsp \in -1 .. MaxD + 1
  BY DEF TypeOK
<1>2. CASE depth = dsp
  BY <1>1, <1>2 DEF RestoreDepth
<1>3. CASE depth < dsp
  BY <1>1, <1>3 DEF RestoreDepth
<1>4. CASE depth > dsp
  <2>1. dmem' = [dmem EXCEPT ![dsp + 1] = dtop] /\ dtop' = -1 /\ dsp' = depth
    BY <1>1, <1>4 DEF RestoreDepth
  <2>2. QED
    BY <1>1, <2>1, DatumFacts
<1>5. QED
  BY <1>1, <1>2, <1>3, <1>4

LEMMA ThrowStepKeeps == ASSUME IInv, Throw PROVE IInv'
<1> USE BoundsAssumption
<1> DEFINE top == handler - 3
<1>1. /\ TypeOK /\ StackShape /\ reg0 \in Datum /\ reg0 # 0 /\ status = "vm"
      /\ rsp \in -1 .. MaxR /\ handler \in 4 .. rsp /\ CatchFrame(handler)
      /\ Cell(handler + 1) \in CatchEnds /\ SavedIP = Cell(handler + 1)
      /\ \A k \in 0 .. rsp : Cell(k) = rmem[k]
  BY ThrowFacts DEF Throw, Throwing
<1>2. /\ Innermost("catch", Cell(handler), top) /\ Cell(handler) \in 0 .. MaxR
      /\ Innermost("locl", NoLocals, top) /\ OnTopOfBody(top)
      /\ Cell(handler - 2) = NoLocals /\ Cell(handler - 1) \in -1 .. MaxD - 1
  <2>1. handler \in 0 .. MaxR + 1
    BY <1>1
  <2>2. /\ Innermost("catch", Cell(handler), handler - 3)
        /\ Innermost("locl", NoLocals, handler - 3) /\ Cell(handler) \in 0 .. MaxR
        /\ OnTopOfBody(handler - 3)
    BY <1>1, <2>1, FrameBelow
  <2>3. Cell(handler - 2) = NoLocals /\ Cell(handler - 1) \in -1 .. MaxD - 1
    BY <1>1 DEF CatchFrame
  <2>4. QED
    BY <2>2, <2>3
<1>3. /\ rmem[handler] = Cell(handler) /\ rmem[handler - 1] = Cell(handler - 1)
      /\ rmem[handler - 2] = NoLocals /\ rmem[handler - 3] = Cell(top)
      /\ rmem[handler - 3] \in Int
  BY <1>1, <1>2 DEF TypeOK
<1>4. /\ ex' = reg0 /\ reg0' = 0 /\ ip' = Cell(handler + 1)
      /\ handler' = Cell(handler) /\ RestoreDepth(Cell(handler - 1))
      /\ UNCHANGED <<status, rmem, tag, entry>>
  BY <1>1, <1>3 DEF Throw
<1>5. /\ locl' = NoLocals /\ rtop' = Cell(top) /\ rsp' = top - 1
  <2>1. handler - 2 - 1 = handler - 3 /\ handler - 2 - 1 - 1 = handler - 3 - 1
    BY <1>1
  <2>2. QED
    BY <1>3, <2>1 DEF Throw, LoclAfterThrow
<1>6. /\ dsp' = Cell(handler - 1) /\ dtop' \in Datum
      /\ dmem' \in [0 .. MaxD + 1 -> Datum]
  BY <1>1, <1>2, <1>4, RestoredDepth
<1>7. dsp' \in -1 .. MaxD - 1 /\ rsp' \in -1 .. MaxR
  BY <1>1, <1>2, <1>5, <1>6
<1>8. TypeOK'
  <2>1. /\ rmem' \in [0 .. MaxR -> Int] /\ tag' \in [0 .. MaxR + 1 -> Tags]
        /\ status' \in {"vm", "c", "lost"} /\ entry' \in [Chained -> 0 .. MaxR]
    BY <1>1, <1>4 DEF TypeOK
  <2>2. ip' \in Addresses /\ reg0' \in Datum /\ ex' \in Datum
    BY <1>1, <1>4, DatumFacts DEF Addresses
  <2>3. rtop' \in Int /\ locl' \in 0 .. MaxR /\ handler' \in 0 .. MaxR
    BY <1>2, <1>3, <1>4, <1>5 DEF NoLocals
  <2>4. dsp' \in -1 .. MaxD + 1
    BY <1>7
  <2>5. QED
    BY <1>6, <1>7, <2>1, <2>2, <2>3, <2>4 DEF TypeOK
<1>9. StackShape'
  <2>1. top \in 0 .. MaxR + 1 /\ top <= rsp + 1
    BY <1>1
  <2>2. QED
    BY <1>1, <1>4, <1>5, <1>8, <2>1, Unwound
<1>10. ip' \in CatchEnds /\ ip' \notin Bodies /\ rsp' + 1 = top
  <2>1. ip' \in CatchEnds /\ ip' \notin Bodies
    BY <1>1, <1>4, AddressKinds
  <2>2. rsp' + 1 = top
    BY <1>1, <1>5
  <2>3. QED
    BY <2>1, <2>2
<1>11. OnTopOfBody(rsp + 1)'
  BY <1>2, <1>4, <1>10 DEF OnTopOfBody
<1>12. Control'
  <2>1. dsp' <= MaxD /\ dsp' < MaxD /\ ex' # 0 /\ reg0' = 0
    BY <1>1, <1>4, <1>7
  <2>2. QED
    BY <1>10, <1>11, <2>1 DEF Control
<1>13. HandlerInForce' = Cell(handler)
  BY <1>1, <1>4 DEF HandlerInForce, ReturnedFromCatch
<1>14. Chains'
  <2>1. Innermost("catch", HandlerInForce, rsp + 1)'
    BY <1>2, <1>4, <1>10, <1>13 DEF Innermost
  <2>2. Innermost("locl", locl, rsp + 1)'
    BY <1>2, <1>4, <1>5, <1>10 DEF Innermost
  <2>3. QED
    BY <2>1, <2>2 DEF Chains
<1>15. QED
  BY <1>1, <1>4, <1>8, <1>9, <1>12, <1>14 DEF IInv

-----------------------------------------------------------------------------
(* Steps that push several cells. *)

LEMMA LocalsEnterStep == ASSUME IInv, LocalsEnter PROVE IInv'
<1> USE BoundsAssumption
<1>1. /\ TypeOK /\ StackShape /\ rsp \in 0 .. MaxR /\ OnTopOfBody(rsp + 1)
      /\ Innermost("catch", handler, rsp + 1) /\ Innermost("locl", locl, rsp + 1)
      /\ status = "vm" /\ reg0 = 0 /\ ip \in Bodies /\ ip \notin CatchEnds
      /\ dsp \in -1 .. MaxD /\ Control
  BY BodyFacts DEF LocalsEnter
<1> PICK r \in 0 .. MaxR - 2 : r = rsp
  BY <1>1 DEF LocalsEnter
<1>2. /\ rmem' = [rmem EXCEPT ![r + 1] = rtop, ![r + 2] = 0]
      /\ tag' = [tag EXCEPT ![r + 2] = "saved", ![r + 3] = "locl"]
      /\ rsp' = r + 2 /\ rtop' = locl /\ locl' = r + 2
      /\ UNCHANGED <<status, ip, reg0, dmem, dsp, dtop, handler, ex, entry>>
  BY DEF LocalsEnter
<1>3. /\ rmem \in [0 .. MaxR -> Int] /\ tag \in [0 .. MaxR + 1 -> Tags]
      /\ rtop \in Int /\ locl \in 0 .. MaxR
  BY <1>1 DEF TypeOK
<1>4. /\ rmem' \in [0 .. MaxR -> Int] /\ rmem'[r + 1] = rtop
      /\ \A k \in 0 .. r : rmem'[k] = rmem[k]
  BY <1>2, <1>3
<1>5. /\ tag' \in [0 .. MaxR + 1 -> Tags]
      /\ tag'[r + 2] = "saved" /\ tag'[r + 3] = "locl"
      /\ \A k \in 0 .. r + 1 : tag'[k] = tag[k]
  BY <1>2, <1>3 DEF Tags
<1>6. TypeOK'
  <2>1. rtop' \in Int /\ rsp' \in -1 .. MaxR /\ locl' \in 0 .. MaxR
    BY <1>2, <1>3
  <2>2. QED
    BY <1>1, <1>2, <1>4, <1>5, <2>1 DEF TypeOK
<1>7. Cell(r + 3)' = locl /\ \A k \in 0 .. r + 1 : Cell(k)' = Cell(k)
  <2>1. rsp' + 1 = r + 3
    BY <1>2
  <2>2. ASSUME NEW k \in 0 .. r + 1 PROVE Cell(k)' = Cell(k)
    <3>1. CASE k = r + 1
      BY <1>4, <2>1, <3>1 DEF Cell
    <3>2. CASE k # r + 1
      BY <1>4, <2>1, <3>2 DEF Cell
    <3>3. QED
      BY <3>1, <3>2
  <2>3. Cell(r + 3)' = locl
    BY <1>2, <2>1 DEF Cell
  <2>4. QED
    BY <2>2, <2>3
<1>8. ASSUME NEW t \in {"catch", "locl"}, NEW h, Innermost(t, h, r + 1)
      PROVE  Innermost(t, h, r + 2)'
  <2>1. /\ \A k \in 0 .. r + 2 : k <= r + 1 => tag'[k] = tag[k]
        /\ \A k \in 0 .. r + 2 : k > r + 1 => tag'[k] # t
        /\ \A k \in 0 .. r + 1 : k > r + 2 => tag[k] # t
    BY <1>5
  <2>2. entry' = entry
    BY <1>2
  <2>3. QED
    BY <1>8, <2>1, <2>2, InnermostStep
<1>9. OnTopOfBody(r + 1)' /\ OnTopOfBody(r + 3)'
  BY <1>1, <1>5 DEF OnTopOfBody
<1>10. WellFormed(r + 2)'
  BY <1>5 DEF WellFormed
<1>11. WellFormed(r + 3)'
  <2>1. PICK l : l = locl
    OBVIOUS
  <2>2. Innermost("locl", l, r + 2)' /\ Cell(r + 3)' = l
    BY <1>1, <1>7, <1>8, <2>1
  <2>3. Innermost("locl", Cell(r + 3), r + 2)'
    BY <2>2 DEF Innermost
  <2>4. r + 3 - 1 = r + 2 /\ r + 3 - 2 = r + 1
    OBVIOUS
  <2>5. QED
    BY <1>5, <1>9, <2>3, <2>4 DEF WellFormed
<1>12. StackShape'
  <2>1. ASSUME NEW p \in 0 .. rsp' + 1, p > r + 1 PROVE WellFormed(p)'
    <3>1. p = r + 2 \/ p = r + 3
      BY <1>2, <2>1
    <3>2. QED
      BY <3>1, <1>10, <1>11
  <2>2. /\ r + 1 \in 0 .. MaxR + 1 /\ r + 1 <= rsp + 1 /\ r + 1 <= rsp' + 1
        /\ \A k \in 0 .. r + 1 : tag'[k] = tag[k] /\ Cell(k)' = Cell(k)
    BY <1>2, <1>5, <1>7
  <2>3. QED
    BY <1>1, <1>2, <1>6, <2>1, <2>2, StackShapeStep
<1>13. rsp' + 1 = r + 3
  BY <1>2
<1>14. Control'
  <2>1. OnTopOfBody(rsp + 1)'
    BY <1>9, <1>13 DEF OnTopOfBody
  <2>2. QED
    BY <1>1, <1>2, <2>1 DEF Control
<1>15. Innermost("catch", handler, r + 3)'
  <2>1. PICK h : h = handler
    OBVIOUS
  <2>2. /\ \A k \in 0 .. r + 3 : k <= r + 1 => tag'[k] = tag[k]
        /\ \A k \in 0 .. r + 3 : k > r + 1 => tag'[k] # "catch"
        /\ \A k \in 0 .. r + 1 : k > r + 3 => tag[k] # "catch"
    BY <1>5
  <2>3. entry' = entry
    BY <1>2
  <2>4. Innermost("catch", h, r + 3)'
    BY <1>1, <2>1, <2>2, <2>3, InnermostStep
  <2>5. QED
    BY <1>2, <2>1, <2>4 DEF Innermost
<1>16. Innermost("locl", locl, r + 3)'
  BY <1>2, <1>5 DEF Innermost
<1>17. Chains'
  BY <1>1, <1>2, <1>13, <1>15, <1>16
  DEF Chains, HandlerInForce, ReturnedFromCatch, AtCatchEnd, Innermost
<1>18. QED
  BY <1>1, <1>2, <1>6, <1>12, <1>14, <1>17 DEF IInv

(* _catch_beg_ builds a well formed frame above the body that called it.   *)
LEMMA CatchBegStep == ASSUME IInv, CatchBeg PROVE IInv'
<1> USE BoundsAssumption
<1>1. /\ TypeOK /\ StackShape /\ rsp \in 0 .. MaxR /\ OnTopOfBody(rsp + 1)
      /\ Innermost("catch", handler, rsp + 1) /\ Innermost("locl", locl, rsp + 1)
      /\ status = "vm" /\ reg0 = 0 /\ ip \in Bodies /\ dsp \in 0 .. MaxD
      /\ locl = 0 /\ InBody
  BY BodyFacts DEF CatchBeg, NoLocals
<1> PICK r \in 0 .. MaxR - 4 : r = rsp
  BY <1>1 DEF CatchBeg
<1>2. /\ rmem' = [rmem EXCEPT ![r + 1] = rtop, ![r + 2] = locl,
                              ![r + 3] = dsp - 1, ![r + 4] = handler]
      /\ tag' = [tag EXCEPT ![r + 2] = "saved", ![r + 3] = "saved",
                            ![r + 4] = "saved", ![r + 5] = "catch"]
      /\ rsp' = r + 4 /\ rtop' = CatchEndOf(ip) /\ handler' = r + 4
      /\ ex' = 0 /\ dsp' = dsp - 1 /\ dtop' = dmem[dsp] /\ dmem' = dmem
      /\ reg0' = ValidateXT /\ UNCHANGED <<status, locl, entry>>
      /\ ip' = IF ValidateXT = 0 THEN dtop ELSE ip
  BY DEF CatchBeg, DPop, SavedDepth
<1>3. /\ rmem \in [0 .. MaxR -> Int] /\ tag \in [0 .. MaxR + 1 -> Tags]
      /\ rtop \in Int /\ handler \in 0 .. MaxR /\ dtop \in Datum
      /\ dmem \in [0 .. MaxD + 1 -> Datum] /\ ip \in Int
  BY <1>1, AddressKinds DEF TypeOK
<1>4. /\ rmem' \in [0 .. MaxR -> Int] /\ rmem'[r + 1] = rtop
      /\ rmem'[r + 2] = 0 /\ rmem'[r + 3] = dsp - 1 /\ rmem'[r + 4] = handler
      /\ \A k \in 0 .. r : rmem'[k] = rmem[k]
  <2> DEFINE m1 == [rmem EXCEPT ![r + 1] = rtop, ![r + 2] = locl]
  <2>1. /\ m1 \in [0 .. MaxR -> Int] /\ m1[r + 1] = rtop /\ m1[r + 2] = 0
        /\ \A k \in 0 .. r : m1[k] = rmem[k]
    BY <1>1, <1>3
  <2>2. rmem' = [m1 EXCEPT ![r + 3] = dsp - 1, ![r + 4] = handler]
    BY <1>2
  <2>3. dsp - 1 \in Int /\ handler \in Int /\ rtop \in Int
    BY <1>1, <1>3
  <2> HIDE DEF m1
  <2>4. rmem' \in [0 .. MaxR -> Int]
    BY <2>1, <2>2, <2>3
  <2>5. rmem'[r + 3] = dsp - 1 /\ rmem'[r + 4] = handler
    BY <2>1, <2>2
  <2>6. \A k \in 0 .. r + 2 : rmem'[k] = m1[k]
    BY <2>1, <2>2
  <2>7. QED
    BY <2>1, <2>4, <2>5, <2>6, SMTT(30)
<1>5. /\ tag' \in [0 .. MaxR + 1 -> Tags] /\ tag'[r + 2] = "saved"
      /\ tag'[r + 3] = "saved" /\ tag'[r + 4] = "saved" /\ tag'[r + 5] = "catch"
      /\ \A k \in 0 .. r + 1 : tag'[k] = tag[k]
  <2> DEFINE g1 == [tag EXCEPT ![r + 2] = "saved", ![r + 3] = "saved"]
  <2>1. /\ g1 \in [0 .. MaxR + 1 -> Tags] /\ g1[r + 2] = "saved"
        /\ g1[r + 3] = "saved" /\ \A k \in 0 .. r + 1 : g1[k] = tag[k]
    BY <1>3 DEF Tags
  <2>2. tag' = [g1 EXCEPT ![r + 4] = "saved", ![r + 5] = "catch"]
    BY <1>2
  <2> HIDE DEF g1
  <2>3. QED
    BY <1>3, <2>1, <2>2, SMTT(30) DEF Tags
<1>6. ip' \in Bodies /\ rtop' \in CatchEnds /\ ip' \notin CatchEnds
  <2>1. ValidateXT = 0 => dtop \in XTs
    BY <1>1, <1>3, DatumFacts DEF ValidateXT, StackUnderflow, InvalidAddress
  <2>2. QED
    BY <1>1, <1>2, <2>1, AddressKinds DEF Bodies
<1>7. TypeOK'
  <2>1. /\ rtop' \in Int /\ rsp' \in -1 .. MaxR /\ locl' \in 0 .. MaxR
        /\ handler' \in 0 .. MaxR /\ status' \in {"vm", "c", "lost"}
    BY <1>1, <1>2, <1>6, AddressKinds
  <2>2. /\ dsp' \in -1 .. MaxD + 1 /\ dtop' \in Datum
        /\ dmem' \in [0 .. MaxD + 1 -> Datum]
    BY <1>1, <1>2, <1>3
  <2>3. reg0' \in Datum /\ ex' \in Datum
    BY <1>2, DatumFacts DEF ValidateXT
  <2>4. ip' \in Addresses
    BY <1>6 DEF Addresses
  <2>5. QED
    BY <1>1, <1>2, <1>4, <1>5, <2>1, <2>2, <2>3, <2>4 DEF TypeOK
<1>8. rsp' + 1 = r + 5
  BY <1>2
<1>9. /\ \A k \in 0 .. r + 1 : Cell(k)' = Cell(k)
      /\ Cell(r + 2)' = 0 /\ Cell(r + 3)' = dsp - 1 /\ Cell(r + 4)' = handler
      /\ Cell(r + 5)' = rtop'
  <2>1. ASSUME NEW k \in 0 .. r + 1 PROVE Cell(k)' = Cell(k)
    <3>1. CASE k = r + 1
      BY <1>4, <1>8, <3>1 DEF Cell
    <3>2. CASE k # r + 1
      BY <1>4, <1>8, <3>2 DEF Cell
    <3>3. QED
      BY <3>1, <3>2
  <2>2. /\ Cell(r + 2)' = 0 /\ Cell(r + 3)' = dsp - 1 /\ Cell(r + 4)' = handler
        /\ Cell(r + 5)' = rtop'
    BY <1>4, <1>8 DEF Cell
  <2>3. QED
    BY <2>1, <2>2
<1>10. ASSUME NEW t \in {"catch", "locl"}, NEW h, Innermost(t, h, r + 1)
       PROVE  Innermost(t, h, r + 4)'
  <2>1. /\ \A k \in 0 .. r + 4 : k <= r + 1 => tag'[k] = tag[k]
        /\ \A k \in 0 .. r + 4 : k > r + 1 => tag'[k] # t
        /\ \A k \in 0 .. r + 1 : k > r + 4 => tag[k] # t
    BY <1>5
  <2>2. entry' = entry
    BY <1>2
  <2>3. QED
    BY <1>10, <2>1, <2>2, InnermostStep
<1>11. OnTopOfBody(r + 1)' /\ OnTopOfBody(r + 5)'
  BY <1>1, <1>5 DEF OnTopOfBody
<1>12. CatchFrame(r + 4)'
  <2>1. PICK h : h = handler
    OBVIOUS
  <2>2. Innermost("catch", h, r + 4)' /\ Innermost("locl", 0, r + 4)'
    BY <1>1, <1>10, <2>1
  <2>3. Innermost("catch", Cell(r + 4), r + 4)'
    BY <1>9, <2>1, <2>2 DEF Innermost
  <2>4. Innermost("locl", NoLocals, r + 4)'
    BY <2>2 DEF NoLocals
  <2>5. Cell(r + 3)' \in -1 .. MaxD - 1 /\ Cell(r + 2)' = NoLocals
    BY <1>1, <1>9 DEF NoLocals
  <2>6. r + 4 - 1 = r + 3 /\ r + 4 - 2 = r + 2 /\ r + 4 - 3 = r + 1 /\ r + 4 >= 4
    OBVIOUS
  <2>7. QED
    BY <1>5, <1>11, <2>3, <2>4, <2>5, <2>6 DEF CatchFrame
<1>13. WellFormed(r + 5)'
  <2>1. r + 5 - 1 = r + 4 /\ Cell(r + 5)' \in CatchEnds
    BY <1>6, <1>9
  <2>2. QED
    BY <1>5, <1>12, <2>1 DEF WellFormed
<1>14. WellFormed(r + 2)' /\ WellFormed(r + 3)' /\ WellFormed(r + 4)'
  BY <1>5 DEF WellFormed
<1>15. StackShape'
  <2>1. ASSUME NEW p \in 0 .. rsp' + 1, p > r + 1 PROVE WellFormed(p)'
    <3>1. p = r + 2 \/ p = r + 3 \/ p = r + 4 \/ p = r + 5
      BY <1>8, <2>1
    <3>2. QED
      BY <3>1, <1>13, <1>14
  <2>2. /\ r + 1 \in 0 .. MaxR + 1 /\ r + 1 <= rsp + 1 /\ r + 1 <= rsp' + 1
        /\ \A k \in 0 .. r + 1 : tag'[k] = tag[k] /\ Cell(k)' = Cell(k)
    BY <1>2, <1>5, <1>9
  <2>3. QED
    BY <1>1, <1>2, <1>7, <2>1, <2>2, StackShapeStep
<1>16. Control'
  <2>1. OnTopOfBody(rsp + 1)'
    BY <1>8, <1>11 DEF OnTopOfBody
  <2>2. dsp' <= MaxD
    BY <1>1, <1>2
  <2>3. QED
    BY <1>2, <1>6, <2>1, <2>2 DEF Control
<1>17. Chains'
  <2>1. HandlerInForce' = r + 4
    BY <1>2, <1>6 DEF HandlerInForce, ReturnedFromCatch, AtCatchEnd
  <2>2. Innermost("catch", r + 4, r + 5)'
    BY <1>5 DEF Innermost
  <2>3. entry["locl"] = 0 /\ \A k \in 0 .. r + 5 : tag'[k] # "locl"
    BY <1>1, <1>5 DEF Innermost
  <2>4. locl' = 0 /\ entry' = entry
    BY <1>1, <1>2
  <2>5. Innermost("locl", locl, rsp + 1)'
    BY <1>8, <2>3, <2>4 DEF Innermost
  <2>6. Innermost("catch", HandlerInForce, rsp + 1)'
    BY <1>8, <2>1, <2>2 DEF Innermost
  <2>7. QED
    BY <2>5, <2>6 DEF Chains
<1>18. QED
  BY <1>1, <1>2, <1>7, <1>15, <1>16, <1>17 DEF IInv

-----------------------------------------------------------------------------
(* Between C and the VM. *)

LEMMA ReturnStep ==
    ASSUME IInv, status = "vm", ReturnToC, reg0' = 0, ex' \in Datum,
           handler # 0 => ex' = 0
    PROVE  IInv'
<1> USE BoundsAssumption
<1>1. TypeOK /\ Control /\ dsp \in -1 .. MaxD
  BY DEF IInv, TypeOK, Control
<1>2. dsp' \in 0 .. MaxD + 1 /\ dmem' \in [0 .. MaxD + 1 -> Datum]
  BY <1>1 DEF ReturnToC, TypeOK
<1>3. status' = "c" /\ UNCHANGED <<ip, dtop, rmem, rsp, rtop, locl, handler, tag, entry>>
  BY DEF ReturnToC
<1>4. TypeOK'
  BY <1>1, <1>2, <1>3, DatumFacts DEF TypeOK
<1>5. QED
  BY <1>2, <1>3, <1>4 DEF IInv

LEMMA ByeStep == ASSUME IInv, Bye PROVE IInv'
  BY ReturnStep DEF Bye, Running, IInv, TypeOK, Control

LEMMA UncaughtStep == ASSUME IInv, Uncaught PROVE IInv'
  BY ReturnStep DEF Uncaught, Throwing, IInv, TypeOK

(* A fresh return stack: no frame is on it, and what m64th.handler and     *)
(* LOCL hold is what the run was entered with.                             *)
LEMMA EnterStep ==
    ASSUME IInv, NEW x \in XTs, NEW h \in 0 .. MaxR, NEW l \in 0 .. MaxR,
           Enter(x, h, l), ex' \in Datum, h # 0 => ex' = 0,
           dsp' \in -1 .. MaxD, dtop' \in Datum, UNCHANGED dmem
    PROVE  IInv'
<1> USE BoundsAssumption
<1>1. /\ TypeOK /\ reg0' = 0 /\ status' = "vm" /\ ip' = x /\ rsp' = 0
      /\ rtop' = HostBye /\ rmem' = [rmem EXCEPT ![0] = 0]
      /\ tag' = [tag EXCEPT ![0] = "bottom", ![1] = "ret"]
      /\ handler' = h /\ locl' = l
      /\ entry' = [t \in Chained |-> IF t = "catch" THEN h ELSE l]
  BY DEF Enter, IInv
<1>2. tag'[0] = "bottom" /\ tag'[1] = "ret" /\ tag' \in [0 .. MaxR + 1 -> Tags]
  BY <1>1 DEF TypeOK, Tags
<1>3. /\ entry'["catch"] = h /\ entry'["locl"] = l
      /\ entry' \in [Chained -> 0 .. MaxR]
  BY <1>1 DEF Chained
<1>4. TypeOK'
  <2>1. ip' \in Addresses /\ reg0' \in Datum /\ status' \in {"vm", "c", "lost"}
    BY <1>1, DatumFacts DEF Addresses, Bodies
  <2>2. rmem' \in [0 .. MaxR -> Int] /\ rtop' \in Int /\ rsp' \in -1 .. MaxR
    BY <1>1 DEF TypeOK, HostBye
  <2>3. dsp' \in -1 .. MaxD + 1 /\ dmem' \in [0 .. MaxD + 1 -> Datum]
    BY <1>1 DEF TypeOK
  <2>4. handler' \in 0 .. MaxR /\ locl' \in 0 .. MaxR
    BY <1>1
  <2>5. QED
    BY <1>2, <1>3, <2>1, <2>2, <2>3, <2>4, Zenon DEF TypeOK
<1>5. Cell(1)' = HostBye /\ HostBye \notin Bodies /\ rsp' + 1 = 1
  BY <1>1, AddressKinds DEF Cell
<1>6. StackShape'
  <2>1. WellFormed(0)' /\ WellFormed(1)'
    BY <1>2, <1>5 DEF WellFormed
  <2>2. ASSUME NEW p \in 0 .. rsp' + 1 PROVE WellFormed(p)'
    <3>1. p = 0 \/ p = 1
      BY <1>5, <2>2
    <3>2. QED
      BY <2>1, <3>1
  <2>3. QED
    BY <2>2 DEF StackShape
<1>7. ip' \in Bodies /\ ip' \notin CatchEnds
  BY <1>1, AddressKinds DEF Bodies
<1>8. Control'
  BY <1>1, <1>2, <1>5, <1>7 DEF Control, OnTopOfBody
<1>9. Chains'
  <2>1. HandlerInForce' = h /\ locl' = l
    BY <1>1, <1>7 DEF HandlerInForce, ReturnedFromCatch, AtCatchEnd
  <2>2. \A k \in 0 .. 1 : tag'[k] # "catch" /\ tag'[k] # "locl"
    BY <1>2
  <2>3. Innermost("catch", HandlerInForce, rsp + 1)'
    BY <1>3, <1>5, <2>1, <2>2 DEF Innermost
  <2>4. Innermost("locl", locl, rsp + 1)'
    BY <1>3, <1>5, <2>1, <2>2 DEF Innermost
  <2>5. QED
    BY <2>3, <2>4 DEF Chains
<1>10. QED
  BY <1>1, <1>4, <1>6, <1>8, <1>9 DEF IInv

LEMMA RunStep == ASSUME IInv, NEW x \in XTs, Run(x) PROVE IInv'
<1> USE BoundsAssumption
<1>1. /\ TypeOK /\ dsp \in 0 .. MaxD + 1 /\ Enter(x, handler, locl)
      /\ handler \in 0 .. MaxR /\ locl \in 0 .. MaxR
      /\ (handler # 0 => ex = 0)
  BY DEF Run, Enter, IInv, TypeOK
<1>2. /\ ex' = ex /\ ex' \in Datum /\ dsp' \in -1 .. MaxD
      /\ dtop' \in Datum /\ UNCHANGED dmem
  BY <1>1 DEF Run, DPop, TypeOK
<1> PICK h \in 0 .. MaxR : h = handler
  BY <1>1
<1> PICK l \in 0 .. MaxR : l = locl
  BY <1>1
<1>3. h # 0 => ex' = 0
  BY <1>1, <1>2
<1>4. Enter(x, h, l)
  BY <1>1
<1>5. QED
  BY <1>2, <1>3, <1>4, EnterStep

LEMMA ClearAndRunStep == ASSUME IInv, NEW x \in XTs, ClearAndRun(x) PROVE IInv'
<1> USE BoundsAssumption
<1>1. TypeOK /\ Enter(x, 0, 0) /\ 0 \in 0 .. MaxR
  BY DEF ClearAndRun, IInv, NoLocals
<1>2. /\ ex' = 0 /\ ex' \in Datum /\ dsp' \in -1 .. MaxD
      /\ dtop' \in Datum /\ UNCHANGED dmem
  BY <1>1, DatumFacts DEF ClearAndRun, TypeOK
<1>3. QED
  BY <1>1, <1>2, EnterStep

LEMMA LostStep ==
    ASSUME IInv, CatchLosesVM \/ CatchLosesDepth \/ ThrowLosesFrame \/ UNCHANGED vars
    PROVE  IInv'
<1>1. CASE CatchLosesVM \/ CatchLosesDepth \/ ThrowLosesFrame
  BY <1>1 DEF CatchLosesVM, CatchLosesDepth, ThrowLosesFrame, stacks, IInv, TypeOK
<1>2. CASE UNCHANGED vars
  BY <1>2 DEF vars, IInv, TypeOK, Control, Chains, StackShape, WellFormed,
     CatchFrame, OnTopOfBody, Innermost, Cell, HandlerInForce,
     ReturnedFromCatch, AtCatchEnd, Running
<1>3. QED
  BY <1>1, <1>2

-----------------------------------------------------------------------------
(* The invariant. *)

LEMMA InitStep == Init => IInv
<1> SUFFICES ASSUME Init PROVE IInv
  OBVIOUS
<1> USE BoundsAssumption
<1>1. ip \in Addresses /\ reg0 \in Datum /\ ex \in Datum
  BY DatumFacts DEF Init, Addresses
<1>2. dmem \in [0 .. MaxD + 1 -> Datum] /\ dtop \in Datum /\ dsp \in -1 .. MaxD + 1
  BY DatumFacts DEF Init
<1>3. /\ rmem \in [0 .. MaxR -> Int] /\ rtop \in Int /\ rsp \in -1 .. MaxR
      /\ tag \in [0 .. MaxR + 1 -> Tags]
  BY DEF Init, Tags
<1>4. locl \in 0 .. MaxR /\ handler \in 0 .. MaxR /\ entry \in [Chained -> 0 .. MaxR]
  BY DEF Init, NoLocals
<1>5. status = "c" /\ dsp >= 0 /\ reg0 = 0 /\ handler = 0
  BY DEF Init
<1>6. TypeOK
  <2>1. status \in {"vm", "c", "lost"}
    BY <1>5
  <2>2. QED
    BY <1>1, <1>2, <1>3, <1>4, <2>1, Zenon DEF TypeOK
<1>7. QED
  BY <1>5, <1>6 DEF IInv

(* Every step of the machine preserves the invariant. *)
LEMMA NextStep == IInv /\ [Next]_vars => IInv'
<1> SUFFICES ASSUME IInv, [Next]_vars PROVE IInv'
  OBVIOUS
<1>1. ASSUME NEW v \in Literals \cup XTs, Push(v) PROVE IInv'
  BY <1>1, PushStep
<1>2. ASSUME NEW x \in XTs, Call(x) PROVE IInv'
  BY <1>2, CallStep
<1>3. CASE Drop \/ ToR \/ RFrom \/ Execute \/ Exit \/ LocalsEnter \/ LocalsExit
  BY <1>3, DropStep, ToRStep, RFromStep, ExecuteStep, ExitStep,
     LocalsEnterStep, LocalsExitStep
<1>4. CASE CatchBeg \/ CatchEnd \/ ThrowToken \/ Throw
  BY <1>4, CatchBegStep, CatchEndStep, ThrowTokenStep, ThrowStepKeeps
<1>5. CASE Uncaught \/ Bye
  BY <1>5, UncaughtStep, ByeStep
<1>6. CASE CatchLosesVM \/ CatchLosesDepth \/ ThrowLosesFrame \/ Lost \/ UNCHANGED vars
  BY <1>6, LostStep DEF Lost
<1>7. ASSUME NEW x \in XTs, Run(x) \/ ClearAndRun(x) PROVE IInv'
  BY <1>7, RunStep, ClearAndRunStep
<1>8. QED
  BY <1>1, <1>2, <1>3, <1>4, <1>5, <1>6, <1>7 DEF Next, Tokens

(* IInv holds in every state of every program, whatever the words, the     *)
(* literals and the sizes of the stacks (call.S, local.S).                 *)
THEOREM Inductive == Spec => []IInv
<1>1. Init => IInv
  BY InitStep
<1>2. IInv /\ [Next]_vars => IInv'
  BY NextStep
<1>3. QED
  BY <1>1, <1>2, PTL DEF Spec

(* Registers and memories hold values of their kinds; what EXECUTE and     *)
(* CATCH accept as an XT is one (call.S, _validate_xt_to_reg0_).           *)
THEOREM TypeCorrect == Spec => []TypeOK
<1>1. IInv => TypeOK
  BY DEF IInv
<1>2. QED
  BY <1>1, Inductive, PTL

(* m64th.handler designates the innermost active CATCH and every saved     *)
(* handler the next outer one; without one it is what the run was entered  *)
(* with (call.S, _catch_beg_, throw; amd64/call.S, m64th_run).             *)
THEOREM HandlerChainHolds == Spec => []HandlerChain
<1>1. ASSUME IInv PROVE HandlerChain
  <2>1. CASE status = "vm"
    <3>1. TypeOK /\ Chains /\ StackShape /\ rsp \in -1 .. MaxR
      BY <1>1, <2>1 DEF IInv, TypeOK
    <3>2. Innermost("catch", HandlerInForce, rsp + 1)
      BY <3>1 DEF Chains
    <3>3. ASSUME NEW p \in Live("catch")
          PROVE  p >= 5 /\ Innermost("catch", rmem[p - 1], p - 1)
      <4>1. p \in 0 .. rsp + 1 /\ tag[p] = "catch" /\ WellFormed(p)
        BY <3>1 DEF Live, StackShape
      <4>2. CatchFrame(p - 1)
        BY <4>1 DEF WellFormed
      <4>3. p >= 5 /\ Innermost("catch", Cell(p - 1), p - 1)
        BY <4>1, <4>2 DEF CatchFrame
      <4>4. Cell(p - 1) = rmem[p - 1]
        BY <3>1, <4>1 DEF Cell
      <4>5. QED
        BY <4>3, <4>4
    <3>4. QED
      BY <3>2, <3>3 DEF HandlerChain
  <2>2. QED
    BY <2>1 DEF HandlerChain
<1>2. QED
  BY <1>1, Inductive, PTL

(* LOCL designates the innermost locals frame that is still on the return  *)
(* stack, after any return or throw; without one it is what the run was    *)
(* entered with (local.S, call.S; amd64/call.S, m64th_run).                *)
THEOREM LoclChainHolds == Spec => []LoclChain
<1>1. ASSUME IInv PROVE LoclChain
  <2>1. CASE status = "vm"
    <3>1. TypeOK /\ Chains /\ StackShape /\ rsp \in -1 .. MaxR
      BY <1>1, <2>1 DEF IInv, TypeOK
    <3>2. Innermost("locl", locl, rsp + 1)
      BY <3>1 DEF Chains
    <3>3. ASSUME NEW p \in Live("locl")
          PROVE  p >= 2 /\ Innermost("locl", Cell(p), p - 1)
      <4>1. p \in 0 .. rsp + 1 /\ tag[p] = "locl" /\ WellFormed(p)
        BY <3>1 DEF Live, StackShape
      <4>2. QED
        BY <4>1 DEF WellFormed, OnTopOfBody
    <3>4. QED
      BY <3>2, <3>3 DEF LoclChain
  <2>2. QED
    BY <2>1 DEF LoclChain
<1>2. QED
  BY <1>1, Inductive, PTL

(* (catch-end) may decide by m64th.ex alone whether its frame is still on  *)
(* the return stack (call.S, _catch_end_).                                 *)
THEOREM ExTellsHowHolds == Spec => []ExTellsHow
<1>1. ASSUME IInv PROVE ExTellsHow
  <2>1. CASE AtCatchEnd
    <3>1. Control /\ ip \in CatchEnds
      BY <1>1, <2>1 DEF IInv, AtCatchEnd, Running
    <3>2. ex = 0 => tag[rsp + 1] = "saved"
      BY <3>1 DEF Control, CatchFrame
    <3>3. ex # 0 => tag[rsp + 1] # "saved"
      BY <3>1 DEF Control, OnTopOfBody
    <3>4. QED
      BY <3>2, <3>3 DEF ExTellsHow, RTag
  <2>2. QED
    BY <2>1 DEF ExTellsHow
<1>2. QED
  BY <1>1, Inductive, PTL

(* A throw resumes the innermost active CATCH with the stacks, the depth   *)
(* and the locals frame of that time (call.S, throw).                      *)
THEOREM ThrowResumesInnermostHolds == Spec => ThrowResumesInnermost
<1>1. ASSUME IInv, Throw PROVE ThrowStep
  <2> DEFINE c == handler + 1
  <2>1. /\ TypeOK /\ status = "vm" /\ rsp \in -1 .. MaxR /\ dsp \in -1 .. MaxD
        /\ handler \in 4 .. rsp /\ tag[c] = "catch" /\ SavedIP = Cell(c)
        /\ \A p \in handler + 2 .. rsp + 1 : tag[p] # "catch"
        /\ CatchFrame(handler) /\ Cell(c) \in CatchEnds
        /\ \A k \in 0 .. rsp : Cell(k) = rmem[k]
    BY <1>1, ThrowFacts
  <2>2. c \in Live("catch") /\ \A p \in Live("catch") : p <= c
    BY <2>1 DEF Live
  <2>3. ip' = Cell(c) /\ ip' \in CatchEnds
    BY <1>1, <2>1 DEF Throw
  <2>4. rmem[handler - 2] = NoLocals
    BY <2>1 DEF CatchFrame
  <2>5. /\ rsp' = handler - 2 - 1 - 1 /\ rtop' = rmem[handler - 2 - 1]
        /\ locl' = rmem[handler - 2]
    BY <1>1, <2>4 DEF Throw, LoclAfterThrow
  <2>6. RestoreDepth(rmem[handler - 1])
    BY <1>1 DEF Throw
  <2>7. dsp' = rmem[handler - 1]
    BY <2>6 DEF RestoreDepth
  <2>8. ASSUME NEW k \in 0 .. dsp PROVE dmem'[k] = dmem[k]
    <3>1. dmem \in [0 .. MaxD + 1 -> Datum] /\ k \in 0 .. MaxD + 1 /\ k # dsp + 1
      BY <2>1, <2>8, BoundsAssumption DEF TypeOK
    <3>2. QED
      BY <2>6, <3>1 DEF RestoreDepth
  <2>9. /\ c - 4 = handler - 2 - 1 /\ c - 3 = handler - 2 /\ c - 2 = handler - 1
        /\ rsp' + 1 = c - 4
    BY <2>1, <2>5
  <2>10. QED
    BY <2>2, <2>3, <2>5, <2>7, <2>8, <2>9 DEF ThrowStep
<1>2. ASSUME IInv, Throwing, Live("catch") # {}
      PROVE  handler # 0
  <2>1. HandlerInForce = handler /\ Chains /\ rsp \in -1 .. MaxR
    BY <1>2 DEF HandlerInForce, ReturnedFromCatch, AtCatchEnd, Running, Throwing, IInv, TypeOK
  <2>2. QED
    BY <1>2, <2>1, BoundsAssumption DEF Chains, Innermost, Live
<1>3. ASSUME IInv, [Next]_vars, Throwing, Live("catch") # {}
      PROVE  Throw \/ UNCHANGED vars
  BY <1>2, <1>3 DEF Throwing, ThrowLosesFrame, Next, Tokens, Push, Drop, ToR, RFrom, Call, Execute, Exit,
     LocalsEnter, LocalsExit, CatchBeg, CatchLosesVM, CatchLosesDepth,
     CatchEnd, AtCatchEnd, ThrowToken, Uncaught, Bye, Lost, Run,
     ClearAndRun, Enter, InBody, Running
<1>4. IInv /\ [Next]_vars
      => [Throwing /\ Live("catch") # {} => ThrowStep]_vars
  BY <1>1, <1>3
<1>5. QED
  BY <1>4, Inductive, PTL DEF Spec, ThrowResumesInnermost

-----------------------------------------------------------------------------
(* The cells that begin an activation.  Begun is a recursive function: one *)
(* that satisfies its equation exists, and any two agree.                  *)

BegunStep(a, f, p) ==
    IF p < 0 THEN <<>>
    ELSE IF a[p].kind \in {"bottom", "saved"} THEN f[p - 1]
    ELSE Append(f[p - 1], a[p])

BegunBelow(a, f, b) == \A p \in Int : p < b => f[p] = BegunStep(a, f, p)

LEMMA BegunAgree ==
    ASSUME NEW a, NEW b \in Int, NEW f, NEW g, BegunBelow(a, f, b), BegunBelow(a, g, b),
           NEW p \in Int, p < b
    PROVE  f[p] = g[p]
<1> DEFINE T == {x \in Nat : x < b /\ f[x] # g[x]}
<1>1. ASSUME NEW x \in Int, x < b, x < 0
      PROVE  f[x] = g[x]
  BY <1>1 DEF BegunBelow, BegunStep
<1>2. ASSUME T # {}
      PROVE  FALSE
  <2>1. PICK x \in T : \A y \in T : x <= y
    <3>1. T \subseteq Nat
      OBVIOUS
    <3> HIDE DEF T
    <3>2. QED
      BY <1>2, <3>1, LeastNat
  <2>2. x \in Nat /\ x < b /\ f[x] # g[x]
    OBVIOUS
  <2>3. f[x - 1] = g[x - 1]
    <3>1. CASE x = 0
      BY <1>1, <2>2, <3>1
    <3>2. CASE x # 0
      <4>1. x - 1 \in Nat /\ x - 1 < b /\ ~ (x <= x - 1)
        BY <2>2, <3>2
      <4>2. QED
        BY <2>1, <4>1
    <3>3. QED
      BY <3>1, <3>2
  <2>4. f[x] = BegunStep(a, f, x) /\ g[x] = BegunStep(a, g, x)
    BY <2>2 DEF BegunBelow
  <2>5. BegunStep(a, f, x) = BegunStep(a, g, x)
    BY <2>3 DEF BegunStep
  <2>6. QED
    BY <2>2, <2>4, <2>5
<1>3. CASE p < 0
  BY <1>1, <1>3
<1>4. CASE ~ (p < 0)
  <2>1. p \in Nat
    BY <1>4
  <2>2. QED
    BY <1>2, <2>1
<1>5. QED
  BY <1>3, <1>4

LEMMA BegunExists ==
    ASSUME NEW a, NEW b \in Int
    PROVE  \E f : BegunBelow(a, f, b)
<1> DEFINE T == {x \in Nat : \A f : ~ BegunBelow(a, f, x)}
           none == [p \in Int |-> <<>>]
<1>1. ASSUME NEW x \in Int, x <= 0
      PROVE  BegunBelow(a, none, x)
  BY <1>1 DEF BegunBelow, BegunStep
<1>2. ASSUME T # {}
      PROVE  FALSE
  <2>1. PICK x \in T : \A y \in T : x <= y
    <3>1. T \subseteq Nat
      OBVIOUS
    <3> HIDE DEF T
    <3>2. QED
      BY <1>2, <3>1, LeastNat
  <2>2. x \in Nat /\ \A f : ~ BegunBelow(a, f, x)
    OBVIOUS
  <2>3. x # 0
    BY <1>1, <2>2
  <2>4. x - 1 \in Nat /\ x - 1 \notin T
    <3> HIDE DEF T
    <3> QED
      BY <2>1, <2>2, <2>3
  <2>5. PICK f : BegunBelow(a, f, x - 1)
    BY <2>4
  <2> DEFINE g == [p \in Int |-> IF p = x - 1 THEN BegunStep(a, f, p) ELSE f[p]]
  <2>6. ASSUME NEW p \in Int, p < x
        PROVE  g[p] = BegunStep(a, g, p)
    <3>1. g[p] = BegunStep(a, f, p)
      <4>1. CASE p = x - 1
        BY <4>1
      <4>2. CASE p # x - 1
        <5>1. p < x - 1
          BY <2>2, <2>6, <4>2
        <5>2. QED
          BY <2>5, <4>2, <5>1 DEF BegunBelow
      <4>3. QED
        BY <4>1, <4>2
    <3>2. g[p - 1] = f[p - 1]
      <4>1. p - 1 \in Int /\ p - 1 # x - 1
        BY <2>2, <2>6
      <4>2. QED
        BY <4>1
    <3>3. BegunStep(a, f, p) = BegunStep(a, g, p)
      <4> HIDE DEF g
      <4> QED
        BY <3>2 DEF BegunStep
    <3>4. QED
      BY <3>1, <3>3
  <2>7. BegunBelow(a, g, x)
    <3> HIDE DEF g
    <3> QED
      BY <2>6 DEF BegunBelow
  <2>8. QED
    BY <2>2, <2>7
<1>3. CASE b <= 0
  BY <1>1, <1>3
<1>4. CASE ~ (b <= 0)
  <2>1. b \in Nat /\ b \notin T
    <3>1. b \in Nat
      BY <1>4
    <3> HIDE DEF T
    <3>2. QED
      BY <1>2, <3>1
  <2>2. QED
    BY <2>1
<1>5. QED
  BY <1>3, <1>4

(* What Begun computes.                                                    *)
LEMMA BegunRule ==
    ASSUME NEW a, NEW n \in Int
    PROVE  Begun(a, n) = IF n < 0 THEN <<>>
                         ELSE IF a[n].kind \in {"bottom", "saved"} THEN Begun(a, n - 1)
                         ELSE Append(Begun(a, n - 1), a[n])
<1> DEFINE Eq(f) == f = [p \in Int |->
                            IF p < 0 THEN <<>>
                            ELSE IF a[p].kind \in {"bottom", "saved"} THEN f[p - 1]
                            ELSE Append(f[p - 1], a[p])]
           begun == CHOOSE f : Eq(f)
           below(b) == CHOOSE f : BegunBelow(a, f, b + 1)
           F == [p \in Int |-> below(p)[p]]
<1>1. \A b \in Int : BegunBelow(a, below(b), b + 1)
  <2> SUFFICES ASSUME NEW b \in Int
               PROVE  BegunBelow(a, below(b), b + 1)
    OBVIOUS
  <2>1. b + 1 \in Int
    OBVIOUS
  <2>2. \E f : BegunBelow(a, f, b + 1)
    BY <2>1, BegunExists
  <2>3. QED
    BY <2>2, Zenon
<1> HIDE DEF below
<1>2. ASSUME NEW p \in Int
      PROVE  F[p] = BegunStep(a, F, p)
  <2>1. F[p] = BegunStep(a, below(p), p)
    BY <1>1 DEF BegunBelow
  <2>2. below(p)[p - 1] = F[p - 1]
    <3>1. BegunBelow(a, below(p), p) /\ BegunBelow(a, below(p - 1), p)
      <4>1. BegunBelow(a, below(p), p + 1) /\ BegunBelow(a, below(p - 1), (p - 1) + 1)
        BY <1>1
      <4>2. (p - 1) + 1 = p /\ \A x \in Int : x < p => x < p + 1
        OBVIOUS
      <4>3. QED
        BY <4>1, <4>2 DEF BegunBelow
    <3>2. p - 1 \in Int /\ p - 1 < p
      OBVIOUS
    <3>3. below(p)[p - 1] = below(p - 1)[p - 1]
      BY <3>1, <3>2, BegunAgree
    <3>4. QED
      BY <3>2, <3>3
  <2>3. QED
    <3> HIDE DEF F
    <3> QED
      BY <2>1, <2>2 DEF BegunStep
<1>3. Eq(F)
  <2>1. F = [p \in Int |-> F[p]]
    OBVIOUS
  <2>2. \A p \in Int : F[p] = IF p < 0 THEN <<>>
                              ELSE IF a[p].kind \in {"bottom", "saved"} THEN F[p - 1]
                              ELSE Append(F[p - 1], a[p])
    <3> HIDE DEF F
    <3> QED
      BY <1>2 DEF BegunStep
  <2> HIDE DEF F
  <2>3. QED
    BY <2>1, <2>2
<1>4. Eq(begun)
  <2>1. \E f : Eq(f)
    BY <1>3, Zenon
  <2> HIDE DEF Eq
  <2>2. QED
    BY <2>1, Zenon
<1>5. \A p \in Int : Begun(a, p) = begun[p]
  BY DEF Begun
<1> HIDE DEF begun
<1>6. \A p \in Int : begun[p] = IF p < 0 THEN <<>>
                                ELSE IF a[p].kind \in {"bottom", "saved"} THEN begun[p - 1]
                                ELSE Append(begun[p - 1], a[p])
  BY <1>4
<1> HIDE DEF Eq
<1>7. n - 1 \in Int
  OBVIOUS
<1>8. Begun(a, n) = begun[n] /\ Begun(a, n - 1) = begun[n - 1]
  BY <1>5, <1>7
<1>9. QED
  BY <1>6, <1>8

LEMMA BegunSeq ==
    ASSUME NEW a, NEW S, NEW n \in Int, \A k \in 0 .. n : a[k] \in S
    PROVE  Begun(a, n) \in Seq(S)
<1> DEFINE T == {x \in Nat : x <= n /\ Begun(a, x) \notin Seq(S)}
<1>1. ASSUME NEW x \in Int, x < 0
      PROVE  Begun(a, x) \in Seq(S)
  BY <1>1, BegunRule, EmptySeq
<1>2. ASSUME T # {}
      PROVE  FALSE
  <2>1. PICK x \in T : \A y \in T : x <= y
    <3>1. T \subseteq Nat
      OBVIOUS
    <3> HIDE DEF T
    <3>2. QED
      BY <1>2, <3>1, LeastNat
  <2>2. x \in Nat /\ x <= n /\ Begun(a, x) \notin Seq(S)
    OBVIOUS
  <2>3. Begun(a, x - 1) \in Seq(S)
    <3>1. CASE x = 0
      BY <1>1, <2>2, <3>1
    <3>2. CASE x # 0
      <4>1. x - 1 \in Nat /\ x - 1 <= n /\ ~ (x <= x - 1)
        BY <2>2, <3>2
      <4>2. QED
        BY <2>1, <4>1
    <3>3. QED
      BY <3>1, <3>2
  <2>4. a[x] \in S /\ x \in Int /\ ~ (x < 0)
    BY <2>2
  <2>5. Append(Begun(a, x - 1), a[x]) \in Seq(S)
    BY <2>3, <2>4, AppendProperties
  <2>6. QED
    BY <2>2, <2>3, <2>4, <2>5, BegunRule
<1>3. CASE n < 0
  BY <1>1, <1>3
<1>4. CASE ~ (n < 0)
  <2>1. n \in Nat /\ n <= n
    BY <1>4
  <2>2. QED
    BY <1>2, <2>1
<1>5. QED
  BY <1>3, <1>4

LEMMA BegunSame ==
    ASSUME NEW a, NEW b, NEW n \in Int, \A k \in 0 .. n : a[k] = b[k]
    PROVE  Begun(a, n) = Begun(b, n)
<1> DEFINE T == {x \in Nat : x <= n /\ Begun(a, x) # Begun(b, x)}
<1>1. ASSUME NEW x \in Int, x < 0
      PROVE  Begun(a, x) = Begun(b, x)
  BY <1>1, BegunRule
<1>2. ASSUME T # {}
      PROVE  FALSE
  <2>1. PICK x \in T : \A y \in T : x <= y
    <3>1. T \subseteq Nat
      OBVIOUS
    <3> HIDE DEF T
    <3>2. QED
      BY <1>2, <3>1, LeastNat
  <2>2. x \in Nat /\ x <= n /\ Begun(a, x) # Begun(b, x)
    OBVIOUS
  <2>3. Begun(a, x - 1) = Begun(b, x - 1)
    <3>1. CASE x = 0
      BY <1>1, <2>2, <3>1
    <3>2. CASE x # 0
      <4>1. x - 1 \in Nat /\ x - 1 <= n /\ ~ (x <= x - 1)
        BY <2>2, <3>2
      <4>2. QED
        BY <2>1, <4>1
    <3>3. QED
      BY <3>1, <3>2
  <2>4. a[x] = b[x] /\ x \in Int
    BY <2>2
  <2>5. QED
    BY <2>2, <2>3, <2>4, BegunRule
<1>3. CASE n < 0
  BY <1>1, <1>3
<1>4. CASE ~ (n < 0)
  <2>1. n \in Nat /\ n <= n
    BY <1>4
  <2>2. QED
    BY <1>2, <2>1
<1>5. QED
  BY <1>3, <1>4

(* The element m of s is x, what is before it is r and no CATCH is after.  *)
InnermostCatch(s, m, x, r) ==
    /\ m \in 1 .. Len(s) /\ s[m] = x
    /\ SubSeq(s, 1, m - 1) = r
    /\ \A i \in 1 .. Len(s) : i > m => s[i].kind # "catch"

LEMMA AppendAfterCatch ==
    ASSUME NEW S, NEW s \in Seq(S), NEW e \in S, NEW m \in Int, NEW x, NEW r,
           InnermostCatch(s, m, x, r), e.kind # "catch"
    PROVE  InnermostCatch(Append(s, e), m, x, r)
<1> DEFINE u == Append(s, e)
<1>1. /\ u \in Seq(S) /\ Len(u) = Len(s) + 1 /\ u[Len(s) + 1] = e
      /\ \A i \in 1 .. Len(s) : u[i] = s[i]
  BY AppendProperties
<1>2. Len(s) \in Nat
  BY LenProperties
<1> HIDE DEF u
<1>3. m \in 1 .. Len(s) /\ m \in 1 .. Len(u) /\ u[m] = x
  BY <1>1, <1>2 DEF InnermostCatch
<1>4. ASSUME NEW i \in 1 .. Len(u), i > m
      PROVE  u[i].kind # "catch"
  <2>1. CASE i = Len(s) + 1
    BY <1>1, <2>1
  <2>2. CASE i # Len(s) + 1
    <3>1. i \in 1 .. Len(s)
      BY <1>1, <1>2, <2>2
    <3>2. QED
      BY <1>1, <1>4, <3>1 DEF InnermostCatch
  <2>3. QED
    BY <2>1, <2>2
<1>5. SubSeq(u, 1, m - 1) = SubSeq(s, 1, m - 1)
  <2>1. \A i \in 1 .. m - 1 : u[i] = s[i] /\ s[i] \in S
    BY <1>1, <1>2, <1>3, ElementOfSeq
  <2>2. /\ SubSeq(u, 1, m - 1) \in Seq(S) /\ SubSeq(s, 1, m - 1) \in Seq(S)
        /\ Len(SubSeq(u, 1, m - 1)) = IF 1 <= m - 1 THEN m - 1 - 1 + 1 ELSE 0
        /\ Len(SubSeq(s, 1, m - 1)) = IF 1 <= m - 1 THEN m - 1 - 1 + 1 ELSE 0
        /\ \A i \in 1 .. m - 1 - 1 + 1 : SubSeq(u, 1, m - 1)[i] = u[1 + i - 1]
        /\ \A i \in 1 .. m - 1 - 1 + 1 : SubSeq(s, 1, m - 1)[i] = s[1 + i - 1]
    BY <2>1, SubSeqProperties
  <2>3. \A i \in 1 .. m - 1 : SubSeq(u, 1, m - 1)[i] = u[i] /\ SubSeq(s, 1, m - 1)[i] = s[i]
    BY <2>2
  <2>4. /\ Len(SubSeq(u, 1, m - 1)) = m - 1
        /\ Len(SubSeq(s, 1, m - 1)) = m - 1
    BY <1>3, <2>2
  <2>5. \A i \in 1 .. m - 1 : SubSeq(u, 1, m - 1)[i] = SubSeq(s, 1, m - 1)[i]
    BY <2>1, <2>3
  <2>6. QED
    BY <2>2, <2>4, <2>5, SeqEqual
<1>6. QED
  BY <1>3, <1>4, <1>5 DEF InnermostCatch, u

LEMMA AppendCatch ==
    ASSUME NEW S, NEW s \in Seq(S), NEW e \in S
    PROVE  InnermostCatch(Append(s, e), Len(s) + 1, e, s)
<1> DEFINE u == Append(s, e)
<1>1. /\ u \in Seq(S) /\ Len(u) = Len(s) + 1 /\ u[Len(s) + 1] = e
      /\ \A i \in 1 .. Len(s) : u[i] = s[i]
  BY AppendProperties
<1>2. Len(s) \in Nat
  BY LenProperties
<1>3. SubSeq(u, 1, Len(s)) = s
  <2>1. \A i \in 1 .. Len(s) : u[i] = s[i] /\ s[i] \in S
    BY <1>1, ElementOfSeq
  <2> HIDE DEF u
  <2>2. /\ SubSeq(u, 1, Len(s)) \in Seq(S)
        /\ Len(SubSeq(u, 1, Len(s))) = IF 1 <= Len(s) THEN Len(s) - 1 + 1 ELSE 0
        /\ \A i \in 1 .. Len(s) - 1 + 1 : SubSeq(u, 1, Len(s))[i] = u[1 + i - 1]
    BY <1>2, <2>1, SubSeqProperties
  <2>3. Len(SubSeq(u, 1, Len(s))) = Len(s)
    BY <1>2, <2>2
  <2>4. \A i \in 1 .. Len(s) : SubSeq(u, 1, Len(s))[i] = s[i]
    BY <1>2, <2>1, <2>2
  <2>5. QED
    BY <2>2, <2>3, <2>4, SeqEqual
<1> HIDE DEF u
<1>4. Len(s) + 1 \in 1 .. Len(u) /\ Len(s) + 1 - 1 = Len(s)
      /\ \A i \in 1 .. Len(u) : ~ (i > Len(s) + 1)
  BY <1>1, <1>2
<1>5. QED
  BY <1>1, <1>3, <1>4 DEF InnermostCatch, u

(* The innermost catch cell is the innermost CATCH of the activations.     *)
LEMMA BegunCatch ==
    ASSUME NEW a, NEW n \in Int, NEW c \in Nat, c <= n, a[c].kind = "catch",
           \A k \in c + 1 .. n : a[k].kind # "catch"
    PROVE  InnermostCatch(Begun(a, n), Len(Begun(a, c - 1)) + 1, a[c], Begun(a, c - 1))
<1> DEFINE S == {a[k] : k \in 0 .. n}
           r == Begun(a, c - 1)
           m == Len(r) + 1
           T == {x \in Nat : c <= x /\ x <= n /\ ~ InnermostCatch(Begun(a, x), m, a[c], r)}
<1>1. \A k \in 0 .. n : a[k] \in S
  OBVIOUS
<1> HIDE DEF S
<1>2. ASSUME NEW x \in Int, x <= n
      PROVE  Begun(a, x) \in Seq(S)
  <2>1. \A k \in 0 .. x : a[k] \in S
    BY <1>1, <1>2
  <2>2. QED
    BY <2>1, BegunSeq
<1>3. r \in Seq(S)
  BY <1>2
<1>4. m \in Int
  <2> HIDE DEF r
  <2> QED
    BY <1>3, LenProperties
<1>5. ASSUME T # {}
      PROVE  FALSE
  <2>1. PICK x \in T : \A y \in T : x <= y
    <3>1. T \subseteq Nat
      OBVIOUS
    <3> HIDE DEF T
    <3>2. QED
      BY <1>5, <3>1, LeastNat
  <2>2. x \in Nat /\ c <= x /\ x <= n /\ ~ InnermostCatch(Begun(a, x), m, a[c], r)
    OBVIOUS
  <2>3. x - 1 \in Int /\ x - 1 <= n /\ a[x] \in S /\ x \in Int /\ ~ (x < 0)
    BY <1>1, <2>2
  <2>4. Begun(a, x - 1) \in Seq(S)
    BY <1>2, <2>3
  <2>5. CASE x = c
    <3>1. Begun(a, x) = Append(r, a[c])
      BY <2>3, <2>5, BegunRule
    <3>2. InnermostCatch(Append(r, a[c]), m, a[c], r)
      BY <1>3, <2>3, <2>5, AppendCatch
    <3>3. QED
      BY <2>2, <3>1, <3>2
  <2>6. CASE x # c
    <3>1. x - 1 \in Nat /\ c <= x - 1 /\ ~ (x <= x - 1) /\ x \in c + 1 .. n
      BY <2>2, <2>6
    <3>2. x - 1 \notin T
      <4> HIDE DEF T
      <4> QED
        BY <2>1, <3>1
    <3>3. InnermostCatch(Begun(a, x - 1), m, a[c], r)
      BY <2>3, <3>1, <3>2
    <3> HIDE DEF m, r
    <3>4. a[x].kind # "catch"
      BY <3>1
    <3>5. InnermostCatch(Append(Begun(a, x - 1), a[x]), m, a[c], r)
      BY <1>4, <2>3, <2>4, <3>3, <3>4, AppendAfterCatch
    <3>6. QED
      BY <2>2, <2>3, <3>3, <3>5, BegunRule
  <2>7. QED
    BY <2>5, <2>6
<1>6. n \in Nat /\ n <= n
  OBVIOUS
<1>7. n \notin T
  BY <1>5
<1>8. QED
  BY <1>6, <1>7

LEMMA BegunNoCatch ==
    ASSUME NEW a, NEW n \in Int, \A k \in 0 .. n : a[k].kind # "catch"
    PROVE  \A i \in DOMAIN Begun(a, n) : Begun(a, n)[i].kind # "catch"
<1> DEFINE S == {a[k] : k \in 0 .. n}
<1>1. \A k \in 0 .. n : a[k] \in S
  OBVIOUS
<1>2. \A e \in S : e.kind # "catch"
  OBVIOUS
<1> HIDE DEF S
<1>3. Begun(a, n) \in Seq(S)
  BY <1>1, BegunSeq
<1>4. QED
  BY <1>2, <1>3, LenProperties, ElementOfSeq

(* Cells that were saved on behalf of another begin nothing.               *)
LEMMA BegunSkip ==
    ASSUME NEW a, NEW m \in Int, NEW n \in Int, m >= -1, m <= n,
           \A k \in m + 1 .. n : a[k].kind = "saved"
    PROVE  Begun(a, n) = Begun(a, m)
<1> DEFINE T == {x \in Nat : m <= x /\ x <= n /\ Begun(a, x) # Begun(a, m)}
<1>1. ASSUME T # {}
      PROVE  FALSE
  <2>1. PICK x \in T : \A y \in T : x <= y
    <3>1. T \subseteq Nat
      OBVIOUS
    <3> HIDE DEF T
    <3>2. QED
      BY <1>1, <3>1, LeastNat
  <2>2. x \in Nat /\ m <= x /\ x <= n /\ Begun(a, x) # Begun(a, m)
    OBVIOUS
  <2>3. x # m /\ x \in m + 1 .. n /\ m <= x - 1 /\ x - 1 <= n /\ ~ (x <= x - 1)
    BY <2>2
  <2>4. Begun(a, x - 1) = Begun(a, m)
    <3>1. CASE x = 0
      BY <2>3, <3>1
    <3>2. CASE x # 0
      <4>1. x - 1 \in Nat
        BY <2>2, <3>2
      <4>2. x - 1 \notin T
        <5> HIDE DEF T
        <5> QED
          BY <2>1, <2>3
      <4>3. QED
        BY <2>3, <4>1, <4>2
    <3>3. QED
      BY <3>1, <3>2
  <2>5. x \in Int /\ ~ (x < 0) /\ a[x].kind \in {"bottom", "saved"}
    BY <2>2, <2>3
  <2>6. QED
    BY <2>2, <2>4, <2>5, BegunRule
<1>2. CASE n < 0
  BY <1>2
<1>3. CASE ~ (n < 0)
  <2>1. n \in Nat /\ n <= n
    BY <1>3
  <2>2. n \notin T
    BY <1>1
  <2>3. QED
    BY <2>1, <2>2
<1>4. QED
  BY <1>2, <1>3

(* The last element of a sequence, and what is before it.                  *)
LEMMA FrontOfAppend ==
    ASSUME NEW S, NEW s \in Seq(S), NEW e
    PROVE  /\ Scopes!Front(Append(s, e)) = s /\ Scopes!Last(Append(s, e)) = e
           /\ Len(Append(s, e)) = Len(s) + 1 /\ Append(s, e) # <<>>
<1>1. s \in Seq(S \cup {e}) /\ e \in S \cup {e}
  BY SeqMonotonic
<1>2. InnermostCatch(Append(s, e), Len(s) + 1, e, s)
  BY <1>1, AppendCatch
<1>3. Len(Append(s, e)) = Len(s) + 1 /\ Append(s, e) # <<>>
  BY <1>1, AppendProperties
<1>4. Len(s) + 1 - 1 = Len(s)
  BY LenProperties
<1>5. QED
  BY <1>2, <1>3, <1>4 DEF InnermostCatch, Scopes!Front, Scopes!Last

(* The data stack as a sequence: of the memory m, the pointer d and the    *)
(* cached top t, all cells but the one at the bottom.                      *)
DataOf(m, d, t) == [i \in 1 .. d + 1 |-> IF i = d + 1 THEN t ELSE m[i]]

IsAppend(u, s, v) == u = Append(s, v)

CellsIn(m, d, S) == \A i \in 1 .. d : m[i] \in S
SameCells(n, m, d) == \A i \in 1 .. d : n[i] = m[i]

LEMMA DataSeq ==
    ASSUME NEW S, NEW d \in Int, NEW m, NEW t \in S, d >= -1, CellsIn(m, d, S)
    PROVE  /\ DataOf(m, d, t) \in Seq(S) /\ Len(DataOf(m, d, t)) = d + 1
           /\ SameCells(DataOf(m, d, t), m, d)
           /\ d >= 0 => DataOf(m, d, t)[d + 1] = t
           /\ DataOf(m, d, t) = <<>> <=> d < 0
<1> DEFINE s == DataOf(m, d, t)
<1>1. s \in [1 .. d + 1 -> S] /\ d + 1 \in Nat
  BY DEF DataOf, CellsIn
<1>2. s \in Seq(S) /\ Len(s) = d + 1
  <2>1. s \in Seq(S)
    BY <1>1
  <2>2. DOMAIN s = 1 .. d + 1 /\ DOMAIN s = 1 .. Len(s) /\ Len(s) \in Nat
    BY <1>1, <2>1, LenProperties
  <2>3. QED
    BY <1>1, <2>1, <2>2
<1>3. s = <<>> <=> d < 0
  <2>1. s = <<>> => d < 0
    BY <1>2, EmptySeq
  <2>2. d < 0 => s = <<>>
    <3>1. d < 0 => Len(s) = 0
      BY <1>2
    <3>2. s # <<>> => Len(s) \in Nat \ {0}
      BY <1>2, EmptySeq
    <3>3. QED
      BY <3>1, <3>2
  <2>3. QED
    BY <2>1, <2>2
<1>4. SameCells(s, m, d)
  BY DEF DataOf, SameCells
<1>5. d >= 0 => s[d + 1] = t
  BY DEF DataOf
<1>6. QED
  BY <1>2, <1>3, <1>4, <1>5

LEMMA DataPushed ==
    ASSUME NEW S, NEW d \in Int, NEW m, NEW t \in S, NEW n, NEW v \in S,
           d >= -1, CellsIn(m, d, S), SameCells(n, m, d), d >= 0 => n[d + 1] = t
    PROVE  IsAppend(DataOf(n, d + 1, v), DataOf(m, d, t), v)
<1> PICK e \in Int : e = d + 1
  OBVIOUS
<1> DEFINE s == DataOf(m, d, t)
           u == DataOf(n, e, v)
           w == Append(s, v)
<1>1. /\ s \in Seq(S) /\ Len(s) = d + 1
      /\ SameCells(s, m, d)
      /\ d >= 0 => s[d + 1] = t
  BY DataSeq
<1>2. CellsIn(n, e, S) /\ e >= -1
  BY DEF CellsIn, SameCells
<1>3. /\ u \in Seq(S) /\ Len(u) = e + 1
      /\ SameCells(u, n, e)
      /\ u[e + 1] = v
  <2>1. CellsIn(n, e, S) /\ e >= 0 /\ e >= -1
    BY <1>2
  <2> HIDE DEF s, u, w
  <2>2. DataOf(n, e, v) \in Seq(S) /\ Len(DataOf(n, e, v)) = e + 1
    BY <2>1, DataSeq
  <2>3. SameCells(DataOf(n, e, v), n, e)
    BY <2>1, DataSeq
  <2>4. DataOf(n, e, v)[e + 1] = v
    BY <2>1 DEF DataOf
  <2>5. QED
    BY <2>2, <2>3, <2>4 DEF u
<1> HIDE DEF s, u
<1>4. /\ w \in Seq(S) /\ Len(w) = d + 2 /\ w[d + 2] = v
      /\ \A i \in 1 .. d + 1 : w[i] = s[i]
  <2>1. Append(s, v) \in Seq(S) /\ Len(Append(s, v)) = Len(s) + 1
        /\ Append(s, v)[Len(s) + 1] = v
        /\ \A i \in 1 .. Len(s) : Append(s, v)[i] = s[i]
    BY <1>1, AppendProperties
  <2>2. QED
    BY <1>1, <2>1
<1> HIDE DEF w
<1>5. \A i \in 1 .. d + 2 : u[i] = w[i]
  <2> SUFFICES ASSUME NEW i \in 1 .. d + 2
               PROVE  u[i] = w[i]
    OBVIOUS
  <2>1. CASE i = d + 2
    BY <1>3, <1>4, <2>1
  <2>2. CASE i = d + 1
    BY <1>1, <1>3, <1>4, <2>2 DEF SameCells
  <2>3. CASE i < d + 1
    <3>1. i \in 1 .. d
      BY <2>3
    <3>2. QED
      BY <1>1, <1>3, <1>4, <3>1 DEF SameCells
  <2>4. QED
    BY <2>1, <2>2, <2>3
<1>6. u = w
  BY <1>3, <1>4, <1>5, SeqEqual
<1>7. QED
  BY <1>6 DEF u, w, s, IsAppend

LEMMA DataPopped ==
    ASSUME NEW S, NEW d \in Nat, NEW e \in Int, NEW m, NEW x \in S, NEW t \in S,
           e = d - 1, x = m[d], CellsIn(m, d, S)
    PROVE  IsAppend(DataOf(m, d, t), DataOf(m, e, x), t)
<1>1. CellsIn(m, e, S) /\ SameCells(m, m, e) /\ e >= -1
  BY DEF CellsIn, SameCells
<1>2. e >= 0 => m[e + 1] = x
  OBVIOUS
<1>3. IsAppend(DataOf(m, e + 1, t), DataOf(m, e, x), t)
  BY <1>1, <1>2, DataPushed
<1>4. QED
  BY <1>3

(* The data stack of the machine.                                          *)
LEMMA DataGrows ==
    ASSUME TypeOK, status # "c", status' # "c", NEW v \in Datum, DPush(v)
    PROVE  IsAppend(AbstractData', AbstractData, v)
<1> USE BoundsAssumption
<1>1. /\ dmem \in [0 .. MaxD + 1 -> Datum] /\ dtop \in Datum /\ dsp \in -1 .. MaxD + 1
      /\ dsp < MaxD /\ dsp' = dsp + 1 /\ dtop' = v
      /\ dmem' = [dmem EXCEPT ![dsp + 1] = dtop]
  BY DEF TypeOK, DPush
<1>2. AbstractData = DataOf(dmem, dsp, dtop) /\ AbstractData' = DataOf(dmem', dsp', dtop')
  BY DEF AbstractData, DataOf
<1> PICK d \in Int : d = dsp
  BY <1>1
<1> PICK m : m = dmem
  OBVIOUS
<1> PICK n : n = dmem'
  OBVIOUS
<1> PICK t \in Datum : t = dtop
  BY <1>1
<1>3. /\ CellsIn(m, d, Datum) /\ SameCells(n, m, d) /\ d >= -1
      /\ d >= 0 => n[d + 1] = t
  BY <1>1 DEF CellsIn, SameCells
<1>4. IsAppend(DataOf(n, d + 1, v), DataOf(m, d, t), v)
  BY <1>3, DataPushed
<1>5. QED
  BY <1>1, <1>2, <1>4

LEMMA DataIsSeq ==
    ASSUME TypeOK, status # "c"
    PROVE  /\ AbstractData \in Seq(Datum) /\ Len(AbstractData) = dsp + 1
           /\ AbstractData = <<>> <=> dsp < 0
           /\ \A i \in 1 .. dsp : AbstractData[i] = dmem[i]
           /\ dsp >= 0 => AbstractData[dsp + 1] = dtop
<1>1. /\ dmem \in [0 .. MaxD + 1 -> Datum] /\ dtop \in Datum /\ dsp \in -1 .. MaxD + 1
  BY BoundsAssumption DEF TypeOK
<1>2. AbstractData = DataOf(dmem, dsp, dtop)
  BY DEF AbstractData, DataOf
<1>3. CellsIn(dmem, dsp, Datum) /\ dsp \in Int /\ dsp >= -1
  BY <1>1, BoundsAssumption DEF CellsIn
<1>4. /\ DataOf(dmem, dsp, dtop) \in Seq(Datum) /\ Len(DataOf(dmem, dsp, dtop)) = dsp + 1
      /\ SameCells(DataOf(dmem, dsp, dtop), dmem, dsp)
      /\ dsp >= 0 => DataOf(dmem, dsp, dtop)[dsp + 1] = dtop
      /\ DataOf(dmem, dsp, dtop) = <<>> <=> dsp < 0
  BY <1>1, <1>3, DataSeq
<1>5. QED
  BY <1>2, <1>4 DEF SameCells

LEMMA DataShrinks ==
    ASSUME TypeOK, status # "c", status' # "c", dsp >= 0, DPop
    PROVE  /\ AbstractData # <<>> /\ Scopes!Last(AbstractData) = dtop
           /\ AbstractData' = Scopes!Front(AbstractData)
           /\ Len(AbstractData') = dsp
<1> USE BoundsAssumption
<1>1. /\ dmem \in [0 .. MaxD + 1 -> Datum] /\ dtop \in Datum /\ dsp \in 0 .. MaxD + 1
      /\ dsp' = dsp - 1 /\ dtop' = dmem[dsp] /\ dmem' = dmem
  BY DEF TypeOK, DPop
<1>2. AbstractData = DataOf(dmem, dsp, dtop) /\ AbstractData' = DataOf(dmem', dsp', dtop')
  BY DEF AbstractData, DataOf
<1> PICK d \in Nat : d = dsp
  BY <1>1
<1> PICK m : m = dmem
  OBVIOUS
<1> PICK t \in Datum : t = dtop
  BY <1>1
<1> PICK e \in Int : e = d - 1
  OBVIOUS
<1> PICK x \in Datum : x = m[d]
  BY <1>1
<1> PICK D : D = Datum
  OBVIOUS
<1>3. CellsIn(m, d, D) /\ CellsIn(m, e, D) /\ t \in D /\ x \in D /\ e >= -1
  BY <1>1 DEF CellsIn
<1>4. IsAppend(DataOf(m, d, t), DataOf(m, e, x), t)
  <2>1. e = d - 1 /\ x = m[d]
    OBVIOUS
  <2>2. QED
    BY <1>3, <2>1, DataPopped
<1>5. DataOf(m, e, x) \in Seq(Datum) /\ Len(DataOf(m, e, x)) = e + 1
  BY <1>3, DataSeq
<1>6. IsAppend(AbstractData, AbstractData', dtop) /\ AbstractData' \in Seq(Datum)
      /\ Len(AbstractData') = dsp
  BY <1>1, <1>2, <1>4, <1>5
<1>7. QED
  BY <1>6, FrontOfAppend DEF IsAppend

LEMMA DataKept ==
    ASSUME status # "c", status' # "c", UNCHANGED <<dmem, dsp, dtop>>
    PROVE  AbstractData' = AbstractData
  BY DEF AbstractData

-----------------------------------------------------------------------------
(* The return stack as activations: of the tags g, the memory m, the       *)
(* cached top t and the pointer r.                                         *)

CellOf(m, t, r, p) == IF p = r + 1 THEN t ELSE m[p]

ActOf(g, m, t, r, p) ==
    [kind |-> g[p], val |-> CellOf(m, t, r, p),
     depth |-> IF g[p] = "catch" THEN m[p - 2] + 1 ELSE 0,
     locals |-> IF g[p] = "catch" THEN m[p - 3] ELSE 0]

ActsOf(g, m, t, r) == [p \in 0 .. r + 1 |-> ActOf(g, m, t, r, p)]
StackOf(g, m, t, r) == Begun(ActsOf(g, m, t, r), r + 1)

LEMMA StackIs ==
    /\ status # "c" => AbstractStack = StackOf(tag, rmem, rtop, rsp)
    /\ (status # "c" => AbstractStack = StackOf(tag, rmem, rtop, rsp))'
  BY DEF AbstractStack, StackOf, ActsOf, ActOf, ActivationAt, CellOf, Cell

LEMMA ActsAre ==
    ASSUME NEW g, NEW m, NEW t, NEW r \in Int, NEW p \in 0 .. r + 1
    PROVE  /\ ActsOf(g, m, t, r)[p] = ActOf(g, m, t, r, p)
           /\ ActsOf(g, m, t, r)[p].kind = g[p]
  BY DEF ActsOf, ActOf

(* Where a catch cell may be: its frame is below it.                       *)
FramesBelow(g, n) == \A p \in 0 .. n : g[p] = "catch" => p >= 5

(* The cells up to n keep their value and their purpose.                   *)
Kept(g, m, t, r, gg, mm, tt, rr, n) ==
    /\ n <= r + 1 /\ n <= rr + 1
    /\ \A p \in 0 .. n : gg[p] = g[p] /\ CellOf(mm, tt, rr, p) = CellOf(m, t, r, p)

LEMMA SameBelow ==
    ASSUME NEW g, NEW m, NEW t, NEW r \in Int, NEW gg, NEW mm, NEW tt, NEW rr \in Int,
           NEW n \in Int, FramesBelow(g, n), Kept(g, m, t, r, gg, mm, tt, rr, n)
    PROVE  Begun(ActsOf(gg, mm, tt, rr), n) = Begun(ActsOf(g, m, t, r), n)
<1> DEFINE a == ActsOf(g, m, t, r)
           b == ActsOf(gg, mm, tt, rr)
<1>1. ASSUME NEW p \in 0 .. n
      PROVE  b[p] = a[p]
  <2>1. p \in 0 .. r + 1 /\ p \in 0 .. rr + 1
    BY DEF Kept
  <2>2. gg[p] = g[p] /\ CellOf(mm, tt, rr, p) = CellOf(m, t, r, p)
    BY DEF Kept
  <2>3. CASE g[p] = "catch"
    <3>1. p - 2 \in 0 .. n /\ p - 3 \in 0 .. n
      BY <2>3 DEF FramesBelow
    <3>2. /\ CellOf(mm, tt, rr, p - 2) = CellOf(m, t, r, p - 2)
          /\ CellOf(mm, tt, rr, p - 3) = CellOf(m, t, r, p - 3)
      BY <3>1 DEF Kept
    <3>3. mm[p - 2] = m[p - 2] /\ mm[p - 3] = m[p - 3]
      BY <2>1, <3>2 DEF CellOf
    <3>4. ActOf(gg, mm, tt, rr, p) = ActOf(g, m, t, r, p)
      BY <2>2, <3>3 DEF ActOf
    <3>5. QED
      BY <2>1, <3>4, ActsAre
  <2>4. CASE g[p] # "catch"
    <3>1. ActOf(gg, mm, tt, rr, p) = ActOf(g, m, t, r, p)
      BY <2>2, <2>4 DEF ActOf
    <3>2. QED
      BY <2>1, <3>1, ActsAre
  <2>5. QED
    BY <2>3, <2>4
<1> HIDE DEF a, b
<1>2. Begun(b, n) = Begun(a, n)
  BY <1>1, BegunSame
<1>3. QED
  BY <1>2 DEF a, b

(* The cells from m + 1 to n are saved.                                    *)
SavedBetween(g, i, j) == \A p \in i .. j : g[p] = "saved"

LEMMA Skipped ==
    ASSUME NEW g, NEW m, NEW t, NEW r \in Int, NEW i \in Int, NEW j \in Int,
           i <= j, i >= 0 - 1, j <= r + 1, SavedBetween(g, i + 1, j)
    PROVE  Begun(ActsOf(g, m, t, r), j) = Begun(ActsOf(g, m, t, r), i)
<1> DEFINE a == ActsOf(g, m, t, r)
<1>1. \A p \in i + 1 .. j : a[p].kind = "saved"
  BY ActsAre DEF SavedBetween
<1> HIDE DEF a
<1>2. Begun(a, j) = Begun(a, i)
  BY <1>1, BegunSkip
<1>3. QED
  BY <1>2 DEF a

(* The activation on top.                                                  *)
LEMMA TopAct ==
    ASSUME NEW g, NEW m, NEW t, NEW r \in Int, NEW n \in Int, 0 <= n, n <= r + 1,
           g[n] \notin {"bottom", "saved"}
    PROVE  Begun(ActsOf(g, m, t, r), n)
               = Append(Begun(ActsOf(g, m, t, r), n - 1), ActOf(g, m, t, r, n))
<1> DEFINE a == ActsOf(g, m, t, r)
<1>1. a[n] = ActOf(g, m, t, r, n) /\ a[n].kind = g[n] /\ ~ (n < 0)
  BY ActsAre
<1> HIDE DEF a
<1>2. Begun(a, n) = Append(Begun(a, n - 1), a[n])
  BY <1>1, BegunRule
<1>3. QED
  BY <1>1, <1>2 DEF a

LEMMA StackGrows ==
    ASSUME NEW g, NEW m, NEW t, NEW r \in Int, NEW gg, NEW mm, NEW tt, NEW rr \in Int,
           r >= 0 - 1, rr > r,
           FramesBelow(g, r + 1), Kept(g, m, t, r, gg, mm, tt, rr, r + 1),
           SavedBetween(gg, r + 2, rr), gg[rr + 1] \notin {"bottom", "saved"}
    PROVE  IsAppend(StackOf(gg, mm, tt, rr), StackOf(g, m, t, r),
                    ActOf(gg, mm, tt, rr, rr + 1))
<1> PICK i \in Int : i = r + 1
  OBVIOUS
<1> PICK n \in Int : n = rr + 1
  OBVIOUS
<1> DEFINE b == ActsOf(gg, mm, tt, rr)
<1>1. Begun(b, i) = Begun(ActsOf(g, m, t, r), i)
  BY SameBelow
<1>2. Begun(b, rr) = Begun(b, i)
  <2>1. SavedBetween(gg, i + 1, rr) /\ i <= rr /\ i >= 0 - 1 /\ rr <= rr + 1
    BY DEF SavedBetween
  <2>2. QED
    BY <2>1, Skipped
<1>3. Begun(b, n) = Append(Begun(b, n - 1), ActOf(gg, mm, tt, rr, n))
  <2>1. 0 <= n /\ n <= rr + 1 /\ gg[n] \notin {"bottom", "saved"}
    OBVIOUS
  <2>2. QED
    BY <2>1, TopAct
<1>4. n - 1 = rr
  OBVIOUS
<1> HIDE DEF b
<1>5. QED
  BY <1>1, <1>2, <1>3, <1>4 DEF StackOf, b, IsAppend

LEMMA StackShrinks ==
    ASSUME NEW g, NEW m, NEW t, NEW r \in Int, NEW gg, NEW mm, NEW tt, NEW rr \in Int,
           rr >= 0 - 1, rr < r,
           FramesBelow(g, rr + 1), Kept(g, m, t, r, gg, mm, tt, rr, rr + 1),
           SavedBetween(g, rr + 2, r), g[r + 1] \notin {"bottom", "saved"}
    PROVE  IsAppend(StackOf(g, m, t, r), StackOf(gg, mm, tt, rr),
                    ActOf(g, m, t, r, r + 1))
<1> PICK i \in Int : i = rr + 1
  OBVIOUS
<1> PICK n \in Int : n = r + 1
  OBVIOUS
<1> DEFINE a == ActsOf(g, m, t, r)
<1>1. Begun(ActsOf(gg, mm, tt, rr), i) = Begun(a, i)
  BY SameBelow
<1>2. Begun(a, r) = Begun(a, i)
  <2>1. SavedBetween(g, i + 1, r) /\ i <= r /\ i >= 0 - 1 /\ r <= r + 1
    BY DEF SavedBetween
  <2>2. QED
    BY <2>1, Skipped
<1>3. Begun(a, n) = Append(Begun(a, n - 1), ActOf(g, m, t, r, n))
  <2>1. 0 <= n /\ n <= r + 1 /\ g[n] \notin {"bottom", "saved"}
    OBVIOUS
  <2>2. QED
    BY <2>1, TopAct
<1>4. n - 1 = r
  OBVIOUS
<1> HIDE DEF a
<1>5. QED
  BY <1>1, <1>2, <1>3, <1>4 DEF StackOf, a, IsAppend

(* The cells above rr + 1 are saved: unwinding them ends nothing.          *)
LEMMA StackStays ==
    ASSUME NEW g, NEW m, NEW t, NEW r \in Int, NEW gg, NEW mm, NEW tt, NEW rr \in Int,
           rr >= 0 - 1, rr <= r,
           FramesBelow(g, rr + 1), Kept(g, m, t, r, gg, mm, tt, rr, rr + 1),
           SavedBetween(g, rr + 2, r + 1)
    PROVE  StackOf(gg, mm, tt, rr) = StackOf(g, m, t, r)
<1> PICK i \in Int : i = rr + 1
  OBVIOUS
<1> PICK n \in Int : n = r + 1
  OBVIOUS
<1> DEFINE a == ActsOf(g, m, t, r)
<1>1. Begun(ActsOf(gg, mm, tt, rr), i) = Begun(a, i)
  BY SameBelow
<1>2. Begun(a, n) = Begun(a, i)
  <2>1. SavedBetween(g, i + 1, n) /\ i <= n /\ i >= 0 - 1 /\ n <= r + 1
    BY DEF SavedBetween
  <2>2. QED
    BY <2>1, Skipped
<1> HIDE DEF a
<1>3. QED
  BY <1>1, <1>2 DEF StackOf, a

LEMMA StackIsSeq ==
    ASSUME NEW g, NEW m, NEW t, NEW r \in Int
    PROVE  \E S : StackOf(g, m, t, r) \in Seq(S)
<1> DEFINE a == ActsOf(g, m, t, r)
           S == {a[p] : p \in 0 .. r + 1}
<1>1. \A p \in 0 .. r + 1 : a[p] \in S
  OBVIOUS
<1> HIDE DEF a, S
<1> PICK n \in Int : n = r + 1
  OBVIOUS
<1>2. Begun(a, n) \in Seq(S)
  BY <1>1, BegunSeq
<1>3. StackOf(g, m, t, r) \in Seq(S)
  BY <1>2 DEF StackOf, a
<1>4. QED
  BY <1>3, Zenon

AsBefore(mm, m, n) == \A p \in 0 .. n : mm[p] = m[p]

LEMMA FramesBelowLess ==
    ASSUME NEW g, NEW n \in Int, NEW k \in Int, k <= n, FramesBelow(g, n)
    PROVE  FramesBelow(g, k)
  BY DEF FramesBelow

(* One activation is pushed over rr - r - 1 cells that are saved.          *)
LEMMA PushedOn ==
    ASSUME NEW g, NEW m, NEW t, NEW r \in Int, NEW gg, NEW mm, NEW tt, NEW rr \in Int,
           r >= 0 - 1, rr > r, FramesBelow(g, r + 1),
           AsBefore(mm, m, r), mm[r + 1] = t, AsBefore(gg, g, r + 1),
           SavedBetween(gg, r + 2, rr), gg[rr + 1] \notin {"bottom", "saved"}
    PROVE  IsAppend(StackOf(gg, mm, tt, rr), StackOf(g, m, t, r),
                    ActOf(gg, mm, tt, rr, rr + 1))
<1>1. \A p \in 0 .. r + 1 : gg[p] = g[p]
  BY DEF AsBefore
<1>2. ASSUME NEW p \in 0 .. r + 1
      PROVE  CellOf(mm, tt, rr, p) = CellOf(m, t, r, p)
  <2>1. p # rr + 1
    OBVIOUS
  <2>2. CASE p = r + 1
    BY <2>1, <2>2 DEF CellOf
  <2>3. CASE p # r + 1
    <3>1. p \in 0 .. r
      BY <2>3
    <3>2. mm[p] = m[p]
      BY <3>1 DEF AsBefore
    <3>3. QED
      BY <2>1, <2>3, <3>2 DEF CellOf
  <2>4. QED
    BY <2>2, <2>3
<1>3. Kept(g, m, t, r, gg, mm, tt, rr, r + 1)
  BY <1>1, <1>2 DEF Kept
<1>4. QED
  BY <1>3, StackGrows

(* The activation on top is popped with the cells that were saved for it.  *)
LEMMA PoppedTo ==
    ASSUME NEW g, NEW m, NEW t, NEW r \in Int, NEW rr \in Int,
           rr >= 0 - 1, rr < r, FramesBelow(g, r + 1),
           SavedBetween(g, rr + 2, r), g[r + 1] \notin {"bottom", "saved"}
    PROVE  IsAppend(StackOf(g, m, t, r), StackOf(g, m, m[rr + 1], rr),
                    ActOf(g, m, t, r, r + 1))
<1> PICK tt : tt = m[rr + 1]
  OBVIOUS
<1>1. \A p \in 0 .. rr + 1 : CellOf(m, tt, rr, p) = CellOf(m, t, r, p)
  BY DEF CellOf
<1>2. Kept(g, m, t, r, g, m, tt, rr, rr + 1)
  BY <1>1 DEF Kept
<1>3. FramesBelow(g, rr + 1)
  BY FramesBelowLess
<1>4. IsAppend(StackOf(g, m, t, r), StackOf(g, m, tt, rr), ActOf(g, m, t, r, r + 1))
  BY <1>2, <1>3, StackShrinks
<1>5. QED
  BY <1>4

(* Saved cells alone are popped.                                           *)
LEMMA PoppedSaved ==
    ASSUME NEW g, NEW m, NEW t, NEW r \in Int, NEW rr \in Int,
           rr >= 0 - 1, rr < r, FramesBelow(g, r + 1), SavedBetween(g, rr + 2, r + 1)
    PROVE  StackOf(g, m, m[rr + 1], rr) = StackOf(g, m, t, r)
<1> PICK tt : tt = m[rr + 1]
  OBVIOUS
<1>1. \A p \in 0 .. rr + 1 : CellOf(m, tt, rr, p) = CellOf(m, t, r, p)
  BY DEF CellOf
<1>2. Kept(g, m, t, r, g, m, tt, rr, rr + 1)
  BY <1>1 DEF Kept
<1>3. FramesBelow(g, rr + 1)
  BY FramesBelowLess
<1>4. StackOf(g, m, tt, rr) = StackOf(g, m, t, r)
  BY <1>2, <1>3, StackStays
<1>5. QED
  BY <1>4

(* What is below the frame of the innermost catch cell c.                  *)
LEMMA Unwinding ==
    ASSUME NEW g, NEW m, NEW t, NEW r \in Int, NEW c \in Int,
           c >= 5, c <= r + 1, FramesBelow(g, r + 1), g[c] = "catch",
           SavedBetween(g, c - 3, c - 1),
           \A p \in c + 1 .. r + 1 : g[p] # "catch"
    PROVE  \E i \in Int : InnermostCatch(StackOf(g, m, t, r), i, ActOf(g, m, t, r, c),
                                         StackOf(g, m, m[c - 4], c - 5))
<1> DEFINE a == ActsOf(g, m, t, r)
<1> PICK n \in Int : n = r + 1
  OBVIOUS
<1> PICK rr \in Int : rr = c - 5
  OBVIOUS
<1> PICK k \in Int : k = c - 1
  OBVIOUS
<1> PICK tt : tt = m[c - 4]
  OBVIOUS
<1>1. a[c] = ActOf(g, m, t, r, c) /\ a[c].kind = "catch"
  BY ActsAre
<1>2. \A p \in c + 1 .. n : a[p].kind # "catch"
  BY ActsAre
<1>3. Begun(a, k) = Begun(a, rr + 1)
  <2> PICK i \in Int : i = rr + 1
    OBVIOUS
  <2>1. SavedBetween(g, i + 1, k) /\ i <= k /\ i >= 0 - 1 /\ k <= r + 1
    BY DEF SavedBetween
  <2>2. Begun(a, k) = Begun(a, i)
    BY <2>1, Skipped
  <2>3. QED
    BY <2>2
<1>4. Begun(a, rr + 1) = StackOf(g, m, tt, rr)
  <2> PICK i \in Int : i = rr + 1
    OBVIOUS
  <2>1. \A p \in 0 .. i : CellOf(m, tt, rr, p) = CellOf(m, t, r, p)
    BY DEF CellOf
  <2>2. Kept(g, m, t, r, g, m, tt, rr, i)
    BY <2>1 DEF Kept
  <2>3. FramesBelow(g, i)
    BY FramesBelowLess
  <2>4. Begun(ActsOf(g, m, tt, rr), i) = Begun(a, i)
    BY <2>2, <2>3, SameBelow
  <2>5. QED
    BY <2>4 DEF StackOf
<1> HIDE DEF a
<1> PICK x : x = Begun(a, k)
  OBVIOUS
<1>5. InnermostCatch(Begun(a, n), Len(x) + 1, a[c], x)
  <2>1. c \in Nat /\ c <= n
    OBVIOUS
  <2>2. InnermostCatch(Begun(a, n), Len(Begun(a, c - 1)) + 1, a[c], Begun(a, c - 1))
    BY <1>1, <1>2, <2>1, BegunCatch
  <2>3. QED
    BY <2>2
<1>6. Len(x) + 1 \in Int
  BY <1>5 DEF InnermostCatch
<1>7. Begun(a, n) = StackOf(g, m, t, r)
  BY DEF a, StackOf
<1>8. x = StackOf(g, m, m[c - 4], c - 5)
  BY <1>3, <1>4
<1>9. InnermostCatch(StackOf(g, m, t, r), Len(x) + 1, ActOf(g, m, t, r, c),
                     StackOf(g, m, m[c - 4], c - 5))
  BY <1>1, <1>5, <1>7, <1>8
<1>10. QED
  BY <1>6, <1>9

(* No catch cell, no CATCH.                                                *)
LEMMA NoCatch ==
    ASSUME NEW g, NEW m, NEW t, NEW r \in Int, \A p \in 0 .. r + 1 : g[p] # "catch"
    PROVE  \A i \in DOMAIN StackOf(g, m, t, r) : StackOf(g, m, t, r)[i].kind # "catch"
<1> DEFINE a == ActsOf(g, m, t, r)
<1> PICK n \in Int : n = r + 1
  OBVIOUS
<1>1. \A p \in 0 .. n : a[p].kind # "catch"
  BY ActsAre
<1> HIDE DEF a
<1>2. \A i \in DOMAIN Begun(a, n) : Begun(a, n)[i].kind # "catch"
  BY <1>1, BegunNoCatch
<1>3. QED
  BY <1>2 DEF StackOf, a

-----------------------------------------------------------------------------
(* Every step of the machine is a step of the scopes, or changes nothing   *)
(* they know of.                                                           *)

LEMMA OutcomeIs ==
    /\ (status = "vm" /\ reg0 = 0 /\ ip \in CatchEnds) => AbstractOutcome = ex
    /\ ~ (status = "vm" /\ reg0 = 0 /\ ip \in CatchEnds) => AbstractOutcome = 0
    /\ ((status = "vm" /\ reg0 = 0 /\ ip \in CatchEnds) => AbstractOutcome = ex)'
    /\ (~ (status = "vm" /\ reg0 = 0 /\ ip \in CatchEnds) => AbstractOutcome = 0)'
  BY DEF AbstractOutcome, AtCatchEnd, Running

LEMMA BodyOutcome ==
    /\ ip \in Bodies => AbstractOutcome = 0
    /\ (ip \in Bodies => AbstractOutcome = 0)'
  BY OutcomeIs, AddressKinds

LEMMA FramesAreBelow ==
    ASSUME IInv, status = "vm"
    PROVE  FramesBelow(tag, rsp + 1)
  BY DEF IInv, StackShape, WellFormed, CatchFrame, FramesBelow

LEMMA StackKept ==
    ASSUME status # "c", status' # "c", UNCHANGED <<rmem, rsp, rtop, tag>>
    PROVE  AbstractStack' = AbstractStack
<1>1. /\ AbstractStack = StackOf(tag, rmem, rtop, rsp)
      /\ AbstractStack' = StackOf(tag', rmem', rtop', rsp')
  BY StackIs
<1>2. QED
  BY <1>1

(* Within a run, the handler that it was entered with stays.               *)
LEMMA AbandonedKept ==
    ASSUME status # "c", status' # "c", entry' = entry
    PROVE  Abandoned' = Abandoned
  BY DEF Abandoned

(* What a step of a body does to the data stack: it pushes or drops.       *)
LEMMA SPushStep == ASSUME IInv, NEW v \in Literals \cup XTs, Push(v) PROVE Scopes!SPush
<1>1. /\ TypeOK /\ status = "vm" /\ reg0 = 0 /\ ip \in Bodies
      /\ UNCHANGED <<status, ip, reg0, rmem, rsp, rtop, locl, handler, ex, tag, entry>>
      /\ DPush(v) /\ v \in Datum
  BY BodyFacts, DatumFacts DEF Push
<1>2. IsAppend(AbstractData', AbstractData, v) /\ AbstractData \in Seq(Datum)
  BY <1>1, DataGrows, DataIsSeq
<1>3. Len(AbstractData') = Len(AbstractData) + 1 /\ Scopes!Front(AbstractData') = AbstractData
  BY <1>2, FrontOfAppend DEF IsAppend
<1>4. AbstractStack' = AbstractStack
  BY <1>1, StackKept
<1>5. AbstractOutcome' = 0
  BY <1>1, BodyOutcome
<1>6. QED
  BY <1>1, <1>3, <1>4, <1>5, AbandonedKept DEF Scopes!SPush, Scopes!Ready, Scopes!Calm

LEMMA SDropStep == ASSUME IInv, Drop PROVE Scopes!SDrop
<1>1. /\ TypeOK /\ status = "vm" /\ reg0 = 0 /\ ip \in Bodies
      /\ UNCHANGED <<status, ip, reg0, rmem, rsp, rtop, locl, handler, ex, tag, entry>>
      /\ DPop /\ dsp >= 0
  BY BodyFacts DEF Drop
<1>2. AbstractData # <<>> /\ AbstractData' = Scopes!Front(AbstractData)
  BY <1>1, DataShrinks
<1>3. AbstractStack' = AbstractStack
  BY <1>1, StackKept
<1>4. AbstractOutcome' = 0
  BY <1>1, BodyOutcome
<1>5. QED
  BY <1>1, <1>2, <1>3, <1>4, AbandonedKept DEF Scopes!SDrop, Scopes!Ready, Scopes!Calm

LEMMA SThrowTokenStep == ASSUME IInv, ThrowToken PROVE Scopes!SThrowToken
<1>1. /\ TypeOK /\ status = "vm" /\ reg0 = 0 /\ ip \in Bodies
      /\ UNCHANGED <<status, ip, rmem, rsp, rtop, locl, handler, ex, tag, entry>>
      /\ DPop /\ dsp >= 0 /\ reg0' = dtop
  BY BodyFacts DEF ThrowToken
<1>2. /\ AbstractData # <<>> /\ AbstractData' = Scopes!Front(AbstractData)
      /\ Scopes!Last(AbstractData) = dtop
  BY <1>1, DataShrinks
<1>3. AbstractStack' = AbstractStack
  BY <1>1, StackKept
<1>4. AbstractOutcome = 0 /\ AbstractOutcome' = 0
  BY <1>1, BodyOutcome
<1>5. QED
  BY <1>1, <1>2, <1>3, <1>4, AbandonedKept
      DEF Scopes!SThrowToken, Scopes!Ready

LEMMA StackPushed ==
    ASSUME IInv, InBody, status' # "c", NEW v, NEW k \in {"ret", "data"}, RPush(v, k)
    PROVE  AbstractStack' = Append(AbstractStack, Scopes!Plain(k, v))
<1>1. /\ TypeOK /\ rsp \in 0 .. MaxR /\ status = "vm"
  BY BodyFacts
<1>2. /\ rmem \in [0 .. MaxR -> Int] /\ tag \in [0 .. MaxR + 1 -> Tags]
      /\ rsp < MaxR /\ rsp' = rsp + 1 /\ rtop' = v
      /\ rmem' = [rmem EXCEPT ![rsp + 1] = rtop] /\ tag' = [tag EXCEPT ![rsp + 2] = k]
  BY <1>1 DEF TypeOK, RPush
<1> PICK r \in Int : r = rsp
  BY <1>1
<1> PICK rr \in Int : rr = r + 1
  OBVIOUS
<1> PICK m : m = rmem
  OBVIOUS
<1> PICK t : t = rtop
  OBVIOUS
<1> PICK g : g = tag
  OBVIOUS
<1> PICK mm : mm = rmem'
  OBVIOUS
<1> PICK gg : gg = tag'
  OBVIOUS
<1>3. /\ AsBefore(mm, m, r) /\ mm[r + 1] = t /\ AsBefore(gg, g, r + 1) /\ gg[rr + 1] = k
      /\ SavedBetween(gg, r + 2, rr) /\ r >= 0
  BY <1>1, <1>2, BoundsAssumption DEF AsBefore, SavedBetween
<1>4. FramesBelow(g, r + 1)
  BY <1>1, FramesAreBelow
<1>5. gg[rr + 1] \notin {"bottom", "saved", "catch"}
  BY <1>3
<1>6. IsAppend(StackOf(gg, mm, v, rr), StackOf(g, m, t, r), ActOf(gg, mm, v, rr, rr + 1))
  BY <1>3, <1>4, <1>5, PushedOn
<1>7. ActOf(gg, mm, v, rr, rr + 1) = Scopes!Plain(k, v)
  BY <1>3, <1>5 DEF ActOf, CellOf, Scopes!Plain, Scopes!Activation
<1>8. AbstractStack = StackOf(g, m, t, r) /\ AbstractStack' = StackOf(gg, mm, v, rr)
  BY <1>1, <1>2, StackIs
<1>9. QED
  BY <1>6, <1>7, <1>8 DEF IsAppend

LEMMA StackPopped ==
    ASSUME IInv, InBody, status' # "c", RPop, RTag \in {"ret", "data", "catch"}
    PROVE  /\ AbstractStack' = Scopes!Front(AbstractStack)
           /\ Scopes!Top.kind = RTag /\ Scopes!Top.val = rtop
<1>1. /\ TypeOK /\ rsp \in 0 .. MaxR /\ status = "vm"
  BY BodyFacts
<1>2. rsp' = rsp - 1 /\ rtop' = rmem[rsp] /\ rmem' = rmem /\ tag' = tag
  BY DEF RPop
<1> PICK r \in Int : r = rsp
  BY <1>1
<1> PICK rr \in Int : rr = r - 1
  OBVIOUS
<1> PICK m : m = rmem
  OBVIOUS
<1> PICK t : t = rtop
  OBVIOUS
<1> PICK g : g = tag
  OBVIOUS
<1>3. /\ SavedBetween(g, rr + 2, r) /\ rr < r /\ rr >= 0 - 1
      /\ g[r + 1] \notin {"bottom", "saved"} /\ g[r + 1] = RTag
  BY <1>1 DEF SavedBetween, RTag
<1>4. FramesBelow(g, r + 1)
  BY <1>1, FramesAreBelow
<1>5. IsAppend(StackOf(g, m, t, r), StackOf(g, m, m[rr + 1], rr), ActOf(g, m, t, r, r + 1))
  BY <1>3, <1>4, PoppedTo
<1>6. AbstractStack = StackOf(g, m, t, r) /\ AbstractStack' = StackOf(g, m, m[rr + 1], rr)
  BY <1>1, <1>2, StackIs
<1> PICK x : x = ActOf(g, m, t, r, r + 1)
  OBVIOUS
<1>7. x.kind = RTag /\ x.val = rtop
  BY <1>3 DEF ActOf, CellOf
<1> PICK S : StackOf(g, m, m[rr + 1], rr) \in Seq(S)
  BY StackIsSeq
<1>8. AbstractStack = Append(AbstractStack', x) /\ AbstractStack' \in Seq(S)
  BY <1>5, <1>6 DEF IsAppend
<1>9. AbstractStack' = Scopes!Front(AbstractStack) /\ Scopes!Last(AbstractStack) = x
  BY <1>8, FrontOfAppend
<1>10. QED
  BY <1>7, <1>9 DEF Scopes!Top

LEMMA SToRStep == ASSUME IInv, ToR PROVE Scopes!SToR
<1>1. /\ TypeOK /\ status = "vm" /\ reg0 = 0 /\ ip \in Bodies /\ InBody
      /\ UNCHANGED <<status, ip, reg0, locl, handler, ex, entry>>
      /\ DPop /\ RPush(dtop, "data") /\ dsp >= 0
  BY BodyFacts DEF ToR
<1>2. /\ AbstractData # <<>> /\ AbstractData' = Scopes!Front(AbstractData)
      /\ Scopes!Last(AbstractData) = dtop
  BY <1>1, DataShrinks
<1>3. AbstractStack' = Append(AbstractStack, Scopes!Plain("data", dtop))
  BY <1>1, StackPushed
<1>4. AbstractOutcome' = 0
  BY <1>1, BodyOutcome
<1>5. QED
  BY <1>1, <1>2, <1>3, <1>4, AbandonedKept DEF Scopes!SToR, Scopes!Ready, Scopes!Calm

LEMMA SRFromStep == ASSUME IInv, RFrom PROVE Scopes!SRFrom
<1>1. /\ TypeOK /\ status = "vm" /\ reg0 = 0 /\ ip \in Bodies /\ InBody
      /\ UNCHANGED <<status, ip, reg0, locl, handler, ex, entry>>
      /\ DPush(rtop) /\ RPop /\ RTag = "data" /\ WellFormed(rsp + 1)
  BY BodyFacts DEF RFrom
<1>2. rtop \in Datum
  BY <1>1 DEF WellFormed, RTag, Cell
<1>3. IsAppend(AbstractData', AbstractData, rtop)
  BY <1>1, <1>2, DataGrows
<1>4. /\ AbstractStack' = Scopes!Front(AbstractStack)
      /\ Scopes!Top.kind = RTag /\ Scopes!Top.val = rtop
  BY <1>1, StackPopped
<1>5. AbstractOutcome' = 0
  BY <1>1, BodyOutcome
<1>6. QED
  BY <1>1, <1>3, <1>4, <1>5, AbandonedKept DEF Scopes!SRFrom, Scopes!Ready, Scopes!Calm, IsAppend

LEMMA SCallStep == ASSUME IInv, NEW x \in XTs, Call(x) PROVE Scopes!SCall
<1>1. /\ TypeOK /\ status = "vm" /\ reg0 = 0 /\ ip \in Bodies /\ InBody
      /\ UNCHANGED <<status, reg0, dmem, dsp, dtop, locl, handler, ex, entry>>
      /\ RPush(ip, "ret") /\ ip' = x
  BY BodyFacts DEF Call
<1>2. AbstractData' = AbstractData
  BY <1>1, DataKept
<1>3. AbstractStack' = Append(AbstractStack, Scopes!Plain("ret", ip))
  BY <1>1, StackPushed
<1>4. AbstractOutcome' = 0
  BY <1>1, BodyOutcome DEF Bodies
<1>5. QED
  BY <1>1, <1>2, <1>3, <1>4, AbandonedKept DEF Scopes!SCall, Scopes!Ready, Scopes!Calm

LEMMA XTChecked ==
    ASSUME TypeOK
    PROVE  /\ dsp >= 0 /\ ValidateXT = 0 => dtop \in XTs
           /\ dsp >= 0 /\ ValidateXT # 0 => dtop \notin XTs /\ ValidateXT = InvalidAddress
           /\ dsp < 0 => ValidateXT = StackUnderflow
           /\ StackUnderflow # 0 /\ InvalidAddress # 0
<1>1. dtop \in Datum /\ dsp \in Int
  BY BoundsAssumption DEF TypeOK
<1>2. PlausibleXT(dtop) => dtop \in XTs
  BY <1>1, DatumFacts
<1>3. dtop \in XTs => PlausibleXT(dtop)
  BY XTsAssumption
<1>4. StackUnderflow # 0 /\ InvalidAddress # 0
  BY DEF StackUnderflow, InvalidAddress
<1>5. QED
  BY <1>1, <1>2, <1>3, <1>4 DEF ValidateXT

LEMMA SExecuteStep == ASSUME IInv, Execute PROVE Scopes!SExecute \/ Scopes!SExecuteInvalid
<1>1. /\ TypeOK /\ status = "vm" /\ reg0 = 0 /\ ip \in Bodies /\ InBody /\ dsp \in Int
      /\ UNCHANGED <<status, locl, handler, ex, entry>>
  BY BodyFacts, BoundsAssumption DEF Execute
<1>2. CASE ValidateXT # 0
  <2>1. reg0' = ValidateXT /\ UNCHANGED <<ip, dmem, dsp, dtop, rmem, rsp, rtop, tag>>
    BY <1>2 DEF Execute, stacks
  <2>2. AbstractData' = AbstractData /\ AbstractStack' = AbstractStack
    BY <1>1, <2>1, DataKept, StackKept
  <2>3. AbstractOutcome' = 0 /\ AbstractOutcome = 0
    BY <1>1, <2>1, BodyOutcome
  <2>4. /\ AbstractData = <<>> <=> dsp < 0
        /\ Len(AbstractData) = dsp + 1
        /\ dsp >= 0 => AbstractData[dsp + 1] = dtop
    BY <1>1, DataIsSeq
  <2>5. CASE dsp < 0
    <3>1. reg0' = StackUnderflow /\ AbstractData = <<>>
      BY <1>1, <2>1, <2>4, <2>5, XTChecked
    <3>2. QED
      BY <1>1, <2>1, <2>2, <2>3, <3>1, AbandonedKept
      DEF Scopes!SExecuteInvalid, Scopes!Ready
  <2>6. CASE ~ (dsp < 0)
    <3>1. dsp >= 0
      BY <1>1, <2>6
    <3>2. reg0' = InvalidAddress /\ dtop \notin XTs
      BY <1>1, <1>2, <2>1, <3>1, XTChecked
    <3>3. Scopes!Last(AbstractData) = dtop /\ AbstractData # <<>>
      BY <2>4, <2>6, <3>1 DEF Scopes!Last
    <3>4. QED
      BY <1>1, <2>1, <2>2, <2>3, <3>2, <3>3, AbandonedKept
      DEF Scopes!SExecuteInvalid, Scopes!Ready
  <2>7. QED
    BY <2>5, <2>6
<1>3. CASE ValidateXT = 0
  <2>1. dsp >= 0
    BY <1>1, <1>3, XTChecked
  <2>2. RPush(ip, "ret") /\ DPop /\ ip' = dtop /\ UNCHANGED reg0 /\ dtop \in XTs
    BY <1>1, <1>3, <2>1, XTChecked DEF Execute
  <2>3. /\ AbstractData # <<>> /\ AbstractData' = Scopes!Front(AbstractData)
        /\ Scopes!Last(AbstractData) = dtop
    BY <1>1, <2>1, <2>2, DataShrinks
  <2>4. AbstractStack' = Append(AbstractStack, Scopes!Plain("ret", ip))
    BY <1>1, <2>2, StackPushed
  <2>5. AbstractOutcome' = 0
    BY <2>2, BodyOutcome DEF Bodies
  <2>6. QED
    BY <1>1, <2>2, <2>3, <2>4, <2>5, AbandonedKept DEF Scopes!SExecute, Scopes!Ready, Scopes!Calm
<1>4. QED
  BY <1>2, <1>3

LEMMA SExitStep == ASSUME IInv, Exit PROVE Scopes!SExit
<1>1. /\ TypeOK /\ status = "vm" /\ reg0 = 0 /\ ip \in Bodies /\ InBody /\ rsp \in 0 .. MaxR
      /\ UNCHANGED <<status, reg0, dmem, dsp, dtop, locl, handler, ex, entry>>
      /\ ip \notin CatchEnds /\ RPop /\ RTag \in {"ret", "catch"} /\ ip' = rtop /\ WellFormed(rsp + 1)
      /\ Control /\ Innermost("catch", handler, rsp + 1)
  BY BodyFacts DEF Exit
<1>2. AbstractData' = AbstractData
  BY <1>1, DataKept
<1>3. /\ AbstractStack' = Scopes!Front(AbstractStack)
      /\ Scopes!Top.kind = RTag /\ Scopes!Top.val = rtop
  BY <1>1, StackPopped
<1>4. AbstractOutcome' = 0
  <2>1. CASE RTag = "catch"
    <3>1. handler # 0
      BY <1>1, <2>1 DEF Innermost, RTag
    <3>2. ex = 0
      BY <1>1, <3>1 DEF Control
    <3>3. QED
      BY <1>1, <3>2, OutcomeIs
  <2>2. CASE RTag = "ret"
    <3>1. ip' \in Bodies \cup {HostBye}
      BY <1>1, <2>2 DEF WellFormed, RTag, Cell
    <3>2. ip' \notin CatchEnds
      BY <3>1, AddressKinds
    <3>3. QED
      BY <3>2, OutcomeIs
  <2>3. QED
    BY <1>1, <2>1, <2>2
<1>5. QED
  BY <1>1, <1>2, <1>3, <1>4, AbandonedKept DEF Scopes!SExit, Scopes!Ready, Scopes!Calm

(* (lenter-1) saves two cells under the activation it pushes.              *)
LEMMA SLocalsEnterStep == ASSUME IInv, LocalsEnter PROVE Scopes!SLocalsEnter
<1>1. /\ TypeOK /\ status = "vm" /\ reg0 = 0 /\ ip \in Bodies /\ InBody /\ rsp \in 0 .. MaxR
      /\ UNCHANGED <<status, ip, reg0, dmem, dsp, dtop, handler, ex, entry>>
  BY BodyFacts DEF LocalsEnter
<1>2. /\ rmem \in [0 .. MaxR -> Int] /\ tag \in [0 .. MaxR + 1 -> Tags]
      /\ rsp + 2 <= MaxR /\ rsp' = rsp + 2 /\ rtop' = locl /\ locl' = rsp + 2
      /\ rmem' = [rmem EXCEPT ![rsp + 1] = rtop, ![rsp + 2] = 0]
      /\ tag' = [tag EXCEPT ![rsp + 2] = "saved", ![rsp + 3] = "locl"]
  BY <1>1 DEF TypeOK, LocalsEnter
<1> PICK r \in Int : r = rsp
  BY <1>1
<1> PICK rr \in Int : rr = r + 2
  OBVIOUS
<1> PICK m : m = rmem
  OBVIOUS
<1> PICK t : t = rtop
  OBVIOUS
<1> PICK g : g = tag
  OBVIOUS
<1> PICK mm : mm = rmem'
  OBVIOUS
<1> PICK gg : gg = tag'
  OBVIOUS
<1> PICK v : v = locl
  OBVIOUS
<1>3. /\ AsBefore(mm, m, r) /\ mm[r + 1] = t /\ AsBefore(gg, g, r + 1) /\ gg[rr + 1] = "locl"
      /\ SavedBetween(gg, r + 2, rr) /\ r >= 0
  BY <1>1, <1>2, BoundsAssumption DEF AsBefore, SavedBetween
<1>4. FramesBelow(g, r + 1)
  BY <1>1, FramesAreBelow
<1>5. IsAppend(StackOf(gg, mm, v, rr), StackOf(g, m, t, r), ActOf(gg, mm, v, rr, rr + 1))
  BY <1>3, <1>4, PushedOn
<1>6. ActOf(gg, mm, v, rr, rr + 1) = Scopes!Plain("locl", v)
  BY <1>3 DEF ActOf, CellOf, Scopes!Plain, Scopes!Activation
<1>7. AbstractStack = StackOf(g, m, t, r) /\ AbstractStack' = StackOf(gg, mm, v, rr)
  BY <1>1, <1>2, StackIs
<1>8. AbstractStack' = Append(AbstractStack, Scopes!Plain("locl", locl))
  BY <1>5, <1>6, <1>7 DEF IsAppend
<1>9. AbstractData' = AbstractData
  BY <1>1, DataKept
<1>10. AbstractOutcome' = 0
  BY <1>1, BodyOutcome
<1>11. locl' > 0
  BY <1>1, <1>2
<1>12. QED
  BY <1>1, <1>8, <1>9, <1>10, <1>11, AbandonedKept DEF Scopes!SLocalsEnter, Scopes!Ready, Scopes!Calm

LEMMA SLocalsExitStep == ASSUME IInv, LocalsExit PROVE Scopes!SLocalsExit
<1>1. /\ TypeOK /\ status = "vm" /\ reg0 = 0 /\ ip \in Bodies /\ InBody /\ rsp \in 0 .. MaxR
      /\ UNCHANGED <<status, ip, reg0, dmem, dsp, dtop, rmem, handler, ex, tag, entry>>
      /\ RTag = "locl" /\ locl' = rtop /\ rtop' = rmem[rsp - 1] /\ rsp' = rsp - 2
      /\ WellFormed(rsp + 1)
  BY BodyFacts DEF LocalsExit
<1> PICK r \in Int : r = rsp
  BY <1>1
<1> PICK rr \in Int : rr = r - 2
  OBVIOUS
<1> PICK m : m = rmem
  OBVIOUS
<1> PICK t : t = rtop
  OBVIOUS
<1> PICK g : g = tag
  OBVIOUS
<1>2. g[r + 1] = "locl" /\ g[r] = "saved" /\ r >= 2
  BY <1>1 DEF RTag, WellFormed, OnTopOfBody
<1>3. SavedBetween(g, rr + 2, r) /\ rr < r /\ rr >= 0 - 1 /\ g[r + 1] \notin {"bottom", "saved"}
  BY <1>2 DEF SavedBetween
<1>4. FramesBelow(g, r + 1)
  BY <1>1, FramesAreBelow
<1>5. IsAppend(StackOf(g, m, t, r), StackOf(g, m, m[rr + 1], rr), ActOf(g, m, t, r, r + 1))
  BY <1>3, <1>4, PoppedTo
<1>6. AbstractStack = StackOf(g, m, t, r) /\ AbstractStack' = StackOf(g, m, m[rr + 1], rr)
  <2>1. rr + 1 = r - 1
    OBVIOUS
  <2>2. QED
    BY <1>1, <2>1, StackIs
<1> PICK x : x = ActOf(g, m, t, r, r + 1)
  OBVIOUS
<1>7. x.kind = "locl" /\ x.val = rtop
  BY <1>2 DEF ActOf, CellOf
<1> PICK S : StackOf(g, m, m[rr + 1], rr) \in Seq(S)
  BY StackIsSeq
<1>8. AbstractStack = Append(AbstractStack', x) /\ AbstractStack' \in Seq(S)
  BY <1>5, <1>6 DEF IsAppend
<1>9. AbstractStack' = Scopes!Front(AbstractStack) /\ Scopes!Last(AbstractStack) = x
  BY <1>8, FrontOfAppend
<1>10. AbstractData' = AbstractData
  BY <1>1, DataKept
<1>11. AbstractOutcome' = 0
  BY <1>1, BodyOutcome
<1>12. QED
  BY <1>1, <1>7, <1>9, <1>10, <1>11, AbandonedKept
  DEF Scopes!SLocalsExit, Scopes!Ready, Scopes!Calm, Scopes!Top

(* catch pushes one activation over the four cells of its frame.           *)
LEMMA CatchPushed ==
    ASSUME IInv, CatchBeg
    PROVE  AbstractStack'
               = Append(AbstractStack, Scopes!Activation("catch", CatchEndOf(ip), dsp, locl))
<1>1. /\ TypeOK /\ status = "vm" /\ rsp \in 0 .. MaxR /\ status' = "vm" /\ dsp \in Int
  BY BodyFacts DEF CatchBeg
<1>2. /\ rmem \in [0 .. MaxR -> Int] /\ tag \in [0 .. MaxR + 1 -> Tags]
      /\ rsp + 4 <= MaxR /\ rsp' = rsp + 4 /\ rtop' = CatchEndOf(ip)
      /\ rmem' = [rmem EXCEPT ![rsp + 1] = rtop, ![rsp + 2] = locl,
                              ![rsp + 3] = SavedDepth, ![rsp + 4] = handler]
      /\ tag' = [tag EXCEPT ![rsp + 2] = "saved", ![rsp + 3] = "saved",
                            ![rsp + 4] = "saved", ![rsp + 5] = "catch"]
  BY <1>1 DEF TypeOK, CatchBeg
<1> PICK r \in Int : r = rsp
  BY <1>1
<1> PICK rr \in Int : rr = r + 4
  OBVIOUS
<1> PICK m : m = rmem
  OBVIOUS
<1> PICK t : t = rtop
  OBVIOUS
<1> PICK g : g = tag
  OBVIOUS
<1> PICK mm : mm = rmem'
  OBVIOUS
<1> PICK gg : gg = tag'
  OBVIOUS
<1> PICK v : v = CatchEndOf(ip)
  OBVIOUS
<1> PICK d \in Int : d = dsp
  BY <1>1
<1> PICK l : l = locl
  OBVIOUS
<1>3. /\ AsBefore(mm, m, r) /\ mm[r + 1] = t /\ mm[r + 2] = l /\ mm[r + 3] = d - 1
  BY <1>1, <1>2, BoundsAssumption DEF AsBefore, SavedDepth
<1>4. /\ AsBefore(gg, g, r + 1) /\ gg[r + 2] = "saved" /\ gg[r + 3] = "saved"
      /\ gg[r + 4] = "saved" /\ gg[rr + 1] = "catch"
  BY <1>1, <1>2, BoundsAssumption DEF AsBefore
<1>5. SavedBetween(gg, r + 2, rr) /\ r >= 0 - 1 /\ rr > r
  BY <1>1, <1>4 DEF SavedBetween
<1>6. FramesBelow(g, r + 1)
  BY <1>1, FramesAreBelow
<1>7. IsAppend(StackOf(gg, mm, v, rr), StackOf(g, m, t, r), ActOf(gg, mm, v, rr, rr + 1))
  <2>1. gg[rr + 1] \notin {"bottom", "saved"}
    BY <1>4
  <2>2. QED
    BY <1>3, <1>4, <1>5, <1>6, <2>1, PushedOn
<1>8. ActOf(gg, mm, v, rr, rr + 1) = Scopes!Activation("catch", v, d, l)
  <2>1. rr + 1 - 2 = r + 3 /\ rr + 1 - 3 = r + 2 /\ d - 1 + 1 = d
    OBVIOUS
  <2>2. QED
    BY <1>3, <1>4, <2>1 DEF ActOf, CellOf, Scopes!Activation
<1>9. AbstractStack = StackOf(g, m, t, r) /\ AbstractStack' = StackOf(gg, mm, v, rr)
  BY <1>1, <1>2, StackIs
<1>10. QED
  BY <1>7, <1>8, <1>9 DEF IsAppend

LEMMA SCatchStep == ASSUME IInv, CatchBeg PROVE Scopes!SCatch
<1>1. /\ TypeOK /\ status = "vm" /\ reg0 = 0 /\ ip \in Bodies /\ InBody
      /\ dsp \in Int /\ dsp >= 0 /\ DPop /\ UNCHANGED <<status, locl, entry>>
      /\ reg0' = ValidateXT
      /\ ip' = IF ValidateXT = 0 THEN dtop ELSE ip
  BY BodyFacts, BoundsAssumption DEF CatchBeg
<1>2. /\ AbstractData # <<>> /\ AbstractData' = Scopes!Front(AbstractData)
      /\ Scopes!Last(AbstractData) = dtop /\ Len(AbstractData') = dsp
  BY <1>1, DataShrinks
<1>3. AbstractStack'
          = Append(AbstractStack, Scopes!Activation("catch", Scopes!ResumeOf(ip), dsp, locl))
  BY CatchPushed DEF CatchEndOf, Scopes!ResumeOf
<1>4. CASE ValidateXT = 0
  <2>1. dtop \in XTs /\ ip' = dtop /\ reg0' = 0
    BY <1>1, <1>4, XTChecked
  <2>2. AbstractOutcome' = 0
    BY <2>1, BodyOutcome DEF Bodies
  <2>3. QED
    BY <1>1, <1>2, <1>3, <2>1, <2>2, AbandonedKept
      DEF Scopes!SCatch, Scopes!Ready
<1>5. CASE ValidateXT # 0
  <2>1. dtop \notin XTs /\ ip' = ip /\ reg0' = InvalidAddress
    BY <1>1, <1>5, XTChecked
  <2>2. AbstractOutcome' = 0
    BY <1>1, <2>1, BodyOutcome
  <2>3. QED
    BY <1>1, <1>2, <1>3, <2>1, <2>2, AbandonedKept
      DEF Scopes!SCatch, Scopes!Ready
<1>6. QED
  BY <1>4, <1>5

LEMMA SCatchEndStep == ASSUME IInv, CatchEnd PROVE Scopes!SCatchEnd
<1> USE BoundsAssumption
<1>1. /\ TypeOK /\ Control /\ Chains /\ status = "vm" /\ reg0 = 0 /\ ip \in CatchEnds
      /\ rsp \in -1 .. MaxR /\ ex \in Datum
  BY DEF IInv, TypeOK, CatchEnd, AtCatchEnd, Running
<1>2. /\ ip' \in Bodies /\ Scopes!ResumeOf(ip') = ip /\ UNCHANGED <<status, reg0, tag, entry>>
      /\ DPush(ex) /\ rmem' = rmem
  BY DEF CatchEnd, Bodies, CatchEndOf, Scopes!ResumeOf
<1>3. IsAppend(AbstractData', AbstractData, ex)
  BY <1>1, <1>2, DataGrows
<1>4. AbstractOutcome = ex /\ AbstractOutcome' = 0
  BY <1>1, <1>2, OutcomeIs, BodyOutcome
<1>5. AbstractStack' = AbstractStack /\ locl' = locl
  <2>1. CASE ex # 0
    <3>1. UNCHANGED <<rmem, rsp, rtop, locl, tag>>
      BY <2>1 DEF CatchEnd
    <3>2. QED
      BY <1>1, <1>2, <3>1, StackKept
  <2>2. CASE ex = 0
    <3> PICK r \in Int : r = rsp
      BY <1>1
    <3> PICK q \in Int : q = r + 1
      OBVIOUS
    <3> PICK rr \in Int : rr = r - 3
      OBVIOUS
    <3> PICK m : m = rmem
      OBVIOUS
    <3> PICK t : t = rtop
      OBVIOUS
    <3> PICK g : g = tag
      OBVIOUS
    <3>1. CatchFrame(q) /\ q \in 0 .. MaxR + 1 /\ q = rsp + 1
      BY <1>1, <2>2 DEF Control
    <3>2. /\ q >= 4 /\ g[q] = "saved" /\ g[q - 1] = "saved" /\ g[q - 2] = "saved"
          /\ Cell(q - 2) = NoLocals /\ Innermost("locl", NoLocals, q)
      BY <3>1 DEF CatchFrame
    <3>3. m[r - 1] = NoLocals
      BY <3>1, <3>2 DEF Cell
    <3>4. rtop' = m[r - 2] /\ rsp' = rr /\ locl' = NoLocals
      BY <2>2, <3>3 DEF CatchEnd
    <3>5. SavedBetween(g, rr + 2, r + 1) /\ rr < r /\ rr >= 0 - 1 /\ rr + 1 = r - 2
      BY <3>2 DEF SavedBetween
    <3>6. FramesBelow(g, r + 1)
      BY <1>1, FramesAreBelow
    <3>7. StackOf(g, m, m[rr + 1], rr) = StackOf(g, m, t, r)
      BY <3>5, <3>6, PoppedSaved
    <3>8. AbstractStack = StackOf(g, m, t, r) /\ AbstractStack' = StackOf(g, m, m[rr + 1], rr)
      BY <1>1, <1>2, <3>4, <3>5, StackIs
    <3>9. locl = NoLocals
      <4>1. Innermost("locl", locl, q) /\ Innermost("locl", NoLocals, q)
        BY <1>1, <3>1, <3>2 DEF Chains
      <4>2. QED
        BY <3>2, <4>1 DEF Innermost, NoLocals
    <3>10. QED
      BY <3>4, <3>7, <3>8, <3>9
  <2>3. QED
    BY <2>1, <2>2
<1>6. QED
  BY <1>1, <1>2, <1>3, <1>4, <1>5, AbandonedKept DEF Scopes!SCatchEnd, Scopes!Ready, Scopes!Calm, IsAppend

(* throw keeps the data cells that were there and are still there.         *)
Restored(m, d, t, n, e, u) ==
    /\ SameCells(n, m, d)
    /\ e > d => n[d + 1] = t
    /\ e < d => u = m[e + 1]
    /\ e = d => u = t

LEMMA DataUnwound ==
    ASSUME IInv, Throw
    PROVE  /\ Len(AbstractData') = rmem[handler - 1] + 1
           /\ \A i \in DOMAIN AbstractData' :
                  i \in DOMAIN AbstractData => AbstractData'[i] = AbstractData[i]
<1> USE BoundsAssumption
<1>1. /\ TypeOK /\ status = "vm" /\ dsp \in -1 .. MaxD /\ handler \in 4 .. rsp
      /\ CatchFrame(handler) /\ \A k \in 0 .. rsp : Cell(k) = rmem[k]
      /\ rsp \in -1 .. MaxR
  BY ThrowFacts
<1>2. rmem[handler - 1] \in -1 .. MaxD - 1
  BY <1>1 DEF CatchFrame
<1>3. RestoreDepth(rmem[handler - 1]) /\ status' = "vm"
  BY <1>1 DEF Throw
<1> PICK e \in -1 .. MaxD - 1 : e = rmem[handler - 1]
  BY <1>2
<1>4. dsp' = e /\ dtop' \in Datum /\ dmem' \in [0 .. MaxD + 1 -> Datum]
  BY <1>1, <1>3, RestoredDepth
<1>5. dmem \in [0 .. MaxD + 1 -> Datum] /\ dtop \in Datum
  BY <1>1 DEF TypeOK
<1> PICK d \in -1 .. MaxD : d = dsp
  BY <1>1
<1> PICK m \in [0 .. MaxD + 1 -> Datum] : m = dmem
  BY <1>5
<1> PICK n \in [0 .. MaxD + 1 -> Datum] : n = dmem'
  BY <1>4
<1> PICK t \in Datum : t = dtop
  BY <1>5
<1> PICK u \in Datum : u = dtop'
  BY <1>4
<1>6. /\ u = IF e < d THEN m[e + 1] ELSE IF e > d THEN -1 ELSE t
      /\ n = IF e > d THEN [m EXCEPT ![d + 1] = t] ELSE m
  BY <1>3 DEF RestoreDepth
<1>7. Restored(m, d, t, n, e, u)
  BY <1>6 DEF Restored, SameCells
<1>8. AbstractData = DataOf(m, d, t) /\ AbstractData' = DataOf(n, e, u)
  BY <1>1, <1>3, <1>4 DEF AbstractData, DataOf
<1>9. Len(DataOf(n, e, u)) = e + 1
  <2> PICK D : D = Datum
    OBVIOUS
  <2>1. CellsIn(n, e, D) /\ u \in D /\ e \in Int /\ e >= -1
    BY DEF CellsIn
  <2>2. QED
    BY <2>1, DataSeq
<1>10. DOMAIN DataOf(m, d, t) = 1 .. d + 1 /\ DOMAIN DataOf(n, e, u) = 1 .. e + 1
  BY DEF DataOf
<1>11. ASSUME NEW i \in 1 .. e + 1, i \in 1 .. d + 1
       PROVE  DataOf(n, e, u)[i] = DataOf(m, d, t)[i]
  <2>1. e \in Int /\ d \in Int /\ i \in Int /\ 1 <= i /\ i <= e + 1 /\ i <= d + 1
    BY <1>11
  <2>2. QED
    BY <1>7, <2>1 DEF DataOf, Restored, SameCells
<1>12. QED
  BY <1>8, <1>9, <1>10, <1>11

(* The innermost CATCH of a sequence is the greatest index of one.         *)
CatchesIn(s) == {j \in DOMAIN s : s[j].kind = "catch"}

LEMMA GreatestCatch ==
    ASSUME NEW S, NEW s \in Seq(S), NEW i \in Int, NEW x, NEW r,
           InnermostCatch(s, i, x, r), x.kind = "catch"
    PROVE  /\ CatchesIn(s) # {} /\ Scopes!Max(CatchesIn(s)) = i
           /\ s[i] = x /\ SubSeq(s, 1, i - 1) = r
<1> PICK C : C = CatchesIn(s)
  OBVIOUS
<1>1. DOMAIN s = 1 .. Len(s) /\ Len(s) \in Nat
  BY LenProperties
<1>2. i \in C /\ s[i] = x /\ SubSeq(s, 1, i - 1) = r
  BY <1>1 DEF InnermostCatch, CatchesIn
<1>3. \A j \in C : i >= j /\ j \in Int
  BY <1>1, <1>2 DEF InnermostCatch, CatchesIn
<1>4. Scopes!Max(C) \in C /\ \A j \in C : Scopes!Max(C) >= j
  <2>1. \E k \in C : \A j \in C : k >= j
    BY <1>2, <1>3
  <2>2. QED
    BY <2>1 DEF Scopes!Max
<1>5. Scopes!Max(C) = i
  <2> PICK k : k = Scopes!Max(C)
    OBVIOUS
  <2>1. k \in Int /\ i >= k /\ k >= i
    BY <1>2, <1>3, <1>4
  <2>2. k = i
    BY <2>1
  <2>3. QED
    BY <2>2
<1>6. QED
  BY <1>2, <1>5

LEMMA SThrowStep == ASSUME IInv, Throw PROVE Scopes!SThrow
<1>1. /\ TypeOK /\ status = "vm" /\ rsp \in -1 .. MaxR
      /\ handler \in 4 .. rsp /\ tag[handler + 1] = "catch" /\ SavedIP = Cell(handler + 1)
      /\ \A p \in handler + 2 .. rsp + 1 : tag[p] # "catch"
      /\ CatchFrame(handler) /\ Cell(handler + 1) \in CatchEnds
      /\ \A k \in 0 .. rsp : Cell(k) = rmem[k]
  BY ThrowFacts
<1>2. rmem[handler - 2] = NoLocals
  BY <1>1 DEF CatchFrame
<1>3. /\ reg0 # 0 /\ ex' = reg0 /\ reg0' = 0 /\ ip' = Cell(handler + 1)
      /\ UNCHANGED <<status, rmem, tag, entry>>
      /\ locl' = rmem[handler - 2] /\ rtop' = rmem[handler - 2 - 1]
      /\ rsp' = handler - 2 - 1 - 1
  BY <1>1, <1>2 DEF Throw, Throwing, LoclAfterThrow
<1> PICK r \in Int : r = rsp
  BY <1>1, BoundsAssumption
<1> PICK c \in Int : c = handler + 1
  BY <1>1
<1> PICK m : m = rmem
  OBVIOUS
<1> PICK t : t = rtop
  OBVIOUS
<1> PICK g : g = tag
  OBVIOUS
<1>4. /\ c >= 5 /\ c <= r + 1 /\ g[c] = "catch"
      /\ g[c - 1] = "saved" /\ g[c - 2] = "saved" /\ g[c - 3] = "saved"
      /\ \A p \in c + 1 .. r + 1 : g[p] # "catch"
  <2>1. c + 1 = handler + 2 /\ c - 1 = handler /\ c - 2 = handler - 1 /\ c - 3 = handler - 2
    BY <1>1
  <2>2. QED
    BY <1>1, <2>1 DEF CatchFrame
<1>5. SavedBetween(g, c - 3, c - 1)
  BY <1>4 DEF SavedBetween
<1>6. FramesBelow(g, r + 1)
  BY <1>1, FramesAreBelow
<1> PICK i \in Int : InnermostCatch(StackOf(g, m, t, r), i, ActOf(g, m, t, r, c),
                                    StackOf(g, m, m[c - 4], c - 5))
  BY <1>4, <1>5, <1>6, Unwinding
<1>7. /\ AbstractStack = StackOf(g, m, t, r)
      /\ AbstractStack' = StackOf(g, m, m[c - 4], c - 5)
  <2>1. c - 5 = handler - 2 - 1 - 1 /\ c - 4 = handler - 2 - 1
    BY <1>1
  <2>2. QED
    BY <1>1, <1>3, <2>1, StackIs
<1> PICK x : x = ActOf(g, m, t, r, c)
  OBVIOUS
<1>8. /\ x.kind = "catch" /\ x.val = Cell(handler + 1)
      /\ x.depth = rmem[handler - 1] + 1 /\ x.locals = rmem[handler - 2]
  <2>1. c - 2 = handler - 1 /\ c - 3 = handler - 2
    BY <1>1
  <2>2. CellOf(m, t, r, c) = Cell(handler + 1)
    BY DEF CellOf, Cell
  <2>3. QED
    BY <1>4, <2>1, <2>2 DEF ActOf
<1> PICK S : StackOf(g, m, t, r) \in Seq(S)
  BY StackIsSeq
<1>9. InnermostCatch(AbstractStack, i, x, AbstractStack') /\ AbstractStack \in Seq(S)
  BY <1>7
<1>10. /\ Scopes!Catches # {} /\ Scopes!Max(Scopes!Catches) = i
       /\ AbstractStack[i] = x /\ SubSeq(AbstractStack, 1, i - 1) = AbstractStack'
  <2> PICK s \in Seq(S) : s = AbstractStack
    BY <1>9
  <2> PICK b : b = AbstractStack'
    OBVIOUS
  <2>1. InnermostCatch(s, i, x, b) /\ x.kind = "catch"
    BY <1>8, <1>9
  <2>2. /\ CatchesIn(s) # {} /\ Scopes!Max(CatchesIn(s)) = i
        /\ s[i] = x /\ SubSeq(s, 1, i - 1) = b
    BY <2>1, GreatestCatch
  <2>3. Scopes!Catches = CatchesIn(s)
    BY DEF Scopes!Catches, CatchesIn
  <2>4. QED
    BY <2>2, <2>3
<1>11. /\ Len(AbstractData') = rmem[handler - 1] + 1
       /\ \A k \in DOMAIN AbstractData' :
              k \in DOMAIN AbstractData => AbstractData'[k] = AbstractData[k]
  BY DataUnwound
<1>12. AbstractOutcome' = reg0
  BY <1>1, <1>3, OutcomeIs
<1>13. QED
  BY <1>1, <1>3, <1>8, <1>10, <1>11, <1>12, AbandonedKept DEF Scopes!SThrow

(* No live catch cell, no CATCH.                                           *)
LEMMA NoLiveCatch ==
    ASSUME IInv, status = "vm", \A p \in 0 .. rsp + 1 : tag[p] # "catch"
    PROVE  Scopes!Catches = {}
<1> PICK r \in Int : r = rsp
  BY BoundsAssumption DEF IInv, TypeOK
<1> PICK g : g = tag
  OBVIOUS
<1>1. \A p \in 0 .. r + 1 : g[p] # "catch"
  OBVIOUS
<1>2. \A i \in DOMAIN StackOf(g, rmem, rtop, r) : StackOf(g, rmem, rtop, r)[i].kind # "catch"
  BY <1>1, NoCatch
<1>3. AbstractStack = StackOf(g, rmem, rtop, r)
  BY StackIs
<1>4. QED
  BY <1>2, <1>3 DEF Scopes!Catches

(* The frame that m64th.handler designates is a CATCH of the activations.  *)
LEMMA SomeCatch ==
    ASSUME IInv, status = "vm", handler \in 1 .. rsp, tag[handler + 1] = "catch",
           \A p \in handler + 2 .. rsp + 1 : tag[p] # "catch"
    PROVE  Scopes!Catches # {}
<1>1. rsp \in -1 .. MaxR /\ StackShape /\ handler \in Int /\ rsp \in Int
  BY BoundsAssumption DEF IInv, TypeOK
<1>2. WellFormed(handler + 1)
  BY <1>1 DEF StackShape
<1>3. CatchFrame(handler)
  <2>1. handler + 1 - 1 = handler
    BY <1>1
  <2>2. QED
    BY <1>2, <2>1 DEF WellFormed
<1> PICK r \in Int : r = rsp
  BY <1>1
<1> PICK c \in Int : c = handler + 1
  BY <1>1
<1> PICK m : m = rmem
  OBVIOUS
<1> PICK t : t = rtop
  OBVIOUS
<1> PICK g : g = tag
  OBVIOUS
<1>4. /\ c >= 5 /\ c <= r + 1 /\ g[c] = "catch"
      /\ g[c - 1] = "saved" /\ g[c - 2] = "saved" /\ g[c - 3] = "saved"
      /\ \A p \in c + 1 .. r + 1 : g[p] # "catch"
  <2>1. c + 1 = handler + 2 /\ c - 1 = handler /\ c - 2 = handler - 1 /\ c - 3 = handler - 2
    BY <1>1
  <2>2. QED
    BY <1>1, <1>3, <2>1 DEF CatchFrame
<1>5. SavedBetween(g, c - 3, c - 1)
  BY <1>4 DEF SavedBetween
<1>6. FramesBelow(g, r + 1)
  BY FramesAreBelow
<1> PICK s : s = StackOf(g, m, t, r)
  OBVIOUS
<1> PICK x : x = ActOf(g, m, t, r, c)
  OBVIOUS
<1> PICK b : b = StackOf(g, m, m[c - 4], c - 5)
  OBVIOUS
<1>7. PICK i \in Int : InnermostCatch(s, i, x, b)
  BY <1>4, <1>5, <1>6, Unwinding
<1>8. x.kind = "catch"
  BY <1>4 DEF ActOf
<1>9. PICK S : s \in Seq(S)
  BY StackIsSeq
<1>10. CatchesIn(s) # {}
  BY <1>7, <1>8, <1>9, GreatestCatch
<1>11. Scopes!Catches = CatchesIn(s)
  BY StackIs DEF Scopes!Catches, CatchesIn
<1>12. QED
  BY <1>10, <1>11

(* m64th.handler is 0 exactly when there is no scope to throw to.          *)
LEMMA NoHandler ==
    ASSUME IInv, status = "vm", HandlerInForce = handler
    PROVE  handler = 0 <=> (Abandoned = 0 /\ Scopes!Catches = {})
<1>1. Innermost("catch", handler, rsp + 1) /\ rsp \in Int /\ Abandoned = entry["catch"]
  BY BoundsAssumption DEF IInv, TypeOK, Chains, Abandoned
<1>2. CASE handler = entry["catch"] /\ \A p \in 0 .. rsp + 1 : tag[p] # "catch"
  BY <1>1, <1>2, NoLiveCatch
<1>3. CASE handler \in 1 .. rsp + 1 - 1 /\ tag[handler + 1] = "catch"
           /\ \A p \in handler + 2 .. rsp + 1 : tag[p] # "catch"
  <2>1. handler \in 1 .. rsp
    BY <1>1, <1>3
  <2>2. Scopes!Catches # {}
    BY <1>3, <2>1, SomeCatch
  <2>3. QED
    BY <2>1, <2>2
<1>4. QED
  BY <1>1, <1>2, <1>3 DEF Innermost

(* Leaving the VM forgets the return stack and flushes the top of the data *)
(* stack to its memory.                                                    *)
LEMMA LeavesToC ==
    ASSUME IInv, status = "vm", reg0' = 0, ReturnToC, HandlerInForce = handler,
           reg0 # 0 => handler = 0
    PROVE  Scopes!SReturnToC
<1>1. /\ TypeOK /\ dsp \in -1 .. MaxD
      /\ dmem \in [0 .. MaxD + 1 -> Datum] /\ dtop \in Datum
  BY BoundsAssumption DEF IInv, TypeOK, Control
<1>2. /\ status' = "c" /\ dsp' = dsp + 1 /\ UNCHANGED <<ip, locl, handler>>
      /\ dmem' = [dmem EXCEPT ![dsp + 1] = dtop]
  BY DEF ReturnToC
<1> PICK d \in Int : d = dsp
  BY <1>1, BoundsAssumption
<1>3. dmem'[d + 1] = dtop /\ \A i \in 1 .. d : dmem'[i] = dmem[i]
  BY <1>1, <1>2, BoundsAssumption
<1>4. AbstractData' = AbstractData
  <2>1. AbstractData = [i \in 1 .. d + 1 |-> IF i = d + 1 THEN dtop ELSE dmem[i]]
    BY DEF AbstractData
  <2>2. AbstractData' = [i \in 1 .. d + 1 |-> dmem'[i]]
    BY <1>2 DEF AbstractData
  <2>3. ASSUME NEW i \in 1 .. d + 1
        PROVE  dmem'[i] = IF i = d + 1 THEN dtop ELSE dmem[i]
    BY <1>3
  <2>4. QED
    BY <2>1, <2>2, <2>3
<1>5. AbstractStack' = <<>>
  BY <1>2 DEF AbstractStack
<1>6. AbstractOutcome' = 0
  BY <1>2, OutcomeIs
<1>7. /\ handler = 0 <=> (Abandoned = 0 /\ Scopes!Catches = {})
      /\ Abandoned' = handler
  BY <1>2, NoHandler DEF Abandoned
<1>8. QED
  BY <1>2, <1>4, <1>5, <1>6, <1>7 DEF Scopes!SReturnToC

LEMMA SByeStep == ASSUME IInv, Bye PROVE Scopes!SReturnToC
<1>1. status = "vm" /\ reg0 = 0 /\ reg0' = 0 /\ ReturnToC /\ HandlerInForce = handler
  BY DEF Bye, Running, HandlerInForce, ReturnedFromCatch, AtCatchEnd
<1>2. QED
  BY <1>1, LeavesToC

LEMMA SUncaughtStep == ASSUME IInv, Uncaught PROVE Scopes!SReturnToC
<1>1. /\ status = "vm" /\ reg0 # 0 /\ reg0' = 0 /\ handler = 0 /\ ReturnToC
      /\ HandlerInForce = handler
  BY DEF Uncaught, Throwing, HandlerInForce, ReturnedFromCatch, AtCatchEnd, Running
<1>2. QED
  BY <1>1, LeavesToC

(* What is on an otherwise empty return stack.                             *)
LEMMA OneActivation ==
    ASSUME NEW g, NEW m, NEW t, g[0] = "bottom", g[1] = "ret"
    PROVE  Len(StackOf(g, m, t, 0)) = 1 /\ StackOf(g, m, t, 0)[1].kind = "ret"
<1> DEFINE a == ActsOf(g, m, t, 0)
           S == {ActOf(g, m, t, 0, 1)}
<1>1. a[0].kind = "bottom" /\ a[1] = ActOf(g, m, t, 0, 1) /\ a[1].kind = "ret"
  BY DEF ActsOf, ActOf
<1> HIDE DEF a
<1>2. Begun(a, 0 - 1) = <<>> /\ Begun(a, 0) = Begun(a, 0 - 1)
  BY <1>1, BegunRule
<1>3. Begun(a, 1) = Append(Begun(a, 0), a[1])
  BY <1>1, BegunRule
<1>4. <<>> \in Seq(S) /\ a[1] \in S /\ Len(<<>>) = 0
  BY <1>1, EmptySeq
<1>5. Begun(a, 1) = Append(<<>>, a[1])
  BY <1>2, <1>3
<1> HIDE DEF S
<1>6. Len(Append(<<>>, a[1])) = Len(<<>>) + 1 /\ Append(<<>>, a[1])[Len(<<>>) + 1] = a[1]
  BY <1>4, AppendProperties
<1>7. Len(Begun(a, 1)) = 1 /\ Begun(a, 1)[1] = a[1]
  BY <1>4, <1>5, <1>6
<1>8. StackOf(g, m, t, 0) = Begun(a, 1)
  BY DEF StackOf, a
<1>9. QED
  BY <1>1, <1>7, <1>8

LEMMA EntersVM ==
    ASSUME IInv, NEW x \in XTs, NEW h, NEW l, Enter(x, h, l)
    PROVE  /\ status = "c" /\ status' = "vm" /\ reg0' = 0 /\ AbstractOutcome' = 0 /\ ip' \in XTs
           /\ Len(AbstractStack') = 1 /\ AbstractStack'[1].kind = "ret"
<1>1. /\ status = "c" /\ status' = "vm" /\ reg0 = 0 /\ reg0' = reg0 /\ ip' = x /\ rsp' = 0
      /\ tag' = [tag EXCEPT ![0] = "bottom", ![1] = "ret"]
      /\ tag \in [0 .. MaxR + 1 -> Tags]
  BY DEF IInv, TypeOK, Enter
<1> PICK gg : gg = tag'
  OBVIOUS
<1>2. gg[0] = "bottom" /\ gg[1] = "ret"
  BY <1>1, BoundsAssumption
<1>3. Len(StackOf(gg, rmem', rtop', 0)) = 1 /\ StackOf(gg, rmem', rtop', 0)[1].kind = "ret"
  BY <1>2, OneActivation
<1>4. AbstractStack' = StackOf(gg, rmem', rtop', 0)
  BY <1>1, StackIs
<1>5. ip' \in Bodies
  BY <1>1 DEF Bodies
<1>6. AbstractOutcome' = 0
  BY <1>5, BodyOutcome
<1>7. QED
  BY <1>1, <1>3, <1>4, <1>6

LEMMA SRunStep == ASSUME IInv, NEW x \in XTs, Run(x) PROVE Scopes!SRun
<1>1. Enter(x, handler, locl) /\ DPop /\ locl' = locl
  BY DEF Run, Enter
<1>2. /\ status = "c" /\ status' = "vm" /\ reg0' = 0 /\ AbstractOutcome' = 0 /\ ip' \in XTs
      /\ Len(AbstractStack') = 1 /\ AbstractStack'[1].kind = "ret"
  BY <1>1, EntersVM
<1>3. AbstractData' = AbstractData
  <2>1. dsp \in Int /\ dsp' = dsp - 1 /\ dtop' = dmem[dsp] /\ dmem' = dmem
    BY <1>1, BoundsAssumption DEF IInv, TypeOK, DPop
  <2> PICK d \in Int : d = dsp
    BY <2>1
  <2>2. AbstractData = [i \in 1 .. d |-> dmem[i]]
    BY <1>2 DEF AbstractData
  <2>3. AbstractData' = [i \in 1 .. d - 1 + 1 |-> IF i = d - 1 + 1 THEN dmem[d] ELSE dmem[i]]
    BY <1>2, <2>1 DEF AbstractData
  <2>4. 1 .. d - 1 + 1 = 1 .. d
    OBVIOUS
  <2>5. \A i \in 1 .. d : (IF i = d - 1 + 1 THEN dmem[d] ELSE dmem[i]) = dmem[i]
    OBVIOUS
  <2>6. QED
    BY <2>2, <2>3, <2>4, <2>5
<1>4. Abandoned' = Abandoned
  BY <1>1, <1>2 DEF Abandoned, Enter, Chained
<1>5. QED
  BY <1>1, <1>2, <1>3, <1>4 DEF Scopes!SRun

LEMMA SClearAndRunStep == ASSUME IInv, NEW x \in XTs, ClearAndRun(x) PROVE Scopes!SRun
<1>1. Enter(x, 0, 0) /\ dsp' = -1 /\ locl' = 0
  BY DEF ClearAndRun, NoLocals, Enter
<1>2. /\ status = "c" /\ status' = "vm" /\ reg0' = 0 /\ AbstractOutcome' = 0 /\ ip' \in XTs
      /\ Len(AbstractStack') = 1 /\ AbstractStack'[1].kind = "ret"
  BY <1>1, EntersVM
<1>3. AbstractData' = <<>>
  <2>1. AbstractData' = [i \in 1 .. 0 |-> IF i = 0 THEN dtop' ELSE dmem'[i]]
    BY <1>1, <1>2 DEF AbstractData
  <2>2. QED
    BY <2>1
<1>4. Abandoned' = 0
  BY <1>1, <1>2 DEF Abandoned, Enter, Chained
<1>5. QED
  BY <1>1, <1>2, <1>3, <1>4 DEF Scopes!SRun

LEMMA SLostStep == ASSUME IInv, CatchLosesVM \/ CatchLosesDepth PROVE Scopes!SLost
<1>1. /\ TypeOK /\ status = "vm" /\ reg0 = 0 /\ ip \in Bodies /\ status' = "lost"
      /\ UNCHANGED <<ip, reg0, dmem, dsp, dtop, rmem, rsp, rtop, locl, handler, ex, tag, entry>>
      /\ locl # 0 \/ dsp < 0
  BY BodyFacts DEF CatchLosesVM, CatchLosesDepth, stacks, NoLocals
<1>2. AbstractData' = AbstractData /\ AbstractStack' = AbstractStack
  BY <1>1, DataKept, StackKept
<1>3. AbstractOutcome = 0 /\ AbstractOutcome' = 0
  BY <1>1, BodyOutcome
<1>4. AbstractData = <<>> <=> dsp < 0
  BY <1>1, DataIsSeq
<1>5. QED
  BY <1>1, <1>2, <1>3, <1>4, AbandonedKept DEF Scopes!SLost

(* An exception that no active CATCH waits for, in a run that was entered  *)
(* with the handler of another.                                            *)
LEMMA SThrowLostStep == ASSUME IInv, ThrowLosesFrame PROVE Scopes!SLost
<1>1. /\ status = "vm" /\ reg0 # 0 /\ status' = "lost" /\ handler # 0
      /\ UNCHANGED <<ip, reg0, dmem, dsp, dtop, rmem, rsp, rtop, locl, handler, ex, tag, entry>>
      /\ \A p \in 0 .. rsp + 1 : tag[p] # "catch"
      /\ HandlerInForce = handler
  BY DEF ThrowLosesFrame, Throwing, stacks, Live, HandlerInForce, ReturnedFromCatch,
         AtCatchEnd, Running
<1>2. AbstractData' = AbstractData /\ AbstractStack' = AbstractStack
  BY <1>1, DataKept, StackKept
<1>3. AbstractOutcome = 0 /\ AbstractOutcome' = 0
  BY <1>1, OutcomeIs
<1>4. Scopes!Catches = {} /\ Abandoned # 0
  BY <1>1, NoLiveCatch, NoHandler
<1>5. QED
  BY <1>1, <1>2, <1>3, <1>4, AbandonedKept DEF Scopes!SLost

LEMMA SInitStep == ASSUME Init PROVE Scopes!SInit
<1>1. status = "c" /\ reg0 = 0 /\ dsp = 0 /\ locl = NoLocals /\ Abandoned = 0
  BY DEF Init, Abandoned
<1>2. AbstractData = <<>>
  <2>1. AbstractData = [i \in 1 .. 0 |-> dmem[i]]
    BY <1>1 DEF AbstractData
  <2>2. QED
    BY <2>1
<1>3. AbstractStack = <<>> /\ AbstractOutcome = 0
  BY <1>1, OutcomeIs DEF AbstractStack
<1>4. QED
  BY <1>1, <1>2, <1>3 DEF Scopes!SInit, NoLocals

LEMMA ScopesKept == UNCHANGED vars => UNCHANGED Scopes!svars
<1> SUFFICES ASSUME UNCHANGED vars
             PROVE  UNCHANGED Scopes!svars
  OBVIOUS
<1>1. UNCHANGED <<status, ip, reg0, dmem, dsp, dtop, rmem, rsp, rtop, locl, handler, ex, tag, entry>>
  BY DEF vars
<1>2. AbstractData' = AbstractData
  BY <1>1 DEF AbstractData
<1>3. AbstractStack' = AbstractStack
  <2>1. CASE status = "c"
    BY <1>1, <2>1 DEF AbstractStack
  <2>2. CASE status # "c"
    BY <1>1, <2>2, StackKept
  <2>3. QED
    BY <2>1, <2>2
<1>4. AbstractOutcome' = AbstractOutcome
  BY <1>1 DEF AbstractOutcome, AtCatchEnd, Running
<1>5. Abandoned' = Abandoned
  BY <1>1 DEF Abandoned
<1>6. QED
  BY <1>1, <1>2, <1>3, <1>4, <1>5 DEF Scopes!svars

LEMMA ScopesNext == IInv /\ [Next]_vars => [Scopes!SNext]_(Scopes!svars)
<1> SUFFICES ASSUME IInv, [Next]_vars
             PROVE  [Scopes!SNext]_(Scopes!svars)
  OBVIOUS
<1>1. CASE UNCHANGED vars
  BY <1>1, ScopesKept
<1>2. CASE Next
  <2>1. ASSUME NEW v \in Literals \cup XTs, Push(v) PROVE Scopes!SNext
    BY <2>1, SPushStep DEF Scopes!SNext
  <2>2. CASE Drop
    BY <2>2, SDropStep DEF Scopes!SNext
  <2>3. CASE ToR
    BY <2>3, SToRStep DEF Scopes!SNext
  <2>4. CASE RFrom
    BY <2>4, SRFromStep DEF Scopes!SNext
  <2>5. ASSUME NEW x \in XTs, Call(x) PROVE Scopes!SNext
    BY <2>5, SCallStep DEF Scopes!SNext
  <2>6. CASE Execute
    BY <2>6, SExecuteStep DEF Scopes!SNext
  <2>7. CASE Exit
    BY <2>7, SExitStep DEF Scopes!SNext
  <2>8. CASE LocalsEnter
    BY <2>8, SLocalsEnterStep DEF Scopes!SNext
  <2>9. CASE LocalsExit
    BY <2>9, SLocalsExitStep DEF Scopes!SNext
  <2>10. CASE CatchBeg
    BY <2>10, SCatchStep DEF Scopes!SNext
  <2>11. CASE CatchLosesVM \/ CatchLosesDepth
    BY <2>11, SLostStep DEF Scopes!SNext
  <2>12. CASE CatchEnd
    BY <2>12, SCatchEndStep DEF Scopes!SNext
  <2>13. CASE ThrowToken
    BY <2>13, SThrowTokenStep DEF Scopes!SNext
  <2>14. CASE Throw
    BY <2>14, SThrowStep DEF Scopes!SNext
  <2>15. CASE Uncaught
    BY <2>15, SUncaughtStep DEF Scopes!SNext
  <2>16. CASE Bye
    BY <2>16, SByeStep DEF Scopes!SNext
  <2>17. CASE Lost
    BY <2>17, ScopesKept DEF Lost
  <2>18. ASSUME NEW x \in XTs, Run(x) PROVE Scopes!SNext
    BY <2>18, SRunStep DEF Scopes!SNext
  <2>19. ASSUME NEW x \in XTs, ClearAndRun(x) PROVE Scopes!SNext
    BY <2>19, SClearAndRunStep DEF Scopes!SNext
  <2>20. CASE ThrowLosesFrame
    BY <2>20, SThrowLostStep DEF Scopes!SNext
  <2>21. QED
    BY <1>2, <2>1, <2>2, <2>3, <2>4, <2>5, <2>6, <2>7, <2>8, <2>9, <2>10, <2>11, <2>12,
       <2>13, <2>14, <2>15, <2>16, <2>17, <2>18, <2>19, <2>20 DEF Next, Tokens
<1>3. QED
  BY <1>1, <1>2

(* The machine of cached stack tops, saved pointers and handler cells      *)
(* implements nested scopes of CATCH and THROW: each of its steps is one   *)
(* of ExceptionScopes (generic_asm/call.S, amd64/call.S).                  *)
THEOREM ImplementsScopesHolds == Spec => ImplementsScopes
<1>1. Init => Scopes!SInit
  BY SInitStep
<1>2. QED
  BY <1>1, ScopesNext, Inductive, PTL DEF Spec, ImplementsScopes, Scopes!SSpec
=============================================================================
