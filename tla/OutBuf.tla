------------------------------- MODULE OutBuf -------------------------------
(***************************************************************************)
(* Buffered output of m64th: obuf-write-char and obuf-write-string         *)
(* (generic_asm/io.S) with the Forth words that flush the buffer           *)
(* (forth/m64th/core.S), over an I/O function that may take only a part of *)
(* what it is given and may fail (c/c_std.c, m64th_c_fwrite_fflush).       *)
(*                                                                         *)
(* A character is the number of its place in what the program wrote.  One  *)
(* step is one call of the I/O function, or what is done between two.      *)
(***************************************************************************)
EXTENDS Integers, Sequences, SequencesExt

CONSTANTS
    Size,       \* io.max, capacity of the buffer
    Lengths,    \* lengths of the strings a program writes
    Errors,     \* the errors of the I/O function
    MaxChars    \* bound: characters written

ASSUME SizeAssumption == Size \in Nat \ {0}
ASSUME LengthsAssumption == Lengths \subseteq Nat /\ MaxChars \in Nat
ASSUME ErrorsAssumption == Errors \subseteq Int \ {0}

VARIABLES
    addr,         \* io.addr[], 0 where no character was stored
    pos, end,     \* io.pos, io.end
    err,          \* io.err
    pc,           \* "program", or in "flush", "overflow", or "lost"
    then,         \* what the flush is for: "none", "char", "string"
    arg,          \* characters still to write after the flush
    ior,          \* what the last operation of the program returned
    written,      \* history: number of characters the program wrote
    sent,         \* history: characters the I/O function took
    refused       \* history: characters that were not written, by an error

buffer == <<addr, pos, end>>
vars == <<addr, pos, end, err, pc, then, arg, ior, written, sent, refused>>

Fresh(n) == [i \in 1 .. n |-> written + i]
Pending == [i \in 1 .. end - pos |-> addr[pos + i - 1]]

(* addr and end after the characters of s are appended to the first n *)
Stored(n, s) ==
    [k \in 0 .. Size - 1 |-> IF k \in n .. n + Len(s) - 1 THEN s[k - n + 1] ELSE addr[k]]

Store(s) == addr' = Stored(end, s) /\ end' = end + Len(s) /\ UNCHANGED pos

Return(e) == pc' = "program" /\ ior' = e /\ then' = "none" /\ arg' = <<>>

-----------------------------------------------------------------------------
(* The program. *)

StartFlush(what, s) ==
    /\ pc' = "flush" /\ then' = what /\ arg' = s
    /\ UNCHANGED <<buffer, ior>>

(* obuf-write-char, obuf-write-string: to the buffer if there is room *)
Fits(n) == end + n <= Size
Write(what, n) ==
    /\ pc = "program"
    /\ written + n <= MaxChars   \* bound
    /\ written' = written + n
    /\ IF Fits(n)
       THEN Store(Fresh(n)) /\ Return(0)
       ELSE StartFlush(what, Fresh(n))
    /\ UNCHANGED <<err, sent, refused>>

WriteChar == Write("char", 1)
WriteString(n) == Write("string", n)

Flush ==  \* obuf-flush
    /\ pc = "program"
    /\ StartFlush("none", <<>>)
    /\ UNCHANGED <<err, written, sent, refused>>

-----------------------------------------------------------------------------
(* The I/O function: takes the first u of s and returns e.  It takes at    *)
(* least one character, or fails; fflush may fail after fwrite took all.   *)
Device(s, u, e) ==
    /\ u \in 0 .. Len(s) /\ e \in {0} \cup Errors
    /\ u = 0 => e # 0
    /\ sent' = sent \o SubSeq(s, 1, u)

(* io.pos after a call *)
PosAfterSuccess(u, e) == IF e = 0 THEN pos + u ELSE pos
PosAfter(u, e) == pos + u

(* obuf-flush fails: its callers return the error, but                     *)
(* (obuf-flush-write-char) does `nip r> drop exit' and loses the address   *)
(* it has to return to                                                     *)
FlushFails(e) ==
    IF then = "char"
    THEN pc' = "lost" /\ arg' = <<>> /\ UNCHANGED <<then, ior>>
    ELSE Return(e)

(* one iteration of the loop of obuf-flush *)
FlushSome(u, e) ==
    /\ pc = "flush" /\ pos < end
    /\ Device(Pending, u, e)
    /\ pos' = PosAfter(u, e)
    /\ IF e = 0
       THEN UNCHANGED <<err, pc, then, arg, ior, refused>>
       ELSE /\ err' = e
            /\ FlushFails(e)
            /\ refused' = refused \cup Range(arg)
    /\ UNCHANGED <<addr, end, written>>

(* the buffer is empty: what the flush was for *)
Flushed ==
    /\ pc = "flush" /\ pos = end
    /\ pos' = 0
    /\ IF Len(arg) > Size
       THEN /\ pc' = "overflow" /\ end' = 0
            /\ UNCHANGED <<addr, then, arg, ior>>
       ELSE /\ addr' = Stored(0, arg) /\ end' = Len(arg)
            /\ Return(0)
    /\ UNCHANGED <<err, written, sent, refused>>

(* one iteration of the loop of (obuf-overflow): the string does not fit   *)
(* the empty buffer and goes to the I/O function                           *)
RestAll(u) == arg
Rest(u) == SubSeq(arg, u + 1, Len(arg))
OverflowSome(u, e) ==
    /\ pc = "overflow" /\ arg # <<>>
    /\ Device(arg, u, e)
    /\ IF e = 0
       THEN arg' = Rest(u) /\ UNCHANGED <<err, pc, then, ior, refused>>
       ELSE /\ err' = e
            /\ refused' = refused \cup Range(Rest(u))
            /\ Return(e)
    /\ UNCHANGED <<buffer, written>>

NeverEnds == Len(arg) < 0
OverflowEnds == arg = <<>>
OverflowDone ==
    /\ pc = "overflow" /\ OverflowEnds
    /\ Return(0)
    /\ UNCHANGED <<buffer, err, written, sent, refused>>

(* m64th_new, with the output function of main.c *)
Init ==
    /\ addr = [k \in 0 .. Size - 1 |-> 0] /\ pos = 0 /\ end = 0 /\ err = 0
    /\ pc = "program" /\ then = "none" /\ arg = <<>> /\ ior = 0
    /\ written = 0 /\ sent = <<>> /\ refused = {}

Program == WriteChar \/ (\E n \in Lengths : WriteString(n)) \/ Flush
Iobuf ==
    \/ \E u \in 0 .. MaxChars, e \in {0} \cup Errors : FlushSome(u, e) \/ OverflowSome(u, e)
    \/ Flushed \/ OverflowDone
(* a program that returned to a wrong address does nothing that is known *)
Lost == pc = "lost" /\ UNCHANGED vars

Next == Program \/ Iobuf \/ Lost
Spec == Init /\ [][Next]_vars

(* The words of the iobuf run until they return. *)
FairSpec == Spec /\ WF_vars(Iobuf)
-----------------------------------------------------------------------------
(* Properties. *)

(* The buffer holds characters that were written, between pos and end.     *)
TypeOK ==
    /\ addr \in [0 .. Size - 1 -> 0 .. written]
    /\ pos \in 0 .. end /\ end \in 0 .. Size
    /\ err \in {0} \cup Errors /\ ior \in {0} \cup Errors
    /\ pc \in {"program", "flush", "overflow", "lost"}
    /\ then \in {"none", "char", "string"}
    /\ arg \in Seq(1 .. written) /\ written \in 0 .. MaxChars
    /\ sent \in Seq(1 .. written) /\ refused \subseteq 1 .. written

(* What was sent, what is in the buffer and what the operation in progress *)
(* still has to write are, in order and each once, the characters that the *)
(* program wrote, but for those of an operation that returned an error:    *)
(* also when the I/O function takes a part and fails, and the program goes *)
(* on (obuf_flush, _obuf_overflow_).                                       *)
Stream == sent \o Pending \o arg
OutputInOrder ==
    /\ Range(Stream) = (1 .. written) \ refused
    /\ \A i, j \in DOMAIN Stream : i < j => Stream[i] < Stream[j]

(* A flush that returns 0 has sent all that was written before, a string   *)
(* too long for the buffer is sent whole when its write returns 0          *)
(* (obuf_flush, _obuf_flush_write_string_).                                *)
JustStored == IF pc = "overflow" THEN {} ELSE Range(arg)
SuccessSendsAll ==
    [][(pc \in {"flush", "overflow"}) /\ pc' = "program" /\ ior' = 0 =>
        (1 .. written) \ refused = Range(sent') \cup JustStored]_vars

(* Every operation of the iobuf returns, as long as the I/O function takes *)
(* something or fails (obuf_flush, "until"; _obuf_overflow_, "repeat").    *)
Returns == pc \in {"flush", "overflow"} ~> pc \in {"program", "lost"}
=============================================================================
