-------------------------------- MODULE InBuf --------------------------------
(***************************************************************************)
(* Buffered input of m64th and the loop that interprets it: REPL, what     *)
(* INTERPRET, PARSE and PARSE-NAME do to the buffer (forth/m64th/user.S,   *)
(* forth/std/core_ext.S), the words that search and refill it              *)
(* (forth/m64th/core.S), KEY (generic_asm/io.S), and the two I/O functions *)
(* that read a file or a line (c/c_std.c, c/c_liblinenoise.c).             *)
(*                                                                         *)
(* A character is its place in the text of the input; the text has there a *)
(* space, a newline, a quote or something else.                            *)
(***************************************************************************)
EXTENDS Integers, Sequences, SequencesExt, FiniteSetsExt

CONSTANTS
    Texts,     \* the inputs that are files
    Size,      \* io.max, capacity of the buffer
    Typed      \* the inputs that are typed, line by line

Blanks == {" ", "\n"}
Quotes == {"\""}
Others == {"x"}
Chars == Blanks \cup Quotes \cup Others

ASSUME TextsAssumption == Texts \subseteq Seq(Chars)
ASSUME TypedAssumption == Typed \subseteq Seq(Chars)
ASSUME SizeAssumption == Size \in Nat \ {0}

VARIABLES
    text,        \* the input
    byLine,      \* io.func is c-linenoise, else c-fread
    taken,       \* number of its characters the I/O function is done with
    addr,        \* io.addr[], 0 where no character was stored
    pos, end,    \* io.pos, io.end
    err,         \* io.err
    phase,       \* what is running: "repl", "interpret", a "word" or "done"
    compiling,   \* STATE is not 0 and a word is being compiled
    item         \* history: the last name, string or key that was read

buffer == <<addr, pos, end>>
device == <<text, byLine>>
vars == <<text, byLine, taken, addr, pos, end, err, phase, compiling, item>>

NoError == 0
EOF == -39          \* M6ERR_UNEXPECTED_EOF
ReadError == -517   \* M6ERR_C_ERRNO - EIO, for any other error

Characters(from, to) == [i \in 1 .. to - from |-> addr[from + i - 1]]
Data == Characters(pos, end)

-----------------------------------------------------------------------------
(* The I/O function: the characters it returns for a room, with an error   *)
(* only if there are none, and how many of the text it is then done with.  *)

Upto(n) == [i \in 1 .. n - taken |-> taken + i]
Result(n, done, e) == [chars |-> Upto(n), done |-> done, err |-> e]

(* fread returns all that fits *)
FromFile(room) ==
    IF taken = Len(text) /\ room > 0 THEN {Result(taken, taken, EOF)}
    ELSE LET n == Min({taken + room, Len(text)}) IN {Result(n, n, NoError)}

(* linenoise returns the next line, which may be empty, without its end;   *)
(* the user cannot type more than there is room for, with a 0 after it     *)
FromLine(room) ==
    LET ends == {n \in taken + 1 .. Len(text) : text[n] = "\n"}
        next == IF ends = {} THEN Len(text) + 1 ELSE Min(ends)
    IN IF taken = Len(text) THEN {Result(taken, taken, EOF)}
       ELSE IF next - taken > room THEN {}
       ELSE {Result(next - 1, Min({next, Len(text)}), NoError)}

Returned(room) ==
    (IF byLine THEN FromLine(room) ELSE FromFile(room))
        \cup {Result(taken, taken, ReadError)}

-----------------------------------------------------------------------------
(* Words on the buffer. *)

(* ibuf-refill: move the data to the start of the buffer, then read to the *)
(* room after it                                                           *)
NotMoved(k) == addr[k]
Moved(k) == IF k < end - pos THEN addr[pos + k] ELSE addr[k]
Room(n) == Size - n

Refill ==
    LET n == end - pos
    IN \E r \in Returned(Room(n)) :
        /\ addr' = [k \in 0 .. Size - 1 |->
                     IF k \in n .. n + Len(r.chars) - 1 THEN r.chars[k - n + 1]
                     ELSE Moved(k)]
        /\ pos' = 0
        /\ end' = n + Len(r.chars)
        /\ taken' = r.done
        /\ err' = r.err

(* position of the first character of some kinds in the data, or its end *)
Find(from, kinds) ==
    LET found == {k \in from .. end - 1 : text[addr[k]] \in kinds}
    IN IF found = {} THEN end ELSE Min(found)

SkipBlanks == Find(pos, Quotes \cup Others)   \* ibuf-skip-blanks

(* ibuf-skip-1blank *)
SkipOneBlank == IF pos < end /\ text[addr[pos]] \in Blanks THEN pos + 1 ELSE pos

(* consume the data up to `to', where item is part of them *)
Take(from, upto, to) ==
    /\ item' = Characters(from, upto)
    /\ pos' = to
    /\ UNCHANGED <<addr, end>>

(* ibuf-find-nonblanks, ibuf-find-char *)
EndOfNameIfAny == IF SkipBlanks = end THEN pos ELSE Find(SkipBlanks, Blanks)
EndOfName == Find(SkipBlanks, Blanks)
TakeName == Take(SkipBlanks, EndOfName, EndOfName)
After(found) == IF found < end THEN found + 1 ELSE end
TakeString(from, delimiters) ==
    LET found == Find(from, delimiters) IN Take(from, found, After(found))

(* what \ discards when it runs at the next name: the line from there, as *)
(* far as it is in the buffer                                              *)
RestOfBuffer == end
RestOfLine == After(Find(SkipBlanks, {"\n"}))

-----------------------------------------------------------------------------
(* repl: read if the buffer is empty, stop if that fails *)
Repl ==
    /\ phase = "repl"
    /\ IF pos = end
       THEN /\ Refill
            /\ phase' = IF err' = NoError THEN "interpret" ELSE "done"
       ELSE /\ phase' = "interpret"
            /\ UNCHANGED <<buffer, taken, err>>
    /\ UNCHANGED <<device, compiling, item>>

(* interpret reads a name, and runs the word it names unless there is none *)
Interpret ==
    /\ phase = "interpret"
    /\ TakeName
    /\ phase' = IF SkipBlanks = end THEN "repl" ELSE "word"
    /\ UNCHANGED <<device, taken, err, compiling>>

(* That word may read from the input itself: parse-name, parse up to a     *)
(* quote or, as \ does, to the end of the line, key and ibuf-refill.  It   *)
(* may start and end the compilation of a word.  It may be undefined.      *)
InWord == phase = "word" /\ UNCHANGED <<device, phase>>
Reads == InWord /\ UNCHANGED <<taken, err, compiling>>

ParseName == Reads /\ TakeName
Parse == Reads /\ \E delimiters \in {Quotes, {"\n"}} : TakeString(SkipOneBlank, delimiters)
Key == Reads /\ pos < end /\ Take(pos, pos + 1, pos + 1)
KeyOfNothing == Reads /\ pos = end /\ item' = <<>> /\ UNCHANGED buffer
WordRefill == InWord /\ Refill /\ UNCHANGED <<compiling, item>>
SetState == InWord /\ compiling' \in BOOLEAN /\ UNCHANGED <<taken, buffer, err, item>>

(* The word is done: repl goes on with the rest of the buffer.             *)
Return ==
    /\ phase = "word" /\ phase' = "repl"
    /\ pos' = SkipBlanks
    /\ item' = <<>>
    /\ UNCHANGED <<device, taken, addr, end, err, compiling>>

(* It threw an exception, which repl caught: repl skips blanks as before,  *)
(* and compiler-abort gives up the word that was being compiled, if any,   *)
(* with the rest of its line.                                              *)
Throw ==
    /\ phase = "word" /\ phase' = "repl"
    /\ pos' = IF compiling THEN RestOfLine ELSE SkipBlanks
    /\ compiling' = FALSE
    /\ item' = <<>>
    /\ UNCHANGED <<device, taken, addr, end, err>>

Finish == Return \/ Throw

Done == phase = "done" /\ UNCHANGED vars

(* m64th_new, or m64th_clear, and main.c; the file before it may have      *)
(* ended inside a definition                                               *)
Init ==
    /\ (byLine = FALSE /\ text \in Texts) \/ (byLine = TRUE /\ text \in Typed)
    /\ taken = 0
    /\ addr = [k \in 0 .. Size - 1 |-> 0] /\ pos = 0 /\ end = 0 /\ err = 0
    /\ phase = "repl" /\ compiling \in BOOLEAN /\ item = <<>>

Next ==
    \/ Repl \/ Interpret \/ ParseName \/ Parse \/ Key \/ KeyOfNothing
    \/ WordRefill \/ SetState \/ Finish \/ Done
Spec == Init /\ [][Next]_vars

(* The loop runs, and no word reads from the input for ever. *)
FairSpec == Spec /\ WF_vars(Repl) /\ WF_vars(Interpret) /\ WF_vars(Finish)
-----------------------------------------------------------------------------
(* Properties. *)

(* The buffer holds characters of the text, between pos and end. *)
TypeOK ==
    /\ byLine \in BOOLEAN /\ text \in (IF byLine THEN Typed ELSE Texts)
    /\ taken \in 0 .. Len(text)
    /\ addr \in [0 .. Size - 1 -> 0 .. taken]
    /\ pos \in 0 .. end /\ end \in 0 .. Size
    /\ err \in {NoError, EOF, ReadError}
    /\ phase \in {"repl", "interpret", "word", "done"} /\ compiling \in BOOLEAN
    /\ item \in Seq(1 .. taken)

(* The characters in the buffer are the last ones that the I/O function    *)
(* returned, in order, each once, also after what was left was moved to    *)
(* the start of the buffer (ibuf_refill).                                  *)
Consumed == IF pos = end THEN taken ELSE addr[pos] - 1
DataIsNext ==
    /\ \A i, j \in pos .. end - 1 : i < j => addr[i] < addr[j]
    /\ {addr[k] : k \in pos .. end - 1} =
           {c \in 1 .. taken : Consumed < c /\ (byLine => text[c] # "\n")}

(* A step reads on where the one before it stopped: what it passes over    *)
(* without returning it to the program is blank, or the delimiter of what  *)
(* it returns (ibuf_find_nonblanks, ibuf_find_char, ibuf_refill, key), or  *)
(* it was given up with a word that failed to compile (repl,               *)
(* compiler_abort): then it is part of one line, "skip until end of input  *)
(* line", the one that the next name is on.  That may be the line after    *)
(* the one that failed.  Typed lines have no end that could be seen.       *)
GivenUp(c) ==
    /\ compiling /\ ~ compiling' /\ phase = "word" /\ phase' = "repl"
    /\ \A d \in Consumed + 1 .. c :
           ~ byLine /\ text[d] = "\n" =>
               \A b \in Consumed + 1 .. d : text[b] \in Blanks
NothingSkipped ==
    [][\A c \in Consumed + 1 .. Consumed' :
        c \in Range(item') \/ text[c] \in Blanks \cup Quotes \/ GivenUp(c)]_vars

(* REPL ends, and if it was not for an error all of the input has been     *)
(* read and interpreted, whatever the sizes of the text and of the buffer  *)
(* (repl, "call INTERPRET repeatedly until I/O error reading input").      *)
ReadsAll == <>(phase = "done" /\ (err = EOF => Consumed = Len(text)))
=============================================================================
