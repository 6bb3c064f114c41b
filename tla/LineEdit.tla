------------------------------ MODULE LineEdit ------------------------------
(* The line editor of m64th, linenoise/linenoise.c in multi-line mode, and *)
(* its caller m64th_c_linenoise (c/c_liblinenoise.c): the line, what is on *)
(* the screen, completion with TAB, and the history.                       *)
(*                                                                         *)
(* A key stands for all the byte sequences that do the same. Hints, single *)
(* line mode, the history file and linenoiseHistorySetMaxLen are not used  *)
(* by m64th.                                                               *)
EXTENDS Terminal, Integers, SequencesExt, Functions

CONSTANTS
    Letters, NonAscii,  \* isAlphaOrDigit(): ASCII letters and digits, others
    Signs,              \* the other printable characters, space excluded
    BufLen,             \* size of the caller's buffer
    Prompt,             \* length of the prompt
    HistoryMaxLen,
    Words               \* the names in the dictionary, sorted

Space == " "
AlphaOrDigit == Letters \cup NonAscii
Chars == AlphaOrDigit \cup Signs \cup {Space}
Nul == "nul"
Leftover == "?"         \* what the buffer has in it at first
Limit == BufLen - 1     \* l.buflen

ASSUME BufLenAssumption == BufLen \in Nat \ {0, 1}
ASSUME HistoryAssumption == HistoryMaxLen \in Nat \ {0}
ASSUME PromptAssumption == Prompt \in 0 .. Cols - 1
ASSUME WordsAssumption == Words \in Seq(Seq(Chars))
ASSUME CharsAssumption == {Nul, Leftover, Nothing, ">"} \cap Chars = {}
(* a full line, and the row below it, can be seen whole (see Terminal)     *)
ASSUME TallAssumption == (Prompt + Limit) \div Cols + 2 <= Height

VARIABLES
    tty,          \* standard input is a terminal that can edit lines
    rawmode,      \* the terminal is in raw mode: a line is being edited
    st,           \* linenoiseState, with the history and the screen
    completions,  \* the completions offered, <<>> if none are
    shown,        \* the one shown; the line itself if past the last
    result,       \* what m64th_c_linenoise returned last
    overrun,      \* a key ran with the cursor past the end of the line
    spilled,      \* a completion was shown in more or fewer rows than the line
    began         \* history: [hist, moved, typed], see Start and HistoryKey

vars == <<tty, rawmode, st, completions, shown, result, overrun, spilled, began>>

-----------------------------------------------------------------------------
(* The line. *)

Line(s) == [i \in 1 .. s.len |-> s.buf[i - 1]]
Offsets == 0 .. BufLen - 1
(* the C string in a buffer *)
CString(b) ==
    LET n == Min({i \in Offsets : b[i] = Nul}) IN [i \in 1 .. n |-> b[i - 1]]

(* memmove *)
Memmove(b, to, from, n) ==
    [i \in Offsets |->
        IF i \notin to .. to + n - 1 THEN b[i]
        ELSE IF from + i - to \in Offsets THEN b[from + i - to] ELSE Leftover]

(* abAppendInputAndCompletion: the completion hides its stem *)
NoCompletion == [stem |-> 0, word |-> <<>>]
InputAndCompletion(s, c) ==
    LET from == s.pos - c.stem
        line == Line(s)
    IN IF c.word = <<>> THEN [text |-> line, cursor |-> s.pos]
       ELSE [text |-> SubSeq(line, 1, from) \o c.word \o SubSeq(line, s.pos + 1, s.len),
             cursor |-> from + Len(c.word)]

RowsOf(n) == (n + Cols - 1) \div Cols

(* refreshMultiLine *)
PromptText == [i \in 1 .. Prompt |-> ">"]
Less(a, b) == IF a > b THEN a - b ELSE 0
RefreshFrom(s, c, oldpos) ==
    LET rows == RowsOf(Prompt + s.len)
        rpos == (Prompt + oldpos + Cols) \div Cols
        input == InputAndCompletion(s, c)
        down == Down(s.screen, Less(s.maxrows, rpos))
        clear == EraseUp(down, Less(s.maxrows, 1))
        written == Write(clear, PromptText \o input.text)
        atEdge == /\ input.cursor > 0 /\ input.cursor = s.len
                  /\ (input.cursor + Prompt) % Cols = 0
        below == IF atEdge THEN NextRow(written) ELSE written
        rows2 == IF atEdge THEN rows + 1 ELSE rows
        rpos2 == (Prompt + input.cursor + Cols) \div Cols
        up == Up(below, Less(rows2, rpos2))
    IN [s EXCEPT !.screen = ToColumn(up, (Prompt + input.cursor) % Cols),
                 !.maxrows = Max({s.maxrows, rows2}), !.oldpos = s.pos]
RefreshFromPos(s, c) == RefreshFrom(s, c, s.pos)
RefreshMultiLine(s, c) == RefreshFrom(s, c, s.oldpos)
Refresh(s) == IF spilled THEN s ELSE RefreshMultiLine(s, NoCompletion)

Put(s, b, n, p) == Refresh([s EXCEPT !.buf = b, !.len = n, !.pos = p])
MoveTo(s, p) == IF p = s.pos THEN s ELSE Refresh([s EXCEPT !.pos = p])

-----------------------------------------------------------------------------
(* The keys that edit. *)

(* editInsert leaves room for ENTER *)
InsertOver(s, c) ==
    IF s.len + 1 >= Limit THEN s
    ELSE Put(s, [s.buf EXCEPT ![s.pos] = c, ![s.len + 1] = Nul], s.len + 1, s.pos + 1)
Insert(s, c) ==
    LET b == Memmove(s.buf, s.pos + 1, s.pos, s.len - s.pos)
    IN IF s.len + 1 >= Limit THEN s
       ELSE Put(s, [b EXCEPT ![s.pos] = c, ![s.len + 1] = Nul], s.len + 1, s.pos + 1)

Delete(s) ==
    LET b == Memmove(s.buf, s.pos, s.pos + 1, s.len - s.pos - 1)
    IN IF s.pos >= s.len THEN s ELSE Put(s, [b EXCEPT ![s.len - 1] = Nul], s.len - 1, s.pos)

Backspace(s) ==
    LET b == Memmove(s.buf, s.pos - 1, s.pos, s.len - s.pos)
    IN IF s.pos = 0 \/ s.len = 0 THEN s
       ELSE Put(s, [b EXCEPT ![s.len - 1] = Nul], s.len - 1, s.pos - 1)

MoveLeft(s) == MoveTo(s, Less(s.pos, 1))
MoveRight(s) == MoveTo(s, IF s.pos # s.len THEN s.pos + 1 ELSE s.pos)
MoveHome(s) == MoveTo(s, 0)
MoveEnd(s) == MoveTo(s, s.len)

(* the first offset from p on with a character of a set or without one,    *)
(* and the last up to p that follows one                                   *)
Skip(s, p, chars) == Min({s.len} \cup {i \in p .. s.len - 1 : s.buf[i] \notin chars})
SkipBack(s, p, chars) == Max({0} \cup {i \in 1 .. p : s.buf[i - 1] \notin chars})
NextWord(s) == Skip(s, Skip(s, s.pos, Chars \ AlphaOrDigit), AlphaOrDigit)
PrevWord(s) == SkipBack(s, SkipBack(s, s.pos, Chars \ AlphaOrDigit), AlphaOrDigit)

MoveNextWord(s) == IF s.pos < s.len THEN Refresh([s EXCEPT !.pos = NextWord(s)]) ELSE s
MovePrevWord(s) == IF s.pos # 0 THEN Refresh([s EXCEPT !.pos = PrevWord(s)]) ELSE s

(* editDeleteNextWord, editDeletePrevWord: they move the terminator too *)
DeleteNextWordUpToNul(s) ==
    LET n == NextWord(s) - s.pos
    IN IF n = 0 THEN s
       ELSE Put(s, Memmove(s.buf, s.pos, s.pos + n, s.len - s.pos - n), s.len - n, s.pos)
DeleteNextWord(s) ==
    LET n == NextWord(s) - s.pos
    IN IF n = 0 THEN s
       ELSE Put(s, Memmove(s.buf, s.pos, s.pos + n, s.len - s.pos + 1), s.len - n, s.pos)
DeletePrevWord(s) ==
    LET n == s.pos - PrevWord(s)
    IN IF n = 0 THEN s
       ELSE Put(s, Memmove(s.buf, s.pos - n, s.pos, s.len - s.pos + 1), s.len - n, s.pos - n)

DeleteToEnd(s) == Put(s, [s.buf EXCEPT ![s.pos] = Nul], s.pos, s.pos)
DeleteAll(s) == Put(s, [s.buf EXCEPT ![0] = Nul], 0, 0)
Transpose(s) ==
    IF s.pos = 0 \/ s.pos >= s.len THEN s
    ELSE Put(s, [s.buf EXCEPT ![s.pos - 1] = s.buf[s.pos], ![s.pos] = s.buf[s.pos - 1]],
             s.len, IF s.pos # s.len - 1 THEN s.pos + 1 ELSE s.pos)
ClearScreen(s) == Refresh([s EXCEPT !.screen = BlankScreen(0), !.top = 0])

(* editHistoryNext: the line is saved, then the entry copied, as strncpy   *)
(* does, and cut to leave room for ENTER                                   *)
NotSaved(s) == s
Saved(s) == [s EXCEPT !.hist[Len(s.hist) - s.index] = CString(s.buf)]
HistoryNext(s, dir) ==
    LET n == Len(s.hist)
        saved == Saved(s)
        index == s.index + dir
        entry == saved.hist[n - index]
        copy == [i \in Offsets |->
                   IF i >= Limit THEN s.buf[i]
                   ELSE IF i < Len(entry) /\ i # Limit - 1 THEN entry[i + 1] ELSE Nul]
        length == Len(CString(copy))
    IN IF n <= 1 THEN s
       ELSE IF index \notin 0 .. n - 1 THEN saved
       ELSE Put([saved EXCEPT !.index = index], copy, length, length)

(* linenoiseEdit: what a key does that neither ends the line nor completes *)
NamedKeys ==
    {"left", "right", "home", "end", "next word", "previous word", "delete", "backspace",
     "delete next word", "delete previous word", "^K", "^U", "^T", "^L", "up", "down"}
ASSUME KeysAssumption == NamedKeys \cap Chars = {}
Keys == Chars \cup NamedKeys
Edit(s, k) ==
    CASE k \in Chars -> Insert(s, k)
      [] k = "left" -> MoveLeft(s)
      [] k = "right" -> MoveRight(s)
      [] k = "home" -> MoveHome(s)
      [] k = "end" -> MoveEnd(s)
      [] k = "next word" -> MoveNextWord(s)
      [] k = "previous word" -> MovePrevWord(s)
      [] k = "delete" -> Delete(s)
      [] k = "backspace" -> Backspace(s)
      [] k = "delete next word" -> DeleteNextWord(s)
      [] k = "delete previous word" -> DeletePrevWord(s)
      [] k = "^K" -> DeleteToEnd(s)
      [] k = "^U" -> DeleteAll(s)
      [] k = "^T" -> Transpose(s)
      [] k = "^L" -> ClearScreen(s)
      [] k = "up" -> HistoryNext(s, 1)
      [] k = "down" -> HistoryNext(s, -1)

-----------------------------------------------------------------------------
(* Completion. *)

(* m64th_c_complete_word: the stem is what follows the last blank *)
Stem(s) ==
    LET from == Max({0} \cup {i \in 1 .. s.pos : s.buf[i - 1] = Space})
    IN SubSeq(Line(s), from + 1, s.pos)

(* the elements of a sequence that are in a set, in order *)
Selected(seq, S) ==
    LET kept[i \in Nat] ==
            IF i = 0 THEN <<>>
            ELSE IF seq[i] \in S THEN Append(kept[i - 1], seq[i]) ELSE kept[i - 1]
    IN  kept[Len(seq)]

Completions(stem) == Selected(Words, {w \in Range(Words) : IsPrefix(stem, w) /\ w # stem})

(* completeLine: the completion shown, if any, and the line that accepts it *)
Completion(s, lc, i) ==
    IF i \notin DOMAIN lc THEN NoCompletion ELSE [stem |-> Len(Stem(s)), word |-> lc[i]]
Accept(s, lc, i) ==
    LET input == InputAndCompletion(s, Completion(s, lc, i))
        n == Min({Limit, Len(input.text)})
    IN IF i \notin DOMAIN lc THEN s
       ELSE [s EXCEPT !.buf = [k \in Offsets |-> IF k < n THEN input.text[k + 1]
                                                 ELSE IF k = n THEN Nul ELSE s.buf[k]],
                      !.len = n, !.pos = input.cursor]

(* it takes more rows than the line, puts the cursor in another row, or is *)
(* cut to fit the buffer                                                   *)
Spills(s, c) ==
    LET input == InputAndCompletion(s, c)
    IN \/ Len(input.text) > Limit
       \/ RowsOf(Prompt + Len(input.text)) # RowsOf(Prompt + s.len)
       \/ (Prompt + input.cursor) \div Cols # (Prompt + s.pos) \div Cols
       \/ (Prompt + s.len) % Cols = 0

Show(lc, i) ==
    LET c == Completion(st, lc, i)
    IN /\ completions' = lc
       /\ shown' = i
       /\ spilled' = (spilled \/ Spills(st, c))
       /\ st' = IF spilled'
                THEN [st EXCEPT !.screen = BlankScreen(0), !.maxrows = 0, !.oldpos = 0, !.top = 0]
                ELSE RefreshMultiLine(st, c)
       /\ UNCHANGED <<tty, rawmode, result, overrun, began>>

Tab ==
    /\ rawmode /\ completions = <<>>
    /\ IF Completions(Stem(st)) # <<>> THEN Show(Completions(Stem(st)), 1)
       ELSE UNCHANGED vars

NextCompletion ==
    /\ rawmode /\ completions # <<>>
    /\ Show(completions, (shown % (Len(completions) + 1)) + 1)

(* the state a key other than TAB finds: it accepts the completion first *)
Input == Accept(st, completions, shown)
NoMoreCompletions == completions' = <<>> /\ shown' = 1

-----------------------------------------------------------------------------
(* The history. *)

HistoryAddOverNewest(h, line) ==
    IF h # <<>> /\ Last(h) = line THEN h
    ELSE Append(IF Len(h) = HistoryMaxLen THEN Front(h) ELSE h, line)
HistoryAdd(h, line) ==
    IF h # <<>> /\ Last(h) = line THEN h
    ELSE Append(IF Len(h) = HistoryMaxLen THEN Tail(h) ELSE h, line)
WithoutScratch(h) == Front(h)

-----------------------------------------------------------------------------
(* m64th_c_linenoise: a line is read. *)

EmptyBuffer == [i \in Offsets |-> IF i = 0 THEN Nul ELSE Leftover]
Prompted(h, top) ==
    [buf |-> EmptyBuffer, len |-> 0, pos |-> 0, oldpos |-> 0, maxrows |-> 0, index |-> 0,
     hist |-> h, top |-> top, screen |-> Write(BlankScreen(top), PromptText)]

Success(n) == [n |-> n, err |-> "none"]
Failure(e) == [n |-> 0, err |-> IF e # "none" THEN e ELSE "eof"]

(* linenoise: a line can be read and edited, or just read *)
CanRead(editing) == ~rawmode /\ ~overrun /\ tty = editing

EnableRawMode == rawmode' = TRUE
DisableRawMode == rawmode' = FALSE

(* linenoiseEdit: the line is the newest entry of the history *)
Start ==
    /\ CanRead(TRUE)
    /\ EnableRawMode
    /\ st' = Prompted(HistoryAdd(st.hist, <<>>), 1)
    /\ NoMoreCompletions
    /\ spilled' = FALSE
    /\ began' = [hist |-> st.hist, moved |-> FALSE, typed |-> <<>>]
    /\ result' = Success(0)
    /\ UNCHANGED <<tty, overrun>>

(* linenoiseRaw: raw mode is left, with the history h and the result r *)
Finish(h, r) ==
    /\ DisableRawMode
    /\ st' = Prompted(h, 0)
    /\ result' = r
    /\ NoMoreCompletions
    /\ UNCHANGED <<tty, overrun, spilled, began>>

(* the prompt cannot be written; the entry of the line stays *)
NoPrompt ==
    /\ CanRead(TRUE)
    /\ Finish(HistoryAdd(st.hist, <<>>), Failure("EIO"))

(* a key that edits; a line of which the cursor is past the end is lost *)
Key ==
    /\ rawmode /\ Input.pos <= Input.len
    /\ \E k \in Keys \ ({"up", "down"} \cup IF completions # <<>> THEN NonAscii ELSE {}) :
         st' = Edit(Input, k)
    /\ NoMoreCompletions
    /\ UNCHANGED <<tty, rawmode, result, overrun, spilled, began>>

HistoryKey ==
    /\ rawmode /\ Input.pos <= Input.len
    /\ \E k \in {"up", "down"} : st' = Edit(Input, k)
    /\ began' = [hist |-> <<>>, moved |-> TRUE,
                  typed |-> IF st'.index = 0 THEN <<>>
                            ELSE IF st.index = 0 THEN Line(Input) ELSE began.typed]
    /\ NoMoreCompletions
    /\ UNCHANGED <<tty, rawmode, result, overrun, spilled>>

(* the byte 0 accepts a completion and does nothing else *)
AcceptCompletion ==
    /\ rawmode /\ completions # <<>>
    /\ Input.pos <= Input.len
    /\ st' = Input
    /\ NoMoreCompletions
    /\ UNCHANGED <<tty, rawmode, result, overrun, spilled, began>>

KeyPastEnd ==
    /\ rawmode /\ Input.pos > Input.len
    /\ overrun' = TRUE /\ rawmode' = FALSE
    /\ UNCHANGED <<tty, st, completions, shown, result, spilled, began>>

Enter ==
    /\ rawmode
    /\ LET s == MoveEnd(Input)
       IN Finish(HistoryAdd(WithoutScratch(s.hist), CString(s.buf)), Success(s.len))

(* control-D on an empty line; on another it is the key delete *)
CtrlD ==
    /\ rawmode /\ Input.len = 0
    /\ Finish(WithoutScratch(Input.hist), Failure("none"))

CtrlC == rawmode /\ Finish(Input.hist, Failure("EAGAIN"))

(* read() fails or finds the end of the input. A byte that is not ASCII is *)
(* negative, which completeLine's caller takes for such a failure.         *)
ReadFails ==
    /\ rawmode
    /\ \E s \in {st} \cup (IF completions # <<>> /\ NonAscii # {} THEN {Input} ELSE {}) :
         Finish(HistoryAdd(s.hist, CString(s.buf)), Success(s.len))

(* linenoiseFgets: standard input is not a terminal that can edit lines; at *)
(* the end of the input errno is what an earlier call left, as isatty()     *)
Fgets ==
    /\ CanRead(FALSE)
    /\ \/ \E c \in AlphaOrDigit : Finish(HistoryAdd(st.hist, <<c>>), Success(1))
       \/ \E errno \in {"none", "ENOTTY"} : Finish(st.hist, Failure(errno))

Init ==
    /\ tty \in BOOLEAN /\ rawmode = FALSE
    /\ st = Prompted(<<>>, 0)
    /\ completions = <<>> /\ shown = 1
    /\ result = Success(0)
    /\ overrun = FALSE /\ spilled = FALSE
    /\ began = [hist |-> <<>>, moved |-> FALSE, typed |-> <<>>]

Next ==
    \/ Start \/ NoPrompt \/ Key \/ HistoryKey \/ Tab \/ NextCompletion \/ AcceptCompletion
    \/ KeyPastEnd \/ Enter \/ CtrlD \/ CtrlC \/ ReadFails \/ Fgets

Spec == Init /\ [][Next]_vars

-----------------------------------------------------------------------------
(* Properties. *)

(* Between two keys the cursor is in the line or at its end, the line ends *)
(* with the byte 0 where its length says, although every key moves the two *)
(* by itself, and the entry being edited is in the history. (A completion  *)
(* that does not fit the buffer leaves the cursor past the end of Input,   *)
(* which is why KeyPastEnd ends the model.)                                *)
LineIsString ==
    rawmode => /\ st.len = Len(CString(st.buf))
               /\ st.pos <= st.len
               /\ st.index < Len(st.hist)

(* types: linenoiseState, the history, and what is returned *)
TypeOK ==
    /\ {tty, rawmode, overrun, spilled, began.moved} \subseteq BOOLEAN
    /\ st.buf \in [Offsets -> Chars \cup {Nul, Leftover}]
    /\ st.len \in 0 .. Limit /\ st.pos \in Nat /\ st.oldpos \in Nat /\ st.maxrows \in Nat
    /\ st.index \in Nat
    /\ Len(st.hist) <= HistoryMaxLen
    /\ \A i \in DOMAIN st.hist : Len(st.hist[i]) <= Limit
    /\ shown \in 1 .. Len(completions) + 1
    /\ result.n \in 0 .. Limit
    /\ LineIsString

(* What is seen is the prompt and the line, or the line as completed, with *)
(* the cursor where it is in it, and nothing else: the rows erased and the *)
(* distances moved, computed from the previous refresh, add up, whatever   *)
(* the keys before. Not if a completion took more or fewer rows than the   *)
(* line, which the code does not count.                                    *)
ScreenShowsLine ==
    rawmode /\ ~spilled =>
        LET input == InputAndCompletion(st, Completion(st, completions, shown))
        IN /\ st.screen.cells = CellsOf(st.top, PromptText \o input.text)
           /\ st.screen.row = st.top + ((Prompt + input.cursor) \div Cols)
           /\ st.screen.col = (Prompt + input.cursor) % Cols

(* Going up in the history and back down gives the line that was typed,    *)
(* but for a character too many if a completion had filled the buffer.     *)
RecallsTyped ==
    [][(rawmode /\ rawmode' /\ st.index = 1 /\ st'.index = 0) =>
         Line(st') = SubSeq(began.typed, 1, Min({Limit - 1, Len(began.typed)}))]_vars

(* However a line ends, the lines of the history that are not empty stay,  *)
(* in order, but for the oldest ones there is no room for, counting the    *)
(* line being edited and the one that is added; and a line the user ended  *)
(* with ENTER is the newest. Unless the user went through the history,     *)
(* which edits it.                                                         *)
NotEmpty(h) == Selected(h, Seq(Chars) \ {<<>>})
Dropped(h) == {SubSeq(h, k + 1, Len(h)) : k \in 0 .. Less(Len(h) + 2, HistoryMaxLen)}
HistoryKept ==
    [][(rawmode /\ ~rawmode' /\ ~overrun' /\ ~began.moved) =>
         /\ \E h \in Dropped(began.hist) : IsPrefix(NotEmpty(h), NotEmpty(st'.hist))
         /\ (result'.err = "none" /\ Line(st) # <<>> /\ completions = <<>>) =>
               Last(st'.hist) = Line(st)]_vars

-----------------------------------------------------------------------------
(* The inductive invariant. *)

Kinds(s) ==
    s \in [buf : [Offsets -> Chars \cup {Nul, Leftover}], len : 0 .. Limit, pos : Nat,
          oldpos : Nat, maxrows : Nat, index : Nat, hist : Seq(Seq(Chars)), top : Nat,
          screen : {s.screen}]

(* the first n characters of b are a C string *)
EndsAt(b, n) == b[n] = Nul /\ \A i \in 0 .. n - 1 : b[i] \in Chars

HistoryFits(h) == Len(h) <= HistoryMaxLen /\ \A i \in DOMAIN h : Len(h[i]) <= Limit

(* a line as every key but TAB finds it, its cursor apart, and leaves it *)
IsLine(s) ==
    /\ Kinds(s) /\ EndsAt(s.buf, s.len)
    /\ HistoryFits(s.hist) /\ s.index < Len(s.hist)
Editable(s) == IsLine(s) /\ s.pos <= s.len

(* The invariant that the keys preserve: TypeOK follows from it.           *)
IInv ==
    /\ {tty, rawmode, overrun, spilled, began.moved} \subseteq BOOLEAN
    /\ Kinds(st) /\ HistoryFits(st.hist)
    /\ rawmode => Editable(st)
    /\ completions \in Seq(Range(Words))
    /\ shown \in 1 .. Len(completions) + 1
    /\ result.n \in 0 .. Limit

(* while an older line is edited, the one that was typed is in the history *)
TypedSaved == rawmode /\ st.index # 0 => st.hist[Len(st.hist)] = began.typed

(* until the user goes through it, the history is the one the line began   *)
(* with and the line being edited                                          *)
HistoryBegan == rawmode /\ ~began.moved => st.hist = HistoryAdd(began.hist, <<>>)

(* linenoise knows how much of the screen the line has taken, and in which *)
(* row it left the cursor                                                  *)
RowsUsed(s) == IF s.maxrows = 0 THEN 1 ELSE s.maxrows
NothingOutside(cells, first, last) ==
    \A x \in Rows, y \in Columns : x \notin first .. last => cells[<<x, y>>] = Nothing
Clearable(s) ==
    LET row == (Prompt + s.oldpos) \div Cols
    IN /\ s.top \in {0, 1}
       /\ s.maxrows <= (Prompt + Limit) \div Cols + 1
       /\ row < RowsUsed(s)
       /\ s.screen \in [cells : {s.screen.cells}, row : {s.top + row}, col : {s.screen.col}]
       /\ NothingOutside(s.screen.cells, s.top, s.top + RowsUsed(s) - 1)

(* a line is on the screen with a completion, which fits in the buffer *)
Shows(s, c) ==
    LET input == InputAndCompletion(s, c)
    IN /\ Len(input.text) <= Limit
       /\ s.screen.cells = CellsOf(s.top, PromptText \o input.text)
       /\ s.screen.row = s.top + ((Prompt + input.cursor) \div Cols)
       /\ s.screen.col = (Prompt + input.cursor) % Cols

ScreenKept ==
    rawmode /\ ~spilled => Clearable(st) /\ Shows(st, Completion(st, completions, shown))

(* every key edits the line at the cursor only (module EditedLine) *)
Edits == INSTANCE EditedLine
    WITH Words <- Range(Words), editing <- rawmode,
         before <- IF rawmode THEN SubSeq(Line(st), 1, st.pos) ELSE <<>>,
         after <- IF rawmode THEN SubSeq(Line(st), st.pos + 1, st.len) ELSE <<>>,
         recalled <- Range(st.hist)
EditsAtCursor == Edits!Spec
=============================================================================
