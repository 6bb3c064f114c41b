----------------------------- MODULE EditedLine -----------------------------
(* What the user of linenoise/linenoise.c expects of a key: the line is    *)
(* the text before the cursor and the text after it, and a key changes it  *)
(* at the cursor only.                                                     *)
EXTENDS Naturals, Sequences, SequencesExt, FiniteSetsExt

CONSTANTS Chars, Words

VARIABLES editing, before, after, recalled

Place(l, r) == <<l, r>>

(* the cursor is elsewhere in the same text *)
Moved(l, r) ==
    LET t == l \o r
    IN {Place(SubSeq(t, 1, k), SubSeq(t, k + 1, Len(t))) : k \in 0 .. Len(t)}
Typed(l, r) == {Place(Append(l, c), r) : c \in Chars}
(* some of the text on one side of the cursor, next to it, or all of it *)
Erased(l, r) ==
    {Place(SubSeq(l, 1, k), r) : k \in 0 .. Len(l)}
        \cup {Place(l, SubSeq(r, k, Len(r))) : k \in 1 .. Len(r) + 1}
        \cup {Place(<<>>, <<>>)}
(* the characters around the cursor change places *)
Swapped(l, r) ==
    IF l = <<>> \/ r = <<>> THEN {}
    ELSE Moved(Append(Front(l), Head(r)), <<Last(l)>> \o Tail(r))
Edited(p) ==
    Moved(p[1], p[2]) \cup Typed(p[1], p[2]) \cup Erased(p[1], p[2]) \cup Swapped(p[1], p[2])

(* a word replaces the end of the text before the cursor, and the end of   *)
(* the text after it may be lost                                           *)
Completed(l, r) ==
    {Place(SubSeq(l, 1, k) \o w, SubSeq(r, 1, n)) :
        k \in 0 .. Len(l), w \in Words, n \in 0 .. Len(r)}

Init == ~editing /\ before = <<>> /\ after = <<>>

Begin == ~editing /\ editing' /\ before' = <<>> /\ after' = <<>>
Finish == editing /\ ~editing'
Key ==
    /\ editing /\ editing'
    /\ \E p \in {Place(before, after)} \cup Completed(before, after) :
         Place(before', after') \in {p} \cup Edited(p)
History == editing /\ editing' /\ after' = <<>> /\ \E h \in recalled : IsPrefix(before', h)

Next == Begin \/ Finish \/ Key \/ History
Spec == Init /\ [][Next]_<<editing, before, after>>
=============================================================================
