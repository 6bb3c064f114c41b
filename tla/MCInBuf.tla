------------------------------- MODULE MCInBuf -------------------------------
(* InBuf with a buffer of 3 characters: as files, all the texts up to 5    *)
(* characters and those of 6 without spaces, which are blanks as newlines  *)
(* are; as typed input, all up to 5 characters whose lines fit the buffer. *)
EXTENDS InBuf

Strings(chars, n) == UNION {[1 .. m -> chars] : m \in 0 .. n}

MCTexts == Strings(Chars, 5) \cup Strings({"\n", "\"", "x"}, 6)
MCTyped ==
    {t \in Strings(Chars, 5) :
        \A i \in 1 .. Len(t) - 2 : "\n" \in {t[i], t[i + 1], t[i + 2]}}
=============================================================================
