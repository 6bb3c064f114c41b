------------------------------ MODULE MCLineEdit ------------------------------
(* LineEdit on a narrow screen: long lines without a history, and short    *)
(* lines with one.                                                         *)
EXTENDS LineEdit

MCWords == <<<<"a", "a">>, <<"a", "a", "a">>>>

CONSTANT HistoryChars  \* that the lines of the history have in all
Bound == FoldLeft(LAMBDA n, line : n + Len(line), 0, st.hist) <= HistoryChars
=============================================================================
