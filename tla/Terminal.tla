------------------------------ MODULE Terminal ------------------------------
(* The terminal linenoise writes to: an ANSI terminal Cols wide that wraps  *)
(* a line only when a character follows the one in the last column, as     *)
(* linenoise/linenoise.c expects of it, and tall enough not to scroll.     *)
EXTENDS Naturals, Sequences, FiniteSetsExt

CONSTANTS Cols, Height

ASSUME ColsAssumption == Cols \in Nat \ {0, 1}
ASSUME HeightAssumption == Height \in Nat \ {0}

Nothing == "nothing"
Rows == 0 .. Height - 1
Columns == 0 .. Cols - 1

(* a screen: its cells and the cursor; col = Cols is a pending wrap *)
BlankCells == [rc \in Rows \X Columns |-> Nothing]
BlankScreen(top) == [cells |-> BlankCells, row |-> top, col |-> 0]

(* where a text that starts at the left of row top is shown *)
CellsOf(top, text) ==
    [rc \in Rows \X Columns |->
        LET i == (rc[1] - top) * Cols + rc[2] + 1
        IN IF rc[1] >= top /\ i \in DOMAIN text THEN text[i] ELSE Nothing]

PutChar(t, c) ==
    LET wrap == t.col = Cols
        row == IF wrap THEN Min({t.row + 1, Height - 1}) ELSE t.row
        col == IF wrap THEN 0 ELSE t.col
    IN [cells |-> [t.cells EXCEPT ![<<row, col>>] = c], row |-> row, col |-> col + 1]

Write(t, text) ==
    LET written[i \in 0 .. Len(text)] ==
            IF i = 0 THEN t ELSE PutChar(written[i - 1], text[i])
    IN  written[Len(text)]

NextRow(t) == [t EXCEPT !.row = Min({t.row + 1, Height - 1}), !.col = 0]

(* ESC [ n B, ESC [ n A, and ESC [ n C after a carriage return *)
Down(t, n) == [t EXCEPT !.row = Min({t.row + n, Height - 1})]
Up(t, n) == [t EXCEPT !.row = IF n > t.row THEN 0 ELSE t.row - n]
ToColumn(t, n) == [t EXCEPT !.col = n]

(* n times: erase the row and go up; then erase one more row *)
EraseUp(t, n) ==
    LET u == Up(t, n)
    IN [cells |-> [rc \in Rows \X Columns |->
                     IF rc[1] \in u.row .. t.row THEN Nothing ELSE t.cells[rc]],
        row |-> u.row, col |-> 0]
=============================================================================
