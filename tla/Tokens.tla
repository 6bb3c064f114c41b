------------------------------- MODULE Tokens -------------------------------
(***************************************************************************)
(* What the tokens of the virtual machine compute: generic_asm/arith.S,    *)
(* amd64/arith.S and generic_asm/loop.S, one entry per FUNC.  A cell has   *)
(* CellBits bits and is read as a signed number; the code has 64.  Stacks  *)
(* are sequences with the top last.  Tokens have their names in token.h.   *)
(***************************************************************************)
EXTENDS Integers, Sequences, Bitwise

CONSTANT CellBits          \* bits of a cell; 8SZ in the code
ASSUME CellBitsAssumption == CellBits \in {8, 16}   \* a power of two; squares must fit TLC's integers

SZ == 8                    \* sizeof(m6cell), for cells, cell+, aligned
SZt == 2                   \* sizeof(m6token)
MinCell == -(2^(CellBits - 1))
MaxCell == 2^(CellBits - 1) - 1

\* The cell that register arithmetic leaves of the number n, and a cell read
\* as an unsigned number.
Cell(n) == ((n - MinCell) % 2^CellBits) + MinCell
U(x) == x % 2^CellBits
Flag(b) == IF b THEN -1 ELSE 0

\* The low bits of a cell, sign-extended (movsx) or not (movzx).  A width of
\* CellBits or more keeps the cell.
LowUnsigned(x, bits) == IF bits >= CellBits THEN x ELSE x % 2^bits
LowSigned(x, bits) ==
  IF bits >= CellBits THEN x ELSE ((x + 2^(bits - 1)) % 2^bits) - 2^(bits - 1)

-----------------------------------------------------------------------------
Magnitude(x) == IF x < 0 THEN -x ELSE x

\* Signed division, idiv: the quotient is rounded toward zero and the
\* remainder has the sign of the dividend.  It traps on a divisor of zero and
\* on a quotient that is not a cell.
Quotient(x, y) ==
  IF (x < 0) = (y < 0) THEN Magnitude(x) \div Magnitude(y)
                       ELSE -(Magnitude(x) \div Magnitude(y))
FlooredRemainder(x, y) == IF y < 0 THEN -((-x) % (-y)) ELSE x % y   \* mutation of Remainder: floored
Remainder(x, y) == x - y * Quotient(x, y)
Traps(x, y) == y = 0 \/ (x = MinCell /\ y = -1)

\* Division by 2, 4, 8 with shifts: floored (sar) and symmetric (an addend of
\* n - 1 if negative, then sar).
FlooredDiv(x, n) == x \div n
FlooredForSymmetric(x, n) == x \div n   \* mutation of SymmetricDiv: the addend forgotten
SymmetricDiv(x, n) == IF x < 0 THEN (x + n - 1) \div n ELSE x \div n

\* shl, shr: the count is taken modulo the bits of a cell.
LShift(x, n) == Cell(x * 2^(n % CellBits))
RShift(x, n) == Cell(U(x) \div 2^(n % CellBits))

Aligned(x, n) == Cell(x + n - 1) - (Cell(x + n - 1) % n)

-----------------------------------------------------------------------------
\* Tokens that push a constant.
Literals ==
  [ minus_two |-> -2, minus_one |-> -1, zero |-> 0, one |-> 1, two |-> 2, three |-> 3,
    four |-> 4, five |-> 5, six |-> 6, seven |-> 7, eight |-> 8, sixteen |-> 16,
    bl |-> 32, false |-> 0, true |-> -1,
    lit_255 |-> 255, lit_256 |-> 256 ]          \* (lit) with its operand

\* Tokens that only move cells: how many they take from the data stack and from
\* the return stack, and which of these they leave on each, numbered from the
\* deepest data cell to the top of the return stack.
Move(dn, rn, dOut, rOut) == [dn |-> dn, rn |-> rn, dOut |-> dOut, rOut |-> rOut]
OnData(dn, dOut) == Move(dn, 0, dOut, <<>>)

Moves ==
  [ noop |-> OnData(0, <<>>), begin |-> OnData(0, <<>>), case |-> OnData(0, <<>>), endcase |-> OnData(1, <<>>),
    then |-> OnData(0, <<>>), chars |-> OnData(0, <<>>), bytes |-> OnData(0, <<>>),
    drop |-> OnData(1, <<>>), dup |-> OnData(1, <<1, 1>>),
    swap |-> OnData(2, <<2, 1>>), over |-> OnData(2, <<1, 2, 1>>), nip |-> OnData(2, <<2>>),
    tuck |-> OnData(2, <<2, 1, 2>>), trail |-> OnData(2, <<1, 1, 2>>),
    rot |-> OnData(3, <<2, 3, 1>>), minus_rot |-> OnData(3, <<3, 1, 2>>),
    flip |-> OnData(3, <<3, 2, 1>>), hop |-> OnData(3, <<1, 2, 3, 1>>),
    two_drop |-> OnData(2, <<>>), two_dup |-> OnData(2, <<1, 2, 1, 2>>),
    two_nip |-> OnData(4, <<3, 4>>), two_over |-> OnData(4, <<1, 2, 3, 4, 1, 2>>),
    two_swap |-> OnData(4, <<3, 4, 1, 2>>), two_tuck |-> OnData(4, <<3, 4, 1, 2, 3, 4>>),
    two_rot |-> OnData(6, <<3, 4, 5, 6, 1, 2>>), minus_two_rot |-> OnData(6, <<5, 6, 1, 2, 3, 4>>),
    to_r |-> Move(1, 0, <<>>, <<1>>), dup_to_r |-> Move(1, 0, <<1>>, <<1>>),
    two_to_r |-> Move(2, 0, <<>>, <<1, 2>>), two_dup_two_to_r |-> Move(2, 0, <<1, 2>>, <<1, 2>>),
    do |-> Move(2, 0, <<>>, <<1, 2>>),
    r_from |-> Move(0, 1, <<1>>, <<>>), two_r_from |-> Move(0, 2, <<1, 2>>, <<>>),
    r_from_drop |-> Move(0, 1, <<>>, <<>>), two_r_from_two_drop |-> Move(0, 2, <<>>, <<>>),
    unloop |-> Move(0, 2, <<>>, <<>>), r_store |-> Move(1, 1, <<>>, <<1>>),
    i |-> Move(0, 1, <<1>>, <<1>>), r_fetch |-> Move(0, 1, <<1>>, <<1>>),
    i_prime |-> Move(0, 2, <<1>>, <<1, 2>>), r2nd_fetch |-> Move(0, 2, <<1>>, <<1, 2>>),
    j |-> Move(0, 3, <<1>>, <<1, 2, 3>>), two_r_fetch |-> Move(0, 2, <<1, 2>>, <<1, 2>>) ]

-----------------------------------------------------------------------------
\* Tokens that replace the top of the data stack.
Unary ==
  [ negate |-> [x \in Int |-> Cell(-x)], invert |-> [x \in Int |-> -1 - x],
    abs |-> [x \in Int |-> IF x < 0 THEN Cell(-x) ELSE x],
    squared |-> [x \in Int |-> Cell(x * x)],
    one_plus |-> [x \in Int |-> Cell(x + 1)], one_minus |-> [x \in Int |-> Cell(x - 1)],
    two_plus |-> [x \in Int |-> Cell(x + 2)], two_minus |-> [x \in Int |-> Cell(x - 2)],
    four_plus |-> [x \in Int |-> Cell(x + 4)], four_minus |-> [x \in Int |-> Cell(x - 4)],
    eight_plus |-> [x \in Int |-> Cell(x + 8)], eight_minus |-> [x \in Int |-> Cell(x - 8)],
    two_times |-> [x \in Int |-> Cell(x * 2)], four_times |-> [x \in Int |-> Cell(x * 4)],
    eight_times |-> [x \in Int |-> Cell(x * 8)],
    two_div |-> [x \in Int |-> FlooredDiv(x, 2)], four_div |-> [x \in Int |-> FlooredDiv(x, 4)],
    eight_div |-> [x \in Int |-> FlooredDiv(x, 8)],
    two_sm_div |-> [x \in Int |-> SymmetricDiv(x, 2)],
    four_sm_div |-> [x \in Int |-> SymmetricDiv(x, 4)],
    eight_sm_div |-> [x \in Int |-> SymmetricDiv(x, 8)],
    u_two_div |-> [x \in Int |-> RShift(x, 1)], u_four_div |-> [x \in Int |-> RShift(x, 2)],
    u_eight_div |-> [x \in Int |-> RShift(x, 3)],
    eight_lshift |-> [x \in Int |-> LShift(x, 8)], eight_rshift |-> [x \in Int |-> RShift(x, 8)],
    zero_less |-> [x \in Int |-> Flag(x < 0)], zero_less_equal |-> [x \in Int |-> Flag(x <= 0)],
    zero_ne |-> [x \in Int |-> Flag(x # 0)], zero_equal |-> [x \in Int |-> Flag(x = 0)],
    zero_more |-> [x \in Int |-> Flag(x > 0)], zero_more_equal |-> [x \in Int |-> Flag(x >= 0)],
    short_aligned |-> [x \in Int |-> Aligned(x, 2)], int_aligned |-> [x \in Int |-> Aligned(x, 4)],
    aligned |-> [x \in Int |-> Aligned(x, SZ)],
    to_byte |-> [x \in Int |-> LowSigned(x, 8)], to_char |-> [x \in Int |-> LowUnsigned(x, 8)],
    to_short |-> [x \in Int |-> LowSigned(x, 16)], to_ushort |-> [x \in Int |-> LowUnsigned(x, 16)] ]

\* Other names of these tokens (include/token_alias.h, func_alias.mh).
Alias ==
  [ byte_plus |-> "one_plus", char_plus |-> "one_plus", short_plus |-> "two_plus",
    ushort_plus |-> "two_plus", token_plus |-> "two_plus", int_plus |-> "four_plus",
    uint_plus |-> "four_plus", cell_plus |-> "eight_plus", _SZ_plus |-> "eight_plus",
    shorts |-> "two_times", ushorts |-> "two_times", tokens |-> "two_times",
    ints |-> "four_times", uints |-> "four_times", cells |-> "eight_times",
    _SZ_times |-> "eight_times", div_short |-> "two_div", div_ushort |-> "two_div",
    div_token |-> "two_div", div_int |-> "four_div", div_uint |-> "four_div",
    div_cell |-> "eight_div", div_byte |-> "noop", div_char |-> "noop" ]
Canonical(t) == IF t \in DOMAIN Alias THEN Alias[t] ELSE t

-----------------------------------------------------------------------------
\* Tokens ( x y -- z ).
Binary ==
  [ plus |-> [x, y \in Int |-> Cell(x + y)], minus |-> [x, y \in Int |-> Cell(x - y)],
    sub |-> [x, y \in Int |-> Cell(y - x)], times |-> [x, y \in Int |-> Cell(x * y)],
    and |-> [x, y \in Int |-> Cell(U(x) & U(y))], or |-> [x, y \in Int |-> Cell(U(x) | U(y))],
    xor |-> [x, y \in Int |-> Cell(U(x) ^^ U(y))],
    max |-> [x, y \in Int |-> IF x > y THEN x ELSE y],
    min |-> [x, y \in Int |-> IF x < y THEN x ELSE y],
    lshift |-> [x, y \in Int |-> LShift(x, y)], rshift |-> [x, y \in Int |-> RShift(x, y)],
    less |-> [x, y \in Int |-> Flag(x < y)], less_equal |-> [x, y \in Int |-> Flag(x <= y)],
    ne |-> [x, y \in Int |-> Flag(x # y)], equal |-> [x, y \in Int |-> Flag(x = y)],
    more |-> [x, y \in Int |-> Flag(x > y)], more_equal |-> [x, y \in Int |-> Flag(x >= y)],
    u_less |-> [x, y \in Int |-> Flag(U(x) < U(y))],
    u_less_equal |-> [x, y \in Int |-> Flag(U(x) <= U(y))],
    u_more |-> [x, y \in Int |-> Flag(U(x) > U(y))],
    u_more_equal |-> [x, y \in Int |-> Flag(U(x) >= U(y))] ]

\* Tokens ( x y z -- .. ): choose takes x if the flag z is true; within compares
\* unsigned differences, so that it serves signed and unsigned ranges.
Ternary ==
  [ choose |-> [x, y, z \in Int |-> <<IF z # 0 THEN x ELSE y>>],
    within |-> [x, lo, hi \in Int |-> <<Flag(U(Cell(x - lo)) < U(Cell(hi - lo)))>>],
    div_string |-> [a, u, n \in Int |-> <<Cell(a + n), Cell(u - n)>>] ]

\* Tokens ( x y -- .. ) with two results; ?dup has one or two.
Pairs == [ bounds |-> [a, u \in Int |-> <<Cell(a + u), a>>] ]
QuestionDup(x) == IF x = 0 THEN <<x>> ELSE <<x, x>>

\* Divisions: what they leave of the dividend and the divisor.
Divisions ==
  [ div |-> [x, y \in Int |-> <<Quotient(x, y)>>], mod |-> [x, y \in Int |-> <<Remainder(x, y)>>],
    div_mod |-> [x, y \in Int |-> <<Remainder(x, y), Quotient(x, y)>>] ]
UnsignedDivisions ==
  [ u_div |-> [x, y \in Int |-> <<Cell(U(x) \div U(y))>>],
    u_div_mod |-> [x, y \in Int |-> <<Cell(U(x) % U(y)), Cell(U(x) \div U(y))>>] ]

\* Tokens that use the top of the return stack i with the top of the data stack x.
WithI ==
  [ i_plus |-> [x, i \in Int |-> Cell(x + i)], i_minus |-> [x, i \in Int |-> Cell(x - i)],
    i_times |-> [x, i \in Int |-> Cell(x * i)] ]

\* Tokens ( xs u -- .. ) that reach u groups of k cells down: pick copies a
\* group, roll moves it to the top, -roll moves the top group down.
Top(s, n) == SubSeq(s, Len(s) - n + 1, Len(s))
Below(s, n) == SubSeq(s, 1, Len(s) - n)
Pick(s, u, k) == s \o SubSeq(s, Len(s) - k * u - k + 1, Len(s) - k * u)
Roll(s, u, k) == Below(s, k * (u + 1)) \o Top(s, k * u) \o SubSeq(s, Len(s) - k * u - k + 1, Len(s) - k * u)
MinusRoll(s, u, k) == Below(s, k * (u + 1)) \o Top(s, k) \o SubSeq(s, Len(s) - k * u - k + 1, Len(s) - k)
Reaching(t, s, u) ==
  CASE t = "pick" -> Pick(s, u, 1)
    [] t = "two_pick" -> Pick(s, u, 2)
    [] t = "roll" -> Roll(s, u, 1)
    [] t = "two_roll" -> Roll(s, u, 2)
    [] t = "minus_roll" -> MinusRoll(s, u, 1)
    [] t = "minus_two_roll" -> MinusRoll(s, u, 2)
    [] t = "n_to_drop" -> Below(s, u)
\* The cells that must be below u.
Reached(t, u) == CASE t = "n_to_drop" -> u
                   [] t \in {"two_pick", "two_roll", "minus_two_roll"} -> 2 * (u + 1)
                   [] OTHER -> u + 1
ReachingTokens == {"pick", "two_pick", "roll", "two_roll", "minus_roll", "minus_two_roll", "n_to_drop"}
=============================================================================
