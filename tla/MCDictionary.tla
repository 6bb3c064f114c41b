---------------------------- MODULE MCDictionary ----------------------------
(* A name that the built-in "a" matches and a longer one; one built-in word  *)
(* in the root wordlist, chained below the one of the forth wordlist as in *)
(* the build.  Headers of 2 bytes, cells of 2, tokens of 1.                *)
EXTENDS Dictionary

MCNames == {<<65>>, <<97, 98>>}       \* "A" "ab"
MCBuiltIns ==
    [nt \in {-40, -20} |->
        [name |-> IF nt = -40 THEN <<97, 98>> ELSE <<97>>, name_off |-> 4,
         prev_off |-> IF nt = -40 THEN 0 ELSE 20, flags |-> {}, code |-> "tokens", code_n |-> 1, data_n |-> 0]]
MCDict == [w \in {Forth, User, Root} |-> IF w = Forth THEN -20 ELSE IF w = Root THEN -40 ELSE 0]

MCOrders == {<<>>, <<Forth, Root>>, <<User, Root, Forth>>}

Changed(b) == IF b THEN 1 ELSE 0
Headers == Cardinality(DOMAIN mem \ DOMAIN BuiltIns)

\* bounds: two headers of the user, one if the search order or the set of wordlists changed; a token
\* in a definition; one colon-sys left by '[' and errors; nothing compiled into the user wordlist
Bounds == /\ Headers + Changed(order # <<User, Forth>>) + Changed(wids # BuiltInWids) <= 2
          /\ state # 0 => here - state <= 1
          /\ Len(sys) <= 1
          /\ current # User
=============================================================================
