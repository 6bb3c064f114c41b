------------------------------ MODULE WordLists ------------------------------
(* What the dictionary promises: every wordlist is a pile of names.  A new *)
(* definition goes on top of one pile and hides, but never removes, what   *)
(* is below it; only forgetting takes user definitions away, all at once.  *)
EXTENDS Sequences

CONSTANTS Piles, AnyName, BuiltIn   \* BuiltIn \in [Piles -> Seq(AnyName)]

VARIABLE words

WInit == words = BuiltIn

Define(p) == words'[p] \in {<<n>> \o words[p] : n \in AnyName}
Forget(p) == words'[p] = BuiltIn[p]

WNext == \E p \in Piles : /\ Define(p) \/ Forget(p)
                          /\ \A q \in Piles \ {p} : words'[q] = words[q]
WSpec == WInit /\ [][WNext]_words
=============================================================================
