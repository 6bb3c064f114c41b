------------------------------ MODULE PartialMap ------------------------------
(* What a hash map promises: it is a partial function from keys to values  *)
(* that grows until it is cleared.  An insert may fail, and must fail for  *)
(* a key that is already there.                                            *)
CONSTANTS MapKeys, MapVals

VARIABLE contents

PInit == contents = <<>>

PInsert(k, v) ==
    /\ k \notin DOMAIN contents
    /\ contents' = [j \in DOMAIN contents \cup {k} |->
                        IF j = k THEN v ELSE contents[j]]

PClear == contents' = <<>>

PNext == (\E k \in MapKeys, v \in MapVals : PInsert(k, v)) \/ PClear
PSpec == PInit /\ [][PNext]_contents
=============================================================================
