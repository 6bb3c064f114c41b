------------------------------ MODULE MCHashMap ------------------------------
(* HashMap on maps of 2, 4 and 8 entries. *)
EXTENDS HashMap

MCKeys == 1 .. 6
MCVals == {1, 2}
MCCapacities == 1 .. 4

(* Keys are only compared, so that hashes in the order of the keys cover   *)
(* all functions from keys to indexes.                                     *)
MCHash ==
    {h \in [MCKeys -> 0 .. 3] : \A k \in 1 .. 5 : h[k] <= h[k + 1]}

(* Keys with the same hash may be exchanged for each other: it is enough   *)
(* to look at those inserted in their order.                               *)
Inserted == UNION {vec[p].key : p \in Present}
KeysInOrder ==
    \A k \in Inserted : \A j \in 1 .. k - 1 : hash[j] = hash[k] => j \in Inserted

(* bound: values that are not 1 *)
FewVals == Cardinality({p \in Present : vec[p].val = 2}) <= 1
=============================================================================
