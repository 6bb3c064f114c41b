------------------------------- MODULE HashMap -------------------------------
(***************************************************************************)
(* The hash maps of m64th: filled by C (c/hashmap_string.c and             *)
(* c/hashmap_number_impl.c, the same algorithm for keys of three types),   *)
(* searched by C and by Forth (hashmap-find/cell, hashmap-find/int in      *)
(* forth/m64th/user.S, which the optimizer of the compiler uses).          *)
(*                                                                         *)
(* The first cap entries of vec are the buckets, the other cap are for     *)
(* collisions.  A bucket whose first key is there begins a list, linked by *)
(* `next', of the entries with the same index.  The map does not grow.     *)
(*                                                                         *)
(* A key is anything that can be compared.  Its hash, and the folding of   *)
(* the hash to an index, are abstracted to a function from keys to         *)
(* indexes that any map may have.                                          *)
(***************************************************************************)
EXTENDS Integers, FiniteSets, FiniteSetsExt

CONSTANTS
    Keys,         \* the keys
    Vals,         \* the values
    Capacities,   \* the capacities a map is created for
    Hash          \* all functions from keys to hashes that are considered

ASSUME KeysAssumption == Keys # {} /\ Vals # {}
ASSUME CapacitiesAssumption == Capacities \subseteq Nat /\ Capacities # {}
ASSUME HashAssumption == Hash \subseteq [Keys -> Nat] /\ Hash # {}

VARIABLES
    cap,    \* 1 << map->lcap, fixed when the map is created
    hash,   \* the function from keys to hashes, fixed too
    vec,    \* map->vec
    size    \* map->size

vars == <<cap, hash, vec, size>>

NoEntry == -1   \* m6hash_no_entry
NoNext == -2    \* m6hash_no_next
NotFound == -1  \* NULL

(* the first power of two that is not less than n *)
CeilPower2(n) ==
    LET least[p \in Nat] == IF p < n THEN least[2 * p] ELSE p IN least[1]

Buckets == 0 .. cap - 1
Collisions == cap .. 2 * cap - 1
Positions == 0 .. 2 * cap - 1

Empty(p) == vec[p].next = NoEntry
IndexOf(k) == hash[k] % cap

Present == {p \in Positions : ~Empty(p)}

-----------------------------------------------------------------------------
(* find *)

(* the loop of m6hashmap_find_in_collision_list, only at entries in use *)
FindFrom(k, bucket) ==
    LET at[p \in Present] ==
            IF vec[p].key = {k} THEN p
            ELSE IF vec[p].next = NoNext THEN NotFound
            ELSE at[vec[p].next]
    IN at[bucket]

(* in C: NULL at once for an empty map *)
Find(k) ==
    IF size # 0 /\ ~Empty(IndexOf(k)) THEN FindFrom(k, IndexOf(k)) ELSE NotFound

(* in Forth: (hashmap-entry@) tells no entry from the end of the list at   *)
(* every step of one loop, and the size is not read                        *)
ForthFind(k) ==
    LET at[p \in Positions] ==
            IF vec[p].next = NoEntry THEN NotFound
            ELSE IF vec[p].key = {k} THEN p
            ELSE IF vec[p].next = NoNext THEN NotFound
            ELSE at[vec[p].next]
    IN at[IndexOf(k)]

-----------------------------------------------------------------------------
(* insert *)

(* probes of the second half of vec, in order *)
EvenStep(pos) == <<4, 6, 8, 10>>[(pos % 4) + 1]
Step(pos) == <<5, 7, 9, 11>>[(pos % 4) + 1]
Probe(pos, i) == cap + ((pos + i * Step(pos)) % cap)

PickCollision(pos) ==
    LET free == {i \in 0 .. cap - 1 : Empty(Probe(pos, i))}
    IN IF free = {} THEN NoEntry ELSE Probe(pos, Min(free))

Entry(k, v, next) == [key |-> {k}, val |-> v, next |-> next]

NextOfNewForgotten(first) == NoNext
NextOfNew(first) == vec[first].next

(* the position where insert stores a key that is not there, or NoEntry *)
Place(k) ==
    IF Empty(IndexOf(k)) THEN IndexOf(k) ELSE PickCollision(IndexOf(k))

InsertAgain(k, v, found) ==
    /\ vec' = [vec EXCEPT ![found].val = v]
    /\ UNCHANGED size
InsertPresent(k, v, found) == UNCHANGED <<vec, size>>

Insert(k, v) ==
    LET first == IndexOf(k)
        found == IF Empty(first) THEN NotFound ELSE FindFrom(k, first)
        place == Place(k)
    IN /\ \/ /\ found # NotFound
             /\ InsertPresent(k, v, found)
          \/ /\ found = NotFound /\ place = NoEntry     \* the map is too full
             /\ UNCHANGED <<vec, size>>
          \/ /\ place = first
             /\ vec' = [vec EXCEPT ![first] = Entry(k, v, NoNext)]
             /\ size' = size + 1
          \/ /\ found = NotFound /\ place \notin {first, NoEntry}
             /\ vec' = [vec EXCEPT ![place] = Entry(k, v, NextOfNew(first)),
                                   ![first].next = place]
             /\ size' = size + 1
       /\ UNCHANGED <<cap, hash>>

NothingStored == [key |-> {}, val |-> 0, next |-> NoEntry]
NotCleared(c) == vec
Cleared(c) == [p \in 0 .. 2 * c - 1 |-> NothingStored]

Clear ==
    /\ vec' = Cleared(cap)
    /\ size' = 0
    /\ UNCHANGED <<cap, hash>>

(* a map of any of the capacities *)
Init ==
    /\ cap \in {CeilPower2(c) : c \in Capacities}
    /\ hash \in Hash
    /\ vec = [p \in 0 .. 2 * cap - 1 |-> NothingStored]
    /\ size = 0

Next == (\E k \in Keys, v \in Vals : Insert(k, v)) \/ Clear
Spec == Init /\ [][Next]_vars
-----------------------------------------------------------------------------
(* Properties. *)

(* Entries have keys, values and links of their kinds, and no link leads   *)
(* out of the half for collisions.                                         *)
TypeOK ==
    /\ cap \in Nat \ {0} /\ hash \in Hash
    /\ vec \in [Positions -> [key : {{}} \cup {{k} : k \in Keys},
                              val : {0} \cup Vals,
                              next : {NoEntry, NoNext} \cup Collisions]]
    /\ size \in 0 .. 2 * cap

(* positions met from bucket b: the list is followed at most 2*cap times *)
Walk(b) ==
    LET at[i \in 0 .. 2 * cap] ==
            IF i = 0 THEN b
            ELSE IF at[i - 1] \in Positions THEN vec[at[i - 1]].next
            ELSE at[i - 1]
    IN at
Chain(walk) == {walk[i] : i \in 0 .. 2 * cap} \cap Positions

(* The list of a bucket ends, and every entry is in the list of its index  *)
(* and in no other: find terminates and meets each key of the map          *)
(* (m6hashmap_find_in_collision_list, m6hash_pick_collision_index).        *)
EachEntryInItsChain ==
    /\ \A p \in Present : \A k \in vec[p].key : IndexOf(k) \in Present
    /\ \A b \in Buckets \cap Present :
        LET walk == Walk(b)
            keys == {k \in Keys : IndexOf(k) = b}
        IN /\ walk[2 * cap] = NoNext
           /\ Chain(walk) = {p \in Present : vec[p].key \subseteq keys}

(* Forth finds the entry that C finds (hashmap-find/cell, m6hashmap_find). *)
FindsAgree == \A k \in Keys : ForthFind(k) = Find(k)

(* "returns NULL on failure (if map is too full or key is already          *)
(* present)": a key that is not there is refused only when its bucket and  *)
(* all the entries for collisions are taken, so the probes of              *)
(* m6hash_pick_collision_index visit all of them, whatever the capacity.   *)
InsertFailsOnlyWhenFull ==
    \A k \in Keys :
        Find(k) = NotFound =>
            (Place(k) = NoEntry <=> IndexOf(k) \in Present /\ Collisions \subseteq Present)

(* A pointer to an entry that find or insert returned stays valid: an      *)
(* entry keeps its position, its key and its value until the map is        *)
(* cleared (insert "does not grow/rehash").                                *)
EntriesStay ==
    [][Clear \/ \A p \in Present : vec'[p].key = vec[p].key /\ vec'[p].val = vec[p].val]_vars

(* What find returns is a partial map that insert extends. *)
Map == INSTANCE PartialMap WITH
    MapKeys <- Keys, MapVals <- Vals,
    contents <- [k \in {k \in Keys : Find(k) # NotFound} |-> vec[Find(k)].val]
ImplementsMap == Map!PSpec
=============================================================================
