---------------------------- MODULE BisTreeSpec -----------------------------
(***************************************************************************)
(* What bistree.h promises: a set of data with distinct keys.  A removed   *)
(* datum stays with the tree, which owns it, until a datum with the same   *)
(* key is inserted or the tree is destroyed.                               *)
(***************************************************************************)
EXTENDS Integers, Bags

CONSTANTS
    Keys,
    Values,    \* function from the keys to the values they may come with
    NoValue

VARIABLES
    live,      \* function from the keys that can be found to their values
    removed,   \* function from the keys that were removed to their values
    lost,      \* bag: the data passed to the destroy callback by the last call
    result     \* the last call with its arguments, return value, value found

vars == <<live, removed, lost, result>>

Without(f, k) == [j \in DOMAIN f \ {k} |-> f[j]]
With(f, k, v) == [j \in DOMAIN f \cup {k} |-> IF j = k THEN v ELSE f[j]]
Pairs(f) == {<<k, f[k]>> : k \in DOMAIN f}
Empty == [k \in {} |-> NoValue]

Init ==
    /\ live = Empty
    /\ removed = Empty
    /\ lost = EmptyBag
    /\ result = <<<<"init">>, 0, NoValue>>

Insert(k, v) ==
    IF k \in DOMAIN live
    THEN /\ result' = <<<<"insert", k, v>>, 1, NoValue>>
         /\ lost' = EmptyBag
         /\ UNCHANGED <<live, removed>>
    ELSE /\ live' = With(live, k, v)
         /\ removed' = Without(removed, k)
         /\ lost' = SetToBag(Pairs(removed) \ Pairs(removed'))
         /\ result' = <<<<"insert", k, v>>, 0, NoValue>>

\* No memory for a key that the tree has not seen.
InsertFails(k, v) ==
    /\ k \notin DOMAIN live \cup DOMAIN removed
    /\ result' = <<<<"insert", k, v>>, -1, NoValue>>
    /\ lost' = EmptyBag
    /\ UNCHANGED <<live, removed>>

Remove(k) ==
    /\ IF k \in DOMAIN live
       THEN /\ live' = Without(live, k)
            /\ removed' = With(removed, k, live[k])
       ELSE UNCHANGED <<live, removed>>
    /\ result' = <<<<"remove", k>>,
                   IF k \in DOMAIN live \cup DOMAIN removed THEN 0 ELSE -1, NoValue>>
    /\ lost' = EmptyBag

Lookup(k) ==
    /\ result' = IF k \in DOMAIN live THEN <<<<"lookup", k>>, 0, live[k]>>
                 ELSE <<<<"lookup", k>>, -1, NoValue>>
    /\ lost' = EmptyBag
    /\ UNCHANGED <<live, removed>>

Destroy ==
    /\ live' = Empty
    /\ removed' = Empty
    /\ lost' = SetToBag(Pairs(live) \cup Pairs(removed))
    /\ result' = <<<<"destroy">>, BagCardinality(lost'), NoValue>>

Next ==
    \/ \E k \in Keys : \E v \in Values[k] : Insert(k, v) \/ InsertFails(k, v)
    \/ \E k \in Keys : Remove(k) \/ Lookup(k)
    \/ Destroy

Spec == Init /\ [][Next]_vars
=============================================================================
