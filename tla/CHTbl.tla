------------------------------- MODULE CHTbl --------------------------------
(***************************************************************************)
(* lib/_structs/chtbl.c (and its copy in lib/app/bns): the chained hash    *)
(* table.  A bucket is the sequence of the data in its List, whose own     *)
(* operations are module List.  A table is used through the interface it   *)
(* was made by, the plain one, where h and match get the datum, or the kv  *)
(* one, where they get the key of the pair; a datum is a pair in both, of  *)
(* which match compares the first part.                                    *)
(***************************************************************************)
EXTENDS Integers, Sequences

CONSTANTS
    Keys, Values, NoValue,
    h,             \* the hash function, from Keys to Nat
    BucketCounts   \* what buckets may be, positive numbers

VARIABLES
    buckets, size,   \* of the CHTbl; buckets is 0 once the table is destroyed
    table,           \* the lists, by their index 0..buckets-1
    destroy,         \* htbl->destroy is not NULL
    kv,              \* made by chtbl_init_kv
    destroyed,       \* what the last call passed to htbl->destroy
    result           \* the last call with its arguments, return value, value

vars == <<buckets, size, table, destroy, kv, destroyed, result>>

NoTable == [i \in {} |-> <<>>]

Init ==
    /\ buckets = 0
    /\ size = 0
    /\ table = NoTable
    /\ destroy = FALSE
    /\ kv = FALSE
    /\ destroyed = {}
    /\ result = <<<<"none">>, 0, NoValue>>

Bucket(key) == h[key] % buckets

\* The scan that remove, lookup and find share: the first element of the
\* bucket that matches, 0 for none.
Match(key) ==
    LET list == table[Bucket(key)]
        hits == {i \in 1..Len(list) : list[i][1] = key}
    IN  IF hits = {} THEN 0 ELSE CHOOSE i \in hits : \A j \in hits : i <= j

\* What a call of an initialised table through its own interface leaves alone.
Call(isKv) ==
    /\ buckets > 0
    /\ kv = isKv
    /\ destroyed' = {}
    /\ UNCHANGED <<buckets, destroy, kv>>

-----------------------------------------------------------------------------
\* malloc fails: table is NULL and the other fields are not written.
InitFails ==
    /\ buckets = 0
    /\ result' = <<<<"init">>, -1, NoValue>>
    /\ destroyed' = {}
    /\ UNCHANGED <<buckets, size, table, destroy, kv>>

MakeTable(isKv) ==
    /\ buckets = 0
    /\ buckets' \in BucketCounts
    /\ table' = [i \in 0..(buckets' - 1) |-> <<>>]
    /\ destroy' \in BOOLEAN
    /\ kv' = isKv
    /\ size' = 0
    /\ destroyed' = {}
    /\ result' = <<<<"init">>, 0, NoValue>>

chtbl_init == MakeTable(FALSE)
chtbl_init_kv == MakeTable(TRUE)

chtbl_destroy ==
    /\ buckets > 0
    /\ destroyed' = IF ~destroy THEN {}
                    ELSE UNION {{table[i][j] : j \in 1..Len(table[i])} :
                                   i \in 0..(buckets - 1)}
    /\ buckets' = 0
    /\ size' = 0
    /\ table' = NoTable
    /\ destroy' = FALSE
    /\ kv' = FALSE
    /\ result' = <<<<"destroy">>, 0, NoValue>>

\* chtbl_lookup first, so that a key is stored once; list_ins_next at the
\* head of the bucket may find no memory.
Insert(key, value) ==
    \E nomem \in BOOLEAN :
        LET ret == IF Match(key) # 0 THEN 1 ELSE IF nomem THEN -1 ELSE 0
        IN  /\ result' = <<<<"insert", key, value>>, ret, NoValue>>
            /\ IF ret = 0
               THEN /\ table' = [table EXCEPT ![Bucket(key)] = <<<<key, value>>>> \o @]
                    /\ size' = size + 1
               ELSE UNCHANGED <<table, size>>

chtbl_insert == Call(FALSE) /\ \E key \in Keys, value \in Values : Insert(key, value)
chtbl_insert_kv == Call(TRUE) /\ \E key \in Keys, value \in Values : Insert(key, value)

\* Mutant of Prev: prev = element is missing, and prev stays NULL.
PrevStays(m) == 0

\* The place of prev when the scan of remove is at element m: prev is NULL,
\* place 0, at the start and follows element at the end of every round.
Prev(m) == m - 1

\* list_rem_next takes the element after prev, the head if prev is NULL, and
\* *data is its datum.  It fails if there is none.
Remove(key) ==
    LET m == Match(key)
        list == table[Bucket(key)]
        prev == Prev(m)
    IN  IF m = 0 \/ prev = Len(list)
        THEN /\ result' = <<<<"remove", key>>, -1, NoValue>>
             /\ UNCHANGED <<table, size>>
        ELSE /\ table' = [table EXCEPT ![Bucket(key)] =
                             SubSeq(list, 1, prev) \o SubSeq(list, prev + 2, Len(list))]
             /\ size' = size - 1
             /\ result' = <<<<"remove", key>>, 0, list[prev + 1][2]>>

chtbl_remove == Call(FALSE) /\ \E key \in Keys : Remove(key)
chtbl_remove_kv == Call(TRUE) /\ \E key \in Keys : Remove(key)

\* chtbl_find_kv returns *data itself when nothing matches.
Lookup(op, key) ==
    LET m == Match(key)
    IN  /\ result' = IF m = 0 THEN <<<<op, key>>, -1, NoValue>>
                     ELSE <<<<op, key>>, 0, table[Bucket(key)][m][2]>>
        /\ UNCHANGED <<table, size>>

chtbl_lookup == Call(FALSE) /\ \E key \in Keys : Lookup("lookup", key)
chtbl_lookup_kv == Call(TRUE) /\ \E key \in Keys : Lookup("lookup", key)
chtbl_find_kv == Call(TRUE) /\ \E key \in Keys : Lookup("find", key)

Next ==
    \/ chtbl_init \/ chtbl_init_kv \/ InitFails \/ chtbl_destroy
    \/ chtbl_insert \/ chtbl_insert_kv
    \/ chtbl_remove \/ chtbl_remove_kv
    \/ chtbl_lookup \/ chtbl_lookup_kv \/ chtbl_find_kv

Spec == Init /\ [][Next]_vars

-----------------------------------------------------------------------------
(* Properties *)

\* The data of all buckets, and the table as a function from keys to values.
Stored == UNION {{table[i][j] : j \in 1..Len(table[i])} : i \in DOMAIN table}
Contents == [k \in {d[1] : d \in Stored} |-> (CHOOSE d \in Stored : d[1] = k)[2]]

CS == INSTANCE CHTblSpec WITH
        ready <- buckets > 0, contents <- Contents, lost <- destroyed

\* Every datum is in the bucket of its key, where the scans look for it, and
\* no two have the same key.
Placed ==
    \A i \in DOMAIN table :
        \A j \in 1..Len(table[i]) :
            /\ Bucket(table[i][j][1]) = i
            /\ \A l \in 1..Len(table[i]) :
                  table[i][j][1] = table[i][l][1] => j = l

\* Whatever the number of buckets, the table behaves as one set with distinct
\* keys: what was inserted is found until it is removed, size counts it, and
\* chtbl_destroy passes what is left to the callback.
Refines == CS!Spec
=============================================================================
