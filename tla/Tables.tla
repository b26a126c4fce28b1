------------------------------- MODULE Tables -------------------------------
(***************************************************************************)
(* The structures of lib/_structs that are made of lists: List itself,     *)
(* and beside it the chained hash table.                                   *)
(***************************************************************************)
EXTENDS List

CONSTANTS TableKeys, TableValues, NoValue, TableHash, BucketCounts

VARIABLES
    buckets, tableSize, table, tableDestroy, kv, tableDestroyed, tableResult

tableVars == <<buckets, tableSize, table, tableDestroy, kv, tableDestroyed,
               tableResult>>

Table == INSTANCE CHTbl WITH
            Keys <- TableKeys, Values <- TableValues, h <- TableHash,
            size <- tableSize, destroy <- tableDestroy,
            destroyed <- tableDestroyed, result <- tableResult

\* The hash function returns a number that is not negative, and a table has a
\* bucket.
ASSUME TableAssumption ==
    /\ TableHash \in [TableKeys -> Nat]
    /\ BucketCounts \subseteq Nat \ {0}

\* The hash table of chtbl.c behaves as the map of CHTblSpec whatever the
\* number of its buckets, through either of its interfaces.
TableRefines == Table!Refines
=============================================================================
