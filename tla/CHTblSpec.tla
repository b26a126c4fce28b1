----------------------------- MODULE CHTblSpec ------------------------------
(***************************************************************************)
(* What chtbl.h promises: a set of data with distinct keys, which belong   *)
(* to the table until they are removed or the table is destroyed.          *)
(***************************************************************************)
EXTENDS Integers

CONSTANTS Keys, Values, NoValue

VARIABLES
    ready,      \* the table is initialised
    destroy,    \* with a destroy callback
    contents,   \* function from keys to values
    size,       \* how many they are
    lost,       \* the data passed to the destroy callback by the last call
    result      \* the last call with its arguments, return value, value found

vars == <<ready, destroy, contents, size, lost, result>>

Empty == [k \in {} |-> NoValue]
Pairs(f) == {<<k, f[k]>> : k \in DOMAIN f}

Init ==
    /\ ready = FALSE
    /\ destroy = FALSE
    /\ contents = Empty
    /\ size = 0
    /\ lost = {}
    /\ result = <<<<"none">>, 0, NoValue>>

Create ==
    /\ ~ready
    /\ ready' \in BOOLEAN
    /\ destroy' \in {destroy, ready'}
    /\ result' = <<<<"init">>, IF ready' THEN 0 ELSE -1, NoValue>>
    /\ lost' = {}
    /\ UNCHANGED <<contents, size>>

\* A key that is present is refused; a new one may find no memory.
Insert(k, v) ==
    /\ ready
    /\ \E ret \in {-1, 0, 1} :
          /\ ret = 1 <=> k \in DOMAIN contents
          /\ contents' = IF ret = 0
                         THEN [j \in DOMAIN contents \cup {k} |->
                                 IF j = k THEN v ELSE contents[j]]
                         ELSE contents
          /\ size' = IF ret = 0 THEN size + 1 ELSE size
          /\ result' = <<<<"insert", k, v>>, ret, NoValue>>
    /\ lost' = {}
    /\ UNCHANGED <<ready, destroy>>

Remove(k) ==
    /\ ready
    /\ contents' = [j \in DOMAIN contents \ {k} |-> contents[j]]
    /\ size' = IF k \in DOMAIN contents THEN size - 1 ELSE size
    /\ result' = IF k \in DOMAIN contents THEN <<<<"remove", k>>, 0, contents[k]>>
                 ELSE <<<<"remove", k>>, -1, NoValue>>
    /\ lost' = {}
    /\ UNCHANGED <<ready, destroy>>

Find(op, k) ==
    /\ ready
    /\ result' = IF k \in DOMAIN contents THEN <<<<op, k>>, 0, contents[k]>>
                 ELSE <<<<op, k>>, -1, NoValue>>
    /\ lost' = {}
    /\ UNCHANGED <<ready, destroy, contents, size>>

\* A table without a callback forgets its data and destroys none.
Destroy ==
    /\ ready
    /\ ready' = FALSE
    /\ destroy' = FALSE
    /\ contents' = Empty
    /\ size' = 0
    /\ lost' = IF destroy THEN Pairs(contents) ELSE {}
    /\ result' = <<<<"destroy">>, 0, NoValue>>

Next ==
    \/ Create
    \/ Destroy
    \/ \E k \in Keys :
          \/ Remove(k)
          \/ \E op \in {"lookup", "find"} : Find(op, k)
          \/ \E v \in Values : Insert(k, v)

Spec == Init /\ [][Next]_vars
=============================================================================
