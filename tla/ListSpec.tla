------------------------------ MODULE ListSpec ------------------------------
(***************************************************************************)
(* What List, Stack and Queue promise (README.md of the repository and the *)
(* interfaces list.h, stack.h and queue.h): a sequence of items, changed   *)
(* behind a given position, or at its ends.  An insertion may fail for     *)
(* want of memory and a removal because nothing is there; then nothing     *)
(* changes.                                                                *)
(***************************************************************************)
EXTENDS Integers, Sequences

CONSTANTS Data, NoData

VARIABLES
    items,        \* the contents
    destroy,      \* the list has a destroy callback
    destroying,   \* list_destroy runs
    destroyed,    \* what it has passed to the destroy callback so far
    result        \* the last call with its arguments, return value, *data

vars == <<items, destroy, destroying, destroyed, result>>

InsertAfter(s, p, e) ==
    [i \in 1..(Len(s) + 1) |->
        IF i <= p THEN s[i] ELSE IF i = p + 1 THEN e ELSE s[i - 1]]

RemoveAfter(s, p) ==
    [i \in 1..(Len(s) - 1) |-> IF i <= p THEN s[i] ELSE s[i + 1]]

Init ==
    /\ items = <<>>
    /\ destroy \in BOOLEAN
    /\ destroying = FALSE
    /\ destroyed = <<>>
    /\ result = <<<<"init">>, 0, NoData>>

\* A list that is empty may be initialised again.
Reinit ==
    /\ ~destroying
    /\ items = <<>>
    /\ destroy' \in BOOLEAN
    /\ result' = <<<<"init">>, 0, NoData>>
    /\ UNCHANGED <<items, destroying, destroyed>>

\* A call that returns -1 changes nothing.
Fail(op) ==
    /\ ~destroying
    /\ result' = <<op, -1, NoData>>
    /\ UNCHANGED <<items, destroy, destroying, destroyed>>

Insert(op, p, d) ==
    /\ ~destroying
    /\ items' = InsertAfter(items, p, d)
    /\ result' = <<op, 0, NoData>>
    /\ UNCHANGED <<destroy, destroying, destroyed>>

Remove(op, p) ==
    /\ ~destroying
    /\ p < Len(items)
    /\ items' = RemoveAfter(items, p)
    /\ result' = <<op, 0, items[p + 1]>>
    /\ UNCHANGED <<destroy, destroying, destroyed>>

\* An insertion may find no memory; removal is refused only where there is
\* nothing to remove.
InsNext == \E p \in 0..Len(items), d \in Data :
              Insert(<<"ins_next", p, d>>, p, d) \/ Fail(<<"ins_next", p, d>>)
RemNext == \E p \in 0..Len(items) :
              \/ Remove(<<"rem_next", p>>, p)
              \/ p = Len(items) /\ Fail(<<"rem_next", p>>)
Push    == \E d \in Data : Insert(<<"push", d>>, 0, d) \/ Fail(<<"push", d>>)
Pop     == Remove(<<"pop">>, 0) \/ (items = <<>> /\ Fail(<<"pop">>))
Enqueue == \E d \in Data :
              Insert(<<"enqueue", d>>, Len(items), d) \/ Fail(<<"enqueue", d>>)
Dequeue == Remove(<<"dequeue">>, 0) \/ (items = <<>> /\ Fail(<<"dequeue">>))

DestroyBegin ==
    /\ ~destroying
    /\ destroying' = TRUE
    /\ destroyed' = <<>>
    /\ UNCHANGED <<items, destroy, result>>

\* Every item is handed to the callback, if there is one, in list order.
DestroyItem ==
    /\ destroying
    /\ items # <<>>
    /\ items' = RemoveAfter(items, 0)
    /\ destroyed' = IF destroy THEN Append(destroyed, items[1]) ELSE destroyed
    /\ UNCHANGED <<destroy, destroying, result>>

DestroyEnd ==
    /\ destroying
    /\ items = <<>>
    /\ destroying' = FALSE
    /\ destroy' = FALSE
    /\ result' = <<<<"destroy">>, 0, NoData>>
    /\ UNCHANGED <<items, destroyed>>

Next ==
    \/ InsNext \/ RemNext
    \/ Push \/ Pop
    \/ Enqueue \/ Dequeue
    \/ Reinit \/ DestroyBegin \/ DestroyItem \/ DestroyEnd

Spec == Init /\ [][Next]_vars
=============================================================================
