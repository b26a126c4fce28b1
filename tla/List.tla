-------------------------------- MODULE List --------------------------------
(***************************************************************************)
(* lib/_structs/list.c, stack.c and queue.c: the singly linked list at the *)
(* level of its pointers, and the stack and the queue made of it.  The     *)
(* list of this model is used through all three interfaces, in any order,  *)
(* which the typedefs of stack.h and queue.h permit.                       *)
(*                                                                         *)
(* Cells are the ListElmt structures malloc may return.  The variable      *)
(* cells is auxiliary: the cells of the list in their order, which the     *)
(* code knows only through head and next.                                  *)
(***************************************************************************)
EXTENDS Integers, Sequences

CONSTANTS
    Cells,     \* addresses of list elements
    Data,      \* what is stored
    NoData,    \* *data is not written
    NULL

ASSUME NullAssumption == NULL \notin Cells

VARIABLES
    size, head, tail,     \* the List structure
    destroy,              \* list->destroy is not NULL
    next, data,           \* the fields of the elements
    allocated,            \* elements malloc has returned and free has not got
    destroying,           \* list_destroy runs
    destroyed,            \* what it has passed to list->destroy
    result,               \* the last call with its arguments, return value, *data
    cells

structVars == <<size, head, tail, next, data, allocated, cells>>
vars == <<structVars, destroy, destroying, destroyed, result>>

LS == INSTANCE ListSpec WITH items <- [i \in 1..Len(cells) |-> data[cells[i]]]

\* The place of an element in the list, 0 for NULL (the head).
Place(element) ==
    IF element = NULL THEN 0
    ELSE CHOOSE i \in 1..Len(cells) : cells[i] = element

Elements == {cells[i] : i \in 1..Len(cells)}

\* list_init
Init ==
    /\ size = 0
    /\ head = NULL
    /\ tail = NULL
    /\ next = [c \in Cells |-> NULL]
    /\ data = [c \in Cells |-> NoData]
    /\ allocated = {}
    /\ destroy \in BOOLEAN
    /\ destroying = FALSE
    /\ destroyed = <<>>
    /\ result = <<<<"init">>, 0, NoData>>
    /\ cells = <<>>

\* list_init is called again only where it loses nothing.
list_init ==
    /\ ~destroying
    /\ size = 0
    /\ size' = 0
    /\ head' = NULL
    /\ tail' = NULL
    /\ destroy' \in BOOLEAN
    /\ result' = <<<<"init">>, 0, NoData>>
    /\ UNCHANGED <<next, data, allocated, cells, destroying, destroyed>>

-----------------------------------------------------------------------------
\* Mutant of list_ins_next: tail is set only when the list was empty.
InsNextKeepsTail(op, element, d) ==
    /\ ~destroying
    /\ UNCHANGED <<destroy, destroying, destroyed>>
    /\ \E new_element \in Cells \ allocated :
          /\ allocated' = allocated \cup {new_element}
          /\ data' = [data EXCEPT ![new_element] = d]
          /\ tail' = IF size = 0 THEN new_element ELSE tail
          /\ IF element = NULL
             THEN /\ next' = [next EXCEPT ![new_element] = head]
                  /\ head' = new_element
             ELSE /\ next' = [next EXCEPT ![new_element] = next[element],
                                          ![element] = new_element]
                  /\ head' = head
          /\ cells' = LS!InsertAfter(cells, Place(element), new_element)
          /\ size' = size + 1
          /\ result' = <<op, 0, NoData>>

\* list_ins_next returns -1 when malloc does.
InsNextFails(op) ==
    /\ ~destroying
    /\ result' = <<op, -1, NoData>>
    /\ UNCHANGED <<structVars, destroy, destroying, destroyed>>

list_ins_next(op, element, d) ==
    /\ ~destroying
    /\ UNCHANGED <<destroy, destroying, destroyed>>
    /\ \E new_element \in Cells \ allocated :
          /\ allocated' = allocated \cup {new_element}
          /\ data' = [data EXCEPT ![new_element] = d]
          /\ IF element = NULL
             THEN /\ tail' = IF size = 0 THEN new_element ELSE tail
                  /\ next' = [next EXCEPT ![new_element] = head]
                  /\ head' = new_element
             ELSE /\ tail' = IF next[element] = NULL THEN new_element ELSE tail
                  /\ next' = [next EXCEPT ![new_element] = next[element],
                                          ![element] = new_element]
                  /\ head' = head
          /\ cells' = LS!InsertAfter(cells, Place(element), new_element)
          /\ size' = size + 1
          /\ result' = <<op, 0, NoData>>

\* Mutant of Unlink: tail is left alone when the last element goes.
UnlinkKeepsTail(element, old_element) ==
    /\ IF element = NULL
       THEN /\ head' = next[head]
            /\ tail' = IF size = 1 THEN NULL ELSE tail
            /\ next' = next
       ELSE /\ next' = [next EXCEPT ![element] = next[old_element]]
            /\ tail' = tail
            /\ head' = head
    /\ allocated' = allocated \ {old_element}
    /\ size' = size - 1
    /\ cells' = LS!RemoveAfter(cells, Place(element))
    /\ data' = data

\* What list_rem_next does to the list once it has found old_element.
Unlink(element, old_element) ==
    /\ IF element = NULL
       THEN /\ head' = next[head]
            /\ tail' = IF size = 1 THEN NULL ELSE tail
            /\ next' = next
       ELSE /\ next' = [next EXCEPT ![element] = next[old_element]]
            /\ tail' = IF next[old_element] = NULL THEN element ELSE tail
            /\ head' = head
    /\ allocated' = allocated \ {old_element}
    /\ size' = size - 1
    /\ cells' = LS!RemoveAfter(cells, Place(element))
    /\ data' = data

\* The element list_rem_next removes: the one behind element, or the head.
Old(element) == IF element = NULL THEN head ELSE next[element]

\* list_rem_next returns -1: the list is empty, or element is the last one.
RemNextFails(op, element) ==
    /\ ~destroying
    /\ \/ size = 0
       \/ element # NULL /\ next[element] = NULL
    /\ result' = <<op, -1, NoData>>
    /\ UNCHANGED <<structVars, destroy, destroying, destroyed>>

list_rem_next(op, element) ==
    /\ ~destroying
    /\ size # 0
    /\ element # NULL => next[element] # NULL
    /\ Unlink(element, Old(element))
    /\ result' = <<op, 0, data[Old(element)]>>
    /\ UNCHANGED <<destroy, destroying, destroyed>>

-----------------------------------------------------------------------------
\* An element comes from list_head and list_next: it is in the list.
InsNext == \E element \in Elements \cup {NULL}, d \in Data :
              list_ins_next(<<"ins_next", Place(element), d>>, element, d)
RemNext == \E element \in Elements \cup {NULL} :
              \/ list_rem_next(<<"rem_next", Place(element)>>, element)
              \/ RemNextFails(<<"rem_next", Place(element)>>, element)

stack_push == \E d \in Data : list_ins_next(<<"push", d>>, NULL, d)
stack_pop == list_rem_next(<<"pop">>, NULL) \/ RemNextFails(<<"pop">>, NULL)

\* Mutant of queue_enqueue: the new element goes to the head.
EnqueueAtHead == \E d \in Data : list_ins_next(<<"enqueue", d>>, NULL, d)

queue_enqueue == \E d \in Data : list_ins_next(<<"enqueue", d>>, tail, d)
queue_dequeue == list_rem_next(<<"dequeue">>, NULL) \/ RemNextFails(<<"dequeue">>, NULL)

Fails ==
    \E d \in Data :
        \/ \E element \in Elements \cup {NULL} :
              InsNextFails(<<"ins_next", Place(element), d>>)
        \/ InsNextFails(<<"push", d>>)
        \/ InsNextFails(<<"enqueue", d>>)

\* list_destroy removes the head until size is 0, then clears the structure.
DestroyBegin ==
    /\ ~destroying
    /\ destroying' = TRUE
    /\ destroyed' = <<>>
    /\ UNCHANGED <<structVars, destroy, result>>

DestroyItem ==
    /\ destroying
    /\ size > 0
    /\ Unlink(NULL, head)
    /\ destroyed' = IF destroy THEN Append(destroyed, data[head]) ELSE destroyed
    /\ UNCHANGED <<destroy, destroying, result>>

DestroyEnd ==
    /\ destroying
    /\ size = 0
    /\ size' = 0
    /\ head' = NULL
    /\ tail' = NULL
    /\ destroying' = FALSE
    /\ destroy' = FALSE
    /\ result' = <<<<"destroy">>, 0, NoData>>
    /\ UNCHANGED <<next, data, allocated, destroyed, cells>>

Next ==
    \/ InsNext \/ RemNext
    \/ stack_push \/ stack_pop
    \/ queue_enqueue \/ queue_dequeue
    \/ Fails
    \/ list_init \/ DestroyBegin \/ DestroyItem \/ DestroyEnd

Spec == Init /\ [][Next]_vars

-----------------------------------------------------------------------------
(* Properties *)

\* The fields of List and of its elements have their types; size, an int in
\* the code, never goes below zero.
TypeOK ==
    /\ size \in Nat
    /\ head \in Cells \cup {NULL}
    /\ tail \in Cells \cup {NULL}
    /\ next \in [Cells -> Cells \cup {NULL}]
    /\ data \in [Cells -> Data \cup {NoData}]
    /\ allocated \in SUBSET Cells
    /\ destroy \in BOOLEAN
    /\ destroying \in BOOLEAN
    /\ destroyed \in Seq(Data \cup {NoData})
    /\ cells \in Seq(Cells)

\* head, next, tail and size describe one acyclic chain.
ListShape ==
    /\ size = Len(cells)
    /\ head = IF cells = <<>> THEN NULL ELSE cells[1]
    /\ tail = IF cells = <<>> THEN NULL ELSE cells[Len(cells)]
    /\ \A i \in 1..Len(cells) :
          next[cells[i]] = IF i = Len(cells) THEN NULL ELSE cells[i + 1]
    /\ \A i, j \in 1..Len(cells) : cells[i] = cells[j] => i = j

NoLeak == allocated = Elements

\* After any sequence of calls, failed ones included, the redundant tail and
\* size are not stale, which the queue relies on (queue_enqueue inserts behind
\* list_tail), no element is leaked, and none in the list has been freed, also
\* while list_destroy runs.
ListSound == ListShape /\ NoLeak

IInv == TypeOK /\ ListShape /\ NoLeak

\* Through its pointers the list behaves as the sequence of ListSpec: each
\* call inserts, removes and returns what the interface promises, and
\* list_destroy passes every item to the callback once, in order.
Refines == LS!Spec
=============================================================================
