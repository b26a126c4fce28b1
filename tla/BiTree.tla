------------------------------- MODULE BiTree -------------------------------
(***************************************************************************)
(* lib/_structs/bitree.c and traverse.c: binary trees whose nodes are      *)
(* inserted below a given node, and their traversals.  A subtree is a      *)
(* record or Nil; a pointer to a node is its path from the root, and NULL, *)
(* with which the functions mean the root, is a value of its own.          *)
(*                                                                         *)
(* inorder is read with bitree_left for the misspelt bitree_lef.           *)
(***************************************************************************)
EXTENDS Integers, Sequences, FiniteSets

CONSTANTS
    Trees,       \* the BiTree structures of the program
    Data,
    NULL,
    MaxNodes     \* bound: nodes of all trees together

VARIABLES
    root, size,   \* of each tree
    destroy,      \* the trees whose destroy is not NULL
    result        \* the last call with its arguments, return value, and the data
                  \* passed to destroy or put into the list

vars == <<root, size, destroy, result>>

Nil == <<>>
Left  == 0
Right == 2

Leaf(data) == [data |-> data, left |-> Nil, right |-> Nil]
Child(node, side) == IF side = Left THEN node.left ELSE node.right

RECURSIVE Node(_, _)
Node(node, path) ==
    IF path = <<>> THEN node ELSE Node(Child(node, Head(path)), Tail(path))

\* The tree with *position, the place at the end of the path, assigned.
RECURSIVE Assign(_, _, _)
Assign(node, path, sub) ==
    IF path = <<>> THEN sub
    ELSE IF Head(path) = Left
         THEN [node EXCEPT !.left = Assign(@, Tail(path), sub)]
         ELSE [node EXCEPT !.right = Assign(@, Tail(path), sub)]

RECURSIVE Paths(_)
Paths(node) ==
    IF node = Nil THEN {}
    ELSE {<<>>} \cup {<<Left>> \o p : p \in Paths(node.left)}
                \cup {<<Right>> \o p : p \in Paths(node.right)}

Pointers(t) == {NULL} \cup Paths(root[t])
Position(node, side) == IF node = NULL THEN <<>> ELSE Append(node, side)

Memory == Cardinality(UNION {{t} \X Paths(root[t]) : t \in Trees}) < MaxNodes

bitree_init(t) ==
    /\ size[t] = 0
    /\ root' = [root EXCEPT ![t] = Nil]
    /\ size' = [size EXCEPT ![t] = 0]
    /\ destroy' \in {destroy \cup {t}, destroy \ {t}}
    /\ result' = <<<<"init", t>>, 0, <<>>>>

-----------------------------------------------------------------------------
\* What makes an insertion return -1 before it asks for memory.
Occupied(t, node, side) ==
    IF node = NULL THEN size[t] > 0
    ELSE Child(Node(root[t], node), side) # Nil

\* Mutant of Ins: a second root replaces the first.
InsReplacesRoot(t, node, side, data) ==
    /\ destroy' = destroy
    /\ \/ /\ node # NULL => ~Occupied(t, node, side)
          /\ Memory
          /\ root' = [root EXCEPT ![t] = Assign(@, Position(node, side), Leaf(data))]
          /\ size' = [size EXCEPT ![t] = @ + 1]
          /\ result' = <<<<"ins", t, Position(node, side), data>>, 0, <<>>>>
       \/ /\ result' = <<<<"ins", t, Position(node, side), data>>, -1, <<>>>>
          /\ UNCHANGED <<root, size>>

\* -1 is for an occupied place, and for a malloc that fails.
Ins(t, node, side, data) ==
    /\ destroy' = destroy
    /\ \/ /\ ~Occupied(t, node, side)
          /\ Memory
          /\ root' = [root EXCEPT ![t] = Assign(@, Position(node, side), Leaf(data))]
          /\ size' = [size EXCEPT ![t] = @ + 1]
          /\ result' = <<<<"ins", t, Position(node, side), data>>, 0, <<>>>>
       \/ /\ result' = <<<<"ins", t, Position(node, side), data>>, -1, <<>>>>
          /\ UNCHANGED <<root, size>>

bitree_ins_left(t, node, data) == Ins(t, node, Left, data)
bitree_ins_right(t, node, data) == Ins(t, node, Right, data)

\* The recursion of bitree_rem_left and bitree_rem_right on *position: both
\* subtrees and then the node itself, and nothing once n, the size of the
\* tree, is 0.  What is left of the subtree is node.
RECURSIVE Rem(_, _)
Rem(node, n) ==
    IF n = 0 \/ node = Nil THEN [node |-> node, n |-> n, data |-> <<>>]
    ELSE LET l == Rem(node.left, n)
             r == Rem(node.right, l.n)
         IN  [node |-> Nil, n |-> r.n - 1, data |-> l.data \o r.data \o <<node.data>>]

RemAt(t, node, side) ==
    LET position == Position(node, side)
        r == Rem(Node(root[t], position), size[t])
    IN  /\ root' = [root EXCEPT ![t] = Assign(@, position, r.node)]
        /\ size' = [size EXCEPT ![t] = r.n]
        /\ result' = <<<<"rem", t, position>>, 0,
                       IF t \in destroy THEN r.data ELSE <<>>>>
        /\ destroy' = destroy

bitree_rem_left(t, node) == RemAt(t, node, Left)
bitree_rem_right(t, node) == RemAt(t, node, Right)

bitree_destroy(t) ==
    /\ root' = [root EXCEPT ![t] = Nil]
    /\ size' = [size EXCEPT ![t] = 0]
    /\ destroy' = destroy \ {t}
    /\ result' = <<<<"destroy", t>>, 0,
                   IF t \in destroy THEN Rem(root[t], size[t]).data ELSE <<>>>>

-----------------------------------------------------------------------------
\* Mutant of bitree_merge: the new root is not counted.
MergeForgetsRoot(merge, left, right, data) ==
    /\ size[merge] = 0
    /\ Memory
    /\ root' = [root EXCEPT ![merge] = [data |-> data, left |-> root[left],
                                        right |-> root[right]],
                            ![left] = Nil,
                            ![right] = Nil]
    /\ size' = [size EXCEPT ![merge] = size[left] + size[right],
                            ![left] = 0,
                            ![right] = 0]
    /\ destroy' = IF left \in destroy THEN destroy \cup {merge}
                  ELSE destroy \ {merge}
    /\ result' = <<<<"merge", merge, left, right, data>>, 0, <<>>>>

\* bitree_merge initialises merge, so that it is used for an empty one; the
\* data of both trees are destroyed by the function of the left one.
bitree_merge(merge, left, right, data) ==
    /\ size[merge] = 0
    /\ Memory
    /\ root' = [root EXCEPT ![merge] = [data |-> data, left |-> root[left],
                                        right |-> root[right]],
                            ![left] = Nil,
                            ![right] = Nil]
    /\ size' = [size EXCEPT ![merge] = 1 + size[left] + size[right],
                            ![left] = 0,
                            ![right] = 0]
    /\ destroy' = IF left \in destroy THEN destroy \cup {merge}
                  ELSE destroy \ {merge}
    /\ result' = <<<<"merge", merge, left, right, data>>, 0, <<>>>>

\* No memory for the new root: merge is destroyed, left and right stay.
MergeFails(merge, left, right, data) ==
    /\ size[merge] = 0
    /\ destroy' = destroy \ {merge}
    /\ result' = <<<<"merge", merge, left, right, data>>, -1, <<>>>>
    /\ UNCHANGED <<root, size>>

-----------------------------------------------------------------------------
(* traverse.c.  A traversal so far: its return value, the list, and how    *)
(* many more elements malloc will grant it.                                *)

list_ins_next(so, data) ==
    IF so.ret # 0 THEN so
    ELSE IF so.room = 0 THEN [so EXCEPT !.ret = -1]
    ELSE [so EXCEPT !.list = Append(@, data), !.room = @ - 1]

RECURSIVE preorder(_, _)
preorder(node, so) ==
    IF node = Nil \/ so.ret # 0 THEN so
    ELSE preorder(node.right, preorder(node.left, list_ins_next(so, node.data)))

RECURSIVE inorder(_, _)
inorder(node, so) ==
    IF node = Nil \/ so.ret # 0 THEN so
    ELSE inorder(node.right, list_ins_next(inorder(node.left, so), node.data))

RECURSIVE postorder(_, _)
postorder(node, so) ==
    IF node = Nil \/ so.ret # 0 THEN so
    ELSE list_ins_next(postorder(node.right, postorder(node.left, so)), node.data)

Traverse(t) ==
    /\ \E room \in 0..size[t] :
          LET start == [ret |-> 0, list |-> <<>>, room |-> room]
              Done(op, so) == result' = <<<<op, t>>, so.ret, so.list>>
          IN  \/ Done("preorder", preorder(root[t], start))
              \/ Done("inorder", inorder(root[t], start))
              \/ Done("postorder", postorder(root[t], start))
    /\ UNCHANGED <<root, size, destroy>>

-----------------------------------------------------------------------------
Init ==
    /\ root = [t \in Trees |-> Nil]
    /\ size = [t \in Trees |-> 0]
    /\ destroy \in SUBSET Trees
    /\ result = <<<<"init">>, 0, <<>>>>

\* The node of bitree_rem_left and bitree_rem_right is NULL or in the tree;
\* the three trees of bitree_merge are different ones.
Next ==
    \/ \E t \in Trees :
          \/ bitree_init(t) \/ bitree_destroy(t) \/ Traverse(t)
          \/ \E node \in Pointers(t) :
                \/ bitree_rem_left(t, node)
                \/ bitree_rem_right(t, node)
                \/ \E data \in Data : bitree_ins_left(t, node, data)
                \/ \E data \in Data : bitree_ins_right(t, node, data)
    \/ \E merge, left, right \in Trees, data \in Data :
          /\ Cardinality({merge, left, right}) = 3
          /\ \/ bitree_merge(merge, left, right, data)
             \/ MergeFails(merge, left, right, data)

Spec == Init /\ [][Next]_vars

-----------------------------------------------------------------------------
(* Properties *)

BS == INSTANCE BiTreeSpec WITH
        nodes <- [t \in Trees |->
                    [p \in Paths(root[t]) |-> Node(root[t], p).data]]

\* The trees behave as functions from paths to data: nodes appear and vanish
\* where the calls say, merging moves both subtrees, a removed subtree is
\* destroyed in postorder to its last node, although the recursion stops as
\* soon as size is 0, and the three traversals list what their names say.
Refines == BS!Spec
=============================================================================
