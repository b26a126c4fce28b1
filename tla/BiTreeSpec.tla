----------------------------- MODULE BiTreeSpec -----------------------------
(***************************************************************************)
(* What bitree.h and traverse.h promise: a tree is a function from the     *)
(* paths of its nodes to their data.  A path is a sequence of steps, Left  *)
(* or Right, from the root.  The three traversals, and the order in which  *)
(* a removed subtree is destroyed, are orders of the paths: they compare   *)
(* the first step that differs, and differ only in where a path that ends  *)
(* stands among its continuations.                                         *)
(***************************************************************************)
EXTENDS Integers, Sequences, FiniteSets

CONSTANTS Trees, Data

VARIABLES
    nodes,      \* for each tree the function from paths to data
    destroy,    \* the trees that have a destroy callback
    result      \* the last call with its arguments, return value, and the data
                \* that it destroyed or put into a list, in order

vars == <<nodes, destroy, result>>

Left  == 0
Right == 2
Pre == -1    \* a node stands before both its subtrees,
In == 1      \* between them,
Post == 3    \* or behind them

Before(order, p, q) ==
    \E k \in 1..(Len(p) + 1) :
        LET Step(s) == IF k > Len(s) THEN order ELSE s[k]
        IN  /\ k <= Len(q) + 1
            /\ SubSeq(p, 1, k - 1) = SubSeq(q, 1, k - 1)
            /\ Step(p) < Step(q)

\* The data of the tree f in the given order.
Listing(order, f) ==
    [i \in 1..Cardinality(DOMAIN f) |->
        f[CHOOSE p \in DOMAIN f :
            Cardinality({q \in DOMAIN f : Before(order, q, p)}) = i - 1]]

Empty == [p \in {} |-> {}]
Below(p, f) == {q \in DOMAIN f : Len(q) >= Len(p) /\ SubSeq(q, 1, Len(p)) = p}

Init ==
    /\ nodes = [t \in Trees |-> Empty]
    /\ destroy \in SUBSET Trees
    /\ result = <<<<"init">>, 0, <<>>>>

Create(t) ==
    /\ nodes[t] = Empty
    /\ destroy' \in {destroy \cup {t}, destroy \ {t}}
    /\ result' = <<<<"init", t>>, 0, <<>>>>
    /\ nodes' = nodes

\* A new leaf is the root of an empty tree or hangs on a node of the tree;
\* an insertion elsewhere, or without memory, changes nothing.
Insert(t, p, d) ==
    /\ result' = <<<<"ins", t, p, d>>, 0, <<>>>>
    /\ p \notin DOMAIN nodes[t]
    /\ IF p = <<>> THEN nodes[t] = Empty
       ELSE SubSeq(p, 1, Len(p) - 1) \in DOMAIN nodes[t]
    /\ nodes' = [nodes EXCEPT ![t] =
                   [q \in DOMAIN @ \cup {p} |-> IF q = p THEN d ELSE @[q]]]
    /\ destroy' = destroy

InsertFails(t, p, d) ==
    /\ result' = <<<<"ins", t, p, d>>, -1, <<>>>>
    /\ UNCHANGED <<nodes, destroy>>

\* The subtree at p, if there is one, is destroyed in postorder.
Remove(t, p) ==
    LET gone == Below(p, nodes[t])
    IN  /\ result' = <<<<"rem", t, p>>, 0,
                       IF t \in destroy
                       THEN Listing(Post, [q \in gone |-> nodes[t][q]]) ELSE <<>>>>
        /\ nodes' = [nodes EXCEPT ![t] = [q \in DOMAIN @ \ gone |-> @[q]]]
        /\ destroy' = destroy

Destroy(t) ==
    /\ nodes' = [nodes EXCEPT ![t] = Empty]
    /\ destroy' = destroy \ {t}
    /\ result' = <<<<"destroy", t>>, 0,
                   IF t \in destroy THEN Listing(Post, nodes[t]) ELSE <<>>>>

\* The tree m becomes the tree of d, l and r, with the callback of l.
Merge(m, l, r, d) ==
    /\ result' = <<<<"merge", m, l, r, d>>, 0, <<>>>>
    /\ nodes[m] = Empty
    /\ nodes' = [nodes EXCEPT
                   ![m] = [p \in {<<>>} \cup {<<Left>> \o p : p \in DOMAIN nodes[l]}
                                        \cup {<<Right>> \o p : p \in DOMAIN nodes[r]} |->
                             IF p = <<>> THEN d
                             ELSE nodes[IF p[1] = Left THEN l ELSE r][Tail(p)]],
                   ![l] = Empty,
                   ![r] = Empty]
    /\ destroy' = IF l \in destroy THEN destroy \cup {m} ELSE destroy \ {m}

MergeFails(m, l, r, d) ==
    /\ nodes[m] = Empty
    /\ nodes' = nodes
    /\ destroy' = destroy \ {m}
    /\ result' = <<<<"merge", m, l, r, d>>, -1, <<>>>>

\* A list that runs out of memory holds the first part of the traversal.
Traverse(t, op, order) ==
    LET all == Listing(order, nodes[t])
    IN  /\ \E n \in 0..Len(all) :
              result' = <<<<op, t>>, IF n = Len(all) THEN 0 ELSE -1, SubSeq(all, 1, n)>>
        /\ UNCHANGED <<nodes, destroy>>

Next ==
    \/ \E t \in Trees :
          \/ Create(t) \/ Destroy(t)
          \/ Traverse(t, "preorder", Pre)
          \/ Traverse(t, "inorder", In)
          \/ Traverse(t, "postorder", Post)
          \/ \E p \in {<<>>} \cup {Append(q, s) : q \in DOMAIN nodes[t], s \in {Left, Right}} :
                Remove(t, p) \/ \E d \in Data : Insert(t, p, d) \/ InsertFails(t, p, d)
    \/ \E m, l, r \in Trees, d \in Data :
          /\ Cardinality({m, l, r}) = 3
          /\ Merge(m, l, r, d) \/ MergeFails(m, l, r, d)

Spec == Init /\ [][Next]_vars
=============================================================================
