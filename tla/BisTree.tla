------------------------------ MODULE BisTree -------------------------------
(***************************************************************************)
(* lib/_structs/bistree.c: the binary search tree kept balanced by AVL     *)
(* rotations, with removal by hiding.  A subtree is a record or Nil, so    *)
(* that the pointer assignments of a rotation are the construction of the  *)
(* rotated subtree; an operation is the recursive function of the source   *)
(* and returns the subtree that *node points to afterwards.                *)
(*                                                                         *)
(* The source does not compile as it stands: destroy_right names           *)
(* tree->right where destroy_left has node->left, lookup has an else too   *)
(* many, and identifiers are misspelt.  It is read as the mirror image and *)
(* the neighbouring lines say.                                             *)
(***************************************************************************)
EXTENDS Integers, Sequences

LOCAL INSTANCE SequencesExt

CONSTANTS
    Keys,      \* a set of integers: what compare orders
    Values,    \* function from the keys to what the rest of their data may be
    NoValue

VARIABLES
    root, size,    \* of the BisTree structure
    destroyed,     \* what the last call passed to tree->destroy (not NULL)
    result         \* the last call with its arguments, return value, value found

vars == <<root, size, destroyed, result>>

AVL_LFT_HEAVY == 1
AVL_BALANCED  == 0
AVL_RGT_HEAVY == -1

Nil == <<>>

Leaf(data) == [data |-> data, hidden |-> FALSE, factor |-> AVL_BALANCED,
               left |-> Nil, right |-> Nil]

-----------------------------------------------------------------------------
(* Rotations *)

\* Mutant of rotate_left: the new factors of a left-right rotation are
\* those of the mirrored case.
RotateLeftSwapsFactors(node) ==
    LET left == node.left
        grandchild == left.right
    IN  IF left.factor = AVL_LFT_HEAVY
        THEN [left EXCEPT
                !.right = [node EXCEPT !.left = left.right, !.factor = AVL_BALANCED],
                !.factor = AVL_BALANCED]
        ELSE [grandchild EXCEPT
                !.left = [left EXCEPT !.right = grandchild.left,
                             !.factor = IF grandchild.factor = AVL_LFT_HEAVY
                                        THEN AVL_LFT_HEAVY ELSE AVL_BALANCED],
                !.right = [node EXCEPT !.left = grandchild.right,
                             !.factor = IF grandchild.factor = AVL_RGT_HEAVY
                                        THEN AVL_RGT_HEAVY ELSE AVL_BALANCED],
                !.factor = AVL_BALANCED]

rotate_left(node) ==
    LET left == node.left
        grandchild == left.right
    IN  IF left.factor = AVL_LFT_HEAVY
        THEN [left EXCEPT
                !.right = [node EXCEPT !.left = left.right, !.factor = AVL_BALANCED],
                !.factor = AVL_BALANCED]
        ELSE [grandchild EXCEPT
                !.left = [left EXCEPT !.right = grandchild.left,
                             !.factor = IF grandchild.factor = AVL_RGT_HEAVY
                                        THEN AVL_LFT_HEAVY ELSE AVL_BALANCED],
                !.right = [node EXCEPT !.left = grandchild.right,
                             !.factor = IF grandchild.factor = AVL_LFT_HEAVY
                                        THEN AVL_RGT_HEAVY ELSE AVL_BALANCED],
                !.factor = AVL_BALANCED]

rotate_right(node) ==
    LET right == node.right
        grandchild == right.left
    IN  IF right.factor = AVL_RGT_HEAVY
        THEN [right EXCEPT
                !.left = [node EXCEPT !.right = right.left, !.factor = AVL_BALANCED],
                !.factor = AVL_BALANCED]
        ELSE [grandchild EXCEPT
                !.right = [right EXCEPT !.left = grandchild.right,
                             !.factor = IF grandchild.factor = AVL_LFT_HEAVY
                                        THEN AVL_RGT_HEAVY ELSE AVL_BALANCED],
                !.left = [node EXCEPT !.right = grandchild.left,
                             !.factor = IF grandchild.factor = AVL_RGT_HEAVY
                                        THEN AVL_LFT_HEAVY ELSE AVL_BALANCED],
                !.factor = AVL_BALANCED]

-----------------------------------------------------------------------------
(* insert *)

\* What insert leaves behind: *node, *balanced, its return value, and the
\* data passed to tree->destroy.
Inserted(node, balanced, ret, destroys) ==
    [node |-> node, balanced |-> balanced, ret |-> ret, destroys |-> destroys]

\* The switch of insert after an insertion on the left.
GrownLeft(node) ==
    CASE node.factor = AVL_LFT_HEAVY -> Inserted(rotate_left(node), TRUE, 0, <<>>)
      [] node.factor = AVL_BALANCED ->
            Inserted([node EXCEPT !.factor = AVL_LFT_HEAVY], FALSE, 0, <<>>)
      [] node.factor = AVL_RGT_HEAVY ->
            Inserted([node EXCEPT !.factor = AVL_BALANCED], TRUE, 0, <<>>)

GrownRight(node) ==
    CASE node.factor = AVL_LFT_HEAVY ->
            Inserted([node EXCEPT !.factor = AVL_BALANCED], TRUE, 0, <<>>)
      [] node.factor = AVL_BALANCED ->
            Inserted([node EXCEPT !.factor = AVL_RGT_HEAVY], FALSE, 0, <<>>)
      [] node.factor = AVL_RGT_HEAVY -> Inserted(rotate_right(node), TRUE, 0, <<>>)

\* Mutant of Unhidden: the assignment of data is missing, and the node keeps
\* the datum that has just been destroyed.
UnhiddenKeepsDatum(node, data) ==
    Inserted([node EXCEPT !.hidden = FALSE], TRUE, 0, <<node.data>>)

\* A hidden node takes the new datum in the place of its own.
Unhidden(node, data) ==
    Inserted([node EXCEPT !.data = data, !.hidden = FALSE], TRUE, 0, <<node.data>>)

\* insert adds a leaf below a node whose child is missing as it does for an
\* empty tree, and *balanced is 0 until something sets it.
RECURSIVE insert(_, _, _)
insert(node, data, nomem) ==
    IF node = Nil THEN
        IF nomem THEN Inserted(Nil, FALSE, -1, <<>>)
        ELSE Inserted(Leaf(data), FALSE, 0, <<>>)
    ELSE IF data[1] < node.data[1] THEN
        LET r == insert(node.left, data, nomem)
            grown == [node EXCEPT !.left = r.node]
        IN  IF r.ret # 0 \/ r.balanced THEN [r EXCEPT !.node = grown]
            ELSE GrownLeft(grown)
    ELSE IF data[1] > node.data[1] THEN
        LET r == insert(node.right, data, nomem)
            grown == [node EXCEPT !.right = r.node]
        IN  IF r.ret # 0 \/ r.balanced THEN [r EXCEPT !.node = grown]
            ELSE GrownRight(grown)
    ELSE IF ~node.hidden THEN Inserted(node, FALSE, 1, <<>>)
    ELSE Unhidden(node, data)

-----------------------------------------------------------------------------
(* hide, lookup, destroy *)

\* The node where the descent of hide and of lookup ends, Nil for none.
RECURSIVE Found(_, _)
Found(node, key) ==
    IF node = Nil THEN Nil
    ELSE IF key < node.data[1] THEN Found(node.left, key)
    ELSE IF key > node.data[1] THEN Found(node.right, key)
    ELSE node

\* The tree after hide has set the hidden flag of the node with the key.
RECURSIVE hide(_, _)
hide(node, key) ==
    IF node = Nil THEN Nil
    ELSE IF key < node.data[1] THEN [node EXCEPT !.left = hide(node.left, key)]
    ELSE IF key > node.data[1] THEN [node EXCEPT !.right = hide(node.right, key)]
    ELSE [node EXCEPT !.hidden = TRUE]

\* destroy_left and destroy_right: the subtree is freed in postorder, and
\* nothing more once size says that the tree is empty.  n is tree->size.
RECURSIVE destroy_left(_, _)
destroy_left(node, n) ==
    IF n = 0 \/ node = Nil THEN [n |-> n, destroys |-> <<>>]
    ELSE LET l == destroy_left(node.left, n)
             r == destroy_left(node.right, l.n)
         IN  [n |-> r.n - 1, destroys |-> l.destroys \o r.destroys \o <<node.data>>]

-----------------------------------------------------------------------------
(* The interface *)

bistree_init ==
    /\ root = Nil
    /\ size = 0
    /\ destroyed = <<>>
    /\ result = <<<<"init">>, 0, NoValue>>

\* bistree_insert; size grows with every node that bitree_ins_left and
\* bitree_ins_right add.
bistree_insert ==
    \E key \in Keys, nomem \in BOOLEAN : \E value \in Values[key] :
        LET r == insert(root, <<key, value>>, nomem)
        IN  /\ root' = r.node
            /\ size' = IF r.ret = 0 /\ r.destroys = <<>> THEN size + 1 ELSE size
            /\ destroyed' = r.destroys
            /\ result' = <<<<"insert", key, value>>, r.ret, NoValue>>

bistree_remove ==
    \E key \in Keys :
        /\ root' = hide(root, key)
        /\ result' = <<<<"remove", key>>, IF Found(root, key) = Nil THEN -1 ELSE 0,
                     NoValue>>
        /\ destroyed' = <<>>
        /\ size' = size

bistree_lookup ==
    \E key \in Keys :
        LET node == Found(root, key)
        IN  /\ result' = IF node = Nil \/ (node # Nil /\ node.hidden)
                         THEN <<<<"lookup", key>>, -1, NoValue>>
                         ELSE <<<<"lookup", key>>, 0, node.data[2]>>
            /\ destroyed' = <<>>
            /\ UNCHANGED <<root, size>>

\* bistree_destroy, and bistree_init of the cleared structure.
bistree_destroy ==
    /\ root' = Nil
    /\ size' = 0
    /\ destroyed' = destroy_left(root, size).destroys
    /\ result' = <<<<"destroy">>, Len(destroyed'), NoValue>>

Init == bistree_init

Next ==
    \/ bistree_insert
    \/ bistree_remove
    \/ bistree_lookup
    \/ bistree_destroy

Spec == Init /\ [][Next]_vars

-----------------------------------------------------------------------------
(* The tree as a set of nodes *)

RECURSIVE Nodes(_)
Nodes(node) ==
    IF node = Nil THEN {} ELSE {node} \cup Nodes(node.left) \cup Nodes(node.right)

RECURSIVE Count(_)
Count(node) == IF node = Nil THEN 0 ELSE 1 + Count(node.left) + Count(node.right)

RECURSIVE Height(_)
Height(node) ==
    IF node = Nil THEN 0
    ELSE LET l == Height(node.left)
             r == Height(node.right)
         IN  1 + (IF l > r THEN l ELSE r)

\* The data of the nodes whose hidden flag is h, as a function of the key.
Contents(h) ==
    LET N == {n \in Nodes(root) : n.hidden = h}
    IN  [k \in {n.data[1] : n \in N} |-> (CHOOSE n \in N : n.data[1] = k).data[2]]

BS == INSTANCE BisTreeSpec WITH
        live <- Contents(FALSE),
        removed <- Contents(TRUE),
        lost <- ToBag(destroyed)

-----------------------------------------------------------------------------
(* Properties *)

\* Keys are in search order through all rotations, or else hide and lookup,
\* which descend by comparison, would miss data that the tree holds.
Ordered ==
    \A n \in Nodes(root) :
        /\ \A m \in Nodes(n.left) : m.data[1] < n.data[1]
        /\ \A m \in Nodes(n.right) : m.data[1] > n.data[1]

\* The tree is an AVL tree: every factor, which is only ever adjusted and
\* never measured, is the difference of the heights of the two subtrees, and
\* one of the three values that the switch in insert has a case for.
Balanced ==
    \A n \in Nodes(root) :
        /\ n.factor = Height(n.left) - Height(n.right)
        /\ n.factor \in {AVL_LFT_HEAVY, AVL_BALANCED, AVL_RGT_HEAVY}

\* size counts the nodes, so that bistree_destroy does not stop early.
SizeIsCount == size = Count(root)

\* The tree behaves as the set of BisTreeSpec: what is inserted is found
\* until it is removed, nothing is inserted twice, and every datum the tree
\* accepted is passed to the destroy callback once, the one that the tree
\* held, and not the one that takes its place.
Refines == BS!Spec
=============================================================================
