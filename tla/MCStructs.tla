----------------------------- MODULE MCStructs ------------------------------
(***************************************************************************)
(* The data structures of lib/_structs, one in each behaviour: they share  *)
(* no state, so that a run explores each of them from its own initial      *)
(* state while the others stay as they are.                                *)
(***************************************************************************)
EXTENDS Tables, TLC

CONSTANTS
    Keys, Values,             \* of the search tree
    Trees, MaxNodes           \* of the binary trees

VARIABLES
    structure,                                         \* the one in use
    treeRoot, treeSize, treeDestroyed, treeResult,     \* of the search tree
    biRoot, biSize, biDestroy, biResult                \* of the binary trees

treeVars == <<treeRoot, treeSize, treeDestroyed, treeResult>>
biVars == <<biRoot, biSize, biDestroy, biResult>>

Tree == INSTANCE BisTree WITH
            root <- treeRoot, size <- treeSize,
            destroyed <- treeDestroyed, result <- treeResult

\* Two keys come with two values each, so that a datum can be told from the
\* one whose place it takes; one is enough for the others.
TwoOfTwo == [k \in Keys |-> IF k \in {2, 5} THEN {"v", "w"} ELSE {"v"}]

\* Multiples of 3, so that all keys share a bucket of three and of one.
HashByThree == [k \in TableKeys |-> 3 * k]

Bi == INSTANCE BiTree WITH
            root <- biRoot, size <- biSize, destroy <- biDestroy,
            result <- biResult

\* Which address malloc returns makes no difference.
Symmetry == Permutations(Cells)

\* What a call returned, and what it passed to a callback, is overwritten by
\* the next call and read by none: states that differ in it alone have the
\* same future.  The properties of the transitions are checked on each
\* transition, also on one to a state that was seen before.
View == <<structure, structVars, destroy, destroying, destroyed,
          treeRoot, treeSize, buckets, tableSize, table, tableDestroy, kv,
          biRoot, biSize, biDestroy>>

StructsInit ==
    /\ structure \in {"list", "tree", "table", "bitree"}
    /\ Init
    /\ Tree!Init
    /\ Table!Init
    /\ Bi!Init
    /\ structure # "list" => ~destroy
    /\ structure # "bitree" => biDestroy = {}

StructsNext ==
    /\ UNCHANGED structure
    /\ \/ structure = "list" /\ Next /\ UNCHANGED <<treeVars, tableVars, biVars>>
       \/ structure = "tree" /\ Tree!Next /\ UNCHANGED <<vars, tableVars, biVars>>
       \/ structure = "table" /\ Table!Next /\ UNCHANGED <<vars, treeVars, biVars>>
       \/ structure = "bitree" /\ Bi!Next /\ UNCHANGED <<vars, treeVars, tableVars>>

StructsSpec ==
    StructsInit /\ [][StructsNext]_<<structure, vars, treeVars, tableVars, biVars>>

\* The search tree of bistree.c is an AVL tree whose factors are the
\* differences of the heights, although insert and the rotations only adjust
\* them; its nodes are in order and as many as size says.
TreeShape == Tree!Ordered /\ Tree!Balanced /\ Tree!SizeIsCount

\* It behaves as the map with hidden entries of BisTreeSpec.
TreeRefines == Tree!Refines

\* The trees of bitree.c behave as the functions from paths to data of
\* BiTreeSpec through insertions, removals, merges and traversals.
BiTreeRefines == Bi!Refines
=============================================================================
