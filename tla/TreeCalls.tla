----------------------------- MODULE TreeCalls -----------------------------
(***************************************************************************)
(* The crit-bit tree on its own, driven by insertions and removals of keys *)
(* in any order: CritbitTree::insert, and find_leaf followed by            *)
(* remove_leaf_by_index, as OrderBook::place_order and fill_order call     *)
(* them.  The value of a leaf plays no part in the shape of the tree.      *)
(***************************************************************************)
EXTENDS CritbitTree

CONSTANT TreeKeys   \* the keys that are inserted and removed

ASSUME KeysAssumption == TreeKeys \subseteq 0..MAX_INDEX

VARIABLES
  tree,
  error     \* the error of the last call

vars == <<tree, error>>

Init == tree = EmptyTree /\ error = "none"

\* An Err discards what the call did to the tree.
Return(t) ==
  /\ error' = t.err
  /\ tree' = IF t.err = "none" THEN t ELSE tree

InsertKey(key) == Return(Insert(tree, key, "tick"))

RemoveKey(key) ==
  LET i == FindLeaf(tree, key)
  IN  Return(IF i = Broken THEN Fail(tree, "LeafNodeShouldExist")
             ELSE IF i = None THEN Fail(tree, "NotFound")
             ELSE RemoveLeafByIndex(tree, i))

Next == \E key \in TreeKeys : InsertKey(key) \/ RemoveKey(key)

Spec == Init /\ [][Next]_vars

-----------------------------------------------------------------------------
Keys == {tree.leaves[i].key : i \in DOMAIN tree.leaves}

\* The node with tree index c has parent p in its own parent field.
HangsOn(c, p) ==
  \/ c \in DOMAIN tree.internal /\ tree.internal[c].parent = p
  \/ /\ MAX_INDEX - c \in DOMAIN tree.leaves
     /\ tree.leaves[MAX_INDEX - c].parent = p

\* The links make a full binary tree: parents and children agree in both
\* directions, a node tests a more significant bit than the nodes below it,
\* and there is one internal node less than there are leaves, so that a
\* reset leaves no internal node behind for a later insert to run into.
WellLinked ==
  /\ \A n \in DOMAIN tree.internal :
       LET node == tree.internal[n]
       IN  /\ node.left # node.right
           /\ \A c \in {node.left, node.right} :
                /\ HangsOn(c, n)
                /\ c \in DOMAIN tree.internal =>
                     tree.internal[c].mask < node.mask
  /\ DOMAIN tree.leaves = {} <=> tree.root = PARTITION_INDEX
  /\ DOMAIN tree.leaves # {} => HangsOn(tree.root, PARTITION_INDEX)
  /\ Cardinality(DOMAIN tree.internal) =
       Max({0, Cardinality(DOMAIN tree.leaves) - 1})

\* find_leaf finds every key that has a leaf and no other, so a price has one
\* level and an order can be reached by its price.  An empty tree is left out: the
\* documentation of find_leaf names another result for it than the code gives.
Searchable ==
  /\ \A i \in DOMAIN tree.leaves : FindLeaf(tree, tree.leaves[i].key) = i
  /\ Keys # {} => \A p \in (0..MAX_INDEX) \ Keys : FindLeaf(tree, p) = None

\* The cached min_leaf_index and max_leaf_index, which the matching loop reads
\* as the best ask and the best bid, are those of the least and greatest key.
BestPriceCached ==
  /\ MinOrder(tree) = IF Keys = {} THEN None ELSE Min(Keys)
  /\ MaxOrder(tree) = IF Keys = {} THEN None ELSE Max(Keys)

\* next_leaf and previous_leaf, which move the caches when the best level is
\* used up, step to the neighbouring key.
NeighboursInOrder ==
  \A i \in DOMAIN tree.leaves :
    LET key == tree.leaves[i].key
        next == NextLeaf(tree, key)
        previous == PreviousLeaf(tree, key)
        above == {k \in Keys : k > key}
        below == {k \in Keys : k < key}
    IN  /\ IF above = {} THEN next = None
           ELSE next # Broken /\ tree.leaves[next].key = Min(above)
        /\ IF below = {} THEN previous = None
           ELSE previous # Broken /\ tree.leaves[previous].key = Max(below)

\* The errors the code calls impossible do not happen: an insertion fails only
\* when the key is there or no leaf index is left, a removal only when the key
\* is not there.
OnlyExpectedErrors ==
  error \in {"none", "AlreadyExist", "ExceedCapacity", "NotFound"}
=============================================================================
