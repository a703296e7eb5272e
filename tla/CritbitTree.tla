---------------------------- MODULE CritbitTree ----------------------------
(***************************************************************************)
(* The crit-bit tree of pallets/hybrid-orderbook/src/critbit.rs as         *)
(* operators on a record, one per method of `CritbitTree<K, V>`.           *)
(*                                                                         *)
(* Nodes are addressed by one number, the tree index: an internal node by  *)
(* its own index, below PARTITION_INDEX, and the leaf of leaf index i by   *)
(* MAX_INDEX - i.  PARTITION_INDEX itself stands for "no node".  K is an   *)
(* unsigned integer of Bits bits.                                          *)
(*                                                                         *)
(* A method that returns an Err leaves a tree that its caller throws away  *)
(* (the pool is written back only when the whole call succeeds), so an     *)
(* error is the value of the field err and nothing else of it is read.     *)
(***************************************************************************)
EXTENDS Integers, FiniteSetsExt, TLC

CONSTANT Bits

ASSUME BitsAssumption == Bits \in Nat /\ Bits >= 2

MAX_INDEX == 2^Bits - 1
PARTITION_INDEX == 2^(Bits - 1)
CAPACITY == MAX_INDEX - PARTITION_INDEX

Masks == {2^i : i \in 0..(Bits - 1)}
SetIn(mask, key) == (key \div mask) % 2 = 1

\* Mutant: the least significant such bit.
NewMaskLowest(key, closest) ==
  Min({m \in Masks : SetIn(m, key) # SetIn(m, closest)})

\* OrderBookIndex::new_mask: the most significant bit in which the keys differ.
NewMask(key, closest) ==
  Max({m \in Masks : SetIn(m, key) # SetIn(m, closest)})

\* Results that are not an index: Ok(None), and an Err "for safe code".
None == -1
Broken == -2

EmptyTree ==
  [root |-> PARTITION_INDEX, internal |-> <<>>, leaves |-> <<>>,
   max |-> PARTITION_INDEX, min |-> PARTITION_INDEX,
   nextInternal |-> 0, nextLeaf |-> 0, err |-> "none"]

Fail(t, error) == [t EXCEPT !.err = error]

IsLeftChild(t, parent, child) ==
  parent \in DOMAIN t.internal /\ t.internal[parent].left = child

-----------------------------------------------------------------------------
(* Walking down: left_most_leaf, right_most_leaf, get_closest_leaf_index.  *)

\* The leaf that is reached from a node when `child` says which way to take.
LeafBelow(t, from, child) ==
  LET down[n \in 0..MAX_INDEX] ==
        IF n >= PARTITION_INDEX THEN n
        ELSE IF n \in DOMAIN t.internal THEN down[child[n]]
        ELSE Broken
      end == down[from]
  IN  IF end = Broken \/ MAX_INDEX - end \notin DOMAIN t.leaves
      THEN Broken ELSE MAX_INDEX - end

Towards(node, key) == IF SetIn(node.mask, key) THEN node.right ELSE node.left

GetClosestLeafIndex(t, key) ==
  IF t.root = PARTITION_INDEX THEN None
  ELSE LeafBelow(t, t.root, [n \in DOMAIN t.internal |-> Towards(t.internal[n], key)])

\* Mutant: the key of the closest leaf is not compared.
FindLeafClosest(t, key) == GetClosestLeafIndex(t, key)

FindLeaf(t, key) ==
  LET i == GetClosestLeafIndex(t, key)
  IN  IF i \in {None, Broken} \/ t.leaves[i].key = key THEN i ELSE None

(* Walking up: the loops of previous_leaf and next_leaf stop at the first  *)
(* parent whose other child holds the neighbour.                           *)

ParentOf(t, n) ==
  IF n > PARTITION_INDEX THEN t.leaves[MAX_INDEX - n].parent
  ELSE IF n \in DOMAIN t.internal THEN t.internal[n].parent
  ELSE Broken

ClimbWhileLeft(t, from, isLeft) ==
  LET up[n \in 0..MAX_INDEX] ==
        LET parent == ParentOf(t, n)
        IN  IF parent \notin {PARTITION_INDEX, Broken}
               /\ IsLeftChild(t, parent, n) = isLeft
            THEN up[parent] ELSE parent
  IN  up[from]

Neighbour(t, key, wasLeft, other, child) ==
  LET i == FindLeaf(t, key)
      fork == ClimbWhileLeft(t, MAX_INDEX - i, wasLeft)
  IN  IF i \in {None, Broken} THEN Broken
      ELSE IF fork = PARTITION_INDEX THEN None
      ELSE IF fork \notin DOMAIN t.internal THEN Broken
      ELSE LeafBelow(t, other[fork], child)

LeftOf(t) == [n \in DOMAIN t.internal |-> t.internal[n].left]
RightOf(t) == [n \in DOMAIN t.internal |-> t.internal[n].right]

PreviousLeaf(t, key) == Neighbour(t, key, TRUE, LeftOf(t), RightOf(t))

\* Mutant: the greatest key of the next subtree instead of the least.
NextLeafRightMost(t, key) == Neighbour(t, key, FALSE, RightOf(t), RightOf(t))

NextLeaf(t, key) == Neighbour(t, key, FALSE, RightOf(t), LeftOf(t))

-----------------------------------------------------------------------------
(* min_leaf, max_leaf and their wrappers min_order, max_order: the key of  *)
(* the cached leaf, None for an empty tree and when the cache dangles.     *)

MinOrder(t) ==
  IF t.min \in DOMAIN t.leaves THEN t.leaves[t.min].key ELSE None

MaxOrder(t) ==
  IF t.max \in DOMAIN t.leaves THEN t.leaves[t.max].key ELSE None

\* update_ref: makes `child` the left or right child of `parent`.
UpdateRef(t, parent, child, isLeft) ==
  IF t.err # "none" THEN t
  ELSE IF parent \notin DOMAIN t.internal
       THEN Fail(t, "InternalNodeShouldExist")
  ELSE LET linked == IF isLeft
                     THEN [t EXCEPT !.internal[parent].left = child]
                     ELSE [t EXCEPT !.internal[parent].right = child]
       IN  IF child > PARTITION_INDEX
           THEN IF MAX_INDEX - child \in DOMAIN t.leaves
                THEN [linked EXCEPT !.leaves[MAX_INDEX - child].parent = parent]
                ELSE Fail(t, "LeafNodeShouldExist")
           ELSE IF child \in DOMAIN t.internal
                THEN [linked EXCEPT !.internal[child].parent = parent]
                ELSE Fail(t, "InternalNodeShouldExist")

\* Mutant: only the maximum is kept up to date.
UpdateMaxLeaf(t, i, key) ==
  [t EXCEPT
     !.max = IF @ \in DOMAIN t.leaves /\ t.leaves[@].key >= key THEN @ ELSE i]

UpdateMinMaxLeaf(t, i, key) ==
  [t EXCEPT
     !.min = IF @ \in DOMAIN t.leaves /\ t.leaves[@].key <= key THEN @ ELSE i,
     !.max = IF @ \in DOMAIN t.leaves /\ t.leaves[@].key >= key THEN @ ELSE i]
-----------------------------------------------------------------------------
(* insert: where the new internal node goes.  The loop stops at the first  *)
(* node that tests a less significant bit than the new one.  The result is *)
(* the pair (internal_node_parent_index, curr).                            *)

InsertionPoint(t, key, mask) ==
  LET down[edge \in (0..MAX_INDEX) \X (0..MAX_INDEX)] ==
        LET curr == edge[2]
        IN  IF curr \in DOMAIN t.internal /\ mask <= t.internal[curr].mask
            THEN down[<<curr, Towards(t.internal[curr], key)>>]
            ELSE edge
  IN  down[<<PARTITION_INDEX, t.root>>]

\* Hangs leaf i, with its new parent n, into the edge found by the loop.
Hang(t, i, n, key, mask) ==
  LET edge == InsertionPoint(t, key, mask)
      parent == edge[1]
      curr == edge[2]
      node == [mask |-> mask, parent |-> PARTITION_INDEX,
               left |-> PARTITION_INDEX, right |-> PARTITION_INDEX]
      withNode == [t EXCEPT !.internal = n :> node @@ @]
      attached == IF parent = PARTITION_INDEX
                  THEN [withNode EXCEPT !.root = n]
                  ELSE UpdateRef(withNode, parent, n,
                                 IsLeftChild(withNode, parent, curr))
      isLeft == ~SetIn(mask, key)
  IN  UpdateRef(UpdateRef(attached, n, MAX_INDEX - i, isLeft), n, curr, ~isLeft)

\* Mutant: the last leaf takes the tree index PARTITION_INDEX, that of no node.
LeafLeftPastEnd(t) == t.nextLeaf <= CAPACITY

\* The check on the index that next_index returns for a leaf.
LeafLeft(t) == t.nextLeaf + 1 <= CAPACITY

Insert(t, key, value) ==
  LET i == t.nextLeaf
      n == t.nextInternal
      leaf == [parent |-> PARTITION_INDEX, key |-> key, value |-> value]
      grown == [t EXCEPT !.nextLeaf = @ + 1, !.leaves = i :> leaf @@ @]
      closest == GetClosestLeafIndex(t, key)
      mask == NewMask(key, t.leaves[closest].key)
  IN  IF ~LeafLeft(t) THEN Fail(t, "ExceedCapacity")
      ELSE IF i \in DOMAIN t.leaves THEN Fail(t, "UniqueIndex")
      ELSE IF closest = Broken THEN Fail(t, "LeafNodeShouldExist")
      ELSE IF closest = None
      THEN [grown EXCEPT !.root = MAX_INDEX, !.max = i, !.min = i]
      ELSE IF t.leaves[closest].key = key THEN Fail(t, "AlreadyExist")
      ELSE IF n = MAX_INDEX THEN Fail(t, "Overflow")
      ELSE IF n \in DOMAIN t.internal THEN Fail(t, "UniqueIndex")
      ELSE UpdateMinMaxLeaf(
             Hang([grown EXCEPT !.nextInternal = @ + 1], i, n, key, mask),
             i, key)

-----------------------------------------------------------------------------
(* remove_leaf_by_index                                                    *)

Without(f, x) == [y \in DOMAIN f \ {x} |-> f[y]]

\* reset, which leaves internal_nodes and leaves as they are.
Reset(t) == [EmptyTree EXCEPT !.internal = t.internal, !.leaves = t.leaves]

\* The sibling of the removed leaf takes the place of their parent.
Relinked(t, i, parent) ==
  LET node == t.internal[parent]
      sibling == IF IsLeftChild(t, parent, MAX_INDEX - i)
                 THEN node.right ELSE node.left
  IN  IF node.parent # PARTITION_INDEX
      THEN UpdateRef(t, node.parent, sibling, IsLeftChild(t, node.parent, parent))
      ELSE IF sibling \in DOMAIN t.internal
      THEN [t EXCEPT !.internal[sibling].parent = PARTITION_INDEX, !.root = sibling]
      ELSE IF MAX_INDEX - sibling \in DOMAIN t.leaves
      THEN [t EXCEPT !.leaves[MAX_INDEX - sibling].parent = PARTITION_INDEX,
                     !.root = sibling]
      ELSE Fail(t, "LeafNodeShouldExist")

\* Mutant: the parent is not removed.
LiftKeepsParent(t, i, parent) == Relinked(t, i, parent)

Lift(t, i, parent) ==
  [Relinked(t, i, parent) EXCEPT !.internal = Without(@, parent)]

RemoveLeafByIndex(t, i) ==
  LET leaf == t.leaves[i]
      next == IF t.min = i THEN NextLeaf(t, leaf.key) ELSE t.min
      previous == IF t.max = i THEN PreviousLeaf(t, leaf.key) ELSE t.max
      shrunk == [t EXCEPT !.leaves = Without(@, i),
                          !.min = IF next = None THEN @ ELSE next,
                          !.max = IF previous = None THEN @ ELSE previous]
  IN  IF i \notin DOMAIN t.leaves THEN Fail(t, "NotFound")
      ELSE IF Broken \in {next, previous} THEN Fail(t, "LeafNodeShouldExist")
      ELSE IF None \in {next, previous} THEN Reset(shrunk)
      ELSE IF leaf.parent \notin DOMAIN t.internal
      THEN Fail(t, "InternalNodeShouldExist")
      ELSE Lift(shrunk, i, leaf.parent)
=============================================================================
