---------------------------- MODULE CritbitBook ----------------------------
(***************************************************************************)
(* The OrderBook implementation of CritbitTree<Unit, Tick> in              *)
(* pallets/hybrid-orderbook/src/critbit.rs: one side of a pool's book, and *)
(* the calls the pool makes on it.                                         *)
(*                                                                         *)
(*   tree   the tree, with a tick in every leaf                            *)
(*   nextId the id the pool gives to the next order, so that ids are fresh *)
(*   request the last call, with its arguments                             *)
(*   reply  what it returned: its error, and what was filled               *)
(***************************************************************************)
EXTENDS CritbitTree, Levels, BookCalls, SequencesExt

ASSUME PricesAssumption == Prices \subseteq 1..MAX_INDEX

VARIABLES tree, nextId, request, reply

vars == <<tree, nextId, request, reply>>

Reply(err, pairs) == [err |-> err, pairs |-> pairs]

Init ==
  /\ tree = EmptyTree
  /\ nextId = 0
  /\ request = <<"new">>
  /\ reply = Reply("none", <<>>)

\* The caller keeps the tree and the id counter only when there is no error.
Return(call, t, pairs, id) ==
  /\ request' = call
  /\ reply' = Reply(t.err, IF t.err = "none" THEN pairs ELSE <<>>)
  /\ tree' = IF t.err = "none" THEN t ELSE tree
  /\ nextId' = IF t.err = "none" THEN id ELSE nextId

Place(owner, price, quantity) ==
  LET i == FindLeaf(tree, price)
  IN  IF i \in {Broken, PARTITION_INDEX} THEN Fail(tree, "LeafNodeShouldExist")
      ELSE IF i = None
      THEN Insert(tree, price, NewTick(nextId, owner, quantity))
      ELSE [tree EXCEPT !.leaves[i].value =
                            Placed(@, nextId, owner, quantity)]

PlaceOrder(owner, price, quantity) ==
  /\ nextId < MaxOrders
  /\ quantity > 0
  /\ Return(<<"place", owner, price, quantity>>,
            Place(owner, price, quantity), <<>>, nextId + 1)

Fill(price, quantity) ==
  LET i == FindLeaf(tree, price)
      tick == Filled(tree.leaves[i].value, quantity)
      filled == [tree EXCEPT !.leaves[i].value = tick]
  IN  IF i = Broken THEN Fail(tree, "LeafNodeShouldExist")
      ELSE IF i = None THEN tree
      ELSE IF DOMAIN tick = {} THEN RemoveLeafByIndex(filled, i)
      ELSE filled

FillPairs(price, quantity) ==
  LET i == FindLeaf(tree, price)
  IN  IF i \in {None, Broken} THEN <<>>
      ELSE FilledPairs(tree.leaves[i].value, quantity)

FillOrder(price, quantity) ==
  /\ quantity > 0
  /\ Return(<<"fill", price, quantity>>,
            Fill(price, quantity), FillPairs(price, quantity), nextId)

\* Tick::filled as the code computes it, turn by turn; Filled and FilledPairs of
\* Tick say what every order gives.
FilledLoop(tick, quantity) ==
  LET turn(s, id) ==
        LET remain == quantity - s.filled
            own == tick[id].quantity
            part == IF own >= remain THEN remain ELSE own
        IN  IF remain = 0 THEN s
            ELSE [tick |-> IF own >= remain
                           THEN [s.tick EXCEPT ![id].quantity = @ - remain]
                           ELSE Restrict(s.tick, DOMAIN s.tick \ {id}),
                  filled |-> s.filled + part,
                  pairs |-> Append(s.pairs, [owner |-> tick[id].owner,
                                             quantity |-> part])]
  IN  FoldLeft(turn, [tick |-> tick, filled |-> 0, pairs |-> <<>>],
               InIdOrder(DOMAIN tick))

Cancel(owner, price, id, quantity) ==
  LET i == FindLeaf(tree, price)
  IN  IF i = Broken THEN Fail(tree, "LeafNodeShouldExist")
      ELSE IF i = None THEN Fail(tree, "NotFound")
      ELSE IF ~CanCancel(tree.leaves[i].value, owner, id, quantity)
      THEN Fail(tree, "ValueOps")
      ELSE [tree EXCEPT !.leaves[i].value = Canceled(@, id, quantity)]

CancelOrder(owner, price, id, quantity) ==
  Return(<<"cancel", owner, price, id, quantity>>,
         Cancel(owner, price, id, quantity), <<>>, nextId)

Next ==
  \E price \in Prices, quantity \in Amounts :
    \/ FillOrder(price, quantity)
    \/ \E owner \in Owners :
         \/ PlaceOrder(owner, price, quantity)
         \/ \E id \in 0..(nextId - 1) : CancelOrder(owner, price, id, quantity)

Spec == Init /\ [][Next]_vars

-----------------------------------------------------------------------------
Keys == {tree.leaves[i].key : i \in DOMAIN tree.leaves}

-----------------------------------------------------------------------------
LevelOf(price) ==
  CHOOSE i \in DOMAIN tree.leaves : tree.leaves[i].key = price

LevelsOfTree == INSTANCE LevelBook WITH
  levels <- [p \in Keys |-> tree.leaves[LevelOf(p)].value],
  reply <- [ok |-> reply.err = "none", pairs |-> reply.pairs]

\* The tree behaves like the map from prices to ticks that the pool takes it
\* for, whatever splits and lifts its nodes went through.
ImplementsLevels == LevelsOfTree!Spec

\* The loop of Tick::filled gives every order the share that its place in the
\* queue entitles it to, for every tick the tree can come to hold.
LoopGivesShares ==
  \A i \in DOMAIN tree.leaves, quantity \in Amounts :
    LET tick == tree.leaves[i].value
        loop == FilledLoop(tick, quantity)
    IN  /\ loop.tick = Filled(tick, quantity)
        /\ loop.filled = Min({quantity, Depth(tick)})
        /\ FilledPairs(tick, quantity) =
             IF loop.filled = 0 THEN <<>> ELSE loop.pairs

\* The tree serves price levels in time priority, takes no more and no less
\* than asked and offered, and lets nobody but the owner reduce an order, as
\* Tick::filled and Tick::canceled should.
ImplementsOrderBook == LevelsOfTree!ImplementsOrderBook
=============================================================================
