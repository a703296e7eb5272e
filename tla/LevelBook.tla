----------------------------- MODULE LevelBook -----------------------------
(***************************************************************************)
(* One side of the book as a map from prices to ticks, driven by the calls *)
(* of the OrderBook trait.  It is the specification of the crit-bit tree   *)
(* (CritbitBook implements it), the book that HybridOrderbook composes     *)
(* with the pool (through the operators of Levels), and an implementation  *)
(* of the abstract OrderBook.                                              *)
(***************************************************************************)
EXTENDS Levels, BookCalls

VARIABLES
  levels,     \* price -> tick
  nextId,     \* the id of the next order (Pool::next_bid_order_id / ask)
  request,    \* the last call, with its arguments
  reply       \* what it returned

vars == <<levels, nextId, request, reply>>

Answer(ok, pairs) == [ok |-> ok, pairs |-> pairs]

Init ==
  /\ levels = NoLevels
  /\ nextId = 0
  /\ request = <<"new">>
  /\ reply = Answer(TRUE, <<>>)

\* A refused call leaves the book and the id counter as they are.
Refuse == reply' = Answer(FALSE, <<>>) /\ UNCHANGED <<levels, nextId>>

PlaceOrder(owner, price, quantity) ==
  /\ request' = <<"place", owner, price, quantity>>
  /\ nextId < MaxOrders
  /\ quantity > 0
  /\ \/ /\ levels' = PlacedAt(levels, price, nextId, owner, quantity)
        /\ nextId' = nextId + 1
        /\ reply' = Answer(TRUE, <<>>)
     \/ /\ price \notin DOMAIN levels   \* no leaf left for a new level
        /\ Refuse

FillOrder(price, quantity) ==
  /\ request' = <<"fill", price, quantity>>
  /\ quantity > 0
  /\ levels' = FilledAt(levels, price, quantity)
  /\ reply' = Answer(TRUE, FilledPairsAt(levels, price, quantity))
  /\ UNCHANGED nextId

CancelOrder(owner, price, id, quantity) ==
  /\ request' = <<"cancel", owner, price, id, quantity>>
  /\ IF CanCancelAt(levels, price, owner, id, quantity)
     THEN /\ levels' = CanceledAt(levels, price, id, quantity)
          /\ reply' = Answer(TRUE, <<>>)
          /\ UNCHANGED nextId
     ELSE Refuse

Next ==
  \E price \in Prices, quantity \in Amounts :
    \/ FillOrder(price, quantity)
    \/ \E owner \in Owners :
         \/ PlaceOrder(owner, price, quantity)
         \/ \E id \in 0..(nextId - 1) : CancelOrder(owner, price, id, quantity)

Spec == Init /\ [][Next]_vars

-----------------------------------------------------------------------------
\* An order id is at one level only, and was given out: a later order never
\* overwrites an open one in the BTreeMap of a tick, and a level found by
\* price and id is the level the order was placed at.
IdsAreFresh ==
  /\ \A p \in DOMAIN levels : DOMAIN levels[p] \subseteq 0..(nextId - 1)
  /\ \A p, q \in DOMAIN levels : p # q => DOMAIN levels[p] \cap DOMAIN levels[q] = {}

\* Levels refines OrderBook: orders with nothing left and levels without
\* orders are bookkeeping the pool never sees.
Open(tick) == {id \in DOMAIN tick : tick[id].quantity > 0}

OpenOrders ==
  [id \in UNION {Open(levels[p]) : p \in DOMAIN levels} |->
     LET p == CHOOSE p \in DOMAIN levels : id \in DOMAIN levels[p]
     IN  [owner |-> levels[p][id].owner, price |-> p,
          quantity |-> levels[p][id].quantity]]

Abstract == INSTANCE OrderBook WITH
  orders <- OpenOrders,
  reply <- [reply EXCEPT !.pairs = SelectSeq(@, LAMBDA pair : pair.quantity > 0)]

\* The book serves price levels in time priority, takes no more and no less
\* than asked and offered, and lets nobody but the owner reduce an order, as
\* Tick::filled and Tick::canceled should.
ImplementsOrderBook == Abstract!Spec
=============================================================================
