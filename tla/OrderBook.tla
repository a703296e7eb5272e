----------------------------- MODULE OrderBook -----------------------------
(***************************************************************************)
(* What one side of the book promises to the pool, without levels, ticks   *)
(* or a tree: a set of open orders, each with a positive quantity, served  *)
(* in price-time priority.  LevelBook is shown to implement this module.   *)
(*                                                                         *)
(*   orders  the open orders: id -> [owner, price, quantity]               *)
(*   nextId  the id of the next order                                      *)
(*   request the last call, with its arguments                             *)
(*   reply   what it returned                                              *)
(***************************************************************************)
EXTENDS BookCalls, IdOrder, Sequences, FiniteSetsExt, TLC

VARIABLES orders, nextId, request, reply

vars == <<orders, nextId, request, reply>>

Answer(ok, pairs) == [ok |-> ok, pairs |-> pairs]

Init ==
  /\ orders = <<>>
  /\ nextId = 0
  /\ request = <<"new">>
  /\ reply = Answer(TRUE, <<>>)

At(price) == {id \in DOMAIN orders : orders[id].price = price}

\* The orders after each has given up what `taken` says; the used up ones go.
After(taken) ==
  LET left == [id \in DOMAIN orders |->
                 [orders[id] EXCEPT !.quantity = @ - taken[id]]]
  IN  Restrict(left, {id \in DOMAIN left : left[id].quantity > 0})

PlaceOrder(owner, price, quantity) ==
  /\ request' = <<"place", owner, price, quantity>>
  /\ nextId < MaxOrders
  /\ quantity > 0
  /\ \/ /\ orders' = nextId :> [owner |-> owner, price |-> price,
                                quantity |-> quantity] @@ orders
        /\ nextId' = nextId + 1
        /\ reply' = Answer(TRUE, <<>>)
     \/ /\ reply' = Answer(FALSE, <<>>)
        /\ UNCHANGED <<orders, nextId>>

\* Older orders first: a younger order gives something only when every older
\* one at the price gives all it has.
Served(taken, price, quantity) ==
  /\ \A id \in DOMAIN orders :
       taken[id] <= IF id \in At(price) THEN orders[id].quantity ELSE 0
  /\ \A i, j \in At(price) :
       i < j /\ taken[j] > 0 => taken[i] = orders[i].quantity
  /\ LET offered == MapThenSumSet(LAMBDA id : orders[id].quantity, At(price))
     IN  SumFunction(taken) = Min({quantity, offered})

Payments(taken) ==
  LET givers == {id \in DOMAIN orders : taken[id] > 0}
      inOrder == InIdOrder(givers)
  IN  [n \in 1..Len(inOrder) |->
         [owner |-> orders[inOrder[n]].owner, quantity |-> taken[inOrder[n]]]]

FillOrder(price, quantity) ==
  /\ request' = <<"fill", price, quantity>>
  /\ quantity > 0
  /\ \E taken \in [DOMAIN orders -> 0..quantity] :
       /\ Served(taken, price, quantity)
       /\ orders' = After(taken)
       /\ reply' = Answer(TRUE, Payments(taken))
  /\ UNCHANGED nextId

\* Only the owner reduces an order, and by no more than is open.  The refusal
\* is certain otherwise, except for the reduction by nothing of an order that
\* is not open any more.
CancelOrder(owner, price, id, quantity) ==
  LET allowed == /\ id \in At(price)
                 /\ orders[id].owner = owner
                 /\ quantity <= orders[id].quantity
  IN  /\ request' = <<"cancel", owner, price, id, quantity>>
      /\ \/ /\ allowed
            /\ orders' = After([i \in DOMAIN orders |->
                                  IF i = id THEN quantity ELSE 0])
            /\ reply' = Answer(TRUE, <<>>)
         \/ /\ ~allowed
            /\ \/ reply' = Answer(FALSE, <<>>)
               \/ /\ id \notin DOMAIN orders /\ quantity = 0
                  /\ reply' = Answer(TRUE, <<>>)
            /\ UNCHANGED orders
      /\ UNCHANGED nextId

Next ==
  \E price \in Prices, quantity \in Amounts :
    \/ FillOrder(price, quantity)
    \/ \E owner \in Owners :
         \/ PlaceOrder(owner, price, quantity)
         \/ \E id \in 0..(nextId - 1) : CancelOrder(owner, price, id, quantity)

Spec == Init /\ [][Next]_vars
=============================================================================
