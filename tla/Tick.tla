------------------------------- MODULE Tick -------------------------------
(***************************************************************************)
(* One price level of the orderbook: `Tick` and its OrderInterface         *)
(* implementation in pallets/hybrid-orderbook/src/types.rs.                *)
(*                                                                         *)
(* A tick is a function from the ids of its open orders to records with    *)
(* the owner and the open quantity.  `open_orders` is a BTreeMap, so the   *)
(* iteration order of the code is the order of the ids, which is the order *)
(* in which the orders were placed.  `expired_at` is stored by the code    *)
(* and never read, and is left out.                                        *)
(***************************************************************************)
EXTENDS IdOrder, Sequences, Functions

Order(owner, quantity) == [owner |-> owner, quantity |-> quantity]

\* Tick::new
NewTick(id, owner, quantity) == [i \in {id} |-> Order(owner, quantity)]

\* Tick::placed.  BTreeMap::insert overwrites an order with the same id.
Placed(tick, id, owner, quantity) ==
  [i \in DOMAIN tick \cup {id} |-> IF i = id THEN Order(owner, quantity) ELSE tick[i]]

Quantities(tick) == [id \in DOMAIN tick |-> tick[id].quantity]

\* What is open at the level in total.
Depth(tick) == SumFunction(Quantities(tick))

\* What the orders served before `id` offer.
Ahead(tick, id) ==
  SumFunctionOnSet(Quantities(tick), {i \in DOMAIN tick : i < id})

(***************************************************************************)
(* Tick::filled.  The loop serves the orders by increasing id while some   *)
(* of the quantity remains.  An order smaller than what remains is taken   *)
(* whole and removed.  The order that covers what remains is reduced, and  *)
(* stays open even when this leaves it with quantity 0.                    *)
(***************************************************************************)
Reached(tick, quantity) == {id \in DOMAIN tick : Ahead(tick, id) < quantity}

\* Mutant: an order that is filled exactly is removed too.
ExhaustedOrEven(tick, quantity) ==
  {id \in DOMAIN tick : Ahead(tick, id) + tick[id].quantity <= quantity}

Exhausted(tick, quantity) ==
  {id \in DOMAIN tick : Ahead(tick, id) + tick[id].quantity < quantity}

\* Mutant: the last order reached is taken whole.
TakenWhole(tick, id, quantity) ==
  IF id \in Reached(tick, quantity) THEN tick[id].quantity ELSE 0

Taken(tick, id, quantity) ==
  IF id \notin Reached(tick, quantity) THEN 0
  ELSE IF id \in Exhausted(tick, quantity) THEN tick[id].quantity
  ELSE quantity - Ahead(tick, id)

Filled(tick, quantity) ==
  [id \in DOMAIN tick \ Exhausted(tick, quantity) |->
     [tick[id] EXCEPT !.quantity = @ - Taken(tick, id, quantity)]]

\* The (owner, quantity) pairs the call returns.  The code returns None when
\* nothing was filled, and its caller handles None like an empty list.
FilledPairs(tick, quantity) ==
  LET ids == InIdOrder(Reached(tick, quantity))
  IN  IF quantity = 0 \/ Depth(tick) = 0 THEN <<>>
      ELSE [n \in 1..Len(ids) |->
              [owner |-> tick[ids[n]].owner,
               quantity |-> Taken(tick, ids[n], quantity)]]

(***************************************************************************)
(* Tick::canceled: the three error cases, and the result without them.     *)
(***************************************************************************)
\* Mutant: anybody cancels.
CanCancelAnyone(tick, owner, id, quantity) ==
  id \in DOMAIN tick /\ tick[id].quantity >= quantity

CanCancel(tick, owner, id, quantity) ==
  /\ id \in DOMAIN tick
  /\ tick[id].owner = owner
  /\ tick[id].quantity >= quantity

Canceled(tick, id, quantity) ==
  IF tick[id].quantity = quantity
  THEN [i \in DOMAIN tick \ {id} |-> tick[i]]
  ELSE [tick EXCEPT ![id].quantity = @ - quantity]
=============================================================================
