------------------------------ MODULE Levels ------------------------------
(***************************************************************************)
(* One side of the orderbook as the pool uses it: the OrderBook trait of   *)
(* pallets/hybrid-orderbook/src/types.rs, on a map from prices to ticks.   *)
(* CritbitBook shows that the crit-bit tree of critbit.rs implements these *)
(* operators.                                                              *)
(***************************************************************************)
EXTENDS Tick

NoLevels == [p \in {} |-> <<>>]

PlacedAt(levels, price, id, owner, quantity) ==
  LET tick == IF price \in DOMAIN levels
              THEN Placed(levels[price], id, owner, quantity)
              ELSE NewTick(id, owner, quantity)
  IN  [p \in DOMAIN levels \cup {price} |-> IF p = price THEN tick ELSE levels[p]]

\* Mutant: a level that a fill leaves without orders is kept.
FilledAtKeepsLevel(levels, price, quantity) ==
  IF price \notin DOMAIN levels THEN levels
  ELSE [levels EXCEPT ![price] = Filled(@, quantity)]

\* A level is dropped when a fill leaves it without orders.  A price without a
\* level fills nothing.
FilledAt(levels, price, quantity) ==
  IF price \notin DOMAIN levels THEN levels
  ELSE LET tick == Filled(levels[price], quantity)
       IN  IF DOMAIN tick = {}
           THEN [p \in DOMAIN levels \ {price} |-> levels[p]]
           ELSE [levels EXCEPT ![price] = tick]

FilledPairsAt(levels, price, quantity) ==
  IF price \in DOMAIN levels THEN FilledPairs(levels[price], quantity) ELSE <<>>

CanCancelAt(levels, price, owner, id, quantity) ==
  price \in DOMAIN levels /\ CanCancel(levels[price], owner, id, quantity)

\* A level is kept when a cancellation leaves it without orders.
CanceledAt(levels, price, id, quantity) ==
  [levels EXCEPT ![price] = Canceled(@, id, quantity)]

IdsOf(levels) == UNION {DOMAIN levels[p] : p \in DOMAIN levels}
=============================================================================
