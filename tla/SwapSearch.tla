----------------------------- MODULE SwapSearch -----------------------------
(***************************************************************************)
(* find_max_swap_quantity of pallets/hybrid-orderbook/src/lib.rs on its    *)
(* own, for every pool, book price and order in the given sets.            *)
(***************************************************************************)
EXTENDS Amm

CONSTANTS
  Reserves,   \* reserves of either asset of the pool
  Targets,    \* prices of the level the search is for
  Remains,    \* quantities left of the order
  Sides       \* is_bid of the orders: a subset of BOOLEAN

ASSUME SearchAssumption ==
  /\ Reserves \subseteq 1..(UnitRange - 1)
  /\ Targets \subseteq 1..(UnitRange - 1)
  /\ Remains \subseteq 1..(UnitRange - 1)
  /\ Sides \subseteq BOOLEAN

VARIABLES
  input,    \* the arguments, and the reserves that get_reserves returns
  search    \* the loop

vars == <<input, search>>

Init ==
  /\ input \in [isBid : Sides, target : Targets, base : Reserves,
                quote : Reserves, remain : Remains]
  /\ search = NewSearch(input.remain)

Turn ==
  /\ search.result = Searching
  /\ search' = SearchStep(search, input.isBid, input.target,
                          input.base, input.quote)
  /\ UNCHANGED input

Next == Turn

Spec == Init /\ [][Next]_vars /\ WF_vars(Turn)

-----------------------------------------------------------------------------
\* The loop's variables stay in the range of T::Unit.
TypeOK ==
  /\ {search.min, search.max, search.swap} \subseteq 0..(UnitRange - 1)
  /\ search.result \in (0..(UnitRange - 1)) \cup {Err, Searching}

Returned == search.result \notin {Searching, Err}
PriceAt(q) == PriceAfter(input.isBid, q, input.base, input.quote)

\* The loop ends, although its bounds move by Step and not to mid.
Terminates == <>(search.result # Searching)

\* For a bid the pool is never moved past the price of the level, where the
\* book would have been the better place to buy.
BidStopsAtLevel ==
  Returned /\ input.isBid /\ search.result > 0
    => PriceAt(search.result) # Err /\ PriceAt(search.result) <= input.target

\* The search fails, and the order with it, only for a bid that asks for all the
\* pool has: get_amount_in refuses a midpoint at the base reserve, although the
\* levels of the book could have filled the order.
FailsOnlyPastReserve ==
  search.result = Err => input.isBid /\ input.remain >= input.base

\* For a bid at most one quantity is missed: two more would have moved the
\* pool to the level or past it.
BidComesClose ==
  Returned /\ input.isBid /\ search.result + 2 <= input.remain
    => LET price == PriceAt(search.result + 2)
       IN  price = Err \/ price >= input.target

\* The same of an ask: a pool that pays more than the level is not moved below
\* the price of the level, where the book would have been the better place to
\* sell.
AskStopsAtLevel ==
  /\ Returned /\ ~input.isBid /\ search.result > 0
  /\ PoolPrice(input.base, input.quote) >= input.target
  => PriceAt(search.result) >= input.target
=============================================================================
