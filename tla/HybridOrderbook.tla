-------------------------- MODULE HybridOrderbook --------------------------
(***************************************************************************)
(* One pool of the hybrid orderbook pallet: the extrinsics of              *)
(* pallets/hybrid-orderbook/src/lib.rs on a liquidity pool, the two sides  *)
(* of its book and the balances of the users.                              *)
(*                                                                         *)
(* Extrinsics run one after the other and are transactional.  An order     *)
(* that is matched runs in steps, the turns of the loops of do_match_order *)
(* and find_max_swap_quantity and one step per settled fill; `call` is its *)
(* local state and `saved` the storage to go back to when it fails.  Other *)
(* extrinsics only start when no call is under way.                        *)
(***************************************************************************)
EXTENDS Liquidity, Levels, Ledger, FiniteSetsExt

CONSTANTS
  Users,              \* signing accounts
  PoolAccount,        \* T::PoolLocator::address
  TickSize, LotSize,
  WithdrawalFee,      \* T::LiquidityWithdrawalFee, in millionths
  StartAsk,           \* OrderId::start_ask_id, half the range of OrderId
  Endowment,          \* what every user has of either asset at the start
  OrderPrices, OrderQuantities,                 \* arguments of the calls
  LiquidityAmounts, Burns, Minimums,
  MaxCalls            \* bound: how many extrinsics are ever called

ASSUME PoolAssumption ==
  /\ PoolAccount \notin Users
  /\ TickSize \in Nat \ {0} /\ LotSize \in Nat \ {0}
  /\ StartAsk \in Nat /\ StartAsk >= 2
  /\ Endowment \in Nat /\ MaxCalls \in Nat
  /\ OrderPrices \subseteq Nat /\ OrderQuantities \subseteq Nat
  /\ LiquidityAmounts \subseteq Nat /\ Burns \subseteq Nat /\ Minimums \subseteq Nat

ASSUME FeeAssumption == WithdrawalFee \in Nat /\ WithdrawalFee <= 1000000

ASSUME UsersAssumption == IsFiniteSet(Users)

VARIABLES
  bal, frozen,        \* the ledger of the two assets
  lp,                 \* account -> LP tokens
  bids, asks,         \* Pool::bids, Pool::asks
  nextBid, nextAsk,   \* Pool::next_bid_order_id, Pool::next_ask_order_id
  call,               \* the order that is being matched
  saved,              \* the storage when that order was called
  calls               \* how many extrinsics were called

vars == <<bal, frozen, lp, bids, asks, nextBid, nextAsk, call, saved, calls>>

Accounts == Users \cup {PoolAccount}
Assets == {"base", "quote"}

Call(pc, who, isBid, quantity, limit) ==
  [pc |-> pc, who |-> who, isBid |-> isBid, quantity |-> quantity,
   limit |-> limit, remain |-> quantity, target |-> 0,
   search |-> NewSearch(0), fills |-> <<>>]
Idle == Call("idle", PoolAccount, FALSE, 0, 0)

NoStorage == <<>>
Storage == [bal |-> bal, frozen |-> frozen, bids |-> bids, asks |-> asks]

StartBid == 0

Init ==
  /\ bal = [a \in Assets |->
              [u \in Accounts |-> IF u = PoolAccount THEN 0 ELSE Endowment]]
  /\ frozen = [a \in Assets |-> [u \in Accounts |-> 0]]
  /\ lp = [u \in Accounts |-> 0]
  /\ bids = NoLevels /\ asks = NoLevels
  /\ nextBid = StartBid /\ nextAsk = StartAsk
  /\ call = Idle
  /\ saved = NoStorage
  /\ calls = 0

Called == call.pc = "idle" /\ calls < MaxCalls /\ calls' = calls + 1

BaseReserve == bal["base"][PoolAccount]
QuoteReserve == bal["quote"][PoolAccount]

-----------------------------------------------------------------------------
(* add_liquidity and remove_liquidity                                      *)

Supply == SumFunction(lp)

AddLiquidity(who, base, quote, baseMin, quoteMin, mintTo) ==
  LET taken == Provided(base, quote, baseMin, quoteMin, BaseReserve, QuoteReserve)
      minted == Minted(taken.base, taken.quote, Supply, BaseReserve, QuoteReserve)
      first == IF Supply = 0 THEN MintMinLiquidity ELSE 0
  IN  /\ Called
      /\ base > 0 /\ quote > 0
      /\ taken.ok
      /\ taken.base + BaseReserve >= MinimumBalance
      /\ taken.quote + QuoteReserve >= MinimumBalance
      /\ CanDebit(bal, frozen, "base", who, taken.base, TRUE)
      /\ CanDebit(bal, frozen, "quote", who, taken.quote, TRUE)
      /\ minted > MintMinLiquidity
      /\ bal' = Moved(Moved(bal, "base", who, PoolAccount, taken.base),
                      "quote", who, PoolAccount, taken.quote)
      /\ lp' = [lp EXCEPT ![PoolAccount] = @ + first, ![mintTo] = @ + minted]
      /\ UNCHANGED <<frozen, bids, asks, nextBid, nextAsk, call, saved>>

\* Permill times an amount rounds to the nearest, a tie down.
FeeOf(burn) == (burn * WithdrawalFee + 499999) \div 1000000

RemoveLiquidity(who, burn, baseMin, quoteMin, withdrawTo) ==
  LET redeemed == burn - FeeOf(burn)
      base == MulDiv(redeemed, BaseReserve, Supply)
      quote == MulDiv(redeemed, QuoteReserve, Supply)
  IN  /\ Called
      /\ burn > 0
      /\ base > 0 /\ base >= baseMin
      /\ quote > 0 /\ quote >= quoteMin
      /\ BaseReserve - base >= MinimumBalance
      /\ QuoteReserve - quote >= MinimumBalance
      /\ lp[who] >= burn
      /\ bal' = Moved(Moved(bal, "base", PoolAccount, withdrawTo, base),
                      "quote", PoolAccount, withdrawTo, quote)
      /\ lp' = [lp EXCEPT ![who] = @ - burn]
      /\ UNCHANGED <<frozen, bids, asks, nextBid, nextAsk, call, saved>>
-----------------------------------------------------------------------------
(* Order ids: bids count up from StartBid, asks from StartAsk.             *)

IsBidId(id) == id < StartAsk

\* Mutant: the ids of bids run into those of asks.
IncreasedPastEnd(id) ==
  LET max == IF IsBidId(id) THEN StartAsk ELSE 2 * StartAsk - 1
  IN  IF id = max THEN Err ELSE id + 1

\* OrderId::checked_increase, Err for None.
Increased(id) ==
  LET max == IF IsBidId(id) THEN StartAsk ELSE 2 * StartAsk - 1
  IN  IF id = max - 1 THEN Err ELSE id + 1

(* limit_order: an order that does not reach the pool price goes into the  *)
(* book (do_place_order, Pool::place_order), any other one is matched.     *)

ValidPrice(price) == price > 0 /\ price % TickSize = 0
ValidQuantity(quantity) == quantity >= LotSize /\ quantity % LotSize = 0

\* Mutant: what the order is to receive is held back.
LockedAssetSwapped(isBid) == IF isBid THEN "base" ELSE "quote"

\* What an open order holds back: base for an ask, its quote value for a bid.
LockedAsset(isBid) == IF isBid THEN "quote" ELSE "base"
LockedAmount(isBid, price, quantity) ==
  IF isBid THEN QuoteValue(price, quantity) ELSE quantity

PlaceOrder(who, isBid, price, quantity) ==
  LET id == IF isBid THEN nextBid ELSE nextAsk
      asset == LockedAsset(isBid)
      amount == LockedAmount(isBid, price, quantity)
  IN  /\ CanFreeze(bal, frozen, asset, who, amount)
      /\ Increased(id) # Err
      /\ frozen' = Frozen(frozen, asset, who, amount)
      /\ IF isBid
         THEN /\ bids' = PlacedAt(bids, price, id, who, quantity)
              /\ nextBid' = Increased(id)
              /\ UNCHANGED <<asks, nextAsk>>
         ELSE /\ asks' = PlacedAt(asks, price, id, who, quantity)
              /\ nextAsk' = Increased(id)
              /\ UNCHANGED <<bids, nextBid>>
      /\ UNCHANGED <<bal, lp, call, saved>>

\* do_match_order is entered.  `quantity` and `limit` are the arguments of the
\* call (no limit for a market order); the loop itself only reads `remain`.
StartMatch(who, isBid, quantity, limit) ==
  /\ call' = Call("loop", who, isBid, quantity, limit)
  /\ saved' = Storage
  /\ UNCHANGED <<bal, frozen, lp, bids, asks, nextBid, nextAsk>>

LimitOrder(who, isBid, price, quantity) ==
  LET poolPrice == PoolPrice(BaseReserve, QuoteReserve)
      crosses == IF isBid THEN price >= poolPrice ELSE price <= poolPrice
  IN  /\ Called
      /\ BaseReserve > 0 /\ QuoteReserve > 0
      /\ poolPrice # Err
      /\ ValidPrice(price) /\ ValidQuantity(quantity)
      /\ IF crosses THEN StartMatch(who, isBid, quantity, price)
         ELSE PlaceOrder(who, isBid, price, quantity)

MarketOrder(who, isBid, quantity) ==
  /\ Called
  /\ quantity > 0 /\ ValidQuantity(quantity)
  /\ StartMatch(who, isBid, quantity, 0)

\* cancel_order: the id says which side of the book it is on.
CancelOrder(who, price, id, quantity) ==
  LET book == IF IsBidId(id) THEN bids ELSE asks
  IN  /\ Called
      /\ CanCancelAt(book, price, who, id, quantity)
      /\ IF IsBidId(id)
         THEN bids' = CanceledAt(bids, price, id, quantity) /\ UNCHANGED asks
         ELSE asks' = CanceledAt(asks, price, id, quantity) /\ UNCHANGED bids
      /\ UNCHANGED <<bal, frozen, lp, nextBid, nextAsk, call, saved>>

-----------------------------------------------------------------------------
(* do_match_order                                                          *)

\* An error of any step fails the extrinsic and undoes its writes.
Abort ==
  /\ bal' = saved.bal /\ frozen' = saved.frozen
  /\ bids' = saved.bids /\ asks' = saved.asks
  /\ call' = Idle /\ saved' = NoStorage
  /\ UNCHANGED <<lp, nextBid, nextAsk, calls>>

\* The amounts of a swap of `quantity` of the base asset: a bid names what comes
\* out of the pool, an ask what goes in.  Err for what cannot be computed.
BalancePath(quantity) ==
  IF call.isBid
  THEN [in |-> GetAmountIn(quantity, QuoteReserve, BaseReserve), out |-> quantity]
  ELSE [in |-> quantity, out |-> GetAmountOut(quantity, BaseReserve, QuoteReserve)]

\* swap and credit_swap: the caller pays the pool and is paid by it.  The caller
\* may be emptied of the asset, the pool may not.
CreditSwap(path) ==
  LET assetIn == LockedAsset(call.isBid)
      assetOut == LockedAsset(~call.isBid)
  IN  [ok |-> /\ CanDebit(bal, frozen, assetIn, call.who, path.in, FALSE)
              /\ CanDebit(bal, frozen, assetOut, PoolAccount, path.out, TRUE),
       bal |-> Moved(Moved(bal, assetIn, call.who, PoolAccount, path.in),
                     assetOut, PoolAccount, call.who, path.out)]

\* do_fill_pool for the caller.  Nothing is swapped for a quantity of zero.
Swap(quantity) ==
  LET path == BalancePath(quantity)
  IN  IF quantity = 0 THEN [ok |-> TRUE, bal |-> bal]
      ELSE IF path.in = Err \/ path.out = Err THEN [ok |-> FALSE, bal |-> bal]
      ELSE CreditSwap(path)

Opposite == IF call.isBid THEN asks ELSE bids

\* Mutant: the worst level of the other side.
WorstPrice == IF call.isBid THEN Max(DOMAIN asks) ELSE Min(DOMAIN bids)

BestPrice == IF call.isBid THEN Min(DOMAIN asks) ELSE Max(DOMAIN bids)

\* The loop is left because nothing remains.
LoopDone ==
  /\ call.pc = "loop" /\ call.remain = 0
  /\ call' = [call EXCEPT !.pc = "settle"]
  /\ UNCHANGED <<bal, frozen, lp, bids, asks, nextBid, nextAsk, saved, calls>>

\* Mutant: the pool fills the whole order instead of the rest.
FillRestWhole ==
  /\ call.pc = "loop" /\ call.remain > 0 /\ DOMAIN Opposite = {}
  /\ LET swap == Swap(call.quantity)
     IN  IF ~swap.ok THEN Abort
         ELSE /\ bal' = swap.bal
              /\ call' = [call EXCEPT !.pc = "settle", !.remain = 0]
              /\ UNCHANGED <<frozen, lp, bids, asks, nextBid, nextAsk, saved, calls>>

\* The loop is left because the book is empty; the pool fills the rest.
FillRest ==
  /\ call.pc = "loop" /\ call.remain > 0 /\ DOMAIN Opposite = {}
  /\ LET swap == Swap(call.remain)
     IN  IF ~swap.ok THEN Abort
         ELSE /\ bal' = swap.bal
              /\ call' = [call EXCEPT !.pc = "settle", !.remain = 0]
              /\ UNCHANGED <<frozen, lp, bids, asks, nextBid, nextAsk, saved, calls>>

\* A turn of the loop begins with the best level of the other side.
NextLevel ==
  /\ call.pc = "loop" /\ call.remain > 0 /\ DOMAIN Opposite # {}
  /\ IF BaseReserve = 0 \/ QuoteReserve = 0 THEN Abort
     ELSE /\ call' = [call EXCEPT !.pc = "search", !.target = BestPrice,
                                  !.search = NewSearch(call.remain)]
          /\ UNCHANGED <<bal, frozen, lp, bids, asks, nextBid, nextAsk, saved, calls>>

SearchTurn ==
  /\ call.pc = "search"
  /\ LET s == SearchStep(call.search, call.isBid, call.target,
                         BaseReserve, QuoteReserve)
     IN  IF s.result = Err THEN Abort
         ELSE /\ call' = [call EXCEPT !.search = s,
                            !.pc = IF s.result = Searching THEN @ ELSE "fill"]
              /\ UNCHANGED <<bal, frozen, lp, bids, asks, nextBid, nextAsk, saved, calls>>

\* The fills of a level as do_fill_book appends them.
FillsAt(price, quantity) ==
  LET pairs == FilledPairsAt(Opposite, price, quantity)
  IN  [n \in 1..Len(pairs) |->
         [owner |-> pairs[n].owner, price |-> price, quantity |-> pairs[n].quantity]]

SumQuantities(fills) == SumFunction([n \in 1..Len(fills) |-> fills[n].quantity])

\* The pool fills what was found, the level the rest of what it can.
FillLevel ==
  /\ call.pc = "fill"
  /\ LET found == call.search.result
         whole == call.remain <= found
         swap == Swap(IF whole THEN call.remain ELSE found)
         rest == IF whole THEN 0 ELSE call.remain - found
         fills == IF whole THEN <<>> ELSE FillsAt(call.target, rest)
         book == IF whole THEN Opposite ELSE FilledAt(Opposite, call.target, rest)
     IN  IF ~swap.ok THEN Abort
         ELSE /\ bal' = swap.bal
              /\ asks' = IF call.isBid THEN book ELSE asks
              /\ bids' = IF call.isBid THEN bids ELSE book
              /\ call' = [call EXCEPT !.pc = "loop",
                            !.remain = rest - SumQuantities(fills),
                            !.fills = @ \o fills]
              /\ UNCHANGED <<frozen, lp, nextBid, nextAsk, saved, calls>>

\* handle_filled_orders, one fill: release what the maker had frozen, then
\* exchange it for the other asset.
SettleFill ==
  /\ call.pc = "settle" /\ call.fills # <<>>
  /\ LET f == Head(call.fills)
         asset1 == LockedAsset(~call.isBid)
         asset2 == LockedAsset(call.isBid)
         released == LockedAmount(~call.isBid, f.price, f.quantity)
         paid == IF call.isBid THEN released ELSE f.quantity
         free == Released(frozen, asset1, f.owner, released)
         given == Moved(bal, asset1, f.owner, call.who, released)
     IN  IF /\ CanRelease(frozen, asset1, f.owner, released)
            /\ CanDebit(bal, free, asset1, f.owner, released, TRUE)
            /\ CanDebit(given, free, asset2, call.who, paid, TRUE)
         THEN /\ frozen' = free
              /\ bal' = Moved(given, asset2, call.who, f.owner, paid)
              /\ call' = [call EXCEPT !.fills = Tail(@)]
              /\ UNCHANGED <<lp, bids, asks, nextBid, nextAsk, saved, calls>>
         ELSE Abort

Commit ==
  /\ call.pc = "settle" /\ call.fills = <<>>
  /\ call' = Idle /\ saved' = NoStorage
  /\ UNCHANGED <<bal, frozen, lp, bids, asks, nextBid, nextAsk, calls>>

MatchStep ==
  \/ LoopDone \/ FillRest \/ NextLevel \/ SearchTurn
  \/ FillLevel \/ SettleFill \/ Commit

Extrinsic(who) ==
  \/ \E base, quote \in LiquidityAmounts, baseMin, quoteMin \in Minimums,
        mintTo \in Users :
       AddLiquidity(who, base, quote, baseMin, quoteMin, mintTo)
  \/ \E burn \in Burns, baseMin, quoteMin \in Minimums, withdrawTo \in Users :
       RemoveLiquidity(who, burn, baseMin, quoteMin, withdrawTo)
  \/ \E isBid \in BOOLEAN, quantity \in OrderQuantities :
       \/ MarketOrder(who, isBid, quantity)
       \/ \E price \in OrderPrices : LimitOrder(who, isBid, price, quantity)
  \/ \E price \in OrderPrices, quantity \in OrderQuantities,
        id \in (StartBid..(nextBid - 1)) \cup (StartAsk..(nextAsk - 1)) :
       CancelOrder(who, price, id, quantity)

Next == MatchStep \/ \E who \in Users : Extrinsic(who)

Spec == Init /\ [][Next]_vars /\ WF_vars(MatchStep)
-----------------------------------------------------------------------------
\* Balances never go below zero, a matched order never has more or less left
\* than it asked for, and storage is saved exactly while one is under way.
TypeOK ==
  /\ bal \in [Assets -> [Accounts -> Nat]]
  /\ frozen \in [Assets -> [Accounts -> Nat]]
  /\ lp \in [Accounts -> Nat]
  /\ call.pc \in {"idle", "loop", "search", "fill", "settle"}
  /\ call.who \in Accounts
  /\ call.remain \in 0..call.quantity
  /\ call.pc = "idle" <=> saved = NoStorage
  /\ calls \in 0..MaxCalls

\* A freeze is backed by the balance of the account all along a match, also by
\* that of the storage a failing call goes back to.
FrozenBacked ==
  \A a \in Assets, u \in Accounts : frozen[a][u] <= bal[a][u]

\* What the open orders of a user hold back at a level, and on one side of the
\* book.
LockedAt(u, isBid, price, tick) ==
  SumFunction([id \in DOMAIN tick |->
                 IF tick[id].owner = u
                 THEN LockedAmount(isBid, price, tick[id].quantity) ELSE 0])
LockedBy(u, isBid, book) ==
  SumFunction([p \in DOMAIN book |-> LockedAt(u, isBid, p, book[p])])

\* What was filled of the orders of a user, but is not settled yet.
Unsettled(u, isBid) ==
  SumFunction([n \in 1..Len(call.fills) |->
                 LET f == call.fills[n]
                 IN  IF f.owner = u /\ call.isBid # isBid
                     THEN LockedAmount(isBid, f.price, f.quantity) ELSE 0])

\* The freeze of a user covers every open order, and every fill on its way to
\* settlement, although orders are filled in parts whose values are rounded
\* down: so decrease_frozen never fails, whatever the taker does.
OrdersCovered ==
  \A u \in Users :
    /\ frozen["quote"][u] >= LockedBy(u, TRUE, bids) + Unsettled(u, TRUE)
    /\ frozen["base"][u] >= LockedBy(u, FALSE, asks) + Unsettled(u, FALSE)

\* No step makes or loses a unit of either asset.
Conserved ==
  \A a \in Assets : SumFunction(bal[a]) = Cardinality(Users) * Endowment

\* Swaps never cost the pool: during a match the product of the reserves is at
\* least what it was when the order was called.
ProductKept ==
  call.pc # "idle" =>
    saved.bal["base"][PoolAccount] * saved.bal["quote"][PoolAccount]
      <= BaseReserve * QuoteReserve

\* The share of the pool that an LP token stands for does not shrink when
\* others add or remove liquidity: product / supply^2 never goes down.
ShareStep ==
  LET product == BaseReserve * QuoteReserve
  IN  call.pc = "idle" /\ Supply > 0
        => product' * Supply * Supply >= product * Supply' * Supply'
ShareKept == [][ShareStep]_vars

\* The taker gets or gives exactly the quantity of the order: what the pool
\* exchanged, what is filled and not settled and what remains add up to it all
\* along.  (An order that meets orders of its own user moves less.)
FilledExactly ==
  LET book == IF call.isBid THEN saved.asks ELSE saved.bids
      own == {p \in DOMAIN book : \E id \in DOMAIN book[p] :
                                    book[p][id].owner = call.who}
      moved == bal["base"][call.who] - saved.bal["base"][call.who]
  IN  call.pc # "idle" /\ own = {} =>
        (IF call.isBid THEN moved ELSE -moved)
          + SumQuantities(call.fills) + call.remain = call.quantity

\* The id of an open order says on which side of the book it is, and both
\* counters stay in their half: cancel_order looks on the side of the id.  (The
\* test order_id_op_works of types.rs expects the second ask id to be one of a
\* bid; is_bid, which tests one bit, says it is not.)
IdsOnTheirSide ==
  /\ \A id \in IdsOf(bids) : id < nextBid
  /\ \A id \in IdsOf(asks) : StartAsk <= id /\ id < nextAsk
  /\ nextBid < StartAsk /\ nextAsk < 2 * StartAsk - 1

\* A bid buys from the pool only up to the price of the asks that stay open:
\* when the asks were at or above the pool price before it, they are after it.
BidStopsAtBook ==
  LET below(book, base, quote) ==
        \A p \in DOMAIN book : Depth(book[p]) > 0 => PoolPrice(base, quote) <= p
  IN  /\ call.pc = "settle" /\ call.isBid
      /\ saved.bal["base"][PoolAccount] > 0
      /\ below(saved.asks, saved.bal["base"][PoolAccount],
               saved.bal["quote"][PoolAccount])
      => below(asks, BaseReserve, QuoteReserve)

\* Every order that is matched comes to an end: a turn of the loop uses up the
\* order or a level, also a level without orders or with used up ones.
CallReturns == []<>(call.pc = "idle")

-----------------------------------------------------------------------------
(* What the README files say of the orderbook and the code does not do.    *)

\* A limit order is never matched at a price worse than its own.
LimitKept ==
  call.limit > 0 =>
    \A n \in 1..Len(call.fills) :
      IF call.isBid THEN call.fills[n].price <= call.limit
      ELSE call.fills[n].price >= call.limit

\* The maker of an ask is paid the price the order was placed at.
AskPaidAtPrice ==
  [][/\ call.isBid /\ call.pc = "settle" /\ call.fills # <<>>
     /\ call'.pc = "settle" /\ Head(call.fills).owner # call.who
     => LET f == Head(call.fills)
        IN  bal'["quote"][f.owner] =
              bal["quote"][f.owner] + QuoteValue(f.price, f.quantity)]_vars
=============================================================================
