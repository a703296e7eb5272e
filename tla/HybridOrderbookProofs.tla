---------------------- MODULE HybridOrderbookProofs ----------------------
(***************************************************************************)
(* Proofs about the pool, for any users, reserves, decimals and orders:    *)
(* what the extrinsics and the steps of a match keep (the ids of the       *)
(* orders, the ledger, the account of an order), and the theorems.         *)
(***************************************************************************)
EXTENDS HybridOrderbook, LevelsProofs

(***************************************************************************)
(* Order ids.  A failed match brings back the books from before it, so the *)
(* ids of the saved books are part of the invariant.                       *)
(***************************************************************************)
Counters ==
  /\ nextBid \in Nat /\ nextBid < StartAsk
  /\ nextAsk \in Nat /\ StartAsk <= nextAsk /\ nextAsk < 2 * StartAsk - 1

IdInv ==
  /\ Counters
  /\ \A id \in IdsOf(bids) : id \in Nat /\ id < nextBid
  /\ \A id \in IdsOf(asks) : id \in Nat /\ StartAsk <= id /\ id < nextAsk
  /\ call.pc # "idle" =>
       /\ \A id \in IdsOf(saved.bids) : id \in Nat /\ id < nextBid
       /\ \A id \in IdsOf(saved.asks) : id \in Nat /\ StartAsk <= id /\ id < nextAsk

\* A failing call goes back to the saved book.
LEMMA IdInvAbort == ASSUME IdInv, call.pc # "idle", Abort PROVE IdInv'
  BY Zenon DEF IdInv, Counters, Abort, Idle, Call

\* Every extrinsic preserves the invariant.
LEMMA IdInvExtrinsic ==
  ASSUME IdInv, NEW who \in Users, Extrinsic(who)
  PROVE  IdInv'
\* Placing an order, the only step that gives out an id.
<1>IdInvPlace.
  ASSUME call.pc = "idle", NEW isBid \in BOOLEAN, NEW price, NEW quantity,
         PlaceOrder(who, isBid, price, quantity)
  PROVE  IdInv'
  <2> USE <1>IdInvPlace
  \* Placing an order adds its id and no other one to the book.
  <2>IdsPlaced.
    ASSUME NEW levels, NEW id, NEW owner
    PROVE  IdsOf(PlacedAt(levels, price, id, owner, quantity)) \subseteq IdsOf(levels) \cup {id}
    <3> USE <2>IdsPlaced
    <3>1. CASE price \in DOMAIN levels
      <4> DEFINE tick == Placed(levels[price], id, owner, quantity)
      <4>1. DOMAIN tick = DOMAIN levels[price] \cup {id}
        BY DEF Placed
      <4> HIDE DEF tick
      <4>2. PlacedAt(levels, price, id, owner, quantity) =
              [p \in DOMAIN levels \cup {price} |-> IF p = price THEN tick ELSE levels[p]]
        BY <3>1 DEF PlacedAt, tick
      <4> DEFINE book == PlacedAt(levels, price, id, owner, quantity)
      <4>3. /\ DOMAIN book = DOMAIN levels /\ book[price] = tick
            /\ \A p \in DOMAIN levels \ {price} : book[p] = levels[p]
        BY <3>1, <4>2
      <4> HIDE DEF book
      <4>4. ASSUME NEW i, \E p \in DOMAIN book : i \in DOMAIN book[p]
            PROVE  i = id \/ \E p \in DOMAIN levels : i \in DOMAIN levels[p]
        BY <3>1, <4>1, <4>3, <4>4
      <4>5. \A i \in IdsOf(book) : i \in IdsOf(levels) \cup {id}
        BY <4>4, IdsAtLevels
      <4> QED
        BY <4>5 DEF book
    <3>2. CASE price \notin DOMAIN levels
      BY <3>2, Zenon DEF PlacedAt, NewTick, IdsOf
    <3> QED
      BY <3>1, <3>2
  \* checked_increase adds one and stays within the half of the id.
  <2>IncreasedInRange.
           /\ Increased(nextBid) # Err => /\ Increased(nextBid) = nextBid + 1
                                          /\ nextBid + 1 < StartAsk
           /\ Increased(nextAsk) # Err => /\ Increased(nextAsk) = nextAsk + 1
                                          /\ nextAsk + 1 < 2 * StartAsk - 1
    BY PoolAssumption DEF IdInv, Counters, Increased, IsBidId
  <2>1. CASE isBid
    <3>1. /\ Increased(nextBid) # Err /\ nextBid' = nextBid + 1
          /\ bids' = PlacedAt(bids, price, nextBid, who, quantity)
          /\ UNCHANGED <<asks, nextAsk, call, saved>>
      BY <2>1, <2>IncreasedInRange, Zenon DEF PlaceOrder, IdInv
    <3> QED
      BY <3>1, <2>IdsPlaced, <2>IncreasedInRange, PoolAssumption DEF IdInv, Counters
  <2>2. CASE ~isBid
    <3>1. /\ Increased(nextAsk) # Err /\ nextAsk' = nextAsk + 1
          /\ asks' = PlacedAt(asks, price, nextAsk, who, quantity)
          /\ UNCHANGED <<bids, nextBid, call, saved>>
      BY <2>2, <2>IncreasedInRange, Zenon DEF PlaceOrder, IdInv
    <3> QED
      BY <3>1, <2>IdsPlaced, <2>IncreasedInRange, PoolAssumption DEF IdInv, Counters
  <2> QED
    BY <2>1, <2>2
\* Entering do_match_order saves a book that is in order.
<1>IdInvStart.
  ASSUME NEW isBid, NEW quantity, NEW limit,
         StartMatch(who, isBid, quantity, limit)
  PROVE  IdInv'
  BY <1>IdInvStart, Zenon DEF IdInv, Counters, StartMatch, Storage
\* A cancellation adds no id to the book.
<1>IdsCanceled.
  ASSUME NEW levels, NEW price \in DOMAIN levels, NEW id, NEW quantity
  PROVE  IdsOf(CanceledAt(levels, price, id, quantity)) \subseteq IdsOf(levels)
  BY <1>IdsCanceled, CanceledIds DEF IdsOf
<1>1. CASE \E base, quote \in LiquidityAmounts, baseMin, quoteMin \in Minimums,
              mintTo \in Users :
             AddLiquidity(who, base, quote, baseMin, quoteMin, mintTo)
  BY <1>1 DEF AddLiquidity, IdInv, Counters
<1>2. CASE \E burn \in Burns, baseMin, quoteMin \in Minimums, withdrawTo \in Users :
             RemoveLiquidity(who, burn, baseMin, quoteMin, withdrawTo)
  BY <1>2, Zenon DEF RemoveLiquidity, IdInv, Counters
<1>3. ASSUME NEW isBid \in BOOLEAN, NEW quantity \in OrderQuantities,
             MarketOrder(who, isBid, quantity)
      PROVE  IdInv'
  BY <1>3, <1>IdInvStart DEF MarketOrder
<1>4. ASSUME NEW isBid \in BOOLEAN, NEW quantity \in OrderQuantities,
             NEW price \in OrderPrices, LimitOrder(who, isBid, price, quantity)
      PROVE  IdInv'
  BY <1>4, <1>IdInvStart, <1>IdInvPlace DEF LimitOrder, Called
<1>5. ASSUME NEW price \in OrderPrices, NEW quantity \in OrderQuantities, NEW id,
             CancelOrder(who, price, id, quantity)
      PROVE  IdInv'
  <2>1. CASE IsBidId(id)
    <3>1. /\ price \in DOMAIN bids /\ bids' = CanceledAt(bids, price, id, quantity)
          /\ UNCHANGED <<asks, nextBid, nextAsk, call, saved>>
      BY <1>5, <2>1, Zenon DEF CancelOrder, CanCancelAt
    <3> QED
      BY <3>1, <1>IdsCanceled DEF IdInv, Counters
  <2>2. CASE ~IsBidId(id)
    <3>1. /\ price \in DOMAIN asks /\ asks' = CanceledAt(asks, price, id, quantity)
          /\ UNCHANGED <<bids, nextBid, nextAsk, call, saved>>
      BY <1>5, <2>2, Zenon DEF CancelOrder, CanCancelAt
    <3> QED
      BY <3>1, <1>IdsCanceled DEF IdInv, Counters
  <2> QED
    BY <2>1, <2>2
<1> QED
  BY <1>1, <1>2, <1>3, <1>4, <1>5 DEF Extrinsic

(***************************************************************************)
(* The ledger.  Balances are naturals, a freeze is covered by its balance, *)
(* the account of the pool has none, and nothing is made or lost.          *)
(***************************************************************************)
Balances == [Assets -> [Accounts -> Nat]]

SoundLedger(b, f) ==
  /\ b \in Balances /\ f \in Balances
  /\ \A a \in Assets, u \in Accounts : f[a][u] <= b[a][u]
  /\ \A a \in Assets : f[a][PoolAccount] = 0
  /\ \A a \in Assets : SumFunction(b[a]) = Cardinality(Users) * Endowment

\* There are finitely many accounts, the pool's among them.
LEMMA FiniteAccounts == IsFiniteSet(Accounts) /\ PoolAccount \in Accounts
  BY UsersAssumption, FS_AddElement DEF Accounts

\* A transfer shows at its two accounts, and nowhere when they are one.
Transferred(b, after, a, from, to, x) ==
  /\ after \in Balances
  /\ \A c \in Assets \ {a} : after[c] = b[c]
  /\ \A u \in Accounts \ {from, to} : after[a][u] = b[a][u]
  /\ from = to => after[a][from] = b[a][from]
  /\ from # to => after[a][from] = b[a][from] - x /\ after[a][to] = b[a][to] + x

\* Where a transfer from an account that has the amount shows.
LEMMA MovedValues ==
  ASSUME NEW b \in Balances, NEW a \in Assets, NEW from \in Accounts, NEW to \in Accounts,
         NEW x \in Nat, x <= b[a][from]
  PROVE  Transferred(b, Moved(b, a, from, to, x), a, from, to, x)
<1> DEFINE h == [b EXCEPT ![a][from] = @ - x]
           g == [h EXCEPT ![a][to] = @ + x]
<1>1. /\ b[a][from] \in Nat /\ b[a][from] - x \in Nat
      /\ b \in [Assets -> [Accounts -> Nat]]
  BY DEF Balances
<1>2. /\ h \in Balances /\ h[a][from] = b[a][from] - x
      /\ \A c \in Assets \ {a} : h[c] = b[c]
      /\ \A u \in Accounts \ {from} : h[a][u] = b[a][u]
  BY <1>1 DEF Balances
<1>3. g = Moved(b, a, from, to, x)
  BY DEF Moved
<1>4. /\ g \in Balances /\ g[a][to] = h[a][to] + x
      /\ \A c \in Assets \ {a} : g[c] = h[c]
      /\ \A u \in Accounts \ {to} : g[a][u] = h[a][u]
  <2> HIDE DEF h
  <2> QED
    BY <1>2 DEF Balances
<1> HIDE DEF g, h
<1>5. Transferred(b, g, a, from, to, x)
  BY <1>1, <1>2, <1>4 DEF Transferred
<1> QED
  BY <1>3, <1>5, Zenon

\* A transfer that leaves the frozen part in place keeps the ledger sound.
LEMMA SoundMoved ==
  ASSUME NEW b, NEW f, SoundLedger(b, f),
         NEW a \in Assets, NEW from \in Accounts, NEW to \in Accounts, NEW x \in Nat,
         x + f[a][from] <= b[a][from]
  PROVE  SoundLedger(Moved(b, a, from, to, x), f)
\* A transfer makes and loses nothing.
<1>MovedSum.
  ASSUME b \in Balances, x <= b[a][from], NEW c \in Assets
  PROVE  SumFunction(Moved(b, a, from, to, x)[c]) = SumFunction(b[c])
  <2> USE <1>MovedSum
  <2> DEFINE g == Moved(b, a, from, to, x)[a]
             e == b[a]
             h == [e EXCEPT ![from] = e[from] - x]
  <2>1. e \in [Accounts -> Nat]
    BY DEF Balances
  <2>2. /\ h \in [Accounts -> Int] /\ h[from] = e[from] - x
        /\ \A y \in Accounts \ {from} : h[y] = e[y]
    BY <2>1
  <2>0. Transferred(b, Moved(b, a, from, to, x), a, from, to, x)
    BY MovedValues, Zenon
  <2>3. /\ g \in [Accounts -> Nat] /\ \A y \in Accounts \ {from, to} : g[y] = e[y]
        /\ from = to => g[from] = e[from]
        /\ from # to => g[from] = e[from] - x /\ g[to] = e[to] + x
    BY <2>0, Zenon DEF Transferred, Balances
  <2>4. c # a => Moved(b, a, from, to, x)[c] = b[c]
    BY <2>0, Zenon DEF Transferred
  <2> HIDE DEF e, g, h
  <2>5. \A y \in Accounts : e[y] \in Int /\ h[y] \in Int /\ g[y] \in Int
    BY <2>1, <2>2, <2>3
  <2>6. SumFunctionOnSet(h, Accounts) = SumFunctionOnSet(e, Accounts) + h[from] - e[from]
    BY <2>2, <2>5, SumChange, FiniteAccounts, Zenon
  <2>7. SumFunctionOnSet(g, Accounts) = SumFunctionOnSet(h, Accounts) + g[to] - h[to]
    <3>1. \A y \in Accounts \ {to} : h[y] = g[y]
      BY <2>2, <2>3
    <3> QED
      BY <2>5, <3>1, SumChange, FiniteAccounts
  <2>8. /\ SumFunctionOnSet(e, Accounts) \in Int /\ e[from] \in Int /\ e[to] \in Int
        /\ g[to] = h[to] + x
    BY <2>1, <2>2, <2>3, <2>5, SumIsInteger, FiniteAccounts
  <2>9. SumFunctionOnSet(g, Accounts) = SumFunctionOnSet(e, Accounts)
    BY <2>2, <2>5, <2>6, <2>7, <2>8
  <2> QED
    BY <2>1, <2>3, <2>4, <2>9, Zenon DEF SumFunction, e, g
<1> DEFINE after == Moved(b, a, from, to, x)
<1>1. /\ b \in Balances /\ f \in Balances
      /\ b[a][from] \in Nat /\ f[a][from] \in Nat /\ x <= b[a][from]
      /\ b[a][to] \in Nat /\ f[a][to] \in Nat
  BY DEF SoundLedger, Balances
<1>2. /\ after \in Balances
      /\ \A c \in Assets \ {a} : after[c] = b[c]
      /\ \A u \in Accounts \ {from, to} : after[a][u] = b[a][u]
      /\ from = to => after[a][from] = b[a][from]
      /\ from # to => after[a][from] = b[a][from] - x /\ after[a][to] = b[a][to] + x
  <2>1. Transferred(b, after, a, from, to, x)
    BY <1>1, MovedValues, Zenon
  <2> QED
    BY <2>1, Zenon DEF Transferred
<1>3. \A c \in Assets : SumFunction(after[c]) = SumFunction(b[c])
  BY <1>1, <1>MovedSum, Zenon
<1> HIDE DEF after
<1>4. \A u \in Accounts : f[a][u] <= after[a][u]
  BY <1>1, <1>2 DEF SoundLedger
<1>5. \A c \in Assets, u \in Accounts : f[c][u] <= after[c][u]
  BY <1>2, <1>4 DEF SoundLedger
<1> QED
  BY <1>1, <1>2, <1>3, <1>5, Zenon DEF SoundLedger, after

\* What a withdrawal may take leaves the frozen part in place.
LEMMA DebitLeavesFrozen ==
  ASSUME NEW b, NEW f, SoundLedger(b, f),
         NEW a \in Assets, NEW who \in Accounts, NEW x \in Nat, NEW preserve \in BOOLEAN,
         CanDebit(b, f, a, who, x, preserve)
  PROVE  x + f[a][who] <= b[a][who]
<1>1. b[a][who] \in Nat /\ f[a][who] \in Nat /\ f[a][who] <= b[a][who]
  BY DEF SoundLedger, Balances
<1> QED
  BY <1>1 DEF CanDebit, CanLeave, MinimumBalance

\* decrease_frozen for a user.
LEMMA SoundReleased ==
  ASSUME NEW b, NEW f, SoundLedger(b, f),
         NEW a \in Assets, NEW who \in Users, NEW x \in Nat, CanRelease(f, a, who, x)
  PROVE  SoundLedger(b, Released(f, a, who, x))
<1> DEFINE after == Released(f, a, who, x)
<1>1. /\ f \in Balances /\ b[a][who] \in Nat /\ f[a][who] \in Nat
      /\ f[a][who] <= b[a][who] /\ x <= f[a][who]
      /\ who \in Accounts /\ who # PoolAccount /\ PoolAccount \in Accounts
  BY PoolAssumption, Zenon DEF SoundLedger, Balances, Accounts, CanRelease
<1>2. f[a][who] - x \in Nat
  BY <1>1
<1>3. /\ after \in Balances /\ after[a][who] = f[a][who] - x
      /\ \A c \in Assets, u \in Accounts : c # a \/ u # who => after[c][u] = f[c][u]
  BY <1>1, <1>2 DEF Released, Balances
<1> HIDE DEF after
<1> QED
  BY <1>1, <1>3 DEF SoundLedger, after

(***************************************************************************)
(* The invariant of the ledger.  A call that fails brings back the ledger  *)
(* and the books from before it, so all that is said of them is said of    *)
(* the saved ones too.  The fills of a match are of orders of users whose  *)
(* orders the book had when the order was called.                          *)
(***************************************************************************)
FillsOf(owners) == [owner : owners, price : Nat, quantity : Nat]
FillLists(owners) == Seq(FillsOf(owners))
QuantityIn(owners) == [f \in FillsOf(owners) |-> f.quantity]

\* The local variables of do_match_order and find_max_swap_quantity.
Matches ==
  [pc : {"loop", "search", "fill", "settle"}, who : Users, isBid : BOOLEAN,
   quantity : Nat, limit : Nat, remain : Nat, target : Nat,
   search : [min : Nat, max : Nat, swap : Nat, result : Int],
   fills : FillLists(Users)]

SavedOpposite == IF call.isBid THEN saved.asks ELSE saved.bids

\* What the taker got or gave of the base asset so far.
Exchanged ==
  IF call.isBid THEN bal["base"][call.who] - saved.bal["base"][call.who]
  ELSE saved.bal["base"][call.who] - bal["base"][call.who]

ReservesKept(before, after) ==
  before["base"][PoolAccount] * before["quote"][PoolAccount]
    <= after["base"][PoolAccount] * after["quote"][PoolAccount]

MatchInv ==
  /\ call \in Matches /\ call.remain <= call.quantity
  /\ call.pc = "search" => call.search.result = Searching
  /\ call.pc = "fill" => call.search.result \in Nat
  /\ saved # NoStorage /\ SoundLedger(saved.bal, saved.frozen)
  /\ IsBook(saved.bids, Users) /\ IsBook(saved.asks, Users)
  /\ ReservesKept(saved.bal, bal)
  /\ \A owners \in SUBSET Users :
       IsBook(SavedOpposite, owners)
         => IsBook(Opposite, owners) /\ call.fills \in FillLists(owners)
  /\ IsBook(SavedOpposite, Users \ {call.who})
       => Exchanged + SumQuantities(call.fills) + call.remain = call.quantity

LedgerInv ==
  /\ SoundLedger(bal, frozen)
  /\ lp \in [Accounts -> Nat] /\ calls \in 0..MaxCalls
  /\ IsBook(bids, Users) /\ IsBook(asks, Users)
  /\ call.pc = "idle" => call = Idle /\ saved = NoStorage
  /\ call.pc # "idle" => MatchInv

\* The two assets of an order, and its amounts.
LEMMA LockedTypes ==
  ASSUME NEW isBid \in BOOLEAN
  PROVE  /\ LockedAsset(isBid) \in Assets /\ LockedAsset(~isBid) \in Assets
         /\ LockedAsset(isBid) # LockedAsset(~isBid)
         /\ \A price, quantity \in Nat : LockedAmount(isBid, price, quantity) \in Nat
<1>1. \A price, quantity \in Nat : QuoteValue(price, quantity) \in Nat
  <2> TAKE price, quantity \in Nat
  <2>1. price * quantity \in Int
    OBVIOUS
  <2>2. Wrap(price * quantity) \in Nat
    BY <2>1, WrapType DEF Unit
  <2>3. PoolDecimals + QAdj \in Nat
    BY AdjustmentTypes, AmmAssumption
  <2>4. TenTo[PoolDecimals + QAdj] \in Nat /\ TenTo[PoolDecimals + QAdj] > 0
    BY <2>3, TenToPositive
  <2> QED
    BY <2>2, <2>4, QuotientType DEF QuoteValue, Denom
<1> QED
  BY <1>1 DEF LockedAsset, LockedAmount, Assets

\* The quantities of a list of fills add up to a natural.
LEMMA FillsSum ==
  ASSUME NEW owners, NEW fills \in FillLists(owners)
  PROVE  /\ Len(fills) \in Nat /\ \A n \in 1..Len(fills) : fills[n] \in FillsOf(owners)
         /\ SumQuantities(fills) = ListSum(QuantityIn(owners), fills)
         /\ SumQuantities(fills) \in Nat
<1> DEFINE w == QuantityIn(owners)
<1>1. w \in [FillsOf(owners) -> Nat] /\ \A f \in FillsOf(owners) : w[f] = f.quantity
  BY DEF FillsOf, QuantityIn
<1>2. Len(fills) \in Nat /\ \A n \in 1..Len(fills) : fills[n] \in FillsOf(owners)
  BY DEF FillLists
<1> HIDE DEF w
<1>3. [n \in 1..Len(fills) |-> fills[n].quantity] = [n \in 1..Len(fills) |-> w[fills[n]]]
  BY <1>1, <1>2
<1>4. SumQuantities(fills) = ListSum(w, fills)
  BY <1>3, Zenon DEF SumQuantities, ListSum
<1>5. ListSum(w, fills) \in Nat
  BY <1>1, ListSumType, Zenon DEF FillLists
<1> QED
  BY <1>2, <1>4, <1>5 DEF w

\* The weights of fills are naturals.
LEMMA QuantityInType == ASSUME NEW owners PROVE QuantityIn(owners) \in [FillsOf(owners) -> Nat]
  BY DEF FillsOf, QuantityIn

\* No fills.
LEMMA NoFills == /\ \A owners : <<>> \in FillLists(owners)
                 /\ SumQuantities(<<>>) = 0
<1>1. \A owners : <<>> \in FillLists(owners)
  BY DEF FillLists
<1>2. SumQuantities(<<>>) = ListSum(QuantityIn({}), <<>>)
  BY <1>1, FillsSum
<1> QED
  BY <1>1, <1>2, ListSumNone, QuantityInType

\* Every user starts with the same amount of either asset, the pool with none.
LEMMA LedgerInit == Init => LedgerInv
<1> SUFFICES ASSUME Init PROVE LedgerInv
  OBVIOUS
<1> DEFINE f == [u \in Accounts |-> IF u = PoolAccount THEN 0 ELSE Endowment]
<1>1. /\ bal = [a \in Assets |-> f] /\ frozen = [a \in Assets |-> [u \in Accounts |-> 0]]
      /\ call = Idle /\ saved = NoStorage /\ bids = NoLevels /\ asks = NoLevels
      /\ lp = [u \in Accounts |-> 0] /\ calls = 0
  BY DEF Init
<1>2. /\ \A u \in Accounts : f[u] \in Nat /\ f[u] \in Int
      /\ \A u \in Users : f[u] = Endowment
      /\ f[PoolAccount] = 0 /\ DOMAIN f = Accounts
  BY PoolAssumption DEF Accounts
<1>3. SumFunctionOnSet(f, Users) = Cardinality(Users) * Endowment
  <2>1. Endowment \in Int /\ \A u \in Users : f[u] = Endowment
    BY <1>2, PoolAssumption
  <2> HIDE DEF f
  <2> QED
    BY <2>1, UsersAssumption, SumConstant
<1>4. Accounts \ {PoolAccount} = Users /\ Cardinality(Users) \in Nat
  BY PoolAssumption, UsersAssumption, FS_CardinalityType DEF Accounts
<1>5. f \in [Accounts -> Nat]
  BY <1>2
<1> HIDE DEF f
<1>6. SumFunctionOnSet(f, Accounts) =
        f[PoolAccount] + SumFunctionOnSet(f, Accounts \ {PoolAccount})
  BY <1>2, FiniteAccounts, SumRemove
<1>7. SumFunction(f) = Cardinality(Users) * Endowment
  <2>1. SumFunction(f) = 0 + SumFunctionOnSet(f, Users)
    BY <1>2, <1>4, <1>6 DEF SumFunction
  <2>2. Cardinality(Users) * Endowment \in Int
    BY <1>4, PoolAssumption
  <2> QED
    BY <1>3, <2>1, <2>2
<1>8. SoundLedger(bal, frozen)
  BY <1>1, <1>5, <1>7, FiniteAccounts DEF SoundLedger, Balances
<1>9. call.pc = "idle"
  BY <1>1 DEF Idle, Call
<1> QED
  BY <1>1, <1>8, <1>9, PoolAssumption, NoLevelsIsBook DEF LedgerInv

\* A failing call goes back to the saved ledger and books.
LEMMA LedgerAbort == ASSUME LedgerInv, MatchInv, Abort PROVE LedgerInv'
  BY Zenon DEF LedgerInv, MatchInv, Abort, Idle, Call

(***************************************************************************)
(* add_liquidity and remove_liquidity.                                     *)
(***************************************************************************)

\* The supply of the LP token.
LEMMA SupplyNatural == ASSUME lp \in [Accounts -> Nat] PROVE Supply \in Nat
<1>1. DOMAIN lp = Accounts /\ \A u \in Accounts : lp[u] \in Nat
  OBVIOUS
<1> QED
  BY <1>1, SumIsNatural, FiniteAccounts DEF Supply, SumFunction

\* The reserves are naturals.
LEMMA ReservesNatural ==
  ASSUME SoundLedger(bal, frozen)
  PROVE  BaseReserve \in Nat /\ QuoteReserve \in Nat
  BY FiniteAccounts DEF SoundLedger, Balances, Assets, BaseReserve, QuoteReserve

\* Two transfers, one of either asset, between the same accounts.
LEMMA SoundBoth ==
  ASSUME NEW b, NEW f, SoundLedger(b, f), NEW from \in Accounts, NEW to \in Accounts,
         NEW x \in Nat, x + f["base"][from] <= b["base"][from],
         NEW y \in Nat, y + f["quote"][from] <= b["quote"][from]
  PROVE  SoundLedger(Moved(Moved(b, "base", from, to, x), "quote", from, to, y), f)
<1> DEFINE first == Moved(b, "base", from, to, x)
<1>1. "base" \in Assets /\ "quote" \in Assets \ {"base"}
  BY DEF Assets
<1>2. b \in Balances /\ x <= b["base"][from]
  BY <1>1 DEF SoundLedger, Balances
<1>3. SoundLedger(first, f) /\ first["quote"] = b["quote"]
  <2>1. Transferred(b, first, "base", from, to, x)
    BY <1>1, <1>2, MovedValues, Zenon
  <2> QED
    BY <1>1, <2>1, SoundMoved, Zenon DEF Transferred
<1> HIDE DEF first
<1>4. SoundLedger(Moved(first, "quote", from, to, y), f)
  BY <1>1, <1>3, SoundMoved, Zenon
<1> QED
  BY <1>4 DEF first

(***************************************************************************)
(* Orders.                                                                 *)
(***************************************************************************)

\* Every extrinsic preserves the invariant.
LEMMA LedgerExtrinsic ==
  ASSUME LedgerInv, IdInv, NEW who \in Users, Extrinsic(who)
  PROVE  LedgerInv'
\* add_liquidity keeps the ledger sound.
<1>LedgerAdd.
  ASSUME NEW base \in Nat, NEW quote \in Nat, NEW baseMin, NEW quoteMin,
         NEW mintTo \in Users, AddLiquidity(who, base, quote, baseMin, quoteMin, mintTo)
  PROVE  LedgerInv'
  <2> USE <1>LedgerAdd
  <2> DEFINE taken == Provided(base, quote, baseMin, quoteMin, BaseReserve, QuoteReserve)
             minted == Minted(taken.base, taken.quote, Supply, BaseReserve, QuoteReserve)
             first == IF Supply = 0 THEN MintMinLiquidity ELSE 0
  <2>1. /\ call.pc = "idle" /\ calls < MaxCalls /\ calls' = calls + 1
        /\ CanDebit(bal, frozen, "base", who, taken.base, TRUE)
        /\ CanDebit(bal, frozen, "quote", who, taken.quote, TRUE)
        /\ minted > MintMinLiquidity
        /\ bal' = Moved(Moved(bal, "base", who, PoolAccount, taken.base),
                        "quote", who, PoolAccount, taken.quote)
        /\ lp' = [lp EXCEPT ![PoolAccount] = @ + first, ![mintTo] = @ + minted]
        /\ UNCHANGED <<frozen, bids, asks, call, saved>>
    BY Zenon DEF AddLiquidity, Called
  <2>2. /\ SoundLedger(bal, frozen) /\ lp \in [Accounts -> Nat] /\ calls \in 0..MaxCalls
        /\ who \in Accounts /\ mintTo \in Accounts /\ mintTo # PoolAccount
        /\ "base" \in Assets /\ "quote" \in Assets
    BY PoolAssumption DEF LedgerInv, Accounts, Assets
  <2>3. BaseReserve \in Nat /\ QuoteReserve \in Nat /\ Supply \in Nat
    BY <2>2, ReservesNatural, SupplyNatural
  <2>4. taken.base \in Nat /\ taken.quote \in Nat
    BY <2>3, ProvidedNatural
  <2> HIDE DEF taken
  <2>5. minted \in Nat /\ first \in Nat
    <3>1. minted \in Int
      BY <2>3, <2>4, MintedInteger, Zenon
    <3> HIDE DEF minted
    <3> QED
      BY <2>1, <3>1, MintAssumption
  <2> HIDE DEF minted, first
  <2>6. /\ taken.base + frozen["base"][who] <= bal["base"][who]
        /\ taken.quote + frozen["quote"][who] <= bal["quote"][who]
    BY <2>1, <2>2, <2>4, DebitLeavesFrozen, Zenon
  <2>7. SoundLedger(bal', frozen)
    BY <2>1, <2>2, <2>4, <2>6, FiniteAccounts, SoundBoth, Zenon
  <2>8. lp' \in [Accounts -> Nat]
    BY <2>1, <2>2, <2>5, FiniteAccounts
  <2>9. calls' \in 0..MaxCalls
    BY <2>1, <2>2, PoolAssumption
  <2> QED
    BY <2>1, <2>7, <2>8, <2>9, Zenon DEF LedgerInv
\* remove_liquidity keeps the ledger sound.
<1>LedgerRemove.
  ASSUME NEW burn \in Nat, NEW baseMin, NEW quoteMin,
         NEW withdrawTo \in Users,
         RemoveLiquidity(who, burn, baseMin, quoteMin, withdrawTo)
  PROVE  LedgerInv'
  <2> USE <1>LedgerRemove
  <2> DEFINE redeemed == burn - FeeOf(burn)
             base == MulDiv(redeemed, BaseReserve, Supply)
             quote == MulDiv(redeemed, QuoteReserve, Supply)
  <2>1. /\ call.pc = "idle" /\ calls < MaxCalls /\ calls' = calls + 1
        /\ base > 0 /\ quote > 0 /\ lp[who] >= burn
        /\ BaseReserve - base >= MinimumBalance /\ QuoteReserve - quote >= MinimumBalance
        /\ bal' = Moved(Moved(bal, "base", PoolAccount, withdrawTo, base),
                        "quote", PoolAccount, withdrawTo, quote)
        /\ lp' = [lp EXCEPT ![who] = @ - burn]
        /\ UNCHANGED <<frozen, bids, asks, call, saved>>
    BY DEF RemoveLiquidity, Called
  <2>2. /\ SoundLedger(bal, frozen) /\ lp \in [Accounts -> Nat] /\ calls \in 0..MaxCalls
        /\ who \in Accounts /\ withdrawTo \in Accounts
        /\ frozen["base"][PoolAccount] = 0 /\ frozen["quote"][PoolAccount] = 0
    BY Zenon DEF LedgerInv, SoundLedger, Accounts, Assets
  <2>3. BaseReserve \in Nat /\ QuoteReserve \in Nat /\ Supply \in Nat
    BY <2>2, ReservesNatural, SupplyNatural, Zenon
  <2>4. redeemed \in Int
    <3>1. WithdrawalFee \in Int
      BY FeeAssumption, SMT
    <3>2. burn * WithdrawalFee \in Int
      BY <3>1
    <3> QED
      BY <3>2, SMT DEF FeeOf
  <2> HIDE DEF redeemed
  <2>5. base \in Nat /\ quote \in Nat
    <3>1. \A r \in Nat : MulDiv(redeemed, r, Supply) \in Int
      <4> TAKE r \in Nat
      <4>1. redeemed * r \in Int
        BY <2>4
      <4> HIDE DEF redeemed
      <4>2. Supply # 0 => (redeemed * r) \div Supply \in Int
        BY <2>3, <4>1
      <4> QED
        BY <4>2 DEF MulDiv, InUnit, Err
    <3>2. base \in Int /\ quote \in Int
      BY <2>3, <3>1
    <3> HIDE DEF base, quote
    <3> QED
      BY <2>1, <3>2
  <2> HIDE DEF base, quote
  <2>6. /\ base + frozen["base"][PoolAccount] <= bal["base"][PoolAccount]
        /\ quote + frozen["quote"][PoolAccount] <= bal["quote"][PoolAccount]
    BY <2>1, <2>2, <2>3, <2>5 DEF MinimumBalance, BaseReserve, QuoteReserve
  <2>7. SoundLedger(bal', frozen)
    BY <2>1, <2>2, <2>5, <2>6, FiniteAccounts, SoundBoth, Zenon
  <2>8. lp' \in [Accounts -> Nat]
    BY <2>1, <2>2
  <2>9. calls' \in 0..MaxCalls
    BY <2>1, <2>2, PoolAssumption
  <2> QED
    BY <2>1, <2>7, <2>8, <2>9 DEF LedgerInv
\* Nothing is exchanged or filled when do_match_order is entered.
<1>LedgerStart.
  ASSUME call.pc = "idle", calls' \in 0..MaxCalls,
         NEW isBid \in BOOLEAN, NEW quantity \in Nat, NEW limit \in Nat,
         StartMatch(who, isBid, quantity, limit)
  PROVE  LedgerInv'
  <2> USE <1>LedgerStart
  <2>1. /\ call' = Call("loop", who, isBid, quantity, limit) /\ saved' = Storage
        /\ UNCHANGED <<bal, frozen, lp, bids, asks>>
    BY DEF StartMatch
  <2>2. /\ saved'.bal = bal /\ saved'.frozen = frozen /\ saved'.bids = bids /\ saved'.asks = asks
        /\ saved' # NoStorage
    <3>1. DOMAIN Storage = {"bal", "frozen", "bids", "asks"} /\ DOMAIN NoStorage = {}
      BY DEF Storage, NoStorage
    <3> QED
      BY <2>1, <3>1, Zenon DEF Storage
  <2>3. /\ call'.pc = "loop" /\ call'.who = who /\ call'.isBid = isBid /\ call'.fills = <<>>
        /\ call'.remain = quantity /\ call'.quantity = quantity
    BY <2>1 DEF Call
  <2>4. (\A owners : <<>> \in FillLists(owners)) /\ SumQuantities(<<>>) = 0
    BY NoFills
  <2>5. call' \in Matches
    <3>1. NewSearch(0) \in [min : Nat, max : Nat, swap : Nat, result : Int]
      BY DEF NewSearch, Searching
    <3> QED
      BY <2>1, <2>4, <3>1 DEF Call, Matches
  <2>7. bal["base"][who] \in Nat /\ ReservesKept(bal, bal)
    <3>1. /\ bal["base"][who] \in Nat
          /\ bal["base"][PoolAccount] \in Nat /\ bal["quote"][PoolAccount] \in Nat
      BY DEF LedgerInv, SoundLedger, Balances, Assets, Accounts
    <3> QED
      BY <3>1 DEF ReservesKept
  <2>8. Exchanged' = 0 /\ Opposite' = SavedOpposite'
    BY <2>1, <2>2, <2>3, <2>7 DEF Exchanged, Opposite, SavedOpposite
  <2>9. MatchInv'
    <3>1. call'.remain <= call'.quantity /\ 0 + 0 + quantity = quantity
      BY <2>3
    <3>2. /\ call'.pc # "search" /\ call'.pc # "fill"
          /\ SoundLedger(saved'.bal, saved'.frozen)
          /\ IsBook(saved'.bids, Users) /\ IsBook(saved'.asks, Users)
          /\ ReservesKept(saved'.bal, bal')
      BY <2>1, <2>2, <2>3, <2>7 DEF LedgerInv
    <3>3. \A owners : call'.fills \in FillLists(owners)
      BY <2>3, <2>4, Zenon
    <3>4. Exchanged' + SumQuantities(call'.fills) + call'.remain = call'.quantity
      BY <2>3, <2>4, <2>8, <3>1, Zenon
    <3> QED
      BY <2>2, <2>5, <2>8, <3>1, <3>2, <3>3, <3>4, Zenon DEF MatchInv
  <2> QED
    BY <2>1, <2>3, <2>9 DEF LedgerInv
\* A new order freezes what its owner has.
<1>LedgerPlace.
  ASSUME call.pc = "idle", calls' \in 0..MaxCalls,
         NEW isBid \in BOOLEAN, NEW price \in Nat, NEW quantity \in Nat,
         PlaceOrder(who, isBid, price, quantity)
  PROVE  LedgerInv'
  <2> USE <1>LedgerPlace
  \* increase_frozen for a user.
  <2>SoundFrozen.
    ASSUME NEW b, NEW f, SoundLedger(b, f),
           NEW a \in Assets, NEW x \in Nat, CanFreeze(b, f, a, who, x)
    PROVE  SoundLedger(b, Frozen(f, a, who, x))
    <3> USE <2>SoundFrozen
    <3> DEFINE after == Frozen(f, a, who, x)
    <3>1. /\ f \in Balances /\ b[a][who] \in Nat /\ f[a][who] \in Nat
          /\ who \in Accounts /\ who # PoolAccount /\ PoolAccount \in Accounts
      BY PoolAssumption, Zenon DEF SoundLedger, Balances, Accounts
    <3>2. /\ after \in Balances /\ after[a][who] = f[a][who] + x
          /\ \A c \in Assets, u \in Accounts : c # a \/ u # who => after[c][u] = f[c][u]
      BY <3>1 DEF Frozen, Balances
    <3>3. f[a][who] + x <= b[a][who]
      BY Zenon DEF CanFreeze
    <3> HIDE DEF after
    <3> QED
      BY <3>1, <3>2, <3>3, Zenon DEF SoundLedger, after
  <2> DEFINE asset == LockedAsset(isBid)
             amount == LockedAmount(isBid, price, quantity)
  <2>1. /\ CanFreeze(bal, frozen, asset, who, amount)
        /\ frozen' = Frozen(frozen, asset, who, amount)
        /\ UNCHANGED <<bal, lp, call, saved>>
    BY DEF PlaceOrder
  <2>2. asset \in Assets /\ amount \in Nat
    BY LockedTypes
  <2> HIDE DEF asset, amount
  <2>3. SoundLedger(bal', frozen')
    BY <2>1, <2>2, <2>SoundFrozen DEF LedgerInv
  <2>4. nextBid \in Nat /\ nextAsk \in Nat
    BY Zenon DEF IdInv, Counters
  <2>5. IsBook(bids', Users) /\ IsBook(asks', Users)
    <3>1. CASE isBid
      <4>1. bids' = PlacedAt(bids, price, nextBid, who, quantity) /\ asks' = asks
        BY <3>1 DEF PlaceOrder
      <4> QED
        BY <2>4, <4>1, PlacedIsBook DEF LedgerInv
    <3>2. CASE ~isBid
      <4>1. asks' = PlacedAt(asks, price, nextAsk, who, quantity) /\ bids' = bids
        BY <3>2 DEF PlaceOrder
      <4> QED
        BY <2>4, <4>1, PlacedIsBook DEF LedgerInv
    <3> QED
      BY <3>1, <3>2
  <2> QED
    BY <2>1, <2>3, <2>5 DEF LedgerInv
\* A cancelled order leaves the ledger alone, its freeze included.
<1>LedgerCancel.
  ASSUME NEW price, NEW id, NEW quantity \in Nat,
         CancelOrder(who, price, id, quantity)
  PROVE  LedgerInv'
  <2> USE <1>LedgerCancel
  <2>1. /\ call.pc = "idle" /\ calls < MaxCalls /\ calls' = calls + 1
        /\ UNCHANGED <<bal, frozen, lp, call, saved>>
    BY DEF CancelOrder, Called
  <2>2. calls' \in 0..MaxCalls
    BY <2>1, PoolAssumption DEF LedgerInv
  <2>3. IsBook(bids', Users) /\ IsBook(asks', Users)
    BY CanceledIsBook DEF CancelOrder, LedgerInv
  <2> QED
    BY <2>1, <2>2, <2>3 DEF LedgerInv
<1> USE PoolAssumption
<1>1. ASSUME NEW base \in LiquidityAmounts, NEW quote \in LiquidityAmounts,
             NEW baseMin \in Minimums, NEW quoteMin \in Minimums, NEW mintTo \in Users,
             AddLiquidity(who, base, quote, baseMin, quoteMin, mintTo)
      PROVE  LedgerInv'
  BY <1>1, <1>LedgerAdd
<1>2. ASSUME NEW burn \in Burns, NEW baseMin \in Minimums, NEW quoteMin \in Minimums,
             NEW withdrawTo \in Users,
             RemoveLiquidity(who, burn, baseMin, quoteMin, withdrawTo)
      PROVE  LedgerInv'
  BY <1>2, <1>LedgerRemove
<1>3. Called => call.pc = "idle" /\ calls' \in 0..MaxCalls
  BY DEF Called, LedgerInv
<1>4. ASSUME NEW isBid \in BOOLEAN, NEW quantity \in OrderQuantities,
             MarketOrder(who, isBid, quantity)
      PROVE  LedgerInv'
  BY <1>3, <1>4, <1>LedgerStart DEF MarketOrder
<1>5. ASSUME NEW isBid \in BOOLEAN, NEW quantity \in OrderQuantities,
             NEW price \in OrderPrices, LimitOrder(who, isBid, price, quantity)
      PROVE  LedgerInv'
  BY <1>3, <1>5, <1>LedgerStart, <1>LedgerPlace DEF LimitOrder
<1>6. ASSUME NEW price \in OrderPrices, NEW quantity \in OrderQuantities, NEW id,
             CancelOrder(who, price, id, quantity)
      PROVE  LedgerInv'
  BY <1>6, <1>LedgerCancel
<1> QED
  BY <1>1, <1>2, <1>4, <1>5, <1>6 DEF Extrinsic

\* A fill adds no id to the book.
LEMMA IdsFilled ==
  ASSUME NEW levels, NEW price, NEW quantity
  PROVE  IdsOf(FilledAt(levels, price, quantity)) \subseteq IdsOf(levels)
  BY FilledIds DEF IdsOf

\* Every step of a match preserves the invariant.
LEMMA IdInvMatch == ASSUME IdInv, MatchStep PROVE IdInv'
<1>1. CASE LoopDone
  BY <1>1 DEF LoopDone, IdInv, Counters
<1>2. CASE FillRest
  BY <1>2, IdInvAbort DEF FillRest, IdInv, Counters
<1>3. CASE NextLevel
  BY <1>3, IdInvAbort DEF NextLevel, IdInv, Counters
<1>4. CASE SearchTurn
  BY <1>4, IdInvAbort DEF SearchTurn, IdInv, Counters
<1>5. CASE FillLevel
  <2>1. CASE Abort
    BY <1>5, <2>1, IdInvAbort DEF FillLevel
  <2>2. CASE /\ IdsOf(bids') \subseteq IdsOf(bids) /\ IdsOf(asks') \subseteq IdsOf(asks)
             /\ UNCHANGED <<nextBid, nextAsk, saved>>
    BY <1>5, <2>2 DEF FillLevel, IdInv, Counters
  <2> QED
    BY <1>5, <2>1, <2>2, IdsFilled DEF FillLevel, Opposite
<1>6. CASE SettleFill
  BY <1>6, IdInvAbort, Zenon DEF SettleFill, IdInv, Counters
<1>7. CASE Commit
  BY <1>7 DEF Commit, IdInv, Counters, Idle, Call
<1> QED
  BY <1>1, <1>2, <1>3, <1>4, <1>5, <1>6, <1>7 DEF MatchStep

\* The books are empty at first.
LEMMA IdInit == Init => IdInv
  BY PoolAssumption DEF Init, IdInv, Counters, IdsOf, NoLevels, StartBid, Idle, Call

\* Every step preserves the invariant.
LEMMA IdStep == IdInv /\ [Next]_vars => IdInv'
<1>1. IdInv /\ UNCHANGED vars => IdInv'
  BY DEF vars, IdInv, Counters
<1> QED
  BY <1>1, IdInvMatch, IdInvExtrinsic DEF Next

\* The id of an open order tells its side of the book, and the two counters
\* never leave their halves, also after orders that failed and were undone.
THEOREM IdsStayOnTheirSide == Spec => []IdsOnTheirSide
<1>1. IdInv => IdsOnTheirSide
  BY PoolAssumption DEF IdInv, Counters, IdsOnTheirSide
<1> QED
  BY <1>1, IdInit, IdStep, PTL DEF Spec

(***************************************************************************)
(* The steps of a match.                                                   *)
(***************************************************************************)

\* Appending fills adds their quantities.
LEMMA FillsJoined ==
  ASSUME NEW owners, NEW s \in FillLists(owners), NEW t \in FillLists(owners)
  PROVE  /\ s \o t \in FillLists(owners)
         /\ SumQuantities(s \o t) = SumQuantities(s) + SumQuantities(t)
<1> DEFINE w == QuantityIn(owners)
<1>1. w \in [FillsOf(owners) -> Nat]
  BY QuantityInType
<1> HIDE DEF w
<1>2. s \o t \in FillLists(owners) /\ ListSum(w, s \o t) = ListSum(w, s) + ListSum(w, t)
  BY <1>1, ListSumJoined DEF FillLists
<1> QED
  BY <1>2, FillsSum DEF w

\* The first fill and the others.
LEMMA FillsTail ==
  ASSUME NEW owners, NEW s \in FillLists(owners), s # <<>>
  PROVE  /\ Head(s) \in FillsOf(owners) /\ Tail(s) \in FillLists(owners)
         /\ SumQuantities(s) = Head(s).quantity + SumQuantities(Tail(s))
<1> DEFINE w == QuantityIn(owners)
<1>1. w \in [FillsOf(owners) -> Nat] /\ \A f \in FillsOf(owners) : w[f] = f.quantity
  BY DEF FillsOf, QuantityIn
<1> HIDE DEF w
<1>2. /\ Head(s) \in FillsOf(owners) /\ Tail(s) \in FillLists(owners)
      /\ ListSum(w, s) = w[Head(s)] + ListSum(w, Tail(s))
  BY <1>1, ListSumTail DEF FillLists
<1> QED
  BY <1>1, <1>2, FillsSum DEF w

\* The fills of a level are never more than what the order asks for.
LEMMA FillsAtSound ==
  ASSUME NEW owners, IsBook(Opposite, owners), NEW price \in Nat, NEW quantity \in Nat
  PROVE  /\ FillsAt(price, quantity) \in FillLists(owners)
         /\ SumQuantities(FillsAt(price, quantity)) \in 0..quantity
<1> DEFINE pairs == FilledPairsAt(Opposite, price, quantity)
           fills == FillsAt(price, quantity)
<1>1. CASE price \notin DOMAIN Opposite
  <2>1. pairs = <<>> /\ fills = <<>>
    BY <1>1 DEF FillsAt, FilledPairsAt
  <2> HIDE DEF fills
  <2> QED
    BY <2>1, NoFills DEF fills
<1>2. CASE price \in DOMAIN Opposite
  <2> DEFINE tick == Opposite[price]
  <2>1. pairs = FilledPairs(tick, quantity) /\ IsTick(tick, owners)
    BY <1>2 DEF FilledPairsAt, IsBook
  <2> HIDE DEF tick
  <2>2. /\ pairs \in Seq([owner : owners, quantity : Nat])
        /\ SumFunction(QuantitiesOf(pairs)) = Smaller(quantity, Depth(tick))
    BY <2>1, PairsTogether
  <2>3. /\ fills \in FillLists(owners) /\ Len(fills) = Len(pairs)
        /\ \A n \in 1..Len(pairs) : fills[n].quantity = pairs[n].quantity
    <3> HIDE DEF pairs
    <3> DEFINE Fill(n) ==
                 [owner |-> pairs[n].owner, price |-> price, quantity |-> pairs[n].quantity]
    <3>1. fills = [n \in 1..Len(pairs) |-> Fill(n)]
      BY DEF FillsAt, pairs
    <3>2. Len(pairs) \in Nat /\ \A n \in 1..Len(pairs) : pairs[n] \in [owner : owners, quantity : Nat]
      <4> DEFINE R == [owner : owners, quantity : Nat]
      <4>1. pairs \in Seq(R)
        BY <2>2
      <4> HIDE DEF R
      <4>2. Len(pairs) \in Nat /\ \A n \in 1..Len(pairs) : pairs[n] \in R
        BY <4>1
      <4> QED
        BY <4>2 DEF R
    <3>3. \A n \in 1..Len(pairs) : Fill(n) \in FillsOf(owners) /\ Fill(n).quantity = pairs[n].quantity
      BY <3>2 DEF FillsOf
    <3> HIDE DEF Fill, fills
    <3> QED
      BY <3>1, <3>2, <3>3 DEF FillLists
  <2> HIDE DEF pairs, fills
  <2>4. [n \in 1..Len(fills) |-> fills[n].quantity] = QuantitiesOf(pairs)
    BY <2>3 DEF QuantitiesOf
  <2>5. SumQuantities(fills) = Smaller(quantity, Depth(tick))
    BY <2>2, <2>4 DEF SumQuantities
  <2>6. SumQuantities(fills) \in Nat
    BY <2>3, FillsSum
  <2> QED
    BY <2>3, <2>5, <2>6 DEF Smaller, fills
<1> QED
  BY <1>1, <1>2

\* A swap of the pool: the caller exchanges exactly the quantity of the base
\* asset, and the product of the reserves does not go down.
LEMMA SwapSound ==
  ASSUME SoundLedger(bal, frozen), call.who \in Users, call.isBid \in BOOLEAN,
         NEW q \in Nat, Swap(q).ok
  PROVE  /\ SoundLedger(Swap(q).bal, frozen)
         /\ ReservesKept(bal, Swap(q).bal)
         /\ Swap(q).bal["base"][call.who] =
              IF call.isBid THEN bal["base"][call.who] + q ELSE bal["base"][call.who] - q
<1> DEFINE in == BalancePath(q).in
           out == BalancePath(q).out
           assetIn == LockedAsset(call.isBid)
           assetOut == LockedAsset(~call.isBid)
           paid == Moved(bal, assetIn, call.who, PoolAccount, in)
           after == Moved(paid, assetOut, PoolAccount, call.who, out)
<1>0. /\ call.who \in Accounts /\ PoolAccount \in Accounts /\ call.who # PoolAccount
      /\ bal \in Balances
      /\ BaseReserve \in Nat /\ QuoteReserve \in Nat /\ bal["base"][call.who] \in Nat
  BY PoolAssumption DEF SoundLedger, Balances, Accounts, Assets, BaseReserve, QuoteReserve
<1>1. CASE q = 0
  <2>1. Swap(q).bal = bal
    BY <1>1 DEF Swap
  <2>2. BaseReserve * QuoteReserve <= BaseReserve * QuoteReserve
    BY <1>0
  <2>3. ReservesKept(bal, bal)
    BY <2>2, Zenon DEF ReservesKept, BaseReserve, QuoteReserve
  <2>4. bal["base"][call.who] + q = bal["base"][call.who]
        /\ bal["base"][call.who] - q = bal["base"][call.who]
    BY <1>0, <1>1
  <2> QED
    BY <2>1, <2>3, <2>4, Zenon
<1>2. CASE q # 0
  <2>1. /\ in # Err /\ out # Err
        /\ Swap(q) = CreditSwap(BalancePath(q))
    BY <1>2 DEF Swap
  <2>2. /\ CanDebit(bal, frozen, assetIn, call.who, in, FALSE)
        /\ CanDebit(bal, frozen, assetOut, PoolAccount, out, TRUE)
        /\ Swap(q).bal = after
    <3> DEFINE left == CanDebit(bal, frozen, assetIn, call.who, in, FALSE)
               right == CanDebit(bal, frozen, assetOut, PoolAccount, out, TRUE)
               both == left /\ right
    <3>1. CreditSwap(BalancePath(q)) = [ok |-> both, bal |-> after]
      BY Zenon DEF CreditSwap
    <3> HIDE DEF both, after
    <3>2. CreditSwap(BalancePath(q)).ok = both /\ CreditSwap(BalancePath(q)).bal = after
      BY <3>1
    <3>3. both
      BY <2>1, <3>2, Zenon
    <3> QED
      BY <2>1, <3>2, <3>3, Zenon DEF both
  <2>3. call.isBid => in = GetAmountIn(q, QuoteReserve, BaseReserve) /\ out = q
    BY DEF BalancePath
  <2>4. ~call.isBid => in = q /\ out = GetAmountOut(q, BaseReserve, QuoteReserve)
    BY DEF BalancePath
  <2> HIDE DEF in, out
  <2>5. /\ in \in Nat /\ out \in Nat
        /\ call.isBid => /\ out <= BaseReserve
                         /\ QuoteReserve * BaseReserve <= (QuoteReserve + in) * (BaseReserve - out)
        /\ ~call.isBid => /\ out <= QuoteReserve
                          /\ BaseReserve * QuoteReserve <= (BaseReserve + in) * (QuoteReserve - out)
    <3>1. CASE call.isBid
      <4>1. GetAmountIn(q, QuoteReserve, BaseReserve) # Err
        BY <2>1, <2>3, <3>1
      <4> QED
        BY <1>0, <2>3, <3>1, <4>1, GetAmountInKeepsProduct
    <3>2. CASE ~call.isBid
      <4>1. GetAmountOut(q, BaseReserve, QuoteReserve) # Err
        BY <2>1, <2>4, <3>2
      <4>2. /\ GetAmountOut(q, BaseReserve, QuoteReserve) \in 0..QuoteReserve
            /\ BaseReserve * QuoteReserve
                 <= (BaseReserve + q) * (QuoteReserve - GetAmountOut(q, BaseReserve, QuoteReserve))
        BY <1>0, <4>1, GetAmountOutKeepsProduct
      <4> QED
        BY <1>0, <2>4, <3>2, <4>2
    <3> QED
      BY <3>1, <3>2
  <2>6. assetIn \in Assets /\ assetOut \in Assets /\ assetIn # assetOut
    BY LockedTypes
  <2>7. call.isBid => assetIn = "quote" /\ assetOut = "base"
    BY DEF LockedAsset
  <2>8. ~call.isBid => assetIn = "base" /\ assetOut = "quote"
    BY DEF LockedAsset
  <2> HIDE DEF assetIn, assetOut
  <2>9. in + frozen[assetIn][call.who] <= bal[assetIn][call.who]
    BY <1>0, <2>2, <2>5, <2>6, DebitLeavesFrozen, Zenon
  <2>10. SoundLedger(paid, frozen)
    BY <1>0, <2>5, <2>6, <2>9, SoundMoved, Zenon
  <2>11. in <= bal[assetIn][call.who]
    BY <1>0, <2>5, <2>6, <2>9 DEF SoundLedger, Balances
  <2>12. /\ paid \in Balances
         /\ paid[assetOut] = bal[assetOut]
         /\ paid[assetIn][call.who] = bal[assetIn][call.who] - in
         /\ paid[assetIn][PoolAccount] = bal[assetIn][PoolAccount] + in
    <3>1. Transferred(bal, paid, assetIn, call.who, PoolAccount, in)
      BY <1>0, <2>5, <2>6, <2>11, MovedValues, Zenon
    <3> QED
      BY <1>0, <2>6, <3>1, Zenon DEF Transferred
  <2> HIDE DEF paid
  <2>13. out + frozen[assetOut][PoolAccount] <= paid[assetOut][PoolAccount]
    BY <1>0, <2>2, <2>5, <2>6, <2>12, DebitLeavesFrozen, Zenon
  <2>14. SoundLedger(after, frozen)
    BY <1>0, <2>5, <2>6, <2>10, <2>13, SoundMoved, Zenon
  <2>15. out <= paid[assetOut][PoolAccount]
    BY <1>0, <2>5, <2>6, <2>13 DEF SoundLedger, Balances
  <2>16. /\ after[assetIn] = paid[assetIn]
         /\ after[assetOut][call.who] = paid[assetOut][call.who] + out
         /\ after[assetOut][PoolAccount] = paid[assetOut][PoolAccount] - out
    <3>1. Transferred(paid, after, assetOut, PoolAccount, call.who, out)
      BY <1>0, <2>5, <2>6, <2>12, <2>15, MovedValues, Zenon
    <3> QED
      BY <1>0, <2>6, <3>1, Zenon DEF Transferred
  <2> HIDE DEF after
  <2>17. CASE call.isBid
    <3>1. /\ after["quote"][PoolAccount] = QuoteReserve + in
          /\ after["base"][PoolAccount] = BaseReserve - out
          /\ after["base"][call.who] = bal["base"][call.who] + q
      BY <2>3, <2>7, <2>12, <2>16, <2>17 DEF BaseReserve, QuoteReserve
    <3>2. ReservesKept(bal, after)
      BY <1>0, <2>5, <2>17, <3>1 DEF ReservesKept, BaseReserve, QuoteReserve
    <3> QED
      BY <2>2, <2>14, <2>17, <3>1, <3>2, Zenon
  <2>18. CASE ~call.isBid
    <3>1. /\ after["base"][PoolAccount] = BaseReserve + in
          /\ after["quote"][PoolAccount] = QuoteReserve - out
          /\ after["base"][call.who] = bal["base"][call.who] - q
      BY <2>4, <2>8, <2>12, <2>16, <2>18 DEF BaseReserve, QuoteReserve
    <3>2. ReservesKept(bal, after)
      BY <1>0, <2>5, <2>18, <3>1, Zenon DEF ReservesKept, BaseReserve, QuoteReserve
    <3> QED
      BY <2>2, <2>14, <2>18, <3>1, <3>2
  <2> QED
    BY <2>17, <2>18
<1> QED
  BY <1>1, <1>2

\* The fields of a match.
LEMMA MatchTypes ==
  ASSUME MatchInv
  PROVE  /\ call.who \in Users /\ call.isBid \in BOOLEAN
         /\ call.quantity \in Nat /\ call.remain \in Nat /\ call.target \in Nat
         /\ call.remain <= call.quantity
         /\ call.search \in [min : Nat, max : Nat, swap : Nat, result : Int]
         /\ call.fills \in FillLists(Users)
  BY Zenon DEF MatchInv, Matches

\* Leaving the loop, and a turn that begins.
LEMMA LedgerLoop ==
  ASSUME LedgerInv, MatchInv, LoopDone \/ NextLevel
  PROVE  LedgerInv'
<1>1. CASE Abort
  BY <1>1, LedgerAbort
<1>2. CASE LoopDone
  <2>1. /\ call' = [call EXCEPT !.pc = "settle"]
        /\ UNCHANGED <<bal, frozen, lp, bids, asks, saved, calls>>
    BY <1>2 DEF LoopDone
  <2>2. /\ call' \in Matches /\ call'.pc = "settle" /\ call'.who = call.who
        /\ call'.isBid = call.isBid /\ call'.quantity = call.quantity
        /\ call'.remain = call.remain /\ call'.fills = call.fills
    BY <2>1 DEF MatchInv, Matches
  <2>3. Opposite' = Opposite /\ SavedOpposite' = SavedOpposite /\ Exchanged' = Exchanged
    BY <2>1, <2>2 DEF Opposite, SavedOpposite, Exchanged
  <2>4. MatchInv'
    BY <2>1, <2>2, <2>3 DEF MatchInv
  <2> QED
    BY <2>1, <2>2, <2>4 DEF LedgerInv
<1>3. CASE NextLevel /\ ~Abort
  <2> DEFINE s == NewSearch(call.remain)
  <2>1. /\ call' = [call EXCEPT !.pc = "search", !.target = BestPrice, !.search = s]
        /\ DOMAIN Opposite # {}
        /\ UNCHANGED <<bal, frozen, lp, bids, asks, saved, calls>>
    BY <1>3 DEF NextLevel
  <2>2. BestPrice \in Nat
    <3>1. DOMAIN Opposite \in SUBSET Nat /\ IsFiniteSet(DOMAIN Opposite)
      BY MatchTypes DEF LedgerInv, IsBook, Opposite
    <3>2. /\ \E x \in DOMAIN Opposite : \A y \in DOMAIN Opposite : x <= y
          /\ \E x \in DOMAIN Opposite : \A y \in DOMAIN Opposite : y <= x
      BY <2>1, <3>1, LeastAndGreatest
    <3>3. Min(DOMAIN Opposite) \in DOMAIN Opposite /\ Max(DOMAIN Opposite) \in DOMAIN Opposite
      BY <3>1, <3>2 DEF Min, Max
    <3> QED
      BY <3>1, <3>3 DEF BestPrice, Opposite
  <2>3. /\ s \in [min : Nat, max : Nat, swap : Nat, result : Int]
        /\ s.result = Searching
    BY MatchTypes DEF NewSearch, Searching
  <2> HIDE DEF s
  <2>4. /\ call' \in Matches /\ call'.pc = "search" /\ call'.who = call.who
        /\ call'.isBid = call.isBid /\ call'.quantity = call.quantity
        /\ call'.remain = call.remain /\ call'.fills = call.fills /\ call'.search = s
    BY <2>1, <2>2, <2>3, Zenon DEF MatchInv, Matches
  <2>5. Opposite' = Opposite /\ SavedOpposite' = SavedOpposite /\ Exchanged' = Exchanged
    BY <2>1, <2>4 DEF Opposite, SavedOpposite, Exchanged
  <2>6. MatchInv'
    BY <2>1, <2>3, <2>4, <2>5 DEF MatchInv
  <2> QED
    BY <2>1, <2>4, <2>6 DEF LedgerInv
<1> QED
  BY <1>1, <1>2, <1>3

\* A turn of find_max_swap_quantity keeps its variables natural, and returns a
\* quantity or an error.
LEMMA SearchNatural ==
  ASSUME NEW s \in [min : Nat, max : Nat, swap : Nat, result : Int], s.result = Searching,
         NEW isBid, NEW target, NEW base, NEW quote
  PROVE  LET t == SearchStep(s, isBid, target, base, quote)
         IN  /\ t \in [min : Nat, max : Nat, swap : Nat, result : Int]
             /\ t.result \in Nat \cup {Err, Searching}
<1> DEFINE mid == Mid(s)
           price == PriceAfter(isBid, mid, base, quote)
<1>1. mid \in Nat
  <2>1. s.min + s.max + 1 \in Int
    OBVIOUS
  <2>2. Wrap(s.min + s.max + 1) \in Nat
    BY <2>1, WrapType DEF Unit
  <2> QED
    BY <2>2 DEF Mid
<1>2. Wrap(mid + Step) \in Nat /\ Wrap(mid - Step) \in Nat
  <2>1. mid + Step \in Int /\ mid - Step \in Int
    BY <1>1, StepType DEF Unit
  <2> QED
    BY <2>1, WrapType DEF Unit
<1> HIDE DEF mid, price
<1> DEFINE lower == Wrap(mid - Step)
           upper == Wrap(mid + Step)
<1>3. SearchStep(s, isBid, target, base, quote) =
        IF s.min >= s.max THEN [s EXCEPT !.result = s.swap]
        ELSE IF price = Err THEN [s EXCEPT !.result = Err]
        ELSE IF price = target THEN [s EXCEPT !.result = mid]
        ELSE IF price < target
        THEN IF isBid THEN [[s EXCEPT !.swap = mid] EXCEPT !.min = upper]
             ELSE [[s EXCEPT !.swap = mid] EXCEPT !.max = lower]
        ELSE IF ~isBid THEN [s EXCEPT !.min = upper] ELSE [s EXCEPT !.max = lower]
  BY DEF SearchStep, Narrowed, mid, price
<1> HIDE DEF lower, upper
<1>4. lower \in Nat /\ upper \in Nat
  BY <1>2 DEF lower, upper
<1> DEFINE Good(t) == /\ t \in [min : Nat, max : Nat, swap : Nat, result : Int]
                      /\ t.result \in Nat \cup {Err, Searching}
<1>5. Good([s EXCEPT !.result = s.swap]) /\ Good([s EXCEPT !.result = mid])
  BY <1>1 DEF Err, Searching
<1>6. Good([s EXCEPT !.result = Err])
  BY DEF Err, Searching
<1>7. Good([s EXCEPT !.min = upper]) /\ Good([s EXCEPT !.max = lower])
  BY <1>4 DEF Err, Searching
<1>8. Good([[s EXCEPT !.swap = mid] EXCEPT !.min = upper])
  BY <1>1, <1>4, Zenon DEF Err, Searching
<1>9. Good([[s EXCEPT !.swap = mid] EXCEPT !.max = lower])
  BY <1>1, <1>4, Zenon DEF Err, Searching
<1> HIDE DEF Good
<1>10. Good(SearchStep(s, isBid, target, base, quote))
  BY <1>3, <1>5, <1>6, <1>7, <1>8, <1>9
<1> QED
  BY <1>10 DEF Good

\* A turn of the search.
LEMMA LedgerSearch == ASSUME LedgerInv, MatchInv, SearchTurn PROVE LedgerInv'
<1> DEFINE s == SearchStep(call.search, call.isBid, call.target, BaseReserve, QuoteReserve)
<1>1. CASE Abort
  BY <1>1, LedgerAbort
<1>2. CASE ~Abort
  <2>1. /\ call.pc = "search" /\ s.result # Err
        /\ call' = [call EXCEPT !.search = s,
                                !.pc = IF s.result = Searching THEN @ ELSE "fill"]
        /\ UNCHANGED <<bal, frozen, lp, bids, asks, saved, calls>>
    BY <1>2 DEF SearchTurn
  <2>2. /\ s \in [min : Nat, max : Nat, swap : Nat, result : Int]
        /\ s.result \in Nat \cup {Err, Searching}
    BY <2>1, MatchTypes, SearchNatural DEF MatchInv
  <2> HIDE DEF s
  <2>3. /\ call' \in Matches /\ call'.who = call.who
        /\ call'.pc = IF s.result = Searching THEN "search" ELSE "fill"
        /\ call'.isBid = call.isBid /\ call'.quantity = call.quantity
        /\ call'.remain = call.remain /\ call'.fills = call.fills /\ call'.search = s
    BY <2>1, <2>2, Zenon DEF MatchInv, Matches
  <2>4. Opposite' = Opposite /\ SavedOpposite' = SavedOpposite /\ Exchanged' = Exchanged
    BY <2>1, <2>3 DEF Opposite, SavedOpposite, Exchanged
  <2>5. MatchInv'
    BY <2>1, <2>2, <2>3, <2>4 DEF MatchInv
  <2> QED
    BY <2>1, <2>3, <2>5 DEF LedgerInv
<1> QED
  BY <1>1, <1>2

\* The reserves after two exchanges that each keep their product.
LEMMA ReservesKeptTwice ==
  ASSUME NEW b, NEW f, SoundLedger(b, f), NEW c, NEW g, SoundLedger(c, g),
         NEW d, NEW h, SoundLedger(d, h), ReservesKept(b, c), ReservesKept(c, d)
  PROVE  ReservesKept(b, d)
<1> DEFINE R(l) == l["base"][PoolAccount] * l["quote"][PoolAccount]
<1>1. \A l \in Balances : R(l) \in Int
  <2> TAKE l \in Balances
  <2>1. l["base"][PoolAccount] \in Int /\ l["quote"][PoolAccount] \in Int
    BY FiniteAccounts DEF Balances, Assets
  <2> QED
    BY <2>1
<1>2. R(b) \in Int /\ R(c) \in Int /\ R(d) \in Int /\ R(b) <= R(c) /\ R(c) <= R(d)
  BY <1>1, Zenon DEF SoundLedger, ReservesKept
<1>3. R(b) <= R(d)
  <2> HIDE DEF R
  <2> QED
    BY <1>2
<1> QED
  BY <1>3 DEF ReservesKept

\* What the taker has exchanged after a swap of the pool.
LEMMA ExchangedSwap ==
  ASSUME LedgerInv, MatchInv, NEW q \in Nat, Swap(q).ok, bal' = Swap(q).bal, saved' = saved,
         call'.who = call.who, call'.isBid = call.isBid
  PROVE  /\ SoundLedger(bal', frozen) /\ ReservesKept(saved.bal, bal')
         /\ Exchanged \in Int /\ Exchanged' = Exchanged + q
<1>1. /\ SoundLedger(bal, frozen) /\ SoundLedger(saved.bal, saved.frozen)
      /\ call.who \in Users /\ call.isBid \in BOOLEAN /\ ReservesKept(saved.bal, bal)
  BY MatchTypes, Zenon DEF LedgerInv, MatchInv
<1>2. /\ SoundLedger(bal', frozen) /\ ReservesKept(bal, bal')
      /\ bal'["base"][call.who] =
           IF call.isBid THEN bal["base"][call.who] + q ELSE bal["base"][call.who] - q
  BY <1>1, SwapSound, Zenon
<1>3. bal["base"][call.who] \in Int /\ saved.bal["base"][call.who] \in Int
  <2>1. bal \in Balances /\ saved.bal \in Balances
    BY <1>1, Zenon DEF SoundLedger
  <2> QED
    BY <1>1, <2>1 DEF Balances, Assets, Accounts
<1>4. Exchanged \in Int /\ Exchanged' = Exchanged + q
  <2>1. CASE call.isBid
    <3>1. /\ Exchanged = bal["base"][call.who] - saved.bal["base"][call.who]
          /\ Exchanged' = bal'["base"][call.who] - saved.bal["base"][call.who]
          /\ bal'["base"][call.who] = bal["base"][call.who] + q
      BY <1>2, <2>1, Zenon DEF Exchanged
    <3> QED
      BY <1>3, <3>1
  <2>2. CASE ~call.isBid
    <3>1. /\ Exchanged = saved.bal["base"][call.who] - bal["base"][call.who]
          /\ Exchanged' = saved.bal["base"][call.who] - bal'["base"][call.who]
          /\ bal'["base"][call.who] = bal["base"][call.who] - q
      BY <1>2, <2>2, Zenon DEF Exchanged
    <3> QED
      BY <1>3, <3>1
  <2> QED
    BY <2>1, <2>2, Zenon
<1>5. ReservesKept(saved.bal, bal')
  BY <1>1, <1>2, ReservesKeptTwice
<1> QED
  BY <1>2, <1>4, <1>5

\* The pool fills the rest of an order.
LEMMA LedgerFillRest == ASSUME LedgerInv, MatchInv, FillRest PROVE LedgerInv'
<1> DEFINE swap == Swap(call.remain)
<1>1. CASE Abort
  BY <1>1, LedgerAbort
<1>2. CASE ~Abort
  <2>1. /\ swap.ok /\ bal' = swap.bal
        /\ call' = [call EXCEPT !.pc = "settle", !.remain = 0]
        /\ UNCHANGED <<frozen, lp, bids, asks, saved, calls>>
    BY <1>2 DEF FillRest
  <2>2. /\ call' \in Matches /\ call'.pc = "settle" /\ call'.who = call.who
        /\ call'.isBid = call.isBid /\ call'.quantity = call.quantity
        /\ call'.remain = 0 /\ call'.fills = call.fills
    BY <2>1, Zenon DEF MatchInv, Matches
  <2>3. /\ SoundLedger(bal', frozen) /\ ReservesKept(saved.bal, bal')
        /\ Exchanged \in Int /\ Exchanged' = Exchanged + call.remain
    BY <2>1, <2>2, MatchTypes, ExchangedSwap
  <2>4. Opposite' = Opposite /\ SavedOpposite' = SavedOpposite
    BY <2>1, <2>2 DEF Opposite, SavedOpposite
  <2>5. SumQuantities(call.fills) \in Nat
    BY MatchTypes, FillsSum
  <2> HIDE DEF swap
  <2>6. IsBook(SavedOpposite, Users \ {call.who})
          => Exchanged' + SumQuantities(call.fills) + 0 = call.quantity
    <3>1. IsBook(SavedOpposite, Users \ {call.who})
            => Exchanged + SumQuantities(call.fills) + call.remain = call.quantity
      BY Zenon DEF MatchInv
    <3>2. call.remain \in Nat
      BY MatchTypes, Zenon
    <3> QED
      BY <2>3, <2>5, <3>1, <3>2
  <2>7. MatchInv'
    BY <2>1, <2>2, <2>3, <2>4, <2>6, MatchTypes DEF MatchInv
  <2> QED
    BY <2>1, <2>2, <2>3, <2>7 DEF LedgerInv
<1> QED
  BY <1>1, <1>2

\* The pool and a level each fill a part.
LEMMA LedgerFillLevel == ASSUME LedgerInv, MatchInv, FillLevel PROVE LedgerInv'
<1> DEFINE found == call.search.result
           whole == call.remain <= found
           part == IF whole THEN call.remain ELSE found
           swap == Swap(part)
           rest == IF whole THEN 0 ELSE call.remain - found
           fills == IF whole THEN <<>> ELSE FillsAt(call.target, rest)
           book == IF whole THEN Opposite ELSE FilledAt(Opposite, call.target, rest)
<1>1. CASE Abort
  BY <1>1, LedgerAbort
<1>2. CASE ~Abort
  <2>1. /\ call.pc = "fill" /\ swap.ok /\ bal' = swap.bal
        /\ asks' = IF call.isBid THEN book ELSE asks
        /\ bids' = IF call.isBid THEN bids ELSE book
        /\ call' = [call EXCEPT !.pc = "loop", !.remain = rest - SumQuantities(fills),
                                !.fills = @ \o fills]
        /\ UNCHANGED <<frozen, lp, saved, calls>>
    BY <1>2 DEF FillLevel
  <2>2. found \in Nat /\ call.remain \in Nat /\ call.isBid \in BOOLEAN /\ call.target \in Nat
        /\ call.fills \in FillLists(Users) /\ call.quantity \in Nat
        /\ call.remain <= call.quantity
    BY <2>1, MatchTypes, Zenon DEF MatchInv
  <2>3. part \in Nat /\ rest \in Nat /\ part + rest = call.remain
    BY <2>2
  <2>4. \A owners : IsBook(Opposite, owners) =>
                      /\ IsBook(book, owners) /\ fills \in FillLists(owners)
                      /\ SumQuantities(fills) \in 0..rest
    <3> SUFFICES ASSUME NEW owners, IsBook(Opposite, owners)
                 PROVE  /\ IsBook(book, owners) /\ fills \in FillLists(owners)
                        /\ SumQuantities(fills) \in 0..rest
      BY Zenon
    <3>1. CASE whole
      <4>1. fills = <<>> /\ book = Opposite /\ 0 \in 0..rest
        BY <2>3, <3>1
      <4> QED
        BY <4>1, NoFills, Zenon
    <3>2. CASE ~whole
      <4> HIDE DEF rest
      <4> QED
        BY <2>2, <2>3, <3>2, FilledIsBook, FillsAtSound, Zenon
    <3> QED
      BY <3>1, <3>2, Zenon
  <2>5. IsBook(Opposite, Users)
    BY DEF Opposite, LedgerInv
  <2>6. SumQuantities(fills) \in 0..rest /\ fills \in FillLists(Users)
    BY <2>4, <2>5, Zenon
  <2> HIDE DEF fills, book, rest, part, swap
  <2>7. /\ call.fills \o fills \in FillLists(Users)
        /\ rest - SumQuantities(fills) \in Nat /\ rest - SumQuantities(fills) <= call.quantity
    <3>1. call.fills \o fills \in FillLists(Users)
      BY <2>2, <2>6, FillsJoined, Zenon
    <3> QED
      BY <2>2, <2>3, <2>6, <3>1
  <2>8. /\ call' \in Matches /\ call'.pc = "loop" /\ call'.who = call.who
        /\ call'.isBid = call.isBid /\ call'.quantity = call.quantity
        /\ call'.remain = rest - SumQuantities(fills) /\ call'.fills = call.fills \o fills
    BY <2>1, <2>7, Zenon DEF MatchInv, Matches
  <2>9. Opposite' = book /\ SavedOpposite' = SavedOpposite
    BY <2>1, <2>2, <2>8 DEF Opposite, SavedOpposite
  <2>10. /\ SoundLedger(bal', frozen) /\ ReservesKept(saved.bal, bal')
         /\ Exchanged \in Int /\ Exchanged' = Exchanged + part
    <3>1. Swap(part).ok /\ bal' = Swap(part).bal
      BY <2>1 DEF swap
    <3> QED
      BY <2>1, <2>3, <2>8, <3>1, ExchangedSwap
  <2>11. ASSUME NEW owners \in SUBSET Users, IsBook(SavedOpposite, owners)
         PROVE  IsBook(book, owners) /\ call.fills \o fills \in FillLists(owners)
    <3>1. IsBook(Opposite, owners) /\ call.fills \in FillLists(owners)
      BY <2>11 DEF MatchInv
    <3> QED
      BY <2>4, <3>1, FillsJoined
  <2>12. ASSUME IsBook(SavedOpposite, Users \ {call.who})
         PROVE  Exchanged' + SumQuantities(call.fills \o fills)
                  + (rest - SumQuantities(fills)) = call.quantity
    <3>1. Exchanged + SumQuantities(call.fills) + call.remain = call.quantity
      BY <2>12 DEF MatchInv
    <3>2. SumQuantities(call.fills \o fills) = SumQuantities(call.fills) + SumQuantities(fills)
      BY <2>2, <2>6, FillsJoined
    <3>3. SumQuantities(call.fills) \in Nat
      BY <2>2, FillsSum
    <3> QED
      BY <2>2, <2>3, <2>6, <2>10, <3>1, <3>2, <3>3
  <2>13. IsBook(bids', Users) /\ IsBook(asks', Users)
    BY <2>1, <2>4, <2>5 DEF LedgerInv
  <2>14. MatchInv'
    <3>1. call'.remain <= call'.quantity /\ saved' = saved
      BY <2>1, <2>7, <2>8
    <3>2. \A owners \in SUBSET Users : IsBook(SavedOpposite', owners)
            => IsBook(Opposite', owners) /\ call'.fills \in FillLists(owners)
      BY <2>8, <2>9, <2>11, Zenon
    <3>3. IsBook(SavedOpposite', Users \ {call'.who})
            => Exchanged' + SumQuantities(call'.fills) + call'.remain = call'.quantity
      BY <2>8, <2>9, <2>12, Zenon
    <3> QED
      BY <2>8, <2>10, <3>1, <3>2, <3>3, Zenon DEF MatchInv
  <2> QED
    BY <2>1, <2>8, <2>10, <2>13, <2>14 DEF LedgerInv
<1> QED
  BY <1>1, <1>2

\* A fill is settled between its maker and the taker; the pool has no part in
\* it, and a taker who is not the maker exchanges the quantity of the fill.
LEMMA LedgerSettle == ASSUME LedgerInv, MatchInv, SettleFill PROVE LedgerInv'
<1> DEFINE f == Head(call.fills)
           asset1 == LockedAsset(~call.isBid)
           asset2 == LockedAsset(call.isBid)
           released == LockedAmount(~call.isBid, f.price, f.quantity)
           paid == IF call.isBid THEN released ELSE f.quantity
           free == Released(frozen, asset1, f.owner, released)
           given == Moved(bal, asset1, f.owner, call.who, released)
           after == Moved(given, asset2, call.who, f.owner, paid)
<1>1. CASE Abort
  BY <1>1, LedgerAbort
<1>2. CASE ~Abort
  <2>1. /\ call.pc = "settle" /\ call.fills # <<>>
        /\ CanRelease(frozen, asset1, f.owner, released)
        /\ CanDebit(bal, free, asset1, f.owner, released, TRUE)
        /\ CanDebit(given, free, asset2, call.who, paid, TRUE)
        /\ frozen' = free /\ bal' = after
        /\ call' = [call EXCEPT !.fills = Tail(@)]
        /\ UNCHANGED <<lp, bids, asks, saved, calls>>
    BY <1>2, Zenon DEF SettleFill
  <2>2. /\ call.who \in Users /\ call.isBid \in BOOLEAN /\ call.fills \in FillLists(Users)
        /\ SoundLedger(bal, frozen) /\ SoundLedger(saved.bal, saved.frozen)
    BY MatchTypes, Zenon DEF LedgerInv, MatchInv
  <2>3. \A owners : call.fills \in FillLists(owners) =>
          /\ f \in FillsOf(owners) /\ Tail(call.fills) \in FillLists(owners)
          /\ SumQuantities(call.fills) = f.quantity + SumQuantities(Tail(call.fills))
    BY <2>1, FillsTail
  <2> HIDE DEF f
  <2>4. f.owner \in Users /\ f.price \in Nat /\ f.quantity \in Nat
    BY <2>2, <2>3 DEF FillsOf
  <2>5. /\ asset1 \in Assets /\ asset2 \in Assets /\ asset1 # asset2
        /\ released \in Nat /\ paid \in Nat
    BY <2>2, <2>4, LockedTypes, Zenon
  <2>6. /\ call.isBid => asset1 = "base" /\ released = f.quantity
        /\ ~call.isBid => asset2 = "base" /\ paid = f.quantity
    BY DEF LockedAsset, LockedAmount
  <2>7. /\ call.who \in Accounts /\ f.owner \in Accounts /\ PoolAccount \in Accounts
        /\ call.who # PoolAccount /\ f.owner # PoolAccount
    BY <2>2, <2>4, PoolAssumption DEF Accounts
  <2> HIDE DEF asset1, asset2, released, paid
  <2>8. SoundLedger(bal, free)
    BY <2>1, <2>2, <2>4, <2>5, SoundReleased
  <2> HIDE DEF free
  <2>9. released + free[asset1][f.owner] <= bal[asset1][f.owner]
    BY <2>1, <2>5, <2>7, <2>8, DebitLeavesFrozen, Zenon
  <2>10. SoundLedger(given, free)
    BY <2>5, <2>7, <2>8, <2>9, SoundMoved
  <2>11. bal \in Balances /\ released <= bal[asset1][f.owner]
    BY <2>5, <2>7, <2>8, <2>9 DEF SoundLedger, Balances
  <2>12. /\ given[asset2] = bal[asset2] /\ given[asset1][PoolAccount] = bal[asset1][PoolAccount]
         /\ f.owner # call.who => given[asset1][call.who] = bal[asset1][call.who] + released
    <3>1. Transferred(bal, given, asset1, f.owner, call.who, released)
      BY <2>5, <2>7, <2>11, MovedValues, Zenon
    <3> QED
      BY <2>5, <2>7, <3>1, Zenon DEF Transferred
  <2> HIDE DEF given
  <2>13. paid + free[asset2][call.who] <= given[asset2][call.who]
    BY <2>1, <2>5, <2>7, <2>10, DebitLeavesFrozen, Zenon
  <2>14. SoundLedger(after, free)
    BY <2>5, <2>7, <2>10, <2>13, SoundMoved
  <2>15. given \in Balances /\ paid <= given[asset2][call.who]
    BY <2>5, <2>7, <2>10, <2>13 DEF SoundLedger, Balances
  <2>16. /\ after[asset1] = given[asset1]
         /\ after[asset2][PoolAccount] = given[asset2][PoolAccount]
         /\ f.owner # call.who => after[asset2][call.who] = given[asset2][call.who] - paid
    <3>1. Transferred(given, after, asset2, call.who, f.owner, paid)
      BY <2>5, <2>7, <2>15, MovedValues, Zenon
    <3> QED
      BY <2>5, <2>7, <3>1, Zenon DEF Transferred
  <2> HIDE DEF after
  <2>17. \A a \in Assets : after[a][PoolAccount] = bal[a][PoolAccount]
    BY <2>5, <2>12, <2>16, Zenon DEF Assets
  <2>18. ReservesKept(saved.bal, after)
    BY <2>17, Zenon DEF MatchInv, ReservesKept, Assets
  <2>19. /\ call' \in Matches /\ call'.pc = "settle" /\ call'.who = call.who
         /\ call'.isBid = call.isBid /\ call'.quantity = call.quantity
         /\ call'.remain = call.remain /\ call'.fills = Tail(call.fills)
    BY <2>1, <2>2, <2>3, Zenon DEF MatchInv, Matches
  <2>20. Opposite' = Opposite /\ SavedOpposite' = SavedOpposite
    BY <2>1, <2>19 DEF Opposite, SavedOpposite
  <2>21. f.owner # call.who => Exchanged' = Exchanged + f.quantity
    <3>1. bal["base"][call.who] \in Int /\ saved.bal["base"][call.who] \in Int
      BY <2>2, <2>7 DEF SoundLedger, Balances, Assets
    <3>2. f.owner # call.who =>
            after["base"][call.who] = IF call.isBid THEN bal["base"][call.who] + f.quantity
                                      ELSE bal["base"][call.who] - f.quantity
      BY <2>2, <2>6, <2>12, <2>16
    <3> QED
      BY <2>1, <2>4, <2>19, <3>1, <3>2 DEF Exchanged
  <2>22. \A owners \in SUBSET Users : IsBook(SavedOpposite', owners)
           => IsBook(Opposite', owners) /\ call'.fills \in FillLists(owners)
    BY <2>3, <2>19, <2>20, Zenon DEF MatchInv
  <2>23. ASSUME IsBook(SavedOpposite, Users \ {call.who})
         PROVE  Exchanged' + SumQuantities(Tail(call.fills)) + call.remain = call.quantity
    <3>1. /\ call.fills \in FillLists(Users \ {call.who})
          /\ Exchanged + SumQuantities(call.fills) + call.remain = call.quantity
      BY <2>23, Zenon DEF MatchInv
    <3>2. f.owner # call.who
      BY <2>3, <3>1 DEF FillsOf
    <3>3. Exchanged \in Int /\ call.remain \in Int
      BY <2>2, <2>7, MatchTypes DEF SoundLedger, Balances, Assets, Exchanged
    <3>4. SumQuantities(Tail(call.fills)) \in Nat
      BY <2>2, <2>3, FillsSum, Zenon
    <3>5. SumQuantities(call.fills) = f.quantity + SumQuantities(Tail(call.fills))
      BY <2>2, <2>3
    <3> QED
      BY <2>4, <2>21, <3>1, <3>2, <3>3, <3>4, <3>5
  <2>24. MatchInv'
    BY <2>1, <2>18, <2>19, <2>20, <2>22, <2>23 DEF MatchInv
  <2> QED
    BY <2>1, <2>14, <2>19, <2>24 DEF LedgerInv
<1> QED
  BY <1>1, <1>2

\* Every step of a match preserves the invariant.
LEMMA LedgerMatch == ASSUME LedgerInv, MatchStep PROVE LedgerInv'
<1>1. MatchInv
  BY Zenon DEF LedgerInv, MatchStep, LoopDone, FillRest, NextLevel, SearchTurn, FillLevel,
         SettleFill, Commit
<1>2. CASE Commit
  BY <1>2 DEF Commit, LedgerInv, Idle, Call
<1> QED
  BY <1>1, <1>2, LedgerLoop, LedgerSearch, LedgerFillRest, LedgerFillLevel, LedgerSettle
  DEF MatchStep

\* The two invariants hold together.
LEMMA LedgerHolds == Spec => [](LedgerInv /\ IdInv)
<1>1. Init => LedgerInv /\ IdInv
  BY LedgerInit, IdInit
<1>2. LedgerInv /\ IdInv /\ [Next]_vars => LedgerInv' /\ IdInv'
  <2>1. LedgerInv /\ UNCHANGED vars => LedgerInv'
    BY Zenon DEF vars, LedgerInv, MatchInv, Opposite, SavedOpposite, Exchanged
  <2> QED
    BY <2>1, LedgerMatch, LedgerExtrinsic, IdStep DEF Next
<1> QED
  BY <1>1, <1>2, PTL DEF Spec

\* Balances and freezes never go below zero, an order is never filled by more
\* than it asks for, and storage is saved exactly while one is matched.
THEOREM TypeCorrect == Spec => []TypeOK
<1>1. LedgerInv => TypeOK
  <2> SUFFICES ASSUME LedgerInv PROVE TypeOK
    OBVIOUS
  <2>1. /\ bal \in [Assets -> [Accounts -> Nat]] /\ frozen \in [Assets -> [Accounts -> Nat]]
        /\ lp \in [Accounts -> Nat] /\ calls \in 0..MaxCalls
    BY DEF LedgerInv, SoundLedger, Balances
  <2>2. /\ call.pc \in {"idle", "loop", "search", "fill", "settle"}
        /\ call.who \in Accounts /\ call.remain \in 0..call.quantity
        /\ call.pc = "idle" <=> saved = NoStorage
    <3>1. CASE call.pc = "idle"
      BY <3>1, FiniteAccounts DEF LedgerInv, Idle, Call
    <3>2. CASE call.pc # "idle"
      <4>1. MatchInv
        BY <3>2 DEF LedgerInv
      <4>2. call.pc \in {"loop", "search", "fill", "settle"} /\ saved # NoStorage
        BY <4>1, Zenon DEF MatchInv, Matches
      <4>3. call.who \in Accounts
        BY <4>1, MatchTypes DEF Accounts
      <4>4. call.remain \in 0..call.quantity
        BY <4>1, MatchTypes
      <4> QED
        BY <4>2, <4>3, <4>4
    <3> QED
      BY <3>1, <3>2
  <2> QED
    BY <2>1, <2>2 DEF TypeOK
<1> QED
  BY <1>1, LedgerHolds, PTL

\* Along a match, and after one that fails, the freeze of an account is covered
\* by its balance.
THEOREM FreezesStayBacked == Spec => []FrozenBacked
<1>1. LedgerInv => FrozenBacked
  BY Zenon DEF LedgerInv, SoundLedger, FrozenBacked
<1> QED
  BY <1>1, LedgerHolds, PTL

\* Swaps, settlements, deposits and withdrawals, and their undoing, move units
\* and make none.
THEOREM AssetsConserved == Spec => []Conserved
<1>1. LedgerInv => Conserved
  BY DEF LedgerInv, SoundLedger, Conserved
<1> QED
  BY <1>1, LedgerHolds, PTL

\* A match, however its parts are spread over pool and levels, leaves the pool
\* with at least the product of reserves it had.
THEOREM MatchKeepsProduct == Spec => []ProductKept
<1>1. LedgerInv => ProductKept
  BY Zenon DEF LedgerInv, MatchInv, ReservesKept, ProductKept, BaseReserve, QuoteReserve
<1> QED
  BY <1>1, LedgerHolds, PTL

\* What the pool exchanged, what levels filled and what remains make up the
\* order at every step of do_match_order and handle_filled_orders.
THEOREM OrdersFilledExactly == Spec => []FilledExactly
<1>1. LedgerInv => FilledExactly
  <2> SUFFICES ASSUME LedgerInv, call.pc # "idle" PROVE FilledExactly
    BY Zenon DEF FilledExactly
  <2>1. MatchInv
    BY DEF LedgerInv
  <2>2. bal["base"][call.who] \in Int /\ saved.bal["base"][call.who] \in Int
    <3>1. bal \in Balances /\ saved.bal \in Balances
      BY <2>1, Zenon DEF LedgerInv, MatchInv, SoundLedger
    <3>2. call.who \in Accounts
      BY <2>1, MatchTypes DEF Accounts
    <3> QED
      BY <3>1, <3>2 DEF Balances, Assets
  <2>3. ASSUME \A p \in DOMAIN SavedOpposite : \A id \in DOMAIN SavedOpposite[p] :
                 SavedOpposite[p][id].owner # call.who
        PROVE  Exchanged + SumQuantities(call.fills) + call.remain = call.quantity
    <3>1. IsBook(SavedOpposite, Users)
      BY <2>1, Zenon DEF MatchInv, SavedOpposite
    <3>2. IsBook(SavedOpposite, Users \ {call.who})
      BY <2>3, <3>1 DEF IsBook, IsTick
    <3> QED
      BY <2>1, <3>2, Zenon DEF MatchInv
  <2>4. -(bal["base"][call.who] - saved.bal["base"][call.who])
          = saved.bal["base"][call.who] - bal["base"][call.who]
    BY <2>2
  <2>5. \/ call.isBid /\ SavedOpposite = saved.asks
              /\ Exchanged = bal["base"][call.who] - saved.bal["base"][call.who]
        \/ ~call.isBid /\ SavedOpposite = saved.bids
              /\ Exchanged = saved.bal["base"][call.who] - bal["base"][call.who]
    BY Zenon DEF SavedOpposite, Exchanged
  <2> QED
    BY <2>3, <2>4, <2>5, Zenon DEF FilledExactly
<1> QED
  BY <1>1, LedgerHolds, PTL

=============================================================================
