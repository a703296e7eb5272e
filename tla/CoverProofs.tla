---------------------------- MODULE CoverProofs ----------------------------
(***************************************************************************)
(* Proofs that a match leaves the orders of the makers covered by what     *)
(* they have frozen, and so never fails for want of a freeze to release;   *)
(* and that no call takes from what an LP token is worth.                  *)
(***************************************************************************)
EXTENDS HybridOrderbookProofs

(***************************************************************************)
(* The freezes of the makers.  What a user has frozen covers the open      *)
(* orders of the user, and the fills that a match has not settled yet,     *)
(* each by what it locks.                                                  *)
(***************************************************************************)
\* The value of an order fits its type; calc_quote_amount wraps otherwise.
SmallOrders == \A p \in OrderPrices, q \in OrderQuantities : p * q < UnitRange

Locks(isBid) == [p \in Nat |-> [q \in Nat |-> LockedAmount(isBid, p, q)]]

Owed(u, isBid) ==
  [f \in FillsOf(Users) |-> IF f.owner = u THEN LockedAmount(isBid, f.price, f.quantity) ELSE 0]
OwedTo(u, isBid, fills, takerIsBid) ==
  IF takerIsBid = isBid THEN 0 ELSE ListSum(Owed(u, isBid), fills)

SideOf(isBid, b, a) == IF isBid THEN b ELSE a

Covers(f, b, a, fills, takerIsBid) ==
  \A isBid \in BOOLEAN, u \in Users :
    BookWeighed(Locks(isBid), u, SideOf(isBid, b, a)) + OwedTo(u, isBid, fills, takerIsBid)
      <= f[LockedAsset(isBid)][u]

AllSplit(b, a) == \A isBid \in BOOLEAN : SplitsBook(Locks(isBid), SideOf(isBid, b, a))

CoverInv ==
  /\ Covers(frozen, bids, asks, call.fills, call.isBid) /\ AllSplit(bids, asks)
  /\ call.pc # "idle" => /\ Covers(saved.frozen, saved.bids, saved.asks, <<>>, FALSE)
                         /\ AllSplit(saved.bids, saved.asks)

\* An order of nothing locks nothing.
LEMMA LocksAreWeights ==
  ASSUME NEW isBid \in BOOLEAN
  PROVE  /\ IsWeights(Locks(isBid))
         /\ \A p, q \in Nat : Locks(isBid)[p][q] = LockedAmount(isBid, p, q)
<1>1. \A p, q \in Nat : LockedAmount(isBid, p, q) \in Nat
  BY LockedTypes
<1>2. \A p \in Nat : LockedAmount(isBid, p, 0) = 0
  <2> TAKE p \in Nat
  <2>1. p * 0 = 0
    OBVIOUS
  <2>2. Wrap(0) = 0
    BY AmmAssumption DEF Wrap
  <2>3. TenTo[PoolDecimals + QAdj] \in Nat /\ TenTo[PoolDecimals + QAdj] > 0
    BY AdjustmentTypes, AmmAssumption, TenToPositive
  <2>4. 0 \div TenTo[PoolDecimals + QAdj] = 0
    BY <2>3
  <2> QED
    BY <2>1, <2>2, <2>4 DEF LockedAmount, QuoteValue, Denom
<1> QED
  BY <1>1, <1>2 DEF IsWeights, IsWeight, Locks

\* The parts of a small order lock together at most what it locks.
LEMMA LocksSplit ==
  ASSUME NEW isBid \in BOOLEAN, NEW p \in Nat, NEW q \in Nat, p * q < UnitRange
  PROVE  Splits(Locks(isBid)[p], q)
\* What is rounded down in parts is no more than the whole rounded down.
<1>QuotientsAdd.
  ASSUME NEW x \in Nat, NEW y \in Nat, NEW z \in Nat, NEW d \in Nat, d > 0, x + y <= z
  PROVE  (x \div d) + (y \div d) <= z \div d
  <2> USE <1>QuotientsAdd
  <2> DEFINE xq == x \div d
             yq == y \div d
             zq == z \div d
  <2>1. /\ xq \in Nat /\ d * xq <= x
        /\ yq \in Nat /\ d * yq <= y
        /\ zq \in Nat /\ z < d * zq + d
    BY Division
  <2> HIDE DEF xq, yq, zq
  <2> SUFFICES ASSUME zq + 1 <= xq + yq PROVE FALSE
    BY <2>1 DEF xq, yq, zq
  <2>2. d * (zq + 1) <= d * (xq + yq)
    BY <2>1, ProductMonotonic
  <2>3. /\ d * (zq + 1) = d * zq + d /\ d * (xq + yq) = d * xq + d * yq
        /\ d * zq \in Int /\ d * xq \in Int /\ d * yq \in Int
    BY <2>1
  <2> QED
    BY <2>1, <2>2, <2>3
<1> SUFFICES ASSUME NEW a \in Nat, NEW b \in Nat, NEW c \in Nat, a + b <= c, c <= q
             PROVE  LockedAmount(isBid, p, a) + LockedAmount(isBid, p, b)
                      <= LockedAmount(isBid, p, c)
  BY LocksAreWeights DEF Splits
<1> DEFINE d == TenTo[PoolDecimals + QAdj]
<1>1. d \in Nat /\ d > 0
  BY AdjustmentTypes, AmmAssumption, TenToPositive
<1>2. /\ p * a \in Nat /\ p * b \in Nat /\ p * c \in Nat /\ p * q \in Nat
      /\ p * a <= p * c /\ p * b <= p * c /\ p * c <= p * q
  BY ProductMonotonic
<1>3. p * a + p * b <= p * c
  <2>1. p * (a + b) <= p * c
    BY ProductMonotonic
  <2>2. p * (a + b) = p * a + p * b
    OBVIOUS
  <2> QED
    BY <2>1, <2>2
<1>4. \A x \in {p * a, p * b, p * c} : Wrap(x) = x
  <2> SUFFICES ASSUME NEW x \in Nat, x < UnitRange PROVE Wrap(x) = x
    BY <1>2, AmmAssumption
  <2> QED
    BY AmmAssumption DEF Wrap
<1> HIDE DEF d
<1>5. ((p * a) \div d) + ((p * b) \div d) <= (p * c) \div d
  BY <1>1, <1>2, <1>3, <1>QuotientsAdd
<1>6. CASE isBid
  <2>1. \A x \in {a, b, c} : LockedAmount(isBid, p, x) = (p * x) \div d
    BY <1>4, <1>6 DEF LockedAmount, QuoteValue, Denom, d
  <2> QED
    BY <1>5, <2>1
<1>7. CASE ~isBid
  BY <1>7 DEF LockedAmount
<1> QED
  BY <1>6, <1>7

\* What the open orders of a user lock, as a weight.
LEMMA LockedIsWeighed ==
  ASSUME NEW isBid \in BOOLEAN, NEW u, NEW book, IsBook(book, Users)
  PROVE  LockedBy(u, isBid, book) = BookWeighed(Locks(isBid), u, book)
<1> DEFINE W == Locks(isBid)
<1>1. ASSUME NEW p \in DOMAIN book
      PROVE  LockedAt(u, isBid, p, book[p]) = Weighed(W[p], u, book[p])
  <2> DEFINE tick == book[p]
             f == [id \in DOMAIN tick |->
                     IF tick[id].owner = u
                     THEN LockedAmount(isBid, p, tick[id].quantity) ELSE 0]
  <2>1. IsTick(tick, Users) /\ p \in Nat
    BY DEF IsBook
  <2> HIDE DEF tick
  <2>2. \A id \in DOMAIN tick : tick[id].quantity \in Nat
    BY <2>1 DEF IsTick
  <2>3. \A id \in DOMAIN tick :
          LockedAmount(isBid, p, tick[id].quantity) = W[p][tick[id].quantity]
    BY <2>1, <2>2, LocksAreWeights
  <2> HIDE DEF W
  <2>4. f = WeightOf(W[p], u, tick) /\ DOMAIN f = DOMAIN tick
    BY <2>3 DEF WeightOf
  <2> HIDE DEF f
  <2>5. SumFunction(f) = Weighed(W[p], u, tick)
    BY <2>4 DEF SumFunction, Weighed
  <2> QED
    BY <2>5 DEF LockedAt, f, tick
<1> HIDE DEF W
<1> DEFINE g == [p \in DOMAIN book |-> LockedAt(u, isBid, p, book[p])]
<1>2. g = LevelWeights(W, u, book) /\ DOMAIN g = DOMAIN book
  BY <1>1 DEF LevelWeights
<1> HIDE DEF g
<1>3. SumFunction(g) = BookWeighed(W, u, book)
  BY <1>2 DEF SumFunction, BookWeighed
<1> QED
  BY <1>3 DEF LockedBy, g, W

\* What is owed is a natural number, and nothing without fills.
LEMMA OwedNatural ==
  ASSUME NEW isBid \in BOOLEAN, NEW u, NEW fills \in FillLists(Users), NEW takerIsBid
  PROVE  /\ Owed(u, isBid) \in [FillsOf(Users) -> Nat]
         /\ OwedTo(u, isBid, fills, takerIsBid) \in Nat
         /\ OwedTo(u, isBid, <<>>, takerIsBid) = 0
<1> DEFINE w == Owed(u, isBid)
<1>1. \A f \in FillsOf(Users) : f.price \in Nat /\ f.quantity \in Nat
  BY DEF FillsOf
<1>2. \A f \in FillsOf(Users) : LockedAmount(isBid, f.price, f.quantity) \in Nat
  BY <1>1, LockedTypes
<1>3. w \in [FillsOf(Users) -> Nat]
  BY <1>2 DEF Owed
<1> HIDE DEF w
<1>4. ListSum(w, fills) \in Nat /\ ListSum(w, <<>>) = 0
  BY <1>3, ListSumType, ListSumNone, Zenon DEF FillLists
<1> QED
  BY <1>3, <1>4 DEF OwedTo, w

\* Without orders nothing has to be covered.
LEMMA CoverInit == Init => CoverInv
<1> SUFFICES ASSUME Init PROVE CoverInv
  OBVIOUS
<1>1. /\ frozen = [a \in Assets |-> [u \in Accounts |-> 0]]
      /\ bids = NoLevels /\ asks = NoLevels
      /\ call.fills = <<>> /\ call.isBid = FALSE /\ call.pc = "idle"
  BY DEF Init, Idle, Call
<1>2. ASSUME NEW taker PROVE Covers(frozen, bids, asks, <<>>, taker)
  <2> SUFFICES ASSUME NEW isBid \in BOOLEAN, NEW u \in Users
               PROVE  BookWeighed(Locks(isBid), u, NoLevels) + OwedTo(u, isBid, <<>>, taker)
                        <= frozen[LockedAsset(isBid)][u]
    BY <1>1 DEF Covers, SideOf
  <2>1. BookWeighed(Locks(isBid), u, NoLevels) = 0
    BY LocksAreWeights, NoLevelsIsBook, BookWeighedNatural
  <2>2. OwedTo(u, isBid, <<>>, taker) = 0
    BY OwedNatural, NoFills, Zenon
  <2>3. frozen[LockedAsset(isBid)][u] = 0
    BY <1>1, LockedTypes DEF Accounts
  <2> QED
    BY <2>1, <2>2, <2>3
<1>3. AllSplit(bids, asks)
  BY <1>1 DEF AllSplit, SideOf, SplitsBook, NoLevels
<1> QED
  BY <1>1, <1>2, <1>3 DEF CoverInv

\* The types of what is covered.
LEMMA CoverTypes ==
  ASSUME LedgerInv
  PROVE  /\ call.fills \in FillLists(Users) /\ call.isBid \in BOOLEAN
         /\ frozen \in Balances
         /\ \A isBid \in BOOLEAN, u \in Users :
              /\ IsBook(SideOf(isBid, bids, asks), Users)
              /\ BookWeighed(Locks(isBid), u, SideOf(isBid, bids, asks)) \in Nat
              /\ OwedTo(u, isBid, call.fills, call.isBid) \in Nat
              /\ LockedAsset(isBid) \in Assets /\ u \in Accounts
              /\ frozen[LockedAsset(isBid)][u] \in Nat
<1>1. call.fills \in FillLists(Users) /\ call.isBid \in BOOLEAN
  <2>1. CASE call.pc = "idle"
    <3>1. call = Idle
      BY <2>1 DEF LedgerInv
    <3>2. Idle.fills = <<>> /\ Idle.isBid = FALSE
      BY DEF Idle, Call
    <3> QED
      BY <3>1, <3>2, NoFills, Zenon
  <2>2. CASE call.pc # "idle"
    BY <2>2 DEF LedgerInv, MatchInv, Matches
  <2> QED
    BY <2>1, <2>2
<1>2. frozen \in Balances
  BY DEF LedgerInv, SoundLedger
<1> SUFFICES ASSUME NEW isBid \in BOOLEAN, NEW u \in Users
             PROVE  /\ IsBook(SideOf(isBid, bids, asks), Users)
                    /\ BookWeighed(Locks(isBid), u, SideOf(isBid, bids, asks)) \in Nat
                    /\ OwedTo(u, isBid, call.fills, call.isBid) \in Nat
                    /\ LockedAsset(isBid) \in Assets /\ u \in Accounts
                    /\ frozen[LockedAsset(isBid)][u] \in Nat
  BY <1>1, <1>2
<1>3. IsBook(SideOf(isBid, bids, asks), Users)
  BY DEF LedgerInv, SideOf
<1>4. BookWeighed(Locks(isBid), u, SideOf(isBid, bids, asks)) \in Nat
  BY <1>3, LocksAreWeights, BookWeighedNatural
<1>5. OwedTo(u, isBid, call.fills, call.isBid) \in Nat
  BY <1>1, OwedNatural, Zenon
<1>6. LockedAsset(isBid) \in Assets /\ u \in Accounts
  BY LockedTypes DEF Accounts
<1> QED
  BY <1>2, <1>3, <1>4, <1>5, <1>6 DEF Balances

\* A match begins without fills, and saves a book that is covered.
LEMMA CoverStart ==
  ASSUME LedgerInv, CoverInv, NEW who, NEW isBid \in BOOLEAN, NEW quantity, NEW limit,
         StartMatch(who, isBid, quantity, limit)
  PROVE  CoverInv'
<1>1. /\ call'.fills = <<>> /\ call'.isBid = isBid
      /\ saved'.frozen = frozen /\ saved'.bids = bids /\ saved'.asks = asks
      /\ UNCHANGED <<frozen, bids, asks>>
  BY DEF StartMatch, Call, Storage
<1>2. ASSUME NEW takerIsBid \in BOOLEAN
      PROVE  Covers(frozen, bids, asks, <<>>, takerIsBid)
  <2> SUFFICES ASSUME NEW side \in BOOLEAN, NEW u \in Users
               PROVE  BookWeighed(Locks(side), u, SideOf(side, bids, asks))
                        + OwedTo(u, side, <<>>, takerIsBid) <= frozen[LockedAsset(side)][u]
    BY DEF Covers
  <2>1. BookWeighed(Locks(side), u, SideOf(side, bids, asks))
          + OwedTo(u, side, call.fills, call.isBid) <= frozen[LockedAsset(side)][u]
    BY DEF CoverInv, Covers
  <2>2. OwedTo(u, side, <<>>, takerIsBid) = 0
    BY OwedNatural, NoFills, Zenon
  <2>3. /\ BookWeighed(Locks(side), u, SideOf(side, bids, asks)) \in Nat
        /\ OwedTo(u, side, call.fills, call.isBid) \in Nat
        /\ frozen[LockedAsset(side)][u] \in Nat
    BY CoverTypes
  <2> QED
    BY <2>1, <2>2, <2>3
<1>3. AllSplit(bids, asks)
  BY DEF CoverInv
<1> QED
  BY <1>1, <1>2, <1>3, Zenon DEF CoverInv

\* A call that fails brings back a book that is covered.
LEMMA CoverAbort == ASSUME CoverInv, call.pc # "idle", Abort PROVE CoverInv'
  BY Zenon DEF CoverInv, Abort, Idle, Call

\* A new order freezes what it locks.
LEMMA CoverPlace ==
  ASSUME SmallOrders, LedgerInv, IdInv, CoverInv, call.pc = "idle",
         NEW who \in Users, NEW isBid \in BOOLEAN, NEW price \in OrderPrices,
         NEW quantity \in OrderQuantities, PlaceOrder(who, isBid, price, quantity)
  PROVE  CoverInv'
<1> DEFINE id == IF isBid THEN nextBid ELSE nextAsk
           asset == LockedAsset(isBid)
           amount == LockedAmount(isBid, price, quantity)
           before == SideOf(isBid, bids, asks)
           after == PlacedAt(before, price, id, who, quantity)
<1>1. /\ frozen' = Frozen(frozen, asset, who, amount)
      /\ SideOf(isBid, bids', asks') = after
      /\ SideOf(~isBid, bids', asks') = SideOf(~isBid, bids, asks)
      /\ UNCHANGED <<call, saved>>
  BY DEF PlaceOrder, SideOf
<1>2. price \in Nat /\ quantity \in Nat /\ price * quantity < UnitRange
  BY PoolAssumption DEF SmallOrders
<1>3. id \in Nat /\ id \notin IdsOf(before)
  BY PoolAssumption DEF IdInv, Counters, SideOf
<1>4. Splits(Locks(isBid)[price], quantity)
  BY <1>2, LocksSplit
<1>5. IsBook(before, Users) /\ SplitsBook(Locks(isBid), before)
  BY CoverTypes DEF CoverInv, AllSplit
<1>6. IsWeights(Locks(isBid)) /\ Locks(isBid)[price][quantity] = amount
  BY <1>2, LocksAreWeights
<1>7. amount \in Nat /\ asset \in Assets /\ who \in Accounts
  BY <1>2, LockedTypes DEF Accounts
<1> HIDE DEF id, before, asset, amount
<1>8. ASSUME NEW u
      PROVE  /\ BookWeighed(Locks(isBid), u, after)
                  = BookWeighed(Locks(isBid), u, before) + IF who = u THEN amount ELSE 0
             /\ SplitsBook(Locks(isBid), after)
  BY <1>2, <1>3, <1>4, <1>5, <1>6, BookPlaced
<1> HIDE DEF after
<1>9. \A a \in Assets, u \in Accounts :
        frozen'[a][u] = frozen[a][u] + IF a = asset /\ u = who THEN amount ELSE 0
  <2>1. frozen \in [Assets -> [Accounts -> Nat]]
    BY CoverTypes DEF Balances
  <2> QED
    BY <1>1, <1>7, <2>1 DEF Frozen
<1>10. ASSUME NEW side \in BOOLEAN, NEW u \in Users
       PROVE  BookWeighed(Locks(side), u, SideOf(side, bids', asks'))
                + OwedTo(u, side, call.fills, call.isBid) <= frozen'[LockedAsset(side)][u]
  <2>1. BookWeighed(Locks(side), u, SideOf(side, bids, asks))
          + OwedTo(u, side, call.fills, call.isBid) <= frozen[LockedAsset(side)][u]
    BY DEF CoverInv, Covers
  <2>2. /\ BookWeighed(Locks(side), u, SideOf(side, bids, asks)) \in Nat
        /\ OwedTo(u, side, call.fills, call.isBid) \in Nat
        /\ frozen[LockedAsset(side)][u] \in Nat
        /\ LockedAsset(side) \in Assets /\ u \in Accounts
    BY CoverTypes
  <2>3. CASE side = isBid
    <3>1. /\ LockedAsset(side) = asset /\ SideOf(side, bids, asks) = before
          /\ SideOf(side, bids', asks') = after
      BY <1>1, <2>3 DEF asset, before
    <3>2. BookWeighed(Locks(side), u, after)
            = BookWeighed(Locks(side), u, before) + IF who = u THEN amount ELSE 0
      BY <1>8, <2>3
    <3>3. frozen'[asset][u] = frozen[asset][u] + IF who = u THEN amount ELSE 0
      BY <1>9, <2>2, <3>1
    <3> QED
      BY <1>7, <2>1, <2>2, <3>1, <3>2, <3>3
  <2>4. CASE side # isBid
    <3>1. LockedAsset(side) # asset /\ SideOf(side, bids', asks') = SideOf(side, bids, asks)
      BY <1>1, <2>4 DEF asset, LockedAsset
    <3>2. frozen'[LockedAsset(side)][u] = frozen[LockedAsset(side)][u]
      BY <1>9, <2>2, <3>1
    <3> QED
      BY <2>1, <3>1, <3>2
  <2> QED
    BY <2>3, <2>4
<1>11. AllSplit(bids', asks')
  <2>1. ASSUME NEW side \in BOOLEAN PROVE SplitsBook(Locks(side), SideOf(side, bids', asks'))
    BY <1>1, <1>8 DEF CoverInv, AllSplit
  <2> QED
    BY <2>1 DEF AllSplit
<1>12. Covers(frozen', bids', asks', call.fills, call.isBid)
  BY <1>10 DEF Covers
<1> QED
  BY <1>1, <1>11, <1>12, Zenon DEF CoverInv

\* A cancelled order leaves its freeze, which covers what is left all the more.
LEMMA CoverCancel ==
  ASSUME LedgerInv, CoverInv, NEW who, NEW price, NEW id, NEW quantity \in Nat,
         CancelOrder(who, price, id, quantity)
  PROVE  CoverInv'
<1> DEFINE isBid == IsBidId(id)
           before == SideOf(isBid, bids, asks)
           after == CanceledAt(before, price, id, quantity)
<1>1. /\ CanCancelAt(before, price, who, id, quantity) /\ isBid \in BOOLEAN
      /\ SideOf(isBid, bids', asks') = after
      /\ SideOf(~isBid, bids', asks') = SideOf(~isBid, bids, asks)
      /\ UNCHANGED <<frozen, call, saved>>
  BY DEF CancelOrder, SideOf, IsBidId
<1> HIDE DEF isBid
<1>2. /\ IsBook(before, Users) /\ SplitsBook(Locks(isBid), before)
      /\ IsWeights(Locks(isBid))
  <2>1. IsBook(before, Users)
    BY DEF LedgerInv, SideOf
  <2>2. SplitsBook(Locks(isBid), before)
    BY <1>1 DEF CoverInv, AllSplit
  <2>3. IsWeights(Locks(isBid))
    BY <1>1, LocksAreWeights
  <2> QED
    BY <2>1, <2>2, <2>3
<1> HIDE DEF before
<1>3. ASSUME NEW u
      PROVE  /\ BookWeighed(Locks(isBid), u, after) <= BookWeighed(Locks(isBid), u, before)
             /\ SplitsBook(Locks(isBid), after)
  BY <1>1, <1>2, BookCanceled
<1>4. ASSUME NEW u PROVE BookWeighed(Locks(isBid), u, after) \in Nat
  BY <1>1, <1>2, CanceledIsBook, BookWeighedNatural
<1> HIDE DEF after
<1>5. ASSUME NEW side \in BOOLEAN, NEW u \in Users
      PROVE  BookWeighed(Locks(side), u, SideOf(side, bids', asks'))
               + OwedTo(u, side, call.fills, call.isBid) <= frozen[LockedAsset(side)][u]
  <2>1. BookWeighed(Locks(side), u, SideOf(side, bids, asks))
          + OwedTo(u, side, call.fills, call.isBid) <= frozen[LockedAsset(side)][u]
    BY DEF CoverInv, Covers
  <2>2. /\ BookWeighed(Locks(side), u, SideOf(side, bids, asks)) \in Nat
        /\ OwedTo(u, side, call.fills, call.isBid) \in Nat
        /\ frozen[LockedAsset(side)][u] \in Nat
    BY CoverTypes
  <2>3. CASE side = isBid
    <3> DEFINE w == BookWeighed(Locks(isBid), u, after)
               b == BookWeighed(Locks(isBid), u, before)
               o == OwedTo(u, side, call.fills, call.isBid)
               f == frozen[LockedAsset(side)][u]
    <3>1. w \in Nat /\ b \in Nat /\ o \in Nat /\ f \in Nat /\ w <= b /\ b + o <= f
      BY <1>3, <1>4, <2>1, <2>2, <2>3 DEF before
    <3>2. SideOf(side, bids', asks') = after
      BY <1>1, <2>3
    <3> HIDE DEF w, b, o, f
    <3>3. w + o <= f
      BY <3>1
    <3> QED
      BY <2>3, <3>2, <3>3 DEF w, o, f
  <2>4. CASE side # isBid
    BY <1>1, <2>1, <2>4
  <2> QED
    BY <2>3, <2>4
<1>6. AllSplit(bids', asks')
  <2>1. ASSUME NEW side \in BOOLEAN PROVE SplitsBook(Locks(side), SideOf(side, bids', asks'))
    BY <1>1, <1>3 DEF CoverInv, AllSplit
  <2> QED
    BY <2>1 DEF AllSplit
<1>7. Covers(frozen, bids', asks', call.fills, call.isBid)
  BY <1>5 DEF Covers
<1> QED
  BY <1>1, <1>6, <1>7, Zenon DEF CoverInv

\* Every extrinsic preserves the invariant.
LEMMA CoverExtrinsic ==
  ASSUME SmallOrders, LedgerInv, IdInv, CoverInv, NEW who \in Users, Extrinsic(who)
  PROVE  CoverInv'
<1>1. CASE UNCHANGED <<frozen, bids, asks, call, saved>>
  BY <1>1, Zenon DEF CoverInv
<1>2. ASSUME NEW isBid \in BOOLEAN, NEW quantity \in OrderQuantities,
             MarketOrder(who, isBid, quantity)
      PROVE  CoverInv'
  BY <1>2, CoverStart DEF MarketOrder
<1>3. ASSUME NEW isBid \in BOOLEAN, NEW quantity \in OrderQuantities,
             NEW price \in OrderPrices, LimitOrder(who, isBid, price, quantity)
      PROVE  CoverInv'
  BY <1>3, CoverStart, CoverPlace DEF LimitOrder, Called
<1>4. ASSUME NEW price \in OrderPrices, NEW quantity \in OrderQuantities, NEW id,
             CancelOrder(who, price, id, quantity)
      PROVE  CoverInv'
  BY <1>4, CoverCancel, PoolAssumption
<1>5. ASSUME NEW base, NEW quote, NEW baseMin, NEW quoteMin, NEW mintTo,
             AddLiquidity(who, base, quote, baseMin, quoteMin, mintTo)
      PROVE  CoverInv'
  BY <1>1, <1>5 DEF AddLiquidity
<1>6. ASSUME NEW burn, NEW baseMin, NEW quoteMin, NEW withdrawTo,
             RemoveLiquidity(who, burn, baseMin, quoteMin, withdrawTo)
      PROVE  CoverInv'
  BY <1>1, <1>6 DEF RemoveLiquidity
<1> QED
  BY <1>2, <1>3, <1>4, <1>5, <1>6 DEF Extrinsic

\* The fills of a level lock what the pairs they are made of weigh.
LEMMA FillsOwed ==
  ASSUME IsBook(Opposite, Users), NEW isBid \in BOOLEAN, NEW u, NEW price \in Nat,
         NEW quantity \in Nat
  PROVE  /\ FillsAt(price, quantity) \in FillLists(Users)
         /\ ListSum(Owed(u, isBid), FillsAt(price, quantity))
              = PairsWeighed(Locks(isBid)[price], u, FilledPairsAt(Opposite, price, quantity))
<1> DEFINE pairs == FilledPairsAt(Opposite, price, quantity)
           fills == FillsAt(price, quantity)
           w == Owed(u, isBid)
           lock == Locks(isBid)[price]
<1>1. fills \in FillLists(Users)
  BY FillsAtSound
<1>2. w \in [FillsOf(Users) -> Nat]
  BY NoFills, OwedNatural, Zenon
<1>3. \A q \in Nat : lock[q] = LockedAmount(isBid, price, q)
  BY LocksAreWeights
<1>4. /\ Len(fills) = Len(pairs)
      /\ \A n \in 1..Len(pairs) : /\ fills[n].owner = pairs[n].owner /\ fills[n].price = price
                                  /\ fills[n].quantity = pairs[n].quantity
  <2>1. Len(pairs) \in Nat
    <3>1. CASE price \notin DOMAIN Opposite
      BY <3>1 DEF FilledPairsAt
    <3>2. CASE price \in DOMAIN Opposite
      <4> DEFINE tick == Opposite[price]
                 R == [owner : Users, quantity : Nat]
      <4>1. pairs = FilledPairs(tick, quantity) /\ IsTick(tick, Users)
        BY <3>2 DEF FilledPairsAt, IsBook
      <4> HIDE DEF tick
      <4>2. pairs \in Seq(R)
        BY <4>1, PairsTogether
      <4> HIDE DEF R, pairs
      <4> QED
        BY <4>2
    <3> QED
      BY <3>1, <3>2
  <2> HIDE DEF pairs
  <2> QED
    BY <2>1 DEF FillsAt, pairs
<1> HIDE DEF fills, pairs, w, lock
<1>5. /\ ListSum(w, fills) = SumFunctionOnSet([n \in 1..Len(fills) |-> w[fills[n]]], 1..Len(fills))
      /\ \A n \in 1..Len(fills) : fills[n] \in FillsOf(Users)
  BY <1>1, <1>2, ListSumType, Zenon DEF FillLists
<1>6. ASSUME NEW n \in 1..Len(pairs)
      PROVE  w[fills[n]] = IF pairs[n].owner = u THEN lock[pairs[n].quantity] ELSE 0
  <2>1. fills[n] \in FillsOf(Users)
    BY <1>4, <1>5
  <2>2. w[fills[n]] = IF fills[n].owner = u
                      THEN LockedAmount(isBid, fills[n].price, fills[n].quantity) ELSE 0
    BY <2>1 DEF w, Owed
  <2>3. fills[n].quantity \in Nat
    BY <2>1 DEF FillsOf
  <2> QED
    BY <1>3, <1>4, <2>2, <2>3
<1>7. [n \in 1..Len(fills) |-> w[fills[n]]] = PairWeights(lock, u, pairs)
  BY <1>4, <1>6 DEF PairWeights
<1> QED
  BY <1>1, <1>4, <1>5, <1>7 DEF PairsWeighed, fills, pairs, w, lock

\* A step that leaves the freezes, the books and the fills alone.
LEMMA CoverSame ==
  ASSUME CoverInv, UNCHANGED <<frozen, bids, asks, saved>>, call'.pc # "idle", call.pc # "idle",
         call'.fills = call.fills, call'.isBid = call.isBid
  PROVE  CoverInv'
  BY Zenon DEF CoverInv

\* What fills take from the book, they add to what is owed.
LEMMA FillsLeaveTheBook ==
  \A b, f, o, l, z \in Nat : b + f <= o /\ o + l <= z => b + (l + f) <= z
  OBVIOUS

\* A level that is filled hands what its orders lock to the fills.
LEMMA CoverFillLevel ==
  ASSUME LedgerInv, MatchInv, CoverInv, FillLevel
  PROVE  CoverInv'
<1> DEFINE found == call.search.result
           whole == call.remain <= found
           rest == IF whole THEN 0 ELSE call.remain - found
           fills == IF whole THEN <<>> ELSE FillsAt(call.target, rest)
           book == IF whole THEN Opposite ELSE FilledAt(Opposite, call.target, rest)
<1>1. CASE Abort
  BY <1>1, CoverAbort DEF FillLevel
<1>2. CASE ~Abort
  <2>1. /\ call.pc = "fill"
        /\ asks' = IF call.isBid THEN book ELSE asks
        /\ bids' = IF call.isBid THEN bids ELSE book
        /\ call' = [call EXCEPT !.pc = "loop", !.remain = rest - SumQuantities(fills),
                                !.fills = @ \o fills]
        /\ UNCHANGED <<frozen, saved>>
    BY <1>2 DEF FillLevel
  <2>2. /\ found \in Nat /\ call.remain \in Nat /\ call.isBid \in BOOLEAN
        /\ call.target \in Nat /\ call.fills \in FillLists(Users)
    BY <2>1, MatchTypes DEF MatchInv
  <2>3. rest \in Nat
    BY <2>2
  <2>4. call'.pc = "loop" /\ call'.isBid = call.isBid /\ call'.fills = call.fills \o fills
    BY <2>1 DEF MatchInv, Matches
  <2>5. /\ IsBook(Opposite, Users)
        /\ SideOf(~call.isBid, bids, asks) = Opposite
        /\ SideOf(~call.isBid, bids', asks') = book
        /\ SideOf(call.isBid, bids', asks') = SideOf(call.isBid, bids, asks)
    BY <2>1, <2>2 DEF Opposite, LedgerInv, SideOf
  <2>6. \A isBid \in BOOLEAN : \A u :
          isBid # call.isBid =>
            /\ fills \in FillLists(Users)
            /\ BookWeighed(Locks(isBid), u, book) + ListSum(Owed(u, isBid), fills)
                 <= BookWeighed(Locks(isBid), u, Opposite)
            /\ BookWeighed(Locks(isBid), u, book) \in Nat
            /\ SplitsBook(Locks(isBid), book)
    <3> SUFFICES ASSUME NEW isBid \in BOOLEAN, NEW u, isBid # call.isBid
                 PROVE  /\ fills \in FillLists(Users)
                        /\ BookWeighed(Locks(isBid), u, book) + ListSum(Owed(u, isBid), fills)
                             <= BookWeighed(Locks(isBid), u, Opposite)
                        /\ BookWeighed(Locks(isBid), u, book) \in Nat
                        /\ SplitsBook(Locks(isBid), book)
      BY Zenon
    <3>1. /\ IsWeights(Locks(isBid)) /\ SplitsBook(Locks(isBid), Opposite)
          /\ IsBook(Opposite, Users)
      <4> HIDE DEF rest, fills, book, whole
      <4>1. isBid = ~call.isBid
        BY <2>2
      <4>2. SplitsBook(Locks(isBid), SideOf(isBid, bids, asks))
        BY DEF CoverInv, AllSplit
      <4> QED
        BY <2>5, <4>1, <4>2, LocksAreWeights, Zenon
    <3>2. CASE whole
      <4>1. fills = <<>> /\ book = Opposite
        BY <3>2
      <4> HIDE DEF rest, fills, book, whole
      <4>2. <<>> \in FillLists(Users) /\ ListSum(Owed(u, isBid), <<>>) = 0
        BY NoFills, OwedNatural, ListSumNone
      <4>3. BookWeighed(Locks(isBid), u, Opposite) \in Nat
        BY <3>1, BookWeighedNatural
      <4> QED
        BY <3>1, <4>1, <4>2, <4>3
    <3>3. CASE ~whole
      <4>1. fills = FillsAt(call.target, rest) /\ book = FilledAt(Opposite, call.target, rest)
        BY <3>3
      <4> HIDE DEF rest, fills, book, whole
      <4>0. rest \in Nat /\ call.target \in Nat
        BY <2>2, <2>3
      <4>2. /\ fills \in FillLists(Users)
            /\ ListSum(Owed(u, isBid), fills)
                 = PairsWeighed(Locks(isBid)[call.target], u,
                                FilledPairsAt(Opposite, call.target, rest))
        BY <3>1, <4>0, <4>1, FillsOwed
      <4>3. /\ BookWeighed(Locks(isBid), u, book)
                 + PairsWeighed(Locks(isBid)[call.target], u,
                                FilledPairsAt(Opposite, call.target, rest))
                 <= BookWeighed(Locks(isBid), u, Opposite)
            /\ SplitsBook(Locks(isBid), book)
        BY <3>1, <4>0, <4>1, BookFilled
      <4>4. BookWeighed(Locks(isBid), u, book) \in Nat
        BY <3>1, <4>0, <4>1, FilledIsBook, BookWeighedNatural
      <4> QED
        BY <4>2, <4>3, <4>4
    <3> QED
      BY <3>2, <3>3, Zenon
  <2> HIDE DEF fills, book, rest, whole
  <2>7. ASSUME NEW isBid \in BOOLEAN, NEW u \in Users
        PROVE  BookWeighed(Locks(isBid), u, SideOf(isBid, bids', asks'))
                 + OwedTo(u, isBid, call.fills \o fills, call.isBid)
                 <= frozen[LockedAsset(isBid)][u]
    <3>1. BookWeighed(Locks(isBid), u, SideOf(isBid, bids, asks))
            + OwedTo(u, isBid, call.fills, call.isBid) <= frozen[LockedAsset(isBid)][u]
      BY DEF CoverInv, Covers
    <3>2. /\ BookWeighed(Locks(isBid), u, SideOf(isBid, bids, asks)) \in Nat
          /\ OwedTo(u, isBid, call.fills, call.isBid) \in Nat
          /\ frozen[LockedAsset(isBid)][u] \in Nat
      BY CoverTypes
    <3>3. CASE isBid = call.isBid
      BY <2>5, <3>1, <3>3 DEF OwedTo
    <3>4. CASE isBid # call.isBid
      <4> DEFINE w == Owed(u, isBid)
      <4>1. isBid = ~call.isBid
        BY <2>2, <3>4
      <4>2. /\ OwedTo(u, isBid, call.fills, call.isBid) = ListSum(w, call.fills)
            /\ OwedTo(u, isBid, call.fills \o fills, call.isBid) = ListSum(w, call.fills \o fills)
        BY <3>4 DEF OwedTo
      <4>3. w \in [FillsOf(Users) -> Nat] /\ fills \in FillLists(Users)
        BY <2>2, <2>6, <3>4, OwedNatural, Zenon
      <4> HIDE DEF w
      <4>4. /\ ListSum(w, call.fills \o fills) = ListSum(w, call.fills) + ListSum(w, fills)
            /\ ListSum(w, fills) \in Nat
        <5>1. fills \in Seq(FillsOf(Users)) /\ call.fills \in Seq(FillsOf(Users))
          BY <2>2, <4>3 DEF FillLists
        <5>2. ListSum(w, fills) \in Nat
          BY <4>3, <5>1, ListSumType, Zenon
        <5> QED
          BY <4>3, <5>1, <5>2, ListSumJoined
      <4>5. /\ BookWeighed(Locks(isBid), u, book) + ListSum(w, fills)
                 <= BookWeighed(Locks(isBid), u, Opposite)
            /\ BookWeighed(Locks(isBid), u, book) \in Nat
        BY <2>6, <3>4 DEF w
      <4>6. SideOf(isBid, bids, asks) = Opposite /\ SideOf(isBid, bids', asks') = book
        BY <2>5, <4>1
      <4>7. /\ BookWeighed(Locks(isBid), u, Opposite) + ListSum(w, call.fills)
                 <= frozen[LockedAsset(isBid)][u]
            /\ BookWeighed(Locks(isBid), u, Opposite) \in Nat /\ ListSum(w, call.fills) \in Nat
        BY <3>1, <3>2, <4>2, <4>6, Zenon
      <4>8. BookWeighed(Locks(isBid), u, book) + (ListSum(w, call.fills) + ListSum(w, fills))
              <= frozen[LockedAsset(isBid)][u]
        BY <3>2, <4>4, <4>5, <4>7, FillsLeaveTheBook, Zenon
      <4> QED
        BY <4>2, <4>4, <4>6, <4>8, Zenon
    <3> QED
      BY <3>3, <3>4
  <2>8. ASSUME NEW isBid \in BOOLEAN PROVE SplitsBook(Locks(isBid), SideOf(isBid, bids', asks'))
    <3>1. CASE isBid = call.isBid
      BY <2>5, <3>1 DEF CoverInv, AllSplit
    <3>2. CASE isBid # call.isBid
      <4>1. isBid = ~call.isBid
        BY <2>2, <3>2
      <4> QED
        BY <2>5, <2>6, <3>2, <4>1, Zenon
    <3> QED
      BY <3>1, <3>2
  <2>9. Covers(frozen, bids', asks', call.fills \o fills, call.isBid) /\ AllSplit(bids', asks')
    BY <2>7, <2>8 DEF Covers, AllSplit
  <2> QED
    BY <2>1, <2>4, <2>9, Zenon DEF CoverInv
<1> QED
  BY <1>1, <1>2

\* A fill that is settled releases what it locks, which was frozen.
LEMMA CoverRelease ==
  ASSUME LedgerInv, MatchInv, CoverInv, call.fills # <<>>
  PROVE  LET f == Head(call.fills)
             asset == LockedAsset(~call.isBid)
             released == LockedAmount(~call.isBid, f.price, f.quantity)
         IN  /\ CanRelease(frozen, asset, f.owner, released)
             /\ Covers(Released(frozen, asset, f.owner, released), bids, asks,
                       Tail(call.fills), call.isBid)
<1> DEFINE f == Head(call.fills)
           maker == ~call.isBid
           asset == LockedAsset(maker)
           released == LockedAmount(maker, f.price, f.quantity)
           free == Released(frozen, asset, f.owner, released)
<1>1. call.fills \in FillLists(Users) /\ call.isBid \in BOOLEAN /\ maker \in BOOLEAN
  BY MatchTypes
<1>2. f \in FillsOf(Users) /\ Tail(call.fills) \in FillLists(Users)
  BY <1>1, FillsTail
<1> HIDE DEF f
<1>3. f.owner \in Users /\ f.owner \in Accounts /\ f.price \in Nat /\ f.quantity \in Nat
  BY <1>2 DEF FillsOf, Accounts
<1>4. asset \in Assets /\ released \in Nat
  BY <1>1, <1>3, LockedTypes, Zenon
<1> HIDE DEF maker
<1>5. \A u : /\ Owed(u, maker) \in [FillsOf(Users) -> Nat]
             /\ Owed(u, maker)[f] = IF f.owner = u THEN released ELSE 0
  BY <1>1, <1>2, OwedNatural, Zenon DEF Owed
<1> HIDE DEF asset, released
<1>6. \A u \in Users :
        /\ OwedTo(u, maker, call.fills, call.isBid) = ListSum(Owed(u, maker), call.fills)
        /\ OwedTo(u, maker, Tail(call.fills), call.isBid) = ListSum(Owed(u, maker), Tail(call.fills))
        /\ ListSum(Owed(u, maker), call.fills)
             = (IF f.owner = u THEN released ELSE 0) + ListSum(Owed(u, maker), Tail(call.fills))
        /\ ListSum(Owed(u, maker), Tail(call.fills)) \in Nat
  <2> TAKE u \in Users
  <2>1. call.isBid # maker
    BY <1>1 DEF maker
  <2>2. /\ OwedTo(u, maker, call.fills, call.isBid) = ListSum(Owed(u, maker), call.fills)
        /\ OwedTo(u, maker, Tail(call.fills), call.isBid) = ListSum(Owed(u, maker), Tail(call.fills))
    BY <2>1 DEF OwedTo
  <2> DEFINE w == Owed(u, maker)
  <2>3. w \in [FillsOf(Users) -> Nat] /\ w[f] = IF f.owner = u THEN released ELSE 0
    BY <1>5
  <2> HIDE DEF w
  <2>4. ListSum(w, call.fills) = w[f] + ListSum(w, Tail(call.fills))
    BY <1>1, <2>3, ListSumTail DEF FillLists, f
  <2>5. ListSum(w, Tail(call.fills)) \in Nat
    BY <1>2, <2>3, ListSumType, Zenon DEF FillLists
  <2> QED
    BY <2>2, <2>3, <2>4, <2>5 DEF w
<1>7. \A u \in Users :
        /\ BookWeighed(Locks(maker), u, SideOf(maker, bids, asks)) \in Nat
        /\ frozen[asset][u] \in Nat
        /\ BookWeighed(Locks(maker), u, SideOf(maker, bids, asks))
             + OwedTo(u, maker, call.fills, call.isBid) <= frozen[asset][u]
  BY <1>1, CoverTypes, Zenon DEF CoverInv, Covers, asset
<1>8. released <= frozen[asset][f.owner]
  <2> DEFINE b == BookWeighed(Locks(maker), f.owner, SideOf(maker, bids, asks))
             o == ListSum(Owed(f.owner, maker), Tail(call.fills))
  <2>1. b \in Nat /\ o \in Nat /\ b + (released + o) <= frozen[asset][f.owner]
    BY <1>3, <1>6, <1>7, Zenon
  <2> HIDE DEF b, o
  <2> QED
    BY <1>3, <1>4, <1>7, <2>1
<1>9. CanRelease(frozen, asset, f.owner, released)
  BY <1>8 DEF CanRelease
<1>10. \A a \in Assets, u \in Accounts :
         free[a][u] = IF a = asset /\ u = f.owner THEN frozen[a][u] - released ELSE frozen[a][u]
  BY <1>3, <1>4, CoverTypes DEF Balances, Released
<1> HIDE DEF free
<1>11. ASSUME NEW isBid \in BOOLEAN, NEW u \in Users
       PROVE  BookWeighed(Locks(isBid), u, SideOf(isBid, bids, asks))
                + OwedTo(u, isBid, Tail(call.fills), call.isBid) <= free[LockedAsset(isBid)][u]
  <2>1. CASE isBid = call.isBid
    <3>1. LockedAsset(isBid) # asset
      BY <1>1, <2>1, LockedTypes, Zenon DEF asset, maker
    <3>2. free[LockedAsset(isBid)][u] = frozen[LockedAsset(isBid)][u]
      BY <1>10, <3>1, CoverTypes, Zenon
    <3>3. OwedTo(u, isBid, Tail(call.fills), call.isBid) = OwedTo(u, isBid, call.fills, call.isBid)
      BY <2>1 DEF OwedTo
    <3> QED
      BY <3>2, <3>3, Zenon DEF CoverInv, Covers
  <2>2. CASE isBid # call.isBid
    <3>1. isBid = maker
      BY <1>1, <2>2 DEF maker
    <3>2. LockedAsset(isBid) = asset /\ u \in Accounts
      BY <3>1 DEF asset, Accounts
    <3>3. free[asset][u] = IF f.owner = u THEN frozen[asset][u] - released ELSE frozen[asset][u]
      BY <1>4, <1>10, <3>2
    <3> DEFINE b == BookWeighed(Locks(maker), u, SideOf(maker, bids, asks))
               o == ListSum(Owed(u, maker), Tail(call.fills))
    <3>4. /\ b \in Nat /\ o \in Nat /\ frozen[asset][u] \in Nat
          /\ b + ((IF f.owner = u THEN released ELSE 0) + o) <= frozen[asset][u]
          /\ OwedTo(u, isBid, Tail(call.fills), call.isBid) = o
          /\ BookWeighed(Locks(isBid), u, SideOf(isBid, bids, asks)) = b
      BY <1>6, <1>7, <3>1, Zenon
    <3> HIDE DEF b, o
    <3>5. b + o <= free[asset][u]
      <4> DEFINE given == IF f.owner = u THEN released ELSE 0
                 locked == frozen[asset][u]
      <4>1. /\ b \in Int /\ o \in Int /\ locked \in Int /\ given \in Int
            /\ b + (given + o) <= locked
        BY <1>4, <3>4
      <4>2. free[asset][u] = locked - given
        BY <3>3, <3>4
      <4> HIDE DEF given, locked
      <4> QED
        BY <4>1, <4>2
    <3> QED
      BY <3>2, <3>4, <3>5
  <2> QED
    BY <2>1, <2>2
<1>12. Covers(free, bids, asks, Tail(call.fills), call.isBid)
  BY <1>11 DEF Covers
<1> QED
  BY <1>9, <1>12, Zenon DEF f, maker, asset, released, free

\* Settling a fill.
LEMMA CoverSettle == ASSUME LedgerInv, MatchInv, CoverInv, SettleFill PROVE CoverInv'
<1> DEFINE f == Head(call.fills)
           asset == LockedAsset(~call.isBid)
           released == LockedAmount(~call.isBid, f.price, f.quantity)
<1>1. CASE Abort
  BY <1>1, CoverAbort DEF SettleFill
<1>2. CASE ~Abort
  <2>1. /\ call.pc = "settle" /\ call.fills # <<>>
        /\ frozen' = Released(frozen, asset, f.owner, released)
        /\ call' = [call EXCEPT !.fills = Tail(@)]
        /\ UNCHANGED <<bids, asks, saved>>
    BY <1>2, Zenon DEF SettleFill
  <2>2. call'.pc = "settle" /\ call'.isBid = call.isBid /\ call'.fills = Tail(call.fills)
    BY <2>1 DEF MatchInv, Matches
  <2>3. Covers(frozen', bids, asks, Tail(call.fills), call.isBid)
    BY <2>1, CoverRelease
  <2> QED
    BY <2>1, <2>2, <2>3, Zenon DEF CoverInv
<1> QED
  BY <1>1, <1>2

\* Every step of a match preserves the invariant.
LEMMA CoverMatch == ASSUME LedgerInv, CoverInv, MatchStep PROVE CoverInv'
<1>1. MatchInv /\ call.pc # "idle"
  BY Zenon DEF LedgerInv, MatchStep, LoopDone, FillRest, NextLevel, SearchTurn, FillLevel,
         SettleFill, Commit
<1>2. CASE Abort
  BY <1>1, <1>2, CoverAbort
<1>3. CASE /\ UNCHANGED <<frozen, bids, asks, saved>>
           /\ call'.pc # "idle" /\ call'.fills = call.fills /\ call'.isBid = call.isBid
  BY <1>1, <1>3, CoverSame
<1>4. CASE LoopDone
  BY <1>1, <1>3, <1>4 DEF LoopDone, MatchInv, Matches
<1>5. CASE FillRest
  BY <1>1, <1>2, <1>3, <1>5, Zenon DEF FillRest, MatchInv, Matches
<1>6. CASE NextLevel
  BY <1>1, <1>2, <1>3, <1>6, Zenon DEF NextLevel, MatchInv, Matches
<1>7. CASE SearchTurn
  BY <1>1, <1>2, <1>3, <1>7, Zenon DEF SearchTurn, MatchInv, Matches
<1>8. CASE Commit
  <2>1. /\ UNCHANGED <<frozen, bids, asks>> /\ call.fills = <<>>
        /\ call' = Idle
    BY <1>8 DEF Commit
  <2>2. Idle.fills = <<>> /\ Idle.isBid = FALSE /\ Idle.pc = "idle"
    BY DEF Idle, Call
  <2>3. ASSUME NEW taker PROVE Covers(frozen, bids, asks, <<>>, taker)
    <3> SUFFICES ASSUME NEW isBid \in BOOLEAN, NEW u \in Users
                 PROVE  BookWeighed(Locks(isBid), u, SideOf(isBid, bids, asks))
                          + OwedTo(u, isBid, <<>>, taker) <= frozen[LockedAsset(isBid)][u]
      BY Zenon DEF Covers
    <3>1. /\ OwedTo(u, isBid, <<>>, taker) = 0
          /\ OwedTo(u, isBid, call.fills, call.isBid) = 0
      BY <2>1, OwedNatural, NoFills, Zenon
    <3> QED
      BY <3>1 DEF CoverInv, Covers
  <2> QED
    BY <2>1, <2>2, <2>3 DEF CoverInv
<1> QED
  BY <1>1, <1>4, <1>5, <1>6, <1>7, <1>8, CoverFillLevel, CoverSettle DEF MatchStep

\* What a user is owed for fills is what the two definitions say alike.
LEMMA UnsettledOwed ==
  ASSUME LedgerInv, NEW u \in Users, NEW isBid \in BOOLEAN
  PROVE  Unsettled(u, isBid) = OwedTo(u, isBid, call.fills, call.isBid)
<1> DEFINE fills == call.fills
           w == Owed(u, isBid)
           g == [n \in 1..Len(fills) |->
                   LET f == fills[n]
                   IN  IF f.owner = u /\ call.isBid # isBid
                       THEN LockedAmount(isBid, f.price, f.quantity) ELSE 0]
<1>1. fills \in FillLists(Users) /\ call.isBid \in BOOLEAN
  BY CoverTypes
<1>2. w \in [FillsOf(Users) -> Nat]
  BY <1>1, OwedNatural, Zenon
<1> HIDE DEF fills, w
<1>3. /\ Len(fills) \in Nat /\ \A n \in 1..Len(fills) : fills[n] \in FillsOf(Users)
      /\ ListSum(w, fills) = SumFunctionOnSet([n \in 1..Len(fills) |-> w[fills[n]]], 1..Len(fills))
  BY <1>1, <1>2, ListSumType, Zenon DEF FillLists
<1>4. Unsettled(u, isBid) = SumFunctionOnSet(g, 1..Len(fills))
  <2>1. Unsettled(u, isBid) = SumFunction(g)
    BY DEF Unsettled, fills
  <2>2. DOMAIN g = 1..Len(fills)
    OBVIOUS
  <2> HIDE DEF g
  <2> QED
    BY <2>1, <2>2 DEF SumFunction
<1>5. CASE call.isBid = isBid
  <2>1. \A n \in 1..Len(fills) : g[n] = 0
    BY <1>5
  <2> HIDE DEF g
  <2>2. IsFiniteSet(1..Len(fills)) /\ Cardinality(1..Len(fills)) \in Nat
    BY <1>3, FS_Interval, FS_CardinalityType
  <2>3. SumFunctionOnSet(g, 1..Len(fills)) = Cardinality(1..Len(fills)) * 0
    BY <2>1, <2>2, SumConstant
  <2> QED
    BY <1>4, <1>5, <2>2, <2>3 DEF OwedTo
<1>6. CASE call.isBid # isBid
  <2>1. ASSUME NEW n \in 1..Len(fills) PROVE g[n] = w[fills[n]]
    BY <1>3, <1>6 DEF w, Owed
  <2>2. g = [n \in 1..Len(fills) |-> w[fills[n]]]
    BY <2>1
  <2> HIDE DEF g
  <2> QED
    BY <1>3, <1>4, <1>6, <2>2 DEF OwedTo, fills, w
<1> QED
  BY <1>5, <1>6

\* The three invariants hold together where the value of an order fits its type.
LEMMA CoverHolds == ASSUME SmallOrders PROVE Spec => [](LedgerInv /\ IdInv /\ CoverInv)
<1>1. Init => CoverInv
  BY CoverInit
<1>2. LedgerInv /\ IdInv /\ CoverInv /\ [Next]_vars => CoverInv'
  <2>1. CoverInv /\ UNCHANGED vars => CoverInv'
    BY Zenon DEF vars, CoverInv
  <2> QED
    BY <2>1, CoverMatch, CoverExtrinsic DEF Next
<1> QED
  BY <1>1, <1>2, LedgerHolds, PTL DEF Spec

\* Where no order is worth more than its type holds, what a maker has frozen
\* always covers the open orders of the maker and the fills still to settle.
THEOREM OrdersStayCovered == ASSUME SmallOrders PROVE Spec => []OrdersCovered
<1>1. LedgerInv /\ CoverInv => OrdersCovered
  <2> SUFFICES ASSUME LedgerInv, CoverInv, NEW u \in Users
               PROVE  /\ frozen["quote"][u] >= LockedBy(u, TRUE, bids) + Unsettled(u, TRUE)
                      /\ frozen["base"][u] >= LockedBy(u, FALSE, asks) + Unsettled(u, FALSE)
    BY Zenon DEF OrdersCovered
  <2>1. ASSUME NEW isBid \in BOOLEAN
        PROVE  LockedBy(u, isBid, SideOf(isBid, bids, asks)) + Unsettled(u, isBid)
                 <= frozen[LockedAsset(isBid)][u]
    <3>1. IsBook(SideOf(isBid, bids, asks), Users)
      BY CoverTypes, Zenon
    <3>2. LockedBy(u, isBid, SideOf(isBid, bids, asks))
            = BookWeighed(Locks(isBid), u, SideOf(isBid, bids, asks))
      BY <3>1, LockedIsWeighed
    <3> QED
      BY <3>2, UnsettledOwed, Zenon DEF CoverInv, Covers
  <2>2. /\ LockedAsset(TRUE) = "quote" /\ LockedAsset(FALSE) = "base"
        /\ SideOf(TRUE, bids, asks) = bids /\ SideOf(FALSE, bids, asks) = asks
    BY DEF LockedAsset, SideOf
  <2>3. LockedBy(u, TRUE, bids) + Unsettled(u, TRUE) <= frozen["quote"][u]
    BY <2>1, <2>2, Zenon
  <2>4. LockedBy(u, FALSE, asks) + Unsettled(u, FALSE) <= frozen["base"][u]
    BY <2>1, <2>2, Zenon
  <2> QED
    BY <2>3, <2>4, Zenon
<1> QED
  BY <1>1, CoverHolds, PTL

\* decrease_frozen has what it takes for the next fill to settle.
Releasable ==
  call.pc = "settle" /\ call.fills # <<>> =>
    LET f == Head(call.fills)
    IN  CanRelease(frozen, LockedAsset(~call.isBid), f.owner,
                   LockedAmount(~call.isBid, f.price, f.quantity))

\* So handle_filled_orders never fails in decrease_frozen: the freeze of a maker
\* is large enough for every fill, in whatever parts the orders were filled.
THEOREM ReleaseNeverFails == ASSUME SmallOrders PROVE Spec => []Releasable
<1>1. LedgerInv /\ CoverInv => Releasable
  BY CoverRelease, Zenon DEF Releasable, LedgerInv
<1> QED
  BY <1>1, CoverHolds, PTL

(***************************************************************************)
(* What an LP token is worth, through add_liquidity and remove_liquidity.  *)
(***************************************************************************)
\* Two transfers, one of either asset, between two accounts.
BothTransferred(b, after, from, to, x, y) ==
  /\ after["base"][from] = b["base"][from] - x
  /\ after["base"][to] = b["base"][to] + x
  /\ after["quote"][from] = b["quote"][from] - y
  /\ after["quote"][to] = b["quote"][to] + y

\* Where they show.
LEMMA BothMoved ==
  ASSUME NEW b \in Balances, NEW from \in Accounts, NEW to \in Accounts, from # to,
         NEW x \in Nat, x <= b["base"][from], NEW y \in Nat, y <= b["quote"][from]
  PROVE  BothTransferred(b, Moved(Moved(b, "base", from, to, x), "quote", from, to, y),
                         from, to, x, y)
<1>0. PICK after : after = Moved(Moved(b, "base", from, to, x), "quote", from, to, y)
  BY Zenon
<1> DEFINE first == Moved(b, "base", from, to, x)
<1>1. "base" \in Assets \ {"quote"} /\ "quote" \in Assets \ {"base"}
  BY DEF Assets
<1>2. /\ first \in Balances /\ first["quote"] = b["quote"]
      /\ first["base"][from] = b["base"][from] - x /\ first["base"][to] = b["base"][to] + x
  <2>1. Transferred(b, first, "base", from, to, x)
    BY <1>1, MovedValues, Zenon
  <2> QED
    BY <1>1, <2>1, Zenon DEF Transferred
<1>3. after = Moved(first, "quote", from, to, y)
  BY <1>0, Zenon
<1> HIDE DEF first
<1>4. /\ after["base"] = first["base"]
      /\ after["quote"][from] = first["quote"][from] - y
      /\ after["quote"][to] = first["quote"][to] + y
  <2>1. Transferred(first, after, "quote", from, to, y)
    BY <1>1, <1>2, <1>3, MovedValues, Zenon
  <2> QED
    BY <1>1, <2>1, Zenon DEF Transferred
<1> QED
  BY <1>0, <1>2, <1>4, Zenon DEF BothTransferred

\* The share of an LP token after a step, compared with the one before it.
ShareOk == ShareNoLower(BaseReserve, QuoteReserve, Supply, BaseReserve', QuoteReserve', Supply')

\* The supply changes by what one account gains or loses.
LEMMA SupplyChanged ==
  ASSUME lp \in [Accounts -> Nat], lp' \in [Accounts -> Nat], NEW who \in Accounts,
         \A u \in Accounts \ {who} : lp[u] = lp'[u]
  PROVE  Supply' = Supply + lp'[who] - lp[who] /\ lp[who] <= Supply
<1>1. \A u \in Accounts : lp[u] \in Int /\ lp'[u] \in Int /\ lp[u] \in Nat
  OBVIOUS
<1>2. SumFunctionOnSet(lp', Accounts) = SumFunctionOnSet(lp, Accounts) + lp'[who] - lp[who]
  BY <1>1, SumChange, FiniteAccounts, Zenon
<1>3. lp[who] <= SumFunctionOnSet(lp, Accounts)
  BY <1>1, SumIsNatural, FiniteAccounts, Zenon
<1>4. DOMAIN lp = Accounts /\ DOMAIN lp' = Accounts
  OBVIOUS
<1> QED
  BY <1>2, <1>3, <1>4, Zenon DEF Supply, SumFunction

\* An amount that leaves room for another one fits by itself.
LEMMA PartFits == \A x, f, b \in Nat : x + f <= b => x <= b
  OBVIOUS

\* What is left, at least the minimum, was taken from enough.
LEMMA RestFits == \A x, b \in Nat : b - x >= 1 => x <= b
  OBVIOUS

\* What an account gains or loses, without what it had.
LEMMA GainAndLoss == \A s, a, n \in Nat : s + (a + n) - a = s + n /\ s + (a - n) - a = s - n
  OBVIOUS

\* add_liquidity pays for the side that gives less.
LEMMA ShareAdd ==
  ASSUME LedgerInv, Supply > 0, NEW who \in Users, NEW base \in Nat, NEW quote \in Nat,
         NEW baseMin, NEW quoteMin, NEW mintTo \in Users,
         AddLiquidity(who, base, quote, baseMin, quoteMin, mintTo)
  PROVE  ShareOk
<1> DEFINE taken == Provided(base, quote, baseMin, quoteMin, BaseReserve, QuoteReserve)
           minted == Minted(taken.base, taken.quote, Supply, BaseReserve, QuoteReserve)
<1>1. /\ CanDebit(bal, frozen, "base", who, taken.base, TRUE)
      /\ CanDebit(bal, frozen, "quote", who, taken.quote, TRUE)
      /\ minted > MintMinLiquidity
      /\ bal' = Moved(Moved(bal, "base", who, PoolAccount, taken.base),
                      "quote", who, PoolAccount, taken.quote)
      /\ Supply # 0 => lp' = [lp EXCEPT ![PoolAccount] = @ + 0, ![mintTo] = @ + minted]
  BY Zenon DEF AddLiquidity
<1>2. /\ SoundLedger(bal, frozen) /\ lp \in [Accounts -> Nat]
      /\ who \in Accounts /\ mintTo \in Accounts /\ mintTo # PoolAccount
      /\ who # PoolAccount /\ PoolAccount \in Accounts
      /\ "base" \in Assets /\ "quote" \in Assets /\ bal \in Balances
  BY PoolAssumption, Zenon DEF LedgerInv, SoundLedger, Accounts, Assets
<1>3. BaseReserve \in Nat /\ QuoteReserve \in Nat /\ Supply \in Nat
  BY <1>2, ReservesNatural, SupplyNatural, Zenon
<1>4. taken.base \in Nat /\ taken.quote \in Nat
  BY <1>3, ProvidedNatural, Zenon
<1>5. Supply # 0
  BY <1>3
<1> HIDE DEF taken
<1>6. /\ minted \in Nat
      /\ ShareNoLower(BaseReserve, QuoteReserve, Supply,
                      BaseReserve + taken.base, QuoteReserve + taken.quote, Supply + minted)
  BY <1>1, <1>3, <1>4, <1>5, MintedShare, Zenon
<1> HIDE DEF minted
<1>7. BaseReserve' = BaseReserve + taken.base /\ QuoteReserve' = QuoteReserve + taken.quote
  <2>1. /\ taken.base + frozen["base"][who] <= bal["base"][who]
        /\ taken.quote + frozen["quote"][who] <= bal["quote"][who]
    BY <1>1, <1>2, <1>4, DebitLeavesFrozen, Zenon
  <2>2. /\ frozen["base"][who] \in Nat /\ bal["base"][who] \in Nat
        /\ frozen["quote"][who] \in Nat /\ bal["quote"][who] \in Nat
    BY <1>2 DEF SoundLedger, Balances
  <2>3. taken.base <= bal["base"][who] /\ taken.quote <= bal["quote"][who]
    BY <1>4, <2>1, <2>2, PartFits, Zenon
  <2>4. BothTransferred(bal, bal', who, PoolAccount, taken.base, taken.quote)
    BY <1>1, <1>2, <1>4, <2>3, BothMoved, Zenon
  <2> QED
    BY <2>4, Zenon DEF BothTransferred, BaseReserve, QuoteReserve
<1>8. Supply' = Supply + minted
  <2>1. lp' = [lp EXCEPT ![PoolAccount] = @ + 0, ![mintTo] = @ + minted]
    BY <1>1, <1>5, Zenon
  <2>2. /\ lp' \in [Accounts -> Nat] /\ lp'[mintTo] = lp[mintTo] + minted /\ lp[mintTo] \in Nat
        /\ \A u \in Accounts \ {mintTo} : lp[u] = lp'[u]
    BY <1>2, <1>6, <2>1
  <2>3. Supply' = Supply + (lp[mintTo] + minted) - lp[mintTo]
    BY <1>2, <2>2, SupplyChanged, Zenon
  <2>4. Supply + (lp[mintTo] + minted) - lp[mintTo] = Supply + minted
    <3>1. Supply \in Nat /\ lp[mintTo] \in Nat /\ minted \in Nat
      BY <1>3, <1>6, <2>2, Zenon
    <3> QED
      BY <3>1, GainAndLoss, Zenon
  <2> QED
    BY <2>3, <2>4, Zenon
<1> QED
  BY <1>6, <1>7, <1>8, Zenon DEF ShareOk

\* remove_liquidity pays no more than the share that is burned.
LEMMA ShareRemove ==
  ASSUME LedgerInv, Supply > 0, NEW who \in Users, NEW burn \in Nat, NEW baseMin, NEW quoteMin,
         NEW withdrawTo \in Users,
         RemoveLiquidity(who, burn, baseMin, quoteMin, withdrawTo)
  PROVE  ShareOk
<1> DEFINE redeemed == burn - FeeOf(burn)
           base == MulDiv(redeemed, BaseReserve, Supply)
           quote == MulDiv(redeemed, QuoteReserve, Supply)
<1>1. /\ base > 0 /\ quote > 0 /\ lp[who] >= burn
      /\ BaseReserve - base >= MinimumBalance /\ QuoteReserve - quote >= MinimumBalance
      /\ bal' = Moved(Moved(bal, "base", PoolAccount, withdrawTo, base),
                      "quote", PoolAccount, withdrawTo, quote)
      /\ lp' = [lp EXCEPT ![who] = @ - burn]
  BY Zenon DEF RemoveLiquidity
<1>2. /\ SoundLedger(bal, frozen) /\ lp \in [Accounts -> Nat] /\ bal \in Balances
      /\ who \in Accounts /\ withdrawTo \in Accounts /\ withdrawTo # PoolAccount
      /\ PoolAccount \in Accounts /\ "base" \in Assets /\ "quote" \in Assets
  BY PoolAssumption, Zenon DEF LedgerInv, SoundLedger, Accounts, Assets
<1>3. BaseReserve \in Nat /\ QuoteReserve \in Nat /\ Supply \in Nat
  BY <1>2, ReservesNatural, SupplyNatural, Zenon
<1>4. redeemed \in Int /\ redeemed <= burn
  <2>1. WithdrawalFee \in Nat
    BY FeeAssumption, SMT
  <2>2. burn * WithdrawalFee \in Nat
    BY <2>1
  <2>3. FeeOf(burn) \in Nat
    BY <2>2, SMT DEF FeeOf
  <2> QED
    BY <2>3
<1> HIDE DEF redeemed
<1>5. base \in Nat /\ quote \in Nat
  BY <1>1, <1>3, <1>4, MulDivRoundsDown, Zenon
<1>6. base <= BaseReserve /\ quote <= QuoteReserve
  BY <1>1, <1>3, <1>5, RestFits, Zenon DEF MinimumBalance
<1>7. Supply' = Supply - burn /\ burn <= Supply
  <2>1. /\ lp' \in [Accounts -> Nat] /\ lp'[who] = lp[who] - burn /\ lp[who] \in Nat
        /\ \A u \in Accounts \ {who} : lp[u] = lp'[u]
    <3>1. lp' = [lp EXCEPT ![who] = @ - burn] /\ lp[who] >= burn
      BY <1>1, Zenon
    <3> QED
      BY <1>2, <3>1
  <2>2. Supply' = Supply + (lp[who] - burn) - lp[who] /\ lp[who] <= Supply
    BY <1>2, <2>1, SupplyChanged, Zenon
  <2>3. lp[who] >= burn
    BY <1>1, Zenon
  <2>4. burn <= Supply
    BY <1>3, <2>1, <2>2, <2>3
  <2>5. Supply + (lp[who] - burn) - lp[who] = Supply - burn
    BY <1>3, <2>1, GainAndLoss, Zenon
  <2> QED
    BY <2>2, <2>4, <2>5, Zenon
<1>8. ShareNoLower(BaseReserve, QuoteReserve, Supply,
                   BaseReserve - base, QuoteReserve - quote, Supply - burn)
  BY <1>1, <1>3, <1>4, <1>6, <1>7, RedeemedShare, Zenon
<1> HIDE DEF base, quote
<1>9. BaseReserve' = BaseReserve - base /\ QuoteReserve' = QuoteReserve - quote
  <2>1. base <= bal["base"][PoolAccount] /\ quote <= bal["quote"][PoolAccount]
    BY <1>6, Zenon DEF BaseReserve, QuoteReserve
  <2>2. BothTransferred(bal, bal', PoolAccount, withdrawTo, base, quote)
    BY <1>1, <1>2, <1>5, <2>1, BothMoved, Zenon
  <2> QED
    BY <2>2, Zenon DEF BothTransferred, BaseReserve, QuoteReserve
<1> QED
  BY <1>7, <1>8, <1>9, Zenon DEF ShareOk

\* The share of an LP token in the product of the reserves never shrinks, for
\* any deposits and withdrawals, rounded as mul_div rounds them.
THEOREM SharesKept == Spec => ShareKept
<1>1. LedgerInv /\ [Next]_vars => ShareStep
  <2> SUFFICES ASSUME LedgerInv, [Next]_vars, call.pc = "idle", Supply > 0
               PROVE  ShareOk
    BY Zenon DEF ShareStep, ShareOk, ShareNoLower
  <2>1. CASE UNCHANGED <<bal, lp>>
    <3>1. BaseReserve \in Nat /\ QuoteReserve \in Nat /\ Supply \in Nat
      BY ReservesNatural, SupplyNatural, Zenon DEF LedgerInv
    <3>2. ShareNoLower(BaseReserve, QuoteReserve, Supply, BaseReserve, QuoteReserve, Supply)
      BY <3>1, SameShare, Zenon
    <3>3. BaseReserve' = BaseReserve /\ QuoteReserve' = QuoteReserve /\ Supply' = Supply
      BY <2>1, Zenon DEF BaseReserve, QuoteReserve, Supply
    <3> QED
      BY <3>2, <3>3, Zenon DEF ShareOk
  <2>2. ASSUME NEW who \in Users, Extrinsic(who)
        PROVE  \/ UNCHANGED <<bal, lp>>
               \/ \E base, quote \in LiquidityAmounts, baseMin, quoteMin \in Minimums,
                     mintTo \in Users :
                    AddLiquidity(who, base, quote, baseMin, quoteMin, mintTo)
               \/ \E burn \in Burns, baseMin, quoteMin \in Minimums, withdrawTo \in Users :
                    RemoveLiquidity(who, burn, baseMin, quoteMin, withdrawTo)
    <3>1. ASSUME NEW isBid, NEW price, NEW quantity,
                 MarketOrder(who, isBid, quantity) \/ LimitOrder(who, isBid, price, quantity)
          PROVE  UNCHANGED <<bal, lp>>
      BY <3>1, Zenon DEF MarketOrder, LimitOrder, StartMatch, PlaceOrder
    <3>2. ASSUME NEW price, NEW id, NEW quantity, CancelOrder(who, price, id, quantity)
          PROVE  UNCHANGED <<bal, lp>>
      BY <3>2, Zenon DEF CancelOrder
    <3> QED
      BY <2>2, <3>1, <3>2, Zenon DEF Extrinsic
  <2>3. ~MatchStep
    BY Zenon DEF MatchStep, LoopDone, FillRest, NextLevel, SearchTurn, FillLevel, SettleFill, Commit
  <2>4. ASSUME NEW who \in Users, NEW base \in LiquidityAmounts, NEW quote \in LiquidityAmounts,
               NEW baseMin, NEW quoteMin, NEW mintTo \in Users,
               AddLiquidity(who, base, quote, baseMin, quoteMin, mintTo)
        PROVE  ShareOk
    <3>1. base \in Nat /\ quote \in Nat
      BY PoolAssumption, Zenon
    <3> QED
      BY <2>4, <3>1, ShareAdd, Zenon
  <2>5. ASSUME NEW who \in Users, NEW burn \in Burns, NEW baseMin, NEW quoteMin,
               NEW withdrawTo \in Users, RemoveLiquidity(who, burn, baseMin, quoteMin, withdrawTo)
        PROVE  ShareOk
    <3>1. burn \in Nat
      BY PoolAssumption, Zenon
    <3> QED
      BY <2>5, <3>1, ShareRemove, Zenon
  <2>6. UNCHANGED <<bal, lp>> \/ \E who \in Users : Extrinsic(who)
    BY <2>3, Zenon DEF Next, vars
  <2> QED
    BY <2>1, <2>2, <2>4, <2>5, <2>6, Zenon
<1> QED
  BY <1>1, LedgerHolds, PTL DEF Spec, ShareKept
=============================================================================
