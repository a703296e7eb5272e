------------------------ MODULE SearchAndBookProofs -------------------------
(***************************************************************************)
(* Proofs about find_max_swap_quantity, for pools, orders and decimals of  *)
(* any size, and about one side of the book, for any owners, prices and    *)
(* quantities and any number of orders.  That the loop of the search ends  *)
(* is checked by TLC: it does not for all decimals.                        *)
(***************************************************************************)
EXTENDS SwapSearch, OperatorProofs

\* mul_div gives a T::Unit or an error.
LEMMA MulDivType ==
  ASSUME NEW a \in Unit, NEW b \in Unit, NEW c \in Unit
  PROVE  MulDiv(a, b, c) \in UnitOrErr
<1>1. CASE c = 0
  BY <1>1 DEF MulDiv, UnitOrErr
<1>2. CASE c # 0
  <2>1. a * b \in Nat /\ c \in Nat /\ c > 0
    BY <1>2 DEF Unit
  <2>2. (a * b) \div c \in Nat
    BY <2>1, QuotientType
  <2> HIDE DEF Unit
  <2> QED
    BY <1>2, <2>2, AmmAssumption DEF MulDiv, InUnit, UnitOrErr, Unit
<1> QED
  BY <1>1, <1>2

\* pool_price gives a T::Unit or an error.
LEMMA PoolPriceType ==
  ASSUME NEW base \in Unit, NEW quote \in Unit
  PROVE  PoolPrice(base, quote) \in UnitOrErr
<1>1. 1 \in Unit
  BY AmmAssumption DEF Unit
<1>2. /\ Normalize(1, PoolDecimals) \in Unit
      /\ Normalize(base, BAdj) \in Unit /\ Normalize(quote, QAdj) \in Unit
  BY <1>1, NormalizeType, AdjustmentTypes, AmmAssumption
<1> QED
  BY <1>2, MulDivType DEF PoolPrice, Quote

\* The price that a bid would leave behind.
LEMMA PriceAfterType ==
  ASSUME NEW isBid \in BOOLEAN, NEW mid \in Unit, NEW base \in Unit, NEW quote \in Unit
  PROVE  isBid => PriceAfter(isBid, mid, base, quote) \in UnitOrErr
<1> SUFFICES ASSUME isBid PROVE PriceAfter(isBid, mid, base, quote) \in UnitOrErr
  OBVIOUS
<1> DEFINE in == GetAmountIn(mid, quote, base)
<1>1. CASE in = Err
  BY <1>1 DEF PriceAfter, UnitOrErr
<1>2. CASE in # Err
  <2>1. mid < base /\ in = (quote * mid * 1000) \div ((base - mid) * FeeFactor) + 1
    BY <1>2 DEF GetAmountIn, InUnit, Err, Unit
  <2>2. base - mid \in Nat /\ base - mid > 0 /\ base - mid \in Unit
    BY <2>1, AmmAssumption DEF Unit
  <2>3. FeeFactor \in Nat /\ FeeFactor > 0
    BY AmmAssumption DEF FeeFactor
  <2>4. (base - mid) * FeeFactor \in Nat /\ (base - mid) * FeeFactor > 0
    BY <2>2, <2>3
  <2>5. quote * mid * 1000 \in Nat
    BY DEF Unit
  <2>6. in \in Nat
    BY <2>1, <2>4, <2>5, QuotientType
  <2> HIDE DEF in
  <2>7. Wrap(quote + in) \in Unit
    BY <2>6, WrapType, AmmAssumption DEF Unit
  <2> QED
    BY <1>2, <2>2, <2>7, PoolPriceType DEF PriceAfter, in
<1> QED
  BY <1>1, <1>2

(***************************************************************************)
(* The loop.  A turn that goes on has a price; it moves one bound and may  *)
(* note mid.                                                               *)
(***************************************************************************)
Inputs ==
  [isBid : Sides, target : Targets, base : Reserves, quote : Reserves, remain : Remains]

Searches ==
  [min : Unit, max : Unit, swap : Unit, result : Unit \cup {Err, Searching}]

Typed == input \in Inputs /\ search \in Searches

Midpoint == Mid(search)

\* A quantity that was noted for a bid leaves the pool below the target.
NotedBelow ==
  input.isBid /\ search.swap > 0
    => PriceAt(search.swap) # Err /\ PriceAt(search.swap) < input.target

\* The arguments of the search are of type T::Unit.
LEMMA InputTypes ==
  ASSUME input \in Inputs
  PROVE  /\ input.isBid \in BOOLEAN
         /\ input.target \in Unit /\ input.remain \in Unit
         /\ input.base \in Unit /\ input.quote \in Unit
<1>1. Reserves \subseteq Unit /\ Targets \subseteq Unit /\ Remains \subseteq Unit
  BY SearchAssumption, AmmAssumption DEF Unit
<1> QED
  BY <1>1, SearchAssumption DEF Inputs

\* The midpoint is a T::Unit even when its sum wraps.
LEMMA MidType == ASSUME Typed PROVE Midpoint \in Unit
<1>1. Wrap(search.min + search.max + 1) \in Unit
  BY WrapType DEF Typed, Searches, Unit
<1> QED
  BY <1>1, AmmAssumption DEF Midpoint, Mid, Unit

\* The ways a turn of the loop can end.
LEMMA TurnCases ==
  ASSUME Typed, Turn
  PROVE  LET price == PriceAt(Midpoint)
             lower == [search EXCEPT !.max = Wrap(Midpoint - Step)]
             upper == [search EXCEPT !.min = Wrap(Midpoint + Step)]
         IN  \/ /\ search.min >= search.max
                /\ search' = [search EXCEPT !.result = search.swap]
             \/ /\ search.min < search.max
                /\ \/ search' = [search EXCEPT !.result = Err]
                   \/ /\ price # Err /\ price = input.target
                      /\ search' = [search EXCEPT !.result = Midpoint]
                   \/ /\ price # Err /\ price < input.target /\ input.isBid
                      /\ search' = [search EXCEPT !.min = Wrap(Midpoint + Step), !.swap = Midpoint]
                   \/ /\ ~input.isBid
                      /\ search' = [search EXCEPT !.max = Wrap(Midpoint - Step), !.swap = Midpoint]
                   \/ search' = lower
                   \/ search' = upper
<1>1. search.min \in Int /\ search.max \in Int
  BY DEF Typed, Searches, Unit
<1>2. input.isBid \in BOOLEAN
  BY InputTypes DEF Typed
<1>3. ASSUME NEW m, NEW b
      PROVE  /\ [[search EXCEPT !.swap = m] EXCEPT !.min = b]
                  = [search EXCEPT !.min = b, !.swap = m]
             /\ [[search EXCEPT !.swap = m] EXCEPT !.max = b]
                  = [search EXCEPT !.max = b, !.swap = m]
  BY DEF Typed, Searches
<1> DEFINE noted == [search EXCEPT !.swap = Midpoint]
           below == Narrowed(noted, Midpoint, input.isBid)
           above == Narrowed(search, Midpoint, ~input.isBid)
           price == PriceAt(Midpoint)
<1>4. /\ below = IF input.isBid
                 THEN [search EXCEPT !.min = Wrap(Midpoint + Step), !.swap = Midpoint]
                 ELSE [search EXCEPT !.max = Wrap(Midpoint - Step), !.swap = Midpoint]
      /\ above = IF input.isBid
                 THEN [search EXCEPT !.max = Wrap(Midpoint - Step)]
                 ELSE [search EXCEPT !.min = Wrap(Midpoint + Step)]
  BY <1>2, <1>3 DEF Narrowed
<1>5. search' = IF search.min >= search.max THEN [search EXCEPT !.result = search.swap]
                ELSE IF price = Err THEN [search EXCEPT !.result = Err]
                ELSE IF price = input.target THEN [search EXCEPT !.result = Midpoint]
                ELSE IF price < input.target THEN below ELSE above
  BY DEF Turn, SearchStep, PriceAt, Midpoint
<1> HIDE DEF below, above, price
<1> QED
  BY <1>1, <1>2, <1>4, <1>5 DEF price

\* The loop starts with nothing noted.
LEMMA TypedInit == Init => Typed /\ NotedBelow
<1> SUFFICES ASSUME Init PROVE Typed /\ NotedBelow
  OBVIOUS
<1>1. input \in Inputs
  BY DEF Init, Inputs
<1>2. input.remain \in Unit /\ 0 \in Unit
  BY <1>1, InputTypes, AmmAssumption DEF Unit
<1> QED
  BY <1>1, <1>2 DEF Init, NewSearch, Typed, Searches, NotedBelow

\* A turn keeps the types.
LEMMA TypedStep == Typed /\ [Next]_vars => Typed'
<1> SUFFICES ASSUME Typed, Turn PROVE Typed'
  BY DEF Next, vars, Typed
<1>1. Wrap(Midpoint - Step) \in Unit /\ Wrap(Midpoint + Step) \in Unit /\ Midpoint \in Unit
  <2>1. Midpoint \in Unit /\ Step \in Unit
    BY MidType, StepType
  <2>2. Midpoint - Step \in Int /\ Midpoint + Step \in Int
    BY <2>1 DEF Unit
  <2> QED
    BY <2>1, <2>2, WrapType
<1>2. input' = input
  BY DEF Turn
<1>3. search \in Searches
  BY DEF Typed
<1> HIDE DEF Midpoint, Step
<1>4. search' \in Searches
  BY <1>1, <1>3, TurnCases DEF Searches
<1> QED
  BY <1>2, <1>4 DEF Typed

\* A turn notes a quantity for a bid only when the price is below the target.
LEMMA NotedStep == Typed /\ NotedBelow /\ [Next]_vars => NotedBelow'
<1> SUFFICES ASSUME Typed, NotedBelow, Turn PROVE NotedBelow'
  BY DEF Next, vars, NotedBelow, PriceAt
<1>1. input' = input
  BY DEF Turn
<1>2. PriceAt(search.swap)' = PriceAfter(input.isBid, search'.swap, input.base, input.quote)
  BY <1>1 DEF PriceAt
<1>3. \/ search'.swap = search.swap
      \/ ~input.isBid
      \/ search'.swap = Midpoint /\ PriceAt(Midpoint) # Err /\ PriceAt(Midpoint) < input.target
  BY TurnCases DEF Typed, Searches
<1> QED
  BY <1>1, <1>2, <1>3 DEF NotedBelow, PriceAt

\* What a turn returns for a bid is at or below the target.
LEMMA FoundStep ==
  ASSUME Typed, NotedBelow, BidStopsAtLevel, [Next]_vars
  PROVE  BidStopsAtLevel'
<1>1. CASE UNCHANGED vars
  BY <1>1 DEF vars, BidStopsAtLevel, Returned, PriceAt
<1>2. CASE Turn
  <2> SUFFICES ASSUME Returned', input.isBid, search'.result > 0
               PROVE  /\ PriceAt(search'.result) # Err
                      /\ PriceAt(search'.result) <= input.target
    <3>1. input' = input
      BY <1>2 DEF Turn
    <3> QED
      BY <3>1 DEF BidStopsAtLevel, PriceAt
  <2>1. search.result = Searching
    BY <1>2 DEF Turn
  <2>2. \/ search'.result = search.swap
        \/ search'.result = Midpoint /\ PriceAt(Midpoint) # Err /\ PriceAt(Midpoint) = input.target
    BY <1>2, <2>1, TurnCases DEF Typed, Searches, Returned
  <2>3. input.target \in Unit /\ search.swap \in Unit
        /\ input.base \in Unit /\ input.quote \in Unit /\ input.isBid \in BOOLEAN
    BY InputTypes DEF Typed, Searches
  <2>4. CASE search'.result = search.swap
    <3>1. PriceAt(search.swap) # Err /\ PriceAt(search.swap) < input.target
      BY <2>4 DEF NotedBelow
    <3>2. PriceAt(search.swap) \in UnitOrErr
      BY <2>3, PriceAfterType DEF PriceAt
    <3> QED
      BY <2>3, <2>4, <3>1, <3>2 DEF UnitOrErr, Unit, Err
  <2>5. CASE /\ search'.result = Midpoint /\ PriceAt(Midpoint) # Err
             /\ PriceAt(Midpoint) = input.target
    BY <2>3, <2>5 DEF Unit
  <2> QED
    BY <2>2, <2>4, <2>5
<1> QED
  BY <1>1, <1>2 DEF Next

\* find_max_swap_quantity never tells a bid to buy the pool past the price of
\* the level, whatever the decimals, and even when its arithmetic wraps.
THEOREM BidsStopAtLevel == Spec => []BidStopsAtLevel
<1>1. Init => Typed /\ NotedBelow /\ BidStopsAtLevel
  BY TypedInit DEF Init, NewSearch, BidStopsAtLevel, Returned
<1>2. Typed /\ NotedBelow /\ BidStopsAtLevel /\ [Next]_vars
        => (Typed /\ NotedBelow /\ BidStopsAtLevel)'
  BY TypedStep, NotedStep, FoundStep
<1> QED
  BY <1>1, <1>2, PTL DEF Spec

\* The variables of the loop stay in T::Unit.
THEOREM TypeCorrect == Spec => []TypeOK
<1>1. Init => Typed
  BY TypedInit
<1>2. Typed => TypeOK
  BY DEF Typed, TypeOK, Searches, Unit
<1> QED
  BY <1>1, <1>2, TypedStep, PTL DEF Spec

(***************************************************************************)
(* The ids of one side of the book.  LevelBook has its own variables, and  *)
(* is instantiated with them.                                              *)
(***************************************************************************)
CONSTANTS Owners, Prices, Amounts, MaxOrders

VARIABLES levels, nextId, request, reply

Book == INSTANCE LevelBook

\* Filling takes ids away, and perhaps the level.
LEMMA FilledIds ==
  ASSUME NEW book, NEW price, NEW quantity
  PROVE  LET after == Book!FilledAt(book, price, quantity)
         IN  /\ DOMAIN after \subseteq DOMAIN book
             /\ \A p \in DOMAIN after : DOMAIN after[p] \subseteq DOMAIN book[p]
  BY DEF Book!FilledAt, Book!Filled

\* Cancelling takes away at most the id.
LEMMA CanceledIds ==
  ASSUME NEW book, NEW price \in DOMAIN book, NEW id, NEW quantity
  PROVE  LET after == Book!CanceledAt(book, price, id, quantity)
         IN  /\ DOMAIN after = DOMAIN book
             /\ \A p \in DOMAIN after : DOMAIN after[p] \subseteq DOMAIN book[p]
<1>1. DOMAIN Book!Canceled(book[price], id, quantity) \subseteq DOMAIN book[price]
  BY DEF Book!Canceled
<1> QED
  BY <1>1 DEF Book!CanceledAt

\* The inductive invariant.
Fresh == nextId \in Nat /\ Book!IdsAreFresh

\* A new order has an id that no level holds.
LEMMA FreshPlaced ==
  ASSUME Fresh, NEW owner, NEW price, NEW quantity,
         levels' = Book!PlacedAt(levels, price, nextId, owner, quantity),
         nextId' = nextId + 1
  PROVE  Fresh'
<1>1. /\ DOMAIN levels' = DOMAIN levels \cup {price}
      /\ \A p \in DOMAIN levels \ {price} : DOMAIN levels'[p] = DOMAIN levels[p]
      /\ DOMAIN levels'[price] = {nextId} \cup IF price \in DOMAIN levels
                                              THEN DOMAIN levels[price] ELSE {}
  <2>1. CASE price \in DOMAIN levels
    BY <2>1 DEF Book!PlacedAt, Book!Placed, Book!NewTick
  <2>2. CASE price \notin DOMAIN levels
    BY <2>2 DEF Book!PlacedAt, Book!NewTick
  <2> QED
    BY <2>1, <2>2, Zenon
<1>2. \A p \in DOMAIN levels : nextId \notin DOMAIN levels[p]
  BY DEF Fresh, Book!IdsAreFresh
<1>3. \A p \in DOMAIN levels' : DOMAIN levels'[p] \subseteq 0..nextId
  BY <1>1 DEF Fresh, Book!IdsAreFresh
<1>4. \A p, q \in DOMAIN levels' :
        p # q => DOMAIN levels'[p] \cap DOMAIN levels'[q] = {}
  BY <1>1, <1>2 DEF Fresh, Book!IdsAreFresh
<1>5. (nextId + 1) - 1 = nextId /\ nextId + 1 \in Nat
  BY DEF Fresh
<1> QED
  BY <1>3, <1>4, <1>5 DEF Fresh, Book!IdsAreFresh

\* Levels that only lose orders keep their ids apart.
LEMMA FreshReduced ==
  ASSUME Fresh, nextId' = nextId,
         DOMAIN levels' \subseteq DOMAIN levels,
         \A p \in DOMAIN levels' : DOMAIN levels'[p] \subseteq DOMAIN levels[p]
  PROVE  Fresh'
  BY DEF Fresh, Book!IdsAreFresh

\* Every call on the book preserves the invariant.
LEMMA FreshStep == Fresh /\ [Book!Next]_Book!vars => Fresh'
<1> SUFFICES ASSUME Fresh, [Book!Next]_Book!vars PROVE Fresh'
  OBVIOUS
<1>1. ASSUME NEW price \in Prices, NEW quantity \in Amounts, Book!FillOrder(price, quantity)
      PROVE  Fresh'
  BY <1>1, FilledIds, FreshReduced DEF Book!FillOrder
<1>2. ASSUME NEW price \in Prices, NEW quantity \in Amounts, NEW owner \in Owners,
             Book!PlaceOrder(owner, price, quantity)
      PROVE  Fresh'
  <2>1. CASE UNCHANGED <<levels, nextId>>
    BY <2>1 DEF Fresh, Book!IdsAreFresh
  <2> QED
    BY <1>2, <2>1, FreshPlaced DEF Book!PlaceOrder, Book!Refuse
<1>3. ASSUME NEW price \in Prices, NEW quantity \in Amounts, NEW owner \in Owners,
             NEW id \in 0..(nextId - 1), Book!CancelOrder(owner, price, id, quantity)
      PROVE  Fresh'
  <2>1. CASE UNCHANGED <<levels, nextId>>
    BY <2>1 DEF Fresh, Book!IdsAreFresh
  <2>2. CASE /\ price \in DOMAIN levels /\ nextId' = nextId
             /\ levels' = Book!CanceledAt(levels, price, id, quantity)
    BY <2>2, CanceledIds, FreshReduced
  <2> QED
    BY <1>3, <2>1, <2>2 DEF Book!CancelOrder, Book!CanCancelAt, Book!Refuse
<1>4. CASE UNCHANGED Book!vars
  BY <1>4 DEF Book!vars, Fresh, Book!IdsAreFresh
<1> QED
  BY <1>1, <1>2, <1>3, <1>4 DEF Book!Next

\* An order id is open at one level at most and was given out before: no order
\* overwrites another one, however orders are placed, filled and cancelled.
THEOREM IdsStayFresh == Book!Spec => []Book!IdsAreFresh
<1>1. Book!Init => Fresh
  BY DEF Book!Init, Fresh, Book!IdsAreFresh, Book!NoLevels
<1>2. Fresh => Book!IdsAreFresh
  BY DEF Fresh
<1> QED
  BY <1>1, <1>2, FreshStep, PTL DEF Book!Spec
=============================================================================
