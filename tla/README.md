# TLA+ models of WarpX

WarpX is a parachain with two parts of its own: a pallet that trades a pair of
assets on a liquidity pool and an order book at once (the *hybrid orderbook*),
and a block proposer that publishes the block in pieces while it is being built
(*preconfirmations*). This directory holds TLA+ models of both, TLC
configurations that check them on small instances, and proofs checked by TLAPS.

Paths below are relative to the repository; `pallet/` stands for
`pallets/hybrid-orderbook/src/`.

## The system

| Part | Code | State | Operations |
|---|---|---|---|
| Tick | `pallet/types.rs` | open orders of a price, by id | `placed`, `filled`, `canceled` |
| Crit-bit tree | `pallet/critbit.rs` | nodes, leaves, root, cached minimum and maximum, index counters | `insert`, `remove_leaf_by_index`, `find_leaf`, `previous_leaf`, `next_leaf` |
| Order book | `pallet/critbit.rs`, trait in `pallet/types.rs` | a tree whose leaves are ticks | `place_order`, `fill_order`, `cancel_order` |
| Pool arithmetic | `pallet/lib.rs` | none | prices, swap amounts, search for the quantity that moves the pool to a price |
| Extrinsics | `pallet/lib.rs` | `Pool` (two books, two id counters), LP tokens | `create_pool`, `add_liquidity`, `remove_liquidity`, `touch`, `market_order`, `limit_order`, `cancel_order` |
| Locators | `pallet/types.rs` | none | which pool a pair of assets has, and its account |
| Swaps | `pallet/lib.rs`, `pallet/swap.rs` | balances | swaps along a path, on accounts or on credits; price quotes |
| Balances | SDK, through the pallet's traits | balance and freeze per asset and account, deposits held for accounts | `transfer`, `withdraw`, `resolve`, `touch`, `refund`, `increase_frozen`, `decrease_frozen` |
| Proposer | `client/authorship/src/preconf.rs` | block, sub-block, channels, cancellation token | `propose_with` and the tasks it spawns |
| Subscribers | same file | the list of websockets | subscribe, publish, drop |
| Node, runtime | `client/cli`, `client/service`, `runtime` | configuration | wiring of SDK parts |
| Migration | `pallets/hybrid-orderbook/ops` (not a member of the workspace) | pool account | `migrate_to_new_account` |

How they interact: an order extrinsic compares its price with the pool price and
either enters the book (and freezes what it offers) or is matched. A match
alternates between the pool, up to the price of the best level of the other side,
and that level; then every fill is settled by releasing the maker's freeze and
two transfers. Any error undoes the whole extrinsic. Pools meet each other in the
balances of their users, in the LP token ids and, through the locator, in the
question which of them a swap is about; a runtime upgrade that changes how pool
accounts are derived is followed by a migration, pool by pool. The proposer calls the
runtime to apply extrinsics, so the two halves of the system meet only in "a
transaction is applied, rejected, or does not fit".

What makes it hard: levels and orders that stay behind empty; caches and links of
the tree over long sequences of calls; index and id counters at their limits;
rounding in parts versus as a whole; unsigned arithmetic that wraps; a failure
halfway through a settlement; a swap that one pool prices and another one pays; a
migration of three assets whose depositors may have nothing left; four concurrent tasks around one deadline; a
subscriber that comes late, is slow or goes away.

## Modules

| Module | Models | Kind |
|---|---|---|
| `IdOrder` | the order in which a map from ids is iterated | operators |
| `Tick` | one price level: `filled` by the share of every order (`Filled`, `FilledPairs`); its loop is `FilledLoop` of `CritbitBook` | operators |
| `Levels` | the order book operations on a function from prices to ticks | operators |
| `OrderBook` | what the pallet expects of a book: open orders, served by age at a price, reduced only by their owner | abstract specification |
| `BookCalls` | the constants that the layers of the book share | declarations |
| `LevelBook` | calls on one side of the book over `Levels` | specification |
| `CritbitTree` | the tree: `Insert`, `RemoveLeafByIndex`, `FindLeaf`, ... on a record | operators |
| `TreeCalls` | all sequences of insertions and removals | specification |
| `CritbitBook` (`MCCritbitBook`) | the order book on the tree; implements `LevelBook` and `OrderBook` | specification |
| `Amm` | prices, swap amounts, one turn of the search | operators |
| `SwapSearch` (`MCSwapSearch`) | `find_max_swap_quantity` for every pool and order | specification |
| `Ledger` | balances and freezes of one pool; external, from the calls the pallet makes | operators |
| `Liquidity` | the amounts that `add_liquidity` takes and mints | operators |
| `HybridOrderbook` | the extrinsics on one pool, composing `Amm`, `Levels` and `Ledger` | specification |
| `Locator` | `BaseQuoteAsset`, `WithFirstAsset`, `Ascending`, `Chain`, the account of a pool | operators |
| `AssetAccounts` | the two registries of assets with the deposits for accounts; external but for `Withdraw` | operators |
| `PoolRegistry` | `create_pool`, `touch` and `add_liquidity` on any number of pools | state and actions |
| `Swaps` | the calls of the traits `Swap` and `SwapCredit`, and the quotes | actions |
| `Migration` | the upgrade and `migrate_to_new_account` | actions |
| `Pools` (`MCPools`) | the composition of these three | specification |
| `PreConf` (`MCPreConf`) | a proposal: main task, canceller, ticker, publisher, clock, subscribers | specification |
| `OperatorProofs`, `LevelsProofs` | what the operators of `Amm`, `Liquidity`, `Tick` and `Levels` compute, and finite sums | proofs |
| `HybridOrderbookProofs`, `CoverProofs` | theorems about `HybridOrderbook`; the second those on freezes and on LP tokens | proofs |
| `PoolFundsProofs`, `PoolsProofs` | lemmas about the registries, the creation of pools and the migration; theorems about `Pools` | proofs |
| `SearchAndBookProofs`, `PreConfProofs` | theorems about `SwapSearch` and `LevelBook`, and about `PreConf` | proofs |

Operators whose comment starts with "Mutant" are deliberately wrong versions of
the definition that follows; they are in no specification, and show that a property
would notice the mistake.

### State and actions

* `CritbitTree`: a tree is a record with the fields of the Rust struct (`root`,
  `min`, `max`, `internal`, `leaves`, the two counters) and `err`, the error of the
  operation that made it. An error never reaches storage (`Return` keeps the old tree,
  as `try_mutate` does). `Bits` is the width of the index type, so the limits
  `CAPACITY` and `PARTITION_INDEX` are reached.
* `CritbitBook` / `LevelBook` / `OrderBook`: one action per method of the
  trait; `request` and `reply` make the arguments and the answer part of what is refined.
* `HybridOrderbook`: one action per extrinsic. Orders that are matched run on in
  steps (`LoopDone`, `FillRest`, `NextLevel`, `SearchTurn`, `FillLevel`, `SettleFill`,
  `Commit`), one per turn of the loops and per settled fill. `call` holds the locals
  of `do_match_order`, `saved` the storage from before, which `Abort` restores.
  Extrinsics are sequential, as they are on chain. An extrinsic that fails before it
  changes anything is a call that is not enabled.
* `Pools`: `bal`, `lp` and `deposits` are the storage of the two asset registries. A call works
  on a record of them (`Store`) whose `ok` a failed operation clears; only a record that is still `ok` is
  committed, so a failed extrinsic leaves no trace. A `SwapCredit` call is not transactional for
  its caller: the credit was taken before, and what an error path does not give back is counted
  in `dropped`. `last` records the swap that was executed. `locator` is chosen at the start (the one of
  the runtime, or a chain of the two others), and `Upgrade` changes `seed`, from which accounts are derived.
* `PreConf`: `main` is the program counter of `propose_with` and
  `apply_extrinsics`. Reading the clock before a push (`TakeTx`) and the push (`PushTx`,
  `InvalidTx`, `BlockFull`) are two steps, so time can pass in between. `signal` is the
  channel of capacity 1, `queue` the unbounded one to `publish_task`.

### Abstractions

Amounts are natural numbers below `UnitRange`; plain `+`, `-`, `*` wrap, as in the
release build; checked operations fail where the code's do. The intermediate
`HigherPrecisionUnit` is unbounded. An extrinsic of a block is a number; whether it is
valid, too large or too heavy is a free choice. Reporting a transaction as invalid may
drop any later ones, as those that depend on it. Events, logs, metrics and weights are left out.
In `HybridOrderbook` the pool exists from the start, as `create_pool` leaves it; `Pools` has
`create_pool`, and leaves out the books and `remove_liquidity`, which are in `HybridOrderbook`. Accounts
are not reaped; the minimum balance is 1. The hash behind pool accounts is injective. All deposits
for accounts are of one size. Decimals are such that the powers `10u64.pow` of the code fit
(`DecimalsAssumption`). `tick_size` and `lot_size` are parameters of `HybridOrderbook`, whose `PoolAssumption`
has the checks of `create_pool` that they are not 0.

`migrate_to_new_account` reads a storage `PoolMetadata`, and the LP balance by the token it names. The pallet of this repository
has no such storage (its `PoolMetadata` is a record for the RPC service without an LP token), and the crate
is not a member of the workspace, so it is not built with the pallet as it is. `Migration` models the call with that storage
as external: `PoolMetadata` is the set of pools that have an entry, the others cannot be migrated, and an entry
names the LP token of its pool. What the runs say of migrations depends on this.

In `PreConf` a payload can always be serialized, and no thread panics while it holds the list of subscribers, which would poison
the lock: the publisher would go on to take payloads and send them to nobody.

## Runs

| Run | Checks | Result |
|---|---|---|
| `tree_calls` | `WellLinked` (parent and child links agree), `Searchable` (every key is found where it is), `BestPriceCached`, `NeighboursInOrder`, `OnlyExpectedErrors` | hold |
| `critbit_book` | `LoopGivesShares` (the loop of `Tick::filled` gives every order its share), `ImplementsLevels` (which includes that a call is refused only where a book may refuse it), `ImplementsOrderBook` | hold |
| `swap_search` | `BidStopsAtLevel`, `BidComesClose`, `FailsOnlyPastReserve` (a bid fails only for a quantity the pool does not have), `Terminates` | hold |
| `extrinsics` | `TypeOK`, `FrozenBacked`, `OrdersCovered`, `Conserved`, `ProductKept`, `FilledExactly`, `IdsOnTheirSide`, `BidStopsAtBook`, `CallReturns`, `ShareKept` | hold |
| `preconf` | `PayloadsMakeTheBlock`, `PayloadsOrdered`, `RunReceived`, `TakenInTime`, `CancelEndsProposal`, `TickerEnds`, `BlockPublished` | hold |
| `pools` | `TypeOK`, `Conserved`, `PoolsApart` (no shared LP token, one pool for a pair), `FundedStays` (no pool is emptied), `NoCreditDropped`, `SwapDelivers`, `SwapKeepsProduct`, `QuoteHonoured` (a swap gives what was quoted), `MigrationMovesAll` | hold |
| `ask_overshoot` | `AskStopsAtLevel` | violated |
| `search_diverges` | `Terminates`, with base decimals | violated |
| `limit_kept` | `LimitKept` | violated |
| `ask_paid_at_price` | `AskPaidAtPrice` | violated |
| `path_delivered` | `PathDelivered` | violated |
| `credit_returned` | `CreditReturned` | violated |

The types of `SwapSearch` and `PreConf` are proved (below) and need no run; and so is that `LevelBook`, which the tree
implements, gives no order id twice (`IdsAreFresh`).

Run one with `tlc -config <cfg> <module>`; `PROJECT.json` lists both.

### Where code and documentation disagree

* *Payment of asks* (`handle_filled_orders`): a bid that takes an ask pays the filled
  quantity in units of the quote asset, not price times quantity.
* *Limit price* (`do_limit_order`): a limit order that crosses the pool price is
  matched like a market order; its price plays no further part.
* *Overshoot of asks* (`find_max_swap_quantity`): the quantity remembered when the
  price is below the target is right for a bid; for an ask it takes the pool past the level.
* *Search with base decimals*: the bounds move by `10^base_decimals`, also
  when less than that is left, and wrap; the search may then never end.
* *Change of a credit* (`do_swap_credit_tokens_for_exact_tokens`): the credit is split before
  `credit_swap`; if that fails, only the part that was to be swapped comes back, while `swap.rs` promises
  the initial credit. It can fail because the path is priced with the pool of
  (`path[1]`, `path[0]`) and paid by the pool of (`path[0]`, `path[1]`), which are two pools under the
  locator `BaseQuoteAsset`. Where both orders are one pool, `NoCreditDropped` holds.
* *Longer paths*: `credit_swap` returns after the first hop, marked `TODO: Multi-hop`, while the path is
  priced to its end, and `swap.rs` says that `path[last]` is delivered (`PathDelivered`). `SwapDelivers` is about
  paths of two assets, on which the two agree. For longer ones `FirstHopDelivers` of `PoolsProofs` says what is delivered: the
  second asset, in the amount of the first hop.

More, which no run of their own is about:

* *Search of an empty tree*: the documentation of `find_leaf` (`critbit.rs:377`) says that it returns `PARTITION_INDEX` if the tree is
  empty. It returns `None`. `place_order` and `cancel_order` have a branch for `PARTITION_INDEX` (`critbit.rs:668` and `721`) that
  is never taken: a cancellation on an empty book fails with `NotFound`, where a comment says that nothing is done.
  `Searchable` leaves the empty tree out.
* *Side of an ask id*: the test `order_id_op_works` (`types.rs:1002`) asserts that the id after `start_ask_id()` is one of a bid.
  `is_bid` tests the highest bit, which both ids have, so the assertion does not hold of the code. Were it true, `cancel_order` would
  look for the second ask of a pool among the bids; `IdsOnTheirSide` says that the ids of asks stay on their side.
* *Order of a pair*: the documentation of `PoolLocator` says that a pool id is the same for both
  orders of a pair; `BaseQuoteAsset` returns the pair as it was given. `PoolsApart`, `NoCreditDropped`
  and `QuoteHonoured` therefore name the locator where they depend on it.
* *Base of a block* (`propose_with`): the base is built for sub-block 0 only, and an empty sub-block is not sent, so a block whose first
  sub-block stays empty is published without its base. Nothing in the source promises one; `PayloadsOrdered` says that no other
  payload carries it.
* *Late canceller* (`propose_with`): a canceller that first runs after the
  deadline ends without cancelling, and the proposal goes on. `CancelEndsProposal` is about one that sleeps in time.

### Bounds

* Trees: 4 bits give 7 leaf indices. The five keys 1, 3, 8, 11, 14 make both balanced and
  skewed trees, and all indices are used up, in every order of calls. With orders in the leaves
  (`critbit_book`) there are 3 bits and three orders of two owners at three prices with quantities 0 to 2:
  a lift at the root and below it, the exhaustion of the leaves, and partly filled, exactly filled
  and cancelled orders before and behind each other.
* `swap_search`: all combinations of six reserves per asset, 30 prices and orders
  of up to 16 units, with `T::Unit` of 8 bits; an order may exceed the reserve.
* `extrinsics`: `MaxCalls` is 4: liquidity, then makers and takers that meet full, partly filled and empty levels, among them
  one that a cancellation emptied or an exact fill used up; or liquidity again, at reserves that an order made uneven. Prices 8,
  12, 15 (in tenths) lie on both sides of the pool price, and products with quantities 1 and 3 round down. The withdrawal fee
  is 10%, and a minimum of 4 refuses the smaller withdrawal. Endowments of 30 are small enough for calls that fail during settlement. `StartAsk` 4 lets the
  ids of asks run out. Eight of the ten properties are proved for all values as well; longer sequences would add
  to `BidStopsAtBook` and `CallReturns` only.
* `pools`: `MaxCalls` is 5, enough to create two pools, fund both and swap, or to create and fund one, swap,
  and migrate it (the upgrade is not counted). Three assets, one of them native (which needs no deposit), pairs named both
  ways round, paths of lengths 1 to 4 of which 2 and 3 are allowed, three LP token ids so that they run out. Users
  start with 20 of every asset; a pool costs a fee of 1 and deposits of 4, so that depositors who cannot pay a second deposit
  meet the migration. One of the pairs has no metadata.
* `preconf`: three transactions, two subscribers, a clock of 4 with the deadline at 3, so
  that every task can be late. The clock stops at `MaxClock`, after the deadline. The ticks that would come later are lost, and `CancelEndsProposal`
  depends on it: with them, a `select!` of the ticker and one of main that prefer the tick and the signal to the cancellation every time would go on
  for ever. `tokio::select!` picks among ready branches at random, so such a run has probability 0.

Symmetry is used for users and owners, which the models do not tell apart, and in no run
with a liveness property. The views of `critbit_book` and `pools` leave out the record of the last call, on which
no guard depends and which properties read in the primed state only. `CHECK_DEADLOCK FALSE`
everywhere, because every model may stop: a bounded number of calls, a search that returned, a
proposal that ended.

### Fairness

* `WF(MatchStep)`, `WF(Turn)`: an extrinsic runs to its end once called. No
  fairness on calls: users need not call.
* `PreConf`: weak fairness of time and of every task: the executor polls tasks that are
  ready. None for subscribers. Weak fairness of main as a whole does not favour a branch of its
  `select!`.
* The canceller may first run at any time, so `CancelEndsProposal` is about one that is asleep
  before the deadline; that it always is would be an assumption on the executor.

## Proofs

All theorems hold for every value of the constants that satisfies the named
assumptions of the modules: `AmmAssumption`, `SearchAssumption`, `PoolAssumption`, `UsersAssumption`
(finitely many users), `FeeAssumption` (a withdrawal fee of at most 100%), `MintAssumption`, `DepositAssumption`,
`RegistryAssumption`, `SwapAssumption`, `PreConfAssumption`. Any further hypothesis is part of a
theorem's statement. Check a module with `tlapm <Module>.tla`; the larger ones take a quarter of an hour from nothing.

| Property | Run | Theorem |
|---|---|---|
| `BidStopsAtLevel` | `swap_search` | `BidsStopAtLevel` |
| `TypeOK`, `FrozenBacked`, `Conserved` | `extrinsics` | `TypeCorrect`, `FreezesStayBacked`, `AssetsConserved` |
| `ProductKept`, `FilledExactly`, `IdsOnTheirSide` | `extrinsics` | `MatchKeepsProduct`, `OrdersFilledExactly`, `IdsStayOnTheirSide` |
| `OrdersCovered` | `extrinsics` | `OrdersStayCovered` |
| `ShareKept` | `extrinsics` | `SharesKept` |
| `PoolsApart`, `Conserved`, `NoCreditDropped` | `pools` | `PoolsStayApart`, `PoolsConserveAssets`, `CreditsAreReturned` |
| `SwapDelivers`, `SwapKeepsProduct` | `pools` | `SwapsDeliver`, `SwapsKeepProducts` |
| `PayloadsMakeTheBlock`, `PayloadsOrdered`, `RunReceived`, `TakenInTime` | `preconf` | `PayloadsCutTheBlock`, `PayloadsInOrder`, `SubscribersGetRuns`, `NothingTakenLate` |

### Operators (`OperatorProofs`, `LevelsProofs`)

* *Induction and sums.* The library's induction theorems take a predicate. `SubsetInduction` and
  `NaturalInduction` say the same of a set, which the provers can instantiate; from them follows what the
  models need of `SumFunctionOnSet`, which is a recursive function on the subsets of a set: its
  value at one element more, after one change, over a union, over a list.
* *Swap amounts.* `GetAmountOutKeepsProduct` and `GetAmountInKeepsProduct`: a swap never
  lowers the product of the reserves, the first because the output is rounded down, the second
  because of the `+ 1` on the input. The argument bounds the quotient by its definition and
  multiplies out; it needs only that the fee is below 1000.
* *Levels.* What `Tick::filled` takes from the orders of a level adds up to what was asked for or to all
  there is, since the orders ahead of an id are a prefix of the level; the calls of the book keep its shape;
  and what the orders of an owner weigh goes down by no less than what a fill or a cancellation takes.

### The search, and the ids of a book (`SearchAndBookProofs`)

`BidStopsAtLevel` alone is not inductive, as it says nothing until the search returns; it is strengthened by
`NotedBelow` (the remembered quantity of a bid leaves the price below the target).
No assumption on decimals: even when the bounds wrap, a bid that returns is right. That the search returns a part of
the order is not stated: with base decimals the upper bound wraps, and an ask may find more; `do_match_order` compares the
result with what remains before it subtracts, and then fills all of it from the pool. That nothing is subtracted below zero is part of
`TypeCorrect` of `HybridOrderbookProofs`, for all decimals.

`IdsStayFresh` follows from which ids the operations of the book add, keep and drop.

### One pool (`HybridOrderbookProofs`, `CoverProofs`)

* `IdInv`: an id is below the counter of its side, in the books and in those of `saved`, since `Abort` brings them back.
* `LedgerInv` carries types, freezes, sums, products and the account of an order together, because each step of a match needs
  all of them. `SoundLedger` says of a ledger that balances and freezes are natural, that a freeze is backed, that the pool has none
  and that every asset adds up to its endowment. While an order is matched, `MatchInv` says it of `saved` too, and
  that the product of the reserves is at least what it was, that every fill is of an owner that the book had, and that
  what the taker exchanged, the fills and the remainder make up the order. The last is stated for takers that have no
  order in the opposite book: whoever meets an order of their own pays themselves. `SwapSound` reduces a swap of the pool to the two theorems on swap amounts; a
  transfer is known by what it does to two balances (`MovedValues`).
* `CoverInv`: what a user has frozen is at least what the open orders of the user and the fills not settled yet lock.
  A bid locks a rounded product, and is released by the rounded products of its parts. These are together at most
  the whole as long as the product fits its type; `SmallOrders` states just that, and is a hypothesis of
  `OrdersStayCovered`, since `calc_quote_amount` wraps beyond it. `ReleaseNeverFails` draws the conclusion for the code:
  the settlement never fails in `decrease_frozen`.
* `SharesKept`: that the product of the reserves per squared LP token never shrinks is an action property (`ShareStep`): a deposit mints for
  the side that gives less, a withdrawal rounds down, and an order keeps the product.

### Several pools (`PoolFundsProofs`, `PoolsProofs`)

* `PoolInv`: every pool has the id that the locator gives to its own assets, and an LP token below the next one.
* `FundInv`: the storage is typed (`Good`), and for every asset the balances, the deposits and the dropped credits add up to the
  endowment (`Worth`). Each registry call changes one balance or one deposit by a known amount, also if it fails in
  the middle (`Changed`, `Touches`, `Refunds`); `Kept` and `Stage` compose such calls. A migration is three stages for
  each of three tokens, and what it mints as an advance to depositors it burns at the end (`StagesJoin`).
* A swap call is reduced to `SwapDone`: the two amounts of its first hop, the pool that executes it, and a `Trade`, which is four changes
  of one balance each. From it follow `FirstHopDelivers` and `SwapsDeliver`, and with the theorems on swap amounts `SwapsKeepProducts`.
  The balance path may have any length: the fold along a path has a run of amounts (`RunExists`).
  `CreditsAreReturned` rests on `CreditSwapSucceeds`: the pool that priced an exact output can pay it, and what it
  is paid comes to an account that exists.

### The proposer (`PreConfProofs`)

The inductive invariant of `PreConf` adds `SubBlockSane`
(a sub-block ends by the deadline, and nothing is pushed outside one) and `NothingBefore` (who has
not subscribed received nothing). Most steps leave the payloads alone (`StepKinds`);
pushing, ending a sub-block and publishing are the three cases with an argument.

### Only model-checked

* The liveness properties (`Terminates`, `CallReturns`, `CancelEndsProposal`, `TickerEnds`, `BlockPublished`), which TLAPS
  does not reach.
* The tree (`tree_calls`, `critbit_book`): its operators walk from node to node by recursive functions, and the argument along
  such walks that an insertion or a removal keeps the links has not been carried out; nor, with it, the
  refinements `ImplementsLevels` and `ImplementsOrderBook`; `LoopGivesShares`, which compares a fold with a closed form, is checked with them.
* `BidComesClose` and `FailsOnlyPastReserve`: how close a binary search comes is a statement about a price that is not linear in the
  quantity, and holds for the ranges of the run. `BidStopsAtBook` composes it with the matching loop.
* `TypeOK` of `Pools` bounds balances by the range of `T::Unit`, which holds of an issuance that fits; that they are natural is part of `FundInv` and
  proved. `FundedStays` and `MigrationMovesAll` depend on which accounts exist at every stage, of
  which `Stage` keeps only the deposits and the worth.
* `QuoteHonoured`: the quote without fee (amount times one reserve over the other) has no upper limit, and exceeds `T::Unit`
  for an amount and reserves at which the swap, whose output is below the reserve, succeeds. There is then no quote to compare
  with. So the property does not hold for every range of `T::Unit`; the run has one in which all quotes fit.

## Not modelled

* `Tick::added`, which nothing calls; `get_pool_query` and `get_pool_metadata`, which only copy fields.
* Swaps and orders on the same pool: `Pools` has no books, `HybridOrderbook` no paths. Both move the
  reserves by the same `credit_swap`, and the product of the reserves is kept in both.
* Whether a migration succeeds: nothing in the source says when it has to. It fails, in the model too, for a pool whose new accounts
  somebody opened with `touch` after the upgrade. It would also fail for one whose account had native funds before `create_pool`, so that no
  deposit was needed; no action of the model gives it such funds.
* The release of a freeze by `cancel_order`: the code releases nothing, the model neither, and
  `OrdersCovered` bounds the freeze from below only.
* Transfers of the assets outside the pallet: a user's freeze is only used by this pallet.
* Two proposals of one node that overlap and share the list of subscribers.
* The SDK: transaction pool, block builder, executor, consensus, networking. They appear
  as free choices of the models.
* Configuration, command line, RPC, XCM, weights, benchmarks, and the wiring of the node in
  `client/service`: constants, generated code and I/O without a protocol of their own.
