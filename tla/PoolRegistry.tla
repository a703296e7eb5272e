---------------------------- MODULE PoolRegistry ----------------------------
(***************************************************************************)
(* The pools of the hybrid orderbook pallet beside each other: create_pool, *)
(* touch and add_liquidity of pallets/hybrid-orderbook/src/lib.rs for any  *)
(* pair of assets.  The books of the pools are left to HybridOrderbook.    *)
(*                                                                         *)
(* Calls are transactional: one that fails changes nothing, so an action   *)
(* is a call that succeeds.                                                *)
(***************************************************************************)
EXTENDS Liquidity, Locator, AssetAccounts, FiniteSets, Functions, Sequences

CONSTANTS
  Assets,             \* T::AssetKind: integers, Native among them
  Users,              \* signing accounts
  FeeAccount,         \* where T::PoolSetupFeeTarget puts the fee
  PoolSetupFee,
  LpTokenRange,       \* the range of T::PoolAssetId, from its initial value 0
  Endowment,          \* what every user has of every asset at the start
  Pairs,              \* the pairs of assets that calls name
  Offers,             \* pairs of amounts offered to a pool
  MaxCalls            \* bound: how many calls are ever made

PoolIds == {id \in Assets \X Assets : id[1] # id[2]}
Seeds == {"prior", "new"}
PoolAccounts == {AccountId(s, id) : s \in Seeds, id \in PoolIds}

ASSUME RegistryAssumption ==
  /\ Native \in Assets /\ FirstAsset \in Assets /\ Assets \subseteq Nat
  /\ IsFiniteSet(Assets) /\ IsFiniteSet(Users)
  /\ Pairs \subseteq Assets \X Assets
  /\ FeeAccount \notin Users /\ Users \cap PoolAccounts = {}
  /\ PoolSetupFee \in Nat /\ LpTokenRange \in Nat \ {0} /\ Endowment \in Nat
  /\ Offers \subseteq Nat \X Nat /\ MaxCalls \in Nat

VARIABLES
  locator,    \* T::PoolLocator, of LocatorNames; it never changes
  seed,       \* the seed that T::PoolLocator derives pool accounts with
  pools,      \* Pools: pool id -> its LP token and who manages that token
  nextLp,     \* NextPoolAssetId, or its initial value
  bal, lp,    \* balances of T::Assets and of T::PoolAssets
  deposits,   \* the deposits held for accounts
  dropped,    \* asset -> what was in credits that nobody holds any more
  last,       \* the swap that was executed last
  calls       \* how many calls were made

vars == <<locator, seed, pools, nextLp, bal, lp, deposits, dropped, last, calls>>

Accounts == Users \cup {FeeAccount} \cup PoolAccounts
LpTokens == 0..(LpTokenRange - 1)

NoSwap == [call |-> "none"]

PoolId(asset1, asset2) == PoolIdBy(locator, asset1, asset2)
Address(id) == AccountId(seed, id)

Init ==
  /\ locator \in LocatorNames
  /\ seed = "prior"
  /\ pools = <<>>
  /\ nextLp = 0
  /\ bal = [a \in Assets |-> [u \in Accounts |-> IF u \in Users THEN Endowment ELSE 0]]
  /\ lp = [t \in LpTokens |-> [u \in Accounts |-> 0]]
  /\ deposits = {}
  /\ dropped = [a \in Assets |-> 0]
  /\ last = NoSwap
  /\ calls = 0

Called == calls < MaxCalls /\ calls' = calls + 1

\* What the calls on the registries read and write.
Store == [assets |-> bal, pool_assets |-> lp, deposits |-> deposits, ok |-> TRUE]

Commit(s) ==
  /\ s.ok
  /\ bal' = s.assets /\ lp' = s.pool_assets /\ deposits' = s.deposits

TouchMissing(s, token, account, who) ==
  IF ShouldTouch(s, token, account) THEN Touch(s, token, account, who) ELSE s

\* The accounts of a pool that are missing, paid for by `who`.
Touched(s, account, lpToken, id, who) ==
  LET base == TouchMissing(s, Asset(id[1]), account, who)
      quote == TouchMissing(base, Asset(id[2]), account, who)
  IN  TouchMissing(quote, PoolAsset(lpToken), account, who)

\* Mutant: the id stays as it is.
NotIncremented(lpToken) == lpToken

\* T::PoolAssetId::increment; Err at the end of its range.
Incremented(lpToken) == IF lpToken + 1 \in LpTokens THEN lpToken + 1 ELSE Err

\* tick_size and lot_size, which must not be 0, are parameters of the books and
\* left to HybridOrderbook, where PoolAssumption says so.
CreatePool(who, base, quote) ==
  LET id == PoolId(base, quote)
      paid == Transfer(Store, Asset(Native), who, FeeAccount, PoolSetupFee, TRUE)
  IN  /\ Called
      /\ base # quote
      /\ id # NoPool
      /\ id \notin DOMAIN pools
      /\ Incremented(nextLp) # Err
      /\ Commit(Touched(paid, Address(id), nextLp, <<base, quote>>, who))
      /\ nextLp' = Incremented(nextLp)
      /\ pools' = [i \in DOMAIN pools \cup {id} |->
                     IF i = id THEN [lp |-> nextLp, team |-> Address(id)] ELSE pools[i]]
      /\ last' = NoSwap
      /\ UNCHANGED <<locator, seed, dropped>>

TouchPool(who, base, quote) ==
  LET id == PoolId(base, quote)
  IN  /\ Called
      /\ id \in DOMAIN pools
      /\ Commit(Touched(Store, Address(id), pools[id].lp, <<base, quote>>, who))
      /\ last' = NoSwap
      /\ UNCHANGED <<locator, seed, pools, nextLp, dropped>>

Supply(lpToken) == SumFunction(lp[lpToken])

AddLiquidity(who, baseAsset, quoteAsset, base, quote, mintTo) ==
  LET id == PoolId(baseAsset, quoteAsset)
      account == Address(id)
      token == pools[id].lp
      baseReserve == bal[baseAsset][account]
      quoteReserve == bal[quoteAsset][account]
      taken == Provided(base, quote, 0, 0, baseReserve, quoteReserve)
      minted == Minted(taken.base, taken.quote, Supply(token), baseReserve, quoteReserve)
      given == Transfer(Transfer(Store, Asset(baseAsset), who, account, taken.base, TRUE),
                        Asset(quoteAsset), who, account, taken.quote, TRUE)
      first == IF Supply(token) = 0
               THEN MintInto(given, PoolAsset(token), account, MintMinLiquidity) ELSE given
  IN  /\ Called
      /\ base > 0 /\ quote > 0
      /\ id \in DOMAIN pools
      /\ taken.ok
      /\ taken.base + baseReserve >= MinimumBalance
      /\ taken.quote + quoteReserve >= MinimumBalance
      /\ minted > MintMinLiquidity
      /\ Commit(MintInto(first, PoolAsset(token), mintTo, minted))
      /\ last' = NoSwap
      /\ UNCHANGED <<locator, seed, pools, nextLp, dropped>>

\* A provider has the LP tokens minted for itself.
RegistryCall(who) ==
  \E pair \in Pairs :
    \/ CreatePool(who, pair[1], pair[2])
    \/ TouchPool(who, pair[1], pair[2])
    \/ \E offer \in Offers :
         AddLiquidity(who, pair[1], pair[2], offer[1], offer[2], who)
=============================================================================
