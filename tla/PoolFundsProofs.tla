-------------------------- MODULE PoolFundsProofs --------------------------
(***************************************************************************)
(* Proofs about the pools and their funds, for any assets, users and       *)
(* calls: which pool a pair has, and which LP token; the amounts along a   *)
(* path; what the calls on the registries of assets do to what there is of *)
(* an asset, and with it create_pool, touch, add_liquidity and the         *)
(* migration.                                                              *)
(***************************************************************************)
EXTENDS Pools, OperatorProofs

(***************************************************************************)
(* The locators.                                                           *)
(***************************************************************************)

\* The order in which a pair is named does not matter to a chain of
\* WithFirstAsset and Ascending.
LEMMA ChainIgnoresOrder ==
  ASSUME NEW a \in Nat, NEW b \in Nat
  PROVE  PoolIdBy("Chain", a, b) = PoolIdBy("Chain", b, a)
  BY DEF PoolIdBy, Chain, WithFirstAsset, Ascending, NoPool

\* A pool id is a pair of the two assets that were named, and the id of itself.
LEMMA PoolIdOfPair ==
  ASSUME NEW l \in LocatorNames, NEW a \in Nat, NEW b \in Nat,
         PoolIdBy(l, a, b) # NoPool
  PROVE  LET id == PoolIdBy(l, a, b)
         IN  /\ id = <<a, b>> \/ id = <<b, a>>
             /\ PoolIdBy(l, id[1], id[2]) = id
<1>1. CASE l = "BaseQuoteAsset"
  BY <1>1 DEF PoolIdBy, BaseQuoteAsset, NoPool
<1>2. CASE l = "Chain"
  <2>1. PoolIdBy(l, a, b) = <<a, b>> \/ PoolIdBy(l, a, b) = <<b, a>>
    BY <1>2 DEF PoolIdBy, Chain, WithFirstAsset, Ascending, NoPool
  <2>2. PoolIdBy(l, a, b) = PoolIdBy(l, b, a)
    BY <1>2, ChainIgnoresOrder
  <2> QED
    BY <2>1, <2>2
<1> QED
  BY <1>1, <1>2 DEF LocatorNames

(***************************************************************************)
(* The pools.  Every one has the id that the locator gives its own assets, *)
(* and an LP token below the next one.                                     *)
(***************************************************************************)
PoolInv ==
  /\ locator \in LocatorNames
  /\ nextLp \in Nat
  /\ \A id \in DOMAIN pools :
       /\ id[1] \in Nat /\ id[2] \in Nat
       /\ PoolIdBy(locator, id[1], id[2]) = id
       /\ pools[id].lp \in Nat /\ pools[id].lp < nextLp
  /\ \A id1, id2 \in DOMAIN pools : pools[id1].lp = pools[id2].lp => id1 = id2

\* create_pool gives the new pool the next LP token and moves on by one.
LEMMA CreatePoolKeeps ==
  ASSUME PoolInv, NEW who, NEW base \in Nat, NEW quote \in Nat,
         CreatePool(who, base, quote)
  PROVE  PoolInv'
<1> DEFINE new == PoolIdBy(locator, base, quote)
<1>1. /\ new # NoPool /\ new \notin DOMAIN pools
      /\ DOMAIN pools' = DOMAIN pools \cup {new}
      /\ pools'[new].lp = nextLp
      /\ \A id \in DOMAIN pools : pools'[id] = pools[id]
      /\ locator' = locator
  BY DEF CreatePool, PoolId
<1>2. nextLp' = nextLp + 1
  BY DEF CreatePool, Incremented, PoolInv
<1>3. /\ new[1] \in Nat /\ new[2] \in Nat
      /\ PoolIdBy(locator, new[1], new[2]) = new
  BY <1>1, PoolIdOfPair DEF PoolInv
<1> HIDE DEF new
<1> QED
  BY <1>1, <1>2, <1>3 DEF PoolInv

\* The other calls open no pool; a migration changes who manages its LP token.
LEMMA OtherCallsKeep ==
  ASSUME PoolInv, locator' = locator, nextLp' = nextLp, DOMAIN pools' = DOMAIN pools,
         \A id \in DOMAIN pools : pools'[id].lp = pools[id].lp
  PROVE  PoolInv'
  BY DEF PoolInv

\* A migration keeps every LP token.
LEMMA MigrationKeeps ==
  ASSUME PoolInv, NEW asset1, NEW asset2, MigrateToNewAccount(asset1, asset2)
  PROVE  PoolInv'
<1>1. /\ locator' = locator /\ nextLp' = nextLp /\ DOMAIN pools' = DOMAIN pools
      /\ \A id \in DOMAIN pools : pools'[id].lp = pools[id].lp
  BY DEF MigrateToNewAccount
<1> QED
  BY <1>1, OtherCallsKeep

\* No swap opens or changes a pool.
LEMMA SwapsKeep ==
  ASSUME NEW who, SwapCall(who)
  PROVE  UNCHANGED <<locator, pools, nextLp>>
<1>1. ASSUME NEW path, NEW amount, NEW limit, NEW sendTo, NEW keepAlive,
             SwapExactTokensForTokens(who, path, amount, limit, sendTo, keepAlive)
      PROVE  UNCHANGED <<locator, pools, nextLp>>
  BY <1>1, Zenon DEF SwapExactTokensForTokens
<1>2. ASSUME NEW path, NEW amount, NEW limit, NEW sendTo, NEW keepAlive,
             SwapTokensForExactTokens(who, path, amount, limit, sendTo, keepAlive)
      PROVE  UNCHANGED <<locator, pools, nextLp>>
  BY <1>2, Zenon DEF SwapTokensForExactTokens
<1>3. ASSUME NEW path, NEW amount, NEW limit,
             SwapExactCreditForTokens(who, path, amount, limit)
      PROVE  UNCHANGED <<locator, pools, nextLp>>
  BY <1>3, Zenon DEF SwapExactCreditForTokens
<1>4. ASSUME NEW path, NEW amount, NEW credit,
             SwapCreditForExactTokens(who, path, credit, amount)
      PROVE  UNCHANGED <<locator, pools, nextLp>>
  BY <1>4, Zenon DEF SwapCreditForExactTokens
<1> QED
  BY <1>1, <1>2, <1>3, <1>4, Zenon DEF SwapCall

\* Every step keeps the pools apart.
LEMMA PoolInvStep == PoolInv /\ [Next]_vars => PoolInv'
<1> SUFFICES ASSUME PoolInv, [Next]_vars PROVE PoolInv'
  OBVIOUS
<1>1. CASE UNCHANGED <<locator, pools, nextLp>>
  BY <1>1, OtherCallsKeep
<1>2. ASSUME NEW who \in Users, RegistryCall(who)
      PROVE  PoolInv'
  <2>1. PICK pair \in Pairs :
          \/ CreatePool(who, pair[1], pair[2])
          \/ TouchPool(who, pair[1], pair[2])
          \/ \E offer \in Offers :
               AddLiquidity(who, pair[1], pair[2], offer[1], offer[2], who)
    BY <1>2 DEF RegistryCall
  <2>2. pair[1] \in Nat /\ pair[2] \in Nat
    BY RegistryAssumption, Zenon
  <2> QED
    BY <1>1, <2>1, <2>2, CreatePoolKeeps, Zenon DEF TouchPool, AddLiquidity
<1>3. ASSUME NEW who \in Users, SwapCall(who)
      PROVE  PoolInv'
  BY <1>1, <1>3, SwapsKeep
<1>4. CASE Upgrade
  BY <1>1, <1>4 DEF Upgrade
<1>5. CASE \E pair \in Pairs : MigrateToNewAccount(pair[1], pair[2])
  BY <1>5, MigrationKeeps
<1>6. CASE UNCHANGED vars
  BY <1>1, <1>6 DEF vars
<1> QED
  BY <1>2, <1>3, <1>4, <1>5, <1>6 DEF Next

\* Two pools never share an LP token, and where the locator ignores the order of a
\* pair no pair has two pools, through every sequence of create_pool, touch,
\* add_liquidity, swaps, upgrades and migrations.
THEOREM PoolsStayApart == Spec => []PoolsApart
<1>1. Init => PoolInv
  BY DEF Init, PoolInv
<1>2. PoolInv => PoolsApart
  <2> SUFFICES ASSUME PoolInv, NEW id1 \in DOMAIN pools, NEW id2 \in DOMAIN pools,
                      \/ pools[id1].lp = pools[id2].lp
                      \/ locator = "Chain" /\ {id1[1], id1[2]} = {id2[1], id2[2]}
               PROVE  id1 = id2
    BY DEF PoolsApart
  <2>1. CASE pools[id1].lp = pools[id2].lp
    BY <2>1 DEF PoolInv
  <2>2. CASE locator = "Chain" /\ {id1[1], id1[2]} = {id2[1], id2[2]}
    <3>1. \/ id1[1] = id2[1] /\ id1[2] = id2[2]
          \/ id1[1] = id2[2] /\ id1[2] = id2[1]
      BY <2>2
    <3>2. /\ PoolIdBy("Chain", id1[1], id1[2]) = id1
          /\ PoolIdBy("Chain", id2[1], id2[2]) = id2
          /\ id2[1] \in Nat /\ id2[2] \in Nat
      BY <2>2 DEF PoolInv
    <3>3. PoolIdBy("Chain", id2[1], id2[2]) = PoolIdBy("Chain", id2[2], id2[1])
      BY <3>2, ChainIgnoresOrder
    <3> QED
      BY <3>1, <3>2, <3>3
  <2> QED
    BY <2>1, <2>2
<1> QED
  BY <1>1, <1>2, PoolInvStep, PTL DEF Spec

(***************************************************************************)
(* The calls on the registries of assets.                                  *)
(***************************************************************************)
AllTokens == {Asset(a) : a \in Assets} \cup {PoolAsset(t) : t \in LpTokens}

\* A store with natural balances, also after a call on it has failed.
IsStore(s) ==
  /\ DOMAIN s = {"assets", "pool_assets", "deposits", "ok"}
  /\ s.assets \in [Assets -> [Accounts -> Nat]]
  /\ s.pool_assets \in [LpTokens -> [Accounts -> Nat]]

\* One balance of a store is changed by n, if the call succeeds.
Plus(s, t, token, who, n) ==
  \A x \in AllTokens, y \in Accounts :
    Balance(t, x, y) = Balance(s, x, y) + IF x = token /\ y = who THEN n ELSE 0
Changed(s, t, token, who, n) ==
  /\ IsStore(t)
  /\ t.ok => s.ok /\ Plus(s, t, token, who, n) /\ t.deposits = s.deposits

\* The balances of a store are natural.
LEMMA BalanceNatural ==
  ASSUME NEW s, IsStore(s), NEW x \in AllTokens, NEW y \in Accounts
  PROVE  Balance(s, x, y) \in Nat
  BY DEF AllTokens, IsStore, Balance, Asset, PoolAsset

\* A call that fails keeps the balances, and nothing is claimed of it.
LEMMA FailedStore == ASSUME NEW s, IsStore(s) PROVE IsStore(Failed(s)) /\ ~Failed(s).ok
  BY DEF IsStore, Failed

\* Adding to one entry of a table of balances.
LEMMA EntryChanged ==
  ASSUME NEW A, NEW B, NEW f \in [A -> [B -> Nat]], NEW a \in A, NEW u \in B, NEW n \in Int,
         f[a][u] + n \in Nat, NEW g, g = [f EXCEPT ![a][u] = @ + n]
  PROVE  /\ g \in [A -> [B -> Nat]]
         /\ \A x \in A, y \in B : g[x][y] = f[x][y] + IF x = a /\ y = u THEN n ELSE 0
<1> DEFINE h == [f[a] EXCEPT ![u] = @ + n]
<1>1. g = [f EXCEPT ![a] = h]
  OBVIOUS
<1>2. h \in [B -> Nat] /\ \A y \in B : h[y] = IF y = u THEN f[a][u] + n ELSE f[a][y]
  OBVIOUS
<1> HIDE DEF h
<1>3. g \in [A -> [B -> Nat]] /\ \A x \in A : g[x] = IF x = a THEN h ELSE f[x]
  BY <1>1, <1>2, Zenon
<1> QED
  BY <1>2, <1>3

\* Adding to one balance.
Added(s, token, who, n) == [s EXCEPT ![token.registry][token.id][who] = @ + n]

\* One balance changes, and nothing else.
LEMMA ChangedByOne ==
  ASSUME NEW s, IsStore(s), s.ok, NEW token \in AllTokens, NEW who \in Accounts, NEW n \in Int,
         Balance(s, token, who) + n \in Nat, NEW t, t = Added(s, token, who, n)
  PROVE  Changed(s, t, token, who, n)
<1>1. ASSUME NEW a \in Assets, token = Asset(a)
      PROVE  Changed(s, t, token, who, n)
  <2>1. t = [s EXCEPT !["assets"][a][who] = @ + n] /\ s.assets[a][who] + n \in Nat
    BY <1>1 DEF Asset, Balance, Added
  <2>2. /\ DOMAIN t = DOMAIN s /\ t.assets = [s.assets EXCEPT ![a][who] = @ + n]
        /\ t.pool_assets = s.pool_assets /\ t.deposits = s.deposits
    BY <2>1 DEF IsStore
  <2>3. /\ t.assets \in [Assets -> [Accounts -> Nat]]
        /\ \A x \in Assets, y \in Accounts :
             t.assets[x][y] = s.assets[x][y] + IF x = a /\ y = who THEN n ELSE 0
    <3>1. s.assets \in [Assets -> [Accounts -> Nat]]
      BY DEF IsStore
    <3> QED
      BY <2>1, <2>2, <3>1, EntryChanged
  <2>4. IsStore(t)
    BY <2>2, <2>3 DEF IsStore
  <2>5. Plus(s, t, token, who, n)
    <3> SUFFICES ASSUME NEW x \in AllTokens, NEW y \in Accounts
                 PROVE  Balance(t, x, y) = Balance(s, x, y) + IF x = token /\ y = who THEN n ELSE 0
      BY DEF Plus
    <3>1. CASE \E b \in Assets : x = Asset(b)
      BY <1>1, <2>3, <3>1 DEF Asset, Balance
    <3>2. CASE \E b \in LpTokens : x = PoolAsset(b)
      <4>1. x # token /\ Balance(t, x, y) = Balance(s, x, y)
        BY <1>1, <2>2, <3>2 DEF Asset, PoolAsset, Balance
      <4>2. Balance(s, x, y) \in Nat
        BY BalanceNatural
      <4> QED
        BY <4>1, <4>2
    <3> QED
      BY <3>1, <3>2 DEF AllTokens
  <2> QED
    BY <2>2, <2>4, <2>5 DEF Changed
<1>2. ASSUME NEW a \in LpTokens, token = PoolAsset(a)
      PROVE  Changed(s, t, token, who, n)
  <2>1. t = [s EXCEPT !["pool_assets"][a][who] = @ + n] /\ s.pool_assets[a][who] + n \in Nat
    BY <1>2 DEF PoolAsset, Balance, Added
  <2>2. /\ DOMAIN t = DOMAIN s /\ t.pool_assets = [s.pool_assets EXCEPT ![a][who] = @ + n]
        /\ t.assets = s.assets /\ t.deposits = s.deposits
    BY <2>1 DEF IsStore
  <2>3. /\ t.pool_assets \in [LpTokens -> [Accounts -> Nat]]
        /\ \A x \in LpTokens, y \in Accounts :
             t.pool_assets[x][y] = s.pool_assets[x][y] + IF x = a /\ y = who THEN n ELSE 0
    <3>1. s.pool_assets \in [LpTokens -> [Accounts -> Nat]]
      BY DEF IsStore
    <3> QED
      BY <2>1, <2>2, <3>1, EntryChanged
  <2>4. IsStore(t)
    BY <2>2, <2>3 DEF IsStore
  <2>5. Plus(s, t, token, who, n)
    <3> SUFFICES ASSUME NEW x \in AllTokens, NEW y \in Accounts
                 PROVE  Balance(t, x, y) = Balance(s, x, y) + IF x = token /\ y = who THEN n ELSE 0
      BY DEF Plus
    <3>1. CASE \E b \in LpTokens : x = PoolAsset(b)
      BY <1>2, <2>3, <3>1 DEF PoolAsset, Balance
    <3>2. CASE \E b \in Assets : x = Asset(b)
      <4>1. x # token /\ Balance(t, x, y) = Balance(s, x, y)
        BY <1>2, <2>2, <3>2 DEF Asset, PoolAsset, Balance
      <4>2. Balance(s, x, y) \in Nat
        BY BalanceNatural
      <4> QED
        BY <4>1, <4>2
    <3> QED
      BY <3>1, <3>2 DEF AllTokens
  <2> QED
    BY <2>2, <2>4, <2>5 DEF Changed
<1> QED
  BY <1>1, <1>2 DEF AllTokens

\* withdraw takes the amount from one balance, which covers it, or fails.  It
\* leaves the minimum balance where the account has to stay alive.
LEMMA WithdrawEffect ==
  ASSUME NEW s, IsStore(s), NEW token \in AllTokens, NEW who \in Accounts, NEW amount \in Nat,
         NEW keepAlive, NEW t, t = Withdraw(s, token, who, amount, keepAlive)
  PROVE  /\ Changed(s, t, token, who, -amount)
         /\ t.ok /\ keepAlive => amount = 0 \/ Balance(t, token, who) >= MinimumBalance
<1>1. CASE s.ok /\ CanWithdraw(s, token, who, amount, keepAlive)
  <2>1. Balance(s, token, who) \in Nat
    BY BalanceNatural
  <2>2. /\ Balance(s, token, who) + (-amount) \in Nat
        /\ keepAlive => amount = 0 \/ Balance(s, token, who) + (-amount) >= MinimumBalance
    BY <1>1, <2>1 DEF CanWithdraw, CanLeave, MinimumBalance
  <2>3. t = [s EXCEPT ![token.registry][token.id][who] = @ - amount]
    BY <1>1 DEF Withdraw
  <2>4. t = Added(s, token, who, -amount)
    <3>1. Balance(s, token, who) - amount = Balance(s, token, who) + (-amount)
      BY <2>1
    <3> QED
      BY <2>3, <3>1, Zenon DEF Balance, Added
  <2>5. Changed(s, t, token, who, -amount)
    BY <1>1, <2>2, <2>4, ChangedByOne
  <2> QED
    BY <2>2, <2>5 DEF Changed, Plus
<1>2. CASE ~(s.ok /\ CanWithdraw(s, token, who, amount, keepAlive))
  <2>1. t = Failed(s)
    BY <1>2 DEF Withdraw
  <2> QED
    BY <2>1, FailedStore DEF Changed
<1> QED
  BY <1>1, <1>2

\* resolve adds the amount to one balance or fails.
LEMMA ResolveEffect ==
  ASSUME NEW s, IsStore(s), NEW token \in AllTokens, NEW who \in Accounts, NEW amount \in Nat,
         NEW t, t = Resolve(s, token, who, amount)
  PROVE  Changed(s, t, token, who, amount)
<1>1. CASE s.ok /\ (amount = 0 \/ ~ShouldTouch(s, token, who))
  <2>1. Balance(s, token, who) + amount \in Nat
    BY BalanceNatural
  <2>2. t = Added(s, token, who, amount)
    BY <1>1 DEF Resolve, Added
  <2> QED
    BY <1>1, <2>1, <2>2, ChangedByOne
<1>2. CASE ~(s.ok /\ (amount = 0 \/ ~ShouldTouch(s, token, who)))
  <2>1. t = Failed(s)
    BY <1>2 DEF Resolve
  <2> QED
    BY <2>1, FailedStore DEF Changed
<1> QED
  BY <1>1, <1>2

\* Only the deposits of a store are replaced.
LEMMA DepositsReplaced ==
  ASSUME NEW s, IsStore(s), NEW D, NEW t, t = [s EXCEPT !.deposits = D]
  PROVE  /\ IsStore(t) /\ t.ok = s.ok /\ t.deposits = D
         /\ \A x \in AllTokens, y \in Accounts : Balance(t, x, y) = Balance(s, x, y)
<1>1. /\ DOMAIN t = DOMAIN s /\ t.assets = s.assets /\ t.pool_assets = s.pool_assets
      /\ t.ok = s.ok /\ t.deposits = D
  BY DEF IsStore
<1>2. ASSUME NEW x \in AllTokens, NEW y \in Accounts
      PROVE  Balance(t, x, y) = Balance(s, x, y)
  <2>1. x.registry \in {"assets", "pool_assets"}
    BY DEF AllTokens, Asset, PoolAsset
  <2> QED
    BY <1>1, <2>1, Zenon DEF Balance
<1> QED
  BY <1>1, <1>2 DEF IsStore

\* touch takes the deposit from the depositor, who keeps the minimum balance, and
\* holds it for an account that had none.
Held(token, account, who) == [token |-> token, account |-> account, who |-> who]
Touches(s, t, token, account, who) ==
  /\ IsStore(t)
  /\ t.ok => /\ s.ok /\ Plus(s, t, Asset(Native), who, -AccountDeposit)
             /\ DepositHeld(s, token, account) = {}
             /\ t.deposits = s.deposits \cup {Held(token, account, who)}
             /\ Balance(t, Asset(Native), who) >= MinimumBalance

\* touch takes the deposit from the depositor and opens the account, or fails.
LEMMA TouchEffect ==
  ASSUME NEW s, IsStore(s), NEW token, NEW account, NEW who \in Accounts,
         NEW t, t = Touch(s, token, account, who)
  PROVE  Touches(s, t, token, account, who)
<1> DEFINE can == /\ s.ok /\ ~Exists(s, token, account)
                  /\ s.assets[Native][who] - AccountDeposit >= MinimumBalance
           m == Added(s, Asset(Native), who, -AccountDeposit)
           D == s.deposits \cup {Held(token, account, who)}
<1>1. CASE can
  <2>1. Asset(Native) \in AllTokens /\ AccountDeposit \in Nat
    BY RegistryAssumption, DepositAssumption DEF AllTokens
  <2>2. /\ Balance(s, Asset(Native), who) = s.assets[Native][who]
        /\ Balance(s, Asset(Native), who) \in Nat
    BY <2>1, BalanceNatural DEF Balance, Asset
  <2>3. Balance(s, Asset(Native), who) + (-AccountDeposit) >= MinimumBalance
    BY <1>1, <2>1, <2>2 DEF MinimumBalance
  <2>4. Changed(s, m, Asset(Native), who, -AccountDeposit)
    <3> HIDE DEF m
    <3>1. /\ Balance(s, Asset(Native), who) + (-AccountDeposit) \in Nat
          /\ -AccountDeposit \in Int
      BY <2>1, <2>2, <2>3 DEF MinimumBalance
    <3> QED
      BY <1>1, <2>1, <3>1, ChangedByOne DEF m
  <2>5. t = [m EXCEPT !.deposits = D]
    <3>1. t = [s EXCEPT !.assets[Native][who] = @ - AccountDeposit, !.deposits = D]
      BY <1>1 DEF Touch, Held
    <3>2. m = [s EXCEPT !.assets[Native][who] = @ - AccountDeposit]
      <4>1. s.assets[Native][who] - AccountDeposit = s.assets[Native][who] + (-AccountDeposit)
        BY <2>1, <2>2
      <4> QED
        BY <4>1 DEF Added, Asset
    <3> QED
      BY <3>1, <3>2, Zenon DEF IsStore
  <2> HIDE DEF m, D
  <2>6. /\ IsStore(t) /\ t.ok = m.ok /\ t.deposits = D
        /\ \A x \in AllTokens, y \in Accounts : Balance(t, x, y) = Balance(m, x, y)
    BY <2>4, <2>5, DepositsReplaced DEF Changed
  <2>7. m.ok
    BY <1>1 DEF m, Added, Asset, IsStore
  <2>8. Plus(s, t, Asset(Native), who, -AccountDeposit)
    BY <2>4, <2>6, <2>7 DEF Changed, Plus
  <2>9. DepositHeld(s, token, account) = {}
    BY <1>1 DEF Exists
  <2>10. Balance(t, Asset(Native), who) >= MinimumBalance
    BY <2>1, <2>3, <2>8 DEF Plus
  <2> QED
    BY <1>1, <2>6, <2>8, <2>9, <2>10 DEF Touches, D
<1>2. CASE ~can
  <2>1. t = Failed(s)
    BY <1>2 DEF Touch
  <2> QED
    BY <2>1, FailedStore DEF Touches
<1> QED
  BY <1>1, <1>2

\* A refund gives the deposit back to the depositor.
Refunds(s, t, d) ==
  /\ IsStore(t)
  /\ t.ok => /\ s.ok /\ Plus(s, t, Asset(Native), d.who, AccountDeposit)
             /\ t.deposits = s.deposits \ {d}

\* refund gives the deposit back and forgets it, or fails.
LEMMA RefundEffect ==
  ASSUME NEW s, IsStore(s), NEW d, d.who \in Accounts, NEW t, t = Refund(s, d)
  PROVE  Refunds(s, t, d)
<1> DEFINE can == s.ok /\ Balance(s, d.token, d.account) = 0
           m == Added(s, Asset(Native), d.who, AccountDeposit)
           D == s.deposits \ {d}
<1>1. CASE can
  <2>1. Asset(Native) \in AllTokens /\ AccountDeposit \in Nat
    BY RegistryAssumption, DepositAssumption DEF AllTokens
  <2>2. Changed(s, m, Asset(Native), d.who, AccountDeposit)
    <3> HIDE DEF m
    <3>1. Balance(s, Asset(Native), d.who) + AccountDeposit \in Nat
      BY <2>1, BalanceNatural
    <3> QED
      BY <1>1, <2>1, <3>1, ChangedByOne DEF m
  <2>3. t = [m EXCEPT !.deposits = D]
    BY <1>1, Zenon DEF Refund, Added, Asset, IsStore
  <2> HIDE DEF m, D
  <2>4. /\ IsStore(t) /\ t.ok = m.ok /\ t.deposits = D
        /\ \A x \in AllTokens, y \in Accounts : Balance(t, x, y) = Balance(m, x, y)
    BY <2>2, <2>3, DepositsReplaced DEF Changed
  <2>5. m.ok
    BY <1>1 DEF m, Added, Asset, IsStore
  <2>6. Plus(s, t, Asset(Native), d.who, AccountDeposit)
    BY <2>2, <2>4, <2>5 DEF Changed, Plus
  <2> QED
    BY <1>1, <2>4, <2>6 DEF Refunds, D
<1>2. CASE ~can
  <2>1. t = Failed(s)
    BY <1>2 DEF Refund
  <2> QED
    BY <2>1, FailedStore DEF Refunds
<1> QED
  BY <1>1, <1>2

(***************************************************************************)
(* What there is of an asset.                                              *)
(***************************************************************************)
\* Users and pools have different accounts, and there are finitely many.
LEMMA AccountSets ==
  /\ Users \subseteq Accounts /\ PoolAccounts \subseteq Accounts /\ FeeAccount \in Accounts
  /\ \A u \in Users : u \notin PoolAccounts
  /\ \A s \in Seeds, id \in PoolIds : AccountId(s, id) \in PoolAccounts
  /\ IsFiniteSet(Accounts)
<1>1. IsFiniteSet(Assets \X Assets) /\ IsFiniteSet(PoolIds)
  <2>1. IsFiniteSet(Assets \X Assets)
    BY RegistryAssumption, FS_Product
  <2> QED
    BY <2>1, FS_Subset DEF PoolIds
<1>2. IsFiniteSet(Seeds)
  <2>1. Seeds = {"prior"} \cup {"new"}
    BY DEF Seeds
  <2> QED
    BY <2>1, FS_Singleton, FS_Union, Zenon
<1>3. PoolAccounts = Seeds \X PoolIds
  BY DEF PoolAccounts, AccountId
<1>4. IsFiniteSet(PoolAccounts)
  BY <1>1, <1>2, <1>3, FS_Product
<1>5. IsFiniteSet(Accounts)
  BY <1>4, RegistryAssumption, FS_Singleton, FS_Union, Zenon DEF Accounts
<1> QED
  BY <1>5, RegistryAssumption DEF Accounts, PoolAccounts

\* All there is of a token in the accounts.
Total(s, x) == SumFunctionOnSet([y \in Accounts |-> Balance(s, x, y)], Accounts)

\* A change of one balance is one of the total of its token.
LEMMA TotalChanged ==
  ASSUME NEW s, NEW t, IsStore(s), IsStore(t), NEW token \in AllTokens, NEW who \in Accounts,
         NEW n \in Int, Plus(s, t, token, who, n), NEW x \in AllTokens
  PROVE  /\ Total(s, x) \in Nat
         /\ Total(t, x) = Total(s, x) + IF x = token THEN n ELSE 0
<1> DEFINE f == [y \in Accounts |-> Balance(s, x, y)]
           g == [y \in Accounts |-> Balance(t, x, y)]
<1>1. \A y \in Accounts :
        /\ f[y] \in Nat /\ g[y] \in Nat
        /\ g[y] = f[y] + IF x = token /\ y = who THEN n ELSE 0
  BY BalanceNatural DEF Plus
<1>2. Total(s, x) = SumFunctionOnSet(f, Accounts) /\ Total(t, x) = SumFunctionOnSet(g, Accounts)
  BY DEF Total
<1> HIDE DEF f, g
<1>3. IsFiniteSet(Accounts)
  BY AccountSets
<1>4. SumFunctionOnSet(f, Accounts) \in Nat
  BY <1>1, <1>3, SumIsNatural
<1>5. SumFunctionOnSet(g, Accounts) = SumFunctionOnSet(f, Accounts) + g[who] - f[who]
  <2>1. \A y \in Accounts : f[y] \in Int /\ g[y] \in Int
    BY <1>1
  <2>2. \A y \in Accounts \ {who} : f[y] = g[y]
    BY <1>1
  <2> QED
    BY <1>3, <2>1, <2>2, SumChange
<1> QED
  BY <1>1, <1>2, <1>4, <1>5

\* All there is of an asset, deposits included.
Worth(s, a) ==
  Total(s, Asset(a)) + IF a = Native THEN AccountDeposit * Cardinality(s.deposits) ELSE 0

\* Deposits are for accounts of pools, paid by users, and one for an account.
DepositRecords == [token : AllTokens, account : PoolAccounts, who : Users]
SoundDeposits(D) ==
  /\ IsFiniteSet(D) /\ D \subseteq DepositRecords
  /\ \A d, e \in D : d.token = e.token /\ d.account = e.account => d = e

\* A store that a call may work on, and a call that makes n of a token, or none.
Good(s) == IsStore(s) /\ (s.ok => SoundDeposits(s.deposits))
Moves(s, t, token, n) ==
  /\ Good(t)
  /\ t.ok => /\ s.ok
             /\ \A a \in Assets :
                  Worth(t, a) = Worth(s, a) + IF Asset(a) = token THEN n ELSE 0
Kept(s, t) ==
  /\ Good(t)
  /\ t.ok => s.ok /\ \A a \in Assets : Worth(t, a) = Worth(s, a)

\* What there is of an asset is a natural number.
LEMMA WorthNatural ==
  ASSUME NEW s, IsStore(s), SoundDeposits(s.deposits), NEW a \in Assets
  PROVE  Worth(s, a) \in Nat
<1>1. Asset(a) \in AllTokens
  BY DEF AllTokens
<1>2. \A y \in Accounts : [z \in Accounts |-> Balance(s, Asset(a), z)][y] \in Nat
  BY <1>1, BalanceNatural
<1>3. IsFiniteSet(Accounts)
  BY AccountSets
<1>4. Total(s, Asset(a)) \in Nat
  BY <1>2, <1>3, SumIsNatural DEF Total
<1>5. Cardinality(s.deposits) \in Nat
  BY FS_CardinalityType DEF SoundDeposits
<1>6. AccountDeposit * Cardinality(s.deposits) \in Nat
  BY <1>5, DepositAssumption
<1> QED
  BY <1>4, <1>6 DEF Worth

\* A change of one balance is a change of what there is.
LEMMA ChangedMoves ==
  ASSUME NEW s, Good(s), NEW t, NEW token \in AllTokens, NEW who \in Accounts, NEW n \in Int,
         Changed(s, t, token, who, n)
  PROVE  Moves(s, t, token, n) /\ Good(t)
<1>1. IsStore(s) /\ IsStore(t)
  BY DEF Good, Changed
<1> SUFFICES ASSUME t.ok
             PROVE  /\ SoundDeposits(t.deposits) /\ s.ok
                    /\ \A a \in Assets : Worth(t, a) = Worth(s, a) + IF Asset(a) = token THEN n ELSE 0
  BY <1>1 DEF Moves, Good
<1>2. s.ok /\ Plus(s, t, token, who, n) /\ t.deposits = s.deposits /\ SoundDeposits(s.deposits)
  BY DEF Changed, Good
<1>3. ASSUME NEW a \in Assets
      PROVE  Worth(t, a) = Worth(s, a) + IF Asset(a) = token THEN n ELSE 0
  <2> DEFINE held == IF a = Native THEN AccountDeposit * Cardinality(s.deposits) ELSE 0
  <2>1. /\ Total(s, Asset(a)) \in Nat
        /\ Total(t, Asset(a)) = Total(s, Asset(a)) + IF Asset(a) = token THEN n ELSE 0
    <3>1. Asset(a) \in AllTokens
      BY DEF AllTokens
    <3> QED
      BY <1>1, <1>2, <3>1, TotalChanged
  <2>2. held \in Int
    <3>1. Cardinality(s.deposits) \in Nat
      BY <1>2, FS_CardinalityType DEF SoundDeposits
    <3> QED
      BY <3>1, DepositAssumption
  <2>3. Worth(t, a) = Total(t, Asset(a)) + held /\ Worth(s, a) = Total(s, Asset(a)) + held
    BY <1>2 DEF Worth
  <2> HIDE DEF held
  <2> QED
    BY <2>1, <2>2, <2>3
<1> QED
  BY <1>2, <1>3

\* The deposits held and one more of them, or one fewer.
LEMMA OneDeposit ==
  ASSUME NEW k \in Nat
  PROVE  AccountDeposit * (k + 1) = AccountDeposit * k + AccountDeposit
  BY DepositAssumption

\* A deposit changes hands: what the depositor has less is held.
LEMMA DepositMoves ==
  ASSUME NEW s, NEW t, IsStore(s), IsStore(t), s.ok, SoundDeposits(s.deposits),
         SoundDeposits(t.deposits), NEW n \in {1, -1},
         Cardinality(t.deposits) = Cardinality(s.deposits) + n,
         NEW who \in Accounts, NEW m \in Int, m = IF n = 1 THEN -AccountDeposit ELSE AccountDeposit,
         Plus(s, t, Asset(Native), who, m)
  PROVE  Kept(s, t)
<1> SUFFICES ASSUME NEW a \in Assets PROVE Worth(t, a) = Worth(s, a)
  BY DEF Kept, Good
<1>1. Asset(Native) \in AllTokens /\ Asset(a) \in AllTokens
  BY RegistryAssumption DEF AllTokens
<1>2. /\ Total(s, Asset(a)) \in Nat
      /\ Total(t, Asset(a)) = Total(s, Asset(a)) + IF Asset(a) = Asset(Native) THEN m ELSE 0
  BY <1>1, TotalChanged
<1>3. Asset(a) = Asset(Native) <=> a = Native
  BY DEF Asset
<1>4. PICK k \in Nat, l \in Nat : k = Cardinality(s.deposits) /\ l = Cardinality(t.deposits)
  BY FS_CardinalityType DEF SoundDeposits
<1>5. /\ Worth(t, a) = Total(t, Asset(a)) + IF a = Native THEN AccountDeposit * l ELSE 0
      /\ Worth(s, a) = Total(s, Asset(a)) + IF a = Native THEN AccountDeposit * k ELSE 0
  BY <1>4 DEF Worth
<1>6. AccountDeposit * k \in Nat /\ AccountDeposit * l \in Nat /\ AccountDeposit \in Nat
  BY DepositAssumption
<1>7. CASE n = 1
  <2>1. AccountDeposit * l = AccountDeposit * k + AccountDeposit
    BY <1>4, <1>7, OneDeposit
  <2> QED
    BY <1>2, <1>3, <1>5, <1>6, <1>7, <2>1
<1>8. CASE n = -1
  <2>1. AccountDeposit * k = AccountDeposit * l + AccountDeposit
    <3>1. k = l + 1
      BY <1>4, <1>8
    <3> QED
      BY <3>1, OneDeposit
  <2> QED
    BY <1>2, <1>3, <1>5, <1>6, <1>8, <2>1
<1> QED
  BY <1>7, <1>8

\* touch holds what it takes.
LEMMA TouchKeeps ==
  ASSUME NEW s, Good(s), NEW token \in AllTokens, NEW account \in PoolAccounts,
         NEW who \in Users, NEW t, t = Touch(s, token, account, who)
  PROVE  Kept(s, t)
<1>1. who \in Accounts
  BY AccountSets
<1>2. Touches(s, t, token, account, who)
  BY <1>1, TouchEffect DEF Good
<1> SUFFICES ASSUME t.ok PROVE Kept(s, t)
  BY <1>2, Zenon DEF Kept, Good, Touches
<1>3. /\ IsStore(s) /\ IsStore(t) /\ s.ok /\ SoundDeposits(s.deposits)
      /\ Plus(s, t, Asset(Native), who, -AccountDeposit)
      /\ DepositHeld(s, token, account) = {}
      /\ t.deposits = s.deposits \cup {Held(token, account, who)}
  BY <1>2, Zenon DEF Good, Touches
<1>4. /\ Held(token, account, who) \in DepositRecords
      /\ \A d \in s.deposits : ~(d.token = token /\ d.account = account)
      /\ Held(token, account, who).token = token /\ Held(token, account, who).account = account
  BY <1>3 DEF Held, DepositRecords, DepositHeld
<1>5. Held(token, account, who) \notin s.deposits
  BY <1>4
<1>6. Cardinality(t.deposits) = Cardinality(s.deposits) + 1 /\ IsFiniteSet(t.deposits)
  <2> HIDE DEF Held
  <2> QED
    BY <1>3, <1>5, FS_AddElement DEF SoundDeposits
<1>7. SoundDeposits(t.deposits)
  BY <1>3, <1>4, <1>6 DEF SoundDeposits
<1>8. -AccountDeposit \in Int
  BY DepositAssumption
<1> QED
  BY <1>1, <1>3, <1>6, <1>7, <1>8, DepositMoves, Zenon

\* refund gives back what was held.
LEMMA RefundKeeps ==
  ASSUME NEW s, Good(s), NEW d, s.ok => d \in s.deposits, d.who \in Users,
         NEW t, t = Refund(s, d)
  PROVE  Kept(s, t)
<1>1. d.who \in Accounts
  BY AccountSets
<1>2. Refunds(s, t, d)
  BY <1>1, RefundEffect DEF Good
<1> SUFFICES ASSUME t.ok PROVE Kept(s, t)
  BY <1>2 DEF Kept, Good, Refunds
<1>3. /\ IsStore(s) /\ IsStore(t) /\ s.ok /\ SoundDeposits(s.deposits) /\ d \in s.deposits
      /\ Plus(s, t, Asset(Native), d.who, AccountDeposit)
      /\ t.deposits = s.deposits \ {d}
  BY <1>2 DEF Good, Refunds
<1>4. Cardinality(t.deposits) = Cardinality(s.deposits) - 1 /\ IsFiniteSet(t.deposits)
  BY <1>3, FS_RemoveElement DEF SoundDeposits
<1>5. PICK n \in {1, -1} : /\ Cardinality(t.deposits) = Cardinality(s.deposits) + n
                           /\ AccountDeposit \in Int
                           /\ AccountDeposit = IF n = 1 THEN -AccountDeposit ELSE AccountDeposit
  <2>1. Cardinality(s.deposits) \in Nat
    BY <1>3, FS_CardinalityType DEF SoundDeposits
  <2> QED
    BY <1>4, <2>1, DepositAssumption
<1>6. SoundDeposits(t.deposits)
  BY <1>3, <1>4 DEF SoundDeposits
<1> QED
  BY <1>1, <1>3, <1>5, <1>6, DepositMoves, Zenon

\* Two steps that keep what there is.
LEMMA KeptTwice ==
  ASSUME NEW r, NEW s, NEW t, Kept(r, s), Kept(s, t)
  PROVE  Kept(r, t)
  BY DEF Kept

\* A transfer takes as much as it gives.
LEMMA TransferKeeps ==
  ASSUME NEW s, Good(s), NEW token \in AllTokens, NEW from \in Accounts, NEW to \in Accounts,
         NEW amount \in Nat, NEW keepAlive,
         NEW t, t = Transfer(s, token, from, to, amount, keepAlive)
  PROVE  Kept(s, t)
<1>1. PICK m : m = Withdraw(s, token, from, amount, keepAlive) /\ t = Resolve(m, token, to, amount)
  BY DEF Transfer
<1>2. Moves(s, m, token, -amount)
  <2>1. Changed(s, m, token, from, -amount) /\ -amount \in Int
    BY <1>1, WithdrawEffect DEF Good
  <2> QED
    BY <2>1, ChangedMoves
<1>3. Moves(m, t, token, amount)
  <2>1. Good(m)
    BY <1>2 DEF Moves
  <2>2. Changed(m, t, token, to, amount) /\ amount \in Int
    BY <1>1, <2>1, ResolveEffect DEF Good
  <2> QED
    BY <2>1, <2>2, ChangedMoves
<1> SUFFICES ASSUME t.ok PROVE s.ok /\ \A a \in Assets : Worth(t, a) = Worth(s, a)
  BY <1>3 DEF Kept, Moves
<1>4. m.ok /\ s.ok
  BY <1>2, <1>3 DEF Moves
<1>5. ASSUME NEW a \in Assets PROVE Worth(t, a) = Worth(s, a)
  <2>1. Worth(s, a) \in Nat
    BY <1>4, WorthNatural DEF Good
  <2> QED
    BY <1>2, <1>3, <1>4, <2>1 DEF Moves
<1> QED
  BY <1>4, <1>5

\* Minting LP tokens makes no asset.
LEMMA MintKeeps ==
  ASSUME NEW s, Good(s), NEW token \in LpTokens, NEW who \in Accounts, NEW amount \in Nat,
         NEW t, t = MintInto(s, PoolAsset(token), who, amount)
  PROVE  Kept(s, t)
<1>1. /\ PoolAsset(token) \in AllTokens
      /\ \A a \in Assets : Asset(a) # PoolAsset(token)
  BY DEF AllTokens, PoolAsset, Asset
<1>2. Changed(s, t, PoolAsset(token), who, amount) /\ amount \in Int
  BY <1>1, ResolveEffect DEF Good, MintInto
<1>3. Moves(s, t, PoolAsset(token), amount)
  BY <1>1, <1>2, ChangedMoves
<1> SUFFICES ASSUME t.ok, NEW a \in Assets PROVE Worth(t, a) = Worth(s, a)
  BY <1>3 DEF Kept, Moves
<1>4. Worth(s, a) \in Nat
  BY <1>3, WorthNatural DEF Good, Moves
<1> QED
  BY <1>1, <1>3, <1>4 DEF Moves

\* Paying for the missing accounts of a pool.
LEMMA TouchedKeeps ==
  ASSUME NEW s, Good(s), NEW account \in PoolAccounts, NEW lpToken \in LpTokens,
         NEW base \in Assets, NEW quote \in Assets, NEW who \in Users,
         NEW t, t = Touched(s, account, lpToken, <<base, quote>>, who)
  PROVE  Kept(s, t)
<1>1. ASSUME NEW r, Good(r), NEW token \in AllTokens, NEW q, q = TouchMissing(r, token, account, who)
      PROVE  Kept(r, q) /\ Good(q)
  <2>1. ShouldTouch(r, token, account) => Kept(r, q)
    BY <1>1, TouchKeeps DEF TouchMissing
  <2>2. ~ShouldTouch(r, token, account) => Kept(r, q)
    BY <1>1 DEF TouchMissing, Kept
  <2> QED
    BY <2>1, <2>2 DEF Kept
<1>2. PICK p, q : /\ p = TouchMissing(s, Asset(base), account, who)
                  /\ q = TouchMissing(p, Asset(quote), account, who)
                  /\ t = TouchMissing(q, PoolAsset(lpToken), account, who)
  BY DEF Touched
<1>3. Asset(base) \in AllTokens /\ Asset(quote) \in AllTokens /\ PoolAsset(lpToken) \in AllTokens
  BY DEF AllTokens
<1>4. Kept(s, p) /\ Good(p)
  BY <1>1, <1>2, <1>3
<1>5. Kept(p, q) /\ Good(q)
  BY <1>1, <1>2, <1>3, <1>4
<1>6. Kept(q, t)
  BY <1>1, <1>2, <1>3, <1>5
<1> QED
  BY <1>4, <1>5, <1>6, KeptTwice

(***************************************************************************)
(* The invariant that says what there is of every asset.  The pools have   *)
(* ids of pairs of assets, so that their accounts are accounts of pools,   *)
(* and LP tokens in the range of ids.                                      *)
(***************************************************************************)
\* What the calls rely on of the storage.
Typed ==
  /\ locator \in LocatorNames /\ seed \in Seeds /\ nextLp \in LpTokens
  /\ DOMAIN pools \subseteq PoolIds
  /\ \A id \in DOMAIN pools : pools[id].lp \in LpTokens
  /\ Good(Store)
FundInv ==
  /\ Typed
  /\ dropped \in [Assets -> Nat]
  /\ \A a \in Assets : Worth(Store, a) + dropped[a] = Endowment * Cardinality(Users)

\* What a call has in its store when it succeeds is the storage after it.
StoreOf(b, l, d) == [assets |-> b, pool_assets |-> l, deposits |-> d, ok |-> TRUE]

\* The storage that is made of a store has its balances and its worth.
LEMMA CommitStore ==
  ASSUME NEW t, IsStore(t), NEW s, s = StoreOf(t.assets, t.pool_assets, t.deposits)
  PROVE  /\ IsStore(s) /\ s.deposits = t.deposits /\ s.ok
         /\ \A x \in AllTokens, y \in Accounts : Balance(s, x, y) = Balance(t, x, y)
         /\ \A a \in Assets : Worth(s, a) = Worth(t, a)
<1>1. /\ s.deposits = t.deposits /\ s.assets = t.assets /\ s.pool_assets = t.pool_assets /\ s.ok
      /\ DOMAIN s = {"assets", "pool_assets", "deposits", "ok"}
  BY DEF StoreOf
<1>2. \A x \in AllTokens, y \in Accounts : Balance(s, x, y) = Balance(t, x, y)
  <2> SUFFICES ASSUME NEW x \in AllTokens, NEW y \in Accounts PROVE Balance(s, x, y) = Balance(t, x, y)
    OBVIOUS
  <2>1. x.registry \in {"assets", "pool_assets"}
    BY DEF AllTokens, Asset, PoolAsset
  <2> QED
    BY <1>1, <2>1 DEF Balance
<1>3. \A a \in Assets : Total(s, Asset(a)) = Total(t, Asset(a))
  <2> SUFFICES ASSUME NEW a \in Assets PROVE Total(s, Asset(a)) = Total(t, Asset(a))
    OBVIOUS
  <2>1. [y \in Accounts |-> Balance(s, Asset(a), y)] = [y \in Accounts |-> Balance(t, Asset(a), y)]
    BY <1>2 DEF AllTokens
  <2> QED
    BY <2>1 DEF Total
<1> QED
  BY <1>1, <1>2, <1>3, Zenon DEF Worth, IsStore

\* After a call that commits a store, the storage is worth what the store was.
LEMMA Committed ==
  ASSUME NEW t, Good(t), Commit(t)
  PROVE  /\ Good(Store)'
         /\ \A x \in AllTokens, y \in Accounts : Balance(Store, x, y)' = Balance(t, x, y)
         /\ \A a \in Assets : Worth(Store, a)' = Worth(t, a)
<1>1. PICK s : s = StoreOf(t.assets, t.pool_assets, t.deposits)
  OBVIOUS
<1>2. Store' = s /\ t.ok
  BY <1>1 DEF Store, StoreOf, Commit
<1>3. /\ IsStore(s) /\ s.deposits = t.deposits /\ s.ok
      /\ \A x \in AllTokens, y \in Accounts : Balance(s, x, y) = Balance(t, x, y)
      /\ \A a \in Assets : Worth(s, a) = Worth(t, a)
  BY <1>1, CommitStore DEF Good
<1> HIDE DEF Store
<1> QED
  BY <1>2, <1>3 DEF Good

\* A call that keeps what there is keeps the sums; what becomes of the pools is left
\* to the call.
Sums ==
  /\ Good(Store) /\ dropped \in [Assets -> Nat]
  /\ \A a \in Assets : Worth(Store, a) + dropped[a] = Endowment * Cardinality(Users)

\* The sums after such a call.
LEMMA SumsKept ==
  ASSUME FundInv, NEW t, Kept(Store, t), Commit(t), dropped' = dropped
  PROVE  Sums'
<1>1. Good(t) /\ t.ok
  BY DEF Kept, Commit
<1>2. Good(Store)' /\ \A a \in Assets : Worth(Store, a)' = Worth(t, a)
  BY <1>1, Committed
<1>3. \A a \in Assets : Worth(t, a) = Worth(Store, a)
  BY <1>1 DEF Kept
<1> QED
  BY <1>2, <1>3 DEF Sums, FundInv

\* A pool id is a pair of different assets, and its account an account of a pool.
LEMMA PoolOfPair ==
  ASSUME locator \in LocatorNames, seed \in Seeds, NEW a \in Assets, NEW b \in Assets,
         PoolId(a, b) # NoPool
  PROVE  /\ a # b /\ PoolId(a, b) \in PoolIds /\ Address(PoolId(a, b)) \in PoolAccounts
         /\ PoolId(a, b) = <<a, b>> \/ PoolId(a, b) = <<b, a>>
<1>1. a \in Nat /\ b \in Nat
  BY RegistryAssumption
<1>2. PoolId(a, b) = <<a, b>> \/ PoolId(a, b) = <<b, a>>
  BY <1>1, PoolIdOfPair DEF PoolId
<1>3. a # b
  BY <1>1 DEF PoolId, PoolIdBy, BaseQuoteAsset, Chain, WithFirstAsset, Ascending, NoPool
<1>4. PoolId(a, b) \in PoolIds
  BY <1>2, <1>3 DEF PoolIds
<1> QED
  BY <1>2, <1>3, <1>4 DEF Address, AccountId, PoolAccounts

\* A pool that is there has an id.
LEMMA KnownPool ==
  ASSUME Typed, NEW id \in DOMAIN pools
  PROVE  /\ id # NoPool /\ id \in PoolIds /\ Address(id) \in PoolAccounts
         /\ AccountId("prior", id) \in PoolAccounts /\ pools[id].lp \in LpTokens
         /\ id[1] \in Assets /\ id[2] \in Assets /\ id[1] # id[2]
  BY DEF Typed, PoolIds, NoPool, PoolAccounts, Address, AccountId, Seeds

\* create_pool moves the fee and the deposits.
LEMMA CreateFunds ==
  ASSUME FundInv, NEW who \in Users, NEW base \in Assets, NEW quote \in Assets,
         CreatePool(who, base, quote)
  PROVE  FundInv'
<1> DEFINE id == PoolId(base, quote)
<1>1. PICK paid, t :
        /\ paid = Transfer(Store, Asset(Native), who, FeeAccount, PoolSetupFee, TRUE)
        /\ t = Touched(paid, Address(id), nextLp, <<base, quote>>, who)
        /\ Commit(t)
  BY Zenon DEF CreatePool
<1>2. /\ id # NoPool /\ nextLp + 1 \in LpTokens /\ nextLp' = nextLp + 1
      /\ DOMAIN pools' = DOMAIN pools \cup {id} /\ pools'[id].lp = nextLp
      /\ \A i \in DOMAIN pools : i # id => pools'[i] = pools[i]
      /\ UNCHANGED <<locator, seed, dropped>>
  BY Zenon DEF CreatePool, Incremented
<1>3. id \in PoolIds /\ Address(id) \in PoolAccounts
  BY <1>2, PoolOfPair, Zenon DEF FundInv, Typed
<1> HIDE DEF id
<1>4. Kept(Store, paid) /\ Good(paid)
  <2>1. /\ Asset(Native) \in AllTokens /\ who \in Accounts /\ FeeAccount \in Accounts
        /\ PoolSetupFee \in Nat /\ Good(Store)
    BY RegistryAssumption, AccountSets DEF AllTokens, FundInv, Typed
  <2>2. Kept(Store, paid)
    BY <1>1, <2>1, TransferKeeps, Zenon
  <2> QED
    BY <2>2 DEF Kept
<1>5. Kept(paid, t)
  <2>1. nextLp \in LpTokens
    BY DEF FundInv, Typed
  <2> QED
    BY <1>1, <1>3, <1>4, <2>1, TouchedKeeps, Zenon
<1>6. Sums'
  BY <1>1, <1>2, <1>4, <1>5, KeptTwice, SumsKept, Zenon
<1>7. /\ (DOMAIN pools \subseteq PoolIds)' /\ \A i \in DOMAIN pools' : pools'[i].lp \in LpTokens
      /\ (locator \in LocatorNames /\ seed \in Seeds /\ nextLp \in LpTokens)'
  BY <1>2, <1>3, Zenon DEF FundInv, Typed
<1> QED
  BY <1>6, <1>7 DEF FundInv, Typed, Sums

\* Calls that leave the pools alone.
LEMMA SamePools ==
  ASSUME FundInv, UNCHANGED <<locator, seed, pools, nextLp>>, Sums'
  PROVE  FundInv'
  BY DEF FundInv, Typed, Sums

\* touch moves deposits.
LEMMA TouchFunds ==
  ASSUME FundInv, NEW who \in Users, NEW base \in Assets, NEW quote \in Assets,
         TouchPool(who, base, quote)
  PROVE  FundInv'
<1> DEFINE id == PoolId(base, quote)
<1>1. PICK t : /\ t = Touched(Store, Address(id), pools[id].lp, <<base, quote>>, who)
               /\ Commit(t)
  BY DEF TouchPool
<1>2. id \in DOMAIN pools /\ UNCHANGED <<locator, seed, pools, nextLp, dropped>>
  BY DEF TouchPool
<1>3. Typed /\ Good(Store)
  BY DEF FundInv, Typed
<1> HIDE DEF id
<1>4. Address(id) \in PoolAccounts /\ pools[id].lp \in LpTokens
  BY <1>2, <1>3, KnownPool
<1>5. Kept(Store, t)
  BY <1>1, <1>3, <1>4, TouchedKeeps
<1>6. Sums'
  BY <1>1, <1>2, <1>5, SumsKept
<1> QED
  BY <1>2, <1>6, SamePools

\* What there is of an LP token is natural.
LEMMA SupplyNatural ==
  ASSUME Good(Store), NEW token \in LpTokens
  PROVE  Supply(token) \in Nat
<1>1. lp[token] \in [Accounts -> Nat]
  BY DEF Good, IsStore, Store
<1>2. IsFiniteSet(Accounts)
  BY AccountSets
<1>3. SumFunctionOnSet(lp[token], Accounts) \in Nat
  BY <1>1, <1>2, SumIsNatural
<1>4. Supply(token) = SumFunctionOnSet(lp[token], Accounts)
  BY <1>1 DEF Supply, SumFunction
<1> QED
  BY <1>3, <1>4

\* What exceeds a natural number is one.
LEMMA AboveNatural == ASSUME NEW k \in Nat, NEW n \in Int PROVE n > k => n \in Nat
  OBVIOUS

\* add_liquidity moves both amounts into the pool and mints LP tokens.
LEMMA AddFunds ==
  ASSUME FundInv, NEW who \in Users, NEW baseAsset \in Assets, NEW quoteAsset \in Assets,
         NEW base \in Nat, NEW quote \in Nat,
         AddLiquidity(who, baseAsset, quoteAsset, base, quote, who)
  PROVE  FundInv'
<1> DEFINE id == PoolId(baseAsset, quoteAsset)
           baseReserve == bal[baseAsset][Address(id)]
           quoteReserve == bal[quoteAsset][Address(id)]
           taken == Provided(base, quote, 0, 0, baseReserve, quoteReserve)
           minted == Minted(taken.base, taken.quote, Supply(pools[id].lp), baseReserve, quoteReserve)
<1>1. PICK half, given, first, t :
        /\ half = Transfer(Store, Asset(baseAsset), who, Address(id), taken.base, TRUE)
        /\ given = Transfer(half, Asset(quoteAsset), who, Address(id), taken.quote, TRUE)
        /\ first = IF Supply(pools[id].lp) = 0
                   THEN MintInto(given, PoolAsset(pools[id].lp), Address(id), MintMinLiquidity)
                   ELSE given
        /\ t = MintInto(first, PoolAsset(pools[id].lp), who, minted)
        /\ Commit(t) /\ minted > MintMinLiquidity
  BY Zenon DEF AddLiquidity
<1>2. id \in DOMAIN pools /\ UNCHANGED <<locator, seed, pools, nextLp, dropped>>
  BY Zenon DEF AddLiquidity
<1>3. Typed /\ Good(Store)
  BY DEF FundInv, Typed
<1> HIDE DEF id
<1>4. /\ Address(id) \in PoolAccounts /\ Address(id) \in Accounts /\ who \in Accounts
      /\ pools[id].lp \in LpTokens
  BY <1>2, <1>3, KnownPool, AccountSets, Zenon
<1>5. baseReserve \in Nat /\ quoteReserve \in Nat
  BY <1>3, <1>4 DEF Good, IsStore, Store
<1> HIDE DEF baseReserve, quoteReserve
<1>6. taken.base \in Nat /\ taken.quote \in Nat
  BY <1>5, ProvidedNatural
<1> HIDE DEF taken
<1>7. minted \in Nat /\ MintMinLiquidity \in Nat
  <2>1. Supply(pools[id].lp) \in Nat
    BY <1>3, <1>4, SupplyNatural
  <2>2. minted \in Int
    BY <1>5, <1>6, <2>1, MintedInteger, Zenon
  <2>3. minted > MintMinLiquidity
    BY <1>1, Zenon
  <2> HIDE DEF minted
  <2> QED
    BY <2>2, <2>3, AboveNatural, MintAssumption, Zenon
<1> HIDE DEF minted
<1>8. Asset(baseAsset) \in AllTokens /\ Asset(quoteAsset) \in AllTokens
  BY DEF AllTokens
<1>9. Kept(Store, half)
  BY <1>1, <1>3, <1>4, <1>6, <1>8, TransferKeeps, Zenon
<1>10. Kept(half, given)
  <2>1. Good(half)
    BY <1>9 DEF Kept
  <2> QED
    BY <1>1, <1>4, <1>6, <1>8, <2>1, TransferKeeps, Zenon
<1>11. Kept(given, first)
  <2>1. Good(given)
    BY <1>10 DEF Kept
  <2>2. CASE Supply(pools[id].lp) = 0
    BY <1>1, <1>4, <1>7, <2>1, <2>2, MintKeeps, Zenon
  <2>3. CASE Supply(pools[id].lp) # 0
    BY <1>1, <2>1, <2>3, Zenon DEF Kept
  <2> QED
    BY <2>2, <2>3
<1>12. Kept(first, t)
  <2>1. Good(first)
    BY <1>11 DEF Kept
  <2> QED
    BY <1>1, <1>4, <1>7, <2>1, MintKeeps, Zenon
<1>13. Kept(Store, t)
  BY <1>9, <1>10, <1>11, <1>12, KeptTwice
<1>14. Sums'
  BY <1>1, <1>2, <1>13, SumsKept, Zenon
<1> QED
  BY <1>2, <1>14, SamePools

(***************************************************************************)
(* The balance path of a swap, of any length.                              *)
(***************************************************************************)
\* A function on 1..k that begins with v and whose other values come from the one
\* before them.
Runs(f, V, v, s, k) ==
  /\ f \in [1..k -> V]
  /\ \A n \in 1..k : f[n] = IF n = 1 THEN v ELSE s[n][f[n - 1]]

\* A fold over any number of steps has such a run.
LEMMA RunExists ==
  ASSUME NEW V, NEW v \in V, NEW s \in [Nat -> [V -> V]]
  PROVE  \A k \in Nat : \E f : Runs(f, V, v, s, k)
<1> DEFINE C == {k \in Nat : \E f : Runs(f, V, v, s, k)}
<1>1. 0 \in C
  <2>1. Runs([n \in 1..0 |-> v], V, v, s, 0)
    BY DEF Runs
  <2> QED
    BY <2>1
<1>2. ASSUME NEW k \in Nat, k \in C PROVE k + 1 \in C
  <2>1. PICK f : Runs(f, V, v, s, k)
    BY <1>2
  <2> DEFINE g == [n \in 1..(k + 1) |-> IF n = 1 THEN v ELSE IF n = k + 1 THEN s[n][f[k]] ELSE f[n]]
  <2>2. \A n \in 1..k : f[n] \in V /\ s[n + 1][f[n]] \in V
    BY <2>1 DEF Runs
  <2>3. g \in [1..(k + 1) -> V] /\ \A n \in 1..k : g[n] = f[n]
    BY <2>1, <2>2 DEF Runs
  <2>4. ASSUME NEW n \in 1..(k + 1) PROVE g[n] = IF n = 1 THEN v ELSE s[n][g[n - 1]]
    <3>1. CASE n = 1
      BY <3>1
    <3>2. CASE n # 1 /\ n = k + 1
      <4>1. g[n] = s[n][f[k]] /\ n - 1 = k /\ k \in 1..k
        BY <3>2
      <4>2. g[k] = f[k]
        BY <2>3, <4>1
      <4> HIDE DEF g
      <4> QED
        BY <3>2, <4>1, <4>2
    <3>3. CASE n # 1 /\ n # k + 1
      <4>1. n \in 1..k /\ n - 1 \in 1..k
        BY <3>3
      <4> HIDE DEF g
      <4> QED
        BY <2>1, <2>3, <3>3, <4>1 DEF Runs
    <3> QED
      BY <3>1, <3>2, <3>3, Zenon
  <2>5. Runs(g, V, v, s, k + 1)
    <3> HIDE DEF g
    <3> QED
      BY <2>3, <2>4 DEF Runs
  <2> QED
    BY <2>5
<1>3. \A n \in Nat : n \in C => n + 1 \in C
  <2> HIDE DEF C
  <2> QED
    BY <1>2
<1>4. \A k \in Nat : k \in C
  <2> HIDE DEF C
  <2> QED
    BY <1>1, <1>3, NaturalInduction
<1> QED
  BY <1>4

\* get_reserves reads the balances at the account of the pool.
LEMMA ReserveNatural ==
  ASSUME Typed, NEW a \in Assets, NEW b \in Assets, PoolId(a, b) # NoPool, NEW x \in Assets
  PROVE  Reserve(a, b, x) \in Nat
<1>1. Address(PoolId(a, b)) \in Accounts
  BY PoolOfPair, AccountSets, Zenon DEF Typed
<1> QED
  BY <1>1, Zenon DEF Reserve, Typed, Good, IsStore, Store

\* A pair that has a pool id in one order has one in the other.
LEMMA OtherOrder ==
  ASSUME locator \in LocatorNames, NEW a \in Assets, NEW b \in Assets, PoolId(a, b) # NoPool
  PROVE  PoolId(b, a) # NoPool /\ (locator = "Chain" => PoolId(b, a) = PoolId(a, b))
<1>1. a \in Nat /\ b \in Nat
  BY RegistryAssumption
<1>2. CASE locator = "BaseQuoteAsset"
  BY <1>1, <1>2 DEF PoolId, PoolIdBy, BaseQuoteAsset, NoPool
<1>3. CASE locator = "Chain"
  BY <1>1, <1>3, ChainIgnoresOrder DEF PoolId
<1> QED
  BY <1>2, <1>3 DEF LocatorNames

\* The hops of a valid path are pairs of assets with a pool.
LEMMA Hops ==
  ASSUME Typed, NEW path \in Seq(Assets), ValidateSwapPath(path)
  PROVE  /\ Len(path) \in Nat /\ Len(path) >= 2
         /\ \A n \in 1..Len(path) : path[n] \in Assets
         /\ \A n \in 1..(Len(path) - 1) :
              /\ PoolId(path[n], path[n + 1]) # NoPool /\ PoolId(path[n + 1], path[n]) # NoPool
              /\ path[n] # path[n + 1]
<1>1. /\ Len(path) \in Nat /\ Len(path) >= 2
      /\ \A n \in 1..Len(path) : path[n] \in Assets
      /\ \A n \in 1..(Len(path) - 1) : PoolId(path[n], path[n + 1]) # NoPool
  BY SwapAssumption DEF ValidateSwapPath, Pair
<1>2. ASSUME NEW n \in 1..(Len(path) - 1)
      PROVE  PoolId(path[n + 1], path[n]) # NoPool /\ path[n] # path[n + 1]
  <2>1. path[n] \in Assets /\ path[n + 1] \in Assets /\ PoolId(path[n], path[n + 1]) # NoPool
    BY <1>1
  <2>2. locator \in LocatorNames /\ seed \in Seeds
    BY DEF Typed
  <2> QED
    BY <2>1, <2>2, OtherOrder, PoolOfPair
<1> QED
  BY <1>1, <1>2

Amounts == Nat \cup {Err}

\* The balance path from the amount that is put in: its second amount is what the
\* first pool gives, and all later ones rest on it.
LEMMA PathIn ==
  ASSUME Typed, NEW path \in Seq(Assets), ValidateSwapPath(path), NEW amount \in Nat,
         NEW amounts, amounts = BalancePathFromAmountIn(amount, path)
  PROVE  /\ amounts[1] = amount
         /\ amounts[2] = GetAmountOut(amount, Reserve(path[1], path[2], path[1]),
                                      Reserve(path[1], path[2], path[2]))
         /\ amounts[Len(path)] # Err => amounts[2] # Err
<1> DEFINE N == Len(path)
           hop(n, x) == GetAmountOut(x, Reserve(path[n - 1], path[n], path[n - 1]),
                                     Reserve(path[n - 1], path[n], path[n]))
           turn(f) == [n \in 1..N |-> IF n = 1 THEN amount
                                      ELSE IF f[n - 1] = Err THEN Err ELSE hop(n, f[n - 1])]
           s == [n \in Nat |-> [x \in Amounts |->
                  IF x = Err \/ n \notin 2..N THEN Err ELSE hop(n, x)]]
<1>1. N \in Nat /\ N >= 2 /\ amount \in Amounts /\ amount # Err /\ Err \in Amounts
  BY Hops DEF Amounts, Err
<1>2. ASSUME NEW n \in 2..N, NEW x \in Nat PROVE hop(n, x) \in Amounts
  <2>1. /\ path[n - 1] \in Assets /\ path[n] \in Assets
        /\ PoolId(path[n - 1], path[n]) # NoPool
    <3>1. n - 1 \in 1..(N - 1) /\ n - 1 \in 1..N /\ n \in 1..N /\ (n - 1) + 1 = n
      BY <1>1
    <3> QED
      BY <3>1, Hops
  <2>2. /\ Reserve(path[n - 1], path[n], path[n - 1]) \in Nat
        /\ Reserve(path[n - 1], path[n], path[n]) \in Nat
    BY <2>1, ReserveNatural
  <2> QED
    BY <2>2, GetAmountOutKeepsProduct DEF Amounts
<1>3. amounts = CHOOSE f : f = turn(f)
  BY DEF BalancePathFromAmountIn
<1> HIDE DEF N, hop
<1>4. \E f : f = turn(f)
  <2>1. s \in [Nat -> [Amounts -> Amounts]]
    BY <1>1, <1>2 DEF Amounts
  <2>2. PICK f : Runs(f, Amounts, amount, s, N)
    <3> HIDE DEF s
    <3> QED
      BY <1>1, <2>1, RunExists, Zenon
  <2>3. f \in [1..N -> Amounts] /\ \A n \in 1..N : f[n] = IF n = 1 THEN amount ELSE s[n][f[n - 1]]
    BY <2>2, Zenon DEF Runs
  <2>4. ASSUME NEW n \in 1..N, n # 1
        PROVE  s[n][f[n - 1]] = IF f[n - 1] = Err THEN Err ELSE hop(n, f[n - 1])
    <3>1. n \in 2..N /\ n - 1 \in 1..N /\ n \in Nat
      BY <1>1, <2>4
    <3> QED
      BY <2>3, <3>1
  <2> HIDE DEF s
  <2>5. f = turn(f)
    BY <2>3, <2>4
  <2> QED
    BY <2>5, Zenon
<1>5. amounts = turn(amounts)
  <2> HIDE DEF turn
  <2> QED
    BY <1>3, <1>4, Zenon
<1>6. /\ amounts[1] = amount
      /\ \A n \in 2..N : amounts[n] = IF amounts[n - 1] = Err THEN Err ELSE hop(n, amounts[n - 1])
  BY <1>1, <1>5
<1>7. amounts[2] = hop(2, amount)
  BY <1>1, <1>6
<1>8. amounts[N] # Err => amounts[2] # Err
  <2> DEFINE C == {k \in Nat : k + 2 <= N => (amounts[k + 2] # Err => amounts[2] # Err)}
  <2>1. 0 \in C
    OBVIOUS
  <2>2. \A k \in Nat : k \in C => k + 1 \in C
    <3> SUFFICES ASSUME NEW k \in Nat, k \in C, (k + 1) + 2 <= N, amounts[(k + 1) + 2] # Err
                 PROVE  amounts[2] # Err
      OBVIOUS
    <3>1. (k + 1) + 2 \in 2..N /\ ((k + 1) + 2) - 1 = k + 2 /\ k + 2 <= N
      BY <1>1
    <3>2. amounts[k + 2] # Err
      BY <1>6, <3>1
    <3> QED
      BY <3>1, <3>2
  <2>3. N - 2 \in C
    <3>1. N - 2 \in Nat
      BY <1>1
    <3> HIDE DEF C
    <3> QED
      BY <2>1, <2>2, <3>1, NaturalInduction
  <2> QED
    BY <1>1, <2>3
<1> QED
  BY <1>6, <1>7, <1>8 DEF N, hop

\* The balance path from the amount that is to come out: the first amount is what
\* the first pool asks for the second one.
LEMMA PathOut ==
  ASSUME Typed, NEW path \in Seq(Assets), ValidateSwapPath(path), NEW amount \in Nat,
         NEW amounts, amounts = BalancePathFromAmountOut(amount, path), amounts[1] # Err
  PROVE  /\ amounts[2] \in Nat /\ amounts[Len(path)] = amount
         /\ amounts[1] = GetAmountIn(amounts[2], Reserve(path[2], path[1], path[1]),
                                     Reserve(path[2], path[1], path[2]))
<1> DEFINE N == Len(path)
           hop(n, x) == GetAmountIn(x, Reserve(path[n + 1], path[n], path[n]),
                                    Reserve(path[n + 1], path[n], path[n + 1]))
           turn(f) == [n \in 1..N |-> IF n = N THEN amount
                                      ELSE IF f[n + 1] = Err THEN Err ELSE hop(n, f[n + 1])]
           s == [k \in Nat |-> [x \in Amounts |->
                  IF x = Err \/ k \notin 2..N THEN Err ELSE hop(N + 1 - k, x)]]
<1>1. N \in Nat /\ N >= 2 /\ amount \in Amounts /\ amount # Err /\ Err \in Amounts
  BY Hops DEF Amounts, Err
<1>2. ASSUME NEW n \in 1..(N - 1), NEW x \in Nat PROVE hop(n, x) \in Amounts
  <2>1. /\ path[n] \in Assets /\ path[n + 1] \in Assets
        /\ PoolId(path[n + 1], path[n]) # NoPool
    <3>1. n \in 1..N /\ n + 1 \in 1..N
      BY <1>1
    <3> QED
      BY <3>1, Hops
  <2>2. /\ Reserve(path[n + 1], path[n], path[n + 1]) \in Nat
        /\ Reserve(path[n + 1], path[n], path[n]) \in Nat
    BY <2>1, ReserveNatural
  <2> QED
    BY <2>2, GetAmountInKeepsProduct DEF Amounts
<1>3. amounts = CHOOSE f : f = turn(f)
  BY DEF BalancePathFromAmountOut
<1> HIDE DEF N, hop
<1>4. \E f : f = turn(f)
  <2>1. s \in [Nat -> [Amounts -> Amounts]]
    <3>1. ASSUME NEW k \in 2..N, NEW x \in Nat PROVE hop(N + 1 - k, x) \in Amounts
      <4>1. N + 1 - k \in 1..(N - 1)
        BY <1>1
      <4> QED
        BY <1>2, <4>1
    <3> QED
      BY <1>1, <3>1 DEF Amounts
  <2>2. PICK g : Runs(g, Amounts, amount, s, N)
    <3> HIDE DEF s
    <3> QED
      BY <1>1, <2>1, RunExists, Zenon
  <2>3. g \in [1..N -> Amounts] /\ \A n \in 1..N : g[n] = IF n = 1 THEN amount ELSE s[n][g[n - 1]]
    BY <2>2, Zenon DEF Runs
  <2> DEFINE f == [n \in 1..N |-> g[N + 1 - n]]
  <2>4. ASSUME NEW n \in 1..N, n # N
        PROVE  f[n] = IF f[n + 1] = Err THEN Err ELSE hop(n, f[n + 1])
    <3>1. PICK k \in 2..N : k = N + 1 - n
      BY <1>1, <2>4
    <3>2. /\ n = N + 1 - k /\ n + 1 \in 1..N /\ N + 1 - (n + 1) = k - 1 /\ k \in 1..N /\ k # 1
          /\ k - 1 \in 1..N /\ k \in Nat
      BY <1>1, <2>4, <3>1
    <3>3. f[n] = g[k] /\ f[n + 1] = g[k - 1]
      BY <3>1, <3>2
    <3>4. g[k] = s[k][g[k - 1]] /\ g[k - 1] \in Amounts
      BY <2>3, <3>2, Zenon
    <3> HIDE DEF f
    <3> QED
      BY <3>2, <3>3, <3>4, Zenon
  <2>5. f[N] = amount
    <3>1. N \in 1..N /\ N + 1 - N = 1 /\ 1 \in 1..N
      BY <1>1
    <3> QED
      BY <2>3, <3>1, Zenon
  <2>6. f = turn(f)
    <3>1. f = [n \in 1..N |-> f[n]]
      OBVIOUS
    <3> HIDE DEF f
    <3> QED
      BY <2>4, <2>5, <3>1, Zenon
  <2> QED
    BY <2>6, Zenon
<1>5. amounts = turn(amounts)
  <2> HIDE DEF turn
  <2> QED
    BY <1>3, <1>4, Zenon
<1>6. /\ amounts[N] = amount
      /\ \A n \in 1..(N - 1) : amounts[n] = IF amounts[n + 1] = Err THEN Err ELSE hop(n, amounts[n + 1])
  BY <1>1, <1>5
<1>7. amounts[2] \in Amounts
  <2> DEFINE C == {k \in Nat : k < N => amounts[N - k] \in Amounts}
  <2>1. 0 \in C
    BY <1>1, <1>6
  <2>2. \A k \in Nat : k \in C => k + 1 \in C
    <3> SUFFICES ASSUME NEW k \in Nat, k \in C, k + 1 < N
                 PROVE  amounts[N - (k + 1)] \in Amounts
      OBVIOUS
    <3>1. PICK n \in 1..(N - 1) : n = N - (k + 1) /\ n + 1 = N - k
      BY <1>1
    <3>2. amounts[n + 1] \in Amounts
      BY <1>1, <3>1
    <3>3. amounts[n] \in Amounts
      BY <1>1, <1>2, <1>6, <3>2 DEF Amounts
    <3> QED
      BY <3>1, <3>3
  <2>3. N - 2 \in C
    <3>1. N - 2 \in Nat
      BY <1>1
    <3> HIDE DEF C
    <3> QED
      BY <2>1, <2>2, <3>1, NaturalInduction
  <2>4. N - (N - 2) = 2 /\ N - 2 < N
    BY <1>1
  <2> QED
    BY <2>3, <2>4
<1>8. amounts[2] # Err /\ amounts[1] = hop(1, amounts[2])
  BY <1>1, <1>6
<1> QED
  BY <1>6, <1>7, <1>8 DEF N, hop, Amounts

(***************************************************************************)
(* The migration.                                                          *)
(***************************************************************************)
\* One step of it: n of the native asset is made, and the deposits for the old
\* accounts of X stay as they are.
Stage(s, t, id, n, X) ==
  /\ Good(t)
  /\ t.ok => /\ s.ok
             /\ \A a \in Assets : Worth(t, a) = Worth(s, a) + IF a = Native THEN n ELSE 0
             /\ \A x \in X : DepositHeld(t, x, Prior(id)) = DepositHeld(s, x, Prior(id))

\* A step that keeps what there is.
LEMMA KeptStage ==
  ASSUME NEW s, Good(s), NEW t, Kept(s, t), t.ok => t.deposits = s.deposits, NEW id, NEW X
  PROVE  Stage(s, t, id, 0, X)
<1> SUFFICES ASSUME t.ok, NEW a \in Assets
             PROVE  Worth(t, a) = Worth(s, a) + IF a = Native THEN 0 ELSE 0
  BY Zenon DEF Stage, Kept, DepositHeld
<1>1. Worth(s, a) \in Nat
  BY WorthNatural DEF Good, Kept
<1> QED
  BY <1>1 DEF Kept

\* A store that has failed already.
LEMMA FailedStage ==
  ASSUME NEW s, Good(s), ~s.ok, NEW t, t = s \/ t = Failed(s) \/ t = Failed(Failed(s)),
         NEW id, NEW n, NEW X
  PROVE  Stage(s, t, id, n, X)
<1>1. IsStore(s) /\ IsStore(Failed(s)) /\ IsStore(Failed(Failed(s)))
  BY FailedStore DEF Good
<1>2. ~Failed(s).ok /\ ~Failed(Failed(s)).ok
  BY <1>1, FailedStore
<1> QED
  BY <1>1, <1>2 DEF Stage, Good

\* A deposit that is held was paid by a user.
LEMMA Depositor ==
  ASSUME NEW s, Good(s), s.ok, NEW token, NEW account, NEW d \in DepositHeld(s, token, account)
  PROVE  d \in s.deposits /\ d.token = token /\ d.account = account /\ d.who \in Users
  BY Zenon DEF Good, SoundDeposits, DepositRecords, DepositHeld

\* The deposits for the old account and where the new one is prepared.
LEMMA PrepareStage ==
  ASSUME NEW s, Good(s), NEW token \in AllTokens, NEW id, Address(id) \in PoolAccounts,
         Prior(id) # Address(id), NEW t, t = Prepared(s, token, id),
         NEW n, n = IF DepositHeld(s, token, Prior(id)) = {} THEN 0 ELSE Advance
  PROVE  Stage(s, t, id, n, AllTokens)
<1>1. CASE DepositHeld(s, token, Prior(id)) = {}
  <2>1. t = s /\ n = 0
    BY <1>1 DEF Prepared
  <2>2. Kept(s, t)
    BY <2>1 DEF Kept
  <2> QED
    BY <2>1, <2>2, KeptStage
<1>2. CASE DepositHeld(s, token, Prior(id)) # {}
  <2>1. PICK d, m : /\ d = CHOOSE e \in DepositHeld(s, token, Prior(id)) : TRUE
                    /\ m = MintInto(s, Asset(Native), d.who, Advance)
    OBVIOUS
  <2>2. d \in DepositHeld(s, token, Prior(id))
    BY <1>2, <2>1, Zenon
  <2>3. t = Touch(m, token, Address(id), d.who) /\ n = Advance
    BY <1>2, <2>1, Zenon DEF Prepared
  <2>4. CASE ~s.ok
    <3>1. m = Failed(s)
      BY <2>1, <2>4 DEF MintInto, Resolve
    <3>2. ~m.ok
      BY <3>1, FailedStore DEF Good
    <3>3. t = Failed(m)
      BY <2>3, <3>2 DEF Touch
    <3> QED
      BY <2>4, <3>1, <3>3, FailedStage
  <2>5. CASE s.ok
    <3>1. d.who \in Users /\ d.who \in Accounts /\ Asset(Native) \in AllTokens
      BY <2>2, <2>5, Depositor, RegistryAssumption DEF AllTokens, Accounts
    <3>2. Advance \in Nat
      BY DepositAssumption DEF Advance, MinimumBalance
    <3>3. Changed(s, m, Asset(Native), d.who, Advance)
      BY <2>1, <3>1, <3>2, ResolveEffect DEF Good, MintInto
    <3>4. Moves(s, m, Asset(Native), Advance) /\ Good(m)
      BY <3>1, <3>2, <3>3, ChangedMoves
    <3>5. Kept(m, t)
      BY <2>3, <3>1, <3>4, TouchKeeps
    <3>6. Touches(m, t, token, Address(id), d.who)
      BY <2>3, <3>1, <3>4, TouchEffect DEF Good
    <3>7. t.ok => \A x : DepositHeld(t, x, Prior(id)) = DepositHeld(s, x, Prior(id))
      <4>1. t.ok => t.deposits = s.deposits \cup {Held(token, Address(id), d.who)}
        BY <3>3, <3>6, Zenon DEF Touches, Changed
      <4>2. Held(token, Address(id), d.who).account # Prior(id)
        BY DEF Held
      <4> QED
        BY <4>1, <4>2, Zenon DEF DepositHeld
    <3>8. t.ok => /\ s.ok
                  /\ \A a \in Assets : Worth(t, a) = Worth(s, a) + IF a = Native THEN Advance ELSE 0
      BY <3>4, <3>5, Zenon DEF Moves, Kept, Asset
    <3> QED
      BY <2>3, <3>5, <3>7, <3>8, Zenon DEF Stage, Kept
  <2> QED
    BY <2>4, <2>5
<1> QED
  BY <1>1, <1>2

\* The transfers out of the old account.
LEMMA MoveStage ==
  ASSUME Typed, NEW s, Good(s), NEW token \in AllTokens, NEW id, Address(id) \in PoolAccounts,
         Prior(id) \in PoolAccounts, NEW t, t = MovedAll(s, token, id)
  PROVE  Stage(s, t, id, 0, AllTokens)
<1>1. PICK n, keepAlive, m : /\ n = Balance(Store, token, Prior(id)) /\ keepAlive = FALSE
                             /\ m = Withdraw(s, token, Prior(id), n, keepAlive)
  BY Zenon
<1>2. Prior(id) \in Accounts /\ Address(id) \in Accounts /\ n \in Nat
  BY <1>1, AccountSets, BalanceNatural DEF Typed, Good
<1>3. t = Resolve(m, token, Address(id), n)
  BY <1>1, Zenon DEF MovedAll, Transfer
<1>4. t = Transfer(s, token, Prior(id), Address(id), n, keepAlive)
  BY <1>1, <1>3, Zenon DEF Transfer
<1>5. Kept(s, t)
  BY <1>2, <1>4, TransferKeeps
<1>6. Changed(s, m, token, Prior(id), -n)
  BY <1>1, <1>2, WithdrawEffect, Zenon DEF Good
<1>7. Changed(m, t, token, Address(id), n)
  BY <1>2, <1>3, <1>6, ResolveEffect, Zenon DEF Changed
<1>8. t.ok => t.deposits = s.deposits
  BY <1>6, <1>7 DEF Changed
<1> QED
  BY <1>5, <1>8, KeptStage, Zenon

\* The deposits for the old account are paid back and the advance is burnt.
LEMMA ReturnStage ==
  ASSUME NEW s, Good(s), NEW token \in AllTokens, NEW id, NEW t, t = Returned(s, token, id),
         NEW n, n = IF DepositHeld(s, token, Prior(id)) = {} THEN 0 ELSE -Advance
  PROVE  Stage(s, t, id, n, AllTokens \ {token})
<1>1. CASE DepositHeld(s, token, Prior(id)) = {}
  <2>1. t = s /\ n = 0
    BY <1>1 DEF Returned
  <2>2. Kept(s, t)
    BY <2>1 DEF Kept
  <2> QED
    BY <2>1, <2>2, KeptStage
<1>2. CASE DepositHeld(s, token, Prior(id)) # {}
  <2>1. PICK d, r, keepAlive : /\ d = CHOOSE e \in DepositHeld(s, token, Prior(id)) : TRUE
                               /\ r = Refund(s, d) /\ keepAlive = FALSE
    BY Zenon
  <2>2. d \in DepositHeld(s, token, Prior(id))
    BY <1>2, <2>1, Zenon
  <2>3. t = Withdraw(r, Asset(Native), d.who, Advance, keepAlive)
    BY <1>2, <2>1, Zenon DEF Returned, BurnFrom
  <2>4. n = -Advance
    BY <1>2
  <2>5. CASE ~s.ok
    <3>1. r = Failed(s)
      BY <2>1, <2>5 DEF Refund
    <3>2. ~r.ok
      BY <3>1, FailedStore DEF Good
    <3>3. t = Failed(r)
      BY <2>3, <3>2 DEF Withdraw
    <3> QED
      BY <2>5, <3>1, <3>3, FailedStage
  <2>6. CASE s.ok
    <3>1. d \in s.deposits /\ d.token = token /\ d.account = Prior(id) /\ d.who \in Users
      BY <2>2, <2>6, Depositor, Zenon
    <3>2. d.who \in Accounts /\ Asset(Native) \in AllTokens
      BY <3>1, RegistryAssumption DEF AllTokens, Accounts
    <3>3. Advance \in Nat /\ n \in Int
      BY <2>4, DepositAssumption DEF Advance, MinimumBalance
    <3>4. Kept(s, r) /\ Good(r)
      <4>1. Kept(s, r)
        BY <2>1, <3>1, RefundKeeps, Zenon
      <4> QED
        BY <4>1 DEF Kept
    <3>5. Refunds(s, r, d)
      BY <2>1, <3>2, RefundEffect DEF Good
    <3>6. Changed(r, t, Asset(Native), d.who, n)
      BY <2>3, <2>4, <3>2, <3>3, <3>4, WithdrawEffect, Zenon DEF Good
    <3>7. Moves(r, t, Asset(Native), n) /\ Good(t)
      BY <3>2, <3>3, <3>4, <3>6, ChangedMoves, Zenon
    <3>8. t.ok => \A x : x # token => DepositHeld(t, x, Prior(id)) = DepositHeld(s, x, Prior(id))
      BY <3>1, <3>5, <3>6, Zenon DEF Refunds, Changed, DepositHeld
    <3>9. t.ok => /\ s.ok
                  /\ \A a \in Assets : Worth(t, a) = Worth(s, a) + IF a = Native THEN n ELSE 0
      BY <3>4, <3>7, Zenon DEF Moves, Kept, Asset
    <3> QED
      BY <3>7, <3>8, <3>9, Zenon DEF Stage
  <2> QED
    BY <2>5, <2>6
<1> QED
  BY <1>1, <1>2

\* Two steps of the migration after each other.
LEMMA StagesJoin ==
  ASSUME NEW r, Good(r), NEW s, NEW t, NEW id, NEW n \in Int, NEW k \in Int, NEW X, NEW Y,
         Stage(r, s, id, n, X), Stage(s, t, id, k, Y), Y \subseteq X,
         NEW l, l = n + k
  PROVE  Stage(r, t, id, l, Y)
<1> SUFFICES ASSUME t.ok
             PROVE  /\ r.ok
                    /\ \A a \in Assets : Worth(t, a) = Worth(r, a) + IF a = Native THEN l ELSE 0
                    /\ \A x \in Y : DepositHeld(t, x, Prior(id)) = DepositHeld(r, x, Prior(id))
  BY DEF Stage
<1>1. r.ok /\ s.ok
  BY DEF Stage
<1>2. \A x \in Y : DepositHeld(t, x, Prior(id)) = DepositHeld(r, x, Prior(id))
  BY <1>1 DEF Stage
<1>3. ASSUME NEW a \in Assets
      PROVE  Worth(t, a) = Worth(r, a) + IF a = Native THEN l ELSE 0
  <2>1. Worth(r, a) \in Nat
    BY <1>1, WorthNatural DEF Good
  <2>2. Worth(s, a) = Worth(r, a) + IF a = Native THEN n ELSE 0
    BY <1>1 DEF Stage
  <2>3. Worth(t, a) = Worth(s, a) + IF a = Native THEN k ELSE 0
    BY DEF Stage
  <2> QED
    BY <2>1, <2>2, <2>3
<1> QED
  BY <1>1, <1>2, <1>3

\* What is advanced for a deposit and what is burnt for it.
Lent(held) == IF held = {} THEN 0 ELSE Advance

\* migrate_to_new_account makes no asset: what it advances for the deposits that
\* the old accounts have it burns when it returns them.
LEMMA MigrationKeepsFunds ==
  ASSUME Typed, NEW id \in DOMAIN pools, Prior(id) # Address(id), NEW t, t = Migrated(id), t.ok
  PROVE  Kept(Store, t)
<1>1. PICK x, y, z : x = Asset(id[1]) /\ y = Asset(id[2]) /\ z = PoolAsset(pools[id].lp)
  OBVIOUS
<1>2. /\ x \in AllTokens /\ y \in AllTokens /\ z \in AllTokens
      /\ x # y /\ x # z /\ y # z
      /\ Prior(id) \in PoolAccounts /\ Address(id) \in PoolAccounts /\ Good(Store)
  <2>1. /\ id[1] \in Assets /\ id[2] \in Assets /\ id[1] # id[2] /\ pools[id].lp \in LpTokens
        /\ AccountId("prior", id) \in PoolAccounts /\ Address(id) \in PoolAccounts
    BY KnownPool
  <2> QED
    BY <1>1, <2>1 DEF AllTokens, Asset, PoolAsset, Prior, Typed
<1>3. PICK p1, p2, p3, m1, m2, m3, r1, r2 :
        /\ p1 = Prepared(Store, x, id) /\ p2 = Prepared(p1, y, id) /\ p3 = Prepared(p2, z, id)
        /\ m1 = MovedAll(p3, x, id) /\ m2 = MovedAll(m1, y, id) /\ m3 = MovedAll(m2, z, id)
        /\ r1 = Returned(m3, x, id) /\ r2 = Returned(r1, y, id) /\ t = Returned(r2, z, id)
  BY <1>1, Zenon DEF Migrated, Tokens
<1>4. PICK held1, held2, held3, back1, back2, back3 :
        /\ held1 = DepositHeld(Store, x, Prior(id)) /\ back1 = DepositHeld(m3, x, Prior(id))
        /\ held2 = DepositHeld(p1, y, Prior(id)) /\ back2 = DepositHeld(r1, y, Prior(id))
        /\ held3 = DepositHeld(p2, z, Prior(id)) /\ back3 = DepositHeld(r2, z, Prior(id))
  OBVIOUS
<1>5. \A held : Lent(held) \in Int
  BY DepositAssumption DEF Lent, Advance, MinimumBalance
<1>6. \A held : -Lent(held) = IF held = {} THEN 0 ELSE -Advance
  BY DepositAssumption DEF Lent, Advance, MinimumBalance
<1>7. Stage(Store, p1, id, Lent(held1), AllTokens) /\ Good(p1)
  <2>1. Stage(Store, p1, id, Lent(held1), AllTokens)
    BY <1>2, <1>3, <1>4, PrepareStage DEF Lent
  <2> QED
    BY <2>1 DEF Stage
<1>8. Stage(p1, p2, id, Lent(held2), AllTokens) /\ Good(p2)
  <2>1. Stage(p1, p2, id, Lent(held2), AllTokens)
    BY <1>2, <1>3, <1>4, <1>7, PrepareStage DEF Lent
  <2> QED
    BY <2>1 DEF Stage
<1>9. Stage(p2, p3, id, Lent(held3), AllTokens) /\ Good(p3)
  <2>1. Stage(p2, p3, id, Lent(held3), AllTokens)
    BY <1>2, <1>3, <1>4, <1>8, PrepareStage DEF Lent
  <2> QED
    BY <2>1 DEF Stage
<1>10. Stage(p3, m1, id, 0, AllTokens) /\ Good(m1)
  <2>1. Stage(p3, m1, id, 0, AllTokens)
    BY <1>2, <1>3, <1>9, MoveStage
  <2> QED
    BY <2>1 DEF Stage
<1>11. Stage(m1, m2, id, 0, AllTokens) /\ Good(m2)
  <2>1. Stage(m1, m2, id, 0, AllTokens)
    BY <1>2, <1>3, <1>10, MoveStage
  <2> QED
    BY <2>1 DEF Stage
<1>12. Stage(m2, m3, id, 0, AllTokens) /\ Good(m3)
  <2>1. Stage(m2, m3, id, 0, AllTokens)
    BY <1>2, <1>3, <1>11, MoveStage
  <2> QED
    BY <2>1 DEF Stage
<1>13. Stage(m3, r1, id, -Lent(back1), AllTokens \ {x}) /\ Good(r1)
  <2>1. Stage(m3, r1, id, -Lent(back1), AllTokens \ {x})
    BY <1>2, <1>3, <1>4, <1>6, <1>12, ReturnStage
  <2> QED
    BY <2>1 DEF Stage
<1>14. Stage(r1, r2, id, -Lent(back2), AllTokens \ {y}) /\ Good(r2)
  <2>1. Stage(r1, r2, id, -Lent(back2), AllTokens \ {y})
    BY <1>2, <1>3, <1>4, <1>6, <1>13, ReturnStage
  <2> QED
    BY <2>1 DEF Stage
<1>15. Stage(r2, t, id, -Lent(back3), AllTokens \ {z}) /\ Good(t)
  <2>1. Stage(r2, t, id, -Lent(back3), AllTokens \ {z})
    BY <1>2, <1>3, <1>4, <1>6, <1>14, ReturnStage
  <2> QED
    BY <2>1 DEF Stage
<1>16. back1 = held1 /\ back2 = held2 /\ back3 = held3
  <2>1. r2.ok /\ r1.ok /\ m3.ok /\ m2.ok /\ m1.ok /\ p3.ok /\ p2.ok /\ p1.ok
    BY <1>7, <1>8, <1>9, <1>10, <1>11, <1>12, <1>13, <1>14, <1>15 DEF Stage
  <2>2. \A v \in AllTokens : /\ DepositHeld(m3, v, Prior(id)) = DepositHeld(p2, v, Prior(id))
                             /\ DepositHeld(p2, v, Prior(id)) = DepositHeld(p1, v, Prior(id))
                             /\ DepositHeld(p1, v, Prior(id)) = DepositHeld(Store, v, Prior(id))
    BY <1>7, <1>8, <1>9, <1>10, <1>11, <1>12, <2>1, Zenon DEF Stage
  <2>3. \A v \in AllTokens \ {x} : DepositHeld(r1, v, Prior(id)) = DepositHeld(m3, v, Prior(id))
    BY <1>13, <2>1, Zenon DEF Stage
  <2>4. \A v \in AllTokens \ {y} : DepositHeld(r2, v, Prior(id)) = DepositHeld(r1, v, Prior(id))
    BY <1>14, <2>1, Zenon DEF Stage
  <2>5. y \in AllTokens \ {x} /\ z \in AllTokens \ {x} /\ z \in AllTokens \ {y}
    BY <1>2
  <2> QED
    BY <1>2, <1>4, <2>2, <2>3, <2>4, <2>5, Zenon
<1>17. PICK a \in Int, b \in Int, c \in Int : a = Lent(held1) /\ b = Lent(held2) /\ c = Lent(held3)
  BY <1>5
<1>18. Stage(Store, m3, id, a + b + c, AllTokens)
  <2>1. Stage(Store, p2, id, a + b, AllTokens)
    BY <1>2, <1>7, <1>8, <1>17, StagesJoin
  <2>2. Stage(Store, p3, id, a + b + c, AllTokens)
    BY <1>2, <1>9, <1>17, <2>1, StagesJoin
  <2>3. Stage(Store, m1, id, a + b + c, AllTokens)
    BY <1>2, <1>10, <2>2, StagesJoin
  <2>4. Stage(Store, m2, id, a + b + c, AllTokens)
    BY <1>2, <1>11, <2>3, StagesJoin
  <2> QED
    BY <1>2, <1>12, <2>4, StagesJoin
<1>19. Stage(Store, t, id, 0, {})
  <2>1. Stage(Store, r1, id, b + c, {})
    <3>1. Stage(m3, r1, id, -a, {})
      BY <1>13, <1>16, <1>17 DEF Stage
    <3> QED
      BY <1>2, <1>18, <3>1, StagesJoin
  <2>2. Stage(Store, r2, id, c, {})
    <3>1. Stage(r1, r2, id, -b, {})
      BY <1>14, <1>16, <1>17 DEF Stage
    <3> QED
      BY <1>2, <2>1, <3>1, StagesJoin
  <2>3. Stage(r2, t, id, -c, {})
    BY <1>15, <1>16, <1>17 DEF Stage
  <2> QED
    BY <1>2, <2>2, <2>3, StagesJoin
<1>20. ASSUME NEW v \in Assets PROVE Worth(t, v) = Worth(Store, v)
  <2>1. Worth(Store, v) \in Nat
    BY <1>2, WorthNatural DEF Good, Store
  <2> QED
    BY <1>19, <2>1 DEF Stage
<1> QED
  BY <1>15, <1>19, <1>20 DEF Kept, Stage

\* So it keeps the sums, and the pools their LP tokens.
LEMMA MigrateFunds ==
  ASSUME FundInv, NEW asset1, NEW asset2, MigrateToNewAccount(asset1, asset2)
  PROVE  FundInv'
<1>1. PICK id, t : /\ id \in DOMAIN pools /\ Prior(id) # Address(id)
                   /\ t = Migrated(id) /\ Commit(t)
  BY DEF MigrateToNewAccount, Migratable
<1>2. /\ DOMAIN pools' = DOMAIN pools
      /\ \A i \in DOMAIN pools : pools'[i].lp = pools[i].lp
      /\ UNCHANGED <<locator, seed, nextLp, dropped>>
  BY DEF MigrateToNewAccount
<1>3. Kept(Store, t)
  BY <1>1, MigrationKeepsFunds, Zenon DEF FundInv, Commit
<1>4. Sums'
  BY <1>1, <1>2, <1>3, SumsKept, Zenon
<1> QED
  BY <1>2, <1>4 DEF FundInv, Typed, Sums
=============================================================================
