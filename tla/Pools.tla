------------------------------- MODULE Pools -------------------------------
(***************************************************************************)
(* Several pools under every call that moves funds between them and their  *)
(* users: PoolRegistry, Swaps and Migration together.                      *)
(***************************************************************************)
EXTENDS Swaps, Migration

Next ==
  \/ \E who \in Users : RegistryCall(who) \/ SwapCall(who)
  \/ Upgrade
  \/ \E pair \in Pairs : MigrateToNewAccount(pair[1], pair[2])

Spec == Init /\ [][Next]_vars

-----------------------------------------------------------------------------
\* The variables have their types.
TypeOK ==
  /\ locator \in LocatorNames /\ seed \in Seeds
  /\ DOMAIN pools \subseteq PoolIds
  /\ \A id \in DOMAIN pools : pools[id].lp \in 0..(nextLp - 1)
                              /\ pools[id].team \in {AccountId(s, id) : s \in Seeds}
  /\ \A a \in Assets, u \in Accounts : bal[a][u] \in 0..(UnitRange - 1)
  /\ \A t \in LpTokens, u \in Accounts : lp[t][u] \in 0..(UnitRange - 1)
  /\ \A d \in deposits : d.who \in Users /\ d.account \in PoolAccounts
  /\ dropped \in [Assets -> Nat] /\ calls \in 0..MaxCalls

\* No call makes or loses an asset: what is in accounts, in deposits and in
\* credits that were dropped is what the users began with.  The advance that the
\* migration mints for a depositor is burnt in the same call.
Conserved ==
  \A a \in Assets :
    SumFunction(bal[a]) + dropped[a]
      + (IF a = Native THEN AccountDeposit * Cardinality(deposits) ELSE 0)
      = Endowment * Cardinality(Users)

\* Two pools never share an LP token, also when the ids run out.  Under the
\* locator that does not tell the order of a pair (Chain of WithFirstAsset and
\* Ascending) a pair of assets has one pool at most, whichever way round
\* create_pool names it.
PoolsApart ==
  \A id1, id2 \in DOMAIN pools :
    \/ pools[id1].lp = pools[id2].lp
    \/ locator = "Chain" /\ {id1[1], id1[2]} = {id2[1], id2[2]}
    => id1 = id2

\* A pool whose LP token was ever minted keeps some of both assets and the
\* minted minimum, at its old account or at its new one: withdraw preserves the
\* account of the pool, and the migration moves all three or none.
FundedStays ==
  \A id \in DOMAIN pools :
    Supply(pools[id].lp) > 0 =>
      \E s \in Seeds : /\ bal[id[1]][AccountId(s, id)] >= MinimumBalance
                       /\ bal[id[2]][AccountId(s, id)] >= MinimumBalance
                       /\ lp[pools[id].lp][AccountId(s, id)] >= MintMinLiquidity

\* Where both orders of a pair are one pool, the pool that prices a SwapCredit
\* call also pays for it: credit_swap cannot fail after the credit was split, and
\* no change is lost.
NoCreditDropped == locator = "Chain" => \A a \in Assets : dropped[a] = 0

Swapped == calls' # calls /\ last' # NoSwap

\* The change of user u's balance of asset a in a swap that gives `amount` of
\* `asset`.
Change(a, u, asset, amount) ==
  (IF a = asset /\ u = last'.to THEN amount ELSE 0)
    - (IF a = last'.path[1] /\ u = last'.from THEN last'.in ELSE 0)

\* A swap between two assets takes from its sender the amount that it prices and
\* gives the receiver the amount that it returns; no other balance of a user
\* changes, and the change of a credit comes back.
SwapDelivers ==
  [][Swapped /\ Len(last'.path) = 2 =>
       \A a \in Assets, u \in Users :
         bal'[a][u] - bal[a][u] = Change(a, u, last'.path[2], last'.out)]_vars

Product(id, reserves) == reserves[id[1]][Address(id)] * reserves[id[2]][Address(id)]

\* No swap makes the product of a pool's reserves smaller: the Swap calls under
\* every locator, the SwapCredit calls under one that gives both orders of a pair
\* the same pool (else one pool prices the swap and another one pays).
SwapKeepsProduct ==
  [][Swapped /\ (locator = "Chain" \/ last'.call \in {"exact in", "exact out"}) =>
       \A id \in PoolIds : Product(id, bal') >= Product(id, bal)]_vars

\* What the RPC quotes for a pair is what a swap in the same state gives or
\* costs, and without the fee it looks no worse.  The quote for an exact amount
\* out asks the pool of (path[1], path[2]) and the swap that of
\* (path[2], path[1]), so there it holds for the locator that ignores the order.
QuoteHonoured ==
  [][Swapped /\ Len(last'.path) = 2 =>
       LET a1 == last'.path[1]
           a2 == last'.path[2]
       IN  IF last'.call \in {"exact in", "exact credit in"}
           THEN /\ QuotePriceExactTokensForTokens(a1, a2, last'.in, TRUE) = last'.out
                /\ QuotePriceExactTokensForTokens(a1, a2, last'.in, FALSE) >= last'.out
           ELSE locator = "Chain" =>
                  /\ QuotePriceTokensForExactTokens(a1, a2, last'.out, TRUE) = last'.in
                  /\ QuotePriceTokensForExactTokens(a1, a2, last'.out, FALSE) <= last'.in]_vars

\* A migration empties the old account into the new one, moves every deposit
\* there under the same depositor, and costs no user anything.
MigrationMovesAll ==
  [][\A id \in DOMAIN pools : pools'[id].team # pools[id].team =>
       /\ \A n \in 1..2 : /\ bal'[id[n]][Prior(id)] = 0
                          /\ bal'[id[n]][Address(id)] = bal[id[n]][Prior(id)] + bal[id[n]][Address(id)]
       /\ lp'[pools[id].lp][Prior(id)] = 0
       /\ lp'[pools[id].lp][Address(id)] >= lp[pools[id].lp][Prior(id)]
       /\ deposits' = {IF d.account = Prior(id) THEN [d EXCEPT !.account = Address(id)] ELSE d :
                         d \in deposits}
       /\ \A a \in Assets, u \in Users : bal'[a][u] = bal[a][u]]_vars

-----------------------------------------------------------------------------
\* Stated by swap.rs of SwapCredit::swap_tokens_for_exact_tokens: a failure
\* returns the credit that the caller gave.
CreditReturned == \A a \in Assets : dropped[a] = 0

\* Stated by swap.rs of the calls of Swap and SwapCredit: the receiver gets the
\* last asset of the path, in the amount that the call returns.
PathDelivered ==
  [][Swapped =>
       \A a \in Assets, u \in Users :
         bal'[a][u] - bal[a][u]
           = Change(a, u, last'.path[Len(last'.path)], last'.out)]_vars
=============================================================================
