---------------------------- MODULE PoolsProofs ----------------------------
(***************************************************************************)
(* Proofs about the calls of the pools, for any assets, users and calls:   *)
(* what a swap takes and gives, and that no call makes or loses an asset.  *)
(***************************************************************************)
EXTENDS PoolFundsProofs

(***************************************************************************)
(* The swaps.                                                              *)
(***************************************************************************)
\* An amount that counts for one balance only.
At(z, u, x, who, k) == IF z = x /\ u = who THEN k ELSE 0

\* It is an integer.
LEMMA AtInteger == ASSUME NEW z, NEW u, NEW x, NEW who, NEW k \in Int PROVE At(z, u, x, who, k) \in Int
  BY DEF At

\* Four changes of a number.
LEMMA FourChanges ==
  ASSUME NEW b \in Int, NEW p \in Int, NEW q \in Int, NEW r \in Int, NEW v \in Int,
         NEW b1, b1 = b + p, NEW b2, b2 = b1 + q, NEW b3, b3 = b2 + r, NEW b4, b4 = b3 + v
  PROVE  b4 = b + p + q + r + v
  OBVIOUS

\* Less than all there is may always leave.
LEMMA SomeStays == ASSUME NEW r \in Nat, NEW m \in Nat, m < r, NEW k PROVE CanLeave(r, 0, m, k)
  BY DEF CanLeave, MinimumBalance

\* Nothing added before and after two changes.
LEMMA NothingAround ==
  ASSUME NEW b \in Nat, NEW p \in Int, NEW q \in Int
  PROVE  b + 0 + p + q + 0 = b + p + q
  OBVIOUS

\* The same of none.
LEMMA NothingTwice == ASSUME NEW b \in Nat PROVE b + 0 + 0 = b
  OBVIOUS

\* The same of one addition.
LEMMA NothingBeforeOne ==
  ASSUME NEW b \in Nat, NEW n \in Nat, NEW c, c = b + 0 + n
  PROVE  c = b + n
  OBVIOUS

\* The same of one subtraction.
LEMMA NothingAfterOne ==
  ASSUME NEW b \in Nat, NEW n \in Nat, NEW c, c = b + -n + 0
  PROVE  c = b - n
  OBVIOUS

\* Where the same balance pays and receives, the difference is what counts.
LEMMA TakenAndGiven ==
  ASSUME NEW X \in BOOLEAN, NEW Y \in BOOLEAN, NEW c \in Nat, NEW n \in Nat, NEW m \in Nat,
         NEW b \in Int, NEW b1, b1 = b + IF X THEN -c ELSE 0,
         NEW b2, b2 = b1 + IF Y THEN -m ELSE 0, NEW b3, b3 = b2 + IF X THEN n ELSE 0,
         NEW b4, b4 = b3 + IF Y THEN m ELSE 0
  PROVE  b4 = b + IF X THEN n - c ELSE 0
  OBVIOUS

\* What a swap of two tokens comes to: c leaves the sender, of which the pool gets
\* n, and m goes from the pool to the receiver.
Traded(s, t, x, y, c, n, m, from, to, pool) ==
  \A z \in AllTokens, u \in Accounts :
    Balance(t, z, u) = Balance(s, z, u) + At(z, u, x, from, -c) + At(z, u, y, pool, -m)
                         + At(z, u, x, pool, n) + At(z, u, y, to, m)

\* As much as a call that succeeds has traded.
Trades(s, t, x, y, c, n, m, from, to, pool) ==
  /\ Good(t)
  /\ t.ok => /\ s.ok /\ Traded(s, t, x, y, c, n, m, from, to, pool)
             /\ \A a \in Assets : Worth(t, a) = Worth(s, a) + IF Asset(a) = x THEN n - c ELSE 0

\* The four calls of a swap: the sender pays, the pool gives, gets, and the
\* receiver is paid.
LEMMA TradeEffect ==
  ASSUME NEW s, Good(s), NEW x \in AllTokens, NEW y \in AllTokens, NEW from \in Accounts,
         NEW to \in Accounts, NEW pool \in Accounts, NEW c \in Nat, NEW n \in Nat, NEW m \in Nat,
         NEW keepAlive, NEW preserve, NEW taken, taken = Withdraw(s, x, from, c, keepAlive),
         NEW left, left = Withdraw(taken, y, pool, m, preserve),
         NEW swapped, swapped = Resolve(left, x, pool, n),
         NEW t, t = Resolve(swapped, y, to, m)
  PROVE  Trades(s, t, x, y, c, n, m, from, to, pool)
<1>1. -c \in Int /\ -m \in Int /\ n \in Int /\ m \in Int
  OBVIOUS
<1>2. Changed(s, taken, x, from, -c)
  BY WithdrawEffect DEF Good
<1>3. Moves(s, taken, x, -c) /\ Good(taken)
  BY <1>1, <1>2, ChangedMoves
<1>4. Changed(taken, left, y, pool, -m)
  BY <1>3, WithdrawEffect DEF Good
<1>5. Moves(taken, left, y, -m) /\ Good(left)
  BY <1>1, <1>3, <1>4, ChangedMoves
<1>6. Changed(left, swapped, x, pool, n)
  BY <1>5, ResolveEffect DEF Good
<1>7. Moves(left, swapped, x, n) /\ Good(swapped)
  BY <1>1, <1>5, <1>6, ChangedMoves
<1>8. Changed(swapped, t, y, to, m)
  BY <1>7, ResolveEffect DEF Good
<1>9. Moves(swapped, t, y, m) /\ Good(t)
  BY <1>1, <1>7, <1>8, ChangedMoves
<1> SUFFICES ASSUME t.ok
             PROVE  /\ s.ok /\ Traded(s, t, x, y, c, n, m, from, to, pool)
                    /\ \A a \in Assets : Worth(t, a) = Worth(s, a) + IF Asset(a) = x THEN n - c ELSE 0
  BY <1>9 DEF Trades
<1>10. swapped.ok /\ left.ok /\ taken.ok /\ s.ok
  BY <1>2, <1>4, <1>6, <1>8 DEF Changed
<1>11. ASSUME NEW z \in AllTokens, NEW u \in Accounts
       PROVE  Balance(t, z, u) = Balance(s, z, u) + At(z, u, x, from, -c) + At(z, u, y, pool, -m)
                                   + At(z, u, x, pool, n) + At(z, u, y, to, m)
  <2>1. /\ Balance(taken, z, u) = Balance(s, z, u) + At(z, u, x, from, -c)
        /\ Balance(left, z, u) = Balance(taken, z, u) + At(z, u, y, pool, -m)
    BY <1>2, <1>4, <1>10 DEF Changed, Plus, At
  <2>2. /\ Balance(swapped, z, u) = Balance(left, z, u) + At(z, u, x, pool, n)
        /\ Balance(t, z, u) = Balance(swapped, z, u) + At(z, u, y, to, m)
    BY <1>6, <1>8, <1>10, Zenon DEF Changed, Plus, At
  <2>3. Balance(s, z, u) \in Int
    BY BalanceNatural DEF Good
  <2>4. /\ At(z, u, x, from, -c) \in Int /\ At(z, u, y, pool, -m) \in Int
        /\ At(z, u, x, pool, n) \in Int /\ At(z, u, y, to, m) \in Int
    BY <1>1, AtInteger
  <2> QED
    BY <2>1, <2>2, <2>3, <2>4, FourChanges
<1>12. ASSUME NEW a \in Assets
       PROVE  Worth(t, a) = Worth(s, a) + IF Asset(a) = x THEN n - c ELSE 0
  <2>1. PICK X \in BOOLEAN, Y \in BOOLEAN : (X <=> Asset(a) = x) /\ (Y <=> Asset(a) = y)
    BY Zenon
  <2>2. /\ Worth(taken, a) = Worth(s, a) + IF X THEN -c ELSE 0
        /\ Worth(left, a) = Worth(taken, a) + IF Y THEN -m ELSE 0
    BY <1>3, <1>5, <1>10, <2>1 DEF Moves
  <2>3. /\ Worth(swapped, a) = Worth(left, a) + IF X THEN n ELSE 0
        /\ Worth(t, a) = Worth(swapped, a) + IF Y THEN m ELSE 0
    BY <1>7, <1>9, <1>10, <2>1 DEF Moves
  <2>4. Worth(s, a) \in Int
    BY <1>10, WorthNatural DEF Good
  <2>5. Worth(t, a) = Worth(s, a) + IF X THEN n - c ELSE 0
    BY <2>2, <2>3, <2>4, TakenAndGiven
  <2> QED
    BY <2>1, <2>5
<1> QED
  BY <1>10, <1>11, <1>12, Zenon DEF Traded

\* The same of the storage: n of a1 goes from one user to the pool and m of a2 from
\* the pool to another one, or to the same.
Trade(a1, a2, n, m, from, to, id) ==
  \A a \in Assets, u \in Accounts :
    bal'[a][u] = bal[a][u] + At(a, u, a1, from, -n) + At(a, u, a2, Address(id), -m)
                   + At(a, u, a1, Address(id), n) + At(a, u, a2, to, m)

\* The assets and the pool of a trade.
Sides(a1, a2, id) ==
  /\ a1 \in Assets /\ a2 \in Assets /\ a1 # a2
  /\ id \in PoolIds /\ (id = <<a1, a2>> \/ id = <<a2, a1>>)

\* A call whose store is the storage with a trade.
LEMMA TradeCommitted ==
  ASSUME FundInv, NEW a1, NEW a2, NEW id, Sides(a1, a2, id), NEW n \in Nat, NEW m \in Nat,
         NEW from \in Users, NEW to \in Users,
         NEW t, Kept(Store, t), Traded(Store, t, Asset(a1), Asset(a2), n, n, m, from, to, Address(id)),
         Commit(t), dropped' = dropped
  PROVE  Sums' /\ Trade(a1, a2, n, m, from, to, id)
<1>1. Sums'
  BY SumsKept
<1>2. ASSUME NEW a \in Assets, NEW u \in Accounts
      PROVE  bal'[a][u] = bal[a][u] + At(a, u, a1, from, -n) + At(a, u, a2, Address(id), -m)
                            + At(a, u, a1, Address(id), n) + At(a, u, a2, to, m)
  <2>1. /\ Asset(a) \in AllTokens
        /\ \A b, w, k : At(Asset(a), u, Asset(b), w, k) = At(a, u, b, w, k)
    BY Zenon DEF AllTokens, Asset, At
  <2>2. Balance(Store, Asset(a), u) = bal[a][u] /\ Balance(t, Asset(a), u) = bal'[a][u]
    BY Zenon DEF Store, Balance, Asset, Commit
  <2> QED
    BY <2>1, <2>2, Zenon DEF Traded
<1> QED
  BY <1>1, <1>2, Zenon DEF Trade

\* A swap between two users.
LEMMA SwapTrades ==
  ASSUME FundInv, NEW a1, NEW a2, NEW id, Sides(a1, a2, id), NEW n \in Nat, NEW m \in Nat,
         NEW from \in Users, NEW to \in Users, NEW keepAlive, NEW preserve,
         NEW taken, taken = Withdraw(Store, Asset(a1), from, n, keepAlive),
         NEW left, left = Withdraw(taken, Asset(a2), Address(id), m, preserve),
         NEW swapped, swapped = Resolve(left, Asset(a1), Address(id), n),
         NEW t, t = Resolve(swapped, Asset(a2), to, m),
         Commit(t), dropped' = dropped
  PROVE  Sums' /\ Trade(a1, a2, n, m, from, to, id)
<1>1. Asset(a1) \in AllTokens /\ Asset(a2) \in AllTokens
  BY DEF AllTokens, Sides
<1>2. from \in Accounts /\ to \in Accounts /\ Address(id) \in Accounts
  BY AccountSets, Zenon DEF FundInv, Typed, Sides, Address
<1>3. Good(Store) /\ t.ok
  BY DEF FundInv, Typed, Commit
<1>4. /\ Good(t)
      /\ Traded(Store, t, Asset(a1), Asset(a2), n, n, m, from, to, Address(id))
      /\ \A a \in Assets : Worth(t, a) = Worth(Store, a) + IF Asset(a) = Asset(a1) THEN n - n ELSE 0
  <2>1. Trades(Store, t, Asset(a1), Asset(a2), n, n, m, from, to, Address(id))
    BY <1>1, <1>2, <1>3, TradeEffect
  <2> QED
    BY <1>3, <2>1, Zenon DEF Trades
<1>5. Kept(Store, t)
  <2>1. Store.ok /\ SoundDeposits(Store.deposits) /\ IsStore(Store)
    BY <1>3, Zenon DEF Store, Good
  <2>2. ASSUME NEW a \in Assets PROVE Worth(t, a) = Worth(Store, a)
    <3>1. Worth(Store, a) \in Nat
      BY <2>1, WorthNatural
    <3>2. Worth(t, a) = Worth(Store, a) + IF Asset(a) = Asset(a1) THEN n - n ELSE 0
      BY <1>4
    <3> QED
      BY <3>1, <3>2
  <2> QED
    BY <1>4, <2>1, <2>2 DEF Kept
<1> QED
  BY <1>4, <1>5, TradeCommitted, Zenon

\* A swap of a credit, whose change comes back.
LEMMA CreditTrades ==
  ASSUME FundInv, NEW a1, NEW a2, NEW id, Sides(a1, a2, id), NEW n \in Nat, NEW m \in Nat,
         NEW c \in Nat, NEW change \in Nat, change = c - n, NEW who \in Users,
         NEW keepAlive, NEW preserve,
         NEW taken, taken = Withdraw(Store, Asset(a1), who, c, keepAlive),
         NEW left, left = Withdraw(taken, Asset(a2), Address(id), m, preserve),
         NEW swapped, swapped = Resolve(left, Asset(a1), Address(id), n),
         NEW paid, paid = Resolve(swapped, Asset(a2), who, m),
         NEW t, t = Resolve(paid, Asset(a1), who, change),
         Commit(t), dropped' = dropped
  PROVE  Sums' /\ Trade(a1, a2, n, m, who, who, id)
<1>1. Asset(a1) \in AllTokens /\ Asset(a2) \in AllTokens
  BY DEF AllTokens, Sides
<1>2. who \in Accounts /\ Address(id) \in Accounts
  BY AccountSets, Zenon DEF FundInv, Typed, Sides, Address
<1>3. Good(Store) /\ t.ok
  BY DEF FundInv, Typed, Commit
<1>4. /\ Good(paid)
      /\ paid.ok =>
           /\ Store.ok
           /\ Traded(Store, paid, Asset(a1), Asset(a2), c, n, m, who, who, Address(id))
           /\ \A a \in Assets : Worth(paid, a) = Worth(Store, a) + IF Asset(a) = Asset(a1) THEN n - c ELSE 0
  <2>1. Trades(Store, paid, Asset(a1), Asset(a2), c, n, m, who, who, Address(id))
    BY <1>1, <1>2, <1>3, TradeEffect
  <2> QED
    BY <2>1 DEF Trades
<1>5. Changed(paid, t, Asset(a1), who, change)
  BY <1>1, <1>2, <1>4, ResolveEffect DEF Good
<1>6. Moves(paid, t, Asset(a1), change)
  BY <1>1, <1>2, <1>4, <1>5, ChangedMoves
<1>7. Store.ok /\ SoundDeposits(Store.deposits) /\ IsStore(Store) /\ paid.ok
  BY <1>3, <1>6, Zenon DEF Store, Good, Moves
<1>8. Kept(Store, t)
  <2>1. ASSUME NEW a \in Assets PROVE Worth(t, a) = Worth(Store, a)
    <3>1. Worth(Store, a) \in Nat
      BY <1>7, WorthNatural
    <3>2. /\ Worth(paid, a) = Worth(Store, a) + IF Asset(a) = Asset(a1) THEN n - c ELSE 0
          /\ Worth(t, a) = Worth(paid, a) + IF Asset(a) = Asset(a1) THEN change ELSE 0
      BY <1>3, <1>4, <1>6, <1>7, Zenon DEF Moves
    <3> QED
      BY <3>1, <3>2
  <2> QED
    BY <1>6, <1>7, <2>1, Zenon DEF Kept, Moves
<1>9. Traded(Store, t, Asset(a1), Asset(a2), n, n, m, who, who, Address(id))
  <2> SUFFICES ASSUME NEW z \in AllTokens, NEW u \in Accounts
               PROVE  Balance(t, z, u) = Balance(Store, z, u)
                        + At(z, u, Asset(a1), who, -n) + At(z, u, Asset(a2), Address(id), -m)
                        + At(z, u, Asset(a1), Address(id), n) + At(z, u, Asset(a2), who, m)
    BY Zenon DEF Traded
  <2>1. Balance(paid, z, u) = Balance(Store, z, u)
          + At(z, u, Asset(a1), who, -c) + At(z, u, Asset(a2), Address(id), -m)
          + At(z, u, Asset(a1), Address(id), n) + At(z, u, Asset(a2), who, m)
    BY <1>4, <1>7, Zenon DEF Traded
  <2>2. Balance(t, z, u) = Balance(paid, z, u) + At(z, u, Asset(a1), who, change)
    BY <1>3, <1>5, Zenon DEF Changed, Plus, At
  <2>3. Balance(Store, z, u) \in Int
    BY <1>7, BalanceNatural
  <2>4. /\ At(z, u, Asset(a1), who, -c) \in Int /\ At(z, u, Asset(a2), Address(id), -m) \in Int
        /\ At(z, u, Asset(a1), Address(id), n) \in Int /\ At(z, u, Asset(a2), who, m) \in Int
        /\ At(z, u, Asset(a1), who, change) \in Int
    <3>1. -c \in Int /\ -m \in Int /\ n \in Int /\ m \in Int /\ change \in Int
      OBVIOUS
    <3> QED
      BY <3>1, AtInteger
  <2>5. At(z, u, Asset(a1), who, -n) = At(z, u, Asset(a1), who, -c) + At(z, u, Asset(a1), who, change)
    BY DEF At
  <2> QED
    BY <2>1, <2>2, <2>3, <2>4, <2>5
<1> QED
  BY <1>8, <1>9, TradeCommitted

\* What a swap call that succeeds has done: one trade, with the pool that executes
\* the call and at the price of the pool that prices it, and a record of it.
PricedBy(call, a1, a2, n, m) ==
  IF call \in {"exact in", "exact credit in"}
  THEN m = GetAmountOut(n, Reserve(a1, a2, a1), Reserve(a1, a2, a2))
  ELSE n = GetAmountIn(m, Reserve(a2, a1, a1), Reserve(a2, a1, a2))
ExecutedBy(call, a1, a2) ==
  IF call \in {"exact in", "exact credit out"} THEN PoolId(a1, a2) ELSE PoolId(a2, a1)
SwapCalls == {"exact in", "exact out", "exact credit in", "exact credit out"}
SwapDone(call, path, n, m, out, from, to) ==
  /\ call \in SwapCalls /\ n \in Nat /\ m \in Nat /\ from \in Users /\ to \in Users
  /\ PoolId(path[1], path[2]) # NoPool
  /\ Sides(path[1], path[2], ExecutedBy(call, path[1], path[2]))
  /\ Trade(path[1], path[2], n, m, from, to, ExecutedBy(call, path[1], path[2]))
  /\ PricedBy(call, path[1], path[2], n, m)
  /\ Len(path) = 2 => m = out
  /\ last' = [call |-> call, path |-> path, from |-> from, to |-> to,
              in |-> n, hop |-> m, out |-> out]

\* The pools of the first hop, in either order.
LEMMA FirstHop ==
  ASSUME Typed, NEW path \in Seq(Assets), ValidateSwapPath(path)
  PROVE  /\ PoolId(path[1], path[2]) # NoPool
         /\ Sides(path[1], path[2], PoolId(path[1], path[2]))
         /\ Sides(path[1], path[2], PoolId(path[2], path[1]))
         /\ \A x \in {path[1], path[2]} : /\ Reserve(path[1], path[2], x) \in Nat
                                          /\ Reserve(path[2], path[1], x) \in Nat
<1>1. /\ path[1] \in Assets /\ path[2] \in Assets
      /\ PoolId(path[1], path[2]) # NoPool /\ PoolId(path[2], path[1]) # NoPool
  <2>1. Len(path) \in Nat /\ Len(path) >= 2
    BY Hops
  <2>2. 1 \in 1..Len(path) /\ 2 \in 1..Len(path) /\ 1 \in 1..(Len(path) - 1) /\ 1 + 1 = 2
    BY <2>1
  <2> QED
    BY <2>2, Hops
<1>2. /\ Sides(path[1], path[2], PoolId(path[1], path[2]))
      /\ Sides(path[1], path[2], PoolId(path[2], path[1]))
  BY <1>1, PoolOfPair, Zenon DEF Typed, Sides
<1> QED
  BY <1>1, <1>2, ReserveNatural

\* The amounts of a call that says what goes in.
LEMMA PricedIn ==
  ASSUME Typed, NEW path \in Seq(Assets), ValidateSwapPath(path), NEW amount \in Nat,
         NEW amounts, amounts = BalancePathFromAmountIn(amount, path), amounts[Len(path)] # Err
  PROVE  /\ amounts[1] = amount /\ Head(amounts) = amount /\ amounts[2] \in Nat
         /\ amounts[2] = GetAmountOut(amount, Reserve(path[1], path[2], path[1]),
                                      Reserve(path[1], path[2], path[2]))
<1>1. /\ amounts[1] = amount /\ amounts[2] # Err
      /\ amounts[2] = GetAmountOut(amount, Reserve(path[1], path[2], path[1]),
                                   Reserve(path[1], path[2], path[2]))
  BY PathIn
<1>2. Reserve(path[1], path[2], path[1]) \in Nat /\ Reserve(path[1], path[2], path[2]) \in Nat
  BY FirstHop
<1>3. amounts[2] \in Nat
  BY <1>1, <1>2, GetAmountOutKeepsProduct
<1>4. Head(amounts) = amounts[1]
  BY DEF Head
<1> QED
  BY <1>1, <1>3, <1>4

\* The amounts of a call that says what comes out.
LEMMA PricedOut ==
  ASSUME Typed, NEW path \in Seq(Assets), ValidateSwapPath(path), NEW amount \in Nat,
         NEW amounts, amounts = BalancePathFromAmountOut(amount, path), amounts[1] # Err
  PROVE  /\ amounts[1] \in Nat /\ amounts[2] \in Nat /\ amounts[Len(path)] = amount
         /\ amounts[1] = GetAmountIn(amounts[2], Reserve(path[2], path[1], path[1]),
                                     Reserve(path[2], path[1], path[2]))
<1>1. /\ amounts[2] \in Nat /\ amounts[Len(path)] = amount
      /\ amounts[1] = GetAmountIn(amounts[2], Reserve(path[2], path[1], path[1]),
                                  Reserve(path[2], path[1], path[2]))
  BY PathOut
<1>2. Reserve(path[2], path[1], path[1]) \in Nat /\ Reserve(path[2], path[1], path[2]) \in Nat
  BY FirstHop
<1>3. amounts[1] \in Nat
  BY <1>1, <1>2, GetAmountInKeepsProduct
<1> QED
  BY <1>1, <1>3

\* do_swap_exact_tokens_for_tokens
LEMMA ExactIn ==
  ASSUME FundInv, NEW sender \in Users, NEW path \in Seq(Assets), NEW amountIn \in Nat,
         NEW outMin, NEW sendTo \in Users, NEW keepAlive,
         SwapExactTokensForTokens(sender, path, amountIn, outMin, sendTo, keepAlive)
  PROVE  /\ Sums' /\ UNCHANGED <<locator, seed, pools, nextLp, dropped>>
         /\ \E m, out : SwapDone("exact in", path, amountIn, m, out, sender, sendTo)
<1>1. PICK amounts, id : amounts = BalancePathFromAmountIn(amountIn, path) /\ id = PoolId(path[1], path[2])
  OBVIOUS
<1>2. PICK preserve, taken, left, swapped, t :
        /\ taken = Withdraw(Store, Asset(path[1]), sender, amounts[1], keepAlive)
        /\ left = Withdraw(taken, Asset(path[2]), Address(id), amounts[2], preserve)
        /\ swapped = Resolve(left, Asset(path[1]), Address(id), amounts[1])
        /\ t = Resolve(swapped, Asset(path[2]), sendTo, amounts[2])
        /\ Commit(t)
  BY <1>1, Zenon DEF SwapExactTokensForTokens, Swap, CreditSwap
<1>3. ValidateSwapPath(path) /\ amounts[Len(path)] # Err /\ Typed
  BY <1>1, Zenon DEF SwapExactTokensForTokens, FundInv
<1>4. /\ UNCHANGED <<locator, seed, pools, nextLp, dropped>>
      /\ last' = [call |-> "exact in", path |-> path, from |-> sender, to |-> sendTo,
                  in |-> Head(amounts), hop |-> amounts[2], out |-> amounts[Len(path)]]
  BY <1>1, Zenon DEF SwapExactTokensForTokens, Executed
<1>5. PoolId(path[1], path[2]) # NoPool /\ Sides(path[1], path[2], id)
  BY <1>1, <1>3, FirstHop
<1>6. /\ amounts[1] = amountIn /\ Head(amounts) = amountIn /\ amounts[2] \in Nat
      /\ amounts[2] = GetAmountOut(amountIn, Reserve(path[1], path[2], path[1]),
                                   Reserve(path[1], path[2], path[2]))
  BY <1>1, <1>3, PricedIn
<1>7. Sums' /\ Trade(path[1], path[2], amountIn, amounts[2], sender, sendTo, id)
  BY <1>2, <1>4, <1>5, <1>6, SwapTrades, Zenon
<1>8. SwapDone("exact in", path, amountIn, amounts[2], amounts[Len(path)], sender, sendTo)
  BY <1>1, <1>4, <1>5, <1>6, <1>7, Zenon DEF SwapDone, SwapCalls, PricedBy, ExecutedBy
<1> QED
  BY <1>4, <1>7, <1>8, Zenon

\* do_swap_tokens_for_exact_tokens
LEMMA ExactOut ==
  ASSUME FundInv, NEW sender \in Users, NEW path \in Seq(Assets), NEW amountOut \in Nat,
         NEW inMax, NEW sendTo \in Users, NEW keepAlive,
         SwapTokensForExactTokens(sender, path, amountOut, inMax, sendTo, keepAlive)
  PROVE  /\ Sums' /\ UNCHANGED <<locator, seed, pools, nextLp, dropped>>
         /\ \E n, m : SwapDone("exact out", path, n, m, amountOut, sender, sendTo)
<1>1. PICK amounts, id : /\ amounts = BalancePathFromAmountOut(amountOut, path)
                         /\ id = PoolId(path[2], path[1]) /\ Head(amounts) = amounts[1]
  BY DEF Head
<1>2. PICK preserve, taken, left, swapped, t :
        /\ taken = Withdraw(Store, Asset(path[1]), sender, amounts[1], keepAlive)
        /\ left = Withdraw(taken, Asset(path[2]), Address(id), amounts[2], preserve)
        /\ swapped = Resolve(left, Asset(path[1]), Address(id), amounts[1])
        /\ t = Resolve(swapped, Asset(path[2]), sendTo, amounts[2])
        /\ Commit(t)
  BY <1>1, Zenon DEF SwapTokensForExactTokens, Swap, CreditSwap
<1>3. ValidateSwapPath(path) /\ amounts[1] # Err /\ Typed
  BY <1>1, Zenon DEF SwapTokensForExactTokens, FundInv
<1>4. /\ UNCHANGED <<locator, seed, pools, nextLp, dropped>>
      /\ last' = [call |-> "exact out", path |-> path, from |-> sender, to |-> sendTo,
                  in |-> amounts[1], hop |-> amounts[2], out |-> amounts[Len(path)]]
  BY <1>1, Zenon DEF SwapTokensForExactTokens, Executed
<1>5. PoolId(path[1], path[2]) # NoPool /\ Sides(path[1], path[2], id)
  BY <1>1, <1>3, FirstHop
<1>6. /\ amounts[1] \in Nat /\ amounts[2] \in Nat /\ amounts[Len(path)] = amountOut
      /\ amounts[1] = GetAmountIn(amounts[2], Reserve(path[2], path[1], path[1]),
                                  Reserve(path[2], path[1], path[2]))
  BY <1>1, <1>3, PricedOut
<1>7. Sums' /\ Trade(path[1], path[2], amounts[1], amounts[2], sender, sendTo, id)
  BY <1>2, <1>4, <1>5, <1>6, SwapTrades, Zenon
<1>8. SwapDone("exact out", path, amounts[1], amounts[2], amountOut, sender, sendTo)
  BY <1>1, <1>4, <1>5, <1>6, <1>7, Zenon DEF SwapDone, SwapCalls, PricedBy, ExecutedBy
<1> QED
  BY <1>4, <1>7, <1>8, Zenon

\* SwapCredit::swap_exact_tokens_for_tokens
LEMMA ExactCreditIn ==
  ASSUME FundInv, NEW who \in Users, NEW path \in Seq(Assets), NEW credit \in Nat, NEW outMin,
         SwapExactCreditForTokens(who, path, credit, outMin)
  PROVE  /\ Sums' /\ UNCHANGED <<locator, seed, pools, nextLp, dropped>>
         /\ \E m, out : SwapDone("exact credit in", path, credit, m, out, who, who)
<1>1. PICK amounts, id : amounts = BalancePathFromAmountIn(credit, path) /\ id = PoolId(path[2], path[1])
  OBVIOUS
<1>2. PICK keepAlive, preserve, taken, left, swapped, t :
        /\ taken = Withdraw(Store, Asset(path[1]), who, credit, keepAlive)
        /\ left = Withdraw(taken, Asset(path[2]), Address(id), amounts[2], preserve)
        /\ swapped = Resolve(left, Asset(path[1]), Address(id), amounts[1])
        /\ t = Resolve(swapped, Asset(path[2]), who, amounts[2])
        /\ Commit(t)
  BY <1>1, Zenon DEF SwapExactCreditForTokens, CreditSwap
<1>3. ValidateSwapPath(path) /\ amounts[Len(path)] # Err /\ Typed
  BY <1>1, Zenon DEF SwapExactCreditForTokens, FundInv
<1>4. /\ UNCHANGED <<locator, seed, pools, nextLp, dropped>>
      /\ last' = [call |-> "exact credit in", path |-> path, from |-> who, to |-> who,
                  in |-> Head(amounts), hop |-> amounts[2], out |-> amounts[Len(path)]]
  BY <1>1, Zenon DEF SwapExactCreditForTokens, Executed
<1>5. PoolId(path[1], path[2]) # NoPool /\ Sides(path[1], path[2], id)
  BY <1>1, <1>3, FirstHop
<1>6. /\ amounts[1] = credit /\ Head(amounts) = credit /\ amounts[2] \in Nat
      /\ amounts[2] = GetAmountOut(credit, Reserve(path[1], path[2], path[1]),
                                   Reserve(path[1], path[2], path[2]))
  BY <1>1, <1>3, PricedIn
<1>7. Sums' /\ Trade(path[1], path[2], credit, amounts[2], who, who, id)
  BY <1>2, <1>4, <1>5, <1>6, SwapTrades, Zenon
<1>8. SwapDone("exact credit in", path, credit, amounts[2], amounts[Len(path)], who, who)
  BY <1>1, <1>4, <1>5, <1>6, <1>7, Zenon DEF SwapDone, SwapCalls, PricedBy, ExecutedBy
<1> QED
  BY <1>4, <1>7, <1>8, Zenon

\* SwapCredit::swap_tokens_for_exact_tokens.  What is not given back is recorded as
\* dropped.
LEMMA DropKeepsSums ==
  ASSUME FundInv, NEW a \in Assets, NEW who \in Users, NEW c \in Nat, NEW n \in Nat,
         NEW change \in Nat, change = c - n, NEW keepAlive,
         NEW taken, taken = Withdraw(Store, Asset(a), who, c, keepAlive),
         NEW t, t = Resolve(taken, Asset(a), who, n), Commit(t),
         dropped' = [dropped EXCEPT ![a] = @ + change]
  PROVE  Sums'
<1>1. Asset(a) \in AllTokens /\ who \in Accounts
  BY AccountSets DEF AllTokens
<1>2. Good(Store) /\ t.ok /\ Typed
  BY DEF FundInv, Typed, Commit
<1>3. IsStore(Store)
  BY <1>2 DEF Good
<1>4. PICK k \in Int : k = -c
  OBVIOUS
<1>5. Changed(Store, taken, Asset(a), who, k)
  BY <1>1, <1>3, <1>4, WithdrawEffect
<1>6. Moves(Store, taken, Asset(a), k) /\ Good(taken)
  BY <1>1, <1>2, <1>5, ChangedMoves
<1>7. Changed(taken, t, Asset(a), who, n)
  <2>1. IsStore(taken)
    BY <1>6 DEF Good
  <2> QED
    BY <1>1, <2>1, ResolveEffect
<1>8. Moves(taken, t, Asset(a), n) /\ Good(t)
  BY <1>1, <1>6, <1>7, ChangedMoves
<1>9. taken.ok
  BY <1>2, <1>8 DEF Moves
<1>10. /\ Good(Store)'
       /\ \A x \in Assets : Worth(Store, x)' = Worth(t, x)
  BY <1>8, Committed
<1>11. dropped \in [Assets -> Nat]
  BY DEF FundInv
<1>12. dropped' \in [Assets -> Nat]
  BY <1>11
<1>13. ASSUME NEW x \in Assets
       PROVE  (Worth(Store, x) + dropped[x])' = Endowment * Cardinality(Users)
  <2>1. Worth(Store, x) + dropped[x] = Endowment * Cardinality(Users)
    BY DEF FundInv
  <2>2. PICK w \in Nat, d \in Nat, X \in BOOLEAN :
          w = Worth(Store, x) /\ d = dropped[x] /\ (X <=> x = a)
    <3>1. SoundDeposits(Store.deposits)
      BY <1>2 DEF Good, Store
    <3>2. Worth(Store, x) \in Nat
      BY <1>3, <3>1, WorthNatural
    <3> QED
      BY <1>11, <3>2, Zenon
  <2>3. Asset(x) = Asset(a) <=> x = a
    BY DEF Asset
  <2>4. Worth(taken, x) = w + IF X THEN k ELSE 0
    BY <1>6, <1>9, <2>2, <2>3 DEF Moves
  <2>5. Worth(t, x) = (w + IF X THEN k ELSE 0) + IF X THEN n ELSE 0
    BY <1>2, <1>8, <2>2, <2>3, <2>4 DEF Moves
  <2>6. dropped'[x] = d + IF X THEN change ELSE 0
    BY <1>11, <2>2
  <2>7. Worth(t, x) + dropped'[x] = w + d
    BY <1>4, <2>5, <2>6
  <2> QED
    BY <1>10, <2>1, <2>2, <2>7
<1> QED
  BY <1>10, <1>12, <1>13 DEF Sums

\* The balances that a call does not change.
LEMMA PlusElsewhere ==
  ASSUME NEW s, IsStore(s), NEW t, NEW token, NEW who, NEW n, Plus(s, t, token, who, n),
         NEW x \in AllTokens, NEW y \in Accounts, x # token \/ y # who
  PROVE  Balance(t, x, y) = Balance(s, x, y)
<1>1. Balance(s, x, y) \in Nat
  BY BalanceNatural
<1> QED
  BY <1>1 DEF Plus

\* Where the pool that prices a call also pays for it, it can pay, and what it is
\* paid comes to an account that exists: credit_swap succeeds.
LEMMA CreditSwapSucceeds ==
  ASSUME Typed, NEW a1, NEW a2, NEW id, Sides(a1, a2, id), NEW n \in Nat, NEW m \in Nat,
         NEW r1, NEW r2, r1 = bal[a1][Address(id)], r2 = bal[a2][Address(id)],
         n = GetAmountIn(m, r1, r2),
         NEW c \in Nat, NEW who \in Users, NEW keepAlive,
         NEW taken, taken = Withdraw(Store, Asset(a1), who, c, keepAlive), taken.ok,
         NEW preserve \in BOOLEAN,
         NEW left, left = Withdraw(taken, Asset(a2), Address(id), m, preserve),
         NEW swapped, swapped = Resolve(left, Asset(a1), Address(id), n)
  PROVE  swapped.ok
<1>1. Asset(a1) \in AllTokens /\ Asset(a2) \in AllTokens
  BY DEF AllTokens, Sides
<1>2. who \in Accounts /\ Address(id) \in Accounts /\ who # Address(id)
  BY AccountSets, Zenon DEF Typed, Sides, Address
<1>3. IsStore(Store)
  BY DEF Typed, Good
<1>4. PICK x \in Int, y \in Int : x = -c /\ y = -m
  OBVIOUS
<1>5. IsStore(taken) /\ Plus(Store, taken, Asset(a1), who, x)
  <2>1. Changed(Store, taken, Asset(a1), who, x)
    BY <1>1, <1>2, <1>3, <1>4, WithdrawEffect
  <2> QED
    BY <2>1 DEF Changed
<1>6. /\ Balance(taken, Asset(a1), Address(id)) = Balance(Store, Asset(a1), Address(id))
      /\ Balance(taken, Asset(a2), Address(id)) = Balance(Store, Asset(a2), Address(id))
  BY <1>1, <1>2, <1>3, <1>5, PlusElsewhere
<1>7. /\ Balance(Store, Asset(a1), Address(id)) = r1
      /\ Balance(Store, Asset(a2), Address(id)) = r2
  BY Zenon DEF Balance, Asset, Store
<1>8. r1 \in Nat /\ r2 \in Nat
  BY <1>1, <1>2, <1>3, <1>7, BalanceNatural, Zenon
<1>9. r1 > 0 /\ m < r2
  BY <1>8, AmountInPayable, Zenon
<1>10. CanWithdraw(taken, Asset(a2), Address(id), m, preserve)
  <2>1. \A k : CanLeave(r2, 0, m, k)
    BY <1>8, <1>9, SomeStays, Zenon
  <2> QED
    BY <1>6, <1>7, <2>1, Zenon DEF CanWithdraw
<1>11. IsStore(left) /\ left.ok /\ Plus(taken, left, Asset(a2), Address(id), y)
  <2>1. Changed(taken, left, Asset(a2), Address(id), y)
    BY <1>1, <1>2, <1>4, <1>5, WithdrawEffect, Zenon
  <2>2. left.ok
    <3>1. left = [taken EXCEPT !["assets"][a2][Address(id)] = @ - m]
      BY <1>10, Zenon DEF Withdraw, Asset
    <3> QED
      BY <1>5, <3>1, Zenon DEF IsStore
  <2> QED
    BY <2>1, <2>2, Zenon DEF Changed
<1>12. Balance(left, Asset(a1), Address(id)) = r1
  <2>1. Asset(a1) # Asset(a2)
    BY DEF Asset, Sides
  <2>2. Balance(left, Asset(a1), Address(id)) = Balance(taken, Asset(a1), Address(id))
    <3>1. IsStore(taken) /\ Plus(taken, left, Asset(a2), Address(id), y)
      BY <1>5, <1>11, Zenon
    <3>2. Asset(a1) \in AllTokens /\ Address(id) \in Accounts
      BY <1>1, <1>2
    <3> QED
      BY <2>1, <3>1, <3>2, PlusElsewhere
  <2> QED
    BY <1>6, <1>7, <2>2, Zenon
<1>13. ~ShouldTouch(left, Asset(a1), Address(id))
  BY <1>9, <1>12, Zenon DEF ShouldTouch, Exists
<1>14. swapped = [left EXCEPT !["assets"][a1][Address(id)] = @ + n]
  BY <1>11, <1>13, Zenon DEF Resolve, Asset
<1> QED
  BY <1>11, <1>14 DEF IsStore

\* The call itself: a trade, or the change is dropped; not where both orders of a
\* pair are one pool.
LEMMA ExactCreditOut ==
  ASSUME FundInv, NEW who \in Users, NEW path \in Seq(Assets), NEW credit \in Nat,
         NEW amountOut \in Nat, SwapCreditForExactTokens(who, path, credit, amountOut)
  PROVE  /\ Sums' /\ UNCHANGED <<locator, seed, pools, nextLp>>
         /\ locator = "Chain" => dropped' = dropped
         /\ \/ last' = NoSwap
            \/ \E n, m : SwapDone("exact credit out", path, n, m, amountOut, who, who)
<1>1. PICK amounts, id, change : /\ amounts = BalancePathFromAmountOut(amountOut, path)
                                 /\ id = PoolId(path[1], path[2])
                                 /\ change = credit - amounts[1] /\ Head(amounts) = amounts[1]
  BY DEF Head
<1>0. PICK keepAlive, preserve : keepAlive = FALSE /\ preserve = TRUE
  BY Zenon
<1>2. PICK taken, left, swapped :
        /\ taken = Withdraw(Store, Asset(path[1]), who, credit, keepAlive)
        /\ left = Withdraw(taken, Asset(path[2]), Address(id), amounts[2], preserve)
        /\ swapped = Resolve(left, Asset(path[1]), Address(id), amounts[1])
  OBVIOUS
<1>3. ValidateSwapPath(path) /\ amounts[1] # Err /\ change >= 0 /\ Typed
  BY <1>1, Zenon DEF SwapCreditForExactTokens, FundInv
<1>4. /\ UNCHANGED <<locator, seed, pools, nextLp>> /\ taken.ok
      /\ IF swapped.ok
         THEN /\ Commit(Resolve(Resolve(swapped, Asset(path[2]), who, amounts[2]),
                                Asset(path[1]), who, change))
              /\ last' = [call |-> "exact credit out", path |-> path, from |-> who, to |-> who,
                          in |-> amounts[1], hop |-> amounts[2], out |-> amounts[Len(path)]]
              /\ UNCHANGED dropped
         ELSE /\ Commit(Resolve(taken, Asset(path[1]), who, amounts[1]))
              /\ dropped' = [dropped EXCEPT ![path[1]] = @ + change]
              /\ last' = NoSwap
  <2>1. swapped = CreditSwap(FALSE, taken, path, amounts)
    BY <1>0, <1>1, <1>2, Zenon DEF CreditSwap
  <2> QED
    BY <1>0, <1>1, <1>2, <2>1, Zenon DEF SwapCreditForExactTokens, Executed
<1>5. PoolId(path[1], path[2]) # NoPool /\ Sides(path[1], path[2], id)
  BY <1>1, <1>3, FirstHop
<1>6. /\ amounts[1] \in Nat /\ amounts[2] \in Nat /\ amounts[Len(path)] = amountOut
      /\ amounts[1] = GetAmountIn(amounts[2], Reserve(path[2], path[1], path[1]),
                                  Reserve(path[2], path[1], path[2]))
  BY <1>1, <1>3, PricedOut
<1>7. change \in Nat /\ change = credit - amounts[1] /\ path[1] \in Assets
  <2>1. amounts[1] \in Nat /\ path[1] \in Assets
    BY <1>5, <1>6 DEF Sides
  <2> QED
    BY <1>1, <1>3, <2>1
<1>8. CASE swapped.ok
  <2>1. PICK paid, t : /\ paid = Resolve(swapped, Asset(path[2]), who, amounts[2])
                       /\ t = Resolve(paid, Asset(path[1]), who, change)
                       /\ Commit(t)
    BY <1>4, <1>8, Zenon
  <2>2. /\ last' = [call |-> "exact credit out", path |-> path, from |-> who, to |-> who,
                    in |-> amounts[1], hop |-> amounts[2], out |-> amounts[Len(path)]]
        /\ dropped' = dropped
    BY <1>4, <1>8, Zenon
  <2>3. Sums' /\ Trade(path[1], path[2], amounts[1], amounts[2], who, who, id)
    BY <1>2, <1>5, <1>6, <1>7, <2>1, <2>2, CreditTrades, Zenon
  <2>4. SwapDone("exact credit out", path, amounts[1], amounts[2], amountOut, who, who)
    BY <1>1, <1>5, <1>6, <2>2, <2>3, Zenon DEF SwapDone, SwapCalls, PricedBy, ExecutedBy
  <2> QED
    BY <1>4, <2>2, <2>3, <2>4, Zenon
<1>9. CASE ~swapped.ok
  <2>1. PICK t : /\ t = Resolve(taken, Asset(path[1]), who, amounts[1]) /\ Commit(t)
                 /\ dropped' = [dropped EXCEPT ![path[1]] = @ + change] /\ last' = NoSwap
    BY <1>4, <1>9, Zenon
  <2>2. Sums'
    BY <1>2, <1>6, <1>7, <2>1, DropKeepsSums, Zenon
  <2>3. locator # "Chain"
    <3> SUFFICES ASSUME locator = "Chain" PROVE FALSE
      OBVIOUS
    <3>1. PoolId(path[2], path[1]) = id
      <4>1. locator \in LocatorNames /\ path[1] \in Assets /\ path[2] \in Assets
        BY <1>3, <1>5, Zenon DEF Sides, Typed
      <4> QED
        BY <1>1, <1>5, <4>1, OtherOrder
    <3>2. amounts[1] = GetAmountIn(amounts[2], bal[path[1]][Address(id)], bal[path[2]][Address(id)])
      BY <1>6, <3>1, Zenon DEF Reserve
    <3>3. preserve \in BOOLEAN /\ taken.ok
      BY <1>0, <1>4, Zenon
    <3> QED
      BY <1>2, <1>3, <1>5, <1>6, <1>9, <3>2, <3>3, CreditSwapSucceeds, Zenon
  <2> QED
    BY <1>4, <2>1, <2>2, <2>3, Zenon
<1> QED
  BY <1>8, <1>9, Zenon

(***************************************************************************)
(* Every step.                                                             *)
(***************************************************************************)
\* The users have all there is at the start.
LEMMA FundInit == Init => FundInv
<1> SUFFICES ASSUME Init PROVE FundInv
  OBVIOUS
<1>1. IsStore(Store) /\ SoundDeposits(Store.deposits) /\ Cardinality(Store.deposits) = 0
  BY RegistryAssumption, FS_EmptySet DEF Init, Store, IsStore, SoundDeposits
<1>2. ASSUME NEW a \in Assets PROVE Worth(Store, a) + dropped[a] = Endowment * Cardinality(Users)
  <2> DEFINE f == [y \in Accounts |-> IF y \in Users THEN Endowment ELSE 0]
  <2>1. Total(Store, Asset(a)) = SumFunctionOnSet(f, Accounts)
    <3>1. [y \in Accounts |-> Balance(Store, Asset(a), y)] = f
      BY DEF Init, Store, Balance, Asset
    <3> QED
      BY <3>1 DEF Total
  <2>2. SumFunctionOnSet(f, Accounts) = Endowment * Cardinality(Users)
    <3>1. /\ IsFiniteSet(Accounts) /\ Endowment \in Int
          /\ \A y \in Accounts : f[y] = IF y \in Users THEN Endowment ELSE 0
      BY AccountSets, RegistryAssumption
    <3>2. Accounts \cap Users = Users
      BY AccountSets
    <3> HIDE DEF f
    <3>3. Cardinality(Users) \in Nat
      BY RegistryAssumption, FS_CardinalityType
    <3>4. SumFunctionOnSet(f, Accounts) = Cardinality(Accounts \cap Users) * Endowment
      BY <3>1, SumOfSome
    <3> QED
      BY <3>1, <3>2, <3>3, <3>4
  <2>3. AccountDeposit * Cardinality(Store.deposits) = 0
    BY <1>1, DepositAssumption
  <2>4. Endowment * Cardinality(Users) \in Nat
    BY RegistryAssumption, FS_CardinalityType
  <2>5. dropped[a] = 0
    BY DEF Init
  <2> HIDE DEF f
  <2> QED
    BY <2>1, <2>2, <2>3, <2>4, <2>5 DEF Worth
<1>3. Good(Store)
  BY <1>1 DEF Good
<1>4. Typed
  BY <1>3, RegistryAssumption DEF Typed, Init, LpTokens, Seeds
<1>5. dropped \in [Assets -> Nat]
  BY DEF Init
<1> QED
  BY <1>2, <1>4, <1>5 DEF FundInv

\* What a swap call keeps, and what it has done when it is one that was executed.
Done == \E call, path, n, m, out, from, to : SwapDone(call, path, n, m, out, from, to)

\* A swap call is rejected, returns its credit, or is one that SwapDone describes.
LEMMA SwapCallDone ==
  ASSUME FundInv, NEW who \in Users, SwapCall(who)
  PROVE  /\ Sums' /\ UNCHANGED <<locator, seed, pools, nextLp>>
         /\ locator = "Chain" => dropped' = dropped
         /\ last' = NoSwap \/ Done
<1>1. PICK path \in Paths, amount \in SwapAmounts :
        \/ \E limit \in Limits, sendTo \in Users, keepAlive \in BOOLEAN :
             \/ SwapExactTokensForTokens(who, path, amount, limit, sendTo, keepAlive)
             \/ SwapTokensForExactTokens(who, path, amount, limit, sendTo, keepAlive)
        \/ \E limit \in Limits : SwapExactCreditForTokens(who, path, amount, limit)
        \/ \E credit \in SwapAmounts : SwapCreditForExactTokens(who, path, credit, amount)
  BY Zenon DEF SwapCall
<1>2. path \in Seq(Assets) /\ amount \in Nat /\ \A credit \in SwapAmounts : credit \in Nat
  BY SwapAssumption
<1>3. ASSUME NEW limit, NEW sendTo \in Users, NEW keepAlive,
             SwapExactTokensForTokens(who, path, amount, limit, sendTo, keepAlive)
      PROVE  Sums' /\ UNCHANGED <<locator, seed, pools, nextLp, dropped>> /\ Done
  <2>1. /\ Sums' /\ UNCHANGED <<locator, seed, pools, nextLp, dropped>>
        /\ \E m, out : SwapDone("exact in", path, amount, m, out, who, sendTo)
    BY <1>2, <1>3, ExactIn, Zenon
  <2> QED
    BY <2>1, Zenon DEF Done
<1>4. ASSUME NEW limit, NEW sendTo \in Users, NEW keepAlive,
             SwapTokensForExactTokens(who, path, amount, limit, sendTo, keepAlive)
      PROVE  Sums' /\ UNCHANGED <<locator, seed, pools, nextLp, dropped>> /\ Done
  <2>1. /\ Sums' /\ UNCHANGED <<locator, seed, pools, nextLp, dropped>>
        /\ \E n, m : SwapDone("exact out", path, n, m, amount, who, sendTo)
    BY <1>2, <1>4, ExactOut, Zenon
  <2> QED
    BY <2>1, Zenon DEF Done
<1>5. ASSUME NEW limit, SwapExactCreditForTokens(who, path, amount, limit)
      PROVE  Sums' /\ UNCHANGED <<locator, seed, pools, nextLp, dropped>> /\ Done
  BY <1>2, <1>5, ExactCreditIn, Zenon DEF Done
<1>6. ASSUME NEW credit \in SwapAmounts, SwapCreditForExactTokens(who, path, credit, amount)
      PROVE  /\ Sums' /\ UNCHANGED <<locator, seed, pools, nextLp>>
             /\ locator = "Chain" => dropped' = dropped
             /\ last' = NoSwap \/ Done
  <2>1. credit \in Nat
    BY <1>2
  <2>2. /\ Sums' /\ UNCHANGED <<locator, seed, pools, nextLp>>
        /\ locator = "Chain" => dropped' = dropped
        /\ \/ last' = NoSwap
           \/ \E n, m : SwapDone("exact credit out", path, n, m, amount, who, who)
    BY <1>2, <1>6, <2>1, ExactCreditOut, Zenon
  <2> QED
    BY <2>2, Zenon DEF Done
<1> HIDE DEF Done
<1> QED
  BY <1>1, <1>3, <1>4, <1>5, <1>6

\* Every step keeps what there is of every asset, and the only steps that leave the
\* record of a swap are swaps.
LEMMA FundStep ==
  ASSUME FundInv, [Next]_vars
  PROVE  /\ FundInv'
         /\ locator' = locator /\ (locator = "Chain" => dropped' = dropped)
         /\ Swapped => Done
<1>1. ASSUME NEW who \in Users, RegistryCall(who)
      PROVE  FundInv' /\ UNCHANGED <<locator, dropped>> /\ last' = NoSwap
  <2>1. PICK pair \in Pairs :
          \/ CreatePool(who, pair[1], pair[2])
          \/ TouchPool(who, pair[1], pair[2])
          \/ \E offer \in Offers :
               AddLiquidity(who, pair[1], pair[2], offer[1], offer[2], who)
    BY <1>1 DEF RegistryCall
  <2>2. /\ pair[1] \in Assets /\ pair[2] \in Assets
        /\ \A offer \in Offers : offer[1] \in Nat /\ offer[2] \in Nat
    BY RegistryAssumption
  <2>3. CASE CreatePool(who, pair[1], pair[2])
    <3>1. FundInv'
      BY <2>2, <2>3, CreateFunds
    <3> QED
      BY <2>3, <3>1, Zenon DEF CreatePool
  <2>4. CASE TouchPool(who, pair[1], pair[2])
    <3>1. FundInv'
      BY <2>2, <2>4, TouchFunds
    <3> QED
      BY <2>4, <3>1 DEF TouchPool
  <2>5. ASSUME NEW offer \in Offers, AddLiquidity(who, pair[1], pair[2], offer[1], offer[2], who)
        PROVE  FundInv' /\ UNCHANGED <<locator, dropped>> /\ last' = NoSwap
    <3>1. FundInv'
      BY <2>2, <2>5, AddFunds
    <3> QED
      BY <2>5, <3>1, Zenon DEF AddLiquidity
  <2> QED
    BY <2>1, <2>3, <2>4, <2>5
<1>2. ASSUME NEW who \in Users, SwapCall(who)
      PROVE  /\ FundInv' /\ locator' = locator /\ (locator = "Chain" => dropped' = dropped)
             /\ last' = NoSwap \/ Done
  BY <1>2, SwapCallDone, SamePools
<1>3. CASE Upgrade
  <2>1. /\ UNCHANGED <<locator, pools, nextLp, bal, lp, deposits, dropped, calls>> /\ seed' \in Seeds
    BY <1>3 DEF Upgrade, Seeds
  <2>2. Store' = Store
    BY <2>1 DEF Store
  <2>3. FundInv'
    <3> HIDE DEF Store
    <3> QED
      BY <2>1, <2>2 DEF FundInv, Typed
  <2> QED
    BY <2>1, <2>3 DEF Swapped
<1>4. ASSUME NEW pair \in Pairs, MigrateToNewAccount(pair[1], pair[2])
      PROVE  FundInv' /\ UNCHANGED <<locator, dropped>> /\ last' = NoSwap
  <2>1. FundInv'
    BY <1>4, MigrateFunds
  <2> QED
    BY <1>4, <2>1 DEF MigrateToNewAccount
<1>5. CASE UNCHANGED vars
  <2>1. UNCHANGED <<locator, seed, pools, nextLp, dropped, calls>> /\ Store' = Store
    BY <1>5 DEF vars, Store
  <2>2. FundInv'
    <3> HIDE DEF Store
    <3> QED
      BY <2>1 DEF FundInv, Typed
  <2> QED
    BY <2>1, <2>2 DEF Swapped
<1> HIDE DEF Done
<1> QED
  BY <1>1, <1>2, <1>3, <1>4, <1>5 DEF Next, Swapped

\* What there is of every asset never changes.
LEMMA FundsHold == Spec => []FundInv
  BY FundInit, FundStep, PTL DEF Spec

\* No call makes or loses an asset, through any sequence of create_pool, touch,
\* add_liquidity, swaps, upgrades and migrations.
THEOREM PoolsConserveAssets == Spec => []Conserved
<1>1. FundInv => Conserved
  <2> SUFFICES ASSUME FundInv, NEW a \in Assets
               PROVE  SumFunction(bal[a]) + dropped[a]
                        + (IF a = Native THEN AccountDeposit * Cardinality(deposits) ELSE 0)
                        = Endowment * Cardinality(Users)
    BY DEF Conserved
  <2>1. IsStore(Store) /\ SoundDeposits(deposits)
    BY DEF FundInv, Typed, Good, Store
  <2>2. SumFunction(bal[a]) = Total(Store, Asset(a))
    <3>1. bal[a] \in [Accounts -> Nat]
      BY <2>1 DEF IsStore, Store
    <3>2. [y \in Accounts |-> Balance(Store, Asset(a), y)] = bal[a]
      BY <3>1, Zenon DEF Store, Balance, Asset
    <3> QED
      BY <3>1, <3>2, Zenon DEF Total, SumFunction
  <2>3. Total(Store, Asset(a)) \in Int /\ dropped[a] \in Int
    <3>1. \A y \in Accounts : [v \in Accounts |-> Balance(Store, Asset(a), v)][y] \in Nat
      BY <2>1, BalanceNatural DEF AllTokens
    <3> QED
      BY <3>1, AccountSets, SumIsNatural DEF Total, FundInv
  <2>4. AccountDeposit * Cardinality(deposits) \in Int
    BY <2>1, DepositAssumption, FS_CardinalityType DEF SoundDeposits
  <2>5. Worth(Store, a) = Total(Store, Asset(a))
                            + IF a = Native THEN AccountDeposit * Cardinality(deposits) ELSE 0
    BY DEF Worth, Store
  <2>6. Worth(Store, a) + dropped[a] = Endowment * Cardinality(Users)
    BY DEF FundInv
  <2>7. (IF a = Native THEN AccountDeposit * Cardinality(deposits) ELSE 0) \in Int
    BY <2>4
  <2>8. SumFunction(bal[a]) + (IF a = Native THEN AccountDeposit * Cardinality(deposits) ELSE 0)
          + dropped[a] = Endowment * Cardinality(Users)
    BY <2>2, <2>5, <2>6, Zenon
  <2>9. SumFunction(bal[a]) \in Int
    BY <2>2, <2>3, Zenon
  <2> QED
    BY <2>3, <2>7, <2>8, <2>9
<1> QED
  BY <1>1, FundsHold, PTL

\* Where both orders of a pair are one pool no SwapCredit call loses the change of
\* its credit: the pool that prices the call can pay for it.
THEOREM CreditsAreReturned == Spec => []NoCreditDropped
<1>1. Init => NoCreditDropped
  BY DEF Init, NoCreditDropped
<1>2. FundInv /\ NoCreditDropped /\ [Next]_vars => NoCreditDropped'
  BY FundStep DEF NoCreditDropped
<1> QED
  BY <1>1, <1>2, FundsHold, PTL DEF Spec

\* A swap takes from its sender what it prices and gives the receiver what the
\* first hop returns, and touches no other balance of a user: the four calls, on
\* paths of any length, with any limits and keep_alive.
LEMMA FirstHopDelivers ==
  ASSUME FundInv, [Next]_vars, Swapped
  PROVE  /\ Len(last'.path) = 2 => last'.hop = last'.out
         /\ \A a \in Assets, u \in Users :
              bal'[a][u] - bal[a][u] = Change(a, u, last'.path[2], last'.hop)
<1>1. PICK call, path, n, m, out, from, to : SwapDone(call, path, n, m, out, from, to)
  BY FundStep, Zenon DEF Done
<1>2. /\ last'.path = path /\ last'.from = from /\ last'.to = to /\ last'.in = n
      /\ last'.hop = m /\ last'.out = out
  BY <1>1 DEF SwapDone
<1>3. PICK id : id = ExecutedBy(call, path[1], path[2])
  OBVIOUS
<1>4. /\ n \in Nat /\ m \in Nat /\ from \in Users /\ to \in Users
      /\ path[1] # path[2] /\ id \in PoolIds /\ (Len(path) = 2 => m = out)
      /\ Trade(path[1], path[2], n, m, from, to, id)
  BY <1>1, <1>3 DEF SwapDone, Sides
<1>5. ASSUME NEW a \in Assets, NEW u \in Users
      PROVE  bal'[a][u] - bal[a][u] = (IF a = path[2] /\ u = to THEN m ELSE 0)
                                        - (IF a = path[1] /\ u = from THEN n ELSE 0)
  <2>1. u \in Accounts /\ u # Address(id)
    BY <1>4, AccountSets DEF FundInv, Typed, Address
  <2>2. bal[a][u] \in Nat
    BY <2>1, Zenon DEF FundInv, Typed, Good, IsStore, Store
  <2>3. /\ At(a, u, path[2], Address(id), -m) = 0 /\ At(a, u, path[1], Address(id), n) = 0
        /\ At(a, u, path[1], from, -n) = -(IF a = path[1] /\ u = from THEN n ELSE 0)
        /\ At(a, u, path[2], to, m) = IF a = path[2] /\ u = to THEN m ELSE 0
    BY <1>4, <2>1 DEF At
  <2>4. bal'[a][u] = bal[a][u] + At(a, u, path[1], from, -n) + At(a, u, path[2], Address(id), -m)
                       + At(a, u, path[1], Address(id), n) + At(a, u, path[2], to, m)
    BY <1>4, <2>1, Zenon DEF Trade
  <2>5. PICK p \in Int, q \in Int : /\ p = IF a = path[1] /\ u = from THEN n ELSE 0
                                    /\ q = IF a = path[2] /\ u = to THEN m ELSE 0
    BY <1>4
  <2>6. bal'[a][u] = bal[a][u] + -p + 0 + 0 + q
    BY <2>3, <2>4, <2>5, Zenon
  <2>7. bal[a][u] \in Int
    BY <2>2
  <2>8. p \in Int /\ q \in Int
    BY Zenon
  <2>9. bal'[a][u] - bal[a][u] = q - p
    BY <2>6, <2>7, <2>8
  <2> QED
    BY <2>5, <2>9, Zenon
<1>6. ASSUME NEW a \in Assets, NEW u \in Users
      PROVE  Change(a, u, last'.path[2], last'.hop)
               = (IF a = path[2] /\ u = to THEN m ELSE 0)
                   - (IF a = path[1] /\ u = from THEN n ELSE 0)
  BY <1>2, Zenon DEF Change
<1>7. ASSUME NEW a \in Assets, NEW u \in Users
      PROVE  bal'[a][u] - bal[a][u] = Change(a, u, last'.path[2], last'.hop)
  BY <1>5, <1>6, Zenon
<1> QED
  BY <1>2, <1>4, <1>7, Zenon

\* A swap between two assets delivers what it returns: the four calls, with any
\* locator, amount, limit and keep_alive.
THEOREM SwapsDeliver == Spec => SwapDelivers
<1>1. FundInv /\ [Next]_vars =>
        (Swapped /\ Len(last'.path) = 2 =>
           \A a \in Assets, u \in Users :
             bal'[a][u] - bal[a][u] = Change(a, u, last'.path[2], last'.out))
  BY FirstHopDelivers, Zenon
<1> QED
  BY <1>1, FundsHold, PTL DEF Spec, SwapDelivers

\* The reserves of the pool that executes a trade, and the accounts of other pools.
Rebalanced(a1, a2, n, m, id) ==
  /\ bal'[a1][Address(id)] = bal[a1][Address(id)] + n
  /\ bal'[a2][Address(id)] = bal[a2][Address(id)] - m
  /\ \A i \in PoolIds, a \in Assets :
       /\ bal[a][Address(i)] \in Nat
       /\ i # id => bal'[a][Address(i)] = bal[a][Address(i)]

\* What a trade does to them.
LEMMA TradeReserves ==
  ASSUME FundInv, NEW a1, NEW a2, NEW n \in Nat, NEW m \in Nat, NEW from \in Users, NEW to \in Users,
         NEW id, Sides(a1, a2, id), Trade(a1, a2, n, m, from, to, id)
  PROVE  Rebalanced(a1, a2, n, m, id)
<1>1. /\ a1 \in Assets /\ a2 \in Assets /\ a1 # a2 /\ id \in PoolIds
      /\ \A i \in PoolIds : /\ Address(i) \in Accounts /\ Address(i) # from /\ Address(i) # to
                            /\ i # id => Address(i) # Address(id)
  BY AccountSets, Zenon DEF FundInv, Typed, Sides, Address, AccountId
<1>2. \A i \in PoolIds, a \in Assets : bal[a][Address(i)] \in Nat
  BY <1>1, Zenon DEF FundInv, Typed, Good, IsStore, Store
<1>3. ASSUME NEW i \in PoolIds, NEW a \in Assets
      PROVE  bal'[a][Address(i)] = bal[a][Address(i)] + At(a, Address(i), a2, Address(id), -m)
                                     + At(a, Address(i), a1, Address(id), n)
  <2>1. At(a, Address(i), a1, from, -n) = 0 /\ At(a, Address(i), a2, to, m) = 0
    BY <1>1 DEF At
  <2>2. bal'[a][Address(i)] = bal[a][Address(i)] + 0 + At(a, Address(i), a2, Address(id), -m)
                                + At(a, Address(i), a1, Address(id), n) + 0
    BY <1>1, <2>1, Zenon DEF Trade
  <2>3. PICK p \in Int, q \in Int : /\ p = At(a, Address(i), a2, Address(id), -m)
                                    /\ q = At(a, Address(i), a1, Address(id), n)
    BY DEF At
  <2>4. bal'[a][Address(i)] = bal[a][Address(i)] + 0 + p + q + 0
    BY <2>2, <2>3, Zenon
  <2>5. bal[a][Address(i)] + 0 + p + q + 0 = bal[a][Address(i)] + p + q
    BY <1>2, NothingAround, Zenon
  <2> QED
    BY <2>3, <2>4, <2>5, Zenon
<1>4. /\ bal'[a1][Address(id)] = bal[a1][Address(id)] + n
      /\ bal'[a2][Address(id)] = bal[a2][Address(id)] - m
  <2>1. /\ At(a1, Address(id), a2, Address(id), -m) = 0 /\ At(a1, Address(id), a1, Address(id), n) = n
        /\ At(a2, Address(id), a2, Address(id), -m) = -m /\ At(a2, Address(id), a1, Address(id), n) = 0
    BY <1>1 DEF At
  <2>2. bal[a1][Address(id)] \in Nat /\ bal[a2][Address(id)] \in Nat
    BY <1>1, <1>2, Zenon
  <2> QED
    <3>1. /\ bal'[a1][Address(id)] = bal[a1][Address(id)] + 0 + n
          /\ bal'[a2][Address(id)] = bal[a2][Address(id)] + -m + 0
      BY <1>1, <1>3, <2>1, Zenon
    <3> QED
      BY <2>2, <3>1, NothingBeforeOne, NothingAfterOne, Zenon
<1>5. ASSUME NEW i \in PoolIds, NEW a \in Assets, i # id
      PROVE  bal'[a][Address(i)] = bal[a][Address(i)]
  <2>1. At(a, Address(i), a2, Address(id), -m) = 0 /\ At(a, Address(i), a1, Address(id), n) = 0
    BY <1>1, <1>5 DEF At
  <2>2. bal'[a][Address(i)] = bal[a][Address(i)] + 0 + 0
    BY <1>3, <2>1, Zenon
  <2>3. bal[a][Address(i)] + 0 + 0 = bal[a][Address(i)]
    BY <1>2, NothingTwice, Zenon
  <2> QED
    BY <2>2, <2>3, Zenon
<1> QED
  BY <1>2, <1>4, <1>5, Zenon DEF Rebalanced

\* A trade at the price of get_amount_out or of get_amount_in keeps the product.
LEMMA PricedProduct ==
  ASSUME NEW n \in Nat, NEW m \in Nat, NEW r1 \in Nat, NEW r2 \in Nat,
         m = GetAmountOut(n, r1, r2) \/ n = GetAmountIn(m, r1, r2)
  PROVE  (r1 + n) * (r2 - m) >= r1 * r2 /\ (r2 - m) * (r1 + n) >= r2 * r1
<1>1. r1 * r2 <= (r1 + n) * (r2 - m)
  <2>1. CASE m = GetAmountOut(n, r1, r2)
    BY <2>1, GetAmountOutKeepsProduct DEF Err
  <2>2. CASE n = GetAmountIn(m, r1, r2)
    BY <2>2, GetAmountInKeepsProduct DEF Err
  <2> QED
    BY <2>1, <2>2
<1> QED
  BY <1>1

\* The calls of the Swap trait.
Direct == {"exact in", "exact out"}

\* A swap call whose pool has the reserves that priced it, or any where the order of
\* a pair does not matter.
LEMMA SwapProduct ==
  ASSUME FundInv, NEW call, NEW path, NEW n, NEW m, NEW out, NEW from, NEW to,
         SwapDone(call, path, n, m, out, from, to),
         locator = "Chain" \/ call \in Direct, NEW i \in PoolIds
  PROVE  Product(i, bal') >= Product(i, bal)
<1>1. PICK a1, a2, id : a1 = path[1] /\ a2 = path[2] /\ id = ExecutedBy(call, a1, a2)
  OBVIOUS
<1>2. /\ n \in Nat /\ m \in Nat /\ from \in Users /\ to \in Users /\ call \in SwapCalls
      /\ Sides(a1, a2, id) /\ Trade(a1, a2, n, m, from, to, id)
      /\ PoolId(a1, a2) # NoPool /\ PricedBy(call, a1, a2, n, m)
  BY <1>1, Zenon DEF SwapDone
<1>3. /\ bal'[a1][Address(id)] = bal[a1][Address(id)] + n
      /\ bal'[a2][Address(id)] = bal[a2][Address(id)] - m
      /\ \A j \in PoolIds, a \in Assets :
           /\ bal[a][Address(j)] \in Nat
           /\ j # id => bal'[a][Address(j)] = bal[a][Address(j)]
  <2>1. Rebalanced(a1, a2, n, m, id)
    BY <1>2, TradeReserves, Zenon
  <2> QED
    BY <2>1, Zenon DEF Rebalanced
<1>4. PICK r1 \in Nat, r2 \in Nat : r1 = bal[a1][Address(id)] /\ r2 = bal[a2][Address(id)]
  BY <1>2, <1>3, Zenon DEF Sides
<1>5. m = GetAmountOut(n, r1, r2) \/ n = GetAmountIn(m, r1, r2)
  <2>1. locator = "Chain" => PoolId(a2, a1) = PoolId(a1, a2)
    BY <1>2, OtherOrder, Zenon DEF FundInv, Typed, Sides
  <2>2. CASE call \in {"exact in", "exact credit in"}
    <3>1. PoolId(a1, a2) = id
      BY <1>1, <2>1, <2>2, Zenon DEF ExecutedBy, Direct
    <3> QED
      BY <1>2, <1>4, <2>2, <3>1, Zenon DEF PricedBy, Reserve
  <2>3. CASE call \in {"exact out", "exact credit out"}
    <3>1. PoolId(a2, a1) = id
      BY <1>1, <2>1, <2>3, Zenon DEF ExecutedBy, Direct
    <3> QED
      BY <1>2, <1>4, <2>3, <3>1, Zenon DEF PricedBy, Reserve
  <2> QED
    BY <1>2, <2>2, <2>3, Zenon DEF SwapCalls
<1>6. (r1 + n) * (r2 - m) >= r1 * r2 /\ (r2 - m) * (r1 + n) >= r2 * r1
  BY <1>2, <1>5, PricedProduct
<1>7. CASE i = id
  <2>1. CASE id = <<a1, a2>>
    <3>1. Product(i, bal) = r1 * r2 /\ Product(i, bal') = (r1 + n) * (r2 - m)
      BY <1>3, <1>4, <1>7, <2>1, Zenon DEF Product
    <3> QED
      BY <1>6, <3>1, Zenon
  <2>2. CASE id = <<a2, a1>>
    <3>1. Product(i, bal) = r2 * r1 /\ Product(i, bal') = (r2 - m) * (r1 + n)
      BY <1>3, <1>4, <1>7, <2>2, Zenon DEF Product
    <3> QED
      BY <1>6, <3>1, Zenon
  <2> QED
    BY <1>2, <2>1, <2>2, Zenon DEF Sides
<1>8. CASE i # id
  <2>1. PICK x \in Nat, y \in Nat : /\ x = bal[i[1]][Address(i)] /\ y = bal[i[2]][Address(i)]
                                    /\ bal'[i[1]][Address(i)] = x /\ bal'[i[2]][Address(i)] = y
    <3>1. i[1] \in Assets /\ i[2] \in Assets
      BY Zenon DEF PoolIds
    <3> QED
      BY <1>3, <1>8, <3>1, Zenon
  <2>2. Product(i, bal') = x * y /\ Product(i, bal) = x * y
    BY <2>1, Zenon DEF Product
  <2>3. x * y >= x * y
    OBVIOUS
  <2> QED
    BY <2>2, <2>3, Zenon
<1> QED
  BY <1>7, <1>8

\* No swap makes the product of the reserves of a pool smaller: the pool that
\* executes the call has the reserves that priced it, and no other pool is touched.
THEOREM SwapsKeepProducts == Spec => SwapKeepsProduct
<1> DEFINE A == Swapped /\ (locator = "Chain" \/ last'.call \in {"exact in", "exact out"}) =>
                  \A id \in PoolIds : Product(id, bal') >= Product(id, bal)
<1>1. FundInv /\ [Next]_vars => A
  <2> SUFFICES ASSUME FundInv, [Next]_vars, Swapped,
                      locator = "Chain" \/ last'.call \in {"exact in", "exact out"},
                      NEW id \in PoolIds
               PROVE  Product(id, bal') >= Product(id, bal)
    BY Zenon
  <2>1. PICK call, path, n, m, out, from, to : SwapDone(call, path, n, m, out, from, to)
    BY FundStep, Zenon DEF Done
  <2>2. last'.call = call
    BY <2>1, Zenon DEF SwapDone
  <2>3. locator = "Chain" \/ call \in Direct
    BY <2>2, Zenon DEF Direct
  <2> QED
    BY <2>1, <2>3, SwapProduct, Zenon
<1> QED
  BY <1>1, FundsHold, PTL DEF Spec, SwapKeepsProduct
=============================================================================
