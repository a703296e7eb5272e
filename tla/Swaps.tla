------------------------------- MODULE Swaps -------------------------------
(***************************************************************************)
(* The Swap and SwapCredit traits of pallets/hybrid-orderbook/src/swap.rs  *)
(* on the pools of PoolRegistry, and the price quotes of lib.rs.           *)
(*                                                                         *)
(* A path is a sequence of assets and its balance path the sequence of     *)
(* amounts, one for each asset; Err where an amount cannot be computed.    *)
(***************************************************************************)
EXTENDS PoolRegistry

CONSTANTS
  MaxSwapPathLength,
  Paths,          \* paths used in calls
  SwapAmounts,    \* amounts used in calls
  Limits          \* least or greatest amounts used in calls, NoLimit among them

NoLimit == -1

ASSUME SwapAssumption ==
  /\ MaxSwapPathLength \in Nat /\ MaxSwapPathLength > 1   \* integrity_test
  /\ Paths \subseteq Seq(Assets)
  /\ SwapAmounts \subseteq Nat
  /\ Limits \subseteq Nat \cup {NoLimit}

Pair(path, n) == PoolId(path[n], path[n + 1])

ValidateSwapPath(path) ==
  /\ Len(path) \in 2..MaxSwapPathLength
  /\ \A n \in 1..(Len(path) - 1) : Pair(path, n) # NoPool
  /\ \A m, n \in 1..(Len(path) - 1) : m # n => Pair(path, m) # Pair(path, n)

\* get_reserves(asset1, asset2), one side: `asset` in the pool of the pair.
Reserve(asset1, asset2, asset) == bal[asset][Address(PoolId(asset1, asset2))]

\* From the front, with the pools of (path[n], path[n + 1]).
BalancePathFromAmountIn(amount, path) ==
  LET amounts[n \in 1..Len(path)] ==
        IF n = 1 THEN amount
        ELSE IF amounts[n - 1] = Err THEN Err
        ELSE GetAmountOut(amounts[n - 1], Reserve(path[n - 1], path[n], path[n - 1]),
                          Reserve(path[n - 1], path[n], path[n]))
  IN  amounts

\* Mutant: the reserves are given in the order of the pair.
BalancePathReversed(amount, path) ==
  LET amounts[n \in 1..Len(path)] ==
        IF n = Len(path) THEN amount
        ELSE IF amounts[n + 1] = Err THEN Err
        ELSE GetAmountIn(amounts[n + 1], Reserve(path[n + 1], path[n], path[n + 1]),
                         Reserve(path[n + 1], path[n], path[n]))
  IN  amounts

\* From the back, with the pools of (path[n + 1], path[n]).
BalancePathFromAmountOut(amount, path) ==
  LET amounts[n \in 1..Len(path)] ==
        IF n = Len(path) THEN amount
        ELSE IF amounts[n + 1] = Err THEN Err
        ELSE GetAmountIn(amounts[n + 1], Reserve(path[n + 1], path[n], path[n]),
                         Reserve(path[n + 1], path[n], path[n + 1]))
  IN  amounts

\* Mutant: both amounts are taken from the wrong end.
CreditSwapReversed(isBid, s, path, amounts) ==
  LET pool == Address(IF isBid THEN PoolId(path[2], path[1]) ELSE PoolId(path[1], path[2]))
  IN  Resolve(Withdraw(s, Asset(path[2]), pool, amounts[1], TRUE),
              Asset(path[1]), pool, amounts[2])

\* credit_swap executes the first hop of the path: its pool is that of
\* (path[1], path[2]), of (path[2], path[1]) for a bid.
CreditSwap(isBid, s, path, amounts) ==
  LET pool == Address(IF isBid THEN PoolId(path[2], path[1]) ELSE PoolId(path[1], path[2]))
  IN  Resolve(Withdraw(s, Asset(path[2]), pool, amounts[2], TRUE),
              Asset(path[1]), pool, amounts[1])

\* Mutant: the sender is the receiver.
SwapToSender(isBid, path, amounts, sender, sendTo, keepAlive) ==
  LET in == Withdraw(Store, Asset(path[1]), sender, amounts[1], keepAlive)
  IN  Resolve(CreditSwap(isBid, in, path, amounts), Asset(path[2]), sender, amounts[2])

\* swap: between two accounts.
Swap(isBid, path, amounts, sender, sendTo, keepAlive) ==
  LET in == Withdraw(Store, Asset(path[1]), sender, amounts[1], keepAlive)
  IN  Resolve(CreditSwap(isBid, in, path, amounts), Asset(path[2]), sendTo, amounts[2])

Executed(call, path, amounts, from, to) ==
  last' = [call |-> call, path |-> path, from |-> from, to |-> to,
           in |-> Head(amounts), hop |-> amounts[2], out |-> amounts[Len(path)]]

SwapExactTokensForTokens(sender, path, amountIn, outMin, sendTo, keepAlive) ==
  LET amounts == BalancePathFromAmountIn(amountIn, path)
  IN  /\ Called
      /\ amountIn > 0 /\ outMin # 0
      /\ ValidateSwapPath(path)
      /\ amounts[Len(path)] # Err /\ amounts[Len(path)] >= outMin
      /\ Commit(Swap(FALSE, path, amounts, sender, sendTo, keepAlive))
      /\ Executed("exact in", path, amounts, sender, sendTo)
      /\ UNCHANGED <<locator, seed, pools, nextLp, dropped>>

SwapTokensForExactTokens(sender, path, amountOut, inMax, sendTo, keepAlive) ==
  LET amounts == BalancePathFromAmountOut(amountOut, path)
  IN  /\ Called
      /\ amountOut > 0 /\ inMax # 0
      /\ ValidateSwapPath(path)
      /\ Head(amounts) # Err /\ (inMax = NoLimit \/ Head(amounts) <= inMax)
      /\ Commit(Swap(TRUE, path, amounts, sender, sendTo, keepAlive))
      /\ Executed("exact out", path, amounts, sender, sendTo)
      /\ UNCHANGED <<locator, seed, pools, nextLp, dropped>>

(* The SwapCredit calls.  The caller takes the credit out of an account and *)
(* puts back there what the call returns.  A call that fails while it looks *)
(* at the path returns the whole credit, and so does the first of the two  *)
(* when credit_swap fails.                                                  *)

SwapExactCreditForTokens(who, path, credit, outMin) ==
  LET amounts == BalancePathFromAmountIn(credit, path)
      taken == Withdraw(Store, Asset(path[1]), who, credit, FALSE)
  IN  /\ Called
      /\ credit > 0 /\ outMin # 0
      /\ ValidateSwapPath(path)
      /\ amounts[Len(path)] # Err /\ amounts[Len(path)] >= outMin
      /\ Commit(Resolve(CreditSwap(TRUE, taken, path, amounts),
                        Asset(path[2]), who, amounts[2]))
      /\ Executed("exact credit in", path, amounts, who, who)
      /\ UNCHANGED <<locator, seed, pools, nextLp, dropped>>

\* The credit is split.  When credit_swap fails, the part it was given comes
\* back and the change is dropped.
SwapCreditForExactTokens(who, path, credit, amountOut) ==
  LET amounts == BalancePathFromAmountOut(amountOut, path)
      in == Asset(path[1])
      change == credit - Head(amounts)
      taken == Withdraw(Store, in, who, credit, FALSE)
      swapped == CreditSwap(FALSE, taken, path, amounts)
  IN  /\ Called
      /\ credit > 0 /\ amountOut > 0
      /\ ValidateSwapPath(path)
      /\ Head(amounts) # Err /\ change >= 0
      /\ taken.ok
      /\ IF swapped.ok
         THEN /\ Commit(Resolve(Resolve(swapped, Asset(path[2]), who, amounts[2]),
                                in, who, change))
              /\ Executed("exact credit out", path, amounts, who, who)
              /\ UNCHANGED dropped
         ELSE /\ Commit(Resolve(taken, in, who, Head(amounts)))
              /\ dropped' = [dropped EXCEPT ![path[1]] = @ + change]
              /\ last' = NoSwap
      /\ UNCHANGED <<locator, seed, pools, nextLp>>

SwapCall(who) ==
  \E path \in Paths, amount \in SwapAmounts :
    \/ \E limit \in Limits, sendTo \in Users, keepAlive \in BOOLEAN :
         \/ SwapExactTokensForTokens(who, path, amount, limit, sendTo, keepAlive)
         \/ SwapTokensForExactTokens(who, path, amount, limit, sendTo, keepAlive)
    \/ \E limit \in Limits : SwapExactCreditForTokens(who, path, amount, limit)
    \/ \E credit \in SwapAmounts : SwapCreditForExactTokens(who, path, credit, amount)

-----------------------------------------------------------------------------
(* The quotes for the RPC service: what a swap of two assets would give or *)
(* cost, with the fee and without it.                                      *)

QuotePriceExactTokensForTokens(asset1, asset2, amount, includeFee) ==
  LET reserve1 == Reserve(asset1, asset2, asset1)
      reserve2 == Reserve(asset1, asset2, asset2)
  IN  IF PoolId(asset1, asset2) = NoPool \/ reserve1 = 0 THEN Err
      ELSE IF includeFee THEN GetAmountOut(amount, reserve1, reserve2)
      ELSE Quote(amount, reserve1, reserve2)

\* Mutant: the reserves are given the wrong way round.
QuotePriceReversed(asset1, asset2, amount, includeFee) ==
  LET reserve1 == Reserve(asset1, asset2, asset1)
      reserve2 == Reserve(asset1, asset2, asset2)
  IN  IF PoolId(asset1, asset2) = NoPool \/ reserve1 = 0 THEN Err
      ELSE IF includeFee THEN GetAmountIn(amount, reserve2, reserve1)
      ELSE Quote(amount, reserve1, reserve2)

QuotePriceTokensForExactTokens(asset1, asset2, amount, includeFee) ==
  LET reserve1 == Reserve(asset1, asset2, asset1)
      reserve2 == Reserve(asset1, asset2, asset2)
  IN  IF PoolId(asset1, asset2) = NoPool \/ reserve1 = 0 THEN Err
      ELSE IF includeFee THEN GetAmountIn(amount, reserve1, reserve2)
      ELSE Quote(amount, reserve2, reserve1)
=============================================================================
