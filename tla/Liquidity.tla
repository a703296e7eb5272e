----------------------------- MODULE Liquidity -----------------------------
(***************************************************************************)
(* What add_liquidity of pallets/hybrid-orderbook/src/lib.rs takes from a  *)
(* provider, and the LP tokens it gives, as functions of the reserves of   *)
(* the pool and the supply of its LP token.                                *)
(***************************************************************************)
EXTENDS Amm

CONSTANT MintMinLiquidity   \* T::MintMinLiquidity

ASSUME MintAssumption == MintMinLiquidity \in Nat

\* The amounts that are taken: as desired for an empty pool, else in the
\* proportion of the reserves.  They are refused when below their minimum.
Provided(base, quote, baseMin, quoteMin, baseReserve, quoteReserve) ==
  LET quoteOptimal == Quote(base, baseReserve, quoteReserve)
      baseOptimal == Quote(quote, quoteReserve, baseReserve)
      refused == [ok |-> FALSE, base |-> 0, quote |-> 0]
      taken(b, q) == [ok |-> TRUE, base |-> b, quote |-> q]
  IN  IF baseReserve = 0 \/ quoteReserve = 0 THEN taken(base, quote)
      ELSE IF quoteOptimal = Err THEN refused
      ELSE IF quoteOptimal <= quote
      THEN IF quoteOptimal >= quoteMin THEN taken(base, quoteOptimal) ELSE refused
      ELSE IF baseOptimal # Err /\ baseOptimal <= base /\ baseOptimal >= baseMin
      THEN taken(baseOptimal, quote) ELSE refused

\* calc_lp_amount_for_zero_supply takes the integer square root.
SquareRoot(n) == CHOOSE r \in 0..n : r * r <= n /\ n < (r + 1) * (r + 1)

\* Mutant: the provider is paid for the side that gives more.
MintedForLarger(base, quote, supply, baseReserve, quoteReserve) ==
  LET side1 == MulDiv(base, supply, baseReserve)
      side2 == MulDiv(quote, supply, quoteReserve)
  IN  IF supply = 0 THEN InUnit(SquareRoot(base * quote) - MintMinLiquidity)
      ELSE IF side1 >= side2 THEN side1 ELSE side2

\* The LP tokens for a provider; Err, or a negative amount, when they cannot be
\* computed.
Minted(base, quote, supply, baseReserve, quoteReserve) ==
  LET side1 == MulDiv(base, supply, baseReserve)
      side2 == MulDiv(quote, supply, quoteReserve)
  IN  IF supply = 0 THEN InUnit(SquareRoot(base * quote) - MintMinLiquidity)
      ELSE IF side1 <= side2 THEN side1 ELSE side2
=============================================================================
