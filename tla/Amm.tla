-------------------------------- MODULE Amm --------------------------------
(***************************************************************************)
(* The arithmetic of the liquidity pool in                                 *)
(* pallets/hybrid-orderbook/src/lib.rs: prices, swap amounts and the       *)
(* search for the quantity that moves the pool to a book price.            *)
(*                                                                         *)
(* Amounts are T::Unit, unsigned and below UnitRange.  HigherPrecisionUnit *)
(* is taken to be wide enough for the products the code forms, so that the *)
(* only overflow of a division is the conversion back to T::Unit.  Plain   *)
(* `+`, `-` and `*` on T::Unit wrap, as they do in the release build the   *)
(* runtime is made from.                                                   *)
(***************************************************************************)
EXTENDS Integers

CONSTANTS
  UnitRange,       \* 2^(width of T::Unit)
  LPFee,           \* T::LPFee, in thousandths
  PoolDecimals, BaseDecimals, QuoteDecimals

ASSUME AmmAssumption ==
  /\ UnitRange \in Nat /\ UnitRange > 1
  /\ LPFee \in 0..999
  /\ PoolDecimals \in Nat /\ BaseDecimals \in Nat /\ QuoteDecimals \in Nat

Err == -1

Wrap(x) == x % UnitRange
InUnit(x) == IF x < UnitRange THEN x ELSE Err

MulDiv(a, b, c) == IF c = 0 THEN Err ELSE InUnit((a * b) \div c)

\* Pool::decimal_adjustment; an adjustment of None is one of 0.
BAdj == IF QuoteDecimals > BaseDecimals THEN QuoteDecimals - BaseDecimals ELSE 0
QAdj == IF BaseDecimals > QuoteDecimals THEN BaseDecimals - QuoteDecimals ELSE 0
\* 10u64.pow, which overflows above 10^19: the powers that a pool asks for fit.
TenTo[n \in Nat] == IF n = 0 THEN 1 ELSE 10 * TenTo[n - 1]

ASSUME DecimalsAssumption ==
  BaseDecimals <= 19 /\ QuoteDecimals <= 19 /\ PoolDecimals + QAdj <= 19

Normalize(x, adj) == Wrap(x * TenTo[adj])
Denom(x, adj) == x \div TenTo[adj]

\* quote(amount, reserve1, reserve2)
Quote(amount, reserve1, reserve2) == MulDiv(amount, reserve2, reserve1)

PoolPrice(base, quote) ==
  Quote(Normalize(1, PoolDecimals), Normalize(base, BAdj), Normalize(quote, QAdj))

\* The quote asset that an order at `price` stands for.
QuoteValue(price, quantity) == Denom(Wrap(price * quantity), PoolDecimals + QAdj)

FeeFactor == 1000 - LPFee

GetAmountOut(amountIn, reserveIn, reserveOut) ==
  IF reserveIn = 0 \/ reserveOut = 0 THEN Err
  ELSE InUnit((amountIn * FeeFactor * reserveOut)
                \div (reserveIn * 1000 + amountIn * FeeFactor))

\* Mutant: the amount is not rounded up.
GetAmountInFloor(amountOut, reserveIn, reserveOut) ==
  IF reserveIn = 0 \/ reserveOut = 0 \/ amountOut >= reserveOut THEN Err
  ELSE InUnit((reserveIn * amountOut * 1000)
                \div ((reserveOut - amountOut) * FeeFactor))

GetAmountIn(amountOut, reserveIn, reserveOut) ==
  IF reserveIn = 0 \/ reserveOut = 0 \/ amountOut >= reserveOut THEN Err
  ELSE InUnit((reserveIn * amountOut * 1000)
                \div ((reserveOut - amountOut) * FeeFactor) + 1)

-----------------------------------------------------------------------------
(* find_max_swap_quantity, one turn of its loop at a time.  A search is a  *)
(* record of the loop's variables; `result` is Searching until the loop is *)
(* left, then what the function returns.                                   *)

Searching == -2

NewSearch(remain) == [min |-> 0, max |-> remain, swap |-> 0, result |-> Searching]

\* Mutant: the reserves of a bid are given the wrong way round.
PriceAfterReversed(isBid, mid, base, quote) ==
  IF isBid
  THEN LET in == GetAmountIn(mid, base, quote)
       IN  IF in = Err THEN Err ELSE PoolPrice(base - mid, Wrap(quote + in))
  ELSE LET out == GetAmountOut(mid, base, quote)
       IN  IF out = Err THEN Err ELSE PoolPrice(Wrap(base + mid), quote - out)

\* The pool's price after it swapped `mid` of the base asset.
PriceAfter(isBid, mid, base, quote) ==
  IF isBid
  THEN LET in == GetAmountIn(mid, quote, base)
       IN  IF in = Err THEN Err ELSE PoolPrice(base - mid, Wrap(quote + in))
  ELSE LET out == GetAmountOut(mid, base, quote)
       IN  IF out = Err THEN Err ELSE PoolPrice(Wrap(base + mid), quote - out)

Step == Normalize(1, BaseDecimals)

Mid(s) == Wrap(s.min + s.max + 1) \div 2

\* Mutants: the quantity is kept although the price is past the target; the
\* search goes on in the other half; the bound moves to mid only.
NarrowedKeeping(s, mid, up) ==
  IF up THEN [s EXCEPT !.min = Wrap(mid + Step), !.swap = mid]
  ELSE [s EXCEPT !.max = Wrap(mid - Step), !.swap = mid]
NarrowedAway(s, mid, up) ==
  IF up THEN [s EXCEPT !.max = Wrap(mid - Step)] ELSE [s EXCEPT !.min = Wrap(mid + Step)]
NarrowedToMid(s, mid, up) ==
  IF up THEN [s EXCEPT !.min = mid] ELSE [s EXCEPT !.max = mid]

\* The half of the range in which the search goes on.
Narrowed(s, mid, up) ==
  IF up THEN [s EXCEPT !.min = Wrap(mid + Step)] ELSE [s EXCEPT !.max = Wrap(mid - Step)]

\* A price below the target wants more swapped for a bid, less for an ask, and
\* is remembered on either side.
SearchStep(s, isBid, target, base, quote) ==
  LET mid == Mid(s)
      price == PriceAfter(isBid, mid, base, quote)
  IN  IF s.min >= s.max THEN [s EXCEPT !.result = s.swap]
      ELSE IF price = Err THEN [s EXCEPT !.result = Err]
      ELSE IF price = target THEN [s EXCEPT !.result = mid]
      ELSE IF price < target
      THEN Narrowed([s EXCEPT !.swap = mid], mid, isBid)
      ELSE Narrowed(s, mid, ~isBid)
=============================================================================
