--------------------------- MODULE MCSwapSearch ---------------------------
(* The search over all orders of up to 16 units on pools of up to 20 units *)
(* of either asset.  PoolDecimals is 1, so prices are in tenths.           *)
EXTENDS SwapSearch

MCReserves == {3, 5, 8, 12, 16, 20}
MCTargets == 1..30
MCRemains == 1..16
=============================================================================
