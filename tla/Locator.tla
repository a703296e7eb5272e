------------------------------ MODULE Locator ------------------------------
(***************************************************************************)
(* Which pool a pair of assets belongs to, and at which account it is: the *)
(* PoolLocator implementations of pallets/hybrid-orderbook/src/types.rs.   *)
(*                                                                         *)
(* Assets are integers, for their order.  The hash that derives an account *)
(* from a pool id is taken to be injective, so an account is the seed of   *)
(* the derivation with the id.                                             *)
(***************************************************************************)
EXTENDS Integers

CONSTANT FirstAsset   \* the FirstAsset of WithFirstAsset

NoPool == <<>>   \* Err(()): the locator does not support the pair

BaseQuoteAsset(base, quote) ==
  IF base = quote THEN NoPool ELSE <<base, quote>>

WithFirstAsset(asset1, asset2) ==
  IF asset1 = asset2 \/ FirstAsset \notin {asset1, asset2} THEN NoPool
  ELSE IF asset1 = FirstAsset THEN <<FirstAsset, asset2>> ELSE <<FirstAsset, asset1>>

Ascending(asset1, asset2) ==
  IF asset1 > asset2 THEN <<asset2, asset1>>
  ELSE IF asset1 < asset2 THEN <<asset1, asset2>> ELSE NoPool

\* Chain<First, Second>, of what its parts return.
Chain(first, second) == IF first = NoPool THEN second ELSE first

\* The locator of the runtime, and a chain of the two others.
LocatorNames == {"BaseQuoteAsset", "Chain"}

PoolIdBy(locator, asset1, asset2) ==
  IF locator = "BaseQuoteAsset" THEN BaseQuoteAsset(asset1, asset2)
  ELSE Chain(WithFirstAsset(asset1, asset2), Ascending(asset1, asset2))

\* AccountIdConverter, and PoolLocator::address, with their seeds.
AccountId(seed, id) == <<seed, id>>
=============================================================================
