------------------------------ MODULE MCPools ------------------------------
(***************************************************************************)
(* A small instance of Pools: three assets, the native one among them, and *)
(* two users.                                                              *)
(***************************************************************************)
EXTENDS Pools, TLC

ThreeAssets == {0, 1, 2}

\* A pair both ways round, another one, and one that is refused.
SomePairs == {<<0, 1>>, <<1, 0>>, <<2, 1>>, <<1, 1>>}

\* The third of them has no metadata.
SomeMetadata == {<<0, 1>>, <<1, 0>>}

\* Paths over these pools, two that go through a pool twice under some locator,
\* and paths of the lengths that validate_swap_path refuses.
SomePaths == {<<0, 1>>, <<1, 0>>, <<2, 1>>, <<0, 1, 0>>, <<2, 1, 0>>, <<0>>, <<0, 1, 0, 1>>}

SomeOffers == {<<9, 3>>, <<3, 3>>}

AnyLimit == {NoLimit, 2}

\* The record of the last swap is read by action properties only.
PoolsView == <<locator, seed, pools, nextLp, bal, lp, deposits, dropped, calls>>

UserSymmetry == Permutations(Users)
=============================================================================
