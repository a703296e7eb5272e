----------------------------- MODULE Migration -----------------------------
(***************************************************************************)
(* migrate_to_new_account of pallets/hybrid-orderbook/ops/src/lib.rs.      *)
(*                                                                         *)
(* A runtime upgrade changes how T::PoolLocator derives accounts, from the *)
(* seed "prior" to the seed "new".  The funds of the pools stay where they *)
(* are until somebody calls the migration of the pool.                     *)
(***************************************************************************)
EXTENDS PoolRegistry

\* External: the pools with an entry in the storage PoolMetadata that the ops crate
\* reads.  The pallet of this repository has no such storage, and the crate is no
\* member of its workspace; an entry is taken to name the LP token of its pool.
CONSTANT PoolMetadata

\* The upgrade of the runtime.
Upgrade ==
  /\ seed = "prior"
  /\ seed' = "new"
  /\ last' = NoSwap
  /\ UNCHANGED <<locator, pools, nextLp, bal, lp, deposits, dropped, calls>>

\* PriorAccountIdConverter
Prior(id) == AccountId("prior", id)

Tokens(id) == <<Asset(id[1]), Asset(id[2]), PoolAsset(pools[id].lp)>>

\* The amount that is minted for a depositor and burnt again.
Advance == AccountDeposit + MinimumBalance

\* The new account, when the old one has a deposit.
Prepared(s, token, id) ==
  LET held == DepositHeld(s, token, Prior(id))
      d == CHOOSE d \in held : TRUE
  IN  IF held = {} THEN s
      ELSE Touch(MintInto(s, Asset(Native), d.who, Advance), token, Address(id), d.who)

\* Everything that was in the old account when the call began.
MovedAll(s, token, id) ==
  Transfer(s, token, Prior(id), Address(id), Balance(Store, token, Prior(id)), FALSE)

\* Mutant: what was minted for the depositor is not burnt.
ReturnedUnburnt(s, token, id) ==
  LET held == DepositHeld(s, token, Prior(id))
      d == CHOOSE d \in held : TRUE
  IN  IF held = {} THEN s ELSE Refund(s, d)

\* The old deposit goes back and the advance is burnt.
Returned(s, token, id) ==
  LET held == DepositHeld(s, token, Prior(id))
      d == CHOOSE d \in held : TRUE
  IN  IF held = {} THEN s ELSE BurnFrom(Refund(s, d), Asset(Native), d.who, Advance)

\* Each of the three for both assets and the LP token in turn.
Migrated(id) ==
  LET t == Tokens(id)
      prepared == Prepared(Prepared(Prepared(Store, t[1], id), t[2], id), t[3], id)
      moved == MovedAll(MovedAll(MovedAll(prepared, t[1], id), t[2], id), t[3], id)
  IN  Returned(Returned(Returned(moved, t[1], id), t[2], id), t[3], id)

Migratable(id) ==
  /\ Prior(id) # Address(id)
  /\ \A n \in 1..3 : Balance(Store, Tokens(id)[n], Prior(id)) > 0

MigrateToNewAccount(asset1, asset2) ==
  LET id == PoolId(asset1, asset2)
  IN  /\ Called
      /\ id \in DOMAIN pools
      /\ id \in PoolMetadata
      /\ Migratable(id)
      /\ Commit(Migrated(id))
      /\ pools' = [pools EXCEPT ![id].team = Address(id)]   \* reset_team
      /\ last' = NoSwap
      /\ UNCHANGED <<locator, seed, nextLp, dropped>>
=============================================================================
