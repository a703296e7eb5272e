------------------------------- MODULE Ledger -------------------------------
(***************************************************************************)
(* The balances that the orderbook pallet moves.  T::Assets (pallet_assets *)
(* with the native balance) and T::AssetsFreezer are outside src/ and are  *)
(* modelled from the calls lib.rs makes on them: withdraw, resolve,        *)
(* transfer, reducible_balance, increase_frozen and decrease_frozen.       *)
(*                                                                         *)
(* A ledger is a pair of functions, asset -> account -> amount: bal for    *)
(* what an account has and frozen for the part that must stay there.  The  *)
(* minimum balance of an asset is 1, so an account never holds dust.       *)
(***************************************************************************)
EXTENDS Integers

MinimumBalance == 1

\* Whether `amount` may leave a balance of which `held` is frozen.  An account
\* with a freeze, or one that has to be preserved, cannot be emptied.
CanLeave(balance, held, amount, preserve) ==
  LET kept == IF held > MinimumBalance THEN held
              ELSE IF held > 0 \/ preserve THEN MinimumBalance ELSE 0
  IN  amount = 0 \/ balance - amount >= kept

\* Mutant: Fortitude::Force, which spends what is frozen.
CanDebitForced(bal, frozen, asset, who, amount, preserve) ==
  amount = 0 \/ bal[asset][who] - amount >= IF preserve THEN MinimumBalance ELSE 0

\* Whether `amount` may leave the account, with Polite.
CanDebit(bal, frozen, asset, who, amount, preserve) ==
  CanLeave(bal[asset][who], frozen[asset][who], amount, preserve)

\* Mutant: both balances are read before either is written.
MovedStale(bal, asset, from, to, amount) ==
  [bal EXCEPT ![asset] = [@ EXCEPT ![from] = bal[asset][from] - amount,
                                   ![to] = bal[asset][to] + amount]]

\* Moving an amount.  The two accounts may be the same.
Moved(bal, asset, from, to, amount) ==
  LET withdrawn == [bal EXCEPT ![asset][from] = @ - amount]
  IN  [withdrawn EXCEPT ![asset][to] = @ + amount]

\* increase_frozen accepts a freeze that the whole balance covers.
CanFreeze(bal, frozen, asset, who, amount) ==
  frozen[asset][who] + amount <= bal[asset][who]

Frozen(frozen, asset, who, amount) ==
  [frozen EXCEPT ![asset][who] = @ + amount]

CanRelease(frozen, asset, who, amount) == amount <= frozen[asset][who]

Released(frozen, asset, who, amount) ==
  [frozen EXCEPT ![asset][who] = @ - amount]
=============================================================================
