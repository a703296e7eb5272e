--------------------------- MODULE AssetAccounts ---------------------------
(***************************************************************************)
(* The accounts of T::Assets and T::PoolAssets and the deposits paid for   *)
(* them.  Both registries, and the native balance the deposits are         *)
(* reserved from, are outside src/ and are modelled from the calls that    *)
(* pallets/hybrid-orderbook and its ops crate make on them.                *)
(*                                                                         *)
(* A call takes and returns a store: the balances of the two registries,   *)
(* the deposits that are held, and whether every call so far succeeded.    *)
(***************************************************************************)
EXTENDS Ledger

CONSTANTS
  Native,           \* the asset that deposits are paid in; it needs no deposit
  AccountDeposit    \* what an account of any other asset costs

ASSUME DepositAssumption == AccountDeposit \in Nat

Asset(id) == [registry |-> "assets", id |-> id]
PoolAsset(id) == [registry |-> "pool_assets", id |-> id]

Balance(s, token, who) == s[token.registry][token.id][who]

\* The deposit for an account: one at most.
DepositHeld(s, token, account) ==
  {d \in s.deposits : d.token = token /\ d.account = account}

Exists(s, token, account) ==
  Balance(s, token, account) > 0 \/ DepositHeld(s, token, account) # {}

\* Whether an account has to be paid for before it can be used: who has the
\* native asset can open other accounts without a deposit.
ShouldTouch(s, token, account) ==
  /\ token # Asset(Native)
  /\ ~Exists(s, token, account)
  /\ s.assets[Native][account] = 0

Failed(s) == [s EXCEPT !.ok = FALSE]

\* Mutant: the depositor need not have the deposit.
TouchUnchecked(s, token, account, who) ==
  IF s.ok /\ ~Exists(s, token, account)
  THEN [s EXCEPT !.assets[Native][who] = @ - AccountDeposit,
                 !.deposits = @ \cup {[token |-> token, account |-> account, who |-> who]}]
  ELSE Failed(s)

\* Paying the deposit: the depositor keeps the minimum balance, which a reserve
\* needs.
Touch(s, token, account, who) ==
  IF /\ s.ok /\ ~Exists(s, token, account)
     /\ s.assets[Native][who] - AccountDeposit >= MinimumBalance
  THEN [s EXCEPT !.assets[Native][who] = @ - AccountDeposit,
                 !.deposits = @ \cup {[token |-> token, account |-> account, who |-> who]}]
  ELSE Failed(s)

\* Giving back a deposit closes the account, which has to be empty.
Refund(s, d) ==
  IF s.ok /\ Balance(s, d.token, d.account) = 0
  THEN [s EXCEPT !.assets[Native][d.who] = @ + AccountDeposit, !.deposits = @ \ {d}]
  ELSE Failed(s)

\* Whether an amount may leave an account.  A depositor stays alive.
CanWithdraw(s, token, who, amount, keepAlive) ==
  LET depositor == token = Asset(Native) /\ \E d \in s.deposits : d.who = who
  IN  CanLeave(Balance(s, token, who), 0, amount, keepAlive \/ depositor)

\* Mutant: nobody has to be left with the minimum balance.
WithdrawAll(s, token, who, amount, keepAlive) ==
  IF s.ok /\ amount <= Balance(s, token, who)
  THEN [s EXCEPT ![token.registry][token.id][who] = @ - amount]
  ELSE Failed(s)

\* Taking an amount out of an account; it is in a credit until it is resolved.
Withdraw(s, token, who, amount, keepAlive) ==
  IF s.ok /\ CanWithdraw(s, token, who, amount, keepAlive)
  THEN [s EXCEPT ![token.registry][token.id][who] = @ - amount]
  ELSE Failed(s)

Resolve(s, token, who, amount) ==
  IF s.ok /\ (amount = 0 \/ ~ShouldTouch(s, token, who))
  THEN [s EXCEPT ![token.registry][token.id][who] = @ + amount]
  ELSE Failed(s)

Transfer(s, token, from, to, amount, keepAlive) ==
  Resolve(Withdraw(s, token, from, amount, keepAlive), token, to, amount)

MintInto(s, token, who, amount) == Resolve(s, token, who, amount)

BurnFrom(s, token, who, amount) == Withdraw(s, token, who, amount, FALSE)
=============================================================================
