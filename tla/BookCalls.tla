----------------------------- MODULE BookCalls -----------------------------
(***************************************************************************)
(* The calls that the modules about one side of the book are driven by.    *)
(***************************************************************************)
EXTENDS Integers

CONSTANTS
  Owners,     \* accounts that place orders
  Prices,     \* prices used in calls
  Amounts,    \* quantities used in calls, 0 included
  MaxOrders   \* bound: how many orders are ever placed

ASSUME BookAssumption ==
  /\ Prices \subseteq Nat
  /\ Amounts \subseteq Nat
  /\ MaxOrders \in Nat
=============================================================================
