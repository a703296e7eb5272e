------------------------------ MODULE IdOrder ------------------------------
(***************************************************************************)
(* The order in which a BTreeMap from order ids is iterated.               *)
(***************************************************************************)
EXTENDS Integers, FiniteSets

\* The ids of a finite set, the smallest first.
InIdOrder(ids) ==
  CHOOSE seq \in [1..Cardinality(ids) -> ids] :
    \A m, n \in 1..Cardinality(ids) : m < n => seq[m] < seq[n]
=============================================================================
