--------------------------- MODULE MCCritbitBook ---------------------------
(* The tree as a book, with interchangeable owners.                        *)
EXTENDS CritbitBook

\* What the next call depends on: the last request and its reply are left out.
BookView == <<tree, nextId>>

OwnerSymmetry == Permutations(Owners)
=============================================================================
