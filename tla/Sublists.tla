------------------------------ MODULE Sublists ------------------------------
(***************************************************************************)
(* Lists without repetitions, and list comprehensions: what the plugin's   *)
(* `[item for item in list if ...]` leaves.                                *)
(***************************************************************************)
EXTENDS Naturals, Sequences, FiniteSets

\* Each entry of the list is in it once.
NoRepeat(list) == \A i, j \in DOMAIN list : list[i] = list[j] => i = j

\* How many of the positions one comes up to with this one.
Rank(positions, i) == Cardinality({j \in positions : j <= i})

\* The entries of the list at these positions, in their order.
Sublist(list, positions) ==
  [n \in 1..Cardinality(positions) |->
     list[CHOOSE i \in positions : Rank(positions, i) = n]]

\* The entries that are in the set.
Only(list, S) == Sublist(list, {i \in DOMAIN list : list[i] \in S})
=============================================================================
