----------------------------- MODULE MCCatalogue -----------------------------
(* Instances of Catalogue for TLC. *)
EXTENDS Catalogue, TLC

CONSTANT p1

TwoOfEach  == [v \in Variants |-> 2]
OneProduct == [l \in Skus |-> p1]

Symmetric == Permutations(Orders) \cup Permutations(Users)
               \cup Permutations(Variants) \cup Permutations(Skus)

(* All but told, which no step and no invariant of the run admin reads.     *)
ButTold ==
    <<counters, catalogue, status, paid, orderRow, expired, payment, product, draft>>
=============================================================================
