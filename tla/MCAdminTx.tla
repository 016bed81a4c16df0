------------------------------ MODULE MCAdminTx ------------------------------
(* Instance of AdminTx for TLC. *)
EXTENDS AdminTx, TLC

CONSTANTS v1, v2

TwoAndOne == [v \in Variants |-> IF v = v1 THEN 2 ELSE 1]

Symmetric == Permutations(Orders) \cup Permutations(Users) \cup Permutations(Sessions)
=============================================================================
