------------------------------ MODULE MCOrderTx ------------------------------
(* Instances of OrderTx for TLC. *)
EXTENDS OrderTx, TLC

CONSTANTS v1, v2

OneOfEach == [v \in Variants |-> 1]
TwoAndOne == [v \in Variants |-> IF v = v1 THEN 2 ELSE 1]

Symmetric == Permutations(Orders) \cup Permutations(Users) \cup Permutations(Sessions)
=============================================================================
