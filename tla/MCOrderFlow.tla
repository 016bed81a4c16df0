----------------------------- MODULE MCOrderFlow -----------------------------
(* Instances of OrderFlow for TLC. *)
EXTENDS OrderFlow, TLC

CONSTANTS v1, v2

TwoOfEach  == [v \in Variants |-> 2]
TwoAndOne  == [v \in Variants |-> IF v = v1 THEN 2 ELSE 1]

Symmetric == Permutations(Orders) \cup Permutations(Users)
=============================================================================
