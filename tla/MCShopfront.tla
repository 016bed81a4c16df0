----------------------------- MODULE MCShopfront -----------------------------
(* Instances of Shopfront for TLC. *)
EXTENDS Shopfront, TLC

Symmetric == Permutations(Brand) \cup Permutations(Names)
               \cup Permutations(Products) \cup Permutations(Requests)

(* Bound: beside a reader, requests of the administration come one by one.  *)
OneBesideReader ==
    walk # NoWalk =>
        \A q, r \in Requests : q # r => Idle \in {request[q], request[r]}
=============================================================================
