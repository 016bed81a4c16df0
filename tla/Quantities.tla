----------------------------- MODULE Quantities -----------------------------
(***************************************************************************)
(* How many units of an article a set of orders asks for in total.  The    *)
(* handlers walk the items of their orders and add the quantity of each    *)
(* to a counter; here the sum is a cardinality, one element per unit, which *)
(* the theorems about finite sets can reason about.                        *)
(***************************************************************************)
EXTENDS Integers, FiniteSets

CONSTANT MaxQty     \* bound on the quantity of one article in one order

ASSUME MaxQtyAssumption == MaxQty \in Nat \ {0}

(* it[o][a] is the quantity of article a in order o.                       *)
Units(it, S, a) == {u \in S \X (1..MaxQty) : u[2] <= it[u[1]][a]}
Qty(it, S, a)   == Cardinality(Units(it, S, a))
=============================================================================
