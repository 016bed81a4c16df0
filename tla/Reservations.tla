---------------------------- MODULE Reservations ----------------------------
(***************************************************************************)
(* What the shop promises about its stock, without saying how it counts:   *)
(* an order is accepted only when what it wants is on the shelf and not    *)
(* held for another order; a held order is sold once or released once; and *)
(* only a sale takes stock away.  There is no reserved_stock counter here: *)
(* the counter is how OrderFlow and OrderTx keep this promise.             *)
(***************************************************************************)
EXTENDS Quantities

CONSTANTS Orders, Variants, InitialStock

VARIABLES
    stock,      \* pairs of shoes on the shelf, held ones included
    wants,      \* what each order asks for
    phase       \* what has become of each order

vars == <<stock, wants, phase>>

Held    == {o \in Orders : phase[o] = "held"}
Free(v) == stock[v] - Qty(wants, Held, v)

Init ==
    /\ stock = InitialStock
    /\ wants = [o \in Orders |-> [v \in Variants |-> 0]]
    /\ phase = [o \in Orders |-> "new"]

Hold(o, cart) ==
    /\ phase[o] = "new"
    /\ \A v \in Variants : cart[v] <= Free(v)
    /\ wants' = [wants EXCEPT ![o] = cart]
    /\ phase' = [phase EXCEPT ![o] = "held"]
    /\ UNCHANGED stock

Release(S) ==
    /\ S # {} /\ S \subseteq Held
    /\ phase' = [o \in Orders |-> IF o \in S THEN "released" ELSE phase[o]]
    /\ UNCHANGED <<stock, wants>>

Sell(o) ==
    /\ o \in Held
    /\ stock' = [v \in Variants |-> stock[v] - wants[o][v]]
    /\ phase' = [phase EXCEPT ![o] = "sold"]
    /\ UNCHANGED wants

Next ==
    \/ \E o \in Orders, cart \in [Variants -> 0..MaxQty] : Hold(o, cart)
    \/ \E S \in SUBSET Orders : Release(S)
    \/ \E o \in Orders : Sell(o)

Spec == Init /\ [][Next]_vars

(* Somebody counts the shelf anew; what is held has to be there.            *)
Restock ==
    /\ stock' \in [Variants -> Nat]
    /\ \A v \in Variants : Qty(wants, Held, v) <= stock'[v]
    /\ UNCHANGED <<wants, phase>>
=============================================================================
