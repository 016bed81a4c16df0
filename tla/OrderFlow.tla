------------------------------ MODULE OrderFlow ------------------------------
(***************************************************************************)
(* The life of an order: the order service, the payment service and the    *)
(* order worker over the tables orders, order_items, payments and          *)
(* product_variants.  One action is one handler run to its commit, so this *)
(* is the system as its serial executions see it; OrderTx opens the        *)
(* handlers up and interleaves their statements.                           *)
(*                                                                         *)
(* A payment row is named by its order: payments.order_id is UNIQUE and    *)
(* createOrder inserts the only row an order ever gets.  An order item     *)
(* does not point at a variant: it stores product_id and variant_value,    *)
(* here one value of Skus, and the handlers look the variant up by it.     *)
(***************************************************************************)
EXTENDS Quantities, Functions

CONSTANTS
    Users,          \* accounts that place orders
    NoUser,         \* the owner of an identifier no order has got yet
    Orders,         \* identifiers an order may get
    Variants,       \* rows of product_variants
    Skus,           \* (product_id, variant_value) pairs
    InitialStock    \* stock of each variant before the first order

ASSUME UsersAssumption == NoUser \notin Users
ASSUME OrdersAssumption == IsFiniteSet(Orders)
ASSUME StockAssumption == InitialStock \in [Variants -> Nat]

VARIABLES
    stock,      \* product_variants.stock
    reserved,   \* product_variants.reserved_stock
    shelf,      \* status of the variant; "DELETED" once deleted_at is set,
                \* "PURGED" while there is no such row
    sku,        \* (product_id, variant_value) of the variant
    status,     \* orders.status; "NONE" is an identifier not yet used
    paid,       \* orders.payment_status
    owner,      \* orders.user_id
    items,      \* order_items: quantity of each sku, 0 when it has no item
    expired,    \* orders.expires_at lies in the past
    payment,    \* payments.payment_status of the row with this order_id
    told        \* the last notification emitted about the order

catalogue == <<shelf, sku>>
counters  == <<stock, reserved>>
orderRow  == <<owner, items>>
vars == <<stock, reserved, shelf, sku, status, paid, owner, items, expired,
          payment, told>>

OrderStatus   == {"NONE", "PENDING", "COMPLETED", "CANCELLED", "EXPIRED"}
PaymentStatus == {"NONE", "PENDING", "SUCCESSFUL", "FAILED", "CANCELLED"}
Shelf         == {"ACTIVE", "INACTIVE", "DELETED", "PURGED"}
Notice        == {"none", "created", "cancelled", "expired", "paid", "failed"}
Cart          == [Variants -> 0..MaxQty]

TypeOK ==
    /\ stock    \in [Variants -> Nat]
    /\ reserved \in [Variants -> Nat]
    /\ shelf    \in [Variants -> Shelf]
    /\ sku      \in Injection(Variants, Skus)
    /\ status   \in [Orders -> OrderStatus]
    /\ paid     \in [Orders -> {"PAID", "UNPAID"}]
    /\ owner    \in [Orders -> Users \cup {NoUser}]
    /\ items    \in [Orders -> [Skus -> 0..MaxQty]]
    /\ expired  \in [Orders -> BOOLEAN]
    /\ payment  \in [Orders -> PaymentStatus]
    /\ told     \in [Orders -> Notice]

Init ==
    /\ stock = InitialStock
    /\ reserved = [v \in Variants |-> 0]
    /\ shelf = [v \in Variants |-> "ACTIVE"]
    /\ sku \in Injection(Variants, Skus)
    /\ status = [o \in Orders |-> "NONE"]
    /\ paid = [o \in Orders |-> "UNPAID"]
    /\ owner = [o \in Orders |-> NoUser]
    /\ items = [o \in Orders |-> [l \in Skus |-> 0]]
    /\ expired = [o \in Orders |-> FALSE]
    /\ payment = [o \in Orders |-> "NONE"]
    /\ told = [o \in Orders |-> "none"]

-----------------------------------------------------------------------------
Having(s) == {o \in Orders : status[o] = s}
Pending   == Having("PENDING")
Completed == Having("COMPLETED")

(* What the lock query of cancelOrder, confirmPayment and the worker finds. *)
OnSale(v) == shelf[v] = "ACTIVE"
ItemsFound(S) ==
    \A o \in S, l \in Skus :
        items[o][l] > 0 => \E v \in Variants : OnSale(v) /\ sku[v] = l

(* A counter with the quantities of the orders in S taken off, on the      *)
(* variants that the lock query finds.                                      *)
Less(counter, S) ==
    [v \in Variants |->
        IF OnSale(v) THEN counter[v] - Qty(items, S, sku[v]) ELSE counter[v]]

(* Mutant: the constraint reserved_stock >= 0 is missing.                   *)
ChecksHoldOneSided(st, rs) == \A v \in Variants : st[v] >= 0 /\ rs[v] <= st[v]

(* The CHECK constraints of product_variants; a save that breaks one fails  *)
(* and takes its transaction with it.                                       *)
ChecksHold(st, rs) ==
    \A v \in Variants : st[v] >= 0 /\ rs[v] >= 0 /\ rs[v] <= st[v]

-----------------------------------------------------------------------------
(* OrderService *)

NewItems(cart) ==
    [l \in Skus |->
        IF \E v \in Variants : sku[v] = l /\ cart[v] > 0
        THEN cart[CHOOSE v \in Variants : sku[v] = l /\ cart[v] > 0]
        ELSE 0]

InsertOrder(u, o, cart) ==
    /\ reserved' = [v \in Variants |-> reserved[v] + cart[v]]
    /\ status'   = [status EXCEPT ![o] = "PENDING"]
    /\ paid'     = [paid EXCEPT ![o] = "UNPAID"]
    /\ owner'    = [owner EXCEPT ![o] = u]
    /\ items'    = [items EXCEPT ![o] = NewItems(cart)]
    /\ payment'  = [payment EXCEPT ![o] = "PENDING"]
    /\ told'     = [told EXCEPT ![o] = "created"]
    /\ UNCHANGED <<stock, catalogue, expired>>

InStock(cart) ==
    /\ \E v \in Variants : cart[v] > 0
    /\ \A v \in Variants :
          cart[v] > 0 => /\ shelf[v] \in {"ACTIVE", "INACTIVE"}
                         /\ stock[v] - reserved[v] >= cart[v]

(* Mutant: the user may have other pending orders.                          *)
CreateOrderAnyNumber(u, o, cart) ==
    status[o] = "NONE" /\ InStock(cart) /\ InsertOrder(u, o, cart)

(* createOrder.  The variants are found whatever their status is, unless   *)
(* they are soft-deleted.  Repeated items of a variant add up.  An order   *)
(* without items fails on the empty IN ().                                 *)
CreateOrder(u, o, cart) ==
    /\ status[o] = "NONE"
    /\ \A p \in Pending : owner[p] # u
    /\ InStock(cart)
    /\ InsertOrder(u, o, cart)

(* The orders in S become s: their variants are saved with st and rs in     *)
(* stock and reserved_stock, their owners are told.                         *)
Over(f, S, x) == [o \in Orders |-> IF o \in S THEN x ELSE f[o]]

Settle(S, st, rs, s, notice) ==
    /\ ChecksHold(st, rs)
    /\ stock' = st /\ reserved' = rs
    /\ status' = Over(status, S, s)
    /\ told' = Over(told, S, notice)
    /\ UNCHANGED <<catalogue, orderRow, expired>>

Live(o) == status[o] = "PENDING" /\ ~expired[o]

(* cancelOrder: one missing variant rolls the cancellation back.           *)
CancelOrder(u, o) ==
    /\ Live(o) /\ owner[o] = u /\ ItemsFound({o})
    /\ Settle({o}, stock, Less(reserved, {o}), "CANCELLED", "cancelled")
    /\ paid' = Over(paid, {o}, "UNPAID")
    /\ payment' = Over(payment, {o}, "CANCELLED")

-----------------------------------------------------------------------------
(* PaymentService *)

SaveSuccess(p, o) ==
    /\ paid' = Over(paid, {o}, "PAID")
    /\ payment' = Over(payment, {p}, "SUCCESSFUL")
SaveFailure(p, o) ==
    /\ paid' = Over(paid, {o}, "UNPAID")
    /\ payment' = Over(payment, {p}, "FAILED")

(* Mutants: a completed payment takes nothing off the shelf; the order is   *)
(* not asked to be pending.                                                 *)
PaymentSucceedsStockKept(p, o) ==
    /\ payment[p] = "PENDING" /\ Live(o)
    /\ Settle({o}, stock, Less(reserved, {o}), "COMPLETED", "paid")
    /\ SaveSuccess(p, o)
PaymentSucceedsSettled(p, o) ==
    /\ payment[p] = "PENDING" /\ status[o] # "NONE" /\ ~expired[o]
    /\ Settle({o}, Less(stock, {o}), Less(reserved, {o}), "COMPLETED", "paid")
    /\ SaveSuccess(p, o)

(* confirmPayment, the payment went through.  The order is looked up by    *)
(* status and expiry alone, so it is any live order, not the payment's; an *)
(* item whose variant is not found is skipped.                             *)
PaymentSucceeds(p, o) ==
    /\ payment[p] = "PENDING" /\ Live(o)
    /\ Settle({o}, Less(stock, {o}), Less(reserved, {o}), "COMPLETED", "paid")
    /\ SaveSuccess(p, o)

(* Mutants: a refused payment keeps its reservation; takes the stock as     *)
(* well; is announced as completed.                                         *)
PaymentFailsKept(p, o) ==
    /\ payment[p] = "PENDING" /\ Live(o)
    /\ Settle({o}, stock, reserved, "CANCELLED", "failed")
    /\ SaveFailure(p, o)
PaymentFailsSelling(p, o) ==
    /\ payment[p] = "PENDING" /\ Live(o)
    /\ Settle({o}, Less(stock, {o}), Less(reserved, {o}), "CANCELLED", "failed")
    /\ SaveFailure(p, o)
PaymentFailsSayingPaid(p, o) ==
    /\ payment[p] = "PENDING" /\ Live(o)
    /\ Settle({o}, stock, Less(reserved, {o}), "CANCELLED", "paid")
    /\ SaveFailure(p, o)

(* confirmPayment, the payment was refused.                                *)
PaymentFails(p, o) ==
    /\ payment[p] = "PENDING" /\ Live(o)
    /\ Settle({o}, stock, Less(reserved, {o}), "CANCELLED", "failed")
    /\ SaveFailure(p, o)

Reopen(p) ==
    /\ payment' = [payment EXCEPT ![p] = "PENDING"]
    /\ status'  = [status EXCEPT ![p] = "PENDING"]
    /\ told'    = [told EXCEPT ![p] = "paid"]
    /\ UNCHANGED <<counters, catalogue, paid, orderRow, expired>>

(* Mutant: any payment that did not go through can be retried.              *)
RetryPaymentUnpaid(u, p) ==
    payment[p] \in {"FAILED", "CANCELLED"} /\ owner[p] = u /\ Reopen(p)

(* retryPayment puts payment and order back to PENDING whatever the order  *)
(* has become; it reserves nothing, leaves expires_at and payment_status   *)
(* alone, and announces a completed payment.                               *)
RetryPayment(u, p) ==
    payment[p] = "FAILED" /\ owner[p] = u /\ Reopen(p)

-----------------------------------------------------------------------------
(* OrderWorkerJob.cancelExpiredOrders: every 30 seconds, one transaction   *)
(* for all pending orders past their expiry.                               *)

(* Mutant: the worker looks for pending payments as well.                   *)
OverdueUnpaid == {o \in Pending : expired[o] /\ payment[o] = "PENDING"}

Overdue == {o \in Pending : expired[o]}

(* Mutants: the expired orders are not saved; their payments are not saved. *)
CancelExpiredOrdersUnsaved ==
    /\ Overdue # {} /\ ItemsFound(Overdue)
    /\ Settle(Overdue, stock, Less(reserved, Overdue), "PENDING", "expired")
    /\ payment' = Over(payment, Overdue, "CANCELLED")
    /\ UNCHANGED paid
CancelExpiredOrdersPaymentKept ==
    /\ Overdue # {} /\ ItemsFound(Overdue)
    /\ Settle(Overdue, stock, Less(reserved, Overdue), "EXPIRED", "expired")
    /\ UNCHANGED <<paid, payment>>

CancelExpiredOrders ==
    /\ Overdue # {} /\ ItemsFound(Overdue)
    /\ Settle(Overdue, stock, Less(reserved, Overdue), "EXPIRED", "expired")
    /\ payment' = Over(payment, Overdue, "CANCELLED")
    /\ UNCHANGED paid

(* What a handler emits before its transaction commits.  A transaction that *)
(* then rolls back, at a later order, at a save or because the connection   *)
(* is lost, leaves nothing else behind.  (The order that a creation then    *)
(* announced is in no table, and has no place here.)                        *)
CanExpire(S) == ItemsFound(S) /\ ChecksHold(stock, Less(reserved, S))

Emits(S, notice) ==
    \/ notice = "expired" /\ S \subseteq Overdue /\ CanExpire(S)
    \/ \E o \in Orders :
          /\ S = {o} /\ Live(o)
          /\ \/ notice = "cancelled" /\ CanExpire(S)
             \/ /\ \E p \in Orders : payment[p] = "PENDING"
                /\ \/ notice = "paid"   /\ ChecksHold(Less(stock, S), Less(reserved, S))
                   \/ notice = "failed" /\ ChecksHold(stock, Less(reserved, S))

RollsBack ==
    /\ \E S \in SUBSET Orders, notice \in Notice :
          Emits(S, notice) /\ told' = Over(told, S, notice)
    /\ UNCHANGED <<counters, catalogue, status, paid, orderRow, expired, payment>>

(* expires_at, one hour after the order was created, goes by.              *)
HourPasses(o) ==
    /\ status[o] # "NONE" /\ ~expired[o]
    /\ expired' = [expired EXCEPT ![o] = TRUE]
    /\ UNCHANGED <<counters, catalogue, status, paid, orderRow, payment, told>>

-----------------------------------------------------------------------------
(* Everything but a retry of a failed payment and a transaction that fails. *)
CheckoutNext ==
    \/ \E u \in Users, o \in Orders, cart \in Cart : CreateOrder(u, o, cart)
    \/ \E u \in Users, o \in Orders : CancelOrder(u, o)
    \/ \E p, o \in Orders : PaymentSucceeds(p, o)
    \/ \E p, o \in Orders : PaymentFails(p, o)
    \/ CancelExpiredOrders
    \/ \E o \in Orders : HourPasses(o)

Next ==
    \/ CheckoutNext
    \/ \E u \in Users, p \in Orders : RetryPayment(u, p)
    \/ RollsBack

(* The cron job keeps firing and the clock keeps running; nobody has to     *)
(* order, pay or cancel.                                                     *)
Fairness ==
    /\ WF_vars(CancelExpiredOrders)
    /\ \A o \in Orders : WF_vars(HourPasses(o))

Spec         == Init /\ [][Next]_vars /\ Fairness
CheckoutSpec == Init /\ [][CheckoutNext]_vars /\ Fairness

-----------------------------------------------------------------------------
(* Safety of checkout and expiry, whoever confirms whose payment.           *)

(* The ledger: what a variant has reserved is exactly what the pending      *)
(* orders hold of it (order.service.ts reserves, the four other handlers    *)
(* release).                                                                *)
LedgerExact ==
    \A v \in Variants : reserved[v] = Qty(items, Pending, sku[v])

(* Stock leaves the shelf once per unit of a completed order, and for no    *)
(* other reason (payment.service.ts:139).                                   *)
StockExact ==
    \A v \in Variants : stock[v] + Qty(items, Completed, sku[v]) = InitialStock[v]

(* Every pending order can still be paid, and can still be cancelled or     *)
(* expired: no CHECK constraint stands in the way of settling any set of    *)
(* pending orders in one transaction.                                       *)
PendingCanSettle ==
    /\ ChecksHold(stock, Less(reserved, Pending))
    /\ \A o \in Pending :
         /\ ChecksHold(stock, Less(reserved, {o}))
         /\ ChecksHold(Less(stock, {o}), Less(reserved, {o}))

(* What createOrder promises when it refuses a second order: 'You have one  *)
(* pending order' (order.service.ts:56).                                    *)
OnePendingPerUser ==
    \A o, p \in Pending : owner[o] = owner[p] => o = p

(* The last thing its owner heard of an order is what became of it.         *)
NoticeTrue ==
    \A o \in Orders :
        /\ told[o] = "created"              <=> status[o] = "PENDING"
        /\ told[o] = "paid"                 <=> status[o] = "COMPLETED"
        /\ told[o] \in {"cancelled", "failed"} <=> status[o] = "CANCELLED"
        /\ told[o] = "expired"              <=> status[o] = "EXPIRED"

(* The reservations that the counters stand for: checkout and expiry keep   *)
(* the promise of Reservations, each handler one step of it.                *)
Phase(s) ==
    CASE s = "NONE"      -> "new"
      [] s = "PENDING"   -> "held"
      [] s = "COMPLETED" -> "sold"
      [] OTHER           -> "released"

R == INSTANCE Reservations WITH
        wants <- [o \in Orders |-> [v \in Variants |-> items[o][sku[v]]]],
        phase <- [o \in Orders |-> Phase(status[o])]

KeepsReservations == R!Spec

-----------------------------------------------------------------------------
(* What a retry leaves standing.                                            *)

(* No pair of shoes is sold that was never in stock.                        *)
NeverOversold ==
    \A v \in Variants : stock[v] + Qty(items, Completed, sku[v]) <= InitialStock[v]

(* The payment of an expired order is cancelled with it, retries included.  *)
ExpiredPaymentCancelled ==
    \A o \in Orders : status[o] = "EXPIRED" => payment[o] = "CANCELLED"

(* No handler takes an order out of EXPIRED, and none its payment out of    *)
(* CANCELLED: retryPayment must not find it FAILED (payment.service.ts:214). *)
ExpiredIsFinal ==
    [][\A o \in Orders :
          status[o] = "EXPIRED" => /\ status'[o] = "EXPIRED"
                                   /\ payment'[o] = "CANCELLED"]_vars

(* What its owner last heard of an order that is settled is what became of  *)
(* it.  Of an order still pending they may have heard anything: a retry     *)
(* says that it is paid, a transaction that rolled back, what it had meant  *)
(* to do.                                                                   *)
SettledNoticeTrue ==
    \A o \in Orders :
        /\ status[o] = "NONE"      => told[o] = "none"
        /\ status[o] = "PENDING"   => told[o] # "none"
        /\ status[o] = "COMPLETED" => told[o] = "paid"
        /\ status[o] = "CANCELLED" => told[o] \in {"cancelled", "failed"}
        /\ status[o] = "EXPIRED"   => told[o] = "expired"

(* Only a confirmation sells: a unit of stock leaves with an order that     *)
(* was live and becomes COMPLETED and PAID in the same commit, and nothing  *)
(* puts stock back.                                                         *)
StockLeavesByPayment ==
    [][stock' # stock =>
         /\ \A v \in Variants : stock'[v] <= stock[v]
         /\ \E o \in Orders :
              /\ status[o] = "PENDING" /\ ~expired[o]
              /\ status'[o] = "COMPLETED" /\ paid'[o] = "PAID"]_vars

=============================================================================
