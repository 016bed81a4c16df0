------------------------------- MODULE OrderTx -------------------------------
(***************************************************************************)
(* The handlers of the order service, the payment service and the order    *)
(* worker as they run side by side on PostgreSQL at READ COMMITTED: an      *)
(* unlocked read that decides what to do, one SELECT ... FOR UPDATE per     *)
(* variant that waits for the transaction holding the row, and a commit     *)
(* that writes the rows back as the session has them in memory.            *)
(*                                                                         *)
(* The variables named like columns are the committed rows.  The catalogue  *)
(* stands still here (every variant is ACTIVE), so an item names its        *)
(* variant.                                                                *)
(***************************************************************************)
EXTENDS Quantities

CONSTANTS
    Users, NoUser,
    Orders,
    Variants, NoVariant,
    Sessions, NoSession,    \* database sessions: one handler at a time each
    InitialStock

ASSUME OrdersAssumption == IsFiniteSet(Orders)
ASSUME UsersAssumption == NoUser \notin Users
ASSUME VariantsAssumption == NoVariant \notin Variants
ASSUME SessionsAssumption == IsFiniteSet(Sessions) /\ NoSession \notin Sessions
ASSUME StockAssumption == InitialStock \in [Variants -> Nat]

VARIABLES
    stock, reserved,                    \* product_variants
    status, paid, owner, items, expired,\* orders and order_items
    payment,                            \* payments, by order_id
    lock,       \* the session that holds the row lock of a variant
    tx          \* what each session is doing, with what it has in memory

counters == <<stock, reserved>>
orderRow == <<status, paid, owner, items, expired>>
rows     == <<counters, orderRow, payment>>
vars     == <<rows, lock, tx>>

Cart == [Variants -> 0..MaxQty]
Steps == {"idle", "picking", "locking", "writing", "retryPayment", "retryOrder"}
Handlers == {"none", "create", "cancel", "pay", "fail", "expire", "retry"}

(* A session with nothing in memory.                                        *)
Idle == [step   |-> "idle",
         op     |-> "none",
         user   |-> NoUser,
         cart   |-> [v \in Variants |-> 0],
         orders |-> {},             \* the orders it settles
         pays   |-> {},             \* the orders whose payment row it writes
         paid   |-> [o \in Orders |-> "UNPAID"],  \* payment_status as it read it
         want   |-> NoVariant,      \* the row it asks the lock of
         todo   |-> {},             \* the rows it asks for after that
         rows   |-> {},             \* the rows it has locked and read,
         stock    |-> [v \in Variants |-> 0],   \* and what it read
         reserved |-> [v \in Variants |-> 0]]

TypeOK ==
    /\ stock    \in [Variants -> Nat]
    /\ reserved \in [Variants -> Nat]
    /\ status   \in [Orders -> {"NONE", "PENDING", "COMPLETED", "CANCELLED", "EXPIRED"}]
    /\ paid     \in [Orders -> {"PAID", "UNPAID"}]
    /\ owner    \in [Orders -> Users \cup {NoUser}]
    /\ items    \in [Orders -> Cart]
    /\ expired  \in [Orders -> BOOLEAN]
    /\ payment  \in [Orders -> {"NONE", "PENDING", "SUCCESSFUL", "FAILED", "CANCELLED"}]
    /\ lock     \in [Variants -> Sessions \cup {NoSession}]
    /\ tx       \in [Sessions ->
            [step : Steps, op : Handlers, user : Users \cup {NoUser}, cart : Cart,
             orders : SUBSET Orders, pays : SUBSET Orders,
             paid : [Orders -> {"PAID", "UNPAID"}], want : Variants \cup {NoVariant},
             todo : SUBSET Variants, rows : SUBSET Variants, stock : [Variants -> Nat],
             reserved : [Variants -> Nat]]]

Init ==
    /\ stock = InitialStock
    /\ reserved = [v \in Variants |-> 0]
    /\ status = [o \in Orders |-> "NONE"]
    /\ paid = [o \in Orders |-> "UNPAID"]
    /\ owner = [o \in Orders |-> NoUser]
    /\ items = [o \in Orders |-> [v \in Variants |-> 0]]
    /\ expired = [o \in Orders |-> FALSE]
    /\ payment = [o \in Orders |-> "NONE"]
    /\ lock = [v \in Variants |-> NoSession]
    /\ tx = [s \in Sessions |-> Idle]

-----------------------------------------------------------------------------

Having(st) == {o \in Orders : status[o] = st}
Pending    == Having("PENDING")
Completed  == Having("COMPLETED")
Live       == {o \in Pending : ~expired[o]}     \* PENDING, expires_at ahead
Overdue    == {o \in Pending : expired[o]}      \* PENDING, expires_at behind

VariantsOf(S) == {v \in Variants : \E o \in S : items[o][v] > 0}

(* The session goes on as e; rows and locks are as they were.               *)
Goes(s, e) == tx' = [tx EXCEPT ![s] = e] /\ UNCHANGED <<rows, lock>>

(* It goes on to lock the rows in V, some row first.  The order is that of  *)
(* the items, or of the scan of one query: the code fixes neither.          *)
LocksNext(s, e, V) ==
    \E v \in V : Goes(s, [e EXCEPT !.step = "locking", !.want = v, !.todo = V \ {v}])

-----------------------------------------------------------------------------
(* First statements: unlocked reads of committed rows.                      *)

(* createOrder has seen no pending order of the user.                       *)
BeginCreate(s, u, cart) ==
    /\ tx[s].step = "idle"
    /\ \A o \in Pending : owner[o] # u
    /\ Cardinality(Having("NONE"))         \* bound: an identifier is left
          > Cardinality({t \in Sessions : tx[t].op = "create"})
    /\ LocksNext(s, [Idle EXCEPT !.op = "create", !.user = u, !.cart = cart],
                 {v \in Variants : cart[v] > 0})

(* cancelOrder has found the user's order live.                             *)
BeginCancel(s, u, o) ==
    /\ tx[s].step = "idle"
    /\ o \in Live /\ owner[o] = u
    /\ LocksNext(s, [Idle EXCEPT !.op = "cancel", !.orders = {o}, !.pays = {o}],
                 VariantsOf({o}))

(* confirmPayment has found the payment pending ...                         *)
BeginConfirm(s, p) ==
    /\ tx[s].step = "idle"
    /\ payment[p] = "PENDING"
    /\ Goes(s, [Idle EXCEPT !.step = "picking", !.pays = {p}])

(* ... then takes some live order, or gives up when there is none, and      *)
(* draws whether the payment succeeds.                                      *)
PickOrder(s, o, result) ==
    /\ tx[s].step = "picking"
    /\ o \in Live
    /\ LocksNext(s, [tx[s] EXCEPT !.op = result, !.orders = {o}], VariantsOf({o}))

NoOrderToPay(s) ==
    /\ tx[s].step = "picking"
    /\ Live = {}
    /\ Goes(s, Idle)

(* The worker has found overdue orders.  The cron job does not wait for its *)
(* last run, so two sessions may be at it.                                  *)
BeginExpire(s) ==
    /\ tx[s].step = "idle"
    /\ Overdue # {}
    /\ LocksNext(s, [Idle EXCEPT !.op = "expire", !.orders = Overdue,
                                 !.pays = Overdue, !.paid = paid],
                 VariantsOf(Overdue))

(* retryPayment has found the user's payment failed; no transaction.        *)
BeginRetry(s, u, p) ==
    /\ tx[s].step = "idle"
    /\ payment[p] = "FAILED" /\ owner[p] = u
    /\ Goes(s, [Idle EXCEPT !.step = "retryPayment", !.op = "retry", !.orders = {p},
                            !.pays = {p}, !.paid = paid])

-----------------------------------------------------------------------------
(* The session reads the row it wants and goes on to the next, or to write. *)
ReadsRow(s) ==
    LET v == tx[s].want
        read == [tx[s] EXCEPT !.rows = @ \cup {v}, !.stock[v] = stock[v],
                              !.reserved[v] = reserved[v]]
    IN  \/ /\ tx[s].todo = {}
           /\ tx' = [tx EXCEPT ![s] =
                       [read EXCEPT !.step = "writing", !.want = NoVariant]]
        \/ \E w \in tx[s].todo :
              tx' = [tx EXCEPT ![s] = [read EXCEPT !.want = w, !.todo = @ \ {w}]]

(* Mutant: the variant is read without asking for its lock.                 *)
AcquireUnlocked(s) ==
    tx[s].step = "locking" /\ ReadsRow(s) /\ UNCHANGED <<rows, lock>>

(* SELECT ... FOR UPDATE returns once no other transaction holds the row,   *)
(* with the row as last committed.                                          *)
Acquire(s) ==
    /\ tx[s].step = "locking" /\ lock[tx[s].want] = NoSession
    /\ lock' = [lock EXCEPT ![tx[s].want] = s]
    /\ ReadsRow(s)
    /\ UNCHANGED rows

(* The variant rows as the session saves them: the ones it read, with its   *)
(* orders' quantities taken off, or with the cart put on.                   *)
Taken(s, v) ==
    IF tx[s].op = "create" THEN -tx[s].cart[v] ELSE Qty(items, tx[s].orders, v)
Sold(s, v) == IF tx[s].op = "pay" THEN Taken(s, v) ELSE 0

(* Mutant: a refused payment keeps its reservation.                         *)
NewReservedKeptOnFail(s) ==
    [v \in Variants |->
        IF v \in tx[s].rows /\ tx[s].op # "fail"
        THEN tx[s].reserved[v] - Taken(s, v) ELSE reserved[v]]

(* Mutant: a completed payment takes nothing off the shelf.                 *)
NewStockKept(s) == stock

NewReserved(s) ==
    [v \in Variants |->
        IF v \in tx[s].rows THEN tx[s].reserved[v] - Taken(s, v) ELSE reserved[v]]
NewStock(s) ==
    [v \in Variants |->
        IF v \in tx[s].rows THEN tx[s].stock[v] - Sold(s, v) ELSE stock[v]]

(* Mutant: the constraint reserved_stock >= 0 is missing.                   *)
ChecksHoldOneSided(st, rs) == \A v \in Variants : st[v] >= 0 /\ rs[v] <= st[v]

(* The CHECK constraints of product_variants.                               *)
ChecksHold(st, rs) ==
    \A v \in Variants : st[v] >= 0 /\ rs[v] >= 0 /\ rs[v] <= st[v]

Accepted(s) ==
    /\ tx[s].op = "create" =>
          \A v \in Variants :
             tx[s].cart[v] > 0 => tx[s].stock[v] - tx[s].reserved[v] >= tx[s].cart[v]
    /\ ChecksHold(NewStock(s), NewReserved(s))

Ends(s) ==
    /\ tx' = [tx EXCEPT ![s] = Idle]
    /\ lock' = [v \in Variants |-> IF lock[v] = s THEN NoSession ELSE lock[v]]

SavesVariants(s) ==
    /\ tx[s].step = "writing" /\ Accepted(s)
    /\ stock' = NewStock(s)
    /\ reserved' = NewReserved(s)

CommitCreate(s, o) ==
    /\ tx[s].op = "create" /\ status[o] = "NONE"
    /\ SavesVariants(s)
    /\ status'  = [status EXCEPT ![o] = "PENDING"]
    /\ paid'    = [paid EXCEPT ![o] = "UNPAID"]
    /\ owner'   = [owner EXCEPT ![o] = tx[s].user]
    /\ items'   = [items EXCEPT ![o] = tx[s].cart]
    /\ payment' = [payment EXCEPT ![o] = "PENDING"]
    /\ Ends(s)
    /\ UNCHANGED expired

(* cancelOrder, confirmPayment and the worker write order and payment       *)
(* without looking at them again.                                           *)
CommitSettle(s, op, orderStatus, orderPaid, paymentStatus) ==
    /\ tx[s].op = op
    /\ SavesVariants(s)
    /\ status'  = [o \in Orders |-> IF o \in tx[s].orders THEN orderStatus ELSE status[o]]
    /\ paid'    = [o \in Orders |-> IF o \in tx[s].orders THEN orderPaid[o] ELSE paid[o]]
    /\ payment' = [o \in Orders |-> IF o \in tx[s].pays THEN paymentStatus ELSE payment[o]]
    /\ Ends(s)
    /\ UNCHANGED <<owner, items, expired>>

All(p) == [o \in Orders |-> p]

Commit(s) ==
    \/ \E o \in Orders : CommitCreate(s, o)
    \/ CommitSettle(s, "cancel", "CANCELLED", All("UNPAID"), "CANCELLED")
    \/ CommitSettle(s, "pay", "COMPLETED", All("PAID"), "SUCCESSFUL")
    \/ CommitSettle(s, "fail", "CANCELLED", All("UNPAID"), "FAILED")
    \/ CommitSettle(s, "expire", "EXPIRED", tx[s].paid, "CANCELLED")

(* Mutant: the failed transaction is never rolled back.                     *)
RejectWithoutRollback(s) ==
    /\ tx[s].step = "writing" /\ ~Accepted(s)
    /\ tx' = [tx EXCEPT ![s] = Idle]
    /\ UNCHANGED <<rows, lock>>

(* Too little stock, or a CHECK constraint: the transaction rolls back.     *)
Reject(s) ==
    /\ tx[s].step = "writing" /\ ~Accepted(s)
    /\ Ends(s)
    /\ UNCHANGED rows

(* retryPayment: two saves, two commits.                                    *)
SaveRetriedPayment(s) ==
    /\ tx[s].step = "retryPayment"
    /\ payment' = [o \in Orders |-> IF o \in tx[s].pays THEN "PENDING" ELSE payment[o]]
    /\ tx' = [tx EXCEPT ![s].step = "retryOrder"]
    /\ UNCHANGED <<counters, orderRow, lock>>

SaveRetriedOrder(s) ==
    /\ tx[s].step = "retryOrder"
    /\ status' = [o \in Orders |-> IF o \in tx[s].orders THEN "PENDING" ELSE status[o]]
    /\ paid' = [o \in Orders |-> IF o \in tx[s].orders THEN tx[s].paid[o] ELSE paid[o]]
    /\ Ends(s)
    /\ UNCHANGED <<counters, owner, items, expired, payment>>

-----------------------------------------------------------------------------
(* Sessions that wait for each other in a ring: PostgreSQL finds the ring   *)
(* and rolls one of them back.                                              *)
WaitsIn(s, C) == tx[s].step = "locking" /\ lock[tx[s].want] \in C
Stuck(C) == C # {} /\ \A s \in C : WaitsIn(s, C)
Ring(C) == Stuck(C) /\ \A D \in SUBSET C : Stuck(D) => D = C

DeadlockVictim(s) ==
    /\ \E C \in SUBSET Sessions : s \in C /\ Ring(C)
    /\ Ends(s)
    /\ UNCHANGED rows

(* The process or its connection dies: a transaction rolls back, but what   *)
(* retryPayment has saved stays.                                            *)
Crash(s) ==
    /\ tx[s].step # "idle"
    /\ Ends(s)
    /\ UNCHANGED rows

HourPasses(o) ==
    /\ status[o] # "NONE" /\ ~expired[o]
    /\ expired' = [expired EXCEPT ![o] = TRUE]
    /\ UNCHANGED <<counters, status, paid, owner, items, payment, lock, tx>>

-----------------------------------------------------------------------------

Picks(s) ==
    \/ \E o \in Orders, result \in {"pay", "fail"} : PickOrder(s, o, result)
    \/ NoOrderToPay(s)

CheckoutStep(s) ==
    \/ \E u \in Users, cart \in Cart : BeginCreate(s, u, cart)
    \/ \E u \in Users, o \in Orders : BeginCancel(s, u, o)
    \/ \E p \in Orders : BeginConfirm(s, p)
    \/ Picks(s)
    \/ BeginExpire(s)
    \/ Acquire(s)
    \/ Commit(s)
    \/ Reject(s)
    \/ DeadlockVictim(s)
    \/ Crash(s)

CheckoutNext ==
    \/ \E s \in Sessions : CheckoutStep(s)
    \/ \E o \in Orders : HourPasses(o)

RetryStep(s) ==
    \/ \E u \in Users, p \in Orders : BeginRetry(s, u, p)
    \/ SaveRetriedPayment(s)
    \/ SaveRetriedOrder(s)

Next == CheckoutNext \/ \E s \in Sessions : RetryStep(s)

(* A handler that has begun goes on.  PostgreSQL queues the requests for a  *)
(* row lock, so one that is free again and again is granted; and it breaks  *)
(* every ring.  Nobody has to begin anything.                               *)
Fairness ==
    \A s \in Sessions :
        /\ WF_vars(Picks(s))
        /\ SF_vars(Acquire(s))
        /\ WF_vars(Commit(s) \/ Reject(s))
        /\ WF_vars(SaveRetriedPayment(s) \/ SaveRetriedOrder(s))
        /\ WF_vars(DeadlockVictim(s))

Spec == Init /\ [][Next]_vars /\ Fairness
CheckoutSpec == Init /\ [][CheckoutNext]_vars

(* No two handlers that settle the same order overlap: together with        *)
(* CheckoutNext, which has no retry, the condition of AdminSpec.            *)
Apart ==
    \A s, t \in Sessions : s # t => tx[s].orders \cap tx[t].orders = {}

-----------------------------------------------------------------------------
(* What the row locks achieve however the handlers interleave.              *)

(* No handler's change of a counter is lost: only commits change counters,  *)
(* and each moves them by exactly what its session put on or took off,      *)
(* counted from what the commit before it left.                             *)
NoLostUpdate ==
    [][/\ counters' # counters => \E s \in Sessions : Commit(s)
       /\ \A s \in Sessions : Commit(s) =>
            \A v \in Variants : /\ reserved'[v] = reserved[v] - Taken(s, v)
                                /\ stock'[v] = stock[v] - Sold(s, v)]_vars

(* No pair of shoes is sold that was never in stock, however many           *)
(* confirmations, cancellations and retries of an order race.               *)
NeverOversold ==
    \A v \in Variants : stock[v] + Qty(items, Completed, v) <= InitialStock[v]

(* Every handler comes to an end: rings of row locks are broken.            *)
SessionsFinish ==
    \A s \in Sessions : tx[s].step # "idle" ~> tx[s].step = "idle"

-----------------------------------------------------------------------------
(* What holds as long as no two handlers settle the same order at once: the *)
(* row locks alone make the counters as good as the abstract reservations.  *)
Phase(st) ==
    CASE st = "NONE"      -> "new"
      [] st = "PENDING"   -> "held"
      [] st = "COMPLETED" -> "sold"
      [] OTHER            -> "released"

R == INSTANCE Reservations WITH
        wants <- items, phase <- [o \in Orders |-> Phase(status[o])]

(* The ledger of OrderFlow.                                                  *)
LedgerExact ==
    \A v \in Variants : reserved[v] = Qty(items, Pending, v)

-----------------------------------------------------------------------------
(* What the project says of the program and its races break.                *)

(* 'Users may only order sizes in stock' (README.md:67): what the pending   *)
(* orders hold is on the shelf.                                             *)
PendingInStock ==
    \A v \in Variants : Qty(items, Pending, v) <= stock[v]
=============================================================================
