--------------------------- MODULE OrderFlowProofs ---------------------------
(***************************************************************************)
(* What OrderFlow guarantees for any number of users, orders, variants and *)
(* units.  TypeOK comes first; then the ledger and its strengthening, what *)
(* a retry leaves standing, and the refinement of Reservations.            *)
(***************************************************************************)
EXTENDS OrderFlow, QuantitiesProofs

-----------------------------------------------------------------------------
(* Totals over sets of orders are naturals.                                *)
LEMMA TotalsAreNat ==
    ASSUME NEW S \in SUBSET Orders, NEW l
    PROVE  IsFiniteSet(S) /\ Qty(items, S, l) \in Nat
BY OrdersAssumption, FS_Subset, QtyType

(* A counter that passes the CHECK constraints after the orders in S are    *)
(* taken off is a natural for every variant.                                *)
LEMMA LessIsNat ==
    ASSUME NEW counter \in [Variants -> Nat], NEW S \in SUBSET Orders,
           \A v \in Variants : Less(counter, S)[v] >= 0
    PROVE  Less(counter, S) \in [Variants -> Nat]
<1>1. \A v \in Variants : Qty(items, S, sku[v]) \in Nat
  BY TotalsAreNat
<1> QED
  BY <1>1 DEF Less

(* Over gives a column only values of its type.                            *)
LEMMA OverType ==
    ASSUME NEW T, NEW f \in [Orders -> T], NEW S, NEW x \in T
    PROVE  Over(f, S, x) \in [Orders -> T]
BY DEF Over

(* A new order's items are quantities, and the item of a variant's sku has  *)
(* the quantity the cart asks of the variant, as long as the variants that  *)
(* exist, among them those of the cart, differ in their skus.               *)
LEMMA NewItemsOf ==
    ASSUME NEW cart \in Cart, NEW E \in SUBSET Variants, sku \in [Variants -> Skus],
           \A v \in Variants : cart[v] > 0 => v \in E,
           \A v, w \in E : sku[v] = sku[w] => v = w
    PROVE  /\ NewItems(cart) \in [Skus -> 0..MaxQty]
           /\ \A v \in E : NewItems(cart)[sku[v]] = cart[v]
<1>1. cart \in [Variants -> 0..MaxQty] /\ 0 \in 0..MaxQty
  BY MaxQtyAssumption DEF Cart
<1>2. ASSUME NEW l \in Skus
      PROVE  NewItems(cart)[l] \in 0..MaxQty
  <2>1. CASE \E v \in Variants : sku[v] = l /\ cart[v] > 0
    <3> DEFINE w == CHOOSE v \in Variants : sku[v] = l /\ cart[v] > 0
    <3>1. w \in Variants
      BY <2>1
    <3>2. NewItems(cart)[l] = cart[w]
      BY <2>1 DEF NewItems
    <3> QED
      BY <3>1, <3>2, <1>1
  <2>2. CASE ~ \E v \in Variants : sku[v] = l /\ cart[v] > 0
    BY <2>2, <1>1 DEF NewItems
  <2> QED
    BY <2>1, <2>2
<1>3. ASSUME NEW v \in E
      PROVE  NewItems(cart)[sku[v]] = cart[v]
  <2>1. CASE cart[v] > 0
    <3> DEFINE w == CHOOSE x \in Variants : sku[x] = sku[v] /\ cart[x] > 0
    <3>1. w \in E /\ sku[w] = sku[v]
      BY <2>1
    <3>2. w = v
      BY <3>1
    <3>3. NewItems(cart)[sku[v]] = cart[w]
      BY <2>1 DEF NewItems
    <3> QED
      BY <3>2, <3>3
  <2>2. CASE ~(cart[v] > 0)
    <3>1. cart[v] = 0
      BY <2>2, <1>1, MaxQtyAssumption
    <3>2. ~ \E x \in Variants : sku[x] = sku[v] /\ cart[x] > 0
      BY <2>2
    <3> QED
      BY <3>1, <3>2 DEF NewItems
  <2> QED
    BY <2>1, <2>2
<1>4. NewItems(cart) \in [Skus -> 0..MaxQty]
  <2>1. NewItems(cart) = [l \in Skus |-> NewItems(cart)[l]]
    BY DEF NewItems
  <2> QED
    BY <1>2, <2>1
<1> QED
  BY <1>3, <1>4

LEMMA NewItemsOfCart ==
    ASSUME TypeOK, NEW cart \in Cart
    PROVE  /\ NewItems(cart) \in [Skus -> 0..MaxQty]
           /\ \A v \in Variants : NewItems(cart)[sku[v]] = cart[v]
<1>1. sku \in [Variants -> Skus] /\ \A v, w \in Variants : sku[v] = sku[w] => v = w
  BY DEF TypeOK, Injection, IsInjective
<1> QED
  BY <1>1, NewItemsOf

-----------------------------------------------------------------------------
(* Every reachable state is well typed, retries and failed transactions     *)
(* included: in particular no save ever leaves a negative stock or a        *)
(* negative reserved_stock (the handlers of order.service.ts,               *)
(* payment.service.ts and order-worker.job.ts under the CHECK constraints). *)
LEMMA TypeStep == TypeOK /\ [Next]_vars => TypeOK'
<1> SUFFICES ASSUME TypeOK, [Next]_vars
             PROVE  TypeOK'
  OBVIOUS
<1> USE DEF TypeOK, OrderStatus, PaymentStatus, Notice
<1>1. ASSUME NEW u \in Users, NEW o \in Orders, NEW cart \in Cart,
             CreateOrder(u, o, cart)
      PROVE  TypeOK'
  <2>1. NewItems(cart) \in [Skus -> 0..MaxQty]
    BY NewItemsOfCart
  <2>2. items' \in [Orders -> [Skus -> 0..MaxQty]]
    BY <1>1, <2>1 DEF CreateOrder, InsertOrder
  <2>3. reserved' \in [Variants -> Nat]
    BY <1>1, MaxQtyAssumption DEF CreateOrder, InsertOrder, Cart
  <2> QED
    BY <1>1, <2>2, <2>3 DEF CreateOrder, InsertOrder, catalogue
<1>2. ASSUME NEW u \in Users, NEW o \in Orders, CancelOrder(u, o)
      PROVE  TypeOK'
  <2>1. Settle({o}, stock, Less(reserved, {o}), "CANCELLED", "cancelled")
    BY <1>2 DEF CancelOrder
  <2>2. reserved' \in [Variants -> Nat]
    BY <2>1, LessIsNat DEF Settle, ChecksHold
  <2>3. /\ status' \in [Orders -> OrderStatus] /\ told' \in [Orders -> Notice]
        /\ payment' \in [Orders -> PaymentStatus]
        /\ paid' \in [Orders -> {"PAID", "UNPAID"}]
    BY <1>2, OverType DEF CancelOrder, Settle
  <2> QED
    BY <2>1, <2>2, <2>3 DEF Settle, catalogue, orderRow
<1>3. ASSUME NEW p \in Orders, NEW o \in Orders, PaymentSucceeds(p, o)
      PROVE  TypeOK'
  <2>1. Settle({o}, Less(stock, {o}), Less(reserved, {o}), "COMPLETED", "paid")
    BY <1>3 DEF PaymentSucceeds
  <2>2. reserved' \in [Variants -> Nat]
    BY <2>1, LessIsNat DEF Settle, ChecksHold
  <2>3. stock' \in [Variants -> Nat]
    BY <2>1, LessIsNat DEF Settle, ChecksHold
  <2>4. /\ status' \in [Orders -> OrderStatus] /\ told' \in [Orders -> Notice]
        /\ payment' \in [Orders -> PaymentStatus]
        /\ paid' \in [Orders -> {"PAID", "UNPAID"}]
    BY <1>3, OverType DEF PaymentSucceeds, SaveSuccess, Settle
  <2> QED
    BY <2>1, <2>2, <2>3, <2>4 DEF Settle, catalogue, orderRow
<1>4. ASSUME NEW p \in Orders, NEW o \in Orders, PaymentFails(p, o)
      PROVE  TypeOK'
  <2>1. Settle({o}, stock, Less(reserved, {o}), "CANCELLED", "failed")
    BY <1>4 DEF PaymentFails
  <2>2. reserved' \in [Variants -> Nat]
    BY <2>1, LessIsNat DEF Settle, ChecksHold
  <2>3. /\ status' \in [Orders -> OrderStatus] /\ told' \in [Orders -> Notice]
        /\ payment' \in [Orders -> PaymentStatus]
        /\ paid' \in [Orders -> {"PAID", "UNPAID"}]
    BY <1>4, OverType DEF PaymentFails, SaveFailure, Settle
  <2> QED
    BY <2>1, <2>2, <2>3 DEF Settle, catalogue, orderRow
<1>5. ASSUME CancelExpiredOrders
      PROVE  TypeOK'
  <2>1. Settle(Overdue, stock, Less(reserved, Overdue), "EXPIRED", "expired")
    BY <1>5 DEF CancelExpiredOrders
  <2>2. Overdue \in SUBSET Orders
    BY DEF Overdue, Pending, Having
  <2>3. reserved' \in [Variants -> Nat]
    BY <2>1, <2>2, LessIsNat DEF Settle, ChecksHold
  <2> QED
    BY <1>5, <2>1, <2>3 DEF CancelExpiredOrders, Settle, Over, catalogue, orderRow
<1>6. ASSUME NEW o \in Orders, HourPasses(o)
      PROVE  TypeOK'
  BY <1>6 DEF HourPasses, catalogue, counters, orderRow
<1>7. ASSUME NEW u \in Users, NEW p \in Orders, RetryPayment(u, p)
      PROVE  TypeOK'
  BY <1>7 DEF RetryPayment, Reopen, catalogue, counters, orderRow
<1>8. ASSUME RollsBack
      PROVE  TypeOK'
  BY <1>8 DEF RollsBack, Over, catalogue, counters, orderRow
<1>9. CASE UNCHANGED vars
  BY <1>9 DEF vars
<1> QED
  BY <1>1, <1>2, <1>3, <1>4, <1>5, <1>6, <1>7, <1>8, <1>9 DEF Next, CheckoutNext

LEMMA TypeInit == Init => TypeOK
BY StockAssumption, MaxQtyAssumption
   DEF Init, TypeOK, Shelf, OrderStatus, PaymentStatus, Notice

THEOREM TypeCorrect == Spec => []TypeOK
<1> QED
  BY TypeInit, TypeStep, PTL DEF Spec

-----------------------------------------------------------------------------
(***************************************************************************)
(* The ledger.  LedgerExact alone is not inductive: that a handler finds   *)
(* the variant of every item needs AllOnSale, that releasing an order      *)
(* passes the CHECKs needs ReservedInStock, and StockExact needs that only *)
(* a pending order is sold.                                                *)
(***************************************************************************)
AllOnSale == \A v \in Variants : shelf[v] = "ACTIVE"
ReservedInStock == \A v \in Variants : reserved[v] <= stock[v]
IInv == TypeOK /\ AllOnSale /\ ReservedInStock /\ LedgerExact /\ StockExact

(* What settling pending orders does to the sets of orders.                 *)
LEMMA SettleMoves ==
    ASSUME NEW S \in SUBSET Pending, NEW s \in OrderStatus \ {"PENDING"},
           status' = Over(status, S, s)
    PROVE  /\ Pending' = Pending \ S
           /\ Completed' = IF s = "COMPLETED" THEN Completed \cup S ELSE Completed
           /\ Completed \cap S = {}
BY DEF Pending, Completed, Having, Over

(* Taking pending orders off the counter and out of Pending keeps the       *)
(* ledger exact, whichever handler does it.                                 *)
LEMMA ReleaseKeepsLedger ==
    ASSUME TypeOK, AllOnSale, LedgerExact, NEW S \in SUBSET Pending,
           reserved' = Less(reserved, S), items' = items, sku' = sku,
           Pending' = Pending \ S
    PROVE  LedgerExact'
<1> SUFFICES ASSUME NEW v \in Variants
             PROVE  reserved'[v] = Qty(items, Pending \ S, sku[v])
  BY Zenon DEF LedgerExact
<1>1. IsFiniteSet(Pending)
  BY TotalsAreNat DEF Pending, Having
<1>2. Qty(items, Pending \ S, sku[v])
        = Qty(items, Pending, sku[v]) - Qty(items, S, sku[v])
  BY <1>1, QtyRemove
<1>3. reserved'[v] = reserved[v] - Qty(items, S, sku[v])
  BY DEF Less, OnSale, AllOnSale
<1>4. reserved[v] = Qty(items, Pending, sku[v])
  BY DEF LedgerExact
<1> QED
  BY <1>2, <1>3, <1>4

(* A step that leaves stock and the completed orders alone keeps the books. *)
LEMMA StockUntouched ==
    ASSUME StockExact, stock' = stock, items' = items, sku' = sku,
           Completed' = Completed
    PROVE  StockExact'
BY Zenon DEF StockExact

LEMMA InvInit == Init => IInv
<1> SUFFICES ASSUME Init
             PROVE  IInv
  OBVIOUS
<1>1. Pending = {} /\ Completed = {}
  BY DEF Init, Pending, Completed, Having
<1>2. \A v \in Variants : Qty(items, {}, sku[v]) = 0
  BY QtyEmpty
<1>3. LedgerExact /\ StockExact
  BY <1>1, <1>2, StockAssumption DEF LedgerExact, StockExact, Init
<1>4. AllOnSale /\ ReservedInStock
  BY StockAssumption DEF AllOnSale, ReservedInStock, Init
<1> QED
  BY <1>3, <1>4, TypeInit DEF IInv

(* createOrder: the new order holds exactly what it reserved.               *)
LEMMA CreateKeepsInv ==
    ASSUME IInv, NEW u \in Users, NEW o \in Orders, NEW cart \in Cart,
           CreateOrder(u, o, cart)
    PROVE  ReservedInStock' /\ LedgerExact' /\ StockExact'
<1>1. /\ o \notin Pending /\ o \notin Completed
      /\ Pending' = Pending \cup {o} /\ Completed' = Completed
  BY DEF CreateOrder, InStock, InsertOrder, IInv, TypeOK, Pending, Completed, Having
<1>2. /\ Pending \in SUBSET Orders /\ IsFiniteSet(Pending)
      /\ Completed \in SUBSET Orders
  BY TotalsAreNat DEF Pending, Completed, Having
<1>3. ASSUME NEW S \in SUBSET Orders, o \notin S, NEW l
      PROVE  Qty(items', S, l) = Qty(items, S, l)
  <2>1. \A p \in S : items'[p][l] = items[p][l]
    BY <1>3 DEF CreateOrder, InStock, InsertOrder, IInv, TypeOK
  <2> QED
    BY <2>1, QtySame
<1>4. ASSUME NEW v \in Variants
      PROVE  Qty(items', {o}, sku[v]) = cart[v]
  <2>1. items'[o][sku[v]] = cart[v]
    BY NewItemsOfCart DEF CreateOrder, InStock, InsertOrder, IInv, TypeOK
  <2>2. cart[v] \in 0..MaxQty
    BY DEF Cart
  <2>3. ASSUME NEW it, it[o][sku[v]] = cart[v]
        PROVE  Qty(it, {o}, sku[v]) = cart[v]
    BY <2>2, <2>3, QtyOne
  <2> QED
    BY <2>1, <2>3
<1>5. LedgerExact'
  <2> SUFFICES ASSUME NEW v \in Variants
               PROVE  reserved'[v] = Qty(items', Pending \cup {o}, sku[v])
    BY <1>1, Zenon DEF CreateOrder, InStock, InsertOrder, catalogue, LedgerExact
  <2>1. IsFiniteSet({o}) /\ Pending \cap {o} = {}
    BY <1>1, FS_Singleton
  <2>2. Qty(items', Pending \cup {o}, sku[v])
          = Qty(items', Pending, sku[v]) + Qty(items', {o}, sku[v])
    BY <1>2, <2>1, QtyDisjoint
  <2>3. Qty(items', Pending, sku[v]) = Qty(items, Pending, sku[v])
    BY <1>1, <1>2, <1>3
  <2>4. reserved[v] = Qty(items, Pending, sku[v])
    BY DEF IInv, LedgerExact
  <2>5. reserved'[v] = reserved[v] + cart[v]
    BY DEF CreateOrder, InStock, InsertOrder
  <2> QED
    BY <1>4, <2>2, <2>3, <2>4, <2>5
<1>6. StockExact'
  <2> SUFFICES ASSUME NEW v \in Variants
               PROVE  stock[v] + Qty(items', Completed, sku[v]) = InitialStock[v]
    BY <1>1, Zenon DEF CreateOrder, InStock, InsertOrder, catalogue, StockExact
  <2>1. Qty(items', Completed, sku[v]) = Qty(items, Completed, sku[v])
    BY <1>1, <1>2, <1>3
  <2> QED
    BY <2>1 DEF IInv, StockExact
<1>7. ReservedInStock'
  <2> SUFFICES ASSUME NEW v \in Variants
               PROVE  reserved[v] + cart[v] <= stock[v]
    BY DEF CreateOrder, InStock, InsertOrder, ReservedInStock
  <2>1. cart[v] \in Nat /\ reserved[v] \in Nat /\ stock[v] \in Nat
    BY MaxQtyAssumption DEF IInv, TypeOK, Cart
  <2> QED
    BY <2>1 DEF CreateOrder, InStock, InsertOrder, IInv, ReservedInStock
<1> QED
  BY <1>5, <1>6, <1>7

(* Cancellation, refused payment and expiry release what was held.          *)
LEMMA ReleaseKeepsInv ==
    ASSUME IInv, NEW S \in SUBSET Pending,
           NEW s \in OrderStatus \ {"PENDING", "COMPLETED"}, NEW notice,
           Settle(S, stock, Less(reserved, S), s, notice)
    PROVE  ReservedInStock' /\ LedgerExact' /\ StockExact'
<1>1. /\ stock' = stock /\ reserved' = Less(reserved, S) /\ items' = items
      /\ sku' = sku /\ status' = Over(status, S, s)
  BY DEF Settle, catalogue, orderRow
<1>2. Pending' = Pending \ S /\ Completed' = Completed
  BY <1>1, SettleMoves DEF IInv
<1>3. LedgerExact'
  BY <1>1, <1>2, ReleaseKeepsLedger DEF IInv
<1>4. StockExact'
  BY <1>1, <1>2, StockUntouched DEF IInv
<1>5. ReservedInStock'
  BY DEF Settle, ChecksHold, ReservedInStock
<1> QED
  BY <1>3, <1>4, <1>5

(* A completed payment sells what was held.                                 *)
LEMMA SaleKeepsInv ==
    ASSUME IInv, NEW S \in SUBSET Pending, NEW notice,
           Settle(S, Less(stock, S), Less(reserved, S), "COMPLETED", notice)
    PROVE  ReservedInStock' /\ LedgerExact' /\ StockExact'
<1>1. /\ stock' = Less(stock, S) /\ reserved' = Less(reserved, S) /\ items' = items
      /\ sku' = sku /\ status' = Over(status, S, "COMPLETED")
  BY DEF Settle, catalogue, orderRow
<1>2. /\ Pending' = Pending \ S /\ Completed' = Completed \cup S
      /\ Completed \cap S = {}
  BY <1>1, SettleMoves DEF IInv, OrderStatus
<1>3. LedgerExact'
  BY <1>1, <1>2, ReleaseKeepsLedger DEF IInv
<1>4. StockExact'
  <2> SUFFICES ASSUME NEW v \in Variants
               PROVE  stock'[v] + Qty(items, Completed \cup S, sku[v])
                        = InitialStock[v]
    BY <1>1, <1>2, Zenon DEF StockExact
  <2>1. S \in SUBSET Orders /\ Completed \in SUBSET Orders
    BY DEF Pending, Completed, Having
  <2>2. /\ IsFiniteSet(Completed) /\ Qty(items, Completed, sku[v]) \in Nat
        /\ IsFiniteSet(S) /\ Qty(items, S, sku[v]) \in Nat
    BY <2>1, TotalsAreNat
  <2>3. Qty(items, Completed \cup S, sku[v])
          = Qty(items, Completed, sku[v]) + Qty(items, S, sku[v])
    BY <1>2, <2>2, QtyDisjoint
  <2>4. stock'[v] = stock[v] - Qty(items, S, sku[v])
    BY <1>1 DEF Less, OnSale, IInv, AllOnSale
  <2>5. stock[v] \in Nat /\ stock[v] + Qty(items, Completed, sku[v]) = InitialStock[v]
    BY DEF IInv, TypeOK, StockExact
  <2> QED
    BY <2>2, <2>3, <2>4, <2>5
<1>5. ReservedInStock'
  BY DEF Settle, ChecksHold, ReservedInStock
<1> QED
  BY <1>3, <1>4, <1>5

LEMMA InvStep == IInv /\ [CheckoutNext]_vars => IInv'
<1> SUFFICES ASSUME IInv, [CheckoutNext]_vars
             PROVE  IInv'
  OBVIOUS
<1>0. TypeOK /\ TypeOK'
  BY TypeStep DEF IInv, Next
<1>1. AllOnSale'
  <2>1. UNCHANGED catalogue
    BY DEF CheckoutNext, CreateOrder, InsertOrder, CancelOrder, PaymentSucceeds,
           PaymentFails, CancelExpiredOrders, Settle, HourPasses, vars, catalogue
  <2> QED
    BY <2>1 DEF IInv, AllOnSale, catalogue
<1>2. ASSUME NEW u \in Users, NEW o \in Orders, NEW cart \in Cart,
             CreateOrder(u, o, cart)
      PROVE  ReservedInStock' /\ LedgerExact' /\ StockExact'
  BY <1>2, CreateKeepsInv
<1>3. ASSUME NEW u \in Users, NEW o \in Orders, CancelOrder(u, o)
      PROVE  ReservedInStock' /\ LedgerExact' /\ StockExact'
  <2>1. /\ {o} \in SUBSET Pending
        /\ Settle({o}, stock, Less(reserved, {o}), "CANCELLED", "cancelled")
    BY <1>3 DEF CancelOrder, Live, Pending, Having
  <2> QED
    BY <2>1, ReleaseKeepsInv DEF OrderStatus
<1>4. ASSUME NEW p \in Orders, NEW o \in Orders, PaymentSucceeds(p, o)
      PROVE  ReservedInStock' /\ LedgerExact' /\ StockExact'
  <2>1. /\ {o} \in SUBSET Pending
        /\ Settle({o}, Less(stock, {o}), Less(reserved, {o}), "COMPLETED", "paid")
    BY <1>4 DEF PaymentSucceeds, Live, Pending, Having
  <2> QED
    BY <2>1, SaleKeepsInv
<1>5. ASSUME NEW p \in Orders, NEW o \in Orders, PaymentFails(p, o)
      PROVE  ReservedInStock' /\ LedgerExact' /\ StockExact'
  <2>1. /\ {o} \in SUBSET Pending
        /\ Settle({o}, stock, Less(reserved, {o}), "CANCELLED", "failed")
    BY <1>5 DEF PaymentFails, Live, Pending, Having
  <2> QED
    BY <2>1, ReleaseKeepsInv DEF OrderStatus
<1>6. ASSUME CancelExpiredOrders
      PROVE  ReservedInStock' /\ LedgerExact' /\ StockExact'
  <2>1. /\ Overdue \in SUBSET Pending
        /\ Settle(Overdue, stock, Less(reserved, Overdue), "EXPIRED", "expired")
    BY <1>6 DEF CancelExpiredOrders, Overdue
  <2> QED
    BY <2>1, ReleaseKeepsInv DEF OrderStatus
<1>7. ASSUME (\E o \in Orders : HourPasses(o)) \/ UNCHANGED vars
      PROVE  ReservedInStock' /\ LedgerExact' /\ StockExact'
  <2>1. /\ reserved' = reserved /\ stock' = stock /\ items' = items /\ sku' = sku
        /\ status' = status
    BY <1>7 DEF HourPasses, counters, catalogue, orderRow, vars
  <2>2. Pending' = Pending /\ Completed' = Completed
    BY <2>1 DEF Pending, Completed, Having
  <2>3. LedgerExact'
    BY <2>1, <2>2, Zenon DEF LedgerExact, IInv
  <2>4. StockExact'
    BY <2>1, <2>2, StockUntouched DEF IInv
  <2> QED
    BY <2>1, <2>3, <2>4 DEF IInv, ReservedInStock
<1>8. ReservedInStock' /\ LedgerExact' /\ StockExact'
  BY <1>2, <1>3, <1>4, <1>5, <1>6, <1>7, Zenon DEF CheckoutNext
<1> QED
  BY <1>0, <1>1, <1>8 DEF IInv

(* The inductive invariant of checkout and expiry.                          *)
THEOREM CheckoutInvariant == CheckoutSpec => []IInv
<1> QED
  BY InvInit, InvStep, PTL DEF CheckoutSpec

(* reserved_stock is exactly what the pending orders hold, whoever confirms *)
(* whose payment and however many orders the worker expires at once.        *)
THEOREM LedgerStaysExact == CheckoutSpec => []LedgerExact
<1>1. IInv => LedgerExact
  BY DEF IInv
<1> QED
  BY CheckoutInvariant, <1>1, PTL

(* stock goes down by the units of the completed orders and by no others.   *)
THEOREM StockStaysExact == CheckoutSpec => []StockExact
<1>1. IInv => StockExact
  BY DEF IInv
<1> QED
  BY CheckoutInvariant, <1>1, PTL

(* An exact ledger leaves room for every settlement.                        *)
LEMMA LedgerSettles == IInv => PendingCanSettle
<1> SUFFICES ASSUME IInv
             PROVE  PendingCanSettle
  OBVIOUS
<1>1. \A v \in Variants :
         /\ stock[v] \in Nat /\ reserved[v] \in Nat /\ reserved[v] <= stock[v]
         /\ Less(stock, Pending)[v] = stock[v] - Qty(items, Pending, sku[v])
         /\ Less(reserved, Pending)[v] = 0
         /\ reserved[v] = Qty(items, Pending, sku[v])
  BY DEF IInv, TypeOK, AllOnSale, ReservedInStock, LedgerExact, Less, OnSale
<1>2. ChecksHold(stock, Less(reserved, Pending))
  BY <1>1 DEF ChecksHold
<1>3. ASSUME NEW o \in Pending, NEW v \in Variants
      PROVE  /\ Qty(items, {o}, sku[v]) \in Nat
             /\ Qty(items, {o}, sku[v]) <= reserved[v]
             /\ Less(reserved, {o})[v] = reserved[v] - Qty(items, {o}, sku[v])
             /\ Less(stock, {o})[v] = stock[v] - Qty(items, {o}, sku[v])
  <2>1. IsFiniteSet(Pending) /\ {o} \in SUBSET Pending /\ {o} \in SUBSET Orders
    BY TotalsAreNat DEF Pending, Having
  <2>2. Qty(items, {o}, sku[v]) <= Qty(items, Pending, sku[v])
    BY <2>1, QtyMonotone
  <2>3. Qty(items, {o}, sku[v]) \in Nat
    BY <2>1, TotalsAreNat
  <2> QED
    BY <1>1, <2>2, <2>3 DEF Less, OnSale, IInv, AllOnSale
<1>4. ASSUME NEW o \in Pending
      PROVE  /\ ChecksHold(stock, Less(reserved, {o}))
             /\ ChecksHold(Less(stock, {o}), Less(reserved, {o}))
  <2>1. ASSUME NEW v \in Variants
        PROVE  /\ stock[v] >= 0 /\ Less(reserved, {o})[v] >= 0
               /\ Less(reserved, {o})[v] <= stock[v]
               /\ Less(stock, {o})[v] >= 0
               /\ Less(reserved, {o})[v] <= Less(stock, {o})[v]
    BY <1>1, <1>3
  <2> QED
    BY <2>1, Zenon DEF ChecksHold
<1> QED
  BY <1>2, <1>4 DEF PendingCanSettle

(* No CHECK constraint ever stands between a pending order and its end: it  *)
(* can be paid and released, alone or in the worker's batch                 *)
(* (order-worker.job.ts:60, payment.service.ts:143).                        *)
THEOREM PendingCanAlwaysSettle == CheckoutSpec => []PendingCanSettle
<1> QED
  BY CheckoutInvariant, LedgerSettles, PTL

-----------------------------------------------------------------------------
(* One pending order per user: no settling of an order creates a pending    *)
(* one, and createOrder asks first.                                          *)
OneInv == TypeOK /\ OnePendingPerUser

LEMMA OneStep == OneInv /\ [CheckoutNext]_vars => OneInv'
<1> SUFFICES ASSUME OneInv, [CheckoutNext]_vars
             PROVE  OnePendingPerUser'
  BY TypeStep DEF OneInv, Next
<1>1. ASSUME NEW u \in Users, NEW o \in Orders, NEW cart \in Cart,
             CreateOrder(u, o, cart)
      PROVE  OnePendingPerUser'
  <2>1. /\ Pending' = Pending \cup {o} /\ o \notin Pending
        /\ owner' = [owner EXCEPT ![o] = u]
        /\ \A p \in Pending : owner[p] # u
    BY <1>1 DEF CreateOrder, InsertOrder, Pending, Having, OneInv, TypeOK
  <2>2. owner'[o] = u /\ \A p \in Pending : owner'[p] = owner[p]
    BY <2>1 DEF Pending, Having, OneInv, TypeOK
  <2> QED
    BY <2>1, <2>2 DEF OneInv, OnePendingPerUser
<1>2. ASSUME Pending' \in SUBSET Pending, owner' = owner
      PROVE  OnePendingPerUser'
  BY <1>2 DEF OneInv, OnePendingPerUser
<1>3. ASSUME NEW S, NEW st, NEW rs, NEW s \in OrderStatus \ {"PENDING"}, NEW notice,
             Settle(S, st, rs, s, notice)
      PROVE  OnePendingPerUser'
  <2>1. Pending' \in SUBSET Pending /\ owner' = owner
    BY <1>3 DEF Settle, orderRow, Over, Pending, Having
  <2> QED
    BY <1>2, <2>1
<1>4. ASSUME (\E o \in Orders : HourPasses(o)) \/ UNCHANGED vars
      PROVE  OnePendingPerUser'
  <2>1. status' = status /\ owner' = owner
    BY <1>4 DEF HourPasses, orderRow, vars
  <2> QED
    BY <1>2, <2>1 DEF Pending, Having
<1>5. ASSUME NEW u \in Users, NEW o \in Orders, CancelOrder(u, o)
      PROVE  OnePendingPerUser'
  BY <1>3, <1>5 DEF CancelOrder, OrderStatus
<1>6. ASSUME NEW p \in Orders, NEW o \in Orders,
             PaymentSucceeds(p, o) \/ PaymentFails(p, o)
      PROVE  OnePendingPerUser'
  BY <1>3, <1>6 DEF PaymentSucceeds, PaymentFails, OrderStatus
<1>7. ASSUME CancelExpiredOrders
      PROVE  OnePendingPerUser'
  BY <1>3, <1>7 DEF CancelExpiredOrders, OrderStatus
<1> QED
  BY <1>1, <1>4, <1>5, <1>6, <1>7, Zenon DEF CheckoutNext

LEMMA OneInit == Init => OneInv
BY TypeInit DEF OneInv, OnePendingPerUser, Init, Pending, Having

(* Run one after the other, the handlers keep a user to one pending order   *)
(* (order.service.ts:49-57).                                                *)
THEOREM OnePendingHolds == CheckoutSpec => []OnePendingPerUser
<1>1. OneInv => OnePendingPerUser
  BY DEF OneInv
<1> QED
  BY OneInit, OneStep, <1>1, PTL DEF CheckoutSpec

-----------------------------------------------------------------------------
(***************************************************************************)
(* What OrderFlow guarantees although retryPayment reopens orders without  *)
(* reserving anything: nothing is oversold, expiry is final, and what an   *)
(* owner last heard of a settled order is true.                            *)
(***************************************************************************)

(* A step moves no variant and changes no item of an order it did not       *)
(* create.                                                                  *)
LEMMA CatalogueStands == [Next]_vars => UNCHANGED catalogue
BY DEF Next, CheckoutNext, CreateOrder, InsertOrder, CancelOrder, PaymentSucceeds,
       PaymentFails, CancelExpiredOrders, RollsBack, Settle, HourPasses,
       RetryPayment, Reopen, vars, catalogue

-----------------------------------------------------------------------------
(* Stock.  A sale takes from the shelf what it adds to the completed        *)
(* orders; a retry can only take an order out of these.                     *)
SoldInv == TypeOK /\ AllOnSale /\ NeverOversold

LEMMA NothingSold ==
    ASSUME TypeOK, NeverOversold, stock' = stock, sku' = sku,
           Completed' \in SUBSET Completed,
           \A o \in Completed' : items'[o] = items[o]
    PROVE  NeverOversold'
<1> SUFFICES ASSUME NEW v \in Variants
             PROVE  stock[v] + Qty(items', Completed', sku[v]) <= InitialStock[v]
  BY Zenon DEF NeverOversold
<1>1. Completed \in SUBSET Orders /\ Completed' \in SUBSET Orders
  BY DEF Completed, Having
<1>2. /\ IsFiniteSet(Completed) /\ Qty(items, Completed, sku[v]) \in Nat
      /\ Qty(items, Completed', sku[v]) \in Nat
  BY <1>1, TotalsAreNat
<1>3. Qty(items, Completed', sku[v]) <= Qty(items, Completed, sku[v])
  BY <1>2, QtyMonotone
<1>4. \A it, S : (\A o \in S : it[o] = items[o])
                    => Qty(it, S, sku[v]) = Qty(items, S, sku[v])
  BY QtySame
<1>5. Qty(items', Completed', sku[v]) = Qty(items, Completed', sku[v])
  BY <1>4
<1> QED
  BY <1>2, <1>3, <1>5, StockAssumption DEF NeverOversold, TypeOK

LEMMA SaleIsCovered ==
    ASSUME SoldInv, NEW S \in SUBSET Pending, NEW notice,
           Settle(S, Less(stock, S), Less(reserved, S), "COMPLETED", notice)
    PROVE  NeverOversold'
<1>1. /\ stock' = Less(stock, S) /\ items' = items /\ sku' = sku
      /\ status' = Over(status, S, "COMPLETED")
  BY DEF Settle, catalogue, orderRow
<1>2. Completed' = Completed \cup S /\ Completed \cap S = {}
  BY <1>1, SettleMoves DEF SoldInv, OrderStatus
<1> SUFFICES ASSUME NEW v \in Variants
             PROVE  stock'[v] + Qty(items, Completed \cup S, sku[v]) <= InitialStock[v]
  BY <1>1, <1>2, Zenon DEF NeverOversold
<1>3. S \in SUBSET Orders /\ Completed \in SUBSET Orders
  BY DEF Pending, Completed, Having
<1>4. /\ IsFiniteSet(Completed) /\ Qty(items, Completed, sku[v]) \in Nat
      /\ IsFiniteSet(S) /\ Qty(items, S, sku[v]) \in Nat
  BY <1>3, TotalsAreNat
<1>5. Qty(items, Completed \cup S, sku[v])
        = Qty(items, Completed, sku[v]) + Qty(items, S, sku[v])
  BY <1>2, <1>4, QtyDisjoint
<1>6. stock'[v] = stock[v] - Qty(items, S, sku[v])
  BY <1>1 DEF Less, OnSale, SoldInv, AllOnSale
<1> QED
  BY <1>4, <1>5, <1>6, StockAssumption DEF SoldInv, TypeOK, NeverOversold

(* Settling without a sale leaves stock and completed orders alone.         *)
LEMMA ReleaseSellsNothing ==
    ASSUME SoldInv, NEW S \in SUBSET Pending,
           NEW s \in OrderStatus \ {"PENDING", "COMPLETED"}, NEW notice,
           Settle(S, stock, Less(reserved, S), s, notice)
    PROVE  NeverOversold'
<1>1. /\ stock' = stock /\ items' = items /\ sku' = sku
      /\ status' = Over(status, S, s)
  BY DEF Settle, catalogue, orderRow
<1>2. Completed' = Completed
  BY <1>1, SettleMoves DEF SoldInv
<1> QED
  BY <1>1, <1>2, NothingSold DEF SoldInv

LEMMA SoldStep == SoldInv /\ [Next]_vars => SoldInv'
<1> SUFFICES ASSUME SoldInv, [Next]_vars
             PROVE  SoldInv'
  OBVIOUS
<1>0. TypeOK'
  BY TypeStep DEF SoldInv
<1>1. AllOnSale' /\ sku' = sku
  BY CatalogueStands DEF SoldInv, AllOnSale, catalogue
<1>2. ASSUME NEW u \in Users, NEW o \in Orders, NEW cart \in Cart,
             CreateOrder(u, o, cart)
      PROVE  NeverOversold'
  <2>1. o \notin Completed' /\ Completed' = Completed /\ stock' = stock
    BY <1>2 DEF CreateOrder, InsertOrder, SoldInv, TypeOK, Completed, Having
  <2>2. \A q \in Completed' : items'[q] = items[q]
    BY <1>2, <2>1 DEF CreateOrder, InsertOrder, SoldInv, TypeOK, Completed, Having
  <2> QED
    BY <1>1, <2>1, <2>2, NothingSold DEF SoldInv
<1>3. ASSUME NEW u \in Users, NEW o \in Orders, CancelOrder(u, o)
      PROVE  NeverOversold'
  <2>1. /\ {o} \in SUBSET Pending
        /\ Settle({o}, stock, Less(reserved, {o}), "CANCELLED", "cancelled")
    BY <1>3 DEF CancelOrder, Live, Pending, Having
  <2> QED
    BY <2>1, ReleaseSellsNothing DEF OrderStatus
<1>4. ASSUME NEW p \in Orders, NEW o \in Orders, PaymentSucceeds(p, o)
      PROVE  NeverOversold'
  <2>1. /\ {o} \in SUBSET Pending
        /\ Settle({o}, Less(stock, {o}), Less(reserved, {o}), "COMPLETED", "paid")
    BY <1>4 DEF PaymentSucceeds, Live, Pending, Having
  <2> QED
    BY <2>1, SaleIsCovered
<1>5. ASSUME NEW p \in Orders, NEW o \in Orders, PaymentFails(p, o)
      PROVE  NeverOversold'
  <2>1. /\ {o} \in SUBSET Pending
        /\ Settle({o}, stock, Less(reserved, {o}), "CANCELLED", "failed")
    BY <1>5 DEF PaymentFails, Live, Pending, Having
  <2> QED
    BY <2>1, ReleaseSellsNothing DEF OrderStatus
<1>6. ASSUME CancelExpiredOrders
      PROVE  NeverOversold'
  <2>1. /\ Overdue \in SUBSET Pending
        /\ Settle(Overdue, stock, Less(reserved, Overdue), "EXPIRED", "expired")
    BY <1>6 DEF CancelExpiredOrders, Overdue
  <2> QED
    BY <2>1, ReleaseSellsNothing DEF OrderStatus
<1>7. ASSUME NEW u \in Users, NEW p \in Orders, RetryPayment(u, p)
      PROVE  NeverOversold'
  <2>1. Completed' \in SUBSET Completed /\ stock' = stock /\ items' = items
    BY <1>7 DEF RetryPayment, Reopen, counters, orderRow, SoldInv, TypeOK,
                Completed, Having
  <2> QED
    BY <1>1, <2>1, NothingSold DEF SoldInv
<1>8. ASSUME (\E o \in Orders : HourPasses(o)) \/ RollsBack \/ UNCHANGED vars
      PROVE  NeverOversold'
  <2>1. stock' = stock /\ items' = items /\ status' = status
    BY <1>8 DEF HourPasses, RollsBack, counters, orderRow, vars
  <2>2. Completed' = Completed
    BY <2>1 DEF Completed, Having
  <2> QED
    BY <1>1, <2>1, <2>2, NothingSold DEF SoldInv
<1>9. NeverOversold'
  BY <1>2, <1>3, <1>4, <1>5, <1>6, <1>7, <1>8, Zenon DEF Next, CheckoutNext
<1> QED
  BY <1>0, <1>1, <1>9 DEF SoldInv

LEMMA SoldInit == Init => SoldInv
<1> SUFFICES ASSUME Init
             PROVE  SoldInv
  OBVIOUS
<1>1. IInv
  BY InvInit
<1>2. \A v \in Variants : Qty(items, Completed, sku[v]) \in Nat
  BY TotalsAreNat DEF Completed, Having
<1>3. NeverOversold
  BY <1>1, <1>2, StockAssumption DEF IInv, TypeOK, StockExact, NeverOversold
<1> QED
  BY <1>1, <1>3 DEF SoldInv, IInv

(* No pair of shoes is sold that was never in stock, with any number of     *)
(* retries and failed transactions (payment.service.ts:142-146).            *)
THEOREM NeverOversoldHolds == Spec => []NeverOversold
<1>1. SoldInv => NeverOversold
  BY DEF SoldInv
<1> QED
  BY SoldInit, SoldStep, <1>1, PTL DEF Spec

-----------------------------------------------------------------------------
(* Expiry.  A retry needs a FAILED payment, and the worker leaves the       *)
(* payment of an expired order CANCELLED, which no handler changes.         *)
ExpiryInv == TypeOK /\ ExpiredPaymentCancelled

LEMMA ExpiryStep ==
    ASSUME ExpiryInv, [Next]_vars
    PROVE  /\ ExpiredPaymentCancelled'
           /\ \A o \in Orders : status[o] = "EXPIRED" =>
                 status'[o] = "EXPIRED" /\ payment'[o] = "CANCELLED"
<1> USE DEF ExpiryInv, ExpiredPaymentCancelled, TypeOK
<1> DEFINE Goal == /\ ExpiredPaymentCancelled'
                   /\ \A o \in Orders : status[o] = "EXPIRED" =>
                         status'[o] = "EXPIRED" /\ payment'[o] = "CANCELLED"
<1>1. ASSUME NEW u \in Users, NEW o \in Orders, NEW cart \in Cart,
             CreateOrder(u, o, cart)
      PROVE  Goal
  BY <1>1 DEF CreateOrder, InsertOrder
<1>2. ASSUME NEW u \in Users, NEW o \in Orders, CancelOrder(u, o)
      PROVE  Goal
  BY <1>2 DEF CancelOrder, Live, Settle, Over
<1>3. ASSUME NEW p \in Orders, NEW o \in Orders, PaymentSucceeds(p, o)
      PROVE  Goal
  BY <1>3 DEF PaymentSucceeds, Live, Settle, SaveSuccess, Over
<1>4. ASSUME NEW p \in Orders, NEW o \in Orders, PaymentFails(p, o)
      PROVE  Goal
  BY <1>4 DEF PaymentFails, Live, Settle, SaveFailure, Over
<1>5. ASSUME CancelExpiredOrders
      PROVE  Goal
  BY <1>5 DEF CancelExpiredOrders, Overdue, Pending, Having, Settle, Over
<1>6. ASSUME NEW u \in Users, NEW p \in Orders, RetryPayment(u, p)
      PROVE  Goal
  BY <1>6 DEF RetryPayment, Reopen
<1>7. ASSUME (\E o \in Orders : HourPasses(o)) \/ RollsBack \/ UNCHANGED vars
      PROVE  Goal
  BY <1>7 DEF HourPasses, RollsBack, vars
<1> QED
  BY <1>1, <1>2, <1>3, <1>4, <1>5, <1>6, <1>7, Zenon DEF Next, CheckoutNext

LEMMA ExpiryInit == Init => ExpiryInv
BY TypeInit DEF Init, ExpiryInv, ExpiredPaymentCancelled

(* The payment of an expired order is cancelled, retries included           *)
(* (order-worker.job.ts:66).                                                *)
THEOREM ExpiredPaymentsAreCancelled == Spec => []ExpiredPaymentCancelled
<1>1. ExpiryInv /\ [Next]_vars => ExpiryInv'
  BY ExpiryStep, TypeStep DEF ExpiryInv
<1>2. ExpiryInv => ExpiredPaymentCancelled
  BY DEF ExpiryInv
<1> QED
  BY ExpiryInit, <1>1, <1>2, PTL DEF Spec

(* No handler takes an order out of EXPIRED, though retryPayment never      *)
(* looks at the order's status (payment.service.ts:214).                    *)
THEOREM ExpiryIsTheEnd == Spec => ExpiredIsFinal
<1>1. ExpiryInv /\ [Next]_vars => ExpiryInv'
  BY ExpiryStep, TypeStep DEF ExpiryInv
<1>2. ExpiryInv /\ [Next]_vars
        => [\A o \in Orders :
              status[o] = "EXPIRED" => /\ status'[o] = "EXPIRED"
                                       /\ payment'[o] = "CANCELLED"]_vars
  BY ExpiryStep
<1> QED
  BY ExpiryInit, <1>1, <1>2, PTL DEF Spec, ExpiredIsFinal

-----------------------------------------------------------------------------
(* Stock leaves the shelf by a completed payment alone                      *)
(* (payment.service.ts:144 is the only line that lowers it).                *)
LEMMA SaleStep ==
    ASSUME TypeOK, [Next]_vars, stock' # stock
    PROVE  /\ \A v \in Variants : stock'[v] <= stock[v]
           /\ \E o \in Orders :
                /\ status[o] = "PENDING" /\ ~expired[o]
                /\ status'[o] = "COMPLETED" /\ paid'[o] = "PAID"
<1>1. PICK p \in Orders, o \in Orders : PaymentSucceeds(p, o)
  BY DEF Next, CheckoutNext, CreateOrder, InsertOrder, CancelOrder, PaymentFails,
         CancelExpiredOrders, RollsBack, Settle, HourPasses, RetryPayment,
         Reopen, counters, vars
<1>2. stock' = Less(stock, {o})
  BY <1>1 DEF PaymentSucceeds, Settle
<1>3. \A v \in Variants : Qty(items, {o}, sku[v]) \in Nat
  BY TotalsAreNat
<1>4. \A v \in Variants : stock'[v] <= stock[v]
  <2> SUFFICES ASSUME NEW v \in Variants
               PROVE  stock'[v] <= stock[v]
    OBVIOUS
  <2>1. stock[v] \in Nat /\ Qty(items, {o}, sku[v]) \in Nat
    BY <1>3 DEF TypeOK
  <2>2. stock'[v] = stock[v] - Qty(items, {o}, sku[v]) \/ stock'[v] = stock[v]
    BY <1>2, Zenon DEF Less
  <2> QED
    BY <2>1, <2>2
<1>5. /\ status[o] = "PENDING" /\ ~expired[o]
      /\ status'[o] = "COMPLETED" /\ paid'[o] = "PAID"
  BY <1>1 DEF PaymentSucceeds, Live, Settle, SaveSuccess, Over
<1> QED
  BY <1>4, <1>5

THEOREM OnlyPaymentsSell == Spec => StockLeavesByPayment
<1>1. TypeOK /\ [Next]_vars
        => [stock' # stock =>
              /\ \A v \in Variants : stock'[v] <= stock[v]
              /\ \E o \in Orders :
                   /\ status[o] = "PENDING" /\ ~expired[o]
                   /\ status'[o] = "COMPLETED" /\ paid'[o] = "PAID"]_vars
  BY SaleStep
<1> QED
  BY TypeCorrect, <1>1, PTL DEF Spec, StockLeavesByPayment

-----------------------------------------------------------------------------
(* Notifications.  A handler that settles an order tells its owner what the *)
(* order has become; a retry and a failed run of the worker say something   *)
(* false of orders that stay or become PENDING, and of no other.            *)
NoticeInv == TypeOK /\ SettledNoticeTrue

LEMMA NoticeStep == NoticeInv /\ [Next]_vars => SettledNoticeTrue'
<1> SUFFICES ASSUME NoticeInv, [Next]_vars
             PROVE  SettledNoticeTrue'
  OBVIOUS
<1> USE DEF NoticeInv, SettledNoticeTrue, TypeOK
<1>1. ASSUME NEW u \in Users, NEW o \in Orders, NEW cart \in Cart,
             CreateOrder(u, o, cart)
      PROVE  SettledNoticeTrue'
  BY <1>1 DEF CreateOrder, InsertOrder
<1>2. ASSUME NEW u \in Users, NEW o \in Orders, CancelOrder(u, o)
      PROVE  SettledNoticeTrue'
  BY <1>2 DEF CancelOrder, Settle, Over
<1>3. ASSUME NEW p \in Orders, NEW o \in Orders, PaymentSucceeds(p, o)
      PROVE  SettledNoticeTrue'
  BY <1>3 DEF PaymentSucceeds, Settle, Over
<1>4. ASSUME NEW p \in Orders, NEW o \in Orders, PaymentFails(p, o)
      PROVE  SettledNoticeTrue'
  BY <1>4 DEF PaymentFails, Settle, Over
<1>5. ASSUME CancelExpiredOrders
      PROVE  SettledNoticeTrue'
  BY <1>5 DEF CancelExpiredOrders, Settle, Over
<1>6. ASSUME NEW u \in Users, NEW p \in Orders, RetryPayment(u, p)
      PROVE  SettledNoticeTrue'
  BY <1>6 DEF RetryPayment, Reopen
<1>7. ASSUME RollsBack
      PROVE  SettledNoticeTrue'
  BY <1>7 DEF RollsBack, Emits, Live, Overdue, Pending, Having, Over, Notice, counters, orderRow
<1>8. ASSUME (\E o \in Orders : HourPasses(o)) \/ UNCHANGED vars
      PROVE  SettledNoticeTrue'
  BY <1>8 DEF HourPasses, vars
<1> QED
  BY <1>1, <1>2, <1>3, <1>4, <1>5, <1>6, <1>7, <1>8, Zenon DEF Next, CheckoutNext

LEMMA NoticeInit == Init => NoticeInv
BY TypeInit DEF Init, NoticeInv, SettledNoticeTrue

(* Once an order is settled, what its owner last heard of it is true,       *)
(* although a retry announces a payment (payment.service.ts:228), and the   *)
(* worker, a cancellation and a confirmation announce what may yet roll     *)
(* back (order-worker.job.ts:69, order.service.ts:284,                      *)
(* payment.service.ts:149 and :182).                                        *)
THEOREM SettledNoticesAreTrue == Spec => []SettledNoticeTrue
<1>1. NoticeInv /\ [Next]_vars => NoticeInv'
  BY NoticeStep, TypeStep DEF NoticeInv
<1>2. NoticeInv => SettledNoticeTrue
  BY DEF NoticeInv
<1> QED
  BY NoticeInit, <1>1, <1>2, PTL DEF Spec

(* Without retries and failed runs the last notification is true of every   *)
(* order: nothing is announced that does not commit.                        *)
AllNoticeInv == TypeOK /\ NoticeTrue

LEMMA AllNoticeStep == AllNoticeInv /\ [CheckoutNext]_vars => NoticeTrue'
<1> SUFFICES ASSUME AllNoticeInv, [CheckoutNext]_vars
             PROVE  NoticeTrue'
  OBVIOUS
<1> USE DEF AllNoticeInv, NoticeTrue, TypeOK
<1>1. ASSUME NEW u \in Users, NEW o \in Orders, NEW cart \in Cart,
             CreateOrder(u, o, cart)
      PROVE  NoticeTrue'
  BY <1>1 DEF CreateOrder, InsertOrder
<1>2. ASSUME NEW u \in Users, NEW o \in Orders, CancelOrder(u, o)
      PROVE  NoticeTrue'
  BY <1>2 DEF CancelOrder, Settle, Over
<1>3. ASSUME NEW p \in Orders, NEW o \in Orders, PaymentSucceeds(p, o)
      PROVE  NoticeTrue'
  BY <1>3 DEF PaymentSucceeds, Settle, Over
<1>4. ASSUME NEW p \in Orders, NEW o \in Orders, PaymentFails(p, o)
      PROVE  NoticeTrue'
  BY <1>4 DEF PaymentFails, Settle, Over
<1>5. ASSUME CancelExpiredOrders
      PROVE  NoticeTrue'
  BY <1>5 DEF CancelExpiredOrders, Settle, Over
<1>6. ASSUME (\E o \in Orders : HourPasses(o)) \/ UNCHANGED vars
      PROVE  NoticeTrue'
  BY <1>6 DEF HourPasses, vars
<1> QED
  BY <1>1, <1>2, <1>3, <1>4, <1>5, <1>6, Zenon DEF CheckoutNext

LEMMA AllNoticeInit == Init => AllNoticeInv
BY TypeInit DEF Init, AllNoticeInv, NoticeTrue

(* Checkout and expiry tell the owner of an order what became of it, no more *)
(* and no less (notification.service.ts:29).                                 *)
THEOREM NoticesAreTrue == CheckoutSpec => []NoticeTrue
<1>1. AllNoticeInv /\ [CheckoutNext]_vars => AllNoticeInv'
  BY AllNoticeStep, TypeStep DEF AllNoticeInv, Next
<1>2. AllNoticeInv => NoticeTrue
  BY DEF AllNoticeInv
<1> QED
  BY AllNoticeInit, <1>1, <1>2, PTL DEF CheckoutSpec

-----------------------------------------------------------------------------
(***************************************************************************)
(* Without retries OrderFlow implements Reservations: the counter          *)
(* reserved_stock is a faithful account of what pending orders hold, so    *)
(* what createOrder lets through is what Hold allows.                      *)
(***************************************************************************)

Wants == [o \in Orders |-> [v \in Variants |-> items[o][sku[v]]]]

(* Counting by variant in Reservations is counting by sku here.             *)
LEMMA SameTotals ==
    ASSUME NEW S \in SUBSET Orders, NEW v \in Variants
    PROVE  R!Qty(Wants, S, v) = Qty(items, S, sku[v])
<1>1. \A o \in S : Wants[o][v] = items[o][sku[v]]
  BY DEF Wants
<1>2. R!Units(Wants, S, v) = Units(items, S, sku[v])
  BY <1>1 DEF R!Units, Units
<1>3. \A T : R!Cardinality(T) = Cardinality(T)
  BY DEF R!Cardinality, Cardinality
<1> QED
  BY <1>2, <1>3, Zenon DEF R!Qty, Qty

(* The orders held in Reservations are the pending ones.                    *)
LEMMA HeldIsPending == R!Held = Pending
BY DEF R!Held, Phase, Pending, Having

(* What is free there is what createOrder finds free here.                  *)
LEMMA FreeIsUnreserved ==
    ASSUME LedgerExact, NEW v \in Variants
    PROVE  R!Free(v) = stock[v] - reserved[v]
<1>1. Pending \in SUBSET Orders
  BY DEF Pending, Having
<1>2. R!Qty(Wants, Pending, v) = reserved[v]
  BY <1>1, SameTotals DEF LedgerExact
<1> QED
  BY <1>2, HeldIsPending DEF R!Free, Wants

LEMMA RefineInit == Init => R!Init
BY DEF Init, R!Init, Phase, Injection

(* createOrder holds.                                                       *)
LEMMA CreateHolds ==
    ASSUME IInv, NEW u \in Users, NEW o \in Orders, NEW cart \in Cart,
           CreateOrder(u, o, cart)
    PROVE  R!Hold(o, cart)
<1>1. \A v \in Variants : cart[v] \in Nat /\ stock[v] \in Nat /\ reserved[v] \in Nat
  BY MaxQtyAssumption DEF IInv, TypeOK, Cart
<1>2. \A v \in Variants : cart[v] <= R!Free(v)
  <2> SUFFICES ASSUME NEW v \in Variants
               PROVE  cart[v] <= stock[v] - reserved[v]
    BY FreeIsUnreserved DEF IInv
  <2>1. cart[v] > 0 => stock[v] - reserved[v] >= cart[v]
    BY DEF CreateOrder, InStock
  <2> QED
    BY <1>1, <2>1 DEF IInv, ReservedInStock
<1>3. /\ items' = [items EXCEPT ![o] = NewItems(cart)] /\ sku' = sku /\ stock' = stock
      /\ status[o] = "NONE" /\ status' = [status EXCEPT ![o] = "PENDING"]
  BY DEF CreateOrder, InsertOrder, catalogue
<1>4. Wants' = [Wants EXCEPT ![o] = cart]
  <2>1. \A v \in Variants : items'[o][sku[v]] = cart[v]
    BY <1>3, NewItemsOfCart DEF IInv, TypeOK
  <2>2. \A p \in Orders : p # o => items'[p] = items[p]
    BY <1>3 DEF IInv, TypeOK
  <2>3. cart = [v \in Variants |-> items'[o][sku[v]]]
    BY <2>1 DEF Cart
  <2>4. ASSUME NEW p \in Orders
        PROVE  [v \in Variants |-> items'[p][sku[v]]]
                 = IF p = o THEN cart ELSE Wants[p]
    BY <2>2, <2>3 DEF Wants
  <2>5. Wants' = [p \in Orders |-> [v \in Variants |-> items'[p][sku[v]]]]
    BY <1>3 DEF Wants
  <2>6. Wants' = [p \in Orders |-> IF p = o THEN cart ELSE Wants[p]]
    BY <2>4, <2>5, Zenon
  <2> QED
    BY <2>6 DEF Wants
<1>5. \A p \in Orders : Phase(status'[p]) = IF p = o THEN "held" ELSE Phase(status[p])
  BY <1>3 DEF Phase, IInv, TypeOK
<1>6. Phase(status[o]) = "new"
  BY <1>3 DEF Phase
<1> QED
  BY <1>2, <1>3, <1>4, <1>5, <1>6 DEF R!Hold, Wants

(* Cancellation, refused payment and expiry release.                        *)
LEMMA SettleReleases ==
    ASSUME IInv, NEW S \in SUBSET Pending, S # {},
           NEW s \in {"CANCELLED", "EXPIRED"}, NEW notice,
           Settle(S, stock, Less(reserved, S), s, notice)
    PROVE  R!Next
<1>1. /\ items' = items /\ sku' = sku /\ stock' = stock
      /\ status' = Over(status, S, s)
  BY DEF Settle, catalogue, orderRow
<1>2. S \in SUBSET Orders
  BY DEF Pending, Having
<1>3. \A o \in Orders :
         Phase(status'[o]) = IF o \in S THEN "released" ELSE Phase(status[o])
  BY <1>1 DEF Phase, Over
<1>4. R!Release(S)
  BY <1>1, <1>3, HeldIsPending DEF R!Release
<1> QED
  BY <1>2, <1>4 DEF R!Next

(* A completed payment sells.                                               *)
LEMMA PaymentSells ==
    ASSUME IInv, NEW p \in Orders, NEW o \in Orders, PaymentSucceeds(p, o)
    PROVE  R!Sell(o)
<1>1. /\ items' = items /\ sku' = sku /\ stock' = Less(stock, {o})
      /\ status' = Over(status, {o}, "COMPLETED") /\ o \in Pending
  BY DEF PaymentSucceeds, Live, Pending, Having, Settle, catalogue, orderRow
<1>2. \A q \in Orders :
         Phase(status'[q]) = IF q = o THEN "sold" ELSE Phase(status[q])
  BY <1>1 DEF Phase, Over
<1>3. ASSUME NEW v \in Variants
      PROVE  stock'[v] = stock[v] - Wants[o][v]
  <2>1. items[o][sku[v]] \in 0..MaxQty
    BY DEF IInv, TypeOK, Injection
  <2>2. Qty(items, {o}, sku[v]) = items[o][sku[v]]
    BY <2>1, QtyOne
  <2> QED
    BY <1>1, <2>2 DEF Less, OnSale, IInv, AllOnSale, Wants
<1>4. stock' = [v \in Variants |-> stock[v] - Wants[o][v]]
  <2>1. stock' = [v \in Variants |-> stock'[v]]
    BY <1>1 DEF Less
  <2> QED
    BY <1>3, <2>1
<1> QED
  BY <1>1, <1>2, <1>4, HeldIsPending DEF R!Sell, Wants

LEMMA RefineStep == IInv /\ [CheckoutNext]_vars => [R!Next]_(R!vars)
<1> SUFFICES ASSUME IInv, [CheckoutNext]_vars
             PROVE  R!Next \/ UNCHANGED R!vars
  OBVIOUS
<1>1. ASSUME NEW u \in Users, NEW o \in Orders, NEW cart \in Cart,
             CreateOrder(u, o, cart)
      PROVE  R!Next
  BY <1>1, CreateHolds DEF R!Next, Cart
<1>2. ASSUME NEW u \in Users, NEW o \in Orders, CancelOrder(u, o)
      PROVE  R!Next
  <2>1. /\ {o} \in SUBSET Pending
        /\ Settle({o}, stock, Less(reserved, {o}), "CANCELLED", "cancelled")
    BY <1>2 DEF CancelOrder, Live, Pending, Having
  <2> QED
    BY <2>1, SettleReleases
<1>3. ASSUME NEW p \in Orders, NEW o \in Orders, PaymentSucceeds(p, o)
      PROVE  R!Next
  BY <1>3, PaymentSells DEF R!Next
<1>4. ASSUME NEW p \in Orders, NEW o \in Orders, PaymentFails(p, o)
      PROVE  R!Next
  <2>1. /\ {o} \in SUBSET Pending
        /\ Settle({o}, stock, Less(reserved, {o}), "CANCELLED", "failed")
    BY <1>4 DEF PaymentFails, Live, Pending, Having
  <2> QED
    BY <2>1, SettleReleases
<1>5. ASSUME CancelExpiredOrders
      PROVE  R!Next
  <2>1. /\ Overdue \in SUBSET Pending /\ Overdue # {}
        /\ Settle(Overdue, stock, Less(reserved, Overdue), "EXPIRED", "expired")
    BY <1>5 DEF CancelExpiredOrders, Overdue
  <2> QED
    BY <2>1, SettleReleases
<1>6. ASSUME (\E o \in Orders : HourPasses(o)) \/ UNCHANGED vars
      PROVE  UNCHANGED R!vars
  <2>1. stock' = stock /\ items' = items /\ sku' = sku /\ status' = status
    BY <1>6 DEF HourPasses, counters, catalogue, orderRow, vars
  <2> QED
    BY <2>1 DEF R!vars
<1> QED
  BY <1>1, <1>2, <1>3, <1>4, <1>5, <1>6, Zenon DEF CheckoutNext

(* The handlers of the order service, the payment service and the worker    *)
(* keep the promise of Reservations, for any number of users, orders,       *)
(* variants and units (order.service.ts:36-149, 201-288,                    *)
(* payment.service.ts:78-194, order-worker.job.ts:20-78).                   *)
THEOREM CheckoutRefines == CheckoutSpec => KeepsReservations
<1> QED
  BY CheckoutInvariant, RefineInit, RefineStep, PTL
     DEF CheckoutSpec, KeepsReservations, R!Spec
=============================================================================
