--------------------------- MODULE CatalogueProofs ---------------------------
(***************************************************************************)
(* What the administration of variants and products leaves standing, for   *)
(* any number of products, variants, orders and requests: handlers run one *)
(* after the other, or save drafts that are still what the row says, and   *)
(* no name passes to another variant under a pending order.                *)
(***************************************************************************)
EXTENDS Catalogue, OrderFlowProofs

(* ReservedCovers is not inductive alone: a new order's items name one      *)
(* existing variant each by the uniqueness in CatalogueTypeOK, and a save   *)
(* that keeps reserved_stock must not lower stock below it.                 *)
ShopInv == CatalogueTypeOK /\ ReservedInStock /\ ReservedCovers

-----------------------------------------------------------------------------
(* Totals of pending orders are naturals.                                   *)
LEMMA PendingTotals ==
    ASSUME NEW S \in SUBSET Pending, NEW l
    PROVE  /\ IsFiniteSet(Pending) /\ Qty(items, Pending, l) \in Nat
           /\ IsFiniteSet(S) /\ Qty(items, S, l) \in Nat
           /\ Qty(items, S, l) <= Qty(items, Pending, l)
<1>1. Pending \in SUBSET Orders /\ S \in SUBSET Orders
  BY DEF Pending, Having
<1>2. IsFiniteSet(Pending) /\ IsFiniteSet(S)
  BY <1>1, TotalsAreNat
<1> QED
  BY <1>1, <1>2, TotalsAreNat, QtyMonotone

(* Steps that leave the counters alone and add nothing to what pending      *)
(* orders hold of a variant that still exists.                              *)
LEMMA LessHeld ==
    ASSUME ShopInv, UNCHANGED <<counters, sku>>,
           \A v \in Variants : Exists(v)' => Exists(v),
           Pending' \in SUBSET Pending,
           \A v \in Variants : Exists(v)' =>
               \A o \in Pending' : items'[o][sku[v]] = items[o][sku[v]]
    PROVE  ReservedInStock' /\ ReservedCovers'
<1>1. ReservedInStock'
  BY DEF ShopInv, ReservedInStock, counters
<1>2. ASSUME NEW v \in Variants, Exists(v)'
      PROVE  Qty(items', Pending', sku'[v]) <= reserved'[v]
  <2>1. Qty(items', Pending', sku[v]) = Qty(items, Pending', sku[v])
    <3>1. \A it : (\A o \in Pending' : it[o][sku[v]] = items[o][sku[v]])
                     => Qty(it, Pending', sku[v]) = Qty(items, Pending', sku[v])
      BY QtySame
    <3> QED
      BY <1>2, <3>1
  <2>2. /\ Qty(items, Pending', sku[v]) \in Nat /\ Qty(items, Pending, sku[v]) \in Nat
        /\ Qty(items, Pending', sku[v]) <= Qty(items, Pending, sku[v])
    BY PendingTotals
  <2>3. Qty(items, Pending, sku[v]) <= reserved[v] /\ reserved[v] \in Nat
    BY <1>2 DEF ShopInv, ReservedCovers, CatalogueTypeOK
  <2>4. sku'[v] = sku[v] /\ reserved'[v] = reserved[v]
    BY DEF counters
  <2> QED
    BY <2>1, <2>2, <2>3, <2>4
<1>3. ReservedCovers'
  BY <1>2, Zenon DEF ReservedCovers
<1> QED
  BY <1>1, <1>3

-----------------------------------------------------------------------------
(* The handlers of orders.                                                  *)

(* createOrder reserves what the new order will hold.                       *)
LEMMA CreateCovered ==
    ASSUME ShopInv, NEW u \in Users, NEW o \in Orders, NEW cart \in Cart,
           CreateOrder(u, o, cart), UNCHANGED shop
    PROVE  ShopInv'
<1> DEFINE E == {v \in Variants : Exists(v)}
<1>1. /\ \A v \in Variants : cart[v] > 0 => Exists(v) /\ stock[v] - reserved[v] >= cart[v]
      /\ reserved' = [v \in Variants |-> reserved[v] + cart[v]]
      /\ status[o] = "NONE" /\ status' = [status EXCEPT ![o] = "PENDING"]
      /\ items' = [items EXCEPT ![o] = NewItems(cart)]
      /\ payment' = [payment EXCEPT ![o] = "PENDING"]
      /\ stock' = stock /\ shelf' = shelf /\ sku' = sku
  BY DEF CreateOrder, InStock, InsertOrder, Exists, catalogue
<1>2. /\ NewItems(cart) \in [Skus -> 0..MaxQty]
      /\ \A v \in E : NewItems(cart)[sku[v]] = cart[v]
  <2>1. /\ sku \in [Variants -> Skus] /\ E \in SUBSET Variants
        /\ \A v \in Variants : cart[v] > 0 => v \in E
        /\ \A v, w \in E : sku[v] = sku[w] => v = w
    BY <1>1 DEF ShopInv, CatalogueTypeOK
  <2> QED
    BY <2>1, NewItemsOf
<1>3. \A v \in Variants : cart[v] \in 0..MaxQty /\ cart[v] \in Nat
  BY MaxQtyAssumption DEF Cart
<1>4. CatalogueTypeOK'
  <2>1. reserved' \in [Variants -> Nat]
    BY <1>1, <1>3 DEF ShopInv, CatalogueTypeOK
  <2>2. /\ items' \in [Orders -> [Skus -> 0..MaxQty]]
        /\ status' \in [Orders -> OrderStatus]
        /\ payment' \in [Orders -> PaymentStatus \cup {"REFUNDED"}]
    BY <1>1, <1>2 DEF ShopInv, CatalogueTypeOK, OrderStatus, PaymentStatus
  <2> QED
    BY <1>1, <2>1, <2>2 DEF ShopInv, CatalogueTypeOK, shop, Exists
<1>5. ReservedInStock'
  <2> SUFFICES ASSUME NEW v \in Variants
               PROVE  reserved[v] + cart[v] <= stock[v]
    BY <1>1 DEF ReservedInStock
  <2> QED
    BY <1>1, <1>3 DEF ShopInv, ReservedInStock, CatalogueTypeOK
<1>6. ReservedCovers'
  <2> SUFFICES ASSUME NEW v \in Variants, Exists(v)
               PROVE  Qty(items', Pending', sku[v]) <= reserved[v] + cart[v]
    BY <1>1, Zenon DEF ReservedCovers, Exists
  <2>1. /\ o \notin Pending /\ Pending' = Pending \cup {o}
        /\ IsFiniteSet({o}) /\ Pending \cap {o} = {}
    <3>1. o \notin Pending /\ Pending' = Pending \cup {o}
      BY <1>1 DEF Pending, Having, ShopInv, CatalogueTypeOK
    <3> QED
      BY <3>1, FS_Singleton
  <2>2. \A p \in Pending : items'[p][sku[v]] = items[p][sku[v]]
    BY <1>1, <2>1 DEF ShopInv, CatalogueTypeOK, Pending, Having
  <2>3. Qty(items', Pending, sku[v]) = Qty(items, Pending, sku[v])
    <3>1. \A it : (\A p \in Pending : it[p][sku[v]] = items[p][sku[v]])
                     => Qty(it, Pending, sku[v]) = Qty(items, Pending, sku[v])
      BY QtySame
    <3> QED
      BY <2>2, <3>1
  <2>4. Qty(items', {o}, sku[v]) = cart[v]
    <3>1. items'[o][sku[v]] = cart[v]
      BY <1>1, <1>2 DEF ShopInv, CatalogueTypeOK
    <3>2. cart[v] \in 0..MaxQty
      BY <1>3
    <3>3. ASSUME NEW it, it[o][sku[v]] = cart[v]
          PROVE  Qty(it, {o}, sku[v]) = cart[v]
      BY <3>2, <3>3, QtyOne
    <3> QED
      BY <3>1, <3>3, Zenon
  <2>5. IsFiniteSet(Pending) /\ Qty(items, Pending, sku[v]) \in Nat
    BY PendingTotals
  <2>6. Qty(items', Pending \cup {o}, sku[v])
          = Qty(items', Pending, sku[v]) + Qty(items', {o}, sku[v])
    BY <2>1, <2>5, QtyDisjoint
  <2>7. Qty(items, Pending, sku[v]) <= reserved[v] /\ reserved[v] \in Nat
    BY DEF ShopInv, ReservedCovers, CatalogueTypeOK
  <2> QED
    BY <1>3, <2>1, <2>3, <2>4, <2>5, <2>6, <2>7
<1> QED
  BY <1>4, <1>5, <1>6 DEF ShopInv

(* Settling takes off what the orders held where the variant is on sale;    *)
(* elsewhere reserved_stock stays, and is too much rather than too little.  *)
LEMMA SettleCovered ==
    ASSUME ShopInv, NEW S \in SUBSET Pending, NEW s \in OrderStatus \ {"PENDING"},
           NEW notice, NEW st \in {stock, Less(stock, S)},
           Settle(S, st, Less(reserved, S), s, notice),
           payment' \in [Orders -> PaymentStatus \cup {"REFUNDED"}], UNCHANGED shop
    PROVE  ShopInv'
<1>1. /\ stock' = st /\ reserved' = Less(reserved, S) /\ items' = items
      /\ sku' = sku /\ shelf' = shelf /\ status' = Over(status, S, s)
      /\ ChecksHold(st, Less(reserved, S))
  BY DEF Settle, catalogue, orderRow
<1>2. Pending' = Pending \ S
  BY <1>1, SettleMoves
<1>3. CatalogueTypeOK'
  <2>1. S \in SUBSET Orders
    BY DEF Pending, Having
  <2>2. stock \in [Variants -> Nat] /\ reserved \in [Variants -> Nat]
    BY DEF ShopInv, CatalogueTypeOK
  <2>3. reserved' \in [Variants -> Nat]
    BY <1>1, <2>1, <2>2, LessIsNat DEF ChecksHold
  <2>4. stock' \in [Variants -> Nat]
    BY <1>1, <2>1, <2>2, LessIsNat DEF ChecksHold
  <2>5. status' \in [Orders -> OrderStatus]
    BY <1>1, OverType DEF ShopInv, CatalogueTypeOK
  <2> QED
    BY <1>1, <2>3, <2>4, <2>5 DEF ShopInv, CatalogueTypeOK, shop, Exists
<1>4. ReservedInStock'
  BY <1>1 DEF ChecksHold, ReservedInStock
<1>5. ReservedCovers'
  <2> SUFFICES ASSUME NEW v \in Variants, Exists(v)
               PROVE  Qty(items, Pending \ S, sku[v]) <= reserved'[v]
    BY <1>1, <1>2, Zenon DEF ReservedCovers, Exists
  <2>1. /\ IsFiniteSet(Pending) /\ Qty(items, Pending, sku[v]) \in Nat
        /\ Qty(items, S, sku[v]) \in Nat
    BY PendingTotals
  <2>2. Qty(items, Pending \ S, sku[v])
          = Qty(items, Pending, sku[v]) - Qty(items, S, sku[v])
    BY <2>1, QtyRemove
  <2>3. Qty(items, Pending, sku[v]) <= reserved[v] /\ reserved[v] \in Nat
    BY DEF ShopInv, ReservedCovers, CatalogueTypeOK
  <2>4. reserved'[v] = reserved[v] - Qty(items, S, sku[v]) \/ reserved'[v] = reserved[v]
    BY <1>1, Zenon DEF Less
  <2> QED
    BY <2>1, <2>2, <2>3, <2>4
<1> QED
  BY <1>3, <1>4, <1>5 DEF ShopInv

LEMMA OrdersCovered == ShopInv /\ OrdersNext => ShopInv'
<1> SUFFICES ASSUME ShopInv, CheckoutNext \/ RollsBack, UNCHANGED shop
             PROVE  ShopInv'
  BY DEF OrdersNext
<1> DEFINE PaymentOK == payment' \in [Orders -> PaymentStatus \cup {"REFUNDED"}]
<1>1. payment \in [Orders -> PaymentStatus \cup {"REFUNDED"}]
  BY DEF ShopInv, CatalogueTypeOK
<1>2. ASSUME NEW u \in Users, NEW o \in Orders, NEW cart \in Cart,
             CreateOrder(u, o, cart)
      PROVE  ShopInv'
  BY <1>2, CreateCovered
<1>3. ASSUME NEW u \in Users, NEW o \in Orders, CancelOrder(u, o)
      PROVE  ShopInv'
  <2>1. /\ {o} \in SUBSET Pending /\ PaymentOK
        /\ Settle({o}, stock, Less(reserved, {o}), "CANCELLED", "cancelled")
    BY <1>1, <1>3, OverType DEF CancelOrder, Live, Pending, Having, PaymentStatus
  <2> QED
    BY <2>1, SettleCovered DEF OrderStatus
<1>4. ASSUME NEW p \in Orders, NEW o \in Orders, PaymentSucceeds(p, o)
      PROVE  ShopInv'
  <2>1. /\ {o} \in SUBSET Pending /\ PaymentOK
        /\ Settle({o}, Less(stock, {o}), Less(reserved, {o}), "COMPLETED", "paid")
    BY <1>1, <1>4, OverType
       DEF PaymentSucceeds, SaveSuccess, Live, Pending, Having, PaymentStatus
  <2> QED
    BY <2>1, SettleCovered DEF OrderStatus
<1>5. ASSUME NEW p \in Orders, NEW o \in Orders, PaymentFails(p, o)
      PROVE  ShopInv'
  <2>1. /\ {o} \in SUBSET Pending /\ PaymentOK
        /\ Settle({o}, stock, Less(reserved, {o}), "CANCELLED", "failed")
    BY <1>1, <1>5, OverType
       DEF PaymentFails, SaveFailure, Live, Pending, Having, PaymentStatus
  <2> QED
    BY <2>1, SettleCovered DEF OrderStatus
<1>6. ASSUME CancelExpiredOrders
      PROVE  ShopInv'
  <2>1. /\ Overdue \in SUBSET Pending /\ PaymentOK
        /\ Settle(Overdue, stock, Less(reserved, Overdue), "EXPIRED", "expired")
    BY <1>1, <1>6, OverType DEF CancelExpiredOrders, Overdue, PaymentStatus
  <2> QED
    BY <2>1, SettleCovered DEF OrderStatus
<1>7. ASSUME (\E o \in Orders : HourPasses(o)) \/ RollsBack
      PROVE  ShopInv'
  <2>1. UNCHANGED <<counters, catalogue, status, items, payment>>
    BY <1>7 DEF HourPasses, RollsBack, orderRow
  <2>2. CatalogueTypeOK'
    BY <2>1 DEF ShopInv, CatalogueTypeOK, counters, catalogue, shop, Exists
  <2>3. ReservedInStock' /\ ReservedCovers'
    <3>1. Pending' = Pending /\ sku' = sku /\ shelf' = shelf /\ items' = items
      BY <2>1 DEF Pending, Having, catalogue
    <3> QED
      BY <2>1, <3>1, LessHeld DEF Exists
  <2> QED
    BY <2>2, <2>3 DEF ShopInv
<1> QED
  BY <1>2, <1>3, <1>4, <1>5, <1>6, <1>7, Zenon DEF CheckoutNext

-----------------------------------------------------------------------------
(* The administration.                                                      *)
DraftOK == draft \in [Admins -> Row \cup {NoDraft}]

(* save() of a row that still has the reserved_stock it was read with: the  *)
(* variant keeps its name and what is reserved under it, or takes a name    *)
(* that no pending order holds.                                             *)
LEMMA SaveCovered ==
    ASSUME ShopInv, NEW r \in Row, Save(r), NamesKept, DraftOK',
           r.reserved = reserved[r.v] \/ ~Exists(r.v)
    PROVE  ShopInv'
<1>1. /\ stock' = [stock EXCEPT ![r.v] = r.stock]
      /\ reserved' = [reserved EXCEPT ![r.v] = r.reserved]
      /\ shelf' = [shelf EXCEPT ![r.v] = r.shelf]
      /\ sku' = [sku EXCEPT ![r.v] = r.sku]
      /\ status' = status /\ items' = items /\ payment' = payment /\ product' = product
      /\ r.reserved <= r.stock /\ product[ProductOf[r.sku]] # "PURGED"
      /\ \A w \in Variants \ {r.v} : Exists(w) => sku[w] # r.sku
  BY DEF Save, orders, orderRow
<1>2. /\ r.v \in Variants /\ r.stock \in Nat /\ r.reserved \in Nat
      /\ r.shelf \in Shelf /\ r.sku \in Skus
  BY DEF Row
<1>3. CatalogueTypeOK'
  <2>1. \A v \in Variants : Exists(v)' =>
           /\ product'[ProductOf[sku'[v]]] # "PURGED"
           /\ v # r.v => Exists(v) /\ sku'[v] = sku[v] /\ sku'[v] # r.sku
           /\ v = r.v => sku'[v] = r.sku
    BY <1>1, <1>2 DEF ShopInv, CatalogueTypeOK, Exists
  <2>2. \A v, w \in Variants : Exists(v)' /\ Exists(w)' /\ sku'[v] = sku'[w] => v = w
    BY <2>1 DEF ShopInv, CatalogueTypeOK
  <2>3. /\ stock' \in [Variants -> Nat] /\ reserved' \in [Variants -> Nat]
        /\ shelf' \in [Variants -> Shelf] /\ sku' \in [Variants -> Skus]
    BY <1>1, <1>2 DEF ShopInv, CatalogueTypeOK
  <2> QED
    BY <1>1, <2>1, <2>2, <2>3 DEF ShopInv, CatalogueTypeOK, DraftOK
<1>4. ReservedInStock'
  BY <1>1, <1>2 DEF ShopInv, CatalogueTypeOK, ReservedInStock
<1>5. ReservedCovers'
  <2> SUFFICES ASSUME NEW v \in Variants, Exists(v)'
               PROVE  Qty(items, Pending, sku'[v]) <= reserved'[v]
    BY <1>1, Zenon DEF ReservedCovers, Pending, Having
  <2>1. reserved'[v] \in Nat
    BY <1>3 DEF CatalogueTypeOK
  <2>2. CASE ~Exists(v) \/ sku'[v] # sku[v]
    <3>1. \A o \in Pending : items[o][sku'[v]] = 0
      BY <2>2 DEF NamesKept
    <3>2. ASSUME NEW l, \A o \in Pending : items[o][l] = 0
          PROVE  Qty(items, Pending, l) = 0
      BY <3>2, QtyNone
    <3>3. Qty(items, Pending, sku'[v]) = 0
      BY <3>1, <3>2, Zenon
    <3> QED
      BY <2>1, <3>3
  <2>3. CASE Exists(v) /\ sku'[v] = sku[v]
    <3>1. reserved'[v] = reserved[v]
      BY <1>1, <1>2, <2>3 DEF ShopInv, CatalogueTypeOK
    <3>2. Qty(items, Pending, sku[v]) <= reserved[v]
      BY <2>3 DEF ShopInv, ReservedCovers
    <3> QED
      BY <2>3, <3>1, <3>2
  <2> QED
    BY <2>2, <2>3
<1> QED
  BY <1>3, <1>4, <1>5 DEF ShopInv

(* Each edit of the row as it stands saves its reserved_stock back.         *)
LEMMA EditCovered ==
    ASSUME ShopInv, NEW v \in Variants, Edit(RowOf(v)), NamesKept, DraftOK'
    PROVE  ShopInv'
<1>1. PICK r : r = RowOf(v)
  OBVIOUS
<1>2. r \in Row /\ r.v = v /\ r.reserved = reserved[v]
  BY <1>1 DEF RowOf, Row, ShopInv, CatalogueTypeOK
<1>3. ASSUME NEW e \in Row, e.v = v, e.reserved = reserved[v], Save(e)
      PROVE  ShopInv'
  BY <1>3, SaveCovered
<1>4. ASSUME UpdateVariant(r)
      PROVE  ShopInv'
  <2>1. PICK n \in StockLevels \cup {r.stock}, x \in {"ACTIVE", "INACTIVE", r.shelf},
             l \in {m \in Skus : ProductOf[m] = ProductOf[r.sku]} :
                Save([r EXCEPT !.stock = n, !.shelf = x, !.sku = l])
    BY <1>4 DEF UpdateVariant
  <2>2. PICK e : e = [r EXCEPT !.stock = n, !.shelf = x, !.sku = l]
    OBVIOUS
  <2>3. e \in Row /\ e.v = v /\ e.reserved = reserved[v]
    BY <1>2, <2>2, StockLevelsAssumption DEF Row, Shelf
  <2> QED
    BY <1>3, <2>1, <2>2, <2>3
<1>5. ASSUME NEW x \in Shelf, Save([r EXCEPT !.shelf = x])
      PROVE  ShopInv'
  <2>1. PICK e : e = [r EXCEPT !.shelf = x]
    OBVIOUS
  <2>2. e \in Row /\ e.v = v /\ e.reserved = reserved[v]
    BY <1>2, <2>1 DEF Row
  <2> QED
    BY <1>3, <1>5, <2>1, <2>2
<1>6. Edit(r)
  BY <1>1
<1> QED
  BY <1>4, <1>5, <1>6 DEF Edit, DeleteVariant, DeactivateVariant, RestoreVariant, Shelf

(* A purge of soft-deleted variants removes rows.                           *)
LEMMA PurgeVariantsCovered ==
    ASSUME ShopInv, RemoveSoftDeletedVariants, DraftOK'
    PROVE  ShopInv'
<1>1. /\ shelf' = [v \in Variants |-> IF shelf[v] = "DELETED" THEN "PURGED" ELSE shelf[v]]
      /\ UNCHANGED <<counters, sku, status, items, payment, product>>
  BY DEF RemoveSoftDeletedVariants, orders, orderRow
<1>2. \A v \in Variants : Exists(v)' => Exists(v)
  BY <1>1 DEF Exists
<1>3. CatalogueTypeOK'
  BY <1>1, <1>2 DEF ShopInv, CatalogueTypeOK, DraftOK, counters, Shelf
<1>4. Pending' = Pending
  BY <1>1 DEF Pending, Having
<1> QED
  BY <1>1, <1>2, <1>3, <1>4, LessHeld DEF ShopInv

(* A purge of soft-deleted products takes variants and order items along:   *)
(* what remains of the variants loses no order item.                        *)
LEMMA PurgeProductsCovered ==
    ASSUME ShopInv, RemoveSoftDeletedProducts, DraftOK'
    PROVE  ShopInv'
<1>1. PICK gone : gone = {l \in Skus : product[ProductOf[l]] = "DELETED"}
  OBVIOUS
<1>2. /\ product' = [p \in Products |->
                       IF product[p] = "DELETED" THEN "PURGED" ELSE product[p]]
      /\ shelf' = [v \in Variants |-> IF sku[v] \in gone THEN "PURGED" ELSE shelf[v]]
      /\ items' = [o \in Orders |->
                     [l \in Skus |-> IF l \in gone THEN 0 ELSE items[o][l]]]
      /\ UNCHANGED <<counters, sku, status, payment>>
  BY <1>1 DEF RemoveSoftDeletedProducts
<1>3. \A v \in Variants : Exists(v)' =>
         /\ Exists(v) /\ sku[v] \in Skus /\ sku[v] \notin gone
         /\ product'[ProductOf[sku[v]]] # "PURGED"
  BY <1>1, <1>2, ProductsAssumption DEF ShopInv, CatalogueTypeOK, Exists
<1>4. CatalogueTypeOK'
  <2>1. items' \in [Orders -> [Skus -> 0..MaxQty]]
    BY <1>2, MaxQtyAssumption DEF ShopInv, CatalogueTypeOK
  <2>2. /\ product' \in [Products -> {"LISTED", "DELETED", "PURGED"}]
        /\ shelf' \in [Variants -> Shelf]
    BY <1>2 DEF ShopInv, CatalogueTypeOK, Shelf
  <2> QED
    BY <1>2, <1>3, <2>1, <2>2 DEF ShopInv, CatalogueTypeOK, DraftOK, counters
<1>5. /\ Pending' = Pending /\ Pending \in SUBSET Orders
  BY <1>2 DEF Pending, Having
<1>6. \A v \in Variants : Exists(v)' =>
         \A o \in Pending' : items'[o][sku[v]] = items[o][sku[v]]
  BY <1>2, <1>3, <1>5
<1> QED
  BY <1>2, <1>3, <1>4, <1>5, <1>6, LessHeld DEF ShopInv

(* A refund that commits moves no counter and takes its order out of the    *)
(* pending ones, should another confirmation have left it there.            *)
LEMMA RefundCovered ==
    ASSUME ShopInv, NEW p \in Orders, RefundPayment(p), DraftOK'
    PROVE  ShopInv'
<1>1. /\ payment' = [payment EXCEPT ![p] = "REFUNDED"]
      /\ status' = [status EXCEPT ![p] = "CANCELLED"]
      /\ UNCHANGED <<counters, catalogue, items, product>>
  BY DEF RefundPayment, orderRow
<1>2. Pending' \in SUBSET Pending
  BY <1>1 DEF Pending, Having, ShopInv, CatalogueTypeOK
<1>3. CatalogueTypeOK'
  <2>1. /\ status' \in [Orders -> OrderStatus]
        /\ payment' \in [Orders -> PaymentStatus \cup {"REFUNDED"}]
    BY <1>1 DEF ShopInv, CatalogueTypeOK, OrderStatus
  <2> QED
    BY <1>1, <2>1 DEF ShopInv, CatalogueTypeOK, DraftOK, Exists, counters, catalogue
<1> QED
  BY <1>1, <1>2, <1>3, LessHeld DEF ShopInv, Exists, catalogue

LEMMA AdminCovered == ShopInv /\ AdminNext /\ NamesKept => ShopInv'
<1> SUFFICES ASSUME ShopInv, AdminNext, NamesKept
             PROVE  ShopInv'
  OBVIOUS
<1>0. DraftOK'
  BY DEF AdminNext, DraftOK, ShopInv, CatalogueTypeOK
<1>1. ASSUME NEW v \in Variants, NEW l \in Skus, NEW n \in StockLevels,
             CreateVariant(v, l, n)
      PROVE  ShopInv'
  <2>1. PICK r : r = [v |-> v, stock |-> n, reserved |-> 0, shelf |-> "ACTIVE", sku |-> l]
    OBVIOUS
  <2>2. r \in Row /\ r.v = v
    BY <2>1, StockLevelsAssumption DEF Row, Shelf
  <2>3. Save(r) /\ ~Exists(r.v)
    BY <1>1, <2>1, <2>2 DEF CreateVariant
  <2> QED
    BY <1>0, <2>2, <2>3, SaveCovered
<1>2. ASSUME RemoveSoftDeletedVariants
      PROVE  ShopInv'
  BY <1>0, <1>2, PurgeVariantsCovered
<1>3. ASSUME NEW p \in Products, CreateProduct(p) \/ DeleteProduct(p)
      PROVE  ShopInv'
  <2>1. /\ UNCHANGED vars
        /\ product' \in [Products -> {"LISTED", "DELETED", "PURGED"}]
        /\ \A q \in Products : product[q] # "PURGED" => product'[q] # "PURGED"
    BY <1>3 DEF CreateProduct, DeleteProduct, ShopInv, CatalogueTypeOK
  <2>2. UNCHANGED <<counters, sku, shelf, status, items, payment>>
    BY <2>1 DEF vars, counters
  <2>3. CatalogueTypeOK'
    BY <1>0, <2>1, <2>2, ProductsAssumption
       DEF ShopInv, CatalogueTypeOK, DraftOK, Exists, counters
  <2>4. Pending' = Pending
    BY <2>2 DEF Pending, Having
  <2> QED
    BY <2>2, <2>3, <2>4, LessHeld DEF ShopInv, Exists
<1>4. ASSUME RemoveSoftDeletedProducts
      PROVE  ShopInv'
  BY <1>0, <1>4, PurgeProductsCovered
<1>5. ASSUME NEW p \in Orders, RefundPayment(p)
      PROVE  ShopInv'
  BY <1>0, <1>5, RefundCovered
<1> QED
  BY <1>1, <1>2, <1>3, <1>4, <1>5, Zenon DEF AdminNext

-----------------------------------------------------------------------------
(* An edit in one step, or in two with nothing written in between.          *)
LEMMA ShopStep == ShopInv /\ [(SerialNext \/ ApartNext) /\ NamesKept]_allVars => ShopInv'
<1> SUFFICES ASSUME ShopInv, [(SerialNext \/ ApartNext) /\ NamesKept]_allVars
             PROVE  ShopInv'
  OBVIOUS
<1>0. DraftOK
  BY DEF ShopInv, CatalogueTypeOK, DraftOK
<1>1. ASSUME OrdersNext
      PROVE  ShopInv'
  BY <1>1, OrdersCovered
<1>2. ASSUME AdminNext, NamesKept
      PROVE  ShopInv'
  BY <1>2, AdminCovered
<1>3. ASSUME SerialEdit, NamesKept
      PROVE  ShopInv'
  <2>1. PICK v \in Variants : Edit(RowOf(v))
    BY <1>3 DEF SerialEdit
  <2>2. DraftOK'
    BY <1>0, <1>3 DEF SerialEdit, DraftOK
  <2> QED
    BY <1>3, <2>1, <2>2, EditCovered
<1>4. ASSUME UNCHANGED <<vars, product>>, DraftOK'
      PROVE  ShopInv'
  <2>1. UNCHANGED <<counters, sku, shelf, status, items, payment, product>>
    BY <1>4 DEF vars, counters
  <2>2. Pending' = Pending
    BY <2>1 DEF Pending, Having
  <2>3. CatalogueTypeOK'
    BY <1>4, <2>1 DEF ShopInv, CatalogueTypeOK, DraftOK, Exists, counters
  <2> QED
    BY <2>1, <2>2, <2>3, LessHeld DEF ShopInv, Exists
<1>5. ASSUME NEW a \in Admins, NEW v \in Variants, FindById(a, v)
      PROVE  ShopInv'
  <2>1. RowOf(v) \in Row
    BY DEF RowOf, Row, ShopInv, CatalogueTypeOK
  <2>2. DraftOK'
    BY <1>0, <1>5, <2>1 DEF FindById, DraftOK
  <2> QED
    BY <1>4, <1>5, <2>2 DEF FindById
<1>6. ASSUME NEW a \in Admins, Fresh(a), SaveDraft(a), NamesKept
      PROVE  ShopInv'
  <2>1. PICK v \in Variants : draft[a] = RowOf(v)
    BY <1>0, <1>6 DEF Fresh, DraftOK, Row
  <2>2. DraftOK'
    BY <1>0, <1>6 DEF SaveDraft, DraftOK
  <2>3. Edit(RowOf(v))
    BY <1>6, <2>1 DEF SaveDraft
  <2> QED
    BY <1>6, <2>2, <2>3, EditCovered
<1>7. ASSUME NEW a \in Admins, Abandon(a)
      PROVE  ShopInv'
  <2>1. DraftOK'
    BY <1>0, <1>7 DEF Abandon, DraftOK
  <2> QED
    BY <1>4, <1>7, <2>1 DEF Abandon
<1>8. ASSUME UNCHANGED allVars
      PROVE  ShopInv'
  BY <1>0, <1>4, <1>8 DEF allVars, DraftOK
<1> QED
  BY <1>1, <1>2, <1>3, <1>5, <1>6, <1>7, <1>8, Zenon DEF SerialNext, ApartNext

LEMMA ShopInit == CatalogueInit => ShopInv
<1> SUFFICES ASSUME CatalogueInit
             PROVE  ShopInv
  OBVIOUS
<1>1. IInv
  BY InvInit DEF CatalogueInit
<1>2. \A v, w \in Variants : sku[v] = sku[w] => v = w
  BY <1>1 DEF IInv, TypeOK, Injection, IsInjective
<1>3. CatalogueTypeOK
  BY <1>1, <1>2, ProductsAssumption
     DEF IInv, TypeOK, CatalogueTypeOK, CatalogueInit, Injection
<1>4. ReservedCovers
  BY <1>1 DEF IInv, TypeOK, LedgerExact, ReservedCovers
<1> QED
  BY <1>1, <1>3, <1>4 DEF ShopInv, IInv

(* The inductive invariant of orders and administration together.           *)
THEOREM ShopInvariant == CarefulSpec \/ ApartSpec => []ShopInv
<1> QED
  BY ShopInit, ShopStep, PTL DEF CarefulSpec, ApartSpec

(* Column types, the unique index on product and value, and no variant      *)
(* without its product: no save, restore or purge breaks them               *)
(* (admin-variant.service.ts:21-179, admin-product.service.ts:21-177).      *)
THEOREM CatalogueTypeCorrect == CarefulSpec \/ ApartSpec => []CatalogueTypeOK
<1>1. ShopInv => CatalogueTypeOK
  BY DEF ShopInv
<1> QED
  BY ShopInvariant, <1>1, PTL

(* Whatever is created, edited, deleted, restored, purged and refunded,     *)
(* reserved_stock covers what pending orders hold of every variant there    *)
(* is.                                                                      *)
THEOREM ReservedStaysCovering == CarefulSpec \/ ApartSpec => []ReservedCovers
<1>1. ShopInv => ReservedCovers
  BY DEF ShopInv
<1> QED
  BY ShopInvariant, <1>1, PTL

(* No administrator's edit takes away from the shelf what users have        *)
(* ordered: the CHECK on the row compares with reserved_stock, and that     *)
(* covers the orders (README.md:67).                                        *)
THEOREM PendingStaysInStock == CarefulSpec \/ ApartSpec => []PendingInStock
<1>1. ASSUME ShopInv
      PROVE  PendingInStock
  <2> SUFFICES ASSUME NEW v \in Variants, Exists(v)
               PROVE  Qty(items, Pending, sku[v]) <= stock[v]
    BY DEF PendingInStock
  <2>1. Qty(items, Pending, sku[v]) \in Nat /\ stock[v] \in Nat /\ reserved[v] \in Nat
    BY <1>1, PendingTotals DEF ShopInv, CatalogueTypeOK
  <2> QED
    BY <1>1, <2>1 DEF ShopInv, ReservedCovers, ReservedInStock
<1> QED
  BY ShopInvariant, <1>1, PTL

(* A variant that is on sale has reserved what any pending orders take off  *)
(* it, one that is not is left alone.                                       *)
LEMMA CoveredSettles == ShopInv => OnSaleCanSettle
<1> SUFFICES ASSUME ShopInv
             PROVE  OnSaleCanSettle
  OBVIOUS
<1>1. ASSUME NEW S \in SUBSET Pending, NEW v \in Variants
      PROVE  /\ stock[v] >= 0 /\ Less(reserved, S)[v] >= 0
             /\ Less(reserved, S)[v] <= stock[v]
             /\ Less(stock, S)[v] >= 0
             /\ Less(reserved, S)[v] <= Less(stock, S)[v]
  <2>1. /\ stock[v] \in Nat /\ reserved[v] \in Nat /\ reserved[v] <= stock[v]
    BY DEF ShopInv, CatalogueTypeOK, ReservedInStock
  <2>2. /\ Qty(items, S, sku[v]) \in Nat /\ Qty(items, Pending, sku[v]) \in Nat
        /\ Qty(items, S, sku[v]) <= Qty(items, Pending, sku[v])
    BY PendingTotals
  <2>3. CASE OnSale(v)
    <3>1. Qty(items, Pending, sku[v]) <= reserved[v]
      BY <2>3 DEF ShopInv, ReservedCovers, Exists, OnSale
    <3>2. /\ Less(reserved, S)[v] = reserved[v] - Qty(items, S, sku[v])
          /\ Less(stock, S)[v] = stock[v] - Qty(items, S, sku[v])
      BY <2>3 DEF Less
    <3> QED
      BY <2>1, <2>2, <3>1, <3>2
  <2>4. CASE ~OnSale(v)
    <3>1. Less(reserved, S)[v] = reserved[v] /\ Less(stock, S)[v] = stock[v]
      BY <2>4 DEF Less
    <3> QED
      BY <2>1, <3>1
  <2> QED
    BY <2>3, <2>4
<1>2. ASSUME NEW S \in SUBSET Pending
      PROVE  /\ ChecksHold(stock, Less(reserved, S))
             /\ ChecksHold(Less(stock, S), Less(reserved, S))
  BY <1>1, Zenon DEF ChecksHold
<1>3. \A o \in Pending : {o} \in SUBSET Pending
  OBVIOUS
<1> QED
  BY <1>2, <1>3 DEF OnSaleCanSettle

(* No edit, purge or refund puts a CHECK constraint between a pending order *)
(* and its end: with its variants on sale it can be settled, alone or in    *)
(* the worker's batch, and paid (order-worker.job.ts:60).                   *)
THEOREM OnSaleAlwaysSettles == CarefulSpec \/ ApartSpec => []OnSaleCanSettle
<1> QED
  BY ShopInvariant, CoveredSettles, PTL

=============================================================================
