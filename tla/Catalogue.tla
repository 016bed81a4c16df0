------------------------------- MODULE Catalogue -------------------------------
(***************************************************************************)
(* The variant and product administration beside the orders of OrderFlow.  *)
(* Every handler of it reads a row with findById, edits the object and     *)
(* saves it; save() writes each column whose value in memory differs from  *)
(* the database, so a row that moved in between is put back, counters      *)
(* included.  CarefulSpec runs these handlers in one step; ApartSpec in two, *)
(* saving only what nobody else has written meanwhile.  The handlers are all *)
(* those of the services; no route calls deactivateProductVariant or        *)
(* deleteProduct.                                                           *)
(***************************************************************************)
EXTENDS OrderFlow

CONSTANTS
    Products,       \* rows of products
    ProductOf,      \* the product of each sku
    StockLevels,    \* values an admin sets stock to (IsPositive, IsInt)
    Admins,         \* administration requests in flight
    NoDraft         \* a request that has read nothing

ASSUME ProductsAssumption == ProductOf \in [Skus -> Products]
ASSUME StockLevelsAssumption == StockLevels \subseteq Nat \ {0}

VARIABLES
    product,        \* "LISTED", "DELETED" once deleted_at is set, or "PURGED"
    draft           \* the row an administration request has in memory

shop     == <<product, draft>>
orders   == <<status, paid, orderRow, expired, payment, told>>
allVars  == <<vars, product, draft>>

Row == [v : Variants, stock : Nat, reserved : Nat, shelf : Shelf, sku : Skus]

Exists(v) == shelf[v] # "PURGED"

(* Column types, and what the database itself enforces: no two rows of one  *)
(* product and value (idx_product_variants_product_id_variant_value), no    *)
(* variant without a product.                                               *)
CatalogueTypeOK ==
    /\ stock \in [Variants -> Nat] /\ reserved \in [Variants -> Nat]
    /\ shelf \in [Variants -> Shelf] /\ sku \in [Variants -> Skus]
    /\ status \in [Orders -> OrderStatus] /\ payment \in [Orders -> PaymentStatus \cup {"REFUNDED"}]
    /\ items \in [Orders -> [Skus -> 0..MaxQty]]
    /\ product \in [Products -> {"LISTED", "DELETED", "PURGED"}]
    /\ draft \in [Admins -> Row \cup {NoDraft}]
    /\ \A v, w \in Variants :
          Exists(v) /\ Exists(w) /\ sku[v] = sku[w] => v = w
    /\ \A v \in Variants : Exists(v) => product[ProductOf[sku[v]]] # "PURGED"

CatalogueInit ==
    /\ Init
    /\ product = [p \in Products |-> "LISTED"]
    /\ draft = [a \in Admins |-> NoDraft]

-----------------------------------------------------------------------------
(* AdminProductVariantService *)

RowOf(v) == [v |-> v, stock |-> stock[v], reserved |-> reserved[v],
             shelf |-> shelf[v], sku |-> sku[v]]

(* Mutant: the index on product and value is not unique.                    *)
SaveDuplicate(r) ==
    /\ r.reserved <= r.stock
    /\ product[ProductOf[r.sku]] # "PURGED"
    /\ stock'    = [stock EXCEPT ![r.v] = r.stock]
    /\ reserved' = [reserved EXCEPT ![r.v] = r.reserved]
    /\ shelf'    = [shelf EXCEPT ![r.v] = r.shelf]
    /\ sku'      = [sku EXCEPT ![r.v] = r.sku]
    /\ UNCHANGED <<orders, product>>

(* save(): the row is written as it is in memory.  A row that is gone is    *)
(* inserted again, one that was soft-deleted comes back.                    *)
Save(r) ==
    /\ r.reserved <= r.stock
    /\ product[ProductOf[r.sku]] # "PURGED"
    /\ \A w \in Variants \ {r.v} : Exists(w) => sku[w] # r.sku
    /\ stock'    = [stock EXCEPT ![r.v] = r.stock]
    /\ reserved' = [reserved EXCEPT ![r.v] = r.reserved]
    /\ shelf'    = [shelf EXCEPT ![r.v] = r.shelf]
    /\ sku'      = [sku EXCEPT ![r.v] = r.sku]
    /\ UNCHANGED <<orders, product>>

CreateVariant(v, l, n) ==
    /\ ~Exists(v) /\ product[ProductOf[l]] = "LISTED"
    /\ Save([v |-> v, stock |-> n, reserved |-> 0, shelf |-> "ACTIVE", sku |-> l])

(* Mutant: the dto is saved as a new object, whose reserved_stock is the    *)
(* column's default.                                                        *)
UpdateVariantAnew(r) ==
    \E n \in StockLevels \cup {r.stock}, x \in {"ACTIVE", "INACTIVE", r.shelf},
       l \in {l \in Skus : ProductOf[l] = ProductOf[r.sku]} :
        Save([r EXCEPT !.stock = n, !.reserved = 0, !.shelf = x, !.sku = l])

(* Any of stock, isActive and variantValue may be given or left out.        *)
UpdateVariant(r) ==
    \E n \in StockLevels \cup {r.stock}, x \in {"ACTIVE", "INACTIVE", r.shelf},
       l \in {l \in Skus : ProductOf[l] = ProductOf[r.sku]} :
        Save([r EXCEPT !.stock = n, !.shelf = x, !.sku = l])

DeleteVariant(r) == Save([r EXCEPT !.shelf = "DELETED"])

(* Mutant: taking a variant off sale drops its reservations.                *)
DeactivateVariantReleasing(r) ==
    Save([r EXCEPT !.shelf = "INACTIVE", !.reserved = 0])

DeactivateVariant(r) == Save([r EXCEPT !.shelf = "INACTIVE"])

RestoreVariant(r) == r.shelf = "INACTIVE" /\ Save([r EXCEPT !.shelf = "ACTIVE"])

Edit(r) ==
    \/ UpdateVariant(r)
    \/ DeleteVariant(r)
    \/ DeactivateVariant(r)
    \/ RestoreVariant(r)

RemoveSoftDeletedVariants ==
    /\ shelf' = [v \in Variants |-> IF shelf[v] = "DELETED" THEN "PURGED" ELSE shelf[v]]
    /\ UNCHANGED <<counters, sku, orders, product>>

-----------------------------------------------------------------------------
(* AdminProductService.  deactivateProduct walks product.variants, which    *)
(* findById does not load, and fails; so no product is ever INACTIVE and    *)
(* restoreProduct finds none: neither has an action.                        *)

CreateProduct(p) ==
    /\ product[p] = "PURGED"
    /\ product' = [product EXCEPT ![p] = "LISTED"]
    /\ UNCHANGED vars

DeleteProduct(p) ==
    /\ product[p] = "LISTED"
    /\ product' = [product EXCEPT ![p] = "DELETED"]
    /\ UNCHANGED vars

(* The foreign keys cascade: variants and order items go with their product. *)
RemoveSoftDeletedProducts ==
    LET gone == {l \in Skus : product[ProductOf[l]] = "DELETED"}
    IN  /\ product' = [p \in Products |->
                         IF product[p] = "DELETED" THEN "PURGED" ELSE product[p]]
        /\ shelf' = [v \in Variants |-> IF sku[v] \in gone THEN "PURGED" ELSE shelf[v]]
        /\ items' = [o \in Orders |->
                       [l \in Skus |-> IF l \in gone THEN 0 ELSE items[o][l]]]
        /\ UNCHANGED <<counters, sku, status, paid, owner, expired, payment, told>>

-----------------------------------------------------------------------------
(* AdminPaymentService                                                      *)

(* refundPayment looks the variants of the payment's order up with a row    *)
(* lock that it asks for outside its transaction; TypeORM refuses, and all   *)
(* is rolled back.  An order without items, which a purge leaves behind,    *)
(* asks for no lock.                                                        *)
RefundPayment(p) ==
    /\ payment[p] = "SUCCESSFUL"
    /\ \A l \in Skus : items[p][l] = 0
    /\ payment' = [payment EXCEPT ![p] = "REFUNDED"]
    /\ status' = [status EXCEPT ![p] = "CANCELLED"]
    /\ paid' = [paid EXCEPT ![p] = "UNPAID"]
    /\ UNCHANGED <<counters, catalogue, orderRow, expired, told, product>>

-----------------------------------------------------------------------------
(* The handlers of OrderFlow; createOrder joins the product, which must not *)
(* be deleted.                                                              *)
ProductsListed ==
    \A o \in Orders, l \in Skus :
        status[o] = "NONE" /\ items'[o][l] > 0 => product[ProductOf[l]] = "LISTED"

OrdersNext ==
    /\ CheckoutNext \/ RollsBack
    /\ ProductsListed
    /\ UNCHANGED shop

AdminNext ==
    /\ \/ \E v \in Variants, l \in Skus, n \in StockLevels : CreateVariant(v, l, n)
       \/ RemoveSoftDeletedVariants
       \/ \E p \in Products : CreateProduct(p) \/ DeleteProduct(p)
       \/ RemoveSoftDeletedProducts
       \/ \E p \in Orders : RefundPayment(p)
    /\ UNCHANGED draft

(* Handlers one after the other.                                            *)
SerialEdit ==
    /\ \E v \in Variants : shelf[v] \in {"ACTIVE", "INACTIVE"} /\ Edit(RowOf(v))
    /\ UNCHANGED draft

SerialNext == OrdersNext \/ AdminNext \/ SerialEdit

(* An edit in two steps: findById, then save().                             *)
FindById(a, v) ==
    /\ draft[a] = NoDraft /\ shelf[v] \in {"ACTIVE", "INACTIVE"}
    /\ draft' = [draft EXCEPT ![a] = RowOf(v)]
    /\ UNCHANGED <<vars, product>>

SaveDraft(a) ==
    /\ draft[a] # NoDraft /\ Edit(draft[a])
    /\ draft' = [draft EXCEPT ![a] = NoDraft]

(* The request fails or dies before its save.                               *)
Abandon(a) ==
    /\ draft[a] # NoDraft
    /\ draft' = [draft EXCEPT ![a] = NoDraft]
    /\ UNCHANGED <<vars, product>>

(* Nobody has written the row since it was read.                            *)
Fresh(a) == draft[a] # NoDraft /\ draft[a] = RowOf(draft[a].v)

ApartNext ==
    \/ OrdersNext
    \/ AdminNext
    \/ \E a \in Admins, v \in Variants : FindById(a, v)
    \/ \E a \in Admins : (Fresh(a) /\ SaveDraft(a)) \/ Abandon(a)

(* No row gets a name that pending orders hold.                             *)
NamesKept ==
    \A v \in Variants :
        Exists(v)' /\ (~Exists(v) \/ sku'[v] # sku[v])
            => \A o \in Pending : items[o][sku'[v]] = 0

ShopFairness ==
    /\ WF_allVars(CancelExpiredOrders /\ UNCHANGED shop)
    /\ \A o \in Orders : WF_allVars(HourPasses(o) /\ UNCHANGED shop)

CarefulSpec == CatalogueInit /\ [][SerialNext /\ NamesKept]_allVars /\ ShopFairness
ApartSpec   ==
    CatalogueInit /\ [][ApartNext /\ NamesKept]_allVars /\ ShopFairness

-----------------------------------------------------------------------------
(* What survives the administration, handlers run one after the other and   *)
(* no name passing from one variant to another under a pending order.       *)

(* reserved_stock still covers what pending orders hold of a variant; it    *)
(* may be more, since a confirmation skips a variant that is off sale.      *)
ReservedCovers ==
    \A v \in Variants : Exists(v) => Qty(items, Pending, sku[v]) <= reserved[v]

(* Users have ordered no more than there is (README.md:67).                 *)
PendingInStock ==
    \A v \in Variants : Exists(v) => Qty(items, Pending, sku[v]) <= stock[v]

(* A set of pending orders whose variants are on sale can be settled in one *)
(* transaction, a single one can be paid as well.                           *)
OnSaleCanSettle ==
    /\ \A S \in SUBSET Pending :
          ItemsFound(S) => ChecksHold(stock, Less(reserved, S))
    /\ \A o \in Pending : ChecksHold(Less(stock, {o}), Less(reserved, {o}))

(* An order that names a variant off sale makes the worker fail for all; as *)
(* soon as every pending order's variants are on sale for good, nobody's    *)
(* order stays pending.                                                      *)
SettlesOnceOnSale ==
    <>[]ItemsFound(Pending)
        => \A o \in Orders : status[o] = "PENDING" ~> status[o] # "PENDING"

=============================================================================
