---------------------------------- MODULE Brands ----------------------------------
(***************************************************************************)
(* Administration of brands, categories and the products under them.       *)
(* Brands and categories have the same handlers, so both are groups here.  *)
(* A handler reads with findById or findByName, decides, and saves a whole *)
(* row; several requests interleave between the two.  The handlers are all *)
(* those of the services; no route calls deactivate or deleteProduct.      *)
(***************************************************************************)
EXTENDS FiniteSets

CONSTANTS
    Brand, Category,    \* rows of brands and of categories
    Names,
    Products,
    Requests,           \* requests in flight
    NoRow,              \* there is no such row
    Idle                \* the request has not begun

ASSUME GroupsAssumption ==
    /\ Brand \cap Category = {} /\ (Brand \cup Category) \cap Products = {}

VARIABLES
    group,      \* the row of a brand or category, or NoRow
    product,    \* the row of a product, or NoRow
    request     \* the row a request is going to save, and where

vars == <<group, product, request>>

Groups == Brand \cup Category

Group   == [name : Names, status : {"ACTIVE", "INACTIVE"}, deleted : BOOLEAN]
Product == [brand : Brand, category : Category, deleted : BOOLEAN]

ASSUME RowsAssumption == NoRow \notin Group \cup Product
ASSUME IdleAssumption ==
    Idle \notin [id : Groups, row : Group] \cup [id : Products, row : Product]

SameKind(g, h) == {g, h} \subseteq Brand \/ {g, h} \subseteq Category

Deleted(row) == row # NoRow /\ row.deleted
Found(row)   == row # NoRow /\ ~row.deleted
Active(row)  == Found(row) /\ row.status = "ACTIVE"
Parents(row) == {row.brand, row.category}

(* A product refers to a brand and a category that exist.                   *)
BrandsTypeOK ==
    /\ group   \in [Groups -> Group \cup {NoRow}]
    /\ product \in [Products -> Product \cup {NoRow}]
    /\ request \in [Requests ->
           {Idle} \cup [id : Groups, row : Group] \cup [id : Products, row : Product]]
    /\ \A p \in Products : product[p] # NoRow =>
          \A g \in Parents(product[p]) : group[g] # NoRow

Init ==
    /\ group = [g \in Groups |-> NoRow]
    /\ product = [p \in Products |-> NoRow]
    /\ request = [r \in Requests |-> Idle]

-----------------------------------------------------------------------------
(* A handler that has found what it looked for goes on to save this row.    *)
Saves(r, i, row) ==
    /\ request[r] = Idle
    /\ request' = [request EXCEPT ![r] = [id |-> i, row |-> row]]
    /\ UNCHANGED <<group, product>>

(* The id of a new row (uuid): none that another request has drawn.         *)
Fresh(i) == \A q \in Requests : request[q] # Idle => request[q].id # i

(* AdminBrandService and AdminCategoryService                               *)

(* Mutant: findByName looks among the inactive ones.                        *)
FindByNameInactive(k, n) ==
    {g \in Groups : SameKind(g, k) /\ Found(group[g]) /\ ~Active(group[g])
                                    /\ group[g].name = n}

FindByName(k, n) ==
    {g \in Groups : SameKind(g, k) /\ Active(group[g]) /\ group[g].name = n}

CreateGroup(r, g, n) ==
    /\ group[g] = NoRow /\ Fresh(g) /\ FindByName(g, n) = {}
    /\ Saves(r, g, [name |-> n, status |-> "ACTIVE", deleted |-> FALSE])

UpdateGroup(r, g, n) ==
    Found(group[g]) /\ Saves(r, g, [group[g] EXCEPT !.name = n])

DeactivateGroup(r, g) ==
    Found(group[g]) /\ Saves(r, g, [group[g] EXCEPT !.status = "INACTIVE"])

DeleteGroup(r, g) ==
    Found(group[g]) /\ Saves(r, g, [group[g] EXCEPT !.deleted = TRUE])

(* findInactiveBrand, like findById, does not find what is deleted.         *)
RestoreGroup(r, g) ==
    /\ Found(group[g]) /\ group[g].status = "INACTIVE"
    /\ Saves(r, g, [group[g] EXCEPT !.status = "ACTIVE"])

-----------------------------------------------------------------------------
(* AdminProductService                                                      *)

(* Mutant: the category is not looked up.                                   *)
CreateProductUnchecked(r, p, b, c) ==
    /\ product[p] = NoRow /\ Fresh(p) /\ Found(group[b])
    /\ Saves(r, p, [brand |-> b, category |-> c, deleted |-> FALSE])

CreateProduct(r, p, b, c) ==
    /\ product[p] = NoRow /\ Fresh(p) /\ Found(group[b]) /\ Found(group[c])
    /\ Saves(r, p, [brand |-> b, category |-> c, deleted |-> FALSE])

(* Mutant: a new brand is not looked up.                                    *)
UpdateProductUnchecked(r, p, b, c) ==
    /\ Found(product[p]) /\ (c # product[p].category => Found(group[c]))
    /\ group[b] # NoRow
    /\ Saves(r, p, [product[p] EXCEPT !.brand = b, !.category = c])

(* A brand or category that stays is not given, and not looked up.          *)
UpdateProduct(r, p, b, c) ==
    /\ Found(product[p])
    /\ b # product[p].brand => Found(group[b])
    /\ c # product[p].category => Found(group[c])
    /\ Saves(r, p, [product[p] EXCEPT !.brand = b, !.category = c])

DeleteProduct(r, p) ==
    Found(product[p]) /\ Saves(r, p, [product[p] EXCEPT !.deleted = TRUE])

(* One statement; nothing else removes a row, so no reference is broken.    *)
RemoveSoftDeletedProducts ==
    /\ product' = [p \in Products |-> IF Deleted(product[p]) THEN NoRow ELSE product[p]]
    /\ UNCHANGED <<group, request>>

(* Read-only: the variants of a product, for users and administrators, one  *)
(* of them, and the upload of its images all begin this way.  A relation to *)
(* a deleted brand or category is loaded as null, and null has no id.       *)
Loaded(row) == {g \in Parents(row) : Found(group[g])}

VariantsPage(p) ==
    CASE ~Found(product[p])                        -> "not found"
      [] Loaded(product[p]) = Parents(product[p])  -> "page"
      [] OTHER                                     -> "error"

-----------------------------------------------------------------------------
(* save(): the row is written as it is in memory, whatever it is by now.    *)
SaveGroup(r) ==
    /\ request[r] # Idle /\ request[r].id \in Groups
    /\ group' = [group EXCEPT ![request[r].id] = request[r].row]
    /\ request' = [request EXCEPT ![r] = Idle]
    /\ UNCHANGED product

SaveProduct(r) ==
    /\ request[r] # Idle /\ request[r].id \in Products
    /\ product' = [product EXCEPT ![request[r].id] = request[r].row]
    /\ request' = [request EXCEPT ![r] = Idle]
    /\ UNCHANGED group

(* The request dies before it saves.                                        *)
Crash(r) ==
    /\ request[r] # Idle
    /\ request' = [request EXCEPT ![r] = Idle]
    /\ UNCHANGED <<group, product>>

GroupRequest(r, g) ==
    \/ \E n \in Names : CreateGroup(r, g, n) \/ UpdateGroup(r, g, n)
    \/ DeactivateGroup(r, g)
    \/ DeleteGroup(r, g)
    \/ RestoreGroup(r, g)

BrandRequest(r) == \E g \in Brand : GroupRequest(r, g)

CategoryRequest(r) == \E g \in Category : GroupRequest(r, g)

ProductRequest(r) ==
    \E p \in Products :
        \/ \E b \in Brand, c \in Category : CreateProduct(r, p, b, c) \/ UpdateProduct(r, p, b, c)
        \/ DeleteProduct(r, p)

Begins(r) == BrandRequest(r) \/ CategoryRequest(r) \/ ProductRequest(r)

Next ==
    \/ \E r \in Requests : Begins(r) \/ SaveGroup(r) \/ SaveProduct(r) \/ Crash(r)
    \/ RemoveSoftDeletedProducts

Spec == Init /\ [][Next]_vars

-----------------------------------------------------------------------------
(* What administrators have to see to, because the code does not.           *)

InGroups(e) == e # Idle /\ e.id \in Groups

NameFree(g, n) ==
    \A h \in Groups \ {g} : SameKind(g, h) /\ Active(group[h]) => group[h].name # n

Childless(g) == \A p \in Products : Found(product[p]) => g \notin Parents(product[p])

(* They delete only what has no products (README.md:74 and :79), and give   *)
(* no name by update or restore that is taken: only a creation looks for    *)
(* that itself.                                                             *)
Considerate(e) ==
    InGroups(e) =>
        /\ Deleted(e.row) => Childless(e.id)
        /\ Active(e.row) /\ group[e.id] # NoRow => NameFree(e.id, e.row.name)

(* They do not at the same time give two rows one name, or delete a group   *)
(* and put a product in it.  Two requests that save one row may overlap.    *)
Clash(e, f) ==
    /\ InGroups(e)
    /\ \/ /\ InGroups(f) /\ e.id # f.id /\ SameKind(e.id, f.id)
          /\ Active(e.row) /\ Active(f.row) /\ e.row.name = f.row.name
       \/ /\ ~InGroups(f)
          /\ Deleted(e.row) /\ e.id \in Parents(f.row)

Apart(r) ==
    \A q \in Requests \ {r} :
        request[q] # Idle =>
            ~Clash(request[q], request[r]) /\ ~Clash(request[r], request[q])

BeginsCarefully(r) == Begins(r) /\ Considerate(request'[r]) /\ Apart(r)'

CarefulNext ==
    \/ \E r \in Requests :
          BeginsCarefully(r) \/ SaveGroup(r) \/ SaveProduct(r) \/ Crash(r)
    \/ RemoveSoftDeletedProducts

CarefulSpec == Init /\ [][CarefulNext]_vars

-----------------------------------------------------------------------------
(* What holds with such administrators, saves of rows that another request  *)
(* has written or deleted since they were read included.                    *)

(* 'Brand has already existed' (admin-brand.service.ts:33): no two active   *)
(* brands, and no two active categories, have one name.                     *)
NamesUnique ==
    \A g, h \in Groups :
        SameKind(g, h) /\ g # h /\ Active(group[g]) /\ Active(group[h])
            => group[g].name # group[h].name

(* No page of a product on the list ends in an error: the services read      *)
(* product.brand.id, and product.category.id, of parents that may be null   *)
(* (product-variant.service.ts:29 and :37), so neither may be deleted.      *)
ParentsListed ==
    \A p \in Products : VariantsPage(p) # "error"
=============================================================================
