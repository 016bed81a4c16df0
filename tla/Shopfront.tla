------------------------------- MODULE Shopfront -------------------------------
(***************************************************************************)
(* The list of products, read page by page while the administration of     *)
(* Brands writes to it.  A page is a window of the list as it is when its  *)
(* query runs; meta.totalPages, which tells the reader how far to go, comes *)
(* from a count that runs on a connection of its own.  The reader asks for *)
(* page after page up to the last total it was told.                       *)
(***************************************************************************)
EXTENDS Brands, Integers, FiniteSetsExt, Relation

CONSTANTS
    Limit,          \* products on a page
    JoinedRows,     \* rows that variants and images add to the count
    NoFilter,       \* the reader asks for every brand
    NoAnswer,       \* the count has not come back
    NoWalk          \* nobody is reading

ASSUME ProductsAssumption == IsFiniteSet(Products)
ASSUME LimitAssumption == Limit \in Nat \ {0} /\ JoinedRows \in Nat

VARIABLES
    newer,      \* <<q, p>>: of two rows, that of q has the later created_at
    walk        \* the reader

shopVars == <<vars, newer, walk>>

(* left: the products that were listed when the walk began, have been ever  *)
(* since, and have not been shown; changes: the deletions, and the late     *)
(* additions, that the walk has met.                                        *)
Walk == [brand : Brand \cup {NoFilter}, page : Nat \ {0}, shown : BOOLEAN,
         total : Nat \cup {NoAnswer}, left : SUBSET Products, changes : Nat]

Rows == {p \in Products : product[p] # NoRow}

(* created_at orders the rows of products, and nothing else.                *)
ShopfrontTypeOK ==
    /\ BrandsTypeOK
    /\ newer \subseteq Rows \X Rows
    /\ IsStrictlyTotallyOrdered([r \in Rows \X Rows |-> r \in newer], Rows)
    /\ walk \in Walk \cup {NoWalk}

ShopfrontInit == Init /\ newer = {} /\ walk = NoWalk

-----------------------------------------------------------------------------
(* findProductsPagination: the products that are not deleted, of one brand  *)
(* or of all.                                                                *)
Matches(f, row) == Found(row) /\ (f = NoFilter \/ row.brand = f)

Listed(f, rows) == {p \in Products : Matches(f, rows[p])}

(* ORDER BY created_at DESC: how many of a list come before p.              *)
Place(p, list) == Cardinality({q \in list : <<q, p>> \in newer})

(* Mutant: pages counted from 0.                                             *)
SkippedFromZero(page) == page * Limit

Skipped(page) == (page - 1) * Limit

Page(f, page) ==
    LET list == Listed(f, product)
    IN  {p \in list : Place(p, list) \in Skipped(page)..(Skipped(page) + Limit - 1)}

(* COUNT( * ) goes over the rows of the joins, at least one for a product.  *)
Counts(f) ==
    LET n == Cardinality(Listed(f, product)) IN IF n = 0 THEN {0} ELSE n..(n + JoinedRows)

(* The first request of a reader.                                            *)
Open(f) ==
    /\ walk = NoWalk
    /\ walk' = [brand |-> f, page |-> 1, shown |-> FALSE, total |-> NoAnswer,
                left |-> Listed(f, product), changes |-> 0]
    /\ UNCHANGED <<vars, newer>>

(* Bound: no more changes are counted than there are products left to miss. *)
Capped(w) == [w EXCEPT !.changes = Min({@, Cardinality(w.left)})]

(* The two queries of paginate(), in either order.  What is deleted between *)
(* the query of the ids and that of the rows is no longer left either.      *)
GetMany ==
    /\ walk # NoWalk /\ ~walk.shown
    /\ walk' = Capped([walk EXCEPT !.shown = TRUE, !.left = @ \ Page(walk.brand, walk.page)])
    /\ UNCHANGED <<vars, newer>>

GetCount ==
    /\ walk # NoWalk /\ walk.total = NoAnswer
    /\ \E n \in Counts(walk.brand) : walk' = [walk EXCEPT !.total = n]
    /\ UNCHANGED <<vars, newer>>

Answered == walk # NoWalk /\ walk.shown /\ walk.total # NoAnswer
AtEnd    == Answered /\ walk.page * Limit >= walk.total

TurnPage ==
    /\ Answered /\ ~AtEnd
    /\ walk' = [walk EXCEPT !.page = @ + 1, !.shown = FALSE, !.total = NoAnswer]
    /\ UNCHANGED <<vars, newer>>

Leave == AtEnd /\ walk' = NoWalk /\ UNCHANGED <<vars, newer>>

-----------------------------------------------------------------------------
(* A step of the administration.  A row gets its created_at when it is      *)
(* inserted, and keeps it.                                                   *)
NewRows == {p \in Products : product[p] = NoRow /\ product'[p] # NoRow}

NewestFirst ==
    newer' = (newer \cap (Rows' \X Rows')) \cup (NewRows \X (Rows' \ NewRows))

(* What the reader would have been shown and what it did not expect.  A     *)
(* product added moves the others one place down the list, out of sight     *)
(* only if the count came before it and the page comes after.               *)
Gone(f)  == Listed(f, product) \ Listed(f, product')
Added(f) == Listed(f, product') \ Listed(f, product)
Late     == walk.total # NoAnswer /\ ~walk.shown

Watched ==
    walk' = IF walk = NoWalk THEN NoWalk
            ELSE LET met == Gone(walk.brand) \cup IF Late THEN Added(walk.brand) ELSE {}
                 IN  Capped([walk EXCEPT
                        !.left = @ \ Gone(walk.brand), !.changes = @ + Cardinality(met)])

AdminStep        == Next /\ NewestFirst /\ Watched
CarefulAdminStep == CarefulNext /\ NewestFirst /\ Watched

ReaderStep ==
    (\E f \in Brand \cup {NoFilter} : Open(f)) \/ GetMany \/ GetCount \/ TurnPage \/ Leave

ShopfrontNext == AdminStep \/ ReaderStep

ShopfrontSpec == ShopfrontInit /\ [][ShopfrontNext]_shopVars

(* With administrators who see to what the code does not.                   *)
CarefulShopfrontSpec == ShopfrontInit /\ [][CarefulAdminStep \/ ReaderStep]_shopVars

-----------------------------------------------------------------------------
(* Who has read to the end has seen every product that was on the list all  *)
(* the while, but for one for each product taken off the list, or added     *)
(* between the count and the page it came with (product.repository.ts:96).  *)
MissesOnlyByChanges ==
    AtEnd => Cardinality(walk.left) <= walk.changes
=============================================================================
