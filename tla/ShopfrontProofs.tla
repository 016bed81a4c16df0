----------------------------- MODULE ShopfrontProofs -----------------------------
(***************************************************************************)
(* What Brands keeps for any number of brands, categories, products, names *)
(* and requests: its types whatever the requests do, names and parents as  *)
(* long as administrators see to what the code does not; and what a reader *)
(* of Shopfront can miss, for pages of any size.                           *)
(***************************************************************************)
EXTENDS Shopfront, FiniteSetTheorems, TLAPS

GroupSave   == [id : Groups, row : Group]
ProductSave == [id : Products, row : Product]

ParentsThere(row) == \A g \in Parents(row) : group[g] # NoRow
ParentsFound(row) == \A g \in Parents(row) : Found(group[g])

(* A product refers to rows that are there, in the table and in the hands   *)
(* of a request.                                                            *)
RowsInv ==
    /\ BrandsTypeOK
    /\ \A r \in Requests : request[r] \in ProductSave => ParentsThere(request[r].row)

(* What a request is about to save is as good when it saves as when it read *)
(* the row, even if somebody else has saved that row meanwhile: no other    *)
(* request gives another row the name, or deletes a group that a product    *)
(* goes under.                                                              *)
GroupSound(e) ==
    /\ Deleted(e.row) => Childless(e.id)
    /\ Active(e.row) => NameFree(e.id, e.row.name)

ProductSound(e) == Found(e.row) => ParentsFound(e.row)

Sound(e) ==
    /\ e \in GroupSave => GroupSound(e)
    /\ e \in ProductSave => ProductSound(e)

ListedUnderFound == \A p \in Products : Found(product[p]) => ParentsFound(product[p])

CarefulInv ==
    /\ RowsInv
    /\ NamesUnique
    /\ ListedUnderFound
    /\ \A r \in Requests : request[r] # Idle => Apart(r) /\ Sound(request[r])

-----------------------------------------------------------------------------
(* A save of a group is none of a product.                                  *)
LEMMA SavesDiffer ==
    /\ \A e \in GroupSave : e # Idle /\ InGroups(e) /\ e \notin ProductSave
    /\ \A e \in ProductSave : e # Idle /\ ~InGroups(e) /\ e \notin GroupSave
BY GroupsAssumption, IdleAssumption DEF GroupSave, ProductSave, InGroups, Groups

LEMMA RequestType ==
    ASSUME BrandsTypeOK, NEW r \in Requests, request[r] # Idle
    PROVE  request[r] \in GroupSave \cup ProductSave
BY DEF BrandsTypeOK, GroupSave, ProductSave

LEMMA ParentsAreGroups ==
    ASSUME NEW row \in Product
    PROVE  Parents(row) \subseteq Groups
BY DEF Parents, Product, Groups

(* The page of a product is no error when its parents are found.            *)
LEMMA PageIsNoError ==
    ASSUME NEW p \in Products, Found(product[p]) => ParentsFound(product[p])
    PROVE  VariantsPage(p) # "error"
<1>1. CASE ~Found(product[p])
  BY <1>1 DEF VariantsPage
<1>2. CASE Found(product[p])
  <2>1. Loaded(product[p]) = Parents(product[p])
    BY <1>2 DEF Loaded, ParentsFound
  <2> QED
    BY <1>2, <2>1 DEF VariantsPage
<1> QED
  BY <1>1, <1>2

LEMMA RowsInit == Init => RowsInv
BY SavesDiffer DEF Init, RowsInv, BrandsTypeOK

LEMMA CarefulInit == Init => CarefulInv
BY RowsInit, RowsAssumption
   DEF Init, CarefulInv, NamesUnique, ListedUnderFound, Active, Found

-----------------------------------------------------------------------------
(* A handler has read what it needs, and is about to save e.  Only one that *)
(* creates a row has looked for the name.                                   *)
LEMMA GroupSaves ==
    ASSUME BrandsTypeOK, NEW r \in Requests, NEW g \in Groups, GroupRequest(r, g)
    PROVE  \E e \in GroupSave :
              Saves(r, e.id, e.row) /\ (group[e.id] # NoRow \/ NameFree(e.id, e.row.name))
<1> DEFINE Goal == \E e \in GroupSave :
              Saves(r, e.id, e.row) /\ (group[e.id] # NoRow \/ NameFree(e.id, e.row.name))
<1>1. group[g] \in Group \cup {NoRow}
  BY DEF BrandsTypeOK
<1>2. ASSUME NEW row \in Group, Saves(r, g, row), group[g] # NoRow \/ NameFree(g, row.name)
      PROVE  Goal
  <2> DEFINE e == [id |-> g, row |-> row]
  <2>1. e \in GroupSave /\ e.id = g /\ e.row = row
    BY DEF GroupSave
  <2> HIDE DEF e
  <2> QED
    BY <1>2, <2>1
<1>3. ASSUME NEW n \in Names, CreateGroup(r, g, n)
      PROVE  Goal
  <2> DEFINE row == [name |-> n, status |-> "ACTIVE", deleted |-> FALSE]
  <2>1. row \in Group /\ row.name = n
    BY DEF Group
  <2>2. NameFree(g, n)
    BY <1>3 DEF CreateGroup, FindByName, NameFree, SameKind
  <2>3. Saves(r, g, row)
    BY <1>3 DEF CreateGroup
  <2> HIDE DEF row
  <2> QED
    BY <1>2, <2>1, <2>2, <2>3
<1>4. ASSUME Found(group[g])
      PROVE  /\ group[g] \in Group /\ group[g] # NoRow
             /\ \A n \in Names : [group[g] EXCEPT !.name = n] \in Group
             /\ \A s \in {"ACTIVE", "INACTIVE"} : [group[g] EXCEPT !.status = s] \in Group
             /\ [group[g] EXCEPT !.deleted = TRUE] \in Group
  BY <1>1, <1>4 DEF Found, Group
<1>5. ASSUME NEW n \in Names, UpdateGroup(r, g, n)
      PROVE  Goal
  BY <1>2, <1>4, <1>5 DEF UpdateGroup
<1>6. CASE DeactivateGroup(r, g) \/ DeleteGroup(r, g) \/ RestoreGroup(r, g)
  BY <1>2, <1>4, <1>6 DEF DeactivateGroup, DeleteGroup, RestoreGroup
<1> QED
  BY <1>3, <1>5, <1>6 DEF GroupRequest

LEMMA ProductSaves ==
    ASSUME BrandsTypeOK, NEW r \in Requests, ProductRequest(r)
    PROVE  \E e \in ProductSave :
              /\ Saves(r, e.id, e.row) /\ ParentsThere(e.row)
              /\ ListedUnderFound => ProductSound(e)
<1> DEFINE Goal == \E e \in ProductSave :
              /\ Saves(r, e.id, e.row) /\ ParentsThere(e.row)
              /\ ListedUnderFound => ProductSound(e)
<1>1. ASSUME NEW p \in Products, NEW row \in Product, Saves(r, p, row), ParentsThere(row),
             ListedUnderFound /\ Found(row) => ParentsFound(row)
      PROVE  Goal
  <2> DEFINE e == [id |-> p, row |-> row]
  <2>1. e \in ProductSave /\ e.id = p /\ e.row = row
    BY DEF ProductSave
  <2> HIDE DEF e
  <2> QED
    BY <1>1, <2>1 DEF ProductSound
<1>2. ASSUME NEW p \in Products, Found(product[p])
      PROVE  /\ product[p] \in Product
             /\ ParentsThere(product[p])
             /\ ListedUnderFound => ParentsFound(product[p])
  BY <1>2 DEF BrandsTypeOK, ListedUnderFound, ParentsThere, Found
<1>3. ASSUME NEW p \in Products, NEW b \in Brand, NEW c \in Category, CreateProduct(r, p, b, c)
      PROVE  Goal
  <2> DEFINE row == [brand |-> b, category |-> c, deleted |-> FALSE]
  <2>1. row \in Product /\ Parents(row) = {b, c}
    BY DEF Product, Parents
  <2>2. Saves(r, p, row) /\ Found(group[b]) /\ Found(group[c])
    BY <1>3 DEF CreateProduct
  <2> HIDE DEF row
  <2> QED
    BY <1>1, <2>1, <2>2 DEF ParentsFound, ParentsThere, Found
<1>4. ASSUME NEW p \in Products, NEW b \in Brand, NEW c \in Category, UpdateProduct(r, p, b, c)
      PROVE  Goal
  <2> DEFINE row == [product[p] EXCEPT !.brand = b, !.category = c]
  <2>1. Found(product[p]) /\ product[p] \in Product
    BY <1>2, <1>4 DEF UpdateProduct
  <2>2. row \in Product /\ Parents(row) = {b, c}
    BY <2>1 DEF Product, Parents
  <2>3. \A g \in Parents(product[p]) :
           group[g] # NoRow /\ (ListedUnderFound => Found(group[g]))
    BY <1>2, <2>1 DEF ParentsFound, ParentsThere
  <2>4. /\ Saves(r, p, row)
        /\ b \in Parents(product[p]) \/ Found(group[b])
        /\ c \in Parents(product[p]) \/ Found(group[c])
    BY <1>4 DEF UpdateProduct, Parents
  <2>5. ParentsThere(row) /\ (ListedUnderFound => ParentsFound(row))
    BY <2>2, <2>3, <2>4 DEF ParentsFound, ParentsThere, Found
  <2> HIDE DEF row
  <2> QED
    BY <1>1, <2>2, <2>4, <2>5
<1>5. ASSUME NEW p \in Products, DeleteProduct(r, p)
      PROVE  Goal
  <2> DEFINE row == [product[p] EXCEPT !.deleted = TRUE]
  <2>1. Found(product[p]) /\ product[p] \in Product /\ ParentsThere(product[p])
    BY <1>2, <1>5 DEF DeleteProduct
  <2>2. row \in Product /\ Parents(row) = Parents(product[p]) /\ ~Found(row)
    BY <2>1 DEF Product, Parents, Found
  <2>3. Saves(r, p, row) /\ ParentsThere(row)
    BY <1>5, <2>1, <2>2 DEF DeleteProduct, ParentsThere
  <2> HIDE DEF row
  <2> QED
    BY <1>1, <2>2, <2>3
<1> QED
  BY <1>3, <1>4, <1>5 DEF ProductRequest

(* Both in one: a request that begins is about to save something.           *)
LEMMA BeginsSaves ==
    ASSUME BrandsTypeOK, NEW r \in Requests, Begins(r)
    PROVE  \E e \in GroupSave \cup ProductSave :
              /\ request[r] = Idle /\ request' = [request EXCEPT ![r] = e]
              /\ UNCHANGED <<group, product>>
              /\ e \in GroupSave => group[e.id] # NoRow \/ NameFree(e.id, e.row.name)
              /\ e \in ProductSave =>
                    ParentsThere(e.row) /\ (ListedUnderFound => ProductSound(e))
<1>1. \A e \in GroupSave \cup ProductSave : e = [id |-> e.id, row |-> e.row]
  BY DEF GroupSave, ProductSave
<1>2. CASE BrandRequest(r) \/ CategoryRequest(r)
  <2>1. PICK g \in Groups : GroupRequest(r, g)
    BY <1>2 DEF BrandRequest, CategoryRequest, Groups
  <2>2. PICK e \in GroupSave :
           Saves(r, e.id, e.row) /\ (group[e.id] # NoRow \/ NameFree(e.id, e.row.name))
    BY <2>1, GroupSaves
  <2> QED
    BY <1>1, <2>2, SavesDiffer DEF Saves
<1>3. CASE ProductRequest(r)
  <2>1. PICK e \in ProductSave :
           /\ Saves(r, e.id, e.row) /\ ParentsThere(e.row)
           /\ ListedUnderFound => ProductSound(e)
    BY <1>3, ProductSaves
  <2> QED
    BY <1>1, <2>1, SavesDiffer DEF Saves
<1> QED
  BY <1>2, <1>3 DEF Begins

-----------------------------------------------------------------------------
(* The types, whatever requests do.                                          *)
LEMMA RowsStep == RowsInv /\ [Next]_vars => RowsInv'
<1> SUFFICES ASSUME RowsInv, [Next]_vars
             PROVE  RowsInv'
  OBVIOUS
<1>1. request \in [Requests -> {Idle} \cup GroupSave \cup ProductSave]
  BY DEF RowsInv, BrandsTypeOK, GroupSave, ProductSave
<1>2. Idle \notin ProductSave
  BY SavesDiffer
<1>3. ASSUME NEW r \in Requests, Begins(r)
      PROVE  RowsInv'
  <2>1. PICK e \in GroupSave \cup ProductSave :
           /\ request' = [request EXCEPT ![r] = e] /\ UNCHANGED <<group, product>>
           /\ e \in ProductSave => ParentsThere(e.row)
    BY <1>3, BeginsSaves DEF RowsInv
  <2>2. BrandsTypeOK'
    BY <2>1, <1>1 DEF RowsInv, BrandsTypeOK, GroupSave, ProductSave
  <2>3. ASSUME NEW q \in Requests, request'[q] \in ProductSave
        PROVE  ParentsThere(request[q].row)'
    BY <2>1, <2>3, <1>1 DEF RowsInv, ParentsThere
  <2> QED
    BY <2>2, <2>3 DEF RowsInv
<1>4. ASSUME NEW r \in Requests, SaveGroup(r)
      PROVE  RowsInv'
  <2>1. PICK f : f = request[r]
    OBVIOUS
  <2>2. /\ f \in GroupSave
        /\ group' = [group EXCEPT ![f.id] = f.row]
        /\ request' = [request EXCEPT ![r] = Idle] /\ product' = product
    BY <1>4, <2>1, RequestType, SavesDiffer DEF SaveGroup, RowsInv, InGroups
  <2>3. /\ f.id \in Groups /\ f.row \in Group /\ f.row # NoRow
        /\ group' \in [Groups -> Group \cup {NoRow}]
        /\ \A g \in Groups : group[g] # NoRow => group'[g] # NoRow
    BY <2>2, RowsAssumption DEF GroupSave, RowsInv, BrandsTypeOK
  <2>4. \A row \in Product : ParentsThere(row) => ParentsThere(row)'
    BY <2>3, ParentsAreGroups DEF ParentsThere, Parents
  <2>5. request' \in [Requests -> {Idle} \cup GroupSave \cup ProductSave]
    BY <1>1, <2>2
  <2>6. ASSUME NEW p \in Products, product[p] # NoRow
        PROVE  \A g \in Parents(product[p]) : group'[g] # NoRow
    BY <2>4, <2>6 DEF RowsInv, BrandsTypeOK, ParentsThere, Parents
  <2>7. BrandsTypeOK'
    BY <2>2, <2>3, <2>5, <2>6 DEF RowsInv, BrandsTypeOK, GroupSave, ProductSave
  <2>8. ASSUME NEW q \in Requests, request'[q] \in ProductSave
        PROVE  ParentsThere(request[q].row)'
    <3>1. PICK e : e = request[q]
      OBVIOUS
    <3>2. e = request'[q] /\ e \in ProductSave /\ ParentsThere(e.row)
      BY <2>2, <2>8, <3>1, <1>1, <1>2 DEF RowsInv
    <3>3. e.row \in Product
      BY <3>2 DEF ProductSave
    <3> QED
      BY <2>4, <3>2, <3>3 DEF ParentsThere
  <2> QED
    BY <2>7, <2>8 DEF RowsInv
<1>5. ASSUME NEW r \in Requests, SaveProduct(r)
      PROVE  RowsInv'
  <2>1. PICK f : f = request[r]
    OBVIOUS
  <2>2. /\ f \in ProductSave /\ ParentsThere(f.row)
        /\ product' = [product EXCEPT ![f.id] = f.row]
        /\ request' = [request EXCEPT ![r] = Idle] /\ group' = group
    BY <1>5, <2>1, RequestType, SavesDiffer, GroupsAssumption
       DEF SaveProduct, RowsInv, InGroups, Groups
  <2>3. f.id \in Products /\ f.row \in Product
    BY <2>2 DEF ProductSave
  <2>4. BrandsTypeOK'
    BY <1>1, <2>2, <2>3 DEF RowsInv, BrandsTypeOK, ParentsThere, GroupSave, ProductSave
  <2>5. ASSUME NEW q \in Requests, request'[q] \in ProductSave
        PROVE  ParentsThere(request[q].row)'
    BY <2>2, <2>5, <1>1, <1>2 DEF RowsInv, ParentsThere
  <2> QED
    BY <2>4, <2>5 DEF RowsInv
<1>6. ASSUME NEW r \in Requests, Crash(r)
      PROVE  RowsInv'
  BY <1>6, <1>1, <1>2
     DEF Crash, RowsInv, BrandsTypeOK, ParentsThere, GroupSave, ProductSave
<1>7. CASE RemoveSoftDeletedProducts
  <2>1. /\ \A p \in Products :
              product'[p] = IF Deleted(product[p]) THEN NoRow ELSE product[p]
        /\ product' = [p \in Products |-> product'[p]]
        /\ UNCHANGED <<group, request>>
    BY <1>7 DEF RemoveSoftDeletedProducts
  <2>2. \A p \in Products :
           /\ product'[p] \in Product \cup {NoRow}
           /\ product'[p] # NoRow => product'[p] = product[p]
    BY <2>1 DEF RowsInv, BrandsTypeOK
  <2>3. product' \in [Products -> Product \cup {NoRow}]
    BY <2>1, <2>2
  <2> QED
    BY <2>1, <2>2, <2>3 DEF RowsInv, BrandsTypeOK, ParentsThere
<1>8. CASE UNCHANGED vars
  BY <1>8 DEF vars, RowsInv, BrandsTypeOK, ParentsThere
<1> QED
  BY <1>3, <1>4, <1>5, <1>6, <1>7, <1>8 DEF Next

-----------------------------------------------------------------------------
(* With administrators who see to what the code does not.                   *)
LEMMA BeginsKeepsInv ==
    ASSUME CarefulInv, RowsInv', NEW r \in Requests, BeginsCarefully(r)
    PROVE  CarefulInv'
<1>1. PICK e \in GroupSave \cup ProductSave :
         /\ request[r] = Idle /\ request' = [request EXCEPT ![r] = e]
         /\ UNCHANGED <<group, product>>
         /\ e \in GroupSave => group[e.id] # NoRow \/ NameFree(e.id, e.row.name)
         /\ e \in ProductSave =>
               ParentsThere(e.row) /\ (ListedUnderFound => ProductSound(e))
  BY BeginsSaves DEF BeginsCarefully, CarefulInv, RowsInv
<1>2. request'[r] = e /\ \A q \in Requests \ {r} : request'[q] = request[q]
  BY <1>1 DEF CarefulInv, RowsInv, BrandsTypeOK
<1>3. Considerate(e) /\ Apart(r)'
  BY <1>2 DEF BeginsCarefully
<1>4. NamesUnique' /\ ListedUnderFound'
  BY <1>1 DEF CarefulInv, NamesUnique, ListedUnderFound, ParentsFound
<1>5. ASSUME NEW q \in Requests, request'[q] # Idle
      PROVE  Apart(q)'
  <2>1. q # r => Apart(q)
    BY <1>2, <1>5 DEF CarefulInv
  <2>2. ASSUME NEW t \in Requests \ {q}, request'[t] # Idle
        PROVE  ~Clash(request'[t], request'[q]) /\ ~Clash(request'[q], request'[t])
    <3>1. CASE q = r
      BY <1>2, <1>3, <2>2, <3>1, Zenon DEF Apart
    <3>2. CASE t = r
      BY <1>2, <1>3, <1>5, <2>2, <3>2, Zenon DEF Apart
    <3>3. CASE q # r /\ t # r
      BY <1>2, <2>1, <2>2, <3>3, Zenon DEF Apart
    <3> QED
      BY <3>1, <3>2, <3>3
  <2> QED
    BY <2>2, Zenon DEF Apart
<1>6. Sound(e)
  BY <1>1, <1>3, SavesDiffer
     DEF Sound, GroupSound, Considerate, CarefulInv
<1>7. ASSUME NEW q \in Requests, request'[q] # Idle
      PROVE  Sound(request[q])'
  <2>1. PICK d : d = request'[q]
    OBVIOUS
  <2>2. Sound(d)
    BY <1>2, <1>6, <1>7, <2>1 DEF CarefulInv
  <2>3. Sound(d)'
    BY <2>2, <1>1
       DEF Sound, GroupSound, ProductSound, Childless, NameFree, ParentsFound
  <2> QED
    BY <2>1, <2>3
       DEF Sound, GroupSound, ProductSound, Childless, NameFree, ParentsFound
<1> QED
  BY <1>4, <1>5, <1>7 DEF CarefulInv

(* A request is over; those that are left stay apart.                       *)
LEMMA OverStaysApart ==
    ASSUME CarefulInv, NEW r \in Requests, request' = [request EXCEPT ![r] = Idle]
    PROVE  /\ request'[r] = Idle /\ \A q \in Requests \ {r} : request'[q] = request[q]
           /\ \A q \in Requests : request'[q] # Idle => Apart(q)'
<1>1. request'[r] = Idle /\ \A q \in Requests \ {r} : request'[q] = request[q]
  BY DEF CarefulInv, RowsInv, BrandsTypeOK
<1>2. ASSUME NEW q \in Requests, request'[q] # Idle
      PROVE  Apart(q)'
  <2>1. Apart(q)
    BY <1>1, <1>2 DEF CarefulInv
  <2>2. ASSUME NEW t \in Requests \ {q}, request'[t] # Idle
        PROVE  ~Clash(request'[t], request'[q]) /\ ~Clash(request'[q], request'[t])
    BY <1>1, <1>2, <2>1, <2>2, Zenon DEF Apart
  <2> QED
    BY <2>2, Zenon DEF Apart
<1> QED
  BY <1>1, <1>2

LEMMA SaveGroupKeepsInv ==
    ASSUME CarefulInv, RowsInv', NEW r \in Requests, SaveGroup(r)
    PROVE  CarefulInv'
<1>1. PICK f : f = request[r]
  OBVIOUS
<1>2. /\ f \in GroupSave /\ f # Idle /\ Sound(f) /\ InGroups(f)
      /\ group' = [group EXCEPT ![f.id] = f.row]
      /\ request' = [request EXCEPT ![r] = Idle] /\ product' = product
  BY <1>1, RequestType, SavesDiffer DEF SaveGroup, CarefulInv, RowsInv, InGroups
<1>3. /\ request'[r] = Idle /\ \A q \in Requests \ {r} : request'[q] = request[q]
      /\ \A q \in Requests : request'[q] # Idle => Apart(q)'
  BY <1>2, OverStaysApart
<1>4. /\ f.id \in Groups /\ f.row \in Group /\ f.row # NoRow
      /\ group'[f.id] = f.row /\ \A g \in Groups \ {f.id} : group'[g] = group[g]
  BY <1>2, RowsAssumption DEF GroupSave, CarefulInv, RowsInv, BrandsTypeOK
<1>5. GroupSound(f)
  BY <1>2 DEF Sound
<1>6. NamesUnique'
  <2> SUFFICES ASSUME NEW g \in Groups, NEW h \in Groups, SameKind(g, h), g # h,
                      Active(group'[g]), Active(group'[h])
               PROVE  group'[g].name # group'[h].name
    BY DEF NamesUnique
  <2>1. CASE g = f.id
    BY <2>1, <1>4, <1>5 DEF GroupSound, NameFree
  <2>2. CASE h = f.id
    BY <2>2, <1>4, <1>5 DEF GroupSound, NameFree, SameKind
  <2>3. CASE g # f.id /\ h # f.id
    BY <2>3, <1>4 DEF CarefulInv, NamesUnique
  <2> QED
    BY <2>1, <2>2, <2>3
<1>7. ListedUnderFound'
  <2> SUFFICES ASSUME NEW p \in Products, Found(product[p]), NEW g \in Parents(product[p])
               PROVE  Found(group'[g])
    BY <1>2 DEF ListedUnderFound, ParentsFound
  <2>1. product[p] \in Product /\ g \in Groups /\ Found(group[g])
    BY ParentsAreGroups
       DEF CarefulInv, RowsInv, BrandsTypeOK, ListedUnderFound, ParentsFound, Found
  <2>2. CASE g = f.id
    BY <2>2, <1>4, <1>5 DEF GroupSound, Childless, Found, Deleted
  <2>3. CASE g # f.id
    BY <2>1, <2>3, <1>4
  <2> QED
    BY <2>2, <2>3
<1>8. ASSUME NEW q \in Requests, request'[q] # Idle
      PROVE  Sound(request[q])'
  <2>1. PICK e : e = request[q]
    OBVIOUS
  <2>2. /\ q # r /\ e # Idle /\ e = request'[q] /\ Sound(e)
        /\ ~Clash(e, f) /\ ~Clash(f, e) /\ e \in GroupSave \cup ProductSave
    BY <1>1, <1>2, <1>3, <1>8, <2>1, RequestType DEF CarefulInv, RowsInv, Apart
  <2>3. ASSUME e \in GroupSave
        PROVE  GroupSound(e)'
    <3>1. e.id \in Groups /\ InGroups(e) /\ GroupSound(e)
      BY <2>2, <2>3, SavesDiffer DEF GroupSave, Sound
    <3>2. ASSUME Active(e.row), NEW h \in Groups \ {e.id}, SameKind(e.id, h),
                 Active(group'[h])
          PROVE  group'[h].name # e.row.name
      <4>1. CASE h = f.id
        BY <4>1, <3>1, <3>2, <1>2, <1>4, <2>2 DEF Clash
      <4>2. CASE h # f.id
        BY <4>2, <3>1, <3>2, <1>4 DEF GroupSound, NameFree
      <4> QED
        BY <4>1, <4>2
    <3>3. Deleted(e.row) => Childless(e.id)'
      BY <3>1, <1>2 DEF GroupSound, Childless
    <3> QED
      BY <3>2, <3>3 DEF GroupSound, NameFree
  <2>4. ASSUME e \in ProductSave
        PROVE  ProductSound(e)'
    <3>1. e.row \in Product /\ ~InGroups(e) /\ ProductSound(e)
      BY <2>2, <2>4, SavesDiffer DEF ProductSave, Sound
    <3>2. ASSUME Found(e.row), NEW g \in Parents(e.row)
          PROVE  Found(group'[g])
      <4>1. CASE g = f.id
        BY <4>1, <3>1, <3>2, <1>2, <1>4, <2>2 DEF Clash, Found, Deleted
      <4>2. CASE g # f.id
        BY <4>2, <3>1, <3>2, <1>4, ParentsAreGroups DEF ProductSound, ParentsFound
      <4> QED
        BY <4>1, <4>2
    <3> QED
      BY <3>2 DEF ProductSound, ParentsFound
  <2> QED
    BY <2>2, <2>3, <2>4
       DEF Sound, GroupSound, ProductSound, Childless, NameFree, ParentsFound
<1> QED
  BY <1>3, <1>6, <1>7, <1>8 DEF CarefulInv

LEMMA SaveProductKeepsInv ==
    ASSUME CarefulInv, RowsInv', NEW r \in Requests, SaveProduct(r)
    PROVE  CarefulInv'
<1>1. PICK f : f = request[r]
  OBVIOUS
<1>2. /\ f \in ProductSave /\ f # Idle /\ Sound(f) /\ ~InGroups(f)
      /\ product' = [product EXCEPT ![f.id] = f.row]
      /\ request' = [request EXCEPT ![r] = Idle] /\ group' = group
  BY <1>1, RequestType, SavesDiffer, GroupsAssumption
     DEF SaveProduct, CarefulInv, RowsInv, InGroups, Groups
<1>3. /\ request'[r] = Idle /\ \A q \in Requests \ {r} : request'[q] = request[q]
      /\ \A q \in Requests : request'[q] # Idle => Apart(q)'
  BY <1>2, OverStaysApart
<1>4. /\ f.id \in Products /\ f.row \in Product
      /\ product'[f.id] = f.row
      /\ \A p \in Products \ {f.id} : product'[p] = product[p]
  BY <1>2 DEF ProductSave, CarefulInv, RowsInv, BrandsTypeOK
<1>5. ProductSound(f)
  BY <1>2 DEF Sound
<1>6. NamesUnique'
  BY <1>2 DEF CarefulInv, NamesUnique
<1>7. ListedUnderFound'
  BY <1>2, <1>4, <1>5 DEF CarefulInv, ListedUnderFound, ProductSound, ParentsFound
<1>8. ASSUME NEW q \in Requests, request'[q] # Idle
      PROVE  Sound(request[q])'
  <2>1. PICK e : e = request[q]
    OBVIOUS
  <2>2. /\ q # r /\ e # Idle /\ e = request'[q] /\ Sound(e)
        /\ ~Clash(e, f) /\ ~Clash(f, e) /\ e \in GroupSave \cup ProductSave
    BY <1>1, <1>2, <1>3, <1>8, <2>1, RequestType DEF CarefulInv, RowsInv, Apart
  <2>3. ASSUME e \in GroupSave
        PROVE  GroupSound(e)'
    <3>1. InGroups(e) /\ GroupSound(e)
      BY <2>2, <2>3, SavesDiffer DEF Sound
    <3>2. Deleted(e.row) => \A p \in Products : Found(product'[p])
                                 => e.id \notin Parents(product'[p])
      BY <3>1, <1>2, <1>4, <2>2 DEF GroupSound, Childless, Clash
    <3> QED
      BY <3>1, <3>2, <1>2 DEF GroupSound, Childless, NameFree
  <2>4. ASSUME e \in ProductSave
        PROVE  ProductSound(e)'
    BY <2>2, <2>4, <1>2, SavesDiffer DEF ProductSave, Sound, ProductSound, ParentsFound
  <2> QED
    BY <2>2, <2>3, <2>4
       DEF Sound, GroupSound, ProductSound, Childless, NameFree, ParentsFound
<1> QED
  BY <1>3, <1>6, <1>7, <1>8 DEF CarefulInv

LEMMA CrashKeepsInv ==
    ASSUME CarefulInv, RowsInv', NEW r \in Requests, Crash(r)
    PROVE  CarefulInv'
<1>1. request' = [request EXCEPT ![r] = Idle] /\ UNCHANGED <<group, product>>
  BY DEF Crash
<1>2. /\ request'[r] = Idle /\ \A q \in Requests \ {r} : request'[q] = request[q]
      /\ \A q \in Requests : request'[q] # Idle => Apart(q)'
  BY <1>1, OverStaysApart
<1>3. NamesUnique' /\ ListedUnderFound'
  BY <1>1 DEF CarefulInv, NamesUnique, ListedUnderFound, ParentsFound
<1>4. ASSUME NEW q \in Requests, request'[q] # Idle
      PROVE  Sound(request[q])'
  BY <1>1, <1>2, <1>4
     DEF CarefulInv, Sound, GroupSound, ProductSound, Childless, NameFree, ParentsFound
<1> QED
  BY <1>2, <1>3, <1>4 DEF CarefulInv

LEMMA RemoveKeepsInv ==
    ASSUME CarefulInv, RowsInv', RemoveSoftDeletedProducts
    PROVE  CarefulInv'
<1>1. /\ \A p \in Products :
            product'[p] = IF Deleted(product[p]) THEN NoRow ELSE product[p]
      /\ UNCHANGED <<group, request>>
  BY DEF RemoveSoftDeletedProducts
<1>2. \A p \in Products : product'[p] # NoRow => product'[p] = product[p]
  BY <1>1 DEF Deleted
<1>3. NamesUnique'
  BY <1>1 DEF CarefulInv, NamesUnique
<1>4. ListedUnderFound'
  BY <1>1, <1>2 DEF CarefulInv, ListedUnderFound, ParentsFound, Found
<1>5. ASSUME NEW q \in Requests, request'[q] # Idle
      PROVE  Apart(q)' /\ Sound(request[q])'
  <2>1. PICK e : e = request[q]
    OBVIOUS
  <2>2. e = request'[q] /\ e # Idle /\ Sound(e) /\ Apart(q)
    BY <1>1, <1>5, <2>1 DEF CarefulInv
  <2>3. Apart(q)'
    BY <2>2, <1>1 DEF Apart
  <2>4. e \in GroupSave => GroupSound(e)'
    BY <2>2, <1>1, <1>2 DEF Sound, GroupSound, Childless, NameFree, Found
  <2>5. e \in ProductSave => ProductSound(e)'
    BY <2>2, <1>1 DEF Sound, ProductSound, ParentsFound
  <2> QED
    BY <2>2, <2>3, <2>4, <2>5
       DEF Sound, GroupSound, ProductSound, Childless, NameFree, ParentsFound
<1> QED
  BY <1>3, <1>4, <1>5 DEF CarefulInv

(* Careful administrators are administrators.                               *)
LEMMA CarefulIsNext == CarefulNext => Next
BY DEF CarefulNext, Next, BeginsCarefully

LEMMA CarefulStep == CarefulInv /\ [CarefulNext]_vars => CarefulInv'
<1> SUFFICES ASSUME CarefulInv, [CarefulNext]_vars
             PROVE  CarefulInv'
  OBVIOUS
<1>1. RowsInv'
  BY RowsStep, CarefulIsNext DEF CarefulInv
<1>2. CASE UNCHANGED vars
  <2>1. UNCHANGED <<group, product, request>>
    BY <1>2 DEF vars
  <2> QED
    BY <1>1, <2>1 DEF CarefulInv, NamesUnique, ListedUnderFound, ParentsFound, Apart,
       Sound, GroupSound, ProductSound, Childless, NameFree
<1> QED
  BY <1>1, <1>2, BeginsKeepsInv, SaveGroupKeepsInv, SaveProductKeepsInv, CrashKeepsInv,
     RemoveKeepsInv DEF CarefulNext

-----------------------------------------------------------------------------
(* Rows are well typed, and no product refers to a row that is not there,   *)
(* whatever administrators ask for and however their requests interleave    *)
(* (product.entity.ts:58).                               *)
THEOREM BrandsTypeCorrect == Spec => []BrandsTypeOK
<1>1. RowsInv => BrandsTypeOK
  BY DEF RowsInv
<1> QED
  BY RowsInit, RowsStep, <1>1, PTL DEF Spec

(* No two active brands or categories have one name: createBrand looks for  *)
(* it (admin-brand.service.ts:28), and administrators do in its stead for   *)
(* updates, for restores and for requests that overlap.  Stale saves of one *)
(* row by several requests do no harm to it.                                *)
THEOREM NamesStayUnique == CarefulSpec => []NamesUnique
<1>1. CarefulInv => NamesUnique
  BY DEF CarefulInv
<1> QED
  BY CarefulInit, CarefulStep, <1>1, PTL DEF CarefulSpec

(* The page of a product never ends in an error (product-variant.service.ts:29 *)
(* and :37): its brand and category are found when it is saved, for          *)
(* createProduct and updateProduct look for them (admin-product.service.ts:34) *)
(* and administrators delete no group that has products.                    *)
THEOREM ParentsStayListed == CarefulSpec => []ParentsListed
<1>1. CarefulInv => ParentsListed
  BY PageIsNoError DEF CarefulInv, ListedUnderFound, ParentsListed
<1> QED
  BY CarefulInit, CarefulStep, <1>1, PTL DEF CarefulSpec

-----------------------------------------------------------------------------
(* The list of products, for any order R of its rows: it is cut by newer    *)
(* before a step and by newer' after it.                                    *)
Ordered(R, S) ==
    /\ \A p \in S : <<p, p>> \notin R
    /\ \A p, q \in S : p # q => <<p, q>> \in R \/ <<q, p>> \in R
    /\ \A p, q, r \in S : <<p, q>> \in R /\ <<q, r>> \in R => <<p, r>> \in R

Before(R, p, list) == {q \in list : <<q, p>> \in R}

PlaceIn(R, p, list) == Cardinality(Before(R, p, list))

(* The products that an OFFSET of n skips.                                   *)
FirstIn(R, list, n) == {p \in list : PlaceIn(R, p, list) < n}

(* created_at gives every product of a list a place of its own.             *)
LEMMA PlacesDiffer ==
    ASSUME NEW R, NEW S, IsFiniteSet(S), Ordered(R, S)
    PROVE  /\ \A p \in S : PlaceIn(R, p, S) \in Nat /\ PlaceIn(R, p, S) < Cardinality(S)
           /\ \A p, q \in S : p # q => PlaceIn(R, p, S) # PlaceIn(R, q, S)
<1>1. ASSUME NEW p \in S
      PROVE  PlaceIn(R, p, S) \in Nat /\ PlaceIn(R, p, S) < Cardinality(S)
  <2>1. PICK B : B = Before(R, p, S)
    OBVIOUS
  <2>2. B \in SUBSET S /\ B # S
    BY <2>1 DEF Before, Ordered
  <2>3. IsFiniteSet(B) /\ Cardinality(B) <= Cardinality(S) /\ Cardinality(B) # Cardinality(S)
    BY <2>2, FS_Subset
  <2>4. Cardinality(B) \in Nat /\ Cardinality(S) \in Nat
    BY <2>3, FS_CardinalityType
  <2> QED
    BY <2>1, <2>3, <2>4 DEF PlaceIn
<1>2. ASSUME NEW p \in S, NEW q \in S, <<p, q>> \in R
      PROVE  PlaceIn(R, p, S) # PlaceIn(R, q, S)
  <2>1. PICK B, C : B = Before(R, p, S) /\ C = Before(R, q, S)
    OBVIOUS
  <2>2. B \in SUBSET C /\ p \in C /\ p \notin B
    BY <1>2, <2>1 DEF Before, Ordered
  <2>3. C \in SUBSET S
    BY <2>1 DEF Before
  <2>4. IsFiniteSet(C)
    BY <2>3, FS_Subset
  <2>5. Cardinality(C) # Cardinality(B)
    BY <2>2, <2>4, FS_Subset
  <2> QED
    BY <2>1, <2>5 DEF PlaceIn
<1>3. ASSUME NEW p \in S, NEW q \in S, p # q
      PROVE  PlaceIn(R, p, S) # PlaceIn(R, q, S)
  BY <1>2, <1>3 DEF Ordered
<1> QED
  BY <1>1, <1>3

(* What is left of a list behind an OFFSET.                                  *)
LEMMA FewBehind ==
    ASSUME NEW R, NEW S, IsFiniteSet(S), Ordered(R, S), NEW n \in Nat
    PROVE  /\ Cardinality(S) <= n => S \ FirstIn(R, S, n) = {}
           /\ Cardinality(S) > n => Cardinality(S \ FirstIn(R, S, n)) <= Cardinality(S) - n
<1>1. PICK B : B = S \ FirstIn(R, S, n)
  OBVIOUS
<1>2. PICK k : k = Cardinality(S)
  OBVIOUS
<1>3. k \in Nat
  BY <1>2, FS_CardinalityType
<1>4. \A p \in B : p \in S /\ PlaceIn(R, p, S) \in Nat /\ PlaceIn(R, p, S) >= n
                   /\ PlaceIn(R, p, S) <= k - 1
  BY <1>1, <1>2, <1>3, PlacesDiffer DEF FirstIn
<1>5. k <= n => B = {}
  BY <1>3, <1>4
<1>6. ASSUME k > n
      PROVE  Cardinality(B) <= k - n
  <2>1. \A p, q \in B : p # q => PlaceIn(R, p, S) # PlaceIn(R, q, S)
    BY <1>1, PlacesDiffer
  <2>2. PICK f : f = [p \in B |-> PlaceIn(R, p, S)]
    OBVIOUS
  <2>3. \A p \in B : f[p] \in n..(k - 1)
    BY <1>3, <1>4, <2>2
  <2>4. f \in [B -> n..(k - 1)]
    BY <2>2, <2>3
  <2>5. \A p, q \in B : f[p] = f[q] => p = q
    BY <2>1, <2>2
  <2>6. f \in Injection(B, n..(k - 1))
    BY <2>4, <2>5 DEF Injection, IsInjective
  <2>7. /\ IsFiniteSet(n..(k - 1))
        /\ Cardinality(n..(k - 1)) = IF n > k - 1 THEN 0 ELSE k - 1 - n + 1
    BY <1>3, FS_Interval
  <2>8. Cardinality(B) <= Cardinality(n..(k - 1))
    BY <2>6, <2>7, FS_Injection
  <2> QED
    BY <1>3, <1>6, <2>7, <2>8
<1> QED
  BY <1>1, <1>2, <1>5, <1>6

(* One product less moves one other at most to the pages before.            *)
LEMMA OneLess ==
    ASSUME NEW R, NEW S, IsFiniteSet(S), Ordered(R, S), NEW n \in Nat, NEW g
    PROVE  \E x : FirstIn(R, S \ {g}, n) \subseteq FirstIn(R, S, n) \cup {x}
<1>1. ASSUME NEW p \in S \ {g}
      PROVE  /\ PlaceIn(R, p, S) \in Nat
             /\ PlaceIn(R, p, S \ {g}) \in Nat
             /\ PlaceIn(R, p, S) <= PlaceIn(R, p, S \ {g}) + 1
  <2>1. PICK B, C : B = Before(R, p, S) /\ C = Before(R, p, S \ {g})
    OBVIOUS
  <2>2. C = B \ {g} /\ B \in SUBSET S
    BY <2>1 DEF Before
  <2>3. IsFiniteSet(B)
    BY <2>2, FS_Subset
  <2>4. /\ IsFiniteSet(B \ {g})
        /\ Cardinality(B \ {g}) = IF g \in B THEN Cardinality(B) - 1 ELSE Cardinality(B)
    BY <2>3, FS_RemoveElement
  <2>5. Cardinality(B) \in Nat /\ Cardinality(C) \in Nat
    BY <2>2, <2>3, <2>4, FS_CardinalityType
  <2>6. Cardinality(B) <= Cardinality(C) + 1
    BY <2>2, <2>4, <2>5
  <2> QED
    BY <2>1, <2>5, <2>6 DEF PlaceIn
<1>2. \A p \in FirstIn(R, S \ {g}, n) \ FirstIn(R, S, n) :
         p \in S /\ PlaceIn(R, p, S) = n
  BY <1>1 DEF FirstIn
<1>3. \A p, q \in FirstIn(R, S \ {g}, n) \ FirstIn(R, S, n) : p = q
  BY <1>2, PlacesDiffer
<1>4. CASE FirstIn(R, S \ {g}, n) \subseteq FirstIn(R, S, n)
  BY <1>4
<1>5. ASSUME NEW x \in FirstIn(R, S \ {g}, n) \ FirstIn(R, S, n)
      PROVE  FirstIn(R, S \ {g}, n) \subseteq FirstIn(R, S, n) \cup {x}
  BY <1>3
<1> QED
  BY <1>4, <1>5

(* One product more moves none to the pages before.                         *)
LEMMA OneMore ==
    ASSUME NEW R, NEW S, IsFiniteSet(S), NEW n \in Nat, NEW g
    PROVE  FirstIn(R, S \cup {g}, n) \cap S \subseteq FirstIn(R, S, n)
<1>1. ASSUME NEW p \in S
      PROVE  /\ PlaceIn(R, p, S) \in Nat
             /\ PlaceIn(R, p, S \cup {g}) \in Nat
             /\ PlaceIn(R, p, S) <= PlaceIn(R, p, S \cup {g})
  <2>1. PICK B, C : B = Before(R, p, S) /\ C = Before(R, p, S \cup {g})
    OBVIOUS
  <2>2. B \in SUBSET C /\ C \in SUBSET (S \cup {g})
    BY <2>1 DEF Before
  <2>3. IsFiniteSet(S \cup {g})
    BY FS_AddElement
  <2>4. IsFiniteSet(C)
    BY <2>2, <2>3, FS_Subset
  <2>5. IsFiniteSet(B) /\ Cardinality(B) <= Cardinality(C)
    BY <2>2, <2>4, FS_Subset
  <2>6. Cardinality(B) \in Nat /\ Cardinality(C) \in Nat
    BY <2>4, <2>5, FS_CardinalityType
  <2> QED
    BY <2>1, <2>5, <2>6 DEF PlaceIn
<1> QED
  BY <1>1 DEF FirstIn

(* Who keeps the order of a list keeps its pages.                           *)
LEMMA SameOrder ==
    ASSUME NEW R, NEW Q, NEW S, NEW n, \A p, q \in S : <<p, q>> \in R <=> <<p, q>> \in Q
    PROVE  FirstIn(R, S, n) = FirstIn(Q, S, n)
<1>1. \A p \in S : Before(R, p, S) = Before(Q, p, S)
  BY DEF Before
<1>2. \A p \in S : PlaceIn(R, p, S) = PlaceIn(Q, p, S)
  BY <1>1 DEF PlaceIn
<1> QED
  BY <1>2 DEF FirstIn

-----------------------------------------------------------------------------
(* A walk w through a list that R orders.  SeenBy is how many places of the *)
(* list it has been shown, Passed what it has missed there so far.          *)
SeenBy(w) == IF w.shown THEN w.page * Limit ELSE Skipped(w.page)

Passed(w, list, R) == w.left \cap FirstIn(R, list, SeenBy(w))

Known(w)  == w.total # NoAnswer
Waits(w)  == Known(w) /\ ~w.shown
Ended(w)  == Known(w) /\ w.shown /\ w.page * Limit >= w.total

(* What is passed has been made up for by a change.  Once the count is      *)
(* known, so has what does not fit into the pages it announces.             *)
OnTrack(w, list, R) ==
    /\ Cardinality(Passed(w, list, R)) <= w.changes
    /\ Waits(w) =>
          Cardinality(Passed(w, list, R)) + Cardinality(list) <= w.total + w.changes
    /\ ~Ended(w)

AllMadeUp(w) == Cardinality(w.left) <= w.changes

WalkSound(w, list, R) ==
    /\ w.left \subseteq list
    /\ w.changes <= Cardinality(w.left)
    /\ AllMadeUp(w) \/ OnTrack(w, list, R)

ShopfrontInv ==
    /\ RowsInv
    /\ ShopfrontTypeOK
    /\ walk # NoWalk => WalkSound(walk, Listed(walk.brand, product), newer)

LEMMA SeenType ==
    ASSUME NEW w \in Walk
    PROVE  /\ SeenBy(w) \in Nat /\ w.page * Limit \in Nat /\ w.page \in Nat \ {0}
           /\ Skipped(w.page) + Limit = w.page * Limit /\ Skipped(w.page) \in Nat
<1>1. w.page \in Nat \ {0} /\ Limit \in Nat \ {0}
  BY LimitAssumption DEF Walk
<1>2. PICK i \in Nat : w.page = i + 1
  BY <1>1
<1>3. i * Limit \in Nat /\ (i + 1) * Limit = i * Limit + Limit /\ Skipped(w.page) = i * Limit
  BY <1>1, <1>2 DEF Skipped
<1> QED
  BY <1>1, <1>2, <1>3 DEF SeenBy

LEMMA MinOfTwo ==
    ASSUME NEW a \in Nat, NEW b \in Nat
    PROVE  Min({a, b}) = IF a <= b THEN a ELSE b
BY DEF Min

LEMMA LeftIsFinite ==
    ASSUME NEW w \in Walk
    PROVE  IsFiniteSet(w.left) /\ Cardinality(w.left) \in Nat
<1>1. w.left \in SUBSET Products
  BY DEF Walk
<1>2. IsFiniteSet(w.left)
  BY <1>1, ProductsAssumption, FS_Subset
<1> QED
  BY <1>2, FS_CardinalityType

LEMMA PassedIsFinite ==
    ASSUME NEW w \in Walk, NEW list, NEW R
    PROVE  /\ IsFiniteSet(Passed(w, list, R)) /\ Cardinality(Passed(w, list, R)) \in Nat
           /\ Cardinality(Passed(w, list, R)) <= Cardinality(w.left)
<1>1. Passed(w, list, R) \in SUBSET w.left
  BY DEF Passed
<1>2. IsFiniteSet(Passed(w, list, R)) /\ Cardinality(Passed(w, list, R)) <= Cardinality(w.left)
  BY <1>1, LeftIsFinite, FS_Subset
<1> QED
  BY <1>2, FS_CardinalityType

(* The bound on changes costs nothing.                                       *)
LEMMA CappedIsSound ==
    ASSUME NEW w \in Walk, NEW list, NEW R, w.left \subseteq list,
           AllMadeUp(w) \/ OnTrack(w, list, R)
    PROVE  Capped(w) \in Walk /\ Capped(w).brand = w.brand /\ WalkSound(Capped(w), list, R)
<1>1. PICK c : c = Capped(w)
  OBVIOUS
<1>2. PICK k : k = Cardinality(w.left)
  OBVIOUS
<1>3. k \in Nat /\ w.changes \in Nat
  BY <1>2, LeftIsFinite DEF Walk
<1>4. c = [w EXCEPT !.changes = IF w.changes <= k THEN w.changes ELSE k]
  BY <1>1, <1>2, <1>3, MinOfTwo DEF Capped
<1>5. /\ c \in Walk /\ c.brand = w.brand /\ c.page = w.page /\ c.shown = w.shown
      /\ c.total = w.total /\ c.left = w.left
      /\ c.changes = IF w.changes <= k THEN w.changes ELSE k
  BY <1>3, <1>4 DEF Walk
<1>6. c.left \subseteq list /\ c.changes <= Cardinality(c.left)
  BY <1>2, <1>3, <1>5
<1>7. /\ Passed(c, list, R) = Passed(w, list, R)
      /\ (Waits(c) <=> Waits(w)) /\ (Ended(c) <=> Ended(w))
  BY <1>5 DEF Passed, SeenBy, Waits, Ended, Known
<1>8. ASSUME w.changes <= k
      PROVE  AllMadeUp(c) \/ OnTrack(c, list, R)
  BY <1>2, <1>5, <1>7, <1>8 DEF AllMadeUp, OnTrack
<1>9. ASSUME ~(w.changes <= k)
      PROVE  AllMadeUp(c)
  BY <1>2, <1>3, <1>5, <1>9 DEF AllMadeUp
<1> QED
  BY <1>1, <1>5, <1>6, <1>8, <1>9 DEF WalkSound

-----------------------------------------------------------------------------
(* A step of the administration, as a walk meets it: of its list one        *)
(* product goes or comes at most, and the change is counted.                *)
Meets(w, S, T, m) == [w EXCEPT !.left = @ \ (S \ T), !.changes = @ + m]

LEMMA MeetsType ==
    ASSUME NEW w \in Walk, NEW S, NEW T, NEW m \in Nat, w.left \subseteq S
    PROVE  LET v == Meets(w, S, T, m)
           IN  /\ v \in Walk /\ v.brand = w.brand /\ v.page = w.page /\ v.shown = w.shown
               /\ v.total = w.total /\ v.left = w.left \cap T /\ v.changes = w.changes + m
               /\ SeenBy(v) = SeenBy(w)
               /\ (Waits(v) <=> Waits(w)) /\ (Ended(v) <=> Ended(w))
<1>1. PICK v : v = Meets(w, S, T, m)
  OBVIOUS
<1>2. w.left \ (S \ T) = w.left \cap T /\ w.left \cap T \in SUBSET Products
  BY DEF Walk
<1>3. v = [w EXCEPT !.left = w.left \cap T, !.changes = w.changes + m]
  BY <1>1, <1>2 DEF Meets
<1>4. PICK L, n : L = w.left \cap T /\ n = w.changes + m
  OBVIOUS
<1>5. L \in SUBSET Products /\ n \in Nat /\ v = [w EXCEPT !.left = L, !.changes = n]
  BY <1>2, <1>3, <1>4 DEF Walk
<1>6. /\ v \in Walk /\ v.brand = w.brand /\ v.page = w.page /\ v.shown = w.shown
      /\ v.total = w.total /\ v.left = L /\ v.changes = n
  BY <1>5 DEF Walk
<1>7. SeenBy(v) = SeenBy(w) /\ (Waits(v) <=> Waits(w)) /\ (Ended(v) <=> Ended(w))
  BY <1>6 DEF SeenBy, Waits, Ended, Known
<1> QED
  BY <1>1, <1>4, <1>6, <1>7

LEMMA OneElement ==
    ASSUME NEW S, IsFiniteSet(S), NEW x
    PROVE  IsFiniteSet(S \cup {x}) /\ Cardinality(S \cup {x}) <= Cardinality(S) + 1
<1>1. /\ IsFiniteSet(S \cup {x})
      /\ Cardinality(S \cup {x}) = IF x \in S THEN Cardinality(S) ELSE Cardinality(S) + 1
  BY FS_AddElement
<1>2. Cardinality(S) \in Nat
  BY FS_CardinalityType
<1> QED
  BY <1>1, <1>2

(* The walk stays sound: R orders the rows before the step, and Q after it. *)
LEMMA MeetsIsSound ==
    ASSUME NEW w \in Walk, NEW S, NEW T, NEW R, NEW Q, NEW m \in Nat,
           IsFiniteSet(S), Ordered(R, S), WalkSound(w, S, R),
           \A p, q \in S \cap T : <<p, q>> \in R <=> <<p, q>> \in Q,
           NEW g, T \in {S, S \ {g}, S \cup {g}},
           T \subseteq S /\ T # S => m >= 1,
           Waits(w) /\ S \subseteq T /\ T # S => m >= 1
    PROVE  AllMadeUp(Meets(w, S, T, m)) \/ OnTrack(Meets(w, S, T, m), T, Q)
<1>1. PICK v : v = Meets(w, S, T, m)
  OBVIOUS
<1>2. /\ v \in Walk /\ v.total = w.total /\ v.left = w.left \cap T /\ v.changes = w.changes + m
      /\ SeenBy(v) = SeenBy(w) /\ (Waits(v) <=> Waits(w)) /\ (Ended(v) <=> Ended(w))
  BY <1>1, MeetsType DEF WalkSound
<1>3. /\ SeenBy(w) \in Nat /\ w.changes \in Nat /\ (Waits(w) => w.total \in Nat)
      /\ w.left \subseteq S
  BY SeenType DEF Walk, WalkSound, Waits, Known
<1>4. CASE AllMadeUp(w)
  <2>1. v.left \in SUBSET w.left
    BY <1>2
  <2>2. Cardinality(v.left) <= Cardinality(w.left)
    BY <2>1, LeftIsFinite, FS_Subset
  <2>3. Cardinality(v.left) \in Nat /\ Cardinality(w.left) \in Nat
    BY <1>2, LeftIsFinite
  <2>4. AllMadeUp(v)
    BY <1>2, <1>3, <1>4, <2>2, <2>3 DEF AllMadeUp
  <2> QED
    BY <1>1, <2>4
<1>5. CASE OnTrack(w, S, R)
  <2>1. PICK A, B : A = Passed(w, S, R) /\ B = Passed(v, T, Q)
    OBVIOUS
  <2>2. PICK n \in Nat : n = SeenBy(w)
    BY <1>3
  <2>3. A = w.left \cap FirstIn(R, S, n) /\ B = w.left \cap T \cap FirstIn(Q, T, n)
    BY <1>2, <2>1, <2>2 DEF Passed
  <2>4. /\ IsFiniteSet(A) /\ Cardinality(A) \in Nat
        /\ IsFiniteSet(B) /\ Cardinality(B) \in Nat /\ Cardinality(S) \in Nat
    BY <1>2, <2>1, PassedIsFinite, FS_CardinalityType
  <2>5. /\ Cardinality(A) <= w.changes
        /\ Waits(w) => Cardinality(A) + Cardinality(S) <= w.total + w.changes
        /\ ~Ended(v)
    BY <1>2, <1>5, <2>1 DEF OnTrack
  <2>6. SUFFICES /\ Cardinality(B) <= w.changes + m
                 /\ Waits(w) => Cardinality(B) + Cardinality(T) <= w.total + (w.changes + m)
    BY <1>1, <1>2, <2>1, <2>5 DEF OnTrack
  <2>7. CASE T \subseteq S /\ T # S
    <3>1. T = S \ {g} /\ g \in S /\ m >= 1
      BY <2>7
    <3>2. FirstIn(Q, T, n) = FirstIn(R, T, n)
      BY <3>1, SameOrder
    <3>3. PICK x : FirstIn(R, T, n) \subseteq FirstIn(R, S, n) \cup {x}
      BY <3>1, OneLess
    <3>4. B \in SUBSET (A \cup {x})
      BY <2>3, <3>2, <3>3
    <3>5. IsFiniteSet(A \cup {x}) /\ Cardinality(A \cup {x}) <= Cardinality(A) + 1
      BY <2>4, OneElement
    <3>6. Cardinality(B) <= Cardinality(A \cup {x}) /\ Cardinality(A \cup {x}) \in Nat
      BY <3>4, <3>5, FS_Subset, FS_CardinalityType
    <3>7. Cardinality(T) = Cardinality(S) - 1
      BY <3>1, FS_RemoveElement
    <3> QED
      BY <1>3, <2>4, <2>5, <3>1, <3>5, <3>6, <3>7
  <2>8. CASE S \subseteq T
    <3>1. T = S \/ T = S \cup {g}
      BY <2>8
    <3>2. FirstIn(Q, T, n) \cap S \subseteq FirstIn(Q, S, n)
      BY <3>1, OneMore DEF FirstIn
    <3>3. FirstIn(Q, S, n) = FirstIn(R, S, n)
      BY <2>8, SameOrder
    <3>4. B \in SUBSET A
      BY <1>3, <2>3, <3>2, <3>3
    <3>5. Cardinality(B) <= Cardinality(A)
      BY <2>4, <3>4, FS_Subset
    <3>6. /\ Cardinality(T) <= Cardinality(S) + 1 /\ Cardinality(T) \in Nat
          /\ T = S => Cardinality(T) = Cardinality(S)
      <4>1. IsFiniteSet(S \cup {g}) /\ Cardinality(S \cup {g}) <= Cardinality(S) + 1
        BY OneElement
      <4>2. Cardinality(S \cup {g}) \in Nat
        BY <4>1, FS_CardinalityType
      <4> QED
        BY <2>4, <3>1, <4>1, <4>2
    <3> QED
      BY <1>3, <2>4, <2>5, <2>8, <3>5, <3>6
  <2> QED
    BY <2>7, <2>8
<1> QED
  BY <1>4, <1>5 DEF WalkSound

-----------------------------------------------------------------------------
(* A step of the administration changes one product that is on the list, or *)
(* comes to it; the purge changes none.                                     *)
LEMMA OneRowChanges ==
    ASSUME RowsInv, Next
    PROVE  \E g : /\ NewRows \subseteq {g}
                  /\ \A p \in Products \ {g} :
                        product'[p] = product[p] \/ (~Found(product[p]) /\ ~Found(product'[p]))
<1>1. ASSUME NEW r \in Requests, Begins(r) \/ Crash(r) \/ SaveGroup(r)
      PROVE  product' = product
  BY <1>1 DEF Begins, BrandRequest, CategoryRequest, ProductRequest, GroupRequest,
     CreateGroup, UpdateGroup, DeactivateGroup, DeleteGroup, RestoreGroup, CreateProduct,
     UpdateProduct, DeleteProduct, Saves, Crash, SaveGroup
<1>2. CASE product' = product
  <2>1. NewRows = {}
    BY <1>2 DEF NewRows
  <2> QED
    BY <1>2, <2>1
<1>3. ASSUME NEW r \in Requests, SaveProduct(r)
      PROVE  /\ NewRows \subseteq {request[r].id}
             /\ \A p \in Products \ {request[r].id} : product'[p] = product[p]
  BY <1>3 DEF SaveProduct, NewRows, RowsInv, BrandsTypeOK
<1>4. CASE RemoveSoftDeletedProducts
  <2>1. \A p \in Products : product'[p] = IF Deleted(product[p]) THEN NoRow ELSE product[p]
    BY <1>4 DEF RemoveSoftDeletedProducts
  <2>2. NewRows = {}
    BY <2>1 DEF NewRows
  <2>3. \A p \in Products :
           product'[p] = product[p] \/ (~Found(product[p]) /\ ~Found(product'[p]))
    BY <2>1 DEF Found, Deleted
  <2> QED
    BY <2>2, <2>3
<1> QED
  BY <1>1, <1>2, <1>3, <1>4 DEF Next

LEMMA OneOnTheList ==
    ASSUME NEW f, NEW g,
           \A p \in Products \ {g} :
              product'[p] = product[p] \/ (~Found(product[p]) /\ ~Found(product'[p]))
    PROVE  LET S == Listed(f, product)
               T == Listed(f, product')
           IN  T \in {S, S \ {g}, S \cup {g}}
<1>1. PICK S, T : S = Listed(f, product) /\ T = Listed(f, product')
  OBVIOUS
<1>2. \A p : p # g => (p \in S <=> p \in T)
  BY <1>1 DEF Listed, Matches
<1>3. T \in {S, S \ {g}, S \cup {g}}
  <2>1. CASE g \in S <=> g \in T
    <3>1. \A p : p \in S <=> p \in T
      BY <1>2, <2>1
    <3>2. S = T
      BY <3>1
    <3> QED
      BY <3>2
  <2>2. CASE g \in S /\ g \notin T
    <3>1. T = S \ {g}
      BY <1>2, <2>2
    <3> QED
      BY <3>1
  <2>3. CASE g \notin S /\ g \in T
    <3>1. T = S \cup {g}
      BY <1>2, <2>3
    <3> QED
      BY <3>1
  <2> QED
    BY <2>1, <2>2, <2>3
<1> QED
  BY <1>1, <1>3

LEMMA OrderOfRows ==
    ASSUME NEW R, NEW S
    PROVE  IsStrictlyTotallyOrdered([r \in S \X S |-> r \in R], S) <=> Ordered(R, S)
BY Zenon DEF IsStrictlyTotallyOrdered, IsStrictlyPartiallyOrdered,
   IsIrreflexive, IsAntiSymmetric, IsTransitive, Ordered

LEMMA ListIsOrdered ==
    ASSUME ShopfrontTypeOK, NEW f
    PROVE  LET S == Listed(f, product)
           IN  /\ S \subseteq Rows /\ IsFiniteSet(S) /\ Cardinality(S) \in Nat
               /\ Ordered(newer, S)
<1>1. PICK S : S = Listed(f, product)
  OBVIOUS
<1>2. S \subseteq Rows /\ S \in SUBSET Products
  BY <1>1 DEF Listed, Matches, Found, Rows
<1>3. IsFiniteSet(S)
  BY <1>2, ProductsAssumption, FS_Subset
<1>4. Cardinality(S) \in Nat
  BY <1>3, FS_CardinalityType
<1>5. Ordered(newer, Rows)
  BY OrderOfRows DEF ShopfrontTypeOK
<1>6. Ordered(newer, S)
  BY <1>2, <1>5 DEF Ordered
<1> QED
  BY <1>1, <1>2, <1>3, <1>4, <1>6

(* Rows keep their created_at, and a new row comes before all of them.      *)
LEMMA NewestKeepsOrder ==
    ASSUME ShopfrontTypeOK, NewestFirst, NEW g, NewRows \subseteq {g}
    PROVE  /\ \A p, q \in Rows \cap Rows' : <<p, q>> \in newer <=> <<p, q>> \in newer'
           /\ newer' \subseteq Rows' \X Rows'
           /\ Ordered(newer', Rows')
<1>1. PICK R, Q, S, T, N : R = newer /\ Q = newer' /\ S = Rows /\ T = Rows' /\ N = NewRows
  OBVIOUS
<1>2. /\ R \subseteq S \X S /\ Ordered(R, S) /\ N \subseteq {g}
      /\ Q = (R \cap (T \X T)) \cup (N \X (T \ N))
  BY <1>1, OrderOfRows DEF ShopfrontTypeOK, NewestFirst
<1>3. N \cap S = {} /\ N \subseteq T /\ T \subseteq S \cup N
  BY <1>1 DEF NewRows, Rows
<1>4. \A p, q \in T : <<p, q>> \in Q <=>
         (p \in S /\ q \in S /\ <<p, q>> \in R) \/ (p \in N /\ q \notin N)
  BY <1>2
<1>5. \A p, q \in S \cap T : <<p, q>> \in R <=> <<p, q>> \in Q
  BY <1>3, <1>4
<1>6. Q \subseteq T \X T
  BY <1>2, <1>3
<1>7. Ordered(Q, T)
  <2>1. \A p \in T : <<p, p>> \notin Q
    BY <1>2, <1>4 DEF Ordered
  <2>2. \A p, q \in T : p # q => <<p, q>> \in Q \/ <<q, p>> \in Q
    <3> SUFFICES ASSUME NEW p \in T, NEW q \in T, p # q
                 PROVE  <<p, q>> \in Q \/ <<q, p>> \in Q
      OBVIOUS
    <3>1. (p \in S \/ p \in N) /\ (q \in S \/ q \in N) /\ ~(p \in N /\ q \in N)
      BY <1>2, <1>3
    <3> QED
      BY <1>2, <1>3, <1>4, <3>1 DEF Ordered
  <2>3. ASSUME NEW p \in T, NEW q \in T, NEW r \in T, <<p, q>> \in Q, <<q, r>> \in Q
        PROVE  <<p, r>> \in Q
    BY <1>2, <1>3, <1>4, <2>3 DEF Ordered
  <2> QED
    BY <2>1, <2>2, <2>3 DEF Ordered
<1> QED
  BY <1>1, <1>5, <1>6, <1>7

-----------------------------------------------------------------------------
LEMMA ShopfrontBegins == ShopfrontInit => ShopfrontInv
<1> SUFFICES ASSUME ShopfrontInit
             PROVE  ShopfrontInv
  OBVIOUS
<1>1. RowsInv
  BY RowsInit DEF ShopfrontInit
<1>2. Rows = {} /\ newer = {} /\ walk = NoWalk
  BY DEF ShopfrontInit, Init, Rows
<1>3. Ordered(newer, Rows)
  BY <1>2 DEF Ordered
<1>4. ShopfrontTypeOK
  BY <1>1, <1>2, <1>3, OrderOfRows DEF ShopfrontTypeOK, RowsInv
<1> QED
  BY <1>1, <1>2, <1>4 DEF ShopfrontInv

(* A walk goes on, whatever the administration does.                        *)
LEMMA AdminKeepsWalk ==
    ASSUME ShopfrontInv, AdminStep, walk # NoWalk, walk' # NoWalk, NEW g,
           \A p \in Products \ {g} :
              product'[p] = product[p] \/ (~Found(product[p]) /\ ~Found(product'[p])),
           \A p, q \in Rows \cap Rows' : <<p, q>> \in newer <=> <<p, q>> \in newer'
    PROVE  walk' \in Walk /\ WalkSound(walk', Listed(walk'.brand, product'), newer')
<1>1. PICK w, f, S, T, R, Q :
         /\ w = walk /\ f = walk.brand /\ R = newer /\ Q = newer'
         /\ S = Listed(f, product) /\ T = Listed(f, product')
  OBVIOUS
<1>2. w \in Walk /\ WalkSound(w, S, R)
  BY <1>1 DEF ShopfrontInv, ShopfrontTypeOK
<1>3. S \subseteq Rows /\ IsFiniteSet(S) /\ Ordered(R, S)
  BY <1>1, ListIsOrdered DEF ShopfrontInv
<1>4. T \subseteq Rows' /\ T \in SUBSET Products
  BY <1>1 DEF Listed, Matches, Found, Rows
<1>5. T \in {S, S \ {g}, S \cup {g}}
  BY <1>1, OneOnTheList
<1>6. \A p, q \in S \cap T : <<p, q>> \in R <=> <<p, q>> \in Q
  BY <1>1, <1>3, <1>4
<1>7. PICK met : met = Gone(f) \cup IF Late THEN Added(f) ELSE {}
  OBVIOUS
<1>8. /\ met = (S \ T) \cup IF Waits(w) THEN T \ S ELSE {}
      /\ met \in SUBSET Products
  BY <1>1, <1>7 DEF Gone, Added, Late, Waits, Known, Listed
<1>9. PICK m : m = Cardinality(met)
  OBVIOUS
<1>10. IsFiniteSet(met)
  BY <1>8, ProductsAssumption, FS_Subset
<1>11. m \in Nat /\ (m = 0 <=> met = {})
  BY <1>9, <1>10, FS_CardinalityType, FS_EmptySet
<1>12. PICK v : v = Meets(w, S, T, m)
  OBVIOUS
<1>13. walk' = Capped(v)
  BY <1>1, <1>7, <1>9, <1>12 DEF AdminStep, Watched, Meets, Gone
<1>14. T \subseteq S /\ T # S => m >= 1
  BY <1>8, <1>11
<1>15. Waits(w) /\ S \subseteq T /\ T # S => m >= 1
  BY <1>8, <1>11
<1>16. AllMadeUp(v) \/ OnTrack(v, T, Q)
  BY <1>2, <1>3, <1>5, <1>6, <1>11, <1>12, <1>14, <1>15, MeetsIsSound
<1>17. v \in Walk /\ v.brand = f /\ v.left \subseteq T
  BY <1>1, <1>2, <1>11, <1>12, MeetsType DEF WalkSound
<1>18. Capped(v) \in Walk /\ Capped(v).brand = f /\ WalkSound(Capped(v), T, Q)
  BY <1>16, <1>17, CappedIsSound
<1> QED
  BY <1>1, <1>13, <1>18

LEMMA AdminKeepsInv ==
    ASSUME ShopfrontInv, AdminStep
    PROVE  ShopfrontInv'
<1>1. RowsInv /\ Next /\ NewestFirst /\ ShopfrontTypeOK
  BY DEF ShopfrontInv, AdminStep
<1>2. RowsInv'
  BY <1>1, RowsStep
<1>3. PICK g : /\ NewRows \subseteq {g}
               /\ \A p \in Products \ {g} :
                     product'[p] = product[p] \/ (~Found(product[p]) /\ ~Found(product'[p]))
  BY <1>1, OneRowChanges
<1>4. /\ \A p, q \in Rows \cap Rows' : <<p, q>> \in newer <=> <<p, q>> \in newer'
      /\ newer' \subseteq Rows' \X Rows' /\ Ordered(newer', Rows')
  BY <1>1, <1>3, NewestKeepsOrder
<1>5. walk = NoWalk => walk' = NoWalk
  BY DEF AdminStep, Watched
<1>6. walk' # NoWalk =>
         walk' \in Walk /\ WalkSound(walk', Listed(walk'.brand, product'), newer')
  BY <1>3, <1>4, <1>5, AdminKeepsWalk
<1>7. IsStrictlyTotallyOrdered([r \in Rows' \X Rows' |-> r \in newer'], Rows')
  BY <1>4, OrderOfRows
<1>8. ShopfrontTypeOK'
  BY <1>2, <1>4, <1>6, <1>7 DEF ShopfrontTypeOK, RowsInv
<1> QED
  BY <1>2, <1>6, <1>8 DEF ShopfrontInv

-----------------------------------------------------------------------------
(* The reader changes nothing but its walk.                                  *)
LEMMA ReadersOnlyWalk ==
    ASSUME ShopfrontInv, UNCHANGED <<vars, newer>>,
           walk' # NoWalk =>
              walk' \in Walk /\ WalkSound(walk', Listed(walk'.brand, product), newer)
    PROVE  ShopfrontInv'
<1>1. UNCHANGED <<group, product, request, newer>>
  BY DEF vars
<1>2. RowsInv'
  BY RowsStep DEF ShopfrontInv
<1>3. IsStrictlyTotallyOrdered([r \in Rows' \X Rows' |-> r \in newer'], Rows')
  BY <1>1, OrderOfRows DEF ShopfrontInv, ShopfrontTypeOK, Rows
<1>4. ShopfrontTypeOK'
  BY <1>1, <1>2, <1>3 DEF ShopfrontInv, ShopfrontTypeOK, RowsInv, Rows
<1> QED
  BY <1>1, <1>2, <1>4 DEF ShopfrontInv

LEMMA OpenKeepsInv ==
    ASSUME ShopfrontInv, NEW f \in Brand \cup {NoFilter}, Open(f)
    PROVE  ShopfrontInv'
<1>1. PICK S : S = Listed(f, product)
  OBVIOUS
<1>2. S \in SUBSET Products /\ IsFiniteSet(S) /\ Cardinality(S) \in Nat
  BY <1>1, ListIsOrdered DEF ShopfrontInv, Listed
<1>3. PICK v : v = walk'
  OBVIOUS
<1>4. v = [brand |-> f, page |-> 1, shown |-> FALSE, total |-> NoAnswer, left |-> S,
           changes |-> 0]
  BY <1>1, <1>3 DEF Open
<1>5. v \in Walk
  BY <1>2, <1>4 DEF Walk
<1>6. /\ v.brand = f /\ v.page = 1 /\ ~v.shown /\ v.total = NoAnswer
      /\ v.left = S /\ v.changes = 0
  BY <1>4
<1>7. FirstIn(newer, S, 0) = {}
  BY <1>2, PlacesDiffer, <1>1, ListIsOrdered DEF ShopfrontInv, FirstIn
<1>8. SeenBy(v) = 0
  BY <1>6, LimitAssumption DEF SeenBy, Skipped
<1>9. Passed(v, S, newer) = {}
  BY <1>7, <1>8 DEF Passed
<1>10. Cardinality(Passed(v, S, newer)) = 0
  BY <1>9, FS_EmptySet
<1>11. WalkSound(v, S, newer)
  BY <1>2, <1>6, <1>10 DEF WalkSound, OnTrack, Waits, Ended, Known
<1>12. UNCHANGED <<vars, newer>>
  BY DEF Open
<1> QED
  BY <1>1, <1>3, <1>5, <1>6, <1>11, <1>12, ReadersOnlyWalk

(* What is shown is not left: the places up to the page are as they were.   *)
LEMMA GetManyKeepsInv ==
    ASSUME ShopfrontInv, GetMany
    PROVE  ShopfrontInv'
<1>1. PICK w, S, R : w = walk /\ S = Listed(walk.brand, product) /\ R = newer
  OBVIOUS
<1>2. w \in Walk /\ WalkSound(w, S, R) /\ ~w.shown
  BY <1>1 DEF ShopfrontInv, ShopfrontTypeOK, GetMany
<1>3. IsFiniteSet(S) /\ Cardinality(S) \in Nat /\ Ordered(R, S)
  BY <1>1, ListIsOrdered DEF ShopfrontInv
<1>4. PICK P, v : /\ P = Page(w.brand, w.page)
                  /\ v = [w EXCEPT !.shown = TRUE, !.left = @ \ Page(w.brand, w.page)]
  OBVIOUS
<1>5. PICK k, n : k = Skipped(w.page) /\ n = w.page * Limit
  OBVIOUS
<1>6. k \in Nat /\ n = k + Limit /\ n \in Nat /\ SeenBy(w) = k /\ Limit \in Nat \ {0}
  BY <1>2, <1>5, SeenType, LimitAssumption DEF SeenBy
<1>7. P = {p \in S : PlaceIn(R, p, S) \in k..(k + Limit - 1)}
  BY <1>1, <1>4, <1>5 DEF Page, Place, PlaceIn, Before
<1>8. P = FirstIn(R, S, n) \ FirstIn(R, S, k) /\ FirstIn(R, S, k) \subseteq FirstIn(R, S, n)
  <2>1. \A p \in S : PlaceIn(R, p, S) \in Nat
    BY <1>3, PlacesDiffer
  <2> QED
    BY <1>6, <1>7, <2>1 DEF FirstIn
<1>9. /\ v \in Walk /\ v.brand = w.brand /\ v.shown /\ v.page = w.page
      /\ v.total = w.total /\ v.changes = w.changes /\ v.left = w.left \ P
  <2>1. PICK L : L = w.left \ P
    OBVIOUS
  <2>2. v = [w EXCEPT !.shown = TRUE, !.left = L] /\ L \in SUBSET Products
    BY <1>2, <1>4, <2>1 DEF Walk
  <2> QED
    BY <1>2, <2>1, <2>2 DEF Walk
<1>10. v.left \subseteq S /\ w.left \subseteq S
  BY <1>2, <1>9 DEF WalkSound
<1>11. SeenBy(v) = n
  BY <1>5, <1>9 DEF SeenBy
<1>12. PICK A : A = Passed(w, S, R)
  OBVIOUS
<1>13. IsFiniteSet(A) /\ Cardinality(A) \in Nat /\ A = w.left \cap FirstIn(R, S, k)
  BY <1>2, <1>6, <1>12, PassedIsFinite DEF Passed
<1>14. Passed(v, S, R) = A
  BY <1>8, <1>9, <1>11, <1>13 DEF Passed
<1>15. w.changes \in Nat /\ (Known(w) => w.total \in Nat)
  BY <1>2 DEF Walk, Known
<1>16. ASSUME AllMadeUp(w)
       PROVE  AllMadeUp(v)
  <2>1. v.left \in SUBSET w.left
    BY <1>9
  <2>2. Cardinality(v.left) <= Cardinality(w.left)
    BY <1>2, <2>1, LeftIsFinite, FS_Subset
  <2>3. Cardinality(v.left) \in Nat /\ Cardinality(w.left) \in Nat
    BY <1>2, <1>9, LeftIsFinite
  <2>4. AllMadeUp(v)
    BY <1>9, <1>15, <1>16, <2>2, <2>3 DEF AllMadeUp
  <2> QED
    BY <2>4
<1>17. ASSUME OnTrack(w, S, R), ~Ended(v)
       PROVE  OnTrack(v, S, R)
  <2>1. OnTrack(v, S, R)
    BY <1>9, <1>12, <1>14, <1>17 DEF OnTrack, Waits
  <2> QED
    BY <2>1
<1>18. ASSUME OnTrack(w, S, R), Ended(v)
       PROVE  AllMadeUp(v)
  <2>1. PICK B : B = S \ FirstIn(R, S, n)
    OBVIOUS
  <2>2. v.left \in SUBSET (A \cup B)
    BY <1>8, <1>9, <1>10, <1>13, <2>1
  <2>3. IsFiniteSet(B) /\ Cardinality(B) \in Nat
    <3>1. B \in SUBSET S
      BY <2>1
    <3> QED
      BY <1>3, <3>1, FS_Subset, FS_CardinalityType
  <2>4. IsFiniteSet(A \cup B) /\ Cardinality(A \cup B) <= Cardinality(A) + Cardinality(B)
    <3>1. /\ IsFiniteSet(A \cup B)
          /\ Cardinality(A \cup B)
               = Cardinality(A) + Cardinality(B) - Cardinality(A \cap B)
      BY <1>13, <2>3, FS_Union
    <3>2. IsFiniteSet(A \cap B)
      BY <1>13, FS_Intersection
    <3>3. Cardinality(A \cap B) \in Nat
      BY <3>2, FS_CardinalityType
    <3> QED
      BY <1>13, <2>3, <3>1, <3>3
  <2>5. Cardinality(v.left) <= Cardinality(A \cup B) /\ Cardinality(A \cup B) \in Nat
    BY <2>2, <2>4, FS_Subset, FS_CardinalityType
  <2>6. /\ Cardinality(S) <= n => B = {}
        /\ Cardinality(S) > n => Cardinality(B) <= Cardinality(S) - n
    BY <1>3, <1>6, <2>1, FewBehind
  <2>7. B = {} => Cardinality(B) = 0
    BY FS_EmptySet
  <2>8. Waits(w) /\ w.total \in Nat /\ n >= w.total
    BY <1>2, <1>5, <1>9, <1>15, <1>18 DEF Ended, Waits, Known
  <2>9. /\ Cardinality(A) <= w.changes
        /\ Cardinality(A) + Cardinality(S) <= w.total + w.changes
    BY <1>12, <1>18, <2>8 DEF OnTrack
  <2>10. Cardinality(v.left) \in Nat
    BY <1>9, LeftIsFinite
  <2>11. Cardinality(v.left) <= w.changes
    BY <1>3, <1>6, <1>13, <1>15, <2>3, <2>4, <2>5, <2>6, <2>7, <2>8, <2>9, <2>10
  <2>12. AllMadeUp(v)
    BY <1>9, <2>11 DEF AllMadeUp
  <2> QED
    BY <2>12
<1>19. AllMadeUp(v) \/ OnTrack(v, S, R)
  BY <1>2, <1>16, <1>17, <1>18 DEF WalkSound
<1>20. Capped(v) \in Walk /\ Capped(v).brand = w.brand /\ WalkSound(Capped(v), S, R)
  BY <1>9, <1>10, <1>19, CappedIsSound
<1>21. walk' = Capped(v) /\ UNCHANGED <<vars, newer>>
  BY <1>1, <1>4 DEF GetMany
<1> QED
  BY <1>1, <1>20, <1>21, ReadersOnlyWalk

(* The count covers the list as it is when it runs.                         *)
LEMMA GetCountKeepsInv ==
    ASSUME ShopfrontInv, GetCount
    PROVE  ShopfrontInv'
<1>1. PICK w, S, R : w = walk /\ S = Listed(walk.brand, product) /\ R = newer
  OBVIOUS
<1>2. w \in Walk /\ WalkSound(w, S, R) /\ ~Known(w)
  BY <1>1 DEF ShopfrontInv, ShopfrontTypeOK, GetCount, Known
<1>3. IsFiniteSet(S) /\ Cardinality(S) \in Nat /\ Ordered(R, S)
  BY <1>1, ListIsOrdered DEF ShopfrontInv
<1>4. PICK n \in Counts(walk.brand) : walk' = [walk EXCEPT !.total = n]
  BY DEF GetCount
<1>5. n \in Nat /\ n >= Cardinality(S)
  BY <1>1, <1>3, <1>4, LimitAssumption DEF Counts
<1>6. PICK v : v = walk'
  OBVIOUS
<1>7. /\ v \in Walk /\ v.brand = w.brand /\ v.shown = w.shown /\ v.page = w.page
      /\ v.total = n /\ v.changes = w.changes /\ v.left = w.left
  BY <1>1, <1>2, <1>4, <1>5, <1>6 DEF Walk
<1>8. PICK A : A = Passed(w, S, R)
  OBVIOUS
<1>9. Passed(v, S, R) = A /\ SeenBy(v) = SeenBy(w)
  BY <1>7, <1>8 DEF Passed, SeenBy
<1>10. Cardinality(A) \in Nat /\ w.changes \in Nat
  BY <1>2, <1>8, PassedIsFinite DEF Walk
<1>11. AllMadeUp(w) => AllMadeUp(v)
  BY <1>7 DEF AllMadeUp
<1>12. ASSUME OnTrack(w, S, R), ~Ended(v)
       PROVE  OnTrack(v, S, R)
  <2>1. Cardinality(A) + Cardinality(S) <= n + w.changes
    BY <1>3, <1>5, <1>8, <1>10, <1>12 DEF OnTrack
  <2> QED
    BY <1>7, <1>8, <1>9, <1>12, <2>1 DEF OnTrack
<1>13. ASSUME OnTrack(w, S, R), Ended(v)
       PROVE  AllMadeUp(v)
  <2>1. PICK k : k = SeenBy(w)
    OBVIOUS
  <2>2. k \in Nat /\ Cardinality(S) <= k
    <3>1. w.shown /\ w.page * Limit >= n
      BY <1>7, <1>13 DEF Ended
    <3>2. k = w.page * Limit /\ k \in Nat
      BY <1>2, <2>1, <3>1, SeenType DEF SeenBy
    <3> QED
      BY <1>3, <1>5, <3>1, <3>2
  <2>3. S \ FirstIn(R, S, k) = {}
    BY <1>3, <2>2, FewBehind
  <2>4. A = w.left
    BY <1>2, <1>8, <2>1, <2>3 DEF Passed, WalkSound
  <2> QED
    BY <1>7, <1>8, <1>13, <2>4 DEF AllMadeUp, OnTrack
<1>14. WalkSound(v, S, R)
  BY <1>2, <1>7, <1>11, <1>12, <1>13 DEF WalkSound
<1>15. UNCHANGED <<vars, newer>>
  BY DEF GetCount
<1> QED
  BY <1>1, <1>6, <1>7, <1>14, <1>15, ReadersOnlyWalk

(* The next page begins where this one ends.                                *)
LEMMA TurnPageKeepsInv ==
    ASSUME ShopfrontInv, TurnPage
    PROVE  ShopfrontInv'
<1>1. PICK w, S, R : w = walk /\ S = Listed(walk.brand, product) /\ R = newer
  OBVIOUS
<1>2. w \in Walk /\ WalkSound(w, S, R) /\ w.shown
  BY <1>1 DEF ShopfrontInv, ShopfrontTypeOK, TurnPage, Answered
<1>3. PICK v : v = walk'
  OBVIOUS
<1>4. /\ v \in Walk /\ v.brand = w.brand /\ ~v.shown /\ v.page = w.page + 1
      /\ v.total = NoAnswer /\ v.changes = w.changes /\ v.left = w.left
  <2>1. PICK i : i = w.page + 1
    OBVIOUS
  <2>2. i \in Nat \ {0}
    BY <1>2, <2>1 DEF Walk
  <2>3. v = [w EXCEPT !.page = i, !.shown = FALSE, !.total = NoAnswer]
    BY <1>1, <1>3, <2>1 DEF TurnPage
  <2> QED
    BY <1>2, <2>1, <2>2, <2>3 DEF Walk
<1>5. SeenBy(v) = SeenBy(w)
  BY <1>2, <1>4, SeenType DEF SeenBy, Skipped
<1>6. Passed(v, S, R) = Passed(w, S, R)
  BY <1>4, <1>5 DEF Passed
<1>7. WalkSound(v, S, R)
  BY <1>2, <1>4, <1>6 DEF WalkSound, AllMadeUp, OnTrack, Waits, Ended, Known
<1>8. UNCHANGED <<vars, newer>>
  BY DEF TurnPage
<1> QED
  BY <1>1, <1>3, <1>4, <1>7, <1>8, ReadersOnlyWalk

LEMMA LeaveKeepsInv ==
    ASSUME ShopfrontInv, Leave
    PROVE  ShopfrontInv'
BY ReadersOnlyWalk DEF Leave

LEMMA ShopfrontStep == ShopfrontInv /\ [ShopfrontNext]_shopVars => ShopfrontInv'
<1> SUFFICES ASSUME ShopfrontInv, [ShopfrontNext]_shopVars
             PROVE  ShopfrontInv'
  OBVIOUS
<1>1. CASE UNCHANGED shopVars
  <2>1. UNCHANGED <<vars, newer, walk>>
    BY <1>1 DEF shopVars
  <2>2. PICK w : w = walk'
    OBVIOUS
  <2>3. w = walk
    BY <2>1, <2>2
  <2>4. w # NoWalk => w \in Walk /\ WalkSound(w, Listed(w.brand, product), newer)
    BY <2>3 DEF ShopfrontInv, ShopfrontTypeOK
  <2> QED
    BY <2>1, <2>2, <2>4, ReadersOnlyWalk
<1>2. CASE ReaderStep
  BY <1>2, OpenKeepsInv, GetManyKeepsInv, GetCountKeepsInv, TurnPageKeepsInv, LeaveKeepsInv
     DEF ReaderStep
<1> QED
  BY <1>1, <1>2, AdminKeepsInv DEF ShopfrontNext

-----------------------------------------------------------------------------
(* Rows, the order of their created_at and the walk of a reader are well    *)
(* typed: whatever comes and goes, no two rows have one place on the list   *)
(* (product.repository.ts:96).                                              *)
THEOREM ShopfrontTypeCorrect == ShopfrontSpec => []ShopfrontTypeOK
<1>1. ShopfrontInv => ShopfrontTypeOK
  BY DEF ShopfrontInv
<1> QED
  BY ShopfrontBegins, ShopfrontStep, <1>1, PTL DEF ShopfrontSpec

(* Who has read the pages of findProductsPagination to the last one that    *)
(* meta.totalPages announced has missed no more products than the list lost *)
(* meanwhile, or gained between a count and its page                        *)
(* (product.repository.ts:96).                                              *)
THEOREM OnlyChangesAreMissed == ShopfrontSpec => []MissesOnlyByChanges
<1>1. ShopfrontInv => MissesOnlyByChanges
  <2> SUFFICES ASSUME ShopfrontInv, AtEnd
               PROVE  Cardinality(walk.left) <= walk.changes
    BY DEF MissesOnlyByChanges
  <2>1. WalkSound(walk, Listed(walk.brand, product), newer) /\ Ended(walk)
    BY DEF ShopfrontInv, AtEnd, Answered, Ended, Known
  <2> QED
    BY <2>1 DEF WalkSound, AllMadeUp, OnTrack
<1> QED
  BY ShopfrontBegins, ShopfrontStep, <1>1, PTL DEF ShopfrontSpec

(* Readers only read: beside them, the administration is that of Brands, so *)
(* that all that holds of it holds beside any reader                        *)
(* (product.repository.ts:96).                                              *)
THEOREM ReadersOnlyRead == ShopfrontSpec => Spec
<1>1. ShopfrontInit => Init
  BY DEF ShopfrontInit
<1>2. [ShopfrontNext]_shopVars => [Next]_vars
  BY DEF ShopfrontNext, AdminStep, ReaderStep, Open, GetMany, GetCount, TurnPage, Leave,
     shopVars
<1> QED
  BY <1>1, <1>2, PTL DEF ShopfrontSpec, Spec

(* The same with administrators who see to what the code does not: beside   *)
(* readers, too, names stay unique and parents listed, and what readers     *)
(* miss is still bounded as above (product.repository.ts:96).               *)
THEOREM CarefulReadersOnlyRead == CarefulShopfrontSpec => CarefulSpec /\ ShopfrontSpec
<1>1. ShopfrontInit => Init
  BY DEF ShopfrontInit
<1>2. [CarefulAdminStep \/ ReaderStep]_shopVars => [CarefulNext]_vars
  BY DEF CarefulAdminStep, ReaderStep, Open, GetMany, GetCount, TurnPage, Leave, shopVars
<1>3. [CarefulAdminStep \/ ReaderStep]_shopVars => [ShopfrontNext]_shopVars
  BY CarefulIsNext DEF CarefulAdminStep, AdminStep, ShopfrontNext
<1> QED
  BY <1>1, <1>2, <1>3, PTL DEF CarefulShopfrontSpec, CarefulSpec, ShopfrontSpec
=============================================================================
