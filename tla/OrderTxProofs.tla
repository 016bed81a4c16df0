----------------------------- MODULE OrderTxProofs -----------------------------
(***************************************************************************)
(* What the row locks of OrderTx achieve for any number of sessions,       *)
(* users, orders and variants, with every interleaving, crash and retry:   *)
(* no change of a counter is lost, and nothing is oversold.                *)
(***************************************************************************)
EXTENDS OrderTx, QuantitiesProofs

(* What a session has in memory.                                            *)
Transaction ==
    [step : Steps, op : Handlers, user : Users \cup {NoUser}, cart : Cart,
     orders : SUBSET Orders, pays : SUBSET Orders,
     paid : [Orders -> {"PAID", "UNPAID"}], want : Variants \cup {NoVariant},
     todo : SUBSET Variants, rows : SUBSET Variants, stock : [Variants -> Nat],
     reserved : [Variants -> Nat]]

(* The variants whose rows the handler has to write.                        *)
Needs(e) ==
    IF e.op = "create" THEN {v \in Variants : e.cart[v] > 0} ELSE VariantsOf(e.orders)

(* A session that has e in memory holds the locks of the rows it has read,  *)
(* which are therefore still as it read them; it has read, or will read,    *)
(* all the rows it has to write; and the orders it settles are there, so    *)
(* that their items do not change.                                          *)
RowsHeld(s, e) ==
    \A v \in e.rows : lock[v] = s /\ e.stock[v] = stock[v] /\ e.reserved[v] = reserved[v]

RowsCover(e) ==
    /\ e.step = "locking" =>
          e.want \in Variants /\ Needs(e) \subseteq e.rows \cup e.todo \cup {e.want}
    /\ e.step = "writing" => Needs(e) \subseteq e.rows

OrdersPlaced(e) ==
    e.step \in {"locking", "writing"} /\ e.op # "create" =>
        \A o \in e.orders : status[o] # "NONE"

Sound(s, e) == RowsHeld(s, e) /\ RowsCover(e) /\ OrdersPlaced(e)

TxInv == TypeOK /\ \A s \in Sessions : Sound(s, tx[s])

(* Rows may change as long as no session has them in memory.                *)
RowsStay(e) ==
    /\ \A v \in e.rows : lock'[v] = lock[v] /\ stock'[v] = stock[v] /\ reserved'[v] = reserved[v]
    /\ \A o \in Orders : status[o] # "NONE" => status'[o] # "NONE" /\ items'[o] = items[o]

-----------------------------------------------------------------------------
LEMMA CartType == [v \in Variants |-> 0] \in Cart
BY MaxQtyAssumption DEF Cart

LEMMA IdleType == Idle \in Transaction
BY CartType DEF Idle, Transaction, Steps, Handlers

LEMMA IdleSound == \A s : Sound(s, Idle)
BY DEF Sound, RowsHeld, RowsCover, OrdersPlaced, Idle

LEMMA SoundStays ==
    ASSUME NEW s, NEW e \in Transaction, Sound(s, e), RowsStay(e)
    PROVE  Sound(s, e)'
<1>1. RowsHeld(s, e)'
  BY DEF Sound, RowsHeld, RowsStay
<1>2. OrdersPlaced(e)'
  BY DEF Sound, OrdersPlaced, RowsStay, Transaction
<1>3. ASSUME e.step \in {"locking", "writing"}
      PROVE  Needs(e)' = Needs(e)
  <2>1. CASE e.op = "create"
    BY <2>1 DEF Needs
  <2>2. CASE e.op # "create"
    BY <1>3, <2>2 DEF Needs, VariantsOf, Sound, OrdersPlaced, RowsStay, Transaction
  <2> QED
    BY <2>1, <2>2
<1>4. RowsCover(e)'
  BY <1>3 DEF Sound, RowsCover
<1> QED
  BY <1>1, <1>2, <1>4 DEF Sound

(* The inductive step for one session: it has e in memory afterwards, and   *)
(* the others' rows stay.                                                   *)
LEMMA SessionStep ==
    ASSUME TxInv, NEW s \in Sessions, NEW e \in Transaction, tx' = [tx EXCEPT ![s] = e],
           Sound(s, e)', \A t \in Sessions \ {s} : RowsStay(tx[t])
    PROVE  /\ tx' \in [Sessions -> Transaction]
           /\ \A t \in Sessions : Sound(t, tx[t])'
<1>1. tx \in [Sessions -> Transaction]
  BY DEF TxInv, TypeOK, Transaction
<1>2. tx' \in [Sessions -> Transaction]
  BY <1>1
<1>3. ASSUME NEW t \in Sessions
      PROVE  Sound(t, tx[t])'
  <2>1. CASE t = s
    <3>1. tx'[t] = e
      BY <1>1, <2>1
    <3> QED
      BY <2>1, <3>1 DEF Sound, RowsHeld, RowsCover, OrdersPlaced, Needs, VariantsOf
  <2>2. CASE t # s
    <3> DEFINE d == tx[t]
    <3>1. tx'[t] = d /\ d \in Transaction
      BY <1>1, <2>2
    <3>2. Sound(t, d) /\ RowsStay(d)
      BY <2>2 DEF TxInv
    <3> HIDE DEF d
    <3> QED
      BY <3>1, <3>2, SoundStays
         DEF Sound, RowsHeld, RowsCover, OrdersPlaced, Needs, VariantsOf
  <2> QED
    BY <2>1, <2>2
<1> QED
  BY <1>2, <1>3

-----------------------------------------------------------------------------
(* Nothing is committed and no lock changes hands.                          *)
LEMMA GoesKeepsInv ==
    ASSUME TxInv, NEW s \in Sessions, NEW e \in Transaction, Goes(s, e), Sound(s, e)
    PROVE  TxInv'
<1>1. \A d : RowsStay(d)
  BY DEF Goes, rows, counters, orderRow, RowsStay
<1>2. Sound(s, e)'
  BY <1>1, SoundStays
<1>3. /\ tx' \in [Sessions -> Transaction]
      /\ \A t \in Sessions : Sound(t, tx[t])'
  BY <1>1, <1>2, SessionStep DEF Goes
<1> QED
  BY <1>3 DEF Goes, rows, counters, orderRow, TxInv, TypeOK, Transaction

LEMMA LocksNextKeepsInv ==
    ASSUME TxInv, NEW s \in Sessions, NEW e \in Transaction, NEW V \in SUBSET Variants,
           LocksNext(s, e, V), RowsHeld(s, e), Needs(e) \subseteq V,
           e.op # "create" => \A o \in e.orders : status[o] # "NONE"
    PROVE  TxInv'
<1>1. PICK v \in V :
         Goes(s, [e EXCEPT !.step = "locking", !.want = v, !.todo = V \ {v}])
  BY DEF LocksNext
<1> DEFINE d == [e EXCEPT !.step = "locking", !.want = v, !.todo = V \ {v}]
<1>2. d \in Transaction
  BY DEF Transaction, Steps
<1>3. /\ d.step = "locking" /\ d.want = v /\ d.todo = V \ {v} /\ d.rows = e.rows
      /\ d.op = e.op /\ d.cart = e.cart /\ d.orders = e.orders
      /\ d.stock = e.stock /\ d.reserved = e.reserved
  BY DEF Transaction
<1> HIDE DEF d
<1>4. Sound(s, d)
  BY <1>3 DEF Sound, RowsHeld, RowsCover, OrdersPlaced, Needs
<1> QED
  BY <1>1, <1>2, <1>4, GoesKeepsInv DEF d

LEMMA BeginKeepsInv ==
    ASSUME TxInv, NEW s \in Sessions,
           \/ \E u \in Users, cart \in Cart : BeginCreate(s, u, cart)
           \/ \E u \in Users, o \in Orders : BeginCancel(s, u, o)
           \/ \E p \in Orders : BeginConfirm(s, p)
           \/ BeginExpire(s)
           \/ \E u \in Users, p \in Orders : BeginRetry(s, u, p)
    PROVE  TxInv'
<1>1. ASSUME NEW u \in Users, NEW cart \in Cart, BeginCreate(s, u, cart)
      PROVE  TxInv'
  <2> DEFINE e == [Idle EXCEPT !.op = "create", !.user = u, !.cart = cart]
  <2>1. e \in Transaction
    BY IdleType DEF Transaction, Handlers
  <2>2. e.rows = {} /\ e.op = "create" /\ e.cart = cart
    BY DEF Idle
  <2>3. LocksNext(s, e, {v \in Variants : cart[v] > 0})
    BY <1>1 DEF BeginCreate
  <2> HIDE DEF e
  <2> QED
    BY <2>1, <2>2, <2>3, LocksNextKeepsInv DEF RowsHeld, Needs
<1>2. ASSUME NEW u \in Users, NEW o \in Orders, BeginCancel(s, u, o)
      PROVE  TxInv'
  <2> DEFINE e == [Idle EXCEPT !.op = "cancel", !.orders = {o}, !.pays = {o}]
  <2>1. e \in Transaction
    BY IdleType DEF Transaction, Handlers
  <2>2. e.rows = {} /\ e.op = "cancel" /\ e.orders = {o}
    BY DEF Idle
  <2>3. LocksNext(s, e, VariantsOf({o})) /\ status[o] # "NONE"
    BY <1>2 DEF BeginCancel, Live, Pending, Having
  <2> HIDE DEF e
  <2> QED
    BY <2>1, <2>2, <2>3, LocksNextKeepsInv DEF RowsHeld, Needs, VariantsOf
<1>3. ASSUME NEW p \in Orders, BeginConfirm(s, p)
      PROVE  TxInv'
  <2> DEFINE e == [Idle EXCEPT !.step = "picking", !.pays = {p}]
  <2>1. e \in Transaction
    BY IdleType DEF Transaction, Steps
  <2>2. e.rows = {} /\ e.step = "picking"
    BY DEF Idle
  <2>3. Goes(s, e)
    BY <1>3 DEF BeginConfirm
  <2> HIDE DEF e
  <2> QED
    BY <2>1, <2>2, <2>3, GoesKeepsInv DEF Sound, RowsHeld, RowsCover, OrdersPlaced
<1>4. CASE BeginExpire(s)
  <2> DEFINE e == [Idle EXCEPT !.op = "expire", !.orders = Overdue, !.pays = Overdue,
                               !.paid = paid]
  <2>1. e \in Transaction
    BY IdleType DEF Transaction, Handlers, Overdue, Pending, Having, TxInv, TypeOK
  <2>2. e.rows = {} /\ e.op = "expire" /\ e.orders = Overdue
    BY DEF Idle
  <2>3. LocksNext(s, e, VariantsOf(Overdue))
    BY <1>4 DEF BeginExpire
  <2> HIDE DEF e
  <2> QED
    BY <2>1, <2>2, <2>3, LocksNextKeepsInv
       DEF RowsHeld, Needs, VariantsOf, Overdue, Pending, Having
<1>5. ASSUME NEW u \in Users, NEW p \in Orders, BeginRetry(s, u, p)
      PROVE  TxInv'
  <2> DEFINE e == [Idle EXCEPT !.step = "retryPayment", !.op = "retry", !.orders = {p},
                               !.pays = {p}, !.paid = paid]
  <2>1. e \in Transaction
    BY IdleType DEF Transaction, Steps, Handlers, TxInv, TypeOK
  <2>2. e.rows = {} /\ e.step = "retryPayment"
    BY DEF Idle
  <2>3. Goes(s, e)
    BY <1>5 DEF BeginRetry
  <2> HIDE DEF e
  <2> QED
    BY <2>1, <2>2, <2>3, GoesKeepsInv DEF Sound, RowsHeld, RowsCover, OrdersPlaced
<1> QED
  BY <1>1, <1>2, <1>3, <1>4, <1>5

LEMMA PicksKeepsInv ==
    ASSUME TxInv, NEW s \in Sessions, Picks(s)
    PROVE  TxInv'
<1>1. ASSUME NEW o \in Orders, NEW result \in {"pay", "fail"}, PickOrder(s, o, result)
      PROVE  TxInv'
  <2> DEFINE e == [tx[s] EXCEPT !.op = result, !.orders = {o}]
  <2>1. tx[s] \in Transaction
    BY DEF TxInv, TypeOK, Transaction
  <2>2. e \in Transaction
    BY <2>1 DEF Transaction, Handlers
  <2>3. /\ e.rows = tx[s].rows /\ e.op = result /\ e.orders = {o}
        /\ e.stock = tx[s].stock /\ e.reserved = tx[s].reserved
    BY <2>1 DEF Transaction
  <2>4. LocksNext(s, e, VariantsOf({o})) /\ status[o] # "NONE"
    BY <1>1 DEF PickOrder, Live, Pending, Having
  <2> HIDE DEF e
  <2>5. RowsHeld(s, e) /\ Needs(e) \subseteq VariantsOf({o})
    BY <2>3 DEF TxInv, Sound, RowsHeld, Needs
  <2> QED
    BY <2>2, <2>3, <2>4, <2>5, LocksNextKeepsInv DEF VariantsOf
<1>2. CASE NoOrderToPay(s)
  BY <1>2, IdleType, IdleSound, GoesKeepsInv DEF NoOrderToPay
<1> QED
  BY <1>1, <1>2 DEF Picks

-----------------------------------------------------------------------------
(* A session's memory after it has locked and read the row of v.            *)
WithRow(e, v) == [e EXCEPT !.rows = @ \cup {v}, !.stock[v] = stock[v],
                           !.reserved[v] = reserved[v]]

LEMMA WithRowFields ==
    ASSUME TypeOK, NEW e \in Transaction, NEW v \in Variants
    PROVE  /\ WithRow(e, v) \in Transaction
           /\ WithRow(e, v).rows = e.rows \cup {v}
           /\ WithRow(e, v).stock = [e.stock EXCEPT ![v] = stock[v]]
           /\ WithRow(e, v).reserved = [e.reserved EXCEPT ![v] = reserved[v]]
           /\ WithRow(e, v).step = e.step /\ WithRow(e, v).op = e.op
           /\ WithRow(e, v).cart = e.cart /\ WithRow(e, v).orders = e.orders
           /\ WithRow(e, v).todo = e.todo
<1>1. /\ e.stock \in [Variants -> Nat] /\ e.reserved \in [Variants -> Nat]
      /\ stock[v] \in Nat /\ reserved[v] \in Nat
  BY DEF Transaction, TypeOK
<1>2. /\ [e.stock EXCEPT ![v] = stock[v]] \in [Variants -> Nat]
      /\ [e.reserved EXCEPT ![v] = reserved[v]] \in [Variants -> Nat]
  BY <1>1
<1> QED
  BY <1>2 DEF WithRow, Transaction

(* The row is read, and d is what the session has in memory then.           *)
LEMMA ReadKeepsInv ==
    ASSUME TxInv, NEW s \in Sessions, NEW v \in Variants, NEW d \in Transaction,
           lock[v] = NoSession, lock' = [lock EXCEPT ![v] = s], UNCHANGED rows,
           tx' = [tx EXCEPT ![s] = d],
           d.rows = tx[s].rows \cup {v},
           d.stock = [tx[s].stock EXCEPT ![v] = stock[v]],
           d.reserved = [tx[s].reserved EXCEPT ![v] = reserved[v]],
           RowsCover(d), OrdersPlaced(d)
    PROVE  TxInv'
<1>1. /\ tx[s].stock \in [Variants -> Nat] /\ tx[s].reserved \in [Variants -> Nat]
      /\ tx[s].rows \in SUBSET Variants /\ lock \in [Variants -> Sessions \cup {NoSession}]
  BY DEF TxInv, TypeOK
<1>2. RowsHeld(s, tx[s])
  BY DEF TxInv, Sound
<1>3. Sound(s, d)'
  <2>1. RowsHeld(s, d)'
    BY <1>1, <1>2 DEF RowsHeld, rows, counters
  <2>2. RowsCover(d)' /\ OrdersPlaced(d)'
    BY DEF RowsCover, OrdersPlaced, Needs, VariantsOf, rows, orderRow
  <2> QED
    BY <2>1, <2>2 DEF Sound
<1>4. ASSUME NEW t \in Sessions \ {s}
      PROVE  RowsStay(tx[t])
  <2>1. v \notin tx[t].rows
    BY SessionsAssumption DEF TxInv, Sound, RowsHeld
  <2> QED
    BY <2>1, <1>1 DEF RowsStay, rows, counters, orderRow
<1>5. /\ tx' \in [Sessions -> Transaction]
      /\ \A t \in Sessions : Sound(t, tx[t])'
  BY <1>3, <1>4, SessionStep
<1>6. lock' \in [Variants -> Sessions \cup {NoSession}]
  BY <1>1
<1> QED
  BY <1>5, <1>6 DEF rows, counters, orderRow, TxInv, TypeOK, Transaction

LEMMA AcquireKeepsInv ==
    ASSUME TxInv, NEW s \in Sessions, Acquire(s)
    PROVE  TxInv'
<1> DEFINE v == tx[s].want
           read == WithRow(tx[s], v)
<1>1. /\ TypeOK /\ tx[s] \in Transaction /\ Sound(s, tx[s]) /\ tx[s].step = "locking"
      /\ v \in Variants /\ lock[v] = NoSession
      /\ UNCHANGED rows /\ lock' = [lock EXCEPT ![v] = s]
  BY DEF Acquire, TxInv, TypeOK, Transaction, Sound, RowsCover
<1>2. /\ read \in Transaction
      /\ read.rows = tx[s].rows \cup {v}
      /\ read.stock = [tx[s].stock EXCEPT ![v] = stock[v]]
      /\ read.reserved = [tx[s].reserved EXCEPT ![v] = reserved[v]]
      /\ read.step = "locking" /\ read.op = tx[s].op
      /\ read.cart = tx[s].cart /\ read.orders = tx[s].orders
      /\ read.todo = tx[s].todo
  BY <1>1, WithRowFields
<1>3. Needs(read) \subseteq read.rows \cup read.todo
  BY <1>1, <1>2 DEF Sound, RowsCover, Needs
<1>4. read.op # "create" => \A o \in read.orders : status[o] # "NONE"
  BY <1>1, <1>2 DEF Sound, OrdersPlaced
<1>5. \/ /\ tx[s].todo = {}
         /\ tx' = [tx EXCEPT ![s] = [read EXCEPT !.step = "writing", !.want = NoVariant]]
      \/ \E w \in tx[s].todo :
            tx' = [tx EXCEPT ![s] = [read EXCEPT !.want = w, !.todo = @ \ {w}]]
  BY DEF Acquire, ReadsRow, WithRow
<1> HIDE DEF v, read
<1>6. CASE /\ tx[s].todo = {}
           /\ tx' = [tx EXCEPT ![s] =
                       [read EXCEPT !.step = "writing", !.want = NoVariant]]
  <2> DEFINE d == [read EXCEPT !.step = "writing", !.want = NoVariant]
  <2>1. d \in Transaction
    BY <1>2 DEF Transaction, Steps
  <2>2. /\ d.rows = read.rows /\ d.stock = read.stock /\ d.reserved = read.reserved
        /\ d.op = read.op /\ d.cart = read.cart /\ d.orders = read.orders
        /\ d.step = "writing"
    BY <1>2 DEF Transaction
  <2>3. tx' = [tx EXCEPT ![s] = d]
    BY <1>6
  <2> HIDE DEF d
  <2>4. RowsCover(d) /\ OrdersPlaced(d)
    BY <2>2, <1>2, <1>3, <1>4, <1>6 DEF RowsCover, OrdersPlaced, Needs
  <2> QED
    BY <2>1, <2>2, <2>3, <2>4, <1>1, <1>2, ReadKeepsInv
<1>7. ASSUME NEW w \in tx[s].todo,
             tx' = [tx EXCEPT ![s] = [read EXCEPT !.want = w, !.todo = @ \ {w}]]
      PROVE  TxInv'
  <2> DEFINE d == [read EXCEPT !.want = w, !.todo = @ \ {w}]
  <2>1. w \in Variants /\ d \in Transaction
    BY <1>1, <1>2 DEF Transaction
  <2>2. /\ d.rows = read.rows /\ d.stock = read.stock /\ d.reserved = read.reserved
        /\ d.op = read.op /\ d.cart = read.cart /\ d.orders = read.orders
        /\ d.step = "locking" /\ d.want = w /\ d.todo = read.todo \ {w}
    BY <1>2 DEF Transaction
  <2>3. tx' = [tx EXCEPT ![s] = d]
    BY <1>7
  <2> HIDE DEF d
  <2>4. RowsCover(d) /\ OrdersPlaced(d)
    BY <2>1, <2>2, <1>2, <1>3, <1>4 DEF RowsCover, OrdersPlaced, Needs
  <2> QED
    BY <2>1, <2>2, <2>3, <2>4, <1>1, <1>2, ReadKeepsInv
<1> QED
  BY <1>5, <1>6, <1>7

-----------------------------------------------------------------------------
(* A session ends; what is committed, if anything, are rows that no other   *)
(* session has in memory.                                                   *)
RowsType ==
    /\ stock \in [Variants -> Nat]
    /\ reserved \in [Variants -> Nat]
    /\ status \in [Orders -> {"NONE", "PENDING", "COMPLETED", "CANCELLED", "EXPIRED"}]
    /\ paid \in [Orders -> {"PAID", "UNPAID"}]
    /\ owner \in [Orders -> Users \cup {NoUser}]
    /\ items \in [Orders -> Cart]
    /\ expired \in [Orders -> BOOLEAN]
    /\ payment \in [Orders -> {"NONE", "PENDING", "SUCCESSFUL", "FAILED", "CANCELLED"}]

OrdersStay ==
    \A o \in Orders : status[o] # "NONE" => status'[o] # "NONE" /\ items'[o] = items[o]

LEMMA EndsKeepsInv ==
    ASSUME TxInv, NEW s \in Sessions, Ends(s), RowsType', OrdersStay,
           \A v \in Variants :
              lock[v] # s => stock'[v] = stock[v] /\ reserved'[v] = reserved[v]
    PROVE  TxInv'
<1>1. /\ lock \in [Variants -> Sessions \cup {NoSession}]
      /\ \A t \in Sessions : tx[t].rows \subseteq Variants
  BY DEF TxInv, TypeOK
<1>2. ASSUME NEW t \in Sessions \ {s}
      PROVE  RowsStay(tx[t])
  <2>1. \A v \in tx[t].rows : v \in Variants /\ lock[v] = t
    BY <1>1 DEF TxInv, Sound, RowsHeld
  <2> QED
    BY <2>1, <1>1 DEF RowsStay, OrdersStay, Ends
<1>3. Sound(s, Idle)'
  BY DEF Sound, RowsHeld, RowsCover, OrdersPlaced, Idle
<1>4. /\ tx' \in [Sessions -> Transaction]
      /\ \A t \in Sessions : Sound(t, tx[t])'
  BY <1>2, <1>3, IdleType, SessionStep DEF Ends
<1>5. lock' \in [Variants -> Sessions \cup {NoSession}]
  BY <1>1 DEF Ends
<1> QED
  BY <1>4, <1>5 DEF RowsType, TxInv, TypeOK, Transaction

(* What a commit writes is what the rows say now, with exactly the          *)
(* session's quantities taken off or put on.                                *)
LEMMA WritesAreExact ==
    ASSUME TxInv, NEW s \in Sessions, tx[s].step = "writing", NEW v \in Variants
    PROVE  /\ Taken(s, v) \in Int /\ Sold(s, v) \in Nat
           /\ NewReserved(s)[v] = reserved[v] - Taken(s, v)
           /\ NewStock(s)[v] = stock[v] - Sold(s, v)
           /\ lock[v] # s => NewReserved(s)[v] = reserved[v] /\ NewStock(s)[v] = stock[v]
<1>1. /\ tx[s] \in Transaction /\ RowsHeld(s, tx[s]) /\ Needs(tx[s]) \subseteq tx[s].rows
      /\ stock[v] \in Nat /\ reserved[v] \in Nat
      /\ tx[s].cart[v] \in 0..MaxQty /\ tx[s].orders \in SUBSET Orders
      /\ \A o \in Orders : items[o][v] \in 0..MaxQty
  BY DEF TxInv, TypeOK, Sound, RowsCover, Transaction, Cart
<1>2. Qty(items, tx[s].orders, v) \in Nat
  BY <1>1, OrdersAssumption, FS_Subset, QtyType
<1>3. Taken(s, v) \in Int /\ Sold(s, v) \in Nat
  BY <1>1, <1>2, MaxQtyAssumption DEF Taken, Sold
<1>4. CASE v \in tx[s].rows
  BY <1>1, <1>3, <1>4 DEF RowsHeld, NewReserved, NewStock
<1>5. CASE v \notin tx[s].rows
  <2>1. v \notin Needs(tx[s])
    BY <1>1, <1>5
  <2>2. Taken(s, v) = 0
    <3>1. CASE tx[s].op = "create"
      BY <2>1, <3>1, <1>1, MaxQtyAssumption DEF Needs, Taken
    <3>2. CASE tx[s].op # "create"
      <4>1. \A o \in tx[s].orders : items[o][v] = 0
        BY <2>1, <3>2, <1>1, MaxQtyAssumption DEF Needs, VariantsOf
      <4> QED
        BY <4>1, <3>2, QtyNone DEF Taken
    <3> QED
      BY <3>1, <3>2
  <2> QED
    BY <2>2, <1>1, <1>3, <1>5 DEF NewReserved, NewStock, Sold
<1> QED
  BY <1>3, <1>4, <1>5

(* The rows of variants after a commit.                                     *)
LEMMA SavesVariantsType ==
    ASSUME TxInv, NEW s \in Sessions, SavesVariants(s)
    PROVE  /\ stock' \in [Variants -> Nat] /\ reserved' \in [Variants -> Nat]
           /\ \A v \in Variants :
                lock[v] # s => stock'[v] = stock[v] /\ reserved'[v] = reserved[v]
           /\ \A v \in Variants :
                stock'[v] = stock[v] - Sold(s, v) /\ reserved'[v] = reserved[v] - Taken(s, v)
<1>1. /\ tx[s].step = "writing" /\ ChecksHold(NewStock(s), NewReserved(s))
      /\ stock' = NewStock(s) /\ reserved' = NewReserved(s)
  BY DEF SavesVariants, Accepted
<1>2. ASSUME NEW v \in Variants
      PROVE  /\ NewStock(s)[v] \in Nat /\ NewReserved(s)[v] \in Nat
             /\ NewStock(s)[v] = stock[v] - Sold(s, v)
             /\ NewReserved(s)[v] = reserved[v] - Taken(s, v)
             /\ lock[v] # s => NewReserved(s)[v] = reserved[v] /\ NewStock(s)[v] = stock[v]
  <2>1. stock[v] \in Nat /\ reserved[v] \in Nat
    BY DEF TxInv, TypeOK
  <2>2. NewStock(s)[v] >= 0 /\ NewReserved(s)[v] >= 0
    BY <1>1 DEF ChecksHold
  <2> QED
    BY <1>1, <2>1, <2>2, WritesAreExact
<1>3. NewStock(s) \in [Variants -> Nat] /\ NewReserved(s) \in [Variants -> Nat]
  <2>1. /\ NewStock(s) = [v \in Variants |-> NewStock(s)[v]]
        /\ NewReserved(s) = [v \in Variants |-> NewReserved(s)[v]]
    BY DEF NewStock, NewReserved
  <2> QED
    BY <2>1, <1>2, Zenon
<1> QED
  BY <1>1, <1>2, <1>3

-----------------------------------------------------------------------------
LEMMA CommitKeepsInv ==
    ASSUME TxInv, NEW s \in Sessions, Commit(s)
    PROVE  TxInv'
<1>1. SavesVariants(s) /\ Ends(s)
  BY DEF Commit, CommitCreate, CommitSettle
<1>2. /\ stock' \in [Variants -> Nat] /\ reserved' \in [Variants -> Nat]
      /\ \A v \in Variants :
           lock[v] # s => stock'[v] = stock[v] /\ reserved'[v] = reserved[v]
  BY <1>1, SavesVariantsType
<1>3. tx[s] \in Transaction /\ TypeOK /\ Sound(s, tx[s])
  BY DEF TxInv, TypeOK, Transaction
<1>4. ASSUME NEW o \in Orders, CommitCreate(s, o)
      PROVE  RowsType' /\ OrdersStay
  <2>1. tx[s].user \in Users \cup {NoUser} /\ tx[s].cart \in Cart
    BY <1>3 DEF Transaction
  <2> QED
    BY <1>2, <1>3, <1>4, <2>1 DEF CommitCreate, RowsType, OrdersStay, TypeOK
<1>5. ASSUME NEW op, op # "create",
             NEW st \in {"PENDING", "COMPLETED", "CANCELLED", "EXPIRED"},
             NEW pd \in [Orders -> {"PAID", "UNPAID"}],
             NEW pay \in {"NONE", "PENDING", "SUCCESSFUL", "FAILED", "CANCELLED"},
             CommitSettle(s, op, st, pd, pay)
      PROVE  RowsType' /\ OrdersStay
  BY <1>2, <1>3, <1>5 DEF CommitSettle, RowsType, OrdersStay, TypeOK
<1>6. All("PAID") \in [Orders -> {"PAID", "UNPAID"}]
      /\ All("UNPAID") \in [Orders -> {"PAID", "UNPAID"}]
      /\ tx[s].paid \in [Orders -> {"PAID", "UNPAID"}]
  BY <1>3 DEF All, Transaction
<1>7. RowsType' /\ OrdersStay
  BY <1>4, <1>5, <1>6 DEF Commit
<1> QED
  BY <1>1, <1>2, <1>7, EndsKeepsInv

(* The transaction rolls back.                                              *)
LEMMA RollbackKeepsInv ==
    ASSUME TxInv, NEW s \in Sessions, Reject(s) \/ DeadlockVictim(s) \/ Crash(s)
    PROVE  TxInv'
<1>1. Ends(s) /\ UNCHANGED rows
  BY DEF Reject, DeadlockVictim, Crash
<1>2. RowsType' /\ OrdersStay
  BY <1>1 DEF TxInv, TypeOK, RowsType, OrdersStay, rows, counters, orderRow
<1> QED
  BY <1>1, <1>2, EndsKeepsInv DEF rows, counters

LEMMA RetryKeepsInv ==
    ASSUME TxInv, NEW s \in Sessions, SaveRetriedPayment(s) \/ SaveRetriedOrder(s)
    PROVE  TxInv'
<1>1. CASE SaveRetriedPayment(s)
  <2>1. tx[s] \in Transaction /\ Sound(s, tx[s])
    BY DEF TxInv, TypeOK, Transaction
  <2>2. PICK e \in Transaction : e = [tx[s] EXCEPT !.step = "retryOrder"]
    BY <2>1 DEF Transaction, Steps
  <2>3. /\ e.rows = tx[s].rows /\ e.stock = tx[s].stock /\ e.reserved = tx[s].reserved
        /\ e.step = "retryOrder" /\ tx' = [tx EXCEPT ![s] = e]
    BY <1>1, <2>1, <2>2 DEF SaveRetriedPayment, Transaction
  <2>4. UNCHANGED <<counters, orderRow, lock>>
    BY <1>1 DEF SaveRetriedPayment
  <2>5. Sound(s, e)'
    BY <2>1, <2>3, <2>4 DEF Sound, RowsHeld, RowsCover, OrdersPlaced, counters
  <2>6. /\ tx' \in [Sessions -> Transaction]
        /\ \A t \in Sessions : Sound(t, tx[t])'
    BY <2>3, <2>4, <2>5, SessionStep DEF RowsStay, counters, orderRow
  <2>7. payment' \in [Orders -> {"NONE", "PENDING", "SUCCESSFUL", "FAILED", "CANCELLED"}]
    BY <1>1 DEF SaveRetriedPayment, TxInv, TypeOK
  <2> QED
    BY <2>4, <2>6, <2>7 DEF counters, orderRow, TxInv, TypeOK, Transaction
<1>2. CASE SaveRetriedOrder(s)
  <2>1. tx[s].paid \in [Orders -> {"PAID", "UNPAID"}]
    BY DEF TxInv, TypeOK
  <2>2. RowsType' /\ OrdersStay
    BY <1>2, <2>1
       DEF SaveRetriedOrder, TxInv, TypeOK, RowsType, OrdersStay, counters
  <2> QED
    BY <1>2, <2>2, EndsKeepsInv DEF SaveRetriedOrder, counters
<1> QED
  BY <1>1, <1>2

LEMMA HourKeepsInv ==
    ASSUME TxInv, (\E o \in Orders : HourPasses(o)) \/ UNCHANGED vars
    PROVE  TxInv'
<1>1. /\ UNCHANGED <<counters, status, paid, owner, items, payment, lock, tx>>
      /\ expired' \in [Orders -> BOOLEAN]
  BY DEF HourPasses, TxInv, TypeOK, vars, rows, orderRow
<1>2. TypeOK'
  BY <1>1 DEF TxInv, TypeOK, counters
<1>3. \A t \in Sessions : Sound(t, tx[t])'
  BY <1>1 DEF TxInv, Sound, RowsHeld, RowsCover, OrdersPlaced, Needs, VariantsOf, counters
<1> QED
  BY <1>2, <1>3 DEF TxInv

LEMMA TxInit == Init => TxInv /\ NeverOversold
<1> SUFFICES ASSUME Init
             PROVE  TxInv /\ NeverOversold
  OBVIOUS
<1>1. TypeOK
  BY IdleType, CartType, StockAssumption DEF Init, TypeOK, Transaction
<1>2. \A s \in Sessions : Sound(s, tx[s])
  BY IdleSound DEF Init
<1>3. ASSUME NEW v \in Variants
      PROVE  stock[v] + Qty(items, Completed, v) <= InitialStock[v]
  <2>1. Completed = {}
    BY DEF Init, Completed, Having
  <2>2. Qty(items, Completed, v) = 0
    BY <2>1, QtyEmpty
  <2> QED
    BY <2>2, StockAssumption DEF Init
<1> QED
  BY <1>1, <1>2, <1>3 DEF TxInv, NeverOversold

LEMMA TxStep == TxInv /\ [Next]_vars => TxInv'
<1> SUFFICES ASSUME TxInv, [Next]_vars
             PROVE  TxInv'
  OBVIOUS
<1>1. ASSUME NEW s \in Sessions, CheckoutStep(s)
      PROVE  TxInv'
  BY <1>1, BeginKeepsInv, PicksKeepsInv, AcquireKeepsInv, CommitKeepsInv, RollbackKeepsInv
     DEF CheckoutStep
<1>2. ASSUME NEW s \in Sessions, RetryStep(s)
      PROVE  TxInv'
  BY <1>2, BeginKeepsInv, RetryKeepsInv DEF RetryStep
<1> QED
  BY <1>1, <1>2, HourKeepsInv DEF Next, CheckoutNext

-----------------------------------------------------------------------------
(* Whatever is no commit leaves the counters alone.                         *)
LEMMA OnlyCommitsCount ==
    ASSUME [Next]_vars, \A s \in Sessions : ~Commit(s)
    PROVE  UNCHANGED counters
<1>1. ASSUME NEW s \in Sessions, CheckoutStep(s)
      PROVE  UNCHANGED counters
  BY <1>1 DEF CheckoutStep, BeginCreate, BeginCancel, BeginConfirm, Picks, PickOrder,
              NoOrderToPay, BeginExpire, Acquire, Reject, DeadlockVictim, Crash,
              LocksNext, Goes, rows
<1>2. ASSUME NEW s \in Sessions, RetryStep(s)
      PROVE  UNCHANGED counters
  BY <1>2 DEF RetryStep, BeginRetry, SaveRetriedPayment, SaveRetriedOrder, Goes, rows
<1> QED
  BY <1>1, <1>2 DEF Next, CheckoutNext, HourPasses, vars, rows

LEMMA CommitsAreExact ==
    ASSUME TxInv, NEW s \in Sessions, Commit(s), NEW v \in Variants
    PROVE  /\ reserved'[v] = reserved[v] - Taken(s, v)
           /\ stock'[v] = stock[v] - Sold(s, v)
<1>1. SavesVariants(s)
  BY DEF Commit, CommitCreate, CommitSettle
<1> QED
  BY <1>1, SavesVariantsType

(* Orders that were completed stay what they were, and nothing is sold.     *)
LEMMA NothingSold ==
    ASSUME TypeOK, NeverOversold, stock' = stock, Completed' \subseteq Completed,
           \A o \in Completed : items'[o] = items[o]
    PROVE  NeverOversold'
<1> SUFFICES ASSUME NEW v \in Variants
             PROVE  stock'[v] + Qty(items', Completed', v) <= InitialStock[v]
  BY DEF NeverOversold
<1>1. IsFiniteSet(Completed)
  BY OrdersAssumption, FS_Subset DEF Completed, Having
<1>2. IsFiniteSet(Completed')
  BY <1>1, FS_Subset
<1>3. Qty(items', Completed', v) = Qty(items, Completed', v)
  BY QtySame
<1>4. Qty(items, Completed', v) <= Qty(items, Completed, v)
  BY <1>1, QtyMonotone
<1>5. /\ Qty(items, Completed', v) \in Nat /\ Qty(items, Completed, v) \in Nat
      /\ stock[v] \in Nat /\ InitialStock[v] \in Nat
  BY <1>1, <1>2, QtyType, StockAssumption DEF TypeOK
<1> QED
  BY <1>3, <1>4, <1>5 DEF NeverOversold

(* A confirmed payment takes off the shelf what its order adds to the       *)
(* completed ones, or more if the order was completed before.               *)
LEMMA SaleIsCovered ==
    ASSUME TxInv, NeverOversold, NEW s \in Sessions,
           CommitSettle(s, "pay", "COMPLETED", All("PAID"), "SUCCESSFUL")
    PROVE  NeverOversold'
<1> DEFINE S == tx[s].orders
<1>1. S \in SUBSET Orders /\ TypeOK
  BY DEF TxInv, TypeOK
<1>2. items' = items /\ Completed' = Completed \cup S
  BY <1>1 DEF CommitSettle, Completed, Having, TypeOK
<1> SUFFICES ASSUME NEW v \in Variants
             PROVE  stock'[v] + Qty(items, Completed \cup S, v) <= InitialStock[v]
  BY <1>2 DEF NeverOversold
<1>3. stock'[v] = stock[v] - Qty(items, S, v)
  <2>1. SavesVariants(s) /\ tx[s].op = "pay"
    BY DEF CommitSettle
  <2> QED
    BY <2>1, SavesVariantsType DEF Sold, Taken
<1>4. IsFiniteSet(Completed) /\ IsFiniteSet(S) /\ IsFiniteSet(S \ Completed)
  BY <1>1, OrdersAssumption, FS_Subset DEF Completed, Having
<1>5. Qty(items, Completed \cup (S \ Completed), v)
        = Qty(items, Completed, v) + Qty(items, S \ Completed, v)
  BY <1>4, QtyDisjoint
<1>6. Completed \cup (S \ Completed) = Completed \cup S
  OBVIOUS
<1>7. Qty(items, S \ Completed, v) <= Qty(items, S, v)
  BY <1>4, QtyMonotone
<1>8. /\ Qty(items, S, v) \in Nat /\ Qty(items, Completed, v) \in Nat
      /\ Qty(items, S \ Completed, v) \in Nat
      /\ stock[v] \in Nat /\ InitialStock[v] \in Nat
  BY <1>1, <1>4, QtyType, StockAssumption DEF TypeOK
<1>9. Qty(items, Completed \cup S, v) = Qty(items, Completed, v) + Qty(items, S \ Completed, v)
  BY <1>5, <1>6
<1>10. stock[v] + Qty(items, Completed, v) <= InitialStock[v]
  BY DEF NeverOversold
<1> HIDE DEF S
<1> QED
  BY <1>3, <1>7, <1>8, <1>9, <1>10

LEMMA OversoldStep == TxInv /\ NeverOversold /\ [Next]_vars => NeverOversold'
<1> SUFFICES ASSUME TxInv, NeverOversold, [Next]_vars
             PROVE  NeverOversold'
  OBVIOUS
<1> USE DEF TxInv
<1>1. ASSUME NEW s \in Sessions, Commit(s)
      PROVE  NeverOversold'
  <2>1. ASSUME tx[s].op # "pay"
        PROVE  stock' = stock
    <3>1. \A v \in Variants : stock'[v] = stock[v] - 0
      BY <1>1, <2>1, CommitsAreExact DEF Sold
    <3>2. stock' \in [Variants -> Nat] /\ stock \in [Variants -> Nat]
      BY <1>1, SavesVariantsType DEF Commit, CommitCreate, CommitSettle, TypeOK
    <3> QED
      BY <3>1, <3>2
  <2>2. ASSUME NEW o \in Orders, CommitCreate(s, o)
        PROVE  NeverOversold'
    BY <2>1, <2>2, NothingSold DEF CommitCreate, Completed, Having, TypeOK
  <2>3. ASSUME NEW op, op # "pay", NEW st, st # "COMPLETED", NEW pd, NEW pay,
               CommitSettle(s, op, st, pd, pay)
        PROVE  NeverOversold'
    BY <2>1, <2>3, NothingSold DEF CommitSettle, Completed, Having, TypeOK
  <2> QED
    BY <1>1, <2>2, <2>3, SaleIsCovered DEF Commit
<1>2. ASSUME \A s \in Sessions : ~Commit(s)
      PROVE  NeverOversold'
  <2>1. stock' = stock
    BY <1>2, OnlyCommitsCount DEF counters
  <2>2. items' = items /\ Completed' \subseteq Completed
    <3>1. ASSUME NEW s \in Sessions, CheckoutStep(s)
          PROVE  items' = items /\ status' = status
      BY <1>2, <3>1 DEF CheckoutStep, BeginCreate, BeginCancel, BeginConfirm, Picks,
              PickOrder, NoOrderToPay, BeginExpire, Acquire, Reject, DeadlockVictim, Crash,
              LocksNext, Goes, rows, orderRow
    <3>2. ASSUME NEW s \in Sessions, RetryStep(s)
          PROVE  /\ items' = items
                 /\ status' = status \/ \E S : status' = [o \in Orders |->
                                          IF o \in S THEN "PENDING" ELSE status[o]]
      BY <3>2 DEF RetryStep, BeginRetry, SaveRetriedPayment, SaveRetriedOrder, Goes, rows,
                  orderRow
    <3>3. ASSUME (\E o \in Orders : HourPasses(o)) \/ UNCHANGED vars
          PROVE  items' = items /\ status' = status
      BY <3>3 DEF HourPasses, vars, rows, orderRow
    <3> QED
      BY <3>1, <3>2, <3>3 DEF Next, CheckoutNext, Completed, Having
  <2> QED
    BY <2>1, <2>2, NothingSold
<1> QED
  BY <1>1, <1>2

-----------------------------------------------------------------------------
(* Rows and sessions stay well typed: no counter falls below zero, because  *)
(* the CHECK constraints of product_variants are asked at every commit.     *)
THEOREM TxTypeCorrect == Spec => []TypeOK
<1>1. TxInv => TypeOK
  BY DEF TxInv
<1> QED
  BY TxInit, TxStep, <1>1, PTL DEF Spec

(* No handler's change of a counter is lost: SELECT ... FOR UPDATE keeps    *)
(* what a session has read true until it writes (order.service.ts:67), and  *)
(* each handler reads every row that it writes.                             *)
THEOREM NoUpdateIsLost == Spec => NoLostUpdate
<1>1. TxInv /\ [Next]_vars
        => [/\ counters' # counters => \E s \in Sessions : Commit(s)
            /\ \A s \in Sessions : Commit(s) =>
                 \A v \in Variants : /\ reserved'[v] = reserved[v] - Taken(s, v)
                                     /\ stock'[v] = stock[v] - Sold(s, v)]_vars
  BY OnlyCommitsCount, CommitsAreExact
<1> QED
  BY TxInit, TxStep, <1>1, PTL DEF Spec, NoLostUpdate

(* However confirmations, cancellations, expiries and retries of an order   *)
(* race, no pair of shoes is sold that was never in stock: each confirmed   *)
(* payment takes its order off the shelf (payment.service.ts:144).          *)
THEOREM RacesNeverOversell == Spec => []NeverOversold
BY TxInit, TxStep, OversoldStep, PTL DEF Spec
=============================================================================
