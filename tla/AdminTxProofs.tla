---------------------------- MODULE AdminTxProofs ----------------------------
(***************************************************************************)
(* What holds of the sessions of OrderTx, and of the edits of AdminTx      *)
(* between their statements, as long as no two handlers settle the same    *)
(* order at once and an edit compares with what it has read: the ledger    *)
(* stays exact, and the row locks implement Reservations.                  *)
(***************************************************************************)
EXTENDS AdminTx, OrderTxProofs

(* A handler that settles orders has found them pending, and with nobody    *)
(* else at them they still are.                                             *)
Settles(e) ==
    e.op \in {"cancel", "pay", "fail", "expire"} =>
        /\ e.orders # {} /\ e.orders \subseteq Pending
        /\ e.op = "pay" => \E o \in Orders : e.orders = {o}

SettleInv == \A s \in Sessions : Settles(tx[s])

ReservedInStock == \A v \in Variants : reserved[v] <= stock[v]

(* The inductive invariant of the sessions.  LedgerExact needs that what a  *)
(* commit takes off was held until then; that a new order fits needs        *)
(* ReservedInStock.                                                         *)
ApartInv == TxInv /\ Apart /\ SettleInv /\ ReservedInStock /\ LedgerExact

(* That of the edits: the administrator gives a stock or nothing.           *)
EditInv ==
    /\ edit \in [Admins -> Edit \cup {ToCome, Done}]
    /\ \A a \in Admins :
          /\ edit[a].step = "read" => edit[a].columns \subseteq {"stock"}
          /\ edit[a].step = "saving" => edit[a].columns = {"stock"}

AdminInv == ApartInv /\ EditInv

-----------------------------------------------------------------------------
(* Sessions.                                                                *)
LEMMA OrderTotals ==
    ASSUME NEW S \in SUBSET Orders, NEW v
    PROVE  IsFiniteSet(S) /\ Qty(items, S, v) \in Nat
BY OrdersAssumption, FS_Subset, QtyType

(* One session goes on as d, and no order changes.                          *)
LEMMA OneGoesOn ==
    ASSUME TxInv, SettleInv, NEW s \in Sessions, NEW d, tx' = [tx EXCEPT ![s] = d],
           status' = status, Settles(d)
    PROVE  SettleInv'
<1>1. ASSUME NEW t \in Sessions
      PROVE  tx'[t] = d \/ (tx'[t] = tx[t] /\ Settles(tx[t]))
  BY DEF TxInv, TypeOK, SettleInv
<1>2. Pending' = Pending
  BY DEF Pending, Having
<1> QED
  BY <1>1, <1>2 DEF SettleInv, Settles

LEMMA LocksNextSettles ==
    ASSUME TxInv, SettleInv, NEW s \in Sessions, NEW e \in Transaction, NEW V,
           LocksNext(s, e, V), Settles(e)
    PROVE  SettleInv'
<1>1. PICK v \in V :
         Goes(s, [e EXCEPT !.step = "locking", !.want = v, !.todo = V \ {v}])
  BY DEF LocksNext
<1>2. PICK d : d = [e EXCEPT !.step = "locking", !.want = v, !.todo = V \ {v}]
  OBVIOUS
<1>3. d.op = e.op /\ d.orders = e.orders
  BY <1>2 DEF Transaction
<1>4. tx' = [tx EXCEPT ![s] = d] /\ status' = status
  BY <1>1, <1>2 DEF Goes, rows, orderRow
<1> QED
  BY <1>3, <1>4, OneGoesOn DEF Settles

(* What a handler takes up to settle it has just found pending.             *)
LEMMA BeginSettles ==
    ASSUME TxInv, SettleInv, NEW s \in Sessions,
           \/ \E u \in Users, cart \in Cart : BeginCreate(s, u, cart)
           \/ \E u \in Users, o \in Orders : BeginCancel(s, u, o)
           \/ \E p \in Orders : BeginConfirm(s, p)
           \/ BeginExpire(s)
    PROVE  SettleInv'
<1>1. ASSUME NEW u \in Users, NEW cart \in Cart, BeginCreate(s, u, cart)
      PROVE  SettleInv'
  <2>1. PICK e : e = [Idle EXCEPT !.op = "create", !.user = u, !.cart = cart]
    OBVIOUS
  <2>2. e \in Transaction /\ e.op = "create"
    BY <2>1, IdleType DEF Transaction, Handlers
  <2>3. LocksNext(s, e, {v \in Variants : cart[v] > 0})
    BY <1>1, <2>1 DEF BeginCreate
  <2> QED
    BY <2>2, <2>3, LocksNextSettles DEF Settles
<1>2. ASSUME NEW u \in Users, NEW o \in Orders, BeginCancel(s, u, o)
      PROVE  SettleInv'
  <2>1. PICK e : e = [Idle EXCEPT !.op = "cancel", !.orders = {o}, !.pays = {o}]
    OBVIOUS
  <2>2. e \in Transaction /\ e.op = "cancel" /\ e.orders = {o}
    BY <2>1, IdleType DEF Transaction, Handlers
  <2>3. LocksNext(s, e, VariantsOf({o})) /\ o \in Pending
    BY <1>2, <2>1 DEF BeginCancel, Live
  <2> QED
    BY <2>2, <2>3, LocksNextSettles DEF Settles
<1>3. ASSUME NEW p \in Orders, BeginConfirm(s, p)
      PROVE  SettleInv'
  <2>1. PICK e : e = [Idle EXCEPT !.step = "picking", !.pays = {p}]
    OBVIOUS
  <2>2. e.op = "none"
    BY <2>1 DEF Idle
  <2>3. tx' = [tx EXCEPT ![s] = e] /\ status' = status
    BY <1>3, <2>1 DEF BeginConfirm, Goes, rows, orderRow
  <2> QED
    BY <2>2, <2>3, OneGoesOn DEF Settles
<1>4. CASE BeginExpire(s)
  <2>1. PICK e : e = [Idle EXCEPT !.op = "expire", !.orders = Overdue, !.pays = Overdue,
                                  !.paid = paid]
    OBVIOUS
  <2>2. /\ e \in Transaction /\ e.op = "expire" /\ e.orders = Overdue
    BY <2>1, IdleType DEF Transaction, Handlers, Overdue, Pending, Having, TxInv, TypeOK
  <2>3. LocksNext(s, e, VariantsOf(Overdue)) /\ Overdue # {}
    BY <1>4, <2>1 DEF BeginExpire
  <2> QED
    BY <2>2, <2>3, LocksNextSettles DEF Settles, Overdue
<1> QED
  BY <1>1, <1>2, <1>3, <1>4

LEMMA PicksSettles ==
    ASSUME TxInv, SettleInv, NEW s \in Sessions, Picks(s)
    PROVE  SettleInv'
<1>1. ASSUME NEW o \in Orders, NEW result \in {"pay", "fail"}, PickOrder(s, o, result)
      PROVE  SettleInv'
  <2>1. PICK e : e = [tx[s] EXCEPT !.op = result, !.orders = {o}]
    OBVIOUS
  <2>2. tx[s] \in Transaction
    BY DEF TxInv, TypeOK, Transaction
  <2>3. e \in Transaction /\ e.orders = {o}
    BY <2>1, <2>2 DEF Transaction, Handlers
  <2>4. LocksNext(s, e, VariantsOf({o})) /\ o \in Pending
    BY <1>1, <2>1 DEF PickOrder, Live
  <2> QED
    BY <2>3, <2>4, LocksNextSettles DEF Settles
<1>2. CASE NoOrderToPay(s)
  <2>1. tx' = [tx EXCEPT ![s] = Idle] /\ status' = status
    BY <1>2 DEF NoOrderToPay, Goes, rows, orderRow
  <2>2. Idle.op = "none"
    BY DEF Idle
  <2> QED
    BY <2>1, <2>2, OneGoesOn DEF Settles
<1> QED
  BY <1>1, <1>2 DEF Picks

LEMMA AcquireSettles ==
    ASSUME TxInv, SettleInv, NEW s \in Sessions, Acquire(s)
    PROVE  SettleInv'
<1>1. PICK v : v = tx[s].want
  OBVIOUS
<1>2. /\ TypeOK /\ tx[s] \in Transaction /\ v \in Variants /\ status' = status
  BY <1>1 DEF Acquire, TxInv, TypeOK, Transaction, Sound, RowsCover, rows, orderRow
<1>3. PICK read : read = WithRow(tx[s], v)
  OBVIOUS
<1>4. read \in Transaction /\ read.op = tx[s].op /\ read.orders = tx[s].orders
  BY <1>2, <1>3, WithRowFields
<1>5. \/ tx' = [tx EXCEPT ![s] = [read EXCEPT !.step = "writing", !.want = NoVariant]]
      \/ \E w \in tx[s].todo :
            tx' = [tx EXCEPT ![s] = [read EXCEPT !.want = w, !.todo = @ \ {w}]]
  BY <1>1, <1>3 DEF Acquire, ReadsRow, WithRow
<1>6. PICK d : d.op = read.op /\ d.orders = read.orders /\ tx' = [tx EXCEPT ![s] = d]
  <2>1. CASE tx' = [tx EXCEPT ![s] = [read EXCEPT !.step = "writing", !.want = NoVariant]]
    <3>1. PICK d : d = [read EXCEPT !.step = "writing", !.want = NoVariant]
      OBVIOUS
    <3>2. d.op = read.op /\ d.orders = read.orders
      BY <1>4, <3>1 DEF Transaction
    <3> QED
      BY <2>1, <3>1, <3>2, Zenon
  <2>2. ASSUME NEW w, tx' = [tx EXCEPT ![s] = [read EXCEPT !.want = w, !.todo = @ \ {w}]]
        PROVE  \E d : d.op = read.op /\ d.orders = read.orders
                        /\ tx' = [tx EXCEPT ![s] = d]
    <3>1. PICK d : d = [read EXCEPT !.want = w, !.todo = @ \ {w}]
      OBVIOUS
    <3>2. d.op = read.op /\ d.orders = read.orders
      BY <1>4, <3>1 DEF Transaction
    <3> QED
      BY <2>2, <3>1, <3>2, Zenon
  <2> QED
    BY <1>5, <2>1, <2>2, Zenon
<1>7. Settles(d)
  BY <1>4, <1>6 DEF SettleInv, Settles
<1> QED
  BY <1>2, <1>6, <1>7, OneGoesOn

(* A session that ends without a commit.                                    *)
LEMMA RollbackSettles ==
    ASSUME TxInv, SettleInv, NEW s \in Sessions,
           Reject(s) \/ DeadlockVictim(s) \/ Crash(s)
    PROVE  SettleInv'
<1>1. tx' = [tx EXCEPT ![s] = Idle] /\ status' = status
  BY DEF Reject, DeadlockVictim, Crash, Ends, rows, orderRow
<1>2. Idle.op = "none"
  BY DEF Idle
<1> QED
  BY <1>1, <1>2, OneGoesOn DEF Settles

-----------------------------------------------------------------------------
(* Commits.                                                                 *)

(* What a commit of cancelOrder, confirmPayment or the worker moves.        *)
LEMMA SettleMoves ==
    ASSUME ApartInv, NEW s \in Sessions, NEW op \in {"cancel", "pay", "fail", "expire"},
           NEW st \in {"COMPLETED", "CANCELLED", "EXPIRED"}, NEW pd, NEW pay,
           CommitSettle(s, op, st, pd, pay)
    PROVE  /\ tx[s].orders \in SUBSET Pending /\ tx[s].orders # {} /\ tx[s].op = op
           /\ Pending' = Pending \ tx[s].orders /\ items' = items
           /\ status' = [o \in Orders |-> IF o \in tx[s].orders THEN st ELSE status[o]]
           /\ stock' \in [Variants -> Nat]
           /\ \A v \in Variants :
                /\ reserved'[v] = reserved[v] - Qty(items, tx[s].orders, v)
                /\ op = "pay" => stock'[v] = stock[v] - Qty(items, tx[s].orders, v)
                /\ op # "pay" => stock'[v] = stock[v]
                /\ reserved'[v] <= stock'[v]
<1>1. /\ tx[s].op = op /\ items' = items /\ SavesVariants(s)
      /\ status' = [o \in Orders |-> IF o \in tx[s].orders THEN st ELSE status[o]]
  BY DEF CommitSettle
<1>2. tx[s].orders \in SUBSET Pending /\ tx[s].orders # {}
  BY <1>1 DEF ApartInv, SettleInv, Settles
<1>3. Pending' = Pending \ tx[s].orders
  BY <1>1 DEF Pending, Having
<1>4. stock \in [Variants -> Nat]
  BY DEF ApartInv, TxInv, TypeOK
<1>5. /\ stock' \in [Variants -> Nat]
      /\ \A v \in Variants : /\ stock'[v] = stock[v] - Sold(s, v)
                             /\ reserved'[v] = reserved[v] - Taken(s, v)
  BY <1>1, SavesVariantsType DEF ApartInv
<1>6. \A v \in Variants : reserved'[v] <= stock'[v]
  BY <1>1 DEF SavesVariants, Accepted, ChecksHold
<1>7. ASSUME NEW v \in Variants
      PROVE  /\ reserved'[v] = reserved[v] - Qty(items, tx[s].orders, v)
             /\ op = "pay" => stock'[v] = stock[v] - Qty(items, tx[s].orders, v)
             /\ op # "pay" => stock'[v] = stock[v]
  BY <1>1, <1>4, <1>5 DEF Sold, Taken
<1> QED
  BY <1>1, <1>2, <1>3, <1>5, <1>6, <1>7

LEMMA SettleKeepsApart ==
    ASSUME ApartInv, NEW s \in Sessions, NEW op \in {"cancel", "pay", "fail", "expire"},
           NEW st \in {"COMPLETED", "CANCELLED", "EXPIRED"}, NEW pd, NEW pay,
           CommitSettle(s, op, st, pd, pay)
    PROVE  SettleInv' /\ ReservedInStock' /\ LedgerExact'
<1>1. PICK S : S = tx[s].orders
  OBVIOUS
<1>2. /\ S \in SUBSET Pending /\ Pending' = Pending \ S /\ items' = items
      /\ \A v \in Variants : /\ reserved'[v] = reserved[v] - Qty(items, S, v)
                             /\ reserved'[v] <= stock'[v]
  BY <1>1, SettleMoves
<1>3. ReservedInStock'
  BY <1>2 DEF ReservedInStock
<1>4. LedgerExact'
  <2> SUFFICES ASSUME NEW v \in Variants
               PROVE  reserved'[v] = Qty(items, Pending \ S, v)
    BY <1>2, Zenon DEF LedgerExact
  <2>1. IsFiniteSet(Pending)
    BY OrderTotals DEF Pending, Having
  <2>2. Qty(items, Pending \ S, v) = Qty(items, Pending, v) - Qty(items, S, v)
    BY <1>2, <2>1, QtyRemove
  <2>3. reserved[v] = Qty(items, Pending, v)
    BY DEF ApartInv, LedgerExact
  <2> QED
    BY <1>2, <2>2, <2>3
<1>5. ASSUME NEW t \in Sessions
      PROVE  Settles(tx[t])'
  <2>1. tx' = [tx EXCEPT ![s] = Idle] /\ Idle.op = "none"
    BY DEF CommitSettle, Ends, Idle
  <2>2. CASE t = s
    <3>1. tx'[t].op = "none"
      BY <2>1, <2>2 DEF ApartInv, TxInv, TypeOK
    <3> QED
      BY <3>1 DEF Settles
  <2>3. CASE t # s
    <3>1. tx'[t] = tx[t] /\ tx[t].orders \cap S = {}
      BY <1>1, <2>1, <2>3 DEF ApartInv, TxInv, TypeOK, Apart
    <3> QED
      BY <1>2, <3>1 DEF ApartInv, SettleInv, Settles
  <2> QED
    BY <2>2, <2>3
<1> QED
  BY <1>3, <1>4, <1>5 DEF SettleInv

(* What a commit of createOrder moves.                                      *)
LEMMA CreateMoves ==
    ASSUME ApartInv, NEW s \in Sessions, NEW o \in Orders, CommitCreate(s, o)
    PROVE  /\ tx[s].cart \in Cart /\ status[o] = "NONE" /\ o \notin Pending
           /\ status' = [status EXCEPT ![o] = "PENDING"] /\ Pending' = Pending \cup {o}
           /\ items' = [items EXCEPT ![o] = tx[s].cart] /\ stock' = stock
           /\ \A v \in Variants :
                /\ tx[s].cart[v] \in 0..MaxQty
                /\ reserved'[v] = reserved[v] + tx[s].cart[v]
                /\ reserved'[v] <= stock'[v]
                /\ tx[s].cart[v] <= stock[v] - reserved[v]
<1>1. /\ tx[s].op = "create" /\ status[o] = "NONE" /\ SavesVariants(s)
      /\ status' = [status EXCEPT ![o] = "PENDING"]
      /\ items' = [items EXCEPT ![o] = tx[s].cart]
  BY DEF CommitCreate
<1>2. TypeOK /\ tx[s].cart \in Cart
  BY DEF ApartInv, TxInv, TypeOK
<1>3. o \notin Pending /\ Pending' = Pending \cup {o}
  BY <1>1, <1>2 DEF Pending, Having, TypeOK
<1>4. /\ stock' \in [Variants -> Nat] /\ stock \in [Variants -> Nat]
      /\ \A v \in Variants : /\ stock'[v] = stock[v] - Sold(s, v)
                             /\ reserved'[v] = reserved[v] - Taken(s, v)
  BY <1>1, <1>2, SavesVariantsType DEF ApartInv, TypeOK
<1>5. \A v \in Variants : reserved'[v] <= stock'[v]
  BY <1>1 DEF SavesVariants, Accepted, ChecksHold
<1>6. ASSUME NEW v \in Variants
      PROVE  /\ tx[s].cart[v] \in 0..MaxQty
             /\ reserved'[v] = reserved[v] + tx[s].cart[v]
             /\ stock'[v] = stock[v]
             /\ tx[s].cart[v] <= stock[v] - reserved[v]
  <2>1. tx[s].cart[v] \in 0..MaxQty /\ tx[s].cart[v] \in Nat
    BY <1>2, MaxQtyAssumption DEF Cart
  <2>2. stock[v] \in Nat /\ reserved[v] \in Nat
    BY <1>2 DEF TypeOK
  <2>3. reserved'[v] = reserved[v] + tx[s].cart[v] /\ stock'[v] = stock[v]
    BY <1>1, <1>4, <2>1, <2>2 DEF Taken, Sold
  <2> QED
    BY <1>5, <2>1, <2>2, <2>3
<1>7. stock' = stock
  BY <1>4, <1>6
<1> QED
  BY <1>1, <1>2, <1>3, <1>5, <1>6, <1>7

LEMMA CreateKeepsApart ==
    ASSUME ApartInv, NEW s \in Sessions, NEW o \in Orders, CommitCreate(s, o)
    PROVE  SettleInv' /\ ReservedInStock' /\ LedgerExact'
<1>1. PICK cart : cart = tx[s].cart
  OBVIOUS
<1>2. /\ o \notin Pending /\ Pending' = Pending \cup {o}
      /\ items' = [items EXCEPT ![o] = cart]
      /\ \A v \in Variants : /\ cart[v] \in 0..MaxQty
                             /\ reserved'[v] = reserved[v] + cart[v]
                             /\ reserved'[v] <= stock'[v]
  BY <1>1, CreateMoves
<1>3. ReservedInStock'
  BY <1>2 DEF ReservedInStock
<1>4. LedgerExact'
  <2> SUFFICES ASSUME NEW v \in Variants
               PROVE  reserved'[v] = Qty(items', Pending \cup {o}, v)
    BY <1>2, Zenon DEF LedgerExact
  <2>1. IsFiniteSet(Pending) /\ IsFiniteSet({o}) /\ Pending \cap {o} = {}
    BY <1>2, OrderTotals, FS_Singleton DEF Pending, Having
  <2>2. Qty(items', Pending \cup {o}, v) = Qty(items', Pending, v) + Qty(items', {o}, v)
    BY <2>1, QtyDisjoint
  <2>3. \A p \in Pending : items'[p][v] = items[p][v]
    BY <1>2 DEF Pending, Having, ApartInv, TxInv, TypeOK
  <2>4. ASSUME NEW it, \A p \in Pending : it[p][v] = items[p][v]
        PROVE  Qty(it, Pending, v) = Qty(items, Pending, v)
    BY <2>4, QtySame
  <2>5. Qty(items', Pending, v) = Qty(items, Pending, v)
    BY <2>3, <2>4, Zenon
  <2>6. cart[v] \in 0..MaxQty
    BY <1>2
  <2>7. items'[o][v] = cart[v]
    BY <1>2 DEF ApartInv, TxInv, TypeOK
  <2>8. ASSUME NEW it, it[o][v] = cart[v]
        PROVE  Qty(it, {o}, v) = cart[v]
    BY <2>6, <2>8, QtyOne
  <2>9. Qty(items', {o}, v) = cart[v]
    BY <2>7, <2>8, Zenon
  <2>10. reserved[v] = Qty(items, Pending, v)
    BY DEF ApartInv, LedgerExact
  <2> QED
    BY <1>2, <2>2, <2>5, <2>9, <2>10
<1>5. ASSUME NEW t \in Sessions
      PROVE  Settles(tx[t])'
  <2>1. tx' = [tx EXCEPT ![s] = Idle] /\ Idle.op = "none"
    BY DEF CommitCreate, Ends, Idle
  <2>2. tx'[t].op = "none" \/ tx'[t] = tx[t]
    BY <2>1 DEF ApartInv, TxInv, TypeOK
  <2> QED
    BY <1>2, <2>2 DEF ApartInv, SettleInv, Settles
<1> QED
  BY <1>3, <1>4, <1>5 DEF SettleInv

(* Whatever is no commit leaves orders, items and counters alone.           *)
LEMMA OnlyCommitsMove ==
    ASSUME CheckoutNext, \A s \in Sessions : ~Commit(s)
    PROVE  UNCHANGED <<counters, status, items>>
<1>1. ASSUME NEW s \in Sessions, CheckoutStep(s)
      PROVE  UNCHANGED <<counters, status, items>>
  BY <1>1 DEF CheckoutStep, BeginCreate, BeginCancel, BeginConfirm, Picks, PickOrder,
              NoOrderToPay, BeginExpire, Acquire, Reject, DeadlockVictim, Crash,
              LocksNext, Goes, rows, orderRow
<1>2. ASSUME NEW o \in Orders, HourPasses(o)
      PROVE  UNCHANGED <<counters, status, items>>
  BY <1>2 DEF HourPasses
<1> QED
  BY <1>1, <1>2 DEF CheckoutNext

LEMMA SameBooks ==
    ASSUME ReservedInStock, LedgerExact, UNCHANGED <<counters, status, items>>
    PROVE  ReservedInStock' /\ LedgerExact'
<1>1. Pending' = Pending /\ items' = items /\ stock' = stock /\ reserved' = reserved
  BY DEF Pending, Having, counters
<1>2. LedgerExact'
  BY <1>1, Zenon DEF LedgerExact
<1> QED
  BY <1>1, <1>2 DEF ReservedInStock

LEMMA ApartStep ==
    ASSUME ApartInv, CheckoutNext, Apart'
    PROVE  ApartInv'
<1>1. TxInv'
  BY TxStep DEF ApartInv, Next
<1>2. ASSUME NEW s \in Sessions, Commit(s)
      PROVE  SettleInv' /\ ReservedInStock' /\ LedgerExact'
  BY <1>2, SettleKeepsApart, CreateKeepsApart DEF Commit
<1>3. ASSUME \A s \in Sessions : ~Commit(s)
      PROVE  ReservedInStock' /\ LedgerExact'
  BY <1>3, OnlyCommitsMove, SameBooks DEF ApartInv
<1>4. ASSUME NEW s \in Sessions, CheckoutStep(s), ~Commit(s)
      PROVE  SettleInv'
  BY <1>4, BeginSettles, PicksSettles, AcquireSettles, RollbackSettles
     DEF CheckoutStep, ApartInv
<1>5. ASSUME NEW o \in Orders, HourPasses(o)
      PROVE  SettleInv'
  BY <1>5 DEF HourPasses, ApartInv, SettleInv, Settles, Pending, Having
<1>6. SettleInv'
  BY <1>2, <1>4, <1>5 DEF CheckoutNext
<1> QED
  BY <1>1, <1>2, <1>3, <1>6 DEF ApartInv

-----------------------------------------------------------------------------
(* Edits.                                                                   *)

(* A request goes on as e and writes nothing.                               *)
LEMMA EditsKeepInv ==
    ASSUME AdminInv, NEW a \in Admins, NEW e \in Edit \cup {ToCome, Done}, Edits(a, e),
           e.step = "read" => e.columns \subseteq {"stock"},
           e.step = "saving" => e.columns = {"stock"}
    PROVE  AdminInv'
<1>1. EditInv'
  <2>1. edit' \in [Admins -> Edit \cup {ToCome, Done}]
    BY DEF Edits, AdminInv, EditInv
  <2>2. ASSUME NEW b \in Admins
        PROVE  edit'[b] = e \/ edit'[b] = edit[b]
    BY DEF Edits, AdminInv, EditInv
  <2> QED
    BY <2>1, <2>2 DEF AdminInv, EditInv
<1>2. ApartInv'
  <2>1. UNCHANGED vars
    BY DEF Edits
  <2>2. TxInv'
    BY <2>1, TxStep DEF AdminInv, ApartInv
  <2>3. UNCHANGED <<counters, status, items>> /\ tx' = tx
    BY <2>1 DEF vars, rows, orderRow
  <2>4. ReservedInStock' /\ LedgerExact'
    BY <2>3, SameBooks DEF AdminInv, ApartInv
  <2>5. Apart' /\ SettleInv'
    BY <2>3 DEF AdminInv, ApartInv, Apart, SettleInv, Settles, Pending, Having
  <2> QED
    BY <2>2, <2>4, <2>5 DEF ApartInv
<1> QED
  BY <1>1, <1>2 DEF AdminInv

LEMMA FindKeepsInv ==
    ASSUME AdminInv, NEW a \in Admins, NEW v \in Variants, FindById(a, v)
    PROVE  AdminInv'
<1>1. PICK e : e = Loaded(v)
  OBVIOUS
<1>2. stock[v] \in Nat /\ reserved[v] \in Nat
  BY DEF AdminInv, ApartInv, TxInv, TypeOK
<1>3. e \in Edit /\ e.step = "read" /\ e.columns = {}
  BY <1>1, <1>2 DEF Loaded, Edit
<1>4. CASE Edits(a, e)
  BY <1>3, <1>4, EditsKeepInv
<1>5. ASSUME NEW n \in StockLevels,
             Edits(a, [e EXCEPT !.stock = n, !.columns = {"stock"}])
      PROVE  AdminInv'
  <2>1. PICK d : d = [e EXCEPT !.stock = n, !.columns = {"stock"}]
    OBVIOUS
  <2>2. d \in Edit /\ d.step = "read" /\ d.columns = {"stock"}
    BY <1>3, <2>1, AdminAssumption DEF Edit
  <2> QED
    BY <1>5, <2>1, <2>2, EditsKeepInv
<1> QED
  BY <1>1, <1>4, <1>5 DEF FindById

(* A request under way has a row in memory.                                 *)
LEMMA InFlightType ==
    ASSUME EditInv, NEW a \in Admins, InFlight(a)
    PROVE  edit[a] \in Edit
<1>1. edit[a] \in Edit \cup {ToCome, Done}
  BY DEF EditInv
<1>2. ToCome.step = "to come" /\ Done.step = "done"
  BY DEF ToCome, Done
<1> QED
  BY <1>1, <1>2 DEF InFlight

(* The object differs from the row in nothing but what the administrator    *)
(* gave, so nothing else is going to be written.                            *)
LEMMA CompareKeepsInv ==
    ASSUME AdminInv, NEW a \in Admins, Current(edit[a]), Compare(a)
    PROVE  AdminInv'
<1>1. PICK e : e = edit[a]
  OBVIOUS
<1>2. /\ e \in Edit /\ e.step = "read"
      /\ Differs(e) \subseteq {"stock"}
  BY <1>1, InFlightType DEF Current, InFlight, AdminInv, EditInv
<1>3. CASE Edits(a, Done)
  BY <1>3, EditsKeepInv DEF Done
<1>4. CASE /\ Differs(e) # {}
           /\ Edits(a, [e EXCEPT !.step = "saving", !.columns = Differs(e)])
  <2>1. PICK d : d = [e EXCEPT !.step = "saving", !.columns = Differs(e)]
    OBVIOUS
  <2>2. Differs(e) = {"stock"}
    BY <1>2, <1>4
  <2>3. d \in Edit /\ d.step = "saving" /\ d.columns = {"stock"}
    BY <1>2, <2>1, <2>2 DEF Edit
  <2> QED
    BY <1>4, <2>1, <2>3, EditsKeepInv
<1> QED
  BY <1>1, <1>3, <1>4 DEF Compare

(* The UPDATE writes the stock of a row that no session holds.              *)
LEMMA UpdateWrites ==
    ASSUME AdminInv, NEW a \in Admins, UpdateRow(a)
    PROVE  /\ edit[a].v \in Variants /\ lock[edit[a].v] = NoSession
           /\ stock' \in [Variants -> Nat] /\ reserved' = reserved
           /\ \A w \in Variants : w # edit[a].v => stock'[w] = stock[w]
           /\ reserved[edit[a].v] <= stock'[edit[a].v]
<1>1. PICK e : e = edit[a]
  OBVIOUS
<1>2. e \in Edit /\ e.columns = {"stock"} /\ lock[e.v] = NoSession
  BY <1>1, InFlightType DEF UpdateRow, InFlight, AdminInv, EditInv
<1>3. Written(e).stock = e.stock /\ Written(e).reserved = reserved[e.v]
  BY <1>2 DEF Written
<1>4. /\ stock' = [stock EXCEPT ![e.v] = e.stock]
      /\ reserved' = [reserved EXCEPT ![e.v] = reserved[e.v]]
      /\ reserved[e.v] <= e.stock
  BY <1>1, <1>3 DEF UpdateRow
<1>5. e.v \in Variants /\ e.stock \in Nat
  BY <1>2 DEF Edit
<1>6. /\ stock \in [Variants -> Nat] /\ reserved \in [Variants -> Nat]
  BY DEF AdminInv, ApartInv, TxInv, TypeOK
<1> QED
  BY <1>1, <1>2, <1>4, <1>5, <1>6

LEMMA UpdateKeepsInv ==
    ASSUME AdminInv, NEW a \in Admins, UpdateRow(a)
    PROVE  AdminInv'
<1>1. PICK v : v = edit[a].v
  OBVIOUS
<1>2. /\ v \in Variants /\ lock[v] = NoSession /\ reserved' = reserved
      /\ stock' \in [Variants -> Nat] /\ reserved[v] <= stock'[v]
      /\ \A w \in Variants : w # v => stock'[w] = stock[w]
  BY <1>1, UpdateWrites
<1>3. /\ edit' = [edit EXCEPT ![a] = Done] /\ UNCHANGED <<orderRow, payment, lock, tx>>
  BY DEF UpdateRow
<1>4. EditInv'
  <2>1. edit' \in [Admins -> Edit \cup {ToCome, Done}]
    BY <1>3 DEF AdminInv, EditInv
  <2>2. ASSUME NEW b \in Admins
        PROVE  edit'[b] = Done \/ edit'[b] = edit[b]
    BY <1>3 DEF AdminInv, EditInv
  <2>3. Done.step = "done"
    BY DEF Done
  <2> QED
    BY <2>1, <2>2, <2>3 DEF AdminInv, EditInv
<1>5. TxInv'
  <2>1. TypeOK'
    BY <1>2, <1>3 DEF AdminInv, ApartInv, TxInv, TypeOK, orderRow
  <2>2. ASSUME NEW t \in Sessions
        PROVE  Sound(t, tx[t])'
    <3>1. PICK d : d = tx[t]
      OBVIOUS
    <3>2. d \in Transaction /\ Sound(t, d)
      BY <3>1 DEF AdminInv, ApartInv, TxInv, TypeOK, Transaction
    <3>3. v \notin d.rows /\ d.rows \subseteq Variants
      BY <1>2, <3>2, SessionsAssumption DEF Sound, RowsHeld, Transaction
    <3>4. RowsStay(d)
      BY <1>2, <1>3, <3>3 DEF RowsStay, orderRow
    <3>5. Sound(t, d)'
      BY <3>2, <3>4, SoundStays
    <3>6. tx'[t] = d
      BY <1>3, <3>1
    <3> QED
      BY <3>5, <3>6 DEF Sound, RowsHeld, RowsCover, OrdersPlaced, Needs, VariantsOf
  <2> QED
    BY <2>1, <2>2 DEF TxInv
<1>6. ReservedInStock'
  BY <1>2 DEF AdminInv, ApartInv, ReservedInStock
<1>7. Pending' = Pending /\ items' = items
  BY <1>3 DEF Pending, Having, orderRow
<1>8. LedgerExact'
  BY <1>2, <1>7, Zenon DEF AdminInv, ApartInv, LedgerExact
<1>9. Apart' /\ SettleInv'
  BY <1>3, <1>7 DEF AdminInv, ApartInv, Apart, SettleInv, Settles
<1> QED
  BY <1>4, <1>5, <1>6, <1>8, <1>9 DEF AdminInv, ApartInv

LEMMA AdminStepKeepsInv == AdminInv /\ [AdminNext]_allVars => AdminInv'
<1> SUFFICES ASSUME AdminInv, [AdminNext]_allVars
             PROVE  AdminInv'
  OBVIOUS
<1>1. ASSUME CheckoutNext, Apart', UNCHANGED edit
      PROVE  AdminInv'
  BY <1>1, ApartStep DEF AdminInv, EditInv
<1>2. ASSUME NEW a \in Admins, AdminStep(a)
      PROVE  AdminInv'
  <2>1. ASSUME EditFails(a)
        PROVE  AdminInv'
    BY <2>1, EditsKeepInv DEF EditFails, Done
  <2> QED
    BY <1>2, <2>1, FindKeepsInv, CompareKeepsInv, UpdateKeepsInv DEF AdminStep
<1>3. ASSUME UNCHANGED allVars
      PROVE  AdminInv'
  <2>1. TxInv'
    BY <1>3, TxStep DEF allVars, AdminInv, ApartInv
  <2>2. UNCHANGED <<counters, status, items>> /\ tx' = tx /\ edit' = edit
    BY <1>3 DEF allVars, vars, rows, orderRow
  <2>3. ReservedInStock' /\ LedgerExact'
    BY <2>2, SameBooks DEF AdminInv, ApartInv
  <2>4. Apart' /\ SettleInv'
    BY <2>2 DEF AdminInv, ApartInv, Apart, SettleInv, Settles, Pending, Having
  <2> QED
    BY <2>1, <2>2, <2>3, <2>4 DEF AdminInv, ApartInv, EditInv
<1> QED
  BY <1>1, <1>2, <1>3 DEF AdminNext

LEMMA AdminInvInit == AdminInit => AdminInv
<1> SUFFICES ASSUME AdminInit
             PROVE  AdminInv
  OBVIOUS
<1>1. TxInv
  BY TxInit DEF AdminInit
<1>2. Idle.op = "none" /\ Idle.orders = {}
  BY DEF Idle
<1>3. Apart /\ SettleInv
  BY <1>2 DEF AdminInit, Init, Apart, SettleInv, Settles
<1>4. Pending = {}
  BY DEF AdminInit, Init, Pending, Having
<1>5. \A v \in Variants : Qty(items, {}, v) = 0
  BY QtyEmpty
<1>6. LedgerExact /\ ReservedInStock
  BY <1>4, <1>5, StockAssumption DEF AdminInit, Init, LedgerExact, ReservedInStock
<1>7. EditInv
  BY DEF AdminInit, EditInv, ToCome
<1> QED
  BY <1>1, <1>3, <1>6, <1>7 DEF AdminInv, ApartInv

(* The inductive invariant of sessions and edits together.                  *)
THEOREM AdminInvariant == AdminSpec => []AdminInv
<1> QED
  BY AdminInvInit, AdminStepKeepsInv, PTL DEF AdminSpec

(* What an edit that compares in time is going to write is the stock the    *)
(* administrator gave and nothing else (base.repository.ts:12).              *)
THEOREM AdminTypeCorrect == AdminSpec => []AdminTypeOK
<1>1. AdminInv => AdminTypeOK
  BY DEF AdminInv, ApartInv, TxInv, EditInv, AdminTypeOK
<1> QED
  BY AdminInvariant, <1>1, PTL

(* With any number of sessions and of edits between their statements,       *)
(* reserved_stock is at every commit exactly what the pending orders hold   *)
(* (order.service.ts:67, payment.service.ts:130, order-worker.job.ts:40).   *)
THEOREM LedgerExactBetweenStatements == AdminSpec => []LedgerExact
<1>1. AdminInv => LedgerExact
  BY DEF AdminInv, ApartInv
<1> QED
  BY AdminInvariant, <1>1, PTL

-----------------------------------------------------------------------------
(***************************************************************************)
(* The refinement of Reservations: a commit is one step of it, an UPDATE   *)
(* counts the shelf anew, every other statement is a stutter.              *)
(***************************************************************************)
LEMMA SameQty ==
    ASSUME NEW it, NEW S, NEW v
    PROVE  R!Qty(it, S, v) = Qty(it, S, v)
<1>1. R!Units(it, S, v) = Units(it, S, v)
  BY DEF R!Units, Units
<1>2. \A T : R!Cardinality(T) = Cardinality(T)
  BY DEF R!Cardinality, Cardinality
<1> QED
  BY <1>1, <1>2, Zenon DEF R!Qty, Qty

LEMMA HeldIsPending == R!Held = Pending
BY DEF R!Held, Phase, Pending, Having

(* What is free in Reservations is what the counters say is free.           *)
LEMMA FreeIsUnreserved ==
    ASSUME LedgerExact, NEW v \in Variants
    PROVE  R!Free(v) = stock[v] - reserved[v]
BY SameQty, HeldIsPending DEF R!Free, LedgerExact

(* createOrder holds.                                                       *)
LEMMA CommitHolds ==
    ASSUME ApartInv, NEW s \in Sessions, NEW o \in Orders, CommitCreate(s, o)
    PROVE  R!Next
<1>1. PICK cart : cart = tx[s].cart
  OBVIOUS
<1>2. /\ cart \in Cart /\ status[o] = "NONE" /\ status' = [status EXCEPT ![o] = "PENDING"]
      /\ items' = [items EXCEPT ![o] = cart] /\ stock' = stock
      /\ \A v \in Variants : cart[v] <= stock[v] - reserved[v]
  BY <1>1, CreateMoves
<1>3. \A v \in Variants : cart[v] <= R!Free(v)
  BY <1>2, FreeIsUnreserved DEF ApartInv
<1>4. \A p \in Orders : Phase(status'[p]) = IF p = o THEN "held" ELSE Phase(status[p])
  BY <1>2 DEF Phase, ApartInv, TxInv, TypeOK
<1>5. Phase(status[o]) = "new"
  BY <1>2 DEF Phase
<1>6. R!Hold(o, cart)
  BY <1>2, <1>3, <1>4, <1>5 DEF R!Hold
<1> QED
  BY <1>2, <1>6 DEF R!Next, Cart

(* Cancellation, refused payment and expiry release.                        *)
LEMMA CommitReleases ==
    ASSUME ApartInv, NEW s \in Sessions, NEW op \in {"cancel", "fail", "expire"},
           NEW st \in {"CANCELLED", "EXPIRED"}, NEW pd, NEW pay,
           CommitSettle(s, op, st, pd, pay)
    PROVE  R!Next
<1>1. PICK S : S = tx[s].orders
  OBVIOUS
<1>2. /\ S \in SUBSET Pending /\ S # {} /\ items' = items
      /\ status' = [o \in Orders |-> IF o \in S THEN st ELSE status[o]]
      /\ stock' \in [Variants -> Nat] /\ \A v \in Variants : stock'[v] = stock[v]
  BY <1>1, SettleMoves
<1>3. stock' = stock
  BY <1>2 DEF ApartInv, TxInv, TypeOK
<1>4. \A o \in Orders :
         Phase(status'[o]) = IF o \in S THEN "released" ELSE Phase(status[o])
  BY <1>2 DEF Phase
<1>5. R!Release(S)
  BY <1>2, <1>3, <1>4, HeldIsPending DEF R!Release
<1>6. S \in SUBSET Orders
  BY <1>2 DEF Pending, Having
<1> QED
  BY <1>5, <1>6 DEF R!Next

(* A completed payment sells the one order it took.                         *)
LEMMA CommitSells ==
    ASSUME ApartInv, NEW s \in Sessions, NEW pd, NEW pay,
           CommitSettle(s, "pay", "COMPLETED", pd, pay)
    PROVE  R!Next
<1>1. tx[s].op = "pay"
  BY DEF CommitSettle
<1>2. PICK o \in Orders : tx[s].orders = {o}
  BY <1>1 DEF ApartInv, SettleInv, Settles
<1>3. /\ o \in Pending /\ items' = items
      /\ status' = [p \in Orders |-> IF p \in {o} THEN "COMPLETED" ELSE status[p]]
      /\ stock' \in [Variants -> Nat]
      /\ \A v \in Variants : stock'[v] = stock[v] - Qty(items, {o}, v)
  <2>1. PICK S : S = tx[s].orders
    OBVIOUS
  <2>2. /\ S \in SUBSET Pending /\ items' = items
        /\ status' = [p \in Orders |-> IF p \in S THEN "COMPLETED" ELSE status[p]]
        /\ stock' \in [Variants -> Nat]
        /\ \A v \in Variants : stock'[v] = stock[v] - Qty(items, S, v)
    BY <2>1, SettleMoves
  <2>3. S = {o}
    BY <1>2, <2>1
  <2> QED
    BY <2>2, <2>3
<1>4. ASSUME NEW v \in Variants
      PROVE  stock'[v] = stock[v] - items[o][v]
  <2>1. items[o][v] \in 0..MaxQty
    BY DEF ApartInv, TxInv, TypeOK, Cart
  <2>2. Qty(items, {o}, v) = items[o][v]
    BY <2>1, QtyOne
  <2> QED
    BY <1>3, <2>2
<1>5. stock' = [v \in Variants |-> stock[v] - items[o][v]]
  BY <1>3, <1>4
<1>6. \A p \in Orders : Phase(status'[p]) = IF p = o THEN "sold" ELSE Phase(status[p])
  BY <1>3 DEF Phase
<1>7. R!Sell(o)
  BY <1>3, <1>5, <1>6, HeldIsPending DEF R!Sell
<1> QED
  BY <1>7 DEF R!Next

(* An UPDATE leaves on the shelf what is held.                              *)
LEMMA UpdateRestocks ==
    ASSUME AdminInv, NEW a \in Admins, UpdateRow(a)
    PROVE  R!Restock
<1>1. PICK e : e = edit[a]
  OBVIOUS
<1>2. /\ stock' \in [Variants -> Nat] /\ reserved[e.v] <= stock'[e.v]
      /\ \A w \in Variants : w # e.v => stock'[w] = stock[w]
  BY <1>1, UpdateWrites
<1>3. items' = items /\ status' = status
  BY DEF UpdateRow, orderRow
<1>4. ASSUME NEW v \in Variants
      PROVE  R!Qty(items, R!Held, v) <= stock'[v]
  <2>1. R!Qty(items, R!Held, v) = reserved[v]
    BY HeldIsPending, SameQty DEF AdminInv, ApartInv, LedgerExact
  <2>2. reserved[v] <= stock'[v]
    BY <1>2 DEF AdminInv, ApartInv, ReservedInStock
  <2> QED
    BY <2>1, <2>2
<1> QED
  BY <1>2, <1>3, <1>4 DEF R!Restock

LEMMA AdminRefineStep ==
    AdminInv /\ [AdminNext]_allVars
        => [R!Next \/ (R!Restock /\ \E a \in Admins : UpdateRow(a))]_(R!vars)
<1> SUFFICES ASSUME AdminInv, [AdminNext]_allVars
             PROVE  \/ R!Next \/ (R!Restock /\ \E a \in Admins : UpdateRow(a))
                    \/ UNCHANGED R!vars
  OBVIOUS
<1>1. ASSUME NEW s \in Sessions, Commit(s)
      PROVE  R!Next
  BY <1>1, CommitHolds, CommitReleases, CommitSells DEF Commit, AdminInv
<1>2. ASSUME stock' = stock, items' = items, status' = status
      PROVE  UNCHANGED R!vars
  BY <1>2 DEF R!vars
<1>3. ASSUME CheckoutNext, \A s \in Sessions : ~Commit(s)
      PROVE  UNCHANGED R!vars
  BY <1>2, <1>3, OnlyCommitsMove DEF counters
<1>4. ASSUME NEW a \in Admins, AdminStep(a), ~UpdateRow(a)
      PROVE  UNCHANGED R!vars
  <2>1. UNCHANGED vars
    BY <1>4 DEF AdminStep, FindById, Compare, EditFails, Edits
  <2> QED
    BY <1>2, <2>1 DEF vars, rows, counters, orderRow
<1>5. ASSUME UNCHANGED allVars
      PROVE  UNCHANGED R!vars
  BY <1>2, <1>5 DEF allVars, vars, rows, counters, orderRow
<1>6. ASSUME NEW a \in Admins, UpdateRow(a)
      PROVE  R!Restock
  BY <1>6, UpdateRestocks
<1>7. CheckoutNext \/ (\E a \in Admins : AdminStep(a)) \/ UNCHANGED allVars
  BY DEF AdminNext
<1> QED
  BY <1>1, <1>3, <1>4, <1>5, <1>6, <1>7, Zenon

LEMMA AdminRefineInit == AdminInit => R!Init
BY DEF AdminInit, Init, R!Init, Phase

(* The handlers of orders keep the promise of Reservations statement by     *)
(* statement, between the statements of any number of edits: what commits   *)
(* is never undone by an UPDATE that waited for it or read before it        *)
(* (order.service.ts:67, payment.service.ts:130, order-worker.job.ts:40,    *)
(* base.repository.ts:12).                                                  *)
THEOREM SessionsRefine == AdminSpec => KeepsSuppliedReservations
<1> QED
  BY AdminInvariant, AdminRefineInit, AdminRefineStep, PTL
     DEF AdminSpec, KeepsSuppliedReservations
=============================================================================
