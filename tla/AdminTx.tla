------------------------------- MODULE AdminTx -------------------------------
(***************************************************************************)
(* The variant administration between the sessions of OrderTx.  Its        *)
(* handlers read a row with findById, edit the object and save() it.       *)
(* save() reads the row once more, compares, and updates the columns that   *)
(* differ; only this UPDATE waits for the row lock, which the handlers of   *)
(* orders hold from their SELECT ... FOR UPDATE to their commit.           *)
(*                                                                         *)
(* Of the columns only the two counters are here, as in OrderTx: an edit of *)
(* price, status or name is one that gives no stock.  Catalogue has these.  *)
(***************************************************************************)
EXTENDS OrderTx

CONSTANTS
    Admins,         \* administration requests, each made once (a bound)
    StockLevels,    \* values an admin sets stock to (IsPositive, IsInt)
    MaxInFlight     \* bound: sessions and requests under way at a time

ASSUME AdminAssumption ==
    /\ IsFiniteSet(Admins) /\ StockLevels \subseteq Nat \ {0}
    /\ MaxInFlight \in Nat

VARIABLE edit       \* what an administration request has in memory

allVars == <<vars, edit>>

ToCome == [step |-> "to come"]
Done   == [step |-> "done"]

(* "read": the object in memory, with the columns the administrator gave;   *)
(* "saving": the columns that the UPDATE is going to write.                 *)
Edit == [step : {"read", "saving"}, v : Variants, stock : Nat, reserved : Nat,
         columns : SUBSET {"stock", "reserved"}]

InFlight(a) == edit[a].step \in {"read", "saving"}

(* What an edit writes is what the administrator gave, and no more.         *)
AdminTypeOK ==
    /\ TypeOK
    /\ edit \in [Admins -> Edit \cup {ToCome, Done}]
    /\ \A a \in Admins : edit[a].step = "saving" => edit[a].columns = {"stock"}

AdminInit == Init /\ edit = [a \in Admins |-> ToCome]

-----------------------------------------------------------------------------
Edits(a, e) == edit' = [edit EXCEPT ![a] = e] /\ UNCHANGED vars

Loaded(v) == [step |-> "read", v |-> v, stock |-> stock[v], reserved |-> reserved[v],
              columns |-> {}]

(* findById takes no lock; then the object is edited.                       *)
FindById(a, v) ==
    /\ edit[a] = ToCome
    /\ \/ Edits(a, Loaded(v))
       \/ \E n \in StockLevels :
             Edits(a, [Loaded(v) EXCEPT !.stock = n, !.columns = {"stock"}])

(* The columns in which the object and the committed row differ.            *)
Differs(e) ==
    {c \in {"stock", "reserved"} :
        IF c = "stock" THEN e.stock # stock[e.v] ELSE e.reserved # reserved[e.v]}

(* Mutant: the UPDATE writes every column of the object.                    *)
CompareNothing(a) ==
    /\ edit[a].step = "read"
    /\ Edits(a, [edit[a] EXCEPT !.step = "saving", !.columns = {"stock", "reserved"}])

(* The SELECT of save(), without a lock, before its transaction starts.     *)
Compare(a) ==
    /\ edit[a].step = "read"
    /\ Edits(a, IF Differs(edit[a]) = {} THEN Done
                ELSE [edit[a] EXCEPT !.step = "saving", !.columns = Differs(edit[a])])

Written(e) ==
    [stock    |-> IF "stock" \in e.columns THEN e.stock ELSE stock[e.v],
     reserved |-> IF "reserved" \in e.columns THEN e.reserved ELSE reserved[e.v]]

(* Mutant: the UPDATE does not wait for the row.                            *)
UpdateRowUnlocked(a) ==
    LET e == edit[a] IN
    /\ e.step = "saving"
    /\ Written(e).reserved <= Written(e).stock
    /\ stock' = [stock EXCEPT ![e.v] = Written(e).stock]
    /\ reserved' = [reserved EXCEPT ![e.v] = Written(e).reserved]
    /\ edit' = [edit EXCEPT ![a] = Done]
    /\ UNCHANGED <<orderRow, payment, lock, tx>>

(* The UPDATE and its commit, once nobody holds the row: columns it does    *)
(* not write stay as they are by then, and the CHECK is of the new row.     *)
UpdateRow(a) ==
    LET e == edit[a] IN
    /\ e.step = "saving" /\ lock[e.v] = NoSession
    /\ Written(e).reserved <= Written(e).stock
    /\ stock' = [stock EXCEPT ![e.v] = Written(e).stock]
    /\ reserved' = [reserved EXCEPT ![e.v] = Written(e).reserved]
    /\ edit' = [edit EXCEPT ![a] = Done]
    /\ UNCHANGED <<orderRow, payment, lock, tx>>

(* The CHECK refuses the row, or the request dies.                          *)
EditFails(a) == InFlight(a) /\ Edits(a, Done)

-----------------------------------------------------------------------------
(* Nobody has reserved, released or sold of the row since it was read: it   *)
(* differs where the administrator gave something, and nowhere else.        *)
Current(e) == e.step = "read" /\ Differs(e) \subseteq e.columns

AdminStep(a) ==
    \/ \E v \in Variants : FindById(a, v)
    \/ Current(edit[a]) /\ Compare(a)
    \/ UpdateRow(a)
    \/ EditFails(a)

FewInFlight ==
    Cardinality({s \in Sessions : tx[s].step # "idle"})
      + Cardinality({a \in Admins : InFlight(a)}) <= MaxInFlight

AdminNext ==
    /\ \/ CheckoutNext /\ Apart' /\ UNCHANGED edit
       \/ \E a \in Admins : AdminStep(a)
    /\ FewInFlight'

AdminSpec == AdminInit /\ [][AdminNext]_allVars

-----------------------------------------------------------------------------
(* The promise of Reservations, kept by handlers of orders that run between *)
(* the statements of an edit: nothing they put on or take off is undone, in *)
(* particular nothing that they commit between the two reads and the UPDATE *)
(* of the edit, or hold in memory while the UPDATE waits; and only such an  *)
(* UPDATE counts the shelf anew.                                            *)
KeepsSuppliedReservations ==
    R!Init /\ [][R!Next \/ (R!Restock /\ \E a \in Admins : UpdateRow(a))]_(R!vars)
=============================================================================
