-------------------------- MODULE QuantitiesProofs --------------------------
(* Facts about totals: they are naturals, they add up over disjoint sets of *)
(* orders, and the total of one order is the quantity in its item.          *)
EXTENDS Quantities, FiniteSetTheorems, TLAPS

(* The total over finitely many orders is a natural number. *)
LEMMA QtyType ==
    ASSUME NEW it, NEW S, IsFiniteSet(S), NEW a
    PROVE  IsFiniteSet(Units(it, S, a)) /\ Qty(it, S, a) \in Nat
<1>1. IsFiniteSet(1..MaxQty)
  BY FS_Interval, MaxQtyAssumption
<1>2. IsFiniteSet(S \X (1..MaxQty))
  BY <1>1, FS_Product
<1>3. Units(it, S, a) \subseteq S \X (1..MaxQty)
  BY DEF Units
<1>4. IsFiniteSet(Units(it, S, a))
  BY <1>2, <1>3, FS_Subset
<1> QED
  BY <1>4, FS_CardinalityType DEF Qty

(* No orders, no units. *)
LEMMA QtyEmpty ==
    ASSUME NEW it, NEW a
    PROVE  Qty(it, {}, a) = 0
<1>1. Units(it, {}, a) = {}
  BY DEF Units
<1> QED
  BY <1>1, FS_EmptySet DEF Qty

(* Orders that ask for nothing of an article have no units of it. *)
LEMMA QtyNone ==
    ASSUME NEW it, NEW S, NEW a, \A o \in S : it[o][a] = 0
    PROVE  Qty(it, S, a) = 0
<1>1. Units(it, S, a) = {}
  BY MaxQtyAssumption DEF Units
<1> QED
  BY <1>1, FS_EmptySet DEF Qty

(* Totals of disjoint sets of orders add up. *)
LEMMA QtyDisjoint ==
    ASSUME NEW it, NEW S, NEW T, IsFiniteSet(S), IsFiniteSet(T),
           S \cap T = {}, NEW a
    PROVE  Qty(it, S \cup T, a) = Qty(it, S, a) + Qty(it, T, a)
<1>1. Units(it, S \cup T, a) = Units(it, S, a) \cup Units(it, T, a)
  BY DEF Units
<1>2. Units(it, S, a) \cap Units(it, T, a) = {}
  BY DEF Units
<1>3. Cardinality({}) = 0
  BY FS_EmptySet
<1>4. /\ IsFiniteSet(Units(it, S, a)) /\ Qty(it, S, a) \in Nat
      /\ IsFiniteSet(Units(it, T, a)) /\ Qty(it, T, a) \in Nat
  BY QtyType
<1>5. Cardinality(Units(it, S, a) \cup Units(it, T, a))
        = Cardinality(Units(it, S, a)) + Cardinality(Units(it, T, a))
            - Cardinality(Units(it, S, a) \cap Units(it, T, a))
  BY <1>4, FS_Union
<1>6. Qty(it, S \cup T, a) = Qty(it, S, a) + Qty(it, T, a) - 0
  BY <1>1, <1>2, <1>3, <1>5, Zenon DEF Qty
<1> QED
  BY <1>4, <1>6

(* Taking a subset out takes its total off. *)
LEMMA QtyRemove ==
    ASSUME NEW it, NEW S, IsFiniteSet(S), NEW T \in SUBSET S, NEW a
    PROVE  Qty(it, S \ T, a) = Qty(it, S, a) - Qty(it, T, a)
<1>1. IsFiniteSet(T) /\ IsFiniteSet(S \ T)
  BY FS_Subset
<1>2. S = (S \ T) \cup T /\ (S \ T) \cap T = {}
  OBVIOUS
<1>3. Qty(it, (S \ T) \cup T, a) = Qty(it, S \ T, a) + Qty(it, T, a)
  BY <1>1, <1>2, QtyDisjoint
<1>4. Qty(it, S, a) = Qty(it, S \ T, a) + Qty(it, T, a)
  BY <1>2, <1>3, Zenon
<1> QED
  BY <1>1, <1>4, QtyType

(* A part asks for no more than the whole. *)
LEMMA QtyMonotone ==
    ASSUME NEW it, NEW S, IsFiniteSet(S), NEW T \in SUBSET S, NEW a
    PROVE  Qty(it, T, a) <= Qty(it, S, a)
<1>1. IsFiniteSet(T) /\ IsFiniteSet(S \ T)
  BY FS_Subset
<1> QED
  BY <1>1, QtyRemove, QtyType

(* The total depends on the quantities of those orders alone. *)
LEMMA QtySame ==
    ASSUME NEW it, NEW jt, NEW S, NEW a, \A o \in S : it[o][a] = jt[o][a]
    PROVE  Qty(it, S, a) = Qty(jt, S, a)
<1>1. Units(it, S, a) = Units(jt, S, a)
  BY DEF Units
<1> QED
  BY <1>1 DEF Qty

(* The total of a single order is the quantity in its item. *)
LEMMA QtyOne ==
    ASSUME NEW it, NEW o, NEW a, NEW n \in 0..MaxQty, it[o][a] = n
    PROVE  Qty(it, {o}, a) = n
<1> DEFINE f == [k \in 1..n |-> <<o, k>>]
<1>1. n \in Nat /\ 1..n \subseteq 1..MaxQty
  BY MaxQtyAssumption
<1>2. Units(it, {o}, a) = {<<o, k>> : k \in 1..n}
  BY <1>1, MaxQtyAssumption DEF Units
<1>3. f \in Bijection(1..n, Units(it, {o}, a))
  BY <1>2 DEF Bijection, Injection, Surjection, IsInjective
<1>4. Cardinality(1..n) = n /\ IsFiniteSet(1..n)
  <2>1. /\ IsFiniteSet(1..n)
        /\ Cardinality(1..n) = IF 1 > n THEN 0 ELSE n - 1 + 1
    BY <1>1, FS_Interval
  <2> QED
    BY <1>1, <2>1
<1>5. ExistsBijection(1..n, Units(it, {o}, a))
  BY <1>3 DEF ExistsBijection
<1>6. Cardinality(Units(it, {o}, a)) = Cardinality(1..n)
  BY <1>4, <1>5, FS_Bijection
<1> QED
  BY <1>4, <1>6 DEF Qty
=============================================================================
