-------------------------- MODULE BookMirrorProofs --------------------------
(***************************************************************************)
(* Proofs about the market core and jnxdb's tables, for any set of order   *)
(* numbers, books, prices and quantities and any sharing of numbers        *)
(* between books: jnxdb's order table follows the FH's order store; the    *)
(* incrementally maintained levels are the aggregation of the live orders; *)
(* the published rows are fresh; a restart of the FH changes no book.      *)
(***************************************************************************)
EXTENDS BookMirror, FiniteSetTheorems, TLAPS


-----------------------------------------------------------------------------
(* Sums over a finite set.  MapThenSumSet picks the elements in an order of *)
(* its own; SumTo is a sum table that any order gives.                      *)

SumTo(os, S, g) ==
  /\ g \in [SUBSET S -> Nat]
  /\ g[{}] = 0
  /\ \A T \in SUBSET S : \A x \in T : g[T] = os[x].qty + g[T \ {x}]

(* The equation that MapThenSumSet, taken of the quantities, solves.        *)
SumEquation(os, S, g) ==
  g = [s \in SUBSET S |->
        IF s = {} THEN 0
        ELSE os[CHOOSE x \in s : TRUE].qty + g[s \ {CHOOSE x \in s : TRUE}]]

(* Among the subsets of a finite set, some counterexample is minimal: the   *)
(* induction that the sums over a table's orders rest on.                   *)
LEMMA MinimalSubset ==
  ASSUME NEW S, IsFiniteSet(S), NEW Bad, Bad \subseteq SUBSET S, Bad # {}
  PROVE  \E T \in Bad : \A x \in T : T \ {x} \notin Bad
<1>1. Bad \subseteq FiniteSubsetsOf(S)
  BY FS_FiniteSubsetsOfFinite, Zenon
<1>2. IsWellFoundedOn(StrictSubsetOrdering(S), FiniteSubsetsOf(S))
  BY FS_StrictSubsetOrderingWellFounded, Zenon
<1>3. PICK T \in Bad : \A U \in Bad : <<U, T>> \notin StrictSubsetOrdering(S)
  BY <1>1, <1>2, WFMin, Zenon
<1>4. ASSUME NEW x \in T, T \ {x} \in Bad PROVE FALSE
  <2>1. <<T \ {x}, T>> \in StrictSubsetOrdering(S)
    BY <1>3, <1>4, Zenon DEF StrictSubsetOrdering
  <2> QED BY <1>3, <1>4, <2>1, Zenon
<1> QED BY <1>3, <1>4, Zenon

(* One more element extends a sum table.                                    *)
LEMMA SumToExtends ==
  ASSUME NEW os, NEW S, NEW x, x \notin S,
         \A y \in S \cup {x} : os[y].qty \in Nat, NEW g, SumTo(os, S, g)
  PROVE  \E h : SumTo(os, S \cup {x}, h)
<1> DEFINE h == [T \in SUBSET (S \cup {x}) |->
                   IF x \in T THEN os[x].qty + g[T \ {x}] ELSE g[T]]
<1>1. h \in [SUBSET (S \cup {x}) -> Nat] /\ h[{}] = 0
  BY DEF SumTo
<1>2. ASSUME NEW T \in SUBSET (S \cup {x}), NEW y \in T
      PROVE  h[T] = os[y].qty + h[T \ {y}]
  <2>1. CASE y = x
    BY <2>1, Zenon DEF SumTo
  <2>2. CASE y # x /\ x \in T
    <3>1. h[T] = os[x].qty + g[T \ {x}] /\ T \ {x} \in SUBSET S /\ y \in T \ {x}
      BY <2>2, Zenon
    <3>2. g[T \ {x}] = os[y].qty + g[(T \ {x}) \ {y}]
      BY <3>1, Zenon DEF SumTo
    <3>3. h[T \ {y}] = os[x].qty + g[(T \ {y}) \ {x}]
      BY <2>2, Zenon
    <3>4. (T \ {x}) \ {y} = (T \ {y}) \ {x}
      BY Zenon
    <3>5. (T \ {x}) \ {y} \in SUBSET S
      BY Zenon
    <3> HIDE DEF h
    <3>6. g[(T \ {x}) \ {y}] \in Nat
      BY <3>5, Zenon DEF SumTo
    <3>7. os[x].qty \in Nat /\ os[y].qty \in Nat
      BY Zenon
    <3>8. h[T] = os[x].qty + (os[y].qty + g[(T \ {x}) \ {y}])
      BY <3>1, <3>2, Zenon
    <3>9. h[T \ {y}] = os[x].qty + g[(T \ {x}) \ {y}]
      BY <3>3, <3>4, Zenon
    <3> QED BY <3>6, <3>7, <3>8, <3>9
  <2>3. CASE y # x /\ x \notin T
    BY <2>3, Zenon DEF SumTo
  <2> QED BY <2>1, <2>2, <2>3, Zenon
<1> HIDE DEF h
<1> QED BY <1>1, <1>2, Zenon DEF SumTo

(* A finite set of orders has a sum table.                                  *)
LEMMA SumToExists ==
  ASSUME NEW os, NEW S, IsFiniteSet(S), \A y \in S : os[y].qty \in Nat
  PROVE  \E g : SumTo(os, S, g)
<1> DEFINE Bad == {T \in SUBSET S : ~\E g : SumTo(os, T, g)}
<1> SUFFICES ASSUME S \in Bad PROVE FALSE
  BY Zenon
<1> HIDE DEF Bad
<1>1. Bad \subseteq SUBSET S
  BY Zenon DEF Bad
<1>2. PICK T \in Bad : \A x \in T : T \ {x} \notin Bad
  BY <1>1, MinimalSubset, Zenon
<1>3. CASE T = {}
  <2>1. SumTo(os, {}, [U \in SUBSET {} |-> 0])
    BY Zenon DEF SumTo
  <2> QED BY <1>2, <1>3, <2>1, Zenon DEF Bad
<1>4. CASE T # {}
  <2>1. PICK x \in T : TRUE
    BY <1>4, Zenon
  <2>2. T \in SUBSET S /\ T \ {x} \in SUBSET S /\ T = (T \ {x}) \cup {x}
    BY <1>1, <1>2, <2>1, Zenon
  <2>3. PICK g : SumTo(os, T \ {x}, g)
    BY <1>2, <2>1, <2>2, Zenon DEF Bad
  <2>4. \A y \in (T \ {x}) \cup {x} : os[y].qty \in Nat
    BY <2>1, <2>2, Zenon
  <2>5. \E h : SumTo(os, (T \ {x}) \cup {x}, h)
    BY <2>3, <2>4, SumToExtends, Zenon
  <2> QED BY <1>2, <2>2, <2>5, Zenon DEF Bad
<1> QED BY <1>3, <1>4, Zenon

(* Shares is the value of a solution of its equation, if there is one.      *)
LEMMA SharesUnfold ==
  ASSUME NEW os, NEW S, \E g : SumEquation(os, S, g)
  PROVE  \E g : SumEquation(os, S, g) /\ Shares(os, S) = g[S]
BY Zenon DEF Shares, SumEquation, MapThenSumSet, MapThenFoldSet

(* Shares is what any sum table says.                                       *)
LEMMA SharesIsSum ==
  ASSUME NEW os, NEW S, IsFiniteSet(S), NEW g, SumTo(os, S, g)
  PROVE  Shares(os, S) = g[S]
<1> DEFINE pick(s) == CHOOSE x \in s : TRUE
<1>1. ASSUME NEW s \in SUBSET S, s # {}
      PROVE  pick(s) \in s
  BY <1>1, Zenon
<1>2. SumEquation(os, S, g)
  <2>1. g = [s \in SUBSET S |-> g[s]]
    BY Zenon DEF SumTo
  <2>2. ASSUME NEW s \in SUBSET S
        PROVE  g[s] = IF s = {} THEN 0 ELSE os[pick(s)].qty + g[s \ {pick(s)}]
    BY <1>1, Zenon DEF SumTo
  <2>3. [s \in SUBSET S |-> g[s]]
          = [s \in SUBSET S |->
               IF s = {} THEN 0 ELSE os[pick(s)].qty + g[s \ {pick(s)}]]
    BY <2>2, Zenon
  <2> QED BY <2>1, <2>3, Zenon DEF SumEquation
<1>3. PICK h : SumEquation(os, S, h) /\ Shares(os, S) = h[S]
  BY <1>2, SharesUnfold, Zenon
<1>4. ASSUME NEW s \in SUBSET S
      PROVE  h[s] = IF s = {} THEN 0 ELSE os[pick(s)].qty + h[s \ {pick(s)}]
  BY <1>3, Zenon DEF SumEquation
<1> HIDE DEF pick
<1> DEFINE Bad == {T \in SUBSET S : h[T] # g[T]}
<1>5. Bad = {}
  <2> SUFFICES ASSUME Bad # {} PROVE FALSE
    BY Zenon
  <2>1. Bad \subseteq SUBSET S
    BY Zenon
  <2> HIDE DEF Bad
  <2>2. PICK T \in Bad : \A x \in T : T \ {x} \notin Bad
    BY <2>1, MinimalSubset, Zenon
  <2>3. T \in SUBSET S /\ h[T] # g[T]
    BY <2>2, Zenon DEF Bad
  <2>4. T # {}
    BY <1>4, <2>3, Zenon DEF SumTo
  <2>5. pick(T) \in T /\ T \ {pick(T)} \in SUBSET S
    BY <1>1, <2>3, <2>4, Zenon
  <2>6. h[T \ {pick(T)}] = g[T \ {pick(T)}]
    BY <2>2, <2>5, Zenon DEF Bad
  <2>7. g[T] = os[pick(T)].qty + g[T \ {pick(T)}]
    BY <2>3, <2>5, Zenon DEF SumTo
  <2> QED BY <1>4, <2>3, <2>4, <2>6, <2>7, Zenon
<1> QED BY <1>3, <1>5, Zenon

(* No orders, no shares.                                                    *)
LEMMA SharesEmpty == ASSUME NEW os PROVE Shares(os, {}) = 0
<1>1. SumTo(os, {}, [U \in SUBSET {} |-> 0])
  BY Zenon DEF SumTo
<1> QED BY <1>1, SharesIsSum, FS_EmptySet

(* The shares of finitely many orders are a natural number.                 *)
LEMMA SharesNat ==
  ASSUME NEW os, NEW S, IsFiniteSet(S), \A y \in S : os[y].qty \in Nat
  PROVE  Shares(os, S) \in Nat
<1>1. PICK g : SumTo(os, S, g)
  BY SumToExists, Zenon
<1>2. g[S] \in Nat
  BY <1>1, Zenon DEF SumTo
<1> QED BY <1>1, <1>2, SharesIsSum, Zenon

(* An order adds its quantity to the shares of the others, whichever order  *)
(* it is.                                                                   *)
LEMMA SharesAdd ==
  ASSUME NEW os, NEW S, IsFiniteSet(S), NEW x, x \notin S,
         \A y \in S \cup {x} : os[y].qty \in Nat
  PROVE  Shares(os, S \cup {x}) = Shares(os, S) + os[x].qty
<1>1. IsFiniteSet(S \cup {x})
  BY FS_AddElement, Zenon
<1>2. PICK g : SumTo(os, S \cup {x}, g)
  BY <1>1, SumToExists, Zenon
<1>3. Shares(os, S \cup {x}) = g[S \cup {x}]
  BY <1>1, <1>2, SharesIsSum, Zenon
<1> DEFINE h == [T \in SUBSET S |-> g[T]]
<1>4. SumTo(os, S, h)
  <2>1. h \in [SUBSET S -> Nat] /\ h[{}] = 0
    BY <1>2, Zenon DEF SumTo
  <2>2. ASSUME NEW T \in SUBSET S, NEW y \in T
        PROVE  h[T] = os[y].qty + h[T \ {y}]
    BY <1>2, Zenon DEF SumTo
  <2> HIDE DEF h
  <2> QED BY <2>1, <2>2, Zenon DEF SumTo
<1>5. Shares(os, S) = g[S]
  BY <1>4, SharesIsSum
<1>6. (S \cup {x}) \ {x} = S
  BY Zenon
<1>7. g[S \cup {x}] = os[x].qty + g[S] /\ g[S] \in Nat
  BY <1>2, <1>6, Zenon DEF SumTo
<1> QED BY <1>3, <1>5, <1>7

(* Shares depends on the quantities of the orders it sums, nothing else.    *)
LEMMA SharesSame ==
  ASSUME NEW os, NEW ot, NEW S, IsFiniteSet(S),
         \A y \in S : os[y].qty \in Nat /\ ot[y].qty = os[y].qty
  PROVE  Shares(ot, S) = Shares(os, S)
<1>1. PICK g : SumTo(os, S, g)
  BY SumToExists, Zenon
<1>2. SumTo(ot, S, g)
  BY <1>1, Zenon DEF SumTo
<1> QED BY <1>1, <1>2, SharesIsSum

-----------------------------------------------------------------------------
(* The levels as a function of the order table. *)

Table(t) ==
  /\ DOMAIN t \subseteq Numbers \cup {0}
  /\ \A n \in DOMAIN t : t[n] \in Order

(* A finite table, as a function. *)
Finite(t) == t = [n \in DOMAIN t |-> t[n]] /\ IsFiniteSet(DOMAIN t)

(* One side of Aggregate. *)
SideOf(os, b, s) ==
  [levels |-> [p \in {os[n].price : n \in Resting(os, b, s)} |->
                 [qty |-> Shares(os, RestingAt(os, b, s, p)),
                  orders |-> Cardinality(RestingAt(os, b, s, p))]],
   qty    |-> Shares(os, Resting(os, b, s)),
   orders |-> Cardinality(Resting(os, b, s))]

(* Aggregate is made of its sides.                                          *)
LEMMA AggregateSides ==
  ASSUME NEW os
  PROVE  Aggregate(os) = [b \in Books |-> [s \in Sides |-> SideOf(os, b, s)]]
BY Zenon DEF Aggregate, SideOf

(* The resting sets are finite and hold orders.                             *)
LEMMA RestingFinite ==
  ASSUME NEW os, Table(os), Finite(os), NEW b, NEW s
  PROVE  /\ IsFiniteSet(Resting(os, b, s))
         /\ \A p : IsFiniteSet(RestingAt(os, b, s, p))
         /\ \A n \in Resting(os, b, s) : os[n].qty \in Nat
<1>1. Resting(os, b, s) \in SUBSET DOMAIN os
  BY Zenon DEF Resting
<1>2. \A p : RestingAt(os, b, s, p) \in SUBSET DOMAIN os
  BY Zenon DEF Resting, RestingAt
<1>3. \A n \in Resting(os, b, s) : os[n].qty \in Nat
  BY <1>1, Zenon DEF Table, Order
<1>4. IsFiniteSet(DOMAIN os)
  BY Zenon DEF Finite
<1> QED BY <1>1, <1>2, <1>3, <1>4, FS_Subset, Zenon

(* A set of orders that a new one does not join keeps its shares.           *)
LEMMA SharesOfOthers ==
  ASSUME NEW os, NEW n, n \notin DOMAIN os, NEW o, NEW S \in SUBSET DOMAIN os,
         IsFiniteSet(S), \A y \in S : os[y].qty \in Nat
  PROVE  Shares(Put(os, n, o), S) = Shares(os, S)
<1>1. \A y \in S : Put(os, n, o)[y].qty = os[y].qty
  BY Zenon DEF Put
<1> QED BY <1>1, SharesSame, Zenon

(* A set of orders that a new one joins has its shares besides.             *)
LEMMA SharesOfMore ==
  ASSUME NEW os, NEW n, n \notin DOMAIN os, NEW o, NEW S \in SUBSET DOMAIN os,
         IsFiniteSet(S), \A y \in S : os[y].qty \in Nat, o.qty \in Nat
  PROVE  Shares(Put(os, n, o), S \cup {n}) = Shares(os, S) + o.qty
<1> DEFINE ot == Put(os, n, o)
<1>1. \A y \in S \cup {n} : ot[y].qty \in Nat
  BY Zenon DEF Put
<1>2. n \notin S /\ ot[n] = o
  BY Zenon DEF Put
<1> HIDE DEF ot
<1>3. Shares(ot, S \cup {n}) = Shares(ot, S) + ot[n].qty
  BY <1>1, <1>2, SharesAdd, Zenon
<1>4. Shares(ot, S) = Shares(os, S)
  BY SharesOfOthers DEF ot
<1> QED BY <1>2, <1>3, <1>4, Zenon DEF ot

(* A new order leaves the sides alone that it does not rest on.             *)
LEMMA OtherSides ==
  ASSUME NEW os, Table(os), Finite(os), NEW n, n \notin DOMAIN os, NEW o,
         NEW b, NEW s, ~(o.book = b /\ o.side = s)
  PROVE  SideOf(Put(os, n, o), b, s) = SideOf(os, b, s)
<1> DEFINE ot == Put(os, n, o)
<1>1. DOMAIN ot = DOMAIN os \cup {n} /\ ot[n] = o
      /\ \A m \in DOMAIN os : ot[m] = os[m]
  BY Zenon DEF Put
<1>2. Resting(os, b, s) \in SUBSET DOMAIN os
      /\ \A p : /\ RestingAt(os, b, s, p) \in SUBSET DOMAIN os
                /\ RestingAt(os, b, s, p) \in SUBSET Resting(os, b, s)
  BY Zenon DEF Resting, RestingAt
<1>3. \A S \in SUBSET DOMAIN os : IsFiniteSet(S) /\ (\A y \in S : os[y].qty \in Nat)
                          => Shares(ot, S) = Shares(os, S)
  BY SharesOfOthers
<1> HIDE DEF ot
<1>4. Resting(ot, b, s) = Resting(os, b, s)
  BY <1>1, Zenon DEF Resting
<1>5. \A p : RestingAt(ot, b, s, p) = RestingAt(os, b, s, p)
  BY <1>1, <1>2, <1>4, Zenon DEF RestingAt
<1>6. Shares(ot, Resting(os, b, s)) = Shares(os, Resting(os, b, s))
  BY <1>2, <1>3, RestingFinite, Zenon
<1>7. \A p : Shares(ot, RestingAt(os, b, s, p)) = Shares(os, RestingAt(os, b, s, p))
  <2> TAKE p
  <2>1. \A y \in RestingAt(os, b, s, p) : os[y].qty \in Nat
    BY <1>2, RestingFinite, Zenon
  <2>2. IsFiniteSet(RestingAt(os, b, s, p))
    BY RestingFinite, Zenon
  <2> QED BY <1>2, <1>3, <2>1, <2>2, Zenon
<1>8. {ot[m].price : m \in Resting(os, b, s)} = {os[m].price : m \in Resting(os, b, s)}
  BY <1>1, <1>2, Zenon
<1>9. [p \in {ot[m].price : m \in Resting(ot, b, s)} |->
         [qty |-> Shares(ot, RestingAt(ot, b, s, p)),
          orders |-> Cardinality(RestingAt(ot, b, s, p))]]
      = [p \in {os[m].price : m \in Resting(os, b, s)} |->
           [qty |-> Shares(os, RestingAt(os, b, s, p)),
            orders |-> Cardinality(RestingAt(os, b, s, p))]]
  <2> DEFINE P == {ot[m].price : m \in Resting(os, b, s)}
  <2>1. \A p \in P : [qty |-> Shares(ot, RestingAt(ot, b, s, p)),
                      orders |-> Cardinality(RestingAt(ot, b, s, p))]
                     = [qty |-> Shares(os, RestingAt(os, b, s, p)),
                        orders |-> Cardinality(RestingAt(os, b, s, p))]
    BY <1>5, <1>7, Zenon
  <2>2. {ot[m].price : m \in Resting(ot, b, s)} = P
        /\ {os[m].price : m \in Resting(os, b, s)} = P
    BY <1>4, <1>8, Zenon
  <2> HIDE DEF P
  <2> QED BY <2>1, <2>2, Zenon
<1>10. SideOf(ot, b, s) = SideOf(os, b, s)
  BY <1>4, <1>6, <1>9, Zenon DEF SideOf
<1> QED BY <1>10, Zenon DEF ot

(* On the side it rests on, a new order is one SideLevels::add.             *)
LEMMA OwnSide ==
  ASSUME NEW os, Table(os), Finite(os), NEW n, n \notin DOMAIN os,
         NEW o \in Order
  PROVE  SideOf(Put(os, n, o), o.book, o.side)
           = LevelAdd(SideOf(os, o.book, o.side), o.price, o.qty)
<1> DEFINE ot == Put(os, n, o)
           R == Resting(os, o.book, o.side)
           At(p) == RestingAt(os, o.book, o.side, p)
           P == {os[m].price : m \in R}
<1>1. DOMAIN ot = DOMAIN os \cup {n} /\ ot[n] = o
      /\ \A m \in DOMAIN os : ot[m] = os[m]
  BY Zenon DEF Put
<1>2. R \in SUBSET DOMAIN os /\ \A p : At(p) \in SUBSET DOMAIN os /\ At(p) \in SUBSET R
  BY Zenon DEF Resting, RestingAt
<1>3. IsFiniteSet(R) /\ (\A p : IsFiniteSet(At(p))) /\ \A m \in R : os[m].qty \in Nat
  BY RestingFinite, Zenon
<1>4. o.qty \in Nat
  BY Zenon DEF Order
<1>5. Resting(ot, o.book, o.side) = R \cup {n}
  BY <1>1, Zenon DEF Resting
<1>6. \A p : RestingAt(ot, o.book, o.side, p)
               = IF p = o.price THEN At(p) \cup {n} ELSE At(p)
  BY <1>1, <1>2, <1>5, Zenon DEF RestingAt
<1>7. Shares(ot, R \cup {n}) = Shares(os, R) + o.qty
  <2> HIDE DEF R
  <2> QED BY <1>2, <1>3, <1>4, SharesOfMore
<1>8. \A p : Shares(ot, At(p) \cup {n}) = Shares(os, At(p)) + o.qty
  <2> TAKE p
  <2> HIDE DEF At, R, ot
  <2>1. \A y \in At(p) : os[y].qty \in Nat
    BY <1>2, <1>3, Zenon
  <2> QED BY <1>2, <1>3, <1>4, <2>1, SharesOfMore DEF ot
<1>9. \A p : Shares(ot, At(p)) = Shares(os, At(p))
  <2> TAKE p
  <2> HIDE DEF At, R, ot
  <2>1. \A y \in At(p) : os[y].qty \in Nat
    BY <1>2, <1>3, Zenon
  <2> QED BY <1>2, <1>3, <2>1, SharesOfOthers DEF ot
<1>10. Cardinality(R \cup {n}) = Cardinality(R) + 1
       /\ \A p : Cardinality(At(p) \cup {n}) = Cardinality(At(p)) + 1
  <2> HIDE DEF At, R, ot
  <2>1. n \notin R /\ \A p : n \notin At(p)
    BY <1>2, Zenon
  <2> QED BY <1>3, <2>1, FS_AddElement, Zenon
<1>11. {ot[m].price : m \in R \cup {n}} = P \cup {o.price}
  BY <1>1, <1>2
<1>12. ASSUME o.price \notin P
       PROVE  Shares(os, At(o.price)) = 0 /\ Cardinality(At(o.price)) = 0
  <2>1. At(o.price) = {}
    BY <1>12, <1>2, Zenon DEF RestingAt
  <2> QED BY <2>1, SharesEmpty, FS_EmptySet, Zenon
<1> DEFINE old == IF o.price \in P
                  THEN [qty |-> Shares(os, At(o.price)),
                        orders |-> Cardinality(At(o.price))]
                  ELSE [qty |-> 0, orders |-> 0]
           levels == [p \in P |-> [qty |-> Shares(os, At(p)),
                                   orders |-> Cardinality(At(p))]]
<1>13. old = [qty |-> Shares(os, At(o.price)), orders |-> Cardinality(At(o.price))]
  BY <1>12, Zenon
<1>14. SideOf(os, o.book, o.side) =
         [levels |-> levels, qty |-> Shares(os, R), orders |-> Cardinality(R)]
  BY Zenon DEF SideOf
<1>15. LevelAdd(SideOf(os, o.book, o.side), o.price, o.qty)
         = [levels |-> Put(levels, o.price, [qty |-> old.qty + o.qty,
                                             orders |-> old.orders + 1]),
            qty |-> Shares(os, R) + o.qty, orders |-> Cardinality(R) + 1]
  BY <1>14 DEF LevelAdd
<1>16. SideOf(ot, o.book, o.side)
         = [levels |-> [p \in P \cup {o.price} |->
                          [qty |-> Shares(ot, RestingAt(ot, o.book, o.side, p)),
                           orders |-> Cardinality(RestingAt(ot, o.book, o.side, p))]],
            qty |-> Shares(os, R) + o.qty, orders |-> Cardinality(R) + 1]
  <2> HIDE DEF ot, R, P
  <2> QED BY <1>5, <1>7, <1>10, <1>11, Zenon DEF SideOf
<1>17. [p \in P \cup {o.price} |->
          [qty |-> Shares(ot, RestingAt(ot, o.book, o.side, p)),
           orders |-> Cardinality(RestingAt(ot, o.book, o.side, p))]]
         = Put(levels, o.price, [qty |-> old.qty + o.qty, orders |-> old.orders + 1])
  <2> HIDE DEF ot, R, At, P, old
  <2>1. ASSUME NEW p \in P \cup {o.price}
        PROVE  [qty |-> Shares(ot, RestingAt(ot, o.book, o.side, p)),
                orders |-> Cardinality(RestingAt(ot, o.book, o.side, p))]
               = IF p = o.price THEN [qty |-> old.qty + o.qty,
                                      orders |-> old.orders + 1]
                                ELSE levels[p]
    BY <1>6, <1>8, <1>9, <1>10, <1>13, Zenon
  <2> QED BY <2>1, Zenon DEF Put
<1> QED BY <1>15, <1>16, <1>17, Zenon

(* Aggregating after a new order is AddTo on the aggregation before it.     *)
LEMMA AggregateAdd ==
  ASSUME NEW os, Table(os), Finite(os), NEW n, n \notin DOMAIN os,
         NEW o \in Order
  PROVE  Aggregate(Put(os, n, o)) = AddTo(Aggregate(os), o)
<1>1. o.book \in Books /\ o.side \in Sides
  BY Zenon DEF Order
<1>2. \A b \in Books, s \in Sides :
        SideOf(Put(os, n, o), b, s)
          = IF b = o.book /\ s = o.side
            THEN LevelAdd(SideOf(os, o.book, o.side), o.price, o.qty)
            ELSE SideOf(os, b, s)
  BY OtherSides, OwnSide
<1> QED BY <1>1, <1>2, AggregateSides DEF AddTo

-----------------------------------------------------------------------------
(* What SideLevels::remove undoes. *)

(* A side all of whose levels hold shares. *)
WellFormed(sd) ==
  /\ sd = [levels |-> sd.levels, qty |-> sd.qty, orders |-> sd.orders]
  /\ sd.levels = [p \in DOMAIN sd.levels |-> sd.levels[p]]
  /\ \A p \in DOMAIN sd.levels :
       /\ sd.levels[p] = [qty |-> sd.levels[p].qty,
                          orders |-> sd.levels[p].orders]
       /\ sd.levels[p].qty \in Nat \ {0}
       /\ sd.levels[p].orders \in Nat
  /\ sd.qty \in Nat
  /\ sd.orders \in Nat

(* Putting back what was there, and putting twice.                          *)
LEMMA PutPut ==
  ASSUME NEW f, NEW n, NEW o, NEW r
  PROVE  Put(Put(f, n, o), n, r) = Put(f, n, r)
BY Zenon DEF Put

(* Erasing what was just put at a free place gives the map back.            *)
LEMMA DropPut ==
  ASSUME NEW f, f = [m \in DOMAIN f |-> f[m]], NEW n, n \notin DOMAIN f, NEW o
  PROVE  Drop(Put(f, n, o), n) = f
BY Zenon DEF Put, Drop

(* Overwriting with the value that is there changes nothing.                *)
LEMMA PutSame ==
  ASSUME NEW f, f = [m \in DOMAIN f |-> f[m]], NEW n \in DOMAIN f
  PROVE  Put(f, n, f[n]) = f
BY Zenon DEF Put

(* A full removal undoes the add: levels.cpp remove() after add().          *)
LEMMA RemoveUndoesAdd ==
  ASSUME NEW sd, WellFormed(sd), NEW p, NEW q \in Nat \ {0}
  PROVE  LevelRemove(LevelAdd(sd, p, q), p, q, TRUE) = sd
<1> DEFINE old == IF p \in DOMAIN sd.levels THEN sd.levels[p]
                  ELSE [qty |-> 0, orders |-> 0]
           new == [qty |-> old.qty + q, orders |-> old.orders + 1]
           up == LevelAdd(sd, p, q)
<1>1. old.qty \in Nat /\ old.orders \in Nat
      /\ old = [qty |-> old.qty, orders |-> old.orders]
  BY Zenon DEF WellFormed
<1>2. up.levels = Put(sd.levels, p, new) /\ up.qty = sd.qty + q
      /\ up.orders = sd.orders + 1
  BY Zenon DEF LevelAdd
<1>3. p \in DOMAIN up.levels /\ up.levels[p] = new
  BY <1>2, Zenon DEF Put
<1>4. CanRemove(up, p, q)
  <2> HIDE DEF old, up
  <2> QED BY <1>1, <1>3 DEF CanRemove
<1>5. new.qty - q = old.qty /\ Saturated(new.orders) = old.orders
      /\ up.qty - q = sd.qty /\ Saturated(up.orders) = sd.orders
  <2>1. sd.qty \in Nat /\ sd.orders \in Nat
    BY Zenon DEF WellFormed
  <2> HIDE DEF old, up
  <2> QED BY <1>1, <1>2, <2>1 DEF Saturated
<1>6. LevelRemove(up, p, q, TRUE)
        = [levels |-> IF old.qty = 0 THEN Drop(up.levels, p)
                                     ELSE Put(up.levels, p, old),
           qty |-> sd.qty, orders |-> sd.orders]
  <2> HIDE DEF old, new, up
  <2> QED BY <1>1, <1>3, <1>4, <1>5, Zenon DEF LevelRemove
<1>7. CASE p \in DOMAIN sd.levels
  <2>1. old = sd.levels[p] /\ old.qty # 0
    BY <1>7, Zenon DEF WellFormed
  <2>2. Put(up.levels, p, old) = Put(sd.levels, p, old)
    BY <1>2, PutPut
  <2>3. Put(sd.levels, p, sd.levels[p]) = sd.levels
    BY <1>7, PutSame, Zenon DEF WellFormed
  <2> HIDE DEF old, up
  <2> QED BY <1>6, <2>1, <2>2, <2>3, Zenon DEF WellFormed, up
<1>8. CASE p \notin DOMAIN sd.levels
  <2>1. old.qty = 0
    BY <1>8, Zenon
  <2>2. Drop(up.levels, p) = sd.levels
    BY <1>2, <1>8, DropPut DEF WellFormed
  <2> HIDE DEF old, up
  <2> QED BY <1>6, <2>1, <2>2, Zenon DEF WellFormed, up
<1> QED BY <1>7, <1>8, Zenon

(* Taking part of an order off is having added less of it.                  *)
LEMMA ReduceIsAddLess ==
  ASSUME NEW sd, WellFormed(sd), NEW p, NEW q \in Nat, NEW x \in Nat, x < q
  PROVE  LevelRemove(LevelAdd(sd, p, q), p, x, FALSE) = LevelAdd(sd, p, q - x)
<1> DEFINE old == IF p \in DOMAIN sd.levels THEN sd.levels[p]
                  ELSE [qty |-> 0, orders |-> 0]
           new == [qty |-> old.qty + q, orders |-> old.orders + 1]
           less == [qty |-> old.qty + (q - x), orders |-> old.orders + 1]
           up == LevelAdd(sd, p, q)
<1>1. old.qty \in Nat /\ old.orders \in Nat
  BY Zenon DEF WellFormed
<1>2. up.levels = Put(sd.levels, p, new) /\ up.qty = sd.qty + q
      /\ up.orders = sd.orders + 1
  BY Zenon DEF LevelAdd
<1>3. p \in DOMAIN up.levels /\ up.levels[p] = new
  BY <1>2, Zenon DEF Put
<1>4. CanRemove(up, p, x) /\ new.qty - x = less.qty /\ less.qty # 0
      /\ up.qty - x = sd.qty + (q - x)
  <2>1. sd.qty \in Nat
    BY Zenon DEF WellFormed
  <2> HIDE DEF old, up
  <2> QED BY <1>1, <1>2, <1>3, <2>1 DEF CanRemove
<1>5. LevelRemove(up, p, x, FALSE)
        = [levels |-> Put(up.levels, p, less),
           qty |-> sd.qty + (q - x), orders |-> sd.orders + 1]
  <2>1. less = [qty |-> new.qty - x, orders |-> new.orders]
    BY <1>4, Zenon
  <2> HIDE DEF old, up, new, less
  <2> QED BY <1>2, <1>3, <1>4, <2>1, Zenon DEF LevelRemove
<1>6. Put(up.levels, p, less) = Put(sd.levels, p, less)
  BY <1>2, PutPut
<1>7. LevelAdd(sd, p, q - x) = [levels |-> Put(sd.levels, p, less),
                                qty |-> sd.qty + (q - x), orders |-> sd.orders + 1]
  BY Zenon DEF LevelAdd
<1> QED BY <1>5, <1>6, <1>7, Zenon

(* No order is for zero shares. *)
Positive(t) == \A n \in DOMAIN t : t[n].qty # 0

(* The sides of a table without empty orders are well formed.               *)
LEMMA SidesWellFormed ==
  ASSUME NEW os, Table(os), Finite(os), Positive(os), NEW b, NEW s
  PROVE  WellFormed(SideOf(os, b, s))
<1> DEFINE R == Resting(os, b, s)
           At(p) == RestingAt(os, b, s, p)
<1>1. IsFiniteSet(R) /\ (\A p : IsFiniteSet(At(p))) /\ \A m \in R : os[m].qty \in Nat
  BY RestingFinite, Zenon
<1>2. \A p : At(p) \in SUBSET R
  BY Zenon DEF RestingAt
<1>3. R \in SUBSET DOMAIN os
  BY Zenon DEF Resting
<1>4. ASSUME NEW p \in {os[m].price : m \in R}
      PROVE  Shares(os, At(p)) \in Nat \ {0}
  <2>1. PICK x \in R : os[x].price = p
    BY <1>4, Zenon
  <2>2. x \in At(p)
    BY <2>1, Zenon DEF RestingAt
  <2> DEFINE Rest == At(p) \ {x}
  <2> HIDE DEF At, R
  <2>3. \A m \in At(p) : os[m].qty \in Nat
    BY <1>1, <1>2, Zenon
  <2>4. IsFiniteSet(Rest)
    BY <1>1, FS_RemoveElement, Zenon
  <2>5. At(p) = Rest \cup {x} /\ x \notin Rest
    BY <2>2, Zenon
  <2>6. Shares(os, Rest) \in Nat
    BY <2>3, <2>4, SharesNat, Zenon
  <2> HIDE DEF Rest
  <2>7. Shares(os, Rest \cup {x}) = Shares(os, Rest) + os[x].qty
    BY <2>3, <2>4, <2>5, SharesAdd, Zenon
  <2>8. os[x].qty \in Nat \ {0}
    BY <1>1, <1>3, <2>1, Zenon DEF Positive
  <2> QED BY <2>5, <2>6, <2>7, <2>8
<1>5. Shares(os, R) \in Nat /\ Cardinality(R) \in Nat
      /\ \A p : Cardinality(At(p)) \in Nat
  <2> HIDE DEF R, At
  <2> QED BY <1>1, SharesNat, FS_CardinalityType, Zenon
<1> DEFINE sd == [levels |-> [p \in {os[m].price : m \in R} |->
                                [qty |-> Shares(os, At(p)),
                                 orders |-> Cardinality(At(p))]],
                  qty |-> Shares(os, R), orders |-> Cardinality(R)]
<1>6. WellFormed(sd)
  <2> HIDE DEF R, At
  <2> QED BY <1>4, <1>5, Zenon DEF WellFormed
<1> QED BY <1>6, Zenon DEF SideOf

(* A map from books and sides, and AddTo and RemoveFrom side by side. *)
Shaped(bk) == bk = [b \in Books |-> [s \in Sides |-> bk[b][s]]]

AddedSides(bk, o) ==
  [b \in Books |-> [s \in Sides |->
     IF b = o.book /\ s = o.side
     THEN LevelAdd(bk[b][s], o.price, o.qty) ELSE bk[b][s]]]

RemovedSides(bk, o, q, gone) ==
  [b \in Books |-> [s \in Sides |->
     IF b = o.book /\ s = o.side
     THEN LevelRemove(bk[b][s], o.price, q, gone) ELSE bk[b][s]]]

(* AddTo and RemoveFrom change one side of one book.                        *)
LEMMA OneSide ==
  ASSUME NEW bk, Shaped(bk), NEW o, o.book \in Books, o.side \in Sides
  PROVE  /\ AddTo(bk, o) = AddedSides(bk, o)
         /\ \A q, gone : RemoveFrom(bk, o, q, gone) = RemovedSides(bk, o, q, gone)
<1>1. ASSUME NEW v
      PROVE  [bk EXCEPT ![o.book][o.side] = v]
               = [b \in Books |-> [s \in Sides |->
                    IF b = o.book /\ s = o.side THEN v ELSE bk[b][s]]]
  <2>1. [bk EXCEPT ![o.book][o.side] = v]
          = [b \in Books |-> IF b = o.book THEN [bk[b] EXCEPT ![o.side] = v]
                                           ELSE bk[b]]
    BY Zenon DEF Shaped
  <2>2. \A b \in Books : bk[b] = [s \in Sides |-> bk[b][s]]
    BY Zenon DEF Shaped
  <2>3. \A b \in Books :
          [bk[b] EXCEPT ![o.side] = v]
            = [s \in Sides |-> IF s = o.side THEN v ELSE bk[b][s]]
    BY <2>2, Zenon
  <2> QED BY <2>1, <2>2, <2>3, Zenon
<1>2. AddTo(bk, o) =
        [b \in Books |-> [s \in Sides |->
           IF b = o.book /\ s = o.side
           THEN LevelAdd(bk[o.book][o.side], o.price, o.qty) ELSE bk[b][s]]]
  BY <1>1, Zenon DEF AddTo
<1>3. ASSUME NEW q, NEW gone
      PROVE  RemoveFrom(bk, o, q, gone) =
               [b \in Books |-> [s \in Sides |->
                  IF b = o.book /\ s = o.side
                  THEN LevelRemove(bk[o.book][o.side], o.price, q, gone)
                  ELSE bk[b][s]]]
  BY <1>1, Zenon DEF RemoveFrom
<1> QED BY <1>2, <1>3 DEF AddedSides, RemovedSides

(* Removing an order by its full quantity is aggregating without it.        *)
LEMMA AggregateDrop ==
  ASSUME NEW os, Table(os), Finite(os), Positive(os), NEW n \in DOMAIN os
  PROVE  RemoveFrom(Aggregate(os), os[n], os[n].qty, TRUE)
           = Aggregate(Drop(os, n))
<1> DEFINE o == os[n]
           rest == Drop(os, n)
<1>1. Table(rest) /\ Finite(rest) /\ Positive(rest)
  <2>1. rest = [m \in DOMAIN os \ {n} |-> os[m]]
    BY Zenon DEF Drop
  <2>2. IsFiniteSet(DOMAIN os \ {n})
    BY FS_RemoveElement, Zenon DEF Finite
  <2> QED BY <2>1, <2>2, Zenon DEF Table, Finite, Positive
<1>2. os = Put(rest, n, o) /\ n \notin DOMAIN rest
  BY Zenon DEF Put, Drop, Finite
<1>3. o \in Order /\ o.qty \in Nat \ {0} /\ o.book \in Books /\ o.side \in Sides
  <2>1. o \in Order /\ o.qty # 0
    BY Zenon DEF Table, Positive
  <2> HIDE DEF o
  <2> QED BY <2>1, Zenon DEF Order
<1> HIDE DEF o, rest
<1>4. Aggregate(os) = AddTo(Aggregate(rest), o)
  BY <1>1, <1>2, <1>3, AggregateAdd, Zenon
<1> DEFINE sd == SideOf(rest, o.book, o.side)
<1>5. LevelRemove(LevelAdd(sd, o.price, o.qty), o.price, o.qty, TRUE) = sd
  BY <1>1, <1>3, SidesWellFormed, RemoveUndoesAdd, Zenon
<1>6. RemoveFrom(AddTo(Aggregate(rest), o), o, o.qty, TRUE) = Aggregate(rest)
  <2> DEFINE bk == Aggregate(rest)
             up == AddTo(bk, o)
  <2>1. bk = [b \in Books |-> [s \in Sides |-> SideOf(rest, b, s)]]
    BY AggregateSides, Zenon
  <2>2. Shaped(bk) /\ bk[o.book][o.side] = sd
    BY <1>3, <2>1 DEF Shaped
  <2> HIDE DEF bk, sd
  <2>3. up = AddedSides(bk, o)
    BY <1>3, <2>2, OneSide, Zenon
  <2> HIDE DEF up
  <2>4. Shaped(up)
    BY <2>3, Zenon DEF Shaped, AddedSides
  <2>5. RemoveFrom(up, o, o.qty, TRUE) = RemovedSides(up, o, o.qty, TRUE)
    BY <1>3, <2>4, OneSide, Zenon
  <2>6. ASSUME NEW b \in Books, NEW s \in Sides
        PROVE  (IF b = o.book /\ s = o.side
                THEN LevelRemove(up[b][s], o.price, o.qty, TRUE) ELSE up[b][s])
                 = bk[b][s]
    BY <1>5, <2>2, <2>3, Zenon DEF AddedSides
  <2>7. RemoveFrom(up, o, o.qty, TRUE) = bk
    BY <2>2, <2>5, <2>6, ZenonT(30) DEF RemovedSides, Shaped
  <2> QED BY <2>7, Zenon DEF up, bk
<1> QED BY <1>4, <1>6, Zenon DEF o, rest

(* Removing part of an order is aggregating with the rest of it.            *)
LEMMA AggregateReduce ==
  ASSUME NEW os, Table(os), Finite(os), Positive(os), NEW n \in DOMAIN os,
         NEW x \in Nat, x < os[n].qty
  PROVE  RemoveFrom(Aggregate(os), os[n], x, FALSE)
           = Aggregate(Put(os, n, [os[n] EXCEPT !.qty = os[n].qty - x]))
<1> DEFINE o == os[n]
           less == [o EXCEPT !.qty = o.qty - x]
           rest == Drop(os, n)
<1>1. Table(rest) /\ Finite(rest) /\ Positive(rest)
  <2>1. rest = [m \in DOMAIN os \ {n} |-> os[m]]
    BY Zenon DEF Drop
  <2>2. IsFiniteSet(DOMAIN os \ {n})
    BY FS_RemoveElement, Zenon DEF Finite
  <2> QED BY <2>1, <2>2, Zenon DEF Table, Finite, Positive
<1>2. os = Put(rest, n, o) /\ n \notin DOMAIN rest
  BY Zenon DEF Put, Drop, Finite
<1>3. Put(os, n, less) = Put(rest, n, less)
  BY Zenon DEF Put, Drop
<1>4. o \in Order /\ x < o.qty
  BY Zenon DEF Table
<1> HIDE DEF o, rest
<1>5. o.qty \in Nat /\ o.book \in Books /\ o.side \in Sides
  BY <1>4, Zenon DEF Order
<1>6. less \in Order /\ less.qty = o.qty - x /\ less.book = o.book
      /\ less.side = o.side /\ less.price = o.price
  BY <1>4, <1>5 DEF Order
<1> HIDE DEF less
<1>7. Aggregate(os) = AddTo(Aggregate(rest), o)
  BY <1>1, <1>2, <1>4, AggregateAdd, Zenon
<1>8. Aggregate(Put(rest, n, less)) = AddTo(Aggregate(rest), less)
  BY <1>1, <1>2, <1>6, AggregateAdd, Zenon
<1> DEFINE sd == SideOf(rest, o.book, o.side)
<1>9. LevelRemove(LevelAdd(sd, o.price, o.qty), o.price, x, FALSE)
        = LevelAdd(sd, less.price, less.qty)
  BY <1>1, <1>4, <1>5, <1>6, SidesWellFormed, ReduceIsAddLess, Zenon
<1>10. RemoveFrom(AddTo(Aggregate(rest), o), o, x, FALSE)
         = AddTo(Aggregate(rest), less)
  <2> DEFINE bk == Aggregate(rest)
             up == AddTo(bk, o)
  <2>1. bk = [b \in Books |-> [s \in Sides |-> SideOf(rest, b, s)]]
    BY AggregateSides, Zenon
  <2>2. Shaped(bk) /\ bk[o.book][o.side] = sd
    BY <1>5, <2>1 DEF Shaped
  <2> HIDE DEF bk, sd
  <2>3. up = AddedSides(bk, o)
    BY <1>5, <2>2, OneSide, Zenon
  <2> HIDE DEF up
  <2>4. Shaped(up)
    BY <2>3, Zenon DEF Shaped, AddedSides
  <2>5. RemoveFrom(up, o, x, FALSE) = RemovedSides(up, o, x, FALSE)
    BY <1>5, <2>4, OneSide, Zenon
  <2>6. AddTo(bk, less) = AddedSides(bk, less)
    BY <1>5, <1>6, <2>2, OneSide, Zenon
  <2>7. ASSUME NEW b \in Books, NEW s \in Sides
        PROVE  (IF b = o.book /\ s = o.side
                THEN LevelRemove(up[b][s], o.price, x, FALSE) ELSE up[b][s])
               = (IF b = less.book /\ s = less.side
                  THEN LevelAdd(bk[b][s], less.price, less.qty) ELSE bk[b][s])
    BY <1>6, <1>9, <2>2, <2>3, Zenon DEF AddedSides
  <2>8. RemovedSides(up, o, x, FALSE) = AddedSides(bk, less)
    BY <2>7, ZenonT(30) DEF AddedSides, RemovedSides
  <2> QED BY <2>5, <2>6, <2>8, Zenon DEF up, bk
<1>11. RemoveFrom(Aggregate(os), o, x, FALSE) = Aggregate(Put(os, n, less))
  BY <1>3, <1>7, <1>8, <1>10, Zenon
<1> QED BY <1>11, Zenon DEF o, less

-----------------------------------------------------------------------------
(* Tables under the messages. *)

(* Erasing an order keeps a table finite and without empty orders.          *)
LEMMA DropSound ==
  ASSUME NEW t, NEW n, Table(t), Finite(t), Positive(t)
  PROVE  Table(Drop(t, n)) /\ Finite(Drop(t, n)) /\ Positive(Drop(t, n))
<1>1. Drop(t, n) = [m \in DOMAIN t \ {n} |-> t[m]]
  BY Zenon DEF Drop
<1>2. IsFiniteSet(DOMAIN t \ {n})
  BY FS_RemoveElement, Zenon DEF Finite
<1> QED BY <1>1, <1>2, Zenon DEF Table, Finite, Positive

(* So does putting in an order that is not empty.                           *)
LEMMA PutSound ==
  ASSUME NEW t, NEW n \in Numbers \cup {0}, NEW o \in Order, o.qty # 0,
         Table(t), Finite(t), Positive(t)
  PROVE  Table(Put(t, n, o)) /\ Finite(Put(t, n, o)) /\ Positive(Put(t, n, o))
<1>1. Put(t, n, o) = [m \in DOMAIN t \cup {n} |-> IF m = n THEN o ELSE t[m]]
  BY Zenon DEF Put
<1>2. IsFiniteSet(DOMAIN t \cup {n})
  BY FS_AddElement, Zenon DEF Finite
<1> QED BY <1>1, <1>2, Zenon DEF Table, Finite, Positive

(* insert(), collision or not, keeps the levels the aggregation.            *)
LEMMA InsertMatches ==
  ASSUME NEW os, Table(os), Finite(os), Positive(os), NEW n,
         NEW o \in Order, Insert(os, Aggregate(os), n, o)
  PROVE  books' = Aggregate(orders')
<1>1. orders' = Put(os, n, o)
  BY Zenon DEF Insert
<1>2. CASE n \in DOMAIN os
  <2>1. books' = AddTo(RemoveFrom(Aggregate(os), os[n], os[n].qty, TRUE), o)
    BY <1>2, Zenon DEF Insert
  <2>2. books' = AddTo(Aggregate(Drop(os, n)), o)
    BY <1>2, <2>1, AggregateDrop, Zenon
  <2>3. Table(Drop(os, n)) /\ Finite(Drop(os, n)) /\ n \notin DOMAIN Drop(os, n)
    BY DropSound, Zenon DEF Drop
  <2>4. Put(Drop(os, n), n, o) = Put(os, n, o)
    BY Zenon DEF Put, Drop
  <2> QED BY <1>1, <2>2, <2>3, <2>4, AggregateAdd, Zenon
<1>3. CASE n \notin DOMAIN os
  <2>1. books' = AddTo(Aggregate(os), o)
    BY <1>3, Zenon DEF Insert
  <2> QED BY <1>1, <1>3, <2>1, AggregateAdd, Zenon
<1> QED BY <1>2, <1>3, Zenon

(* insert() changes the book of its order and of the one it collides with.  *)
LEMMA InsertTouches ==
  ASSUME NEW os, Table(os), NEW bk, Shaped(bk), NEW n, NEW o \in Order,
         Insert(os, bk, n, o), NEW b \in Books, b # o.book,
         n \in DOMAIN os => os[n].book # b
  PROVE  books'[b] = bk[b]
<1>0. o.book \in Books /\ o.side \in Sides
  BY Zenon DEF Order
<1>1. CASE n \in DOMAIN os
  <2> DEFINE mid == RemoveFrom(bk, os[n], os[n].qty, TRUE)
  <2>1. os[n].book \in Books /\ os[n].side \in Sides
    BY <1>1, Zenon DEF Table, Order
  <2>2. mid = RemovedSides(bk, os[n], os[n].qty, TRUE)
    BY <2>1, OneSide, Zenon
  <2>3. Shaped(mid)
    BY <2>2, Zenon DEF Shaped, RemovedSides
  <2>4. books' = AddTo(mid, o)
    BY <1>1, Zenon DEF Insert
  <2>5. mid[b] = bk[b]
    BY <1>1, <2>2, Zenon DEF RemovedSides, Shaped
  <2> HIDE DEF mid
  <2>6. books' = AddedSides(mid, o)
    BY <1>0, <2>3, <2>4, OneSide, Zenon
  <2>7. books'[b] = mid[b]
    BY <2>3, <2>6, Zenon DEF AddedSides, Shaped
  <2> QED BY <2>5, <2>7, Zenon
<1>2. CASE n \notin DOMAIN os
  <2>1. books' = AddedSides(bk, o)
    BY <1>0, <1>2, OneSide, Zenon DEF Insert
  <2> QED BY <2>1, Zenon DEF AddedSides, Shaped
<1> QED BY <1>1, <1>2, Zenon

(* Aggregations have the shape of a book store.                             *)
LEMMA AggregateShaped == ASSUME NEW os PROVE Shaped(Aggregate(os))
BY AggregateSides, Zenon DEF Shaped

-----------------------------------------------------------------------------
(* No message of the feed brings an order for zero shares.  A zero would    *)
(* break the levels: remove() erases a level whose quantity is 0 even when  *)
(* an order still rests on it.                                              *)
NoEmptyOrders == 0 \notin Qtys /\ \A o \in ZeroOrders : o.qty # 0

(* Every live number is used on a book it may be used on. *)
AtHome == \A n \in DOMAIN orders \ {0} : <<n, orders[n].book>> \in Home

BookInv ==
  /\ Finite(orders) /\ Positive(orders)
  /\ Finite(dbOrders) /\ Positive(dbOrders)
  /\ AtHome
  /\ 0 \in DOMAIN orders => 0 \in DOMAIN dbOrders
  /\ LevelsMatchOrders
  /\ DOMAIN dbRows \subseteq Books
  /\ RowsFreshAlone

(* Publishing the row of the one book that changed keeps the rows fresh     *)
(* (make_update, apply_update).                                             *)
LEMMA UpsertKeepsFresh ==
  ASSUME RowsFreshAlone, DOMAIN dbRows \subseteq Books,
         NEW b0 \in Books, Upsert(b0),
         0 \in DOMAIN orders => 0 \in DOMAIN orders',
         \A b \in Books \ {b0} :
           Alone(b) /\ 0 \notin DOMAIN orders => books'[b] = books[b]
  PROVE  RowsFreshAlone' /\ DOMAIN dbRows' \subseteq Books
<1>1. dbRows' = [b \in DOMAIN dbRows \cup {b0} |->
                   IF b = b0 THEN Row(books', collided', b0) ELSE dbRows[b]]
  BY Zenon DEF Upsert, Put
<1>2. ASSUME 0 \notin DOMAIN orders', NEW b \in DOMAIN dbRows', Alone(b)
      PROVE  dbRows'[b].book = Row(books', collided', b).book
  <2>1. CASE b = b0
    BY <1>1, <2>1, Zenon
  <2>2. CASE b # b0
    <3>1. b \in DOMAIN dbRows /\ dbRows'[b] = dbRows[b] /\ b \in Books
      BY <1>1, <1>2, <2>2, Zenon
    <3>2. dbRows[b].book = Row(books, collided, b).book
      BY <1>2, <3>1, Zenon DEF RowsFreshAlone, Shown
    <3>3. books'[b] = books[b]
      BY <1>2, <2>2, <3>1, Zenon
    <3>4. Row(books', collided', b).book = Row(books, collided, b).book
      BY <3>3, Zenon DEF Row
    <3> QED BY <3>1, <3>2, <3>4, Zenon
  <2> QED BY <2>1, <2>2, Zenon
<1>3. RowsFreshAlone'
  BY <1>2, Zenon DEF RowsFreshAlone, Shown, Alone
<1> QED BY <1>1, <1>3, Zenon

-----------------------------------------------------------------------------
(* jnxdb's table beside the FH's store. *)

(* Two tables that agree on the real order numbers. *)
Agree(t, u) ==
  \A n \in Numbers :
    /\ n \in DOMAIN t <=> n \in DOMAIN u
    /\ n \in DOMAIN u => t[n] = u[n]

(* Inserting the same order keeps two tables in step (orders_[n] = o).      *)
LEMMA PutAgree ==
  ASSUME NEW t, NEW u, NEW n, NEW o, Agree(t, u)
  PROVE  Agree(Put(t, n, o), Put(u, n, o))
BY Zenon DEF Agree, Put

(* Erasing the same number keeps two tables in step (orders_.erase(n)).     *)
LEMMA DropAgree ==
  ASSUME NEW t, NEW u, NEW n, Agree(t, u)
  PROVE  Agree(Drop(t, n), Drop(u, n))
BY Zenon DEF Agree, Drop

(* A table stays a table of orders when an order is put into it.            *)
LEMMA PutTable ==
  ASSUME NEW t, NEW n \in Numbers \cup {0}, NEW o \in Order, Table(t)
  PROVE  Table(Put(t, n, o))
BY Zenon DEF Table, Put

(* Erasing a number leaves a table of orders.                               *)
LEMMA DropTable ==
  ASSUME NEW t, NEW n, Table(t)
  PROVE  Table(Drop(t, n))
BY Zenon DEF Table, Drop

(* The clamp of execute(): what remains of an order is again a quantity.    *)
LEMMA ExecutedBounded ==
  ASSUME NEW n \in DOMAIN orders, Table(orders), NEW q \in Qtys
  PROVE  orders[n].qty - Executed(n, q) \in Nat
BY OrderStoreAssumption DEF Table, Order, Executed

(* The E delta carries the price the order already has: applying it is the  *)
(* FH's own change of quantity.                                             *)
LEMMA ExecuteAgree ==
  ASSUME NEW n \in Numbers, n \in DOMAIN orders, Table(orders),
         Agree(dbOrders, orders), NEW left \in Nat
  PROVE  Agree(DeltaExecute(dbOrders, n, orders[n].price, left),
               IF left = 0 THEN Drop(orders, n)
                           ELSE Put(orders, n, [orders[n] EXCEPT !.qty = left]))
<1>1. n \in DOMAIN dbOrders /\ dbOrders[n] = orders[n] /\ orders[n] \in Order
  BY Zenon DEF Agree, Table
<1>2. [dbOrders[n] EXCEPT !.qty = left, !.price = orders[n].price]
        = [orders[n] EXCEPT !.qty = left]
  BY <1>1, Zenon DEF Order
<1>3. CASE left = 0
  BY <1>1, <1>3, DropAgree, Zenon DEF DeltaExecute
<1>4. CASE left # 0
  BY <1>1, <1>2, <1>4, PutAgree, Zenon DEF DeltaExecute
<1> QED BY <1>3, <1>4, Zenon

(* The initial tables are empty (Tables(), OrderBookStore()).               *)
LEMMA InitMirrored == BookInit => BookTypeOK /\ OrdersMirrored
BY Zenon DEF BookInit, StoreInit, EmptyMap, BookTypeOK, OrdersMirrored

(* Every message, and a restart of the FH, keeps tables and store in step.  *)
LEMMA NextMirrored ==
  BookTypeOK /\ OrdersMirrored /\ [BookNext]_bookVars => BookTypeOK' /\ OrdersMirrored'
<1> SUFFICES ASSUME BookTypeOK, OrdersMirrored, [BookNext]_bookVars
             PROVE  /\ Table(orders') /\ Table(dbOrders')
                    /\ Agree(dbOrders', orders') /\ collided' \in BOOLEAN
  BY Zenon DEF BookTypeOK, OrdersMirrored, Table, Agree
<1>0. /\ Table(orders) /\ Table(dbOrders) /\ Agree(dbOrders, orders)
      /\ collided \in BOOLEAN
  BY Zenon DEF BookTypeOK, OrdersMirrored, Table, Agree
<1>1. ASSUME NEW h \in Home, NEW o \in NewOrders(h[2]), OnAdd(h[1], o)
      PROVE  /\ Table(orders') /\ Table(dbOrders')
             /\ Agree(dbOrders', orders') /\ collided' \in BOOLEAN
  <2>1. h[1] \in Numbers /\ h[2] \in Books /\ o \in Order
    BY <1>1, OrderStoreAssumption, Zenon DEF NewOrders, Order
  <2>2. orders' = Put(orders, h[1], o) /\ dbOrders' = Put(dbOrders, h[1], o)
    BY <1>1, Zenon DEF OnAdd, Add, Insert, DeltaAdd
  <2>3. collided' \in BOOLEAN
    BY <1>1, Zenon DEF OnAdd, Add, Insert
  <2> QED BY <1>0, <2>1, <2>2, <2>3, PutAgree, PutTable, Zenon
<1>2. ASSUME NEW b \in Books, OnReferencePrice(b)
      PROVE  /\ Table(orders') /\ Table(dbOrders')
             /\ Agree(dbOrders', orders') /\ collided' \in BOOLEAN
  BY <1>0, <1>2, Zenon DEF OnReferencePrice, storeVars
<1>3. ASSUME NEW o \in ZeroOrders, OnZeroF(o)
      PROVE  /\ Table(orders') /\ Table(dbOrders')
             /\ Agree(dbOrders', orders') /\ collided' \in BOOLEAN
  <2>1. o \in Order
    BY <1>3, BookMirrorAssumption, Zenon
  <2>2. orders' = orders /\ collided' = collided /\ dbOrders' = Put(dbOrders, 0, o)
    BY <1>3, Zenon DEF OnZeroF, storeVars, DeltaAdd
  <2>3. Agree(Put(dbOrders, 0, o), orders)
    BY <1>0, OrderStoreAssumption, Zenon DEF Agree, Put
  <2> QED BY <1>0, <2>1, <2>2, <2>3, PutTable, Zenon
<1>4. ASSUME NEW n \in Numbers, NEW q \in Qtys, OnExecute(n, q)
      PROVE  /\ Table(orders') /\ Table(dbOrders')
             /\ Agree(dbOrders', orders') /\ collided' \in BOOLEAN
  <2> DEFINE left == orders[n].qty - Executed(n, q)
             after == IF left = 0 THEN Drop(orders, n)
                      ELSE Put(orders, n, [orders[n] EXCEPT !.qty = left])
             dbAfter == DeltaExecute(dbOrders, n, orders[n].price, left)
  <2>1. n \in DOMAIN orders /\ orders' = after /\ dbOrders' = dbAfter
        /\ collided' = collided
    BY <1>4, Zenon DEF OnExecute, Execute
  <2>2. left \in Nat
    BY <1>0, <2>1, ExecutedBounded, Zenon
  <2> HIDE DEF left
  <2>3. Agree(dbAfter, after)
    BY <1>0, <2>1, <2>2, ExecuteAgree, Zenon
  <2>4. [orders[n] EXCEPT !.qty = left] \in Order
    BY <1>0, <2>1, <2>2, Zenon DEF Table, Order
  <2>5. Table(after)
    BY <1>0, <2>4, PutTable, DropTable, Zenon
  <2>6. [dbOrders[n] EXCEPT !.qty = left, !.price = orders[n].price] \in Order
    BY <1>0, <2>1, <2>2, Zenon DEF Table, Order, Agree
  <2>7. Table(dbAfter)
    BY <1>0, <2>6, PutTable, DropTable, Zenon DEF DeltaExecute
  <2> QED BY <1>0, <2>1, <2>3, <2>5, <2>7, Zenon
<1>5. ASSUME NEW n \in Numbers, OnDelete(n)
      PROVE  /\ Table(orders') /\ Table(dbOrders')
             /\ Agree(dbOrders', orders') /\ collided' \in BOOLEAN
  <2>1. orders' = Drop(orders, n) /\ dbOrders' = Drop(dbOrders, n)
        /\ collided' = collided
    BY <1>5, Zenon DEF OnDelete, Delete, DeltaDelete
  <2> QED BY <1>0, <2>1, DropAgree, DropTable, Zenon
<1>6. ASSUME NEW orig \in Numbers, NEW new \in Numbers, NEW p \in Prices,
             NEW q \in Qtys, OnReplace(orig, new, p, q)
      PROVE  /\ Table(orders') /\ Table(dbOrders')
             /\ Agree(dbOrders', orders') /\ collided' \in BOOLEAN
  <2> DEFINE o == Replacement(orig, p, q)
  <2>1. orig \in DOMAIN orders
        /\ orders' = Put(Drop(orders, orig), new, o)
        /\ dbOrders' = Put(Drop(dbOrders, orig), new, o)
    BY <1>6, Zenon DEF OnReplace, Replace, Insert, DeltaReplace
  <2>2. collided' \in BOOLEAN
    BY <1>6, Zenon DEF OnReplace, Replace, Insert
  <2>3. o \in Order
    BY <1>0, <2>1, OrderStoreAssumption, Zenon DEF Replacement, Table, Order
  <2> HIDE DEF o
  <2> QED BY <1>0, <2>1, <2>2, <2>3, PutAgree, PutTable, DropAgree, DropTable, Zenon
<1>7. ASSUME NEW n \in Numbers, OnOrphan(n)
      PROVE  /\ Table(orders') /\ Table(dbOrders')
             /\ Agree(dbOrders', orders') /\ collided' \in BOOLEAN
  BY <1>0, <1>7, Zenon DEF OnOrphan, Orphan, storeVars
<1>8. CASE Recover
  <2>1. orders' = dbOrders /\ dbOrders' = dbOrders /\ collided' = FALSE
    BY <1>8, Zenon DEF Recover
  <2>2. Agree(dbOrders, dbOrders)
    BY Zenon DEF Agree
  <2> QED BY <1>0, <2>1, <2>2, Zenon
<1>9. CASE UNCHANGED bookVars
  BY <1>0, <1>9, Zenon DEF bookVars
<1> QED BY <1>1, <1>2, <1>3, <1>4, <1>5, <1>6, <1>7, <1>8, <1>9, Zenon DEF BookNext

(* jnxdb's order table is the FH's order store after every message and      *)
(* every restart of the FH (apply_delta, recover_from_db), for all numbers, *)
(* books, prices and quantities.                                            *)
THEOREM TablesMirrorStore == BookSpec => [](BookTypeOK /\ OrdersMirrored)
<1>1. BookInit => BookTypeOK /\ OrdersMirrored
  BY InitMirrored, Zenon
<1>2. BookTypeOK /\ OrdersMirrored /\ [BookNext]_bookVars => (BookTypeOK /\ OrdersMirrored)'
  BY NextMirrored, Zenon
<1> QED BY <1>1, <1>2, PTL DEF BookSpec

-----------------------------------------------------------------------------
(* Levels and rows under every message. *)

(* 'A' and 'F': the row published is that of the book the order joins; the  *)
(* book a colliding order leaves is not alone with its numbers.             *)
LEMMA AddKeeps ==
  ASSUME NoEmptyOrders, BookTypeOK, BookInv,
         NEW h \in Home, NEW o \in NewOrders(h[2]), OnAdd(h[1], o)
  PROVE  BookInv'
<1> DEFINE n == h[1]
<1>1. n \in Numbers /\ o \in Order /\ o.qty # 0 /\ o.book = h[2] /\ h[2] \in Books
      /\ <<n, o.book>> \in Home
  <2>1. h \in Numbers \X Books
    BY OrderStoreAssumption, Zenon
  <2>2. h = <<h[1], h[2]>> /\ h[1] \in Numbers /\ h[2] \in Books
    BY <2>1
  <2>3. o \in Order /\ o.book = h[2] /\ o.qty \in Qtys
    BY <2>2, OrderStoreAssumption, Zenon DEF NewOrders, Order
  <2> QED BY <2>2, <2>3, Zenon DEF NoEmptyOrders
<1>2. Table(orders) /\ Finite(orders) /\ Positive(orders)
      /\ Table(dbOrders) /\ Finite(dbOrders) /\ Positive(dbOrders)
  BY Zenon DEF BookTypeOK, Table, BookInv
<1>3. orders' = Put(orders, n, o) /\ dbOrders' = Put(dbOrders, n, o)
  BY Zenon DEF OnAdd, Add, Insert, DeltaAdd
<1>4. Finite(orders') /\ Positive(orders') /\ Finite(dbOrders') /\ Positive(dbOrders')
  BY <1>1, <1>2, <1>3, PutSound, Zenon
<1>5. AtHome'
  BY <1>1, <1>3, Zenon DEF AtHome, BookInv, Put
<1>6. (0 \in DOMAIN orders => 0 \in DOMAIN orders')
      /\ (0 \in DOMAIN orders' => 0 \in DOMAIN dbOrders')
  BY <1>3, Zenon DEF BookInv, Put
<1>7. books = Aggregate(orders) /\ Insert(orders, Aggregate(orders), n, o)
  BY Zenon DEF BookInv, LevelsMatchOrders, OnAdd, Add
<1>8. LevelsMatchOrders'
  BY <1>1, <1>2, <1>7, InsertMatches, Zenon DEF LevelsMatchOrders
<1>9. ASSUME NEW b \in Books \ {o.book}, Alone(b), 0 \notin DOMAIN orders
      PROVE  books'[b] = books[b]
  <2>1. n \in DOMAIN orders => orders[n].book # b
    <3> SUFFICES ASSUME n \in DOMAIN orders, orders[n].book = b PROVE FALSE
      BY Zenon
    <3>1. <<n, b>> \in Home
      BY <1>9, Zenon DEF AtHome, BookInv
    <3>2. h[2] = b
      BY <1>9, <3>1, Zenon DEF Alone
    <3> QED BY <1>1, <1>9, <3>2, Zenon
  <2> QED BY <1>1, <1>2, <1>7, <1>9, <2>1, AggregateShaped, InsertTouches
<1>10. RowsFreshAlone' /\ DOMAIN dbRows' \subseteq Books
  BY <1>1, <1>6, <1>9, UpsertKeepsFresh, Zenon DEF OnAdd, BookInv
<1> QED BY <1>4, <1>5, <1>6, <1>8, <1>10, Zenon DEF BookInv

(* A message without effect on the store republishes a row that is fresh.   *)
LEMMA RepublishKeeps ==
  ASSUME BookInv, UNCHANGED storeVars, NEW b \in Books, Upsert(b)
  PROVE  RowsFreshAlone' /\ DOMAIN dbRows' \subseteq Books
BY UpsertKeepsFresh, Zenon DEF storeVars, BookInv

(* 'F' with number 0 changes jnxdb's table and not the store.               *)
LEMMA ZeroKeeps ==
  ASSUME NoEmptyOrders, BookTypeOK, BookInv, NEW o \in ZeroOrders, OnZeroF(o)
  PROVE  BookInv'
<1>1. o \in Order /\ o.qty # 0
  BY BookMirrorAssumption, Zenon DEF NoEmptyOrders
<1>2. o.book \in Books
  BY <1>1, Zenon DEF Order
<1>3. Table(dbOrders) /\ Finite(dbOrders) /\ Positive(dbOrders)
  BY Zenon DEF BookTypeOK, Table, BookInv
<1>4. dbOrders' = Put(dbOrders, 0, o) /\ orders' = orders /\ books' = books
  BY Zenon DEF OnZeroF, DeltaAdd, storeVars
<1>5. Finite(dbOrders') /\ Positive(dbOrders') /\ 0 \in DOMAIN dbOrders'
  <2>1. 0 \in DOMAIN Put(dbOrders, 0, o)
    BY Zenon DEF Put
  <2> QED BY <1>1, <1>3, <1>4, <2>1, PutSound, Zenon
<1>6. RowsFreshAlone' /\ DOMAIN dbRows' \subseteq Books
  BY <1>2, RepublishKeeps, Zenon DEF OnZeroF
<1>7. AtHome' /\ LevelsMatchOrders'
  BY <1>4, Zenon DEF AtHome, LevelsMatchOrders, BookInv
<1> QED BY <1>4, <1>5, <1>6, <1>7, Zenon DEF BookInv

(* A reference price republishes the row of its book.                       *)
LEMMA ReferenceKeeps ==
  ASSUME BookInv, NEW b \in Books, OnReferencePrice(b)
  PROVE  BookInv'
<1>1. RowsFreshAlone' /\ DOMAIN dbRows' \subseteq Books
  BY RepublishKeeps, Zenon DEF OnReferencePrice
<1>2. orders' = orders /\ books' = books /\ dbOrders' = dbOrders
  BY Zenon DEF OnReferencePrice, storeVars
<1>3. AtHome' /\ LevelsMatchOrders'
  BY <1>2, Zenon DEF AtHome, LevelsMatchOrders, BookInv
<1> QED BY <1>1, <1>2, <1>3, Zenon DEF BookInv

(* 'E': a fill takes what it executes off the level, and the order with it  *)
(* when nothing remains (the clamp of execute()).                           *)
LEMMA ExecuteKeeps ==
  ASSUME BookTypeOK, OrdersMirrored, BookInv, NEW n \in Numbers, NEW q \in Qtys,
         OnExecute(n, q)
  PROVE  BookInv'
<1> DEFINE x == Executed(n, q)
           left == orders[n].qty - x
           rest == [orders[n] EXCEPT !.qty = left]
<1>1. Table(orders) /\ Finite(orders) /\ Positive(orders)
      /\ Table(dbOrders) /\ Finite(dbOrders) /\ Positive(dbOrders)
  BY Zenon DEF BookTypeOK, Table, BookInv
<1>2. n \in DOMAIN orders /\ n \in DOMAIN dbOrders /\ dbOrders[n] = orders[n]
      /\ orders[n] \in Order /\ orders[n].qty # 0
  BY <1>1, Zenon DEF OnExecute, Execute, OrdersMirrored, Table, Positive
<1>3. orders[n].qty \in Nat /\ orders[n].book \in Books /\ orders[n].side \in Sides
  BY <1>2, Zenon DEF Order
<1>4. x \in Nat /\ left \in Nat /\ (left # 0 => x < orders[n].qty)
      /\ (left = 0 => x = orders[n].qty)
  BY <1>3, OrderStoreAssumption DEF Executed
<1>5. orders' = (IF left = 0 THEN Drop(orders, n) ELSE Put(orders, n, rest))
      /\ books' = RemoveFrom(books, orders[n], x, left = 0)
      /\ dbOrders' = DeltaExecute(dbOrders, n, orders[n].price, left)
      /\ Upsert(orders[n].book)
  BY Zenon DEF OnExecute, Execute
<1>6. books = Aggregate(orders) /\ Shaped(books)
  BY AggregateShaped, Zenon DEF BookInv, LevelsMatchOrders
<1>7. rest \in Order /\ rest.qty = left /\ rest.book = orders[n].book
  BY <1>2, <1>4, Zenon DEF Order
<1>8. dbOrders' = IF left = 0 THEN Drop(dbOrders, n) ELSE Put(dbOrders, n, rest)
  <2>1. [dbOrders[n] EXCEPT !.qty = left, !.price = orders[n].price] = rest
    BY <1>2, Zenon DEF Order
  <2> HIDE DEF left, rest
  <2> QED BY <1>2, <1>5, <2>1, Zenon DEF DeltaExecute
<1> HIDE DEF x, rest
<1>9. Finite(orders') /\ Positive(orders') /\ Finite(dbOrders') /\ Positive(dbOrders')
  <2> HIDE DEF left
  <2>1. CASE left = 0
    BY <1>1, <1>5, <1>8, <2>1, DropSound, Zenon
  <2>2. CASE left # 0
    BY <1>1, <1>5, <1>7, <1>8, <2>2, PutSound, Zenon
  <2> QED BY <2>1, <2>2, Zenon
<1>10. AtHome'
  <2> HIDE DEF left
  <2> QED BY <1>2, <1>5, <1>7, Zenon DEF AtHome, BookInv, Put, Drop
<1>11. (0 \in DOMAIN orders => 0 \in DOMAIN orders')
       /\ (0 \in DOMAIN orders' => 0 \in DOMAIN dbOrders')
  <2>1. n # 0
    BY OrderStoreAssumption, Zenon
  <2> HIDE DEF left
  <2> QED BY <1>5, <1>8, <2>1, Zenon DEF BookInv, Put, Drop
<1>12. LevelsMatchOrders'
  <2>1. CASE left = 0
    BY <1>1, <1>2, <1>4, <1>5, <1>6, <2>1, AggregateDrop, Zenon DEF LevelsMatchOrders
  <2>2. CASE left # 0
    <3>1. (left = 0) = FALSE
      BY <2>2, Zenon
    <3>2. books' = RemoveFrom(books, orders[n], x, FALSE)
      BY <1>5, <3>1, Zenon
    <3>3. orders' = Put(orders, n, [orders[n] EXCEPT !.qty = orders[n].qty - x])
      BY <1>5, <2>2, Zenon DEF rest
    <3> QED BY <1>1, <1>2, <1>4, <1>6, <2>2, <3>2, <3>3, AggregateReduce, Zenon
            DEF LevelsMatchOrders
  <2> QED BY <2>1, <2>2, Zenon
<1>13. ASSUME NEW b \in Books \ {orders[n].book}
       PROVE  books'[b] = books[b]
  <2> DEFINE g == (left = 0)
  <2>1. books' = RemoveFrom(books, orders[n], x, g)
    BY <1>5, Zenon
  <2> HIDE DEF g
  <2>2. books' = RemovedSides(books, orders[n], x, g)
    BY <1>3, <1>6, <2>1, OneSide, Zenon
  <2> QED BY <1>6, <2>2, Zenon DEF RemovedSides, Shaped
<1>14. RowsFreshAlone' /\ DOMAIN dbRows' \subseteq Books
  BY <1>3, <1>5, <1>11, <1>13, UpsertKeepsFresh, Zenon DEF BookInv
<1> QED BY <1>9, <1>10, <1>11, <1>12, <1>14, Zenon DEF BookInv

(* 'D' takes the order and its shares away.                                 *)
LEMMA DeleteKeeps ==
  ASSUME BookTypeOK, OrdersMirrored, BookInv, NEW n \in Numbers, OnDelete(n)
  PROVE  BookInv'
<1>1. Table(orders) /\ Finite(orders) /\ Positive(orders)
      /\ Table(dbOrders) /\ Finite(dbOrders) /\ Positive(dbOrders)
  BY Zenon DEF BookTypeOK, Table, BookInv
<1>2. n \in DOMAIN orders /\ orders[n] \in Order /\ n # 0
  BY <1>1, OrderStoreAssumption, Zenon DEF OnDelete, Delete, Table
<1>3. orders[n].book \in Books /\ orders[n].side \in Sides
  BY <1>2, Zenon DEF Order
<1>4. orders' = Drop(orders, n) /\ dbOrders' = Drop(dbOrders, n)
      /\ books' = RemoveFrom(books, orders[n], orders[n].qty, TRUE)
      /\ Upsert(orders[n].book)
  BY Zenon DEF OnDelete, Delete, DeltaDelete
<1>5. books = Aggregate(orders) /\ Shaped(books)
  BY AggregateShaped, Zenon DEF BookInv, LevelsMatchOrders
<1>6. Finite(orders') /\ Positive(orders') /\ Finite(dbOrders') /\ Positive(dbOrders')
  BY <1>1, <1>4, DropSound, Zenon
<1>7. AtHome'
  BY <1>4, Zenon DEF AtHome, BookInv, Drop
<1>8. (0 \in DOMAIN orders => 0 \in DOMAIN orders')
      /\ (0 \in DOMAIN orders' => 0 \in DOMAIN dbOrders')
  BY <1>2, <1>4, Zenon DEF BookInv, Drop
<1>9. LevelsMatchOrders'
  BY <1>1, <1>2, <1>4, <1>5, AggregateDrop, Zenon DEF LevelsMatchOrders
<1>10. ASSUME NEW b \in Books \ {orders[n].book}
       PROVE  books'[b] = books[b]
  <2>1. books' = RemovedSides(books, orders[n], orders[n].qty, TRUE)
    BY <1>3, <1>4, <1>5, OneSide, Zenon
  <2> QED BY <1>5, <2>1, Zenon DEF RemovedSides, Shaped
<1>11. RowsFreshAlone' /\ DOMAIN dbRows' \subseteq Books
  BY <1>3, <1>4, <1>8, <1>10, UpsertKeepsFresh, Zenon DEF BookInv
<1> QED BY <1>6, <1>7, <1>8, <1>9, <1>11, Zenon DEF BookInv

(* 'U': the original leaves, the new order enters the same book, and its    *)
(* number may collide with a third order or be the original's own.          *)
LEMMA ReplaceKeeps ==
  ASSUME NoEmptyOrders, BookTypeOK, OrdersMirrored, BookInv, NEW orig \in Numbers,
         NEW new \in Numbers, NEW p \in Prices, NEW q \in Qtys,
         orig \in DOMAIN orders, <<new, orders[orig].book>> \in Home,
         OnReplace(orig, new, p, q)
  PROVE  BookInv'
<1> DEFINE o == Replacement(orig, p, q)
           rest == Drop(orders, orig)
           home == orders[orig].book
<1>1. Table(orders) /\ Finite(orders) /\ Positive(orders)
      /\ Table(dbOrders) /\ Finite(dbOrders) /\ Positive(dbOrders)
  BY Zenon DEF BookTypeOK, Table, BookInv
<1>2. orders[orig] \in Order /\ orig # 0 /\ new # 0
  BY <1>1, OrderStoreAssumption, Zenon DEF Table
<1>3. home \in Books /\ orders[orig].side \in Sides
  BY <1>2, Zenon DEF Order
<1>4. o \in Order /\ o.book = home /\ o.qty # 0
  BY <1>2, OrderStoreAssumption, Zenon DEF Replacement, Order, NoEmptyOrders
<1>5. books = Aggregate(orders) /\ Shaped(books)
  BY AggregateShaped, Zenon DEF BookInv, LevelsMatchOrders
<1>6. orders' = Put(rest, new, o) /\ dbOrders' = Put(Drop(dbOrders, orig), new, o)
      /\ Upsert(home)
  BY Zenon DEF OnReplace, Replace, Insert, DeltaReplace
<1>7. Insert(rest, RemoveFrom(books, orders[orig], orders[orig].qty, TRUE), new, o)
  BY Zenon DEF OnReplace, Replace
<1>8. RemoveFrom(books, orders[orig], orders[orig].qty, TRUE) = Aggregate(rest)
  BY <1>1, <1>5, AggregateDrop, Zenon
<1>9. Table(rest) /\ Finite(rest) /\ Positive(rest)
      /\ Table(Drop(dbOrders, orig)) /\ Finite(Drop(dbOrders, orig))
      /\ Positive(Drop(dbOrders, orig))
  BY <1>1, DropSound, Zenon
<1>10. \A m \in DOMAIN rest : m \in DOMAIN orders /\ rest[m] = orders[m]
  BY Zenon DEF Drop
<1> HIDE DEF o
<1>11. Finite(orders') /\ Positive(orders') /\ Finite(dbOrders') /\ Positive(dbOrders')
  BY <1>4, <1>6, <1>9, PutSound, Zenon
<1>12. AtHome'
  BY <1>4, <1>6, Zenon DEF AtHome, BookInv, Put, Drop
<1>13. (0 \in DOMAIN orders => 0 \in DOMAIN orders')
       /\ (0 \in DOMAIN orders' => 0 \in DOMAIN dbOrders')
  BY <1>2, <1>6, Zenon DEF BookInv, Put, Drop
<1> HIDE DEF rest
<1>14. LevelsMatchOrders'
  BY <1>4, <1>7, <1>8, <1>9, InsertMatches, Zenon DEF LevelsMatchOrders
<1>15. ASSUME NEW b \in Books \ {home}, Alone(b), 0 \notin DOMAIN orders
       PROVE  books'[b] = books[b]
  <2>1. new \in DOMAIN rest => rest[new].book # b
    <3> SUFFICES ASSUME new \in DOMAIN rest, rest[new].book = b PROVE FALSE
      BY Zenon
    <3>1. <<new, b>> \in Home
      BY <1>2, <1>10, <1>15, Zenon DEF AtHome, BookInv
    <3>2. home = b
      BY <1>15, <3>1, Zenon DEF Alone
    <3> QED BY <1>15, <3>2, Zenon
  <2>2. books'[b] = Aggregate(rest)[b]
    <3>1. Insert(rest, Aggregate(rest), new, o) /\ Shaped(Aggregate(rest))
      BY <1>7, <1>8, AggregateShaped, Zenon
    <3>2. b \in Books /\ b # o.book
      BY <1>4, <1>15, Zenon
    <3> HIDE DEF home
    <3> QED BY <1>4, <1>9, <2>1, <3>1, <3>2, InsertTouches
  <2>3. Aggregate(rest) = RemovedSides(books, orders[orig], orders[orig].qty, TRUE)
    BY <1>3, <1>5, <1>8, OneSide, Zenon
  <2>4. Aggregate(rest)[b] = books[b]
    BY <1>5, <1>15, <2>3, Zenon DEF RemovedSides, Shaped
  <2> QED BY <2>2, <2>4, Zenon
<1>16. RowsFreshAlone' /\ DOMAIN dbRows' \subseteq Books
  BY <1>3, <1>6, <1>13, <1>15, UpsertKeepsFresh, Zenon DEF BookInv
<1> QED BY <1>11, <1>12, <1>13, <1>14, <1>16, Zenon DEF BookInv

(* Recovery without an order 0 gives back the store that died.              *)
LEMMA RecoveredStore ==
  ASSUME BookTypeOK, OrdersMirrored, BookInv, 0 \notin DOMAIN dbOrders
  PROVE  dbOrders = orders /\ Aggregate(dbOrders) = books
<1>1. 0 \notin DOMAIN orders
  BY Zenon DEF BookInv
<1>2. DOMAIN dbOrders = DOMAIN orders
  BY <1>1, Zenon DEF BookTypeOK, OrdersMirrored
<1>3. \A n \in DOMAIN orders : dbOrders[n] = orders[n]
  BY <1>1, Zenon DEF BookTypeOK, OrdersMirrored
<1>4. dbOrders = orders
  BY <1>2, <1>3, Zenon DEF BookInv, Finite
<1> QED BY <1>4, Zenon DEF BookInv, LevelsMatchOrders

(* A restart of the FH keeps levels and rows (recover_from_db).             *)
LEMMA RecoverKeeps ==
  ASSUME BookTypeOK, OrdersMirrored, BookInv, Recover
  PROVE  BookInv'
<1>1. orders' = dbOrders /\ books' = Aggregate(dbOrders)
      /\ dbOrders' = dbOrders /\ dbRows' = dbRows
  BY Zenon DEF Recover
<1>2. LevelsMatchOrders'
  BY <1>1, Zenon DEF LevelsMatchOrders
<1>3. AtHome'
  <2>1. ASSUME NEW n \in DOMAIN dbOrders \ {0}
        PROVE  <<n, dbOrders[n].book>> \in Home
    <3>1. n \in Numbers
      BY Zenon DEF BookTypeOK
    <3>2. n \in DOMAIN orders \ {0} /\ dbOrders[n] = orders[n]
      BY <2>1, <3>1, Zenon DEF OrdersMirrored
    <3> QED BY <3>2, Zenon DEF AtHome, BookInv
  <2> QED BY <1>1, <2>1, Zenon DEF AtHome
<1>4. RowsFreshAlone'
  <2>1. CASE 0 \in DOMAIN dbOrders
    BY <1>1, <2>1, Zenon DEF RowsFreshAlone
  <2>2. CASE 0 \notin DOMAIN dbOrders
    <3>1. orders' = orders /\ books' = books
      BY <1>1, <2>2, RecoveredStore, Zenon
    <3>2. \A b : Row(books', collided', b).book = Row(books, collided, b).book
      BY <3>1, Zenon DEF Row
    <3> QED BY <1>1, <3>1, <3>2, Zenon DEF BookInv, RowsFreshAlone, Shown, Alone
  <2> QED BY <2>1, <2>2, Zenon
<1> QED BY <1>1, <1>2, <1>3, <1>4, Zenon DEF BookInv

(* The store starts empty, and so do its levels.                            *)
LEMMA InitBook == BookInit => BookInv
<1> SUFFICES ASSUME BookInit PROVE BookInv
  BY Zenon
<1>1. orders = EmptyMap /\ dbOrders = EmptyMap /\ dbRows = EmptyMap
      /\ DOMAIN EmptyMap = {}
  BY Zenon DEF BookInit, StoreInit, EmptyMap
<1>2. Finite(EmptyMap) /\ Positive(EmptyMap)
  BY FS_EmptySet, Zenon DEF Finite, Positive, EmptyMap
<1>3. ASSUME NEW b, NEW s
      PROVE  SideOf(EmptyMap, b, s) = EmptySide
  <2>1. Resting(EmptyMap, b, s) = {}
    BY <1>1, Zenon DEF Resting
  <2>2. Shares(EmptyMap, {}) = 0 /\ Cardinality({}) = 0
    BY SharesEmpty, FS_EmptySet, Zenon
  <2>3. {EmptyMap[n].price : n \in Resting(EmptyMap, b, s)} = {}
    BY <2>1, Zenon
  <2>4. [p \in {EmptyMap[n].price : n \in Resting(EmptyMap, b, s)} |->
           [qty |-> Shares(EmptyMap, RestingAt(EmptyMap, b, s, p)),
            orders |-> Cardinality(RestingAt(EmptyMap, b, s, p))]]
        = [x \in {} |-> x]
    BY <2>3, Zenon
  <2> QED BY <2>1, <2>2, <2>4, Zenon DEF SideOf, EmptySide, EmptyMap
<1>4. LevelsMatchOrders
  BY <1>1, <1>3, AggregateSides, Zenon DEF LevelsMatchOrders, BookInit, StoreInit
<1> QED BY <1>1, <1>2, <1>4, Zenon DEF BookInv, AtHome, RowsFreshAlone

(* Every message and every restart keeps levels and rows.                   *)
LEMMA NextBook ==
  ASSUME NoEmptyOrders, BookTypeOK, OrdersMirrored, BookInv, [BookNext]_bookVars
  PROVE  BookInv'
<1>1. ASSUME NEW n \in Numbers, OnOrphan(n) PROVE BookInv'
  BY <1>1, Zenon DEF OnOrphan, Orphan, storeVars, BookInv, AtHome, LevelsMatchOrders,
              RowsFreshAlone, Shown, Alone
<1>2. CASE UNCHANGED bookVars
  BY <1>2, Zenon DEF bookVars, BookInv, AtHome, LevelsMatchOrders, RowsFreshAlone, Shown,
              Alone
<1> QED BY <1>1, <1>2, AddKeeps, ReferenceKeeps, ZeroKeeps, ExecuteKeeps,
           DeleteKeeps, ReplaceKeeps, RecoverKeeps, Zenon DEF BookNext

(* The inductive invariant: jnxdb's table beside the store, and levels and  *)
(* rows that follow the store.                                              *)
IInv == BookTypeOK /\ OrdersMirrored /\ BookInv

(* It holds in every state of the feed handler and the database.            *)
LEMMA BookInvariance ==
  ASSUME NoEmptyOrders
  PROVE  BookSpec => []IInv
<1>1. BookInit => IInv
  BY InitMirrored, InitBook, Zenon DEF IInv
<1>2. IInv /\ [BookNext]_bookVars => IInv'
  BY NextMirrored, NextBook, Zenon DEF IInv
<1> QED BY <1>1, <1>2, PTL DEF BookSpec

(* For any numbers, books, prices and quantities, and any sharing of        *)
(* numbers between books: the levels maintained add by add and remove by    *)
(* remove are the aggregation of the live orders (levels.cpp, orders.cpp),  *)
(* as long as no order is for zero shares.                                  *)
THEOREM LevelsAreAggregated ==
  ASSUME NoEmptyOrders
  PROVE  BookSpec => []LevelsMatchOrders
<1>1. BookSpec => []IInv
  BY BookInvariance, Zenon
<1>2. IInv => LevelsMatchOrders
  BY Zenon DEF IInv, BookInv
<1> QED BY <1>1, <1>2, PTL

(* Every published row shows the FH's current book of a ticker that shares  *)
(* no numbers, restarts included (make_update, apply_update, recover.cpp).  *)
THEOREM RowsStayFresh ==
  ASSUME NoEmptyOrders
  PROVE  BookSpec => []RowsFreshAlone
<1>1. BookSpec => []IInv
  BY BookInvariance, Zenon
<1>2. IInv => RowsFreshAlone
  BY Zenon DEF IInv, BookInv
<1> QED BY <1>1, <1>2, PTL

(* A restart of the FH rebuilds exactly the books that died, unless jnxdb   *)
(* holds an order 0 (restore_order after recover_from_db).                  *)
THEOREM RestartChangesNoBook ==
  ASSUME NoEmptyOrders
  PROVE  BookSpec => RecoverInvisible
<1>1. BookSpec => []IInv
  BY BookInvariance, Zenon
<1>2. IInv => (Recover /\ 0 \notin DOMAIN dbOrders => books' = books)
  BY RecoveredStore, Zenon DEF IInv, Recover
<1> QED BY <1>1, <1>2, PTL DEF RecoverInvisible
=============================================================================
