----------------------------- MODULE OrderStore -----------------------------
(***************************************************************************)
(* The live-order store and the price levels of the market core            *)
(* (cpp/market/orders.cpp, cpp/market/levels.cpp; the Python prototype's   *)
(* jnxfeed/book/orderbook.py has the same logic).                          *)
(*                                                                         *)
(* The store is keyed by order number alone; every book keeps, per side, a *)
(* map price -> aggregated level plus running totals.  The levels are      *)
(* maintained incrementally, one add or remove per message: nothing ever   *)
(* recomputes them from the orders, so every path through the handlers has *)
(* to keep the two in step.                                                *)
(***************************************************************************)
EXTENDS Integers, FiniteSets, FiniteSetsExt

CONSTANTS
  Numbers,   \* order numbers of live orders (0 is the reference-price number)
  Books,     \* order book ids (tickers)
  Home,      \* pairs <<n, b>>: the feed may add number n to book b
  Sides,     \* "B" and "S"
  Prices,    \* raw u32 prices
  Qtys       \* u32 share quantities carried by messages

ASSUME OrderStoreAssumption ==
  /\ Numbers \subseteq Nat \ {0}
  /\ Home \subseteq Numbers \X Books
  /\ Prices \subseteq Nat
  /\ Qtys \subseteq Nat

VARIABLES
  orders,    \* orders_: number -> [book, side, price, qty]
  books,     \* books_: book -> side -> [levels, qty, orders]
  collided   \* collisions > 0

storeVars == <<orders, books, collided>>

(* order_type and group ride along unchanged and are left out. *)
Order == [book : Books, side : Sides, price : Prices, qty : Nat]

EmptyMap == [x \in {} |-> x]

(* A side without orders; book() creates a Book in this state on first use, *)
(* and a Book that was never created is indistinguishable from it.          *)
EmptySide == [levels |-> EmptyMap, qty |-> 0, orders |-> 0]

Saturated(n) == IF n > 0 THEN n - 1 ELSE 0

(* orders_[n] = o and orders_.erase(n). *)
Put(f, n, o) == [m \in DOMAIN f \cup {n} |-> IF m = n THEN o ELSE f[m]]
Drop(f, n) == [m \in DOMAIN f \ {n} |-> f[m]]

-----------------------------------------------------------------------------
(* SideLevels *)

LevelAdd(sd, p, q) ==
  LET old == IF p \in DOMAIN sd.levels THEN sd.levels[p]
                                       ELSE [qty |-> 0, orders |-> 0]
  IN [levels |-> Put(sd.levels, p, [qty |-> old.qty + q,
                                    orders |-> old.orders + 1]),
      qty    |-> sd.qty + q,
      orders |-> sd.orders + 1]

(* SideLevels::remove returns false, and changes nothing, otherwise. *)
CanRemove(sd, p, q) == p \in DOMAIN sd.levels /\ sd.levels[p].qty >= q

(* Faulty variant: a full removal forgets the level's order count. *)
LevelRemoveKeepsCount(sd, p, q, gone) ==
  IF ~CanRemove(sd, p, q) THEN sd
  ELSE LET left == [qty |-> sd.levels[p].qty - q,
                    orders |-> sd.levels[p].orders]
       IN [levels |-> IF left.qty = 0 THEN Drop(sd.levels, p)
                                      ELSE Put(sd.levels, p, left),
           qty    |-> sd.qty - q,
           orders |-> IF gone THEN Saturated(sd.orders) ELSE sd.orders]

LevelRemove(sd, p, q, gone) ==
  IF ~CanRemove(sd, p, q) THEN sd
  ELSE LET left == [qty |-> sd.levels[p].qty - q,
                    orders |-> IF gone THEN Saturated(sd.levels[p].orders)
                                       ELSE sd.levels[p].orders]
       IN [levels |-> IF left.qty = 0 THEN Drop(sd.levels, p)
                                      ELSE Put(sd.levels, p, left),
           qty    |-> sd.qty - q,
           orders |-> IF gone THEN Saturated(sd.orders) ELSE sd.orders]

AddTo(bk, o) ==
  [bk EXCEPT ![o.book][o.side] = LevelAdd(@, o.price, o.qty)]

RemoveFrom(bk, o, q, gone) ==
  [bk EXCEPT ![o.book][o.side] = LevelRemove(@, o.price, q, gone)]

-----------------------------------------------------------------------------
(* OrderBookStore *)

(* insert(): a number that is already live is a collision: the stale order  *)
(* leaves its own book before the new one enters.                           *)
Insert(os, bk, n, o) ==
  LET clash == n \in DOMAIN os
  IN /\ orders' = Put(os, n, o)
     /\ books' = AddTo(IF clash THEN RemoveFrom(bk, os[n], os[n].qty, TRUE)
                                ELSE bk, o)
     /\ collided' = (collided \/ clash)

(* 'A' and 'F' with a non-zero order number. *)
Add(n, o) == Insert(orders, books, n, o)

(* 'E': clamped to the remaining quantity; a filled order leaves the store. *)
Executed(n, q) == IF q > orders[n].qty THEN orders[n].qty ELSE q

Execute(n, q) ==
  LET x == Executed(n, q)
      left == orders[n].qty - x
  IN /\ n \in DOMAIN orders
     /\ orders' = IF left = 0 THEN Drop(orders, n)
                              ELSE Put(orders, n, [orders[n] EXCEPT !.qty = left])
     /\ books' = RemoveFrom(books, orders[n], x, left = 0)
     /\ UNCHANGED collided

(* 'D' *)
Delete(n) ==
  /\ n \in DOMAIN orders
  /\ orders' = Drop(orders, n)
  /\ books' = RemoveFrom(books, orders[n], orders[n].qty, TRUE)
  /\ UNCHANGED collided

(* 'U': the new order inherits book and side; its number may itself collide *)
(* with another live order, or be the original's own.                       *)
Replacement(orig, p, q) == [orders[orig] EXCEPT !.price = p, !.qty = q]

Replace(orig, new, p, q) ==
  /\ orig \in DOMAIN orders
  /\ Insert(Drop(orders, orig),
            RemoveFrom(books, orders[orig], orders[orig].qty, TRUE),
            new, Replacement(orig, p, q))

(* E, D or U naming an unknown order only counts an orphan. *)
Orphan(n) == n \notin DOMAIN orders /\ UNCHANGED storeVars

-----------------------------------------------------------------------------
StoreInit ==
  /\ orders = EmptyMap
  /\ books = [b \in Books |-> [s \in Sides |-> EmptySide]]
  /\ collided = FALSE

NewOrders(b) == [book : {b}, side : Sides, price : Prices, qty : Qtys]

-----------------------------------------------------------------------------
Resting(os, b, s) == {n \in DOMAIN os : os[n].book = b /\ os[n].side = s}
RestingAt(os, b, s, p) == {n \in Resting(os, b, s) : os[n].price = p}
Shares(os, ns) == MapThenSumSet(LAMBDA n : os[n].qty, ns)

(* What add(), once per order, makes of an order table: the reference       *)
(* definition of the levels, and what restore_order rebuilds on recovery.   *)
Aggregate(os) ==
  [b \in Books |-> [s \in Sides |->
    [levels |-> [p \in {os[n].price : n \in Resting(os, b, s)} |->
                   [qty |-> Shares(os, RestingAt(os, b, s, p)),
                    orders |-> Cardinality(RestingAt(os, b, s, p))]],
     qty    |-> Shares(os, Resting(os, b, s)),
     orders |-> Cardinality(Resting(os, b, s))]]]

(* The incrementally maintained levels, level counts and side totals are    *)
(* exactly the aggregation of the live orders: no add, partial fill,        *)
(* clamped fill, delete, replace or number collision (also across books)    *)
(* leaves a share or an order behind (levels.cpp add/remove).               *)
LevelsMatchOrders == books = Aggregate(orders)
=============================================================================
