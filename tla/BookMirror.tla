----------------------------- MODULE BookMirror -----------------------------
(***************************************************************************)
(* The market core publishing into the database: every ITCH message is     *)
(* applied to the FH's store (OrderStore), turned into one UPDATE record   *)
(* (cpp/fh/publish.cpp make_update) and applied to jnxdb's tables          *)
(* (cpp/db/tables.cpp apply_update, apply_delta).  The record carries the  *)
(* full row of ONE ticker plus a one-order delta, so the database follows  *)
(* the store without ever seeing the messages themselves.                  *)
(*                                                                         *)
(* The FH-to-DB link is perfect here; FhDb models how it is not.           *)
(***************************************************************************)
EXTENDS OrderStore

CONSTANTS
  ZeroOrders, \* what the F messages with order number 0 in the feed carry
  Depth,      \* BOOK_DEPTH, levels per side in a record
  QtyMod      \* 2^32: width of a level quantity in a record

ASSUME BookMirrorAssumption ==
  /\ ZeroOrders \subseteq Order
  /\ Depth \in Nat \ {0}
  /\ QtyMod \in Nat \ {0}

VARIABLES
  dbOrders,   \* T3: Tables::orders_
  dbRows      \* books_: the merged row of each ticker published so far

bookVars == <<orders, books, collided, dbOrders, dbRows>>

-----------------------------------------------------------------------------
(* make_update *)

Better(s, p, r) == IF s = "B" THEN p > r ELSE p < r

(* The best Depth levels of a side. *)
TopPrices(sd, s) ==
  {p \in DOMAIN sd.levels :
     Cardinality({r \in DOMAIN sd.levels : Better(s, r, p)}) < Depth}

(* The book section of a record: level quantities are cast to u32, the side *)
(* totals stay u64.                                                         *)
BookSection(sd, s) ==
  [levels |-> [p \in TopPrices(sd, s) |->
                 [qty |-> sd.levels[p].qty % QtyMod,
                  orders |-> sd.levels[p].orders]],
   qty    |-> sd.qty,
   orders |-> sd.orders]

Row(bk, flag, b) ==
  [book |-> [s \in Sides |-> BookSection(bk[b][s], s)],
   collision_seen |-> flag]

-----------------------------------------------------------------------------
(* apply_delta *)

(* Faulty variant: a replace leaves the original order in the table. *)
DeltaUpsertOnly(t, n, orig, o) == Put(t, n, o)

DeltaAdd(t, n, o) == Put(t, n, o)

DeltaReplace(t, n, orig, o) == Put(Drop(t, orig), n, o)

DeltaExecute(t, n, price, qty) ==
  CASE n \notin DOMAIN t -> t
    [] n \in DOMAIN t /\ qty = 0 -> Drop(t, n)
    [] OTHER -> Put(t, n, [t[n] EXCEPT !.qty = qty, !.price = price])

DeltaDelete(t, n) == Drop(t, n)

(* Faulty variant: the row is built before the message is applied. *)
UpsertTooEarly(b) == dbRows' = Put(dbRows, b, Row(books, collided, b))

(* apply_update: the row of the record's ticker is replaced wholesale. *)
Upsert(b) == dbRows' = Put(dbRows, b, Row(books', collided', b))

-----------------------------------------------------------------------------
(* One action per message: Market::apply, make_update, Tables::apply_update *)

OnAdd(n, o) ==
  /\ Add(n, o)
  /\ Upsert(o.book)
  /\ dbOrders' = DeltaAdd(dbOrders, n, o)

(* 'A' with order number 0 is a reference price: refdata only, no delta. *)
OnReferencePrice(b) ==
  /\ UNCHANGED storeVars
  /\ Upsert(b)
  /\ UNCHANGED dbOrders

(* 'F' with order number 0: Market::apply has no reference-price case for   *)
(* it; the store ignores it, but the result already carries an add delta.   *)
OnZeroF(o) ==
  /\ UNCHANGED storeVars
  /\ Upsert(o.book)
  /\ dbOrders' = DeltaAdd(dbOrders, 0, o)

OnExecute(n, q) ==
  /\ Execute(n, q)
  /\ Upsert(orders[n].book)
  /\ dbOrders' = DeltaExecute(dbOrders, n, orders[n].price,
                              orders[n].qty - Executed(n, q))

OnDelete(n) ==
  /\ Delete(n)
  /\ Upsert(orders[n].book)
  /\ dbOrders' = DeltaDelete(dbOrders, n)

OnReplace(orig, new, p, q) ==
  /\ Replace(orig, new, p, q)
  /\ Upsert(orders[orig].book)
  /\ dbOrders' = DeltaReplace(dbOrders, new, orig, Replacement(orig, p, q))

(* The result of an orphan names no ticker and carries no delta. *)
OnOrphan(n) == Orphan(n) /\ UNCHANGED <<dbOrders, dbRows>>

(* jnxfh dies and restarts: recover.cpp rebuilds the store by one           *)
(* restore_order per ORDER row; the collision counter starts over.          *)
Recover ==
  /\ orders' = dbOrders
  /\ books' = Aggregate(dbOrders)
  /\ collided' = FALSE
  /\ UNCHANGED <<dbOrders, dbRows>>

-----------------------------------------------------------------------------
BookInit ==
  /\ StoreInit
  /\ dbOrders = EmptyMap
  /\ dbRows = EmptyMap

BookNext ==
  \/ \E h \in Home : \E o \in NewOrders(h[2]) : OnAdd(h[1], o)
  \/ \E b \in Books : OnReferencePrice(b)
  \/ \E o \in ZeroOrders : OnZeroF(o)
  \/ \E n \in Numbers, q \in Qtys : OnExecute(n, q)
  \/ \E n \in Numbers : OnDelete(n)
  \/ \E orig, new \in Numbers, p \in Prices, q \in Qtys :
        orig \in DOMAIN orders /\ <<new, orders[orig].book>> \in Home
        /\ OnReplace(orig, new, p, q)
  \/ \E n \in Numbers : OnOrphan(n)
  \/ Recover

BookSpec == BookInit /\ [][BookNext]_bookVars

-----------------------------------------------------------------------------
(* Type invariant of the pair (tables.h, orders.h); 0 is in a table only     *)
(* through OnZeroF.                                                          *)
BookTypeOK ==
  /\ DOMAIN orders \subseteq Numbers \cup {0}
  /\ \A n \in DOMAIN orders : orders[n] \in Order
  /\ DOMAIN dbOrders \subseteq Numbers \cup {0}
  /\ \A n \in DOMAIN dbOrders : dbOrders[n] \in Order
  /\ collided \in BOOLEAN

(* jnxdb's order table is the FH's order store, order for order, after      *)
(* every message: partial and clamped fills, collisions, and replaces onto  *)
(* a live or onto the same number included (tables.cpp apply_delta).  This  *)
(* is what lets a restarted jnxfh re-download its store.  Order number 0 is *)
(* left out: OnZeroF gives the table a row that the store does not have.    *)
OrdersMirrored ==
  \A n \in Numbers :
    /\ n \in DOMAIN dbOrders <=> n \in DOMAIN orders
    /\ n \in DOMAIN orders => dbOrders[n] = orders[n]

(* A row shows the FH's current book of its ticker. *)
Shown(b) == dbRows[b].book = Row(books, collided, b).book

(* No number of this book is ever used on another one. *)
Alone(b) == \A h, k \in Home : h[1] = k[1] /\ h[2] = b => k[2] = b

(* Every ticker row ever published still shows the FH's current book for    *)
(* that ticker, restarts of the FH included, as long as the ticker shares   *)
(* no order number and no order 0 was loaded back: no message changes a     *)
(* book without publishing that book's row (publish.cpp make_update,        *)
(* tables.cpp apply_update).                                                *)
RowsFreshAlone ==
  0 \notin DOMAIN orders =>
    \A b \in DOMAIN dbRows : Alone(b) => Shown(b)

(* The same for every ticker, whatever numbers it shares with others: the   *)
(* database mirrors the store (insert() removing a colliding order).        *)
RowsFresh == \A b \in DOMAIN dbRows : Shown(b)

(* A restart of the FH changes no book unless the DB holds an order 0: the  *)
(* levels rebuilt from the order rows are those the dead process had        *)
(* (recover.cpp apply_record, restore_order).                               *)
RecoverInvisible ==
  [][Recover /\ 0 \notin DOMAIN dbOrders => books' = books]_bookVars
=============================================================================
