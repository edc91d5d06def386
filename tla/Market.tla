------------------------------- MODULE Market -------------------------------
(***************************************************************************)
(* The market state of the Python prototype: Market.apply routing decoded  *)
(* messages to reference data, the order store and the trade tape          *)
(* (jnxfeed/book), and the simulator's GLIMPSE snapshot, which re-emits    *)
(* that state as messages (jnxfeed/sim/exchange.py build_snapshot).        *)
(*                                                                         *)
(* Two markets consume one feed: `full` replays it from the first message, *)
(* `joined` is filled from a snapshot taken at some point and then follows *)
(* the live tail.  A market is one record, Apply one message's effect.     *)
(***************************************************************************)
EXTENDS Sequences, FiniteSetsExt

CONSTANTS
  Books,      \* order book ids
  Numbers,    \* live order numbers (0 is the reference-price number)
  Prices,     \* raw prices of orders
  Qtys,       \* quantities of orders
  Fills,      \* executed quantities
  BasePrices, \* what a reference-price A may carry, NO_PRICE included
  TickRows,   \* pairs <<price_start, tick_size>> of the one tick table
  MaxEntries, \* capacity of the rolling tape
  MaxMsgs     \* bound: messages in the feed

Absent == -1          \* Python's None
NO_PRICE == 999     \* types.NO_PRICE
BUY == "B"

MarketAssumption ==
  /\ Numbers \subseteq Nat \ {0}
  /\ Prices \cup Qtys \cup Fills \cup BasePrices \subseteq Nat
  /\ MaxEntries \in Nat \ {0} /\ MaxMsgs \in Nat

VARIABLES
  full,   \* the market replayed from message 1
  joined, \* the market filled from a snapshot, or NotJoined
  prints, \* history: book -> <<base price at the first trade, prices...>>
  msgs    \* messages so far

marketVars == <<full, joined, prints, msgs>>

NoneYet == [x \in {} |-> x]
Store(f, k, v) == [x \in DOMAIN f \cup {k} |-> IF x = k THEN v ELSE f[x]]
Drop(f, k) == [x \in DOMAIN f \ {k} |-> f[x]]

-----------------------------------------------------------------------------
(* OrderBookStore: orders, and per <<book, side>> a map price -> quantity   *)

(* _SideLevels.add and remove: a level that reaches 0 is deleted.  A level  *)
(* that is missing or would go negative raises; TypeOK says it never does.  *)
LevelAdd(lv, p, q) == Store(lv, p, (IF p \in DOMAIN lv THEN lv[p] ELSE 0) + q)
LevelRemove(lv, p, q) ==
  IF lv[p] - q = 0 THEN Drop(lv, p) ELSE Store(lv, p, lv[p] - q)

(* Book.add, Book.remove; OrderBookStore.book creates an empty Book. *)
Levels(m, b, s) == IF <<b, s>> \in DOMAIN m.levels THEN m.levels[<<b, s>>]
                                                   ELSE NoneYet
BookAdd(m, o) ==
  [m EXCEPT !.levels = Store(@, <<o.book, o.side>>,
      LevelAdd(Levels(m, o.book, o.side), o.price, o.qty))]
BookRemove(m, o, q) ==
  [m EXCEPT !.levels = Store(@, <<o.book, o.side>>,
      LevelRemove(Levels(m, o.book, o.side), o.price, q))]

RemoveOrder(m, num) ==
  BookRemove([m EXCEPT !.orders = Drop(@, num)], m.orders[num],
             m.orders[num].qty)

(* _insert: a number already live is a collision; the stale order leaves. *)
Insert(m, num, o) ==
  LET clean == IF num \in DOMAIN m.orders
               THEN [RemoveOrder(m, num) EXCEPT !.collisions = @ + 1] ELSE m
  IN BookAdd([clean EXCEPT !.orders = Store(@, num, o)], o)

-----------------------------------------------------------------------------
(* TradeTape.record *)

NewStats == [count |-> 0, volume |-> 0, notional |-> 0,
             last |-> Absent, uptick |-> FALSE]

StatsOf(m, b) == IF b \in DOMAIN m.stats THEN m.stats[b] ELSE NewStats

(* Faulty variant: a print at an unchanged price counts as a minus tick. *)
UptickZeroIsMinus(st, price, base) ==
  LET ltp == IF st.last # Absent THEN st.last ELSE base
  IN IF ltp \in {Absent, NO_PRICE} THEN st.uptick ELSE price > ltp

(* The zero/plus/minus tick test against the last traded price, or the base *)
(* price before the first trade.                                            *)
Uptick(st, price, base) ==
  LET ltp == IF st.last # Absent THEN st.last ELSE base
  IN IF ltp \in {Absent, NO_PRICE} \/ price = ltp THEN st.uptick
     ELSE price > ltp

RecordTrade(m, b, price, qty, base) ==
  LET st == StatsOf(m, b)
      grown == Append(m.tape, [book |-> b, price |-> price, qty |-> qty])
  IN [m EXCEPT
       !.tape = IF Len(grown) > MaxEntries THEN Tail(grown) ELSE grown,
       !.tradeCount = @ + 1,
       !.totalVolume = @ + qty,
       !.stats = Store(@, b, [count |-> st.count + 1,
                              volume |-> st.volume + qty,
                              notional |-> st.notional + price * qty,
                              last |-> price,
                              uptick |-> Uptick(st, price, base)])]

-----------------------------------------------------------------------------
(* RefData *)

(* Instrument(): suspended, unrestricted, no directory entry.  Of the       *)
(* directory fields only the tick table is ever read by a computation.      *)
NewInstrument == [directory_missing |-> TRUE, table |-> FALSE, state |-> "V",
                  shortSell |-> "0", reference |-> Absent]

(* RefData.get auto-creates on first reference. *)
Get(m, b) == IF b \in DOMAIN m.inst THEN m.inst[b] ELSE NewInstrument

Reference(m, b) == IF b \in DOMAIN m.inst THEN m.inst[b].reference ELSE Absent

(* TickTable.tick_size: the row with the largest start not above the price. *)
TickSize(rows, p) ==
  LET below == {s \in DOMAIN rows : s <= p}
  IN IF below = {} THEN Absent ELSE rows[Max(below)]

(* compute_ssp, called by cli/views.py static_rows with the book's stats. *)
ComputeSsp(restricted, base, last, uptick, rows) ==
  LET ltp == IF last # Absent THEN last ELSE base
      tick == TickSize(rows, ltp)
  IN CASE ~restricted -> 0
       [] restricted /\ ltp \in {Absent, NO_PRICE} -> NO_PRICE
       [] restricted /\ ltp \notin {Absent, NO_PRICE} /\ uptick -> ltp
       [] OTHER -> IF tick = Absent THEN NO_PRICE ELSE ltp + tick

(* The SSP column of static_rows. *)
StaticRow(m, b) ==
  ComputeSsp(m.inst[b].shortSell = "1", m.inst[b].reference,
             StatsOf(m, b).last, StatsOf(m, b).uptick,
             IF m.inst[b].table THEN m.rows ELSE NoneYet)

ApplyRefdata(m, msg) ==
  LET inst(change) == [m EXCEPT !.inst = Store(@, msg.book, change)]
  IN CASE msg.type = "R" -> inst([Get(m, msg.book) EXCEPT
                                    !.table = TRUE,
                                    !.directory_missing = FALSE])
       [] msg.type = "L" -> [m EXCEPT !.rows = Store(@, msg.start, msg.size)]
       [] msg.type = "H" -> inst([Get(m, msg.book) EXCEPT !.state = msg.state])
       [] msg.type = "Y" -> inst([Get(m, msg.book) EXCEPT
                                    !.shortSell = msg.state])
       [] msg.type = "A0" -> inst([Get(m, msg.book) EXCEPT
                                    !.reference = msg.price])
       [] OTHER -> m     \* S: only logged in system_events

-----------------------------------------------------------------------------
(* OrderBookStore.apply and Market.apply *)

(* _execute clamps the fill to the remaining quantity. *)
Filled(o, q) == IF q > o.qty THEN o.qty ELSE q

Execute(m, num, q) ==
  LET o == m.orders[num]
      x == Filled(o, q)
      rest == BookRemove(m, o, x)
      done == IF o.qty = x THEN [rest EXCEPT !.orders = Drop(@, num)]
              ELSE [rest EXCEPT !.orders[num].qty = o.qty - x]
  IN RecordTrade([done EXCEPT !.executed = @ + x], o.book, o.price, x,
                 Reference(m, o.book))

Replace(m, orig, new, price, qty) ==
  Insert(RemoveOrder(m, orig), new,
         [m.orders[orig] EXCEPT !.price = price, !.qty = qty])

ApplyBook(m, msg) ==
  CASE msg.type = "A" -> Insert(m, msg.num, msg.order)
    [] msg.type # "A" /\ msg.num \notin DOMAIN m.orders ->
         [m EXCEPT !.orphans = @ + 1]
    [] msg.type = "E" /\ msg.num \in DOMAIN m.orders ->
         Execute(m, msg.num, msg.qty)
    [] msg.type = "D" /\ msg.num \in DOMAIN m.orders ->
         RemoveOrder(m, msg.num)
    [] OTHER -> Replace(m, msg.num, msg.new, msg.price, msg.qty)

Apply(m, msg) ==
  CASE msg.type = "T" -> [m EXCEPT !.seconds = msg.seconds]
    [] msg.type \in {"A", "E", "D", "U"} -> ApplyBook(m, msg)
    [] OTHER -> ApplyRefdata(m, msg)

EmptyMarket ==
  [orders |-> NoneYet, levels |-> NoneYet, collisions |-> 0, orphans |-> 0,
   executed |-> 0, inst |-> NoneYet, rows |-> NoneYet, seconds |-> 0,
   tape |-> <<>>, stats |-> NoneYet, tradeCount |-> 0, totalVolume |-> 0]

NotJoined == [EmptyMarket EXCEPT !.seconds = Absent]

-----------------------------------------------------------------------------
(* ExchangeSimulator.build_snapshot: the market state as messages *)

(* Faulty variant: the original instead of the remaining quantities, as if  *)
(* a partial fill left the order as it was added.                           *)
SnapshotOrdersFull(m) ==
  [k \in DOMAIN m.orders |->
     <<[type |-> "A", num |-> k, order |-> [m.orders[k] EXCEPT !.qty = Max(Qtys)]]>>]

SnapshotOrders(m) ==
  [k \in DOMAIN m.orders |->
     <<[type |-> "A", num |-> k, order |-> m.orders[k]]>>]

SnapshotRows(m) ==
  [s \in DOMAIN m.rows |-> <<[type |-> "L", start |-> s, size |-> m.rows[s]]>>]

SnapshotInstrument(m, b) ==
  LET i == m.inst[b]
  IN (IF i.directory_missing THEN <<>> ELSE <<[type |-> "R", book |-> b]>>)
     \o <<[type |-> "H", book |-> b, state |-> i.state],
          [type |-> "Y", book |-> b, state |-> i.shortSell]>>
     \o (IF i.reference = Absent THEN <<>>
         ELSE <<[type |-> "A0", book |-> b, price |-> i.reference]>>)

(* One part of the snapshot after the other, each in the order of a dict.   *)
InTurn(parts) == FoldFunction(LAMBDA part, out : out \o part, <<>>, parts)

BuildSnapshot(m) ==
  (IF m.seconds = 0 THEN <<>> ELSE <<[type |-> "T", seconds |-> m.seconds]>>)
  \o InTurn(SnapshotRows(m))
  \o InTurn([b \in DOMAIN m.inst |-> SnapshotInstrument(m, b)])
  \o InTurn(SnapshotOrders(m))

(* A fresh market that all of a snapshot's messages are applied to. *)
Replay(ms) ==
  LET after[i \in 0..Len(ms)] ==
        IF i = 0 THEN EmptyMarket ELSE Apply(after[i - 1], ms[i])
  IN after[Len(ms)]

-----------------------------------------------------------------------------
(* The feed *)

Orders == [book : Books, side : {BUY}, price : Prices, qty : Qtys]

Messages ==
  [type : {"T"}, seconds : {34200}]
    \cup [type : {"R"}, book : Books]
    \cup {[type |-> "L", start |-> r[1], size |-> r[2]] : r \in TickRows}
    \cup [type : {"H"}, book : Books, state : {"T"}]
    \cup [type : {"Y"}, book : Books, state : {"1"}]
    \cup {[type |-> "S"]}
    \cup [type : {"A0"}, book : Books, price : BasePrices]
    \cup [type : {"A"}, num : Numbers, order : Orders]
    \cup [type : {"E"}, num : Numbers, qty : Fills]
    \cup [type : {"D"}, num : Numbers]
    \cup [type : {"U"}, num : Numbers, new : Numbers, price : Prices,
          qty : Qtys]

Traded(msg) == msg.type = "E" /\ msg.num \in DOMAIN full.orders

Message(msg) ==
  /\ msgs < MaxMsgs
  /\ msgs' = msgs + 1
  /\ full' = Apply(full, msg)
  /\ joined' = IF joined = NotJoined THEN joined ELSE Apply(joined, msg)
  /\ prints' =
       IF ~Traded(msg) THEN prints
       ELSE LET o == full.orders[msg.num]
                old == IF o.book \in DOMAIN prints THEN prints[o.book]
                       ELSE <<Reference(full, o.book)>>
            IN Store(prints, o.book, Append(old, o.price))

(* A GLIMPSE client: the snapshot is built by a market that replayed the    *)
(* feed up to the cut, and applied to a fresh market; the client's ITCH     *)
(* login then starts at the message after the cut.                          *)
Glimpse ==
  /\ joined = NotJoined
  /\ joined' = Replay(BuildSnapshot(full))
  /\ UNCHANGED <<full, prints, msgs>>

MarketInit ==
  /\ full = EmptyMarket
  /\ joined = NotJoined
  /\ prints = NoneYet
  /\ msgs = 0

MarketNext ==
  \/ \E msg \in Messages : Message(msg)
  \/ Glimpse

MarketSpec == MarketInit /\ [][MarketNext]_marketVars

-----------------------------------------------------------------------------
(* Every market holds well-formed orders and positive level quantities:     *)
(* _SideLevels.remove never meets a missing or negative level, which would  *)
(* raise out of Market.apply.                                               *)
MarketTypeOK ==
  \A m \in {full, joined} :
    /\ DOMAIN m.orders \subseteq Numbers
    /\ \A k \in DOMAIN m.orders : m.orders[k] \in
         UNION {[book : Books, side : {BUY}, price : Prices, qty : 1..q] : q \in Qtys}
    /\ \A k \in DOMAIN m.levels : \A p \in DOMAIN m.levels[k] :
         m.levels[k][p] > 0
    /\ Len(m.tape) <= MaxEntries

Quantities(os) == [k \in DOMAIN os |-> os[k].qty]
Resting(os, b, p) == {k \in DOMAIN os : os[k].book = b /\ os[k].price = p}

(* The levels of book b that the live orders os amount to. *)
Aggregate(os, b) ==
  [p \in {os[k].price : k \in {j \in DOMAIN os : os[j].book = b}} |->
     SumFunctionOnSet(Quantities(os), Resting(os, b, p))]

(* What a market shows of its books: the levels of those that have any. *)
Shown(m) == [k \in {j \in DOMAIN m.levels : m.levels[j] # NoneYet} |->
               m.levels[k]]

(* The levels of both markets are the aggregation of their live orders,     *)
(* through partial and clamped fills, replaces and collisions across books  *)
(* (orderbook.py _insert, _execute, _replace).                              *)
LevelsMatchOrders ==
  \A m \in {full, joined} : \A b \in Books :
    Levels(m, b, BUY) = Aggregate(m.orders, b)

(* A market filled from a snapshot and the live tail holds the orders, the  *)
(* books, the instruments, the tick rows and the clock of one that replayed *)
(* everything, wherever the cut was and whatever came after it              *)
(* (exchange.py build_snapshot; handler.py joins at cut + 1).               *)
SnapshotJoins ==
  joined # NotJoined =>
    /\ joined.orders = full.orders
    /\ Shown(joined) = Shown(full)
    /\ joined.inst = full.inst
    /\ joined.rows = full.rows
    /\ joined.seconds = full.seconds

(* The tape, the per-book statistics and the store's own counter tell the   *)
(* same story of the executions (tape.py record, orderbook.py _execute):    *)
(* every fill is counted once, at the clamped quantity.                     *)
TapeMatchesStore ==
  \A m \in {full, joined} :
    /\ m.totalVolume = m.executed
    /\ m.executed = SumFunction([b \in DOMAIN m.stats |-> m.stats[b].volume])
    /\ m.tradeCount = SumFunction([b \in DOMAIN m.stats |-> m.stats[b].count])
    /\ Len(m.tape) = IF m.tradeCount > MaxEntries THEN MaxEntries
                                                  ELSE m.tradeCount

(* The short-selling rule read off the whole trade history: the last change *)
(* of price decides, the first print is compared with the base price.       *)
LastMove(ps) ==
  LET moves == {i \in 2..Len(ps) : ps[i - 1] \notin {Absent, NO_PRICE}
                                   /\ ps[i] # ps[i - 1]}
  IN moves # {} /\ ps[Max(moves)] > ps[Max(moves) - 1]

(* The short sell price shown for a restricted book is the one the rule     *)
(* gives from the book's whole trade history: the last price after a plus   *)
(* tick, however many equal prints followed, else one tick above it         *)
(* (refdata.py compute_ssp, tape.py BookStats.uptick, views.py              *)
(* static_rows).                                                            *)
ShortSellPrice ==
  \A b \in DOMAIN full.inst :
    LET ps == IF b \in DOMAIN prints THEN prints[b]
              ELSE <<full.inst[b].reference>>
        last == ps[Len(ps)]
        tick == IF full.inst[b].table THEN TickSize(full.rows, last)
                                      ELSE Absent
    IN full.inst[b].shortSell = "1" =>
         StaticRow(full, b) =
           IF last \in {Absent, NO_PRICE} THEN NO_PRICE
           ELSE IF LastMove(ps) THEN last
           ELSE IF tick = Absent THEN NO_PRICE ELSE last + tick

(* The views of one market agree with its orders and with its trades: the   *)
(* levels, the tape and the statistics, the short sell price (market.py).   *)
MarketConsistent == LevelsMatchOrders /\ TapeMatchesStore /\ ShortSellPrice
=============================================================================
