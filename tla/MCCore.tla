------------------------------- MODULE MCCore -------------------------------
(* The market and its copies: the feed handler and the database through     *)
(* crashes and stalls (FhDb), once with everything that can happen and      *)
(* once, with fairness, on a session that does not end; the order books on  *)
(* both sides of a perfect link (BookMirror), without and with orders       *)
(* numbered 0; and the Python market, from the first message and from a     *)
(* snapshot (Market).  A behaviour is a behaviour of the part that CoreInit *)
(* chooses, and the others keep their initial states.                       *)
EXTENDS FhDb, BookMirror

VARIABLES part, full, joined, prints, msgs

marketVars == <<full, joined, prints, msgs>>
coreVars == <<part, vars, bookVars, marketVars>>

(* A clock message leaves the FH ahead of the DB's position. *)
XTX == {<<"X", "T", "X">>}
Replay == {"replay"}

(* An undecodable message, and a tick table; either bootstrap, and an end.  *)
Mixed == {<<"X", "bad", "X", "T">>, <<"L", "X", "T", "X">>}
F == INSTANCE FhDb WITH
       Streams <- Mixed, Bootstraps <- {"replay", "glimpse"},
       EndOfSession <- TRUE, MaxDbCrashes <- 2

(* Number 1 moves between b1 and b2, as on a combined feed; b3 has numbers  *)
(* 2 and 3 to itself.                                                       *)
MCNumbers == 1..3
MCBooks == {"b1", "b2", "b3"}
MCHome == {<<1, "b1">>, <<1, "b2">>, <<2, "b3">>, <<3, "b3">>}
OneSide == {"B"}
MCPrices == {10, 11}
MCQtys == {1, 2}

(* F messages numbered 0 on the ticker that shares no number.               *)
Z == INSTANCE BookMirror WITH
       Home <- {<<1, "b1">>, <<1, "b2">>, <<2, "b3">>},
       ZeroOrders <- {[book |-> "b3", side |-> "B", price |-> 10, qty |-> 1]}

(* Two numbers that may be used on either book, one of them trading at two  *)
(* prices; fills of part of an order and of more than it holds; a base      *)
(* price that may be absent; one row of the tick table.                     *)
Py == INSTANCE Market WITH
        Books <- {"x", "y"}, Numbers <- {1, 2}, Prices <- {10, 11}, Qtys <- {2},
        Fills <- {1, 3}, BasePrices <- {10, 999}, TickRows <- {<<11, 5>>},
        MaxEntries <- 2, MaxMsgs <- 5

ASSUME Py!MarketAssumption

-----------------------------------------------------------------------------
CoreInit ==
  /\ part \in {"faults", "live", "book", "zero", "market"}
  /\ IF part = "faults" THEN F!Init ELSE Init
  /\ BookInit /\ Py!MarketInit

CoreNext ==
  /\ UNCHANGED part
  /\ \/ part = "faults" /\ F!Next /\ UNCHANGED <<bookVars, marketVars>>
     \/ part = "live" /\ Next /\ UNCHANGED <<bookVars, marketVars>>
     \/ part = "book" /\ BookNext /\ UNCHANGED <<vars, marketVars>>
     \/ part = "zero" /\ Z!BookNext /\ UNCHANGED <<vars, marketVars>>
     \/ part = "market" /\ Py!MarketNext /\ UNCHANGED <<vars, bookVars>>

(* FhDb's fairness; a part that does not run owes nothing. *)
CoreSpec ==
  /\ CoreInit /\ [][CoreNext]_coreVars
  /\ WF_vars(part = "live" /\ FhStep)
  /\ WF_vars(part = "live" /\ DbStep)

-----------------------------------------------------------------------------
(* What FhDb and BookMirror promise is defined there, with its arguments;   *)
(* below are Market's promises and the two that hold of the session without *)
(* end and without a GLIMPSE bootstrap only.                                *)

(* market.py: no level is missing or negative when an order leaves it, and  *)
(* levels, tape, statistics and short sell price agree with the orders and  *)
(* trades they are kept from.                                               *)
MarketConsistent == Py!MarketTypeOK /\ Py!MarketConsistent

(* exchange.py build_snapshot, handler.py: a market filled from a snapshot  *)
(* cut anywhere and the live tail is the one replayed from the first        *)
(* message.                                                                 *)
SnapshotJoins == Py!SnapshotJoins

(* jnxfh_main.cpp on_message ("DB write FIRST", then multicast): what was   *)
(* never multicast is at most the message in flight at each crash of jnxfh. *)
GapBounded == part = "live" => MulticastGapBounded

(* jnxfh_main.cpp try_db_connect and its 1 s timer: when crashes stop,      *)
(* jnxfh catches up and the DB mirrors it all, or jnxfh has yet to notice   *)
(* that its DB died.                                                        *)
Convergence == part = "live" => Converges
=============================================================================
