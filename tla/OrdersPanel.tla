----------------------------- MODULE OrdersPanel ----------------------------
(***************************************************************************)
(* The "All orders" panel: a click in the browser (jnxweb/static_page.py)  *)
(* becomes an HTTP request (httpd.py), which becomes an ORDERS query to    *)
(* jnxdb's TCP port (dbquery_client.py), whose answer, error or timeout    *)
(* comes back to a page that may show another ticker by then.              *)
(*                                                                         *)
(* Each step is one callback of the web server's reactor or one event      *)
(* handler of the page.  A reload leaves its request behind in the server. *)
(***************************************************************************)
EXTENDS Integers

CONSTANTS
  PanelTickers,    \* order books the page may select
  Pieces,          \* reads that make up a whole reply of jnxdb
  MaxReqs,         \* bound: requests
  MaxPanelSelects, \* bound: ticker selections
  MaxReloads       \* bound: page reloads

OrdersPanelAssumption ==
  /\ "none" \notin PanelTickers /\ Pieces \in Nat \ {0}
  /\ MaxReqs \in Nat /\ MaxPanelSelects \in Nat /\ MaxReloads \in Nat

VARIABLES
  configured,  \* db_query_addr is set; fixed when jnxweb starts
  panelPage,   \* selected, ordersTicker, the button and the panel
  conn,        \* HttpConnection of request i
  ordersQuery, \* OrdersQuery of request i
  panelSelects, reloads

panelVars == <<configured, panelPage, conn, ordersQuery, panelSelects, reloads>>

Reqs == 1..MaxReqs
Nil == "none"

(* status: the line above the table; rows: the ticker whose orders are in   *)
(* the table, Nil when it is hidden.                                        *)
FreshPage == [selected |-> Nil, ordersTicker |-> Nil, disabled |-> FALSE,
              status |-> "not queried", rows |-> Nil]

(* load: the page load whose script waits for the answer. *)
NoConn == [at |-> "unused", ticker |-> Nil, reply |-> Nil, open |-> FALSE,
           load |-> 0]
Mine(i) == conn[i].load = reloads
NoOrdersQuery == [at |-> "unused", got |-> 0, timer |-> FALSE, done |-> 0]

-----------------------------------------------------------------------------
(* The page *)

(* selectTicker: the panel is reset, a request in flight is not aborted. *)
PanelSelectTicker(t) ==
  /\ panelSelects < MaxPanelSelects
  /\ t # panelPage.selected
  /\ panelPage' = [panelPage EXCEPT !.selected = t, !.ordersTicker = Nil,
                                    !.status = "not queried", !.rows = Nil]
  /\ panelSelects' = panelSelects + 1
  /\ UNCHANGED <<configured, conn, ordersQuery, reloads>>

Unused == {i \in Reqs : conn[i].at = "unused"}

(* Faulty variant: the button stays enabled while a request is in flight. *)
BusyNever(p) == [p EXCEPT !.status = "querying"]

(* The rows of an earlier answer stay. *)
Busy(p) == [p EXCEPT !.disabled = TRUE, !.status = "querying"]

(* The click handler and refreshOrders. *)
Click(i) ==
  /\ ~panelPage.disabled
  /\ panelPage.selected # Nil
  /\ i \in Unused /\ \A j \in Unused : i <= j
  /\ panelPage' = Busy([panelPage EXCEPT !.ordersTicker = panelPage.selected])
  /\ conn' = [conn EXCEPT ![i] = [at |-> "sent", ticker |-> panelPage.selected,
                                  reply |-> Nil, open |-> TRUE,
                                  load |-> reloads]]
  /\ UNCHANGED <<configured, ordersQuery, panelSelects, reloads>>

(* The answer of request i arrives: dropped unless ordersTicker is still    *)
(* the selected one.                                                        *)
RenderOrders(p, ticker) == [p EXCEPT !.status = "rows", !.rows = ticker]

RenderError(p) == [p EXCEPT !.status = "error", !.rows = Nil]

Enabled(p) == [p EXCEPT !.disabled = FALSE]

(* Faulty variant: a stale answer is dropped before the button is enabled. *)
RepliedTooLate(p, ok, ticker) ==
  CASE p.ordersTicker # p.selected -> p
    [] p.ordersTicker = p.selected /\ ok -> RenderOrders(Enabled(p), ticker)
    [] OTHER -> RenderError(Enabled(p))

Replied(p, ok, ticker) ==
  CASE p.ordersTicker # p.selected -> Enabled(p)
    [] p.ordersTicker = p.selected /\ ok -> RenderOrders(Enabled(p), ticker)
    [] OTHER -> RenderError(Enabled(p))

OnReply(i) ==
  /\ conn[i].at = "answered"
  /\ conn' = [conn EXCEPT ![i].at = "over", ![i].open = FALSE]
  /\ panelPage' = IF ~Mine(i) THEN panelPage
                  ELSE Replied(panelPage, conn[i].reply = "200", conn[i].ticker)
  /\ UNCHANGED <<configured, ordersQuery, panelSelects, reloads>>

(* The promise is rejected: the connection failed or ended early.  This     *)
(* handler does not look at the selected ticker, and leaves the rows.       *)
OnFailure(i) ==
  /\ conn[i].at \in {"sent", "broken"}
  /\ conn' = [conn EXCEPT ![i].at = "over", ![i].open = FALSE]
  /\ panelPage' = IF ~Mine(i) THEN panelPage
                  ELSE [panelPage EXCEPT !.disabled = FALSE,
                                         !.status = "request failed"]
  /\ UNCHANGED <<configured, ordersQuery, panelSelects, reloads>>

(* The browser reloads: the connection is closed under the server, which    *)
(* has dropped its read interest and only notices when it answers.          *)
Reload ==
  /\ reloads < MaxReloads
  /\ panelPage' = FreshPage
  /\ conn' = [i \in Reqs |-> [conn[i] EXCEPT !.open = FALSE]]
  /\ reloads' = reloads + 1
  /\ UNCHANGED <<configured, ordersQuery, panelSelects>>

-----------------------------------------------------------------------------
(* HttpConnection and OrdersQuery *)

(* on_done -> respond_json: the status line of the reply is queued. *)
Respond(i, reply) ==
  conn' = [conn EXCEPT ![i].at = "responding", ![i].reply = reply]

(* Faulty variant: the timer is left running and nothing says the query is  *)
(* over.                                                                    *)
FinishCarelessly(i, reply) ==
  /\ ordersQuery' = [ordersQuery EXCEPT ![i].done = @ + 1]
  /\ Respond(i, reply)

(* _finish: once; the timer is cancelled, the socket closed. *)
Finish(i, reply) ==
  /\ ordersQuery' = [ordersQuery EXCEPT ![i].at = "finished", ![i].timer = FALSE,
                                        ![i].done = @ + 1]
  /\ Respond(i, reply)

Started == [at |-> "connecting", got |-> 0, timer |-> TRUE, done |-> 0]

(* route and _handle_orders: 503 without a query address; connect() may     *)
(* fail at once.                                                            *)
HandleOrders(i) ==
  \/ /\ ~configured
     /\ Respond(i, "503")
     /\ UNCHANGED ordersQuery
  \/ /\ configured
     /\ ordersQuery' = [ordersQuery EXCEPT ![i] = Started]
     /\ conn' = [conn EXCEPT ![i].at = "querying"]
  \/ /\ configured
     /\ Finish(i, "502")

(* _on_readable and _handle_request *)
OnRequest(i) ==
  /\ conn[i].at = "sent"
  /\ conn[i].open
  /\ HandleOrders(i)
  /\ UNCHANGED <<configured, panelPage, panelSelects, reloads>>

(* The page went away before the request was read. *)
OnEof(i) ==
  /\ conn[i].at = "sent"
  /\ ~conn[i].open
  /\ conn' = [conn EXCEPT ![i].at = "over"]
  /\ UNCHANGED <<configured, panelPage, ordersQuery, panelSelects, reloads>>

(* _on_writable: SO_ERROR or a send error ends the query; a short send      *)
(* leaves it where it is.                                                   *)
OnQueryWritable(i) ==
  /\ ordersQuery[i].at = "connecting"
  /\ \/ Finish(i, "502")
     \/ ordersQuery' = [ordersQuery EXCEPT ![i].at = "reading"] /\ UNCHANGED conn
  /\ UNCHANGED <<configured, panelPage, panelSelects, reloads>>

(* _parse_orders_reply: rows, an ERR line, or nothing but the terminator. *)
ParsedReplies == {"200", "404", "502"}

(* _on_readable: a piece of the reply; the last one ends in the terminator. *)
OnQueryReadable(i) ==
  /\ ordersQuery[i].at = "reading"
  /\ \/ /\ ordersQuery[i].got + 1 < Pieces
        /\ ordersQuery' = [ordersQuery EXCEPT ![i].got = @ + 1]
        /\ UNCHANGED conn
     \/ /\ ordersQuery[i].got + 1 = Pieces
        /\ \E reply \in ParsedReplies : Finish(i, reply)
     \/ Finish(i, "502")      \* EOF or error before the terminator
  /\ UNCHANGED <<configured, panelPage, panelSelects, reloads>>

(* _on_timeout, DEFAULT_TIMEOUT after the connect. *)
OnTimeout(i) ==
  /\ ordersQuery[i].timer
  /\ Finish(i, "502")
  /\ UNCHANGED <<configured, panelPage, panelSelects, reloads>>

(* _on_writable of the connection: the response is flushed, then _close; or *)
(* the send fails.                                                          *)
OnHttpWritable(i) ==
  /\ conn[i].at = "responding"
  /\ \/ conn[i].open /\ conn' = [conn EXCEPT ![i].at = "answered"]
     \/ conn' = [conn EXCEPT ![i].at = IF conn[i].open THEN "broken"
                                                       ELSE "over"]
  /\ UNCHANGED <<configured, panelPage, ordersQuery, panelSelects, reloads>>

-----------------------------------------------------------------------------
PanelInit ==
  /\ configured \in BOOLEAN
  /\ panelPage = FreshPage
  /\ conn = [i \in Reqs |-> NoConn]
  /\ ordersQuery = [i \in Reqs |-> NoOrdersQuery]
  /\ panelSelects = 0 /\ reloads = 0

ServeRequest(i) == OnRequest(i) \/ OnEof(i) \/ OnHttpWritable(i)

PanelNext ==
  \/ \E t \in PanelTickers : PanelSelectTicker(t)
  \/ \E i \in Reqs : Click(i) \/ OnReply(i) \/ OnFailure(i)
  \/ Reload
  \/ \E i \in Reqs : ServeRequest(i) \/ OnTimeout(i)
  \/ \E i \in Reqs : OnQueryWritable(i) \/ OnQueryReadable(i)

PanelSpec == PanelInit /\ [][PanelNext]_panelVars

(* The web server's loop and timer and the browser are fair.  jnxdb is not: *)
(* it may accept the query and never answer.                                *)
Progress(i) ==
  \/ ServeRequest(i) \/ OnTimeout(i) \/ OnReply(i)
  \/ conn[i].at = "broken" /\ OnFailure(i)

PanelFairSpec == PanelSpec /\ \A i \in Reqs : WF_panelVars(Progress(i))

-----------------------------------------------------------------------------
(* Type invariant: the button is disabled exactly while a request of this   *)
(* load of the page is out (refreshOrders).                                 *)
PanelTypeOK ==
  /\ panelPage.selected \in PanelTickers \cup {Nil}
  /\ panelPage.ordersTicker \in {Nil, panelPage.selected}
  /\ panelPage.disabled <=>
       \E i \in Reqs : Mine(i) /\ conn[i].at \notin {"unused", "over"}

(* The table never shows another ticker's orders: whatever the order of     *)
(* selections, clicks, replies, failures and reloads, and although a new    *)
(* query or a failed one leaves the rows where they are, they belong to the *)
(* selected ticker (static_page.py refreshOrders: "ticker changed while the *)
(* request was in flight -- drop it").                                      *)
RowsOfSelected == panelPage.rows \in {Nil, panelPage.selected}

(* on_done is called exactly once per query (OrdersQuery's docstring), so a *)
(* connection is answered once: a timeout racing the last piece of a reply  *)
(* or a refused connect does not answer again.                              *)
AnsweredOnce ==
  \A i \in Reqs :
    /\ ordersQuery[i].done <= 1
    /\ ordersQuery[i].done = 1 <=> ordersQuery[i].at = "finished"
    /\ conn[i].at \in {"responding", "answered", "broken"} /\ configured =>
         ordersQuery[i].done = 1

(* The Refresh button comes back after every click, also when jnxdb accepts *)
(* the query and never answers (dbquery_client.py _on_timeout).             *)
ButtonReturns == panelPage.disabled ~> ~panelPage.disabled
=============================================================================
