------------------------------ MODULE WebPush ------------------------------
(***************************************************************************)
(* From jnxweb's image to the screens: the WebSocket hub and its clients   *)
(* (jnxweb/wsock.py), the upgrade that creates them (jnxweb/httpd.py) and  *)
(* the quote panel of the page (the script in jnxweb/static_page.py).      *)
(*                                                                         *)
(* A ticker's record is its version.  Pushes to a client are conflated to  *)
(* the latest one and paced by a timer, a client that does not read fills  *)
(* its send buffer and is dropped, and users change ticker while pushes    *)
(* are under way.                                                          *)
(***************************************************************************)
EXTENDS Sequences, FiniteSetsExt

CONSTANTS
  Pages,          \* browser pages
  PushTickers,
  MaxBuf,         \* frames that fit MAX_SEND_BUF
  MaxUpdates,     \* bound on records applied to the image
  MaxRestarts,    \* bound on epoch changes among them
  MaxPushSelects, \* bound on ticker selections by users
  MaxDrops        \* bound on connections lost

PushAssumption ==
  /\ MaxBuf \in Nat \ {0} /\ MaxUpdates \in Nat /\ MaxRestarts \in Nat
  /\ MaxPushSelects \in Nat /\ MaxDrops \in Nat
  /\ "none" \notin PushTickers  \* NoTicker

VARIABLES
  image,   \* State.tickers: the version of each ticker that is known
  clients, \* WsHub.clients, in attach order
  ws,      \* the WebSocketClient of each page's connection
  page,    \* the script's state in each page
  inbound, \* frames from each page, not yet read by jnxweb
  down,    \* frames written by jnxweb, not yet seen by the page
  missed,  \* pages passed over by a broadcast and not served since
  updates, restarts, selects, drops

pushVars == <<image, clients, ws, page, inbound, down, missed,
              updates, restarts, selects, drops>>
counters == <<updates, restarts, selects, drops>>

NoTicker == "none"
Unknown == [ticker |-> NoTicker, v |-> 0]   \* {"error": "unknown"}
Restarted == [ticker |-> NoTicker, v |-> -1] \* {"event": "restarted"}
Closing == [ticker |-> NoTicker, v |-> -2]  \* a close frame
Nothing == [ticker |-> NoTicker, v |-> -3]  \* no payload held back

(* WebSocketClient.__init__; hot: less than MIN_PUSH_INTERVAL since the     *)
(* last push; timer: the flush timer is pending, due once it has expired.   *)
NewClient == [subscribed |-> NoTicker, pending |-> Nothing, hot |-> FALSE,
              timer |-> "off", out |-> <<>>, closing |-> FALSE]

PushInit ==
  /\ image = [t \in {} |-> 0]
  /\ clients = <<>> /\ ws = [p \in Pages |-> NewClient]
  /\ page = [p \in Pages |-> [selected |-> NoTicker, shown |-> Unknown,
                              socket |-> "connecting"]]
  /\ inbound = [p \in Pages |-> <<>>] /\ down = [p \in Pages |-> <<>>]
  /\ missed = {}
  /\ updates = 0 /\ restarts = 0 /\ selects = 0 /\ drops = 0

-----------------------------------------------------------------------------
(* WebSocketClient, as operators on a hub h = [list, ws, down] *)

Hub == [list |-> clients, ws |-> ws, down |-> down]
Attached(h, p) == p \in Range(h.list)

(* Client p has become w. *)
With(h, p, w) ==
  [list |-> h.list, ws |-> [h.ws EXCEPT ![p] = w], down |-> h.down]

(* WsHub.remove: list.remove takes the first one out; without one nothing   *)
(* happens.                                                                 *)
Removed(list, p) ==
  LET at == {i \in DOMAIN list : list[i] = p}
  IN IF at = {} THEN list
     ELSE SubSeq(list, 1, Min(at) - 1) \o SubSeq(list, Min(at) + 1, Len(list))

(* _teardown and WsHub.remove: what was not sent is gone, and the page will *)
(* see the connection close.                                                *)
Teardown(h, p) ==
  [list |-> Removed(h.list, p),
   ws |-> [h.ws EXCEPT ![p] = NewClient],
   down |-> [h.down EXCEPT ![p] = Append(@, Closing)]]

(* Faulty variant: the limit is checked after the frame is in. *)
EnqueueLate(h, p, frame) ==
  IF Len(h.ws[p].out) > MaxBuf THEN Teardown(h, p)
  ELSE With(h, p, [h.ws[p] EXCEPT !.out = Append(@, frame)])

(* _enqueue: a full buffer drops the client. *)
Enqueue(h, p, frame) ==
  IF Len(h.ws[p].out) >= MaxBuf THEN Teardown(h, p)
  ELSE With(h, p, [h.ws[p] EXCEPT !.out = Append(@, frame)])

(* _flush_pending *)
FlushPending(h, p) ==
  Enqueue(With(h, p, [h.ws[p] EXCEPT !.pending = Nothing, !.hot = TRUE]),
          p, h.ws[p].pending)

(* queue_update: the latest payload wins; sent now, or by the timer. *)
QueueUpdate(h, p, rec) ==
  LET w == [h.ws[p] EXCEPT !.pending = rec]
  IN CASE h.ws[p].closing -> h
       [] ~h.ws[p].closing /\ ~h.ws[p].hot -> FlushPending(With(h, p, w), p)
       [] OTHER -> With(h, p, [w EXCEPT !.timer = IF @ = "off" THEN "armed" ELSE @])

(* send_event *)
SendEvent(h, p, frame) ==
  IF h.ws[p].closing THEN h ELSE Enqueue(h, p, frame)

(* The loop bodies of on_ticker_update and of on_restart *)
Visit(h, p, frame) ==
  CASE frame = Restarted -> SendEvent(h, p, frame)
    [] frame # Restarted /\ h.ws[p].subscribed = frame.ticker ->
         QueueUpdate(h, p, frame)
    [] OTHER -> h

(* One round of the loop over the list: the body may remove the client it   *)
(* visits, and the one that moves into its place is passed over.            *)
Round(h, i, frame) ==
  IF i > Len(h.list) THEN h ELSE Visit(h, h.list[i], frame)

(* WsHub.on_ticker_update and on_restart: the list only gets shorter, so as *)
(* many rounds as it is long at first end the loop.                         *)
Broadcast(h, frame) ==
  LET after[i \in 0..Len(h.list)] ==
        IF i = 0 THEN h ELSE Round(after[i - 1], i, frame)
  IN after[Len(h.list)]

Become(h) == clients' = h.list /\ ws' = h.ws /\ down' = h.down

(* Subscribers of t that a broadcast left without the record. *)
PassedOver(h, rec) ==
  {p \in Range(h.list) : /\ h.ws[p].subscribed = rec.ticker
                         /\ ~h.ws[p].closing
                         /\ h.ws[p].pending # rec
                         /\ rec \notin Range(h.ws[p].out)}

-----------------------------------------------------------------------------
(* The image *)

(* State.apply_update or merge_snapshot, with on_ticker_update *)
Update(t) ==
  /\ updates < MaxUpdates /\ updates' = updates + 1
  /\ LET rec == [ticker |-> t, v |-> updates']
         h == Broadcast(Hub, rec)
     IN /\ image' = [u \in DOMAIN image \cup {t} |->
                       IF u = t THEN rec.v ELSE image[u]]
        /\ Become(h)
        /\ missed' = PassedOver(h, rec)
                     \cup {p \in missed : ws[p].subscribed # t}
  /\ UNCHANGED <<page, inbound, restarts, selects, drops>>

(* A record of a new epoch: the image is cleared, everyone is told, then    *)
(* the record is applied.                                                   *)
Restart(t) ==
  /\ restarts < MaxRestarts /\ restarts' = restarts + 1
  /\ updates < MaxUpdates /\ updates' = updates + 1
  /\ LET rec == [ticker |-> t, v |-> updates']
         h == Broadcast(Broadcast(Hub, Restarted), rec)
     IN /\ image' = [u \in {t} |-> rec.v]
        /\ Become(h)
        /\ missed' = PassedOver(h, rec)
                     \cup {p \in missed : ws[p].subscribed # t}
  /\ UNCHANGED <<page, inbound, selects, drops>>

-----------------------------------------------------------------------------
(* The reactor's callbacks for a connection *)

(* connectWs, onopen: the page asks again for the ticker it shows. *)
OnOpen(p) == IF page[p].selected = NoTicker THEN <<>> ELSE <<page[p].selected>>

(* _handle_ws_upgrade, and _complete_ws_upgrade once the 101 is flushed *)
Upgrade(p) ==
  /\ page[p].socket = "connecting"
  /\ Become([list |-> Append(clients, p), ws |-> [ws EXCEPT ![p] = NewClient],
             down |-> [down EXCEPT ![p] = <<>>]])
  /\ page' = [page EXCEPT ![p].socket = "open"]
  /\ inbound' = [inbound EXCEPT ![p] = OnOpen(p)]
  /\ missed' = missed \ {p}
  /\ UNCHANGED <<image, counters>>

Lookup(t) == IF t \in DOMAIN image THEN [ticker |-> t, v |-> image[t]]
             ELSE Unknown

(* Faulty variant: a push held back for the old ticker survives. *)
HandleTextKeepsPending(h, p, t) ==
  Enqueue(With(h, p, [h.ws[p] EXCEPT !.subscribed = t, !.hot = FALSE]),
          p, Lookup(t))

(* _handle_text: subscribe, forget what was held back, answer at once. *)
HandleText(h, p, t) ==
  Enqueue(With(h, p, [h.ws[p] EXCEPT !.subscribed = t, !.pending = Nothing,
                                     !.hot = FALSE, !.timer = "off"]),
          p, Lookup(t))

(* _handle_frame: the page's own close is answered by one.  The script      *)
(* sends text frames only, so pings and other opcodes do not occur.         *)
HandleFrame(h, p, frame) ==
  LET k == Enqueue(h, p, Closing)
  IN CASE frame # NoTicker -> HandleText(h, p, frame)
       [] frame = NoTicker /\ Attached(k, p) -> With(k, p, [k.ws[p] EXCEPT !.closing = TRUE])
       [] OTHER -> k

(* A frame is read; WsFrames has the bytes. *)
OnReadable(p) ==
  /\ Attached(Hub, p) /\ inbound[p] # <<>>
  /\ inbound' = [inbound EXCEPT ![p] = Tail(@)]
  /\ Become(HandleFrame(Hub, p, Head(inbound[p])))
  /\ missed' = missed \ {p}
  /\ UNCHANGED <<image, page, counters>>

(* send() took some of the buffer; a closing connection ends with it. *)
OnWritable(p) ==
  /\ Attached(Hub, p) /\ ws[p].out # <<>>
  /\ \E n \in 1..Len(ws[p].out) :
       LET w == [ws[p] EXCEPT !.out = SubSeq(@, n + 1, Len(@))]
           h == [list |-> clients, ws |-> [ws EXCEPT ![p] = w],
                 down |-> [down EXCEPT ![p] = @ \o SubSeq(ws[p].out, 1, n)]]
       IN Become(IF n = Len(ws[p].out) /\ ws[p].closing THEN Teardown(h, p)
                                                        ELSE h)
  /\ UNCHANGED <<image, page, inbound, missed, counters>>

(* MIN_PUSH_INTERVAL has passed since the last push, and with it the timer  *)
(* that was set to its end.                                                 *)
Cool(p) ==
  /\ ws[p].hot
  /\ ws' = [ws EXCEPT ![p].hot = FALSE,
                      ![p].timer = IF @ = "armed" THEN "due" ELSE @]
  /\ UNCHANGED <<image, clients, page, inbound, down, missed, counters>>

(* _on_flush_timer *)
FlushTimer(p) ==
  /\ ws[p].timer = "due"
  /\ LET h == With(Hub, p, [ws[p] EXCEPT !.timer = "off"])
     IN Become(IF ws[p].pending # Nothing THEN FlushPending(h, p) ELSE h)
  /\ UNCHANGED <<image, page, inbound, missed, counters>>

(* The connection breaks: recv or send fails, the page sees onclose. *)
Drop(p) ==
  /\ Attached(Hub, p) /\ drops < MaxDrops /\ drops' = drops + 1
  /\ Become(Teardown([list |-> clients, ws |-> ws,
                      down |-> [down EXCEPT ![p] = <<>>]], p))
  /\ inbound' = [inbound EXCEPT ![p] = <<>>]
  /\ UNCHANGED <<image, page, missed, updates, restarts, selects>>

-----------------------------------------------------------------------------
(* The page *)

(* selectTicker; the list to choose from may be older than the image. *)
SelectTicker(p, t) ==
  /\ selects < MaxPushSelects /\ selects' = selects + 1
  /\ t # page[p].selected /\ page[p].socket # "gone"
  /\ page' = [page EXCEPT ![p].selected = t, ![p].shown = Unknown]
  /\ inbound' = IF page[p].socket = "open"
                 THEN [inbound EXCEPT ![p] = Append(@, t)]
                 ELSE inbound
  /\ UNCHANGED <<image, clients, ws, down, missed, updates, restarts, drops>>

(* renderSnapshot: a record or an error fills the panel, whichever ticker   *)
(* it is for.                                                               *)
RenderSnapshot(p, rec) == [page EXCEPT ![p].shown = rec]

(* onmessage; an event only shows a banner. *)
OnMessage(p) ==
  /\ page[p].socket = "open" /\ down[p] # <<>> /\ Head(down[p]) # Closing
  /\ down' = [down EXCEPT ![p] = Tail(@)]
  /\ page' = IF Head(down[p]) = Restarted THEN page
             ELSE RenderSnapshot(p, Head(down[p]))
  /\ UNCHANGED <<image, clients, ws, inbound, missed, counters>>

(* onclose, and connectWs a second later; onopen is part of Upgrade. *)
OnClose(p) ==
  /\ page[p].socket = "open" /\ down[p] # <<>> /\ Head(down[p]) = Closing
  /\ page' = [page EXCEPT ![p].socket = "connecting"]
  /\ down' = [down EXCEPT ![p] = <<>>] /\ inbound' = [inbound EXCEPT ![p] = <<>>]
  /\ UNCHANGED <<image, clients, ws, missed, counters>>

(* The user closes the tab, and the browser the connection. *)
Leave(p) ==
  /\ page[p].socket = "open" /\ drops < MaxDrops /\ drops' = drops + 1
  /\ page' = [page EXCEPT ![p].socket = "gone"]
  /\ inbound' = [inbound EXCEPT ![p] = Append(@, NoTicker)]
  /\ UNCHANGED <<image, clients, ws, down, missed, updates, restarts, selects>>

-----------------------------------------------------------------------------
Serve(p) ==
  \/ Upgrade(p) \/ OnReadable(p) \/ OnWritable(p) \/ Cool(p) \/ FlushTimer(p)
Browse(p) == OnMessage(p) \/ OnClose(p)

PushNext ==
  \/ \E t \in PushTickers : Update(t) \/ Restart(t)
  \/ \E p \in Pages : \/ Serve(p) \/ Browse(p) \/ Drop(p) \/ Leave(p)
                      \/ \E t \in PushTickers : SelectTicker(p, t)

PushSpec == PushInit /\ [][PushNext]_pushVars

(* The reactor polls every socket and timer and pages run their callbacks,  *)
(* so what one connection and its page can do does not wait for ever.       *)
PushFairSpec == PushSpec /\ \A p \in Pages : WF_pushVars(Serve(p) \/ Browse(p))

-----------------------------------------------------------------------------
(* Type invariant of hub, connections and pages. *)
PushTypeOK ==
  /\ DOMAIN image \subseteq PushTickers /\ Range(clients) \subseteq Pages
  /\ \A p \in Pages :
       /\ ws[p].subscribed \in PushTickers \cup {NoTicker}
       /\ ws[p].timer \in {"off", "armed", "due"}
       /\ Len(ws[p].out) <= MaxBuf
       /\ page[p].selected \in PushTickers \cup {NoTicker}
       /\ page[p].socket \in {"connecting", "open", "gone"}
  /\ missed \subseteq Pages

(* A record held back is of the ticker the client is subscribed to, is the  *)
(* image's newest, and a timer is set that will send it, so conflation      *)
(* never loses the last update of a burst (queue_update, _handle_text).     *)
HeldBack ==
  \A p \in Range(clients) :
    LET w == ws[p]
    IN w.pending # Nothing /\ ~w.closing =>
         /\ w.timer # "off"
         /\ w.pending.ticker = w.subscribed
         /\ p \notin missed /\ w.subscribed \in DOMAIN image =>
              w.pending = Lookup(w.subscribed)

(* The hub's list has every connection once: a page that believes itself    *)
(* connected is served, or is going to see its connection close             *)
(* (_teardown, attach).                                                     *)
ServedOrClosing ==
  /\ IsInjective(clients)
  /\ \A p \in Pages :
       page[p].socket = "open" =>
         (Attached(Hub, p) \/ Closing \in Range(down[p]))

(* The hub serves every open page, and what it holds back for one is the    *)
(* newest record of the page's ticker (wsock.py).                           *)
HubMatchesPages == HeldBack /\ ServedOrClosing

(* "Pushes a ticker's new snapshot to every client currently subscribed to  *)
(* it" (WsHub, wsock.py:317-318): nobody who subscribes to a ticker is left *)
(* without its newest record.                                               *)
EverySubscriberPushed == missed = {}

(* When updates, selections and breaks stop, every open page shows the      *)
(* newest record of the ticker its user selected, although pushes of the    *)
(* ticker selected before were still under way; a page that was passed over *)
(* has to wait for the next update.                                         *)
PagesSettle ==
  <>[](\A p \in Pages \ missed :
         /\ page[p].socket # "connecting"
         /\ page[p].socket = "open" /\ page[p].selected \in DOMAIN image =>
              page[p].shown = Lookup(page[p].selected))
=============================================================================
