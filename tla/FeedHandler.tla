---------------------------- MODULE FeedHandler ----------------------------
(***************************************************************************)
(* The Python feed handler: FeedHandler (jnxfeed/handler.py) driving a     *)
(* GlimpseClient (glimpse.py) and then an ITCH SoupSession                 *)
(* (soup/session.py), each over a TcpSoupConnector (net/tcp.py), against   *)
(* both servers of the exchange simulator (sim/exchange.py).               *)
(*                                                                         *)
(* A callback runs to its end before the reactor polls again, and calls    *)
(* straight through session, connector, bootstrap and handler: the client  *)
(* is one record, and those calls are operators on it.  What one recv      *)
(* returned is dispatched to the end even when a packet of it stops        *)
(* everything.                                                             *)
(***************************************************************************)
EXTENDS Integers, Sequences

CONSTANTS
  FeedLast,      \* messages in a session
  Cut,           \* glimpse_cut: messages the snapshot incorporates
  SnapLen,       \* messages a snapshot consists of, without its G
  FeedRetries,   \* max_retries values in use; 0 is None
  Limits,        \* --limit values in use; 0 is None
  MaxFeedDay,    \* sessions the exchange runs, one after the other
  MaxFeedFaults, \* bound on refused, reset, raced and dark connections
  MaxFeedWire    \* bound on packets in flight to the client

FeedAssumption ==
  /\ FeedLast \in Nat \ {0} /\ Cut \in 0..FeedLast /\ SnapLen \in Nat
  /\ FeedRetries \subseteq Nat /\ Limits \subseteq Nat /\ MaxFeedDay \in Nat \ {0}
  /\ MaxFeedFaults \in Nat /\ MaxFeedWire \in Nat \ {0, 1}

VARIABLES
  setup,  \* configuration: GLIMPSE or replay, max_retries, credentials,
          \* whether the session closes with an S event C, tail's --limit
  cl,     \* the client: handler, bootstrap, session, connector, market
  batch,  \* packets of the current recv not yet dispatched
  busy,   \* _on_readable is running
  net,    \* the exchange's thread for this connection and its packets
  feedDay, feedFaults

handlerVars == <<setup, cl, batch, busy, net, feedDay, feedFaults>>

Terminal == {"ENDED", "FAILED"}
Blank == 0
NoNet == [peer |-> "none", login |-> [session |-> Blank, seq |-> 0],
          pos |-> 1, wire |-> <<>>, dark |-> FALSE]

-----------------------------------------------------------------------------
(* TcpSoupConnector, as operators on the client *)

MaxRetries(c) == IF c.role = "glimpse" THEN 1 ELSE setup.retries

(* _close_socket and _cancel_timers *)
CloseSocket(c) == [c EXCEPT !.retry = FALSE, !.tick = FALSE]

(* stop *)
StopConnector(c) == [CloseSocket(c) EXCEPT !.conn = "STOPPED"]

(* Faulty variant: every cause of an end is reported. *)
OverAgain(c, state) ==
  [StopConnector(c) EXCEPT !.state = state, !.told = Append(@, state)]

(* FeedHandler._fail and _end: a no-op once over. *)
Over(c, state) ==
  IF c.state \in Terminal THEN c
  ELSE [StopConnector(c) EXCEPT !.state = state, !.told = Append(@, state)]

(* Faulty variant: the client is stopped and nobody is told. *)
GlimpseFailSilent(c) ==
  IF c.done THEN c
  ELSE StopConnector([c EXCEPT !.done = TRUE, !.watchdog = FALSE])

(* GlimpseClient.stop *)
GlimpseStop(c) == StopConnector([c EXCEPT !.watchdog = FALSE])

(* FeedHandler._on_snapshot_failed *)
SnapshotFailed(c) == Over(c, "FAILED")

(* GlimpseClient._fail *)
GlimpseFail(c) ==
  IF c.done THEN c ELSE SnapshotFailed(GlimpseStop([c EXCEPT !.done = TRUE]))

(* GlimpseClient: a reject, a Z, a lost connection and giving up are all    *)
(* the end of a snapshot that is not complete.                              *)
SnapshotLost(c) == GlimpseFail(c)

(* on_give_up of either owner *)
GiveUp(c) == IF c.role = "glimpse" THEN SnapshotLost(c) ELSE Over(c, "FAILED")

FeedScheduleRetry(c) ==
  CASE c.conn = "STOPPED" -> c
    [] c.conn # "STOPPED" /\ MaxRetries(c) # 0 /\ c.attempts >= MaxRetries(c) ->
         GiveUp([c EXCEPT !.conn = "STOPPED"])
    [] OTHER -> [c EXCEPT !.conn = "IDLE", !.retry = TRUE]

(* on_disconnect: terminal for a snapshot, a log line for ITCH. *)
OnDisconnect(c) == IF c.role = "glimpse" THEN SnapshotLost(c) ELSE c

FeedHandleDisconnect(c) ==
  IF c.conn = "STOPPED" THEN CloseSocket(c)
  ELSE FeedScheduleRetry(OnDisconnect(CloseSocket(c)))

(* reconnect *)
Reconnect(c) == IF c.conn = "CONNECTED" THEN FeedHandleDisconnect(c) ELSE c

(* _attempt_connect up to the point where the socket is being connected *)
FeedAttemptConnect(c) ==
  IF c.conn = "STOPPED" THEN c
  ELSE [c EXCEPT !.attempts = @ + 1, !.conn = "CONNECTING", !.retry = FALSE]

(* start: a stopped connector may be started again. *)
StartConnector(c) ==
  FeedAttemptConnect([c EXCEPT !.conn = IF @ = "STOPPED" THEN "IDLE" ELSE @])

(* Faulty variant: the session logs in from what it was constructed with. *)
ResetToBase(c) ==
  [c EXCEPT !.sess = "LOGIN_SENT", !.heard = FALSE, !.seq = c.base]

(* SoupSession.reset and start: the resume point survives. *)
FeedResetAndStart(c) == [c EXCEPT !.sess = "LOGIN_SENT", !.heard = FALSE]

(* logout, flush: the write may meet a socket the peer has closed. *)
Flushed(c) ==
  {c} \cup IF c.conn = "CONNECTED" /\ net.peer = "closed" /\ ~net.dark
           THEN {FeedHandleDisconnect(c)} ELSE {}

-----------------------------------------------------------------------------
(* FeedHandler *)

(* _start_itch: a new session and a new connector, started at once. *)
StartItch(c, seq) ==
  StartConnector([c EXCEPT !.role = "itch", !.base = seq, !.seq = seq,
                           !.session = Blank, !.sess = "CONNECTED",
                           !.heard = FALSE, !.attempts = 0, !.conn = "IDLE"])

(* stop(): logs out, stops everything, reports an end unless one has been. *)
HandlerStop(c) ==
  { Over(d, "ENDED") : d \in IF c.role = "glimpse" THEN {GlimpseStop(c)}
                             ELSE {StopConnector(d) : d \in Flushed(c)} }

(* _on_snapshot_complete *)
SnapshotComplete(c, seq) == StartItch(c, seq)

(* GlimpseClient.start *)
GlimpseStart(c) == StartConnector([c EXCEPT !.watchdog = TRUE])

NewClient ==
  [state |-> "INIT", told |-> <<>>, done |-> FALSE, watchdog |-> FALSE,
   role |-> "glimpse", conn |-> "IDLE", attempts |-> 0, retry |-> FALSE,
   tick |-> FALSE, sess |-> "CONNECTED", session |-> Blank, seq |-> 1,
   heard |-> FALSE, base |-> 1, snap |-> 0, live |-> <<>>,
   printed |-> 0]

(* start() *)
Started(s) ==
  IF s.glimpse
  THEN GlimpseStart([NewClient EXCEPT !.state = "SNAPSHOT"])
  ELSE StartItch(NewClient, 1)

FeedInit ==
  /\ setup \in [glimpse : BOOLEAN, retries : FeedRetries, auth : BOOLEAN,
                closing : BOOLEAN, limit : Limits]
  /\ cl = Started(setup)
  /\ batch = <<>> /\ busy = FALSE /\ net = NoNet /\ feedDay = 1 /\ feedFaults = 0

FeedFault == feedFaults < MaxFeedFaults /\ feedFaults' = feedFaults + 1

(* A connection the client has given up takes its thread and packets along. *)
Become(c, n) ==
  /\ cl' = c
  /\ net' = IF c.conn = "CONNECTED" /\ c.role = cl.role THEN n ELSE NoNet

-----------------------------------------------------------------------------
(* Reactor callbacks of the connector *)

(* The retry timer; a tick left from a connect whose login could not be     *)
(* sent comes first (0.25 s against 0.5 s).                                 *)
Retry ==
  /\ ~busy /\ cl.retry /\ ~cl.tick
  /\ Become(FeedAttemptConnect(cl), net)
  /\ UNCHANGED <<setup, batch, busy, feedDay, feedFaults>>

(* connect() fails at once, SO_ERROR says so, or the deadline passes. *)
ConnectError ==
  /\ ~busy /\ cl.conn = "CONNECTING" /\ FeedFault
  /\ Become(FeedScheduleRetry(CloseSocket(cl)), net)
  /\ UNCHANGED <<setup, batch, busy, feedDay>>

(* _on_connect_writable, _on_connected *)
OnConnected ==
  /\ ~busy /\ cl.conn = "CONNECTING"
  /\ LET c == [FeedResetAndStart(cl) EXCEPT !.conn = "CONNECTED", !.tick = TRUE]
     IN Become(c, [NoNet EXCEPT !.peer = "login",
                                !.login = [session |-> c.session,
                                           seq |-> c.seq]])
  /\ UNCHANGED <<setup, batch, busy, feedDay, feedFaults>>

(* The same with a login that cannot be sent: _schedule_tick still runs. *)
OnConnectedSendFails ==
  /\ ~busy /\ cl.conn = "CONNECTING" /\ FeedFault
  /\ LET c == FeedHandleDisconnect([FeedResetAndStart(cl) EXCEPT !.conn = "CONNECTED"])
     IN Become([c EXCEPT !.tick = TRUE], net)
  /\ UNCHANGED <<setup, batch, busy, feedDay>>

StrayTick ==
  /\ ~busy /\ cl.tick /\ cl.conn # "CONNECTED"
  /\ Become([cl EXCEPT !.tick = FALSE], net)
  /\ UNCHANGED <<setup, batch, busy, feedDay, feedFaults>>

(* _on_readable: recv returned some of what is there. *)
Recv ==
  /\ ~busy /\ cl.conn = "CONNECTED" /\ net.wire # <<>>
  /\ \E n \in 1..Len(net.wire) :
       /\ batch' = SubSeq(net.wire, 1, n)
       /\ Become([cl EXCEPT !.heard = TRUE],
                 [net EXCEPT !.wire = SubSeq(@, n + 1, Len(@))])
  /\ busy' = TRUE
  /\ UNCHANGED <<setup, feedDay, feedFaults>>

(* The end of _on_readable: a live session clears the attempt count, the    *)
(* output is flushed, a finished session stops the connector.               *)
RecvDone ==
  /\ busy /\ batch = <<>>
  /\ busy' = FALSE
  /\ LET c == IF cl.sess = "LIVE" THEN [cl EXCEPT !.attempts = 0] ELSE cl
     IN Become(IF cl.sess \in {"ENDED", "FAILED"} THEN StopConnector(c) ELSE c,
               net)
  /\ UNCHANGED <<setup, batch, feedDay, feedFaults>>

(* recv returned 0 or an error. *)
Eof ==
  /\ ~busy /\ cl.conn = "CONNECTED" /\ net.peer = "closed"
  /\ net.wire = <<>> /\ ~net.dark
  /\ Become(FeedHandleDisconnect(cl), net)
  /\ UNCHANGED <<setup, batch, busy, feedDay, feedFaults>>

(* _on_tick's heartbeat meets the closed socket before its data is read. *)
SendFails ==
  /\ ~busy /\ cl.conn = "CONNECTED" /\ net.peer = "closed" /\ ~net.dark
  /\ cl.sess \in {"LOGIN_SENT", "LIVE"} /\ FeedFault
  /\ Become(FeedHandleDisconnect(cl), net)
  /\ UNCHANGED <<setup, batch, busy, feedDay>>

(* _on_tick after 15 s of silence: only ITCH reconnects on it. *)
FeedPeerSilent ==
  /\ ~busy /\ cl.tick /\ cl.conn = "CONNECTED" /\ cl.role = "itch"
  /\ cl.sess \in {"LOGIN_SENT", "LIVE"}
  /\ cl.heard /\ net.dark /\ net.wire = <<>>
  /\ Become(Reconnect(cl), net)
  /\ UNCHANGED <<setup, batch, busy, feedDay, feedFaults>>

(* GlimpseClient._on_timeout *)
Watchdog ==
  /\ ~busy /\ cl.watchdog
  /\ Become(GlimpseFail([cl EXCEPT !.watchdog = FALSE]), net)
  /\ UNCHANGED <<setup, batch, busy, feedDay, feedFaults>>

(* The owner calls stop() from outside (an interrupt). *)
FeedStop ==
  /\ ~busy /\ cl.state \notin Terminal
  /\ \E c \in HandlerStop(cl) : Become(c, net)
  /\ UNCHANGED <<setup, batch, busy, feedDay, feedFaults>>

-----------------------------------------------------------------------------
(* SoupSession._handle_packet and the owner's callback, for each packet *)

Packet(t) ==
  /\ busy /\ batch # <<>> /\ Head(batch).type = t
  /\ UNCHANGED <<setup, busy, feedDay, feedFaults>>

Dispatched == batch' = Tail(batch)

FeedOnLoginAccepted ==
  /\ Packet("A") /\ Dispatched
  /\ Become([cl EXCEPT !.session = Head(batch).day, !.seq = Head(batch).k,
                       !.sess = "LIVE",
                       !.state = IF cl.role = "itch" THEN "LIVE" ELSE @], net)

FeedOnLoginRejected ==
  /\ Packet("J") /\ Dispatched
  /\ LET c == [cl EXCEPT !.sess = "FAILED"]
     IN Become(IF cl.role = "glimpse" THEN SnapshotLost(c)
                                      ELSE Over(c, "FAILED"), net)

(* tail's on_message: what it has printed, and whether it asks to stop. *)
TailWantsMore(c) ==
  LET full == setup.limit # 0 /\ c.printed >= setup.limit
      d == IF full THEN c ELSE [c EXCEPT !.printed = @ + 1]
  IN <<d, setup.limit # 0 /\ d.printed >= setup.limit>>

(* _on_itch_message: apply, the callback that may call stop(), and the end  *)
(* of messages.                                                             *)
FeedOnMessage ==
  /\ Packet("S") /\ Dispatched
  /\ LET p == Head(batch)
         c == [cl EXCEPT !.seq = @ + 1,
                         !.live = Append(@, [day |-> p.day, k |-> p.k])]
         t == TailWantsMore(c)
     IN \E d \in IF t[2] THEN HandlerStop(t[1]) ELSE {t[1]} :
          Become(IF setup.closing /\ p.k = FeedLast THEN Over(d, "ENDED") ELSE d,
                 net)

(* GlimpseClient._on_message for a message of the snapshot *)
OnSnapshotMessage ==
  /\ Packet("P") /\ Dispatched
  /\ Become(IF cl.done THEN cl
            ELSE [cl EXCEPT !.seq = @ + 1, !.snap = @ + 1], net)

(* The G: _complete logs out and stops, _on_snapshot_complete goes live.    *)
(* What is left of the batch belongs to the finished client.                *)
OnEndOfSnapshot ==
  /\ Packet("G") /\ batch' = <<>>
  /\ \E c \in Flushed([cl EXCEPT !.done = TRUE]) :
       Become(SnapshotComplete(GlimpseStop(c), Head(batch).k), net)

FeedOnHeartbeat ==
  /\ Packet("H") /\ Dispatched
  /\ UNCHANGED <<cl, net>>

FeedOnEndOfSession ==
  /\ Packet("Z") /\ Dispatched
  /\ Become(Over([cl EXCEPT !.sess = "ENDED"], "ENDED"), net)

-----------------------------------------------------------------------------
(* The exchange: one thread per connection (_run_conn) *)

FeedRoom == cl.conn = "CONNECTED" /\ ~net.dark /\ Len(net.wire) < MaxFeedWire
Sent(n, type, k) ==
  [n EXCEPT !.wire = Append(@, [type |-> type, day |-> feedDay, k |-> k])]
Peer(p) ==
  /\ net.peer = p /\ FeedRoom
  /\ UNCHANGED <<setup, cl, batch, busy, feedDay, feedFaults>>

(* _read_login, _validate_credentials and the session check, which only the *)
(* ITCH server can fail: a snapshot is requested with a blank session.      *)
FeedPeerLogin ==
  /\ Peer("login")
  /\ net' = CASE ~setup.auth \/ net.login.session \notin {Blank, feedDay} ->
                   Sent([net EXCEPT !.peer = "closed"], "J", 0)
              [] setup.auth /\ net.login.session \in {Blank, feedDay} ->
                   IF cl.role = "glimpse"
                   THEN Sent([net EXCEPT !.peer = "snapshot"], "A", 1)
                   ELSE Sent([net EXCEPT !.peer = "replay",
                                         !.pos = net.login.seq],
                             "A", net.login.seq)

(* _handle_itch's replay and its Z *)
PeerReplay ==
  /\ Peer("replay")
  /\ net' = IF net.pos <= FeedLast
            THEN Sent([net EXCEPT !.pos = @ + 1], "S", net.pos)
            ELSE Sent([net EXCEPT !.peer = "linger"], "Z", 0)

(* _pace *)
FeedPeerHeartbeat ==
  /\ Peer("replay") /\ net.pos <= FeedLast /\ net.wire = <<>>
  /\ net' = Sent(net, "H", 0)

(* _handle_glimpse: the snapshot, then G with the next live number *)
PeerSnapshot ==
  /\ Peer("snapshot")
  /\ net' = IF net.pos <= SnapLen
            THEN Sent([net EXCEPT !.pos = @ + 1], "P", net.pos)
            ELSE Sent([net EXCEPT !.peer = "linger"], "G", Cut + 1)

(* _linger gives up on a client that does not close. *)
FeedPeerLingered ==
  /\ net.peer = "linger"
  /\ net' = [net EXCEPT !.peer = "closed"]
  /\ UNCHANGED <<setup, cl, batch, busy, feedDay, feedFaults>>

Truncated(n) == {[n EXCEPT !.wire = SubSeq(n.wire, 1, i)] : i \in 0..Len(n.wire)}

(* An abrupt close, which may lose what has not been read. *)
FeedPeerDrop ==
  /\ net.peer \notin {"none", "closed"} /\ FeedFault
  /\ net' \in Truncated([net EXCEPT !.peer = "closed"])
  /\ UNCHANGED <<setup, cl, batch, busy, feedDay>>

(* No FIN, no RST: packets just stop coming. *)
FeedGoDark ==
  /\ net.peer # "none" /\ ~net.dark /\ FeedFault
  /\ net' \in Truncated([net EXCEPT !.dark = TRUE])
  /\ UNCHANGED <<setup, cl, batch, busy, feedDay>>

(* stop() of one simulator and the start of the next day's *)
FeedRollover ==
  /\ feedDay < MaxFeedDay
  /\ feedDay' = feedDay + 1
  /\ net' \in IF net.peer = "none" THEN {net}
              ELSE Truncated([net EXCEPT !.peer = "closed"])
  /\ UNCHANGED <<setup, cl, batch, busy, feedFaults>>

-----------------------------------------------------------------------------
FeedDispatch ==
  \/ FeedOnLoginAccepted \/ FeedOnLoginRejected \/ FeedOnMessage \/ OnSnapshotMessage
  \/ OnEndOfSnapshot \/ FeedOnHeartbeat \/ FeedOnEndOfSession
FeedClientStep ==
  \/ Retry \/ OnConnected \/ StrayTick \/ Recv \/ FeedDispatch \/ RecvDone \/ Eof
  \/ FeedPeerSilent \/ Watchdog
FeedPeerStep == FeedPeerLogin \/ PeerReplay \/ PeerSnapshot

FeedNext ==
  \/ FeedClientStep \/ FeedPeerStep \/ FeedPeerHeartbeat \/ FeedPeerLingered
  \/ ConnectError \/ OnConnectedSendFails \/ SendFails \/ FeedStop
  \/ FeedPeerDrop \/ FeedGoDark \/ FeedRollover

FeedSpec == FeedInit /\ [][FeedNext]_handlerVars

(* The reactor keeps polling and firing timers, the exchange keeps sending. *)
FeedFairSpec == FeedSpec /\ WF_handlerVars(FeedClientStep) /\ WF_handlerVars(FeedPeerStep)

-----------------------------------------------------------------------------
(* Type invariant of the client and its connection. *)
FeedTypeOK ==
  /\ cl.state \in {"INIT", "SNAPSHOT", "LIVE"} \cup Terminal
  /\ cl.conn \in {"IDLE", "CONNECTING", "CONNECTED", "STOPPED"}
  /\ cl.sess \in {"CONNECTED", "LOGIN_SENT", "LIVE"} \cup Terminal
  /\ cl.role \in {"glimpse", "itch"} /\ cl.session \in Blank..MaxFeedDay
  /\ cl.seq \in 1..(FeedLast + SnapLen + 1) /\ cl.snap \in 0..SnapLen
  /\ cl.attempts \in 0..(MaxFeedFaults + 2)
  /\ net.peer \in {"none", "login", "replay", "snapshot", "linger", "closed"}
  /\ batch # <<>> => busy

(* The market gets a whole snapshot, then every live message from the       *)
(* number its G names, each once, in order and of one session, whatever     *)
(* became of the connections ("N-1 is never applied twice and N onward      *)
(* exactly once", handler.py).                                              *)
LiveExact ==
  /\ cl.role = "itch" => cl.seq = cl.base + Len(cl.live)
  /\ \A i \in DOMAIN cl.live :
       cl.live[i] = [day |-> cl.session, k |-> cl.base + i - 1]
  /\ setup.glimpse /\ cl.role = "itch" => cl.snap = SnapLen /\ cl.base = Cut + 1

(* The owner hears of the end exactly once, and the handler never leaves    *)
(* the state it reported: failures of the snapshot, of the connector and of *)
(* the session, both ends of session and stop() may come together in any    *)
(* order (_end, _fail, GlimpseClient._fail).                                *)
ToldOnce ==
  IF cl.state \in Terminal THEN cl.told = <<cl.state>> ELSE cl.told = <<>>

(* A handler that has not ended always has something that will wake it, and *)
(* one that has leaves no connection, retry or watchdog behind              *)
(* (TcpSoupConnector).                                                      *)
NoZombie ==
  IF cl.state \in Terminal
  THEN cl.conn = "STOPPED" /\ ~cl.retry /\ ~cl.watchdog
  ELSE /\ cl.conn # "STOPPED"
       /\ cl.retry <=> cl.conn = "IDLE"
       /\ cl.conn = "CONNECTED" => cl.tick
       /\ cl.watchdog <=> cl.role = "glimpse"

(* The handler ends once and completely: the owner is told of it once, and  *)
(* the connection, the retry and the watchdog end with it (_end, _fail).    *)
OneEnding == ToldOnce /\ NoZombie

(* tail --limit N prints N lines although the rest of a batch arrives after *)
(* it has asked to stop (views.py, main_tail).                              *)
TailExact ==
  cl.printed = IF setup.limit = 0 \/ Len(cl.live) < setup.limit
               THEN Len(cl.live) ELSE setup.limit

(* What the owner gets is what the exchange sent: the market every message  *)
(* from its snapshot on, and `tail --limit N` the first N of them           *)
(* (handler.py, views.py).                                                  *)
AppliedExactly == LiveExact /\ TailExact

(* Once outages end, the handler gets to an end of its own: the only thing  *)
(* it waits for without limit is a login answer on a path that went dark    *)
(* before its first byte (SoupSession.on_tick).                             *)
FeedFinishes ==
  <>[](\/ cl.state \in Terminal
       \/ cl.role = "itch" /\ net.dark /\ ~cl.heard)
=============================================================================
