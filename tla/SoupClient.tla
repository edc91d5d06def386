----------------------------- MODULE SoupClient -----------------------------
(***************************************************************************)
(* The exchange connection of jnxfh: the SoupBinTCP client session and its *)
(* reconnecting TCP transport (cpp/fh/soupclient.cpp) with the callbacks   *)
(* main() installs, against an exchange that behaves like the simulator    *)
(* (jnxfeed/sim/exchange.py).                                              *)
(*                                                                         *)
(* Soup packets carry no sequence number: the client counts.  Connections  *)
(* are refused, reset with data in flight or go dark, and the exchange may *)
(* roll over to a new session; the count has to survive all of it.         *)
(***************************************************************************)
EXTENDS Integers, Sequences

CONSTANTS
  SoupLast,      \* messages in a session
  MaxSoupDay,    \* sessions the exchange runs, one after the other
  StartSession,  \* requested session at startup; 0 is the blank one
  StartSeq,      \* requested sequence number at startup
  Authorized,    \* the exchange accepts our credentials
  MaxSoupFaults, \* bound on refused, reset, raced and dark connections
  DarkLogin,     \* the path may go dark before the first byte arrives
  MaxSoupWire    \* bound on packets in flight to the client

SoupAssumption ==
  /\ SoupLast \in Nat /\ MaxSoupDay \in Nat \ {0} /\ StartSession \in 0..1
  /\ StartSeq \in 1..(SoupLast + 1)
  /\ Authorized \in BOOLEAN /\ DarkLogin \in BOOLEAN
  /\ MaxSoupFaults \in Nat /\ MaxSoupWire \in Nat \ {0, 1}

VARIABLES
  state,       \* SoupClientSession::state_
  session,     \* session_id_, the requested session of the next login
  nextSeq,     \* next_seq_
  heard,       \* last_received_ns_ # 0
  fd,          \* TcpSoupConnector::fd_ and established_
  stopped,     \* stopped_
  backoff,     \* backoff_ns_, in seconds
  retry, tick, \* retry_timer_ # 0, tick_timer_ # 0
  delivered,   \* on_message calls: the count given to it and what it was
  peer,        \* the exchange's thread for this connection
  login,       \* the login request the thread is going to read
  pos,         \* next message the thread sends
  wire,        \* packets under way to the client
  dark,        \* the path is gone, and neither side has been told
  soupDay,     \* session the exchange is running
  soupFaults

sessionVars == <<state, session, nextSeq, heard, delivered>>
connVars == <<fd, stopped, backoff, retry, tick>>
peerVars == <<peer, login, pos, wire, dark>>
soupVars == <<sessionVars, connVars, peerVars, soupDay, soupFaults>>

NoLogin == [session |-> 0, seq |-> 0]

SoupInit ==
  /\ state = "CONNECTED" /\ session = StartSession /\ nextSeq = StartSeq
  /\ heard = FALSE /\ delivered = <<>>
  /\ fd = "connecting" /\ stopped = FALSE /\ backoff = 1
  /\ retry = FALSE /\ tick = FALSE
  /\ peer = "none" /\ login = NoLogin /\ pos = 1 /\ wire = <<>> /\ dark = FALSE
  /\ soupDay = 1 /\ soupFaults = 0

Fault == soupFaults < MaxSoupFaults /\ soupFaults' = soupFaults + 1

-----------------------------------------------------------------------------
(* TcpSoupConnector *)

(* close_fd: the exchange's thread is left to itself. *)
CloseFd ==
  /\ fd' = "none"
  /\ peer' = "none" /\ login' = NoLogin /\ pos' = 1 /\ wire' = <<>>
  /\ dark' = FALSE

(* Faulty variant: no cap. *)
Uncapped(n) == n

Min10(n) == IF n > 10 THEN 10 ELSE n

ScheduleRetry == retry' = TRUE /\ backoff' = Min10(2 * backoff)

(* Faulty variant: the retry is left to whoever noticed. *)
HandleDisconnectNoRetry ==
  /\ ~stopped
  /\ CloseFd /\ tick' = FALSE /\ UNCHANGED <<retry, backoff>>
  /\ UNCHANGED stopped

HandleDisconnect ==
  /\ ~stopped
  /\ CloseFd /\ tick' = FALSE /\ ScheduleRetry
  /\ UNCHANGED stopped

(* stop(): terminal. *)
Stop ==
  /\ stopped' = TRUE /\ retry' = FALSE /\ tick' = FALSE
  /\ CloseFd
  /\ UNCHANGED backoff

(* The retry timer: attempt_connect. *)
AttemptConnect ==
  /\ retry
  /\ retry' = FALSE /\ fd' = "connecting"
  /\ UNCHANGED <<sessionVars, stopped, backoff, tick, peerVars, soupDay, soupFaults>>

(* socket() or connect() fails at once, or SO_ERROR says so later. *)
ConnectFails ==
  /\ Fault
  /\ \/ retry
     \/ fd = "connecting"
  /\ CloseFd /\ ScheduleRetry
  /\ UNCHANGED <<sessionVars, stopped, tick, soupDay>>

(* Faulty variant: reset() forgets the resume point. *)
ResetForgetsSeq ==
  /\ state' = "LOGIN_SENT" /\ heard' = FALSE
  /\ nextSeq' = StartSeq
  /\ UNCHANGED <<session, delivered>>

(* SoupClientSession::reset and start; session_id_ and next_seq_ survive. *)
ResetAndStart ==
  /\ state' = "LOGIN_SENT" /\ heard' = FALSE
  /\ UNCHANGED <<session, nextSeq, delivered>>

OnConnectWritable ==
  /\ fd = "connecting"
  /\ fd' = "up" /\ backoff' = 1 /\ tick' = TRUE
  /\ ResetAndStart
  /\ peer' = "login" /\ login' = [session |-> session, seq |-> nextSeq']
  /\ UNCHANGED <<stopped, retry, pos, wire, dark, soupDay, soupFaults>>

(* recv returned 0, after everything the exchange sent. *)
OnEof ==
  /\ fd = "up" /\ peer = "closed" /\ wire = <<>> /\ ~dark
  /\ HandleDisconnect
  /\ UNCHANGED <<sessionVars, soupDay, soupFaults>>

(* A heartbeat (on_tick, flush) meets the closed socket before the data     *)
(* still in it has been read.                                               *)
FlushFails ==
  /\ fd = "up" /\ peer = "closed" /\ ~dark /\ Fault
  /\ HandleDisconnect
  /\ UNCHANGED <<sessionVars, soupDay>>

(* on_tick after 15 s of silence, on_peer_silent, reconnect(): only once    *)
(* something has been received on this connection.                          *)
PeerSilent ==
  /\ tick /\ state \in {"LOGIN_SENT", "LIVE"}
  /\ heard /\ dark /\ wire = <<>>
  /\ HandleDisconnect
  /\ UNCHANGED <<sessionVars, soupDay, soupFaults>>

(* SIGINT or SIGTERM: logout, flush, stop. *)
Signal ==
  /\ ~stopped
  /\ Stop
  /\ UNCHANGED <<sessionVars, soupDay, soupFaults>>

-----------------------------------------------------------------------------
(* handle_packet, one packet per step: nothing else runs between the        *)
(* packets of one recv.                                                     *)
Receive(t) ==
  /\ fd = "up" /\ wire # <<>> /\ Head(wire).type = t
  /\ heard' = TRUE
  /\ UNCHANGED <<soupDay, soupFaults>>

Consume ==
  /\ wire' = Tail(wire)
  /\ UNCHANGED <<connVars, peer, login, pos, dark>>

OnLoginAccepted ==
  /\ Receive("A") /\ Consume
  /\ session' = Head(wire).day /\ nextSeq' = Head(wire).k /\ state' = "LIVE"
  /\ UNCHANGED delivered

(* on_login_rejected: exit code 5, no retry. *)
OnLoginRejected ==
  /\ Receive("J")
  /\ state' = "FAILED"
  /\ Stop
  /\ UNCHANGED <<session, nextSeq, delivered>>

OnMessage ==
  /\ Receive("S") /\ Consume
  /\ nextSeq' = nextSeq + 1
  /\ delivered' = Append(delivered, [seq |-> nextSeq, day |-> Head(wire).day,
                                     k |-> Head(wire).k])
  /\ UNCHANGED <<state, session>>

OnHeartbeat ==
  /\ Receive("H") /\ Consume
  /\ UNCHANGED <<state, session, nextSeq, delivered>>

(* on_end_of_session: logout, flush, stop. *)
OnEndOfSession ==
  /\ Receive("Z")
  /\ state' = "ENDED"
  /\ Stop
  /\ UNCHANGED <<session, nextSeq, delivered>>

-----------------------------------------------------------------------------
(* The exchange: one thread per connection *)

Put(type, k) == wire' = Append(wire, [type |-> type, day |-> soupDay, k |-> k])
Room == fd = "up" /\ ~dark /\ Len(wire) < MaxSoupWire
peerFrame == <<sessionVars, connVars, dark, soupDay, soupFaults>>

Refused == ~Authorized \/ login.session \notin {0, soupDay}

FirstSent == IF login.seq = 0 THEN SoupLast + 1 ELSE login.seq

(* _read_login and the checks of _handle_itch *)
PeerLogin ==
  /\ peer = "login" /\ Room
  /\ IF Refused
     THEN Put("J", 0) /\ peer' = "closed" /\ UNCHANGED pos
     ELSE Put("A", FirstSent) /\ peer' = "sending" /\ pos' = FirstSent
  /\ login' = NoLogin
  /\ UNCHANGED peerFrame

PeerSend ==
  /\ peer = "sending" /\ pos <= SoupLast /\ Room
  /\ Put("S", pos) /\ pos' = pos + 1
  /\ UNCHANGED <<peer, login, peerFrame>>

(* _pace: heartbeats while there is nothing to send yet. *)
PeerHeartbeat ==
  /\ peer = "sending" /\ pos <= SoupLast /\ Room /\ wire = <<>>
  /\ Put("H", 0)
  /\ UNCHANGED <<peer, pos, login, peerFrame>>

PeerEnd ==
  /\ peer = "sending" /\ pos > SoupLast /\ Room
  /\ Put("Z", 0) /\ peer' = "linger"
  /\ UNCHANGED <<pos, login, peerFrame>>

(* _linger gives up on a client that does not close. *)
PeerLingered ==
  /\ peer = "linger"
  /\ peer' = "closed"
  /\ UNCHANGED <<login, pos, wire, peerFrame>>

(* What has not been read when a connection breaks may be lost. *)
LosePackets == \E n \in 0..Len(wire) : wire' = SubSeq(wire, 1, n)

(* An abrupt close: the scripted disconnect, a login timeout, an outage. *)
PeerDrop ==
  /\ fd = "up" /\ peer \notin {"none", "closed"} /\ Fault
  /\ peer' = "closed" /\ LosePackets
  /\ UNCHANGED <<sessionVars, connVars, login, pos, dark, soupDay>>

(* No FIN, no RST: packets just stop coming. *)
GoDark ==
  /\ fd = "up" /\ ~dark /\ Fault
  /\ heard \/ DarkLogin
  /\ dark' = TRUE /\ LosePackets
  /\ UNCHANGED <<sessionVars, connVars, peer, login, pos, soupDay>>

(* A new trading day: the exchange restarts with a new session. *)
Rollover ==
  /\ soupDay < MaxSoupDay
  /\ soupDay' = soupDay + 1
  /\ peer' = IF peer = "none" THEN "none" ELSE "closed"
  /\ LosePackets
  /\ UNCHANGED <<sessionVars, connVars, login, pos, dark, soupFaults>>

-----------------------------------------------------------------------------
ClientStep ==
  \/ AttemptConnect \/ OnConnectWritable \/ OnEof \/ PeerSilent
  \/ OnLoginAccepted \/ OnLoginRejected \/ OnMessage \/ OnHeartbeat
  \/ OnEndOfSession
PeerStep == PeerLogin \/ PeerSend \/ PeerEnd

SoupNext ==
  \/ ClientStep \/ PeerStep \/ PeerHeartbeat \/ PeerLingered
  \/ ConnectFails \/ FlushFails \/ Signal \/ PeerDrop \/ GoDark \/ Rollover

SoupSpec == SoupInit /\ [][SoupNext]_soupVars

(* The reactor keeps polling and firing timers, the exchange keeps sending. *)
SoupFairSpec == SoupSpec /\ WF_soupVars(ClientStep) /\ WF_soupVars(PeerStep)

-----------------------------------------------------------------------------
(* Type invariant of session, connector and exchange thread. *)
SoupTypeOK ==
  /\ state \in {"CONNECTED", "LOGIN_SENT", "LIVE", "ENDED", "FAILED"}
  /\ session \in 0..MaxSoupDay /\ nextSeq \in 1..(SoupLast + 1) /\ heard \in BOOLEAN
  /\ delivered \in Seq([seq : 1..SoupLast, day : 1..MaxSoupDay, k : 1..SoupLast])
  /\ fd \in {"none", "connecting", "up"} /\ stopped \in BOOLEAN
  /\ backoff \in {1, 2, 4, 8, 10} /\ retry \in BOOLEAN /\ tick \in BOOLEAN
  /\ peer \in {"none", "login", "sending", "linger", "closed"}
  /\ login \in [session : 0..MaxSoupDay, seq : 0..(SoupLast + 1)]
  /\ pos \in 1..(SoupLast + 1) /\ dark \in BOOLEAN
  /\ wire \in Seq([type : {"A", "J", "S", "H", "Z"}, day : 1..MaxSoupDay,
                   k : 0..(SoupLast + 1)])
  /\ soupDay \in 1..MaxSoupDay /\ soupFaults \in 0..MaxSoupFaults

(* on_message sees the messages of one session in order, each once, each    *)
(* with its own sequence number, whatever became of the connections they    *)
(* came over: the resume point is the number of the first message not yet   *)
(* delivered, and a client is never moved to another session.               *)
MessagesExact ==
  /\ nextSeq = StartSeq + Len(delivered)
  /\ \A i \in DOMAIN delivered :
       delivered[i] = [seq |-> StartSeq + i - 1, day |-> session,
                       k |-> StartSeq + i - 1]

(* A clean end of session is reported only after its last message.          *)
EndIsComplete == state = "ENDED" => nextSeq = SoupLast + 1

(* What the owner of the client sees of a session (soupclient.cpp           *)
(* handle_packet): its messages exactly, and its end only after them.       *)
DeliveredExactly == MessagesExact /\ EndIsComplete

(* Until stop(), the connector always has exactly one thing that will wake  *)
(* it: a socket or a retry timer, never neither (it would sleep for ever)   *)
(* and never both (two connections); the tick runs exactly while connected. *)
Lifeline ==
  /\ IF stopped THEN fd = "none" /\ ~retry
                ELSE retry <=> fd = "none"
  /\ tick <=> fd = "up"

(* The path went dark before anything was heard on it. *)
Deaf == dark /\ ~heard

(* Outages that end do not prevent the client from reaching the end of the  *)
(* session, a rejection or its shutdown signal for good; only a path that   *)
(* went dark before the first byte keeps it waiting (on_tick).              *)
SoupFinishes == <>[](stopped \/ Deaf)

(* A path that went dark is given up after 15 s of silence.                 *)
SilenceNoticed == dark ~> ~dark
=============================================================================
