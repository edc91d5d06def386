----------------------------- MODULE NetProofs ------------------------------
(***************************************************************************)
(* Proofs about the networking layer: the event loop (Reactor) and the     *)
(* connection of jnxfh to the exchange (SoupClient).                       *)
(***************************************************************************)
EXTENDS Reactor, SoupClient, SequenceTheorems, TLAPS

-----------------------------------------------------------------------------
(* Reactor: timers are called in the order of the heap, and nothing after   *)
(* stop(), for any number of sockets and timers.                            *)

Handles == [deadline : Nat, seq : Nat, cancelled : BOOLEAN]

(* What the heap holds is still to come: each handle was made after the one *)
(* called last, or is due later.                                            *)
HeapInv ==
  /\ seq \in Nat /\ reactorClock \in Nat /\ now \in Nat /\ now <= reactorClock
  /\ running \in BOOLEAN /\ (~running => loopAt = "stopped")
  /\ timers \subseteq Handles
  /\ \A t \in timers : t.seq < seq /\ Before(fired, t)
  /\ fired.deadline \in Nat /\ fired.seq \in Int
  /\ fired.deadline <= now /\ fired.seq < seq

LEMMA HeapStarts ==
  ASSUME ReactorInit
  PROVE  HeapInv
BY DEF ReactorInit, HeapInv, Handles, Before

(* Handles that leave the heap, and time that passes. *)
LEMMA HeapShrinks ==
  ASSUME HeapInv, timers' \subseteq timers, UNCHANGED <<seq, running, fired>>,
         reactorClock' \in Nat, now' \in Nat, now <= now', now' <= reactorClock',
         ~running => loopAt' = "stopped"
  PROVE  HeapInv'
<1>1. fired.deadline <= now'
  BY DEF HeapInv
<1> QED BY <1>1, Zenon DEF HeapInv, Before

LEMMA PopTimerStep ==
  ASSUME HeapInv, PopTimer
  PROVE  HeapInv' /\ (fired' # fired => Before(fired, fired'))
<1>1. PICK t \in Heads :
        /\ Due(t)
        /\ timers' = timers \ {t}
        /\ fired' = IF t.cancelled THEN fired ELSE t
        /\ loopAt' = IF t.cancelled THEN "timers" ELSE "timer callback"
  BY Zenon DEF PopTimer
<1>2. /\ loopAt = "timers" /\ UNCHANGED <<seq, running, reactorClock, now>>
  BY Zenon DEF PopTimer
<1>3. t \in timers /\ \A u \in timers \ {t} : Before(t, u)
  BY Zenon DEF Heads
<1>4. t \in Handles /\ t.seq < seq /\ Before(fired, t) /\ t.deadline <= now
  BY <1>1, <1>3, Zenon DEF HeapInv, Due
<1>5. running
  BY <1>2, Zenon DEF HeapInv
<1>6. CASE fired' = fired
  <2>1. now \in Nat /\ reactorClock \in Nat /\ now <= reactorClock
    BY Zenon DEF HeapInv
  <2>2. timers' \subseteq timers /\ UNCHANGED <<seq, running, fired>>
    BY <1>1, <1>2, <1>6, Zenon
  <2>3. reactorClock' \in Nat /\ now' \in Nat /\ now <= now' /\ now' <= reactorClock'
    BY <1>2, <2>1
  <2> QED BY <1>5, <1>6, <2>2, <2>3, HeapShrinks, Zenon
<1>7. CASE fired' = t
  <2>1. t.deadline \in Nat /\ t.seq \in Nat
    BY <1>4, Zenon DEF Handles
  <2>2. \A u \in timers' : u.seq < seq /\ Before(t, u)
    BY <1>1, <1>3, Zenon DEF HeapInv
  <2>3. /\ timers' \subseteq Handles
        /\ \A u \in timers' : u.seq < seq' /\ Before(fired', u)
    BY <1>1, <1>2, <1>7, <2>2, Zenon DEF HeapInv, Before
  <2>4. fired'.deadline <= now' /\ fired'.seq < seq' /\ fired'.seq \in Int
    BY <1>2, <1>4, <1>7, <2>1
  <2>5. HeapInv'
    BY <1>2, <1>5, <1>7, <2>1, <2>3, <2>4, Zenon DEF HeapInv, Before
  <2> QED BY <1>4, <1>7, <2>5, Zenon
<1> QED BY <1>1, <1>6, <1>7, Zenon

LEMMA CallbackStep ==
  ASSUME ReactorAssumption, HeapInv, Callback
  PROVE  HeapInv'
<1>1. /\ loopAt # "stopped" /\ reactorClock' \in {reactorClock, reactorClock + 1}
      /\ UNCHANGED <<now, fired>> /\ loopAt' = Returned
  BY Zenon DEF Callback
<1>2. running
  BY <1>1, Zenon DEF HeapInv
<1>3. /\ reactorClock' \in Nat /\ now <= reactorClock' /\ reactorClock <= reactorClock'
      /\ fired.deadline <= reactorClock
  BY <1>1 DEF HeapInv
<1>4. running' \in BOOLEAN => (~running' => loopAt' = "stopped")
  BY <1>1, Zenon DEF Returned
<1>5. CASE UNCHANGED <<timers, seq>> /\ running' \in BOOLEAN
  BY <1>1, <1>3, <1>4, <1>5, Zenon DEF HeapInv, Before
<1>6. ASSUME NEW d \in Delays, CallLater(d)
      PROVE  HeapInv'
  <2> DEFINE t == [deadline |-> reactorClock + d, seq |-> seq, cancelled |-> FALSE]
  <2>1. timers' = timers \cup {t} /\ seq' = seq + 1 /\ UNCHANGED running
    BY <1>6, Zenon DEF CallLater
  <2>2. d \in Nat /\ reactorClock \in Nat /\ seq \in Nat
    BY Zenon DEF ReactorAssumption, HeapInv
  <2>3. t \in Handles /\ t.deadline = reactorClock + d /\ t.seq = seq
    BY <2>2 DEF Handles
  <2> HIDE DEF t
  <2>4. Before(fired, t)
    BY <1>3, <2>2, <2>3 DEF HeapInv, Before
  <2>5. \A u \in timers : u.seq < seq' /\ Before(fired, u) /\ u \in Handles
    BY <2>1, <2>2 DEF HeapInv, Handles
  <2>6. t.seq < seq'
    BY <2>1, <2>2, <2>3
  <2>7. timers' \subseteq Handles /\ \A u \in timers' : u.seq < seq' /\ Before(fired, u)
    BY <2>1, <2>3, <2>4, <2>5, <2>6, Zenon
  <2>8. fired.seq < seq' /\ seq' \in Nat
    BY <2>1, <2>2 DEF HeapInv
  <2> QED BY <1>1, <1>2, <1>3, <2>1, <2>7, <2>8, Zenon DEF HeapInv, Before
<1>7. ASSUME NEW t \in timers, Cancel(t)
      PROVE  HeapInv'
  <2> DEFINE v == [t EXCEPT !.cancelled = TRUE]
  <2>1. timers' = (timers \ {t}) \cup {v} /\ UNCHANGED <<seq, running>>
    BY <1>7, Zenon DEF Cancel
  <2>2. t \in Handles /\ t.seq < seq /\ Before(fired, t)
    BY Zenon DEF HeapInv
  <2>3. v \in Handles /\ v.deadline = t.deadline /\ v.seq = t.seq
    BY <2>2, Zenon DEF Handles
  <2> HIDE DEF v
  <2>4. v.seq < seq /\ Before(fired, v)
    BY <2>2, <2>3, Zenon DEF Before
  <2>5. timers' \subseteq Handles /\ \A u \in timers' : u.seq < seq /\ Before(fired, u)
    BY <2>1, <2>3, <2>4, Zenon DEF HeapInv
  <2> QED BY <1>1, <1>2, <1>3, <2>1, <2>5, Zenon DEF HeapInv, Before
<1>8. CASE StopLoop \/ Quiet
  BY <1>2, <1>5, <1>8, Zenon DEF StopLoop, Quiet
<1>9. CASE \E s \in Socks : Unregister(s)
  BY <1>2, <1>5, <1>9, Zenon DEF Unregister
<1>10. CASE \E s \in Socks, side \in {"read", "write"}, on \in BOOLEAN :
              SetInterest(s, side, on)
  BY <1>2, <1>5, <1>10, Zenon DEF SetInterest
<1>11. Operation
  BY Zenon DEF Callback
<1> QED BY <1>6, <1>7, <1>8, <1>9, <1>10, <1>11, Zenon DEF Operation

LEMMA HeapSteps ==
  ASSUME ReactorAssumption, HeapInv, [ReactorNext]_reactorVars
  PROVE  HeapInv'
<1>1. now \in Nat /\ reactorClock \in Nat /\ now <= reactorClock
  BY Zenon DEF HeapInv
<1>2. CASE PopTimer
  BY <1>2, PopTimerStep, Zenon
<1>3. CASE TimersDone
  BY <1>1, <1>3, HeapShrinks, Zenon DEF TimersDone, HeapInv
<1>4. CASE SelectReady
  BY <1>1, <1>4, HeapShrinks, Zenon DEF SelectReady, HeapInv
<1>5. CASE SelectTimeout
  <2>1. PICK t \in Heads :
          /\ reactorClock' = IF t.deadline > reactorClock THEN t.deadline
                             ELSE reactorClock
          /\ now' = reactorClock'
    BY <1>5, Zenon DEF SelectTimeout
  <2>2. t.deadline \in Nat
    BY Zenon DEF Heads, HeapInv, Handles
  <2>3. reactorClock' \in Nat /\ now' \in Nat /\ now <= now' /\ now' <= reactorClock'
    BY <1>1, <2>1, <2>2
  <2>4. running /\ UNCHANGED <<timers, seq, running, fired>>
    BY <1>5, Zenon DEF SelectTimeout, HeapInv
  <2> QED BY <2>3, <2>4, HeapShrinks, Zenon
<1>6. CASE \E side \in {"read", "write"} : Dispatch(side)
  <2>1. running /\ UNCHANGED <<timers, seq, running, reactorClock, now, fired>>
    BY <1>6, Zenon DEF Dispatch, HeapInv
  <2> QED BY <1>1, <2>1, HeapShrinks
<1>7. CASE NextEvent
  BY <1>1, <1>7, HeapShrinks, Zenon DEF NextEvent, HeapInv
<1>8. CASE NextRound
  BY <1>1, <1>8, HeapShrinks DEF NextRound, HeapInv
<1>9. CASE Callback
  BY <1>9, CallbackStep, Zenon
<1>10. CASE UNCHANGED reactorVars
  BY <1>1, <1>10, HeapShrinks, Zenon DEF reactorVars, HeapInv
<1> QED BY <1>2, <1>3, <1>4, <1>5, <1>6, <1>7, <1>8, <1>9, <1>10, Zenon DEF ReactorNext

(* Callbacks run in the order of their deadlines and, for equal ones, of    *)
(* the calls of call_later, and none runs after stop(), whatever the        *)
(* callbacks schedule, cancel, register and unregister (reactor.py run,     *)
(* _run_due_timers, TimerHandle.__lt__).                                    *)
THEOREM ReactorRunsAsScheduled ==
  ASSUME ReactorAssumption
  PROVE  ReactorSpec => RunsAsScheduled
<1> DEFINE Ordered == fired' # fired =>
             \/ fired.deadline < fired'.deadline
             \/ fired.deadline = fired'.deadline /\ fired.seq < fired'.seq
           Silence == ~running => UNCHANGED <<states, timers, fired>>
<1>1. ReactorInit => HeapInv
  BY HeapStarts, Zenon
<1>2. HeapInv /\ [ReactorNext]_reactorVars => HeapInv'
  BY HeapSteps, Zenon
<1>3. HeapInv /\ [ReactorNext]_reactorVars => [Ordered]_reactorVars
  <2> SUFFICES ASSUME HeapInv, ReactorNext PROVE Ordered
    BY Zenon
  <2>1. CASE PopTimer
    BY <2>1, PopTimerStep, Zenon DEF Before
  <2>2. CASE ~PopTimer
    <3>1. UNCHANGED fired
      BY <2>2, Zenon DEF ReactorNext, TimersDone, SelectReady, SelectTimeout, Dispatch,
                  NextEvent, NextRound, Callback
    <3> QED BY <3>1, Zenon
  <2> QED BY <2>1, <2>2, Zenon
<1>4. HeapInv /\ [ReactorNext]_reactorVars => [Silence]_reactorVars
  <2> SUFFICES ASSUME HeapInv, ReactorNext, ~running PROVE FALSE
    BY Zenon
  <2>1. loopAt = "stopped"
    BY Zenon DEF HeapInv
  <2> QED BY <2>1, Zenon DEF ReactorNext, PopTimer, TimersDone, SelectReady, SelectTimeout,
                      Dispatch, NextEvent, NextRound, Callback
<1> QED BY <1>1, <1>2, <1>3, <1>4, PTL
        DEF ReactorSpec, RunsAsScheduled, FiredInOrder, QuietAfterStop

-----------------------------------------------------------------------------
(* SoupClient: for sessions of any length and any number of refused, reset  *)
(* and dark connections the messages delivered are exact and the connector  *)
(* never sleeps for ever.                                                   *)

Packets == [type : {"A", "J", "S", "H", "Z"}, day : 1..MaxSoupDay,
            k : 0..(SoupLast + 1)]

(* 1 when the first packet under way is not one of the counted ones. *)
Lead == IF wire # <<>> /\ wire[1].type \in {"A", "H"} THEN 1 ELSE 0

(* The number that packet i, or the next one sent, takes in the client's    *)
(* count once those before it have been consumed.                           *)
CountAt(i) == nextSeq + i - 1 - Lead

(* The session the client will be in when it reads the messages of day d. *)
Joins(d) == IF wire # <<>> /\ wire[1].type = "A" THEN session \in {0, d}
                                                 ELSE session = d

(* What is under way: an answer to the login or a heartbeat can only come   *)
(* first, messages carry the numbers the client will count, and the end of  *)
(* the session comes after the last of them.                                *)
WireInv ==
  \A i \in 1..Len(wire) :
    /\ wire[i].day = wire[1].day
    /\ wire[i].type \in {"A", "J", "H"} => i = 1
    /\ wire[i].type = "A" => wire[i].k = nextSeq /\ Joins(wire[i].day)
    /\ wire[i].type = "S" => /\ wire[i].k = CountAt(i) /\ wire[i].k \in 1..SoupLast
                             /\ Joins(wire[i].day)
    /\ wire[i].type = "Z" => CountAt(i) = SoupLast + 1

(* The exchange's thread: it will read the resume point of the client, and  *)
(* what it sends next continues what is under way.                          *)
PeerInv ==
  /\ peer = "login" => /\ wire = <<>>
                       /\ login = [session |-> session, seq |-> nextSeq]
  /\ peer = "sending" /\ ~dark =>
       /\ pos = CountAt(Len(wire) + 1) /\ Joins(soupDay)
       /\ wire # <<>> => wire[1].day = soupDay

ClosedInv ==
  /\ fd # "up" => peer = "none" /\ wire = <<>> /\ ~dark
  /\ state = "ENDED" => stopped
  /\ session = 0 => delivered = <<>>

SoupInv ==
  /\ SoupTypeOK /\ Lifeline /\ ClosedInv
  /\ MessagesExact /\ EndIsComplete
  /\ WireInv /\ PeerInv

LEMMA InitSoupInv == SoupAssumption /\ SoupInit => SoupInv
<1> SUFFICES ASSUME SoupAssumption, SoupInit PROVE SoupInv
  BY Zenon
<1> USE DEF SoupInit
<1>1. SoupTypeOK
  <2>1. delivered \in Seq([seq : 1..SoupLast, day : 1..MaxSoupDay, k : 1..SoupLast])
    OBVIOUS
  <2>2. wire \in Seq([type : {"A", "J", "S", "H", "Z"}, day : 1..MaxSoupDay,
                      k : 0..(SoupLast + 1)])
    OBVIOUS
  <2>3. login \in [session : 0..MaxSoupDay, seq : 0..(SoupLast + 1)]
    BY DEF NoLogin, SoupAssumption
  <2>4. /\ session \in 0..MaxSoupDay /\ nextSeq \in 1..(SoupLast + 1)
        /\ pos \in 1..(SoupLast + 1)
        /\ soupDay \in 1..MaxSoupDay /\ soupFaults \in 0..MaxSoupFaults
        /\ backoff \in {1, 2, 4, 8, 10}
    BY DEF SoupAssumption
  <2>5. /\ heard \in BOOLEAN /\ stopped \in BOOLEAN /\ retry \in BOOLEAN
        /\ tick \in BOOLEAN /\ dark \in BOOLEAN
        /\ state = "CONNECTED" /\ fd = "connecting" /\ peer = "none"
    BY Zenon
  <2> QED BY <2>1, <2>2, <2>3, <2>4, <2>5, Zenon DEF SoupTypeOK
<1>2. Lifeline /\ ClosedInv /\ EndIsComplete /\ PeerInv /\ WireInv
  BY DEF Lifeline, ClosedInv, EndIsComplete, PeerInv, WireInv
<1>3. MessagesExact
  BY DEF MessagesExact, SoupAssumption
<1> QED BY <1>1, <1>2, <1>3, Zenon DEF SoupInv

-----------------------------------------------------------------------------
(* Sequences of packets *)

(* A prefix has the same packets, in the same places. *)
LEMMA PrefixFacts ==
  ASSUME NEW S, NEW s \in Seq(S), NEW n \in 0..Len(s)
  PROVE  /\ SubSeq(s, 1, n) \in Seq(S) /\ Len(SubSeq(s, 1, n)) = n
         /\ \A i \in 1..n : SubSeq(s, 1, n)[i] = s[i]
  OBVIOUS

LEMMA AppendFacts ==
  ASSUME NEW S, NEW s \in Seq(S), NEW e \in S
  PROVE  /\ Append(s, e) \in Seq(S) /\ Len(Append(s, e)) = Len(s) + 1
         /\ \A i \in 1..Len(s) : Append(s, e)[i] = s[i]
         /\ Append(s, e)[Len(s) + 1] = e
  OBVIOUS

LEMMA TailFacts ==
  ASSUME NEW S, NEW s \in Seq(S), s # <<>>
  PROVE  /\ Tail(s) \in Seq(S) /\ Len(Tail(s)) = Len(s) - 1 /\ Len(s) >= 1
         /\ \A i \in 1..(Len(s) - 1) : Tail(s)[i] = s[i + 1]
         /\ Head(s) = s[1]
  OBVIOUS

(* What an empty sequence is. *)
LEMMA EmptyFacts ==
  ASSUME NEW S, NEW s \in Seq(S)
  PROVE  /\ Len(s) \in Nat /\ DOMAIN s = 1..Len(s)
         /\ s = <<>> <=> Len(s) = 0
         /\ \A i \in 1..Len(s) : s[i] \in S
  OBVIOUS

-----------------------------------------------------------------------------
(* The parts of the type invariant *)

SessionTyped ==
  /\ state \in {"CONNECTED", "LOGIN_SENT", "LIVE", "ENDED", "FAILED"}
  /\ session \in 0..MaxSoupDay /\ nextSeq \in 1..(SoupLast + 1) /\ heard \in BOOLEAN
  /\ delivered \in Seq([seq : 1..SoupLast, day : 1..MaxSoupDay, k : 1..SoupLast])

ConnTyped ==
  /\ fd \in {"none", "connecting", "up"} /\ stopped \in BOOLEAN
  /\ backoff \in {1, 2, 4, 8, 10} /\ retry \in BOOLEAN /\ tick \in BOOLEAN

PeerTyped ==
  /\ peer \in {"none", "login", "sending", "linger", "closed"}
  /\ login \in [session : 0..MaxSoupDay, seq : 0..(SoupLast + 1)]
  /\ pos \in 1..(SoupLast + 1) /\ dark \in BOOLEAN
  /\ wire \in Seq(Packets)

EnvTyped == soupDay \in 1..MaxSoupDay /\ soupFaults \in 0..MaxSoupFaults

LEMMA TypeParts ==
  SoupTypeOK <=> SessionTyped /\ ConnTyped /\ PeerTyped /\ EnvTyped
  BY Zenon DEF SoupTypeOK, SessionTyped, ConnTyped, PeerTyped, EnvTyped, Packets

LEMMA TypePartsPrimed ==
  SoupTypeOK' <=> SessionTyped' /\ ConnTyped' /\ PeerTyped' /\ EnvTyped'
  BY TypeParts, PTL

-----------------------------------------------------------------------------
(* Packets enter, leave and get lost *)

LEMMA LoseWire ==
  ASSUME SoupInv, LosePackets, UNCHANGED <<session, nextSeq>>
  PROVE  wire' \in Seq(Packets) /\ WireInv'
<1> PICK n \in 0..Len(wire) : wire' = SubSeq(wire, 1, n)
  BY Zenon DEF LosePackets
<1>1. wire \in Seq(Packets)
  BY TypeParts, Zenon DEF SoupInv, PeerTyped
<1>2. /\ wire' \in Seq(Packets) /\ Len(wire') = n
      /\ \A i \in 1..n : wire'[i] = wire[i]
  BY <1>1, PrefixFacts, Zenon
<1>3. CASE n = 0
  BY <1>2, <1>3 DEF WireInv
<1>4. CASE n # 0
  <2>1. wire'[1] = wire[1] /\ wire # <<>> /\ wire' # <<>>
    BY <1>1, <1>2, <1>4, EmptyFacts
  <2>2. \A i : CountAt(i)' = CountAt(i)
    BY <2>1, Zenon DEF CountAt, Lead
  <2>3. \A d : Joins(d)' <=> Joins(d)
    BY <2>1, Zenon DEF Joins
  <2>4. \A i \in 1..n : i \in 1..Len(wire)
    BY <1>1, EmptyFacts
  <2> QED BY <1>2, <2>1, <2>2, <2>3, <2>4, Zenon DEF SoupInv, WireInv
<1> QED BY <1>2, <1>3, <1>4, Zenon

(* A packet joins the ones under way, in a place that befits it. *)
LEMMA PutWire ==
  ASSUME SoupInv, NEW e \in Packets, wire' = Append(wire, e),
         UNCHANGED <<session, nextSeq>>,
         wire # <<>> => e.day = wire[1].day,
         e.type \in {"A", "J", "H"} => wire = <<>>,
         e.type = "A" => e.k = nextSeq /\ session \in {0, e.day},
         e.type = "S" => /\ e.k = CountAt(Len(wire) + 1) /\ e.k \in 1..SoupLast
                         /\ Joins(e.day),
         e.type = "Z" => CountAt(Len(wire) + 1) = SoupLast + 1
  PROVE  wire' \in Seq(Packets) /\ WireInv'
<1>1. wire \in Seq(Packets) /\ Len(wire) \in Nat
  BY TypeParts, EmptyFacts, Zenon DEF SoupInv, PeerTyped
<1>2. /\ wire' \in Seq(Packets) /\ Len(wire') = Len(wire) + 1
      /\ \A i \in 1..Len(wire) : wire'[i] = wire[i]
      /\ wire'[Len(wire) + 1] = e
  BY <1>1, AppendFacts
<1>3. wire' # <<>>
  BY <1>1, <1>2, EmptyFacts
<1>4. CASE wire = <<>>
  <2>1. Len(wire) = 0 /\ Len(wire') = 1 /\ wire'[1] = e /\ Lead = 0
    BY <1>1, <1>2, <1>4, EmptyFacts DEF Lead
  <2>2. Lead' = IF e.type \in {"A", "H"} THEN 1 ELSE 0
    BY <1>3, <2>1 DEF Lead
  <2>3. e.type = "S" => session = e.day
    BY <1>4, Zenon DEF Joins
  <2>4. e.type \in {"A", "S"} => Joins(e.day)'
    BY <1>3, <2>1, <2>3, Zenon DEF Joins
  <2>5. nextSeq \in Nat
    BY TypeParts DEF SoupInv, SessionTyped
  <2>6. CountAt(1)' = nextSeq - Lead' /\ CountAt(Len(wire) + 1) = nextSeq
    BY <2>1, <2>2, <2>5 DEF CountAt
  <2> QED BY <1>2, <2>1, <2>2, <2>4, <2>5, <2>6 DEF WireInv
<1>5. CASE wire # <<>>
  <2>1. Len(wire) >= 1 /\ wire'[1] = wire[1] /\ Lead' = Lead
    BY <1>1, <1>2, <1>3, <1>5, EmptyFacts DEF Lead
  <2>2. \A i : CountAt(i)' = CountAt(i)
    BY <2>1, Zenon DEF CountAt
  <2>3. \A d : Joins(d)' <=> Joins(d)
    BY <1>3, <1>5, <2>1, Zenon DEF Joins
  <2>4. \A i \in 1..Len(wire') : i \in 1..Len(wire) \/ i = Len(wire) + 1
    BY <1>1, <1>2
  <2> QED BY <1>2, <1>5, <2>1, <2>2, <2>3, <2>4 DEF SoupInv, WireInv
<1> QED BY <1>4, <1>5, Zenon

(* The client reads a packet: those behind it move up in its count. *)
LEMMA ConsumeWire ==
  ASSUME SoupInv, wire # <<>>, wire' = Tail(wire),
         wire[1].type \in {"A", "H", "S"}, nextSeq' = nextSeq + 1 - Lead,
         session' = IF wire[1].type = "A" THEN wire[1].day ELSE session,
         UNCHANGED <<peer, login, pos, dark, soupDay>>
  PROVE  wire' \in Seq(Packets) /\ WireInv' /\ PeerInv'
<1>1. wire \in Seq(Packets) /\ nextSeq \in Nat
  BY TypeParts DEF SoupInv, PeerTyped, SessionTyped
<1>2. /\ wire' \in Seq(Packets) /\ Len(wire') = Len(wire) - 1 /\ Len(wire) >= 1
      /\ \A i \in 1..Len(wire') : wire'[i] = wire[i + 1]
      /\ Len(wire) \in Nat
  BY <1>1, TailFacts, EmptyFacts, Zenon
<1>3. \A i \in 1..Len(wire') : i + 1 \in 1..Len(wire) /\ i + 1 # 1
  BY <1>2
<1>4. wire' # <<>> => wire'[1].type \notin {"A", "J", "H"}
  BY <1>2, <1>3, EmptyFacts DEF SoupInv, WireInv
<1>5. Lead' = 0 /\ Lead \in {0, 1}
  BY <1>4, Zenon DEF Lead
<1>6. \A i \in Nat : CountAt(i)' = CountAt(i + 1)
  BY <1>1, <1>5 DEF CountAt
<1>7. \A d : Joins(d)' <=> session' = d
  BY <1>4, Zenon DEF Joins
<1>8. Joins(wire[1].day) => session' = wire[1].day
  BY Zenon DEF Joins
<1>9. \A i \in 1..Len(wire) : wire[i].day = wire[1].day
  BY Zenon DEF SoupInv, WireInv
<1>10. WireInv'
  <2>1. \A i \in 1..Len(wire') :
          /\ wire'[i].day = wire[1].day /\ wire'[i].day = wire'[1].day
          /\ wire'[i].type \notin {"A", "J", "H"}
          /\ wire'[i].type = "S" =>
               /\ wire'[i].k = CountAt(i + 1) /\ wire'[i].k \in 1..SoupLast
               /\ session' = wire'[i].day
          /\ wire'[i].type = "Z" => CountAt(i + 1) = SoupLast + 1
    BY <1>2, <1>3, <1>8, <1>9 DEF SoupInv, WireInv
  <2>2. \A i \in 1..Len(wire') : CountAt(i)' = CountAt(i + 1)
    BY <1>2, <1>6
  <2> QED BY <1>7, <2>1, <2>2, Zenon DEF WireInv
<1>11. PeerInv'
  <2>1. peer # "login"
    BY Zenon DEF SoupInv, PeerInv
  <2>2. ASSUME peer = "sending", ~dark
        PROVE  /\ pos = nextSeq' + Len(wire') - Lead' /\ session' = soupDay
               /\ wire' # <<>> => wire'[1].day = soupDay
    <3>1. /\ pos = nextSeq + (Len(wire) + 1) - 1 - Lead
          /\ Joins(soupDay) /\ wire[1].day = soupDay
      BY <2>2, Zenon DEF SoupInv, PeerInv, CountAt
    <3>2. wire' # <<>> => wire'[1].day = wire[1].day
      BY <1>2, <1>3, <1>9, EmptyFacts
    <3> QED BY <1>1, <1>2, <1>5, <1>8, <3>1, <3>2
  <2>3. nextSeq' + Len(wire') - Lead' = nextSeq' + (Len(wire') + 1) - 1 - Lead'
    BY <1>1, <1>2, <1>5
  <2> QED BY <1>7, <2>1, <2>2, <2>3, Zenon DEF PeerInv, CountAt
<1> QED BY <1>2, <1>10, <1>11, Zenon

-----------------------------------------------------------------------------
(* The connector *)

(* close_fd leaves nothing under way. *)
LEMMA CloseStep ==
  ASSUME SoupAssumption, SoupInv, CloseFd, UNCHANGED <<session, nextSeq, delivered>>
  PROVE  PeerTyped' /\ WireInv' /\ PeerInv' /\ MessagesExact'
<1>1. PeerTyped'
  <2>1. login' \in [session : 0..MaxSoupDay, seq : 0..(SoupLast + 1)]
    BY DEF CloseFd, NoLogin, SoupAssumption
  <2>2. pos' \in 1..(SoupLast + 1)
    BY DEF CloseFd, SoupAssumption
  <2>3. wire' \in Seq(Packets)
    BY DEF CloseFd
  <2>4. peer' = "none" /\ dark' \in BOOLEAN
    BY Zenon DEF CloseFd
  <2> QED BY <2>1, <2>2, <2>3, <2>4, Zenon DEF PeerTyped
<1>2. WireInv' /\ PeerInv'
  BY DEF CloseFd, WireInv, PeerInv
<1>3. MessagesExact'
  BY Zenon DEF SoupInv, MessagesExact
<1> QED BY <1>1, <1>2, <1>3, Zenon

(* Any disconnect: schedule_retry replaces the socket. *)
LEMMA RetryStep ==
  ASSUME SoupAssumption, SoupInv, ~stopped, CloseFd, ScheduleRetry, tick' = FALSE,
         UNCHANGED <<stopped, sessionVars, soupDay>>, soupFaults' \in 0..MaxSoupFaults
  PROVE  SoupInv'
<1> USE DEF sessionVars
<1>1. ConnTyped'
  <2>1. backoff \in {1, 2, 4, 8, 10} /\ stopped \in BOOLEAN
    BY TypeParts, Zenon DEF SoupInv, ConnTyped
  <2>2. backoff' \in {1, 2, 4, 8, 10}
    BY <2>1 DEF ScheduleRetry, Min10
  <2> QED BY <2>1, <2>2, Zenon DEF ConnTyped, CloseFd, ScheduleRetry
<1>2. SessionTyped' /\ EnvTyped'
  BY TypeParts, Zenon DEF SoupInv, SessionTyped, EnvTyped
<1>3. Lifeline' /\ ClosedInv' /\ EndIsComplete'
  BY Zenon DEF SoupInv, Lifeline, ClosedInv, EndIsComplete, CloseFd, ScheduleRetry
<1> QED BY <1>1, <1>2, <1>3, CloseStep, TypePartsPrimed, Zenon DEF SoupInv

(* stop(), by an end of session, a rejection or a signal. *)
LEMMA StopStep ==
  ASSUME SoupAssumption, SoupInv, Stop, heard' \in BOOLEAN,
         state' \in {"CONNECTED", "LOGIN_SENT", "LIVE", "ENDED", "FAILED"},
         state' = "ENDED" => nextSeq = SoupLast + 1,
         UNCHANGED <<session, nextSeq, delivered, soupDay, soupFaults>>
  PROVE  SoupInv'
<1>1. CloseFd
  BY Zenon DEF Stop
<1>2. ConnTyped'
  BY TypeParts, Zenon DEF SoupInv, ConnTyped, Stop, CloseFd
<1>3. SessionTyped' /\ EnvTyped'
  BY TypeParts, Zenon DEF SoupInv, SessionTyped, EnvTyped
<1>4. Lifeline' /\ ClosedInv' /\ EndIsComplete'
  BY Zenon DEF SoupInv, Lifeline, ClosedInv, EndIsComplete, Stop, CloseFd
<1> QED BY <1>1, <1>2, <1>3, <1>4, CloseStep, TypePartsPrimed, Zenon DEF SoupInv

LEMMA AttemptConnectStep ==
  ASSUME SoupInv, AttemptConnect
  PROVE  SoupInv'
<1> USE DEF AttemptConnect, sessionVars, peerVars
<1>1. ConnTyped' /\ SessionTyped' /\ PeerTyped' /\ EnvTyped'
  BY TypeParts, ZenonT(30) DEF SoupInv, ConnTyped, SessionTyped, PeerTyped, EnvTyped
<1>2. Lifeline' /\ ClosedInv' /\ EndIsComplete' /\ MessagesExact'
  BY Zenon DEF SoupInv, Lifeline, ClosedInv, EndIsComplete, MessagesExact
<1>3. WireInv' /\ PeerInv'
  BY Zenon DEF SoupInv, WireInv, PeerInv, CountAt, Joins, Lead
<1> QED BY <1>1, <1>2, <1>3, TypePartsPrimed, Zenon DEF SoupInv

LEMMA OnConnectWritableStep ==
  ASSUME SoupInv, OnConnectWritable
  PROVE  SoupInv'
<1> USE DEF OnConnectWritable, ResetAndStart
<1>1. ConnTyped' /\ SessionTyped' /\ EnvTyped'
  BY TypeParts, Zenon DEF SoupInv, ConnTyped, SessionTyped, EnvTyped
<1>2. PeerTyped'
  <2>1. login' \in [session : 0..MaxSoupDay, seq : 0..(SoupLast + 1)]
    BY TypeParts DEF SoupInv, SessionTyped
  <2> QED BY <2>1, TypeParts, Zenon DEF SoupInv, PeerTyped
<1>3. Lifeline' /\ ClosedInv' /\ EndIsComplete' /\ MessagesExact'
  BY Zenon DEF SoupInv, Lifeline, ClosedInv, EndIsComplete, MessagesExact
<1>4. WireInv' /\ PeerInv'
  BY DEF SoupInv, ClosedInv, WireInv, PeerInv
<1> QED BY <1>1, <1>2, <1>3, <1>4, TypePartsPrimed, Zenon DEF SoupInv

(* Peer closed, failed write, silence, refused connection. *)
LEMMA DisconnectSteps ==
  ASSUME SoupAssumption, SoupInv,
         OnEof \/ FlushFails \/ PeerSilent \/ ConnectFails
  PROVE  SoupInv'
<1>1. soupFaults' \in 0..MaxSoupFaults
  BY TypeParts
     DEF SoupInv, EnvTyped, OnEof, FlushFails, PeerSilent, ConnectFails, Fault,
         SoupAssumption
<1>2. CASE OnEof \/ FlushFails \/ PeerSilent
  BY <1>1, <1>2, RetryStep, Zenon
     DEF OnEof, FlushFails, PeerSilent, HandleDisconnect
<1>3. CASE ConnectFails
  <2>1. ~stopped /\ tick = FALSE
    BY <1>3 DEF ConnectFails, SoupInv, Lifeline
  <2> QED BY <1>1, <1>3, <2>1, RetryStep, Zenon DEF ConnectFails
<1> QED BY <1>2, <1>3, Zenon

-----------------------------------------------------------------------------
(* Packets *)

LEMMA OnLoginAcceptedStep ==
  ASSUME SoupInv, OnLoginAccepted
  PROVE  SoupInv'
<1> USE DEF OnLoginAccepted, Receive, Consume, connVars
<1>1. /\ wire \in Seq(Packets) /\ wire # <<>> /\ Head(wire) = wire[1]
      /\ 1 \in 1..Len(wire) /\ wire[1] \in Packets
  BY TypeParts, TailFacts, EmptyFacts DEF SoupInv, PeerTyped
<1>2. /\ wire[1].k = nextSeq /\ session \in {0, wire[1].day}
      /\ wire[1].type = "A" /\ wire[1].day \in 1..MaxSoupDay
  BY <1>1, Zenon DEF SoupInv, WireInv, Joins, Packets
<1>3. nextSeq \in Nat /\ nextSeq' = nextSeq + 1 - Lead
  BY <1>1, <1>2, TypeParts DEF SoupInv, SessionTyped, Lead
<1>4. wire' \in Seq(Packets) /\ WireInv' /\ PeerInv'
  BY <1>1, <1>2, <1>3, ConsumeWire, Zenon
<1>5. SessionTyped' /\ ConnTyped' /\ PeerTyped' /\ EnvTyped'
  BY SMTT(30), <1>1, <1>2, <1>4, TypeParts
     DEF SoupInv, SessionTyped, ConnTyped, PeerTyped, EnvTyped
<1>6. MessagesExact'
  <2>1. delivered = <<>> \/ session' = session
    BY <1>1, <1>2, Zenon DEF SoupInv, ClosedInv
  <2> QED BY <1>1, <1>2, <2>1 DEF SoupInv, MessagesExact
<1>7. Lifeline' /\ ClosedInv' /\ EndIsComplete'
  BY <1>1, <1>2, Zenon DEF SoupInv, Lifeline, ClosedInv, EndIsComplete
<1> QED BY <1>4, <1>5, <1>6, <1>7, TypePartsPrimed, Zenon DEF SoupInv

LEMMA OnMessageStep ==
  ASSUME SoupAssumption, SoupInv, OnMessage
  PROVE  SoupInv'
<1> USE DEF OnMessage, Receive, Consume, connVars
<1>1. /\ wire \in Seq(Packets) /\ wire # <<>> /\ Head(wire) = wire[1]
      /\ 1 \in 1..Len(wire) /\ wire[1] \in Packets /\ wire[1].type = "S"
  BY TypeParts, TailFacts, EmptyFacts DEF SoupInv, PeerTyped
<1>2. nextSeq \in Nat /\ Lead = 0 /\ nextSeq' = nextSeq + 1 - Lead
  BY <1>1, TypeParts DEF SoupInv, SessionTyped, Lead
<1>3. /\ wire[1].k = nextSeq /\ nextSeq \in 1..SoupLast
      /\ wire[1].day = session /\ session \in 1..MaxSoupDay
  BY <1>1, <1>2 DEF SoupInv, WireInv, CountAt, Joins, Packets
<1>4. wire' \in Seq(Packets) /\ WireInv' /\ PeerInv'
  BY <1>1, <1>2, ConsumeWire, Zenon
<1> DEFINE Records == [seq : 1..SoupLast, day : 1..MaxSoupDay, k : 1..SoupLast]
           r == [seq |-> nextSeq, day |-> session, k |-> nextSeq]
<1>5. delivered \in Seq(Records) /\ Len(delivered) \in Nat
  BY TypeParts, EmptyFacts, Zenon DEF SoupInv, SessionTyped
<1>6. r \in Records /\ delivered' = Append(delivered, r)
  BY <1>1, <1>3, Zenon
<1> HIDE DEF Records
<1>7. /\ delivered' \in Seq(Records) /\ Len(delivered') = Len(delivered) + 1
      /\ \A i \in 1..Len(delivered) : delivered'[i] = delivered[i]
      /\ delivered'[Len(delivered) + 1] = r
  BY <1>5, <1>6, AppendFacts
<1>8. SessionTyped'
  BY <1>2, <1>3, <1>7, TypeParts DEF SoupInv, SessionTyped, SoupAssumption, Records
<1>9. ConnTyped' /\ PeerTyped' /\ EnvTyped'
  BY <1>4, TypeParts, Zenon DEF SoupInv, ConnTyped, PeerTyped, EnvTyped
<1>10. MessagesExact'
  <2>1. /\ DOMAIN delivered = 1..Len(delivered)
        /\ DOMAIN delivered' = 1..(Len(delivered) + 1)
    BY <1>5, <1>7, EmptyFacts, Zenon
  <2>2. nextSeq = StartSeq + Len(delivered) /\ StartSeq \in Nat
    BY DEF SoupInv, MessagesExact, SoupAssumption
  <2>3. nextSeq' = StartSeq + Len(delivered')
    BY <1>2, <1>5, <1>7, <2>2
  <2>4. ASSUME NEW i \in DOMAIN delivered'
        PROVE  delivered'[i] = [seq |-> StartSeq + i - 1, day |-> session',
                                k |-> StartSeq + i - 1]
    <3>1. CASE i \in 1..Len(delivered)
      BY <1>7, <2>1, <3>1, Zenon DEF SoupInv, MessagesExact
    <3>2. CASE i = Len(delivered) + 1
      <4>1. nextSeq = StartSeq + i - 1
        BY <1>5, <2>2, <3>2
      <4> QED BY <1>7, <3>2, <4>1, Zenon
    <3> QED BY <1>5, <2>1, <3>1, <3>2
  <2> QED BY <2>3, <2>4, Zenon DEF MessagesExact
<1>11. Lifeline' /\ ClosedInv' /\ EndIsComplete'
  BY <1>3 DEF SoupInv, Lifeline, ClosedInv, EndIsComplete
<1> QED BY <1>4, <1>8, <1>9, <1>10, <1>11, TypePartsPrimed, Zenon DEF SoupInv

LEMMA OnHeartbeatStep ==
  ASSUME SoupInv, OnHeartbeat
  PROVE  SoupInv'
<1> USE DEF OnHeartbeat, Receive, Consume, connVars
<1>1. /\ wire \in Seq(Packets) /\ wire # <<>> /\ Head(wire) = wire[1]
      /\ wire[1].type = "H"
  BY TypeParts, TailFacts, Zenon DEF SoupInv, PeerTyped
<1>2. nextSeq \in Nat /\ nextSeq' = nextSeq + 1 - Lead
  BY <1>1, TypeParts DEF SoupInv, SessionTyped, Lead
<1>3. wire' \in Seq(Packets) /\ WireInv' /\ PeerInv'
  BY <1>1, <1>2, ConsumeWire, Zenon
<1>4. SessionTyped' /\ ConnTyped' /\ PeerTyped' /\ EnvTyped'
  BY <1>3, TypeParts DEF SoupInv, SessionTyped, ConnTyped, PeerTyped, EnvTyped
<1>5. Lifeline' /\ ClosedInv' /\ EndIsComplete' /\ MessagesExact'
  BY <1>1, Zenon DEF SoupInv, Lifeline, ClosedInv, EndIsComplete, MessagesExact
<1> QED BY <1>3, <1>4, <1>5, TypePartsPrimed, Zenon DEF SoupInv

(* A rejection, the end of the session, a signal: stop(). *)
LEMMA StopSteps ==
  ASSUME SoupAssumption, SoupInv, OnLoginRejected \/ OnEndOfSession \/ Signal
  PROVE  SoupInv'
<1>1. CASE OnLoginRejected
  BY <1>1, StopStep, Zenon DEF OnLoginRejected, Receive
<1>2. CASE OnEndOfSession
  <2>1. /\ wire \in Seq(Packets) /\ wire # <<>> /\ Head(wire) = wire[1]
        /\ 1 \in 1..Len(wire) /\ wire[1].type = "Z"
    BY <1>2, TypeParts, TailFacts, EmptyFacts
       DEF SoupInv, PeerTyped, OnEndOfSession, Receive
  <2>2. nextSeq = SoupLast + 1
    BY <2>1, TypeParts DEF SoupInv, WireInv, CountAt, Lead, SessionTyped
  <2> QED BY <1>2, <2>2, StopStep, Zenon DEF OnEndOfSession, Receive
<1>3. CASE Signal
  <2>1. /\ state \in {"CONNECTED", "LOGIN_SENT", "LIVE", "ENDED", "FAILED"}
        /\ heard \in BOOLEAN
    BY TypeParts, Zenon DEF SoupInv, SessionTyped
  <2> QED BY <1>3, <2>1, StopStep, Zenon DEF Signal, sessionVars, SoupInv, EndIsComplete
<1> QED BY <1>1, <1>2, <1>3, Zenon

-----------------------------------------------------------------------------
(* The exchange *)

(* What a step of the exchange leaves alone. *)
LEMMA ClientUntouched ==
  ASSUME SoupInv, UNCHANGED <<sessionVars, connVars>>,
         fd = "up" \/ (peer' = "none" /\ wire' = <<>> /\ ~dark')
  PROVE  /\ SessionTyped' /\ ConnTyped' /\ Lifeline' /\ ClosedInv'
         /\ EndIsComplete' /\ MessagesExact'
<1> USE DEF sessionVars, connVars
<1>1. SessionTyped' /\ ConnTyped'
  BY TypeParts, Zenon DEF SoupInv, SessionTyped, ConnTyped
<1>2. Lifeline' /\ ClosedInv' /\ EndIsComplete' /\ MessagesExact'
  BY Zenon DEF SoupInv, Lifeline, ClosedInv, EndIsComplete, MessagesExact
<1> QED BY <1>1, <1>2, Zenon

LEMMA PeerLoginStep ==
  ASSUME SoupAssumption, SoupInv, PeerLogin
  PROVE  SoupInv'
<1> USE DEF PeerLogin, peerFrame, Room, Put
<1>1. /\ SessionTyped' /\ ConnTyped' /\ Lifeline' /\ ClosedInv'
      /\ EndIsComplete' /\ MessagesExact'
  BY ClientUntouched, Zenon
<1>2. /\ wire = <<>> /\ login = [session |-> session, seq |-> nextSeq]
      /\ nextSeq \in 1..(SoupLast + 1) /\ soupDay \in 1..MaxSoupDay /\ SoupLast \in Nat
      /\ Len(wire) = 0
  BY TypeParts, Zenon DEF SoupInv, PeerInv, SessionTyped, EnvTyped, SoupAssumption
<1>3. UNCHANGED <<session, nextSeq>>
  BY Zenon DEF sessionVars
<1>4. EnvTyped'
  BY TypeParts, Zenon DEF SoupInv, EnvTyped
<1>5. login' \in [session : 0..MaxSoupDay, seq : 0..(SoupLast + 1)]
  BY DEF NoLogin, SoupAssumption
<1>6. CASE Refused
  <2> DEFINE e == [type |-> "J", day |-> soupDay, k |-> 0]
  <2>1. e \in Packets /\ wire' = Append(wire, e) /\ e.type = "J"
    BY <1>2, <1>6 DEF Packets
  <2> HIDE DEF e
  <2>2. wire' \in Seq(Packets) /\ WireInv'
    BY <1>2, <1>3, <2>1, PutWire, Zenon
  <2>3. PeerTyped'
    BY <1>5, <1>6, <2>2, TypeParts, Zenon DEF SoupInv, PeerTyped
  <2>4. PeerInv'
    BY <1>6, Zenon DEF PeerInv
  <2> QED BY <1>1, <1>4, <2>2, <2>3, <2>4, TypePartsPrimed, Zenon DEF SoupInv
<1>7. CASE ~Refused
  <2>1. FirstSent = nextSeq /\ session \in {0, soupDay}
    BY <1>2, <1>7 DEF FirstSent, Refused
  <2> DEFINE e == [type |-> "A", day |-> soupDay, k |-> nextSeq]
  <2>2. /\ e \in Packets /\ wire' = Append(wire, e) /\ e.type = "A"
        /\ e.k = nextSeq /\ e.day = soupDay
    BY <1>2, <1>7, <2>1 DEF Packets
  <2> HIDE DEF e
  <2>3. wire' \in Seq(Packets) /\ WireInv'
    BY <1>2, <1>3, <2>1, <2>2, PutWire, Zenon
  <2>4. PeerTyped'
    BY <1>2, <1>5, <1>7, <2>1, <2>3, TypeParts, Zenon DEF SoupInv, PeerTyped
  <2>5. wire' # <<>> /\ wire'[1] = e /\ Len(wire') = 1
    BY <1>2, <2>2, AppendFacts
  <2>6. pos' = CountAt(Len(wire) + 1)'
    BY <1>2, <1>3, <1>7, <2>1, <2>2, <2>5 DEF CountAt, Lead
  <2>7. Joins(soupDay)'
    BY <1>3, <2>1, <2>2, <2>5, Zenon DEF Joins
  <2>8. PeerInv'
    BY <1>7, <2>2, <2>5, <2>6, <2>7, Zenon DEF PeerInv
  <2> QED BY <1>1, <1>4, <2>3, <2>4, <2>8, TypePartsPrimed, Zenon DEF SoupInv
<1> QED BY <1>6, <1>7, Zenon

(* _send, _pace and the end of the session: the next packet continues the   *)
(* count.                                                                   *)
LEMMA PeerSendSteps ==
  ASSUME SoupAssumption, SoupInv, PeerSend \/ PeerHeartbeat \/ PeerEnd
  PROVE  SoupInv'
<1> USE DEF PeerSend, PeerHeartbeat, PeerEnd, peerFrame, Room, Put
<1>1. /\ SessionTyped' /\ ConnTyped' /\ Lifeline' /\ ClosedInv'
      /\ EndIsComplete' /\ MessagesExact'
  BY ClientUntouched, Zenon
<1>2. /\ nextSeq \in 1..(SoupLast + 1) /\ soupDay \in 1..MaxSoupDay /\ SoupLast \in Nat
      /\ wire \in Seq(Packets) /\ pos \in 1..(SoupLast + 1) /\ Len(wire) \in Nat
  BY TypeParts, EmptyFacts, Zenon
     DEF SoupInv, PeerTyped, SessionTyped, EnvTyped, SoupAssumption
<1>3. UNCHANGED <<session, nextSeq, dark, soupDay, login>> /\ ~dark
  BY Zenon DEF sessionVars
<1>4. EnvTyped'
  BY TypeParts, Zenon DEF SoupInv, EnvTyped
<1>5. /\ pos = CountAt(Len(wire) + 1) /\ Joins(soupDay)
      /\ wire # <<>> => wire[1].day = soupDay
  BY Zenon DEF SoupInv, PeerInv
<1>6. CASE PeerSend
  <2> DEFINE e == [type |-> "S", day |-> soupDay, k |-> pos]
  <2>1. /\ e \in Packets /\ wire' = Append(wire, e) /\ e.type = "S"
        /\ e.k = pos /\ pos \in 1..SoupLast /\ e.day = soupDay
    BY <1>2, <1>6 DEF Packets
  <2> HIDE DEF e
  <2>2. wire' \in Seq(Packets) /\ WireInv'
    BY <1>3, <1>5, <2>1, PutWire, Zenon
  <2>3. PeerTyped'
    BY <1>2, <1>6, <2>1, <2>2, TypeParts DEF SoupInv, PeerTyped
  <2>4. /\ wire' # <<>> /\ Len(wire') = Len(wire) + 1
        /\ wire # <<>> => wire'[1] = wire[1]
        /\ wire = <<>> => wire'[1] = e
    BY <1>2, <2>1, AppendFacts, EmptyFacts
  <2>5. Lead' = Lead /\ Lead \in {0, 1}
    BY <2>1, <2>4, Zenon DEF Lead
  <2>6. pos' = CountAt(Len(wire) + 1)'
    BY <1>2, <1>3, <1>5, <1>6, <2>4, <2>5 DEF CountAt
  <2>7. Joins(soupDay)' /\ wire'[1].day = soupDay
    BY <1>3, <1>5, <2>1, <2>4, Zenon DEF Joins
  <2>8. PeerInv'
    BY <1>3, <1>6, <2>6, <2>7, Zenon DEF PeerInv
  <2> QED BY <1>1, <1>4, <2>2, <2>3, <2>8, TypePartsPrimed, Zenon DEF SoupInv
<1>7. CASE PeerHeartbeat
  <2> DEFINE e == [type |-> "H", day |-> soupDay, k |-> 0]
  <2>1. /\ e \in Packets /\ wire' = Append(wire, e) /\ e.type = "H"
        /\ wire = <<>> /\ e.day = soupDay
    BY <1>2, <1>7 DEF Packets
  <2> HIDE DEF e
  <2>2. wire' \in Seq(Packets) /\ WireInv'
    BY <1>3, <2>1, PutWire, Zenon
  <2>3. PeerTyped'
    BY <1>2, <1>7, <2>1, <2>2, TypeParts, Zenon DEF SoupInv, PeerTyped
  <2>4. wire' # <<>> /\ Len(wire') = 1 /\ wire'[1] = e /\ Len(wire) = 0
    BY <1>2, <2>1, AppendFacts, EmptyFacts
  <2>5. Lead' = 1 /\ Lead = 0
    BY <2>1, <2>4, Zenon DEF Lead
  <2>6. pos' = CountAt(Len(wire) + 1)'
    BY <1>2, <1>3, <1>5, <1>7, <2>4, <2>5 DEF CountAt
  <2>7. Joins(soupDay)'
    BY <1>3, <1>5, <2>1, <2>4, Zenon DEF Joins
  <2>8. PeerInv'
    BY <1>3, <1>7, <2>1, <2>4, <2>6, <2>7, Zenon DEF PeerInv
  <2> QED BY <1>1, <1>4, <2>2, <2>3, <2>8, TypePartsPrimed, Zenon DEF SoupInv
<1>8. CASE PeerEnd
  <2> DEFINE e == [type |-> "Z", day |-> soupDay, k |-> 0]
  <2>1. /\ e \in Packets /\ wire' = Append(wire, e) /\ e.type = "Z"
        /\ e.day = soupDay /\ pos = SoupLast + 1
    BY <1>2, <1>8 DEF Packets
  <2> HIDE DEF e
  <2>2. wire' \in Seq(Packets) /\ WireInv'
    BY <1>3, <1>5, <2>1, PutWire, Zenon
  <2>3. PeerTyped'
    BY <1>2, <1>8, <2>1, <2>2, TypeParts, Zenon DEF SoupInv, PeerTyped
  <2>4. PeerInv'
    BY <1>8, Zenon DEF PeerInv
  <2> QED BY <1>1, <1>4, <2>2, <2>3, <2>4, TypePartsPrimed, Zenon DEF SoupInv
<1> QED BY <1>6, <1>7, <1>8, Zenon

(* Abrupt closes, dark paths, rollover, the end of lingering: packets may   *)
(* be lost, and nothing is sent on this connection any more.                *)
LEMMA OutageSteps ==
  ASSUME SoupAssumption, SoupInv, PeerLingered \/ PeerDrop \/ GoDark \/ Rollover
  PROVE  SoupInv'
<1> USE DEF PeerLingered, PeerDrop, GoDark, Rollover, peerFrame
<1>1. UNCHANGED <<sessionVars, connVars, session, nextSeq, login, pos>>
  BY Zenon DEF sessionVars
<1>2. wire \in Seq(Packets)
  BY TypeParts, Zenon DEF SoupInv, PeerTyped
<1>3. fd = "up" \/ (peer' = "none" /\ wire' = <<>> /\ ~dark')
  BY DEF SoupInv, ClosedInv, LosePackets
<1>4. /\ SessionTyped' /\ ConnTyped' /\ Lifeline' /\ ClosedInv'
      /\ EndIsComplete' /\ MessagesExact'
  BY <1>1, <1>3, ClientUntouched, Zenon
<1>5. EnvTyped'
  BY TypeParts DEF SoupInv, EnvTyped, Fault, SoupAssumption
<1>6. LosePackets
  BY <1>2 DEF LosePackets
<1>7. wire' \in Seq(Packets) /\ WireInv'
  BY <1>1, <1>6, LoseWire, Zenon
<1>8. PeerTyped'
  BY <1>1, <1>7, TypeParts, Zenon DEF SoupInv, PeerTyped
<1>9. peer' = "login" => wire' = <<>>
  BY <1>6 DEF SoupInv, PeerInv, LosePackets
<1>10. PeerInv'
  BY <1>1, <1>9, Zenon DEF SoupInv, PeerInv
<1> QED BY <1>4, <1>5, <1>7, <1>8, <1>10, TypePartsPrimed, Zenon DEF SoupInv

-----------------------------------------------------------------------------
(* The invariant is inductive. *)
LEMMA NextSoupInv == SoupAssumption /\ SoupInv /\ [SoupNext]_soupVars => SoupInv'
<1> SUFFICES ASSUME SoupAssumption, SoupInv, [SoupNext]_soupVars
             PROVE  SoupInv'
  BY Zenon
<1>1. CASE UNCHANGED soupVars
  <2> USE <1>1 DEF soupVars, sessionVars, connVars, peerVars
  <2>1. SoupTypeOK'
    BY DEF SoupInv, SoupTypeOK
  <2>2. Lifeline' /\ ClosedInv' /\ MessagesExact' /\ EndIsComplete'
    BY Zenon DEF SoupInv, Lifeline, ClosedInv, MessagesExact, EndIsComplete
  <2>3. WireInv' /\ PeerInv'
    BY Zenon DEF SoupInv, WireInv, PeerInv, CountAt, Joins, Lead
  <2> QED BY <2>1, <2>2, <2>3, Zenon DEF SoupInv
<1>2. CASE SoupNext
  BY <1>2, AttemptConnectStep, OnConnectWritableStep, DisconnectSteps,
     OnLoginAcceptedStep, OnMessageStep, OnHeartbeatStep, StopSteps,
     PeerLoginStep, PeerSendSteps, OutageSteps, Zenon
     DEF SoupNext, ClientStep, PeerStep
<1> QED BY <1>1, <1>2, Zenon

LEMMA SoupInvariance == ASSUME SoupAssumption PROVE SoupSpec => []SoupInv
  BY InitSoupInv, NextSoupInv, PTL DEF SoupSpec

(* on_message sees one session's messages in order, once, with their own    *)
(* numbers, and a clean end is reported only after the last one             *)
(* (soupclient.cpp handle_packet, reset), for sessions of any length and    *)
(* any number of lost connections.                                          *)
THEOREM SoupDeliversExactly ==
  ASSUME SoupAssumption PROVE SoupSpec => []DeliveredExactly
<1>1. SoupInv => DeliveredExactly
  BY Zenon DEF SoupInv, DeliveredExactly
<1> QED BY <1>1, SoupInvariance, PTL

(* Until stop() the connector has a socket or a retry timer, never both and *)
(* never neither (soupclient.cpp TcpSoupConnector).                         *)
THEOREM SoupKeepsLifeline == ASSUME SoupAssumption PROVE SoupSpec => []Lifeline
<1>1. SoupInv => Lifeline
  BY Zenon DEF SoupInv
<1> QED BY <1>1, SoupInvariance, PTL
=============================================================================
