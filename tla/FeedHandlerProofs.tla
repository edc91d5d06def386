------------------------- MODULE FeedHandlerProofs --------------------------
(***************************************************************************)
(* Proofs about the Python feed handler: for sessions and snapshots of any *)
(* length, any retry limit, and any number of refused, reset and dark      *)
(* connections, what is applied is exact and the handler ends once.        *)
(***************************************************************************)
EXTENDS FeedHandler, TLAPS

(* TRUE and FALSE, as the fields of a record. *)
Flag == BOOLEAN

States == {"INIT", "SNAPSHOT", "LIVE"} \cup Terminal

Applied == [day : Nat, k : Nat]

Client ==
  [state : States, told : Seq(Terminal), done : Flag, watchdog : Flag,
   role : {"glimpse", "itch"},
   conn : {"IDLE", "CONNECTING", "CONNECTED", "STOPPED"}, attempts : Nat,
   retry : Flag, tick : Flag,
   sess : {"CONNECTED", "LOGIN_SENT", "LIVE"} \cup Terminal,
   session : 0..MaxFeedDay, seq : Nat, heard : Flag, base : Nat, snap : Nat,
   live : Seq(Applied), printed : Nat]

Packets == [type : {"A", "J", "S", "P", "G", "H", "Z"}, day : 1..MaxFeedDay,
            k : Nat]

Logins == [session : 0..MaxFeedDay, seq : Nat]

Nets == [peer : {"none", "login", "replay", "snapshot", "linger", "closed"},
         login : Logins, pos : Nat, wire : Seq(Packets), dark : Flag]

HandlerTyped ==
  /\ setup.limit \in Nat
  /\ cl \in Client /\ net \in Nets /\ batch \in Seq(Packets)
  /\ feedDay \in 1..MaxFeedDay
  /\ batch # <<>> => busy

-----------------------------------------------------------------------------
(* The life of a client *)

(* Over, and nothing of it left. *)
Ended(c) ==
  /\ c.state \in Terminal /\ c.told = <<c.state>>
  /\ c.conn = "STOPPED" /\ ~c.retry /\ ~c.watchdog

(* Not over: nobody was told, the session may go on, the watchdog guards a  *)
(* snapshot that is not complete.                                           *)
Standing(c) ==
  /\ c.state \notin Terminal /\ c.told = <<>>
  /\ c.sess \notin Terminal
  /\ c.watchdog <=> c.role = "glimpse"
  /\ c.role = "glimpse" => ~c.done

(* The same, and something will wake it. *)
Alive(c) ==
  /\ Standing(c)
  /\ c.conn # "STOPPED"
  /\ c.retry <=> c.conn = "IDLE"
  /\ c.conn = "CONNECTED" => c.tick

Life(c) == Ended(c) \/ Alive(c)

-----------------------------------------------------------------------------
(* What a client has applied *)

Exact(c) ==
  /\ c.role = "itch" => c.seq = c.base + Len(c.live)
  /\ c.role = "glimpse" => c.live = <<>> /\ c.seq = c.snap + 1
  /\ \A i \in 1..Len(c.live) :
       c.live[i] = [day |-> c.session, k |-> c.base + i - 1]
  /\ setup.glimpse /\ c.role = "itch" => c.snap = SnapLen /\ c.base = Cut + 1
  /\ c.printed = IF setup.limit = 0 \/ Len(c.live) < setup.limit
                 THEN Len(c.live) ELSE setup.limit
  /\ c.live # <<>> => c.session # Blank

(* The parts of a client that Exact is about: a connector touches none.     *)
Data(c) == <<c.role, c.session, c.seq, c.base, c.snap, c.live, c.printed>>

-----------------------------------------------------------------------------
(* Packets under way *)

(* 1 when the first packet is not one of those that are counted. *)
Lead(s) == IF s # <<>> /\ s[1].type \in {"A", "H"} THEN 1 ELSE 0

(* The number the client will count up to, when it starts from n. *)
After(s, n) == n + Len(s) - Lead(s)

(* What may be in a run of packets of day d that a client of this role will *)
(* count from n: an answer to the login or a heartbeat only comes first,    *)
(* messages carry the numbers the client counts, and the end of what was    *)
(* asked for comes last.                                                    *)
Fitting(s, n, d, role) ==
  \A i \in 1..Len(s) :
    /\ s[i].day = d
    /\ s[i].type \in {"A", "J", "H"} => i = 1
    /\ s[i].type \in {"J", "G", "Z"} => i = Len(s)
    /\ s[i].type \in {"S", "H", "Z"} => role = "itch"
    /\ s[i].type \in {"P", "G"} => role = "glimpse"
    /\ s[i].type = "A" => s[i].k = n
    /\ s[i].type = "S" => s[i].k = n + i - 1 - Lead(s)
    /\ s[i].type = "G" => s[i].k = Cut + 1 /\ n + i - 1 - Lead(s) = SnapLen + 1

Final(s) == s # <<>> /\ s[Len(s)].type \in {"J", "G", "Z"}
Answer(s) == s # <<>> /\ s[1].type \in {"A", "J"}

(* The login of this connection has been accepted, on its way or already.   *)
Serves(s) == \E i \in 1..Len(s) : s[i].type # "J"

(* The session the client is in, or will be once it has read the answer.    *)
Joined(d) ==
  IF \/ batch # <<>> /\ batch[1].type = "A"
     \/ batch = <<>> /\ net.wire # <<>> /\ net.wire[1].type = "A"
  THEN cl.session \in {Blank, d} ELSE cl.session = d

Replying == net.peer \in {"replay", "snapshot"} /\ ~net.dark

Pipe(d) ==
  /\ Fitting(batch, cl.seq, d, cl.role)
  /\ Fitting(net.wire, After(batch, cl.seq), d, cl.role)
  /\ Final(batch) => net.wire = <<>>
  /\ Answer(net.wire) => batch = <<>>
  /\ net.peer \in {"replay", "snapshot"} => ~Final(batch) /\ ~Final(net.wire)
  /\ Replying => /\ net.pos = After(net.wire, After(batch, cl.seq))
                 /\ d = feedDay
  /\ cl.role = "itch" /\ (Serves(batch) \/ Serves(net.wire) \/ Replying) =>
       Joined(d)

PipeInv == \E d \in 1..MaxFeedDay : Pipe(d)

(* Which packets and which thread go with which phase of the client. *)
PhaseInv ==
  /\ cl.conn # "CONNECTED" => net = NoNet
  /\ cl.role = "glimpse" /\ cl.conn \in {"IDLE", "CONNECTING"} => cl.snap = 0
  /\ net.peer = "login" =>
       /\ ~busy /\ net.wire = <<>> /\ net.pos = 1
       /\ net.login = [session |-> cl.session, seq |-> cl.seq]
       /\ cl.role = "glimpse" => cl.snap = 0
  /\ batch # <<>> /\ (cl.role = "glimpse" \/ Answer(batch)) =>
       cl.conn = "CONNECTED"
  /\ net.peer = "replay" => cl.role = "itch"
  /\ net.peer = "snapshot" => cl.role = "glimpse" /\ net.pos <= SnapLen + 1

FeedInv == HandlerTyped /\ Life(cl) /\ Exact(cl) /\ PhaseInv /\ PipeInv

-----------------------------------------------------------------------------
(* The connector and the two ends of a handler, on the record *)

LEMMA Flags == TRUE \in Flag /\ FALSE \in Flag
BY Zenon DEF Flag

(* _close_socket and stop touch the connection only. *)
LEMMA CloseFacts ==
  ASSUME NEW c \in Client, NEW d, d = CloseSocket(c)
  PROVE  /\ d \in Client /\ Data(d) = Data(c)
         /\ d.state = c.state /\ d.told = c.told /\ d.done = c.done
         /\ d.watchdog = c.watchdog /\ d.sess = c.sess /\ d.conn = c.conn
         /\ d.attempts = c.attempts /\ d.retry = FALSE /\ d.tick = FALSE
BY Flags, Zenon DEF Client, CloseSocket, Data

LEMMA StopFacts ==
  ASSUME NEW c \in Client, NEW d, d = StopConnector(c)
  PROVE  /\ d \in Client /\ Data(d) = Data(c)
         /\ d.state = c.state /\ d.told = c.told /\ d.done = c.done
         /\ d.watchdog = c.watchdog /\ d.sess = c.sess
         /\ d.conn = "STOPPED" /\ d.retry = FALSE
BY Flags, Zenon DEF Client, CloseSocket, StopConnector, Data

(* _end and _fail report once. *)
LEMMA OverFacts ==
  ASSUME NEW c \in Client, NEW s \in Terminal, NEW d, d = Over(c, s)
  PROVE  /\ d \in Client /\ Data(d) = Data(c)
         /\ Ended(c) => d = c
         /\ c.state \notin Terminal /\ c.told = <<>> /\ ~c.watchdog => Ended(d)
<1>1. CASE c.state \in Terminal
  BY <1>1, Zenon DEF Over, Ended
<1>2. CASE c.state \notin Terminal
  <2> DEFINE e == StopConnector(c)
  <2>1. d = [e EXCEPT !.state = s, !.told = Append(@, s)]
    BY <1>2, Zenon DEF Over
  <2>2. /\ e \in Client /\ Data(e) = Data(c) /\ e.told = c.told
        /\ e.watchdog = c.watchdog /\ e.conn = "STOPPED" /\ e.retry = FALSE
    BY StopFacts, Zenon
  <2> HIDE DEF e
  <2>3. Append(e.told, s) \in Seq(Terminal)
    BY <2>2 DEF Client
  <2>4. d \in Client /\ Data(d) = Data(e)
    BY <2>1, <2>2, <2>3, Zenon DEF Client, Data, States
  <2>5. c.told = <<>> => d.told = <<s>>
    BY <2>1, <2>2 DEF Client
  <2>6. /\ d.state = s /\ d.watchdog = e.watchdog /\ d.conn = e.conn
        /\ d.retry = e.retry
    BY <2>1, <2>2, Zenon DEF Client
  <2> QED BY <1>2, <2>2, <2>4, <2>5, <2>6, Zenon DEF Ended
<1> QED BY <1>1, <1>2, Zenon

(* GlimpseClient.stop *)
LEMMA GlimpseStopFacts ==
  ASSUME NEW c \in Client, NEW d, d = GlimpseStop(c)
  PROVE  /\ d \in Client /\ Data(d) = Data(c)
         /\ d.state = c.state /\ d.told = c.told /\ d.done = c.done
         /\ d.watchdog = FALSE /\ d.sess = c.sess
         /\ d.conn = "STOPPED" /\ d.retry = FALSE
BY Flags, Zenon DEF Client, CloseSocket, StopConnector, GlimpseStop, Data

(* GlimpseClient._fail ends the handler with the snapshot. *)
LEMMA GlimpseFailFacts ==
  ASSUME NEW c \in Client, NEW d, d = GlimpseFail(c)
  PROVE  /\ d \in Client /\ Data(d) = Data(c)
         /\ c.done => d = c
         /\ ~c.done /\ c.state \notin Terminal /\ c.told = <<>> => Ended(d)
<1>1. CASE c.done
  BY <1>1, Zenon DEF GlimpseFail
<1>2. CASE ~c.done
  <2> DEFINE b == [c EXCEPT !.done = TRUE]
             e == GlimpseStop(b)
  <2>1. d = Over(e, "FAILED")
    BY <1>2, Zenon DEF GlimpseFail, SnapshotFailed
  <2>2. b \in Client /\ Data(b) = Data(c) /\ b.state = c.state /\ b.told = c.told
    BY Flags, Zenon DEF Client, Data
  <2> HIDE DEF b
  <2>3. /\ e \in Client /\ Data(e) = Data(b) /\ e.state = b.state
        /\ e.told = b.told /\ e.watchdog = FALSE
    BY <2>2, GlimpseStopFacts, Zenon
  <2> HIDE DEF e
  <2>4. "FAILED" \in Terminal
    BY Zenon DEF Terminal
  <2> QED BY <1>2, <2>1, <2>2, <2>3, <2>4, OverFacts
<1> QED BY <1>1, <1>2, Zenon

(* on_give_up is the end for either owner. *)
LEMMA GiveUpFacts ==
  ASSUME NEW c \in Client, Standing(c), NEW d, d = GiveUp(c)
  PROVE  d \in Client /\ Data(d) = Data(c) /\ Ended(d)
<1>1. CASE c.role = "glimpse"
  BY <1>1, GlimpseFailFacts, Zenon DEF GiveUp, SnapshotLost, Standing
<1>2. CASE c.role # "glimpse"
  <2>1. d = Over(c, "FAILED") /\ "FAILED" \in Terminal
    BY <1>2, Zenon DEF GiveUp, Terminal
  <2> QED BY <1>2, <2>1, OverFacts, Zenon DEF Standing
<1> QED BY <1>1, <1>2, Zenon

(* _schedule_retry sets the timer or gives up. *)
LEMMA ScheduleFacts ==
  ASSUME NEW c \in Client, NEW d, d = FeedScheduleRetry(c),
         Ended(c) \/ (Standing(c) /\ c.conn # "STOPPED")
  PROVE  /\ d \in Client /\ Data(d) = Data(c) /\ Life(d)
         /\ d.conn \in {"IDLE", "STOPPED"}
<1>1. CASE c.conn = "STOPPED"
  BY <1>1, Zenon DEF FeedScheduleRetry, Life, Ended
<1>2. CASE c.conn # "STOPPED" /\ MaxRetries(c) # 0 /\ c.attempts >= MaxRetries(c)
  <2> DEFINE b == [c EXCEPT !.conn = "STOPPED"]
  <2>1. d = GiveUp(b)
    BY <1>2, Zenon DEF FeedScheduleRetry
  <2>2. b \in Client /\ Data(b) = Data(c)
    BY Zenon DEF Client, Data
  <2>3. Standing(b)
    BY <1>2, Zenon DEF Client, Standing, Ended
  <2> HIDE DEF b
  <2>4. d \in Client /\ Data(d) = Data(b) /\ Ended(d)
    BY <2>1, <2>2, <2>3, GiveUpFacts, Zenon
  <2> QED BY <2>2, <2>4, Zenon DEF Life, Ended
<1>3. CASE c.conn # "STOPPED" /\ ~(MaxRetries(c) # 0 /\ c.attempts >= MaxRetries(c))
  <2>1. d = [c EXCEPT !.conn = "IDLE", !.retry = TRUE]
    BY <1>3, Zenon DEF FeedScheduleRetry
  <2>2. d \in Client /\ Data(d) = Data(c)
    BY <2>1, Flags, Zenon DEF Client, Data
  <2>3. Standing(d) /\ d.conn = "IDLE" /\ d.retry = TRUE
    BY <1>3, <2>1 DEF Client, Standing, Ended
  <2> QED BY <2>2, <2>3, Zenon DEF Life, Alive
<1> QED BY <1>1, <1>2, <1>3, Zenon

(* _handle_disconnect of a running client: a snapshot fails, ITCH retries.  *)
LEMMA DisconnectFacts ==
  ASSUME NEW c \in Client, NEW d, d = FeedHandleDisconnect(c),
         Standing(c), c.conn # "STOPPED"
  PROVE  /\ d \in Client /\ Data(d) = Data(c) /\ Life(d)
         /\ d.conn \in {"IDLE", "STOPPED"}
         /\ c.role = "glimpse" => Ended(d)
<1> DEFINE b == CloseSocket(c)
           e == OnDisconnect(b)
<1>1. d = FeedScheduleRetry(e)
  BY Zenon DEF FeedHandleDisconnect
<1>2. /\ b \in Client /\ Data(b) = Data(c) /\ b.state = c.state /\ b.told = c.told
      /\ b.done = c.done /\ b.watchdog = c.watchdog /\ b.sess = c.sess
      /\ b.conn = c.conn
  BY CloseFacts, Zenon
<1>3. b.role = c.role
  BY <1>2, Zenon DEF Data
<1> HIDE DEF b
<1>4. Standing(b) /\ b.conn # "STOPPED"
  BY <1>2, <1>3, Zenon DEF Standing
<1>5. CASE c.role = "glimpse"
  <2>1. e \in Client /\ Data(e) = Data(b) /\ Ended(e)
    BY <1>2, <1>3, <1>4, <1>5, GlimpseFailFacts, Zenon DEF OnDisconnect, SnapshotLost, Standing
  <2>2. d = e
    BY <1>1, <2>1, Zenon DEF FeedScheduleRetry, Ended
  <2> QED BY <1>2, <2>1, <2>2, Zenon DEF Life, Ended
<1>6. CASE c.role # "glimpse"
  <2>1. e = b
    BY <1>3, <1>6, Zenon DEF OnDisconnect
  <2> QED BY <1>1, <1>2, <1>4, <1>6, <2>1, ScheduleFacts, Zenon
<1> QED BY <1>5, <1>6, Zenon

-----------------------------------------------------------------------------
(* Runs of packets *)

LEMMA SeqFacts ==
  ASSUME NEW S, NEW s \in Seq(S)
  PROVE  /\ Len(s) \in Nat /\ (s = <<>> <=> Len(s) = 0)
         /\ \A i \in 1..Len(s) : s[i] \in S
         /\ \A i \in 0..Len(s) :
              /\ SubSeq(s, 1, i) \in Seq(S) /\ Len(SubSeq(s, 1, i)) = i
              /\ \A j \in 1..i : SubSeq(s, 1, i)[j] = s[j]
OBVIOUS

LEMMA RestFacts ==
  ASSUME NEW S, NEW s \in Seq(S), NEW n \in 1..Len(s)
  PROVE  /\ SubSeq(s, n + 1, Len(s)) \in Seq(S)
         /\ Len(SubSeq(s, n + 1, Len(s))) = Len(s) - n
         /\ \A j \in 1..(Len(s) - n) : SubSeq(s, n + 1, Len(s))[j] = s[n + j]
OBVIOUS

LEMMA AppendFacts ==
  ASSUME NEW S, NEW s \in Seq(S), NEW e \in S
  PROVE  /\ Append(s, e) \in Seq(S) /\ Len(Append(s, e)) = Len(s) + 1
         /\ \A i \in 1..Len(s) : Append(s, e)[i] = s[i]
         /\ Append(s, e)[Len(s) + 1] = e
OBVIOUS

LEMMA TailFacts ==
  ASSUME NEW S, NEW s \in Seq(S), s # <<>>
  PROVE  /\ Tail(s) \in Seq(S) /\ Len(Tail(s)) = Len(s) - 1 /\ Len(s) >= 1
         /\ \A i \in 1..(Len(s) - 1) : Tail(s)[i] = s[i + 1]
         /\ Head(s) = s[1]
OBVIOUS

(* Nothing under way fits anything. *)
LEMMA FitEmpty ==
  /\ \A n, d, r : Fitting(<<>>, n, d, r)
  /\ \A n \in Nat : After(<<>>, n) = n
  /\ ~Final(<<>>) /\ ~Answer(<<>>) /\ ~Serves(<<>>)
BY DEF Fitting, After, Lead, Final, Answer, Serves

LEMMA AfterType ==
  ASSUME NEW s \in Seq(Packets), NEW n \in Nat
  PROVE  After(s, n) \in Nat
BY SeqFacts DEF After, Lead

(* What is left of a run that lost its end. *)
LEMMA FitPrefix ==
  ASSUME NEW s \in Seq(Packets), NEW n, NEW d, NEW r, Fitting(s, n, d, r),
         NEW m \in 0..Len(s)
  PROVE  /\ SubSeq(s, 1, m) \in Seq(Packets) /\ Fitting(SubSeq(s, 1, m), n, d, r)
         /\ Serves(SubSeq(s, 1, m)) => Serves(s)
         /\ Final(SubSeq(s, 1, m)) => Final(s)
         /\ SubSeq(s, 1, m) # <<>> => s # <<>> /\ SubSeq(s, 1, m)[1] = s[1]
<1> DEFINE t == SubSeq(s, 1, m)
<1>1. /\ t \in Seq(Packets) /\ Len(t) = m /\ \A j \in 1..m : t[j] = s[j]
      /\ Len(s) \in Nat /\ (s = <<>> <=> Len(s) = 0)
  BY SeqFacts, Zenon
<1> HIDE DEF t
<1>2. t = <<>> <=> m = 0
  BY <1>1, SeqFacts, Zenon
<1>3. m # 0 => t[1] = s[1] /\ s # <<>>
  BY <1>1
<1>4. m # 0 => Lead(t) = Lead(s)
  BY <1>1, <1>2, <1>3, Zenon DEF Lead
<1>5. Fitting(t, n, d, r)
  <2> SUFFICES ASSUME NEW i \in 1..Len(t)
               PROVE  /\ t[i].day = d
                      /\ t[i].type \in {"A", "J", "H"} => i = 1
                      /\ t[i].type \in {"J", "G", "Z"} => i = Len(t)
                      /\ t[i].type \in {"S", "H", "Z"} => r = "itch"
                      /\ t[i].type \in {"P", "G"} => r = "glimpse"
                      /\ t[i].type = "A" => t[i].k = n
                      /\ t[i].type = "S" => t[i].k = n + i - 1 - Lead(t)
                      /\ t[i].type = "G" => /\ t[i].k = Cut + 1
                                            /\ n + i - 1 - Lead(t) = SnapLen + 1
    BY Zenon DEF Fitting
  <2>1. i \in 1..Len(s) /\ t[i] = s[i] /\ Lead(t) = Lead(s)
    BY <1>1, <1>4
  <2>2. i = Len(s) => i = Len(t)
    BY <1>1
  <2> QED BY <2>1, <2>2, Zenon DEF Fitting
<1>6. Serves(t) => Serves(s)
  BY <1>1 DEF Serves
<1>7. Final(t) => Final(s)
  <2> SUFFICES ASSUME Final(t) PROVE Final(s)
    BY Zenon
  <2>1. m \in 1..Len(s) /\ t[m] = s[m] /\ t[m].type \in {"J", "G", "Z"}
    BY <1>1, <1>2 DEF Final
  <2>2. m = Len(s)
    BY <2>1, Zenon DEF Fitting
  <2> QED BY <1>1, <2>1, <2>2 DEF Final
<1> QED BY <1>1, <1>2, <1>3, <1>5, <1>6, <1>7, Zenon DEF t

LEMMA LastIndex ==
  ASSUME NEW i \in Nat, NEW m \in Nat, NEW b \in Nat, NEW k \in Nat,
         b = k - m, m + i = k
  PROVE  i = b
OBVIOUS

(* recv takes the first packets, the rest stays on the way.                 *)
LEMMA FitSplit ==
  ASSUME NEW s \in Seq(Packets), NEW n \in Nat, NEW d, NEW r, Fitting(s, n, d, r),
         NEW m \in 1..Len(s),
         NEW a \in Seq(Packets), Len(a) = m, \A j \in 1..m : a[j] = s[j],
         NEW b \in Seq(Packets), Len(b) = Len(s) - m,
         \A j \in 1..(Len(s) - m) : b[j] = s[m + j]
  PROVE  /\ Fitting(b, After(a, n), d, r)
         /\ After(b, After(a, n)) = After(s, n)
         /\ a # <<>> /\ a[1] = s[1]
         /\ Final(a) => b = <<>>
         /\ ~Answer(b)
         /\ Final(b) => Final(s)
         /\ Final(a) => Final(s)
         /\ Serves(b) => Serves(s)
<1>1. /\ Len(a) = m /\ \A j \in 1..m : a[j] = s[j]
      /\ Len(s) \in Nat /\ (s = <<>> <=> Len(s) = 0)
  BY SeqFacts, Zenon
<1>2. /\ Len(b) = Len(s) - m /\ Len(b) \in Nat
      /\ \A j \in 1..(Len(s) - m) : b[j] = s[m + j]
  OBVIOUS
<1>3. a # <<>> /\ a[1] = s[1] /\ s # <<>> /\ (b = <<>> <=> Len(b) = 0)
  BY <1>1, <1>2, SeqFacts
<1>4. Lead(a) = Lead(s) /\ Lead(s) \in {0, 1}
  BY <1>3, Zenon DEF Lead
<1>5. \A j \in 1..Len(b) : b[j] = s[m + j] /\ m + j \in 1..Len(s) /\ m + j # 1
  BY <1>1, <1>2
<1>6. b # <<>> => b[1].type \notin {"A", "J", "H"}
  BY SMTT(30), <1>2, <1>3, <1>5 DEF Fitting
<1>7. Lead(b) = 0 /\ ~Answer(b)
  BY <1>6, Zenon DEF Lead, Answer
<1>8. After(a, n) = n + m - Lead(s)
  BY <1>1, <1>4, Zenon DEF After
<1>9. After(b, After(a, n)) = After(s, n)
  <2>1. After(b, n + m - Lead(s)) = n + m - Lead(s) + (Len(s) - m)
    BY <1>2, <1>4, <1>7 DEF After
  <2>2. After(s, n) = n + m - Lead(s) + (Len(s) - m)
    BY <1>1, <1>4 DEF After
  <2> QED BY <1>8, <2>1, <2>2, Zenon
<1>10. Fitting(b, After(a, n), d, r)
  <2> SUFFICES ASSUME NEW i \in 1..Len(b)
               PROVE  /\ b[i].day = d
                      /\ b[i].type \notin {"A", "J", "H"}
                      /\ b[i].type \in {"J", "G", "Z"} => i = Len(b)
                      /\ b[i].type \in {"S", "H", "Z"} => r = "itch"
                      /\ b[i].type \in {"P", "G"} => r = "glimpse"
                      /\ b[i].type = "S" => b[i].k = After(a, n) + i - 1 - Lead(b)
                      /\ b[i].type = "G" =>
                           /\ b[i].k = Cut + 1
                           /\ After(a, n) + i - 1 - Lead(b) = SnapLen + 1
    BY Zenon DEF Fitting
  <2>1. b[i] = s[m + i] /\ m + i \in 1..Len(s) /\ m + i # 1
    BY <1>5, Zenon
  <2>2. After(a, n) + i - 1 - Lead(b) = n + (m + i) - 1 - Lead(s)
    BY <1>2, <1>4, <1>7, <1>8
  <2>3. ASSUME m + i = Len(s) PROVE i = Len(b)
    <3>1. i \in Nat /\ m \in Nat /\ Len(s) \in Nat /\ Len(b) \in Nat
      BY <1>1, <1>2
    <3> QED BY <1>2, <2>3, <3>1, LastIndex, Zenon
  <2> QED BY <2>1, <2>2, <2>3, Zenon DEF Fitting
<1>11. Final(a) => m = Len(s)
  <2>1. Final(a) => a[m] = s[m] /\ s[m].type \in {"J", "G", "Z"}
    BY <1>1 DEF Final
  <2> QED BY <2>1, Zenon DEF Fitting
<1>12. Final(a) => b = <<>> /\ Final(s)
  BY <1>1, <1>2, <1>3, <1>11 DEF Final
<1>13. Final(b) => Final(s)
  <2>1. b # <<>> => b[Len(b)] = s[Len(s)]
    BY SMTT(30), <1>1, <1>2, <1>3, <1>5
  <2> QED BY <1>3, <2>1, Zenon DEF Final
<1>14. Serves(b) => Serves(s)
  BY SMTT(30), <1>5 DEF Serves
<1> QED BY <1>2, <1>3, <1>7, <1>9, <1>10, <1>12, <1>13, <1>14, Zenon

(* The exchange adds a packet that continues the run.                       *)
LEMMA FitAppend ==
  ASSUME NEW s \in Seq(Packets), NEW n \in Nat, NEW d, NEW r,
         Fitting(s, n, d, r), ~Final(s), NEW e \in Packets, e.day = d,
         e.type \in {"A", "J", "H"} => s = <<>>,
         e.type \in {"S", "H", "Z"} => r = "itch",
         e.type \in {"P", "G"} => r = "glimpse",
         e.type = "A" => e.k = n,
         e.type = "S" => e.k = After(s, n),
         e.type = "G" => e.k = Cut + 1 /\ After(s, n) = SnapLen + 1,
         NEW t \in Seq(Packets), Len(t) = Len(s) + 1,
         \A i \in 1..Len(s) : t[i] = s[i], t[Len(s) + 1] = e
  PROVE  /\ Fitting(t, n, d, r)
         /\ After(t, n) = IF e.type \in {"A", "H"} THEN After(s, n)
                                                   ELSE After(s, n) + 1
         /\ t # <<>> /\ t[1] = IF s = <<>> THEN e ELSE s[1]
         /\ Final(t) <=> e.type \in {"J", "G", "Z"}
<1>1. Len(s) \in Nat /\ (s = <<>> <=> Len(s) = 0)
  BY SeqFacts
<1>2. /\ t \in Seq(Packets) /\ Len(t) = Len(s) + 1
      /\ \A i \in 1..Len(s) : t[i] = s[i]
      /\ t[Len(s) + 1] = e
  BY Zenon
<1>3. t # <<>>
  BY <1>1, <1>2, SeqFacts
<1>4. t[1] = IF s = <<>> THEN e ELSE s[1]
  BY <1>1, <1>2
<1>5. Lead(s) \in {0, 1} /\ (s # <<>> => Lead(t) = Lead(s))
      /\ (s = <<>> => Lead(t) = IF e.type \in {"A", "H"} THEN 1 ELSE 0)
      /\ (s = <<>> => Lead(s) = 0)
  BY <1>3, <1>4, Zenon DEF Lead
<1>6. After(t, n) = IF e.type \in {"A", "H"} THEN After(s, n) ELSE After(s, n) + 1
  <2>1. CASE s = <<>>
    BY <1>1, <1>2, <1>5, <2>1 DEF After
  <2>2. CASE s # <<>>
    <3>1. e.type \notin {"A", "H"}
      BY <2>2, Zenon
    <3>2. n + Len(t) - Lead(t) = n + Len(s) - Lead(s) + 1
      BY SMTT(30), <1>1, <1>2, <1>5, <2>2
    <3> QED BY <3>1, <3>2, Zenon DEF After
  <2> QED BY <2>1, <2>2, Zenon
<1>7. Final(t) <=> e.type \in {"J", "G", "Z"}
  BY <1>1, <1>2, <1>3, Zenon DEF Final
<1>8. Fitting(t, n, d, r)
  <2> SUFFICES ASSUME NEW i \in 1..Len(t)
               PROVE  /\ t[i].day = d
                      /\ t[i].type \in {"A", "J", "H"} => i = 1
                      /\ t[i].type \in {"J", "G", "Z"} => i = Len(t)
                      /\ t[i].type \in {"S", "H", "Z"} => r = "itch"
                      /\ t[i].type \in {"P", "G"} => r = "glimpse"
                      /\ t[i].type = "A" => t[i].k = n
                      /\ t[i].type = "S" => t[i].k = n + i - 1 - Lead(t)
                      /\ t[i].type = "G" => /\ t[i].k = Cut + 1
                                            /\ n + i - 1 - Lead(t) = SnapLen + 1
    BY Zenon DEF Fitting
  <2>1. CASE i \in 1..Len(s)
    <3>1. t[i] = s[i] /\ s # <<>> /\ Lead(t) = Lead(s)
      BY <1>1, <1>2, <1>5, <2>1
    <3>2. s[i].type \notin {"J", "G", "Z"}
      <4>1. i = Len(s) => s[i].type \notin {"J", "G", "Z"}
        BY <3>1, Zenon DEF Final
      <4> QED BY <2>1, <4>1, Zenon DEF Fitting
    <3> QED BY <2>1, <3>1, <3>2, Zenon DEF Fitting
  <2>2. CASE i = Len(s) + 1
    <3>1. t[i] = e /\ i = Len(t)
      BY <1>2, <2>2, Zenon
    <3>2. s = <<>> => i = 1
      BY <1>1, <2>2
    <3>3. e.type \in {"S", "G"} => n + i - 1 - Lead(t) = After(s, n)
      BY <1>1, <1>5, <2>2 DEF After
    <3> QED BY <3>1, <3>2, <3>3, Zenon
  <2> QED BY <1>1, <1>2, <2>1, <2>2
<1> QED BY <1>2, <1>3, <1>4, <1>6, <1>7, <1>8, Zenon

(* The client has dispatched the first packet.                              *)
LEMMA FitRest ==
  ASSUME NEW s \in Seq(Packets), NEW n \in Nat, NEW d, NEW r,
         Fitting(s, n, d, r), s # <<>>, NEW t \in Seq(Packets),
         Len(t) = Len(s) - 1, \A i \in 1..(Len(s) - 1) : t[i] = s[i + 1],
         NEW m, m = n + 1 - Lead(s)
  PROVE  /\ Fitting(t, m, d, r)
         /\ After(t, m) = After(s, n)
         /\ ~Answer(t) /\ (Final(t) => Final(s)) /\ (Serves(t) => Serves(s))
         /\ s[1].type \in {"J", "G", "Z"} => t = <<>> /\ Final(s)
         /\ s[1].type # "J" => Serves(s)
<1>1. /\ Len(s) >= 1 /\ Len(s) \in Nat /\ Len(t) = Len(s) - 1
      /\ \A i \in 1..(Len(s) - 1) : t[i] = s[i + 1]
  BY SeqFacts
<1>2. \A i \in 1..Len(t) : t[i] = s[i + 1] /\ i + 1 \in 1..Len(s) /\ i + 1 # 1
  BY <1>1
<1>3. (t = <<>> <=> Len(t) = 0) /\ Len(t) \in Nat
  BY <1>1, SeqFacts, Zenon
<1>4. t # <<>> => t[1].type \notin {"A", "J", "H"}
  BY <1>2, <1>3 DEF Fitting
<1>5. Lead(t) = 0 /\ ~Answer(t) /\ Lead(s) \in {0, 1}
  BY <1>4, Zenon DEF Lead, Answer
<1>6. After(t, m) = After(s, n)
  BY <1>1, <1>5 DEF After
<1>7. Fitting(t, m, d, r)
  <2> SUFFICES ASSUME NEW i \in 1..Len(t)
               PROVE  /\ t[i].day = d
                      /\ t[i].type \notin {"A", "J", "H"}
                      /\ t[i].type \in {"J", "G", "Z"} => i = Len(t)
                      /\ t[i].type \in {"S", "H", "Z"} => r = "itch"
                      /\ t[i].type \in {"P", "G"} => r = "glimpse"
                      /\ t[i].type = "S" => t[i].k = m + i - 1 - Lead(t)
                      /\ t[i].type = "G" => /\ t[i].k = Cut + 1
                                            /\ m + i - 1 - Lead(t) = SnapLen + 1
    BY Zenon DEF Fitting
  <2>1. t[i] = s[i + 1] /\ i + 1 \in 1..Len(s) /\ i + 1 # 1 /\ i \in Nat
    BY <1>2, <1>3
  <2>2. m + i - 1 - Lead(t) = n + (i + 1) - 1 - Lead(s)
    BY <1>5, <2>1
  <2>3. i + 1 = Len(s) => i = Len(t)
    BY <1>1, <2>1
  <2> QED BY <2>1, <2>2, <2>3, Zenon DEF Fitting
<1>8. Final(t) => Final(s)
  <2>1. t # <<>> => t[Len(t)] = s[Len(s)]
    <3>1. t # <<>> => Len(t) \in 1..Len(t) /\ Len(t) + 1 = Len(s)
      BY <1>1, <1>3
    <3> QED BY <1>2, <3>1, Zenon
  <2> QED BY <2>1, Zenon DEF Final
<1>9. Serves(t) => Serves(s)
  BY <1>2, Zenon DEF Serves
<1>10. s[1].type \in {"J", "G", "Z"} => Len(s) = 1
  BY <1>1 DEF Fitting
<1>11. s[1].type \in {"J", "G", "Z"} => t = <<>> /\ Final(s)
  BY <1>1, <1>3, <1>10 DEF Final
<1>12. s[1].type # "J" => Serves(s)
  BY <1>1 DEF Serves
<1> QED BY <1>1, <1>5, <1>6, <1>7, <1>8, <1>9, <1>11, <1>12, Zenon

-----------------------------------------------------------------------------
(* What a step does to the invariant, by the kind of step *)

LEMMA NoNetType ==
  ASSUME FeedAssumption
  PROVE  NoNet \in Nets
<1>1. [session |-> Blank, seq |-> 0] \in Logins
  BY DEF FeedAssumption, Logins, Blank
<1>2. <<>> \in Seq(Packets)
  OBVIOUS
<1> QED BY <1>1, <1>2, Flags, Zenon DEF NoNet, Nets

(* Nothing is under way. *)
LEMMA PipeEmpty ==
  ASSUME FeedAssumption, cl' \in Client, batch' = <<>>, net' = NoNet
  PROVE  PipeInv'
<1>1. 1 \in 1..MaxFeedDay
  BY DEF FeedAssumption
<1>2. cl'.seq \in Nat
  BY Zenon DEF Client
<1>3. /\ net'.wire = <<>> /\ net'.peer = "none"
  BY Zenon DEF NoNet
<1>4. After(batch', cl'.seq) = cl'.seq
  BY <1>2, FitEmpty, Zenon
<1>5. Pipe(1)'
  BY <1>2, <1>3, <1>4, FitEmpty, Zenon DEF Pipe, Replying
<1> QED BY <1>1, <1>5, Zenon DEF PipeInv

(* What Exact says moves with Data. *)
LEMMA ExactMoves ==
  ASSUME NEW c, NEW e, Data(e) = Data(c), Exact(c)
  PROVE  Exact(e)
<1>1. /\ e.role = c.role /\ e.session = c.session /\ e.seq = c.seq
      /\ e.base = c.base /\ e.snap = c.snap /\ e.live = c.live
      /\ e.printed = c.printed
  BY Zenon DEF Data
<1> QED BY <1>1, Zenon DEF Exact

LEMMA DataFields ==
  ASSUME NEW c, NEW e, Data(e) = Data(c)
  PROVE  /\ e.role = c.role /\ e.session = c.session /\ e.seq = c.seq
         /\ e.base = c.base /\ e.snap = c.snap /\ e.live = c.live
         /\ e.printed = c.printed
BY Zenon DEF Data

(* A callback of the connector that leaves it without a connection. *)
LEMMA Unconnected ==
  ASSUME FeedAssumption, FeedInv, ~busy, UNCHANGED <<setup, batch, busy, feedDay>>,
         NEW c \in Client, NEW n, Become(c, n), Data(c) = Data(cl), Life(c),
         c.conn # "CONNECTED",
         c.role = "glimpse" /\ c.conn \in {"IDLE", "CONNECTING"} => c.snap = 0
  PROVE  FeedInv'
<1>1. cl' = c /\ net' = NoNet
  BY Zenon DEF Become
<1>2. batch = <<>>
  BY Zenon DEF FeedInv, HandlerTyped
<1>3. PipeInv'
  BY <1>1, <1>2, PipeEmpty, Zenon
<1>4. Exact(c)
  BY ExactMoves, Zenon DEF FeedInv
<1>5. Exact(cl)'
  BY <1>1, <1>4, Zenon DEF Exact
<1>6. PhaseInv'
  BY <1>1, <1>2, FitEmpty, Zenon DEF PhaseInv, NoNet
<1>7. HandlerTyped'
  BY <1>1, <1>2, NoNetType, Zenon DEF FeedInv, HandlerTyped
<1> QED BY <1>1, <1>3, <1>5, <1>6, <1>7, Zenon DEF FeedInv

(* The last packet of a batch, after which nothing is left. *)
LEMMA Emptied ==
  ASSUME FeedAssumption, FeedInv, UNCHANGED <<setup, busy, feedDay>>, batch' = <<>>,
         NEW c \in Client, NEW n, Become(c, n), Life(c), Exact(c),
         c.conn # "CONNECTED" \/ c.role # cl.role,
         c.role = "glimpse" /\ c.conn \in {"IDLE", "CONNECTING"} => c.snap = 0
  PROVE  FeedInv'
<1>1. cl' = c /\ net' = NoNet
  BY Zenon DEF Become
<1>3. PipeInv'
  BY <1>1, PipeEmpty, Zenon
<1>5. Exact(cl)'
  BY <1>1, Zenon DEF Exact
<1>6. PhaseInv'
  BY <1>1, FitEmpty, Zenon DEF PhaseInv, NoNet
<1>7. HandlerTyped'
  BY <1>1, NoNetType DEF FeedInv, HandlerTyped
<1> QED BY <1>1, <1>3, <1>5, <1>6, <1>7, Zenon DEF FeedInv

-----------------------------------------------------------------------------
(* The callbacks of the connector *)

LEMMA RetryStep ==
  ASSUME FeedAssumption, FeedInv, Retry
  PROVE  FeedInv'
<1> DEFINE c == FeedAttemptConnect(cl)
<1>1. cl \in Client /\ Life(cl) /\ PhaseInv /\ cl.retry
  BY Zenon DEF FeedInv, HandlerTyped, Retry
<1>2. Alive(cl) /\ cl.conn = "IDLE"
  BY <1>1, Zenon DEF Life, Ended, Alive
<1>3. c = [cl EXCEPT !.attempts = @ + 1, !.conn = "CONNECTING", !.retry = FALSE]
  BY <1>2, Zenon DEF FeedAttemptConnect
<1>5. Become(c, net) /\ ~busy /\ UNCHANGED <<setup, batch, busy, feedDay>>
  BY Zenon DEF Retry
<1> HIDE DEF c
<1>4. /\ c \in Client /\ Data(c) = Data(cl) /\ c.conn = "CONNECTING" /\ ~c.retry
      /\ c.state = cl.state /\ c.told = cl.told /\ c.sess = cl.sess
      /\ c.watchdog = cl.watchdog /\ c.done = cl.done
  <2>1. cl.attempts + 1 \in Nat
    BY <1>1 DEF Client
  <2> QED BY <1>1, <1>3, <2>1, Flags, Zenon DEF Client, Data
<1>6. c.role = cl.role /\ c.snap = cl.snap
  BY <1>4, DataFields, Zenon
<1>7. Life(c)
  BY <1>2, <1>4, <1>6, Zenon DEF Life, Alive, Standing
<1>8. c.role = "glimpse" => c.snap = 0
  BY <1>1, <1>2, <1>6, Zenon DEF PhaseInv
<1> QED BY <1>4, <1>5, <1>7, <1>8, Unconnected, Zenon

LEMMA ConnectErrorStep ==
  ASSUME FeedAssumption, FeedInv, ConnectError
  PROVE  FeedInv'
<1> DEFINE b == CloseSocket(cl)
           c == FeedScheduleRetry(b)
<1>1. cl \in Client /\ Life(cl) /\ PhaseInv /\ cl.conn = "CONNECTING"
  BY Zenon DEF FeedInv, HandlerTyped, ConnectError
<1>2. Standing(cl)
  BY <1>1, Zenon DEF Life, Ended, Alive
<1>3. /\ b \in Client /\ Data(b) = Data(cl) /\ b.state = cl.state
      /\ b.told = cl.told /\ b.done = cl.done /\ b.watchdog = cl.watchdog
      /\ b.sess = cl.sess /\ b.conn = cl.conn
  BY <1>1, CloseFacts, Zenon
<1>4. Become(c, net) /\ ~busy /\ UNCHANGED <<setup, batch, busy, feedDay>>
  BY Zenon DEF ConnectError
<1> HIDE DEF b
<1>5. Standing(b) /\ b.conn # "STOPPED" /\ b.role = cl.role /\ b.snap = cl.snap
  BY <1>1, <1>2, <1>3, DataFields, Zenon DEF Standing
<1>6. /\ c \in Client /\ Data(c) = Data(b) /\ Life(c)
      /\ c.conn \in {"IDLE", "STOPPED"}
  BY <1>3, <1>5, ScheduleFacts, Zenon
<1> HIDE DEF c
<1>7. c.role = cl.role /\ c.snap = cl.snap
  BY <1>5, <1>6, DataFields, Zenon
<1>8. c.role = "glimpse" => c.snap = 0
  BY <1>1, <1>7, Zenon DEF PhaseInv
<1>9. Data(c) = Data(cl)
  BY <1>3, <1>6, Zenon
<1> QED BY <1>4, <1>6, <1>8, <1>9, Unconnected, Zenon

(* A disconnect of a connection, by whatever is noticed first. *)
LEMMA DisconnectStep ==
  ASSUME FeedAssumption, FeedInv, ~busy, UNCHANGED <<setup, batch, busy, feedDay>>,
         cl.conn = "CONNECTED", NEW n, Become(FeedHandleDisconnect(cl), n)
  PROVE  FeedInv'
<1> DEFINE c == FeedHandleDisconnect(cl)
<1>1. cl \in Client /\ Life(cl)
  BY Zenon DEF FeedInv, HandlerTyped
<1>2. Standing(cl)
  BY <1>1, Zenon DEF Life, Ended, Alive
<1>3. /\ c \in Client /\ Data(c) = Data(cl) /\ Life(c)
      /\ c.conn \in {"IDLE", "STOPPED"}
      /\ cl.role = "glimpse" => Ended(c)
  BY <1>1, <1>2, DisconnectFacts, Zenon
<1>4. Become(c, n)
  BY Zenon
<1> HIDE DEF c
<1>5. c.role = cl.role
  BY <1>3, DataFields, Zenon
<1>6. c.role = "glimpse" => c.conn = "STOPPED"
  BY <1>3, <1>5, Zenon DEF Ended
<1> QED BY <1>3, <1>4, <1>6, Unconnected, Zenon

LEMMA DisconnectSteps ==
  ASSUME FeedAssumption, FeedInv, Eof \/ SendFails \/ FeedPeerSilent
  PROVE  FeedInv'
<1>1. /\ ~busy /\ cl.conn = "CONNECTED" /\ UNCHANGED <<setup, batch, busy, feedDay>>
      /\ Become(FeedHandleDisconnect(cl), net)
  BY Zenon DEF Eof, SendFails, FeedPeerSilent, Reconnect
<1> QED BY <1>1, DisconnectStep, Zenon

LEMMA OnConnectedSendFailsStep ==
  ASSUME FeedAssumption, FeedInv, OnConnectedSendFails
  PROVE  FeedInv'
<1> DEFINE b == [FeedResetAndStart(cl) EXCEPT !.conn = "CONNECTED"]
           e == FeedHandleDisconnect(b)
           c == [e EXCEPT !.tick = TRUE]
<1>1. cl \in Client /\ Life(cl) /\ PhaseInv /\ cl.conn = "CONNECTING"
  BY Zenon DEF FeedInv, HandlerTyped, OnConnectedSendFails
<1>2. Standing(cl)
  BY <1>1, Zenon DEF Life, Ended, Alive
<1>3. /\ b \in Client /\ Data(b) = Data(cl) /\ b.state = cl.state
      /\ b.told = cl.told /\ b.done = cl.done /\ b.watchdog = cl.watchdog
      /\ b.sess = "LOGIN_SENT" /\ b.conn = "CONNECTED"
  BY <1>1, Flags, Zenon DEF FeedResetAndStart, Client, Data
<1>4. Become(c, net) /\ ~busy /\ UNCHANGED <<setup, batch, busy, feedDay>>
  BY Zenon DEF OnConnectedSendFails
<1> HIDE DEF b
<1>5. Standing(b) /\ b.role = cl.role /\ b.snap = cl.snap
  BY <1>2, <1>3, DataFields, Zenon DEF Standing, Terminal
<1>6. /\ e \in Client /\ Data(e) = Data(b) /\ Life(e)
      /\ e.conn \in {"IDLE", "STOPPED"}
  BY <1>3, <1>5, DisconnectFacts, Zenon
<1> HIDE DEF e
<1>7. /\ c \in Client /\ Data(c) = Data(e) /\ c.conn = e.conn
      /\ c.state = e.state /\ c.told = e.told /\ c.sess = e.sess
      /\ c.watchdog = e.watchdog /\ c.done = e.done /\ c.retry = e.retry
      /\ c.role = e.role
  BY <1>6, Flags, Zenon DEF Client, Data
<1> HIDE DEF c
<1>8. Life(c)
  BY <1>6, <1>7, Zenon DEF Life, Ended, Alive, Standing
<1>9. c.snap = cl.snap /\ c.role = cl.role /\ Data(c) = Data(cl)
  BY <1>3, <1>5, <1>6, <1>7, DataFields, Zenon
<1>10. c.role = "glimpse" => c.snap = 0
  BY <1>1, <1>9, Zenon DEF PhaseInv
<1> QED BY <1>4, <1>6, <1>7, <1>8, <1>9, <1>10, Unconnected, Zenon

LEMMA StrayTickStep ==
  ASSUME FeedAssumption, FeedInv, StrayTick
  PROVE  FeedInv'
<1> DEFINE c == [cl EXCEPT !.tick = FALSE]
<1>1. cl \in Client /\ Life(cl) /\ PhaseInv /\ cl.conn # "CONNECTED"
  BY Zenon DEF FeedInv, HandlerTyped, StrayTick
<1>2. Become(c, net) /\ ~busy /\ UNCHANGED <<setup, batch, busy, feedDay>>
  BY Zenon DEF StrayTick
<1>3. /\ c \in Client /\ Data(c) = Data(cl) /\ c.conn = cl.conn
      /\ c.state = cl.state /\ c.told = cl.told /\ c.sess = cl.sess
      /\ c.watchdog = cl.watchdog /\ c.done = cl.done /\ c.retry = cl.retry
      /\ c.role = cl.role /\ c.snap = cl.snap
  BY <1>1, Flags, Zenon DEF Client, Data
<1> HIDE DEF c
<1>4. Life(c)
  BY <1>1, <1>3, Zenon DEF Life, Ended, Alive, Standing
<1>5. c.role = "glimpse" /\ c.conn \in {"IDLE", "CONNECTING"} => c.snap = 0
  BY <1>1, <1>3, Zenon DEF PhaseInv
<1> QED BY <1>1, <1>2, <1>3, <1>4, <1>5, Unconnected, Zenon

LEMMA WatchdogStep ==
  ASSUME FeedAssumption, FeedInv, Watchdog
  PROVE  FeedInv'
<1> DEFINE b == [cl EXCEPT !.watchdog = FALSE]
           c == GlimpseFail(b)
<1>1. cl \in Client /\ Life(cl) /\ cl.watchdog
  BY Zenon DEF FeedInv, HandlerTyped, Watchdog
<1>2. Standing(cl) /\ ~cl.done
  BY <1>1, Zenon DEF Life, Ended, Alive, Standing
<1>3. Become(c, net) /\ ~busy /\ UNCHANGED <<setup, batch, busy, feedDay>>
  BY Zenon DEF Watchdog
<1>4. /\ b \in Client /\ Data(b) = Data(cl) /\ b.done = cl.done
      /\ b.state = cl.state /\ b.told = cl.told
  BY <1>1, Flags, Zenon DEF Client, Data
<1> HIDE DEF b
<1>5. c \in Client /\ Data(c) = Data(b) /\ Ended(c)
  BY <1>2, <1>4, GlimpseFailFacts, Zenon DEF Standing
<1> HIDE DEF c
<1> QED BY <1>3, <1>4, <1>5, Unconnected, Zenon DEF Life, Ended

(* stop() ends the handler, also when its logout meets a closed socket. *)
LEMMA HandlerStopFacts ==
  ASSUME NEW c \in Client, Life(c), NEW d \in HandlerStop(c)
  PROVE  d \in Client /\ Data(d) = Data(c) /\ Ended(d)
<1>1. "ENDED" \in Terminal
  BY Zenon DEF Terminal
<1>2. ASSUME NEW e \in Client, Data(e) = Data(c), d = Over(e, "ENDED"),
             e.conn = "STOPPED", ~e.retry, ~e.watchdog,
             Ended(e) \/ (e.state \notin Terminal /\ e.told = <<>>)
      PROVE  d \in Client /\ Data(d) = Data(c) /\ Ended(d)
  BY <1>1, <1>2, OverFacts, Zenon
<1>3. CASE c.role = "glimpse"
  <2> DEFINE e == GlimpseStop(c)
  <2>1. d = Over(e, "ENDED")
    BY <1>3, Zenon DEF HandlerStop
  <2>2. /\ e \in Client /\ Data(e) = Data(c) /\ e.state = c.state
        /\ e.told = c.told /\ e.watchdog = FALSE /\ e.conn = "STOPPED"
        /\ e.retry = FALSE
    BY GlimpseStopFacts, Zenon
  <2> HIDE DEF e
  <2>3. Ended(e) \/ (e.state \notin Terminal /\ e.told = <<>>)
    BY <2>2, Zenon DEF Life, Ended, Alive, Standing
  <2> QED BY <1>2, <2>1, <2>2, <2>3, Zenon
<1>4. CASE c.role # "glimpse"
  <2>1. PICK f \in Flushed(c) : d = Over(StopConnector(f), "ENDED")
    BY <1>4, Zenon DEF HandlerStop
  <2>2. /\ f \in Client /\ Data(f) = Data(c) /\ Life(f)
    <3>1. CASE f = c
      BY <3>1, Zenon
    <3>2. CASE f = FeedHandleDisconnect(c) /\ c.conn = "CONNECTED"
      <4>1. Standing(c)
        BY <3>2, Zenon DEF Life, Ended, Alive
      <4> QED BY <3>2, <4>1, DisconnectFacts, Zenon
    <3> QED BY <3>1, <3>2, Zenon DEF Flushed
  <2>3. f.role # "glimpse"
    BY <1>4, <2>2, DataFields, Zenon
  <2>4. ~f.watchdog
    BY <2>2, <2>3, Zenon DEF Life, Ended, Alive, Standing
  <2> DEFINE e == StopConnector(f)
  <2>5. /\ e \in Client /\ Data(e) = Data(f) /\ e.state = f.state
        /\ e.told = f.told /\ e.watchdog = f.watchdog /\ e.conn = "STOPPED"
        /\ e.retry = FALSE
    BY <2>2, StopFacts, Zenon
  <2>6. d = Over(e, "ENDED")
    BY <2>1, Zenon
  <2> HIDE DEF e
  <2>7. Ended(e) \/ (e.state \notin Terminal /\ e.told = <<>>)
    BY <2>2, <2>4, <2>5, Zenon DEF Life, Ended, Alive, Standing
  <2> QED BY <1>2, <2>2, <2>4, <2>5, <2>6, <2>7, Zenon
<1> QED BY <1>3, <1>4, Zenon

LEMMA FeedStopStep ==
  ASSUME FeedAssumption, FeedInv, FeedStop
  PROVE  FeedInv'
<1>1. PICK c \in HandlerStop(cl) : Become(c, net)
  BY Zenon DEF FeedStop
<1>2. cl \in Client /\ Life(cl)
  BY Zenon DEF FeedInv, HandlerTyped
<1>3. c \in Client /\ Data(c) = Data(cl) /\ Ended(c)
  BY <1>2, HandlerStopFacts, Zenon
<1>4. ~busy /\ UNCHANGED <<setup, batch, busy, feedDay>>
  BY Zenon DEF FeedStop
<1> QED BY <1>1, <1>3, <1>4, Unconnected, Zenon DEF Life, Ended

-----------------------------------------------------------------------------
(* The connection *)

LEMMA OnConnectedStep ==
  ASSUME FeedAssumption, FeedInv, OnConnected
  PROVE  FeedInv'
<1> DEFINE c == [FeedResetAndStart(cl) EXCEPT !.conn = "CONNECTED", !.tick = TRUE]
           n == [NoNet EXCEPT !.peer = "login",
                              !.login = [session |-> c.session, seq |-> c.seq]]
<1>1. /\ cl \in Client /\ Life(cl) /\ Exact(cl) /\ PhaseInv
      /\ cl.conn = "CONNECTING" /\ ~busy /\ batch = <<>>
      /\ UNCHANGED <<setup, batch, busy, feedDay>> /\ feedDay \in 1..MaxFeedDay
  BY Zenon DEF FeedInv, HandlerTyped, OnConnected
<1>2. Standing(cl) /\ ~cl.retry
  BY <1>1, Zenon DEF Life, Ended, Alive
<1>3. Become(c, n)
  BY Zenon DEF OnConnected
<1>4. /\ c \in Client /\ Data(c) = Data(cl) /\ c.conn = "CONNECTED" /\ c.tick
      /\ c.state = cl.state /\ c.told = cl.told /\ c.sess = "LOGIN_SENT"
      /\ c.watchdog = cl.watchdog /\ c.done = cl.done /\ c.retry = cl.retry
      /\ c.role = cl.role
  BY <1>1, Flags, Zenon DEF FeedResetAndStart, Client, Data
<1> HIDE DEF c
<1>5. c.session \in 0..MaxFeedDay /\ c.seq \in Nat
  BY <1>4, Zenon DEF Client
<1>6. [session |-> c.session, seq |-> c.seq] \in Logins
  BY <1>5, Zenon DEF Logins
<1>7. NoNet \in Nets /\ NoNet.wire = <<>> /\ NoNet.pos = 1
  BY NoNetType, Zenon DEF NoNet
<1>8. /\ n \in Nets /\ n.peer = "login" /\ n.wire = <<>> /\ n.pos = 1
      /\ n.login = [session |-> c.session, seq |-> c.seq]
  BY <1>6, <1>7, Zenon DEF Nets
<1> HIDE DEF n
<1>9. cl' = c /\ net' = n
  BY <1>3, <1>4, Zenon DEF Become
<1>10. Life(c)
  BY <1>2, <1>4, Zenon DEF Life, Alive, Standing, Terminal
<1>11. Exact(cl)'
  <2>1. Exact(c)
    BY <1>1, <1>4, ExactMoves, Zenon
  <2> QED BY <1>1, <1>9, <2>1, Zenon DEF Exact
<1>12. PhaseInv'
  <2>1. c.role = "glimpse" => c.snap = 0
    BY <1>1, <1>4, DataFields DEF PhaseInv
  <2> QED BY <1>1, <1>4, <1>8, <1>9, <2>1, Zenon DEF PhaseInv
<1>13. After(batch', cl'.seq) = cl'.seq
  BY <1>1, <1>5, <1>9, FitEmpty, Zenon
<1>14. Pipe(feedDay)'
  BY <1>1, <1>8, <1>9, <1>13, FitEmpty, Zenon DEF Pipe, Replying
<1>15. PipeInv'
  BY <1>1, <1>14, Zenon DEF PipeInv
<1>16. HandlerTyped'
  BY <1>1, <1>4, <1>8, <1>9, Zenon DEF FeedInv, HandlerTyped
<1> QED BY <1>9, <1>10, <1>11, <1>12, <1>15, <1>16, Zenon DEF FeedInv

(* The pipe is about the connection and the counters only. *)
LEMMA PipeSame ==
  ASSUME PipeInv, UNCHANGED <<batch, net, feedDay>>,
         cl'.role = cl.role, cl'.seq = cl.seq, cl'.session = cl.session
  PROVE  PipeInv'
<1>1. PICK d \in 1..MaxFeedDay : Pipe(d)
  BY Zenon DEF PipeInv
<1>2. Joined(d)' <=> Joined(d)
  BY Zenon DEF Joined
<1>3. Replying' <=> Replying
  BY Zenon DEF Replying
<1>4. Pipe(d)'
  BY <1>1, <1>2, <1>3, Zenon DEF Pipe
<1> QED BY <1>4, Zenon DEF PipeInv

LEMMA RecvDoneStep ==
  ASSUME FeedAssumption, FeedInv, RecvDone
  PROVE  FeedInv'
<1> DEFINE b == IF cl.sess = "LIVE" THEN [cl EXCEPT !.attempts = 0] ELSE cl
           c == IF cl.sess \in {"ENDED", "FAILED"} THEN StopConnector(b) ELSE b
<1>1. /\ cl \in Client /\ Life(cl) /\ Exact(cl) /\ PhaseInv /\ PipeInv
      /\ batch = <<>> /\ UNCHANGED <<setup, batch, feedDay>> /\ ~busy'
      /\ Become(c, net)
  BY Zenon DEF FeedInv, HandlerTyped, RecvDone
<1>2. /\ b \in Client /\ Data(b) = Data(cl) /\ b.conn = cl.conn
      /\ b.state = cl.state /\ b.told = cl.told /\ b.sess = cl.sess
      /\ b.watchdog = cl.watchdog /\ b.done = cl.done /\ b.retry = cl.retry
      /\ b.tick = cl.tick /\ b.role = cl.role
  BY <1>1, Zenon DEF Client, Data
<1> HIDE DEF b
<1>3. /\ c \in Client /\ Data(c) = Data(cl) /\ c.conn = cl.conn /\ Life(c)
  <2>1. Life(b)
    BY <1>1, <1>2, Zenon DEF Life, Ended, Alive, Standing
  <2>2. CASE cl.sess \in {"ENDED", "FAILED"}
    <3>1. Ended(b)
      BY <1>2, <2>1, <2>2, Zenon DEF Life, Alive, Standing, Terminal
    <3>2. /\ c \in Client /\ Data(c) = Data(b) /\ c.conn = "STOPPED" /\ ~c.retry
          /\ c.state = b.state /\ c.told = b.told /\ c.watchdog = b.watchdog
      BY <1>2, <2>2, StopFacts, Zenon
    <3> QED BY <1>2, <3>1, <3>2, Zenon DEF Life, Ended
  <2>3. CASE cl.sess \notin {"ENDED", "FAILED"}
    BY <1>2, <2>1, <2>3, Zenon
  <2> QED BY <2>2, <2>3, Zenon
<1> HIDE DEF c
<1>4. /\ c.role = cl.role /\ c.seq = cl.seq /\ c.session = cl.session
      /\ c.snap = cl.snap
  BY <1>3, DataFields, Zenon
<1>5. cl' = c /\ net' = net
  BY <1>1, <1>3, <1>4, Zenon DEF Become, PhaseInv
<1>6. PipeInv'
  BY <1>1, <1>4, <1>5, PipeSame, Zenon
<1>7. Exact(cl)'
  <2>1. Exact(c)
    BY <1>1, <1>3, ExactMoves, Zenon
  <2> QED BY <1>1, <1>5, <2>1, Zenon DEF Exact
<1>8. PhaseInv'
  BY <1>1, <1>3, <1>4, <1>5, Zenon DEF PhaseInv
<1>9. HandlerTyped'
  BY <1>1, <1>3, <1>5, Zenon DEF FeedInv, HandlerTyped
<1> QED BY <1>3, <1>5, <1>6, <1>7, <1>8, <1>9, Zenon DEF FeedInv

(* What recv leaves of the pipe. *)
LEMMA PipeRecv ==
  ASSUME HandlerTyped, NEW d \in 1..MaxFeedDay, Pipe(d), batch = <<>>,
         UNCHANGED feedDay, net.wire # <<>>, NEW a, NEW b,
         Fitting(a, cl.seq, d, cl.role), Serves(a) => Serves(net.wire),
         /\ Fitting(b, After(a, cl.seq), d, cl.role)
         /\ After(b, After(a, cl.seq)) = After(net.wire, cl.seq)
         /\ a # <<>> /\ a[1] = net.wire[1]
         /\ Final(a) => b = <<>>
         /\ ~Answer(b)
         /\ Final(b) => Final(net.wire)
         /\ Final(a) => Final(net.wire)
         /\ Serves(b) => Serves(net.wire),
         batch' = a, net'.wire = b, net'.peer = net.peer, net'.pos = net.pos,
         net'.dark = net.dark,
         cl'.role = cl.role, cl'.seq = cl.seq, cl'.session = cl.session
  PROVE  Pipe(d)'
<1>1. cl.seq \in Nat /\ net.wire \in Seq(Packets)
  BY Zenon DEF HandlerTyped, Client, Nets
<1>2. After(batch, cl.seq) = cl.seq
  BY <1>1, FitEmpty, Zenon
<1>6. Replying' <=> Replying
  BY Zenon DEF Replying
<1>7. cl.role = "itch" /\ (Serves(a) \/ Serves(b) \/ Replying) => Joined(d)
  BY Zenon DEF Pipe
<1>8. Joined(d) => Joined(d)'
  BY Zenon DEF Joined
<1>9. net.peer \in {"replay", "snapshot"} => ~Final(net.wire)
  BY Zenon DEF Pipe
<1>10. Replying => net.pos = After(net.wire, cl.seq) /\ d = feedDay
  BY <1>2, Zenon DEF Pipe
<1> QED BY <1>6, <1>7, <1>8, <1>9, <1>10, Zenon DEF Pipe

LEMMA RecvStep ==
  ASSUME FeedAssumption, FeedInv, Recv
  PROVE  FeedInv'
<1>1. PICK m \in 1..Len(net.wire) :
        /\ batch' = SubSeq(net.wire, 1, m)
        /\ Become([cl EXCEPT !.heard = TRUE],
                  [net EXCEPT !.wire = SubSeq(@, m + 1, Len(@))])
  BY Zenon DEF Recv
<1> DEFINE c == [cl EXCEPT !.heard = TRUE]
           a == SubSeq(net.wire, 1, m)
           b == SubSeq(net.wire, m + 1, Len(net.wire))
           n == [net EXCEPT !.wire = b]
<1>2. /\ cl \in Client /\ net \in Nets /\ Life(cl) /\ Exact(cl) /\ PhaseInv
      /\ cl.conn = "CONNECTED" /\ batch = <<>> /\ net.wire # <<>>
      /\ UNCHANGED <<setup, feedDay>> /\ busy'
  BY Zenon DEF FeedInv, HandlerTyped, Recv
<1>3. /\ c \in Client /\ Data(c) = Data(cl) /\ c.conn = cl.conn
      /\ c.state = cl.state /\ c.told = cl.told /\ c.sess = cl.sess
      /\ c.watchdog = cl.watchdog /\ c.done = cl.done /\ c.retry = cl.retry
      /\ c.tick = cl.tick /\ c.role = cl.role
  BY <1>2, Flags, Zenon DEF Client, Data
<1>4. batch' = a /\ Become(c, n)
  BY <1>1, Zenon
<1>5. net.wire \in Seq(Packets)
  BY <1>2, Zenon DEF Nets
<1>6. /\ a \in Seq(Packets) /\ Len(a) = m /\ \A j \in 1..m : a[j] = net.wire[j]
  BY <1>5, SeqFacts
<1>7. /\ b \in Seq(Packets) /\ Len(b) = Len(net.wire) - m
      /\ \A j \in 1..(Len(net.wire) - m) : b[j] = net.wire[m + j]
  BY <1>5, RestFacts, Zenon
<1>8. PICK d \in 1..MaxFeedDay : Pipe(d)
  BY Zenon DEF FeedInv, PipeInv
<1> HIDE DEF c
<1>9. /\ Fitting(a, cl.seq, d, cl.role) /\ (Serves(a) => Serves(net.wire))
      /\ Fitting(b, After(a, cl.seq), d, cl.role)
      /\ After(b, After(a, cl.seq)) = After(net.wire, cl.seq)
      /\ a # <<>> /\ a[1] = net.wire[1]
      /\ Final(a) => b = <<>>
      /\ ~Answer(b)
      /\ Final(b) => Final(net.wire)
      /\ Final(a) => Final(net.wire)
      /\ Serves(b) => Serves(net.wire)
  <2>1. cl.seq \in Nat
    BY <1>2, Zenon DEF Client
  <2>2. After(batch, cl.seq) = cl.seq
    BY <1>2, <2>1, FitEmpty, Zenon
  <2>3. Fitting(net.wire, cl.seq, d, cl.role)
    BY <1>8, <2>2, Zenon DEF Pipe
  <2>4. m \in 0..Len(net.wire)
    OBVIOUS
  <2>5. Fitting(a, cl.seq, d, cl.role) /\ (Serves(a) => Serves(net.wire))
    BY <1>5, <2>3, <2>4, FitPrefix, Zenon
  <2> DEFINE w == net.wire
             q == cl.seq
             r == cl.role
  <2>6. /\ w \in Seq(Packets) /\ q \in Nat /\ Fitting(w, q, d, r) /\ m \in 1..Len(w)
        /\ a \in Seq(Packets) /\ Len(a) = m /\ \A j \in 1..m : a[j] = w[j]
        /\ b \in Seq(Packets) /\ Len(b) = Len(w) - m
        /\ \A j \in 1..(Len(w) - m) : b[j] = w[m + j]
    BY <1>5, <1>6, <1>7, <2>1, <2>3, Zenon
  <2> HIDE DEF w, q, r, a, b
  <2>7. /\ Fitting(b, After(a, q), d, r)
        /\ After(b, After(a, q)) = After(w, q)
        /\ a # <<>> /\ a[1] = w[1]
        /\ Final(a) => b = <<>>
        /\ ~Answer(b)
        /\ Final(b) => Final(w)
        /\ Final(a) => Final(w)
        /\ Serves(b) => Serves(w)
    BY <2>6, FitSplit, Zenon
  <2> QED BY <2>5, <2>7, Zenon DEF w, q, r
<1> HIDE DEF a, b
<1>10. /\ n \in Nets /\ n.wire = b /\ n.peer = net.peer /\ n.pos = net.pos
       /\ n.dark = net.dark /\ n.login = net.login
  BY <1>2, <1>7, Zenon DEF Nets
<1> HIDE DEF n
<1>11. cl' = c /\ net' = n
  BY <1>2, <1>3, <1>4, Zenon DEF Become
<1>12. c.seq = cl.seq /\ c.session = cl.session /\ c.snap = cl.snap
  BY <1>3, DataFields, Zenon
<1>13. Pipe(d)'
  <2>1. HandlerTyped
    BY Zenon DEF FeedInv
  <2> QED BY <1>2, <1>3, <1>4, <1>8, <1>9, <1>10, <1>11, <1>12, <2>1, PipeRecv, Zenon
<1>14. Exact(cl)'
  <2>1. Exact(c)
    BY <1>2, <1>3, ExactMoves, Zenon
  <2> QED BY <1>2, <1>11, <2>1, Zenon DEF Exact
<1>15. PhaseInv'
  BY <1>2, <1>3, <1>4, <1>10, <1>11, <1>12, Zenon DEF PhaseInv
<1>16. Life(c)
  BY <1>2, <1>3, Zenon DEF Life, Ended, Alive, Standing
<1>17. HandlerTyped'
  BY <1>2, <1>3, <1>4, <1>6, <1>10, <1>11, Zenon DEF FeedInv, HandlerTyped
<1> QED BY <1>11, <1>13, <1>14, <1>15, <1>16, <1>17, Zenon DEF FeedInv, PipeInv

-----------------------------------------------------------------------------
(* The packets of a batch *)

(* The pipe once the first packet of the batch is dispatched and counted. *)
LEMMA PipeDispatch ==
  ASSUME HandlerTyped, NEW d \in 1..MaxFeedDay, Pipe(d), batch # <<>>,
         batch[1].type # "J", batch' = Tail(batch), UNCHANGED feedDay,
         net' \in {net, NoNet}, cl'.role = cl.role,
         cl'.seq = cl.seq + 1 - Lead(batch),
         cl'.session = IF batch[1].type = "A" THEN d ELSE cl.session
  PROVE  Pipe(d)' /\ batch' \in Seq(Packets) /\ ~Answer(batch')
<1> DEFINE s == batch
           t == batch'
           n == cl.seq
           m == cl'.seq
           r == cl.role
<1>1. s \in Seq(Packets) /\ n \in Nat /\ Fitting(s, n, d, r) /\ s # <<>>
      /\ m = n + 1 - Lead(s)
  BY Zenon DEF HandlerTyped, Client, Pipe
<1>2. /\ t \in Seq(Packets) /\ Len(t) = Len(s) - 1
      /\ \A i \in 1..(Len(s) - 1) : t[i] = s[i + 1]
  BY <1>1, TailFacts, Zenon
<1> HIDE DEF s, t, n, m, r
<1>3. /\ Fitting(t, m, d, r)
      /\ After(t, m) = After(s, n)
      /\ ~Answer(t) /\ (Final(t) => Final(s)) /\ (Serves(t) => Serves(s))
      /\ s[1].type # "J" => Serves(s)
  BY SMTT(30), <1>1, <1>2, FitRest
<1>4. Serves(s)
  BY <1>3, Zenon DEF s
<1>5. /\ Fitting(net.wire, After(s, n), d, r)
      /\ Final(s) => net.wire = <<>>
      /\ ~Answer(net.wire)
      /\ net.peer \in {"replay", "snapshot"} => ~Final(s) /\ ~Final(net.wire)
      /\ Replying => net.pos = After(net.wire, After(s, n)) /\ d = feedDay
      /\ r = "itch" => Joined(d)
  BY <1>4, Zenon DEF Pipe, s, n, r
<1>6. r = "itch" => Joined(d)'
  <2> SUFFICES ASSUME r = "itch" PROVE Joined(d)'
    BY Zenon
  <2>1. cl'.session = d
    BY <1>5, Zenon DEF Joined, s, r
  <2> QED BY <1>3, <2>1, Zenon DEF Joined, Answer, t
<1>7. CASE net' = net
  <2>1. Replying' <=> Replying
    BY <1>7, Zenon DEF Replying
  <2>2. Pipe(d)'
    BY <1>3, <1>5, <1>6, <1>7, <2>1, Zenon DEF Pipe, t, m, r
  <2> QED BY <1>2, <1>3, <2>2, Zenon DEF t
<1>8. CASE net' = NoNet
  <2>1. net'.wire = <<>> /\ net'.peer = "none"
    BY <1>8, Zenon DEF NoNet
  <2>2. Pipe(d)'
    BY <1>3, <1>5, <1>6, <2>1, FitEmpty, Zenon DEF Pipe, Replying, t, m, r
  <2> QED BY <1>2, <1>3, <2>2, Zenon DEF t
<1> QED BY <1>7, <1>8, Zenon

(* What the packet that is dispatched says. *)
LEMMA FirstPacket ==
  ASSUME FeedInv, NEW d \in 1..MaxFeedDay, Pipe(d), busy, batch # <<>>
  PROVE  LET p == batch[1]
         IN /\ Head(batch) = p /\ p \in Packets /\ p.day = d
            /\ p.type \in {"S", "H", "Z"} => cl.role = "itch"
            /\ p.type \in {"P", "G"} => cl.role = "glimpse"
            /\ p.type = "A" => p.k = cl.seq
            /\ p.type = "S" => p.k = cl.seq
            /\ p.type = "G" => p.k = Cut + 1 /\ cl.seq = SnapLen + 1
            /\ p.type \in {"J", "G", "Z"} => Tail(batch) = <<>>
            /\ p.type \in {"A", "J", "P", "G"} => cl.conn = "CONNECTED" /\ Alive(cl)
            /\ p.type \in {"S", "H", "Z"} => cl.session = d
            /\ Lead(batch) = IF p.type \in {"A", "H"} THEN 1 ELSE 0
            /\ net.peer # "login"
<1> DEFINE p == batch[1]
<1>1. batch \in Seq(Packets) /\ cl \in Client /\ Life(cl) /\ PhaseInv
  BY Zenon DEF FeedInv, HandlerTyped
<1>2. /\ Len(batch) \in Nat /\ Len(batch) >= 1 /\ Head(batch) = p /\ p \in Packets
      /\ Tail(batch) \in Seq(Packets) /\ Len(Tail(batch)) = Len(batch) - 1
  BY <1>1, TailFacts, SeqFacts
<1>3. Lead(batch) = IF p.type \in {"A", "H"} THEN 1 ELSE 0
  BY Zenon DEF Lead
<1>4. 1 \in 1..Len(batch) /\ cl.seq \in Nat
  BY <1>1, <1>2 DEF Client
<1>5. Fitting(batch, cl.seq, d, cl.role)
  BY Zenon DEF Pipe
<1>6. /\ p.day = d
      /\ p.type \in {"J", "G", "Z"} => 1 = Len(batch)
      /\ p.type \in {"S", "H", "Z"} => cl.role = "itch"
      /\ p.type \in {"P", "G"} => cl.role = "glimpse"
      /\ p.type = "A" => p.k = cl.seq
      /\ p.type = "S" => p.k = cl.seq + 1 - 1 - Lead(batch)
      /\ p.type = "G" => p.k = Cut + 1 /\ cl.seq + 1 - 1 - Lead(batch) = SnapLen + 1
  BY <1>4, <1>5, Zenon DEF Fitting
<1>7. p.type = "S" => p.k = cl.seq
  BY <1>3, <1>4, <1>6
<1>8. p.type = "G" => p.k = Cut + 1 /\ cl.seq = SnapLen + 1
  BY <1>3, <1>4, <1>6
<1>9. p.type \in {"J", "G", "Z"} => Tail(batch) = <<>>
  BY <1>2, <1>6, SeqFacts
<1>10. p.type \in {"A", "J", "P", "G"} => cl.conn = "CONNECTED"
  BY <1>1, <1>6, Zenon DEF PhaseInv, Answer
<1>11. cl.conn = "CONNECTED" => Alive(cl)
  BY <1>1, Zenon DEF Life, Ended
<1>12. p.type \in {"S", "H", "Z"} => cl.session = d
  <2>1. p.type \in {"S", "H", "Z"} => Serves(batch)
    BY <1>4, Zenon DEF Serves
  <2> QED BY <1>6, <2>1, Zenon DEF Pipe, Joined
<1>13. net.peer # "login"
  BY <1>1, Zenon DEF PhaseInv
<1> QED BY <1>2, <1>3, <1>6, <1>7, <1>8, <1>9, <1>10, <1>11, <1>12, <1>13, Zenon

(* A packet of a batch that goes on. *)
LEMMA Counted ==
  ASSUME FeedAssumption, FeedInv, NEW d \in 1..MaxFeedDay, Pipe(d), busy,
         batch # <<>>, batch[1].type # "J",
         batch' = Tail(batch), UNCHANGED <<setup, busy, feedDay>>,
         NEW c \in Client, Become(c, net), Life(c), Exact(c), c.role = cl.role,
         c.seq = cl.seq + 1 - Lead(batch),
         c.session = IF batch[1].type = "A" THEN d ELSE cl.session,
         c.conn \in {cl.conn, "STOPPED"}, c.role = "glimpse" => c.conn = cl.conn
  PROVE  FeedInv'
<1>1. /\ HandlerTyped /\ PhaseInv /\ cl \in Client
  BY Zenon DEF FeedInv, HandlerTyped
<1>2. cl' = c /\ net' = IF c.conn = "CONNECTED" THEN net ELSE NoNet
  BY Zenon DEF Become
<1>3. Pipe(d)' /\ batch' \in Seq(Packets) /\ ~Answer(batch')
  BY <1>1, <1>2, PipeDispatch, Zenon
<1>4. Exact(cl)'
  BY <1>2, Zenon DEF Exact
<1>5. net.peer # "login" /\ (cl.role = "glimpse" => cl.conn = "CONNECTED")
  BY <1>1, Zenon DEF PhaseInv
<1>6. PhaseInv'
  <2>1. net' = net \/ net'.peer = "none"
    BY <1>2, Zenon DEF NoNet
  <2> QED BY <1>1, <1>2, <1>3, <1>5, <2>1, Zenon DEF PhaseInv
<1>7. HandlerTyped'
  BY <1>1, <1>2, <1>3, NoNetType, Zenon DEF HandlerTyped
<1> QED BY <1>2, <1>3, <1>4, <1>6, <1>7, Zenon DEF FeedInv, PipeInv

LEMMA LoginAcceptedStep ==
  ASSUME FeedAssumption, FeedInv, FeedOnLoginAccepted
  PROVE  FeedInv'
<1>1. PICK d \in 1..MaxFeedDay : Pipe(d)
  BY Zenon DEF FeedInv, PipeInv
<1>2. /\ busy /\ batch # <<>> /\ Head(batch).type = "A" /\ batch' = Tail(batch)
      /\ UNCHANGED <<setup, busy, feedDay>> /\ cl \in Client /\ Exact(cl)
  BY Zenon DEF FeedOnLoginAccepted, Packet, Dispatched, FeedInv, HandlerTyped
<1>3. /\ Head(batch) = batch[1] /\ batch[1].day = d /\ batch[1].k = cl.seq
      /\ cl.conn = "CONNECTED" /\ Alive(cl) /\ Lead(batch) = 1
  BY <1>1, <1>2, FirstPacket, Zenon
<1> DEFINE st == IF cl.role = "itch" THEN "LIVE" ELSE cl.state
           c == [cl EXCEPT !.session = d, !.seq = cl.seq, !.sess = "LIVE",
                           !.state = st]
<1>4. Become(c, net)
  BY <1>3, Zenon DEF FeedOnLoginAccepted
<1>10. st \in States /\ st \in {cl.state, "LIVE"} /\ d \in 0..MaxFeedDay
  BY <1>2 DEF Client, States, FeedAssumption
<1> HIDE DEF st
<1>5. /\ c \in Client /\ c.conn = cl.conn /\ c.role = cl.role /\ c.seq = cl.seq
      /\ c.session = d /\ c.live = cl.live /\ c.base = cl.base
      /\ c.snap = cl.snap /\ c.printed = cl.printed /\ c.told = cl.told
      /\ c.sess = "LIVE" /\ c.watchdog = cl.watchdog /\ c.done = cl.done
      /\ c.retry = cl.retry /\ c.tick = cl.tick
      /\ c.state \in {cl.state, "LIVE"}
  BY <1>2, <1>10, Zenon DEF Client
<1> HIDE DEF c
<1>6. Life(c)
  BY <1>3, <1>5, Zenon DEF Life, Alive, Standing, Terminal
<1>7. cl.live # <<>> => cl.session = d
  <2>1. cl.live # <<>> => cl.role = "itch" /\ cl.session # Blank
    BY <1>2, Zenon DEF Exact, Client
  <2>2. Serves(batch)
    <3>1. 1 \in 1..Len(batch)
      BY <1>2, SeqFacts DEF FeedInv, HandlerTyped
    <3> QED BY <1>2, <1>3, <3>1, Zenon DEF Serves
  <2>3. cl.role = "itch" => cl.session \in {Blank, d}
    BY <1>1, <1>2, <1>3, <2>2, Zenon DEF Pipe, Joined
  <2> QED BY <2>1, <2>3, Zenon
<1>8. Exact(c)
  <2>1. \A i \in 1..Len(c.live) :
          c.live[i] = [day |-> c.session, k |-> c.base + i - 1]
    <3>1. CASE cl.live = <<>>
      BY <1>5, <3>1
    <3>2. CASE cl.live # <<>>
      BY <1>2, <1>5, <1>7, <3>2, Zenon DEF Exact
    <3> QED BY <3>1, <3>2, Zenon
  <2>2. c.session # Blank
    BY <1>5 DEF Blank
  <2> QED BY <1>2, <1>5, <2>1, <2>2, Zenon DEF Exact
<1>9. c.seq = cl.seq + 1 - Lead(batch)
  BY <1>2, <1>3, <1>5 DEF Client
<1> QED BY <1>1, <1>2, <1>3, <1>4, <1>5, <1>6, <1>8, <1>9, Counted, Zenon

LEMMA LoginRejectedStep ==
  ASSUME FeedAssumption, FeedInv, FeedOnLoginRejected
  PROVE  FeedInv'
<1>1. PICK d \in 1..MaxFeedDay : Pipe(d)
  BY Zenon DEF FeedInv, PipeInv
<1>2. /\ busy /\ batch # <<>> /\ Head(batch).type = "J" /\ batch' = Tail(batch)
      /\ UNCHANGED <<setup, busy, feedDay>> /\ cl \in Client /\ Exact(cl)
  BY Zenon DEF FeedOnLoginRejected, Packet, Dispatched, FeedInv, HandlerTyped
<1>3. Alive(cl) /\ Tail(batch) = <<>>
  BY <1>1, <1>2, FirstPacket, Zenon
<1> DEFINE b == [cl EXCEPT !.sess = "FAILED"]
           c == IF cl.role = "glimpse" THEN SnapshotLost(b) ELSE Over(b, "FAILED")
<1>4. Become(c, net)
  BY Zenon DEF FeedOnLoginRejected
<1>5. "FAILED" \in Terminal
  BY Zenon DEF Terminal
<1>6. /\ b \in Client /\ Data(b) = Data(cl) /\ b.state = cl.state
      /\ b.told = cl.told /\ b.done = cl.done /\ b.watchdog = cl.watchdog
  BY <1>2, <1>5, Zenon DEF Client, Data
<1> HIDE DEF b
<1>7. c \in Client /\ Data(c) = Data(cl) /\ Ended(c)
  <2>1. CASE cl.role = "glimpse"
    BY <1>3, <1>6, <2>1, GlimpseFailFacts, Zenon DEF SnapshotLost, Alive, Standing
  <2>2. CASE cl.role # "glimpse"
    BY <1>3, <1>5, <1>6, <2>2, OverFacts DEF Alive, Standing
  <2> QED BY <2>1, <2>2, Zenon
<1> HIDE DEF c
<1>8. Exact(c)
  BY <1>2, <1>7, ExactMoves, Zenon
<1> QED BY <1>2, <1>3, <1>4, <1>7, <1>8, Emptied, Zenon DEF Life, Ended

LEMMA EndOfSessionStep ==
  ASSUME FeedAssumption, FeedInv, FeedOnEndOfSession
  PROVE  FeedInv'
<1>1. PICK d \in 1..MaxFeedDay : Pipe(d)
  BY Zenon DEF FeedInv, PipeInv
<1>2. /\ busy /\ batch # <<>> /\ Head(batch).type = "Z" /\ batch' = Tail(batch)
      /\ UNCHANGED <<setup, busy, feedDay>> /\ cl \in Client /\ Exact(cl) /\ Life(cl)
  BY Zenon DEF FeedOnEndOfSession, Packet, Dispatched, FeedInv, HandlerTyped
<1>3. cl.role = "itch" /\ Tail(batch) = <<>>
  BY <1>1, <1>2, FirstPacket, Zenon
<1> DEFINE b == [cl EXCEPT !.sess = "ENDED"]
           c == Over(b, "ENDED")
<1>4. Become(c, net)
  BY Zenon DEF FeedOnEndOfSession
<1>5. "ENDED" \in Terminal
  BY Zenon DEF Terminal
<1>6. /\ b \in Client /\ Data(b) = Data(cl) /\ b.state = cl.state
      /\ b.told = cl.told /\ b.watchdog = cl.watchdog /\ b.conn = cl.conn
      /\ b.retry = cl.retry
  BY <1>2, <1>5, Zenon DEF Client, Data
<1> HIDE DEF b
<1>7. Ended(b) \/ (b.state \notin Terminal /\ b.told = <<>> /\ ~b.watchdog)
  BY <1>2, <1>3, <1>6, Zenon DEF Life, Ended, Alive, Standing
<1>8. c \in Client /\ Data(c) = Data(cl) /\ Ended(c)
  BY <1>5, <1>6, <1>7, OverFacts, Zenon
<1> HIDE DEF c
<1>9. Exact(c)
  BY <1>2, <1>8, ExactMoves, Zenon
<1> QED BY <1>2, <1>3, <1>4, <1>8, <1>9, Emptied, Zenon DEF Life, Ended

LEMMA HeartbeatStep ==
  ASSUME FeedAssumption, FeedInv, FeedOnHeartbeat
  PROVE  FeedInv'
<1>1. PICK d \in 1..MaxFeedDay : Pipe(d)
  BY Zenon DEF FeedInv, PipeInv
<1>2. /\ busy /\ batch # <<>> /\ Head(batch).type = "H" /\ batch' = Tail(batch)
      /\ UNCHANGED <<setup, busy, feedDay, cl, net>>
      /\ cl \in Client /\ Exact(cl) /\ Life(cl) /\ PhaseInv
  BY Zenon DEF FeedOnHeartbeat, Packet, Dispatched, FeedInv, HandlerTyped
<1>3. Lead(batch) = 1 /\ Head(batch) = batch[1]
  BY <1>1, <1>2, FirstPacket, Zenon
<1>4. Become(cl, net)
  BY <1>2, Zenon DEF Become, PhaseInv
<1>5. cl.seq = cl.seq + 1 - Lead(batch)
  BY <1>2, <1>3 DEF Client
<1> QED BY <1>1, <1>2, <1>3, <1>4, <1>5, Counted, Zenon

LEMMA SnapshotMessageStep ==
  ASSUME FeedAssumption, FeedInv, OnSnapshotMessage
  PROVE  FeedInv'
<1>1. PICK d \in 1..MaxFeedDay : Pipe(d)
  BY Zenon DEF FeedInv, PipeInv
<1>2. /\ busy /\ batch # <<>> /\ Head(batch).type = "P" /\ batch' = Tail(batch)
      /\ UNCHANGED <<setup, busy, feedDay>> /\ cl \in Client /\ Exact(cl)
  BY Zenon DEF OnSnapshotMessage, Packet, Dispatched, FeedInv, HandlerTyped
<1>3. /\ Lead(batch) = 0 /\ Head(batch) = batch[1] /\ cl.role = "glimpse"
      /\ Alive(cl)
  BY <1>1, <1>2, FirstPacket, Zenon
<1> DEFINE c == [cl EXCEPT !.seq = @ + 1, !.snap = @ + 1]
<1>4. Become(c, net)
  BY <1>3, Zenon DEF OnSnapshotMessage, Alive, Standing
<1>5. cl.seq + 1 \in Nat /\ cl.snap + 1 \in Nat
  BY SMTT(30), <1>2 DEF Client
<1>6. /\ c \in Client /\ c.conn = cl.conn /\ c.role = cl.role /\ c.seq = cl.seq + 1
      /\ c.session = cl.session /\ c.live = cl.live /\ c.base = cl.base
      /\ c.snap = cl.snap + 1 /\ c.printed = cl.printed /\ c.told = cl.told
      /\ c.sess = cl.sess /\ c.watchdog = cl.watchdog /\ c.done = cl.done
      /\ c.retry = cl.retry /\ c.tick = cl.tick /\ c.state = cl.state
  BY <1>2, <1>5, Zenon DEF Client
<1> HIDE DEF c
<1>7. Life(c)
  BY <1>3, <1>6, Zenon DEF Life, Alive, Standing
<1>8. Exact(c)
  BY <1>2, <1>3, <1>5, <1>6 DEF Exact
<1>9. c.seq = cl.seq + 1 - Lead(batch)
  BY <1>2, <1>3, <1>6 DEF Client
<1> QED BY <1>1, <1>2, <1>3, <1>4, <1>6, <1>7, <1>8, <1>9, Counted, Zenon

(* tail counts a line unless it has printed its limit. *)
LEMMA TailFactsOf ==
  ASSUME NEW c \in Client, NEW d, d = TailWantsMore(c)[1], setup.limit \in Nat
  PROVE  /\ d \in Client
         /\ d.printed = IF setup.limit # 0 /\ c.printed >= setup.limit
                        THEN c.printed ELSE c.printed + 1
         /\ d.conn = c.conn /\ d.role = c.role /\ d.seq = c.seq
         /\ d.session = c.session /\ d.live = c.live /\ d.base = c.base
         /\ d.snap = c.snap /\ d.told = c.told /\ d.sess = c.sess
         /\ d.watchdog = c.watchdog /\ d.done = c.done /\ d.retry = c.retry
         /\ d.tick = c.tick /\ d.state = c.state
<1>1. c.printed + 1 \in Nat
  BY DEF Client
<1>2. CASE setup.limit # 0 /\ c.printed >= setup.limit
  BY <1>2, Zenon DEF TailWantsMore
<1>3. CASE ~(setup.limit # 0 /\ c.printed >= setup.limit)
  <2>1. d = [c EXCEPT !.printed = @ + 1]
    BY <1>3, Zenon DEF TailWantsMore
  <2> QED BY <1>1, <1>3, <2>1, Zenon DEF Client
<1> QED BY <1>2, <1>3, Zenon

LEMMA MessageStep ==
  ASSUME FeedAssumption, FeedInv, FeedOnMessage
  PROVE  FeedInv'
<1>1. PICK d \in 1..MaxFeedDay : Pipe(d)
  BY Zenon DEF FeedInv, PipeInv
<1>2. /\ busy /\ batch # <<>> /\ Head(batch).type = "S" /\ batch' = Tail(batch)
      /\ UNCHANGED <<setup, busy, feedDay>> /\ cl \in Client /\ Exact(cl)
      /\ Life(cl) /\ setup.limit \in Nat
  BY Zenon DEF FeedOnMessage, Packet, Dispatched, FeedInv, HandlerTyped
<1>3. /\ Lead(batch) = 0 /\ Head(batch) = batch[1] /\ cl.role = "itch"
      /\ batch[1].day = d /\ batch[1].k = cl.seq /\ cl.session = d
  BY <1>1, <1>2, FirstPacket, Zenon
<1> DEFINE m == [day |-> d, k |-> cl.seq]
           c == [cl EXCEPT !.seq = @ + 1, !.live = Append(@, m)]
           t == TailWantsMore(c)[1]
<1>4. PICK e \in HandlerStop(t) \cup {t} :
        Become(IF setup.closing /\ cl.seq = FeedLast THEN Over(e, "ENDED") ELSE e,
               net)
  BY <1>3, Zenon DEF FeedOnMessage
<1>5. /\ m \in Applied /\ cl.seq + 1 \in Nat /\ Append(cl.live, m) \in Seq(Applied)
      /\ cl.live \in Seq(Applied)
  <2>1. cl.live \in Seq(Applied) /\ cl.seq \in Nat
    BY <1>2, Zenon DEF Client
  <2>2. m \in Applied
    BY <2>1 DEF Applied
  <2> HIDE DEF m
  <2> QED BY <2>1, <2>2, AppendFacts
<1>6. /\ c \in Client /\ c.conn = cl.conn /\ c.role = cl.role /\ c.seq = cl.seq + 1
      /\ c.session = cl.session /\ c.live = Append(cl.live, m) /\ c.base = cl.base
      /\ c.snap = cl.snap /\ c.printed = cl.printed /\ c.told = cl.told
      /\ c.sess = cl.sess /\ c.watchdog = cl.watchdog /\ c.done = cl.done
      /\ c.retry = cl.retry /\ c.tick = cl.tick /\ c.state = cl.state
  <2> HIDE DEF m
  <2> QED BY <1>2, <1>5, Zenon DEF Client
<1> HIDE DEF c
<1>7. /\ t \in Client
      /\ t.printed = IF setup.limit # 0 /\ cl.printed >= setup.limit
                     THEN cl.printed ELSE cl.printed + 1
      /\ t.conn = cl.conn /\ t.role = cl.role /\ t.seq = cl.seq + 1
      /\ t.session = cl.session /\ t.live = Append(cl.live, m) /\ t.base = cl.base
      /\ t.snap = cl.snap /\ t.told = cl.told /\ t.sess = cl.sess
      /\ t.watchdog = cl.watchdog /\ t.done = cl.done /\ t.retry = cl.retry
      /\ t.tick = cl.tick /\ t.state = cl.state
  <2> HIDE DEF m
  <2> QED BY SMTT(30), <1>2, <1>6, TailFactsOf
<1> HIDE DEF t
<1>8. Life(t)
  BY <1>2, <1>7, Zenon DEF Life, Ended, Alive, Standing
<1>9. Exact(t)
  <2>1. /\ Len(t.live) = Len(cl.live) + 1
        /\ \A i \in 1..Len(cl.live) : t.live[i] = cl.live[i]
        /\ t.live[Len(cl.live) + 1] = m /\ Len(cl.live) \in Nat
        /\ t.live # <<>>
    <3> HIDE DEF m
    <3> DEFINE u == Append(cl.live, m)
    <3>1. /\ Len(u) = Len(cl.live) + 1 /\ u \in Seq(Applied)
          /\ \A i \in 1..Len(cl.live) : u[i] = cl.live[i]
          /\ u[Len(cl.live) + 1] = m
      BY <1>5, AppendFacts
    <3>2. t.live = u
      BY <1>7, Zenon
    <3> HIDE DEF u
    <3>3. Len(cl.live) \in Nat
      BY <1>5, SeqFacts, Zenon
    <3>4. u # <<>>
      BY <3>1, <3>3, SeqFacts
    <3> QED BY <3>1, <3>2, <3>3, <3>4, Zenon
  <2>2. cl.seq = cl.base + Len(cl.live) /\ cl.base \in Nat /\ cl.printed \in Nat
    BY <1>2, <1>3, Zenon DEF Exact, Client
  <2>3. t.seq = t.base + Len(t.live)
    BY <1>7, <2>1, <2>2
  <2>4. \A i \in 1..Len(t.live) :
          t.live[i] = [day |-> t.session, k |-> t.base + i - 1]
    <3> TAKE i \in 1..Len(t.live)
    <3>1. CASE i \in 1..Len(cl.live)
      BY <1>2, <1>7, <2>1, <3>1, Zenon DEF Exact
    <3>2. CASE i = Len(cl.live) + 1
      <4>1. t.base + i - 1 = cl.seq
        BY <1>7, <2>1, <2>2, <3>2
      <4> QED BY <1>3, <1>7, <2>1, <3>2, <4>1, Zenon
    <3> QED BY SMTT(30), <2>1, <3>1, <3>2
  <2>5. t.printed = IF setup.limit = 0 \/ Len(t.live) < setup.limit
                    THEN Len(t.live) ELSE setup.limit
    <3>1. cl.printed = IF setup.limit = 0 \/ Len(cl.live) < setup.limit
                       THEN Len(cl.live) ELSE setup.limit
      BY <1>2, Zenon DEF Exact
    <3> QED BY <1>2, <1>7, <2>1, <2>2, <3>1
  <2>6. t.session # Blank
    BY <1>3, <1>7 DEF Blank
  <2> QED BY <1>2, <1>3, <1>7, <2>3, <2>4, <2>5, <2>6, Zenon DEF Exact
<1>10. /\ e \in Client /\ Data(e) = Data(t) /\ (e = t \/ Ended(e)) /\ Life(e)
  BY <1>4, <1>7, <1>8, HandlerStopFacts, Zenon DEF Life
<1> DEFINE f == IF setup.closing /\ cl.seq = FeedLast THEN Over(e, "ENDED") ELSE e
<1>11. f \in Client /\ Data(f) = Data(t) /\ Life(f) /\ f.conn \in {cl.conn, "STOPPED"}
  <2>1. CASE f = e
    BY <1>7, <1>10, <2>1, Zenon DEF Ended
  <2>2. CASE f = Over(e, "ENDED")
    <3>1. "ENDED" \in Terminal
      BY Zenon DEF Terminal
    <3>2. e.role = "itch"
      BY <1>3, <1>7, <1>10, DataFields, Zenon
    <3>3. Ended(e) \/ (e.state \notin Terminal /\ e.told = <<>> /\ ~e.watchdog)
      BY <1>10, <3>2, Zenon DEF Life, Alive, Standing
    <3>4. f \in Client /\ Data(f) = Data(e) /\ Ended(f)
      BY <1>10, <2>2, <3>1, <3>3, OverFacts, Zenon
    <3> QED BY <1>10, <3>4, Zenon DEF Life, Ended
  <2> QED BY <2>1, <2>2, Zenon
<1>12. Become(f, net)
  BY <1>4, Zenon
<1> HIDE DEF f, m
<1>13. f.role = cl.role /\ f.seq = cl.seq + 1 /\ f.session = cl.session
  BY <1>7, <1>11, DataFields
<1>14. f.seq = cl.seq + 1 - Lead(batch)
  BY <1>2, <1>3, <1>13 DEF Client
<1>15. Exact(f)
  BY <1>9, <1>11, ExactMoves, Zenon
<1> QED BY <1>1, <1>2, <1>3, <1>11, <1>12, <1>13, <1>14, <1>15, Counted, Zenon

(* A disconnect met by the logout of a complete snapshot fails nothing. *)
LEMMA DoneDisconnect ==
  ASSUME NEW c \in Client, c.done, c.role = "glimpse", c.conn = "CONNECTED",
         NEW d, d = FeedHandleDisconnect(c)
  PROVE  d \in Client /\ Data(d) = Data(c) /\ d.state = c.state /\ d.told = c.told
<1> DEFINE b == CloseSocket(c)
<1>1. /\ b \in Client /\ Data(b) = Data(c) /\ b.state = c.state /\ b.told = c.told
      /\ b.done = c.done /\ b.conn = c.conn
  BY CloseFacts, Zenon
<1>2. d = FeedScheduleRetry(OnDisconnect(b))
  BY Zenon DEF FeedHandleDisconnect
<1> HIDE DEF b
<1>3. b.role = "glimpse"
  BY <1>1, DataFields, Zenon
<1>4. OnDisconnect(b) = b
  BY <1>1, <1>3, Zenon DEF OnDisconnect, SnapshotLost, GlimpseFail
<1>5. d = FeedScheduleRetry(b)
  BY <1>2, <1>4, Zenon
<1>6. CASE MaxRetries(b) # 0 /\ b.attempts >= MaxRetries(b)
  <2> DEFINE e == [b EXCEPT !.conn = "STOPPED"]
  <2>1. d = GiveUp(e)
    BY <1>1, <1>5, <1>6, Zenon DEF FeedScheduleRetry
  <2>2. /\ e \in Client /\ Data(e) = Data(b) /\ e.state = b.state
        /\ e.told = b.told /\ e.done = b.done /\ e.role = b.role
    BY <1>1, Zenon DEF Client, Data
  <2> HIDE DEF e
  <2>3. d = e
    BY <1>1, <1>3, <2>1, <2>2, Zenon DEF GiveUp, SnapshotLost, GlimpseFail
  <2> QED BY <1>1, <2>2, <2>3, Zenon
<1>7. CASE ~(MaxRetries(b) # 0 /\ b.attempts >= MaxRetries(b))
  <2>1. d = [b EXCEPT !.conn = "IDLE", !.retry = TRUE]
    BY <1>1, <1>5, <1>7, Zenon DEF FeedScheduleRetry
  <2>2. d \in Client /\ Data(d) = Data(b) /\ d.state = b.state /\ d.told = b.told
    BY <1>1, <2>1, Flags, ZenonT(30) DEF Client, Data
  <2> QED BY <1>1, <2>2, Zenon
<1> QED BY <1>6, <1>7, Zenon

(* _start_itch: a session from the number it is given, being connected. *)
LEMMA StartItchFacts ==
  ASSUME FeedAssumption, NEW c \in Client, NEW q \in Nat, NEW d, d = StartItch(c, q),
         ~c.retry
  PROVE  /\ d \in Client /\ d.role = "itch" /\ d.base = q /\ d.seq = q
         /\ d.session = Blank /\ d.sess = "CONNECTED" /\ d.conn = "CONNECTING"
         /\ ~d.retry /\ d.state = c.state /\ d.told = c.told
         /\ d.watchdog = c.watchdog /\ d.live = c.live /\ d.snap = c.snap
         /\ d.printed = c.printed
<1> DEFINE b == [c EXCEPT !.role = "itch", !.base = q, !.seq = q,
                          !.session = Blank, !.sess = "CONNECTED",
                          !.heard = FALSE, !.attempts = 0, !.conn = "IDLE"]
           e == [b EXCEPT !.conn = IF @ = "STOPPED" THEN "IDLE" ELSE @]
<1>1. d = FeedAttemptConnect(e)
  BY Zenon DEF StartItch, StartConnector
<1>2. Blank \in 0..MaxFeedDay
  BY DEF FeedAssumption, Blank
<1>3. /\ b \in Client /\ b.role = "itch" /\ b.base = q /\ b.seq = q
      /\ b.session = Blank /\ b.sess = "CONNECTED" /\ b.conn = "IDLE"
      /\ b.state = c.state /\ b.told = c.told /\ b.attempts = 0
      /\ b.watchdog = c.watchdog /\ b.live = c.live /\ b.snap = c.snap
      /\ b.printed = c.printed
  BY <1>2, Flags, Zenon DEF Client
<1> HIDE DEF b
<1>4. e = b
  BY <1>3, Zenon DEF Client
<1>5. d = [b EXCEPT !.attempts = @ + 1, !.conn = "CONNECTING", !.retry = FALSE]
  BY <1>1, <1>3, <1>4, Zenon DEF FeedAttemptConnect
<1>6. b.attempts + 1 \in Nat
  BY <1>3
<1> HIDE DEF e
<1> QED BY <1>3, <1>5, <1>6, Flags, ZenonT(30) DEF Client

LEMMA EndOfSnapshotStep ==
  ASSUME FeedAssumption, FeedInv, OnEndOfSnapshot
  PROVE  FeedInv'
<1>1. PICK d \in 1..MaxFeedDay : Pipe(d)
  BY Zenon DEF FeedInv, PipeInv
<1>2. /\ busy /\ batch # <<>> /\ Head(batch).type = "G" /\ batch' = <<>>
      /\ UNCHANGED <<setup, busy, feedDay>> /\ cl \in Client /\ Exact(cl)
  BY Zenon DEF OnEndOfSnapshot, Packet, FeedInv, HandlerTyped
<1>3. /\ Head(batch) = batch[1] /\ cl.role = "glimpse" /\ batch[1].k = Cut + 1
      /\ cl.seq = SnapLen + 1 /\ cl.conn = "CONNECTED" /\ Alive(cl)
  BY <1>1, <1>2, FirstPacket, Zenon
<1> DEFINE b == [cl EXCEPT !.done = TRUE]
<1>4. PICK c \in Flushed(b) : Become(StartItch(GlimpseStop(c), Cut + 1), net)
  BY <1>3, Zenon DEF OnEndOfSnapshot, SnapshotComplete
<1>5. /\ b \in Client /\ Data(b) = Data(cl) /\ b.state = cl.state
      /\ b.told = cl.told /\ b.done /\ b.role = cl.role /\ b.conn = cl.conn
  BY <1>2, Flags, Zenon DEF Client, Data
<1>6. c = b \/ c = FeedHandleDisconnect(b)
  BY Zenon DEF Flushed
<1> HIDE DEF b
<1>7. c \in Client /\ Data(c) = Data(cl) /\ c.state = cl.state /\ c.told = cl.told
  BY <1>3, <1>5, <1>6, DoneDisconnect, Zenon
<1> DEFINE e == GlimpseStop(c)
           q == Cut + 1
           f == StartItch(e, q)
<1>8. /\ e \in Client /\ Data(e) = Data(cl) /\ e.state = cl.state
      /\ e.told = cl.told /\ ~e.watchdog /\ ~e.retry
  BY <1>7, GlimpseStopFacts, Zenon
<1>9. Become(f, net)
  BY <1>4, Zenon
<1> HIDE DEF e
<1>10. q \in Nat
  BY DEF FeedAssumption
<1> HIDE DEF q
<1>11. /\ f \in Client /\ f.role = "itch" /\ f.base = q /\ f.seq = q
       /\ f.session = Blank /\ f.sess = "CONNECTED" /\ f.conn = "CONNECTING"
       /\ ~f.retry /\ f.state = e.state /\ f.told = e.told
       /\ f.watchdog = e.watchdog /\ f.live = e.live /\ f.snap = e.snap
       /\ f.printed = e.printed
  BY <1>8, <1>10, StartItchFacts
<1> HIDE DEF f
<1>12. Life(f)
  BY <1>3, <1>8, <1>11, Zenon DEF Life, Alive, Standing, Terminal
<1>13. f.live = cl.live /\ f.snap = cl.snap /\ f.printed = cl.printed
  BY <1>8, <1>11, DataFields, Zenon
<1>14. Exact(f)
  <2>1. cl.live = <<>> /\ cl.seq = cl.snap + 1 /\ cl.snap \in Nat
    BY <1>2, <1>3, Zenon DEF Exact, Client
  <2>2. f.snap = SnapLen
    BY <1>3, <1>13, <2>1 DEF FeedAssumption
  <2>3. f.seq = f.base + Len(f.live)
    BY <1>10, <1>11, <1>13, <2>1
  <2> QED BY <1>2, <1>11, <1>13, <2>1, <2>2, <2>3 DEF Exact, q
<1> QED BY <1>2, <1>9, <1>11, <1>12, <1>14, Emptied, Zenon

-----------------------------------------------------------------------------
(* The exchange *)

(* What the exchange may put on the wire: packet t with number n, by the    *)
(* thread that has become b.                                                *)
MaySend(b, t, n) ==
  /\ ~Final(batch) /\ ~Final(net.wire)
  /\ b.wire = net.wire /\ ~b.dark
  /\ b.peer \in {"replay", "snapshot", "linger", "closed"}
  /\ t \in {"A", "J", "H"} => net.wire = <<>>
  /\ t \in {"A", "J"} => batch = <<>>
  /\ t \in {"S", "H", "Z"} => cl.role = "itch" /\ Joined(feedDay)
  /\ t \in {"P", "G"} => cl.role = "glimpse"
  /\ t = "A" => n = After(batch, cl.seq) /\ cl.session \in {Blank, feedDay}
  /\ t = "S" => n = After(net.wire, After(batch, cl.seq))
  /\ t = "G" => n = Cut + 1 /\ After(net.wire, After(batch, cl.seq)) = SnapLen + 1
  /\ b.peer \in {"replay", "snapshot"} =>
       /\ t \notin {"J", "G", "Z"}
       /\ b.pos = IF t \in {"A", "H"}
                  THEN After(net.wire, After(batch, cl.seq))
                  ELSE After(net.wire, After(batch, cl.seq)) + 1
  /\ b.peer = "replay" => cl.role = "itch"
  /\ b.peer = "snapshot" => cl.role = "glimpse" /\ b.pos <= SnapLen + 1

(* A packet added to the wire, and what the thread goes on to do.           *)
LEMMA Sending ==
  ASSUME FeedAssumption, FeedInv, cl.conn = "CONNECTED",
         UNCHANGED <<setup, cl, batch, busy, feedDay>>, Pipe(feedDay),
         NEW b \in Nets, NEW t \in {"A", "J", "S", "P", "G", "H", "Z"},
         NEW n \in Nat, net' = Sent(b, t, n), MaySend(b, t, n)
  PROVE  FeedInv'
<1> DEFINE e == [type |-> t, day |-> feedDay, k |-> n]
           s == net.wire
           w == Append(s, e)
           q == After(batch, cl.seq)
           r == cl.role
           d == feedDay
<1>1. /\ cl \in Client /\ batch \in Seq(Packets) /\ net \in Nets
      /\ d \in 1..MaxFeedDay /\ Life(cl) /\ Exact(cl) /\ PhaseInv
  BY Zenon DEF FeedInv, HandlerTyped
<1>2. s \in Seq(Packets) /\ q \in Nat
  BY <1>1, AfterType, Zenon DEF Nets, Client
<1>3. e \in Packets /\ e.day = d /\ e.type = t /\ e.k = n
  BY <1>1, Zenon DEF Packets
<1>4. Fitting(s, q, d, r)
  BY Zenon DEF Pipe
<1>5. net' = [b EXCEPT !.wire = Append(b.wire, e)]
  BY Zenon DEF Sent
<1>6. net' = [b EXCEPT !.wire = w] /\ ~b.dark
  BY <1>5, Zenon DEF MaySend
<1> HIDE DEF e, s, w, q, r, d
<1>7. /\ w \in Seq(Packets) /\ Fitting(w, q, d, r)
      /\ After(w, q) = IF t \in {"A", "H"} THEN After(s, q) ELSE After(s, q) + 1
      /\ w # <<>> /\ w[1] = IF s = <<>> THEN e ELSE s[1]
      /\ Final(w) <=> t \in {"J", "G", "Z"}
  <2>1. /\ ~Final(s)
        /\ e.type \in {"A", "J", "H"} => s = <<>>
        /\ e.type \in {"S", "H", "Z"} => r = "itch"
        /\ e.type \in {"P", "G"} => r = "glimpse"
        /\ e.type = "A" => e.k = q
        /\ e.type = "S" => e.k = After(s, q)
        /\ e.type = "G" => e.k = Cut + 1 /\ After(s, q) = SnapLen + 1
    BY <1>3, Zenon DEF MaySend, s, q, r
  <2>2. /\ w \in Seq(Packets) /\ Len(w) = Len(s) + 1
        /\ \A i \in 1..Len(s) : w[i] = s[i]
        /\ w[Len(s) + 1] = e
    BY <1>2, <1>3, AppendFacts DEF w
  <2>3. /\ Fitting(w, q, d, r)
        /\ After(w, q) = IF e.type \in {"A", "H"} THEN After(s, q)
                                                  ELSE After(s, q) + 1
        /\ w # <<>> /\ w[1] = IF s = <<>> THEN e ELSE s[1]
        /\ Final(w) <=> e.type \in {"J", "G", "Z"}
    BY <1>2, <1>3, <1>4, <2>1, <2>2, FitAppend
  <2> QED BY <1>3, <2>2, <2>3, Zenon
<1>8. /\ net' \in Nets /\ net'.wire = w /\ net'.peer = b.peer /\ net'.pos = b.pos
      /\ ~net'.dark
  BY <1>6, <1>7, Zenon DEF Nets
<1>9. Answer(w) => batch = <<>>
  <2>1. Answer(s) => batch = <<>>
    BY Zenon DEF Pipe, s
  <2>2. t \in {"A", "J"} => batch = <<>>
    BY Zenon DEF MaySend
  <2>3. CASE s = <<>>
    BY <1>3, <1>7, <2>2, <2>3, Zenon DEF Answer
  <2>4. CASE s # <<>>
    BY <1>7, <2>1, <2>4, Zenon DEF Answer
  <2> QED BY <2>3, <2>4, Zenon
<1>10. r = "itch" => Joined(d)' \/ t = "J"
  <2> SUFFICES ASSUME r = "itch", t # "J" PROVE Joined(d)'
    BY Zenon
  <2>1. t \in {"A", "S", "H", "Z"}
    BY Zenon DEF MaySend, r
  <2>2. CASE t = "A"
    BY <1>1, <1>3, <1>7, <1>8, <2>2, FitEmpty, Zenon DEF MaySend, Joined, d, s
  <2>3. CASE t \in {"S", "H", "Z"}
    <3>1. Joined(d)
      BY <2>3, Zenon DEF MaySend, d
    <3>2. s # <<>> => w[1] = s[1]
      BY <1>7, Zenon
    <3>3. s = <<>> => w[1].type # "A"
      BY <1>3, <1>7, <2>3, Zenon
    <3> QED BY <1>7, <1>8, <3>1, <3>2, <3>3, Zenon DEF Joined, s, d
  <2> QED BY <2>1, <2>2, <2>3, Zenon
<1>11. t = "J" => ~Serves(batch) /\ ~Serves(w) /\ ~Replying'
  <2> SUFFICES ASSUME t = "J" PROVE ~Serves(batch) /\ ~Serves(w) /\ ~Replying'
    BY Zenon
  <2>1. batch = <<>> /\ s = <<>> /\ w[1].type = "J"
    BY <1>3, <1>7, Zenon DEF MaySend, s
  <2>2. w = <<e>>
    BY <2>1 DEF w
  <2>3. ~Serves(w)
    BY <1>3, <2>2 DEF Serves
  <2> QED BY <1>8, <2>1, <2>3, FitEmpty, Zenon DEF MaySend, Replying
<1>12. Pipe(feedDay)'
  <2>1. Replying' => net'.pos = After(w, q)
    BY <1>7, <1>8, Zenon DEF MaySend, Replying, s, q
  <2>2. /\ Fitting(batch, cl.seq, d, r)
    BY Zenon DEF Pipe, d, r
  <2>3. net'.peer \in {"replay", "snapshot"} => ~Final(batch) /\ ~Final(w)
    BY <1>7, <1>8, Zenon DEF MaySend
  <2>4. ~Final(batch)
    BY Zenon DEF MaySend
  <2>5. r = "itch" /\ (Serves(batch) \/ Serves(w) \/ Replying') => Joined(d)'
    BY <1>10, <1>11, Zenon
  <2> QED BY <1>7, <1>8, <1>9, <2>1, <2>2, <2>3, <2>4, <2>5, Zenon DEF Pipe, d, r, q
<1>13. PhaseInv'
  BY <1>1, <1>8, Zenon DEF MaySend, PhaseInv
<1>14. HandlerTyped'
  BY <1>1, <1>8, Zenon DEF FeedInv, HandlerTyped
<1>15. Exact(cl)'
  BY <1>1, Zenon DEF Exact
<1>16. PipeInv'
  <2>1. Pipe(d)'
    BY <1>12, Zenon DEF d
  <2> QED BY <1>1, <1>12, Zenon DEF PipeInv, d
<1> QED BY <1>1, <1>13, <1>14, <1>15, <1>16, Zenon DEF FeedInv

LEMMA PeerLoginStep ==
  ASSUME FeedAssumption, FeedInv, FeedPeerLogin
  PROVE  FeedInv'
<1>1. /\ cl \in Client /\ net \in Nets /\ Exact(cl) /\ PhaseInv
      /\ feedDay \in 1..MaxFeedDay
      /\ net.peer = "login" /\ cl.conn = "CONNECTED" /\ ~net.dark
      /\ UNCHANGED <<setup, cl, batch, busy, feedDay>>
  BY Zenon DEF FeedInv, HandlerTyped, FeedPeerLogin, Peer, FeedRoom
<1>2. /\ batch = <<>> /\ net.wire = <<>> /\ net.pos = 1
      /\ net.login.session = cl.session /\ net.login.seq = cl.seq
      /\ cl.role = "glimpse" => cl.snap = 0
  BY <1>1 DEF PhaseInv, FeedInv, HandlerTyped
<1>3. cl.seq \in Nat /\ cl.role \in {"glimpse", "itch"} /\ 0 \in Nat /\ 1 \in Nat
  BY <1>1, Zenon DEF Client
<1>4. /\ After(batch, cl.seq) = cl.seq
      /\ After(net.wire, After(batch, cl.seq)) = cl.seq
      /\ ~Final(batch) /\ ~Final(net.wire)
  BY <1>2, <1>3, FitEmpty, Zenon
<1>5. Pipe(feedDay)
  BY <1>1, <1>2, <1>4, FitEmpty, Zenon DEF Pipe, Replying
<1>6. cl.role = "glimpse" => cl.seq = 1
  BY <1>1, <1>2 DEF Exact
<1>7. CASE ~setup.auth \/ net.login.session \notin {Blank, feedDay}
  <2> DEFINE b == [net EXCEPT !.peer = "closed"]
  <2>1. b \in Nets /\ b.wire = net.wire /\ b.dark = net.dark /\ b.peer = "closed"
    BY <1>1, Zenon DEF Nets
  <2>2. net' = Sent(b, "J", 0)
    BY <1>7, Zenon DEF FeedPeerLogin
  <2> HIDE DEF b
  <2>3. MaySend(b, "J", 0)
    BY <1>1, <1>2, <1>3, <1>4, <1>5, <2>1, <2>2, Zenon DEF MaySend
  <2> QED BY <1>1, <1>2, <1>3, <1>4, <1>5, <2>1, <2>2, <2>3, Sending, Zenon
<1>8. CASE setup.auth /\ net.login.session \in {Blank, feedDay} /\ cl.role = "glimpse"
  <2> DEFINE b == [net EXCEPT !.peer = "snapshot"]
  <2>1. /\ b \in Nets /\ b.wire = net.wire /\ b.dark = net.dark
        /\ b.peer = "snapshot" /\ b.pos = 1
    BY <1>1, <1>2, Zenon DEF Nets
  <2>2. net' = Sent(b, "A", 1)
    BY <1>8, Zenon DEF FeedPeerLogin
  <2>3. b.pos <= SnapLen + 1
    BY <2>1 DEF FeedAssumption
  <2>4. cl.session \in {Blank, feedDay}
    BY <1>2, <1>8, Zenon
  <2> HIDE DEF b
  <2>5. MaySend(b, "A", 1)
    BY <1>1, <1>2, <1>3, <1>4, <1>5, <1>6, <1>8, <2>1, <2>2, <2>3, <2>4, Zenon DEF MaySend
  <2> QED BY <1>1, <1>2, <1>3, <1>4, <1>5, <1>6, <1>8, <2>1, <2>2, <2>3, <2>4, <2>5, Sending, Zenon
<1>9. CASE setup.auth /\ net.login.session \in {Blank, feedDay} /\ cl.role # "glimpse"
  <2> DEFINE b == [net EXCEPT !.peer = "replay", !.pos = net.login.seq]
  <2>1. /\ b \in Nets /\ b.wire = net.wire /\ b.dark = net.dark
        /\ b.peer = "replay" /\ b.pos = cl.seq
    BY <1>1, <1>2, <1>3, Zenon DEF Nets
  <2>2. net' = Sent(b, "A", cl.seq)
    BY <1>2, <1>9, Zenon DEF FeedPeerLogin
  <2>3. cl.session \in {Blank, feedDay} /\ cl.role = "itch"
    BY <1>2, <1>3, <1>9, Zenon
  <2> HIDE DEF b
  <2>4. MaySend(b, "A", cl.seq)
    BY <1>1, <1>2, <1>3, <1>4, <1>5, <2>1, <2>2, <2>3, Zenon DEF MaySend
  <2> QED BY <1>1, <1>2, <1>3, <1>4, <1>5, <2>1, <2>2, <2>3, <2>4, Sending, Zenon
<1> QED BY <1>7, <1>8, <1>9, Zenon

(* What an answering thread knows. *)
LEMMA AnsweringFacts ==
  ASSUME FeedAssumption, FeedInv, Replying
  PROVE  /\ Pipe(feedDay) /\ ~Final(batch) /\ ~Final(net.wire)
         /\ net.pos = After(net.wire, After(batch, cl.seq))
         /\ cl.role = "itch" => Joined(feedDay)
         /\ net.pos \in Nat /\ net \in Nets
         /\ net.peer = "replay" => cl.role = "itch"
         /\ net.peer = "snapshot" => cl.role = "glimpse" /\ net.pos <= SnapLen + 1
<1>1. PICK d \in 1..MaxFeedDay : Pipe(d)
  BY Zenon DEF FeedInv, PipeInv
<1>2. d = feedDay /\ net.peer \in {"replay", "snapshot"}
  BY <1>1, Zenon DEF Pipe, Replying
<1>3. Pipe(feedDay)
  BY <1>1, <1>2, Zenon
<1>4. net \in Nets /\ net.pos \in Nat
  BY Zenon DEF FeedInv, HandlerTyped, Nets
<1> QED BY <1>2, <1>3, <1>4, Zenon DEF Pipe, FeedInv, PhaseInv

LEMMA PeerReplayStep ==
  ASSUME FeedAssumption, FeedInv, PeerReplay
  PROVE  FeedInv'
<1>1. /\ net.peer = "replay" /\ cl.conn = "CONNECTED" /\ ~net.dark
      /\ UNCHANGED <<setup, cl, batch, busy, feedDay>>
  BY Zenon DEF PeerReplay, Peer, FeedRoom
<1>2. /\ Pipe(feedDay) /\ ~Final(batch) /\ ~Final(net.wire)
      /\ net.pos = After(net.wire, After(batch, cl.seq))
      /\ Joined(feedDay) /\ cl.role = "itch" /\ net.pos \in Nat /\ net \in Nets
  BY <1>1, AnsweringFacts, Zenon DEF Replying
<1>3. CASE net.pos <= FeedLast
  <2> DEFINE b == [net EXCEPT !.pos = @ + 1]
  <2>1. /\ b \in Nets /\ b.wire = net.wire /\ b.dark = net.dark
        /\ b.peer = "replay" /\ b.pos = net.pos + 1
    BY <1>1, <1>2 DEF Nets
  <2>2. net' = Sent(b, "S", net.pos)
    BY <1>3, Zenon DEF PeerReplay
  <2> HIDE DEF b
  <2>3. MaySend(b, "S", net.pos)
    BY <1>1, <1>2, <2>1, <2>2, Zenon DEF MaySend
  <2> QED BY <1>1, <1>2, <2>1, <2>2, <2>3, Sending, Zenon
<1>4. CASE ~(net.pos <= FeedLast)
  <2> DEFINE b == [net EXCEPT !.peer = "linger"]
  <2>1. b \in Nets /\ b.wire = net.wire /\ b.dark = net.dark /\ b.peer = "linger"
    BY <1>1, <1>2, Zenon DEF Nets
  <2>2. net' = Sent(b, "Z", 0)
    BY <1>4, Zenon DEF PeerReplay
  <2> HIDE DEF b
  <2>3. MaySend(b, "Z", 0)
    BY <1>1, <1>2, <2>1, <2>2, Zenon DEF MaySend
  <2> QED BY <1>1, <1>2, <2>1, <2>2, <2>3, Sending, Zenon
<1> QED BY <1>3, <1>4, Zenon

LEMMA PeerHeartbeatStep ==
  ASSUME FeedAssumption, FeedInv, FeedPeerHeartbeat
  PROVE  FeedInv'
<1>1. /\ net.peer = "replay" /\ cl.conn = "CONNECTED" /\ ~net.dark
      /\ UNCHANGED <<setup, cl, batch, busy, feedDay>>
      /\ net.wire = <<>> /\ net' = Sent(net, "H", 0)
  BY Zenon DEF FeedPeerHeartbeat, Peer, FeedRoom
<1>2. /\ Pipe(feedDay) /\ ~Final(batch) /\ ~Final(net.wire)
      /\ net.pos = After(net.wire, After(batch, cl.seq))
      /\ Joined(feedDay) /\ cl.role = "itch" /\ net.pos \in Nat /\ net \in Nets
  BY <1>1, AnsweringFacts, Zenon DEF Replying
<1>3. MaySend(net, "H", 0)
  BY <1>1, <1>2, Zenon DEF MaySend
<1> QED BY <1>1, <1>2, <1>3, Sending, Zenon

LEMMA PeerSnapshotStep ==
  ASSUME FeedAssumption, FeedInv, PeerSnapshot
  PROVE  FeedInv'
<1>1. /\ net.peer = "snapshot" /\ cl.conn = "CONNECTED" /\ ~net.dark
      /\ UNCHANGED <<setup, cl, batch, busy, feedDay>>
  BY Zenon DEF PeerSnapshot, Peer, FeedRoom
<1>2. /\ Pipe(feedDay) /\ ~Final(batch) /\ ~Final(net.wire)
      /\ net.pos = After(net.wire, After(batch, cl.seq))
      /\ cl.role = "glimpse" /\ net.pos \in Nat /\ net \in Nets
      /\ net.pos <= SnapLen + 1 /\ SnapLen \in Nat
  BY <1>1, AnsweringFacts, Zenon DEF Replying, FeedAssumption
<1>3. CASE net.pos <= SnapLen
  <2> DEFINE b == [net EXCEPT !.pos = @ + 1]
  <2>1. /\ b \in Nets /\ b.wire = net.wire /\ b.dark = net.dark
        /\ b.peer = "snapshot" /\ b.pos = net.pos + 1
    BY <1>1, <1>2 DEF Nets
  <2>2. net' = Sent(b, "P", net.pos)
    BY <1>3, Zenon DEF PeerSnapshot
  <2>3. b.pos <= SnapLen + 1
    BY <1>2, <1>3, <2>1
  <2> HIDE DEF b
  <2>4. MaySend(b, "P", net.pos)
    BY <1>1, <1>2, <2>1, <2>2, <2>3, Zenon DEF MaySend
  <2> QED BY <1>1, <1>2, <2>1, <2>2, <2>3, <2>4, Sending, Zenon
<1>4. CASE ~(net.pos <= SnapLen)
  <2> DEFINE b == [net EXCEPT !.peer = "linger"]
             q == Cut + 1
  <2>1. b \in Nets /\ b.wire = net.wire /\ b.dark = net.dark /\ b.peer = "linger"
    BY <1>1, <1>2, Zenon DEF Nets
  <2>2. net' = Sent(b, "G", q)
    BY <1>4, Zenon DEF PeerSnapshot
  <2>3. q \in Nat /\ q = Cut + 1 /\ net.pos = SnapLen + 1
    BY <1>2, <1>4 DEF FeedAssumption
  <2> HIDE DEF b, q
  <2>4. MaySend(b, "G", q)
    BY <1>1, <1>2, <2>1, <2>2, <2>3, Zenon DEF MaySend
  <2> QED BY <1>1, <1>2, <2>1, <2>2, <2>3, <2>4, Sending, Zenon
<1> QED BY <1>3, <1>4, Zenon

(* A connection that loses the end of what is on its way, and answers no    *)
(* more.                                                                    *)
LEMMA Losing ==
  ASSUME FeedAssumption, FeedInv, UNCHANGED <<setup, cl, batch, busy>>,
         feedDay' \in 1..MaxFeedDay, NEW d \in 1..MaxFeedDay, Pipe(d),
         NEW w, Fitting(w, After(batch, cl.seq), d, cl.role),
         Serves(w) => Serves(net.wire), Final(w) => Final(net.wire),
         w # <<>> => net.wire # <<>> /\ w[1] = net.wire[1],
         net' \in Nets, net'.wire = w, net'.pos = net.pos, net'.login = net.login,
         net'.peer \in {"closed", net.peer}, ~Replying',
         cl.conn = "CONNECTED" \/ net' = net
  PROVE  FeedInv'
<1>1. /\ HandlerTyped /\ Life(cl) /\ Exact(cl) /\ PhaseInv
  BY Zenon DEF FeedInv
<1>2. Final(batch) => w = <<>>
  BY Zenon DEF Pipe
<1>3. Answer(w) => batch = <<>>
  BY Zenon DEF Pipe, Answer
<1>4. ~Serves(<<>>)
  BY FitEmpty, Zenon
<1>5. cl.role = "itch" /\ (Serves(batch) \/ Serves(w)) => Joined(d)'
  <2> SUFFICES ASSUME cl.role = "itch", Serves(batch) \/ Serves(w)
               PROVE  Joined(d)'
    BY Zenon
  <2>1. Joined(d)
    BY Zenon DEF Pipe
  <2>2. CASE batch # <<>>
    BY <2>1, <2>2, Zenon DEF Joined
  <2>3. CASE batch = <<>>
    <3>1. w # <<>>
      BY <1>4, <2>3, Zenon
    <3> QED BY <2>1, <2>3, <3>1, Zenon DEF Joined
  <2> QED BY <2>2, <2>3, Zenon
<1>6. Pipe(d)'
  BY <1>2, <1>3, <1>5, Zenon DEF Pipe
<1>7. PhaseInv'
  BY <1>1, Zenon DEF PhaseInv
<1>8. HandlerTyped'
  BY <1>1, Zenon DEF HandlerTyped
<1>9. Exact(cl)'
  BY <1>1, Zenon DEF Exact
<1> QED BY <1>1, <1>6, <1>7, <1>8, <1>9, Zenon DEF FeedInv, PipeInv

LEMMA TruncatedStep ==
  ASSUME FeedAssumption, FeedInv, UNCHANGED <<setup, cl, batch, busy>>,
         feedDay' \in 1..MaxFeedDay, NEW n \in Nets, net' \in Truncated(n),
         n.wire = net.wire, n.pos = net.pos, n.login = net.login,
         n.peer \in {"closed", net.peer}, n.peer = "closed" \/ n.dark,
         net.peer # "none"
  PROVE  FeedInv'
<1>1. PICK d \in 1..MaxFeedDay : Pipe(d)
  BY Zenon DEF FeedInv, PipeInv
<1>2. PICK i \in 0..Len(n.wire) : net' = [n EXCEPT !.wire = SubSeq(n.wire, 1, i)]
  BY Zenon DEF Truncated
<1>3. /\ net.wire \in Seq(Packets) /\ cl.seq \in Nat /\ batch \in Seq(Packets)
      /\ Fitting(net.wire, After(batch, cl.seq), d, cl.role)
  BY <1>1, Zenon DEF FeedInv, HandlerTyped, Client, Nets, Pipe
<1> DEFINE w == SubSeq(net.wire, 1, i)
<1>4. /\ w \in Seq(Packets) /\ Fitting(w, After(batch, cl.seq), d, cl.role)
      /\ Serves(w) => Serves(net.wire)
      /\ Final(w) => Final(net.wire)
      /\ w # <<>> => net.wire # <<>> /\ w[1] = net.wire[1]
  <2>1. i \in 0..Len(net.wire)
    BY <1>2, Zenon
  <2> QED BY <1>3, <2>1, FitPrefix, Zenon
<1>5. net' = [n EXCEPT !.wire = w]
  BY <1>2, Zenon
<1> HIDE DEF w
<1>6. /\ net' \in Nets /\ net'.wire = w /\ net'.pos = net.pos
      /\ net'.login = net.login /\ net'.peer = n.peer /\ net'.dark = n.dark
  BY <1>4, <1>5, Zenon DEF Nets
<1>7. cl.conn = "CONNECTED"
  BY DEF FeedInv, PhaseInv, NoNet
<1>8. ~Replying'
  BY <1>6, Zenon DEF Replying
<1> QED BY <1>1, <1>4, <1>6, <1>7, <1>8, Losing, Zenon

LEMMA FaultSteps ==
  ASSUME FeedAssumption, FeedInv, FeedPeerDrop \/ FeedGoDark \/ FeedRollover
  PROVE  FeedInv'
<1>1. net \in Nets /\ feedDay \in 1..MaxFeedDay /\ MaxFeedDay \in Nat
  BY Zenon DEF FeedInv, HandlerTyped, FeedAssumption
<1> DEFINE n == [net EXCEPT !.peer = "closed"]
           m == [net EXCEPT !.dark = TRUE]
<1>2. /\ n \in Nets /\ n.wire = net.wire /\ n.pos = net.pos
      /\ n.login = net.login /\ n.peer = "closed"
  BY <1>1, Zenon DEF Nets
<1>3. /\ m \in Nets /\ m.wire = net.wire /\ m.pos = net.pos
      /\ m.login = net.login /\ m.peer = net.peer /\ m.dark
  BY <1>1, Flags, Zenon DEF Nets
<1>4. CASE FeedPeerDrop
  <2>1. /\ net' \in Truncated(n) /\ UNCHANGED <<setup, cl, batch, busy, feedDay>>
        /\ net.peer # "none"
    BY <1>4, Zenon DEF FeedPeerDrop
  <2> HIDE DEF n
  <2> QED BY <1>1, <1>2, <2>1, TruncatedStep, Zenon
<1>5. CASE FeedGoDark
  <2>1. /\ net' \in Truncated(m) /\ UNCHANGED <<setup, cl, batch, busy, feedDay>>
        /\ net.peer # "none"
    BY <1>5, Zenon DEF FeedGoDark
  <2> HIDE DEF m
  <2> QED BY <1>1, <1>3, <2>1, TruncatedStep, Zenon
<1>6. CASE FeedRollover /\ net.peer # "none"
  <2>1. /\ net' \in Truncated(n) /\ UNCHANGED <<setup, cl, batch, busy>>
        /\ feedDay' = feedDay + 1 /\ feedDay < MaxFeedDay
    BY <1>6, Zenon DEF FeedRollover
  <2>2. feedDay' \in 1..MaxFeedDay
    BY <1>1, <2>1
  <2> HIDE DEF n
  <2> QED BY <1>2, <1>6, <2>1, <2>2, TruncatedStep, Zenon
<1>7. CASE FeedRollover /\ net.peer = "none"
  <2>1. /\ net' = net /\ UNCHANGED <<setup, cl, batch, busy>>
        /\ feedDay' = feedDay + 1 /\ feedDay < MaxFeedDay
    BY <1>7, Zenon DEF FeedRollover
  <2>2. feedDay' \in 1..MaxFeedDay
    BY <1>1, <2>1
  <2>3. ~Replying'
    BY <1>7, <2>1, Zenon DEF Replying
  <2>4. PICK d \in 1..MaxFeedDay : Pipe(d)
    BY Zenon DEF FeedInv, PipeInv
  <2>5. Fitting(net.wire, After(batch, cl.seq), d, cl.role)
    BY <2>4, Zenon DEF Pipe
  <2> QED BY <1>1, <2>1, <2>2, <2>3, <2>4, <2>5, Losing, Zenon
<1> QED BY <1>4, <1>5, <1>6, <1>7, Zenon

LEMMA LingeredStep ==
  ASSUME FeedAssumption, FeedInv, FeedPeerLingered
  PROVE  FeedInv'
<1>1. /\ net' = [net EXCEPT !.peer = "closed"] /\ net.peer = "linger"
      /\ UNCHANGED <<setup, cl, batch, busy, feedDay>>
      /\ net \in Nets /\ feedDay \in 1..MaxFeedDay
  BY Zenon DEF FeedPeerLingered, FeedInv, HandlerTyped
<1>2. /\ net' \in Nets /\ net'.wire = net.wire /\ net'.pos = net.pos
      /\ net'.login = net.login /\ net'.peer = "closed"
  BY <1>1, Zenon DEF Nets
<1>3. cl.conn = "CONNECTED" /\ ~Replying'
  BY <1>1, <1>2 DEF FeedInv, PhaseInv, NoNet, Replying
<1>4. PICK d \in 1..MaxFeedDay : Pipe(d)
  BY Zenon DEF FeedInv, PipeInv
<1>5. Fitting(net.wire, After(batch, cl.seq), d, cl.role)
  BY <1>4, Zenon DEF Pipe
<1> QED BY <1>1, <1>2, <1>3, <1>4, <1>5, Losing, Zenon

-----------------------------------------------------------------------------
(* start(), and every step together *)

LEMMA NewClientFacts ==
  ASSUME FeedAssumption
  PROVE  NewClient \in Client
<1>1. Blank \in 0..MaxFeedDay
  BY DEF FeedAssumption, Blank
<1>2. <<>> \in Seq(Terminal) /\ <<>> \in Seq(Applied)
  OBVIOUS
<1>3. "INIT" \in States
  BY Zenon DEF States
<1> QED BY <1>1, <1>2, <1>3, Flags, Zenon DEF NewClient, Client

LEMMA FeedStarts ==
  ASSUME FeedAssumption, FeedInit
  PROVE  FeedInv
<1>1. /\ batch = <<>> /\ busy = FALSE /\ net = NoNet /\ feedDay = 1
      /\ setup.limit \in Nat /\ setup.glimpse \in BOOLEAN
  BY Zenon DEF FeedInit, FeedAssumption
<1>2. NewClient \in Client
  BY NewClientFacts, Zenon
<1>3. /\ cl \in Client /\ Life(cl) /\ Exact(cl) /\ cl.conn = "CONNECTING"
      /\ cl.snap = 0
  <2>1. CASE setup.glimpse
    <3> DEFINE b == [NewClient EXCEPT !.state = "SNAPSHOT", !.watchdog = TRUE]
               c == [b EXCEPT !.attempts = 1, !.conn = "CONNECTING", !.retry = FALSE]
    <3>1. "SNAPSHOT" \in States
      BY Zenon DEF States
    <3>2. /\ b \in Client /\ b.state = "SNAPSHOT" /\ b.told = <<>> /\ ~b.done
          /\ b.watchdog /\ b.role = "glimpse" /\ b.conn = "IDLE" /\ b.attempts = 0
          /\ b.sess = "CONNECTED" /\ b.session = Blank /\ b.seq = 1 /\ b.snap = 0
          /\ b.live = <<>> /\ b.printed = 0
      BY <1>2, <3>1, Flags, Zenon DEF NewClient, Client
    <3>3. cl = StartConnector(b)
      BY <2>1, Zenon DEF FeedInit, Started, GlimpseStart, NewClient
    <3> HIDE DEF b
    <3>4. cl = c
      <4>1. [b EXCEPT !.conn = IF @ = "STOPPED" THEN "IDLE" ELSE @] = b
        BY <3>2, Zenon DEF Client
      <4>2. cl = FeedAttemptConnect(b)
        BY <3>3, <4>1, Zenon DEF StartConnector
      <4> QED BY <3>2, <4>2 DEF FeedAttemptConnect
    <3>5. /\ c \in Client /\ c.state = "SNAPSHOT" /\ c.told = <<>> /\ ~c.done
          /\ c.watchdog /\ c.role = "glimpse" /\ c.conn = "CONNECTING" /\ ~c.retry
          /\ c.sess = "CONNECTED" /\ c.session = Blank /\ c.seq = 1 /\ c.snap = 0
          /\ c.live = <<>> /\ c.printed = 0
      BY <3>2, Flags, Zenon DEF Client
    <3> HIDE DEF c
    <3>6. Life(c)
      BY <3>5, Zenon DEF Life, Alive, Standing, Terminal
    <3>7. Exact(c)
      BY <1>1, <3>5 DEF Exact
    <3> QED BY <3>4, <3>5, <3>6, <3>7, Zenon
  <2>2. CASE ~setup.glimpse
    <3>1. cl = StartItch(NewClient, 1) /\ 1 \in Nat
      BY <2>2, Zenon DEF FeedInit, Started
    <3>2. /\ NewClient.state = "INIT" /\ NewClient.told = <<>>
          /\ ~NewClient.watchdog /\ ~NewClient.retry /\ NewClient.live = <<>>
          /\ NewClient.snap = 0 /\ NewClient.printed = 0
      BY Zenon DEF NewClient
    <3>3. /\ cl \in Client /\ cl.role = "itch" /\ cl.base = 1 /\ cl.seq = 1
          /\ cl.session = Blank /\ cl.sess = "CONNECTED" /\ cl.conn = "CONNECTING"
          /\ ~cl.retry /\ cl.state = "INIT" /\ cl.told = <<>> /\ ~cl.watchdog
          /\ cl.live = <<>> /\ cl.snap = 0 /\ cl.printed = 0
      BY <1>2, <3>1, <3>2, StartItchFacts
    <3>4. Life(cl)
      BY <3>3, Zenon DEF Life, Alive, Standing, Terminal
    <3>5. Exact(cl)
      BY <1>1, <2>2, <3>3 DEF Exact
    <3> QED BY <3>3, <3>4, <3>5, Zenon
  <2> QED BY <1>1, <2>1, <2>2, Zenon
<1>4. 1 \in 1..MaxFeedDay
  BY DEF FeedAssumption
<1>5. <<>> \in Seq(Packets) /\ cl.seq \in Nat
  BY <1>3 DEF Client
<1>6. HandlerTyped
  BY <1>1, <1>3, <1>4, <1>5, NoNetType, Zenon DEF HandlerTyped
<1>7. PhaseInv
  BY <1>1, <1>3, Zenon DEF PhaseInv, NoNet
<1>8. net.wire = <<>> /\ net.peer = "none"
  BY <1>1, Zenon DEF NoNet
<1>9. After(batch, cl.seq) = cl.seq
  BY <1>1, <1>5, FitEmpty, Zenon
<1>10. Pipe(1)
  BY <1>1, <1>8, <1>9, FitEmpty, Zenon DEF Pipe, Replying
<1> QED BY <1>3, <1>4, <1>6, <1>7, <1>10, Zenon DEF FeedInv, PipeInv

LEMMA FeedStutters ==
  ASSUME FeedInv, UNCHANGED handlerVars
  PROVE  FeedInv'
<1>1. UNCHANGED <<setup, cl, batch, busy, net, feedDay>>
  BY Zenon DEF handlerVars
<1>2. PipeInv'
  BY <1>1, PipeSame, Zenon DEF FeedInv
<1>3. Exact(cl)'
  BY <1>1, Zenon DEF FeedInv, Exact
<1> QED BY <1>1, <1>2, <1>3, Zenon DEF FeedInv, HandlerTyped, PhaseInv

LEMMA FeedSteps ==
  ASSUME FeedAssumption, FeedInv, [FeedNext]_handlerVars
  PROVE  FeedInv'
<1>1. CASE FeedClientStep
  BY <1>1, RetryStep, OnConnectedStep, StrayTickStep, RecvStep, RecvDoneStep,
     DisconnectSteps, WatchdogStep, LoginAcceptedStep, LoginRejectedStep,
     MessageStep, SnapshotMessageStep, EndOfSnapshotStep, HeartbeatStep,
     EndOfSessionStep, Zenon
     DEF FeedClientStep, FeedDispatch
<1>2. CASE FeedPeerStep \/ FeedPeerHeartbeat \/ FeedPeerLingered
  BY <1>2, PeerLoginStep, PeerReplayStep, PeerSnapshotStep, PeerHeartbeatStep,
     LingeredStep, Zenon DEF FeedPeerStep
<1>3. CASE ConnectError \/ OnConnectedSendFails \/ SendFails \/ FeedStop
  BY <1>3, ConnectErrorStep, OnConnectedSendFailsStep, DisconnectSteps, FeedStopStep, Zenon
<1>4. CASE FeedPeerDrop \/ FeedGoDark \/ FeedRollover
  BY <1>4, FaultSteps, Zenon
<1>5. CASE UNCHANGED handlerVars
  BY <1>5, FeedStutters, Zenon
<1> QED BY <1>1, <1>2, <1>3, <1>4, <1>5, Zenon DEF FeedNext

(* Whatever becomes of the connections, the market gets a whole snapshot,   *)
(* then every live message from the number its G names, each once, in order *)
(* and of one session, and tail prints the first --limit of them            *)
(* (handler.py _on_snapshot_complete and _on_itch_message, views.py).       *)
THEOREM FeedAppliesExactly ==
  ASSUME FeedAssumption
  PROVE  FeedSpec => []AppliedExactly
<1>1. FeedInit => FeedInv
  BY FeedStarts, Zenon
<1>2. FeedInv /\ [FeedNext]_handlerVars => FeedInv'
  BY FeedSteps, Zenon
<1>3. FeedInv => AppliedExactly
  <2> SUFFICES ASSUME FeedInv PROVE AppliedExactly
    BY Zenon
  <2>1. cl.live \in Seq(Applied)
    BY Zenon DEF FeedInv, HandlerTyped, Client
  <2>2. DOMAIN cl.live = 1..Len(cl.live)
    BY <2>1
  <2> QED BY <2>2, Zenon DEF FeedInv, Exact, AppliedExactly, LiveExact, TailExact
<1> QED BY <1>1, <1>2, <1>3, PTL DEF FeedSpec

(* The owner hears of the end once, and with it the connection, the retry   *)
(* and the watchdog are gone; a handler that has not ended always has       *)
(* something that will wake it (handler.py _end and _fail, glimpse.py       *)
(* _fail, tcp.py _schedule_retry).                                          *)
THEOREM FeedEndsOnce ==
  ASSUME FeedAssumption
  PROVE  FeedSpec => []OneEnding
<1>1. FeedInit => FeedInv
  BY FeedStarts, Zenon
<1>2. FeedInv /\ [FeedNext]_handlerVars => FeedInv'
  BY FeedSteps, Zenon
<1>3. FeedInv => OneEnding
  BY Zenon DEF FeedInv, Life, Ended, Alive, Standing, OneEnding, ToldOnce, NoZombie
<1> QED BY <1>1, <1>2, <1>3, PTL DEF FeedSpec
=============================================================================
