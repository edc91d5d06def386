----------------------------- MODULE ToolProofs -----------------------------
(***************************************************************************)
(* Proofs about the command line tools of jnxfeed: `jnxfeed probe` (Probe) *)
(* and `jnxfeed capture` (Capture).                                        *)
(***************************************************************************)
EXTENDS Probe, Capture, SequenceTheorems, TLAPS

-----------------------------------------------------------------------------
(* Probe: for any window, silence timeout and number of packets the exit    *)
(* code is honest and no wait is too long.                                  *)

(* The clock at each place of the program: the login window ends at Window, *)
(* the collecting one before 2 * Window, and recv is entered with the       *)
(* heartbeat just sent.                                                     *)
WaitInv ==
  /\ probeClock \in Nat /\ sent \in Nat /\ received \in Nat /\ deadline \in Nat
  /\ sent <= probeClock /\ received <= probeClock /\ probeClock < 2 * Window
  /\ probeAt = "connect" => probeClock = 0 /\ phase = "login"
  /\ probeAt \in {"top", "recv"} => probeClock <= deadline /\ probeClock - sent <= 1
  /\ probeAt = "recv" => probeClock < deadline /\ probeClock = sent
  /\ phase = "login" => deadline <= Window
  /\ deadline < 2 * Window

Flag == BOOLEAN
Seen == [messages : Nat, heartbeat : Flag, end : Flag, snapshot : Flag]

(* What the exit codes say of the session. *)
Proven(s) ==
  IF opts.glimpse THEN s.snapshot ELSE s.messages > 0 \/ s.heartbeat \/ s.end

CodeInv ==
  /\ seen \in Seen /\ phase \in {"login", "collect"}
  /\ probeAt # "done" => code = Running
  /\ code = EXIT_OK => phase = "collect" /\ Proven(seen)
  /\ code = EXIT_REJECTED => phase = "login"

-----------------------------------------------------------------------------
(* The clocks. *)

LEMMA WaitStarts ==
  ASSUME ProbeAssumption, ProbeInit
  PROVE  WaitInv
BY DEF ProbeAssumption, ProbeInit, WaitInv

(* recv returns at the latest when the next heartbeat is due. *)
LEMMA WakesForHeartbeat ==
  ASSUME ProbeAssumption, WaitInv
  PROVE  Wake <= sent + 1
<1> DEFINE a == sent + 1
           b == received + Silence
           S == {a, b, deadline}
<1>1. a \in Nat /\ b \in Nat /\ deadline \in Nat
  BY DEF ProbeAssumption, WaitInv
<1> HIDE DEF a, b
<1>2. \E x \in S : \A y \in S : x <= y
  <2>1. CASE a <= b /\ a <= deadline
    <3>1. \A y \in S : a <= y
      BY <1>1, <2>1
    <3> QED BY <3>1, Zenon
  <2>2. CASE b <= a /\ b <= deadline
    <3>1. \A y \in S : b <= y
      BY <1>1, <2>2
    <3> QED BY <3>1, Zenon
  <2>3. CASE deadline <= a /\ deadline <= b
    <3>1. \A y \in S : deadline <= y
      BY <1>1, <2>3
    <3> QED BY <3>1, Zenon
  <2> QED BY <1>1, <2>1, <2>2, <2>3
<1>3. Wake = CHOOSE x \in S : \A y \in S : x <= y
  BY Zenon DEF Wake, Min, a, b
<1>4. \A y \in S : Wake <= y
  BY <1>2, <1>3, Zenon
<1> QED BY <1>4, Zenon DEF a

LEMMA WaitSteps ==
  ASSUME ProbeAssumption, WaitInv, [ProbeNext]_probeVars
  PROVE  WaitInv'
<1> USE DEF ProbeAssumption
<1>1. CASE ProbeConnectFails \/ ConnectionLost
  BY <1>1, Zenon DEF ProbeConnectFails, ConnectionLost, ClientError, Exit, WaitInv
<1>2. CASE Connect
  BY <1>2 DEF Connect, WaitInv
<1>3. CASE LoopTop
  <2>1. /\ sent' = IF probeClock - sent >= 1 THEN probeClock ELSE sent
        /\ probeAt = "top"
        /\ UNCHANGED <<probeClock, phase, deadline, received>>
    BY <1>3, Zenon DEF LoopTop, HeartbeatDue
  <2>2. probeAt' = "done" \/ (probeAt' = "recv" /\ ~(probeClock >= deadline))
    BY <1>3, Zenon DEF LoopTop, ClientError, WaitTimeout, Exit, Expired
  <2>3. sent' = probeClock /\ probeClock <= deadline
    BY <2>1 DEF WaitInv
  <2> QED BY <2>1, <2>2, <2>3 DEF WaitInv
<1>4. CASE Wait
  <2>1. /\ probeAt = "recv" /\ probeClock' = probeClock + 1
        /\ UNCHANGED <<phase, deadline, sent, received>>
    BY <1>4, Zenon DEF Wait
  <2>2. probeClock' = sent + 1
    BY <2>1, Zenon DEF WaitInv
  <2>3. probeAt' = "top"
    <3>1. Wake <= probeClock' => probeAt' = "top"
      BY <1>4, Zenon DEF Wait
    <3> QED BY <2>2, <3>1, WakesForHeartbeat, Zenon
  <2> QED BY <2>1, <2>2, <2>3 DEF WaitInv
<1>5. ASSUME NEW pkt, LoginAnswer(pkt)
      PROVE  WaitInv'
  <2>1. /\ probeAt = "recv" /\ phase = "login"
        /\ received' = probeClock /\ UNCHANGED <<probeClock, sent>>
    BY <1>5, Zenon DEF LoginAnswer, Arrives
  <2>2. probeAt' \in {"top", "done"}
    BY <1>5, Zenon DEF LoginAnswer, Exit, ClientError
  <2>3. \/ phase' = "collect" /\ deadline' = probeClock + Window
        \/ UNCHANGED <<phase, deadline>>
    BY <1>5, Zenon DEF LoginAnswer, Remaining
  <2>4. probeClock < deadline /\ deadline <= Window
    BY <2>1, Zenon DEF WaitInv
  <2> QED BY <2>1, <2>2, <2>3, <2>4 DEF WaitInv
<1>6. ASSUME NEW pkt, Collect(pkt)
      PROVE  WaitInv'
  <2>1. /\ probeAt = "recv" /\ UNCHANGED <<probeClock, sent, phase, deadline>>
        /\ received' = probeClock
    BY <1>6, Zenon DEF Collect, Arrives, Remaining
  <2>2. probeAt' \in {"top", "done"}
    BY <1>6, Zenon DEF Collect, Exit
  <2> QED BY <2>1, <2>2, Zenon DEF WaitInv
<1>7. CASE UNCHANGED probeVars
  BY <1>7, Zenon DEF probeVars, WaitInv
<1> QED BY <1>1, <1>2, <1>3, <1>4, <1>5, <1>6, <1>7, Zenon DEF ProbeNext

(* While it waits the client is never silent for longer than a heartbeat    *)
(* interval, and it outlives neither its login window nor its collecting    *)
(* window, however the server dribbles (soupclient.py next_packet, login;   *)
(* probe.py _run_itch, _run_glimpse).                                       *)
THEOREM ProbeKeepsItsWaits ==
  ASSUME ProbeAssumption
  PROVE  ProbeSpec => []WaitsKept
<1>1. ProbeInit => WaitInv
  BY WaitStarts, Zenon
<1>2. WaitInv /\ [ProbeNext]_probeVars => WaitInv'
  BY WaitSteps, Zenon
<1>3. WaitInv => WaitsKept
  BY Zenon DEF WaitInv, WaitsKept, HeartbeatsKept, WithinWindow
<1> QED BY <1>1, <1>2, <1>3, PTL DEF ProbeSpec

-----------------------------------------------------------------------------
(* The exit code. *)

(* A verdict of success is backed by what was seen. *)
LEMMA VerdictProven ==
  ASSUME NEW s \in Seen, Verdict(s) = EXIT_OK
  PROVE  Proven(s)
<1>1. CASE opts.glimpse
  <2>1. EXIT_OK # EXIT_PROTOCOL
    BY DEF EXIT_OK, EXIT_PROTOCOL
  <2> QED BY <1>1, <2>1, Zenon DEF Verdict, GlimpseVerdict, Proven
<1>2. CASE ~opts.glimpse
  <2>1. ~(s.messages = 0 /\ ~s.heartbeat /\ ~s.end)
    BY <1>2 DEF Verdict, ItchVerdict, EXIT_OK, EXIT_PROTOCOL
  <2>2. s.messages = 0 \/ s.messages > 0
    BY DEF Seen
  <2> QED BY <1>2, <2>1, <2>2, Zenon DEF Proven
<1> QED BY <1>1, <1>2, Zenon

LEMMA VerdictIsOne == \A s : Verdict(s) \in {EXIT_OK, EXIT_PROTOCOL}
BY Zenon DEF Verdict, GlimpseVerdict, ItchVerdict

LEMMA CodeStarts ==
  ASSUME ProbeInit
  PROVE  CodeInv
<1>1. seen \in Seen
  BY Zenon DEF ProbeInit, Seen, Flag
<1> QED BY <1>1 DEF ProbeInit, CodeInv, EXIT_OK, EXIT_REJECTED, Running

(* Ending with the verdict of what was seen. *)
LEMMA VerdictExit ==
  ASSUME seen' \in Seen, UNCHANGED opts, phase' = "collect", Exit(Verdict(seen'))
  PROVE  CodeInv'
<1>1. code' = Verdict(seen') /\ probeAt' = "done"
  BY Zenon DEF Exit
<1>2. code' = EXIT_OK => Proven(seen')
  BY <1>1, VerdictProven, Zenon
<1>3. Proven(seen') <=> Proven(seen)'
  BY Zenon DEF Proven
<1>4. code' # EXIT_REJECTED
  BY <1>1, VerdictIsOne DEF EXIT_OK, EXIT_PROTOCOL, EXIT_REJECTED
<1> QED BY <1>1, <1>2, <1>3, <1>4, Zenon DEF CodeInv

(* Ending in an error. *)
LEMMA ErrorExit ==
  ASSUME seen' \in Seen, phase' \in {"login", "collect"}, NEW n, Exit(n),
         n \in {EXIT_PROTOCOL, EXIT_CONNECT} \/ (n = EXIT_REJECTED /\ phase' = "login")
  PROVE  CodeInv'
<1>1. code' = n /\ probeAt' = "done"
  BY Zenon DEF Exit
<1>2. code' # EXIT_OK
  BY <1>1 DEF EXIT_OK, EXIT_PROTOCOL, EXIT_CONNECT, EXIT_REJECTED
<1>3. code' = EXIT_REJECTED => phase' = "login"
  BY <1>1 DEF EXIT_PROTOCOL, EXIT_CONNECT, EXIT_REJECTED
<1> QED BY <1>1, <1>2, <1>3, Zenon DEF CodeInv

(* Going on. *)
LEMMA GoesOn ==
  ASSUME CodeInv, seen' \in Seen, phase' \in {"login", "collect"},
         probeAt # "done", UNCHANGED code
  PROVE  CodeInv'
<1>1. code' = Running
  BY Zenon DEF CodeInv
<1> QED BY <1>1 DEF CodeInv, Running, EXIT_OK, EXIT_REJECTED

LEMMA NotedSeen ==
  ASSUME seen \in Seen, NEW pkt
  PROVE  Noted(pkt) \in Seen
<1>1. TRUE \in Flag
  BY Zenon DEF Flag
<1>2. [seen EXCEPT !.messages = @ + 1] \in Seen
  BY DEF Seen
<1>3. [seen EXCEPT !.messages = @ + 1, !.snapshot = TRUE] \in Seen
  <2>1. seen.messages + 1 \in Nat
    BY DEF Seen
  <2>2. ASSUME NEW m \in Nat, NEW b \in Flag
        PROVE  [seen EXCEPT !.messages = m, !.snapshot = b] \in Seen
    BY Zenon DEF Seen
  <2> QED BY <1>1, <2>1, <2>2, Zenon
<1>4. [seen EXCEPT !.heartbeat = TRUE] \in Seen /\ [seen EXCEPT !.end = TRUE] \in Seen
  BY <1>1, Zenon DEF Seen
<1> QED BY <1>2, <1>3, <1>4, Zenon DEF Noted

LEMMA CodeSteps ==
  ASSUME CodeInv, [ProbeNext]_probeVars
  PROVE  CodeInv'
<1>1. seen \in Seen /\ phase \in {"login", "collect"}
  BY Zenon DEF CodeInv
<1>2. CASE ProbeConnectFails
  BY <1>1, <1>2, ErrorExit, Zenon DEF ProbeConnectFails
<1>3. CASE ConnectionLost
  BY <1>1, <1>3, ErrorExit, Zenon DEF ConnectionLost, ClientError
<1>4. CASE Connect
  BY <1>1, <1>4, GoesOn, Zenon DEF Connect
<1>5. CASE LoopTop
  <2>1. probeAt = "top" /\ UNCHANGED <<opts, phase, seen>>
    BY <1>5, Zenon DEF LoopTop
  <2>2. ClientError \/ WaitTimeout \/ UNCHANGED code
    BY <1>5, Zenon DEF LoopTop
  <2>3. CASE ClientError
    BY <1>1, <2>1, <2>3, ErrorExit, Zenon DEF ClientError
  <2>4. CASE WaitTimeout /\ phase = "login"
    BY <1>1, <2>1, <2>4, ErrorExit, Zenon DEF WaitTimeout
  <2>5. CASE WaitTimeout /\ phase # "login"
    BY <1>1, <2>1, <2>5, VerdictExit, Zenon DEF WaitTimeout
  <2>6. CASE UNCHANGED code
    BY <1>1, <2>1, <2>6, GoesOn, Zenon
  <2> QED BY <2>2, <2>3, <2>4, <2>5, <2>6, Zenon
<1>6. CASE Wait
  BY <1>1, <1>6, GoesOn, Zenon DEF Wait
<1>7. ASSUME NEW pkt, LoginAnswer(pkt)
      PROVE  CodeInv'
  <2>1. probeAt = "recv" /\ phase = "login" /\ UNCHANGED <<opts, seen>>
    BY <1>7, Zenon DEF LoginAnswer, Arrives
  <2>2. \/ phase' = "collect" /\ Exit(Verdict(seen))
        \/ phase' = "login" /\ Exit(EXIT_REJECTED)
        \/ Exit(EXIT_PROTOCOL)
        \/ UNCHANGED code
    BY <1>7, <2>1, Zenon DEF LoginAnswer, ClientError
  <2>5. phase' \in {"login", "collect"}
    BY <1>7, <2>1, Zenon DEF LoginAnswer
  <2>3. CASE phase' = "collect" /\ Exit(Verdict(seen))
    BY <1>1, <2>1, <2>3, VerdictExit, Zenon
  <2>4. CASE UNCHANGED code
    BY <1>1, <2>1, <2>4, <2>5, GoesOn, Zenon
  <2> QED BY <1>1, <2>1, <2>2, <2>3, <2>4, <2>5, ErrorExit, Zenon
<1>8. ASSUME NEW pkt, Collect(pkt)
      PROVE  CodeInv'
  <2>1. probeAt = "recv" /\ phase' = "collect" /\ UNCHANGED opts /\ seen' = Noted(pkt)
    BY <1>8, Zenon DEF Collect, Arrives
  <2>2. seen' \in Seen
    BY <1>1, <2>1, NotedSeen, Zenon
  <2>3. Exit(Verdict(seen')) \/ UNCHANGED code
    BY <1>8, Zenon DEF Collect
  <2> QED BY <2>1, <2>2, <2>3, VerdictExit, GoesOn, Zenon
<1>9. CASE UNCHANGED probeVars
  BY <1>9, Zenon DEF probeVars, CodeInv, Proven
<1> QED BY <1>2, <1>3, <1>4, <1>5, <1>6, <1>7, <1>8, <1>9, Zenon DEF ProbeNext

(* The exit code is 0 only after an accepted login and proof of a working   *)
(* link, a whole snapshot for GLIMPSE, and 4 only when the login was turned *)
(* down, for every order of packets, silences and errors (probe.py _run,    *)
(* _run_itch, _run_glimpse).                                                *)
THEOREM ProbeExitsHonestly == ProbeSpec => []ExitCodeHonest
<1>1. ProbeInit => CodeInv
  BY CodeStarts, Zenon
<1>2. CodeInv /\ [ProbeNext]_probeVars => CodeInv'
  BY CodeSteps, Zenon
<1>3. CodeInv => ExitCodeHonest
  BY Zenon DEF CodeInv, ExitCodeHonest, Proven
<1> QED BY <1>1, <1>2, <1>3, PTL DEF ProbeSpec

-----------------------------------------------------------------------------
(* Capture: for sessions of any length, any options and any number of lost  *)
(* connections, interrupts while waiting and resumed invocations, a file    *)
(* none of whose writers was torn off holds each message once, and the      *)
(* sidecar tells of it.                                                     *)

(* The inductive invariant *)

Places == {"off", "connect", "login", "pump", "body", "book", "advance",
           "finally", "final sidecar"}
Halves == [day : Nat, seq : Nat, part : {1, 2}]
Captures == [session : Nat, first : Nat, next : Nat, count : Nat,
             retries : Nat, since : Nat, wrote : Flag, max : Nat]
Sidecars == [session : Nat, first : Nat, next : Nat, count : Nat]

FileTyped ==
  /\ disk \in Seq(Halves) /\ buf \in Seq(Halves)
  /\ c \in Captures /\ sidecar \in Sidecars
  /\ captureAt \in Places /\ srv \in Nat /\ captureDay \in Nat /\ captureDay >= 1
  /\ captureAt \in {"off", "final sidecar"} => buf = <<>>

(* The file, flushed or not; where it begins; halves of a record that is    *)
(* not yet counted.                                                         *)
File == disk \o buf
Begins == IF c.first = NoFirst THEN c.next ELSE c.first
Uncounted == CASE captureAt = "body" -> 1 [] captureAt = "book" -> 2 [] OTHER -> 0

(* The file has as many records as are counted, from the first up to the    *)
(* next one wanted.                                                         *)
CountInv ==
  /\ Len(File) = 2 * c.count + Uncounted
  /\ IF c.first = NoFirst
     THEN c.count = 0 /\ captureAt # "advance"
     ELSE c.first + c.count = c.next + (IF captureAt = "advance" THEN 1 ELSE 0)

(* A session that has a name keeps it, and the exchange is in it while it   *)
(* sends.                                                                   *)
SessionInv ==
  /\ c.session = BlankSession => c.count = 0
  /\ captureAt \in {"pump", "body", "book", "advance"} =>
       c.session = captureDay /\ c.next >= 1
  /\ captureAt \in {"body", "book", "advance"} => srv = c.next

(* Between invocations the sidecar is the capture that ended. *)
SidecarInv ==
  captureAt = "off" => \/ sidecar = NoSidecar
                       \/ sidecar = [session |-> c.session, first |-> c.first,
                                     next |-> c.next, count |-> c.count]

CaptureInv ==
  /\ FileTyped
  /\ torn = {} => FileExact /\ CountInv /\ SessionInv /\ SidecarInv

-----------------------------------------------------------------------------
(* Sequences of halves *)

(* Where a flush or a spill puts the boundary between the file and the      *)
(* buffer does not change what the two hold.                                *)
LEMMA FlushKeeps ==
  ASSUME NEW S, NEW d \in Seq(S), NEW b \in Seq(S)
  PROVE  /\ <<>> \in Seq(S) /\ d \o b \in Seq(S) /\ (d \o b) \o <<>> = d \o b
         /\ d \o <<>> = d /\ Len(d \o b) = Len(d) + Len(b)
  OBVIOUS

LEMMA SpillKeeps ==
  ASSUME NEW S, NEW d \in Seq(S), NEW b \in Seq(S), NEW k \in 1..Len(b)
  PROVE  /\ d \o SubSeq(b, 1, k) \in Seq(S)
         /\ SubSeq(b, k + 1, Len(b)) \in Seq(S)
         /\ (d \o SubSeq(b, 1, k)) \o SubSeq(b, k + 1, Len(b)) = d \o b
<1> DEFINE x == SubSeq(b, 1, k)
           y == SubSeq(b, k + 1, Len(b))
<1>1. x \in Seq(S) /\ y \in Seq(S)
  OBVIOUS
<1>2. x \o y = b
  <2>1. 1 \in 1 .. Len(b) + 1 /\ k \in (1 - 1) .. Len(b) /\ Len(b) \in k .. Len(b)
    OBVIOUS
  <2>2. SubSeq(b, 1, k) \o SubSeq(b, k + 1, Len(b)) = SubSeq(b, 1, Len(b))
    BY <2>1, ConcatAdjacentSubSeq, Zenon
  <2> QED
    BY <2>2, SubSeqFull, Zenon
<1> HIDE DEF x, y
<1>3. d \o x \in Seq(S)
  BY <1>1
<1>4. (d \o x) \o y = d \o (x \o y)
  BY SMTT(30), <1>1
<1>5. (d \o x) \o y = d \o b
  BY <1>2, <1>4, Zenon
<1> QED
  BY <1>1, <1>3, <1>5, Zenon DEF x, y

(* Writing one half appends it to the file (write_message).                 *)
LEMMA WriteAppends ==
  ASSUME NEW S, NEW d \in Seq(S), NEW b \in Seq(S), NEW h \in S
  PROVE  /\ Append(b, h) \in Seq(S)
         /\ Len(d \o Append(b, h)) = Len(d \o b) + 1
         /\ \A i \in 1..Len(d \o b) : (d \o Append(b, h))[i] = (d \o b)[i]
         /\ (d \o Append(b, h))[Len(d \o b) + 1] = h
  OBVIOUS

(* The first and the second half of the record after m whole ones.          *)
LEMMA HalvesOfRecord ==
  ASSUME NEW m \in Nat
  PROVE  /\ (2 * m) \div 2 = m /\ (2 * m + 1) \div 2 = m
         /\ (2 * m + 1) % 2 = 1 /\ (2 * m + 2) % 2 = 0
  OBVIOUS

-----------------------------------------------------------------------------
(* One step *)

Good == FileExact /\ CountInv /\ SessionInv /\ SidecarInv

(* Steps that leave the file and what the capture knows of it alone: those  *)
(* of run() outside _write, and those of the exchange.                      *)
LEMMA QuietStep ==
  ASSUME torn = {} => Good, UNCHANGED torn, File' = File,
         UNCHANGED <<c.session, c.first, c.next, c.count>>,
         {captureAt, captureAt'} \cap {"body", "book", "advance"} = {},
         captureAt' = "pump" => captureAt = "pump" /\ UNCHANGED captureDay,
         captureAt' = "off" => captureAt = "off" /\ UNCHANGED sidecar
  PROVE  torn' = {} => Good'
<1>1. CASE torn # {}
  BY <1>1, Zenon
<1>2. CASE torn = {}
  <2>1. FileExact'
    BY <1>2, Zenon DEF Good, FileExact, File, Exact, Half
  <2>2. CountInv'
    BY <1>2, Zenon DEF Good, CountInv, Uncounted
  <2>3. SessionInv'
    BY <1>2, Zenon DEF Good, SessionInv
  <2>4. SidecarInv'
    BY <1>2, Zenon DEF Good, SidecarInv
  <2> QED
    BY <2>1, <2>2, <2>3, <2>4, Zenon DEF Good
<1> QED
  BY <1>1, <1>2, Zenon

(* What the steps assign to the _Capture object is one. *)
LEMMA CaptureTyped ==
  ASSUME CaptureAssumption, c \in Captures, sidecar \in Sidecars,
         captureDay \in Nat, srv \in Nat
  PROVE  /\ \A n, m \in Nat : Fresh(n, m) \in Captures
         /\ \A m \in Nat : [Fresh(sidecar.next, m) EXCEPT
              !.session = sidecar.session, !.first = sidecar.first,
              !.count = sidecar.count] \in Captures
         /\ [c EXCEPT !.session = captureDay, !.wrote = FALSE] \in Captures
         /\ Counted \in Captures /\ [Counted EXCEPT !.since = 0] \in Captures
         /\ [c EXCEPT !.next = srv + 1] \in Captures
<1>1. TRUE \in Flag /\ FALSE \in Flag
  BY Zenon DEF Flag
<1>2. \A n, m \in Nat : Fresh(n, m) \in Captures
  BY <1>1, Zenon DEF Fresh, Captures, CaptureAssumption, BlankSession, NoFirst
<1>3. ASSUME NEW m \in Nat
      PROVE  [Fresh(sidecar.next, m) EXCEPT
              !.session = sidecar.session, !.first = sidecar.first,
              !.count = sidecar.count] \in Captures
  <2> DEFINE f == Fresh(sidecar.next, m)
  <2>1. f \in Captures
    BY <1>2, Zenon DEF Sidecars
  <2> HIDE DEF f
  <2>2. [f EXCEPT !.session = sidecar.session, !.first = sidecar.first,
                  !.count = sidecar.count] \in Captures
    BY <2>1, Zenon DEF Captures, Sidecars
  <2> QED
    BY <2>2, Zenon DEF f
<1>4. [c EXCEPT !.session = captureDay, !.wrote = FALSE] \in Captures
  BY <1>1, Zenon DEF Captures
<1>5. Counted \in Captures
  <2> DEFINE first == IF c.first = NoFirst THEN c.next ELSE c.first
  <2>1. first \in Nat /\ c.count + 1 \in Nat /\ c.since + 1 \in Nat
    BY DEF Captures
  <2> HIDE DEF first
  <2>2. [c EXCEPT !.first = first, !.count = c.count + 1,
                  !.since = c.since + 1, !.wrote = TRUE] \in Captures
    BY <1>1, <2>1, Zenon DEF Captures
  <2> QED
    BY <2>2, Zenon DEF Counted, first
<1>6. [Counted EXCEPT !.since = 0] \in Captures
  BY <1>5, Zenon DEF Captures
<1>7. [c EXCEPT !.next = srv + 1] \in Captures
  BY DEF Captures
<1> QED
  BY <1>2, <1>3, <1>4, <1>5, <1>6, <1>7, Zenon

(* A sidecar that a capture writes is one. *)
LEMMA SidecarTyped ==
  ASSUME NEW x \in Captures, WriteSidecar(x)
  PROVE  sidecar' \in Sidecars
  BY Zenon DEF Captures, Sidecars, WriteSidecar

(* Every step keeps the types. *)
LEMMA StepTyped ==
  ASSUME CaptureAssumption, FileTyped, CaptureNext
  PROVE  FileTyped'
<1> USE DEF Places
<1>0. c \in Captures /\ sidecar \in Sidecars /\ captureDay \in Nat /\ srv \in Nat
  BY Zenon DEF FileTyped
<1>d. disk \in Seq(Halves) /\ buf \in Seq(Halves)
  BY Zenon DEF FileTyped
<1>e. <<>> \in Seq(Halves) /\ disk \o buf \in Seq(Halves)
  BY <1>d, FlushKeeps, Zenon
<1>1. ASSUME NEW s \in SeqArgs, NEW m \in MaxMessages, Launch(s, m)
      PROVE  FileTyped'
  <2>1. s \in Nat /\ m \in Nat
    BY Zenon DEF CaptureAssumption
  <2>2. c' \in Captures
    <3>1. CASE c' \in {Fresh(s, m), Fresh(1, m)}
      <4>1. \A n \in Nat : Fresh(n, m) \in Captures
        BY <1>0, <2>1, CaptureTyped, Zenon
      <4> QED
        BY <2>1, <3>1, <4>1, Zenon
    <3>2. CASE c' = [Fresh(sidecar.next, m) EXCEPT
                       !.session = sidecar.session, !.first = sidecar.first,
                       !.count = sidecar.count]
      BY <1>0, <2>1, <3>2, CaptureTyped, Zenon
    <3> QED
      BY <1>1, <3>1, <3>2, Zenon DEF Launch
  <2> QED
    BY <1>1, <1>e, <2>2, Zenon DEF Launch, FileTyped
<1>2. CASE CaptureConnect \/ LoginRejected \/ MaxReached \/ EndOfSession
  BY <1>2, Zenon DEF CaptureConnect, LoginRejected, MaxReached, EndOfSession, Leave, FileTyped
<1>3. ASSUME NEW start \in Starts, LoginAccepted(start)
      PROVE  FileTyped'
  <2>1. start \in Nat
    BY <1>0 DEF Starts, Captures, CaptureAssumption
  <2>2. c' \in Captures
    BY <1>0, <1>3, CaptureTyped, Zenon DEF LoginAccepted
  <2> QED
    BY <1>3, <2>1, <2>2, Zenon DEF LoginAccepted, FileTyped
<1>4. CASE Skip
  BY <1>4 DEF Skip, FileTyped
<1>5. CASE WritePrefix \/ WriteBody
  <2>1. Half(captureDay, srv, 1) \in Halves /\ Half(captureDay, srv, 2) \in Halves
    BY <1>0, Zenon DEF Half, Halves
  <2>2. buf' \in Seq(Halves)
    <3>1. \A h \in Halves : Append(buf, h) \in Seq(Halves)
      BY <1>d
    <3> QED
      BY <1>5, <2>1, <3>1, Zenon DEF WritePrefix, WriteBody
  <2> QED
    BY <1>5, <2>2, Zenon DEF WritePrefix, WriteBody, FileTyped
<1>6. CASE Book
  <2>1. c' \in Captures /\ Counted \in Captures
    BY <1>0, <1>6, CaptureTyped, Zenon DEF Book
  <2>2. disk' \in Seq(Halves) /\ buf' \in Seq(Halves)
    BY <1>6, <1>d, <1>e, Zenon DEF Book
  <2>3. sidecar' \in Sidecars
    BY <1>0, <1>6, <2>1, SidecarTyped, Zenon DEF Book
  <2> QED
    BY <1>6, <2>1, <2>2, <2>3, Zenon DEF Book, FileTyped
<1>7. CASE Advance
  <2>1. c' \in Captures
    BY <1>0, <1>7, CaptureTyped, Zenon DEF Advance
  <2> QED
    BY <1>7, <2>1 DEF Advance, FileTyped
<1>8. CASE Finally
  BY <1>8, <1>e, FlushKeeps, Zenon DEF Finally, FileTyped
<1>9. CASE FinalSidecar
  <2>1. sidecar' \in Sidecars
    BY <1>0, <1>9, SidecarTyped, Zenon DEF FinalSidecar
  <2> QED
    BY <1>9, <2>1, Zenon DEF FinalSidecar, FileTyped
<1>10. CASE ConnectOrLoginFails
  <2>1. c' \in Captures
    BY <1>0, <1>10 DEF ConnectOrLoginFails, Fails, Spend, Captures
  <2> QED
    BY <1>10, <2>1, Zenon DEF ConnectOrLoginFails, Fails, Leave, FileTyped
<1>11. CASE Lost
  <2> DEFINE left == IF c.wrote THEN CaptureRetries ELSE c.retries
  <2>1. left \in Nat
    BY <1>0, Zenon DEF Captures, CaptureAssumption
  <2>2. \/ left = 0 /\ Leave /\ UNCHANGED <<c, sidecar>>
        \/ /\ left > 0 /\ c' = [c EXCEPT !.retries = left - 1, !.since = 0]
           /\ WriteSidecar(c) /\ captureAt' = "connect"
    BY <1>11, Zenon DEF Lost
  <2> HIDE DEF left
  <2>3. c' \in Captures
    <3>1. left > 0 => left - 1 \in Nat
      BY <2>1
    <3>2. left > 0 => [c EXCEPT !.retries = left - 1, !.since = 0] \in Captures
      BY <1>0, <3>1, Zenon DEF Captures
    <3> QED
      BY <1>0, <2>2, <3>2, Zenon
  <2>4. sidecar' \in Sidecars
    BY <1>0, <2>2, SidecarTyped, Zenon
  <2>5. captureAt' \in {"finally", "connect"}
    BY <2>2, Zenon DEF Leave
  <2> QED
    BY <1>11, <2>3, <2>4, <2>5, Zenon DEF Lost, FileTyped
<1>12. CASE Interrupted
  <2>1. CASE InterruptedWaiting
    BY <1>12, <2>1, Zenon DEF Interrupted, InterruptedWaiting, Leave, FileTyped
  <2>2. CASE InterruptedWriting
    <3>1. c' \in Captures
      <4>1. Counted \in Captures
        BY <1>0, CaptureTyped, Zenon
      <4>2. HalfCounted \subseteq Captures
        BY <1>0, <4>1, Zenon DEF HalfCounted, Captures
      <4> QED
        BY <1>0, <2>2, <4>2, Zenon DEF InterruptedWriting
    <3> QED
      BY <1>12, <2>2, <3>1, Zenon DEF Interrupted, InterruptedWriting, Leave, FileTyped
  <2>3. CASE InterruptedLeaving
    BY <1>12, <1>e, <2>3, Zenon DEF Interrupted, InterruptedLeaving, FileTyped
  <2> QED
    BY <1>12, <2>1, <2>2, <2>3, Zenon DEF Interrupted
<1>13. CASE Spill
  <2>1. PICK k \in 1..Len(buf) : /\ disk' = disk \o SubSeq(buf, 1, k)
                                 /\ buf' = SubSeq(buf, k + 1, Len(buf))
    BY <1>13, Zenon DEF Spill
  <2>2. buf \in Seq(Halves) /\ disk \in Seq(Halves)
    BY Zenon DEF FileTyped
  <2>3. disk' \in Seq(Halves) /\ buf' \in Seq(Halves)
    BY <2>1, <2>2, SpillKeeps, Zenon
  <2>4. buf # <<>>
    BY <2>1, <2>2
  <2> QED
    BY <1>13, <2>3, <2>4, Zenon DEF Spill, FileTyped
<1>14. CASE Kill
  BY <1>14, <1>e, Zenon DEF Kill, FileTyped
<1>15. CASE NewDay
  <2>1. captureDay' \in Nat /\ captureDay' >= 1
    <3>1. captureDay' = captureDay + 1
      BY <1>15, Zenon DEF NewDay
    <3>2. captureDay \in Nat /\ captureDay >= 1
      BY Zenon DEF FileTyped
    <3> QED
      BY <3>1, <3>2
  <2> QED
    BY <1>15, <2>1, Zenon DEF NewDay, FileTyped
<1> QED
  BY <1>1, <1>2, <1>3, <1>4, <1>5, <1>6, <1>7, <1>8, <1>9, <1>10, <1>11,
     <1>12, <1>13, <1>14, <1>15, Zenon DEF CaptureNext, Work

(* _write: one half goes to the end of the file and is the one that belongs *)
(* there.                                                                   *)
LEMMA WriteStep ==
  ASSUME FileTyped, Good, torn = {}, NEW part \in {1, 2},
         captureAt = (IF part = 1 THEN "pump" ELSE "body"), srv = c.next,
         captureAt' = (IF part = 1 THEN "body" ELSE "book"),
         buf' = Append(buf, Half(captureDay, srv, part)),
         UNCHANGED <<disk, sidecar, c, srv, captureDay, torn>>
  PROVE  Good'
<1> DEFINE m == c.count
           h == Half(captureDay, srv, part)
<1>1. /\ m \in Nat /\ c.first \in Nat /\ c.next \in Nat /\ c.session \in Nat
      /\ disk \in Seq(Halves) /\ buf \in Seq(Halves)
      /\ srv \in Nat /\ captureDay \in Nat
  BY Zenon DEF FileTyped, Captures
<1>2. h \in Halves
  BY <1>1, Zenon DEF Half, Halves
<1>3. Len(File) = 2 * m + (part - 1)
  BY <1>1 DEF Good, CountInv, Uncounted
<1>4. /\ Len(File') = Len(File) + 1
      /\ \A i \in 1..Len(File) : File'[i] = File[i]
      /\ File'[Len(File) + 1] = h
  BY SMTT(30), <1>1, <1>2, WriteAppends DEF File
<1>5. c.session = captureDay /\ c.next = Begins + m /\ c.next >= 1
  <2>1. c.session = captureDay /\ c.next >= 1
    BY Zenon DEF Good, SessionInv
  <2>2. captureAt # "advance"
    BY Zenon
  <2>3. c.next = Begins + m
    BY SMTT(30), <1>1, <2>2 DEF Good, CountInv, Begins
  <2> QED
    BY <2>1, <2>3, Zenon
<1>6. CountInv'
  <2>1. Uncounted' = part
    BY Zenon DEF Uncounted
  <2>2. Len(File)' = 2 * c'.count + Uncounted'
    BY SMTT(30), <1>1, <1>3, <1>4, <2>1
  <2>3. captureAt # "advance" /\ captureAt' # "advance"
    BY Zenon
  <2> QED
    BY <2>2, <2>3, Zenon DEF Good, CountInv
<1>7. FileExact'
  <2>1. /\ File' \in Seq(Halves) /\ File \in Seq(Halves)
        /\ DOMAIN File' = 1..Len(File') /\ DOMAIN File = 1..Len(File)
    <3>1. buf' \in Seq(Halves) /\ disk' \in Seq(Halves)
      BY <1>1, <1>2
    <3> QED
      BY <1>1, <3>1 DEF File
  <2>2. ASSUME NEW i \in 1..Len(File)
        PROVE  File'[i] = Half(captureDay, Begins + (i - 1) \div 2,
                               IF i % 2 = 1 THEN 1 ELSE 2)
    <3>1. File[i] = Half(c.session, Begins + (i - 1) \div 2,
                         IF i % 2 = 1 THEN 1 ELSE 2)
      BY <2>1, Zenon DEF Good, FileExact, Exact, File, Begins
    <3> QED
      BY <1>4, <1>5, <3>1, Zenon
  <2>3. h = Half(captureDay, Begins + (Len(File) + 1 - 1) \div 2,
                 IF (Len(File) + 1) % 2 = 1 THEN 1 ELSE 2)
    <3>1. CASE part = 1
      <4>1. /\ (Len(File) + 1 - 1) \div 2 = m
            /\ (Len(File) + 1) % 2 = 1
        <5>1. Len(File) + 1 - 1 = 2 * m /\ Len(File) + 1 = 2 * m + 1
          BY <1>1, <1>3, <3>1
        <5> QED
          BY <1>1, <5>1, HalvesOfRecord, Zenon
      <4> QED
        BY <1>5, <3>1, <4>1, Zenon
    <3>2. CASE part = 2
      <4>1. /\ (Len(File) + 1 - 1) \div 2 = m
            /\ (Len(File) + 1) % 2 = 0
        <5>1. Len(File) + 1 - 1 = 2 * m + 1 /\ Len(File) + 1 = 2 * m + 2
          BY SMTT(30), <1>1, <1>3, <3>2
        <5> QED
          BY <1>1, <5>1, HalvesOfRecord, Zenon
      <4> QED
        BY <1>5, <3>2, <4>1, Zenon
    <3> QED
      BY <3>1, <3>2, Zenon
  <2>4. ASSUME NEW i \in 1..Len(File')
        PROVE  File'[i] = Half(captureDay, Begins + (i - 1) \div 2,
                               IF i % 2 = 1 THEN 1 ELSE 2)
    <3>1. Len(File) \in Nat
      BY <2>1
    <3>2. i \in 1..Len(File) \/ i = Len(File) + 1
      BY <1>4, <3>1
    <3> QED
      BY <1>4, <2>2, <2>3, <3>2
  <2>5. Exact(File', captureDay, Begins)
    BY <2>1, <2>4, Zenon DEF Exact
  <2>6. Begins' = Begins /\ c'.session = captureDay
    BY <1>5, Zenon DEF Begins
  <2> QED
    BY <2>5, <2>6, Zenon DEF FileExact, File, Begins, Exact
<1>8. SessionInv' /\ SidecarInv'
  BY <1>5, Zenon DEF Good, SessionInv, SidecarInv
<1> QED
  BY <1>6, <1>7, <1>8, Zenon DEF Good

(* Every step keeps the file, the counters and the sidecar in agreement. *)
LEMMA StepGood ==
  ASSUME CaptureAssumption, FileTyped, torn = {} => Good, CaptureNext
  PROVE  torn' = {} => Good'
<1>0. /\ c \in Captures /\ disk \in Seq(Halves) /\ buf \in Seq(Halves)
      /\ captureDay \in Nat /\ captureDay >= 1
  BY Zenon DEF FileTyped
<1>1. ASSUME NEW s \in SeqArgs, NEW m \in MaxMessages, Launch(s, m)
      PROVE  torn' = {} => Good'
  <2>1. buf = <<>> /\ buf' = <<>> /\ captureAt = "off" /\ captureAt' = "connect"
    BY <1>1, Zenon DEF Launch, FileTyped
  <2>2. ASSUME NEW n \in Nat, c' = Fresh(n, m), disk' = <<>>
        PROVE  Good'
    <3>1. File' = <<>>
      BY <2>1, <2>2 DEF File
    <3>2. c'.session = BlankSession /\ c'.first = NoFirst /\ c'.count = 0
      BY <2>2, Zenon DEF Fresh
    <3>3. FileExact'
      BY <3>1 DEF FileExact, Exact, File
    <3>4. CountInv'
      BY <2>1, <3>1, <3>2 DEF CountInv, Uncounted
    <3> QED
      BY <2>1, <3>2, <3>3, <3>4, Zenon DEF Good, SessionInv, SidecarInv
  <2>3. ASSUME sidecar # NoSidecar, UNCHANGED <<disk, torn>>,
               c' = [Fresh(sidecar.next, m) EXCEPT
                       !.session = sidecar.session, !.first = sidecar.first,
                       !.count = sidecar.count],
               torn = {}
        PROVE  Good'
    <3>1. sidecar = [session |-> c.session, first |-> c.first,
                     next |-> c.next, count |-> c.count]
      BY <2>1, <2>3, Zenon DEF Good, SidecarInv
    <3>2. /\ c'.session = sidecar.session /\ c'.first = sidecar.first
          /\ c'.next = sidecar.next /\ c'.count = sidecar.count
      BY <2>3, Zenon DEF Fresh
    <3>3. UNCHANGED <<c.session, c.first, c.next, c.count>>
      BY <3>1, <3>2, Zenon
    <3>4. File' = File
      BY <2>1, <2>3, Zenon DEF File
    <3> QED
      BY <2>1, <2>3, <3>3, <3>4, QuietStep, Zenon
  <2>4. s \in Nat
    BY Zenon DEF CaptureAssumption
  <2> QED
    BY <1>1, <2>2, <2>3, <2>4 DEF Launch
<1>2. CASE CaptureConnect \/ LoginRejected \/ MaxReached \/ EndOfSession \/ Skip
  <2>1. File' = File /\ UNCHANGED <<c, torn, sidecar, captureDay>>
    BY <1>2, Zenon DEF CaptureConnect, LoginRejected, MaxReached, EndOfSession, Skip, File
  <2>2. /\ {captureAt, captureAt'} \cap {"body", "book", "advance", "off"} = {}
        /\ captureAt' = "pump" => captureAt = "pump"
    BY <1>2, Zenon DEF CaptureConnect, LoginRejected, MaxReached, EndOfSession, Skip, Leave
  <2> QED
    BY <2>1, <2>2, QuietStep, Zenon
<1>3. ASSUME NEW start \in Starts, LoginAccepted(start), torn = {}
      PROVE  Good'
  <2>1. /\ File' = File /\ UNCHANGED <<torn, captureDay>>
        /\ captureAt = "login" /\ captureAt' = (IF start > c.next THEN "finally" ELSE "pump")
    BY <1>3, Zenon DEF LoginAccepted, File
  <2>2. /\ c'.session = captureDay /\ c'.first = c.first
        /\ c'.next = c.next /\ c'.count = c.count
    BY <1>0, <1>3, Zenon DEF LoginAccepted, Captures
  <2>3. CountInv'
    BY <1>3, <2>1, <2>2, Zenon DEF Good, CountInv, Uncounted
  <2>4. captureAt' = "pump" => c.next >= 1
    BY <1>0, <1>3, <2>1 DEF Starts, Captures, CaptureAssumption
  <2>5. SessionInv' /\ SidecarInv'
    BY <1>0, <2>1, <2>2, <2>4 DEF SessionInv, SidecarInv, BlankSession
  <2>6. FileExact'
    <3>1. CASE c.session = captureDay
      BY <1>3, <2>1, <2>2, <3>1, Zenon DEF Good, FileExact, Exact, File
    <3>2. CASE c.session = BlankSession
      <4>1. Len(File) = 0
        BY <1>3, <2>1, <3>2 DEF Good, SessionInv, CountInv, Uncounted
      <4>2. DOMAIN File' = {}
        BY <1>0, <2>1, <4>1 DEF File
      <4> QED
        BY <4>2, Zenon DEF FileExact, Exact, File
    <3> QED
      BY <1>3, <3>1, <3>2, Zenon DEF LoginAccepted
  <2> QED
    BY <2>3, <2>5, <2>6, Zenon DEF Good
<1>4. CASE WritePrefix
  BY <1>4, WriteStep, Zenon DEF WritePrefix, WantedSeq
<1>5. CASE WriteBody
  <2>1. torn = {} => srv = c.next
    BY <1>5, Zenon DEF WriteBody, Good, SessionInv
  <2> QED
    BY <1>5, <2>1, WriteStep DEF WriteBody
<1>6. ASSUME Book, torn = {}
      PROVE  Good'
  <2>1. File' = File /\ UNCHANGED <<srv, captureDay, torn>>
    BY <1>0, <1>6, FlushKeeps, Zenon DEF Book, File
  <2>2. /\ c'.session = c.session /\ c'.next = c.next
        /\ c'.count = c.count + 1
        /\ c'.first = IF c.first = NoFirst THEN c.next ELSE c.first
    <3>1. /\ Counted.session = c.session /\ Counted.next = c.next
          /\ Counted.count = c.count + 1
          /\ Counted.first = IF c.first = NoFirst THEN c.next ELSE c.first
      BY <1>0, Zenon DEF Counted, Captures
    <3>2. Counted \in Captures
      BY <1>0, CaptureTyped, Zenon DEF FileTyped
    <3>3. c' = Counted \/ c' = [Counted EXCEPT !.since = 0]
      BY <1>6, Zenon DEF Book
    <3> QED
      BY <3>1, <3>2, <3>3, Zenon DEF Captures
  <2>3. captureAt = "book" /\ captureAt' = "advance"
    BY <1>6, Zenon DEF Book
  <2>4. c.session = captureDay /\ c.next >= 1 /\ srv = c.next
    BY <1>6, <2>3, Zenon DEF Good, SessionInv
  <2>5. c.next \in Nat /\ c.count \in Nat /\ c.first \in Nat
    BY <1>0, Zenon DEF Captures
  <2>6. c'.first # NoFirst /\ Begins' = Begins
    BY <2>2, <2>4, <2>5 DEF NoFirst, Begins
  <2>7. CountInv'
    <3>1. Uncounted = 2 /\ Uncounted' = 0
      BY <2>3, Zenon DEF Uncounted
    <3>2. Len(File) = 2 * c.count + 2
      BY <1>6, <3>1, Zenon DEF Good, CountInv
    <3>3. Len(File') = 2 * c'.count + Uncounted'
      BY <2>1, <2>2, <2>5, <3>1, <3>2
    <3>4. c'.first + c'.count = c'.next + 1
      <4>1. CASE c.first = NoFirst
        <5>1. c.count = 0
          BY <1>6, <4>1, Zenon DEF Good, CountInv
        <5> QED
          BY <2>2, <2>5, <4>1, <5>1
      <4>2. CASE c.first # NoFirst
        <5>1. c.first + c.count = c.next + 0
          BY <1>6, <2>3, <4>2, Zenon DEF Good, CountInv
        <5> QED
          BY <2>2, <2>5, <4>2, <5>1
      <4> QED
        BY <4>1, <4>2, Zenon
    <3> QED
      BY <2>3, <2>6, <3>3, <3>4, Zenon DEF CountInv
  <2>8. FileExact'
    BY <1>6, <2>1, <2>2, <2>6, Zenon DEF Good, FileExact, Exact, File, Begins
  <2>9. SessionInv' /\ SidecarInv'
    BY <1>0, <2>1, <2>2, <2>3, <2>4 DEF SessionInv, SidecarInv, BlankSession
  <2> QED
    BY <2>7, <2>8, <2>9, Zenon DEF Good
<1>7. ASSUME Advance, torn = {}
      PROVE  Good'
  <2>1. /\ File' = File /\ UNCHANGED <<captureDay, torn>>
        /\ captureAt = "advance" /\ captureAt' = "pump"
    BY <1>7, Zenon DEF Advance, File
  <2>2. /\ c'.session = c.session /\ c'.first = c.first
        /\ c'.count = c.count /\ c'.next = srv + 1
    BY <1>0, <1>7, Zenon DEF Advance, Captures
  <2>3. c.session = captureDay /\ c.next >= 1 /\ srv = c.next
    BY <1>7, <2>1, Zenon DEF Good, SessionInv
  <2>4. c.first # NoFirst /\ c.first + c.count = c.next + 1
    BY <1>7, <2>1, Zenon DEF Good, CountInv
  <2>5. c.next \in Nat
    BY <1>0, Zenon DEF Captures
  <2>6. CountInv'
    BY <1>7, <2>1, <2>2, <2>3, <2>4, <2>5 DEF Good, CountInv, Uncounted
  <2>7. FileExact'
    BY <1>7, <2>1, <2>2, <2>4, Zenon DEF Good, FileExact, Exact, File
  <2>8. SessionInv' /\ SidecarInv'
    BY <1>0, <2>1, <2>2, <2>3, <2>5 DEF SessionInv, SidecarInv, BlankSession
  <2> QED
    BY <2>6, <2>7, <2>8, Zenon DEF Good
<1>8. CASE Finally
  <2>1. File' = File
    BY <1>0, <1>8, FlushKeeps, Zenon DEF Finally, File
  <2> QED
    BY <1>8, <2>1, QuietStep, Zenon DEF Finally
<1>9. ASSUME FinalSidecar, torn = {}
      PROVE  Good'
  <2>1. /\ File' = File /\ UNCHANGED <<c, torn>>
        /\ captureAt = "final sidecar" /\ captureAt' = "off"
    BY <1>9, Zenon DEF FinalSidecar, File
  <2>2. FileExact'
    BY <1>9, <2>1, Zenon DEF Good, FileExact, Exact, File
  <2>3. CountInv'
    BY <1>9, <2>1, Zenon DEF Good, CountInv, Uncounted
  <2>4. SessionInv' /\ SidecarInv'
    BY <1>9, <2>1, Zenon DEF Good, SessionInv, SidecarInv, FinalSidecar, WriteSidecar
  <2> QED
    BY <2>2, <2>3, <2>4, Zenon DEF Good
<1>10. CASE ConnectOrLoginFails \/ Lost \/ (Interrupted /\ InterruptedWaiting)
  <2>1. File' = File /\ UNCHANGED <<torn, captureDay>>
    BY <1>10, Zenon DEF ConnectOrLoginFails, Fails, Lost, Interrupted, InterruptedWaiting, File
  <2>2. /\ {captureAt, captureAt'} \cap {"body", "book", "advance", "off"} = {}
        /\ captureAt' # "pump"
    BY <1>10, Zenon DEF ConnectOrLoginFails, Fails, Lost, Interrupted, InterruptedWaiting, Leave
  <2>3. UNCHANGED <<c.session, c.first, c.next, c.count>>
    <3>1. CASE UNCHANGED c
      BY <3>1, Zenon
    <3>2. CASE ConnectOrLoginFails /\ Spend
      BY <1>0, <3>2, Zenon DEF Spend, Captures
    <3>3. CASE Lost /\ ~UNCHANGED c
      <4>1. PICK r : c' = [c EXCEPT !.retries = r, !.since = 0]
        BY <3>3, Zenon DEF Lost
      <4> QED
        BY <1>0, <4>1, Zenon DEF Captures
    <3> QED
      BY <1>10, <3>1, <3>2, <3>3, Zenon DEF ConnectOrLoginFails, Fails, Interrupted,
         InterruptedWaiting
  <2> QED
    BY <2>1, <2>2, <2>3, QuietStep, Zenon
<1>11. ASSUME Spill, torn = {}
       PROVE  Good'
  <2>1. PICK k \in 1..Len(buf) : /\ disk' = disk \o SubSeq(buf, 1, k)
                                 /\ buf' = SubSeq(buf, k + 1, Len(buf))
    BY <1>11, Zenon DEF Spill
  <2>2. File' = File /\ UNCHANGED <<sidecar, c, captureAt, srv, captureDay, torn>>
    BY <1>0, <1>11, <2>1, SpillKeeps, Zenon DEF Spill, File
  <2>3. FileExact'
    BY <1>11, <2>2, Zenon DEF Good, FileExact, Exact, File
  <2>4. CountInv'
    BY <1>11, <2>2, Zenon DEF Good, CountInv, Uncounted
  <2>5. SessionInv' /\ SidecarInv'
    BY <1>11, <2>2, Zenon DEF Good, SessionInv, SidecarInv
  <2> QED
    BY <2>3, <2>4, <2>5, Zenon DEF Good
<1>12. CASE Kill \/ InterruptedWriting \/ InterruptedLeaving
  <2>1. torn' # {}
    BY <1>12, Zenon DEF Kill, InterruptedWriting, InterruptedLeaving
  <2> QED
    BY <2>1, Zenon
<1>13. CASE NewDay
  <2>1. File' = File
    BY <1>13, Zenon DEF NewDay, File
  <2> QED
    BY <1>13, <2>1, QuietStep, Zenon DEF NewDay
<1>14. (Work \/ Spill) => UNCHANGED torn
  BY Zenon DEF Work, CaptureConnect, LoginRejected, LoginAccepted, MaxReached, Skip,
         WritePrefix, WriteBody, Book, Advance, EndOfSession, Finally,
         FinalSidecar, Spill
<1> QED
  BY <1>1, <1>2, <1>3, <1>4, <1>5, <1>6, <1>7, <1>8, <1>9, <1>10, <1>11,
     <1>12, <1>13, <1>14, Zenon DEF CaptureNext, Work, Interrupted

-----------------------------------------------------------------------------
(* The theorems *)

LEMMA InitInv ==
  ASSUME CaptureAssumption, CaptureInit
  PROVE  CaptureInv
<1>1. disk = <<>> /\ buf = <<>> /\ c = Fresh(1, NoMax) /\ captureAt = "off"
  BY Zenon DEF CaptureInit
<1>2. FileTyped
  <2>1. c \in Captures
    <3>1. FALSE \in Flag
      BY Zenon DEF Flag
    <3> QED
      BY <1>1, <3>1, Zenon DEF Fresh, Captures, CaptureAssumption, BlankSession, NoFirst, NoMax
  <2>2. sidecar \in Sidecars
    BY Zenon DEF CaptureInit, NoSidecar, Sidecars, BlankSession, NoFirst, NoSeq
  <2>3. <<>> \in Seq(Halves)
    OBVIOUS
  <2> QED
    BY <1>1, <2>1, <2>2, <2>3 DEF CaptureInit, FileTyped, Places
<1>3. File = <<>>
  BY <1>1 DEF File
<1>4. c.session = BlankSession /\ c.first = NoFirst /\ c.count = 0
  BY <1>1, Zenon DEF Fresh
<1>5. FileExact
  BY <1>3 DEF FileExact, Exact, File
<1>6. CountInv
  BY <1>1, <1>3, <1>4 DEF CountInv, Uncounted
<1>7. SessionInv /\ SidecarInv
  BY <1>1, <1>4, Zenon DEF CaptureInit, SessionInv, SidecarInv
<1> QED
  BY <1>2, <1>5, <1>6, <1>7, Zenon DEF CaptureInv

LEMMA NextInv ==
  ASSUME CaptureAssumption, CaptureInv, [CaptureNext]_captureVars
  PROVE  CaptureInv'
<1>1. FileTyped /\ (torn = {} => Good)
  BY Zenon DEF CaptureInv, Good
<1>2. CASE CaptureNext
  <2>1. FileTyped' /\ (torn' = {} => Good')
    BY <1>1, <1>2, StepTyped, StepGood, Zenon
  <2> QED
    BY <2>1, Zenon DEF CaptureInv, Good
<1>3. CASE UNCHANGED captureVars
  <2>1. FileTyped'
    BY <1>1, <1>3, Zenon DEF FileTyped, captureVars
  <2>2. UNCHANGED <<File, Uncounted>>
    BY <1>3, Zenon DEF captureVars, File, Uncounted
  <2>3. torn' = {} => FileExact'
    BY <1>1, <1>3, Zenon DEF Good, FileExact, Exact, captureVars
  <2>4. torn' = {} => CountInv' /\ SessionInv' /\ SidecarInv'
    BY <1>1, <1>3, <2>2, Zenon DEF Good, CountInv, SessionInv, SidecarInv, captureVars
  <2> QED
    BY <2>1, <2>3, <2>4, Zenon DEF CaptureInv
<1> QED
  BY <1>2, <1>3, Zenon

LEMMA InvSuffices ==
  ASSUME CaptureInv
  PROVE  CaptureExact
<1>1. FileExact
  BY Zenon DEF CaptureInv, FileExact
<1>2. SidecarTrue
  <2>1. SUFFICES ASSUME captureAt = "off", sidecar # NoSidecar, torn = {}
                 PROVE  /\ Len(disk) = 2 * sidecar.count
                        /\ sidecar.count > 0 =>
                             /\ sidecar.next = sidecar.first + sidecar.count
                             /\ Exact(disk, sidecar.session, sidecar.first)
    BY Zenon DEF SidecarTrue, SidecarDescribes
  <2>2. buf = <<>> /\ disk \in Seq(Halves)
    BY <2>1, Zenon DEF CaptureInv, FileTyped
  <2>3. File = disk
    BY <2>2, FlushKeeps, Zenon DEF File
  <2>4. /\ sidecar.session = c.session /\ sidecar.first = c.first
        /\ sidecar.next = c.next /\ sidecar.count = c.count
    BY <2>1 DEF CaptureInv, SidecarInv
  <2>5. c.count \in Nat /\ c.first \in Nat /\ c.next \in Nat
    BY Zenon DEF CaptureInv, FileTyped, Captures
  <2>6. Len(disk) = 2 * c.count
    BY <2>1, <2>3, <2>5 DEF CaptureInv, CountInv, Uncounted
  <2>7. c.count > 0 => c.first # NoFirst /\ c.next = c.first + c.count
    BY <2>1, <2>5 DEF CaptureInv, CountInv
  <2>8. c.first # NoFirst => Exact(disk, c.session, c.first)
    BY <1>1, <2>1, <2>3, Zenon DEF FileExact, File, Exact
  <2> QED
    BY <2>4, <2>6, <2>7, <2>8, Zenon
<1> QED
  BY <1>1, <1>2, Zenon DEF CaptureExact

(* Whatever connections are lost, wherever the exchange restarts, however   *)
(* often the tool is interrupted while it waits and run again: a capture    *)
(* none of whose writers was killed, nor interrupted inside _write, before  *)
(* next_seq advanced or in the finally clause, holds each message of one    *)
(* session once and in order, and between invocations its sidecar says what *)
(* it holds (_pump, _write, _resume, write_sidecar).                        *)
THEOREM CaptureIsExact ==
  ASSUME CaptureAssumption
  PROVE  CaptureSpec => []CaptureExact
<1>1. CaptureInit => CaptureInv
  BY InitInv, Zenon
<1>2. CaptureInv /\ [CaptureNext]_captureVars => CaptureInv'
  BY NextInv, Zenon
<1>3. CaptureInv => CaptureExact
  BY InvSuffices, Zenon
<1> QED
  BY <1>1, <1>2, <1>3, PTL DEF CaptureSpec
=============================================================================
