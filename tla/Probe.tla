------------------------------- MODULE Probe --------------------------------
(***************************************************************************)
(* `jnxfeed probe` (jnxfeed/cli/probe.py) on the blocking SoupBinTCP       *)
(* client (jnxfeed/cli/soupclient.py): one connect, one login, then either *)
(* the first messages of a live session or a GLIMPSE snapshot, within a    *)
(* window of time, against a server that may stay silent, dribble          *)
(* heartbeats, reject, or close at any moment.                             *)
(*                                                                         *)
(* One unit of the clock is HEARTBEAT_INTERVAL.                            *)
(***************************************************************************)
EXTENDS Integers, FiniteSetsExt

CONSTANTS
  Window,     \* --timeout
  Silence,    \* silence_timeout
  WantedSet,  \* --messages values
  MaxPackets  \* bound: packets of the server

ProbeAssumption ==
  Window \in Nat \ {0} /\ Silence \in Nat \ {0} /\ MaxPackets \in Nat

VARIABLES
  opts,           \* [glimpse, wanted]
  probeClock,
  probeAt,        \* "connect", "top" of next_packet's loop, "recv", "done"
  phase,          \* "login" or "collect"
  deadline,       \* of the phase
  sent, received, \* _last_sent, _last_received
  seen,           \* [messages, heartbeat, end, snapshot]
  code,           \* exit code
  packets

probeVars == <<opts, probeClock, probeAt, phase, deadline, sent, received,
               seen, code, packets>>

EXIT_OK == 0
EXIT_CONNECT == 3
EXIT_REJECTED == 4
EXIT_PROTOCOL == 5
Running == 99

Exit(n) == code' = n /\ probeAt' = "done"

-----------------------------------------------------------------------------
(* _run: connect, then login *)

ProbeConnectFails ==
  /\ probeAt = "connect"
  /\ Exit(EXIT_CONNECT)
  /\ UNCHANGED <<opts, probeClock, phase, deadline, sent, received, seen, packets>>

Connect ==
  /\ probeAt = "connect"
  /\ probeAt' = "top"
  /\ deadline' = probeClock + Window
  /\ sent' = probeClock /\ received' = probeClock
  /\ UNCHANGED <<opts, probeClock, phase, seen, code, packets>>

(* What the phase makes of a finished wait: WaitTimeout ends the collecting *)
(* loops normally, every other error, and any error during login, is a      *)
(* protocol error.                                                          *)
ItchVerdict(s) ==
  IF s.messages = 0 /\ ~s.heartbeat /\ ~s.end THEN EXIT_PROTOCOL ELSE EXIT_OK

(* Faulty variant: any message makes a snapshot. *)
GlimpseVerdictAny(s) == IF s.messages > 0 THEN EXIT_OK ELSE EXIT_PROTOCOL

GlimpseVerdict(s) == IF s.snapshot THEN EXIT_OK ELSE EXIT_PROTOCOL
Verdict(s) == IF opts.glimpse THEN GlimpseVerdict(s) ELSE ItchVerdict(s)

WaitTimeout == Exit(IF phase = "login" THEN EXIT_PROTOCOL ELSE Verdict(seen))

ClientError == Exit(EXIT_PROTOCOL)

-----------------------------------------------------------------------------
(* next_packet *)

(* The top of the loop: a due heartbeat, then the silence check, then the   *)
(* caller's deadline, else recv.                                            *)
HeartbeatDue == probeClock - sent >= 1
Silent == probeClock - received >= Silence
Expired == probeClock >= deadline

LoopTop ==
  /\ probeAt = "top"
  /\ sent' = IF HeartbeatDue THEN probeClock ELSE sent
  /\ CASE Silent -> ClientError
       [] ~Silent /\ Expired -> WaitTimeout
       [] OTHER -> probeAt' = "recv" /\ UNCHANGED code
  /\ UNCHANGED <<opts, probeClock, phase, deadline, received, seen, packets>>

(* The heartbeat cannot be sent; or recv fails, or returns EOF. *)
ConnectionLost ==
  /\ probeAt = "recv" \/ (probeAt = "top" /\ HeartbeatDue)
  /\ ClientError
  /\ UNCHANGED <<opts, probeClock, phase, deadline, sent, received, seen, packets>>

(* Faulty variant: the wait ignores the heartbeat. *)
WakeNoHeartbeat == Min({received + Silence, deadline})

(* `wait`: whichever of heartbeat, silence cutoff and deadline is first. *)
Wake == Min({sent + 1, received + Silence, deadline})

Wait ==
  /\ probeAt = "recv"
  /\ probeClock' = probeClock + 1
  /\ probeAt' = IF probeClock' >= Wake THEN "top" ELSE "recv"
  /\ UNCHANGED <<opts, phase, deadline, sent, received, seen, code, packets>>

-----------------------------------------------------------------------------
(* A packet arrives *)

(* The deadline is fixed; each wait gets what remains of it. *)
Remaining == deadline

Arrives ==
  /\ probeAt = "recv"
  /\ packets < MaxPackets
  /\ packets' = packets + 1
  /\ received' = probeClock
  /\ UNCHANGED <<opts, probeClock, sent>>

(* Heartbeats and debug packets before the verdict are harmless, anything   *)
(* else but the verdict raises ProtocolError.                               *)
LoginAnswer(pkt) ==
  /\ phase = "login"
  /\ Arrives
  /\ \/ /\ pkt = "accepted"
        /\ phase' = "collect"
        /\ deadline' = probeClock + Window
        /\ IF ~opts.glimpse /\ opts.wanted = 0 THEN Exit(Verdict(seen))
                                  ELSE probeAt' = "top" /\ UNCHANGED code
     \/ pkt = "rejected" /\ Exit(EXIT_REJECTED) /\ UNCHANGED <<phase, deadline>>
     \/ /\ pkt = "heartbeat"
        /\ probeAt' = "top" /\ deadline' = Remaining
        /\ UNCHANGED <<phase, code>>
     \/ pkt = "data" /\ ClientError /\ UNCHANGED <<phase, deadline>>
  /\ UNCHANGED seen

Noted(pkt) ==
  CASE pkt = "data" -> [seen EXCEPT !.messages = @ + 1]
    [] pkt = "G" -> [seen EXCEPT !.messages = @ + 1, !.snapshot = TRUE]
    [] pkt = "heartbeat" -> [seen EXCEPT !.heartbeat = TRUE]
    [] OTHER -> [seen EXCEPT !.end = TRUE]

Enough(s) ==
  s.end \/ IF opts.glimpse THEN s.snapshot ELSE s.messages >= opts.wanted

(* _run_itch and _run_glimpse; a G message means something to the latter    *)
(* only.  Success ends in a logout, failure in a plain close.               *)
Collect(pkt) ==
  /\ phase = "collect"
  /\ Arrives
  /\ pkt = "G" => opts.glimpse
  /\ seen' = Noted(pkt)
  /\ deadline' = Remaining
  /\ IF Enough(seen') THEN Exit(Verdict(seen'))
     ELSE probeAt' = "top" /\ UNCHANGED code
  /\ UNCHANGED phase

-----------------------------------------------------------------------------
ProbeInit ==
  /\ opts \in [glimpse : BOOLEAN, wanted : WantedSet]
  /\ probeClock = 0
  /\ probeAt = "connect" /\ phase = "login"
  /\ deadline = 0 /\ sent = 0 /\ received = 0
  /\ seen = [messages |-> 0, heartbeat |-> FALSE, end |-> FALSE,
             snapshot |-> FALSE]
  /\ code = Running
  /\ packets = 0

ProbeNext ==
  \/ ProbeConnectFails \/ Connect
  \/ LoopTop \/ ConnectionLost \/ Wait
  \/ \E pkt \in {"accepted", "rejected", "heartbeat", "data"} : LoginAnswer(pkt)
  \/ \E pkt \in {"heartbeat", "data", "G", "Z"} : Collect(pkt)

ProbeSpec == ProbeInit /\ [][ProbeNext]_probeVars

(* The process and the clock run; the server owes nothing, not even an end  *)
(* of the connection.                                                       *)
ProbeFairSpec ==
  /\ ProbeSpec
  /\ WF_probeVars(Connect \/ ProbeConnectFails)
  /\ WF_probeVars(LoopTop) /\ WF_probeVars(Wait)

-----------------------------------------------------------------------------
(* Type invariant of the clocks and the exit code. *)
ProbeTypeOK ==
  /\ probeClock \in 0..(2 * Window)
  /\ sent <= probeClock /\ received <= probeClock
  /\ code = Running <=> probeAt # "done"
  /\ code \in {EXIT_OK, EXIT_CONNECT, EXIT_REJECTED, EXIT_PROTOCOL, Running}

(* The exit code is what the help text says: 0 only after an accepted login *)
(* and proof of a working link: a whole snapshot, or a message, heartbeat   *)
(* or end of session.  A snapshot cut short by an end of session, a timeout *)
(* or silence is never a success (probe.py _run_itch, _run_glimpse).        *)
ExitCodeHonest ==
  /\ code = EXIT_OK =>
       /\ phase = "collect"
       /\ IF opts.glimpse THEN seen.snapshot
          ELSE seen.messages > 0 \/ seen.heartbeat \/ seen.end
  /\ code = EXIT_REJECTED => phase = "login"

(* While it waits the client is never silent for longer than a heartbeat    *)
(* interval, so the server does not drop it (soupclient.py next_packet).    *)
HeartbeatsKept == probeAt \in {"top", "recv"} => probeClock - sent <= 1

(* A probe outlives neither its login window nor its collecting window,     *)
(* however the server dribbles (login, _run_itch: each wait is given what   *)
(* remains of one deadline).                                                *)
WithinWindow ==
  probeAt = "recv" => probeClock < deadline /\ probeClock < 2 * Window

(* The one wait of next_packet serves its three clocks: the heartbeat goes  *)
(* out in time, and the caller's deadline is kept.                          *)
WaitsKept == HeartbeatsKept /\ WithinWindow

(* A probe ends, also against a server that accepts the connection and      *)
(* never says or closes anything (next_packet).                             *)
Exits == <>(probeAt = "done")
=============================================================================
