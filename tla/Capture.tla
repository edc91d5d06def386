------------------------------ MODULE Capture -------------------------------
(***************************************************************************)
(* `jnxfeed capture` (jnxfeed/cli/capture.py): one process after another   *)
(* streaming a session into a .itch file (itchfile.py) over the blocking   *)
(* client (cli/soupclient.py), resuming from the sidecar a predecessor     *)
(* left behind.                                                            *)
(*                                                                         *)
(* The file is a sequence of halves, since a record is written as a length *)
(* prefix and a body, and part of it may still be in the writer's buffer.  *)
(***************************************************************************)
EXTENDS Integers, Sequences

CONSTANTS
  CaptureLast,      \* messages in a session
  SeqArgs,          \* --seq values; NoSeq is the option left out
  MaxMessages,      \* --max-messages values; NoMax is the option left out
  CaptureRetries,   \* --retries
  Every,            \* _SIDECAR_EVERY
  MaxRuns,          \* bound: invocations of the tool
  MaxCaptureFaults, \* bound: failed connects and logins, lost connections
  MaxDays           \* bound: sessions

NoSeq == 99
NoMax == 99

CaptureAssumption ==
  /\ CaptureLast \in Nat /\ SeqArgs \subseteq Nat /\ MaxMessages \subseteq Nat
  /\ Every \in Nat \ {0} /\ CaptureRetries \in Nat
  /\ MaxRuns \in Nat /\ MaxCaptureFaults \in Nat /\ MaxDays \in Nat \ {0}

VARIABLES
  disk,       \* the .itch file
  buf,        \* bytes of ItchFileWriter not yet flushed to it
  sidecar,    \* FILE.itch.meta.json
  c,          \* the _Capture object
  captureAt,  \* where run() is; "off" between invocations
  srv,        \* sequence number of the next packet of the connection
  captureDay, \* the exchange's current session
  torn,       \* history: how processes writing this file were torn off
  runs, captureFaults

captureVars == <<disk, buf, sidecar, c, captureAt, srv, captureDay, torn,
                 runs, captureFaults>>

BlankSession == 0        \* the blank session
NoFirst == 0      \* first_seq None
NoSidecar == [session |-> BlankSession, first |-> NoFirst, next |-> NoSeq, count |-> 0]

Half(d, k, part) == [day |-> d, seq |-> k, part |-> part]

-----------------------------------------------------------------------------
(* Starting: __init__, _resume, and the ItchFileWriter of run() *)

Fresh(next, max) ==
  [session |-> BlankSession, first |-> NoFirst, next |-> next, count |-> 0,
   retries |-> CaptureRetries, since |-> 0, wrote |-> FALSE, max |-> max]

Launch(seqArg, max) ==
  /\ captureAt = "off"
  /\ runs < MaxRuns
  /\ runs' = runs + 1
  /\ \/ /\ seqArg # NoSeq
        /\ c' = Fresh(seqArg, max)
        /\ disk' = <<>> /\ torn' = {}
     \/ /\ seqArg = NoSeq /\ sidecar # NoSidecar
        /\ c' = [Fresh(sidecar.next, max) EXCEPT
                   !.session = sidecar.session, !.first = sidecar.first,
                   !.count = sidecar.count]
        /\ UNCHANGED <<disk, torn>>
     \/ /\ seqArg = NoSeq /\ sidecar = NoSidecar
        /\ c' = Fresh(1, max)
        /\ disk' = <<>> /\ torn' = {}
  /\ captureAt' = "connect"
  /\ UNCHANGED <<buf, sidecar, srv, captureDay, captureFaults>>

(* write_sidecar, replacing the old one in one rename. *)
WriteSidecar(cap) ==
  sidecar' = [session |-> cap.session, first |-> cap.first,
              next |-> cap.next, count |-> cap.count]

(* Every way out of run() passes through its finally clause. *)
Leave == captureAt' = "finally"

-----------------------------------------------------------------------------
(* run(): connect, login, pump *)

CaptureFault == captureFaults < MaxCaptureFaults /\ captureFaults' = captureFaults + 1

Spend == c.retries > 0 /\ c' = [c EXCEPT !.retries = @ - 1]

(* ConnectFailed; or login() raised a SoupClientError other than a reject. *)
Fails ==
  /\ captureAt \in {"connect", "login"}
  /\ \/ Spend /\ captureAt' = "connect"
     \/ c.retries = 0 /\ Leave /\ UNCHANGED c
  /\ UNCHANGED <<disk, buf, sidecar, srv, captureDay, torn, runs>>

ConnectOrLoginFails == Fails /\ CaptureFault

CaptureConnect ==
  /\ captureAt = "connect"
  /\ captureAt' = "login"
  /\ UNCHANGED <<disk, buf, sidecar, c, srv, captureDay, torn, runs, captureFaults>>

LoginRejected ==
  /\ captureAt = "login"
  /\ c.session \notin {BlankSession, captureDay}
  /\ Leave
  /\ UNCHANGED <<disk, buf, sidecar, c, srv, captureDay, torn, runs, captureFaults>>

(* The exchange starts where it was asked to, later when it no longer has   *)
(* that message, or earlier; sequence 0 asks for the most recent one.       *)
Starts == IF c.next = 0 THEN {CaptureLast + 1} ELSE {c.next, c.next + 1, 1}

(* A start past what is still needed is fatal ("sequence_gap"). *)
LoginAccepted(start) ==
  /\ captureAt = "login"
  /\ c.session \in {BlankSession, captureDay}
  /\ c' = [c EXCEPT !.session = captureDay, !.wrote = FALSE]
  /\ srv' = start
  /\ captureAt' = IF start > c.next THEN "finally" ELSE "pump"
  /\ UNCHANGED <<disk, buf, sidecar, captureDay, torn, runs, captureFaults>>

CapturedEnough == c.max # NoMax /\ c.count >= c.max

MaxReached ==
  /\ captureAt = "pump"
  /\ CapturedEnough
  /\ Leave
  /\ UNCHANGED <<disk, buf, sidecar, c, srv, captureDay, torn, runs, captureFaults>>

(* A replayed duplicate is skipped. *)
Skip ==
  /\ captureAt = "pump" /\ ~CapturedEnough
  /\ srv <= CaptureLast /\ srv # c.next
  /\ srv' = srv + 1
  /\ UNCHANGED <<disk, buf, sidecar, c, captureAt, captureDay, torn, runs, captureFaults>>

(* Faulty variant: no comparison with next_seq. *)
WantedAny == TRUE

WantedSeq == srv = c.next

(* _write -> write_message: the length prefix, then the body. *)
WritePrefix ==
  /\ captureAt = "pump" /\ ~CapturedEnough
  /\ srv <= CaptureLast /\ WantedSeq
  /\ buf' = Append(buf, Half(captureDay, srv, 1))
  /\ captureAt' = "body"
  /\ UNCHANGED <<disk, sidecar, c, srv, captureDay, torn, runs, captureFaults>>

WriteBody ==
  /\ captureAt = "body"
  /\ buf' = Append(buf, Half(captureDay, srv, 2))
  /\ captureAt' = "book"
  /\ UNCHANGED <<disk, sidecar, c, srv, captureDay, torn, runs, captureFaults>>

(* The rest of _write: every Every messages flush and save the sidecar,     *)
(* still with the old next_seq, which only _pump advances.                  *)
Counted == [c EXCEPT !.first = IF @ = NoFirst THEN c.next ELSE @,
                     !.count = @ + 1, !.since = @ + 1, !.wrote = TRUE]

Book ==
  /\ captureAt = "book"
  /\ IF Counted.since >= Every
     THEN /\ disk' = disk \o buf /\ buf' = <<>>
          /\ WriteSidecar(Counted)
          /\ c' = [Counted EXCEPT !.since = 0]
     ELSE c' = Counted /\ UNCHANGED <<disk, buf, sidecar>>
  /\ captureAt' = "advance"
  /\ UNCHANGED <<srv, captureDay, torn, runs, captureFaults>>

Advance ==
  /\ captureAt = "advance"
  /\ c' = [c EXCEPT !.next = srv + 1]
  /\ srv' = srv + 1
  /\ captureAt' = "pump"
  /\ UNCHANGED <<disk, buf, sidecar, captureDay, torn, runs, captureFaults>>

(* ConnectionLost or PeerSilent: a connection that brought data refills the *)
(* budget; the sidecar is saved before the reconnect, without a flush.      *)
Lost ==
  /\ captureAt = "pump" /\ ~CapturedEnough
  /\ LET left == IF c.wrote THEN CaptureRetries ELSE c.retries
     IN \/ /\ left = 0
           /\ Leave
           /\ UNCHANGED <<c, sidecar>>
        \/ /\ left > 0
           /\ c' = [c EXCEPT !.retries = left - 1, !.since = 0]
           /\ WriteSidecar(c)
           /\ captureAt' = "connect"
  /\ CaptureFault
  /\ UNCHANGED <<disk, buf, srv, captureDay, torn, runs>>

EndOfSession ==
  /\ captureAt = "pump" /\ ~CapturedEnough
  /\ srv > CaptureLast
  /\ Leave
  /\ UNCHANGED <<disk, buf, sidecar, c, srv, captureDay, torn, runs, captureFaults>>

(* Ctrl-C while the tool waits: in recv, in connect or between attempts; or *)
(* a frame that does not decode, which raises out of next_packet.           *)
InterruptedWaiting ==
  /\ captureAt \in {"connect", "login", "pump"}
  /\ UNCHANGED <<disk, buf, c, torn>>
  /\ Leave

(* What _write has done to the object by the time a Ctrl-C stops it. *)
HalfCounted == {c, [c EXCEPT !.first = Counted.first],
                [Counted EXCEPT !.since = c.since]}

(* Ctrl-C between the two writes of a record, in the rest of _write, or     *)
(* after it and before next_seq is advanced.                                *)
InterruptedWriting ==
  /\ captureAt \in {"body", "book", "advance"}
  /\ c' \in IF captureAt = "book" THEN HalfCounted ELSE {c}
  /\ torn' = torn \cup {"interrupt"}
  /\ UNCHANGED <<disk, buf>>
  /\ Leave

(* Ctrl-C inside the finally clause: the exception leaves run() without the *)
(* final sidecar; the file is flushed when its object goes.                 *)
InterruptedLeaving ==
  /\ captureAt \in {"finally", "final sidecar"}
  /\ disk' = disk \o buf /\ buf' = <<>>
  /\ torn' = torn \cup {"interrupt"}
  /\ captureAt' = "off"
  /\ UNCHANGED c

(* KeyboardInterrupt, between any two steps of run().                       *)
Interrupted ==
  /\ InterruptedWaiting \/ InterruptedWriting \/ InterruptedLeaving
  /\ CaptureFault
  /\ UNCHANGED <<sidecar, srv, captureDay, runs>>

(* finally: flush, close ... *)
Finally ==
  /\ captureAt = "finally"
  /\ disk' = disk \o buf
  /\ buf' = <<>>
  /\ captureAt' = "final sidecar"
  /\ UNCHANGED <<sidecar, c, srv, captureDay, torn, runs, captureFaults>>

(* ... and the final sidecar. *)
FinalSidecar ==
  /\ captureAt = "final sidecar"
  /\ WriteSidecar(c)
  /\ captureAt' = "off"
  /\ UNCHANGED <<disk, buf, c, srv, captureDay, torn, runs, captureFaults>>

-----------------------------------------------------------------------------
(* Outside *)

(* The buffered writer spills when it is full, at any byte. *)
Spill ==
  /\ \E k \in 1..Len(buf) : /\ disk' = disk \o SubSeq(buf, 1, k)
                            /\ buf' = SubSeq(buf, k + 1, Len(buf))
  /\ UNCHANGED <<sidecar, c, captureAt, srv, captureDay, torn, runs, captureFaults>>

(* SIGKILL, a crash of the host; or Ctrl-C before run() enters its try.     *)
Kill ==
  /\ captureAt # "off"
  /\ buf' = <<>>
  /\ captureAt' = "off"
  /\ torn' = torn \cup {"kill"}
  /\ CaptureFault
  /\ UNCHANGED <<disk, sidecar, c, srv, captureDay, runs>>

(* The next session; the exchange ends a connection before it rolls over. *)
NewDay ==
  /\ captureDay < MaxDays
  /\ captureAt \in {"off", "connect"}
  /\ captureDay' = captureDay + 1
  /\ UNCHANGED <<disk, buf, sidecar, c, captureAt, srv, torn, runs, captureFaults>>

CaptureInit ==
  /\ disk = <<>> /\ buf = <<>>
  /\ sidecar = NoSidecar
  /\ c = Fresh(1, NoMax)
  /\ captureAt = "off"
  /\ srv = 1 /\ captureDay = 1
  /\ torn = {}
  /\ runs = 0 /\ captureFaults = 0

Work ==
  \/ CaptureConnect \/ LoginRejected
  \/ \E start \in Starts : LoginAccepted(start)
  \/ MaxReached \/ Skip \/ WritePrefix \/ WriteBody \/ Book \/ Advance
  \/ EndOfSession \/ Finally \/ FinalSidecar

CaptureNext ==
  \/ \E s \in SeqArgs, m \in MaxMessages : Launch(s, m)
  \/ Work
  \/ ConnectOrLoginFails \/ Lost \/ Interrupted
  \/ Spill \/ Kill \/ NewDay

CaptureSpec == CaptureInit /\ [][CaptureNext]_captureVars

(* The process runs and the exchange, once connected, keeps sending. *)
CaptureFairSpec == CaptureSpec /\ WF_captureVars(Work)

-----------------------------------------------------------------------------
(* Type invariant of the counters; a process that has left flushed its file. *)
CaptureTypeOK ==
  /\ c.retries \in 0..CaptureRetries /\ c.since \in 0..(Every - 1)
  /\ torn = {} => c.count \in 0..CaptureLast
  /\ captureAt = "off" => buf = <<>>

(* The halves a file of the records first..first+n-1 of one session has. *)
Exact(file, d, first) ==
  \A i \in DOMAIN file :
    file[i] = Half(d, first + (i - 1) \div 2, IF i % 2 = 1 THEN 1 ELSE 2)

(* The file holds the messages of one session from the first one on, each   *)
(* once, whatever mixture of lost connections, early or late server starts, *)
(* interrupts while waiting and resumed invocations produced it, as long as *)
(* no process was killed, nor interrupted between the first write of a      *)
(* record and the advance of next_seq or in the finally clause (_pump,      *)
(* _resume).                                                                *)
FileExact ==
  torn = {} => Exact(disk \o buf, c.session, IF c.first = NoFirst THEN c.next
                                             ELSE c.first)

(* The sidecar says what the file on disk holds: where it ends, how many    *)
(* messages, of which session.                                              *)
SidecarDescribes ==
  /\ Len(disk) = 2 * sidecar.count
  /\ sidecar.count > 0 => /\ sidecar.next = sidecar.first + sidecar.count
                          /\ Exact(disk, sidecar.session, sidecar.first)

(* So it does between invocations, of a file no process was torn off        *)
(* (write_sidecar, _resume).                                                *)
SidecarTrue ==
  captureAt = "off" /\ sidecar # NoSidecar /\ torn = {} => SidecarDescribes

(* What is captured and what is said of it, without a kill and without an   *)
(* interrupt inside a write or in the finally clause (capture.py).          *)
CaptureExact == FileExact /\ SidecarTrue

(* "Ctrl-C (SIGINT) ... stop the capture cleanly with the sidecar           *)
(* finalized", "the file has no gaps and no duplicates": whenever the       *)
(* interrupt comes, the sidecar of a file no process was killed on says     *)
(* what the file holds (capture.py, module docstring).                      *)
InterruptIsClean ==
  captureAt = "off" /\ sidecar # NoSidecar /\ "kill" \notin torn =>
    SidecarDescribes

(* Every invocation ends: the retry budget is refilled only by progress     *)
(* (run).                                                                   *)
Ends == captureAt # "off" ~> captureAt = "off"
=============================================================================
