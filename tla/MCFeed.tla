------------------------------- MODULE MCFeed -------------------------------
(* The feed side and the tools around it: the C++ Soup client, the Python   *)
(* feed handler and its reactor, the capture, probe and offline readers,    *)
(* the codecs and the frames of a page's socket.  They share no state; a    *)
(* behaviour is one of the part that Init chooses, and the others rest.     *)
EXTENDS SoupClient, FeedHandler, Reactor, Capture, Probe, TLC

VARIABLES
  part,
  kind, stream, got, fb, tcp, captured, udp, frames, result,
  msg, octets, damage, decoded, fate,
  written, inflight, recv_buf, handled, conn

offlineVars == <<kind, stream, got, fb, tcp, captured, udp, frames, result>>
codecVars == <<msg, octets, damage, decoded, fate>>
wsVars == <<written, inflight, recv_buf, handled, conn>>
feedVars == <<soupVars, handlerVars, reactorVars>>
toolVars == <<captureVars, probeVars, offlineVars>>
dataVars == <<codecVars, wsVars>>
vars == <<part, feedVars, toolVars, dataVars>>

(* A session with a message longer than a byte counts, a heartbeat, debug   *)
(* text and an end; one with a second login; one with a message that does   *)
(* not decode and a frame of no known type.                                 *)
Login == [type |-> 1, payload |-> <<7, 1>>]
Short == [type |-> 3, payload |-> <<1, 5>>]
Long == [type |-> 3, payload |-> <<2, 1, 0, 3, 4, 1, 6>>]
Beat == [type |-> 4, payload |-> <<>>]
End == [type |-> 5, payload |-> <<>>]
Sessions ==
  { <<Login, Short, Beat, Long, End>>,
    <<Login, [type |-> 6, payload |-> <<4>>], Short, Login, Short>>,
    <<[type |-> 2, payload |-> <<1>>]>>,
    <<Login, [type |-> 3, payload |-> <<1>>], Short,
      [type |-> 7, payload |-> <<>>], Beat>> }

O == INSTANCE Offline WITH
       Base <- 8, SeqSpace <- 64, Isn <- 55, LoginWidth <- 2,
       MsgLen <- (1 :> 2) @@ (2 :> 7), Streams <- Sessions,
       Cuts <- {0, 1, 5, 7, 10, 16, 23}, Sessions <- {"d1", "d2"},
       LastSeq <- 4, BadSeqs <- {4}, SliceCount <- 2, MaxFrames <- 5,
       sent <- stream, seen <- captured

C == INSTANCE Codec WITH Depth <- 2, wire <- octets, got <- decoded

(* Payloads of every length form and at each of their limits. *)
Payloads == {<<>>, <<1>>, <<2, 3>>, <<3, 0, 1>>, <<0, 1, 2, 3>>, <<1, 2, 3, 0, 1>>}

W == INSTANCE WsFrames WITH
       Payloads <- Payloads, MaxFrames <- 3, sent <- written

ASSUME
  /\ SoupAssumption /\ FeedAssumption /\ ReactorAssumption
  /\ CaptureAssumption /\ ProbeAssumption

-----------------------------------------------------------------------------
Parts == {"soup", "handler", "reactor", "capture", "probe", "offline",
          "codec", "ws"}
Idle == "idle"

(* The part that runs starts in any of its initial states, the others in    *)
(* one of theirs or idle.                                                   *)
Init ==
  /\ part \in Parts
  /\ SoupInit /\ FeedInit /\ ReactorInit /\ CaptureInit /\ ProbeInit
  /\ O!Init
  /\ part = "handler" \/ setup = [glimpse |-> FALSE, retries |-> 0,
                                  auth |-> TRUE, closing |-> FALSE,
                                  limit |-> 0]
  /\ part = "probe" \/ opts = [glimpse |-> FALSE, wanted |-> 0]
  /\ part = "offline" \/ kind = "udp"
  /\ IF part = "codec" THEN C!Init
     ELSE /\ msg = Idle /\ octets = Idle /\ damage = Idle
          /\ decoded = Idle /\ fate = Idle
  /\ IF part = "ws" THEN W!Init
     ELSE /\ written = Idle /\ inflight = Idle /\ recv_buf = Idle
          /\ handled = Idle /\ conn = Idle

FeedSide ==
  \/ part = "soup" /\ SoupNext /\ UNCHANGED <<handlerVars, reactorVars>>
  \/ part = "handler" /\ FeedNext /\ UNCHANGED <<soupVars, reactorVars>>
  \/ part = "reactor" /\ ReactorNext /\ UNCHANGED <<soupVars, handlerVars>>

Tools ==
  \/ part = "capture" /\ CaptureNext /\ UNCHANGED <<probeVars, offlineVars>>
  \/ part = "probe" /\ ProbeNext /\ UNCHANGED <<captureVars, offlineVars>>
  \/ part = "offline" /\ O!Next /\ UNCHANGED <<captureVars, probeVars>>

Data ==
  \/ part = "codec" /\ C!Next /\ UNCHANGED wsVars
  \/ part = "ws" /\ W!Next /\ UNCHANGED codecVars

Next ==
  /\ UNCHANGED part
  /\ \/ FeedSide /\ UNCHANGED <<toolVars, dataVars>>
     \/ Tools /\ UNCHANGED <<feedVars, dataVars>>
     \/ Data /\ UNCHANGED <<feedVars, toolVars>>

Spec == Init /\ [][Next]_vars

(* Each part's own fairness; a part that does not run owes nothing.         *)
FairSpec ==
  /\ Spec
  /\ WF_soupVars(part = "soup" /\ ClientStep)
  /\ WF_soupVars(part = "soup" /\ PeerStep)
  /\ WF_handlerVars(part = "handler" /\ FeedClientStep)
  /\ WF_handlerVars(part = "handler" /\ FeedPeerStep)
  /\ WF_reactorVars(part = "reactor" /\ ReactorNext)
  /\ WF_captureVars(part = "capture" /\ Work)
  /\ WF_probeVars(part = "probe" /\ (Connect \/ ProbeConnectFails))
  /\ WF_probeVars(part = "probe" /\ LoopTop)
  /\ WF_probeVars(part = "probe" /\ Wait)

-----------------------------------------------------------------------------
(* What the parts promise: DeliveredExactly, Lifeline, AppliedExactly,      *)
(* OneEnding, CaptureExact, ExitCodeHonest, WaitsKept and RunsAsScheduled   *)
(* are defined in the modules of their parts, with their arguments; below   *)
(* are those of the offline readers, the codecs and the frames, and those   *)
(* that join the parts.                                                     *)

(* Every part's variables keep their ranges. *)
TypeOK ==
  /\ SoupTypeOK /\ FeedTypeOK /\ ReactorTypeOK /\ CaptureTypeOK
  /\ ProbeTypeOK /\ O!TypeOK
  /\ part = "codec" => C!TypeOK
  /\ part = "ws" => W!TypeOK

(* soup/packets.py FrameBuffer.feed, pcapio.py reassemble_tcp_streams: the  *)
(* packets that have arrived whole, from a stream that is never a splice    *)
(* and holds all of a clean capture.                                        *)
StreamExact == O!FramesExact /\ O!StreamIsRun /\ O!CleanCaptureWhole

(* cli/fixtures.py scan_soup_sample, scan_udp_sample: the manifest is what  *)
(* was captured, and the files of a sample are an unbroken run.             *)
ManifestExact == O!ManifestExact /\ O!FilesContiguous

(* codec.py, packets.py, records.py: what arrives whole is what was sent,   *)
(* and what is accepted can be sent again.                                  *)
RoundTrip == part = "codec" => C!RoundTrip /\ C!Stable

(* codec.py, packets.py, records.py, mcast.py: a cut or overlong message is *)
(* refused, a damaged record of a stream is reported and never skipped, and *)
(* only whole UPDATE records reach the display.                             *)
DecodesWhole ==
  part = "codec" => C!LengthChecked /\ C!StreamWhole /\ C!DatagramFate

(* wsock.py _on_readable: the frames handled are the frames that arrived.   *)
FramesDecoded == part = "ws" => W!FramesDecoded

(* Each program gets to its end once outages do, also against a mute peer   *)
(* (fh/soupclient.cpp, handler.py, cli/capture.py, cli/soupclient.py), and  *)
(* a due timer is called however busy the sockets are (net/reactor.py).     *)
Finishes ==
  /\ part = "soup" => SoupFinishes
  /\ part = "handler" => FeedFinishes
  /\ part = "reactor" => TimersServed
  /\ part = "capture" => Ends
  /\ part = "probe" => Exits
=============================================================================
