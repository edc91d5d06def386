------------------------------- MODULE Offline ------------------------------
(* The byte-level readers: SoupBinTCP framing (jnxfeed/soup/packets.py), on *)
(* a live socket ("live") and over a TCP capture (pcapio.py's reassembly    *)
(* and fixtures.py's scan_soup_sample, "soup"), and the scan of a MoldUDP64 *)
(* capture (scan_udp_sample, "udp").  One behaviour is one of the three.    *)
(*                                                                          *)
(* Bytes are the numbers below Base and TCP sequence numbers those below    *)
(* SeqSpace, so that a frame longer than a byte counts and a sequence number  *)
(* that wraps both occur.  A capture holds segments in any order, again, or *)
(* not at all, cut at the offsets in Cuts.                                  *)
EXTENDS Naturals, Sequences, SequencesExt, FiniteSetsExt

CONSTANTS
  Base,         \* a byte is a number below Base, a length has two bytes
  SeqSpace,       \* a TCP sequence number is a number below SeqSpace
  Isn,          \* the sequence number of the SYN
  LoginWidth,   \* bytes of a Login Accepted payload
  MsgLen,       \* a function: message type byte -> length of the message
  Streams,      \* the packet sequences a server may send
  Cuts,         \* offsets at which a segment may begin or end
  Sessions,     \* MoldUDP64 sessions
  LastSeq,      \* highest MoldUDP64 sequence number
  BadSeqs,      \* sequence numbers whose message does not decode
  SliceCount,   \* --slice-count
  MaxFrames     \* frames in a capture

VARIABLES
  kind,     \* "live", "soup" or "udp"
  sent,     \* what the server sent: a sequence of packets
  got,      \* live: bytes received so far
  fb,       \* live: the FrameBuffer's bytes, and the packets it returned
  tcp,      \* soup: expected_seq and the stream of the server's direction
  seen,     \* soup: bytes the capture held, and whether it was a clean one
  udp,      \* udp: scan_udp_sample's locals, and the two files
  frames,   \* frames read from the capture
  result    \* "reading", "ok" or "error"; and the manifest

vars == <<kind, sent, got, fb, tcp, seen, udp, frames, result>>

(* The packet type bytes. *)
A == 1
J == 2
S == 3
H == 4
Z == 5
Debug == 6

None == "none"
EndMark == 9        \* a Mold count of 0xFFFF
Reading == [at |-> "reading"]
Error == [at |-> "error"]

-----------------------------------------------------------------------------
(* soup/packets.py *)

(* _frame: the length counts the type byte. *)
Frame(p) ==
  LET body == <<p.type>> \o p.payload IN
    <<Len(body) \div Base, Len(body) % Base>> \o body

Wire(ps) == FlattenSeq([i \in DOMAIN ps |-> Frame(ps[i])])

(* decode_frame and its table of decoders: which frames they accept. *)
Decodable(frame) ==
  /\ frame # <<>>
  /\ LET size == Len(frame) - 1 IN
       \/ frame[1] = A /\ size = LoginWidth
       \/ frame[1] = J /\ size = 1
       \/ frame[1] \in {H, Z} /\ size = 0
       \/ frame[1] \in {S, Debug}

DecodeFrame(frame) == [type |-> frame[1], payload |-> Tail(frame)]

(* Where the first frame of the buffer ends. *)
FrameEnd(buf) == 2 + buf[1] * Base + buf[2]

(* FrameBuffer.feed's loop.  A frame that does not decode raises, and the   *)
(* packets decoded before it in the same call are lost with it.             *)
RECURSIVE Frames(_)
Frames(buf) ==
  IF Len(buf) < 2 \/ Len(buf) < FrameEnd(buf)
  THEN [packets |-> <<>>, buf |-> buf, raised |-> FALSE]
  ELSE LET frame == SubSeq(buf, 3, FrameEnd(buf))
           more == Frames(SubSeq(buf, FrameEnd(buf) + 1, Len(buf)))
       IN  IF ~Decodable(frame) \/ more.raised
           THEN [packets |-> <<>>, buf |-> <<>>, raised |-> TRUE]
           ELSE [more EXCEPT !.packets = <<DecodeFrame(frame)>> \o @]

(* SoupSession.on_bytes: feed what recv returned.  An exception ends the    *)
(* process.                                                                 *)
OnBytes ==
  /\ kind = "live" /\ result = Reading
  /\ \E n \in 1..(Len(Wire(sent)) - got) :
       LET fed == Frames(fb.buf \o SubSeq(Wire(sent), got + 1, got + n)) IN
         /\ got' = got + n
         /\ fb' = [buf |-> fed.buf, packets |-> fb.packets \o fed.packets]
         /\ result' = IF fed.raised THEN Error ELSE Reading
  /\ UNCHANGED <<kind, sent, tcp, seen, udp, frames>>

-----------------------------------------------------------------------------
(* pcapio.py: reassemble_tcp_streams *)

(* A segment of the server's direction with the bytes from+1..to.  The SYN  *)
(* and the FIN take a sequence number each.                                 *)
Segments ==
  LET size == Len(Wire(sent)) IN
    { [from |-> a, to |-> b, syn |-> 0, fin |-> f] :
        a \in Cuts \cap 0..size, b \in Cuts \cap 0..size, f \in {0, 1} }
    \cup { [from |-> 0, to |-> 0, syn |-> 1, fin |-> 0] }

Legal(seg) ==
  /\ seg.from <= seg.to
  /\ seg.fin = 1 => seg.to = Len(Wire(sent))
  /\ seg.from = seg.to => seg.syn + seg.fin = 1

SeqNumber(seg) == (Isn + seg.from + (IF seg.syn = 1 THEN 0 ELSE 1)) % SeqSpace

(* Faulty variant: sequence numbers are compared as plain numbers. *)
DeltaPlain(seq, expected) ==
  CASE seq > expected -> 1
    [] seq = expected -> 0
    [] seq < expected -> SeqSpace \div 2

(* How far a segment is ahead of the expected number, modulo 2^32. *)
Delta(seq, expected) == (seq + SeqSpace - expected) % SeqSpace

(* The expected number after a segment. *)
Consumed(seq, seg) ==
  (seq + seg.to - seg.from + seg.syn + seg.fin) % SeqSpace

(* One segment: the first of a direction synchronises; then exactly the     *)
(* expected number extends the stream, one ahead of it is a gap in the      *)
(* capture, and one behind it is dropped whole.                             *)
Spliced(t, seg) ==
  LET synced == IF t.started THEN t
                ELSE [t EXCEPT !.started = TRUE, !.expected = SeqNumber(seg)]
      delta == Delta(SeqNumber(seg), synced.expected)
  IN  CASE delta = 0 ->
             [synced EXCEPT
               !.stream = @ \o SubSeq(Wire(sent), seg.from + 1, seg.to),
               !.expected = Consumed(@, seg)]
        [] delta > 0 /\ delta < SeqSpace \div 2 -> [synced EXCEPT !.gap = TRUE]
        [] OTHER -> synced

(* What the capture was like (history): its first and its last byte, and    *)
(* whether it is clean, that is, every segment continues the ones before it *)
(* or repeats bytes that they hold.                                         *)
Noticed(seg) ==
  LET first == ~tcp.started IN
    [from |-> IF first THEN seg.from ELSE seen.from,
     top |-> IF first THEN seg.to ELSE Max({seen.top, seg.to}),
     clean |-> first \/ /\ seen.clean
                        /\ seg.from >= seen.from
                        /\ seg.from = seen.top \/ seg.to <= seen.top]

(* A frame of the other direction, of another protocol, of IPv6, with too   *)
(* many VLAN tags or too short to parse is skipped (read_pcap's             *)
(* conditions); such a frame changes nothing and has no action.  A frame    *)
(* the capture cut short is a segment that ends earlier.                    *)
Captured == {s \in Segments : Legal(s)}

(* One turn of the loop over the frames. *)
Segment ==
  /\ kind = "soup" /\ result = Reading /\ frames < MaxFrames
  /\ \E seg \in Captured :
       /\ tcp' = Spliced(tcp, seg)
       /\ seen' = Noticed(seg)
  /\ result' = IF tcp'.gap THEN Error ELSE Reading
  /\ frames' = frames + 1
  /\ UNCHANGED <<kind, sent, got, fb, udp>>

-----------------------------------------------------------------------------
(* fixtures.py: scan_soup_sample *)

(* itch/codec.py decode: a known type, and exactly its length. *)
Decodes(msg) ==
  msg # <<>> /\ msg[1] \in DOMAIN MsgLen /\ Len(msg) = MsgLen[msg[1]]

OfType(ps, t) == SelectSeq(ps, LAMBDA p : p.type = t)

ScanFails(scan) ==
  \/ scan.raised \/ scan.packets = <<>>
  \/ scan.packets[1].type # A
  \/ \E i \in 2..Len(scan.packets) :
       LET p == scan.packets[i] IN
         p.type \in {A, J} \/ (p.type = S /\ ~Decodes(p.payload))

(* The capture ends: frame the whole stream at once and write the manifest. *)
ScanSoup ==
  /\ kind = "soup" /\ result = Reading
  /\ LET scan == Frames(tcp.stream) IN
       result' =
         IF ScanFails(scan) THEN Error
         ELSE [at |-> "ok", messages |-> OfType(scan.packets, S),
               heartbeats |-> Len(OfType(scan.packets, H)),
               ended |-> OfType(scan.packets, Z) # <<>>,
               trailing |-> Len(scan.buf)]
  /\ UNCHANGED <<kind, sent, got, fb, tcp, seen, udp, frames>>

-----------------------------------------------------------------------------
(* fixtures.py: iter_udp_sample and scan_udp_sample *)

(* A MoldUDP64 datagram: the messages seq .. seq + count - 1 of a session;  *)
(* cut: it ends within its last block.                                      *)
Datagrams ==
  [session : Sessions, seq : 1..LastSeq, count : {0, 1, 2, EndMark},
   cut : BOOLEAN]

(* iter_mold_messages: the blocks before one that is cut short. *)
Blocks(d) ==
  LET whole == IF d.count \in {0, EndMark} THEN 0
               ELSE IF d.cut THEN d.count - 1 ELSE d.count
  IN  [i \in 1..whole |-> <<d.session, d.seq + i - 1>>]

BlocksRaise(d) == d.cut /\ d.count \notin {0, EndMark}

(* Faulty variant: only a sequence number that goes back is an error. *)
ContinuesLoosely(u, m) ==
  u.session = None \/ (m[1] = u.session /\ m[2] > u.last)

Continues(u, m) ==
  u.session = None \/ (m[1] = u.session /\ m[2] = u.last + 1)

(* One turn of the loop: check, decode, then write to the file and, while   *)
(* it is short enough, to the slice.                                        *)
Scanned(u, m) ==
  IF u.failed THEN u
  ELSE IF ~Continues(u, m) THEN [u EXCEPT !.failed = TRUE]
  ELSE LET noted == [u EXCEPT !.session = m[1], !.last = m[2],
                       !.first = IF u.session = None THEN m[2] ELSE @] IN
         IF m[2] \in BadSeqs THEN [noted EXCEPT !.failed = TRUE]
         ELSE [noted EXCEPT
                !.out = Append(@, m),
                !.slice = IF Len(u.out) < SliceCount THEN Append(@, m)
                          ELSE @,
                !.sliceLast = IF Len(u.out) < SliceCount THEN m[2] ELSE @]

(* iter_udp_sample: every block of a datagram, in order. *)
Fed(u, d) == FoldLeft(Scanned, u, Blocks(d))

Datagram ==
  /\ kind = "udp" /\ result = Reading /\ frames < MaxFrames
  /\ \E d \in Datagrams :
       LET u == Fed(udp, d) IN
         /\ udp' = u
         /\ result' = IF u.failed \/ BlocksRaise(d) THEN Error ELSE Reading
  /\ frames' = frames + 1
  /\ UNCHANGED <<kind, sent, got, fb, tcp, seen>>

(* The capture ends: the two manifests. *)
ScanUdp ==
  /\ kind = "udp" /\ result = Reading
  /\ result' = [at |-> "ok", first |-> udp.first, last |-> udp.last,
                count |-> Len(udp.out), sliceLast |-> udp.sliceLast,
                sliceCount |-> Min({Len(udp.out), SliceCount})]
  /\ UNCHANGED <<kind, sent, got, fb, tcp, seen, udp, frames>>

-----------------------------------------------------------------------------
Init ==
  /\ kind \in {"live", "soup", "udp"}
  /\ sent \in IF kind = "udp" THEN {<<>>} ELSE Streams
  /\ got = 0
  /\ fb = [buf |-> <<>>, packets |-> <<>>]
  /\ tcp = [started |-> FALSE, expected |-> 0, stream |-> <<>>,
            gap |-> FALSE]
  /\ seen = [from |-> 0, top |-> 0, clean |-> TRUE]
  /\ udp = [session |-> None, first |-> 0, last |-> 0, out |-> <<>>,
            slice |-> <<>>, sliceLast |-> 0, failed |-> FALSE]
  /\ frames = 0
  /\ result = Reading

Next == OnBytes \/ Segment \/ ScanSoup \/ Datagram \/ ScanUdp

Spec == Init /\ [][Next]_vars

-----------------------------------------------------------------------------
Bytes == 0..(Base - 1)

(* The types of the state: a sequence number keeps its width, also past the *)
(* wrap (reassemble_tcp_streams), and the FrameBuffer never keeps a whole   *)
(* frame back (FrameBuffer.feed).                                           *)
TypeOK ==
  /\ kind \in {"live", "soup", "udp"} /\ sent \in Streams \cup {<<>>}
  /\ got \in 0..Len(Wire(sent)) /\ frames \in 0..MaxFrames
  /\ fb.buf \in Seq(Bytes) /\ tcp.stream \in Seq(Bytes)
  /\ tcp.expected \in 0..(SeqSpace - 1)
  /\ udp.session \in Sessions \cup {None} /\ udp.last \in 0..(LastSeq + 1)
  /\ result.at \in {"reading", "ok", "error"}
  /\ Len(fb.buf) >= 2 => Len(fb.buf) < FrameEnd(fb.buf)

(* The frames of ps that lie wholly within the first n bytes of its wire. *)
Whole(ps, n) ==
  LET ends == { k \in 0..Len(ps) : Len(Wire(SubSeq(ps, 1, k))) <= n } IN
    SubSeq(ps, 1, Max(ends))

(* However the socket splits or joins the bytes, the length prefix          *)
(* included, the session is given exactly the packets that have arrived     *)
(* whole, in order, the buffer keeps the rest, and only a frame that does   *)
(* not decode raises (FrameBuffer.feed).                                    *)
FramesExact ==
  kind = "live" =>
    LET ps == Whole(sent, got) IN
      IF \E i \in DOMAIN ps : ~Decodable(<<ps[i].type>> \o ps[i].payload)
      THEN result = Error
      ELSE /\ result = Reading /\ fb.packets = ps
           /\ Wire(ps) \o fb.buf = SubSeq(Wire(sent), 1, got)

(* The reassembled stream is a run of the bytes the server sent, whatever   *)
(* was lost, repeated or reordered: never a splice over a gap or a repeated *)
(* part (reassemble_tcp_streams).                                           *)
StreamIsRun ==
  tcp.stream = SubSeq(Wire(sent), seen.from + 1,
                      seen.from + Len(tcp.stream))

(* And over a clean capture it is every byte of it, also when the sequence  *)
(* number wraps: retransmissions cost nothing and are no gap.               *)
CleanCaptureWhole ==
  kind = "soup" /\ seen.clean =>
    /\ ~tcp.gap
    /\ Len(tcp.stream) = seen.top - seen.from

(* A scan that succeeds over a capture from its beginning reports the       *)
(* messages, heartbeats and end of session of exactly the packets that lie  *)
(* whole in a run of the session, every message decodable, and the bytes    *)
(* left dangling; and a second login is never taken for part of it          *)
(* (scan_soup_sample).                                                      *)
ManifestExact ==
  kind = "soup" /\ result.at = "ok" /\ seen.from = 0 =>
    LET ps == Whole(sent, Len(tcp.stream)) IN
      /\ result.messages = OfType(ps, S)
      /\ result.heartbeats = Len(OfType(ps, H))
      /\ result.ended = (OfType(ps, Z) # <<>>)
      /\ result.trailing = Len(tcp.stream) - Len(Wire(ps))
      /\ \A i \in DOMAIN ps : (ps[i].type \in {A, J}) = (i = 1)

(* What scan_udp_sample has written, also when it fails, is an unbroken run *)
(* of one session's messages, the slice is its beginning, and the manifests *)
(* name their first and last messages.                                      *)
FilesContiguous ==
  /\ udp.out = [i \in 1..Len(udp.out) |-> <<udp.session, udp.first + i - 1>>]
  /\ udp.slice = SubSeq(udp.out, 1, Min({Len(udp.out), SliceCount}))
  /\ kind = "udp" /\ result.at = "ok" /\ udp.out # <<>> =>
       /\ result.last = udp.out[Len(udp.out)][2]
       /\ result.sliceCount = Len(udp.slice)
       /\ udp.slice # <<>> => result.sliceLast = udp.slice[Len(udp.slice)][2]
=============================================================================
