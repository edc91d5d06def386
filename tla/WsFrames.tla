----------------------------- MODULE WsFrames ------------------------------
(***************************************************************************)
(* WebSocket framing on the server side of a page's socket                 *)
(* (jnxweb/wsock.py): the bytes of the browser's frames arrive in any      *)
(* pieces, and _on_readable decodes every frame that is whole.             *)
(*                                                                         *)
(* A frame is bytes: the first holds FIN, the RSV bits and the opcode and  *)
(* is a record here; the second holds the mask bit and the short length;   *)
(* the extended length, the mask key and the payload are bytes in 0..3.    *)
(* The three length forms are kept with their limits scaled down: 126 and  *)
(* 65536 become Marker16 and Radix, and the extended lengths take one and  *)
(* three bytes, the mask key two.                                          *)
(***************************************************************************)
EXTENDS Integers, Sequences, SequencesExt

CONSTANTS Payloads,  \* the payloads a page may send
          MaxFrames  \* frames a page sends

VARIABLES
    sent,     \* the frames the page sends
    inflight, \* bytes not received yet
    recv_buf, \* bytes received and not yet consumed
    handled,  \* the frames given to _handle_frame
    conn      \* "open", "closing" (a close frame is queued) or "torn"

vars == <<sent, inflight, recv_buf, handled, conn>>

Radix == 4
Marker16 == 2
Marker64 == 3
KeySize == 2
Ext16 == 1
Ext64 == 3

\* Bytes that carry bits are records; a plain byte has only a value.
Byte(v) == [first |-> FALSE, fin |-> FALSE, rsv |-> FALSE, mask |-> FALSE, v |-> v]

Bytes(n, w) == [i \in 1..w |-> Byte((n \div Radix ^ (w - i)) % Radix)]

Number(raw) == FoldLeft(LAMBDA acc, b : acc * Radix + b.v, 0, raw)

Xor(a, b) == ((a + b) % 2) + 2 * (((a \div 2) + (b \div 2)) % 2)

Masked(payload, key) ==
    [i \in DOMAIN payload |-> Xor(payload[i], key[((i - 1) % KeySize) + 1])]

\* The length and the payload as encode_frame lays them out.
EncodeFrame(payload) ==
    LET n == Len(payload)
        head == IF n < Marker16 THEN <<Byte(n)>>
                ELSE IF n < Radix THEN <<Byte(Marker16)>> \o Bytes(n, Ext16)
                ELSE <<Byte(Marker64)>> \o Bytes(n, Ext64)
    IN  head \o [i \in DOMAIN payload |-> Byte(payload[i])]

\* A browser's frame: laid out like the server's, with the mask bit, the
\* key, and the payload under it.
ClientFrame(f) ==
    LET plain == EncodeFrame(IF f.mask THEN Masked(f.payload, f.key) ELSE f.payload)
        split == Len(plain) - Len(f.payload)
        key == IF f.mask THEN [i \in 1..KeySize |-> Byte(f.key[i])] ELSE <<>>
    IN  <<[Byte(0) EXCEPT !.first = TRUE, !.fin = f.fin, !.rsv = f.rsv]>>
        \o [SubSeq(plain, 1, split) EXCEPT ![1].mask = f.mask]
        \o key
        \o SubSeq(plain, split + 1, Len(plain))

Wait == [out |-> "wait", fin |-> FALSE, payload |-> <<>>, consumed |-> 0]
FrameError == [Wait EXCEPT !.out = "error"]

\* Bug: the key starts over one byte late.
DecodeFrameKeyShifted(buf) ==
    LET n == Len(buf)
        ext == CASE buf[2].v = Marker16 -> Ext16
                 [] buf[2].v = Marker64 -> Ext64
                 [] OTHER -> 0
        length == IF ext = 0 THEN buf[2].v ELSE Number(SubSeq(buf, 3, 2 + ext))
        at == 2 + ext + KeySize
        key == [i \in 1..KeySize |-> buf[2 + ext + KeySize + 1 - i].v]
    IN  IF n < 2 THEN Wait
        ELSE IF buf[1].rsv THEN FrameError
        ELSE IF n < 2 + ext THEN Wait
        ELSE IF ~buf[2].mask THEN FrameError
        ELSE IF n < at \/ n < at + length THEN Wait
        ELSE [out |-> "frame", fin |-> buf[1].fin, consumed |-> at + length,
              payload |-> Masked([i \in 1..length |-> buf[at + i].v], key)]

\* One frame from the front of the buffer: Wait while it is not whole.
DecodeFrame(buf) ==
    LET n == Len(buf)
        ext == CASE buf[2].v = Marker16 -> Ext16
                 [] buf[2].v = Marker64 -> Ext64
                 [] OTHER -> 0
        length == IF ext = 0 THEN buf[2].v ELSE Number(SubSeq(buf, 3, 2 + ext))
        at == 2 + ext + KeySize
        key == [i \in 1..KeySize |-> buf[2 + ext + i].v]
    IN  IF n < 2 THEN Wait
        ELSE IF buf[1].rsv THEN FrameError
        ELSE IF n < 2 + ext THEN Wait
        ELSE IF ~buf[2].mask THEN FrameError
        ELSE IF n < at \/ n < at + length THEN Wait
        ELSE [out |-> "frame", fin |-> buf[1].fin, consumed |-> at + length,
              payload |-> Masked([i \in 1..length |-> buf[at + i].v], key)]

\* The loop of _on_readable from byte o of buf: what it hands over, why it
\* ends, and where the rest of the buffer starts.
Loop(buf) ==
    LET From[o \in 0..Len(buf)] ==
            LET r == DecodeFrame(SubSeq(buf, o + 1, Len(buf)))
                next == o + r.consumed
            IN  CASE r.out = "wait" -> [frames |-> <<>>, end |-> "open", rest |-> o]
                  [] r.out = "error" -> [frames |-> <<>>, end |-> "torn", rest |-> o]
                  [] OTHER -> IF ~r.fin
                              THEN [frames |-> <<>>, end |-> "closing", rest |-> next]
                              ELSE [From[next] EXCEPT
                                       !.frames = <<r.payload>> \o @]
    IN  From[0]

\* A fragment queues a close frame and ends the loop, but not the reading.
OnReadable(k) ==
    /\ conn # "torn"
    /\ k \in 1..Len(inflight)
    /\ LET buf == recv_buf \o SubSeq(inflight, 1, k)
           done == Loop(buf)
       IN  /\ handled' = handled \o done.frames
           /\ conn' = IF done.end = "open" THEN conn ELSE done.end
           /\ recv_buf' = SubSeq(buf, done.rest + 1, Len(buf))
    /\ inflight' = SubSeq(inflight, k + 1, Len(inflight))
    /\ UNCHANGED sent

\* The close frame has gone out.
OnWritable ==
    /\ conn = "closing"
    /\ conn' = "torn"
    /\ UNCHANGED <<sent, inflight, recv_buf, handled>>

\* A good frame, and the three a page should not send.
Plain(payload) == [fin |-> TRUE, rsv |-> FALSE, mask |-> TRUE,
                   key |-> <<1, 3>>, payload |-> payload]

Frames ==
    LET good == {Plain(p) : p \in Payloads}
        odd == Plain(CHOOSE p \in Payloads : TRUE)
    IN  good \cup {[odd EXCEPT !.fin = FALSE], [odd EXCEPT !.rsv = TRUE],
                   [odd EXCEPT !.mask = FALSE]}

Init ==
    /\ sent \in SeqOf(Frames, MaxFrames)
    /\ inflight = FlattenSeq([i \in DOMAIN sent |-> ClientFrame(sent[i])])
    /\ recv_buf = <<>>
    /\ handled = <<>>
    /\ conn = "open"

Next == OnWritable \/ \E k \in 1..Len(inflight) : OnReadable(k)

Spec == Init /\ [][Next]_vars

\* Payloads are bytes, and a connection is in one of its three states.
TypeOK ==
    /\ handled \in Seq(Seq(0..(Radix - 1)))
    /\ conn \in {"open", "closing", "torn"}

\* The size of a frame on the wire, counted from its payload alone.
Size(f) ==
    LET n == Len(f.payload)
    IN  2 + n + (IF f.mask THEN KeySize ELSE 0)
        + (IF n < Marker16 THEN 0 ELSE IF n < Radix THEN Ext16 ELSE Ext64)

TotalSize(frames) == FoldLeft(LAMBDA acc, f : acc + Size(f), 0, frames)

Legal(f) == ~f.rsv /\ f.mask

\* The frames that have wholly arrived, up to the first illegal one.
Arrived ==
    LET bytes == TotalSize(sent) - Len(inflight)
        whole == {i \in 0..Len(sent) :
                    /\ TotalSize(SubSeq(sent, 1, i)) <= bytes
                    /\ \A j \in 1..i : Legal(sent[j])}
    IN  SubSeq(sent, 1, CHOOSE i \in whole : \A j \in whole : j <= i)

\* However the bytes were cut, while the socket is open the handler has seen
\* exactly the frames that have wholly arrived, in order, with the payload
\* the page sent.  Only a fragment or an illegal frame closes it, after
\* which no fragment and nothing past an illegal frame is handled either.
FramesDecoded ==
    LET whole == SelectSeq(Arrived, LAMBDA f : f.fin)
        seen == [i \in DOMAIN whole |-> whole[i].payload]
    IN  /\ IsPrefix(handled, seen)
        /\ conn = "open" => handled = seen /\ whole = Arrived
        /\ conn # "open" => whole # Arrived \/ \E i \in DOMAIN sent : ~Legal(sent[i])
=============================================================================
