------------------------------- MODULE Codec -------------------------------
(***************************************************************************)
(* The three fixed-layout codecs: ITCH messages (jnxfeed/itch/codec.py),   *)
(* SoupBinTCP packets (jnxfeed/soup/packets.py) and JNX records            *)
(* (jnxweb/records.py), with the multicast receiver that decodes one       *)
(* record per datagram (jnxweb/mcast.py).                                  *)
(*                                                                         *)
(* A message is a kind and one value per field.  A value is a sequence: a  *)
(* number n is <<n>>, a text is the sequence of its characters.  The wire  *)
(* is a sequence of cells.  A byte of a field is a cell in 0..Radix-1, of  *)
(* which Nul, Blank and two digits are ASCII and NonAscii is not.  A type  *)
(* character, and each number of the record header, is one cell.  The      *)
(* field tables are the code's with the widths scaled down: 1 byte to 1    *)
(* cell, 2 and 4 bytes to 2, 8 bytes and more to 3.  They are complete,    *)
(* but for the UPDATE record, of which each section keeps one field of     *)
(* every encoding it has and a level is one number.  The decimal digits of *)
(* a Soup sequence number are scaled to binary digits.                     *)
(***************************************************************************)
EXTENDS Integers, Sequences, SequencesExt, FiniteSetsExt

CONSTANT Depth \* BOOK_DEPTH: price levels a side of an UPDATE record

VARIABLES
    msg,    \* the message to be sent: [proto, kind, vals]
    wire,   \* its cells, as they travel (<<>> before it is encoded)
    damage, \* what happened to them: "none", "cut", "grown" or "changed"
    got,    \* the message decoded, or Bad, or Raised; Unsent before that
    fate    \* of a datagram: "none", "applied", "bad" or "raised"

vars == <<msg, wire, damage, got, fate>>

Radix == 5
Nul == 0
Blank == 1
Zero == 2
One == 3
NonAscii == 4
Ascii == {Nul, Blank, Zero, One}
Magic == 31
Version == 32
HeaderSize == 5

\* A value, a field or a whole message the code refuses with its own error,
\* and one it fails on with an error of another class.
Bad == <<-1>>
Raised == <<-2>>
Error(k) == [proto |-> "error", kind |-> k, vals |-> <<>>]
Unsent == Error("unsent")
IsError(m) == m.proto = "error"

Field(t, w) == [t |-> t, w |-> w]
N1 == Field("num", 1)
N4 == Field("num", 2)
N8 == Field("num", 3)

(***************************************************************************)
(* Fields.                                                                 *)
(***************************************************************************)

\* Big-endian unsigned integers, as struct packs and unpacks them.
PackNum(n, w) ==
    IF n < Radix ^ w
    THEN [i \in 1..w |-> (n \div Radix ^ (w - i)) % Radix]
    ELSE Bad

UnpackNum(raw) ==
    <<FoldLeft(LAMBDA acc, b : acc * Radix + b, 0, raw)>>

IsAscii(s) == ToSet(s) \subseteq Ascii

Kept(s) == {i \in DOMAIN s : s[i] # Blank}

RStrip(s) == IF Kept(s) = {} THEN <<>> ELSE SubSeq(s, 1, Max(Kept(s)))

Strip(s) ==
    IF Kept(s) = {} THEN <<>> ELSE SubSeq(s, Min(Kept(s)), Max(Kept(s)))

Blanks(k) == [i \in 1..k |-> Blank]

PadRight(s, w) ==
    IF IsAscii(s) /\ Len(s) <= w THEN s \o Blanks(w - Len(s)) ELSE Bad

PadLeft(s, w) ==
    IF IsAscii(s) /\ Len(s) <= w THEN Blanks(w - Len(s)) \o s ELSE Bad

\* The digits of n, most significant first, without leading zeros.
Str(n) ==
    LET k == CHOOSE j \in 1..(n + 1) : n < 2 ^ j /\ (j = 1 \/ n >= 2 ^ (j - 1))
    IN  [i \in 1..k |-> Zero + ((n \div 2 ^ (k - i)) % 2)]

IsDigit(s) == s # <<>> /\ ToSet(s) \subseteq {Zero, One}

ReadInt(s) == <<FoldLeft(LAMBDA acc, b : acc * 2 + (b - Zero), 0, s)>>

\* A left-padded sequence number, read back.
DecodeSequence(raw) ==
    IF IsAscii(raw) /\ IsDigit(Strip(raw)) THEN ReadInt(Strip(raw)) ELSE Bad

EncodeAlpha(s, w) == PadRight(s, w)

DecodeAlpha(raw) == IF IsAscii(raw) THEN RStrip(raw) ELSE Bad

\* The record codec's alpha fields: a byte that is not ASCII makes
\* bytes.decode raise UnicodeDecodeError, which is no RecordError.
AlphaEnc(s, w) == PadRight(s, w)

Alpha(raw) == IF IsAscii(raw) THEN RStrip(raw) ELSE Raised

CharEnc(s) ==
    CASE s = <<>> -> <<Nul>>
      [] Len(s) = 1 -> s
      [] OTHER -> Bad

Char(raw) == raw

EncodeField(f, v) ==
    CASE f.t = "num"   -> PackNum(v[1], f.w)
      [] f.t = "alpha" -> EncodeAlpha(v, f.w)
      [] f.t = "right" -> PadRight(v, f.w)
      [] f.t = "left"  -> PadLeft(v, f.w)
      [] f.t = "seqno" -> PadLeft(Str(v[1]), f.w)
      [] f.t = "code"  -> IF Len(v) = 1 /\ IsAscii(v) THEN v ELSE Bad
      [] f.t = "rest"  -> v
      [] f.t = "str"   -> AlphaEnc(v, f.w)
      [] f.t = "char"  -> CharEnc(v)

DecodeField(f, raw) ==
    CASE f.t = "num"   -> UnpackNum(raw)
      [] f.t = "alpha" -> DecodeAlpha(raw)
      [] f.t = "right" -> DecodeAlpha(raw)
      [] f.t = "left"  -> IF IsAscii(raw) THEN Strip(raw) ELSE Bad
      [] f.t = "seqno" -> DecodeSequence(raw)
      [] f.t = "code"  -> IF IsAscii(raw) THEN raw ELSE Bad
      [] f.t = "rest"  -> raw
      [] f.t = "str"   -> Alpha(raw)
      [] f.t = "char"  -> Char(raw)

Width(layout) == FoldLeft(LAMBDA acc, f : acc + f.w, 0, layout)

\* struct.pack and struct.unpack over a layout.
Pack(layout, vals) ==
    LET parts == [i \in DOMAIN layout |-> EncodeField(layout[i], vals[i])]
    IN  IF Bad \in ToSet(parts) THEN Bad ELSE FlattenSeq(parts)

Unpack(layout, raw) ==
    [i \in DOMAIN layout |->
        LET before == Width(SubSeq(layout, 1, i - 1))
        IN  DecodeField(layout[i], SubSeq(raw, before + 1, before + layout[i].w))]

\* A decoded message, or the error of its first field that failed.
Decoded(proto, kind, vals) ==
    LET wrong == {i \in DOMAIN vals : vals[i] \in {Bad, Raised}}
    IN  IF wrong = {} THEN [proto |-> proto, kind |-> kind, vals |-> vals]
        ELSE Error(IF vals[Min(wrong)] = Raised THEN "raised" ELSE "bad")

(***************************************************************************)
(* ITCH.                                                                   *)
(***************************************************************************)
A1 == Field("alpha", 1)
A4 == Field("alpha", 2)
A12 == Field("alpha", 3)

MessageTypes == <<"T", "S", "L", "R", "H", "Y", "A", "F", "E", "D", "U", "G">>

Schemas ==
    [T |-> <<N4>>,
     S |-> <<N4, A4, A1>>,
     L |-> <<N4, N4, N4, N4>>,
     R |-> <<N4, A4, A12, A4, N4, N4, N4, N4, N4>>,
     H |-> <<N4, A4, A4, A1>>,
     Y |-> <<N4, A4, A4, A1>>,
     A |-> <<N4, N8, A1, N4, A4, A4, N4>>,
     F |-> <<N4, N8, A1, N4, A4, A4, N4, A4, A1>>,
     E |-> <<N4, N8, N4, N8>>,
     D |-> <<N4, N8>>,
     U |-> <<N4, N8, N8, N4, N4>>,
     G |-> <<N8>>]

\* The cell of a type character, and the reverse.
TypeCell(types, kind) == 10 + CHOOSE i \in DOMAIN types : types[i] = kind
Known(types, cell) == cell - 10 \in DOMAIN types

EncodeItch(m) ==
    LET body == Pack(Schemas[m.kind], m.vals)
    IN  IF body = Bad THEN Bad ELSE <<TypeCell(MessageTypes, m.kind)>> \o body

DecodeItch(buf) ==
    IF Len(buf) < 1 \/ ~Known(MessageTypes, buf[1]) THEN Error("bad")
    ELSE LET kind == MessageTypes[buf[1] - 10]
             layout == Schemas[kind]
         IN  IF Len(buf) # Width(layout) + 1 THEN Error("bad")
             ELSE Decoded("itch", kind, Unpack(layout, Tail(buf)))

(***************************************************************************)
(* SoupBinTCP: the frame after its length prefix.                          *)
(***************************************************************************)
SoupTypes == <<"A", "J", "S", "H", "Z", "debug", "L", "U", "R", "O">>

SessionField == Field("left", 2)
SequenceField == Field("seqno", 3)

SoupLayout(kind) ==
    CASE kind = "A" -> <<SessionField, SequenceField>>
      [] kind = "J" -> <<Field("code", 1)>>
      [] kind = "L" -> <<Field("right", 2), Field("right", 2),
                         SessionField, SequenceField>>
      [] OTHER -> <<>>

FreePayload == {"S", "U", "debug"}

\* The body of a frame; _frame prefixes its type.
EncodeSoup(m) ==
    LET payload == IF m.kind \in FreePayload THEN m.vals[1]
                   ELSE Pack(SoupLayout(m.kind), m.vals)
    IN  IF payload = Bad THEN Bad ELSE <<TypeCell(SoupTypes, m.kind)>> \o payload

DecodeSoup(frame) ==
    IF frame = <<>> \/ ~Known(SoupTypes, frame[1]) THEN Error("bad")
    ELSE LET kind == SoupTypes[frame[1] - 10]
             layout == SoupLayout(kind)
             payload == Tail(frame)
         IN  IF kind \in FreePayload
             THEN [proto |-> "soup", kind |-> kind, vals |-> <<payload>>]
             ELSE IF Len(payload) # Width(layout) THEN Error("bad")
             ELSE Decoded("soup", kind, Unpack(layout, payload))

(***************************************************************************)
(* JNX records.                                                            *)
(***************************************************************************)
S4 == Field("str", 2)
S10 == Field("str", 3)
Ch == Field("char", 1)

RecordKinds == <<"U", "O", "K", "B", "E", "G", "H", "R">>

\* Envelope, static, state and level counts; the levels; book totals, trade
\* summary and delta.
UpdateHead == <<N8, S10, Ch>> \o <<S10, N4, N1>> \o <<Ch, N4>> \o <<N1, N1>>
UpdateLevels == [i \in 1..(2 * Depth) |-> N4]
UpdateTail == <<N8, N4>> \o <<N4, N8>> \o <<Ch, N8, N4>>

BodyLayout(kind) ==
    CASE kind = "U" -> UpdateHead \o UpdateLevels \o UpdateTail
      [] kind = "O" -> <<N8, S4, S4, Ch, N4, N4, Ch>>
      [] kind = "K" -> <<N4, N4, N4>>
      [] kind = "H" -> <<N8, N8>>
      [] kind = "E" -> <<S10, N8, N8>>
      [] OTHER -> <<>>

BodySize(kind) == Width(BodyLayout(kind))

\* Where an UPDATE keeps its two level counts, and the side and the rank of
\* the level that field i belongs to.
CountAt(side) == Len(UpdateHead) - (2 - side)
IsLevel(i) == i - Len(UpdateHead) \in 1..(2 * Depth)
LevelSide(i) == IF i - Len(UpdateHead) <= Depth THEN 1 ELSE 2
LevelRank(i) == ((i - Len(UpdateHead) - 1) % Depth) + 1

TooDeep(vals) == \E side \in {1, 2} : vals[CountAt(side)][1] > Depth

\* Bug: the level slots past the count go out as they are.
EncodeUpdateRaw(m) ==
    IF TooDeep(m.vals) THEN Bad ELSE Pack(BodyLayout("U"), m.vals)

EncodeUpdate(m) ==
    IF TooDeep(m.vals) THEN Bad
    ELSE Pack(BodyLayout("U"),
              [i \in DOMAIN m.vals |->
                  IF IsLevel(i) /\ LevelRank(i) > m.vals[CountAt(LevelSide(i))][1]
                  THEN <<0>> ELSE m.vals[i]])

EncodeHeader(kind) ==
    <<Magic, Version, TypeCell(RecordKinds, kind), BodySize(kind), 0>>

\* The body of an ORDER, TICK, HELLO or SYNC_END; a control record has none.
EncodeFixed(m) == Pack(BodyLayout(m.kind), m.vals)

EncodeRecord(m) ==
    LET body == IF m.kind = "U" THEN EncodeUpdate(m) ELSE EncodeFixed(m)
    IN  IF body = Bad THEN Bad ELSE EncodeHeader(m.kind) \o body

\* The kind of a valid header, or "bad".
DecodeHeader(buf) ==
    IF /\ Len(buf) >= HeaderSize
       /\ buf[1] = Magic
       /\ buf[2] = Version
       /\ Known(RecordKinds, buf[3])
       /\ buf[4] = BodySize(RecordKinds[buf[3] - 10])
    THEN RecordKinds[buf[3] - 10]
    ELSE "bad"

\* The text fields before the counts fail first.
DecodeUpdate(body) ==
    LET vals == Unpack(BodyLayout("U"), body)
        rec == Decoded("record", "U", vals)
    IN  IF rec.proto = "record" /\ TooDeep(vals) THEN Error("bad") ELSE rec

DecodeFixed(kind, body) == Decoded("record", kind, Unpack(BodyLayout(kind), body))

DecodeRecord(buf) ==
    LET kind == DecodeHeader(buf)
        body == SubSeq(buf, HeaderSize + 1, Len(buf))
    IN  IF kind = "bad" THEN Error("bad")
        ELSE IF Len(body) # BodySize(kind) THEN Error("bad")
        ELSE IF kind = "U" THEN DecodeUpdate(body)
        ELSE DecodeFixed(kind, body)

\* A record in front of the rest of its stream; an error of either is all
\* that is left, as no list is returned.
Joined(rec, rest) ==
    IF IsError(rec) THEN <<rec>>
    ELSE IF rest # <<>> /\ IsError(rest[1]) THEN rest
    ELSE <<rec>> \o rest

\* Bug: a trailing partial header ends the stream quietly.
DecodeStreamLenient(data) ==
    LET n == Len(data)
        From[o \in 0..n] ==
            LET kind == DecodeHeader(SubSeq(data, o + 1, n))
                end == o + HeaderSize + BodySize(kind)
            IN  IF n - o < HeaderSize THEN <<>>
                ELSE IF kind = "bad" \/ end > n THEN <<Error("bad")>>
                ELSE Joined(DecodeRecord(SubSeq(data, o + 1, end)), From[end])
    IN  From[0]

\* The records of a capture, or the one error that ended it.
DecodeStream(data) ==
    LET n == Len(data)
        From[o \in 0..n] ==
            LET kind == DecodeHeader(SubSeq(data, o + 1, n))
                end == o + HeaderSize + BodySize(kind)
            IN  IF o = n THEN <<>>
                ELSE IF kind = "bad" \/ end > n THEN <<Error("bad")>>
                ELSE Joined(DecodeRecord(SubSeq(data, o + 1, end)), From[end])
    IN  From[0]

(***************************************************************************)
(* One message, sent, perhaps damaged, and received.                       *)
(***************************************************************************)
Encode(m) ==
    CASE m.proto = "itch" -> EncodeItch(m)
      [] m.proto = "soup" -> EncodeSoup(m)
      [] m.proto = "record" -> EncodeRecord(m)

Decode(proto, buf) ==
    CASE proto = "itch" -> DecodeItch(buf)
      [] proto = "soup" -> DecodeSoup(buf)
      [] proto = "record" -> DecodeRecord(buf)

Kinds(proto) ==
    ToSet(CASE proto = "itch" -> MessageTypes
            [] proto = "soup" -> SoupTypes
            [] proto = "record" -> RecordKinds)

Layout(proto, kind) ==
    CASE proto = "itch" -> Schemas[kind]
      [] proto = "soup" /\ kind \in FreePayload -> <<Field("rest", 1)>>
      [] proto = "soup" -> SoupLayout(kind)
      [] proto = "record" -> BodyLayout(kind)

\* Values to send: the limits of a field and one step past them.
Texts(w) == {<<>>, <<One, Blank>>, <<Blank, One>>, <<NonAscii>>}
            \cup {[i \in 1..k |-> One] : k \in {w, w + 1}}

Values(f) ==
    CASE f.t = "num" -> {<<n>> : n \in {0, 1, 2, 3, Radix ^ f.w - 1, Radix ^ f.w}}
      [] f.t = "seqno" -> {<<n>> : n \in {0, 1, 2 ^ f.w - 1, 2 ^ f.w}}
      [] OTHER -> Texts(f.w)

Sample(proto, kind) ==
    LET layout == Layout(proto, kind)
    IN  [proto |-> proto, kind |-> kind,
         vals |-> [i \in DOMAIN layout |-> <<IF layout[i].t \in {"num", "seqno"}
                                            THEN 1 ELSE One>>]]

Samples == UNION {{Sample(p, k) : k \in Kinds(p)} : p \in {"itch", "soup", "record"}}

\* A sample with one field changed.
Messages ==
    Samples \cup
    UNION {UNION {{[m EXCEPT !.vals[i] = v] : v \in Values(Layout(m.proto, m.kind)[i])}
                  : i \in DOMAIN m.vals} : m \in Samples}

Init ==
    /\ msg \in Messages
    /\ wire = <<>>
    /\ damage = "none"
    /\ got = Unsent
    /\ fate = "none"

Send ==
    /\ wire = <<>> /\ damage = "none"
    /\ wire' = Encode(msg)
    /\ UNCHANGED <<msg, damage, got, fate>>

TypeAt(proto) == IF proto = "record" THEN 3 ELSE 1

\* A message cut short, one run into the next cell, or one cell overwritten;
\* the last for the samples only.
Damage ==
    /\ wire \notin {<<>>, Bad}
    /\ damage = "none"
    /\ got = Unsent
    /\ \/ damage' = "cut" /\ wire' = Front(wire)
       \/ damage' = "grown" /\ wire' = Append(wire, Zero)
       \/ /\ msg \in Samples
          /\ \E i \in DOMAIN wire :
                \E b \in IF i = TypeAt(msg.proto) THEN 0..22 ELSE 0..(Radix - 1) :
                    wire' = [wire EXCEPT ![i] = b]
          /\ damage' = "changed"
    /\ UNCHANGED <<msg, got, fate>>

\* What the multicast receiver does with a datagram.
HandleDatagram(rec) ==
    CASE rec = Error("raised") -> "raised"
      [] rec = Error("bad") -> "bad"
      [] OTHER -> IF rec.kind = "U" THEN "applied" ELSE "bad"

Receive ==
    /\ wire \notin {<<>>, Bad} \/ damage = "cut"
    /\ got = Unsent
    /\ got' = Decode(msg.proto, wire)
    /\ fate' = IF msg.proto = "record" THEN HandleDatagram(got') ELSE "none"
    /\ UNCHANGED <<msg, wire, damage>>

Next == Send \/ Damage \/ Receive

Spec == Init /\ [][Next]_vars

(***************************************************************************)
(* Properties.                                                             *)
(***************************************************************************)
\* Type invariant of the message, the damage and the datagram's fate.
TypeOK ==
    /\ msg \in Messages
    /\ damage \in {"none", "cut", "grown", "changed"}
    /\ fate \in {"none", "applied", "bad", "raised"}

Fits(f, v) ==
    CASE f.t = "num" -> v[1] < Radix ^ f.w
      [] f.t = "seqno" -> v[1] < 2 ^ f.w
      [] f.t = "rest" -> TRUE
      [] f.t = "code" -> Len(v) = 1 /\ NonAscii \notin ToSet(v)
      [] f.t = "char" -> Len(v) <= 1
      [] OTHER -> Len(v) <= f.w /\ NonAscii \notin ToSet(v)

\* Level slots past the count do not count.
Unused(m, i) ==
    /\ m.proto = "record" /\ m.kind = "U" /\ IsLevel(i)
    /\ LevelRank(i) > m.vals[CountAt(LevelSide(i))][1]

Encodable(m) ==
    /\ \A i \in DOMAIN m.vals :
          Unused(m, i) \/ Fits(Layout(m.proto, m.kind)[i], m.vals[i])
    /\ m.proto = "record" /\ m.kind = "U" => ~TooDeep(m.vals)

\* What a field means, however it is padded.
Meaning(f, v) ==
    CASE f.t \in {"alpha", "right", "str"} -> RStrip(v)
      [] f.t = "left" -> Strip(v)
      [] f.t = "char" /\ v = <<>> -> <<Nul>>
      [] OTHER -> v

Canonical(m) ==
    [m EXCEPT !.vals = [i \in DOMAIN m.vals |->
        IF Unused(m, i) THEN <<0>>
        ELSE Meaning(Layout(m.proto, m.kind)[i], m.vals[i])]]

\* "decode(encode(m)) == m for every message type": an encoder refuses
\* exactly the messages with a value that does not fit its field, and what
\* arrives undamaged is what was sent, up to the padding of its texts and
\* the unused level slots of an UPDATE.
RoundTrip ==
    /\ wire # <<>> /\ damage = "none" => ((wire = Bad) <=> ~Encodable(msg))
    /\ got # Unsent /\ damage = "none" => got = Canonical(msg)

\* Whatever a decoder accepts, damaged or not, its encoder accepts, and the
\* second copy decodes to the same message, with the unused level slots of
\* an UPDATE cleared; an ITCH message is even sent as the same bytes again.
Stable ==
    ~IsError(got) =>
        /\ Encode(got) # Bad
        /\ Decode(got.proto, Encode(got)) = Canonical(got)
        /\ got.proto = "itch" => Encode(got) = wire

\* A message that lost its last byte or ran into the next one is refused by
\* every decoder, unless its payload is free-form.
LengthChecked ==
    got # Unsent /\ damage \in {"cut", "grown"} /\ ~IsError(got) =>
        got.proto = "soup" /\ got.kind \in FreePayload

\* decode_stream never resynchronises: two copies of what was received are
\* two copies of the record, and with a damaged copy the whole stream is
\* refused, not the copy skipped.
StreamWhole ==
    got # Unsent /\ msg.proto = "record" =>
        LET recs == DecodeStream(wire \o wire)
        IN  IF IsError(got) THEN Len(recs) = 1 /\ IsError(recs[1])
            ELSE recs = <<got, got>>

\* The multicast receiver applies only whole UPDATE records, with level
\* counts the book has room for; whatever else decodes is a bad datagram.
DatagramFate ==
    /\ fate = "applied" => /\ got.kind = "U"
                           /\ damage \notin {"cut", "grown"}
                           /\ ~TooDeep(got.vals)
    /\ got # Unsent /\ msg.proto = "record" /\ msg.kind # "U" => fate # "applied"

\* "Any decode failure ... counts as a bad datagram" (McastReceiver), as
\* decode_record "Raises RecordError on anything malformed".
DecodeFailuresCounted ==
    got # Unsent /\ msg.proto = "record" /\ IsError(got) => fate = "bad"
=============================================================================
