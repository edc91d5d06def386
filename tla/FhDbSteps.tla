----------------------------- MODULE FhDbSteps ------------------------------
(***************************************************************************)
(* Lemmas about FhDb: Book, well-formed queues and the two ways a queue    *)
(* changes (a record is handled, records are sent); then the steps of      *)
(* jnxdb and of jnxfh: each keeps TypeOK /\ Inv.                           *)
(***************************************************************************)
EXTENDS FhDb, TLAPS

-----------------------------------------------------------------------------
(* Book and the queues; the steps of jnxdb.                                 *)

(* Book *)

(* The exchange's stream is fixed, so whatever is defined from it is too.  *)
LEMMA SameStream ==
  ASSUME stream' = stream
  PROVE  /\ \A n : Book(n)' = Book(n)
         /\ Of({"X"})' = Of({"X"})
         /\ Positions' = Positions
         /\ \A S : Records(S)' = Records(S)
         /\ \A s : WellFormed(s)' = WellFormed(s)
  BY DEF Book, UpTo, Of, Positions, Records, WellFormed, Follows, Successor

(* One more message adds itself, if it is a book or state message.         *)
LEMMA BookStep ==
  ASSUME NEW n \in Nat, n # 0
  PROVE  Book(n) = Book(n - 1) \cup ({n} \cap Of({"X"}))
  BY DEF Book, UpTo, Of

(* Nothing comes before the first message.                                 *)
LEMMA BookZero == Book(0) = {}
  BY DEF Book, UpTo, Of

(* The three other kinds of message leave the book alone.                  *)
LEMMA OtherKinds ==
  ASSUME NEW n, n \in Of({"bad"}) \/ n \in Of({"T"})
  PROVE  n \in Positions /\ Book(n) = Book(n - 1)
  BY DEF Book, UpTo, Of, Positions

(* A GLIMPSE snapshot cut at n holds the book messages up to n.            *)
LEMMA BookCut ==
  ASSUME NEW n
  PROVE  /\ UpTo({"T", "L", "X"}, n) \subseteq Positions
         /\ UpTo({"T", "L", "X"}, n) \cap Of({"X"}) = Book(n)
  BY Zenon DEF Book, UpTo, Of, Positions

-----------------------------------------------------------------------------
(* Queues *)

(* Handling the first record leaves a well-formed queue whose new head may *)
(* follow the old one and whose end is the same.                           *)
LEMMA HandleOne ==
  ASSUME NEW R, NEW s \in Seq(R), s # <<>>, WellFormed(s)
  PROVE  /\ Head(s) = s[1] /\ s[1] \in R
         /\ Tail(s) \in Seq(R) /\ WellFormed(Tail(s))
         /\ Tail(s) # <<>> => /\ Follows(s[1], Tail(s)[1])
                              /\ Tail(s)[Len(Tail(s))] = s[Len(s)]
         /\ Tail(s) = <<>> => s[Len(s)] = s[1]
<1>1. /\ Len(s) \in Nat /\ Len(s) # 0 /\ Head(s) = s[1] /\ s[1] \in R
      /\ Tail(s) \in Seq(R) /\ Len(Tail(s)) = Len(s) - 1
      /\ \A i \in 1..Len(Tail(s)) : Tail(s)[i] = s[i + 1]
  OBVIOUS
<1>2. Tail(s) # <<>> => Len(Tail(s)) >= 1
  BY <1>1
<1>3. Tail(s) = <<>> => Len(s) = 1
  <2>1. Len(<<>>) = 0
    OBVIOUS
  <2>2. Tail(s) = <<>> => Len(Tail(s)) = 0
    BY <2>1, Zenon
  <2> QED BY <1>1, <2>2
<1>4. WellFormed(Tail(s))
  BY <1>1 DEF WellFormed
<1> QED
  BY <1>1, <1>2, <1>3, <1>4 DEF WellFormed

(* Records sent on an idle link are the queue.                             *)
LEMMA EmptyFirst ==
  ASSUME NEW R, NEW s \in Seq(R)
  PROVE  <<>> \o s = s
  OBVIOUS

(* Nothing and a single question are well-formed queues.                   *)
LEMMA ShortQueues ==
  /\ WellFormed(<<>>)
  /\ \A op \in {"HELLO", "GET_STATE"} : WellFormed(<<Ctl(op)>>)
  BY DEF WellFormed, Ctl, Rec

(* A record is typed when its fields are.                                  *)
LEMMA RecType ==
  ASSUME NEW ops, NEW op \in ops, NEW n \in 0..Len(stream), NEW e \in Nat,
         NEW k \in BOOLEAN, NEW c \in SUBSET Positions
  PROVE  Rec(op, n, e, k, c) \in Records(ops)
  BY Zenon DEF Rec, Records

(* Control records have their type.                                        *)
LEMMA CtlType ==
  ASSUME Len(stream) \in Nat
  PROVE  /\ \A op \in RecordOps : Ctl(op) \in Records(RecordOps)
         /\ \A op \in RecordOps : <<Ctl(op)>> \in Seq(Records(RecordOps))
         /\ NoReply \in Records({"NONE", "HELLO", "DUMP"})
<1>1. \A op \in RecordOps : Ctl(op) \in Records(RecordOps)
  BY DEF Ctl, Rec, Records
<1>2. NoReply \in Records({"NONE", "HELLO", "DUMP"})
  BY DEF NoReply, Ctl, Rec, Records
<1> QED BY <1>1, <1>2

(* A queue with one record more. *)
Queued(s, r) == s \o <<r>>

(* A record that may follow a queue, and the queue it then ends. *)
Sendable(R, s, r) ==
  /\ s \in Seq(R) /\ r \in R /\ WellFormed(s)
  /\ r.op \in {"SYNC_END", "UPDATE"} => r.e # 0
  /\ r.op = "UPDATE" => r.c = {r.n} \cap Of({"X"})
  /\ s # <<>> => Follows(s[Len(s)], r)

EndsWith(R, s, r, t) ==
  /\ t \in Seq(R) /\ WellFormed(t) /\ t # <<>>
  /\ t[Len(t)] = r
  /\ t[1] = IF s = <<>> THEN r ELSE s[1]

LEMMA LastOrBefore ==
  ASSUME NEW n \in Nat, NEW i \in 1..((n + 1) - 1)
  PROVE  i = n \/ i \in 1..(n - 1)
OBVIOUS

(* One more record at the end of a well-formed queue.                      *)
LEMMA SendOne ==
  ASSUME NEW R, NEW s, NEW r, Sendable(R, s, r)
  PROVE  EndsWith(R, s, r, Queued(s, r))
<1>0. /\ s \in Seq(R) /\ r \in R /\ WellFormed(s)
      /\ r.op \in {"SYNC_END", "UPDATE"} => r.e # 0
      /\ r.op = "UPDATE" => r.c = {r.n} \cap Of({"X"})
      /\ s # <<>> => Follows(s[Len(s)], r)
  BY Zenon DEF Sendable
<1> DEFINE t == s \o <<r>>
<1>1. /\ t \in Seq(R) /\ Len(t) = Len(s) + 1 /\ Len(s) \in Nat
      /\ \A i \in 1..Len(s) : t[i] = s[i]
      /\ t[Len(s) + 1] = r
  BY <1>0
<1>2. s # <<>> => Len(s) >= 1
  BY <1>0
<1>3. s = <<>> => Len(s) = 0
  OBVIOUS
<1>4. WellFormed(t)
  <2> HIDE DEF t
  <2>1. ASSUME NEW i \in 1..Len(t)
        PROVE  /\ t[i].op \in {"SYNC_END", "UPDATE"} => t[i].e # 0
               /\ t[i].op = "UPDATE" => t[i].c = {t[i].n} \cap Of({"X"})
    <3>1. CASE i = Len(s) + 1
      BY <1>0, <1>1, <3>1, Zenon
    <3>2. CASE i \in 1..Len(s)
      BY <1>0, <1>1, <3>2, Zenon DEF WellFormed
    <3> QED BY <1>1, <3>1, <3>2
  <2>2. ASSUME NEW i \in 1..(Len(t) - 1)
        PROVE  Follows(t[i], t[i + 1])
    <3>1. CASE i = Len(s)
      BY <1>0, <1>1, <1>3, <3>1
    <3>2. CASE i \in 1..(Len(s) - 1)
      BY <1>0, <1>1, <3>2 DEF WellFormed
    <3>3. i = Len(s) \/ i \in 1..(Len(s) - 1)
      BY <1>1, LastOrBefore, Zenon
    <3> QED BY <3>1, <3>2, <3>3, Zenon
  <2> QED BY <2>1, <2>2, Zenon DEF WellFormed
<1>5. t # <<>>
  BY <1>1
<1>6. t = Queued(s, r)
  BY Zenon DEF Queued
<1>7. t[1] = IF s = <<>> THEN r ELSE s[1]
  BY <1>1, <1>2, <1>3
<1> HIDE DEF t
<1> QED BY <1>1, <1>4, <1>5, <1>6, <1>7, Zenon DEF EndsWith

(* A prefix of a well-formed queue is well-formed and starts the same.     *)
LEMMA PartOf ==
  ASSUME NEW R, NEW s \in Seq(R), WellFormed(s), NEW k \in 0..Len(s)
  PROVE  /\ SubSeq(s, 1, k) \in Seq(R) /\ WellFormed(SubSeq(s, 1, k))
         /\ SubSeq(s, 1, k) # <<>> => SubSeq(s, 1, k)[1] = s[1]
<1>1. /\ SubSeq(s, 1, k) \in Seq(R) /\ Len(SubSeq(s, 1, k)) = k
      /\ \A i \in 1..k : SubSeq(s, 1, k)[i] = s[i]
  OBVIOUS
<1>2. WellFormed(SubSeq(s, 1, k))
  BY <1>1 DEF WellFormed
<1> QED
  BY <1>1, <1>2

(* The records push_full_sync writes form a well-formed queue.             *)
LEMMA SyncDumpWellFormed ==
  ASSUME NEW m \in SUBSET Positions, NEW n \in 0..Len(stream), NEW e \in Nat,
         NEW k \in BOOLEAN, Len(stream) \in Nat, e # 0,
         m \cap Of({"X"}) = Book(n)
  PROVE  LET s == SyncDump(m, n, e, k)
         IN  /\ s \in Seq(Records(RecordOps)) /\ WellFormed(s)
             /\ Len(s) = 4 /\ s[1] = Ctl("RESET")
             /\ s[4] = Rec("SYNC_END", n, e, k, {})
<1> DEFINE s == SyncDump(m, n, e, k)
<1> DEFINE r == Rec("ROWS", 0, 0, FALSE, m \cap Of({"L", "X"}))
<1> DEFINE z == Rec("SYNC_END", n, e, k, {})
<1>1. /\ Ctl("RESET") \in Records(RecordOps)
      /\ Ctl("SYNC_BEGIN") \in Records(RecordOps)
      /\ r \in Records(RecordOps) /\ z \in Records(RecordOps)
  BY DEF Ctl, Rec, Records, RecordOps
<1>2. s = <<Ctl("RESET"), Ctl("SYNC_BEGIN"), r, z>>
  BY Zenon DEF SyncDump
<1>3. /\ s \in Seq(Records(RecordOps)) /\ Len(s) = 4
      /\ s[1] = Ctl("RESET") /\ s[2] = Ctl("SYNC_BEGIN")
      /\ s[3] = r /\ s[4] = z
  <2> HIDE DEF r, z, s
  <2> QED BY <1>1, <1>2
<1>4. r.c \cap Of({"X"}) = Book(z.n)
  BY Zenon DEF Rec, Of
<1>5. /\ Follows(s[1], s[2]) /\ Follows(s[2], s[3]) /\ Follows(s[3], s[4])
  <2> HIDE DEF s
  <2> QED BY <1>3, <1>4 DEF Follows, Ctl, Rec
<1>6. WellFormed(s)
  <2>1. z.op = "SYNC_END" /\ z.e # 0
    BY Zenon DEF Rec
  <2>2. /\ r.op = "ROWS" /\ Ctl("RESET").op = "RESET"
        /\ Ctl("SYNC_BEGIN").op = "SYNC_BEGIN"
    BY Zenon DEF Ctl, Rec
  <2> HIDE DEF s, r, z
  <2>3. ASSUME NEW i \in 1..Len(s)
        PROVE  /\ s[i].op \in {"SYNC_END", "UPDATE"} => s[i].e # 0
               /\ s[i].op # "UPDATE"
    <3>1. i = 1 \/ i = 2 \/ i = 3 \/ i = 4
      BY <1>3
    <3> QED BY <1>3, <2>1, <2>2, <3>1, Zenon
  <2>4. \A i \in 1..(Len(s) - 1) : i = 1 \/ i = 2 \/ i = 3
    BY <1>3
  <2> QED BY <1>3, <1>5, <2>3, <2>4 DEF WellFormed
<1> QED BY <1>3, <1>6, Zenon

-----------------------------------------------------------------------------
(* jnxdb's steps *)

(* Tail of the queue, state of the FH and stream: what handling a record   *)
(* leaves alone.                                                           *)
LEMMA HandleFrame ==
  ASSUME TypeOK, Inv, NEW op, Handle(op), stream' = stream
  PROVE  /\ Head(q) = q[1] /\ q[1] \in Records(RecordOps) /\ q[1].op = op
         /\ q' \in Seq(Records(RecordOps)) /\ WellFormed(q') /\ Fits(q[1])
         /\ q' # <<>> => Follows(q[1], q'[1]) /\ q'[Len(q')] = q[Len(q)]
         /\ q' = <<>> => q[Len(q)] = q[1]
         /\ conn # "none" /\ link # "dead" /\ dbUp
<1>1. q \in Seq(Records(RecordOps)) /\ q # <<>> /\ WellFormed(q)
      /\ q' = Tail(q) /\ Head(q).op = op /\ Fits(q[1])
      /\ conn # "none" /\ link # "dead" /\ dbUp
  BY Zenon DEF TypeOK, LinkTypeOK, Inv, QueueInv, LinkInv, Handle
<1>2. /\ Head(q) = q[1] /\ q[1] \in Records(RecordOps)
      /\ Tail(q) \in Seq(Records(RecordOps)) /\ WellFormed(Tail(q))
      /\ Tail(q) # <<>> => /\ Follows(q[1], Tail(q)[1])
                           /\ Tail(q)[Len(Tail(q))] = q[Len(q)]
      /\ Tail(q) = <<>> => q[Len(q)] = q[1]
  BY <1>1, HandleOne, Zenon
<1> QED BY <1>1, <1>2, Zenon

(* A step of the DB does not touch the feed handler's memory.              *)
LEMMA FhUntouched ==
  ASSUME TypeOK, Inv, UNCHANGED dbFrame
  PROVE  FhTypeOK' /\ EnvTypeOK' /\ FhInv' /\ stream' = stream
<1>1. stream' = stream
  BY Zenon DEF dbFrame, envVars
<1> QED
  BY <1>1, SameStream, Zenon
  DEF TypeOK, FhTypeOK, EnvTypeOK, Inv, FhInv, Running, dbFrame, envVars

(* Emptied tables are typed.                                               *)
LEMMA WipeType ==
  ASSUME Wipe, Len(stream') \in Nat, inSync' \in BOOLEAN, dbUp' \in BOOLEAN
  PROVE  DbTypeOK'
<1>1. /\ rows' \in SUBSET Positions' /\ dbLast' \in 0..Len(stream')
      /\ dbEpoch' \in Nat
  BY DEF Wipe
<1>2. dbSess' \in BOOLEAN /\ applied' \in BOOLEAN
  BY Zenon DEF Wipe
<1> QED BY <1>1, <1>2, Zenon DEF DbTypeOK

(* on_listen_ready and drop_connection.                                    *)
LEMMA AcceptHangup ==
  ASSUME TypeOK, Inv, DbAccept \/ DbHangup
  PROVE  TypeOK' /\ Inv'
<1>1. UNCHANGED dbFrame
  BY Zenon DEF DbAccept, DbHangup
<1>2. FhTypeOK' /\ EnvTypeOK' /\ FhInv' /\ stream' = stream
  BY <1>1, FhUntouched, Zenon
<1>3. DbTypeOK' /\ DbInv' /\ ~inSync'
  BY <1>2, SameStream, Zenon
  DEF DbAccept, DbHangup, DropConnection, Wipe, metaVars, TypeOK, DbTypeOK,
      EnvTypeOK, Inv, DbInv
<1>4. LinkTypeOK'
  <2>1. <<Ctl("HELLO")>> \in Seq(Records(RecordOps))
    BY CtlType DEF RecordOps, TypeOK, EnvTypeOK
  <2>2. q' \in Seq(Records(RecordOps))
    <3>1. CASE q' = <<Ctl("HELLO")>>
      BY <2>1, <3>1, Zenon
    <3>2. CASE q' = <<>>
      BY <3>2
    <3> QED BY <3>1, <3>2, Zenon DEF DbAccept, DbHangup
  <2> QED
    BY <1>2, <2>2, SameStream, Zenon DEF DbAccept, DbHangup, TypeOK, LinkTypeOK
<1>5. LinkInv' /\ AskInv' /\ FlowInv'
  BY <1>1, <1>2, <1>3, SameStream, Zenon
  DEF DbAccept, DbHangup, Inv, LinkInv, AskInv, FlowInv, dbFrame, NoReply, Ctl,
      Rec
<1>6. QueueInv'
  <2> DEFINE hello == Ctl("HELLO")
  <2>1. hello.op = "HELLO"
    BY DEF Ctl, Rec
  <2> HIDE DEF hello
  <2>2. CASE q' = <<hello>>
    <3>1. q'[1] = hello /\ Len(q') = 1
      BY <2>2
    <3>2. WellFormed(q)'
      BY <2>1, <3>1 DEF WellFormed
    <3> QED BY <1>3, <2>1, <3>1, <3>2, Zenon DEF QueueInv, Fits
  <2>3. CASE q' = <<>>
    <3>1. Len(q') = 0
      BY <2>3
    <3>2. WellFormed(q)'
      BY <3>1 DEF WellFormed
    <3> QED BY <2>3, <3>2, Zenon DEF QueueInv
  <2> QED BY <2>2, <2>3, Zenon DEF DbAccept, DbHangup, hello
<1> QED BY <1>2, <1>3, <1>4, <1>5, <1>6, Zenon DEF TypeOK, Inv

(* A question is the only record under way, and the FH waits for it.       *)
LEMMA OnlyQuestion ==
  ASSUME TypeOK, Inv, NEW op \in {"HELLO", "GET_STATE"}, Handle(op),
         conn = "live", stream' = stream
  PROVE  /\ q' = <<>> /\ ~inSync
         /\ op = "HELLO" => pc \in {"hello", "rehello", "redial"}
         /\ op = "GET_STATE" => pc = "dump" /\ dbEpoch # 0
<1>1. /\ q # <<>> /\ q[1].op = op /\ Fits(q[1])
      /\ q' # <<>> => Follows(q[1], q'[1])
      /\ q' = <<>> => q[Len(q)] = q[1]
  BY HandleFrame, Zenon DEF Handle
<1>2. q' = <<>> /\ q[Len(q)] = q[1]
  BY <1>1, Zenon DEF Follows
<1>3. link = "live" /\ pc \notin {"down", "ended", "live", "mcast"}
  BY <1>1, <1>2, Zenon DEF Inv, LinkInv, FlowInv
<1>4. \A o \in RecordOps : <<Ctl(o)>>[1].op = o
  BY Zenon DEF Ctl, Rec
<1>5. pc = "dump" => op = "GET_STATE"
  BY <1>1, <1>3, <1>4, Zenon DEF Inv, AskInv, RecordOps
<1>6. pc \in {"hello", "rehello", "redial"} => op = "HELLO"
  BY <1>1, <1>3, <1>4, Zenon DEF Inv, AskInv, RecordOps
<1> QED
  BY <1>1, <1>2, <1>3, <1>5, <1>6, Zenon DEF Fits, TypeOK, FhTypeOK

(* The two questions are answered with the state of the tables.            *)
LEMMA Answers ==
  ASSUME TypeOK, Inv, DbHello \/ DbGetState
  PROVE  TypeOK' /\ Inv'
<1>1. UNCHANGED <<dbFrame, dbUp, metaVars, inSync, conn, link>>
      /\ conn = "live" /\ link = "live"
  BY Zenon DEF DbHello, DbGetState, Inv, LinkInv
<1>2. FhTypeOK' /\ EnvTypeOK' /\ FhInv' /\ stream' = stream
  BY <1>1, FhUntouched, Zenon
<1>3. DbTypeOK' /\ DbInv'
  BY <1>1, <1>2, SameStream, Zenon DEF TypeOK, DbTypeOK, Inv, DbInv, metaVars
<1>4. q' = <<>> /\ ~inSync /\ pc \notin {"live", "mcast", "down", "ended"}
  BY <1>1, <1>2, OnlyQuestion, Zenon DEF DbHello, DbGetState
<1>5. \/ /\ pc \in {"hello", "rehello", "redial"}
         /\ reply' = Rec("HELLO", dbLast, dbEpoch, FALSE, {})
      \/ /\ pc = "dump" /\ dbEpoch # 0
         /\ reply' = Rec("DUMP", dbLast, dbEpoch, dbSess, rows)
  BY <1>1, <1>2, OnlyQuestion, Zenon DEF DbHello, DbGetState
<1>6. LinkTypeOK'
  <2>1. reply' \in Records({"NONE", "HELLO", "DUMP"})
    <3>1. CASE reply' = Rec("HELLO", dbLast, dbEpoch, FALSE, {})
      <4>1. {} \in SUBSET Positions /\ FALSE \in BOOLEAN
        BY Zenon
      <4> QED BY <3>1, <4>1, RecType, Zenon DEF TypeOK, DbTypeOK
    <3>2. CASE reply' = Rec("DUMP", dbLast, dbEpoch, dbSess, rows)
      BY <3>2, RecType, Zenon DEF TypeOK, DbTypeOK
    <3> QED BY <1>5, <3>1, <3>2, Zenon
  <2>2. q' \in Seq(Records(RecordOps))
    BY <1>4
  <2> QED
    BY <1>1, <1>2, <2>1, <2>2, SameStream, Zenon DEF TypeOK, LinkTypeOK
<1>7. LinkInv' /\ FlowInv'
  BY <1>1, <1>2, <1>4, <1>5, Zenon DEF Inv, LinkInv, FlowInv, dbFrame
<1>8. AskInv'
  BY <1>1, <1>2, <1>4, <1>5, SameStream
  DEF Inv, AskInv, DbInv, dbFrame, metaVars, Rec
<1>9. QueueInv'
  BY <1>2, <1>4, SameStream, ShortQueues, Zenon DEF QueueInv
<1> QED BY <1>2, <1>3, <1>6, <1>7, <1>8, <1>9, Zenon DEF TypeOK, Inv

(* While sync records or updates are under way no question is, so AskInv    *)
(* says nothing about the DB and handling a record leaves it true; so does  *)
(* LinkInv, because the connection stays.                                   *)
LEMMA NoQuestion ==
  ASSUME TypeOK, Inv, NEW op \in RecordOps \ {"HELLO", "GET_STATE"},
         Handle(op), UNCHANGED <<dbFrame, dbUp, conn, link, reply>>
  PROVE  /\ LinkTypeOK' /\ LinkInv' /\ AskInv'
         /\ link = "live" => pc \in {"live", "mcast"}
<1>1. stream' = stream
  BY Zenon DEF dbFrame, envVars
<1>2. /\ q # <<>> /\ q[1].op = op /\ q' \in Seq(Records(RecordOps))
      /\ conn # "none"
  BY <1>1, HandleFrame, Zenon DEF Handle
<1>3. \A o \in RecordOps : <<Ctl(o)>>[1].op = o
  BY Zenon DEF Ctl, Rec
<1>4. link = "live" => pc \in {"live", "mcast"}
  <2>1. link = "live" => pc \notin {"hello", "rehello", "redial", "dump"}
    BY <1>2, <1>3, Zenon DEF Inv, AskInv, RecordOps
  <2> QED BY <2>1, Zenon DEF Inv, LinkInv, TypeOK, FhTypeOK
<1>5. LinkTypeOK'
  BY <1>1, <1>2, SameStream, Zenon DEF TypeOK, LinkTypeOK
<1>6. LinkInv'
  BY <1>2, <1>4, Zenon DEF Inv, LinkInv, dbFrame
<1>7. AskInv'
  BY <1>1, <1>4, SameStream, Zenon DEF Inv, AskInv, dbFrame
<1> QED BY <1>4, <1>5, <1>6, <1>7, Zenon

(* RESET and SYNC_BEGIN empty the tables and open the bracket.             *)
LEMMA ResetBegin ==
  ASSUME TypeOK, Inv, DbReset \/ DbSyncBegin
  PROVE  TypeOK' /\ Inv'
<1>1. PICK op \in {"RESET", "SYNC_BEGIN"} :
        Handle(op) /\ (op = "RESET" <=> DbReset) /\ (op = "SYNC_BEGIN" <=> DbSyncBegin)
  BY Zenon DEF DbReset, DbSyncBegin, Handle
<1>2. UNCHANGED <<dbFrame, dbUp, conn, link, reply>>
  BY Zenon DEF DbReset, DbSyncBegin
<1>3. FhTypeOK' /\ EnvTypeOK' /\ FhInv' /\ stream' = stream
  BY <1>2, FhUntouched, Zenon
<1>4. /\ q[1].op = op /\ Fits(q[1])
      /\ WellFormed(q') /\ q' \in Seq(Records(RecordOps))
      /\ q' # <<>> => Follows(q[1], q'[1]) /\ q'[Len(q')] = q[Len(q)]
      /\ q' = <<>> => q[Len(q)] = q[1]
      /\ dbUp
  BY <1>1, <1>3, HandleFrame, Zenon
<1>5. LinkTypeOK' /\ LinkInv' /\ AskInv'
      /\ (link = "live" => pc \in {"live", "mcast"})
  BY <1>1, <1>2, NoQuestion, Zenon DEF RecordOps
<1>6. DbTypeOK' /\ DbInv' /\ rows' = {} /\ dbEpoch' = 0
      /\ (op = "RESET" => ~inSync') /\ (op = "SYNC_BEGIN" => inSync')
  <2>1. CASE op = "RESET"
    <3>1. /\ Wipe /\ UNCHANGED <<inSync, dbUp>> /\ ~inSync
      BY <1>1, <1>4, <2>1, Zenon DEF DbReset, Fits
    <3>2. DbTypeOK'
      <4>1. inSync' \in BOOLEAN /\ dbUp' \in BOOLEAN
        BY <3>1, Zenon DEF TypeOK, DbTypeOK
      <4>2. Wipe /\ Len(stream') \in Nat
        BY <1>3, <3>1 DEF TypeOK, EnvTypeOK
      <4> QED BY <4>1, <4>2, WipeType, Zenon
    <3>3. DbInv'
      BY <1>4, <3>1, Zenon DEF Wipe, DbInv
    <3> QED BY <2>1, <3>1, <3>2, <3>3, Zenon DEF Wipe
  <2>2. CASE op = "SYNC_BEGIN"
    <3>1. /\ UNCHANGED <<rows, dbLast, dbEpoch, dbSess, applied, dbUp>>
          /\ inSync' = TRUE /\ ~inSync /\ dbEpoch = 0
      BY <1>1, <1>4, <2>2, Zenon DEF DbSyncBegin, Fits, metaVars
    <3> QED BY <1>3, <1>4, <2>2, <3>1, SameStream, Zenon
            DEF TypeOK, DbTypeOK, Inv, DbInv
  <2> QED BY <2>1, <2>2, Zenon
<1>7. FlowInv'
  <2>1. link = "live" => q # <<>> /\ q[Len(q)].op \in {"SYNC_END", "UPDATE"}
                         /\ UpToDate(q[Len(q)].n, q[Len(q)].e)
    BY <1>1, <1>5, Zenon DEF Inv, FlowInv, Handle
  <2>2. link = "live" => q' # <<>>
    BY <1>1, <1>4, <2>1, Zenon
  <2> QED BY <1>2, <1>3, <1>4, <2>1, <2>2, SameStream, Zenon
          DEF FlowInv, UpToDate, dbFrame
<1>8. QueueInv'
  BY <1>3, <1>4, <1>6, SameStream, Zenon DEF QueueInv, Follows, Fits
<1> QED BY <1>3, <1>5, <1>6, <1>7, <1>8, Zenon DEF TypeOK, Inv

(* The rows of a sync.                                                     *)
LEMMA SyncRows ==
  ASSUME TypeOK, Inv, DbSyncRows
  PROVE  TypeOK' /\ Inv'
<1>1. Handle("ROWS")
  BY Zenon DEF DbSyncRows
<1>2. UNCHANGED <<dbFrame, dbUp, conn, link, reply>>
  BY Zenon DEF DbSyncRows
<1>3. FhTypeOK' /\ EnvTypeOK' /\ FhInv' /\ stream' = stream
  BY <1>2, FhUntouched, Zenon
<1>4. /\ Head(q) = q[1] /\ q[1].op = "ROWS" /\ Fits(q[1])
      /\ q[1] \in Records(RecordOps)
      /\ WellFormed(q') /\ q' \in Seq(Records(RecordOps))
      /\ q' # <<>> => Follows(q[1], q'[1]) /\ q'[Len(q')] = q[Len(q)]
      /\ q' = <<>> => q[Len(q)] = q[1]
      /\ dbUp
  BY <1>1, <1>3, HandleFrame, Zenon
<1>5. LinkTypeOK' /\ LinkInv' /\ AskInv'
      /\ (link = "live" => pc \in {"live", "mcast"})
  BY <1>1, <1>2, NoQuestion, Zenon DEF RecordOps
<1>6. DbTypeOK' /\ DbInv'
  <2>1. q[1].c \in SUBSET Positions
    BY <1>4, Zenon DEF Records
  <2> QED
    BY <1>3, <1>4, <2>1, SameStream, Zenon
    DEF DbSyncRows, Fits, TypeOK, DbTypeOK, Inv, DbInv
<1>7. FlowInv'
  <2>1. link = "live" => q # <<>> /\ q[Len(q)].op \in {"SYNC_END", "UPDATE"}
                         /\ UpToDate(q[Len(q)].n, q[Len(q)].e)
    BY <1>1, <1>5, Zenon DEF Inv, FlowInv, Handle
  <2>2. link = "live" => q' # <<>>
    BY <1>4, <2>1, Zenon
  <2> QED BY <1>2, <1>3, <1>4, <2>1, <2>2, SameStream, Zenon
          DEF FlowInv, UpToDate, dbFrame
<1>8. QueueInv'
  BY <1>3, <1>4, SameStream, Zenon DEF QueueInv, Follows, Fits, DbSyncRows
<1> QED BY <1>3, <1>5, <1>6, <1>7, <1>8, Zenon DEF TypeOK, Inv

(* SYNC_END names the position the rows are at.                            *)
LEMMA SyncEnd ==
  ASSUME TypeOK, Inv, DbSyncEnd
  PROVE  TypeOK' /\ Inv'
<1>1. Handle("SYNC_END")
  BY Zenon DEF DbSyncEnd
<1>2. UNCHANGED <<dbFrame, dbUp, conn, link, reply>>
  BY Zenon DEF DbSyncEnd
<1>3. FhTypeOK' /\ EnvTypeOK' /\ FhInv' /\ stream' = stream
  BY <1>2, FhUntouched, Zenon
<1>4. /\ Head(q) = q[1] /\ q[1].op = "SYNC_END" /\ Fits(q[1])
      /\ q[1] \in Records(RecordOps)
      /\ WellFormed(q') /\ q' \in Seq(Records(RecordOps))
      /\ q' # <<>> => Follows(q[1], q'[1]) /\ q'[Len(q')] = q[Len(q)]
      /\ q' = <<>> => q[Len(q)] = q[1]
      /\ dbUp
  BY <1>1, <1>3, HandleFrame, Zenon
<1>5. LinkTypeOK' /\ LinkInv' /\ AskInv'
      /\ (link = "live" => pc \in {"live", "mcast"})
  BY <1>1, <1>2, NoQuestion, Zenon DEF RecordOps
<1>6. /\ inSync' = FALSE /\ rows' = rows /\ applied' = applied /\ dbUp' = dbUp
      /\ dbLast' = q[1].n /\ dbEpoch' = q[1].e /\ dbSess' = q[1].sess
      /\ rows \cap Of({"X"}) = Book(q[1].n)
  BY <1>4, Zenon DEF DbSyncEnd, Fits
<1>7. /\ q[1].n \in 0..Len(stream) /\ q[1].e \in Nat /\ q[1].sess \in BOOLEAN
  BY <1>4, Zenon DEF Records
<1>8. q[1].e # 0
  <2>1. Len(q) \in Nat /\ Len(q) >= 1
    BY <1>1 DEF Handle, TypeOK, LinkTypeOK
  <2> QED BY <1>4, <2>1 DEF Inv, QueueInv, WellFormed
<1>9. DbTypeOK'
  BY <1>3, <1>6, <1>7, SameStream, Zenon DEF TypeOK, DbTypeOK
<1>10. DbInv'
  BY <1>3, <1>4, <1>6, <1>8, SameStream, Zenon DEF DbInv
<1>11. FlowInv'
  <2>1. link = "live" => q # <<>> /\ q[Len(q)].op \in {"SYNC_END", "UPDATE"}
                         /\ UpToDate(q[Len(q)].n, q[Len(q)].e)
    BY <1>1, <1>5, Zenon DEF Inv, FlowInv, Handle
  <2>2. \A n, e : UpToDate(n, e)' = UpToDate(n, e)
    BY <1>2, <1>3, SameStream, Zenon DEF UpToDate, dbFrame
  <2>3. link' = link /\ ~inSync'
    BY <1>2, <1>6, Zenon
  <2>4. link = "live" /\ q' = <<>> => UpToDate(dbLast', dbEpoch')
    BY <1>4, <1>6, <2>1, Zenon
  <2>5. link = "live" /\ q' # <<>> =>
          /\ q'[Len(q')].op \in {"SYNC_END", "UPDATE"}
          /\ UpToDate(q'[Len(q')].n, q'[Len(q')].e)
    BY <1>4, <2>1, Zenon
  <2> QED BY <2>2, <2>3, <2>4, <2>5, Zenon DEF FlowInv
<1>12. QueueInv'
  BY <1>3, <1>4, <1>6, SameStream, Zenon DEF QueueInv, Follows, Fits, Successor
<1> QED BY <1>3, <1>5, <1>9, <1>10, <1>11, <1>12, Zenon DEF TypeOK, Inv

(* A live UPDATE is the DB's next message, so the dup guard lets it pass.  *)
LEMMA UpdateStep ==
  ASSUME TypeOK, Inv, DbUpdate
  PROVE  TypeOK' /\ Inv'
<1>1. Handle("UPDATE")
  BY Zenon DEF DbUpdate
<1>2. UNCHANGED <<dbFrame, dbUp, conn, link, reply>>
  BY Zenon DEF DbUpdate
<1>3. FhTypeOK' /\ EnvTypeOK' /\ FhInv' /\ stream' = stream
  BY <1>2, FhUntouched, Zenon
<1>4. /\ Head(q) = q[1] /\ q[1].op = "UPDATE" /\ Fits(q[1])
      /\ q[1] \in Records(RecordOps)
      /\ WellFormed(q') /\ q' \in Seq(Records(RecordOps))
      /\ q' # <<>> => Follows(q[1], q'[1]) /\ q'[Len(q')] = q[Len(q)]
      /\ q' = <<>> => q[Len(q)] = q[1]
      /\ dbUp
  BY <1>1, <1>3, HandleFrame, Zenon
<1>5. LinkTypeOK' /\ LinkInv' /\ AskInv'
      /\ (link = "live" => pc \in {"live", "mcast"})
  BY <1>1, <1>2, NoQuestion, Zenon DEF RecordOps
<1>6. /\ q[1].n \in 0..Len(stream) /\ q[1].e \in Nat /\ q[1].sess \in BOOLEAN
      /\ q[1].c \in SUBSET Positions
  BY <1>4, Zenon DEF Records
<1>7. /\ ~inSync /\ q[1].e = dbEpoch /\ dbLast < q[1].n
      /\ Book(q[1].n) = Book(dbLast) \cup q[1].c
  BY <1>4, Zenon DEF Fits, Successor
<1>8. /\ q[1].e # 0 /\ q[1].c = {q[1].n} \cap Of({"X"})
  <2>1. Len(q) \in Nat /\ Len(q) >= 1
    BY <1>1 DEF Handle, TypeOK, LinkTypeOK
  <2> QED BY <1>4, <2>1 DEF Inv, QueueInv, WellFormed
<1>9. ~IsDuplicate(Head(q))
  BY <1>4, <1>6, <1>7 DEF IsDuplicate, TypeOK, DbTypeOK
<1>10. /\ inSync' = inSync /\ rows' = rows \cup q[1].c /\ applied' = TRUE
       /\ dbLast' = q[1].n /\ dbEpoch' = q[1].e /\ dbSess' = q[1].sess
       /\ dbUp' = dbUp
  BY <1>4, <1>7, <1>9, Zenon DEF DbUpdate
<1>11. DbTypeOK'
  BY <1>3, <1>6, <1>10, SameStream, Zenon DEF TypeOK, DbTypeOK
<1>12. DbInv'
  <2>1. rows' \cap Of({"X"}) = Book(q[1].n)
    BY <1>7, <1>8, <1>10, Zenon DEF Inv, DbInv
  <2> QED BY <1>3, <1>4, <1>7, <1>8, <1>10, <2>1, SameStream, Zenon DEF DbInv
<1>13. FlowInv'
  <2>1. link = "live" => q # <<>> /\ q[Len(q)].op \in {"SYNC_END", "UPDATE"}
                         /\ UpToDate(q[Len(q)].n, q[Len(q)].e)
    BY <1>1, <1>5, Zenon DEF Inv, FlowInv, Handle
  <2>2. \A n, e : UpToDate(n, e)' = UpToDate(n, e)
    BY <1>2, <1>3, SameStream, Zenon DEF UpToDate, dbFrame
  <2>3. link' = link
    BY <1>2, Zenon
  <2>4. link = "live" /\ q' = <<>> => ~inSync' /\ UpToDate(dbLast', dbEpoch')
    BY <1>4, <1>7, <1>10, <2>1, Zenon
  <2>5. link = "live" /\ q' # <<>> =>
          /\ q'[Len(q')].op \in {"SYNC_END", "UPDATE"}
          /\ UpToDate(q'[Len(q')].n, q'[Len(q')].e)
    BY <1>4, <2>1, Zenon
  <2> QED BY <2>2, <2>3, <2>4, <2>5, Zenon DEF FlowInv
<1>14. QueueInv'
  BY <1>3, <1>4, <1>7, <1>10, SameStream, Zenon DEF QueueInv, Follows, Fits, Successor
<1> QED BY <1>3, <1>5, <1>11, <1>12, <1>13, <1>14, Zenon DEF TypeOK, Inv

(* The DB dies, or starts with empty tables.                               *)
LEMMA DbDown ==
  ASSUME TypeOK, Inv, DbCrash \/ DbStart, FhDbAssumption
  PROVE  TypeOK' /\ Inv'
<1>1. UNCHANGED <<pc, market, last, next, epoch, sess, mcast, stream, clock,
                  fhCrashes, stalls>>
  BY Zenon DEF DbCrash, DbStart, dbFrame, envVars
<1>2. FhTypeOK' /\ EnvTypeOK' /\ FhInv'
  <2>1. FhTypeOK'
    BY <1>1, SameStream, Zenon DEF TypeOK, FhTypeOK
  <2>2. FhInv'
    BY <1>1, SameStream, Zenon DEF Inv, FhInv, Running
  <2>3. dbCrashes' \in 0..MaxDbCrashes
    BY DEF DbCrash, DbStart, dbFrame, envVars, TypeOK, EnvTypeOK, FhDbAssumption
  <2> QED BY <1>1, <2>1, <2>2, <2>3, Zenon DEF TypeOK, EnvTypeOK
<1>3. ~DbStart => /\ Wipe /\ dbUp' = FALSE /\ inSync' = FALSE /\ q' = <<>>
                  /\ conn' = "none" /\ reply' \in {reply, NoReply}
                  /\ link' = IF link \in {"pending", "live"} THEN "dead" ELSE link
  BY Zenon DEF DbCrash
<1>4. DbStart => /\ UNCHANGED <<rows, dbLast, dbEpoch, dbSess, applied, inSync,
                                conn, q, reply, link>>
                 /\ ~dbUp /\ dbUp' = TRUE
  BY Zenon DEF DbStart, metaVars
<1>5. DbTypeOK'
  <2>1. CASE DbStart
    BY <1>1, <1>4, <2>1, SameStream, Zenon DEF TypeOK, DbTypeOK
  <2>2. CASE ~DbStart
    <3>1. Len(stream') \in Nat
      BY <1>1 DEF TypeOK, EnvTypeOK
    <3>2. Wipe /\ inSync' \in BOOLEAN /\ dbUp' \in BOOLEAN
      BY <1>3, <2>2, Zenon
    <3> QED BY <3>1, <3>2, WipeType, Zenon
  <2> QED BY <2>1, <2>2, Zenon
<1>6. DbInv'
  BY <1>1, <1>3, <1>4, SameStream, Zenon DEF Inv, DbInv, Wipe
<1>7. LinkTypeOK'
  <2>1. CASE DbStart
    BY <1>1, <1>4, <2>1, SameStream, Zenon DEF TypeOK, LinkTypeOK
  <2>2. CASE ~DbStart
    <3>1. reply' \in Records({"NONE", "HELLO", "DUMP"})
      BY <1>3, <2>2, CtlType DEF TypeOK, LinkTypeOK, EnvTypeOK
    <3>2. q' \in Seq(Records(RecordOps))
      BY <1>3, <2>2
    <3> QED BY <1>1, <1>3, <2>2, <3>1, <3>2, SameStream, Zenon DEF TypeOK, LinkTypeOK
  <2> QED BY <2>1, <2>2, Zenon
<1>8. LinkInv' /\ AskInv' /\ FlowInv'
  <2>1. ~DbStart => link' # "live" /\ (reply' = reply \/ reply' = NoReply)
    BY <1>3, Zenon
  <2>2. DbStart => link' = link /\ link # "live" /\ reply' = reply
    BY <1>4, Zenon DEF Inv, LinkInv
  <2>3. LinkInv'
    BY <1>1, <1>3, <1>4 DEF Inv, LinkInv
  <2>4. AskInv'
    <3>1. link' # "live" /\ pc' = pc /\ (reply' = reply \/ reply' = NoReply)
      BY <1>1, <2>1, <2>2, Zenon
    <3>2. CASE reply' = NoReply
      <4>1. reply'.op = "NONE"
        BY <3>2, Zenon DEF NoReply, Ctl, Rec
      <4> QED BY <3>1, <4>1, Zenon DEF AskInv
    <3>3. CASE reply' = reply
      <4>1. /\ reply.op = "HELLO" => pc \in {"hello", "rehello", "redial"}
            /\ reply.op = "DUMP" => /\ pc = "dump" /\ reply.e # 0
                                    /\ reply.c \cap Of({"X"}) = Book(reply.n)
        BY Zenon DEF Inv, AskInv
      <4>2. Of({"X"})' = Of({"X"}) /\ Book(reply.n)' = Book(reply.n)
        BY <1>1, <3>3, SameStream, Zenon
      <4> QED BY <3>1, <3>3, <4>1, <4>2, Zenon DEF AskInv
    <3> QED BY <3>1, <3>2, <3>3, Zenon
  <2>5. FlowInv'
    BY <2>1, <2>2, Zenon DEF FlowInv
  <2> QED BY <2>3, <2>4, <2>5, Zenon
<1>9. QueueInv'
  BY <1>1, <1>3, <1>4, SameStream, ShortQueues, Zenon DEF Inv, QueueInv, Fits, LinkInv
<1> QED BY <1>2, <1>5, <1>6, <1>7, <1>8, <1>9, Zenon DEF TypeOK, Inv

-----------------------------------------------------------------------------
(* The steps of jnxfh: each action, or family of actions that change the    *)
(* same things, keeps TypeOK /\ Inv.                                        *)

(* A step of the feed handler does not touch the tables.                   *)
LEMMA DbUntouched ==
  ASSUME TypeOK, Inv, UNCHANGED <<dbUp, metaVars, inSync, stream>>
  PROVE  DbTypeOK' /\ DbInv' /\ \A r : Fits(r)' = Fits(r)
<1>1. DbTypeOK' /\ DbInv'
  BY SameStream, Zenon DEF TypeOK, DbTypeOK, Inv, DbInv, metaVars
<1> QED BY <1>1, SameStream DEF Fits, Successor, metaVars

(* The link is closed, with what was sent still readable.                  *)
LEMMA Closed ==
  ASSUME TypeOK, Inv, CloseLink, UNCHANGED <<dbUp, metaVars, inSync, stream>>,
         q' \in Seq(Records(RecordOps)), WellFormed(q'),
         q' # <<>> => Fits(q'[1]),
         conn = "none" => q' = <<>>
  PROVE  LinkTypeOK' /\ LinkInv' /\ AskInv' /\ FlowInv' /\ QueueInv'
<1>1. stream' = stream
  BY Zenon
<1>2. LinkTypeOK'
  BY <1>1, SameStream, CtlType
  DEF CloseLink, TypeOK, LinkTypeOK, EnvTypeOK
<1>3. LinkInv' /\ AskInv' /\ FlowInv'
  BY Zenon DEF CloseLink, Inv, LinkInv, AskInv, FlowInv, NoReply, Ctl, Rec
<1>4. QueueInv'
  BY <1>1, SameStream, DbUntouched, Zenon DEF QueueInv
<1> QED BY <1>2, <1>3, <1>4, Zenon

(* In particular when nothing more was sent.                               *)
LEMMA ClosedAsIs ==
  ASSUME TypeOK, Inv, CloseLink, UNCHANGED <<dbUp, metaVars, inSync, stream, q>>
  PROVE  LinkTypeOK' /\ LinkInv' /\ AskInv' /\ FlowInv' /\ QueueInv'
<1>1. /\ q \in Seq(Records(RecordOps)) /\ WellFormed(q) /\ q' = q
      /\ q # <<>> => Fits(q[1])
      /\ conn = "none" => q = <<>>
  BY Zenon DEF TypeOK, LinkTypeOK, Inv, QueueInv, LinkInv
<1> QED BY <1>1, Closed, Zenon

(* connect_hello's first half.                                             *)
LEMMA Dialed ==
  ASSUME TypeOK, Inv, UNCHANGED <<dbUp, metaVars, inSync, stream, q>>,
         link' = "pending", reply' = NoReply, dbUp,
         conn' = IF link = "live" THEN "stale" ELSE conn,
         pc' \in {"hello", "rehello", "redial"}
  PROVE  LinkTypeOK' /\ LinkInv' /\ AskInv' /\ FlowInv' /\ QueueInv'
<1>1. stream' = stream
  BY Zenon
<1>2. LinkTypeOK'
  BY <1>1, SameStream, CtlType DEF TypeOK, LinkTypeOK, EnvTypeOK
<1>3. LinkInv' /\ AskInv' /\ FlowInv'
  BY Zenon DEF Inv, LinkInv, AskInv, FlowInv, NoReply, Ctl, Rec
<1>4. QueueInv'
  BY <1>1, SameStream, DbUntouched, Zenon DEF Inv, QueueInv
<1> QED BY <1>2, <1>3, <1>4, Zenon

(* The sequence number after an applied one.                               *)
LEMMA NextUp ==
  ASSUME NEW n \in Nat, NEW x \in 0..n, NEW y, y = x + 1
  PROVE  x < y /\ y - 1 = x /\ y \in 1..(n + 1)
  OBVIOUS

(* Cold bootstrap, by replay or from a snapshot, gives an exact market.    *)
LEMMA Cold ==
  ASSUME TypeOK, Inv, ~Running, ColdStart, pc' = "live", epoch' \in Nat \ {0},
         UNCHANGED <<stream, mcast>>
  PROVE  /\ FhTypeOK' /\ FhInv'
         /\ market' \cap Of({"X"}) = Book(last')
<1>1. market = {} /\ last = 0 /\ next = 1
  BY Zenon DEF Inv, FhInv
<1>2. Len(stream) \in Nat
  BY DEF TypeOK, EnvTypeOK
<1>3. /\ market' \in SUBSET Positions /\ last' \in 0..Len(stream)
      /\ next' = last' + 1 /\ sess' \in BOOLEAN
      /\ market' \cap Of({"X"}) = Book(last')
  <2>1. CASE last' = 0 /\ next' = 1 /\ UNCHANGED <<market, sess>>
    BY <1>1, <1>2, <2>1, BookZero DEF TypeOK, FhTypeOK
  <2>2. ASSUME NEW cut \in 0..Len(stream),
               market' = market \cup UpTo({"T", "L", "X"}, cut),
               last' = cut, next' = cut + 1, sess' = TRUE
        PROVE  /\ market' \in SUBSET Positions /\ last' \in 0..Len(stream)
               /\ next' = last' + 1 /\ sess' \in BOOLEAN
               /\ market' \cap Of({"X"}) = Book(last')
    BY <1>1, <2>2, BookCut, Zenon
  <2> QED BY <2>1, <2>2, Zenon DEF ColdStart
<1>4. /\ stream' = stream /\ Positions' = Positions /\ Of({"X"})' = Of({"X"})
      /\ \A n : Book(n)' = Book(n)
  BY SameStream, Zenon
<1>5. FhTypeOK'
  <2>1. next' \in 1..(Len(stream) + 1)
    BY <1>2, <1>3, NextUp, Zenon
  <2>2. market' \in SUBSET Positions' /\ mcast' \in SUBSET Positions'
    BY <1>3, <1>4, Zenon DEF TypeOK, FhTypeOK
  <2> QED BY <1>3, <1>4, <2>1, <2>2, Zenon DEF FhTypeOK
<1>6. FhInv'
  <2>1. last' < next' /\ next' - 1 = last'
    BY <1>2, <1>3, NextUp, Zenon
  <2> QED BY <1>3, <1>4, <2>1, Zenon DEF FhInv, Running
<1> QED BY <1>3, <1>5, <1>6, Zenon

(* After an answer nothing is under way and the DB is outside a bracket.   *)
LEMMA Answered ==
  ASSUME TypeOK, Inv, reply.op \in {"HELLO", "DUMP"}
  PROVE  /\ link \in {"live", "dead"}
         /\ q = <<>> /\ ~inSync
         /\ link = "live" => reply.e = dbEpoch /\ reply.n = dbLast
<1>1. reply # NoReply
  BY DEF NoReply, Ctl, Rec
<1>2. pc \in {"hello", "rehello", "redial", "dump"}
  BY Zenon DEF Inv, AskInv
<1>3. link \in {"live", "dead"}
  BY <1>1, Zenon DEF Inv, LinkInv, TypeOK, LinkTypeOK
<1> QED BY <1>1, <1>2, <1>3, Zenon DEF Inv, AskInv, LinkInv

(* push_full_sync, whole, refused or cut short by the send timeout.        *)
LEMMA SyncPushed ==
  ASSUME TypeOK, Inv, reply.op \in {"HELLO", "DUMP"}, FhDbAssumption,
         NEW m \in SUBSET Positions, NEW n \in 0..Len(stream),
         NEW e \in Nat \ {0}, NEW k \in BOOLEAN,
         m \cap Of({"X"}) = Book(n),
         Send(SyncDump(m, n, e, k)),
         pc' = "live", last' = n, epoch' = e,
         UNCHANGED <<dbUp, metaVars, inSync, stream>>
  PROVE  /\ LinkTypeOK' /\ LinkInv' /\ AskInv' /\ FlowInv' /\ QueueInv'
         /\ stalls' \in 0..MaxStalls
<1> DEFINE S == SyncDump(m, n, e, k)
<1>1. q = <<>> /\ ~inSync
  BY Answered, Zenon
<1>2. /\ S \in Seq(Records(RecordOps)) /\ WellFormed(S) /\ Len(S) = 4
      /\ S[1] = Ctl("RESET") /\ S[4] = Rec("SYNC_END", n, e, k, {})
  BY SyncDumpWellFormed DEF TypeOK, EnvTypeOK
<1> HIDE DEF S
<1>3. Fits(S[1])
  BY <1>1, <1>2 DEF Fits, Ctl, Rec
<1>4. stream' = stream /\ \A r : Fits(r)' = Fits(r)
  BY DbUntouched, Zenon
<1>5. CASE SendOk(S)
  <2>1. /\ q' = S /\ reply' = NoReply /\ link = "live" /\ conn = "live"
        /\ link' = "live" /\ conn' = "live" /\ stalls' = stalls
    BY <1>1, <1>2, <1>5 DEF SendOk, Inv, LinkInv
  <2>2. q' # <<>> /\ q'[1] = S[1] /\ q'[Len(q')] = Rec("SYNC_END", n, e, k, {})
    <3>1. S = <<>> => Len(S) = 0
      OBVIOUS
    <3>2. S # <<>>
      BY <1>2, <3>1
    <3> QED BY <1>2, <2>1, <3>2, Zenon
  <2>3. LinkTypeOK'
    <3>1. \A T : Records(T)' = Records(T)
      BY <1>4, SameStream, Zenon
    <3>2. NoReply \in Records({"NONE", "HELLO", "DUMP"})
      <4>1. Len(stream) \in Nat
        BY DEF TypeOK, EnvTypeOK
      <4> QED BY <4>1, CtlType, Zenon
    <3> QED BY <1>2, <2>1, <3>1, <3>2, Zenon DEF LinkTypeOK
  <2>4. LinkInv' /\ AskInv'
    BY <2>1, Zenon DEF Inv, LinkInv, AskInv, NoReply, Ctl, Rec
  <2>5. FlowInv'
    BY <2>1, <2>2 DEF FlowInv, UpToDate, Rec
  <2>6. QueueInv'
    BY <1>2, <1>3, <1>4, <2>1, SameStream, Zenon DEF QueueInv
  <2> QED BY <2>1, <2>3, <2>4, <2>5, <2>6, Zenon DEF TypeOK, EnvTypeOK
<1>6. CASE SendBroken
  BY <1>6, ClosedAsIs, Zenon DEF SendBroken, TypeOK, EnvTypeOK
<1>7. CASE SendStalled(S)
  <2>1. PICK j \in 0..3 : q' = q \o SubSeq(S, 1, j)
    <3>1. Len(S) - 1 = 3
      BY <1>2
    <3> QED BY <1>7, <3>1, Zenon DEF SendStalled
  <2>2. /\ SubSeq(S, 1, j) \in Seq(Records(RecordOps))
        /\ WellFormed(SubSeq(S, 1, j))
        /\ SubSeq(S, 1, j) # <<>> => SubSeq(S, 1, j)[1] = S[1]
    BY SMTT(30), <1>2, PartOf
  <2>3. q' = SubSeq(S, 1, j)
    <3>1. q' = <<>> \o SubSeq(S, 1, j)
      BY <1>1, <2>1, Zenon
    <3> QED BY <2>2, <3>1, EmptyFirst, Zenon
  <2>4. CloseLink /\ conn # "none" /\ stalls' = stalls + 1 /\ stalls < MaxStalls
    BY <1>7, Zenon DEF SendStalled, Inv, LinkInv
  <2>5. LinkTypeOK' /\ LinkInv' /\ AskInv' /\ FlowInv' /\ QueueInv'
    BY <1>3, <2>2, <2>3, <2>4, Closed, Zenon
  <2>6. stalls' \in 0..MaxStalls
    BY <2>4 DEF TypeOK, EnvTypeOK, FhDbAssumption
  <2> QED BY <2>5, <2>6, Zenon
<1> QED BY <1>5, <1>6, <1>7, Zenon DEF Send, S

(* Losing a database or ending leaves the link closed: the startup paths   *)
(* that go on without one,                                                 *)
LEMMA ColdWithout ==
  ASSUME TypeOK, Inv, ~Running, ColdNoDb, epoch' \in Nat \ {0},
         UNCHANGED <<stream, mcast, dbUp, metaVars, inSync>>
  PROVE  /\ FhTypeOK' /\ DbTypeOK' /\ LinkTypeOK' /\ Inv'
<1>1. FhTypeOK' /\ FhInv'
  BY Cold, Zenon DEF ColdNoDb
<1>2. LinkTypeOK' /\ LinkInv' /\ AskInv' /\ FlowInv' /\ QueueInv'
  BY ClosedAsIs, Zenon DEF ColdNoDb
<1>3. DbTypeOK' /\ DbInv'
  BY DbUntouched, Zenon
<1> QED BY <1>1, <1>2, <1>3, Zenon DEF Inv

(* and those that push the bootstrapped market.                            *)
LEMMA ColdWith ==
  ASSUME TypeOK, Inv, ~Running, reply.op \in {"HELLO", "DUMP"}, ColdWithDb,
         epoch' \in Nat \ {0}, FhDbAssumption,
         UNCHANGED <<stream, mcast, dbUp, metaVars, inSync>>
  PROVE  /\ FhTypeOK' /\ DbTypeOK' /\ LinkTypeOK' /\ Inv'
         /\ stalls' \in 0..MaxStalls
<1>1. /\ FhTypeOK' /\ FhInv' /\ market' \cap Of({"X"}) = Book(last')
      /\ pc' = "live"
  BY Cold, Zenon DEF ColdWithDb
<1>2. /\ market' \in SUBSET Positions /\ last' \in 0..Len(stream)
      /\ sess' \in BOOLEAN
  BY <1>1, SameStream, Zenon DEF FhTypeOK
<1>3. /\ LinkTypeOK' /\ LinkInv' /\ AskInv' /\ FlowInv' /\ QueueInv'
      /\ stalls' \in 0..MaxStalls
  BY <1>1, <1>2, SyncPushed, Zenon DEF ColdWithDb
<1>4. DbTypeOK' /\ DbInv'
  BY DbUntouched, Zenon
<1> QED BY <1>1, <1>3, <1>4, Zenon DEF Inv

(* connect_hello or get_state giving up costs at most one timeout.         *)
LEMMA LostType ==
  ASSUME TypeOK, AnswerLost, FhDbAssumption
  PROVE  stalls' \in 0..MaxStalls
  BY DEF AnswerLost, TypeOK, EnvTypeOK, FhDbAssumption

(* main() up to the first connect_hello.                                   *)
LEMMA StartStep ==
  ASSUME TypeOK, Inv, FhStart
  PROVE  TypeOK' /\ Inv'
<1>1. /\ pc = "down" /\ ~Running /\ epoch' = clock /\ epoch' \in Nat \ {0}
      /\ clock' = clock + 1 /\ clock' \in Nat \ {0}
      /\ UNCHANGED <<stream, mcast, dbUp, metaVars, inSync, fhCrashes,
                     dbCrashes>>
  BY DEF FhStart, startupFrame, TypeOK, EnvTypeOK, Running
<1>2. stalls' = stalls
  BY Zenon DEF FhStart, Dial
<1>3. EnvTypeOK'
  BY <1>1, <1>2, Zenon DEF TypeOK, EnvTypeOK
<1>4. CASE Dial /\ pc' = "hello" /\ UNCHANGED <<market, last, next, sess>>
  <2>1. LinkTypeOK' /\ LinkInv' /\ AskInv' /\ FlowInv' /\ QueueInv'
    BY <1>1, <1>4, Dialed, Zenon DEF Dial
  <2>2. DbTypeOK' /\ DbInv'
    BY <1>1, DbUntouched, Zenon
  <2>3. FhTypeOK' /\ FhInv'
    BY <1>1, <1>4, SameStream, Zenon DEF TypeOK, FhTypeOK, Inv, FhInv, Running
  <2> QED BY <1>3, <2>1, <2>2, <2>3, Zenon DEF TypeOK, Inv
<1>5. CASE ColdNoDb
  BY <1>1, <1>3, <1>5, ColdWithout, Zenon DEF TypeOK
<1> QED BY <1>4, <1>5, Zenon DEF FhStart

(* No answer during startup.                                               *)
LEMMA StartupLost ==
  ASSUME TypeOK, Inv, FhHelloLost \/ FhRehelloLost \/ FhRecoverFail,
         FhDbAssumption
  PROVE  TypeOK' /\ Inv'
<1>1. /\ pc \in {"hello", "rehello", "dump"} /\ ~Running /\ AnswerLost
      /\ epoch' = epoch /\ clock' = clock
      /\ UNCHANGED <<stream, mcast, dbUp, metaVars, inSync, fhCrashes,
                     dbCrashes>>
  BY Zenon DEF FhHelloLost, FhRehelloLost, FhRecoverFail, startupFrame, Running
<1>2. epoch' \in Nat \ {0}
  BY <1>1, Zenon DEF TypeOK, FhTypeOK, Inv, FhInv
<1>3. EnvTypeOK'
  BY <1>1, LostType, Zenon DEF TypeOK, EnvTypeOK
<1>4. CASE ColdNoDb
  BY <1>1, <1>2, <1>3, <1>4, ColdWithout, Zenon DEF TypeOK
<1>5. CASE ~ColdNoDb
  <2>1. /\ dbUp /\ pc' = "rehello" /\ link' = "pending" /\ reply' = NoReply
        /\ conn' = IF link = "live" THEN "stale" ELSE conn
        /\ UNCHANGED <<market, last, next, sess, q>>
    BY <1>5, Zenon DEF FhHelloLost, FhRehelloLost, FhRecoverFail
  <2>2. LinkTypeOK' /\ LinkInv' /\ AskInv' /\ FlowInv' /\ QueueInv'
    BY <1>1, <2>1, Dialed, Zenon
  <2>3. DbTypeOK' /\ DbInv'
    BY <1>1, DbUntouched, Zenon
  <2>4. FhTypeOK' /\ FhInv'
    BY <1>1, <1>2, <2>1, SameStream, Zenon DEF TypeOK, FhTypeOK, Inv, FhInv, Running
  <2> QED BY <1>3, <2>2, <2>3, <2>4, Zenon DEF TypeOK, Inv
<1> QED BY <1>4, <1>5, Zenon

(* The market bootstrapped without recovery is pushed to the DB.           *)
LEMMA StartupCold ==
  ASSUME TypeOK, Inv, FhHelloEmpty \/ FhRehello \/ FhRecoverBlank,
         FhDbAssumption
  PROVE  TypeOK' /\ Inv'
<1>1. /\ pc \in {"hello", "rehello", "dump"} /\ ~Running /\ clock' = clock
      /\ reply.op \in {"HELLO", "DUMP"} /\ ColdWithDb
      /\ epoch' = IF reply.op = "DUMP" THEN reply.e ELSE epoch
      /\ UNCHANGED <<stream, mcast, dbUp, metaVars, inSync, fhCrashes,
                     dbCrashes>>
  BY Zenon DEF FhHelloEmpty, FhRehello, FhRecoverBlank, startupFrame, Running
<1>2. epoch' \in Nat \ {0}
  <2>1. reply.e \in Nat
    BY Zenon DEF TypeOK, LinkTypeOK, Records
  <2> QED BY <1>1, <2>1, Zenon DEF TypeOK, FhTypeOK, Inv, FhInv, AskInv
<1>3. /\ FhTypeOK' /\ DbTypeOK' /\ LinkTypeOK' /\ Inv'
      /\ stalls' \in 0..MaxStalls
  BY <1>1, <1>2, ColdWith, Zenon
<1>4. EnvTypeOK'
  BY <1>1, <1>3, Zenon DEF TypeOK, EnvTypeOK
<1> QED BY <1>3, <1>4, Zenon DEF TypeOK

(* GET_STATE is asked only of a DB that has an epoch.                      *)
LEMMA GetStateStep ==
  ASSUME TypeOK, Inv, FhGetState
  PROVE  TypeOK' /\ Inv'
<1>1. /\ pc = "hello" /\ pc' = "dump" /\ reply.op = "HELLO" /\ reply' = NoReply
      /\ reply.e # 0 \/ reply.n # 0
      /\ q' = IF link = "live" THEN Append(q, Ctl("GET_STATE")) ELSE q
      /\ UNCHANGED <<market, last, next, sess, epoch, link, conn, stalls, clock,
                     mcast, dbUp, metaVars, inSync, stream, fhCrashes,
                     dbCrashes>>
  BY Zenon DEF FhGetState, startupFrame
<1>2. /\ q = <<>> /\ ~inSync /\ link \in {"live", "dead"}
      /\ link = "live" => reply.e = dbEpoch /\ reply.n = dbLast
  BY <1>1, Answered, Zenon
<1>3. link = "live" => dbEpoch # 0
  BY <1>1, <1>2, Zenon DEF Inv, DbInv
<1>4. q' = IF link = "live" THEN <<Ctl("GET_STATE")>> ELSE <<>>
  BY <1>1, <1>2
<1>5. DbTypeOK' /\ DbInv' /\ \A r : Fits(r)' = Fits(r)
  BY <1>1, DbUntouched, Zenon
<1>6. LinkTypeOK'
  <2>1. q' \in Seq(Records(RecordOps))
    <3>1. CASE link = "live"
      BY <1>4, <3>1, CtlType DEF TypeOK, EnvTypeOK, RecordOps
    <3>2. CASE link # "live"
      BY <1>4, <3>2
    <3> QED BY <3>1, <3>2, Zenon
  <2> QED BY <1>1, <2>1, SameStream, CtlType DEF TypeOK, LinkTypeOK, EnvTypeOK
<1>7. LinkInv' /\ AskInv' /\ FlowInv'
  BY <1>1, <1>2, <1>4, Zenon DEF Inv, LinkInv, AskInv, FlowInv, NoReply, Ctl, Rec
<1>8. QueueInv'
  <2>1. Fits(Ctl("GET_STATE")) \/ link # "live"
    BY <1>2, <1>3, Zenon DEF Fits, Ctl, Rec
  <2>2. <<Ctl("GET_STATE")>>[1] = Ctl("GET_STATE")
    BY Zenon
  <2>3. CASE link = "live"
    BY <1>1, <1>4, <1>5, <2>1, <2>2, <2>3, SameStream, ShortQueues, Zenon DEF QueueInv
  <2>4. CASE link # "live"
    BY <1>1, <1>4, <2>4, SameStream, ShortQueues, Zenon DEF QueueInv
  <2> QED BY <2>3, <2>4, Zenon
<1>9. FhTypeOK' /\ EnvTypeOK' /\ FhInv'
  BY <1>1, SameStream, Zenon DEF TypeOK, FhTypeOK, EnvTypeOK, Inv, FhInv, Running
<1> QED BY <1>5, <1>6, <1>7, <1>8, <1>9, Zenon DEF TypeOK, Inv

(* recover_from_db: the dump is an exact prefix, and the session resumes   *)
(* right after it.                                                         *)
LEMMA RecoverStep ==
  ASSUME TypeOK, Inv, FhRecover
  PROVE  TypeOK' /\ Inv'
<1>1. /\ pc = "dump" /\ pc' = "live" /\ reply.op = "DUMP" /\ reply' = NoReply
      /\ market' = reply.c /\ last' = reply.n /\ next' = reply.n + 1
      /\ epoch' = reply.e /\ sess' = reply.sess
      /\ UNCHANGED <<link, conn, q, stalls, clock, mcast, dbUp, metaVars, inSync,
                     stream, fhCrashes, dbCrashes>>
  BY Zenon DEF FhRecover, startupFrame
<1>2. /\ q = <<>> /\ ~inSync /\ link \in {"live", "dead"}
      /\ link = "live" => reply.e = dbEpoch /\ reply.n = dbLast
  BY <1>1, Answered, Zenon
<1>3. /\ reply.n \in 0..Len(stream) /\ reply.e \in Nat /\ reply.sess \in BOOLEAN
      /\ reply.c \in SUBSET Positions /\ Len(stream) \in Nat
  BY DEF TypeOK, LinkTypeOK, EnvTypeOK, Records
<1>4. reply.e # 0 /\ reply.c \cap Of({"X"}) = Book(reply.n)
  BY <1>1, Zenon DEF Inv, AskInv
<1>5. next' \in 1..(Len(stream) + 1) /\ last' < next' /\ next' - 1 = last'
  BY <1>1, <1>3, NextUp
<1>6. FhTypeOK' /\ EnvTypeOK'
  BY <1>1, <1>3, <1>5, SameStream, Zenon DEF TypeOK, FhTypeOK, EnvTypeOK
<1>7. FhInv'
  BY <1>1, <1>4, <1>5, SameStream, Zenon DEF FhInv, Running
<1>8. DbTypeOK' /\ DbInv' /\ \A r : Fits(r)' = Fits(r)
  BY <1>1, DbUntouched, Zenon
<1>9. LinkTypeOK'
  BY <1>1, SameStream, CtlType DEF TypeOK, LinkTypeOK, EnvTypeOK
<1>10. LinkInv' /\ AskInv'
  BY <1>1, <1>2, Zenon DEF Inv, LinkInv, AskInv, NoReply, Ctl, Rec
<1>11. FlowInv'
  <2>1. q' = <<>> /\ ~inSync' /\ dbLast' = dbLast /\ dbEpoch' = dbEpoch /\ link' = link
    BY <1>1, <1>2, Zenon DEF metaVars
  <2>2. ASSUME link = "live"
        PROVE  dbEpoch' = epoch' /\ dbLast' = last' /\ last' \in Nat
    BY <1>1, <1>2, <1>3, <2>1, <2>2
  <2>3. ASSUME link = "live"
        PROVE  UpToDate(dbLast, dbEpoch)'
    BY <2>2, <2>3 DEF UpToDate
  <2> QED BY <2>1, <2>3, Zenon DEF FlowInv
<1>12. QueueInv'
  BY <1>1, <1>2, SameStream, ShortQueues, Zenon DEF QueueInv
<1> QED BY <1>6, <1>7, <1>8, <1>9, <1>10, <1>11, <1>12, Zenon DEF TypeOK, Inv

(* Steps that leave the link alone keep what is under way well-formed.     *)
LEMMA LinkUntouched ==
  ASSUME TypeOK, Inv, UNCHANGED <<dbUp, metaVars, inSync, stream, link, conn, q,
                                  reply, epoch>>,
         pc \in {"live", "mcast"}, pc' \in {"live", "mcast"},
         last \in Nat, last' \in Nat, last <= last', Book(last') = Book(last)
  PROVE  /\ DbTypeOK' /\ DbInv' /\ LinkTypeOK'
         /\ LinkInv' /\ AskInv' /\ FlowInv' /\ QueueInv'
<1>1. DbTypeOK' /\ DbInv' /\ \A r : Fits(r)' = Fits(r)
  BY DbUntouched, Zenon
<1>2. LinkTypeOK' /\ LinkInv' /\ AskInv'
  BY SameStream, Zenon DEF TypeOK, LinkTypeOK, Inv, LinkInv, AskInv
<1>3. QueueInv'
  BY <1>1, SameStream, Zenon DEF Inv, QueueInv
<1>4. FlowInv'
  <2>1. ASSUME NEW n \in Nat, NEW e, UpToDate(n, e)
        PROVE  UpToDate(n, e)'
    BY <2>1, SameStream DEF UpToDate
  <2>2. dbLast \in Nat /\ dbLast' = dbLast /\ dbEpoch' = dbEpoch
    BY DEF TypeOK, DbTypeOK, metaVars
  <2>3. q # <<>> => q[Len(q)].n \in Nat
    <3>1. q # <<>> => q[Len(q)] \in Records(RecordOps)
      BY DEF TypeOK, LinkTypeOK
    <3> QED BY <3>1 DEF Records
  <2> QED BY <2>1, <2>2, <2>3, Zenon DEF Inv, FlowInv
<1> QED BY <1>1, <1>2, <1>3, <1>4, Zenon

(* Login, undecodable messages, the clock and multicast.                   *)
LEMMA QuietSteps ==
  ASSUME TypeOK, Inv, FhLogin \/ FhDecodeError \/ FhClock \/ FhMcast
  PROVE  TypeOK' /\ Inv'
<1>1. /\ UNCHANGED <<dbUp, metaVars, inSync, stream, link, conn, q, reply, epoch,
                     clock, fhCrashes, dbCrashes, stalls>>
      /\ pc \in {"live", "mcast"} /\ pc' = "live"
  BY Zenon DEF FhLogin, FhDecodeError, FhClock, FhMcast, liveFrame
<1>2. /\ Len(stream) \in Nat /\ last \in 0..Len(stream) /\ last < next
      /\ next \in 1..(Len(stream) + 1) /\ Book(last) = Book(next - 1)
      /\ market \cap Of({"X"}) = Book(next - 1) /\ epoch # 0
  BY <1>1 DEF TypeOK, FhTypeOK, EnvTypeOK, Inv, FhInv, Running
<1>3. CASE FhLogin \/ FhMcast
  <2>1. UNCHANGED <<market, last, next>>
    BY <1>3, Zenon DEF FhLogin, FhMcast
  <2>2. FhTypeOK' /\ FhInv'
    <3>1. FhMcast => next - 1 \in Positions
      BY <1>2 DEF Positions, FhMcast, Inv, FhInv
    <3>2. mcast' \in SUBSET Positions
      BY <1>3, <3>1, Zenon DEF FhLogin, FhMcast, TypeOK, FhTypeOK
    <3>3. sess' \in BOOLEAN
      BY <1>3, Zenon DEF FhLogin, FhMcast, TypeOK, FhTypeOK
    <3> QED BY <1>1, <1>2, <2>1, <3>2, <3>3, SameStream, Zenon
            DEF TypeOK, FhTypeOK, FhInv, Running
  <2>3. EnvTypeOK'
    BY <1>1, Zenon DEF TypeOK, EnvTypeOK
  <2> QED BY <1>1, <1>2, <2>1, <2>2, <2>3, LinkUntouched DEF TypeOK, Inv
<1>4. CASE FhDecodeError \/ FhClock
  <2>1. next \in Positions /\ Book(next) = Book(next - 1)
    BY <1>4, OtherKinds, Zenon DEF FhDecodeError, FhClock
  <2>2. /\ next' = next + 1 /\ UNCHANGED <<sess, mcast>>
        /\ last' \in {last, next}
        /\ market' \in {market, market \cup {next}}
        /\ FhClock => next \notin Of({"X"})
    BY <1>4, Zenon DEF FhDecodeError, FhClock, Of
  <2>3. /\ next' \in 1..(Len(stream) + 1) /\ last' \in 0..Len(stream)
        /\ last <= last' /\ last' < next' /\ next' - 1 = next
    BY <1>2, <2>1, <2>2 DEF Positions
  <2>4. Book(last') = Book(last) /\ market' \cap Of({"X"}) = Book(next)
    <3>1. market' \cap Of({"X"}) = market \cap Of({"X"})
      BY <1>4, <2>2, Zenon DEF FhDecodeError, FhClock
    <3> QED BY <1>2, <2>1, <2>2, <3>1, Zenon
  <2>5. FhTypeOK'
    BY <1>1, <2>1, <2>2, <2>3, SameStream, Zenon DEF TypeOK, FhTypeOK
  <2>6. FhInv'
    BY <1>1, <1>2, <2>1, <2>3, <2>4, SameStream, Zenon DEF FhInv, Running
  <2>7. EnvTypeOK'
    BY <1>1, Zenon DEF TypeOK, EnvTypeOK
  <2>8. last \in Nat /\ last' \in Nat
    BY <1>2, <2>3
  <2> QED BY <1>1, <2>3, <2>4, <2>5, <2>6, <2>7, <2>8, LinkUntouched, Zenon
          DEF TypeOK, Inv
<1> QED BY <1>3, <1>4, Zenon

(* on_message, DB write included: sent, refused, or cut by a timeout.      *)
LEMMA PublishStep ==
  ASSUME TypeOK, Inv, FhPublish, FhDbAssumption
  PROVE  TypeOK' /\ Inv'
<1> DEFINE u == Update(next)
<1>1. /\ UNCHANGED <<dbUp, metaVars, inSync, stream, epoch, sess, mcast, clock,
                     fhCrashes, dbCrashes>>
      /\ pc = "live" /\ pc' = "mcast" /\ market' = market \cup {next}
      /\ last' = next /\ next' = next + 1 /\ next \in Positions
  BY Zenon DEF FhPublish, liveFrame, Of, Positions
<1>2. /\ Len(stream) \in Nat /\ last \in 0..Len(stream) /\ last < next
      /\ next \in 1..Len(stream) /\ Book(last) = Book(next - 1)
      /\ market \cap Of({"X"}) = Book(next - 1) /\ epoch \in Nat /\ epoch # 0
      /\ sess \in BOOLEAN
  BY <1>1 DEF TypeOK, FhTypeOK, EnvTypeOK, Inv, FhInv, Running, Positions
<1>3. Book(next) = Book(last) \cup ({next} \cap Of({"X"}))
  BY <1>2, BookStep
<1>4. /\ next' \in 1..(Len(stream) + 1) /\ last' < next' /\ next' - 1 = last'
      /\ next' > 1 /\ last' \in 0..Len(stream)
  BY <1>1, <1>2
<1>5. FhTypeOK'
  BY <1>1, <1>2, <1>4, SameStream, Zenon DEF TypeOK, FhTypeOK
<1>6. FhInv'
  <2>1. market' \cap Of({"X"}) = Book(next)
    BY <1>1, <1>2, <1>3, Zenon
  <2> QED BY <1>1, <1>2, <1>4, <2>1, SameStream, Zenon DEF FhInv, Running
<1>7. DbTypeOK' /\ DbInv' /\ \A r : Fits(r)' = Fits(r)
  BY <1>1, DbUntouched, Zenon
<1>8. /\ u \in Records(RecordOps) /\ u.op = "UPDATE" /\ u.n = next /\ u.e = epoch
      /\ u.c = {next} \cap Of({"X"})
  <2>1. {next} \cap Of({"X"}) \in SUBSET Positions
    BY <1>1, Zenon
  <2>2. next \in 0..Len(stream) /\ "UPDATE" \in RecordOps
    BY <1>2 DEF RecordOps
  <2>3. u \in Records(RecordOps)
    BY <1>2, <2>1, <2>2, RecType, Zenon DEF Update
  <2> QED BY <2>3, Zenon DEF Update, Rec
<1> HIDE DEF u
<1>9. CASE link = "none"
  <2>1. UNCHANGED <<link, conn, q, reply, stalls>>
    BY <1>9, Zenon DEF FhPublish
  <2>2. LinkTypeOK' /\ EnvTypeOK'
    BY <1>1, <2>1, SameStream, Zenon DEF TypeOK, LinkTypeOK, EnvTypeOK
  <2>3. LinkInv' /\ AskInv' /\ FlowInv'
    BY <1>1, <1>9, <2>1, Zenon DEF Inv, LinkInv, AskInv, FlowInv, NoReply, Ctl, Rec
  <2>4. QueueInv'
    BY <1>1, <1>7, <2>1, SameStream, Zenon DEF Inv, QueueInv
  <2> QED BY <1>5, <1>6, <1>7, <2>2, <2>3, <2>4, Zenon DEF TypeOK, Inv
<1>10. CASE SendOk(<<u>>)
  <2>1. /\ link = "live" /\ conn = "live" /\ q' = q \o <<u>> /\ reply' = NoReply
        /\ UNCHANGED <<link, conn, stalls>>
    BY <1>10, Zenon DEF SendOk, Inv, LinkInv
  <2>2. /\ q = <<>> => ~inSync /\ UpToDate(dbLast, dbEpoch)
        /\ q # <<>> => /\ q[Len(q)].op \in {"SYNC_END", "UPDATE"}
                       /\ UpToDate(q[Len(q)].n, q[Len(q)].e)
    BY <1>1, <2>1, Zenon DEF Inv, FlowInv
  <2>3. ASSUME NEW n \in Nat, NEW e, UpToDate(n, e)
        PROVE  e = u.e /\ Successor(n, u)
    BY <1>2, <1>3, <1>8, <2>3 DEF UpToDate, Successor
  <2>4. q \in Seq(Records(RecordOps)) /\ WellFormed(q)
        /\ (q # <<>> => Fits(q[1]) /\ q[Len(q)] \in Records(RecordOps))
    BY DEF TypeOK, LinkTypeOK, Inv, QueueInv
  <2>5. q # <<>> => Follows(q[Len(q)], u)
    <3>1. q # <<>> => q[Len(q)].n \in Nat
      BY <2>4 DEF Records
    <3> QED BY <1>8, <2>2, <2>3, <3>1, Zenon DEF Follows
  <2>6. q = <<>> => Fits(u)
    <3>1. dbLast \in Nat
      BY DEF TypeOK, DbTypeOK
    <3> QED BY <1>8, <2>2, <2>3, <3>1, Zenon DEF Fits
  <2>7. /\ q' \in Seq(Records(RecordOps)) /\ WellFormed(q') /\ q' # <<>>
        /\ q'[Len(q')] = u
        /\ q'[1] = IF q = <<>> THEN u ELSE q[1]
    <3> DEFINE R == Records(RecordOps)
    <3>1. u.e # 0 /\ u.c = {u.n} \cap Of({"X"})
      BY <1>2, <1>8, Zenon
    <3>2. q \in Seq(R) /\ u \in R
      BY <1>8, <2>4, Zenon
    <3> HIDE DEF u, R
    <3>3. Sendable(R, q, u)
      BY <2>4, <2>5, <3>1, <3>2, Zenon DEF Sendable
    <3>4. EndsWith(R, q, u, Queued(q, u))
      BY <3>3, SendOne, Zenon
    <3>5. q' = Queued(q, u)
      BY <2>1, Zenon DEF Queued
    <3> QED BY <3>4, <3>5, Zenon DEF R, EndsWith
  <2>8. LinkTypeOK' /\ EnvTypeOK'
    <3>1. EnvTypeOK'
      BY <1>1, <2>1, Zenon DEF TypeOK, EnvTypeOK
    <3> QED BY <1>1, <2>1, <2>7, <3>1, SameStream, CtlType DEF TypeOK, LinkTypeOK
  <2>9. LinkInv' /\ AskInv'
    BY <1>1, <2>1, ZenonT(30) DEF Inv, LinkInv, AskInv, NoReply, Ctl, Rec
  <2>10. FlowInv'
    <3>1. u.op = "UPDATE" /\ u.n = last' /\ u.e = epoch' /\ last' \in Nat
      BY <1>1, <1>2, <1>8
    <3> HIDE DEF u
    <3>2. q'[Len(q')].n = last' /\ q'[Len(q')].e = epoch'
          /\ q'[Len(q')].op = "UPDATE"
      BY <2>7, <3>1, Zenon
    <3>3. UpToDate(q[Len(q)].n, q[Len(q)].e)'
      BY <3>1, <3>2 DEF UpToDate
    <3> QED BY <2>7, <3>2, <3>3, Zenon DEF FlowInv
  <2>11. QueueInv'
    BY <1>1, <1>7, <2>4, <2>6, <2>7, SameStream, Zenon DEF QueueInv
  <2> QED BY <1>5, <1>6, <1>7, <2>8, <2>9, <2>10, <2>11, Zenon DEF TypeOK, Inv
<1>11. CASE SendBroken
  <2>1. LinkTypeOK' /\ LinkInv' /\ AskInv' /\ FlowInv' /\ QueueInv'
    BY <1>1, <1>11, ClosedAsIs, Zenon DEF SendBroken
  <2>2. EnvTypeOK'
    BY <1>1, <1>11, Zenon DEF SendBroken, TypeOK, EnvTypeOK
  <2> QED BY <1>5, <1>6, <1>7, <2>1, <2>2, Zenon DEF TypeOK, Inv
<1>12. CASE SendStalled(<<u>>)
  <2>1. CloseLink /\ q' = q \o SubSeq(<<u>>, 1, 0) /\ stalls' = stalls + 1
        /\ stalls < MaxStalls
    BY <1>12 DEF SendStalled
  <2>2. q' = q
    BY <2>1 DEF TypeOK, LinkTypeOK
  <2>3. LinkTypeOK' /\ LinkInv' /\ AskInv' /\ FlowInv' /\ QueueInv'
    BY <1>1, <2>1, <2>2, ClosedAsIs, Zenon
  <2>4. EnvTypeOK'
    BY <1>1, <2>1 DEF TypeOK, EnvTypeOK, FhDbAssumption
  <2> QED BY <1>5, <1>6, <1>7, <2>3, <2>4, Zenon DEF TypeOK, Inv
<1> QED BY <1>9, <1>10, <1>11, <1>12, Zenon DEF FhPublish, Send, u

(* The 1 s timer dials, and on a mismatch pushes the market.               *)
LEMMA RedialSteps ==
  ASSUME TypeOK, Inv, FhTimer \/ FhRedial \/ FhRedialLost, FhDbAssumption
  PROVE  TypeOK' /\ Inv'
<1>1. /\ UNCHANGED <<dbUp, metaVars, inSync, stream, epoch, sess, mcast, clock,
                     fhCrashes, dbCrashes, market, last, next>>
      /\ pc \in {"live", "redial"} /\ pc' \in {"live", "redial"}
      /\ epoch # 0
  BY Zenon DEF FhTimer, FhRedial, FhRedialLost, liveFrame, Inv, FhInv
<1>2. FhTypeOK' /\ FhInv'
  BY <1>1, SameStream, Zenon DEF TypeOK, FhTypeOK, Inv, FhInv, Running
<1>3. DbTypeOK' /\ DbInv' /\ \A r : Fits(r)' = Fits(r)
  BY <1>1, DbUntouched, Zenon
<1>4. CASE FhTimer
  <2>1. LinkTypeOK' /\ LinkInv' /\ AskInv' /\ FlowInv' /\ QueueInv'
    BY <1>1, <1>4, Dialed, Zenon DEF FhTimer, Dial
  <2>2. EnvTypeOK'
    BY <1>1, <1>4, Zenon DEF FhTimer, Dial, TypeOK, EnvTypeOK
  <2> QED BY <1>2, <1>3, <2>1, <2>2, Zenon DEF TypeOK, Inv
<1>5. CASE FhRedialLost
  <2>1. LinkTypeOK' /\ LinkInv' /\ AskInv' /\ FlowInv' /\ QueueInv'
    BY <1>1, <1>5, ClosedAsIs, Zenon DEF FhRedialLost
  <2>2. EnvTypeOK'
    BY <1>1, <1>5, LostType, Zenon DEF FhRedialLost, TypeOK, EnvTypeOK
  <2> QED BY <1>2, <1>3, <2>1, <2>2, Zenon DEF TypeOK, Inv
<1>6. CASE FhRedial
  <2>1. /\ q = <<>> /\ ~inSync /\ link \in {"live", "dead"}
        /\ link = "live" => reply.e = dbEpoch /\ reply.n = dbLast
        /\ pc = "redial" /\ pc' = "live" /\ reply.op = "HELLO"
    BY <1>6, Answered, Zenon DEF FhRedial
  <2>2. CASE reply.e = epoch /\ reply.n = last
    <3>1. reply' = NoReply /\ UNCHANGED <<link, conn, q, stalls>>
      BY <1>6, <2>2, Zenon DEF FhRedial
    <3>2. LinkTypeOK' /\ EnvTypeOK'
      BY <1>1, <3>1, SameStream, CtlType DEF TypeOK, LinkTypeOK, EnvTypeOK
    <3>3. LinkInv' /\ AskInv'
      BY <1>1, <2>1, <3>1, ZenonT(30) DEF Inv, LinkInv, AskInv, NoReply, Ctl, Rec
    <3>4. FlowInv'
      BY <1>1, <2>1, <2>2, <3>1 DEF FlowInv, UpToDate, metaVars, TypeOK, DbTypeOK
    <3>5. QueueInv'
      BY <1>1, <2>1, <3>1, SameStream, ShortQueues, Zenon DEF QueueInv
    <3> QED BY <1>2, <1>3, <3>2, <3>3, <3>4, <3>5, Zenon DEF TypeOK, Inv
  <2>3. CASE ~(reply.e = epoch /\ reply.n = last)
    <3>1. Send(SyncDump(market, last, epoch, sess))
      BY <1>6, <2>3, Zenon DEF FhRedial
    <3>2. market \in SUBSET Positions /\ last \in 0..Len(stream)
          /\ epoch \in Nat \ {0} /\ sess \in BOOLEAN
          /\ market \cap Of({"X"}) = Book(last)
      BY <1>1, Zenon DEF TypeOK, FhTypeOK, Inv, FhInv, Running
    <3>3. last' = last /\ epoch' = epoch
      BY <1>1, Zenon
    <3>4. LinkTypeOK' /\ LinkInv' /\ AskInv' /\ FlowInv' /\ QueueInv'
          /\ stalls' \in 0..MaxStalls
      BY <1>1, <2>1, <3>1, <3>2, <3>3, SyncPushed, Zenon
    <3>5. EnvTypeOK'
      BY <1>1, <3>4, Zenon DEF TypeOK, EnvTypeOK
    <3> QED BY <1>2, <1>3, <3>4, <3>5, Zenon DEF TypeOK, Inv
  <2> QED BY <2>2, <2>3, Zenon
<1> QED BY <1>4, <1>5, <1>6, Zenon

(* The process exits at the end of the session, or dies.                   *)
LEMMA ExitSteps ==
  ASSUME TypeOK, Inv, FhEnd \/ FhCrash, FhDbAssumption
  PROVE  TypeOK' /\ Inv'
<1>1. /\ UNCHANGED <<dbUp, metaVars, inSync, stream, epoch, q, stalls, mcast,
                     clock, dbCrashes>>
      /\ CloseLink
  BY Zenon DEF FhEnd, FhCrash, liveFrame
<1>2. LinkTypeOK' /\ LinkInv' /\ AskInv' /\ FlowInv' /\ QueueInv'
  BY <1>1, ClosedAsIs, Zenon
<1>3. DbTypeOK' /\ DbInv'
  BY <1>1, DbUntouched, Zenon
<1>4. EnvTypeOK'
  BY <1>1 DEF FhEnd, FhCrash, liveFrame, TypeOK, EnvTypeOK, FhDbAssumption
<1>5. FhTypeOK' /\ FhInv'
  <2>1. CASE FhEnd
    BY <1>1, <2>1, SameStream, Zenon
    DEF FhEnd, TypeOK, FhTypeOK, Inv, FhInv, Running
  <2>2. CASE FhCrash
    <3>1. pc' = "down" /\ market' = {} /\ last' = 0 /\ next' = 1 /\ sess' = FALSE
      BY <2>2, Zenon DEF FhCrash
    <3>2. Len(stream) \in Nat
      BY DEF TypeOK, EnvTypeOK
    <3>3. FhTypeOK'
      <4>1. 0 \in 0..Len(stream) /\ 1 \in 1..(Len(stream) + 1)
        BY <3>2
      <4>2. mcast' \in SUBSET Positions' /\ epoch' \in Nat
        BY <1>1, SameStream, Zenon DEF TypeOK, FhTypeOK
      <4> QED BY <1>1, <3>1, <4>1, <4>2, Zenon DEF FhTypeOK
    <3> QED BY <3>1, <3>3, Zenon DEF FhInv, Running
  <2> QED BY <2>1, <2>2, Zenon
<1> QED BY <1>2, <1>3, <1>4, <1>5, Zenon DEF TypeOK, Inv
=============================================================================
