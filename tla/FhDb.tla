-------------------------------- MODULE FhDb --------------------------------
(***************************************************************************)
(* jnxfh and jnxdb: the feed handler applies a numbered exchange stream to *)
(* its in-memory market and mirrors it into an equally volatile database   *)
(* over a unix-domain socket (cpp/fh/jnxfh_main.cpp, fh/publish.cpp,       *)
(* fh/recover.cpp, db/ingest.cpp, db/tables.cpp, db/jnxdb_main.cpp).       *)
(* Either process may die at any point and come back empty; the HELLO,     *)
(* GET_STATE and RESET+SYNC exchanges decide who rebuilds whom.            *)
(*                                                                         *)
(* Content is the set of stream positions it incorporates.  What the model *)
(* tells apart is what the two processes exchange: book and state data     *)
(* ("X"), tick-table rows ("L"), the clock ("T") and undecodable messages  *)
(* ("bad").  How a message changes the book is BookMirror's subject, how   *)
(* the stream survives TCP reconnects is SoupClient's.  A ticker that was  *)
(* only ever named by orders, all closed since, is no "X" here: a dump     *)
(* leaves its row out, and the DB has it again with its next update only.  *)
(*                                                                         *)
(* jnxfh talks to jnxdb over one socket at a time and blocks in            *)
(* connect_hello and get_state, so there is one queue q towards the DB and *)
(* one reply slot.  A connection the FH closed before the DB accepted it   *)
(* holds a HELLO at most; accepting it only drops the older connection,    *)
(* which DbHangup does too, so such connections are left out.              *)
(***************************************************************************)
EXTENDS Integers, Sequences, FiniteSets

CONSTANTS
  Streams,         \* the exchange streams considered: sequences of kinds
  Bootstraps,      \* --bootstrap values an operator uses: "replay", "glimpse"
  EndOfSession,    \* whether the exchange closes the session with Z
  MaxFhCrashes, MaxDbCrashes,
  MaxStalls        \* times a 5 s socket timeout expires

Kinds == {"T", "L", "X", "bad"}

ASSUME FhDbAssumption ==
  /\ Streams \subseteq Seq(Kinds)
  /\ Bootstraps \subseteq {"replay", "glimpse"} /\ Bootstraps # {}
  /\ EndOfSession \in BOOLEAN
  /\ MaxFhCrashes \in Nat /\ MaxDbCrashes \in Nat /\ MaxStalls \in Nat

VARIABLES
  stream,    \* the exchange's messages; position = exchange sequence number
  \* jnxfh
  pc,        \* down | hello | dump | rehello | live | mcast | redial | ended
  market,    \* positions applied to the market
  last,      \* last_exch_seq
  next,      \* next sequence number the Soup session delivers
  epoch,     \* epoch
  sess,      \* a session id is known
  link,      \* DbLink: none | pending (not accepted yet) | live | dead
  mcast,     \* positions multicast so far
  \* jnxdb
  dbUp,
  rows,      \* positions whose effect is in the tables
  dbLast, dbEpoch, dbSess,   \* meta_
  applied,   \* meta_.updates_applied > 0
  inSync,    \* in_sync_
  conn,      \* the accepted connection: none | live | stale (FH closed it)
  q,         \* records sent on that connection and not yet handled
  reply,     \* the DB's answer on the FH's connection
  \* environment
  clock,     \* now_ns(), one tick per jnxfh start
  fhCrashes, dbCrashes, stalls

fhVars == <<pc, market, last, next, epoch, sess, link, mcast>>
metaVars == <<rows, dbLast, dbEpoch, dbSess, applied>>
dbVars == <<dbUp, rows, dbLast, dbEpoch, dbSess, applied, inSync, conn, q, reply>>
envVars == <<stream, clock, fhCrashes, dbCrashes, stalls>>
vars == <<fhVars, dbVars, envVars>>

-----------------------------------------------------------------------------
Of(kinds) == {s \in 1..Len(stream) : stream[s] \in kinds}
UpTo(kinds, n) == {s \in Of(kinds) : s <= n}

(* Kinds that produce an UPDATE: 'T' and undecodable messages do not. *)
Published == {"L", "X"}

Rec(op, n, e, known, c) ==
  [op |-> op, n |-> n, e |-> e, sess |-> known, c |-> c]
Ctl(op) == Rec(op, 0, 0, FALSE, {})
NoReply == Ctl("NONE")

(* make_update for the message at n: an 'L' yields a ticker-less row, the   *)
(* tick-table entry itself is not in the record.                            *)
Update(n) == Rec("UPDATE", n, epoch, sess, {n} \cap Of({"X"}))

(* RESET and build_sync_dump: TICK, ORDER and '#' rows of the whole market. *)
(* The code skips the '#' row of a ticker whose group neither the refdata   *)
(* nor a live order tells; the "X" messages stand for all other tickers.    *)
SyncDump(m, n, e, known) ==
  << Ctl("RESET"), Ctl("SYNC_BEGIN"),
     Rec("ROWS", 0, 0, FALSE, m \cap Of({"L", "X"})),
     Rec("SYNC_END", n, e, known, {}) >>

Init ==
  /\ stream \in Streams
  /\ pc = "down" /\ market = {} /\ last = 0 /\ next = 1 /\ epoch = 0
  /\ sess = FALSE /\ link = "none" /\ mcast = {}
  /\ dbUp = TRUE /\ rows = {} /\ dbLast = 0 /\ dbEpoch = 0 /\ dbSess = FALSE
  /\ applied = FALSE /\ inSync = FALSE /\ conn = "none" /\ q = <<>>
  /\ reply = NoReply
  /\ clock = 1 /\ fhCrashes = 0 /\ dbCrashes = 0 /\ stalls = 0

-----------------------------------------------------------------------------
(* DbLink *)

(* close(): what was sent stays readable, but the DB sees the hangup. *)
CloseLink ==
  /\ link' = "none"
  /\ conn' = IF link = "live" THEN "stale" ELSE conn
  /\ reply' = NoReply

(* connect_hello: any old link is closed, connect() succeeds as soon as the *)
(* listener exists, HELLO waits in the socket until the DB accepts.         *)
Dial ==
  /\ dbUp
  /\ link' = "pending"
  /\ conn' = IF link = "live" THEN "stale" ELSE conn
  /\ reply' = NoReply
  /\ UNCHANGED <<q, stalls>>

(* send() succeeds, *)
SendOk(recs) ==
  /\ link = "live"
  /\ q' = q \o recs
  /\ reply' = NoReply
  /\ UNCHANGED <<link, conn, stalls>>

(* fails with EPIPE because the DB end is gone, *)
SendBroken == link = "dead" /\ CloseLink /\ UNCHANGED <<q, stalls>>

(* or hits the 5 s send timeout after some of the records went through. *)
SendStalled(recs) ==
  /\ link = "live" /\ stalls < MaxStalls
  /\ CloseLink
  /\ \E k \in 0..(Len(recs) - 1) : q' = q \o SubSeq(recs, 1, k)
  /\ stalls' = stalls + 1

Send(recs) == SendOk(recs) \/ SendBroken \/ SendStalled(recs)

(* Faulty variant: an EOF is not noticed while waiting for an answer. *)
AnswerLostIgnoresEof ==
  /\ reply = NoReply
  /\ link \in {"pending", "live"} /\ stalls < MaxStalls
  /\ stalls' = stalls + 1

(* connect_hello or get_state gives up: the DB end is gone, or no complete  *)
(* answer came within the 5 s receive timeout.                              *)
AnswerLost ==
  /\ reply = NoReply
  /\ \/ link = "dead" /\ UNCHANGED stalls
     \/ link \in {"pending", "live"} /\ stalls < MaxStalls
        /\ stalls' = stalls + 1

-----------------------------------------------------------------------------
(* jnxfh: startup *)

(* Cold bootstrap: the login position and the market it starts from. *)
ColdStart ==
  \/ /\ "replay" \in Bootstraps
     /\ last' = 0 /\ next' = 1
     /\ UNCHANGED <<market, sess>>
  \/ /\ "glimpse" \in Bootstraps
     /\ \E cut \in 0..Len(stream) :
           /\ market' = market \cup UpTo({"T", "L", "X"}, cut)
           /\ last' = cut /\ next' = cut + 1 /\ sess' = TRUE

(* Without a database: the 1 s timer will look for it later. *)
ColdNoDb == ColdStart /\ pc' = "live" /\ CloseLink /\ UNCHANGED q

(* With one: push the bootstrapped market. *)
ColdWithDb ==
  /\ ColdStart
  /\ pc' = "live"
  /\ Send(SyncDump(market', last', epoch', sess'))

startupFrame == <<mcast, dbUp, metaVars, inSync, stream, fhCrashes, dbCrashes>>

FhStart ==
  /\ pc = "down"
  /\ epoch' = clock /\ clock' = clock + 1
  /\ \/ Dial /\ pc' = "hello" /\ UNCHANGED <<market, last, next, sess>>
     \/ ~dbUp /\ ColdNoDb /\ UNCHANGED stalls
  /\ UNCHANGED startupFrame

FhHelloLost ==
  /\ pc = "hello" /\ AnswerLost
  /\ ColdNoDb
  /\ UNCHANGED <<epoch, clock, startupFrame>>

(* The DB reports state: ask for it.  On a link that just died the request  *)
(* fails, which FhRecoverFail picks up.                                     *)
FhGetState ==
  /\ pc = "hello" /\ reply.op = "HELLO"
  /\ reply.e # 0 \/ reply.n # 0
  /\ pc' = "dump"
  /\ q' = IF link = "live" THEN Append(q, Ctl("GET_STATE")) ELSE q
  /\ reply' = NoReply
  /\ UNCHANGED <<market, last, next, sess, epoch, link, conn, stalls, clock,
                 startupFrame>>

FhHelloEmpty ==
  /\ pc = "hello" /\ reply.op = "HELLO"
  /\ reply.e = 0 /\ reply.n = 0
  /\ UNCHANGED epoch
  /\ ColdWithDb
  /\ UNCHANGED <<clock, startupFrame>>

(* Faulty variant: the login asks for the message the DB already has. *)
FhRecoverOffByOne ==
  /\ pc = "dump" /\ reply.op = "DUMP"
  /\ ~(reply.n = 0 /\ ~reply.sess)
  /\ pc' = "live"
  /\ market' = reply.c /\ last' = reply.n /\ next' = reply.n
  /\ epoch' = reply.e /\ sess' = reply.sess
  /\ reply' = NoReply
  /\ UNCHANGED <<link, conn, q, stalls, clock, startupFrame>>

(* recover_from_db: the dump becomes the market, and the Soup session       *)
(* resumes right after the DB's position.                                   *)
FhRecover ==
  /\ pc = "dump" /\ reply.op = "DUMP"
  /\ ~(reply.n = 0 /\ ~reply.sess)
  /\ pc' = "live"
  /\ market' = reply.c /\ last' = reply.n /\ next' = reply.n + 1
  /\ epoch' = reply.e /\ sess' = reply.sess
  /\ reply' = NoReply
  /\ UNCHANGED <<link, conn, q, stalls, clock, startupFrame>>

(* A dump at position 0 without a session (the previous FH died before its  *)
(* first message): main() falls into the cold branch, keeping the epoch.    *)
FhRecoverBlank ==
  /\ pc = "dump" /\ reply.op = "DUMP"
  /\ reply.n = 0 /\ ~reply.sess
  /\ epoch' = reply.e
  /\ ColdWithDb
  /\ UNCHANGED <<clock, startupFrame>>

(* The dump never completes: fresh market, one more connect_hello. *)
FhRecoverFail ==
  /\ pc = "dump" /\ AnswerLost
  /\ IF dbUp
     THEN /\ pc' = "rehello" /\ link' = "pending" /\ reply' = NoReply
          /\ conn' = IF link = "live" THEN "stale" ELSE conn
          /\ UNCHANGED <<market, last, next, sess, q>>
     ELSE ColdNoDb
  /\ UNCHANGED <<epoch, clock, startupFrame>>

FhRehello ==
  /\ pc = "rehello" /\ reply.op = "HELLO"
  /\ UNCHANGED epoch
  /\ ColdWithDb
  /\ UNCHANGED <<clock, startupFrame>>

FhRehelloLost ==
  /\ pc = "rehello" /\ AnswerLost
  /\ ColdNoDb
  /\ UNCHANGED <<epoch, clock, startupFrame>>

-----------------------------------------------------------------------------
(* jnxfh: live loop *)

liveFrame == <<epoch, dbUp, metaVars, inSync, stream, clock, fhCrashes,
               dbCrashes>>

(* on_login_accepted *)
FhLogin ==
  /\ pc = "live" /\ ~sess
  /\ sess' = TRUE
  /\ UNCHANGED <<pc, market, last, next, link, conn, q, reply, stalls, mcast,
                 liveFrame>>

(* on_message: an undecodable message is counted and dropped, *)
FhDecodeError ==
  /\ pc = "live" /\ sess /\ next \in Of({"bad"})
  /\ next' = next + 1
  /\ UNCHANGED <<pc, market, last, sess, link, conn, q, reply, stalls, mcast,
                 liveFrame>>

(* T only moves the clock, *)
FhClock ==
  /\ pc = "live" /\ sess /\ next \in Of({"T"})
  /\ market' = market \cup {next} /\ last' = next /\ next' = next + 1
  /\ UNCHANGED <<pc, sess, link, conn, q, reply, stalls, mcast, liveFrame>>

(* anything else is applied and written to the DB, then multicast. *)
FhPublish ==
  /\ pc = "live" /\ sess /\ next \in Of(Published)
  /\ market' = market \cup {next} /\ last' = next /\ next' = next + 1
  /\ pc' = "mcast"
  /\ IF link = "none" THEN UNCHANGED <<link, conn, q, reply, stalls>>
                      ELSE Send(<<Update(next)>>)
  /\ UNCHANGED <<sess, mcast, liveFrame>>

(* Faulty variant: only what the DB was sent is multicast. *)
FhMcastIfLinked ==
  /\ pc = "mcast"
  /\ pc' = "live"
  /\ mcast' = IF link = "none" THEN mcast ELSE mcast \cup {next - 1}
  /\ UNCHANGED <<market, last, next, sess, link, conn, q, reply, stalls,
                 liveFrame>>

FhMcast ==
  /\ pc = "mcast"
  /\ pc' = "live"
  /\ mcast' = mcast \cup {next - 1}
  /\ UNCHANGED <<market, last, next, sess, link, conn, q, reply, stalls,
                 liveFrame>>

(* The 1 s timer: try_db_connect while there is no link. *)
FhTimer ==
  /\ pc = "live" /\ link = "none"
  /\ Dial
  /\ pc' = "redial"
  /\ UNCHANGED <<market, last, next, sess, mcast, liveFrame>>

(* Faulty variant: the epoch alone decides whether the DB is current. *)
FhRedialEpochOnly ==
  /\ pc = "redial" /\ reply.op = "HELLO"
  /\ pc' = "live"
  /\ IF reply.e = epoch
     THEN reply' = NoReply /\ UNCHANGED <<link, conn, q, stalls>>
     ELSE Send(SyncDump(market, last, epoch, sess))
  /\ UNCHANGED <<market, last, next, sess, mcast, liveFrame>>

FhRedial ==
  /\ pc = "redial" /\ reply.op = "HELLO"
  /\ pc' = "live"
  /\ IF reply.e = epoch /\ reply.n = last
     THEN reply' = NoReply /\ UNCHANGED <<link, conn, q, stalls>>
     ELSE Send(SyncDump(market, last, epoch, sess))
  /\ UNCHANGED <<market, last, next, sess, mcast, liveFrame>>

FhRedialLost ==
  /\ pc = "redial" /\ AnswerLost
  /\ pc' = "live" /\ CloseLink
  /\ UNCHANGED <<market, last, next, sess, q, mcast, liveFrame>>

(* on_end_of_session: the process exits once the stream is complete. *)
FhEnd ==
  /\ EndOfSession
  /\ pc = "live" /\ sess /\ next > Len(stream)
  /\ pc' = "ended" /\ CloseLink
  /\ UNCHANGED <<market, last, next, sess, q, stalls, mcast, liveFrame>>

(* kill -9: the market is gone, the kernel closes the socket. *)
FhCrash ==
  /\ pc \notin {"down", "ended"} /\ fhCrashes < MaxFhCrashes
  /\ fhCrashes' = fhCrashes + 1
  /\ pc' = "down" /\ CloseLink
  /\ market' = {} /\ last' = 0 /\ next' = 1 /\ sess' = FALSE
  /\ UNCHANGED <<epoch, q, stalls, mcast, dbUp, metaVars, inSync, stream,
                 clock, dbCrashes>>

-----------------------------------------------------------------------------
(* jnxdb *)

dbFrame == <<pc, market, last, next, epoch, sess, mcast, envVars>>

(* Tables::reset *)
Wipe ==
  /\ rows' = {} /\ dbLast' = 0 /\ dbEpoch' = 0 /\ dbSess' = FALSE
  /\ applied' = FALSE

(* drop_connection: "Partial sync must never survive". *)
DropConnection ==
  /\ inSync' = FALSE
  /\ IF inSync THEN Wipe ELSE UNCHANGED metaVars

(* on_listen_ready: the new connection replaces the old one. *)
DbAccept ==
  /\ dbUp /\ link = "pending"
  /\ DropConnection
  /\ link' = "live" /\ conn' = "live" /\ q' = <<Ctl("HELLO")>>
  /\ UNCHANGED <<dbUp, reply, dbFrame>>

(* POLLHUP or EOF: whatever was not read by now is lost. *)
DbHangup ==
  /\ conn = "stale"
  /\ DropConnection
  /\ conn' = "none" /\ q' = <<>>
  /\ UNCHANGED <<dbUp, link, reply, dbFrame>>

(* handle_record *)
Handle(op) == q # <<>> /\ Head(q).op = op /\ q' = Tail(q)

DbHello ==
  /\ conn = "live" /\ Handle("HELLO")
  /\ reply' = Rec("HELLO", dbLast, dbEpoch, FALSE, {})
  /\ UNCHANGED <<dbUp, metaVars, inSync, conn, link, dbFrame>>

(* dump_state *)
DbGetState ==
  /\ conn = "live" /\ Handle("GET_STATE")
  /\ reply' = Rec("DUMP", dbLast, dbEpoch, dbSess, rows)
  /\ UNCHANGED <<dbUp, metaVars, inSync, conn, link, dbFrame>>

DbReset ==
  /\ Handle("RESET")
  /\ Wipe
  /\ UNCHANGED <<dbUp, inSync, conn, link, reply, dbFrame>>

DbSyncBegin ==
  /\ Handle("SYNC_BEGIN")
  /\ inSync' = TRUE
  /\ UNCHANGED <<dbUp, metaVars, conn, link, reply, dbFrame>>

(* TICK, ORDER and '#' UPDATE rows of a sync. *)
DbSyncRows ==
  /\ Handle("ROWS")
  /\ rows' = rows \cup Head(q).c
  /\ applied' = (applied \/ Head(q).c \cap Of({"X"}) # {})
  /\ UNCHANGED <<dbUp, dbLast, dbEpoch, dbSess, inSync, conn, link, reply,
                 dbFrame>>

(* adopt_meta *)
DbSyncEnd ==
  /\ Handle("SYNC_END")
  /\ inSync' = FALSE
  /\ IF inSync
     THEN /\ dbLast' = Head(q).n /\ dbEpoch' = Head(q).e
          /\ dbSess' = Head(q).sess
     ELSE UNCHANGED <<dbLast, dbEpoch, dbSess>>
  /\ UNCHANGED <<dbUp, rows, applied, conn, link, reply, dbFrame>>

(* apply_update: the dup guard, *)
IsDuplicate(r) == r.e = dbEpoch /\ r.n <= dbLast /\ applied

(* and the envelope's meta, unless the record is part of a sync. *)
DbUpdate ==
  /\ Handle("UPDATE")
  /\ IF ~inSync /\ IsDuplicate(Head(q))
     THEN UNCHANGED metaVars
     ELSE /\ rows' = rows \cup Head(q).c /\ applied' = TRUE
          /\ IF inSync
             THEN UNCHANGED <<dbLast, dbEpoch, dbSess>>
             ELSE /\ dbLast' = Head(q).n /\ dbEpoch' = Head(q).e
                  /\ dbSess' = Head(q).sess
  /\ UNCHANGED <<dbUp, inSync, conn, link, reply, dbFrame>>

(* Process death; an answer already in the FH's socket may still be read. *)
DbCrash ==
  /\ dbUp /\ dbCrashes < MaxDbCrashes
  /\ dbCrashes' = dbCrashes + 1
  /\ dbUp' = FALSE /\ Wipe /\ inSync' = FALSE
  /\ conn' = "none" /\ q' = <<>>
  /\ link' = IF link \in {"pending", "live"} THEN "dead" ELSE link
  /\ reply' \in {reply, NoReply}
  /\ UNCHANGED <<pc, market, last, next, epoch, sess, mcast, stream, clock,
                 fhCrashes, stalls>>

DbStart ==
  /\ ~dbUp
  /\ dbUp' = TRUE
  /\ UNCHANGED <<metaVars, inSync, conn, q, reply, link, dbFrame>>

-----------------------------------------------------------------------------
FhStep ==
  \/ FhStart \/ FhHelloLost \/ FhGetState \/ FhHelloEmpty \/ FhRecover
  \/ FhRecoverBlank \/ FhRecoverFail \/ FhRehello \/ FhRehelloLost
  \/ FhLogin \/ FhDecodeError \/ FhClock \/ FhPublish \/ FhMcast
  \/ FhTimer \/ FhRedial \/ FhRedialLost \/ FhEnd
DbStep ==
  \/ DbAccept \/ DbHangup \/ DbHello \/ DbGetState \/ DbReset
  \/ DbSyncBegin \/ DbSyncRows \/ DbSyncEnd \/ DbUpdate \/ DbStart

Next == FhStep \/ DbStep \/ FhCrash \/ DbCrash
Spec == Init /\ [][Next]_vars

(* Someone restarts a dead process, both event loops keep running, and the  *)
(* exchange keeps delivering; crashes and timeouts stay optional.           *)
Fairness == WF_vars(FhStep) /\ WF_vars(DbStep)
FairSpec == Spec /\ Fairness

-----------------------------------------------------------------------------
(* Properties *)

RecordOps == {"HELLO", "GET_STATE", "RESET", "SYNC_BEGIN", "ROWS", "SYNC_END",
              "UPDATE"}
Positions == 1..Len(stream)
Records(ops) ==
  [op : ops, n : 0..Len(stream), e : Nat, sess : BOOLEAN, c : SUBSET Positions]

FhTypeOK ==
  /\ pc \in {"down", "hello", "dump", "rehello", "live", "mcast", "redial",
             "ended"}
  /\ market \in SUBSET Positions /\ mcast \in SUBSET Positions
  /\ last \in 0..Len(stream) /\ next \in 1..(Len(stream) + 1)
  /\ epoch \in Nat /\ sess \in BOOLEAN

DbTypeOK ==
  /\ rows \in SUBSET Positions /\ dbLast \in 0..Len(stream)
  /\ dbEpoch \in Nat /\ dbSess \in BOOLEAN /\ applied \in BOOLEAN
  /\ inSync \in BOOLEAN /\ dbUp \in BOOLEAN

LinkTypeOK ==
  /\ link \in {"none", "pending", "live", "dead"}
  /\ conn \in {"none", "live", "stale"}
  /\ q \in Seq(Records(RecordOps))
  /\ reply \in Records({"NONE", "HELLO", "DUMP"})

EnvTypeOK ==
  /\ stream \in Seq(Kinds)
  /\ clock \in Nat \ {0}
  /\ fhCrashes \in 0..MaxFhCrashes /\ dbCrashes \in 0..MaxDbCrashes
  /\ stalls \in 0..MaxStalls

(* Every component has its type; positions stay within the stream.          *)
TypeOK == FhTypeOK /\ DbTypeOK /\ LinkTypeOK /\ EnvTypeOK

(* Positions of the book and state messages up to n. *)
Book(n) == UpTo({"X"}, n)

Running == pc \in {"live", "mcast", "redial", "ended"}

(* The market a running feed handler serves holds exactly the book and      *)
(* state messages before the next one it will receive, however often either *)
(* process died: recovery neither skips nor re-applies a message            *)
(* (login_seq = meta.last_exch_seq + 1 in main()).                          *)
MarketExact == Running => market \cap Of({"X"}) = Book(next - 1)

(* Outside a sync bracket a DB that names an epoch holds exactly the book   *)
(* and state messages up to the position it reports, so both a HELLO        *)
(* comparison and a recovery can trust that number; one without an epoch is *)
(* empty, a lost partial sync leaves nothing behind (drop_connection).      *)
(* Rows that a dump cannot key, see SyncDump, are not among these messages. *)
MirrorPrefix ==
  ~inSync => IF dbEpoch # 0 THEN rows \cap Of({"X"}) = Book(dbLast)
             ELSE rows = {} /\ dbLast = 0

(* What readers may trust: the tables, while meta names an epoch. *)
View == IF dbEpoch # 0 THEN rows \cap Of({"X"}) ELSE {}
M == INSTANCE Mirror WITH view <- View

(* jnxdb implements the mirror it promises: its tables follow the stream    *)
(* message by message, are reloaded only from empty, or are emptied         *)
(* (apply_update, adopt_meta, reset).                                       *)
MirrorRefined == M!MirrorSpec

(* The dup guard never fires: "impossible in normal operation".             *)
NoDuplicateUpdates ==
  q # <<>> /\ Head(q).op = "UPDATE" /\ ~inSync => ~IsDuplicate(Head(q))

(* Once the DB has handled all that a connected feed handler sent, the two  *)
(* agree on epoch and content: try_db_connect's comparison of positions is  *)
(* enough to skip a sync.                                                   *)
DrainedMeansSynced ==
  pc \in {"live", "mcast"} /\ link = "live" /\ q = <<>> =>
    /\ dbEpoch = epoch
    /\ rows \cap Of({"X"}) = market \cap Of({"X"})

(* Multicast misses at most the message that was in flight at each feed     *)
(* handler crash (DB write first, multicast second), whatever the DB loses  *)
(* meanwhile, as long as a session without DB state is replayed from its    *)
(* start.                                                                   *)
MulticastGapBounded ==
  Running /\ "glimpse" \notin Bootstraps =>
    Cardinality(UpTo(Published, next - 1) \ mcast)
      <= fhCrashes + (IF pc = "mcast" THEN 1 ELSE 0)

Synced == dbUp /\ ~inSync /\ q = <<>> /\ dbEpoch = epoch
          /\ rows \cap Of({"X"}) = Of({"X"})

(* When crashes stop, the feed handler catches up with the exchange and     *)
(* either the DB mirrors all of it or the handler still believes in a       *)
(* connection to a dead DB, which its next write will tell it.              *)
Converges == <>[](pc = "live" /\ (Synced \/ link = "dead"))

(* The 1 s timer restores a link to a DB that came back.                    *)
RestartHeals == (pc = "live" /\ link # "live" /\ dbUp) ~> (Synced \/ ~dbUp)

(* A recovered feed handler has the tick tables, too.                       *)
TicksRecovered == Running => market \cap Of({"L"}) = UpTo({"L"}, next - 1)

(* After a clean end of session the DB has, or still is going to read, the  *)
(* last update of a link that never failed.                                 *)
TailKept ==
  pc = "ended" /\ dbCrashes = 0 /\ stalls = 0 /\ q = <<>> /\ conn = "none" =>
    rows \cap Of({"X"}) = Of({"X"})

-----------------------------------------------------------------------------
(* The inductive invariant behind MarketExact, MirrorPrefix,                 *)
(* NoDuplicateUpdates and DrainedMeansSynced.                                *)

(* n > m and no book or state message lies strictly between them. *)
Successor(m, r) == m < r.n /\ Book(r.n) = Book(m) \cup r.c

(* What may follow a record on a connection. *)
Follows(a, b) ==
  \/ a.op = "RESET" /\ b.op = "SYNC_BEGIN"
  \/ a.op = "SYNC_BEGIN" /\ b.op = "ROWS"
  \/ a.op = "ROWS" /\ b.op = "SYNC_END" /\ a.c \cap Of({"X"}) = Book(b.n)
  \/ a.op \in {"SYNC_END", "UPDATE"} /\ b.op = "UPDATE" /\ b.e = a.e
     /\ Successor(a.n, b)

(* The DB state in which a record is handled. *)
Fits(r) ==
  /\ r.op \in {"HELLO", "RESET"} => ~inSync
  /\ r.op = "GET_STATE" => ~inSync /\ dbEpoch # 0
  /\ r.op = "SYNC_BEGIN" => ~inSync /\ dbEpoch = 0
  /\ r.op = "ROWS" => inSync /\ rows = {}
  /\ r.op = "SYNC_END" => inSync /\ rows \cap Of({"X"}) = Book(r.n)
  /\ r.op = "UPDATE" => ~inSync /\ r.e = dbEpoch /\ Successor(dbLast, r)

WellFormed(records) ==
  /\ \A i \in 1..Len(records) :
       /\ records[i].op \in {"SYNC_END", "UPDATE"} => records[i].e # 0
       /\ records[i].op = "UPDATE" =>
            records[i].c = {records[i].n} \cap Of({"X"})
  /\ \A i \in 1..(Len(records) - 1) : Follows(records[i], records[i + 1])

QueueInv == WellFormed(q) /\ (q # <<>> => Fits(q[1]))

(* The two ends of the socket. *)
LinkInv ==
  /\ link = "live" <=> conn = "live"
  /\ conn # "none" => dbUp
  /\ conn = "none" => q = <<>> /\ ~inSync
  /\ link = "dead" => conn = "none"
  /\ link = "pending" => pc \in {"hello", "rehello", "redial"}
  /\ pc \in {"down", "ended"} => link = "none"
  /\ link \in {"none", "pending"} => reply = NoReply

(* A question under way, or its answer: the DB does not move meanwhile. *)
AskInv ==
  /\ reply.op = "HELLO" => pc \in {"hello", "rehello", "redial"}
  /\ reply.op = "DUMP" =>
       pc = "dump" /\ reply.e # 0 /\ reply.c \cap Of({"X"}) = Book(reply.n)
  /\ link = "live" /\ pc \in {"hello", "rehello", "redial"} =>
       \/ q = <<Ctl("HELLO")>> /\ reply = NoReply
       \/ q = <<>> /\ ~inSync /\ reply.op = "HELLO"
          /\ reply.e = dbEpoch /\ reply.n = dbLast
  /\ link = "live" /\ pc = "dump" =>
       \/ q = <<Ctl("GET_STATE")>> /\ reply = NoReply
       \/ q = <<>> /\ ~inSync /\ reply.op = "DUMP"
          /\ reply.e = dbEpoch /\ reply.n = dbLast

UpToDate(n, e) == e = epoch /\ n <= last /\ Book(n) = Book(last)

(* Otherwise the end of the queue has all the FH applied. *)
FlowInv ==
  link = "live" /\ pc \in {"live", "mcast"} =>
    IF q = <<>>
    THEN ~inSync /\ UpToDate(dbLast, dbEpoch)
    ELSE /\ q[Len(q)].op \in {"SYNC_END", "UPDATE"}
         /\ UpToDate(q[Len(q)].n, q[Len(q)].e)

FhInv ==
  /\ pc # "down" => epoch # 0
  /\ ~Running => market = {} /\ last = 0 /\ next = 1
  /\ pc = "mcast" => next > 1
  /\ Running => /\ last < next /\ Book(last) = Book(next - 1)
                /\ market \cap Of({"X"}) = Book(next - 1)

DbInv ==
  /\ inSync => dbEpoch = 0 /\ dbLast = 0
  /\ dbEpoch = 0 /\ ~inSync => rows = {} /\ dbLast = 0
  /\ ~dbUp => dbEpoch = 0
  /\ dbEpoch # 0 => rows \cap Of({"X"}) = Book(dbLast)

(* A running FH's market is exact; the DB is empty, being filled, or an     *)
(* exact prefix; and every record under way takes the DB to the next such   *)
(* state, the last one to the FH's own (publish.cpp, ingest.cpp).           *)
Inv == FhInv /\ DbInv /\ LinkInv /\ AskInv /\ FlowInv /\ QueueInv
=============================================================================
