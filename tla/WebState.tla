------------------------------ MODULE WebState ------------------------------
(***************************************************************************)
(* jnxweb's market image: the live multicast records (jnxweb/mcast.py,     *)
(* jnxweb/state.py) merged with a SNAP snapshot fetched from jnxdb over    *)
(* TCP (jnxweb/snapshot.py, cpp/db/query.cpp).                             *)
(*                                                                         *)
(* Two paths carry the same data with no common order: a datagram can be   *)
(* lost, overtaken by the next, delivered twice, or wait in the socket     *)
(* while a newer snapshot row overtakes it, and a snapshot is as old as    *)
(* the moment jnxdb built it.  The handler and the DB restart underneath.  *)
(* Their own protocol is FhDb's subject; here they are reduced to what     *)
(* jnxweb can see of them.                                                 *)
(***************************************************************************)
EXTENDS Integers, Sequences, FiniteSets

CONSTANTS
  Stream,       \* the session: a sequence of [t |-> ticker, hit |-> BOOLEAN],
                \* hit marks an execution
  MaxFhCrashes, MaxDbCrashes, MaxLost, MaxFetchFails,
  MaxLate,      \* bound on datagrams out of order
  MaxQueue,     \* bound on datagrams under way to jnxweb
  MaxAttempts,  \* DEFAULT_MAX_ATTEMPTS
  PromptDb      \* jnxdb has handled all that was published before jnxweb
                \* starts

WebAssumption ==
  /\ MaxFhCrashes \in Nat /\ MaxDbCrashes \in Nat /\ MaxLost \in Nat
  /\ MaxFetchFails \in Nat /\ MaxLate \in Nat /\ MaxQueue \in Nat \ {0}
  /\ MaxAttempts \in Nat \ {0} /\ PromptDb \in BOOLEAN

VARIABLES
  epoch, n, pub,               \* jnxfh: epoch, last_exch_seq, pub_seq
  dbPhase,                     \* "ok", "empty" or "sync"
  dbEpoch, dbN, dbRows, syncN, \* jnxdb: meta, rows, position of a dump
  dgrams,                      \* datagrams under way to jnxweb
  up,                          \* jnxweb runs
  last_epoch, tickers, trades, \* State: last_epoch, tickers, _trades
  expected, gaps,              \* State: _expected_pub_seq, gaps
  debounce, query, retry,      \* SnapshotBootstrap's two timers and its query
  fhCrashes, dbCrashes, lost, fails,
  late                         \* datagrams overtaken or repeated

feedVars == <<epoch, n, pub, dbPhase, dbEpoch, dbN, dbRows, syncN, fhCrashes,
              dbCrashes>>
imageVars == <<last_epoch, tickers, trades, expected, gaps>>
fetchVars == <<debounce, query, retry>>
webVars == <<feedVars, imageVars, fetchVars, dgrams, up, lost, fails, late>>

None == -1   \* Python's None, for epochs and pub_seq
Off == [on |-> FALSE, epoch |-> None, attempt |-> 0]
On(e, attempt) == [on |-> TRUE, epoch |-> e, attempt |-> attempt]
NoQuery == [on |-> FALSE, epoch |-> None, attempt |-> 0, reply |-> "none",
            snap |-> None, rows |-> <<>>]

Tickers == {Stream[i].t : i \in DOMAIN Stream}
EmptyMap == [x \in {} |-> x]
Put(f, x, v) == [y \in DOMAIN f \cup {x} |-> IF y = x THEN v ELSE f[y]]

MaxOr0(S) == IF S = {} THEN 0 ELSE CHOOSE i \in S : \A j \in S : j <= i

(* Position of ticker t's last trade within the first k messages; 0: none.  *)
LastTrade(t, k) == MaxOr0({i \in 1..k : Stream[i].t = t /\ Stream[i].hit})
Known(k) == {Stream[i].t : i \in 1..k}

WebInit ==
  /\ epoch = 1 /\ n = 0 /\ pub = 0
  /\ dbPhase = "ok" /\ dbEpoch = 1 /\ dbN = 0 /\ dbRows = EmptyMap /\ syncN = 0
  /\ dgrams = <<>> /\ up = FALSE
  /\ last_epoch = None /\ tickers = EmptyMap /\ trades = EmptyMap
  /\ expected = None /\ gaps = 0
  /\ debounce = Off /\ query = NoQuery /\ retry = Off
  /\ fhCrashes = 0 /\ dbCrashes = 0 /\ lost = 0 /\ fails = 0
  /\ late = 0

-----------------------------------------------------------------------------
(* jnxfh and jnxdb *)

Record(k) ==
  [epoch |-> epoch, pub |-> pub + 1, seq |-> k, t |-> Stream[k].t,
   hit |-> Stream[k].hit, trade |-> LastTrade(Stream[k].t, k)]

(* on_message: the DB has its copy under way, the datagram may get lost.    *)
FhPublish ==
  /\ n < Len(Stream)
  /\ n' = n + 1 /\ pub' = pub + 1
  /\ \/ ~up /\ UNCHANGED <<dgrams, lost>>
     \/ up /\ Len(dgrams) < MaxQueue
        /\ dgrams' = Append(dgrams, Record(n + 1)) /\ UNCHANGED lost
     \/ up /\ lost < MaxLost /\ lost' = lost + 1 /\ UNCHANGED dgrams
  /\ UNCHANGED <<epoch, dbPhase, dbEpoch, dbN, dbRows, syncN, fhCrashes,
                 dbCrashes, imageVars, fetchVars, up, fails, late>>

(* UDP promises no order: a datagram is overtaken by the next one, or comes *)
(* a second time.                                                           *)
Disorder ==
  /\ late < MaxLate /\ late' = late + 1
  /\ \E i \in 1..Len(dgrams) :
       \/ i < Len(dgrams)
          /\ dgrams' = [dgrams EXCEPT ![i] = dgrams[i + 1],
                                      ![i + 1] = dgrams[i]]
       \/ Len(dgrams) < MaxQueue /\ dgrams' = Append(dgrams, dgrams[i])
  /\ UNCHANGED <<feedVars, imageVars, fetchVars, up, lost, fails>>

(* A crash of jnxfh: it resumes where a synced DB is, in the same epoch,    *)
(* or starts over with a new one; pub_seq restarts either way.              *)
FhRestart ==
  /\ fhCrashes < MaxFhCrashes /\ fhCrashes' = fhCrashes + 1
  /\ pub' = 0
  /\ IF dbPhase = "ok"
     THEN n' = dbN /\ UNCHANGED <<epoch, dbPhase, dbEpoch, dbN, dbRows>>
     ELSE /\ epoch' = epoch + 1 /\ n' = 0
          /\ dbPhase' = "empty" /\ dbEpoch' = 0 /\ dbN' = 0 /\ dbRows' = EmptyMap
  /\ UNCHANGED <<syncN, dbCrashes, imageVars, fetchVars, dgrams, up, lost,
                 fails, late>>

(* apply_update of a live record *)
DbApply ==
  /\ dbPhase = "ok" /\ dbN < n
  /\ dbN' = dbN + 1
  /\ dbRows' = Put(dbRows, Stream[dbN + 1].t,
                   [seq |-> dbN + 1, trade |-> LastTrade(Stream[dbN + 1].t, dbN + 1)])
  /\ UNCHANGED <<epoch, n, pub, dbPhase, dbEpoch, syncN, fhCrashes, dbCrashes,
                 imageVars, fetchVars, dgrams, up, lost, fails, late>>

DbRestart ==
  /\ dbCrashes < MaxDbCrashes /\ dbCrashes' = dbCrashes + 1
  /\ dbPhase' = "empty" /\ dbEpoch' = 0 /\ dbN' = 0 /\ dbRows' = EmptyMap
  /\ UNCHANGED <<epoch, n, pub, syncN, fhCrashes, imageVars, fetchVars,
                 dgrams, up, lost, fails, late>>

(* RESET and SYNC_BEGIN: the dump has the market of this moment, *)
DbSyncBegin ==
  /\ dbPhase = "empty"
  /\ dbPhase' = "sync" /\ syncN' = n
  /\ UNCHANGED <<epoch, n, pub, dbEpoch, dbN, dbRows, fhCrashes, dbCrashes,
                 imageVars, fetchVars, dgrams, up, lost, fails, late>>

(* every row of it carries the dump's own position, *)
DbSyncRow ==
  /\ dbPhase = "sync"
  /\ \E t \in Known(syncN) \ DOMAIN dbRows :
       dbRows' = Put(dbRows, t, [seq |-> syncN, trade |-> LastTrade(t, syncN)])
  /\ UNCHANGED <<epoch, n, pub, dbPhase, dbEpoch, dbN, syncN, fhCrashes,
                 dbCrashes, imageVars, fetchVars, dgrams, up, lost, fails,
                 late>>

(* and the epoch is adopted last. *)
DbSyncEnd ==
  /\ dbPhase = "sync" /\ Known(syncN) = DOMAIN dbRows
  /\ dbPhase' = "ok" /\ dbEpoch' = epoch /\ dbN' = syncN
  /\ UNCHANGED <<epoch, n, pub, dbRows, syncN, fhCrashes, dbCrashes,
                 imageVars, fetchVars, dgrams, up, lost, fails, late>>

-----------------------------------------------------------------------------
(* SnapshotBootstrap *)

(* _begin: a new SnapshotQuery *)
Asking(e, attempt) ==
  [on |-> TRUE, epoch |-> e, attempt |-> attempt, reply |-> "none",
   snap |-> None, rows |-> <<>>]

Begin(e, attempt) == query' = Asking(e, attempt)

(* Faulty variant: only the query is superseded. *)
ScheduleKeepingRetry(e) ==
  /\ debounce' = On(e, 1) /\ query' = NoQuery /\ UNCHANGED retry

(* _schedule with a delay: a newer request supersedes whatever is pending.  *)
Schedule(e) == debounce' = On(e, 1) /\ query' = NoQuery /\ retry' = Off

(* main: bootstrap.start() fetches at once. *)
WebStart ==
  /\ ~up /\ up' = TRUE
  /\ PromptDb => dbN = n
  /\ Begin(None, 1)
  /\ UNCHANGED <<feedVars, imageVars, debounce, retry, dgrams, lost, fails,
                 late>>

DebounceFires ==
  /\ debounce.on
  /\ debounce' = Off /\ Begin(debounce.epoch, debounce.attempt)
  /\ UNCHANGED <<feedVars, imageVars, retry, dgrams, up, lost, fails, late>>

RetryFires ==
  /\ retry.on
  /\ retry' = Off /\ Begin(retry.epoch, retry.attempt)
  /\ UNCHANGED <<feedVars, imageVars, debounce, dgrams, up, lost, fails, late>>

(* QueryServer::respond SNAP: one consistent view, as of now. *)
SnapReply ==
  /\ query.on /\ query.reply = "none"
  /\ query' = [query EXCEPT !.reply = "rows", !.snap = dbEpoch, !.rows = dbRows]
  /\ UNCHANGED <<feedVars, imageVars, debounce, retry, dgrams, up, lost, fails,
                 late>>

(* _maybe_retry *)
MaybeRetry(e, attempt) ==
  /\ query' = NoQuery
  /\ retry' = IF attempt < MaxAttempts THEN On(e, attempt + 1) ELSE retry

(* Connection refused, closed early, timed out, unparsable. *)
FetchFails ==
  /\ query.on /\ fails < MaxFetchFails /\ fails' = fails + 1
  /\ MaybeRetry(query.epoch, query.attempt)
  /\ UNCHANGED <<feedVars, imageVars, debounce, dgrams, up, lost, late>>

(* _on_done: jnxdb has not caught up with the restart. *)
NotSettled ==
  /\ query.reply = "rows"
  /\ query.epoch # None /\ query.snap # query.epoch
  /\ MaybeRetry(query.epoch, query.attempt)
  /\ UNCHANGED <<feedVars, imageVars, debounce, dgrams, up, lost, fails, late>>

-----------------------------------------------------------------------------
(* State *)

Trade(seq, trade) == [seq |-> seq, trade |-> trade]
Ring(t) == IF t \in DOMAIN trades THEN trades[t] ELSE <<>>

(* Faulty variant: an equally old or older row wins. *)
TakenAlways(cleared) == DOMAIN query.rows

(* Rows of the snapshot newer than what is shown; all, if all was cleared.  *)
Taken(cleared) ==
  {t \in DOMAIN query.rows :
     cleared \/ t \notin DOMAIN tickers \/ tickers[t].seq < query.rows[t].seq}

(* _seed_trade *)
Seeded(t, ring) ==
  LET row == query.rows[t]
  IN IF row.trade = 0 \/ (ring # <<>> /\ ring[Len(ring)].seq >= row.seq)
     THEN ring
     ELSE Append(ring, Trade(row.seq, row.trade))

(* _on_done and merge_snapshot: a snapshot of an older incarnation is       *)
(* dropped, a newer one starts the image over.                              *)
Merge ==
  /\ query.reply = "rows"
  /\ query.epoch = None \/ query.snap = query.epoch
  /\ query' = NoQuery
  /\ IF last_epoch # None /\ query.snap < last_epoch
     THEN UNCHANGED imageVars
     ELSE LET cleared == last_epoch # None /\ query.snap > last_epoch
              shown == IF cleared THEN EmptyMap ELSE tickers
              rings == IF cleared THEN EmptyMap ELSE trades
              new == Taken(cleared)
          IN /\ last_epoch' = query.snap
             /\ expected' = IF last_epoch = query.snap THEN expected ELSE None
             /\ tickers' = [t \in DOMAIN shown \cup new |->
                  IF t \in new
                  THEN [epoch |-> query.snap, seq |-> query.rows[t].seq]
                  ELSE shown[t]]
             /\ trades' = [t \in DOMAIN rings \cup
                             {u \in new : query.rows[u].trade # 0} |->
                  IF t \in new
                  THEN Seeded(t, IF t \in DOMAIN rings THEN rings[t] ELSE <<>>)
                  ELSE rings[t]]
             /\ UNCHANGED gaps
  /\ UNCHANGED <<feedVars, debounce, retry, dgrams, up, lost, fails, late>>

(* Faulty variant: one too many. *)
GapBeforeInclusive(seq) == IF expected = None THEN 0 ELSE seq - expected + 1

GapBefore(seq) ==
  IF expected # None /\ seq > expected THEN seq - expected ELSE 0

(* Faulty variant: the old incarnation's tickers stay on display. *)
KeptAll(restarted) == tickers

Kept(restarted) == IF restarted THEN EmptyMap ELSE tickers

(* _on_readable, apply_update: any change of epoch clears the image and     *)
(* asks for a new snapshot (on_restart).                                    *)
ApplyUpdate ==
  /\ up /\ dgrams # <<>>
  /\ LET rec == Head(dgrams)
         restarted == last_epoch # None /\ rec.epoch # last_epoch
         rings == IF restarted THEN EmptyMap ELSE trades
     IN /\ last_epoch' = rec.epoch
        /\ IF restarted THEN Schedule(rec.epoch) ELSE UNCHANGED fetchVars
        /\ gaps' = gaps + (IF rec.epoch # last_epoch THEN 0 ELSE GapBefore(rec.pub))
        /\ expected' = rec.pub + 1
        /\ tickers' = Put(Kept(restarted), rec.t,
                          [epoch |-> rec.epoch, seq |-> rec.seq])
        /\ trades' =
             IF rec.hit
             THEN Put(rings, rec.t,
                      Append(IF restarted THEN <<>> ELSE Ring(rec.t),
                             Trade(rec.seq, rec.trade)))
             ELSE rings
  /\ dgrams' = Tail(dgrams)
  /\ UNCHANGED <<feedVars, up, lost, fails, late>>

-----------------------------------------------------------------------------
FeedStep == FhPublish \/ DbApply \/ DbSyncBegin \/ DbSyncRow \/ DbSyncEnd
WebStep ==
  \/ WebStart \/ DebounceFires \/ RetryFires \/ SnapReply \/ NotSettled
  \/ Merge \/ ApplyUpdate

WebNext ==
  FeedStep \/ WebStep \/ Disorder \/ FhRestart \/ DbRestart \/ FetchFails

WebSpec == WebInit /\ [][WebNext]_webVars

(* Both reactors keep running; crashes, losses, disorder and failures stay  *)
(* optional.                                                                *)
WebFairSpec ==
  /\ WebSpec
  /\ WF_webVars(FeedStep) /\ WF_webVars(WebStep) /\ WF_webVars(ApplyUpdate)

-----------------------------------------------------------------------------
(* Type invariant of the image and its fetcher. *)
WebTypeOK ==
  /\ last_epoch \in Nat \cup {None} /\ expected \in Nat \cup {None}
  /\ gaps \in Nat
  /\ DOMAIN tickers \subseteq Tickers /\ DOMAIN trades \subseteq Tickers
  /\ \A r \in {debounce, retry, query} :
       r.on \in BOOLEAN /\ r.attempt \in 0..MaxAttempts

(* Every row on display belongs to the incarnation of the feed handler the  *)
(* image says it shows, whichever way the row came (apply_update,           *)
(* merge_snapshot).                                                         *)
OneIncarnation == \A t \in DOMAIN tickers : tickers[t].epoch = last_epoch

(* At most one of query, debounce timer and retry timer is pending, so two  *)
(* fetches never race to merge (_schedule "supersedes anything in flight or *)
(* pending").                                                               *)
SingleFetch ==
  Cardinality({r \in {"debounce", "retry", "query"} :
     CASE r = "debounce" -> debounce.on
       [] r = "retry" -> retry.on
       [] r = "query" -> query.on}) <= 1

(* Counted gaps are datagrams that really were lost (apply_update), on a    *)
(* network that keeps their order: one that is overtaken is counted as lost *)
(* and, once it came, makes its successors look lost again.                 *)
GapsAreLosses == late = 0 => gaps <= lost

(* A merge never replaces a row by an older one: "without ever regressing   *)
(* fresher live data".                                                      *)
MergeKeepsFresh ==
  [][Merge /\ last_epoch' = last_epoch =>
       \A t \in DOMAIN tickers : t \in DOMAIN tickers'
                                 /\ tickers'[t].seq >= tickers[t].seq]_webVars

(* Every ticker the DB knows gets on display, idle ones included, though    *)
(* jnxweb started late and fetches failed.                                  *)
AllShown == <>[](DOMAIN dbRows \subseteq DOMAIN tickers)

(* A trade seeded from a snapshot is newer than those already in the ring   *)
(* of its ticker (_seed_trade).                                             *)
SeedsNewTrade ==
  [][Merge /\ last_epoch' = last_epoch =>
       \A t \in DOMAIN trades :
         trades'[t] # trades[t] =>
           \A i \in DOMAIN trades[t] :
             trades[t][i].trade < trades'[t][Len(trades'[t])].trade]_webVars
=============================================================================
