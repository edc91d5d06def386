----------------------------- MODULE WebProofs ------------------------------
(***************************************************************************)
(* Proofs about jnxweb: the image of the market it keeps (WebState) and the*)
(* order panel of its page (OrdersPanel).                                  *)
(***************************************************************************)
EXTENDS WebState, OrdersPanel, FiniteSetTheorems, TLAPS

-----------------------------------------------------------------------------
(* WebState: for every stream and any number of crashes, losses and failed  *)
(* fetches, the rows on display are of one incarnation, at most one fetch   *)
(* is pending, a merge never steps back, and no gap is counted without a    *)
(* loss.                                                                    *)

(* The inductive invariant *)

Datagrams == [epoch : Nat, pub : Nat, seq : Nat, t : {Stream[k].t : k \in Nat},
              hit : {Stream[k].hit : k \in Nat},
              trade : {LastTrade(Stream[k].t, k) : k \in Nat}]

Seqs(rows) == \A t \in DOMAIN rows : rows[t].seq \in Nat

FeedInv ==
  /\ epoch \in Nat /\ n \in Nat /\ pub \in Nat
  /\ dbEpoch \in Nat /\ dbN \in Nat /\ syncN \in Nat
  /\ Seqs(dbRows)
  /\ dgrams \in Seq(Datagrams)

(* Nothing is on display before the first epoch is known. *)
ImageInv ==
  /\ last_epoch \in Nat \cup {None}
  /\ last_epoch = None => DOMAIN tickers = {}
  /\ \A t \in DOMAIN tickers : tickers[t].seq \in Nat
  /\ OneIncarnation

IsQuery(q) ==
  /\ q = [on |-> q.on, epoch |-> q.epoch, attempt |-> q.attempt,
          reply |-> q.reply, snap |-> q.snap, rows |-> q.rows]
  /\ q.reply = "rows" => q.on /\ q.snap \in Nat /\ Seqs(q.rows)

(* One fetch at a time, and none before jnxweb runs. *)
FetchInv ==
  /\ IsQuery(query)
  /\ ~(debounce.on /\ retry.on) /\ ~(debounce.on /\ query.on)
  /\ ~(retry.on /\ query.on)
  /\ ~up => ~debounce.on /\ ~retry.on /\ ~query.on

WebInv == FeedInv /\ ImageInv /\ FetchInv

LEMMA InitWebInv == WebInit => WebInv
  BY DEF WebInit, WebInv, FeedInv, ImageInv, FetchInv, IsQuery, Seqs, EmptyMap,
     OneIncarnation, None, Off, NoQuery

-----------------------------------------------------------------------------
(* jnxfh and jnxdb: the image and its fetcher look on *)

LEMMA ImageUntouched ==
  ASSUME WebInv, UNCHANGED <<imageVars, fetchVars, up>>
  PROVE  ImageInv' /\ FetchInv'
  BY Zenon DEF WebInv, imageVars, fetchVars, ImageInv, OneIncarnation, FetchInv, IsQuery

(* The message of the next position, as a datagram. *)
LEMMA RecordTyped ==
  ASSUME FeedInv
  PROVE  Record(n + 1) \in Datagrams
  BY SMTT(30) DEF FeedInv, Record, Datagrams

LEMMA FhPublishStep ==
  ASSUME WebInv, FhPublish
  PROVE  WebInv'
<1> USE DEF FhPublish
<1>1. ImageInv' /\ FetchInv'
  BY ImageUntouched, Zenon
<1>2. dgrams' \in Seq(Datagrams)
  BY RecordTyped DEF WebInv, FeedInv
<1>3. FeedInv'
  BY <1>2 DEF WebInv, FeedInv
<1> QED BY <1>1, <1>3, Zenon DEF WebInv

(* A datagram overtaken or repeated is still one that was sent. *)
LEMMA DisorderStep ==
  ASSUME WebInv, Disorder
  PROVE  WebInv'
<1>1. UNCHANGED <<feedVars, imageVars, fetchVars, up>>
  BY Zenon DEF Disorder
<1>2. dgrams \in Seq(Datagrams)
  BY Zenon DEF WebInv, FeedInv
<1>3. PICK i \in 1..Len(dgrams) :
        \/ /\ i < Len(dgrams)
           /\ dgrams' = [dgrams EXCEPT ![i] = dgrams[i + 1],
                                       ![i + 1] = dgrams[i]]
        \/ dgrams' = Append(dgrams, dgrams[i])
  BY Zenon DEF Disorder
<1> HIDE DEF Datagrams
<1>4. dgrams' \in Seq(Datagrams)
  BY <1>2, <1>3
<1>5. FeedInv'
  BY <1>1, <1>4, Zenon DEF WebInv, FeedInv, feedVars, Seqs
<1> QED BY <1>1, <1>5, ImageUntouched, Zenon DEF WebInv

(* A row put into the tables keeps the others. *)
LEMMA PutRow ==
  ASSUME NEW rows, NEW t, NEW row, Seqs(rows), row.seq \in Nat
  PROVE  Seqs(Put(rows, t, row))
  BY Zenon DEF Seqs, Put

LEMMA DbSteps ==
  ASSUME WebInv,
         DbApply \/ DbSyncBegin \/ DbSyncRow \/ DbSyncEnd \/ DbRestart \/ FhRestart
  PROVE  WebInv'
<1>1. UNCHANGED <<imageVars, fetchVars, up, dgrams>>
  BY Zenon DEF DbApply, DbSyncBegin, DbSyncRow, DbSyncEnd, DbRestart, FhRestart
<1>2. /\ epoch' \in Nat /\ n' \in Nat /\ pub' \in Nat
      /\ dbEpoch' \in Nat /\ dbN' \in Nat /\ syncN' \in Nat
  BY SMTT(30) DEF WebInv, FeedInv, DbApply, DbSyncBegin, DbSyncRow, DbSyncEnd, DbRestart,
     FhRestart
<1>3. Seqs(dbRows')
  <2>1. Seqs(EmptyMap)
    BY Zenon DEF Seqs, EmptyMap
  <2>2. CASE DbApply
    <3> DEFINE row == [seq |-> dbN + 1,
                       trade |-> LastTrade(Stream[dbN + 1].t, dbN + 1)]
    <3>1. row.seq \in Nat /\ dbRows' = Put(dbRows, Stream[dbN + 1].t, row)
      BY <2>2 DEF WebInv, FeedInv, DbApply
    <3> HIDE DEF row
    <3> QED BY <3>1, PutRow, Zenon DEF WebInv, FeedInv
  <2>3. CASE DbSyncRow
    <3>1. PICK t \in Known(syncN) \ DOMAIN dbRows :
            dbRows' = Put(dbRows, t, [seq |-> syncN, trade |-> LastTrade(t, syncN)])
      BY <2>3, Zenon DEF DbSyncRow
    <3> DEFINE row == [seq |-> syncN, trade |-> LastTrade(t, syncN)]
    <3>2. row.seq \in Nat
      BY Zenon DEF WebInv, FeedInv
    <3> HIDE DEF row
    <3> QED BY <3>1, <3>2, PutRow, Zenon DEF WebInv, FeedInv, row
  <2> QED BY <2>1, <2>2, <2>3, Zenon
          DEF WebInv, FeedInv, DbSyncBegin, DbSyncEnd, DbRestart, FhRestart
<1>4. FeedInv'
  BY <1>1, <1>2, <1>3, Zenon DEF WebInv, FeedInv
<1> QED BY <1>1, <1>4, ImageUntouched, Zenon DEF WebInv

-----------------------------------------------------------------------------
(* SnapshotBootstrap *)

LEMMA FeedUntouched ==
  ASSUME WebInv, UNCHANGED <<feedVars, dgrams>>
  PROVE  FeedInv'
  BY Zenon DEF WebInv, FeedInv, feedVars, Seqs

LEMMA PicturesUntouched ==
  ASSUME WebInv, UNCHANGED imageVars
  PROVE  ImageInv'
  BY Zenon DEF WebInv, ImageInv, OneIncarnation, imageVars

LEMMA AskingIsQuery ==
  ASSUME NEW e, NEW attempt
  PROVE  IsQuery(Asking(e, attempt)) /\ Asking(e, attempt).on
  BY Zenon DEF IsQuery, Asking

LEMMA NoQueryIsQuery == IsQuery(NoQuery) /\ ~NoQuery.on
  BY Zenon DEF IsQuery, NoQuery

(* A fetch begins when the timer that asked for it is spent. *)
LEMMA BeginSteps ==
  ASSUME WebInv, WebStart \/ DebounceFires \/ RetryFires
  PROVE  WebInv'
<1>1. IsQuery(query') /\ ~debounce'.on /\ ~retry'.on /\ up'
  BY AskingIsQuery
     DEF WebInv, FetchInv, WebStart, DebounceFires, RetryFires, Begin, Off
<1>2. FetchInv'
  BY <1>1, Zenon DEF FetchInv, IsQuery
<1>3. UNCHANGED <<feedVars, dgrams, imageVars>>
  BY Zenon DEF WebStart, DebounceFires, RetryFires
<1> QED BY <1>2, <1>3, FeedUntouched, PicturesUntouched, Zenon DEF WebInv

LEMMA SnapReplyStep ==
  ASSUME WebInv, SnapReply
  PROVE  WebInv'
<1>1. UNCHANGED <<feedVars, dgrams, imageVars, debounce, retry, up>>
  BY Zenon DEF SnapReply
<1>2. query' = [on |-> query.on, epoch |-> query.epoch,
                attempt |-> query.attempt, reply |-> "rows",
                snap |-> dbEpoch, rows |-> dbRows] /\ query.on
  BY Zenon DEF SnapReply, WebInv, FetchInv, IsQuery
<1>3. IsQuery(query') /\ query'.on
  BY <1>2, Zenon DEF IsQuery, WebInv, FetchInv, FeedInv
<1>4. FetchInv'
  BY <1>1, <1>2, <1>3, Zenon DEF WebInv, FetchInv
<1> QED BY <1>1, <1>4, FeedUntouched, PicturesUntouched, Zenon DEF WebInv

(* A failed or unsettled fetch gives way to its retry. *)
LEMMA RetrySteps ==
  ASSUME WebInv, FetchFails \/ NotSettled
  PROVE  WebInv'
<1>1. UNCHANGED <<feedVars, dgrams, imageVars, debounce, up>>
  BY Zenon DEF FetchFails, NotSettled
<1>2. query.on /\ query' = NoQuery
  BY Zenon DEF WebInv, FetchInv, IsQuery, FetchFails, NotSettled, MaybeRetry
<1>3. FetchInv'
  BY <1>1, <1>2, NoQueryIsQuery, Zenon DEF WebInv, FetchInv
<1> QED BY <1>1, <1>3, FeedUntouched, PicturesUntouched, Zenon DEF WebInv

-----------------------------------------------------------------------------
(* State *)

(* merge_snapshot: older rows of the same incarnation are overtaken, the    *)
(* rows of another one are gone.                                            *)
LEMMA MergeStep ==
  ASSUME WebInv, Merge
  PROVE  WebInv'
<1>1. UNCHANGED <<feedVars, dgrams, debounce, retry, up>> /\ query' = NoQuery
  BY Zenon DEF Merge
<1>2. query.on /\ query.snap \in Nat /\ Seqs(query.rows)
  BY Zenon DEF Merge, WebInv, FetchInv, IsQuery
<1>3. FetchInv'
  BY <1>1, <1>2, NoQueryIsQuery, Zenon DEF WebInv, FetchInv
<1>4. ImageInv'
  <2>1. CASE last_epoch # None /\ query.snap < last_epoch
    BY <2>1, PicturesUntouched, Zenon DEF Merge
  <2>2. CASE ~(last_epoch # None /\ query.snap < last_epoch)
    <3> DEFINE cleared == last_epoch # None /\ query.snap > last_epoch
               shown == IF cleared THEN EmptyMap ELSE tickers
               new == Taken(cleared)
    <3>1. /\ last_epoch' = query.snap
          /\ tickers' = [t \in DOMAIN shown \cup new |->
               IF t \in new
               THEN [epoch |-> query.snap, seq |-> query.rows[t].seq]
               ELSE shown[t]]
      BY <2>2, Zenon DEF Merge
    <3>2. \A t \in DOMAIN shown : shown[t].seq \in Nat /\ shown[t].epoch = query.snap
      BY <1>2, <2>2 DEF WebInv, ImageInv, OneIncarnation, EmptyMap, None
    <3>3. \A t \in new : query.rows[t].seq \in Nat
      BY <1>2, Zenon DEF Taken, Seqs
    <3> HIDE DEF shown, new, cleared
    <3>4. \A t \in DOMAIN tickers' :
            tickers'[t].seq \in Nat /\ tickers'[t].epoch = query.snap
      BY <3>1, <3>2, <3>3, Zenon
    <3>5. last_epoch' = query.snap
      BY <3>1, Zenon
    <3> QED BY <1>2, <3>4, <3>5 DEF ImageInv, OneIncarnation, None
  <2> QED BY <2>1, <2>2, Zenon
<1> QED BY <1>1, <1>3, <1>4, FeedUntouched, Zenon DEF WebInv

(* apply_update *)
LEMMA ApplyUpdateStep ==
  ASSUME WebInv, ApplyUpdate
  PROVE  WebInv'
<1> DEFINE rec == Head(dgrams)
           restarted == last_epoch # None /\ rec.epoch # last_epoch
           shown == Kept(restarted)
           row == [epoch |-> rec.epoch, seq |-> rec.seq]
<1>1. /\ rec \in Datagrams /\ dgrams' \in Seq(Datagrams)
      /\ rec.epoch \in Nat /\ rec.seq \in Nat
  <2>1. dgrams \in Seq(Datagrams) /\ dgrams # <<>> /\ dgrams' = Tail(dgrams)
    BY Zenon DEF WebInv, FeedInv, ApplyUpdate
  <2>2. rec \in Datagrams /\ dgrams' \in Seq(Datagrams)
    BY <2>1
  <2> QED BY <2>2, Zenon DEF Datagrams
<1>2. FeedInv'
  BY <1>1, Zenon DEF ApplyUpdate, WebInv, FeedInv, feedVars, Seqs
<1>3. /\ up' = up /\ up
      /\ IF restarted THEN Schedule(rec.epoch) ELSE UNCHANGED fetchVars
      /\ last_epoch' = rec.epoch /\ tickers' = Put(shown, rec.t, row)
  BY Zenon DEF ApplyUpdate
<1>4. FetchInv'
  <2>1. CASE restarted
    <3>1. query' = NoQuery /\ ~retry'.on
      BY <1>3, <2>1 DEF Schedule, On, Off
    <3> QED BY <1>3, <3>1, NoQueryIsQuery, Zenon DEF FetchInv
  <2>2. CASE ~restarted
    BY <1>3, <2>2, Zenon DEF fetchVars, WebInv, FetchInv, IsQuery
  <2> QED BY <2>1, <2>2, Zenon
<1>5. \A t \in DOMAIN shown : shown[t].seq \in Nat /\ shown[t].epoch = rec.epoch
  BY Zenon DEF Kept, EmptyMap, WebInv, ImageInv, OneIncarnation
<1>6. row.seq \in Nat /\ row.epoch = rec.epoch
  BY <1>1, Zenon
<1> HIDE DEF rec, restarted, shown, row
<1>7. \A t \in DOMAIN tickers' :
        tickers'[t].seq \in Nat /\ tickers'[t].epoch = rec.epoch
  BY <1>3, <1>5, <1>6, Zenon DEF Put
<1>8. ImageInv'
  BY <1>1, <1>3, <1>7 DEF ImageInv, OneIncarnation, None
<1> QED BY <1>2, <1>4, <1>8, Zenon DEF WebInv

-----------------------------------------------------------------------------
(* The invariant is inductive. *)
LEMMA NextWebInv == WebInv /\ [WebNext]_webVars => WebInv'
<1> SUFFICES ASSUME WebInv, [WebNext]_webVars
             PROVE  WebInv'
  BY Zenon
<1>1. CASE UNCHANGED webVars
  BY <1>1, ImageUntouched, FeedUntouched, Zenon DEF webVars, WebInv
<1>2. CASE WebNext
  BY <1>2, FhPublishStep, DisorderStep, DbSteps, BeginSteps, SnapReplyStep,
     RetrySteps, MergeStep, ApplyUpdateStep, Zenon DEF WebNext, FeedStep, WebStep
<1> QED BY <1>1, <1>2, Zenon

LEMMA ImageInvariance == WebSpec => []WebInv
  BY InitWebInv, NextWebInv, PTL DEF WebSpec

(* Every row on display is of the incarnation the image says it shows       *)
(* (state.py apply_update, merge_snapshot).                                 *)
THEOREM ImageOfOneIncarnation == WebSpec => []OneIncarnation
<1>1. WebInv => OneIncarnation
  BY Zenon DEF WebInv, ImageInv
<1> QED BY <1>1, ImageInvariance, PTL

(* At most one fetch is pending (snapshot.py _schedule, _maybe_retry).      *)
THEOREM OneFetchPending == WebSpec => []SingleFetch
<1>1. WebInv => SingleFetch
  <2> SUFFICES ASSUME WebInv PROVE SingleFetch
    BY Zenon
  <2> DEFINE pending == {r \in {"debounce", "retry", "query"} :
                           CASE r = "debounce" -> debounce.on
                             [] r = "retry" -> retry.on
                             [] r = "query" -> query.on}
  <2>1. \E r \in {"debounce", "retry", "query"} : pending \subseteq {r}
    BY Zenon DEF WebInv, FetchInv
  <2>2. PICK r : pending \subseteq {r}
    BY <2>1, Zenon
  <2>3. pending = {} \/ pending = {r}
    BY <2>2, Zenon
  <2> HIDE DEF pending
  <2>4. Cardinality({}) = 0 /\ Cardinality({r}) = 1
    BY FS_EmptySet, FS_Singleton, Zenon
  <2>5. Cardinality(pending) <= 1
    BY <2>3, <2>4
  <2> QED BY <2>5, Zenon DEF SingleFetch, pending
<1> QED BY <1>1, ImageInvariance, PTL

(* A merge never replaces a row by an older one (state.py merge_snapshot).  *)
THEOREM MergeNeverStepsBack == WebSpec => MergeKeepsFresh
<1>1. ASSUME WebInv, Merge, last_epoch' = last_epoch, NEW t \in DOMAIN tickers
      PROVE  t \in DOMAIN tickers' /\ tickers'[t].seq >= tickers[t].seq
  <2>1. query.snap \in Nat /\ Seqs(query.rows) /\ tickers[t].seq \in Nat
    BY <1>1, Zenon DEF Merge, WebInv, FetchInv, IsQuery, ImageInv
  <2>2. CASE last_epoch # None /\ query.snap < last_epoch
    BY <1>1, <2>1, <2>2 DEF Merge, imageVars
  <2>3. CASE ~(last_epoch # None /\ query.snap < last_epoch)
    <3>1. last_epoch = query.snap
      BY <1>1, <2>3, Zenon DEF Merge
    <3> DEFINE new == Taken(FALSE)
    <3>2. tickers' = [u \in DOMAIN tickers \cup new |->
            IF u \in new
            THEN [epoch |-> query.snap, seq |-> query.rows[u].seq]
            ELSE tickers[u]]
      BY <1>1, <2>1, <2>3, <3>1, Zenon DEF Merge
    <3>3. t \in new => query.rows[t].seq \in Nat
                       /\ tickers[t].seq < query.rows[t].seq
      BY <1>1, <2>1, Zenon DEF Taken, Seqs
    <3>4. t \in DOMAIN tickers
      BY <1>1, Zenon
    <3> HIDE DEF new
    <3>5. /\ t \in DOMAIN tickers'
          /\ tickers'[t] = IF t \in new
                           THEN [epoch |-> query.snap, seq |-> query.rows[t].seq]
                           ELSE tickers[t]
      BY <3>2, <3>4, Zenon
    <3>6. tickers'[t].seq = IF t \in new THEN query.rows[t].seq
                                         ELSE tickers[t].seq
      BY <3>5
    <3> QED BY <2>1, <3>3, <3>5, <3>6
  <2> QED BY <2>2, <2>3, Zenon
<1>2. WebInv /\ [WebNext]_webVars =>
        [Merge /\ last_epoch' = last_epoch =>
           \A t \in DOMAIN tickers : t \in DOMAIN tickers'
                                     /\ tickers'[t].seq >= tickers[t].seq]_webVars
  BY <1>1, Zenon
<1> QED BY <1>2, ImageInvariance, PTL DEF WebSpec, MergeKeepsFresh

-----------------------------------------------------------------------------
(* Counted gaps and lost datagrams *)

(* What on_update will add for a datagram p when e is expected. *)
Ahead(e, p) == IF e # None /\ p > e THEN p - e ELSE 0

(* The pub_seq expected after the i-th datagram of a queue. *)
After(e, q, i) == IF i = 0 THEN e ELSE q[i].pub + 1

(* L[i] is a number of losses that was reached before the datagram after    *)
(* the i-th was sent: the gaps yet to be counted fit between them.          *)
Losses(L) ==
  /\ gaps <= L[0]
  /\ \A i \in 0..Len(dgrams) : L[i] <= lost
  /\ \A i \in 0..(Len(dgrams) - 1) :
       L[i] + Ahead(After(expected, dgrams, i), dgrams[i + 1].pub) <= L[i + 1]
  /\ L[Len(dgrams)] + Ahead(After(expected, dgrams, Len(dgrams)), pub + 1) <= lost

LossInv ==
  /\ gaps \in Nat /\ lost \in Nat /\ expected \in Nat \cup {None}
  /\ ~up => expected = None /\ dgrams = <<>>
  /\ \E L \in [0..Len(dgrams) -> Nat] : Losses(L)

LEMMA AheadTyped ==
  ASSUME NEW e \in Nat \cup {None}, NEW p \in Nat
  PROVE  Ahead(e, p) \in Nat
BY DEF Ahead, None

(* The datagrams under way have numbers. *)
LEMMA PubsTyped ==
  ASSUME FeedInv, NEW i \in 1..Len(dgrams)
  PROVE  dgrams[i].pub \in Nat
<1>1. dgrams[i] \in Datagrams
  BY DEF FeedInv
<1> QED BY <1>1, Zenon DEF Datagrams

LEMMA ExpectedTyped ==
  ASSUME FeedInv, LossInv, NEW i \in 0..Len(dgrams)
  PROVE  After(expected, dgrams, i) \in Nat \cup {None}
<1>1. CASE i = 0
  BY <1>1, Zenon DEF After, LossInv
<1>2. CASE i # 0
  <2>1. dgrams[i].pub \in Nat
    BY <1>2, PubsTyped DEF FeedInv
  <2> QED BY <1>2, <2>1 DEF After
<1> QED BY <1>1, <1>2, Zenon

LEMMA InitLossInv ==
  ASSUME WebInit
  PROVE  LossInv
<1> DEFINE L == [i \in 0..0 |-> 0]
<1>1. Len(dgrams) = 0 /\ gaps = 0 /\ lost = 0 /\ pub = 0 /\ expected = None
  BY Zenon DEF WebInit
<1>2. Losses(L)
  BY <1>1 DEF Losses, Ahead, After
<1>3. L \in [0..Len(dgrams) -> Nat]
  BY <1>1, Zenon
<1> QED BY <1>1, <1>2, <1>3 DEF LossInv, WebInit

(* What jnxfh may do about pub_seq, p, and the datagrams lost, l, when      *)
(* nothing joins the queue; e is expected after it.                         *)
Moves(e, p, l, p1, l1) ==
  \/ p1 + 1 <= 1 /\ l <= l1
  \/ p1 = p /\ l1 = l
  \/ p1 = p + 1 /\ l1 = l + 1
  \/ p1 = p + 1 /\ l1 = l /\ e = None

LEMMA MovesFit ==
  ASSUME NEW x \in Nat, NEW e \in Nat \cup {None}, NEW p \in Nat, NEW l \in Nat,
         NEW p1 \in Nat, NEW l1 \in Nat, Moves(e, p, l, p1, l1),
         x + Ahead(e, p + 1) <= l
  PROVE  l <= l1 /\ x + Ahead(e, p1 + 1) <= l1
<1>1. l <= l1
  BY DEF Moves
<1>2. CASE e = None
  BY <1>1, <1>2 DEF Ahead
<1>3. CASE e \in Nat
  BY <1>1, <1>3 DEF Ahead, Moves, None
<1> QED BY <1>1, <1>2, <1>3, Zenon

(* Steps that leave the queue alone and do not increase what is still to be *)
(* counted.                                                                 *)
LEMMA QueueUntouched ==
  ASSUME FeedInv, LossInv, UNCHANGED <<dgrams, gaps, expected>>,
         pub' \in Nat, lost' \in Nat, ~up' => ~up,
         \/ pub' + 1 <= 1 /\ lost <= lost'
         \/ pub' = pub /\ lost' = lost
         \/ pub' = pub + 1 /\ lost' = lost + 1
         \/ pub' = pub + 1 /\ lost' = lost /\ ~up
  PROVE  LossInv'
<1>1. PICK L \in [0..Len(dgrams) -> Nat] : Losses(L)
  BY Zenon DEF LossInv
<1> DEFINE k == Len(dgrams)
           e == After(expected, dgrams, k)
<1>2. k \in Nat /\ k \in 0..k
  BY DEF FeedInv
<1>3. e \in Nat \cup {None}
  BY <1>2, ExpectedTyped, Zenon
<1>4. L[k] \in Nat /\ pub \in Nat /\ lost \in Nat
  BY <1>2, Zenon DEF FeedInv, LossInv
<1>5. L[k] + Ahead(e, pub + 1) <= lost
  BY <1>1, Zenon DEF Losses
<1>6. ~up => e = None
  BY Zenon DEF LossInv, After
<1> DEFINE x == L[k]
<1>7. /\ x \in Nat /\ x + Ahead(e, pub + 1) <= lost /\ (~up => e = None)
      /\ pub \in Nat /\ lost \in Nat /\ pub' \in Nat /\ lost' \in Nat
  BY <1>4, <1>5, <1>6, Zenon
<1> HIDE DEF x, e, k
<1>8. Moves(e, pub, lost, pub', lost')
  BY <1>7, Zenon DEF Moves
<1>9. lost <= lost' /\ x + Ahead(e, pub' + 1) <= lost'
  BY <1>3, <1>7, <1>8, MovesFit, Zenon
<1>10. \A i \in 0..Len(dgrams) : L[i] <= lost'
  <2> SUFFICES ASSUME NEW i \in 0..Len(dgrams) PROVE L[i] <= lost'
    BY Zenon
  <2> DEFINE y == L[i]
  <2>1. y \in Nat /\ y <= lost
    BY <1>1, Zenon DEF Losses
  <2> HIDE DEF y
  <2>2. y <= lost'
    BY <1>7, <1>9, <2>1
  <2> QED BY <2>2, Zenon DEF y
<1>11. Losses(L)'
  BY <1>1, <1>9, <1>10, Zenon DEF Losses, x, e, k
<1> QED BY <1>1, <1>11, Zenon DEF LossInv

(* A datagram joins the queue: what was lost so far was lost before it. *)
LEMMA QueueGrows ==
  ASSUME FeedInv, LossInv, NEW d \in Datagrams, d.pub = pub + 1, up,
         dgrams' = Append(dgrams, d), pub' = pub + 1,
         UNCHANGED <<gaps, expected, lost, up>>
  PROVE  LossInv'
<1>1. PICK L \in [0..Len(dgrams) -> Nat] : Losses(L)
  BY Zenon DEF LossInv
<1> DEFINE k == Len(dgrams)
<1>2. k \in Nat /\ pub \in Nat /\ lost \in Nat /\ dgrams \in Seq(Datagrams)
  BY DEF FeedInv, LossInv
<1>3. /\ Len(dgrams') = k + 1 /\ dgrams'[k + 1] = d
      /\ \A i \in 1..k : dgrams'[i] = dgrams[i]
  BY <1>2
<1>4. \A i \in 0..k : After(expected', dgrams', i) = After(expected, dgrams, i)
  BY <1>2, <1>3 DEF After
<1>5. After(expected', dgrams', k + 1) = pub + 2
  BY <1>2, <1>3 DEF After
<1>6. PICK M \in [0..(k + 1) -> Nat] :
        M[k + 1] = lost /\ \A i \in 0..k : M[i] = L[i]
  <2> DEFINE F == [i \in 0..(k + 1) |-> IF i <= k THEN L[i] ELSE lost]
  <2>1. F \in [0..(k + 1) -> Nat] /\ F[k + 1] = lost /\ \A i \in 0..k : F[i] = L[i]
    BY <1>2
  <2> HIDE DEF F
  <2> QED BY <2>1, Zenon
<1>7. gaps' <= M[0]
  BY <1>1, <1>2, <1>6 DEF Losses
<1>8. ASSUME NEW i \in 0..k
      PROVE  M[i] + Ahead(After(expected', dgrams', i), dgrams'[i + 1].pub) <= M[i + 1]
  <2>1. CASE i = k
    <3>1. L[k] + Ahead(After(expected, dgrams, k), d.pub) <= lost
      BY <1>1, Zenon DEF Losses
    <3> QED BY <1>2, <1>3, <1>4, <1>6, <2>1, <3>1, Zenon
  <2>2. CASE i # k
    <3>1. i \in 0..(k - 1) /\ i + 1 \in 1..k /\ i + 1 \in 0..k
      BY <1>2, <2>2
    <3>2. L[i] + Ahead(After(expected, dgrams, i), dgrams[i + 1].pub) <= L[i + 1]
      BY <1>1, <3>1, Zenon DEF Losses
    <3> QED BY <1>3, <1>4, <1>6, <3>1, <3>2, Zenon
  <2> QED BY <2>1, <2>2, Zenon
<1>9. M[k + 1] + Ahead(pub + 2, pub' + 1) <= lost
  <2>1. Ahead(pub + 2, pub' + 1) = 0
    BY <1>2 DEF Ahead
  <2> QED BY <1>2, <1>6, <2>1
<1>10. \A i \in 0..(k + 1) : M[i] <= lost
  <2> SUFFICES ASSUME NEW i \in 0..(k + 1) PROVE M[i] <= lost
    BY Zenon
  <2>1. CASE i = k + 1
    BY <1>2, <1>6, <2>1
  <2>2. CASE i # k + 1
    <3>1. i \in 0..k
      BY <1>2, <2>2
    <3> QED BY <1>1, <1>6, <3>1, Zenon DEF Losses
  <2> QED BY <2>1, <2>2, Zenon
<1>11. Losses(M)'
  <2>1. Len(dgrams') - 1 = k
    BY <1>2, <1>3
  <2> QED BY <1>3, <1>5, <1>7, <1>8, <1>9, <1>10, <2>1, Zenon DEF Losses
<1>12. M \in [0..Len(dgrams') -> Nat]
  BY <1>3, <1>6, Zenon
<1> QED BY <1>12, <1>11, Zenon DEF LossInv

(* A merged snapshot of another epoch forgets what was expected. *)
LEMMA ExpectsNothing ==
  ASSUME FeedInv, LossInv, UNCHANGED <<dgrams, gaps, pub, lost, up>>,
         expected' \in {expected, None}
  PROVE  LossInv'
<1>1. PICK L \in [0..Len(dgrams) -> Nat] : Losses(L)
  BY Zenon DEF LossInv
<1> DEFINE k == Len(dgrams)
<1>2. k \in Nat /\ pub \in Nat /\ lost \in Nat
  BY DEF FeedInv, LossInv
<1>3. ASSUME NEW i \in 0..k, NEW p \in Nat, NEW x \in Nat,
             L[i] + Ahead(After(expected, dgrams, i), p) <= x
      PROVE  L[i] + Ahead(After(expected', dgrams', i), p) <= x
  <2>1. Ahead(After(expected, dgrams, i), p) \in Nat
    BY ExpectedTyped, AheadTyped, Zenon
  <2>2. After(expected', dgrams', i) \in {After(expected, dgrams, i), None}
    BY Zenon DEF After
  <2>3. Ahead(None, p) = 0
    BY Zenon DEF Ahead
  <2>4. L[i] \in Nat
    BY Zenon
  <2> QED BY <1>3, <2>1, <2>2, <2>3, <2>4
<1>4. ASSUME NEW i \in 0..(k - 1)
      PROVE  L[i] + Ahead(After(expected', dgrams', i), dgrams[i + 1].pub) <= L[i + 1]
  <2>1. i \in 0..k /\ i + 1 \in 1..k /\ i + 1 \in 0..k
    BY <1>2
  <2>2. dgrams[i + 1].pub \in Nat /\ L[i + 1] \in Nat
    BY <2>1, PubsTyped, Zenon
  <2> QED BY <1>1, <1>3, <2>1, <2>2, Zenon DEF Losses
<1>5. L[k] + Ahead(After(expected', dgrams', k), pub + 1) <= lost
  <2>1. k \in 0..k /\ pub + 1 \in Nat
    BY <1>2
  <2> QED BY <1>1, <1>2, <1>3, <2>1, Zenon DEF Losses
<1>6. Losses(L)'
  BY <1>1, <1>4, <1>5, Zenon DEF Losses
<1> QED BY <1>6, Zenon DEF LossInv

(* on_update takes the first datagram and counts what is missing before it, *)
(* unless it is of another epoch.                                           *)
LEMMA QueueShrinks ==
  ASSUME FeedInv, LossInv, ApplyUpdate
  PROVE  LossInv'
<1>1. PICK L \in [0..Len(dgrams) -> Nat] : Losses(L)
  BY Zenon DEF LossInv
<1> DEFINE k == Len(dgrams)
           d == dgrams[1]
<1>2. /\ up /\ dgrams # <<>> /\ dgrams' = Tail(dgrams) /\ UNCHANGED <<pub, lost, up>>
      /\ expected' = Head(dgrams).pub + 1
      /\ gaps' = gaps + (IF Head(dgrams).epoch # last_epoch THEN 0
                         ELSE GapBefore(Head(dgrams).pub))
  BY Zenon DEF ApplyUpdate, feedVars
<1>3. dgrams \in Seq(Datagrams) /\ k \in Nat \ {0} /\ lost \in Nat /\ gaps \in Nat
  BY <1>2 DEF FeedInv, LossInv
<1>4. /\ Head(dgrams) = d /\ Len(dgrams') = k - 1
      /\ \A i \in 1..(k - 1) : dgrams'[i] = dgrams[i + 1]
  BY <1>2, <1>3
<1>5. d.pub \in Nat
  BY <1>3, PubsTyped
<1> HIDE DEF d
<1>6. \A i \in 0..(k - 1) : After(expected', dgrams', i) = After(expected, dgrams, i + 1)
  BY <1>2, <1>3, <1>4 DEF After, d
<1>7. /\ L[0] \in Nat /\ L[1] \in Nat /\ gaps <= L[0]
      /\ L[0] + Ahead(expected, d.pub) <= L[1]
  <2>1. 0 \in 0..k /\ 1 \in 0..k /\ 0 \in 0..(k - 1)
    BY <1>3
  <2>2. After(expected, dgrams, 0) = expected /\ dgrams[0 + 1] = d
    BY DEF After, d
  <2> QED BY <1>1, <2>1, <2>2 DEF Losses
<1>8. Ahead(expected, d.pub) \in Nat
  BY <1>5, AheadTyped, Zenon DEF LossInv
<1>9. gaps' = gaps \/ gaps' = gaps + Ahead(expected, d.pub)
  BY <1>2, <1>3, <1>4 DEF GapBefore, Ahead
<1>10. gaps' \in Nat /\ gaps' <= L[1]
  BY <1>3, <1>7, <1>8, <1>9
<1>11. PICK M \in [0..(k - 1) -> Nat] : \A i \in 0..(k - 1) : M[i] = L[i + 1]
  <2> DEFINE F == [i \in 0..(k - 1) |-> L[i + 1]]
  <2>1. F \in [0..(k - 1) -> Nat] /\ \A i \in 0..(k - 1) : F[i] = L[i + 1]
    BY <1>3
  <2> HIDE DEF F
  <2> QED BY <2>1, Zenon
<1>12. gaps' <= M[0]
  BY <1>3, <1>10, <1>11
<1>13. ASSUME NEW i \in 0..(k - 2)
       PROVE  M[i] + Ahead(After(expected', dgrams', i), dgrams'[i + 1].pub) <= M[i + 1]
  <2> DEFINE j == i + 1
  <2>1. j \in 0..(k - 1) /\ i \in 0..(k - 1) /\ j \in 1..(k - 1)
    BY <1>3
  <2> HIDE DEF j
  <2>2. L[j] + Ahead(After(expected, dgrams, j), dgrams[j + 1].pub) <= L[j + 1]
    BY <1>1, <2>1, Zenon DEF Losses
  <2>3. M[i] = L[j] /\ M[j] = L[j + 1]
    BY <1>11, <2>1, Zenon DEF j
  <2>4. /\ After(expected', dgrams', i) = After(expected, dgrams, j)
        /\ dgrams'[j] = dgrams[j + 1]
    BY <1>4, <1>6, <2>1, Zenon DEF j
  <2> QED BY <2>2, <2>3, <2>4, Zenon DEF j
<1>14. M[k - 1] + Ahead(After(expected', dgrams', k - 1), pub + 1) <= lost
  <2>1. k - 1 \in 0..(k - 1) /\ (k - 1) + 1 = k
    BY <1>3
  <2>3. M[k - 1] = L[k] /\ After(expected', dgrams', k - 1) = After(expected, dgrams, k)
    BY <1>6, <1>11, <2>1, Zenon
  <2>2. L[k] + Ahead(After(expected, dgrams, k), pub + 1) <= lost
    BY <1>1, Zenon DEF Losses
  <2> QED BY <2>2, <2>3, Zenon
<1>15. \A i \in 0..(k - 1) : M[i] <= lost
  <2> SUFFICES ASSUME NEW i \in 0..(k - 1) PROVE M[i] <= lost
    BY Zenon
  <2>1. i + 1 \in 0..k
    BY <1>3
  <2> QED BY <1>1, <1>11, <2>1, Zenon DEF Losses
<1>16. Losses(M)'
  <2>1. Len(dgrams') - 1 = k - 2
    BY <1>3, <1>4
  <2> QED BY <1>2, <1>4, <1>12, <1>13, <1>14, <1>15, <2>1, Zenon DEF Losses
<1>17. M \in [0..Len(dgrams') -> Nat] /\ expected' \in Nat
  BY <1>2, <1>4, <1>5, <1>11
<1> QED BY <1>2, <1>3, <1>10, <1>16, <1>17, Zenon DEF LossInv

(* As long as the network keeps the order. *)
LEMMA NextLossInv ==
  WebInv /\ LossInv /\ [WebNext]_webVars /\ ~Disorder => LossInv'
<1> SUFFICES ASSUME FeedInv, LossInv, [WebNext]_webVars, ~Disorder
             PROVE  LossInv'
  BY Zenon DEF WebInv
<1>1. pub \in Nat /\ lost \in Nat
  BY Zenon DEF FeedInv, LossInv
<1>2. CASE FhPublish
  <2>1. CASE UNCHANGED dgrams
    BY <1>1, <1>2, <2>1, QueueUntouched DEF FhPublish, imageVars
  <2>2. CASE up /\ dgrams' = Append(dgrams, Record(n + 1)) /\ UNCHANGED lost
    <3>1. Record(n + 1) \in Datagrams /\ Record(n + 1).pub = pub + 1
      BY RecordTyped, Zenon DEF Record
    <3> QED BY <1>2, <2>2, <3>1, QueueGrows, Zenon DEF FhPublish, imageVars
  <2> QED BY <1>2, <2>1, <2>2, Zenon DEF FhPublish
<1>3. CASE FhRestart
  BY <1>1, <1>3, QueueUntouched DEF FhRestart, imageVars
<1>4. CASE DbApply \/ DbSyncBegin \/ DbSyncRow \/ DbSyncEnd \/ DbRestart
  BY <1>1, <1>4, QueueUntouched
     DEF DbApply, DbSyncBegin, DbSyncRow, DbSyncEnd, DbRestart, imageVars
<1>5. CASE WebStart \/ DebounceFires \/ RetryFires \/ SnapReply \/ NotSettled \/ FetchFails
  BY <1>1, <1>5, QueueUntouched
     DEF WebStart, DebounceFires, RetryFires, SnapReply, NotSettled, FetchFails,
         imageVars, feedVars
<1>6. CASE Merge
  <2>1. UNCHANGED <<dgrams, gaps, pub, lost, up>> /\ expected' \in {expected, None}
    BY <1>6, Zenon DEF Merge, imageVars, feedVars
  <2> QED BY <2>1, ExpectsNothing, Zenon
<1>7. CASE ApplyUpdate
  BY <1>7, QueueShrinks, Zenon
<1>8. CASE UNCHANGED webVars
  BY <1>1, <1>8, QueueUntouched, Zenon DEF webVars, imageVars, feedVars
<1> QED BY <1>2, <1>3, <1>4, <1>5, <1>6, <1>7, <1>8, Zenon DEF WebNext, FeedStep, WebStep

OrderInv == late \in Nat /\ (late = 0 => LossInv)

LEMMA NextOrderInv == WebInv /\ OrderInv /\ [WebNext]_webVars => OrderInv'
<1> SUFFICES ASSUME WebInv, OrderInv, [WebNext]_webVars
             PROVE  OrderInv'
  BY Zenon
<1>1. CASE Disorder
  <2>1. late' \in Nat /\ late' # 0
    BY <1>1 DEF Disorder, OrderInv
  <2> QED BY <2>1, Zenon DEF OrderInv
<1>2. CASE ~Disorder
  <2>1. late' = late
    BY <1>2, Zenon DEF WebNext, FeedStep, WebStep, FhPublish, FhRestart, DbApply,
       DbSyncBegin, DbSyncRow, DbSyncEnd, DbRestart, WebStart, DebounceFires,
       RetryFires, SnapReply, NotSettled, FetchFails, Merge, ApplyUpdate, webVars
  <2> QED BY <1>2, <2>1, NextLossInv, Zenon DEF OrderInv
<1> QED BY <1>1, <1>2, Zenon

(* As long as no datagram was overtaken or repeated, the gap counter never  *)
(* exceeds the datagrams lost, through restarts of jnxfh in the same epoch, *)
(* merged snapshots and any queue (state.py apply_update, merge_snapshot).  *)
THEOREM GapsCountLosses == WebSpec => []GapsAreLosses
<1>1. WebInv /\ OrderInv => GapsAreLosses
  <2> SUFFICES ASSUME FeedInv, LossInv PROVE gaps <= lost
    BY Zenon DEF WebInv, OrderInv, GapsAreLosses
  <2>1. PICK L \in [0..Len(dgrams) -> Nat] : Losses(L)
    BY Zenon DEF LossInv
  <2>2. 0 \in 0..Len(dgrams)
    BY DEF FeedInv
  <2> DEFINE x == L[0]
  <2>3. x \in Nat /\ gaps <= x /\ x <= lost /\ gaps \in Nat /\ lost \in Nat
    BY <2>1, <2>2, Zenon DEF Losses, LossInv
  <2> HIDE DEF x
  <2> QED BY <2>3
<1>2. WebInit => OrderInv
  <2>1. WebInit => late \in Nat
    BY DEF WebInit
  <2> QED BY <2>1, InitLossInv, Zenon DEF OrderInv
<1> QED BY <1>1, <1>2, InitWebInv, NextWebInv, NextOrderInv, PTL DEF WebSpec

-----------------------------------------------------------------------------
(* OrdersPanel: for any number of requests, selections and reloads the      *)
(* table shows the selected ticker's orders, and a query is answered once.  *)

ConnStates == {"unused", "sent", "querying", "responding", "answered",
               "broken", "over"}
QueryStates == {"unused", "connecting", "reading", "finished"}
PanelKinds == {"not queried", "querying", "rows", "error", "request failed"}
Names == PanelTickers \cup {Nil}

Pages == [selected : Names, ordersTicker : Names, disabled : BOOLEAN,
          status : PanelKinds, rows : Names]
Conns == [at : ConnStates, ticker : Names,
          reply : {Nil, "200", "404", "502", "503"}, open : BOOLEAN,
          load : Nat]
Queries == [at : QueryStates, got : Nat, timer : BOOLEAN, done : Nat]

PanelTyped ==
  /\ panelPage \in Pages
  /\ conn \in [Reqs -> Conns]
  /\ ordersQuery \in [Reqs -> Queries]
  /\ configured \in BOOLEAN /\ reloads \in Nat

(* A request of this load of the page that is still out. *)
Out(i) == Mine(i) /\ conn[i].at \notin {"unused", "over"}

(* The page: one request is out at a time, for the ticker ordersTicker      *)
(* names unless a selection has cleared it since.                           *)
PageInv ==
  /\ panelPage.ordersTicker \in {Nil, panelPage.selected}
  /\ panelPage.disabled <=> \E i \in Reqs : Out(i)
  /\ \A i, j \in Reqs : Out(i) /\ Out(j) => i = j
  /\ \A i \in Reqs : Out(i) => /\ conn[i].open /\ panelPage.selected # Nil
                               /\ panelPage.ordersTicker \in {Nil, conn[i].ticker}
  /\ \A i \in Reqs : conn[i].load <= reloads
  /\ RowsOfSelected

(* The server: a query runs only under a connection that waits for it. *)
QueryInv ==
  \A i \in Reqs :
    /\ ordersQuery[i].done = (IF ordersQuery[i].at = "finished" THEN 1 ELSE 0)
    /\ ordersQuery[i].timer => ordersQuery[i].at \in {"connecting", "reading"}
    /\ ordersQuery[i].at \in {"connecting", "reading"} => conn[i].at = "querying"
    /\ conn[i].at \in {"unused", "sent"} => ordersQuery[i].at = "unused"
    /\ conn[i].at \in {"responding", "answered", "broken"} /\ configured =>
         ordersQuery[i].at = "finished"

PanelInv == PanelTyped /\ PageInv /\ QueryInv

(* Every query and connection starts unused. *)
LEMMA InitPanelInv == PanelInit => PanelInv
<1> SUFFICES ASSUME PanelInit PROVE PanelInv
  BY Zenon
<1> USE DEF PanelInit
<1>1. PanelTyped
  <2>1. panelPage \in Pages
    BY Zenon DEF Pages, PanelKinds, Names, FreshPage
  <2>2. NoConn \in Conns /\ NoOrdersQuery \in Queries
    BY Zenon DEF Conns, Queries, ConnStates, QueryStates, Names, NoConn, NoOrdersQuery
  <2> QED BY <2>1, <2>2, Zenon DEF PanelTyped
<1>2. PageInv
  <2>1. \A i \in Reqs : ~Out(i) /\ conn[i].load = 0
    BY Zenon DEF Out, NoConn
  <2>2. /\ panelPage.ordersTicker = Nil /\ panelPage.rows = Nil
        /\ panelPage.disabled = FALSE
    BY Zenon DEF FreshPage
  <2>3. \A i \in Reqs : conn[i].load <= reloads
    BY <2>1
  <2> QED BY <2>1, <2>2, <2>3, Zenon DEF PageInv, RowsOfSelected
<1>3. QueryInv
  BY Zenon DEF QueryInv, NoConn, NoOrdersQuery
<1> QED BY <1>1, <1>2, <1>3, Zenon DEF PanelInv

(* selectTicker leaves the request out and forgets whose it was. *)
LEMMA SelectTickerStep ==
  ASSUME OrdersPanelAssumption, PanelInv, NEW t \in PanelTickers, PanelSelectTicker(t)
  PROVE  PanelInv'
<1> USE DEF PanelInv, PanelSelectTicker
<1>1. PanelTyped'
  BY Zenon DEF PanelTyped, Pages, PanelKinds, Names
<1>2. PageInv'
  BY Zenon DEF OrdersPanelAssumption, Nil, PanelTyped, Pages, PageInv, RowsOfSelected,
     Out, Mine
<1>3. QueryInv'
  BY Zenon DEF QueryInv
<1> QED BY <1>1, <1>2, <1>3, Zenon

(* A click is refused while a request is out, so the new one is the only one. *)
LEMMA ClickStep ==
  ASSUME PanelInv, NEW i \in Reqs, Click(i)
  PROVE  PanelInv'
<1> USE DEF PanelInv, Click, Unused
<1>1. PanelTyped'
  BY Zenon DEF PanelTyped, Pages, Conns, ConnStates, PanelKinds, Names, Busy
<1>2. PageInv'
  BY DEF PanelTyped, Pages, Conns, Busy, PageInv, RowsOfSelected, Out, Mine
<1>3. QueryInv'
  BY Zenon DEF QueryInv, PanelTyped, Conns
<1> QED BY <1>1, <1>2, <1>3, Zenon

(* An answer is shown only when ordersTicker is the selected ticker, and    *)
(* then it is the request's.                                                *)
LEMMA OnReplyStep ==
  ASSUME PanelInv, NEW i \in Reqs, OnReply(i)
  PROVE  PanelInv'
<1> USE DEF PanelInv, OnReply
<1>1. PanelTyped'
  <2>1. panelPage' \in Pages
    BY Zenon DEF PanelTyped, Pages, Conns, PanelKinds, Names, Replied, RenderOrders,
       RenderError, Enabled
  <2>2. conn' \in [Reqs -> Conns]
    BY Zenon DEF PanelTyped, Conns, ConnStates
  <2> QED BY <2>1, <2>2, Zenon DEF PanelTyped
<1>2. PageInv'
  BY DEF PanelTyped, Pages, Conns, Replied, RenderOrders, RenderError,
     Enabled, PageInv, RowsOfSelected, Out, Mine
<1>3. QueryInv'
  BY DEF QueryInv, PanelTyped, Conns
<1> QED BY <1>1, <1>2, <1>3, Zenon

LEMMA OnFailureStep ==
  ASSUME PanelInv, NEW i \in Reqs, OnFailure(i)
  PROVE  PanelInv'
<1> USE DEF PanelInv, OnFailure
<1>1. PanelTyped'
  <2>1. panelPage' \in Pages
    BY Zenon DEF PanelTyped, Pages, PanelKinds
  <2>2. conn' \in [Reqs -> Conns]
    BY ZenonT(30) DEF PanelTyped, Conns, ConnStates
  <2> QED BY <2>1, <2>2, Zenon DEF PanelTyped
<1>2. PageInv'
  BY DEF PanelTyped, Pages, Conns, PageInv, RowsOfSelected, Out, Mine
<1>3. QueryInv'
  BY DEF QueryInv, PanelTyped, Conns
<1> QED BY <1>1, <1>2, <1>3, Zenon

(* After a reload no request is this page's. *)
LEMMA ReloadStep ==
  ASSUME PanelInv, Reload
  PROVE  PanelInv'
<1> USE DEF PanelInv, Reload
<1>1. PanelTyped'
  <2>1. panelPage' \in Pages
    BY Zenon DEF Pages, PanelKinds, Names, FreshPage
  <2>2. conn' \in [Reqs -> Conns]
    BY Zenon DEF PanelTyped, Conns
  <2> QED BY <2>1, <2>2 DEF PanelTyped
<1>2. PageInv'
  <2>1. \A j \in Reqs : conn'[j].load = conn[j].load
    BY Zenon DEF PanelTyped, Conns
  <2>2. \A j \in Reqs : conn'[j].load < reloads'
    BY <2>1 DEF PageInv, PanelTyped, Conns
  <2>3. \A j \in Reqs : conn'[j].load <= reloads' /\ ~Out(j)'
    BY SMTT(30), <1>1, <2>2 DEF Out, Mine, PanelTyped, Conns
  <2> QED BY <2>3, Zenon DEF PageInv, RowsOfSelected, FreshPage
<1>3. QueryInv'
  BY DEF QueryInv, PanelTyped, Conns
<1> QED BY <1>1, <1>2, <1>3, Zenon

(* A step of the server moves one connection to another state; the page     *)
(* stays, and a request of its own stays out.                               *)
LEMMA ServerKeepsPage ==
  ASSUME PanelTyped, PageInv, NEW i \in Reqs, UNCHANGED <<panelPage, reloads>>,
         \A j \in Reqs : j # i => conn'[j] = conn[j],
         conn[i].at \notin {"unused", "over"}, conn'[i].at # "unused",
         conn'[i].ticker = conn[i].ticker, conn'[i].load = conn[i].load,
         conn'[i].open = conn[i].open,
         conn[i].open => conn'[i].at # "over"
  PROVE  PageInv'
  BY DEF PageInv, RowsOfSelected, Out, Mine

(* _finish ends a query that has not ended, under a connection that waits. *)
LEMMA FinishStep ==
  ASSUME PanelInv, NEW i \in Reqs, NEW reply \in {"200", "404", "502"},
         Finish(i, reply), UNCHANGED <<configured, panelPage, reloads>>,
         conn[i].at \in {"sent", "querying"}, ordersQuery[i].at # "finished"
  PROVE  PanelInv'
<1> USE DEF PanelInv, Finish, Respond
<1>1. PanelTyped'
  <2>1. conn' \in [Reqs -> Conns]
    BY ZenonT(30) DEF PanelTyped, Conns, ConnStates
  <2>2. ordersQuery' \in [Reqs -> Queries]
    BY DEF PanelTyped, Queries, QueryStates
  <2> QED BY <2>1, <2>2, Zenon DEF PanelTyped
<1>2. PageInv'
  BY ServerKeepsPage, Zenon DEF PanelTyped, Conns
<1>3. QueryInv'
  BY DEF QueryInv, PanelTyped, Conns, Queries
<1> QED BY <1>1, <1>2, <1>3, Zenon

LEMMA OnRequestStep ==
  ASSUME PanelInv, NEW i \in Reqs, OnRequest(i)
  PROVE  PanelInv'
<1> USE DEF PanelInv, OnRequest
<1>1. CASE ~configured /\ Respond(i, "503") /\ UNCHANGED ordersQuery
  <2>1. PanelTyped'
    BY <1>1, ZenonT(30) DEF PanelTyped, Conns, ConnStates, Respond
  <2>2. PageInv'
    BY <1>1, ServerKeepsPage, Zenon DEF PanelTyped, Conns, Respond
  <2>3. QueryInv'
    BY <1>1, Zenon DEF QueryInv, PanelTyped, Conns, Respond
  <2> QED BY <2>1, <2>2, <2>3, Zenon
<1>2. CASE /\ ordersQuery' = [ordersQuery EXCEPT ![i] = Started]
           /\ conn' = [conn EXCEPT ![i].at = "querying"]
  <2>1. PanelTyped'
    <3>1. conn' \in [Reqs -> Conns]
      BY <1>2, Zenon DEF PanelTyped, Conns, ConnStates
    <3>2. ordersQuery' \in [Reqs -> Queries]
      BY <1>2, Zenon DEF PanelTyped, Queries, QueryStates, Started
    <3> QED BY <3>1, <3>2, Zenon DEF PanelTyped
  <2>2. PageInv'
    BY <1>2, ServerKeepsPage, Zenon DEF PanelTyped, Conns
  <2>3. QueryInv'
    BY <1>2, Zenon DEF QueryInv, PanelTyped, Conns, Started
  <2> QED BY <2>1, <2>2, <2>3, Zenon
<1>3. CASE Finish(i, "502")
  BY <1>3, FinishStep, Zenon DEF QueryInv
<1> QED BY <1>1, <1>2, <1>3, Zenon DEF HandleOrders

(* The request of a page that is gone: nobody waits for it. *)
LEMMA OnEofStep ==
  ASSUME PanelInv, NEW i \in Reqs, OnEof(i)
  PROVE  PanelInv'
<1> USE DEF PanelInv, OnEof
<1>1. PanelTyped'
  BY Zenon DEF PanelTyped, Conns, ConnStates
<1>2. PageInv'
  BY ServerKeepsPage DEF PanelTyped, Conns
<1>3. QueryInv'
  BY Zenon DEF QueryInv, PanelTyped, Conns
<1> QED BY <1>1, <1>2, <1>3, Zenon

LEMMA OnHttpWritableStep ==
  ASSUME PanelInv, NEW i \in Reqs, OnHttpWritable(i)
  PROVE  PanelInv'
<1> USE DEF PanelInv, OnHttpWritable
<1>1. PanelTyped'
  BY DEF PanelTyped, Conns, ConnStates
<1>2. PageInv'
  BY ServerKeepsPage DEF PanelTyped, Conns
<1>3. QueryInv'
  BY DEF QueryInv, PanelTyped, Conns
<1> QED BY <1>1, <1>2, <1>3, Zenon

(* A step of the query that does not end it. *)
LEMMA QueryGoesOn ==
  ASSUME PanelInv, NEW i \in Reqs, UNCHANGED <<configured, panelPage, conn, reloads>>,
         NEW q \in Queries, ordersQuery' = [ordersQuery EXCEPT ![i] = q],
         ordersQuery[i].at \in {"connecting", "reading"}, q.at = "reading",
         q.done = ordersQuery[i].done
  PROVE  PanelInv'
<1> USE DEF PanelInv
<1>1. PanelTyped'
  BY Zenon DEF PanelTyped
<1>2. PageInv'
  BY Zenon DEF PageInv, RowsOfSelected, Out, Mine
<1>3. QueryInv'
  BY Zenon DEF QueryInv, PanelTyped
<1> QED BY <1>1, <1>2, <1>3, Zenon

LEMMA OnQueryWritableStep ==
  ASSUME PanelInv, NEW i \in Reqs, OnQueryWritable(i)
  PROVE  PanelInv'
<1> USE DEF OnQueryWritable
<1>1. CASE Finish(i, "502")
  BY <1>1, FinishStep, Zenon DEF PanelInv, QueryInv
<1>2. CASE ordersQuery' = [ordersQuery EXCEPT ![i].at = "reading"] /\ UNCHANGED conn
  <2> DEFINE q == [ordersQuery[i] EXCEPT !.at = "reading"]
  <2>1. q \in Queries /\ q.at = "reading" /\ q.done = ordersQuery[i].done
    BY Zenon DEF PanelInv, PanelTyped, Queries, QueryStates
  <2>2. ordersQuery' = [ordersQuery EXCEPT ![i] = q]
    BY <1>2, Zenon DEF PanelInv, PanelTyped
  <2> HIDE DEF q
  <2> QED BY <1>2, <2>1, <2>2, QueryGoesOn, Zenon
<1> QED BY <1>1, <1>2, Zenon

LEMMA OnQueryReadableStep ==
  ASSUME PanelInv, NEW i \in Reqs, OnQueryReadable(i)
  PROVE  PanelInv'
<1> USE DEF OnQueryReadable
<1>1. ASSUME NEW reply \in {"200", "404", "502"}, Finish(i, reply)
      PROVE  PanelInv'
  BY <1>1, FinishStep, Zenon DEF PanelInv, QueryInv
<1>2. CASE ordersQuery' = [ordersQuery EXCEPT ![i].got = @ + 1] /\ UNCHANGED conn
  <2> DEFINE q == [ordersQuery[i] EXCEPT !.got = @ + 1]
  <2>1. q \in Queries /\ q.at = "reading" /\ q.done = ordersQuery[i].done
    BY DEF PanelInv, PanelTyped, Queries
  <2>2. ordersQuery' = [ordersQuery EXCEPT ![i] = q]
    BY <1>2, Zenon DEF PanelInv, PanelTyped
  <2> HIDE DEF q
  <2> QED BY <1>2, <2>1, <2>2, QueryGoesOn, Zenon
<1> QED BY <1>1, <1>2, Zenon DEF ParsedReplies

(* The timer runs only while the query does, so it never answers again. *)
LEMMA OnTimeoutStep ==
  ASSUME PanelInv, NEW i \in Reqs, OnTimeout(i)
  PROVE  PanelInv'
  BY FinishStep, Zenon DEF OnTimeout, PanelInv, QueryInv

(* The invariant is inductive. *)
LEMMA NextPanelInv == OrdersPanelAssumption /\ PanelInv /\ [PanelNext]_panelVars => PanelInv'
<1> SUFFICES ASSUME OrdersPanelAssumption, PanelInv, [PanelNext]_panelVars
             PROVE  PanelInv'
  BY Zenon
<1>1. CASE UNCHANGED panelVars
  BY <1>1, Zenon DEF panelVars, PanelInv, PanelTyped, PageInv, QueryInv, RowsOfSelected, Out, Mine
<1>2. CASE PanelNext
  BY <1>2, SelectTickerStep, ClickStep, OnReplyStep, OnFailureStep, ReloadStep,
     OnRequestStep, OnEofStep, OnHttpWritableStep, OnTimeoutStep,
     OnQueryWritableStep, OnQueryReadableStep, Zenon DEF PanelNext, ServeRequest
<1> QED BY <1>1, <1>2, Zenon

LEMMA PanelInvariance == ASSUME OrdersPanelAssumption PROVE PanelSpec => []PanelInv
  BY InitPanelInv, NextPanelInv, PTL DEF PanelSpec

(* The table never shows another ticker's orders (static_page.py            *)
(* refreshOrders), for any tickers and any number of requests, selections   *)
(* and reloads.                                                             *)
THEOREM RowsAreOfSelected ==
  ASSUME OrdersPanelAssumption PROVE PanelSpec => []RowsOfSelected
<1>1. PanelInv => RowsOfSelected
  BY Zenon DEF PanelInv, PageInv
<1> QED BY <1>1, PanelInvariance, PTL

(* Every request is answered exactly once (dbquery_client.py _finish),      *)
(* whatever the order of replies, failures and timeouts.                    *)
THEOREM QueriesAnsweredOnce ==
  ASSUME OrdersPanelAssumption PROVE PanelSpec => []AnsweredOnce
<1>1. PanelInv => AnsweredOnce
  BY DEF PanelInv, QueryInv, AnsweredOnce
<1> QED BY <1>1, PanelInvariance, PTL
=============================================================================
