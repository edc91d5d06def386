----------------------------- MODULE FhDbProofs -----------------------------
(***************************************************************************)
(* What holds of FhDb for every stream, both bootstrap modes and any       *)
(* number of crashes and timeouts.  TypeOK /\ Inv is inductive (the lemmas *)
(* of FhDbSteps), and the theorems follow from it.                         *)
(***************************************************************************)
EXTENDS FhDbSteps, FiniteSetTheorems

(* Both processes start with nothing.                                      *)
LEMMA InitInv ==
  ASSUME Init, FhDbAssumption
  PROVE  TypeOK /\ Inv
<1>1. stream \in Seq(Kinds) /\ Len(stream) \in Nat
  BY DEF Init, FhDbAssumption
<1>2. FhTypeOK
  <2>1. 0 \in 0..Len(stream) /\ 1 \in 1..(Len(stream) + 1)
    BY <1>1
  <2> QED BY <2>1, Zenon DEF Init, FhTypeOK
<1>3. DbTypeOK
  <2>1. 0 \in 0..Len(stream)
    BY <1>1
  <2> QED BY <2>1, Zenon DEF Init, DbTypeOK
<1>4. LinkTypeOK
  <2>1. q \in Seq(Records(RecordOps))
    BY DEF Init
  <2> QED BY <1>1, <2>1, CtlType, Zenon DEF Init, LinkTypeOK
<1>5. EnvTypeOK
  BY <1>1 DEF Init, EnvTypeOK, FhDbAssumption
<1>6. FhInv /\ DbInv /\ LinkInv /\ AskInv /\ FlowInv
  BY Zenon DEF Init, FhInv, Running, DbInv, LinkInv, AskInv, FlowInv, NoReply, Ctl, Rec
<1>7. QueueInv
  BY ShortQueues, Zenon DEF Init, QueueInv
<1> QED BY <1>2, <1>3, <1>4, <1>5, <1>6, <1>7, Zenon DEF TypeOK, Inv

(* Every step of either process keeps the invariant.                       *)
LEMMA NextInv ==
  ASSUME TypeOK, Inv, [Next]_vars, FhDbAssumption
  PROVE  TypeOK' /\ Inv'
<1>1. CASE FhStep
  BY <1>1, StartStep, StartupLost, StartupCold, GetStateStep, RecoverStep,
     QuietSteps, PublishStep, RedialSteps, ExitSteps, Zenon
  DEF FhStep
<1>2. CASE DbStep
  BY <1>2, AcceptHangup, Answers, ResetBegin, SyncRows, SyncEnd, UpdateStep,
     DbDown, Zenon
  DEF DbStep
<1>3. CASE FhCrash \/ DbCrash
  BY <1>3, ExitSteps, DbDown, Zenon
<1>4. CASE UNCHANGED vars
  <2>1. UNCHANGED <<dbFrame, metaVars, dbUp, inSync, conn, q, reply, link>>
    BY <1>4, Zenon DEF vars, fhVars, dbVars, envVars, dbFrame, metaVars
  <2>2. FhTypeOK' /\ EnvTypeOK' /\ FhInv' /\ stream' = stream
    BY <2>1, FhUntouched, Zenon
  <2>3. DbTypeOK' /\ DbInv' /\ \A r : Fits(r)' = Fits(r)
    BY <2>1, <2>2, DbUntouched, Zenon
  <2>4. LinkTypeOK'
    BY <2>1, <2>2, SameStream, Zenon DEF TypeOK, LinkTypeOK
  <2>5. LinkInv' /\ AskInv' /\ FlowInv'
    BY <2>1, <2>2, SameStream, Zenon
    DEF Inv, LinkInv, AskInv, FlowInv, UpToDate, dbFrame, metaVars
  <2>6. QueueInv'
    BY <2>1, <2>2, <2>3, SameStream, Zenon DEF Inv, QueueInv
  <2> QED BY <2>2, <2>3, <2>4, <2>5, <2>6, Zenon DEF TypeOK, Inv
<1> QED BY <1>1, <1>2, <1>3, <1>4, Zenon DEF Next

(* jnxfh and jnxdb keep their types and the inductive invariant, whatever   *)
(* crashes, restarts and socket timeouts happen in whatever order.          *)
THEOREM Invariance == Spec => [](TypeOK /\ Inv)
<1>1. Init => TypeOK /\ Inv
  BY InitInv, FhDbAssumption, Zenon
<1>2. TypeOK /\ Inv /\ [Next]_vars => (TypeOK /\ Inv)'
  BY NextInv, FhDbAssumption, Zenon
<1> QED BY <1>1, <1>2, PTL DEF Spec

(* Recovery neither skips nor repeats a message: the market of a running    *)
(* feed handler is exactly the stream up to its next message (main(),       *)
(* recover_from_db).                                                        *)
THEOREM MarketIsExact == Spec => []MarketExact
<1>1. TypeOK /\ Inv => MarketExact
  BY Zenon DEF Inv, FhInv, MarketExact
<1> QED BY <1>1, Invariance, PTL

(* The position the DB reports is the position its tables are at, and a DB  *)
(* without an epoch outside a sync bracket is empty (ingest.cpp,            *)
(* tables.cpp).                                                             *)
THEOREM MirrorIsPrefix == Spec => []MirrorPrefix
<1>1. TypeOK /\ Inv => MirrorPrefix
  BY Zenon DEF Inv, DbInv, MirrorPrefix
<1> QED BY <1>1, Invariance, PTL

(* apply_update's dup guard never drops a record: jnxfh never sends what    *)
(* the DB already has.                                                      *)
THEOREM NoDuplicates == Spec => []NoDuplicateUpdates
<1>1. ASSUME TypeOK, Inv, q # <<>>, Head(q).op = "UPDATE"
      PROVE  ~IsDuplicate(Head(q))
  <2>1. Head(q) = q[1] /\ q[1] \in Records(RecordOps)
    BY <1>1, HandleOne, Zenon DEF TypeOK, LinkTypeOK, Inv, QueueInv
  <2>2. dbLast < q[1].n /\ q[1].n \in Nat /\ dbLast \in Nat
    BY <1>1, <2>1
    DEF Inv, QueueInv, Fits, Successor, Records, TypeOK, DbTypeOK
  <2> QED BY <2>1, <2>2 DEF IsDuplicate
<1>2. TypeOK /\ Inv => NoDuplicateUpdates
  BY <1>1, Zenon DEF NoDuplicateUpdates
<1> QED BY <1>2, Invariance, PTL

(* A connected pair that has nothing under way agrees on epoch and content. *)
THEOREM DrainedIsSynced == Spec => []DrainedMeansSynced
<1>1. TypeOK /\ Inv => DrainedMeansSynced
  BY Zenon DEF Inv, FlowInv, FhInv, DbInv, Running, UpToDate, DrainedMeansSynced
<1> QED BY <1>1, Invariance, PTL

-----------------------------------------------------------------------------
(* Refinement *)

(* What the mirror shows is decided by the tables and their epoch.         *)
LEMMA SameView ==
  ASSUME UNCHANGED <<rows, dbEpoch, stream>>
  PROVE  UNCHANGED <<stream, View>>
  BY SameStream, Zenon DEF View

(* Each step of the DB is a step of the mirror or leaves it alone.         *)
LEMMA DbSimulates ==
  ASSUME TypeOK, Inv, DbStep \/ DbCrash
  PROVE  [M!MirrorNext]_<<stream, View>>
<1>1. stream' = stream
  BY Zenon DEF DbStep, DbAccept, DbHangup, DbHello, DbGetState, DbReset, DbSyncBegin,
     DbSyncRows, DbSyncEnd, DbUpdate, DbStart, DbCrash, dbFrame, envVars
<1>2. /\ Of({"X"})' = Of({"X"}) /\ \A n : Book(n)' = Book(n)
  BY <1>1, SameStream, Zenon
<1>3. \A n : M!Prefix(n) = Book(n)
  BY Zenon DEF M!Prefix, Book, UpTo, Of
<1>4. View' = {} => M!MirrorNext
  BY <1>1, Zenon DEF M!MirrorNext, M!Lose
<1>5. CASE DbAccept \/ DbHangup \/ DbReset \/ DbCrash
  <2>1. UNCHANGED <<rows, dbEpoch>> \/ dbEpoch' = 0
    BY <1>5, Zenon
    DEF DbAccept, DbHangup, DropConnection, DbReset, DbCrash, Wipe, metaVars
  <2> QED BY <1>1, <1>4, <2>1, SameView, Zenon DEF View
<1>6. CASE DbHello \/ DbGetState \/ DbSyncBegin \/ DbStart
  BY <1>1, <1>6, SameView, Zenon
  DEF DbHello, DbGetState, DbSyncBegin, DbStart, metaVars
<1>7. CASE DbSyncRows
  <2>1. dbEpoch' = 0
    BY <1>1, <1>7, HandleFrame, Zenon DEF DbSyncRows, Fits, Inv, DbInv
  <2> QED BY <1>4, <2>1, Zenon DEF View
<1>8. CASE DbSyncEnd
  <2>1. /\ Head(q) = q[1] /\ q[1] \in Records(RecordOps) /\ q[1].op = "SYNC_END"
        /\ Fits(q[1])
    BY <1>1, <1>8, HandleFrame, Zenon DEF DbSyncEnd
  <2>2. inSync /\ dbEpoch = 0 /\ rows \cap Of({"X"}) = Book(q[1].n)
    BY <2>1, Zenon DEF Fits, Inv, DbInv
  <2>3. rows' = rows /\ dbEpoch' = q[1].e
    BY <1>8, <2>1, <2>2, Zenon DEF DbSyncEnd
  <2>4. View = {} /\ View' \in {{}, Book(q[1].n)}
    BY <1>2, <2>2, <2>3, Zenon DEF View
  <2>5. q[1].n \in 0..Len(stream)
    BY <2>1, Zenon DEF Records
  <2>6. View' = Book(q[1].n) => M!MirrorNext
    BY <1>1, <1>3, <2>4, <2>5, Zenon DEF M!MirrorNext, M!Load
  <2> QED BY <1>4, <2>4, <2>6, Zenon
<1>9. CASE DbUpdate
  <2>1. /\ Head(q) = q[1] /\ q[1] \in Records(RecordOps) /\ q[1].op = "UPDATE"
        /\ Fits(q[1]) /\ q # <<>>
    BY <1>1, <1>9, HandleFrame, Zenon DEF DbUpdate, Handle
  <2>2. /\ q[1].n \in 0..Len(stream) /\ Len(stream) \in Nat /\ dbLast \in Nat
        /\ q[1].e # 0 /\ q[1].c = {q[1].n} \cap Of({"X"})
    <3>1. Len(q) \in Nat /\ Len(q) >= 1
      BY <2>1 DEF TypeOK, LinkTypeOK
    <3> QED BY <2>1, <3>1
            DEF Inv, QueueInv, WellFormed, Records, TypeOK, DbTypeOK, EnvTypeOK
  <2>3. /\ ~inSync /\ q[1].e = dbEpoch /\ dbLast < q[1].n
        /\ Book(q[1].n) = Book(dbLast) \cup q[1].c
        /\ rows \cap Of({"X"}) = Book(dbLast)
    BY <2>1, <2>2, Zenon DEF Fits, Successor, Inv, DbInv
  <2>4. ~IsDuplicate(Head(q))
    BY <2>1, <2>2, <2>3 DEF IsDuplicate
  <2>5. rows' = rows \cup q[1].c /\ dbEpoch' = q[1].e
    BY <1>9, <2>1, <2>3, <2>4, Zenon DEF DbUpdate
  <2>6. View = Book(dbLast) /\ View' = Book(q[1].n)
    BY <1>2, <2>2, <2>3, <2>5, Zenon DEF View
  <2>7. CASE q[1].n \notin Of({"X"})
    BY <1>1, <2>2, <2>3, <2>6, <2>7, Zenon
  <2>8. CASE q[1].n \in Of({"X"})
    <3>1. q[1].n \in 1..Len(stream) /\ stream[q[1].n] = "X"
      BY <2>8, Zenon DEF Of
    <3>2. Book(q[1].n - 1) = Book(dbLast)
      <4>1. q[1].n \notin Book(dbLast) /\ q[1].n \notin Book(q[1].n - 1)
        BY <2>2, <2>3 DEF Book, UpTo
      <4>2. Book(q[1].n) = Book(q[1].n - 1) \cup {q[1].n}
        BY <2>2, <2>8, <3>1, BookStep
      <4>3. Book(q[1].n) = Book(dbLast) \cup {q[1].n}
        BY <2>2, <2>3, <2>8, Zenon
      <4> QED BY <4>1, <4>2, <4>3
    <3>3. M!Follow
      BY <1>3, <2>6, <3>1, <3>2, Zenon DEF M!Follow
    <3> QED BY <1>1, <3>3, Zenon DEF M!MirrorNext
  <2> QED BY <2>7, <2>8, Zenon
<1> QED BY <1>5, <1>6, <1>7, <1>8, <1>9, Zenon DEF DbStep

(* The feed handler does not touch the tables.                             *)
LEMMA FhSimulates ==
  ASSUME FhStep \/ FhCrash \/ UNCHANGED vars
  PROVE  UNCHANGED <<stream, View>>
<1>1. UNCHANGED <<rows, dbEpoch, stream>>
  BY Zenon DEF FhStep, FhStart, FhHelloLost, FhGetState, FhHelloEmpty, FhRecover,
     FhRecoverBlank, FhRecoverFail, FhRehello, FhRehelloLost, FhLogin,
     FhDecodeError, FhClock, FhPublish, FhMcast, FhTimer, FhRedial,
     FhRedialLost, FhEnd, FhCrash, startupFrame, liveFrame, metaVars, vars,
     fhVars, dbVars, envVars
<1> QED BY <1>1, SameView, Zenon

(* jnxdb, as fed by a feed handler that may die at any time, implements the *)
(* mirror: readers only ever see nothing or a prefix of the stream, which   *)
(* grows by one message at a time.                                          *)
THEOREM MirrorImplemented == Spec => MirrorRefined
<1>1. Init => M!MirrorInit
  BY Zenon DEF Init, M!MirrorInit, View
<1>2. TypeOK /\ Inv /\ [Next]_vars => [M!MirrorNext]_<<stream, View>>
  BY DbSimulates, FhSimulates, Zenon DEF Next
<1> QED
  BY <1>1, <1>2, Invariance, PTL DEF Spec, MirrorRefined, M!MirrorSpec

-----------------------------------------------------------------------------
(* What the multicast misses *)

(* Positions that are multicast, or will be before anything else happens. *)
Soon == IF pc = "mcast" THEN mcast \cup {next - 1} ELSE mcast
Missing(n) == UpTo(Published, n) \ Soon

(* Every position that a present or a recovered jnxfh continues from: its   *)
(* own, and what the DB has, is told, or has told.                          *)
Reported ==
  {dbLast, reply.n} \cup {q[i].n : i \in 1..Len(q)}
  \cup (IF Running THEN {next - 1} ELSE {})

GapInv ==
  "glimpse" \notin Bootstraps =>
    \A n \in Reported : Cardinality(Missing(n)) <= fhCrashes

(* Missing positions are finitely many, more of them further on.            *)
LEMMA MissingGrows ==
  ASSUME TypeOK, NEW m \in Nat, NEW n \in Nat, n <= m
  PROVE  /\ IsFiniteSet(Missing(m)) /\ Cardinality(Missing(m)) \in Nat
         /\ Missing(n) \subseteq Missing(m)
<1>1. Len(stream) \in Nat
  BY DEF TypeOK, EnvTypeOK
<1>2. IsFiniteSet(1..Len(stream))
  BY <1>1, FS_Interval
<1>3. Missing(m) \in SUBSET (1..Len(stream))
  BY Zenon DEF Missing, UpTo, Of
<1>4. Missing(n) \subseteq Missing(m)
  BY DEF Missing, UpTo, Of
<1> QED BY <1>2, <1>3, <1>4, FS_Subset, FS_CardinalityType, Zenon

(* Nothing is missing before the first message.                             *)
LEMMA NothingMissing == Missing(0) = {}
BY DEF Missing, UpTo, Of

(* Reported positions are positions.                                        *)
LEMMA ReportedType ==
  ASSUME TypeOK
  PROVE  Reported \subseteq Nat
<1>1. Len(stream) \in Nat
  BY DEF TypeOK, EnvTypeOK
<1>2. dbLast \in Nat /\ next - 1 \in Nat
  BY <1>1 DEF TypeOK, DbTypeOK, FhTypeOK
<1>3. reply.n \in Nat
  BY <1>1 DEF TypeOK, LinkTypeOK, Records
<1>4. \A r \in Records(RecordOps) : r.n \in Nat
  BY <1>1 DEF Records
<1>5. \A i \in 1..Len(q) : q[i] \in Records(RecordOps)
  BY DEF TypeOK, LinkTypeOK
<1> QED BY <1>2, <1>3, <1>4, <1>5, Zenon DEF Reported

(* A step keeps the gap if, of the positions it reports, none misses more   *)
(* than one reported before.                                                *)
LEMMA GapKept ==
  ASSUME TypeOK, GapInv, stream' = stream, fhCrashes' = fhCrashes, FhDbAssumption,
         "glimpse" \notin Bootstraps =>
           \A n \in Reported' : \/ Missing(n)' = {}
                                \/ \E m \in Reported : Missing(n)' \subseteq Missing(m)
  PROVE  GapInv'
<1> SUFFICES ASSUME "glimpse" \notin Bootstraps, NEW n \in Reported'
             PROVE  Cardinality(Missing(n)') <= fhCrashes
  BY Zenon DEF GapInv
<1>0. fhCrashes \in Nat
  BY DEF TypeOK, EnvTypeOK, FhDbAssumption
<1>1. CASE Missing(n)' = {}
  BY <1>0, <1>1, FS_EmptySet
<1>2. CASE \E m \in Reported : Missing(n)' \subseteq Missing(m)
  <2>1. PICK m \in Reported : Missing(n)' \subseteq Missing(m)
    BY <1>2, Zenon
  <2>2. m \in Nat /\ Cardinality(Missing(m)) <= fhCrashes
    BY <2>1, ReportedType, Zenon DEF GapInv
  <2>3. IsFiniteSet(Missing(m)) /\ Cardinality(Missing(m)) \in Nat
    BY <2>2, MissingGrows
  <2>4. IsFiniteSet(Missing(n)')
        /\ Cardinality(Missing(n)') <= Cardinality(Missing(m))
    BY <2>1, <2>3, FS_Subset, Zenon
  <2>5. Cardinality(Missing(n)') \in Nat
    BY <2>4, FS_CardinalityType, Zenon
  <2> QED BY <1>0, <2>2, <2>3, <2>4, <2>5
<1> QED BY <1>1, <1>2, Zenon

(* A position no further than a reported one. *)
Behind(n) == n = 0 \/ \E m \in Reported : n \in 0..m

(* Nothing more is missing at a position behind a reported one.             *)
LEMMA BehindMisses ==
  ASSUME TypeOK, stream' = stream, Soon \subseteq Soon', NEW n, Behind(n)
  PROVE  Missing(n)' = {} \/ \E m \in Reported : Missing(n)' \subseteq Missing(m)
<1>1. Missing(n)' \subseteq Missing(n)
  BY Zenon DEF Missing, UpTo, Of, Published
<1>2. CASE n = 0
  BY <1>1, <1>2, NothingMissing, Zenon
<1>3. ASSUME NEW m \in Reported, n \in 0..m
      PROVE  Missing(n)' \subseteq Missing(m)
  <2>1. m \in Nat
    BY ReportedType, Zenon
  <2>2. n \in Nat /\ n <= m
    BY <1>3, <2>1
  <2> QED BY <1>1, <2>1, <2>2, MissingGrows, Zenon
<1> QED BY <1>2, <1>3, Zenon DEF Behind

(* A step that reports no position beyond those reported keeps the gap.     *)
LEMMA GapKeptBehind ==
  ASSUME TypeOK, GapInv, stream' = stream, fhCrashes' = fhCrashes, FhDbAssumption,
         Soon \subseteq Soon',
         Behind(dbLast'), Behind(reply'.n),
         "glimpse" \notin Bootstraps => \A i \in 1..Len(q') : Behind(q'[i].n),
         Running' /\ "glimpse" \notin Bootstraps => Behind(next' - 1)
  PROVE  GapInv'
<1>1. "glimpse" \notin Bootstraps => \A n \in Reported' : Behind(n)
  BY Zenon DEF Reported
<1> QED BY <1>1, BehindMisses, GapKept, Zenon

(* What is reported is behind what is reported.                             *)
LEMMA BehindNow ==
  ASSUME TypeOK
  PROVE  /\ Behind(0) /\ Behind(dbLast) /\ Behind(reply.n)
         /\ \A i \in 1..Len(q) : Behind(q[i].n)
         /\ Running => Behind(next - 1)
         /\ Running /\ last < next => Behind(last)
<1>1. \A n \in Reported : n \in 0..n
  BY ReportedType
<1>2. Behind(0) /\ Behind(dbLast) /\ Behind(reply.n)
      /\ (\A i \in 1..Len(q) : Behind(q[i].n))
      /\ (Running => Behind(next - 1))
  BY <1>1, Zenon DEF Behind, Reported
<1>3. ASSUME Running, last < next PROVE Behind(last)
  <2>1. last \in Nat /\ next \in Nat
    BY DEF TypeOK, EnvTypeOK, FhTypeOK
  <2>2. last \in 0..(next - 1)
    BY <1>3, <2>1
  <2> QED BY <1>3, <2>2, Zenon DEF Behind, Reported
<1> QED BY <1>2, <1>3, Zenon

(* Records that are sent follow those under way, all of them or some.       *)
LEMMA SentPositions ==
  ASSUME TypeOK, NEW R, NEW recs \in Seq(R), NEW k \in 0..Len(recs),
         q' = q \o SubSeq(recs, 1, k), NEW i \in 1..Len(q')
  PROVE  \/ \E j \in 1..Len(q) : q'[i].n = q[j].n
         \/ \E j \in 1..Len(recs) : q'[i].n = recs[j].n
<1>1. q \in Seq(Records(RecordOps))
  BY Zenon DEF TypeOK, LinkTypeOK
<1>2. SubSeq(recs, 1, k) \in Seq(R) /\ Len(SubSeq(recs, 1, k)) = k
      /\ \A j \in 1..k : SubSeq(recs, 1, k)[j] = recs[j]
  OBVIOUS
<1>3. Len(q') = Len(q) + k /\ Len(q) \in Nat /\ k \in Nat /\ i \in Nat
  BY <1>1, <1>2
<1>4. CASE i <= Len(q)
  <2>1. i \in 1..Len(q) /\ q'[i] = q[i]
    BY <1>1, <1>2, <1>3, <1>4
  <2> QED BY <2>1, Zenon
<1>5. CASE i > Len(q)
  <2> DEFINE j == i - Len(q)
  <2>1. q'[i] = SubSeq(recs, 1, k)[j] /\ j \in 1..k
    BY <1>1, <1>2, <1>3, <1>5
  <2>2. j \in 1..Len(recs)
    BY <1>3, <2>1
  <2> HIDE DEF j
  <2> QED BY <1>2, <2>1, <2>2, Zenon
<1>6. i <= Len(q) \/ i > Len(q)
  BY <1>3
<1> QED BY <1>4, <1>5, <1>6, Zenon

(* The positions on the connection after a send of recs, whether it went    *)
(* through, stalled or failed.                                              *)
LEMMA SendPositions ==
  ASSUME TypeOK, NEW R, NEW recs \in Seq(R), recs # <<>>, Send(recs)
  PROVE  /\ reply'.n = 0
         /\ \A i \in 1..Len(q') : \/ \E j \in 1..Len(q) : q'[i].n = q[j].n
                                  \/ \E j \in 1..Len(recs) : q'[i].n = recs[j].n
<1>1. reply' = NoReply
  BY Zenon DEF Send, SendOk, SendBroken, SendStalled, CloseLink
<1>2. Len(recs) \in Nat /\ recs = SubSeq(recs, 1, Len(recs)) /\ Len(recs) >= 1
  OBVIOUS
<1>3. CASE SendBroken
  BY <1>1, <1>3, Zenon DEF SendBroken, NoReply, Ctl, Rec
<1>4. CASE \E k \in 0..Len(recs) : q' = q \o SubSeq(recs, 1, k)
  BY <1>1, <1>4, SentPositions, Zenon DEF NoReply, Ctl, Rec
<1>5. CASE SendOk(recs)
  <2>1. q' = q \o SubSeq(recs, 1, Len(recs)) /\ Len(recs) \in 0..Len(recs)
    BY <1>2, <1>5 DEF SendOk
  <2> QED BY <1>4, <2>1, Zenon
<1>6. CASE SendStalled(recs)
  <2>1. PICK k \in 0..(Len(recs) - 1) : q' = q \o SubSeq(recs, 1, k)
    BY <1>6, Zenon DEF SendStalled
  <2>2. k \in 0..Len(recs)
    BY <1>2
  <2> QED BY <1>4, <2>1, <2>2, Zenon
<1> QED BY <1>3, <1>5, <1>6, Zenon DEF Send

(* A sync dump names one position.                                          *)
LEMMA DumpPositions ==
  ASSUME NEW m, NEW n, NEW e, NEW known
  PROVE  /\ \E R : SyncDump(m, n, e, known) \in Seq(R)
         /\ SyncDump(m, n, e, known) # <<>>
         /\ \A j \in 1..Len(SyncDump(m, n, e, known)) :
               SyncDump(m, n, e, known)[j].n \in {0, n}
<1> DEFINE a == Ctl("RESET")
<1> DEFINE b == Ctl("SYNC_BEGIN")
<1> DEFINE c == Rec("ROWS", 0, 0, FALSE, m \cap Of({"L", "X"}))
<1> DEFINE d == Rec("SYNC_END", n, e, known, {})
<1>1. a.n = 0 /\ b.n = 0 /\ c.n = 0 /\ d.n = n
  BY Zenon DEF Ctl, Rec
<1>2. SyncDump(m, n, e, known) = <<a, b, c, d>>
  BY Zenon DEF SyncDump
<1> HIDE DEF a, b, c, d
<1>3. <<a, b, c, d>> \in Seq({a, b, c, d})
  OBVIOUS
<1>4. <<a, b, c, d>> # <<>>
  BY Zenon
<1>5. \A j \in 1..Len(<<a, b, c, d>>) : <<a, b, c, d>>[j] \in {a, b, c, d}
  BY <1>3
<1> QED BY <1>1, <1>2, <1>3, <1>4, <1>5, Zenon


(* jnxdb reports what it was told.                                          *)
LEMMA DbGap ==
  ASSUME TypeOK, Inv, GapInv, DbStep \/ DbCrash, FhDbAssumption
  PROVE  GapInv'
<1> USE BehindNow
<1>1. UNCHANGED <<pc, next, mcast, stream, fhCrashes>>
  BY Zenon DEF DbStep, DbCrash, DbAccept, DbHangup, DbHello, DbGetState, DbReset,
         DbSyncBegin, DbSyncRows, DbSyncEnd, DbUpdate, DbStart, dbFrame, envVars
<1>2. Soon' = Soon /\ Running' = Running
  BY <1>1, Zenon DEF Soon, Running
<1>3. q \in Seq(Records(RecordOps))
  BY Zenon DEF TypeOK, LinkTypeOK
<1>4. ASSUME NEW op, Handle(op)
      PROVE  Behind(Head(q).n) /\ \A i \in 1..Len(q') : Behind(q'[i].n)
  <2>1. q # <<>> /\ Head(q) = q[1] /\ q' = Tail(q) /\ 1 \in 1..Len(q)
    BY <1>3, <1>4 DEF Handle
  <2>2. \A i \in 1..Len(Tail(q)) : Tail(q)[i] = q[i + 1] /\ i + 1 \in 1..Len(q)
    BY <1>3, <2>1
  <2> QED BY <2>1, <2>2, Zenon
<1>5. Behind(NoReply.n) /\ Ctl("HELLO").n = 0
  BY Zenon DEF NoReply, Ctl, Rec
<1>6. Wipe => dbLast' = 0
  BY Zenon DEF Wipe
<1>7. DropConnection => dbLast' \in {0, dbLast}
  BY <1>6, Zenon DEF DropConnection, metaVars
<1>8. CASE DbAccept
  <2>1. \A i \in 1..Len(q') : q'[i].n = 0
    BY <1>5, <1>8 DEF DbAccept
  <2>2. dbLast' \in {0, dbLast} /\ reply' = reply
    BY <1>7, <1>8, Zenon DEF DbAccept
  <2> QED BY <1>1, <1>2, <2>1, <2>2, GapKeptBehind, Zenon
<1>9. CASE DbHangup
  <2>1. q' = <<>> /\ dbLast' \in {0, dbLast} /\ reply' = reply
    BY <1>7, <1>9, Zenon DEF DbHangup
  <2> QED BY <1>1, <1>2, <2>1, GapKeptBehind
<1>10. CASE DbHello \/ DbGetState
  <2>1. reply'.n = dbLast /\ dbLast' = dbLast
    BY <1>10 DEF DbHello, DbGetState, Rec, metaVars
  <2>2. \A i \in 1..Len(q') : Behind(q'[i].n)
    BY <1>4, <1>10, Zenon DEF DbHello, DbGetState
  <2> QED BY <1>1, <1>2, <2>1, <2>2, GapKeptBehind, Zenon
<1>11. CASE DbReset \/ DbSyncBegin \/ DbSyncRows \/ DbSyncEnd \/ DbUpdate
  <2>1. PICK op : Handle(op)
    BY <1>11, Zenon DEF DbReset, DbSyncBegin, DbSyncRows, DbSyncEnd, DbUpdate
  <2>2. dbLast' \in {0, dbLast, Head(q).n} /\ reply' = reply
    BY <1>6, <1>11, Zenon
    DEF DbReset, DbSyncBegin, DbSyncRows, DbSyncEnd, DbUpdate, metaVars
  <2>3. Behind(dbLast')
    BY <1>4, <2>1, <2>2, Zenon
  <2> QED BY <1>1, <1>2, <1>4, <2>1, <2>2, <2>3, GapKeptBehind, Zenon
<1>12. CASE DbStart
  <2>1. UNCHANGED <<dbLast, q, reply>>
    BY <1>12, Zenon DEF DbStart, metaVars
  <2> QED BY <1>1, <1>2, <2>1, GapKeptBehind, Zenon
<1>13. CASE DbCrash
  <2>1. q' = <<>> /\ dbLast' = 0 /\ reply' \in {reply, NoReply}
    BY <1>6, <1>13, Zenon DEF DbCrash
  <2> QED BY <1>1, <1>2, <1>5, <2>1, GapKeptBehind
<1> QED BY <1>8, <1>9, <1>10, <1>11, <1>12, <1>13, Zenon DEF DbStep

(* A feed handler that starts cold by replay reports position 0, and pushes *)
(* nothing else to the DB.                                                  *)
LEMMA ColdGap ==
  ASSUME TypeOK, Inv, GapInv, ~Running, pc' = "live", ColdStart,
         UNCHANGED <<mcast, stream, fhCrashes, metaVars>>, FhDbAssumption,
         \/ UNCHANGED q /\ reply' = NoReply
         \/ \E e, k : Send(SyncDump(market', last', e, k))
  PROVE  GapInv'
<1>1. "glimpse" \notin Bootstraps => last' = 0 /\ next' = 1
  BY Zenon DEF ColdStart, FhDbAssumption
<1>2. Soon' = Soon /\ dbLast' = dbLast
  BY Zenon DEF Soon, Running, metaVars
<1>3. NoReply.n = 0
  BY Zenon DEF NoReply, Ctl, Rec
<1>4. Behind(reply'.n) /\ ("glimpse" \notin Bootstraps =>
                             \A i \in 1..Len(q') : Behind(q'[i].n))
  <2>1. CASE UNCHANGED q /\ reply' = NoReply
    BY <1>3, <2>1, BehindNow, Zenon
  <2>2. ASSUME NEW e, NEW k, Send(SyncDump(market', last', e, k))
        PROVE  Behind(reply'.n) /\ ("glimpse" \notin Bootstraps =>
                             \A i \in 1..Len(q') : Behind(q'[i].n))
    <3> DEFINE s == SyncDump(market', last', e, k)
    <3>1. PICK R : s \in Seq(R)
      BY DumpPositions, Zenon
    <3>2. s # <<>> /\ \A j \in 1..Len(s) : s[j].n \in {0, last'}
      BY DumpPositions, Zenon
    <3> HIDE DEF s
    <3>3. /\ reply'.n = 0
          /\ \A i \in 1..Len(q') : \/ \E j \in 1..Len(q) : q'[i].n = q[j].n
                                   \/ \E j \in 1..Len(s) : q'[i].n = s[j].n
      BY <2>2, <3>1, <3>2, SendPositions, Zenon DEF s
    <3> QED BY <1>1, <3>2, <3>3, BehindNow, Zenon
  <2> QED BY <2>1, <2>2, Zenon
<1>5. Running' /\ "glimpse" \notin Bootstraps => Behind(next' - 1)
  BY <1>1, BehindNow
<1> QED BY <1>2, <1>4, <1>5, BehindNow, GapKeptBehind, Zenon

(* Startup reports what the DB told, or nothing.                            *)
LEMMA StartupGap ==
  ASSUME TypeOK, Inv, GapInv, FhDbAssumption,
         \/ FhStart \/ FhHelloLost \/ FhGetState \/ FhHelloEmpty \/ FhRecover
         \/ FhRecoverBlank \/ FhRecoverFail \/ FhRehello \/ FhRehelloLost
  PROVE  GapInv'
<1>1. /\ pc \in {"down", "hello", "dump", "rehello"} /\ ~Running
      /\ UNCHANGED <<mcast, stream, fhCrashes, metaVars>>
  BY Zenon DEF FhStart, FhHelloLost, FhGetState, FhHelloEmpty, FhRecover, Running,
         FhRecoverBlank, FhRecoverFail, FhRehello, FhRehelloLost, startupFrame
<1>2. NoReply.n = 0 /\ dbLast' = dbLast
  BY <1>1, Zenon DEF NoReply, Ctl, Rec, metaVars
<1>3. CASE ColdNoDb \/ ColdWithDb
  <2>1. \/ UNCHANGED q /\ reply' = NoReply
        \/ \E e, k : Send(SyncDump(market', last', e, k))
    BY <1>3, Zenon DEF ColdNoDb, ColdWithDb, CloseLink
  <2> QED BY <1>1, <1>3, <2>1, ColdGap, Zenon DEF ColdNoDb, ColdWithDb
<1>4. CASE FhGetState
  <2>1. pc' = "dump" /\ reply' = NoReply
        /\ q' = IF link = "live" THEN Append(q, Ctl("GET_STATE")) ELSE q
    BY <1>4, Zenon DEF FhGetState
  <2>2. Soon' = Soon /\ ~Running'
    BY <1>1, <2>1, Zenon DEF Soon, Running
  <2>3. q = <<>> /\ Ctl("GET_STATE").n = 0
    BY <1>4, Answered, Zenon DEF FhGetState, Ctl, Rec
  <2>4. \A i \in 1..Len(q') : Behind(q'[i].n)
    BY <2>1, <2>3, BehindNow
  <2> QED BY <1>1, <1>2, <2>1, <2>2, <2>4, BehindNow, GapKeptBehind, Zenon
<1>5. CASE FhRecover
  <2>1. pc' = "live" /\ reply' = NoReply /\ next' = reply.n + 1 /\ q' = q
    BY <1>5, Zenon DEF FhRecover
  <2>2. Soon' = Soon
    BY <1>1, <2>1, Zenon DEF Soon
  <2>3. next' - 1 = reply.n
    <3>1. reply.n \in Nat
      BY ReportedType, Zenon DEF Reported
    <3> QED BY <2>1, <3>1
  <2> QED BY <1>1, <1>2, <2>1, <2>2, <2>3, BehindNow, GapKeptBehind, Zenon
<1>6. CASE pc' \in {"hello", "rehello"} /\ reply' = NoReply /\ q' = q
  <2>2. Soon' = Soon /\ ~Running'
    BY <1>1, <1>6, Zenon DEF Soon, Running
  <2> QED BY <1>1, <1>2, <1>6, <2>2, BehindNow, GapKeptBehind, Zenon
<1>7. \/ ColdNoDb \/ ColdWithDb \/ FhGetState \/ FhRecover
      \/ pc' \in {"hello", "rehello"} /\ reply' = NoReply /\ q' = q
  BY Zenon DEF FhStart, FhHelloLost, FhHelloEmpty, Dial,
         FhRecoverBlank, FhRecoverFail, FhRehello, FhRehelloLost
<1> QED BY <1>3, <1>4, <1>5, <1>6, <1>7, Zenon

(* A message that is not published is passed over, one that is goes to the  *)
(* DB first and is multicast before anything else.                          *)
LEMMA MessageGap ==
  ASSUME TypeOK, Inv, GapInv, FhDbAssumption,
         FhDecodeError \/ FhClock \/ FhPublish
  PROVE  GapInv'
<1>1. /\ pc = "live" /\ Running /\ Running'
      /\ UNCHANGED <<mcast, stream, fhCrashes, metaVars>>
      /\ next' = next + 1 /\ next \in Of({"bad", "T"} \cup Published)
  BY Zenon DEF FhDecodeError, FhClock, FhPublish, Running, liveFrame, Of, Published
<1>2. next \in Nat /\ next # 0 /\ dbLast' = dbLast
  BY <1>1 DEF TypeOK, EnvTypeOK, FhTypeOK, metaVars
<1>3. Soon \subseteq Soon'
  BY <1>1, Zenon DEF Soon
<1>p. PICK p \in Nat : p = next
  BY <1>2, Zenon
<1>4. Missing(p)' \subseteq Missing(next - 1) /\ next - 1 \in Reported
  <2>1. CASE FhPublish
    <3>1. Soon' = mcast \cup {next} /\ Soon = mcast
      BY <1>1, <1>2, <2>1 DEF Soon, FhPublish
    <3>2. UpTo(Published, p)' \ {p} \subseteq UpTo(Published, next - 1)
      BY <1>1, <1>2, <1>p DEF UpTo, Of, Published
    <3> QED BY <1>1, <1>p, <3>1, <3>2, Zenon DEF Missing, Reported
  <2>2. CASE FhDecodeError \/ FhClock
    <3>1. next \notin Of(Published)
      BY <2>2, Zenon DEF FhDecodeError, FhClock, Of, Published
    <3>2. UpTo(Published, p)' \subseteq UpTo(Published, next - 1)
      BY <1>1, <1>2, <1>p, <3>1 DEF UpTo, Of, Published
    <3> QED BY <1>1, <1>3, <3>2, Zenon DEF Missing, Reported
  <2> QED BY <2>1, <2>2, Zenon
<1>5. /\ Behind(reply'.n)
      /\ \A i \in 1..Len(q') : q'[i].n = next \/ Behind(q'[i].n)
  <2>1. CASE UNCHANGED <<q, reply>>
    BY <2>1, BehindNow, Zenon
  <2>2. CASE Send(<<Update(next)>>)
    <3> DEFINE s == <<Update(next)>>
    <3>1. s \in Seq({Update(next)}) /\ s # <<>>
          /\ \A j \in 1..Len(s) : s[j].n = next
      BY DEF Update, Rec
    <3> HIDE DEF s
    <3>2. /\ reply'.n = 0
          /\ \A i \in 1..Len(q') : \/ \E j \in 1..Len(q) : q'[i].n = q[j].n
                                   \/ \E j \in 1..Len(s) : q'[i].n = s[j].n
      BY <2>2, <3>1, SendPositions, Zenon DEF s
    <3> QED BY <3>1, <3>2, BehindNow, Zenon
  <2> QED BY <2>1, <2>2, Zenon DEF FhDecodeError, FhClock, FhPublish
<1>6. next' - 1 = next
  BY <1>1, <1>2
<1>7. \A n \in Reported' : n = p \/ Behind(n)
  BY <1>2, <1>p, <1>5, <1>6, BehindNow, Zenon DEF Reported
<1> QED BY <1>1, <1>3, <1>4, <1>7, BehindMisses, GapKept, Zenon

(* The other steps of a running feed handler report no new position.        *)
LEMMA LiveGap ==
  ASSUME TypeOK, Inv, GapInv, FhDbAssumption,
         FhLogin \/ FhMcast \/ FhTimer \/ FhRedial \/ FhRedialLost \/ FhEnd
  PROVE  GapInv'
<1>1. /\ Running /\ Running'
      /\ UNCHANGED <<stream, fhCrashes, metaVars, next>>
  BY Zenon DEF FhLogin, FhMcast, FhTimer, FhRedial, FhRedialLost, FhEnd, Running,
         liveFrame
<1>2. dbLast' = dbLast /\ NoReply.n = 0
  BY <1>1, Zenon DEF metaVars, NoReply, Ctl, Rec
<1>3. Soon \subseteq Soon'
  BY <1>1, Zenon DEF Soon, FhLogin, FhMcast, FhTimer, FhRedial, FhRedialLost, FhEnd
<1>4. Behind(reply'.n) /\ \A i \in 1..Len(q') : Behind(q'[i].n)
  <2>1. CASE q' = q /\ reply' \in {reply, NoReply}
    BY <1>2, <2>1, BehindNow, Zenon
  <2>2. CASE Send(SyncDump(market, last, epoch, sess))
    <3> DEFINE s == SyncDump(market, last, epoch, sess)
    <3>1. PICK R : s \in Seq(R)
      BY DumpPositions, Zenon
    <3>2. s # <<>> /\ \A j \in 1..Len(s) : s[j].n \in {0, last}
      BY DumpPositions, Zenon
    <3>3. Behind(last)
      BY <1>1, BehindNow, Zenon DEF Inv, FhInv
    <3> HIDE DEF s
    <3>4. /\ reply'.n = 0
          /\ \A i \in 1..Len(q') : \/ \E j \in 1..Len(q) : q'[i].n = q[j].n
                                   \/ \E j \in 1..Len(s) : q'[i].n = s[j].n
      BY <2>2, <3>1, <3>2, SendPositions, Zenon DEF s
    <3> QED BY <3>2, <3>3, <3>4, BehindNow, Zenon
  <2> QED
    BY <2>1, <2>2, Zenon DEF FhLogin, FhMcast, FhTimer, FhRedial, FhRedialLost, FhEnd,
                      CloseLink, Dial
<1> QED BY <1>1, <1>2, <1>3, <1>4, BehindNow, GapKeptBehind, Zenon

(* A crash loses the message that was about to be multicast, no other.      *)
LEMMA CrashGap ==
  ASSUME TypeOK, Inv, GapInv, FhDbAssumption, FhCrash
  PROVE  GapInv'
<1>1. /\ pc' = "down" /\ reply' = NoReply /\ fhCrashes' = fhCrashes + 1
      /\ UNCHANGED <<q, mcast, stream, metaVars>>
  BY Zenon DEF FhCrash, CloseLink
<1>2. dbLast' = dbLast /\ NoReply.n = 0 /\ fhCrashes \in Nat
  BY <1>1 DEF metaVars, NoReply, Ctl, Rec, TypeOK, EnvTypeOK, FhDbAssumption
<1>3. Reported' \subseteq Reported \cup {0}
  BY <1>1, <1>2, Zenon DEF Reported, Running
<1>4. \A n : Missing(n)' \subseteq Missing(n) \cup {next - 1}
  BY <1>1, Zenon DEF Missing, Soon, UpTo, Of, Published
<1>5. SUFFICES ASSUME "glimpse" \notin Bootstraps, NEW n \in Reported'
               PROVE  Cardinality(Missing(n)') <= fhCrashes + 1
  BY <1>1, Zenon DEF GapInv
<1>6. n \in Nat
  BY <1>3, ReportedType
<1>7. IsFiniteSet(Missing(n)) /\ Cardinality(Missing(n)) \in Nat
  BY <1>6, MissingGrows
<1>8. Cardinality(Missing(n)) <= fhCrashes
  <2>1. CASE n = 0
    <3>1. Cardinality(Missing(n)) = 0
      BY <2>1, NothingMissing, FS_EmptySet, Zenon
    <3> QED BY <1>2, <3>1
  <2> QED BY <1>3, <1>5, <2>1, Zenon DEF GapInv
<1>9. IsFiniteSet(Missing(n) \cup {next - 1})
      /\ Cardinality(Missing(n) \cup {next - 1}) <= Cardinality(Missing(n)) + 1
      /\ Cardinality(Missing(n) \cup {next - 1}) \in Nat
  <2>1. IsFiniteSet(Missing(n) \cup {next - 1})
        /\ Cardinality(Missing(n) \cup {next - 1})
             \in {Cardinality(Missing(n)), Cardinality(Missing(n)) + 1}
    BY <1>7, FS_AddElement, Zenon
  <2> QED BY <1>7, <2>1
<1>10. IsFiniteSet(Missing(n)') /\ Cardinality(Missing(n)')
          <= Cardinality(Missing(n) \cup {next - 1})
  BY <1>4, <1>9, FS_Subset, Zenon
<1>11. Cardinality(Missing(n)') \in Nat
  BY <1>10, FS_CardinalityType, Zenon
<1> QED BY <1>2, <1>7, <1>8, <1>9, <1>10, <1>11

(* Of the messages it has passed, a feed handler's multicast misses at most *)
(* one per crash of the handler, the one that crash caught between the DB   *)
(* write and the multicast (on_message), for every stream and any number of *)
(* crashes of either process.                                               *)
THEOREM MulticastGapIsBounded == Spec => []MulticastGapBounded
<1>1. Init => GapInv
  <2> SUFFICES ASSUME Init PROVE GapInv
    BY Zenon
  <2>1. Reported = {0} /\ fhCrashes = 0
    BY DEF Init, Reported, Running, NoReply, Ctl, Rec
  <2> QED BY <2>1, NothingMissing, FS_EmptySet DEF GapInv
<1>2. TypeOK /\ Inv /\ GapInv /\ [Next]_vars => GapInv'
  <2> SUFFICES ASSUME TypeOK, Inv, GapInv, [Next]_vars PROVE GapInv'
    BY Zenon
  <2>1. CASE UNCHANGED vars
    <3>1. UNCHANGED <<pc, mcast, next, stream, fhCrashes, dbLast, reply, q>>
      BY <2>1, Zenon DEF vars, fhVars, dbVars, envVars
    <3>2. \A n : Missing(n)' = Missing(n)
      BY <3>1, Zenon DEF Missing, Soon, UpTo, Of, Published
    <3>3. Reported' = Reported
      BY <3>1, Zenon DEF Reported, Running
    <3> QED BY <3>1, <3>2, <3>3, Zenon DEF GapInv
  <2> QED
    BY <2>1, FhDbAssumption, DbGap, StartupGap, MessageGap, LiveGap, CrashGap, Zenon
    DEF Next, FhStep
<1>3. TypeOK /\ GapInv => MulticastGapBounded
  <2> SUFFICES ASSUME TypeOK, GapInv, Running, "glimpse" \notin Bootstraps
               PROVE  Cardinality(UpTo(Published, next - 1) \ mcast)
                        <= fhCrashes + (IF pc = "mcast" THEN 1 ELSE 0)
    BY Zenon DEF MulticastGapBounded
  <2> DEFINE G == UpTo(Published, next - 1) \ mcast
  <2>1. next - 1 \in Nat /\ next - 1 \in Reported /\ fhCrashes \in Nat
    BY ReportedType, FhDbAssumption
    DEF Reported, TypeOK, EnvTypeOK, FhDbAssumption
  <2>2. /\ IsFiniteSet(Missing(next - 1))
        /\ Cardinality(Missing(next - 1)) \in Nat
        /\ Cardinality(Missing(next - 1)) <= fhCrashes
    BY <2>1, MissingGrows DEF GapInv
  <2>3. CASE pc # "mcast"
    <3>1. G = Missing(next - 1)
      BY <2>3, Zenon DEF Missing, Soon
    <3> QED BY <2>1, <2>2, <2>3, <3>1
  <2>4. CASE pc = "mcast"
    <3>1. G \subseteq Missing(next - 1) \cup {next - 1}
      BY <2>4, Zenon DEF Missing, Soon
    <3> HIDE DEF G
    <3>2. IsFiniteSet(Missing(next - 1) \cup {next - 1})
          /\ Cardinality(Missing(next - 1) \cup {next - 1})
               \in {Cardinality(Missing(next - 1)), Cardinality(Missing(next - 1)) + 1}
      BY <2>2, FS_AddElement, Zenon
    <3>3. IsFiniteSet(G)
          /\ Cardinality(G) <= Cardinality(Missing(next - 1) \cup {next - 1})
      BY <3>1, <3>2, FS_Subset, Zenon
    <3>4. Cardinality(G) \in Nat
      BY <3>3, FS_CardinalityType, Zenon
    <3>5. Cardinality(G) <= fhCrashes + 1
      BY <2>1, <2>2, <3>2, <3>3, <3>4
    <3> QED BY <2>4, <3>5, Zenon DEF G
  <2> QED BY <2>3, <2>4, Zenon
<1> QED BY <1>1, <1>2, <1>3, Invariance, PTL DEF Spec
=============================================================================
