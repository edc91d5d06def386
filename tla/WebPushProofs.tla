--------------------------- MODULE WebPushProofs ----------------------------
(* WebPush: for any number of pages, tickers, updates and restarts, the hub *)
(* holds back only the newest record of a page's ticker, serves every page  *)
(* that believes itself connected, and passes a subscriber over only when   *)
(* it drops a client.                                                       *)
EXTENDS WebPush, SequenceTheorems, WellFoundedInduction, TLAPS

Switch == BOOLEAN

Tickers == PushTickers \cup {NoTicker}
Records(n) == [ticker : PushTickers, v : 1..n]
Frames(n) == Records(n) \cup {Unknown, Restarted, Closing}

Conns(n) ==
  [subscribed : Tickers, pending : Records(n) \cup {Nothing}, hot : Switch,
   timer : {"off", "armed", "due"}, out : Seq(Frames(n)), closing : Switch]

Hubs(n) == [list : Seq(Pages), ws : [Pages -> Conns(n)],
            down : [Pages -> Seq(Frames(n))]]

(* A set of naturals with 0 that is closed under successor has them all. *)
LEMMA NatSets ==
  ASSUME NEW S, 0 \in S, \A n \in Nat : n \in S => n + 1 \in S
  PROVE  Nat \subseteq S
<1> SUFFICES ASSUME Nat \ S # {} PROVE FALSE
  BY Zenon
<1>1. PICK x \in Nat \ S : \A y \in Nat \ S : <<y, x>> \notin OpToRel(<, Nat)
  <2>1. Nat \ S \subseteq Nat
    BY Zenon
  <2> QED BY <2>1, NatLessThanWellFounded, WFMin, Zenon
<1>2. x \in Nat /\ x \notin S
  BY Zenon
<1>3. x - 1 \in Nat /\ (x - 1) + 1 = x
  <2>1. x # 0
    BY <1>2, Zenon
  <2> QED BY <1>2, <2>1
<1>4. x - 1 \notin S
  BY <1>2, <1>3, Zenon
<1>5. <<x - 1, x>> \in OpToRel(<, Nat)
  BY <1>2, <1>3 DEF OpToRel
<1> QED BY <1>1, <1>3, <1>4, <1>5, Zenon

(* The rounds of a broadcast, one after the other. *)
Rounds(h, frame, n, f) ==
  f = [i \in 0..n |-> IF i = 0 THEN h ELSE Round(f[i - 1], i, frame)]

LEMMA RoundsExist ==
  ASSUME NEW h, NEW frame, NEW n \in Nat
  PROVE  \E f : Rounds(h, frame, n, f)
<1> DEFINE S == {k \in Nat : \E f : Rounds(h, frame, k, f)}
<1>1. 0 \in S
  <2> DEFINE f == [i \in 0..0 |-> h]
  <2>1. f = [i \in 0..0 |-> IF i = 0 THEN h ELSE Round(f[i - 1], i, frame)]
    OBVIOUS
  <2>2. Rounds(h, frame, 0, f)
    BY <2>1, Zenon DEF Rounds
  <2> QED BY <2>2, Zenon
<1>2. ASSUME NEW k \in Nat, k \in S PROVE k + 1 \in S
  <2>1. PICK f : Rounds(h, frame, k, f)
    BY <1>2, Zenon
  <2> DEFINE g == [i \in 0..(k + 1) |-> IF i <= k THEN f[i]
                                         ELSE Round(f[k], k + 1, frame)]
  <2>2. ASSUME NEW i \in 0..(k + 1)
        PROVE  g[i] = IF i = 0 THEN h ELSE Round(g[i - 1], i, frame)
    <3>1. CASE i = 0
      BY <2>1, <3>1 DEF Rounds
    <3>2. CASE i # 0 /\ i <= k
      <4>1. i - 1 \in 0..(k + 1) /\ i - 1 <= k /\ i \in 0..k
        BY <3>2
      <4>2. g[i - 1] = f[i - 1] /\ g[i] = f[i]
        BY <3>2, <4>1, Zenon
      <4>3. f[i] = Round(f[i - 1], i, frame)
        BY <2>1, <3>2, <4>1, Zenon DEF Rounds
      <4> HIDE DEF g
      <4> QED BY <3>2, <4>2, <4>3, Zenon
    <3>3. CASE i = k + 1
      <4>1. i - 1 = k /\ ~(i <= k) /\ k \in 0..(k + 1) /\ i # 0
        BY <3>3
      <4>2. g[i] = Round(f[k], k + 1, frame)
        BY <4>1, Zenon
      <4>3. g[k] = f[k]
        BY <4>1
      <4> HIDE DEF g
      <4> QED BY <3>3, <4>1, <4>2, <4>3, Zenon
    <3> QED BY <3>1, <3>2, <3>3
  <2>3. g = [i \in 0..(k + 1) |-> g[i]]
    BY Zenon
  <2> HIDE DEF g
  <2>4. g = [i \in 0..(k + 1) |-> IF i = 0 THEN h ELSE Round(g[i - 1], i, frame)]
    BY <2>2, <2>3, Zenon
  <2>5. Rounds(h, frame, k + 1, g)
    BY <2>4, Zenon DEF Rounds
  <2> QED BY <2>5
<1> HIDE DEF S
<1>3. Nat \subseteq S
  BY <1>1, <1>2, NatSets, Zenon
<1> QED BY <1>3, Zenon DEF S

(* What holds before the first round and, round by round, stays true at the *)
(* round's index holds of the broadcast's result.                           *)
LEMMA BroadcastInduction ==
  ASSUME NEW h, NEW frame, Len(h.list) \in Nat, NEW G,
         h \in G[0],
         \A i \in 1..Len(h.list) : \A k \in G[i - 1] : Round(k, i, frame) \in G[i]
  PROVE  Broadcast(h, frame) \in G[Len(h.list)]
<1> DEFINE n == Len(h.list)
           f == CHOOSE g : Rounds(h, frame, n, g)
<1>1. Rounds(h, frame, n, f)
  BY RoundsExist, Zenon
<1>2. Broadcast(h, frame) = f[n]
  BY Zenon DEF Broadcast, Rounds
<1> HIDE DEF f
<1> DEFINE S == {k \in Nat : k <= n => f[k] \in G[k]}
<1>3. 0 \in S
  BY <1>1 DEF Rounds
<1>4. ASSUME NEW k \in Nat, k \in S PROVE k + 1 \in S
  <2> SUFFICES ASSUME k + 1 <= n PROVE f[k + 1] \in G[k + 1]
    OBVIOUS
  <2>1. f[k] \in G[k] /\ k + 1 \in 1..n /\ k + 1 \in 0..n /\ (k + 1) - 1 = k
    BY <1>4
  <2>2. f[k + 1] = Round(f[k], k + 1, frame)
    BY <1>1, <2>1 DEF Rounds
  <2> QED BY <2>1, <2>2, Zenon
<1> HIDE DEF S
<1>5. n \in S
  BY <1>3, <1>4, NatSets, Zenon
<1> QED BY <1>2, <1>5 DEF S

-----------------------------------------------------------------------------
(* What the operators on a hub make of it *)

(* A client that a broadcast reached and did not drop. *)
Served(w, frame) ==
  CASE w.closing -> w
    [] ~w.closing /\ frame = Restarted -> [w EXCEPT !.out = Append(@, frame)]
    [] ~w.closing /\ frame # Restarted /\ w.subscribed # frame.ticker -> w
    [] ~w.closing /\ frame # Restarted /\ w.subscribed = frame.ticker /\ ~w.hot ->
         [w EXCEPT !.pending = Nothing, !.hot = TRUE, !.out = Append(@, frame)]
    [] OTHER -> [w EXCEPT !.pending = frame,
                          !.timer = IF @ = "off" THEN "armed" ELSE @]

LEMMA HubFields ==
  ASSUME NEW n \in Nat, NEW h \in Hubs(n)
  PROVE  /\ h = [list |-> h.list, ws |-> h.ws, down |-> h.down]
         /\ h.list \in Seq(Pages) /\ h.ws \in [Pages -> Conns(n)]
         /\ h.down \in [Pages -> Seq(Frames(n))]
BY Zenon DEF Hubs

LEMMA NewConn ==
  ASSUME NEW n \in Nat
  PROVE  NewClient \in Conns(n)
BY DEF NewClient, Conns, Tickers, Switch

LEMMA EnqueueEffect ==
  ASSUME NEW n \in Nat, NEW h \in Hubs(n), NEW p \in Pages, NEW frame
  PROVE  Enqueue(h, p, frame) \in
           {Teardown(h, p), With(h, p, [h.ws[p] EXCEPT !.out = Append(@, frame)])}
BY Zenon DEF Enqueue

(* What a client was before it is dropped does not matter. *)
LEMMA TeardownForgets ==
  ASSUME NEW n \in Nat, NEW h \in Hubs(n), NEW p \in Pages, NEW w
  PROVE  Teardown(With(h, p, w), p) = Teardown(h, p)
<1>1. [[h.ws EXCEPT ![p] = w] EXCEPT ![p] = NewClient] = [h.ws EXCEPT ![p] = NewClient]
  BY HubFields, Zenon
<1> QED BY <1>1, Zenon DEF Teardown, With

LEMMA WithTwice ==
  ASSUME NEW n \in Nat, NEW h \in Hubs(n), NEW p \in Pages, NEW w, NEW x
  PROVE  /\ With(With(h, p, w), p, x) = With(h, p, x)
         /\ With(h, p, w).ws[p] = w
BY HubFields, Zenon DEF With

LEMMA WithTyped ==
  ASSUME NEW n \in Nat, NEW h \in Hubs(n), NEW p \in Pages, NEW w \in Conns(n)
  PROVE  With(h, p, w) \in Hubs(n)
BY HubFields, Zenon DEF With, Hubs

LEMMA FlushEffect ==
  ASSUME NEW n \in Nat, NEW h \in Hubs(n), NEW p \in Pages
  PROVE  FlushPending(h, p) \in
           {Teardown(h, p),
            With(h, p, [h.ws[p] EXCEPT !.pending = Nothing, !.hot = TRUE,
                                       !.out = Append(@, h.ws[p].pending)])}
<1> DEFINE w == [h.ws[p] EXCEPT !.pending = Nothing, !.hot = TRUE]
           x == h.ws[p].pending
<1>1. h.ws[p] \in Conns(n)
  BY HubFields, Zenon
<1>2. w \in Conns(n)
  BY <1>1, Zenon DEF Conns, Switch
<1>4. With(h, p, w) \in Hubs(n)
  BY <1>2, WithTyped, Zenon
<1>5. [w EXCEPT !.out = Append(@, x)]
        = [h.ws[p] EXCEPT !.pending = Nothing, !.hot = TRUE, !.out = Append(@, x)]
  BY <1>1, Zenon DEF Conns
<1> HIDE DEF w, x
<1>6. /\ Teardown(With(h, p, w), p) = Teardown(h, p) /\ With(h, p, w).ws[p] = w
      /\ With(With(h, p, w), p, [w EXCEPT !.out = Append(@, x)])
           = With(h, p, [w EXCEPT !.out = Append(@, x)])
  BY TeardownForgets, WithTwice
<1>7. Enqueue(With(h, p, w), p, x) \in
        {Teardown(With(h, p, w), p),
         With(With(h, p, w), p, [With(h, p, w).ws[p] EXCEPT !.out = Append(@, x)])}
  BY <1>4, EnqueueEffect, Zenon
<1> QED BY <1>5, <1>6, <1>7, Zenon DEF FlushPending, w, x

LEMMA QueueEffect ==
  ASSUME NEW n \in Nat, NEW h \in Hubs(n), NEW p \in Pages, NEW rec \in Records(n),
         rec # Restarted, h.ws[p].subscribed = rec.ticker, ~h.ws[p].closing
  PROVE  QueueUpdate(h, p, rec) \in {Teardown(h, p), With(h, p, Served(h.ws[p], rec))}
<1> DEFINE w == [h.ws[p] EXCEPT !.pending = rec]
<1>1. h.ws[p] \in Conns(n)
  BY HubFields, Zenon
<1>2. w \in Conns(n) /\ w.pending = rec
  BY <1>1, Zenon DEF Conns
<1>4. CASE ~h.ws[p].closing /\ ~h.ws[p].hot
  <2> DEFINE x == [w EXCEPT !.pending = Nothing, !.hot = TRUE, !.out = Append(@, rec)]
             g == With(h, p, w)
  <2>1. g \in Hubs(n) /\ g.ws[p] = w
    BY <1>2, WithTyped, WithTwice
  <2>2. x = Served(h.ws[p], rec)
    <3>1. x = [h.ws[p] EXCEPT !.pending = Nothing, !.hot = TRUE, !.out = Append(@, rec)]
      BY <1>1, Zenon DEF Conns
    <3> HIDE DEF x
    <3> QED BY <1>4, <3>1, Zenon DEF Served
  <2>3. Teardown(g, p) = Teardown(h, p) /\ With(g, p, x) = With(h, p, x)
    BY TeardownForgets, WithTwice
  <2>4. QueueUpdate(h, p, rec) = FlushPending(g, p)
    BY <1>4, Zenon DEF QueueUpdate
  <2> HIDE DEF g
  <2>5. FlushPending(g, p) \in
          {Teardown(g, p),
           With(g, p, [g.ws[p] EXCEPT !.pending = Nothing, !.hot = TRUE,
                                      !.out = Append(@, g.ws[p].pending)])}
    BY <2>1, FlushEffect, Zenon
  <2>6. FlushPending(g, p) \in {Teardown(g, p), With(g, p, x)}
    BY <1>2, <2>1, <2>5, Zenon
  <2> HIDE DEF x
  <2> QED BY <2>2, <2>3, <2>4, <2>6, Zenon
<1>5. CASE ~h.ws[p].closing /\ h.ws[p].hot
  <2> DEFINE x == [w EXCEPT !.timer = IF @ = "off" THEN "armed" ELSE @]
  <2>1. x = Served(h.ws[p], rec)
    <3>1. x = [h.ws[p] EXCEPT !.pending = rec,
                              !.timer = IF @ = "off" THEN "armed" ELSE @]
      BY <1>1, Zenon DEF Conns
    <3> HIDE DEF x
    <3> QED BY <1>5, <3>1, Zenon DEF Served
  <2>2. QueueUpdate(h, p, rec) = With(h, p, x)
    BY <1>5, Zenon DEF QueueUpdate
  <2> HIDE DEF x
  <2> QED BY <2>1, <2>2, Zenon
<1> QED BY <1>4, <1>5, Zenon

(* A visit drops the client, or leaves it served. *)
LEMMA VisitEffect ==
  ASSUME NEW n \in Nat, NEW h \in Hubs(n), NEW p \in Pages,
         NEW frame \in Records(n) \cup {Restarted}
  PROVE  Visit(h, p, frame) \in {Teardown(h, p), With(h, p, Served(h.ws[p], frame))}
<1> DEFINE w == h.ws[p]
<1>1. h = With(h, p, w)
  <2>1. h.ws = [h.ws EXCEPT ![p] = w]
    BY HubFields, Zenon
  <2> QED BY <2>1, HubFields, Zenon DEF With
<1>2. CASE w.closing
  <2>1. Served(w, frame) = w
    BY <1>2, Zenon DEF Served
  <2>2. Visit(h, p, frame) = h
    BY <1>2, Zenon DEF Visit, SendEvent, QueueUpdate
  <2> QED BY <1>1, <2>1, <2>2, Zenon
<1>3. CASE ~w.closing /\ frame = Restarted
  <2>1. Visit(h, p, frame) = Enqueue(h, p, frame)
    BY <1>3, Zenon DEF Visit, SendEvent
  <2>2. Served(w, frame) = [w EXCEPT !.out = Append(@, frame)]
    BY <1>3, Zenon DEF Served
  <2>3. Enqueue(h, p, frame) \in
          {Teardown(h, p), With(h, p, [w EXCEPT !.out = Append(@, frame)])}
    BY EnqueueEffect, Zenon
  <2> QED BY <2>1, <2>2, <2>3, Zenon
<1>4. CASE ~w.closing /\ frame # Restarted /\ w.subscribed # frame.ticker
  <2>1. Visit(h, p, frame) = h
    BY <1>4, Zenon DEF Visit
  <2>2. Served(w, frame) = w
    BY <1>4, Zenon DEF Served
  <2> QED BY <1>1, <2>1, <2>2, Zenon
<1>5. CASE ~w.closing /\ frame # Restarted /\ w.subscribed = frame.ticker
  <2>1. Visit(h, p, frame) = QueueUpdate(h, p, frame)
    BY <1>5, Zenon DEF Visit
  <2>2. frame \in Records(n)
    BY <1>5, Zenon
  <2> QED BY <1>5, <2>1, <2>2, QueueEffect, Zenon
<1> QED BY <1>2, <1>3, <1>4, <1>5, Zenon

(* list.remove of a list without repetitions. *)
LEMMA RemoveOne ==
  ASSUME NEW S, NEW s \in Seq(S), IsInjective(s), NEW m \in 1..Len(s)
  PROVE  LET r == Removed(s, s[m])
         IN /\ r \in Seq(S) /\ Len(r) = Len(s) - 1
            /\ \A j \in 1..(m - 1) : r[j] = s[j]
            /\ \A j \in m..(Len(s) - 1) : r[j] = s[j + 1]
<1> DEFINE I == {i \in DOMAIN s : s[i] = s[m]}
<1>1. I = {m}
  BY DEF IsInjective
<1>2. Min({m}) = m
  BY DEF Min
<1>3. Removed(s, s[m]) = IF I = {} THEN s
                         ELSE SubSeq(s, 1, Min(I) - 1) \o SubSeq(s, Min(I) + 1, Len(s))
  BY Zenon DEF Removed
<1> HIDE DEF I
<1>4. Removed(s, s[m]) = SubSeq(s, 1, m - 1) \o SubSeq(s, m + 1, Len(s))
  BY <1>1, <1>2, <1>3, Zenon
<1> DEFINE a == SubSeq(s, 1, m - 1)
           b == SubSeq(s, m + 1, Len(s))
<1>5. /\ a \in Seq(S) /\ Len(a) = m - 1 /\ \A j \in 1..(m - 1) : a[j] = s[j]
      /\ b \in Seq(S) /\ Len(b) = Len(s) - m
      /\ \A j \in 1..(Len(s) - m) : b[j] = s[j + m]
  OBVIOUS
<1> HIDE DEF a, b
<1>6. /\ a \o b \in Seq(S) /\ Len(a \o b) = Len(a) + Len(b)
      /\ \A j \in 1..Len(a) : (a \o b)[j] = a[j]
      /\ \A j \in (Len(a) + 1)..(Len(a) + Len(b)) : (a \o b)[j] = b[j - Len(a)]
  <2>1. a \in Seq(S) /\ b \in Seq(S) /\ Len(a) \in Nat /\ Len(b) \in Nat
    BY <1>5
  <2> QED BY <2>1, ConcatProperties
<1>7. ASSUME NEW j \in m..(Len(s) - 1)
      PROVE  (a \o b)[j] = s[j + 1]
  <2>1. j \in (Len(a) + 1)..(Len(a) + Len(b)) /\ j - Len(a) \in 1..(Len(s) - m)
        /\ (j - Len(a)) + m = j + 1
    BY <1>5
  <2> QED BY <1>5, <1>6, <2>1, Zenon
<1>8. ASSUME NEW j \in 1..(m - 1)
      PROVE  (a \o b)[j] = s[j]
  BY <1>5, <1>6, Zenon
<1>9. Removed(s, s[m]) = a \o b
  BY <1>4, Zenon DEF a, b
<1> QED BY <1>5, <1>6, <1>7, <1>8, <1>9

(* What remains is without repetitions too. *)
LEMMA RemoveKeeps ==
  ASSUME NEW S, NEW s \in Seq(S), IsInjective(s), NEW m \in 1..Len(s)
  PROVE  LET r == Removed(s, s[m])
         IN IsInjective(r) /\ Range(r) = Range(s) \ {s[m]}
<1> DEFINE r == Removed(s, s[m])
<1>1. /\ r \in Seq(S) /\ Len(r) = Len(s) - 1 /\ Len(s) \in Nat
      /\ \A j \in 1..(m - 1) : r[j] = s[j]
      /\ \A j \in m..(Len(s) - 1) : r[j] = s[j + 1]
  <2>1. Len(s) \in Nat
    OBVIOUS
  <2> QED BY <2>1, RemoveOne, Zenon
<1> HIDE DEF r
<1>2. DOMAIN r = 1..(Len(s) - 1) /\ DOMAIN s = 1..Len(s)
  BY <1>1
<1>3. ASSUME NEW i \in DOMAIN r, NEW j \in DOMAIN r, r[i] = r[j]
      PROVE  i = j
  <2> DEFINE at(k) == IF k < m THEN k ELSE k + 1
  <2>1. \A k \in DOMAIN r : at(k) \in DOMAIN s /\ r[k] = s[at(k)]
    BY <1>1, <1>2
  <2>2. at(i) = at(j)
    BY <1>3, <2>1, Zenon DEF IsInjective
  <2> QED BY <1>2, <2>2
<1>4. ASSUME NEW x \in Range(r)
      PROVE  x \in Range(s) /\ x # s[m]
  <2>1. PICK k \in DOMAIN r : x = r[k]
    BY <1>4, Zenon DEF Range
  <2> DEFINE at == IF k < m THEN k ELSE k + 1
  <2>2. at \in DOMAIN s /\ x = s[at] /\ at # m
    BY <1>1, <1>2, <2>1
  <2> HIDE DEF at
  <2> QED BY <1>2, <2>2, Zenon DEF Range, IsInjective
<1>5. ASSUME NEW x \in Range(s), x # s[m]
      PROVE  x \in Range(r)
  <2>1. PICK k \in DOMAIN s : x = s[k]
    BY <1>5, Zenon DEF Range
  <2>2. k # m
    BY <1>5, <2>1, Zenon
  <2> DEFINE at == IF k < m THEN k ELSE k - 1
  <2>3. at \in DOMAIN r /\ x = r[at]
    BY <1>1, <1>2, <2>1, <2>2
  <2> HIDE DEF at
  <2> QED BY <2>3, Zenon DEF Range
<1> QED BY <1>3, <1>4, <1>5, Zenon DEF IsInjective, r

(* Hub k is hub h without client p. *)
Dropped(h, k, p) ==
  /\ k.list = Removed(h.list, p)
  /\ k.ws = [h.ws EXCEPT ![p] = NewClient]
  /\ k.down = [h.down EXCEPT ![p] = Append(@, Closing)]
  /\ k.down[p] = Append(h.down[p], Closing)

LEMMA TeardownTyped ==
  ASSUME NEW n \in Nat, NEW h \in Hubs(n), IsInjective(h.list),
         NEW m \in 1..Len(h.list), NEW p, p = h.list[m]
  PROVE  Teardown(h, p) \in Hubs(n) /\ Dropped(h, Teardown(h, p), p)
<1>1. p \in Pages /\ h.down[p] \in Seq(Frames(n)) /\ Closing \in Frames(n)
  <2>1. h.list \in Seq(Pages) /\ h.down \in [Pages -> Seq(Frames(n))]
    BY HubFields, Zenon
  <2>2. p \in Pages
    BY <2>1
  <2>3. Closing \in Frames(n)
    BY Zenon DEF Frames
  <2> QED BY <2>1, <2>2, <2>3, Zenon
<1>2. Append(h.down[p], Closing) \in Seq(Frames(n))
  BY <1>1
<1>3. [h.ws EXCEPT ![p] = NewClient] \in [Pages -> Conns(n)]
  BY HubFields, NewConn, Zenon
<1>4. /\ [h.down EXCEPT ![p] = Append(@, Closing)] \in [Pages -> Seq(Frames(n))]
      /\ [h.down EXCEPT ![p] = Append(@, Closing)][p] = Append(h.down[p], Closing)
  BY <1>1, <1>2, HubFields, Zenon
<1>5. Removed(h.list, p) \in Seq(Pages)
  BY HubFields, RemoveOne, Zenon
<1> QED BY <1>3, <1>4, <1>5, Zenon DEF Teardown, Hubs, Dropped

LEMMA ServedTyped ==
  ASSUME NEW n \in Nat, NEW w \in Conns(n), NEW frame \in Records(n) \cup {Restarted}
  PROVE  /\ Served(w, frame) \in Conns(n)
         /\ Served(w, frame).subscribed = w.subscribed
         /\ Served(w, frame).closing = w.closing
<1>1. CASE w.closing
  BY <1>1, Zenon DEF Served
<1>2. CASE ~w.closing /\ frame = Restarted
  <2>1. Served(w, frame) = [w EXCEPT !.out = Append(@, frame)]
    BY <1>2, Zenon DEF Served
  <2>2. w.out \in Seq(Frames(n)) /\ frame \in Frames(n)
    BY <1>2, Zenon DEF Conns, Frames
  <2>3. Append(w.out, frame) \in Seq(Frames(n))
    BY <2>2
  <2> QED BY <2>1, <2>3, Zenon DEF Conns
<1>3. CASE ~w.closing /\ frame # Restarted /\ w.subscribed # frame.ticker
  BY <1>3, Zenon DEF Served
<1>4. CASE ~w.closing /\ frame # Restarted /\ w.subscribed = frame.ticker /\ ~w.hot
  <2>1. Served(w, frame) = [w EXCEPT !.pending = Nothing, !.hot = TRUE,
                                     !.out = Append(@, frame)]
    BY <1>4, Zenon DEF Served
  <2>2. w.out \in Seq(Frames(n)) /\ frame \in Frames(n)
    BY <1>4, Zenon DEF Conns, Frames
  <2>3. Append(w.out, frame) \in Seq(Frames(n)) /\ TRUE \in Switch
    BY <2>2 DEF Switch
  <2> QED BY <2>1, <2>3, Zenon DEF Conns
<1>5. CASE ~w.closing /\ frame # Restarted /\ w.subscribed = frame.ticker /\ w.hot
  <2>1. Served(w, frame) = [w EXCEPT !.pending = frame,
                                     !.timer = IF @ = "off" THEN "armed" ELSE @]
    BY <1>5, Zenon DEF Served
  <2> QED BY <1>5, <2>1, Zenon DEF Conns
<1> QED BY <1>1, <1>2, <1>3, <1>4, <1>5, Zenon

(* Where a broadcast from h stands after its i-th round. *)
Reached(h, frame, i, k) ==
  /\ IsInjective(k.list) /\ Range(k.list) \subseteq Range(h.list)
  /\ Len(k.list) <= Len(h.list)
  /\ \A j \in 1..Len(k.list) :
       /\ k.down[k.list[j]] = h.down[k.list[j]]
       /\ k.ws[k.list[j]] \in {h.ws[k.list[j]], Served(h.ws[k.list[j]], frame)}
       /\ j > i => k.ws[k.list[j]] = h.ws[k.list[j]]
  /\ \A p \in Pages \ Range(k.list) :
       IF p \in Range(h.list)
       THEN k.ws[p] = NewClient /\ Closing \in Range(k.down[p])
       ELSE k.ws[p] = h.ws[p] /\ k.down[p] = h.down[p]
  /\ Len(k.list) = Len(h.list) =>
       \A j \in 1..Len(k.list) :
         j <= i => k.ws[k.list[j]] = Served(h.ws[k.list[j]], frame)

LEMMA RoundStep ==
  ASSUME NEW n \in Nat, NEW h \in Hubs(n), NEW frame \in Records(n) \cup {Restarted},
         NEW i \in 1..Len(h.list), NEW k \in Hubs(n), Reached(h, frame, i - 1, k)
  PROVE  Round(k, i, frame) \in Hubs(n) /\ Reached(h, frame, i, Round(k, i, frame))
<1>0. Len(k.list) \in Nat /\ Len(h.list) \in Nat /\ k.list \in Seq(Pages)
      /\ k.ws \in [Pages -> Conns(n)] /\ h.ws \in [Pages -> Conns(n)]
      /\ k.down \in [Pages -> Seq(Frames(n))]
      /\ DOMAIN k.list = 1..Len(k.list)
  BY HubFields
<1>1. CASE i > Len(k.list)
  <2>1. Round(k, i, frame) = k
    BY <1>1, Zenon DEF Round
  <2>2. \A j \in 1..Len(k.list) : j > i - 1 \/ ~(j > i)
    BY <1>0
  <2>3. \A j \in 1..Len(k.list) : j <= i - 1
    BY <1>0, <1>1
  <2>4. Reached(h, frame, i, k)
    BY <2>2, <2>3, Zenon DEF Reached
  <2> QED BY <2>1, <2>4, Zenon
<1>2. CASE i <= Len(k.list)
  <2> DEFINE p == k.list[i]
             w == Served(h.ws[p], frame)
  <2>1. i \in 1..Len(k.list) /\ p \in Pages /\ i > i - 1
    BY <1>0, <1>2
  <2>2. k.ws[p] = h.ws[p] /\ k.down[p] = h.down[p]
    BY <2>1, Zenon DEF Reached
  <2>3. w \in Conns(n)
    BY <1>0, <2>1, ServedTyped, Zenon
  <2>4. Round(k, i, frame) \in {Teardown(k, p), With(k, p, w)}
    <3>1. Round(k, i, frame) = Visit(k, p, frame)
      BY <1>0, <1>2 DEF Round
    <3> QED BY <2>1, <2>2, <3>1, VisitEffect
  <2>5. \A j \in 1..Len(k.list) : k.list[j] = p => j = i
    BY <1>0, <2>1, Zenon DEF Reached, IsInjective
  <2>6. p \in Range(k.list) /\ p \in Range(h.list)
    <3>1. p \in Range(k.list)
      BY <1>0, <2>1, Zenon DEF Range
    <3> QED BY <3>1, Zenon DEF Reached
  <2> HIDE DEF p, w
  <2>7. CASE Round(k, i, frame) = With(k, p, w)
    <3> DEFINE g == With(k, p, w)
    <3>1. g \in Hubs(n) /\ g.list = k.list /\ g.down = k.down
          /\ g.ws = [k.ws EXCEPT ![p] = w]
      BY <2>1, <2>3, WithTyped, Zenon DEF With
    <3>2. g.ws[p] = w /\ \A q \in Pages \ {p} : g.ws[q] = k.ws[q]
      BY <1>0, <2>1, <3>1, Zenon
    <3> HIDE DEF g
    <3>3. ASSUME NEW j \in 1..Len(k.list)
          PROVE  /\ g.ws[k.list[j]] \in {h.ws[k.list[j]], Served(h.ws[k.list[j]], frame)}
                 /\ j > i => g.ws[k.list[j]] = h.ws[k.list[j]]
                 /\ Len(k.list) = Len(h.list) /\ j <= i =>
                      g.ws[k.list[j]] = Served(h.ws[k.list[j]], frame)
      <4>1. k.list[j] \in Pages
        BY <1>0
      <4>2. CASE j = i
        BY <2>1, <3>2, <4>2 DEF w, p
      <4>3. CASE j # i
        <5>1. g.ws[k.list[j]] = k.ws[k.list[j]]
          BY <2>5, <3>2, <4>1, <4>3, Zenon
        <5>2. (j > i => j > i - 1) /\ (j <= i => j <= i - 1)
          BY <1>0, <4>3
        <5> QED BY <5>1, <5>2, Zenon DEF Reached
      <4> QED BY <4>2, <4>3, Zenon
    <3>4. ASSUME NEW q \in Pages \ Range(k.list)
          PROVE  g.ws[q] = k.ws[q]
      BY <2>6, <3>2, Zenon
    <3>5. Reached(h, frame, i, g)
      <4>1. /\ IsInjective(g.list) /\ Range(g.list) \subseteq Range(h.list)
            /\ Len(g.list) <= Len(h.list)
            /\ \A j \in 1..Len(g.list) : g.down[g.list[j]] = h.down[g.list[j]]
        <5>1. /\ IsInjective(k.list) /\ Range(k.list) \subseteq Range(h.list)
              /\ Len(k.list) <= Len(h.list)
              /\ \A j \in 1..Len(k.list) : k.down[k.list[j]] = h.down[k.list[j]]
          BY Zenon DEF Reached
        <5> QED BY <3>1, <5>1
      <4>2. \A q \in Pages \ Range(g.list) :
              IF q \in Range(h.list)
              THEN g.ws[q] = NewClient /\ Closing \in Range(g.down[q])
              ELSE g.ws[q] = h.ws[q] /\ g.down[q] = h.down[q]
        BY <3>1, <3>4, Zenon DEF Reached
      <4>3. \A j \in 1..Len(g.list) :
              /\ g.ws[g.list[j]] \in {h.ws[g.list[j]], Served(h.ws[g.list[j]], frame)}
              /\ j > i => g.ws[g.list[j]] = h.ws[g.list[j]]
              /\ Len(g.list) = Len(h.list) /\ j <= i =>
                   g.ws[g.list[j]] = Served(h.ws[g.list[j]], frame)
        BY <3>1, <3>3
      <4> QED BY <4>1, <4>2, <4>3, Zenon DEF Reached
    <3> QED BY <2>7, <3>1, <3>5, Zenon DEF g
  <2>8. CASE Round(k, i, frame) = Teardown(k, p)
    <3> DEFINE g == Teardown(k, p)
    <3>1. /\ g \in Hubs(n) /\ g.list = Removed(k.list, p)
          /\ g.ws = [k.ws EXCEPT ![p] = NewClient]
          /\ g.down = [k.down EXCEPT ![p] = Append(@, Closing)]
          /\ g.down[p] = Append(k.down[p], Closing)
      <4>1. IsInjective(k.list)
        BY Zenon DEF Reached
      <4>2. p = k.list[i]
        BY Zenon DEF p
      <4>3. i \in 1..Len(k.list)
        BY <2>1, Zenon
      <4> HIDE DEF g
      <4>4. Teardown(k, p) \in Hubs(n) /\ Dropped(k, Teardown(k, p), p)
        BY <4>1, <4>2, <4>3, TeardownTyped, Zenon
      <4> QED BY <4>4, Zenon DEF g, Dropped
    <3>2. \A q \in Pages \ {p} : g.ws[q] = k.ws[q] /\ g.down[q] = k.down[q]
      BY <1>0, <3>1, Zenon
    <3>3. /\ Len(g.list) = Len(k.list) - 1
          /\ \A j \in 1..(i - 1) : g.list[j] = k.list[j]
          /\ \A j \in i..(Len(k.list) - 1) : g.list[j] = k.list[j + 1]
          /\ IsInjective(g.list) /\ Range(g.list) = Range(k.list) \ {p}
      <4>1. IsInjective(k.list)
        BY Zenon DEF Reached
      <4>2. /\ Len(Removed(k.list, p)) = Len(k.list) - 1
            /\ \A j \in 1..(i - 1) : Removed(k.list, p)[j] = k.list[j]
            /\ \A j \in i..(Len(k.list) - 1) : Removed(k.list, p)[j] = k.list[j + 1]
        BY <1>0, <2>1, <4>1, RemoveOne, Zenon DEF p
      <4>3. /\ IsInjective(Removed(k.list, p))
            /\ Range(Removed(k.list, p)) = Range(k.list) \ {p}
        BY <1>0, <2>1, <4>1, RemoveKeeps, Zenon DEF p
      <4> QED BY <3>1, <4>2, <4>3, Zenon
    <3>4. Closing \in Range(g.down[p])
      <4>1. k.down[p] \in Seq(Frames(n)) /\ Closing \in Frames(n)
        BY <1>0, <2>1, Zenon DEF Frames
      <4> DEFINE d == k.down[p]
      <4>2. Len(d) + 1 \in DOMAIN Append(d, Closing)
            /\ Append(d, Closing)[Len(d) + 1] = Closing
        BY <4>1
      <4> QED BY <3>1, <4>2, Zenon DEF Range
    <3> HIDE DEF g
    <3>5. ASSUME NEW j \in 1..Len(g.list)
          PROVE  /\ g.down[g.list[j]] = h.down[g.list[j]]
                 /\ g.ws[g.list[j]] \in {h.ws[g.list[j]], Served(h.ws[g.list[j]], frame)}
                 /\ j > i => g.ws[g.list[j]] = h.ws[g.list[j]]
      <4> DEFINE m == IF j < i THEN j ELSE j + 1
      <4>1. m \in 1..Len(k.list) /\ m # i /\ g.list[j] = k.list[m]
            /\ (j > i => m > i - 1)
        <5>1. j \in Nat /\ i \in Nat /\ 1 <= j /\ j <= Len(k.list) - 1
          BY <1>0, <3>3
        <5>2. CASE j < i
          BY <1>0, <2>1, <3>3, <5>1, <5>2
        <5>3. CASE j >= i
          BY <1>0, <2>1, <3>3, <5>1, <5>3
        <5> QED BY <5>1, <5>2, <5>3
      <4> HIDE DEF m
      <4>2. k.list[m] \in Pages \ {p}
        BY <1>0, <2>5, <4>1
      <4>3. /\ k.down[k.list[m]] = h.down[k.list[m]]
            /\ k.ws[k.list[m]] \in {h.ws[k.list[m]], Served(h.ws[k.list[m]], frame)}
            /\ m > i - 1 => k.ws[k.list[m]] = h.ws[k.list[m]]
        BY <4>1, Zenon DEF Reached
      <4>4. g.ws[k.list[m]] = k.ws[k.list[m]] /\ g.down[k.list[m]] = k.down[k.list[m]]
        BY <3>2, <4>2, Zenon
      <4> QED BY <4>1, <4>3, <4>4, Zenon
    <3>6. ASSUME NEW q \in Pages \ Range(g.list)
          PROVE  IF q \in Range(h.list)
                 THEN g.ws[q] = NewClient /\ Closing \in Range(g.down[q])
                 ELSE g.ws[q] = h.ws[q] /\ g.down[q] = h.down[q]
      <4>1. CASE q = p
        <5>1. g.ws[p] = NewClient
          BY <1>0, <2>1, <3>1, Zenon
        <5> QED BY <2>6, <3>4, <4>1, <5>1, Zenon
      <4>2. CASE q # p
        <5>1. q \in Pages \ Range(k.list)
          BY <3>3, <4>2, Zenon
        <5> QED BY <3>2, <4>2, <5>1, Zenon DEF Reached
      <4> QED BY <4>1, <4>2, Zenon
    <3>7. Len(g.list) <= Len(h.list) /\ Len(g.list) # Len(h.list)
          /\ Range(g.list) \subseteq Range(h.list)
      <4>1. Len(k.list) <= Len(h.list) /\ Range(k.list) \subseteq Range(h.list)
        BY Zenon DEF Reached
      <4>2. Len(g.list) <= Len(h.list) /\ Len(g.list) # Len(h.list)
        BY <1>0, <3>3, <4>1
      <4> QED BY <3>3, <4>1, <4>2, Zenon
    <3>8. Reached(h, frame, i, g)
      BY <3>3, <3>5, <3>6, <3>7, Zenon DEF Reached
    <3> QED BY <2>8, <3>1, <3>8, Zenon DEF g
  <2> QED BY <2>4, <2>7, <2>8, Zenon
<1> QED BY <1>0, <1>1, <1>2

(* What a broadcast does: it drops clients, whose pages will see their      *)
(* connection close; of the others each is served or as it was, and all are *)
(* served unless one was dropped.                                           *)
LEMMA BroadcastEffect ==
  ASSUME NEW n \in Nat, NEW h \in Hubs(n), IsInjective(h.list),
         NEW frame \in Records(n) \cup {Restarted}
  PROVE  /\ Broadcast(h, frame) \in Hubs(n)
         /\ Reached(h, frame, Len(h.list), Broadcast(h, frame))
<1> DEFINE G == [i \in 0..Len(h.list) |-> {k \in Hubs(n) : Reached(h, frame, i, k)}]
<1>0. Len(h.list) \in Nat /\ DOMAIN h.list = 1..Len(h.list)
  BY HubFields
<1>1. h \in G[0]
  <2>1. Reached(h, frame, 0, h)
    <3>1. \A j \in 1..Len(h.list) : ~(j <= 0)
      BY <1>0
    <3> QED BY <1>0, <3>1 DEF Reached
  <2> QED BY <1>0, <2>1
<1>2. ASSUME NEW i \in 1..Len(h.list), NEW k \in G[i - 1]
      PROVE  Round(k, i, frame) \in G[i]
  <2>1. i - 1 \in 0..Len(h.list) /\ i \in 0..Len(h.list)
    BY <1>0
  <2>2. k \in Hubs(n) /\ Reached(h, frame, i - 1, k)
    BY <2>1, Zenon
  <2>3. Round(k, i, frame) \in Hubs(n) /\ Reached(h, frame, i, Round(k, i, frame))
    BY <2>2, RoundStep, Zenon
  <2> QED BY <2>1, <2>3, Zenon
<1> HIDE DEF G
<1>3. Broadcast(h, frame) \in G[Len(h.list)]
  BY <1>0, <1>1, <1>2, BroadcastInduction, Zenon
<1> QED BY <1>0, <1>3 DEF G

-----------------------------------------------------------------------------
(* The invariant *)

HubOK(h, n) == h \in Hubs(n) /\ IsInjective(h.list)

(* Nothing announces the end of client p's connection. *)
Quiet(h, p) ==
  /\ ~h.ws[p].closing
  /\ Closing \notin Range(h.ws[p].out) /\ Closing \notin Range(h.down[p])

(* Client p, its page's socket and the frames between them agree on whether *)
(* they are connected: only a page that left says so, and only a connection *)
(* that is ending brings a close frame.                                     *)
ConnOK(h, p, socket, in) ==
  /\ p \notin Range(h.list) => h.ws[p] = NewClient
  /\ socket = "connecting" => p \notin Range(h.list)
  /\ socket # "gone" => NoTicker \notin Range(in)
  /\ p \in Range(h.list) /\ socket # "gone" => Quiet(h, p)
  /\ socket = "open" => p \in Range(h.list) \/ Closing \in Range(h.down[p])

(* HeldBack, of one client *)
Holds(w, img, passed) ==
  w.pending # Nothing /\ ~w.closing =>
    /\ w.timer # "off"
    /\ w.pending.ticker = w.subscribed
    /\ ~passed /\ w.subscribed \in DOMAIN img => w.pending.v = img[w.subscribed]

Images(n) == UNION {[D -> 1..n] : D \in SUBSET PushTickers}

PushInv ==
  /\ updates \in Nat /\ HubOK(Hub, updates)
  /\ image \in Images(updates)
  /\ page \in [Pages -> [selected : Tickers, shown : Frames(updates),
                         socket : {"connecting", "open", "gone"}]]
  /\ inbound \in [Pages -> Seq(Tickers)]
  /\ \A p \in Pages : ConnOK(Hub, p, page[p].socket, inbound[p])
  /\ \A p \in Range(clients) : Holds(ws[p], image, p \in missed)

-----------------------------------------------------------------------------
(* Sequences of frames *)

LEMMA AppendRange ==
  ASSUME NEW S, NEW s \in Seq(S), NEW x \in S
  PROVE  Append(s, x) \in Seq(S) /\ Range(Append(s, x)) = Range(s) \cup {x}
<1>1. /\ Append(s, x) \in Seq(S) /\ Len(s) \in Nat
      /\ DOMAIN s = 1..Len(s) /\ DOMAIN Append(s, x) = 1..(Len(s) + 1)
      /\ Append(s, x)[Len(s) + 1] = x
      /\ \A i \in 1..Len(s) : Append(s, x)[i] = s[i]
  OBVIOUS
<1> DEFINE a == Append(s, x)
<1> HIDE DEF a
<1>2. ASSUME NEW y \in Range(a) PROVE y \in Range(s) \cup {x}
  <2>1. PICK i \in DOMAIN a : y = a[i]
    BY Zenon DEF Range
  <2>2. i \in 1..Len(s) \/ i = Len(s) + 1
    BY <1>1, <2>1 DEF a
  <2> QED BY <1>1, <2>1, <2>2, Zenon DEF a, Range
<1>3. ASSUME NEW y \in Range(s) PROVE y \in Range(a)
  <2>1. PICK i \in DOMAIN s : y = s[i]
    BY Zenon DEF Range
  <2>2. i \in DOMAIN a /\ a[i] = y
    BY <1>1, <2>1 DEF a
  <2> QED BY <2>2, Zenon DEF Range
<1>4. x \in Range(a)
  <2>1. Len(s) + 1 \in DOMAIN a /\ a[Len(s) + 1] = x
    BY <1>1 DEF a
  <2> QED BY <2>1, Zenon DEF Range
<1> QED BY <1>1, <1>2, <1>3, <1>4, Zenon DEF a

(* What is not in a sequence is in no part of it. *)
LEMMA PartRange ==
  ASSUME NEW S, NEW s \in Seq(S), NEW m \in 1..(Len(s) + 1), NEW n \in 0..Len(s)
  PROVE  SubSeq(s, m, n) \in Seq(S) /\ Range(SubSeq(s, m, n)) \subseteq Range(s)
<1> DEFINE t == SubSeq(s, m, n)
<1>1. t \in Seq(S) /\ DOMAIN s = 1..Len(s)
      /\ \A i \in DOMAIN t : (i + m) - 1 \in DOMAIN s /\ t[i] = s[(i + m) - 1]
  OBVIOUS
<1> HIDE DEF t
<1> QED BY <1>1, Zenon DEF Range, t

LEMMA JoinRange ==
  ASSUME NEW S, NEW s \in Seq(S), NEW t \in Seq(S)
  PROVE  s \o t \in Seq(S) /\ Range(s \o t) = Range(s) \cup Range(t)
<1> DEFINE c == s \o t
<1>1. /\ c \in Seq(S) /\ Len(c) = Len(s) + Len(t) /\ Len(s) \in Nat /\ Len(t) \in Nat
      /\ DOMAIN s = 1..Len(s) /\ DOMAIN t = 1..Len(t) /\ DOMAIN c = 1..Len(c)
      /\ \A i \in 1..Len(s) : c[i] = s[i]
      /\ \A i \in 1..Len(t) : c[Len(s) + i] = t[i]
  <2>1. /\ c \in Seq(S) /\ Len(c) = Len(s) + Len(t)
        /\ \A i \in 1..Len(s) : c[i] = s[i]
        /\ \A i \in (Len(s) + 1)..(Len(s) + Len(t)) : c[i] = t[i - Len(s)]
    BY ConcatProperties
  <2> HIDE DEF c
  <2>2. ASSUME NEW i \in 1..Len(t) PROVE c[Len(s) + i] = t[i]
    <3>1. Len(s) + i \in (Len(s) + 1)..(Len(s) + Len(t)) /\ (Len(s) + i) - Len(s) = i
      OBVIOUS
    <3> QED BY <2>1, <3>1, Zenon
  <2> QED BY <2>1, <2>2
<1> HIDE DEF c
<1>2. ASSUME NEW y \in Range(c) PROVE y \in Range(s) \cup Range(t)
  <2>1. PICK i \in DOMAIN c : y = c[i]
    BY Zenon DEF Range
  <2>2. CASE i \in 1..Len(s)
    BY <1>1, <2>1, <2>2, Zenon DEF Range
  <2>3. CASE i > Len(s)
    <3>1. i - Len(s) \in 1..Len(t) /\ Len(s) + (i - Len(s)) = i
      BY <1>1, <2>1, <2>3
    <3>2. i - Len(s) \in DOMAIN t /\ y = t[i - Len(s)]
      BY <1>1, <2>1, <3>1, Zenon
    <3> QED BY <3>2, Zenon DEF Range
  <2> QED BY <1>1, <2>1, <2>2, <2>3
<1>3. ASSUME NEW y \in Range(s) PROVE y \in Range(c)
  <2>1. PICK i \in DOMAIN s : y = s[i]
    BY Zenon DEF Range
  <2>2. i \in DOMAIN c /\ c[i] = y
    BY <1>1, <2>1
  <2> QED BY <2>2, Zenon DEF Range
<1>4. ASSUME NEW y \in Range(t) PROVE y \in Range(c)
  <2>1. PICK i \in DOMAIN t : y = t[i]
    BY Zenon DEF Range
  <2>2. Len(s) + i \in DOMAIN c /\ c[Len(s) + i] = y
    BY <1>1, <2>1
  <2> QED BY <2>2, Zenon DEF Range
<1> QED BY <1>1, <1>2, <1>3, <1>4, Zenon DEF c

LEMMA TailRange ==
  ASSUME NEW S, NEW s \in Seq(S), s # <<>>
  PROVE  /\ Tail(s) \in Seq(S) /\ Head(s) \in S
         /\ Range(s) = {Head(s)} \cup Range(Tail(s))
<1>1. /\ Tail(s) \in Seq(S) /\ Head(s) \in S /\ Len(s) \in Nat \ {0}
      /\ DOMAIN s = 1..Len(s) /\ DOMAIN Tail(s) = 1..(Len(s) - 1) /\ Head(s) = s[1]
      /\ \A i \in 1..(Len(s) - 1) : Tail(s)[i] = s[i + 1]
  OBVIOUS
<1> DEFINE t == Tail(s)
<1> HIDE DEF t
<1>2. ASSUME NEW y \in Range(s) PROVE y \in {Head(s)} \cup Range(t)
  <2>1. PICK i \in DOMAIN s : y = s[i]
    BY Zenon DEF Range
  <2>2. CASE i = 1
    BY <1>1, <2>1, <2>2, Zenon
  <2>3. CASE i # 1
    <3>1. i - 1 \in DOMAIN t /\ t[i - 1] = y
      BY <1>1, <2>1, <2>3 DEF t
    <3> QED BY <3>1, Zenon DEF Range
  <2> QED BY <2>2, <2>3, Zenon
<1>3. ASSUME NEW y \in Range(t) PROVE y \in Range(s)
  <2>1. PICK i \in DOMAIN t : y = t[i]
    BY Zenon DEF Range
  <2>2. i + 1 \in DOMAIN s /\ s[i + 1] = y
    BY <1>1, <2>1 DEF t
  <2> QED BY <2>2, Zenon DEF Range
<1>4. Head(s) \in Range(s)
  BY <1>1 DEF Range
<1> QED BY <1>1, <1>2, <1>3, <1>4, Zenon DEF t

-----------------------------------------------------------------------------
(* One client changes *)

(* Hubs h and k agree on every client but p. *)
Apart(h, k, p) ==
  \A q \in Pages \ {p} :
    /\ k.ws[q] = h.ws[q] /\ k.down[q] = h.down[q]
    /\ q \in Range(k.list) <=> q \in Range(h.list)

TornDown(k, p) ==
  p \notin Range(k.list) /\ k.ws[p] = NewClient /\ Closing \in Range(k.down[p])

(* Client p of hub k is w, and its page has the frames d still to see. *)
Stands(k, p, w, d) == p \in Range(k.list) /\ k.ws[p] = w /\ k.down[p] = d

LEMMA ApartTwice ==
  ASSUME NEW h, NEW j, NEW k, NEW p, Apart(h, j, p), Apart(j, k, p)
  PROVE  Apart(h, k, p)
BY Zenon DEF Apart

LEMMA DropOne ==
  ASSUME NEW n \in Nat, NEW h, HubOK(h, n), NEW p \in Range(h.list)
  PROVE  LET k == Teardown(h, p)
         IN HubOK(k, n) /\ Apart(h, k, p) /\ TornDown(k, p)
<1> DEFINE k == Teardown(h, p)
<1>1. h \in Hubs(n) /\ IsInjective(h.list)
  BY Zenon DEF HubOK
<1>2. h.list \in Seq(Pages) /\ h.ws \in [Pages -> Conns(n)]
      /\ h.down \in [Pages -> Seq(Frames(n))] /\ DOMAIN h.list = 1..Len(h.list)
  BY <1>1, HubFields
<1>3. PICK m \in 1..Len(h.list) : p = h.list[m]
  BY <1>2, Zenon DEF Range
<1>4. k \in Hubs(n) /\ Dropped(h, k, p)
  BY <1>1, <1>3, TeardownTyped, Zenon
<1>5. /\ IsInjective(Removed(h.list, p))
      /\ Range(Removed(h.list, p)) = Range(h.list) \ {p}
  BY <1>1, <1>2, <1>3, RemoveKeeps, Zenon
<1> HIDE DEF k
<1>6. k.list = Removed(h.list, p) /\ k.ws = [h.ws EXCEPT ![p] = NewClient]
      /\ k.down = [h.down EXCEPT ![p] = Append(@, Closing)]
      /\ k.down[p] = Append(h.down[p], Closing)
  BY <1>4, Zenon DEF Dropped
<1>7. p \in Pages
  BY <1>2, <1>3
<1>8. Closing \in Range(k.down[p])
  <2>1. h.down[p] \in Seq(Frames(n)) /\ Closing \in Frames(n)
    BY <1>2, <1>7, Zenon DEF Frames
  <2> QED BY <1>6, <2>1, AppendRange
<1>9. k.ws[p] = NewClient
      /\ \A q \in Pages \ {p} : k.ws[q] = h.ws[q] /\ k.down[q] = h.down[q]
  BY <1>2, <1>6, <1>7, Zenon
<1> QED BY <1>4, <1>5, <1>6, <1>8, <1>9, Zenon DEF HubOK, Apart, TornDown, k

(* Client p becomes w, and its page has d to see. *)
LEMMA ChangeBoth ==
  ASSUME NEW n \in Nat, NEW h, HubOK(h, n), NEW p \in Pages, NEW w \in Conns(n),
         NEW d \in Seq(Frames(n))
  PROVE  LET k == [list |-> h.list, ws |-> [h.ws EXCEPT ![p] = w],
                   down |-> [h.down EXCEPT ![p] = d]]
         IN /\ HubOK(k, n) /\ Apart(h, k, p) /\ k.list = h.list
            /\ p \in Range(h.list) => Stands(k, p, w, d)
            /\ k.ws[p] = w /\ k.down[p] = d
<1> DEFINE k == [list |-> h.list, ws |-> [h.ws EXCEPT ![p] = w],
                 down |-> [h.down EXCEPT ![p] = d]]
<1>1. h \in Hubs(n) /\ IsInjective(h.list)
  BY Zenon DEF HubOK
<1>2. h.list \in Seq(Pages) /\ h.ws \in [Pages -> Conns(n)]
      /\ h.down \in [Pages -> Seq(Frames(n))]
  BY <1>1, HubFields, Zenon
<1>3. /\ [h.ws EXCEPT ![p] = w] \in [Pages -> Conns(n)]
      /\ [h.down EXCEPT ![p] = d] \in [Pages -> Seq(Frames(n))]
  BY <1>2, Zenon
<1>4. k \in Hubs(n) /\ k.list = h.list
  BY <1>2, <1>3, Zenon DEF Hubs
<1>5. k.ws[p] = w /\ k.down[p] = d
      /\ \A q \in Pages \ {p} : k.ws[q] = h.ws[q] /\ k.down[q] = h.down[q]
  BY <1>2, Zenon
<1> HIDE DEF k
<1> QED BY <1>1, <1>4, <1>5, Zenon DEF HubOK, Apart, Stands, k

Changed(h, p, w, d) ==
  [list |-> h.list, ws |-> [h.ws EXCEPT ![p] = w], down |-> [h.down EXCEPT ![p] = d]]

LEMMA ChangedTyped ==
  ASSUME NEW n \in Nat, NEW h, HubOK(h, n), NEW p \in Range(h.list), NEW w \in Conns(n),
         NEW d \in Seq(Frames(n))
  PROVE  LET k == Changed(h, p, w, d)
         IN HubOK(k, n) /\ Apart(h, k, p) /\ k.list = h.list /\ Stands(k, p, w, d)
<1>1. p \in Pages
  <2>1. h.list \in Seq(Pages)
    BY HubFields, Zenon DEF HubOK
  <2> QED BY <2>1 DEF Range
<1> QED BY <1>1, ChangeBoth, Zenon DEF Changed

LEMMA ChangeOne ==
  ASSUME NEW n \in Nat, NEW h, HubOK(h, n), NEW p \in Range(h.list), NEW w \in Conns(n)
  PROVE  LET k == With(h, p, w)
         IN HubOK(k, n) /\ Apart(h, k, p) /\ Stands(k, p, w, h.down[p])
<1>1. h \in Hubs(n) /\ IsInjective(h.list)
  BY Zenon DEF HubOK
<1>2. h.list \in Seq(Pages) /\ h.ws \in [Pages -> Conns(n)]
      /\ h.down \in [Pages -> Seq(Frames(n))] /\ DOMAIN h.list = 1..Len(h.list)
  BY <1>1, HubFields
<1>3. p \in Pages
  BY <1>2 DEF Range
<1>4. h.down[p] \in Seq(Frames(n)) /\ [h.down EXCEPT ![p] = h.down[p]] = h.down
  BY <1>2, <1>3, Zenon
<1>5. With(h, p, w) = [list |-> h.list, ws |-> [h.ws EXCEPT ![p] = w],
                       down |-> [h.down EXCEPT ![p] = h.down[p]]]
  BY <1>4, Zenon DEF With
<1> DEFINE k == [list |-> h.list, ws |-> [h.ws EXCEPT ![p] = w],
                 down |-> [h.down EXCEPT ![p] = h.down[p]]]
<1>6. HubOK(k, n) /\ Apart(h, k, p) /\ (p \in Range(h.list) => Stands(k, p, w, h.down[p]))
  BY <1>3, <1>4, ChangeBoth, Zenon
<1> HIDE DEF k
<1>7. With(h, p, w) = k
  BY <1>5, Zenon DEF k
<1> QED BY <1>6, <1>7, Zenon

LEMMA EnqueueAfter ==
  ASSUME NEW n \in Nat, NEW h, HubOK(h, n), NEW p \in Pages, NEW w \in Conns(n), NEW x
  PROVE  Enqueue(With(h, p, w), p, x) \in
           {Teardown(h, p), With(h, p, [w EXCEPT !.out = Append(@, x)])}
<1>0. h \in Hubs(n)
  BY Zenon DEF HubOK
<1>1. With(h, p, w) \in Hubs(n)
  BY <1>0, WithTyped, Zenon
<1>2. /\ Teardown(With(h, p, w), p) = Teardown(h, p) /\ With(h, p, w).ws[p] = w
      /\ With(With(h, p, w), p, [w EXCEPT !.out = Append(@, x)])
           = With(h, p, [w EXCEPT !.out = Append(@, x)])
  BY <1>0, TeardownForgets, WithTwice
<1>3. Enqueue(With(h, p, w), p, x) \in
        {Teardown(With(h, p, w), p),
         With(With(h, p, w), p, [With(h, p, w).ws[p] EXCEPT !.out = Append(@, x)])}
  BY <1>1, EnqueueEffect, Zenon
<1> QED BY <1>2, <1>3, Zenon

LEMMA HubIs ==
  ASSUME NEW n \in Nat, NEW k, HubOK(k, n), Become(k)
  PROVE  Hub' = k /\ clients' = k.list /\ ws' = k.ws /\ down' = k.down
<1>1. k \in Hubs(n)
  BY Zenon DEF HubOK
<1>2. k = [list |-> k.list, ws |-> k.ws, down |-> k.down]
  BY <1>1, HubFields, Zenon
<1> QED BY <1>2, Zenon DEF Become, Hub

(* The end of a connection is in order whatever it was. *)
LEMMA TornConn ==
  ASSUME NEW k, NEW p, NEW socket, NEW in, TornDown(k, p),
         socket # "gone" => NoTicker \notin Range(in)
  PROVE  ConnOK(k, p, socket, in)
BY Zenon DEF TornDown, ConnOK

LEMMA StandsConn ==
  ASSUME NEW k, NEW p, NEW w, NEW d, NEW socket, NEW in, Stands(k, p, w, d),
         socket # "connecting",
         socket # "gone" => /\ NoTicker \notin Range(in) /\ ~w.closing
                            /\ Closing \notin Range(w.out) /\ Closing \notin Range(d)
  PROVE  ConnOK(k, p, socket, in)
BY Zenon DEF Stands, ConnOK, Quiet

PageType(n) == [selected : Tickers, shown : Frames(n),
                socket : {"connecting", "open", "gone"}]

(* A step of one connection or page leaves the others as they are. *)
LEMMA PageStep ==
  ASSUME PushInv, NEW p \in Pages, NEW k, HubOK(k, updates), Become(k),
         Apart(Hub, k, p), updates' = updates, image' = image,
         page' \in [Pages -> PageType(updates)], inbound' \in [Pages -> Seq(Tickers)],
         \A q \in Pages \ {p} : /\ page'[q] = page[q] /\ inbound'[q] = inbound[q]
                                /\ q \in missed' <=> q \in missed,
         ConnOK(k, p, page'[p].socket, inbound'[p]),
         p \in Range(k.list) => Holds(k.ws[p], image, p \in missed')
  PROVE  PushInv'
<1>1. Hub' = k /\ clients' = k.list /\ ws' = k.ws /\ down' = k.down
  BY HubIs, Zenon DEF PushInv
<1>2. ASSUME NEW q \in Pages PROVE ConnOK(k, q, page'[q].socket, inbound'[q])
  <2>1. CASE q = p
    BY <2>1, Zenon
  <2>2. CASE q # p
    <3>1. ConnOK(Hub, q, page'[q].socket, inbound'[q])
      BY <2>2, Zenon DEF PushInv
    <3>2. /\ k.ws[q] = Hub.ws[q] /\ k.down[q] = Hub.down[q]
          /\ q \in Range(k.list) <=> q \in Range(Hub.list)
      BY <2>2, Zenon DEF Apart
    <3> QED BY <3>1, <3>2, Zenon DEF ConnOK, Quiet
  <2> QED BY <2>1, <2>2, Zenon
<1>3. Range(k.list) \subseteq Pages
  <2>1. k.list \in Seq(Pages)
    BY HubFields, Zenon DEF HubOK, PushInv
  <2> QED BY <2>1 DEF Range
<1>4. ASSUME NEW q \in Range(k.list) PROVE Holds(k.ws[q], image, q \in missed')
  <2>1. CASE q = p
    BY <2>1, Zenon
  <2>2. CASE q # p
    <3>1. q \in Range(clients) /\ k.ws[q] = ws[q] /\ q \in Pages
      BY <1>3, <2>2, Zenon DEF Apart, Hub
    <3>2. Holds(ws[q], image, q \in missed)
      BY <3>1, Zenon DEF PushInv
    <3>3. (q \in missed') = (q \in missed)
      BY <2>2, <3>1
    <3> QED BY <3>1, <3>2, <3>3, Zenon
  <2> QED BY <2>1, <2>2, Zenon
<1>5. updates' \in Nat /\ image' \in Images(updates')
  BY Zenon DEF PushInv
<1> QED BY <1>1, <1>2, <1>4, <1>5, Zenon DEF PushInv, PageType

-----------------------------------------------------------------------------
(* The steps of a page *)

LEMMA PushFacts ==
  ASSUME PushInv, NEW p \in Pages
  PROVE  /\ updates \in Nat /\ HubOK(Hub, updates)
         /\ Hub.list = clients /\ Hub.ws = ws /\ Hub.down = down
         /\ Hub = [list |-> clients, ws |-> ws, down |-> down]
         /\ clients \in Seq(Pages) /\ ws \in [Pages -> Conns(updates)]
         /\ down \in [Pages -> Seq(Frames(updates))]
         /\ ws[p] \in Conns(updates) /\ down[p] \in Seq(Frames(updates))
         /\ page \in [Pages -> PageType(updates)] /\ page[p] \in PageType(updates)
         /\ inbound \in [Pages -> Seq(Tickers)] /\ inbound[p] \in Seq(Tickers)
         /\ ConnOK(Hub, p, page[p].socket, inbound[p])
         /\ p \in Range(clients) => Holds(ws[p], image, p \in missed)
<1>1. updates \in Nat /\ HubOK(Hub, updates)
  BY Zenon DEF PushInv
<1>2. Hub.list = clients /\ Hub.ws = ws /\ Hub.down = down
      /\ Hub = [list |-> clients, ws |-> ws, down |-> down]
  BY Zenon DEF Hub
<1>3. clients \in Seq(Pages) /\ ws \in [Pages -> Conns(updates)]
      /\ down \in [Pages -> Seq(Frames(updates))]
  BY <1>1, <1>2, HubFields, Zenon DEF HubOK
<1>4. page \in [Pages -> PageType(updates)] /\ inbound \in [Pages -> Seq(Tickers)]
  BY Zenon DEF PushInv, PageType
<1>5. ConnOK(Hub, p, page[p].socket, inbound[p])
      /\ (p \in Range(clients) => Holds(ws[p], image, p \in missed))
  BY Zenon DEF PushInv
<1> QED BY <1>1, <1>2, <1>3, <1>4, <1>5, Zenon

(* A page without a connection has nothing under way. *)
LEMMA Unattached ==
  ASSUME PushInv, NEW p \in Pages, p \notin Range(clients)
  PROVE  ~ws[p].hot /\ ws[p].timer = "off"
<1>1. ws[p] = NewClient
  BY PushFacts, Zenon DEF ConnOK
<1>2. ~NewClient.hot /\ NewClient.timer = "off"
  BY Zenon DEF NewClient
<1> QED BY <1>1, <1>2, Zenon

(* A hub whose only news is in what page p has still to see. *)
LEMMA SeesOnly ==
  ASSUME PushInv, NEW p \in Pages, NEW d \in Seq(Frames(updates)), clients' = clients,
         ws' = ws, down' = [down EXCEPT ![p] = d]
  PROVE  \E k : /\ HubOK(k, updates) /\ Become(k) /\ Apart(Hub, k, p)
                /\ k.list = clients /\ k.ws = ws /\ k.down[p] = d
<1> DEFINE k == [list |-> Hub.list, ws |-> [Hub.ws EXCEPT ![p] = ws[p]],
                 down |-> [Hub.down EXCEPT ![p] = d]]
<1>1. HubOK(k, updates) /\ Apart(Hub, k, p) /\ k.down[p] = d
  BY PushFacts, ChangeBoth, Zenon
<1>2. [ws EXCEPT ![p] = ws[p]] = ws
  BY PushFacts, Zenon
<1>3. k.list = clients /\ k.ws = ws /\ k.down = [down EXCEPT ![p] = d]
  BY <1>2, PushFacts, Zenon
<1> HIDE DEF k
<1>4. Become(k)
  BY <1>3, Zenon DEF Become
<1> QED BY <1>1, <1>3, <1>4, Zenon

LEMMA SameHub ==
  ASSUME PushInv, clients' = clients, ws' = ws, down' = down, NEW p \in Pages
  PROVE  HubOK(Hub, updates) /\ Become(Hub) /\ Apart(Hub, Hub, p)
BY PushFacts, Zenon DEF Become, Apart

(* selectTicker *)
LEMMA PushSelectStep ==
  ASSUME PushAssumption, PushInv, NEW p \in Pages, NEW t \in PushTickers, SelectTicker(p, t)
  PROVE  PushInv'
<1>1. /\ updates' = updates /\ image' = image /\ missed' = missed
      /\ clients' = clients /\ ws' = ws /\ down' = down
      /\ page' = [page EXCEPT ![p].selected = t, ![p].shown = Unknown]
      /\ inbound' = IF page[p].socket = "open"
                    THEN [inbound EXCEPT ![p] = Append(@, t)] ELSE inbound
  BY Zenon DEF SelectTicker
<1>2. t \in Tickers /\ t # NoTicker /\ Unknown \in Frames(updates)
  BY Zenon DEF Tickers, PushAssumption, NoTicker, Frames
<1>3. page' \in [Pages -> PageType(updates)] /\ page'[p].socket = page[p].socket
      /\ \A q \in Pages \ {p} : page'[q] = page[q]
  BY <1>1, <1>2, PushFacts, Zenon DEF PageType
<1>4. Append(inbound[p], t) \in Seq(Tickers)
      /\ Range(Append(inbound[p], t)) = Range(inbound[p]) \cup {t}
  BY <1>2, PushFacts, AppendRange
<1>5. inbound' \in [Pages -> Seq(Tickers)] /\ \A q \in Pages \ {p} : inbound'[q] = inbound[q]
  BY <1>1, <1>4, PushFacts, Zenon
<1>6. NoTicker \in Range(inbound'[p]) => NoTicker \in Range(inbound[p])
  BY <1>1, <1>2, <1>4, PushFacts, Zenon
<1>7. ConnOK(Hub, p, page'[p].socket, inbound'[p])
  BY <1>3, <1>6, PushFacts, Zenon DEF ConnOK
<1>8. p \in Range(Hub.list) => Holds(Hub.ws[p], image, p \in missed')
  BY <1>1, PushFacts, Zenon
<1>9. HubOK(Hub, updates) /\ Become(Hub) /\ Apart(Hub, Hub, p)
  BY <1>1, SameHub, Zenon
<1> QED BY <1>1, <1>3, <1>5, <1>7, <1>8, <1>9, PageStep, Zenon

(* onmessage *)
LEMMA OnMessageStep ==
  ASSUME PushInv, NEW p \in Pages, OnMessage(p)
  PROVE  PushInv'
<1>1. /\ updates' = updates /\ image' = image /\ missed' = missed
      /\ clients' = clients /\ ws' = ws /\ down' = [down EXCEPT ![p] = Tail(down[p])]
      /\ inbound' = inbound /\ page[p].socket = "open"
      /\ down[p] # <<>> /\ Head(down[p]) # Closing
      /\ page' = IF Head(down[p]) = Restarted THEN page
                 ELSE [page EXCEPT ![p].shown = Head(down[p])]
  BY PushFacts, Zenon DEF OnMessage, RenderSnapshot, counters
<1>2. Tail(down[p]) \in Seq(Frames(updates)) /\ Head(down[p]) \in Frames(updates)
      /\ Range(down[p]) = {Head(down[p])} \cup Range(Tail(down[p]))
  BY <1>1, PushFacts, TailRange, Zenon
<1>3. page' \in [Pages -> PageType(updates)] /\ page'[p].socket = page[p].socket
      /\ \A q \in Pages \ {p} : page'[q] = page[q]
  BY <1>1, <1>2, PushFacts, Zenon DEF PageType
<1>4. PICK k : /\ HubOK(k, updates) /\ Become(k) /\ Apart(Hub, k, p)
               /\ k.list = clients /\ k.ws = ws /\ k.down[p] = Tail(down[p])
  BY <1>1, <1>2, SeesOnly, Zenon
<1>5. Closing \in Range(k.down[p]) <=> Closing \in Range(down[p])
  BY <1>1, <1>2, <1>4, Zenon
<1>6. ConnOK(k, p, page'[p].socket, inbound'[p])
  BY <1>1, <1>3, <1>4, <1>5, PushFacts, Zenon DEF ConnOK, Quiet
<1>7. p \in Range(k.list) => Holds(k.ws[p], image, p \in missed')
  BY <1>1, <1>4, PushFacts, Zenon
<1>8. inbound' \in [Pages -> Seq(Tickers)]
  BY <1>1, PushFacts, Zenon
<1> QED BY <1>1, <1>3, <1>4, <1>6, <1>7, <1>8, PageStep, Zenon

(* onclose: the connection had ended. *)
LEMMA OnCloseStep ==
  ASSUME PushInv, NEW p \in Pages, OnClose(p)
  PROVE  PushInv'
<1>0. <<>> \in Seq(Tickers) /\ <<>> \in Seq(Frames(updates))
  OBVIOUS
<1>1. /\ updates' = updates /\ image' = image /\ missed' = missed
      /\ clients' = clients /\ ws' = ws /\ down' = [down EXCEPT ![p] = <<>>]
      /\ inbound' = [inbound EXCEPT ![p] = <<>>] /\ page[p].socket = "open"
      /\ down[p] # <<>> /\ Head(down[p]) = Closing
      /\ page' = [page EXCEPT ![p].socket = "connecting"]
  BY Zenon DEF OnClose, counters
<1>2. Closing \in Range(down[p])
  BY <1>1, PushFacts, TailRange
<1>3. /\ page' \in [Pages -> PageType(updates)] /\ page'[p].socket = "connecting"
      /\ \A q \in Pages \ {p} : page'[q] = page[q]
      /\ inbound' \in [Pages -> Seq(Tickers)] /\ inbound'[p] = <<>>
      /\ \A q \in Pages \ {p} : inbound'[q] = inbound[q]
  <2>1. /\ page' \in [Pages -> PageType(updates)] /\ page'[p].socket = "connecting"
        /\ \A q \in Pages \ {p} : page'[q] = page[q]
    BY <1>1, PushFacts, Zenon DEF PageType
  <2>2. /\ inbound' \in [Pages -> Seq(Tickers)] /\ inbound'[p] = <<>>
        /\ \A q \in Pages \ {p} : inbound'[q] = inbound[q]
    BY <1>0, <1>1, PushFacts, Zenon
  <2> QED BY <2>1, <2>2, Zenon
<1>4. PICK k : /\ HubOK(k, updates) /\ Become(k) /\ Apart(Hub, k, p)
               /\ k.list = clients /\ k.ws = ws /\ k.down[p] = <<>>
  BY <1>0, <1>1, SeesOnly, Zenon
<1>5. p \notin Range(clients)
  BY <1>1, <1>2, PushFacts, Zenon DEF ConnOK, Quiet
<1>6. NoTicker \notin Range(<<>>)
  BY DEF Range
<1>7. ConnOK(k, p, page'[p].socket, inbound'[p])
  BY <1>1, <1>3, <1>4, <1>5, <1>6, PushFacts, Zenon DEF ConnOK
<1> QED BY <1>1, <1>3, <1>4, <1>5, <1>7, PageStep, Zenon

(* The tab is closed. *)
LEMMA LeaveStep ==
  ASSUME PushInv, NEW p \in Pages, Leave(p)
  PROVE  PushInv'
<1>1. /\ updates' = updates /\ image' = image /\ missed' = missed
      /\ clients' = clients /\ ws' = ws /\ down' = down
      /\ page' = [page EXCEPT ![p].socket = "gone"]
      /\ inbound' = [inbound EXCEPT ![p] = Append(@, NoTicker)]
  BY Zenon DEF Leave
<1>2. Append(inbound[p], NoTicker) \in Seq(Tickers)
  BY PushFacts, AppendRange, Zenon DEF Tickers
<1>3. /\ page' \in [Pages -> PageType(updates)] /\ page'[p].socket = "gone"
      /\ \A q \in Pages \ {p} : page'[q] = page[q]
      /\ inbound' \in [Pages -> Seq(Tickers)]
      /\ \A q \in Pages \ {p} : inbound'[q] = inbound[q]
  BY <1>1, <1>2, PushFacts, Zenon DEF PageType
<1>7. ConnOK(Hub, p, page'[p].socket, inbound'[p])
  BY <1>3, PushFacts, Zenon DEF ConnOK
<1>8. p \in Range(Hub.list) => Holds(Hub.ws[p], image, p \in missed')
  BY <1>1, PushFacts, Zenon
<1>9. HubOK(Hub, updates) /\ Become(Hub) /\ Apart(Hub, Hub, p)
  BY <1>1, SameHub, Zenon
<1> QED BY <1>1, <1>3, <1>7, <1>8, <1>9, PageStep, Zenon

-----------------------------------------------------------------------------
(* The reactor's steps for a connection *)

LEMMA AppendOnce ==
  ASSUME NEW S, NEW s \in Seq(S), NEW x \in S, IsInjective(s), x \notin Range(s)
  PROVE  IsInjective(Append(s, x))
<1> DEFINE a == Append(s, x)
<1>1. /\ Len(s) \in Nat /\ DOMAIN s = 1..Len(s) /\ DOMAIN a = 1..(Len(s) + 1)
      /\ a[Len(s) + 1] = x /\ \A i \in 1..Len(s) : a[i] = s[i]
  OBVIOUS
<1> HIDE DEF a
<1>2. ASSUME NEW i \in DOMAIN a, NEW j \in DOMAIN a, a[i] = a[j] PROVE i = j
  <2>1. \A m \in 1..Len(s) : a[m] # x
    BY <1>1, Zenon DEF Range
  <2>2. CASE i \in 1..Len(s) /\ j \in 1..Len(s)
    BY <1>1, <1>2, <2>2, Zenon DEF IsInjective
  <2>3. CASE ~(i \in 1..Len(s) /\ j \in 1..Len(s))
    BY <1>1, <1>2, <2>1, <2>3
  <2> QED BY <2>2, <2>3, Zenon
<1> QED BY <1>2, Zenon DEF IsInjective, a

(* _complete_ws_upgrade: a page connects only when it is not in the list. *)
LEMMA UpgradeStep ==
  ASSUME PushAssumption, PushInv, NEW p \in Pages, Upgrade(p)
  PROVE  PushInv'
<1> DEFINE j == [list |-> Hub.list, ws |-> [Hub.ws EXCEPT ![p] = NewClient],
                 down |-> [Hub.down EXCEPT ![p] = <<>>]]
           k == [list |-> Append(clients, p), ws |-> [ws EXCEPT ![p] = NewClient],
                 down |-> [down EXCEPT ![p] = <<>>]]
<1>1. /\ updates' = updates /\ image' = image /\ missed' = missed \ {p}
      /\ Become(k) /\ page[p].socket = "connecting"
      /\ page' = [page EXCEPT ![p].socket = "open"]
      /\ inbound' = [inbound EXCEPT ![p] = OnOpen(p)]
  BY Zenon DEF Upgrade, counters
<1>2. p \notin Range(clients) /\ IsInjective(clients) /\ clients \in Seq(Pages)
  BY <1>1, PushFacts, Zenon DEF ConnOK, HubOK
<1>3. /\ Append(clients, p) \in Seq(Pages) /\ IsInjective(Append(clients, p))
      /\ Range(Append(clients, p)) = Range(clients) \cup {p}
  BY <1>2, AppendOnce, AppendRange
<1>4. HubOK(j, updates) /\ Apart(Hub, j, p) /\ j.ws[p] = NewClient /\ j.down[p] = <<>>
  <2>1. <<>> \in Seq(Frames(updates)) /\ NewClient \in Conns(updates)
    BY PushFacts, NewConn
  <2> QED BY <2>1, PushFacts, ChangeBoth, Zenon
<1>5. j.list = clients /\ k.list = Append(clients, p) /\ k.ws = j.ws /\ k.down = j.down
  BY PushFacts, Zenon
<1>6. k \in Hubs(updates)
  <2>1. j \in Hubs(updates)
    BY <1>4, Zenon DEF HubOK
  <2>2. j.ws \in [Pages -> Conns(updates)] /\ j.down \in [Pages -> Seq(Frames(updates))]
    BY <2>1, PushFacts, HubFields, Zenon
  <2>3. k = [list |-> Append(clients, p), ws |-> j.ws, down |-> j.down]
    BY <1>5, Zenon
  <2> HIDE DEF j, k
  <2> QED BY <1>3, <2>2, <2>3, Zenon DEF Hubs
<1> HIDE DEF j, k
<1>7. HubOK(k, updates) /\ Apart(Hub, k, p) /\ Stands(k, p, NewClient, <<>>)
  BY <1>3, <1>4, <1>5, <1>6, Zenon DEF HubOK, Apart, Stands
<1>8. OnOpen(p) \in Seq(Tickers) /\ NoTicker \notin Range(OnOpen(p))
  <2>1. page[p].selected \in Tickers
    BY PushFacts, Zenon DEF PageType
  <2>2. CASE page[p].selected = NoTicker
    BY <2>2 DEF OnOpen, Range
  <2>3. CASE page[p].selected # NoTicker
    <3> DEFINE t == page[p].selected
    <3>1. <<t>> \in Seq(Tickers) /\ Range(<<t>>) = {t}
      BY <2>1 DEF Range
    <3> QED BY <2>3, <3>1, Zenon DEF OnOpen
  <2> QED BY <2>2, <2>3, Zenon
<1>9. /\ page' \in [Pages -> PageType(updates)] /\ page'[p].socket = "open"
      /\ \A q \in Pages \ {p} : page'[q] = page[q]
  BY <1>1, PushFacts, Zenon DEF PageType
<1>10. /\ inbound' \in [Pages -> Seq(Tickers)] /\ inbound'[p] = OnOpen(p)
       /\ \A q \in Pages \ {p} : inbound'[q] = inbound[q]
  BY <1>1, <1>8, PushFacts, Zenon
<1>11. ConnOK(k, p, page'[p].socket, inbound'[p])
  <2>1. ~NewClient.closing /\ NewClient.out = <<>> /\ Closing \notin Range(<<>>)
    BY DEF NewClient, Range
  <2> QED BY <1>7, <1>8, <1>9, <1>10, <2>1, StandsConn, Zenon
<1>12. Holds(k.ws[p], image, p \in missed')
  BY <1>7 DEF Holds, Stands, NewClient
<1>13. \A q \in Pages \ {p} : q \in missed' <=> q \in missed
  BY <1>1, Zenon
<1> QED BY <1>1, <1>7, <1>9, <1>10, <1>11, <1>12, <1>13, PageStep, Zenon

(* The connection breaks. *)
LEMMA DropStep ==
  ASSUME PushInv, NEW p \in Pages, Drop(p)
  PROVE  PushInv'
<1> DEFINE j == [list |-> clients, ws |-> ws, down |-> [down EXCEPT ![p] = <<>>]]
           k == Teardown(j, p)
<1>0. <<>> \in Seq(Tickers) /\ <<>> \in Seq(Frames(updates)) /\ NoTicker \notin Range(<<>>)
  BY DEF Range
<1>1. /\ updates' = updates /\ image' = image /\ missed' = missed /\ page' = page
      /\ Become(k) /\ inbound' = [inbound EXCEPT ![p] = <<>>] /\ p \in Range(clients)
  BY PushFacts, Zenon DEF Drop, Attached
<1>2. HubOK(j, updates) /\ Apart(Hub, j, p) /\ j.list = clients
  <2>1. [ws EXCEPT ![p] = ws[p]] = ws
    BY PushFacts, Zenon
  <2>2. j = [list |-> Hub.list, ws |-> [Hub.ws EXCEPT ![p] = ws[p]],
             down |-> [Hub.down EXCEPT ![p] = <<>>]]
    BY <2>1, PushFacts, Zenon
  <2> DEFINE i == [list |-> Hub.list, ws |-> [Hub.ws EXCEPT ![p] = ws[p]],
                   down |-> [Hub.down EXCEPT ![p] = <<>>]]
  <2>3. HubOK(i, updates) /\ Apart(Hub, i, p) /\ i.list = Hub.list
    BY <1>0, PushFacts, ChangeBoth, Zenon
  <2>4. j = i
    BY <2>2, Zenon
  <2> HIDE DEF i, j
  <2> QED BY <2>3, <2>4, PushFacts, Zenon
<1> HIDE DEF j
<1>3. HubOK(k, updates) /\ Apart(j, k, p) /\ TornDown(k, p)
  BY <1>1, <1>2, PushFacts, DropOne, Zenon
<1> HIDE DEF k
<1>4. Apart(Hub, k, p)
  BY <1>2, <1>3, ApartTwice, Zenon
<1>5. /\ inbound' \in [Pages -> Seq(Tickers)] /\ inbound'[p] = <<>>
      /\ \A q \in Pages \ {p} : inbound'[q] = inbound[q]
  BY <1>0, <1>1, PushFacts, Zenon
<1>6. ConnOK(k, p, page'[p].socket, inbound'[p])
  BY <1>0, <1>3, <1>5, TornConn, Zenon
<1>7. p \notin Range(k.list) /\ page' \in [Pages -> PageType(updates)]
  BY <1>1, <1>3, PushFacts, Zenon DEF TornDown
<1> QED BY <1>1, <1>3, <1>4, <1>5, <1>6, <1>7, PageStep, Zenon

(* MIN_PUSH_INTERVAL is over. *)
LEMMA CoolStep ==
  ASSUME PushInv, NEW p \in Pages, Cool(p)
  PROVE  PushInv'
<1> DEFINE w == [ws[p] EXCEPT !.hot = FALSE, !.timer = IF @ = "armed" THEN "due" ELSE @]
           k == With(Hub, p, w)
<1>1. /\ updates' = updates /\ image' = image /\ missed' = missed /\ page' = page
      /\ inbound' = inbound /\ clients' = clients /\ down' = down /\ ws[p].hot
  BY Zenon DEF Cool, counters
<1>2. w \in Conns(updates)
  BY PushFacts, Zenon DEF Conns, Switch
<1>3. ws' = [ws EXCEPT ![p] = w]
  BY PushFacts, Zenon DEF Cool
<1>4. p \in Range(clients)
  BY <1>1, Unattached, Zenon
<1>5. /\ w.pending = ws[p].pending /\ w.closing = ws[p].closing /\ w.out = ws[p].out
      /\ w.subscribed = ws[p].subscribed /\ (ws[p].timer # "off" => w.timer # "off")
  BY PushFacts, Zenon DEF Conns
<1> HIDE DEF w
<1>6. Become(k)
  BY <1>1, <1>3, PushFacts, Zenon DEF Become, With
<1>7. HubOK(k, updates) /\ Apart(Hub, k, p) /\ Stands(k, p, w, down[p])
  BY <1>2, <1>4, PushFacts, ChangeOne, Zenon
<1> HIDE DEF k
<1>8. ConnOK(k, p, page'[p].socket, inbound'[p])
  <2>1. page[p].socket # "connecting"
        /\ (page[p].socket # "gone" =>
              /\ NoTicker \notin Range(inbound[p]) /\ ~w.closing
              /\ Closing \notin Range(w.out) /\ Closing \notin Range(down[p]))
    BY <1>4, <1>5, PushFacts, Zenon DEF ConnOK, Quiet
  <2> QED BY <1>1, <1>7, <2>1, StandsConn, Zenon
<1>9. Holds(k.ws[p], image, p \in missed')
  BY <1>1, <1>4, <1>5, <1>7, PushFacts, Zenon DEF Holds, Stands
<1>10. page' \in [Pages -> PageType(updates)] /\ inbound' \in [Pages -> Seq(Tickers)]
  BY <1>1, PushFacts, Zenon
<1> QED BY <1>1, <1>6, <1>7, <1>8, <1>9, <1>10, PageStep, Zenon

(* What becomes of a client whose change w may drop it. *)
LEMMA ClientStep ==
  ASSUME PushInv, NEW p \in Pages, p \in Range(clients), NEW w \in Conns(updates), NEW k,
         k \in {Teardown(Hub, p), With(Hub, p, w)}, Become(k),
         updates' = updates, image' = image, page' = page,
         inbound' \in [Pages -> Seq(Tickers)],
         \A q \in Pages \ {p} : inbound'[q] = inbound[q] /\ (q \in missed' <=> q \in missed),
         page[p].socket # "gone" =>
           NoTicker \notin Range(inbound'[p]) /\ ~w.closing /\ Closing \notin Range(w.out),
         Holds(w, image, p \in missed')
  PROVE  PushInv'
<1>1. page' \in [Pages -> PageType(updates)]
  BY PushFacts, Zenon
<1>2. CASE k = Teardown(Hub, p)
  <2>1. HubOK(k, updates) /\ Apart(Hub, k, p) /\ TornDown(k, p)
    BY <1>2, PushFacts, DropOne, Zenon
  <2>2. ConnOK(k, p, page'[p].socket, inbound'[p]) /\ p \notin Range(k.list)
    BY <2>1, TornConn, Zenon DEF TornDown
  <2> QED BY <1>1, <2>1, <2>2, PageStep, Zenon
<1>3. CASE k = With(Hub, p, w)
  <2>0. /\ updates \in Nat /\ HubOK(Hub, updates) /\ p \in Range(Hub.list)
        /\ Hub.down[p] = down[p]
    BY PushFacts, Zenon
  <2>1. HubOK(k, updates) /\ Apart(Hub, k, p) /\ Stands(k, p, w, down[p])
    BY <1>3, <2>0, ChangeOne, Zenon
  <2>2. ConnOK(k, p, page'[p].socket, inbound'[p])
    <3>1. page[p].socket # "connecting"
          /\ (page[p].socket # "gone" => Closing \notin Range(down[p]))
      BY PushFacts, Zenon DEF ConnOK, Quiet
    <3> QED BY <2>1, <3>1, StandsConn, Zenon
  <2>3. Holds(k.ws[p], image, p \in missed')
    BY <2>1, Zenon DEF Stands
  <2> QED BY <1>1, <2>1, <2>2, <2>3, PageStep, Zenon
<1> QED BY <1>2, <1>3, Zenon

(* A frame that is not a close is put at the end of the buffer. *)
LEMMA Buffered ==
  ASSUME NEW n \in Nat, NEW w \in Conns(n), NEW x \in Frames(n)
  PROVE  LET v == [w EXCEPT !.out = Append(@, x)]
         IN /\ v \in Conns(n) /\ v.closing = w.closing /\ v.pending = w.pending
            /\ x # Closing /\ Closing \notin Range(w.out) => Closing \notin Range(v.out)
<1>1. w.out \in Seq(Frames(n))
  BY Zenon DEF Conns
<1>2. /\ Append(w.out, x) \in Seq(Frames(n))
      /\ Range(Append(w.out, x)) = Range(w.out) \cup {x}
  BY <1>1, AppendRange
<1> DEFINE v == [w EXCEPT !.out = Append(@, x)]
<1>3. v \in Conns(n) /\ v.closing = w.closing /\ v.pending = w.pending
      /\ v.out = Append(w.out, x)
  BY <1>2, Zenon DEF Conns
<1> HIDE DEF v
<1>4. x # Closing /\ Closing \notin Range(w.out) => Closing \notin Range(v.out)
  BY <1>2, <1>3, Zenon
<1> QED BY <1>3, <1>4, Zenon DEF v

LEMMA RecordsAreFrames ==
  ASSUME PushAssumption, NEW n \in Nat, NEW r \in Records(n)
  PROVE  r \in Frames(n) /\ r # Closing /\ r # Restarted /\ r # Nothing
BY DEF Records, Frames, Closing, Restarted, Nothing, NoTicker, PushAssumption

(* A field of a client changes. *)
LEMMA SetSubscribed ==
  ASSUME NEW n \in Nat, NEW w \in Conns(n), NEW x \in Tickers
  PROVE  LET v == [w EXCEPT !.subscribed = x]
         IN v \in Conns(n) /\ v.pending = w.pending /\ v.closing = w.closing /\ v.out = w.out
<1>1. ASSUME NEW A, NEW B, NEW C, NEW D, NEW E, NEW F, NEW y \in A,
             NEW r \in [subscribed : A, pending : B, hot : C, timer : D, out : E,
                        closing : F]
      PROVE  LET v == [r EXCEPT !.subscribed = y]
             IN /\ v \in [subscribed : A, pending : B, hot : C, timer : D, out : E,
                          closing : F]
                /\ v.pending = r.pending /\ v.closing = r.closing /\ v.out = r.out
  BY Zenon
<1> QED BY <1>1, Zenon DEF Conns

LEMMA SetPending ==
  ASSUME NEW n \in Nat, NEW w \in Conns(n), NEW x \in Records(n) \cup {Nothing}
  PROVE  LET v == [w EXCEPT !.pending = x]
         IN v \in Conns(n) /\ v.pending = x /\ v.closing = w.closing /\ v.out = w.out
<1>1. ASSUME NEW A, NEW B, NEW C, NEW D, NEW E, NEW F, NEW y \in B,
             NEW r \in [subscribed : A, pending : B, hot : C, timer : D, out : E,
                        closing : F]
      PROVE  LET v == [r EXCEPT !.pending = y]
             IN /\ v \in [subscribed : A, pending : B, hot : C, timer : D, out : E,
                          closing : F]
                /\ v.pending = y /\ v.closing = r.closing /\ v.out = r.out
  BY Zenon
<1> QED BY <1>1, Zenon DEF Conns

LEMMA SetHot ==
  ASSUME NEW n \in Nat, NEW w \in Conns(n), NEW x \in Switch
  PROVE  LET v == [w EXCEPT !.hot = x]
         IN v \in Conns(n) /\ v.pending = w.pending /\ v.closing = w.closing /\ v.out = w.out
<1>1. ASSUME NEW A, NEW B, NEW C, NEW D, NEW E, NEW F, NEW y \in C,
             NEW r \in [subscribed : A, pending : B, hot : C, timer : D, out : E,
                        closing : F]
      PROVE  LET v == [r EXCEPT !.hot = y]
             IN /\ v \in [subscribed : A, pending : B, hot : C, timer : D, out : E,
                          closing : F]
                /\ v.pending = r.pending /\ v.closing = r.closing /\ v.out = r.out
  BY Zenon
<1> QED BY <1>1, Zenon DEF Conns

LEMMA SetTimer ==
  ASSUME NEW n \in Nat, NEW w \in Conns(n), NEW x \in {"off", "armed", "due"}
  PROVE  LET v == [w EXCEPT !.timer = x]
         IN v \in Conns(n) /\ v.pending = w.pending /\ v.closing = w.closing /\ v.out = w.out
<1>1. ASSUME NEW A, NEW B, NEW C, NEW D, NEW E, NEW F, NEW y \in D,
             NEW r \in [subscribed : A, pending : B, hot : C, timer : D, out : E,
                        closing : F]
      PROVE  LET v == [r EXCEPT !.timer = y]
             IN /\ v \in [subscribed : A, pending : B, hot : C, timer : D, out : E,
                          closing : F]
                /\ v.pending = r.pending /\ v.closing = r.closing /\ v.out = r.out
  BY Zenon
<1> QED BY <1>1, Zenon DEF Conns

LEMMA SetClosing ==
  ASSUME NEW n \in Nat, NEW w \in Conns(n), NEW x \in Switch
  PROVE  LET v == [w EXCEPT !.closing = x]
         IN v \in Conns(n) /\ v.pending = w.pending /\ v.closing = x /\ v.out = w.out
<1>1. ASSUME NEW A, NEW B, NEW C, NEW D, NEW E, NEW F, NEW y \in F,
             NEW r \in [subscribed : A, pending : B, hot : C, timer : D, out : E,
                        closing : F]
      PROVE  LET v == [r EXCEPT !.closing = y]
             IN /\ v \in [subscribed : A, pending : B, hot : C, timer : D, out : E,
                          closing : F]
                /\ v.pending = r.pending /\ v.closing = y /\ v.out = r.out
  BY Zenon
<1> QED BY <1>1, Zenon DEF Conns

LEMMA Switches == TRUE \in Switch /\ FALSE \in Switch
BY Zenon DEF Switch

LEMMA NothingHeld ==
  ASSUME NEW n \in Nat, NEW w \in Conns(n)
  PROVE  LET v == [w EXCEPT !.pending = Nothing, !.hot = TRUE]
         IN v \in Conns(n) /\ v.pending = Nothing /\ v.closing = w.closing /\ v.out = w.out
<1> DEFINE u == [w EXCEPT !.pending = Nothing]
<1>1. u \in Conns(n) /\ u.pending = Nothing /\ u.closing = w.closing /\ u.out = w.out
  <2>1. Nothing \in Records(n) \cup {Nothing}
    BY Zenon
  <2> QED BY <2>1, SetPending, Zenon
<1> HIDE DEF u
<1> DEFINE v == [u EXCEPT !.hot = TRUE]
<1>2. v \in Conns(n) /\ v.pending = u.pending /\ v.closing = u.closing /\ v.out = u.out
  BY <1>1, SetHot, Switches, Zenon
<1>3. v = [w EXCEPT !.pending = Nothing, !.hot = TRUE]
  BY Zenon DEF u
<1> HIDE DEF v
<1> QED BY <1>1, <1>2, <1>3, Zenon

(* _on_flush_timer *)
LEMMA FlushTimerStep ==
  ASSUME PushAssumption, PushInv, NEW p \in Pages, FlushTimer(p)
  PROVE  PushInv'
<1> DEFINE v == [ws[p] EXCEPT !.timer = "off"]
           u == [v EXCEPT !.pending = Nothing, !.hot = TRUE]
           x == ws[p].pending
           w == [u EXCEPT !.out = Append(@, x)]
           h == With(Hub, p, v)
<1>1. /\ updates' = updates /\ image' = image /\ missed' = missed /\ page' = page
      /\ inbound' = inbound /\ ws[p].timer = "due"
      /\ Become(IF x # Nothing THEN FlushPending(h, p) ELSE h)
  BY Zenon DEF FlushTimer, counters
<1>2. p \in Range(clients) /\ inbound' \in [Pages -> Seq(Tickers)]
  BY <1>1, PushFacts, Unattached, Zenon
<1>3. v \in Conns(updates) /\ v.pending = x /\ v.closing = ws[p].closing /\ v.out = ws[p].out
  <2>1. updates \in Nat /\ ws[p] \in Conns(updates) /\ "off" \in {"off", "armed", "due"}
    BY PushFacts, Zenon
  <2> QED BY <2>1, SetTimer, Zenon
<1>4. u \in Conns(updates) /\ u.pending = Nothing /\ u.closing = v.closing /\ u.out = v.out
  <2> HIDE DEF v
  <2>1. updates \in Nat
    BY PushFacts, Zenon
  <2> QED BY <1>3, <2>1, NothingHeld, Zenon DEF u
<1>5. page[p].socket # "gone" =>
        NoTicker \notin Range(inbound[p]) /\ ~v.closing /\ Closing \notin Range(v.out)
  <2> HIDE DEF v
  <2> QED BY <1>2, <1>3, PushFacts, Zenon DEF ConnOK, Quiet
<1>6. CASE x = Nothing
  <2>1. Become(h) /\ Holds(v, image, p \in missed')
    BY <1>1, <1>3, <1>6, Zenon DEF Holds
  <2> HIDE DEF v, h
  <2> QED BY <1>1, <1>2, <1>3, <1>5, <2>1, ClientStep, Zenon DEF h
<1>7. CASE x # Nothing
  <2>1. Become(FlushPending(h, p))
    BY <1>1, <1>7, Zenon
  <2>2. x \in Records(updates)
    BY <1>7, PushFacts, Zenon DEF Conns
  <2>3. x \in Frames(updates) /\ x # Closing
    BY <2>2, RecordsAreFrames, PushFacts, Zenon
  <2>4. /\ w \in Conns(updates) /\ w.closing = u.closing /\ w.pending = u.pending
        /\ Closing \notin Range(u.out) => Closing \notin Range(w.out)
    <3> HIDE DEF u, x
    <3>1. updates \in Nat
      BY PushFacts, Zenon
    <3> QED BY <1>4, <2>3, <3>1, Buffered, Zenon
  <2>5. FlushPending(h, p) \in {Teardown(Hub, p), With(Hub, p, w)}
    <3> HIDE DEF v
    <3>1. Hub \in Hubs(updates) /\ updates \in Nat
      BY PushFacts, Zenon DEF HubOK
    <3>2. h.ws[p] = v /\ With(h, p, u) = With(Hub, p, u)
      BY <3>1, WithTwice
    <3>3. FlushPending(h, p) = Enqueue(With(Hub, p, u), p, x)
      <4> HIDE DEF h
      <4>1. FlushPending(h, p) = Enqueue(With(h, p, u), p, v.pending)
        BY <3>2, Zenon DEF FlushPending
      <4> QED BY <1>3, <3>2, <4>1, Zenon
    <3> HIDE DEF u, x, h
    <3>4. updates \in Nat /\ HubOK(Hub, updates)
      BY PushFacts, Zenon
    <3>5. Enqueue(With(Hub, p, u), p, x) \in {Teardown(Hub, p), With(Hub, p, w)}
      BY <1>4, <3>4, EnqueueAfter, Zenon
    <3> HIDE DEF w
    <3> QED BY <3>3, <3>5, Zenon
  <2> HIDE DEF u, v, w, x, h
  <2>6. Holds(w, image, p \in missed')
    BY <1>4, <2>4, Zenon DEF Holds
  <2>7. page[p].socket # "gone" =>
          NoTicker \notin Range(inbound[p]) /\ ~w.closing /\ Closing \notin Range(w.out)
    BY <1>4, <1>5, <2>4, Zenon
  <2> QED BY <1>1, <1>2, <2>1, <2>4, <2>5, <2>6, <2>7, ClientStep, Zenon
<1> QED BY <1>6, <1>7, Zenon

(* What _handle_text makes of a client before it answers. *)
LEMMA Resubscribed ==
  ASSUME NEW n \in Nat, NEW w \in Conns(n), NEW t \in Tickers
  PROVE  LET v == [w EXCEPT !.subscribed = t, !.pending = Nothing, !.hot = FALSE,
                            !.timer = "off"]
         IN v \in Conns(n) /\ v.pending = Nothing /\ v.closing = w.closing /\ v.out = w.out
<1> DEFINE a == [w EXCEPT !.subscribed = t]
<1>4. a \in Conns(n) /\ a.closing = w.closing /\ a.out = w.out
  BY SetSubscribed, Zenon
<1> HIDE DEF a
<1> DEFINE b == [a EXCEPT !.pending = Nothing]
<1>5. b \in Conns(n) /\ b.pending = Nothing /\ b.closing = a.closing /\ b.out = a.out
  <2>1. Nothing \in Records(n) \cup {Nothing}
    BY Zenon
  <2> QED BY <1>4, <2>1, SetPending, Zenon
<1> HIDE DEF b
<1> DEFINE c == [b EXCEPT !.hot = FALSE]
<1>6. c \in Conns(n) /\ c.pending = b.pending /\ c.closing = b.closing /\ c.out = b.out
  BY <1>5, SetHot, Switches, Zenon
<1> HIDE DEF c
<1> DEFINE v == [c EXCEPT !.timer = "off"]
<1>7. v \in Conns(n) /\ v.pending = c.pending /\ v.closing = c.closing /\ v.out = c.out
  <2>1. "off" \in {"off", "armed", "due"}
    BY Zenon
  <2> QED BY <1>6, <2>1, SetTimer, Zenon
<1>8. v = [w EXCEPT !.subscribed = t, !.pending = Nothing, !.hot = FALSE, !.timer = "off"]
  BY Zenon DEF a, b, c
<1> HIDE DEF v
<1> QED BY <1>4, <1>5, <1>6, <1>7, <1>8, Zenon

LEMMA LookupFrame ==
  ASSUME PushAssumption, PushInv, NEW t
  PROVE  Lookup(t) \in Frames(updates) /\ Lookup(t) # Closing
<1>1. CASE t \in DOMAIN image
  <2>1. PICK D \in SUBSET PushTickers : image \in [D -> 1..updates]
    BY Zenon DEF PushInv, Images
  <2>2. t \in PushTickers /\ image[t] \in 1..updates
    BY <1>1, <2>1, Zenon
  <2>3. [ticker |-> t, v |-> image[t]] \in Records(updates) /\ updates \in Nat
    BY <2>2, Zenon DEF Records, PushInv
  <2>4. Lookup(t) = [ticker |-> t, v |-> image[t]]
    BY <1>1, Zenon DEF Lookup
  <2> QED BY <2>3, <2>4, RecordsAreFrames, Zenon
<1>2. CASE t \notin DOMAIN image
  BY <1>2 DEF Lookup, Frames, Unknown, Closing
<1> QED BY <1>1, <1>2, Zenon

(* The page's frame is read: a ticker, or the page's close. *)
LEMMA OnReadableStep ==
  ASSUME PushAssumption, PushInv, NEW p \in Pages, OnReadable(p)
  PROVE  PushInv'
<1> DEFINE t == Head(inbound[p])
           k == HandleFrame(Hub, p, t)
<1>1. /\ updates' = updates /\ image' = image /\ missed' = missed \ {p} /\ page' = page
      /\ inbound' = [inbound EXCEPT ![p] = Tail(inbound[p])] /\ inbound[p] # <<>>
      /\ p \in Range(clients) /\ Become(k)
  BY PushFacts, Zenon DEF OnReadable, counters, Attached
<1>2. /\ Tail(inbound[p]) \in Seq(Tickers) /\ t \in Tickers
      /\ Range(inbound[p]) = {t} \cup Range(Tail(inbound[p]))
  BY <1>1, PushFacts, TailRange, Zenon
<1>3. /\ inbound' \in [Pages -> Seq(Tickers)] /\ inbound'[p] = Tail(inbound[p])
      /\ \A q \in Pages \ {p} : inbound'[q] = inbound[q] /\ (q \in missed' <=> q \in missed)
  BY <1>1, <1>2, PushFacts, Zenon
<1>4. page[p].socket # "gone" =>
        /\ t # NoTicker /\ NoTicker \notin Range(inbound'[p])
        /\ ~ws[p].closing /\ Closing \notin Range(ws[p].out)
  BY <1>1, <1>2, <1>3, PushFacts, Zenon DEF ConnOK, Quiet
<1>5. updates \in Nat /\ HubOK(Hub, updates) /\ Hub.ws[p] = ws[p] /\ ws[p] \in Conns(updates)
      /\ Hub \in Hubs(updates)
  BY PushFacts, Zenon DEF HubOK
<1> HIDE DEF t
<1>6. CASE t # NoTicker
  <2> DEFINE v == [ws[p] EXCEPT !.subscribed = t, !.pending = Nothing, !.hot = FALSE,
                                !.timer = "off"]
             x == Lookup(t)
             w == [v EXCEPT !.out = Append(@, x)]
  <2>1. v \in Conns(updates) /\ v.pending = Nothing /\ v.closing = ws[p].closing
        /\ v.out = ws[p].out
    BY <1>2, <1>5, Resubscribed, Zenon
  <2>2. k = Enqueue(With(Hub, p, v), p, x)
    <3>1. HandleFrame(Hub, p, t) = HandleText(Hub, p, t)
      BY <1>6, Zenon DEF HandleFrame
    <3> QED BY <1>5, <3>1, Zenon DEF HandleText
  <2>3. x \in Frames(updates) /\ x # Closing
    BY LookupFrame, Zenon
  <2> HIDE DEF v, x, k
  <2>4. /\ w \in Conns(updates) /\ w.closing = v.closing /\ w.pending = v.pending
        /\ Closing \notin Range(v.out) => Closing \notin Range(w.out)
    BY <1>5, <2>1, <2>3, Buffered, Zenon
  <2>5. k \in {Teardown(Hub, p), With(Hub, p, w)}
    <3>1. Enqueue(With(Hub, p, v), p, x) \in {Teardown(Hub, p), With(Hub, p, w)}
      BY <1>5, <2>1, EnqueueAfter, Zenon
    <3> HIDE DEF w
    <3> QED BY <2>2, <3>1, Zenon
  <2> HIDE DEF w
  <2>6. Holds(w, image, p \in missed')
    BY <2>1, <2>4, Zenon DEF Holds
  <2>7. page[p].socket # "gone" =>
          NoTicker \notin Range(inbound'[p]) /\ ~w.closing /\ Closing \notin Range(w.out)
    BY <1>4, <2>1, <2>4, Zenon
  <2> QED BY <1>1, <1>3, <2>4, <2>5, <2>6, <2>7, ClientStep, Zenon
<1>7. CASE t = NoTicker
  <2> DEFINE j == Enqueue(Hub, p, Closing)
             v == [ws[p] EXCEPT !.out = Append(@, Closing)]
             w == [v EXCEPT !.closing = TRUE]
  <2>0. page[p].socket = "gone"
    BY <1>4, <1>7, Zenon
  <2>1. v \in Conns(updates)
    <3>1. Closing \in Frames(updates)
      BY Zenon DEF Frames
    <3> QED BY <1>5, <3>1, Buffered, Zenon
  <2>2. j \in {Teardown(Hub, p), With(Hub, p, v)}
    BY <1>5, EnqueueEffect, Zenon
  <2>3. k = IF Attached(j, p) THEN With(j, p, [j.ws[p] EXCEPT !.closing = TRUE]) ELSE j
    BY <1>7, Zenon DEF HandleFrame
  <2> HIDE DEF v
  <2>4. w \in Conns(updates) /\ w.closing
    <3>1. w \in Conns(updates) /\ w.closing = TRUE
      BY <1>5, <2>1, SetClosing, Switches, Zenon
    <3> HIDE DEF w
    <3> QED BY <3>1, Zenon
  <2> HIDE DEF w
  <2>5. k \in {Teardown(Hub, p), With(Hub, p, w)}
    <3> HIDE DEF j, k
    <3>1. CASE j = Teardown(Hub, p)
      <4>1. TornDown(j, p)
        BY <1>1, <1>5, <3>1, PushFacts, DropOne, Zenon
      <4>2. ~Attached(j, p)
        BY <4>1, Zenon DEF TornDown, Attached
      <4> QED BY <2>3, <3>1, <4>2, Zenon
    <3>2. CASE j = With(Hub, p, v)
      <4>1. Attached(j, p)
        BY <1>1, <3>2, PushFacts, Zenon DEF With, Attached
      <4>2. j.ws[p] = v /\ With(j, p, w) = With(Hub, p, w)
        BY <1>5, <3>2, WithTwice
      <4> QED BY <2>3, <4>1, <4>2, Zenon DEF w
    <3> QED BY <2>2, <3>1, <3>2, Zenon DEF j
  <2> HIDE DEF k
  <2>6. Holds(w, image, p \in missed')
    BY <2>4, Zenon DEF Holds
  <2> QED BY <1>1, <1>3, <2>0, <2>4, <2>5, <2>6, ClientStep, Zenon
<1> QED BY <1>6, <1>7, Zenon

LEMMA SetOut ==
  ASSUME NEW n \in Nat, NEW w \in Conns(n), NEW x \in Seq(Frames(n))
  PROVE  LET v == [w EXCEPT !.out = x]
         IN /\ v \in Conns(n) /\ v.out = x /\ v.closing = w.closing
            /\ v.pending = w.pending /\ v.subscribed = w.subscribed /\ v.timer = w.timer
<1>1. ASSUME NEW A, NEW B, NEW C, NEW D, NEW E, NEW F, NEW y \in E,
             NEW r \in [subscribed : A, pending : B, hot : C, timer : D, out : E,
                        closing : F]
      PROVE  LET v == [r EXCEPT !.out = y]
             IN /\ v \in [subscribed : A, pending : B, hot : C, timer : D, out : E,
                          closing : F]
                /\ v.out = y /\ v.closing = r.closing /\ v.pending = r.pending
                /\ v.subscribed = r.subscribed /\ v.timer = r.timer
  BY Zenon
<1> QED BY <1>1, Zenon DEF Conns

(* send() took the first n frames of the buffer. *)
LEMMA OnWritableStep ==
  ASSUME PushInv, NEW p \in Pages, OnWritable(p)
  PROVE  PushInv'
<1> DEFINE o == ws[p].out
<1>1. /\ updates' = updates /\ image' = image /\ missed' = missed /\ page' = page
      /\ inbound' = inbound /\ p \in Range(clients)
  BY PushFacts, Zenon DEF OnWritable, counters, Attached
<1>2. /\ updates \in Nat /\ HubOK(Hub, updates) /\ ws[p] \in Conns(updates)
      /\ down[p] \in Seq(Frames(updates)) /\ o \in Seq(Frames(updates))
  BY PushFacts, Zenon DEF Conns
<1>3. PICK n \in 1..Len(o) :
        LET w == [ws[p] EXCEPT !.out = SubSeq(o, n + 1, Len(o))]
            h == [list |-> clients, ws |-> [ws EXCEPT ![p] = w],
                  down |-> [down EXCEPT ![p] = down[p] \o SubSeq(o, 1, n)]]
        IN Become(IF n = Len(o) /\ ws[p].closing THEN Teardown(h, p) ELSE h)
  BY Zenon DEF OnWritable
<1> DEFINE w == [ws[p] EXCEPT !.out = SubSeq(o, n + 1, Len(o))]
           d == down[p] \o SubSeq(o, 1, n)
           h == [list |-> clients, ws |-> [ws EXCEPT ![p] = w],
                 down |-> [down EXCEPT ![p] = d]]
<1>4. /\ SubSeq(o, n + 1, Len(o)) \in Seq(Frames(updates))
      /\ Range(SubSeq(o, n + 1, Len(o))) \subseteq Range(o)
      /\ SubSeq(o, 1, n) \in Seq(Frames(updates)) /\ Range(SubSeq(o, 1, n)) \subseteq Range(o)
  <2> HIDE DEF o
  <2>1. Len(o) \in Nat
    BY <1>2
  <2>2. /\ n + 1 \in 1..(Len(o) + 1) /\ Len(o) \in 0..Len(o)
        /\ 1 \in 1..(Len(o) + 1) /\ n \in 0..Len(o)
    BY <2>1
  <2> QED BY <1>2, <2>2, PartRange, Zenon
<1>5. d \in Seq(Frames(updates)) /\ Range(d) = Range(down[p]) \cup Range(SubSeq(o, 1, n))
  <2> DEFINE s == SubSeq(o, 1, n)
  <2>1. s \in Seq(Frames(updates))
    BY <1>4, Zenon
  <2> HIDE DEF s
  <2>2. down[p] \o s \in Seq(Frames(updates)) /\ Range(down[p] \o s) = Range(down[p]) \cup Range(s)
    BY <1>2, <2>1, JoinRange
  <2> QED BY <2>2, Zenon DEF s
<1>6. /\ w \in Conns(updates) /\ w.out = SubSeq(o, n + 1, Len(o))
      /\ w.closing = ws[p].closing /\ w.pending = ws[p].pending
      /\ w.subscribed = ws[p].subscribed /\ w.timer = ws[p].timer
  <2> DEFINE s == SubSeq(o, n + 1, Len(o))
             c == ws[p]
             v == [c EXCEPT !.out = s]
  <2>0. updates \in Nat
    BY <1>2, Zenon
  <2>1. s \in Seq(Frames(updates)) /\ c \in Conns(updates)
    BY <1>2, <1>4, Zenon
  <2> HIDE DEF s, c
  <2>2. /\ v \in Conns(updates) /\ v.out = s
        /\ v.closing = c.closing /\ v.pending = c.pending
        /\ v.subscribed = c.subscribed /\ v.timer = c.timer
    BY <2>0, <2>1, SetOut
  <2>3. w = v
    BY Zenon DEF s, c
  <2> HIDE DEF v, w
  <2> QED BY <2>2, <2>3, Zenon DEF s, c
<1>7. Become(IF n = Len(o) /\ ws[p].closing THEN Teardown(h, p) ELSE h)
  BY <1>3, Zenon
<1>8. /\ page[p].socket # "connecting"
      /\ page[p].socket # "gone" =>
           /\ NoTicker \notin Range(inbound[p]) /\ ~w.closing
           /\ Closing \notin Range(w.out) /\ Closing \notin Range(d)
  <2> HIDE DEF w, d
  <2> QED BY <1>1, <1>4, <1>5, <1>6, PushFacts, Zenon DEF ConnOK, Quiet
<1> HIDE DEF w, d, o
<1>9. HubOK(h, updates) /\ Apart(Hub, h, p) /\ Stands(h, p, w, d) /\ h.list = clients
  <2> DEFINE k == Changed(Hub, p, w, d)
  <2>1. Hub.list = clients /\ Hub.ws = ws /\ Hub.down = down
    BY PushFacts, Zenon
  <2>2. k = h
    BY <2>1, Zenon DEF Changed
  <2>3. p \in Range(Hub.list)
    BY <1>1, <2>1, Zenon
  <2> HIDE DEF h
  <2>4. HubOK(k, updates) /\ Apart(Hub, k, p) /\ k.list = Hub.list /\ Stands(k, p, w, d)
    BY <1>2, <1>5, <1>6, <2>3, ChangedTyped, Zenon
  <2> QED BY <2>1, <2>2, <2>4, Zenon
<1> HIDE DEF h
<1>10. page' \in [Pages -> PageType(updates)] /\ inbound' \in [Pages -> Seq(Tickers)]
  BY <1>1, PushFacts, Zenon
<1>11. CASE ~(n = Len(o) /\ ws[p].closing)
  <2>1. Become(h)
    BY <1>7, <1>11, Zenon
  <2>2. ConnOK(h, p, page'[p].socket, inbound'[p])
    BY <1>1, <1>8, <1>9, StandsConn, Zenon
  <2>3. Holds(h.ws[p], image, p \in missed')
    BY <1>1, <1>6, <1>9, PushFacts, Zenon DEF Holds, Stands
  <2> QED BY <1>1, <1>9, <1>10, <2>1, <2>2, <2>3, PageStep, Zenon
<1>12. CASE n = Len(o) /\ ws[p].closing
  <2> DEFINE k == Teardown(h, p)
  <2>1. Become(k)
    BY <1>7, <1>12, Zenon
  <2>2. HubOK(k, updates) /\ Apart(h, k, p) /\ TornDown(k, p)
    BY <1>1, <1>2, <1>9, DropOne, Zenon
  <2> HIDE DEF k
  <2>3. Apart(Hub, k, p)
    BY <1>9, <2>2, ApartTwice, Zenon
  <2>4. ConnOK(k, p, page'[p].socket, inbound'[p]) /\ p \notin Range(k.list)
    BY <1>1, <1>8, <2>2, TornConn, Zenon DEF TornDown
  <2> QED BY <1>1, <1>10, <2>1, <2>2, <2>3, <2>4, PageStep, Zenon
<1> QED BY <1>11, <1>12, Zenon

-----------------------------------------------------------------------------
(* Updates and restarts *)

(* The bound on versions moves up with every update. *)
LEMMA SeqGrows ==
  ASSUME NEW S, NEW T, S \subseteq T, NEW s \in Seq(S)
  PROVE  s \in Seq(T)
<1>1. Len(s) \in Nat /\ s \in [1..Len(s) -> S]
  OBVIOUS
<1>2. s \in [1..Len(s) -> T]
  BY <1>1, Zenon
<1> QED BY <1>1, <1>2, SeqDef

LEMMA FramesGrow ==
  ASSUME NEW n \in Nat
  PROVE  /\ Records(n) \subseteq Records(n + 1) /\ Frames(n) \subseteq Frames(n + 1)
         /\ Conns(n) \subseteq Conns(n + 1) /\ PageType(n) \subseteq PageType(n + 1)
<1>1. Records(n) \subseteq Records(n + 1)
  <2>1. 1..n \subseteq 1..(n + 1)
    OBVIOUS
  <2> QED BY <2>1, Zenon DEF Records
<1>2. Frames(n) \subseteq Frames(n + 1)
  BY <1>1, Zenon DEF Frames
<1>3. Seq(Frames(n)) \subseteq Seq(Frames(n + 1))
  BY <1>2, SeqGrows, Zenon
<1>4. Conns(n) \subseteq Conns(n + 1)
  BY <1>1, <1>3, Zenon DEF Conns
<1>5. PageType(n) \subseteq PageType(n + 1)
  BY <1>2, Zenon DEF PageType
<1> QED BY <1>1, <1>2, <1>4, <1>5, Zenon

LEMMA HubsGrow ==
  ASSUME NEW n \in Nat, NEW h, HubOK(h, n)
  PROVE  HubOK(h, n + 1)
<1>1. h \in Hubs(n) /\ IsInjective(h.list)
  BY Zenon DEF HubOK
<1>2. h.list \in Seq(Pages) /\ h.ws \in [Pages -> Conns(n)]
      /\ h.down \in [Pages -> Seq(Frames(n))]
      /\ h = [list |-> h.list, ws |-> h.ws, down |-> h.down]
  BY <1>1, HubFields, Zenon
<1>3. Seq(Frames(n)) \subseteq Seq(Frames(n + 1))
  BY FramesGrow, SeqGrows, Zenon
<1>4. h.ws \in [Pages -> Conns(n + 1)] /\ h.down \in [Pages -> Seq(Frames(n + 1))]
  BY <1>2, <1>3, FramesGrow, Zenon
<1>5. h \in Hubs(n + 1)
  BY <1>2, <1>4, Zenon DEF Hubs
<1> QED BY <1>1, <1>5, Zenon DEF HubOK

(* What a client gains by being served. *)
LEMMA ServedGains ==
  ASSUME NEW n \in Nat, NEW w \in Conns(n), NEW frame \in Records(n) \cup {Restarted},
         NEW x, x = Served(w, frame)
  PROVE  /\ Range(x.out) \subseteq Range(w.out) \cup {frame}
         /\ frame = Restarted => x.pending = w.pending /\ x.timer = w.timer
         /\ frame # Restarted /\ ~w.closing /\ w.subscribed = frame.ticker =>
              \/ x.pending = Nothing /\ frame \in Range(x.out)
              \/ x.pending = frame /\ x.timer # "off"
         /\ frame # Restarted /\ (w.closing \/ w.subscribed # frame.ticker) => x = w
<1>0. w.out \in Seq(Frames(n)) /\ frame \in Frames(n)
  BY Zenon DEF Conns, Frames
<1>1. Range(Append(w.out, frame)) = Range(w.out) \cup {frame}
  BY <1>0, AppendRange
<1>2. CASE w.closing
  <2>1. x = w
    BY <1>2, Zenon DEF Served
  <2> QED BY <1>2, <2>1, Zenon
<1>3. CASE ~w.closing /\ frame = Restarted
  <2>1. x = [w EXCEPT !.out = Append(@, frame)]
    BY <1>3, Zenon DEF Served
  <2>2. x.out = Append(w.out, frame) /\ x.pending = w.pending /\ x.timer = w.timer
    BY <2>1, Zenon DEF Conns
  <2>3. Range(x.out) \subseteq Range(w.out) \cup {frame}
    BY <1>1, <2>2, Zenon
  <2> QED BY <1>3, <2>2, <2>3, Zenon
<1>4. CASE ~w.closing /\ frame # Restarted /\ w.subscribed # frame.ticker
  <2>1. x = w
    BY <1>4, Zenon DEF Served
  <2> QED BY <1>4, <2>1, Zenon
<1>5. CASE ~w.closing /\ frame # Restarted /\ w.subscribed = frame.ticker /\ ~w.hot
  <2>1. x = [w EXCEPT !.pending = Nothing, !.hot = TRUE, !.out = Append(@, frame)]
    BY <1>5, Zenon DEF Served
  <2>2. x.out = Append(w.out, frame) /\ x.pending = Nothing
    BY <2>1, Zenon DEF Conns
  <2> QED BY <1>1, <1>5, <2>2, Zenon
<1>6. CASE ~w.closing /\ frame # Restarted /\ w.subscribed = frame.ticker /\ w.hot
  <2>1. x = [w EXCEPT !.pending = frame, !.timer = IF @ = "off" THEN "armed" ELSE @]
    BY <1>6, Zenon DEF Served
  <2>2. x.out = w.out /\ x.pending = frame /\ x.timer # "off"
    BY <2>1, Zenon DEF Conns
  <2> QED BY <1>6, <2>2, Zenon
<1> QED BY <1>2, <1>3, <1>4, <1>5, <1>6, Zenon

(* Where a broadcast leaves client p. *)
Visited(h, k, p, frame) ==
  \/ /\ p \in Range(h.list) /\ p \in Range(k.list) /\ k.down[p] = h.down[p]
     /\ k.ws[p] \in {h.ws[p], Served(h.ws[p], frame)}
  \/ p \in Range(h.list) /\ TornDown(k, p)
  \/ /\ p \notin Range(h.list) /\ p \notin Range(k.list)
     /\ k.ws[p] = h.ws[p] /\ k.down[p] = h.down[p]

LEMMA BroadcastVisits ==
  ASSUME NEW n \in Nat, NEW h, HubOK(h, n), NEW frame \in Records(n) \cup {Restarted},
         NEW k, k = Broadcast(h, frame)
  PROVE  /\ HubOK(k, n) /\ Len(k.list) <= Len(h.list)
         /\ \A p \in Pages : Visited(h, k, p, frame)
         /\ Len(k.list) = Len(h.list) =>
              \A p \in Range(k.list) : k.ws[p] = Served(h.ws[p], frame)
<1>0. h \in Hubs(n) /\ IsInjective(h.list)
  BY Zenon DEF HubOK
<1>1. k \in Hubs(n) /\ Reached(h, frame, Len(h.list), k)
  BY <1>0, BroadcastEffect, Zenon
<1>2. /\ Len(k.list) \in Nat /\ DOMAIN k.list = 1..Len(k.list)
      /\ Len(h.list) \in Nat /\ DOMAIN h.list = 1..Len(h.list)
  BY <1>0, <1>1, HubFields
<1>3. ASSUME NEW p \in Range(k.list)
      PROVE  \E j \in 1..Len(k.list) : p = k.list[j]
  BY <1>2, Zenon DEF Range
<1>4. ASSUME NEW p \in Pages PROVE Visited(h, k, p, frame)
  <2>1. CASE p \in Range(k.list)
    <3>1. PICK j \in 1..Len(k.list) : p = k.list[j]
      BY <1>3, <2>1, Zenon
    <3>2. /\ k.down[p] = h.down[p] /\ p \in Range(h.list)
          /\ k.ws[p] \in {h.ws[p], Served(h.ws[p], frame)}
      BY <1>1, <2>1, <3>1, Zenon DEF Reached
    <3> QED BY <2>1, <3>2, Zenon DEF Visited
  <2>2. CASE p \notin Range(k.list)
    BY <1>1, <2>2, Zenon DEF Reached, Visited, TornDown
  <2> QED BY <2>1, <2>2, Zenon
<1>5. ASSUME Len(k.list) = Len(h.list), NEW p \in Range(k.list)
      PROVE  k.ws[p] = Served(h.ws[p], frame)
  <2>1. PICK j \in 1..Len(k.list) : p = k.list[j]
    BY <1>3, Zenon
  <2>2. j <= Len(h.list)
    BY <1>2, <1>5
  <2> QED BY <1>1, <1>5, <2>1, <2>2, Zenon DEF Reached
<1>6. HubOK(k, n) /\ Len(k.list) <= Len(h.list)
  BY <1>1, Zenon DEF HubOK, Reached
<1> QED BY <1>4, <1>5, <1>6, Zenon

(* A broadcast leaves clients, sockets and the frames between them agreed. *)
LEMMA VisitedConn ==
  ASSUME NEW n \in Nat, NEW h, HubOK(h, n), NEW frame \in Records(n) \cup {Restarted},
         NEW k, NEW p \in Pages, Visited(h, k, p, frame), NEW socket, NEW in,
         ConnOK(h, p, socket, in)
  PROVE  ConnOK(k, p, socket, in)
<1>0. h.ws[p] \in Conns(n)
  BY HubFields, Zenon DEF HubOK
<1>1. CASE p \in Range(h.list) /\ TornDown(k, p)
  <2>1. socket # "gone" => NoTicker \notin Range(in)
    BY Zenon DEF ConnOK
  <2> QED BY <1>1, <2>1, TornConn, Zenon
<1>2. CASE /\ p \notin Range(h.list) /\ p \notin Range(k.list)
           /\ k.ws[p] = h.ws[p] /\ k.down[p] = h.down[p]
  BY <1>2, Zenon DEF ConnOK
<1>3. CASE /\ p \in Range(h.list) /\ p \in Range(k.list) /\ k.down[p] = h.down[p]
           /\ k.ws[p] \in {h.ws[p], Served(h.ws[p], frame)}
  <2> DEFINE w == h.ws[p]
             x == Served(w, frame)
  <2>1. x.closing = w.closing /\ Range(x.out) \subseteq Range(w.out) \cup {frame}
    <3>1. w \in Conns(n)
      BY <1>0, Zenon
    <3> HIDE DEF w
    <3>2. x.closing = w.closing
      BY <3>1, ServedTyped, Zenon
    <3>3. Range(x.out) \subseteq Range(w.out) \cup {frame}
      BY <3>1, ServedGains, Zenon
    <3> QED BY <3>2, <3>3, Zenon
  <2>2. frame # Closing
    BY DEF Closing, Restarted, Records
  <2>3. k.ws[p] = w \/ k.ws[p] = x
    BY <1>3, Zenon
  <2> HIDE DEF w, x
  <2>4. Quiet(h, p) => Quiet(k, p)
    BY <1>3, <2>1, <2>2, <2>3, Zenon DEF Quiet, w
  <2> QED BY <1>3, <2>4, Zenon DEF ConnOK
<1> QED BY <1>1, <1>2, <1>3, Zenon DEF Visited

(* PassedOver, of one client *)
Skipped(w, rec) ==
  /\ w.subscribed = rec.ticker /\ ~w.closing
  /\ w.pending # rec /\ rec \notin Range(w.out)

(* Client w of page p has become x: the record of an update, version n + 1  *)
(* of its ticker, was handed to it, or it was passed over and is in S.      *)
Handed(n, w, rec, x, img, p, S) ==
  /\ w \in Conns(n) /\ rec \in Records(n + 1) /\ rec.v = n + 1
  /\ x \in {w, Served(w, rec)} /\ img[rec.ticker] = n + 1
  /\ \E old, before : Holds(w, old, before)
  /\ w.subscribed # rec.ticker => Holds(w, img, p \in S)
  /\ Skipped(x, rec) => p \in S

(* The record of an update, version n + 1 of its ticker, reaches a client   *)
(* held back, or sent, or the client is noted as passed over.               *)
LEMMA VisitedHolds ==
  ASSUME NEW n \in Nat, NEW w, NEW rec, NEW x, NEW img, NEW p, NEW S,
         Handed(n, w, rec, x, img, p, S)
  PROVE  Holds(x, img, p \in S)
<1> USE DEF Handed
<1>0. w \in Conns(n + 1) /\ n + 1 \in Nat
  BY FramesGrow
<1>1. rec # Restarted /\ rec # Nothing /\ rec # Unknown /\ rec # Closing
  BY DEF Restarted, Nothing, Unknown, Closing, Records
<1>2. CASE x = w /\ w.subscribed # rec.ticker
  BY <1>2, Zenon
<1>3. CASE x = w /\ w.subscribed = rec.ticker
  <2>1. rec \notin Records(n)
    BY DEF Records
  <2>2. w.pending # rec
    BY <1>1, <2>1, Zenon DEF Conns
  <2>3. rec \notin Range(w.out)
    <3>1. w.out \in Seq(Frames(n)) /\ rec \notin Frames(n)
      BY <1>1, <2>1, Zenon DEF Conns, Frames
    <3>2. Range(w.out) \subseteq Frames(n)
      BY <3>1 DEF Range
    <3> QED BY <3>1, <3>2, Zenon
  <2>4. w.closing \/ p \in S
    BY <1>3, <2>2, <2>3, Zenon DEF Skipped
  <2>5. w.subscribed = rec.ticker
    BY <1>3, Zenon
  <2> QED BY <1>3, <2>4, Zenon DEF Holds
<1>4. CASE x = Served(w, rec) /\ ~w.closing /\ w.subscribed = rec.ticker
  <2>1. \/ x.pending = Nothing
        \/ x.pending = rec /\ x.timer # "off"
    BY <1>0, <1>1, <1>4, ServedGains
  <2>2. x.subscribed = rec.ticker
    BY <1>0, <1>4, ServedTyped, Zenon
  <2> QED BY <2>1, <2>2, Zenon DEF Holds
<1>5. CASE x = Served(w, rec) /\ (w.closing \/ w.subscribed # rec.ticker)
  <2>1. x = w
    BY <1>0, <1>1, <1>5, ServedGains
  <2> QED BY <1>5, <2>1, Zenon DEF Holds
<1> QED BY <1>2, <1>3, <1>4, <1>5, Zenon

(* A client whose ticker is not the update's, or whom a restart told.       *)
LEMMA ToldHolds ==
  ASSUME NEW n \in Nat, NEW w \in Conns(n), NEW x, x \in {w, Served(w, Restarted)},
         NEW img, NEW passed, Holds(w, img, passed)
  PROVE  /\ x \in Conns(n) /\ x.subscribed = w.subscribed
         /\ Holds(x, img, passed)
<1>1. CASE x = w
  BY <1>1, Zenon
<1>2. CASE x = Served(w, Restarted)
  <2>1. x \in Conns(n) /\ x.subscribed = w.subscribed /\ x.closing = w.closing
    BY <1>2, ServedTyped, Zenon
  <2>2. x.pending = w.pending /\ x.timer = w.timer
    BY <1>2, ServedGains
  <2> QED BY <2>1, <2>2, Zenon DEF Holds
<1> QED BY <1>1, <1>2, Zenon

(* Image new is img with version n + 1 of t. *)
Newer(img, new, t, n) ==
  new = [u \in DOMAIN img \cup {t} |-> IF u = t THEN n + 1 ELSE img[u]]

LEMMA ImageGrows ==
  ASSUME NEW n \in Nat, NEW img \in Images(n), NEW t \in PushTickers, NEW new,
         Newer(img, new, t, n)
  PROVE  /\ new \in Images(n + 1) /\ new[t] = n + 1
         /\ \A u : u # t /\ u \in DOMAIN new => u \in DOMAIN img /\ new[u] = img[u]
<1> DEFINE D == DOMAIN img
<1>1. D \in SUBSET PushTickers /\ img \in [D -> 1..n]
  BY Zenon DEF Images
<1> HIDE DEF D
<1>2. new \in [D \cup {t} -> 1..(n + 1)]
  BY <1>1 DEF D, Newer
<1>3. D \cup {t} \in SUBSET PushTickers
  BY <1>1, Zenon
<1>4. new \in Images(n + 1)
  BY <1>2, <1>3, Zenon DEF Images
<1> QED BY <1>4, Zenon DEF Newer

LEMMA ImageRestarts ==
  ASSUME NEW n \in Nat, NEW t \in PushTickers
  PROVE  LET new == [u \in {t} |-> n + 1]
         IN new \in Images(n + 1) /\ new[t] = n + 1 /\ DOMAIN new = {t}
<1> DEFINE new == [u \in {t} |-> n + 1]
<1>1. /\ {t} \in SUBSET PushTickers /\ new \in [{t} -> 1..(n + 1)]
      /\ new[t] = n + 1 /\ DOMAIN new = {t}
  OBVIOUS
<1>2. new \in Images(n + 1)
  <2> HIDE DEF new
  <2> QED BY <1>1, Zenon DEF Images
<1> QED BY <1>1, <1>2, Zenon

(* What both kinds of update end with: hub h, in which everyone holds what  *)
(* they should, becomes k by the broadcast of rec, version n + 1 of t.      *)
Recorded(n, t, rec, h, k) ==
  /\ n \in Nat /\ n = updates /\ updates' = updates + 1
  /\ rec = [ticker |-> t, v |-> n + 1]
  /\ HubOK(h, n) /\ k = Broadcast(h, rec) /\ Become(k)
  /\ image' \in Images(n + 1) /\ image'[t] = n + 1
  /\ page' \in [Pages -> PageType(n + 1)] /\ inbound' \in [Pages -> Seq(Tickers)]
  /\ \A p \in Pages : ConnOK(h, p, page'[p].socket, inbound'[p])
  /\ \A p \in Range(h.list) :
       /\ \E img, passed : Holds(h.ws[p], img, passed)
       /\ h.ws[p].subscribed # t => Holds(h.ws[p], image', p \in missed')
  /\ PassedOver(k, rec) \subseteq missed'

LEMMA RecordStep ==
  ASSUME NEW n, NEW t \in PushTickers, NEW rec, NEW h, NEW k, Recorded(n, t, rec, h, k)
  PROVE  PushInv'
<1> USE DEF Recorded
<1>1. /\ rec \in Records(n + 1) /\ rec.v = n + 1 /\ rec.ticker = t /\ n + 1 \in Nat
      /\ image'[rec.ticker] = n + 1
  <2>1. n \in Nat /\ rec = [ticker |-> t, v |-> n + 1] /\ image'[t] = n + 1
    BY Zenon
  <2> HIDE DEF Recorded
  <2> QED BY <2>1 DEF Records
<1>2. HubOK(h, n + 1)
  BY HubsGrow, Zenon
<1> HIDE DEF PushInv
<1>3. HubOK(k, n + 1) /\ \A p \in Pages : Visited(h, k, p, rec)
  BY <1>1, <1>2, BroadcastVisits, Zenon
<1>4. \A p \in Pages : ConnOK(k, p, page'[p].socket, inbound'[p])
  <2>1. \A p \in Pages : ConnOK(h, p, page'[p].socket, inbound'[p])
    BY Zenon
  <2> HIDE DEF Recorded
  <2> QED BY <1>1, <1>2, <1>3, <2>1, VisitedConn
<1>5. Hub' = k /\ clients' = k.list /\ ws' = k.ws /\ down' = k.down
  BY <1>1, <1>3, HubIs, Zenon
<1>6. Range(k.list) \subseteq Pages
  <2>1. k.list \in Seq(Pages)
    BY <1>1, <1>3, HubFields, Zenon DEF HubOK
  <2> HIDE DEF Recorded
  <2> QED BY <2>1 DEF Range
<1>7. ASSUME NEW p \in Range(k.list) PROVE Holds(k.ws[p], image', p \in missed')
  <2> DEFINE w == h.ws[p]
             x == k.ws[p]
  <2>1. p \in Pages /\ p \in Range(h.list) /\ x \in {w, Served(w, rec)}
    BY <1>3, <1>6, Zenon DEF Visited, TornDown
  <2>2. w \in Conns(n)
    BY <2>1, HubFields, Zenon DEF HubOK
  <2>3. Skipped(x, rec) => p \in missed'
    BY Zenon DEF PassedOver, Skipped
  <2>4. \E img, passed : Holds(w, img, passed)
    BY <2>1, Zenon
  <2>5. w.subscribed # rec.ticker => Holds(w, image', p \in missed')
    BY <1>1, <2>1, Zenon
  <2> HIDE DEF w, x
  <2>6. Handed(n, w, rec, x, image', p, missed')
    BY <1>1, <2>1, <2>2, <2>3, <2>4, <2>5, Zenon DEF Handed
  <2>7. Holds(x, image', p \in missed')
    BY <2>6, VisitedHolds, Zenon
  <2> QED BY <2>7, Zenon DEF x
<1>8. updates' = n + 1 /\ page' \in [Pages -> PageType(updates')]
  BY Zenon
<1>9. HubOK(Hub', updates') /\ updates' \in Nat /\ image' \in Images(updates')
  BY <1>1, <1>3, <1>5, <1>8, Zenon
<1>10. \A p \in Pages : ConnOK(Hub', p, page'[p].socket, inbound'[p])
  BY <1>4, <1>5, Zenon
<1>11. \A p \in Range(clients') : Holds(ws'[p], image', p \in missed')
  BY <1>5, <1>7, Zenon
<1> QED BY <1>8, <1>9, <1>10, <1>11, Zenon DEF PushInv, PageType

(* apply_update: everyone subscribed to t gets the record. *)
LEMMA UpdateStep ==
  ASSUME PushInv, NEW t \in PushTickers, Update(t)
  PROVE  PushInv'
<1> DEFINE rec == [ticker |-> t, v |-> updates + 1]
           k == Broadcast(Hub, rec)
           new == [u \in DOMAIN image \cup {t} |-> IF u = t THEN updates + 1 ELSE image[u]]
<1>1. /\ updates' = updates + 1 /\ page' = page /\ inbound' = inbound
      /\ Become(k) /\ image' = new
      /\ missed' = PassedOver(k, rec) \cup {p \in missed : ws[p].subscribed # t}
  BY Zenon DEF Update
<1>2. updates \in Nat /\ HubOK(Hub, updates) /\ image \in Images(updates)
  BY Zenon DEF PushInv
<1>3. /\ new \in Images(updates + 1) /\ new[t] = updates + 1
      /\ \A u : u # t /\ u \in DOMAIN new => u \in DOMAIN image /\ new[u] = image[u]
  <2>1. Newer(image, new, t, updates)
    BY Zenon DEF Newer
  <2> HIDE DEF new
  <2> QED BY <1>2, <2>1, ImageGrows
<1> HIDE DEF new
<1> HIDE DEF k
<1>4. Hub.list = clients /\ Hub.ws = ws
  BY Zenon DEF Hub
<1>5. page' \in [Pages -> PageType(updates + 1)] /\ inbound' \in [Pages -> Seq(Tickers)]
  <2>1. page \in [Pages -> PageType(updates)] /\ inbound \in [Pages -> Seq(Tickers)]
    BY Zenon DEF PushInv, PageType
  <2>2. PageType(updates) \subseteq PageType(updates + 1)
    BY <1>2, FramesGrow, Zenon
  <2> QED BY <1>1, <2>1, <2>2, Zenon
<1>6. \A p \in Pages : ConnOK(Hub, p, page'[p].socket, inbound'[p])
  BY <1>1, Zenon DEF PushInv
<1>7. ASSUME NEW p \in Range(Hub.list)
      PROVE  /\ \E img, passed : Holds(Hub.ws[p], img, passed)
             /\ Hub.ws[p].subscribed # t => Holds(Hub.ws[p], image', p \in missed')
  <2> DEFINE w == ws[p]
  <2>1. Holds(w, image, p \in missed)
    BY <1>4, Zenon DEF PushInv
  <2>2. ASSUME w.subscribed # t PROVE Holds(w, image', p \in missed')
    <3>1. p \in missed => p \in missed'
      BY <1>1, <2>2, Zenon
    <3>2. w.subscribed \in DOMAIN new =>
            w.subscribed \in DOMAIN image /\ new[w.subscribed] = image[w.subscribed]
      BY <1>3, <2>2, Zenon
    <3> HIDE DEF w
    <3>3. Holds(w, new, p \in missed')
      BY <2>1, <3>1, <3>2, Zenon DEF Holds
    <3> QED BY <1>1, <3>3, Zenon
  <2> QED BY <1>4, <2>1, <2>2, Zenon
<1>8. image' \in Images(updates + 1) /\ image'[t] = updates + 1
  BY <1>1, <1>3, Zenon
<1>9. PassedOver(k, rec) \subseteq missed'
  BY <1>1, Zenon
<1> HIDE DEF rec
<1>10. rec = [ticker |-> t, v |-> updates + 1] /\ k = Broadcast(Hub, rec)
  BY Zenon DEF rec, k
<1>11. Become(k) /\ updates' = updates + 1
  BY <1>1, Zenon
<1>12. Recorded(updates, t, rec, Hub, k)
  BY <1>2, <1>5, <1>6, <1>7, <1>8, <1>9, <1>10, <1>11, Zenon DEF Recorded
<1> QED BY <1>12, RecordStep, Zenon

(* on_restart, then the first record of the new epoch. *)
LEMMA RestartStep ==
  ASSUME PushInv, NEW t \in PushTickers, Restart(t)
  PROVE  PushInv'
<1> DEFINE rec == [ticker |-> t, v |-> updates + 1]
           h == Broadcast(Hub, Restarted)
           k == Broadcast(h, rec)
           new == [u \in {t} |-> updates + 1]
<1>1. /\ updates' = updates + 1 /\ page' = page /\ inbound' = inbound
      /\ Become(k) /\ image' = new
      /\ missed' = PassedOver(k, rec) \cup {p \in missed : ws[p].subscribed # t}
  BY Zenon DEF Restart
<1>2. updates \in Nat /\ HubOK(Hub, updates) /\ Hub.list = clients /\ Hub.ws = ws
  BY Zenon DEF PushInv, Hub
<1>3. new \in Images(updates + 1) /\ new[t] = updates + 1 /\ DOMAIN new = {t}
  BY <1>2, ImageRestarts, Zenon
<1>4. HubOK(h, updates) /\ \A p \in Pages : Visited(Hub, h, p, Restarted)
  BY <1>2, BroadcastVisits, Zenon
<1> HIDE DEF new, k, h
<1>5. page' \in [Pages -> PageType(updates + 1)] /\ inbound' \in [Pages -> Seq(Tickers)]
  <2>1. page \in [Pages -> PageType(updates)] /\ inbound \in [Pages -> Seq(Tickers)]
    BY Zenon DEF PushInv, PageType
  <2>2. PageType(updates) \subseteq PageType(updates + 1)
    BY <1>2, FramesGrow, Zenon
  <2> QED BY <1>1, <2>1, <2>2, Zenon
<1>6. \A p \in Pages : ConnOK(h, p, page'[p].socket, inbound'[p])
  <2>1. \A p \in Pages : ConnOK(Hub, p, page'[p].socket, inbound'[p])
    BY <1>1, Zenon DEF PushInv
  <2> QED BY <1>2, <1>4, <2>1, VisitedConn, Zenon
<1>7. ASSUME NEW p \in Range(h.list)
      PROVE  /\ \E img, passed : Holds(h.ws[p], img, passed)
             /\ h.ws[p].subscribed # t => Holds(h.ws[p], image', p \in missed')
  <2> DEFINE w == ws[p]
             x == h.ws[p]
  <2>1. p \in Pages
    <3>1. h.list \in Seq(Pages)
      BY <1>2, <1>4, HubFields, Zenon DEF HubOK
    <3> QED BY <3>1 DEF Range
  <2>2. p \in Range(clients) /\ x \in {w, Served(w, Restarted)}
    BY <1>2, <1>4, <2>1, Zenon DEF Visited, TornDown
  <2>3. Holds(w, image, p \in missed) /\ w \in Conns(updates)
    BY <2>1, <2>2, PushFacts, Zenon
  <2> HIDE DEF w, x
  <2>4. x.subscribed = w.subscribed /\ Holds(x, image, p \in missed)
    BY <1>2, <2>2, <2>3, ToldHolds, Zenon
  <2>5. ASSUME x.subscribed # t PROVE Holds(x, image', p \in missed')
    <3>1. x.subscribed \notin DOMAIN image'
      BY <1>1, <1>3, <2>5, Zenon
    <3> QED BY <2>4, <3>1, Zenon DEF Holds
  <2> QED BY <2>4, <2>5, Zenon DEF x
<1>8. image' \in Images(updates + 1) /\ image'[t] = updates + 1
  BY <1>1, <1>3, Zenon
<1>9. PassedOver(k, rec) \subseteq missed'
  BY <1>1, Zenon
<1> HIDE DEF rec
<1>10. rec = [ticker |-> t, v |-> updates + 1] /\ k = Broadcast(h, rec)
  BY Zenon DEF rec, k
<1>11. Become(k) /\ updates' = updates + 1
  BY <1>1, Zenon
<1>12. Recorded(updates, t, rec, h, k)
  BY <1>2, <1>4, <1>5, <1>6, <1>7, <1>8, <1>9, <1>10, <1>11, Zenon DEF Recorded
<1> QED BY <1>12, RecordStep, Zenon

-----------------------------------------------------------------------------
(* The invariant holds *)

LEMMA PushInitInv ==
  ASSUME PushInit
  PROVE  PushInv
<1>1. /\ updates = 0 /\ clients = <<>> /\ ws = [p \in Pages |-> NewClient]
      /\ page = [p \in Pages |-> [selected |-> NoTicker, shown |-> Unknown,
                                  socket |-> "connecting"]]
      /\ inbound = [p \in Pages |-> <<>>] /\ down = [p \in Pages |-> <<>>]
      /\ image = [t \in {} |-> 0]
  BY Zenon DEF PushInit
<1>2. 0 \in Nat /\ NewClient \in Conns(0)
  BY NewConn, Zenon
<1>3. \A S : <<>> \in Seq(S) /\ Range(<<>>) = {} /\ IsInjective(<<>>)
  BY DEF Range, IsInjective
<1>4. HubOK(Hub, updates)
  <2>1. clients \in Seq(Pages)
    BY <1>1, <1>3, Zenon
  <2>2. ws \in [Pages -> Conns(0)]
    BY <1>1, <1>2, Zenon
  <2>3. down \in [Pages -> Seq(Frames(0))]
    BY <1>1, <1>3, Zenon
  <2>4. IsInjective(clients)
    BY <1>1, <1>3, Zenon
  <2> QED BY <1>1, <2>1, <2>2, <2>3, <2>4, Zenon DEF HubOK, Hub, Hubs
<1>5. image \in Images(updates)
  <2>1. image \in [{} -> 1..updates] /\ {} \in SUBSET PushTickers
    BY <1>1, Zenon
  <2> QED BY <2>1, Zenon DEF Images
<1>6. page \in [Pages -> PageType(updates)] /\ inbound \in [Pages -> Seq(Tickers)]
  <2>1. inbound \in [Pages -> Seq(Tickers)]
    BY <1>1, <1>3, Zenon
  <2> DEFINE start == [selected |-> NoTicker, shown |-> Unknown, socket |-> "connecting"]
  <2>2. start \in PageType(updates)
    BY Zenon DEF PageType, Tickers, Frames
  <2> HIDE DEF start
  <2>3. page = [p \in Pages |-> start]
    BY <1>1, Zenon DEF start
  <2> QED BY <2>1, <2>2, <2>3, Zenon
<1>7. ASSUME NEW p \in Pages PROVE ConnOK(Hub, p, page[p].socket, inbound[p])
  <2>1. page[p].socket = "connecting" /\ inbound[p] = <<>> /\ ws[p] = NewClient
    BY <1>1, Zenon
  <2>2. Hub.list = <<>> /\ Hub.ws = ws
    BY <1>1, Zenon DEF Hub
  <2>3. p \notin Range(Hub.list) /\ Hub.ws[p] = NewClient /\ NoTicker \notin Range(inbound[p])
    BY <1>3, <2>1, <2>2, Zenon
  <2> QED BY <2>1, <2>3, Zenon DEF ConnOK
<1>8. Range(clients) = {}
  BY <1>1, <1>3, Zenon
<1> QED BY <1>1, <1>2, <1>4, <1>5, <1>6, <1>7, <1>8, Zenon DEF PushInv, PageType

LEMMA PushStep ==
  ASSUME PushAssumption, PushInv, [PushNext]_pushVars
  PROVE  PushInv'
<1>1. CASE UNCHANGED pushVars
  BY <1>1, Zenon DEF pushVars, PushInv, Hub
<1>2. CASE PushNext
  <2>1. ASSUME NEW t \in PushTickers, Update(t) \/ Restart(t) PROVE PushInv'
    BY <2>1, UpdateStep, RestartStep, Zenon
  <2>2. ASSUME NEW p \in Pages, Serve(p) PROVE PushInv'
    BY <2>2, UpgradeStep, OnReadableStep, OnWritableStep, CoolStep, FlushTimerStep, Zenon
       DEF Serve
  <2>3. ASSUME NEW p \in Pages, Browse(p) PROVE PushInv'
    BY <2>3, OnMessageStep, OnCloseStep, Zenon DEF Browse
  <2>4. ASSUME NEW p \in Pages, Drop(p) \/ Leave(p) PROVE PushInv'
    BY <2>4, DropStep, LeaveStep, Zenon
  <2>5. ASSUME NEW p \in Pages, NEW t \in PushTickers, SelectTicker(p, t) PROVE PushInv'
    BY <2>5, PushSelectStep, Zenon
  <2> QED BY <1>2, <2>1, <2>2, <2>3, <2>4, <2>5, Zenon DEF PushNext
<1> QED BY <1>1, <1>2, Zenon

LEMMA PushInvMatches ==
  ASSUME PushInv
  PROVE  HubMatchesPages
<1>1. ASSUME NEW p \in Range(clients), ws[p].pending # Nothing, ~ws[p].closing
      PROVE  /\ ws[p].timer # "off" /\ ws[p].pending.ticker = ws[p].subscribed
             /\ p \notin missed /\ ws[p].subscribed \in DOMAIN image =>
                  ws[p].pending = Lookup(ws[p].subscribed)
  <2> DEFINE w == ws[p]
  <2>1. p \in Pages
    <3>1. clients \in Seq(Pages)
      BY HubFields, Zenon DEF PushInv, HubOK, Hub
    <3> QED BY <3>1 DEF Range
  <2>2. w \in Conns(updates) /\ Holds(w, image, p \in missed)
    BY <2>1, PushFacts, Zenon
  <2> HIDE DEF w
  <2>3. w.pending # Nothing /\ ~w.closing
    BY <1>1, Zenon DEF w
  <2>4. /\ w.timer # "off" /\ w.pending.ticker = w.subscribed
        /\ (p \notin missed /\ w.subscribed \in DOMAIN image =>
              w.pending.v = image[w.subscribed])
    BY <2>2, <2>3, Zenon DEF Holds
  <2>5. w.pending = [ticker |-> w.pending.ticker, v |-> w.pending.v]
    <3>1. w.pending \in Records(updates)
      BY <2>2, <2>3, Zenon DEF Conns
    <3> QED BY <3>1, Zenon DEF Records
  <2>6. p \notin missed /\ w.subscribed \in DOMAIN image => w.pending = Lookup(w.subscribed)
    BY <2>4, <2>5, Zenon DEF Lookup
  <2> QED BY <2>4, <2>6, Zenon DEF w
<1>2. HeldBack
  BY <1>1, Zenon DEF HeldBack
<1>3. IsInjective(clients)
  BY Zenon DEF PushInv, HubOK, Hub
<1>4. ASSUME NEW p \in Pages, page[p].socket = "open"
      PROVE  Attached(Hub, p) \/ Closing \in Range(down[p])
  <2>1. ConnOK(Hub, p, page[p].socket, inbound[p]) /\ Hub.down = down
    BY PushFacts, Zenon
  <2> QED BY <1>4, <2>1, Zenon DEF ConnOK, Attached
<1> QED BY <1>2, <1>3, <1>4, Zenon DEF HubMatchesPages, ServedOrClosing

(* For any number of pages, tickers, updates, restarts, selections and      *)
(* breaks: what the hub holds back for a page is the newest record of the   *)
(* ticker it is subscribed to, with a timer set to send it, and a page that *)
(* believes itself connected is served or will see its connection close     *)
(* (wsock.py: queue_update, _handle_text, _teardown, WsHub).                *)
THEOREM HubServesPages ==
  ASSUME PushAssumption
  PROVE  PushSpec => []HubMatchesPages
<1>1. PushInit => PushInv
  BY PushInitInv, Zenon
<1>2. PushInv /\ [PushNext]_pushVars => PushInv'
  BY PushStep, Zenon
<1>3. PushInv => HubMatchesPages
  BY PushInvMatches, Zenon
<1> QED BY <1>1, <1>2, <1>3, PTL DEF PushSpec

-----------------------------------------------------------------------------
(* Who is passed over *)

(* A client that was served has the record, sent or held back. *)
LEMMA ServedNotSkipped ==
  ASSUME NEW n \in Nat, NEW w \in Conns(n), NEW rec \in Records(n)
  PROVE  ~Skipped(Served(w, rec), rec)
<1> DEFINE x == Served(w, rec)
<1>1. rec # Restarted
  BY DEF Restarted, Records
<1>2. x.subscribed = w.subscribed /\ x.closing = w.closing
  BY ServedTyped, Zenon
<1>3. ~w.closing /\ w.subscribed = rec.ticker => rec \in Range(x.out) \/ x.pending = rec
  BY <1>1, ServedGains
<1> HIDE DEF x
<1>4. ~Skipped(x, rec)
  BY <1>2, <1>3, Zenon DEF Skipped
<1> QED BY <1>4, Zenon DEF x

LEMMA BroadcastDrops ==
  ASSUME NEW n \in Nat, NEW h, HubOK(h, n), NEW rec \in Records(n), NEW k,
         k = Broadcast(h, rec)
  PROVE  PassedOver(k, rec) = {} \/ Len(k.list) < Len(h.list)
<1>1. /\ HubOK(k, n) /\ Len(k.list) <= Len(h.list)
      /\ \A p \in Pages : Visited(h, k, p, rec)
      /\ Len(k.list) = Len(h.list) => \A p \in Range(k.list) : k.ws[p] = Served(h.ws[p], rec)
  BY BroadcastVisits
<1>2. /\ k.list \in Seq(Pages) /\ h.list \in Seq(Pages) /\ h.ws \in [Pages -> Conns(n)]
  BY <1>1, HubFields, Zenon DEF HubOK
<1>3. Len(k.list) \in Nat /\ Len(h.list) \in Nat /\ Range(k.list) \subseteq Pages
  BY <1>2 DEF Range
<1>4. CASE Len(k.list) = Len(h.list)
  <2>1. ASSUME NEW p \in Range(k.list) PROVE ~Skipped(k.ws[p], rec)
    <3>1. h.ws[p] \in Conns(n) /\ k.ws[p] = Served(h.ws[p], rec)
      BY <1>1, <1>2, <1>3, <1>4, Zenon
    <3> QED BY <3>1, ServedNotSkipped, Zenon
  <2>2. PassedOver(k, rec) = {p \in Range(k.list) : Skipped(k.ws[p], rec)}
    BY Zenon DEF PassedOver, Skipped
  <2> QED BY <2>1, <2>2, Zenon
<1> QED BY <1>1, <1>3, <1>4

LEMMA UpdatePassesOver ==
  ASSUME PushInv, NEW t \in PushTickers, Update(t) \/ Restart(t)
  PROVE  missed' \subseteq missed \/ Len(clients') < Len(clients)
<1> DEFINE rec == [ticker |-> t, v |-> updates + 1]
<1>1. updates \in Nat /\ HubOK(Hub, updates) /\ Hub.list = clients
  BY Zenon DEF PushInv, Hub
<1>2. rec \in Records(updates + 1) /\ updates + 1 \in Nat
  BY <1>1 DEF Records
<1>3. PICK h : /\ HubOK(h, updates) /\ Len(h.list) <= Len(clients)
               /\ Become(Broadcast(h, rec))
               /\ missed' = PassedOver(Broadcast(h, rec), rec)
                              \cup {p \in missed : ws[p].subscribed # t}
  <2>1. CASE Update(t)
    <3>1. /\ Become(Broadcast(Hub, rec))
          /\ missed' = PassedOver(Broadcast(Hub, rec), rec)
                         \cup {p \in missed : ws[p].subscribed # t}
      BY <2>1, Zenon DEF Update
    <3>2. Len(Hub.list) <= Len(clients)
      <4>1. clients \in Seq(Pages)
        BY <1>1, HubFields, Zenon DEF HubOK
      <4> QED BY <1>1, <4>1
    <3> QED BY <1>1, <3>1, <3>2, Zenon
  <2>2. CASE Restart(t)
    <3> DEFINE h == Broadcast(Hub, Restarted)
    <3>1. /\ Become(Broadcast(h, rec))
          /\ missed' = PassedOver(Broadcast(h, rec), rec)
                         \cup {p \in missed : ws[p].subscribed # t}
      BY <2>2, Zenon DEF Restart
    <3>2. HubOK(h, updates) /\ Len(h.list) <= Len(Hub.list)
      BY <1>1, BroadcastVisits, Zenon
    <3> HIDE DEF h
    <3>3. Len(h.list) <= Len(clients)
      BY <1>1, <3>2, Zenon
    <3> QED BY <3>1, <3>2, <3>3, Zenon
  <2> QED BY <2>1, <2>2, Zenon
<1> DEFINE k == Broadcast(h, rec)
<1> HIDE DEF rec
<1>4. HubOK(h, updates + 1)
  BY <1>1, <1>3, HubsGrow, Zenon
<1>5. PassedOver(k, rec) = {} \/ Len(k.list) < Len(h.list)
  BY <1>2, <1>4, BroadcastDrops, Zenon
<1>6. HubOK(k, updates + 1) /\ clients' = k.list
  <2>1. HubOK(k, updates + 1)
    BY <1>2, <1>4, BroadcastVisits, Zenon
  <2> QED BY <1>3, <2>1, Zenon DEF Become
<1> HIDE DEF k
<1>7. Len(k.list) \in Nat /\ Len(h.list) \in Nat /\ Len(clients) \in Nat
  <2>1. k.list \in Seq(Pages)
    BY <1>2, <1>6, HubFields, Zenon DEF HubOK
  <2>2. h.list \in Seq(Pages)
    BY <1>1, <1>3, HubFields, Zenon DEF HubOK
  <2>3. clients \in Seq(Pages)
    BY <1>1, HubFields, Zenon DEF HubOK
  <2> QED BY <2>1, <2>2, <2>3
<1>8. missed' = PassedOver(k, rec) \cup {p \in missed : ws[p].subscribed # t}
  BY <1>3, Zenon DEF k
<1>9. CASE PassedOver(k, rec) = {}
  BY <1>8, <1>9, Zenon
<1>10. CASE Len(k.list) < Len(h.list)
  BY <1>3, <1>6, <1>7, <1>10
<1> QED BY <1>5, <1>9, <1>10, Zenon

LEMMA OthersPassNobody ==
  ASSUME NEW p \in Pages,
         \/ Serve(p) \/ Browse(p) \/ Drop(p) \/ Leave(p)
         \/ \E t \in PushTickers : SelectTicker(p, t)
  PROVE  missed' \subseteq missed
<1>1. ASSUME Upgrade(p) \/ OnReadable(p) PROVE missed' \subseteq missed
  BY <1>1, Zenon DEF Upgrade, OnReadable
<1>2. ASSUME OnWritable(p) \/ Cool(p) \/ FlushTimer(p) PROVE missed' \subseteq missed
  BY <1>2, Zenon DEF OnWritable, Cool, FlushTimer
<1>3. ASSUME Browse(p) \/ Drop(p) \/ Leave(p) PROVE missed' \subseteq missed
  BY <1>3, Zenon DEF Browse, OnMessage, OnClose, Drop, Leave
<1>4. ASSUME NEW t \in PushTickers, SelectTicker(p, t) PROVE missed' \subseteq missed
  BY <1>4, Zenon DEF SelectTicker
<1> QED BY <1>1, <1>2, <1>3, <1>4, Zenon DEF Serve

(* No subscriber is newly left without a record by a step that keeps the    *)
(* clients.                                                                 *)
OnlyDropsPassOver ==
  [][missed' \subseteq missed \/ Len(clients') < Len(clients)]_pushVars

(* EverySubscriberPushed fails, and the only way it fails is this: the      *)
(* broadcast dropped a client whose buffer was full, and the list that is   *)
(* being walked closed the gap under the loop.  However many pages and      *)
(* tickers there are, a broadcast that drops nobody passes nobody over      *)
(* (wsock.py on_ticker_update, on_restart, remove).                         *)
THEOREM OnlyDropsPass ==
  ASSUME PushAssumption
  PROVE  PushSpec => OnlyDropsPassOver
<1>1. PushInit => PushInv
  BY PushInitInv, Zenon
<1>2. PushInv /\ [PushNext]_pushVars => PushInv'
  BY PushStep, Zenon
<1>3. PushInv /\ [PushNext]_pushVars =>
        [missed' \subseteq missed \/ Len(clients') < Len(clients)]_pushVars
  <2> SUFFICES ASSUME PushInv, PushNext
               PROVE  missed' \subseteq missed \/ Len(clients') < Len(clients)
    BY Zenon
  <2>1. ASSUME NEW t \in PushTickers, Update(t) \/ Restart(t)
        PROVE  missed' \subseteq missed \/ Len(clients') < Len(clients)
    BY <2>1, UpdatePassesOver, Zenon
  <2> QED BY <2>1, OthersPassNobody, Zenon DEF PushNext
<1> QED BY <1>1, <1>2, <1>3, PTL DEF PushSpec, OnlyDropsPassOver
=============================================================================
