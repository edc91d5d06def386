# A TLA+ model of the Japannext feed pipeline

The repository takes an exchange's ITCH stream to a browser through three
processes that keep everything in memory:

    exchange --SoupBinTCP--> jnxfh --unix socket--> jnxdb --TCP query--> jnxweb --WebSocket--> browser
                               \------------------UDP multicast---------->/

`jnxfh` owns the market, `jnxdb` mirrors it and gives it back to a restarted
`jnxfh`, `jnxweb` shows it. Any of them may die and come back empty. The Python
package `jnxfeed` is the prototype of `jnxfh`, with its own session, transport
and event loop, a simulator of the exchange, and tools that record, probe and
check a feed. The project asks three things: do the copies of the market stay
copies, is what each program delivers exactly what was sent, and does each of
them get to the end it waits for.

## Inventory

| part | code | module | state |
|---|---|---|---|
| order store, price levels | `cpp/market/orders.cpp`, `levels.cpp` | `OrderStore` | modelled |
| routing, record building, tables | `market.cpp`, `publish.cpp`, `tables.cpp` | `BookMirror` | book messages |
| FH process, DB link, ingest | `jnxfh_main.cpp`, `publish.cpp`, `recover.cpp`, `ingest.cpp`, `jnxdb_main.cpp` | `FhDb` | modelled |
| what the DB promises | `RECOVERY.md` | `Mirror` | abstract specification |
| Soup session and connector (C++) | `cpp/fh/soupclient.cpp` | `SoupClient` | modelled |
| feed handler, GLIMPSE bootstrap, session, transport (Python) | `handler.py`, `glimpse.py`, `soup/session.py`, `net/tcp.py` | `FeedHandler` | modelled |
| exchange simulator | `sim/exchange.py` | `SoupClient`, `FeedHandler`, `Market` | modelled |
| event loop (Python) | `net/reactor.py` | `Reactor` | modelled |
| market, reference data, tape, short-sell price (Python) | `book/`, `cli/views.py` | `Market` | modelled but for the listings |
| framers and codecs (Python) | `itch/codec.py`, `soup/packets.py`, `jnxweb/records.py`, `mcast.py` | `Codec`, `Offline` | modelled |
| capture tool | `cli/capture.py`, `itchfile.py`, `cli/soupclient.py` | `Capture` | modelled |
| probe | `cli/probe.py`, `cli/soupclient.py` | `Probe` | modelled |
| captures of other tools, fixtures | `pcapio.py`, `cli/fixtures.py` | `Offline` | modelled |
| web image, snapshot bootstrap | `jnxweb/state.py`, `snapshot.py` | `WebState` | modelled |
| WebSocket hub and framing, upgrade | `wsock.py`, `httpd.py` | `WebPush`, `WsFrames` | modelled but for pings |
| order panel: page, HTTP route, query client | `static_page.py`, `httpd.py`, `dbquery_client.py` | `OrdersPanel` | modelled for well-formed requests |
| query server | `cpp/db/query.cpp` | `WebState`, `OrdersPanel` | as its clients see it |

## Modules

**OrderStore** is `OrderBookStore` and `SideLevels`: `orders` is `orders_`,
`books` the levels and totals per side, `collided` stands for `collisions > 0`.
`Add`, `Execute`, `Delete`, `Replace`, `Orphan` are the message handlers. Order
type and group ride along unchanged and are dropped.

**BookMirror** extends it with the database: one action per message, each being
`Market::apply`, `make_update` and `Tables::apply_update` in one step over a
perfect link, and `Recover`, the restart of `jnxfh` that reloads its store from
the order rows. A row is the top `Depth` levels with quantities modulo `QtyMod`
(2^32 in the code). The refdata and trade sections of a record are not in it.

**FhDb** is the link that is not perfect. Content is abstracted to the set of
stream positions it incorporates; the kinds of message are those the two
processes treat differently: book and state data `X`, tick rows `L`, the clock
`T` (and unknown types), undecodable `bad`. `pc` is where `jnxfh` is in its
startup tree or live loop; the blocking calls `connect_hello` and `get_state`
are the states `hello`, `dump`, `rehello`, `redial`. `q` holds the records on
the accepted socket. Both processes crash at any step, and a 5 s socket timeout
may expire in any blocking call.

**Mirror** says what readers of the DB may rely on: a prefix of the stream,
extended one message at a time, emptied, or reloaded from empty. `FhDb!M` maps
the tables to it (`View`).

**SoupClient** is the C++ client session and connector with the callbacks of
`main()`, against an exchange thread as in the simulator. Faults: refused
connections, resets that lose packets in flight, a write that meets a closed
socket, a path that goes dark, a new session on the exchange.

**FeedHandler** is its Python counterpart with the GLIMPSE bootstrap in front.
A callback runs to its end before the loop polls again and calls straight
through session, connector, bootstrap and handler, so the client is one record
`cl` and those calls are operators on it; what one `recv` returned is `batch`
and is dispatched to its end even when one of its packets stops everything.
`setup` is the command line: bootstrap, `max_retries`, credentials, `--limit`.

**Reactor** is the loop under every Python process: `timers` the heap, `states`
the registrations, `events` the batch `select` returned. A callback does any
one operation the loop offers, `stop` included. An entry whose socket was
unregistered keeps the state object it was polled with, as in the code.

**Capture** is `jnxfeed capture`, one invocation after another on the same file.
`disk` and `buf` are halves of records, because a length and a body are two
writes; a kill and an interrupt come between any two steps, those inside
`_write` and inside the `finally` clause included. `sidecar` is the resume file,
and `torn` records what cut a write or the `finally` clause short.

**Probe** is `jnxfeed probe` with a clock: login, then messages or a snapshot,
within a window, against a server that answers, dribbles heartbeats or is mute.

**Offline** has the byte-level readers: `FrameBuffer` fed in arbitrary pieces
(`live`), TCP reassembly of a capture whose segments are reordered, repeated,
overlapping or missing and whose sequence numbers wrap (`soup`), and the scan of
a MoldUDP64 capture (`udp`).

**Market** is `Market.apply` with its three stores, once for a market replayed
from the first message (`full`) and once for a market filled from a snapshot
and the messages after it (`joined`).

**Codec** encodes and decodes: every ITCH and Soup message and every record,
field by field, with the widths scaled down; between the two a message may be
cut, lengthened or changed in one cell. A stream of records is decoded whole or
not at all. `fate` is what `mcast.py` does with a datagram: applied, counted as
bad, or an exception nobody catches.

**WsFrames** is the decoding of a page's frames, all three length forms, from a
socket that cuts them anywhere.

**WebState** is `State` and `SnapshotBootstrap`: datagrams and snapshots in any
order, datagrams lost, repeated and overtaken (`Disorder`), failed fetches,
restarts of `jnxfh` and `jnxdb` (reduced to what `jnxweb` sees of them).

**WebPush** takes the image to the pages: `ws` are the clients of the hub with
subscription, pending record and pacing timer, `up` and `down` the two
directions of each socket, `page` the script's quote panel. A record is its
version. Users select, reload and leave.

**OrdersPanel** takes a click to `jnxdb` and its answer, error or timeout back
to a page that may show another ticker by then: `page`, `conn` and `query` are
the script, the `HttpConnection` and the `OrdersQuery`.

`MC*` modules and the `.cfg` files hold the finite sets of the instances.
`MCCore`, `MCFeed` and `MCWeb` put together several modules that share no state:
`part`, fixed by `Init`, says which of them runs in a behaviour, so one run
checks each part alone and not their product. The parts with theorems are
brought in by EXTENDS, so that a run checks the very definitions the theorems
are about; that is why their names carry the part (`SoupNext`, `ProbeNext`).
Parts without theorems, and a second setting of the constants of one that has
them (`FhDb` with an end of session in `MCCore`, `WebState` with crashes in
`MCWeb`, `BookMirror` with orders numbered 0, `WebPush` with a restart of the feed), are INSTANCEs over the same variables.
Definitions called faulty variants are deliberately wrong forms of a
definition, each breaking a property.

## Runs

| run | asks | result |
|---|---|---|
| `MCCore` | do the market and its copies agree, through crashes of either process, and from a snapshot? | holds |
| `MCFeed` | is what the readers of the exchange and of its recordings deliver exact, and does each program end? | holds |
| `MCWeb` | does everything reach the browser, and only where it belongs? | holds |
| `BookMirrorCollision` | is every row fresh when books share numbers? | no |
| `FhDbQuiet` | does the 1 s timer heal a restarted DB in a quiet market? | no |
| `FhDbTicks` | does a recovered FH have its tick tables? | no |
| `FhDbTail` | does the DB get the last update of a session that ends normally? | no |
| `SoupClientDark` | is every dark path given up after 15 s? | no |
| `CaptureInterrupted` | does Ctrl-C always leave a file and a sidecar that agree? | no |
| `CodecFailure` | is every datagram that cannot be decoded counted as bad? | no |
| `WebStateTrades` | does a merge seed only new trades? | no |
| `WebPushPassed` | is every subscriber pushed each record? | no |

`MCCore`, part by part. `FhDb`: the market of a running `jnxfh` holds exactly the
messages before the next one (`MarketExact`), the DB is a prefix of the stream
or empty (`MirrorPrefix`, `MirrorRefined`), nothing is sent twice
(`NoDuplicateUpdates`), a drained link means equal contents
(`DrainedMeansSynced`), and the invariant of the proofs holds (`Inv`). On a
session without end: once crashes stop the two agree, or `jnxfh` has yet to
notice that its DB died (`Convergence`), and each crash of `jnxfh` costs the
multicast at most one message (`GapBounded`). `BookMirror`: order table, levels
and rows are right after every message and restart (`OrdersMirrored`,
`LevelsMatchOrders`, `RowsFreshAlone`, `RecoverInvisible`). `Market`: levels, tape
and short-sell price agree with the history (`MarketConsistent`) and snapshot
plus tail is the replayed market (`SnapshotJoins`).

`MCFeed`, part by part. `SoupClient`: messages of one session once, in order
and to the end (`DeliveredExactly`), and a client that always has a socket or a
timer to wake it (`Lifeline`). `FeedHandler`: the market is a whole snapshot and
then each later message once, `tail` prints the first of them (`AppliedExactly`),
the owner is told of the end once and nothing is left behind (`OneEnding`).
`Reactor`: timers in order, nothing after `stop()` (`RunsAsScheduled`). `Capture`:
the file is one session's messages and the sidecar describes it, after any lost
connections, interrupts and resumes, unless a writer was killed, or interrupted
inside a write or the `finally` clause (`CaptureExact`). `Probe`: exit code 0 only
with proof of a working link (`ExitCodeHonest`), heartbeats and windows kept
(`WaitsKept`). `Offline`:
packets and streams exact (`StreamExact`), manifest and sample files true
(`ManifestExact`). `Codec`: what is encoded comes back (`RoundTrip`), and no partial
or damaged message is taken for a whole one (`DecodesWhole`). `WsFrames`: a page's
frames come out as they were written (`FramesDecoded`). `Finishes` is the liveness of all of them, against a mute peer
too, and for the reactor that a due timer is called however busy the sockets are.

`MCWeb`. `WebState`: the image is of one incarnation (`OneIncarnation`), at most one
fetch, debounce or retry is pending (`SingleFetch`), a merge never steps back
(`MergeKeepsFresh`), and, as long as no datagram is repeated or overtaken, the
gap counter never exceeds the losses (`GapsAreLosses`). `WebPush`: what is held
back is the newest record of the subscribed ticker with a timer to send it, and
an open page is served or sees its connection close (`HubMatchesPages`).
`OrdersPanel`: the rows on display are of the selected ticker (`RowsOfSelected`),
and a query ends once (`AnsweredOnce`). `EventuallyShown`: a late `jnxweb` shows
idle tickers though fetches fail, pages settle on the latest record, the Refresh
button comes back.

The findings behind the nine negative answers quote the text they contradict in
`PROJECT.json`. In short: a colliding number changes a book whose row is not
republished; only a failing write tells `jnxfh` that its DB died; live `L`
messages never reach the DB's tick tables; `POLLHUP` discards unread records;
silence is measured only after the first byte; Ctrl-C inside `_write`, or before
`next_seq` is advanced, leaves half a record or a message the next run repeats;
`_alpha` in `records.py` raises `UnicodeDecodeError` on a non-ASCII byte, not the
`RecordError` that `mcast.py` catches; `_seed_trade` compares row positions, not
trades; a client dropped inside a broadcast shifts the list being walked, and
the next subscriber misses that record.

### Limits that have no run

Met while modelling; the models have the behaviour, or leave it out where it
says so, and the properties are stated with it.

- Order store: a zero-quantity order can outlive its level (quantities of the
  instances are positive). An `F` message numbered 0 becomes a row of the order
  table that the store does not have, hence the exception for order 0 in
  `OrdersMirrored`, `RowsFreshAlone` and `RecoverInvisible`.
- `FhDb`: a ticker whose group has no multicast address is left out of the dump
  of a sync (`publish.cpp:286-305`, RECOVERY.md:285-297). Every ticker of the
  model has one, so what is said of a reloaded DB is said of those tickers.
- `WebState`: a datagram that is overtaken, or repeated, makes `apply_update`
  count gaps where nothing was lost, or show an older row until the ticker's
  next update. `GapsAreLosses` leaves such behaviours out; the other properties
  hold in them.
- A snapshot fetched while `jnxdb` is being refilled carries epoch 0, is
  accepted and not repeated, so the `fetch` part of `MCWeb` has no crash of
  `jnxdb` and starts `jnxweb` when `jnxdb` has caught up (`PromptDb`).
- A snapshot and the live session may be of different days when the exchange
  rolls over between the two logins, which both name the blank session:
  `AppliedExactly` has the live messages of one session, not the snapshot's.
- A market joined from a snapshot has an empty tape, so `SnapshotJoins` does not
  compare what `views.py` derives from trades.
- `Reactor.unregister` leaves the callbacks of a socket that is already in the
  polled batch: another callback of the same round may still be called.
- `Capture`: a reconnect saves the sidecar without flushing the file
  (`capture.py:257`), and the periodic save comes before `next_seq` advances
  (`309-319`), so a re-run after a kill, which resumes where the sidecar left
  off (16-17), can leave out or repeat a message. Nothing is promised of a kill,
  so `CaptureExact` leaves it out (`torn`). `probe --messages 0` exits with 5.
- Reassembly drops a retransmission that also holds new bytes as a whole; eight
  VLAN tags are skipped, not any number.
- A subscriber that a broadcast passed over gets the ticker's next record. The
  rate cap is exceeded by a record that follows a flush.
- Pings, pongs and unsupported opcodes (`wsock.py:197-204`) are not in `WebPush`: the
  page's script sends none.
- Frames that follow a close frame, or arrive before a 1003 close is flushed, are
  still handled. A half-open WebSocket and an idle HTTP connection never time
  out; neither is modelled.
- The page's catch handler shows "request failed" whatever ticker is selected;
  `RowsOfSelected` is about rows. `_respond_json`, named in three error paths of
  `httpd.py` (79, 92, 103), does not exist: those paths raise. They are reached by an
  oversized, malformed or non-GET request, which the page never makes, and are
  not modelled.
- A recorded stream may or may not have its FIN, and `StreamExact` holds of it
  either way: that a stream has ended is not part of what is compared.

### Bounds

- `BookMirror`: number 1 moves between `b1` and `b2`, numbers 2 and 3 share
  `b3`: a collision within a book, one across books, a replace onto a live or
  onto its own number, two orders at a level all occur. Two prices with
  `Depth = 1` cut a level off. Quantities 1 and 2 give partial, exact and
  clamped fills. The two sides of a book share nothing, so there is one side
  (two in `BookMirrorCollision`). Part `zero` has the orders numbered 0, on a
  market with one number less. `QtyMod = 16` is not reached.
- `FhDb` with an end of session (part `faults`): two streams of four messages with
  every kind, two crashes of each process, one timeout: a crash during the
  recovery from a crash is included. Without an end (part `live`): a shorter
  stream, two FH crashes, one DB crash, one timeout.
- `SoupClient`: four messages, four faults (the back-off reaches its cap), two
  sessions, three packets in flight. The credentials are right; rejections come
  from the rollover.
- `FeedHandler`: three messages, a snapshot after the first, two faults, two
  days, no or two retries: a retry that succeeds, one that is the last, and an
  overlap of snapshot and tail all occur.
- `Reactor`: two sockets, three timers, delays 0 and 1. `Probe`: a window longer
  than the silence limit, five packets.
- `Capture`: three messages, a sidecar every second, three invocations, two
  faults, two sessions: a resume of a resume, and one into the wrong session.
- `Offline`: bytes below 8 so that a length needs its second byte, sequence
  numbers below 64 that wrap inside the stream, five captured frames.
- `Market`: five messages, two books, two numbers usable on either, a tape of two.
- `Codec`: every kind of message with empty, full and overlong fields and the
  least and greatest numbers. `WsFrames`: payloads at both sides of each limit.
- `WebState`: a trade, quotes, two tickers; one crash each, two datagrams under
  way, two fetch attempts, and either one loss and one failed fetch (part
  `image`) or one datagram repeated or overtaken (part `disorder`). Part `fetch`
  has the liveness, without crashes. Trade rings stay far below their 50.
- `WebPush`: two pages, two tickers, a send buffer of one frame, so that one
  unread frame drops a client; two selections, two updates. One lost connection
  and one restart of the feed occur together in part `hub`, which has no
  liveness, and one at a time in `push` and `restart`, which have it.
  `OrdersPanel`: two requests, three selections,
  one reload, replies of two reads.

### Deadlock

The systems may stop: streams and files end, processes exit, users stop
clicking. Only `BookMirrorCollision`, whose market never stops, is checked for
deadlock; that the others stop only where they should is what `Convergence`,
`Finishes` and `EventuallyShown` say.

### Fairness

Crashes, losses, timeouts, failures and what users and servers choose to do are
never forced, and are bounded. Weak fairness is assumed of

- `FhDb`: the steps of each process; a dead process is restarted (an operator's
  duty in RECOVERY.md);
- `SoupClient`, `FeedHandler`: the client's reactor, and the exchange's sending
  thread;
- `Reactor`: the loop; `Capture`: the process while it runs; `Probe`: each of its
  blocking calls returns by its timeout, the server owes nothing;
- `WebState`: feed and web steps, and reading datagrams, which the reactor polls
  in every round;
- `WebPush`, `OrdersPanel`: the server's loop for each page or request, and the
  browser's. `jnxdb` owes no answer.

## Proofs

The theorems hold for every value of the constants; each rests on the module's
named assumption, which says no more than what the types of the constants are
(`OrdersPanelAssumption` and `PushAssumption` also that no ticker is the
page's "none"), and the
three about price levels on one hypothesis more, named below. An inductive
invariant is needed wherever what a step does depends on something still under
way: a packet, a reply, an unflushed byte. There is one lemma per action, or
per family of similar ones.

**FhDbProofs**, for every set of streams, both bootstraps and any number of
crashes and timeouts: `Invariance` (`Spec => [](TypeOK /\ Inv)`),
`MarketIsExact`, `MirrorIsPrefix`, `NoDuplicates`, `DrainedIsSynced`,
`MirrorImplemented` (`Spec => M!MirrorSpec`). `MirrorPrefix` is not inductive:
whether the next record keeps the DB a prefix depends on what is in the socket.
`Inv` says that the records on it are well formed (`Follows`), that the first
fits the DB's state (`Fits`), and that the last leaves the DB where the FH is
(`FlowInv`), plus that a DB being questioned does not move (`AskInv`).
`FhDbSteps` has the lemmas of the actions of both processes.

`MulticastGapIsBounded` counts: of the messages a `jnxfh` that replays has
passed, at most one per crash of `jnxfh` was never multicast. A restarted `jnxfh`
continues from a position it is told, so `GapInv` bounds what is missing below
every position that can still be told (`Reported`: the DB's, those of the records
and the reply under way, the FH's own). Only a crash between the write to the
DB and the multicast adds to a set of missing messages, and it adds one; a
crash of `jnxdb` only takes positions away.

**BookMirrorProofs**: `TablesMirrorStore`
(`BookSpec => [](BookTypeOK /\ OrdersMirrored)`) for every set of order numbers
other than 0, all books, prices, quantities and sharings of numbers. The pair is
inductive: store and table undergo the same insertions and erasures
(`PutAgree`, `DropAgree`), and a fill carries the price the order already has
(`ExecuteAgree`).

`LevelsAreAggregated`, `RowsStayFresh` and `RestartChangesNoBook` are about the
levels, which the code keeps by adding and subtracting and the property defines
as sums over the live orders. They follow from `IInv`: both tables are finite
and without empty orders, each number is used on a book it may be used on
(`AtHome`), levels are the aggregation, and the rows of tickers that share no
number are fresh. That a sum changes by one order's quantity when that order
comes or goes does not depend on the order in which `MapThenSumSet` picks the
elements: `MinimalSubset` takes a least counterexample among the subsets of a
finite set, which is how an induction over a set is written here. The three
theorems assume `NoEmptyOrders`, that no message adds an order for 0 shares,
because the code does not aggregate those: `remove()` in `levels.cpp` erases a
level whose quantity is 0 though an empty order still rests on it.

**NetProofs**, the networking layer. `ReactorRunsAsScheduled`: timers are called
in the order of deadline and creation and nothing after `stop()`, for any number
of sockets and timers. What is called next depends on what a callback may still
push, so `HeapInv` says of every handle of the heap that it comes after the one
called last: a new one is due no earlier than now and has a greater number.

`SoupDeliversExactly` (also that the end of a session is reported only after its
last message) and `SoupKeepsLifeline`, for sessions of any length, any number of
faults and rollovers. The protocol carries no numbers, so the invariant counts:
every packet in flight has the number the client will have counted to when it
reads it (`WireInv`), the exchange is about to send the one after the last in
flight, and a login under way asks for what the client has (`PeerInv`); without
a connection nothing is in flight (`ClosedInv`).

**FeedHandlerProofs**: `FeedAppliesExactly`, `FeedEndsOnce`, for sessions and snapshots of any length,
any limit of retries and any number of refused, reset and dark connections,
rollovers and stops. `FeedInv` follows the calls through session, connector,
bootstrap and handler: between callbacks a client has ended with nothing left
of it, or stands with something to wake it (`Life`); it has counted what it
applied (`Exact`); the packets of the batch and then those on the wire carry
the numbers it will count, a login's answer comes first and an end last, and
all are of the day it has joined or is joining (`Pipe`). The batch has to be in
it because it is dispatched to its end even after `stop()`.

**ToolProofs**. `ProbeKeepsItsWaits` and `ProbeExitsHonestly`, for any window,
silence limit and order of packets. `WaitInv` places the clock: `recv` is entered
with the heartbeat just sent and before a deadline that a new phase moves by
one window from where the login's ended; `CodeInv` ties the exit code to what
was seen.

`CaptureIsExact`, for any options, reconnects, resumed invocations and
interrupts outside `_write` and the `finally` clause. The file with the writer's buffer has two halves for each counted
record, and one or two more inside `_write`; it reaches from the first number to
the next one wanted (`CountInv`); the exchange's session is the file's while it
sends (`SessionInv`); and between invocations the sidecar is the capture that
ended (`SidecarInv`). All of it is conditional on `torn = {}`: no writer of the
file was killed, or interrupted inside a write or the `finally` clause.
`CaptureInterrupted` shows that the condition is needed.

**WebProofs**. `ImageOfOneIncarnation`, `OneFetchPending`, `MergeNeverStepsBack`,
for any set of tickers and any number of crashes, losses and failed fetches.
Nothing is on display before an epoch is known (`ImageInv`), and the two timers
and the query exclude each other in pairs (`FetchInv`).

`GapsCountLosses`: the counter of gaps never exceeds the losses, as long as no
datagram is repeated or overtaken. The gaps still
to be counted are hidden in the numbers of the queued datagrams, so `LossInv`
says that there is a running count of losses along the queue, from what is
counted to what is lost, between whose entries each datagram's jump fits.

`RowsAreOfSelected`, `QueriesAnsweredOnce`, for any number of requests, selections
and reloads. A page has one request out at a time, and exactly then the button
is disabled; the ticker it was made for is forgotten by a selection (`PageInv`).
A query runs only while its connection waits for it, and its timer only while
it runs (`QueryInv`).

**WebPushProofs**. `HubServesPages`, for any number of pages, tickers, updates and
restarts and any limit of the send buffer; and `OnlyDropsPass`, that the promise
`WebPushPassed` refutes fails in one way only: a broadcast that passes over a
subscriber has dropped a client on its way. A broadcast walks
a list from which the clients it drops disappear, so `Reached` says where it
stands after each round: which clients are left, each as it was or served, and
every one served as long as nobody was dropped (`RoundStep`; the rounds follow by
a least counterexample, `BroadcastEffect`). `PushInv` adds to `HubMatchesPages`
what the two ends of a connection know of each other (`ConnOK`): without a client
in the list its slot is a new one, a page that has not left never announces
that it has, and a close frame is under way only where the connection is ending.
No record is newer than the number of updates, so one just made is in no buffer
yet, and a client without it was passed over (`VisitedHolds`).

Only model-checked: all liveness and the fairness behind it; the properties of
`Offline`, `Codec` and `WsFrames`, which are about what recursive readers and
encoders compute for every input; those of `Market`, whose joined copy is a fold
of the handlers over a whole snapshot; and the type invariants of the composed
runs, which are the types the invariants above begin with and the bounds of the
instances.

A note on the tool: when `Len` occurs in an obligation, tlapm 1.4.5 gives the SMT
solver an axiom that takes any value whose `Len` is `N` for one with the domain
`1..N`, which is wrong for functions that are not sequences. All proofs were also
checked with that axiom weakened to the direction that holds.

## Not modelled

- The C++ reactor has the shape of the Python one over `poll()`; the models of
  C++ programs use it as a fair scheduler.
- C++ reference data and tape, framers and codecs are ports of the Python code in
  `Market`, `Codec` and `Offline`; golden vectors in the repository tie them.
- The C++ GLIMPSE client is one step of `FhDb`.
- Of the query server, its connection table and its parsing of requests; of the
  HTTP server, request headers and refusals, JSON bodies and the routes of the page and the
  ticker list.
- Of the page, layout, formatting and the ticker list's filter.
- `describe`, the listings of `views.py`, `book_dump`, `itch_replay`: one pass over
  a file with nothing kept between steps. Test and build tools are no part of
  the system.
- Measured time: back-off delays, heartbeat intervals and pacing are timers that
  fire in some order, except in `Reactor` and `Probe`, which have a clock.
