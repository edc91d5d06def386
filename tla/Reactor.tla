------------------------------ MODULE Reactor -------------------------------
(***************************************************************************)
(* The event loop every Python process of the system runs on               *)
(* (jnxfeed/net/reactor.py): a heap of timers, a selector, and callbacks   *)
(* that change both while the loop is walking them.                        *)
(*                                                                         *)
(* A callback performs any one of the operations the loop offers its users.*)
(***************************************************************************)
EXTENDS Integers, Sequences

CONSTANTS
  Socks,      \* sockets of the users
  Delays,     \* delays passed to call_later
  MaxTimers,  \* bound: calls of call_later
  MaxClock    \* bound: time.monotonic()

ReactorAssumption ==
  Delays \subseteq Nat /\ MaxTimers \in Nat \ {0} /\ MaxClock \in Nat

VARIABLES
  states,       \* _states: registered socket -> [read, write]
  timers,       \* _timers: set of [deadline, seq, cancelled]
  seq,          \* _timer_seq
  running,      \* _running
  reactorClock, \* time.monotonic()
  now,          \* `now` of _run_due_timers
  loopAt,       \* where run() is
  events,       \* the select batch: <<[sock, read, write, live, left]>>
  fired         \* history: the timer called last

reactorVars == <<states, timers, seq, running, reactorClock, now, loopAt, events, fired>>

Nobody == [read |-> FALSE, write |-> FALSE]
Wanted(s) == IF s \in DOMAIN states THEN states[s] ELSE Nobody
Forget(s) == [x \in DOMAIN states \ {s} |-> states[x]]

(* A batch entry holds the state object select() returned.  Once that       *)
(* object has left _states, later registrations make a new one (not live)   *)
(* and the entry keeps the callbacks it was left with.                      *)
Detach(s, cbs) ==
  events' = [i \in DOMAIN events |->
               IF events[i].sock = s /\ events[i].live
               THEN [events[i] EXCEPT !.live = FALSE, !.left = cbs]
               ELSE events[i]]

-----------------------------------------------------------------------------
(* What a callback may do *)

(* register_read/write, unregister_read/write: _set_interest. *)
SetInterest(s, side, on) ==
  LET st == [Wanted(s) EXCEPT ![side] = on]
  IN /\ states' = IF st = Nobody THEN Forget(s)
                  ELSE [x \in DOMAIN states \cup {s} |->
                          IF x = s THEN st ELSE states[x]]
     /\ IF st = Nobody THEN Detach(s, Nobody) ELSE UNCHANGED events
     /\ UNCHANGED <<timers, seq, running>>

(* unregister pops the state object without clearing its callbacks. *)
Unregister(s) ==
  /\ s \in DOMAIN states
  /\ states' = Forget(s)
  /\ Detach(s, states[s])
  /\ UNCHANGED <<timers, seq, running>>

CallLater(delay) ==
  /\ seq < MaxTimers
  /\ timers' = timers \cup {[deadline |-> reactorClock + delay, seq |-> seq,
                             cancelled |-> FALSE]}
  /\ seq' = seq + 1
  /\ UNCHANGED <<states, running, events>>

Cancel(t) ==
  /\ timers' = (timers \ {t}) \cup {[t EXCEPT !.cancelled = TRUE]}
  /\ UNCHANGED <<states, seq, running, events>>

StopLoop == running' = FALSE /\ UNCHANGED <<states, timers, seq, events>>

Quiet == UNCHANGED <<states, timers, seq, running, events>>

Operation ==
  \/ \E s \in Socks, side \in {"read", "write"}, on \in BOOLEAN :
        SetInterest(s, side, on)
  \/ \E s \in Socks : Unregister(s)
  \/ \E d \in Delays : CallLater(d)
  \/ \E t \in timers : Cancel(t)
  \/ StopLoop
  \/ Quiet

-----------------------------------------------------------------------------
(* run() *)

(* TimerHandle.__lt__ *)
Before(t, u) ==
  t.deadline < u.deadline \/ (t.deadline = u.deadline /\ t.seq < u.seq)

Heads == {t \in timers : \A u \in timers \ {t} : Before(t, u)}

Due(t) == t.deadline <= now

(* _run_due_timers pops the head of the heap while it is due. *)
PopTimer ==
  /\ loopAt = "timers"
  /\ \E t \in Heads :
       /\ Due(t)
       /\ timers' = timers \ {t}
       /\ loopAt' = IF t.cancelled THEN "timers" ELSE "timer callback"
       /\ fired' = IF t.cancelled THEN fired ELSE t
  /\ UNCHANGED <<states, seq, running, reactorClock, now, events>>

(* _next_timeout pops the cancelled heads. *)
TimersDone ==
  /\ loopAt = "timers"
  /\ \A t \in Heads : ~Due(t)
  /\ timers' = timers \ {t \in timers : t.cancelled /\
                           \A u \in timers : Before(u, t) => u.cancelled}
  /\ loopAt' = "select"
  /\ UNCHANGED <<states, seq, running, reactorClock, now, events, fired>>

Event(s, r, w) == [sock |-> s, read |-> r, write |-> w, live |-> TRUE,
                   left |-> Nobody]

(* The selector reports ready sockets with the interest it was given. *)
Batches ==
  {b \in UNION {[1..k -> {Event(s, r, w) : s \in DOMAIN states,
                                           r, w \in BOOLEAN}] : k \in 1..2} :
     /\ \A i \in DOMAIN b :
          /\ b[i].read \/ b[i].write
          /\ b[i].read => states[b[i].sock].read
          /\ b[i].write => states[b[i].sock].write
     /\ \A i, j \in DOMAIN b : i # j => b[i].sock # b[j].sock}

SelectReady ==
  /\ loopAt = "select"
  /\ events' \in Batches
  /\ loopAt' = "events"
  /\ UNCHANGED <<states, timers, seq, running, reactorClock, now, fired>>

(* select() timed out: the head timer is due. *)
SelectTimeout ==
  /\ loopAt = "select"
  /\ \E t \in Heads :
       /\ t.deadline <= MaxClock
       /\ reactorClock' = IF t.deadline > reactorClock THEN t.deadline ELSE reactorClock
       /\ now' = reactorClock'
  /\ loopAt' = "timers"
  /\ UNCHANGED <<states, timers, seq, running, events, fired>>

Has(e, side) == IF e.live THEN Wanted(e.sock)[side] ELSE e.left[side]

(* The READ half of the first event, then its WRITE half. *)
Dispatch(side) ==
  /\ loopAt = "events"
  /\ events # <<>>
  /\ events[1][side]
  /\ side = "write" => ~events[1].read
  /\ events' = <<[events[1] EXCEPT ![side] = FALSE]>> \o Tail(events)
  /\ loopAt' = IF Has(events[1], side) THEN "event callback" ELSE "events"
  /\ UNCHANGED <<states, timers, seq, running, reactorClock, now, fired>>

NextEvent ==
  /\ loopAt = "events"
  /\ events # <<>>
  /\ ~events[1].read /\ ~events[1].write
  /\ events' = Tail(events)
  /\ UNCHANGED <<states, timers, seq, running, reactorClock, now, loopAt, fired>>

(* The batch is done: _run_due_timers reads the clock. *)
NextRound ==
  /\ loopAt = "events"
  /\ events = <<>>
  /\ loopAt' = "timers"
  /\ now' = reactorClock
  /\ UNCHANGED <<states, timers, seq, running, reactorClock, events, fired>>

(* Faulty variant: the rest of the batch runs after stop(). *)
ReturnedAnyway == IF loopAt = "timer callback" THEN "timers" ELSE "events"

(* After every callback run() looks at _running. *)
Returned ==
  IF ~running' THEN "stopped"
  ELSE IF loopAt = "timer callback" THEN "timers" ELSE "events"

(* A user's callback, while the clock moves on or not. *)
Callback ==
  /\ loopAt \in {"timer callback", "event callback"}
  /\ Operation
  /\ reactorClock' \in {reactorClock, reactorClock + 1} /\ reactorClock' <= MaxClock
  /\ loopAt' = Returned
  /\ UNCHANGED <<now, fired>>

ReactorInit ==
  /\ states = [s \in Socks |-> [read |-> TRUE, write |-> FALSE]]
  /\ timers = {[deadline |-> 1, seq |-> 0, cancelled |-> FALSE]}
  /\ seq = 1
  /\ running = TRUE
  /\ reactorClock = 0 /\ now = 0
  /\ loopAt = "timers"
  /\ events = <<>>
  /\ fired = [deadline |-> 0, seq |-> -1, cancelled |-> FALSE]

ReactorNext ==
  \/ PopTimer \/ TimersDone
  \/ SelectReady \/ SelectTimeout
  \/ \E side \in {"read", "write"} : Dispatch(side)
  \/ NextEvent \/ NextRound
  \/ Callback

ReactorSpec == ReactorInit /\ [][ReactorNext]_reactorVars

(* The loop never pauses between callbacks. *)
ReactorFairSpec == ReactorSpec /\ WF_reactorVars(ReactorNext)

-----------------------------------------------------------------------------
(* Type invariant of the tables, the heap and the batch. *)
ReactorTypeOK ==
  /\ \A s \in DOMAIN states : s \in Socks /\ states[s] # Nobody
  /\ \A t, u \in timers : t.seq = u.seq => t = u
  /\ Len(events) <= 2
  /\ now <= reactorClock /\ reactorClock <= MaxClock
  /\ loopAt = "stopped" <=> ~running

(* Timers are called in the order of their deadlines and, for equal ones,   *)
(* of the calls of call_later: over the whole life of the loop, also when   *)
(* a callback schedules or cancels others while they are being run          *)
(* (TimerHandle.__lt__, _run_due_timers).                                   *)
FiredInOrder ==
  [][fired' # fired =>
       \/ fired.deadline < fired'.deadline
       \/ fired.deadline = fired'.deadline /\ fired.seq < fired'.seq]_reactorVars

(* stop() is final: once it was called no callback runs, neither the rest   *)
(* of the due timers nor the rest of the select batch (run, stop: "exit     *)
(* after the current callback returns").                                    *)
QuietAfterStop == [][~running => UNCHANGED <<states, timers, fired>>]_reactorVars

(* Callbacks run in the order of the heap, and none after stop() (run).     *)
RunsAsScheduled == FiredInOrder /\ QuietAfterStop

(* No due timer waits for ever, however busy the sockets are: again and     *)
(* again every timer that is due has been called or cancelled, or the loop  *)
(* has stopped (run, _next_timeout).                                        *)
TimersServed ==
  []<>(~running \/ \A t \in timers : t.cancelled \/ t.deadline > reactorClock)
=============================================================================
