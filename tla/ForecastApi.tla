----------------------------- MODULE ForecastApi -----------------------------
(***************************************************************************)
(* The prediction API of Hohonu-1: requests handled by server threads      *)
(* share a rate limiter (a deque of admission stamps under a lock) and a   *)
(* semaphore of forecast slots.                                            *)
(*                                                                         *)
(* Abstractions.                                                           *)
(*  - Requests without the key change no state and are left out, as are    *)
(*    bodies that are no JSON; the one configured key makes one limiter    *)
(*    identity.  A JSON body that fails validation is refused after the    *)
(*    limiter let its request through.                                     *)
(*  - An entry of the deque is the request that made it: its stamp is the  *)
(*    time that request read.                                              *)
(*  - A thread may be preempted between its clock reading and the lock     *)
(*    (check() reads the clock first), for at most MaxDelay.               *)
(*  - run_pipeline is external: a node's forecast succeeds or raises.      *)
(***************************************************************************)
EXTENDS Naturals, Sequences, FiniteSets, FiniteSetsExt

CONSTANTS
  Requests,   \* authorised requests
  Limit,      \* REQUESTS_PER_MINUTE
  Window,     \* window_seconds
  MaxSlots,   \* MAX_CONCURRENT_FORECASTS
  MaxBatch,   \* bound: nodes of one request (4 in the code)
  MaxDelay,   \* bound: preemption between the clock and the lock
  MaxTime     \* bound: the clock

ASSUME ApiAssumption ==
  /\ Limit \in Nat \ {0} /\ MaxSlots \in Nat \ {0} /\ MaxBatch \in Nat \ {0}
  /\ Window \in Nat /\ MaxDelay \in Nat /\ MaxTime \in Nat

VARIABLES
  now,         \* time.monotonic()
  state,       \* where each request's handler stands
  stamp,       \* the time a request read before taking the limiter's lock
  events,      \* _events: admitted requests, oldest admission first
  free,        \* value of _FORECAST_SLOTS
  left,        \* nodes a running request has still to forecast
  admittedAt   \* history: when a request passed the limiter

vars == <<now, state, stamp, events, free, left, admittedAt>>

States == {"new", "stamped", "admitted", "running",
           "refused", "invalid", "busy", "answered", "failed"}
In(s) == {r \in Requests : state[r] = s}
Stamped == In("stamped")
\* Requests the limiter let through, whatever became of them.
Admitted == Requests \ UNION {In("new"), Stamped, In("refused")}

\* The variables have the types of the objects they stand for; the semaphore never
\* holds more slots than it was made with.
TypeOK ==
  /\ now \in 0..MaxTime
  /\ state \in [Requests -> States]
  /\ stamp \in [Requests -> 0..MaxTime]
  /\ admittedAt \in [Requests -> 0..MaxTime]
  /\ events \in Seq(Requests)
  /\ free \in 0..MaxSlots
  /\ left \in [Requests -> 0..MaxBatch]

Init ==
  /\ now = 0
  /\ state = [r \in Requests |-> "new"]
  /\ stamp = [r \in Requests |-> 0]
  /\ admittedAt = [r \in Requests |-> 0]
  /\ events = <<>>
  /\ free = MaxSlots
  /\ left = [r \in Requests |-> 0]
-----------------------------------------------------------------------------
Tick ==
  /\ now < MaxTime
  /\ \A r \in Stamped : now < stamp[r] + MaxDelay
  /\ now' = now + 1
  /\ UNCHANGED <<state, stamp, events, free, left, admittedAt>>

\* check() reads the clock; the lock comes later.
ReadClock(r) ==
  /\ state[r] = "new"
  /\ stamp' = [stamp EXCEPT ![r] = now]
  /\ state' = [state EXCEPT ![r] = "stamped"]
  /\ UNCHANGED <<now, events, free, left, admittedAt>>

\* A bug: expired admissions stay in the deque.
NotPruned(t) == events
\* The deque without the leading entries that are a window old at time t; an
\* expired entry behind a later stamp stays.
Pruned(t) ==
  LET recent == {i \in DOMAIN events : stamp[events[i]] + Window > t}
  IN  IF recent = {} THEN <<>> ELSE SubSeq(events, Min(recent), Len(events))

\* A bug: one admission more than the limit.
RoomAndOne(t) == Len(Pruned(t)) <= Limit
Room(t) == Len(Pruned(t)) < Limit

Admit(r) ==
  /\ state[r] = "stamped" /\ Room(stamp[r])
  /\ events' = Append(Pruned(stamp[r]), r)
  /\ admittedAt' = [admittedAt EXCEPT ![r] = now]
  /\ state' = [state EXCEPT ![r] = "admitted"]
  /\ UNCHANGED <<now, stamp, free, left>>

\* 429, prediction request rate exceeded.
Refuse(r) ==
  /\ state[r] = "stamped" /\ ~Room(stamp[r])
  /\ events' = Pruned(stamp[r])
  /\ state' = [state EXCEPT ![r] = "refused"]
  /\ UNCHANGED <<now, stamp, free, left, admittedAt>>

\* 422: FastAPI reports the body's errors when the dependencies have run.
Invalid(r) ==
  /\ state[r] = "admitted"
  /\ state' = [state EXCEPT ![r] = "invalid"]
  /\ UNCHANGED <<now, stamp, events, free, left, admittedAt>>

\* One slot serves the whole request, however many nodes it names.
Acquire(r) ==
  /\ state[r] = "admitted" /\ free > 0
  /\ free' = free - 1
  /\ \E n \in 1..MaxBatch : left' = [left EXCEPT ![r] = n]
  /\ state' = [state EXCEPT ![r] = "running"]
  /\ UNCHANGED <<now, stamp, events, admittedAt>>

\* 429, all workers are busy: the admission is spent all the same.
Busy(r) ==
  /\ state[r] = "admitted" /\ free = 0
  /\ state' = [state EXCEPT ![r] = "busy"]
  /\ UNCHANGED <<now, stamp, events, free, left, admittedAt>>

NodeForecast(r) ==
  /\ state[r] = "running" /\ left[r] > 1
  /\ left' = [left EXCEPT ![r] = @ - 1]
  /\ UNCHANGED <<now, state, stamp, events, free, admittedAt>>

Answer(r) ==
  /\ state[r] = "running" /\ left[r] = 1
  /\ left' = [left EXCEPT ![r] = 0]
  /\ free' = free + 1
  /\ state' = [state EXCEPT ![r] = "answered"]
  /\ UNCHANGED <<now, stamp, events, admittedAt>>

\* Bugs: the slot is released only when the forecast succeeds; an except clause
\* releases it before the finally clause does.
Kept == 0
ReleasedTwice == 2
ReleasedOnError == 1

\* run_pipeline raises: no further node, no answer for the earlier ones.
Fail(r) ==
  /\ state[r] = "running"
  /\ left' = [left EXCEPT ![r] = 0]
  /\ free' = free + ReleasedOnError
  /\ state' = [state EXCEPT ![r] = "failed"]
  /\ UNCHANGED <<now, stamp, events, admittedAt>>

Next ==
  \/ Tick
  \/ \E r \in Requests :
       \/ ReadClock(r) \/ Admit(r) \/ Refuse(r) \/ Invalid(r) \/ Acquire(r)
       \/ Busy(r) \/ NodeForecast(r) \/ Answer(r) \/ Fail(r)

Spec == Init /\ [][Next]_vars
-----------------------------------------------------------------------------
(***************************************************************************)
(* Properties.                                                             *)
(***************************************************************************)
\* Threads pass the limiter in another order than they read the clock, and a
\* late reading neither sees nor protects what others pruned.  Whatever they
\* do, no more than Limit requests are let through in any period that is
\* MaxDelay shorter than the window (and so exactly the window without delay).
WindowKept ==
  \A r \in Admitted :
    Cardinality({q \in Admitted : /\ admittedAt[q] <= admittedAt[r]
                                  /\ admittedAt[r] + MaxDelay < admittedAt[q] + Window}) <= Limit

\* A request is refused only when the limit was really used up in the window
\* before it, stretched by the delay: stale entries cannot lock requests out.
RefusalJustified ==
  [][\A r \in Requests :
       state'[r] = "refused" /\ state[r] # "refused" =>
         Cardinality({q \in Admitted : stamp[q] + Window + MaxDelay > stamp[r]}) >= Limit]_vars

\* Every slot is free or held by one running request, after failures too.
SlotsAccounted == free + Cardinality(In("running")) = MaxSlots
=============================================================================
