-------------------------- MODULE ForecastApi_proofs --------------------------
(***************************************************************************)
(* Proofs about ForecastApi, for every set of requests, every limit and    *)
(* every preemption up to MaxDelay: types, slots, the rate that the        *)
(* limiter lets through and what it refuses.                               *)
(***************************************************************************)
EXTENDS ForecastApi, Integers, FiniteSetTheorems, FunctionTheorems, SequenceTheorems,
        WellFoundedInduction, TLAPS
-----------------------------------------------------------------------------
(***************************************************************************)
(* Least elements and pruning.                                             *)
(***************************************************************************)
\* Every inhabited set of numbers has a least element, and Min is it.
LEMMA MinIsLeast ==
  ASSUME NEW T \in SUBSET Nat, T # {}
  PROVE  Min(T) \in T /\ \A y \in T : Min(T) <= y
<1> DEFINE R == {ss \in Nat \X Nat : ss[1] < ss[2]}
<1>1. IsWellFoundedOn(R, Nat)
  BY NatLessThanWellFounded DEF OpToRel
<1>2. PICK x \in T : \A y \in T : <<y, x>> \notin R
  <2> HIDE DEF R
  <2> QED BY <1>1, WFMin
<1>3. ASSUME NEW y \in T PROVE x <= y
  <2>1. <<y, x>> \in Nat \X Nat /\ <<y, x>> \notin R
    BY <1>2
  <2>2. ~(y < x)
    BY <2>1
  <2> QED BY <2>2
<1> QED BY <1>3 DEF Min

\* Pruning at time t takes away the first entries of the deque, all of them a
\* window old, and leaves one in front that is not.
LEMMA PrunedFront ==
  ASSUME TypeOK, NEW t \in Nat
  PROVE  \E k \in 0..Len(events) :
           /\ Pruned(t) \in Seq(Requests) /\ Len(Pruned(t)) = Len(events) - k
           /\ \A i \in 1..(Len(events) - k) : Pruned(t)[i] = events[k + i]
           /\ \A i \in 1..k : stamp[events[i]] + Window <= t
           /\ k < Len(events) => stamp[events[k + 1]] + Window > t
<1> DEFINE recent == {i \in DOMAIN events : stamp[events[i]] + Window > t}
<1>1. /\ events \in Seq(Requests) /\ Len(events) \in Nat /\ DOMAIN events = 1..Len(events)
      /\ \A i \in 1..Len(events) : stamp[events[i]] + Window \in Nat
  BY ApiAssumption DEF TypeOK
<1>2. Pruned(t) = IF recent = {} THEN <<>> ELSE SubSeq(events, Min(recent), Len(events))
  BY DEF Pruned
<1>3. recent \subseteq 1..Len(events)
      /\ \A i \in 1..Len(events) : i \notin recent => stamp[events[i]] + Window <= t
  BY <1>1
<1>4. CASE recent = {}
  <2>1. Pruned(t) = <<>> /\ <<>> \in Seq(Requests) /\ Len(<<>>) = 0
    BY <1>2, <1>4
  <2>2. \A i \in 1..Len(events) : stamp[events[i]] + Window <= t
    BY <1>3, <1>4
  <2> WITNESS Len(events) \in 0..Len(events)
  <2> QED BY <1>1, <2>1, <2>2
<1>5. CASE recent # {}
  <2> DEFINE m == Min(recent)
  <2>1. m \in recent /\ \A i \in recent : m <= i
    <3>1. recent \in SUBSET Nat
      BY <1>3
    <3> HIDE DEF recent
    <3> QED BY <1>5, <3>1, MinIsLeast
  <2>2. m \in 1..Len(events) /\ stamp[events[m]] + Window > t
    BY <1>3, <2>1
  <2>3. \A i \in 1..(m - 1) : stamp[events[i]] + Window <= t
    <3> TAKE i \in 1..(m - 1)
    <3>1. i \in 1..Len(events) /\ ~(m <= i)
      BY <1>1, <2>2
    <3>2. i \notin recent
      BY <2>1, <3>1
    <3> HIDE DEF m, recent
    <3> QED BY <1>3, <3>1, <3>2
  <2>4. Pruned(t) = SubSeq(events, m, Len(events))
    BY <1>2, <1>5
  <2> HIDE DEF m, recent
  <2>5. /\ Pruned(t) \in Seq(Requests) /\ Len(Pruned(t)) = Len(events) - (m - 1)
        /\ \A i \in 1..(Len(events) - (m - 1)) : Pruned(t)[i] = events[(m - 1) + i]
    BY <1>1, <2>2, <2>4
  <2>6. m - 1 \in 0..Len(events) /\ events[(m - 1) + 1] = events[m]
    BY <1>1, <2>2
  <2> DEFINE k == m - 1
  <2> HIDE DEF k
  <2>7. k \in 0..Len(events)
    BY <2>6 DEF k
  <2> WITNESS k \in 0..Len(events)
  <2> QED BY <2>2, <2>3, <2>5, <2>6 DEF k
<1> QED BY <1>4, <1>5
-----------------------------------------------------------------------------
(***************************************************************************)
(* The inductive invariant.                                                *)
(***************************************************************************)
\* What the limiter knows of the requests it let through: the deque holds those
\* that are recent, in the order in which they were let through, each once; a
\* thread is at most MaxDelay behind the clock it read.
LimiterInv ==
  /\ \A q \in Admitted : /\ stamp[q] <= admittedAt[q] /\ admittedAt[q] <= now
                         /\ admittedAt[q] <= stamp[q] + MaxDelay
  /\ \A r \in Stamped : stamp[r] <= now /\ now <= stamp[r] + MaxDelay
  /\ \A i \in 1..Len(events) : events[i] \in Admitted
  /\ \A i, j \in 1..Len(events) :
       i < j => events[i] # events[j] /\ admittedAt[events[i]] <= admittedAt[events[j]]
  /\ \A q \in Admitted : \/ \E i \in 1..Len(events) : events[i] = q
                         \/ admittedAt[q] + Window <= now + MaxDelay
  /\ Len(events) <= Limit
  /\ IsFiniteSet(Admitted)
  /\ WindowKept

\* Every slot is free or held by one of finitely many running requests.
SlotInv == IsFiniteSet(In("running")) /\ SlotsAccounted

ApiInv == TypeOK /\ SlotInv /\ LimiterInv

\* The requests in the sets In(s), Stamped and Admitted, by their state.
LEMMA InMeaning ==
  /\ \A r : r \in Stamped <=> r \in Requests /\ state[r] = "stamped"
  /\ \A r : r \in In("running") <=> r \in Requests /\ state[r] = "running"
  /\ \A r : r \in Admitted <=> r \in Requests /\ state[r] \notin {"new", "stamped", "refused"}
BY DEF In, Stamped, Admitted

\* The types give numbers, so that arithmetic applies.
LEMMA ApiNumbers ==
  ASSUME TypeOK
  PROVE  /\ now \in Nat /\ Window \in Nat /\ MaxDelay \in Nat /\ Limit \in Nat
         /\ \A r \in Requests : stamp[r] \in Nat /\ admittedAt[r] \in Nat
         /\ events \in Seq(Requests) /\ Len(events) \in Nat
         /\ \A i \in 1..Len(events) : events[i] \in Requests
BY ApiAssumption DEF TypeOK
-----------------------------------------------------------------------------
(***************************************************************************)
(* The slots.                                                              *)
(***************************************************************************)
\* A request that starts takes one slot, and one that ends gives one back.
LEMMA NextSlots ==
  ASSUME TypeOK, SlotInv, [Next]_vars
  PROVE  SlotInv' /\ free' \in 0..MaxSlots
<1>1. /\ IsFiniteSet(In("running")) /\ Cardinality(In("running")) \in Nat
      /\ free + Cardinality(In("running")) = MaxSlots /\ free \in Nat /\ MaxSlots \in Nat
      /\ state \in [Requests -> States]
  BY ApiAssumption, FS_CardinalityType DEF SlotInv, SlotsAccounted, TypeOK
<1>2. CASE In("running")' = In("running") /\ free' = free
  BY <1>1, <1>2 DEF SlotInv, SlotsAccounted
<1>3. ASSUME NEW r \in Requests, Acquire(r) PROVE SlotInv' /\ free' \in 0..MaxSlots
  <2>1. /\ state[r] = "admitted" /\ free > 0 /\ free' = free - 1
        /\ state' = [state EXCEPT ![r] = "running"]
    BY <1>3 DEF Acquire
  <2>2. In("running")' = In("running") \cup {r} /\ r \notin In("running")
    BY <1>1, <2>1 DEF In
  <2>3. /\ IsFiniteSet(In("running") \cup {r})
        /\ Cardinality(In("running") \cup {r}) = Cardinality(In("running")) + 1
    BY <1>1, <2>2, FS_AddElement
  <2> QED BY <1>1, <2>1, <2>2, <2>3 DEF SlotInv, SlotsAccounted
<1>4. ASSUME NEW r \in Requests, Answer(r) \/ Fail(r) PROVE SlotInv' /\ free' \in 0..MaxSlots
  <2>1. /\ state[r] = "running" /\ free' = free + 1
        /\ \E s \in {"answered", "failed"} : state' = [state EXCEPT ![r] = s]
    BY <1>4 DEF Answer, Fail, ReleasedOnError
  <2>2. In("running")' = In("running") \ {r} /\ r \in In("running")
    BY <1>1, <2>1 DEF In
  <2>3. /\ IsFiniteSet(In("running") \ {r})
        /\ Cardinality(In("running") \ {r}) = Cardinality(In("running")) - 1
    BY <1>1, <2>2, FS_RemoveElement
  <2>4. Cardinality(In("running") \ {r}) \in Nat
    BY <2>3, FS_CardinalityType
  <2>5. IsFiniteSet(In("running")') /\ Cardinality(In("running")') = Cardinality(In("running")) - 1
    BY <2>2, <2>3
  <2>6. free' \in 0..MaxSlots /\ free' + (Cardinality(In("running")) - 1) = MaxSlots
    BY <1>1, <2>1, <2>3, <2>4
  <2> QED BY <2>5, <2>6 DEF SlotInv, SlotsAccounted
<1>5. ASSUME NEW r \in Requests, ReadClock(r) \/ Admit(r) \/ Refuse(r) \/ Invalid(r) \/ Busy(r)
      PROVE  In("running")' = In("running") /\ free' = free
  <2>1. /\ state[r] \in {"new", "stamped", "admitted"} /\ free' = free
        /\ \E s \in {"stamped", "admitted", "refused", "invalid", "busy"} :
             state' = [state EXCEPT ![r] = s]
    BY <1>5 DEF ReadClock, Admit, Refuse, Invalid, Busy
  <2> QED BY <1>1, <2>1 DEF In
<1>6. CASE Tick \/ (\E r \in Requests : NodeForecast(r)) \/ UNCHANGED vars
  <2>1. state' = state /\ free' = free
    BY <1>6 DEF Tick, NodeForecast, vars
  <2> QED BY <1>2, <2>1 DEF In
<1> QED BY <1>2, <1>3, <1>4, <1>5, <1>6 DEF Next

\* Every step, and every stutter, keeps the types.
LEMMA NextApiType ==
  ASSUME TypeOK, SlotInv, [Next]_vars
  PROVE  TypeOK'
<1>1. free' \in 0..MaxSlots
  BY NextSlots
<1>2. /\ now \in 0..MaxTime /\ state \in [Requests -> States]
      /\ stamp \in [Requests -> 0..MaxTime] /\ admittedAt \in [Requests -> 0..MaxTime]
      /\ events \in Seq(Requests) /\ left \in [Requests -> 0..MaxBatch]
      /\ MaxTime \in Nat /\ MaxBatch \in Nat
  BY ApiAssumption DEF TypeOK
<1>3. now' \in 0..MaxTime
  BY <1>2 DEF Next, Tick, ReadClock, Admit, Refuse, Invalid, Acquire, Busy, NodeForecast,
              Answer, Fail, vars
<1>4. state' \in [Requests -> States]
  BY <1>2 DEF Next, Tick, ReadClock, Admit, Refuse, Invalid, Acquire, Busy, NodeForecast,
              Answer, Fail, vars, States
<1>5. stamp' \in [Requests -> 0..MaxTime] /\ admittedAt' \in [Requests -> 0..MaxTime]
  BY <1>2 DEF Next, Tick, ReadClock, Admit, Refuse, Invalid, Acquire, Busy, NodeForecast,
              Answer, Fail, vars
<1>6. left' \in [Requests -> 0..MaxBatch]
  <2>1. CASE left' = left
    BY <1>2, <2>1
  <2>2. ASSUME NEW r \in Requests, Acquire(r) PROVE left' \in [Requests -> 0..MaxBatch]
    BY <1>2, <2>2 DEF Acquire
  <2>3. ASSUME NEW r \in Requests, NodeForecast(r) PROVE left' \in [Requests -> 0..MaxBatch]
    <3>1. left' = [left EXCEPT ![r] = @ - 1] /\ left[r] - 1 \in 0..MaxBatch
      BY <1>2, <2>3 DEF NodeForecast
    <3> QED BY <1>2, <3>1
  <2>4. ASSUME NEW r \in Requests, Answer(r) \/ Fail(r)
        PROVE  left' \in [Requests -> 0..MaxBatch]
    BY <1>2, <2>4 DEF Answer, Fail
  <2> QED BY <2>1, <2>2, <2>3, <2>4
          DEF Next, Tick, ReadClock, Admit, Refuse, Invalid, Busy, vars
<1>7. events' \in Seq(Requests)
  <2>1. CASE events' = events
    BY <1>2, <2>1
  <2>2. ASSUME NEW r \in Requests, Admit(r) \/ Refuse(r) PROVE events' \in Seq(Requests)
    <3>1. stamp[r] \in Nat
      BY <1>2
    <3>2. Pruned(stamp[r]) \in Seq(Requests)
      BY <3>1, PrunedFront
    <3> QED BY <2>2, <3>2 DEF Admit, Refuse
  <2> QED BY <2>1, <2>2
          DEF Next, Tick, ReadClock, Invalid, Acquire, Busy, NodeForecast, Answer, Fail, vars
<1> QED BY <1>1, <1>3, <1>4, <1>5, <1>6, <1>7 DEF TypeOK
-----------------------------------------------------------------------------
(***************************************************************************)
(* The limiter.                                                            *)
(***************************************************************************)
\* A deque holds no more requests than it has entries.
LEMMA RangeBound ==
  ASSUME NEW S, NEW l \in Seq(S)
  PROVE  IsFiniteSet(Range(l)) /\ Cardinality(Range(l)) <= Len(l) /\ Cardinality(Range(l)) \in Nat
<1>1. /\ Len(l) \in Nat /\ IsFiniteSet(1..Len(l)) /\ Cardinality(1..Len(l)) = Len(l)
  <2>1. Len(l) \in Nat
    OBVIOUS
  <2> QED BY <2>1, FS_Interval
<1>2. l \in Surjection(1..Len(l), Range(l))
  BY DEF Surjection, Range
<1> QED BY <1>1, <1>2, FS_Surjection, FS_CardinalityType

\* What check() leaves in the deque before it counts: admitted requests in order,
\* none of them older than the window and the delay; whatever it took out is that
\* old.
LEMMA PrunedDeque ==
  ASSUME TypeOK, LimiterInv, NEW r \in Stamped, NEW p, p = Pruned(stamp[r])
  PROVE  /\ p \in Seq(Requests) /\ Len(p) \in Nat /\ Len(p) <= Len(events)
         /\ \A i \in 1..Len(p) : /\ p[i] \in Admitted
                                 /\ stamp[p[i]] + Window + MaxDelay > stamp[r]
         /\ \A i, j \in 1..Len(p) :
              i < j => p[i] # p[j] /\ admittedAt[p[i]] <= admittedAt[p[j]]
         /\ \A q \in Admitted : \/ \E i \in 1..Len(p) : p[i] = q
                                \/ admittedAt[q] + Window <= now + MaxDelay
<1>1. /\ now \in Nat /\ Window \in Nat /\ MaxDelay \in Nat /\ Len(events) \in Nat
      /\ \A q \in Requests : stamp[q] \in Nat /\ admittedAt[q] \in Nat
      /\ \A i \in 1..Len(events) : events[i] \in Requests
  BY ApiNumbers
<1>2. r \in Requests /\ stamp[r] \in Nat /\ stamp[r] <= now
  BY <1>1, InMeaning DEF LimiterInv
<1>3. PICK k \in 0..Len(events) :
        /\ p \in Seq(Requests) /\ Len(p) = Len(events) - k
        /\ \A i \in 1..(Len(events) - k) : p[i] = events[k + i]
        /\ \A i \in 1..k : stamp[events[i]] + Window <= stamp[r]
        /\ k < Len(events) => stamp[events[k + 1]] + Window > stamp[r]
  BY <1>2, PrunedFront
<1>4. /\ Len(p) \in Nat /\ Len(p) <= Len(events)
      /\ \A i \in 1..Len(p) : k + i \in 1..Len(events) /\ p[i] = events[k + i]
  BY <1>1, <1>3
<1>5. \A q \in Admitted : /\ q \in Requests /\ stamp[q] <= admittedAt[q]
                          /\ admittedAt[q] <= stamp[q] + MaxDelay
  BY InMeaning DEF LimiterInv
<1>6. \A i \in 1..Len(p) : p[i] \in Admitted
  BY <1>4 DEF LimiterInv
<1>7. \A i, j \in 1..Len(p) : i < j => p[i] # p[j] /\ admittedAt[p[i]] <= admittedAt[p[j]]
  <2> SUFFICES ASSUME NEW i \in 1..Len(p), NEW j \in 1..Len(p), i < j
               PROVE  p[i] # p[j] /\ admittedAt[p[i]] <= admittedAt[p[j]]
    OBVIOUS
  <2>1. k + i \in 1..Len(events) /\ k + j \in 1..Len(events) /\ k + i < k + j
        /\ p[i] = events[k + i] /\ p[j] = events[k + j]
    BY <1>1, <1>4
  <2> QED BY <2>1 DEF LimiterInv
<1>8. ASSUME NEW i \in 1..Len(p) PROVE stamp[p[i]] + Window + MaxDelay > stamp[r]
  <2>1. 1 \in 1..Len(p) /\ k < Len(events) /\ p[1] = events[k + 1]
    BY <1>3, <1>4, <1>8
  <2>2. stamp[p[1]] + Window > stamp[r]
    BY <1>3, <2>1
  <2>3. admittedAt[p[1]] <= admittedAt[p[i]]
    <3>1. CASE i = 1
      BY <1>1, <1>5, <1>6, <3>1
    <3>2. CASE i > 1
      BY <1>7, <2>1, <3>2
    <3> QED BY <1>8, <3>1, <3>2
  <2>4. /\ p[1] \in Requests /\ p[i] \in Requests
        /\ stamp[p[1]] <= admittedAt[p[1]] /\ admittedAt[p[i]] <= stamp[p[i]] + MaxDelay
    BY <1>5, <1>6, <2>1
  <2>5. /\ stamp[p[1]] \in Nat /\ stamp[p[i]] \in Nat
        /\ admittedAt[p[1]] \in Nat /\ admittedAt[p[i]] \in Nat
    BY <1>1, <2>4
  <2>6. Window \in Nat /\ MaxDelay \in Nat /\ stamp[r] \in Nat
    BY <1>1, <1>2
  <2>7. stamp[p[1]] <= stamp[p[i]] + MaxDelay
    BY <2>3, <2>4, <2>5, <2>6
  <2> QED BY <2>2, <2>5, <2>6, <2>7
<1>9. ASSUME NEW q \in Admitted, ~ \E i \in 1..Len(p) : p[i] = q
      PROVE  admittedAt[q] + Window <= now + MaxDelay
  <2>1. CASE \E i \in 1..Len(events) : events[i] = q
    <3>1. PICK i \in 1..Len(events) : events[i] = q
      BY <2>1
    <3>2. i \in 1..k
      <4>1. CASE i > k
        <5>1. i - k \in 1..Len(p) /\ k + (i - k) = i
          BY <1>1, <1>3, <4>1
        <5>2. p[i - k] = q
          BY <1>4, <3>1, <5>1
        <5> QED BY <1>9, <5>1, <5>2
      <4> QED BY <1>1, <4>1
    <3>3. stamp[q] + Window <= stamp[r]
      BY <1>3, <3>1, <3>2
    <3> QED BY <1>1, <1>2, <1>5, <3>3
  <2> QED BY <2>1 DEF LimiterInv
<1> QED BY <1>3, <1>4, <1>6, <1>7, <1>8, <1>9

\* A step that lets nobody through leaves every period's requests as they were.
LEMMA WindowStays ==
  ASSUME WindowKept, Admitted' = Admitted,
         \A q \in Admitted : admittedAt'[q] = admittedAt[q]
  PROVE  WindowKept'
<1> SUFFICES ASSUME NEW r \in Admitted
    PROVE  Cardinality({q \in Admitted :
             /\ admittedAt'[q] <= admittedAt'[r]
             /\ admittedAt'[r] + MaxDelay < admittedAt'[q] + Window}) <= Limit
  BY DEF WindowKept
<1>1. {q \in Admitted : /\ admittedAt'[q] <= admittedAt'[r]
                        /\ admittedAt'[r] + MaxDelay < admittedAt'[q] + Window}
      = {q \in Admitted : /\ admittedAt[q] <= admittedAt[r]
                          /\ admittedAt[r] + MaxDelay < admittedAt[q] + Window}
  OBVIOUS
<1> QED BY <1>1 DEF WindowKept

\* The handler's steps after the limiter, and a reading of the clock.
LEMMA QuietLimiter ==
  ASSUME TypeOK, LimiterInv, UNCHANGED <<now, events, admittedAt>>, NEW r \in Requests,
         NEW s \in States, state' = [state EXCEPT ![r] = s],
         \/ stamp' = stamp /\ state[r] \notin {"new", "stamped", "refused"}
            /\ s \notin {"new", "stamped", "refused"}
         \/ stamp' = [stamp EXCEPT ![r] = now] /\ state[r] = "new" /\ s = "stamped"
  PROVE  LimiterInv'
<1>1. /\ now \in Nat /\ MaxDelay \in Nat
      /\ state \in [Requests -> States] /\ stamp \in [Requests -> 0..MaxTime]
  BY ApiNumbers DEF TypeOK
<1>2. Admitted' = Admitted /\ \A q \in Admitted : q \in Requests /\ stamp'[q] = stamp[q]
  BY <1>1 DEF Admitted, In, Stamped
<1>3. \A q \in Stamped' : (q \in Stamped /\ stamp'[q] = stamp[q]) \/ stamp'[q] = now
  BY <1>1 DEF In, Stamped
<1>4. WindowKept'
  BY <1>2, WindowStays DEF LimiterInv
<1>5. \A q \in Stamped' : stamp'[q] <= now /\ now <= stamp'[q] + MaxDelay
  BY <1>1, <1>3 DEF LimiterInv
<1> QED BY <1>2, <1>4, <1>5 DEF LimiterInv

\* The clock waits for a thread that is MaxDelay behind it.
LEMMA TickLimiter ==
  ASSUME TypeOK, LimiterInv, Tick
  PROVE  LimiterInv'
<1>1. /\ now' = now + 1 /\ UNCHANGED <<state, stamp, events, admittedAt>>
      /\ \A r \in Stamped : now < stamp[r] + MaxDelay
  BY DEF Tick
<1>2. /\ now \in Nat /\ Window \in Nat /\ MaxDelay \in Nat
      /\ \A q \in Requests : stamp[q] \in Nat /\ admittedAt[q] \in Nat
  BY ApiNumbers
<1>3. /\ Admitted' = Admitted /\ Stamped' = Stamped
      /\ \A q \in Admitted \cup Stamped : q \in Requests
  BY <1>1, InMeaning DEF Admitted, In, Stamped
<1>4. WindowKept'
  BY <1>1, <1>3, WindowStays DEF LimiterInv
<1>5. \A q \in Admitted : admittedAt[q] <= now + 1
  BY <1>2, <1>3 DEF LimiterInv
<1>6. \A q \in Stamped : stamp[q] <= now + 1 /\ now + 1 <= stamp[q] + MaxDelay
  BY <1>1, <1>2, <1>3 DEF LimiterInv
<1>7. \A q \in Admitted : admittedAt[q] + Window <= now + MaxDelay
                            => admittedAt[q] + Window <= now + 1 + MaxDelay
  BY <1>2, <1>3
<1> QED BY <1>1, <1>3, <1>4, <1>5, <1>6, <1>7 DEF LimiterInv

\* A refused request leaves nothing behind but a pruned deque.
LEMMA RefuseLimiter ==
  ASSUME TypeOK, LimiterInv, NEW r \in Requests, Refuse(r)
  PROVE  LimiterInv'
<1>1. /\ state[r] = "stamped" /\ events' = Pruned(stamp[r])
      /\ state' = [state EXCEPT ![r] = "refused"]
      /\ UNCHANGED <<now, stamp, admittedAt>>
  BY DEF Refuse
<1>2. Admitted' = Admitted /\ \A q \in Stamped' : q \in Stamped
  BY <1>1 DEF TypeOK, Admitted, In, Stamped
<1>3. r \in Stamped
  BY <1>1, InMeaning
<1>4. /\ Len(events') \in Nat /\ Len(events') <= Len(events)
      /\ \A i \in 1..Len(events') : events'[i] \in Admitted
      /\ \A i, j \in 1..Len(events') :
           i < j => events'[i] # events'[j] /\ admittedAt[events'[i]] <= admittedAt[events'[j]]
      /\ \A q \in Admitted : \/ \E i \in 1..Len(events') : events'[i] = q
                             \/ admittedAt[q] + Window <= now + MaxDelay
  BY <1>1, <1>3, PrunedDeque
<1>5. WindowKept'
  BY <1>1, <1>2, WindowStays DEF LimiterInv
<1>6. Len(events') <= Limit
  BY <1>4, ApiNumbers DEF LimiterInv
<1> QED BY <1>1, <1>2, <1>4, <1>5, <1>6 DEF LimiterInv

\* A request that is let through joins the deque.  Of a period that ends now, the
\* deque holds every request, so they are Limit at most; the periods that ended
\* earlier get nobody new.
LEMMA AdmitLimiter ==
  ASSUME TypeOK, TypeOK', LimiterInv, NEW r \in Requests, Admit(r)
  PROVE  LimiterInv'
<1> DEFINE p == Pruned(stamp[r])
<1>1. /\ state[r] = "stamped" /\ Len(p) < Limit /\ events' = Append(p, r)
      /\ state' = [state EXCEPT ![r] = "admitted"]
      /\ admittedAt' = [admittedAt EXCEPT ![r] = now]
      /\ UNCHANGED <<now, stamp>>
  BY DEF Admit, Room
<1>2. /\ now \in Nat /\ Window \in Nat /\ MaxDelay \in Nat /\ Limit \in Nat
      /\ \A q \in Requests : stamp[q] \in Nat /\ admittedAt[q] \in Nat
  BY ApiNumbers
<1>3. /\ Admitted' = Admitted \cup {r} /\ r \notin Admitted /\ r \in Stamped
      /\ \A q \in Stamped' : q \in Stamped
  BY <1>1 DEF TypeOK, Admitted, In, Stamped
<1>4. /\ admittedAt'[r] = now
      /\ \A q \in Admitted : q \in Requests /\ admittedAt'[q] = admittedAt[q]
                             /\ admittedAt[q] <= now
  BY <1>1, <1>3, InMeaning DEF TypeOK, LimiterInv
<1>5. /\ p \in Seq(Requests) /\ Len(p) \in Nat
      /\ \A i \in 1..Len(p) : p[i] \in Admitted
      /\ \A i, j \in 1..Len(p) :
           i < j => p[i] # p[j] /\ admittedAt[p[i]] <= admittedAt[p[j]]
      /\ \A q \in Admitted : \/ \E i \in 1..Len(p) : p[i] = q
                             \/ admittedAt[q] + Window <= now + MaxDelay
  BY <1>3, PrunedDeque
<1> HIDE DEF p
<1>6. /\ Len(events') = Len(p) + 1 /\ events'[Len(p) + 1] = r
      /\ \A i \in 1..Len(p) : events'[i] = p[i]
      /\ events' \in Seq(Requests)
  BY <1>1, <1>5
<1>7. \A i \in 1..Len(events') : i \in 1..Len(p) \/ i = Len(p) + 1
  BY <1>5, <1>6
<1>8. \A i \in 1..Len(events') : events'[i] \in Admitted'
  BY <1>3, <1>5, <1>6, <1>7
<1>9. \A i, j \in 1..Len(events') : i < j =>
        events'[i] # events'[j] /\ admittedAt'[events'[i]] <= admittedAt'[events'[j]]
  <2> SUFFICES ASSUME NEW i \in 1..Len(events'), NEW j \in 1..Len(events'), i < j
               PROVE  events'[i] # events'[j]
                      /\ admittedAt'[events'[i]] <= admittedAt'[events'[j]]
    OBVIOUS
  <2>1. i \in 1..Len(p)
    BY <1>5, <1>6, <1>7
  <2>2. CASE j \in 1..Len(p)
    BY <1>4, <1>5, <1>6, <2>1, <2>2
  <2>3. CASE j = Len(p) + 1
    BY <1>3, <1>4, <1>5, <1>6, <2>1, <2>3
  <2> QED BY <1>7, <2>2, <2>3
<1>10. \A q \in Admitted' : \/ \E i \in 1..Len(events') : events'[i] = q
                            \/ admittedAt'[q] + Window <= now + MaxDelay
  <2> TAKE q \in Admitted'
  <2>1. CASE q = r
    <3>1. Len(p) + 1 \in 1..Len(events')
      BY <1>5, <1>6
    <3> QED BY <1>6, <2>1, <3>1
  <2>2. CASE q \in Admitted
    <3>1. CASE \E i \in 1..Len(p) : p[i] = q
      <4>1. 1..Len(p) \subseteq 1..Len(events')
        BY <1>5, <1>6
      <4> QED BY <1>6, <3>1, <4>1
    <3> QED BY <1>4, <1>5, <2>2, <3>1
  <2> QED BY <1>3, <2>1, <2>2
<1>11. Len(events') <= Limit
  BY <1>1, <1>2, <1>5, <1>6
<1>12. IsFiniteSet(Admitted')
  BY <1>3, FS_AddElement DEF LimiterInv
<1>13. ASSUME NEW x \in Admitted'
       PROVE  Cardinality({q \in Admitted' :
                /\ admittedAt'[q] <= admittedAt'[x]
                /\ admittedAt'[x] + MaxDelay < admittedAt'[q] + Window}) <= Limit
  <2> DEFINE near == {q \in Admitted' :
                        /\ admittedAt'[q] <= admittedAt'[x]
                        /\ admittedAt'[x] + MaxDelay < admittedAt'[q] + Window}
  <2>1. CASE admittedAt'[x] = now
    <3>1. near \subseteq Range(events')
      <4> SUFFICES ASSUME NEW q \in near PROVE q \in Range(events')
        OBVIOUS
      <4>1. q \in Admitted' /\ q \in Requests /\ now + MaxDelay < admittedAt'[q] + Window
        BY <1>3, <1>4, <2>1
      <4>2. admittedAt'[q] \in Nat
        BY <1>2, <1>3, <1>4, <4>1
      <4>3. ~ (admittedAt'[q] + Window <= now + MaxDelay)
        BY <1>2, <4>1, <4>2
      <4>4. \E i \in 1..Len(events') : events'[i] = q
        BY <1>10, <4>1, <4>3
      <4> QED BY <1>6, <4>4 DEF Range
    <3>2. /\ IsFiniteSet(Range(events')) /\ Cardinality(Range(events')) <= Len(events')
          /\ Cardinality(Range(events')) \in Nat
      BY <1>6, RangeBound
    <3> HIDE DEF near
    <3>3. Cardinality(near) <= Cardinality(Range(events')) /\ Cardinality(near) \in Nat
      BY <3>1, <3>2, FS_Subset, FS_CardinalityType
    <3> QED BY <1>1, <1>2, <1>5, <1>6, <3>2, <3>3 DEF near
  <2>2. CASE admittedAt'[x] # now
    <3>1. x \in Admitted /\ x # r /\ admittedAt'[x] = admittedAt[x]
          /\ admittedAt[x] \in Nat /\ admittedAt[x] < now
      BY <1>2, <1>3, <1>4, <2>2
    <3>2. near = {q \in Admitted : /\ admittedAt[q] <= admittedAt[x]
                                   /\ admittedAt[x] + MaxDelay < admittedAt[q] + Window}
      BY <1>2, <1>3, <1>4, <3>1
    <3> QED BY <3>1, <3>2 DEF LimiterInv, WindowKept
  <2> QED BY <2>1, <2>2
<1>14. WindowKept'
  BY <1>13 DEF WindowKept
<1>15. \A q \in Admitted' : /\ stamp'[q] <= admittedAt'[q] /\ admittedAt'[q] <= now'
                            /\ admittedAt'[q] <= stamp'[q] + MaxDelay
  <2> TAKE q \in Admitted'
  <2>1. CASE q = r
    BY <1>1, <1>2, <1>3, <1>4, <2>1 DEF LimiterInv
  <2>2. CASE q \in Admitted
    BY <1>1, <1>4, <2>2 DEF LimiterInv
  <2> QED BY <1>3, <2>1, <2>2
<1>16. \A q \in Stamped' : stamp'[q] <= now' /\ now' <= stamp'[q] + MaxDelay
  BY <1>1, <1>3 DEF LimiterInv
<1> QED BY <1>1, <1>8, <1>9, <1>10, <1>11, <1>12, <1>14, <1>15, <1>16 DEF LimiterInv

\* Every step, and every stutter, preserves the invariant of the limiter.
LEMMA NextLimiter ==
  ASSUME TypeOK, TypeOK', LimiterInv, [Next]_vars
  PROVE  LimiterInv'
<1>1. state \in [Requests -> States]
  BY DEF TypeOK
<1>2. CASE Tick
  BY <1>2, TickLimiter
<1>3. ASSUME NEW r \in Requests, ReadClock(r) PROVE LimiterInv'
  BY <1>3, QuietLimiter DEF ReadClock, States
<1>4. ASSUME NEW r \in Requests, Invalid(r) \/ Acquire(r) \/ Busy(r) \/ Answer(r) \/ Fail(r)
      PROVE  LimiterInv'
  <2>1. /\ UNCHANGED <<now, events, admittedAt, stamp>>
        /\ state[r] \in {"admitted", "running"}
        /\ \E s \in {"invalid", "running", "busy", "answered", "failed"} :
             state' = [state EXCEPT ![r] = s]
    BY <1>4 DEF Invalid, Acquire, Busy, Answer, Fail
  <2>2. \A s \in {"invalid", "running", "busy", "answered", "failed"} :
          s \in States /\ s \notin {"new", "stamped", "refused"}
    BY DEF States
  <2> QED BY <2>1, <2>2, QuietLimiter
<1>5. CASE (\E r \in Requests : NodeForecast(r)) \/ UNCHANGED vars
  <2>1. UNCHANGED <<now, events, admittedAt, stamp, state>>
    BY <1>5 DEF NodeForecast, vars
  <2>2. Admitted' = Admitted /\ Stamped' = Stamped
    BY <2>1 DEF Admitted, In, Stamped
  <2>3. WindowKept'
    BY <2>1, <2>2, WindowStays DEF LimiterInv
  <2> QED BY <2>1, <2>2, <2>3 DEF LimiterInv
<1>6. ASSUME NEW r \in Requests, Admit(r) PROVE LimiterInv'
  BY <1>6, AdmitLimiter
<1>7. ASSUME NEW r \in Requests, Refuse(r) PROVE LimiterInv'
  BY <1>7, RefuseLimiter
<1> QED BY <1>2, <1>3, <1>4, <1>5, <1>6, <1>7 DEF Next

\* The server starts with free slots and an empty deque.
LEMMA InitApi == Init => ApiInv
<1> SUFFICES ASSUME Init PROVE ApiInv
  OBVIOUS
<1>1. /\ now = 0 /\ state = [r \in Requests |-> "new"] /\ stamp = [r \in Requests |-> 0]
      /\ admittedAt = [r \in Requests |-> 0] /\ events = <<>> /\ free = MaxSlots
      /\ left = [r \in Requests |-> 0]
  BY DEF Init
<1>2. In("running") = {} /\ Stamped = {} /\ Admitted = {}
  BY <1>1 DEF In, Stamped, Admitted
<1>3. TypeOK
  <2>1. 0 \in 0..MaxTime /\ 0 \in 0..MaxBatch /\ MaxSlots \in 0..MaxSlots
    BY ApiAssumption
  <2> QED BY <1>1, <2>1 DEF TypeOK, States
<1>4. SlotInv
  BY <1>1, <1>2, FS_EmptySet, ApiAssumption DEF SlotInv, SlotsAccounted
<1>5. LimiterInv
  <2>1. Len(events) = 0 /\ 1..Len(events) = {} /\ 0 <= Limit
    BY <1>1, ApiAssumption
  <2> QED BY <1>2, <2>1, FS_EmptySet DEF LimiterInv, WindowKept
<1> QED BY <1>3, <1>4, <1>5 DEF ApiInv

\* ApiInv holds whenever the server runs.
LEMMA ApiInvariant == Spec => []ApiInv
<1>1. ApiInv /\ [Next]_vars => ApiInv'
  BY NextSlots, NextApiType, NextLimiter DEF ApiInv
<1> QED BY <1>1, InitApi, PTL DEF Spec
-----------------------------------------------------------------------------
\* The server's objects keep their types; the semaphore never holds more slots than
\* it was made with.
THEOREM ApiTypeCorrect == Spec => []TypeOK
<1>1. ApiInv => TypeOK
  BY DEF ApiInv
<1> QED BY <1>1, ApiInvariant, PTL

\* _forecast_capacity: every slot is free or held by one running request, whatever
\* forecasts raise and however requests interleave.
THEOREM SlotsAreAccounted == Spec => []SlotsAccounted
<1>1. ApiInv => SlotsAccounted
  BY DEF ApiInv, SlotInv
<1> QED BY <1>1, ApiInvariant, PTL

\* _FixedWindowRateLimiter.check lets no more than the limit through in a window,
\* less the time a thread may lose between the clock and the lock, for any number
\* of requests in any order.
THEOREM WindowIsKept == Spec => []WindowKept
<1>1. ApiInv => WindowKept
  BY DEF ApiInv, LimiterInv
<1> QED BY <1>1, ApiInvariant, PTL

\* What check() refuses, it refuses because the limit was used up in the window
\* before the request's clock reading, stretched by the delay.
THEOREM RefusalsAreJustified == Spec => RefusalJustified
<1> DEFINE Justified ==
      \A r \in Requests :
        state'[r] = "refused" /\ state[r] # "refused" =>
          Cardinality({q \in Admitted : stamp[q] + Window + MaxDelay > stamp[r]}) >= Limit
<1>1. ASSUME ApiInv, NEW r \in Requests, Refuse(r)
      PROVE  Cardinality({q \in Admitted : stamp[q] + Window + MaxDelay > stamp[r]}) >= Limit
  <2> DEFINE p == Pruned(stamp[r])
             near == {q \in Admitted : stamp[q] + Window + MaxDelay > stamp[r]}
  <2>1. r \in Stamped /\ ~(Len(p) < Limit) /\ TypeOK /\ LimiterInv /\ Limit \in Nat
    BY <1>1, InMeaning, ApiAssumption DEF Refuse, Room, ApiInv
  <2>2. /\ p \in Seq(Requests) /\ Len(p) \in Nat
        /\ \A i \in 1..Len(p) : p[i] \in near
        /\ \A i, j \in 1..Len(p) : i < j => p[i] # p[j]
    BY <2>1, PrunedDeque
  <2> HIDE DEF p
  <2>3. p \in Injection(1..Len(p), near)
    <3>1. p \in [1..Len(p) -> near]
      BY <2>2
    <3>2. \A i, j \in 1..Len(p) : p[i] = p[j] => i = j
      BY <2>2
    <3> QED BY <3>1, <3>2 DEF Injection, IsInjective
  <2>4. IsFiniteSet(near) /\ Cardinality(near) \in Nat
    BY <2>1, FS_Subset, FS_CardinalityType DEF LimiterInv
  <2>5. Cardinality(1..Len(p)) = Len(p)
    <3>1. Len(p) \in Nat
      BY <2>2
    <3> QED BY <3>1, FS_Interval
  <2> HIDE DEF near
  <2>6. Len(p) <= Cardinality(near)
    BY <2>3, <2>4, <2>5, FS_Injection
  <2> QED BY <2>1, <2>2, <2>4, <2>6 DEF near
<1>2. ApiInv /\ [Next]_vars => [Justified]_vars
  <2> SUFFICES ASSUME ApiInv, Next, NEW r \in Requests,
                      state'[r] = "refused", state[r] # "refused"
               PROVE  Refuse(r)
    BY <1>1
  <2>1. state \in [Requests -> States]
    BY DEF ApiInv, TypeOK
  <2> QED BY <2>1 DEF Next, Tick, ReadClock, Admit, Refuse, Invalid, Acquire, Busy,
                      NodeForecast, Answer, Fail
<1> QED BY <1>2, ApiInvariant, PTL DEF Spec, RefusalJustified
=============================================================================
