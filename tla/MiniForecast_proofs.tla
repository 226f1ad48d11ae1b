-------------------------- MODULE MiniForecast_proofs --------------------------
(***************************************************************************)
(* Proofs about MiniForecast, for every number of experts, every budget    *)
(* and every escalation policy: types, the order of the results, the       *)
(* budget of calls, the account of the pools, the fallback, and that the   *)
(* run is one of ForecastRun.                                              *)
(***************************************************************************)
EXTENDS MiniForecast, Integers, FiniteSetTheorems, FunctionTheorems, SequenceTheorems, TLAPS
-----------------------------------------------------------------------------
(***************************************************************************)
(* What selecting positions of a sequence returns: the elements at those   *)
(* positions and no others, each position once.                            *)
(***************************************************************************)
\* The ranks of finitely many positions number them from one, without gap or
\* repetition.
LEMMA RankNumbers ==
  ASSUME NEW n \in Nat, NEW I \in SUBSET (1..n)
  PROVE  /\ IsFiniteSet(I) /\ Cardinality(I) \in Nat
         /\ \A i \in I : Rank(I, i) \in 1..Cardinality(I)
         /\ \A i, j \in I : i < j => Rank(I, i) < Rank(I, j)
         /\ \A k \in 1..Cardinality(I) : \E i \in I : Rank(I, i) = k
<1> DEFINE Upto(i) == {j \in I : j <= i}
<1>0. I \subseteq Int
  OBVIOUS
<1>1. IsFiniteSet(I) /\ Cardinality(I) \in Nat
  <2>1. IsFiniteSet(1..n)
    BY FS_Interval
  <2>2. IsFiniteSet(I)
    BY <2>1, FS_Subset
  <2> QED BY <2>2, FS_CardinalityType
<1>2. \A i \in I : IsFiniteSet(Upto(i)) /\ Rank(I, i) \in 1..Cardinality(I)
  <2> TAKE i \in I
  <2>1. Upto(i) \in SUBSET I /\ {i} \in SUBSET Upto(i)
    BY <1>0
  <2>2. Rank(I, i) = Cardinality(Upto(i))
    BY DEF Rank
  <2> HIDE DEF Upto
  <2>3. /\ IsFiniteSet(Upto(i)) /\ Cardinality(Upto(i)) \in Nat
        /\ Cardinality(Upto(i)) <= Cardinality(I)
    BY <1>1, <2>1, FS_Subset, FS_CardinalityType
  <2>4. Cardinality({i}) = 1
    BY FS_Singleton
  <2>5. Cardinality({i}) <= Cardinality(Upto(i))
    BY <2>1, <2>3, FS_Subset
  <2> QED BY <1>1, <2>2, <2>3, <2>4, <2>5
<1>3. \A i, j \in I : i < j => Rank(I, i) < Rank(I, j)
  <2> SUFFICES ASSUME NEW i \in I, NEW j \in I, i < j PROVE Rank(I, i) < Rank(I, j)
    OBVIOUS
  <2>1. Upto(i) \in SUBSET Upto(j) /\ j \in Upto(j) /\ j \notin Upto(i)
    <3>1. i \in Int /\ j \in Int
      BY <1>0
    <3>2. \A l \in I : l <= i => l <= j
      BY <1>0, <3>1
    <3>3. ~(j <= i) /\ j <= j
      BY <3>1
    <3> QED BY <3>2, <3>3
  <2>2. Rank(I, i) = Cardinality(Upto(i)) /\ Rank(I, j) = Cardinality(Upto(j))
    BY DEF Rank
  <2>3. IsFiniteSet(Upto(j)) /\ Rank(I, i) \in Nat /\ Rank(I, j) \in Nat
    <3>1. /\ IsFiniteSet(Upto(j))
          /\ Rank(I, i) \in 1..Cardinality(I) /\ Rank(I, j) \in 1..Cardinality(I)
      BY <1>2
    <3> QED BY <3>1
  <2> HIDE DEF Upto
  <2>4. /\ Cardinality(Upto(i)) <= Cardinality(Upto(j))
        /\ Cardinality(Upto(i)) # Cardinality(Upto(j))
    BY <2>1, <2>3, FS_Subset
  <2> QED BY <2>2, <2>3, <2>4
<1>4. ASSUME NEW k \in 1..Cardinality(I) PROVE \E i \in I : Rank(I, i) = k
  <2> DEFINE f == [i \in I |-> Rank(I, i)]
             T == 1..Cardinality(I)
  <2>1. f \in [I -> T] /\ \A i \in I : f[i] = Rank(I, i)
    BY <1>2
  <2>2. \A i, j \in I : i # j => f[i] # f[j]
    <3>1. \A i, j \in I : i # j => i < j \/ j < i
      BY <1>0
    <3>2. \A i \in I : f[i] \in Int
      BY <1>1, <2>1
    <3>3. \A i, j \in I : i < j => f[i] < f[j]
      BY <1>3, <2>1
    <3> HIDE DEF f, T
    <3> QED BY <3>1, <3>2, <3>3
  <2>3. IsFiniteSet(T) /\ Cardinality(T) = Cardinality(I)
    BY <1>1, FS_Interval
  <2>4. f \in Injection(I, T)
    <3> HIDE DEF f, T
    <3> QED BY <2>1, <2>2 DEF Injection, IsInjective
  <2>5. f \in Surjection(I, T)
    <3> HIDE DEF f, T
    <3> QED BY <2>3, <2>4, FS_Injection
  <2>6. k \in T
    OBVIOUS
  <2>7. \E i \in I : f[i] = k
    <3> HIDE DEF f, T
    <3> QED BY <2>5, <2>6 DEF Surjection
  <2> QED BY <2>1, <2>7
<1> QED BY <1>1, <1>2, <1>3, <1>4

\* The k-th position is one of the positions, the k-th is not the l-th, and
\* every position is the k-th for some k.
LEMMA NthPosition ==
  ASSUME NEW n \in Nat, NEW I \in SUBSET (1..n)
  PROVE  /\ \A k \in 1..Cardinality(I) : Nth(I, k) \in I /\ Rank(I, Nth(I, k)) = k
         /\ \A k, l \in 1..Cardinality(I) : k # l => Nth(I, k) # Nth(I, l)
         /\ \A i \in I : Rank(I, i) \in 1..Cardinality(I) /\ Nth(I, Rank(I, i)) = i
<1>1. \A k \in 1..Cardinality(I) : Nth(I, k) \in I /\ Rank(I, Nth(I, k)) = k
  BY RankNumbers DEF Nth
<1>2. \A i, j \in I : Rank(I, i) = Rank(I, j) => i = j
  <2>1. \A i, j \in I : i # j => i < j \/ j < i
    OBVIOUS
  <2>2. \A i \in I : Rank(I, i) \in Int
    <3>1. \A i \in I : Rank(I, i) \in 1..Cardinality(I)
      BY RankNumbers
    <3> QED BY <3>1
  <2>3. \A i, j \in I : i < j => Rank(I, i) < Rank(I, j)
    BY RankNumbers
  <2> QED BY <2>1, <2>2, <2>3
<1>3. \A i \in I : Rank(I, i) \in 1..Cardinality(I)
  BY RankNumbers
<1> QED BY <1>1, <1>2, <1>3

\* Later positions are found later.
LEMMA NthIncreases ==
  ASSUME NEW n \in Nat, NEW I \in SUBSET (1..n)
  PROVE  \A k, l \in 1..Cardinality(I) : k < l => Nth(I, k) < Nth(I, l)
<1> SUFFICES ASSUME NEW k \in 1..Cardinality(I), NEW l \in 1..Cardinality(I), k < l
             PROVE  Nth(I, k) < Nth(I, l)
  OBVIOUS
<1>1. /\ Nth(I, k) \in I /\ Rank(I, Nth(I, k)) = k
      /\ Nth(I, l) \in I /\ Rank(I, Nth(I, l)) = l
  BY NthPosition
<1>2. \A i, j \in I : i < j => Rank(I, i) < Rank(I, j)
  BY RankNumbers
<1>3. k \in Int /\ l \in Int
  OBVIOUS
<1>4. Nth(I, k) \in Int /\ Nth(I, l) \in Int
  <2>1. I \subseteq Int
    OBVIOUS
  <2> QED BY <1>1, <2>1
<1>5. CASE Nth(I, l) < Nth(I, k)
  <2>1. l < k
    BY <1>1, <1>2, <1>5
  <2> QED BY <1>3, <2>1
<1>6. CASE Nth(I, l) = Nth(I, k)
  BY <1>1, <1>3, <1>6
<1> QED BY <1>4, <1>5, <1>6

\* A selection is a sequence over the same set; its elements are those at the
\* positions selected.
LEMMA SelectedElements ==
  ASSUME NEW S, NEW s \in Seq(S), NEW I \in SUBSET (1..Len(s))
  PROVE  /\ Selected(s, I) \in Seq(S)
         /\ Len(Selected(s, I)) = Cardinality(I) /\ Cardinality(I) \in 0..Len(s)
         /\ DOMAIN Selected(s, I) = 1..Cardinality(I)
         /\ \A k \in 1..Cardinality(I) : Nth(I, k) \in I /\ Selected(s, I)[k] = s[Nth(I, k)]
         /\ \A i \in I : \E k \in 1..Cardinality(I) : Selected(s, I)[k] = s[i]
         /\ Selected(s, I) = <<>> <=> I = {}
<1>1. Len(s) \in Nat /\ \A i \in 1..Len(s) : s[i] \in S
  OBVIOUS
<1>2. IsFiniteSet(I) /\ Cardinality(I) \in 0..Len(s)
  <2>1. IsFiniteSet(1..Len(s)) /\ Cardinality(1..Len(s)) = Len(s)
    <3>1. Cardinality(1..Len(s)) = IF 1 > Len(s) THEN 0 ELSE Len(s) - 1 + 1
      BY <1>1, FS_Interval
    <3>2. IsFiniteSet(1..Len(s))
      BY <1>1, FS_Interval
    <3> QED BY <1>1, <3>1, <3>2
  <2>2. IsFiniteSet(I) /\ Cardinality(I) <= Len(s)
    BY <2>1, FS_Subset
  <2> QED BY <1>1, <2>2, FS_CardinalityType
<1>3. \A k \in 1..Cardinality(I) : Nth(I, k) \in I /\ Nth(I, k) \in 1..Len(s)
  BY <1>1, NthPosition
<1>4. /\ DOMAIN Selected(s, I) = 1..Cardinality(I)
      /\ \A k \in 1..Cardinality(I) : Selected(s, I)[k] = s[Nth(I, k)]
  BY DEF Selected
<1>5. Selected(s, I) \in [1..Cardinality(I) -> S]
  BY <1>1, <1>3 DEF Selected
<1>6. Cardinality(I) \in Nat
  BY <1>2
<1>7. Selected(s, I) \in Seq(S) /\ Len(Selected(s, I)) = Cardinality(I)
  BY <1>5, <1>6
<1>8. \A i \in I : \E k \in 1..Cardinality(I) : Selected(s, I)[k] = s[i]
  <2> TAKE i \in I
  <2>1. Rank(I, i) \in 1..Cardinality(I) /\ Nth(I, Rank(I, i)) = i
    BY <1>1, NthPosition
  <2> QED BY <1>4, <2>1
<1>9. Selected(s, I) = <<>> <=> I = {}
  <2>1. Selected(s, I) = <<>> <=> Cardinality(I) = 0
    BY <1>7
  <2>2. Cardinality(I) = 0 <=> I = {}
    BY <1>2, FS_EmptySet
  <2> QED BY <2>1, <2>2
<1> QED BY <1>2, <1>3, <1>4, <1>7, <1>8, <1>9

\* Of a sequence without repetition, a selection has none.
LEMMA SelectedDistinct ==
  ASSUME NEW S, NEW s \in Seq(S), NEW I \in SUBSET (1..Len(s)),
         \A i, j \in 1..Len(s) : i # j => s[i] # s[j]
  PROVE  \A k, l \in 1..Cardinality(I) : k # l => Selected(s, I)[k] # Selected(s, I)[l]
<1>1. Len(s) \in Nat
  OBVIOUS
<1>2. \A k, l \in 1..Cardinality(I) : k # l => Nth(I, k) # Nth(I, l)
  BY <1>1, NthPosition
<1>3. \A k \in 1..Cardinality(I) : Nth(I, k) \in 1..Len(s) /\ Selected(s, I)[k] = s[Nth(I, k)]
  <2>1. \A k \in 1..Cardinality(I) : Nth(I, k) \in I /\ Selected(s, I)[k] = s[Nth(I, k)]
    BY SelectedElements
  <2> QED BY <2>1
<1> QED BY <1>2, <1>3
-----------------------------------------------------------------------------
(***************************************************************************)
(* The inductive invariant.                                                *)
(***************************************************************************)
\* The expert whose result is the i-th of the run.
PlanOrder(i) == IF ranked > 0 THEN i ELSE Fallback

\* The results are those of a prefix of the plan; the stage under way continues it,
\* within the budget of calls.
OrderInv ==
  /\ phase = "plan" => results = <<>> /\ job = [e \in Experts |-> "idle"]
  /\ \A i \in DOMAIN results : /\ results[i].name = PlanOrder(i)
                               /\ results[i].reused <=> results[i].name \in DOMAIN precomputed
  /\ phase = "running" =>
       /\ batch = ToCall(requested)
       /\ \A i \in DOMAIN requested : requested[i] = PlanOrder(Len(results) + i)
       /\ results = <<>> => Len(requested) = 1
       /\ ranked = 0 => Len(results) + Len(requested) <= 1
       /\ Calls + Len(requested) <= CallBudget
  /\ phase = "assess" => Len(results) = 1
  /\ ranked = 0 => Len(results) <= 1
  /\ Calls <= CallBudget

\* The calls of the running stage: those recorded are over or were timed out late,
\* those a sequential stage has not come to are not started.
StageInv ==
  /\ Len(runs) <= Len(batch)
  /\ \A i \in 1..Len(runs) :
       /\ job[batch[i]] # "queued"
       /\ job[batch[i]] = "running" => runs[i] = "timeout"
       /\ runs[i] = "timeout" => batch[i] \in late
  /\ ~parallel => \A i \in DOMAIN batch : i > Awaited => job[batch[i]] = "idle"
  /\ (expired /\ Awaited <= Len(batch)) =>
       \A e \in PoolOf(Awaited) : ~Finished(e) => e \in late

InBatch(e) == phase = "running" /\ \E i \in DOMAIN batch : batch[i] = e

\* An expert outside the running stage was called only for a result of this run, and
\* still runs only when that result is a timeout.
OutsideInv ==
  \A e \in Experts : ~InBatch(e) =>
    /\ job[e] # "queued"
    /\ job[e] = "running" =>
         \E i \in DOMAIN results : results[i].name = e /\ results[i].outcome = "timeout"
    /\ job[e] # "idle" =>
         \E i \in DOMAIN results : results[i].name = e /\ ~results[i].reused

PoolInv == (phase = "running" => StageInv) /\ OutsideInv /\ TimelyAnswerKept

\* The fallback was tried, as last resort or as the primary expert.
Tried == fallbackCalls > 0 \/ \E i \in DOMAIN results : results[i].name = Fallback

\* The run says it used the fallback when it did, and then combines nothing else.
Alone ==
  /\ fallbackUsed <=> \E i \in DOMAIN used : used[i] = Fallback
  /\ fallbackUsed => Len(used) = 1

\* The cascade leaves the fallback alone.
Untouched == fallbackCalls = 0 /\ ~fallbackUsed /\ used = <<>>

\* What is combined was obtained; a fallback that was called is what is combined.
Pending ==
  /\ Alone /\ used # <<>> /\ \A i \in DOMAIN used : used[i] \in Obtained
  /\ fallbackUsed \/ fallbackCalls = 0
  /\ fallbackUsed => Tried

\* The fallback is called once at most, and never mixed or forgotten.
FallbackInv ==
  /\ phase \in {"plan", "running", "assess", "gather"} => Untouched
  /\ phase \in {"combine", "verify"} => Pending
  /\ phase = "done" <=> status # ""
  /\ fallbackCalls <= 1
  /\ FallbackRight

MiniInv == TypeOK /\ OrderInv /\ PoolInv /\ FallbackInv

\* What CalledOnce says of a step.
OneCall ==
  \A e \in Experts :
    (job'[e] = "queued" /\ job[e] # "queued") => job[e] = "idle" /\ e \notin DOMAIN precomputed

\* The types of the pool's variables.
PoolType ==
  /\ requested \in Seq(Experts) /\ batch \in Seq(Experts) /\ runs \in Seq(Outcomes)
  /\ parallel \in BOOLEAN /\ expired \in BOOLEAN /\ late \subseteq Experts
  /\ job \in [Experts -> {"idle", "queued", "running", "cancelled"} \cup Forecasts]
-----------------------------------------------------------------------------
(***************************************************************************)
(* Numbers.                                                                *)
(***************************************************************************)
\* The types, and the index sets of the sequences.
LEMMA MiniTypes ==
  ASSUME TypeOK
  PROVE  /\ ranked \in Nat /\ MaxEscalation \in Nat
         /\ results \in Seq(ResultType) /\ Len(results) \in Nat
         /\ DOMAIN results = 1..Len(results)
         /\ requested \in Seq(Experts) /\ Len(requested) \in Nat
         /\ DOMAIN requested = 1..Len(requested)
         /\ batch \in Seq(Experts) /\ Len(batch) \in Nat /\ DOMAIN batch = 1..Len(batch)
         /\ \A i \in 1..Len(batch) : batch[i] \in Experts
         /\ runs \in Seq(Outcomes) /\ Len(runs) \in Nat
         /\ job \in [Experts -> {"idle", "queued", "running", "cancelled"} \cup Forecasts]
         /\ used \in Seq(Experts) /\ Len(used) \in Nat /\ DOMAIN used = 1..Len(used)
<1>1. /\ ranked \in 0..MaxRanked
      /\ results \in Seq(ResultType)
      /\ requested \in Seq(Experts) /\ batch \in Seq(Experts) /\ runs \in Seq(Outcomes)
      /\ job \in [Experts -> {"idle", "queued", "running", "cancelled"} \cup Forecasts]
      /\ used \in Seq(Experts)
  BY DEF TypeOK
<1>2. ranked \in Nat /\ MaxEscalation \in Nat
  BY <1>1, MiniAssumption
<1>3. Len(results) \in Nat /\ DOMAIN results = 1..Len(results)
  BY <1>1
<1>4. Len(requested) \in Nat /\ DOMAIN requested = 1..Len(requested)
  BY <1>1
<1>5. /\ Len(batch) \in Nat /\ DOMAIN batch = 1..Len(batch)
      /\ \A i \in 1..Len(batch) : batch[i] \in Experts
  BY <1>1
<1>6. Len(runs) \in Nat /\ Len(used) \in Nat /\ DOMAIN used = 1..Len(used)
  BY <1>1
<1> QED BY <1>1, <1>2, <1>3, <1>4, <1>5, <1>6

\* The cascade may make at least one call, and counts those it has made.
LEMMA CallNumbers ==
  ASSUME TypeOK
  PROVE  /\ CallBudget \in Nat /\ 1 <= CallBudget
         /\ IsFiniteSet({i \in DOMAIN results : ~results[i].reused})
         /\ Calls \in Nat /\ Calls <= Len(results) /\ Len(results) \in Nat
<1> DEFINE I == {i \in DOMAIN results : ~results[i].reused}
<1>1. budget \in BudgetType
  BY MiniAssumption DEF TypeOK
<1>2. budget.maxCalls \in Nat
  BY <1>1 DEF BudgetType
<1>3. CallBudget \in Nat /\ 1 <= CallBudget
  BY <1>2 DEF CallBudget
<1>4. Len(results) \in Nat /\ I \in SUBSET (1..Len(results))
  BY MiniTypes
<1>5. IsFiniteSet(1..Len(results)) /\ Cardinality(1..Len(results)) <= Len(results)
  <2>1. Cardinality(1..Len(results)) = IF 1 > Len(results) THEN 0 ELSE Len(results) - 1 + 1
    BY <1>4, FS_Interval
  <2>2. IsFiniteSet(1..Len(results))
    BY <1>4, FS_Interval
  <2> QED BY <1>4, <2>1, <2>2
<1>6. IsFiniteSet(I) /\ Cardinality(I) <= Cardinality(1..Len(results))
  <2> HIDE DEF I
  <2> QED BY <1>4, <1>5, FS_Subset
<1>7. Cardinality(I) \in Nat /\ Cardinality(1..Len(results)) \in Nat
  BY <1>5, <1>6, FS_CardinalityType
<1>8. Calls = Cardinality(I)
  BY DEF Calls
<1> HIDE DEF I
<1>9. Calls \in Nat /\ Calls <= Len(results)
  BY <1>4, <1>5, <1>6, <1>7, <1>8
<1> QED BY <1>3, <1>4, <1>6, <1>9 DEF I

\* The second stage takes no more experts than are left in the plan, and no more
\* than there are calls left.
LEMMA ExtraBound ==
  ASSUME TypeOK
  PROVE  /\ Extra \in Int /\ Calls + Extra <= CallBudget
         /\ ranked > 0 => Extra + 1 <= ranked
         /\ ranked = 0 => Extra <= 0
<1>1. CallBudget \in Nat /\ Calls \in Nat /\ ranked \in Nat /\ MaxEscalation \in Nat
  BY CallNumbers, MiniTypes
<1> DEFINE c == Cardinality(Candidates)
<1>2. c = IF 2 > ranked THEN 0 ELSE ranked - 2 + 1
  BY <1>1, FS_Interval DEF Candidates
<1>3. Remaining \in Int /\ Remaining = CallBudget - Calls
  BY <1>1 DEF Remaining
<1>4. Extra = Min({MaxEscalation, Remaining, c})
  BY DEF Extra
<1>5. c \in Int
  BY <1>1, <1>2
<1> HIDE DEF c
<1>6. \E m \in {MaxEscalation, Remaining, c} : \A y \in {MaxEscalation, Remaining, c} : m <= y
  BY <1>1, <1>3, <1>5
<1>7. /\ Extra \in {MaxEscalation, Remaining, c}
      /\ \A y \in {MaxEscalation, Remaining, c} : Extra <= y
  BY <1>4, <1>6 DEF Min
<1> QED BY <1>1, <1>2, <1>3, <1>5, <1>7

\* The experts that have to be called are those requested whose forecast is not
\* known, each once.
LEMMA CallsOfStage ==
  ASSUME NEW names \in Seq(Experts),
         \A i, j \in 1..Len(names) : i # j => names[i] # names[j]
  PROVE  /\ ToCall(names) \in Seq(Experts) /\ Len(ToCall(names)) \in 0..Len(names)
         /\ \A k \in 1..Len(ToCall(names)) :
              /\ ToCall(names)[k] \notin DOMAIN precomputed
              /\ \E i \in 1..Len(names) : names[i] = ToCall(names)[k]
         /\ \A i \in 1..Len(names) : names[i] \notin DOMAIN precomputed =>
              \E k \in 1..Len(ToCall(names)) : ToCall(names)[k] = names[i]
         /\ \A k, l \in 1..Len(ToCall(names)) : k # l => ToCall(names)[k] # ToCall(names)[l]
<1> DEFINE I == {i \in 1..Len(names) : names[i] \notin DOMAIN precomputed}
           sel == Selected(names, I)
<1>1. ToCall(names) = sel
  <2>1. DOMAIN names = 1..Len(names)
    OBVIOUS
  <2> QED BY <2>1 DEF ToCall
<1>2. I \in SUBSET (1..Len(names)) /\ \A i \in I : names[i] \notin DOMAIN precomputed
  OBVIOUS
<1>3. \A i \in 1..Len(names) : names[i] \notin DOMAIN precomputed => i \in I
  OBVIOUS
<1> HIDE DEF I
<1>4. /\ sel \in Seq(Experts) /\ DOMAIN sel = 1..Cardinality(I)
      /\ Len(sel) = Cardinality(I) /\ Cardinality(I) \in 0..Len(names)
      /\ \A k \in 1..Cardinality(I) : Nth(I, k) \in I /\ sel[k] = names[Nth(I, k)]
      /\ \A i \in I : \E k \in 1..Cardinality(I) : sel[k] = names[i]
  <2>1. sel = Selected(names, I)
    OBVIOUS
  <2> HIDE DEF sel
  <2> QED BY <1>2, <2>1, SelectedElements
<1>5. \A k, l \in 1..Cardinality(I) : k # l => sel[k] # sel[l]
  BY <1>2, SelectedDistinct
<1> HIDE DEF sel
<1> QED BY <1>1, <1>2, <1>3, <1>4, <1>5

\* The experts of the stage under way come after those with a result, each once.
LEMMA StageNames ==
  ASSUME TypeOK, OrderInv, phase = "running"
  PROVE  /\ requested \in Seq(Experts) /\ Len(requested) \in Nat /\ Len(batch) \in Nat
         /\ \A i, j \in 1..Len(requested) : i # j => requested[i] # requested[j]
         /\ \A i \in 1..Len(requested) : \A k \in DOMAIN results :
              results[k].name # requested[i]
         /\ \A k \in 1..Len(batch) :
              /\ batch[k] \in Experts /\ batch[k] \notin DOMAIN precomputed
              /\ \E i \in 1..Len(requested) : requested[i] = batch[k]
         /\ \A i \in 1..Len(requested) : requested[i] \notin DOMAIN precomputed =>
              \E k \in 1..Len(batch) : batch[k] = requested[i]
         /\ \A k, l \in 1..Len(batch) : k # l => batch[k] # batch[l]
<1>1. /\ requested \in Seq(Experts) /\ Len(requested) \in Nat /\ DOMAIN requested = 1..Len(requested)
      /\ batch \in Seq(Experts) /\ Len(batch) \in Nat /\ Len(results) \in Nat
      /\ DOMAIN results = 1..Len(results) /\ ranked \in Nat
  BY MiniTypes
<1>2. /\ batch = ToCall(requested)
      /\ \A i \in 1..Len(requested) : requested[i] = PlanOrder(Len(results) + i)
      /\ ranked = 0 => Len(results) + Len(requested) <= 1
      /\ \A i \in 1..Len(results) : results[i].name = PlanOrder(i)
  BY <1>1 DEF OrderInv
<1>3. CASE ranked > 0
  <2>1. /\ \A i \in 1..Len(requested) : requested[i] = Len(results) + i
        /\ \A i \in 1..Len(results) : results[i].name = i
    BY <1>2, <1>3 DEF PlanOrder
  <2>2. /\ \A i, j \in 1..Len(requested) : i # j => requested[i] # requested[j]
        /\ \A i \in 1..Len(requested) : \A k \in 1..Len(results) : results[k].name # requested[i]
    BY <1>1, <2>1
  <2>3. /\ \A k \in 1..Len(batch) :
              /\ batch[k] \notin DOMAIN precomputed
              /\ \E i \in 1..Len(requested) : requested[i] = batch[k]
        /\ \A i \in 1..Len(requested) : requested[i] \notin DOMAIN precomputed =>
              \E k \in 1..Len(batch) : batch[k] = requested[i]
        /\ \A k, l \in 1..Len(batch) : k # l => batch[k] # batch[l]
    <3>1. /\ requested \in Seq(Experts)
          /\ \A i, j \in 1..Len(requested) : i # j => requested[i] # requested[j]
      BY <1>1, <2>2
    <3>2. batch = ToCall(requested)
      BY <1>2
    <3> QED BY ONLY <3>1, <3>2, CallsOfStage
  <2> QED BY <1>1, <2>2, <2>3, MiniTypes
<1>4. CASE ranked = 0
  <2>1. Len(requested) <= 1 /\ (Len(requested) = 0 \/ Len(results) = 0)
    BY <1>1, <1>2, <1>4
  <2>2. /\ \A i, j \in 1..Len(requested) : i = j
        /\ \A i \in 1..Len(requested) : \A k \in 1..Len(results) : FALSE
    BY <1>1, <2>1
  <2>3. /\ \A k \in 1..Len(batch) :
              /\ batch[k] \notin DOMAIN precomputed
              /\ \E i \in 1..Len(requested) : requested[i] = batch[k]
        /\ \A i \in 1..Len(requested) : requested[i] \notin DOMAIN precomputed =>
              \E k \in 1..Len(batch) : batch[k] = requested[i]
        /\ \A k, l \in 1..Len(batch) : k # l => batch[k] # batch[l]
    <3>1. /\ requested \in Seq(Experts)
          /\ \A i, j \in 1..Len(requested) : i # j => requested[i] # requested[j]
      BY <1>1, <2>2
    <3>2. batch = ToCall(requested)
      BY <1>2
    <3> QED BY ONLY <3>1, <3>2, CallsOfStage
  <2> QED BY <1>1, <2>2, <2>3, MiniTypes
<1>5. ranked > 0 \/ ranked = 0
  BY <1>1
<1> QED BY <1>3, <1>4, <1>5
-----------------------------------------------------------------------------
(***************************************************************************)
(* Handing a stage to the pools.                                           *)
(***************************************************************************)
\* A stage that continues the results within the budget calls experts that were
\* not called before, and keeps the invariant.
LEMMA RequestStage ==
  ASSUME TypeOK, OrderInv, PoolInv, phase # "running",
         NEW names \in Seq(Experts), Request(names), UNCHANGED <<plan, results, late>>,
         \A i \in 1..Len(names) : names[i] = PlanOrder(Len(results) + i),
         results = <<>> => Len(names) = 1,
         ranked = 0 => Len(results) + Len(names) <= 1,
         Calls + Len(names) <= CallBudget
  PROVE  PoolType' /\ phase' = "running" /\ OrderInv' /\ PoolInv' /\ OneCall
<1> DEFINE todo == ToCall(names)
<1>1. /\ Len(names) \in Nat /\ Len(results) \in Nat /\ DOMAIN results = 1..Len(results)
      /\ DOMAIN names = 1..Len(names) /\ ranked \in Nat
      /\ \A i \in 1..Len(results) : results[i].name = PlanOrder(i)
  <2>1. Len(results) \in Nat /\ DOMAIN results = 1..Len(results) /\ ranked \in Nat
    BY MiniTypes
  <2>2. Len(names) \in Nat /\ DOMAIN names = 1..Len(names)
    OBVIOUS
  <2> QED BY <2>1, <2>2 DEF OrderInv
<1>2. /\ \A i, j \in 1..Len(names) : i # j => names[i] # names[j]
      /\ \A i \in 1..Len(names) : \A k \in 1..Len(results) : results[k].name # names[i]
  <2>1. CASE ranked > 0
    <3>1. /\ \A i \in 1..Len(names) : names[i] = Len(results) + i
          /\ \A i \in 1..Len(results) : results[i].name = i
      BY <1>1, <2>1 DEF PlanOrder
    <3> QED BY <1>1, <3>1
  <2>2. CASE ranked = 0
    <3>1. Len(names) <= 1 /\ (Len(names) = 0 \/ Len(results) = 0)
      BY <1>1, <2>2
    <3> QED BY <1>1, <3>1
  <2>3. ranked > 0 \/ ranked = 0
    BY <1>1
  <2> QED BY <2>1, <2>2, <2>3
<1>3. /\ todo \in Seq(Experts) /\ Len(todo) \in 0..Len(names)
      /\ \A k \in 1..Len(todo) : /\ todo[k] \notin DOMAIN precomputed
                               /\ \E i \in 1..Len(names) : names[i] = todo[k]
      /\ \A k, l \in 1..Len(todo) : k # l => todo[k] # todo[l]
  BY <1>2, CallsOfStage
<1>4. /\ requested' = names /\ batch' = todo /\ runs' = <<>> /\ phase' = "running"
      /\ parallel' \in BOOLEAN /\ expired' = FALSE
      /\ job' = [e \in Experts |->
                   IF \E i \in DOMAIN todo : todo[i] = e /\ (parallel' \/ i = 1)
                   THEN "queued" ELSE job[e]]
  <2>1. budget.parallel \in BOOLEAN
    <3>1. budget \in BudgetType
      BY MiniAssumption DEF TypeOK
    <3> QED BY <3>1 DEF BudgetType
  <2> HIDE DEF todo
  <2>2. todo = ToCall(names)
    BY DEF todo
  <2> QED BY <2>1, <2>2 DEF Request
<1> HIDE DEF todo
<1>5. \A e \in Experts :
        /\ job[e] # "queued"
        /\ job[e] # "idle" => \E i \in 1..Len(results) : results[i].name = e
  BY <1>1 DEF PoolInv, OutsideInv, InBatch
<1>6. \A k \in 1..Len(todo) : todo[k] \in Experts /\ job[todo[k]] = "idle"
  <2>1. \A k \in 1..Len(todo) : todo[k] \in Experts
    BY <1>3
  <2> QED BY <1>2, <1>3, <1>5, <2>1
<1>7. DOMAIN todo = 1..Len(todo) /\ Len(todo) \in Nat
  BY <1>3
<1>8. /\ \A e \in Experts : job'[e] = job[e] \/
           (job'[e] = "queued" /\ \E i \in 1..Len(todo) : todo[i] = e)
      /\ ~parallel' => \A i \in 1..Len(todo) : i > 1 => job'[todo[i]] = "idle"
  <2>1. \A e \in Experts : job'[e] = job[e] \/
           (job'[e] = "queued" /\ \E i \in 1..Len(todo) : todo[i] = e)
    BY <1>4, <1>7
  <2>2. ASSUME ~parallel', NEW i \in 1..Len(todo), i > 1 PROVE job'[todo[i]] = "idle"
    <3>1. ~\E j \in 1..Len(todo) : todo[j] = todo[i] /\ (parallel' \/ j = 1)
      BY <1>3, <2>2
    <3> QED BY <1>4, <1>6, <1>7, <3>1
  <2> QED BY <2>1, <2>2
<1>9. PoolType'
  <2>1. runs' \in Seq(Outcomes)
    BY <1>4
  <2>2. job' \in [Experts -> {"idle", "queued", "running", "cancelled"} \cup Forecasts]
    <3>1. job \in [Experts -> {"idle", "queued", "running", "cancelled"} \cup Forecasts]
      BY MiniTypes
    <3> QED BY <1>4, <3>1
  <2>3. late' \subseteq Experts
    BY DEF TypeOK
  <2> QED BY <1>3, <1>4, <2>1, <2>2, <2>3 DEF PoolType
<1>10. OrderInv'
  <2>1. /\ results' = results /\ ranked' = ranked /\ precomputed' = precomputed
        /\ budget' = budget /\ baseline' = baseline
    BY DEF plan
  <2>2. Calls' = Calls /\ CallBudget' = CallBudget /\ ToCall(requested)' = todo
    BY <1>4, <2>1 DEF Calls, CallBudget, ToCall, todo
  <2>3. \A i \in DOMAIN results' : /\ results'[i].name = PlanOrder(i)'
                                   /\ results'[i].reused <=> results'[i].name \in DOMAIN precomputed'
    BY <2>1 DEF OrderInv, PlanOrder
  <2>4. \A i \in DOMAIN requested' : requested'[i] = PlanOrder(Len(results) + i)'
    BY <1>1, <1>4, <2>1 DEF PlanOrder
  <2>5. (ranked = 0 => Len(results) <= 1) /\ Calls <= CallBudget
    BY DEF OrderInv
  <2> QED BY <1>4, <2>1, <2>2, <2>3, <2>4, <2>5 DEF OrderInv
<1>11. StageInv'
  <2>1. Len(runs') = 0 /\ Awaited' = 1
    BY <1>4 DEF Awaited
  <2>2. Len(runs') <= Len(batch') /\ \A i \in 1..Len(runs') : FALSE
    BY <1>4, <1>7, <2>1
  <2>3. ~parallel' => \A i \in DOMAIN batch' : i > Awaited' => job'[batch'[i]] = "idle"
    <3>1. batch' = todo /\ DOMAIN batch' = 1..Len(todo)
      BY <1>4, <1>7
    <3> QED BY <1>8, <2>1, <3>1
  <2> QED BY <1>4, <2>2, <2>3 DEF StageInv
<1>12. OutsideInv' /\ TimelyAnswerKept'
  <2>1. results' = results /\ late' = late
    OBVIOUS
  <2>2. \A e \in Experts : ~InBatch(e)' => job'[e] = job[e] /\ ~InBatch(e)
    BY <1>4, <1>7, <1>8 DEF InBatch
  <2>3. OutsideInv /\ TimelyAnswerKept
    BY DEF PoolInv
  <2>4. OutsideInv'
    BY <2>1, <2>2, <2>3 DEF OutsideInv
  <2> QED BY <2>1, <2>3, <2>4 DEF TimelyAnswerKept
<1>13. OneCall
  BY <1>3, <1>5, <1>6, <1>8 DEF OneCall
<1> QED BY <1>4, <1>9, <1>10, <1>11, <1>12, <1>13 DEF PoolInv
-----------------------------------------------------------------------------
(***************************************************************************)
(* Starting, finishing, awaiting and giving up calls.                      *)
(***************************************************************************)
\* Job states.
JobStates == {"idle", "queued", "running", "cancelled"} \cup Forecasts

\* A pool thread that takes a queued call keeps the account of the stage.
LEMMA StartStep ==
  ASSUME TypeOK, OrderInv, PoolInv, NEW e \in Experts, Start(e)
  PROVE  PoolType' /\ OrderInv' /\ PoolInv' /\ OneCall
<1>1. /\ Awaiting /\ job[e] = "queued" /\ \E i \in DOMAIN batch : batch[i] = e
      /\ job' = [job EXCEPT ![e] = "running"]
      /\ UNCHANGED <<plan, phase, results, requested, batch, runs, parallel, expired, late, outcome>>
  BY DEF Start
<1>2. phase = "running" /\ job \in [Experts -> JobStates]
  BY <1>1, MiniTypes DEF Awaiting, JobStates
<1>3. job' \in [Experts -> JobStates] /\ job'[e] = "running"
      /\ \A x \in Experts : x # e => job'[x] = job[x]
  BY <1>1, <1>2 DEF JobStates
<1>4. PoolType'
  BY <1>1, <1>3 DEF PoolType, TypeOK, JobStates
<1>5. OrderInv'
  BY <1>1, <1>2 DEF OrderInv, plan, PlanOrder, ToCall, Calls, CallBudget
<1>6. StageInv
  BY <1>2 DEF PoolInv
<1>7. StageInv'
  <2>1. \A i \in 1..Len(batch) : batch[i] \in Experts
    BY MiniTypes
  <2>2. /\ Len(runs) \in Nat /\ Len(batch) \in Nat /\ DOMAIN batch = 1..Len(batch)
        /\ Len(runs) <= Len(batch)
    BY <1>6, MiniTypes DEF StageInv
  <2>3. \A i \in 1..Len(runs) :
          /\ job'[batch[i]] # "queued"
          /\ job'[batch[i]] = "running" => runs[i] = "timeout"
          /\ runs[i] = "timeout" => batch[i] \in late
    <3>1. \A i \in 1..Len(runs) : batch[i] \in Experts /\ batch[i] # e
      BY <1>1, <1>6, <2>1, <2>2 DEF StageInv
    <3> QED BY <1>3, <1>6, <3>1 DEF StageInv
  <2>4. ~parallel => \A i \in DOMAIN batch : i > Awaited => job'[batch[i]] = "idle"
    BY <1>1, <1>3, <1>6, <2>1, <2>2 DEF StageInv
  <2>5. \A x \in PoolOf(Awaited) : Awaited <= Len(batch) =>
          x \in Experts /\ (Finished(x) => job'[x] \in Forecasts)
    <3>1. Awaited <= Len(batch) => Awaited \in 1..Len(batch)
      BY <2>2 DEF Awaited
    <3>2. \A x \in PoolOf(Awaited) : Awaited <= Len(batch) => x \in Experts
      BY <2>1, <2>2, <3>1 DEF PoolOf
    <3> QED BY <1>1, <1>3, <3>2 DEF Finished, Forecasts
  <2>6. (expired /\ Awaited <= Len(batch)) =>
          \A x \in PoolOf(Awaited) : job'[x] \notin Forecasts => x \in late
    BY <1>6, <2>5 DEF StageInv, Finished
  <2>7. Awaited' = Awaited /\ PoolOf(Awaited)' = PoolOf(Awaited)
    BY <1>1 DEF Awaited, PoolOf
  <2> QED BY <1>1, <2>2, <2>3, <2>4, <2>6, <2>7 DEF StageInv, Finished
<1>8. OutsideInv'
  BY <1>1, <1>2, <1>3 DEF PoolInv, OutsideInv, InBatch
<1>9. TimelyAnswerKept'
  BY <1>1 DEF PoolInv, TimelyAnswerKept
<1> QED BY <1>3, <1>4, <1>5, <1>7, <1>8, <1>9 DEF PoolInv, OneCall

\* An expert that returns, in time or long after, keeps the account.
LEMMA FinishStep ==
  ASSUME TypeOK, OrderInv, PoolInv, NEW e \in Experts, Finish(e)
  PROVE  PoolType' /\ OrderInv' /\ PoolInv' /\ OneCall
<1>1. /\ job[e] = "running"
      /\ \E f \in Forecasts : job' = [job EXCEPT ![e] = f]
      /\ UNCHANGED <<plan, phase, results, requested, batch, runs, parallel, expired, late, outcome>>
  BY DEF Finish
<1>2. job \in [Experts -> JobStates]
  BY MiniTypes DEF JobStates
<1>3. job' \in [Experts -> JobStates] /\ job'[e] \in Forecasts
      /\ \A x \in Experts : x # e => job'[x] = job[x]
  BY <1>1, <1>2 DEF JobStates
<1>4. PoolType'
  BY <1>1, <1>3 DEF PoolType, TypeOK, JobStates
<1>5. OrderInv'
  <2>1. phase # "plan"
    BY <1>1 DEF OrderInv
  <2> QED BY <1>1, <2>1 DEF OrderInv, plan, PlanOrder, ToCall, Calls, CallBudget
<1>6. ASSUME phase = "running" PROVE StageInv'
  <2>1. \A i \in 1..Len(batch) : batch[i] \in Experts
    BY MiniTypes
  <2>2. /\ Len(runs) \in Nat /\ Len(batch) \in Nat /\ DOMAIN batch = 1..Len(batch)
        /\ Len(runs) <= Len(batch) /\ StageInv
    BY <1>6, MiniTypes DEF StageInv, PoolInv
  <2>3. \A i \in 1..Len(runs) :
          /\ job'[batch[i]] # "queued"
          /\ job'[batch[i]] = "running" => runs[i] = "timeout"
          /\ runs[i] = "timeout" => batch[i] \in late
    <3>1. \A i \in 1..Len(runs) : batch[i] \in Experts
      BY <2>1, <2>2
    <3> QED BY <1>3, <2>2, <3>1 DEF StageInv, Forecasts
  <2>4. ~parallel => \A i \in DOMAIN batch : i > Awaited => job'[batch[i]] = "idle"
    BY <1>1, <1>3, <2>1, <2>2 DEF StageInv
  <2>5. \A x \in PoolOf(Awaited) : Awaited <= Len(batch) =>
          x \in Experts /\ (Finished(x) => job'[x] \in Forecasts)
    <3>1. Awaited <= Len(batch) => Awaited \in 1..Len(batch)
      BY <2>2 DEF Awaited
    <3>2. \A x \in PoolOf(Awaited) : Awaited <= Len(batch) => x \in Experts
      BY <2>1, <2>2, <3>1 DEF PoolOf
    <3> QED BY <1>3, <3>2 DEF Finished
  <2>6. (expired /\ Awaited <= Len(batch)) =>
          \A x \in PoolOf(Awaited) : job'[x] \notin Forecasts => x \in late
    BY <2>2, <2>5 DEF StageInv, Finished
  <2>7. Awaited' = Awaited /\ PoolOf(Awaited)' = PoolOf(Awaited)
    BY <1>1 DEF Awaited, PoolOf
  <2> QED BY <1>1, <2>2, <2>3, <2>4, <2>6, <2>7 DEF StageInv, Finished
<1>7. OutsideInv'
  <2>1. \A x \in Experts : InBatch(x)' <=> InBatch(x)
    BY <1>1 DEF InBatch
  <2>2. OutsideInv
    BY DEF PoolInv
  <2>3. results' = results
    BY <1>1
  <2> QED BY <1>1, <1>3, <2>1, <2>2, <2>3 DEF OutsideInv, Forecasts
<1>8. TimelyAnswerKept'
  BY <1>1 DEF PoolInv, TimelyAnswerKept
<1>9. PoolInv'
  <2>1. phase' = phase
    BY <1>1
  <2> QED BY <1>6, <1>7, <1>8, <2>1 DEF PoolInv
<1>10. OneCall
  BY <1>3 DEF OneCall, Forecasts
<1> QED BY <1>4, <1>5, <1>9, <1>10

\* When the time of a pool is up, the history notes who is unfinished.
LEMMA DeadlineStep ==
  ASSUME TypeOK, OrderInv, PoolInv, DeadlinePasses
  PROVE  PoolType' /\ OrderInv' /\ PoolInv' /\ OneCall
<1>1. /\ Awaiting /\ expired' = TRUE
      /\ late' = late \cup {e \in PoolOf(Awaited) : ~Finished(e)}
      /\ UNCHANGED <<plan, phase, results, requested, batch, runs, parallel, job, outcome>>
  BY DEF DeadlinePasses
<1>2. /\ phase = "running" /\ Awaited \in 1..Len(batch) /\ DOMAIN batch = 1..Len(batch)
      /\ \A i \in 1..Len(batch) : batch[i] \in Experts
  <2>1. Awaited <= Len(batch) /\ phase = "running"
    BY <1>1 DEF Awaiting
  <2>2. Len(runs) \in Nat /\ Len(batch) \in Nat
    BY MiniTypes
  <2>3. Awaited \in 1..Len(batch)
    BY <2>1, <2>2 DEF Awaited
  <2> QED BY <2>1, <2>3, MiniTypes
<1>3. PoolOf(Awaited) \subseteq Experts
  BY <1>2 DEF PoolOf
<1>4. PoolType'
  BY <1>1, <1>3 DEF PoolType, TypeOK
<1>5. OrderInv'
  BY <1>1, <1>2 DEF OrderInv, plan, PlanOrder, ToCall, Calls, CallBudget
<1>6. StageInv'
  <2>1. StageInv
    BY <1>2 DEF PoolInv
  <2>2. Awaited' = Awaited /\ PoolOf(Awaited)' = PoolOf(Awaited)
    BY <1>1 DEF Awaited, PoolOf
  <2>3. \A x \in PoolOf(Awaited) : ~Finished(x)' => x \in late'
    BY <1>1 DEF Finished
  <2> QED BY <1>1, <2>1, <2>2, <2>3 DEF StageInv
<1>7. OutsideInv'
  BY <1>1 DEF PoolInv, OutsideInv, InBatch
<1>8. TimelyAnswerKept'
  BY <1>1 DEF PoolInv, TimelyAnswerKept
<1> QED BY <1>1, <1>4, <1>5, <1>6, <1>7, <1>8 DEF PoolInv, OneCall

\* Recording the awaited run keeps the account when the run says what became of
\* its call, and a timeout only of a call that was late.
LEMMA RecordStep ==
  ASSUME TypeOK, OrderInv, PoolInv, Awaiting,
         NEW run \in Outcomes, NEW jobs \in [Experts -> JobStates], Record(run, jobs),
         \A e \in Experts : e # batch[Awaited] \/ Finished(e) => jobs[e] = job[e],
         jobs[batch[Awaited]] # "queued",
         jobs[batch[Awaited]] = "running" => run = "timeout",
         run = "timeout" => batch[Awaited] \in late
  PROVE  PoolType' /\ OrderInv' /\ PoolInv' /\ OneCall
<1> DEFINE n == Awaited
           a == batch[n]
<1>1. /\ runs' = Append(runs, run)
      /\ \/ (parallel \/ n = Len(batch)) /\ job' = jobs /\ expired' = expired
         \/ /\ ~parallel /\ n # Len(batch) /\ expired' = FALSE
            /\ job' = [jobs EXCEPT ![batch[n + 1]] = "queued"]
      /\ UNCHANGED <<plan, phase, results, requested, batch, parallel, late, outcome>>
  BY DEF Record
<1>2. /\ phase = "running" /\ n = Len(runs) + 1 /\ n \in 1..Len(batch)
      /\ Len(runs) \in Nat /\ Len(batch) \in Nat /\ DOMAIN batch = 1..Len(batch)
      /\ \A i \in 1..Len(batch) : batch[i] \in Experts
      /\ runs \in Seq(Outcomes)
  <2>1. n <= Len(batch) /\ phase = "running"
    BY DEF Awaiting
  <2>2. Len(runs) \in Nat /\ Len(batch) \in Nat
    BY MiniTypes
  <2>3. n = Len(runs) + 1 /\ n \in 1..Len(batch)
    BY <2>1, <2>2 DEF Awaited
  <2> QED BY <2>1, <2>3, MiniTypes
<1>3. /\ \A i, j \in 1..Len(batch) : i # j => batch[i] # batch[j]
      /\ \A i \in 1..Len(batch) : batch[i] \notin DOMAIN precomputed
  BY <1>2, StageNames
<1>4. StageInv
  BY <1>2 DEF PoolInv
<1>5. /\ a \in Experts /\ jobs[a] # "queued" /\ (jobs[a] = "running" => run = "timeout")
      /\ run = "timeout" => a \in late
      /\ \A e \in Experts : e # a \/ Finished(e) => jobs[e] = job[e]
  BY <1>2
<1> HIDE DEF n, a
<1>6. a = batch[n]
  BY DEF a
<1>7. /\ runs' \in Seq(Outcomes) /\ Len(runs') = n /\ runs'[n] = run
      /\ \A i \in 1..Len(runs) : runs'[i] = runs[i]
  <2>0. runs' = Append(runs, run) /\ runs \in Seq(Outcomes) /\ run \in Outcomes
    BY <1>1, <1>2
  <2>1. Len(runs') = Len(runs) + 1 /\ runs' \in Seq(Outcomes)
    BY <2>0
  <2>2. runs'[Len(runs) + 1] = run /\ \A i \in 1..Len(runs) : runs'[i] = runs[i]
    BY <2>0
  <2> QED BY <1>2, <2>1, <2>2
<1>8. CASE parallel \/ n = Len(batch)
  <2>1. job' = jobs /\ expired' = expired
    BY <1>1, <1>8
  <2>2. \A i \in 1..n : /\ job'[batch[i]] # "queued"
                        /\ job'[batch[i]] = "running" => runs'[i] = "timeout"
                        /\ runs'[i] = "timeout" => batch[i] \in late
    <3> TAKE i \in 1..n
    <3>1. CASE i = n
      BY <1>5, <1>6, <1>7, <2>1, <3>1
    <3>2. CASE i # n
      <4>1. i \in 1..Len(runs) /\ i \in 1..Len(batch)
        BY <1>2, <3>2
      <4>2. batch[i] \in Experts /\ batch[i] # a
        BY <1>2, <1>3, <1>6, <3>2, <4>1
      <4> QED BY <1>4, <1>5, <1>7, <2>1, <4>1, <4>2 DEF StageInv
    <3> QED BY <3>1, <3>2
  <2>3. ~parallel => \A i \in 1..Len(batch) : ~(i > n + 1)
    <3>1. ~parallel => n = Len(batch)
      BY <1>8
    <3>2. n = Len(batch) => \A i \in 1..Len(batch) : ~(i > n + 1)
      BY <1>2
    <3> QED BY <3>1, <3>2
  <2>4. ASSUME expired', n + 1 <= Len(batch), NEW x \in PoolOf(n + 1), job'[x] \notin Forecasts
        PROVE  x \in late
    <3>1. parallel
      <4>1. n # Len(batch)
        <5>1. n \in Int /\ n + 1 <= Len(batch)
          BY <1>2, <2>4
        <5> QED BY <5>1
      <4> QED BY <1>8, <4>1
    <3>2. x \in PoolOf(n) /\ x \in Experts
      BY <1>2, <3>1, <2>4 DEF PoolOf
    <3>3. ~Finished(x)
      BY <1>5, <2>1, <2>4, <3>2 DEF Finished
    <3>4. Awaited = n /\ n <= Len(batch)
      BY <1>2 DEF Awaited
    <3> QED BY <1>4, <2>1, <2>4, <3>2, <3>3, <3>4 DEF StageInv
  <2>5. StageInv'
    <3>1. Awaited' = n + 1
      BY <1>7 DEF Awaited
    <3>2. batch' = batch /\ late' = late /\ parallel' = parallel
      BY <1>1
    <3>4. \A i \in 1..Len(runs') : /\ job'[batch'[i]] # "queued"
                                   /\ job'[batch'[i]] = "running" => runs'[i] = "timeout"
                                   /\ runs'[i] = "timeout" => batch'[i] \in late'
      BY <1>7, <2>2, <3>2
    <3>5. Len(runs') <= Len(batch')
      BY <1>2, <1>7, <3>2
    <3>6. ~parallel' => \A i \in DOMAIN batch' : i > Awaited' => job'[batch'[i]] = "idle"
      BY <1>2, <2>3, <3>1, <3>2
    <3>7. (expired' /\ Awaited' <= Len(batch')) =>
             \A e \in PoolOf(Awaited)' : job'[e] \notin Forecasts => e \in late'
      <4>1. PoolOf(Awaited)' = PoolOf(n + 1)
        BY <3>1, <3>2 DEF PoolOf
      <4> QED BY <2>4, <3>1, <3>2, <4>1
    <3> QED BY <3>4, <3>5, <3>6, <3>7 DEF StageInv, Finished
  <2>6. /\ job' \in [Experts -> JobStates]
        /\ \A e \in Experts : e # a => job'[e] = job[e]
        /\ job'[a] # "queued" /\ expired' \in BOOLEAN
    BY <1>5, <2>1 DEF TypeOK
  <2>7. OneCall
    BY <1>5, <2>6 DEF OneCall
  <2>8. \A e \in Experts : ~InBatch(e) => job'[e] = job[e]
    BY <1>2, <1>6, <2>6 DEF InBatch
  <2>9. PoolType'
    BY <1>1, <1>7, <2>6 DEF PoolType, TypeOK, JobStates
  <2>10. OutsideInv'
    BY <1>1, <2>8 DEF PoolInv, OutsideInv, InBatch
  <2>11. OrderInv' /\ TimelyAnswerKept'
    BY <1>1, <1>2 DEF PoolInv, TimelyAnswerKept, OrderInv, plan, PlanOrder, ToCall, Calls, CallBudget
  <2> QED BY <2>5, <2>7, <2>9, <2>10, <2>11 DEF PoolInv
<1>9. CASE ~parallel /\ n # Len(batch)
  <2> DEFINE b == batch[n + 1]
  <2>1. job' = [jobs EXCEPT ![b] = "queued"] /\ expired' = FALSE
    BY <1>1, <1>9
  <2>2. n + 1 \in 1..Len(batch) /\ b \in Experts /\ b # a /\ b \notin DOMAIN precomputed
    <3>1. n + 1 \in 1..Len(batch) /\ n + 1 # n
      <4>1. n \in 1..Len(batch) /\ Len(batch) \in Nat /\ n # Len(batch)
        BY <1>2, <1>9
      <4> QED BY <4>1
    <3> QED BY <1>2, <1>3, <1>6, <3>1
  <2>3. job[b] = "idle"
    <3>1. Awaited = n /\ n + 1 > n
      BY <1>2 DEF Awaited
    <3> QED BY <1>2, <1>4, <1>9, <2>2, <3>1 DEF StageInv
  <2>4. \A i \in 1..Len(batch) : i # n + 1 => batch[i] # b
    BY <1>3, <2>2
  <2> HIDE DEF b
  <2>5. /\ job' \in [Experts -> JobStates] /\ job'[b] = "queued" /\ job'[a] = jobs[a]
        /\ \A e \in Experts : e # a /\ e # b => job'[e] = job[e]
    <3>1. job' \in [Experts -> JobStates]
      BY <2>1, <2>2 DEF JobStates
    <3> QED BY <1>5, <2>1, <2>2, <3>1
  <2>6. \A i \in 1..n : /\ job'[batch[i]] # "queued"
                        /\ job'[batch[i]] = "running" => runs'[i] = "timeout"
                        /\ runs'[i] = "timeout" => batch[i] \in late
    <3> TAKE i \in 1..n
    <3>1. CASE i = n
      BY <1>5, <1>6, <1>7, <2>5, <3>1
    <3>2. CASE i # n
      <4>1. i \in 1..Len(runs) /\ i \in 1..Len(batch) /\ i # n + 1
        BY <1>2, <3>2
      <4>2. batch[i] \in Experts /\ batch[i] # a /\ batch[i] # b
        BY <1>2, <1>3, <1>6, <2>4, <3>2, <4>1
      <4> QED BY <1>4, <1>7, <2>5, <4>1, <4>2 DEF StageInv
    <3> QED BY <3>1, <3>2
  <2>7. \A i \in 1..Len(batch) : i > n + 1 => job'[batch[i]] = "idle"
    <3> SUFFICES ASSUME NEW i \in 1..Len(batch), i > n + 1 PROVE job'[batch[i]] = "idle"
      OBVIOUS
    <3>1. i > n /\ i # n + 1 /\ i # n /\ Awaited = n
      BY <1>2 DEF Awaited
    <3>2. batch[i] \in Experts /\ batch[i] # a /\ batch[i] # b
      BY <1>2, <1>3, <1>6, <2>4, <3>1
    <3> QED BY <1>2, <1>4, <1>9, <2>5, <3>1, <3>2 DEF StageInv
  <2>8. StageInv'
    <3>1. Awaited' = n + 1
      BY <1>7 DEF Awaited
    <3>2. batch' = batch /\ late' = late /\ parallel' = parallel
      BY <1>1
    <3>3. \A i \in 1..Len(runs') : /\ job'[batch'[i]] # "queued"
                                   /\ job'[batch'[i]] = "running" => runs'[i] = "timeout"
                                   /\ runs'[i] = "timeout" => batch'[i] \in late'
      BY <1>7, <2>6, <3>2
    <3>4. Len(runs') <= Len(batch')
      BY <1>2, <1>7, <3>2
    <3>5. ~parallel' => \A i \in DOMAIN batch' : i > Awaited' => job'[batch'[i]] = "idle"
      BY <1>2, <2>7, <3>1, <3>2
    <3> QED BY <2>1, <3>3, <3>4, <3>5 DEF StageInv
  <2>9. OneCall
    BY <1>5, <2>2, <2>3, <2>5 DEF OneCall
  <2>10. \A e \in Experts : ~InBatch(e) => job'[e] = job[e]
    BY <1>2, <1>6, <2>2, <2>5 DEF InBatch, b
  <2>11. PoolType'
    BY <1>1, <1>7, <2>1, <2>5 DEF PoolType, TypeOK, JobStates
  <2>12. OutsideInv'
    BY <1>1, <2>10 DEF PoolInv, OutsideInv, InBatch
  <2>13. OrderInv' /\ TimelyAnswerKept'
    BY <1>1, <1>2 DEF PoolInv, TimelyAnswerKept, OrderInv, plan, PlanOrder, ToCall, Calls, CallBudget
  <2> QED BY <2>8, <2>9, <2>11, <2>12, <2>13 DEF PoolInv
<1> QED BY <1>8, <1>9

\* The result of a finished call is recorded as it is.
LEMMA TakeStep ==
  ASSUME TypeOK, OrderInv, PoolInv, TakeResult
  PROVE  PoolType' /\ OrderInv' /\ PoolInv' /\ OneCall
<1>1. Awaiting /\ job[batch[Awaited]] \in Forecasts /\ Record(job[batch[Awaited]], job)
  BY DEF TakeResult, Finished
<1>2. job[batch[Awaited]] \in Outcomes /\ job[batch[Awaited]] \notin {"queued", "running", "timeout"}
  BY <1>1 DEF Outcomes, Forecasts
<1>3. job \in [Experts -> JobStates]
  BY MiniTypes DEF JobStates
<1> QED BY <1>1, <1>2, <1>3, RecordStep

\* A call given up is cancelled when it was queued, and was late in any case.
LEMMA TimeOutStep ==
  ASSUME TypeOK, OrderInv, PoolInv, TimeOut
  PROVE  PoolType' /\ OrderInv' /\ PoolInv' /\ OneCall
<1> DEFINE a == batch[Awaited]
           jobs == Cancelled(a)
<1>1. Awaiting /\ expired /\ ~Finished(a) /\ Record("timeout", jobs)
  BY DEF TimeOut, CanTimeOut, TimedOut
<1>2. job \in [Experts -> JobStates]
  BY MiniTypes DEF JobStates
<1>3. /\ phase = "running" /\ Awaited \in 1..Len(batch) /\ Awaited <= Len(batch)
      /\ a \in Experts
  <2>1. Awaited <= Len(batch) /\ phase = "running"
    BY <1>1 DEF Awaiting
  <2>2. Len(runs) \in Nat /\ Len(batch) \in Nat
    BY MiniTypes
  <2>3. Awaited \in 1..Len(batch)
    BY <2>1, <2>2 DEF Awaited
  <2> QED BY <2>1, <2>3, MiniTypes
<1>4. a \in late
  <2>1. a \in PoolOf(Awaited)
    BY <1>3, MiniTypes DEF PoolOf
  <2> QED BY <1>1, <1>3, <2>1 DEF PoolInv, StageInv
<1> HIDE DEF a
<1>5. /\ jobs \in [Experts -> JobStates] /\ jobs[a] # "queued"
      /\ \A e \in Experts : e # a \/ Finished(e) => jobs[e] = job[e]
  BY <1>1, <1>2, <1>3 DEF Cancelled, JobStates
<1>6. "timeout" \in Outcomes
  BY DEF Outcomes
<1> HIDE DEF jobs
<1> QED BY <1>1, <1>4, <1>5, <1>6, RecordStep DEF a
-----------------------------------------------------------------------------
(***************************************************************************)
(* Collecting a stage.                                                     *)
(***************************************************************************)
\* The result of an expert of the stage is its known forecast or what its call gave.
LEMMA StageResult ==
  ASSUME TypeOK, OrderInv, phase = "running", Len(runs) = Len(batch),
         NEW i \in 1..Len(requested)
  PROVE  /\ Result(requested[i]) \in ResultType
         /\ Result(requested[i]).name = requested[i]
         /\ Result(requested[i]).reused <=> requested[i] \in DOMAIN precomputed
         /\ Result(requested[i]).outcome = "timeout" =>
              \E k \in 1..Len(batch) : batch[k] = requested[i] /\ runs[k] = "timeout"
         /\ \A k \in 1..Len(batch) : batch[k] = requested[i] =>
              Result(requested[i]).outcome = runs[k]
<1> DEFINE e == requested[i]
<1>1. e \in Experts
  BY MiniTypes
<1>2. /\ \A k \in 1..Len(batch) : batch[k] \notin DOMAIN precomputed
      /\ e \notin DOMAIN precomputed => \E k \in 1..Len(batch) : batch[k] = e
      /\ \A k, l \in 1..Len(batch) : k # l => batch[k] # batch[l]
  BY StageNames
<1>3. /\ DOMAIN batch = 1..Len(batch)
      /\ \A k \in 1..Len(batch) : runs[k] \in Outcomes
  BY MiniTypes
<1> HIDE DEF e
<1>4. CASE e \in DOMAIN precomputed
  <2>1. Result(e) = [name |-> e, outcome |-> precomputed[e], reused |-> TRUE]
    BY <1>4 DEF Result
  <2>2. precomputed[e] \in Forecasts
    BY <1>4 DEF TypeOK
  <2>3. \A k \in 1..Len(batch) : batch[k] # e
    BY <1>2, <1>4
  <2> QED BY <1>1, <1>4, <2>1, <2>2, <2>3 DEF ResultType, Outcomes, Forecasts, e
<1>5. CASE e \notin DOMAIN precomputed
  <2> DEFINE c == CHOOSE k \in DOMAIN batch : batch[k] = e
  <2>1. Result(e) = [name |-> e, reused |-> FALSE, outcome |-> runs[c]]
    BY <1>5 DEF Result
  <2>2. c \in 1..Len(batch) /\ batch[c] = e
    BY <1>2, <1>3, <1>5
  <2> HIDE DEF c
  <2>3. \A k \in 1..Len(batch) : batch[k] = e => k = c
    BY <1>2, <2>2
  <2>4. runs[c] \in Outcomes
    BY <1>3, <2>2
  <2> QED BY <1>1, <1>5, <2>1, <2>2, <2>3, <2>4 DEF ResultType, e
<1> QED BY <1>4, <1>5

\* The stage's results continue those of the run in plan order, and account for its
\* calls.
LEMMA CollectStep ==
  ASSUME TypeOK, OrderInv, PoolInv, Collect
  PROVE  /\ results' \in Seq(ResultType) /\ OrderInv' /\ PoolInv' /\ OneCall
         /\ \A i \in 1..Len(results) : i \in 1..Len(results') /\ results'[i] = results[i]
<1> DEFINE n == Len(results)
           m == Len(requested)
<1>1. /\ phase = "running" /\ Len(runs) = Len(batch)
      /\ results' = results \o StageResults
      /\ phase' \in {"assess", "gather"} /\ (phase' = "assess" => results = <<>>)
      /\ UNCHANGED <<plan, pool, outcome>>
  BY DEF Collect
<1>2. /\ n \in Nat /\ m \in Nat /\ ranked \in Nat /\ DOMAIN results = 1..n
      /\ DOMAIN requested = 1..m
  BY MiniTypes
<1>3. /\ \A i \in 1..m : /\ Result(requested[i]) \in ResultType
                         /\ Result(requested[i]).name = requested[i]
                         /\ Result(requested[i]).reused <=> requested[i] \in DOMAIN precomputed
      /\ \A i \in 1..m : Result(requested[i]).outcome = "timeout" =>
              \E k \in 1..Len(batch) : batch[k] = requested[i] /\ runs[k] = "timeout"
      /\ \A i \in 1..m : \A k \in 1..Len(batch) : batch[k] = requested[i] =>
              Result(requested[i]).outcome = runs[k]
  BY <1>1, StageResult
<1> HIDE DEF n, m
<1>4. StageResults \in Seq(ResultType) /\ Len(StageResults) = m
      /\ \A i \in 1..m : StageResults[i] = Result(requested[i])
  <2>1. StageResults = [i \in 1..m |-> Result(requested[i])]
    BY <1>2 DEF StageResults
  <2>2. StageResults \in [1..m -> ResultType]
    BY <1>3, <2>1
  <2> QED BY <1>2, <2>1, <2>2
<1>5. /\ results' \in Seq(ResultType) /\ Len(results') = n + m /\ DOMAIN results' = 1..(n + m)
      /\ \A i \in 1..n : i \in 1..(n + m) /\ results'[i] = results[i]
      /\ \A i \in 1..m : n + i \in 1..(n + m) /\ results'[n + i] = Result(requested[i])
      /\ \A i \in 1..(n + m) : i \in 1..n \/ \E j \in 1..m : i = n + j
  <2>1. results \in Seq(ResultType) /\ n = Len(results)
    BY MiniTypes DEF n
  <2>2. /\ results' \in Seq(ResultType) /\ Len(results') = n + m
        /\ \A i \in 1..n : results'[i] = results[i]
        /\ \A i \in 1..m : results'[n + i] = StageResults[i]
    <3>1. results' = results \o StageResults /\ StageResults \in Seq(ResultType)
          /\ Len(StageResults) = m
      BY <1>1, <1>4
    <3>2. results' \in Seq(ResultType) /\ Len(results') = n + m
      <4>1. results \o StageResults \in Seq(ResultType)
        BY <2>1, <3>1
      <4>2. Len(results \o StageResults) = Len(results) + Len(StageResults)
        BY <2>1, <3>1, ConcatProperties
      <4> QED BY <2>1, <3>1, <4>1, <4>2
    <3>3. \A i \in 1..n : results'[i] = results[i]
      BY <1>2, <2>1, <3>1
    <3>4. \A i \in 1..m : results'[n + i] = StageResults[i]
      BY <1>2, <2>1, <3>1
    <3> QED BY <3>2, <3>3, <3>4
  <2>3. \A i \in 1..(n + m) : i \in 1..n \/ \E j \in 1..m : i = n + j
    <3> TAKE i \in 1..(n + m)
    <3>1. CASE i <= n
      BY <1>2, <3>1
    <3>2. CASE ~(i <= n)
      <4>1. i - n \in 1..m /\ i = n + (i - n)
        BY <1>2, <3>2
      <4> QED BY <4>1
    <3> QED BY <3>1, <3>2
  <2>4. /\ \A i \in 1..n : i \in 1..(n + m)
        /\ \A i \in 1..m : n + i \in 1..(n + m)
    BY <1>2
  <2>5. DOMAIN results' = 1..(n + m)
    BY <2>2
  <2> QED BY <1>4, <2>2, <2>3, <2>4, <2>5
<1>6. /\ \A i \in 1..n : results[i].name = PlanOrder(i)
                         /\ (results[i].reused <=> results[i].name \in DOMAIN precomputed)
      /\ \A i \in 1..m : requested[i] = PlanOrder(n + i)
      /\ results = <<>> => m = 1
      /\ ranked = 0 => n + m <= 1
      /\ Calls + m <= CallBudget
  BY <1>1, <1>2 DEF OrderInv, n, m
<1>7. Calls' <= Calls + m /\ Calls' \in Int /\ Calls \in Int
  <2> DEFINE I == {i \in 1..n : ~results[i].reused}
             J == (n + 1)..(n + m)
             K == {i \in 1..(n + m) : ~results'[i].reused}
  <2>1. Calls = Cardinality(I) /\ Calls' = Cardinality(K)
    BY <1>2, <1>5 DEF Calls
  <2>2. IsFiniteSet(I)
    BY <1>2, CallNumbers
  <2>3. IsFiniteSet(J) /\ Cardinality(J) = m
    <3>1. Cardinality(J) = IF n + 1 > n + m THEN 0 ELSE n + m - (n + 1) + 1
      BY <1>2, FS_Interval
    <3>2. IsFiniteSet(J)
      BY <1>2, FS_Interval
    <3>3. m = IF n + 1 > n + m THEN 0 ELSE n + m - (n + 1) + 1
      BY <1>2
    <3> QED BY <3>1, <3>2, <3>3
  <2>4. K \in SUBSET (I \cup J)
    <3> SUFFICES ASSUME NEW i \in K PROVE i \in I \cup J
      OBVIOUS
    <3>1. CASE i \in 1..n
      BY <1>5, <3>1
    <3>2. CASE \E j \in 1..m : i = n + j
      BY <1>2, <3>2
    <3>3. i \in 1..(n + m)
      OBVIOUS
    <3> QED BY <1>5, <3>1, <3>2, <3>3
  <2> HIDE DEF I, J, K
  <2>5. /\ IsFiniteSet(I \cup J)
        /\ Cardinality(I \cup J) = Cardinality(I) + Cardinality(J) - Cardinality(I \cap J)
    BY <2>2, <2>3, FS_Union
  <2>6. IsFiniteSet(I \cap J) /\ IsFiniteSet(K) /\ Cardinality(K) <= Cardinality(I \cup J)
    <3>1. I \cap J \in SUBSET I
      OBVIOUS
    <3> QED BY <2>2, <2>4, <2>5, <3>1, FS_Subset
  <2>7. /\ Cardinality(I) \in Nat /\ Cardinality(I \cap J) \in Nat /\ Cardinality(K) \in Nat
        /\ Cardinality(I \cup J) \in Nat
    BY <2>2, <2>5, <2>6, FS_CardinalityType
  <2> QED BY <1>2, <2>1, <2>3, <2>5, <2>6, <2>7
<1>8. OrderInv'
  <2>1. /\ ranked' = ranked /\ precomputed' = precomputed /\ budget' = budget
        /\ baseline' = baseline
    BY <1>1 DEF plan
  <2>2. \A i \in 1..(n + m) : /\ results'[i].name = PlanOrder(i)
                              /\ results'[i].reused <=> results'[i].name \in DOMAIN precomputed
    <3> TAKE i \in 1..(n + m)
    <3>1. CASE i \in 1..n
      BY <1>5, <1>6, <3>1
    <3>2. CASE \E j \in 1..m : i = n + j
      <4> PICK j \in 1..m : i = n + j
        BY <3>2
      <4> QED BY <1>3, <1>5, <1>6
    <3> QED BY <1>5, <3>1, <3>2
  <2>3. CallBudget' = CallBudget /\ \A i \in 1..(n + m) : PlanOrder(i)' = PlanOrder(i)
    BY <2>1 DEF CallBudget, PlanOrder
  <2>4. CallBudget \in Int /\ Calls' <= CallBudget'
    <3>1. CallBudget \in Int
      BY CallNumbers
    <3> QED BY <1>2, <1>6, <1>7, <2>3, <3>1
  <2>5. phase' = "assess" => Len(results') = 1
    <3>1. results = <<>> => n = 0
      BY DEF n
    <3> QED BY <1>1, <1>5, <1>6, <3>1
  <2>6. (ranked' = 0 => Len(results') <= 1) /\ phase' # "plan" /\ phase' # "running"
    BY <1>1, <1>5, <1>6, <2>1
  <2> QED BY <1>5, <2>1, <2>2, <2>3, <2>4, <2>5, <2>6 DEF OrderInv
<1>9. StageInv /\ OutsideInv /\ TimelyAnswerKept
  BY <1>1 DEF PoolInv
<1>10. /\ job' = job /\ late' = late /\ batch' = batch
  BY <1>1 DEF pool
<1>11. TimelyAnswerKept'
  <2>1. \A i \in 1..(n + m) : results'[i].outcome = "timeout" => results'[i].name \in late
    <3> SUFFICES ASSUME NEW i \in 1..(n + m), results'[i].outcome = "timeout"
                 PROVE  results'[i].name \in late
      OBVIOUS
    <3>1. CASE i \in 1..n
      BY <1>2, <1>5, <1>9, <3>1 DEF TimelyAnswerKept
    <3>2. CASE \E j \in 1..m : i = n + j
      <4> PICK j \in 1..m : i = n + j
        BY <3>2
      <4>1. results'[i] = Result(requested[j])
        BY <1>5
      <4>2. PICK k \in 1..Len(batch) : batch[k] = requested[j] /\ runs[k] = "timeout"
        BY <1>3, <4>1
      <4>3. k \in 1..Len(runs)
        BY <1>1
      <4> QED BY <1>3, <1>9, <4>1, <4>2, <4>3 DEF StageInv
    <3> QED BY <1>5, <3>1, <3>2
  <2> QED BY <1>5, <1>10, <2>1 DEF TimelyAnswerKept
<1>12. OutsideInv'
  <2> SUFFICES ASSUME NEW e \in Experts
               PROVE  /\ job[e] # "queued"
                      /\ job[e] = "running" => \E i \in 1..(n + m) :
                           results'[i].name = e /\ results'[i].outcome = "timeout"
                      /\ job[e] # "idle" => \E i \in 1..(n + m) :
                           results'[i].name = e /\ ~results'[i].reused
    BY <1>1, <1>5, <1>10 DEF OutsideInv
  <2>1. CASE InBatch(e)
    <3>1. PICK k \in 1..Len(batch) : batch[k] = e
      BY <2>1, MiniTypes DEF InBatch
    <3>2. PICK j \in 1..m : requested[j] = e
      BY <1>1, <3>1, StageNames DEF m
    <3>3. e \notin DOMAIN precomputed
      BY <1>1, <3>1, StageNames
    <3>4. /\ n + j \in 1..(n + m) /\ results'[n + j].name = e /\ ~results'[n + j].reused
          /\ results'[n + j].outcome = runs[k]
      BY <1>3, <1>5, <3>1, <3>2, <3>3
    <3>5. job[e] # "queued" /\ (job[e] = "running" => runs[k] = "timeout")
      BY <1>1, <1>9, <3>1 DEF StageInv
    <3> QED BY <3>4, <3>5
  <2>2. CASE ~InBatch(e)
    <3>1. /\ job[e] # "queued"
          /\ job[e] = "running" => \E i \in 1..n : results[i].name = e /\ results[i].outcome = "timeout"
          /\ job[e] # "idle" => \E i \in 1..n : results[i].name = e /\ ~results[i].reused
      BY <1>2, <1>9, <2>2 DEF OutsideInv
    <3> QED BY <1>5, <3>1
  <2> QED BY <2>1, <2>2
<1>13. phase' # "running"
  BY <1>1
<1> QED BY <1>5, <1>8, <1>10, <1>11, <1>12, <1>13 DEF PoolInv, OneCall, n
-----------------------------------------------------------------------------
(***************************************************************************)
(* All steps: the results and the pools.                                   *)
(***************************************************************************)
\* A step of the conductor between stages touches neither results nor calls.
LEMMA QuietStep ==
  ASSUME TypeOK, OrderInv, PoolInv, phase # "running", UNCHANGED <<plan, results, pool>>,
         phase' \in {"gather", "combine", "verify", "done"}
  PROVE  PoolType' /\ OrderInv' /\ PoolInv' /\ OneCall
<1>1. /\ ranked' = ranked /\ precomputed' = precomputed /\ budget' = budget
      /\ baseline' = baseline /\ results' = results /\ requested' = requested
      /\ batch' = batch /\ runs' = runs /\ parallel' = parallel /\ expired' = expired
      /\ job' = job /\ late' = late
  BY DEF plan, pool
<1>2. PoolType'
  BY <1>1 DEF TypeOK, PoolType
<1>3. OrderInv'
  BY <1>1 DEF OrderInv, PlanOrder, Calls, CallBudget
<1>4. PoolInv'
  <2>1. OutsideInv' /\ TimelyAnswerKept'
    BY <1>1 DEF PoolInv, OutsideInv, InBatch, TimelyAnswerKept
  <2> QED BY <2>1 DEF PoolInv
<1> QED BY <1>1, <1>2, <1>3, <1>4 DEF OneCall

\* The first stage requests the first expert of the plan.
LEMMA PrimaryStep ==
  ASSUME TypeOK, OrderInv, PoolInv, RunPrimary
  PROVE  PoolType' /\ OrderInv' /\ PoolInv' /\ OneCall /\ phase' = "running"
<1>1. PICK e \in Primary : Request(<<e>>)
  BY DEF RunPrimary
<1>2. phase = "plan" /\ UNCHANGED <<plan, results, late>> /\ results = <<>>
  BY DEF RunPrimary, OrderInv
<1>3. e = PlanOrder(1) /\ e \in Experts
  <2>1. ranked \in 0..MaxRanked /\ MaxRanked \in Nat
    BY MiniAssumption DEF TypeOK
  <2> QED BY <2>1 DEF Primary, PlanOrder, Experts, Fallback
<1> DEFINE names == <<e>>
<1>4. names \in Seq(Experts) /\ Len(names) = 1 /\ Len(results) = 0
      /\ \A i \in 1..Len(names) : names[i] = PlanOrder(Len(results) + i)
  <2>1. names \in Seq(Experts) /\ Len(names) = 1 /\ Len(results) = 0 /\ names[1] = e
    BY <1>2, <1>3
  <2>2. \A i \in 1..1 : i = 1 /\ 0 + i = 1
    OBVIOUS
  <2> HIDE DEF names
  <2> QED BY <1>3, <2>1, <2>2
<1>5. Calls + 1 <= CallBudget
  BY <1>4, CallNumbers
<1>6. Request(names)
  BY <1>1
<1> HIDE DEF names
<1>7. phase # "running" /\ (ranked = 0 => Len(results) + Len(names) <= 1)
      /\ Calls + Len(names) <= CallBudget
  BY <1>2, <1>4, <1>5
<1> QED BY <1>2, <1>4, <1>6, <1>7, RequestStage

\* The second stage requests the experts after the primary, as many as may be called.
LEMMA EscalateStep ==
  ASSUME TypeOK, OrderInv, PoolInv, Escalate
  PROVE  /\ PoolType' /\ OrderInv' /\ PoolInv' /\ OneCall
         /\ phase' \in {"running", "gather"}
<1>1. phase = "assess" /\ UNCHANGED <<plan, results, late>> /\ Len(results) = 1
  BY DEF Escalate, OrderInv
<1>2. /\ Extra \in Int /\ Calls + Extra <= CallBudget
      /\ ranked > 0 => Extra + 1 <= ranked
      /\ ranked = 0 => Extra <= 0
      /\ ranked \in Nat /\ ranked <= MaxRanked /\ MaxRanked \in Nat
  <2>1. ranked \in 0..MaxRanked /\ MaxRanked \in Nat
    BY MiniAssumption DEF TypeOK
  <2> QED BY <2>1, ExtraBound
<1>3. CASE Extra > 0
  <2> DEFINE names == [i \in 1..Extra |-> i + 1]
  <2>1. Request(names)
    BY <1>3 DEF Escalate
  <2>2. ranked > 0 /\ ranked # 0
    BY <1>2, <1>3
  <2>3. \A i \in 1..Extra : i + 1 \in Experts
    BY <1>2, <2>2 DEF Experts
  <2>4. names \in Seq(Experts) /\ Len(names) = Extra
    <3>1. Extra \in Nat
      BY <1>2, <1>3
    <3> QED BY <2>3, <3>1
  <2>5. \A i \in 1..Len(names) : names[i] = PlanOrder(Len(results) + i)
    <3>1. \A i \in 1..Extra : names[i] = 1 + i
      BY <1>2
    <3> QED BY <1>1, <2>2, <2>4, <3>1 DEF PlanOrder
  <2>6. /\ phase # "running" /\ results # <<>>
        /\ Calls + Len(names) <= CallBudget
    <3>1. Len(names) = Extra
      BY <2>4
    <3>2. Len(results) = 1 => results # <<>>
      OBVIOUS
    <3> QED BY <1>1, <1>2, <3>1, <3>2
  <2> HIDE DEF names
  <2> QED BY <1>1, <2>1, <2>2, <2>4, <2>5, <2>6, RequestStage
<1>4. CASE ~(Extra > 0)
  <2>1. phase' = "gather" /\ UNCHANGED <<plan, results, pool>>
    BY <1>4 DEF Escalate, pool
  <2> QED BY <1>1, <2>1, QuietStep
<1> QED BY <1>3, <1>4

\* Every step keeps the plan, the results obtained, their order and the account of
\* the calls, and calls no expert twice.
LEMMA NextPool ==
  ASSUME TypeOK, OrderInv, PoolInv, [Next]_vars
  PROVE  /\ PoolType' /\ OrderInv' /\ PoolInv' /\ OneCall
         /\ results' \in Seq(ResultType) /\ UNCHANGED plan
         /\ \A i \in 1..Len(results) : i \in 1..Len(results') /\ results'[i] = results[i]
<1>1. results \in Seq(ResultType) /\ \A i \in 1..Len(results) : i \in 1..Len(results)
  BY MiniTypes
<1>2. CASE RunPrimary
  BY <1>1, <1>2, PrimaryStep DEF RunPrimary
<1>3. CASE Escalate
  BY <1>1, <1>3, EscalateStep DEF Escalate
<1>4. CASE TakeResult
  BY <1>1, <1>4, TakeStep DEF TakeResult, Record
<1>5. CASE TimeOut
  BY <1>1, <1>5, TimeOutStep DEF TimeOut, Record
<1>6. CASE Collect
  <2>1. UNCHANGED <<plan, pool>>
    BY <1>6 DEF Collect
  <2>2. PoolType'
    BY <2>1 DEF TypeOK, PoolType, pool
  <2> QED BY <1>6, <2>1, <2>2, CollectStep
<1>7. CASE DeadlinePasses
  BY <1>1, <1>7, DeadlineStep DEF DeadlinePasses
<1>8. ASSUME NEW e \in Experts, Start(e)
      PROVE  /\ PoolType' /\ OrderInv' /\ PoolInv' /\ OneCall /\ UNCHANGED <<plan, results>>
  BY <1>8, StartStep DEF Start
<1>9. ASSUME NEW e \in Experts, Finish(e)
      PROVE  /\ PoolType' /\ OrderInv' /\ PoolInv' /\ OneCall /\ UNCHANGED <<plan, results>>
  BY <1>9, FinishStep DEF Finish
<1>10. CASE \/ NothingToRun \/ StopEarly \/ Gather \/ LastResort \/ NoPath \/ Combine
            \/ CombinerFails \/ Accept \/ RejectAndRecover \/ Reject
  <2>1. /\ phase # "running" /\ UNCHANGED <<plan, results, pool>>
        /\ phase' \in {"gather", "combine", "verify", "done"}
    BY <1>10 DEF NothingToRun, StopEarly, Gather, LastResort, NoPath, Combine, CombinerFails,
                 Accept, RejectAndRecover, Reject, Unavailable
  <2> QED BY <1>1, <2>1, QuietStep
<1>11. CASE UNCHANGED vars
  <2>1. UNCHANGED <<plan, phase, results, pool>>
    BY <1>11 DEF vars
  <2>2. PoolType' /\ OneCall
    BY <2>1 DEF TypeOK, PoolType, pool, OneCall
  <2>3. OrderInv'
    BY <2>1 DEF OrderInv, PlanOrder, Calls, CallBudget, ToCall, plan, pool
  <2>4. /\ ranked' = ranked /\ results' = results /\ job' = job /\ batch' = batch
        /\ runs' = runs /\ late' = late /\ expired' = expired /\ parallel' = parallel
        /\ phase' = phase
    BY <2>1 DEF plan, pool
  <2>5. PoolInv'
    BY <2>4 DEF PoolInv, StageInv, OutsideInv, InBatch, TimelyAnswerKept, Awaited, PoolOf, Finished
  <2> QED BY <1>1, <2>1, <2>2, <2>3, <2>5
<1> QED BY <1>1, <1>2, <1>3, <1>4, <1>5, <1>6, <1>7, <1>8, <1>9, <1>10, <1>11 DEF Next, Conductor
-----------------------------------------------------------------------------
(***************************************************************************)
(* The forecasts combined, and the fallback.                               *)
(***************************************************************************)
\* The successful forecasts are those of the results that are; without numerical
\* experts there is at most one.
LEMMA SuccessfulResults ==
  ASSUME TypeOK, OrderInv
  PROVE  /\ Successful \in Seq(Experts)
         /\ \A k \in DOMAIN Successful : \E i \in DOMAIN results :
              results[i].outcome = "ok" /\ results[i].name = Successful[k]
         /\ (\E k \in DOMAIN Successful : Successful[k] = Fallback) => Len(Successful) = 1
<1> DEFINE names == [i \in 1..Len(results) |-> results[i].name]
           I == {i \in 1..Len(results) : results[i].outcome = "ok"}
           sel == Selected(names, I)
<1>1. Len(results) \in Nat /\ DOMAIN results = 1..Len(results)
      /\ results \in Seq(ResultType)
  BY MiniTypes
<1>2. Successful = sel
  BY <1>1 DEF Successful, Succeeded
<1>3. \A i \in 1..Len(results) : results[i].name \in Experts
  <2>1. \A i \in 1..Len(results) : results[i] \in ResultType
    BY <1>1
  <2> QED BY <2>1 DEF ResultType
<1>4. names \in Seq(Experts) /\ Len(names) = Len(results)
      /\ \A i \in 1..Len(results) : names[i] = results[i].name
  BY <1>1, <1>3
<1>5. I \in SUBSET (1..Len(results)) /\ \A i \in I : results[i].outcome = "ok"
  OBVIOUS
<1>6. /\ sel \in Seq(Experts) /\ Len(sel) = Cardinality(I) /\ DOMAIN sel = 1..Cardinality(I)
      /\ Cardinality(I) \in 0..Len(results)
      /\ \A k \in 1..Cardinality(I) : Nth(I, k) \in I /\ sel[k] = names[Nth(I, k)]
  <2>1. sel = Selected(names, I)
    OBVIOUS
  <2> HIDE DEF names, I, sel
  <2> QED BY <1>4, <1>5, <2>1, SelectedElements
<1> HIDE DEF names, I, sel
<1>7. \A k \in 1..Cardinality(I) : \E i \in 1..Len(results) :
         results[i].outcome = "ok" /\ results[i].name = sel[k]
  <2> TAKE k \in 1..Cardinality(I)
  <2>1. Nth(I, k) \in I /\ sel[k] = names[Nth(I, k)]
    BY <1>6
  <2> QED BY <1>4, <1>5, <2>1
<1>8. ASSUME NEW k \in 1..Cardinality(I), sel[k] = Fallback PROVE Cardinality(I) = 1
  <2>1. PICK i \in 1..Len(results) : results[i].name = Fallback
    BY <1>7, <1>8
  <2>2. PlanOrder(i) = Fallback
    BY <1>1, <2>1 DEF OrderInv
  <2>3. ranked = 0
    <3>1. ranked \in Nat
      BY MiniTypes
    <3> QED BY <2>2, <3>1 DEF PlanOrder, Fallback
  <2>4. Len(results) <= 1
    BY <2>3 DEF OrderInv
  <2> QED BY <1>1, <1>6, <2>4
<1> QED BY <1>1, <1>2, <1>6, <1>7, <1>8

\* What the combiner releases was handed to it; the baseline comes alone.
LEMMA CombinedForecasts ==
  ASSUME TypeOK, Alone, used # <<>>
  PROVE  /\ Combined \in Seq(Experts) /\ Combined # <<>>
         /\ \A k \in DOMAIN Combined : \E i \in DOMAIN used : used[i] = Combined[k]
         /\ fallbackUsed <=> \E k \in DOMAIN Combined : Combined[k] = Fallback
         /\ fallbackUsed => Len(Combined) = 1
<1>1. used \in Seq(Experts) /\ Len(used) \in Nat /\ DOMAIN used = 1..Len(used)
  BY MiniTypes
<1>2. CASE Len(used) > 1
  <2> DEFINE I == {i \in 1..Len(used) : used[i] # Fallback}
             sel == Selected(used, I)
  <2>1. Combined = sel
    BY <1>1, <1>2 DEF Combined
  <2>2. ~fallbackUsed
    BY <1>1, <1>2 DEF Alone
  <2>3. \A i \in 1..Len(used) : used[i] # Fallback
    BY <1>1, <2>2 DEF Alone
  <2>4. I \in SUBSET (1..Len(used)) /\ I # {}
    BY <1>1, <1>2, <2>3
  <2>5. /\ sel \in Seq(Experts) /\ DOMAIN sel = 1..Cardinality(I)
        /\ \A k \in 1..Cardinality(I) : Nth(I, k) \in I /\ sel[k] = used[Nth(I, k)]
        /\ sel = <<>> <=> I = {}
    <3>1. sel = Selected(used, I)
      OBVIOUS
    <3> HIDE DEF I, sel
    <3> QED BY <1>1, <2>4, <3>1, SelectedElements
  <2> HIDE DEF I, sel
  <2>6. \A k \in 1..Cardinality(I) : \E i \in 1..Len(used) : used[i] = sel[k]
    BY <2>4, <2>5
  <2> QED BY <1>1, <2>1, <2>2, <2>3, <2>4, <2>5, <2>6
<1>3. CASE ~(Len(used) > 1)
  <2>1. Combined = used
    BY <1>3 DEF Combined
  <2> QED BY <1>1, <2>1 DEF Alone
<1> QED BY <1>2, <1>3

\* The types of what the conductor thread keeps of the outcome.
OutcomeType ==
  /\ phase \in {"plan", "running", "assess", "gather", "combine", "verify", "done"}
  /\ fallbackCalls \in Nat /\ used \in Seq(Experts) /\ fallbackUsed \in BOOLEAN
  /\ status \in {"", "available", "unavailable", "combiner_failed"}

\* The fallback's part of the invariant, phase by phase.
LEMMA FallbackPhases ==
  ASSUME fallbackCalls' <= 1, FallbackRight', phase' = "done" <=> status' # "",
         phase' \in {"plan", "running", "assess", "gather"} => Untouched',
         phase' \in {"combine", "verify"} => Pending'
  PROVE  FallbackInv'
BY DEF FallbackInv

\* A step of the cascade or the pools leaves the outcome alone.
LEMMA CascadeOutcome ==
  ASSUME TypeOK, FallbackInv, UNCHANGED outcome,
         \/ /\ phase \in {"plan", "running", "assess"}
            /\ phase' \in {"running", "assess", "gather"}
         \/ phase' = phase /\ UNCHANGED <<baseline, results>>
  PROVE  OutcomeType' /\ FallbackInv'
<1>1. /\ fallbackCalls' = fallbackCalls /\ used' = used /\ fallbackUsed' = fallbackUsed
      /\ status' = status
  BY DEF outcome
<1>2. OutcomeType'
  BY <1>1 DEF OutcomeType, TypeOK
<1>3. (Untouched' <=> Untouched) /\ fallbackCalls' <= 1
  BY <1>1 DEF Untouched, FallbackInv
<1>4. CASE phase \in {"plan", "running", "assess"} /\ phase' \in {"running", "assess", "gather"}
  <2>1. Untouched /\ status' = ""
    BY <1>1, <1>4 DEF FallbackInv
  <2>2. FallbackRight'
    BY <2>1 DEF FallbackRight, BaselineAlone, FallbackBeforeGivingUp
  <2>3. phase' \notin {"combine", "verify"} /\ phase' # "done"
    BY <1>4
  <2> QED BY <1>2, <1>3, <2>1, <2>2, <2>3, FallbackPhases
<1>5. CASE phase' = phase /\ UNCHANGED <<baseline, results>>
  <2>1. /\ Pending' <=> Pending
        /\ FallbackRight' <=> FallbackRight
    BY <1>1, <1>5 DEF Pending, Alone, Obtained, Tried, FallbackRight, BaselineAlone,
                      FallbackBeforeGivingUp
  <2>2. /\ phase \in {"plan", "running", "assess", "gather"} => Untouched
        /\ phase \in {"combine", "verify"} => Pending
        /\ phase = "done" <=> status # ""
        /\ FallbackRight
    BY DEF FallbackInv
  <2> QED BY <1>1, <1>2, <1>3, <1>5, <2>1, <2>2, FallbackPhases
<1> QED BY <1>4, <1>5

\* With a forecast to combine and no result yet there is nothing to answer for.
LEMMA CombinePhase ==
  ASSUME phase' \in {"combine", "verify"}, status' = "", Pending', fallbackCalls' <= 1
  PROVE  FallbackInv'
<1>1. FallbackRight'
  BY DEF FallbackRight, BaselineAlone, FallbackBeforeGivingUp
<1>2. phase' \notin {"plan", "running", "assess", "gather"} /\ phase' # "done"
  OBVIOUS
<1> QED BY <1>1, <1>2, FallbackPhases

\* A run that ends answers for its fallback.
LEMMA DonePhase ==
  ASSUME phase' = "done", status' # "", fallbackCalls' <= 1, FallbackRight'
  PROVE  FallbackInv'
<1>1. phase' \notin {"plan", "running", "assess", "gather", "combine", "verify"}
  OBVIOUS
<1> QED BY <1>1, FallbackPhases

\* The successful forecasts are combined.
LEMMA GatherOutcome ==
  ASSUME TypeOK, OrderInv, FallbackInv, Gather
  PROVE  OutcomeType' /\ FallbackInv'
<1>1. /\ phase = "gather" /\ Successful # <<>> /\ used' = Successful /\ phase' = "combine"
      /\ fallbackUsed' = BaselineIncluded /\ results' = results
      /\ fallbackCalls' = fallbackCalls /\ status' = status
  BY DEF Gather
<1>2. Untouched /\ status = ""
  BY <1>1 DEF FallbackInv
<1>3. BaselineIncluded \in BOOLEAN
      /\ (BaselineIncluded <=> \E k \in DOMAIN Successful : Successful[k] = Fallback)
  BY DEF BaselineIncluded
<1>4. Alone'
  BY <1>1, <1>3, SuccessfulResults DEF Alone
<1>5. \A k \in DOMAIN Successful : Successful[k] \in Obtained'
  BY <1>1, SuccessfulResults DEF Obtained
<1>6. BaselineIncluded => Tried'
  BY <1>1, <1>3, SuccessfulResults DEF Tried
<1>7. fallbackCalls' = 0
  BY <1>1, <1>2 DEF Untouched
<1>8. Pending'
  BY <1>1, <1>4, <1>5, <1>6, <1>7 DEF Pending
<1>9. status' = "" /\ status' \in {"", "available", "unavailable", "combiner_failed"}
  BY <1>1, <1>2
<1>10. OutcomeType'
  <2>1. fallbackUsed' \in BOOLEAN
    BY <1>1, <1>3
  <2>2. used' \in Seq(Experts)
    BY <1>1, SuccessfulResults
  <2>3. fallbackCalls' \in Nat
    BY <1>7
  <2>4. phase' \in {"plan", "running", "assess", "gather", "combine", "verify", "done"}
    BY <1>1
  <2> QED BY <1>9, <2>1, <2>2, <2>3, <2>4 DEF OutcomeType
<1>11. fallbackCalls' <= 1
  BY <1>7
<1> QED BY <1>1, <1>8, <1>9, <1>10, <1>11, CombinePhase

\* The baseline's forecast alone is a sequence of one.
LEMMA BaselineForecast ==
  /\ <<Fallback>> \in Seq(Experts) /\ <<Fallback>> # <<>> /\ Len(<<Fallback>>) = 1
  /\ \A i \in DOMAIN <<Fallback>> : <<Fallback>>[i] = Fallback
  /\ \E i \in DOMAIN <<Fallback>> : <<Fallback>>[i] = Fallback
<1>1. Fallback \in Experts
  BY MiniAssumption DEF Fallback, Experts
<1>2. DOMAIN <<Fallback>> = 1..1 /\ <<Fallback>>[1] = Fallback
  OBVIOUS
<1> QED BY <1>1, <1>2

\* The last resort is called in vain or is all that is combined.
LEMMA LastResortOutcome ==
  ASSUME TypeOK, OrderInv, FallbackInv, LastResort
  PROVE  OutcomeType' /\ FallbackInv'
<1>1. /\ phase = "gather" /\ fallbackCalls' = fallbackCalls + 1
      /\ \/ /\ used' = <<Fallback>> /\ fallbackUsed' = TRUE /\ phase' = "combine"
            /\ status' = status
         \/ /\ status' = "unavailable" /\ phase' = "done"
            /\ used' = used /\ fallbackUsed' = fallbackUsed
  BY DEF LastResort, CallFallback, Unavailable
<1>2. Untouched /\ status = ""
  BY <1>1 DEF FallbackInv
<1>3. fallbackCalls' = 1
  <2>1. fallbackCalls = 0
    BY <1>2 DEF Untouched
  <2> QED BY <1>1, <2>1
<1>4. fallbackCalls' <= 1 /\ fallbackCalls' \in Nat /\ fallbackCalls' > 0
  BY <1>3
<1>5. CASE used' = <<Fallback>> /\ fallbackUsed' = TRUE /\ phase' = "combine" /\ status' = status
  <2>1. Alone' /\ Tried'
    BY <1>4, <1>5, BaselineForecast DEF Alone, Tried
  <2>2. Fallback \in Obtained'
    BY <1>5 DEF Obtained
  <2>3. Pending'
    BY <1>5, <2>1, <2>2, BaselineForecast DEF Pending
  <2>4. status' = "" /\ phase' \in {"combine", "verify"}
    BY <1>2, <1>5
  <2>5. OutcomeType'
    BY <1>4, <1>5, <2>4, BaselineForecast DEF OutcomeType
  <2> QED BY <1>4, <2>3, <2>4, <2>5, CombinePhase
<1>6. CASE /\ status' = "unavailable" /\ phase' = "done"
           /\ used' = used /\ fallbackUsed' = fallbackUsed
  <2>1. FallbackRight'
    BY <1>4, <1>6 DEF FallbackRight, BaselineAlone, FallbackBeforeGivingUp
  <2>2. OutcomeType'
    BY <1>4, <1>6 DEF OutcomeType, TypeOK
  <2>3. status' # ""
    BY <1>6
  <2> QED BY <1>4, <1>6, <2>1, <2>2, <2>3, DonePhase
<1> QED BY <1>1, <1>5, <1>6

\* A run that ends without a call of the fallback.
LEMMA EndOutcome ==
  ASSUME TypeOK, OrderInv, FallbackInv, NoPath \/ CombinerFails \/ Accept \/ Reject
  PROVE  OutcomeType' /\ FallbackInv'
<1>1. /\ fallbackCalls' = fallbackCalls /\ fallbackUsed' = fallbackUsed /\ phase' = "done"
      /\ results' = results /\ baseline' = baseline
  BY DEF NoPath, CombinerFails, Accept, Reject, Unavailable, plan
<1>2. fallbackCalls' <= 1
  BY <1>1 DEF FallbackInv
<1>3. CASE NoPath
  <2>1. baseline' = "absent" /\ status' = "unavailable" /\ used' = used
    BY <1>1, <1>3 DEF NoPath, Unavailable
  <2>2. FallbackRight' /\ status' # ""
    BY <2>1 DEF FallbackRight, BaselineAlone, FallbackBeforeGivingUp
  <2>3. OutcomeType'
    BY <1>1, <2>1 DEF OutcomeType, TypeOK
  <2> QED BY <1>1, <1>2, <2>2, <2>3, DonePhase
<1>4. CASE CombinerFails
  <2>1. status' = "combiner_failed" /\ used' = used
    BY <1>4 DEF CombinerFails
  <2>2. FallbackRight' /\ status' # ""
    BY <2>1 DEF FallbackRight, BaselineAlone, FallbackBeforeGivingUp
  <2>3. OutcomeType'
    BY <1>1, <2>1 DEF OutcomeType, TypeOK
  <2> QED BY <1>1, <1>2, <2>2, <2>3, DonePhase
<1>5. CASE Accept
  <2>1. phase = "verify" /\ used' = Combined /\ status' = "available"
    BY <1>5 DEF Accept
  <2>2. Alone /\ used # <<>>
    BY <2>1 DEF FallbackInv, Pending
  <2>3. FallbackRight' /\ status' # ""
    BY <1>1, <2>1, <2>2, CombinedForecasts
       DEF FallbackRight, BaselineAlone, FallbackBeforeGivingUp
  <2>4. Combined \in Seq(Experts)
    BY <2>2, CombinedForecasts
  <2>5. OutcomeType'
    BY <1>1, <2>1, <2>4 DEF OutcomeType, TypeOK
  <2> QED BY <1>1, <1>2, <2>3, <2>5, DonePhase
<1>6. CASE Reject
  <2>1. /\ phase = "verify" /\ (fallbackUsed \/ baseline = "absent")
        /\ status' = "unavailable" /\ used' = used
    BY <1>6 DEF Reject, CanRecover, Unavailable
  <2>2. fallbackUsed => Tried
    BY <2>1 DEF FallbackInv, Pending
  <2>3. FallbackRight' /\ status' # ""
    BY <1>1, <2>1, <2>2 DEF FallbackRight, BaselineAlone, FallbackBeforeGivingUp, Tried
  <2>4. OutcomeType'
    BY <1>1, <2>1 DEF OutcomeType, TypeOK
  <2> QED BY <1>1, <1>2, <2>3, <2>4, DonePhase
<1> QED BY <1>3, <1>4, <1>5, <1>6

\* A rejected forecast is replaced by the baseline's, or the run gives up.
LEMMA RecoverOutcome ==
  ASSUME TypeOK, OrderInv, FallbackInv, RejectAndRecover
  PROVE  OutcomeType' /\ FallbackInv'
<1>1. /\ phase = "verify" /\ ~fallbackUsed /\ fallbackCalls' = fallbackCalls + 1
      /\ phase' = "done"
      /\ \/ used' = <<Fallback>> /\ fallbackUsed' = TRUE /\ status' = "available"
         \/ status' = "unavailable" /\ used' = used /\ fallbackUsed' = fallbackUsed
  BY DEF RejectAndRecover, CanRecover, CallFallback, Unavailable
<1>2. fallbackCalls = 0
  BY <1>1 DEF FallbackInv, Pending
<1>3. fallbackCalls' = 1
  BY <1>1, <1>2
<1>4. fallbackCalls' <= 1 /\ fallbackCalls' \in Nat /\ fallbackCalls' > 0
  BY <1>3
<1>5. CASE used' = <<Fallback>> /\ fallbackUsed' = TRUE /\ status' = "available"
  <2>1. FallbackRight' /\ status' # ""
    BY <1>5, BaselineForecast DEF FallbackRight, BaselineAlone, FallbackBeforeGivingUp
  <2>2. OutcomeType'
    BY <1>1, <1>4, <1>5, BaselineForecast DEF OutcomeType
  <2> QED BY <1>1, <1>4, <2>1, <2>2, DonePhase
<1>6. CASE status' = "unavailable" /\ used' = used /\ fallbackUsed' = fallbackUsed
  <2>1. FallbackRight' /\ status' # ""
    BY <1>4, <1>6 DEF FallbackRight, BaselineAlone, FallbackBeforeGivingUp
  <2>2. OutcomeType'
    BY <1>1, <1>4, <1>6 DEF OutcomeType, TypeOK
  <2> QED BY <1>1, <1>4, <2>1, <2>2, DonePhase
<1> QED BY <1>1, <1>5, <1>6

\* Handing the forecasts on to the verifier changes none of them.
LEMMA CombineOutcome ==
  ASSUME TypeOK, OrderInv, FallbackInv, Combine
  PROVE  OutcomeType' /\ FallbackInv'
<1>1. /\ phase = "combine" /\ phase' = "verify" /\ results' = results
      /\ fallbackCalls' = fallbackCalls /\ used' = used /\ fallbackUsed' = fallbackUsed
      /\ status' = status
  BY DEF Combine, outcome
<1>2. Pending /\ status = "" /\ fallbackCalls <= 1
  BY <1>1 DEF FallbackInv
<1>3. Pending'
  BY <1>1, <1>2 DEF Pending, Alone, Obtained, Tried
<1>4. OutcomeType'
  BY <1>1 DEF OutcomeType, TypeOK
<1> QED BY <1>1, <1>2, <1>3, <1>4, CombinePhase
-----------------------------------------------------------------------------
(***************************************************************************)
(* The invariant, and what follows from it.                                *)
(***************************************************************************)
\* Every step keeps the outcome's types and the fallback's part of the invariant.
LEMMA NextFallback ==
  ASSUME TypeOK, OrderInv, FallbackInv, [Next]_vars
  PROVE  OutcomeType' /\ FallbackInv'
<1>1. CASE RunPrimary
  <2>1. phase = "plan" /\ phase' = "running" /\ UNCHANGED outcome
    BY <1>1 DEF RunPrimary, Request
  <2> QED BY <2>1, CascadeOutcome
<1>2. CASE Escalate
  <2>1. phase = "assess" /\ phase' \in {"running", "gather"} /\ UNCHANGED outcome
    BY <1>2 DEF Escalate, Request
  <2> QED BY <2>1, CascadeOutcome
<1>3. CASE NothingToRun \/ StopEarly
  <2>1. phase \in {"plan", "assess"} /\ phase' = "gather" /\ UNCHANGED outcome
    BY <1>3 DEF NothingToRun, StopEarly
  <2> QED BY <2>1, CascadeOutcome
<1>4. CASE Collect
  <2>1. phase = "running" /\ phase' \in {"assess", "gather"} /\ UNCHANGED outcome
    BY <1>4 DEF Collect
  <2> QED BY <2>1, CascadeOutcome
<1>5. CASE TakeResult \/ TimeOut \/ DeadlinePasses \/ \E e \in Experts : Start(e) \/ Finish(e)
  <2>1. UNCHANGED <<plan, phase, results, outcome>>
    BY <1>5 DEF TakeResult, TimeOut, Record, DeadlinePasses, Start, Finish
  <2>2. phase' = phase /\ UNCHANGED <<baseline, results>> /\ UNCHANGED outcome
    BY <2>1 DEF plan
  <2> QED BY <2>2, CascadeOutcome
<1>6. CASE UNCHANGED vars
  <2>1. phase' = phase /\ UNCHANGED <<baseline, results>> /\ UNCHANGED outcome
    BY <1>6 DEF vars, plan
  <2> QED BY <2>1, CascadeOutcome
<1> QED BY <1>1, <1>2, <1>3, <1>4, <1>5, <1>6, GatherOutcome, LastResortOutcome, EndOutcome,
           RecoverOutcome, CombineOutcome DEF Next, Conductor

\* The invariant holds at the start.
LEMMA InitMini ==
  ASSUME Init
  PROVE  MiniInv
<1>1. /\ budget \in Budgets /\ ranked \in 0..MaxRanked
      /\ baseline \in {"absent", "excluded", "eligible"}
      /\ phase = "plan" /\ results = <<>>
      /\ requested = <<>> /\ batch = <<>> /\ runs = <<>>
      /\ parallel = FALSE /\ expired = FALSE /\ late = {}
      /\ job = [e \in Experts |-> "idle"]
      /\ fallbackCalls = 0 /\ used = <<>> /\ fallbackUsed = FALSE /\ status = ""
  BY DEF Init
<1>2. PICK known \in SUBSET (0..ranked) : precomputed \in [known -> Forecasts]
  BY DEF Init
<1>3. results = <<>> /\ requested = <<>> /\ batch = <<>> /\ runs = <<>> /\ used = <<>>
  BY <1>1
<1>4. job = [e \in Experts |-> "idle"] /\ late = {} /\ phase = "plan" /\ status = ""
  BY <1>1
<1>5. fallbackCalls = 0
  BY <1>1
<1>6. ~fallbackUsed /\ fallbackUsed \in BOOLEAN /\ parallel \in BOOLEAN /\ expired \in BOOLEAN
  BY <1>1
<1>7. DOMAIN precomputed \subseteq Experts
      /\ \A e \in DOMAIN precomputed : precomputed[e] \in Forecasts
  <2>1. 0..ranked \subseteq Experts
    <3>1. ranked \in 0..MaxRanked /\ MaxRanked \in Nat
      BY <1>1, MiniAssumption
    <3> QED BY <3>1 DEF Experts
  <2> QED BY <1>2, <2>1
<1>8. TypeOK
  <2>1. PoolType
    <3>1. requested \in Seq(Experts) /\ batch \in Seq(Experts) /\ runs \in Seq(Outcomes)
      BY <1>3
    <3>2. job \in [Experts -> {"idle", "queued", "running", "cancelled"} \cup Forecasts]
      BY <1>4
    <3> QED BY <1>4, <1>6, <3>1, <3>2 DEF PoolType
  <2>2. OutcomeType
    <3>1. used \in Seq(Experts)
      BY <1>3
    <3>2. fallbackCalls \in Nat
      BY <1>5
    <3> QED BY <1>4, <1>6, <3>1, <3>2 DEF OutcomeType
  <2>3. results \in Seq(ResultType)
    BY <1>3
  <2> QED BY <1>1, <1>7, <2>1, <2>2, <2>3 DEF TypeOK, PoolType, OutcomeType
<1>9. Len(results) = 0 /\ DOMAIN results = {}
  BY <1>3
<1>10. OrderInv
  <2>1. Calls <= CallBudget
    BY <1>8, <1>9, CallNumbers
  <2>2. Len(results) <= 1
    BY <1>9
  <2> QED BY <1>1, <1>9, <2>1, <2>2 DEF OrderInv
<1>11. PoolInv
  <2>1. \A e \in Experts : job[e] = "idle"
    BY <1>1
  <2> QED BY <1>1, <1>9, <2>1 DEF PoolInv, OutsideInv, TimelyAnswerKept
<1>12. FallbackInv
  <2>1. FallbackRight
    BY <1>1 DEF FallbackRight, BaselineAlone, FallbackBeforeGivingUp
  <2>2. Untouched
    BY <1>3, <1>5, <1>6 DEF Untouched
  <2>3. fallbackCalls <= 1
    BY <1>5
  <2> QED BY <1>4, <2>1, <2>2, <2>3 DEF FallbackInv
<1> QED BY <1>8, <1>10, <1>11, <1>12 DEF MiniInv

\* Every step keeps the invariant, and no expert is called twice.
LEMMA NextMini ==
  ASSUME MiniInv, [Next]_vars
  PROVE  MiniInv' /\ OneCall
<1>1. TypeOK /\ OrderInv /\ PoolInv /\ FallbackInv
  BY DEF MiniInv
<1>2. /\ PoolType' /\ OrderInv' /\ PoolInv' /\ OneCall
      /\ results' \in Seq(ResultType) /\ UNCHANGED plan
  BY <1>1, NextPool
<1>3. OutcomeType' /\ FallbackInv'
  BY <1>1, NextFallback
<1>4. /\ budget' = budget /\ ranked' = ranked /\ baseline' = baseline
      /\ precomputed' = precomputed
  BY <1>2 DEF plan
<1>5. TypeOK'
  BY <1>1, <1>2, <1>3, <1>4 DEF TypeOK, PoolType, OutcomeType
<1> QED BY <1>2, <1>3, <1>5 DEF MiniInv

\* The invariant holds throughout.
LEMMA MiniInvariant == Spec => []MiniInv
<1>1. Init => MiniInv
  BY InitMini
<1>2. MiniInv /\ [Next]_vars => MiniInv'
  BY NextMini
<1> QED BY <1>1, <1>2, PTL DEF Spec

\* The greater of two numbers.
LEMMA GreaterOfTwo ==
  ASSUME NEW a \in Int, NEW b \in Int
  PROVE  Max({a, b}) \in {a, b} /\ Max({a, b}) >= a /\ Max({a, b}) >= b
<1>1. \E m \in {a, b} : \A y \in {a, b} : m >= y
  OBVIOUS
<1>2. Max({a, b}) \in {a, b} /\ \A y \in {a, b} : Max({a, b}) >= y
  BY <1>1 DEF Max
<1> QED BY <1>2

\* The calls started are among those counted and those of the stage under way, which
\* the budget covers.
LEMMA StartedWithinBudget ==
  ASSUME TypeOK, OrderInv, PoolInv
  PROVE  StartedCalls \in Nat /\ StartedCalls <= CallBudget
<1> DEFINE S == {e \in Experts : job[e] \notin {"idle", "queued", "cancelled"}}
           n == Len(results)
           m == IF phase = "running" THEN Len(requested) ELSE 0
           I == {i \in 1..n : ~results[i].reused}
           J == (n + 1)..(n + m)
<1>1. StartedCalls = Cardinality(S)
  BY DEF StartedCalls
<1>2. /\ n \in Nat /\ m \in Nat /\ ranked \in Nat /\ DOMAIN results = 1..n
      /\ DOMAIN batch = 1..Len(batch) /\ DOMAIN requested = 1..Len(requested)
  BY MiniTypes
<1>3. Calls \in Nat /\ Calls = Cardinality(I) /\ IsFiniteSet(I)
      /\ CallBudget \in Nat /\ 1 <= CallBudget
  <2>1. Calls = Cardinality(I)
    BY <1>2 DEF Calls
  <2> QED BY <1>2, <2>1, CallNumbers
<1>4. Calls + m <= CallBudget
  <2>1. CASE phase = "running"
    BY <2>1 DEF OrderInv
  <2>2. CASE phase # "running"
    BY <1>3, <2>2 DEF OrderInv
  <2> QED BY <2>1, <2>2
<1>5. ASSUME NEW e \in S
      PROVE  \/ \E i \in I : e = PlanOrder(i)
             \/ \E j \in 1..m : e = PlanOrder(n + j)
  <2>1. e \in Experts /\ job[e] # "idle"
    OBVIOUS
  <2>2. CASE InBatch(e)
    <3>1. phase = "running" /\ m = Len(requested)
      BY <2>2 DEF InBatch
    <3>2. PICK k \in 1..Len(batch) : batch[k] = e
      BY <1>2, <2>2 DEF InBatch
    <3>3. PICK j \in 1..m : requested[j] = e
      BY <3>1, <3>2, StageNames
    <3> QED BY <1>2, <3>1, <3>3 DEF OrderInv
  <2>3. CASE ~InBatch(e)
    <3>1. PICK i \in 1..n : results[i].name = e /\ ~results[i].reused
      BY <1>2, <2>1, <2>3 DEF PoolInv, OutsideInv
    <3>2. results[i].name = PlanOrder(i)
      BY <1>2 DEF OrderInv
    <3> QED BY <3>1, <3>2
  <2> QED BY <2>2, <2>3
<1>6. CASE ranked > 0
  <2>1. S \in SUBSET (I \cup J)
    <3> SUFFICES ASSUME NEW e \in S PROVE e \in I \cup J
      OBVIOUS
    <3>1. CASE \E i \in I : e = PlanOrder(i)
      BY <1>6, <3>1 DEF PlanOrder
    <3>2. CASE \E j \in 1..m : e = PlanOrder(n + j)
      <4>1. PICK j \in 1..m : e = n + j
        BY <1>6, <3>2 DEF PlanOrder
      <4> QED BY <1>2, <4>1
    <3> QED BY <1>5, <3>1, <3>2
  <2>2. IsFiniteSet(J) /\ Cardinality(J) = m
    <3> HIDE DEF n, m
    <3>1. Cardinality(J) = IF n + 1 > n + m THEN 0 ELSE n + m - (n + 1) + 1
      BY <1>2, FS_Interval
    <3>2. IsFiniteSet(J)
      BY <1>2, FS_Interval
    <3>3. m = IF n + 1 > n + m THEN 0 ELSE n + m - (n + 1) + 1
      BY <1>2
    <3> QED BY <3>1, <3>2, <3>3
  <2> HIDE DEF S, I, J, n, m
  <2>3. /\ IsFiniteSet(I \cup J)
        /\ Cardinality(I \cup J) = Cardinality(I) + Cardinality(J) - Cardinality(I \cap J)
    BY <1>3, <2>2, FS_Union
  <2>4. IsFiniteSet(I \cap J) /\ IsFiniteSet(S) /\ Cardinality(S) <= Cardinality(I \cup J)
    <3>1. I \cap J \in SUBSET I
      OBVIOUS
    <3> QED BY <1>3, <2>1, <2>3, <3>1, FS_Subset
  <2>5. /\ Cardinality(I \cap J) \in Nat /\ Cardinality(S) \in Nat
        /\ Cardinality(I \cup J) \in Nat
    BY <2>3, <2>4, FS_CardinalityType
  <2> QED BY <1>1, <1>2, <1>3, <1>4, <2>2, <2>3, <2>4, <2>5
<1>7. CASE ranked = 0
  <2>1. S \in SUBSET {Fallback}
    <3>1. \A i : PlanOrder(i) = Fallback
      BY <1>7 DEF PlanOrder
    <3> HIDE DEF S, I, J, n, m
    <3> QED BY <1>5, <3>1
  <2> HIDE DEF S
  <2>2. IsFiniteSet({Fallback}) /\ Cardinality({Fallback}) = 1
    BY FS_Singleton
  <2>3. IsFiniteSet(S) /\ Cardinality(S) <= 1
    BY <2>1, <2>2, FS_Subset
  <2>4. Cardinality(S) \in Nat
    BY <2>3, FS_CardinalityType
  <2> QED BY <1>1, <1>3, <2>3, <2>4
<1>8. ranked > 0 \/ ranked = 0
  BY <1>2
<1> QED BY <1>6, <1>7, <1>8

\* The invariant implies that the budget is kept.
LEMMA BudgetFollows ==
  ASSUME MiniInv
  PROVE  CallBudgetKept
<1>1. TypeOK /\ OrderInv /\ PoolInv /\ fallbackCalls <= 1 /\ fallbackCalls \in Nat
  BY DEF MiniInv, FallbackInv, TypeOK
<1>2. StartedCalls \in Nat /\ StartedCalls <= CallBudget
  BY <1>1, StartedWithinBudget
<1>3. budget.maxCalls \in Nat
  <2>1. budget \in BudgetType
    BY <1>1, MiniAssumption DEF TypeOK
  <2> QED BY <2>1 DEF BudgetType
<1> DEFINE b == budget.maxCalls
<1>4. /\ Max({1, b}) >= 1 /\ Max({1, b}) >= b /\ Max({1, b}) \in {1, b}
      /\ Max({2, b}) >= 2 /\ Max({2, b}) >= b /\ Max({2, b}) \in {2, b}
  <2>1. b \in Int /\ 1 \in Int /\ 2 \in Int
    BY <1>3
  <2> HIDE DEF b
  <2> QED BY <2>1, GreaterOfTwo
<1>5. /\ CallBudget = b \/ CallBudget = b - 1 \/ CallBudget = 1
      /\ (budget.reserve /\ baseline = "eligible") => CallBudget = b - 1 \/ CallBudget = 1
  BY <1>3 DEF CallBudget
<1> HIDE DEF b
<1>6. StartedCalls <= Max({1, b})
  BY <1>2, <1>3, <1>4, <1>5 DEF b
<1>7. (budget.reserve /\ baseline = "eligible") => StartedCalls + fallbackCalls <= Max({2, b})
  <2> SUFFICES ASSUME CallBudget = b - 1 \/ CallBudget = 1
               PROVE  StartedCalls + fallbackCalls <= Max({2, b})
    BY <1>5
  <2> QED BY <1>1, <1>2, <1>3, <1>4 DEF b
<1> QED BY <1>1, <1>6, <1>7 DEF CallBudgetKept, b

\* The invariant implies that results come in plan order and that stages account for
\* their calls.
LEMMA AccountFollows ==
  ASSUME MiniInv
  PROVE  ResultsInPlanOrder /\ StageAccounted
<1>1. TypeOK /\ OrderInv /\ PoolInv
  BY DEF MiniInv
<1>2. ResultsInPlanOrder
  BY <1>1 DEF OrderInv, PlanOrder, ResultsInPlanOrder
<1>3. NoStrayCall
  BY <1>1 DEF PoolInv, OutsideInv, InBatch, NoStrayCall
<1> QED BY <1>1, <1>2, <1>3 DEF PoolInv, StageAccounted
-----------------------------------------------------------------------------
(***************************************************************************)
(* A run is one of ForecastRun.                                            *)
(***************************************************************************)
\* A run without a result has released nothing.
LEMMA NothingReleased ==
  ASSUME MiniInv, phase # "done"
  PROVE  Status = "running" /\ Released = {}
<1>1. status = ""
  BY DEF MiniInv, FallbackInv
<1> QED BY <1>1 DEF Status, Released

\* The initial states are initial states of ForecastRun.
LEMMA InitRefines ==
  ASSUME Init
  PROVE  Abstract!Init
<1>1. MiniInv /\ phase # "done" /\ results = <<>> /\ ~fallbackUsed
  BY InitMini DEF Init
<1>2. Obtained = {}
  <2>1. DOMAIN results = {}
    BY <1>1
  <2> QED BY <1>1, <2>1 DEF Obtained
<1> QED BY <1>1, <1>2, NothingReleased DEF Abstract!Init

\* Forecasts obtained stay obtained as long as a fallback counted as used does.
LEMMA ObtainedGrows ==
  ASSUME TypeOK, results' \in Seq(ResultType),
         \A i \in 1..Len(results) : i \in 1..Len(results') /\ results'[i] = results[i],
         fallbackUsed => fallbackUsed'
  PROVE  Obtained \subseteq Obtained'
<1>1. DOMAIN results = 1..Len(results) /\ DOMAIN results' = 1..Len(results')
  BY MiniTypes
<1> SUFFICES ASSUME NEW e \in Obtained PROVE e \in Obtained'
  OBVIOUS
<1>2. CASE \E i \in 1..Len(results) : results[i].outcome = "ok" /\ results[i].name = e
  BY <1>1, <1>2 DEF Obtained
<1>3. CASE e \in {Fallback} /\ fallbackUsed
  BY <1>3 DEF Obtained
<1> QED BY <1>1, <1>2, <1>3 DEF Obtained

\* The range of a released selection.
LEMMA ReleasedForecasts ==
  ASSUME NEW s \in Seq(Experts), s # <<>>
  PROVE  Range(s) # {} /\ \A e \in Range(s) : \E i \in DOMAIN s : s[i] = e
<1>1. Len(s) \in Nat /\ Len(s) # 0 /\ DOMAIN s = 1..Len(s)
  OBVIOUS
<1>2. 1 \in DOMAIN s
  BY <1>1
<1> QED BY <1>2 DEF Range

\* Every step obtains forecasts, makes the one result, or is not seen at all.
LEMMA StepRefines ==
  ASSUME MiniInv, MiniInv', [Next]_vars
  PROVE  [Abstract!Next]_(Abstract!vars)
<1>1. TypeOK /\ OrderInv /\ PoolInv /\ FallbackInv
  BY DEF MiniInv
<1>2. /\ results' \in Seq(ResultType)
      /\ \A i \in 1..Len(results) : i \in 1..Len(results') /\ results'[i] = results[i]
  BY <1>1, NextPool
<1>3. CASE UNCHANGED <<phase, results, outcome>>
  <2>1. Status' = Status /\ Obtained' = Obtained /\ Released' = Released
    BY <1>3 DEF Status, Obtained, Released, outcome
  <2> QED BY <2>1 DEF Abstract!vars
<1>4. CASE phase # "done" /\ phase' # "done" /\ (fallbackUsed => fallbackUsed')
  <2>1. Obtained \subseteq Obtained'
    BY <1>1, <1>2, <1>4, ObtainedGrows
  <2>2. Status = "running" /\ Released = {}
    BY <1>4, NothingReleased
  <2>3. Status' = "running" /\ Released' = {}
    <3>1. status' = ""
      BY <1>4 DEF MiniInv, FallbackInv
    <3> QED BY <1>4, <3>1 DEF Status, Released
  <2> QED BY <2>1, <2>2, <2>3 DEF Abstract!Next, Abstract!Work, Abstract!Obtain
<1>5. CASE /\ phase # "done" /\ phase' = "done" /\ status' # "available"
           /\ (fallbackUsed => fallbackUsed')
  <2>1. Obtained \subseteq Obtained'
    BY <1>1, <1>2, <1>5, ObtainedGrows
  <2>2. Status = "running" /\ Released = {}
    BY <1>5, NothingReleased
  <2>3. Status' = "unavailable" /\ Released' = {}
    BY <1>5 DEF Status, Released
  <2> QED BY <2>1, <2>2, <2>3 DEF Abstract!Next, Abstract!GiveUp, Abstract!Obtain
<1>6. CASE Accept
  <2>1. /\ phase = "verify" /\ used' = Combined /\ status' = "available" /\ phase' = "done"
        /\ fallbackUsed' = fallbackUsed /\ results' = results
    BY <1>6 DEF Accept
  <2>2. Pending
    BY <1>1, <2>1 DEF FallbackInv
  <2>3. /\ Combined \in Seq(Experts) /\ Combined # <<>>
        /\ \A k \in DOMAIN Combined : \E i \in DOMAIN used : used[i] = Combined[k]
    BY <1>1, <2>2, CombinedForecasts DEF Pending
  <2>4. Obtained' = Obtained
    BY <2>1 DEF Obtained
  <2>5. Status' = "available" /\ Released' = Range(Combined)
    BY <2>1 DEF Status, Released
  <2>6. Range(Combined) # {} /\ Range(Combined) \subseteq Obtained
    BY <2>2, <2>3, ReleasedForecasts DEF Pending
  <2>7. Status = "running"
    BY <2>1, NothingReleased
  <2> QED BY <2>4, <2>5, <2>6, <2>7 DEF Abstract!Next, Abstract!Release, Abstract!Obtain
<1>7. CASE RejectAndRecover /\ status' = "available"
  <2>1. /\ phase = "verify" /\ used' = <<Fallback>> /\ fallbackUsed' = TRUE /\ phase' = "done"
        /\ status' = "available" /\ results' = results
    BY <1>7 DEF RejectAndRecover, Unavailable
  <2>2. Obtained \subseteq Obtained' /\ Fallback \in Obtained'
    BY <2>1 DEF Obtained
  <2>3. Status' = "available" /\ Released' = Range(<<Fallback>>)
    BY <2>1 DEF Status, Released
  <2>4. Range(<<Fallback>>) # {} /\ \A e \in Range(<<Fallback>>) : e = Fallback
    BY BaselineForecast, ReleasedForecasts
  <2>5. Status = "running"
    BY <2>1, NothingReleased
  <2> QED BY <2>2, <2>3, <2>4, <2>5 DEF Abstract!Next, Abstract!Release, Abstract!Obtain
<1>8. CASE RejectAndRecover /\ status' # "available"
  <2>1. phase = "verify" /\ phase' = "done" /\ (fallbackUsed => fallbackUsed')
    BY <1>8 DEF RejectAndRecover, CanRecover, Unavailable
  <2> QED BY <1>5, <1>8, <2>1
<1>9. CASE Gather
  <2>1. phase = "gather" /\ phase' = "combine"
    BY <1>9 DEF Gather
  <2>2. ~fallbackUsed
    BY <1>1, <2>1 DEF FallbackInv, Untouched
  <2> QED BY <1>4, <2>1, <2>2
<1>10. CASE LastResort
  <2>1. /\ phase = "gather"
        /\ phase' # "done" \/ (phase' = "done" /\ status' # "available")
    BY <1>10 DEF LastResort, Unavailable
  <2>2. ~fallbackUsed
    BY <1>1, <2>1 DEF FallbackInv, Untouched
  <2> QED BY <1>4, <1>5, <2>1, <2>2
<1>11. CASE NoPath \/ CombinerFails \/ Reject
  <2>1. /\ phase # "done" /\ phase' = "done" /\ status' # "available"
        /\ fallbackUsed' = fallbackUsed
    BY <1>11 DEF NoPath, CombinerFails, Reject, Unavailable
  <2> QED BY <1>5, <2>1
<1>12. CASE RunPrimary \/ NothingToRun \/ Collect \/ Escalate \/ StopEarly \/ Combine
  <2>1. phase # "done" /\ phase' # "done" /\ fallbackUsed' = fallbackUsed
    BY <1>12 DEF RunPrimary, NothingToRun, Collect, Escalate, StopEarly, Combine, Request, outcome
  <2> QED BY <1>4, <2>1
<1>13. CASE TakeResult \/ TimeOut \/ DeadlinePasses \/ \E e \in Experts : Start(e) \/ Finish(e)
  <2>1. UNCHANGED <<phase, results, outcome>>
    BY <1>13 DEF TakeResult, TimeOut, Record, DeadlinePasses, Start, Finish
  <2> QED BY <1>3, <2>1
<1>14. CASE UNCHANGED vars
  BY <1>3, <1>14 DEF vars
<1> QED BY <1>6, <1>7, <1>8, <1>9, <1>10, <1>11, <1>12, <1>13, <1>14 DEF Next, Conductor
-----------------------------------------------------------------------------
(***************************************************************************)
(* Theorems.                                                               *)
(***************************************************************************)
\* The variables keep their types; a recorded run is an answer or a timeout, never a
\* future still under way.
THEOREM MiniTypeCorrect == Spec => []TypeOK
<1>1. MiniInv => TypeOK
  BY DEF MiniInv
<1> QED BY <1>1, MiniInvariant, PTL

\* Results come in plan order, however the threads of a stage finish.
THEOREM ResultsFollowPlan == Spec => []ResultsInPlanOrder
<1>1. MiniInv => ResultsInPlanOrder
  BY AccountFollows
<1> QED BY <1>1, MiniInvariant, PTL

\* No run starts more expert calls than its budget allows, the abandoned ones and the
\* fallback's included.
THEOREM MiniBudgetIsKept == Spec => []CallBudgetKept
<1>1. MiniInv => CallBudgetKept
  BY BudgetFollows
<1> QED BY <1>1, MiniInvariant, PTL

\* A stage that is over accounts for every call: no timeout of an answer in time, no
\* call left to start, none running unreported.
THEOREM StagesAreAccounted == Spec => []StageAccounted
<1>1. MiniInv => StageAccounted
  BY AccountFollows
<1> QED BY <1>1, MiniInvariant, PTL

\* The baseline is never averaged with other forecasts, and no run with a registered
\* baseline gives up without it.
THEOREM FallbackIsRight == Spec => []FallbackRight
<1>1. MiniInv => FallbackRight
  BY DEF MiniInv, FallbackInv
<1> QED BY <1>1, MiniInvariant, PTL

\* The cascade calls an expert at most once, and never one whose forecast it was given.
THEOREM ExpertsCalledOnce == Spec => CalledOnce
<1>1. MiniInv /\ [Next]_vars => [OneCall]_vars
  BY NextMini
<1>2. [][OneCall]_vars => CalledOnce
  BY PTL DEF CalledOnce, OneCall
<1> QED BY <1>1, <1>2, MiniInvariant, PTL DEF Spec

\* A run of the cascade is a run of ForecastRun.
THEOREM MiniImplementsForecastRun == Spec => ImplementsForecastRun
<1>1. Init => Abstract!Init
  BY InitRefines
<1>2. MiniInv /\ MiniInv' /\ [Next]_vars => [Abstract!Next]_(Abstract!vars)
  BY StepRefines
<1>3. Spec => Abstract!Spec
  BY <1>1, <1>2, MiniInvariant, PTL DEF Spec, Abstract!Spec
<1> QED BY <1>3 DEF ImplementsForecastRun
=============================================================================
