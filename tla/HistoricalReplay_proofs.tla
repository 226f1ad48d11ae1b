------------------------ MODULE HistoricalReplay_proofs ------------------------
(***************************************************************************)
(* Proofs about HistoricalReplay, for all histories, lags, horizons and    *)
(* windows: types, that no forecast of the replay rests on an observation  *)
(* that was not made by its origin, that routers are tested on later rows  *)
(* than they are trained on, and that the skill store follows the rows.    *)
(***************************************************************************)
EXTENDS HistoricalReplay, FiniteSetTheorems, SequenceTheorems, WellFoundedInduction, TLAPS
-----------------------------------------------------------------------------
(***************************************************************************)
(* Least and greatest elements, and the lookups made of them.              *)
(***************************************************************************)
\* Every inhabited set of numbers has a least element, and Min is it.
LEMMA LeastElement ==
  ASSUME NEW T \in SUBSET Nat, T # {}
  PROVE  Min(T) \in T /\ \A y \in T : Min(T) =< y
<1> DEFINE R == {ss \in Nat \X Nat : ss[1] < ss[2]}
<1>1. IsWellFoundedOn(R, Nat)
  BY NatLessThanWellFounded DEF OpToRel
<1>2. PICK x \in T : \A y \in T : <<y, x>> \notin R
  <2> HIDE DEF R
  <2> QED BY <1>1, WFMin
<1>3. ASSUME NEW y \in T PROVE x =< y
  <2>1. <<y, x>> \in Nat \X Nat /\ <<y, x>> \notin R
    BY <1>2
  <2>2. ~(y < x)
    BY <2>1
  <2> QED BY <2>2
<1> QED BY <1>3 DEF Min

\* Every inhabited set of numbers up to b has a greatest element, and Max is it.
LEMMA GreatestElement ==
  ASSUME NEW b \in Int, NEW T \in SUBSET Nat, T # {}, \A y \in T : y =< b
  PROVE  Max(T) \in T /\ \A y \in T : y =< Max(T)
<1> DEFINE U == {b - y : y \in T}
<1>1. U \in SUBSET Nat /\ U # {}
  <2>1. \A y \in T : y \in Nat /\ y =< b
    OBVIOUS
  <2>2. \A y \in T : b - y \in Nat
    BY <2>1
  <2> QED BY <2>2
<1>2. Min(U) \in U /\ \A u \in U : Min(U) =< u
  <2> HIDE DEF U
  <2> QED BY <1>1, LeastElement
<1>3. PICK x \in T : Min(U) = b - x
  BY <1>2
<1>4. ASSUME NEW y \in T PROVE x >= y
  <2>1. b - y \in U
    OBVIOUS
  <2>2. b - x =< b - y
    BY <1>2, <1>3, <2>1
  <2> QED BY <2>2
<1>5. \E z \in T : \A y \in T : z >= y
  BY <1>4
<1>6. Max(T) \in T /\ \A y \in T : Max(T) >= y
  BY <1>5 DEF Max
<1> QED BY <1>6

\* The last record up to a time is one of the series, and no other is later.
LEMMA LatestIsLast ==
  ASSUME NEW ts \in SUBSET Nat, NEW when \in Int
  PROVE  /\ UpTo(ts, when) = {} => Latest(ts, when) = None
         /\ UpTo(ts, when) # {} => Latest(ts, when) \in UpTo(ts, when)
         /\ \A t \in UpTo(ts, when) : t =< Latest(ts, when)
<1>1. UpTo(ts, when) \in SUBSET Nat /\ \A t \in UpTo(ts, when) : t =< when
  BY DEF UpTo
<1>2. CASE UpTo(ts, when) = {}
  BY <1>2 DEF Latest
<1>3. CASE UpTo(ts, when) # {}
  <2>1. /\ Max(UpTo(ts, when)) \in UpTo(ts, when)
        /\ \A t \in UpTo(ts, when) : t =< Max(UpTo(ts, when))
    BY <1>1, <1>3, GreatestElement
  <2> QED BY <1>3, <2>1 DEF Latest
<1> QED BY <1>2, <1>3

\* A record found by Latest is one of the series up to that time.
LEMMA LatestFound ==
  ASSUME NEW ts \in SUBSET Nat, NEW when \in Int, Latest(ts, when) # None
  PROVE  Latest(ts, when) \in UpTo(ts, when)
BY LatestIsLast

\* The nearest record of an inhabited series is one of it.
LEMMA NearestIsOne ==
  ASSUME NEW ts \in SUBSET Nat, NEW when \in Int
  PROVE  Nearest(ts, when) \in ts \cup {None}
<1> DEFINE D == {Apart(t, when) : t \in ts}
           N == {t \in ts : \A u \in ts : Apart(t, when) =< Apart(u, when)}
<1>1. CASE ts = {}
  BY <1>1 DEF Nearest
<1>2. CASE ts # {}
  <2>1. D \in SUBSET Nat /\ D # {}
    <3>1. \A t \in ts : Apart(t, when) \in Nat
      BY DEF Apart
    <3> QED BY <1>2, <3>1
  <2>2. Min(D) \in D /\ \A d \in D : Min(D) =< d
    <3> HIDE DEF D
    <3> QED BY <2>1, LeastElement
  <2>3. PICK t \in ts : Min(D) = Apart(t, when)
    BY <2>2
  <2>4. \A u \in ts : Apart(t, when) =< Apart(u, when)
    BY <2>2, <2>3
  <2>5. N \in SUBSET Nat /\ N # {}
    BY <2>4
  <2>6. Min(N) \in N
    <3> HIDE DEF N
    <3> QED BY <2>5, LeastElement
  <2>7. Nearest(ts, when) = Min(N)
    BY <1>2 DEF Nearest
  <2> QED BY <2>6, <2>7
<1> QED BY <1>1, <1>2

\* The ends of a bounded window are records of it.
LEMMA EndsAreInside ==
  ASSUME NEW b \in Int, NEW ts \in SUBSET Nat, \A t \in ts : t =< b
  PROVE  Ends(ts) \subseteq ts
<1>1. CASE ts = {}
  <2>1. Cardinality(ts) = 0
    BY <1>1, FS_EmptySet
  <2> QED BY <2>1 DEF Ends
<1>2. CASE ts # {}
  <2>1. Min(ts) \in ts /\ Max(ts) \in ts
    BY <1>2, LeastElement, GreatestElement
  <2> QED BY <2>1 DEF Ends
<1> QED BY <1>1, <1>2
-----------------------------------------------------------------------------
(***************************************************************************)
(* What the experts read.                                                  *)
(***************************************************************************)
\* The observations of a pair made by a time.
Known(p, when) == ({"hohonu"} \X UpTo(p.hohonu, when)) \cup ({"noaa"} \X UpTo(p.noaa, when))

\* An expert that has a forecast computes it from observations made by the origin,
\* whatever the lag, the gaps and the windows.
LEMMA ReadsAreKnown ==
  ASSUME NEW p \in Pairs, NEW from \in Nat, NEW h \in Nat, NEW e \in Experts,
         Forecasts(e, p, Context(p, from, h))
  PROVE  Reads(e, p, Context(p, from, h)) \subseteq Known(p, from)
<1> DEFINE c == Context(p, from, h)
<1>1. /\ p.hohonu \in SUBSET Nat /\ p.noaa \in SUBSET Nat /\ p.lag \in Int
      /\ Residuals(p) \in SUBSET Nat /\ Residuals(p) \subseteq p.noaa
      /\ {RecentTicks, LookbackTicks} \subseteq Nat
  BY ReplayAssumption, PreparedAssumption DEF Residuals
<1>2. /\ c.origin = from /\ c.target = from + h
      /\ c.hohonu = Latest(p.hohonu, from) /\ c.noaa = Latest(p.noaa, from)
      /\ c.trend = Ends(Slice(p.hohonu, from - RecentTicks, from))
      /\ c.slope = Ends(Slice(Residuals(p), from - RecentTicks, from))
      /\ c.residual = IF c.noaa = None THEN None ELSE ResidualAt(p, c.noaa)
  BY DEF Context
<1>3. ASSUME NEW ts \in SUBSET Nat, NEW first \in Int
      PROVE  /\ Slice(ts, first, from) \subseteq UpTo(ts, from)
             /\ Ends(Slice(ts, first, from)) \subseteq UpTo(ts, from)
  <2>1. /\ Slice(ts, first, from) \in SUBSET Nat /\ Slice(ts, first, from) \subseteq UpTo(ts, from)
        /\ \A t \in Slice(ts, first, from) : t =< from
    BY DEF Slice, UpTo
  <2>2. Ends(Slice(ts, first, from)) \subseteq Slice(ts, first, from)
    <3> DEFINE w == Slice(ts, first, from)
    <3>1. from \in Int /\ w \in SUBSET Nat /\ \A t \in w : t =< from
      BY <2>1
    <3> HIDE DEF w
    <3>2. Ends(w) \subseteq w
      BY <3>1, EndsAreInside
    <3> QED BY <3>2 DEF w
  <2> QED BY <2>1, <2>2
<1>4. c.trend \subseteq UpTo(p.hohonu, from) /\ c.slope \subseteq UpTo(p.noaa, from)
  <2>1. from - RecentTicks \in Int
    BY <1>1
  <2>2. c.trend \subseteq UpTo(p.hohonu, from) /\ c.slope \subseteq UpTo(Residuals(p), from)
    <3> HIDE DEF c
    <3> QED BY <1>1, <1>2, <1>3, <2>1
  <2>3. UpTo(Residuals(p), from) \subseteq UpTo(p.noaa, from)
    BY <1>1 DEF UpTo
  <2> HIDE DEF c
  <2> QED BY <2>2, <2>3
<1>5. c.noaa # None => c.noaa \in UpTo(p.noaa, from)
  BY <1>1, <1>2, LatestFound
<1>6. ASSUME NEW when \in Int, when =< from, ResidualAt(p, when) # None
      PROVE  ResidualAt(p, when) \in UpTo(p.noaa, from)
  <2>1. ResidualAt(p, when) \in UpTo(Residuals(p), when)
    BY <1>1, <1>6, LatestFound DEF ResidualAt
  <2> QED BY <1>1, <1>6, <2>1 DEF UpTo
<1>7. c.residual # None => c.noaa # None /\ c.residual \in UpTo(p.noaa, from)
  <2>1. c.residual # None => c.noaa # None /\ c.residual = ResidualAt(p, c.noaa)
    BY <1>2
  <2>2. c.noaa # None => c.noaa \in Int /\ c.noaa =< from
    <3> HIDE DEF c
    <3> QED BY <1>1, <1>5 DEF UpTo
  <2> HIDE DEF c
  <2> QED BY <1>6, <2>1, <2>2
<1> HIDE DEF c
<1>8. Forecasts(e, p, c)
  BY DEF c
<1>9. Reads(e, p, c) \subseteq Known(p, from)
  <2>1. CASE e = "local_persistence"
    <3>1. c.hohonu # None
      BY <1>8, <2>1 DEF Forecasts, Within
    <3>2. c.hohonu \in UpTo(p.hohonu, from)
      BY <1>1, <1>2, <3>1, LatestFound
    <3> QED BY <1>4, <2>1, <3>2 DEF Reads, Known
  <2>2. CASE e \in {"local_tide", "safe_fallback"}
    BY <2>2 DEF Reads
  <2>3. CASE e = "noaa_residual"
    <3>1. c.residual # None
      BY <1>8, <2>3 DEF Forecasts
    <3> QED BY <1>4, <1>5, <1>7, <2>3, <3>1 DEF Reads, Known
  <2>4. CASE e = "regional_to_local_residual"
    <3>1. c.residual # None
      BY <1>8, <2>4 DEF Forecasts
    <3>2. LagSource(p, c) \in Int /\ LagSource(p, c) =< from
      BY <1>1, <1>2 DEF LagSource
    <3>3. Transferred(p, c) \in UpTo(p.noaa, from)
      BY <1>6, <1>7, <3>1, <3>2 DEF Transferred
    <3> QED BY <1>5, <1>7, <2>4, <3>1, <3>3 DEF Reads, Known
  <2>5. CASE e = "harmonic_fallback"
    <3>1. History(p, c) \subseteq UpTo(p.hohonu, from)
      BY <1>1, <1>2, <1>3 DEF History
    <3> QED BY <2>5, <3>1 DEF Reads, Known
  <2> QED BY <2>1, <2>2, <2>3, <2>4, <2>5 DEF Experts
<1> QED BY <1>9 DEF c
-----------------------------------------------------------------------------
(***************************************************************************)
(* The inductive invariant.                                                *)
(***************************************************************************)
\* What the cascade's regime may be.
Regimes == {"failed_local_qc_safe_fallback", "regional_non_tidal_event",
            "fresh_local_short_horizon", "stale_noaa_local_tide", "normal_tide_residual"}

\* A row's forecasts rest on observations made by its origin, its maximum input times
\* are the newest of these, and its actual is near its target.
RowSound(row) ==
  /\ row.origin \in Nat /\ row.target = row.origin + horizon
  /\ row.maxInput =
       [hohonu |-> Latest(pair.hohonu, row.origin), noaa |-> Latest(pair.noaa, row.origin)]
  /\ row.reads \subseteq Known(pair, row.origin)
  /\ row.regime \in Regimes /\ \A e \in DOMAIN row.errors : row.errors[e] \in Int
  /\ row.actual # None =>
       row.actual \in pair.hohonu /\ Apart(row.actual, row.target) =< Tolerance

\* The stored forecasts are those of the origin at hand.
OriginInv ==
  /\ step \in {"predict", "run", "learn"} => origin \in Nat
  /\ step = "run" => \A e \in Predicted : Forecasts(e, pair, Now)

ReplayInv == TypeOK /\ OriginInv /\ \A i \in DOMAIN rows : RowSound(rows[i])

\* What the assumptions say of the arguments of a replay.
LEMMA ReplayArguments ==
  ASSUME TypeOK
  PROVE  /\ pair \in Pairs /\ pair.hohonu \in SUBSET Nat /\ pair.noaa \in SUBSET Nat
         /\ horizon \in Nat /\ Tolerance \in Nat
         /\ HistoryTicks \in Nat /\ StepTicks \in Nat
BY ReplayAssumption DEF TypeOK

\* The invariant has the audit's property: nothing a row's forecasts rest on is newer
\* than its origin or than its maximum input time.
LEMMA SoundRowsLookBack ==
  ASSUME ReplayInv
  PROVE  NoLookahead
<1> SUFFICES ASSUME NEW i \in DOMAIN rows
             PROVE  /\ \A x \in rows[i].reads :
                         /\ x[2] =< rows[i].origin /\ x[2] # None
                         /\ x[2] =< rows[i].maxInput[x[1]]
                    /\ rows[i].actual # None =>
                         /\ Apart(rows[i].actual, rows[i].target) =< Tolerance
                         /\ Tolerance < horizon => rows[i].origin < rows[i].actual
  BY DEF NoLookahead
<1> DEFINE row == rows[i]
<1>1. RowSound(row) /\ TypeOK
  BY DEF ReplayInv
<1> HIDE DEF row
<1>2. /\ pair.hohonu \in SUBSET Nat /\ pair.noaa \in SUBSET Nat /\ row.origin \in Nat
      /\ horizon \in Nat /\ Tolerance \in Nat
      /\ row.target = row.origin + horizon
  BY <1>1, ReplayArguments DEF RowSound
<1>3. ASSUME NEW x \in row.reads
      PROVE  x[2] =< row.origin /\ x[2] # None /\ x[2] =< row.maxInput[x[1]]
  <2>1. \/ x[1] = "hohonu" /\ x[2] \in UpTo(pair.hohonu, row.origin)
        \/ x[1] = "noaa" /\ x[2] \in UpTo(pair.noaa, row.origin)
    BY <1>1, <1>3 DEF RowSound, Known
  <2>2. /\ row.maxInput["hohonu"] = Latest(pair.hohonu, row.origin)
        /\ row.maxInput["noaa"] = Latest(pair.noaa, row.origin)
    BY <1>1 DEF RowSound
  <2>3. x[2] =< row.maxInput[x[1]]
    <3>1. CASE x[1] = "hohonu" /\ x[2] \in UpTo(pair.hohonu, row.origin)
      BY <1>2, <2>2, <3>1, LatestIsLast
    <3>2. CASE x[1] = "noaa" /\ x[2] \in UpTo(pair.noaa, row.origin)
      BY <1>2, <2>2, <3>2, LatestIsLast
    <3> QED BY <2>1, <3>1, <3>2
  <2>4. x[2] \in Nat /\ x[2] =< row.origin
    BY <1>2, <2>1 DEF UpTo
  <2> QED BY <2>3, <2>4 DEF None
<1>4. ASSUME row.actual # None
      PROVE  /\ Apart(row.actual, row.target) =< Tolerance
             /\ Tolerance < horizon => row.origin < row.actual
  <2>1. row.actual \in Nat /\ Apart(row.actual, row.target) =< Tolerance
    BY <1>1, <1>2, <1>4 DEF RowSound
  <2> QED BY <1>2, <2>1 DEF Apart
<1> QED BY <1>3, <1>4 DEF row
-----------------------------------------------------------------------------
(***************************************************************************)
(* The steps.                                                              *)
(***************************************************************************)
\* A replay starts with no rows.
LEMMA InitReplay ==
  ASSUME Init
  PROVE  ReplayInv
<1>1. rows = <<>> /\ DOMAIN rows = {} /\ DOMAIN store = {} /\ DOMAIN forecasts = {}
  BY DEF Init
<1>2. rows \in Seq(ToSet(rows))
  BY <1>1
<1>3. TypeOK
  BY <1>1, <1>2 DEF Init, TypeOK
<1>4. OriginInv
  BY DEF Init, OriginInv
<1> QED BY <1>1, <1>3, <1>4 DEF ReplayInv

\* The loop starts at an origin with some history behind it.
LEMMA PrepareKeeps ==
  ASSUME ReplayInv, Prepare
  PROVE  ReplayInv'
<1>1. /\ UNCHANGED <<pair, horizon, mode, updateSkill>>
      /\ step' \in {"table", "predict"} /\ origin' = StartOrigin
      /\ forecasts' = forecasts /\ rows' = rows /\ store' = store /\ pair.hohonu # {}
  BY DEF Prepare, arguments
<1>2. origin' \in Nat
  <2>1. Min(pair.hohonu) \in pair.hohonu
    BY <1>1, LeastElement, ReplayArguments DEF ReplayInv
  <2> QED BY <1>1, <2>1, ReplayArguments DEF ReplayInv, StartOrigin
<1>3. TypeOK'
  BY <1>1, <1>2 DEF ReplayInv, TypeOK
<1>4. OriginInv'
  BY <1>1, <1>2 DEF OriginInv
<1> QED BY <1>1, <1>3, <1>4 DEF ReplayInv, RowSound

\* Exhaustive mode stores what every expert says of the context.
LEMMA PredictKeeps ==
  ASSUME ReplayInv, Predict
  PROVE  ReplayInv'
<1>1. /\ UNCHANGED <<pair, horizon, mode, updateSkill, origin, rows, store>>
      /\ step = "predict" /\ step' = "run"
      /\ forecasts' = IF mode = "policy" THEN <<>> ELSE [e \in Experts |-> Forecasts(e, pair, Now)]
  BY DEF Predict, arguments
<1>2. DOMAIN forecasts' \in {{}, Experts}
  BY <1>1
<1>3. TypeOK'
  BY <1>1, <1>2 DEF ReplayInv, TypeOK
<1>4. Now' = Now
  BY <1>1 DEF Now
<1>5. \A e \in Predicted' : Forecasts(e, pair, Now)
  <2>1. CASE mode = "policy"
    BY <1>1, <2>1 DEF Predicted
  <2>2. CASE mode # "policy"
    BY <1>1, <2>2 DEF Predicted
  <2> QED BY <2>1, <2>2
<1>6. OriginInv'
  BY <1>1, <1>4, <1>5 DEF OriginInv, ReplayInv
<1> QED BY <1>1, <1>3, <1>6 DEF ReplayInv, RowSound

\* The actual a row is scored against is a record near the target.
LEMMA ActualIsNear ==
  ASSUME TypeOK, origin \in Nat
  PROVE  /\ Actual \in pair.hohonu \cup {None}
         /\ Actual # None => Apart(Actual, origin + horizon) =< Tolerance
<1>1. Nearest(pair.hohonu, origin + horizon) \in pair.hohonu \cup {None}
  BY ReplayArguments, NearestIsOne
<1>2. Apart(Nearest(pair.hohonu, origin + horizon), origin + horizon) \in Int
  BY <1>1, ReplayArguments DEF Apart, None
<1> QED BY <1>1, <1>2, ReplayArguments DEF Actual

\* A row is added for the origin, whatever the regime and the errors.
LEMMA RowAdded ==
  ASSUME TypeOK, RunPipeline
  PROVE  /\ rows' \in Seq(ToSet(rows')) /\ Len(rows) \in Nat /\ Len(rows') = Len(rows) + 1
         /\ DOMAIN rows = 1..Len(rows) /\ DOMAIN rows' = 1..(Len(rows) + 1)
         /\ \A i \in DOMAIN rows : rows'[i] = rows[i]
         /\ \E row :
              /\ rows'[Len(rows) + 1] = row
              /\ row.origin = origin /\ row.target = Now.target /\ row.actual = Actual
              /\ row.maxInput =
                   [hohonu |-> Latest(pair.hohonu, origin), noaa |-> Latest(pair.noaa, origin)]
              /\ row.reads = UNION {Reads(e, pair, Now) : e \in Predicted \cup Asked}
              /\ row.regime \in Regimes
              /\ DOMAIN row.errors = IF Actual = None THEN {} ELSE Predicted
              /\ \A e \in DOMAIN row.errors : row.errors[e] \in Int
<1>1. PICK surge \in {FALSE} \cup (IF Now.residual # None THEN {TRUE} ELSE {}),
           err \in ErrorCases :
        rows' = Append(rows,
          [origin    |-> origin,
           target    |-> Now.target,
           regime    |-> Regime(Now, surge),
           maxInput  |-> [hohonu |-> Latest(pair.hohonu, origin), noaa |-> Latest(pair.noaa, origin)],
           actual    |-> Actual,
           errors    |-> IF Actual = None THEN <<>> ELSE [e \in Predicted |-> err[e]],
           reads     |-> UNION {Reads(e, pair, Now) : e \in Predicted \cup Asked},
           skillAsOf |-> Newest(Regime(Now, surge))])
  BY DEF RunPipeline
<1> DEFINE errs == IF Actual = None THEN <<>> ELSE [e \in Predicted |-> err[e]]
           regime == Regime(Now, surge)
<1>2. Predicted \subseteq Experts
  BY DEF Predicted, TypeOK
<1>3. /\ DOMAIN errs = IF Actual = None THEN {} ELSE Predicted
      /\ \A e \in DOMAIN errs : errs[e] \in Int
  <2>1. \A e \in Experts : err[e] \in Int
    BY ReplayAssumption
  <2> QED BY <1>2, <2>1
<1>4. regime \in Regimes
  BY DEF Regime, Regimes
<1> DEFINE row ==
  [origin    |-> origin,
   target    |-> Now.target,
   regime    |-> regime,
   maxInput  |-> [hohonu |-> Latest(pair.hohonu, origin), noaa |-> Latest(pair.noaa, origin)],
   actual    |-> Actual,
   errors    |-> errs,
   reads     |-> UNION {Reads(e, pair, Now) : e \in Predicted \cup Asked},
   skillAsOf |-> Newest(regime)]
<1>5. rows' = Append(rows, row)
  BY <1>1
<1> HIDE DEF errs, regime
<1>6. /\ row.origin = origin /\ row.target = Now.target /\ row.actual = Actual
      /\ row.maxInput =
           [hohonu |-> Latest(pair.hohonu, origin), noaa |-> Latest(pair.noaa, origin)]
      /\ row.reads = UNION {Reads(e, pair, Now) : e \in Predicted \cup Asked}
      /\ row.regime = regime /\ row.errors = errs
  OBVIOUS
<1> HIDE DEF row
<1> DEFINE S == ToSet(rows) \cup {row}
<1>7. rows \in Seq(S) /\ row \in S
  BY DEF TypeOK
<1> HIDE DEF S
<1>8. /\ rows' \in Seq(S) /\ Len(rows') = Len(rows) + 1 /\ Len(rows) \in Nat
      /\ \A i \in 1..Len(rows) : rows'[i] = rows[i]
      /\ rows'[Len(rows) + 1] = row
  BY <1>5, <1>7, AppendProperties
<1>9. DOMAIN rows = 1..Len(rows) /\ DOMAIN rows' = 1..Len(rows')
  BY <1>7, <1>8
<1>10. rows' \in Seq(ToSet(rows'))
  <2>1. \A i \in 1..Len(rows') : rows'[i] \in ToSet(rows')
    BY <1>9 DEF ToSet
  <2> QED BY <1>8, <1>9, <2>1
<1> QED BY <1>3, <1>4, <1>6, <1>8, <1>9, <1>10

\* The new row is as sound as the others.
LEMMA RunPipelineKeeps ==
  ASSUME ReplayInv, RunPipeline
  PROVE  ReplayInv'
<1>1. /\ UNCHANGED <<pair, horizon, mode, updateSkill, origin, forecasts, store>>
      /\ step = "run" /\ step' = "learn" /\ origin \in Nat /\ TypeOK
  BY DEF RunPipeline, ReplayInv, OriginInv, arguments
<1>2. /\ rows' \in Seq(ToSet(rows')) /\ DOMAIN rows = 1..Len(rows) /\ Len(rows) \in Nat
      /\ DOMAIN rows' = DOMAIN rows \cup {Len(rows) + 1}
      /\ \A i \in DOMAIN rows : rows'[i] = rows[i]
  BY <1>1, RowAdded
<1>3. PICK row :
        /\ rows'[Len(rows) + 1] = row
        /\ row.origin = origin /\ row.target = Now.target /\ row.actual = Actual
        /\ row.maxInput = [hohonu |-> Latest(pair.hohonu, origin), noaa |-> Latest(pair.noaa, origin)]
        /\ row.reads = UNION {Reads(e, pair, Now) : e \in Predicted \cup Asked}
        /\ row.regime \in Regimes
        /\ DOMAIN row.errors = IF Actual = None THEN {} ELSE Predicted
        /\ \A e \in DOMAIN row.errors : row.errors[e] \in Int
  BY <1>1, RowAdded
<1>4. Predicted \subseteq Experts /\ Asked \subseteq Experts
  BY <1>1 DEF Predicted, Asked, TypeOK
<1>5. Actual \in pair.hohonu \cup {None}
      /\ (Actual # None => Apart(Actual, origin + horizon) =< Tolerance)
  BY <1>1, ActualIsNear
<1>6. TypeOK'
  <2>1. DOMAIN row.errors \subseteq Experts
    BY <1>3, <1>4
  <2>2. \A i \in DOMAIN rows' :
          rows'[i].actual \in pair.hohonu \cup {None} /\ DOMAIN rows'[i].errors \subseteq Experts
    BY <1>1, <1>2, <1>3, <1>5, <2>1 DEF TypeOK
  <2> QED BY <1>1, <1>2, <2>2 DEF TypeOK
<1>7. RowSound(row)'
  <2>1. Now.target = origin + horizon
    BY DEF Now, Context
  <2>2. \A e \in Predicted \cup Asked : Reads(e, pair, Now) \subseteq Known(pair, origin)
    <3> TAKE e \in Predicted \cup Asked
    <3>1. e \in Experts /\ Forecasts(e, pair, Now)
      BY <1>1, <1>4 DEF Asked, ReplayInv, OriginInv
    <3> QED BY <1>1, <3>1, ReadsAreKnown, ReplayArguments DEF Now
  <2>3. row.reads \subseteq Known(pair, origin)
    BY <1>3, <2>2
  <2>4. Known(pair, row.origin)' = Known(pair, origin)
    BY <1>1, <1>3 DEF Known
  <2> QED BY <1>1, <1>3, <1>5, <2>1, <2>3, <2>4 DEF RowSound
<1>8. \A i \in DOMAIN rows' : RowSound(rows[i])'
  BY <1>1, <1>2, <1>3, <1>7 DEF ReplayInv, RowSound, Known
<1>9. OriginInv'
  BY <1>1 DEF OriginInv
<1> QED BY <1>6, <1>8, <1>9 DEF ReplayInv

\* A mean weighted by whole numbers lies between its terms, rounded down as it is.
LEMMA WeightedMean ==
  ASSUME NEW m \in Nat, NEW k \in Nat, m + k > 0,
         NEW a \in Nat, NEW b \in Nat, NEW x \in a..b, NEW y \in a..b
  PROVE  (m * x + k * y) \div (m + k) \in a..b
<1>1. \A n, u, v \in Nat : u =< v => n * u =< n * v /\ n * u \in Nat /\ n * v \in Nat
  OBVIOUS
<1>2. x \in Nat /\ y \in Nat /\ a =< x /\ x =< b /\ a =< y /\ y =< b
  OBVIOUS
<1>3. /\ m * a =< m * x /\ m * x =< m * b /\ k * a =< k * y /\ k * y =< k * b
      /\ {m * a, m * x, m * b, k * a, k * y, k * b} \subseteq Nat
  BY <1>1, <1>2
<1>4. (m + k) * a = m * a + k * a /\ (m + k) * b = m * b + k * b
  OBVIOUS
<1> DEFINE w == m + k
           sum == m * x + k * y
<1>5. w \in Nat /\ w > 0 /\ sum \in Nat /\ w * a =< sum /\ sum =< w * b
  BY <1>3, <1>4
<1> HIDE DEF w, sum
<1>6. sum \div w \in Nat /\ a =< sum \div w /\ sum \div w =< b
  BY <1>5
<1> QED BY <1>6 DEF w, sum

\* So does a blend of two numbers.
LEMMA BlendIsBetween ==
  ASSUME NEW share \in 0..Whole, NEW a \in Nat, NEW b \in Nat, NEW old \in a..b, NEW new \in a..b
  PROVE  Blend(share, old, new) \in a..b
<1> DEFINE rest == Whole - share
<1>1. Whole \in Nat /\ rest \in Nat /\ share \in Nat /\ rest + share = Whole /\ rest + share > 0
  BY SkillAssumption
<1> HIDE DEF rest
<1>2. (rest * old + share * new) \div (rest + share) \in a..b
  BY <1>1, WeightedMean
<1> QED BY <1>1, <1>2 DEF Blend, rest

\* An update counts one more outcome, and a failure rate stays a share of Whole.
LEMMA UpdatedType ==
  ASSUME NEW rec, rec.n \in Nat, rec.failureRate \in 0..Whole, NEW out, out.failed \in BOOLEAN
  PROVE  Updated(rec, out).n \in Nat \ {0} /\ Updated(rec, out).failureRate \in 0..Whole
<1> DEFINE share == IF rec.n > 0 THEN Whole - Decay ELSE Whole
           new == IF out.failed THEN Whole ELSE 0
<1>1. share \in 0..Whole /\ new \in 0..Whole
  BY SkillAssumption
<1>2. Blend(share, rec.failureRate, new) \in 0..Whole
  <2> HIDE DEF share, new
  <2> QED BY <1>1, SkillAssumption, BlendIsBetween
<1>3. Updated(rec, out).n = rec.n + 1
  BY DEF Updated
<1>4. Updated(rec, out).failureRate = Blend(share, rec.failureRate, new)
  BY DEF Updated
<1> QED BY <1>2, <1>3, <1>4

\* The store is taught an outcome of every stored forecast, and the loop goes on.
LEMMA LearnKeeps ==
  ASSUME ReplayInv, Learn
  PROVE  ReplayInv'
<1>1. /\ UNCHANGED <<pair, horizon, mode, updateSkill, forecasts, rows>>
      /\ step = "learn" /\ step' \in {"predict", "table"}
      /\ origin' = origin + StepTicks /\ origin \in Nat /\ TypeOK
  BY DEF Learn, ReplayInv, OriginInv, arguments
<1>2. origin' \in Nat
  BY <1>1, ReplayArguments
<1>3. ASSUME NEW bucket, NEW regime, NEW outs, \A e \in DOMAIN outs : outs[e].failed \in BOOLEAN,
             NEW k \in DOMAIN Learnt(store, Station, bucket, regime, outs)
      PROVE  /\ Learnt(store, Station, bucket, regime, outs)[k].n \in Nat \ {0}
             /\ Learnt(store, Station, bucket, regime, outs)[k].failureRate \in 0..Whole
  <2> DEFINE touched == UNION {Keys(e, Station, bucket, regime) : e \in DOMAIN outs}
  <2>1. /\ DOMAIN Learnt(store, Station, bucket, regime, outs) = DOMAIN store \cup touched
        /\ Learnt(store, Station, bucket, regime, outs)[k] =
             IF k \in touched THEN Updated(RecordOf(store, k), outs[k[1]]) ELSE store[k]
    BY <1>3 DEF Learnt
  <2>2. CASE k \in touched
    <3>1. PICK e \in DOMAIN outs : k \in Keys(e, Station, bucket, regime)
      BY <2>2
    <3>2. k[1] = e
      BY <3>1 DEF Keys, Levels
    <3>3. RecordOf(store, k).n \in Nat /\ RecordOf(store, k).failureRate \in 0..Whole
      BY <1>1, SkillAssumption DEF RecordOf, NoRecord, TypeOK
    <3>4. outs[k[1]].failed \in BOOLEAN
      BY <1>3, <3>1, <3>2
    <3> DEFINE rec == RecordOf(store, k)
               out == outs[k[1]]
    <3>5. rec.n \in Nat /\ rec.failureRate \in 0..Whole /\ out.failed \in BOOLEAN
      BY <3>3, <3>4
    <3> HIDE DEF rec, out
    <3>6. Updated(rec, out).n \in Nat \ {0} /\ Updated(rec, out).failureRate \in 0..Whole
      BY <3>5, UpdatedType
    <3>7. Learnt(store, Station, bucket, regime, outs)[k] = Updated(rec, out)
      BY <2>1, <2>2 DEF rec, out
    <3> QED BY <3>6, <3>7
  <2>3. CASE k \notin touched
    <3>1. k \in DOMAIN store /\ Learnt(store, Station, bucket, regime, outs)[k] = store[k]
      BY <1>3, <2>1, <2>3
    <3> QED BY <1>1, <3>1 DEF TypeOK
  <2> QED BY <2>2, <2>3
<1>4. \A k \in DOMAIN store' : store'[k].n \in Nat \ {0} /\ store'[k].failureRate \in 0..Whole
  <2> DEFINE row == Last(rows)
             outs == Outcomes(row)
  <2>1. store' = store
        \/ store' = Learnt(store, Station, HorizonBucket(horizon), row.regime, outs)
    BY DEF Learn
  <2>3. CASE store' = store
    BY <1>1, <2>3 DEF TypeOK
  <2>4. CASE store' = Learnt(store, Station, HorizonBucket(horizon), row.regime, outs)
    <3>1. \A e \in DOMAIN outs : outs[e].failed \in BOOLEAN
      BY DEF Outcomes
    <3> HIDE DEF row, outs
    <3> QED BY <1>3, <2>4, <3>1
  <2> QED BY <2>1, <2>3, <2>4
<1>5. TypeOK'
  BY <1>1, <1>2, <1>4 DEF TypeOK
<1>6. OriginInv'
  BY <1>1, <1>2 DEF OriginInv
<1> QED BY <1>1, <1>5, <1>6 DEF ReplayInv, RowSound

\* Training, evaluation and a replay that is refused leave the table as it is.
LEMMA TableKeeps ==
  ASSUME ReplayInv, Reject \/ TrainRefused \/ Train \/ Evaluate \/ UNCHANGED vars
  PROVE  ReplayInv'
<1>1. /\ UNCHANGED <<pair, horizon, mode, updateSkill, origin, forecasts, rows, store>>
      /\ step' \in {"raised", "refused", "done"} \/ step' = step
  BY DEF Reject, TrainRefused, Train, Evaluate, vars, arguments
<1>2. TypeOK'
  BY <1>1 DEF ReplayInv, TypeOK
<1>3. OriginInv'
  BY <1>1 DEF ReplayInv, OriginInv, Predicted, Now
<1> QED BY <1>1, <1>2, <1>3 DEF ReplayInv, RowSound

-----------------------------------------------------------------------------
(***************************************************************************)
(* The order of the rows, and the split.                                   *)
(***************************************************************************)
\* The rows are in the order of their origins, and nothing is held out before the table
\* is complete.
OrderInv ==
  /\ \A i, j \in DOMAIN rows : i < j => rows[i].origin < rows[j].origin
  /\ step \in {"predict", "run"} => \A i \in DOMAIN rows : rows[i].origin < origin
  /\ step = "learn" => \A i \in DOMAIN rows : rows[i].origin =< origin
  /\ step = "prepare" => rows = <<>>
  /\ step # "done" => folds = NoFolds
  /\ TestedForward

\* Of an inhabited table at least one row is held out, and not more than there are.
LEMMA HeldOutRange ==
  ASSUME NEW n \in Nat \ {0}
  PROVE  HeldOut(n) \in 1..n
<1> DEFINE q == n \div TestShare
           r == n % TestShare
           up == 2 * r > TestShare \/ (2 * r = TestShare /\ q % 2 = 1)
           x == IF up THEN q + 1 ELSE q
<1>1. TestShare \in Nat /\ TestShare > 0
  BY ReplayAssumption
<1>2. q \in Nat /\ r \in 0..(TestShare - 1) /\ n = q * TestShare + r
  BY <1>1
<1>3. q =< q * TestShare /\ q * TestShare \in Nat
  <2>1. \A a, b \in Nat : b > 0 => a =< a * b /\ a * b \in Nat
    OBVIOUS
  <2> HIDE DEF q
  <2> QED BY <1>1, <1>2, <2>1
<1>4. q =< n
  <2> HIDE DEF q, r
  <2> QED BY <1>2, <1>3
<1>5. up => q + 1 =< n
  <2> SUFFICES ASSUME up PROVE q + 1 =< n
    OBVIOUS
  <2>1. r > 0
    <3> HIDE DEF q, r
    <3> QED BY <1>1, <1>2
  <2> HIDE DEF q, r
  <2> QED BY <1>2, <1>3, <2>1
<1>6. x \in Nat /\ x =< n
  <2> HIDE DEF q, up
  <2> QED BY <1>2, <1>4, <1>5
<1>7. HeldOut(n) = Max({1, x})
  BY DEF HeldOut
<1> HIDE DEF x
<1>8. Max({1, x}) \in {1, x} /\ 1 =< Max({1, x})
  <2> DEFINE T == {1, x}
  <2>1. n \in Int /\ T \in SUBSET Nat /\ T # {} /\ 1 \in T /\ \A y \in T : y =< n
    BY <1>6
  <2> HIDE DEF T
  <2>2. Max(T) \in T /\ 1 =< Max(T)
    BY <2>1, GreatestElement
  <2> QED BY <2>2 DEF T
<1> QED BY <1>6, <1>7, <1>8

\* The rows to learn from that come after the i-th.
Later(i) == {j \in Usable : j > i}

\* They are finitely many; fewer come after a later row, none after the last.
LEMMA LaterRows ==
  ASSUME ReplayInv
  PROVE  /\ Usable \in SUBSET Nat /\ IsFiniteSet(Usable) /\ Cardinality(Usable) \in Nat
         /\ Usable # {} => Cardinality(Usable) > 0
         /\ \A i \in Usable : Cardinality(Later(i)) \in Nat
         /\ \A i, j \in Usable : i =< j => Cardinality(Later(j)) =< Cardinality(Later(i))
         /\ Usable # {} => \E m \in Usable : Cardinality(Later(m)) = 0
<1>1. Len(rows) \in Nat /\ Usable \in SUBSET (1..Len(rows)) /\ Usable \in SUBSET Nat
  BY DEF ReplayInv, TypeOK, Usable
<1>2. IsFiniteSet(Usable)
  <2>1. IsFiniteSet(1..Len(rows))
    BY <1>1, FS_Interval
  <2> QED BY <1>1, <2>1, FS_Subset
<1>3. Cardinality(Usable) \in Nat /\ (Usable # {} => Cardinality(Usable) > 0)
  BY <1>2, FS_CardinalityType, FS_EmptySet
<1>4. \A i \in Usable : IsFiniteSet(Later(i)) /\ Cardinality(Later(i)) \in Nat
  <2> TAKE i \in Usable
  <2>1. Later(i) \in SUBSET Usable
    BY DEF Later
  <2>2. IsFiniteSet(Later(i))
    BY <1>2, <2>1, FS_Subset
  <2> QED BY <2>2, FS_CardinalityType
<1>5. ASSUME NEW i \in Usable, NEW j \in Usable, i =< j
      PROVE  Cardinality(Later(j)) =< Cardinality(Later(i))
  <2>1. \A k \in Usable : k > j => k > i
    BY <1>1, <1>5
  <2>2. Later(j) \in SUBSET Later(i)
    BY <2>1 DEF Later
  <2> QED BY <1>4, <2>2, FS_Subset
<1>6. ASSUME Usable # {} PROVE \E m \in Usable : Cardinality(Later(m)) = 0
  <2>1. Max(Usable) \in Usable /\ \A y \in Usable : y =< Max(Usable)
    <3>1. Len(rows) \in Int /\ \A y \in Usable : y =< Len(rows)
      BY <1>1
    <3> QED BY <1>1, <1>6, <3>1, GreatestElement
  <2>2. \A y \in Usable : ~(y > Max(Usable))
    <3>1. \A x, y \in Nat : y =< x => ~(y > x)
      OBVIOUS
    <3> QED BY <1>1, <2>1, <3>1
  <2>3. Later(Max(Usable)) = {}
    BY <2>2 DEF Later
  <2> QED BY <2>1, <2>3, FS_EmptySet
<1> QED BY <1>1, <1>2, <1>3, <1>4, <1>5, <1>6

\* Rows are added in the order of their origins, so sorting them changes nothing: both
\* orders count the later rows.
LEMMA OrdersAgree ==
  ASSUME ReplayInv, OrderInv
  PROVE  /\ InTable = [i \in Usable |-> Cardinality(Later(i))]
         /\ InTime = [i \in Usable |-> Cardinality(Later(i))]
<1> DEFINE After(i) == {j \in Usable : \/ rows[j].origin > rows[i].origin
                                       \/ rows[j].origin = rows[i].origin /\ j > i}
<1>1. Usable \subseteq DOMAIN rows /\ Usable \subseteq Nat /\ \A i \in Usable : rows[i].origin \in Nat
  BY LaterRows DEF Usable, ReplayInv, RowSound
<1>2. ASSUME NEW i \in Usable PROVE After(i) = Later(i)
  <2>1. ASSUME NEW j \in Usable
        PROVE  \/ rows[j].origin > rows[i].origin
               \/ rows[j].origin = rows[i].origin /\ j > i
               \/ ~(j > i)
    <3>1. /\ i < j => rows[i].origin < rows[j].origin
          /\ j < i => rows[j].origin < rows[i].origin
      BY <1>1 DEF OrderInv
    <3>2. i \in Nat /\ j \in Nat /\ rows[i].origin \in Nat /\ rows[j].origin \in Nat
      BY <1>1
    <3> QED BY <3>1, <3>2
  <2>2. \A j \in Usable : j > i => j \in After(i)
    BY <2>1
  <2>3. ASSUME NEW j \in After(i) PROVE j \in Usable /\ j > i
    <3>1. j \in Usable /\ rows[j].origin >= rows[i].origin /\ (rows[j].origin = rows[i].origin => j > i)
      BY <1>1, <2>3
    <3>2. /\ j < i => rows[j].origin < rows[i].origin
          /\ i \in Nat /\ j \in Nat /\ rows[i].origin \in Nat /\ rows[j].origin \in Nat
      BY <1>1, <3>1 DEF OrderInv
    <3> QED BY <3>1, <3>2
  <2> HIDE DEF After
  <2> QED BY <2>2, <2>3 DEF Later
<1>3. InTime = [i \in Usable |-> Cardinality(After(i))]
  BY DEF InTime
<1> HIDE DEF After
<1>4. InTime = [i \in Usable |-> Cardinality(Later(i))]
  BY <1>2, <1>3
<1> QED BY <1>4 DEF InTable, Later

\* A split of the rows a router learns from is forward, and tests at least one of them.
LEMMA FoldsForward ==
  ASSUME ReplayInv, OrderInv, Usable # {}, rows' = rows, NEW use, NEW after,
         after = InTable \/ after = InTime, folds' = ForwardFolds(use, after)
  PROVE  TestedForward'
<1> DEFINE n == Cardinality(Usable)
           h == HeldOut(n)
           test == {i \in Usable : after[i] < h}
<1>1. \A i \in Usable : after[i] = Cardinality(Later(i)) /\ after[i] \in Nat
  <2>1. after = [i \in Usable |-> Cardinality(Later(i))]
    BY OrdersAgree
  <2> QED BY <2>1, LaterRows
<1>2. folds'.train = Usable \ test /\ folds'.test = test
  BY DEF ForwardFolds
<1>3. n \in Nat \ {0}
  BY LaterRows
<1> HIDE DEF n
<1>4. h \in 1..n
  BY <1>3, HeldOutRange
<1> HIDE DEF h
<1>5. h \in Nat /\ h > 0
  BY <1>3, <1>4
<1>6. \A i \in test : i \in Usable /\ after[i] < h
  OBVIOUS
<1>7. \A i \in Usable \ test : ~(after[i] < h)
  OBVIOUS
<1>8. test # {}
  <2>1. PICK m \in Usable : Cardinality(Later(m)) = 0
    BY LaterRows
  <2> QED BY <1>1, <1>5, <2>1
<1>9. test \subseteq Usable
  OBVIOUS
<1> HIDE DEF test
<1>10. ASSUME NEW i \in Usable \ test, NEW j \in test PROVE rows[i].origin < rows[j].origin
  <2>1. i \in Usable /\ j \in Usable /\ i \in Nat /\ j \in Nat /\ i \in DOMAIN rows /\ j \in DOMAIN rows
    BY <1>6, LaterRows DEF Usable
  <2>2. after[j] < h /\ ~(after[i] < h) /\ after[i] \in Nat /\ after[j] \in Nat
    BY <1>1, <1>6, <1>7, <2>1
  <2>3. j =< i => after[i] =< after[j]
    BY <1>1, <2>1, LaterRows
  <2>4. i < j
    BY <1>5, <2>1, <2>2, <2>3
  <2> QED BY <2>1, <2>4 DEF OrderInv
<1>11. Usable' = Usable
  BY DEF Usable
<1>12. folds'.train \cup folds'.test = Usable'
  BY <1>2, <1>9, <1>11
<1> QED BY <1>2, <1>8, <1>10, <1>12 DEF TestedForward

\* Every step keeps the order.
LEMMA OrderKeeps ==
  ASSUME ReplayInv, OrderInv, [Next]_vars
  PROVE  OrderInv'
<1>1. CASE Reject \/ TrainRefused \/ UNCHANGED vars
  <2>1. /\ UNCHANGED <<rows, folds, origin>>
        /\ step' = step \/ (step' \in {"raised", "refused"} /\ step # "done")
    BY <1>1 DEF Reject, TrainRefused, vars
  <2>2. TestedForward'
    BY <2>1 DEF OrderInv, TestedForward, Usable
  <2> QED BY <2>1, <2>2 DEF OrderInv
<1>2. CASE Prepare
  <2>1. /\ UNCHANGED <<rows, folds>> /\ rows = <<>> /\ folds = NoFolds
        /\ step' \in {"table", "predict"}
    BY <1>2 DEF Prepare, OrderInv
  <2>2. TestedForward'
    BY <2>1 DEF OrderInv, TestedForward, Usable
  <2>3. DOMAIN rows' = {}
    BY <2>1
  <2> QED BY <2>1, <2>2, <2>3 DEF OrderInv
<1>3. CASE Predict
  <2>1. UNCHANGED <<rows, folds, origin>> /\ step = "predict" /\ step' = "run"
    BY <1>3 DEF Predict
  <2>2. TestedForward'
    BY <2>1 DEF OrderInv, TestedForward, Usable
  <2> QED BY <2>1, <2>2 DEF OrderInv
<1>4. CASE RunPipeline
  <2>1. /\ step = "run" /\ step' = "learn" /\ UNCHANGED <<folds, origin>> /\ TypeOK
        /\ folds = NoFolds /\ \A i \in DOMAIN rows : rows[i].origin < origin
    BY <1>4 DEF RunPipeline, OrderInv, ReplayInv
  <2>2. /\ Len(rows) \in Nat /\ DOMAIN rows = 1..Len(rows) /\ DOMAIN rows' = 1..(Len(rows) + 1)
        /\ \A i \in DOMAIN rows : rows'[i] = rows[i]
        /\ rows'[Len(rows) + 1].origin = origin
    BY <1>4, <2>1, RowAdded
  <2>3. origin \in Nat
    BY <2>1 DEF ReplayInv, OriginInv
  <2>4. \A i, j \in DOMAIN rows' : i < j => rows'[i].origin < rows'[j].origin
    BY <2>1, <2>2 DEF OrderInv
  <2>5. \A i \in DOMAIN rows' : rows'[i].origin =< origin
    <3>1. \A i \in DOMAIN rows : rows[i].origin \in Nat
      BY DEF ReplayInv, RowSound
    <3> QED BY <2>1, <2>2, <2>3, <3>1
  <2>6. TestedForward'
    <3>1. folds'.train = {} /\ folds'.use = "none"
      BY <2>1 DEF NoFolds
    <3> QED BY <3>1 DEF TestedForward
  <2> QED BY <2>1, <2>4, <2>5, <2>6 DEF OrderInv
<1>5. CASE Learn
  <2>1. /\ step = "learn" /\ step' \in {"predict", "table"} /\ UNCHANGED <<rows, folds>>
        /\ origin' = origin + StepTicks
    BY <1>5 DEF Learn
  <2>2. TestedForward'
    BY <2>1 DEF OrderInv, TestedForward, Usable
  <2>3. origin \in Nat /\ StepTicks \in Nat /\ StepTicks > 0
    BY <2>1, ReplayAssumption DEF ReplayInv, OriginInv
  <2>4. \A i \in DOMAIN rows : rows[i].origin \in Nat /\ rows[i].origin =< origin
    BY <2>1 DEF ReplayInv, RowSound, OrderInv
  <2>5. \A i \in DOMAIN rows' : rows'[i].origin < origin'
    BY <2>1, <2>3, <2>4
  <2> QED BY <2>1, <2>2, <2>5 DEF OrderInv
<1>6. CASE Train
  <2>1. /\ step' = "done" /\ rows' = rows /\ Cardinality(Usable) >= Max({1, MinTrainingRows})
        /\ \/ folds' = [use |-> "router", train |-> Usable, test |-> {}]
           \/ folds' = ForwardFolds("split router", InTable)
    BY <1>6 DEF Train
  <2>2. Usable # {}
    <3> DEFINE T == {1, MinTrainingRows}
    <3>1. /\ T \in SUBSET Nat /\ T # {} /\ 1 \in T /\ 1 + MinTrainingRows \in Int
          /\ \A y \in T : y =< 1 + MinTrainingRows
      BY ReplayAssumption
    <3> HIDE DEF T
    <3>2. Max(T) \in Nat /\ 1 =< Max(T)
      BY <3>1, GreatestElement
    <3>3. Cardinality(Usable) \in Nat /\ Cardinality(Usable) >= Max(T)
      BY <2>1, LaterRows DEF T
    <3> QED BY <3>2, <3>3, FS_EmptySet
  <2>3. TestedForward'
    <3>1. CASE folds' = ForwardFolds("split router", InTable)
      BY <2>1, <2>2, <3>1, FoldsForward
    <3>2. CASE folds' = [use |-> "router", train |-> Usable, test |-> {}]
      <4>1. Usable' = Usable
        BY <2>1 DEF Usable
      <4> QED BY <3>2, <4>1 DEF TestedForward
    <3> QED BY <2>1, <3>1, <3>2
  <2> QED BY <2>1, <2>3 DEF OrderInv
<1>7. CASE Evaluate
  <2>1. /\ step' = "done" /\ rows' = rows
        /\ folds' = IF Cardinality(Usable) < MinPolicyRows THEN [NoFolds EXCEPT !.use = "too few"]
                    ELSE ForwardFolds("policies", InTime)
    BY <1>7 DEF Evaluate
  <2>2. TestedForward'
    <3>1. CASE Cardinality(Usable) < MinPolicyRows
      <4>1. folds'.train = {} /\ folds'.use = "too few"
        BY <2>1, <3>1 DEF NoFolds
      <4> QED BY <4>1 DEF TestedForward
    <3>2. CASE ~(Cardinality(Usable) < MinPolicyRows)
      <4>1. MinPolicyRows \in Nat \ {0} /\ Cardinality(Usable) \in Nat
        BY ReplayAssumption, LaterRows
      <4>2. Usable # {}
        BY <3>2, <4>1, FS_EmptySet
      <4>3. folds' = ForwardFolds("policies", InTime)
        BY <2>1, <3>2
      <4> QED BY <2>1, <4>2, <4>3, FoldsForward
    <3> QED BY <3>1, <3>2
  <2> QED BY <2>1, <2>2 DEF OrderInv
<1> QED BY <1>1, <1>2, <1>3, <1>4, <1>5, <1>6, <1>7 DEF Next

-----------------------------------------------------------------------------
(***************************************************************************)
(* The store and the rows.                                                 *)
(***************************************************************************)
Bucket == HorizonBucket(horizon)

\* The row at hand has the errors of the experts that forecast.
RowAtHand ==
  /\ step \in {"run", "learn"} =>
       /\ mode = "policy" => forecasts = <<>>
       /\ mode # "policy" => DOMAIN forecasts = Experts
  /\ step = "learn" =>
       /\ Len(rows) > 0
       /\ rows[Len(rows)].actual # None => DOMAIN rows[Len(rows)].errors = Predicted

TaughtIn(r) == {i \in Taught : rows[i].regime = r}
AllMeasured(e) == \A i \in Taught : e \in DOMAIN rows[i].errors
Between(x, T) == \E a, b \in T : x \in a..b

\* Every record counts the taught rows of its level, and its mean is between two errors
\* that were measured as long as its expert has not failed.
SkillInv ==
  \A e \in Experts, r \in Regimes :
    /\ RecordOf(store, <<e, Station, Bucket, r>>).n = Cardinality(TaughtIn(r))
    /\ \A k \in Keys(e, Station, Bucket, "*") : RecordOf(store, k).n = Cardinality(Taught)
    /\ AllMeasured(e) => \A k \in Keys(e, Station, Bucket, r) :
         RecordOf(store, k).n > 0 => Between(RecordOf(store, k).mae, Measured(e))

\* Taught rows are rows, and the errors measured of an expert are numbers.
LEMMA TaughtRows ==
  ASSUME ReplayInv
  PROVE  /\ rows \in Seq(ToSet(rows)) /\ Len(rows) \in Nat /\ DOMAIN rows = 1..Len(rows)
         /\ Taught \in SUBSET (1..Len(rows)) /\ IsFiniteSet(Taught)
         /\ \A e : Measured(e) \in SUBSET Nat
<1>1. rows \in Seq(ToSet(rows)) /\ Len(rows) \in Nat /\ DOMAIN rows = 1..Len(rows)
  BY DEF ReplayInv, TypeOK
<1>2. Taught \in SUBSET (1..Len(rows))
  BY <1>1 DEF Taught
<1>3. IsFiniteSet(Taught)
  <2>1. IsFiniteSet(1..Len(rows))
    BY <1>1, FS_Interval
  <2> QED BY <1>2, <2>1, FS_Subset
<1>4. ASSUME NEW e PROVE Measured(e) \in SUBSET Nat
  <2>1. ASSUME NEW i \in Taught, e \in DOMAIN rows[i].errors
        PROVE  Apart(0, rows[i].errors[e]) \in Nat
    <3>1. rows[i].errors[e] \in Int
      BY <1>1, <1>2, <2>1 DEF ReplayInv, RowSound
    <3> QED BY <3>1 DEF Apart
  <2> QED BY <2>1 DEF Measured
<1> QED BY <1>1, <1>2, <1>3, <1>4

\* A record without samples has no mean yet.
LEMMA RecordType ==
  ASSUME TypeOK, NEW k
  PROVE  /\ RecordOf(store, k).n \in Nat
         /\ RecordOf(store, k).n = 0 => RecordOf(store, k).mae = 0
BY DEF RecordOf, NoRecord, TypeOK

\* Learning updates the records of the keys of an expert, and no other of its records.
LEMMA LearntRecord ==
  ASSUME NEW st, NEW bucket, NEW regime, NEW outs, NEW e \in DOMAIN outs, NEW k, k[1] = e
  PROVE  RecordOf(Learnt(st, Station, bucket, regime, outs), k) =
           IF k \in Keys(e, Station, bucket, regime) THEN Updated(RecordOf(st, k), outs[e])
           ELSE RecordOf(st, k)
<1> DEFINE touched == UNION {Keys(x, Station, bucket, regime) : x \in DOMAIN outs}
<1>1. \A x : \A key \in Keys(x, Station, bucket, regime) : key[1] = x
  BY DEF Keys, Levels
<1>2. k \in touched <=> k \in Keys(e, Station, bucket, regime)
  BY <1>1
<1> DEFINE learnt == Learnt(st, Station, bucket, regime, outs)
<1>3. /\ DOMAIN learnt = DOMAIN st \cup touched
      /\ \A key \in DOMAIN st \cup touched :
           learnt[key] =
             IF key \in touched THEN Updated(RecordOf(st, key), outs[key[1]]) ELSE st[key]
  BY DEF Learnt
<1> HIDE DEF touched, learnt
<1>4. RecordOf(learnt, k) =
        IF k \in touched THEN Updated(RecordOf(st, k), outs[e]) ELSE RecordOf(st, k)
  <2>1. CASE k \in touched
    BY <1>3, <2>1 DEF RecordOf
  <2>2. CASE k \notin touched /\ k \in DOMAIN st
    BY <1>3, <2>2 DEF RecordOf
  <2>3. CASE k \notin touched /\ k \notin DOMAIN st
    BY <1>3, <2>3 DEF RecordOf
  <2> QED BY <2>1, <2>2, <2>3
<1> QED BY <1>2, <1>4 DEF learnt

\* The keys of an expert: the one of a regime and three coarser ones.
LEMMA KeysOf ==
  ASSUME NEW e, NEW r
  PROVE  /\ Keys(e, Station, Bucket, r) =
              {<<e, Station, Bucket, r>>, <<e, Station, Bucket, "*">>,
               <<e, "*", Bucket, "*">>, <<e, "*", "*", "*">>}
         /\ \A k \in Keys(e, Station, Bucket, r) : k[1] = e
<1>1. 1..4 = {1, 2, 3, 4}
  OBVIOUS
<1> DEFINE levels == Levels(e, Station, Bucket, r)
<1>2. /\ levels[1] = <<e, Station, Bucket, r>> /\ levels[2] = <<e, Station, Bucket, "*">>
      /\ levels[3] = <<e, "*", Bucket, "*">> /\ levels[4] = <<e, "*", "*", "*">>
  BY DEF Levels
<1> HIDE DEF levels
<1>3. Keys(e, Station, Bucket, r) = {levels[i] : i \in 1..4}
  BY DEF Keys, levels
<1> QED BY <1>1, <1>2, <1>3

\* While nothing is taught, the invariant stays.
LEMMA SkillStays ==
  ASSUME SkillInv, UNCHANGED <<store, horizon, Taught>>, \A i \in Taught : rows'[i] = rows[i]
  PROVE  SkillInv'
<1>1. \A r : TaughtIn(r)' = TaughtIn(r)
  BY DEF TaughtIn
<1>2. \A e : AllMeasured(e)' = AllMeasured(e) /\ Measured(e)' = Measured(e)
  BY DEF AllMeasured, Measured
<1>3. Bucket' = Bucket
  BY DEF Bucket
<1> QED BY <1>1, <1>2, <1>3 DEF SkillInv

\* The row that is taught adds its outcomes to every record it informs.
LEMMA SkillLearns ==
  ASSUME ReplayInv, RowAtHand, SkillInv, Learn
  PROVE  SkillInv'
<1> DEFINE last == Len(rows)
           row == rows[last]
           teach == updateSkill /\ mode = "exhaustive" /\ row.actual # None
           outs == Outcomes(row)
<1>1. /\ UNCHANGED <<horizon, mode, updateSkill, forecasts, rows>> /\ step = "learn" /\ step' # "learn"
      /\ TypeOK /\ last \in Nat /\ last > 0 /\ last \in DOMAIN rows /\ DOMAIN rows = 1..last
  BY TaughtRows DEF Learn, arguments, RowAtHand, ReplayInv
<1>2. /\ mode = "policy" => forecasts = <<>>
      /\ mode # "policy" => DOMAIN forecasts = Experts
      /\ mode \in {"policy", "exhaustive"}
      /\ row.actual # None => DOMAIN row.errors = Predicted
  BY <1>1 DEF RowAtHand, TypeOK
<1>3. Last(rows) = row
  BY DEF Last
<1>4. store' = IF teach THEN Learnt(store, Station, Bucket, row.regime, outs) ELSE store
  <2>1. forecasts # <<>> <=> mode = "exhaustive"
    <3>1. CASE mode = "policy"
      BY <1>2, <3>1
    <3>2. CASE mode = "exhaustive"
      <4>1. DOMAIN forecasts # {}
        BY <1>2, <3>2 DEF Experts
      <4>2. DOMAIN <<>> = {}
        OBVIOUS
      <4> QED BY <3>2, <4>1, <4>2
    <3> QED BY <1>2, <3>1, <3>2
  <2> HIDE DEF row, outs
  <2>2. store' = IF updateSkill /\ row.actual # None /\ forecasts # <<>>
                 THEN Learnt(store, Station, HorizonBucket(horizon), row.regime, Outcomes(row)) ELSE store
    BY <1>3 DEF Learn
  <2> QED BY <2>1, <2>2 DEF Bucket, outs
<1>5. /\ last \notin Taught /\ Taught \in SUBSET (1..last) /\ IsFiniteSet(Taught)
      /\ Taught' = IF teach THEN Taught \cup {last} ELSE Taught
  <2>1. Taught \in SUBSET (1..last) /\ IsFiniteSet(Taught)
    BY TaughtRows
  <2>2. last \notin Taught
    BY <1>1 DEF Taught
  <2>3. \A i \in DOMAIN rows : i < last \/ i = last
    BY <1>1
  <2>4. Taught' = {i \in DOMAIN rows : updateSkill /\ mode = "exhaustive" /\ rows[i].actual # None}
    BY <1>1 DEF Taught
  <2>5. Taught = {i \in DOMAIN rows : updateSkill /\ mode = "exhaustive" /\ rows[i].actual # None
                                      /\ i < last}
    BY <1>1 DEF Taught
  <2>6. last \in Taught' <=> teach
    BY <1>1, <2>4
  <2>7. \A i : i # last => (i \in Taught' <=> i \in Taught)
    BY <2>3, <2>4, <2>5
  <2>8. ASSUME teach PROVE Taught' = Taught \cup {last}
    <3> HIDE DEF teach, last
    <3>1. \A i : i \in Taught' <=> i \in Taught \cup {last}
      BY <2>2, <2>6, <2>7, <2>8
    <3> DEFINE later == Taught'
               both == Taught \cup {last}
    <3>2. \A i : i \in later <=> i \in both
      BY <3>1
    <3>3. later = both
      <4> HIDE DEF later, both
      <4> QED BY <3>2, Zenon
    <3> QED BY <3>3
  <2>9. ASSUME ~teach PROVE Taught' = Taught
    <3> HIDE DEF teach, last
    <3> DEFINE later == Taught'
               now == Taught
    <3>1. \A i : i \in later <=> i \in now
      BY <2>2, <2>6, <2>7, <2>9
    <3>2. later = now
      <4> HIDE DEF later, now
      <4> QED BY <3>1, Zenon
    <3> QED BY <3>2
  <2> QED BY <2>1, <2>2, <2>8, <2>9
<1>6. CASE ~teach
  <2>1. UNCHANGED <<store, horizon, Taught>> /\ \A i \in Taught : rows'[i] = rows[i]
    BY <1>1, <1>4, <1>5, <1>6
  <2> QED BY <2>1, SkillStays
<1>7. CASE teach
  <2>1. /\ store' = Learnt(store, Station, Bucket, row.regime, outs) /\ Taught' = Taught \cup {last}
        /\ row.regime \in Regimes /\ Bucket' = Bucket /\ DOMAIN forecasts = Experts
        /\ DOMAIN row.errors = Predicted
    BY <1>1, <1>2, <1>4, <1>5, <1>7 DEF ReplayInv, RowSound, Bucket
  <2>2. /\ DOMAIN outs = Experts
        /\ \A e \in Experts : /\ outs[e].failed <=> ~forecasts[e]
                              /\ forecasts[e] => outs[e].error = Apart(0, row.errors[e])
    BY <2>1 DEF Outcomes
  <2> HIDE DEF outs, row, teach, last
  <2>3. ASSUME NEW e \in Experts, NEW k, k[1] = e
        PROVE  RecordOf(store', k) =
                 IF k \in Keys(e, Station, Bucket, row.regime)
                 THEN Updated(RecordOf(store, k), outs[e]) ELSE RecordOf(store, k)
    BY <2>1, <2>2, <2>3, LearntRecord
  <2>4. \A rec, out : Updated(rec, out).n = rec.n + 1
    BY DEF Updated
  <2>5. Cardinality(Taught') = Cardinality(Taught) + 1
    BY <1>5, <2>1, FS_AddElement
  <2>6. ASSUME NEW r \in Regimes
        PROVE  Cardinality(TaughtIn(r)') =
                 IF r = row.regime THEN Cardinality(TaughtIn(r)) + 1 ELSE Cardinality(TaughtIn(r))
    <3>1. TaughtIn(r)' = {i \in Taught \cup {last} : rows[i].regime = r}
      BY <1>1, <2>1 DEF TaughtIn
    <3>2. last \notin TaughtIn(r) /\ IsFiniteSet(TaughtIn(r))
      BY <1>5, FS_Subset DEF TaughtIn
    <3>3. CASE r = row.regime
      <4>1. TaughtIn(r)' = TaughtIn(r) \cup {last}
        BY <3>1, <3>3 DEF TaughtIn, row
      <4> QED BY <3>2, <3>3, <4>1, FS_AddElement
    <3>4. CASE r # row.regime
      <4>1. TaughtIn(r)' = TaughtIn(r)
        BY <3>1, <3>4 DEF TaughtIn, row
      <4> QED BY <3>4, <4>1
    <3> QED BY <3>3, <3>4
  <2>7. ASSUME NEW e \in Experts, NEW r \in Regimes
        PROVE  /\ RecordOf(store', <<e, Station, Bucket, r>>).n = Cardinality(TaughtIn(r)')
               /\ \A k \in Keys(e, Station, Bucket, "*") : RecordOf(store', k).n = Cardinality(Taught')
    <3>1. <<e, Station, Bucket, r>> \in Keys(e, Station, Bucket, row.regime) <=> r = row.regime
      <4>1. r # "*" /\ Station # "*"
        BY DEF Regimes, Station
      <4> QED BY <4>1, KeysOf
    <3>2. RecordOf(store, <<e, Station, Bucket, r>>).n = Cardinality(TaughtIn(r))
      BY DEF SkillInv
    <3>3. RecordOf(store', <<e, Station, Bucket, r>>).n = Cardinality(TaughtIn(r)')
      <4> DEFINE k == <<e, Station, Bucket, r>>
      <4>1. k[1] = e
        OBVIOUS
      <4> HIDE DEF k
      <4>2. RecordOf(store', k) =
              IF r = row.regime THEN Updated(RecordOf(store, k), outs[e]) ELSE RecordOf(store, k)
        BY <2>3, <3>1, <4>1 DEF k
      <4> QED BY <2>4, <2>6, <3>2, <4>2 DEF k
    <3>4. ASSUME NEW k \in Keys(e, Station, Bucket, "*")
          PROVE  RecordOf(store', k).n = Cardinality(Taught')
      <4>1. k \in Keys(e, Station, Bucket, row.regime) /\ k[1] = e
        BY KeysOf
      <4>2. RecordOf(store', k) = Updated(RecordOf(store, k), outs[e])
        BY <2>3, <4>1
      <4>3. RecordOf(store, k).n = Cardinality(Taught)
        BY DEF SkillInv
      <4> QED BY <2>4, <2>5, <4>2, <4>3
    <3> QED BY <3>3, <3>4
  <2>8. ASSUME NEW e \in Experts, NEW r \in Regimes, AllMeasured(e)',
               NEW k \in Keys(e, Station, Bucket, r), RecordOf(store', k).n > 0
        PROVE  Between(RecordOf(store', k).mae, Measured(e)')
    <3> DEFINE d == Apart(0, row.errors[e])
               rec == RecordOf(store, k)
    <3>1. /\ AllMeasured(e) /\ e \in DOMAIN row.errors /\ d \in Nat
          /\ Measured(e)' = Measured(e) \cup {d} /\ Measured(e) \in SUBSET Nat
      <4>1. \A i \in Taught \cup {last} : e \in DOMAIN rows[i].errors
        BY <1>1, <2>1, <2>8 DEF AllMeasured
      <4>2. Measured(e)' = {Apart(0, rows[i].errors[e]) : i \in Taught \cup {last}}
        BY <1>1, <2>1, <4>1 DEF Measured
      <4>3. Measured(e) = {Apart(0, rows[i].errors[e]) : i \in Taught}
        BY <4>1 DEF Measured
      <4>4. e \in DOMAIN row.errors
        BY <4>1 DEF row
      <4>5. row.errors[e] \in Int
        BY <1>1, <4>4 DEF ReplayInv, RowSound, row
      <4>6. d \in Nat
        <5> HIDE DEF row
        <5> QED BY <4>5 DEF Apart
      <4> QED BY <4>1, <4>2, <4>3, <4>4, <4>6, TaughtRows DEF AllMeasured, row
    <3>2. forecasts[e] /\ ~outs[e].failed /\ outs[e].error = d
      BY <2>1, <2>2, <3>1 DEF Predicted
    <3>3. rec.n \in Nat /\ (rec.n = 0 => rec.mae = 0)
      BY <1>1, RecordType
    <3>4. rec.n > 0 => Between(rec.mae, Measured(e))
      BY <3>1 DEF SkillInv
    <3>5. k[1] = e
      BY KeysOf
    <3> HIDE DEF d, rec
    <3>6. CASE k \notin Keys(e, Station, Bucket, row.regime)
      <4>1. RecordOf(store', k) = rec
        BY <2>3, <3>5, <3>6 DEF rec
      <4> QED BY <2>8, <3>1, <3>4, <4>1 DEF Between
    <3>7. CASE k \in Keys(e, Station, Bucket, row.regime)
      <4> DEFINE share == IF rec.n > 0 THEN Whole - Decay ELSE Whole
      <4>1. RecordOf(store', k).mae = Blend(share, rec.mae, d)
        <5>1. RecordOf(store', k) = Updated(rec, outs[e])
          BY <2>3, <3>5, <3>7 DEF rec
        <5> QED BY <3>2, <5>1 DEF Updated
      <4>2. CASE rec.n = 0
        <5>1. share = Whole /\ rec.mae = 0 /\ Whole \in Nat /\ Whole > 0
          BY <3>3, <4>2, SkillAssumption
        <5>2. Blend(Whole, 0, d) = d
          BY <3>1, <5>1 DEF Blend
        <5> QED BY <3>1, <4>1, <5>1, <5>2 DEF Between
      <4>3. CASE rec.n > 0
        <5>1. PICK a \in Measured(e), b \in Measured(e) : rec.mae \in a..b
          BY <3>4, <4>3 DEF Between
        <5> DEFINE lo == IF d < a THEN d ELSE a
                   hi == IF b < d THEN d ELSE b
        <5>2. a \in Nat /\ b \in Nat /\ d \in Nat
          BY <3>1
        <5>3. /\ lo \in Nat /\ hi \in Nat /\ rec.mae \in lo..hi /\ d \in lo..hi
              /\ lo \in Measured(e)' /\ hi \in Measured(e)'
          BY <3>1, <5>1, <5>2
        <5>4. share \in 0..Whole
          BY SkillAssumption
        <5> HIDE DEF lo, hi, share
        <5>5. Blend(share, rec.mae, d) \in lo..hi
          BY <5>3, <5>4, BlendIsBetween
        <5> QED BY <4>1, <5>3, <5>5 DEF Between
      <4> QED BY <3>3, <4>2, <4>3
    <3> QED BY <3>6, <3>7
  <2> QED BY <2>1, <2>7, <2>8 DEF SkillInv
<1> QED BY <1>6, <1>7

\* The row at hand is the one the forecasts were put into.
LEMMA RowAtHandKeeps ==
  ASSUME ReplayInv, RowAtHand, [Next]_vars
  PROVE  RowAtHand'
<1>1. CASE Predict
  <2>1. /\ mode' = mode /\ step' = "run"
        /\ forecasts' = IF mode = "policy" THEN <<>> ELSE [e \in Experts |-> Forecasts(e, pair, Now)]
    BY <1>1 DEF Predict, arguments
  <2>2. mode # "policy" => DOMAIN forecasts' = Experts
    BY <2>1
  <2> QED BY <2>1, <2>2 DEF RowAtHand
<1>2. CASE RunPipeline
  <2>1. step = "run" /\ step' = "learn" /\ UNCHANGED <<mode, forecasts>> /\ TypeOK
    BY <1>2 DEF RunPipeline, arguments, ReplayInv
  <2>2. /\ Len(rows) \in Nat /\ Len(rows') = Len(rows) + 1
        /\ rows'[Len(rows) + 1].actual = Actual
        /\ DOMAIN rows'[Len(rows) + 1].errors = IF Actual = None THEN {} ELSE Predicted
    BY <1>2, <2>1, RowAdded
  <2>3. Predicted' = Predicted
    BY <2>1 DEF Predicted
  <2> QED BY <2>1, <2>2, <2>3 DEF RowAtHand
<1>3. CASE Reject \/ Prepare \/ Learn \/ TrainRefused \/ Train \/ Evaluate
  <2>1. step' \notin {"run", "learn"}
    BY <1>3 DEF Reject, Prepare, Learn, TrainRefused, Train, Evaluate
  <2> QED BY <2>1 DEF RowAtHand
<1>4. CASE UNCHANGED vars
  BY <1>4 DEF vars, RowAtHand, Predicted
<1> QED BY <1>1, <1>2, <1>3, <1>4 DEF Next

\* Every step keeps the store in line with the rows.
LEMMA SkillKeeps ==
  ASSUME ReplayInv, RowAtHand, SkillInv, [Next]_vars
  PROVE  SkillInv'
<1>1. CASE Learn
  BY <1>1, SkillLearns
<1>2. CASE RunPipeline
  <2>1. /\ step = "run" /\ step' = "learn" /\ TypeOK
        /\ UNCHANGED <<mode, updateSkill, horizon, store>>
    BY <1>2 DEF RunPipeline, arguments, ReplayInv
  <2>2. /\ Len(rows) \in Nat /\ Len(rows') = Len(rows) + 1
        /\ DOMAIN rows = 1..Len(rows) /\ DOMAIN rows' = 1..(Len(rows) + 1)
        /\ \A i \in DOMAIN rows : rows'[i] = rows[i]
    BY <1>2, <2>1, RowAdded
  <2>3. \A i : i \in DOMAIN rows' /\ i < Len(rows') <=> i \in DOMAIN rows
    BY <2>2
  <2>4. Taught = {i \in DOMAIN rows : updateSkill /\ mode = "exhaustive" /\ rows[i].actual # None}
    BY <2>1 DEF Taught
  <2>5. Taught' = {i \in DOMAIN rows' : /\ updateSkill /\ mode = "exhaustive" /\ rows'[i].actual # None
                                        /\ i < Len(rows')}
    BY <2>1 DEF Taught
  <2>6. \A i : i \in Taught' <=> i \in Taught
    BY <2>2, <2>3, <2>4, <2>5
  <2>7. Taught' = Taught /\ \A i \in Taught : rows'[i] = rows[i]
    <3> DEFINE later == Taught'
               now == Taught
    <3>1. later = now
      <4>1. \A i : i \in later <=> i \in now
        BY <2>6
      <4> HIDE DEF later, now
      <4> QED BY <4>1, Zenon
    <3> QED BY <2>2, <2>4, <3>1
  <2> QED BY <2>1, <2>7, SkillStays
<1>3. CASE Reject \/ Prepare \/ Predict \/ TrainRefused \/ Train \/ Evaluate \/ UNCHANGED vars
  <2>1. /\ UNCHANGED <<mode, updateSkill, horizon, store, rows>>
        /\ step = "learn" <=> step' = "learn"
    BY <1>3 DEF Reject, Prepare, Predict, TrainRefused, Train, Evaluate, vars, arguments
  <2>2. UNCHANGED Taught
    BY <2>1 DEF Taught
  <2> QED BY <2>1, <2>2, SkillStays
<1> QED BY <1>1, <1>2, <1>3 DEF Next

\* A finite set of numbers is bounded: a smallest subset that is not has an element more
\* than one that is.
LEMMA FiniteIsBounded ==
  ASSUME NEW T \in SUBSET Nat, IsFiniteSet(T)
  PROVE  \E b \in Nat : \A y \in T : y =< b
<1> DEFINE Bounded(S) == \E b \in Nat : \A y \in S : y =< b
           sizes == {n \in Nat : \E S \in SUBSET T : Cardinality(S) = n /\ ~Bounded(S)}
<1> SUFFICES ASSUME ~Bounded(T) PROVE FALSE
  OBVIOUS
<1>1. \A S \in SUBSET T : IsFiniteSet(S) /\ Cardinality(S) \in Nat
  BY FS_Subset, FS_CardinalityType
<1>2. Cardinality(T) \in sizes /\ sizes \in SUBSET Nat
  BY <1>1
<1>3. Min(sizes) \in sizes /\ \A m \in sizes : Min(sizes) =< m
  <2> HIDE DEF sizes
  <2> QED BY <1>2, LeastElement
<1>4. PICK S \in SUBSET T : Cardinality(S) = Min(sizes) /\ ~Bounded(S)
  BY <1>3
<1>5. PICK x \in S : TRUE
  <2>1. 0 \in Nat
    OBVIOUS
  <2> QED BY <1>4, <2>1
<1> DEFINE rest == S \ {x}
<1>6. rest \in SUBSET T /\ Cardinality(rest) = Cardinality(S) - 1 /\ Cardinality(rest) \in Nat
  <2>1. rest \in SUBSET T
    OBVIOUS
  <2>2. Cardinality(rest) = Cardinality(S) - 1
    BY <1>1, <1>5, FS_RemoveElement
  <2> HIDE DEF rest
  <2> QED BY <1>1, <2>1, <2>2
<1>7. Cardinality(rest) \notin sizes
  <2> HIDE DEF rest, sizes
  <2>1. Min(sizes) \in Nat
    BY <1>2, <1>3
  <2> QED BY <1>3, <1>4, <1>6, <2>1
<1>8. Bounded(rest)
  <2> HIDE DEF rest, Bounded
  <2> QED BY <1>6, <1>7
<1>9. PICK b \in Nat : \A y \in rest : y =< b
  BY <1>8
<1>10. b + x \in Nat /\ \A y \in S : y =< b + x
  <2>1. x \in Nat /\ \A y \in S : y \in Nat /\ (y = x \/ y =< b)
    BY <1>9
  <2> QED BY <2>1
<1> QED BY <1>4, <1>10

\* What is measured of an expert, with its prior, has a least and a greatest value.
LEMMA KnownRange ==
  ASSUME ReplayInv, NEW e \in Experts, AllMeasured(e),
         NEW known, known = {Prior[e]} \cup Measured(e)
  PROVE  /\ Min(known) \in Nat /\ Max(known) \in Nat
         /\ \A y \in known : y \in Min(known)..Max(known)
<1>1. Prior[e] \in Nat /\ known \in SUBSET Nat /\ known # {}
  BY TaughtRows, ReplayAssumption
<1>2. IsFiniteSet(known)
  <2> DEFINE Err(i) == Apart(0, rows[i].errors[e])
             errs == {Err(i) : i \in Taught}
  <2>1. IsFiniteSet(Taught)
    BY TaughtRows
  <2>2. Measured(e) = errs
    BY DEF AllMeasured, Measured
  <2>3. IsFiniteSet(errs)
    <3> DEFINE f == [i \in Taught |-> Err(i)]
    <3>1. f \in Surjection(Taught, errs)
      <4> HIDE DEF Err
      <4> QED BY DEF Surjection
    <3> HIDE DEF f, errs
    <3> QED BY <2>1, <3>1, FS_Surjection
  <2>4. IsFiniteSet({Prior[e]}) 
    BY FS_Singleton
  <2> HIDE DEF errs
  <2> QED BY <2>2, <2>3, <2>4, FS_Union
<1>3. PICK b \in Nat : \A y \in known : y =< b
  BY <1>1, <1>2, FiniteIsBounded
<1>4. Min(known) \in known /\ \A y \in known : Min(known) =< y
  BY <1>1, LeastElement
<1>5. Max(known) \in known /\ \A y \in known : y =< Max(known)
  <2>1. b \in Int /\ known \in SUBSET Nat /\ known # {} /\ \A y \in known : y =< b
    BY <1>1, <1>3
  <2> QED BY <2>1, GreatestElement
<1> QED BY <1>1, <1>4, <1>5

\* The skill an expert is credited with is between its prior and what was measured.
LEMMA EstimateBetween ==
  ASSUME ReplayInv, SkillInv, NEW e \in Experts, NEW r \in Regimes, AllMeasured(e),
         NEW known, known = {Prior[e]} \cup Measured(e)
  PROVE  Estimate(store, e, Station, horizon, r).mae \in Min(known)..Max(known)
<1> DEFINE lo == Min(known)
           hi == Max(known)
           levels == Levels(e, Station, Bucket, r)
           Held(i) == RecordOf(store, levels[i])
           data == {i \in 1..4 : Held(i).n > 0}
           enough == {i \in data : Held(i).n >= SkillSamples}
           First(S) == CHOOSE i \in S : \A j \in S : i =< j
           chosen == First(IF enough # {} THEN enough ELSE data)
           rec == Held(chosen)
<1>1. lo \in Nat /\ hi \in Nat /\ \A y \in known : y \in lo..hi
  BY KnownRange
<1>2. Prior[e] \in Nat /\ Prior[e] \in lo..hi
  BY <1>1, ReplayAssumption
<1>3. Estimate(store, e, Station, horizon, r).mae =
        IF data = {} THEN Prior[e]
        ELSE (rec.n * rec.mae + PriorStrength * Prior[e]) \div (rec.n + PriorStrength)
  <2> DEFINE sum == rec.n * rec.mae + PriorStrength * Prior[e]
  <2>1. Estimate(store, e, Station, horizon, r) =
          IF data = {} THEN [mae |-> Prior[e], samples |-> 0, asOf |-> 0]
          ELSE [mae     |-> sum \div (rec.n + PriorStrength),
                samples |-> rec.n,
                asOf    |-> rec.asOf]
    BY DEF Estimate, Bucket
  <2> HIDE DEF data, rec
  <2> QED BY <2>1
<1>4. CASE data # {}
  <2>1. \A S \in SUBSET (1..4) : S # {} => First(S) \in S
    <3> TAKE S \in SUBSET (1..4)
    <3> HAVE S # {}
    <3>1. S \in SUBSET Nat
      OBVIOUS
    <3>2. Min(S) \in S /\ \A y \in S : Min(S) =< y
      BY <3>1, LeastElement
    <3> QED BY <3>2
  <2>2. data \in SUBSET (1..4) /\ enough \in SUBSET data
    OBVIOUS
  <2>3. chosen \in data
    <3> HIDE DEF data, enough, First
    <3> QED BY <1>4, <2>1, <2>2
  <2> HIDE DEF chosen
  <2>4. chosen \in 1..4 /\ rec.n > 0
    BY <2>3
  <2>5. levels[chosen] \in Keys(e, Station, Bucket, r)
    BY <2>4 DEF Keys
  <2>6. Between(rec.mae, Measured(e)) /\ rec.n \in Nat
    <3> HIDE DEF levels
    <3>1. TypeOK
      BY DEF ReplayInv
    <3> QED BY <2>4, <2>5, <3>1, RecordType DEF SkillInv
  <2> HIDE DEF rec, data
  <2>7. PICK a \in Measured(e), b \in Measured(e) : rec.mae \in a..b
    BY <2>6 DEF Between
  <2>8. rec.mae \in lo..hi
    <3>1. a \in lo..hi /\ b \in lo..hi
      BY <1>1
    <3> HIDE DEF lo, hi
    <3> QED BY <1>1, <2>7, <3>1
  <2>9. PriorStrength \in Nat /\ rec.n + PriorStrength > 0
    BY <2>6, SkillAssumption
  <2>10. (rec.n * rec.mae + PriorStrength * Prior[e]) \div (rec.n + PriorStrength) \in lo..hi
    <3> HIDE DEF lo, hi
    <3> QED BY <1>1, <1>2, <2>6, <2>8, <2>9, WeightedMean
  <2> QED BY <1>3, <1>4, <2>10
<1>5. CASE data = {}
  <2> HIDE DEF data, rec
  <2> QED BY <1>2, <1>3, <1>5
<1> QED BY <1>4, <1>5

\* Hence the store follows the table.
LEMMA SkillIsFollowed ==
  ASSUME ReplayInv, SkillInv
  PROVE  SkillFollowsRows
<1> SUFFICES ASSUME NEW e \in Experts, NEW r \in {rows[i].regime : i \in DOMAIN rows}
             PROVE  LET known == {Prior[e]} \cup Measured(e)
                    IN /\ RecordOf(store, <<e, Station, Bucket, r>>).n =
                            Cardinality({i \in Taught : rows[i].regime = r})
                       /\ \A k \in Keys(e, Station, Bucket, "*") :
                            RecordOf(store, k).n = Cardinality(Taught)
                       /\ (\A i \in Taught : e \in DOMAIN rows[i].errors) =>
                            Estimate(store, e, Station, horizon, r).mae \in Min(known)..Max(known)
  BY DEF SkillFollowsRows, Bucket
<1>1. r \in Regimes
  BY DEF ReplayInv, RowSound
<1>2. /\ RecordOf(store, <<e, Station, Bucket, r>>).n =
           Cardinality({i \in Taught : rows[i].regime = r})
      /\ \A k \in Keys(e, Station, Bucket, "*") : RecordOf(store, k).n = Cardinality(Taught)
  BY <1>1 DEF SkillInv, TaughtIn
<1> DEFINE known == {Prior[e]} \cup Measured(e)
<1>3. ASSUME \A i \in Taught : e \in DOMAIN rows[i].errors
      PROVE  Estimate(store, e, Station, horizon, r).mae \in Min(known)..Max(known)
  <2>1. AllMeasured(e)
    BY <1>3 DEF AllMeasured
  <2> QED BY <1>1, <2>1, EstimateBetween
<1> QED BY <1>2, <1>3

\* At the start there is no row, no record and nothing held out.
LEMMA InitStore ==
  ASSUME Init
  PROVE  OrderInv /\ RowAtHand /\ SkillInv
<1>1. /\ step = "prepare" /\ rows = <<>> /\ DOMAIN rows = {} /\ folds = NoFolds
      /\ DOMAIN store = {}
  BY DEF Init
<1>2. OrderInv
  <2>1. folds.train = {} /\ folds.use = "none"
    BY <1>1 DEF NoFolds
  <2>2. TestedForward
    BY <2>1 DEF TestedForward
  <2> QED BY <1>1, <2>2 DEF OrderInv
<1>3. RowAtHand
  BY <1>1 DEF RowAtHand
<1>4. SkillInv
  <2>1. Taught = {} /\ \A r : TaughtIn(r) = {}
    BY <1>1 DEF Taught, TaughtIn
  <2>2. \A k : RecordOf(store, k).n = 0
    BY <1>1 DEF RecordOf, NoRecord
  <2>3. Cardinality({}) = 0
    BY FS_EmptySet
  <2> QED BY <2>1, <2>2, <2>3 DEF SkillInv
<1> QED BY <1>2, <1>3, <1>4

\* The invariant holds at the start and is kept by every step.
LEMMA ReplayInvHolds == Spec => [](ReplayInv /\ OrderInv /\ RowAtHand /\ SkillInv)
<1> DEFINE Inv == ReplayInv /\ OrderInv /\ RowAtHand /\ SkillInv
<1>1. ReplayInv /\ [Next]_vars => ReplayInv'
  BY PrepareKeeps, PredictKeeps, RunPipelineKeeps, LearnKeeps, TableKeeps DEF Next
<1>2. Inv /\ [Next]_vars => Inv'
  BY <1>1, OrderKeeps, RowAtHandKeeps, SkillKeeps
<1>3. Init => Inv
  BY InitReplay, InitStore
<1> QED BY <1>2, <1>3, PTL DEF Spec

-----------------------------------------------------------------------------
(***************************************************************************)
(* The theorems.                                                           *)
(***************************************************************************)
\* The replay's variables hold what replay_station gives them, and every record of the
\* skill store counts at least one outcome and has a failure rate between none and all.
THEOREM ReplayTypeCorrect == Spec => []TypeOK
<1>1. ReplayInv => TypeOK
  BY DEF ReplayInv
<1> QED BY <1>1, ReplayInvHolds, PTL

\* No row of the replay (historical_replay.py) rests on an observation of after its
\* origin or after the maximum input time its audit looks at, and its actual is later when
\* the tolerance is below the horizon.
THEOREM ReplayLooksBack == Spec => []NoLookahead
<1> QED BY SoundRowsLookBack, ReplayInvHolds, PTL

\* Router training and policy evaluation (router_training.py) hold out the latest rows of
\* the table: every row that tests is later than every row that trained.
THEOREM RouterTestedForward == Spec => []TestedForward
<1>1. OrderInv => TestedForward
  BY DEF OrderInv
<1> QED BY <1>1, ReplayInvHolds, PTL

\* The skill store (skill_store.py) counts every outcome it was taught at each of its four
\* levels, and credits an expert with a skill between its prior and its measured errors.
THEOREM StoreFollowsRows == Spec => []SkillFollowsRows
<1> QED BY SkillIsFollowed, ReplayInvHolds, PTL
=============================================================================
