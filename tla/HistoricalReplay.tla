--------------------------- MODULE HistoricalReplay ---------------------------
(***************************************************************************)
(* The offline replay (src/src/evaluation/historical_replay.py) and the    *)
(* router training that reads its table (router_training.py).  One process *)
(* walks a station's history origin by origin: it looks up the actual level *)
(* at the target, builds a context of what was known at the origin, takes   *)
(* the experts' forecasts (all of them in "exhaustive" mode, those the      *)
(* cascade asks in "policy" mode), has the pipeline combine them with the   *)
(* skill store's weights, adds a row and, when asked to, teaches the store. *)
(*                                                                         *)
(* Abstractions: the pipeline's own run is ForecastRun's and MiniForecast's *)
(* subject; here it is the regime it detects and what it may read: the      *)
(* eligible experts' forecasts and skill.  The signed error of a forecast   *)
(* comes from one of a few cases.  The decision trees are left out: training *)
(* is the audit, the rows it keeps and how it splits them.                  *)
(***************************************************************************)
EXTENDS PreparedStation, SkillStore, SequencesExt

CONSTANTS
  Pairs,           \* the station pairs' data a replay may be given
  Horizons,        \* --horizon-minutes
  HistoryTicks,    \* min_history_hours
  StepTicks,       \* step_minutes
  Tolerance,       \* actual_tolerance_minutes
  ErrorCases,      \* the experts' errors at one origin
  ExpertOrder,     \* the experts by name
  MinTrainingRows, SplitRows,   \* a smaller table trains nothing, or tests nothing
  MinPolicyRows,   \* fewer rows evaluate no policy
  TestShare        \* one row in TestShare is held out

ASSUME ReplayAssumption ==
  /\ HistoryTicks \in Nat /\ Tolerance \in Nat /\ StepTicks \in Nat \ {0} /\ TestShare \in Nat \ {0}
  /\ Horizons \subseteq Nat \ {0}
  /\ \A p \in Pairs : p.hohonu \cup p.noaa \cup p.tide \subseteq Nat /\ p.lag \in Int
  /\ ErrorCases \subseteq [Experts -> Int]
  /\ ToSet(ExpertOrder) = Experts /\ Prior \in [Experts -> Nat]
  /\ MinTrainingRows \in Nat /\ MinPolicyRows \in Nat \ {0}

Station == "local"

VARIABLES
  pair, horizon, mode, updateSkill,   \* the arguments
  step,
  origin, forecasts,  \* of the loop; forecasts: of each expert, whether it forecast
  rows, store,
  folds               \* which rows a training or an evaluation learnt from and tested on

vars == <<pair, horizon, mode, updateSkill, step, origin, forecasts, rows, store, folds>>
arguments == <<pair, horizon, mode, updateSkill>>

NoFolds == [use |-> "none", train |-> {}, test |-> {}]

Init ==
  /\ pair \in Pairs
  /\ horizon \in Horizons
  /\ mode \in {"exhaustive", "policy"}
  /\ updateSkill \in BOOLEAN
  /\ step = "prepare"
  /\ origin = None
  /\ forecasts = <<>>
  /\ rows = <<>>
  /\ store = <<>>
  /\ folds = NoFolds

-----------------------------------------------------------------------------
StartOrigin == Min(pair.hohonu) + HistoryTicks
LastOrigin == Max(pair.hohonu) - horizon

\* PreparedStationData.build fails closed on mixed datums; a replay needs local actuals.
Reject ==
  /\ step = "prepare"
  /\ ~OneDatum(pair) \/ pair.hohonu = {}
  /\ step' = "raised"
  /\ UNCHANGED <<arguments, origin, forecasts, rows, store, folds>>

Prepare ==
  /\ step = "prepare"
  /\ OneDatum(pair) /\ pair.hohonu # {}
  /\ origin' = StartOrigin
  /\ step' = IF LastOrigin < StartOrigin THEN "table" ELSE "predict"
  /\ UNCHANGED <<arguments, forecasts, rows, store, folds>>

Now == Context(pair, origin, horizon)

\* _nearest_actual: none when the nearest record is too far from the target.
Actual ==
  LET tick == Nearest(pair.hohonu, origin + horizon)
  IN IF Apart(tick, origin + horizon) > Tolerance THEN None ELSE tick

\* Policy mode stores no forecast of its own.
Predict ==
  /\ step = "predict"
  /\ forecasts' = IF mode = "policy" THEN <<>> ELSE [e \in Experts |-> Forecasts(e, pair, Now)]
  /\ step' = "run"
  /\ UNCHANGED <<arguments, origin, rows, store, folds>>

Asked == {e \in Experts : Eligible(e, Now) /\ Forecasts(e, pair, Now)}
Predicted == {e \in DOMAIN forecasts : forecasts[e]}
\* The newest outcome behind the skill that ranks and weighs the eligible experts.
Newest(regime) ==
  Max({0} \cup {Estimate(store, e, Station, horizon, regime).asOf :
                  e \in {x \in Experts : Eligible(x, Now)}})

\* pipe.run and the row.  Reads, skillAsOf (history): what the row's forecasts rest on.
RunPipeline ==
  /\ step = "run"
  /\ \E surge \in {FALSE} \cup (IF Now.residual # None THEN {TRUE} ELSE {}), err \in ErrorCases :
       LET regime == Regime(Now, surge)
       IN rows' = Append(rows,
            [origin    |-> origin,
             target    |-> Now.target,
             regime    |-> regime,
             maxInput  |-> [hohonu |-> Latest(pair.hohonu, origin), noaa |-> Latest(pair.noaa, origin)],
             actual    |-> Actual,
             errors    |-> IF Actual = None THEN <<>> ELSE [e \in Predicted |-> err[e]],
             reads     |-> UNION {Reads(e, pair, Now) : e \in Predicted \cup Asked},
             skillAsOf |-> Newest(regime)])
  /\ step' = "learn"
  /\ UNCHANGED <<arguments, origin, forecasts, store, folds>>

\* _update_skill_from_predictions: one outcome of every stored forecast, failed or not.
Outcomes(row) ==
  [e \in DOMAIN forecasts |->
     [failed |-> ~forecasts[e],
      error  |-> IF forecasts[e] THEN Apart(0, row.errors[e]) ELSE 0,
      at     |-> row.actual]]

\* The end of the loop's body.
Learn ==
  /\ step = "learn"
  /\ store' = IF updateSkill /\ Last(rows).actual # None /\ forecasts # <<>>
              THEN Learnt(store, Station, HorizonBucket(horizon), Last(rows).regime, Outcomes(Last(rows)))
              ELSE store
  /\ origin' = origin + StepTicks
  /\ step' = IF origin' =< LastOrigin THEN "predict" ELSE "table"
  /\ UNCHANGED <<arguments, forecasts, rows, folds>>

-----------------------------------------------------------------------------
\* Router training.

\* audit_replay_for_router_training: an empty table has no columns.
Audited ==
  /\ rows # <<>>
  /\ \A i \in DOMAIN rows :
       /\ rows[i].target > rows[i].origin
       /\ \A s \in {"hohonu", "noaa"} : rows[i].maxInput[s] =< rows[i].origin

\* The rows with an actual and an error to learn from, by their places in the table.
Usable == {i \in DOMAIN rows : rows[i].actual # None /\ DOMAIN rows[i].errors # {}}
\* best_expert_label: the smallest error, the first name among equals.
Place(e) == CHOOSE i \in DOMAIN ExpertOrder : ExpertOrder[i] = e
BestExpert(errors) ==
  CHOOSE e \in DOMAIN errors : \A x \in DOMAIN errors :
    \/ Apart(0, errors[e]) < Apart(0, errors[x])
    \/ Apart(0, errors[e]) = Apart(0, errors[x]) /\ Place(e) =< Place(x)
Labels == {BestExpert(rows[i].errors) : i \in Usable}

\* int(round(n / TestShare)), which rounds a half to even; at least one row.
HeldOut(n) ==
  LET q == n \div TestShare
      r == n % TestShare
      up == 2 * r > TestShare \/ (2 * r = TestShare /\ q % 2 = 1)
  IN Max({1, IF up THEN q + 1 ELSE q})

\* In an order of the rows to learn from, how many come after each: the table's order, and
\* that of rows.sort by origin, in which rows of one origin keep their places.
InTable == [i \in Usable |-> Cardinality({j \in Usable : j > i})]
InTime ==
  [i \in Usable |-> Cardinality({j \in Usable : \/ rows[j].origin > rows[i].origin
                                                \/ rows[j].origin = rows[i].origin /\ j > i})]

\* A bug: the rows held out are the first ones.
FirstRowsOut(use, after) ==
  LET test == {i \in Usable : after[i] >= Cardinality(Usable) - HeldOut(Cardinality(Usable))}
  IN [use |-> use, train |-> Usable \ test, test |-> test]
\* The last rows test, the others train.
ForwardFolds(use, after) ==
  LET test == {i \in Usable : after[i] < HeldOut(Cardinality(Usable))}
  IN [use |-> use, train |-> Usable \ test, test |-> test]

TrainRefused ==
  /\ step = "table"
  /\ ~Audited \/ Cardinality(Usable) < Max({1, MinTrainingRows})
  /\ step' = "refused"
  /\ UNCHANGED <<arguments, origin, forecasts, rows, store, folds>>

\* train_router_from_replay; with few rows, or one label, nothing is held out.
Train ==
  /\ step = "table"
  /\ Audited /\ Cardinality(Usable) >= Max({1, MinTrainingRows})
  /\ folds' = IF Cardinality(Usable) < SplitRows \/ Cardinality(Labels) < 2
              THEN [use |-> "router", train |-> Usable, test |-> {}]
              ELSE ForwardFolds("split router", InTable)
  /\ step' = "done"
  /\ UNCHANGED <<arguments, origin, forecasts, rows, store>>

\* evaluate_router_policies on one station: the table is sorted, not audited.
Evaluate ==
  /\ step = "table"
  /\ folds' = IF Cardinality(Usable) < MinPolicyRows THEN [NoFolds EXCEPT !.use = "too few"]
              ELSE ForwardFolds("policies", InTime)
  /\ step' = "done"
  /\ UNCHANGED <<arguments, origin, forecasts, rows, store>>

Next == \/ Reject \/ Prepare \/ Predict \/ RunPipeline \/ Learn
        \/ TrainRefused \/ Train \/ Evaluate
Spec == Init /\ [][Next]_vars

-----------------------------------------------------------------------------
\* Every variable holds a value of the kind the replay gives it.
TypeOK ==
  /\ pair \in Pairs /\ horizon \in Horizons
  /\ mode \in {"exhaustive", "policy"} /\ updateSkill \in BOOLEAN
  /\ step \in {"prepare", "raised", "predict", "run", "learn", "table", "refused", "done"}
  /\ origin \in Nat \cup {None}
  /\ DOMAIN forecasts \in {{}, Experts} /\ rows \in Seq(ToSet(rows))
  /\ \A i \in DOMAIN rows :
       /\ rows[i].actual \in pair.hohonu \cup {None}
       /\ DOMAIN rows[i].errors \subseteq Experts
  /\ \A k \in DOMAIN store : store[k].n \in Nat \ {0} /\ store[k].failureRate \in 0..Whole

\* No row's forecasts are computed from an observation of after its origin, whatever gaps,
\* lags and trends are involved (prepared.py: "every per-origin slice uses timestamp_utc <=
\* forecast_time"), nothing an expert read is newer than the maximum input time the audit
\* checks.  The actual the row is scored against is one of about the target, and unless the
\* tolerance reaches back a whole horizon (nothing in HistoricalReplayConfig forbids that) it
\* was measured after the origin.
NoLookahead ==
  \A i \in DOMAIN rows :
    /\ \A x \in rows[i].reads :
         x[2] =< rows[i].origin /\ x[2] # None /\ x[2] =< rows[i].maxInput[x[1]]
    /\ rows[i].actual # None =>
         /\ Apart(rows[i].actual, rows[i].target) =< Tolerance
         /\ Tolerance < horizon => rows[i].origin < rows[i].actual

\* The rows the store has learnt from.
Taught ==
  {i \in DOMAIN rows : /\ updateSkill /\ mode = "exhaustive" /\ rows[i].actual # None
                       /\ step = "learn" => i < Len(rows)}
\* The errors of e that were measured.
Measured(e) == {Apart(0, rows[i].errors[e]) : i \in {j \in Taught : e \in DOMAIN rows[j].errors}}

\* The store follows the table: every record counts exactly the outcomes of its level, failed
\* ones too, and while an expert has not failed, the skill it is credited with lies between
\* its prior and the errors that were measured ("a tiny sample is never treated as strong
\* evidence", skill_store.py).
SkillFollowsRows ==
  \A e \in Experts, r \in {rows[i].regime : i \in DOMAIN rows} :
    LET bucket == HorizonBucket(horizon)
        known == {Prior[e]} \cup Measured(e)
    IN /\ RecordOf(store, <<e, Station, bucket, r>>).n =
             Cardinality({i \in Taught : rows[i].regime = r})
       /\ \A k \in Keys(e, Station, bucket, "*") : RecordOf(store, k).n = Cardinality(Taught)
       /\ (\A i \in Taught : e \in DOMAIN rows[i].errors) =>
             Estimate(store, e, Station, horizon, r).mae \in Min(known)..Max(known)

\* A router is tested only on origins later than every origin it was trained on, every row
\* that was scored trains or tests it, and where rows are held out there is one to test
\* (router_training.py: "a forward-in-time holdout").
TestedForward ==
  /\ \A i \in folds.train, j \in folds.test : rows[i].origin < rows[j].origin
  /\ folds.use \in {"router", "split router", "policies"} => folds.train \cup folds.test = Usable
  /\ folds.use \in {"split router", "policies"} => folds.test # {}

\* benchmark_orchestration.py:307 of this replay: "skill accrues forward-in-time ... no future
\* leakage": the skill used at an origin rests on outcomes observed by then.
SkillForwardInTime == \A i \in DOMAIN rows : rows[i].skillAsOf =< rows[i].origin
=============================================================================
