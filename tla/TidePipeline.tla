---------------------------- MODULE TidePipeline ----------------------------
(***************************************************************************)
(* The forecast pipeline of Hohonu-1 (hohonu_driver_script.run_pipeline    *)
(* and run_combo_benchmark.main): server threads, the scheduler and the    *)
(* command lines prepare a node's series and forecast it, and share the    *)
(* station table hohonu_stations.tsv, where a node's nearest NOAA station  *)
(* and its MLLW datum are looked up and recorded.                          *)
(*                                                                         *)
(* Abstractions.                                                           *)
(*  - Series are their number of rows; reading, merging, cleaning and      *)
(*    imputing them gives one or raises.                                   *)
(*  - A datum is the request that estimated it.                            *)
(*  - Writing the table opens it, which empties it, and then writes all    *)
(*    of the text at once; an empty table cannot be read (a ValueError).   *)
(*  - The helpers of the package `dataproc' are external; the repository's *)
(*    stand-in for the nearest-station search parses a TSV file as JSON    *)
(*    and always raises.                                                   *)
(***************************************************************************)
EXTENDS TideSearch

CONSTANTS
  Requests, Nodes,
  Processes,   \* the requests by the process that serves them, which may be killed
  Asks,        \* what each request may ask for: lanes in order, families, steps (or none)
  RowCounts,   \* rows a prepared series may have
  Known,       \* the nodes of nodes_standardized.json
  MaxStops,    \* bound: processes killed
  VarWindows,  \* training windows the VAR model may be fitted on
  MinVarRows   \* 7200 + steps

Lanes == Strategies \cup {"var", "benchmark", "rolling"}
NoDatum == "none"
NoNode == "none"

ASSUME PipelineAssumption ==
  /\ UNION Processes = Requests /\ Known \subseteq Nodes
  /\ NoDatum \notin Requests /\ NoNode \notin Nodes
  /\ \A r \in Requests : \A a \in Asks[r] :
       /\ a.lanes \in Seq(Lanes) /\ a.lanes # <<>>
       /\ a.families \in Seq(STRING) /\ a.steps \in Nat
  /\ RowCounts \subseteq Nat /\ {MaxStops, VarWindows, MinVarRows} \subseteq Nat

VARIABLES
  table,      \* the datum of every node that has a row
  torn,       \* has the table been opened and not been written since?
  place,      \* where the table is
  dataproc,   \* is the external package installed?
  stops,
  step,       \* where each request stands
  node, lanes, families, steps,   \* what it asks for; steps: does it ask for any?
  retried,    \* has it recomputed the nearest stations?
  snapshot,   \* the table it is about to write
  datum,      \* the datum it converts the series with
  rows,       \* rows of its prepared series
  scores, kept,   \* of the search: scored candidates, hold-out forecasts
  answer,     \* the answer of its last lane
  rolling,    \* what its rolling backtest reports
  missed,     \* history: nodes whose datum was recorded since it read the table to write it
  raced       \* history: nodes whose datum a stale or a recomputed table was written over

file == <<table, torn, place>>
input == <<node, lanes, families, steps>>
series == <<retried, snapshot, datum, rows>>
search == <<scores, kept, answer>>
races == <<missed, raced>>
vars == <<file, dataproc, stops, step, input, series, search, rolling, races>>

Empty == [n \in {} |-> 0]
NoScores == [i \in DOMAIN Grid |-> 0]
Ended == {"answered", "failed", "killed"}
Steps == Ended \cup {"new", "nearest", "recompute", "datum", "open", "write",
                     "clean", "lane", "stack", "fit"}
Tables == UNION {[N -> Requests \cup {NoDatum}] : N \in SUBSET Nodes}

\* The variables have the types of the objects they stand for, and a datum is one
\* that a request for that node estimated.
TypeOK ==
  /\ table \in Tables /\ torn \in BOOLEAN /\ dataproc \in BOOLEAN
  /\ place \in {"./data", "../data", "nowhere"} /\ stops \in 0..MaxStops
  /\ \A n \in DOMAIN table : table[n] # NoDatum => node[table[n]] = n
  /\ step \in [Requests -> Steps] /\ node \in [Requests -> Nodes \cup {NoNode}]
  /\ lanes \in [Requests -> Seq(Lanes)] /\ families \in [Requests -> Seq(STRING)]
  /\ steps \in [Requests -> Nat] /\ retried \in [Requests -> BOOLEAN]
  /\ snapshot \in [Requests -> Tables]
  /\ datum \in [Requests -> Requests \cup {NoDatum}] /\ rows \in [Requests -> RowCounts \cup {0}]
  /\ scores \in [Requests -> [DOMAIN Grid -> 0..MaxRmse]]
  /\ kept \in [Requests -> SUBSET DOMAIN Grid]
  /\ rolling \in [Requests -> {"none", "empty", "error", "rows"}]
  /\ missed \in [Requests -> SUBSET Nodes]

Init ==
  /\ \E N \in SUBSET Nodes : table = [n \in N |-> NoDatum]
  /\ place \in {"./data", "../data", "nowhere"} /\ (place = "nowhere" => table = Empty)
  /\ torn = FALSE /\ dataproc \in BOOLEAN /\ stops = 0
  /\ step = [r \in Requests |-> "new"]
  /\ node = [r \in Requests |-> NoNode]
  /\ lanes = [r \in Requests |-> <<>>] /\ families = [r \in Requests |-> <<>>]
  /\ steps = [r \in Requests |-> 0]
  /\ retried = [r \in Requests |-> FALSE] /\ snapshot = [r \in Requests |-> Empty]
  /\ datum = [r \in Requests |-> NoDatum] /\ rows = [r \in Requests |-> 0]
  /\ scores = [r \in Requests |-> NoScores] /\ kept = [r \in Requests |-> {}]
  /\ answer = [r \in Requests |-> Persistence] /\ rolling = [r \in Requests |-> "none"]
  /\ missed = [r \in Requests |-> {}] /\ raced = {}

Goto(r, s) == step' = [step EXCEPT ![r] = s]
\* An exception leaves run_pipeline: HTTP error, scheduler's error row, traceback.
Forget(R) ==
  /\ snapshot' = [r \in Requests |-> IF r \in R THEN Empty ELSE snapshot[r]]
  /\ datum' = [r \in Requests |-> IF r \in R THEN NoDatum ELSE datum[r]]
  /\ missed' = [r \in Requests |-> IF r \in R THEN {} ELSE missed[r]]
  /\ scores' = [r \in Requests |-> IF r \in R THEN NoScores ELSE scores[r]]
  /\ kept' = [r \in Requests |-> IF r \in R THEN {} ELSE kept[r]]
  /\ lanes' = [r \in Requests |-> IF r \in R THEN <<>> ELSE lanes[r]]
  /\ rows' = [r \in Requests |-> IF r \in R THEN 0 ELSE rows[r]]
  /\ UNCHANGED <<file, dataproc, node, families, steps, retried, answer, rolling, raced>>
Raise(r) == Goto(r, "failed") /\ Forget({r}) /\ UNCHANGED stops
-----------------------------------------------------------------------------
(* Preparing the series: _prepare_combined_series. *)
\* The node's name is valid, and its file of observations is there.
Start(r) ==
  /\ step[r] = "new" /\ Goto(r, "nearest")
  /\ \E n \in Nodes : node' = [node EXCEPT ![r] = n]
  /\ UNCHANGED <<file, dataproc, stops, lanes, families, steps, series, search, rolling, races>>
Reject(r) == step[r] = "new" /\ Raise(r)

\* The observations of the nearest station are read and merged with the node's.
Nearest(r) ==
  /\ step[r] = "nearest" /\ place # "nowhere" /\ ~torn /\ node[r] \in DOMAIN table
  /\ Goto(r, "datum")
  /\ UNCHANGED <<file, dataproc, stops, input, series, search, rolling, races>>
\* A ValueError, KeyError or IndexError: no row, no station, a table that cannot be
\* read, a station's file without the columns.  The nearest stations are computed
\* anew, once.
NearestFails(r) ==
  /\ step[r] = "nearest" /\ place # "nowhere" /\ ~retried[r]
  /\ Goto(r, "recompute") /\ retried' = [retried EXCEPT ![r] = TRUE]
  /\ UNCHANGED <<file, dataproc, stops, input, snapshot, datum, rows, search, rolling, races>>
\* No table, no file of the station (FileNotFoundError), the second failure, or
\* nothing left of the merge.
NearestRaises(r) == step[r] = "nearest" /\ Raise(r)

\* A bug: the rebuilt rows have no datum column.
RowsWithoutDatum == [n \in Known |-> "no column"]
\* load_hohonu_devices.run: a table of all known nodes, without a single datum.
Rebuilt == [n \in Known |-> NoDatum]
Recompute(r) ==
  /\ step[r] = "recompute" /\ dataproc
  /\ snapshot' = [snapshot EXCEPT ![r] = Rebuilt]
  /\ Goto(r, "open")
  /\ UNCHANGED <<file, dataproc, stops, input, retried, datum, rows, search, rolling, races>>
RecomputeRaises(r) == step[r] = "recompute" /\ Raise(r)

\* A bug: the recorded datum is not looked at.
EstimateAnew(n) == TRUE
\* pd.isna(local_mllw)
Missing(n) == table[n] = NoDatum
HasRow(n) == place = "./data" /\ ~torn /\ n \in DOMAIN table
\* get_mllw_scalar reads ./data only.
Recorded(r) ==
  /\ step[r] = "datum" /\ HasRow(node[r]) /\ ~Missing(node[r])
  /\ datum' = [datum EXCEPT ![r] = table[node[r]]]
  /\ Goto(r, "clean")
  /\ UNCHANGED <<file, dataproc, stops, input, retried, snapshot, rows, search, rolling, races>>
\* The tidal datum is estimated, and recorded in the table as it was read.
Estimate(r) ==
  /\ step[r] = "datum" /\ HasRow(node[r]) /\ Missing(node[r])
  /\ datum' = [datum EXCEPT ![r] = r]
  /\ snapshot' = [snapshot EXCEPT ![r] = [table EXCEPT ![node[r]] = r]]
  /\ Goto(r, "open")
  /\ UNCHANGED <<file, dataproc, stops, input, retried, rows, search, rolling, races>>
NoRow(r) == step[r] = "datum" /\ ~HasRow(node[r]) /\ Raise(r)

\* to_csv opens the file, then writes it.
Open(r) ==
  /\ step[r] = "open" /\ Goto(r, "write")
  /\ torn' = TRUE /\ place' = "./data"
  /\ UNCHANGED <<table, dataproc, stops, input, series, search, rolling, races>>
Write(r) ==
  /\ step[r] = "write"
  /\ table' = snapshot[r] /\ torn' = FALSE
  /\ snapshot' = [snapshot EXCEPT ![r] = Empty]
  /\ Goto(r, IF datum[r] = NoDatum THEN "nearest" ELSE "clean")
  /\ raced' = raced \cup (IF datum[r] = NoDatum THEN Nodes ELSE missed[r])
  /\ missed' = [q \in Requests |->
       IF q # r /\ step[q] \in {"open", "write"} THEN missed[q] \cup {node[r]} ELSE {}]
  /\ UNCHANGED <<place, dataproc, stops, input, retried, datum, rows, search, rolling>>

\* Quality tests, the last 111 days, imputation.  What the request asks for matters
\* from here on.
Clean(r) ==
  /\ step[r] = "clean" /\ Goto(r, "lane")
  /\ \E n \in RowCounts : rows' = [rows EXCEPT ![r] = n]
  /\ \E a \in Asks[r] :
       /\ lanes' = [lanes EXCEPT ![r] = a.lanes]
       /\ families' = [families EXCEPT ![r] = a.families]
       /\ steps' = [steps EXCEPT ![r] = a.steps]
  /\ UNCHANGED <<file, dataproc, stops, node, retried, snapshot, datum, search, rolling, races>>
CleanRaises(r) == step[r] = "clean" /\ Raise(r)
-----------------------------------------------------------------------------
(* Forecasting, a lane at a time: one for run_pipeline, several for the combo benchmark. *)
Lane(r) == Head(lanes[r])
NextLane(r) ==
  /\ Goto(r, IF Len(lanes[r]) = 1 THEN "answered" ELSE "lane")
  /\ lanes' = [lanes EXCEPT ![r] = Tail(@)]
  /\ rows' = [rows EXCEPT ![r] = IF Len(lanes[r]) = 1 THEN 0 ELSE @]
  /\ UNCHANGED <<file, dataproc, stops, node, families, steps, retried, snapshot, datum, races>>

\* predict_water_level: None when there are too few rows or no window can be fitted.
Var(r) ==
  /\ step[r] = "lane" /\ Lane(r) = "var" /\ steps[r] > 0
  /\ \E window \in {<<>>} \cup {<<w>> : w \in 1..VarWindows} :
       /\ rows[r] < MinVarRows => window = <<>>
       /\ answer' = [answer EXCEPT ![r] = Blend(window)]
  /\ NextLane(r) /\ UNCHANGED <<scores, kept, rolling>>

Candidates(r) == Filtered(DefaultGrid(TRUE), NormalizeFamilies(families[r]))
\* An empty grid, too few rows (benchmark), or an estimator that raises.
LaneRaises(r) ==
  /\ step[r] = "lane" /\ Lane(r) # "rolling"
  /\ Lane(r) = "var" => steps[r] = 0
  /\ Raise(r)
Benchmark(r) ==
  /\ step[r] = "lane" /\ Lane(r) = "benchmark" /\ rows[r] >= 200 /\ Candidates(r) # {}
  /\ NextLane(r) /\ UNCHANGED <<search, rolling>>

\* The first candidate that is scored and fitted in a fold is given its quality
\* score with a keyword that _qa_score_from_metrics does not have: a TypeError,
\* which main() reports as the backtest's error.
RollingReport(candidates, n, s) ==
  IF candidates = {} \/ n < 280 \/ Scored(s) # {} THEN "error" ELSE "empty"
Rolling(r) ==
  /\ step[r] = "lane" /\ Lane(r) = "rolling"
  /\ \E s \in Scores(Candidates(r), rows[r]) :
       \E report \in {RollingReport(Candidates(r), rows[r], s), "error"} :
         rolling' = [rolling EXCEPT ![r] = report]
  /\ NextLane(r) /\ UNCHANGED search

Score(r) ==
  /\ step[r] = "lane" /\ Lane(r) \in Strategies /\ Candidates(r) # {}
  /\ \E s \in Scores(Candidates(r), rows[r]) : scores' = [scores EXCEPT ![r] = s]
  /\ Goto(r, IF Lane(r) = "meta" THEN "stack" ELSE "fit")
  /\ UNCHANGED <<file, dataproc, stops, input, series, kept, answer, rolling, races>>
\* Candidates whose hold-out forecast raises are left out of the stack.
Stack(r) ==
  /\ step[r] = "stack" /\ Goto(r, "fit")
  /\ \E ks \in SUBSET MetaTried(scores[r]) : kept' = [kept EXCEPT ![r] = ks]
  /\ UNCHANGED <<file, dataproc, stops, input, series, scores, answer, rolling, races>>
Fit(r) ==
  /\ step[r] = "fit" /\ NextLane(r)
  /\ answer' = [answer EXCEPT ![r] =
       Answer(Lane(r), scores[r], NormalizeFamilies(families[r]), kept[r], rows[r], steps[r])]
  /\ scores' = [scores EXCEPT ![r] = NoScores] /\ kept' = [kept EXCEPT ![r] = {}]
  /\ UNCHANGED rolling
FitRaises(r) == step[r] = "fit" /\ Scored(scores[r]) # {} /\ Raise(r)

\* A process is killed, with all of its requests.
Stop(p) ==
  LET running == {r \in p : step[r] \notin Ended}
  IN  /\ stops < MaxStops /\ stops' = stops + 1 /\ running # {}
      /\ step' = [r \in Requests |-> IF r \in running THEN "killed" ELSE step[r]]
      /\ Forget(running)

Next ==
  \/ \E p \in Processes : Stop(p)
  \/ \E r \in Requests :
       \/ Start(r) \/ Reject(r) \/ Nearest(r) \/ NearestFails(r)
       \/ NearestRaises(r) \/ Recompute(r) \/ RecomputeRaises(r)
       \/ Recorded(r) \/ Estimate(r) \/ NoRow(r) \/ Open(r) \/ Write(r)
       \/ Clean(r) \/ CleanRaises(r) \/ Var(r) \/ LaneRaises(r) \/ Benchmark(r)
       \/ Rolling(r) \/ Score(r) \/ Stack(r) \/ Fit(r) \/ FitRaises(r)

Spec == Init /\ [][Next]_vars
-----------------------------------------------------------------------------
(***************************************************************************)
(* Properties.                                                             *)
(***************************************************************************)
\* The table is read and written without a lock, and every write puts back the whole
\* of what was read.  Two forecasts of a node are converted with two data only when
\* the table was written by a request that had read it before the node's datum was
\* recorded, or when the stations were computed anew: never without a race.
Converted == {"clean", "lane", "stack", "fit", "answered"}
SameDatum ==
  \A r, q \in Requests :
    {step[r], step[q]} \subseteq Converted /\ node[r] = node[q] /\ datum[r] # datum[q]
    => node[r] \in raced

\* The answer of a search is made of models that were scored, each multiplied by the
\* weight that was computed for it although the failing ones are left out on the way,
\* and for `best' and `ensemble' no better one was passed over.
AnswerMatchesStrategy ==
  [][\A r \in Requests :
       step[r] = "fit" /\ step'[r] \in {"lane", "answered"} =>
         LET models == answer'[r].models
             s == scores[r]
         IN  /\ answer'[r].weights = models /\ IsInjective(models)
             /\ ToSet(models) \subseteq Scored(s) /\ (Scored(s) # {} => models # <<>>)
             /\ Lane(r) \in {"best", "ensemble"} =>
                  \A i \in ToSet(models), j \in Scored(s) \ ToSet(models) : s[i] <= s[j]]_vars

\* Whatever --mix-size allows, the mix ends with two models, and they are the two of
\* the lowest RMSE of those it could choose from: adding a third never lowers the
\* average weighted by the inverses.
MixIsBestPair ==
  [][\A r \in Requests :
       step[r] = "fit" /\ step'[r] \in {"lane", "answered"} /\ Lane(r) = "mix" =>
         LET models == answer'[r].models
             s == scores[r]
             base == MixBase(s, NormalizeFamilies(families[r]))
         IN  steps[r] > 0 /\ Len(base) > 1 =>
               /\ Len(models) = 2
               /\ \A i \in ToSet(models), j \in ToSet(base) \ ToSet(models) : s[i] <= s[j]]_vars
=============================================================================
