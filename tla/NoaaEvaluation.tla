--------------------------- MODULE NoaaEvaluation ---------------------------
(***************************************************************************)
(* Runs of scripts/evaluate_noaa_public.py and other users of the provider *)
(* adapters, which share the adapters' cache files and the report files.   *)
(*                                                                         *)
(* Abstractions.                                                           *)
(*  - A run evaluates the windows of Jobs in order: the stations, then the *)
(*    storm.  A mock frame has every tick of its window.                   *)
(*  - The record of a window is what was merged and whether it claims to   *)
(*    be mock; evaluating it always gives a record, of metrics or of an    *)
(*    error.                                                               *)
(***************************************************************************)
EXTENDS ProviderFetch

CONSTANTS
  Runs,      \* the fetchers that evaluate; the others fetch for a client
  Modes,     \* the modes runs are started in
  Jobs,      \* the windows a run evaluates
  Asked,     \* the windows clients ask for
  MaxKills   \* bound: processes killed

ASSUME EvaluationAssumption ==
  /\ Runs \subseteq Fetchers /\ Jobs \in Seq(Chunk) /\ Jobs # <<>> /\ Asked \subseteq Chunk
  /\ Modes \subseteq {"live", "allow_mock", "offline"} /\ MaxKills \in Nat

VARIABLES
  stage,    \* where each run stands
  mode,
  pair,     \* the frames of the window at hand: observations, predictions
  results,  \* the records of the windows before
  report,   \* the metrics files, by the kind of report they are named for
  broken,   \* those opened and not written since
  kills,
  early     \* history: files with observations asked for before they all were made

runVars == <<stage, mode, pair, results>>
reports == <<report, broken>>
vars == <<fetchVars, runVars, reports, kills, early>>

Kinds == {"mock", "live", "allow_mock"}
Frame == [ticks : SUBSET Ticks, mock : BOOLEAN]
Record == [ticks : SUBSET Ticks, mock_used : BOOLEAN, mock : BOOLEAN]

RunTypeOK ==
  /\ stage \in [Runs -> {"new", "fetch", "merge", "report", "write", "done", "failed", "killed"}]
  /\ mode \in [Runs -> Modes \cup {"none"}]
  /\ pair \in [Runs -> Seq(Frame)] /\ results \in [Runs -> Seq(Record)]
  /\ \A r \in Runs :
       /\ stage[r] \in {"fetch", "merge"} => Len(results[r]) < Len(Jobs)
       /\ stage[r] \in {"report", "write"} => Len(results[r]) = Len(Jobs)
ReportTypeOK ==
  /\ DOMAIN report \subseteq Kinds /\ broken \subseteq DOMAIN report
  /\ \A k \in DOMAIN report : report[k] \in Seq(Record)

\* The variables have the types of the objects they stand for; a run is at the
\* window after the ones it has records of.
TypeOK ==
  /\ FetchTypeOK /\ RunTypeOK /\ ReportTypeOK
  /\ kills \in 0..MaxKills /\ early \subseteq Files

Init ==
  /\ FetchInit
  /\ stage = [r \in Runs |-> "new"] /\ mode = [r \in Runs |-> "none"]
  /\ pair = [r \in Runs |-> <<>>] /\ results = [r \in Runs |-> <<>>]
  /\ report = [k \in {} |-> <<>>] /\ broken = {} /\ kills = 0 /\ early = {}

Enter(r, s) == stage' = [stage EXCEPT ![r] = s]
Job(r) == Jobs[Len(results[r]) + 1]
-----------------------------------------------------------------------------
Start(r) ==
  /\ stage[r] = "new" /\ Enter(r, "fetch")
  /\ \E m \in Modes : mode' = [mode EXCEPT ![r] = m]
  /\ UNCHANGED <<fetchVars, pair, results, reports, kills, early>>

\* fetch_noaa_df and fetch_noaa_predictions_df, one after the other.
Part(r) == IF pair[r] = <<>> THEN "observations" ELSE "predictions"
AddFrame(r, part) ==
  /\ pair' = [pair EXCEPT ![r] = Append(@, part)]
  /\ Enter(r, IF pair[r] = <<>> THEN "fetch" ELSE "merge")
  /\ Leave(r) /\ UNCHANGED <<mode, results, reports, kills, early>>
Mock(r) == [ticks |-> Job(r)[1]..Job(r)[2], mock |-> TRUE]
Ask(r) ==
  /\ stage[r] = "fetch" /\ mode[r] # "offline" /\ at[r] = "idle"
  /\ Begin(r, Part(r), Job(r), TRUE)
  /\ UNCHANGED <<runVars, reports, kills, early>>
Offline(r) == stage[r] = "fetch" /\ mode[r] = "offline" /\ AddFrame(r, Mock(r))
Fetched(r) ==
  /\ stage[r] = "fetch" /\ at[r] = "returned"
  /\ AddFrame(r, [ticks |-> UNION ToSet(frame[r]), mock |-> FALSE])
StandIn(r) ==
  /\ stage[r] = "fetch" /\ at[r] = "raised" /\ mode[r] = "allow_mock"
  /\ AddFrame(r, Mock(r))

Fail(r) ==
  /\ Enter(r, "failed") /\ Leave(r)
  /\ pair' = [pair EXCEPT ![r] = <<>>] /\ results' = [results EXCEPT ![r] = <<>>]
  /\ UNCHANGED <<mode, reports, kills, early>>
\* LiveNOAAFetchError
FetchFails(r) == stage[r] = "fetch" /\ at[r] = "raised" /\ mode[r] = "live" /\ Fail(r)

\* fetch_noaa_pair's provenance.
MockUsed(frames) == frames[1].mock \/ frames[2].mock
Merge(r) ==
  LET ticks == pair[r][1].ticks \cap pair[r][2].ticks
  IN  /\ stage[r] = "merge" /\ ticks # {}
      /\ results' = [results EXCEPT ![r] = Append(@,
           [ticks |-> ticks, mock_used |-> MockUsed(pair[r]),
            mock |-> pair[r][1].mock \/ pair[r][2].mock])]
      /\ pair' = [pair EXCEPT ![r] = <<>>]
      /\ Enter(r, IF Len(results[r]) + 1 = Len(Jobs) THEN "report" ELSE "fetch")
      /\ UNCHANGED <<fetchVars, mode, reports, kills, early>>
\* No common timestamp, a datum or a unit that differs, a timestamp twice: whatever
\* the mode, the run ends.
MergeFails(r) == stage[r] = "merge" /\ Fail(r)

Kind(m) == IF m = "offline" THEN "mock" ELSE m
\* A bug: the flag of allow_mock does not change the files' names.
OneStem(kind) == IF kind = "mock" THEN "mock" ELSE "live"
\* The file of a kind of report is named for it.
Stem(kind) == kind
AnyMock(r) == \E i \in DOMAIN results[r] : results[r][i].mock_used
\* _assert_live_report_has_no_mock, then the file is opened.
Report(r) ==
  LET file == Stem(Kind(mode[r]))
  IN  /\ stage[r] = "report" /\ (Kind(mode[r]) = "live" => ~AnyMock(r)) /\ Enter(r, "write")
      /\ broken' = broken \cup {file}
      /\ report' = [k \in DOMAIN report \cup {file} |-> IF k = file THEN <<>> ELSE report[k]]
      /\ UNCHANGED <<fetchVars, mode, pair, results, kills, early>>
WriteReport(r) ==
  LET file == Stem(Kind(mode[r]))
  IN  /\ stage[r] = "write" /\ Enter(r, "done")
      /\ broken' = broken \ {file} /\ report' = [report EXCEPT ![file] = results[r]]
      /\ results' = [results EXCEPT ![r] = <<>>]
      /\ UNCHANGED <<fetchVars, mode, pair, kills, early>>

Kill(r) ==
  /\ stage[r] \in {"fetch", "merge", "report", "write"} /\ kills < MaxKills
  /\ kills' = kills + 1 /\ Enter(r, "killed") /\ Leave(r)
  /\ pair' = [pair EXCEPT ![r] = <<>>] /\ results' = [results EXCEPT ![r] = <<>>]
  /\ UNCHANGED <<mode, reports, early>>

\* Registered sources and notebooks fetch any series, with the cache or without (each
\* once: it keeps its frame).
Client(f) ==
  /\ f \notin Runs
  /\ \E series \in Series, window \in Asked, cached \in BOOLEAN : Begin(f, series, window, cached)
  /\ UNCHANGED <<runVars, reports, kills, early>>

\* A step of the adapter; a file whose observations were asked for too early is noted.
Adapter(f) ==
  /\ FetchStep(f)
  /\ early' = IF at[f] = "request" /\ at'[f] = "open" /\ fetch[f].series # "predictions"
                 /\ now < Current(f)[2]
              THEN early \cup {CacheFile(f)} ELSE early
  /\ UNCHANGED <<runVars, reports, kills>>
Time == Tick /\ UNCHANGED <<runVars, reports, kills, early>>

Next ==
  \/ Time
  \/ \E f \in Fetchers : Client(f) \/ Adapter(f)
  \/ \E r \in Runs :
       \/ Start(r) \/ Ask(r) \/ Offline(r) \/ Fetched(r) \/ StandIn(r) \/ FetchFails(r)
       \/ Merge(r) \/ MergeFails(r) \/ Report(r) \/ WriteReport(r) \/ Kill(r)

\* A fetch that has begun goes on: every wait between its attempts is bounded.
Spec == Init /\ [][Next]_vars /\ \A f \in Fetchers : WF_vars(Adapter(f))
-----------------------------------------------------------------------------
(***************************************************************************)
(* Properties.                                                             *)
(***************************************************************************)
\* The frame returned next has the window's records, each once, in order.  Records the
\* provider had when the fetch began are missing only when a chunk came from a cache file
\* whose observations were asked for before they had all been made.
Answer(f) ==
  LET ticks == UNION ToSet(frame'[f])
      had == fetch[f].window[1]..
               (IF fetch[f].series = "predictions" THEN fetch[f].window[2]
                ELSE Smaller(fetch[f].window[2], fetch[f].begun))
  IN  /\ \A i, j \in DOMAIN frame'[f] :
           i < j => \A t \in frame'[f][i], u \in frame'[f][j] : t < u
      /\ ticks \subseteq fetch[f].window[1]..fetch[f].window[2]
      /\ \/ had \subseteq ticks
         \/ /\ fetch[f].cached
            /\ \E k \in DOMAIN ChunksOf(f) : <<fetch[f].series, ChunksOf(f)[k]>> \in early

\* A fetch that returns answers like that, whoever else fetches, writes the same cache
\* files or is killed.
FetchAnswers ==
  [][\A f \in Fetchers : at[f] = "parse" /\ at'[f] = "returned" => Answer(f)]_vars

\* A fetch ends, whatever the provider answers, unless its process is killed.
FetchEnds == \A f \in Fetchers : at[f] = "look" ~> at[f] \in {"idle", "returned", "raised"}

\* noaa_live_metrics.json never holds a record made of mock data, nor a part of the
\* windows; a run that could not fetch leaves it as it was.
LiveReportIsLive ==
  "live" \in DOMAIN report \ broken =>
    /\ Len(report["live"]) = Len(Jobs)
    /\ \A i \in DOMAIN report["live"] : ~report["live"][i].mock
=============================================================================
