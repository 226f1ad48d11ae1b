------------------------------ MODULE Evidence ------------------------------
(***************************************************************************)
(* The evidence the repository keeps under reports/: the targets of the    *)
(* Makefile, each a script that reads the source, the demo data and other  *)
(* reports and writes its own, and check_report_freshness, which compares  *)
(* the recorded fingerprint of the source with the current one.            *)
(*                                                                         *)
(* Abstractions.                                                           *)
(*  - The source is a version of the code and the demo data, which is the  *)
(*    version of the code that generated it (the seed is fixed).  Its      *)
(*    fingerprint is the pair itself.                                      *)
(*  - A report is the source it was computed from and, for each report it  *)
(*    was made of, the source of that one; Markdown next to JSON is left   *)
(*    out, and so is what the numbers say.                                 *)
(*  - A file is opened, which empties it, and then written.  An empty JSON *)
(*    file does not parse; demo data cut off at a line does.               *)
(*  - Targets run one at a time, in one shell.                             *)
(***************************************************************************)
EXTENDS Naturals, Sequences, FiniteSets, SequencesExt

CONSTANTS
  Versions,      \* versions of the code
  MaxEdits,      \* bound: edits of the code (any file of the fingerprint counts)
  MaxCommands,   \* bound: make commands
  MaxCuts,       \* bound: scripts killed
  Commands       \* bound: the commands given, a subset of Targets and "demo"

ASSUME EvidenceAssumption ==
  /\ Versions \cap {"none", "part"} = {} /\ Versions # {}
  /\ {MaxEdits, MaxCommands, MaxCuts} \subseteq Nat

VARIABLES
  code, data,  \* the source
  reports,     \* the reports there are
  torn,        \* those opened and not written since
  queue,       \* the targets the command has still to make; the first is running
  loaded,      \* the source as the running script has read it
  line,        \* the write of the running script it is at
  phase,       \* of that write
  text,        \* what it is about to write
  edits, commands, cuts,
  given,       \* history: the command given last
  edited,      \* history: was the code edited since?
  tainted      \* history: was the last training cut off, or overtaken by an edit?

disk == <<code, data, reports, torn>>
shell == <<queue, loaded, line, phase, text>>
bounds == <<edits, commands, cuts>>
made == <<given, edited>>
evidenceVars == <<disk, shell, bounds, made, tainted>>

Source == [code : Versions, data : Versions \cup {"none", "part"}]
Current == [code |-> code, data |-> data]
NoSource == [code |-> "none", data |-> "none"]
Files == {"model", "ablation", "metadata", "html", "benchmark", "horizons", "events", "rolling",
          "conformal", "mock", "live", "allow_mock", "actual", "errors", "baselines", "audit",
          "summary"}
\* Under version control; the two evaluations that ask NOAA are not.
Committed == Files \ {"live", "allow_mock"}
Readable(f) == f \in DOMAIN reports \ torn
\* What a script that reads f finds out about it.
SourceOf(f) == IF Readable(f) THEN reports[f].source ELSE NoSource

EvidenceTypeOK ==
  /\ Current \in Source /\ torn \subseteq DOMAIN reports /\ DOMAIN reports \subseteq Files
  /\ \A f \in DOMAIN reports :
       /\ reports[f].source \in Source \cup {NoSource}
       /\ \A g \in DOMAIN reports[f].of : reports[f].of[g] \in Source \cup {NoSource}
  /\ phase \in {"none", "start", "read", "open", "write"} /\ (phase = "none" <=> queue = <<>>)
  /\ edits \in 0..MaxEdits /\ commands \in 0..MaxCommands /\ cuts \in 0..MaxCuts
  /\ given \in Commands \cup {"none"} /\ {edited, tainted} \subseteq BOOLEAN
-----------------------------------------------------------------------------
(* The targets.  Each write: the file, the reports that must be there and parse, *)
(* those that must parse if they are there, those that are read if they parse.   *)
Output(file, needs, parses, reads) ==
  [file |-> file, needs |-> needs, parses |-> parses, reads |-> reads]
Alone(file) == Output(file, {}, {}, {})

DemoData == <<Alone("data")>>
\* A bug: the metadata is saved first.
MetadataFirst == <<Alone("metadata"), Alone("model"), Alone("ablation")>>
\* main() of train_baseline: the fingerprint is taken when the metrics are saved.
Train == <<Alone("model"), Alone("ablation"), Alone("metadata")>>
Report == <<Output("html", {}, {"model"}, {})>>
Benchmark == <<Alone("benchmark")>>
Horizons == <<Alone("horizons")>>
Events == <<Alone("events")>>
RollingOrigin == <<Alone("rolling")>>
Conformal == <<Alone("conformal")>>
NoaaEvalOffline == <<Alone("mock")>>
NoaaEval == <<Alone("live")>>
\* With --allow-mock, given by hand: no make target has it.
NoaaAllowMock == <<Alone("allow_mock")>>
\* The first figure is on disk before the metrics of the others are looked for.
Visuals ==
  <<Alone("actual"), Output("errors", {"horizons"}, {}, {}), Output("baselines", {"model"}, {}, {})>>
ScientificAudit == <<Output("audit", {}, {}, {"live"})>>
Summary == <<Output("summary", {}, {},
  {"metadata", "ablation", "model", "horizons", "events", "rolling", "conformal", "benchmark",
   "mock", "live", "allow_mock", "audit"})>>

Recipe ==
  [demo_data |-> DemoData, train |-> Train, report |-> Report, benchmark |-> Benchmark,
   horizons |-> Horizons, events |-> Events, rolling_origin |-> RollingOrigin,
   conformal |-> Conformal, noaa_eval |-> NoaaEval, noaa_eval_offline |-> NoaaEvalOffline,
   noaa_allow_mock |-> NoaaAllowMock,
   visuals |-> Visuals, scientific_audit |-> ScientificAudit, summary |-> Summary]
Targets == DOMAIN Recipe
ASSUME CommandsAssumption == Commands \subseteq Targets \cup {"demo"}

\* The scripts that load the demo data when they start.
UsesData == {"train", "report", "horizons", "events", "rolling_origin", "conformal", "visuals"}
\* A bug: the summary comes before the audit it quotes.
SummaryBeforeAudit ==
  <<"demo_data", "train", "report", "benchmark", "horizons", "events", "rolling_origin",
    "conformal", "noaa_eval_offline", "visuals", "summary", "scientific_audit">>
Demo ==
  <<"demo_data", "train", "report", "benchmark", "horizons", "events", "rolling_origin",
    "conformal", "noaa_eval_offline", "visuals", "scientific_audit", "summary">>

EvidenceInit ==
  /\ \E v \in Versions : code = v /\ data \in {v, "none"}
  /\ \/ reports = [f \in {} |-> NoSource]
     \/ \* as committed
        /\ data # "none"
        /\ reports = [f \in Committed |-> [source |-> Current, of |->
             [g \in (CASE f = "html" -> {"model"} [] f = "errors" -> {"horizons"}
                       [] f = "baselines" -> {"model"} [] f = "audit" -> {"live"}
                       [] f = "summary" -> Summary[1].reads [] OTHER -> {}) |->
                IF g \in Committed THEN Current ELSE NoSource]]]
  /\ torn = {} /\ queue = <<>> /\ loaded = NoSource /\ line = 1 /\ phase = "none"
  /\ text = [source |-> NoSource, of |-> [f \in {} |-> NoSource]]
  /\ edits = 0 /\ commands = 0 /\ cuts = 0 /\ given = "none" /\ edited = FALSE /\ tainted = FALSE
-----------------------------------------------------------------------------
NoText == [source |-> NoSource, of |-> [f \in {} |-> NoSource]]
Target == Head(queue)
Out == Recipe[Target][line]

Make ==
  /\ queue = <<>> /\ commands < MaxCommands /\ commands' = commands + 1
  /\ \E c \in Commands : given' = c /\ queue' = IF c = "demo" THEN Demo ELSE <<c>>
  /\ phase' = "start" /\ edited' = FALSE
  /\ UNCHANGED <<disk, loaded, line, text, edits, cuts, tainted>>

\* The script ends: the next target, or the end of the command; an error or a signal
\* ends the command.
Quit ==
  /\ queue' = <<>> /\ phase' = "none" /\ line' = 1 /\ loaded' = NoSource /\ text' = NoText
Done ==
  IF line < Len(Recipe[Target])
  THEN line' = line + 1 /\ phase' = "read" /\ text' = NoText /\ UNCHANGED <<queue, loaded>>
  ELSE IF Len(queue) = 1 THEN Quit
  ELSE /\ queue' = Tail(queue) /\ phase' = "start" /\ line' = 1
       /\ loaded' = NoSource /\ text' = NoText

Start ==
  /\ phase = "start" /\ (Target \in UsesData => data # "none")
  /\ loaded' = Current /\ phase' = "read"
  /\ tainted' = (tainted \/ Target = "train")
  /\ UNCHANGED <<disk, queue, line, text, bounds, made>>
\* No demo data, or NOAA cannot be reached.
StartFails ==
  /\ phase = "start" /\ (Target = "noaa_eval" \/ (Target \in UsesData /\ data = "none"))
  /\ Quit /\ UNCHANGED <<disk, bounds, made, tainted>>
\* The benchmark finds no series, or none long enough: it says so and writes nothing.
NothingToBenchmark ==
  /\ phase = "read" /\ Target = "benchmark" /\ Done
  /\ UNCHANGED <<disk, bounds, made, tainted>>

Made ==
  LET inputs == Out.needs \cup Out.parses \cup Out.reads
  IN  [source |-> loaded, of |-> [f \in inputs |-> SourceOf(f)]]
Parses(out) ==
  /\ \A f \in out.needs : Readable(f)
  /\ \A f \in out.parses : f \in DOMAIN reports => Readable(f)
Read ==
  /\ phase = "read" /\ Parses(Out)
  /\ text' = IF Out.file = "metadata" THEN [Made EXCEPT !.source = Current] ELSE Made
  /\ phase' = "open" /\ UNCHANGED <<disk, queue, loaded, line, bounds, made, tainted>>
ReadFails ==
  /\ phase = "read" /\ ~Parses(Out) /\ Quit /\ UNCHANGED <<disk, bounds, made, tainted>>

Open ==
  /\ phase = "open" /\ phase' = "write"
  /\ IF Out.file = "data" THEN data' = "part" /\ UNCHANGED <<reports, torn>>
     ELSE /\ torn' = torn \cup {Out.file} /\ UNCHANGED data
          /\ reports' = [f \in DOMAIN reports \cup {Out.file} |->
                           IF f = Out.file THEN NoText ELSE reports[f]]
  /\ UNCHANGED <<code, queue, loaded, line, text, bounds, made, tainted>>
Write ==
  /\ phase = "write" /\ Done
  /\ IF Out.file = "data" THEN data' = loaded.code /\ UNCHANGED <<reports, torn>>
     ELSE /\ torn' = torn \ {Out.file} /\ UNCHANGED data
          /\ reports' = [reports EXCEPT ![Out.file] = text]
  /\ tainted' = IF Out.file = "metadata" THEN text.source # loaded ELSE tainted
  /\ UNCHANGED <<code, bounds, made>>

Cut ==
  /\ phase # "none" /\ cuts < MaxCuts /\ cuts' = cuts + 1 /\ Quit
  /\ UNCHANGED <<disk, edits, commands, made, tainted>>
\* The code is edited, or an edit is taken back.
Edit ==
  /\ edits < MaxEdits /\ edits' = edits + 1 /\ edited' = TRUE
  /\ \E v \in Versions \ {code} : code' = v
  /\ UNCHANGED <<data, reports, torn, shell, commands, cuts, given, tainted>>

EvidenceNext ==
  \/ Make \/ Start \/ StartFails \/ NothingToBenchmark \/ Read \/ ReadFails
  \/ Open \/ Write \/ Cut \/ Edit
-----------------------------------------------------------------------------
\* A bug: the copy of the fingerprint in the summary is not compared.
MetadataOnly == Readable("metadata") /\ reports["metadata"].source = Current
\* check_report_freshness: the fingerprint that training recorded is the source's, and
\* the one in the summary, if there is a summary.
Fresh ==
  /\ Readable("metadata") /\ reports["metadata"].source = Current
  /\ "summary" \in DOMAIN reports =>
       Readable("summary") /\ reports["summary"].of["metadata"] = reports["metadata"].source
-----------------------------------------------------------------------------
(***************************************************************************)
(* Properties.                                                             *)
(***************************************************************************)
\* Evidence that passes check_report_freshness has a model and an ablation trained from
\* the current source, although only the fingerprint in the metadata is compared:
\* training writes the metadata last.  An edit during training, or a training that was
\* cut off, is outside what the check sees.
FreshMeansRetrained ==
  Fresh /\ ~tainted =>
    \A f \in {"model", "ablation"} : Readable(f) /\ reports[f].source = Current

Rebuilt == Committed \ {"benchmark"}
\* When `make demo` ends, with no edit since it was given, the evidence is fresh, every
\* committed report, except of a benchmark that finds no series, was made from the current
\* source, and each report quotes the others as they are: the order of the targets and
\* the reports each script reads agree.
DemoComplete ==
  [][given = "demo" /\ ~edited /\ phase = "write" /\ queue' = <<>> /\ torn' # torn =>
     (/\ Fresh
      /\ \A f \in Rebuilt :
           /\ Readable(f) /\ reports[f].source = Current
           /\ \A g \in DOMAIN reports[f].of : reports[f].of[g] = SourceOf(g))']_evidenceVars
=============================================================================
