-------------------------- MODULE IntervalScheduler --------------------------
(***************************************************************************)
(* The interval scheduler of Hohonu-1: each pass forecasts every node,     *)
(* appends a row per node to manifest.csv and writes the pass's JSON file. *)
(* The process may stop between any two steps and be launched again on the *)
(* same directory; appends and writes may fail.                            *)
(*                                                                         *)
(* Abstractions.                                                           *)
(*  - run_pipeline is external: a node's forecast succeeds or raises.      *)
(*  - Opening a file and writing the buffered text are two steps; a write  *)
(*    leaves the whole text or nothing.                                    *)
(*  - Time runs in ticks shorter than the second a run_id is formatted to, *)
(*    and the wall clock is not set back.                                  *)
(*  - A pass has a history number, `run', that no file name contains.      *)
(***************************************************************************)
EXTENDS Naturals, Sequences, FiniteSets, SequencesExt

CONSTANTS
  NodeNames,       \* SchedulerConfig.node_names
  MaxRuns,         \* --max-runs (a bound for 0, no limit)
  Interval,        \* --interval-seconds, in ticks
  TicksPerSecond,
  MaxLaunches,     \* bound: launches of the process
  MaxTime          \* bound: the clock

ASSUME SchedulerAssumption ==
  /\ NodeNames \in Seq(ToSet(NodeNames)) /\ IsInjective(NodeNames) /\ Len(NodeNames) > 0
  /\ MaxRuns \in Nat \ {0} /\ MaxLaunches \in Nat /\ MaxTime \in Nat
  /\ TicksPerSecond \in Nat \ {0} /\ Interval \in Nat /\ Interval >= TicksPerSecond

VARIABLES
  now, launches,
  step,        \* where the process stands
  counter,     \* run_count
  start,       \* time.time() before the pass
  node,        \* index of the node of the pass
  payload,     \* payload["nodes"]: status of each node so far
  inTry,       \* is the append the one inside the try?
  needHeader,  \* write_header
  created,     \* does manifest.csv exist?
  manifest,    \* its lines
  artifacts,   \* file name -> what the file holds
  passes,      \* history: name and launch of every pass, and whether it returned
  headerLost   \* history: the append that created the manifest wrote nothing

Header == [run |-> 0, node |-> 0, status |-> "header"]
Statuses == {"ok", "error"}
clock   == <<now, launches>>
pass    == <<counter, start, node, payload>>
append  == <<inTry, needHeader>>
disk    == <<created, manifest, artifacts>>
history == <<passes, headerLost>>
vars    == <<clock, step, pass, append, disk, history>>

Run == Len(passes)
Idle == {"stopped", "finished"}

\* A bug: a file per second, without the pass's counter.
SecondOnly == <<now \div TicksPerSecond>>
\* run_<run_id>_<counter>.json
FileName == <<now \div TicksPerSecond, counter>>

Init ==
  /\ now = 0 /\ launches = 0 /\ step = "stopped"
  /\ counter = 0 /\ start = 0 /\ node = 1 /\ payload = <<>>
  /\ inTry = FALSE /\ needHeader = FALSE
  /\ created = FALSE /\ manifest = <<>> /\ artifacts = <<>>
  /\ passes = <<>> /\ headerLost = FALSE

Tick ==
  /\ now < MaxTime /\ now' = now + 1
  /\ UNCHANGED <<launches, step, pass, append, disk, history>>

Launch ==
  /\ step \in Idle /\ launches < MaxLaunches
  /\ launches' = launches + 1
  /\ step' = "loop" /\ counter' = 0
  /\ UNCHANGED <<now, start, node, payload, append, disk, history>>

\* Killed, interrupted, or ended by an exception nobody catches.
Stop ==
  /\ step \notin Idle
  /\ step' = "stopped"
  /\ headerLost' = (headerLost \/ (step = "write" /\ needHeader))
  /\ UNCHANGED <<clock, pass, append, disk, passes>>

\* The next pass of main(), after the sleep.
StartRun ==
  /\ step = "loop" /\ (counter > 0 => now >= start + Interval)
  /\ counter' = counter + 1 /\ start' = now
  /\ step' = "stamp"
  /\ UNCHANGED <<clock, node, payload, append, disk, history>>

\* _run_once reads the clock a second time, for the run_id.
StampRun ==
  /\ step = "stamp"
  /\ passes' = Append(passes, [file |-> FileName, launch |-> launches, over |-> FALSE])
  /\ node' = 1 /\ payload' = <<>>
  /\ step' = "nodes"
  /\ UNCHANGED <<clock, counter, start, append, disk, headerLost>>

Forecast ==
  /\ step = "nodes" /\ node <= Len(NodeNames)
  /\ \E s \in Statuses : payload' = Append(payload, s) /\ inTry' = (s = "ok")
  /\ step' = "open"
  /\ UNCHANGED <<clock, counter, start, node, needHeader, disk, history>>

Missing == ~created

OpenManifest ==
  /\ step = "open"
  /\ needHeader' = Missing
  /\ created' = TRUE
  /\ step' = "write"
  /\ UNCHANGED <<clock, pass, inTry, manifest, artifacts, history>>

\* The buffered lines reach the file when it is closed.
WriteRow ==
  /\ step = "write"
  /\ manifest' = manifest \o (IF needHeader THEN <<Header>> ELSE <<>>)
                          \o <<[run |-> Run, node |-> node,
                                 status |-> IF inTry THEN "ok" ELSE "error"]>>
  /\ node' = node + 1
  /\ step' = "nodes"
  /\ UNCHANGED <<clock, counter, start, payload, append, created, artifacts, history>>

NodeFailed == [payload EXCEPT ![node] = "error"]

\* The append raises: inside the try the node is reported as failed instead, and
\* in the handler nobody catches it (Stop).
AppendFails ==
  /\ step \in {"open", "write"} /\ inTry
  /\ payload' = NodeFailed /\ inTry' = FALSE
  /\ headerLost' = (headerLost \/ (step = "write" /\ needHeader))
  /\ step' = "open"
  /\ UNCHANGED <<clock, counter, start, node, needHeader, disk, passes>>

\* The JSON file is created or truncated, whatever an earlier pass left in it.
OpenArtifact ==
  /\ step = "nodes" /\ node > Len(NodeNames)
  /\ artifacts' = [f \in DOMAIN artifacts \cup {passes[Run].file} |->
                     IF f = passes[Run].file THEN [run |-> Run, nodes |-> <<>>] ELSE artifacts[f]]
  /\ step' = "report"
  /\ UNCHANGED <<clock, pass, append, created, manifest, history>>

\* A bug: one pass too many.
BeyondLast == counter > MaxRuns
LastRun == counter >= MaxRuns

WriteArtifact ==
  /\ step = "report"
  /\ artifacts' = [artifacts EXCEPT ![passes[Run].file].nodes = payload]
  /\ passes' = [passes EXCEPT ![Run].over = TRUE]
  /\ step' = IF LastRun THEN "finished" ELSE "loop"
  /\ UNCHANGED <<clock, pass, append, created, manifest, headerLost>>

Next ==
  \/ Tick \/ Launch \/ Stop \/ StartRun \/ StampRun \/ Forecast
  \/ OpenManifest \/ WriteRow \/ AppendFails \/ OpenArtifact \/ WriteArtifact

Spec == Init /\ [][Next]_vars
-----------------------------------------------------------------------------
(***************************************************************************)
(* Properties.                                                             *)
(***************************************************************************)
RowsOf(lines, r, n) == {i \in DOMAIN lines : lines[i].run = r /\ lines[i].node = n}

Rows == [run : 1..Run, node : DOMAIN NodeNames, status : Statuses]
FileNames == (0..MaxTime) \X (1..MaxRuns)

\* The variables have the types of the values they stand for, and main() starts no
\* more passes than --max-runs.
TypeOK ==
  /\ now \in 0..MaxTime /\ launches \in 0..MaxLaunches
  /\ step \in Idle \cup {"loop", "stamp", "nodes", "open", "write", "report"}
  /\ counter \in 0..MaxRuns /\ start \in 0..MaxTime
  /\ node \in 1..(Len(NodeNames) + 1)
  /\ payload \in Seq(Statuses) /\ Len(payload) <= Len(NodeNames)
  /\ {inTry, needHeader, created, headerLost} \subseteq BOOLEAN
  /\ manifest \in Seq(Rows \cup {Header})
  /\ DOMAIN artifacts \subseteq FileNames
  /\ \A f \in DOMAIN artifacts : artifacts[f] \in [run : 1..Run, nodes : Seq(Statuses)]
  /\ passes \in Seq([file : FileNames, launch : 0..MaxLaunches, over : BOOLEAN])

\* The two records of a pass agree, although a failed append changes a node's
\* status half way: a node has at most one row in a pass, and a JSON file that was
\* written has exactly the row's status for every node.
RecordsAgree ==
  /\ \A r \in 1..Run, n \in DOMAIN NodeNames : Cardinality(RowsOf(manifest, r, n)) <= 1
  /\ \A f \in DOMAIN artifacts :
       artifacts[f].nodes # <<>> =>
         \A n \in DOMAIN NodeNames : \E i \in RowsOf(manifest, artifacts[f].run, n) :
           manifest[i].status = artifacts[f].nodes[n]

\* No pass of a process overwrites the file of an earlier one, although two passes
\* may get the same run_id: a file is lost only to a later launch of the program
\* in the same second.
PassKept ==
  \A r \in 1..Run :
    passes[r].over =>
      /\ passes[r].file \in DOMAIN artifacts
      /\ LET holder == artifacts[passes[r].file].run
         IN  holder # r => passes[holder].launch > passes[r].launch

\* The header is written once, above all rows, and is missing only when the append
\* that created the manifest was cut off or failed.
HeaderFirst ==
  /\ \A i \in DOMAIN manifest : manifest[i] = Header => i = 1
  /\ manifest # <<>> /\ manifest[1] # Header => headerLost

\* The records of the passes survive a stop, a failing append and a relaunch: they agree,
\* stay, and keep their header.
RecordsKept == RecordsAgree /\ PassKept /\ HeaderFirst
=============================================================================
