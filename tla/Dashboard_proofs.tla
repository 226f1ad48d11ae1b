--------------------------- MODULE Dashboard_proofs ---------------------------
(***************************************************************************)
(* Proofs about Dashboard, for any number of sessions, stations and source *)
(* versions, any ttl and any make commands: what the evidence on disk      *)
(* holds, what the backtest page shows beside a fresh verdict, and what    *)
(* the live view shows.                                                    *)
(***************************************************************************)
EXTENDS Dashboard, FiniteSetTheorems, SequenceTheorems, TLAPS
-----------------------------------------------------------------------------
(***************************************************************************)
(* The make targets.                                                       *)
(***************************************************************************)
Inputs(out) == out.needs \cup out.parses \cup out.reads
Trained == {"model", "ablation", "metadata"}

\* Where `make demo` writes a file: ten times the number of its target, and its line; it
\* does not write those that ask NOAA.
Place ==
  [live |-> 0, allow_mock |-> 1, model |-> 21, ablation |-> 22, metadata |-> 23, html |-> 31, benchmark |-> 41,
   horizons |-> 51, events |-> 61, rolling |-> 71, conformal |-> 81, mock |-> 91, actual |-> 101,
   errors |-> 102, baselines |-> 103, audit |-> 111, summary |-> 121]

\* What the proofs need of an output of a target.
Proper(t, out) ==
  /\ out.file \in Files \cup {"data"} /\ Inputs(out) \subseteq Files \ {out.file}
  /\ out.file = "data" => t = "demo_data"
  /\ out.file # "data" => \A g \in Inputs(out) : Place[g] < Place[out.file]
  /\ out.file \in Trained => t = "train"
  /\ out.file = "summary" => "metadata" \in Inputs(out)

\* Every target writes at least one file; only demo_data writes the data, only train the
\* model and what belongs to it, and no script reads what it is about to write,
\* nor what `make demo` writes later.
LEMMA RecipeOutputs ==
  /\ \A t \in Targets : /\ Len(Recipe[t]) \in 1..3
                        /\ \A i \in 1..Len(Recipe[t]) : Proper(t, Recipe[t][i])
  /\ "train" \in Targets /\ Len(Recipe["train"]) = 3
  /\ Recipe["train"][1].file = "model" /\ Recipe["train"][2].file = "ablation"
  /\ Recipe["train"][3].file = "metadata"
<1>1. /\ "train" \in Targets /\ Len(Recipe["train"]) = 3
      /\ Recipe["train"][1].file = "model" /\ Recipe["train"][2].file = "ablation"
      /\ Recipe["train"][3].file = "metadata"
  BY DEF Targets, Recipe, Train, Alone, Output
<1>2. ASSUME NEW t \in Targets
      PROVE  \/ \E o : Recipe[t] = <<o>> /\ Proper(t, o)
             \/ \E o, p, q : Recipe[t] = <<o, p, q>> /\ Proper(t, o) /\ Proper(t, p) /\ Proper(t, q)
  <2>1. CASE t = "demo_data"
    BY <2>1 DEF Recipe, DemoData, Alone, Output, Proper, Inputs, Trained, Files, Place
  <2>2. CASE t = "train"
    BY <2>2 DEF Recipe, Train, Alone, Output, Proper, Inputs, Trained, Files, Place
  <2>3. CASE t = "report"
    BY <2>3 DEF Recipe, Report, Alone, Output, Proper, Inputs, Trained, Files, Place
  <2>4. CASE t = "benchmark"
    BY <2>4 DEF Recipe, Benchmark, Alone, Output, Proper, Inputs, Trained, Files, Place
  <2>5. CASE t = "horizons"
    BY <2>5 DEF Recipe, Horizons, Alone, Output, Proper, Inputs, Trained, Files, Place
  <2>6. CASE t = "events"
    BY <2>6 DEF Recipe, Events, Alone, Output, Proper, Inputs, Trained, Files, Place
  <2>7. CASE t = "rolling_origin"
    BY <2>7 DEF Recipe, RollingOrigin, Alone, Output, Proper, Inputs, Trained, Files, Place
  <2>8. CASE t = "conformal"
    BY <2>8 DEF Recipe, Conformal, Alone, Output, Proper, Inputs, Trained, Files, Place
  <2>9. CASE t = "noaa_eval"
    BY <2>9 DEF Recipe, NoaaEval, Alone, Output, Proper, Inputs, Trained, Files, Place
  <2>10. CASE t = "noaa_eval_offline"
    BY <2>10 DEF Recipe, NoaaEvalOffline, Alone, Output, Proper, Inputs, Trained, Files, Place
  <2>11. CASE t = "visuals"
    BY <2>11 DEF Recipe, Visuals, Alone, Output, Proper, Inputs, Trained, Files, Place
  <2>12. CASE t = "scientific_audit"
    BY <2>12 DEF Recipe, ScientificAudit, Alone, Output, Proper, Inputs, Trained, Files, Place
  <2>13. CASE t = "summary"
    BY <2>13 DEF Recipe, Summary, Alone, Output, Proper, Inputs, Trained, Files, Place
  <2>14. CASE t = "noaa_allow_mock"
    BY <2>14 DEF Recipe, NoaaAllowMock, Alone, Output, Proper, Inputs, Trained, Files, Place
  <2> QED BY <2>1, <2>2, <2>3, <2>4, <2>5, <2>6, <2>7, <2>8, <2>9, <2>10, <2>11, <2>12, <2>13, <2>14
          DEF Targets, Recipe
<1>3. ASSUME NEW t \in Targets
      PROVE  /\ Len(Recipe[t]) \in 1..3
             /\ \A i \in 1..Len(Recipe[t]) : Proper(t, Recipe[t][i])
  <2> DEFINE r == Recipe[t]
  <2>1. \/ \E o : r = <<o>> /\ Proper(t, o)
        \/ \E o, p, q : r = <<o, p, q>> /\ Proper(t, o) /\ Proper(t, p) /\ Proper(t, q)
    BY <1>2
  <2> HIDE DEF r
  <2>2. ASSUME \E o : r = <<o>> /\ Proper(t, o)
        PROVE  Len(r) \in 1..3 /\ \A i \in 1..Len(r) : Proper(t, r[i])
    <3>1. PICK o : r = <<o>> /\ Proper(t, o)
      BY <2>2
    <3>2. Len(r) = 1 /\ r[1] = o
      BY <3>1
    <3>3. \A i \in 1..Len(r) : i = 1
      BY <3>2
    <3> QED BY <3>1, <3>2, <3>3
  <2>3. ASSUME \E o, p, q : r = <<o, p, q>> /\ Proper(t, o) /\ Proper(t, p) /\ Proper(t, q)
        PROVE  Len(r) \in 1..3 /\ \A i \in 1..Len(r) : Proper(t, r[i])
    <3>1. PICK o, p, q : r = <<o, p, q>> /\ Proper(t, o) /\ Proper(t, p) /\ Proper(t, q)
      BY <2>3
    <3>2. Len(r) = 3 /\ r[1] = o /\ r[2] = p /\ r[3] = q
      BY <3>1
    <3>3. \A i \in 1..Len(r) : i = 1 \/ i = 2 \/ i = 3
      BY <3>2
    <3> QED BY <3>1, <3>2, <3>3
  <2>4. /\ Len(r) \in 1..3
        /\ \A i \in 1..Len(r) : Proper(t, r[i])
    BY <2>1, <2>2, <2>3
  <2> QED BY <2>4 DEF r
<1> QED BY <1>1, <1>3
-----------------------------------------------------------------------------
(***************************************************************************)
(* The evidence.                                                           *)
(***************************************************************************)
AnySource == Source \cup {NoSource}
\* A report that parses and was computed from the source.
Sound(f, source) == Readable(f) /\ reports[f].source = source

\* The running script is at one of its writes; what it is about to write is made of the
\* source it loaded, and a file it has opened is torn.
ShellInv ==
  /\ queue \in Seq(Targets)
  /\ phase # "none" => line \in 1..Len(Recipe[Target])
  /\ phase \in {"none", "start"} => line = 1
  /\ phase \in {"read", "open", "write"} => loaded \in Source
  /\ phase \in {"open", "write"} =>
       /\ text.source \in Source /\ (Out.file # "metadata" => text.source = loaded)
       /\ DOMAIN text.of = Inputs(Out) /\ \A g \in Inputs(Out) : text.of[g] \in AnySource
  /\ phase = "write" /\ Out.file # "data" => Out.file \in torn

\* A training that has started is tainted until its metadata is written; by then the files
\* written before it are of the source it loaded.
TrainInv ==
  /\ phase \in {"read", "open", "write"} /\ Target = "train" =>
       /\ tainted
       /\ line > 1 => Sound("model", loaded)
       /\ line > 2 => Sound("ablation", loaded)
  /\ ~tainted /\ Readable("metadata") =>
       Sound("model", reports["metadata"].source) /\ Sound("ablation", reports["metadata"].source)

EvidenceInv == EvidenceTypeOK /\ ShellInv /\ TrainInv

\* The running script's output is one of its target's.
LEMMA RunningOutput ==
  ASSUME EvidenceTypeOK, ShellInv, phase # "none"
  PROVE  /\ Target \in Targets /\ Proper(Target, Out) /\ line \in Nat
         /\ Len(Recipe[Target]) \in Nat /\ queue # <<>> /\ Tail(queue) \in Seq(Targets)
         /\ Target = "train" => Len(Recipe[Target]) = 3 /\ Out.file = Recipe["train"][line].file
<1>1. queue \in Seq(Targets) /\ queue # <<>> /\ line \in 1..Len(Recipe[Target])
  BY DEF ShellInv, EvidenceTypeOK
<1>2. Target \in Targets /\ Tail(queue) \in Seq(Targets)
  BY <1>1 DEF Target
<1> QED BY <1>1, <1>2, RecipeOutputs DEF Out

\* After a write the script goes on, or the next target starts, or the command is over.
LEMMA DoneCases ==
  ASSUME EvidenceTypeOK, ShellInv, phase # "none", Done
  PROVE  \/ /\ phase' = "read" /\ line < Len(Recipe[Target]) /\ line' = line + 1
            /\ UNCHANGED <<queue, loaded>>
         \/ /\ line = Len(Recipe[Target]) /\ phase' = "start" /\ line' = 1
            /\ queue' = Tail(queue) /\ queue' \in Seq(Targets) /\ queue' # <<>>
         \/ /\ line = Len(Recipe[Target]) /\ phase' = "none" /\ line' = 1 /\ queue' = <<>>
            /\ Len(queue) = 1
<1>1. /\ queue \in Seq(Targets) /\ queue # <<>> /\ Tail(queue) \in Seq(Targets)
      /\ line \in 1..Len(Recipe[Target]) /\ Len(Recipe[Target]) \in Nat
  BY RunningOutput DEF ShellInv
<1>2. Len(queue) # 1 => Tail(queue) # <<>>
  <2>1. Len(queue) \in Nat /\ Len(queue) # 0 /\ Len(Tail(queue)) = Len(queue) - 1
    BY <1>1, EmptySeq, HeadTailProperties
  <2>2. Len(<<>>) = 0
    OBVIOUS
  <2> QED BY <2>1, <2>2
<1>3. ~(line < Len(Recipe[Target])) => line = Len(Recipe[Target])
  BY <1>1
<1> QED BY <1>1, <1>2, <1>3 DEF Done, Quit

\* What a script finds out about a file is a source, or that there is none.
LEMMA SourceOfType ==
  ASSUME EvidenceTypeOK
  PROVE  \A f : SourceOf(f) \in AnySource
BY DEF EvidenceTypeOK, SourceOf, Readable, AnySource

\* At a new target's start, or when the command is over, nothing is asked of the script.
LEMMA ShellAtRest ==
  ASSUME \/ queue' \in Seq(Targets) /\ queue' # <<>> /\ phase' = "start" /\ line' = 1
         \/ queue' = <<>> /\ phase' = "none" /\ line' = 1
  PROVE  ShellInv'
<1>1. queue' \in Seq(Targets)
  <2>1. <<>> \in Seq(Targets)
    OBVIOUS
  <2> QED BY <2>1
<1>2. phase' # "none" => line' \in 1..Len(Recipe[Target'])
  <2>1. queue' # <<>> => Head(queue') \in Targets
    BY <1>1
  <2>2. ASSUME queue' # <<>> PROVE 1 \in 1..Len(Recipe[Head(queue')])
    <3> DEFINE n == Len(Recipe[Head(queue')])
    <3>1. n \in 1..3
      BY <2>1, <2>2, RecipeOutputs
    <3>2. 1 \in 1..n
      <4> HIDE DEF n
      <4> QED BY <3>1
    <3> QED BY <3>2
  <2> QED BY <2>2 DEF Target
<1>3. phase' \in {"none", "start"} /\ line' = 1
  OBVIOUS
<1> QED BY <1>1, <1>2, <1>3 DEF ShellInv

\* Every step keeps the state of the shell.
LEMMA ShellKeeps ==
  ASSUME EvidenceTypeOK, ShellInv, EvidenceNext
  PROVE  ShellInv'
<1> USE DEF Target
<1>1. CASE Make
  <2>1. PICK c \in Commands : queue' = IF c = "demo" THEN Demo ELSE <<c>>
    BY <1>1 DEF Make
  <2>2. c \in Targets \cup {"demo"}
    BY CommandsAssumption
  <2>3. Demo \in Seq(Targets) /\ Demo # <<>>
    BY DEF Demo, Targets, Recipe
  <2>4. queue' \in Seq(Targets) /\ queue' # <<>>
    BY <2>1, <2>2, <2>3
  <2>5. phase' = "start" /\ line' = 1
    BY <1>1 DEF Make, ShellInv, EvidenceTypeOK
  <2> QED BY <2>4, <2>5, ShellAtRest
<1>2. CASE StartFails \/ ReadFails \/ Cut
  <2>1. queue' = <<>> /\ phase' = "none" /\ line' = 1
    BY <1>2 DEF StartFails, ReadFails, Cut, Quit
  <2> QED BY <2>1, ShellAtRest
<1>3. CASE Start
  <2>1. /\ phase = "start" /\ phase' = "read" /\ loaded' = Current /\ UNCHANGED <<queue, line>>
    BY <1>3 DEF Start
  <2>2. Current \in Source
    BY DEF EvidenceTypeOK
  <2> QED BY <2>1, <2>2 DEF ShellInv
<1>4. CASE NothingToBenchmark \/ Write
  <2>1. phase # "none" /\ Done
    BY <1>4 DEF NothingToBenchmark, Write
  <2>2. CASE /\ phase' = "read" /\ line < Len(Recipe[Target]) /\ line' = line + 1
             /\ UNCHANGED <<queue, loaded>>
    <3>1. line \in Nat /\ Len(Recipe[Target]) \in Nat /\ line \in 1..Len(Recipe[Target])
      BY <2>1, RunningOutput DEF ShellInv
    <3>2. line' \in 1..Len(Recipe[Target']) /\ queue' = queue
      BY <2>2, <3>1
    <3>3. loaded \in Source
      BY <1>4 DEF NothingToBenchmark, Write, ShellInv
    <3> QED BY <2>2, <3>2, <3>3 DEF ShellInv
  <2> QED BY <2>1, <2>2, DoneCases, ShellAtRest
<1>5. CASE Read
  <2>1. /\ phase = "read" /\ phase' = "open" /\ UNCHANGED <<queue, line, loaded>>
        /\ text' = IF Out.file = "metadata" THEN [Made EXCEPT !.source = Current] ELSE Made
    BY <1>5 DEF Read
  <2>2. Made = [source |-> loaded, of |-> [f \in Inputs(Out) |-> SourceOf(f)]]
    BY DEF Made, Inputs
  <2>3. Current \in Source /\ loaded \in Source
    BY <2>1 DEF EvidenceTypeOK, ShellInv
  <2>4. /\ text'.source \in Source /\ (Out.file # "metadata" => text'.source = loaded)
        /\ text'.of = [f \in Inputs(Out) |-> SourceOf(f)]
    BY <2>1, <2>2, <2>3
  <2>5. DOMAIN text'.of = Inputs(Out) /\ \A g \in Inputs(Out) : text'.of[g] \in AnySource
    BY <2>4, SourceOfType
  <2>6. Out' = Out
    BY <2>1 DEF Out
  <2> QED BY <2>1, <2>3, <2>4, <2>5, <2>6 DEF ShellInv
<1>6. CASE Open
  <2>1. /\ phase = "open" /\ phase' = "write" /\ UNCHANGED <<queue, line, loaded, text>>
        /\ Out.file # "data" => torn' = torn \cup {Out.file}
    BY <1>6 DEF Open
  <2>2. Out' = Out
    BY <2>1 DEF Out
  <2> QED BY <2>1, <2>2 DEF ShellInv
<1>7. CASE Edit
  <2>1. UNCHANGED <<queue, line, loaded, text, phase, torn>>
    BY <1>7 DEF Edit, shell
  <2>2. Out' = Out
    BY <2>1 DEF Out
  <2> QED BY <2>1, <2>2 DEF ShellInv
<1> QED BY <1>1, <1>2, <1>3, <1>4, <1>5, <1>6, <1>7 DEF EvidenceNext

\* Every step keeps the types.
LEMMA EvidenceTypeKeeps ==
  ASSUME EvidenceTypeOK, ShellInv, EvidenceNext
  PROVE  EvidenceTypeOK'
<1>1. ASSUME UNCHANGED <<code, data>> \/ Current' \in Source, UNCHANGED <<reports, torn>>
      PROVE  /\ Current' \in Source /\ torn' \subseteq DOMAIN reports' /\ DOMAIN reports' \subseteq Files
             /\ \A f \in DOMAIN reports' :
                  /\ reports'[f].source \in AnySource
                  /\ \A g \in DOMAIN reports'[f].of : reports'[f].of[g] \in AnySource
  BY <1>1 DEF EvidenceTypeOK, Current, AnySource
<1>2. MaxEdits \in Nat /\ MaxCommands \in Nat /\ MaxCuts \in Nat
  BY EvidenceAssumption
<1>3. CASE Make
  <2>1. PICK c \in Commands : given' = c /\ queue' = IF c = "demo" THEN Demo ELSE <<c>>
    BY <1>3 DEF Make
  <2>2. queue' # <<>>
    BY <2>1 DEF Demo
  <2>3. phase' = "start" /\ commands' \in 0..MaxCommands
    BY <1>2, <1>3 DEF Make, EvidenceTypeOK
  <2>4. UNCHANGED <<disk, edits, cuts, tainted>> /\ edited' = FALSE
    BY <1>3 DEF Make
  <2> QED BY <1>1, <2>1, <2>2, <2>3, <2>4 DEF EvidenceTypeOK, disk, AnySource
<1>4. CASE StartFails \/ ReadFails \/ Cut
  <2>1. /\ queue' = <<>> /\ phase' = "none" /\ UNCHANGED <<disk, edits, commands, made, tainted>>
        /\ cuts' \in 0..MaxCuts
    BY <1>2, <1>4 DEF StartFails, ReadFails, Cut, Quit, bounds, EvidenceTypeOK
  <2> QED BY <1>1, <2>1 DEF EvidenceTypeOK, disk, made, AnySource
<1>5. CASE Start \/ Read
  <2>1. /\ UNCHANGED <<disk, queue, bounds, made>> /\ phase \in {"start", "read"}
        /\ phase' \in {"read", "open"} /\ tainted' \in BOOLEAN
    BY <1>5 DEF Start, Read, EvidenceTypeOK
  <2> QED BY <1>1, <2>1 DEF EvidenceTypeOK, disk, bounds, made, AnySource
<1>6. CASE NothingToBenchmark
  <2>1. UNCHANGED <<disk, bounds, made, tainted>> /\ Done /\ phase = "read"
    BY <1>6 DEF NothingToBenchmark
  <2>2. phase' \in {"none", "read", "start"} /\ (phase' = "none" <=> queue' = <<>>)
    BY <2>1, DoneCases, RunningOutput
  <2> QED BY <1>1, <2>1, <2>2 DEF EvidenceTypeOK, disk, bounds, made, AnySource
<1>7. CASE Open
  <2>1. Proper(Target, Out)
    BY <1>7, RunningOutput DEF Open
  <2>2. Out.file \in Files \cup {"data"}
    BY <2>1 DEF Proper
  <2>3. /\ UNCHANGED <<code, queue, bounds, made, tainted>> /\ phase = "open" /\ phase' = "write"
    BY <1>7 DEF Open
  <2>4. CASE Out.file = "data"
    <3>1. Current' \in Source /\ UNCHANGED <<reports, torn>>
      BY <1>7, <2>4 DEF Open, EvidenceTypeOK, Current, Source
    <3> QED BY <1>1, <2>3, <3>1 DEF EvidenceTypeOK, bounds, made, AnySource
  <2>5. CASE Out.file # "data"
    <3>1. /\ UNCHANGED data /\ torn' = torn \cup {Out.file}
          /\ reports' = [f \in DOMAIN reports \cup {Out.file} |->
                           IF f = Out.file THEN NoText ELSE reports[f]]
      BY <1>7, <2>5 DEF Open
    <3>2. NoText.source = NoSource /\ DOMAIN NoText.of = {}
      BY DEF NoText
    <3>3. /\ Current' = Current /\ torn' \subseteq DOMAIN reports' /\ DOMAIN reports' \subseteq Files
      BY <2>2, <2>3, <2>5, <3>1 DEF EvidenceTypeOK, Current
    <3>4. \A f \in DOMAIN reports' :
            /\ reports'[f].source \in AnySource
            /\ \A g \in DOMAIN reports'[f].of : reports'[f].of[g] \in AnySource
      BY <3>1, <3>2 DEF EvidenceTypeOK, AnySource
    <3> QED BY <2>3, <3>3, <3>4 DEF EvidenceTypeOK, bounds, made, AnySource
  <2> QED BY <2>4, <2>5
<1>8. CASE Write
  <2>1. /\ UNCHANGED <<code, bounds, made>> /\ phase = "write" /\ Done /\ tainted' \in BOOLEAN
    BY <1>8 DEF Write, EvidenceTypeOK
  <2>2. phase' \in {"none", "read", "start"} /\ (phase' = "none" <=> queue' = <<>>)
    BY <2>1, DoneCases, RunningOutput
  <2>3. loaded \in Source /\ text.source \in AnySource
        /\ \A g \in DOMAIN text.of : text.of[g] \in AnySource
    BY <2>1 DEF ShellInv, AnySource
  <2>4. CASE Out.file = "data"
    <3>1. Current' \in Source /\ UNCHANGED <<reports, torn>>
      BY <1>8, <2>1, <2>3, <2>4 DEF Write, EvidenceTypeOK, Current, Source
    <3> QED BY <1>1, <2>1, <2>2, <3>1 DEF EvidenceTypeOK, bounds, made, AnySource
  <2>5. CASE Out.file # "data"
    <3>1. /\ UNCHANGED data /\ torn' = torn \ {Out.file}
          /\ reports' = [reports EXCEPT ![Out.file] = text]
      BY <1>8, <2>5 DEF Write
    <3>2. /\ Current' = Current /\ torn' \subseteq DOMAIN reports' /\ DOMAIN reports' \subseteq Files
      BY <2>1, <3>1 DEF EvidenceTypeOK, Current
    <3>3. \A f \in DOMAIN reports' :
            /\ reports'[f].source \in AnySource
            /\ \A g \in DOMAIN reports'[f].of : reports'[f].of[g] \in AnySource
      BY <2>3, <3>1 DEF EvidenceTypeOK, AnySource
    <3> QED BY <2>1, <2>2, <3>2, <3>3 DEF EvidenceTypeOK, bounds, made, AnySource
  <2> QED BY <2>4, <2>5
<1>9. CASE Edit
  <2>1. /\ code' \in Versions /\ UNCHANGED <<data, reports, torn, shell, commands, cuts, given, tainted>>
        /\ edits' \in 0..MaxEdits /\ edited' = TRUE
    BY <1>2, <1>9 DEF Edit, EvidenceTypeOK
  <2>2. Current' \in Source
    BY <2>1 DEF EvidenceTypeOK, Current, Source
  <2> QED BY <1>1, <2>1, <2>2 DEF EvidenceTypeOK, shell, AnySource
<1> QED BY <1>3, <1>4, <1>5, <1>6, <1>7, <1>8, <1>9 DEF EvidenceNext

\* Opening and writing a file changes no other.
LEMMA OthersKept ==
  ASSUME Open \/ Write, NEW f, f # Out.file
  PROVE  /\ f \in DOMAIN reports' <=> f \in DOMAIN reports
         /\ f \in torn' <=> f \in torn
         /\ f \in DOMAIN reports => reports'[f] = reports[f]
         /\ Readable(f)' <=> Readable(f)
<1>1. CASE UNCHANGED <<reports, torn>>
  BY <1>1 DEF Readable
<1>2. CASE /\ torn' = torn \cup {Out.file}
           /\ reports' = [g \in DOMAIN reports \cup {Out.file} |->
                            IF g = Out.file THEN NoText ELSE reports[g]]
  <2>1. DOMAIN reports' = DOMAIN reports \cup {Out.file}
    BY <1>2
  <2> QED BY <1>2, <2>1 DEF Readable
<1>3. CASE torn' = torn \ {Out.file} /\ reports' = [reports EXCEPT ![Out.file] = text]
  BY <1>3 DEF Readable
<1> QED BY <1>1, <1>2, <1>3 DEF Open, Write

\* The write of a file leaves it as the text, without a tear.
LEMMA FileWritten ==
  ASSUME EvidenceTypeOK, ShellInv, Write, Out.file # "data"
  PROVE  \A f : f = Out.file => Readable(f)' /\ reports'[f] = text
<1>1. Out.file \in torn /\ torn \subseteq DOMAIN reports
  BY DEF Write, ShellInv, EvidenceTypeOK
<1>2. torn' = torn \ {Out.file} /\ reports' = [reports EXCEPT ![Out.file] = text]
  BY DEF Write
<1>3. /\ Out.file \in DOMAIN reports' /\ Out.file \notin torn'
      /\ reports'[Out.file] = text
  BY <1>1, <1>2
<1> QED BY <1>3 DEF Readable

\* Every step keeps what is known of trainings.
LEMMA TrainKeeps ==
  ASSUME EvidenceInv, EvidenceNext
  PROVE  TrainInv'
<1>0. EvidenceTypeOK /\ ShellInv /\ TrainInv
  BY DEF EvidenceInv
<1> DEFINE Busy == phase \in {"read", "open", "write"} /\ Target = "train"
<1>1. CASE Make \/ StartFails \/ ReadFails \/ Cut
  <2>1. UNCHANGED <<reports, torn, tainted>> /\ phase' \in {"none", "start"}
    BY <1>1 DEF Make, StartFails, ReadFails, Cut, Quit, disk
  <2> QED BY <1>0, <2>1 DEF TrainInv, Sound, Readable
<1>2. CASE Start
  <2>1. /\ UNCHANGED <<reports, torn, queue>> /\ line' = 1
        /\ tainted' = (tainted \/ Target = "train")
    BY <1>0, <1>2 DEF Start, disk, ShellInv
  <2>2. Target' = Target /\ ~(line' > 1) /\ ~(line' > 2)
    BY <2>1 DEF Target
  <2>3. ~tainted' => ~tainted
    BY <2>1
  <2> QED BY <1>0, <2>1, <2>2, <2>3 DEF TrainInv, Sound, Readable
<1>3. CASE Read \/ Edit
  <2>1. /\ UNCHANGED <<reports, torn, tainted, queue, line, loaded>>
        /\ phase' \in {"read", "open", "write"} => phase \in {"read", "open", "write"}
    BY <1>3 DEF Read, Edit, disk, shell
  <2>2. Target' = Target
    BY <2>1 DEF Target
  <2> QED BY <1>0, <2>1, <2>2 DEF TrainInv, Sound, Readable
<1>4. CASE NothingToBenchmark
  <2>1. UNCHANGED <<reports, torn, tainted>> /\ Target = "benchmark" /\ Done /\ phase # "none"
    BY <1>4 DEF NothingToBenchmark, disk
  <2>2. \/ phase' = "read" /\ queue' = queue
        \/ phase' \in {"none", "start"}
    BY <1>0, <2>1, DoneCases
  <2>3. ~(phase' \in {"read", "open", "write"} /\ Target' = "train")
    BY <2>1, <2>2 DEF Target
  <2> QED BY <1>0, <2>1, <2>3 DEF TrainInv, Sound, Readable
<1>5. CASE Open
  <2>1. /\ UNCHANGED <<queue, line, loaded, tainted>> /\ phase = "open" /\ phase' = "write"
    BY <1>5 DEF Open
  <2>2. Proper(Target, Out) /\ (Target = "train" => Out.file = Recipe["train"][line].file)
    BY <1>0, <2>1, RunningOutput
  <2>3. Target' = Target
    BY <2>1 DEF Target
  <2>4. ASSUME NEW f, NEW source, f # Out.file
        PROVE  /\ Sound(f, source) => Sound(f, source)'
               /\ Readable(f)' => (Readable(f) /\ reports'[f] = reports[f])
    BY <1>5, <2>4, OthersKept DEF Sound, Readable
  <2>5. CASE Target = "train"
    <3>1. line \in 1..3
      BY <1>0, <2>1, <2>5, RecipeOutputs DEF ShellInv, Target
    <3>2. /\ tainted /\ (line > 1 => Sound("model", loaded))
          /\ (line > 2 => Sound("ablation", loaded))
      BY <1>0, <2>1, <2>5 DEF TrainInv
    <3>3. /\ line > 1 => Sound("model", loaded)'
          /\ line > 2 => Sound("ablation", loaded)'
      <4>1. line > 1 => Out.file # "model"
        BY <2>2, <2>5, <3>1, RecipeOutputs
      <4>2. line > 2 => Out.file # "ablation"
        BY <2>2, <2>5, <3>1, RecipeOutputs
      <4> QED BY <2>1, <2>4, <3>2, <4>1, <4>2 DEF Sound
    <3> QED BY <2>1, <2>3, <3>2, <3>3 DEF TrainInv
  <2>6. CASE Target # "train"
    <3>1. Out.file \notin Trained
      BY <2>2, <2>6 DEF Proper
    <3>2. ASSUME ~tainted, Readable("metadata")'
          PROVE  /\ Sound("model", reports["metadata"].source)'
                 /\ Sound("ablation", reports["metadata"].source)'
      <4>1. Readable("metadata") /\ reports'["metadata"] = reports["metadata"]
        BY <2>4, <3>1, <3>2 DEF Trained
      <4>2. /\ Sound("model", reports["metadata"].source)
            /\ Sound("ablation", reports["metadata"].source)
        BY <1>0, <3>2, <4>1 DEF TrainInv
      <4> QED BY <2>4, <3>1, <4>1, <4>2 DEF Trained, Sound
    <3> QED BY <2>1, <2>3, <2>6, <3>2 DEF TrainInv
  <2> QED BY <2>5, <2>6
<1>6. CASE Write
  <2>1. phase = "write" /\ Done
    BY <1>6 DEF Write
  <2>2. Proper(Target, Out) /\ (Target = "train" => Out.file = Recipe["train"][line].file)
    BY <1>0, <2>1, RunningOutput
  <2>3. ASSUME NEW f, NEW source, f # Out.file
        PROVE  /\ Sound(f, source) => (Readable(f)' /\ reports'[f].source = source)
               /\ Readable(f)' => (Readable(f) /\ reports'[f] = reports[f])
    BY <1>6, <2>3, OthersKept DEF Sound, Readable
  <2>4. CASE Target # "train"
    <3>1. Out.file \notin Trained
      BY <2>2, <2>4 DEF Proper
    <3>2. tainted' = tainted
      BY <1>6, <3>1 DEF Write, Trained
    <3>3. ~(phase' \in {"read", "open", "write"} /\ Target' = "train")
      <4>1. \/ phase' = "read" /\ queue' = queue
            \/ phase' \in {"none", "start"}
        BY <1>0, <2>1, DoneCases
      <4> QED BY <2>4, <4>1 DEF Target
    <3>4. ASSUME ~tainted, Readable("metadata")'
          PROVE  /\ Sound("model", reports["metadata"].source)'
                 /\ Sound("ablation", reports["metadata"].source)'
      <4>1. Readable("metadata") /\ reports'["metadata"] = reports["metadata"]
        BY <2>3, <3>1, <3>4 DEF Trained
      <4>2. /\ Sound("model", reports["metadata"].source)
            /\ Sound("ablation", reports["metadata"].source)
        BY <1>0, <3>4, <4>1 DEF TrainInv
      <4> QED BY <2>3, <3>1, <4>1, <4>2 DEF Trained, Sound
    <3> QED BY <3>2, <3>3, <3>4 DEF TrainInv
  <2>5. CASE Target = "train"
    <3>1. line \in 1..3 /\ Len(Recipe[Target]) = 3
      BY <1>0, <2>1, <2>5, RecipeOutputs DEF ShellInv, Target
    <3>2. /\ tainted /\ (line > 1 => Sound("model", loaded))
          /\ (line > 2 => Sound("ablation", loaded))
      BY <1>0, <2>1, <2>5 DEF TrainInv
    <3>3. Out.file # "data"
      BY <2>2, <2>5 DEF Proper
    <3>4. \A f : f = Out.file => Readable(f)' /\ reports'[f] = text
      BY <1>0, <1>6, <3>3, FileWritten
    <3>5. CASE line = 3
      <4>1. Out.file = "metadata"
        BY <2>2, <2>5, <3>5, RecipeOutputs
      <4>2. phase' \in {"none", "start"}
        BY <1>0, <2>1, <3>1, <3>5, DoneCases
      <4>3. tainted' = (text.source # loaded) /\ reports'["metadata"] = text
        BY <1>6, <3>4, <4>1 DEF Write
      <4>4. /\ Readable("model")' /\ reports'["model"].source = loaded
            /\ Readable("ablation")' /\ reports'["ablation"].source = loaded
        BY <2>3, <3>2, <3>5, <4>1
      <4> QED BY <4>2, <4>3, <4>4 DEF TrainInv, Sound
    <3>6. CASE line # 3
      <4>1. Out.file = IF line = 1 THEN "model" ELSE "ablation"
        BY <2>2, <2>5, <3>1, <3>6, RecipeOutputs
      <4>2. phase' = "read" /\ line' = line + 1 /\ UNCHANGED <<queue, loaded>>
        BY <1>0, <2>1, <3>1, <3>6, DoneCases
      <4>3. tainted' = tainted /\ text.source = loaded
        BY <1>0, <1>6, <2>1, <4>1 DEF Write, ShellInv
      <4>4. Sound("model", loaded)'
        <5>1. CASE line = 1
          BY <3>4, <4>1, <4>2, <4>3, <5>1 DEF Sound
        <5>2. CASE line # 1
          BY <2>3, <3>1, <3>2, <4>1, <4>2, <5>2 DEF Sound
        <5> QED BY <5>1, <5>2
      <4>5. line' > 2 => Sound("ablation", loaded)'
        <5>1. line' > 2 => line = 2
          BY <3>1, <3>6, <4>2
        <5> QED BY <3>4, <4>1, <4>2, <4>3, <5>1 DEF Sound
      <4> QED BY <3>2, <4>3, <4>4, <4>5 DEF TrainInv
    <3> QED BY <3>5, <3>6
  <2> QED BY <2>4, <2>5
<1> QED BY <1>1, <1>2, <1>3, <1>4, <1>5, <1>6 DEF EvidenceNext

\* What passes the freshness check was trained from the current source.
LEMMA FreshIsTrained ==
  ASSUME EvidenceInv
  PROVE  FreshMeansRetrained
BY DEF EvidenceInv, TrainInv, FreshMeansRetrained, Fresh, Sound

\* The evidence there is at the start was made from one source, or is none.
LEMMA EvidenceStarts ==
  ASSUME EvidenceInit
  PROVE  EvidenceInv
<1>1. /\ torn = {} /\ queue = <<>> /\ phase = "none" /\ line = 1
      /\ edits = 0 /\ commands = 0 /\ cuts = 0 /\ given = "none" /\ ~edited /\ ~tainted
      /\ edited \in BOOLEAN /\ tainted \in BOOLEAN
  BY DEF EvidenceInit
<1>2. Current \in Source
  BY DEF EvidenceInit, Current, Source
<1>3. /\ DOMAIN reports \in {{}, Committed}
      /\ \A f \in DOMAIN reports :
           /\ reports[f].source = Current
           /\ \A g \in DOMAIN reports[f].of :
                reports[f].of[g] = IF g \in Committed THEN Current ELSE NoSource
  <2>1. CASE reports = [f \in {} |-> NoSource]
    BY <2>1
  <2>2. CASE ~(reports = [f \in {} |-> NoSource])
    <3> DEFINE Quoted(f) ==
             CASE f = "html" -> {"model"} [] f = "errors" -> {"horizons"}
               [] f = "baselines" -> {"model"} [] f = "audit" -> {"live"}
               [] f = "summary" -> Summary[1].reads [] OTHER -> {}
    <3>1. reports = [f \in Committed |-> [source |-> Current, of |->
                       [g \in Quoted(f) |-> IF g \in Committed THEN Current ELSE NoSource]]]
      BY <2>2 DEF EvidenceInit
    <3> HIDE DEF Quoted
    <3> QED BY <3>1
  <2> QED BY <2>1, <2>2
<1>4. MaxEdits \in Nat /\ MaxCommands \in Nat /\ MaxCuts \in Nat
  BY EvidenceAssumption
<1>5. EvidenceTypeOK
  <2>1. Committed \subseteq Files
    BY DEF Committed
  <2> QED BY <1>1, <1>2, <1>3, <1>4, <2>1 DEF EvidenceTypeOK
<1>6. ShellInv
  BY <1>1 DEF ShellInv
<1>7. TrainInv
  BY <1>1, <1>3 DEF TrainInv, Sound, Readable, Committed, Files
<1> QED BY <1>5, <1>6, <1>7 DEF EvidenceInv

\* The steps of the shell keep it, and so do all that leave the shell alone.
LEMMA EvidenceKeeps ==
  ASSUME EvidenceInv, EvidenceNext \/ UNCHANGED evidenceVars
  PROVE  EvidenceInv'
<1>1. CASE EvidenceNext
  BY <1>1, ShellKeeps, EvidenceTypeKeeps, TrainKeeps DEF EvidenceInv
<1>2. CASE UNCHANGED evidenceVars
  <2>1. UNCHANGED <<code, data, reports, torn, queue, loaded, line, phase, text, edits, commands,
                    cuts, given, edited, tainted>>
    BY <1>2 DEF evidenceVars, disk, shell, bounds, made
  <2>2. Current' = Current /\ Target' = Target /\ Out' = Out
    BY <2>1 DEF Current, Target, Out
  <2>3. EvidenceTypeOK'
    BY <2>1, <2>2 DEF EvidenceInv, EvidenceTypeOK
  <2>4. ShellInv'
    BY <2>1, <2>2 DEF EvidenceInv, ShellInv
  <2>5. TrainInv'
    BY <2>1, <2>2 DEF EvidenceInv, TrainInv, Sound, Readable
  <2> QED BY <2>3, <2>4, <2>5 DEF EvidenceInv
<1> QED BY <1>1, <1>2
-----------------------------------------------------------------------------
(***************************************************************************)
(* make demo.                                                              *)
(***************************************************************************)
\* The place of the write that is done after all before it.
Ordered(k, i, out) ==
  /\ out.file = "data" <=> k = 1
  /\ k # 1 => out.file \in Files /\ Place[out.file] = 10 * k + i

\* The write at each place, and the places in between that are not for a rebuilt file.
LEMMA DemoWrites ==
  ASSUME NEW k \in 1..12
  PROVE  /\ Demo[k] \in Targets
         /\ \A i \in 1..Len(Recipe[Demo[k]]) : Ordered(k, i, Recipe[Demo[k]][i])
         /\ \A f \in Rebuilt :
              Place[f] < 10 * (k + 1) + 1 => Place[f] <= 10 * k + Len(Recipe[Demo[k]])
         /\ Demo[k] = "benchmark" => Len(Recipe[Demo[k]]) = 1 /\ k = 4
<1> DEFINE P(n, r) ==
         /\ \A i \in 1..Len(r) : Ordered(n, i, r[i])
         /\ \A f \in Rebuilt : Place[f] < 10 * (n + 1) + 1 => Place[f] <= 10 * n + Len(r)
<1>1. ASSUME NEW n \in Nat, NEW o, Ordered(n, 1, o),
             \A f \in Rebuilt : Place[f] < 10 * (n + 1) + 1 => Place[f] <= 10 * n + 1
      PROVE  P(n, <<o>>)
  <2>1. Len(<<o>>) = 1 /\ <<o>>[1] = o /\ \A i \in 1..1 : i = 1
    OBVIOUS
  <2> QED BY <1>1, <2>1
<1>2. ASSUME NEW n \in Nat, NEW o, NEW p, NEW q, Ordered(n, 1, o), Ordered(n, 2, p), Ordered(n, 3, q),
             \A f \in Rebuilt : Place[f] < 10 * (n + 1) + 1 => Place[f] <= 10 * n + 3
      PROVE  P(n, <<o, p, q>>)
  <2>1. /\ Len(<<o, p, q>>) = 3 /\ <<o, p, q>>[1] = o /\ <<o, p, q>>[2] = p /\ <<o, p, q>>[3] = q
        /\ \A i \in 1..3 : i = 1 \/ i = 2 \/ i = 3
    OBVIOUS
  <2> QED BY <1>2, <2>1
<1>3. k \in {1, 2, 3, 4, 5, 6, 7, 8, 9, 10, 11, 12}
  OBVIOUS
<1>4. /\ Demo[1] = "demo_data" /\ Demo[2] = "train" /\ Demo[3] = "report" /\ Demo[4] = "benchmark"
      /\ Demo[5] = "horizons" /\ Demo[6] = "events" /\ Demo[7] = "rolling_origin"
      /\ Demo[8] = "conformal" /\ Demo[9] = "noaa_eval_offline" /\ Demo[10] = "visuals"
      /\ Demo[11] = "scientific_audit" /\ Demo[12] = "summary"
  BY DEF Demo
<1>5. Demo[k] \in Targets /\ (Demo[k] = "benchmark" => k = 4)
  BY <1>3, <1>4 DEF Targets, Recipe
<1>6. Len(Recipe["benchmark"]) = 1
  BY DEF Recipe, Benchmark
<1> HIDE DEF P
<1>7. P(k, Recipe[Demo[k]])
  <2>1. CASE k = 1
    BY <1>1, <1>4, <2>1 DEF Recipe, DemoData, Alone, Output, Ordered, Place, Rebuilt, Committed, Files
  <2>2. CASE k = 2
    BY <1>2, <1>4, <2>2 DEF Recipe, Train, Alone, Output, Ordered, Place, Rebuilt, Committed, Files
  <2>3. CASE k = 3
    BY <1>1, <1>4, <2>3 DEF Recipe, Report, Alone, Output, Ordered, Place, Rebuilt, Committed, Files
  <2>4. CASE k = 4
    BY <1>1, <1>4, <2>4 DEF Recipe, Benchmark, Alone, Output, Ordered, Place, Rebuilt, Committed, Files
  <2>5. CASE k = 5
    BY <1>1, <1>4, <2>5 DEF Recipe, Horizons, Alone, Output, Ordered, Place, Rebuilt, Committed, Files
  <2>6. CASE k = 6
    BY <1>1, <1>4, <2>6 DEF Recipe, Events, Alone, Output, Ordered, Place, Rebuilt, Committed, Files
  <2>7. CASE k = 7
    BY <1>1, <1>4, <2>7 DEF Recipe, RollingOrigin, Alone, Output, Ordered, Place, Rebuilt, Committed, Files
  <2>8. CASE k = 8
    BY <1>1, <1>4, <2>8 DEF Recipe, Conformal, Alone, Output, Ordered, Place, Rebuilt, Committed, Files
  <2>9. CASE k = 9
    BY <1>1, <1>4, <2>9 DEF Recipe, NoaaEvalOffline, Alone, Output, Ordered, Place, Rebuilt, Committed, Files
  <2>10. CASE k = 10
    BY <1>2, <1>4, <2>10 DEF Recipe, Visuals, Alone, Output, Ordered, Place, Rebuilt, Committed, Files
  <2>11. CASE k = 11
    BY <1>1, <1>4, <2>11 DEF Recipe, ScientificAudit, Alone, Output, Ordered, Place, Rebuilt, Committed, Files
  <2>12. CASE k = 12
    BY <1>1, <1>4, <2>12 DEF Recipe, Summary, Alone, Output, Ordered, Place, Rebuilt, Committed, Files
  <2> QED BY <1>3, <2>1, <2>2, <2>3, <2>4, <2>5, <2>6, <2>7, <2>8, <2>9, <2>10, <2>11, <2>12
<1> QED BY <1>5, <1>6, <1>7 DEF P

\* A report quotes none that `make demo` makes after it.
QuoteInv ==
  \A f \in DOMAIN reports : \A g \in DOMAIN reports[f].of : g \in Files /\ Place[g] < Place[f]

\* A report that was made from the source and quotes the others as they are.
Good(f) ==
  /\ Readable(f) /\ reports[f].source = Current
  /\ \A g \in DOMAIN reports[f].of : reports[f].of[g] = SourceOf(g)

\* The target `make demo` is at.
Stage == 13 - Len(queue)

\* With no edit since `make demo` was given, what it has written is good; the running script
\* has loaded the source, and what it is about to write is good too.
DemoInv ==
  given = "demo" /\ ~edited /\ phase # "none" =>
    /\ Len(queue) \in 1..12 /\ \A i \in 1..Len(queue) : queue[i] = Demo[12 - Len(queue) + i]
    /\ Stage # 1 => data = code
    /\ phase \in {"read", "open", "write"} =>
         loaded.code = code /\ (Stage # 1 => loaded = Current)
    /\ phase \in {"open", "write"} /\ Stage # 1 =>
         text.source = Current /\ \A g \in Inputs(Out) : text.of[g] = SourceOf(g)
    /\ \A f \in Rebuilt : Place[f] < 10 * Stage + line => Good(f)

\* The files are at different places, all within `make demo`.
LEMMA Places ==
  /\ \A f \in Rebuilt : Place[f] \in 21..121 /\ Place[f] < 131 /\ f \in Files
  /\ \A f \in Files : Place[f] \in Nat
  /\ \A f \in Rebuilt, g \in Files : Place[f] = Place[g] => f = g
BY DEF Place, Rebuilt, Committed, Files

\* Every step keeps the order of what is quoted.
LEMMA QuoteKeeps ==
  ASSUME EvidenceInv, QuoteInv, EvidenceNext
  PROVE  QuoteInv'
<1>1. CASE Open \/ Write
  <2>1. phase # "none" /\ EvidenceTypeOK /\ ShellInv
    BY <1>1 DEF Open, Write, EvidenceInv
  <2>2. Proper(Target, Out)
    BY <2>1, RunningOutput
  <2>3. CASE Out.file = "data"
    BY <1>1, <2>3 DEF Open, Write, QuoteInv
  <2>4. CASE Out.file # "data"
    <3>1. DOMAIN reports' \subseteq DOMAIN reports \cup {Out.file}
      BY <1>1, <2>4 DEF Open, Write
    <3>2. \A g \in DOMAIN reports'[Out.file].of : g \in Files /\ Place[g] < Place[Out.file]
      <4>1. CASE Open
        BY <2>4, <4>1 DEF Open, NoText
      <4>2. CASE Write
        <5>1. reports'[Out.file] = text
          BY <2>1, <2>4, <4>2, FileWritten
        <5>2. DOMAIN text.of = Inputs(Out)
          BY <2>1, <4>2 DEF Write, ShellInv
        <5> QED BY <2>2, <2>4, <5>1, <5>2 DEF Proper
      <4> QED BY <1>1, <4>1, <4>2
    <3>3. \A f \in DOMAIN reports' : f # Out.file => f \in DOMAIN reports /\ reports'[f] = reports[f]
      BY <1>1, <3>1, OthersKept
    <3>4. \A f \in DOMAIN reports' : \A g \in DOMAIN reports'[f].of : g \in Files /\ Place[g] < Place[f]
      BY <3>2, <3>3 DEF QuoteInv
    <3> QED BY <3>4 DEF QuoteInv
  <2> QED BY <2>3, <2>4
<1>2. CASE ~(Open \/ Write)
  <2>1. UNCHANGED reports
    BY <1>2 DEF EvidenceNext, Make, Start, StartFails, NothingToBenchmark, Read, ReadFails, Cut, Edit,
                disk
  <2> QED BY <2>1 DEF QuoteInv
<1> QED BY <1>1, <1>2

\* A good report stays good when a file is opened or written that it does not quote.
LEMMA GoodKept ==
  ASSUME Open \/ Write, NEW f \in DOMAIN reports, f # Out.file, Good(f), UNCHANGED <<code, data>>,
         \A g \in DOMAIN reports[f].of : g # Out.file
  PROVE  Good(f)'
<1>1. Readable(f)' /\ reports'[f] = reports[f]
  BY OthersKept DEF Good
<1>2. ASSUME NEW g \in DOMAIN reports[f].of
      PROVE  SourceOf(g)' = SourceOf(g)
  <2>1. /\ Readable(g)' <=> Readable(g)
        /\ g \in DOMAIN reports => reports'[g] = reports[g]
    BY OthersKept
  <2> QED BY <2>1 DEF SourceOf, Readable
<1>3. Current' = Current
  BY DEF Current
<1> QED BY <1>1, <1>2, <1>3 DEF Good

\* The target and the output `make demo` is at.
LEMMA AtStage ==
  ASSUME EvidenceInv, DemoInv, given = "demo", ~edited, phase # "none"
  PROVE  /\ Stage \in 1..12 /\ Target = Demo[Stage] /\ Ordered(Stage, line, Out)
         /\ line \in 1..Len(Recipe[Target]) /\ Len(Recipe[Target]) \in 1..3
         /\ Target = "benchmark" => Len(Recipe[Target]) = 1 /\ Stage = 4
         /\ \A f \in Rebuilt :
              Place[f] < 10 * (Stage + 1) + 1 => Place[f] <= 10 * Stage + Len(Recipe[Target])
<1>1. Len(queue) \in 1..12 /\ \A i \in 1..Len(queue) : queue[i] = Demo[12 - Len(queue) + i]
  BY DEF DemoInv
<1>2. Stage \in 1..12 /\ Target = Demo[Stage]
  <2> DEFINE n == Len(queue)
  <2>1. n \in 1..12 /\ \A i \in 1..n : queue[i] = Demo[12 - n + i]
    BY <1>1
  <2>2. Head(queue) = queue[1]
    BY DEF EvidenceInv, ShellInv
  <2>3. Stage = 13 - n /\ Target = queue[1]
    BY <2>2 DEF Stage, Target
  <2> HIDE DEF n
  <2>4. 1 \in 1..n /\ 12 - n + 1 = 13 - n /\ 13 - n \in 1..12
    BY <2>1
  <2> QED BY <2>1, <2>3, <2>4
<1>3. line \in 1..Len(Recipe[Target])
  BY DEF EvidenceInv, ShellInv
<1> QED BY <1>2, <1>3, DemoWrites, RecipeOutputs DEF Out

\* After a write, what `make demo` has written up to it is good.
LEMMA WriteIsGood ==
  ASSUME EvidenceInv, QuoteInv, DemoInv, Write, given = "demo", ~edited,
         NEW f \in Rebuilt, Place[f] <= 10 * Stage + line
  PROVE  Good(f)'
<1>0. EvidenceTypeOK /\ ShellInv /\ phase = "write"
  BY DEF EvidenceInv, Write
<1>1. /\ Stage \in 1..12 /\ Ordered(Stage, line, Out) /\ line \in 1..3
      /\ Place[f] \in 21..121
  <2> DEFINE n == Len(Recipe[Target])
  <2>1. /\ Stage \in 1..12 /\ Ordered(Stage, line, Out) /\ line \in 1..n /\ n \in 1..3
    BY <1>0, AtStage
  <2> HIDE DEF n
  <2>2. line \in 1..3
    BY <2>1
  <2> QED BY <2>1, <2>2, Places
<1>2. Stage # 1 /\ Out.file # "data" /\ Place[Out.file] = 10 * Stage + line /\ Out.file \in Files
  BY <1>1 DEF Ordered
<1>3. UNCHANGED <<code, data>> /\ Current' = Current
  BY <1>2 DEF Write, Current
<1>4. CASE f = Out.file
  <2>1. Readable(f)' /\ reports'[f] = text
    BY <1>0, <1>2, <1>4, FileWritten
  <2>2. /\ text.source = Current /\ DOMAIN text.of = Inputs(Out)
        /\ \A g \in Inputs(Out) : text.of[g] = SourceOf(g)
    BY <1>0, <1>2 DEF DemoInv, ShellInv
  <2>3. \A g \in Inputs(Out) : g # Out.file
    BY <1>0, RunningOutput DEF Proper
  <2>4. ASSUME NEW g \in Inputs(Out)
        PROVE  SourceOf(g)' = SourceOf(g)
    <3>1. /\ Readable(g)' <=> Readable(g)
          /\ g \in DOMAIN reports => reports'[g] = reports[g]
      BY <2>3, OthersKept
    <3> QED BY <3>1 DEF SourceOf, Readable
  <2> QED BY <1>3, <2>1, <2>2, <2>4 DEF Good
<1>5. CASE f # Out.file
  <2>1. Place[f] < 10 * Stage + line
    <3>1. Place[f] # Place[Out.file]
      BY <1>2, <1>5, Places
    <3> QED BY <1>1, <1>2, <3>1
  <2>2. Good(f)
    BY <1>0, <2>1 DEF DemoInv
  <2>3. f \in DOMAIN reports
    BY <2>2 DEF Good, Readable
  <2>4. \A g \in DOMAIN reports[f].of : g # Out.file
    <3>1. \A g \in DOMAIN reports[f].of : g \in Files /\ Place[g] < Place[f]
      BY <2>3 DEF QuoteInv
    <3>2. ASSUME NEW g \in DOMAIN reports[f].of PROVE g # Out.file
      <4>1. Place[g] \in Nat /\ Place[g] < Place[f]
        BY <3>1, Places
      <4> QED BY <1>1, <1>2, <2>1, <4>1
    <3> QED BY <3>2
  <2> QED BY <1>3, <1>5, <2>2, <2>3, <2>4, GoodKept
<1> QED BY <1>4, <1>5

\* The next target of `make demo`.
LEMMA NextStage ==
  ASSUME EvidenceInv, DemoInv, given = "demo", ~edited, phase # "none",
         queue' = Tail(queue), queue' # <<>>
  PROVE  /\ Len(queue') \in 1..12 /\ Stage' = Stage + 1
         /\ \A i \in 1..Len(queue') : queue'[i] = Demo[12 - Len(queue') + i]
<1> DEFINE n == Len(queue)
<1>1. n \in 1..12 /\ \A i \in 1..n : queue[i] = Demo[12 - n + i]
  BY DEF DemoInv
<1>2. queue \in Seq(Targets) /\ queue # <<>>
  BY RunningOutput DEF EvidenceInv, ShellInv
<1>3. /\ Len(queue') = n - 1 /\ queue' \in Seq(Targets)
      /\ \A i \in 1..(n - 1) : queue'[i] = queue[i + 1]
  BY <1>2, HeadTailProperties
<1>4. Len(queue') # 0
  BY <1>3, EmptySeq
<1>5. Stage = 13 - n /\ Stage' = 13 - Len(queue')
  BY DEF Stage
<1> HIDE DEF n
<1>6. n - 1 \in 1..12 /\ 13 - (n - 1) = (13 - n) + 1
  BY <1>1, <1>3, <1>4
<1>7. ASSUME NEW i \in 1..(n - 1)
      PROVE  queue'[i] = Demo[12 - (n - 1) + i]
  <2>1. i + 1 \in 1..n /\ 12 - n + (i + 1) = 12 - (n - 1) + i
    BY <1>1
  <2> QED BY <1>1, <1>3, <2>1
<1> QED BY <1>3, <1>5, <1>6, <1>7

\* Every step keeps what `make demo` has made.
LEMMA DemoKeeps ==
  ASSUME EvidenceInv, QuoteInv, DemoInv, EvidenceNext
  PROVE  DemoInv'
<1>0. EvidenceTypeOK /\ ShellInv
  BY DEF EvidenceInv
<1>1. CASE Make
  <2>1. ASSUME given' = "demo"
        PROVE  DemoInv'
    <3>1. queue' = Demo /\ phase' = "start" /\ line' = 1
      BY <1>0, <1>1, <2>1 DEF Make, ShellInv, EvidenceTypeOK
    <3>2. Len(Demo) = 12
      BY DEF Demo
    <3>3. Stage' = 1
      BY <3>1, <3>2 DEF Stage
    <3>4. \A f \in Rebuilt : ~(Place[f] < 10 * 1 + 1)
      BY Places
    <3>5. Len(Demo) \in 1..12 /\ \A i \in 1..Len(Demo) : Demo[i] = Demo[12 - Len(Demo) + i]
      BY <3>2
    <3> QED BY <3>1, <3>3, <3>4, <3>5 DEF DemoInv
  <2> QED BY <2>1 DEF DemoInv
<1>2. CASE StartFails \/ ReadFails \/ Cut
  BY <1>2 DEF StartFails, ReadFails, Cut, Quit, DemoInv
<1>3. CASE Edit
  BY <1>3 DEF Edit, DemoInv
<1>4. ASSUME given = "demo", ~edited, phase # "none", given' = "demo", UNCHANGED <<code, queue, line>>,
             \A f \in Rebuilt : Place[f] < 10 * Stage + line => Good(f)',
             Stage # 1 => data' = code,
             phase' \in {"read", "open", "write"} =>
               loaded'.code = code /\ (Stage # 1 => loaded' = Current'),
             phase' \in {"open", "write"} /\ Stage # 1 =>
               text'.source = Current' /\ \A g \in Inputs(Out) : text'.of[g] = SourceOf(g)'
      PROVE  DemoInv'
  <2>1. /\ Len(queue) \in 1..12 /\ \A i \in 1..Len(queue) : queue[i] = Demo[12 - Len(queue) + i]
    BY <1>4 DEF DemoInv
  <2>2. Stage' = Stage /\ Out' = Out
    BY <1>4 DEF Stage, Out, Target
  <2> QED BY <1>4, <2>1, <2>2 DEF DemoInv
<1>5. CASE Start \/ Read
  <2>1. /\ phase # "none" /\ UNCHANGED <<disk, queue, line, made>>
        /\ UNCHANGED <<code, data, reports, torn, given, edited>>
    BY <1>5 DEF Start, Read, disk, made
  <2>2. CASE given = "demo" /\ ~edited
    <3>1. \A f : (Good(f)' <=> Good(f)) /\ SourceOf(f)' = SourceOf(f)
      BY <2>1 DEF Good, Readable, SourceOf, Current
    <3>2. /\ Stage # 1 => data = code
          /\ \A f \in Rebuilt : Place[f] < 10 * Stage + line => Good(f)
      BY <2>1, <2>2 DEF DemoInv
    <3>3. Current' = Current /\ Current.code = code
      BY <2>1 DEF Current
    <3>4. /\ phase' \in {"read", "open"} /\ loaded'.code = code /\ (Stage # 1 => loaded' = Current)
          /\ phase' = "open" => Read
      BY <1>5, <2>1, <2>2, <3>3 DEF Start, Read, DemoInv
    <3>5. ASSUME Read, Stage # 1
          PROVE  text'.source = Current /\ \A g \in Inputs(Out) : text'.of[g] = SourceOf(g)
      <4>1. loaded = Current
        BY <2>2, <3>5 DEF Read, DemoInv
      <4>2. /\ Made = [source |-> loaded, of |-> [f \in Inputs(Out) |-> SourceOf(f)]]
            /\ text' = IF Out.file = "metadata" THEN [Made EXCEPT !.source = Current] ELSE Made
        BY <3>5 DEF Read, Made, Inputs
      <4> QED BY <4>1, <4>2
    <3> QED BY <1>4, <2>1, <2>2, <3>1, <3>2, <3>3, <3>4, <3>5
  <2> QED BY <2>1, <2>2 DEF DemoInv
<1>6. CASE Open
  <2>1. /\ phase = "open" /\ phase' = "write" /\ UNCHANGED <<code, queue, loaded, line, text, made>>
        /\ UNCHANGED <<given, edited>>
    BY <1>6 DEF Open, made
  <2>2. CASE given = "demo" /\ ~edited
    <3>1. /\ Stage \in 1..12 /\ Ordered(Stage, line, Out)
      BY <2>1, <2>2, AtStage
    <3>2. /\ loaded.code = code
          /\ Stage # 1 => data = code /\ loaded = Current /\ text.source = Current
          /\ Stage # 1 => \A g \in Inputs(Out) : text.of[g] = SourceOf(g)
          /\ \A f \in Rebuilt : Place[f] < 10 * Stage + line => Good(f)
      BY <2>1, <2>2 DEF DemoInv
    <3>3. line \in 1..Len(Recipe[Target]) /\ Len(Recipe[Target]) \in 1..3
      BY <2>1, <2>2, AtStage
    <3>4. line \in 1..3
      <4> DEFINE n == Len(Recipe[Target])
      <4>1. line \in 1..n /\ n \in 1..3
        BY <3>3
      <4> HIDE DEF n
      <4> QED BY <4>1
    <3>5. CASE Stage = 1
      <4>1. \A f \in Rebuilt : ~(Place[f] < 10 * Stage + line)
        BY <3>4, <3>5, Places
      <4> QED BY <1>4, <2>1, <2>2, <3>2, <3>5, <4>1
    <3>6. CASE Stage # 1
      <4>1. Out.file # "data" /\ Place[Out.file] = 10 * Stage + line /\ Out.file \in Files
        BY <3>1, <3>6 DEF Ordered
      <4>2. UNCHANGED <<code, data>> /\ Current' = Current
        BY <1>6, <4>1 DEF Open, Current
      <4>3. ASSUME NEW f \in Rebuilt, Place[f] < 10 * Stage + line
            PROVE  Good(f)'
        <5>1. Good(f) /\ f \in DOMAIN reports /\ f # Out.file /\ Place[f] \in Nat
          <6>1. Place[f] \in 21..121
            BY Places
          <6>2. Place[f] # Place[Out.file]
            BY <3>1, <3>4, <4>1, <4>3, <6>1
          <6> QED BY <3>2, <4>3, <6>1, <6>2 DEF Good, Readable
        <5>2. ASSUME NEW g \in DOMAIN reports[f].of
              PROVE  g # Out.file
          <6>1. Place[g] \in Nat /\ Place[g] < Place[f]
            BY <5>1, <5>2, Places DEF QuoteInv
          <6> QED BY <3>1, <3>4, <4>1, <4>3, <5>1, <6>1
        <5> QED BY <1>6, <4>2, <5>1, <5>2, GoodKept
      <4>4. ASSUME NEW g \in Inputs(Out)
            PROVE  text.of[g] = SourceOf(g)'
        <5>1. g # Out.file
          BY <1>0, <2>1, RunningOutput DEF Proper
        <5>2. /\ Readable(g)' <=> Readable(g)
              /\ g \in DOMAIN reports => reports'[g] = reports[g]
          BY <1>6, <5>1, OthersKept
        <5>3. SourceOf(g)' = SourceOf(g)
          BY <5>2 DEF SourceOf, Readable
        <5> QED BY <3>2, <3>6, <5>3
      <4> QED BY <1>4, <2>1, <2>2, <3>2, <3>6, <4>2, <4>3, <4>4
    <3> QED BY <3>5, <3>6
  <2> QED BY <2>1, <2>2 DEF DemoInv
<1>7. CASE NothingToBenchmark \/ Write
  <2>1. /\ phase \in {"read", "write"} /\ Done /\ UNCHANGED <<given, edited, code>>
        /\ NothingToBenchmark => UNCHANGED <<disk, data, reports, torn>>
    BY <1>7 DEF NothingToBenchmark, Write, made, disk
  <2>2. CASE given = "demo" /\ ~edited
    <3> DEFINE n == Len(Recipe[Target])
    <3>1. /\ Stage \in 1..12 /\ Target = Demo[Stage] /\ Ordered(Stage, line, Out)
          /\ line \in 1..n /\ n \in 1..3 /\ (Target = "benchmark" => n = 1 /\ Stage = 4)
          /\ \A f \in Rebuilt : Place[f] < 10 * (Stage + 1) + 1 => Place[f] <= 10 * Stage + n
      BY <2>1, <2>2, AtStage
    <3>2. /\ Stage # 1 => data = code /\ loaded = Current
          /\ loaded.code = code
          /\ \A f \in Rebuilt : Place[f] < 10 * Stage + line => Good(f)
      BY <2>1, <2>2 DEF DemoInv
    <3>3. \/ /\ phase' = "read" /\ line < n /\ line' = line + 1 /\ UNCHANGED <<queue, loaded>>
          \/ line = n /\ phase' = "start" /\ line' = 1 /\ queue' = Tail(queue) /\ queue' # <<>>
          \/ phase' = "none"
      BY <1>0, <2>1, DoneCases
    <3> HIDE DEF n
    <3>4. data' = code /\ (Stage # 1 => Current' = Current)
      BY <1>7, <2>1, <3>1, <3>2 DEF NothingToBenchmark, Write, Ordered, Current
    <3>5. ASSUME NEW f \in Rebuilt, Place[f] <= 10 * Stage + line
          PROVE  Good(f)'
      <4>1. CASE Write
        BY <2>2, <3>5, <4>1, WriteIsGood
      <4>2. CASE NothingToBenchmark
        <5>1. Target = "benchmark" /\ Stage = 4 /\ line = 1
          BY <3>1, <4>2 DEF NothingToBenchmark
        <5>2. Place["benchmark"] = 41 /\ "benchmark" \in Files /\ f # "benchmark" /\ Place[f] \in 21..121
          BY Places DEF Place, Files, Committed, Rebuilt
        <5>3. Place[f] # 41
          BY <5>2, Places
        <5>4. Good(f)
          BY <3>2, <3>5, <5>1, <5>2, <5>3
        <5> QED BY <2>1, <4>2, <5>4 DEF Good, Readable, SourceOf, Current
      <4> QED BY <1>7, <4>1, <4>2
    <3>6. CASE phase' = "read" /\ line < n /\ line' = line + 1 /\ UNCHANGED <<queue, loaded>>
      <4>1. Stage' = Stage
        BY <3>6 DEF Stage
      <4>2. \A f \in Rebuilt : Place[f] < 10 * Stage + line' => Place[f] <= 10 * Stage + line
        BY <3>1, <3>6, Places
      <4>3. Len(queue) \in 1..12 /\ \A i \in 1..Len(queue) : queue[i] = Demo[12 - Len(queue) + i]
        BY <2>1, <2>2 DEF DemoInv
      <4> QED BY <2>1, <3>2, <3>4, <3>5, <3>6, <4>1, <4>2, <4>3 DEF DemoInv
    <3>7. CASE line = n /\ phase' = "start" /\ line' = 1 /\ queue' = Tail(queue) /\ queue' # <<>>
      <4>1. /\ Len(queue') \in 1..12 /\ Stage' = Stage + 1
            /\ \A i \in 1..Len(queue') : queue'[i] = Demo[12 - Len(queue') + i]
        BY <2>1, <2>2, <3>7, NextStage
      <4>2. \A f \in Rebuilt : Place[f] < 10 * Stage' + 1 => Good(f)'
        BY <3>1, <3>5, <3>7, <4>1
      <4> QED BY <2>1, <3>4, <3>7, <4>1, <4>2 DEF DemoInv
    <3>8. CASE phase' = "none"
      BY <3>8 DEF DemoInv
    <3> QED BY <3>3, <3>6, <3>7, <3>8
  <2> QED BY <2>1, <2>2 DEF DemoInv
<1> QED BY <1>1, <1>2, <1>3, <1>5, <1>6, <1>7 DEF EvidenceNext

\* When `make demo` ends, its evidence is complete.
LEMMA DemoEnds ==
  ASSUME EvidenceInv, QuoteInv, DemoInv, EvidenceNext,
         given = "demo", ~edited, phase = "write", queue' = <<>>, torn' # torn
  PROVE  /\ Fresh'
         /\ \A f \in Rebuilt : Good(f)'
<1>0. EvidenceTypeOK /\ ShellInv
  BY DEF EvidenceInv
<1>1. Write
  BY DEF EvidenceNext, Make, Start, StartFails, NothingToBenchmark, Read, ReadFails, Open, Cut, Edit,
         disk
<1>2. line = Len(Recipe[Target]) /\ Len(queue) = 1
  BY <1>0, <1>1, DoneCases DEF Write, EvidenceTypeOK
<1>3. Stage = 12
  BY <1>2 DEF Stage
<1>4. /\ Target = "summary" /\ line \in Nat
      /\ \A f \in Rebuilt :
           Place[f] < 10 * (Stage + 1) + 1 => Place[f] <= 10 * Stage + Len(Recipe[Target])
  BY <1>0, <1>3, AtStage, RunningOutput DEF Demo
<1>5. \A f \in Rebuilt : Good(f)'
  <2>1. \A f \in Rebuilt : Place[f] <= 10 * Stage + line
    <3>1. 10 * (Stage + 1) + 1 = 131
      BY <1>3
    <3>2. \A f \in Rebuilt : Place[f] < 131
      BY Places
    <3> QED BY <1>2, <1>4, <3>1, <3>2
  <2> QED BY <1>1, <2>1, WriteIsGood
<1>6. Out.file = "summary"
  BY <1>2, <1>4 DEF Out, Recipe, Summary, Output
<1>7. /\ reports'["summary"] = text /\ DOMAIN text.of = Inputs(Out) /\ "metadata" \in Inputs(Out)
  BY <1>0, <1>1, <1>6, FileWritten, RunningOutput DEF Write, ShellInv, Proper
<1>8. Fresh'
  <2>1. Good("metadata")' /\ Good("summary")'
    BY <1>5 DEF Rebuilt, Committed, Files
  <2>2. /\ Readable("metadata")' /\ reports'["metadata"].source = Current' /\ Readable("summary")'
        /\ reports'["summary"].of["metadata"] = SourceOf("metadata")'
    BY <1>7, <2>1 DEF Good
  <2>3. SourceOf("metadata")' = reports'["metadata"].source
    BY <2>2 DEF SourceOf
  <2> QED BY <2>2, <2>3 DEF Fresh
<1> QED BY <1>5, <1>8

\* At the start nothing is made, and a committed report quotes those of its recipe.
LEMMA DemoStarts ==
  ASSUME EvidenceInit
  PROVE  QuoteInv /\ DemoInv
<1>1. phase = "none"
  BY DEF EvidenceInit
<1>2. QuoteInv
  <2>1. CASE reports = [f \in {} |-> NoSource]
    BY <2>1 DEF QuoteInv
  <2>2. CASE ~(reports = [f \in {} |-> NoSource])
    <3> DEFINE Quoted(f) ==
             CASE f = "html" -> {"model"} [] f = "errors" -> {"horizons"}
               [] f = "baselines" -> {"model"} [] f = "audit" -> {"live"}
               [] f = "summary" -> Summary[1].reads [] OTHER -> {}
    <3>1. reports = [f \in Committed |-> [source |-> Current, of |->
                       [g \in Quoted(f) |-> IF g \in Committed THEN Current ELSE NoSource]]]
      BY <2>2 DEF EvidenceInit
    <3>2. Summary[1].reads =
            {"metadata", "ablation", "model", "horizons", "events", "rolling", "conformal", "benchmark",
             "mock", "live", "allow_mock", "audit"}
      BY DEF Summary, Output
    <3>3. \A f \in Committed : \A g \in Quoted(f) : g \in Files /\ Place[g] < Place[f]
      BY <3>2 DEF Committed, Files, Place
    <3> HIDE DEF Quoted
    <3>4. DOMAIN reports = Committed /\ \A f \in Committed : DOMAIN reports[f].of = Quoted(f)
      BY <3>1
    <3> QED BY <3>3, <3>4 DEF QuoteInv
  <2> QED BY <2>1, <2>2
<1> QED BY <1>1, <1>2 DEF DemoInv

\* A step keeps what is made of what, and so does one that leaves the evidence alone.
LEMMA MadeKeeps ==
  ASSUME EvidenceInv, QuoteInv, DemoInv, EvidenceNext \/ UNCHANGED evidenceVars
  PROVE  QuoteInv' /\ DemoInv'
<1>1. CASE EvidenceNext
  BY <1>1, QuoteKeeps, DemoKeeps
<1>2. CASE UNCHANGED evidenceVars
  <2>1. UNCHANGED <<code, data, reports, torn, queue, loaded, line, phase, text, given, edited>>
    BY <1>2 DEF evidenceVars, disk, shell, made
  <2>2. Current' = Current /\ Out' = Out /\ Stage' = Stage /\ \A f : SourceOf(f)' = SourceOf(f)
    BY <2>1 DEF Current, Target, Out, Stage, SourceOf, Readable
  <2>3. \A f : Good(f)' <=> Good(f)
    BY <2>1, <2>2 DEF Good, Readable
  <2>4. QuoteInv'
    BY <2>1 DEF QuoteInv
  <2>5. DemoInv'
    BY <2>1, <2>2, <2>3 DEF DemoInv
  <2> QED BY <2>4, <2>5
<1> QED BY <1>1, <1>2
-----------------------------------------------------------------------------
(***************************************************************************)
(* The live view.                                                          *)
(***************************************************************************)
Scripted == {"look", "wait", "fetch"}
Cleared == {"snapshot", "guidance"}

\* A session that its press has still to clear the cache for.
Due(c) ==
  {s \in Sessions : /\ pressed[s] # NoTime
                    /\ \/ at[s] \in Scripted /\ call[s] = "catalog"
                       \/ at[s] = "clear" /\ call[s] \in {"snapshot", c}}

\* A press of Refresh clears each of its two caches once at most.
ClearInv ==
  /\ clears["catalog"] = 0
  /\ \A c \in Cleared : clears[c] + Cardinality(Due(c)) <= refreshes

\* A value a script may be given for a call: of its station, and asked for after its press,
\* or a fetch earlier when another session was fetching the station then.
Requested(s, v) ==
  /\ v \in Value /\ v.of = selected[s].station
  /\ pressed[s] # NoTime => v.asked + Overtaken(rival[s]) >= pressed[s]

\* A press is over with its script, a fetch ends in time, and a script that turned to the
\* guidance has a snapshot, a recent one when it did.
SessionInv(s) ==
  /\ at[s] \in {"idle", "done"} => pressed[s] = NoTime
  /\ at[s] = "clear" => call[s] \in Cleared /\ pressed[s] # NoTime
  /\ pressed[s] # NoTime => pressed[s] <= now
  /\ at[s] = "fetch" => begun[s] \in Times /\ begun[s] <= now /\ now - begun[s] <= MaxFetch
  /\ at[s] \in Scripted /\ call[s] = "guidance" => selected[s].ofs /\ Requested(s, snapshot[s])
  /\ at[s] = "look" /\ call[s] = "guidance" => Recent("snapshot", snapshot[s])

EntryInv == \A c \in Functions : \A e \in entries[c] : e.stored - e.value.asked <= MaxFetch

\* A script started by Refresh has cleared the cache.
Renewed(s, c) ==
  /\ pressed[s] # NoTime
  /\ \/ at[s] \in Scripted /\ call[s] # "catalog"
     \/ at[s] = "clear" /\ call[s] = "guidance" /\ c = "snapshot"

\* What it can then be given for its station was asked for after the press, or by the
\* fetch of another session that was under way.
RefreshInv ==
  \A s \in Sessions, c \in Cleared : Renewed(s, c) =>
    /\ \A e \in entries[c] : e.value.of = selected[s].station
         => e.value.asked + Overtaken(rival[s]) >= pressed[s]
    /\ \A t \in Sessions :
         at[t] = "fetch" /\ call[t] = c /\ selected[t].station = selected[s].station
         => begun[t] + Overtaken(rival[s]) >= pressed[s]

LiveInv ==
  /\ LiveTypeOK /\ ClearInv /\ EntryInv /\ RefreshInv
  /\ \A s \in Sessions : SessionInv(s)
  /\ ShownAsRequested

\* The bounds are numbers, and no time is the time of nothing.
LEMMA LiveNumbers ==
  /\ MaxFetch \in Nat /\ MaxTime \in Nat /\ MaxRefresh \in Nat /\ MaxSyncs \in Nat
  /\ \A c \in Functions : Ttl[c] \in Nat \ {0}
  /\ Times \subseteq Nat /\ NoTime \notin Times /\ NoTime \in Nat
  /\ NoValue \notin Value /\ IsFiniteSet(Sessions) /\ NoArg \notin Stations
<1>1. /\ MaxFetch \in Nat /\ MaxTime \in Nat /\ MaxRefresh \in Nat /\ MaxSyncs \in Nat
      /\ IsFiniteSet(Sessions) /\ NoArg \notin Stations
      /\ Ttl \in [{"catalog", "snapshot", "guidance"} -> Nat \ {0}]
  BY LiveAssumption
<1>2. Times \subseteq Nat /\ NoTime \notin Times /\ NoTime \in Nat
  BY <1>1 DEF Times, NoTime
<1>3. NoValue \notin Value
  <2>1. NoValue.asked = NoTime
    BY DEF NoValue
  <2>2. \A v \in Value : v.asked \in Times
    BY DEF Value
  <2> QED BY <1>2, <2>1, <2>2
<1> QED BY <1>1, <1>2, <1>3 DEF Functions

\* What a step of a session leaves of the others.
Apart(s) ==
  \A t \in Sessions \ {s} :
    /\ at'[t] = at[t] /\ call'[t] = call[t] /\ selected'[t] = selected[t]
    /\ begun'[t] = begun[t] /\ snapshot'[t] = snapshot[t]
    /\ pressed'[t] = pressed[t] /\ rival'[t] = rival[t]

\* The return of a call.
Returned(s, value) ==
  /\ at[s] \in Scripted /\ Return(s, value) /\ Over(s)
  /\ UNCHANGED <<clock, clears, catalog, selected>>
  /\ \/ Release(s) \/ UNCHANGED <<lock, begun>>
  /\ \/ /\ UNCHANGED entries
        /\ \E e \in Hit(s) : value = e.value
     \/ /\ at[s] = "fetch" /\ Stored(call[s], value)
        /\ value.of = Arg(s) /\ value.asked = begun[s] /\ value.bundled \in BOOLEAN
        /\ value = [of |-> Arg(s), asked |-> begun[s], bundled |-> value.bundled]

\* The call misses and waits for the lock of its key; it has the lock and fetches.
Waits(s) ==
  /\ at[s] = "look" /\ at' = [at EXCEPT ![s] = "wait"]
  /\ lock' = [lock EXCEPT ![s] = clears[call[s]]] /\ Quiet
  /\ UNCHANGED <<clock, entries, clears, catalog, call, selected, begun, snapshot, presses>>
Fetches(s) ==
  /\ at[s] = "wait" /\ at' = [at EXCEPT ![s] = "fetch"]
  /\ begun' = [begun EXCEPT ![s] = now] /\ Quiet
  /\ UNCHANGED <<clock, entries, clears, catalog, call, selected, lock, snapshot, presses>>

\* The steps of a session's script.
LEMMA StepKinds ==
  ASSUME LiveTypeOK, NEW s \in Sessions, LiveStep(s)
  PROVE  \/ Refresh(s) \/ Clear(s) \/ Waits(s) \/ Fetches(s)
         \/ \E value : Returned(s, value)
         \/ at[s] = "fetch" /\ Failed(s)
<1>1. /\ pressed \in [Sessions -> Times \cup {NoTime}]
      /\ at \in [Sessions -> {"idle", "clear", "look", "wait", "fetch", "done"}]
  BY DEF LiveTypeOK
<1>2. CASE Look(s)
  <2>1. CASE \E e \in Hit(s) : Return(s, e.value) /\ UNCHANGED lock
    BY <1>2, <2>1 DEF Look, Returned, Scripted
  <2>2. CASE Hit(s) = {} /\ at' = [at EXCEPT ![s] = "wait"]
    <3>1. pressed' = pressed
      <4>1. at'[s] = "wait" /\ pressed' = [pressed EXCEPT ![s] = IF at'[s] = "done" THEN NoTime ELSE @]
        BY <1>1, <1>2, <2>2 DEF Look, Over
      <4> QED BY <1>1, <4>1
    <3> QED BY <1>2, <2>2, <3>1 DEF Look, Waits, presses
  <2> QED BY <1>2, <2>1, <2>2 DEF Look
<1>3. CASE Enter(s)
  <2>1. CASE \E e \in Hit(s) : Return(s, e.value) /\ Release(s)
    BY <1>3, <2>1 DEF Enter, Returned, Scripted
  <2>2. CASE Hit(s) = {} /\ at' = [at EXCEPT ![s] = "fetch"]
    <3>1. pressed' = pressed
      <4>1. at'[s] = "fetch" /\ pressed' = [pressed EXCEPT ![s] = IF at'[s] = "done" THEN NoTime ELSE @]
        BY <1>1, <1>3, <2>2 DEF Enter, Over
      <4> QED BY <1>1, <4>1
    <3> QED BY <1>3, <2>2, <3>1 DEF Enter, Fetches, presses
  <2> QED BY <1>3, <2>1, <2>2 DEF Enter
<1>4. CASE Catalog(s) \/ Snapshot(s) \/ Guidance(s) \/ Bundled(s)
  <2>1. PICK b \in BOOLEAN : Answer(s, [of |-> Arg(s), asked |-> begun[s], bundled |-> b])
    BY <1>4 DEF Catalog, Snapshot, Guidance, Bundled, Arg
  <2>2. at[s] = "fetch"
    BY <1>4 DEF Catalog, Snapshot, Guidance, Bundled
  <2> DEFINE value == [of |-> Arg(s), asked |-> begun[s], bundled |-> b]
  <2>3. value.of = Arg(s) /\ value.asked = begun[s] /\ value.bundled = b
    OBVIOUS
  <2>4. value = [of |-> Arg(s), asked |-> begun[s], bundled |-> value.bundled] /\ Answer(s, value)
    BY <2>1
  <2> HIDE DEF value
  <2> QED BY <2>2, <2>3, <2>4 DEF Answer, Returned, Scripted
<1>5. CASE NoCatalog(s) \/ FetchFails(s)
  BY <1>5 DEF NoCatalog, FetchFails
<1> QED BY <1>2, <1>3, <1>4, <1>5 DEF LiveStep

\* The function of a call is one of three; what its return does.
LEMMA ReturnCases ==
  ASSUME LiveTypeOK, NEW s \in Sessions, NEW value, Return(s, value)
  PROVE  \/ /\ call[s] = "catalog" /\ Listed(s) /\ UNCHANGED snapshot /\ Quiet
         \/ /\ call[s] = "snapshot" /\ selected[s].ofs
            /\ call' = [call EXCEPT ![s] = "guidance"] /\ at' = [at EXCEPT ![s] = "look"]
            /\ snapshot' = [snapshot EXCEPT ![s] = value] /\ UNCHANGED rival /\ Quiet
         \/ /\ call[s] = "snapshot" /\ ~selected[s].ofs
            /\ Show(s, value, NoValue, Tide(s))
         \/ /\ call[s] = "guidance"
            /\ \E compared \in Compared(s, value) : Show(s, snapshot[s], value, compared)
<1>1. call[s] \in {"catalog", "snapshot", "guidance"}
  BY DEF LiveTypeOK, Functions
<1> QED BY <1>1 DEF Return

\* A step of one session's script, or of its page, leaves the others where they are.
LEMMA OthersAlone ==
  ASSUME LiveTypeOK, NEW s \in Sessions, LiveStep(s) \/ Select(s)
  PROVE  Apart(s)
<1>1. /\ at \in [Sessions -> {"idle", "clear", "look", "wait", "fetch", "done"}]
      /\ call \in [Sessions -> Functions] /\ rival \in [Sessions -> BOOLEAN]
      /\ selected \in [Sessions -> [station : Stations, ofs : BOOLEAN]]
      /\ lock \in [Sessions -> 0..MaxRefresh] /\ begun \in [Sessions -> Times \cup {NoTime}]
      /\ snapshot \in [Sessions -> Value \cup {NoValue}]
      /\ pressed \in [Sessions -> Times \cup {NoTime}]
  BY DEF LiveTypeOK
<1>2. CASE Refresh(s) \/ Select(s)
  BY <1>1, <1>2 DEF Refresh, Select, Begin, Apart
<1>3. CASE Clear(s)
  BY <1>1, <1>3 DEF Clear, Apart
<1>4. CASE Waits(s) \/ Fetches(s)
  BY <1>1, <1>4 DEF Waits, Fetches, Apart, presses
<1>5. ASSUME NEW value, Returned(s, value)
      PROVE  Apart(s)
  <2>1. Return(s, value) /\ Over(s) /\ UNCHANGED selected /\ (Release(s) \/ UNCHANGED <<lock, begun>>)
    BY <1>5 DEF Returned
  <2>2. \A t \in Sessions \ {s} : begun'[t] = begun[t] /\ pressed'[t] = pressed[t]
    BY <1>1, <2>1 DEF Release, Over
  <2>3. \A t \in Sessions \ {s} : /\ at'[t] = at[t] /\ call'[t] = call[t]
                                  /\ snapshot'[t] = snapshot[t] /\ rival'[t] = rival[t]
    BY <1>1, <2>1, ReturnCases DEF Show, Listed
  <2> QED BY <2>1, <2>2, <2>3 DEF Apart
<1>6. CASE Failed(s)
  BY <1>1, <1>6 DEF Failed, Raise, Show, Release, Over, Apart
<1> QED BY <1>2, <1>3, <1>4, <1>5, <1>6, StepKinds

\* The entries have their types.
EntriesOK ==
  /\ entries \in [Functions -> SUBSET [value : Value, stored : Times]]
  /\ \A c \in Functions :
       /\ \A e \in entries[c] : e.value.asked <= e.stored /\ e.stored <= now
       /\ \A d, e \in entries[c] : d.value.of = e.value.of => d = e

\* A value that is stored takes the place of the older one for the same call.
LEMMA StoredTypes ==
  ASSUME LiveTypeOK, NEW c \in Functions, NEW value \in Value, value.asked <= now,
         Stored(c, value), now' = now
  PROVE  /\ EntriesOK'
         /\ \A d \in Functions : \A e \in entries'[d] :
              e \in entries[d] \/ (d = c /\ e = [value |-> value, stored |-> now])
<1> DEFINE new == [value |-> value, stored |-> now]
<1>1. new.value = value /\ new.stored = now /\ now \in Times
  BY DEF LiveTypeOK
<1>2. new \in [value : Value, stored : Times]
  BY <1>1
<1>3. /\ entries' = [entries EXCEPT ![c] = {e \in entries[c] : e.value.of # value.of} \cup {new}]
      /\ entries \in [Functions -> SUBSET [value : Value, stored : Times]]
  BY DEF Stored, LiveTypeOK
<1> HIDE DEF new
<1>4. /\ entries' \in [Functions -> SUBSET [value : Value, stored : Times]]
      /\ entries'[c] = {e \in entries[c] : e.value.of # value.of} \cup {new}
      /\ \A d \in Functions \ {c} : entries'[d] = entries[d]
  BY <1>2, <1>3
<1>5. \A d \in Functions : \A e \in entries'[d] : e \in entries[d] \/ (d = c /\ e = new)
  BY <1>4
<1>6. now <= now
  BY <1>1, LiveNumbers
<1>7. ASSUME NEW d \in Functions
      PROVE  /\ \A e \in entries'[d] : e.value.asked <= e.stored /\ e.stored <= now
             /\ \A e, g \in entries'[d] : e.value.of = g.value.of => e = g
  <2>1. /\ \A e \in entries[d] : e.value.asked <= e.stored /\ e.stored <= now
        /\ \A e, g \in entries[d] : e.value.of = g.value.of => e = g
    BY DEF LiveTypeOK
  <2>2. \A e \in entries'[d] : e.value.asked <= e.stored /\ e.stored <= now
    BY <1>1, <1>5, <1>6, <2>1
  <2>3. ASSUME NEW e \in entries'[d], NEW g \in entries'[d], e.value.of = g.value.of
        PROVE  e = g
    <3>1. CASE d # c
      BY <1>4, <2>1, <2>3, <3>1
    <3>2. CASE d = c
      BY <1>1, <1>4, <2>1, <2>3, <3>2
    <3> QED BY <3>1, <3>2
  <2> QED BY <2>2, <2>3
<1>8. EntriesOK'
  BY <1>4, <1>7 DEF EntriesOK
<1> QED BY <1>5, <1>8 DEF new

\* A step of a session that clears no cache, and is not a press, keeps the state of the
\* live view if the session itself is left in order.
LEMMA StepInOrder ==
  ASSUME LiveInv, LiveTypeOK', NEW s \in Sessions, Apart(s), UNCHANGED <<now, refreshes, clears>>,
         \A c \in Cleared : s \in Due(c)' => s \in Due(c),
         \A c \in Cleared : Renewed(s, c)' =>
           /\ Renewed(s, c) /\ pressed'[s] = pressed[s] /\ selected'[s] = selected[s]
           /\ rival'[s] = rival[s],
         at'[s] = "fetch" => begun'[s] = now,
         \A c \in Functions : \A e \in entries'[c] :
           \/ e \in entries[c]
           \/ /\ at[s] = "fetch" /\ call[s] = c
              /\ e.value.of = Arg(s) /\ e.value.asked = begun[s] /\ e.stored = now,
         SessionInv(s)', ValuesAsRequested'
  PROVE  LiveInv'
<1>0. /\ LiveTypeOK /\ ClearInv /\ EntryInv /\ RefreshInv
      /\ \A t \in Sessions : SessionInv(t)
  BY DEF LiveInv
<1>1. \A t \in Sessions \ {s} :
        /\ at'[t] = at[t] /\ call'[t] = call[t] /\ selected'[t] = selected[t]
        /\ begun'[t] = begun[t] /\ snapshot'[t] = snapshot[t]
        /\ pressed'[t] = pressed[t] /\ rival'[t] = rival[t]
  BY DEF Apart
<1>2. ASSUME NEW t \in Sessions
      PROVE  SessionInv(t)'
  <2>1. CASE t = s
    BY <2>1
  <2>2. CASE t # s
    <3>1. SessionInv(t)
      BY <1>0
    <3> QED BY <1>1, <2>2, <3>1 DEF SessionInv, Requested, Recent
  <2> QED BY <2>1, <2>2
<1>3. ClearInv'
  <2>1. ASSUME NEW c \in Cleared
        PROVE  clears'[c] + Cardinality(Due(c)') <= refreshes'
    <3>1. Due(c)' \subseteq Due(c) /\ Due(c) \subseteq Sessions
      BY <1>1 DEF Due
    <3>2. IsFiniteSet(Due(c)) /\ Cardinality(Due(c)) \in Nat
      BY <3>1, LiveNumbers, FS_Subset, FS_CardinalityType
    <3>3. Cardinality(Due(c)') <= Cardinality(Due(c)) /\ Cardinality(Due(c)') \in Nat
      BY <3>1, <3>2, FS_Subset, FS_CardinalityType
    <3>4. clears[c] + Cardinality(Due(c)) <= refreshes
      BY <1>0 DEF ClearInv
    <3>5. clears[c] \in Nat /\ refreshes \in Nat
      BY <1>0, LiveNumbers DEF LiveTypeOK, Cleared, Functions
    <3> QED BY <3>2, <3>3, <3>4, <3>5
  <2> QED BY <1>0, <2>1 DEF ClearInv
<1>4. EntryInv'
  <2>1. ASSUME NEW c \in Functions, NEW e \in entries'[c]
        PROVE  e.stored - e.value.asked <= MaxFetch
    <3>1. CASE e \in entries[c]
      BY <1>0, <3>1 DEF EntryInv
    <3>2. CASE e \notin entries[c]
      BY <1>0, <3>2 DEF SessionInv
    <3> QED BY <3>1, <3>2
  <2> QED BY <2>1 DEF EntryInv
<1>5. RefreshInv'
  <2>1. ASSUME NEW t \in Sessions, NEW c \in Cleared, Renewed(t, c)'
        PROVE  /\ \A e \in entries'[c] : e.value.of = selected'[t].station
                    => e.value.asked + Overtaken(rival'[t]) >= pressed'[t]
               /\ \A u \in Sessions :
                    at'[u] = "fetch" /\ call'[u] = c /\ selected'[u].station = selected'[t].station
                    => begun'[u] + Overtaken(rival'[t]) >= pressed'[t]
    <3>1. /\ Renewed(t, c) /\ pressed'[t] = pressed[t] /\ selected'[t] = selected[t]
          /\ rival'[t] = rival[t]
      <4>1. CASE t = s
        BY <2>1, <4>1
      <4>2. CASE t # s
        BY <1>1, <2>1, <4>2 DEF Renewed
      <4> QED BY <4>1, <4>2
    <3>2. /\ \A e \in entries[c] : e.value.of = selected[t].station
               => e.value.asked + Overtaken(rival[t]) >= pressed[t]
          /\ \A u \in Sessions :
               at[u] = "fetch" /\ call[u] = c /\ selected[u].station = selected[t].station
               => begun[u] + Overtaken(rival[t]) >= pressed[t]
      BY <1>0, <3>1 DEF RefreshInv
    <3>3. c # "catalog" /\ c \in Functions
      BY DEF Cleared, Functions
    <3>4. \A e \in entries'[c] : e.value.of = selected[t].station
            => e.value.asked + Overtaken(rival[t]) >= pressed[t]
      BY <3>2, <3>3 DEF Arg
    <3>5. pressed[t] <= now /\ now \in Nat /\ pressed[t] \in Nat
      BY <1>0, <3>1, LiveNumbers DEF SessionInv, Renewed, LiveTypeOK
    <3>6. now + Overtaken(rival[t]) >= pressed[t]
      BY <3>5, LiveNumbers DEF Overtaken
    <3>7. ASSUME NEW u \in Sessions, at'[u] = "fetch", call'[u] = c,
                 selected'[u].station = selected[t].station
          PROVE  begun'[u] + Overtaken(rival[t]) >= pressed[t]
      <4>1. CASE u = s
        BY <3>6, <3>7, <4>1
      <4>2. CASE u # s
        BY <1>1, <3>2, <3>7, <4>2
      <4> QED BY <4>1, <4>2
    <3> QED BY <3>1, <3>4, <3>7
  <2> QED BY <2>1 DEF RefreshInv
<1>6. ShownAsRequested'
  BY <1>2 DEF ShownAsRequested, SessionInv
<1> QED BY <1>2, <1>3, <1>4, <1>5, <1>6 DEF LiveInv

\* What a call for a station returns, from the cache or not, was asked for as the script
\* wants it.
LEMMA GoodAnswer ==
  ASSUME LiveInv, NEW s \in Sessions, NEW value, Returned(s, value)
  PROVE  /\ value \in Value /\ value.asked <= now /\ now - value.asked <= Ttl[call[s]] + MaxFetch
         /\ call[s] # "catalog" => Requested(s, value) /\ Recent(call[s], value)
<1>0. /\ LiveTypeOK /\ EntryInv /\ RefreshInv /\ SessionInv(s) /\ call[s] \in Functions
      /\ now \in Nat /\ MaxFetch \in Nat /\ Ttl[call[s]] \in Nat \ {0}
  BY LiveNumbers DEF LiveInv, LiveTypeOK
<1>1. at[s] \in Scripted /\ (call[s] # "catalog" => Arg(s) = selected[s].station)
  BY DEF Returned, Arg
<1>2. ASSUME call[s] # "catalog", pressed[s] # NoTime
      PROVE  call[s] \in Cleared /\ Renewed(s, call[s])
  BY <1>0, <1>1, <1>2 DEF Renewed, Cleared, Functions
<1>3. CASE \E e \in Hit(s) : value = e.value
  <2>1. PICK e \in entries[call[s]] : /\ value = e.value /\ e.value.of = Arg(s)
                                      /\ now - e.stored < Ttl[call[s]]
    BY <1>3 DEF Hit, Young
  <2>2. e \in [value : Value, stored : Times] /\ e.value.asked <= e.stored /\ e.stored <= now
    BY <1>0 DEF LiveTypeOK
  <2>3. value \in Value /\ value.asked \in Nat /\ e.stored \in Nat
    BY <2>1, <2>2, LiveNumbers DEF Value
  <2>4. e.stored - value.asked <= MaxFetch /\ value.asked <= e.stored
    BY <1>0, <2>1, <2>2 DEF EntryInv
  <2>5. value.asked <= now /\ now - value.asked < Ttl[call[s]] + MaxFetch
    BY <1>0, <2>1, <2>2, <2>3, <2>4
  <2>6. ASSUME call[s] # "catalog", pressed[s] # NoTime
        PROVE  value.asked + Overtaken(rival[s]) >= pressed[s]
    BY <1>0, <1>1, <1>2, <2>1, <2>6 DEF RefreshInv
  <2>7. call[s] # "catalog" => Requested(s, value)
    BY <1>1, <2>1, <2>3, <2>6 DEF Requested
  <2> QED BY <1>0, <2>3, <2>5, <2>7 DEF Recent
<1>4. CASE /\ at[s] = "fetch" /\ value.of = Arg(s) /\ value.asked = begun[s]
           /\ value.bundled \in BOOLEAN
           /\ value = [of |-> Arg(s), asked |-> begun[s], bundled |-> value.bundled]
  <2>1. /\ begun[s] \in Times /\ begun[s] \in Nat /\ begun[s] <= now
        /\ now - begun[s] <= MaxFetch
    BY <1>0, <1>4, LiveNumbers DEF SessionInv
  <2>2. Arg(s) \in Stations \cup {NoArg}
    BY <1>0 DEF LiveTypeOK, Arg
  <2>3. value \in Value
    BY <1>4, <2>1, <2>2 DEF Value
  <2>4. now - value.asked < Ttl[call[s]] + MaxFetch
    BY <1>0, <1>4, <2>1
  <2>5. ASSUME call[s] # "catalog", pressed[s] # NoTime
        PROVE  value.asked + Overtaken(rival[s]) >= pressed[s]
    BY <1>0, <1>2, <1>4, <2>5 DEF RefreshInv
  <2>6. call[s] # "catalog" => Requested(s, value)
    BY <1>1, <1>4, <2>3, <2>5 DEF Requested
  <2> QED BY <1>0, <1>4, <2>1, <2>3, <2>4, <2>6 DEF Recent
<1> QED BY <1>3, <1>4 DEF Returned

\* The page that is shown has what the script was given.
LEMMA ShowsRequested ==
  ASSUME LiveTypeOK, NEW s \in Sessions, NEW snap, NEW guide, NEW compared,
         Show(s, snap, guide, compared), compared \in Compared(s, guide),
         Requested(s, snap), guide # NoValue => Requested(s, guide) /\ Recent("guidance", guide),
         ~selected[s].ofs => Recent("snapshot", snap),
         UNCHANGED <<now, selected>>
  PROVE  ValuesAsRequested'
<1>1. /\ shown'.to = {s} /\ shown'.snapshot = snap /\ shown'.guidance = guide
      /\ shown'.compared = compared /\ shown'.pressed = pressed[s] /\ shown'.rival = rival[s]
  BY DEF Show
<1>2. snap # NoValue
  BY LiveNumbers DEF Requested
<1>3. compared = "OFS" => guide # NoValue
  BY DEF Compared, Tide
<1> QED BY <1>1, <1>2, <1>3 DEF ValuesAsRequested, Requested, Recent

\* A page without values.
LEMMA NothingShown ==
  ASSUME Quiet \/ shown'.as = "error"
  PROVE  ValuesAsRequested'
BY DEF Quiet, Nothing, ValuesAsRequested
-----------------------------------------------------------------------------
\* The script of a press, or of a selection, begins.
LEMMA BeginKeeps ==
  ASSUME LiveInv, NEW s \in Sessions, Select(s) \/ Refresh(s)
  PROVE  LiveInv'
<1>0. /\ LiveTypeOK /\ ClearInv /\ EntryInv /\ RefreshInv
      /\ \A t \in Sessions : SessionInv(t)
  BY DEF LiveInv
<1>1. PICK selection \in [station : Stations, ofs : BOOLEAN], press \in BOOLEAN :
        /\ Begin(s, selection, press)
        /\ IF press THEN at[s] = "done" /\ refreshes < MaxRefresh /\ refreshes' = refreshes + 1
           ELSE UNCHANGED refreshes
  BY <1>0 DEF Select, Refresh, LiveTypeOK
<1>2. /\ at[s] \in {"idle", "done"} /\ UNCHANGED <<now, entries, clears, catalog, lock, begun>>
      /\ at'[s] = "look" /\ call'[s] = "catalog" /\ selected'[s] = selection
      /\ snapshot'[s] = NoValue /\ pressed'[s] = (IF press THEN now ELSE NoTime) /\ rival'[s] = FALSE
      /\ Quiet
  BY <1>0, <1>1 DEF Begin, LiveTypeOK
<1>3. Apart(s)
  BY <1>0, <1>1 DEF Begin, Apart
<1>4. now \in Times /\ refreshes \in Nat /\ refreshes' \in 0..MaxRefresh
  BY <1>0, <1>1, LiveNumbers DEF LiveTypeOK
<1>5. LiveTypeOK'
  <2>1. /\ at' \in [Sessions -> {"idle", "clear", "look", "wait", "fetch", "done"}]
        /\ call' \in [Sessions -> Functions]
        /\ selected' \in [Sessions -> [station : Stations, ofs : BOOLEAN]]
        /\ snapshot' \in [Sessions -> Value \cup {NoValue}]
        /\ pressed' \in [Sessions -> Times \cup {NoTime}] /\ rival' \in [Sessions -> BOOLEAN]
    BY <1>0, <1>1, <1>4 DEF Begin, LiveTypeOK, Functions
  <2> QED BY <1>0, <1>2, <1>4, <2>1 DEF LiveTypeOK, catalog
<1>6. SessionInv(s)'
  <2>1. now <= now
    BY <1>4, LiveNumbers
  <2> QED BY <1>2, <2>1 DEF SessionInv
<1>7. ValuesAsRequested'
  BY <1>2, NothingShown
<1>8. CASE ~press
  <2>1. \A c \in Cleared : s \notin Due(c)' /\ ~Renewed(s, c)'
    BY <1>2, <1>8 DEF Due, Renewed
  <2> QED BY <1>1, <1>2, <1>3, <1>5, <1>6, <1>7, <1>8, <2>1, StepInOrder
<1>9. CASE press
  <2>1. ASSUME NEW t \in Sessions
        PROVE  /\ SessionInv(t)'
               /\ \A c \in Cleared : Renewed(t, c)' => t # s /\ Renewed(t, c)
    <3>1. CASE t = s
      BY <1>2, <1>6, <3>1 DEF Renewed
    <3>2. CASE t # s
      <4>1. SessionInv(t)
        BY <1>0
      <4> QED BY <1>2, <1>3, <3>2, <4>1 DEF SessionInv, Requested, Recent, Apart, Renewed
    <3> QED BY <3>1, <3>2
  <2>2. ClearInv'
    <3>1. ASSUME NEW c \in Cleared
          PROVE  clears'[c] + Cardinality(Due(c)') <= refreshes'
      <4>1. Due(c)' \subseteq Due(c) \cup {s} /\ Due(c) \subseteq Sessions
        BY <1>3 DEF Due, Apart
      <4>2. IsFiniteSet(Due(c)) /\ IsFiniteSet(Due(c) \cup {s}) /\ Cardinality(Due(c)) \in Nat
        BY <4>1, LiveNumbers, FS_Subset, FS_CardinalityType, FS_AddElement
      <4>3. Cardinality(Due(c) \cup {s}) <= Cardinality(Due(c)) + 1
        BY <4>2, FS_AddElement
      <4>4. /\ Cardinality(Due(c)') <= Cardinality(Due(c) \cup {s})
            /\ Cardinality(Due(c)') \in Nat /\ Cardinality(Due(c) \cup {s}) \in Nat
        BY <4>1, <4>2, FS_Subset, FS_CardinalityType
      <4>5. clears[c] + Cardinality(Due(c)) <= refreshes
        BY <1>0 DEF ClearInv
      <4>6. clears[c] \in Nat
        BY <1>0, LiveNumbers DEF LiveTypeOK, Cleared, Functions
      <4> QED BY <1>1, <1>2, <1>4, <1>9, <4>2, <4>3, <4>4, <4>5, <4>6
    <3> QED BY <1>0, <1>2, <3>1 DEF ClearInv
  <2>3. EntryInv'
    BY <1>0, <1>2 DEF EntryInv
  <2>4. RefreshInv'
    <3>1. ASSUME NEW t \in Sessions, NEW c \in Cleared, Renewed(t, c)'
          PROVE  /\ \A e \in entries[c] : e.value.of = selected'[t].station
                      => e.value.asked + Overtaken(rival'[t]) >= pressed'[t]
                 /\ \A u \in Sessions :
                      at'[u] = "fetch" /\ call'[u] = c /\ selected'[u].station = selected'[t].station
                      => begun'[u] + Overtaken(rival'[t]) >= pressed'[t]
      <4>1. /\ Renewed(t, c) /\ selected'[t] = selected[t] /\ pressed'[t] = pressed[t]
            /\ rival'[t] = rival[t]
        BY <1>3, <2>1, <3>1 DEF Apart
      <4>2. \A u \in Sessions : at'[u] = "fetch" =>
              at[u] = "fetch" /\ call'[u] = call[u] /\ selected'[u] = selected[u] /\ begun'[u] = begun[u]
        BY <1>2, <1>3 DEF Apart
      <4> QED BY <1>0, <4>1, <4>2 DEF RefreshInv
    <3> QED BY <1>2, <3>1 DEF RefreshInv
  <2>5. ShownAsRequested'
    BY <1>7, <2>1 DEF ShownAsRequested, SessionInv
  <2> QED BY <1>5, <2>1, <2>2, <2>3, <2>4, <2>5 DEF LiveInv
<1> QED BY <1>8, <1>9

\* The script goes on, with the lock of its call or without.
LEMMA CallKeeps ==
  ASSUME LiveInv, NEW s \in Sessions, Waits(s) \/ Fetches(s)
  PROVE  LiveInv'
<1>0. LiveTypeOK /\ SessionInv(s)
  BY DEF LiveInv
<1>1. /\ UNCHANGED <<now, refreshes, entries, clears, catalog, call, selected, snapshot, presses>>
      /\ Quiet /\ at[s] \in Scripted /\ at'[s] \in {"wait", "fetch"}
      /\ at'[s] = "fetch" => begun'[s] = now
      /\ at' \in [Sessions -> {"idle", "clear", "look", "wait", "fetch", "done"}]
      /\ lock' \in [Sessions -> 0..MaxRefresh] /\ begun' \in [Sessions -> Times \cup {NoTime}]
  BY <1>0 DEF Waits, Fetches, LiveTypeOK, clock, Scripted
<1>2. Apart(s)
  BY <1>0, <1>1 DEF Waits, Fetches, Apart, presses, LiveTypeOK
<1>3. LiveTypeOK'
  BY <1>0, <1>1 DEF LiveTypeOK, catalog, presses
<1>4. SessionInv(s)'
  <2>1. now \in Times /\ now \in Nat /\ MaxFetch \in Nat
    BY <1>0, LiveNumbers DEF LiveTypeOK
  <2>2. now <= now /\ now - now <= MaxFetch
    BY <2>1
  <2> QED BY <1>0, <1>1, <2>1, <2>2 DEF SessionInv, Requested, Recent, Scripted, presses
<1>5. /\ \A c \in Cleared : s \in Due(c)' => s \in Due(c)
      /\ \A c \in Cleared : Renewed(s, c)' =>
           /\ Renewed(s, c) /\ pressed'[s] = pressed[s] /\ selected'[s] = selected[s]
           /\ rival'[s] = rival[s]
  BY <1>1 DEF Due, Renewed, presses, Scripted
<1> QED BY <1>1, <1>2, <1>3, <1>4, <1>5, NothingShown, StepInOrder

\* The script shows a page: nothing is asked of it then.
LEMMA ShowKeeps ==
  ASSUME LiveInv, NEW s \in Sessions, Apart(s), LiveTypeOK',
         UNCHANGED <<now, refreshes, clears>>, at'[s] = "done", pressed'[s] = NoTime,
         \A c \in Functions : \A e \in entries'[c] :
           \/ e \in entries[c]
           \/ /\ at[s] = "fetch" /\ call[s] = c
              /\ e.value.of = Arg(s) /\ e.value.asked = begun[s] /\ e.stored = now,
         ValuesAsRequested'
  PROVE  LiveInv'
<1>1. SessionInv(s)'
  BY DEF SessionInv, Scripted
<1>2. \A c \in Cleared : s \notin Due(c)' /\ ~Renewed(s, c)'
  BY DEF Due, Renewed
<1> QED BY <1>1, <1>2, StepInOrder

\* The function raises.
LEMMA FailedKeeps ==
  ASSUME LiveInv, NEW s \in Sessions, at[s] = "fetch", Failed(s), Apart(s)
  PROVE  LiveInv'
<1>0. LiveTypeOK /\ SessionInv(s)
  BY DEF LiveInv
<1>1. /\ UNCHANGED <<now, refreshes, entries, clears, catalog, call, selected>>
      /\ at' = [at EXCEPT ![s] = "done"] /\ Release(s) /\ Over(s)
      /\ snapshot' \in [Sessions -> Value \cup {NoValue}]
      /\ rival' = [rival EXCEPT ![s] = FALSE]
  BY <1>0 DEF Failed, Raise, Show, LiveTypeOK, clock
<1>2. /\ at'[s] = "done" /\ pressed'[s] = NoTime
      /\ at' \in [Sessions -> {"idle", "clear", "look", "wait", "fetch", "done"}]
      /\ lock' \in [Sessions -> 0..MaxRefresh] /\ begun' \in [Sessions -> Times \cup {NoTime}]
      /\ pressed' \in [Sessions -> Times \cup {NoTime}] /\ rival' \in [Sessions -> BOOLEAN]
  BY <1>0, <1>1, LiveNumbers DEF Release, Over, LiveTypeOK
<1>3. LiveTypeOK'
  BY <1>0, <1>1, <1>2 DEF LiveTypeOK, catalog
<1>4. ValuesAsRequested'
  <2>1. CASE call[s] = "guidance"
    <3>1. Show(s, snapshot[s], NoValue, Tide(s)) /\ Tide(s) \in Compared(s, NoValue)
      BY <2>1 DEF Failed, Raise, Compared
    <3>2. selected[s].ofs /\ Requested(s, snapshot[s])
      BY <1>0, <2>1 DEF SessionInv, Scripted
    <3> QED BY <1>0, <1>1, <3>1, <3>2, ShowsRequested
  <2>2. CASE call[s] # "guidance"
    <3>1. shown'.as = "error"
      BY <2>2 DEF Failed, Raise, Nothing
    <3> QED BY <3>1, NothingShown
  <2> QED BY <2>1, <2>2
<1> QED BY <1>1, <1>2, <1>3, <1>4, ShowKeeps

\* A call returns, from the cache or after a fetch.
LEMMA ReturnKeeps ==
  ASSUME LiveInv, NEW s \in Sessions, NEW value, Returned(s, value), Apart(s)
  PROVE  LiveInv'
<1>0. LiveTypeOK /\ SessionInv(s) /\ call[s] \in Functions
  BY DEF LiveInv, LiveTypeOK
<1>1. /\ UNCHANGED <<now, refreshes, clears, catalog, selected>>
      /\ at[s] \in Scripted /\ Return(s, value) /\ Over(s)
      /\ Release(s) \/ UNCHANGED <<lock, begun>>
  BY DEF Returned, clock
<1>2. /\ value \in Value /\ value.asked <= now
      /\ call[s] # "catalog" => Requested(s, value) /\ Recent(call[s], value)
  BY GoodAnswer
<1>3. /\ EntriesOK'
      /\ \A c \in Functions : \A e \in entries'[c] :
           \/ e \in entries[c]
           \/ /\ at[s] = "fetch" /\ call[s] = c
              /\ e.value.of = Arg(s) /\ e.value.asked = begun[s] /\ e.stored = now
  <2>1. CASE UNCHANGED entries
    BY <1>0, <1>1, <2>1 DEF LiveTypeOK, EntriesOK
  <2>2. CASE /\ at[s] = "fetch" /\ Stored(call[s], value) /\ value.of = Arg(s)
             /\ value.asked = begun[s]
    <3> DEFINE new == [value |-> value, stored |-> now]
    <3>1. /\ EntriesOK'
          /\ \A d \in Functions : \A e \in entries'[d] : e \in entries[d] \/ (d = call[s] /\ e = new)
      BY <1>0, <1>1, <1>2, <2>2, StoredTypes
    <3>2. new.value.of = Arg(s) /\ new.value.asked = begun[s] /\ new.stored = now
      BY <2>2
    <3> HIDE DEF new
    <3> QED BY <2>2, <3>1, <3>2
  <2> QED BY <2>1, <2>2 DEF Returned
<1>4. /\ lock' \in [Sessions -> 0..MaxRefresh] /\ begun' \in [Sessions -> Times \cup {NoTime}]
      /\ pressed' \in [Sessions -> Times \cup {NoTime}]
      /\ pressed'[s] = IF at'[s] = "done" THEN NoTime ELSE pressed[s]
  <2>1. lock' \in [Sessions -> 0..MaxRefresh] /\ begun' \in [Sessions -> Times \cup {NoTime}]
    <3>1. 0 \in 0..MaxRefresh /\ lock \in [Sessions -> 0..MaxRefresh]
          /\ begun \in [Sessions -> Times \cup {NoTime}]
      BY <1>0, LiveNumbers DEF LiveTypeOK
    <3> QED BY <1>1, <3>1 DEF Release
  <2>2. /\ pressed \in [Sessions -> Times \cup {NoTime}]
        /\ pressed' = [pressed EXCEPT ![s] = IF at'[s] = "done" THEN NoTime ELSE @]
    BY <1>0, <1>1 DEF Over, LiveTypeOK
  <2> QED BY <2>1, <2>2
<1>5. ASSUME at' \in [Sessions -> {"idle", "clear", "look", "wait", "fetch", "done"}],
             call' \in [Sessions -> Functions], snapshot' \in [Sessions -> Value \cup {NoValue}],
             rival' \in [Sessions -> BOOLEAN]
      PROVE  LiveTypeOK'
  BY <1>0, <1>1, <1>3, <1>4, <1>5 DEF LiveTypeOK, EntriesOK, catalog
<1>6. CASE call[s] = "catalog" /\ Listed(s) /\ UNCHANGED snapshot /\ Quiet
  <2>1. /\ at'[s] = (IF pressed[s] # NoTime THEN "clear" ELSE "look") /\ call'[s] = "snapshot"
        /\ snapshot' = snapshot
        /\ at' \in [Sessions -> {"idle", "clear", "look", "wait", "fetch", "done"}]
        /\ call' \in [Sessions -> Functions] /\ rival' \in [Sessions -> BOOLEAN]
    BY <1>0, <1>6 DEF Listed, LiveTypeOK, Functions, Underway
  <2>2. LiveTypeOK'
    BY <1>0, <1>5, <2>1 DEF LiveTypeOK
  <2>3. SessionInv(s)'
    BY <1>0, <1>1, <1>4, <2>1 DEF SessionInv, Scripted, Cleared
  <2>4. /\ \A c \in Cleared : s \in Due(c)' => s \in Due(c)
        /\ \A c \in Cleared : ~Renewed(s, c)'
    BY <1>1, <1>4, <1>6, <2>1 DEF Due, Renewed, Scripted
  <2> QED BY <1>1, <1>3, <1>6, <2>1, <2>2, <2>3, <2>4, NothingShown, StepInOrder
<1>7. CASE /\ call[s] = "snapshot" /\ selected[s].ofs
           /\ call' = [call EXCEPT ![s] = "guidance"] /\ at' = [at EXCEPT ![s] = "look"]
           /\ snapshot' = [snapshot EXCEPT ![s] = value] /\ UNCHANGED rival /\ Quiet
  <2>1. /\ at'[s] = "look" /\ call'[s] = "guidance" /\ snapshot'[s] = value
        /\ at' \in [Sessions -> {"idle", "clear", "look", "wait", "fetch", "done"}]
        /\ call' \in [Sessions -> Functions] /\ snapshot' \in [Sessions -> Value \cup {NoValue}]
    BY <1>0, <1>2, <1>7 DEF LiveTypeOK, Functions
  <2>2. LiveTypeOK'
    BY <1>0, <1>5, <1>7, <2>1 DEF LiveTypeOK
  <2>3. Requested(s, value) /\ Recent("snapshot", value)
    BY <1>2, <1>7
  <2>4. SessionInv(s)'
    BY <1>0, <1>1, <1>4, <1>7, <2>1, <2>3 DEF SessionInv, Requested, Recent
  <2>5. /\ \A c \in Cleared : s \notin Due(c)'
        /\ \A c \in Cleared : Renewed(s, c)' =>
             Renewed(s, c) /\ pressed'[s] = pressed[s] /\ selected'[s] = selected[s]
    BY <1>1, <1>4, <1>7, <2>1 DEF Due, Renewed, Scripted
  <2> QED BY <1>1, <1>3, <1>7, <2>1, <2>2, <2>4, <2>5, NothingShown, StepInOrder
<1>8. ASSUME NEW snap, NEW guide, NEW compared, Show(s, snap, guide, compared),
             compared \in Compared(s, guide), Requested(s, snap),
             guide # NoValue => Requested(s, guide) /\ Recent("guidance", guide),
             ~selected[s].ofs => Recent("snapshot", snap)
      PROVE  LiveInv'
  <2>1. /\ at'[s] = "done" /\ call' = call
        /\ at' \in [Sessions -> {"idle", "clear", "look", "wait", "fetch", "done"}]
        /\ snapshot' \in [Sessions -> Value \cup {NoValue}] /\ rival' \in [Sessions -> BOOLEAN]
    BY <1>0, <1>8 DEF Show, LiveTypeOK
  <2>2. LiveTypeOK'
    BY <1>0, <1>5, <2>1 DEF LiveTypeOK
  <2>3. ValuesAsRequested'
    BY <1>0, <1>1, <1>8, ShowsRequested
  <2> QED BY <1>1, <1>3, <1>4, <2>1, <2>2, <2>3, ShowKeeps
<1>9. CASE call[s] = "snapshot" /\ ~selected[s].ofs /\ Show(s, value, NoValue, Tide(s))
  <2>1. Tide(s) \in Compared(s, NoValue)
    BY DEF Compared
  <2> QED BY <1>2, <1>8, <1>9, <2>1
<1>10. ASSUME call[s] = "guidance",
              NEW compared \in Compared(s, value), Show(s, snapshot[s], value, compared)
       PROVE  LiveInv'
  <2>1. selected[s].ofs /\ Requested(s, snapshot[s])
    BY <1>0, <1>1, <1>10 DEF SessionInv
  <2> QED BY <1>2, <1>8, <1>10, <2>1
<1> QED BY <1>0, <1>1, <1>6, <1>7, <1>9, <1>10, ReturnCases

\* The press clears a cache.
LEMMA ClearKeeps ==
  ASSUME LiveInv, NEW s \in Sessions, Clear(s), Apart(s)
  PROVE  LiveInv'
<1>0. /\ LiveTypeOK /\ ClearInv /\ EntryInv /\ RefreshInv
      /\ \A t \in Sessions : SessionInv(t)
  BY DEF LiveInv
<1>1. /\ UNCHANGED <<now, refreshes, catalog, selected, lock, begun, snapshot, pressed>>
      /\ at[s] = "clear" /\ Quiet /\ call[s] \in Cleared /\ pressed[s] # NoTime
      /\ rival' = [rival EXCEPT ![s] = @ \/ Underway(s)]
  BY <1>0 DEF Clear, SessionInv, clock
<1>2. call[s] \in Functions /\ MaxRefresh \in Nat /\ refreshes \in 0..MaxRefresh
  BY <1>0, <1>1, LiveNumbers DEF Cleared, Functions, LiveTypeOK
<1>3. /\ entries'[call[s]] = {} /\ clears'[call[s]] = clears[call[s]] + 1
      /\ \A c \in Functions \ {call[s]} : entries'[c] = entries[c] /\ clears'[c] = clears[c]
      /\ entries' \in [Functions -> SUBSET [value : Value, stored : Times]]
      /\ at'[s] = (IF call[s] = "guidance" THEN "look" ELSE "clear")
      /\ call'[s] = (IF call[s] = "guidance" THEN "snapshot" ELSE "guidance")
      /\ at' \in [Sessions -> {"idle", "clear", "look", "wait", "fetch", "done"}]
      /\ call' \in [Sessions -> Functions] /\ rival' \in [Sessions -> BOOLEAN]
  BY <1>0, <1>1, <1>2 DEF Clear, LiveTypeOK, Functions, Underway
<1>4. /\ clears' = [clears EXCEPT ![call[s]] = @ + 1] /\ clears \in [Functions -> 0..MaxRefresh]
  BY <1>0 DEF Clear, LiveTypeOK
<1>5. ASSUME NEW c \in Cleared
      PROVE  /\ Due(c) \subseteq Sessions /\ Due(c)' \subseteq Due(c)
             /\ c = call[s] => s \in Due(c) /\ s \notin Due(c)'
  BY <1>1, <1>3 DEF Due, Apart, Cleared, Scripted
<1>6. ASSUME NEW c \in Cleared
      PROVE  clears'[c] + Cardinality(Due(c)') <= refreshes
  <2>1. /\ IsFiniteSet(Due(c)) /\ IsFiniteSet(Due(c)') /\ Cardinality(Due(c)) \in Nat
        /\ Cardinality(Due(c)') \in Nat /\ Cardinality(Due(c)') <= Cardinality(Due(c))
    BY <1>5, LiveNumbers, FS_Subset, FS_CardinalityType
  <2>2. clears[c] + Cardinality(Due(c)) <= refreshes /\ clears[c] \in Nat /\ refreshes \in Nat
    BY <1>0, <1>2, LiveNumbers DEF ClearInv, LiveTypeOK, Cleared, Functions
  <2>3. CASE c # call[s]
    BY <1>3, <2>1, <2>2, <2>3 DEF Cleared, Functions
  <2>4. CASE c = call[s]
    <3>1. Due(c)' \subseteq Due(c) \ {s} /\ s \in Due(c)
      BY <1>5, <2>4
    <3>2. IsFiniteSet(Due(c) \ {s}) /\ Cardinality(Due(c) \ {s}) = Cardinality(Due(c)) - 1
      BY <2>1, <3>1, FS_RemoveElement
    <3>3. Cardinality(Due(c)') <= Cardinality(Due(c) \ {s})
      BY <3>1, <3>2, FS_Subset
    <3> QED BY <1>3, <2>1, <2>2, <2>4, <3>2, <3>3
  <2> QED BY <2>3, <2>4
<1>7. ClearInv'
  <2>1. clears'["catalog"] = clears["catalog"]
    BY <1>1, <1>3 DEF Cleared, Functions
  <2> QED BY <1>0, <1>1, <1>6, <2>1 DEF ClearInv
<1>8. LiveTypeOK'
  <2>1. clears' \in [Functions -> 0..MaxRefresh]
    <3>1. ASSUME NEW c \in Cleared
          PROVE  clears'[c] \in 0..MaxRefresh
      <4>1. clears'[c] + Cardinality(Due(c)') <= refreshes
        BY <1>6
      <4>2. Cardinality(Due(c)') \in Nat
        BY <1>5, LiveNumbers, FS_Subset, FS_CardinalityType
      <4>3. clears'[c] \in Nat
        BY <1>2, <1>3, <1>4 DEF Cleared, Functions
      <4> QED BY <1>2, <4>1, <4>2, <4>3
    <3>2. clears'[call[s]] \in 0..MaxRefresh
      BY <1>1, <3>1
    <3> QED BY <1>2, <1>4, <3>2
  <2>2. \A c \in Functions : entries'[c] \subseteq entries[c]
    BY <1>3
  <2>3. \A c \in Functions :
          /\ \A e \in entries'[c] : e.value.asked <= e.stored /\ e.stored <= now
          /\ \A d, e \in entries'[c] : d.value.of = e.value.of => d = e
    BY <1>0, <2>2 DEF LiveTypeOK
  <2> QED BY <1>0, <1>1, <1>3, <2>1, <2>3 DEF LiveTypeOK, catalog
<1>9. EntryInv'
  BY <1>0, <1>3 DEF EntryInv
<1>10. ASSUME NEW t \in Sessions
       PROVE  SessionInv(t)'
  <2>1. SessionInv(t)
    BY <1>0
  <2>2. CASE t = s
    BY <1>1, <1>3, <2>1, <2>2 DEF SessionInv, Cleared, Scripted
  <2>3. CASE t # s
    BY <1>1, <2>1, <2>3 DEF SessionInv, Requested, Recent, Apart
  <2> QED BY <2>2, <2>3
<1>11. ASSUME NEW t \in Sessions, NEW c \in Cleared, Renewed(t, c)'
       PROVE  /\ \A e \in entries'[c] : e.value.of = selected[t].station
                   => e.value.asked + Overtaken(rival'[t]) >= pressed[t]
              /\ \A u \in Sessions :
                   at'[u] = "fetch" /\ call'[u] = c /\ selected[u].station = selected[t].station
                   => begun[u] + Overtaken(rival'[t]) >= pressed[t]
  <2>1. entries'[c] \subseteq entries[c] /\ (c = call[s] => entries'[c] = {})
    BY <1>3 DEF Cleared, Functions
  <2>2. \A u \in Sessions : at'[u] = "fetch" => at[u] = "fetch" /\ call'[u] = call[u] /\ u # s
    BY <1>3 DEF Apart
  <2>3. CASE Renewed(t, c)
    <3>1. /\ \A e \in entries[c] : e.value.of = selected[t].station
               => e.value.asked + Overtaken(rival[t]) >= pressed[t]
          /\ \A u \in Sessions :
               at[u] = "fetch" /\ call[u] = c /\ selected[u].station = selected[t].station
               => begun[u] + Overtaken(rival[t]) >= pressed[t]
      BY <1>0, <2>3 DEF RefreshInv
    <3>2. rival[t] => rival'[t]
      BY <1>0, <1>1 DEF LiveTypeOK, Apart
    <3>3. pressed[t] \in Nat
      BY <1>0, LiveNumbers DEF LiveTypeOK
    <3>4. \A n \in Nat : n + Overtaken(rival[t]) >= pressed[t] => n + Overtaken(rival'[t]) >= pressed[t]
      BY <3>2, <3>3, LiveNumbers DEF Overtaken
    <3>5. \A e \in entries[c] : e.value.asked \in Nat
      <4>1. entries[c] \subseteq [value : Value, stored : Times]
        BY <1>0 DEF LiveTypeOK, Cleared, Functions
      <4>2. \A v \in Value : v.asked \in Nat
        BY LiveNumbers DEF Value
      <4> QED BY <4>1, <4>2
    <3>6. \A u \in Sessions : at[u] = "fetch" => begun[u] \in Nat
      BY <1>0, LiveNumbers DEF SessionInv
    <3> QED BY <2>1, <2>2, <3>1, <3>4, <3>5, <3>6
  <2>4. CASE ~Renewed(t, c)
    <3>1. t = s /\ c = call[s]
      <4>1. t = s
        BY <1>1, <1>11, <2>4 DEF Renewed, Apart
      <4> QED BY <1>1, <1>3, <1>11, <2>4, <4>1 DEF Renewed, Scripted, Cleared
    <3>2. c # "catalog"
      BY DEF Cleared
    <3>3. ASSUME NEW u \in Sessions, at'[u] = "fetch", call'[u] = c,
                 selected[u].station = selected[t].station
          PROVE  begun[u] + Overtaken(rival'[t]) >= pressed[t]
      <4>1. Underway(s)
        BY <2>2, <3>1, <3>2, <3>3 DEF Underway
      <4>2. rival'[s]
        BY <1>0, <1>1, <4>1 DEF LiveTypeOK
      <4>3. begun[u] \in Nat /\ begun[u] <= now /\ now - begun[u] <= MaxFetch
        BY <1>0, <2>2, <3>3, LiveNumbers DEF SessionInv
      <4>4. pressed[s] \in Nat /\ pressed[s] <= now /\ now \in Nat
        BY <1>0, <1>1, LiveNumbers DEF LiveTypeOK, SessionInv
      <4> QED BY <3>1, <4>2, <4>3, <4>4, LiveNumbers DEF Overtaken
    <3> QED BY <2>1, <3>1, <3>3
  <2> QED BY <2>3, <2>4
<1>12. RefreshInv'
  BY <1>1, <1>11 DEF RefreshInv
<1>13. ShownAsRequested'
  BY <1>1, <1>10, NothingShown DEF ShownAsRequested, SessionInv
<1> QED BY <1>7, <1>8, <1>9, <1>10, <1>12, <1>13 DEF LiveInv
-----------------------------------------------------------------------------
\* Time passes.
LEMMA TickKeeps ==
  ASSUME LiveInv, Tick
  PROVE  LiveInv'
<1>0. /\ LiveTypeOK /\ ClearInv /\ EntryInv /\ RefreshInv
      /\ \A t \in Sessions : SessionInv(t)
  BY DEF LiveInv
<1>1. /\ UNCHANGED <<refreshes, clears, catalog, script, presses>> /\ Quiet
      /\ UNCHANGED <<at, call, selected, lock, begun, snapshot, pressed, rival, bundle, sync, syncs>>
      /\ now < MaxTime /\ now' = now + 1
      /\ \A s \in Sessions : at[s] # "look" /\ at[s] # "clear"
      /\ \A s \in Sessions : at[s] = "fetch" => now - begun[s] < MaxFetch
      /\ entries' = [c \in Functions |-> {e \in entries[c] : Young(c, e.stored, now + 1)}]
  BY DEF Tick, catalog, script, presses
<1>2. now \in Nat /\ now' \in Times /\ MaxFetch \in Nat
  BY <1>0, <1>1, LiveNumbers DEF LiveTypeOK, Times
<1>3. /\ entries' \in [Functions -> SUBSET [value : Value, stored : Times]]
      /\ \A c \in Functions : entries'[c] \subseteq entries[c]
  BY <1>0, <1>1 DEF LiveTypeOK
<1>4. LiveTypeOK'
  <2>1. ASSUME NEW c \in Functions
        PROVE  /\ \A e \in entries'[c] : e.value.asked <= e.stored /\ e.stored <= now'
               /\ \A d, e \in entries'[c] : d.value.of = e.value.of => d = e
    <3>1. \A e \in entries[c] : e.value.asked <= e.stored /\ e.stored <= now /\ e.stored \in Nat
      <4>1. entries[c] \subseteq [value : Value, stored : Times]
        BY <1>0 DEF LiveTypeOK
      <4>2. \A e \in entries[c] : e.value.asked <= e.stored /\ e.stored <= now
        BY <1>0 DEF LiveTypeOK
      <4> QED BY <4>1, <4>2, LiveNumbers
    <3>2. \A d, e \in entries[c] : d.value.of = e.value.of => d = e
      BY <1>0 DEF LiveTypeOK
    <3> QED BY <1>1, <1>2, <1>3, <3>1, <3>2
  <2> QED BY <1>0, <1>1, <1>2, <1>3, <2>1 DEF LiveTypeOK
<1>5. ClearInv'
  BY <1>0, <1>1 DEF ClearInv, Due
<1>6. EntryInv'
  BY <1>0, <1>3 DEF EntryInv
<1>7. RefreshInv'
  BY <1>0, <1>1, <1>3 DEF RefreshInv, Renewed, Cleared, Functions
<1>8. ASSUME NEW s \in Sessions
      PROVE  SessionInv(s)'
  <2>1. /\ SessionInv(s) /\ at[s] # "look"
        /\ at[s] = "fetch" => now - begun[s] < MaxFetch
    BY <1>0, <1>1
  <2>2. pressed[s] \in Nat /\ (pressed[s] <= now => pressed[s] <= now')
    <3>1. pressed[s] \in Times \cup {NoTime}
      BY <1>0 DEF LiveTypeOK
    <3>2. pressed[s] \in Nat
      BY <3>1, LiveNumbers
    <3> QED BY <1>1, <1>2, <3>2
  <2>3. at[s] = "fetch" => begun[s] <= now' /\ now' - begun[s] <= MaxFetch
    <3>1. at[s] = "fetch" => begun[s] \in Nat /\ begun[s] <= now
      BY <2>1, LiveNumbers DEF SessionInv
    <3> QED BY <1>1, <1>2, <2>1, <3>1
  <2> QED BY <1>1, <2>1, <2>2, <2>3 DEF SessionInv, Requested
<1>9. ShownAsRequested'
  BY <1>1, <1>8, NothingShown DEF ShownAsRequested, SessionInv
<1> QED BY <1>4, <1>5, <1>6, <1>7, <1>8, <1>9 DEF LiveInv

\* What leaves the sessions, their caches and their pages alone.
LEMMA QuietKeeps ==
  ASSUME LiveInv,
         UNCHANGED <<clock, entries, clears, script, presses>>,
         UNCHANGED catalog \/ Sync,
         UNCHANGED shown \/ Quiet
  PROVE  LiveInv'
<1>0. /\ LiveTypeOK /\ ClearInv /\ EntryInv /\ RefreshInv /\ ShownAsRequested
      /\ \A t \in Sessions : SessionInv(t)
  BY DEF LiveInv
<1>1. UNCHANGED <<now, refreshes, entries, clears, at, call, selected, lock, begun, snapshot,
                  pressed, rival>>
  BY DEF clock, script, presses
<1>2. /\ bundle' \in {"good", "torn", "missing"} /\ sync' \in {"idle", "write"}
      /\ syncs' \in 0..MaxSyncs
  BY <1>0, LiveNumbers DEF LiveTypeOK, catalog, Sync, SyncOpen, SyncWrite, SyncKilled
<1>3. LiveTypeOK'
  BY <1>0, <1>1, <1>2 DEF LiveTypeOK
<1>4. ClearInv' /\ EntryInv' /\ RefreshInv'
  BY <1>0, <1>1 DEF ClearInv, Due, EntryInv, RefreshInv, Renewed
<1>5. \A s \in Sessions : SessionInv(s)'
  BY <1>0, <1>1 DEF SessionInv, Requested, Recent
<1>6. ValuesAsRequested'
  <2>1. CASE UNCHANGED shown
    BY <1>0, <1>1, <2>1 DEF ShownAsRequested, ValuesAsRequested, Recent
  <2> QED BY <2>1, NothingShown
<1>7. ShownAsRequested'
  BY <1>5, <1>6 DEF ShownAsRequested, SessionInv
<1> QED BY <1>3, <1>4, <1>5, <1>7 DEF LiveInv

\* A session without a script turns to the backtest page.
LEMMA OpenPageKeeps ==
  ASSUME LiveInv, NEW s \in Sessions, OpenPage(s)
  PROVE  LiveInv'
<1>0. LiveTypeOK /\ SessionInv(s)
  BY DEF LiveInv
<1>1. /\ UNCHANGED <<now, refreshes, entries, clears, bundle, sync, syncs, call, selected, lock,
                     begun, snapshot, pressed, rival>>
      /\ at[s] \in {"idle", "done"} /\ at' = [at EXCEPT ![s] = "idle"] /\ Quiet
  BY DEF OpenPage, clock, catalog, presses
<1>2. /\ at' \in [Sessions -> {"idle", "clear", "look", "wait", "fetch", "done"}]
      /\ at'[s] = "idle" /\ Apart(s)
  BY <1>0, <1>1 DEF LiveTypeOK, Apart
<1>3. LiveTypeOK'
  BY <1>0, <1>1, <1>2 DEF LiveTypeOK
<1>4. SessionInv(s)'
  BY <1>0, <1>1, <1>2 DEF SessionInv, Scripted
<1>5. \A c \in Cleared : s \notin Due(c)' /\ ~Renewed(s, c)'
  BY <1>2 DEF Due, Renewed, Scripted
<1> QED BY <1>1, <1>2, <1>3, <1>4, <1>5, NothingShown, StepInOrder

\* The live view as it starts.
LEMMA LiveStarts ==
  ASSUME LiveInit
  PROVE  LiveInv
<1>1. /\ now = 0 /\ refreshes = 0 /\ syncs = 0 /\ sync = "idle" /\ bundle \in {"good", "missing"}
      /\ entries = [c \in Functions |-> {}] /\ clears = [c \in Functions |-> 0]
      /\ at = [s \in Sessions |-> "idle"] /\ call = [s \in Sessions |-> "catalog"]
      /\ lock = [s \in Sessions |-> 0] /\ begun = [s \in Sessions |-> NoTime]
      /\ snapshot = [s \in Sessions |-> NoValue] /\ shown = Nothing
      /\ pressed = [s \in Sessions |-> NoTime] /\ rival = [s \in Sessions |-> FALSE]
  BY DEF LiveInit
<1>2. selected \in [Sessions -> [station : Stations, ofs : BOOLEAN]]
  BY DEF LiveInit
<1>3. 0 \in Times /\ 0 \in 0..MaxRefresh /\ 0 \in 0..MaxSyncs
  BY LiveNumbers DEF Times
<1>4. LiveTypeOK
  BY <1>1, <1>2, <1>3 DEF LiveTypeOK, Functions
<1>5. ClearInv
  <2>1. \A c \in Cleared : Due(c) = {} /\ clears[c] = 0
    BY <1>1 DEF Due, Cleared, Functions
  <2>2. Cardinality({}) = 0
    BY FS_EmptySet
  <2> QED BY <1>1, <2>1, <2>2 DEF ClearInv, Functions
<1>6. EntryInv
  BY <1>1 DEF EntryInv
<1>7. \A s \in Sessions : SessionInv(s) /\ \A c \in Cleared : ~Renewed(s, c)
  BY <1>1 DEF SessionInv, Renewed, Scripted
<1>8. ShownAsRequested
  BY <1>1 DEF ShownAsRequested, ValuesAsRequested, Nothing
<1> QED BY <1>4, <1>5, <1>6, <1>7, <1>8 DEF LiveInv, RefreshInv

\* Every step keeps the state of the live view.
LEMMA LiveKeeps ==
  ASSUME LiveInv, Next \/ UNCHANGED vars
  PROVE  LiveInv'
<1>0. LiveTypeOK
  BY DEF LiveInv
<1>1. ASSUME NEW s \in Sessions, LiveStep(s)
      PROVE  LiveInv'
  <2>1. Apart(s)
    BY <1>0, <1>1, OthersAlone
  <2>2. \A value : Returned(s, value) => LiveInv'
    BY <2>1, ReturnKeeps
  <2>3. at[s] = "fetch" /\ Failed(s) => LiveInv'
    BY <2>1, FailedKeeps
  <2>4. Waits(s) \/ Fetches(s) => LiveInv'
    BY CallKeeps
  <2>5. Clear(s) => LiveInv'
    BY <2>1, ClearKeeps
  <2>6. Refresh(s) => LiveInv'
    BY BeginKeeps
  <2> QED BY <1>0, <1>1, <2>2, <2>3, <2>4, <2>5, <2>6, StepKinds
<1>2. CASE Around
  BY <1>2, TickKeeps, QuietKeeps DEF Around, Sync, SyncOpen, SyncWrite, SyncKilled
<1>3. CASE Shell
  BY <1>3, QuietKeeps DEF Shell
<1>4. ASSUME NEW s \in Sessions,
             OpenPage(s) \/ LoadSummary(s) \/ LoadEvidenceStatus(s) \/ LoadMetrics(s) \/ LoadFails(s)
      PROVE  LiveInv'
  <2>1. OpenPage(s) => LiveInv'
    BY OpenPageKeeps
  <2> QED BY <1>4, <2>1, QuietKeeps DEF LoadSummary, LoadEvidenceStatus, LoadMetrics, LoadFails
<1>5. ASSUME NEW s \in Sessions, Live(s)
      PROVE  LiveInv'
  BY <1>1, <1>5, BeginKeeps DEF Live
<1>6. CASE UNCHANGED vars
  BY <1>6, QuietKeeps DEF vars, liveVars
<1> QED BY <1>2, <1>3, <1>4, <1>5, <1>6 DEF Next
-----------------------------------------------------------------------------
(***************************************************************************)
(* The backtest page.                                                      *)
(***************************************************************************)
\* The source a page names for a file.
Named(f, report) == IF f = "summary" THEN report.of["metadata"] ELSE report.source

PageTypeOK ==
  /\ page \in [Sessions -> {"live", "summary", "verdict", "model", "shown"}]
  /\ DOMAIN kept \subseteq Loaded /\ \A f \in DOMAIN kept : kept[f].source \in Source \cup {NoSource}
  /\ verdict.fresh \in BOOLEAN /\ verdict.fingerprint \in Source \cup {NoSource}
  /\ verdict.stored \in Times \cup {NoTime}
  /\ verdict.fresh => verdict.stored \in Times
  /\ behind \in [{"kept", "verdict"} -> SUBSET Loaded]
  /\ \A s \in Sessions : page[s] \in {"summary", "verdict", "model"} => at[s] = "idle"

\* A kept file that is not behind is the one on disk.
KeptInv ==
  \A f \in DOMAIN kept \ behind["kept"] :
    kept[f] # NoText => Readable(f) /\ reports[f] = kept[f]
\* A file on disk that the verdict is not behind of was made from the source it names.
VerdictInv ==
  verdict.fresh =>
    \A f \in (Loaded \cap DOMAIN reports) \ behind["verdict"] :
      f \notin torn /\ Named(f, reports[f]) = verdict.fingerprint

PageInv == PageTypeOK /\ KeptInv /\ VerdictInv /\ FreshPage

\* A step of the shell changes a file that is there, or makes one, by opening it; it
\* writes no file it has not opened.
LEMMA OpenedFirst ==
  ASSUME EvidenceInv, EvidenceNext, NEW f, f \notin torn'
  PROVE  \/ f \in torn
         \/ /\ f \in DOMAIN reports' <=> f \in DOMAIN reports
            /\ f \in DOMAIN reports => reports'[f] = reports[f]
<1>1. CASE Open \/ Write
  <2>1. f \in torn \/ f # Out.file \/ UNCHANGED <<reports, torn>>
    BY <1>1 DEF Open, Write, EvidenceInv, ShellInv
  <2> QED BY <1>1, <2>1, OthersKept
<1>2. CASE ~(Open \/ Write)
  BY <1>2 DEF EvidenceNext, Make, Start, StartFails, NothingToBenchmark, Read, ReadFails, Cut, Edit,
              disk
<1> QED BY <1>1, <1>2

\* The page keeps what its files and its verdict say, whatever else goes on.
LEMMA PageKeeps ==
  ASSUME EvidenceInv, LiveTypeOK, PageInv, Next
  PROVE  PageInv'
<1>0. PageTypeOK /\ KeptInv /\ VerdictInv /\ FreshPage /\ EvidenceTypeOK
  BY DEF PageInv, EvidenceInv
<1>1. NoDisplay.fresh = FALSE
  BY DEF NoDisplay
<1>2. ASSUME UNCHANGED <<disk, kept, verdict, behind>>
      PROVE  KeptInv' /\ VerdictInv'
  BY <1>0, <1>2 DEF KeptInv, VerdictInv, Readable, Named, disk
<1>3. ASSUME UNCHANGED <<kept, verdict, behind>>,
             page' \in [Sessions -> {"live", "summary", "verdict", "model", "shown"}],
             \A t \in Sessions : page'[t] \in {"summary", "verdict", "model"} => at'[t] = "idle"
      PROVE  PageTypeOK'
  BY <1>0, <1>3 DEF PageTypeOK
<1>4. ASSUME display' = NoDisplay
      PROVE  FreshPage'
  BY <1>1, <1>4 DEF FreshPage
<1>5. CASE Around
  <2>1. UNCHANGED <<evidenceVars, page, kept, verdict, behind, at>> /\ display' = NoDisplay
    BY <1>5 DEF Around, Tick, Sync, SyncOpen, SyncWrite, SyncKilled, script
  <2> QED BY <1>0, <1>2, <1>3, <1>4, <2>1 DEF PageInv, PageTypeOK, evidenceVars
<1>6. CASE Shell
  <2>1. /\ EvidenceNext /\ display' = NoDisplay /\ UNCHANGED <<at, page, kept, verdict>>
        /\ behind' = [k \in DOMAIN behind |-> behind[k] \cup (torn' \cap Loaded)]
    BY <1>6 DEF Shell, script
  <2>2. /\ behind' \in [{"kept", "verdict"} -> SUBSET Loaded]
        /\ behind'["kept"] = behind["kept"] \cup (torn' \cap Loaded)
        /\ behind'["verdict"] = behind["verdict"] \cup (torn' \cap Loaded)
    BY <1>0, <2>1 DEF PageTypeOK
  <2>3. PageTypeOK'
    BY <1>0, <2>1, <2>2 DEF PageTypeOK
  <2>4. KeptInv'
    <3>1. ASSUME NEW f \in DOMAIN kept \ behind'["kept"], kept[f] # NoText
          PROVE  f \in DOMAIN reports' \ torn' /\ reports'[f] = kept[f]
      <4>1. f \notin torn' /\ f \notin behind["kept"]
        BY <1>0, <2>2, <3>1 DEF PageTypeOK
      <4>2. Readable(f) /\ reports[f] = kept[f]
        BY <1>0, <3>1, <4>1 DEF KeptInv
      <4> QED BY <2>1, <4>1, <4>2, OpenedFirst DEF Readable
    <3> QED BY <2>1, <3>1 DEF KeptInv, Readable
  <2>5. VerdictInv'
    <3>1. ASSUME verdict.fresh, NEW f \in (Loaded \cap DOMAIN reports') \ behind'["verdict"]
          PROVE  f \notin torn' /\ Named(f, reports'[f]) = verdict.fingerprint
      <4>1. f \notin torn' /\ f \notin behind["verdict"]
        BY <2>2
      <4>2. f \in DOMAIN reports => f \notin torn /\ Named(f, reports[f]) = verdict.fingerprint
        BY <1>0, <3>1, <4>1 DEF VerdictInv
      <4>3. f \in torn => f \in DOMAIN reports
        BY <1>0 DEF EvidenceTypeOK
      <4>4. f \in DOMAIN reports /\ reports'[f] = reports[f]
        BY <2>1, <4>1, <4>2, <4>3, OpenedFirst
      <4> QED BY <4>1, <4>2, <4>4
    <3> QED BY <2>1, <3>1 DEF VerdictInv, Named
  <2> QED BY <1>4, <2>1, <2>3, <2>4, <2>5 DEF PageInv
<1>7. ASSUME NEW s \in Sessions, Live(s)
      PROVE  PageInv'
  <2>1. /\ UNCHANGED <<evidenceVars, kept, verdict, behind>> /\ display' = NoDisplay
        /\ page' = [page EXCEPT ![s] = "live"] /\ Apart(s)
    BY <1>7, OthersAlone DEF Live
  <2>2. /\ page' \in [Sessions -> {"live", "summary", "verdict", "model", "shown"}]
        /\ \A t \in Sessions : page'[t] \in {"summary", "verdict", "model"} => at'[t] = "idle"
    BY <1>0, <2>1 DEF PageTypeOK, Apart
  <2> QED BY <1>2, <1>3, <1>4, <2>1, <2>2 DEF PageInv, evidenceVars
<1>8. ASSUME NEW s \in Sessions, OpenPage(s)
      PROVE  PageInv'
  <2>1. /\ UNCHANGED <<evidenceVars, kept, verdict, behind>> /\ display' = NoDisplay
        /\ page' = [page EXCEPT ![s] = "summary"] /\ at' = [at EXCEPT ![s] = "idle"]
    BY <1>8 DEF OpenPage
  <2>2. /\ page' \in [Sessions -> {"live", "summary", "verdict", "model", "shown"}]
        /\ \A t \in Sessions : page'[t] \in {"summary", "verdict", "model"} => at'[t] = "idle"
    BY <1>0, <2>1 DEF PageTypeOK, LiveTypeOK
  <2> QED BY <1>2, <1>3, <1>4, <2>1, <2>2 DEF PageInv, evidenceVars
<1>9. ASSUME NEW s \in Sessions, LoadFails(s)
      PROVE  PageInv'
  <2>1. /\ UNCHANGED <<evidenceVars, kept, verdict, behind, at>> /\ display' = NoDisplay
        /\ page' = [page EXCEPT ![s] = "shown"]
    BY <1>9 DEF LoadFails, script
  <2>2. /\ page' \in [Sessions -> {"live", "summary", "verdict", "model", "shown"}]
        /\ \A t \in Sessions : page'[t] \in {"summary", "verdict", "model"} => at'[t] = "idle"
    BY <1>0, <2>1 DEF PageTypeOK
  <2> QED BY <1>2, <1>3, <1>4, <2>1, <2>2 DEF PageInv, evidenceVars
<1>10. ASSUME NEW file \in Loaded, file \in DOMAIN kept \/ file \notin torn, Keep(file),
              UNCHANGED <<evidenceVars, verdict, at>>,
              page' \in [Sessions -> {"live", "summary", "verdict", "model", "shown"}],
              \A t \in Sessions : page'[t] \in {"summary", "verdict", "model"} => at[t] = "idle"
       PROVE  PageTypeOK' /\ KeptInv' /\ VerdictInv'
  <2>1. CASE file \in DOMAIN kept
    BY <1>0, <1>2, <1>3, <1>10, <2>1 DEF Keep, evidenceVars, PageTypeOK
  <2>2. CASE file \notin DOMAIN kept
    <3>1. /\ DOMAIN kept' = DOMAIN kept \cup {file}
          /\ kept'[file] = OnDisk(file) /\ \A f \in DOMAIN kept : kept'[f] = kept[f]
          /\ behind' = [behind EXCEPT !["kept"] = @ \ {file}]
      BY <1>10, <2>2 DEF Keep
    <3>2. /\ behind' \in [{"kept", "verdict"} -> SUBSET Loaded]
          /\ behind'["kept"] = behind["kept"] \ {file} /\ behind'["verdict"] = behind["verdict"]
      BY <1>0, <3>1 DEF PageTypeOK
    <3>3. OnDisk(file).source \in Source \cup {NoSource}
      BY <1>0 DEF OnDisk, NoText, EvidenceTypeOK
    <3>4. PageTypeOK'
      BY <1>0, <1>10, <3>1, <3>2, <3>3 DEF PageTypeOK
    <3>5. OnDisk(file) # NoText => Readable(file) /\ reports[file] = OnDisk(file)
      BY <1>10, <2>2 DEF OnDisk, Readable
    <3>6. \A f \in DOMAIN kept' \ behind'["kept"] :
            kept'[f] # NoText => Readable(f) /\ reports[f] = kept'[f]
      BY <1>0, <3>1, <3>2, <3>5 DEF KeptInv
    <3>7. KeptInv'
      BY <1>10, <3>6 DEF KeptInv, Readable, evidenceVars, disk
    <3>8. VerdictInv'
      BY <1>0, <1>10, <3>2 DEF VerdictInv, Named, evidenceVars, disk
    <3> QED BY <3>4, <3>7, <3>8
  <2> QED BY <2>1, <2>2
<1>11. ASSUME NEW s \in Sessions, LoadSummary(s)
       PROVE  PageInv'
  <2>1. /\ Keep("summary") /\ ("summary" \in DOMAIN kept \/ "summary" \notin torn)
        /\ UNCHANGED <<evidenceVars, verdict, at>> /\ display' = NoDisplay
        /\ page[s] = "summary" /\ page' = [page EXCEPT ![s] = "verdict"]
    BY <1>11 DEF LoadSummary, script
  <2>2. /\ page' \in [Sessions -> {"live", "summary", "verdict", "model", "shown"}]
        /\ \A t \in Sessions : page'[t] \in {"summary", "verdict", "model"} => at[t] = "idle"
    BY <1>0, <2>1 DEF PageTypeOK
  <2>3. "summary" \in Loaded
    BY DEF Loaded
  <2> QED BY <1>4, <1>10, <2>1, <2>2, <2>3 DEF PageInv
<1>12. ASSUME NEW s \in Sessions, LoadMetrics(s)
       PROVE  PageInv'
  <2>1. /\ Keep("model") /\ ("model" \in DOMAIN kept \/ "model" \notin torn)
        /\ UNCHANGED <<evidenceVars, verdict, at>>
        /\ display' = [fresh |-> verdict.fresh, fingerprint |-> verdict.fingerprint, of |-> kept']
        /\ page[s] = "model" /\ page' = [page EXCEPT ![s] = "shown"]
    BY <1>12 DEF LoadMetrics, script
  <2>2. /\ page' \in [Sessions -> {"live", "summary", "verdict", "model", "shown"}]
        /\ \A t \in Sessions : page'[t] \in {"summary", "verdict", "model"} => at[t] = "idle"
    BY <1>0, <2>1 DEF PageTypeOK
  <2>3. "model" \in Loaded
    BY DEF Loaded
  <2>4. PageTypeOK' /\ KeptInv' /\ VerdictInv'
    BY <1>10, <2>1, <2>2, <2>3
  <2>5. /\ display'.fresh = verdict'.fresh /\ display'.fingerprint = verdict'.fingerprint
        /\ display'.of = kept'
    BY <2>1
  <2>6. ASSUME verdict'.fresh, NEW f \in DOMAIN kept' \ (behind'["kept"] \cup behind'["verdict"]),
               kept'[f] # NoText
        PROVE  Named(f, kept'[f]) = verdict'.fingerprint
    <3>1. f \in DOMAIN reports' /\ reports'[f] = kept'[f] /\ f \in Loaded
      BY <2>4, <2>6 DEF PageTypeOK, KeptInv, Readable
    <3>2. \A g \in (Loaded \cap DOMAIN reports') \ behind'["verdict"] :
            Named(g, reports'[g]) = verdict'.fingerprint
      BY <2>4, <2>6 DEF VerdictInv, Named
    <3> QED BY <2>6, <3>1, <3>2
  <2>7. FreshPage'
    BY <2>5, <2>6 DEF FreshPage, Named
  <2> QED BY <2>4, <2>7 DEF PageInv
<1>13. ASSUME NEW s \in Sessions, LoadEvidenceStatus(s)
       PROVE  PageInv'
  <2>1. /\ page[s] = "verdict" /\ page' = [page EXCEPT ![s] = "model"] /\ display' = NoDisplay
        /\ UNCHANGED <<evidenceVars, kept, at>>
    BY <1>13 DEF LoadEvidenceStatus, script
  <2>2. /\ page' \in [Sessions -> {"live", "summary", "verdict", "model", "shown"}]
        /\ \A t \in Sessions : page'[t] \in {"summary", "verdict", "model"} => at'[t] = "idle"
    BY <1>0, <2>1 DEF PageTypeOK
  <2>3. CASE UNCHANGED <<verdict, behind>>
    BY <1>2, <1>3, <1>4, <2>1, <2>2, <2>3 DEF PageInv, evidenceVars
  <2>4. CASE /\ verdict' = [fresh |-> Fresh, stored |-> now,
                            fingerprint |-> IF Fresh THEN Current ELSE NoSource]
             /\ behind' = [behind EXCEPT !["verdict"] = IF tainted THEN {"model"} ELSE {}]
    <3>1. /\ behind' \in [{"kept", "verdict"} -> SUBSET Loaded] /\ behind'["kept"] = behind["kept"]
          /\ behind'["verdict"] = IF tainted THEN {"model"} ELSE {}
      BY <1>0, <2>4 DEF PageTypeOK, Loaded
    <3>2. /\ verdict'.fresh = Fresh /\ verdict'.stored = now
          /\ verdict'.fingerprint = IF Fresh THEN Current ELSE NoSource
      BY <2>4
    <3>3. now \in Times /\ Current \in Source /\ Fresh \in BOOLEAN
      BY <1>0 DEF LiveTypeOK, EvidenceTypeOK, Fresh
    <3>4. PageTypeOK'
      BY <1>0, <2>1, <2>2, <3>1, <3>2, <3>3 DEF PageTypeOK
    <3>5. KeptInv'
      BY <1>0, <2>1, <3>1 DEF KeptInv, Readable, evidenceVars, disk
    <3>6. ASSUME Fresh, NEW f \in (Loaded \cap DOMAIN reports) \ behind'["verdict"]
          PROVE  f \notin torn /\ Named(f, reports[f]) = Current
      <4>1. CASE f = "summary"
        BY <3>6, <4>1 DEF Fresh, Readable, Named
      <4>2. CASE f # "summary"
        <5>1. f = "model" /\ ~tainted
          BY <3>1, <3>6, <4>2 DEF Loaded
        <5> QED BY <3>6, <4>2, <5>1, FreshIsTrained DEF FreshMeansRetrained, Readable, Named
      <4> QED BY <4>1, <4>2
    <3>7. VerdictInv'
      BY <2>1, <3>2, <3>6 DEF VerdictInv, Named, evidenceVars, disk
    <3> QED BY <1>4, <2>1, <3>4, <3>5, <3>7 DEF PageInv
  <2> QED BY <1>13, <2>3, <2>4 DEF LoadEvidenceStatus
<1> QED BY <1>5, <1>6, <1>7, <1>8, <1>9, <1>11, <1>12, <1>13 DEF Next

\* No page is there at the start.
LEMMA PageStarts ==
  ASSUME Init
  PROVE  PageInv
<1>1. /\ page = [s \in Sessions |-> "live"] /\ kept = [f \in {} |-> NoText] /\ verdict = NoVerdict
      /\ display = NoDisplay /\ behind = [k \in {"kept", "verdict"} |-> {}]
  BY DEF Init
<1>2. PageTypeOK
  BY <1>1 DEF PageTypeOK, NoVerdict
<1> QED BY <1>1, <1>2 DEF PageInv, KeptInv, VerdictInv, FreshPage, NoVerdict, NoDisplay
-----------------------------------------------------------------------------
(***************************************************************************)
(* The theorems.                                                           *)
(***************************************************************************)
Inv == LiveInv /\ EvidenceInv /\ QuoteInv /\ DemoInv /\ PageInv

\* A step of the process is one of the shell, or leaves the evidence alone.
LEMMA EvidenceSteps ==
  ASSUME Next \/ UNCHANGED vars
  PROVE  EvidenceNext \/ UNCHANGED evidenceVars
BY DEF Next, Around, Shell, OpenPage, LoadSummary, LoadEvidenceStatus, LoadMetrics, LoadFails, Live,
       vars

\* Every reachable state satisfies the invariant: Init establishes it, every step keeps it.
THEOREM InvHolds == Spec => []Inv
<1>1. Init => Inv
  BY LiveStarts, EvidenceStarts, DemoStarts, PageStarts DEF Init, Inv
<1>2. Inv /\ [Next]_vars => Inv'
  <2> SUFFICES ASSUME Inv, Next \/ UNCHANGED vars
               PROVE  Inv'
    OBVIOUS
  <2>1. LiveInv' /\ EvidenceInv' /\ QuoteInv' /\ DemoInv'
    BY LiveKeeps, EvidenceSteps, EvidenceKeeps, MadeKeeps DEF Inv
  <2>2. CASE Next
    <3>1. LiveTypeOK
      BY DEF Inv, LiveInv
    <3> QED BY <2>1, <2>2, <3>1, PageKeeps DEF Inv
  <2>3. CASE UNCHANGED vars
    <3>1. UNCHANGED <<at, reports, torn, page, kept, verdict, display, behind>>
      BY <2>3 DEF vars, liveVars, script, evidenceVars, disk, pageVars
    <3>2. PageInv
      BY DEF Inv
    <3>3. PageTypeOK' /\ KeptInv' /\ VerdictInv' /\ FreshPage'
      BY <3>1, <3>2 DEF PageInv, PageTypeOK, KeptInv, VerdictInv, FreshPage, Readable, Named
    <3> QED BY <2>1, <3>3 DEF Inv, PageInv
  <2> QED BY <2>2, <2>3
<1> QED BY <1>1, <1>2, PTL DEF Spec

\* The variables have the types of the objects they stand for.
THEOREM DashboardTypes == Spec => []TypeOK
<1>1. Inv => TypeOK
  BY DEF Inv, LiveInv, EvidenceInv, PageInv, PageTypeOK, TypeOK
<1> QED BY <1>1, InvHolds, PTL

\* The live view shows what was asked for the selected station, no older than the ttl of its
\* cache and a fetch, and after Refresh asked for after the press unless another session was
\* fetching that station then.
THEOREM LiveViewIsRecent == Spec => []ShownAsRequested
<1>1. Inv => ShownAsRequested
  BY DEF Inv, LiveInv
<1> QED BY <1>1, InvHolds, PTL

\* Evidence that passes check_report_freshness has a model and an ablation trained from the
\* current source, unless the last training was cut off or overtaken by an edit.
THEOREM FreshEvidenceIsRetrained == Spec => []FreshMeansRetrained
<1>1. Inv => FreshMeansRetrained
  BY FreshIsTrained DEF Inv
<1> QED BY <1>1, InvHolds, PTL

\* Beside "Evidence fresh" the backtest page shows a summary and metrics made from the
\* source the chip names, as long as their files were not opened for writing since.
THEOREM FreshPageIsOfItsSource == Spec => []FreshPage
<1>1. Inv => FreshPage
  BY DEF Inv, PageInv
<1> QED BY <1>1, InvHolds, PTL

\* When `make demo` ends with no edit since it was given, the evidence is fresh, and every
\* committed report but the benchmark is made from the current source and quotes
\* the others as they are.
THEOREM DemoIsComplete == Spec => DemoComplete
<1>1. Inv /\ [Next]_vars =>
        [given = "demo" /\ ~edited /\ phase = "write" /\ queue' = <<>> /\ torn' # torn =>
           (/\ Fresh
            /\ \A f \in Rebuilt :
                 /\ Readable(f) /\ reports[f].source = Current
                 /\ \A g \in DOMAIN reports[f].of : reports[f].of[g] = SourceOf(g))']_evidenceVars
  <2> SUFFICES ASSUME Inv, Next \/ UNCHANGED vars,
                      given = "demo", ~edited, phase = "write", queue' = <<>>, torn' # torn
               PROVE  Fresh' /\ \A f \in Rebuilt : Good(f)'
    BY DEF Good
  <2>1. EvidenceNext
    BY EvidenceSteps DEF evidenceVars, disk
  <2> QED BY <2>1, DemoEnds DEF Inv
<1> QED BY <1>1, InvHolds, PTL DEF Spec, DemoComplete
=============================================================================
