------------------------ MODULE IntervalScheduler_proofs ------------------------
(***************************************************************************)
(* Proofs about IntervalScheduler, for every list of nodes, every interval *)
(* and every number of launches: types, and that the manifest and the      *)
(* files of the passes survive whatever stops the process.                 *)
(***************************************************************************)
EXTENDS IntervalScheduler, Integers, FiniteSetTheorems, SequenceTheorems, TLAPS
-----------------------------------------------------------------------------
(***************************************************************************)
(* The inductive invariant.                                                *)
(***************************************************************************)
InPass == step \in {"nodes", "open", "write", "report"}

\* A node has at most one row in a pass.
OneRowEach == \A r \in 1..Run, n \in DOMAIN NodeNames : \A i, j \in RowsOf(manifest, r, n) : i = j

\* Every node of the pass before the one at hand has its row, none after it has one.
RowsSoFar ==
  InPass => \A n \in DOMAIN NodeNames :
    IF n < node THEN \E i \in RowsOf(manifest, Run, n) : manifest[i].status = payload[n]
    ELSE RowsOf(manifest, Run, n) = {}

\* The row to be written says what the payload says.
ProgressInv ==
  /\ OneRowEach /\ RowsSoFar
  /\ InPass => Run > 0
  /\ step = "loop" => counter < MaxRuns
  /\ step \in {"open", "write"} =>
       /\ node <= Len(NodeNames) /\ Len(payload) = node
       /\ payload[node] = IF inTry THEN "ok" ELSE "error"
  /\ step \in {"nodes", "report"} => Len(payload) = node - 1
  /\ step = "report" => node = Len(NodeNames) + 1

\* Passes are in the order of their launches, those of one launch have increasing
\* counters, and a file is held by a pass of that name.
NamesInv ==
  /\ \A r \in 1..Run :
       /\ passes[r].launch <= launches
       /\ passes[r].launch = launches =>
            passes[r].file[2] <= counter /\ (step = "stamp" => passes[r].file[2] < counter)
       /\ \A s \in 1..Run : r < s =>
            /\ passes[r].launch <= passes[s].launch
            /\ passes[r].launch = passes[s].launch => passes[r].file[2] < passes[s].file[2]
  /\ step = "stamp" => counter > 0
  /\ \A f \in DOMAIN artifacts : passes[artifacts[f].run].file = f
  /\ step = "report" =>
       /\ passes[Run].file \in DOMAIN artifacts
       /\ artifacts[passes[Run].file].run = Run

\* The manifest is empty until the append that creates it, or stays without a header.
HeaderInv ==
  /\ ~created => manifest = <<>>
  /\ step = "write" => created
  /\ step = "write" /\ needHeader => manifest = <<>>
  /\ created /\ manifest = <<>> => headerLost \/ (step = "write" /\ needHeader)
  /\ HeaderFirst

\* A JSON file that was written has its rows' statuses.
ReportsInv ==
  \A f \in DOMAIN artifacts :
    artifacts[f].nodes # <<>> =>
      \A n \in DOMAIN NodeNames : \E i \in RowsOf(manifest, artifacts[f].run, n) :
        manifest[i].status = artifacts[f].nodes[n]

SchedulerInv == TypeOK /\ ProgressInv /\ NamesInv /\ HeaderInv /\ ReportsInv /\ PassKept

\* The numbers the invariants are about.
LEMMA SchedulerNumbers ==
  ASSUME TypeOK
  PROVE  /\ Len(NodeNames) \in Nat /\ Len(NodeNames) > 0 /\ DOMAIN NodeNames = 1..Len(NodeNames)
         /\ MaxRuns \in Nat /\ MaxRuns > 0 /\ MaxLaunches \in Nat /\ MaxTime \in Nat
         /\ Run \in Nat /\ DOMAIN passes = 1..Run /\ now \in Nat /\ launches \in Nat
         /\ counter \in Nat /\ node \in Nat /\ node >= 1 /\ Len(payload) \in Nat
         /\ Len(manifest) \in Nat /\ DOMAIN manifest = 1..Len(manifest)
         /\ DOMAIN payload = 1..Len(payload)
         /\ inTry \in BOOLEAN /\ needHeader \in BOOLEAN /\ created \in BOOLEAN /\ headerLost \in BOOLEAN
<1>1. NodeNames \in Seq(ToSet(NodeNames)) /\ Len(NodeNames) > 0
  BY SchedulerAssumption
<1>2. Len(NodeNames) \in Nat /\ DOMAIN NodeNames = 1..Len(NodeNames)
  BY <1>1
<1>3. /\ MaxRuns \in Nat /\ MaxRuns > 0 /\ MaxLaunches \in Nat /\ MaxTime \in Nat
  BY SchedulerAssumption
<1>4. /\ Run \in Nat /\ DOMAIN passes = 1..Run /\ now \in Nat /\ launches \in Nat
      /\ counter \in Nat /\ node \in Nat /\ node >= 1
  BY <1>2, <1>3 DEF TypeOK, Run
<1>5. /\ Len(payload) \in Nat /\ DOMAIN payload = 1..Len(payload)
      /\ Len(manifest) \in Nat /\ DOMAIN manifest = 1..Len(manifest)
  BY DEF TypeOK
<1>6. inTry \in BOOLEAN /\ needHeader \in BOOLEAN /\ created \in BOOLEAN /\ headerLost \in BOOLEAN
  BY DEF TypeOK
<1> QED BY <1>1, <1>2, <1>3, <1>4, <1>5, <1>6

\* What passes, files and lines are made of.
LEMMA SchedulerRecords ==
  ASSUME TypeOK
  PROVE  /\ \A r \in 1..Run : /\ passes[r].file \in FileNames /\ passes[r].launch \in Nat
                              /\ passes[r].over \in BOOLEAN /\ passes[r].file[2] \in Nat
         /\ \A f \in DOMAIN artifacts : /\ artifacts[f].run \in 1..Run
                                        /\ artifacts[f].nodes \in Seq(Statuses)
         /\ \A i \in DOMAIN manifest : manifest[i] \in Rows \cup {Header}
         /\ \A r \in 1..Run, n \in DOMAIN NodeNames :
              RowsOf(manifest, r, n) \subseteq {i \in DOMAIN manifest : manifest[i] \in Rows}
<1>1. /\ passes \in Seq([file : FileNames, launch : 0..MaxLaunches, over : BOOLEAN])
      /\ DOMAIN passes = 1..Run
  BY SchedulerNumbers DEF TypeOK
<1>2. ASSUME NEW r \in 1..Run
      PROVE  /\ passes[r].file \in FileNames /\ passes[r].launch \in Nat
             /\ passes[r].over \in BOOLEAN /\ passes[r].file[2] \in Nat
  <2>1. passes[r] \in [file : FileNames, launch : 0..MaxLaunches, over : BOOLEAN]
    BY <1>1, SchedulerNumbers, ElementOfSeq DEF Run
  <2>2. passes[r].file \in FileNames /\ passes[r].launch \in 0..MaxLaunches /\ passes[r].over \in BOOLEAN
    BY <2>1
  <2>3. passes[r].file[2] \in 1..MaxRuns
    BY <2>2 DEF FileNames
  <2> QED BY <2>2, <2>3, SchedulerNumbers
<1>3. \A f \in DOMAIN artifacts : artifacts[f].run \in 1..Run /\ artifacts[f].nodes \in Seq(Statuses)
  BY DEF TypeOK
<1>4. \A i \in DOMAIN manifest : manifest[i] \in Rows \cup {Header}
  BY SchedulerNumbers, ElementOfSeq DEF TypeOK
<1>5. ASSUME NEW r \in 1..Run, NEW n \in DOMAIN NodeNames, NEW i \in RowsOf(manifest, r, n)
      PROVE  i \in DOMAIN manifest /\ manifest[i] \in Rows
  <2>1. i \in DOMAIN manifest /\ manifest[i].run # 0
    BY SchedulerNumbers DEF RowsOf
  <2> QED BY <1>4, <2>1 DEF Header
<1> QED BY <1>2, <1>3, <1>4, <1>5

\* A line stays a line when a pass is added.
LEMMA LinesStay ==
  ASSUME TypeOK, Len(passes') \in Nat, Len(passes') >= Run
  PROVE  Rows \subseteq Rows' /\ manifest \in Seq(Rows' \cup {Header})
<1>1. Rows \subseteq Rows'
  BY SchedulerNumbers DEF Rows, Run
<1>2. Rows \cup {Header} \subseteq Rows' \cup {Header}
  BY <1>1
<1>3. manifest \in Seq(Rows \cup {Header})
  BY DEF TypeOK
<1> QED BY <1>1, <1>2, <1>3, SeqMonotonic
-----------------------------------------------------------------------------
(***************************************************************************)
(* The row that an append adds.                                            *)
(***************************************************************************)
NewRow == [run |-> Run, node |-> node, status |-> IF inTry THEN "ok" ELSE "error"]

\* A write adds one row at the end, and before it a header when the manifest is empty.
LEMMA WrittenLines ==
  ASSUME TypeOK, ProgressInv, HeaderInv, WriteRow
  PROVE  /\ NewRow \in Rows /\ manifest' \in Seq(Rows \cup {Header})
         /\ Len(manifest') = Len(manifest) + (IF needHeader THEN 2 ELSE 1)
         /\ manifest'[Len(manifest')] = NewRow
         /\ needHeader => manifest'[1] = Header
         /\ \A i \in DOMAIN manifest : manifest'[i] = manifest[i]
<1>1. step = "write" /\ node \in DOMAIN NodeNames /\ Run \in 1..Run
  BY SchedulerNumbers DEF WriteRow, ProgressInv, InPass
<1>2. NewRow \in Rows
  BY <1>1 DEF NewRow, Rows, Statuses
<1>3. manifest \in Seq(Rows \cup {Header}) /\ Len(manifest) \in Nat
      /\ DOMAIN manifest = 1..Len(manifest)
  BY SchedulerNumbers DEF TypeOK
<1>4. manifest' = manifest \o (IF needHeader THEN <<Header>> ELSE <<>>) \o <<NewRow>>
  BY DEF WriteRow, NewRow
<1> HIDE DEF NewRow
<1>5. CASE needHeader
  <2>1. manifest = <<>> /\ Len(manifest) = 0
    BY <1>1, <1>5 DEF HeaderInv
  <2>2. manifest' = <<Header, NewRow>>
    <3>1. manifest' = (<<>> \o <<Header>>) \o <<NewRow>>
      BY <1>4, <1>5, <2>1
    <3>2. ASSUME NEW h PROVE <<>> \o <<h>> = <<h>>
      <4>1. <<h>> \in Seq({h})
        OBVIOUS
      <4> QED BY <4>1, ConcatEmptySeq
    <3>3. ASSUME NEW h, NEW row PROVE <<h>> \o <<row>> = <<h, row>>
      <4>1. <<h>> \in Seq({h, row}) /\ <<row>> \in Seq({h, row}) /\ <<h, row>> \in Seq({h, row})
        OBVIOUS
      <4>2. /\ Len(<<h>> \o <<row>>) = 2 /\ <<h>> \o <<row>> \in Seq({h, row})
            /\ (<<h>> \o <<row>>)[1] = h /\ (<<h>> \o <<row>>)[2] = row
        BY <4>1, ConcatProperties
      <4>3. \A i \in 1..2 : (<<h>> \o <<row>>)[i] = <<h, row>>[i]
        BY <4>2
      <4> QED BY <4>1, <4>2, <4>3, SeqEqual
    <3> QED BY <3>1, <3>2, <3>3
  <2>3. Header \in Rows \cup {Header} /\ NewRow \in Rows \cup {Header}
    BY <1>2
  <2>4. manifest' \in Seq(Rows \cup {Header})
    BY <2>2, <2>3
  <2> QED BY <1>2, <1>3, <1>5, <2>1, <2>2, <2>4
<1>6. CASE ~needHeader
  <2>1. manifest' = (manifest \o <<>>) \o <<NewRow>>
    BY <1>4, <1>6
  <2>2. manifest \o <<>> = manifest
    BY <1>3
  <2>3. manifest' = manifest \o <<NewRow>> /\ NewRow \in Rows \cup {Header}
    BY <1>2, <2>1, <2>2
  <2>4. /\ manifest' \in Seq(Rows \cup {Header})
        /\ Len(manifest') = Len(manifest) + 1
        /\ manifest'[Len(manifest) + 1] = NewRow
        /\ \A i \in 1..Len(manifest) : manifest'[i] = manifest[i]
    BY <1>3, <2>3
  <2> QED BY <1>2, <1>3, <1>6, <2>4
<1> QED BY <1>5, <1>6, SchedulerNumbers

\* The node at hand gets its first row of the pass, no other node of any pass gets one.
LEMMA WrittenRow ==
  ASSUME TypeOK, ProgressInv, HeaderInv, WriteRow
  PROVE  /\ \A r \in 1..Run, n \in DOMAIN NodeNames :
              RowsOf(manifest', r, n) =
                IF r = Run /\ n = node THEN {Len(manifest')} ELSE RowsOf(manifest, r, n)
         /\ \A i \in DOMAIN manifest : manifest'[i] = manifest[i]
         /\ manifest'[Len(manifest')].status = NewRow.status
         /\ node \in DOMAIN NodeNames /\ Run \in 1..Run
<1> DEFINE k == Len(manifest')
<1>1. /\ step = "write" /\ node \in DOMAIN NodeNames /\ Run \in 1..Run
      /\ RowsOf(manifest, Run, node) = {}
  BY SchedulerNumbers DEF WriteRow, ProgressInv, RowsSoFar, InPass
<1>2. /\ Len(manifest) \in Nat /\ DOMAIN manifest = 1..Len(manifest)
      /\ k = Len(manifest) + (IF needHeader THEN 2 ELSE 1)
      /\ DOMAIN manifest' = 1..k /\ manifest'[k] = NewRow
      /\ \A i \in DOMAIN manifest : manifest'[i] = manifest[i]
  BY WrittenLines, SchedulerNumbers
<1>3. NewRow.run = Run /\ NewRow.node = node
  BY DEF NewRow
<1>4. ASSUME NEW i \in DOMAIN manifest', i # k, i \notin DOMAIN manifest
      PROVE  manifest'[i] = Header
  <2>1. needHeader /\ manifest = <<>>
    BY <1>1, <1>2, <1>4 DEF HeaderInv
  <2>2. k = 2 /\ i = 1
    BY <1>2, <1>4, <2>1
  <2> QED BY <2>1, <2>2, WrittenLines
<1> HIDE DEF k
<1>5. ASSUME NEW r \in 1..Run, NEW n \in DOMAIN NodeNames
      PROVE  RowsOf(manifest', r, n) = IF r = Run /\ n = node THEN {k} ELSE RowsOf(manifest, r, n)
  <2>1. RowsOf(manifest', r, n) = {i \in DOMAIN manifest' : manifest'[i].run = r /\ manifest'[i].node = n}
    BY DEF RowsOf
  <2>2. ASSUME NEW i \in DOMAIN manifest'
        PROVE  i \in RowsOf(manifest', r, n)
                 <=> (i \in RowsOf(manifest, r, n) \/ (i = k /\ r = Run /\ n = node))
    <3>1. CASE i = k
      <4>1. i \notin DOMAIN manifest
        BY <1>2, <3>1
      <4> QED BY <1>2, <1>3, <2>1, <3>1, <4>1 DEF RowsOf
    <3>2. CASE i # k /\ i \in DOMAIN manifest
      BY <1>2, <2>1, <3>2 DEF RowsOf
    <3>3. CASE i # k /\ i \notin DOMAIN manifest
      <4>1. manifest'[i].run = 0 /\ r # 0
        BY <1>1, <1>4, <3>3, SchedulerNumbers DEF Header
      <4> QED BY <2>1, <3>3, <4>1 DEF RowsOf
    <3> QED BY <3>1, <3>2, <3>3
  <2>3. /\ RowsOf(manifest, r, n) \subseteq DOMAIN manifest'
        /\ RowsOf(manifest', r, n) \subseteq DOMAIN manifest'
    BY <1>2, <2>1 DEF RowsOf
  <2>4. k \in DOMAIN manifest'
    BY <1>2
  <2>5. CASE r = Run /\ n = node
    BY <1>1, <2>2, <2>3, <2>4, <2>5
  <2>6. CASE ~(r = Run /\ n = node)
    BY <2>2, <2>3, <2>6
  <2> QED BY <2>5, <2>6
<1> QED BY <1>1, <1>2, <1>5 DEF k
-----------------------------------------------------------------------------
(***************************************************************************)
(* Types.                                                                  *)
(***************************************************************************)
LEMMA TypeHolds ==
  ASSUME TypeOK, ProgressInv, NamesInv, HeaderInv, [Next]_vars
  PROVE  TypeOK'
<1> USE SchedulerNumbers
<1>1. CASE Tick
  <2>1. now' \in 0..MaxTime
    BY <1>1 DEF Tick
  <2> QED BY <1>1, <2>1 DEF TypeOK, Tick, pass, append, disk, history, Rows, Run
<1>2. CASE Launch
  <2>1. launches' \in 0..MaxLaunches /\ counter' \in 0..MaxRuns
    BY <1>2 DEF Launch
  <2> QED BY <1>2, <2>1 DEF TypeOK, Launch, append, disk, history, Rows, Run
<1>3. CASE Stop
  <2>1. headerLost' \in BOOLEAN
    BY <1>3 DEF Stop, TypeOK
  <2> QED BY <1>3, <2>1 DEF TypeOK, Stop, Idle, clock, pass, append, disk, Rows, Run
<1>4. CASE StartRun
  <2>1. counter' \in 0..MaxRuns /\ start' \in 0..MaxTime
    BY <1>4 DEF StartRun, ProgressInv, TypeOK
  <2> QED BY <1>4, <2>1 DEF TypeOK, StartRun, clock, append, disk, history, Rows, Run
<1>5. CASE StampRun
  <2> DEFINE new == [file |-> FileName, launch |-> launches, over |-> FALSE]
  <2>1. now \div TicksPerSecond \in 0..MaxTime
    <3>1. \A a \in Nat, b \in Nat \ {0} : a \div b \in 0..a
      OBVIOUS
    <3>2. TicksPerSecond \in Nat \ {0} /\ now <= MaxTime
      BY SchedulerAssumption DEF TypeOK
    <3>3. now \div TicksPerSecond \in 0..now
      BY <3>1, <3>2
    <3> QED BY <3>2, <3>3
  <2>2. counter \in 1..MaxRuns
    BY <1>5 DEF StampRun, NamesInv, TypeOK
  <2>3. new \in [file : FileNames, launch : 0..MaxLaunches, over : BOOLEAN]
    BY <2>1, <2>2 DEF FileName, FileNames, TypeOK
  <2>4. passes' = Append(passes, new)
    BY <1>5 DEF StampRun
  <2> HIDE DEF new
  <2>5. passes' \in Seq([file : FileNames, launch : 0..MaxLaunches, over : BOOLEAN])
        /\ Len(passes') = Run + 1
    BY <2>3, <2>4 DEF TypeOK, Run
  <2>6. manifest' \in Seq(Rows' \cup {Header})
    BY <1>5, <2>5, LinesStay DEF StampRun, disk
  <2>7. \A f \in DOMAIN artifacts' : artifacts'[f] \in [run : 1..Run', nodes : Seq(Statuses)]
    BY <1>5, <2>5 DEF StampRun, disk, TypeOK, Run
  <2>8. payload' = <<>> /\ node' = 1 /\ <<>> \in Seq(Statuses) /\ Len(<<>>) <= Len(NodeNames)
    BY <1>5 DEF StampRun
  <2>9. DOMAIN artifacts' \subseteq FileNames
    BY <1>5 DEF StampRun, disk, TypeOK
  <2> QED BY <1>5, <2>5, <2>6, <2>7, <2>8, <2>9 DEF TypeOK, StampRun, clock, append, disk
<1>6. CASE Forecast
  <2>1. PICK s \in Statuses : payload' = Append(payload, s) /\ inTry' = (s = "ok")
    BY <1>6 DEF Forecast
  <2>2. Len(payload) = node - 1 /\ node <= Len(NodeNames)
    BY <1>6 DEF Forecast, ProgressInv
  <2>3. payload' \in Seq(Statuses) /\ Len(payload') <= Len(NodeNames) /\ inTry' \in BOOLEAN
    BY <2>1, <2>2 DEF TypeOK
  <2> QED BY <1>6, <2>3 DEF TypeOK, Forecast, clock, disk, history, Rows, Run
<1>7. CASE OpenManifest
  <2>1. needHeader' \in BOOLEAN /\ created' \in BOOLEAN
    BY <1>7 DEF OpenManifest, Missing
  <2> QED BY <1>7, <2>1 DEF TypeOK, OpenManifest, clock, pass, history, Rows, Run
<1>8. CASE WriteRow
  <2>1. manifest' \in Seq(Rows' \cup {Header})
    BY <1>8, WrittenLines DEF WriteRow, history, Rows, Run
  <2>2. node' \in 1..(Len(NodeNames) + 1)
    BY <1>8 DEF WriteRow, ProgressInv
  <2> QED BY <1>8, <2>1, <2>2 DEF TypeOK, WriteRow, clock, append, history, Run
<1>9. CASE AppendFails
  <2>1. payload' \in Seq(Statuses) /\ Len(payload') = Len(payload)
    <3>1. payload' = [payload EXCEPT ![node] = "error"] /\ node \in 1..Len(payload)
      BY <1>9 DEF AppendFails, NodeFailed, ProgressInv
    <3> QED BY <3>1, ExceptSeq DEF TypeOK, Statuses
  <2>2. headerLost' \in BOOLEAN /\ inTry' \in BOOLEAN
    BY <1>9 DEF AppendFails, TypeOK
  <2> QED BY <1>9, <2>1, <2>2 DEF TypeOK, AppendFails, clock, disk, Rows, Run
<1>10. CASE OpenArtifact
  <2>1. passes' = passes /\ Run \in 1..Run /\ passes[Run].file \in FileNames
    BY <1>10, SchedulerRecords DEF OpenArtifact, history, ProgressInv, InPass
  <2>2. [run |-> Run, nodes |-> <<>>] \in [run : 1..Run, nodes : Seq(Statuses)]
    BY <2>1
  <2>3. DOMAIN artifacts' = DOMAIN artifacts \cup {passes[Run].file}
    BY <1>10 DEF OpenArtifact
  <2>4. \A f \in DOMAIN artifacts' : artifacts'[f] \in [run : 1..Run, nodes : Seq(Statuses)]
    BY <1>10, <2>2, <2>3 DEF OpenArtifact, TypeOK
  <2>5. DOMAIN artifacts' \subseteq FileNames
    BY <2>1, <2>3 DEF TypeOK
  <2>6. Rows' = Rows /\ Run' = Run /\ manifest' = manifest
    BY <1>10, <2>1 DEF OpenArtifact, Rows, Run
  <2> QED BY <1>10, <2>1, <2>4, <2>5, <2>6 DEF TypeOK, OpenArtifact, clock, pass, append, history
<1>11. CASE WriteArtifact
  <2> DEFINE file == passes[Run].file
  <2>1. Run \in 1..Run /\ file \in DOMAIN artifacts
    BY <1>11 DEF WriteArtifact, ProgressInv, InPass, NamesInv
  <2>2. /\ passes' = [passes EXCEPT ![Run].over = TRUE]
        /\ artifacts' = [artifacts EXCEPT ![file].nodes = payload]
    BY <1>11 DEF WriteArtifact
  <2> HIDE DEF file
  <2>3. passes' \in Seq([file : FileNames, launch : 0..MaxLaunches, over : BOOLEAN])
        /\ Len(passes') = Run
    <3>1. passes[Run] \in [file : FileNames, launch : 0..MaxLaunches, over : BOOLEAN]
      BY <2>1, ElementOfSeq DEF TypeOK, Run
    <3>2. [passes[Run] EXCEPT !.over = TRUE]
            \in [file : FileNames, launch : 0..MaxLaunches, over : BOOLEAN]
      BY <3>1
    <3>3. passes' = [passes EXCEPT ![Run] = [passes[Run] EXCEPT !.over = TRUE]]
      BY <2>2
    <3> QED BY <2>1, <3>2, <3>3, ExceptSeq DEF TypeOK, Run
  <2>4. DOMAIN artifacts' = DOMAIN artifacts
    BY <2>2
  <2>5. \A f \in DOMAIN artifacts' : artifacts'[f] \in [run : 1..Run, nodes : Seq(Statuses)]
    <3>1. payload \in Seq(Statuses)
      BY DEF TypeOK
    <3> QED BY <2>1, <2>2, <3>1 DEF TypeOK
  <2> QED BY <1>11, <2>3, <2>4, <2>5 DEF TypeOK, WriteArtifact, Idle, clock, pass, append, Rows, Run
<1>12. CASE UNCHANGED vars
  BY <1>12 DEF TypeOK, vars, clock, pass, append, disk, history, Rows, Run
<1> QED BY <1>1, <1>2, <1>3, <1>4, <1>5, <1>6, <1>7, <1>8, <1>9, <1>10, <1>11, <1>12 DEF Next
-----------------------------------------------------------------------------
(***************************************************************************)
(* The header.                                                             *)
(***************************************************************************)
LEMMA HeaderHolds ==
  ASSUME TypeOK, ProgressInv, HeaderInv, [Next]_vars
  PROVE  HeaderInv'
<1>1. CASE OpenManifest
  BY <1>1, SchedulerNumbers DEF OpenManifest, Missing, HeaderInv, HeaderFirst, history
<1>2. CASE WriteRow
  <2> DEFINE k == Len(manifest')
  <2>1. /\ Len(manifest) \in Nat /\ DOMAIN manifest = 1..Len(manifest)
        /\ k = Len(manifest) + (IF needHeader THEN 2 ELSE 1)
        /\ DOMAIN manifest' = 1..k /\ manifest'[k] = NewRow
        /\ needHeader => manifest'[1] = Header
        /\ \A i \in DOMAIN manifest : manifest'[i] = manifest[i]
    BY <1>2, WrittenLines, SchedulerNumbers
  <2>2. NewRow # Header
    BY DEF NewRow, Header
  <2>3. step = "write" /\ created /\ step' = "nodes" /\ created' = created /\ headerLost' = headerLost
    BY <1>2 DEF WriteRow, HeaderInv, history
  <2>4. manifest' # <<>> /\ 1 \in DOMAIN manifest'
    BY <2>1
  <2>5. needHeader => manifest = <<>> /\ Len(manifest) = 0
    BY <2>3 DEF HeaderInv
  <2> HIDE DEF k
  <2>6. ASSUME NEW i \in DOMAIN manifest', manifest'[i] = Header
        PROVE  i = 1
    <3>1. i # k
      BY <2>1, <2>2, <2>6
    <3>2. CASE needHeader
      BY <2>1, <2>5, <3>1, <3>2
    <3>3. CASE ~needHeader
      <4>1. i \in DOMAIN manifest /\ manifest[i] = Header
        BY <2>1, <2>6, <3>1, <3>3
      <4> QED BY <4>1 DEF HeaderInv, HeaderFirst
    <3> QED BY <3>2, <3>3
  <2>7. ASSUME manifest'[1] # Header
        PROVE  headerLost
    <3>1. ~needHeader
      BY <2>1, <2>7
    <3>2. CASE manifest = <<>>
      BY <2>3, <3>1, <3>2 DEF HeaderInv
    <3>3. CASE manifest # <<>>
      <4>1. 1 \in DOMAIN manifest
        BY <2>1, <3>3, EmptySeq DEF TypeOK
      <4>2. manifest[1] # Header
        BY <2>1, <2>7, <4>1
      <4> QED BY <3>3, <4>2 DEF HeaderInv, HeaderFirst
    <3> QED BY <3>2, <3>3
  <2>8. HeaderFirst'
    BY <2>3, <2>6, <2>7 DEF HeaderFirst
  <2> QED BY <2>3, <2>4, <2>8 DEF HeaderInv
<1>3. CASE Stop \/ AppendFails
  <2>1. /\ manifest' = manifest /\ created' = created /\ step' # "write"
        /\ headerLost' <=> (headerLost \/ (step = "write" /\ needHeader))
    BY <1>3, SchedulerNumbers DEF Stop, AppendFails, disk
  <2> QED BY <2>1 DEF HeaderInv, HeaderFirst
<1>4. CASE Tick \/ Launch \/ StartRun \/ StampRun \/ Forecast \/ UNCHANGED vars
  BY <1>4 DEF Tick, Launch, StartRun, StampRun, Forecast, Idle, HeaderInv, HeaderFirst, vars, disk,
       append, history, pass
<1>5. CASE OpenArtifact \/ WriteArtifact
  BY <1>5 DEF OpenArtifact, WriteArtifact, HeaderInv, HeaderFirst, append, history
<1> QED BY <1>1, <1>2, <1>3, <1>4, <1>5 DEF Next
-----------------------------------------------------------------------------
(***************************************************************************)
(* The rows of a pass.                                                     *)
(***************************************************************************)
\* No line is of a pass to come.
LEMMA NoRowsYet ==
  ASSUME TypeOK, NEW n \in DOMAIN NodeNames
  PROVE  RowsOf(manifest, Run + 1, n) = {}
<1>1. ASSUME NEW i \in DOMAIN manifest
      PROVE  manifest[i].run # Run + 1
  <2>1. manifest[i] \in Rows \cup {Header}
    BY SchedulerRecords
  <2>2. manifest[i].run \in 0..Run
    BY <2>1, SchedulerNumbers DEF Rows, Header
  <2> QED BY <2>2, SchedulerNumbers
<1> QED BY <1>1 DEF RowsOf

\* Steps that touch neither the pass nor its records.
LEMMA ProgressStays ==
  ASSUME TypeOK, ProgressInv, UNCHANGED <<manifest, node, payload, inTry, Run>>,
         step' = "loop" => counter' < MaxRuns,
         \/ step' = step
         \/ step' \in {"stopped", "finished", "loop", "stamp"}
         \/ step = "open" /\ step' = "write"
         \/ step = "nodes" /\ step' = "report" /\ node = Len(NodeNames) + 1
  PROVE  ProgressInv'
<1>1. InPass' => InPass
  BY DEF InPass
<1>2. OneRowEach' /\ RowsSoFar'
  BY <1>1 DEF ProgressInv, OneRowEach, RowsSoFar
<1> QED BY <1>1, <1>2, SchedulerNumbers DEF ProgressInv

LEMMA ProgressHolds ==
  ASSUME TypeOK, ProgressInv, HeaderInv, [Next]_vars
  PROVE  ProgressInv'
<1> USE SchedulerNumbers
<1>1. CASE Tick \/ UNCHANGED vars
  BY <1>1, ProgressStays DEF Tick, vars, clock, pass, append, disk, history, Run, ProgressInv
<1>2. CASE Launch
  BY <1>2, ProgressStays DEF Launch, append, disk, history, Run
<1>3. CASE Stop
  BY <1>3, ProgressStays DEF Stop, clock, pass, append, disk, Run
<1>4. CASE StartRun
  BY <1>4, ProgressStays DEF StartRun, clock, append, disk, history, Run
<1>5. CASE OpenManifest
  BY <1>5, ProgressStays DEF OpenManifest, clock, pass, history, Run
<1>6. CASE OpenArtifact
  <2>1. node = Len(NodeNames) + 1
    BY <1>6 DEF OpenArtifact, TypeOK
  <2> QED BY <1>6, <2>1, ProgressStays DEF OpenArtifact, clock, pass, append, history, Run
<1>7. CASE WriteArtifact
  <2>1. Run' = Run
    BY <1>7 DEF WriteArtifact, Run, TypeOK
  <2>2. step' = "loop" => counter' < MaxRuns
    BY <1>7 DEF WriteArtifact, LastRun, pass
  <2> QED BY <1>7, <2>1, <2>2, ProgressStays DEF WriteArtifact, clock, pass, append
<1>8. CASE StampRun
  <2>1. Run' = Run + 1 /\ manifest' = manifest
    BY <1>8 DEF StampRun, Run, TypeOK, disk
  <2>2. \A n \in DOMAIN NodeNames : RowsOf(manifest', Run', n) = {}
    BY <2>1, NoRowsYet
  <2>3. node' = 1 /\ payload' = <<>> /\ step' = "nodes" /\ Len(<<>>) = 0
    BY <1>8 DEF StampRun
  <2>4. OneRowEach'
    <3>1. ASSUME NEW r \in 1..Run', NEW n \in DOMAIN NodeNames
          PROVE  \A i, j \in RowsOf(manifest', r, n) : i = j
      <4>1. CASE r = Run'
        BY <2>2, <4>1
      <4>2. CASE r # Run'
        <5>1. r \in 1..Run
          BY <2>1, <4>2
        <5> QED BY <2>1, <5>1 DEF ProgressInv, OneRowEach
      <4> QED BY <4>1, <4>2
    <3> QED BY <3>1 DEF OneRowEach
  <2>5. RowsSoFar'
    BY <2>2, <2>3 DEF RowsSoFar
  <2> QED BY <2>1, <2>3, <2>4, <2>5 DEF ProgressInv
<1>9. CASE Forecast
  <2>1. PICK s \in Statuses : payload' = Append(payload, s) /\ inTry' = (s = "ok")
    BY <1>9 DEF Forecast
  <2>2. /\ Len(payload) = node - 1 /\ node <= Len(NodeNames) /\ InPass /\ step' = "open"
        /\ node' = node /\ Run' = Run /\ manifest' = manifest
    BY <1>9 DEF Forecast, ProgressInv, InPass, Run, history, disk
  <2>3. /\ Len(payload') = node /\ payload'[node] = s
        /\ \A n \in 1..(node - 1) : payload'[n] = payload[n]
    BY <2>1, <2>2 DEF TypeOK
  <2>4. payload'[node] = IF inTry' THEN "ok" ELSE "error"
    BY <2>1, <2>3 DEF Statuses
  <2>6. ASSUME NEW n \in DOMAIN NodeNames
        PROVE  IF n < node' THEN \E i \in RowsOf(manifest', Run', n) : manifest'[i].status = payload'[n]
               ELSE RowsOf(manifest', Run', n) = {}
    <3>1. CASE n < node
      <4>1. n \in 1..(node - 1)
        BY <3>1
      <4> QED BY <2>2, <2>3, <3>1, <4>1 DEF ProgressInv, RowsSoFar
    <3>2. CASE ~(n < node)
      BY <2>2, <3>2 DEF ProgressInv, RowsSoFar
    <3> QED BY <2>2, <3>1, <3>2
  <2>7. OneRowEach' /\ RowsSoFar'
    BY <2>2, <2>6 DEF OneRowEach, RowsSoFar, ProgressInv
  <2> QED BY <2>2, <2>3, <2>4, <2>7 DEF ProgressInv
<1>10. CASE AppendFails
  <2>1. /\ step \in {"open", "write"} /\ node <= Len(NodeNames) /\ Len(payload) = node /\ InPass
        /\ step' = "open" /\ ~inTry' /\ UNCHANGED <<node, manifest, Run>>
        /\ payload' = [payload EXCEPT ![node] = "error"]
    BY <1>10 DEF AppendFails, NodeFailed, ProgressInv, InPass, Run, disk
  <2>2. /\ Len(payload') = node /\ payload'[node] = "error"
        /\ \A n \in 1..(node - 1) : payload'[n] = payload[n]
    BY <2>1 DEF TypeOK
  <2>4. ASSUME NEW n \in DOMAIN NodeNames
        PROVE  IF n < node' THEN \E i \in RowsOf(manifest', Run', n) : manifest'[i].status = payload'[n]
               ELSE RowsOf(manifest', Run', n) = {}
    <3>1. CASE n < node
      <4>1. n \in 1..(node - 1)
        BY <3>1
      <4> QED BY <2>1, <2>2, <3>1, <4>1 DEF ProgressInv, RowsSoFar
    <3>2. CASE ~(n < node)
      BY <2>1, <3>2 DEF ProgressInv, RowsSoFar
    <3> QED BY <2>1, <3>1, <3>2
  <2>5. OneRowEach' /\ RowsSoFar'
    BY <2>1, <2>4 DEF OneRowEach, RowsSoFar, ProgressInv
  <2> QED BY <2>1, <2>2, <2>5 DEF ProgressInv, InPass
<1>11. CASE WriteRow
  <2>1. /\ step = "write" /\ Len(payload) = node /\ node <= Len(NodeNames) /\ Run > 0 /\ InPass
        /\ payload[node] = NewRow.status
    BY <1>11 DEF WriteRow, ProgressInv, InPass, NewRow
  <2>2. UNCHANGED <<payload, Run>> /\ node' = node + 1 /\ step' = "nodes"
    BY <1>11 DEF WriteRow, history, Run
  <2>3. /\ \A r \in 1..Run, n \in DOMAIN NodeNames :
             RowsOf(manifest', r, n) =
               IF r = Run /\ n = node THEN {Len(manifest')} ELSE RowsOf(manifest, r, n)
        /\ \A i \in DOMAIN manifest : manifest'[i] = manifest[i]
        /\ manifest'[Len(manifest')].status = NewRow.status /\ Run \in 1..Run
    BY <1>11, WrittenRow
  <2>4. ASSUME NEW n \in DOMAIN NodeNames
        PROVE  IF n < node' THEN \E i \in RowsOf(manifest', Run', n) : manifest'[i].status = payload[n]
               ELSE RowsOf(manifest', Run', n) = {}
    <3>1. CASE n = node
      BY <2>1, <2>2, <2>3, <3>1
    <3>2. CASE n < node
      <4>1. PICK i \in RowsOf(manifest, Run, n) : manifest[i].status = payload[n]
        BY <2>1, <3>2 DEF ProgressInv, RowsSoFar
      <4>2. i \in DOMAIN manifest
        BY <4>1 DEF RowsOf
      <4>3. Run' = Run /\ Run \in 1..Run /\ n # node /\ n < node'
        BY <2>2, <2>3, <3>2
      <4>4. RowsOf(manifest', Run, n) = RowsOf(manifest, Run, n)
        BY <2>3, <4>3
      <4>5. manifest'[i].status = payload[n]
        BY <2>3, <4>1, <4>2
      <4>6. \E k \in RowsOf(manifest', Run', n) : manifest'[k].status = payload[n]
        BY <4>1, <4>3, <4>4, <4>5
      <4> QED BY <4>3, <4>6
    <3>3. CASE n > node
      BY <2>1, <2>2, <2>3, <3>3 DEF ProgressInv, RowsSoFar
    <3> QED BY <3>1, <3>2, <3>3
  <2>5. OneRowEach'
    BY <2>2, <2>3 DEF OneRowEach, ProgressInv
  <2>6. RowsSoFar'
    BY <2>2, <2>4 DEF RowsSoFar
  <2> QED BY <2>1, <2>2, <2>5, <2>6 DEF ProgressInv
<1> QED BY <1>1, <1>2, <1>3, <1>4, <1>5, <1>6, <1>7, <1>8, <1>9, <1>10, <1>11 DEF Next
-----------------------------------------------------------------------------
(***************************************************************************)
(* The names of the passes and the files.                                  *)
(***************************************************************************)
\* The end of a pass marks it as over and fills its file.
LEMMA PassEnds ==
  ASSUME TypeOK, ProgressInv, NamesInv, WriteArtifact
  PROVE  LET file == passes[Run].file
         IN  /\ Run \in 1..Run /\ Run' = Run /\ file \in DOMAIN artifacts /\ artifacts[file].run = Run
             /\ \A r \in 1..Run : /\ passes'[r].file = passes[r].file
                                  /\ passes'[r].launch = passes[r].launch
                                  /\ r # Run => passes'[r].over = passes[r].over
             /\ DOMAIN artifacts' = DOMAIN artifacts /\ artifacts'[file].nodes = payload
             /\ \A f \in DOMAIN artifacts : artifacts'[f].run = artifacts[f].run
             /\ \A f \in DOMAIN artifacts : f # file => artifacts'[f] = artifacts[f]
<1> DEFINE file == passes[Run].file
           over == [passes[Run] EXCEPT !.over = TRUE]
<1>1. Run \in 1..Run /\ file \in DOMAIN artifacts /\ artifacts[file].run = Run
  BY SchedulerNumbers DEF WriteArtifact, ProgressInv, InPass, NamesInv
<1>2. passes' = [passes EXCEPT ![Run] = over] /\ artifacts' = [artifacts EXCEPT ![file].nodes = payload]
  BY DEF WriteArtifact
<1>3. passes[Run] \in [file : FileNames, launch : 0..MaxLaunches, over : BOOLEAN]
  BY <1>1, ElementOfSeq DEF TypeOK, Run
<1>4. over \in [file : FileNames, launch : 0..MaxLaunches, over : BOOLEAN]
      /\ over.file = passes[Run].file /\ over.launch = passes[Run].launch
  BY <1>3
<1>5. artifacts[file] \in [run : 1..Run, nodes : Seq(Statuses)]
  BY <1>1 DEF TypeOK
<1> HIDE DEF file, over
<1>6. Run' = Run /\ \A r \in 1..Run : passes'[r] = IF r = Run THEN over ELSE passes[r]
  BY <1>1, <1>2, <1>4, ExceptSeq DEF TypeOK, Run
<1>7. \A r \in 1..Run : /\ passes'[r].file = passes[r].file /\ passes'[r].launch = passes[r].launch
                        /\ r # Run => passes'[r].over = passes[r].over
  BY <1>4, <1>6
<1>8. /\ DOMAIN artifacts' = DOMAIN artifacts /\ artifacts'[file].nodes = payload
      /\ \A f \in DOMAIN artifacts : artifacts'[f].run = artifacts[f].run
      /\ \A f \in DOMAIN artifacts : f # file => artifacts'[f] = artifacts[f]
  BY <1>1, <1>2, <1>5
<1> QED BY <1>1, <1>6, <1>7, <1>8 DEF file

\* Steps that add no pass and change no file's holder.
LEMMA NamesStay ==
  ASSUME TypeOK, NamesInv, UNCHANGED <<launches, counter, passes, artifacts>>,
         step' \notin {"stamp", "report"} \/ step' = step
  PROVE  NamesInv'
  BY DEF NamesInv, Run

LEMMA NamesHold ==
  ASSUME TypeOK, ProgressInv, NamesInv, [Next]_vars
  PROVE  NamesInv'
<1> USE SchedulerNumbers
<1>1. CASE Tick \/ Stop \/ Forecast \/ OpenManifest \/ WriteRow \/ AppendFails \/ UNCHANGED vars
  <2>1. UNCHANGED <<launches, counter, passes, artifacts>>
    BY <1>1 DEF Tick, Stop, Forecast, OpenManifest, WriteRow, AppendFails, vars, clock, pass, append,
         disk, history
  <2>2. step' \notin {"stamp", "report"} \/ step' = step
    BY <1>1 DEF Tick, Stop, Forecast, OpenManifest, WriteRow, AppendFails, vars
  <2> QED BY <2>1, <2>2, NamesStay
<1>2. CASE Launch
  <2>1. launches' = launches + 1 /\ step' = "loop" /\ UNCHANGED <<passes, artifacts, Run>>
    BY <1>2 DEF Launch, disk, history, Run
  <2>2. \A r \in 1..Run : passes[r].launch < launches'
    BY <2>1, SchedulerRecords DEF NamesInv
  <2>3. \A r \in 1..Run : passes[r].launch <= launches' /\ passes[r].launch # launches'
    BY <2>1, <2>2, SchedulerRecords
  <2> QED BY <2>1, <2>3 DEF NamesInv
<1>3. CASE StartRun
  <2>1. counter' = counter + 1 /\ step' = "stamp" /\ UNCHANGED <<launches, passes, artifacts, Run>>
    BY <1>3 DEF StartRun, clock, disk, history, Run
  <2>2. \A r \in 1..Run : passes[r].launch = launches =>
          passes[r].file[2] <= counter' /\ passes[r].file[2] < counter'
    BY <2>1, SchedulerRecords DEF NamesInv
  <2> QED BY <2>1, <2>2 DEF NamesInv
<1>4. CASE StampRun
  <2> DEFINE new == [file |-> FileName, launch |-> launches, over |-> FALSE]
  <2>1. /\ step = "stamp" /\ step' = "nodes" /\ UNCHANGED <<launches, counter, artifacts>>
        /\ passes' = Append(passes, new)
    BY <1>4 DEF StampRun, clock, disk
  <2>2. new.launch = launches /\ new.file[2] = counter
    BY DEF FileName
  <2> HIDE DEF new
  <2>3. Run' = Run + 1 /\ passes'[Run + 1] = new /\ \A r \in 1..Run : passes'[r] = passes[r]
    BY <2>1 DEF TypeOK, Run
  <2>4. ASSUME NEW r \in 1..Run'
        PROVE  /\ passes'[r].launch <= launches
               /\ passes'[r].launch = launches => passes'[r].file[2] <= counter
               /\ (r # Run' /\ passes'[r].launch = launches => passes'[r].file[2] < counter)
    <3>1. CASE r = Run + 1
      BY <2>2, <2>3, <3>1
    <3>2. CASE r \in 1..Run
      BY <2>1, <2>3, <3>2 DEF NamesInv
    <3> QED BY <2>3, <3>1, <3>2
  <2>5. ASSUME NEW r \in 1..Run', NEW s \in 1..Run', r < s
        PROVE  /\ passes'[r].launch <= passes'[s].launch
               /\ passes'[r].launch = passes'[s].launch => passes'[r].file[2] < passes'[s].file[2]
    <3>1. r \in 1..Run
      BY <2>3, <2>5
    <3>2. CASE s = Run + 1
      BY <2>2, <2>3, <2>4, <3>1, <3>2
    <3>3. CASE s \in 1..Run
      BY <2>3, <2>5, <3>1, <3>3 DEF NamesInv
    <3> QED BY <2>3, <3>2, <3>3
  <2>6. \A f \in DOMAIN artifacts : passes'[artifacts[f].run].file = f
    BY <2>3, SchedulerRecords DEF NamesInv
  <2> QED BY <2>1, <2>4, <2>5, <2>6 DEF NamesInv
<1>5. CASE OpenArtifact
  <2> DEFINE file == passes[Run].file
  <2>1. /\ step' = "report" /\ UNCHANGED <<launches, counter, passes, Run>>
        /\ artifacts' = [f \in DOMAIN artifacts \cup {file} |->
                           IF f = file THEN [run |-> Run, nodes |-> <<>>] ELSE artifacts[f]]
    BY <1>5 DEF OpenArtifact, clock, pass, history, Run
  <2>2. DOMAIN artifacts' = DOMAIN artifacts \cup {file} /\ artifacts'[file].run = Run
    BY <2>1
  <2>3. \A f \in DOMAIN artifacts' : passes[artifacts'[f].run].file = f
    <3>1. ASSUME NEW f \in DOMAIN artifacts', f # file
          PROVE  artifacts'[f] = artifacts[f] /\ f \in DOMAIN artifacts
      BY <2>1, <3>1
    <3> QED BY <2>2, <3>1 DEF NamesInv
  <2> QED BY <2>1, <2>2, <2>3 DEF NamesInv
<1>6. CASE WriteArtifact
  <2>1. /\ step' \notin {"stamp", "report"} /\ UNCHANGED <<launches, counter, Run>>
        /\ \A r \in 1..Run : passes'[r].file = passes[r].file /\ passes'[r].launch = passes[r].launch
        /\ DOMAIN artifacts' = DOMAIN artifacts
        /\ \A f \in DOMAIN artifacts : artifacts'[f].run = artifacts[f].run
    BY <1>6, PassEnds DEF WriteArtifact, clock, pass
  <2>2. \A f \in DOMAIN artifacts' : passes'[artifacts'[f].run].file = f
    BY <2>1, SchedulerRecords DEF NamesInv
  <2> QED BY <2>1, <2>2 DEF NamesInv
<1> QED BY <1>1, <1>2, <1>3, <1>4, <1>5, <1>6 DEF Next
-----------------------------------------------------------------------------
(***************************************************************************)
(* The files.                                                              *)
(***************************************************************************)
\* A row that is there stays, so a file that was written keeps agreeing with it.
LEMMA ReportsHold ==
  ASSUME TypeOK, ProgressInv, NamesInv, HeaderInv, ReportsInv, [Next]_vars
  PROVE  ReportsInv'
<1> USE SchedulerNumbers
<1>1. CASE \/ Tick \/ Launch \/ Stop \/ StartRun \/ StampRun \/ Forecast \/ OpenManifest \/ AppendFails
           \/ UNCHANGED vars
  <2>1. manifest' = manifest /\ artifacts' = artifacts
    BY <1>1 DEF Tick, Launch, Stop, StartRun, StampRun, Forecast, OpenManifest, AppendFails, vars, disk
  <2> QED BY <2>1 DEF ReportsInv
<1>2. CASE WriteRow
  <2>1. artifacts' = artifacts
    BY <1>2 DEF WriteRow
  <2>2. /\ \A r \in 1..Run, n \in DOMAIN NodeNames :
             RowsOf(manifest', r, n) =
               IF r = Run /\ n = node THEN {Len(manifest')} ELSE RowsOf(manifest, r, n)
        /\ \A i \in DOMAIN manifest : manifest'[i] = manifest[i]
    BY <1>2, WrittenRow
  <2>3. RowsOf(manifest, Run, node) = {}
    BY <1>2 DEF WriteRow, ProgressInv, RowsSoFar, InPass
  <2>4. ASSUME NEW f \in DOMAIN artifacts, artifacts[f].nodes # <<>>, NEW n \in DOMAIN NodeNames
        PROVE  \E i \in RowsOf(manifest', artifacts[f].run, n) :
                 manifest'[i].status = artifacts[f].nodes[n]
    <3>1. PICK i \in RowsOf(manifest, artifacts[f].run, n) : manifest[i].status = artifacts[f].nodes[n]
      BY <2>4 DEF ReportsInv
    <3>2. artifacts[f].run \in 1..Run /\ i \in DOMAIN manifest
      BY SchedulerRecords, <3>1 DEF RowsOf
    <3>3. ~(artifacts[f].run = Run /\ n = node)
      BY <2>3, <3>1
    <3> QED BY <2>2, <3>1, <3>2, <3>3
  <2> QED BY <2>1, <2>4 DEF ReportsInv
<1>3. CASE OpenArtifact
  <2>1. manifest' = manifest
    BY <1>3 DEF OpenArtifact
  <2>2. \A f \in DOMAIN artifacts' : artifacts'[f].nodes # <<>> =>
          f \in DOMAIN artifacts /\ artifacts'[f] = artifacts[f]
    BY <1>3 DEF OpenArtifact
  <2> QED BY <2>1, <2>2 DEF ReportsInv
<1>4. CASE WriteArtifact
  <2> DEFINE file == passes[Run].file
  <2>1. manifest' = manifest
    BY <1>4 DEF WriteArtifact
  <2>2. /\ artifacts[file].run = Run /\ artifacts'[file].nodes = payload
        /\ DOMAIN artifacts' = DOMAIN artifacts
        /\ \A f \in DOMAIN artifacts : artifacts'[f].run = artifacts[f].run
        /\ \A f \in DOMAIN artifacts : f # file => artifacts'[f] = artifacts[f]
    BY <1>4, PassEnds
  <2>3. \A n \in DOMAIN NodeNames : \E i \in RowsOf(manifest, Run, n) : manifest[i].status = payload[n]
    BY <1>4 DEF WriteArtifact, ProgressInv, RowsSoFar, InPass
  <2> HIDE DEF file
  <2>4. ASSUME NEW f \in DOMAIN artifacts, artifacts'[f].nodes # <<>>, NEW n \in DOMAIN NodeNames
        PROVE  \E i \in RowsOf(manifest, artifacts'[f].run, n) :
                 manifest[i].status = artifacts'[f].nodes[n]
    <3>1. CASE f = file
      BY <2>2, <2>3, <3>1
    <3>2. CASE f # file
      BY <2>2, <2>4, <3>2 DEF ReportsInv
    <3> QED BY <3>1, <3>2
  <2> QED BY <2>1, <2>2, <2>4 DEF ReportsInv
<1> QED BY <1>1, <1>2, <1>3, <1>4 DEF Next

\* A file goes from one pass to another only in a later launch.
LEMMA PassesHold ==
  ASSUME TypeOK, ProgressInv, NamesInv, PassKept, [Next]_vars
  PROVE  PassKept'
<1> USE SchedulerNumbers
<1>1. CASE \/ Tick \/ Launch \/ Stop \/ StartRun \/ Forecast \/ OpenManifest \/ WriteRow \/ AppendFails
           \/ UNCHANGED vars
  <2>1. passes' = passes /\ artifacts' = artifacts /\ Run' = Run
    BY <1>1 DEF Tick, Launch, Stop, StartRun, Forecast, OpenManifest, WriteRow, AppendFails, vars, disk,
         history, Run
  <2> QED BY <2>1 DEF PassKept
<1>2. CASE StampRun
  <2> DEFINE new == [file |-> FileName, launch |-> launches, over |-> FALSE]
  <2>1. passes' = Append(passes, new) /\ artifacts' = artifacts
    BY <1>2 DEF StampRun, disk
  <2>2. ~new.over
    OBVIOUS
  <2> HIDE DEF new
  <2>3. Run' = Run + 1 /\ passes'[Run + 1] = new /\ \A r \in 1..Run : passes'[r] = passes[r]
    BY <2>1 DEF TypeOK, Run
  <2> SUFFICES ASSUME NEW r \in 1..Run', passes'[r].over
               PROVE  /\ passes'[r].file \in DOMAIN artifacts
                      /\ LET holder == artifacts[passes'[r].file].run
                         IN  holder # r => passes'[holder].launch > passes'[r].launch
    BY <2>1 DEF PassKept
  <2>4. r \in 1..Run /\ passes'[r] = passes[r]
    BY <2>2, <2>3
  <2>5. passes[r].file \in DOMAIN artifacts
    BY <2>4 DEF PassKept
  <2>6. artifacts[passes[r].file].run \in 1..Run
    BY <2>5, SchedulerRecords
  <2> QED BY <2>3, <2>4, <2>5, <2>6 DEF PassKept
<1>3. CASE OpenArtifact
  <2> DEFINE file == passes[Run].file
  <2>1. /\ UNCHANGED <<passes, Run>>
        /\ artifacts' = [f \in DOMAIN artifacts \cup {file} |->
                           IF f = file THEN [run |-> Run, nodes |-> <<>>] ELSE artifacts[f]]
    BY <1>3 DEF OpenArtifact, history, Run
  <2>2. Run \in 1..Run
    BY <1>3 DEF OpenArtifact, ProgressInv, InPass
  <2> SUFFICES ASSUME NEW r \in 1..Run, passes[r].over
               PROVE  /\ passes[r].file \in DOMAIN artifacts'
                      /\ LET holder == artifacts'[passes[r].file].run
                         IN  holder # r => passes[holder].launch > passes[r].launch
    BY <2>1 DEF PassKept
  <2>3. passes[r].file \in DOMAIN artifacts'
    BY <2>1 DEF PassKept
  <2>4. CASE passes[r].file = file
    <3>1. artifacts'[passes[r].file].run = Run
      BY <2>1, <2>4
    <3>2. ASSUME r # Run
          PROVE  passes[Run].launch > passes[r].launch
      <4>1. r < Run /\ passes[r].file[2] = passes[Run].file[2]
        BY <2>4, <3>2
      <4>2. passes[r].launch <= passes[Run].launch /\ passes[r].launch # passes[Run].launch
        BY <2>2, <4>1, SchedulerRecords DEF NamesInv
      <4> QED BY <2>2, <4>2, SchedulerRecords
    <3> QED BY <2>3, <3>1, <3>2
  <2>5. CASE passes[r].file # file
    <3>1. artifacts'[passes[r].file] = artifacts[passes[r].file]
      BY <2>1, <2>3, <2>5
    <3> QED BY <2>3, <3>1 DEF PassKept
  <2> QED BY <2>4, <2>5
<1>4. CASE WriteArtifact
  <2> DEFINE file == passes[Run].file
  <2>1. /\ Run' = Run /\ file \in DOMAIN artifacts /\ artifacts[file].run = Run
        /\ \A r \in 1..Run : /\ passes'[r].file = passes[r].file /\ passes'[r].launch = passes[r].launch
                             /\ r # Run => passes'[r].over = passes[r].over
        /\ DOMAIN artifacts' = DOMAIN artifacts
        /\ \A f \in DOMAIN artifacts : artifacts'[f].run = artifacts[f].run
    BY <1>4, PassEnds
  <2>2. ASSUME NEW r \in 1..Run, passes'[r].over
        PROVE  /\ passes[r].file \in DOMAIN artifacts
               /\ artifacts[passes[r].file].run # r =>
                    passes[artifacts[passes[r].file].run].launch > passes[r].launch
    <3>1. CASE r = Run
      BY <2>1, <3>1
    <3>2. CASE r # Run
      BY <2>1, <2>2, <3>2 DEF PassKept
    <3> QED BY <3>1, <3>2
  <2>3. ASSUME NEW r \in 1..Run, passes'[r].over
        PROVE  /\ passes'[r].file \in DOMAIN artifacts'
               /\ artifacts'[passes'[r].file].run # r =>
                    passes'[artifacts'[passes'[r].file].run].launch > passes'[r].launch
    <3> DEFINE holder == artifacts[passes[r].file].run
    <3>1. passes'[r].file = passes[r].file /\ passes[r].file \in DOMAIN artifacts
      BY <2>1, <2>2, <2>3
    <3>2. holder \in 1..Run /\ artifacts'[passes'[r].file].run = holder
      BY <2>1, <3>1, SchedulerRecords
    <3> QED BY <2>1, <2>2, <2>3, <3>1, <3>2
  <2> QED BY <2>1, <2>3 DEF PassKept
<1> QED BY <1>1, <1>2, <1>3, <1>4 DEF Next
-----------------------------------------------------------------------------
(***************************************************************************)
(* The theorems.                                                           *)
(***************************************************************************)
\* The invariant holds at the start and is kept by every step.
LEMMA SchedulerInvHolds == Spec => []SchedulerInv
<1>1. Init => SchedulerInv
  <2> SUFFICES ASSUME Init PROVE SchedulerInv
    OBVIOUS
  <2>1. Len(NodeNames) \in Nat /\ Len(NodeNames) > 0
    BY SchedulerAssumption
  <2>2. Run = 0 /\ manifest = <<>> /\ DOMAIN manifest = {} /\ DOMAIN artifacts = {} /\ Len(<<>>) = 0
    BY DEF Init, Run
  <2>3. /\ now \in 0..MaxTime /\ launches \in 0..MaxLaunches
        /\ counter \in 0..MaxRuns /\ start \in 0..MaxTime /\ node \in 1..(Len(NodeNames) + 1)
    BY <2>1, SchedulerAssumption DEF Init
  <2>4. /\ payload \in Seq(Statuses) /\ manifest \in Seq(Rows \cup {Header})
        /\ passes \in Seq([file : FileNames, launch : 0..MaxLaunches, over : BOOLEAN])
    BY DEF Init
  <2>5. Len(payload) <= Len(NodeNames)
    BY <2>1, <2>2 DEF Init
  <2>6. {inTry, needHeader, created, headerLost} \subseteq BOOLEAN
    BY DEF Init
  <2>7. TypeOK
    BY <2>2, <2>3, <2>4, <2>5, <2>6 DEF Init, TypeOK, Idle
  <2>8. ProgressInv
    BY <2>2 DEF Init, ProgressInv, OneRowEach, RowsSoFar, InPass
  <2>9. NamesInv /\ ReportsInv /\ PassKept
    BY <2>2 DEF Init, NamesInv, ReportsInv, PassKept
  <2>10. HeaderInv
    BY <2>2 DEF Init, HeaderInv, HeaderFirst
  <2> QED BY <2>7, <2>8, <2>9, <2>10 DEF SchedulerInv
<1>2. SchedulerInv /\ [Next]_vars => SchedulerInv'
  BY TypeHolds, HeaderHolds, ProgressHolds, NamesHold, ReportsHold, PassesHold DEF SchedulerInv
<1> QED BY <1>1, <1>2, PTL DEF Spec

\* The scheduler's variables keep their types, and main() starts no more passes than
\* --max-runs.
THEOREM SchedulerTypeCorrect == Spec => []TypeOK
<1>1. SchedulerInv => TypeOK
  BY DEF SchedulerInv
<1> QED BY <1>1, SchedulerInvHolds, PTL

\* The manifest's rows and the passes' JSON files agree, stay and keep their header,
\* wherever the process is stopped, whichever append fails and however often the
\* program (pipeline_scheduler.py) is launched again.
THEOREM SchedulerRecordsKept == Spec => []RecordsKept
<1>1. SchedulerInv => RecordsKept
  <2> SUFFICES ASSUME SchedulerInv PROVE RecordsKept
    OBVIOUS
  <2>1. ASSUME NEW r \in 1..Run, NEW n \in DOMAIN NodeNames
        PROVE  Cardinality(RowsOf(manifest, r, n)) <= 1
    <3>1. \A i, j \in RowsOf(manifest, r, n) : i = j
      BY DEF SchedulerInv, ProgressInv, OneRowEach
    <3>2. CASE RowsOf(manifest, r, n) = {}
      BY <3>2, FS_EmptySet
    <3>3. CASE RowsOf(manifest, r, n) # {}
      <4>1. PICK i \in RowsOf(manifest, r, n) : TRUE
        BY <3>3
      <4>2. RowsOf(manifest, r, n) = {i}
        BY <3>1, <4>1
      <4>3. Cardinality({i}) = 1
        BY FS_Singleton
      <4> QED BY <4>2, <4>3
    <3> QED BY <3>2, <3>3
  <2> QED BY <2>1 DEF SchedulerInv, HeaderInv, ReportsInv, RecordsKept, RecordsAgree
<1> QED BY <1>1, SchedulerInvHolds, PTL
=============================================================================
