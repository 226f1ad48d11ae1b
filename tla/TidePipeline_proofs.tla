------------------------- MODULE TidePipeline_proofs -------------------------
(***************************************************************************)
(* Proofs about TidePipeline, for any requests, nodes, processes, grids    *)
(* and series: types, and that two forecasts of a node are converted with  *)
(* one datum unless the table was written over in a race.                  *)
(***************************************************************************)
EXTENDS TidePipeline, SequenceTheorems, TLAPS
-----------------------------------------------------------------------------
(***************************************************************************)
(* The invariant.                                                          *)
(***************************************************************************)
\* A request has a node once it has started, and a lane while it forecasts; a datum about
\* to be written was estimated for the node it stands at; no datum comes before its step.
RequestInv ==
  \A r \in Requests :
    /\ step[r] = "new" => node[r] = NoNode
    /\ step[r] \notin {"new", "failed", "killed"} => node[r] \in Nodes
    /\ step[r] \in {"lane", "stack", "fit"} => lanes[r] # <<>>
    /\ step[r] \in {"new", "nearest", "recompute", "datum"} => datum[r] = NoDatum
    /\ \A n \in DOMAIN snapshot[r] : snapshot[r][n] # NoDatum => node[snapshot[r][n]] = n

\* The table that q will write has of node n what the file has.
Agrees(q, n) ==
  /\ n \in DOMAIN snapshot[q] <=> n \in DOMAIN table
  /\ n \in DOMAIN table => snapshot[q][n] = table[n]
Recording(q) == step[q] \in {"open", "write"} /\ datum[q] # NoDatum

\* Where no race was lost, the file holds the datum that a series was converted with, and
\* a request on its way to record one changes nothing but the row of its own node, which
\* has none yet.
DatumInv ==
  /\ \A r \in Requests : step[r] \in Converted /\ node[r] \notin raced =>
       node[r] \in DOMAIN table /\ table[node[r]] = datum[r] /\ datum[r] # NoDatum
  /\ \A q \in Requests : Recording(q) =>
       /\ datum[q] = q /\ node[q] \in DOMAIN snapshot[q] /\ snapshot[q][node[q]] = q
       /\ \A n \in Nodes : n \notin raced \cup missed[q] =>
            /\ n # node[q] => Agrees(q, n)
            /\ n = node[q] /\ n \in DOMAIN table => table[n] = NoDatum

TideInv == TypeOK /\ RequestInv /\ DatumInv
-----------------------------------------------------------------------------
\* What a table is, which tables there are, and what recording a datum makes of one.
LEMMA TableType ==
  /\ Empty \in Tables /\ DOMAIN Empty = {}
  /\ Rebuilt \in Tables /\ \A n \in DOMAIN Rebuilt : Rebuilt[n] = NoDatum
  /\ \A t \in Tables : /\ DOMAIN t \subseteq Nodes
                       /\ \A n \in DOMAIN t : t[n] \in Requests \cup {NoDatum}
                       /\ \A n \in DOMAIN t, r \in Requests : [t EXCEPT ![n] = r] \in Tables
<1>1. Empty \in Tables /\ DOMAIN Empty = {}
  <2>1. Empty \in [{} -> Requests \cup {NoDatum}] /\ {} \in SUBSET Nodes
    BY DEF Empty
  <2> QED BY <2>1 DEF Tables, Empty
<1>2. Rebuilt \in Tables /\ \A n \in DOMAIN Rebuilt : Rebuilt[n] = NoDatum
  <2>1. Rebuilt \in [Known -> Requests \cup {NoDatum}] /\ Known \in SUBSET Nodes
    BY PipelineAssumption DEF Rebuilt
  <2> QED BY <2>1 DEF Tables, Rebuilt
<1>3. ASSUME NEW t \in Tables
      PROVE  /\ DOMAIN t \subseteq Nodes
             /\ \A n \in DOMAIN t : t[n] \in Requests \cup {NoDatum}
             /\ \A n \in DOMAIN t, r \in Requests : [t EXCEPT ![n] = r] \in Tables
  <2>1. PICK N \in SUBSET Nodes : t \in [N -> Requests \cup {NoDatum}]
    BY DEF Tables
  <2>2. \A n \in N, r \in Requests : [t EXCEPT ![n] = r] \in [N -> Requests \cup {NoDatum}]
    BY <2>1
  <2> QED BY <2>1, <2>2 DEF Tables
<1> QED BY <1>1, <1>2, <1>3

\* A step of r that leaves the file, the data and the tables about to be written alone.
LEMMA Moves ==
  ASSUME TypeOK, RequestInv, DatumInv, NEW r \in Requests, NEW s, Goto(r, s),
         UNCHANGED <<table, node, snapshot, datum, missed, raced>>,
         \A q \in Requests \ {r} : lanes'[q] = lanes[q],
         s \in {"lane", "stack", "fit"} => lanes'[r] # <<>>,
         s # "new", step[r] \notin {"new", "failed", "killed"},
         s \in {"nearest", "recompute", "datum"} => datum[r] = NoDatum,
         s \in Converted => step[r] \in Converted,
         s \in {"open", "write"} => Recording(r) \/ datum[r] = NoDatum
  PROVE  RequestInv' /\ DatumInv'
<1>1. /\ step \in [Requests -> Steps] /\ step'[r] = s
      /\ \A q \in Requests \ {r} : step'[q] = step[q] /\ lanes'[q] = lanes[q]
  BY DEF TypeOK, Goto
<1>2. RequestInv'
  BY <1>1 DEF RequestInv
<1>3. ASSUME NEW q \in Requests
      PROVE  /\ step'[q] \in Converted => step[q] \in Converted
             /\ Recording(q)' => Recording(q)
  BY <1>1 DEF Recording
<1>4. \A q, n : Agrees(q, n)' <=> Agrees(q, n)
  BY DEF Agrees
<1>5. DatumInv'
  BY <1>3, <1>4 DEF DatumInv
<1> QED BY <1>2, <1>5

\* Requests that end without an answer keep no datum and no table.
LEMMA Forgets ==
  ASSUME TideInv, NEW R \in SUBSET Requests, Forget(R), stops' \in 0..MaxStops,
         step' \in [Requests -> Steps],
         \A q \in R : step'[q] \in {"failed", "killed"},
         \A q \in Requests \ R : step'[q] = step[q]
  PROVE  TideInv'
<1>1. TypeOK /\ RequestInv /\ DatumInv
  BY DEF TideInv
<1>2. /\ UNCHANGED <<table, torn, place, dataproc, node, families, steps, retried, answer,
                     rolling, raced>>
      /\ snapshot' = [r \in Requests |-> IF r \in R THEN Empty ELSE snapshot[r]]
      /\ datum' = [r \in Requests |-> IF r \in R THEN NoDatum ELSE datum[r]]
      /\ missed' = [r \in Requests |-> IF r \in R THEN {} ELSE missed[r]]
      /\ scores' = [r \in Requests |-> IF r \in R THEN NoScores ELSE scores[r]]
      /\ kept' = [r \in Requests |-> IF r \in R THEN {} ELSE kept[r]]
      /\ lanes' = [r \in Requests |-> IF r \in R THEN <<>> ELSE lanes[r]]
      /\ rows' = [r \in Requests |-> IF r \in R THEN 0 ELSE rows[r]]
  BY DEF Forget, file
<1>3. TypeOK'
  <2>1. snapshot' \in [Requests -> Tables]
    BY <1>1, <1>2, TableType DEF TypeOK
  <2>2. scores' \in [Requests -> [DOMAIN Grid -> 0..MaxRmse]]
    <3>1. NoScores \in [DOMAIN Grid -> 0..MaxRmse]
      BY SearchAssumption DEF NoScores
    <3> QED BY <1>1, <1>2, <3>1 DEF TypeOK
  <2>3. /\ datum' \in [Requests -> Requests \cup {NoDatum}]
        /\ missed' \in [Requests -> SUBSET Nodes] /\ kept' \in [Requests -> SUBSET DOMAIN Grid]
        /\ rows' \in [Requests -> RowCounts \cup {0}]
    BY <1>1, <1>2 DEF TypeOK
  <2>4. lanes' \in [Requests -> Seq(Lanes)]
    <3>1. <<>> \in Seq(Lanes)
      OBVIOUS
    <3> QED BY <1>1, <1>2, <3>1 DEF TypeOK
  <2> QED BY <1>1, <1>2, <2>1, <2>2, <2>3, <2>4 DEF TypeOK
<1>4. RequestInv'
  <2> SUFFICES ASSUME NEW r \in Requests
               PROVE  /\ step'[r] = "new" => node[r] = NoNode
                      /\ step'[r] \notin {"new", "failed", "killed"} => node[r] \in Nodes
                      /\ step'[r] \in {"lane", "stack", "fit"} => lanes'[r] # <<>>
                      /\ step'[r] \in {"new", "nearest", "recompute", "datum"} => datum'[r] = NoDatum
                      /\ \A n \in DOMAIN snapshot'[r] :
                           snapshot'[r][n] # NoDatum => node[snapshot'[r][n]] = n
    BY <1>2 DEF RequestInv
  <2>1. CASE r \in R
    <3>1. step'[r] \in {"failed", "killed"} /\ DOMAIN snapshot'[r] = {}
      BY <1>2, <2>1, TableType
    <3> QED BY <3>1
  <2>2. CASE r \notin R
    <3>1. /\ step'[r] = step[r] /\ lanes'[r] = lanes[r] /\ datum'[r] = datum[r]
          /\ snapshot'[r] = snapshot[r]
      BY <1>2, <2>2
    <3> QED BY <1>1, <3>1 DEF RequestInv
  <2> QED BY <2>1, <2>2
<1>5. DatumInv'
  <2>1. ASSUME NEW q \in Requests, step'[q] \in Converted \/ Recording(q)'
        PROVE  /\ step'[q] = step[q] /\ datum'[q] = datum[q] /\ snapshot'[q] = snapshot[q]
               /\ missed'[q] = missed[q]
    <3>1. q \notin R
      BY <2>1 DEF Recording, Converted
    <3> QED BY <1>2, <3>1
  <2>2. \A q \in Requests : Recording(q)' => Recording(q)
    BY <2>1 DEF Recording
  <2>3. ASSUME NEW q \in Requests, Recording(q)', NEW n
        PROVE  Agrees(q, n)' <=> Agrees(q, n)
    BY <1>2, <2>1, <2>3 DEF Agrees
  <2> QED BY <1>1, <1>2, <2>1, <2>2, <2>3 DEF DatumInv
<1> QED BY <1>3, <1>4, <1>5 DEF TideInv

\* An exception or a kill.
LEMMA Gone ==
  ASSUME TideInv, \/ \E p \in Processes : Stop(p)
                  \/ \E r \in Requests : Raise(r)
  PROVE  TideInv'
<1>1. TypeOK /\ MaxStops \in Nat
  BY PipelineAssumption DEF TideInv
<1>2. ASSUME NEW p \in Processes, Stop(p) PROVE TideInv'
  <2> DEFINE running == {r \in p : step[r] \notin Ended}
  <2>1. running \in SUBSET Requests
    BY PipelineAssumption
  <2>2. /\ Forget(running) /\ stops' = stops + 1 /\ stops < MaxStops
        /\ step' = [r \in Requests |-> IF r \in running THEN "killed" ELSE step[r]]
    BY <1>2 DEF Stop
  <2> HIDE DEF running
  <2>3. stops' \in 0..MaxStops
    BY <1>1, <2>2 DEF TypeOK
  <2>4. step' \in [Requests -> Steps]
    BY <1>1, <2>2 DEF TypeOK, Steps, Ended
  <2> QED BY <2>1, <2>2, <2>3, <2>4, Forgets
<1>3. ASSUME NEW r \in Requests, Raise(r) PROVE TideInv'
  <2>1. Forget({r}) /\ stops' = stops /\ step' = [step EXCEPT ![r] = "failed"]
    BY <1>3 DEF Raise, Goto
  <2>2. step' \in [Requests -> Steps] /\ stops' \in 0..MaxStops
    BY <1>1, <2>1 DEF TypeOK, Steps, Ended
  <2>3. /\ {r} \in SUBSET Requests /\ \A q \in {r} : step'[q] \in {"failed", "killed"}
        /\ \A q \in Requests \ {r} : step'[q] = step[q]
    BY <1>1, <2>1 DEF TypeOK
  <2> QED BY <2>1, <2>2, <2>3, Forgets
<1> QED BY <1>2, <1>3

-----------------------------------------------------------------------------
(***************************************************************************)
(* Preparing the series.                                                   *)
(***************************************************************************)
\* No table and no request names one that has not started.
LEMMA StartKeeps ==
  ASSUME TideInv, NEW r \in Requests, Start(r)
  PROVE  TideInv'
<1>1. TypeOK /\ RequestInv /\ DatumInv /\ NoNode \notin Nodes
  BY PipelineAssumption DEF TideInv
<1>2. PICK home \in Nodes : node' = [node EXCEPT ![r] = home]
  BY DEF Start
<1>3. /\ step[r] = "new" /\ step' = [step EXCEPT ![r] = "nearest"]
      /\ UNCHANGED <<table, torn, place, dataproc, stops, lanes, families, steps, retried, snapshot,
                     datum, rows, scores, kept, rolling, missed, raced>>
  BY DEF Start, Goto, file, series, search, races
<1>4. /\ node[r] = NoNode /\ datum[r] = NoDatum /\ node'[r] = home /\ step'[r] = "nearest"
      /\ \A q \in Requests \ {r} : node'[q] = node[q] /\ step'[q] = step[q]
  BY <1>1, <1>2, <1>3 DEF TypeOK, RequestInv
<1>5. ASSUME NEW t \in Tables, \A n \in DOMAIN t : t[n] # NoDatum => node[t[n]] = n
      PROVE  \A n \in DOMAIN t : t[n] # NoDatum => node'[t[n]] = n
  <2> SUFFICES ASSUME NEW n \in DOMAIN t, t[n] # NoDatum PROVE node'[t[n]] = n
    OBVIOUS
  <2>1. n \in Nodes /\ t[n] \in Requests /\ node[t[n]] = n
    BY <1>5, TableType
  <2>2. t[n] # r
    BY <1>1, <1>4, <2>1
  <2> QED BY <1>4, <2>1, <2>2
<1>6. TypeOK'
  <2>1. \A n \in DOMAIN table' : table'[n] # NoDatum => node'[table'[n]] = n
    BY <1>1, <1>3, <1>5 DEF TypeOK
  <2>2. step' \in [Requests -> Steps] /\ node' \in [Requests -> Nodes \cup {NoNode}]
    BY <1>1, <1>2, <1>3 DEF TypeOK, Steps
  <2> QED BY <1>1, <1>3, <2>1, <2>2 DEF TypeOK
<1>7. RequestInv'
  <2>1. ASSUME NEW q \in Requests
        PROVE  \A n \in DOMAIN snapshot'[q] : snapshot'[q][n] # NoDatum => node'[snapshot'[q][n]] = n
    <3>1. snapshot[q] \in Tables /\ snapshot'[q] = snapshot[q]
      BY <1>1, <1>3 DEF TypeOK
    <3>2. \A n \in DOMAIN snapshot[q] : snapshot[q][n] # NoDatum => node[snapshot[q][n]] = n
      BY <1>1 DEF RequestInv
    <3> QED BY <1>5, <3>1, <3>2
  <2>2. \A q \in Requests \ {r} :
          /\ step'[q] = "new" => node'[q] = NoNode
          /\ step'[q] \notin {"new", "failed", "killed"} => node'[q] \in Nodes
          /\ step'[q] \in {"lane", "stack", "fit"} => lanes'[q] # <<>>
          /\ step'[q] \in {"new", "nearest", "recompute", "datum"} => datum'[q] = NoDatum
    BY <1>1, <1>3, <1>4 DEF RequestInv
  <2>3. /\ step'[r] = "nearest" /\ node'[r] \in Nodes /\ datum'[r] = NoDatum
    BY <1>3, <1>4
  <2> QED BY <2>1, <2>2, <2>3 DEF RequestInv
<1>8. DatumInv'
  <2>1. ASSUME NEW q \in Requests, step'[q] \in Converted \/ Recording(q)'
        PROVE  step'[q] = step[q] /\ node'[q] = node[q]
    <3>1. q # r
      BY <1>4, <2>1 DEF Recording, Converted
    <3> QED BY <1>4, <3>1
  <2>2. \A q \in Requests : Recording(q)' => Recording(q)
    BY <1>3, <2>1 DEF Recording
  <2>3. \A q, n : Agrees(q, n)' <=> Agrees(q, n)
    BY <1>3 DEF Agrees
  <2> QED BY <1>1, <1>3, <2>1, <2>2, <2>3 DEF DatumInv
<1> QED BY <1>6, <1>7, <1>8 DEF TideInv

\* Looking the nearest station up, the first time and again, and opening the table.
LEMMA LookupKeeps ==
  ASSUME TideInv, NEW r \in Requests, Nearest(r) \/ NearestFails(r) \/ Open(r)
  PROVE  TideInv'
<1>1. TypeOK /\ RequestInv /\ DatumInv
  BY DEF TideInv
<1>2. PICK s : /\ Goto(r, s)
               /\ \/ s = "datum" /\ step[r] = "nearest"
                  \/ s = "recompute" /\ step[r] = "nearest"
                  \/ s = "write" /\ step[r] = "open"
  BY DEF Nearest, NearestFails, Open
<1>3. /\ UNCHANGED <<table, dataproc, stops, node, lanes, families, steps, snapshot, datum, rows,
                     scores, kept, answer, rolling, missed, raced>>
      /\ torn' \in BOOLEAN /\ place' \in {place, "./data"}
      /\ retried' = retried \/ retried' = [retried EXCEPT ![r] = TRUE]
  BY <1>1 DEF Nearest, NearestFails, Open, file, input, series, search, races, TypeOK
<1>4. RequestInv' /\ DatumInv'
  <2>1. s \in {"nearest", "recompute", "datum"} => datum[r] = NoDatum
    BY <1>1, <1>2 DEF RequestInv
  <2>2. s \notin Converted /\ s # "new" /\ s \notin {"lane", "stack", "fit"}
    BY <1>2 DEF Converted
  <2>3. s \in {"open", "write"} => Recording(r) \/ datum[r] = NoDatum
    BY <1>2 DEF Recording
  <2>4. step[r] \notin {"new", "failed", "killed"}
    BY <1>2
  <2> QED BY <1>1, <1>2, <1>3, <2>1, <2>2, <2>3, <2>4, Moves
<1>5. step' \in [Requests -> Steps]
  BY <1>1, <1>2 DEF TypeOK, Goto, Steps
<1>6. retried' \in [Requests -> BOOLEAN] /\ place' \in {"./data", "../data", "nowhere"}
  BY <1>1, <1>3 DEF TypeOK
<1>7. TypeOK'
  BY <1>1, <1>3, <1>5, <1>6 DEF TypeOK
<1> QED BY <1>4, <1>7 DEF TideInv

\* The rebuilt table is on its way to the file; it comes without a datum of its own.
LEMMA RecomputeKeeps ==
  ASSUME TideInv, NEW r \in Requests, Recompute(r)
  PROVE  TideInv'
<1>1. TypeOK /\ RequestInv /\ DatumInv
  BY DEF TideInv
<1>2. /\ step[r] = "recompute" /\ step' = [step EXCEPT ![r] = "open"]
      /\ snapshot' = [snapshot EXCEPT ![r] = Rebuilt]
      /\ UNCHANGED <<table, torn, place, dataproc, stops, node, lanes, families, steps, retried,
                     datum, rows, scores, kept, answer, rolling, missed, raced>>
  BY DEF Recompute, Goto, file, input, search, races
<1>3. /\ step'[r] = "open" /\ snapshot'[r] = Rebuilt /\ datum[r] = NoDatum /\ node[r] \in Nodes
      /\ \A q \in Requests \ {r} : step'[q] = step[q] /\ snapshot'[q] = snapshot[q]
  BY <1>1, <1>2 DEF TypeOK, RequestInv
<1>4. TypeOK'
  <2>1. snapshot' \in [Requests -> Tables] /\ step' \in [Requests -> Steps]
    BY <1>1, <1>2, TableType DEF TypeOK, Steps
  <2> QED BY <1>1, <1>2, <2>1 DEF TypeOK
<1>5. RequestInv'
  <2>1. \A n \in DOMAIN snapshot'[r] : snapshot'[r][n] = NoDatum
    BY <1>3, TableType
  <2> QED BY <1>1, <1>2, <1>3, <2>1 DEF RequestInv
<1>6. DatumInv'
  <2>1. ASSUME NEW q \in Requests, step'[q] \in Converted \/ Recording(q)'
        PROVE  q # r /\ step'[q] = step[q] /\ snapshot'[q] = snapshot[q]
    <3>1. q # r
      BY <1>2, <1>3, <2>1 DEF Recording, Converted
    <3> QED BY <1>3, <3>1
  <2>2. \A q \in Requests : Recording(q)' => Recording(q)
    BY <1>2, <2>1 DEF Recording
  <2>3. ASSUME NEW q \in Requests, Recording(q)', NEW n PROVE Agrees(q, n)' <=> Agrees(q, n)
    BY <1>2, <2>1, <2>3 DEF Agrees
  <2> QED BY <1>1, <1>2, <2>1, <2>2, <2>3 DEF DatumInv
<1> QED BY <1>4, <1>5, <1>6 DEF TideInv

\* The recorded datum is the file's.
LEMMA RecordedKeeps ==
  ASSUME TideInv, NEW r \in Requests, Recorded(r)
  PROVE  TideInv'
<1>1. TypeOK /\ RequestInv /\ DatumInv
  BY DEF TideInv
<1>2. /\ step[r] = "datum" /\ step' = [step EXCEPT ![r] = "clean"]
      /\ node[r] \in DOMAIN table /\ table[node[r]] # NoDatum
      /\ datum' = [datum EXCEPT ![r] = table[node[r]]]
      /\ UNCHANGED <<table, torn, place, dataproc, stops, node, lanes, families, steps, retried,
                     snapshot, rows, scores, kept, answer, rolling, missed, raced>>
  BY DEF Recorded, HasRow, Missing, Goto, file, input, search, races
<1>3. /\ step'[r] = "clean" /\ datum'[r] = table[node[r]]
      /\ \A q \in Requests \ {r} : step'[q] = step[q] /\ datum'[q] = datum[q]
  BY <1>1, <1>2 DEF TypeOK
<1>4. TypeOK'
  <2>1. table[node[r]] \in Requests \cup {NoDatum}
    BY <1>1, <1>2, TableType DEF TypeOK
  <2>2. datum' \in [Requests -> Requests \cup {NoDatum}] /\ step' \in [Requests -> Steps]
    BY <1>1, <1>2, <2>1 DEF TypeOK, Steps
  <2> QED BY <1>1, <1>2, <2>2 DEF TypeOK
<1>5. RequestInv'
  BY <1>1, <1>2, <1>3 DEF RequestInv
<1>6. DatumInv'
  <2>1. \A q \in Requests : Recording(q)' => Recording(q) /\ q # r
    BY <1>3 DEF Recording
  <2>2. \A q, n : Agrees(q, n)' <=> Agrees(q, n)
    BY <1>2 DEF Agrees
  <2> QED BY <1>1, <1>2, <1>3, <2>1, <2>2 DEF DatumInv
<1> QED BY <1>4, <1>5, <1>6 DEF TideInv

\* The table that will record the estimate is the file with that row filled.
LEMMA EstimateKeeps ==
  ASSUME TideInv, NEW r \in Requests, Estimate(r)
  PROVE  TideInv'
<1>1. TypeOK /\ RequestInv /\ DatumInv /\ NoDatum \notin Requests
  BY PipelineAssumption DEF TideInv
<1> DEFINE home == node[r]
           filled == [table EXCEPT ![home] = r]
<1>2. /\ step[r] = "datum" /\ step' = [step EXCEPT ![r] = "open"]
      /\ home \in DOMAIN table /\ table[home] = NoDatum
      /\ datum' = [datum EXCEPT ![r] = r] /\ snapshot' = [snapshot EXCEPT ![r] = filled]
      /\ UNCHANGED <<table, torn, place, dataproc, stops, node, lanes, families, steps, retried,
                     rows, scores, kept, answer, rolling, missed, raced>>
  BY DEF Estimate, HasRow, Missing, Goto, file, input, search, races
<1>3. /\ step'[r] = "open" /\ datum'[r] = r /\ snapshot'[r] = filled
      /\ \A q \in Requests \ {r} :
           step'[q] = step[q] /\ datum'[q] = datum[q] /\ snapshot'[q] = snapshot[q]
  BY <1>1, <1>2 DEF TypeOK
<1>4. /\ filled \in Tables /\ DOMAIN filled = DOMAIN table /\ filled[home] = r
      /\ \A n \in DOMAIN table \ {home} : filled[n] = table[n]
  BY <1>1, <1>2, TableType DEF TypeOK
<1> HIDE DEF filled
<1>5. TypeOK'
  <2>1. /\ datum' \in [Requests -> Requests \cup {NoDatum}] /\ step' \in [Requests -> Steps]
        /\ snapshot' \in [Requests -> Tables]
    BY <1>1, <1>2, <1>4 DEF TypeOK, Steps
  <2> QED BY <1>1, <1>2, <2>1 DEF TypeOK
<1>6. RequestInv'
  <2>1. \A n \in DOMAIN filled : filled[n] # NoDatum => node[filled[n]] = n
    BY <1>1, <1>4 DEF TypeOK
  <2>2. \A q \in Requests \ {r} :
          /\ step'[q] = "new" => node'[q] = NoNode
          /\ step'[q] \notin {"new", "failed", "killed"} => node'[q] \in Nodes
          /\ step'[q] \in {"lane", "stack", "fit"} => lanes'[q] # <<>>
          /\ step'[q] \in {"new", "nearest", "recompute", "datum"} => datum'[q] = NoDatum
          /\ \A n \in DOMAIN snapshot'[q] : snapshot'[q][n] # NoDatum => node'[snapshot'[q][n]] = n
    BY <1>1, <1>2, <1>3 DEF RequestInv
  <2>3. step'[r] = "open" /\ node'[r] \in Nodes
    BY <1>1, <1>2, <1>3 DEF RequestInv
  <2>4. \A n \in DOMAIN snapshot'[r] : snapshot'[r][n] # NoDatum => node'[snapshot'[r][n]] = n
    BY <1>2, <1>3, <2>1
  <2> QED BY <2>2, <2>3, <2>4 DEF RequestInv
<1>7. DatumInv'
  <2>1. ASSUME NEW q \in Requests, step'[q] \in Converted
        PROVE  step[q] \in Converted /\ datum'[q] = datum[q]
    <3>1. q # r
      BY <1>3, <2>1 DEF Converted
    <3> QED BY <1>3, <2>1, <3>1
  <2>2. \A q \in Requests : step'[q] \in Converted /\ node'[q] \notin raced' =>
          node'[q] \in DOMAIN table' /\ table'[node'[q]] = datum'[q] /\ datum'[q] # NoDatum
    BY <1>1, <1>2, <2>1 DEF DatumInv
  <2>3. ASSUME NEW q \in Requests, q # r, Recording(q)'
        PROVE  /\ Recording(q) /\ datum'[q] = datum[q] /\ snapshot'[q] = snapshot[q]
               /\ \A n : Agrees(q, n)' <=> Agrees(q, n)
    BY <1>2, <1>3, <2>3 DEF Recording, Agrees
  <2>4. ASSUME NEW q \in Requests, q # r, Recording(q)'
        PROVE  /\ datum'[q] = q /\ node'[q] \in DOMAIN snapshot'[q] /\ snapshot'[q][node'[q]] = q
               /\ \A n \in Nodes : n \notin raced' \cup missed'[q] =>
                    /\ n # node'[q] => Agrees(q, n)'
                    /\ n = node'[q] /\ n \in DOMAIN table' => table'[n] = NoDatum
    BY <1>1, <1>2, <2>3, <2>4 DEF DatumInv
  <2>5. /\ datum'[r] = r /\ node'[r] \in DOMAIN snapshot'[r] /\ snapshot'[r][node'[r]] = r
        /\ \A n \in Nodes :
             /\ n # node'[r] => Agrees(r, n)'
             /\ n = node'[r] /\ n \in DOMAIN table' => table'[n] = NoDatum
    BY <1>2, <1>3, <1>4 DEF Agrees
  <2> QED BY <2>2, <2>4, <2>5 DEF DatumInv
<1> QED BY <1>5, <1>6, <1>7 DEF TideInv

\* Writing the table: a datum another request recorded meanwhile is written over only where
\* a race is counted, and a rebuilt table counts every node.
LEMMA WriteKeeps ==
  ASSUME TideInv, NEW r \in Requests, Write(r)
  PROVE  TideInv'
<1>1. TypeOK /\ RequestInv /\ DatumInv /\ NoDatum \notin Requests
  BY PipelineAssumption DEF TideInv
<1> DEFINE home == node[r]
           next == IF datum[r] = NoDatum THEN "nearest" ELSE "clean"
<1>2. /\ step[r] = "write" /\ step' = [step EXCEPT ![r] = next]
      /\ table' = snapshot[r] /\ torn' = FALSE
      /\ snapshot' = [snapshot EXCEPT ![r] = Empty]
      /\ raced' = raced \cup (IF datum[r] = NoDatum THEN Nodes ELSE missed[r])
      /\ missed' = [q \in Requests |->
           IF q # r /\ step[q] \in {"open", "write"} THEN missed[q] \cup {home} ELSE {}]
      /\ UNCHANGED <<place, dataproc, stops, node, lanes, families, steps, retried, datum, rows,
                     scores, kept, answer, rolling>>
  BY DEF Write, Goto, input, search
<1>3. /\ step'[r] = next /\ snapshot'[r] = Empty /\ home \in Nodes
      /\ \A q \in Requests \ {r} : step'[q] = step[q] /\ snapshot'[q] = snapshot[q]
  BY <1>1, <1>2 DEF TypeOK, RequestInv
<1>4. /\ \A q \in Requests : snapshot[q] \in Tables /\ DOMAIN snapshot[q] \subseteq Nodes
      /\ DOMAIN table \subseteq Nodes
  BY <1>1, TableType DEF TypeOK
<1>5. TypeOK'
  <2>1. step' \in [Requests -> Steps]
    BY <1>1, <1>2 DEF TypeOK, Steps
  <2>2. snapshot' \in [Requests -> Tables] /\ table' \in Tables
    BY <1>1, <1>2, TableType DEF TypeOK
  <2>3. missed' \in [Requests -> SUBSET Nodes]
    BY <1>1, <1>2, <1>3 DEF TypeOK
  <2>4. \A n \in DOMAIN table' : table'[n] # NoDatum => node'[table'[n]] = n
    BY <1>1, <1>2 DEF RequestInv
  <2>5. torn' \in BOOLEAN
    BY <1>2
  <2> QED BY <1>1, <1>2, <2>1, <2>2, <2>3, <2>4, <2>5 DEF TypeOK
<1>6. RequestInv'
  <2>1. \A q \in Requests \ {r} :
          /\ step'[q] = "new" => node'[q] = NoNode
          /\ step'[q] \notin {"new", "failed", "killed"} => node'[q] \in Nodes
          /\ step'[q] \in {"lane", "stack", "fit"} => lanes'[q] # <<>>
          /\ step'[q] \in {"new", "nearest", "recompute", "datum"} => datum'[q] = NoDatum
          /\ \A n \in DOMAIN snapshot'[q] : snapshot'[q][n] # NoDatum => node'[snapshot'[q][n]] = n
    BY <1>1, <1>2, <1>3 DEF RequestInv
  <2>2. /\ step'[r] \in {"nearest", "clean"} /\ node'[r] \in Nodes
        /\ step'[r] = "nearest" => datum'[r] = NoDatum
    BY <1>2, <1>3
  <2>3. DOMAIN snapshot'[r] = {}
    BY <1>3, TableType
  <2> QED BY <2>1, <2>2, <2>3 DEF RequestInv
<1>7. CASE datum[r] = NoDatum
  <2>1. Nodes \subseteq raced'
    BY <1>2, <1>7
  <2>2. ASSUME NEW q \in Requests, step'[q] \in Converted PROVE node'[q] \in raced'
    <3>1. q # r
      BY <1>3, <1>7, <2>2 DEF Converted
    <3>2. node[q] \in Nodes
      BY <1>1, <1>3, <2>2, <3>1 DEF RequestInv, Converted
    <3> QED BY <1>2, <2>1, <3>2
  <2>3. ASSUME NEW q \in Requests, Recording(q)'
        PROVE  datum'[q] = q /\ node'[q] \in DOMAIN snapshot'[q] /\ snapshot'[q][node'[q]] = q
    <3>1. q # r
      BY <1>3, <1>7, <2>3 DEF Recording
    <3>2. Recording(q)
      BY <1>2, <1>3, <2>3, <3>1 DEF Recording
    <3> QED BY <1>1, <1>2, <1>3, <3>1, <3>2 DEF DatumInv
  <2>4. DatumInv'
    BY <2>1, <2>2, <2>3 DEF DatumInv
  <2> QED BY <1>5, <1>6, <2>4 DEF TideInv
<1>8. CASE datum[r] # NoDatum
  <2>1. /\ raced' = raced \cup missed[r] /\ Recording(r) /\ step'[r] = "clean"
        /\ datum[r] = r /\ home \in DOMAIN snapshot[r] /\ snapshot[r][home] = r
    BY <1>1, <1>2, <1>3, <1>8 DEF DatumInv, Recording
  <2>2. ASSUME NEW n \in Nodes, n \notin raced'
        PROVE  /\ n # home => /\ n \in DOMAIN table' <=> n \in DOMAIN table
                              /\ n \in DOMAIN table => table'[n] = table[n]
               /\ n = home /\ n \in DOMAIN table => table[n] = NoDatum
    <3>1. n \notin raced \cup missed[r]
      BY <2>1, <2>2
    <3> QED BY <1>1, <1>2, <2>1, <3>1 DEF DatumInv, Agrees
  <2>3. ASSUME NEW q \in Requests, step'[q] \in Converted, node'[q] \notin raced'
        PROVE  node'[q] \in DOMAIN table' /\ table'[node'[q]] = datum'[q] /\ datum'[q] # NoDatum
    <3>1. CASE q = r
      BY <1>2, <1>8, <2>1, <3>1
    <3>2. CASE q # r
      <4>1. step[q] \in Converted /\ node[q] \in Nodes /\ node[q] \notin raced
        BY <1>1, <1>2, <1>3, <2>1, <2>3, <3>2 DEF RequestInv, Converted
      <4>2. node[q] \in DOMAIN table /\ table[node[q]] = datum[q] /\ datum[q] # NoDatum
        BY <1>1, <4>1 DEF DatumInv
      <4> QED BY <1>2, <2>2, <2>3, <4>1, <4>2
    <3> QED BY <3>1, <3>2
  <2>4. ASSUME NEW q \in Requests, Recording(q)'
        PROVE  /\ datum'[q] = q /\ node'[q] \in DOMAIN snapshot'[q] /\ snapshot'[q][node'[q]] = q
               /\ \A n \in Nodes : n \notin raced' \cup missed'[q] =>
                    /\ n # node'[q] => Agrees(q, n)'
                    /\ n = node'[q] /\ n \in DOMAIN table' => table'[n] = NoDatum
    <3>1. q # r /\ Recording(q) /\ snapshot'[q] = snapshot[q]
      <4>1. q # r
        BY <2>1, <2>4 DEF Recording
      <4> QED BY <1>2, <1>3, <2>4, <4>1 DEF Recording
    <3>2. datum'[q] = q /\ node'[q] \in DOMAIN snapshot'[q] /\ snapshot'[q][node'[q]] = q
      BY <1>1, <1>2, <3>1 DEF DatumInv
    <3>3. missed'[q] = missed[q] \cup {home}
      BY <1>2, <3>1 DEF Recording
    <3>4. ASSUME NEW n \in Nodes, n \notin raced' \cup missed'[q]
          PROVE  /\ n # node'[q] => Agrees(q, n)'
                 /\ n = node'[q] /\ n \in DOMAIN table' => table'[n] = NoDatum
      <4>1. n \notin raced' /\ n # home /\ n \notin raced \cup missed[q]
        BY <2>1, <3>3, <3>4
      <4>2. /\ n # node[q] => Agrees(q, n)
            /\ n = node[q] /\ n \in DOMAIN table => table[n] = NoDatum
        BY <1>1, <3>1, <4>1 DEF DatumInv
      <4> QED BY <1>2, <2>2, <3>1, <4>1, <4>2 DEF Agrees
    <3> QED BY <3>2, <3>4
  <2>5. DatumInv'
    BY <2>3, <2>4 DEF DatumInv
  <2> QED BY <1>5, <1>6, <2>5 DEF TideInv
<1> QED BY <1>7, <1>8

-----------------------------------------------------------------------------
(***************************************************************************)
(* Forecasting.                                                            *)
(***************************************************************************)
\* The request's wishes are read: at least one lane.
LEMMA CleanKeeps ==
  ASSUME TideInv, NEW r \in Requests, Clean(r)
  PROVE  TideInv'
<1>1. TypeOK /\ RequestInv /\ DatumInv
  BY DEF TideInv
<1>2. PICK n \in RowCounts : rows' = [rows EXCEPT ![r] = n]
  BY DEF Clean
<1>3. PICK a \in Asks[r] : /\ lanes' = [lanes EXCEPT ![r] = a.lanes]
                           /\ families' = [families EXCEPT ![r] = a.families]
                           /\ steps' = [steps EXCEPT ![r] = a.steps]
  BY DEF Clean
<1>4. /\ step[r] = "clean" /\ Goto(r, "lane")
      /\ UNCHANGED <<table, torn, place, dataproc, stops, node, retried, snapshot, datum, scores,
                     kept, answer, rolling, missed, raced>>
  BY DEF Clean, file, search, races
<1>5. /\ a.lanes \in Seq(Lanes) /\ a.lanes # <<>>
      /\ a.families \in Seq(STRING) /\ a.steps \in Nat
  BY PipelineAssumption
<1>6. lanes'[r] = a.lanes /\ \A q \in Requests \ {r} : lanes'[q] = lanes[q]
  BY <1>1, <1>3 DEF TypeOK
<1>7. TypeOK'
  <2>1. /\ step' \in [Requests -> Steps] /\ rows' \in [Requests -> RowCounts \cup {0}]
        /\ lanes' \in [Requests -> Seq(Lanes)] /\ families' \in [Requests -> Seq(STRING)]
        /\ steps' \in [Requests -> Nat]
    BY <1>1, <1>2, <1>3, <1>4, <1>5 DEF TypeOK, Goto, Steps
  <2> QED BY <1>1, <1>4, <2>1 DEF TypeOK
<1>8. RequestInv' /\ DatumInv'
  <2>1. "clean" \in Converted /\ "clean" \notin {"new", "failed", "killed"}
    BY DEF Converted
  <2>2. "lane" \notin {"nearest", "recompute", "datum", "open", "write", "new"}
    OBVIOUS
  <2> QED BY <1>1, <1>4, <1>5, <1>6, <2>1, <2>2, Moves
<1> QED BY <1>7, <1>8 DEF TideInv

\* The next lane: none is left only when the request is answered.
LEMMA LaneIsNext ==
  ASSUME TypeOK, RequestInv, DatumInv, NEW r \in Requests, step[r] \in {"lane", "fit"},
         NextLane(r)
  PROVE  /\ RequestInv' /\ DatumInv'
         /\ step' \in [Requests -> Steps] /\ lanes' \in [Requests -> Seq(Lanes)]
         /\ rows' \in [Requests -> RowCounts \cup {0}]
         /\ UNCHANGED <<table, torn, place, dataproc, stops, node, families, steps, retried,
                        snapshot, datum, missed, raced>>
<1> DEFINE s == IF Len(lanes[r]) = 1 THEN "answered" ELSE "lane"
<1>1. /\ Goto(r, s) /\ lanes' = [lanes EXCEPT ![r] = Tail(lanes[r])]
      /\ rows' = [rows EXCEPT ![r] = IF Len(lanes[r]) = 1 THEN 0 ELSE rows[r]]
      /\ UNCHANGED <<table, torn, place, dataproc, stops, node, families, steps, retried,
                     snapshot, datum, missed, raced>>
  BY DEF NextLane, file, races
<1>2. lanes[r] \in Seq(Lanes) /\ lanes[r] # <<>>
  BY DEF TypeOK, RequestInv
<1>3. Tail(lanes[r]) \in Seq(Lanes) /\ (Len(lanes[r]) # 1 => Tail(lanes[r]) # <<>>)
  <2>1. ASSUME NEW ls \in Seq(Lanes), ls # <<>>
        PROVE  Tail(ls) \in Seq(Lanes) /\ (Len(ls) # 1 => Tail(ls) # <<>>)
    <3>1. Len(ls) \in Nat /\ Len(ls) # 0 /\ Tail(ls) \in Seq(Lanes)
          /\ Len(Tail(ls)) = Len(ls) - 1
      BY <2>1, EmptySeq, HeadTailProperties
    <3> DEFINE tail == Tail(ls)
    <3> HIDE DEF tail
    <3>2. tail \in Seq(Lanes) /\ (Len(ls) # 1 => Len(tail) # 0)
      BY <3>1 DEF tail
    <3>3. Len(ls) # 1 => tail # <<>>
      BY <3>2, EmptySeq
    <3> QED BY <3>1, <3>3 DEF tail
  <2> QED BY <1>2, <2>1
<1>4. lanes'[r] = Tail(lanes[r]) /\ \A q \in Requests \ {r} : lanes'[q] = lanes[q]
  BY <1>1 DEF TypeOK
<1>5. RequestInv' /\ DatumInv'
  <2>1. /\ s \in {"lane", "stack", "fit"} => lanes'[r] # <<>>
        /\ s # "new" /\ s \notin {"nearest", "recompute", "datum", "open", "write"}
    BY <1>3, <1>4
  <2>2. step[r] \notin {"new", "failed", "killed"} /\ step[r] \in Converted
    BY DEF Converted
  <2> HIDE DEF s
  <2> QED BY <1>1, <1>4, <2>1, <2>2, Moves
<1>6. step' \in [Requests -> Steps]
  BY <1>1 DEF TypeOK, Goto, Steps, Ended
<1>7. lanes' \in [Requests -> Seq(Lanes)] /\ rows' \in [Requests -> RowCounts \cup {0}]
  BY <1>1, <1>3 DEF TypeOK
<1> QED BY <1>1, <1>5, <1>6, <1>7

\* Scores are of the grid's candidates, and so is what a stack keeps.
LEMMA ScoreType ==
  ASSUME NEW s, s \in [DOMAIN Grid -> 0..MaxRmse]
  PROVE  MetaTried(s) \subseteq DOMAIN Grid
BY DEF MetaTried, Scored

\* A lane that ends.
LEMMA LaneKeeps ==
  ASSUME TideInv, NEW r \in Requests, Var(r) \/ Benchmark(r) \/ Rolling(r) \/ Fit(r)
  PROVE  TideInv'
<1>1. TypeOK /\ RequestInv /\ DatumInv
  BY DEF TideInv
<1>2. /\ step[r] \in {"lane", "fit"} /\ NextLane(r)
      /\ \/ rolling' = rolling
         \/ \E report \in {"empty", "error"} : rolling' = [rolling EXCEPT ![r] = report]
      /\ \/ UNCHANGED <<scores, kept>>
         \/ scores' = [scores EXCEPT ![r] = NoScores] /\ kept' = [kept EXCEPT ![r] = {}]
  BY DEF Var, Benchmark, Rolling, Fit, RollingReport, search
<1>3. /\ RequestInv' /\ DatumInv'
      /\ step' \in [Requests -> Steps] /\ lanes' \in [Requests -> Seq(Lanes)]
      /\ rows' \in [Requests -> RowCounts \cup {0}]
      /\ UNCHANGED <<table, torn, place, dataproc, stops, node, families, steps, retried,
                     snapshot, datum, missed, raced>>
  BY <1>1, <1>2, LaneIsNext
<1>4. /\ scores' \in [Requests -> [DOMAIN Grid -> 0..MaxRmse]]
      /\ kept' \in [Requests -> SUBSET DOMAIN Grid]
      /\ rolling' \in [Requests -> {"none", "empty", "error", "rows"}]
  <2>1. NoScores \in [DOMAIN Grid -> 0..MaxRmse]
    BY SearchAssumption DEF NoScores
  <2>2. /\ scores \in [Requests -> [DOMAIN Grid -> 0..MaxRmse]]
        /\ kept \in [Requests -> SUBSET DOMAIN Grid]
        /\ rolling \in [Requests -> {"none", "empty", "error", "rows"}]
    BY <1>1 DEF TypeOK
  <2>3. rolling' \in [Requests -> {"none", "empty", "error", "rows"}]
    BY <1>2, <2>2
  <2>4. /\ scores' \in [Requests -> [DOMAIN Grid -> 0..MaxRmse]]
        /\ kept' \in [Requests -> SUBSET DOMAIN Grid]
    BY <1>2, <2>1, <2>2
  <2> QED BY <2>3, <2>4
<1>5. TypeOK'
  BY <1>1, <1>3, <1>4 DEF TypeOK
<1> QED BY <1>3, <1>5 DEF TideInv

\* A step of a search.
LEMMA SearchKeeps ==
  ASSUME TideInv, NEW r \in Requests, Score(r) \/ Stack(r)
  PROVE  TideInv'
<1>1. TypeOK /\ RequestInv /\ DatumInv
  BY DEF TideInv
<1>2. PICK s \in {"stack", "fit"} : Goto(r, s)
  BY DEF Score, Stack
<1>3. /\ step[r] \in {"lane", "stack"}
      /\ UNCHANGED <<table, torn, place, dataproc, stops, node, lanes, families, steps, retried,
                     snapshot, datum, rows, answer, rolling, missed, raced>>
  BY DEF Score, Stack, file, input, series, races
<1>4. /\ \/ scores' = scores
         \/ \E sc \in Scores(Candidates(r), rows[r]) : scores' = [scores EXCEPT ![r] = sc]
      /\ \/ kept' = kept
         \/ \E ks \in SUBSET MetaTried(scores[r]) : kept' = [kept EXCEPT ![r] = ks]
  BY DEF Score, Stack
<1>5. scores' \in [Requests -> [DOMAIN Grid -> 0..MaxRmse]]
  BY <1>1, <1>4 DEF TypeOK, Scores
<1>6. kept' \in [Requests -> SUBSET DOMAIN Grid]
  <2>1. MetaTried(scores[r]) \subseteq DOMAIN Grid
    BY <1>1, ScoreType DEF TypeOK
  <2> QED BY <1>1, <1>4, <2>1 DEF TypeOK
<1>7. step' \in [Requests -> Steps]
  BY <1>1, <1>2 DEF TypeOK, Goto, Steps
<1>8. TypeOK'
  BY <1>1, <1>3, <1>5, <1>6, <1>7 DEF TypeOK
<1>9. RequestInv' /\ DatumInv'
  <2>1. /\ lanes'[r] # <<>> /\ step[r] \in Converted
        /\ step[r] \notin {"new", "failed", "killed"}
    BY <1>1, <1>3 DEF RequestInv, Converted
  <2>2. s # "new" /\ s \notin {"nearest", "recompute", "datum", "open", "write"}
    OBVIOUS
  <2> QED BY <1>1, <1>2, <1>3, <2>1, <2>2, Moves
<1> QED BY <1>8, <1>9 DEF TideInv

-----------------------------------------------------------------------------
(***************************************************************************)
(* The theorems.                                                           *)
(***************************************************************************)
\* At the start no request has a node, and no row of the table has a datum.
LEMMA InitTide ==
  ASSUME Init
  PROVE  TideInv
<1>1. PICK N \in SUBSET Nodes : table = [n \in N |-> NoDatum]
  BY DEF Init
<1>2. table \in Tables /\ \A n \in DOMAIN table : table[n] = NoDatum
  <2>1. table \in [N -> Requests \cup {NoDatum}]
    BY <1>1
  <2> QED BY <1>1, <2>1 DEF Tables
<1>3. TypeOK
  <2>1. NoScores \in [DOMAIN Grid -> 0..MaxRmse]
    BY SearchAssumption DEF NoScores
  <2>2. "new" \in Steps /\ <<>> \in Seq(Lanes) /\ <<>> \in Seq(STRING)
    BY DEF Steps
  <2>3. /\ step \in [Requests -> Steps] /\ node \in [Requests -> Nodes \cup {NoNode}]
        /\ lanes \in [Requests -> Seq(Lanes)] /\ families \in [Requests -> Seq(STRING)]
        /\ steps \in [Requests -> Nat] /\ retried \in [Requests -> BOOLEAN]
        /\ snapshot \in [Requests -> Tables]
    BY <2>2, TableType DEF Init
  <2>4. /\ datum \in [Requests -> Requests \cup {NoDatum}] /\ rows \in [Requests -> RowCounts \cup {0}]
        /\ scores \in [Requests -> [DOMAIN Grid -> 0..MaxRmse]]
        /\ kept \in [Requests -> SUBSET DOMAIN Grid]
        /\ rolling \in [Requests -> {"none", "empty", "error", "rows"}]
        /\ missed \in [Requests -> SUBSET Nodes]
    BY <2>1 DEF Init
  <2>5. /\ torn \in BOOLEAN /\ dataproc \in BOOLEAN
        /\ place \in {"./data", "../data", "nowhere"}
    BY DEF Init
  <2>6. stops \in 0..MaxStops
    <3>1. stops = 0 /\ MaxStops \in Nat
      BY PipelineAssumption DEF Init
    <3> QED BY <3>1
  <2> QED BY <1>2, <2>3, <2>4, <2>5, <2>6 DEF TypeOK
<1>4. RequestInv
  BY TableType DEF Init, RequestInv
<1>5. DatumInv
  BY DEF Init, DatumInv, Converted, Recording
<1> QED BY <1>3, <1>4, <1>5 DEF TideInv

\* A step that changes nothing.
LEMMA StutterKeeps ==
  ASSUME TideInv, UNCHANGED vars
  PROVE  TideInv'
<1>1. UNCHANGED <<table, torn, place, dataproc, stops, step, node, lanes, families, steps, retried,
                  snapshot, datum, rows, scores, kept, answer, rolling, missed, raced>>
  BY DEF vars, file, input, series, search, races
<1>2. TypeOK'
  BY <1>1 DEF TideInv, TypeOK
<1>3. RequestInv'
  BY <1>1 DEF TideInv, RequestInv
<1>4. DatumInv'
  BY <1>1 DEF TideInv, DatumInv, Recording, Agrees
<1> QED BY <1>2, <1>3, <1>4 DEF TideInv

\* Every step keeps the invariant.
LEMMA TideStep ==
  ASSUME TideInv, [Next]_vars
  PROVE  TideInv'
<1>1. ASSUME NEW r \in Requests,
             \/ Reject(r) \/ NearestRaises(r) \/ RecomputeRaises(r) \/ NoRow(r)
             \/ CleanRaises(r) \/ LaneRaises(r) \/ FitRaises(r)
      PROVE  TideInv'
  <2>1. Raise(r)
    BY <1>1 DEF Reject, NearestRaises, RecomputeRaises, NoRow, CleanRaises, LaneRaises, FitRaises
  <2> QED BY <2>1, Gone
<1> QED BY <1>1, Gone, StartKeeps, LookupKeeps, RecomputeKeeps, RecordedKeeps, EstimateKeeps,
           WriteKeeps, CleanKeeps, LaneKeeps, SearchKeeps, StutterKeeps DEF Next

\* The invariant holds in every behaviour.
LEMMA TideInvHolds == Spec => []TideInv
BY InitTide, TideStep, PTL DEF Spec

\* Whatever the requests ask for and wherever a process is killed, the station table of
\* hohonu_driver_script.py holds no datum but one that a request for that node estimated.
THEOREM TideTypeCorrect == Spec => []TypeOK
<1>1. TideInv => TypeOK
  BY DEF TideInv
<1> QED BY <1>1, TideInvHolds, PTL

\* For any requests of any processes that share the table without a lock: two series of a
\* node (_prepare_combined_series) are converted with two data only after a lost race.
THEOREM DatumIsShared == Spec => []SameDatum
<1>1. TideInv => SameDatum
  BY DEF TideInv, DatumInv, SameDatum
<1> QED BY <1>1, TideInvHolds, PTL
=============================================================================
