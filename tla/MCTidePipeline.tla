--------------------------- MODULE MCTidePipeline ---------------------------
(***************************************************************************)
(* A small instance of TidePipeline: two requests of the server ask for a  *)
(* VAR forecast, one command line for any strategy or the whole benchmark. *)
(***************************************************************************)
EXTENDS TidePipeline

CONSTANTS r1, r2, cli, north, south

MCGrid == <<"ridge", "rf", "ridge", "svr", "lstm">>
MCProcesses == {{r1, r2}, {cli}}
MCLanes == {<<"best">>, <<"ensemble">>, <<"meta">>, <<"mix">>,
            <<"benchmark", "rolling", "best", "meta", "ensemble", "mix">>}
MCFamilies == {<<>>, <<"randomforest", "supportvector", "ridge", "rf">>, <<"lstm">>}
MCAsks == [r \in Requests |->
  IF r = cli THEN [lanes : MCLanes, families : MCFamilies, steps : {0, 1}]
             ELSE {[lanes |-> <<"var">>, families |-> <<>>, steps |-> 1]}]
\* The nodes are alike, and the requests of the server are.
Symmetry == Permutations({north, south}) \cup Permutations({r1, r2})
\* A request shares nothing once its series is converted: what it does from then on is
\* explored with a full table and before the others start; with them it stays there.
ForecastAlone ==
  \A r \in Requests :
    step[r] \in {"lane", "stack", "fit", "answered"} \/ answer[r] # Persistence \/ rolling[r] # "none"
    => /\ ~dataproc /\ DOMAIN table = Nodes
       /\ \A q \in Requests \ {r} : step[q] = "new"
=============================================================================
