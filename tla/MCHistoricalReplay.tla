-------------------------- MODULE MCHistoricalReplay --------------------------
(***************************************************************************)
(* A small instance of HistoricalReplay: histories of six ticks with and   *)
(* without gaps, stale and failed observations.                             *)
(***************************************************************************)
EXTENDS HistoricalReplay

Unit == 400    \* two updates of a mean are exact
MCPrior == [e \in Experts |-> IF e = "local_persistence" THEN Unit ELSE 2 * Unit]
MCPairs ==
  [hohonu : {{}, 0..1, 0..5, (0..5) \ {3}, (0..5) \ {4}, {0, 1, 5}},
   noaa   : {{}, 0..5, {0, 3, 4}},
   tide   : {{}, 0..5, {0, 5}},
   bad    : {[hohonu |-> h, noaa |-> n] : h \in {{}, {2}}, n \in {{}, {1}}},
   datum  : {"MLLW", "MSL"},
   lag    : {0, 2}]
MCErrorCases ==
  {[e \in Experts |-> IF e = "local_tide" THEN -Unit ELSE 3 * Unit],
   [e \in Experts |-> IF e = "local_tide" THEN 2 * Unit ELSE IF e = "safe_fallback" THEN Unit ELSE 0]}
MCExpertOrder == <<"harmonic_fallback", "local_persistence", "local_tide", "noaa_residual",
                   "regional_to_local_residual", "safe_fallback">>
=============================================================================
