--------------------------- MODULE MCMiniForecast ---------------------------
(***************************************************************************)
(* Small instances of MiniForecast.                                        *)
(***************************************************************************)
EXTENDS MiniForecast

MCBudgets ==
  [maxCalls : 1..3, reserve : BOOLEAN, timed : BOOLEAN, parallel : BOOLEAN, workers : 1..2]
=============================================================================
