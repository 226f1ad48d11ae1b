---------------------------- MODULE MCForecastApi ----------------------------
(***************************************************************************)
(* Small instances of ForecastApi: interchangeable requests.               *)
(***************************************************************************)
EXTENDS ForecastApi, TLC

RequestSymmetry == Permutations(Requests)
=============================================================================
