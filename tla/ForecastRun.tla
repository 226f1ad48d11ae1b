----------------------------- MODULE ForecastRun -----------------------------
(***************************************************************************)
(* What ForecastPipeline.run promises in every mode: a run obtains         *)
(* forecasts from experts and ends with one result, which is made of       *)
(* forecasts it obtained or is unavailable and made of none.               *)
(***************************************************************************)
VARIABLES
  status,     \* ForecastResult.status, "running" until there is a result
  obtained,   \* the usable forecasts of the run so far
  released    \* those behind the result: experts_used

vars == <<status, obtained, released>>

Init == status = "running" /\ obtained = {} /\ released = {}

\* Forecasts are added, and none is forgotten.
Obtain == obtained \subseteq obtained'

Work ==
  /\ status = "running" /\ status' = "running"
  /\ Obtain
  /\ UNCHANGED released

Release ==
  /\ status = "running" /\ status' = "available"
  /\ Obtain
  /\ released' # {} /\ released' \subseteq obtained'

GiveUp ==
  /\ status = "running" /\ status' = "unavailable"
  /\ Obtain
  /\ UNCHANGED released

Next == Work \/ Release \/ GiveUp

Spec == Init /\ [][Next]_vars
=============================================================================
