--------------------------- MODULE PreparedStation ---------------------------
(***************************************************************************)
(* A station pair indexed once and read at every forecast origin           *)
(* (src/src/orchestration/prepared.py, context.py), with the numerical     *)
(* experts that read it (src/src/experts/): which observations each one     *)
(* uses at an origin, and when it has no forecast to give.                  *)
(*                                                                         *)
(* Abstractions: time is a tick; a series is the set of its ticks, and an  *)
(* expert's output is whether it has one and the observations it is         *)
(* computed from.  Tide predictions are a schedule known in advance and are *)
(* not observations.  The replay passes no local tide predictions, so that  *)
(* series is empty and left out.                                            *)
(***************************************************************************)
EXTENDS Integers, FiniteSets, FiniteSetsExt

CONSTANTS
  RecentTicks,    \* recent_hours, the window of the trends
  FreshTicks,     \* three hours: how old an observation may be
  FreshHour,      \* one hour, for hohonu_is_fresh
  ShortTicks,     \* 90 minutes, the short horizons
  PersistTicks,   \* twelve hours: local_persistence is asked no further ahead
  ResidualTicks,  \* 48 hours, the same of the experts of the NOAA residual
  HarmonicTicks,  \* seven days, the same of harmonic_fallback
  LookbackTicks,  \* the harmonic fit's window
  MinSamples,     \* observations that fit needs
  MinSpan         \* ticks they must cover

ASSUME PreparedAssumption ==
  {RecentTicks, FreshTicks, FreshHour, ShortTicks, PersistTicks, ResidualTicks, HarmonicTicks,
   LookbackTicks, MinSamples, MinSpan} \subseteq Nat

Experts == {"local_persistence", "local_tide", "noaa_residual",
            "regional_to_local_residual", "harmonic_fallback", "safe_fallback"}
None == -1

-----------------------------------------------------------------------------
\* Lookups in a sorted series.

Apart(t, u) == IF t < u THEN u - t ELSE t - u
\* _upper_bound, side='right': the records stamped at or before `when`.
UpTo(ts, when) == {t \in ts : t =< when}
Latest(ts, when) == IF UpTo(ts, when) = {} THEN None ELSE Max(UpTo(ts, when))
Slice(ts, first, last) == UpTo(ts, last) \ UpTo(ts, first - 1)
\* A tie goes to the earlier record.
Nearest(ts, when) ==
  IF ts = {} THEN None
  ELSE Min({t \in ts : \A u \in ts : Apart(t, when) =< Apart(u, when)})
\* The first and last of a window, all a trend is computed from.
Ends(ts) == IF Cardinality(ts) < 2 THEN {} ELSE {Min(ts), Max(ts)}

-----------------------------------------------------------------------------
\* A pair p has the ticks of three series, those of the two observed ones whose quality
\* control failed, the local gauge's datum (the other two share one) and a lag.

OneDatum(p) ==
  \/ p.hohonu = {} /\ p.noaa \cup p.tide # {}
  \/ p.hohonu # {} /\ (p.noaa \cup p.tide = {} \/ p.datum = "MLLW")
\* Every NOAA observation is paired with the nearest prediction, however far.
Residuals(p) == IF p.tide = {} THEN {} ELSE p.noaa
ResidualAt(p, when) == Latest(Residuals(p), when)

\* context_from_prepared.
Context(p, origin, horizon) ==
  LET noaa == Latest(p.noaa, origin)
      hohonu == Latest(p.hohonu, origin)
  IN [origin   |-> origin,
      target   |-> origin + horizon,
      horizon  |-> horizon,
      hohonu   |-> hohonu,
      noaa     |-> noaa,
      tide     |-> Nearest(p.tide, origin + horizon),
      trend    |-> Ends(Slice(p.hohonu, origin - RecentTicks, origin)),
      residual |-> IF noaa = None THEN None ELSE ResidualAt(p, noaa),
      slope    |-> Ends(Slice(Residuals(p), origin - RecentTicks, origin)),
      hohonuOk |-> hohonu \notin p.bad.hohonu,
      noaaOk   |-> noaa \notin p.bad.noaa]

Within(c, tick, age) == tick # None /\ c.origin - tick =< age
\* The cascade's regime; `surge` says the NOAA residual is a large one.
Regime(c, surge) ==
  IF ~c.hohonuOk THEN "failed_local_qc_safe_fallback"
  ELSE IF surge THEN "regional_non_tidal_event"
  ELSE IF c.horizon =< ShortTicks /\ Within(c, c.hohonu, FreshHour) THEN "fresh_local_short_horizon"
  ELSE IF ~Within(c, c.noaa, FreshTicks) THEN "stale_noaa_local_tide"
  ELSE "normal_tide_residual"

-----------------------------------------------------------------------------
\* The experts.

\* A bug: the lagged residual is looked up even when its source time is still to come.
UncheckedSource(p, c) == c.target - p.lag
\* The time whose residual the regional expert transfers.
LagSource(p, c) == IF c.target - p.lag =< c.origin THEN c.target - p.lag ELSE c.origin
Transferred(p, c) ==
  LET found == ResidualAt(p, LagSource(p, c)) IN IF found = None THEN c.residual ELSE found
History(p, c) == Slice(p.hohonu, c.origin - LookbackTicks, c.origin)

Forecasts(e, p, c) ==
  CASE e = "local_persistence" -> Within(c, c.hohonu, FreshTicks) /\ c.hohonuOk
    [] e \in {"local_tide", "safe_fallback"} -> c.tide # None
    [] e = "noaa_residual" ->
         c.tide # None /\ c.residual # None /\ c.noaaOk /\ Within(c, c.noaa, FreshTicks)
    [] e = "regional_to_local_residual" -> c.tide # None /\ c.residual # None /\ c.noaaOk
    [] e = "harmonic_fallback" ->
         /\ Cardinality(History(p, c)) >= MinSamples
         /\ c.hohonuOk
         /\ Max(History(p, c)) - Min(History(p, c)) >= MinSpan

\* The observations the forecast of e is computed from, as <<source, tick>>.
Reads(e, p, c) ==
  CASE e = "local_persistence" -> {"hohonu"} \X ({c.hohonu} \cup c.trend)
    [] e \in {"local_tide", "safe_fallback"} -> {}
    [] e = "noaa_residual" -> {"noaa"} \X ({c.noaa, c.residual} \cup c.slope)
    [] e = "regional_to_local_residual" -> {"noaa"} \X {c.noaa, Transferred(p, c)}
    [] e = "harmonic_fallback" -> {"hohonu"} \X History(p, c)

\* CapabilityGate: the experts the cascade may rank and ask.
Eligible(e, c) ==
  /\ e = "local_persistence" => c.horizon =< PersistTicks
  /\ e \in {"noaa_residual", "regional_to_local_residual"} => c.horizon =< ResidualTicks
  /\ e = "harmonic_fallback" => c.horizon =< HarmonicTicks
  /\ e \notin {"local_persistence", "harmonic_fallback"} => c.tide # None
  /\ e \in {"local_persistence", "harmonic_fallback"}
       => c.hohonuOk /\ Within(c, c.hohonu, FreshTicks)
  /\ e \in {"noaa_residual", "regional_to_local_residual"}
       => c.residual # None /\ c.noaaOk /\ Within(c, c.noaa, FreshTicks)
=============================================================================
