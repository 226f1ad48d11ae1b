SPECIFICATION Spec
CONSTANTS
  Workers = {"local_tide", "regional_to_local_residual"}
  Thinkers = {"regime_difficulty_thinker"}
  Verifiers = {"physics_datum_verifier", "cross_source_verifier"}
  TurnLimits = {1, 2, 3, 5, 7}
  MaxDistinct = 2
  MaxPhysical = 3
  MaxVerifier = 3
  MaxDepth = 1
  ReservedCalls = 1
  ReservedVerifications = 1
  PolicyMayDecline = TRUE
INVARIANTS TypeOK VerifiedRelease TurnBudgetKept FallbackKept ComputedOnce CausalAccess
PROPERTIES TranscriptOnlyGrows Terminates ImplementsForecastRun
CHECK_DEADLOCK FALSE
