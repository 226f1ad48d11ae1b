SPECIFICATION Spec
CONSTANTS
  Workers = {"local_tide", "regional_to_local_residual"}
  Thinkers = {"regime_difficulty_thinker"}
  Verifiers = {"physics_datum_verifier", "cross_source_verifier"}
  TurnLimits = {7}
  MaxDistinct = 2
  MaxPhysical = 3
  MaxVerifier = 3
  MaxDepth = 1
  ReservedCalls = 1
  ReservedVerifications = 1
  PolicyMayDecline = FALSE
INVARIANT FallbackVerified
CHECK_DEADLOCK FALSE
