SPECIFICATION Spec
CONSTANTS
  RecentTicks = 2
  FreshTicks = 1
  FreshHour = 0
  ShortTicks = 1
  PersistTicks = 1
  ResidualTicks = 2
  HarmonicTicks = 3
  LookbackTicks = 5
  MinSamples = 3
  MinSpan = 2
  Whole = 20
  Decay = 17
  SkillSamples = 2
  PriorStrength = 4
  Prior <- MCPrior
  ShortBucket = 1
  MediumBucket = 2
  DayBucket = 8
  Pairs <- MCPairs
  Horizons = {1, 2}
  HistoryTicks = 1
  StepTicks = 1
  Tolerance = 0
  ErrorCases <- MCErrorCases
  ExpertOrder <- MCExpertOrder
  MinTrainingRows = 2
  SplitRows = 3
  MinPolicyRows = 2
  TestShare = 4
INVARIANT SkillForwardInTime
CHECK_DEADLOCK FALSE
