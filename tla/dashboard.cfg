SPECIFICATION Spec
CONSTANTS
  s1 = s1
  s2 = s2
  Sessions = {s1, s2}
  Stations = {"Honolulu", "Boston"}
  Tidal = {"Honolulu"}
  Ttl <- MCTtl
  VerdictTtl = 1
  MaxFetch = 1
  MaxTime = 2
  MaxRefresh = 1
  MaxSyncs = 1
  Versions = {"v0", "v1"}
  MaxEdits = 2
  MaxCommands = 2
  MaxCuts = 1
  Commands = {"demo", "train", "summary", "noaa_allow_mock"}
INVARIANTS TypeOK ShownAsRequested FreshMeansRetrained FreshPage
PROPERTY DemoComplete
CONSTRAINT Apart
SYMMETRY Symmetry
CHECK_DEADLOCK FALSE
