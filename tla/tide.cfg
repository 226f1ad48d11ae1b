SPECIFICATION Spec
CONSTANTS
  r1 = r1
  r2 = r2
  cli = cli
  Requests = {r1, r2, cli}
  north = north
  south = south
  Nodes = {north, south}
  Known = {north, south}
  Processes <- MCProcesses
  Asks <- MCAsks
  Grid <- MCGrid
  RowCounts = {30, 150, 9000}
  MaxRmse = 3
  EnsembleSize = 2
  MetaTopK = 3
  MixSize = 4
  MaxStops = 1
  VarWindows = 1
  MinVarRows = 8160
INVARIANTS TypeOK SameDatum
PROPERTIES AnswerMatchesStrategy MixIsBestPair
CONSTRAINT ForecastAlone
SYMMETRY Symmetry
CHECK_DEADLOCK FALSE
