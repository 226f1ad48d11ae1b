SPECIFICATION Spec
CONSTANTS
  Fetchers = {run, client}
  Runs = {run}
  MaxTime = 1
  NoaaDays = 1
  HohonuDays = 1
  MaxRetries = 2
  Modes = {"live", "allow_mock", "offline"}
  Jobs <- MCJobs
  Asked <- MCAsked
  MaxKills = 1
INVARIANTS TypeOK LiveReportIsLive
PROPERTIES FetchAnswers FetchEnds
CHECK_DEADLOCK FALSE
