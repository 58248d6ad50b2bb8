SPECIFICATION ServicesSpec
CONSTANTS
  Parts = {"jobs", "fetch", "served", "budget", "queue", "scheduler", "events", "calls", "mirrors"}
  ServedTime = 4
  Jobs = {1, 2, 3}
  Kinds = {"workflow", "sync", "analyze", "scheduler", "server"}
  MaxErrors = 2
  MaxCrashes = 1
  MaxChecks = 2
  None = None
  PRs = {1, 2, 3}
  Command = command
  Servers = {serve}
  PageSize = 2
  Caps = {0, 3}
  RESTPages = 2
  MaxTime = 6
  Limit = 5000
  Reserves = {200, 500}
  Amounts = {30, 200}
  Answers = {0, 203, 229, 230, 274, 275, 501, 2001}
  Totals = {0, 1, 25, 1000}
  Items = {1, 2, 3}
  Priority <- Pri
  Loops = {1, 2}
  MinBackoff = 2
  MaxBackoff = 3
  MaxAttempts = 2
  MaxMinutes = 4
  Callers = {1}
  MaxStarts = 3
  Streams = {1, 2}
  Capacity = 2
  MaxEvents = 5
  MaxRuns = 2
  Tokens = 2
  MaxRetries = 2
  Repos = {"a/x"}
  MirrorPRs = {1, 2, 3}
  BatchSize = 2
  MaxVersion = 2
INVARIANT RunnerOwnsActiveJob
INVARIANT SleeperHasWakeUp
PROPERTY ActiveDrained
INVARIANT CursorSkipsNothing
PROPERTY RefinesReplica
PROPERTY CompleteCoversOpen
PROPERTY ServedInOrder
INVARIANT CheckingIsStoppable
INVARIANT StreamsInOrder
INVARIANT SuccessIsReal
INVARIANT FetchedOrSkipped
INVARIANT RunsWhatItCanAfford
CHECK_DEADLOCK FALSE
