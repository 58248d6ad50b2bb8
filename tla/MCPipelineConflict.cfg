SPECIFICATION PipelineSpec
CONSTANTS
  Stages = {"review"}
  PRs = {1, 2, 3}
  Merged = {}
  Levels = {0, 1, 2, 3}
  ExactBelow = 3
  CollidingSets <- SomeCollisions
  GarbageSets = {{}, {3}}
  ConflictSets <- SomeConflicts
  Results <- Answers
  Profiles = {"advisory", "autonomous"}
  MaxPRs = 0
  MaxRuns = 2
  OpenPRs = {1, 2, 3}
  PRShapes <- SomeShapes
  Collapses <- SomeCollapses
  Options <- SomeOptions
  Dynamic <- SomeDynamic
  MaxClusters = 1
  MaxPerCluster = 2
  TargetTotal = 1
  Numbers = {1, 2, 3}
  Shapes <- Tips
  MaxEdits = 3
  Pool = 3
  ShardSizes = {1, 2}
  Workers = {1, 2}
  Thresholds = {0, 1}
  Backpressures = {1}
  Reviewed <- Subjects
  Clients = {1, 2}
  SettingRepos = {"a/x"}
  Changes <- SomeChanges
  Doomable = {"ending_pr_number"}
  MaxRequests = 3
  Screens = {"tui"}
  Sockets = {"ws"}
  SyncingJobs = {1}
  JobViews <- SomeViews
  Polled = {"jobs", "rateLimit"}
  ChannelCapacity = 1
  MaxChanges = 1
  MaxActionPlans = 1
  MaxOpenings = 1
INVARIANT ConflictBlocksMerge
CHECK_DEADLOCK FALSE
