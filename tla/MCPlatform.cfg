SPECIFICATION PlatformSpec
CONSTANTS
  ta = ta
  tb = tb
  tc = tc
  Task = {ta, tb, tc}
  NoTask = NoTask
  Pipelines <- PipelinesUnderTest
  MaxWorkers = 2
  MaxRepairs = 2
  Job = {j1, j2}
  Watched = {j1}
  PoolSize = 1
  QuietTicks = 1
  MaxRestarts = 1
  Operator = {o1, o2}
  Schedules <- SchedulesUnderTest
  Instants = {0, 4, 12}
  Day = 4
  MaxRuns = 4
  MaxRequests = 2
  Sensor = {s1}
  Completion = {c1}
  Notice = {n1}
  MaxChanges = 3
  MaxStarts = 3
  ConfigFile = {f1, f2}
  Cron = {daily, hourly}
  NoCron = NoCron
  MaxBoots = 2
  MaxFaults = 1
  QueueRow = {q1}
  Owner <- OwnerUnderTest
  Rule = {r1}
  Metric <- MetricUnderTest
  Threshold <- ThresholdUnderTest
  Seeded = {r1}
  Channel = {ch1, ch2}
  Collector = {k1, k2}
  AutoCollector = {k1}
  Notifying = {k1}
  MaxUpsets = 1
  YamlFile = {y1, y2}
  Content = {v0, v1}
  FirstContent = v0
  MaxCommits = 2
  Yaml = {"raw", "dump", "bad"}
  Loads = {"raw", "dump", "bad"}
  Deployable = {"raw", "dump"}
  Dumped <- DumpedUnderTest
  Link = {"warehouse"}
  MaxVersions = 1
  MaxReleases = 3
  MaxEdits = 1
  Asset = {"orders", "daily", "export"}
  External = {"raw", "ref"}
  Columns <- ColumnsUnderTest
  Column = {"a", "b", "c", "k"}
  Statements <- StatementsUnderTest
  Unqualified = "-"
  NoModel = NoModel
  NotSql = NotSql
  Showable <- ShowableUnderTest
  MaxDepth = 1
  MaxHops = 3
  MaxModelEdits = 1
  Plugin = {"postgres", "snowflake", "dbt", "email"}
  NoPlugin = "none"
  PluginOrder <- SystemsUnderTest
  NoOperation = "none"
  Texts <- TextsUnderTest
  Manifest <- ManifestUnderTest
  Redelivered <- DeliveredTwice
  Batch = 2
  CrashPoints = {0, 1, 2}
  Altered <- AlteredUnderTest
  Ghost = "ghost"
  MaxTampers = 2
CHECK_DEADLOCK FALSE
INVARIANTS
  PlatformTypeOK
  AttemptsDisjoint
  ReportsAccount
  RepairMakesWhole
  CancelStands
  NoRunForgotten
  SubmittedOnce
  RegistryMatchesTable
  SchedulesFollowRequests
  OpenedOnceToldOnce
  ActiveIsNewestStanding
  CleanCheckBreaksNothing
  SentencesBecomeWaves
  VerdictsAreDeserved
PROPERTIES
  RunEnds
  ImplementsTaskOrder
  StreamsEnd
  RemovedFiresNoMore
  SensorCatchesUp
  IncidentsFollowMetrics
  WorkspaceKeepsDrafts
  UpToDateMeansPushed
