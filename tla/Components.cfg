SPECIFICATION ComponentsSpec
CONSTANTS
  season7 = season7
  season9 = season9
  cup = cup
  GameIds = {1, 2}
  OldGames = {1}
  Seats = {1, 2}
  Handlers = {h1, h2}
  Labels = {season7, season9, cup}
  DigitsOf <- LabelDigits
  Asks <- NamedSeasons
  CsvRows <- CsvOfSeason9
  None = None
  MaxSeasonRequests = 3
  MaxSeasonFaults = 1
  MaxFiles = 4
  maxReplayParseWorkers = 3
  NoFile = NoFile
  Pids = {1, 2}
  WorkerItems = {"scv"}
  Commands <- RecordedCommands
  Gaps = {8, 48, 64}
  MaxCommands = 4
  Price <- Prices
  BuildingItems = {"academy"}
  TechUnitItems = {"lurker"}
  TechBuildingItems = {"academy"}
  Recordings <- KindsOfRecordings
  Unnormalized <- OlderRecordings
  KeyOf <- LowerCase
  NameOrder <- Alphabet
  MigrationLimits = {60, 300}
  Asked = {"ann"}
  ApmLimit = 9
  MaxPageSize = 7
  MaxGames = 3
  NoRequest = NoRequest
  ImportRuns <- Runs
  Autosaves <- SavedFiles
  DayNumber <- MonthlyDays
  NoDate = NoDate
  UnknownDate = UnknownDate
  ListLimit = 1
  Stored <- OldArchive
  Others <- OtherUploads
  MaxOthers = 1
  MaxImportFaults = 5
  MaxImports = 2
  StoredUploads <- StoredRecordings
  Uploaders = {1, 2}
  MaxStoreRequests = 4
  Connectors = {1, 2}
  McpChunks <- ConnectorChunks
  McpSeasons = {"season7", "EveryMatch"}
  EveryMatch = "EveryMatch"
  TtlSeconds = 1
  TicksPerSecond = 3
  MaxMcpTime = 5
INVARIANTS
  McpAnswersAreFresh
  ClientKeepsItsWord
  MostRowsMatched
  ImportTakesEffect
  OutcomesAgree
  StatisticsAgree
  PagesPartition
  ComponentsTypeOK
  PassesMatchReference
  SelectionFollowsNumber
  NumberFitsLabel
  BackfillTakesEffect
  AnswerAddsUp
  ChartsAddUp
  EffectiveNeverAboveCommands
PROPERTIES
  ImplementsLoop
  UploadAnswered
CHECK_DEADLOCK FALSE
