SPECIFICATION SeasonSpec
CONSTANTS
  season7 = season7
  season9 = season9
  cup = cup
  GameIds = {1, 2}
  OldGames = {1}
  Seats = {1, 2}
  Handlers = {h1}
  Labels = {season7, season9, cup}
  DigitsOf <- LabelDigits
  Asks <- NamedSeasons
  CsvRows <- CsvOfSeason9
  None = None
  MaxSeasonRequests = 3
  MaxSeasonFaults = 1
PROPERTIES
  KnownReplayOnlyCounts
CHECK_DEADLOCK FALSE
