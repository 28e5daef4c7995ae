SPECIFICATION Spec
CONSTANTS
  Format <- MCFormat
  Schema <- Schemas
  TranslateSchema <- Translated
  MaxTurns = 3
  MaxParts = 3
  InFlight = 2
CHECK_DEADLOCK FALSE
INVARIANTS
  StreamsAreWellFormed
  NothingLostButByFraming
  FinishIsTold
  HistoryIsKept
  ResultsFollowCalls
  SettingsAreKept
  SchemasAreKept
