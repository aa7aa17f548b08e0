SPECIFICATION Spec
CONSTANTS
  Id <- MCId
  Class <- MCClass
  Sources <- MCSources
  Configs <- MCConfigs
  Unreadable = Unreadable
  Name <- MCName
  NoName = NoName
  Realpath <- MCRealpath
  Initially <- MCInitially
  Directory <- MCDirectory
  Defaults <- MCDefaults
  SchemaFile <- MCSchemaFile
  LogFile <- MCLogFile
  Inputs <- MCInputs
INVARIANT InputsSurvive
INVARIANT SuccessMeansResults
INVARIANT KeptIsClosed
PROPERTY ImplementsReporting
PROPERTY ProgramEnds
CHECK_DEADLOCK FALSE
