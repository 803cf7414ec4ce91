SPECIFICATION ApiSpec
CONSTANTS
  MaxRows = 3
  MaxErrors = 2
  SampleLimit = 2
  SharedRegistry = TRUE
  Settings <- MCSettings
INVARIANTS
  ApiTypeOK
  NilMeansAllRows
  CountersAreHonest
  FirstErrorsKept
  AtMostOneLateRow
  RefusedMeansUntouched
  HandedOutWorks
  AnalysisMatchesImport
  AnswersAreStable
PROPERTIES
  ImportIsOneRun
