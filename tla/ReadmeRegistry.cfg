SPECIFICATION ApiSpec
CONSTANTS
  MaxRows = 3
  MaxErrors = 2
  SampleLimit = 2
  SharedRegistry = FALSE
  Settings <- MCSettings
INVARIANT HandedOutWorks
