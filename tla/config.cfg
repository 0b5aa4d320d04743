SPECIFICATION Spec
CONSTANTS
  Requests = {0, 10, 11, 12, 13, 14, 15, 16, 17, 18, 19, 20, 21, 22, 23, 24, 25, 26, 27, 255}
  Powers = {0, 9, 15, 16, 200}
  ResetImages <- SampleImages
INVARIANTS
  ConfigurationKept
  PowerIsAsked
  SetChannelIsTuned
PROPERTIES
  FieldWritesExact
  CommandsReachMachine
