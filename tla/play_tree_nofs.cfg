SPECIFICATION Spec
CONSTANTS
  Options = {"fs", "vol"}
  Aliases = {"nofs"}
  OwnerOf <- MCOwnerOf
  OldOptions = {}
  Values = {0, 1}
  Tree <- MCTreeNofs
  Steps <- MCSteps
  UserActs = 2
  Following = 1
  MayAlias = TRUE
INVARIANTS OptionsAreOfEntry
CHECK_DEADLOCK FALSE
