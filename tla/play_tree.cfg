SPECIFICATION FairSpec
CONSTANTS
  Options = {"fs", "vol"}
  Aliases = {"nofs"}
  OwnerOf <- MCOwnerOf
  OldOptions = {}
  Values = {0, 1}
  Tree <- MCTree
  Steps <- MCSteps
  UserActs = 5
  Following = 1
  MayAlias = FALSE
INVARIANTS TypeOK LevelsAreGroups OptionsAreOfEntry CopyTellsTruth InTreeOrder
PROPERTIES ListEnds
CHECK_DEADLOCK FALSE
