SPECIFICATION FairSpec
CONSTANTS
  o1 = o1
  o2 = o2
  Operators <- OneOperator
  Ids <- FourIds
  Slaves = 1
  Zones = 1
  NumRules = 2
  MaxLaunches = 2
  Commands <- AllCommands
  Volumes = TRUE
  Exclusive = TRUE
  MayCrash = FALSE
  MayFail = TRUE
INVARIANT SingleMaster
INVARIANT NoBareGroups
PROPERTY InvocationsEnd
