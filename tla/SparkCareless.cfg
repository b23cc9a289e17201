SPECIFICATION Spec
CONSTANTS
  o1 = o1
  o2 = o2
  Operators <- TwoOperators
  Ids <- FourIds
  Slaves = 1
  Zones = 1
  NumRules = 1
  MaxLaunches = 2
  Commands <- AllCommands
  Volumes = FALSE
  Exclusive = FALSE
  MayCrash = FALSE
  MayFail = FALSE
INVARIANT SingleMaster
