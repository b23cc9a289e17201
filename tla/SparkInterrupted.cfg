SPECIFICATION Spec
CONSTANTS
  o1 = o1
  o2 = o2
  Operators <- OneOperator
  Ids <- FourIds
  Slaves = 1
  Zones = 1
  NumRules = 2
  MaxLaunches = 2
  Commands <- AllCommands
  Volumes = FALSE
  Exclusive = TRUE
  MayCrash = TRUE
  MayFail = FALSE
INVARIANT RulesBeforeInstances
