SPECIFICATION Spec
CONSTANTS
  o1 = o1
  o2 = o2
  Operators <- OneOperator
  Ids <- TwoIds
  Slaves = 1
  Zones = 1
  NumRules = 1
  MaxLaunches = 1
  Commands <- AllCommands
  Volumes = FALSE
  Exclusive = TRUE
  MayCrash = FALSE
  MayFail = FALSE
PROPERTY StartedIsSetUp
