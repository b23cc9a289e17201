SPECIFICATION Spec
CONSTANTS
  o1 = o1
  o2 = o2
  Operators <- TwoOperators
  Ids <- SixIds
  Slaves = 1
  Zones = 1
  NumRules = 1
  MaxLaunches = 3
  Commands <- LaunchAndStop
  Volumes = FALSE
  Exclusive = FALSE
  MayCrash = FALSE
  MayFail = FALSE
INVARIANT SlaveLimit
