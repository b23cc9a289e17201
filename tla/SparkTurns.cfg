SPECIFICATION Spec
CONSTANTS
  o1 = o1
  o2 = o2
  Operators <- OneOperator
  Ids <- FiveIds
  Slaves = 2
  Zones = 2
  NumRules = 1
  MaxLaunches = 2
  Commands <- AllCommands
  Volumes = FALSE
  Exclusive = TRUE
  MayCrash = TRUE
  MayFail = TRUE
INVARIANT TypeOK
INVARIANT OneLaunch
INVARIANT SlaveLimit
INVARIANT NoStraySlave
INVARIANT DestroyIsComplete
INVARIANT SetupAfterBoot
PROPERTY FillsPools
