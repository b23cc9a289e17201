SPECIFICATION Spec
CONSTANTS
  Ids <- FiveIds
  Slaves = 1
  Zones = 2
  MastersAsked <- OneToThree
  ZooNum = 3
  MaxLaunches = 2
INVARIANT TypeOK
INVARIANT OneLaunch
INVARIANT NoStrayNode
INVARIANT DestroyIsComplete
INVARIANT NoBareGroups
INVARIANT SetupAfterBoot
INVARIANT NeverStuck
PROPERTY FillsPools
