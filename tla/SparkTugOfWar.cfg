SPECIFICATION FairSpec
CONSTANTS
  o1 = o1
  o2 = o2
  Operators <- TwoOperators
  Ids <- TwoIds
  Slaves = 1
  Zones = 1
  NumRules = 1
  MaxLaunches = 1
  Commands <- LaunchAndDestroy
  Volumes = FALSE
  Exclusive = FALSE
  MayCrash = FALSE
  MayFail = FALSE
PROPERTY InvocationsEnd
