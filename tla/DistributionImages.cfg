SPECIFICATION Spec
CONSTANTS
  s1 = s1
  s2 = s2
  m2 = m2
  z1 = z1
  Count = Count
  Script = "setup-mesos-generic"
  Slaves = {s1}
  OtherMasters = {}
  Zoos <- OneZoo
  Cohost = FALSE
  MaxRuns = 1
INVARIANT SetupHasFiles
CHECK_DEADLOCK FALSE
