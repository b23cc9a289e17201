SPECIFICATION FairPreparation
CONSTANTS
  s1 = s1
  s2 = s2
  Count = Count
  Script = "setup"
  Slaves <- TwoSlaves
  OtherMasters = {}
  Zoos = {}
  Cohost = FALSE
  MaxRuns = 2
INVARIANT TypeOK
INVARIANT VolumesTypeOK
INVARIANT GivenUpAfterFour
INVARIANT SetupHasFiles
INVARIANT FormatsOnce
INVARIANT VolumesMounted
PROPERTY KeepsTogether
PROPERTY ScriptEnds
CHECK_DEADLOCK FALSE
