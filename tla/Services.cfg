SPECIFICATION FairSpec
CONSTANTS
  Pids <- SixPids
  Callers <- MonitAndOperator
  Monit = "monit"
  MaxCommands = 3
  MaxOthers = 1
INVARIANT TypeOK
INVARIANT DaemonsListed
INVARIANT StopEndsAll
PROPERTY FoundAgain
PROPERTY Supervised
