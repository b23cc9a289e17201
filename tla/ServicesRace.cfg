SPECIFICATION Spec
CONSTANTS
  Pids <- SixPids
  Callers <- MonitAndOperator
  Monit = "monit"
  MaxCommands = 3
  MaxOthers = 1
INVARIANT OneDaemon
