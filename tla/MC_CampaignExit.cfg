CONSTANTS
  Workers = 2
  ExecLimits <- MCExecLimits
  NoLimit = NoLimit
  TimeLimit = TRUE
  MaxStartupDeaths = 2
  MaxFrames = 0
SPECIFICATION Spec
INVARIANTS
  CheckpointOnEveryExit
