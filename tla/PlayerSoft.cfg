SPECIFICATION Spec
CONSTANTS
  N = 2
  Short = {2}
  Readables = {{1, 2}}
  RepeatModes = {"All"}
  AutoPauses = {FALSE}
  MaxRetry = 2
  MaxStreams = 3
  MaxCommands = 2
CHECK_DEADLOCK FALSE
INVARIANTS SoftPauseHolds
