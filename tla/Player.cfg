SPECIFICATION FairSpec
CONSTANTS
  N = 3
  Short = {3}
  Readables = {{1, 2}, {1, 3}, {1}}
  RepeatModes = {"None", "All"}
  AutoPauses = {FALSE, TRUE}
  MaxRetry = 1
  MaxStreams = 2
  MaxCommands = 2
CHECK_DEADLOCK FALSE
INVARIANTS TypeOK OnlyLastUnfaded AdvanceOnce MarksExplained
PROPERTIES SongFollowsSong GivesUp
