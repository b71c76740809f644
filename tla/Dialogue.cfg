SPECIFICATION Spec
CONSTANTS
  Files <- MCFiles
  MayQuit = TRUE
INVARIANTS TypeOK ArgumentsMatch RepliesMatch NoStall
PROPERTIES RequestsDoNotKill Answered SessionEnds
CHECK_DEADLOCK FALSE
