SPECIFICATION LocalSpec
CONSTANTS
  Participants = {p1, p2}
  Rounds = 1
  Size = 2
  Watchers = 1
INVARIANT NothingLeftRunning
CHECK_DEADLOCK FALSE
