SPECIFICATION FairSpec
CONSTANTS
  a = a
  b = b
  Members = {a, b}
  Fleets <- OneRust
  ResultOf <- MCResultOf
  ChunkBytes = 9
  MaxUpdateBytes = 24
  Wanted = 2
  PushCapacity = 1
  QueueCapacity = 1
  MaxRound = 2
  MaxTroubles <- MCTroubles
PROPERTIES NoClientServerDeadlock
CHECK_DEADLOCK FALSE
