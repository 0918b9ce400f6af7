SPECIFICATION FairSpec
CONSTANTS
  p1 = p1
  p2 = p2
  p3 = p3
  p4 = p4
  late = late
  Pushers = {p1, p2, p3, p4, late}
  Late = late
  Round <- MCRound
  ClaimedRound <- MCClaimedRound
  Quorum = 2
INVARIANTS BufferInv AcceptedExactlyOnce NoLostWakeup
PROPERTIES ImplementsRoundBatch QuorumFlushesWithoutClock FlushReturns
CHECK_DEADLOCK FALSE
