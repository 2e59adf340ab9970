SPECIFICATION FairSpec
CONSTANTS
  Threads = {p0, p1, p2}
  Rounds = 3
INVARIANTS NobodyLeavesEarly RoundInvariant
PROPERTIES ImplementsRendezvous EveryoneLeaves
CHECK_DEADLOCK FALSE
