SPECIFICATION FairSpec
CONSTANTS
  w1 = w1
  w2 = w2
  Receiver = {w1, w2}
  Inline = {"a"}
  Spawned = {"h"}
  Capacity = 2
  Triggers = {"api", "webhook", "rollback"}
  ListensAt = "server"
  MaxTransitions = 1
CHECK_DEADLOCK FALSE
INVARIANTS
  NothingLost
PROPERTY DeployWatchEnds
