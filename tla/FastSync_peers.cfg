SPECIFICATION FairSpec
CONSTANTS
  p1 = p1
  p2 = p2
  None = None
  Peers = {p1, p2}
  Tip <- MCTip
  Sends <- MCSends
  Faulty = {p2}
  Returns = {p1}
  MaxPerPeer = 2
  MaxRequesters = 2
  Hasty = FALSE
  MaxFaults = 1

  
  
PROPERTIES
  SyncEnds
CHECK_DEADLOCK FALSE
