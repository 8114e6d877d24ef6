SPECIFICATION BothSpec
CONSTANTS
  MaxHeight = 3
  PeerMsgs = 1
  MaxCrashes = 2
  TxHeights = {1}
  AppFloor = 1
  SignHeights = {2}
  SignRounds = {0}
  Steps = {2}
  Blocks = {X, Y}
  Times = {1, 2}
  NoBlock = NoBlock
  MaxResets = 1
  BookIds = {"a", "c"}
  Private = {}
  OurIds = {}
  NewBuckets = {1, 2}
  OldBuckets = {1}
  BucketSize = 0
  MaxNewBucketsPerAddress = 2
  Seeds = {"s"}
  Dialers = {1}
  MaxOutboundPeers = 1
  MaxAttemptsToDial = 1
  Unreachable = {"c"}
  MaxRestarts = 1
INVARIANTS
  StoresAgree
  VotesSurvive
  NoDoubleSign
  BookConsistent
PROPERTIES
  
  FindsPeers
CHECK_DEADLOCK FALSE
