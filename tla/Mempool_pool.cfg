SPECIFICATION FairSpec
CONSTANTS
  Txs = {t1, t2}
  RelayTxs = {t2}
  ConfigTxs = {}
  Peers = {p1}
  Configs <- MCConfigs
  PoolSize = 2
  CacheSize = 1
  FlushInRecheck = FALSE
  InitHeight = 1
  MaxHeight = 2
  MaxPush = 3
  MaxPushGossip = 2
INVARIANTS
  
  ChecksHold
PROPERTIES
  LockReleased
  EveryTxGossiped
CHECK_DEADLOCK FALSE
