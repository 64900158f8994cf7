SPECIFICATION Spec
CONSTANTS
  n1 = n1  n2 = n2  t1 = t1  t2 = t2
  NodeKeys = {n1}
  Users = {}
  Keys = {a1}
  NoKey = NoKey
  Trees = {t1}
  TreeCapacity <- TwoLeafTrees
  MaxTrees = 1
  Metas = {m1}
  EpochIds = {1}
  LeafSets <- OneLeaf
  StakeAmounts = {}
  EscrowAmounts = {}
  FundAmounts = {1}
  RewardAmounts = {1}
  Severities = {0}
  Locks = {0}
  Unbondings = {0}
  Windows = {0}
  Supply = 2
  MaxU64 = 12
  MaxTime = 0
  MaxLock = 0
INVARIANT NeverPaidTwice
CHECK_DEADLOCK FALSE
