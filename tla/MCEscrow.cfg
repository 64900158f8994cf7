SPECIFICATION Spec
CONSTANTS
  n1 = n1  n2 = n2  t1 = t1  t2 = t2
  NodeKeys = {}
  Users = {u1, u2}
  Keys = {a1}
  NoKey = NoKey
  Trees = {}
  TreeCapacity <- TwoLeafTrees
  MaxTrees = 1
  Metas = {m1}
  EpochIds = {}
  LeafSets = {}
  StakeAmounts = {}
  EscrowAmounts = {1, 5}
  FundAmounts = {}
  RewardAmounts = {}
  Severities = {}
  Locks = {0}
  Unbondings = {0}
  Windows = {0}
  Supply = 6
  MaxU64 = 6
  MaxTime = 0
  MaxLock = 0
INVARIANT EscrowExact
CHECK_DEADLOCK FALSE
