SPECIFICATION Spec
CONSTANTS
  n1 = n1  n2 = n2  t1 = t1  t2 = t2
  NodeKeys = {n1, n2}
  Users = {}
  Keys = {a1, a2}
  NoKey = NoKey
  Trees = {t1, t2}
  TreeCapacity <- TwoLeafTrees
  MaxTrees = 2
  Metas = {m1}
  EpochIds = {}
  LeafSets = {}
  StakeAmounts = {}
  EscrowAmounts = {}
  FundAmounts = {}
  RewardAmounts = {}
  Severities = {}
  Locks = {0}
  Unbondings = {0}
  Windows = {0}
  Supply = 0
  MaxU64 = 3
  MaxTime = 0
  MaxLock = 0
INVARIANTS NodeCountExact AssetIdsUnique AuthoritiesAgree
CHECK_DEADLOCK FALSE
