SPECIFICATION Spec
CONSTANTS
  n1 = n1  n2 = n2  t1 = t1  t2 = t2
  NodeKeys = {n1}
  Users = {}
  Keys = {a1}
  NoKey = NoKey
  Trees = {t1}
  TreeCapacity <- TwoLeafTrees
  MaxTrees = 1
  Metas = {m1}
  EpochIds = {1}
  LeafSets <- NoLeaves
  StakeAmounts = {2}
  EscrowAmounts = {}
  FundAmounts = {}
  RewardAmounts = {0}
  Severities = {0}
  Locks = {0, 1}
  Unbondings = {1}
  Windows = {0}
  Supply = 5
  MaxU64 = 8
  MaxTime = 2
  MaxLock = 1
INVARIANTS TypeOK StakeRecoverable NodeStakeSynced LockedStakeHeld
CHECK_DEADLOCK FALSE
