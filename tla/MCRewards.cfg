SPECIFICATION Spec
CONSTANTS
  n1 = n1  n2 = n2  t1 = t1  t2 = t2
  NodeKeys = {n1, n2}
  Users = {}
  Keys = {a1}
  NoKey = NoKey
  Trees = {t1}
  TreeCapacity <- TwoLeafTrees
  MaxTrees = 1
  Metas = {m1}
  EpochIds = {1, 2}
  LeafSets <- TwoLeaves
  StakeAmounts = {}
  EscrowAmounts = {}
  FundAmounts = {3}
  RewardAmounts = {1, 3}
  Severities = {0}
  Locks = {0}
  Unbondings = {0}
  Windows = {1}
  Supply = 6
  MaxU64 = 12
  MaxTime = 1
  MaxLock = 0
INVARIANTS BooksExact VaultCoversBooks EpochRailSolvent LeafPayable ClaimsExact GaslessExactUntilReused
PROPERTY PayoutsImplemented
CHECK_DEADLOCK FALSE
