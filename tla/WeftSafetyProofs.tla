-------------------------- MODULE WeftSafetyProofs --------------------------
(***************************************************************************)
(* Safety of the Weft program for every value of the constants, but for    *)
(* the reward rails: the stake is recoverable and stays locked while its   *)
(* lock runs, node_count is exact, escrows are exact, and what a NodeState *)
(* says of its node is so: no other node stores its asset id, and          *)
(* `withdrawn` is what the gasless rail paid until the account is closed.  *)
(* And the admin keys of the three core accounts agree.                    *)
(***************************************************************************)
EXTENDS WeftTypeProofs, SumTheorems

-----------------------------------------------------------------------------
(* Stake, node count and the life of the core                              *)

\* A core that does not exist counts no nodes.
DeadCoreCountsNone == ~registry.live => registry.node_count = 0

\* Neither StakeRecoverable nor NodeCountExact is inductive alone.
\* deregister_node reads the NodeState's copy of the stake, so "staked
\* implies registered" needs the copy to be exact; shutdown_core reads
\* node_count, so "staked implies the core lives" needs the count to be exact;
\* and the count survives initialize_core because a dead core counts none.
StakeInv ==
  /\ StakeRecoverable
  /\ NodeStakeSynced
  /\ NodeCountExact
  /\ DeadCoreCountsNone

LEMMA LiveNodesFinite == IsFiniteSet(LiveNodes)
<1>1. LiveNodes \subseteq NodeKeys
  BY DEF LiveNodes
<1> QED BY <1>1, ConstantsAssumption, FS_Subset

\* What an instruction that touches no stake and no registration preserves.
LEMMA StakeFrame ==
  ASSUME StakeInv,
         registry'.live = registry.live,
         registry'.node_count = registry.node_count,
         \A k \in NodeKeys : /\ node'[k].live = node[k].live
                             /\ node'[k].stake_amount = node[k].stake_amount,
         UNCHANGED <<position, stake_vault, stake_gift>>
  PROVE  StakeInv'
<1>1. LiveNodes' = LiveNodes
  BY DEF LiveNodes
<1>2. StakeRecoverable'
  BY DEF StakeInv, StakeRecoverable
<1>3. NodeStakeSynced'
  BY <1>1 DEF StakeInv, NodeStakeSynced, LiveNodes
<1>4. NodeCountExact' /\ DeadCoreCountsNone'
  BY <1>1 DEF StakeInv, NodeCountExact, DeadCoreCountsNone
<1> QED BY <1>2, <1>3, <1>4 DEF StakeInv

LEMMA InitStake == Init => StakeInv
<1> SUFFICES ASSUME Init PROVE StakeInv
  OBVIOUS
<1>1. LiveNodes = {}
  BY DEF Init, LiveNodes, ZeroNode
<1>2. StakeRecoverable
  BY DEF Init, StakeRecoverable, ZeroPosition
<1>3. NodeStakeSynced
  BY <1>1 DEF NodeStakeSynced
<1>4. NodeCountExact /\ DeadCoreCountsNone
  BY <1>1, FS_EmptySet
     DEF Init, NodeCountExact, DeadCoreCountsNone, ZeroRegistry
<1> QED BY <1>2, <1>3, <1>4 DEF StakeInv

LEMMA RegistryKeepsStake == TypeOK /\ StakeInv /\ RegistryNext => StakeInv'
<1> SUFFICES ASSUME TypeOK, StakeInv, RegistryNext PROVE StakeInv'
  OBVIOUS
<1> USE ConstantsAssumption
<1>1. ASSUME NEW a \in Keys, NEW p \in Keys, NEW d \in Keys,
             NEW b \in Unbondings, NEW w \in Windows,
             InitializeCore(a, p, d, b, w)
      PROVE  StakeInv'
  <2>1. registry'.live /\ registry'.node_count = 0 /\ ~registry.live
    BY <1>1 DEF InitializeCore, ZeroRegistry
  <2>2. /\ registry.node_count = 0
        /\ UNCHANGED <<node, position, stake_vault, stake_gift>>
    BY <1>1, <2>1 DEF InitializeCore, StakeInv, DeadCoreCountsNone
  <2>3. LiveNodes' = LiveNodes
    BY <2>2 DEF LiveNodes
  <2>4. StakeRecoverable'
    BY <2>1, <2>2 DEF StakeInv, StakeRecoverable
  <2>5. NodeStakeSynced'
    BY <2>2, <2>3 DEF StakeInv, NodeStakeSynced
  <2>6. NodeCountExact' /\ DeadCoreCountsNone'
    BY <2>1, <2>2, <2>3 DEF StakeInv, NodeCountExact, DeadCoreCountsNone
  <2> QED BY <2>4, <2>5, <2>6 DEF StakeInv
<1>2. ASSUME NEW t \in Trees, RegisterTree(t)
      PROVE  StakeInv'
  BY <1>2, StakeFrame DEF RegisterTree, stakingVars, TypeOK, RegistryType,
     RegistryAccount
<1>3. CASE SetRegistryCollection
  BY <1>3, StakeFrame DEF SetRegistryCollection, stakingVars, TypeOK,
     RegistryType, RegistryAccount
<1>4. ASSUME NEW k \in NodeKeys, NEW i \in ShardIds, NEW m \in Metas,
             RegisterNode(k, i, m)
      PROVE  StakeInv'
  <2>1. /\ ~node[k].live /\ registry.live /\ registry'.live
        /\ registry'.node_count = registry.node_count + 1
        /\ node'[k].live /\ node'[k].stake_amount = 0
        /\ \A j \in NodeKeys \ {k} : node'[j] = node[j]
        /\ UNCHANGED <<position, stake_vault, stake_gift>>
    BY <1>4 DEF RegisterNode, stakingVars, TypeOK, RegistryType,
       RegistryAccount
  <2>2. position[k].amount = 0
    BY <2>1 DEF StakeInv, StakeRecoverable, TypeOK, StakingType,
       PositionAccount
  <2>3. LiveNodes' = LiveNodes \cup {k} /\ k \notin LiveNodes
    BY <2>1 DEF LiveNodes
  <2>4. Cardinality(LiveNodes') = Cardinality(LiveNodes) + 1
    BY <2>3, LiveNodesFinite, FS_AddElement
  <2>5. StakeRecoverable'
    BY <2>1, <2>2 DEF StakeInv, StakeRecoverable
  <2>6. NodeStakeSynced'
    BY <2>1, <2>2 DEF StakeInv, NodeStakeSynced, LiveNodes
  <2>7. NodeCountExact' /\ DeadCoreCountsNone'
    BY <2>1, <2>4 DEF StakeInv, NodeCountExact, DeadCoreCountsNone
  <2> QED BY <2>5, <2>6, <2>7 DEF StakeInv
<1>5. ASSUME NEW k \in NodeKeys, NEW m \in Metas, UpdateNode(k, m)
      PROVE  StakeInv'
  BY <1>5, StakeFrame DEF UpdateNode, stakingVars, TypeOK, RegistryType,
     NodeAccount
<1>6. ASSUME NEW k \in NodeKeys, DeregisterNode(k)
      PROVE  StakeInv'
  <2>1. /\ node[k].live /\ node[k].stake_amount = 0
        /\ registry.live /\ registry'.live
        /\ registry'.node_count = SaturatingSub(registry.node_count, 1)
        /\ ~node'[k].live
        /\ \A j \in NodeKeys \ {k} : node'[j] = node[j]
        /\ UNCHANGED <<position, stake_vault, stake_gift>>
    BY <1>6 DEF DeregisterNode, Deregisterable, NodeCountAfterDeregister,
       ZeroNode, stakingVars, TypeOK, RegistryType, RegistryAccount
  <2>2. position[k].amount = 0
    BY <2>1 DEF StakeInv, NodeStakeSynced, LiveNodes
  <2>3. LiveNodes' = LiveNodes \ {k} /\ k \in LiveNodes
    BY <2>1 DEF LiveNodes
  <2>4. /\ Cardinality(LiveNodes') = Cardinality(LiveNodes) - 1
        /\ Cardinality(LiveNodes) \in Nat
        /\ Cardinality(LiveNodes') \in Nat
    BY <2>3, LiveNodesFinite, FS_RemoveElement, FS_CardinalityType
  <2>5. StakeRecoverable'
    BY <2>1, <2>2 DEF StakeInv, StakeRecoverable
  <2>6. NodeStakeSynced'
    BY <2>1 DEF StakeInv, NodeStakeSynced, LiveNodes
  <2>7. NodeCountExact' /\ DeadCoreCountsNone'
    BY <2>1, <2>4
       DEF StakeInv, NodeCountExact, DeadCoreCountsNone, SaturatingSub
  <2> QED BY <2>5, <2>6, <2>7 DEF StakeInv
<1>7. ASSUME NEW a \in Keys, SetCoreAuthority(a)
      PROVE  StakeInv'
  BY <1>7, StakeFrame DEF SetCoreAuthority, TypeOK, RegistryType,
     RegistryAccount
<1>8. ASSUME NEW p \in BOOLEAN, SetPaused(p)
      PROVE  StakeInv'
  BY <1>8, StakeFrame DEF SetPaused, stakingVars, TypeOK, RegistryType,
     RegistryAccount
<1>9. ASSUME NEW a \in Keys, SetPosterAuthority(a)
      PROVE  StakeInv'
  BY <1>9, StakeFrame DEF SetPosterAuthority, stakingVars, registryVars
<1>10. ASSUME NEW a \in Keys, SetDisputeAuthority(a)
      PROVE  StakeInv'
  BY <1>10, StakeFrame DEF SetDisputeAuthority, registryVars
<1>11. CASE ShutdownCore
  <2>1. /\ registry.node_count = 0
        /\ ~registry'.live /\ registry'.node_count = 0
        /\ UNCHANGED <<node, position, stake_vault, stake_gift>>
    BY <1>11 DEF ShutdownCore, ZeroRegistry
  <2>2. LiveNodes = {}
    BY <2>1, LiveNodesFinite, FS_EmptySet DEF StakeInv, NodeCountExact
  <2>3. LiveNodes' = {}
    BY <2>1, <2>2 DEF LiveNodes
  <2>4. \A k \in NodeKeys : ~(position[k].amount > 0)
    BY <2>2 DEF LiveNodes, StakeInv, StakeRecoverable
  <2>5. StakeRecoverable'
    BY <2>1, <2>4 DEF StakeInv, StakeRecoverable
  <2>6. NodeStakeSynced' /\ NodeCountExact' /\ DeadCoreCountsNone'
    BY <2>1, <2>3, FS_EmptySet
       DEF NodeStakeSynced, NodeCountExact, DeadCoreCountsNone
  <2> QED BY <2>5, <2>6 DEF StakeInv
<1>12. ASSUME NEW t \in Trees, ForeignMint(t)
       PROVE  StakeInv'
  BY <1>12, StakeFrame DEF ForeignMint, stakingVars, TypeOK, RegistryType,
     RegistryAccount
<1> QED BY <1>1, <1>2, <1>3, <1>4, <1>5, <1>6, <1>7, <1>8, <1>9, <1>10, <1>11,
           <1>12
        DEF RegistryNext

\* What an instruction on one position has to show.
LEMMA PositionStep ==
  ASSUME StakeInv, NEW k \in NodeKeys,
         registry' = registry,
         \A j \in NodeKeys \ {k} :
           /\ node'[j] = node[j] /\ position'[j] = position[j]
           /\ stake_vault'[j] = stake_vault[j] /\ stake_gift'[j] = stake_gift[j],
         node'[k].live = node[k].live,
         node[k].live => node'[k].stake_amount = position'[k].amount,
         stake_vault'[k] = position'[k].amount + stake_gift'[k],
         position'[k].unbonding_amount <= position'[k].amount,
         position'[k].amount > 0 =>
           registry.live /\ node[k].live /\ position'[k].live
  PROVE  StakeInv'
<1>1. LiveNodes' = LiveNodes
  BY DEF LiveNodes
<1>2. StakeRecoverable'
  BY DEF StakeInv, StakeRecoverable
<1>3. NodeStakeSynced'
  BY <1>1 DEF StakeInv, NodeStakeSynced, LiveNodes
<1>4. NodeCountExact' /\ DeadCoreCountsNone'
  BY <1>1 DEF StakeInv, NodeCountExact, DeadCoreCountsNone
<1> QED BY <1>2, <1>3, <1>4 DEF StakeInv

LEMMA StakingKeepsStake == TypeOK /\ StakeInv /\ StakingNext => StakeInv'
<1> SUFFICES ASSUME TypeOK, StakeInv, StakingNext PROVE StakeInv'
  OBVIOUS
<1> USE ConstantsAssumption
<1>0. \A k \in NodeKeys :
        /\ position[k] \in PositionAccount /\ position[k].amount \in Nat
        /\ position[k].unbonding_amount \in Nat
        /\ stake_vault[k] \in Nat /\ stake_gift[k] \in Nat
        /\ stake_vault[k] = position[k].amount + stake_gift[k]
        /\ position[k].unbonding_amount <= position[k].amount
        /\ position[k].amount > 0 =>
             registry.live /\ node[k].live /\ position[k].live
  BY DEF TypeOK, StakingType, PositionAccount, StakeInv, StakeRecoverable
<1>1. ASSUME NEW k \in NodeKeys, NEW n \in StakeAmounts, NEW l \in Locks,
             Stake(k, n, l)
      PROVE  StakeInv'
  <2> DEFINE pk == [position[k] EXCEPT
                       !.live = TRUE, !.amount = @ + n,
                       !.locked_until = LockAfterStake(k, l)]
             nk == [node[k] EXCEPT !.stake_amount = position[k].amount + n]
  <2>1. /\ position'[k].live
        /\ position'[k].amount = position[k].amount + n
        /\ position'[k].unbonding_amount = position[k].unbonding_amount
        /\ stake_vault'[k] = stake_vault[k] + n
        /\ node'[k].stake_amount = position[k].amount + n
        /\ node'[k].live = node[k].live
    <3>1. /\ position'[k] = pk /\ node'[k] = nk
          /\ stake_vault'[k] = stake_vault[k] + n
      BY <1>1, Zenon
         DEF Stake, StakeCopied, TypeOK, StakingType, RegistryType
    <3>2. position[k] \in PositionAccount /\ node[k] \in NodeAccount
      BY DEF TypeOK, StakingType, RegistryType
    <3>3. /\ pk.live /\ pk.amount = position[k].amount + n
          /\ pk.unbonding_amount = position[k].unbonding_amount
      BY <3>2, Zenon DEF PositionAccount
    <3>4. /\ nk.stake_amount = position[k].amount + n
          /\ nk.live = node[k].live
      BY <3>2, Zenon DEF NodeAccount
    <3> QED BY <3>1, <3>3, <3>4
  <2>2. \A j \in NodeKeys \ {k} :
          /\ node'[j] = node[j] /\ position'[j] = position[j]
          /\ stake_vault'[j] = stake_vault[j] /\ stake_gift'[j] = stake_gift[j]
    BY <1>1 DEF Stake, StakeCopied, TypeOK, StakingType, RegistryType
  <2>3. /\ registry.live /\ node[k].live /\ n \in Nat
        /\ UNCHANGED <<registry, stake_gift>>
    BY <1>1 DEF Stake
  <2>4. /\ node[k].live => node'[k].stake_amount = position'[k].amount
        /\ stake_vault'[k] = position'[k].amount + stake_gift'[k]
        /\ position'[k].unbonding_amount <= position'[k].amount
    BY <1>0, <2>1, <2>3
  <2> QED BY <2>1, <2>2, <2>3, <2>4, PositionStep
<1>2. ASSUME NEW k \in NodeKeys, NEW n \in StakeAmounts, RequestUnstake(k, n)
      PROVE  StakeInv'
  <2>1. /\ position'[k].live = position[k].live
        /\ position'[k].amount = position[k].amount
        /\ position'[k].unbonding_amount = position[k].unbonding_amount + n
        /\ \A j \in NodeKeys \ {k} : position'[j] = position[j]
    BY <1>2 DEF RequestUnstake, TypeOK, StakingType, PositionAccount
  <2>2. /\ n \in Nat
        /\ n <= position[k].amount - position[k].unbonding_amount
        /\ UNCHANGED <<registry, node, stake_vault, stake_gift>>
    BY <1>2 DEF RequestUnstake, registryVars
  <2>3. position'[k].unbonding_amount <= position'[k].amount
    BY <1>0, <2>1, <2>2
  <2>4. node[k].live => node'[k].stake_amount = position'[k].amount
    BY <2>1, <2>2 DEF StakeInv, NodeStakeSynced, LiveNodes
  <2> QED BY <1>0, <2>1, <2>2, <2>3, <2>4, PositionStep
<1>3. ASSUME NEW k \in NodeKeys, WithdrawUnstaked(k)
      PROVE  StakeInv'
  <2> DEFINE n == position[k].unbonding_amount
             pk == [position[k] EXCEPT !.amount = @ - n,
                                       !.unbonding_amount = 0]
             nk == [node[k] EXCEPT !.stake_amount = position[k].amount - n]
  <2>1. /\ position'[k].live = position[k].live
        /\ position'[k].amount = position[k].amount - n
        /\ position'[k].unbonding_amount = 0
        /\ stake_vault'[k] = stake_vault[k] - n
        /\ node'[k].stake_amount = position[k].amount - n
        /\ node'[k].live = node[k].live
    <3>1. /\ position'[k] = pk /\ node'[k] = nk
          /\ stake_vault'[k] = stake_vault[k] - n
      BY <1>3, Zenon
         DEF WithdrawUnstaked, StakeCopied, TypeOK, StakingType, RegistryType
    <3>2. position[k] \in PositionAccount /\ node[k] \in NodeAccount
      BY DEF TypeOK, StakingType, RegistryType
    <3>3. /\ pk.live = position[k].live /\ pk.amount = position[k].amount - n
          /\ pk.unbonding_amount = 0
      BY <3>2, Zenon DEF PositionAccount
    <3>4. /\ nk.stake_amount = position[k].amount - n
          /\ nk.live = node[k].live
      BY <3>2, Zenon DEF NodeAccount
    <3> QED BY <3>1, <3>3, <3>4
  <2>2. \A j \in NodeKeys \ {k} :
          /\ node'[j] = node[j] /\ position'[j] = position[j]
          /\ stake_vault'[j] = stake_vault[j] /\ stake_gift'[j] = stake_gift[j]
    BY <1>3
       DEF WithdrawUnstaked, StakeCopied, TypeOK, StakingType, RegistryType
  <2>3. /\ node[k].live /\ position[k].live
        /\ n \in Nat /\ n > 0 /\ n <= position[k].amount
        /\ UNCHANGED <<registry, stake_gift>>
    BY <1>0, <1>3 DEF WithdrawUnstaked
  <2>4. registry.live
    BY <1>0, <2>3
  <2>5. /\ node[k].live => node'[k].stake_amount = position'[k].amount
        /\ stake_vault'[k] = position'[k].amount + stake_gift'[k]
        /\ position'[k].unbonding_amount <= position'[k].amount
    BY <1>0, <2>1, <2>3
  <2> QED BY <2>1, <2>2, <2>3, <2>4, <2>5, PositionStep
<1>4. ASSUME NEW k \in NodeKeys, CloseEmptyStakePosition(k)
      PROVE  StakeInv'
  <2>1. /\ position[k].amount = 0 /\ stake_vault[k] = 0
        /\ position'[k].amount = 0 /\ position'[k].unbonding_amount = 0
        /\ \A j \in NodeKeys \ {k} : position'[j] = position[j]
        /\ UNCHANGED <<registry, node, stake_vault, stake_gift>>
    BY <1>4 DEF CloseEmptyStakePosition, ZeroPosition, registryVars, TypeOK,
       StakingType
  <2>2. node[k].live => node'[k].stake_amount = position'[k].amount
    BY <2>1 DEF StakeInv, NodeStakeSynced, LiveNodes
  <2>3. stake_vault'[k] = position'[k].amount + stake_gift'[k]
    BY <1>0, <2>1
  <2> QED BY <2>1, <2>2, <2>3, PositionStep
<1>5. ASSUME NEW k \in NodeKeys, DonateToStakeVault(k)
      PROVE  StakeInv'
  <2>1. /\ stake_vault'[k] = stake_vault[k] + 1
        /\ stake_gift'[k] = stake_gift[k] + 1
        /\ \A j \in NodeKeys \ {k} : /\ stake_vault'[j] = stake_vault[j]
                                     /\ stake_gift'[j] = stake_gift[j]
        /\ UNCHANGED <<registry, node, position>>
    BY <1>5 DEF DonateToStakeVault, registryVars, TypeOK, StakingType
  <2>2. node[k].live => node'[k].stake_amount = position'[k].amount
    BY <2>1 DEF StakeInv, NodeStakeSynced, LiveNodes
  <2>3. /\ stake_vault'[k] = position'[k].amount + stake_gift'[k]
        /\ position'[k].unbonding_amount <= position'[k].amount
        /\ position'[k].amount > 0 =>
             registry.live /\ node[k].live /\ position'[k].live
    BY <1>0, <2>1
  <2> QED BY <2>1, <2>2, <2>3, PositionStep
<1> QED BY <1>1, <1>2, <1>3, <1>4, <1>5 DEF StakingNext

LEMMA DistributorKeepsStake ==
  TypeOK /\ StakeInv /\ DistributorNext => StakeInv'
<1> SUFFICES ASSUME TypeOK, StakeInv, DistributorNext PROVE StakeInv'
  OBVIOUS
<1> USE ConstantsAssumption
<1>1. ASSUME NEW n \in FundAmounts, FundRewardVault(n)
      PROVE  StakeInv'
  BY <1>1, StakeFrame DEF FundRewardVault, registryVars, stakingVars
<1>2. ASSUME NEW k \in NodeKeys, NEW n \in RewardAmounts, ClaimRewards(k, n)
      PROVE  StakeInv'
  BY <1>2, StakeFrame
     DEF ClaimRewards, stakingVars, TypeOK, RegistryType, NodeAccount
<1>3. ASSUME NEW e \in EpochIds, NEW s \in LeafSets, NEW n \in RewardAmounts,
             PostEpoch(e, s, n)
      PROVE  StakeInv'
  BY <1>3, StakeFrame DEF PostEpoch, registryVars, stakingVars
<1>4. ASSUME NEW e \in EpochIds, NEW leaf \in epoch_distribution[e].leaves,
             Claim(e, leaf[1], leaf[2])
      PROVE  StakeInv'
  BY <1>4, StakeFrame DEF Claim, registryVars, stakingVars
<1>5. ASSUME NEW e \in EpochIds, NEW k \in NodeKeys, NEW v \in Severities,
             NEW n \in StakeAmounts \cup {0}, Dispute(e, k, v, n)
      PROVE  StakeInv'
  <2> DEFINE taken == Slashed(position[k].amount, n)
             left  == position[k].amount - taken
  <2>0. /\ position[k].amount \in Nat /\ position[k].unbonding_amount \in Nat
        /\ stake_vault[k] \in Nat /\ stake_gift[k] \in Nat /\ n \in Nat
        /\ stake_vault[k] = position[k].amount + stake_gift[k]
        /\ position[k].unbonding_amount <= position[k].amount
    BY DEF TypeOK, StakingType, PositionAccount, StakeInv, StakeRecoverable
  <2>1. taken \in Nat /\ taken <= position[k].amount
    BY <2>0, SlashBounded, Zenon
  <2>2. /\ registry.live /\ node[k].live /\ position[k].live
        /\ UNCHANGED <<registry, stake_gift>>
        /\ stake_vault' = [stake_vault EXCEPT ![k] = @ - taken]
        /\ position' =
             IF taken > 0
             THEN [position EXCEPT ![k] =
                     [position[k] EXCEPT
                        !.amount = left,
                        !.unbonding_amount = Smaller(@, left)]]
             ELSE position
        /\ node' = [node EXCEPT ![k] =
             [node[k] EXCEPT
                !.stake_amount = IF taken > 0 THEN left ELSE @,
                !.reputation = IF v > 0 THEN Penalized(@, v) ELSE @]]
    BY <1>5 DEF Dispute
  <2> HIDE DEF taken
  <2>3. left \in Nat /\ (~(taken > 0) => left = position[k].amount)
    BY <2>0, <2>1
  <2> HIDE DEF left
  <2>4. /\ position'[k].live = position[k].live
        /\ position'[k].amount = left
        /\ position'[k].unbonding_amount
             = IF taken > 0 THEN Smaller(position[k].unbonding_amount, left)
                            ELSE position[k].unbonding_amount
    BY <2>2, <2>3 DEF TypeOK, StakingType, PositionAccount
  <2>5. /\ node'[k].live = node[k].live
        /\ node'[k].stake_amount = IF taken > 0 THEN left
                                   ELSE node[k].stake_amount
    BY <2>2 DEF TypeOK, RegistryType, NodeAccount
  <2>6. node'[k].stake_amount = left
    BY <2>2, <2>3, <2>5 DEF StakeInv, NodeStakeSynced, LiveNodes
  <2>7. stake_vault'[k] = left + stake_gift'[k]
    BY <2>0, <2>1, <2>2 DEF left, TypeOK, StakingType
  <2>8. position'[k].unbonding_amount <= left
    BY <2>0, <2>3, <2>4 DEF Smaller
  <2>9. \A j \in NodeKeys \ {k} :
          /\ node'[j] = node[j] /\ position'[j] = position[j]
          /\ stake_vault'[j] = stake_vault[j] /\ stake_gift'[j] = stake_gift[j]
    BY <2>2 DEF TypeOK, StakingType, RegistryType
  <2> QED BY <2>2, <2>4, <2>5, <2>6, <2>7, <2>8, <2>9, PositionStep
<1> QED BY <1>1, <1>2, <1>3, <1>4, <1>5 DEF DistributorNext

LEMMA EscrowKeepsStake == StakeInv /\ EscrowNext => StakeInv'
<1> SUFFICES ASSUME StakeInv, EscrowNext PROVE StakeInv'
  OBVIOUS
<1>1. UNCHANGED <<registryVars, stakingVars>>
  BY DEF EscrowNext, DepositEscrow, WithdrawEscrow, CloseEscrow, PayTraffic,
     PayTrafficFromEscrow, SettleFromEscrow, SpendFromEscrow,
     DonateToEscrowVault
<1> QED BY <1>1, StakeFrame DEF registryVars, stakingVars

\* The stake invariant holds of every reachable state.
LEMMA StakeInvariant == Spec => []StakeInv
<1>1. TypeOK /\ StakeInv /\ [Next]_vars => StakeInv'
  <2> SUFFICES ASSUME TypeOK, StakeInv, [Next]_vars PROVE StakeInv'
    OBVIOUS
  <2>1. CASE Tick
    BY <2>1, StakeFrame DEF Tick, registryVars, stakingVars
  <2>2. CASE UNCHANGED vars
    BY <2>2, StakeFrame DEF vars, registryVars, stakingVars
  <2> QED BY <2>1, <2>2, RegistryKeepsStake, StakingKeepsStake,
             DistributorKeepsStake, EscrowKeepsStake DEF Next
<1> QED BY <1>1, InitStake, TypeCorrect, PTL DEF Spec

\* A staker can always get at the stake: whatever is staked is in the vault
\* and the accounts that withdraw_unstaked needs exist, in any interleaving
\* of staking, disputes, deregistration, shutdown and re-initialisation.
THEOREM StakeAlwaysRecoverable == Spec => []StakeRecoverable
<1>1. StakeInv => StakeRecoverable
  BY DEF StakeInv
<1> QED BY <1>1, StakeInvariant, PTL

\* The NodeState's copy of the stake, which deregister_node and the
\* aggregator read, never drifts from the position.
THEOREM StakeCopyExact == Spec => []NodeStakeSynced
<1>1. StakeInv => NodeStakeSynced
  BY DEF StakeInv
<1> QED BY <1>1, StakeInvariant, PTL

\* node_count is the number of NodeState accounts, through every restart of
\* the core: shutdown_core never closes a core that still has a node.
THEOREM NodeCountCorrect == Spec => []NodeCountExact
<1>1. StakeInv => NodeCountExact
  BY DEF StakeInv
<1> QED BY <1>1, StakeInvariant, PTL

-----------------------------------------------------------------------------
(* Locks                                                                   *)

\* LockedStakeHeld is not inductive alone: request_unstake reads the one
\* locked_until of the position, so no stake may be pledged past it.
NothingPastTheLock ==
  \A k \in NodeKeys, t \in Expiries :
    pledged[k][t] > 0 => t <= position[k].locked_until
LockInv == NothingPastTheLock /\ LockedStakeHeld

Unexpired == {t \in Expiries : t > now}

LEMMA UnexpiredFinite == IsFiniteSet(Expiries) /\ IsFiniteSet(Unexpired)
<1>1. IsFiniteSet(Expiries)
  BY ConstantsAssumption, FS_Interval DEF Expiries
<1>2. Unexpired \in SUBSET Expiries
  BY DEF Unexpired
<1> QED BY <1>1, <1>2, FS_Subset

LEMMA LockedStakeNat ==
  ASSUME StakingType, NEW k \in NodeKeys
  PROVE  LockedStake(k) \in Nat
<1>1. \A t \in Unexpired : pledged[k][t] \in Nat
  BY DEF StakingType, Unexpired
<1> QED BY <1>1, UnexpiredFinite, SumIsNat DEF LockedStake, Unexpired

\* What an instruction on one position has to show.
LEMMA LockStep ==
  ASSUME LockInv, NEW k \in NodeKeys, now' = now,
         \A j \in NodeKeys \ {k} : /\ position'[j] = position[j]
                                   /\ pledged'[j] = pledged[j]
                                   /\ slashed'[j] = slashed[j],
         \A t \in Expiries :
           pledged'[k][t] > 0 => t <= position'[k].locked_until,
         SumFunctionOnSet(pledged'[k], Unexpired)
           <= position'[k].amount - position'[k].unbonding_amount + slashed'[k]
  PROVE  LockInv'
<1>1. NothingPastTheLock'
  BY DEF LockInv, NothingPastTheLock, Expiries
<1>2. ASSUME NEW j \in NodeKeys
      PROVE  LockedStake(j)'
               <= position'[j].amount - position'[j].unbonding_amount
                    + slashed'[j]
  <2>1. LockedStake(j)' = SumFunctionOnSet(pledged'[j], Unexpired)
    BY DEF LockedStake, Unexpired, Expiries
  <2>2. CASE j = k
    BY <2>1, <2>2
  <2>3. CASE j # k
    <3>1. LockedStake(j)' = LockedStake(j)
      BY <2>1, <2>3 DEF LockedStake, Unexpired
    <3> QED BY <2>3, <3>1 DEF LockInv, LockedStakeHeld
  <2> QED BY <2>2, <2>3
<1> QED BY <1>1, <1>2 DEF LockInv, LockedStakeHeld

\* What an instruction that touches no position preserves.
LEMMA LockFrame ==
  ASSUME LockInv, UNCHANGED <<now, position, pledged, slashed>>
  PROVE  LockInv'
<1>1. NothingPastTheLock'
  BY DEF LockInv, NothingPastTheLock, Expiries
<1>2. \A k \in NodeKeys : LockedStake(k)' = LockedStake(k)
  BY DEF LockedStake, Expiries
<1> QED BY <1>1, <1>2 DEF LockInv, LockedStakeHeld

LEMMA InitLock == Init => LockInv
<1> SUFFICES ASSUME Init PROVE LockInv
  OBVIOUS
<1>1. NothingPastTheLock
  BY DEF Init, NothingPastTheLock
<1>2. ASSUME NEW k \in NodeKeys
      PROVE  LockedStake(k) = 0
  <2>1. \A t \in Unexpired : pledged[k][t] = 0
    BY DEF Init, Unexpired
  <2> QED BY <2>1, UnexpiredFinite, SumOfZeros DEF LockedStake, Unexpired
<1>3. LockedStakeHeld
  BY <1>2 DEF Init, ZeroPosition, LockedStakeHeld
<1> QED BY <1>1, <1>3 DEF LockInv

\* As the clock advances, locks only expire.
LEMMA TickKeepsLock == TypeOK /\ LockInv /\ Tick => LockInv'
<1> SUFFICES ASSUME TypeOK, LockInv, Tick PROVE LockInv'
  OBVIOUS
<1>1. /\ UNCHANGED <<position, pledged, slashed>> /\ now' = now + 1
      /\ now \in Nat /\ StakingType
  BY DEF Tick, stakingVars, TypeOK
<1>2. NothingPastTheLock'
  BY <1>1 DEF LockInv, NothingPastTheLock, Expiries
<1>3. ASSUME NEW k \in NodeKeys
      PROVE  LockedStake(k)' <= LockedStake(k) /\ LockedStake(k)' \in Nat
  <2> DEFINE later == {t \in Expiries : t > now + 1}
  <2>1. later \in SUBSET Unexpired
    BY <1>1 DEF Unexpired, Expiries
  <2>2. \A t \in Unexpired : pledged[k][t] \in Nat
    BY <1>1 DEF StakingType, Unexpired
  <2>3. LockedStake(k)' = SumFunctionOnSet(pledged[k], later)
    BY <1>1 DEF LockedStake, Expiries
  <2> HIDE DEF later
  <2>4. SumFunctionOnSet(pledged[k], later)
          <= SumFunctionOnSet(pledged[k], Unexpired)
    BY <2>1, <2>2, UnexpiredFinite, SumOfSubset
  <2>5. IsFiniteSet(later) /\ \A t \in later : pledged[k][t] \in Nat
    BY <2>1, <2>2, UnexpiredFinite, FS_Subset
  <2>6. SumFunctionOnSet(pledged[k], later) \in Nat
    BY <2>5, SumIsNat
  <2> QED BY <2>3, <2>4, <2>6 DEF LockedStake, Unexpired
<1>4. ASSUME NEW k \in NodeKeys
      PROVE  LockedStake(k)' <= position[k].amount
                                  - position[k].unbonding_amount + slashed[k]
  <2>1. /\ position[k].amount \in Nat /\ position[k].unbonding_amount \in Nat
        /\ slashed[k] \in Nat
    BY <1>1 DEF StakingType, PositionAccount
  <2>2. LockedStake(k) <= position[k].amount
                            - position[k].unbonding_amount + slashed[k]
    BY DEF LockInv, LockedStakeHeld
  <2>3. LockedStake(k) \in Nat
    BY <1>1, LockedStakeNat
  <2> QED BY <1>3, <2>1, <2>2, <2>3
<1> QED BY <1>1, <1>2, <1>4 DEF LockInv, LockedStakeHeld

LEMMA StakingKeepsLock ==
  TypeOK /\ StakeInv /\ LockInv /\ StakingNext => LockInv'
<1> SUFFICES ASSUME TypeOK, StakeInv, LockInv, StakingNext PROVE LockInv'
  OBVIOUS
<1>0. \A k \in NodeKeys :
        /\ position[k] \in PositionAccount /\ position[k].amount \in Nat
        /\ position[k].unbonding_amount \in Nat
        /\ position[k].locked_until \in Nat /\ now \in Nat
        /\ pledged[k] \in [Expiries -> Nat] /\ slashed[k] \in Nat
        /\ position[k].unbonding_amount <= position[k].amount
        /\ SumFunctionOnSet(pledged[k], Unexpired)
             <= position[k].amount - position[k].unbonding_amount + slashed[k]
        /\ SumFunctionOnSet(pledged[k], Unexpired) \in Nat
        /\ \A t \in Expiries : pledged[k][t] > 0 => t <= position[k].locked_until
  <2> SUFFICES ASSUME NEW k \in NodeKeys
               PROVE  /\ SumFunctionOnSet(pledged[k], Unexpired)
                           <= position[k].amount
                                - position[k].unbonding_amount + slashed[k]
                      /\ SumFunctionOnSet(pledged[k], Unexpired) \in Nat
    BY DEF TypeOK, StakingType, PositionAccount, StakeInv, StakeRecoverable,
       LockInv, NothingPastTheLock
  <2>1. SumFunctionOnSet(pledged[k], Unexpired) = LockedStake(k)
    BY DEF LockedStake, Unexpired
  <2> QED BY <2>1, LockedStakeNat DEF TypeOK, LockInv, LockedStakeHeld
<1>1. ASSUME NEW k \in NodeKeys, NEW n \in StakeAmounts, NEW l \in Locks,
             Stake(k, n, l)
      PROVE  LockInv'
  <2> DEFINE pk == [position[k] EXCEPT
                       !.live = TRUE, !.amount = @ + n,
                       !.locked_until = LockAfterStake(k, l)]
             expiry == now + l
  <2>1. n \in Nat /\ l \in Nat /\ expiry \in Expiries
    BY ConstantsAssumption DEF TypeOK, Expiries
  <2>2. /\ position'[k].amount = position[k].amount + n
        /\ position'[k].unbonding_amount = position[k].unbonding_amount
        /\ position'[k].locked_until = Larger(position[k].locked_until, expiry)
    <3>1. position'[k] = pk
      BY <1>1, Zenon DEF Stake, TypeOK, StakingType
    <3>2. /\ pk.amount = position[k].amount + n
          /\ pk.unbonding_amount = position[k].unbonding_amount
          /\ pk.locked_until = LockAfterStake(k, l)
      BY <1>0, Zenon DEF PositionAccount
    <3> QED BY <3>1, <3>2 DEF LockAfterStake
  <2>3. /\ \A j \in NodeKeys \ {k} : /\ position'[j] = position[j]
                                     /\ pledged'[j] = pledged[j]
        /\ now' = now /\ slashed' = slashed
        /\ pledged'[k] = [pledged[k] EXCEPT ![expiry] = @ + n]
    BY <1>1 DEF Stake, TypeOK, StakingType
  <2> HIDE DEF expiry
  <2>4. /\ pledged'[k][expiry] = pledged[k][expiry] + n
        /\ \A t \in Expiries \ {expiry} : pledged'[k][t] = pledged[k][t]
        /\ \A t \in Expiries : pledged[k][t] \in Nat /\ pledged'[k][t] \in Nat
    <3>1. pledged[k] \in [Expiries -> Nat] /\ pledged[k][expiry] + n \in Nat
      BY <1>0, <2>1
    <3>2. pledged'[k] = [pledged[k] EXCEPT ![expiry] = pledged[k][expiry] + n]
      BY <2>3
    <3> QED BY <2>1, <3>1, <3>2
  <2>5. ASSUME NEW t \in Expiries, pledged'[k][t] > 0
        PROVE  t <= position'[k].locked_until
    <3>1. position[k].locked_until <= position'[k].locked_until
          /\ expiry <= position'[k].locked_until
          /\ position'[k].locked_until \in Nat
      BY <1>0, <2>1, <2>2 DEF Larger, Expiries
    <3>2. CASE t = expiry
      BY <3>1, <3>2
    <3>3. CASE t # expiry
      <4>1. t <= position[k].locked_until
        BY <1>0, <2>4, <2>5, <3>3
      <4> QED BY <1>0, <3>1, <4>1 DEF Expiries
    <3> QED BY <3>2, <3>3
  <2>6. SumFunctionOnSet(pledged'[k], Unexpired)
          <= SumFunctionOnSet(pledged[k], Unexpired) + n
    <3>1. \A t \in Unexpired : pledged[k][t] \in Int /\ pledged'[k][t] \in Int
      BY <2>4 DEF Unexpired
    <3>2. CASE expiry \in Unexpired
      <4>1. \A t \in Unexpired \ {expiry} : pledged[k][t] = pledged'[k][t]
        BY <2>4 DEF Unexpired
      <4>2. SumFunctionOnSet(pledged'[k], Unexpired)
              = SumFunctionOnSet(pledged[k], Unexpired) - pledged[k][expiry]
                  + pledged'[k][expiry]
        <5> DEFINE f == pledged[k]
                   g == pledged'[k]
        <5>1. \A t \in Unexpired : f[t] \in Int /\ g[t] \in Int
          BY <3>1
        <5>2. \A t \in Unexpired \ {expiry} : f[t] = g[t]
          BY <4>1
        <5>3. IsFiniteSet(Unexpired) /\ expiry \in Unexpired
          BY <3>2, UnexpiredFinite
        <5> HIDE DEF f, g
        <5>4. SumFunctionOnSet(g, Unexpired)
                = SumFunctionOnSet(f, Unexpired) - f[expiry] + g[expiry]
          BY <5>1, <5>2, <5>3, SumChanges
        <5> QED BY <5>4 DEF f, g
      <4>3. pledged[k][expiry] \in Nat
        BY <2>1, <2>4
      <4> QED BY <1>0, <2>1, <2>4, <4>2, <4>3
    <3>3. CASE expiry \notin Unexpired
      <4>1. \A t \in Unexpired : pledged'[k][t] \in Int
                                 /\ pledged'[k][t] = pledged[k][t]
        BY <2>4, <3>1, <3>3 DEF Unexpired
      <4>2. SumFunctionOnSet(pledged'[k], Unexpired)
              = SumFunctionOnSet(pledged[k], Unexpired)
        BY <4>1, UnexpiredFinite, SumAgrees
      <4> QED BY <1>0, <2>1, <4>2
    <3> QED BY <3>2, <3>3
  <2>7. SumFunctionOnSet(pledged'[k], Unexpired) \in Nat
    <3>1. \A t \in Unexpired : pledged'[k][t] \in Nat
      BY <2>4 DEF Unexpired
    <3> QED BY <3>1, UnexpiredFinite, SumIsNat
  <2>8. SumFunctionOnSet(pledged'[k], Unexpired)
          <= position'[k].amount - position'[k].unbonding_amount + slashed'[k]
    <3>1. slashed'[k] = slashed[k]
      BY <2>3
    <3> QED BY <1>0, <2>1, <2>2, <2>6, <2>7, <3>1
  <2>9. \A j \in NodeKeys \ {k} : slashed'[j] = slashed[j]
    BY <2>3
  <2> QED BY <2>3, <2>5, <2>8, <2>9, LockStep
<1>2. ASSUME NEW k \in NodeKeys, NEW n \in StakeAmounts, RequestUnstake(k, n)
      PROVE  LockInv'
  <2>1. /\ position'[k].amount = position[k].amount
        /\ position'[k].unbonding_amount = position[k].unbonding_amount + n
        /\ position'[k].locked_until = position[k].locked_until
        /\ \A j \in NodeKeys \ {k} : position'[j] = position[j]
    BY <1>2 DEF RequestUnstake, TypeOK, StakingType, PositionAccount
  <2>2. /\ n \in Nat /\ now >= position[k].locked_until
        /\ n <= position[k].amount - position[k].unbonding_amount
        /\ UNCHANGED <<now, pledged, slashed>>
    BY <1>2, ConstantsAssumption DEF RequestUnstake
  <2>3. \A t \in Unexpired : pledged'[k][t] = 0
    <3> SUFFICES ASSUME NEW t \in Unexpired PROVE pledged[k][t] = 0
      BY <2>2
    <3>1. t \in Expiries /\ t > now /\ t \in Nat /\ pledged[k][t] \in Nat
      <4>1. t \in Expiries /\ t > now
        BY DEF Unexpired
      <4> QED BY <1>0, <4>1, ConstantsAssumption DEF Expiries
    <3>2. ~(t <= position[k].locked_until)
      BY <1>0, <2>2, <3>1
    <3> QED BY <1>0, <3>1, <3>2
  <2>4. SumFunctionOnSet(pledged'[k], Unexpired) = 0
    BY <2>3, UnexpiredFinite, SumOfZeros
  <2>5. SumFunctionOnSet(pledged'[k], Unexpired)
          <= position'[k].amount - position'[k].unbonding_amount + slashed'[k]
    BY <1>0, <2>1, <2>2, <2>4
  <2>6. \A t \in Expiries :
          pledged'[k][t] > 0 => t <= position'[k].locked_until
    BY <1>0, <2>1, <2>2
  <2> QED BY <2>1, <2>2, <2>5, <2>6, LockStep
<1>3. ASSUME NEW k \in NodeKeys, WithdrawUnstaked(k)
      PROVE  LockInv'
  <2> DEFINE n == position[k].unbonding_amount
             pk == [position[k] EXCEPT !.amount = @ - n,
                                       !.unbonding_amount = 0]
  <2>1. /\ position'[k].amount = position[k].amount - n
        /\ position'[k].unbonding_amount = 0
        /\ position'[k].locked_until = position[k].locked_until
        /\ \A j \in NodeKeys \ {k} : position'[j] = position[j]
    <3>1. /\ position'[k] = pk
          /\ \A j \in NodeKeys \ {k} : position'[j] = position[j]
      BY <1>3, Zenon DEF WithdrawUnstaked, TypeOK, StakingType
    <3>2. /\ pk.amount = position[k].amount - n /\ pk.unbonding_amount = 0
          /\ pk.locked_until = position[k].locked_until
      BY <1>0, Zenon DEF PositionAccount
    <3> QED BY <3>1, <3>2
  <2>2. UNCHANGED <<now, pledged, slashed>>
    BY <1>3 DEF WithdrawUnstaked
  <2>3. SumFunctionOnSet(pledged'[k], Unexpired)
          <= position'[k].amount - position'[k].unbonding_amount + slashed'[k]
    <3>1. pledged'[k] = pledged[k] /\ slashed'[k] = slashed[k]
      BY <2>2
    <3> QED BY <1>0, <2>1, <3>1
  <2>4. \A t \in Expiries :
          pledged'[k][t] > 0 => t <= position'[k].locked_until
    BY <1>0, <2>1, <2>2
  <2> QED BY <2>1, <2>2, <2>3, <2>4, LockStep
<1>4. ASSUME NEW k \in NodeKeys, CloseEmptyStakePosition(k)
      PROVE  LockInv'
  <2>1. /\ position'[k].amount = 0 /\ position'[k].unbonding_amount = 0
        /\ slashed'[k] = 0 /\ now' = now
        /\ \A t \in Expiries : pledged'[k][t] = 0
        /\ \A j \in NodeKeys \ {k} : /\ position'[j] = position[j]
                                     /\ pledged'[j] = pledged[j]
                                     /\ slashed'[j] = slashed[j]
    BY <1>4 DEF CloseEmptyStakePosition, ZeroPosition, TypeOK, StakingType
  <2>2. \A t \in Unexpired : pledged'[k][t] = 0
    BY <2>1 DEF Unexpired
  <2>3. SumFunctionOnSet(pledged'[k], Unexpired) = 0
    BY <2>2, UnexpiredFinite, SumOfZeros
  <2>4. /\ SumFunctionOnSet(pledged'[k], Unexpired)
             <= position'[k].amount - position'[k].unbonding_amount
                  + slashed'[k]
        /\ \A t \in Expiries :
             pledged'[k][t] > 0 => t <= position'[k].locked_until
    BY <2>1, <2>3
  <2> QED BY <2>1, <2>4, LockStep
<1>5. ASSUME NEW k \in NodeKeys, DonateToStakeVault(k)
      PROVE  LockInv'
  BY <1>5, LockFrame DEF DonateToStakeVault
<1> QED BY <1>1, <1>2, <1>3, <1>4, <1>5 DEF StakingNext

LEMMA DistributorKeepsLock ==
  TypeOK /\ StakeInv /\ LockInv /\ DistributorNext => LockInv'
<1> SUFFICES ASSUME TypeOK, StakeInv, LockInv, DistributorNext PROVE LockInv'
  OBVIOUS
<1>1. ASSUME NEW n \in FundAmounts, FundRewardVault(n)
      PROVE  LockInv'
  BY <1>1, LockFrame DEF FundRewardVault, stakingVars
<1>2. ASSUME NEW k \in NodeKeys, NEW n \in RewardAmounts, ClaimRewards(k, n)
      PROVE  LockInv'
  BY <1>2, LockFrame DEF ClaimRewards, stakingVars
<1>3. ASSUME NEW e \in EpochIds, NEW s \in LeafSets, NEW n \in RewardAmounts,
             PostEpoch(e, s, n)
      PROVE  LockInv'
  BY <1>3, LockFrame DEF PostEpoch, stakingVars
<1>4. ASSUME NEW e \in EpochIds, NEW leaf \in epoch_distribution[e].leaves,
             Claim(e, leaf[1], leaf[2])
      PROVE  LockInv'
  BY <1>4, LockFrame DEF Claim, stakingVars
<1>5. ASSUME NEW e \in EpochIds, NEW k \in NodeKeys, NEW v \in Severities,
             NEW n \in StakeAmounts \cup {0}, Dispute(e, k, v, n)
      PROVE  LockInv'
  <2> DEFINE taken == Slashed(position[k].amount, n)
             left  == position[k].amount - taken
  <2>0. /\ position[k].amount \in Nat /\ position[k].unbonding_amount \in Nat
        /\ slashed[k] \in Nat /\ n \in Nat
        /\ position[k].unbonding_amount <= position[k].amount
        /\ SumFunctionOnSet(pledged[k], Unexpired)
             <= position[k].amount - position[k].unbonding_amount + slashed[k]
        /\ SumFunctionOnSet(pledged[k], Unexpired) \in Nat
    <3>1. SumFunctionOnSet(pledged[k], Unexpired) = LockedStake(k)
      BY DEF LockedStake, Unexpired
    <3>2. SumFunctionOnSet(pledged[k], Unexpired) \in Nat
      BY <3>1, LockedStakeNat DEF TypeOK
    <3>3. SumFunctionOnSet(pledged[k], Unexpired)
            <= position[k].amount - position[k].unbonding_amount + slashed[k]
      BY <3>1 DEF LockInv, LockedStakeHeld
    <3> QED BY <3>2, <3>3, ConstantsAssumption
            DEF TypeOK, StakingType, PositionAccount, StakeInv,
                StakeRecoverable
  <2>1. taken \in Nat /\ taken <= position[k].amount
    BY <2>0, SlashBounded, Zenon
  <2>2. /\ UNCHANGED <<now, pledged>>
        /\ slashed' = [slashed EXCEPT ![k] = @ + taken]
        /\ position' =
             IF taken > 0
             THEN [position EXCEPT ![k] =
                     [position[k] EXCEPT
                        !.amount = left,
                        !.unbonding_amount = Smaller(@, left)]]
             ELSE position
    BY <1>5 DEF Dispute
  <2> HIDE DEF taken
  <2>3. left \in Nat /\ left = position[k].amount - taken
    BY <2>0, <2>1
  <2> HIDE DEF left
  <2>4. /\ position'[k].locked_until = position[k].locked_until
        /\ position'[k].amount = IF taken > 0 THEN left ELSE position[k].amount
        /\ position'[k].unbonding_amount
             = IF taken > 0 THEN Smaller(position[k].unbonding_amount, left)
                            ELSE position[k].unbonding_amount
    BY <2>2, <2>3 DEF TypeOK, StakingType, PositionAccount
  <2>5. /\ slashed'[k] = slashed[k] + taken
        /\ \A j \in NodeKeys \ {k} : /\ position'[j] = position[j]
                                     /\ pledged'[j] = pledged[j]
                                     /\ slashed'[j] = slashed[j]
    BY <2>2 DEF TypeOK, StakingType
  <2>6. SumFunctionOnSet(pledged'[k], Unexpired)
          <= position'[k].amount - position'[k].unbonding_amount + slashed'[k]
    <3>1. pledged'[k] = pledged[k]
      BY <2>2
    <3> QED BY <2>0, <2>1, <2>3, <2>4, <2>5, <3>1 DEF Smaller
  <2>7. \A t \in Expiries :
          pledged'[k][t] > 0 => t <= position'[k].locked_until
    BY <2>2, <2>4 DEF LockInv, NothingPastTheLock
  <2> QED BY <2>2, <2>5, <2>6, <2>7, LockStep
<1> QED BY <1>1, <1>2, <1>3, <1>4, <1>5 DEF DistributorNext

\* Stake whose own lock has not expired is never in unbonding, whatever is
\* staked, requested, withdrawn, closed or slashed, in whatever order and with
\* whatever locks.
THEOREM StakeStaysLocked == Spec => []LockedStakeHeld
<1>1. TypeOK /\ StakeInv /\ LockInv /\ [Next]_vars => LockInv'
  <2> SUFFICES ASSUME TypeOK, StakeInv, LockInv, [Next]_vars PROVE LockInv'
    OBVIOUS
  <2>1. CASE Tick
    BY <2>1, TickKeepsLock
  <2>2. CASE RegistryNext
    <3>1. UNCHANGED <<now, position, pledged, slashed>>
      BY <2>2 DEF RegistryNext, InitializeCore, RegisterTree,
         ForeignMint, SetRegistryCollection, RegisterNode, UpdateNode,
         DeregisterNode, SetCoreAuthority, SetPaused, SetPosterAuthority,
         SetDisputeAuthority, ShutdownCore, stakingVars
    <3> QED BY <3>1, LockFrame
  <2>3. CASE StakingNext
    BY <2>3, StakingKeepsLock
  <2>4. CASE EscrowNext
    <3>1. UNCHANGED <<now, stakingVars>>
      BY <2>4 DEF EscrowNext, DepositEscrow, WithdrawEscrow, CloseEscrow,
         PayTraffic, PayTrafficFromEscrow, SettleFromEscrow, SpendFromEscrow,
         DonateToEscrowVault
    <3> QED BY <3>1, LockFrame DEF stakingVars
  <2>5. CASE DistributorNext
    BY <2>5, DistributorKeepsLock
  <2>6. CASE UNCHANGED vars
    BY <2>6, LockFrame DEF vars, stakingVars
  <2> QED BY <2>1, <2>2, <2>3, <2>4, <2>5, <2>6 DEF Next
<1>2. LockInv => LockedStakeHeld
  BY DEF LockInv
<1> QED BY <1>1, <1>2, InitLock, StakeInvariant, TypeCorrect, PTL DEF Spec

-----------------------------------------------------------------------------
(* Escrows                                                                 *)

\* What an instruction on one escrow has to show.
LEMMA EscrowStep ==
  ASSUME EscrowExact, TypeOK', NEW u \in Users,
         \A w \in Users \ {u} :
           /\ escrow'[w] = escrow[w] /\ escrow_vault'[w] = escrow_vault[w]
           /\ refunded'[w] = refunded[w] /\ escrow_gift'[w] = escrow_gift[w],
         escrow'[u].balance + escrow'[u].total_spent + refunded'[u]
           = escrow'[u].total_deposited,
         escrow_vault'[u] = escrow'[u].balance + escrow_gift'[u]
  PROVE  EscrowExact'
<1>1. ASSUME NEW w \in Users PROVE escrow_gift'[w] <= escrow_vault'[w]
  <2>1. escrow'[w].balance \in Nat /\ escrow_gift'[w] \in Nat
    BY DEF TypeOK, EscrowType, EscrowAccount
  <2>2. escrow_vault'[w] = escrow'[w].balance + escrow_gift'[w]
    BY DEF EscrowExact
  <2> QED BY <2>1, <2>2
<1> QED BY <1>1 DEF EscrowExact

LEMMA EscrowNextExact ==
  TypeOK /\ TypeOK' /\ EscrowExact /\ EscrowNext => EscrowExact'
<1> SUFFICES ASSUME TypeOK, TypeOK', EscrowExact, EscrowNext PROVE EscrowExact'
  OBVIOUS
<1> USE ConstantsAssumption
<1>0. \A u \in Users :
        /\ escrow[u].balance \in Nat /\ escrow[u].total_spent \in Nat
        /\ escrow[u].total_deposited \in Nat /\ refunded[u] \in Nat
        /\ escrow_vault[u] \in Nat /\ escrow_gift[u] \in Nat
        /\ escrow[u].balance + escrow[u].total_spent + refunded[u]
             = escrow[u].total_deposited
        /\ escrow_vault[u] = escrow[u].balance + escrow_gift[u]
  BY DEF TypeOK, EscrowType, EscrowAccount, EscrowExact
<1>1. ASSUME NEW u \in Users, NEW n \in EscrowAmounts, DepositEscrow(u, n)
      PROVE  EscrowExact'
  <2>1. /\ escrow'[u].balance = escrow[u].balance + n
        /\ escrow'[u].total_deposited = escrow[u].total_deposited + n
        /\ escrow'[u].total_spent = escrow[u].total_spent
        /\ escrow_vault'[u] = escrow_vault[u] + n
        /\ UNCHANGED <<refunded, escrow_gift>>
        /\ \A w \in Users \ {u} : /\ escrow'[w] = escrow[w]
                                  /\ escrow_vault'[w] = escrow_vault[w]
    BY <1>1 DEF DepositEscrow, TypeOK, EscrowType, EscrowAccount
  <2>2. n \in Nat
    OBVIOUS
  <2>3. /\ escrow'[u].balance + escrow'[u].total_spent + refunded'[u]
             = escrow'[u].total_deposited
        /\ escrow_vault'[u] = escrow'[u].balance + escrow_gift'[u]
    BY <1>0, <2>1, <2>2
  <2> QED BY <2>1, <2>3, EscrowStep
<1>2. ASSUME NEW u \in Users, NEW n \in EscrowAmounts, WithdrawEscrow(u, n)
      PROVE  EscrowExact'
  <2>1. /\ escrow'[u].balance = escrow[u].balance - n
        /\ escrow'[u].total_deposited = escrow[u].total_deposited
        /\ escrow'[u].total_spent = escrow[u].total_spent
        /\ escrow_vault'[u] = escrow_vault[u] - n
        /\ refunded'[u] = refunded[u] + n
        /\ UNCHANGED escrow_gift
        /\ \A w \in Users \ {u} : /\ escrow'[w] = escrow[w]
                                  /\ escrow_vault'[w] = escrow_vault[w]
                                  /\ refunded'[w] = refunded[w]
    BY <1>2 DEF WithdrawEscrow, TypeOK, EscrowType, EscrowAccount
  <2>2. n \in Nat
    OBVIOUS
  <2>3. /\ escrow'[u].balance + escrow'[u].total_spent + refunded'[u]
             = escrow'[u].total_deposited
        /\ escrow_vault'[u] = escrow'[u].balance + escrow_gift'[u]
    BY <1>0, <2>1, <2>2
  <2> QED BY <2>1, <2>3, EscrowStep
<1>3. ASSUME NEW u \in Users, CloseEscrow(u)
      PROVE  EscrowExact'
  <2>1. /\ escrow[u].balance = 0 /\ escrow_vault[u] = 0
        /\ escrow'[u] = ZeroEscrow /\ refunded'[u] = 0
        /\ UNCHANGED <<escrow_vault, escrow_gift>>
        /\ \A w \in Users \ {u} : /\ escrow'[w] = escrow[w]
                                  /\ refunded'[w] = refunded[w]
    BY <1>3 DEF CloseEscrow, TypeOK, EscrowType
  <2>2. /\ escrow'[u].balance + escrow'[u].total_spent + refunded'[u]
             = escrow'[u].total_deposited
        /\ escrow_vault'[u] = escrow'[u].balance + escrow_gift'[u]
    BY <1>0, <2>1 DEF ZeroEscrow
  <2> QED BY <2>1, <2>2, EscrowStep
<1>4. ASSUME NEW n \in EscrowAmounts, PayTraffic(n)
      PROVE  EscrowExact'
  BY <1>4 DEF PayTraffic, escrowVars, EscrowExact
<1>5. ASSUME NEW u \in Users, NEW n \in EscrowAmounts, SpendFromEscrow(u, n)
      PROVE  EscrowExact'
  <2>1. n \in Nat /\ SplitDebit(n) = n
    BY DebitIsAmount
  <2>2. /\ escrow'[u].balance = escrow[u].balance - n
        /\ escrow'[u].total_deposited = escrow[u].total_deposited
        /\ escrow'[u].total_spent = escrow[u].total_spent + n
        /\ escrow_vault'[u] = escrow_vault[u] - n
        /\ UNCHANGED <<refunded, escrow_gift>>
        /\ \A w \in Users \ {u} : /\ escrow'[w] = escrow[w]
                                  /\ escrow_vault'[w] = escrow_vault[w]
    BY <1>5, <2>1 DEF SpendFromEscrow, TypeOK, EscrowType, EscrowAccount
  <2>3. /\ escrow'[u].balance + escrow'[u].total_spent + refunded'[u]
             = escrow'[u].total_deposited
        /\ escrow_vault'[u] = escrow'[u].balance + escrow_gift'[u]
    BY <1>0, <2>1, <2>2
  <2> QED BY <2>2, <2>3, EscrowStep
<1>6. ASSUME NEW u \in Users, DonateToEscrowVault(u)
      PROVE  EscrowExact'
  <2>1. /\ escrow_vault'[u] = escrow_vault[u] + 1
        /\ escrow_gift'[u] = escrow_gift[u] + 1
        /\ UNCHANGED <<escrow, refunded>>
        /\ \A w \in Users \ {u} : /\ escrow_vault'[w] = escrow_vault[w]
                                  /\ escrow_gift'[w] = escrow_gift[w]
    BY <1>6 DEF DonateToEscrowVault, TypeOK, EscrowType
  <2>2. escrow_vault'[u] = escrow'[u].balance + escrow_gift'[u]
    BY <1>0, <2>1
  <2> QED BY <1>0, <2>1, <2>2, EscrowStep
<1> QED BY <1>1, <1>2, <1>3, <1>4, <1>5, <1>6
        DEF EscrowNext, PayTrafficFromEscrow, SettleFromEscrow

\* Every token of an escrow is accounted for: spent, given back, or in the
\* vault, to the last base unit, because split_payment loses nothing to
\* rounding (SplitExact).
THEOREM EscrowAlwaysExact == Spec => []EscrowExact
<1>1. Init => EscrowExact
  BY DEF Init, EscrowExact, ZeroEscrow
<1>2. TypeOK /\ TypeOK' /\ EscrowExact /\ [Next]_vars => EscrowExact'
  <2> SUFFICES ASSUME TypeOK, TypeOK', EscrowExact, [Next]_vars
               PROVE  EscrowExact'
    OBVIOUS
  <2>1. CASE RegistryNext \/ StakingNext \/ DistributorNext \/ Tick
              \/ UNCHANGED vars
    <3>1. UNCHANGED escrowVars
      <4>1. CASE RegistryNext
        BY <4>1 DEF RegistryNext, InitializeCore, RegisterTree,
           ForeignMint, SetRegistryCollection, RegisterNode, UpdateNode, DeregisterNode,
           SetCoreAuthority, SetPaused, SetPosterAuthority,
           SetDisputeAuthority, ShutdownCore
      <4>2. CASE StakingNext
        BY <4>2 DEF StakingNext, Stake, RequestUnstake, WithdrawUnstaked,
           CloseEmptyStakePosition, DonateToStakeVault
      <4>3. CASE DistributorNext
        <5>1. ASSUME NEW k, NEW n, ClaimRewards(k, n)
              PROVE  UNCHANGED escrowVars
          BY <5>1 DEF ClaimRewards
        <5>2. ASSUME NEW e, NEW k, NEW v, NEW n, Dispute(e, k, v, n)
              PROVE  UNCHANGED escrowVars
          BY <5>2 DEF Dispute
        <5>3. ASSUME NEW e, NEW k, NEW n, Claim(e, k, n)
              PROVE  UNCHANGED escrowVars
          BY <5>3 DEF Claim
        <5>4. ASSUME NEW e, NEW s, NEW n, PostEpoch(e, s, n)
              PROVE  UNCHANGED escrowVars
          BY <5>4 DEF PostEpoch
        <5>5. ASSUME NEW n, FundRewardVault(n)
              PROVE  UNCHANGED escrowVars
          BY <5>5 DEF FundRewardVault
        <5> QED BY <4>3, <5>1, <5>2, <5>3, <5>4, <5>5 DEF DistributorNext
      <4> QED BY <2>1, <4>1, <4>2, <4>3 DEF Tick, vars
    <3> QED BY <3>1 DEF escrowVars, EscrowExact
  <2>2. CASE EscrowNext
    BY <2>2, EscrowNextExact
  <2> QED BY <2>1, <2>2 DEF Next
<1> QED BY <1>1, <1>2, TypeCorrect, PTL DEF Spec

-----------------------------------------------------------------------------
(* What a NodeState says of its node                                       *)


\* The parts of the state the two invariants read.
SameIdentity ==
  /\ UNCHANGED <<shard, tree_leaves, tree_uses>>
  /\ \A k \in NodeKeys : /\ node'[k].live = node[k].live
                         /\ node'[k].merkle_tree = node[k].merkle_tree
                         /\ node'[k].leaf_nonce = node[k].leaf_nonce
SamePayouts ==
  /\ UNCHANGED <<reused, gasless_paid, attested>>
  /\ \A k \in NodeKeys : node'[k].withdrawn = node[k].withdrawn

\* These steps matter; every other one leaves both parts alone.
LEMMA Frame ==
  TypeOK /\ [Next]_vars =>
    \/ \E t \in Trees : RegisterTree(t) \/ ForeignMint(t)
    \/ \E k \in NodeKeys, i \in ShardIds, m \in Metas : RegisterNode(k, i, m)
    \/ \E k \in NodeKeys : DeregisterNode(k)
    \/ \E k \in NodeKeys, n \in RewardAmounts : ClaimRewards(k, n)
    \/ SameIdentity /\ SamePayouts
<1> SUFFICES ASSUME TypeOK, [Next]_vars,
                    ~ \E t \in Trees : RegisterTree(t) \/ ForeignMint(t),
                    ~ \E k \in NodeKeys, i \in ShardIds, m \in Metas :
                        RegisterNode(k, i, m),
                    ~ \E k \in NodeKeys : DeregisterNode(k),
                    ~ \E k \in NodeKeys, n \in RewardAmounts :
                        ClaimRewards(k, n)
             PROVE  SameIdentity /\ SamePayouts
  OBVIOUS
<1> USE DEF SameIdentity, SamePayouts, registryVars, rewardVars
<1>0. node \in [NodeKeys -> NodeAccount]
  BY DEF TypeOK, RegistryType
<1>1. CASE RegistryNext
  <2>1. ASSUME NEW k \in NodeKeys, NEW m \in Metas, UpdateNode(k, m)
        PROVE  SameIdentity /\ SamePayouts
    BY <1>0, <2>1 DEF UpdateNode, NodeAccount
  <2>2. ASSUME NEW a, NEW p, NEW d, NEW b, NEW w, InitializeCore(a, p, d, b, w)
        PROVE  SameIdentity /\ SamePayouts
    BY <2>2 DEF InitializeCore
  <2>3. ASSUME NEW a, \/ SetCoreAuthority(a) \/ SetPaused(a)
                      \/ SetPosterAuthority(a) \/ SetDisputeAuthority(a)
        PROVE  SameIdentity /\ SamePayouts
    BY <2>3 DEF SetCoreAuthority, SetPaused, SetPosterAuthority,
       SetDisputeAuthority
  <2>4. CASE SetRegistryCollection \/ ShutdownCore
    BY <2>4 DEF SetRegistryCollection, ShutdownCore
  <2> QED BY <1>1, <2>1, <2>2, <2>3, <2>4 DEF RegistryNext
<1>2. CASE StakingNext
  <2>1. ASSUME NEW k \in NodeKeys, NEW n, NEW l, Stake(k, n, l)
        PROVE  SameIdentity /\ SamePayouts
    BY <1>0, <2>1 DEF Stake, StakeCopied, NodeAccount
  <2>2. ASSUME NEW k \in NodeKeys, WithdrawUnstaked(k)
        PROVE  SameIdentity /\ SamePayouts
    BY <1>0, <2>2 DEF WithdrawUnstaked, StakeCopied, NodeAccount
  <2>3. ASSUME NEW k, NEW n, \/ RequestUnstake(k, n)
                             \/ CloseEmptyStakePosition(k)
                             \/ DonateToStakeVault(k)
        PROVE  SameIdentity /\ SamePayouts
    BY <2>3 DEF RequestUnstake, CloseEmptyStakePosition, DonateToStakeVault
  <2> QED BY <1>2, <2>1, <2>2, <2>3 DEF StakingNext
<1>3. CASE EscrowNext
  <2>1. UNCHANGED <<registryVars, gasless_paid, attested>>
    BY <1>3 DEF EscrowNext, DepositEscrow, WithdrawEscrow, CloseEscrow,
       PayTraffic, PayTrafficFromEscrow, SettleFromEscrow, SpendFromEscrow,
       CreditSplit, DonateToEscrowVault
  <2> QED BY <2>1
<1>4. CASE DistributorNext
  <2>1. ASSUME NEW e, NEW k \in NodeKeys, NEW v, NEW n, Dispute(e, k, v, n)
        PROVE  SameIdentity /\ SamePayouts
    <3> DEFINE taken == Slashed(position[k].amount, n)
               left  == position[k].amount - taken
    <3> HIDE DEF taken, left
    <3>1. /\ node' = [node EXCEPT ![k] =
               [node[k] EXCEPT
                  !.stake_amount = IF taken > 0 THEN left ELSE @,
                  !.reputation = IF v > 0 THEN Penalized(@, v) ELSE @]]
          /\ UNCHANGED <<shard, tree_leaves, tree_uses, reused, gasless_paid,
                         attested>>
      BY <2>1 DEF Dispute, taken, left
    <3> QED BY <1>0, <3>1 DEF NodeAccount
  <2>2. ASSUME NEW e, NEW k, NEW n, Claim(e, k, n)
        PROVE  SameIdentity /\ SamePayouts
    BY <2>2 DEF Claim
  <2>3. ASSUME NEW e, NEW s, NEW n, PostEpoch(e, s, n) \/ FundRewardVault(n)
        PROVE  SameIdentity /\ SamePayouts
    BY <2>3 DEF PostEpoch, FundRewardVault
  <2> QED BY <1>4, <2>1, <2>2, <2>3 DEF DistributorNext
<1>5. CASE Tick \/ UNCHANGED vars
  BY <1>5 DEF Tick, vars
<1> QED BY <1>1, <1>2, <1>3, <1>4, <1>5 DEF Next

-----------------------------------------------------------------------------
(* Asset ids                                                               *)

\* As long as a tree was registered once, its shard is the only one that
\* numbers its leaves: every live node of the tree has a number the shard
\* already passed, and the tree really has that many leaves, foreign ones
\* included.
ShardsCount ==
  /\ \A i \in ShardIds : shard[i].live =>
       /\ shard[i].merkle_tree \in Trees
       /\ tree_uses[shard[i].merkle_tree] > 0
       /\ tree_uses[shard[i].merkle_tree] = 1 =>
            /\ shard[i].minted <= tree_leaves[shard[i].merkle_tree]
            /\ \A j \in ShardIds \ {i} : shard[j].live =>
                 shard[j].merkle_tree # shard[i].merkle_tree
            /\ \A k \in LiveNodes :
                 node[k].merkle_tree = shard[i].merkle_tree =>
                   node[k].leaf_nonce < shard[i].minted
  /\ \A k \in LiveNodes : /\ node[k].merkle_tree \in Trees
                          /\ tree_uses[node[k].merkle_tree] > 0

AssetInv == ShardsCount /\ AssetIdsUnique

LEMMA AssetStep == TypeOK /\ AssetInv /\ [Next]_vars => AssetInv'
<1> SUFFICES ASSUME TypeOK, AssetInv, [Next]_vars PROVE AssetInv'
  OBVIOUS
<1> USE ConstantsAssumption DEF AssetInv
<1>0. /\ registry \in RegistryAccount /\ shard \in [ShardIds -> ShardAccount]
      /\ node \in [NodeKeys -> NodeAccount] /\ tree_leaves \in [Trees -> Nat]
      /\ tree_uses \in [Trees -> 0..2]
  BY DEF TypeOK, RegistryType
<1>1. ASSUME NEW t \in Trees, RegisterTree(t)
      PROVE  AssetInv'
  <2> DEFINE x == registry.tree_count
  <2>1. x \in ShardIds
    BY <1>0, <1>1 DEF RegisterTree, RegistryAccount, ShardIds
  <2> HIDE DEF x
  <2>2. /\ shard'[x].live /\ shard'[x].merkle_tree = t /\ shard'[x].minted = 0
        /\ \A j \in ShardIds \ {x} : shard'[j] = shard[j]
        /\ tree_uses'[t] = Smaller(tree_uses[t] + 1, 2)
        /\ \A s \in Trees \ {t} : tree_uses'[s] = tree_uses[s]
        /\ UNCHANGED <<node, tree_leaves>>
    BY <1>0, <1>1, <2>1 DEF RegisterTree, x
  <2>3. /\ tree_uses'[t] > 0
        /\ tree_uses'[t] = 1 => tree_uses[t] = 0
    BY <1>0, <2>2 DEF Smaller
  <2>4. LiveNodes' = LiveNodes
    BY <2>2 DEF LiveNodes
  <2>5. ShardsCount'
    <3>1. ASSUME NEW i \in ShardIds, shard'[i].live
          PROVE  /\ shard'[i].merkle_tree \in Trees
                 /\ tree_uses'[shard'[i].merkle_tree] > 0
                 /\ tree_uses'[shard'[i].merkle_tree] = 1 =>
                      /\ shard'[i].minted <= tree_leaves'[shard'[i].merkle_tree]
                      /\ \A j \in ShardIds \ {i} : shard'[j].live =>
                           shard'[j].merkle_tree # shard'[i].merkle_tree
                      /\ \A k \in LiveNodes' :
                           node'[k].merkle_tree = shard'[i].merkle_tree =>
                             node'[k].leaf_nonce < shard'[i].minted
      <4>1. CASE i = x
        BY <1>0, <2>2, <2>3, <2>4, <4>1 DEF ShardsCount
      <4>2. CASE i # x /\ shard[i].merkle_tree = t
        BY <2>2, <2>3, <3>1, <4>2 DEF ShardsCount
      <4>3. CASE i # x /\ shard[i].merkle_tree # t
        BY <2>2, <2>4, <3>1, <4>3 DEF ShardsCount
      <4> QED BY <4>1, <4>2, <4>3
    <3>2. \A k \in LiveNodes' : /\ node'[k].merkle_tree \in Trees
                                /\ tree_uses'[node'[k].merkle_tree] > 0
      BY <2>2, <2>3, <2>4 DEF ShardsCount
    <3> QED BY <3>1, <3>2 DEF ShardsCount
  <2>6. AssetIdsUnique'
    BY <2>2, <2>3, <2>4 DEF AssetIdsUnique, ShardsCount
  <2> QED BY <2>5, <2>6
<1>2. ASSUME NEW k \in NodeKeys, NEW i \in ShardIds, NEW m \in Metas,
             RegisterNode(k, i, m)
      PROVE  AssetInv'
  <2> DEFINE t == shard[i].merkle_tree
  <2>1. /\ shard[i].live /\ t = registry.active_tree /\ ~node[k].live
        /\ UNCHANGED tree_uses
    BY <1>2 DEF RegisterNode
  <2>2. t \in Trees /\ tree_uses[t] > 0
    BY <2>1 DEF ShardsCount
  <2>3. /\ node'[k].live /\ node'[k].merkle_tree = t
        /\ node'[k].leaf_nonce = shard[i].minted
        /\ \A j \in NodeKeys \ {k} : node'[j] = node[j]
    BY <1>0, <1>2, <2>1 DEF RegisterNode, LeafNonce
  <2>4. /\ tree_leaves'[t] = tree_leaves[t] + 1
        /\ \A s \in Trees \ {t} : tree_leaves'[s] = tree_leaves[s]
    BY <1>0, <1>2, <2>1, <2>2 DEF RegisterNode, MintLeaf
  <2>5. /\ shard'[i].live /\ shard'[i].merkle_tree = t
        /\ shard'[i].minted = shard[i].minted + 1
        /\ \A j \in ShardIds \ {i} : shard'[j] = shard[j]
    BY <1>0, <1>2, <2>1 DEF RegisterNode, ShardAccount
  <2>6. LiveNodes' = LiveNodes \cup {k} /\ k \notin LiveNodes
    BY <2>1, <2>3 DEF LiveNodes
  <2>7. /\ shard[i].minted \in Nat
        /\ \A s \in Trees : tree_leaves[s] \in Nat
        /\ \A j \in NodeKeys : node[j].leaf_nonce \in Nat
    BY <1>0 DEF ShardAccount, NodeAccount
  <2>8. \A j \in LiveNodes : j # k /\ node'[j] = node[j] /\ j \in NodeKeys
    BY <2>3, <2>6 DEF LiveNodes
  <2>9. tree_uses[t] = 1 =>
          /\ shard[i].minted <= tree_leaves[t]
          /\ \A j \in LiveNodes : node[j].merkle_tree = t =>
               node[j].leaf_nonce < shard[i].minted
    BY <2>1 DEF ShardsCount
  <2> HIDE DEF t
  <2>10. ShardsCount'
    <3>1. ASSUME NEW j \in ShardIds, shard'[j].live
          PROVE  /\ shard'[j].merkle_tree \in Trees
                 /\ tree_uses'[shard'[j].merkle_tree] > 0
                 /\ tree_uses'[shard'[j].merkle_tree] = 1 =>
                      /\ shard'[j].minted <= tree_leaves'[shard'[j].merkle_tree]
                      /\ \A h \in ShardIds \ {j} : shard'[h].live =>
                           shard'[h].merkle_tree # shard'[j].merkle_tree
                      /\ \A h \in LiveNodes' :
                           node'[h].merkle_tree = shard'[j].merkle_tree =>
                             node'[h].leaf_nonce < shard'[j].minted
      <4>1. CASE j = i
        <5>1. tree_uses'[t] = 1 =>
                /\ shard'[i].minted <= tree_leaves'[t]
                /\ \A h \in LiveNodes' : node'[h].merkle_tree = t =>
                     node'[h].leaf_nonce < shard'[i].minted
          BY <2>1, <2>2, <2>3, <2>4, <2>5, <2>6, <2>7, <2>8, <2>9
        <5>2. tree_uses'[t] = 1 =>
                \A h \in ShardIds \ {i} : shard'[h].live =>
                  shard'[h].merkle_tree # t
          BY <2>1, <2>5 DEF ShardsCount, t
        <5> QED BY <2>1, <2>2, <2>5, <4>1, <5>1, <5>2
      <4>2. CASE j # i /\ shard[j].merkle_tree = t
        BY <2>1, <2>2, <2>5, <3>1, <4>2 DEF ShardsCount, t
      <4>3. CASE j # i /\ shard[j].merkle_tree # t
        <5>1. /\ shard'[j] = shard[j] /\ shard[j].live
              /\ shard[j].merkle_tree \in Trees \ {t}
          BY <2>5, <3>1, <4>3 DEF ShardsCount
        <5>2. tree_leaves'[shard[j].merkle_tree] = tree_leaves[shard[j].merkle_tree]
          BY <2>4, <5>1
        <5>3. ASSUME NEW h \in LiveNodes',
                     node'[h].merkle_tree = shard[j].merkle_tree
              PROVE  h \in LiveNodes /\ node'[h] = node[h]
          BY <2>3, <2>6, <2>8, <5>1, <5>3
        <5>4. ASSUME NEW h \in ShardIds \ {j}, shard'[h].live,
                     shard'[h].merkle_tree = shard[j].merkle_tree
              PROVE  h # i /\ shard'[h] = shard[h]
          BY <2>5, <5>1, <5>4
        <5> QED BY <2>1, <5>1, <5>2, <5>3, <5>4 DEF ShardsCount
      <4> QED BY <4>1, <4>2, <4>3
    <3>2. \A j \in LiveNodes' : /\ node'[j].merkle_tree \in Trees
                                /\ tree_uses'[node'[j].merkle_tree] > 0
      BY <2>1, <2>2, <2>3, <2>6, <2>8 DEF ShardsCount
    <3> QED BY <3>1, <3>2 DEF ShardsCount
  <2>11. AssetIdsUnique'
    <3>1. ASSUME NEW j \in LiveNodes, tree_uses'[node'[j].merkle_tree] = 1
          PROVE  /\ node'[j].leaf_nonce < tree_leaves'[node'[j].merkle_tree]
                 /\ \A h \in LiveNodes' \ {j} :
                      node'[h].merkle_tree = node'[j].merkle_tree =>
                        node'[h].leaf_nonce # node'[j].leaf_nonce
      <4>1. j # k /\ node'[j] = node[j] /\ j \in NodeKeys
        BY <2>8
      <4>2. node[j].leaf_nonce < tree_leaves[node[j].merkle_tree]
        BY <2>1, <3>1, <4>1 DEF AssetIdsUnique
      <4>3. node[j].merkle_tree \in Trees
        BY DEF ShardsCount
      <4>4. node'[j].leaf_nonce < tree_leaves'[node'[j].merkle_tree]
        BY <2>2, <2>4, <2>7, <4>1, <4>2, <4>3
      <4>5. ASSUME NEW h \in LiveNodes' \ {j},
                   node'[h].merkle_tree = node'[j].merkle_tree
            PROVE  node'[h].leaf_nonce # node'[j].leaf_nonce
        <5>1. CASE h = k
          BY <2>1, <2>3, <2>7, <2>9, <3>1, <4>1, <4>5, <5>1
        <5>2. CASE h # k
          BY <2>1, <2>6, <2>8, <3>1, <4>1, <4>5, <5>2 DEF AssetIdsUnique
        <5> QED BY <5>1, <5>2
      <4> QED BY <4>4, <4>5
    <3>2. ASSUME tree_uses'[node'[k].merkle_tree] = 1
          PROVE  /\ node'[k].leaf_nonce < tree_leaves'[node'[k].merkle_tree]
                 /\ \A h \in LiveNodes' \ {k} :
                      node'[h].merkle_tree = node'[k].merkle_tree =>
                        node'[h].leaf_nonce # node'[k].leaf_nonce
      <4>1. tree_uses[t] = 1
        BY <2>1, <2>3, <3>2
      <4>2. node'[k].leaf_nonce < tree_leaves'[node'[k].merkle_tree]
        BY <2>2, <2>3, <2>4, <2>7, <2>9, <4>1
      <4>3. ASSUME NEW h \in LiveNodes' \ {k},
                   node'[h].merkle_tree = node'[k].merkle_tree
            PROVE  node'[h].leaf_nonce # node'[k].leaf_nonce
        BY <2>3, <2>6, <2>7, <2>8, <2>9, <4>1, <4>3
      <4> QED BY <4>2, <4>3
    <3> QED BY <2>6, <3>1, <3>2 DEF AssetIdsUnique
  <2> QED BY <2>10, <2>11
<1>3. ASSUME NEW k \in NodeKeys, DeregisterNode(k)
      PROVE  AssetInv'
  <2>1. /\ ~node'[k].live
        /\ \A j \in NodeKeys \ {k} : node'[j] = node[j]
        /\ UNCHANGED <<shard, tree_leaves, tree_uses>>
    BY <1>0, <1>3 DEF DeregisterNode, ZeroNode
  <2>2. LiveNodes' \subseteq LiveNodes \ {k}
    BY <2>1 DEF LiveNodes
  <2>3. \A j \in LiveNodes' : node'[j] = node[j] /\ j \in LiveNodes
    BY <2>1, <2>2 DEF LiveNodes
  <2> QED BY <2>1, <2>3 DEF ShardsCount, AssetIdsUnique
<1>4. CASE SameIdentity
  <2>1. LiveNodes' = LiveNodes
    BY <1>4 DEF SameIdentity, LiveNodes
  <2>2. LiveNodes \subseteq NodeKeys
    BY DEF LiveNodes
  <2>3. ShardsCount'
    BY <1>4, <2>1, <2>2 DEF SameIdentity, ShardsCount
  <2>4. AssetIdsUnique'
    BY <1>4, <2>1, <2>2 DEF SameIdentity, AssetIdsUnique
  <2> QED BY <2>3, <2>4
<1>5. ASSUME NEW k \in NodeKeys, NEW n \in RewardAmounts, ClaimRewards(k, n)
      PROVE  SameIdentity
  BY <1>0, <1>5 DEF ClaimRewards, SameIdentity, NodeAccount
<1>6. ASSUME NEW t \in Trees, ForeignMint(t)
      PROVE  AssetInv'
  <2>1. /\ UNCHANGED <<shard, node, tree_uses>>
        /\ tree_leaves'[t] = tree_leaves[t] + 1
        /\ \A s \in Trees \ {t} : tree_leaves'[s] = tree_leaves[s]
    BY <1>0, <1>6 DEF ForeignMint
  <2>2. LiveNodes' = LiveNodes /\ LiveNodes \subseteq NodeKeys
    BY <2>1 DEF LiveNodes
  <2>3. \A s \in Trees : /\ tree_leaves[s] \in Nat
                         /\ tree_leaves'[s] \in Nat
                         /\ tree_leaves[s] <= tree_leaves'[s]
    BY <1>0, <2>1
  <2>4. /\ \A i \in ShardIds : shard[i].minted \in Nat
        /\ \A k \in NodeKeys : node[k].leaf_nonce \in Nat
    BY <1>0 DEF ShardAccount, NodeAccount
  <2>5. ShardsCount'
    BY <2>1, <2>2, <2>3, <2>4 DEF ShardsCount
  <2>6. AssetIdsUnique'
    BY <2>1, <2>2, <2>3, <2>4 DEF AssetIdsUnique, ShardsCount
  <2> QED BY <2>5, <2>6
<1> QED BY <1>1, <1>2, <1>3, <1>4, <1>5, <1>6, Frame

\* While no tree is registered twice, the (tree, nonce) a live NodeState
\* stores names a leaf that exists and no other node's: through registrations
\* in several shards, re-registrations, new cores and foreign leaves.
THEOREM AssetIdsAlwaysUnique == Spec => []AssetIdsUnique
<1>1. Init => AssetInv
  BY DEF Init, AssetInv, ShardsCount, AssetIdsUnique, LiveNodes, ZeroShard,
     ZeroNode
<1>2. AssetInv => AssetIdsUnique
  BY DEF AssetInv
<1> QED BY <1>1, <1>2, AssetStep, TypeCorrect, PTL DEF Spec

-----------------------------------------------------------------------------
(* The gasless rail                                                        *)

\* A NodeState that does not exist has withdrawn nothing, so registering
\* again starts from zero: exact for a node key never closed before.
GaslessInv ==
  /\ GaslessExactUntilReused
  /\ \A k \in NodeKeys : ~node[k].live => node[k].withdrawn = 0

LEMMA GaslessStep == TypeOK /\ GaslessInv /\ [Next]_vars => GaslessInv'
<1> SUFFICES ASSUME TypeOK, GaslessInv, [Next]_vars PROVE GaslessInv'
  OBVIOUS
<1> USE ConstantsAssumption DEF GaslessInv, GaslessExactUntilReused
<1>0. /\ node \in [NodeKeys -> NodeAccount]
      /\ \A k \in NodeKeys : node[k].withdrawn \in Nat
      /\ gasless_paid \in [NodeKeys -> Nat] /\ attested \in [NodeKeys -> Nat]
  BY DEF TypeOK, RegistryType, RewardType, NodeAccount
<1>1. ASSUME NEW t \in Trees, RegisterTree(t) \/ ForeignMint(t)
      PROVE  GaslessInv'
  BY <1>1 DEF RegisterTree, ForeignMint, rewardVars
<1>2. ASSUME NEW k \in NodeKeys, NEW i \in ShardIds, NEW m \in Metas,
             RegisterNode(k, i, m)
      PROVE  GaslessInv'
  <2>1. /\ ~node[k].live /\ node'[k].live /\ node'[k].withdrawn = 0
        /\ \A j \in NodeKeys \ {k} : node'[j] = node[j]
        /\ UNCHANGED <<reused, gasless_paid, attested>>
    BY <1>0, <1>2 DEF RegisterNode, rewardVars
  <2> QED BY <2>1
<1>3. ASSUME NEW k \in NodeKeys, DeregisterNode(k)
      PROVE  GaslessInv'
  <2>1. /\ node'[k].withdrawn = 0 /\ k \in reused'
        /\ \A j \in NodeKeys \ {k} : node'[j] = node[j]
        /\ reused \subseteq reused'
        /\ UNCHANGED <<gasless_paid, attested>>
    BY <1>0, <1>3 DEF DeregisterNode, ZeroNode, rewardVars
  <2> QED BY <2>1
<1>4. ASSUME NEW k \in NodeKeys, NEW n \in RewardAmounts, ClaimRewards(k, n)
      PROVE  GaslessInv'
  <2>1. /\ node'[k].withdrawn = n /\ node[k].live /\ node'[k].live
        /\ gasless_paid'[k] = gasless_paid[k] + (n - node[k].withdrawn)
        /\ attested'[k] = Larger(attested[k], n)
        /\ \A j \in NodeKeys \ {k} : /\ node'[j] = node[j]
                                     /\ gasless_paid'[j] = gasless_paid[j]
                                     /\ attested'[j] = attested[j]
        /\ UNCHANGED reused
    BY <1>0, <1>4 DEF ClaimRewards, Payout, NodeAccount
  <2>2. k \notin reused => gasless_paid'[k] = n /\ n <= attested'[k]
    BY <1>0, <2>1 DEF Larger
  <2> QED BY <2>1, <2>2
<1>5. CASE SameIdentity /\ SamePayouts
  BY <1>5 DEF SameIdentity, SamePayouts
<1> QED BY <1>1, <1>2, <1>3, <1>4, <1>5, Frame

\* Until a node's NodeState is closed, replayed, stale or reordered
\* attestations never make the gasless rail pay it more than was attested.
THEOREM GaslessAlwaysExact == Spec => []GaslessExactUntilReused
<1>1. Init => GaslessInv
  BY DEF Init, GaslessInv, GaslessExactUntilReused, ZeroNode
<1>2. GaslessInv => GaslessExactUntilReused
  BY DEF GaslessInv
<1> QED BY <1>1, <1>2, GaslessStep, TypeCorrect, PTL DEF Spec

-----------------------------------------------------------------------------
(* The admin keys                                                          *)

\* A step that keeps every authority keeps their agreement.
LEMMA SameKeys ==
  ASSUME AuthoritiesAgree,
         registry'.authority = registry.authority,
         staking_config' = staking_config,
         distributor'.authority = distributor.authority,
         distributor'.dispute_authority = distributor.dispute_authority
  PROVE  AuthoritiesAgree'
BY DEF AuthoritiesAgree

\* However the admin keys are rotated, and across shutdowns and new cores,
\* one key stays admin of all three core accounts and the key that disputes
\* is the key that slashes: neither set of instructions is ever locked out.
THEOREM AuthoritiesAlwaysAgree == Spec => []AuthoritiesAgree
<1>1. Init => AuthoritiesAgree
  BY DEF Init, AuthoritiesAgree, ZeroRegistry, ZeroStakingConfig,
     ZeroDistributor
<1>2. TypeOK /\ AuthoritiesAgree /\ [Next]_vars => AuthoritiesAgree'
  <2> SUFFICES ASSUME TypeOK, AuthoritiesAgree, [Next]_vars
               PROVE  AuthoritiesAgree'
    OBVIOUS
  <2>0. /\ registry \in RegistryAccount /\ distributor \in DistributorAccount
        /\ staking_config \in StakingConfigAccount
    BY DEF TypeOK, RegistryType, StakingType, RewardType
  <2>1. CASE RegistryNext
    <3>1. ASSUME NEW a, NEW p, NEW d, NEW b, NEW w,
                 InitializeCore(a, p, d, b, w)
          PROVE  AuthoritiesAgree'
      BY <3>1 DEF InitializeCore, AuthoritiesAgree, ZeroRegistry,
         ZeroDistributor
    <3>2. ASSUME NEW a, SetCoreAuthority(a)
          PROVE  AuthoritiesAgree'
      BY <2>0, <3>2 DEF SetCoreAuthority, AuthoritiesAgree, RegistryAccount,
         DistributorAccount, StakingConfigAccount
    <3>3. ASSUME NEW a, SetDisputeAuthority(a)
          PROVE  AuthoritiesAgree'
      BY <2>0, <3>3 DEF SetDisputeAuthority, AuthoritiesAgree, registryVars,
         DistributorAccount, StakingConfigAccount
    <3>4. ASSUME NEW a, SetPosterAuthority(a)
          PROVE  AuthoritiesAgree'
      BY <2>0, <3>4, SameKeys DEF SetPosterAuthority, registryVars, stakingVars,
         DistributorAccount
    <3>5. ASSUME NEW p, SetPaused(p)
          PROVE  AuthoritiesAgree'
      BY <2>0, <3>5, SameKeys DEF SetPaused, RegistryAccount, stakingVars,
         rewardVars
    <3>6. CASE ShutdownCore
      BY <3>6 DEF ShutdownCore, AuthoritiesAgree, ZeroRegistry,
         ZeroStakingConfig, ZeroDistributor
    <3>7. ASSUME NEW t \in Trees, RegisterTree(t) \/ ForeignMint(t)
          PROVE  AuthoritiesAgree'
      BY <2>0, <3>7, SameKeys DEF RegisterTree, ForeignMint, RegistryAccount,
         stakingVars, rewardVars
    <3>8. CASE SetRegistryCollection
      BY <2>0, <3>8, SameKeys DEF SetRegistryCollection, RegistryAccount,
         stakingVars, rewardVars
    <3>9. ASSUME NEW k, NEW i, NEW m,
                 RegisterNode(k, i, m) \/ UpdateNode(k, m) \/ DeregisterNode(k)
          PROVE  AuthoritiesAgree'
      BY <2>0, <3>9, SameKeys DEF RegisterNode, UpdateNode, DeregisterNode,
         RegistryAccount, stakingVars, rewardVars
    <3> QED BY <2>1, <3>1, <3>2, <3>3, <3>4, <3>5, <3>6, <3>7, <3>8, <3>9
            DEF RegistryNext
  <2>2. CASE StakingNext
    BY <2>2, SameKeys DEF StakingNext, Stake, RequestUnstake,
       WithdrawUnstaked, CloseEmptyStakePosition, DonateToStakeVault,
       registryVars, rewardVars
  <2>3. CASE EscrowNext \/ Tick \/ UNCHANGED vars
    <3>1. UNCHANGED <<registry, staking_config>>
          /\ distributor' = distributor
      BY <2>3 DEF EscrowNext, DepositEscrow, WithdrawEscrow, CloseEscrow,
         PayTraffic, PayTrafficFromEscrow, SettleFromEscrow, SpendFromEscrow,
         CreditSplit, DonateToEscrowVault, Tick, vars, registryVars,
         stakingVars, rewardVars
    <3> QED BY <3>1, SameKeys
  <2>4. CASE DistributorNext
    <3>1. ASSUME NEW k, NEW n, ClaimRewards(k, n)
          PROVE  AuthoritiesAgree'
      BY <2>0, <3>1, SameKeys DEF ClaimRewards, DistributorAccount, stakingVars
    <3>2. ASSUME NEW e, NEW k, NEW v, NEW n, Dispute(e, k, v, n)
          PROVE  AuthoritiesAgree'
      BY <3>2, SameKeys DEF Dispute
    <3>3. ASSUME NEW e, NEW k, NEW n, Claim(e, k, n)
          PROVE  AuthoritiesAgree'
      BY <2>0, <3>3, SameKeys DEF Claim, DistributorAccount, registryVars,
         stakingVars
    <3>4. ASSUME NEW e, NEW s, NEW n, PostEpoch(e, s, n) \/ FundRewardVault(n)
          PROVE  AuthoritiesAgree'
      BY <2>0, <3>4, SameKeys DEF PostEpoch, FundRewardVault,
         DistributorAccount, registryVars, stakingVars
    <3> QED BY <2>4, <3>1, <3>2, <3>3, <3>4 DEF DistributorNext
  <2> QED BY <2>1, <2>2, <2>3, <2>4 DEF Next
<1> QED BY <1>1, <1>2, TypeCorrect, PTL DEF Spec
=============================================================================
