--------------------------- MODULE WeftTypeProofs ---------------------------
(***************************************************************************)
(* For every value of the constants: the protocol arithmetic (split, slash *)
(* and penalty), and with it the type correctness of the Weft program.     *)
(* TypeOK says more than its name: amounts are natural numbers, so no      *)
(* instruction overdraws an account, a vault or a counter.                 *)
(***************************************************************************)
EXTENDS WeftProgram, TLAPS

-----------------------------------------------------------------------------
(* What the protocol arithmetic guarantees for every amount                *)

\* A basis-point share rounded down: never negative, never more than the
\* whole when the rate is at most 100%, and less than one unit below the
\* exact share.
LEMMA BpsShare ==
  ASSUME NEW amount \in Nat, NEW bps \in 0..BPS
  PROVE  /\ (amount * bps) \div BPS \in Nat
         /\ (amount * bps) \div BPS <= amount
         /\ BPS * ((amount * bps) \div BPS) <= amount * bps
         /\ amount * bps < BPS * ((amount * bps) \div BPS) + BPS
<1> DEFINE p == amount * bps
<1>1. p \in Nat
  BY DEF BPS
<1>2. p <= amount * BPS
  BY DEF BPS
<1>3. p \div BPS \in Nat /\ BPS * (p \div BPS) <= p
        /\ p < BPS * (p \div BPS) + BPS
  <2> HIDE DEF p
  <2> QED BY <1>1 DEF BPS
<1>4. p \div BPS <= amount
  <2> DEFINE q == p \div BPS
  <2>1. q \in Nat /\ BPS * q <= p
    BY <1>3
  <2> HIDE DEF p, q
  <2>2. BPS * q <= amount * BPS
    BY <1>1, <1>2, <2>1 DEF BPS
  <2>3. q <= amount
    BY <2>1, <2>2 DEF BPS
  <2> QED BY <2>3 DEF q
<1> QED BY <1>3, <1>4

\* split_payment: the three parts are amounts, and add up to the payment to
\* the last base unit (the promise of weft-primitives/src/lib.rs:237).
THEOREM SplitExact ==
  ASSUME NEW amount \in Nat
  PROVE  LET s == SplitPayment(amount) IN
         /\ s.nodes \in Nat /\ s.burn \in Nat /\ s.treasury \in Nat
         /\ s.nodes + s.treasury + s.burn = amount
<1> DEFINE nodes == (amount * SPLIT_NODES_BPS) \div BPS
           burn  == (amount * SPLIT_BURN_BPS) \div BPS
<1>0. SPLIT_NODES_BPS \in 0..BPS /\ SPLIT_BURN_BPS \in 0..BPS
  BY DEF SPLIT_NODES_BPS, SPLIT_BURN_BPS, BPS
<1>1. nodes \in Nat /\ BPS * nodes <= amount * SPLIT_NODES_BPS
  BY <1>0, BpsShare
<1>2. burn \in Nat /\ BPS * burn <= amount * SPLIT_BURN_BPS
  BY <1>0, BpsShare
<1>3. nodes + burn <= amount
  <2> HIDE DEF nodes, burn
  <2> QED BY <1>1, <1>2 DEF SPLIT_NODES_BPS, SPLIT_BURN_BPS, BPS
<1>4. amount - nodes - burn \in Nat
  <2> HIDE DEF nodes, burn
  <2> QED BY <1>1, <1>2, <1>3
<1> QED BY <1>1, <1>2, <1>4 DEF SplitPayment

\* One dispute takes at most a quarter of the position and never more than
\* it asked for, so repeated disputes cannot take the stake of a position of
\* one to three base units at all.
THEOREM SlashBounded ==
  ASSUME NEW staked \in Nat, NEW wanted \in Nat
  PROVE  /\ Slashed(staked, wanted) \in Nat
         /\ Slashed(staked, wanted) <= staked
         /\ Slashed(staked, wanted) <= wanted
         /\ 4 * Slashed(staked, wanted) <= staked
<1>0. MAX_SLASH_BPS \in 0..BPS
  BY DEF MAX_SLASH_BPS, BPS
<1>1. /\ (staked * MAX_SLASH_BPS) \div BPS \in Nat
      /\ BPS * ((staked * MAX_SLASH_BPS) \div BPS) <= staked * MAX_SLASH_BPS
  BY <1>0, BpsShare
<1> DEFINE cap == (staked * MAX_SLASH_BPS) \div BPS
<1>2. 4 * cap <= staked
  <2> HIDE DEF cap
  <2> SUFFICES cap \in Nat /\ BPS * cap <= staked * MAX_SLASH_BPS
               => 4 * cap <= staked
    BY <1>1 DEF cap
  <2> QED BY DEF MAX_SLASH_BPS, BPS
<1> HIDE DEF cap
<1>3. cap \in Nat
  BY <1>1 DEF cap
<1>4. Slashed(staked, wanted) = Smaller(Smaller(wanted, staked), cap)
  BY DEF Slashed, cap
<1> QED BY <1>2, <1>3, <1>4 DEF Smaller

\* A dispute never lowers a reputation below the floor and never raises one
\* that is above it.
THEOREM PenaltyBounded ==
  ASSUME NEW reputation \in Nat, NEW severity \in Nat
  PROVE  /\ Penalized(reputation, severity) \in Nat
         /\ Penalized(reputation, severity) >= REPUTATION_MIN_BPS
         /\ reputation >= REPUTATION_MIN_BPS
              => Penalized(reputation, severity) <= reputation
<1> DEFINE half == Smaller(severity, BPS) \div 2
<1>1. half \in Nat
  BY DEF Smaller, BPS
<1> HIDE DEF half
<1>2. Penalized(reputation, severity)
        = Larger(SaturatingSub(reputation, half), REPUTATION_MIN_BPS)
  BY DEF Penalized, half
<1> QED BY <1>1, <1>2 DEF Larger, SaturatingSub, REPUTATION_MIN_BPS

-----------------------------------------------------------------------------
(* Types                                                                   *)

LEMMA DebitIsAmount ==
  ASSUME NEW amount \in Nat
  PROVE  SplitDebit(amount) = amount
BY SplitExact DEF SplitDebit

LEMMA InitType == Init => TypeOK
<1> SUFFICES ASSUME Init PROVE TypeOK
  OBVIOUS
<1> USE ConstantsAssumption DEF RegistryAccount, ShardAccount, NodeAccount,
       StakingConfigAccount, PositionAccount, EscrowAccount,
       DistributorAccount, EpochAccount, ClaimAccount
<1>1. RegistryType
  BY DEF Init, RegistryType, ZeroRegistry, ZeroShard, ZeroNode
<1>2. StakingType
  BY DEF Init, StakingType, ZeroStakingConfig, ZeroPosition
<1>3. EscrowType
  BY DEF Init, EscrowType, ZeroEscrow
<1>4. RewardType
  BY DEF Init, RewardType, ZeroDistributor, ZeroEpoch, ZeroClaim
<1> QED BY <1>1, <1>2, <1>3, <1>4 DEF Init, TypeOK

LEMMA RegistryStepType == TypeOK /\ RegistryNext => TypeOK'
<1> SUFFICES ASSUME TypeOK, RegistryNext PROVE TypeOK'
  OBVIOUS
<1> USE ConstantsAssumption DEF TypeOK
<1>1. ASSUME NEW a \in Keys, NEW p \in Keys, NEW d \in Keys,
             NEW b \in Unbondings, NEW w \in Windows,
             InitializeCore(a, p, d, b, w)
      PROVE  TypeOK'
  <2>1. RegistryType'
    BY <1>1
       DEF InitializeCore, RegistryType, RegistryAccount, ShardAccount,
           NodeAccount, ZeroRegistry
  <2>2. StakingType'
    BY <1>1
       DEF InitializeCore, StakingType, StakingConfigAccount, PositionAccount
  <2>3. RewardType'
    BY <1>1
       DEF InitializeCore, RewardType, DistributorAccount, EpochAccount,
           ClaimAccount, ZeroDistributor
  <2> QED BY <1>1, <2>1, <2>2, <2>3
             DEF InitializeCore, EscrowType, escrowVars, tokenVars
<1>2. ASSUME NEW t \in Trees, RegisterTree(t)
      PROVE  TypeOK'
  <2>1. RegistryType'
    <3>1. registry.tree_count \in ShardIds /\ TreeCapacity[t] \in Nat
      BY <1>2 DEF RegisterTree, RegistryType, RegistryAccount, ShardIds
    <3>2. [live |-> TRUE, merkle_tree |-> t, minted |-> 0,
           capacity |-> TreeCapacity[t], full |-> FALSE] \in ShardAccount
      BY <3>1 DEF ShardAccount
    <3>3. [registry EXCEPT !.active_tree = t, !.tree_count = @ + 1]
            \in RegistryAccount
      <4>1. registry \in RegistryAccount /\ registry.tree_count + 1 \in Nat
        BY DEF RegistryType, RegistryAccount
      <4> QED BY <4>1, Zenon DEF RegistryAccount
    <3>4. Smaller(tree_uses[t] + 1, 2) \in 0..2
      BY DEF RegistryType, Smaller
    <3> QED BY <1>2, <3>1, <3>2, <3>3, <3>4 DEF RegisterTree, RegistryType
  <2> QED BY <1>2, <2>1
             DEF RegisterTree, StakingType, stakingVars, EscrowType,
                 escrowVars, RewardType, rewardVars, tokenVars
<1>3. ASSUME SetRegistryCollection
      PROVE  TypeOK'
  <2>1. RegistryType'
    BY <1>3
       DEF SetRegistryCollection, RegistryType, RegistryAccount,
           ShardAccount, NodeAccount
  <2> QED BY <1>3, <2>1
             DEF SetRegistryCollection, StakingType, stakingVars, EscrowType,
                 escrowVars, RewardType, rewardVars, tokenVars
<1>4. ASSUME NEW k \in NodeKeys, NEW i \in ShardIds, NEW m \in Metas,
             RegisterNode(k, i, m)
      PROVE  TypeOK'
  <2>1. RegistryType'
    <3>1. /\ shard[i] \in ShardAccount
          /\ registry \in RegistryAccount
      BY DEF RegistryType
    <3>2. [live |-> TRUE, meta |-> m, reputation |-> BPS,
           stake_amount |-> 0, sequence |-> registry.node_sequence + 1,
           merkle_tree |-> registry.active_tree,
           leaf_nonce |-> LeafNonce(i), withdrawn |-> 0] \in NodeAccount
      BY <3>1 DEF NodeAccount, ShardAccount, RegistryAccount, LeafNonce, BPS
    <3>3. [shard[i] EXCEPT !.minted = @ + 1,
                           !.full = shard[i].minted + 1 >= shard[i].capacity]
            \in ShardAccount
      <4>1. /\ shard[i].minted + 1 \in Nat
            /\ (shard[i].minted + 1 >= shard[i].capacity) \in BOOLEAN
        BY <3>1 DEF ShardAccount
      <4> QED BY <3>1, <4>1, Zenon DEF ShardAccount
    <3>4. [registry EXCEPT !.node_sequence = @ + 1, !.node_count = @ + 1]
            \in RegistryAccount
      <4>1. registry.node_sequence + 1 \in Nat /\ registry.node_count + 1 \in Nat
        BY <3>1 DEF RegistryAccount
      <4> QED BY <3>1, <4>1, Zenon DEF RegistryAccount
    <3>5. tree_leaves' \in [Trees -> Nat]
      <4>1. tree_leaves' = [tree_leaves EXCEPT ![registry.active_tree] = @ + 1]
        BY <1>4 DEF RegisterNode, MintLeaf
      <4>2. \A t \in Trees : tree_leaves[t] \in Nat /\ tree_leaves[t] + 1 \in Nat
        BY DEF RegistryType
      <4> QED BY <4>1, <4>2 DEF RegistryType
    <3> QED BY <1>4, <3>2, <3>3, <3>4, <3>5 DEF RegisterNode, RegistryType
  <2> QED BY <1>4, <2>1
             DEF RegisterNode, StakingType, stakingVars, EscrowType,
                 escrowVars, RewardType, rewardVars, tokenVars
<1>5. ASSUME NEW k \in NodeKeys, NEW m \in Metas, UpdateNode(k, m)
      PROVE  TypeOK'
  <2>1. RegistryType'
    BY <1>5
       DEF UpdateNode, RegistryType, RegistryAccount, ShardAccount,
           NodeAccount
  <2> QED BY <1>5, <2>1
             DEF UpdateNode, StakingType, stakingVars, EscrowType,
                 escrowVars, RewardType, rewardVars, tokenVars
<1>6. ASSUME NEW k \in NodeKeys, DeregisterNode(k)
      PROVE  TypeOK'
  <2>1. RegistryType'
    <3>1. [registry EXCEPT !.node_count = NodeCountAfterDeregister]
            \in RegistryAccount
      <4>1. /\ registry \in RegistryAccount
            /\ NodeCountAfterDeregister \in Nat
        BY DEF RegistryType, RegistryAccount, NodeCountAfterDeregister,
           SaturatingSub
      <4> QED BY <4>1, Zenon DEF RegistryAccount
    <3>2. ZeroNode \in NodeAccount
      BY DEF ZeroNode, NodeAccount
    <3> QED BY <1>6, <3>1, <3>2 DEF DeregisterNode, RegistryType
  <2> QED BY <1>6, <2>1
             DEF DeregisterNode, StakingType, stakingVars, EscrowType,
                 escrowVars, RewardType, rewardVars, tokenVars
<1>7. ASSUME NEW a \in Keys, SetCoreAuthority(a)
      PROVE  TypeOK'
  <2>1. RegistryType'
    BY <1>7
       DEF SetCoreAuthority, RegistryType, RegistryAccount, ShardAccount,
           NodeAccount
  <2>2. StakingType'
    BY <1>7
       DEF SetCoreAuthority, StakingType, StakingConfigAccount,
           PositionAccount
  <2>3. RewardType'
    BY <1>7
       DEF SetCoreAuthority, RewardType, DistributorAccount, EpochAccount,
           ClaimAccount
  <2> QED BY <1>7, <2>1, <2>2, <2>3
             DEF SetCoreAuthority, EscrowType, escrowVars, tokenVars
<1>8. ASSUME NEW p \in BOOLEAN, SetPaused(p)
      PROVE  TypeOK'
  <2>1. RegistryType'
    BY <1>8
       DEF SetPaused, RegistryType, RegistryAccount, ShardAccount,
           NodeAccount
  <2> QED BY <1>8, <2>1
             DEF SetPaused, StakingType, stakingVars, EscrowType, escrowVars,
                 RewardType, rewardVars, tokenVars
<1>9. ASSUME NEW a \in Keys, SetPosterAuthority(a)
      PROVE  TypeOK'
  <2>1. RewardType'
    BY <1>9
       DEF SetPosterAuthority, RewardType, DistributorAccount, EpochAccount,
           ClaimAccount
  <2> QED BY <1>9, <2>1
             DEF SetPosterAuthority, RegistryType, registryVars, StakingType,
                 stakingVars, EscrowType, escrowVars, tokenVars
<1>10. ASSUME NEW a \in Keys, SetDisputeAuthority(a)
      PROVE  TypeOK'
  <2>1. StakingType'
    BY <1>10
       DEF SetDisputeAuthority, StakingType, StakingConfigAccount,
           PositionAccount
  <2>2. RewardType'
    BY <1>10
       DEF SetDisputeAuthority, RewardType, DistributorAccount, EpochAccount,
           ClaimAccount
  <2> QED BY <1>10, <2>1, <2>2
             DEF SetDisputeAuthority, RegistryType, registryVars, EscrowType,
                 escrowVars, tokenVars
<1>11. ASSUME ShutdownCore
      PROVE  TypeOK'
  <2>1. RegistryType'
    BY <1>11
       DEF ShutdownCore, RegistryType, RegistryAccount, ShardAccount,
           NodeAccount, ZeroRegistry
  <2>2. StakingType'
    BY <1>11
       DEF ShutdownCore, StakingType, StakingConfigAccount, PositionAccount,
           ZeroStakingConfig
  <2>3. RewardType'
    BY <1>11
       DEF ShutdownCore, RewardType, DistributorAccount, EpochAccount,
           ClaimAccount, ZeroDistributor
  <2> QED BY <1>11, <2>1, <2>2, <2>3
             DEF ShutdownCore, EscrowType, escrowVars, tokenVars
<1>12. ASSUME NEW t \in Trees, ForeignMint(t)
       PROVE  TypeOK'
  <2>1. RegistryType'
    <3>1. \A s \in Trees : tree_leaves[s] \in Nat /\ tree_leaves[s] + 1 \in Nat
      BY DEF RegistryType
    <3>2. tree_leaves' \in [Trees -> Nat]
      BY <1>12, <3>1 DEF ForeignMint, RegistryType
    <3> QED BY <1>12, <3>2 DEF ForeignMint, RegistryType
  <2> QED BY <1>12, <2>1
             DEF ForeignMint, StakingType, stakingVars, EscrowType,
                 escrowVars, RewardType, rewardVars, tokenVars
<1> QED BY <1>1, <1>2, <1>3, <1>4, <1>5, <1>6, <1>7, <1>8, <1>9, <1>10, <1>11,
           <1>12
        DEF RegistryNext

LEMMA StakingStepType == TypeOK /\ StakingNext => TypeOK'
<1> SUFFICES ASSUME TypeOK, StakingNext PROVE TypeOK'
  OBVIOUS
<1> USE ConstantsAssumption DEF TypeOK
<1>1. ASSUME NEW k \in NodeKeys, NEW n \in StakeAmounts, NEW l \in Locks,
             Stake(k, n, l)
      PROVE  TypeOK'
  <2>1. RegistryType'
    <3>1. node[k] \in NodeAccount /\ position[k] \in PositionAccount
      BY DEF RegistryType, StakingType
    <3>2. [node[k] EXCEPT !.stake_amount = position[k].amount + n] \in NodeAccount
      BY <1>1, <3>1 DEF Stake, NodeAccount, PositionAccount
    <3>3. node' = [node EXCEPT ![k] = [node[k] EXCEPT !.stake_amount = position[k].amount + n]]
      BY <1>1 DEF Stake, StakeCopied
    <3> QED BY <1>1, <3>2, <3>3 DEF Stake, RegistryType
  <2>2. StakingType'
    <3>1. position[k] \in PositionAccount
      BY DEF StakingType
    <3>2. [position[k] EXCEPT !.live = TRUE, !.amount = @ + n,
                              !.locked_until = LockAfterStake(k, l)]
            \in PositionAccount
      <4>1. position[k].amount + n \in Nat /\ LockAfterStake(k, l) \in Nat
        BY <3>1 DEF PositionAccount, LockAfterStake, Larger
      <4> QED BY <3>1, <4>1, Zenon DEF PositionAccount
    <3>3. position' \in [NodeKeys -> PositionAccount]
      BY <1>1, <3>2 DEF Stake, StakingType
    <3>4. pledged' \in [NodeKeys -> [Expiries -> Nat]]
      <4>1. pledged' = [pledged EXCEPT ![k] =
                          [pledged[k] EXCEPT ![now + l] = @ + n]]
        BY <1>1 DEF Stake
      <4>2. /\ pledged[k] \in [Expiries -> Nat]
            /\ \A t \in Expiries : pledged[k][t] + n \in Nat
        BY DEF StakingType
      <4>3. [pledged[k] EXCEPT ![now + l] = @ + n] \in [Expiries -> Nat]
        <5> DEFINE f == pledged[k]
                   x == now + l
        <5> HIDE DEF f, x
        <5>1. [f EXCEPT ![x] = f[x] + n] \in [Expiries -> Nat]
          BY <4>2 DEF f
        <5> QED BY <5>1 DEF f, x
      <4> QED BY <4>1, <4>3 DEF StakingType
    <3> QED BY <1>1, <3>3, <3>4 DEF Stake, StakingType
  <2> QED BY <1>1, <2>1, <2>2
             DEF Stake, EscrowType, escrowVars, RewardType, rewardVars
<1>2. ASSUME NEW k \in NodeKeys, NEW n \in StakeAmounts, RequestUnstake(k, n)
      PROVE  TypeOK'
  <2>1. StakingType'
    <3>1. position[k] \in PositionAccount /\ staking_config.unbonding_seconds \in Nat
      BY DEF StakingType, StakingConfigAccount
    <3>2. [position[k] EXCEPT !.unbonding_amount = @ + n,
                              !.unbonding_until =
                                now + staking_config.unbonding_seconds]
            \in PositionAccount
      <4>1. /\ position[k].unbonding_amount + n \in Nat
            /\ now + staking_config.unbonding_seconds \in Nat
        BY <3>1 DEF PositionAccount
      <4> QED BY <3>1, <4>1, Zenon DEF PositionAccount
    <3> QED BY <1>2, <3>2 DEF RequestUnstake, StakingType
  <2> QED BY <1>2, <2>1
             DEF RequestUnstake, RegistryType, registryVars, EscrowType,
                 escrowVars, RewardType, rewardVars, tokenVars
<1>3. ASSUME NEW k \in NodeKeys, WithdrawUnstaked(k)
      PROVE  TypeOK'
  <2>1. RegistryType'
    <3>1. node[k] \in NodeAccount /\ position[k] \in PositionAccount
      BY DEF RegistryType, StakingType
    <3>2. [node[k] EXCEPT !.stake_amount = position[k].amount - position[k].unbonding_amount] \in NodeAccount
      BY <1>3, <3>1 DEF WithdrawUnstaked, NodeAccount, PositionAccount
    <3>3. node' = [node EXCEPT ![k] = [node[k] EXCEPT !.stake_amount = position[k].amount - position[k].unbonding_amount]]
      BY <1>3 DEF WithdrawUnstaked, StakeCopied
    <3> QED BY <1>3, <3>2, <3>3 DEF WithdrawUnstaked, RegistryType
  <2>2. StakingType'
    <3>1. position[k] \in PositionAccount /\ stake_vault[k] \in Nat
      BY DEF StakingType
    <3>2. [position[k] EXCEPT !.amount = @ - position[k].unbonding_amount,
                              !.unbonding_amount = 0] \in PositionAccount
      <4>1. position[k].amount - position[k].unbonding_amount \in Nat
        BY <1>3, <3>1 DEF WithdrawUnstaked, PositionAccount
      <4> QED BY <3>1, <4>1, Zenon DEF PositionAccount
    <3>3. stake_vault[k] - position[k].unbonding_amount \in Nat
      BY <1>3, <3>1 DEF WithdrawUnstaked, PositionAccount
    <3> QED BY <1>3, <3>2, <3>3 DEF WithdrawUnstaked, StakingType
  <2> QED BY <1>3, <2>1, <2>2
             DEF WithdrawUnstaked, EscrowType, escrowVars, RewardType,
                 rewardVars, StakingType, PositionAccount
<1>4. ASSUME NEW k \in NodeKeys, CloseEmptyStakePosition(k)
      PROVE  TypeOK'
  <2>1. StakingType'
    BY <1>4
       DEF CloseEmptyStakePosition, StakingType, StakingConfigAccount,
           PositionAccount, ZeroPosition
  <2> QED BY <1>4, <2>1
             DEF CloseEmptyStakePosition, RegistryType, registryVars,
                 EscrowType, escrowVars, RewardType, rewardVars, tokenVars
<1>5. ASSUME NEW k \in NodeKeys, DonateToStakeVault(k)
      PROVE  TypeOK'
  <2>1. StakingType'
    BY <1>5
       DEF DonateToStakeVault, StakingType, StakingConfigAccount,
           PositionAccount
  <2> QED BY <1>5, <2>1
             DEF DonateToStakeVault, RegistryType, registryVars, EscrowType,
                 escrowVars, RewardType, rewardVars
<1> QED BY <1>1, <1>2, <1>3, <1>4, <1>5
        DEF StakingNext

\* The credit side of every payment keeps the vault, the wallets and the
\* burn total natural numbers.
LEMMA CreditType ==
  ASSUME TypeOK, NEW amount \in Nat, NEW wallets0 \in Nat,
         CreditSplit(amount, wallets0)
  PROVE  RewardType' /\ wallets' \in Nat /\ burned' \in Nat
<1> DEFINE s == SplitPayment(amount)
<1>1. s.nodes \in Nat /\ s.burn \in Nat /\ s.treasury \in Nat
  BY SplitExact
<1>2. /\ reward_vault' = reward_vault + s.nodes
      /\ wallets' = wallets0 + s.treasury
      /\ burned' = burned + s.burn
      /\ UNCHANGED <<distributor, epoch_distribution, claim_status,
                     gasless_paid, attested>>
  BY DEF CreditSplit
<1> HIDE DEF s
<1> QED BY <1>1, <1>2 DEF TypeOK, RewardType

LEMMA EscrowStepType == TypeOK /\ EscrowNext => TypeOK'
<1> SUFFICES ASSUME TypeOK, EscrowNext PROVE TypeOK'
  OBVIOUS
<1> USE ConstantsAssumption DEF TypeOK
<1>1. ASSUME NEW u \in Users, NEW n \in EscrowAmounts, DepositEscrow(u, n)
      PROVE  TypeOK'
  <2>1. EscrowType'
    <3>1. [escrow[u] EXCEPT !.live = TRUE, !.balance = @ + n,
                            !.total_deposited = @ + n] \in EscrowAccount
      <4>1. /\ escrow[u] \in EscrowAccount /\ escrow[u].balance + n \in Nat
            /\ escrow[u].total_deposited + n \in Nat
        BY DEF EscrowType, EscrowAccount
      <4> QED BY <4>1, Zenon DEF EscrowAccount
    <3> QED BY <1>1, <3>1 DEF DepositEscrow, EscrowType
  <2> QED BY <1>1, <2>1
             DEF DepositEscrow, RegistryType, registryVars, StakingType,
                 stakingVars, RewardType, rewardVars, EscrowType
<1>2. ASSUME NEW u \in Users, NEW n \in EscrowAmounts, WithdrawEscrow(u, n)
      PROVE  TypeOK'
  <2>1. EscrowType'
    BY <1>2 DEF WithdrawEscrow, EscrowType, EscrowAccount, Covered
  <2> QED BY <1>2, <2>1
             DEF WithdrawEscrow, RegistryType, registryVars, StakingType,
                 stakingVars, RewardType, rewardVars
<1>3. ASSUME NEW u \in Users, CloseEscrow(u)
      PROVE  TypeOK'
  <2>1. EscrowType'
    BY <1>3 DEF CloseEscrow, EscrowType, EscrowAccount, ZeroEscrow
  <2> QED BY <1>3, <2>1
             DEF CloseEscrow, RegistryType, registryVars, StakingType,
                 stakingVars, RewardType, rewardVars, tokenVars
<1>4. ASSUME NEW n \in EscrowAmounts, PayTraffic(n)
      PROVE  TypeOK'
  <2>1. n \in Nat /\ SplitDebit(n) = n
    BY DebitIsAmount
  <2>2. wallets - n \in Nat
    BY <1>4, <2>1 DEF PayTraffic
  <2>3. CreditSplit(n, wallets - n)
    BY <1>4, <2>1 DEF PayTraffic
  <2>4. RewardType' /\ wallets' \in Nat /\ burned' \in Nat
    BY <2>1, <2>2, <2>3, CreditType
  <2> QED BY <1>4, <2>4 DEF PayTraffic, RegistryType, registryVars,
             StakingType, stakingVars, EscrowType, escrowVars
<1>5. ASSUME NEW u \in Users, NEW n \in EscrowAmounts, SpendFromEscrow(u, n)
      PROVE  TypeOK'
  <2>1. n \in Nat /\ SplitDebit(n) = n
    BY DebitIsAmount
  <2>2. RewardType' /\ wallets' \in Nat /\ burned' \in Nat
    BY <1>5, <2>1, CreditType DEF SpendFromEscrow
  <2>3. EscrowType'
    <3>1. escrow[u] \in EscrowAccount
      BY DEF EscrowType
    <3>2. [escrow[u] EXCEPT !.balance = @ - n, !.total_spent = @ + n]
            \in EscrowAccount
      <4>1. /\ escrow[u].balance - n \in Nat
            /\ escrow[u].total_spent + n \in Nat
        BY <1>5, <2>1, <3>1 DEF SpendFromEscrow, Covered, EscrowAccount
      <4> QED BY <3>1, <4>1, Zenon DEF EscrowAccount
    <3> QED BY <1>5, <2>1, <3>2 DEF SpendFromEscrow, EscrowType
  <2> QED BY <1>5, <2>2, <2>3 DEF SpendFromEscrow, RegistryType,
             registryVars, StakingType, stakingVars
<1>6. ASSUME NEW u \in Users, DonateToEscrowVault(u)
      PROVE  TypeOK'
  <2>1. EscrowType'
    BY <1>6 DEF DonateToEscrowVault, EscrowType, EscrowAccount
  <2> QED BY <1>6, <2>1
             DEF DonateToEscrowVault, RegistryType, registryVars,
                 StakingType, stakingVars, RewardType, rewardVars
<1> QED BY <1>1, <1>2, <1>3, <1>4, <1>5, <1>6
        DEF EscrowNext, PayTrafficFromEscrow, SettleFromEscrow

LEMMA DistributorStepType == TypeOK /\ DistributorNext => TypeOK'
<1> SUFFICES ASSUME TypeOK, DistributorNext PROVE TypeOK'
  OBVIOUS
<1> USE ConstantsAssumption DEF TypeOK
<1>1. ASSUME NEW n \in FundAmounts, FundRewardVault(n)
      PROVE  TypeOK'
  <2>1. RewardType'
    BY <1>1
       DEF FundRewardVault, RewardType, DistributorAccount, EpochAccount,
           ClaimAccount
  <2> QED BY <1>1, <2>1
             DEF FundRewardVault, RegistryType, registryVars, StakingType,
                 stakingVars, EscrowType, escrowVars
<1>2. ASSUME NEW k \in NodeKeys, NEW n \in RewardAmounts, ClaimRewards(k, n)
      PROVE  TypeOK'
  <2>1. RegistryType'
    <3>1. [node[k] EXCEPT !.withdrawn = n] \in NodeAccount
      <4>1. node[k] \in NodeAccount /\ n \in Nat
        BY DEF RegistryType
      <4> QED BY <4>1, Zenon DEF NodeAccount
    <3>2. node' = [node EXCEPT ![k] = [node[k] EXCEPT !.withdrawn = n]]
      BY <1>2 DEF ClaimRewards
    <3> QED BY <1>2, <3>1, <3>2 DEF ClaimRewards, RegistryType
  <2>2. RewardType'
    <3> DEFINE payout == Payout(k, n)
    <3>1. payout \in Nat /\ reward_vault - payout \in Nat
      BY <1>2 DEF ClaimRewards, Payout, RegistryType, NodeAccount, RewardType
    <3>2. [distributor EXCEPT !.cumulative_claimed = @ + payout]
            \in DistributorAccount
      <4>1. /\ distributor \in DistributorAccount
            /\ distributor.cumulative_claimed + payout \in Nat
        BY <3>1 DEF RewardType, DistributorAccount
      <4> QED BY <4>1, Zenon DEF DistributorAccount
    <3>3. Larger(attested[k], n) \in Nat
      BY DEF RewardType, Larger
    <3> HIDE DEF payout
    <3>4. /\ distributor' = [distributor EXCEPT !.cumulative_claimed = @ + payout]
          /\ reward_vault' = reward_vault - payout
          /\ gasless_paid' = [gasless_paid EXCEPT ![k] = @ + payout]
          /\ attested' = [attested EXCEPT ![k] = Larger(@, n)]
          /\ UNCHANGED <<epoch_distribution, claim_status>>
      BY <1>2 DEF ClaimRewards, payout
    <3> QED BY <3>1, <3>2, <3>3, <3>4 DEF RewardType
  <2> QED BY <1>2, <2>1, <2>2
             DEF ClaimRewards, StakingType, stakingVars, EscrowType,
                 escrowVars, RegistryType, NodeAccount, RewardType, Payout
<1>3. ASSUME NEW e \in EpochIds, NEW s \in LeafSets, NEW n \in RewardAmounts,
             PostEpoch(e, s, n)
      PROVE  TypeOK'
  <2>1. RewardType'
    <3>1. [live |-> TRUE, leaves |-> s, total_reward |-> n,
           total_claimed |-> 0, posted_at |-> now] \in EpochAccount
      BY DEF EpochAccount
    <3>2. [distributor EXCEPT !.cumulative_obligated = @ + n,
                              !.current_epoch = e] \in DistributorAccount
      <4>1. /\ distributor \in DistributorAccount /\ e \in Nat
            /\ distributor.cumulative_obligated + n \in Nat
        BY DEF RewardType, DistributorAccount
      <4> QED BY <4>1, Zenon DEF DistributorAccount
    <3> QED BY <1>3, <3>1, <3>2 DEF PostEpoch, RewardType
  <2> QED BY <1>3, <2>1
             DEF PostEpoch, RegistryType, registryVars, StakingType,
                 stakingVars, EscrowType, escrowVars, tokenVars
<1>4. ASSUME NEW e \in EpochIds, NEW leaf \in epoch_distribution[e].leaves,
             Claim(e, leaf[1], leaf[2])
      PROVE  TypeOK'
  <2>1. leaf[1] \in NodeKeys /\ leaf[2] \in Nat
    <3>1. leaf \in NodeKeys \X Nat
      BY DEF RewardType, EpochAccount
    <3> QED BY <3>1
  <2> DEFINE k == leaf[1]
             n == leaf[2]
  <2>2. k \in NodeKeys /\ n \in Nat /\ Claim(e, k, n)
    BY <1>4, <2>1
  <2> HIDE DEF k, n
  <2>3. RewardType'
    <3>1. [epoch_distribution[e] EXCEPT !.total_claimed = @ + n]
            \in EpochAccount
      <4>1. /\ epoch_distribution[e] \in EpochAccount
            /\ epoch_distribution[e].total_claimed + n \in Nat
        BY <2>2 DEF RewardType, EpochAccount
      <4> QED BY <4>1, Zenon DEF EpochAccount
    <3>2. [distributor EXCEPT !.cumulative_claimed = @ + n]
            \in DistributorAccount
      <4>1. /\ distributor \in DistributorAccount
            /\ distributor.cumulative_claimed + n \in Nat
        BY <2>2 DEF RewardType, DistributorAccount
      <4> QED BY <4>1, Zenon DEF DistributorAccount
    <3>3. [live |-> TRUE, disputed |-> FALSE, amount |-> n] \in ClaimAccount
      BY <2>2 DEF ClaimAccount
    <3>4. claim_status' \in [EpochIds -> [NodeKeys -> ClaimAccount]]
      BY <2>2, <3>3 DEF Claim, RewardType
    <3>5. epoch_distribution' \in [EpochIds -> EpochAccount]
      BY <2>2, <3>1 DEF Claim, RewardType
    <3>6. reward_vault' \in Nat
      BY <2>2 DEF Claim, RewardType
    <3> QED BY <2>2, <3>2, <3>4, <3>5, <3>6 DEF Claim, RewardType
  <2> QED BY <2>2, <2>3 DEF Claim, RegistryType, registryVars, StakingType,
             stakingVars, EscrowType, escrowVars
<1>5. ASSUME NEW e \in EpochIds, NEW k \in NodeKeys, NEW v \in Severities,
             NEW n \in StakeAmounts \cup {0}, Dispute(e, k, v, n)
      PROVE  TypeOK'
  <2> DEFINE taken == Slashed(position[k].amount, n)
             left  == position[k].amount - taken
  <2>1. /\ position[k] \in PositionAccount /\ position[k].amount \in Nat
        /\ node[k] \in NodeAccount /\ node[k].reputation \in Nat
        /\ stake_vault[k] \in Nat
    BY DEF StakingType, RegistryType, PositionAccount, NodeAccount
  <2>2. taken \in Nat /\ left \in Nat
    <3>1. n \in Nat
      OBVIOUS
    <3>2. taken \in Nat /\ taken <= position[k].amount
      BY <2>1, <3>1, SlashBounded, Zenon
    <3> HIDE DEF taken
    <3> QED BY <2>1, <3>2
  <2>3. Penalized(node[k].reputation, v) \in Nat
    BY <2>1, PenaltyBounded
  <2> HIDE DEF taken, left
  <2>4. RegistryType'
    <3>1. [node[k] EXCEPT
             !.stake_amount = IF taken > 0 THEN left ELSE @,
             !.reputation = IF v > 0 THEN Penalized(@, v) ELSE @]
            \in NodeAccount
      BY <2>1, <2>2, <2>3 DEF NodeAccount
    <3>2. node' \in [NodeKeys -> NodeAccount]
      BY <1>5, <3>1 DEF Dispute, RegistryType, taken, left
    <3> QED BY <1>5, <3>2 DEF Dispute, RegistryType
  <2>5. StakingType'
    <3>1. [position[k] EXCEPT !.amount = left,
                              !.unbonding_amount = Smaller(@, left)]
            \in PositionAccount
      BY <2>1, <2>2 DEF PositionAccount, Smaller
    <3>2. position' \in [NodeKeys -> PositionAccount]
      BY <1>5, <3>1 DEF Dispute, StakingType, taken, left
    <3>3. taken <= stake_vault[k] /\ stake_vault[k] - taken \in Nat
      BY <1>5, <2>1, <2>2 DEF Dispute, taken
    <3>4. /\ stake_vault' = [stake_vault EXCEPT ![k] = @ - taken]
          /\ slashed' = [slashed EXCEPT ![k] = @ + taken]
          /\ UNCHANGED <<staking_config, pledged, stake_gift>>
      BY <1>5 DEF Dispute, taken
    <3> QED BY <2>2, <3>2, <3>3, <3>4 DEF StakingType
  <2>6. wallets' \in Nat /\ burned' = burned /\ now' = now
    BY <1>5, <2>2 DEF Dispute, taken
  <2>7. RewardType'
    <3>1. [live |-> TRUE, disputed |-> TRUE, amount |-> 0] \in ClaimAccount
      BY DEF ClaimAccount
    <3> QED BY <1>5, <3>1 DEF Dispute, RewardType
  <2> QED BY <1>5, <2>4, <2>5, <2>6, <2>7 DEF Dispute, EscrowType, escrowVars
<1> QED BY <1>1, <1>2, <1>3, <1>4, <1>5 DEF DistributorNext

\* No sequence of instructions drives a balance, a vault or a counter below
\* zero or gives an account a value outside its type.
THEOREM TypeCorrect == Spec => []TypeOK
<1>1. TypeOK /\ [Next]_vars => TypeOK'
  <2> SUFFICES ASSUME TypeOK, [Next]_vars PROVE TypeOK'
    OBVIOUS
  <2>1. CASE Tick
    BY <2>1, ConstantsAssumption DEF Tick, TypeOK, RegistryType, registryVars,
       StakingType, stakingVars, EscrowType, escrowVars, RewardType,
       rewardVars, tokenVars
  <2>2. CASE UNCHANGED vars
    BY <2>2 DEF vars, TypeOK, RegistryType, registryVars, StakingType,
       stakingVars, EscrowType, escrowVars, RewardType, rewardVars, tokenVars
  <2> QED BY <2>1, <2>2, RegistryStepType, StakingStepType, EscrowStepType,
             DistributorStepType DEF Next
<1> QED BY <1>1, InitType, PTL DEF Spec
=============================================================================
