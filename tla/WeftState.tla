----------------------------- MODULE WeftState ------------------------------
(***************************************************************************)
(* The accounts of the Weft program (programs/weft/src/lib.rs): what every *)
(* instruction reads and writes.  A Solana account that does not exist is  *)
(* a zeroed record with live = FALSE, as the runtime hands it to `init`.   *)
(*                                                                         *)
(* A transaction is atomic: a failed require!, a failed checked operation  *)
(* or a failed transfer rolls everything back, so an instruction is one    *)
(* action whose guard is the conjunction of its checks.                    *)
(*                                                                         *)
(* SPL tokens are external.  Every token account outside the program's     *)
(* vaults (operators, users, treasury) is pooled in `wallets`; a transfer  *)
(* succeeds exactly when its source holds the amount.                      *)
(***************************************************************************)
EXTENDS WeftMath, FiniteSets

CONSTANTS
  NodeKeys,        \* the (operator, node_id) pairs that may register
  Users,           \* owners of payment escrows
  Keys,            \* public keys that can hold an authority
  NoKey,           \* Pubkey::default()
  Trees,           \* merkle trees created off-chain, each with its own key
  TreeCapacity,    \* leaves each tree was created for: 2^max_depth
  MaxTrees,        \* bound on tree_count (u16 in the code)
  Metas,           \* descriptors (geo, capabilities, ...) the validators accept
  EpochIds,        \* epoch numbers the poster may use
  LeafSets,        \* leaf sets <<node key, amount>> a posted root may commit to
  StakeAmounts, EscrowAmounts, FundAmounts, RewardAmounts,  \* instruction inputs
  Severities,      \* severity_bps inputs of dispute
  Locks,           \* lock_duration inputs of stake
  Unbondings,      \* unbonding_seconds inputs of initialize_core
  Windows,         \* dispute_window_seconds inputs of initialize_core
  Supply,          \* tokens minted before the program is used
  MaxU64,          \* largest u64, scaled down
  MaxTime,         \* bound on the cluster clock
  MaxLock          \* bound on Locks

ASSUME ConstantsAssumption ==
  /\ NoKey \notin Keys \cup Trees
  /\ IsFiniteSet(NodeKeys)
  /\ TreeCapacity \in [Trees -> Nat]
  /\ \A t \in Trees : \E depth \in 1..MAX_TREE_DEPTH :
       TreeCapacity[t] = 2^depth
  /\ MaxTrees \in Nat /\ MaxTime \in Nat
  /\ Supply \in Nat /\ MaxU64 \in Nat /\ Supply <= MaxU64
  /\ EpochIds \subseteq Nat \ {0}
  /\ LeafSets \subseteq SUBSET (NodeKeys \X Nat)
  /\ StakeAmounts \subseteq Nat /\ EscrowAmounts \subseteq Nat
  /\ FundAmounts \subseteq Nat /\ RewardAmounts \subseteq Nat
  /\ Severities \subseteq Nat
  /\ MaxLock \in Nat /\ Locks \subseteq 0..MaxLock
  /\ Unbondings \subseteq Nat /\ Windows \subseteq Nat

\* An epoch number is a u64, and a root commits to the leaves of a list.
ASSUME FiniteAssumption ==
  IsFiniteSet(EpochIds) /\ \A leaves \in LeafSets : IsFiniteSet(leaves)

VARIABLES
  now,                 \* Clock::unix_timestamp
  registry,            \* the Registry account
  shard,               \* TreeShard accounts by index
  node,                \* NodeState accounts
  tree_leaves,         \* external: leaves Bubblegum really minted per tree
  staking_config,      \* the StakingConfig account
  position,            \* StakePosition accounts
  stake_vault,         \* token balance of each position's vault
  escrow,              \* PaymentEscrow accounts
  escrow_vault,        \* token balance of each escrow's vault
  distributor,         \* the Distributor account
  epoch_distribution,  \* EpochDistribution accounts
  claim_status,        \* ClaimStatus accounts
  reward_vault,        \* token balance of the reward vault
  wallets,             \* tokens outside the program
  burned,              \* tokens destroyed
  \* history, read by properties only:
  tree_uses,           \* how often each tree was registered (0, 1, 2 = more)
  reused,              \* node keys whose NodeState was closed at least once
  pledged,             \* staked tokens by the time their own lock expires
  slashed,             \* tokens taken from each open position by disputes
  stake_gift,          \* tokens strangers sent into each stake vault
  refunded,            \* tokens each open escrow gave back to its owner
  escrow_gift,         \* tokens strangers sent into each escrow vault
  gasless_paid,        \* tokens claim_rewards ever paid per node key
  attested             \* largest earned_total ever accepted per node key

registryVars == <<registry, shard, node, tree_leaves, tree_uses, reused>>
stakingVars == <<staking_config, position, stake_vault, pledged, slashed,
                 stake_gift>>
escrowVars == <<escrow, escrow_vault, refunded, escrow_gift>>
rewardVars == <<distributor, epoch_distribution, claim_status, reward_vault,
                gasless_paid, attested>>
tokenVars == <<wallets, burned>>
vars == <<now, registryVars, stakingVars, escrowVars, rewardVars, tokenVars>>

-----------------------------------------------------------------------------
\* checked_add on u64: the instruction fails when the result does not fit.
Fits(n) == n <= MaxU64

\* Times at which a lock can expire under the bounds.
Expiries == 0..(MaxTime + MaxLock)

ShardIds == 0..(MaxTrees - 1)

ZeroRegistry ==
  [live |-> FALSE, authority |-> NoKey, paused |-> FALSE, node_count |-> 0,
   node_sequence |-> 0, collection |-> FALSE, active_tree |-> NoKey,
   tree_count |-> 0]
ZeroShard ==
  [live |-> FALSE, merkle_tree |-> NoKey, minted |-> 0, capacity |-> 0,
   full |-> FALSE]
ZeroNode ==
  [live |-> FALSE, meta |-> NoKey, reputation |-> 0, stake_amount |-> 0,
   sequence |-> 0, merkle_tree |-> NoKey, leaf_nonce |-> 0, withdrawn |-> 0]
ZeroStakingConfig ==
  [authority |-> NoKey, slash_authority |-> NoKey, unbonding_seconds |-> 0]
ZeroPosition ==
  [live |-> FALSE, amount |-> 0, unbonding_amount |-> 0, locked_until |-> 0,
   unbonding_until |-> 0]
ZeroEscrow ==
  [live |-> FALSE, balance |-> 0, total_deposited |-> 0, total_spent |-> 0]
ZeroDistributor ==
  [authority |-> NoKey, poster_authority |-> NoKey, dispute_authority |-> NoKey,
   dispute_window |-> 0, current_epoch |-> 0, cumulative_obligated |-> 0,
   cumulative_claimed |-> 0]
ZeroEpoch ==
  [live |-> FALSE, leaves |-> {}, total_reward |-> 0, total_claimed |-> 0,
   posted_at |-> 0]
ZeroClaim == [live |-> FALSE, disputed |-> FALSE, amount |-> 0]

\* Nothing exists before the first initialize_core; the whole supply is in
\* wallets.
Init ==
  /\ now = 0
  /\ registry = ZeroRegistry
  /\ shard = [i \in ShardIds |-> ZeroShard]
  /\ node = [k \in NodeKeys |-> ZeroNode]
  /\ tree_leaves = [t \in Trees |-> 0]
  /\ staking_config = ZeroStakingConfig
  /\ position = [k \in NodeKeys |-> ZeroPosition]
  /\ stake_vault = [k \in NodeKeys |-> 0]
  /\ escrow = [u \in Users |-> ZeroEscrow]
  /\ escrow_vault = [u \in Users |-> 0]
  /\ distributor = ZeroDistributor
  /\ epoch_distribution = [e \in EpochIds |-> ZeroEpoch]
  /\ claim_status = [e \in EpochIds |-> [k \in NodeKeys |-> ZeroClaim]]
  /\ reward_vault = 0
  /\ wallets = Supply
  /\ burned = 0
  /\ tree_uses = [t \in Trees |-> 0]
  /\ reused = {}
  /\ pledged = [k \in NodeKeys |-> [t \in Expiries |-> 0]]
  /\ slashed = [k \in NodeKeys |-> 0]
  /\ stake_gift = [k \in NodeKeys |-> 0]
  /\ refunded = [u \in Users |-> 0]
  /\ escrow_gift = [u \in Users |-> 0]
  /\ gasless_paid = [k \in NodeKeys |-> 0]
  /\ attested = [k \in NodeKeys |-> 0]

\* The cluster clock advances between transactions.
Tick ==
  /\ now < MaxTime
  /\ now' = now + 1
  /\ UNCHANGED <<registryVars, stakingVars, escrowVars, rewardVars, tokenVars>>

-----------------------------------------------------------------------------
RegistryAccount ==
  [live : BOOLEAN, authority : Keys \cup {NoKey}, paused : BOOLEAN,
   node_count : Nat, node_sequence : Nat, collection : BOOLEAN,
   active_tree : Trees \cup {NoKey}, tree_count : Nat]
ShardAccount ==
  [live : BOOLEAN, merkle_tree : Trees \cup {NoKey}, minted : Nat,
   capacity : Nat, full : BOOLEAN]
NodeAccount ==
  [live : BOOLEAN, meta : Metas \cup {NoKey}, reputation : Nat,
   stake_amount : Nat, sequence : Nat, merkle_tree : Trees \cup {NoKey},
   leaf_nonce : Nat, withdrawn : Nat]
StakingConfigAccount ==
  [authority : Keys \cup {NoKey}, slash_authority : Keys \cup {NoKey},
   unbonding_seconds : Nat]
PositionAccount ==
  [live : BOOLEAN, amount : Nat, unbonding_amount : Nat, locked_until : Nat,
   unbonding_until : Nat]
EscrowAccount ==
  [live : BOOLEAN, balance : Nat, total_deposited : Nat, total_spent : Nat]
DistributorAccount ==
  [authority : Keys \cup {NoKey}, poster_authority : Keys \cup {NoKey},
   dispute_authority : Keys \cup {NoKey}, dispute_window : Nat,
   current_epoch : Nat, cumulative_obligated : Nat, cumulative_claimed : Nat]
EpochAccount ==
  [live : BOOLEAN, leaves : SUBSET (NodeKeys \X Nat), total_reward : Nat,
   total_claimed : Nat, posted_at : Nat]
ClaimAccount == [live : BOOLEAN, disputed : BOOLEAN, amount : Nat]

RegistryType ==
  /\ registry \in RegistryAccount
  /\ shard \in [ShardIds -> ShardAccount]
  /\ node \in [NodeKeys -> NodeAccount]
  /\ tree_leaves \in [Trees -> Nat]
  /\ tree_uses \in [Trees -> 0..2]
  /\ reused \subseteq NodeKeys
StakingType ==
  /\ staking_config \in StakingConfigAccount
  /\ position \in [NodeKeys -> PositionAccount]
  /\ stake_vault \in [NodeKeys -> Nat]
  /\ pledged \in [NodeKeys -> [Expiries -> Nat]]
  /\ slashed \in [NodeKeys -> Nat]
  /\ stake_gift \in [NodeKeys -> Nat]
EscrowType ==
  /\ escrow \in [Users -> EscrowAccount]
  /\ escrow_vault \in [Users -> Nat]
  /\ refunded \in [Users -> Nat]
  /\ escrow_gift \in [Users -> Nat]
RewardType ==
  /\ distributor \in DistributorAccount
  /\ epoch_distribution \in [EpochIds -> EpochAccount]
  /\ claim_status \in [EpochIds -> [NodeKeys -> ClaimAccount]]
  /\ reward_vault \in Nat
  /\ gasless_paid \in [NodeKeys -> Nat]
  /\ attested \in [NodeKeys -> Nat]

\* Every account has its type, and the clock and the token totals are
\* natural numbers: no instruction drives a balance or a counter below zero.
TypeOK ==
  /\ now \in 0..MaxTime /\ wallets \in Nat /\ burned \in Nat
  /\ RegistryType /\ StakingType /\ EscrowType /\ RewardType
=============================================================================
