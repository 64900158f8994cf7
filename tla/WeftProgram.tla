---------------------------- MODULE WeftProgram -----------------------------
(***************************************************************************)
(* The Weft program as one system: every instruction of the four modules,  *)
(* over the shared accounts, in any order.                                 *)
(***************************************************************************)
EXTENDS Registry, Staking, Escrow, Distributor, Functions

Next ==
  \/ RegistryNext
  \/ StakingNext
  \/ EscrowNext
  \/ DistributorNext
  \/ Tick

Spec == Init /\ [][Next]_vars

-----------------------------------------------------------------------------
(* Registry                                                                *)

\* The nodes whose NodeState exists.
LiveNodes == {k \in NodeKeys : node[k].live}

\* node_count is the number of NodeState accounts: shutdown_core relies on
\* it to know that no operator still needs the core.  deregister_node and
\* initialize_core must keep it exact across restarts of the core.
NodeCountExact == registry.node_count = Cardinality(LiveNodes)

\* As long as no tree is registered twice, no two live nodes store the same
\* (tree, nonce), hence the same asset id, and each names a leaf that exists.
\* That the leaf is the node's own does not hold: the tree is public, and a
\* foreign leaf shifts the nonces the shard counts.
AssetIdsUnique ==
  \A k \in LiveNodes : tree_uses[node[k].merkle_tree] = 1 =>
    /\ node[k].leaf_nonce < tree_leaves[node[k].merkle_tree]
    /\ \A j \in LiveNodes \ {k} :
         node[j].merkle_tree = node[k].merkle_tree =>
           node[j].leaf_nonce # node[k].leaf_nonce

\* One admin key governs the three core accounts, and one key both disputes
\* and slashes.  If they parted, every CoreAdmin instruction or every
\* dispute would be refused for good.
AuthoritiesAgree ==
  /\ registry.authority = staking_config.authority
  /\ registry.authority = distributor.authority
  /\ distributor.dispute_authority = staking_config.slash_authority

-----------------------------------------------------------------------------
(* Staking                                                                 *)

\* The NodeState's copy of the stake never drifts from the position: the
\* aggregator reads the copy for rewards, deregister_node for its check.
NodeStakeSynced ==
  \A k \in LiveNodes : node[k].stake_amount = position[k].amount

\* Staked tokens can always be taken back: the accounts withdraw_unstaked
\* and request_unstake need exist, through deregistration, slashing, shutdown
\* and re-initialisation of the core, and the vault holds the position
\* exactly, but for what strangers sent into it.
StakeRecoverable ==
  \A k \in NodeKeys :
    /\ stake_vault[k] = position[k].amount + stake_gift[k]
    /\ position[k].unbonding_amount <= position[k].amount
    /\ position[k].amount > 0 =>
         registry.live /\ node[k].live /\ position[k].live

\* Stake under its own lock is never in unbonding, however stakes with
\* different locks, requests, withdrawals and slashes are interleaved; only a
\* slash takes it.
LockedStake(k) == SumFunctionOnSet(pledged[k], {t \in Expiries : t > now})
LockedStakeHeld ==
  \A k \in NodeKeys :
    LockedStake(k) <= position[k].amount - position[k].unbonding_amount
                        + slashed[k]

-----------------------------------------------------------------------------
(* Escrow                                                                  *)

\* An escrow's balance is what was deposited, less what was spent and what
\* went back to the owner, and its vault holds exactly that, but for what
\* strangers sent into it, which nobody spends or withdraws: a settlement never
\* finds the vault short, and no rounding of the split leaves dust that would
\* block close_escrow.
EscrowExact ==
  \A u \in Users :
    /\ escrow[u].balance + escrow[u].total_spent + refunded[u]
         = escrow[u].total_deposited
    /\ escrow_vault[u] = escrow[u].balance + escrow_gift[u]
    /\ escrow_gift[u] <= escrow_vault[u]

-----------------------------------------------------------------------------
(* Reward rails                                                            *)

\* What the posted epochs still owe, of every core there has been.
Unclaimed(e) ==
  epoch_distribution[e].total_reward - epoch_distribution[e].total_claimed
TotalUnclaimed == SumFunction([e \in EpochIds |-> Unclaimed(e)])
TotalGasless == SumFunction(gasless_paid)

\* What the distributor's counters say is owed (negative once claim_rewards
\* has paid more than was ever posted).
BookOutstanding ==
  distributor.cumulative_obligated - distributor.cumulative_claimed

\* The counters and the epochs tell the same story: they differ by exactly
\* what the gasless rail paid, also after shutdown_core and a new
\* initialize_core, which resets the counters but keeps the epochs.
BooksExact == TotalUnclaimed = BookOutstanding + TotalGasless

\* The vault covers what the counters say is outstanding.
VaultCoversBooks == reward_vault >= BookOutstanding

\* The vault is short of the posted rewards, those of earlier cores included,
\* by no more than the gasless rail paid: on the epoch rail alone every
\* posted reward is covered.
EpochRailSolvent == reward_vault + TotalGasless >= TotalUnclaimed

\* The total the poster named covers the leaves.
WellFormed(e) ==
  SumFunction([leaf \in epoch_distribution[e].leaves |-> leaf[2]])
    <= epoch_distribution[e].total_reward

\* While only the epoch rail is used, every leaf of a well-formed epoch whose
\* node key has neither claimed nor lost a dispute can be paid, whatever was
\* claimed, disputed, posted or shut down before: neither the epoch total nor
\* the vault refuses.
LeafPayable ==
  TotalGasless = 0 =>
    \A e \in EpochIds : WellFormed(e) =>
      \A leaf \in epoch_distribution[e].leaves :
        ~claim_status[e][leaf[1]].live =>
          /\ epoch_distribution[e].total_claimed + leaf[2]
               <= epoch_distribution[e].total_reward
          /\ leaf[2] <= reward_vault

\* An epoch never pays out more than its leaves, each node key at most one
\* of its leaves, and a disputed key nothing: total_claimed is the sum of
\* the amounts in the paid claim statuses.
ClaimsExact ==
  \A e \in EpochIds :
    /\ epoch_distribution[e].total_claimed
         = SumFunction([k \in NodeKeys |-> claim_status[e][k].amount])
    /\ epoch_distribution[e].total_claimed
         <= epoch_distribution[e].total_reward
    /\ \A k \in NodeKeys :
         claim_status[e][k].live /\ ~claim_status[e][k].disputed =>
           <<k, claim_status[e][k].amount>> \in epoch_distribution[e].leaves

\* The abstract view of the epoch rail: an EpochDistribution account is the
\* epoch's terms, a ClaimStatus account the outcome for one node key.
TermsOf(e) ==
  [posted |-> epoch_distribution[e].live,
   leaves |-> epoch_distribution[e].leaves,
   budget |-> epoch_distribution[e].total_reward]
OutcomeOf(e, k) ==
  [state |-> IF ~claim_status[e][k].live THEN "open"
             ELSE IF claim_status[e][k].disputed THEN "forfeited" ELSE "paid",
   amount |-> claim_status[e][k].amount]
Payouts == INSTANCE EpochPayouts WITH
  Nodes <- NodeKeys, Epochs <- EpochIds,
  terms <- [e \in EpochIds |-> TermsOf(e)],
  spent <- [e \in EpochIds |-> epoch_distribution[e].total_claimed],
  outcome <- [e \in EpochIds |-> [k \in NodeKeys |-> OutcomeOf(e, k)]]

\* The program implements the promise of EpochPayouts: whatever instructions
\* are sent, posted terms never change, and each node key's entitlement in an
\* epoch is settled once, from its leaves and within the epoch's budget or by
\* a dispute.  In particular no shutdown and no new core touches them.
PayoutsImplemented == Payouts!Spec

\* Until its NodeState is closed, a node has received over the gasless rail
\* exactly `withdrawn`, never more than the poster ever attested.
GaslessExactUntilReused ==
  \A k \in NodeKeys \ reused :
    /\ gasless_paid[k] = node[k].withdrawn
    /\ gasless_paid[k] <= attested[k]

-----------------------------------------------------------------------------
(* What the comments claim                                                 *)

\* lib.rs:1398: a replayed attestation can never double-pay, so a node never
\* receives more than its attested lifetime earning.
NeverPaidTwice == \A k \in NodeKeys : gasless_paid[k] <= attested[k]
=============================================================================
