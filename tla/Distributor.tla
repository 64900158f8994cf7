----------------------------- MODULE Distributor ----------------------------
(***************************************************************************)
(* The reward vault and its two payout rails: epochs the poster commits    *)
(* and operators claim leaf by leaf, and the gasless claim_rewards.        *)
(***************************************************************************)
EXTENDS WeftState

FundRewardVault(amount) ==
  /\ registry.live
  /\ amount > 0 /\ amount <= wallets
  /\ reward_vault' = reward_vault + amount
  /\ wallets' = wallets - amount
  /\ UNCHANGED <<now, registryVars, stakingVars, escrowVars, distributor,
                 epoch_distribution, claim_status, gasless_paid, attested,
                 burned>>

\* What claim_rewards owes: the attested lifetime total less what this
\* NodeState has withdrawn.
PayoutWhole(k, earned_total) == earned_total
Payout(k, earned_total) == earned_total - node[k].withdrawn

\* claim_rewards, signed by the poster; the operator signs nothing.
ClaimRewards(k, earned_total) ==
  LET payout == Payout(k, earned_total) IN
  /\ registry.live
  /\ node[k].live
  /\ payout >= 0
  /\ payout <= reward_vault
  /\ Fits(distributor.cumulative_claimed + payout)
  /\ node' = [node EXCEPT ![k].withdrawn = earned_total]
  /\ distributor' = [distributor EXCEPT !.cumulative_claimed = @ + payout]
  /\ reward_vault' = reward_vault - payout
  /\ wallets' = wallets + payout
  /\ gasless_paid' = [gasless_paid EXCEPT ![k] = @ + payout]
  /\ attested' = [attested EXCEPT ![k] = Larger(@, earned_total)]
  /\ UNCHANGED <<now, registry, shard, tree_leaves, tree_uses, reused,
                 stakingVars, escrowVars, epoch_distribution, claim_status,
                 burned>>

\* What the vault must hold to post an epoch of `total`.
NeededForNewOnly(total) == total
Needed(total) ==
  distributor.cumulative_obligated - distributor.cumulative_claimed + total

\* post_epoch: root and total are the poster's word; the vault must cover
\* what the books say is outstanding plus the new total.
PostEpoch(e, leaves, total) ==
  /\ registry.live
  /\ e > distributor.current_epoch
  /\ ~epoch_distribution[e].live
  /\ distributor.cumulative_obligated >= distributor.cumulative_claimed
  /\ reward_vault >= Needed(total)
  /\ Fits(distributor.cumulative_obligated + total)
  /\ epoch_distribution' =
       [epoch_distribution EXCEPT ![e] =
          [live |-> TRUE, leaves |-> leaves, total_reward |-> total,
           total_claimed |-> 0, posted_at |-> now]]
  /\ distributor' = [distributor EXCEPT !.cumulative_obligated = @ + total,
                                        !.current_epoch = e]
  /\ UNCHANGED <<now, registryVars, stakingVars, escrowVars, claim_status,
                 reward_vault, gasless_paid, attested, tokenVars>>

\* The ClaimStatus account does not exist yet: `init` makes it single-use.
ClaimAlwaysOpen(e, k) == TRUE
ClaimOpen(e, k) == ~claim_status[e][k].live

\* An epoch never pays more than its total_reward (EpochOverclaim).
OverclaimAllowed(e, amount) == TRUE
WithinTotal(e, amount) ==
  epoch_distribution[e].total_claimed + amount
    <= epoch_distribution[e].total_reward

\* claim: anyone submits the proof, the leaf's operator is paid.
Claim(e, k, amount) ==
  /\ registry.live
  /\ epoch_distribution[e].live
  /\ ClaimOpen(e, k)
  /\ now >= epoch_distribution[e].posted_at + distributor.dispute_window
  /\ <<k, amount>> \in epoch_distribution[e].leaves
  /\ WithinTotal(e, amount)
  /\ Fits(distributor.cumulative_claimed + amount)
  /\ amount <= reward_vault
  /\ epoch_distribution' =
       [epoch_distribution EXCEPT ![e].total_claimed = @ + amount]
  /\ distributor' = [distributor EXCEPT !.cumulative_claimed = @ + amount]
  /\ claim_status' =
       [claim_status EXCEPT ![e][k] =
          [live |-> TRUE, disputed |-> FALSE, amount |-> amount]]
  /\ reward_vault' = reward_vault - amount
  /\ wallets' = wallets + amount
  /\ UNCHANGED <<now, registryVars, stakingVars, escrowVars, gasless_paid,
                 attested, burned>>

\* dispute: takes the ClaimStatus slot, slashes the position and lowers the
\* reputation.  It has no window and leaves the obligation on the books.
\* The disputed amount is recorded but never read: abstracted to 0.
Dispute(e, k, severity, slash_amount) ==
  LET taken == Slashed(position[k].amount, slash_amount)
      left  == position[k].amount - taken
  IN
  /\ registry.live
  /\ distributor.dispute_authority = staking_config.slash_authority
  /\ epoch_distribution[e].live
  /\ ClaimOpen(e, k)
  /\ node[k].live /\ position[k].live
  /\ taken <= stake_vault[k]
  /\ claim_status' =
       [claim_status EXCEPT ![e][k] =
          [live |-> TRUE, disputed |-> TRUE, amount |-> 0]]
  /\ stake_vault' = [stake_vault EXCEPT ![k] = @ - taken]
  /\ wallets' = wallets + taken
  /\ position' =
       IF taken > 0
       THEN [position EXCEPT ![k] =
               [position[k] EXCEPT !.amount = left,
                                   !.unbonding_amount = Smaller(@, left)]]
       ELSE position
  /\ node' = [node EXCEPT ![k] =
                [node[k] EXCEPT
                   !.stake_amount = IF taken > 0 THEN left ELSE @,
                   !.reputation = IF severity > 0 THEN Penalized(@, severity)
                                                  ELSE @]]
  /\ slashed' = [slashed EXCEPT ![k] = @ + taken]
  /\ UNCHANGED <<now, registry, shard, tree_leaves, tree_uses, reused,
                 staking_config, pledged, stake_gift, escrowVars, distributor,
                 epoch_distribution, reward_vault, gasless_paid, attested,
                 burned>>

DistributorNext ==
  \/ \E n \in FundAmounts : FundRewardVault(n)
  \/ \E k \in NodeKeys, n \in RewardAmounts : ClaimRewards(k, n)
  \/ \E e \in EpochIds, s \in LeafSets, n \in RewardAmounts :
       PostEpoch(e, s, n)
  \/ \E e \in EpochIds : \E leaf \in epoch_distribution[e].leaves :
       Claim(e, leaf[1], leaf[2])
  \/ \E e \in EpochIds, k \in NodeKeys, v \in Severities,
        n \in StakeAmounts \cup {0} : Dispute(e, k, v, n)
=============================================================================
