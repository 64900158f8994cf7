------------------------------- MODULE Staking ------------------------------
(***************************************************************************)
(* Stake positions: stake, unbond, withdraw and close.  Slashing is part   *)
(* of dispute (module Distributor).                                        *)
(***************************************************************************)
EXTENDS WeftState

\* A later stake extends the lock, it never shortens it.
LockOverwritten(k, lock) == now + lock
LockAfterStake(k, lock) == Larger(position[k].locked_until, now + lock)

\* withdraw_unstaked and stake copy the new position amount to the NodeState.
StakeCopyForgotten(k, amount) == node
StakeCopied(k, amount) == [node EXCEPT ![k].stake_amount = amount]

\* stake: position and vault are created on first use.
Stake(k, amount, lock) ==
  /\ registry.live
  /\ amount > 0 /\ amount <= wallets
  /\ node[k].live
  /\ Fits(position[k].amount + amount)
  /\ position' = [position EXCEPT ![k] =
                    [position[k] EXCEPT
                       !.live = TRUE, !.amount = @ + amount,
                       !.locked_until = LockAfterStake(k, lock)]]
  /\ stake_vault' = [stake_vault EXCEPT ![k] = @ + amount]
  /\ wallets' = wallets - amount
  /\ node' = StakeCopied(k, position[k].amount + amount)
  /\ pledged' = [pledged EXCEPT ![k][now + lock] = @ + amount]
  /\ UNCHANGED <<now, registry, shard, tree_leaves, tree_uses, reused,
                 staking_config, slashed, stake_gift, escrowVars, rewardVars,
                 burned>>

\* request_unstake: restarts the unbonding delay of everything requested.
RequestUnstake(k, amount) ==
  /\ registry.live
  /\ position[k].live
  /\ amount > 0
  /\ now >= position[k].locked_until
  /\ position[k].amount >= position[k].unbonding_amount
  /\ amount <= position[k].amount - position[k].unbonding_amount
  /\ position' = [position EXCEPT ![k] =
                    [position[k] EXCEPT
                       !.unbonding_amount = @ + amount,
                       !.unbonding_until =
                         now + staking_config.unbonding_seconds]]
  /\ UNCHANGED <<now, registryVars, staking_config, stake_vault, pledged,
                 slashed, stake_gift, escrowVars, rewardVars, tokenVars>>

\* withdraw_unstaked: needs the NodeState, pays everything requested.
WithdrawUnstaked(k) ==
  LET amount == position[k].unbonding_amount IN
  /\ node[k].live /\ position[k].live
  /\ amount > 0
  /\ now >= position[k].unbonding_until
  /\ amount <= stake_vault[k]
  /\ amount <= position[k].amount
  /\ stake_vault' = [stake_vault EXCEPT ![k] = @ - amount]
  /\ wallets' = wallets + amount
  /\ position' = [position EXCEPT ![k] =
                    [position[k] EXCEPT !.amount = @ - amount,
                                        !.unbonding_amount = 0]]
  /\ node' = StakeCopied(k, position[k].amount - amount)
  /\ UNCHANGED <<now, registry, shard, tree_leaves, tree_uses, reused,
                 staking_config, pledged, slashed, stake_gift, escrowVars,
                 rewardVars, burned>>

\* close_empty_stake_position: a token sent to the vault by anyone blocks it.
CloseEmptyStakePosition(k) ==
  /\ position[k].live
  /\ position[k].amount = 0
  /\ position[k].unbonding_amount = 0
  /\ stake_vault[k] = 0
  /\ position' = [position EXCEPT ![k] = ZeroPosition]
  /\ pledged' = [pledged EXCEPT ![k] = [t \in Expiries |-> 0]]
  /\ slashed' = [slashed EXCEPT ![k] = 0]
  /\ UNCHANGED <<now, registryVars, staking_config, stake_vault, stake_gift,
                 escrowVars, rewardVars, tokenVars>>

\* External: anyone may transfer a token straight into a position's vault.
DonateToStakeVault(k) ==
  /\ position[k].live
  /\ wallets > 0
  /\ stake_vault' = [stake_vault EXCEPT ![k] = @ + 1]
  /\ stake_gift' = [stake_gift EXCEPT ![k] = @ + 1]
  /\ wallets' = wallets - 1
  /\ UNCHANGED <<now, registryVars, staking_config, position, pledged,
                 slashed, escrowVars, rewardVars, burned>>

StakingNext ==
  \/ \E k \in NodeKeys, n \in StakeAmounts, l \in Locks : Stake(k, n, l)
  \/ \E k \in NodeKeys, n \in StakeAmounts : RequestUnstake(k, n)
  \/ \E k \in NodeKeys : WithdrawUnstaked(k)
  \/ \E k \in NodeKeys : CloseEmptyStakePosition(k)
  \/ \E k \in NodeKeys : DonateToStakeVault(k)
=============================================================================
