------------------------------- MODULE Escrow -------------------------------
(***************************************************************************)
(* Traffic payments: prepaid escrows, direct payment, metered settlement   *)
(* by the poster, and the split every payment goes through.                *)
(***************************************************************************)
EXTENDS WeftState

\* deposit_escrow: escrow and vault are created on first use.
DepositEscrow(u, amount) ==
  /\ registry.live
  /\ amount > 0 /\ amount <= wallets
  /\ Fits(escrow[u].balance + amount)
  /\ Fits(escrow[u].total_deposited + amount)
  /\ escrow' = [escrow EXCEPT ![u] =
                  [escrow[u] EXCEPT !.live = TRUE, !.balance = @ + amount,
                                    !.total_deposited = @ + amount]]
  /\ escrow_vault' = [escrow_vault EXCEPT ![u] = @ + amount]
  /\ wallets' = wallets - amount
  /\ UNCHANGED <<now, registryVars, stakingVars, refunded, escrow_gift,
                 rewardVars, burned>>

\* The escrow's own books decide what it may spend, not its vault.
CoveredByVault(u, amount) == amount <= escrow_vault[u]
Covered(u, amount) == amount <= escrow[u].balance

\* withdraw_escrow reads no core account: it works after a shutdown too.
WithdrawEscrow(u, amount) ==
  /\ escrow[u].live
  /\ amount > 0
  /\ Covered(u, amount)
  /\ amount <= escrow_vault[u]
  /\ escrow' = [escrow EXCEPT ![u].balance = @ - amount]
  /\ escrow_vault' = [escrow_vault EXCEPT ![u] = @ - amount]
  /\ wallets' = wallets + amount
  /\ refunded' = [refunded EXCEPT ![u] = @ + amount]
  /\ UNCHANGED <<now, registryVars, stakingVars, escrow_gift, rewardVars,
                 burned>>

CloseEscrow(u) ==
  /\ escrow[u].live
  /\ escrow[u].balance = 0
  /\ escrow_vault[u] = 0
  /\ escrow' = [escrow EXCEPT ![u] = ZeroEscrow]
  /\ refunded' = [refunded EXCEPT ![u] = 0]
  /\ UNCHANGED <<now, registryVars, stakingVars, escrow_vault, escrow_gift,
                 rewardVars, tokenVars>>

\* split_from_user's credit side: nodes to the reward vault, the remainder to
\* the treasury (a wallet), the burn share destroyed.  `wallets0` is what the
\* wallets hold once the source has been debited.
CreditSplit(amount, wallets0) ==
  LET split == SplitPayment(amount) IN
  /\ reward_vault' = reward_vault + split.nodes
  /\ wallets' = wallets0 + split.treasury
  /\ burned' = burned + split.burn
  /\ UNCHANGED <<distributor, epoch_distribution, claim_status, gasless_paid,
                 attested>>

\* What split_from_user takes out of its source.
SplitDebit(amount) ==
  LET split == SplitPayment(amount)
  IN  split.nodes + split.treasury + split.burn

PayTraffic(amount) ==
  /\ registry.live
  /\ amount > 0 /\ amount <= wallets
  /\ CreditSplit(amount, wallets - SplitDebit(amount))
  /\ UNCHANGED <<now, registryVars, stakingVars, escrowVars>>

\* The debit shared by the two escrow payments.
SpendFromEscrow(u, amount) ==
  /\ registry.live
  /\ escrow[u].live
  /\ amount > 0
  /\ Covered(u, amount)
  /\ Fits(escrow[u].total_spent + amount)
  /\ SplitDebit(amount) <= escrow_vault[u]
  /\ escrow' = [escrow EXCEPT ![u] =
                  [escrow[u] EXCEPT !.balance = @ - amount,
                                    !.total_spent = @ + amount]]
  /\ escrow_vault' = [escrow_vault EXCEPT ![u] = @ - SplitDebit(amount)]
  /\ CreditSplit(amount, wallets)
  /\ UNCHANGED <<now, registryVars, stakingVars, refunded, escrow_gift>>

\* pay_traffic_from_escrow: signed by the owner.
PayTrafficFromEscrow(u, amount) == SpendFromEscrow(u, amount)

\* settle_from_escrow: the same move, signed by poster_authority.
SettleFromEscrow(u, amount) == SpendFromEscrow(u, amount)

\* External: anyone may transfer a token straight into an escrow's vault.
DonateToEscrowVault(u) ==
  /\ escrow[u].live
  /\ wallets > 0
  /\ escrow_vault' = [escrow_vault EXCEPT ![u] = @ + 1]
  /\ escrow_gift' = [escrow_gift EXCEPT ![u] = @ + 1]
  /\ wallets' = wallets - 1
  /\ UNCHANGED <<now, registryVars, stakingVars, escrow, refunded, rewardVars,
                 burned>>

EscrowNext ==
  \/ \E u \in Users, n \in EscrowAmounts : DepositEscrow(u, n)
  \/ \E u \in Users, n \in EscrowAmounts : WithdrawEscrow(u, n)
  \/ \E u \in Users : CloseEscrow(u)
  \/ \E n \in EscrowAmounts : PayTraffic(n)
  \/ \E u \in Users, n \in EscrowAmounts : PayTrafficFromEscrow(u, n)
  \/ \E u \in Users, n \in EscrowAmounts : SettleFromEscrow(u, n)
  \/ \E u \in Users : DonateToEscrowVault(u)
=============================================================================
