-------------------------- MODULE WeftRewardProofs --------------------------
(***************************************************************************)
(* The reward rails of the Weft program for every value of the constants:  *)
(* the vault covers the books, the books and the epochs tell the same      *)
(* story, an epoch's claims are what it paid, and so on the epoch rail     *)
(* alone every posted reward can be paid.  At the end, that the program    *)
(* implements EpochPayouts, so that what EpochPayouts promises holds of it.*)
(***************************************************************************)
EXTENDS WeftTypeProofs, SumTheorems

-----------------------------------------------------------------------------
(* The reward vault                                                        *)

\* What moves the vault or the books keeps them covered.
LEMMA CreditCovers ==
  ASSUME TypeOK, VaultCoversBooks, NEW n \in Nat, NEW w, CreditSplit(n, w)
  PROVE  VaultCoversBooks'
<1>1. /\ SplitPayment(n).nodes \in Nat
      /\ reward_vault' = reward_vault + SplitPayment(n).nodes
      /\ distributor' = distributor
  BY SplitExact DEF CreditSplit
<1> DEFINE s == SplitPayment(n).nodes
<1> HIDE DEF s
<1>2. s \in Nat /\ reward_vault' = reward_vault + s /\ distributor' = distributor
  BY <1>1 DEF s
<1> QED BY <1>2 DEF VaultCoversBooks, BookOutstanding, TypeOK, RewardType,
   DistributorAccount

LEMMA DistributorCovers ==
  TypeOK /\ VaultCoversBooks /\ DistributorNext => VaultCoversBooks'
<1> SUFFICES ASSUME TypeOK, VaultCoversBooks, DistributorNext
             PROVE  VaultCoversBooks'
  OBVIOUS
<1> USE ConstantsAssumption DEF VaultCoversBooks, BookOutstanding
<1>0. /\ reward_vault \in Nat /\ distributor.cumulative_obligated \in Nat
      /\ distributor.cumulative_claimed \in Nat
      /\ distributor \in DistributorAccount
  BY DEF TypeOK, RewardType, DistributorAccount
<1>1. ASSUME NEW n \in FundAmounts, FundRewardVault(n)
      PROVE  VaultCoversBooks'
  BY <1>0, <1>1 DEF FundRewardVault
<1>2. ASSUME NEW k \in NodeKeys, NEW n \in RewardAmounts, ClaimRewards(k, n)
      PROVE  VaultCoversBooks'
  <2> DEFINE p == Payout(k, n)
  <2>1. p \in Int
    BY DEF Payout, TypeOK, RegistryType, NodeAccount
  <2>2. /\ distributor' = [distributor EXCEPT !.cumulative_claimed = @ + p]
        /\ reward_vault' = reward_vault - p
    BY <1>2 DEF ClaimRewards
  <2> HIDE DEF p
  <2> QED BY <1>0, <2>1, <2>2 DEF DistributorAccount
<1>3. ASSUME NEW e \in EpochIds, NEW s \in LeafSets, NEW n \in RewardAmounts,
             PostEpoch(e, s, n)
      PROVE  VaultCoversBooks'
  BY <1>0, <1>3 DEF PostEpoch, Needed, DistributorAccount
<1>4. ASSUME NEW e \in EpochIds, NEW leaf \in epoch_distribution[e].leaves,
             Claim(e, leaf[1], leaf[2])
      PROVE  VaultCoversBooks'
  <2>1. leaf \in NodeKeys \X Nat
    BY DEF TypeOK, RewardType, EpochAccount
  <2> DEFINE n == leaf[2]
  <2>2. n \in Nat
    BY <2>1
  <2>3. /\ distributor' = [distributor EXCEPT !.cumulative_claimed = @ + n]
        /\ reward_vault' = reward_vault - n
    BY <1>4 DEF Claim
  <2> HIDE DEF n
  <2> QED BY <1>0, <2>2, <2>3 DEF DistributorAccount
<1>5. ASSUME NEW e \in EpochIds, NEW k \in NodeKeys, NEW v \in Severities,
             NEW n \in StakeAmounts \cup {0}, Dispute(e, k, v, n)
      PROVE  VaultCoversBooks'
  BY <1>5 DEF Dispute
<1> QED BY <1>1, <1>2, <1>3, <1>4, <1>5 DEF DistributorNext

\* The reward vault always covers what the counters say is outstanding, in
\* any mix of payments, posts, claims and gasless payouts and across a
\* shutdown and a new core.
THEOREM VaultAlwaysCoversBooks == Spec => []VaultCoversBooks
<1>1. Init => VaultCoversBooks
  BY DEF Init, VaultCoversBooks, BookOutstanding, ZeroDistributor
<1>2. TypeOK /\ VaultCoversBooks /\ [Next]_vars => VaultCoversBooks'
  <2> SUFFICES ASSUME TypeOK, VaultCoversBooks, [Next]_vars
               PROVE  VaultCoversBooks'
    OBVIOUS
  <2>1. CASE RegistryNext
    <3>0. distributor \in DistributorAccount
      BY DEF TypeOK, RewardType
    <3> USE DEF VaultCoversBooks, BookOutstanding
    <3>1. ASSUME NEW a \in Keys, NEW p \in Keys, NEW d \in Keys,
                 NEW b \in Unbondings, NEW w \in Windows,
                 InitializeCore(a, p, d, b, w)
          PROVE  VaultCoversBooks'
      BY <3>1 DEF InitializeCore, ZeroDistributor
    <3>2. ASSUME NEW a \in Keys,
                 \/ SetCoreAuthority(a) \/ SetPosterAuthority(a)
                 \/ SetDisputeAuthority(a)
          PROVE  VaultCoversBooks'
      BY <3>0, <3>2 DEF SetCoreAuthority, SetPosterAuthority,
         SetDisputeAuthority, DistributorAccount
    <3>3. CASE ShutdownCore
      BY <3>3 DEF ShutdownCore, ZeroDistributor
    <3>4. CASE \/ \E t \in Trees : RegisterTree(t) \/ ForeignMint(t)
               \/ SetRegistryCollection
               \/ \E k \in NodeKeys, i \in ShardIds, m \in Metas :
                    RegisterNode(k, i, m)
               \/ \E k \in NodeKeys, m \in Metas : UpdateNode(k, m)
               \/ \E k \in NodeKeys : DeregisterNode(k)
               \/ \E p \in BOOLEAN : SetPaused(p)
      BY <3>4 DEF RegisterTree, ForeignMint, SetRegistryCollection, RegisterNode,
         UpdateNode, DeregisterNode, SetPaused, rewardVars
    <3> QED BY <2>1, <3>1, <3>2, <3>3, <3>4 DEF RegistryNext
  <2>2. CASE EscrowNext
    <3>1. ASSUME NEW n \in EscrowAmounts, PayTraffic(n)
          PROVE  VaultCoversBooks'
      BY <3>1, CreditCovers, ConstantsAssumption DEF PayTraffic
    <3>2. ASSUME NEW u \in Users, NEW n \in EscrowAmounts,
                 SpendFromEscrow(u, n)
          PROVE  VaultCoversBooks'
      BY <3>2, CreditCovers, ConstantsAssumption DEF SpendFromEscrow
    <3>3. CASE \/ \E u \in Users, n \in EscrowAmounts :
                    DepositEscrow(u, n) \/ WithdrawEscrow(u, n)
               \/ \E u \in Users : CloseEscrow(u) \/ DonateToEscrowVault(u)
      BY <3>3 DEF DepositEscrow, WithdrawEscrow, CloseEscrow,
         DonateToEscrowVault, rewardVars, VaultCoversBooks, BookOutstanding
    <3> QED BY <2>2, <3>1, <3>2, <3>3
            DEF EscrowNext, PayTrafficFromEscrow, SettleFromEscrow
  <2>3. CASE StakingNext \/ Tick \/ UNCHANGED vars
    <3>1. UNCHANGED rewardVars
      BY <2>3 DEF StakingNext, Stake, RequestUnstake, WithdrawUnstaked,
         CloseEmptyStakePosition, DonateToStakeVault, Tick, vars
    <3> QED BY <3>1 DEF rewardVars, VaultCoversBooks, BookOutstanding
  <2> QED BY <2>1, <2>2, <2>3, DistributorCovers DEF Next
<1> QED BY <1>1, <1>2, TypeCorrect, PTL DEF Spec

-----------------------------------------------------------------------------
(* The program implements EpochPayouts                                     *)

\* An account that does not exist holds nothing: neither an epoch that is not
\* posted nor a claim that is not made hides an amount.
AbsentIsBlank ==
  /\ \A e \in EpochIds :
       ~epoch_distribution[e].live => epoch_distribution[e] = ZeroEpoch
  /\ \A e \in EpochIds, k \in NodeKeys :
       ~claim_status[e][k].live => claim_status[e][k] = ZeroClaim

SameRail == UNCHANGED <<epoch_distribution, claim_status>>

\* Three instructions act on the epoch rail; no other step touches it.
LEMMA RailFrame ==
  [Next]_vars =>
    \/ \E e \in EpochIds, s \in LeafSets, n \in RewardAmounts :
         PostEpoch(e, s, n)
    \/ \E e \in EpochIds : \E leaf \in epoch_distribution[e].leaves :
         Claim(e, leaf[1], leaf[2])
    \/ \E e \in EpochIds, k \in NodeKeys, v \in Severities,
          n \in StakeAmounts \cup {0} : Dispute(e, k, v, n)
    \/ SameRail
<1> SUFFICES ASSUME [Next]_vars,
                    ~ \E e \in EpochIds, s \in LeafSets, n \in RewardAmounts :
                        PostEpoch(e, s, n),
                    ~ \E e \in EpochIds : \E leaf \in epoch_distribution[e].leaves :
                        Claim(e, leaf[1], leaf[2]),
                    ~ \E e \in EpochIds, k \in NodeKeys, v \in Severities,
                         n \in StakeAmounts \cup {0} : Dispute(e, k, v, n)
             PROVE  SameRail
  OBVIOUS
<1> USE DEF SameRail
<1>1. CASE RegistryNext
  BY <1>1 DEF RegistryNext, InitializeCore, RegisterTree, ForeignMint,
     SetRegistryCollection, RegisterNode, UpdateNode, DeregisterNode,
     SetCoreAuthority, SetPaused, SetPosterAuthority, SetDisputeAuthority,
     ShutdownCore, rewardVars
<1>2. CASE StakingNext
  BY <1>2 DEF StakingNext, Stake, RequestUnstake, WithdrawUnstaked,
     CloseEmptyStakePosition, DonateToStakeVault, rewardVars
<1>3. CASE EscrowNext
  BY <1>3 DEF EscrowNext, DepositEscrow, WithdrawEscrow, CloseEscrow,
     PayTraffic, PayTrafficFromEscrow, SettleFromEscrow, SpendFromEscrow,
     CreditSplit, DonateToEscrowVault, rewardVars
<1>4. CASE DistributorNext
  BY <1>4 DEF DistributorNext, FundRewardVault, ClaimRewards
<1>5. CASE Tick \/ UNCHANGED vars
  BY <1>5 DEF Tick, vars, rewardVars
<1> QED BY <1>1, <1>2, <1>3, <1>4, <1>5 DEF Next

LEMMA BlankInductive ==
  ASSUME TypeOK, AbsentIsBlank, [Next]_vars
  PROVE  AbsentIsBlank'
<1> USE DEF AbsentIsBlank, TypeOK, RewardType
<1>1. ASSUME NEW e \in EpochIds, NEW s \in LeafSets, NEW n \in RewardAmounts,
             PostEpoch(e, s, n)
      PROVE  AbsentIsBlank'
  BY <1>1 DEF PostEpoch
<1>2. ASSUME NEW e \in EpochIds, NEW leaf \in epoch_distribution[e].leaves,
             Claim(e, leaf[1], leaf[2])
      PROVE  AbsentIsBlank'
  BY <1>2 DEF Claim, EpochAccount
<1>3. ASSUME NEW e \in EpochIds, NEW k \in NodeKeys, NEW v \in Severities,
             NEW n \in StakeAmounts \cup {0}, Dispute(e, k, v, n)
      PROVE  AbsentIsBlank'
  BY <1>3 DEF Dispute
<1>4. CASE SameRail
  BY <1>4 DEF SameRail
<1> QED BY <1>1, <1>2, <1>3, <1>4, RailFrame

-----------------------------------------------------------------------------
(* Claims: what an epoch paid is what its claim statuses say               *)

ClaimAmounts(e) == [k \in NodeKeys |-> claim_status[e][k].amount]

\* ClaimsExact is not inductive alone: an epoch that is posted starts with
\* total_claimed = 0, so nobody may hold a claim in an epoch before it is
\* posted, and a claim status that is made overwrites none that had an amount.
DisputedPaysNothing ==
  \A e \in EpochIds, k \in NodeKeys :
    claim_status[e][k].disputed => claim_status[e][k].amount = 0
ClaimsInv ==
  /\ AbsentIsBlank
  /\ DisputedPaysNothing
  /\ \A e \in EpochIds : ~epoch_distribution[e].live =>
       \A k \in NodeKeys : ~claim_status[e][k].live
  /\ \A e \in EpochIds : IsFiniteSet(epoch_distribution[e].leaves)
  /\ ClaimsExact

\* The amounts claimed in an epoch are natural numbers.
LEMMA ClaimAmountsNat ==
  ASSUME TypeOK, NEW e \in EpochIds
  PROVE  \A k \in NodeKeys : ClaimAmounts(e)[k] \in Nat
BY DEF ClaimAmounts, TypeOK, RewardType, ClaimAccount

\* What an epoch paid is the sum of those amounts.
LEMMA ClaimedIsSum ==
  ASSUME ClaimsInv, NEW e \in EpochIds
  PROVE  epoch_distribution[e].total_claimed
           = SumFunctionOnSet(ClaimAmounts(e), NodeKeys)
BY DEF ClaimsInv, ClaimsExact, ClaimAmounts, SumFunction

LEMMA InitClaims == Init => ClaimsInv
<1> SUFFICES ASSUME Init PROVE ClaimsInv
  OBVIOUS
<1>1. AbsentIsBlank
  BY DEF Init, AbsentIsBlank
<1>2. ASSUME NEW e \in EpochIds
      PROVE  /\ epoch_distribution[e] = ZeroEpoch
             /\ \A k \in NodeKeys : claim_status[e][k] = ZeroClaim
             /\ SumFunctionOnSet(ClaimAmounts(e), NodeKeys) = 0
  <2>1. /\ epoch_distribution[e] = ZeroEpoch
        /\ \A k \in NodeKeys : claim_status[e][k] = ZeroClaim
    BY DEF Init
  <2>2. \A k \in NodeKeys : ClaimAmounts(e)[k] = 0
    BY <2>1 DEF ClaimAmounts, ZeroClaim
  <2>3. SumFunctionOnSet(ClaimAmounts(e), NodeKeys) = 0
    BY <2>2, SumOfZeros, ConstantsAssumption
  <2> QED BY <2>1, <2>3
<1>3. ClaimsExact
  BY <1>2 DEF ClaimsExact, ClaimAmounts, SumFunction, ZeroEpoch, ZeroClaim
<1>4. \A e \in EpochIds : IsFiniteSet(epoch_distribution[e].leaves)
  BY <1>2, FS_EmptySet DEF ZeroEpoch
<1>5. DisputedPaysNothing
  BY <1>2 DEF DisputedPaysNothing, ZeroClaim
<1> QED BY <1>1, <1>2, <1>3, <1>4, <1>5 DEF ClaimsInv, ZeroClaim

\* Posting opens an epoch in which nothing is claimed.
LEMMA PostEpochClaims ==
  ASSUME TypeOK, ClaimsInv,
         NEW e \in EpochIds, NEW s \in LeafSets, NEW n \in RewardAmounts,
         PostEpoch(e, s, n)
  PROVE  /\ ClaimsExact'
         /\ \A f \in EpochIds : IsFiniteSet(epoch_distribution'[f].leaves)
         /\ \A f \in EpochIds : ~epoch_distribution'[f].live =>
              \A k \in NodeKeys : ~claim_status'[f][k].live
<1>1. /\ ~epoch_distribution[e].live
      /\ epoch_distribution \in [EpochIds -> EpochAccount]
      /\ epoch_distribution'[e].live
      /\ epoch_distribution'[e].leaves = s
      /\ epoch_distribution'[e].total_reward = n
      /\ epoch_distribution'[e].total_claimed = 0
      /\ \A f \in EpochIds \ {e} : epoch_distribution'[f] = epoch_distribution[f]
      /\ claim_status' = claim_status
  BY DEF PostEpoch, TypeOK, RewardType
<1>2. /\ epoch_distribution[e] = ZeroEpoch
      /\ \A k \in NodeKeys : ~claim_status[e][k].live
  BY <1>1 DEF ClaimsInv, AbsentIsBlank
<1>3. IsFiniteSet(s) /\ n \in Nat
  BY FiniteAssumption, ConstantsAssumption
<1>4. ClaimAmounts(e)' = ClaimAmounts(e)
  BY <1>1 DEF ClaimAmounts
<1>5. 0 = SumFunctionOnSet(ClaimAmounts(e), NodeKeys)
  BY <1>2, ClaimedIsSum DEF ZeroEpoch
<1>6. ClaimsExact'
  BY <1>1, <1>2, <1>3, <1>5
     DEF ClaimsInv, ClaimsExact, SumFunction, ClaimAmounts
<1> QED BY <1>1, <1>2, <1>3, <1>6 DEF ClaimsInv

\* A claim adds its amount to both sides.
LEMMA ClaimClaims ==
  ASSUME TypeOK, ClaimsInv, NEW e \in EpochIds, NEW k \in NodeKeys,
         NEW n \in Nat, Claim(e, k, n)
  PROVE  /\ ClaimsExact'
         /\ \A f \in EpochIds : IsFiniteSet(epoch_distribution'[f].leaves)
         /\ \A f \in EpochIds : ~epoch_distribution'[f].live =>
              \A j \in NodeKeys : ~claim_status'[f][j].live
<1>0. /\ epoch_distribution \in [EpochIds -> EpochAccount]
      /\ claim_status \in [EpochIds -> [NodeKeys -> ClaimAccount]]
      /\ epoch_distribution[e].live /\ ~claim_status[e][k].live
      /\ <<k, n>> \in epoch_distribution[e].leaves
      /\ epoch_distribution[e].total_claimed + n
           <= epoch_distribution[e].total_reward
  BY DEF TypeOK, RewardType, Claim, ClaimOpen, WithinTotal
<1>1. /\ epoch_distribution'[e].live
      /\ epoch_distribution'[e].leaves = epoch_distribution[e].leaves
      /\ epoch_distribution'[e].total_reward = epoch_distribution[e].total_reward
      /\ epoch_distribution'[e].total_claimed
           = epoch_distribution[e].total_claimed + n
      /\ \A f \in EpochIds \ {e} : epoch_distribution'[f] = epoch_distribution[f]
  BY <1>0 DEF Claim, EpochAccount
<1>2. /\ claim_status'[e][k] = [live |-> TRUE, disputed |-> FALSE, amount |-> n]
      /\ \A j \in NodeKeys \ {k} : claim_status'[e][j] = claim_status[e][j]
      /\ \A f \in EpochIds \ {e} : claim_status'[f] = claim_status[f]
  BY <1>0 DEF Claim
<1>3. claim_status[e][k].amount = 0
  BY <1>0 DEF ClaimsInv, AbsentIsBlank, ZeroClaim
<1>4. SumFunctionOnSet(ClaimAmounts(e)', NodeKeys)
        = SumFunctionOnSet(ClaimAmounts(e), NodeKeys) + n
  <2>1. \A j \in NodeKeys : ClaimAmounts(e)[j] \in Int
    BY ClaimAmountsNat
  <2>2. /\ ClaimAmounts(e)[k] = 0 /\ ClaimAmounts(e)'[k] = n
        /\ \A j \in NodeKeys \ {k} : ClaimAmounts(e)'[j] = ClaimAmounts(e)[j]
    BY <1>2, <1>3 DEF ClaimAmounts
  <2>3. /\ IsFiniteSet(NodeKeys)
        /\ \A j \in NodeKeys :
             ClaimAmounts(e)[j] \in Int /\ ClaimAmounts(e)'[j] \in Int
        /\ \A j \in NodeKeys \ {k} : ClaimAmounts(e)[j] = ClaimAmounts(e)'[j]
    BY <2>1, <2>2, ConstantsAssumption
  <2>4. SumFunctionOnSet(ClaimAmounts(e)', NodeKeys)
          = SumFunctionOnSet(ClaimAmounts(e), NodeKeys)
              - ClaimAmounts(e)[k] + ClaimAmounts(e)'[k]
    BY <2>3, SumChanges
  <2>5. SumFunctionOnSet(ClaimAmounts(e), NodeKeys) \in Int
    BY <2>3, SumIsInt
  <2> QED BY <2>2, <2>4, <2>5
<1>5. epoch_distribution'[e].total_claimed
        = SumFunctionOnSet(ClaimAmounts(e)', NodeKeys)
  BY <1>1, <1>4, ClaimedIsSum
<1>6. \A j \in NodeKeys :
        claim_status'[e][j].live /\ ~claim_status'[e][j].disputed =>
          <<j, claim_status'[e][j].amount>> \in epoch_distribution'[e].leaves
  <2> SUFFICES ASSUME NEW j \in NodeKeys,
                      claim_status'[e][j].live, ~claim_status'[e][j].disputed
               PROVE  <<j, claim_status'[e][j].amount>>
                        \in epoch_distribution[e].leaves
    BY <1>1
  <2>1. CASE j = k
    <3>1. claim_status'[e][j].amount = n
      BY <1>2, <2>1
    <3>2. <<k, n>> \in epoch_distribution[e].leaves
      BY <1>0 DEF Claim
    <3> QED BY <2>1, <3>1, <3>2
  <2>2. CASE j # k
    BY <1>2, <2>2 DEF ClaimsInv, ClaimsExact
  <2> QED BY <2>1, <2>2
<1>7. ClaimsExact'
  <2> SUFFICES ASSUME NEW f \in EpochIds
               PROVE  /\ epoch_distribution'[f].total_claimed
                           = SumFunctionOnSet(ClaimAmounts(f)', NodeKeys)
                      /\ epoch_distribution'[f].total_claimed
                           <= epoch_distribution'[f].total_reward
                      /\ \A j \in NodeKeys :
                           claim_status'[f][j].live /\ ~claim_status'[f][j].disputed
                             => <<j, claim_status'[f][j].amount>>
                                  \in epoch_distribution'[f].leaves
    BY DEF ClaimsExact, ClaimAmounts, SumFunction
  <2>1. CASE f = e
    BY <1>0, <1>1, <1>5, <1>6, <2>1
  <2>2. CASE f # e
    <3>1. /\ epoch_distribution'[f] = epoch_distribution[f]
          /\ claim_status'[f] = claim_status[f]
          /\ ClaimAmounts(f)' = ClaimAmounts(f)
      BY <1>1, <1>2, <2>2 DEF ClaimAmounts
    <3> QED BY <3>1, ClaimedIsSum DEF ClaimsInv, ClaimsExact
  <2> QED BY <2>1, <2>2
<1> QED BY <1>0, <1>1, <1>2, <1>7 DEF ClaimsInv

\* A dispute takes a slot without an amount.
LEMMA DisputeClaims ==
  ASSUME TypeOK, ClaimsInv, NEW e \in EpochIds, NEW k \in NodeKeys,
         NEW v \in Severities, NEW n \in StakeAmounts \cup {0},
         Dispute(e, k, v, n)
  PROVE  /\ ClaimsExact'
         /\ \A f \in EpochIds : IsFiniteSet(epoch_distribution'[f].leaves)
         /\ \A f \in EpochIds : ~epoch_distribution'[f].live =>
              \A j \in NodeKeys : ~claim_status'[f][j].live
<1>1. /\ claim_status \in [EpochIds -> [NodeKeys -> ClaimAccount]]
      /\ epoch_distribution' = epoch_distribution
      /\ epoch_distribution[e].live /\ ~claim_status[e][k].live
      /\ claim_status' = [claim_status EXCEPT ![e][k] =
           [live |-> TRUE, disputed |-> TRUE, amount |-> 0]]
  BY DEF TypeOK, RewardType, Dispute, ClaimOpen
<1>2. /\ claim_status'[e][k] = [live |-> TRUE, disputed |-> TRUE, amount |-> 0]
      /\ \A j \in NodeKeys \ {k} : claim_status'[e][j] = claim_status[e][j]
      /\ \A f \in EpochIds \ {e} : claim_status'[f] = claim_status[f]
  BY <1>1
<1>3. claim_status[e][k].amount = 0
  BY <1>1 DEF ClaimsInv, AbsentIsBlank, ZeroClaim
<1>4. \A f \in EpochIds : ClaimAmounts(f)' = ClaimAmounts(f)
  BY <1>2, <1>3 DEF ClaimAmounts
<1>5. ClaimsExact'
  <2> SUFFICES ASSUME NEW f \in EpochIds
               PROVE  /\ epoch_distribution'[f].total_claimed
                           = SumFunctionOnSet(ClaimAmounts(f)', NodeKeys)
                      /\ epoch_distribution'[f].total_claimed
                           <= epoch_distribution'[f].total_reward
                      /\ \A j \in NodeKeys :
                           claim_status'[f][j].live /\ ~claim_status'[f][j].disputed
                             => <<j, claim_status'[f][j].amount>>
                                  \in epoch_distribution'[f].leaves
    BY DEF ClaimsExact, ClaimAmounts, SumFunction
  <2>1. /\ epoch_distribution'[f].total_claimed
             = SumFunctionOnSet(ClaimAmounts(f)', NodeKeys)
        /\ epoch_distribution'[f].total_claimed
             <= epoch_distribution'[f].total_reward
    BY <1>1, <1>4, ClaimedIsSum DEF ClaimsInv, ClaimsExact
  <2>2. \A j \in NodeKeys :
          claim_status'[f][j] = claim_status[f][j] \/ claim_status'[f][j].disputed
    BY <1>2
  <2> QED BY <1>1, <2>1, <2>2 DEF ClaimsInv, ClaimsExact
<1>6. \A f \in EpochIds : ~epoch_distribution'[f].live =>
        \A j \in NodeKeys : ~claim_status'[f][j].live
  BY <1>1, <1>2 DEF ClaimsInv
<1> QED BY <1>1, <1>5, <1>6 DEF ClaimsInv

\* A claim status is disputed only when it is made without an amount.
LEMMA DisputedStep ==
  ASSUME TypeOK, ClaimsInv, [Next]_vars
  PROVE  DisputedPaysNothing'
<1> USE DEF ClaimsInv, DisputedPaysNothing, TypeOK, RewardType
<1>1. ASSUME NEW e \in EpochIds, NEW s \in LeafSets, NEW n \in RewardAmounts,
             PostEpoch(e, s, n)
      PROVE  DisputedPaysNothing'
  BY <1>1 DEF PostEpoch
<1>2. ASSUME NEW e \in EpochIds, NEW leaf \in epoch_distribution[e].leaves,
             Claim(e, leaf[1], leaf[2])
      PROVE  DisputedPaysNothing'
  BY <1>2 DEF Claim
<1>3. ASSUME NEW e \in EpochIds, NEW k \in NodeKeys, NEW v \in Severities,
             NEW n \in StakeAmounts \cup {0}, Dispute(e, k, v, n)
      PROVE  DisputedPaysNothing'
  BY <1>3 DEF Dispute
<1>4. CASE SameRail
  BY <1>4 DEF SameRail
<1> QED BY <1>1, <1>2, <1>3, <1>4, RailFrame

LEMMA ClaimsStep == TypeOK /\ ClaimsInv /\ [Next]_vars => ClaimsInv'
<1> SUFFICES ASSUME TypeOK, ClaimsInv, [Next]_vars PROVE ClaimsInv'
  OBVIOUS
<1>0. AbsentIsBlank' /\ DisputedPaysNothing'
  BY BlankInductive, DisputedStep DEF ClaimsInv
<1>1. ASSUME NEW e \in EpochIds, NEW s \in LeafSets, NEW n \in RewardAmounts,
             PostEpoch(e, s, n)
      PROVE  ClaimsInv'
  BY <1>0, <1>1, PostEpochClaims DEF ClaimsInv
<1>2. ASSUME NEW e \in EpochIds, NEW leaf \in epoch_distribution[e].leaves,
             Claim(e, leaf[1], leaf[2])
      PROVE  ClaimsInv'
  <2>1. leaf[1] \in NodeKeys /\ leaf[2] \in Nat
    BY DEF TypeOK, RewardType, EpochAccount
  <2> QED BY <1>0, <1>2, <2>1, ClaimClaims DEF ClaimsInv
<1>3. ASSUME NEW e \in EpochIds, NEW k \in NodeKeys, NEW v \in Severities,
             NEW n \in StakeAmounts \cup {0}, Dispute(e, k, v, n)
      PROVE  ClaimsInv'
  BY <1>0, <1>3, DisputeClaims DEF ClaimsInv
<1>4. CASE SameRail
  BY <1>0, <1>4 DEF SameRail, ClaimsInv, ClaimsExact
<1> QED BY <1>1, <1>2, <1>3, <1>4, RailFrame

LEMMA ClaimsInvariant == Spec => []ClaimsInv
BY InitClaims, ClaimsStep, TypeCorrect, PTL DEF Spec

\* For any number of nodes and epochs: total_claimed is the sum of the paid
\* claim statuses, within the epoch's total, each payment one of the leaves of
\* its node key and a disputed key paid nothing (lib.rs:1508, 1600).
THEOREM ClaimsAlwaysExact == Spec => []ClaimsExact
<1>1. ClaimsInv => ClaimsExact
  BY DEF ClaimsInv
<1> QED BY <1>1, ClaimsInvariant, PTL

-----------------------------------------------------------------------------
(* The books and the epochs                                                *)

\* What each epoch still owes.
Debts == [e \in EpochIds |-> Unclaimed(e)]

\* initialize_core starts the counters anew, so BooksExact survives it only if
\* the core that was shut down owed nothing.
BooksInv ==
  /\ BooksExact
  /\ ~registry.live => BookOutstanding = 0

SameBooks ==
  /\ UNCHANGED <<epoch_distribution, gasless_paid, registry.live,
                 distributor.cumulative_obligated,
                 distributor.cumulative_claimed>>

\* Five instructions move the books; no other step does.
LEMMA BooksFrame ==
  TypeOK /\ [Next]_vars =>
    \/ \E e \in EpochIds, s \in LeafSets, n \in RewardAmounts :
         PostEpoch(e, s, n)
    \/ \E e \in EpochIds : \E leaf \in epoch_distribution[e].leaves :
         Claim(e, leaf[1], leaf[2])
    \/ \E k \in NodeKeys, n \in RewardAmounts : ClaimRewards(k, n)
    \/ \E a, p, d \in Keys, b \in Unbondings, w \in Windows :
         InitializeCore(a, p, d, b, w)
    \/ ShutdownCore
    \/ SameBooks
<1> SUFFICES ASSUME TypeOK, [Next]_vars,
                    ~ \E e \in EpochIds, s \in LeafSets, n \in RewardAmounts :
                        PostEpoch(e, s, n),
                    ~ \E e \in EpochIds : \E leaf \in epoch_distribution[e].leaves :
                        Claim(e, leaf[1], leaf[2]),
                    ~ \E k \in NodeKeys, n \in RewardAmounts : ClaimRewards(k, n),
                    ~ \E a, p, d \in Keys, b \in Unbondings, w \in Windows :
                        InitializeCore(a, p, d, b, w),
                    ~ ShutdownCore
             PROVE  SameBooks
  OBVIOUS
<1>0. registry \in RegistryAccount /\ distributor \in DistributorAccount
  BY DEF TypeOK, RegistryType, RewardType
<1> USE DEF SameBooks, rewardVars, registryVars
<1>1. CASE RegistryNext
  <2>1. ASSUME NEW t \in Trees, RegisterTree(t) \/ ForeignMint(t)
        PROVE  SameBooks
    BY <1>0, <2>1 DEF RegisterTree, ForeignMint, RegistryAccount
  <2>2. ASSUME NEW k \in NodeKeys, NEW i \in ShardIds, NEW m \in Metas,
               RegisterNode(k, i, m)
        PROVE  SameBooks
    BY <1>0, <2>2 DEF RegisterNode, RegistryAccount
  <2>3. ASSUME NEW a \in Keys, SetCoreAuthority(a)
        PROVE  SameBooks
    BY <1>0, <2>3 DEF SetCoreAuthority, RegistryAccount, DistributorAccount
  <2>4. ASSUME NEW a \in Keys, SetPosterAuthority(a) \/ SetDisputeAuthority(a)
        PROVE  SameBooks
    BY <1>0, <2>4 DEF SetPosterAuthority, SetDisputeAuthority,
       DistributorAccount
  <2>5. ASSUME NEW p \in BOOLEAN, SetPaused(p) \/ SetRegistryCollection
        PROVE  SameBooks
    BY <1>0, <2>5 DEF SetPaused, SetRegistryCollection, RegistryAccount
  <2>6. \/ \E t \in Trees : RegisterTree(t) \/ ForeignMint(t)
        \/ \E k \in NodeKeys, i \in ShardIds, m \in Metas : RegisterNode(k, i, m)
        \/ \E k \in NodeKeys, m \in Metas : UpdateNode(k, m)
        \/ \E k \in NodeKeys : DeregisterNode(k)
        \/ \E a \in Keys : SetCoreAuthority(a) \/ SetPosterAuthority(a)
                             \/ SetDisputeAuthority(a)
        \/ \E p \in BOOLEAN : SetPaused(p)
        \/ SetRegistryCollection
    BY <1>1 DEF RegistryNext
  <2>7. ASSUME NEW k \in NodeKeys, NEW m \in Metas, UpdateNode(k, m)
        PROVE  SameBooks
    BY <2>7 DEF UpdateNode
  <2>8. ASSUME NEW k \in NodeKeys, DeregisterNode(k)
        PROVE  SameBooks
    BY <1>0, <2>8 DEF DeregisterNode, RegistryAccount
  <2> QED BY <2>1, <2>2, <2>3, <2>4, <2>5, <2>6, <2>7, <2>8
<1>2. CASE StakingNext
  BY <1>2 DEF StakingNext, Stake, RequestUnstake, WithdrawUnstaked,
     CloseEmptyStakePosition, DonateToStakeVault
<1>3. CASE EscrowNext
  BY <1>3 DEF EscrowNext, DepositEscrow, WithdrawEscrow, CloseEscrow,
     PayTraffic, PayTrafficFromEscrow, SettleFromEscrow, SpendFromEscrow,
     CreditSplit, DonateToEscrowVault
<1>4. CASE DistributorNext
  <2>1. ASSUME NEW n \in FundAmounts, FundRewardVault(n)
        PROVE  SameBooks
    BY <2>1 DEF FundRewardVault
  <2>2. ASSUME NEW e \in EpochIds, NEW k \in NodeKeys, NEW v \in Severities,
               NEW n \in StakeAmounts \cup {0}, Dispute(e, k, v, n)
        PROVE  SameBooks
    BY <2>2 DEF Dispute
  <2> QED BY <1>4, <2>1, <2>2 DEF DistributorNext
<1>5. CASE Tick \/ UNCHANGED vars
  BY <1>5 DEF Tick, vars
<1> QED BY <1>1, <1>2, <1>3, <1>4, <1>5 DEF Next

\* The two sums of the books, as sums of functions into the integers.
LEMMA BookSums ==
  ASSUME TypeOK
  PROVE  /\ TotalUnclaimed = SumFunctionOnSet(Debts, EpochIds)
         /\ TotalGasless = SumFunctionOnSet(gasless_paid, NodeKeys)
         /\ \A e \in EpochIds : Debts[e] \in Int
         /\ \A k \in NodeKeys : gasless_paid[k] \in Int
         /\ TotalUnclaimed \in Int
         /\ TotalGasless \in Nat
<1>1. /\ TotalUnclaimed = SumFunctionOnSet(Debts, EpochIds)
      /\ \A e \in EpochIds : Debts[e] \in Int
  BY DEF TotalUnclaimed, Debts, SumFunction, Unclaimed, TypeOK, RewardType,
     EpochAccount
<1>2. /\ TotalGasless = SumFunctionOnSet(gasless_paid, NodeKeys)
      /\ \A k \in NodeKeys : gasless_paid[k] \in Nat
  BY DEF TotalGasless, SumFunction, TypeOK, RewardType
<1>3. TotalUnclaimed \in Int
  BY <1>1, FiniteAssumption, SumIsInt
<1>4. TotalGasless \in Nat
  BY <1>2, ConstantsAssumption, SumIsNat
<1> QED BY <1>1, <1>2, <1>3, <1>4

\* What is owed changes by what one epoch owes.
LEMMA OneEpochChanges ==
  ASSUME TypeOK, TypeOK', NEW e \in EpochIds,
         \A f \in EpochIds \ {e} : epoch_distribution'[f] = epoch_distribution[f]
  PROVE  TotalUnclaimed' = TotalUnclaimed - Unclaimed(e) + Unclaimed(e)'
<1>1. /\ IsFiniteSet(EpochIds)
      /\ \A f \in EpochIds : Debts[f] \in Int /\ Debts'[f] \in Int
  BY FiniteAssumption, BookSums
     DEF Debts, Unclaimed, TypeOK, RewardType, EpochAccount
<1>2. \A f \in EpochIds \ {e} : Debts[f] = Debts'[f]
  BY DEF Debts, Unclaimed
<1>3. SumFunctionOnSet(Debts', EpochIds)
        = SumFunctionOnSet(Debts, EpochIds) - Debts[e] + Debts'[e]
  BY <1>1, <1>2, SumChanges
<1>4. /\ TotalUnclaimed = SumFunctionOnSet(Debts, EpochIds)
      /\ TotalUnclaimed' = SumFunctionOnSet(Debts', EpochIds)
  BY DEF TotalUnclaimed, Debts, SumFunction
<1> QED BY <1>3, <1>4 DEF Debts

LEMMA BooksStep ==
  TypeOK /\ TypeOK' /\ ClaimsInv /\ BooksInv /\ [Next]_vars => BooksInv'
<1> SUFFICES ASSUME TypeOK, TypeOK', ClaimsInv, BooksInv, [Next]_vars
             PROVE  BooksInv'
  OBVIOUS
<1>0. /\ epoch_distribution \in [EpochIds -> EpochAccount]
      /\ distributor \in DistributorAccount
      /\ gasless_paid \in [NodeKeys -> Nat]
      /\ TotalUnclaimed \in Int /\ TotalGasless \in Nat
      /\ distributor.cumulative_obligated \in Nat
      /\ distributor.cumulative_claimed \in Nat
      /\ \A e \in EpochIds : Unclaimed(e) \in Int
  BY BookSums DEF TypeOK, RewardType, DistributorAccount, EpochAccount, Unclaimed
<1> USE DEF BooksInv, BooksExact, BookOutstanding
<1>1. ASSUME NEW e \in EpochIds, NEW s \in LeafSets, NEW n \in RewardAmounts,
             PostEpoch(e, s, n)
      PROVE  BooksInv'
  <2>1. n \in Nat /\ Unclaimed(e) = 0
    BY <1>1, ConstantsAssumption
       DEF ClaimsInv, AbsentIsBlank, PostEpoch, ZeroEpoch, Unclaimed
  <2>2. /\ Unclaimed(e)' = n
        /\ \A f \in EpochIds \ {e} :
             epoch_distribution'[f] = epoch_distribution[f]
    BY <1>0, <1>1, <2>1 DEF PostEpoch, Unclaimed
  <2>3. TotalUnclaimed' = TotalUnclaimed + n
    BY <1>0, <2>1, <2>2, OneEpochChanges
  <2>4. /\ distributor'.cumulative_obligated
             = distributor.cumulative_obligated + n
        /\ distributor'.cumulative_claimed = distributor.cumulative_claimed
        /\ gasless_paid' = gasless_paid /\ registry'.live
    BY <1>0, <1>1 DEF PostEpoch, DistributorAccount, registryVars
  <2>5. TotalGasless' = TotalGasless
    BY <2>4 DEF TotalGasless
  <2> QED BY <1>0, <2>1, <2>3, <2>4, <2>5
<1>2. ASSUME NEW e \in EpochIds, NEW k \in NodeKeys, NEW n \in Nat,
             Claim(e, k, n)
      PROVE  BooksInv'
  <2>1. /\ Unclaimed(e)' = Unclaimed(e) - n
        /\ \A f \in EpochIds \ {e} :
             epoch_distribution'[f] = epoch_distribution[f]
    <3>1. /\ epoch_distribution'[e].total_claimed
               = epoch_distribution[e].total_claimed + n
          /\ epoch_distribution'[e].total_reward
               = epoch_distribution[e].total_reward
          /\ \A f \in EpochIds \ {e} :
               epoch_distribution'[f] = epoch_distribution[f]
      BY <1>0, <1>2 DEF Claim, EpochAccount
    <3>2. /\ epoch_distribution[e].total_claimed \in Nat
          /\ epoch_distribution[e].total_reward \in Nat
      BY <1>0 DEF EpochAccount
    <3> QED BY <3>1, <3>2 DEF Unclaimed
  <2>2. TotalUnclaimed' = TotalUnclaimed - n
    BY <1>0, <2>1, OneEpochChanges
  <2>3. /\ distributor'.cumulative_claimed = distributor.cumulative_claimed + n
        /\ distributor'.cumulative_obligated = distributor.cumulative_obligated
        /\ gasless_paid' = gasless_paid /\ registry'.live
    BY <1>0, <1>2 DEF Claim, DistributorAccount, registryVars
  <2>4. TotalGasless' = TotalGasless
    BY <2>3 DEF TotalGasless
  <2> QED BY <1>0, <2>2, <2>3, <2>4
<1>3. ASSUME NEW k \in NodeKeys, NEW n \in RewardAmounts, ClaimRewards(k, n)
      PROVE  BooksInv'
  <2> DEFINE p == Payout(k, n)
  <2>1. p \in Int
    BY <1>3, ConstantsAssumption
       DEF ClaimRewards, Payout, TypeOK, RegistryType, NodeAccount
  <2>2. /\ gasless_paid' = [gasless_paid EXCEPT ![k] = @ + p]
        /\ distributor' = [distributor EXCEPT !.cumulative_claimed = @ + p]
        /\ epoch_distribution' = epoch_distribution
        /\ registry.live /\ registry' = registry
    BY <1>3 DEF ClaimRewards
  <2> HIDE DEF p
  <2>3. /\ gasless_paid[k] \in Nat /\ gasless_paid'[k] = gasless_paid[k] + p
        /\ \A j \in NodeKeys : gasless_paid[j] \in Int /\ gasless_paid'[j] \in Int
        /\ \A j \in NodeKeys \ {k} : gasless_paid[j] = gasless_paid'[j]
    BY <1>0, <2>1, <2>2
  <2>4. SumFunctionOnSet(gasless_paid', NodeKeys)
          = SumFunctionOnSet(gasless_paid, NodeKeys)
              - gasless_paid[k] + gasless_paid'[k]
    BY <2>3, SumChanges, ConstantsAssumption
  <2>5. TotalGasless' = TotalGasless + p
    <3>1. /\ TotalGasless = SumFunctionOnSet(gasless_paid, NodeKeys)
          /\ TotalGasless' = SumFunctionOnSet(gasless_paid', NodeKeys)
      BY <1>0, <2>2 DEF TotalGasless, SumFunction
    <3> QED BY <1>0, <2>1, <2>3, <2>4, <3>1
  <2>6. TotalUnclaimed' = TotalUnclaimed
    BY <2>2 DEF TotalUnclaimed, Unclaimed
  <2>7. /\ distributor'.cumulative_claimed = distributor.cumulative_claimed + p
        /\ distributor'.cumulative_obligated = distributor.cumulative_obligated
    BY <1>0, <2>2 DEF DistributorAccount
  <2> QED BY <1>0, <2>1, <2>2, <2>5, <2>6, <2>7
<1>4. ASSUME NEW a \in Keys, NEW p \in Keys, NEW d \in Keys,
             NEW b \in Unbondings, NEW w \in Windows,
             InitializeCore(a, p, d, b, w)
      PROVE  BooksInv'
  <2>1. /\ ~registry.live /\ registry'.live
        /\ distributor'.cumulative_obligated = 0
        /\ distributor'.cumulative_claimed = 0
        /\ UNCHANGED <<epoch_distribution, gasless_paid>>
    BY <1>4 DEF InitializeCore, ZeroDistributor, ZeroRegistry
  <2>2. TotalUnclaimed' = TotalUnclaimed /\ TotalGasless' = TotalGasless
    BY <2>1 DEF TotalUnclaimed, Unclaimed, TotalGasless
  <2> QED BY <1>0, <2>1, <2>2
<1>5. CASE ShutdownCore
  <2>1. /\ distributor.cumulative_obligated = distributor.cumulative_claimed
        /\ distributor'.cumulative_obligated = 0
        /\ distributor'.cumulative_claimed = 0
        /\ UNCHANGED <<epoch_distribution, gasless_paid>>
    BY <1>5 DEF ShutdownCore, BooksSettled, ZeroDistributor
  <2>2. TotalUnclaimed' = TotalUnclaimed /\ TotalGasless' = TotalGasless
    BY <2>1 DEF TotalUnclaimed, Unclaimed, TotalGasless
  <2> QED BY <1>0, <2>1, <2>2
<1>6. CASE SameBooks
  <2>1. TotalUnclaimed' = TotalUnclaimed /\ TotalGasless' = TotalGasless
    BY <1>6 DEF SameBooks, TotalUnclaimed, Unclaimed, TotalGasless
  <2> QED BY <1>6, <2>1 DEF SameBooks
<1>7. ASSUME NEW e \in EpochIds, NEW leaf \in epoch_distribution[e].leaves,
             Claim(e, leaf[1], leaf[2])
      PROVE  BooksInv'
  <2>1. leaf[1] \in NodeKeys /\ leaf[2] \in Nat
    BY <1>0 DEF EpochAccount
  <2> QED BY <1>2, <1>7, <2>1
<1> QED BY <1>1, <1>3, <1>4, <1>5, <1>6, <1>7, BooksFrame

LEMMA InitBooks == Init => BooksInv
<1> SUFFICES ASSUME Init PROVE BooksInv
  OBVIOUS
<1>1. \A e \in EpochIds : Debts[e] = 0
  BY DEF Init, Debts, Unclaimed, ZeroEpoch
<1>2. \A k \in NodeKeys : gasless_paid[k] = 0
  BY DEF Init
<1>3. /\ SumFunctionOnSet(Debts, EpochIds) = 0
      /\ SumFunctionOnSet(gasless_paid, NodeKeys) = 0
  BY <1>1, <1>2, SumOfZeros, FiniteAssumption, ConstantsAssumption
<1>4. TotalUnclaimed = 0 /\ TotalGasless = 0
  BY <1>3, BookSums, InitType
<1> QED BY <1>4 DEF BooksInv, BooksExact, BookOutstanding, Init, ZeroDistributor

LEMMA BooksInvariant == Spec => []BooksInv
BY InitBooks, BooksStep, ClaimsInvariant, TypeCorrect, PTL DEF Spec

\* The counters and the epochs always tell the same story, over any number of
\* epochs, claims, gasless payouts, shutdowns and new cores: they differ by
\* exactly what the gasless rail paid.
THEOREM BooksAlwaysExact == Spec => []BooksExact
<1>1. BooksInv => BooksExact
  BY DEF BooksInv
<1> QED BY <1>1, BooksInvariant, PTL

\* So the vault is short of the posted rewards by no more than the gasless
\* rail paid.
THEOREM EpochRailAlwaysSolvent == Spec => []EpochRailSolvent
<1>1. TypeOK /\ BooksInv /\ VaultCoversBooks => EpochRailSolvent
  <2> SUFFICES ASSUME TypeOK, BooksInv, VaultCoversBooks PROVE EpochRailSolvent
    OBVIOUS
  <2>1. TotalUnclaimed \in Int /\ TotalGasless \in Nat /\ reward_vault \in Nat
        /\ BookOutstanding \in Int
    BY BookSums DEF TypeOK, RewardType, DistributorAccount, BookOutstanding
  <2> QED BY <2>1 DEF BooksInv, BooksExact, VaultCoversBooks, EpochRailSolvent
<1> QED BY <1>1, BooksInvariant, VaultAlwaysCoversBooks, TypeCorrect, PTL

\* The leaves of an epoch that were paid, and one that is open, are different
\* leaves: together they are worth no more than all of them.
LEMMA PaidAndOpenWithinLeaves ==
  ASSUME TypeOK, ClaimsInv, NEW e \in EpochIds,
         NEW leaf \in epoch_distribution[e].leaves,
         ~claim_status[e][leaf[1]].live
  PROVE  epoch_distribution[e].total_claimed + leaf[2]
           <= SumFunction([l \in epoch_distribution[e].leaves |-> l[2]])
<1> DEFINE leaves == epoch_distribution[e].leaves
           worth  == [l \in leaves |-> l[2]]
           Paid   == {k \in NodeKeys : /\ claim_status[e][k].live
                                       /\ ~claim_status[e][k].disputed}
           amount == ClaimAmounts(e)
           LeafPaid == [k \in Paid |-> <<k, amount[k]>>]
           paid   == {LeafPaid[k] : k \in Paid}
<1>1. /\ IsFiniteSet(leaves) /\ IsFiniteSet(NodeKeys) /\ IsFiniteSet(Paid)
      /\ leaves \in SUBSET (NodeKeys \X Nat)
      /\ \A l \in leaves : worth[l] \in Nat
  <2>1. leaves \in SUBSET (NodeKeys \X Nat)
    BY DEF TypeOK, RewardType, EpochAccount
  <2>2. IsFiniteSet(NodeKeys) /\ IsFiniteSet(Paid)
    BY ConstantsAssumption, FS_Subset
  <2> QED BY <2>1, <2>2 DEF ClaimsInv
<1>2. \A k \in NodeKeys : amount[k] \in Nat
  BY ClaimAmountsNat
<1>3. \A k \in NodeKeys \ Paid : amount[k] = 0
  <2> SUFFICES ASSUME NEW k \in NodeKeys, k \notin Paid PROVE amount[k] = 0
    OBVIOUS
  <2>1. CASE ~claim_status[e][k].live
    BY <2>1 DEF ClaimsInv, AbsentIsBlank, ZeroClaim, ClaimAmounts
  <2>2. CASE claim_status[e][k].live /\ claim_status[e][k].disputed
    BY <2>2 DEF ClaimsInv, DisputedPaysNothing, ClaimAmounts
  <2> QED BY <2>1, <2>2
<1>4. \A k \in Paid : LeafPaid[k] \in leaves /\ worth[LeafPaid[k]] = amount[k]
  <2> SUFFICES ASSUME NEW k \in Paid
               PROVE  LeafPaid[k] \in leaves /\ worth[LeafPaid[k]] = amount[k]
    OBVIOUS
  <2>1. amount[k] = claim_status[e][k].amount
    BY DEF ClaimAmounts
  <2>2. LeafPaid[k] = <<k, amount[k]>> /\ <<k, amount[k]>> \in leaves
    BY <2>1 DEF ClaimsInv, ClaimsExact
  <2> QED BY <2>2
<1>5. \A j, k \in Paid : LeafPaid[j] = LeafPaid[k] => j = k
  OBVIOUS
<1>6. leaf \notin paid
  <2> SUFFICES ASSUME NEW k \in Paid, leaf = LeafPaid[k] PROVE FALSE
    OBVIOUS
  <2>1. leaf[1] = k
    OBVIOUS
  <2> QED BY <2>1
<1>7. paid \in SUBSET leaves
  BY <1>4
<1> HIDE DEF worth, LeafPaid, amount
<1>8. SumFunctionOnSet(worth, paid) = SumFunctionOnSet(amount, Paid)
  <2>1. \A k \in Paid : amount[k] \in Int /\ worth[LeafPaid[k]] = amount[k]
    BY <1>2, <1>4
  <2>2. IsFiniteSet(Paid)
    BY <1>1
  <2>3. \A x, y \in Paid : LeafPaid[x] = LeafPaid[y] => x = y
    BY <1>5
  <2> HIDE DEF Paid
  <2>4. SumFunctionOnSet(worth, {LeafPaid[x] : x \in Paid})
          = SumFunctionOnSet(amount, Paid)
    BY <2>1, <2>2, <2>3, SumRenamed
  <2> QED BY <2>4
<1>9. SumFunctionOnSet(amount, Paid) = SumFunctionOnSet(amount, NodeKeys)
  <2> DEFINE Rest == NodeKeys \ Paid
  <2>1. /\ IsFiniteSet(Rest) /\ Paid \cap Rest = {} /\ Paid \cup Rest = NodeKeys
        /\ \A k \in Paid \cup Rest : amount[k] \in Int
        /\ \A k \in Rest : amount[k] = 0
    <3>1. Rest \in SUBSET NodeKeys /\ Paid \in SUBSET NodeKeys
      OBVIOUS
    <3>2. Paid \cap Rest = {} /\ Paid \cup Rest = NodeKeys
      OBVIOUS
    <3>3. IsFiniteSet(Rest)
      BY <1>1, <3>1, FS_Subset
    <3> HIDE DEF Paid
    <3>4. \A k \in Rest : amount[k] = 0
      BY <1>3
    <3> HIDE DEF Rest
    <3>5. \A k \in Paid \cup Rest : amount[k] \in Int
      BY <1>2, <3>2
    <3> QED BY <3>2, <3>3, <3>4, <3>5
  <2> HIDE DEF Paid, Rest
  <2>2. SumFunctionOnSet(amount, Rest) = 0
    BY <2>1, SumOfZeros
  <2>3. SumFunctionOnSet(amount, Paid \cup Rest)
          = SumFunctionOnSet(amount, Paid) + SumFunctionOnSet(amount, Rest)
    BY <1>1, <2>1, SumOfUnion
  <2>4. SumFunctionOnSet(amount, Paid) \in Int
    BY <1>1, <2>1, SumIsInt
  <2>5. SumFunctionOnSet(amount, Paid \cup Rest)
          = SumFunctionOnSet(amount, NodeKeys)
    BY <2>1
  <2> QED BY <2>2, <2>3, <2>4, <2>5
<1>10. epoch_distribution[e].total_claimed = SumFunctionOnSet(worth, paid)
  BY <1>8, <1>9, ClaimedIsSum DEF amount
<1> HIDE DEF paid, leaves, Paid
<1> DEFINE both == paid \cup {leaf}
<1>11. /\ both \in SUBSET leaves /\ IsFiniteSet(both) /\ leaf \in both
       /\ both \ {leaf} = paid /\ \A l \in both : worth[l] \in Int
  <2>1. leaf \in leaves
    BY DEF leaves
  <2>2. both \in SUBSET leaves
    BY <1>7, <2>1
  <2>3. IsFiniteSet(both)
    BY <1>1, <2>2, FS_Subset
  <2> QED BY <1>1, <1>6, <2>2, <2>3
<1> HIDE DEF both
<1>12. SumFunctionOnSet(worth, both) = worth[leaf] + SumFunctionOnSet(worth, paid)
  BY <1>11, SumWithout
<1>13. SumFunctionOnSet(worth, both) <= SumFunctionOnSet(worth, leaves)
  BY <1>1, <1>11, SumOfSubset
<1>14. /\ worth[leaf] = leaf[2] /\ leaf[2] \in Nat
       /\ SumFunction([l \in leaves |-> l[2]]) = SumFunctionOnSet(worth, leaves)
  <2>1. leaf \in leaves /\ worth = [l \in leaves |-> l[2]]
    BY DEF leaves, worth
  <2> QED BY <1>1, <2>1 DEF SumFunction
<1>15. SumFunctionOnSet(worth, paid) \in Int /\ SumFunctionOnSet(worth, leaves) \in Int
  <2>1. IsFiniteSet(paid) /\ \A l \in leaves : worth[l] \in Int
    BY <1>1, <1>7, FS_Subset
  <2> QED BY <1>1, <1>7, <2>1, SumIsInt
<1>16. epoch_distribution[e].total_claimed + leaf[2]
         <= SumFunction([l \in leaves |-> l[2]])
  BY <1>10, <1>12, <1>13, <1>14, <1>15
<1> QED BY <1>16 DEF leaves

\* While only the epoch rail is used, every open leaf of an epoch whose total
\* covers its leaves can be paid: neither the epoch's total nor the vault
\* refuses it, whatever was claimed, disputed, posted or shut down before.
THEOREM LeavesAlwaysPayable == Spec => []LeafPayable
<1>1. TypeOK /\ ClaimsInv /\ EpochRailSolvent => LeafPayable
  <2> SUFFICES ASSUME TypeOK, ClaimsInv, EpochRailSolvent, TotalGasless = 0,
                      NEW e \in EpochIds, WellFormed(e),
                      NEW leaf \in epoch_distribution[e].leaves,
                      ~claim_status[e][leaf[1]].live
               PROVE  /\ epoch_distribution[e].total_claimed + leaf[2]
                           <= epoch_distribution[e].total_reward
                      /\ leaf[2] <= reward_vault
    BY DEF LeafPayable
  <2> DEFINE worth == SumFunction([l \in epoch_distribution[e].leaves |-> l[2]])
  <2>1. /\ leaf[2] \in Nat /\ reward_vault \in Nat
        /\ epoch_distribution[e].total_claimed \in Nat
        /\ epoch_distribution[e].total_reward \in Nat
    BY DEF TypeOK, RewardType, EpochAccount
  <2>2. worth \in Int
    <3>1. /\ IsFiniteSet(epoch_distribution[e].leaves)
          /\ \A l \in epoch_distribution[e].leaves :
               [m \in epoch_distribution[e].leaves |-> m[2]][l] \in Int
      BY DEF ClaimsInv, TypeOK, RewardType, EpochAccount
    <3> QED BY <3>1, SumIsInt DEF SumFunction
  <2>3. /\ epoch_distribution[e].total_claimed + leaf[2] <= worth
        /\ worth <= epoch_distribution[e].total_reward
    BY PaidAndOpenWithinLeaves DEF WellFormed
  <2> HIDE DEF worth
  <2>4. epoch_distribution[e].total_claimed + leaf[2]
          <= epoch_distribution[e].total_reward
    BY <2>1, <2>2, <2>3
  <2>5. Unclaimed(e) <= TotalUnclaimed
    <3>1. \A f \in EpochIds : Debts[f] \in Nat
      <4> SUFFICES ASSUME NEW f \in EpochIds PROVE Debts[f] \in Nat
        OBVIOUS
      <4>1. /\ epoch_distribution[f].total_claimed \in Nat
            /\ epoch_distribution[f].total_reward \in Nat
        BY DEF TypeOK, RewardType, EpochAccount
      <4>2. epoch_distribution[f].total_claimed
              <= epoch_distribution[f].total_reward
        BY DEF ClaimsInv, ClaimsExact
      <4>3. Debts[f] = epoch_distribution[f].total_reward
                         - epoch_distribution[f].total_claimed
        BY DEF Debts, Unclaimed
      <4> QED BY <4>1, <4>2, <4>3
    <3>2. SumFunctionOnSet(Debts, {e}) <= SumFunctionOnSet(Debts, EpochIds)
      BY <3>1, FiniteAssumption, SumOfSubset
    <3>3. SumFunctionOnSet(Debts, {e}) = Debts[e]
      <4>1. SumFunctionOnSet(Debts, {e})
              = Debts[e] + SumFunctionOnSet(Debts, {e} \ {e})
        <5> DEFINE one == {e}
        <5>1. IsFiniteSet(one) /\ e \in one
          BY FS_Singleton
        <5>2. \A f \in one : Debts[f] \in Int
          BY <3>1
        <5> HIDE DEF one
        <5>3. SumFunctionOnSet(Debts, one)
                = Debts[e] + SumFunctionOnSet(Debts, one \ {e})
          BY <5>1, <5>2, SumWithout
        <5> QED BY <5>3 DEF one
      <4>2. {e} \ {e} = {}
        OBVIOUS
      <4> QED BY <3>1, <4>1, <4>2, SumOfNone
    <3> QED BY <3>2, <3>3, BookSums DEF Debts
  <2>6. /\ TotalUnclaimed \in Int
        /\ TotalUnclaimed <= reward_vault
    BY <2>1, BookSums DEF EpochRailSolvent
  <2> QED BY <2>1, <2>4, <2>5, <2>6 DEF Unclaimed
<1> QED BY <1>1, ClaimsInvariant, EpochRailAlwaysSolvent, TypeCorrect, PTL

-----------------------------------------------------------------------------
(* Each of the three instructions is a step of the abstract rail.          *)

LEMMA PostEpochPosts ==
  ASSUME TypeOK, AbsentIsBlank,
         NEW e \in EpochIds, NEW s \in LeafSets, NEW n \in RewardAmounts,
         PostEpoch(e, s, n)
  PROVE  Payouts!Post(e)
<1> DEFINE account == [live |-> TRUE, leaves |-> s, total_reward |-> n,
                       total_claimed |-> 0, posted_at |-> now]
<1>1. /\ epoch_distribution' = [epoch_distribution EXCEPT ![e] = account]
      /\ claim_status' = claim_status
      /\ epoch_distribution \in [EpochIds -> EpochAccount]
  BY DEF PostEpoch, TypeOK, RewardType
<1>2. epoch_distribution[e] = ZeroEpoch
  BY DEF AbsentIsBlank, PostEpoch
<1>3. s \in SUBSET (NodeKeys \X Nat) /\ n \in Nat
  BY ConstantsAssumption
<1>4. TermsOf(e) = Payouts!NoTerms
  BY <1>2 DEF TermsOf, Payouts!NoTerms, ZeroEpoch
<1>5. TermsOf(e)' \in Payouts!Terms
  BY <1>1, <1>3 DEF TermsOf, Payouts!Terms
<1>6. [f \in EpochIds |-> TermsOf(f)]'
        = [[f \in EpochIds |-> TermsOf(f)] EXCEPT ![e] = TermsOf(e)']
  BY <1>1 DEF TermsOf
<1>7. UNCHANGED [f \in EpochIds |-> epoch_distribution[f].total_claimed]
  BY <1>1, <1>2 DEF ZeroEpoch
<1>8. UNCHANGED [f \in EpochIds |-> [k \in NodeKeys |-> OutcomeOf(f, k)]]
  BY <1>1 DEF OutcomeOf
<1> QED BY <1>4, <1>5, <1>6, <1>7, <1>8 DEF Payouts!Post

LEMMA ClaimPays ==
  ASSUME TypeOK, AbsentIsBlank,
         NEW e \in EpochIds, NEW leaf \in epoch_distribution[e].leaves,
         Claim(e, leaf[1], leaf[2])
  PROVE  Payouts!Pay(e, leaf[1], leaf[2])
<1> DEFINE k == leaf[1]
           amount == leaf[2]
<1>1. /\ epoch_distribution' =
           [epoch_distribution EXCEPT ![e].total_claimed = @ + amount]
      /\ claim_status' =
           [claim_status EXCEPT ![e][k] =
              [live |-> TRUE, disputed |-> FALSE, amount |-> amount]]
      /\ <<k, amount>> \in epoch_distribution[e].leaves
      /\ epoch_distribution[e].total_claimed + amount
           <= epoch_distribution[e].total_reward
      /\ ~claim_status[e][k].live
  BY DEF Claim, ClaimOpen, WithinTotal
<1>2. /\ epoch_distribution \in [EpochIds -> EpochAccount]
      /\ claim_status \in [EpochIds -> [NodeKeys -> ClaimAccount]]
      /\ k \in NodeKeys /\ amount \in Nat
  BY <1>1 DEF TypeOK, RewardType, EpochAccount
<1>3. OutcomeOf(e, k) = Payouts!Open
  BY <1>1, <1>2 DEF AbsentIsBlank, OutcomeOf, Payouts!Open, ZeroClaim
<1>4. UNCHANGED [f \in EpochIds |-> TermsOf(f)]
  BY <1>1, <1>2 DEF TermsOf, EpochAccount
<1>5. [f \in EpochIds |-> epoch_distribution[f].total_claimed]'
        = [[f \in EpochIds |-> epoch_distribution[f].total_claimed]
             EXCEPT ![e] = @ + amount]
  BY <1>1, <1>2 DEF EpochAccount
<1>6. [f \in EpochIds |-> [j \in NodeKeys |-> OutcomeOf(f, j)]]'
        = [[f \in EpochIds |-> [j \in NodeKeys |-> OutcomeOf(f, j)]]
             EXCEPT ![e][k] = Payouts!Paid(amount)]
  BY <1>1, <1>2 DEF OutcomeOf, Payouts!Paid
<1> HIDE DEF k, amount
<1>7. /\ <<k, amount>> \in TermsOf(e).leaves
      /\ epoch_distribution[e].total_claimed + amount <= TermsOf(e).budget
  BY <1>1 DEF TermsOf
<1>8. Payouts!Pay(e, k, amount)
  BY <1>2, <1>3, <1>4, <1>5, <1>6, <1>7 DEF Payouts!Pay
<1> QED BY <1>8 DEF k, amount

LEMMA DisputeForfeits ==
  ASSUME TypeOK, AbsentIsBlank,
         NEW e \in EpochIds, NEW k \in NodeKeys, NEW v \in Severities,
         NEW n \in StakeAmounts \cup {0}, Dispute(e, k, v, n)
  PROVE  Payouts!Forfeit(e, k)
<1>1. /\ epoch_distribution' = epoch_distribution
      /\ claim_status' =
           [claim_status EXCEPT ![e][k] =
              [live |-> TRUE, disputed |-> TRUE, amount |-> 0]]
      /\ epoch_distribution[e].live
      /\ ~claim_status[e][k].live
  BY DEF Dispute, ClaimOpen
<1>2. claim_status \in [EpochIds -> [NodeKeys -> ClaimAccount]]
  BY DEF TypeOK, RewardType
<1>3. OutcomeOf(e, k) = Payouts!Open /\ TermsOf(e).posted
  BY <1>1 DEF AbsentIsBlank, OutcomeOf, Payouts!Open, ZeroClaim, TermsOf
<1>4. /\ UNCHANGED [f \in EpochIds |-> TermsOf(f)]
      /\ UNCHANGED [f \in EpochIds |-> epoch_distribution[f].total_claimed]
  BY <1>1 DEF TermsOf
<1>5. [f \in EpochIds |-> [j \in NodeKeys |-> OutcomeOf(f, j)]]'
        = [[f \in EpochIds |-> [j \in NodeKeys |-> OutcomeOf(f, j)]]
             EXCEPT ![e][k] = Payouts!Forfeited]
  BY <1>1, <1>2 DEF OutcomeOf, Payouts!Forfeited
<1> QED BY <1>3, <1>4, <1>5 DEF Payouts!Forfeit

-----------------------------------------------------------------------------
LEMMA InitRefines == Init => Payouts!Init /\ AbsentIsBlank
BY DEF Init, Payouts!Init, TermsOf, OutcomeOf, Payouts!NoTerms, Payouts!Open,
   ZeroEpoch, ZeroClaim, AbsentIsBlank

LEMMA StepRefines ==
  ASSUME TypeOK, AbsentIsBlank, [Next]_vars
  PROVE  [Payouts!Next]_(Payouts!vars)
<1>1. ASSUME NEW e \in EpochIds, NEW s \in LeafSets, NEW n \in RewardAmounts,
             PostEpoch(e, s, n)
      PROVE  Payouts!Next
  BY <1>1, PostEpochPosts DEF Payouts!Next
<1>2. ASSUME NEW e \in EpochIds, NEW leaf \in epoch_distribution[e].leaves,
             Claim(e, leaf[1], leaf[2])
      PROVE  Payouts!Next
  <2>1. leaf \in [f \in EpochIds |-> TermsOf(f)][e].leaves
    BY DEF TermsOf
  <2> QED BY <1>2, <2>1, ClaimPays DEF Payouts!Next
<1>3. ASSUME NEW e \in EpochIds, NEW k \in NodeKeys, NEW v \in Severities,
             NEW n \in StakeAmounts \cup {0}, Dispute(e, k, v, n)
      PROVE  Payouts!Next
  BY <1>3, DisputeForfeits DEF Payouts!Next
<1>4. CASE SameRail
  BY <1>4 DEF SameRail, TermsOf, OutcomeOf, Payouts!vars
<1> QED BY <1>1, <1>2, <1>3, <1>4, RailFrame

\* Every behaviour of the program is a behaviour of the abstract rail: posted
\* terms stand for good and each entitlement is settled once (lib.rs:1465,
\* 1508, 1600), for any number of nodes, epochs and cores.
THEOREM PayoutsRefined == Spec => PayoutsImplemented
<1>1. Init => AbsentIsBlank /\ Payouts!Init
  BY InitRefines
<1>2. TypeOK /\ AbsentIsBlank /\ [Next]_vars => AbsentIsBlank'
  BY BlankInductive
<1>3. TypeOK /\ AbsentIsBlank /\ [Next]_vars => [Payouts!Next]_(Payouts!vars)
  BY StepRefines
<1> QED BY <1>1, <1>2, <1>3, TypeCorrect, PTL
        DEF Spec, PayoutsImplemented, Payouts!Spec
=============================================================================
