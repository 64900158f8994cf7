---------------------------- MODULE MCAggregator ----------------------------
(* Instances of the aggregator for TLC, and its arithmetic on test values. *)
EXTENDS Aggregator, RewardMath

CONSTANTS n1, n2, r1, r2

OfFirst == [r \in Receipts |-> n1]
InOne == [r \in Receipts |-> 1]
OneByte == [n \in Nodes |-> 1]

-----------------------------------------------------------------------------
(* RewardMath has no steps; TLC evaluates it on the values that the unit   *)
(* tests of weft-primitives expect (rewards per GB exceed TLC's integers). *)

ASSUME ReceiptTestValues ==
  /\ WindowInEpoch(1, 600, 1200) /\ WindowInEpoch(1, 700, 800)
  /\ ~WindowInEpoch(1, 599, 800) /\ ~WindowInEpoch(1, 700, 1201)
  /\ ~WindowInEpoch(1, 800, 800) /\ ~WindowInEpoch(0, 600, 1200)

ASSUME VestingTestValues ==
  /\ VestedAmount(100, 10, 1000, 0, 100, 500) = 10
  /\ VestedAmount(100, 0, 0, 0, 100, 50) = 50
  /\ VestedAmount(36, 0, 0, 12, 36, 11) = 0
  /\ VestedAmount(36, 0, 0, 12, 36, 12) = 12
  /\ VestedAmount(100, 25, 0, 0, 12, 6) = 62
  /\ VestedAmount(100, 0, 0, 0, 7, 3) = 42
  /\ VestedAmount(100, 0, 0, 0, 0, 1) = 100
  /\ SplitTge(3, TGE_UNLOCK_BPS) = [tge |-> 0, vesting |-> 3]
  /\ SplitTge(100000, TGE_UNLOCK_BPS) = [tge |-> 25000, vesting |-> 75000]

ASSUME ReputationTestValues ==
  /\ ReputationQuality(BPS, 0, 0) = 5000
  /\ ReputationMultiplier(0) = REPUTATION_MIN_BPS
  /\ ReputationMultiplier(BPS) = REPUTATION_MAX_BPS
  /\ ReputationEma(2000, 8000, 2000) = 3200
  /\ DecayedQuality(9000, 1000, 1000) = 9000
  /\ DecayedQuality(REPUTATION_BASELINE_QUALITY_BPS, 1000000, 0)
       = REPUTATION_BASELINE_QUALITY_BPS
  /\ DecayedQuality(0, 7200, 0) \in 1..REPUTATION_BASELINE_QUALITY_BPS

\* The packed geohash 11111 00000 11111 00000 11111 00000.
ASSUME GeoTestValues ==
  LET geo == 31 * (2^25 + 2^15 + 2^5)
  IN  /\ GeoRegionPrefix(geo, 1) = 31 /\ GeoRegionPrefix(geo, 2) = 992
      /\ GeoRegionPrefix(geo, 6) = geo /\ GeoRegionPrefix(geo, 0) = 0
      /\ GeoBonus([chars |-> 2, bonus_bps |-> [r \in {5, 992} |-> 6000]], geo) = 5000
      /\ GeoBonus([chars |-> 2, bonus_bps |-> [r \in {5} |-> 6000]], geo) = 0

\* The reward of a few bytes: floored at each multiplier, then capped.
ASSUME RewardValues ==
  /\ TrafficReward(3, BPS, 0, 0) = 2
  /\ TrafficReward(3, REPUTATION_MAX_BPS, GEO_BONUS_MAX_BPS, STAKING_BONUS_BPS) = 7
  /\ TrafficRewardWithBootstrap(3, REPUTATION_MIN_BPS, 0, 0, BPS) = 2
  /\ NodeReward(3, REPUTATION_MAX_BPS, GEO_BONUS_MAX_BPS, 0, 0, 1) = 2
  /\ BootstrapBonus([node_limit |-> 5, bonus_bps |-> BPS, end_ts |-> 1200], 5, 1) = BPS
  /\ BootstrapBonus([node_limit |-> 5, bonus_bps |-> BPS, end_ts |-> 1200], 5, 2) = 0
=============================================================================
