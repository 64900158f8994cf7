----------------------------- MODULE RewardMath -----------------------------
(***************************************************************************)
(* The arithmetic around rewards: what a node earns for its bytes (crates/ *)
(* weft-primitives, mirrored by sdk/src/math.ts, and the cap that services/ *)
(* aggregator puts on it), which epoch a receipt belongs to, vesting and   *)
(* the reputation score.  Products are formed in u128 or BigInt and never  *)
(* wrap; results and times saturate at MaxU64 where the code says so.  The *)
(* signatures of receipts are left out: a receipt here is a genuine one.   *)
(***************************************************************************)
EXTENDS WeftMath

CONSTANT MaxU64

ASSUME RewardMathAssumption == MaxU64 \in Nat

ONE_WEFT == 1000000
NODE_REWARD_RATE_PER_GB == 700000000
BYTES_PER_GB == 1000000000
REPUTATION_MAX_BPS == 20000
GEO_BONUS_MAX_BPS == 5000
STAKING_BONUS_BPS == 2000
BOOTSTRAP_BONUS_MAX_BPS == 10000
EPOCH_SECONDS == 600
GEO_BITS == 30
GEO_CHARS == 6
TGE_UNLOCK_BPS == 2500

Saturated(n) == Smaller(n, MaxU64)

-----------------------------------------------------------------------------
(* Rewards                                                                 *)

\* One multiplier of the reward formula, rounded down before the next.
Times(amount, bps) == (amount * bps) \div BPS

ClampReputation(bps) == Larger(REPUTATION_MIN_BPS, Smaller(bps, REPUTATION_MAX_BPS))

\* nodeShareCap: the node share of what users pay for these bytes.
NodeShareCap(bytes) == (NODE_REWARD_RATE_PER_GB * bytes) \div BYTES_PER_GB

\* The bonus for a stake of 10,000 $WEFT, in a mint with `scale` base units to
\* one of $WEFT's.
StakingBonus(stake, scale) ==
  IF stake >= 10000 * ONE_WEFT * scale THEN STAKING_BONUS_BPS ELSE 0

\* The region of a packed geohash: its first `chars` characters, of 5 bits.
GeoRegionPrefix(geo, chars) ==
  (geo % 2^GEO_BITS) \div 2^(GEO_BITS - 5 * Smaller(chars, GEO_CHARS))

GeoBonus(table, geo) ==
  LET region == GeoRegionPrefix(geo, table.chars)
  IN  IF region \in DOMAIN table.bonus_bps
      THEN Larger(0, Smaller(table.bonus_bps[region], GEO_BONUS_MAX_BPS))
      ELSE 0

TrafficReward(bytes, reputation, geo, staking) ==
  LET byReputation == Times(NodeShareCap(bytes), ClampReputation(reputation))
      byGeo        == Times(byReputation, BPS + Smaller(geo, GEO_BONUS_MAX_BPS))
  IN  Saturated(Times(byGeo, BPS + Smaller(staking, STAKING_BONUS_BPS)))

TrafficRewardWithBootstrap(bytes, reputation, geo, staking, bootstrap) ==
  Saturated(Times(TrafficReward(bytes, reputation, geo, staking),
                  BPS + Smaller(bootstrap, BOOTSTRAP_BONUS_MAX_BPS)))

\* bootstrapBonusFor, for a node of the given registration sequence.
BootstrapBonus(cfg, sequence, epoch) ==
  IF /\ sequence \in 1..cfg.node_limit
     /\ cfg.end_ts = 0 \/ epoch * EPOCH_SECONDS < cfg.end_ts
  THEN cfg.bonus_bps ELSE 0

\* What buildEpochFromByteTotals credits before it looks at the vault, in the
\* base units of a mint with `scale` of them to one of $WEFT's.
NodeReward(bytes, reputation, geo, staking, bootstrap, scale) ==
  Smaller(TrafficRewardWithBootstrap(bytes, reputation, geo, staking, bootstrap),
          NodeShareCap(bytes)) * scale

-----------------------------------------------------------------------------
(* Receipts                                                                *)

\* receipt_window_in_epoch; start and end times saturate.
WindowInEpoch(epoch, start, end) ==
  /\ start < end
  /\ start >= Saturated(epoch * EPOCH_SECONDS)
  /\ end <= Saturated(Saturated(epoch + 1) * EPOCH_SECONDS)

-----------------------------------------------------------------------------
(* The token sale and vesting                                              *)

SplitTge(allocation, tge_bps) ==
  LET tge == (allocation * Smaller(tge_bps, BPS)) \div BPS
  IN  [tge |-> tge, vesting |-> allocation - tge]

VestedAmount(total, cliff_unlock, start_ts, cliff_duration, duration, now) ==
  LET lump    == Smaller(cliff_unlock, total)
      elapsed == now - start_ts
      pool    == SaturatingSub(total, cliff_unlock)
  IN  IF now <= start_ts \/ elapsed < cliff_duration THEN lump
      ELSE IF duration <= 0 \/ elapsed >= duration THEN total
      ELSE Smaller(Saturated(lump + (pool * elapsed) \div duration), total)

-----------------------------------------------------------------------------
(* Reputation                                                              *)

REPUTATION_W_UPTIME_BPS == 5000
REPUTATION_W_SPEED_BPS == 3000
REPUTATION_W_REVIEW_BPS == 2000
REPUTATION_BASELINE_QUALITY_BPS == 3333
REPUTATION_DECAY_PER_PERIOD_BPS == 1000
REPUTATION_DECAY_PERIOD_SECONDS == 3600
REPUTATION_DECAY_MAX_PERIODS == 64

ReputationQuality(uptime, speed, review) ==
  (  Smaller(uptime, BPS) * REPUTATION_W_UPTIME_BPS
   + Smaller(speed, BPS) * REPUTATION_W_SPEED_BPS
   + Smaller(review, BPS) * REPUTATION_W_REVIEW_BPS) \div BPS

ReputationMultiplier(quality) ==
  REPUTATION_MIN_BPS
    + (Smaller(quality, BPS) * (REPUTATION_MAX_BPS - REPUTATION_MIN_BPS)
       + BPS \div 2) \div BPS

ReputationEma(old, sample, alpha) ==
  LET a == Smaller(alpha, BPS)
  IN  (a * Smaller(sample, BPS) + (BPS - a) * Smaller(old, BPS)) \div BPS

\* One period of decay towards the baseline; Rust divides towards zero.
DecayStep(quality) ==
  LET base == REPUTATION_BASELINE_QUALITY_BPS
      part(distance) == (distance * REPUTATION_DECAY_PER_PERIOD_BPS) \div BPS
  IN  IF quality <= base THEN quality + part(base - quality)
      ELSE quality - part(quality - base)

DecayedQuality(old, now, last_update) ==
  LET periods == IF now <= last_update THEN 0
                 ELSE (now - last_update) \div REPUTATION_DECAY_PERIOD_SECONDS
      after[n \in 0..REPUTATION_DECAY_MAX_PERIODS] ==
        IF n = 0 THEN Smaller(old, BPS) ELSE DecayStep(after[n - 1])
  IN  IF periods >= REPUTATION_DECAY_MAX_PERIODS
      THEN REPUTATION_BASELINE_QUALITY_BPS
      ELSE after[periods]
=============================================================================
