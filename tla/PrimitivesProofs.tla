-------------------------- MODULE PrimitivesProofs --------------------------
(***************************************************************************)
(* What weft-primitives guarantees for every input: the reward, receipt,   *)
(* vesting and reputation arithmetic, and the Merkle trees.  The trees and *)
(* the decay are recursive functions; facts about every height, length or  *)
(* number of periods are found by looking for the smallest that refutes    *)
(* them.                                                                   *)
(***************************************************************************)
EXTENDS RewardMath, MerkleTree, SumTheorems, SequenceTheorems

-----------------------------------------------------------------------------
(* Division                                                                *)

\* The quotient of a division rounded down, by any positive divisor.
LEMMA Quotient ==
  ASSUME NEW p \in Nat, NEW d \in Nat \ {0}
  PROVE  /\ p \div d \in Nat
         /\ d * (p \div d) <= p
         /\ p < d * (p \div d) + d
OBVIOUS

\* Division rounded down is monotone.
LEMMA QuotientMonotone ==
  ASSUME NEW p \in Nat, NEW q \in Nat, NEW d \in Nat \ {0}, p <= q
  PROVE  p \div d <= q \div d
<1> DEFINE a == p \div d
           b == q \div d
<1>1. a \in Nat /\ b \in Nat /\ d * a <= p /\ q < d * b + d
  BY Quotient
<1> HIDE DEF a, b
<1>2. d * a < d * (b + 1)
  BY <1>1
<1>3. a < b + 1
  <2>1. SUFFICES ASSUME a >= b + 1 PROVE FALSE
    BY <1>1
  <2>2. PICK k \in Nat : a = b + 1 + k
    BY <1>1, <2>1
  <2>3. d * a = d * (b + 1) + d * k /\ d * k \in Nat
    BY <1>1, <2>2
  <2> QED BY <1>1, <1>2, <2>3
<1> QED BY <1>1, <1>3 DEF a, b

\* A quotient lies between two bounds if the dividend lies between their
\* multiples.
LEMMA QuotientBetween ==
  ASSUME NEW p \in Nat, NEW lo \in Nat, NEW hi \in Nat,
         BPS * lo <= p, p <= BPS * hi
  PROVE  p \div BPS \in Nat /\ lo <= p \div BPS /\ p \div BPS <= hi
<1> DEFINE q == p \div BPS
<1>1. q \in Nat /\ BPS * q <= p /\ p < BPS * q + BPS
  BY Quotient DEF BPS
<1> HIDE DEF q
<1>2. lo <= q /\ q <= hi
  BY <1>1 DEF BPS
<1> QED BY <1>1, <1>2 DEF q

-----------------------------------------------------------------------------
(* Rewards                                                                 *)

LEMMA ShareNat ==
  ASSUME NEW bytes \in Nat
  PROVE  NodeShareCap(bytes) \in Nat
<1>1. NODE_REWARD_RATE_PER_GB * bytes \in Nat /\ BYTES_PER_GB \in Nat \ {0}
  BY DEF NODE_REWARD_RATE_PER_GB, BYTES_PER_GB
<1> QED BY <1>1, Quotient DEF NodeShareCap

\* A multiplier keeps amounts natural, and one of at least 1.0x never takes
\* anything away.
LEMMA TimesAtLeast ==
  ASSUME NEW amount \in Nat, NEW bps \in Nat
  PROVE  /\ Times(amount, bps) \in Nat
         /\ bps >= BPS => Times(amount, bps) >= amount
<1>1. amount * bps \in Nat
  OBVIOUS
<1>2. Times(amount, bps) \in Nat
  BY <1>1, Quotient DEF Times, BPS
<1>3. ASSUME bps >= BPS PROVE Times(amount, bps) >= amount
  <2>1. PICK k \in Nat : bps = BPS + k
    BY <1>3 DEF BPS
  <2>2. amount * bps = BPS * amount + amount * k /\ amount * k \in Nat
    BY <2>1 DEF BPS
  <2> DEFINE p == amount * bps
             q == p \div BPS
  <2>3. p \in Nat /\ BPS * amount <= p
    BY <1>1, <2>2 DEF BPS
  <2>4. q \in Nat /\ p < BPS * q + BPS
    BY <1>1, Quotient DEF BPS
  <2>5. Times(amount, bps) = q
    BY DEF Times
  <2> HIDE DEF p, q
  <2> QED BY <2>3, <2>4, <2>5 DEF BPS
<1> QED BY <1>2, <1>3

\* traffic_reward saturates but never falls below the neutral reward of a
\* node whose reputation is at least 1.0x.
LEMMA RewardAtLeast ==
  ASSUME NEW bytes \in Nat, NEW reputation \in Nat, NEW geo \in Nat,
         NEW staking \in Nat, NEW bootstrap \in Nat
  PROVE  LET reward == TrafficRewardWithBootstrap(bytes, reputation, geo, staking,
                                                  bootstrap)
         IN  /\ reward \in Nat
             /\ (reputation >= BPS /\ NodeShareCap(bytes) <= MaxU64)
                  => reward >= NodeShareCap(bytes)
<1> DEFINE base == NodeShareCap(bytes)
           rep  == ClampReputation(reputation)
           g    == BPS + Smaller(geo, GEO_BONUS_MAX_BPS)
           s    == BPS + Smaller(staking, STAKING_BONUS_BPS)
           b    == BPS + Smaller(bootstrap, BOOTSTRAP_BONUS_MAX_BPS)
           r1   == Times(base, rep)
           r2   == Times(r1, g)
           r3   == Times(r2, s)
           r4   == Saturated(r3)
           r5   == Times(r4, b)
<1>1. base \in Nat
  BY ShareNat
<1>2. rep \in Nat /\ (reputation >= BPS => rep >= BPS)
  BY DEF ClampReputation, Larger, Smaller, REPUTATION_MIN_BPS,
         REPUTATION_MAX_BPS, BPS
<1>3. g \in Nat /\ g >= BPS /\ s \in Nat /\ s >= BPS /\ b \in Nat /\ b >= BPS
  BY DEF Smaller, GEO_BONUS_MAX_BPS, STAKING_BONUS_BPS,
         BOOTSTRAP_BONUS_MAX_BPS, BPS
<1>4. TrafficRewardWithBootstrap(bytes, reputation, geo, staking, bootstrap)
        = Saturated(r5)
  BY DEF TrafficRewardWithBootstrap, TrafficReward
<1> HIDE DEF base, rep, g, s, b
<1>5. r1 \in Nat /\ (reputation >= BPS => r1 >= base)
  BY <1>1, <1>2, TimesAtLeast
<1> HIDE DEF r1
<1>6. r2 \in Nat /\ r2 >= r1
  BY <1>3, <1>5, TimesAtLeast
<1> HIDE DEF r2
<1>7. r3 \in Nat /\ r3 >= r2
  BY <1>3, <1>6, TimesAtLeast
<1> HIDE DEF r3
<1>8. r4 \in Nat /\ (r3 >= base /\ base <= MaxU64 => r4 >= base)
  BY <1>1, <1>7, RewardMathAssumption DEF Saturated, Smaller
<1> HIDE DEF r4
<1>9. r5 \in Nat /\ r5 >= r4
  BY <1>3, <1>8, TimesAtLeast
<1> HIDE DEF r5
<1>10. /\ Saturated(r5) \in Nat
       /\ (reputation >= BPS /\ base <= MaxU64) => Saturated(r5) >= base
  BY <1>1, <1>5, <1>6, <1>7, <1>8, <1>9, RewardMathAssumption, SMT
     DEF Saturated, Smaller, BPS
<1> QED BY <1>4, <1>10 DEF base

\* buildEpochFromByteTotals never credits a node more than the node share of
\* what users pay for the bytes, whatever its multipliers: the reward vault
\* takes in at least what is credited for metered traffic.  And the cap voids
\* every bonus: at a reputation of 1.0x or more, the credit is the cap itself.
THEOREM RewardIsShare ==
  ASSUME NEW bytes \in Nat, NEW reputation \in Nat, NEW geo \in Nat,
         NEW staking \in Nat, NEW bootstrap \in Nat, NEW scale \in Nat
  PROVE  LET reward == NodeReward(bytes, reputation, geo, staking, bootstrap, scale)
             cap == NodeShareCap(bytes)
         IN  /\ reward \in Nat
             /\ reward <= cap * scale
             /\ (reputation >= BPS /\ cap <= MaxU64) => reward = cap * scale
<1> DEFINE cap == NodeShareCap(bytes)
           full == TrafficRewardWithBootstrap(bytes, reputation, geo, staking,
                                              bootstrap)
           paid == Smaller(full, cap)
<1>1. cap \in Nat
  BY ShareNat
<1>2. full \in Nat /\ ((reputation >= BPS /\ cap <= MaxU64) => full >= cap)
  BY RewardAtLeast
<1>3. NodeReward(bytes, reputation, geo, staking, bootstrap, scale) = paid * scale
  BY DEF NodeReward
<1> HIDE DEF cap, full
<1>4. /\ paid \in Nat /\ paid <= cap
      /\ (reputation >= BPS /\ cap <= MaxU64) => paid = cap
  BY <1>1, <1>2 DEF Smaller
<1> HIDE DEF paid
<1>5. paid * scale \in Nat /\ paid * scale <= cap * scale
  <2>1. PICK k \in Nat : cap = paid + k
    BY <1>1, <1>4
  <2>2. cap * scale = paid * scale + k * scale /\ k * scale \in Nat
    BY <1>4, <2>1
  <2>3. paid * scale \in Nat
    BY <1>4
  <2> QED BY <2>2, <2>3
<1> QED BY <1>3, <1>4, <1>5 DEF cap

\* A multiplier and the saturation keep the order of two amounts.
LEMMA TimesMonotone ==
  ASSUME NEW a \in Nat, NEW b \in Nat, a <= b, NEW bps \in Nat
  PROVE  /\ Times(a, bps) \in Nat /\ Times(b, bps) \in Nat
         /\ Times(a, bps) <= Times(b, bps)
         /\ Saturated(a) \in Nat /\ Saturated(b) \in Nat
         /\ Saturated(a) <= Saturated(b)
<1>1. PICK k \in Nat : b = a + k
  OBVIOUS
<1>2. b * bps = a * bps + k * bps /\ k * bps \in Nat /\ a * bps \in Nat
  BY <1>1
<1>3. a * bps <= b * bps /\ b * bps \in Nat
  BY <1>2
<1>4. BPS \in Nat \ {0}
  BY DEF BPS
<1>5. (a * bps) \div BPS <= (b * bps) \div BPS
  BY <1>2, <1>3, <1>4, QuotientMonotone
<1>6. Saturated(a) \in Nat /\ Saturated(b) \in Nat /\ Saturated(a) <= Saturated(b)
  BY RewardMathAssumption DEF Saturated, Smaller
<1> QED BY <1>5, <1>6, TimesAtLeast DEF Times

\* More bytes never earn less, whatever the multipliers and although each of
\* them rounds down and the product saturates (tests/properties.rs:19), and
\* buildEpochFromByteTotals never credits less for them.
THEOREM RewardMonotone ==
  ASSUME NEW fewer \in Nat, NEW more \in Nat, fewer <= more,
         NEW reputation \in Nat, NEW geo \in Nat, NEW staking \in Nat,
         NEW bootstrap \in Nat, NEW scale \in Nat
  PROVE  /\ TrafficReward(fewer, reputation, geo, staking)
              <= TrafficReward(more, reputation, geo, staking)
         /\ NodeReward(fewer, reputation, geo, staking, bootstrap, scale)
              <= NodeReward(more, reputation, geo, staking, bootstrap, scale)
<1> DEFINE rep == ClampReputation(reputation)
           g   == BPS + Smaller(geo, GEO_BONUS_MAX_BPS)
           s   == BPS + Smaller(staking, STAKING_BONUS_BPS)
           b   == BPS + Smaller(bootstrap, BOOTSTRAP_BONUS_MAX_BPS)
           Reward(bytes) ==
             Saturated(Times(Times(Times(NodeShareCap(bytes), rep), g), s))
           Full(bytes) == Saturated(Times(Reward(bytes), b))
           Paid(bytes) == Smaller(Full(bytes), NodeShareCap(bytes))
<1>1. rep \in Nat /\ g \in Nat /\ s \in Nat /\ b \in Nat
  BY DEF ClampReputation, Larger, Smaller, REPUTATION_MIN_BPS, REPUTATION_MAX_BPS,
         GEO_BONUS_MAX_BPS, STAKING_BONUS_BPS, BOOTSTRAP_BONUS_MAX_BPS, BPS
<1>2. /\ NodeShareCap(fewer) \in Nat /\ NodeShareCap(more) \in Nat
      /\ NodeShareCap(fewer) <= NodeShareCap(more)
  <2>1. /\ NODE_REWARD_RATE_PER_GB * fewer \in Nat
        /\ NODE_REWARD_RATE_PER_GB * more \in Nat
        /\ NODE_REWARD_RATE_PER_GB * fewer <= NODE_REWARD_RATE_PER_GB * more
        /\ BYTES_PER_GB \in Nat \ {0}
    BY DEF NODE_REWARD_RATE_PER_GB, BYTES_PER_GB
  <2> QED BY <2>1, ShareNat, QuotientMonotone DEF NodeShareCap
<1>3. \A bytes \in {fewer, more} :
        /\ TrafficReward(bytes, reputation, geo, staking) = Reward(bytes)
        /\ NodeReward(bytes, reputation, geo, staking, bootstrap, scale)
             = Paid(bytes) * scale
  BY DEF TrafficReward, TrafficRewardWithBootstrap, NodeReward
<1> HIDE DEF rep, g, s, b
<1>4. /\ Reward(fewer) \in Nat /\ Reward(more) \in Nat
      /\ Reward(fewer) <= Reward(more)
  <2> DEFINE a1 == Times(NodeShareCap(fewer), rep)
             b1 == Times(NodeShareCap(more), rep)
             a2 == Times(a1, g)
             b2 == Times(b1, g)
             a3 == Times(a2, s)
             b3 == Times(b2, s)
  <2>1. a1 \in Nat /\ b1 \in Nat /\ a1 <= b1
    BY <1>1, <1>2, TimesMonotone
  <2> HIDE DEF a1, b1
  <2>2. a2 \in Nat /\ b2 \in Nat /\ a2 <= b2
    BY <1>1, <2>1, TimesMonotone
  <2> HIDE DEF a2, b2
  <2>3. a3 \in Nat /\ b3 \in Nat /\ a3 <= b3
    BY <1>1, <2>2, TimesMonotone
  <2> HIDE DEF a3, b3
  <2>4. /\ Saturated(a3) \in Nat /\ Saturated(b3) \in Nat
        /\ Saturated(a3) <= Saturated(b3)
    BY <1>1, <2>3, TimesMonotone
  <2> QED BY <2>4 DEF a1, b1, a2, b2, a3, b3
<1> HIDE DEF Reward
<1>5. /\ Full(fewer) \in Nat /\ Full(more) \in Nat /\ Full(fewer) <= Full(more)
  <2> DEFINE a == Times(Reward(fewer), b)
             c == Times(Reward(more), b)
  <2>1. a \in Nat /\ c \in Nat /\ a <= c
    BY <1>1, <1>4, TimesMonotone
  <2> HIDE DEF a, c
  <2>2. Saturated(a) \in Nat /\ Saturated(c) \in Nat /\ Saturated(a) <= Saturated(c)
    BY <1>1, <2>1, TimesMonotone
  <2> QED BY <2>2 DEF a, c
<1> HIDE DEF Full
<1>6. /\ Paid(fewer) \in Nat /\ Paid(more) \in Nat /\ Paid(fewer) <= Paid(more)
  BY <1>2, <1>5 DEF Smaller
<1> HIDE DEF Paid
<1>7. Paid(fewer) * scale <= Paid(more) * scale
  <2>1. ASSUME NEW x \in Nat, NEW y \in Nat, x <= y PROVE x * scale <= y * scale
    <3>1. PICK k \in Nat : y = x + k
      BY <2>1
    <3>2. y * scale = x * scale + k * scale /\ k * scale \in Nat /\ x * scale \in Nat
      BY <3>1
    <3> QED BY <3>2
  <2> QED BY <1>6, <2>1
<1> QED BY <1>3, <1>4, <1>7

-----------------------------------------------------------------------------
(* Receipts                                                                *)

LEMMA LaterEpoch ==
  ASSUME NEW e \in Nat, NEW f \in Nat, e < f,
         NEW start \in 0..MaxU64, NEW end \in 0..MaxU64,
         WindowInEpoch(e, start, end), WindowInEpoch(f, start, end)
  PROVE  FALSE
<1> DEFINE next == Saturated(e + 1)
<1>1. MaxU64 \in Nat
  BY RewardMathAssumption
<1>2. start < end /\ end <= Saturated(next * EPOCH_SECONDS)
  BY DEF WindowInEpoch
<1>3. start >= Saturated(f * EPOCH_SECONDS)
  BY DEF WindowInEpoch
<1>4. next \in Nat /\ next <= f
  BY <1>1 DEF Saturated, Smaller
<1> HIDE DEF next
<1>5. Saturated(next * EPOCH_SECONDS) <= Saturated(f * EPOCH_SECONDS)
  BY <1>1, <1>4 DEF Saturated, Smaller, EPOCH_SECONDS
<1>6. /\ Saturated(next * EPOCH_SECONDS) \in Nat
      /\ Saturated(f * EPOCH_SECONDS) \in Nat
  BY <1>1, <1>4 DEF Saturated, Smaller, EPOCH_SECONDS
<1> QED BY <1>1, <1>2, <1>3, <1>5, <1>6

\* A receipt's window lies in one epoch at most, also where the products
\* saturate: posted for every epoch there is, a receipt is paid once.
THEOREM WindowInOneEpoch ==
  ASSUME NEW e \in Nat, NEW f \in Nat,
         NEW start \in 0..MaxU64, NEW end \in 0..MaxU64,
         WindowInEpoch(e, start, end), WindowInEpoch(f, start, end)
  PROVE  e = f
BY LaterEpoch

-----------------------------------------------------------------------------
(* The token sale and vesting                                              *)

\* Both parts of a sale allocation are natural numbers that add up to it,
\* also for a share above 100 %.
THEOREM TgeExact ==
  ASSUME NEW allocation \in Nat, NEW tge_bps \in Nat
  PROVE  LET split == SplitTge(allocation, tge_bps)
         IN  /\ split.tge \in Nat /\ split.vesting \in Nat
             /\ split.tge + split.vesting = allocation
<1> DEFINE bps == Smaller(tge_bps, BPS)
           p == allocation * bps
           q == p \div BPS
<1>1. bps \in 0..BPS
  BY DEF Smaller, BPS
<1>2. p \in Nat /\ BPS * 0 <= p /\ p <= BPS * allocation
  <2> HIDE DEF bps
  <2>1. PICK k \in Nat : BPS = bps + k
    BY <1>1 DEF BPS
  <2>2. BPS * allocation = allocation * bps + allocation * k
          /\ allocation * k \in Nat /\ allocation * bps \in Nat
    BY <1>1, <2>1
  <2> QED BY <2>2 DEF BPS
<1>3. SplitTge(allocation, tge_bps) = [tge |-> q, vesting |-> allocation - q]
  BY DEF SplitTge
<1> HIDE DEF p
<1>4. q \in Nat /\ q <= allocation
  BY <1>2, QuotientBetween
<1> HIDE DEF q
<1> QED BY <1>3, <1>4

\* The linear part of a running schedule.
LEMMA LinearPart ==
  ASSUME NEW pool \in Nat, NEW duration \in Nat \ {0}, NEW elapsed \in 0..duration
  PROVE  /\ (pool * elapsed) \div duration \in Nat
         /\ (pool * elapsed) \div duration <= pool
<1> DEFINE p == pool * elapsed
           q == p \div duration
<1>1. p \in Nat
  OBVIOUS
<1>2. p <= duration * pool
  <2>1. PICK k \in Nat : duration = elapsed + k
    OBVIOUS
  <2>2. duration * pool = pool * elapsed + pool * k /\ pool * k \in Nat
    BY <2>1
  <2> QED BY <2>2
<1> HIDE DEF p
<1>3. q \in Nat /\ duration * q <= p
  BY <1>1, Quotient
<1> HIDE DEF q
<1>4. q <= pool
  <2>1. SUFFICES ASSUME q >= pool + 1 PROVE FALSE
    BY <1>3
  <2>2. PICK k \in Nat : q = pool + 1 + k
    BY <1>3, <2>1
  <2>3. duration * q = duration * pool + duration + duration * k
          /\ duration * k \in Nat
    BY <2>2
  <2> QED BY <1>1, <1>2, <1>3, <2>3
<1> QED BY <1>3, <1>4 DEF p, q

\* What vests is an amount between the lump and the total.
LEMMA VestedBetween ==
  ASSUME NEW total \in 0..MaxU64, NEW cliff_unlock \in 0..MaxU64,
         NEW start_ts \in Int, NEW cliff_duration \in Int, NEW duration \in Int,
         NEW now \in Int
  PROVE  LET v == VestedAmount(total, cliff_unlock, start_ts, cliff_duration,
                               duration, now)
         IN  v \in Nat /\ Smaller(cliff_unlock, total) <= v /\ v <= total
<1> DEFINE lump == Smaller(cliff_unlock, total)
           pool == SaturatingSub(total, cliff_unlock)
           elapsed == now - start_ts
           linear == (pool * elapsed) \div duration
           v == VestedAmount(total, cliff_unlock, start_ts, cliff_duration,
                             duration, now)
<1>1. lump \in Nat /\ lump <= total /\ total \in Nat /\ pool \in Nat
        /\ lump + pool = total /\ elapsed \in Int /\ MaxU64 \in Nat
        /\ total <= MaxU64
  BY RewardMathAssumption DEF Smaller, SaturatingSub
<1>2. CASE now <= start_ts \/ elapsed < cliff_duration
  <2>1. v = lump
    BY <1>2 DEF VestedAmount
  <2> QED BY <1>1, <2>1
<1>3. CASE ~(now <= start_ts \/ elapsed < cliff_duration)
             /\ (duration <= 0 \/ elapsed >= duration)
  <2>1. v = total
    BY <1>3 DEF VestedAmount
  <2> QED BY <1>1, <2>1
<1>4. CASE ~(now <= start_ts \/ elapsed < cliff_duration)
             /\ ~(duration <= 0 \/ elapsed >= duration)
  <2>1. v = Smaller(Saturated(lump + linear), total)
    BY <1>4 DEF VestedAmount
  <2>2. duration \in Nat \ {0} /\ elapsed \in 0..duration
    BY <1>1, <1>4
  <2>3. linear \in Nat /\ linear <= pool
    BY <1>1, <2>2, LinearPart
  <2> HIDE DEF lump, linear, v, pool
  <2>4. v \in Nat /\ lump <= v /\ v <= total
    BY <1>1, <2>1, <2>3 DEF Smaller, Saturated
  <2> QED BY <2>4 DEF v, lump
<1> QED BY <1>2, <1>3, <1>4

\* vested_amount never exceeds the total and never decreases as time goes on,
\* whatever the schedule (also one whose cliff is after its end, or whose
\* durations are negative), so total minus what was released is never
\* negative (the promise of weft-primitives/src/lib.rs:319).
THEOREM VestedMonotone ==
  ASSUME NEW total \in 0..MaxU64, NEW cliff_unlock \in 0..MaxU64,
         NEW start_ts \in Int, NEW cliff_duration \in Int, NEW duration \in Int,
         NEW now \in Int, NEW later \in Int, now <= later
  PROVE  LET vested(t) == VestedAmount(total, cliff_unlock, start_ts,
                                       cliff_duration, duration, t)
         IN  vested(now) <= vested(later) /\ vested(later) <= total
<1> DEFINE vested(t) == VestedAmount(total, cliff_unlock, start_ts,
                                     cliff_duration, duration, t)
           lump == Smaller(cliff_unlock, total)
           pool == SaturatingSub(total, cliff_unlock)
           linear(t) == (pool * (t - start_ts)) \div duration
           Early(t) == t <= start_ts \/ t - start_ts < cliff_duration
           Over(t) == duration <= 0 \/ t - start_ts >= duration
<1>0. lump \in Nat /\ pool \in Nat
  BY RewardMathAssumption DEF Smaller, SaturatingSub
<1>1. /\ vested(now) \in Nat /\ vested(now) <= total
      /\ vested(later) \in Nat /\ vested(later) <= total
      /\ lump <= vested(later) /\ lump \in Nat /\ pool \in Nat
  <2>1. \A t \in Int : vested(t) \in Nat /\ lump <= vested(t) /\ vested(t) <= total
    BY VestedBetween
  <2> HIDE DEF vested, lump, pool
  <2> QED BY <1>0, <2>1
<1>2. CASE Early(now)
  <2>1. vested(now) = lump
    BY <1>2 DEF VestedAmount
  <2> QED BY <1>1, <2>1
<1>3. CASE ~Early(now) /\ Over(later)
  <2>1. ~Early(later)
    BY <1>3
  <2>2. vested(later) = total
    BY <1>3, <2>1 DEF VestedAmount
  <2> QED BY <1>1, <2>2
<1>4. CASE ~Early(now) /\ ~Over(later)
  <2>1. ~Early(later) /\ ~Over(now)
    BY <1>4
  <2>2. /\ vested(now) = Smaller(Saturated(lump + linear(now)), total)
        /\ vested(later) = Smaller(Saturated(lump + linear(later)), total)
    BY <1>4, <2>1 DEF VestedAmount
  <2>3. duration \in Nat \ {0} /\ now - start_ts \in Nat /\ later - start_ts \in Nat
    BY <1>4, <2>1
  <2>4. /\ pool * (now - start_ts) \in Nat /\ pool * (later - start_ts) \in Nat
        /\ pool * (now - start_ts) <= pool * (later - start_ts)
    <3>1. PICK k \in Nat : later - start_ts = (now - start_ts) + k
      BY <2>3
    <3> DEFINE e == now - start_ts
    <3>2. pool * (e + k) = pool * e + pool * k /\ pool * k \in Nat /\ pool * e \in Nat
      <4>1. e \in Nat
        BY <2>3
      <4> HIDE DEF e, pool
      <4> QED BY <1>1, <4>1
    <3> HIDE DEF pool
    <3> QED BY <1>1, <2>3, <3>1, <3>2
  <2>5. linear(now) \in Nat /\ linear(later) \in Nat /\ linear(now) <= linear(later)
    <3> DEFINE a == pool * (now - start_ts)
               b == pool * (later - start_ts)
    <3>1. a \in Nat /\ b \in Nat /\ a <= b
      BY <2>4
    <3> HIDE DEF a, b
    <3>2. a \div duration \in Nat /\ b \div duration \in Nat
            /\ a \div duration <= b \div duration
      BY <2>3, <3>1, Quotient, QuotientMonotone
    <3> QED BY <3>2 DEF a, b
  <2> HIDE DEF linear, lump, vested
  <2>6. vested(now) <= vested(later)
    BY <1>1, <2>2, <2>5, RewardMathAssumption DEF Smaller, Saturated
  <2> QED BY <1>1, <2>6 DEF vested
<1> QED BY <1>2, <1>3, <1>4

-----------------------------------------------------------------------------
(* Reputation                                                              *)

\* A score is a quality, and its multiplier is one that NodeState may hold:
\* within [0.5x, 2.0x], and 1.0x exactly at the baseline.
THEOREM MultiplierInRange ==
  ASSUME NEW uptime \in Nat, NEW speed \in Nat, NEW review \in Nat
  PROVE  LET quality == ReputationQuality(uptime, speed, review)
         IN  /\ quality \in Nat /\ quality <= BPS
             /\ REPUTATION_MIN_BPS <= ReputationMultiplier(quality)
             /\ ReputationMultiplier(quality) <= REPUTATION_MAX_BPS
             /\ ReputationMultiplier(REPUTATION_BASELINE_QUALITY_BPS) = BPS
<1> DEFINE quality == ReputationQuality(uptime, speed, review)
           u == Smaller(uptime, BPS)
           s == Smaller(speed, BPS)
           r == Smaller(review, BPS)
           p == u * REPUTATION_W_UPTIME_BPS + s * REPUTATION_W_SPEED_BPS
                  + r * REPUTATION_W_REVIEW_BPS
<1>0. \A x \in Nat : Smaller(x, BPS) \in Nat /\ Smaller(x, BPS) <= BPS
  BY DEF Smaller, BPS
<1>1. /\ u \in Nat /\ u <= BPS /\ s \in Nat /\ s <= BPS
      /\ r \in Nat /\ r <= BPS
  BY <1>0
<1> HIDE DEF u, s, r
<1>2. p \in Nat /\ BPS * 0 <= p /\ p <= BPS * BPS
  BY <1>1 DEF BPS, REPUTATION_W_UPTIME_BPS, REPUTATION_W_SPEED_BPS,
              REPUTATION_W_REVIEW_BPS
<1>3. quality = p \div BPS
  BY DEF ReputationQuality, p, u, s, r
<1> HIDE DEF p, quality
<1>4. quality \in Nat /\ quality <= BPS
  BY <1>2, <1>3, QuotientBetween DEF BPS
<1>5. /\ REPUTATION_MIN_BPS <= ReputationMultiplier(quality)
      /\ ReputationMultiplier(quality) <= REPUTATION_MAX_BPS
  <2> DEFINE m == quality * 15000 + 5000
  <2>1. Smaller(quality, BPS) = quality
    BY <1>4 DEF Smaller, BPS
  <2>2. m \in Nat /\ m < BPS * 15000 + BPS
    BY <1>4 DEF BPS
  <2>3. ReputationMultiplier(quality) = REPUTATION_MIN_BPS + m \div BPS
    BY <2>1 DEF ReputationMultiplier, REPUTATION_MIN_BPS, REPUTATION_MAX_BPS, BPS
  <2> HIDE DEF m
  <2> DEFINE k == m \div BPS
  <2>4. k \in Nat /\ k <= 15000
    BY <2>2, Quotient DEF BPS
  <2>5. ReputationMultiplier(quality) = REPUTATION_MIN_BPS + k
    BY <2>3
  <2> HIDE DEF k
  <2> QED BY <2>4, <2>5 DEF REPUTATION_MIN_BPS, REPUTATION_MAX_BPS
<1>6. ReputationMultiplier(REPUTATION_BASELINE_QUALITY_BPS) = BPS
  BY DEF ReputationMultiplier, REPUTATION_BASELINE_QUALITY_BPS, Smaller, BPS,
         REPUTATION_MIN_BPS, REPUTATION_MAX_BPS
<1> QED BY <1>4, <1>5, <1>6 DEF quality

\* reputation_ema: the new quality lies between the old one and the sample
\* (the promise of weft-primitives/src/lib.rs:455).
THEOREM EmaBetween ==
  ASSUME NEW old \in Nat, old <= BPS, NEW sample \in Nat, sample <= BPS,
         NEW alpha \in Nat
  PROVE  /\ ReputationEma(old, sample, alpha) \in Nat
         /\ Smaller(old, sample) <= ReputationEma(old, sample, alpha)
         /\ ReputationEma(old, sample, alpha) <= Larger(old, sample)
<1> DEFINE a == Smaller(alpha, BPS)
           lo == Smaller(old, sample)
           hi == Larger(old, sample)
           p == a * sample + (BPS - a) * old
<1>0. BPS \in Nat /\ old \in Nat /\ old <= BPS /\ sample \in Nat /\ sample <= BPS
  BY DEF BPS
<1>1. a \in Nat /\ a <= BPS
  BY <1>0 DEF Smaller
<1>2. lo \in Nat /\ hi \in Nat /\ hi <= BPS /\ lo <= old /\ lo <= sample
        /\ old <= hi /\ sample <= hi
  BY <1>0 DEF Smaller, Larger
<1>3. ReputationEma(old, sample, alpha) = p \div BPS
  BY DEF ReputationEma, Smaller
<1> HIDE DEF a, lo, hi
<1> DEFINE b == BPS - a
<1>4. b \in Nat /\ BPS = a + b
  BY <1>0, <1>1
<1>5. p = a * sample + b * old
  OBVIOUS
<1> HIDE DEF b
<1>6. BPS * lo = a * lo + b * lo /\ BPS * hi = a * hi + b * hi
  <2>1. \A x, y, z \in Nat : (x + y) * z = x * z + y * z
    OBVIOUS
  <2>2. (a + b) * lo = a * lo + b * lo /\ (a + b) * hi = a * hi + b * hi
    BY <1>1, <1>2, <1>4, <2>1
  <2> QED BY <1>4, <2>2
<1>7. \A m, x, y \in Nat : x <= y => m * x <= m * y /\ m * x \in Nat /\ m * y \in Nat
  <2> SUFFICES ASSUME NEW m \in Nat, NEW x \in Nat, NEW y \in Nat, x <= y
               PROVE  m * x <= m * y /\ m * x \in Nat /\ m * y \in Nat
    OBVIOUS
  <2>1. PICK k \in Nat : y = x + k
    OBVIOUS
  <2>2. m * y = m * x + m * k /\ m * k \in Nat /\ m * x \in Nat
    BY <2>1
  <2> QED BY <2>2
<1>8. /\ a * lo <= a * sample /\ a * sample <= a * hi /\ a * lo \in Nat
      /\ a * sample \in Nat /\ a * hi \in Nat
  BY <1>0, <1>1, <1>2, <1>7
<1>9. /\ b * lo <= b * old /\ b * old <= b * hi /\ b * lo \in Nat
      /\ b * old \in Nat /\ b * hi \in Nat
  BY <1>0, <1>2, <1>4, <1>7
<1>10. p \in Nat /\ BPS * lo <= p /\ p <= BPS * hi
  BY <1>5, <1>6, <1>8, <1>9
<1> HIDE DEF p
<1> DEFINE ema == ReputationEma(old, sample, alpha)
<1>11. ema \in Nat /\ lo <= ema /\ ema <= hi
  BY <1>2, <1>3, <1>10, QuotientBetween
<1> HIDE DEF ema
<1> QED BY <1>11 DEF lo, hi, ema

\* One period of decay moves a quality towards the baseline and never past
\* it; the baseline is a fixed point (weft-primitives/src/lib.rs:466).
LEMMA DecayStepApproaches ==
  ASSUME NEW quality \in Nat, quality <= BPS
  PROVE  LET base == REPUTATION_BASELINE_QUALITY_BPS
             next == DecayStep(quality)
         IN  /\ next \in Nat
             /\ quality <= base => quality <= next /\ next <= base
             /\ quality >= base => base <= next /\ next <= quality
<1> DEFINE part(d) == (d * REPUTATION_DECAY_PER_PERIOD_BPS) \div BPS
           base == REPUTATION_BASELINE_QUALITY_BPS
<1>1. \A d \in Nat : part(d) \in Nat /\ part(d) <= d
  <2> SUFFICES ASSUME NEW d \in Nat PROVE part(d) \in Nat /\ part(d) <= d
    OBVIOUS
  <2> DEFINE p == d * REPUTATION_DECAY_PER_PERIOD_BPS
  <2>1. p \in Nat /\ BPS * 0 <= p /\ p <= BPS * d
    BY DEF REPUTATION_DECAY_PER_PERIOD_BPS, BPS
  <2> HIDE DEF p
  <2>2. p \div BPS \in Nat /\ p \div BPS <= d
    BY <2>1, QuotientBetween DEF BPS
  <2> QED BY <2>2 DEF p
<1>2. DecayStep(quality) = IF quality <= base THEN quality + part(base - quality)
                           ELSE quality - part(quality - base)
  BY DEF DecayStep
<1>3. base \in Nat
  BY DEF REPUTATION_BASELINE_QUALITY_BPS
<1> HIDE DEF part, base
<1>4. CASE quality <= base
  <2>1. base - quality \in Nat
    BY <1>3, <1>4
  <2>2. part(base - quality) \in Nat /\ part(base - quality) <= base - quality
    BY <1>1, <2>1
  <2>3. DecayStep(quality) = quality + part(base - quality)
    BY <1>2, <1>4
  <2>4. /\ DecayStep(quality) \in Nat
        /\ quality <= DecayStep(quality) /\ DecayStep(quality) <= base
        /\ quality >= base => base <= DecayStep(quality) /\ DecayStep(quality) <= quality
    BY <1>3, <1>4, <2>2, <2>3
  <2> QED BY <2>4 DEF base
<1>5. CASE ~(quality <= base)
  <2>1. quality - base \in Nat
    BY <1>3, <1>5
  <2>2. part(quality - base) \in Nat /\ part(quality - base) <= quality - base
    BY <1>1, <2>1
  <2>3. DecayStep(quality) = quality - part(quality - base)
    BY <1>2, <1>5
  <2>4. /\ DecayStep(quality) \in Nat
        /\ base <= DecayStep(quality) /\ DecayStep(quality) <= quality
    BY <1>3, <1>5, <2>2, <2>3
  <2> QED BY <1>5, <2>4 DEF base
<1> QED BY <1>4, <1>5

\* The recursion of DecayedQuality, up to any number of periods.
DecayTo(old, m, g) ==
  g = [n \in 0..m |-> IF n = 0 THEN Smaller(old, BPS) ELSE DecayStep(g[n - 1])]

LEMMA DecayToAny ==
  ASSUME NEW old, NEW n \in Nat
  PROVE  \E g : DecayTo(old, n, g)
<1> DEFINE Bad == {m \in Nat : ~(\E g : DecayTo(old, m, g))}
<1>1. SUFFICES ASSUME Bad # {} PROVE FALSE
  OBVIOUS
<1>2. PICK m \in Bad : \A k \in Bad : m <= k
  <2> Bad \in SUBSET Nat
    OBVIOUS
  <2> HIDE DEF Bad
  <2> QED BY <1>1, SmallestExists
<1>3. CASE m = 0
  <2> DEFINE g == [j \in 0..0 |-> Smaller(old, BPS)]
  <2>1. DecayTo(old, 0, g)
    BY DEF DecayTo
  <2> QED BY <1>2, <1>3, <2>1
<1>4. CASE m # 0
  <2>1. m - 1 \in Nat /\ m - 1 \notin Bad
    BY <1>2, <1>4
  <2>2. PICK g : DecayTo(old, m - 1, g)
    BY <2>1
  <2> DEFINE f == [j \in 0..m |-> IF j < m THEN g[j] ELSE DecayStep(g[m - 1])]
  <2>3. \A j \in 0..(m - 1) :
          g[j] = IF j = 0 THEN Smaller(old, BPS) ELSE DecayStep(g[j - 1])
    BY <2>2 DEF DecayTo
  <2>4. ASSUME NEW j \in 0..m
        PROVE  f[j] = IF j = 0 THEN Smaller(old, BPS) ELSE DecayStep(f[j - 1])
    <3>1. CASE j = 0
      BY <1>2, <1>4, <2>3, <3>1
    <3>2. CASE j # 0
      <4>1. j - 1 \in 0..m /\ j - 1 < m
        BY <1>2, <3>2
      <4>2. f[j - 1] = g[j - 1]
        BY <4>1
      <4>3. f[j] = DecayStep(g[j - 1])
        <5>1. CASE j < m
          <6>1. j \in 0..(m - 1)
            BY <1>2, <5>1
          <6> QED BY <2>3, <3>2, <5>1, <6>1
        <5>2. CASE j = m
          BY <5>2
        <5> QED BY <1>2, <5>1, <5>2
      <4> QED BY <3>2, <4>2, <4>3
    <3> QED BY <3>1, <3>2
  <2>5. DecayTo(old, m, f)
    <3> HIDE DEF f
    <3>1. f = [j \in 0..m |-> f[j]]
      BY DEF f
    <3> QED BY <2>4, <3>1, Zenon DEF DecayTo
  <2> QED BY <1>2, <2>5
<1> QED BY <1>3, <1>4

\* The whole periods between two times.
Periods(now, last_update) ==
  IF now <= last_update THEN 0
  ELSE (now - last_update) \div REPUTATION_DECAY_PERIOD_SECONDS

\* The quality after n periods, by the recursion of DecayedQuality.
After(old) == CHOOSE g : DecayTo(old, REPUTATION_DECAY_MAX_PERIODS, g)

\* r is between q and the baseline.
NearerBaseline(q, r) ==
  LET base == REPUTATION_BASELINE_QUALITY_BPS
  IN  /\ q <= base => q <= r /\ r <= base
      /\ q >= base => base <= r /\ r <= q

LEMMA DecayUnfolds ==
  ASSUME NEW old, NEW now, NEW last_update
  PROVE  /\ DecayedQuality(old, now, last_update) =
              IF Periods(now, last_update) >= REPUTATION_DECAY_MAX_PERIODS
              THEN REPUTATION_BASELINE_QUALITY_BPS
              ELSE After(old)[Periods(now, last_update)]
         /\ After(old)[0] = Smaller(old, BPS)
         /\ \A n \in 1..REPUTATION_DECAY_MAX_PERIODS :
              After(old)[n] = DecayStep(After(old)[n - 1])
<1>1. DecayedQuality(old, now, last_update) =
        IF Periods(now, last_update) >= REPUTATION_DECAY_MAX_PERIODS
        THEN REPUTATION_BASELINE_QUALITY_BPS
        ELSE After(old)[Periods(now, last_update)]
  BY Zenon DEF DecayedQuality, Periods, After, DecayTo
<1>2. REPUTATION_DECAY_MAX_PERIODS \in Nat
  BY DEF REPUTATION_DECAY_MAX_PERIODS
<1>3. DecayTo(old, REPUTATION_DECAY_MAX_PERIODS, After(old))
  BY <1>2, DecayToAny, Zenon DEF After
<1>4. \A n \in 0..REPUTATION_DECAY_MAX_PERIODS :
        After(old)[n] = IF n = 0 THEN Smaller(old, BPS) ELSE DecayStep(After(old)[n - 1])
  BY <1>3, Zenon DEF DecayTo
<1> QED BY <1>1, <1>2, <1>4

\* From any period on, each later one is nearer to the baseline.
LEMMA LaterIsNearer ==
  ASSUME NEW old \in Nat
  PROVE  LET at == After(old)
         IN  \A n \in 0..REPUTATION_DECAY_MAX_PERIODS :
               /\ at[n] \in Nat /\ at[n] <= BPS
               /\ \A m \in 0..n : NearerBaseline(at[m], at[n])
<1> DEFINE at == After(old)
           top == REPUTATION_DECAY_MAX_PERIODS
           base == REPUTATION_BASELINE_QUALITY_BPS
           Good(n) == /\ at[n] \in Nat /\ at[n] <= BPS
                      /\ \A m \in 0..n : NearerBaseline(at[m], at[n])
           Bad == {n \in 0..top : ~Good(n)}
<1>0. top \in Nat /\ base \in Nat /\ BPS \in Nat /\ base <= BPS
  BY DEF REPUTATION_DECAY_MAX_PERIODS, REPUTATION_BASELINE_QUALITY_BPS, BPS
<1>1. /\ at[0] = Smaller(old, BPS)
      /\ \A n \in 1..top : at[n] = DecayStep(at[n - 1])
  BY DecayUnfolds
<1> HIDE DEF at, top
<1>2. SUFFICES ASSUME Bad # {} PROVE FALSE
  BY DEF at, top
<1>3. PICK n \in Bad : \A k \in Bad : n <= k
  <2> Bad \in SUBSET Nat
    BY <1>0
  <2> HIDE DEF Bad
  <2> QED BY <1>2, SmallestExists
<1>4. ASSUME NEW q \in Nat PROVE NearerBaseline(q, q)
  BY <1>0 DEF NearerBaseline
<1>5. CASE n = 0
  <2>1. at[0] \in Nat /\ at[0] <= BPS
    BY <1>0, <1>1 DEF Smaller
  <2>2. \A m \in 0..0 : m = 0
    OBVIOUS
  <2>3. Good(0)
    BY <1>4, <2>1, <2>2
  <2> QED BY <1>3, <1>5, <2>3
<1>6. CASE n # 0
  <2>1. n \in 1..top /\ n - 1 \in 0..top /\ ~(n <= n - 1)
    BY <1>0, <1>3, <1>6
  <2>2. Good(n - 1)
    BY <1>3, <2>1
  <2> DEFINE q == at[n - 1]
             r == at[n]
  <2>3. q \in Nat /\ q <= BPS /\ r = DecayStep(q)
    BY <1>1, <2>1, <2>2
  <2>4. r \in Nat /\ NearerBaseline(q, r)
    BY <2>3, DecayStepApproaches DEF NearerBaseline
  <2>5. r <= BPS
    BY <1>0, <2>3, <2>4 DEF NearerBaseline
  <2>9. \A m \in 0..(n - 1) : at[m] \in Nat
    <3> SUFFICES ASSUME NEW m \in 0..(n - 1) PROVE at[m] \in Nat
      OBVIOUS
    <3>1. m \in 0..top /\ ~(n <= m)
      BY <1>0, <2>1
    <3>2. Good(m)
      BY <1>3, <3>1
    <3> QED BY <3>2
  <2>6. ASSUME NEW m \in 0..n PROVE NearerBaseline(at[m], r)
    <3>1. CASE m = n
      BY <1>4, <2>4, <3>1
    <3>2. CASE m # n
      <4>1. m \in 0..(n - 1) /\ m \in 0..top
        BY <1>0, <2>1, <3>2
      <4>2. NearerBaseline(at[m], q)
        BY <2>2, <4>1
      <4>3. at[m] \in Nat
        BY <2>1, <2>9, <4>1
      <4> HIDE DEF q, r
      <4> QED BY <1>0, <2>3, <2>4, <4>2, <4>3 DEF NearerBaseline
    <3> QED BY <3>1, <3>2
  <2>7. Good(n)
    BY <2>4, <2>5, <2>6
  <2> QED BY <1>3, <2>7
<1> QED BY <1>5, <1>6

\* A stored quality decays monotonically towards the baseline and never past
\* it: at a later time it lies between its earlier value and the baseline, for
\* any number of periods, and before the first period it is unchanged
\* (weft-primitives/src/lib.rs:466).
THEOREM DecayNeverOvershoots ==
  ASSUME NEW old \in Nat, NEW last_update \in Int, NEW now \in Int,
         NEW later \in Int, now <= later
  PROVE  /\ DecayedQuality(old, now, last_update) \in 0..BPS
         /\ NearerBaseline(DecayedQuality(old, now, last_update),
                           DecayedQuality(old, later, last_update))
         /\ now < last_update + REPUTATION_DECAY_PERIOD_SECONDS
              => DecayedQuality(old, now, last_update) = Smaller(old, BPS)
<1> DEFINE at == After(old)
           top == REPUTATION_DECAY_MAX_PERIODS
           base == REPUTATION_BASELINE_QUALITY_BPS
           second == REPUTATION_DECAY_PERIOD_SECONDS
           p == Periods(now, last_update)
           s == Periods(later, last_update)
           q == DecayedQuality(old, now, last_update)
           r == DecayedQuality(old, later, last_update)
<1>0. /\ top \in Nat \ {0} /\ base \in Nat /\ BPS \in Nat /\ base <= BPS
      /\ second \in Nat \ {0}
  BY DEF REPUTATION_DECAY_MAX_PERIODS, REPUTATION_BASELINE_QUALITY_BPS, BPS,
         REPUTATION_DECAY_PERIOD_SECONDS
<1>1. \A n \in 0..top :
        /\ at[n] \in Nat /\ at[n] <= BPS
        /\ \A m \in 0..n : NearerBaseline(at[m], at[n])
  BY LaterIsNearer
<1>2. /\ q = IF p >= top THEN base ELSE at[p]
      /\ r = IF s >= top THEN base ELSE at[s]
      /\ at[0] = Smaller(old, BPS)
  BY DecayUnfolds
<1>3. p \in Nat /\ s \in Nat /\ p <= s
  <2> HIDE DEF second
  <2>1. CASE later <= last_update
    BY <2>1 DEF Periods
  <2>2. CASE last_update < later
    <3>1. later - last_update \in Nat /\ s = (later - last_update) \div second
      BY <2>2 DEF Periods, second
    <3>2. s \in Nat
      BY <1>0, <3>1, Quotient
    <3>3. CASE now <= last_update
      BY <3>2, <3>3 DEF Periods
    <3>4. CASE last_update < now
      <4>1. /\ now - last_update \in Nat /\ p = (now - last_update) \div second
            /\ now - last_update <= later - last_update
        BY <3>4 DEF Periods, second
      <4>2. p \in Nat /\ p <= s
        BY <1>0, <3>1, <4>1, Quotient, QuotientMonotone
      <4> QED BY <3>2, <4>2
    <3> QED BY <3>3, <3>4
  <2> QED BY <2>1, <2>2
<1>4. ASSUME now < last_update + second PROVE p = 0
  <2>1. CASE now <= last_update
    BY <2>1 DEF Periods
  <2>2. CASE last_update < now
    <3>1. now - last_update \in Nat /\ now - last_update < second
      BY <1>0, <1>4, <2>2
    <3>2. p = (now - last_update) \div second
      BY <2>2 DEF Periods
    <3> QED BY <3>1, <3>2 DEF REPUTATION_DECAY_PERIOD_SECONDS
  <2> QED BY <2>1, <2>2
<1> HIDE DEF at, top, base, p, s, q, r
<1>5. q \in 0..BPS
  <2>1. CASE p >= top
    BY <1>0, <1>2, <2>1
  <2>2. CASE ~(p >= top)
    <3>1. p \in 0..top
      BY <1>0, <1>3, <2>2
    <3> QED BY <1>0, <1>1, <1>2, <2>2, <3>1
  <2> QED BY <2>1, <2>2
<1>6. NearerBaseline(q, r)
  <2>1. CASE s >= top
    BY <1>0, <1>2, <1>5, <2>1 DEF NearerBaseline, base
  <2>2. CASE ~(s >= top)
    <3>1. s \in 0..top /\ p \in 0..s /\ ~(p >= top)
      BY <1>0, <1>3, <2>2
    <3> QED BY <1>1, <1>2, <2>2, <3>1
  <2> QED BY <2>1, <2>2
<1>7. now < last_update + second => q = Smaller(old, BPS)
  BY <1>0, <1>2, <1>4
<1> QED BY <1>5, <1>6, <1>7 DEF q, r

-----------------------------------------------------------------------------
(* The levels of a Merkle tree                                             *)

\* The nodes of a level, or the leaves of a tree.
Nodes(level) == {level[i] : i \in 1..Len(level)}

\* A level is a sequence of nodes.
IsLevel(level) == level \in Seq(Nodes(level))

LEMMA LenIsNat ==
  ASSUME NEW level, IsLevel(level)
  PROVE  Len(level) \in Nat
BY DEF IsLevel

\* Half of a level's length, rounded up.
LEMMA Halved ==
  ASSUME NEW n \in Nat
  PROVE  /\ (n + 1) \div 2 \in Nat
         /\ 2 * ((n + 1) \div 2) >= n
         /\ 2 * ((n + 1) \div 2) <= n + 1
OBVIOUS

\* The level above a level is a level, half as long.
LEMMA NextIsLevel ==
  ASSUME NEW level, IsLevel(level)
  PROVE  /\ IsLevel(NextLevel(level))
         /\ Len(NextLevel(level)) = (Len(level) + 1) \div 2
         /\ \A i \in 1..((Len(level) + 1) \div 2) :
              NextLevel(level)[i] =
                IF 2 * i <= Len(level) THEN HashPair(level[2 * i - 1], level[2 * i])
                                       ELSE level[2 * i - 1]
<1> DEFINE n == (Len(level) + 1) \div 2
           next == NextLevel(level)
           T == {next[i] : i \in 1..n}
<1>1. Len(level) \in Nat
  BY DEF IsLevel
<1>2. n \in Nat
  BY <1>1, Halved
<1> HIDE DEF n
<1>3. next = [i \in 1..n |->
                IF 2 * i <= Len(level) THEN HashPair(level[2 * i - 1], level[2 * i])
                                       ELSE level[2 * i - 1]]
  BY DEF NextLevel, n
<1> HIDE DEF next
<1>4. next \in [1..n -> T]
  BY <1>3, Zenon
<1> HIDE DEF T
<1>5. next \in Seq(T) /\ Len(next) = n
  BY <1>2, <1>4, SeqDef
<1>6. Nodes(next) = T
  BY <1>5 DEF Nodes, T
<1>7. IsLevel(next)
  BY <1>5, <1>6 DEF IsLevel
<1>8. \A i \in 1..n : next[i] =
        IF 2 * i <= Len(level) THEN HashPair(level[2 * i - 1], level[2 * i])
                               ELSE level[2 * i - 1]
  BY <1>3, Zenon
<1> QED BY <1>5, <1>7, <1>8 DEF n, next

\* The recursion of Levels, up to any height.
LevelsTo(leaves, m, g) ==
  g = [h \in 0..m |-> IF h = 0 THEN leaves ELSE NextLevel(g[h - 1])]

LEMMA LevelsToAny ==
  ASSUME NEW leaves, NEW n \in Nat
  PROVE  \E g : LevelsTo(leaves, n, g)
<1> DEFINE Bad == {m \in Nat : ~(\E g : LevelsTo(leaves, m, g))}
<1>1. SUFFICES ASSUME Bad # {} PROVE FALSE
  OBVIOUS
<1>2. PICK m \in Bad : \A k \in Bad : m <= k
  <2> Bad \in SUBSET Nat
    OBVIOUS
  <2> HIDE DEF Bad
  <2> QED BY <1>1, SmallestExists
<1>3. CASE m = 0
  <2> DEFINE g == [h \in 0..0 |-> leaves]
  <2>1. LevelsTo(leaves, 0, g)
    BY DEF LevelsTo
  <2> QED BY <1>2, <1>3, <2>1
<1>4. CASE m # 0
  <2>1. m - 1 \in Nat /\ m - 1 \notin Bad
    BY <1>2, <1>4
  <2>2. PICK g : LevelsTo(leaves, m - 1, g)
    BY <2>1
  <2> DEFINE f == [h \in 0..m |-> IF h < m THEN g[h] ELSE NextLevel(g[m - 1])]
  <2>3. \A h \in 0..(m - 1) :
          g[h] = IF h = 0 THEN leaves ELSE NextLevel(g[h - 1])
    BY <2>2 DEF LevelsTo
  <2>4. ASSUME NEW h \in 0..m
        PROVE  f[h] = IF h = 0 THEN leaves ELSE NextLevel(f[h - 1])
    <3>1. CASE h = 0
      BY <1>2, <1>4, <2>3, <3>1
    <3>2. CASE h # 0
      <4>1. h - 1 \in 0..m /\ h - 1 < m
        BY <1>2, <3>2
      <4>2. f[h - 1] = g[h - 1]
        BY <4>1
      <4>3. f[h] = NextLevel(g[h - 1])
        <5>1. CASE h < m
          <6>1. h \in 0..(m - 1)
            BY <1>2, <5>1
          <6> QED BY <2>3, <3>2, <5>1, <6>1
        <5>2. CASE h = m
          BY <5>2
        <5> QED BY <1>2, <5>1, <5>2
      <4> QED BY <3>2, <4>2, <4>3
    <3> QED BY <3>1, <3>2
  <2>5. LevelsTo(leaves, m, f)
    <3> HIDE DEF f
    <3>1. f = [h \in 0..m |-> f[h]]
      BY DEF f
    <3> QED BY <2>4, <3>1, Zenon DEF LevelsTo
  <2> QED BY <1>2, <2>5
<1> QED BY <1>3, <1>4

\* What the recursive definition of Levels says.
LEMMA LevelsUnfold ==
  ASSUME NEW leaves, Len(leaves) \in Nat
  PROVE  /\ Levels(leaves)[0] = leaves
         /\ \A h \in 1..Len(leaves) :
              Levels(leaves)[h] = NextLevel(Levels(leaves)[h - 1])
<1>1. Levels(leaves) = CHOOSE g : LevelsTo(leaves, Len(leaves), g)
  BY DEF Levels, LevelsTo
<1>2. LevelsTo(leaves, Len(leaves), Levels(leaves))
  BY <1>1, LevelsToAny, Zenon
<1>3. \A h \in 0..Len(leaves) : Levels(leaves)[h] =
        IF h = 0 THEN leaves ELSE NextLevel(Levels(leaves)[h - 1])
  BY <1>2, Zenon DEF LevelsTo
<1> QED BY <1>3

\* Every level of a tree is a level, no longer than the leaves less the height.
LEMMA LevelsAreLevels ==
  ASSUME NEW leaves, IsLevel(leaves), Len(leaves) >= 1
  PROVE  \A h \in 0..Len(leaves) :
           /\ IsLevel(Levels(leaves)[h])
           /\ Len(Levels(leaves)[h]) >= 1
           /\ Len(Levels(leaves)[h]) = 1 \/ Len(Levels(leaves)[h]) + h <= Len(leaves)
<1> DEFINE n == Len(leaves)
           lv == Levels(leaves)
           Good(h) == /\ IsLevel(lv[h])
                      /\ Len(lv[h]) >= 1
                      /\ Len(lv[h]) = 1 \/ Len(lv[h]) + h <= n
           Bad == {h \in 0..n : ~Good(h)}
<1>0. n \in Nat /\ n >= 1
  BY DEF IsLevel
<1>1. SUFFICES ASSUME Bad # {} PROVE FALSE
  OBVIOUS
<1>2. PICK h \in Bad : \A k \in Bad : h <= k
  <2> Bad \in SUBSET Nat
    BY <1>0
  <2> HIDE DEF Bad
  <2> QED BY <1>1, SmallestExists
<1>3. /\ lv[0] = leaves
      /\ \A k \in 1..n : lv[k] = NextLevel(lv[k - 1])
  BY <1>0, LevelsUnfold
<1> HIDE DEF n, lv
<1>4. CASE h = 0
  <2>1. Good(0)
    BY <1>0, <1>3 DEF n
  <2> QED BY <1>2, <1>4, <2>1
<1>5. CASE h # 0
  <2>1. h \in 1..n /\ h - 1 \in 0..n /\ ~(h <= h - 1)
    BY <1>0, <1>2, <1>5
  <2>2. Good(h - 1)
    BY <1>2, <2>1
  <2>3. /\ IsLevel(lv[h])
        /\ Len(lv[h]) = (Len(lv[h - 1]) + 1) \div 2
    BY <1>3, <2>1, <2>2, NextIsLevel
  <2>4. Len(lv[h - 1]) \in Nat /\ Len(lv[h]) \in Nat
    BY <2>2, <2>3, LenIsNat
  <2>5. /\ Len(lv[h - 1]) >= 1
        /\ Len(lv[h - 1]) = 1 \/ Len(lv[h - 1]) + (h - 1) <= n
    BY <2>2
  <2>6. /\ Len(lv[h]) >= 1
        /\ Len(lv[h]) = 1 \/ Len(lv[h]) + h <= n
    <3> DEFINE a == Len(lv[h - 1])
               b == Len(lv[h])
    <3>1. a \in Nat /\ b \in Nat /\ b = (a + 1) \div 2 /\ a >= 1 /\ (a = 1 \/ a + (h - 1) <= n)
      BY <2>3, <2>4, <2>5
    <3> HIDE DEF a, b
    <3>2. b >= 1 /\ (b = 1 \/ b < a) /\ (a = 1 => b = 1)
      BY <3>1
    <3>3. b >= 1 /\ (b = 1 \/ b + h <= n)
      BY <1>0, <2>1, <3>1, <3>2
    <3> QED BY <3>3 DEF b
  <2>7. Good(h)
    BY <2>3, <2>6
  <2> QED BY <1>2, <2>7
<1> QED BY <1>4, <1>5

\* The loops end, at a level of one node.
LEMMA HeightExists ==
  ASSUME NEW leaves, IsLevel(leaves), Len(leaves) >= 1
  PROVE  /\ Height(leaves) \in 0..Len(leaves)
         /\ Len(Levels(leaves)[Height(leaves)]) = 1
<1> DEFINE n == Len(leaves)
           lv == Levels(leaves)
           S == {h \in 0..n : Len(lv[h]) <= 1}
<1>1. n \in Nat /\ n >= 1
  BY DEF IsLevel
<1>2. \A h \in 0..n : /\ IsLevel(lv[h])
                      /\ Len(lv[h]) >= 1
                      /\ Len(lv[h]) = 1 \/ Len(lv[h]) + h <= n
  BY LevelsAreLevels
<1>3. \A h \in 0..n : /\ Len(lv[h]) \in Nat
                      /\ Len(lv[h]) >= 1
                      /\ Len(lv[h]) = 1 \/ Len(lv[h]) + h <= n
  BY <1>2, LenIsNat
<1> HIDE DEF lv
<1>4. n \in S
  <2> HIDE DEF n
  <2>1. n \in 0..n
    BY <1>1
  <2> DEFINE a == Len(lv[n])
  <2>2. a \in Nat /\ (a = 1 \/ a + n <= n)
    BY <1>3, <2>1
  <2> HIDE DEF a
  <2>3. a <= 1
    BY <1>1, <2>2
  <2> QED BY <2>1, <2>3 DEF a
<1>5. PICK h \in S : \A k \in S : h <= k
  <2> S \in SUBSET Nat /\ S # {}
    BY <1>1, <1>4
  <2> HIDE DEF S
  <2> QED BY SmallestExists
<1>6. \A g \in 0..(h - 1) : Len(lv[g]) > 1
  <2> SUFFICES ASSUME NEW g \in 0..(h - 1), ~(Len(lv[g]) > 1) PROVE FALSE
    OBVIOUS
  <2>1. g \in 0..n /\ g < h
    BY <1>1, <1>5
  <2>2. g \in S
    BY <1>3, <2>1
  <2> QED BY <1>5, <2>1, <2>2
<1>7. /\ Height(leaves) \in 0..n
      /\ Len(lv[Height(leaves)]) <= 1
  <2> HIDE DEF n
  <2>1. h \in 0..n /\ Len(lv[h]) <= 1
    BY <1>5
  <2> QED BY <1>6, <2>1 DEF Height, lv, n
<1>8. Len(lv[Height(leaves)]) = 1
  <2> HIDE DEF n
  <2> DEFINE a == Len(lv[Height(leaves)])
  <2>1. a \in Nat /\ a >= 1 /\ a <= 1
    BY <1>3, <1>7, Zenon
  <2> HIDE DEF a
  <2>2. a = 1
    BY <2>1
  <2> QED BY <2>2 DEF a
<1> QED BY <1>7, <1>8 DEF lv

-----------------------------------------------------------------------------
(* Nothing but the leaves verifies                                         *)

\* A node of the tree is a leaf or the hash of two nodes of the tree.
TreeNode(leaves, x) ==
  \E h \in 0..Len(leaves) : x \in Nodes(Levels(leaves)[h])

LEMMA NodeIsLeafOrPair ==
  ASSUME NEW leaves, IsLevel(leaves), Len(leaves) >= 1,
         NEW x, TreeNode(leaves, x)
  PROVE  \/ x \in Nodes(leaves)
         \/ \E a, b : /\ TreeNode(leaves, a)
                      /\ TreeNode(leaves, b)
                      /\ x = HashPair(a, b)
<1> DEFINE n == Len(leaves)
           lv == Levels(leaves)
           S == {h \in 0..n : x \in Nodes(lv[h])}
<1>1. n \in Nat /\ n >= 1
  BY DEF IsLevel
<1>2. PICK h \in S : \A k \in S : h <= k
  <2> S \in SUBSET Nat /\ S # {}
    BY <1>1 DEF TreeNode
  <2> HIDE DEF S
  <2> QED BY SmallestExists
<1>3. /\ lv[0] = leaves
      /\ \A k \in 1..n : lv[k] = NextLevel(lv[k - 1])
  BY <1>1, LevelsUnfold
<1>4. CASE h = 0
  BY <1>2, <1>3, <1>4
<1>5. CASE h # 0
  <2> DEFINE below == lv[h - 1]
             m == Len(below)
  <2>1. h \in 1..n /\ h - 1 \in 0..n /\ ~(h <= h - 1)
    BY <1>1, <1>2, <1>5
  <2>2. IsLevel(below) /\ m \in Nat
    <3>1. IsLevel(below)
      BY <2>1, LevelsAreLevels
    <3> QED BY <3>1, LenIsNat
  <2>3. lv[h] = NextLevel(below)
    BY <1>3, <2>1
  <2> HIDE DEF below, lv
  <2>4. PICK i \in 1..((m + 1) \div 2) :
          x = IF 2 * i <= m THEN HashPair(below[2 * i - 1], below[2 * i])
                            ELSE below[2 * i - 1]
    <3>1. x \in Nodes(NextLevel(below)) /\ Len(NextLevel(below)) = (m + 1) \div 2
      BY <1>2, <2>2, <2>3, NextIsLevel
    <3> QED BY <2>2, <3>1, NextIsLevel DEF Nodes
  <2>5. 2 * i - 1 \in 1..m /\ (2 * i <= m => 2 * i \in 1..m)
    BY <2>2, <2>4, Halved
  <2>6. below[2 * i - 1] \in Nodes(below)
    BY <2>5 DEF Nodes
  <2>7. CASE 2 * i <= m
    <3>1. below[2 * i] \in Nodes(below)
      BY <2>5, <2>7 DEF Nodes
    <3>2. \A y \in Nodes(below) : TreeNode(leaves, y)
      BY <2>1 DEF TreeNode, below, lv
    <3> QED BY <2>4, <2>6, <2>7, <3>1, <3>2
  <2>8. CASE ~(2 * i <= m)
    <3>1. x \in Nodes(below)
      BY <2>4, <2>6, <2>8
    <3>2. h - 1 \in S
      BY <2>1, <3>1 DEF below
    <3> QED BY <1>2, <2>1, <3>2
  <2> QED BY <2>7, <2>8
<1> QED BY <1>4, <1>5

\* The root is a node of the tree.
LEMMA RootIsNode ==
  ASSUME NEW leaves, IsLevel(leaves), Len(leaves) >= 1
  PROVE  TreeNode(leaves, MerkleRoot(leaves))
BY HeightExists DEF TreeNode, Nodes, MerkleRoot

\* The recursion of Climb, up to any length.
ClimbTo(proof, leaf, m, g) ==
  g = [j \in 0..m |-> IF j = 0 THEN leaf ELSE HashPair(g[j - 1], proof[j])]

LEMMA ClimbToAny ==
  ASSUME NEW proof, NEW leaf, NEW n \in Nat
  PROVE  \E g : ClimbTo(proof, leaf, n, g)
<1> DEFINE Bad == {m \in Nat : ~(\E g : ClimbTo(proof, leaf, m, g))}
<1>1. SUFFICES ASSUME Bad # {} PROVE FALSE
  OBVIOUS
<1>2. PICK m \in Bad : \A k \in Bad : m <= k
  <2> Bad \in SUBSET Nat
    OBVIOUS
  <2> HIDE DEF Bad
  <2> QED BY <1>1, SmallestExists
<1>3. CASE m = 0
  <2> DEFINE g == [j \in 0..0 |-> leaf]
  <2>1. ClimbTo(proof, leaf, 0, g)
    BY DEF ClimbTo
  <2> QED BY <1>2, <1>3, <2>1
<1>4. CASE m # 0
  <2>1. m - 1 \in Nat /\ m - 1 \notin Bad
    BY <1>2, <1>4
  <2>2. PICK g : ClimbTo(proof, leaf, m - 1, g)
    BY <2>1
  <2> DEFINE f == [j \in 0..m |->
                     IF j < m THEN g[j] ELSE HashPair(g[m - 1], proof[m])]
  <2>3. \A j \in 0..(m - 1) :
          g[j] = IF j = 0 THEN leaf ELSE HashPair(g[j - 1], proof[j])
    BY <2>2 DEF ClimbTo
  <2>4. ASSUME NEW j \in 0..m
        PROVE  f[j] = IF j = 0 THEN leaf ELSE HashPair(f[j - 1], proof[j])
    <3>1. CASE j = 0
      BY <1>2, <1>4, <2>3, <3>1
    <3>2. CASE j # 0
      <4>1. j - 1 \in 0..m /\ j - 1 < m
        BY <1>2, <3>2
      <4>2. f[j - 1] = g[j - 1]
        BY <4>1
      <4>3. f[j] = HashPair(g[j - 1], proof[j])
        <5>1. CASE j < m
          <6>1. j \in 0..(m - 1)
            BY <1>2, <5>1
          <6> QED BY <2>3, <3>2, <5>1, <6>1
        <5>2. CASE j = m
          BY <5>2
        <5> QED BY <1>2, <5>1, <5>2
      <4> QED BY <3>2, <4>2, <4>3
    <3> QED BY <3>1, <3>2
  <2>5. ClimbTo(proof, leaf, m, f)
    <3> HIDE DEF f
    <3>1. f = [j \in 0..m |-> f[j]]
      BY DEF f
    <3> QED BY <2>4, <3>1, Zenon DEF ClimbTo
  <2> QED BY <1>2, <2>5
<1> QED BY <1>3, <1>4

\* What the recursive definition of Climb says.
LEMMA ClimbUnfolds ==
  ASSUME NEW proof, NEW leaf, Len(proof) \in Nat
  PROVE  /\ Climb(proof, leaf)[0] = leaf
         /\ \A j \in 1..Len(proof) :
              Climb(proof, leaf)[j] = HashPair(Climb(proof, leaf)[j - 1], proof[j])
<1>1. Climb(proof, leaf) = CHOOSE g : ClimbTo(proof, leaf, Len(proof), g)
  BY DEF Climb, ClimbTo
<1>2. ClimbTo(proof, leaf, Len(proof), Climb(proof, leaf))
  BY <1>1, ClimbToAny, Zenon
<1>3. \A j \in 0..Len(proof) : Climb(proof, leaf)[j] =
        IF j = 0 THEN leaf ELSE HashPair(Climb(proof, leaf)[j - 1], proof[j])
  BY <1>2, Zenon DEF ClimbTo
<1> QED BY <1>3

\* A hash of a leaf is not the hash of a pair: the domains differ.
LEMMA DomainsDiffer ==
  ASSUME NEW a, NEW b, NEW x, NEW y, NEW z
  PROVE  /\ RewardLeaf(x, y, z) # HashPair(a, b)
         /\ AllocationLeaf(x, y, z) # HashPair(a, b)
BY DEF RewardLeaf, AllocationLeaf, HashPair

\* A hash of two nodes is no other two nodes' hash.
LEMMA PairInjective ==
  ASSUME NEW a, NEW b, NEW c, NEW d, HashPair(a, b) = HashPair(c, d)
  PROVE  a = c \/ a = d
<1>1. HashPair(a, b).pair = {a, b} /\ HashPair(c, d).pair = {c, d}
  BY DEF HashPair
<1>2. {a, b} = {c, d}
  BY <1>1
<1> QED BY <1>2

\* A leaf's hash says the epoch, the node and the amount.
LEMMA LeafInjective ==
  ASSUME NEW e, NEW k, NEW a, NEW f, NEW l, NEW b,
         RewardLeaf(e, k, a) = RewardLeaf(f, l, b)
  PROVE  e = f /\ k = l /\ a = b
<1>1. RewardLeaf(e, k, a).leaf = <<e, k, a>> /\ RewardLeaf(f, l, b).leaf = <<f, l, b>>
  BY DEF RewardLeaf
<1> QED BY <1>1

\* The leaves of an epoch's tree: terms <<epoch, node, amount>>, hashed.
RewardLeaves(leaves) ==
  \A x \in Nodes(leaves) : \E e, k, a : x = RewardLeaf(e, k, a)

\* Whatever the climb from a node passes is a node of the tree, when it ends in one.
LEMMA ClimbStays ==
  ASSUME NEW leaves, IsLevel(leaves), Len(leaves) >= 1, RewardLeaves(leaves),
         NEW proof, Len(proof) \in Nat, NEW leaf,
         TreeNode(leaves, Climb(proof, leaf)[Len(proof)])
  PROVE  TreeNode(leaves, leaf)
<1> DEFINE n == Len(proof)
           at == Climb(proof, leaf)
           S == {j \in 0..n : TreeNode(leaves, at[j])}
<1>1. at[0] = leaf /\ \A j \in 1..n : at[j] = HashPair(at[j - 1], proof[j])
  BY ClimbUnfolds
<1> HIDE DEF at
<1>2. PICK j \in S : \A k \in S : j <= k
  <2>1. n \in S
    BY DEF at
  <2> S \in SUBSET Nat
    OBVIOUS
  <2> HIDE DEF S
  <2> QED BY <2>1, SmallestExists
<1>3. CASE j = 0
  BY <1>1, <1>2, <1>3
<1>4. CASE j # 0
  <2>1. j \in 1..n /\ j - 1 \in 0..n /\ ~(j <= j - 1)
    BY <1>2, <1>4
  <2>2. at[j] = HashPair(at[j - 1], proof[j]) /\ TreeNode(leaves, at[j])
    BY <1>1, <1>2, <2>1
  <2>3. at[j] \notin Nodes(leaves)
    BY <2>2, DomainsDiffer DEF RewardLeaves
  <2>4. PICK a, b : /\ TreeNode(leaves, a) /\ TreeNode(leaves, b)
                    /\ at[j] = HashPair(a, b)
    BY <2>2, <2>3, NodeIsLeafOrPair
  <2>5. HashPair(at[j - 1], proof[j]) = HashPair(a, b)
    BY <2>2, <2>4, Zenon
  <2>6. at[j - 1] = a \/ at[j - 1] = b
    BY <2>5, PairInjective
  <2>7. TreeNode(leaves, at[j - 1])
    BY <2>4, <2>6
  <2>8. j - 1 \in S
    BY <2>1, <2>7
  <2> QED BY <1>2, <2>1, <2>8
<1> QED BY <1>3, <1>4

\* What verifies against the root, unless it is itself the hash of a pair, is
\* one of the leaves.
LEMMA VerifiedIsLeaf ==
  ASSUME NEW leaves, IsLevel(leaves), Len(leaves) >= 1, RewardLeaves(leaves),
         NEW x, \A a, b : x # HashPair(a, b),
         NEW proof, Len(proof) \in Nat, MerkleVerify(proof, MerkleRoot(leaves), x)
  PROVE  x \in Nodes(leaves)
<1>1. TreeNode(leaves, MerkleRoot(leaves))
  BY RootIsNode
<1>2. TreeNode(leaves, Climb(proof, x)[Len(proof)])
  BY <1>1 DEF MerkleVerify
<1>3. TreeNode(leaves, x)
  BY <1>2, ClimbStays
<1> QED BY <1>3, NodeIsLeafOrPair

-----------------------------------------------------------------------------
(* Every leaf verifies                                                     *)

\* The recursion of Walk, up to any height.
WalkTo(leaves, index, m, g) ==
  g = [h \in 0..m |-> IF h = 0 THEN [idx |-> index, proof |-> <<>>]
                      ELSE Ascend(Levels(leaves)[h - 1], g[h - 1])]

LEMMA WalkToAny ==
  ASSUME NEW leaves, NEW index, NEW n \in Nat
  PROVE  \E g : WalkTo(leaves, index, n, g)
<1> DEFINE Bad == {m \in Nat : ~(\E g : WalkTo(leaves, index, m, g))}
           first == [idx |-> index, proof |-> <<>>]
           lv == Levels(leaves)
<1>1. SUFFICES ASSUME Bad # {} PROVE FALSE
  OBVIOUS
<1>2. PICK m \in Bad : \A k \in Bad : m <= k
  <2> Bad \in SUBSET Nat
    OBVIOUS
  <2> HIDE DEF Bad
  <2> QED BY <1>1, SmallestExists
<1>3. CASE m = 0
  <2> DEFINE g == [h \in 0..0 |-> first]
  <2>1. WalkTo(leaves, index, 0, g)
    BY DEF WalkTo
  <2> QED BY <1>2, <1>3, <2>1
<1>4. CASE m # 0
  <2>1. m - 1 \in Nat /\ m - 1 \notin Bad
    BY <1>2, <1>4
  <2>2. PICK g : WalkTo(leaves, index, m - 1, g)
    BY <2>1
  <2> DEFINE f == [h \in 0..m |->
                     IF h < m THEN g[h] ELSE Ascend(lv[m - 1], g[m - 1])]
  <2>3. \A h \in 0..(m - 1) :
          g[h] = IF h = 0 THEN first ELSE Ascend(lv[h - 1], g[h - 1])
    BY <2>2 DEF WalkTo
  <2> HIDE DEF first, lv
  <2>4. ASSUME NEW h \in 0..m
        PROVE  f[h] = IF h = 0 THEN first ELSE Ascend(lv[h - 1], f[h - 1])
    <3>1. CASE h = 0
      BY <1>2, <1>4, <2>3, <3>1
    <3>2. CASE h # 0
      <4>1. h - 1 \in 0..m /\ h - 1 < m
        BY <1>2, <3>2
      <4>2. f[h - 1] = g[h - 1]
        BY <4>1
      <4>3. f[h] = Ascend(lv[h - 1], g[h - 1])
        <5>1. CASE h < m
          <6>1. h \in 0..(m - 1)
            BY <1>2, <5>1
          <6> QED BY <2>3, <3>2, <5>1, <6>1
        <5>2. CASE h = m
          BY <5>2
        <5> QED BY <1>2, <5>1, <5>2
      <4> QED BY <3>2, <4>2, <4>3
    <3> QED BY <3>1, <3>2
  <2>5. WalkTo(leaves, index, m, f)
    <3> HIDE DEF f
    <3>1. f = [h \in 0..m |-> f[h]]
      BY DEF f
    <3> QED BY <2>4, <3>1, Zenon DEF WalkTo, first, lv
  <2> QED BY <1>2, <2>5
<1> QED BY <1>3, <1>4

\* What the recursive definition of Walk says.
LEMMA WalkUnfolds ==
  ASSUME NEW leaves, NEW index, Len(leaves) \in Nat
  PROVE  /\ Walk(leaves, index)[0] = [idx |-> index, proof |-> <<>>]
         /\ \A h \in 1..Len(leaves) :
              Walk(leaves, index)[h] =
                Ascend(Levels(leaves)[h - 1], Walk(leaves, index)[h - 1])
<1>1. Walk(leaves, index) = CHOOSE g : WalkTo(leaves, index, Len(leaves), g)
  BY DEF Walk, WalkTo
<1>2. WalkTo(leaves, index, Len(leaves), Walk(leaves, index))
  BY <1>1, WalkToAny, Zenon
<1>3. \A h \in 0..Len(leaves) : Walk(leaves, index)[h] =
        IF h = 0 THEN [idx |-> index, proof |-> <<>>]
        ELSE Ascend(Levels(leaves)[h - 1], Walk(leaves, index)[h - 1])
  BY <1>2, Zenon DEF WalkTo
<1> QED BY <1>3

\* A longer proof climbs as the shorter one does, and then one step more.
LEMMA ClimbOfAppended ==
  ASSUME NEW T, NEW proof \in Seq(T), NEW s \in T, NEW leaf
  PROVE  Climb(Append(proof, s), leaf)[Len(Append(proof, s))] =
           HashPair(Climb(proof, leaf)[Len(proof)], s)
<1> DEFINE longer == Append(proof, s)
           n == Len(proof)
           old == Climb(proof, leaf)
           new == Climb(longer, leaf)
           Bad == {j \in 0..n : new[j] # old[j]}
<1>1. /\ longer \in Seq(T) /\ n \in Nat /\ Len(longer) = n + 1
      /\ longer[n + 1] = s
      /\ \A j \in 1..n : longer[j] = proof[j]
  OBVIOUS
<1> HIDE DEF longer, n
<1>2. /\ old[0] = leaf
      /\ \A j \in 1..n : old[j] = HashPair(old[j - 1], proof[j])
  BY <1>1, ClimbUnfolds DEF n
<1>3. /\ new[0] = leaf
      /\ \A j \in 1..(n + 1) : new[j] = HashPair(new[j - 1], longer[j])
  BY <1>1, ClimbUnfolds
<1> HIDE DEF old, new
<1>4. Bad = {}
  <2>1. SUFFICES ASSUME Bad # {} PROVE FALSE
    OBVIOUS
  <2>2. PICK j \in Bad : \A k \in Bad : j <= k
    <3> Bad \in SUBSET Nat
      BY <1>1
    <3> HIDE DEF Bad
    <3> QED BY <2>1, SmallestExists
  <2>3. j # 0
    BY <1>2, <1>3, <2>2
  <2>4. j \in 1..n /\ j - 1 \in 0..n /\ ~(j <= j - 1) /\ j \in 1..(n + 1)
    BY <1>1, <2>2, <2>3
  <2>5. new[j - 1] = old[j - 1]
    BY <2>2, <2>4
  <2>6. new[j] = old[j]
    BY <1>1, <1>2, <1>3, <2>4, <2>5
  <2> QED BY <2>2, <2>6
<1>5. new[n] = old[n]
  BY <1>1, <1>4
<1>6. new[n + 1] = HashPair(new[n], s)
  BY <1>1, <1>3
<1> QED BY <1>1, <1>5, <1>6 DEF longer, n, old, new

\* One step up the tree: the sibling, where there is one, leads from the node
\* to its parent; where there is none, the node is its own parent.
LEMMA AscendStep ==
  ASSUME NEW level, IsLevel(level), NEW idx \in 0..(Len(level) - 1)
  PROVE  /\ idx \div 2 \in 0..(Len(NextLevel(level)) - 1)
         /\ Sibling(idx) \in Nat
         /\ IF Sibling(idx) < Len(level)
            THEN NextLevel(level)[idx \div 2 + 1] =
                   HashPair(level[idx + 1], level[Sibling(idx) + 1])
            ELSE NextLevel(level)[idx \div 2 + 1] = level[idx + 1]
<1> DEFINE n == Len(level)
           i == idx \div 2 + 1
<1>1. n \in Nat /\ idx \in Nat /\ idx < n
  BY LenIsNat
<1>2. /\ Len(NextLevel(level)) = (n + 1) \div 2
      /\ \A j \in 1..((n + 1) \div 2) :
           NextLevel(level)[j] =
             IF 2 * j <= n THEN HashPair(level[2 * j - 1], level[2 * j])
                           ELSE level[2 * j - 1]
  BY NextIsLevel
<1> HIDE DEF n
<1>3. /\ idx \div 2 \in Nat
      /\ i \in 1..((n + 1) \div 2)
      /\ Sibling(idx) \in Nat
  BY <1>1 DEF Sibling
<1>4. NextLevel(level)[i] = IF 2 * i <= n THEN HashPair(level[2 * i - 1], level[2 * i])
                                          ELSE level[2 * i - 1]
  BY <1>2, <1>3
<1>5. CASE idx % 2 = 0
  <2>1. 2 * i - 1 = idx + 1 /\ 2 * i = idx + 2 /\ Sibling(idx) = idx + 1
    BY <1>1, <1>5 DEF Sibling
  <2>2. 2 * i <= n <=> Sibling(idx) < n
    BY <1>1, <2>1
  <2>3. Sibling(idx) + 1 = 2 * i
    BY <1>1, <2>1
  <2> HIDE DEF i
  <2>4. IF Sibling(idx) < n
        THEN NextLevel(level)[i] = HashPair(level[idx + 1], level[Sibling(idx) + 1])
        ELSE NextLevel(level)[i] = level[idx + 1]
    BY <1>4, <2>1, <2>2, <2>3
  <2> QED BY <1>2, <1>3, <2>4 DEF i, n
<1>6. CASE idx % 2 # 0
  <2>1. 2 * i - 1 = idx /\ 2 * i = idx + 1 /\ Sibling(idx) = idx - 1
    BY <1>1, <1>6 DEF Sibling
  <2>2. 2 * i <= n /\ Sibling(idx) < n /\ Sibling(idx) + 1 = idx
    BY <1>1, <2>1
  <2> HIDE DEF i
  <2>3. NextLevel(level)[i] = HashPair(level[idx], level[idx + 1])
    BY <1>4, <2>1, <2>2
  <2>4. HashPair(level[idx], level[idx + 1]) = HashPair(level[idx + 1], level[idx])
    BY DEF HashPair
  <2> QED BY <1>2, <1>3, <2>2, <2>3, <2>4 DEF i, n
<1> QED BY <1>5, <1>6

\* At every height the walk is at the node that its proof leads to.
LEMMA WalkClimbs ==
  ASSUME NEW leaves, IsLevel(leaves), Len(leaves) >= 1,
         NEW index \in 0..(Len(leaves) - 1)
  PROVE  \A h \in 0..Len(leaves) :
           LET at    == Walk(leaves, index)[h]
               level == Levels(leaves)[h]
           IN  /\ at.idx \in 0..(Len(level) - 1)
               /\ \E T : at.proof \in Seq(T)
               /\ Climb(at.proof, leaves[index + 1])[Len(at.proof)] =
                    level[at.idx + 1]
<1> DEFINE n == Len(leaves)
           lv == Levels(leaves)
           at == Walk(leaves, index)
           leaf == leaves[index + 1]
           Good(h) == /\ at[h].idx \in 0..(Len(lv[h]) - 1)
                      /\ \E T : at[h].proof \in Seq(T)
                      /\ Climb(at[h].proof, leaf)[Len(at[h].proof)] =
                           lv[h][at[h].idx + 1]
           Bad == {h \in 0..n : ~Good(h)}
<1>1. n \in Nat /\ n >= 1
  BY LenIsNat
<1>2. SUFFICES ASSUME Bad # {} PROVE FALSE
  OBVIOUS
<1>3. PICK h \in Bad : \A k \in Bad : h <= k
  <2> Bad \in SUBSET Nat
    BY <1>1
  <2> HIDE DEF Bad
  <2> QED BY <1>2, SmallestExists
<1>4. /\ lv[0] = leaves
      /\ \A k \in 1..n : lv[k] = NextLevel(lv[k - 1])
  BY <1>1, LevelsUnfold
<1>5. /\ at[0] = [idx |-> index, proof |-> <<>>]
      /\ \A k \in 1..n : at[k] = Ascend(lv[k - 1], at[k - 1])
  BY <1>1, WalkUnfolds
<1>6. \A k \in 0..n : IsLevel(lv[k])
  BY LevelsAreLevels
<1>7. CASE h = 0
  <2>1. at[0].idx = index /\ at[0].proof = <<>>
    BY <1>5
  <2>2. <<>> \in Seq({}) /\ Len(<<>>) = 0
    OBVIOUS
  <2>3. Climb(<<>>, leaf)[0] = leaf
    BY <2>2, ClimbUnfolds
  <2> HIDE DEF at, lv
  <2>4. Good(0)
    BY <1>4, <2>1, <2>2, <2>3
  <2> QED BY <1>3, <1>7, <2>4
<1>8. CASE h # 0
  <2> DEFINE below == at[h - 1]
             level == lv[h - 1]
             s == Sibling(below.idx)
             proof == below.proof
             m == Len(level)
  <2>1. h \in 1..n /\ h - 1 \in 0..n /\ ~(h <= h - 1)
    BY <1>1, <1>3, <1>8
  <2>2. lv[h] = NextLevel(level) /\ IsLevel(level) /\ at[h] = Ascend(level, below)
    BY <1>4, <1>5, <1>6, <2>1
  <2>3. Good(h - 1)
    BY <1>3, <2>1
  <2>4. PICK T : proof \in Seq(T)
    BY <2>3
  <2>5. /\ below.idx \in 0..(m - 1)
        /\ Climb(proof, leaf)[Len(proof)] = level[below.idx + 1]
    BY <2>3
  <2>6. m \in Nat
    BY <2>2, LenIsNat
  <2>7. /\ at[h].idx = below.idx \div 2
        /\ at[h].proof = IF s < m THEN Append(proof, level[s + 1]) ELSE proof
    BY <2>2 DEF Ascend
  <2> HIDE DEF at, lv, below, level, proof, m, s, leaf
  <2>8. /\ below.idx \div 2 \in 0..(Len(NextLevel(level)) - 1)
        /\ s \in Nat
        /\ IF s < m
           THEN NextLevel(level)[below.idx \div 2 + 1] =
                  HashPair(level[below.idx + 1], level[s + 1])
           ELSE NextLevel(level)[below.idx \div 2 + 1] = level[below.idx + 1]
    BY <2>2, <2>5, AscendStep DEF m, s
  <2>9. /\ \E U : at[h].proof \in Seq(U)
        /\ Climb(at[h].proof, leaf)[Len(at[h].proof)] = lv[h][at[h].idx + 1]
    <3>1. CASE s < m
      <4> DEFINE U == T \cup {level[s + 1]}
      <4>1. proof \in Seq(U) /\ level[s + 1] \in U
        BY <2>4
      <4> HIDE DEF U
      <4>2. Append(proof, level[s + 1]) \in Seq(U)
        BY <4>1
      <4>3. Climb(Append(proof, level[s + 1]), leaf)[Len(Append(proof, level[s + 1]))]
              = HashPair(Climb(proof, leaf)[Len(proof)], level[s + 1])
        BY <4>1, ClimbOfAppended
      <4> QED BY <2>2, <2>5, <2>7, <2>8, <3>1, <4>2, <4>3
    <3>2. CASE ~(s < m)
      BY <2>2, <2>4, <2>5, <2>7, <2>8, <3>2
    <3> QED BY <3>1, <3>2
  <2>10. Good(h)
    BY <2>2, <2>7, <2>8, <2>9
  <2> QED BY <1>3, <2>10
<1> QED BY <1>7, <1>8

-----------------------------------------------------------------------------
(* What a claim can prove                                                  *)

\* The leaves that the aggregator hashes from the terms <<epoch, node, amount>>
\* of a sequence of entitlements.
LeavesOf(terms) ==
  [i \in 1..Len(terms) |-> RewardLeaf(terms[i][1], terms[i][2], terms[i][3])]

LEMMA LeavesOfTerms ==
  ASSUME NEW E, NEW K, NEW A, NEW terms \in Seq(E \X K \X A), terms # <<>>
  PROVE  /\ IsLevel(LeavesOf(terms))
         /\ Len(LeavesOf(terms)) = Len(terms)
         /\ Len(terms) >= 1
         /\ RewardLeaves(LeavesOf(terms))
<1> DEFINE n == Len(terms)
           leaves == LeavesOf(terms)
           T == {leaves[i] : i \in 1..n}
<1>1. n \in Nat /\ n >= 1
  BY EmptySeq
<1>2. leaves = [i \in 1..n |-> RewardLeaf(terms[i][1], terms[i][2], terms[i][3])]
  BY DEF LeavesOf
<1> HIDE DEF n, leaves
<1>3. leaves \in [1..n -> T]
  BY <1>2, Zenon
<1>4. \A x \in T : \E e, k, a : x = RewardLeaf(e, k, a)
  BY <1>2, Zenon
<1> HIDE DEF T
<1>5. leaves \in Seq(T) /\ Len(leaves) = n
  BY <1>1, <1>3, SeqDef
<1>6. Nodes(leaves) = T
  BY <1>5 DEF Nodes, T
<1> QED BY <1>1, <1>4, <1>5, <1>6, Zenon DEF IsLevel, RewardLeaves, n, leaves

\* The proof that merkle_proof builds for a leaf verifies against the tree's
\* root, whatever the tree's size and the leaf's place (merkle.rs:112): every
\* posted entitlement can be claimed.
THEOREM PostedVerifies ==
  ASSUME NEW N, NEW leaves \in Seq(N), leaves # <<>>,
         NEW index \in 0..(Len(leaves) - 1)
  PROVE  MerkleVerify(MerkleProof(leaves, index), MerkleRoot(leaves),
                      leaves[index + 1])
<1> DEFINE H == Height(leaves)
           at == Walk(leaves, index)[H]
           top == Levels(leaves)[H]
<1>1. Len(leaves) \in Nat /\ Len(leaves) >= 1
  BY EmptySeq
<1>2. IsLevel(leaves)
  <2>1. leaves = [i \in 1..Len(leaves) |-> leaves[i]]
    OBVIOUS
  <2>2. leaves \in [1..Len(leaves) -> Nodes(leaves)]
    BY <2>1, Zenon DEF Nodes
  <2> QED BY <1>1, <2>2, SeqDef DEF IsLevel
<1>3. H \in 0..Len(leaves) /\ Len(top) = 1
  BY <1>1, <1>2, HeightExists
<1>4. /\ at.idx \in 0..(Len(top) - 1)
      /\ Climb(at.proof, leaves[index + 1])[Len(at.proof)] = top[at.idx + 1]
  BY <1>1, <1>2, <1>3, WalkClimbs
<1>5. at.idx + 1 = 1
  BY <1>3, <1>4
<1> QED BY <1>4, <1>5 DEF MerkleVerify, MerkleProof, MerkleRoot

\* A claim verifies exactly when its epoch, node and amount were posted: no
\* proof, of any length and put together from any nodes, lets another claim
\* through (merkle.rs:124).  It is what lets module Distributor check a claim
\* by membership.
THEOREM VerifiesIffPosted ==
  ASSUME NEW E, NEW K, NEW A, NEW terms \in Seq(E \X K \X A), terms # <<>>,
         NEW e, NEW k, NEW a
  PROVE  (\E N : \E proof \in Seq(N) :
            MerkleVerify(proof, MerkleRoot(LeavesOf(terms)), RewardLeaf(e, k, a)))
         <=> \E i \in 1..Len(terms) : terms[i] = <<e, k, a>>
<1> DEFINE leaves == LeavesOf(terms)
           root == MerkleRoot(leaves)
<1>1. /\ IsLevel(leaves)
      /\ Len(leaves) = Len(terms)
      /\ Len(leaves) \in Nat /\ Len(leaves) >= 1
      /\ RewardLeaves(leaves)
  <2>1. Len(terms) \in Nat
    OBVIOUS
  <2>2. /\ IsLevel(leaves)
        /\ Len(leaves) = Len(terms)
        /\ Len(terms) >= 1
        /\ RewardLeaves(leaves)
    BY LeavesOfTerms
  <2> HIDE DEF leaves
  <2> QED BY <2>1, <2>2
<1>2. \A i \in 1..Len(terms) :
        leaves[i] = RewardLeaf(terms[i][1], terms[i][2], terms[i][3])
  BY DEF LeavesOf
<1> HIDE DEF leaves
<1>3. ASSUME NEW N, NEW proof \in Seq(N), MerkleVerify(proof, root, RewardLeaf(e, k, a))
      PROVE  \E i \in 1..Len(terms) : terms[i] = <<e, k, a>>
  <2> DEFINE x == RewardLeaf(e, k, a)
  <2>1. \A b, c : x # HashPair(b, c)
    BY DomainsDiffer
  <2>2. Len(proof) \in Nat /\ MerkleVerify(proof, root, x)
    BY <1>3
  <2> HIDE DEF x
  <2>4. x \in Nodes(leaves)
    BY <1>1, <2>1, <2>2, VerifiedIsLeaf
  <2>5. PICK i \in 1..Len(terms) : x = leaves[i]
    BY <1>1, <2>4 DEF Nodes
  <2>6. terms[i][1] = e /\ terms[i][2] = k /\ terms[i][3] = a
    BY <1>2, <2>5, LeafInjective DEF x
  <2>7. terms[i] \in E \X K \X A
    OBVIOUS
  <2> QED BY <2>6, <2>7
<1>4. ASSUME NEW i \in 1..Len(terms), terms[i] = <<e, k, a>>
      PROVE  \E N : \E proof \in Seq(N) : MerkleVerify(proof, root, RewardLeaf(e, k, a))
  <2>1. leaves \in Seq(Nodes(leaves)) /\ leaves # <<>>
    BY <1>1 DEF IsLevel
  <2>2. i - 1 \in 0..(Len(leaves) - 1) /\ (i - 1) + 1 = i
    BY <1>1, <1>4
  <2> DEFINE proof == MerkleProof(leaves, i - 1)
  <2>3. MerkleVerify(proof, root, leaves[i])
    BY <2>1, <2>2, PostedVerifies
  <2>4. leaves[i] = RewardLeaf(e, k, a)
    BY <1>2, <1>4
  <2>5. \E N : proof \in Seq(N)
    BY <1>1, <2>2, HeightExists, WalkClimbs DEF MerkleProof
  <2> QED BY <2>3, <2>4, <2>5
<1> QED BY <1>3, <1>4 DEF leaves

\* No sale allocation verifies against an epoch's root, with any proof
\* (merkle.rs:143).
THEOREM AllocationNeverVerifies ==
  ASSUME NEW E, NEW K, NEW A, NEW terms \in Seq(E \X K \X A), terms # <<>>,
         NEW sale, NEW k, NEW a, NEW N, NEW proof \in Seq(N)
  PROVE  ~MerkleVerify(proof, MerkleRoot(LeavesOf(terms)), AllocationLeaf(sale, k, a))
<1> DEFINE leaves == LeavesOf(terms)
           x == AllocationLeaf(sale, k, a)
           root == MerkleRoot(leaves)
<1>1. IsLevel(leaves) /\ Len(leaves) >= 1 /\ RewardLeaves(leaves)
  BY LeavesOfTerms
<1>2. SUFFICES ASSUME MerkleVerify(proof, root, x) PROVE FALSE
  OBVIOUS
<1>3. \A b, c : x # HashPair(b, c)
  BY DomainsDiffer
<1>4. x \in Nodes(leaves)
  <2> HIDE DEF leaves, x
  <2> QED BY <1>1, <1>2, <1>3, VerifiedIsLeaf
<1>5. PICK f, l, b : x = RewardLeaf(f, l, b)
  BY <1>1, <1>4 DEF RewardLeaves
<1>6. [allocation |-> <<sale, k, a>>] = [leaf |-> <<f, l, b>>]
  BY <1>5 DEF RewardLeaf, AllocationLeaf
<1>7. DOMAIN [allocation |-> <<sale, k, a>>] = {"allocation"}
      /\ DOMAIN [leaf |-> <<f, l, b>>] = {"leaf"}
  OBVIOUS
<1> QED BY <1>6, <1>7
=============================================================================
