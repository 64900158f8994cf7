-------------------------- MODULE AggregatorProofs --------------------------
(***************************************************************************)
(* The aggregator for every value of the constants: the ledger is backed   *)
(* by bytes, receipts and the credits whose cursor was not written, the    *)
(* vault covers what settlement passes credit, nobody is paid more than    *)
(* the ledger once held, roots on the chain are backed by receipts, and a  *)
(* pass never takes the ledger epoch of somebody else.                     *)
(***************************************************************************)
EXTENDS Aggregator, SumTheorems

-----------------------------------------------------------------------------
(* Operators                                                               *)

\* Some live epochs have a last one, as the ledger's epochs are bounded.
LEMMA MaxOfEpochs ==
  ASSUME NEW S \in SUBSET Epochs, S # {}
  PROVE  Max(S) \in S /\ \A e \in S : e <= Max(S)
<1> DEFINE T == {MaxEpoch - e : e \in S}
<1>1. MaxEpoch \in Nat
  BY AggregatorAssumption
<1>2. T \in SUBSET Nat /\ T # {}
  <2>1. \A e \in S : MaxEpoch - e \in Nat
    BY <1>1 DEF Epochs
  <2> QED BY <2>1
<1>3. PICK t \in T : \A u \in T : t <= u
  BY <1>2, SmallestExists
<1>4. PICK x \in S : t = MaxEpoch - x
  BY <1>3
<1>5. \A e \in S : x >= e
  <2>1. SUFFICES ASSUME NEW e \in S PROVE x >= e
    OBVIOUS
  <2>2. MaxEpoch - x <= MaxEpoch - e
    BY <1>3, <1>4
  <2> QED BY <1>1, <2>2 DEF Epochs
<1>6. Max(S) \in S /\ \A e \in S : Max(S) >= e
  BY <1>5 DEF Max
<1> QED BY <1>1, <1>6 DEF Epochs

LEMMA MaxOfTwo ==
  ASSUME NEW a \in Nat, NEW b \in Nat
  PROVE  Max({a, b}) \in Nat /\ a <= Max({a, b}) /\ b <= Max({a, b})
<1>1. \E x \in {a, b} : \A y \in {a, b} : x >= y
  <2>1. CASE a >= b
    BY <2>1
  <2>2. CASE b >= a
    BY <2>2
  <2> QED BY <2>1, <2>2
<1>2. Max({a, b}) \in {a, b} /\ \A y \in {a, b} : Max({a, b}) >= y
  BY <1>1 DEF Max
<1> QED BY <1>2

LEMMA EpochsFinite == IsFiniteSet(Epochs)
BY AggregatorAssumption, FS_Interval DEF Epochs

\* An epoch of the next pass holds nothing yet.
LEMMA NextEpochIsNew == NextEpoch \notin Live(ledger) /\ NextEpoch \in Nat
<1>1. Live(ledger) \in SUBSET Epochs
  BY DEF Live
<1>2. CASE Live(ledger) # {}
  <2>1. /\ Max(Live(ledger)) \in Epochs
        /\ \A e \in Live(ledger) : e <= Max(Live(ledger))
    BY <1>1, <1>2, MaxOfEpochs
  <2>2. NextEpoch = Max(Live(ledger)) + 1
    BY <1>2 DEF NextEpoch
  <2> QED BY <1>1, <2>1, <2>2, AggregatorAssumption DEF Epochs
<1>3. CASE Live(ledger) = {}
  BY <1>3 DEF NextEpoch
<1> QED BY <1>2, <1>3

Builds == [live : BOOLEAN, amount : [Nodes -> Nat]]

\* What a book holds for a node, epoch by epoch.
Booked(book, n) ==
  [e \in Epochs |-> IF book[e].live THEN book[e].amount[n] ELSE 0]

LEMMA EarnedIsSum ==
  ASSUME NEW book \in [Epochs -> Builds], NEW n \in Nodes
  PROVE  /\ EarnedIn(book, n) = SumFunctionOnSet(Booked(book, n), Epochs)
         /\ EarnedIn(book, n) \in Nat
         /\ \A e \in Epochs : Booked(book, n)[e] \in Nat
<1> DEFINE live == Live(book)
           rest == Epochs \ live
           f == [e \in live |-> book[e].amount[n]]
           g == Booked(book, n)
<1>1. live \in SUBSET Epochs /\ live \cup rest = Epochs /\ live \cap rest = {}
  BY DEF Live
<1>2. IsFiniteSet(live) /\ IsFiniteSet(rest)
  <2>1. rest \in SUBSET Epochs
    OBVIOUS
  <2> HIDE DEF live, rest
  <2> QED BY <1>1, <2>1, EpochsFinite, FS_Subset
<1>3. \A e \in Epochs : g[e] \in Nat
  BY DEF Booked, Builds
<1>4. \A e \in live : f[e] \in Int /\ f[e] = g[e]
  BY DEF Live, Booked, Builds
<1>5. \A e \in rest : g[e] = 0
  BY DEF Live, Booked
<1>6. EarnedIn(book, n) = SumFunctionOnSet(f, live)
  BY DEF EarnedIn, SumFunction
<1> HIDE DEF live, rest, f, g
<1>7. SumFunctionOnSet(f, live) = SumFunctionOnSet(g, live)
  BY <1>2, <1>4, SumAgrees
<1>8. SumFunctionOnSet(g, rest) = 0
  BY <1>2, <1>5, SumOfZeros
<1>9. \A e \in live \cup rest : g[e] \in Int
  BY <1>1, <1>3
<1>10. SumFunctionOnSet(g, live \cup rest)
         = SumFunctionOnSet(g, live) + SumFunctionOnSet(g, rest)
  BY <1>1, <1>2, <1>9, SumOfUnion
<1>11. SumFunctionOnSet(g, live) \in Nat
  <2>1. \A e \in live : g[e] \in Nat
    BY <1>1, <1>3
  <2> QED BY <1>2, <2>1, SumIsNat
<1>12. SumFunctionOnSet(g, live \cup rest) = SumFunctionOnSet(g, Epochs)
  BY <1>1
<1>13. EarnedIn(book, n) = SumFunctionOnSet(g, Epochs)
  BY <1>6, <1>7, <1>8, <1>10, <1>11, <1>12
<1> QED BY <1>3, <1>6, <1>7, <1>11, <1>13 DEF g

\* A put replaces what the epoch held.
LEMMA EarnedAfterPut ==
  ASSUME NEW book \in [Epochs -> Builds], NEW n \in Nodes, NEW e \in Epochs,
         NEW amounts \in [Nodes -> Nat]
  PROVE  /\ Replaced(book, e, amounts) \in [Epochs -> Builds]
         /\ EarnedIn(Replaced(book, e, amounts), n)
              = EarnedIn(book, n) - Booked(book, n)[e] + amounts[n]
         /\ Booked(Replaced(book, e, amounts), n)[e] = amounts[n]
         /\ \A d \in Epochs \ {e} :
              Booked(Replaced(book, e, amounts), n)[d] = Booked(book, n)[d]
<1> DEFINE put == Replaced(book, e, amounts)
           f == Booked(book, n)
           g == Booked(put, n)
<1>1. put \in [Epochs -> Builds]
  BY DEF Replaced, Builds
<1>2. g[e] = amounts[n] /\ \A d \in Epochs \ {e} : g[d] = f[d]
  BY DEF Replaced, Booked
<1> HIDE DEF put
<1>3. /\ EarnedIn(book, n) = SumFunctionOnSet(f, Epochs)
      /\ EarnedIn(put, n) = SumFunctionOnSet(g, Epochs)
      /\ \A d \in Epochs : f[d] \in Int /\ g[d] \in Int
  BY <1>1, EarnedIsSum
<1> HIDE DEF f, g
<1>4. SumFunctionOnSet(g, Epochs) = SumFunctionOnSet(f, Epochs) - f[e] + g[e]
  <2>1. \A d \in Epochs \ {e} : f[d] = g[d]
    BY <1>2
  <2>2. \A d \in Epochs : f[d] \in Int /\ g[d] \in Int
    BY <1>3
  <2> QED BY <2>1, <2>2, EpochsFinite, SumChanges
<1>5. EarnedIn(put, n) = EarnedIn(book, n) - f[e] + amounts[n]
  BY <1>2, <1>3, <1>4
<1> QED BY <1>1, <1>2, <1>5 DEF f, g, put

LEMMA RewardsWithinBytes ==
  ASSUME NEW bytes \in [Nodes -> Nat], NEW nodes
  PROVE  /\ Rewards(bytes, nodes) \in [Nodes -> Nat]
         /\ \A n \in Nodes : Rewards(bytes, nodes)[n] <= bytes[n]
BY DEF Rewards

LEMMA QuotientWithin ==
  ASSUME NEW a \in Nat, NEW d \in Nat, d > 0
  PROVE  a \div d \in Nat /\ (a \div d) * d <= a
OBVIOUS

LEMMA ProductMonotone ==
  ASSUME NEW a \in Nat, NEW b \in Nat, NEW c \in Nat, a <= b
  PROVE  a * c <= b * c
<1> DEFINE d == b - a
<1>1. d \in Nat /\ b = a + d
  OBVIOUS
<1> HIDE DEF d
<1>2. b * c = a * c + d * c
  BY <1>1
<1>3. d * c \in Nat /\ a * c \in Nat
  BY <1>1
<1> QED BY <1>2, <1>3

\* Rewards that exceed the cap are scaled down: to no more than the cap
\* together, and each to no more than it was.
LEMMA ScaledWithinCap ==
  ASSUME NEW rewards \in [Nodes -> Nat], NEW cap \in Nat
  PROVE  LET scaled == ScaledTo(cap, rewards)
         IN  /\ scaled \in [Nodes -> Nat]
             /\ SumFunctionOnSet(scaled, Nodes) <= cap
             /\ \A n \in Nodes : scaled[n] <= rewards[n]
<1> DEFINE scaled == ScaledTo(cap, rewards)
           sum    == SumFunctionOnSet(rewards, Nodes)
<1>1. IsFiniteSet(Nodes)
  BY AggregatorAssumption
<1>2. SumFunction(rewards) = sum
  BY DEF SumFunction
<1>3. sum \in Nat
  BY <1>1, SumIsNat
<1>4. CASE sum <= cap
  <2>1. scaled = rewards
    BY <1>2, <1>4 DEF ScaledTo
  <2> QED BY <1>4, <2>1
<1>5. CASE cap < sum
  <2> DEFINE product == [n \in Nodes |-> rewards[n] * cap]
             back    == [n \in Nodes |-> scaled[n] * sum]
  <2>1. scaled = [n \in Nodes |-> (rewards[n] * cap) \div sum]
    BY <1>2, <1>3, <1>5 DEF ScaledTo
  <2> HIDE DEF sum
  <2>2. ASSUME NEW n \in Nodes
        PROVE  /\ scaled[n] \in Nat /\ scaled[n] * sum <= rewards[n] * cap
               /\ scaled[n] <= rewards[n]
    <3>1. rewards[n] \in Nat /\ rewards[n] * cap \in Nat
      OBVIOUS
    <3>2. scaled[n] = (rewards[n] * cap) \div sum
      BY <2>1
    <3> HIDE DEF scaled
    <3>3. scaled[n] \in Nat /\ scaled[n] * sum <= rewards[n] * cap
      BY <1>3, <1>5, <3>1, <3>2, QuotientWithin
    <3>4. ~(rewards[n] + 1 <= scaled[n])
      <4>1. SUFFICES ASSUME rewards[n] + 1 <= scaled[n] PROVE FALSE
        OBVIOUS
      <4>2. (rewards[n] + 1) * sum <= scaled[n] * sum
        <5>1. rewards[n] + 1 \in Nat
          BY <3>1
        <5> QED BY <1>3, <3>3, <4>1, <5>1, ProductMonotone
      <4>3. rewards[n] * cap <= rewards[n] * sum
        BY <1>3, <1>5, <3>1
      <4>4. (rewards[n] + 1) * sum = rewards[n] * sum + sum
        BY <1>3, <3>1
      <4> DEFINE p == scaled[n] * sum
                 q == rewards[n] * cap
                 r == rewards[n] * sum
      <4>5. p \in Nat /\ q \in Nat /\ r \in Nat
        BY <1>3, <3>1, <3>3
      <4>6. p <= q /\ q <= r /\ r + sum <= p
        BY <3>3, <4>2, <4>3, <4>4
      <4> HIDE DEF p, q, r
      <4> QED BY <1>3, <1>5, <4>5, <4>6
    <3> QED BY <3>1, <3>3, <3>4
  <2>3. scaled \in [Nodes -> Nat]
    BY <2>1, <2>2
  <2> HIDE DEF scaled
  <2>4. \A n \in Nodes : scaled[n] \in Int /\ back[n] = scaled[n] * sum
    BY <2>2
  <2>5. \A n \in Nodes : rewards[n] \in Int /\ product[n] = rewards[n] * cap
    OBVIOUS
  <2>6. \A n \in Nodes : /\ back[n] \in Int /\ product[n] \in Int
                         /\ back[n] <= product[n]
    <3> SUFFICES ASSUME NEW n \in Nodes
                 PROVE  /\ back[n] \in Int /\ product[n] \in Int
                        /\ back[n] <= product[n]
      OBVIOUS
    <3> QED BY <1>3, <2>2
  <2> HIDE DEF back, product
  <2> DEFINE total == SumFunctionOnSet(scaled, Nodes)
  <2>7. SumFunctionOnSet(back, Nodes) = total * sum
    BY <1>1, <1>3, <2>4, SumOfProducts
  <2>8. SumFunctionOnSet(product, Nodes) = sum * cap
    BY <1>1, <2>5, SumOfProducts DEF sum
  <2>9. SumFunctionOnSet(back, Nodes) <= SumFunctionOnSet(product, Nodes)
    BY <1>1, <2>6, SumMonotone
  <2>10. total \in Nat
    <3>1. \A n \in Nodes : scaled[n] \in Nat
      BY <2>2
    <3> QED BY <1>1, <3>1, SumIsNat
  <2> HIDE DEF total
  <2>11. total <= cap
    <3>1. SUFFICES ASSUME cap + 1 <= total PROVE FALSE
      BY <2>10
    <3>2. total * sum <= sum * cap
      BY <2>7, <2>8, <2>9
    <3>3. (cap + 1) * sum <= total * sum
      BY <1>3, <2>10, <3>1
    <3>4. (cap + 1) * sum = sum * cap + sum
      BY <1>3
    <3> DEFINE p == total * sum
               q == sum * cap
    <3>5. p \in Nat /\ q \in Nat
      BY <1>3, <2>10
    <3>6. p <= q /\ q + sum <= p
      BY <3>2, <3>3, <3>4
    <3> HIDE DEF p, q
    <3> QED BY <1>3, <1>5, <3>5, <3>6
  <2> QED BY <2>2, <2>3, <2>11 DEF scaled, total
<1> QED BY <1>3, <1>4, <1>5

\* A build credits a node with no more bytes than there are distinct receipts
\* of the epoch for it, however often each was received.
LEMMA ReceiptBytesCounted ==
  ASSUME NEW all \in [Receipts -> 0..2], NEW e
  PROVE  /\ ReceiptBytes(all, e) \in [Nodes -> Nat]
         /\ \A n \in Nodes :
              ReceiptBytes(all, e)[n]
                = Cardinality({r \in Receipts : /\ NodeOf[r] = n /\ EpochOf[r] = e
                                                /\ all[r] > 0})
<1> SUFFICES ASSUME NEW n \in Nodes
             PROVE  /\ ReceiptBytes(all, e)[n] \in Nat
                    /\ ReceiptBytes(all, e)[n]
                         = Cardinality({r \in Receipts :
                                          /\ NodeOf[r] = n /\ EpochOf[r] = e
                                          /\ all[r] > 0})
  BY DEF ReceiptBytes
<1> DEFINE mine == {r \in Receipts : NodeOf[r] = n /\ EpochOf[r] = e}
           f == [r \in mine |-> Deduplicated(all[r])]
           there == {r \in Receipts : NodeOf[r] = n /\ EpochOf[r] = e /\ all[r] > 0}
<1>1. ReceiptBytes(all, e)[n] = SumFunctionOnSet(f, mine)
  BY DEF ReceiptBytes, SumFunction
<1>2. there \in SUBSET mine /\ mine \in SUBSET Receipts
  OBVIOUS
<1>3. \A r \in mine : f[r] = IF r \in there THEN 1 ELSE 0
  BY DEF Deduplicated
<1>4. IsFiniteSet(mine)
  BY <1>2, AggregatorAssumption, FS_Subset
<1> HIDE DEF mine, f, there
<1>5. SumFunctionOnSet(f, mine) = Cardinality(there)
  BY <1>2, <1>3, <1>4, SumCounts
<1>6. Cardinality(there) \in Nat
  BY <1>2, <1>4, FS_Subset, FS_CardinalityType
<1> QED BY <1>1, <1>5, <1>6 DEF there

-----------------------------------------------------------------------------
(* Types                                                                   *)

LEMMA Constants ==
  /\ NodeOf \in [Receipts -> Nodes] /\ EpochOf \in [Receipts -> Epochs]
  /\ FileReceipts \subseteq Receipts /\ FileEpoch \in Epochs
  /\ MaxRestarts \in Nat /\ MaxFaults \in Nat /\ Epochs \subseteq Nat
  /\ IsFiniteSet(Nodes) /\ IsFiniteSet(Receipts) /\ IsFiniteSet(Epochs)
BY AggregatorAssumption, EpochsFinite DEF Epochs

LEMMA TasksTyped ==
  /\ AutoIdle \in AutoTask /\ HandlerIdle \in HandlerTask
  /\ NoAmounts \in [Nodes -> Nat] /\ NoBuild \in Builds
BY Constants, AggregatorAssumption
   DEF AutoIdle, AutoTask, HandlerIdle, HandlerTask, NoAmounts, NoBuild,
       NoSnapshot, Builds, Epochs

LEMMA BooksTyped ==
  ASSUME TypeOK
  PROVE  /\ ledger \in [Epochs -> Builds] /\ stored \in [Epochs -> Builds]
         /\ posted \in [Epochs -> Builds]
BY DEF TypeOK, Builds

LEMMA TotalTyped ==
  ASSUME NEW book \in [Epochs -> Builds]
  PROVE  TotalIn(book) \in Nat
<1> DEFINE f == [n \in Nodes |-> EarnedIn(book, n)]
<1>1. \A n \in Nodes : f[n] \in Nat
  BY EarnedIsSum
<1>2. TotalIn(book) = SumFunctionOnSet(f, Nodes)
  BY DEF TotalIn, SumFunction
<1> HIDE DEF f
<1> QED BY <1>1, <1>2, Constants, SumIsNat

LEMMA EarnedTyped ==
  ASSUME TypeOK
  PROVE  /\ \A n \in Nodes : EarnedForNode(n) \in Nat
         /\ TotalEarned \in Nat /\ TotalIn(stored) \in Nat
BY BooksTyped, EarnedIsSum, TotalTyped DEF EarnedForNode, TotalEarned

\* What a pass settles: the cursor moves up to the profile it has read.
LEMMA DeltaTyped ==
  ASSUME TypeOK
  PROVE  /\ Delta \in [Nodes -> Nat] /\ NextSettled \in [Nodes -> Nat]
         /\ \A n \in Nodes : /\ NextSettled[n] = settled[n] + Delta[n]
                             /\ NextSettled[n] <= profile[n]
<1>1. ASSUME NEW n \in Nodes
      PROVE  /\ settled[n] \in Nat /\ settled[n] <= profile[n]
             /\ auto.profile[n] \in Nat /\ auto.profile[n] <= profile[n]
             /\ profile[n] \in Nat
  BY DEF TypeOK, AutoTask
<1>2. ASSUME NEW n \in Nodes
      PROVE  /\ Delta[n] \in Nat /\ NextSettled[n] = settled[n] + Delta[n]
             /\ settled[n] + Delta[n] <= profile[n]
  <2>1. /\ NextSettled[n] = settled[n] + Delta[n]
        /\ \/ Delta[n] = 0
           \/ /\ auto.profile[n] > settled[n]
              /\ Delta[n] = auto.profile[n] - settled[n]
    BY <1>1 DEF NextSettled, Delta
  <2> QED BY <1>1, <2>1
<1>3. Delta \in [Nodes -> Nat]
  <2>1. Delta = [n \in Nodes |-> Delta[n]]
    BY DEF Delta
  <2> QED BY <1>2, <2>1
<1>4. NextSettled \in [Nodes -> Nat]
  BY <1>1, <1>2 DEF NextSettled
<1> QED BY <1>2, <1>3, <1>4

\* What a pass credits: within the delta, and within its cap.
LEMMA CreditTyped ==
  ASSUME TypeOK
  PROVE  /\ Credit \in [Nodes -> Nat]
         /\ SumFunctionOnSet(Credit, Nodes) <= auto.cap
         /\ \A n \in Nodes : Credit[n] <= Delta[n]
<1> DEFINE rewards == Rewards(Delta, auto.nodes)
<1>1. /\ rewards \in [Nodes -> Nat]
      /\ \A n \in Nodes : rewards[n] <= Delta[n] /\ Delta[n] \in Nat
  BY DeltaTyped, RewardsWithinBytes
<1>2. auto.cap \in Nat
  BY DEF TypeOK, AutoTask
<1>3. Credit = ScaledTo(auto.cap, rewards)
  BY DEF Credit
<1> HIDE DEF rewards
<1>4. /\ Credit \in [Nodes -> Nat]
      /\ SumFunctionOnSet(Credit, Nodes) <= auto.cap
      /\ \A n \in Nodes : Credit[n] <= rewards[n]
  BY <1>1, <1>2, <1>3, ScaledWithinCap
<1>5. \A n \in Nodes : Credit[n] <= Delta[n]
  BY <1>1, <1>4
<1> QED BY <1>4, <1>5

LEMMA BuildTyped ==
  ASSUME NEW all \in [Receipts -> 0..2], NEW e, NEW nodes
  PROVE  Rewards(ReceiptBytes(all, e), nodes) \in [Nodes -> Nat]
BY ReceiptBytesCounted, RewardsWithinBytes

LEMMA RepeatableTyped ==
  ASSUME TypeOK
  PROVE  Repeatable \in [Nodes -> Nat]
BY CreditTyped DEF Repeatable, TypeOK

\* Whatever book memory holds next, the peaks only grow and stay above it.
LEMMA HoldsTyped ==
  ASSUME TypeOK, NEW book \in [Epochs -> Builds], Holds(book)
  PROVE  /\ ledger' = book /\ peak' \in [Nodes -> Nat]
         /\ \A n \in Nodes :
              peak[n] <= peak'[n] /\ EarnedForNode(n)' <= peak'[n]
<1>1. /\ ledger' = book
      /\ peak' = [n \in Nodes |-> Max({peak[n], EarnedIn(book, n)})]
  BY DEF Holds
<1>2. ASSUME NEW n \in Nodes
      PROVE  /\ peak'[n] \in Nat /\ peak[n] <= peak'[n]
             /\ EarnedForNode(n)' <= peak'[n]
  <2>1. peak[n] \in Nat /\ EarnedIn(book, n) \in Nat
    BY EarnedIsSum DEF TypeOK
  <2>2. /\ peak'[n] = Max({peak[n], EarnedIn(book, n)})
        /\ EarnedForNode(n)' = EarnedIn(book, n)
    BY <1>1 DEF EarnedForNode
  <2> QED BY <2>1, <2>2, MaxOfTwo
<1>3. peak' \in [Nodes -> Nat]
  BY <1>1, <1>2
<1> QED BY <1>1, <1>2, <1>3

\* What a task's last write leaves in the file.
LEMMA WriteTyped ==
  ASSUME TypeOK, Written \/ Throws
  PROVE  faults' \in 0..MaxFaults
BY Constants DEF Written, Throws, TypeOK

LEMMA InitTyped == Init => TypeOK
<1> SUFFICES ASSUME Init PROVE TypeOK
  OBVIOUS
<1>1. /\ profile \in [Nodes -> Nat] /\ settled \in [Nodes -> Nat]
      /\ withdrawn \in [Nodes -> Nat] /\ in_flight \in [Nodes -> Nat]
      /\ peak \in [Nodes -> Nat]
      /\ \A n \in Nodes : settled[n] <= profile[n] /\ auto.profile[n] <= profile[n]
  BY TasksTyped DEF Init, NoAmounts, AutoIdle
<1>2. /\ ledger \in [Epochs -> Builds] /\ stored \in [Epochs -> Builds]
      /\ posted \in [Epochs -> Builds] /\ repeatable \in [Nodes -> Nat]
  BY TasksTyped DEF Init
<1>3. /\ auto \in AutoTask /\ handler \in [Handlers -> HandlerTask]
      /\ status \in [Nodes -> {"absent", "poor", "staked"}]
      /\ received \in [Receipts -> 0..2] /\ ever_received \subseteq Receipts
  BY TasksTyped, Constants DEF Init, NoSnapshot
<1>4. /\ vault \in Nat /\ claimed \in Nat /\ obligated \in Nat
      /\ posts \subseteq [epoch : Epochs, amount : [Nodes -> Nat]]
      /\ leaf_claims \subseteq Epochs \X Nodes
      /\ restarts \in 0..MaxRestarts /\ faults \in 0..MaxFaults
      /\ receipts_put \in BOOLEAN
  <2>1. 0 \in 0..MaxRestarts /\ 0 \in 0..MaxFaults
    BY Constants
  <2> QED BY <2>1 DEF Init
<1> QED BY <1>1, <1>2, <1>3, <1>4 DEF TypeOK, Builds

LEMMA ChainTyped == TypeOK /\ ChainNext => TypeOK'
<1> SUFFICES ASSUME TypeOK, ChainNext PROVE TypeOK'
  OBVIOUS
<1> USE DEF fileVars, processVars, epochVars, historyVars
<1>1. CASE Fund
  BY <1>1, AggregatorAssumption DEF Fund, TypeOK
<1>2. ASSUME NEW n \in Nodes, Serve(n) PROVE TypeOK'
  <2>1. /\ profile' = [profile EXCEPT ![n] = @ + 1]
        /\ UNCHANGED <<chainVars, processVars>>
    BY <1>2 DEF Serve
  <2>2. /\ profile' \in [Nodes -> Nat]
        /\ \A m \in Nodes : settled'[m] <= profile'[m]
                            /\ auto'.profile[m] <= profile'[m]
    BY <2>1 DEF TypeOK, AutoTask
  <2> QED BY <2>1, <2>2 DEF TypeOK, chainVars
<1>3. ASSUME NEW n \in Nodes, ClaimLands(n) PROVE TypeOK'
  <2>1. in_flight[n] \in Nat /\ withdrawn[n] \in Nat /\ vault \in Nat
        /\ claimed \in Nat
    BY DEF TypeOK
  <2>2. /\ withdrawn' \in [Nodes -> Nat] /\ in_flight' \in [Nodes -> Nat]
        /\ claimed' \in Nat /\ vault' \in Nat
    BY <1>3, <2>1 DEF ClaimLands, TypeOK
  <2> QED BY <1>3, <2>2 DEF ClaimLands, TypeOK
<1>4. ASSUME NEW n \in Nodes, ClaimLost(n) PROVE TypeOK'
  BY <1>4 DEF ClaimLost, TypeOK
<1>5. ASSUME NEW n \in Nodes, NEW s \in {"poor", "staked"}, ChangeStatus(n, s)
      PROVE  TypeOK'
  BY <1>5 DEF ChangeStatus, TypeOK
<1>6. ASSUME NEW n \in Nodes, NEW e \in Epochs, ClaimLeaf(e, n)
      PROVE  TypeOK'
  <2>1. posted[e].amount[n] \in Nat /\ vault \in Nat /\ claimed \in Nat
    BY BooksTyped DEF Builds, TypeOK
  <2>2. claimed' \in Nat /\ vault' \in Nat
        /\ leaf_claims' \subseteq Epochs \X Nodes
    BY <1>6, <2>1 DEF ClaimLeaf, TypeOK
  <2> QED BY <1>6, <2>2 DEF ClaimLeaf, TypeOK
<1>7. ASSUME NEW post \in posts, PostLands(post) PROVE TypeOK'
  <2>1. post.epoch \in Epochs /\ post.amount \in [Nodes -> Nat]
    BY DEF TypeOK
  <2>2. SumFunction(post.amount) \in Nat
    BY <2>1, Constants, SumIsNat DEF SumFunction
  <2>3. posted' \in [Epochs -> Builds] /\ obligated' \in Nat
    BY <1>7, <2>1, <2>2, BooksTyped DEF PostLands, Builds, TypeOK
  <2> QED BY <1>7, <2>3 DEF PostLands, TypeOK, Builds
<1> QED BY <1>1, <1>2, <1>3, <1>4, <1>5, <1>6, <1>7 DEF ChainNext

LEMMA HandlerTyped == TypeOK /\ HandlerNext => TypeOK'
<1> SUFFICES ASSUME TypeOK, HandlerNext PROVE TypeOK'
  OBVIOUS
<1> USE DEF fileVars, processVars, othersOfHandler, chainVars, epochVars, historyVars
<1>1. ASSUME NEW n \in Nodes, NEW total \in 1..MaxFunds, CoSign(n, total)
      PROVE  TypeOK'
  BY <1>1 DEF CoSign, TypeOK
<1>2. ASSUME NEW h \in Handlers, NEW e \in {EpochOf[r] : r \in Receipts},
             NEW accepted \in SUBSET Receipts, ReceiptsStart(h, e, accepted)
      PROVE  TypeOK'
  <2>1. received' \in [Receipts -> 0..2] /\ ever_received' \subseteq Receipts
    BY <1>2 DEF ReceiptsStart, TypeOK
  <2> DEFINE task == [HandlerIdle EXCEPT !.pc = "nodes", !.epoch = e,
                                         !.all = received']
  <2>2. task \in HandlerTask
    BY <2>1, Constants, TasksTyped DEF HandlerTask, HandlerIdle
  <2>3. handler' = [handler EXCEPT ![h] = task]
    BY <1>2 DEF ReceiptsStart
  <2> HIDE DEF task
  <2>4. handler' \in [Handlers -> HandlerTask]
    BY <2>2, <2>3 DEF TypeOK
  <2>5. UNCHANGED <<othersOfHandler, fileVars, receipts_put, repeatable, peak>>
    BY <1>2 DEF ReceiptsStart
  <2> QED BY <2>1, <2>4, <2>5 DEF TypeOK
<1>3. ASSUME NEW h \in Handlers, ReceiptsNodes(h)
      PROVE  TypeOK'
  <2>1. handler' \in [Handlers -> HandlerTask]
    BY <1>3 DEF ReceiptsNodes, TypeOK, HandlerTask
  <2> QED BY <1>3, <2>1 DEF ReceiptsNodes, TypeOK
<1>4. ASSUME NEW h \in Handlers, ReceiptsError(h)
      PROVE  TypeOK'
  <2>1. handler' \in [Handlers -> HandlerTask]
    BY <1>4, TasksTyped DEF ReceiptsError, TypeOK
  <2> QED BY <1>4, <2>1 DEF ReceiptsError, TypeOK
<1>5. ASSUME NEW h \in Handlers, ReceiptsPut(h)
      PROVE  TypeOK'
  <2> DEFINE e == handler[h].epoch
             rewards == Rewards(ReceiptBytes(handler[h].all, e),
                                handler[h].nodes)
  <2>1. e \in Epochs /\ rewards \in [Nodes -> Nat]
    BY BuildTyped DEF TypeOK, HandlerTask
  <2>2. /\ Holds(Replaced(ledger, e, rewards))
        /\ \/ Saves /\ MaybePost([epoch |-> e, amount |-> rewards])
           \/ Unsaved /\ posts' = posts
    BY <1>5 DEF ReceiptsPut
  <2> HIDE DEF e, rewards
  <2>3. Replaced(ledger, e, rewards) \in [Epochs -> Builds]
    BY <2>1, BooksTyped DEF Replaced, Builds
  <2>4. /\ posts' \subseteq [epoch : Epochs, amount : [Nodes -> Nat]]
        /\ ledger' \in [Epochs -> Builds] /\ stored' \in [Epochs -> Builds]
        /\ peak' \in [Nodes -> Nat] /\ faults' \in 0..MaxFaults
    <3>1. ledger' \in [Epochs -> Builds] /\ peak' \in [Nodes -> Nat]
      BY <2>2, <2>3, HoldsTyped
    <3>2. stored' \in {stored, ledger'} /\ faults' \in 0..MaxFaults
      BY <2>2, WriteTyped DEF Saves, Unsaved
    <3>3. posts' \subseteq [epoch : Epochs, amount : [Nodes -> Nat]]
      BY <2>1, <2>2 DEF MaybePost, TypeOK
    <3> QED BY <3>1, <3>2, <3>3, BooksTyped
  <2>5. handler' \in [Handlers -> HandlerTask]
    BY <1>5, TasksTyped DEF ReceiptsPut, TypeOK
  <2> QED BY <1>5, <2>4, <2>5 DEF ReceiptsPut, TypeOK, Builds
<1> QED BY <1>1, <1>2, <1>3, <1>4, <1>5 DEF HandlerNext

\* Written or not, the cursor stays within the profiles.
LEMMA CursorTyped ==
  ASSUME TypeOK, CursorMoves \/ CursorStays
  PROVE  /\ settled' \in [Nodes -> Nat] /\ faults' \in 0..MaxFaults
         /\ \A n \in Nodes : settled'[n] <= profile[n]
<1>1. settled' \in {settled, NextSettled} /\ (Written \/ Throws)
  BY DEF CursorMoves, CursorStays
<1> QED BY <1>1, DeltaTyped, WriteTyped DEF TypeOK

LEMMA AutoTyped == TypeOK /\ AutoNext => TypeOK'
<1> SUFFICES ASSUME TypeOK, AutoNext PROVE TypeOK'
  OBVIOUS
<1> USE DEF fileVars, othersOfAuto, chainVars, epochVars, historyVars
<1>0. auto \in AutoTask /\ AutoIdle \in AutoTask
      /\ \A n \in Nodes : AutoIdle.profile[n] <= profile[n]
  BY TasksTyped DEF TypeOK, AutoIdle, NoAmounts
<1>1. CASE AutoStart
  <2>1. auto' = [AutoIdle EXCEPT !.pc = "nodes", !.profile = profile]
    BY <1>1 DEF AutoStart
  <2>2. auto' \in AutoTask /\ auto'.profile = profile
    BY <1>0, <2>1 DEF AutoTask, TypeOK
  <2>3. \A n \in Nodes : auto'.profile[n] <= profile[n]
    BY <2>2 DEF TypeOK
  <2> QED BY <1>1, <2>2, <2>3 DEF AutoStart, TypeOK
<1>2. CASE AutoNodes
  <2>1. auto' = [auto EXCEPT !.pc = "claimed", !.nodes = status]
        \/ auto' = AutoIdle
    BY <1>2 DEF AutoNodes
  <2>2. auto' \in AutoTask
    BY <1>0, <2>1 DEF AutoTask, TypeOK
  <2>3. \A n \in Nodes : auto'.profile[n] <= profile[n]
    BY <1>0, <2>1 DEF AutoTask, TypeOK
  <2> QED BY <1>2, <2>2, <2>3 DEF AutoNodes, TypeOK
<1>3. CASE AutoClaimed
  <2>1. auto' = [auto EXCEPT !.pc = "outstanding", !.claimed = claimed]
    BY <1>3 DEF AutoClaimed
  <2>2. auto' \in AutoTask /\ auto'.profile = auto.profile
    BY <1>0, <2>1 DEF AutoTask, TypeOK
  <2> QED BY <1>3, <2>2 DEF AutoClaimed, TypeOK
<1>4. CASE AutoOutstanding
  <2> DEFINE out == IF TotalEarned > auto.claimed
                    THEN TotalEarned - auto.claimed ELSE 0
  <2>1. auto' = [auto EXCEPT !.pc = "vault", !.claimed = 0,
                             !.outstanding = out]
    BY <1>4 DEF AutoOutstanding
  <2>2. out \in Nat
    BY <1>0, EarnedTyped DEF AutoTask
  <2> HIDE DEF out
  <2>3. auto' \in AutoTask /\ auto'.profile = auto.profile
    BY <1>0, <2>1, <2>2 DEF AutoTask
  <2> QED BY <1>4, <2>3 DEF AutoOutstanding, TypeOK
<1>5. CASE AutoVault
  <2> DEFINE room == Headroom(vault, auto.outstanding)
  <2>1. auto' = [auto EXCEPT !.pc = "credit", !.outstanding = 0, !.cap = room]
    BY <1>5 DEF AutoVault
  <2>2. room \in Nat
    BY <1>0 DEF AutoTask, Headroom, TypeOK
  <2> HIDE DEF room
  <2>3. auto' \in AutoTask /\ auto'.profile = auto.profile
    BY <1>0, <2>1, <2>2 DEF AutoTask
  <2> QED BY <1>5, <2>3 DEF AutoVault, TypeOK
<1>6. CASE AutoNothing
  <2>1. /\ CursorMoves \/ CursorStays
        /\ auto' = AutoIdle /\ UNCHANGED <<ledger, stored, historyVars>>
    BY <1>6 DEF AutoNothing, Released
  <2>2. settled' \in [Nodes -> Nat] /\ faults' \in 0..MaxFaults
        /\ \A n \in Nodes : settled'[n] <= profile[n]
    BY <2>1, CursorTyped
  <2> QED BY <1>0, <1>6, <2>1, <2>2 DEF AutoNothing, TypeOK
<1>7. CASE AutoCredit
  <2>1. NextEpoch \in Epochs /\ Holds(Replaced(ledger, NextEpoch, Credit))
    BY <1>7, NextEpochIsNew, AggregatorAssumption DEF AutoCredit, Epochs
  <2>2. Replaced(ledger, NextEpoch, Credit) \in [Epochs -> Builds]
    BY <2>1, BooksTyped, CreditTyped DEF Replaced, Builds
  <2>3. ledger' \in [Epochs -> Builds] /\ peak' \in [Nodes -> Nat]
    BY <2>1, <2>2, HoldsTyped
  <2>4. \/ Saves /\ repeatable' = repeatable
             /\ auto' = [auto EXCEPT !.pc = "cursor"]
        \/ Unsaved /\ repeatable' = Repeatable /\ auto' = AutoIdle
    BY <1>7 DEF AutoCredit, Released
  <2>5. stored' \in [Epochs -> Builds] /\ faults' \in 0..MaxFaults
    BY <2>3, <2>4, BooksTyped, WriteTyped DEF Saves, Unsaved
  <2>6. repeatable' \in [Nodes -> Nat]
    BY <2>4, RepeatableTyped DEF TypeOK
  <2>7. auto' \in AutoTask /\ \A n \in Nodes : auto'.profile[n] <= profile[n]
    BY <1>0, <2>4 DEF AutoTask, TypeOK
  <2> QED BY <1>7, <2>3, <2>5, <2>6, <2>7 DEF AutoCredit, TypeOK, Builds
<1>8. CASE AutoCursor
  <2>1. /\ \/ CursorMoves /\ repeatable' = repeatable
           \/ CursorStays /\ repeatable' = Repeatable
        /\ auto' = AutoIdle
    BY <1>8 DEF AutoCursor, Released
  <2>2. settled' \in [Nodes -> Nat] /\ faults' \in 0..MaxFaults
        /\ \A n \in Nodes : settled'[n] <= profile[n]
    BY <2>1, CursorTyped
  <2>3. repeatable' \in [Nodes -> Nat]
    BY <2>1, RepeatableTyped DEF TypeOK
  <2> QED BY <1>0, <1>8, <2>1, <2>2, <2>3 DEF AutoCursor, TypeOK
<1>9. CASE AutoError
  BY <1>0, <1>9 DEF AutoError, Released, TypeOK
<1> QED BY <1>1, <1>2, <1>3, <1>4, <1>5, <1>6, <1>7, <1>8, <1>9 DEF AutoNext

\* What a restart does to the ledger: it takes the file's, perhaps with the
\* build of the receipts file, and saves it.
LEMMA RestartPuts ==
  ASSUME TypeOK, Restart
  PROVE  LET build == Rewards(ReceiptBytes(received', FileEpoch), status)
         IN  /\ build \in [Nodes -> Nat] /\ received' \in [Receipts -> 0..2]
             /\ Holds(ledger') /\ stored' = ledger' /\ faults' = faults
             /\ receipts_put' \in BOOLEAN /\ (receipts_put => receipts_put')
             /\ \/ ledger' = stored
                \/ ledger' = Replaced(stored, FileEpoch, build) /\ receipts_put'
             /\ ledger' \in [Epochs -> Builds]
<1> DEFINE build == Rewards(ReceiptBytes(received', FileEpoch), status)
           none  == build = NoAmounts
           book  == IF none THEN stored ELSE Replaced(stored, FileEpoch, build)
<1>1. received' = [r \in Receipts |-> IF r \in FileReceipts THEN 1 ELSE 0]
  BY DEF Restart
<1>2. received' \in [Receipts -> 0..2]
  BY <1>1
<1>3. build \in [Nodes -> Nat]
  BY <1>2, BuildTyped
<1>4. Holds(book) /\ Saves /\ receipts_put' = (receipts_put \/ ~none)
  BY DEF Restart
<1> HIDE DEF build
<1>5. Replaced(stored, FileEpoch, build) \in [Epochs -> Builds]
  BY <1>3, Constants, BooksTyped DEF Replaced, Builds
<1>6. ledger' = book /\ stored' = ledger' /\ faults' = faults
  BY <1>4 DEF Holds, Saves, Written
<1>7. Holds(ledger')
  BY <1>4, <1>6
<1>8. receipts_put' \in BOOLEAN /\ (receipts_put => receipts_put')
  BY <1>4 DEF TypeOK
<1>9. CASE none
  BY <1>2, <1>3, <1>6, <1>7, <1>8, <1>9, BooksTyped DEF build
<1>10. CASE ~none
  <2>1. receipts_put'
    BY <1>4, <1>10
  <2>2. ledger' = Replaced(stored, FileEpoch, build)
    BY <1>6, <1>10
  <2> QED BY <1>2, <1>3, <1>5, <1>6, <1>7, <1>8, <2>1, <2>2 DEF build
<1> QED BY <1>9, <1>10

LEMMA RestartTyped == TypeOK /\ Restart => TypeOK'
<1> SUFFICES ASSUME TypeOK, Restart PROVE TypeOK'
  OBVIOUS
<1>1. /\ auto' = AutoIdle /\ handler' = [h \in Handlers |-> HandlerIdle]
      /\ UNCHANGED <<profile, chainVars, settled, ever_received>>
      /\ restarts < MaxRestarts /\ restarts' = restarts + 1
      /\ repeatable' \in {repeatable, Repeatable}
  BY DEF Restart
<1>2. /\ received' \in [Receipts -> 0..2] /\ receipts_put' \in BOOLEAN
      /\ ledger' \in [Epochs -> Builds] /\ stored' = ledger'
      /\ Holds(ledger') /\ faults' = faults
  BY RestartPuts
<1>3. peak' \in [Nodes -> Nat]
  BY <1>2, HoldsTyped
<1>4. repeatable' \in [Nodes -> Nat]
  BY <1>1, RepeatableTyped DEF TypeOK
<1>5. /\ auto' \in AutoTask /\ handler' \in [Handlers -> HandlerTask]
      /\ \A n \in Nodes : auto'.profile[n] <= profile[n]
  BY <1>1, TasksTyped DEF AutoIdle, NoAmounts, TypeOK
<1>6. restarts' \in 0..MaxRestarts
  BY <1>1, Constants DEF TypeOK
<1> QED BY <1>1, <1>2, <1>3, <1>4, <1>5, <1>6
    DEF TypeOK, chainVars, epochVars, Builds

\* Every variable keeps its type: no balance of the vault, no headroom and no
\* credit is ever negative, and neither the cursor nor a pass runs ahead of
\* the relay's profile.
THEOREM TypeAlwaysCorrect == Spec => []TypeOK
<1>1. TypeOK /\ [Next]_vars => TypeOK'
  <2>1. TypeOK /\ UNCHANGED vars => TypeOK'
    BY DEF vars, fileVars, chainVars, epochVars, historyVars, TypeOK
  <2> QED BY <2>1, ChainTyped, HandlerTyped, AutoTyped, RestartTyped DEF Next
<1> QED BY <1>1, InitTyped, PTL DEF Spec

-----------------------------------------------------------------------------
(* Receipts and the roots posted for them                                  *)

\* The receipts for a node in an epoch, among those seen.
ReceiptsIn(seen, e, n) == {r \in seen : NodeOf[r] = n /\ EpochOf[r] = e}
Counts(seen, n) == [e \in Epochs |-> Cardinality(ReceiptsIn(seen, e, n))]

LEMMA CountsTyped ==
  ASSUME NEW seen \in SUBSET Receipts, NEW n
  PROVE  /\ \A e \in Epochs : /\ Counts(seen, n)[e] \in Nat
                              /\ IsFiniteSet(ReceiptsIn(seen, e, n))
         /\ SumFunctionOnSet(Counts(seen, n), Epochs) \in Nat
<1>1. ASSUME NEW e \in Epochs
      PROVE  /\ Counts(seen, n)[e] \in Nat
             /\ IsFiniteSet(ReceiptsIn(seen, e, n))
  <2>1. ReceiptsIn(seen, e, n) \in SUBSET Receipts
    BY DEF ReceiptsIn
  <2>2. IsFiniteSet(ReceiptsIn(seen, e, n))
    BY <2>1, Constants, FS_Subset
  <2> QED BY <2>2, FS_CardinalityType DEF Counts
<1>2. SumFunctionOnSet(Counts(seen, n), Epochs) \in Nat
  BY <1>1, Constants, SumIsNat
<1> QED BY <1>1, <1>2

\* Seeing more receipts never lowers a count.
LEMMA CountsGrow ==
  ASSUME NEW more \in SUBSET Receipts, NEW seen \in SUBSET more, NEW n,
         NEW e \in Epochs
  PROVE  Counts(seen, n)[e] <= Counts(more, n)[e]
<1>1. ReceiptsIn(seen, e, n) \in SUBSET ReceiptsIn(more, e, n)
  BY DEF ReceiptsIn
<1>2. IsFiniteSet(ReceiptsIn(more, e, n))
  BY CountsTyped
<1>3. Cardinality(ReceiptsIn(seen, e, n)) <= Cardinality(ReceiptsIn(more, e, n))
  BY <1>1, <1>2, FS_Subset
<1> QED BY <1>3 DEF Counts

\* A receipt lies in one epoch: over the epochs none is counted twice.
LEMMA CountsWithinAll ==
  ASSUME NEW seen \in SUBSET Receipts, NEW n
  PROVE  SumFunctionOnSet(Counts(seen, n), Epochs)
           <= Cardinality({r \in seen : NodeOf[r] = n})
<1> DEFINE mine == {r \in seen : NodeOf[r] = n}
           f == Counts(seen, n)
<1>1. mine \in SUBSET Receipts
  OBVIOUS
<1>2. IsFiniteSet(mine)
  BY <1>1, Constants, FS_Subset
<1>3. \A e \in Epochs : f[e] = Cardinality(Class(mine, EpochOf, e))
  <2> SUFFICES ASSUME NEW e \in Epochs
               PROVE  f[e] = Cardinality(Class(mine, EpochOf, e))
    OBVIOUS
  <2>1. Class(mine, EpochOf, e) = ReceiptsIn(seen, e, n)
    BY DEF ReceiptsIn, Class
  <2> QED BY <2>1 DEF Counts
<1> HIDE DEF mine, f
<1>4. SumFunctionOnSet(f, Epochs) <= Cardinality(mine)
  BY <1>2, <1>3, EpochsFinite, SumOfClasses
<1> QED BY <1>4 DEF f, mine

\* A build of receipts that were all accepted is backed by them.
LEMMA BuildBacked ==
  ASSUME NEW seen \in SUBSET Receipts, NEW all \in [Receipts -> 0..2],
         \A r \in Receipts : all[r] > 0 => r \in seen,
         NEW e \in Epochs, NEW nodes, NEW n \in Nodes
  PROVE  Rewards(ReceiptBytes(all, e), nodes)[n] <= Counts(seen, n)[e]
<1> DEFINE there == {r \in Receipts : NodeOf[r] = n /\ EpochOf[r] = e /\ all[r] > 0}
           bytes == ReceiptBytes(all, e)
<1>1. there \in SUBSET ReceiptsIn(seen, e, n)
  BY DEF ReceiptsIn
<1>2. bytes \in [Nodes -> Nat] /\ bytes[n] = Cardinality(there)
  BY ReceiptBytesCounted
<1> HIDE DEF there, bytes
<1>3. Cardinality(there) <= Cardinality(ReceiptsIn(seen, e, n))
  BY <1>1, CountsTyped, FS_Subset
<1>4. Rewards(bytes, nodes)[n] <= bytes[n] /\ Rewards(bytes, nodes)[n] \in Nat
  BY <1>2, RewardsWithinBytes
<1>5. Counts(seen, n)[e] = Cardinality(ReceiptsIn(seen, e, n))
      /\ Counts(seen, n)[e] \in Nat
  BY CountsTyped DEF Counts
<1>6. Rewards(bytes, nodes)[n] <= Counts(seen, n)[e]
  BY <1>2, <1>3, <1>4, <1>5
<1> QED BY <1>6 DEF bytes

\* Whatever a build may hold was accepted.
ReceivedInv ==
  /\ FileReceipts \subseteq ever_received
  /\ \A r \in Receipts : received[r] > 0 => r \in ever_received
  /\ \A h \in Handlers, r \in Receipts :
       handler[h].all[r] > 0 => r \in ever_received

LEMMA ReceivedStep ==
  TypeOK /\ ReceivedInv /\ [Next]_vars
    => ReceivedInv' /\ ever_received \subseteq ever_received'
<1> SUFFICES ASSUME TypeOK, ReceivedInv, [Next]_vars
             PROVE  ReceivedInv' /\ ever_received \subseteq ever_received'
  OBVIOUS
<1> USE DEF ReceivedInv
<1>1. CASE UNCHANGED <<received, handler, ever_received>>
  BY <1>1
<1>2. ASSUME NEW h \in Handlers, NEW e,
             NEW accepted \in SUBSET Receipts, ReceiptsStart(h, e, accepted)
      PROVE  ReceivedInv' /\ ever_received \subseteq ever_received'
  <2>1. /\ received' = [r \in Receipts |-> IF r \in accepted THEN received[r] + 1
                                           ELSE received[r]]
        /\ ever_received' = ever_received \cup accepted
        /\ handler' = [handler EXCEPT ![h] =
                         [HandlerIdle EXCEPT !.pc = "nodes", !.epoch = e,
                                             !.all = received']]
    BY <1>2 DEF ReceiptsStart
  <2>2. \A r \in Receipts : received'[r] > 0 => r \in ever_received'
    BY <2>1
  <2>3. ASSUME NEW g \in Handlers, NEW r \in Receipts, handler'[g].all[r] > 0
        PROVE  r \in ever_received'
    <3>1. CASE g = h
      <4>1. handler'[g].all = received'
        BY <2>1, <3>1 DEF TypeOK, HandlerIdle
      <4> QED BY <2>2, <2>3, <4>1
    <3>2. CASE g # h
      <4>1. handler'[g] = handler[g]
        BY <2>1, <3>2 DEF TypeOK
      <4> QED BY <2>1, <2>3, <4>1
    <3> QED BY <3>1, <3>2
  <2> QED BY <2>1, <2>2, <2>3
<1>3. ASSUME NEW h \in Handlers,
             ReceiptsNodes(h) \/ ReceiptsError(h) \/ ReceiptsPut(h)
      PROVE  ReceivedInv' /\ ever_received \subseteq ever_received'
  <2>1. UNCHANGED <<received, ever_received>>
    BY <1>3 DEF ReceiptsNodes, ReceiptsError, ReceiptsPut, historyVars
  <2>2. \/ handler' = [handler EXCEPT ![h] = HandlerIdle]
        \/ handler' = [handler EXCEPT ![h].pc = "put", ![h].nodes = status]
    BY <1>3 DEF ReceiptsNodes, ReceiptsError, ReceiptsPut
  <2>3. \A g \in Handlers : \/ handler'[g].all = handler[g].all
                            \/ handler'[g] = HandlerIdle
    <3>1. CASE handler' = [handler EXCEPT ![h] = HandlerIdle]
      BY <3>1 DEF TypeOK
    <3>2. CASE handler' = [handler EXCEPT ![h].pc = "put", ![h].nodes = status]
      BY <3>2 DEF TypeOK, HandlerTask
    <3> QED BY <2>2, <3>1, <3>2
  <2>4. \A r \in Receipts : ~(HandlerIdle.all[r] > 0)
    BY DEF HandlerIdle
  <2> QED BY <2>1, <2>3, <2>4
<1>4. CASE Restart
  <2>1. /\ received' = [r \in Receipts |-> IF r \in FileReceipts THEN 1 ELSE 0]
        /\ handler' = [h \in Handlers |-> HandlerIdle]
        /\ ever_received' = ever_received
    BY <1>4 DEF Restart
  <2> QED BY <2>1 DEF HandlerIdle
<1>5. ASSUME \/ ChainNext \/ AutoNext
             \/ \E n \in Nodes, total \in 1..MaxFunds : CoSign(n, total)
             \/ UNCHANGED vars
      PROVE  UNCHANGED <<received, handler, ever_received>>
  <2> USE DEF fileVars, processVars, historyVars, othersOfAuto
  <2>1. CASE ChainNext
    BY <2>1 DEF ChainNext, Fund, Serve, ClaimLands, ClaimLost, ChangeStatus,
                ClaimLeaf, PostLands
  <2>2. CASE AutoNext
    BY <2>2 DEF AutoNext, AutoStart, AutoNodes, AutoClaimed, AutoOutstanding,
                AutoVault, AutoNothing, AutoCredit, AutoCursor, AutoError
  <2>3. CASE \E n \in Nodes, total \in 1..MaxFunds : CoSign(n, total)
    BY <2>3 DEF CoSign
  <2>4. CASE UNCHANGED vars
    BY <2>4 DEF vars
  <2> QED BY <1>5, <2>1, <2>2, <2>3, <2>4
<1> QED BY <1>1, <1>2, <1>3, <1>4, <1>5 DEF Next, HandlerNext

LEMMA ReceivedInvariant == Spec => []ReceivedInv
<1>1. Init => ReceivedInv
  BY DEF Init, ReceivedInv, HandlerIdle
<1> QED BY <1>1, ReceivedStep, TypeAlwaysCorrect, PTL DEF Spec

\* Posted roots, and those on their way, are backed epoch by epoch.
PostedInv ==
  /\ \A post \in posts, n \in Nodes :
       post.amount[n] <= Counts(ever_received, n)[post.epoch]
  /\ \A e \in Epochs, n \in Nodes :
       posted[e].live => posted[e].amount[n] <= Counts(ever_received, n)[e]

LEMMA PostedStep ==
  TypeOK /\ ReceivedInv /\ PostedInv /\ [Next]_vars => PostedInv'
<1> SUFFICES ASSUME TypeOK, ReceivedInv, PostedInv, [Next]_vars
             PROVE  PostedInv'
  OBVIOUS
<1>1. ASSUME NEW n \in Nodes, NEW e \in Epochs
      PROVE  /\ Counts(ever_received, n)[e] \in Nat
             /\ Counts(ever_received', n)[e] \in Nat
             /\ Counts(ever_received, n)[e] <= Counts(ever_received', n)[e]
  <2>1. ever_received \in SUBSET ever_received'
    BY ReceivedStep
  <2>2. ever_received' \in SUBSET Receipts
    <3>1. TypeOK'
      BY ChainTyped, HandlerTyped, AutoTyped, RestartTyped
         DEF Next, vars, fileVars, chainVars, epochVars, historyVars, TypeOK
    <3> QED BY <3>1 DEF TypeOK
  <2> QED BY <2>1, <2>2, CountsTyped, CountsGrow
<1>2. \A post \in posts : /\ post.epoch \in Epochs
                          /\ \A n \in Nodes : post.amount[n] \in Nat
  BY DEF TypeOK
<1>3. \A e \in Epochs, n \in Nodes : posted[e].amount[n] \in Nat
  BY BooksTyped DEF Builds
<1>4. ASSUME NEW post \in posts, NEW n \in Nodes
      PROVE  post.amount[n] <= Counts(ever_received', n)[post.epoch]
  <2>1. post.amount[n] <= Counts(ever_received, n)[post.epoch]
    BY DEF PostedInv
  <2> QED BY <1>1, <1>2, <2>1
<1>5. ASSUME NEW e \in Epochs, NEW n \in Nodes, posted[e].live
      PROVE  posted[e].amount[n] <= Counts(ever_received', n)[e]
  <2>1. posted[e].amount[n] <= Counts(ever_received, n)[e]
    BY <1>5 DEF PostedInv
  <2> QED BY <1>1, <1>3, <2>1
<1>6. ASSUME posts' \subseteq posts, posted' = posted
      PROVE  PostedInv'
  BY <1>4, <1>5, <1>6 DEF PostedInv
<1>7. ASSUME NEW post \in posts, PostLands(post)
      PROVE  PostedInv'
  <2>1. /\ posted' = [posted EXCEPT ![post.epoch] =
                        [live |-> TRUE, amount |-> post.amount]]
        /\ posts' \subseteq posts
    BY <1>7 DEF PostLands
  <2>2. ASSUME NEW e \in Epochs, NEW n \in Nodes, posted'[e].live
        PROVE  posted'[e].amount[n] <= Counts(ever_received', n)[e]
    <3>1. CASE e = post.epoch
      <4>1. posted'[e].amount = post.amount
        BY <2>1, <3>1, BooksTyped
      <4> QED BY <1>4, <3>1, <4>1
    <3>2. CASE e # post.epoch
      <4>1. posted'[e] = posted[e]
        BY <2>1, <3>2, BooksTyped
      <4> QED BY <1>5, <2>2, <4>1
    <3> QED BY <3>1, <3>2
  <2> QED BY <1>4, <2>1, <2>2 DEF PostedInv
<1>8. ASSUME NEW h \in Handlers, ReceiptsPut(h)
      PROVE  PostedInv'
  <2> DEFINE e == handler[h].epoch
             rewards == Rewards(ReceiptBytes(handler[h].all, e),
                                handler[h].nodes)
             build == [epoch |-> e, amount |-> rewards]
  <2>1. /\ e \in Epochs /\ ever_received' = ever_received
        /\ handler[h].all \in [Receipts -> 0..2]
    BY <1>8 DEF ReceiptsPut, TypeOK, HandlerTask
  <2>2. \A n \in Nodes : rewards[n] <= Counts(ever_received, n)[e]
    <3>1. \A r \in Receipts : handler[h].all[r] > 0 => r \in ever_received
      BY DEF ReceivedInv
    <3>2. ever_received \in SUBSET Receipts
      BY DEF TypeOK
    <3> QED BY <2>1, <3>1, <3>2, BuildBacked
  <2>3. posts' \subseteq posts \cup {build} /\ posted' = posted
    BY <1>8 DEF ReceiptsPut, MaybePost
  <2>4. build.epoch = e /\ build.amount = rewards
    OBVIOUS
  <2> HIDE DEF e, rewards, build
  <2>5. ASSUME NEW post \in posts', NEW n \in Nodes
        PROVE  post.amount[n] <= Counts(ever_received', n)[post.epoch]
    <3>1. CASE post \in posts
      BY <1>4, <3>1
    <3>2. CASE post = build
      BY <2>1, <2>2, <2>4, <3>2
    <3> QED BY <2>3, <3>1, <3>2
  <2> QED BY <1>5, <2>3, <2>5 DEF PostedInv
<1>9. ASSUME ~ \E post \in posts : PostLands(post),
             ~ \E h \in Handlers : ReceiptsPut(h)
      PROVE  UNCHANGED <<posts, posted>>
  <2> USE DEF chainVars, epochVars, othersOfHandler, othersOfAuto
  <2>1. CASE ChainNext
    BY <1>9, <2>1 DEF ChainNext, Fund, Serve, ClaimLands, ClaimLost,
       ChangeStatus, ClaimLeaf
  <2>2. CASE AutoNext
    BY <2>2 DEF AutoNext, AutoStart, AutoNodes, AutoClaimed, AutoOutstanding,
                AutoVault, AutoNothing, AutoCredit, AutoCursor, AutoError
  <2>3. CASE HandlerNext
    BY <1>9, <2>3 DEF HandlerNext, CoSign, ReceiptsStart, ReceiptsNodes,
       ReceiptsError
  <2>4. CASE Restart \/ UNCHANGED vars
    BY <2>4 DEF Restart, vars
  <2> QED BY <2>1, <2>2, <2>3, <2>4 DEF Next
<1> QED BY <1>6, <1>7, <1>8, <1>9

\* Over all posted roots no node has more than the distinct receipts accepted
\* for it, whatever was posted twice, overtaken, lost or restarted.
THEOREM PostedAlwaysBacked == Spec => []PostedBacked
<1>1. Init => PostedInv
  BY DEF Init, PostedInv, NoBuild
<1>2. Spec => []PostedInv
  BY <1>1, PostedStep, ReceivedInvariant, TypeAlwaysCorrect, PTL DEF Spec
<1>3. TypeOK /\ PostedInv => PostedBacked
  <2> SUFFICES ASSUME TypeOK, PostedInv, NEW n \in Nodes
               PROVE  EarnedIn(posted, n)
                        <= Cardinality({r \in ever_received : NodeOf[r] = n})
    BY DEF PostedBacked
  <2> DEFINE held == Booked(posted, n)
             seen == Counts(ever_received, n)
             all  == Cardinality({r \in ever_received : NodeOf[r] = n})
  <2>1. ever_received \in SUBSET Receipts
    BY DEF TypeOK
  <2>2. \A e \in Epochs : held[e] \in Nat /\ seen[e] \in Nat
    BY <2>1, BooksTyped, EarnedIsSum, CountsTyped
  <2>3. \A e \in Epochs : held[e] <= seen[e]
    <3> SUFFICES ASSUME NEW e \in Epochs PROVE held[e] <= seen[e]
      OBVIOUS
    <3>1. held[e] = IF posted[e].live THEN posted[e].amount[n] ELSE 0
      BY DEF Booked
    <3>2. posted[e].live => posted[e].amount[n] <= seen[e]
      BY DEF PostedInv
    <3> HIDE DEF held, seen
    <3> QED BY <2>2, <3>1, <3>2
  <2>4. /\ EarnedIn(posted, n) = SumFunctionOnSet(held, Epochs)
        /\ EarnedIn(posted, n) \in Nat
    BY BooksTyped, EarnedIsSum
  <2>5. /\ SumFunctionOnSet(seen, Epochs) <= all
        /\ SumFunctionOnSet(seen, Epochs) \in Nat
    BY <2>1, CountsWithinAll, CountsTyped
  <2>6. all \in Nat
    <3>1. {r \in ever_received : NodeOf[r] = n} \in SUBSET Receipts
      BY <2>1
    <3> QED BY <3>1, Constants, FS_Subset, FS_CardinalityType
  <2> HIDE DEF held, seen, all
  <2>7. SumFunctionOnSet(held, Epochs) <= SumFunctionOnSet(seen, Epochs)
    <3>1. \A e \in Epochs : /\ held[e] \in Int /\ seen[e] \in Int
                            /\ held[e] <= seen[e]
      BY <2>2, <2>3
    <3> QED BY <3>1, EpochsFinite, SumMonotone
  <2>8. EarnedIn(posted, n) <= all
    BY <2>4, <2>5, <2>6, <2>7
  <2> QED BY <2>8 DEF all
<1> QED BY <1>2, <1>3, TypeAlwaysCorrect, PTL

-----------------------------------------------------------------------------
(* The ledger                                                              *)

\* At first nothing is in it.
LEMMA InitEarned ==
  Init => TotalEarned = 0 /\ \A n \in Nodes : EarnedForNode(n) = 0
<1> SUFFICES ASSUME Init
             PROVE  TotalEarned = 0 /\ \A n \in Nodes : EarnedForNode(n) = 0
  OBVIOUS
<1>1. ASSUME NEW n \in Nodes PROVE EarnedForNode(n) = 0
  <2> DEFINE f == Booked(ledger, n)
  <2>1. \A e \in Epochs : f[e] = 0
    BY DEF Init, NoBuild, Booked
  <2>2. EarnedForNode(n) = SumFunctionOnSet(f, Epochs)
    BY InitTyped, BooksTyped, EarnedIsSum DEF EarnedForNode
  <2> HIDE DEF f
  <2> QED BY <2>1, <2>2, EpochsFinite, SumOfZeros
<1> DEFINE g == [n \in Nodes |-> EarnedIn(ledger, n)]
<1>2. \A n \in Nodes : g[n] = 0
  BY <1>1 DEF EarnedForNode
<1>3. TotalEarned = SumFunctionOnSet(g, Nodes)
  BY DEF TotalEarned, TotalIn, SumFunction
<1>4. IsFiniteSet(Nodes)
  BY Constants
<1> HIDE DEF g
<1>5. TotalEarned = 0
  BY <1>2, <1>3, <1>4, SumOfZeros
<1> QED BY <1>1, <1>5

\* The ledger changes by a pass's credit, a build of receipts or a restart.
LEMMA LedgerStep ==
  ASSUME TypeOK, [Next]_vars
  PROVE  \/ UNCHANGED <<ledger, stored, peak, receipts_put>>
         \/ AutoCredit
         \/ \E h \in Handlers : ReceiptsPut(h)
         \/ Restart
<1> USE DEF fileVars, processVars, historyVars, othersOfHandler, othersOfAuto
<1>1. CASE ChainNext
  BY <1>1 DEF ChainNext, Fund, Serve, ClaimLands, ClaimLost, ChangeStatus,
              ClaimLeaf, PostLands
<1>2. CASE AutoNext
  BY <1>2 DEF AutoNext, AutoStart, AutoNodes, AutoClaimed, AutoOutstanding,
              AutoVault, AutoNothing, AutoCursor, AutoError
<1>3. CASE HandlerNext
  BY <1>3 DEF HandlerNext, CoSign, ReceiptsStart, ReceiptsNodes, ReceiptsError
<1>4. CASE UNCHANGED vars
  BY <1>4 DEF vars
<1> QED BY <1>1, <1>2, <1>3, <1>4 DEF Next

\* A credit opens an epoch: it adds to what each node has earned.
LEMMA CreditAdds ==
  ASSUME TypeOK, AutoCredit
  PROVE  /\ NextEpoch \in Epochs /\ Credit \in [Nodes -> Nat]
         /\ ledger' = Replaced(ledger, NextEpoch, Credit)
         /\ ledger' \in [Epochs -> Builds] /\ Holds(ledger')
         /\ stored' \in {stored, ledger'}
         /\ \A n \in Nodes : /\ Booked(ledger, n)[NextEpoch] = 0
                             /\ EarnedForNode(n)' = EarnedForNode(n) + Credit[n]
         /\ TotalEarned' = TotalEarned + SumFunctionOnSet(Credit, Nodes)
<1>1. NextEpoch \in Epochs /\ Holds(Replaced(ledger, NextEpoch, Credit))
  BY NextEpochIsNew, AggregatorAssumption DEF AutoCredit, Epochs
<1>2. \A n \in Nodes : Booked(ledger, n)[NextEpoch] = 0
  BY <1>1, NextEpochIsNew DEF Booked, Live
<1>3. Credit \in [Nodes -> Nat]
  BY CreditTyped
<1>4. /\ ledger' = Replaced(ledger, NextEpoch, Credit)
      /\ ledger' \in [Epochs -> Builds] /\ Holds(ledger')
  <2>1. Replaced(ledger, NextEpoch, Credit) \in [Epochs -> Builds]
    BY <1>1, <1>3, BooksTyped DEF Replaced, Builds
  <2>2. ledger' = Replaced(ledger, NextEpoch, Credit)
    BY <1>1, <2>1, HoldsTyped
  <2> QED BY <1>1, <2>1, <2>2
<1>5. ASSUME NEW n \in Nodes
      PROVE  EarnedForNode(n)' = EarnedForNode(n) + Credit[n]
  <2>1. EarnedForNode(n)' = EarnedIn(Replaced(ledger, NextEpoch, Credit), n)
    BY <1>4 DEF EarnedForNode
  <2>2. EarnedIn(Replaced(ledger, NextEpoch, Credit), n)
          = EarnedIn(ledger, n) - Booked(ledger, n)[NextEpoch] + Credit[n]
    BY <1>1, <1>3, BooksTyped, EarnedAfterPut
  <2>3. EarnedIn(ledger, n) \in Nat /\ Credit[n] \in Nat
    BY <1>3, BooksTyped, EarnedIsSum
  <2> QED BY <1>2, <2>1, <2>2, <2>3 DEF EarnedForNode
<1>6. TotalEarned' = TotalEarned + SumFunctionOnSet(Credit, Nodes)
  <2> DEFINE f == [n \in Nodes |-> EarnedIn(ledger, n)]
             g == [n \in Nodes |-> EarnedIn(ledger', n)]
  <2>1. \A n \in Nodes : f[n] \in Int /\ Credit[n] \in Int
                         /\ g[n] = f[n] + Credit[n]
    BY <1>3, <1>5, EarnedTyped DEF EarnedForNode
  <2>2. /\ TotalEarned = SumFunctionOnSet(f, Nodes)
        /\ TotalEarned' = SumFunctionOnSet(g, Nodes)
    BY DEF TotalEarned, TotalIn, SumFunction
  <2>3. IsFiniteSet(Nodes)
    BY Constants
  <2> HIDE DEF f, g
  <2>4. SumFunctionOnSet(g, Nodes)
          = SumFunctionOnSet(f, Nodes) + SumFunctionOnSet(Credit, Nodes)
    BY <2>1, <2>3, SumOfSums
  <2> QED BY <2>2, <2>4
<1>7. stored' \in {stored, ledger'}
  BY DEF AutoCredit, Saves, Unsaved
<1> QED BY <1>1, <1>2, <1>3, <1>4, <1>5, <1>6, <1>7

\* What a receipt build does to the ledger.
LEMMA ReceiptsPutPuts ==
  ASSUME TypeOK, NEW h \in Handlers, ReceiptsPut(h)
  PROVE  LET e == handler[h].epoch
             rewards == Rewards(ReceiptBytes(handler[h].all, e),
                                handler[h].nodes)
         IN  /\ e \in Epochs /\ rewards \in [Nodes -> Nat]
             /\ ledger' = Replaced(ledger, e, rewards)
             /\ ledger' \in [Epochs -> Builds] /\ Holds(ledger')
             /\ stored' \in {stored, ledger'} /\ receipts_put' = TRUE
<1> DEFINE e == handler[h].epoch
           rewards == Rewards(ReceiptBytes(handler[h].all, e), handler[h].nodes)
<1>1. e \in Epochs /\ handler[h].all \in [Receipts -> 0..2]
  BY DEF TypeOK, HandlerTask
<1>2. rewards \in [Nodes -> Nat]
  BY <1>1, BuildTyped
<1>3. /\ Holds(Replaced(ledger, e, rewards)) /\ receipts_put' = TRUE
      /\ stored' \in {stored, ledger'}
  BY DEF ReceiptsPut, Saves, Unsaved
<1> HIDE DEF e, rewards
<1>4. Replaced(ledger, e, rewards) \in [Epochs -> Builds]
  BY <1>1, <1>2, BooksTyped DEF Replaced, Builds
<1>5. ledger' = Replaced(ledger, e, rewards)
  BY <1>3, <1>4, HoldsTyped
<1> QED BY <1>1, <1>2, <1>3, <1>4, <1>5 DEF e, rewards

\* Peaks only grow, and they stay above the ledger.
LEMMA PeakStep ==
  ASSUME TypeOK, [Next]_vars, NEW n \in Nodes, EarnedForNode(n) <= peak[n]
  PROVE  peak[n] <= peak'[n] /\ EarnedForNode(n)' <= peak'[n]
<1>1. CASE UNCHANGED <<ledger, stored, peak, receipts_put>>
  BY <1>1 DEF EarnedForNode, TypeOK
<1>2. CASE ledger' \in [Epochs -> Builds] /\ Holds(ledger')
  BY <1>2, HoldsTyped
<1>3. CASE AutoCredit
  BY <1>2, <1>3, CreditAdds
<1>4. ASSUME NEW h \in Handlers, ReceiptsPut(h)
      PROVE  ledger' \in [Epochs -> Builds] /\ Holds(ledger')
  BY <1>4, ReceiptsPutPuts
<1>5. CASE Restart
  BY <1>2, <1>5, RestartPuts
<1> QED BY <1>1, <1>2, <1>3, <1>4, <1>5, LedgerStep

-----------------------------------------------------------------------------
(* Claims                                                                  *)

\* A total under way was in the ledger when it was co-signed.
PaidInv ==
  \A n \in Nodes : /\ withdrawn[n] <= peak[n] /\ in_flight[n] <= peak[n]
                   /\ EarnedForNode(n) <= peak[n]

LEMMA PaidStep == TypeOK /\ PaidInv /\ [Next]_vars => PaidInv'
<1> SUFFICES ASSUME TypeOK, PaidInv, [Next]_vars, NEW n \in Nodes
             PROVE  /\ withdrawn'[n] <= peak'[n] /\ in_flight'[n] <= peak'[n]
                    /\ EarnedForNode(n)' <= peak'[n]
  BY DEF PaidInv
<1>1. /\ withdrawn[n] <= peak[n] /\ in_flight[n] <= peak[n]
      /\ EarnedForNode(n) <= peak[n]
  BY DEF PaidInv
<1>2. peak[n] <= peak'[n] /\ EarnedForNode(n)' <= peak'[n]
  BY <1>1, PeakStep
<1>3. /\ withdrawn[n] \in Nat /\ in_flight[n] \in Nat /\ peak[n] \in Nat
      /\ EarnedForNode(n) \in Nat
  BY EarnedTyped DEF TypeOK
<1>4. peak'[n] \in Nat
  <2>1. TypeOK'
    BY ChainTyped, HandlerTyped, AutoTyped, RestartTyped
       DEF Next, vars, fileVars, chainVars, epochVars, historyVars, TypeOK
  <2> QED BY <2>1 DEF TypeOK
<1>5. withdrawn'[n] \in {withdrawn[n], in_flight[n]}
      /\ (in_flight'[n] \in {in_flight[n], 0} \/ in_flight'[n] <= EarnedForNode(n))
      /\ in_flight'[n] \in Nat
  <2> USE DEF epochVars, othersOfHandler, othersOfAuto, chainVars
  <2>1. ASSUME NEW m \in Nodes, ClaimLands(m) \/ ClaimLost(m)
        PROVE  /\ withdrawn'[n] \in {withdrawn[n], in_flight[n]}
               /\ in_flight'[n] \in {in_flight[n], 0}
    BY <2>1 DEF ClaimLands, ClaimLost, TypeOK
  <2>2. ASSUME NEW m \in Nodes, NEW total \in 1..MaxFunds, CoSign(m, total)
        PROVE  /\ withdrawn'[n] = withdrawn[n] /\ in_flight'[n] \in Nat
               /\ \/ in_flight'[n] = in_flight[n]
                  \/ in_flight'[n] <= EarnedForNode(n)
    BY <1>3, <2>2 DEF CoSign, WithinLedger, TypeOK
  <2>3. ASSUME ~ \E m \in Nodes : ClaimLands(m) \/ ClaimLost(m), ChainNext
        PROVE  UNCHANGED <<withdrawn, in_flight>>
    BY <2>3 DEF ChainNext, Fund, Serve, ChangeStatus, ClaimLeaf, PostLands
  <2>4. CASE AutoNext
    BY <1>3, <2>4 DEF AutoNext, AutoStart, AutoNodes, AutoClaimed,
       AutoOutstanding, AutoVault, AutoNothing, AutoCredit, AutoCursor,
       AutoError
  <2>5. ASSUME NEW h \in Handlers,
               \/ ReceiptsNodes(h) \/ ReceiptsError(h) \/ ReceiptsPut(h)
               \/ \E e \in {EpochOf[r] : r \in Receipts} :
                    \E accepted \in SUBSET Receipts :
                      ReceiptsStart(h, e, accepted)
        PROVE  UNCHANGED <<withdrawn, in_flight>>
    BY <2>5 DEF ReceiptsNodes, ReceiptsError, ReceiptsPut, ReceiptsStart
  <2>6. CASE Restart \/ UNCHANGED vars
    BY <1>3, <2>6 DEF Restart, vars
  <2> QED BY <1>3, <2>1, <2>2, <2>3, <2>4, <2>5, <2>6 DEF Next, HandlerNext
<1> QED BY <1>1, <1>2, <1>3, <1>4, <1>5

\* No node is ever paid more than its ledger once held, however late a claim
\* lands and whatever receipt builds have replaced since it was co-signed.
THEOREM PaidAlwaysWithinLedger == Spec => []PaidWithinLedger
<1>1. Init => PaidInv
  BY InitEarned DEF Init, PaidInv, NoAmounts
<1>2. PaidInv => PaidWithinLedger
  BY DEF PaidInv, PaidWithinLedger
<1> QED BY <1>1, <1>2, PaidStep, TypeAlwaysCorrect, PTL DEF Spec

-----------------------------------------------------------------------------
(* The vault                                                               *)

\* A pass reads `claimed`, the ledger and the vault at different steps.  What
\* it has read bounds what is true from then on, as claims move tokens from
\* the vault to `claimed` and payments only add to it.
VaultInv ==
  ~receipts_put =>
    /\ TotalEarned <= vault + claimed /\ TotalIn(stored) <= vault + claimed
    /\ auto.pc = "outstanding" => auto.claimed <= claimed
    /\ auto.pc = "vault" => TotalEarned <= auto.outstanding + claimed
    /\ auto.pc = "credit" => TotalEarned + auto.cap <= vault + claimed

LEMMA SameTotal ==
  /\ ledger' = ledger => TotalEarned' = TotalEarned
  /\ stored' = stored => TotalIn(stored)' = TotalIn(stored)
  /\ stored' = ledger' => TotalIn(stored)' = TotalEarned'
BY DEF TotalEarned, TotalIn, EarnedIn, Live

LEMMA ChainKeepsFunds ==
  ASSUME TypeOK, ChainNext
  PROVE  /\ vault + claimed <= vault' + claimed' /\ claimed <= claimed'
         /\ vault' \in Nat /\ claimed' \in Nat
         /\ UNCHANGED <<auto, ledger, stored, receipts_put>>
<1> USE DEF fileVars, processVars, historyVars, epochVars, chainVars
<1>0. vault \in Nat /\ claimed \in Nat
  BY DEF TypeOK
<1>1. CASE Fund
  BY <1>0, <1>1, AggregatorAssumption DEF Fund
<1>2. ASSUME NEW n \in Nodes, ClaimLands(n)
      PROVE  /\ vault + claimed <= vault' + claimed' /\ claimed <= claimed'
             /\ vault' \in Nat /\ claimed' \in Nat
             /\ UNCHANGED <<auto, ledger, stored, receipts_put>>
  <2>1. in_flight[n] \in Nat /\ withdrawn[n] \in Nat
    BY DEF TypeOK
  <2> QED BY <1>0, <1>2, <2>1 DEF ClaimLands
<1>3. ASSUME NEW n \in Nodes, NEW e \in Epochs, ClaimLeaf(e, n)
      PROVE  /\ vault + claimed <= vault' + claimed' /\ claimed <= claimed'
             /\ vault' \in Nat /\ claimed' \in Nat
             /\ UNCHANGED <<auto, ledger, stored, receipts_put>>
  <2>1. posted[e].amount[n] \in Nat
    BY BooksTyped DEF Builds
  <2> QED BY <1>0, <1>3, <2>1 DEF ClaimLeaf
<1>4. ASSUME ~Fund, ~ \E n \in Nodes : ClaimLands(n),
             ~ \E n \in Nodes : \E e \in Epochs : ClaimLeaf(e, n)
      PROVE  UNCHANGED <<vault, claimed, auto, ledger, stored, receipts_put>>
  BY <1>4 DEF ChainNext, Serve, ClaimLost, ChangeStatus, PostLands
<1> QED BY <1>0, <1>1, <1>2, <1>3, <1>4

LEMMA Within ==
  ASSUME NEW a \in Nat, NEW b \in Nat, NEW c \in Nat, NEW d \in Nat,
         NEW e \in Nat, a <= b + c, b + c <= d + e
  PROVE  a <= d + e
OBVIOUS

LEMMA VaultStep == TypeOK /\ VaultInv /\ [Next]_vars => VaultInv'
<1> SUFFICES ASSUME TypeOK, VaultInv, [Next]_vars, ~receipts_put'
             PROVE  /\ TotalEarned' <= vault' + claimed'
                    /\ TotalIn(stored)' <= vault' + claimed'
                    /\ auto'.pc = "outstanding" => auto'.claimed <= claimed'
                    /\ auto'.pc = "vault" =>
                         TotalEarned' <= auto'.outstanding + claimed'
                    /\ auto'.pc = "credit" =>
                         TotalEarned' + auto'.cap <= vault' + claimed'
  BY DEF VaultInv
<1>0. /\ vault \in Nat /\ claimed \in Nat /\ TotalEarned \in Nat
      /\ auto \in AutoTask /\ auto.claimed \in Nat /\ auto.cap \in Nat
      /\ auto.outstanding \in Nat /\ TotalIn(stored) \in Nat
  BY EarnedTyped DEF TypeOK, AutoTask
<1>1. \/ AutoCredit \/ Restart
      \/ ledger' = ledger /\ stored' = stored /\ ~receipts_put
  BY LedgerStep, ReceiptsPutPuts
<1>2. ~receipts_put
  BY <1>1, RestartPuts DEF AutoCredit
<1>3. /\ TotalEarned <= vault + claimed /\ TotalIn(stored) <= vault + claimed
      /\ auto.pc = "outstanding" => auto.claimed <= claimed
      /\ auto.pc = "vault" => TotalEarned <= auto.outstanding + claimed
      /\ auto.pc = "credit" => TotalEarned + auto.cap <= vault + claimed
  BY <1>2 DEF VaultInv
<1>4. CASE ChainNext
  <2>1. vault' \in Nat /\ claimed' \in Nat
    BY <1>4, ChainKeepsFunds
  <2>2. vault + claimed <= vault' + claimed' /\ claimed <= claimed'
    BY <1>4, ChainKeepsFunds
  <2>3. TotalEarned' = TotalEarned /\ TotalIn(stored)' = TotalIn(stored)
    BY <1>4, ChainKeepsFunds, SameTotal
  <2>4. /\ auto'.pc = auto.pc /\ auto'.claimed = auto.claimed
        /\ auto'.outstanding = auto.outstanding /\ auto'.cap = auto.cap
    BY <1>4, ChainKeepsFunds
  <2>5. /\ TotalEarned' <= vault' + claimed'
        /\ TotalIn(stored)' <= vault' + claimed'
    <3>1. TotalEarned <= vault + claimed /\ TotalIn(stored) <= vault + claimed
      BY <1>3
    <3> QED BY <1>0, <2>1, <2>2, <2>3, <3>1, Within
  <2>6. ASSUME auto'.pc = "outstanding" PROVE auto'.claimed <= claimed'
    <3>1. auto.claimed <= claimed
      BY <1>3, <2>4, <2>6
    <3> QED BY <1>0, <2>1, <2>2, <2>4, <3>1
  <2>7. ASSUME auto'.pc = "vault"
        PROVE  TotalEarned' <= auto'.outstanding + claimed'
    <3>1. TotalEarned <= auto.outstanding + claimed
      BY <1>3, <2>4, <2>7
    <3> QED BY <1>0, <2>1, <2>2, <2>3, <2>4, <3>1
  <2>8. ASSUME auto'.pc = "credit"
        PROVE  TotalEarned' + auto'.cap <= vault' + claimed'
    <3>1. TotalEarned + auto.cap <= vault + claimed
      BY <1>3, <2>4, <2>8
    <3>2. TotalEarned + auto.cap \in Nat
      BY <1>0
    <3> QED BY <1>0, <2>1, <2>2, <2>3, <2>4, <3>1, <3>2, Within
  <2> QED BY <2>5, <2>6, <2>7, <2>8
<1>5. CASE HandlerNext \/ UNCHANGED vars
  <2>1. /\ UNCHANGED <<auto, vault, claimed>>
        /\ UNCHANGED <<ledger, stored>> \/ \E h \in Handlers : ReceiptsPut(h)
    BY <1>5 DEF fileVars, HandlerNext, CoSign, ReceiptsStart, ReceiptsNodes,
       ReceiptsError, ReceiptsPut, processVars, othersOfHandler, chainVars,
       vars
  <2>2. UNCHANGED <<ledger, stored>>
    BY <2>1, ReceiptsPutPuts
  <2> QED BY <1>3, <2>1, <2>2, SameTotal
<1>6. CASE AutoNext
  <2> USE DEF fileVars, othersOfAuto, chainVars
  <2>0. UNCHANGED <<vault, claimed>>
    BY <1>6 DEF AutoNext, AutoStart, AutoNodes, AutoClaimed, AutoOutstanding,
       AutoVault, AutoNothing, AutoCredit, AutoCursor, AutoError
  <2>1. CASE AutoCredit
    <3>1. /\ TotalEarned' = TotalEarned + SumFunctionOnSet(Credit, Nodes)
          /\ SumFunctionOnSet(Credit, Nodes) <= auto.cap
      BY <2>1, CreditAdds, CreditTyped
    <3>2. SumFunctionOnSet(Credit, Nodes) \in Nat
      BY CreditTyped, Constants, SumIsNat
    <3>3. auto.pc = "credit" /\ auto'.pc \in {"cursor", "idle"}
      BY <1>0, <2>1 DEF AutoCredit, AutoTask, Released, AutoIdle
    <3>4. TotalEarned' <= vault + claimed
      BY <1>0, <1>3, <3>1, <3>2, <3>3
    <3>5. TotalIn(stored)' \in {TotalIn(stored), TotalEarned'}
      BY <2>1, CreditAdds, SameTotal
    <3> QED BY <1>3, <2>0, <3>3, <3>4, <3>5
  <2>2. CASE AutoClaimed
    <3>1. auto'.pc = "outstanding" /\ auto'.claimed = claimed
      BY <1>0, <2>2 DEF AutoClaimed, AutoTask
    <3>2. TotalEarned' = TotalEarned /\ TotalIn(stored)' = TotalIn(stored)
      BY <2>2, SameTotal DEF AutoClaimed
    <3> QED BY <1>0, <1>3, <2>0, <3>1, <3>2
  <2>3. CASE AutoOutstanding
    <3>1. /\ auto.pc = "outstanding" /\ auto'.pc = "vault"
          /\ auto'.outstanding = IF TotalEarned > auto.claimed
                                 THEN TotalEarned - auto.claimed ELSE 0
      BY <1>0, <2>3 DEF AutoOutstanding, AutoTask
    <3>2. TotalEarned' = TotalEarned /\ TotalIn(stored)' = TotalIn(stored)
      BY <2>3, SameTotal DEF AutoOutstanding
    <3> QED BY <1>0, <1>3, <2>0, <3>1, <3>2
  <2>4. CASE AutoVault
    <3>1. /\ auto.pc = "vault" /\ auto'.pc = "credit"
          /\ auto'.cap = Headroom(vault, auto.outstanding)
      BY <1>0, <2>4 DEF AutoVault, AutoTask
    <3>2. TotalEarned' = TotalEarned /\ TotalIn(stored)' = TotalIn(stored)
      BY <2>4, SameTotal DEF AutoVault
    <3> QED BY <1>0, <1>3, <2>0, <3>1, <3>2 DEF Headroom
  <2>5. CASE AutoStart \/ AutoNodes \/ AutoNothing \/ AutoCursor \/ AutoError
    <3>1. auto'.pc \in {"idle", "nodes", "claimed"}
      <4>1. CASE AutoStart
        <5>1. auto' = [AutoIdle EXCEPT !.pc = "nodes", !.profile = profile]
          BY <4>1 DEF AutoStart
        <5> QED BY <5>1 DEF AutoIdle
      <4>2. CASE AutoNodes
        <5>1. \/ auto' = [auto EXCEPT !.pc = "claimed", !.nodes = status]
              \/ auto' = AutoIdle
          BY <4>2 DEF AutoNodes
        <5>2. CASE auto' = [auto EXCEPT !.pc = "claimed", !.nodes = status]
          BY <1>0, <5>2 DEF AutoTask
        <5>3. CASE auto' = AutoIdle
          BY <5>3 DEF AutoIdle
        <5> QED BY <5>1, <5>2, <5>3
      <4>3. CASE AutoNothing \/ AutoCursor \/ AutoError
        BY <4>3 DEF AutoNothing, AutoCursor, AutoError, Released, AutoIdle
      <4> QED BY <2>5, <4>1, <4>2, <4>3
    <3>2. TotalEarned' = TotalEarned /\ TotalIn(stored)' = TotalIn(stored)
      BY <2>5, SameTotal DEF AutoStart, AutoNodes, AutoNothing, AutoCursor,
         AutoError
    <3> QED BY <1>3, <2>0, <3>1, <3>2
  <2> QED BY <1>6, <2>1, <2>2, <2>3, <2>4, <2>5 DEF AutoNext
<1>7. CASE Restart
  <2>1. auto' = AutoIdle /\ UNCHANGED <<vault, claimed>>
    BY <1>7 DEF Restart, chainVars
  <2>2. ledger' = stored /\ stored' = stored
    BY <1>7, RestartPuts
  <2>3. TotalEarned' = TotalIn(stored) /\ TotalIn(stored)' = TotalIn(stored)
    BY <2>2 DEF TotalEarned, TotalIn
  <2> QED BY <1>3, <2>1, <2>3 DEF AutoIdle
<1> QED BY <1>4, <1>5, <1>6, <1>7 DEF Next

\* Fed by settlement passes alone, the ledger never owes more than the vault
\* holds, however claims and payments land between a pass's reads and
\* whatever a crash or a failed write credits again.
THEOREM VaultAlwaysCoversLedger == Spec => []VaultCoversLedger
<1>1. Init => VaultInv
  <2> SUFFICES ASSUME Init PROVE VaultInv
    OBVIOUS
  <2>1. TotalEarned = 0 /\ TotalIn(stored) = 0
    BY InitEarned DEF Init, TotalEarned
  <2> QED BY <2>1 DEF Init, VaultInv, AutoIdle
<1>2. TypeOK /\ VaultInv => VaultCoversLedger
  BY EarnedTyped DEF VaultInv, VaultCoversLedger, TypeOK
<1> QED BY <1>1, <1>2, VaultStep, TypeAlwaysCorrect, PTL DEF Spec

-----------------------------------------------------------------------------
(* What the ledger is backed by                                            *)

\* What a node's entry of an epoch holds beyond the receipts of that epoch: a
\* build of receipts exceeds them by nothing, a pass's credit by all of it.
Over(a, b) == IF a > b THEN a - b ELSE 0
Excess(book, seen, n) ==
  [e \in Epochs |-> Over(Booked(book, n)[e], Counts(seen, n)[e])]
ExcessSum(book, seen, n) == SumFunctionOnSet(Excess(book, seen, n), Epochs)

LEMMA OverTyped ==
  ASSUME NEW a \in Nat, NEW b \in Nat
  PROVE  Over(a, b) \in Nat /\ Over(a, b) <= a /\ a <= Over(a, b) + b
BY DEF Over

LEMMA ExcessTyped ==
  ASSUME NEW book \in [Epochs -> Builds], NEW seen \in SUBSET Receipts,
         NEW n \in Nodes
  PROVE  /\ \A e \in Epochs : /\ Excess(book, seen, n)[e] \in Nat
                              /\ Booked(book, n)[e] \in Nat
                              /\ Counts(seen, n)[e] \in Nat
         /\ ExcessSum(book, seen, n) \in Nat
<1>1. \A e \in Epochs : Booked(book, n)[e] \in Nat /\ Counts(seen, n)[e] \in Nat
  BY EarnedIsSum, CountsTyped
<1>2. \A e \in Epochs : Excess(book, seen, n)[e] \in Nat
  <2> SUFFICES ASSUME NEW e \in Epochs PROVE Excess(book, seen, n)[e] \in Nat
    OBVIOUS
  <2>1. Excess(book, seen, n)[e] = Over(Booked(book, n)[e], Counts(seen, n)[e])
    BY DEF Excess
  <2> QED BY <1>1, <2>1, OverTyped
<1>3. ExcessSum(book, seen, n) \in Nat
  BY <1>2, EpochsFinite, SumIsNat DEF ExcessSum
<1> QED BY <1>1, <1>2, <1>3

\* More receipts, less excess.
LEMMA ExcessShrinks ==
  ASSUME NEW book \in [Epochs -> Builds], NEW more \in SUBSET Receipts,
         NEW seen \in SUBSET more, NEW n \in Nodes
  PROVE  ExcessSum(book, more, n) <= ExcessSum(book, seen, n)
<1> DEFINE f == Excess(book, more, n)
           g == Excess(book, seen, n)
<1>1. seen \in SUBSET Receipts
  OBVIOUS
<1>2. ASSUME NEW e \in Epochs
      PROVE  f[e] \in Int /\ g[e] \in Int /\ f[e] <= g[e]
  <2> DEFINE held == Booked(book, n)[e]
             many == Counts(more, n)[e]
             few  == Counts(seen, n)[e]
  <2>1. /\ f[e] \in Nat /\ g[e] \in Nat
        /\ held \in Nat /\ many \in Nat /\ few \in Nat
    BY <1>1, ExcessTyped
  <2>2. few <= many
    BY CountsGrow
  <2>3. f[e] = Over(held, many) /\ g[e] = Over(held, few)
    BY DEF Excess
  <2> HIDE DEF f, g, held, many, few
  <2> QED BY <2>1, <2>2, <2>3 DEF Over
<1> HIDE DEF f, g
<1>3. SumFunctionOnSet(f, Epochs) <= SumFunctionOnSet(g, Epochs)
  BY <1>2, EpochsFinite, SumMonotone
<1> QED BY <1>3 DEF f, g, ExcessSum

\* A put changes the excess of its epoch only.
LEMMA ExcessAfterPut ==
  ASSUME NEW book \in [Epochs -> Builds], NEW seen \in SUBSET Receipts,
         NEW n \in Nodes, NEW e \in Epochs, NEW amounts \in [Nodes -> Nat]
  PROVE  ExcessSum(Replaced(book, e, amounts), seen, n)
           = ExcessSum(book, seen, n) - Excess(book, seen, n)[e]
               + Over(amounts[n], Counts(seen, n)[e])
<1> DEFINE put == Replaced(book, e, amounts)
           f == Excess(book, seen, n)
           g == Excess(put, seen, n)
<1>1. /\ put \in [Epochs -> Builds] /\ Booked(put, n)[e] = amounts[n]
      /\ \A d \in Epochs \ {e} : Booked(put, n)[d] = Booked(book, n)[d]
  BY EarnedAfterPut
<1> HIDE DEF put
<1>2. \A d \in Epochs : f[d] \in Int /\ g[d] \in Int
  BY <1>1, ExcessTyped
<1>3. \A d \in Epochs \ {e} : f[d] = g[d]
  BY <1>1 DEF Excess
<1>4. g[e] = Over(amounts[n], Counts(seen, n)[e])
  BY <1>1 DEF Excess
<1> HIDE DEF f, g
<1>5. SumFunctionOnSet(g, Epochs) = SumFunctionOnSet(f, Epochs) - f[e] + g[e]
  BY <1>2, <1>3, EpochsFinite, SumChanges
<1> QED BY <1>4, <1>5 DEF f, g, put, ExcessSum

\* What a node holds is within the excess and the receipts.
LEMMA EarnedWithinExcess ==
  ASSUME NEW book \in [Epochs -> Builds], NEW seen \in SUBSET Receipts,
         NEW n \in Nodes
  PROVE  EarnedIn(book, n) <= ExcessSum(book, seen, n)
                                + Cardinality({r \in seen : NodeOf[r] = n})
<1> DEFINE held   == Booked(book, n)
           excess == Excess(book, seen, n)
           counts == Counts(seen, n)
           both   == [e \in Epochs |-> excess[e] + counts[e]]
           all    == Cardinality({r \in seen : NodeOf[r] = n})
<1>1. ASSUME NEW e \in Epochs
      PROVE  /\ held[e] \in Nat /\ excess[e] \in Nat /\ counts[e] \in Nat
             /\ held[e] <= excess[e] + counts[e]
  <2>1. held[e] \in Nat /\ excess[e] \in Nat /\ counts[e] \in Nat
    BY ExcessTyped
  <2>2. excess[e] = Over(held[e], counts[e])
    BY DEF Excess
  <2> HIDE DEF held, excess, counts
  <2> QED BY <2>1, <2>2, OverTyped
<1>2. EarnedIn(book, n) = SumFunctionOnSet(held, Epochs)
      /\ EarnedIn(book, n) \in Nat
  BY EarnedIsSum
<1>3. SumFunctionOnSet(counts, Epochs) <= all
  BY CountsWithinAll
<1>4. SumFunctionOnSet(counts, Epochs) \in Nat
      /\ SumFunctionOnSet(excess, Epochs) \in Nat
  BY CountsTyped, ExcessTyped DEF ExcessSum
<1>5. all \in Nat
  <2>1. {r \in seen : NodeOf[r] = n} \in SUBSET Receipts
    OBVIOUS
  <2> QED BY <2>1, Constants, FS_Subset, FS_CardinalityType
<1> HIDE DEF held, excess, counts, all
<1>6. \A e \in Epochs : /\ held[e] \in Int /\ both[e] \in Int
                        /\ excess[e] \in Int /\ counts[e] \in Int
                        /\ held[e] <= both[e]
                        /\ both[e] = excess[e] + counts[e]
  <2>1. \A e \in Epochs : both[e] = excess[e] + counts[e]
    OBVIOUS
  <2> HIDE DEF both
  <2> QED BY <1>1, <2>1
<1> HIDE DEF both
<1>7. SumFunctionOnSet(held, Epochs) <= SumFunctionOnSet(both, Epochs)
  BY <1>6, EpochsFinite, SumMonotone
<1>8. SumFunctionOnSet(both, Epochs)
        = SumFunctionOnSet(excess, Epochs) + SumFunctionOnSet(counts, Epochs)
  BY <1>6, EpochsFinite, SumOfSums
<1>9. EarnedIn(book, n) <= SumFunctionOnSet(excess, Epochs) + all
  BY <1>2, <1>3, <1>4, <1>5, <1>7, <1>8
<1> QED BY <1>9 DEF excess, all, ExcessSum

\* The bytes the ledger may hold beyond the receipts: those the cursor has
\* passed, the credit it is about to pass, and the credits it never passed.
\* The file may hold no more: it becomes the ledger when the process restarts.
Settling(n) ==
  IF auto.pc = "cursor" THEN settled[n] + Credit[n] ELSE settled[n]
Bound(n) == Settling(n) + repeatable[n]
CreditInv ==
  \A n \in Nodes : /\ ExcessSum(ledger, ever_received, n) <= Bound(n)
                   /\ ExcessSum(stored, ever_received, n) <= Bound(n)

LEMMA SettlingTyped ==
  ASSUME TypeOK, NEW n \in Nodes
  PROVE  /\ Settling(n) \in Nat /\ repeatable[n] \in Nat /\ Bound(n) \in Nat
         /\ settled[n] \in Nat /\ Credit[n] \in Nat /\ Delta[n] \in Nat
         /\ profile[n] \in Nat /\ Credit[n] <= Delta[n]
         /\ settled[n] + Delta[n] <= profile[n] /\ Settling(n) <= profile[n]
<1>1. /\ settled[n] \in Nat /\ repeatable[n] \in Nat /\ profile[n] \in Nat
      /\ settled[n] <= profile[n]
  BY DEF TypeOK
<1>2. /\ Credit[n] \in Nat /\ Delta[n] \in Nat /\ Credit[n] <= Delta[n]
      /\ settled[n] + Delta[n] <= profile[n]
  <2>1. Credit[n] \in Nat /\ Credit[n] <= Delta[n]
    BY CreditTyped
  <2>2. Delta[n] \in Nat /\ settled[n] + Delta[n] <= profile[n]
    BY DeltaTyped
  <2> QED BY <2>1, <2>2
<1>3. Settling(n) \in {settled[n], settled[n] + Credit[n]}
  BY DEF Settling
<1> HIDE DEF Settling
<1> QED BY <1>1, <1>2, <1>3 DEF Bound

BoundTyped == \A n \in Nodes : Bound(n) \in Nat
LEMMA AllBoundsTyped == TypeOK => BoundTyped
BY SettlingTyped DEF BoundTyped

\* A credit raises the bound by what it credits, whether the cursor is still
\* to be written or never will be; nothing lowers it.
LEMMA BoundStep ==
  ASSUME TypeOK, [Next]_vars, NEW n \in Nodes
  PROVE  /\ Bound(n) <= Bound(n)'
         /\ AutoCredit => Bound(n)' = Bound(n) + Credit[n]
<1> USE DEF othersOfAuto, othersOfHandler, processVars, historyVars
<1>0. /\ Settling(n) \in Nat /\ repeatable[n] \in Nat /\ settled[n] \in Nat
      /\ Credit[n] \in Nat /\ Delta[n] \in Nat /\ Credit[n] <= Delta[n]
      /\ auto \in AutoTask /\ Bound(n) = Settling(n) + repeatable[n]
      /\ Bound(n)' = Settling(n)' + repeatable'[n]
  BY SettlingTyped DEF TypeOK, Bound
<1>1. ASSUME UNCHANGED <<auto, settled, repeatable>>, ~AutoCredit
      PROVE  Bound(n) <= Bound(n)' /\ ~AutoCredit
  <2>1. Settling(n)' = Settling(n)
    BY <1>1 DEF Settling, Credit, Delta
  <2> QED BY <1>0, <1>1, <2>1
<1>2. CASE AutoCredit
  <2>1. /\ auto.pc = "credit" /\ settled' = settled
        /\ \/ auto' = [auto EXCEPT !.pc = "cursor"] /\ repeatable' = repeatable
           \/ auto' = AutoIdle /\ repeatable' = Repeatable
    BY <1>2 DEF AutoCredit, Released
  <2>2. Settling(n) = settled[n]
    BY <2>1 DEF Settling
  <2>3. CASE auto' = [auto EXCEPT !.pc = "cursor"] /\ repeatable' = repeatable
    <3>1. /\ auto'.pc = "cursor" /\ auto'.nodes = auto.nodes
          /\ auto'.profile = auto.profile /\ auto'.cap = auto.cap
      BY <1>0, <2>3 DEF AutoTask
    <3>2. Credit' = Credit
      BY <2>1, <3>1 DEF Credit, Delta
    <3>3. Settling(n)' = settled[n] + Credit[n]
      BY <2>1, <3>1, <3>2 DEF Settling
    <3> QED BY <1>0, <2>2, <2>3, <3>3
  <2>4. CASE auto' = AutoIdle /\ repeatable' = Repeatable
    <3>1. Settling(n)' = settled[n]
      BY <2>1, <2>4 DEF Settling, AutoIdle
    <3>2. repeatable'[n] = repeatable[n] + Credit[n]
      BY <2>4 DEF Repeatable
    <3> QED BY <1>0, <2>2, <3>1, <3>2
  <2> QED BY <2>1, <2>3, <2>4
<1>3. CASE AutoCursor \/ AutoNothing
  <2>1. /\ auto.pc \in {"cursor", "credit"} /\ auto' = AutoIdle
        /\ \/ settled' = NextSettled /\ repeatable' = repeatable
           \/ settled' = settled /\ repeatable' = Repeatable
           \/ UNCHANGED <<settled, repeatable>> /\ auto.pc = "credit"
    BY <1>3 DEF AutoCursor, AutoNothing, CursorMoves, CursorStays, Released
  <2>2. Settling(n)' = settled'[n]
    BY <2>1 DEF Settling, AutoIdle
  <2>3. Settling(n) <= settled[n] + Credit[n]
        /\ (auto.pc = "credit" => Settling(n) = settled[n])
    BY <1>0 DEF Settling
  <2>4. CASE settled' = NextSettled /\ repeatable' = repeatable
    <3>1. settled'[n] = settled[n] + Delta[n]
      BY <2>4, DeltaTyped
    <3> QED BY <1>0, <1>3, <2>1, <2>2, <2>3, <2>4, <3>1 DEF AutoCredit, AutoIdle
  <2>5. CASE settled' = settled /\ repeatable' = Repeatable
    <3>1. repeatable'[n] = repeatable[n] + Credit[n]
      BY <2>5 DEF Repeatable
    <3>2. Bound(n) <= Bound(n)'
      BY <1>0, <2>2, <2>3, <2>5, <3>1
    <3>3. ASSUME AutoCredit PROVE Bound(n)' = Bound(n) + Credit[n]
      BY <1>2, <3>3
    <3> QED BY <3>2, <3>3
  <2>6. CASE UNCHANGED <<settled, repeatable>> /\ auto.pc = "credit"
    <3>1. Bound(n) <= Bound(n)'
      BY <1>0, <2>2, <2>3, <2>6
    <3>2. ASSUME AutoCredit PROVE Bound(n)' = Bound(n) + Credit[n]
      BY <1>2, <3>2
    <3> QED BY <3>1, <3>2
  <2> QED BY <2>1, <2>4, <2>5, <2>6
<1>4. ASSUME AutoStart \/ AutoNodes \/ AutoClaimed \/ AutoOutstanding
               \/ AutoVault \/ AutoError
      PROVE  Bound(n) <= Bound(n)'
  <2>1. /\ auto.pc # "cursor" /\ UNCHANGED <<settled, repeatable>>
    BY <1>4 DEF AutoStart, AutoNodes, AutoClaimed, AutoOutstanding, AutoVault,
                AutoError
  <2>2. auto'.pc # "cursor"
    <3>1. CASE AutoStart
      BY <3>1 DEF AutoStart, AutoIdle
    <3>2. CASE AutoNodes
      <4>1. \/ auto' = [auto EXCEPT !.pc = "claimed", !.nodes = status]
            \/ auto' = AutoIdle
        BY <3>2 DEF AutoNodes
      <4>2. CASE auto' = [auto EXCEPT !.pc = "claimed", !.nodes = status]
        BY <1>0, <4>2 DEF AutoTask
      <4>3. CASE auto' = AutoIdle
        BY <4>3 DEF AutoIdle
      <4> QED BY <4>1, <4>2, <4>3
    <3>3. CASE AutoClaimed
      BY <1>0, <3>3 DEF AutoClaimed, AutoTask
    <3>4. CASE AutoOutstanding
      BY <1>0, <3>4 DEF AutoOutstanding, AutoTask
    <3>5. CASE AutoVault
      BY <1>0, <3>5 DEF AutoVault, AutoTask
    <3>6. CASE AutoError
      BY <3>6 DEF AutoError, Released, AutoIdle
    <3> QED BY <1>4, <3>1, <3>2, <3>3, <3>4, <3>5, <3>6
  <2>3. Settling(n) = settled[n] /\ Settling(n)' = settled[n]
    BY <2>1, <2>2 DEF Settling
  <2> QED BY <1>0, <2>1, <2>3
<1>5. CASE Restart
  <2>1. /\ repeatable' = IF auto.pc = "cursor" THEN Repeatable ELSE repeatable
        /\ auto' = AutoIdle /\ settled' = settled
    BY <1>5 DEF Restart
  <2>2. Settling(n)' = settled[n]
    BY <2>1 DEF Settling, AutoIdle
  <2>3. Bound(n) <= Bound(n)'
    <3>1. CASE auto.pc = "cursor"
      <4>1. repeatable'[n] = repeatable[n] + Credit[n]
        BY <2>1, <3>1 DEF Repeatable
      <4>2. Settling(n) = settled[n] + Credit[n]
        BY <3>1 DEF Settling
      <4> QED BY <1>0, <2>2, <4>1, <4>2
    <3>2. CASE auto.pc # "cursor"
      <4>1. Settling(n) = settled[n] /\ repeatable' = repeatable
        BY <2>1, <3>2 DEF Settling
      <4> QED BY <1>0, <2>2, <4>1
    <3> QED BY <3>1, <3>2
  <2> QED BY <1>2, <2>3
<1>6. CASE ChainNext \/ HandlerNext \/ UNCHANGED vars
  <2>1. UNCHANGED <<auto, settled, repeatable>>
    <3>1. CASE ChainNext
      BY <3>1 DEF ChainNext, Fund, Serve, ClaimLands, ClaimLost,
                  ChangeStatus, ClaimLeaf, PostLands
    <3>2. CASE HandlerNext
      BY <3>2 DEF HandlerNext, CoSign, ReceiptsStart, ReceiptsNodes,
                  ReceiptsError, ReceiptsPut
    <3>3. CASE UNCHANGED vars
      BY <3>3 DEF vars
    <3> QED BY <1>6, <3>1, <3>2, <3>3
  <2> QED BY <1>1, <1>2, <2>1
<1>7. AutoCredit => Bound(n)' = Bound(n) + Credit[n]
  BY <1>2
<1> QED BY <1>2, <1>3, <1>4, <1>5, <1>6, <1>7 DEF Next, AutoNext

\* Replacing an epoch of a book by a build of accepted receipts adds nothing
\* to what the book holds beyond receipts.
LEMMA BuildAddsNoExcess ==
  ASSUME NEW book \in [Epochs -> Builds], NEW seen \in SUBSET Receipts,
         NEW all \in [Receipts -> 0..2],
         \A r \in Receipts : all[r] > 0 => r \in seen,
         NEW e \in Epochs, NEW nodes, NEW n \in Nodes
  PROVE  ExcessSum(Replaced(book, e, Rewards(ReceiptBytes(all, e), nodes)), seen, n)
           <= ExcessSum(book, seen, n)
<1> DEFINE rewards == Rewards(ReceiptBytes(all, e), nodes)
           x       == Excess(book, seen, n)[e]
           counted == Counts(seen, n)[e]
           next    == ExcessSum(Replaced(book, e, rewards), seen, n)
<1>1. rewards \in [Nodes -> Nat]
  BY BuildTyped
<1>2. rewards[n] <= counted
  BY BuildBacked
<1> HIDE DEF rewards
<1>3. x \in Nat /\ counted \in Nat /\ ExcessSum(book, seen, n) \in Nat
  BY ExcessTyped
<1>4. next = ExcessSum(book, seen, n) - x + Over(rewards[n], counted)
  BY <1>1, ExcessAfterPut
<1>5. Over(rewards[n], counted) = 0
  <2>1. rewards[n] \in Nat
    BY <1>1
  <2> HIDE DEF counted
  <2> QED BY <1>2, <1>3, <2>1 DEF Over
<1> HIDE DEF x, next
<1>6. next <= ExcessSum(book, seen, n)
  BY <1>3, <1>4, <1>5
<1> QED BY <1>6 DEF next, rewards

LEMMA CreditStep ==
  TypeOK /\ ReceivedInv /\ CreditInv /\ [Next]_vars => CreditInv'
<1> SUFFICES ASSUME TypeOK, ReceivedInv, CreditInv, [Next]_vars,
                    NEW n \in Nodes
             PROVE  /\ ExcessSum(ledger', ever_received', n) <= Bound(n)'
                    /\ ExcessSum(stored', ever_received', n) <= Bound(n)'
  BY DEF CreditInv
<1>1. TypeOK'
  BY ChainTyped, HandlerTyped, AutoTyped, RestartTyped
     DEF Next, vars, fileVars, chainVars, epochVars, historyVars, TypeOK
<1>2. /\ ever_received \in SUBSET Receipts /\ ever_received' \in SUBSET Receipts
      /\ ever_received \in SUBSET ever_received'
      /\ ledger \in [Epochs -> Builds] /\ ledger' \in [Epochs -> Builds]
      /\ stored \in [Epochs -> Builds] /\ stored' \in [Epochs -> Builds]
  <2>1. ever_received \in SUBSET Receipts /\ ever_received' \in SUBSET Receipts
    BY <1>1 DEF TypeOK
  <2>2. ever_received \in SUBSET ever_received'
    BY ReceivedStep
  <2>3. /\ ledger \in [Epochs -> Builds] /\ ledger' \in [Epochs -> Builds]
        /\ stored \in [Epochs -> Builds] /\ stored' \in [Epochs -> Builds]
    BY <1>1, BooksTyped DEF TypeOK, Builds
  <2> QED BY <2>1, <2>2, <2>3
<1>3. Bound(n) \in Nat /\ Bound(n)' \in Nat /\ Bound(n) <= Bound(n)'
  <2>1. Bound(n)' \in Nat
    <3>1. TypeOK' => BoundTyped'
      BY AllBoundsTyped, PTL
    <3> QED BY <1>1, <3>1 DEF BoundTyped
  <2> QED BY <2>1, SettlingTyped, BoundStep
<1>4. ASSUME NEW book \in {ledger, stored}
      PROVE  /\ book \in [Epochs -> Builds]
             /\ ExcessSum(book, ever_received', n) \in Nat
             /\ ExcessSum(book, ever_received', n) <= Bound(n)
             /\ ExcessSum(book, ever_received', n) <= Bound(n)'
  <2>1. book \in [Epochs -> Builds]
    BY <1>2
  <2>2. /\ ExcessSum(book, ever_received, n) \in Nat
        /\ ExcessSum(book, ever_received', n) \in Nat
    BY <1>2, <2>1, ExcessTyped
  <2>3. ExcessSum(book, ever_received', n) <= ExcessSum(book, ever_received, n)
    BY <1>2, <2>1, ExcessShrinks
  <2>4. ExcessSum(book, ever_received, n) <= Bound(n)
    BY DEF CreditInv
  <2> QED BY <1>3, <2>1, <2>2, <2>3, <2>4
<1>5. CASE UNCHANGED <<ledger, stored, peak, receipts_put>>
  BY <1>4, <1>5
<1>6. CASE AutoCredit
  <2> DEFINE e    == NextEpoch
             x    == Excess(ledger, ever_received', n)[e]
             seen == Counts(ever_received', n)[e]
             over == Over(Credit[n], seen)
             old  == ExcessSum(ledger, ever_received', n)
             new  == ExcessSum(ledger', ever_received', n)
  <2>1. /\ e \in Epochs /\ Booked(ledger, n)[e] = 0
        /\ ledger' = Replaced(ledger, e, Credit)
        /\ stored' \in {stored, ledger'} /\ Credit \in [Nodes -> Nat]
    BY <1>6, CreditAdds
  <2>2. seen \in Nat /\ x = Over(0, seen)
    BY <1>2, <2>1, ExcessTyped DEF Excess
  <2>3. Credit[n] \in Nat
    BY <2>1
  <2>4. x = 0 /\ over \in Nat /\ over <= Credit[n]
    <3> HIDE DEF seen, x
    <3>1. over \in Nat /\ over <= Credit[n]
      BY <2>2, <2>3, OverTyped
    <3>2. x = 0
      BY <2>2 DEF Over
    <3> QED BY <3>1, <3>2
  <2>5. new = old - x + over
    BY <1>2, <2>1, ExcessAfterPut
  <2>6. Bound(n)' = Bound(n) + Credit[n]
    BY <1>6, BoundStep
  <2>7. old \in Nat /\ old <= Bound(n)
    BY <1>4
  <2> HIDE DEF x, over, old, new
  <2>8. new <= Bound(n)'
    BY <1>3, <2>3, <2>4, <2>5, <2>6, <2>7
  <2> QED BY <1>4, <2>1, <2>8 DEF new
<1>7. ASSUME NEW h \in Handlers, ReceiptsPut(h)
      PROVE  /\ ExcessSum(ledger', ever_received', n) <= Bound(n)'
             /\ ExcessSum(stored', ever_received', n) <= Bound(n)'
  <2> DEFINE e == handler[h].epoch
             all == handler[h].all
             new == ExcessSum(ledger', ever_received', n)
  <2>1. /\ e \in Epochs /\ stored' \in {stored, ledger'}
        /\ ledger' = Replaced(ledger, e,
                              Rewards(ReceiptBytes(all, e), handler[h].nodes))
    BY <1>7, ReceiptsPutPuts
  <2>2. /\ all \in [Receipts -> 0..2]
        /\ \A r \in Receipts : all[r] > 0 => r \in ever_received'
    BY <1>2 DEF TypeOK, HandlerTask, ReceivedInv
  <2> HIDE DEF e, all
  <2>3. new <= ExcessSum(ledger, ever_received', n)
    BY <1>2, <2>1, <2>2, BuildAddsNoExcess
  <2>4. new \in Nat
    BY <1>2, ExcessTyped
  <2> HIDE DEF new
  <2>5. new <= Bound(n)'
    BY <1>3, <1>4, <2>3, <2>4
  <2> QED BY <1>4, <2>1, <2>5 DEF new
<1>8. CASE Restart
  <2> DEFINE all == [r \in Receipts |-> IF r \in FileReceipts THEN 1 ELSE 0]
             new == ExcessSum(ledger', ever_received', n)
  <2>1. /\ received' = all
        /\ ledger' \in {stored, Replaced(stored, FileEpoch,
                                 Rewards(ReceiptBytes(all, FileEpoch), status))}
        /\ stored' = ledger' /\ FileEpoch \in Epochs
    <3>1. received' = all
      BY <1>8 DEF Restart
    <3>2. /\ stored' = ledger'
          /\ ledger' \in {stored, Replaced(stored, FileEpoch,
                            Rewards(ReceiptBytes(received', FileEpoch), status))}
      BY <1>8, RestartPuts
    <3> QED BY <3>1, <3>2, Constants
  <2>2. /\ all \in [Receipts -> 0..2]
        /\ \A r \in Receipts : all[r] > 0 => r \in ever_received'
    BY <1>2 DEF ReceivedInv
  <2> HIDE DEF all
  <2>3. ExcessSum(Replaced(stored, FileEpoch,
                    Rewards(ReceiptBytes(all, FileEpoch), status)), ever_received', n)
          <= ExcessSum(stored, ever_received', n)
    BY <1>2, <2>1, <2>2, BuildAddsNoExcess
  <2>4. new \in Nat /\ ExcessSum(stored, ever_received', n) \in Nat
    BY <1>2, ExcessTyped
  <2>5. new <= ExcessSum(stored, ever_received', n)
    BY <2>1, <2>3, <2>4
  <2> HIDE DEF new
  <2>6. new <= Bound(n)'
    BY <1>3, <1>4, <2>4, <2>5
  <2> QED BY <2>1, <2>6 DEF new
<1> QED BY <1>5, <1>6, <1>7, <1>8, LedgerStep

\* A node's ledger total is backed by bytes the relay measured, distinct
\* receipts, and the credits whose own cursor write failed or was cut off by a
\* crash, which are what later passes credit again.
THEOREM CreditAlwaysBacked == Spec => []CreditBacked
<1>1. Init => CreditInv
  <2> SUFFICES ASSUME Init, NEW n \in Nodes
               PROVE  /\ ExcessSum(ledger, ever_received, n) <= Bound(n)
                      /\ ExcessSum(stored, ever_received, n) <= Bound(n)
    BY DEF CreditInv
  <2> DEFINE f == Excess(ledger, ever_received, n)
  <2>1. TypeOK /\ stored = ledger
    BY InitTyped DEF Init
  <2>2. \A e \in Epochs : f[e] = 0
    <3> SUFFICES ASSUME NEW e \in Epochs PROVE f[e] = 0
      OBVIOUS
    <3>1. Booked(ledger, n)[e] = 0
      BY DEF Init, NoBuild, Booked
    <3>2. Counts(ever_received, n)[e] \in Nat
      BY <2>1, CountsTyped DEF TypeOK
    <3>3. f[e] = Over(0, Counts(ever_received, n)[e])
      BY <3>1 DEF Excess
    <3> HIDE DEF f
    <3> QED BY <3>2, <3>3 DEF Over
  <2> HIDE DEF f
  <2>3. SumFunctionOnSet(f, Epochs) = 0
    BY <2>2, EpochsFinite, SumOfZeros
  <2>4. Bound(n) \in Nat
    BY <2>1, SettlingTyped
  <2>5. ExcessSum(ledger, ever_received, n) <= Bound(n)
    BY <2>3, <2>4 DEF f, ExcessSum
  <2> QED BY <2>1, <2>5
<1>2. Spec => []CreditInv
  BY <1>1, CreditStep, ReceivedInvariant, TypeAlwaysCorrect, PTL DEF Spec
<1>3. TypeOK /\ CreditInv => CreditBacked
  <2> SUFFICES ASSUME TypeOK, CreditInv, NEW n \in Nodes
               PROVE  EarnedForNode(n) <= Backing(n) + repeatable[n]
    BY DEF CreditBacked
  <2> DEFINE all == Cardinality({r \in ever_received : NodeOf[r] = n})
             excess == ExcessSum(ledger, ever_received, n)
  <2>1. ever_received \in SUBSET Receipts /\ ledger \in [Epochs -> Builds]
    BY BooksTyped DEF TypeOK
  <2>2. EarnedForNode(n) <= excess + all /\ EarnedForNode(n) \in Nat
    BY <2>1, EarnedWithinExcess, EarnedIsSum DEF EarnedForNode
  <2>3. excess <= Settling(n) + repeatable[n]
    BY DEF CreditInv, Bound
  <2>4. /\ Settling(n) <= profile[n] /\ Settling(n) \in Nat
        /\ profile[n] \in Nat /\ repeatable[n] \in Nat
    BY SettlingTyped
  <2>5. excess \in Nat
    BY <2>1, ExcessTyped
  <2>6. all \in Nat
    <3>1. {r \in ever_received : NodeOf[r] = n} \in SUBSET Receipts
      BY <2>1
    <3> QED BY <3>1, Constants, FS_Subset, FS_CardinalityType
  <2>7. Backing(n) = profile[n] + all
    BY DEF Backing
  <2> HIDE DEF all, excess
  <2> QED BY <2>2, <2>3, <2>4, <2>5, <2>6, <2>7
<1> QED BY <1>2, <1>3, TypeAlwaysCorrect, PTL

-----------------------------------------------------------------------------
(* Passes and receipt builds                                               *)

LEMMA PassStep ==
  ASSUME TypeOK, Next, auto.pc = "credit", NEW e \in Live(ledger)
  PROVE  \/ ledger'[e] = ledger[e]
         \/ handler' # handler \/ restarts' # restarts
<1>0. e \in Epochs /\ e # NextEpoch
  BY NextEpochIsNew DEF Live
<1>1. CASE AutoCredit
  <2>1. ledger' = [ledger EXCEPT ![NextEpoch] = [live |-> TRUE, amount |-> Credit]]
    BY <1>1, CreditAdds DEF Replaced
  <2> QED BY <1>0, <2>1, BooksTyped
<1>2. ASSUME NEW h \in Handlers, ReceiptsPut(h)
      PROVE  handler' # handler
  <2>1. handler[h].pc = "put" /\ handler'[h] = HandlerIdle
    BY <1>2 DEF ReceiptsPut, TypeOK
  <2> QED BY <2>1 DEF HandlerIdle
<1>3. CASE Restart
  BY <1>3 DEF Restart, TypeOK
<1>4. CASE UNCHANGED <<ledger, stored, peak, receipts_put>>
  BY <1>4
<1> QED BY <1>1, <1>2, <1>3, <1>4, LedgerStep

\* A pass opens a new ledger epoch, whatever receipt builds, claims and posts
\* came while it waited for the chain: it never replaces an entry.
THEOREM AutoNeverOverwritesAnything == Spec => AutoNeverOverwrites
<1>1. TypeOK /\ [Next]_vars =>
        [auto.pc = "credit" =>
           \A e \in Live(ledger) :
             \/ ledger'[e] = ledger[e]
             \/ handler' # handler \/ restarts' # restarts]_vars
  BY PassStep
<1> QED BY <1>1, TypeAlwaysCorrect, PTL DEF Spec, AutoNeverOverwrites
=============================================================================
