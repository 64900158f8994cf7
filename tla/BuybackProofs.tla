--------------------------- MODULE BuybackProofs ---------------------------
(***************************************************************************)
(* The buyback worker for every value of the constants: its types, that    *)
(* the published totals never shrink, and that they never claim more than  *)
(* happened on the chain.                                                  *)
(***************************************************************************)
EXTENDS Buyback, SumTheorems

\* The nodes' share of a balance is a part of it.
LEMMA NodeSharePart ==
  ASSUME NEW balance \in Nat
  PROVE  NodeShare(balance) \in Nat /\ balance - NodeShare(balance) \in Nat
<1> DEFINE p == balance * NodeBps
           q == p \div 10000
<1>1. NodeBps \in 0..10000
  BY BuybackAssumption
<1>2. p \in Nat /\ p <= balance * 10000
  <2>1. ASSUME NEW m \in 0..10000
        PROVE  balance * m \in Nat /\ balance * m <= balance * 10000
    OBVIOUS
  <2> QED BY <1>1, <2>1
<1>3. q \in Nat /\ 10000 * q <= p
  <2> HIDE DEF p
  <2> QED BY <1>2
<1>4. q <= balance
  <2> HIDE DEF p, q
  <2> QED BY <1>2, <1>3
<1>5. balance - q \in Nat
  <2> HIDE DEF q
  <2> QED BY <1>3, <1>4
<1> QED BY <1>3, <1>5 DEF NodeShare

\* What may be spent is an amount when it is worth a swap.
LEMMA SpendableNat ==
  ASSUME sol \in Nat, Spendable >= MinBuy
  PROVE  Spendable \in Nat
BY BuybackAssumption DEF Spendable, Smaller

LEMMA CycleSteps ==
  ASSUME cycle \in [Cycles -> CycleRecord], NEW c \in Cycles
  PROVE  /\ Ends(c) => cycle' \in [Cycles -> CycleRecord]
         /\ \A pc \in {"swapped", "split", "burned"} :
              At(c, pc) => cycle' \in [Cycles -> CycleRecord]
         /\ Abandoned(cycle[c]) \in CycleRecord
<1>1. Ends(c) => cycle' \in [Cycles -> CycleRecord]
  <2>1. Idle \in CycleRecord
    BY DEF Idle, CycleRecord
  <2> QED BY <2>1 DEF Ends
<1>2. ASSUME NEW pc \in {"swapped", "split", "burned"}, At(c, pc)
      PROVE  cycle' \in [Cycles -> CycleRecord]
  <2>1. [cycle[c] EXCEPT !.pc = pc] \in CycleRecord
    BY DEF CycleRecord
  <2>2. cycle' = [cycle EXCEPT ![c] = [cycle[c] EXCEPT !.pc = pc]]
    BY <1>2 DEF At
  <2> QED BY <2>1, <2>2
<1>3. Abandoned(cycle[c]) \in CycleRecord
  <2>1. cycle[c] \in CycleRecord
    OBVIOUS
  <2>2. /\ [cycle[c] EXCEPT !.pc = "late swap"] \in CycleRecord
        /\ [cycle[c] EXCEPT !.pc = "late split"] \in CycleRecord
        /\ Idle \in CycleRecord
    BY <2>1 DEF CycleRecord, Idle
  <2> QED BY <2>1, <2>2 DEF Abandoned
<1> QED BY <1>1, <1>2, <1>3

\* The totals in the file are never ahead of those in memory.
FileBehind ==
  /\ file.burned <= store.burned
  /\ file.toNodes <= store.toNodes
  /\ file.solSpent <= store.solSpent
Inv == TypeOK /\ FileBehind

LEMMA InitInv == Init => Inv
<1> SUFFICES ASSUME Init PROVE Inv
  OBVIOUS
<1>1. Fresh \in Totals /\ Idle \in CycleRecord
  BY DEF Fresh, Totals, Idle, CycleRecord
<1>2. /\ cycle \in [Cycles -> CycleRecord] /\ store \in Totals
      /\ file \in Totals
  BY <1>1 DEF Init
<1>3. FileBehind
  BY DEF Init, FileBehind, Fresh
<1>4. /\ funded \in 0..Sol /\ donated \in 0..Donations
      /\ faults \in 0..MaxFaults /\ restarts \in 0..MaxRestarts
  BY BuybackAssumption DEF Init
<1> QED BY <1>2, <1>3, <1>4 DEF Init, Inv, TypeOK

LEMMA BuyingStep ==
  ASSUME Inv, NEW c \in Cycles, Start(c) \/ SwapLands(c) \/ SwapConfirmed(c)
  PROVE  Inv'
<1> USE DEF Inv, TypeOK, FileBehind
<1>1. CASE Start(c)
  <2>1. CASE /\ Spendable >= MinBuy
             /\ cycle' = [cycle EXCEPT ![c] =
                            [Idle EXCEPT !.pc = "swapping", !.buy = Spendable]]
    <3>1. Spendable \in Nat
      BY <2>1, SpendableNat
    <3>2. [Idle EXCEPT !.pc = "swapping", !.buy = Spendable] \in CycleRecord
      BY <3>1 DEF Idle, CycleRecord
    <3> QED BY <1>1, <2>1, <3>2 DEF Start, chainVars, boundVars
  <2>2. CASE SkipsBuy(c)
    BY <1>1, <2>2, CycleSteps DEF Start, SkipsBuy, chainVars, boundVars
  <2> QED BY <1>1, <2>1, <2>2 DEF Start
<1>2. CASE SwapLands(c)
  <2>1. cycle[c].buy \in Nat
    BY DEF CycleRecord
  <2>2. PICK rate \in Rates : weft' = weft + rate * cycle[c].buy
    BY <1>2 DEF SwapLands
  <2>3. weft' \in Nat
    <3>1. rate \in Nat
      BY BuybackAssumption
    <3>2. rate * cycle[c].buy \in Nat
      BY <2>1, <3>1
    <3> QED BY <2>2, <3>2
  <2>4. sol' \in Nat /\ spent' \in Nat
    <3>1. /\ cycle[c].buy <= sol /\ sol' = sol - cycle[c].buy
          /\ spent' = spent + cycle[c].buy
      BY <1>2 DEF SwapLands
    <3>2. sol \in Nat /\ spent \in Nat
      OBVIOUS
    <3> QED BY <2>1, <3>1, <3>2
  <2>5. cycle' \in [Cycles -> CycleRecord]
    BY <1>2, CycleSteps DEF SwapLands
  <2> QED BY <1>2, <2>3, <2>4, <2>5 DEF SwapLands, boundVars
<1>3. CASE SwapConfirmed(c)
  <2>1. cycle' \in [Cycles -> CycleRecord]
    BY <1>3, CycleSteps DEF SwapConfirmed
  <2>2. cycle[c].buy \in Nat
    BY DEF CycleRecord
  <2>3. /\ store' \in Totals /\ store'.burned = store.burned
        /\ store'.toNodes = store.toNodes
        /\ store'.solSpent = store.solSpent + cycle[c].buy
    <3>1. store' = [store EXCEPT !.solSpent = @ + cycle[c].buy]
      BY <1>3 DEF SwapConfirmed
    <3> QED BY <2>2, <3>1 DEF Totals
  <2>4. file' = file /\ file \in Totals
    BY <1>3 DEF SwapConfirmed
  <2>5. FileBehind'
    BY <2>2, <2>3, <2>4 DEF Totals
  <2> QED BY <1>3, <2>1, <2>3, <2>4, <2>5
          DEF SwapConfirmed, chainVars, boundVars
<1> QED BY <1>1, <1>2, <1>3

LEMMA SplittingStep ==
  ASSUME Inv, NEW c \in Cycles, ReadWeft(c) \/ SplitLands(c) \/ SplitConfirmed(c)
  PROVE  Inv'
<1> USE DEF Inv, TypeOK, FileBehind
<1>1. CASE ReadWeft(c)
  <2>1. CASE Ends(c)
    BY <1>1, <2>1, CycleSteps DEF ReadWeft, chainVars, boundVars
  <2>2. CASE cycle' = [cycle EXCEPT ![c] =
               [Idle EXCEPT !.pc = "splitting", !.nodes = NodeShare(weft),
                            !.burn = weft - NodeShare(weft)]]
    <3>1. NodeShare(weft) \in Nat /\ weft - NodeShare(weft) \in Nat
      BY NodeSharePart
    <3>2. [Idle EXCEPT !.pc = "splitting", !.nodes = NodeShare(weft),
                       !.burn = weft - NodeShare(weft)] \in CycleRecord
      BY <3>1 DEF Idle, CycleRecord
    <3> QED BY <1>1, <2>2, <3>2 DEF ReadWeft, chainVars, boundVars
  <2> QED BY <1>1, <2>1, <2>2 DEF ReadWeft
<1>2. CASE SplitLands(c)
  <2>1. cycle[c].burn \in Nat /\ cycle[c].nodes \in Nat
    BY DEF CycleRecord
  <2>2. weft' \in Nat /\ burned' \in Nat /\ to_nodes' \in Nat
    <3>1. /\ cycle[c].nodes + cycle[c].burn <= weft
          /\ weft' = weft - (cycle[c].nodes + cycle[c].burn)
          /\ burned' = burned + cycle[c].burn
          /\ to_nodes' = to_nodes + cycle[c].nodes
      BY <1>2 DEF SplitLands
    <3>2. weft \in Nat /\ burned \in Nat /\ to_nodes \in Nat
      OBVIOUS
    <3> QED BY <2>1, <3>1, <3>2
  <2>3. cycle' \in [Cycles -> CycleRecord]
    BY <1>2, CycleSteps DEF SplitLands
  <2> QED BY <1>2, <2>2, <2>3 DEF SplitLands, boundVars
<1>3. CASE SplitConfirmed(c)
  <2>1. cycle[c].burn \in Nat /\ cycle[c].nodes \in Nat
    BY DEF CycleRecord
  <2>2. store' \in Totals
    <3>1. store' = [store EXCEPT !.burned = @ + cycle[c].burn,
                                 !.toNodes = @ + cycle[c].nodes]
      BY <1>3 DEF SplitConfirmed
    <3>2. /\ store.burned + cycle[c].burn \in Nat
          /\ store.toNodes + cycle[c].nodes \in Nat
      BY <2>1 DEF Totals
    <3> QED BY <3>1, <3>2 DEF Totals
  <2>3. file' = store'
    BY <1>3 DEF SplitConfirmed, Written
  <2>4. cycle' \in [Cycles -> CycleRecord]
    BY <1>3, CycleSteps DEF SplitConfirmed
  <2>5. FileBehind'
    BY <2>2, <2>3 DEF Totals
  <2> QED BY <1>3, <2>2, <2>3, <2>4, <2>5
          DEF SplitConfirmed, chainVars, boundVars
<1> QED BY <1>1, <1>2, <1>3

LEMMA OtherStep ==
  ASSUME Inv,
         \/ \E c \in Cycles : Refused(c) \/ Expires(c) \/ GivesUp(c)
         \/ Restart \/ Fund \/ Donate
  PROVE  Inv'
<1> USE DEF Inv, TypeOK, FileBehind
<1>1. ASSUME NEW c \in Cycles, Refused(c) \/ Expires(c)
      PROVE  Inv'
  BY <1>1, CycleSteps DEF Refused, Expires, chainVars, boundVars
<1>2. ASSUME NEW c \in Cycles, GivesUp(c)
      PROVE  Inv'
  <2>1. cycle' = [cycle EXCEPT ![c] = Abandoned(cycle[c])]
    BY <1>2 DEF GivesUp
  <2>2. cycle' \in [Cycles -> CycleRecord]
    BY <2>1, CycleSteps
  <2>3. faults' \in 0..MaxFaults
    <3>1. faults < MaxFaults /\ faults' = faults + 1
      BY <1>2 DEF GivesUp, Fault
    <3>2. faults \in 0..MaxFaults /\ MaxFaults \in Nat
      BY BuybackAssumption
    <3> QED BY <3>1, <3>2
  <2> QED BY <1>2, <2>2, <2>3 DEF GivesUp, chainVars
<1>3. CASE Restart
  <2>1. cycle' \in [Cycles -> CycleRecord]
    BY <1>3, CycleSteps DEF Restart
  <2>2. store' = file /\ file' = file /\ restarts' \in 0..MaxRestarts
    BY <1>3, BuybackAssumption DEF Restart
  <2>3. FileBehind'
    BY <2>2 DEF Totals
  <2> QED BY <1>3, <2>1, <2>2, <2>3 DEF Restart, chainVars
<1>4. CASE Fund
  BY <1>4, BuybackAssumption DEF Fund
<1>5. CASE Donate
  BY <1>5, BuybackAssumption DEF Donate
<1> QED BY <1>1, <1>2, <1>3, <1>4, <1>5

LEMMA InvStep == Inv /\ [Next]_vars => Inv'
<1>1. Inv /\ UNCHANGED vars => Inv'
  BY DEF Inv, TypeOK, FileBehind, vars, chainVars, boundVars
<1> QED BY <1>1, BuyingStep, SplittingStep, OtherStep DEF Next, Goes

\* The types and the order of the two totals hold in every reachable state.
THEOREM InvAlways == Spec => []Inv
BY InitInv, InvStep, PTL DEF Spec

\* Every variable of the worker has its type: no swap or split overdraws the
\* wallet, however many cycles act on one balance.
THEOREM BuybackType == Spec => []TypeOK
<1>1. Inv => TypeOK
  BY DEF Inv
<1> QED BY <1>1, InvAlways, PTL

\* The public lifetime totals never regress, whichever cycle writes the file
\* last and wherever a crash comes.
THEOREM TotalsNeverShrink == Spec => TotalsNeverRegress
<1> DEFINE Grows == /\ file'.burned >= file.burned
                    /\ file'.toNodes >= file.toNodes
                    /\ file'.solSpent >= file.solSpent
<1>1. Inv /\ [Next]_vars => [Grows]_vars
  <2> SUFFICES ASSUME Inv, Next PROVE Grows
    OBVIOUS
  <2>0. file \in Totals /\ store \in Totals /\ FileBehind
    BY DEF Inv, TypeOK
  <2>1. ASSUME NEW c \in Cycles, SplitConfirmed(c)
        PROVE  Grows
    <3>1. file' = [store EXCEPT !.burned = @ + cycle[c].burn,
                                !.toNodes = @ + cycle[c].nodes]
      BY <2>1 DEF SplitConfirmed, Written
    <3>2. cycle[c].burn \in Nat /\ cycle[c].nodes \in Nat
      BY DEF Inv, TypeOK, CycleRecord
    <3> QED BY <2>0, <3>1, <3>2 DEF FileBehind, Totals
  <2>2. CASE UNCHANGED file
    BY <2>0, <2>2 DEF Totals
  <2>3. UNCHANGED file \/ \E c \in Cycles : SplitConfirmed(c)
    BY DEF Next, Goes, Start, SwapLands, SwapConfirmed, ReadWeft, SplitLands,
           Refused, Expires, GivesUp, Restart, Fund, Donate
  <2> QED BY <2>1, <2>2, <2>3
<1> QED BY <1>1, InvAlways, PTL DEF Spec, TotalsNeverRegress

-----------------------------------------------------------------------------
(* The totals and the chain                                                *)

\* What each cycle has done on the chain and not booked yet.
SolUnbooked ==
  [c \in Cycles |-> IF cycle[c].pc = "swapped" THEN cycle[c].buy ELSE 0]
BurnUnbooked ==
  [c \in Cycles |-> IF cycle[c].pc = "burned" THEN cycle[c].burn ELSE 0]
NodesUnbooked ==
  [c \in Cycles |-> IF cycle[c].pc = "burned" THEN cycle[c].nodes ELSE 0]

\* The chain is ahead of the totals in memory at least by what the cycles
\* still have to book; without them a confirmation could overtake the chain.
ChainAhead ==
  /\ store.solSpent + SumFunctionOnSet(SolUnbooked, Cycles) <= spent
  /\ store.burned + SumFunctionOnSet(BurnUnbooked, Cycles) <= burned
  /\ store.toNodes + SumFunctionOnSet(NodesUnbooked, Cycles) <= to_nodes

\* What is unbooked are amounts, and so are their sums.
LEMMA UnbookedAmounts ==
  ASSUME cycle \in [Cycles -> CycleRecord]
  PROVE  /\ SolUnbooked \in [Cycles -> Nat]
         /\ BurnUnbooked \in [Cycles -> Nat]
         /\ NodesUnbooked \in [Cycles -> Nat]
         /\ SumFunctionOnSet(SolUnbooked, Cycles) \in Nat
         /\ SumFunctionOnSet(BurnUnbooked, Cycles) \in Nat
         /\ SumFunctionOnSet(NodesUnbooked, Cycles) \in Nat
<1>1. /\ SolUnbooked \in [Cycles -> Nat]
      /\ BurnUnbooked \in [Cycles -> Nat]
      /\ NodesUnbooked \in [Cycles -> Nat]
  BY DEF SolUnbooked, BurnUnbooked, NodesUnbooked, CycleRecord
<1>2. /\ \A c \in Cycles : SolUnbooked[c] \in Nat
      /\ \A c \in Cycles : BurnUnbooked[c] \in Nat
      /\ \A c \in Cycles : NodesUnbooked[c] \in Nat
  BY <1>1
<1>3. SumFunctionOnSet(SolUnbooked, Cycles) \in Nat
  BY <1>2, SumIsNat, BuybackAssumption
<1>4. SumFunctionOnSet(BurnUnbooked, Cycles) \in Nat
  BY <1>2, SumIsNat, BuybackAssumption
<1>5. SumFunctionOnSet(NodesUnbooked, Cycles) \in Nat
  BY <1>2, SumIsNat, BuybackAssumption
<1> QED BY <1>1, <1>3, <1>4, <1>5

\* A step of one cycle changes the sums by that cycle's share.
LEMMA UnbookedChanges ==
  ASSUME cycle \in [Cycles -> CycleRecord], cycle' \in [Cycles -> CycleRecord],
         NEW c \in Cycles, \A d \in Cycles \ {c} : cycle'[d] = cycle[d]
  PROVE  /\ SumFunctionOnSet(SolUnbooked, Cycles)'
              = SumFunctionOnSet(SolUnbooked, Cycles)
                  - SolUnbooked[c] + SolUnbooked'[c]
         /\ SumFunctionOnSet(BurnUnbooked, Cycles)'
              = SumFunctionOnSet(BurnUnbooked, Cycles)
                  - BurnUnbooked[c] + BurnUnbooked'[c]
         /\ SumFunctionOnSet(NodesUnbooked, Cycles)'
              = SumFunctionOnSet(NodesUnbooked, Cycles)
                  - NodesUnbooked[c] + NodesUnbooked'[c]
<1>1. /\ SolUnbooked' \in [Cycles -> Nat]
      /\ BurnUnbooked' \in [Cycles -> Nat]
      /\ NodesUnbooked' \in [Cycles -> Nat]
  BY DEF SolUnbooked, BurnUnbooked, NodesUnbooked, CycleRecord
<1>2. \A d \in Cycles :
        /\ SolUnbooked[d] \in Int /\ SolUnbooked'[d] \in Int
        /\ BurnUnbooked[d] \in Int /\ BurnUnbooked'[d] \in Int
        /\ NodesUnbooked[d] \in Int /\ NodesUnbooked'[d] \in Int
  BY <1>1, UnbookedAmounts
<1>3. \A d \in Cycles \ {c} :
        /\ SolUnbooked[d] = SolUnbooked'[d]
        /\ BurnUnbooked[d] = BurnUnbooked'[d]
        /\ NodesUnbooked[d] = NodesUnbooked'[d]
  BY DEF SolUnbooked, BurnUnbooked, NodesUnbooked
<1>4. IsFiniteSet(Cycles)
  BY BuybackAssumption
<1>5. SumFunctionOnSet(SolUnbooked', Cycles)
        = SumFunctionOnSet(SolUnbooked, Cycles)
            - SolUnbooked[c] + SolUnbooked'[c]
  <2>1. \A d \in Cycles : SolUnbooked[d] \in Int /\ SolUnbooked'[d] \in Int
    BY <1>2
  <2>2. \A d \in Cycles \ {c} : SolUnbooked[d] = SolUnbooked'[d]
    BY <1>3
  <2> QED BY <1>4, <2>1, <2>2, SumChanges
<1>6. SumFunctionOnSet(BurnUnbooked', Cycles)
        = SumFunctionOnSet(BurnUnbooked, Cycles)
            - BurnUnbooked[c] + BurnUnbooked'[c]
  BY <1>2, <1>3, <1>4, SumChanges
<1>7. SumFunctionOnSet(NodesUnbooked', Cycles)
        = SumFunctionOnSet(NodesUnbooked, Cycles)
            - NodesUnbooked[c] + NodesUnbooked'[c]
  BY <1>2, <1>3, <1>4, SumChanges
<1> QED BY <1>5, <1>6, <1>7

\* What is given up is not waiting to be booked.
LEMMA AbandonedBooksNothing ==
  ASSUME NEW record \in CycleRecord
  PROVE  Abandoned(record).pc \notin {"swapped", "burned"}
<1>1. /\ [record EXCEPT !.pc = "late swap"].pc = "late swap"
      /\ [record EXCEPT !.pc = "late split"].pc = "late split"
      /\ Idle.pc = "idle"
  BY DEF CycleRecord, Idle
<1> QED BY <1>1 DEF Abandoned

\* A cycle that ends, gives up or goes to another stage without booking.
LEMMA NothingBooked ==
  ASSUME Inv, Inv', ChainAhead, NEW c \in Cycles,
         \A d \in Cycles \ {c} : cycle'[d] = cycle[d],
         cycle'[c].pc \notin {"swapped", "burned"},
         UNCHANGED <<store, spent, burned, to_nodes>>
  PROVE  ChainAhead'
<1>1. /\ SolUnbooked'[c] = 0 /\ BurnUnbooked'[c] = 0
      /\ NodesUnbooked'[c] = 0
  BY DEF SolUnbooked, BurnUnbooked, NodesUnbooked
<1>2. /\ SolUnbooked[c] \in Nat /\ BurnUnbooked[c] \in Nat
      /\ NodesUnbooked[c] \in Nat
  BY UnbookedAmounts DEF Inv, TypeOK
<1>3. store \in Totals /\ {spent, burned, to_nodes} \subseteq Nat
  BY DEF Inv, TypeOK
<1> QED BY <1>1, <1>2, <1>3, UnbookedAmounts, UnbookedChanges
        DEF ChainAhead, Inv, TypeOK, Totals

\* Landing adds to the chain what the cycle then has to book, and booking
\* moves it to the totals.
LEMMA LandsOrBooks ==
  ASSUME Inv, Inv', ChainAhead, NEW c \in Cycles,
         SwapLands(c) \/ SwapConfirmed(c) \/ SplitLands(c) \/ SplitConfirmed(c)
  PROVE  ChainAhead'
<1> DEFINE sols  == SumFunctionOnSet(SolUnbooked, Cycles)
           burns == SumFunctionOnSet(BurnUnbooked, Cycles)
           nodes == SumFunctionOnSet(NodesUnbooked, Cycles)
<1>1. /\ cycle \in [Cycles -> CycleRecord] /\ cycle' \in [Cycles -> CycleRecord]
      /\ store \in Totals /\ {spent, burned, to_nodes} \subseteq Nat
  BY DEF Inv, TypeOK
<1>2. /\ cycle[c].buy \in Nat /\ cycle[c].burn \in Nat
      /\ cycle[c].nodes \in Nat
      /\ store.solSpent \in Nat /\ store.burned \in Nat
      /\ store.toNodes \in Nat
  BY <1>1 DEF CycleRecord, Totals
<1>3. /\ \A d \in Cycles \ {c} : cycle'[d] = cycle[d]
      /\ cycle'[c] = Idle \/ \E pc \in {"swapped", "split", "burned"} :
           cycle'[c] = [cycle[c] EXCEPT !.pc = pc]
  BY <1>1 DEF SwapLands, SwapConfirmed, SplitLands, SplitConfirmed, At, Ends
<1>4. /\ sols' = sols - SolUnbooked[c] + SolUnbooked'[c]
      /\ burns' = burns - BurnUnbooked[c] + BurnUnbooked'[c]
      /\ nodes' = nodes - NodesUnbooked[c] + NodesUnbooked'[c]
  BY <1>1, <1>3, UnbookedChanges
<1>5. sols \in Nat /\ burns \in Nat /\ nodes \in Nat
  BY <1>1, UnbookedAmounts
<1>6. /\ store.solSpent + sols <= spent
      /\ store.burned + burns <= burned
      /\ store.toNodes + nodes <= to_nodes
  BY DEF ChainAhead
<1>7. SUFFICES /\ store'.solSpent + sols' <= spent'
               /\ store'.burned + burns' <= burned'
               /\ store'.toNodes + nodes' <= to_nodes'
  BY DEF ChainAhead
<1> HIDE DEF sols, burns, nodes
<1>8. CASE SwapLands(c)
  <2>1. /\ spent' = spent + cycle[c].buy
        /\ UNCHANGED <<burned, to_nodes, store>>
    BY <1>8 DEF SwapLands
  <2>2. cycle[c].pc \in {"swapping", "late swap"}
    BY <1>8 DEF SwapLands
  <2>3. \/ cycle'[c] = [cycle[c] EXCEPT !.pc = "swapped"]
        \/ cycle'[c] = Idle
    BY <1>1, <1>8 DEF SwapLands, At, Ends
  <2>4. /\ cycle'[c].pc \in {"swapped", "idle"}
        /\ cycle'[c].pc = "swapped" => cycle'[c].buy = cycle[c].buy
    <3>1. cycle[c] \in CycleRecord /\ Idle.pc = "idle"
      BY <1>1 DEF Idle
    <3>2. CASE cycle'[c] = [cycle[c] EXCEPT !.pc = "swapped"]
      BY <3>1, <3>2 DEF CycleRecord
    <3> QED BY <2>3, <3>1, <3>2
  <2>5. /\ SolUnbooked[c] = 0 /\ SolUnbooked'[c] \in {0, cycle[c].buy}
        /\ BurnUnbooked[c] = 0 /\ BurnUnbooked'[c] = 0
        /\ NodesUnbooked[c] = 0 /\ NodesUnbooked'[c] = 0
    BY <2>2, <2>4 DEF SolUnbooked, BurnUnbooked, NodesUnbooked
  <2> QED BY <1>1, <1>2, <1>4, <1>5, <1>6, <2>1, <2>5
<1>9. CASE SwapConfirmed(c)
  <2>1. /\ store'.solSpent = store.solSpent + cycle[c].buy
        /\ store'.burned = store.burned /\ store'.toNodes = store.toNodes
        /\ UNCHANGED <<spent, burned, to_nodes>>
    BY <1>1, <1>9 DEF SwapConfirmed, chainVars, Totals
  <2>2. cycle[c].pc = "swapped" /\ cycle'[c].pc = "split"
    BY <1>1, <1>9 DEF SwapConfirmed, At, CycleRecord
  <2>3. /\ SolUnbooked[c] = cycle[c].buy /\ SolUnbooked'[c] = 0
        /\ BurnUnbooked[c] = 0 /\ BurnUnbooked'[c] = 0
        /\ NodesUnbooked[c] = 0 /\ NodesUnbooked'[c] = 0
    BY <2>2 DEF SolUnbooked, BurnUnbooked, NodesUnbooked
  <2> QED BY <1>1, <1>2, <1>4, <1>5, <1>6, <2>1, <2>3
<1>10. CASE SplitLands(c)
  <2>1. /\ burned' = burned + cycle[c].burn
        /\ to_nodes' = to_nodes + cycle[c].nodes
        /\ UNCHANGED <<spent, store>>
    BY <1>10 DEF SplitLands
  <2>2. cycle[c].pc \in {"splitting", "late split"}
    BY <1>10 DEF SplitLands
  <2>3. \/ cycle'[c] = [cycle[c] EXCEPT !.pc = "burned"]
        \/ cycle'[c] = Idle
    BY <1>1, <1>10 DEF SplitLands, At, Ends
  <2>4. /\ cycle'[c].pc \in {"burned", "idle"}
        /\ cycle'[c].pc = "burned" => /\ cycle'[c].burn = cycle[c].burn
                                      /\ cycle'[c].nodes = cycle[c].nodes
    <3>1. cycle[c] \in CycleRecord /\ Idle.pc = "idle"
      BY <1>1 DEF Idle
    <3>2. CASE cycle'[c] = [cycle[c] EXCEPT !.pc = "burned"]
      BY <3>1, <3>2 DEF CycleRecord
    <3> QED BY <2>3, <3>1, <3>2
  <2>5. /\ SolUnbooked[c] = 0 /\ SolUnbooked'[c] = 0
        /\ BurnUnbooked[c] = 0 /\ BurnUnbooked'[c] \in {0, cycle[c].burn}
        /\ NodesUnbooked[c] = 0 /\ NodesUnbooked'[c] \in {0, cycle[c].nodes}
    BY <2>2, <2>4 DEF SolUnbooked, BurnUnbooked, NodesUnbooked
  <2> QED BY <1>1, <1>2, <1>4, <1>5, <1>6, <2>1, <2>5
<1>11. CASE SplitConfirmed(c)
  <2>1. /\ store'.burned = store.burned + cycle[c].burn
        /\ store'.toNodes = store.toNodes + cycle[c].nodes
        /\ store'.solSpent = store.solSpent
        /\ UNCHANGED <<spent, burned, to_nodes>>
    BY <1>1, <1>11 DEF SplitConfirmed, chainVars, Totals
  <2>2. cycle[c].pc = "burned" /\ cycle'[c].pc = "idle"
    BY <1>1, <1>11 DEF SplitConfirmed, Confirmed, Ends, Idle
  <2>3. /\ SolUnbooked[c] = 0 /\ SolUnbooked'[c] = 0
        /\ BurnUnbooked[c] = cycle[c].burn /\ BurnUnbooked'[c] = 0
        /\ NodesUnbooked[c] = cycle[c].nodes /\ NodesUnbooked'[c] = 0
    BY <2>2 DEF SolUnbooked, BurnUnbooked, NodesUnbooked
  <2> QED BY <1>1, <1>2, <1>4, <1>5, <1>6, <2>1, <2>3
<1> QED BY <1>8, <1>9, <1>10, <1>11

LEMMA ChainAheadStep == Inv /\ Inv' /\ ChainAhead /\ [Next]_vars => ChainAhead'
<1> SUFFICES ASSUME Inv, Inv', ChainAhead, [Next]_vars PROVE ChainAhead'
  OBVIOUS
<1>0. cycle \in [Cycles -> CycleRecord]
  BY DEF Inv, TypeOK
<1>1. ASSUME NEW c \in Cycles,
             Start(c) \/ ReadWeft(c) \/ Refused(c) \/ Expires(c) \/ GivesUp(c)
      PROVE  ChainAhead'
  <2>1. \A d \in Cycles \ {c} : cycle'[d] = cycle[d]
    BY <1>0, <1>1 DEF Start, SkipsBuy, ReadWeft, Refused, Expires, GivesUp, At, Ends
  <2>2. cycle'[c].pc \notin {"swapped", "burned"}
    <3>1. CASE Start(c)
      BY <1>0, <3>1 DEF Start, SkipsBuy, At, Idle, CycleRecord
    <3>2. CASE ReadWeft(c)
      <4>1. CASE Ends(c)
        BY <1>0, <4>1 DEF Ends, Idle
      <4>2. ASSUME NEW nodes, NEW burn,
                   cycle' = [cycle EXCEPT ![c] =
                     [Idle EXCEPT !.pc = "splitting", !.nodes = nodes,
                                  !.burn = burn]]
            PROVE  cycle'[c].pc \notin {"swapped", "burned"}
        BY <1>0, <4>2 DEF Idle
      <4> QED BY <3>2, <4>1, <4>2 DEF ReadWeft
    <3>3. CASE Refused(c) \/ Expires(c)
      <4>1. cycle'[c] = Idle
        BY <1>0, <3>3 DEF Refused, Expires, Ends
      <4> QED BY <4>1 DEF Idle
    <3>4. CASE GivesUp(c)
      <4>1. cycle'[c] = Abandoned(cycle[c]) /\ cycle[c] \in CycleRecord
        BY <1>0, <3>4 DEF GivesUp
      <4> QED BY <4>1, AbandonedBooksNothing
    <3> QED BY <1>1, <3>1, <3>2, <3>3, <3>4
  <2>3. UNCHANGED <<store, spent, burned, to_nodes>>
    BY <1>1 DEF Start, ReadWeft, Refused, Expires, GivesUp, chainVars
  <2> QED BY <2>1, <2>2, <2>3, NothingBooked
<1>2. CASE Restart
  <2>1. \A c \in Cycles : cycle'[c].pc \notin {"swapped", "burned"}
    <3> SUFFICES ASSUME NEW c \in Cycles
                 PROVE  cycle'[c].pc \notin {"swapped", "burned"}
      OBVIOUS
    <3>1. cycle'[c] = Abandoned(cycle[c]) /\ cycle[c] \in CycleRecord
      BY <1>0, <1>2 DEF Restart
    <3> QED BY <3>1, AbandonedBooksNothing
  <2>2. /\ \A c \in Cycles : SolUnbooked'[c] = 0
        /\ \A c \in Cycles : BurnUnbooked'[c] = 0
        /\ \A c \in Cycles : NodesUnbooked'[c] = 0
    BY <2>1 DEF SolUnbooked, BurnUnbooked, NodesUnbooked
  <2>3. /\ SumFunctionOnSet(SolUnbooked', Cycles) = 0
        /\ SumFunctionOnSet(BurnUnbooked', Cycles) = 0
        /\ SumFunctionOnSet(NodesUnbooked', Cycles) = 0
    BY <2>2, SumOfZeros, BuybackAssumption
  <2>4. /\ store' = file /\ FileBehind
        /\ UNCHANGED <<spent, burned, to_nodes>>
    BY <1>2 DEF Restart, chainVars, Inv
  <2>5. /\ store \in Totals /\ file \in Totals
        /\ {spent, burned, to_nodes} \subseteq Nat
    BY DEF Inv, TypeOK
  <2> QED BY <1>0, <2>3, <2>4, <2>5, UnbookedAmounts
          DEF ChainAhead, FileBehind, Totals
<1>3. CASE Fund \/ Donate \/ UNCHANGED vars
  <2>1. UNCHANGED <<cycle, store, spent, burned, to_nodes>>
    BY <1>3 DEF Fund, Donate, vars, chainVars
  <2> QED BY <2>1 DEF ChainAhead, SolUnbooked, BurnUnbooked, NodesUnbooked
<1> QED BY <1>1, <1>2, <1>3, LandsOrBooks DEF Next, Goes

\* What the worker publishes happened: the totals in the file and in memory
\* never claim more than the chain shows, however cycles overlap on one
\* balance, give up on a transaction that lands later, and crash.
THEOREM RecordedIsRealAlways == Spec => []RecordedIsReal
<1>1. Init => ChainAhead
  <2> SUFFICES ASSUME Init PROVE ChainAhead
    OBVIOUS
  <2>1. /\ \A c \in Cycles : SolUnbooked[c] = 0
        /\ \A c \in Cycles : BurnUnbooked[c] = 0
        /\ \A c \in Cycles : NodesUnbooked[c] = 0
    BY DEF Init, Idle, SolUnbooked, BurnUnbooked, NodesUnbooked
  <2>2. /\ SumFunctionOnSet(SolUnbooked, Cycles) = 0
        /\ SumFunctionOnSet(BurnUnbooked, Cycles) = 0
        /\ SumFunctionOnSet(NodesUnbooked, Cycles) = 0
    BY <2>1, SumOfZeros, BuybackAssumption
  <2> QED BY <2>2 DEF Init, Fresh, ChainAhead
<1>2. Inv /\ ChainAhead => RecordedIsReal
  <2> SUFFICES ASSUME Inv, ChainAhead PROVE RecordedIsReal
    OBVIOUS
  <2>1. /\ store \in Totals /\ file \in Totals /\ FileBehind
        /\ {spent, burned, to_nodes} \subseteq Nat
    BY DEF Inv, TypeOK
  <2>2. /\ SumFunctionOnSet(SolUnbooked, Cycles) \in Nat
        /\ SumFunctionOnSet(BurnUnbooked, Cycles) \in Nat
        /\ SumFunctionOnSet(NodesUnbooked, Cycles) \in Nat
    BY UnbookedAmounts DEF Inv, TypeOK
  <2> QED BY <2>1, <2>2 DEF RecordedIsReal, ChainAhead, FileBehind, Totals
<1> QED BY <1>1, <1>2, InvAlways, ChainAheadStep, PTL DEF Spec
=============================================================================
