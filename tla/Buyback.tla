------------------------------ MODULE Buyback ------------------------------
(***************************************************************************)
(* The buyback worker (services/buyback-burn): every interval a cycle buys *)
(* $WEFT with the SOL above a reserve, then splits all the $WEFT in its    *)
(* wallet between the node pool and a burn, and books the lifetime totals. *)
(* setInterval starts a cycle whether or not the one before has ended, so  *)
(* cycles overlap; each waits for the chain with a bounded confirmation,   *)
(* after which its transaction may still land, or not.  The totals are one *)
(* object in memory, written to a file at the end of a cycle.              *)
(*                                                                         *)
(* External: the chain (wallet, transactions), the swap's exchange rate,   *)
(* and people who send tokens to the wallet.                               *)
(***************************************************************************)
EXTENDS Integers, FiniteSets

CONSTANTS
  Cycles,       \* cycles that may be under way, or have a transaction that is
  Reserve,      \* WEFT_BUYBACK_RESERVE_SOL
  MinBuy,       \* WEFT_BUYBACK_MIN_SOL
  MaxBuy,       \* WEFT_BUYBACK_MAX_SOL
  NodeBps,      \* WEFT_BUYBACK_NODE_BPS
  Rates,        \* what a swap may return for one unit of SOL
  Sol,          \* bound on the SOL the wallet is funded with
  Donations,    \* bound on the $WEFT others send to the wallet
  MaxFaults,    \* bound on failing calls and late confirmations
  MaxRestarts   \* bound on crashes

ASSUME BuybackAssumption ==
  /\ IsFiniteSet(Cycles)
  /\ {Reserve, MaxBuy, Sol, Donations, MaxFaults, MaxRestarts} \subseteq Nat
  /\ MinBuy \in Nat \ {0}
  /\ NodeBps \in 0..10000 /\ Rates \subseteq Nat

VARIABLES
  sol, weft,            \* chain: the wallet
  spent,                \* chain: the SOL swapped so far
  burned, to_nodes,     \* chain: the $WEFT burned and paid to the node pool
  cycle,                \* the cycles
  store, file,          \* the lifetime totals in memory and on disk
  funded, donated, faults, restarts

chainVars == <<sol, weft, spent, burned, to_nodes>>
boundVars == <<funded, donated, faults, restarts>>
vars == <<chainVars, cycle, store, file, boundVars>>

Idle == [pc |-> "idle", buy |-> 0, burn |-> 0, nodes |-> 0]
Fresh == [burned |-> 0, toNodes |-> 0, solSpent |-> 0]
Smaller(a, b) == IF a < b THEN a ELSE b

Init ==
  /\ sol = 0 /\ weft = 0 /\ spent = 0 /\ burned = 0 /\ to_nodes = 0
  /\ cycle = [c \in Cycles |-> Idle]
  /\ store = Fresh /\ file = Fresh
  /\ funded = 0 /\ donated = 0 /\ faults = 0 /\ restarts = 0

At(c, pc) == cycle' = [cycle EXCEPT ![c].pc = pc]
Ends(c) == cycle' = [cycle EXCEPT ![c] = Idle]

\* A failing call, an unlucky swap or a confirmation that takes too long.
Fault == faults < MaxFaults /\ faults' = faults + 1

-----------------------------------------------------------------------------
(* Buying: cycle, jupSwapAndSend, confirmSig                               *)

\* With enough SOL above the reserve a swap is sent, for an amount that may
\* be stale when it lands; otherwise the cycle goes on to the split.
Spendable == Smaller(sol - Reserve, MaxBuy)
EndsUnsplit(c) == Ends(c)
SkipsBuy(c) == At(c, "split")
Start(c) ==
  /\ cycle[c].pc = "idle"
  /\ \/ /\ Spendable >= MinBuy
        /\ cycle' = [cycle EXCEPT ![c] =
                       [Idle EXCEPT !.pc = "swapping", !.buy = Spendable]]
     \/ Spendable < MinBuy /\ SkipsBuy(c)
  /\ UNCHANGED <<chainVars, store, file, boundVars>>

\* The swap lands, also after the cycle gave up on it.
SwapLands(c) ==
  /\ cycle[c].pc \in {"swapping", "late swap"}
  /\ cycle[c].buy <= sol
  /\ sol' = sol - cycle[c].buy
  /\ spent' = spent + cycle[c].buy
  /\ \E rate \in Rates : weft' = weft + rate * cycle[c].buy
  /\ IF cycle[c].pc = "swapping" THEN At(c, "swapped") ELSE Ends(c)
  /\ UNCHANGED <<burned, to_nodes, store, file, boundVars>>

\* Confirmed: booked in memory only.
SwapConfirmed(c) ==
  /\ cycle[c].pc = "swapped"
  /\ store' = [store EXCEPT !.solSpent = @ + cycle[c].buy]
  /\ At(c, "split")
  /\ UNCHANGED <<chainVars, file, boundVars>>

-----------------------------------------------------------------------------
(* Splitting: splitAndBurn, and the end of cycle                           *)

NodeShareOfThousand(balance) == (balance * NodeBps) \div 1000
NodeShare(balance) == (balance * NodeBps) \div 10000

\* The whole balance as it was read goes into one transaction that pays the
\* nodes' share and burns the rest; an RPC error reads as nothing.
ReadWeft(c) ==
  /\ cycle[c].pc = "split"
  /\ IF weft = 0 THEN Ends(c)
     ELSE cycle' = [cycle EXCEPT ![c] =
            [Idle EXCEPT !.pc = "splitting", !.nodes = NodeShare(weft),
                         !.burn = weft - NodeShare(weft)]]
  /\ UNCHANGED <<chainVars, store, file, boundVars>>

SplitLands(c) ==
  LET total == cycle[c].nodes + cycle[c].burn IN
  /\ cycle[c].pc \in {"splitting", "late split"}
  /\ total <= weft
  /\ weft' = weft - total
  /\ burned' = burned + cycle[c].burn
  /\ to_nodes' = to_nodes + cycle[c].nodes
  /\ IF cycle[c].pc = "splitting" THEN At(c, "burned") ELSE Ends(c)
  /\ UNCHANGED <<sol, spent, store, file, boundVars>>

\* What a save may leave behind, a crash in the middle of it included: the
\* file is replaced by a rename, so either the old totals or the new ones.
WrittenInPlace(totals) == {totals, Fresh}
Written(totals) == {totals}

Sent(c) == cycle[c].pc \in {"splitting", "burned"}
Confirmed(c) == cycle[c].pc = "burned"
SplitConfirmed(c) ==
  /\ Confirmed(c)
  /\ store' = [store EXCEPT !.burned = @ + cycle[c].burn,
                            !.toNodes = @ + cycle[c].nodes]
  /\ file' \in Written(store')
  /\ Ends(c)
  /\ UNCHANGED <<chainVars, boundVars>>

-----------------------------------------------------------------------------
(* Failures                                                                *)

\* The chain refuses what another cycle's transaction has taken.
Refused(c) ==
  /\ \/ cycle[c].pc \in {"swapping", "late swap"} /\ cycle[c].buy > sol
     \/ /\ cycle[c].pc \in {"splitting", "late split"}
        /\ cycle[c].nodes + cycle[c].burn > weft
  /\ Ends(c)
  /\ UNCHANGED <<chainVars, store, file, boundVars>>

\* A call throws or an RPC error reads as nothing: the cycle ends, and what
\* it sent and was not confirmed in time may still land.
Abandoned(record) ==
  CASE record.pc = "swapping"  -> [record EXCEPT !.pc = "late swap"]
    [] record.pc = "splitting" -> [record EXCEPT !.pc = "late split"]
    [] record.pc \in {"late swap", "late split"} -> record
    [] OTHER -> Idle
GivesUp(c) ==
  /\ cycle[c].pc \notin {"idle", "late swap", "late split"}
  /\ Fault
  /\ cycle' = [cycle EXCEPT ![c] = Abandoned(@)]
  /\ UNCHANGED <<chainVars, store, file, funded, donated, restarts>>

\* A transaction nobody waits for any more expires.
Expires(c) ==
  /\ cycle[c].pc \in {"late swap", "late split"}
  /\ Ends(c)
  /\ UNCHANGED <<chainVars, store, file, boundVars>>

\* The process dies anywhere and loads the file again.
Restart ==
  /\ restarts < MaxRestarts
  /\ restarts' = restarts + 1
  /\ cycle' = [c \in Cycles |-> Abandoned(cycle[c])]
  /\ store' = file
  /\ UNCHANGED <<chainVars, file, funded, donated, faults>>

-----------------------------------------------------------------------------
\* External: the team funds the wallet, and anyone may send it $WEFT.
Fund ==
  /\ funded < Sol
  /\ funded' = funded + 1 /\ sol' = sol + 1
  /\ UNCHANGED <<weft, spent, burned, to_nodes, cycle, store, file, donated,
                 faults, restarts>>
Donate ==
  /\ donated < Donations
  /\ donated' = donated + 1 /\ weft' = weft + 1
  /\ UNCHANGED <<sol, spent, burned, to_nodes, cycle, store, file, funded,
                 faults, restarts>>

Goes(c) ==
  \/ Start(c) \/ SwapLands(c) \/ SwapConfirmed(c) \/ ReadWeft(c)
  \/ SplitLands(c) \/ SplitConfirmed(c) \/ Refused(c) \/ Expires(c)
Next ==
  \/ \E c \in Cycles : Goes(c) \/ GivesUp(c)
  \/ Fund \/ Donate \/ Restart

\* The interval starts cycles for ever, and a transaction lands, is refused
\* or expires.
Spec == Init /\ [][Next]_vars /\ \A c \in Cycles : WF_vars(Goes(c))

-----------------------------------------------------------------------------
Totals == [burned : Nat, toNodes : Nat, solSpent : Nat]
CycleRecord ==
  [pc : {"idle", "swapping", "late swap", "swapped", "split",
         "splitting", "late split", "burned"},
   buy : Nat, burn : Nat, nodes : Nat]

\* Every variable has its type; the wallet is never overdrawn.
TypeOK ==
  /\ {sol, weft, spent, burned, to_nodes} \subseteq Nat
  /\ cycle \in [Cycles -> CycleRecord]
  /\ store \in Totals /\ file \in Totals
  /\ funded \in 0..Sol /\ donated \in 0..Donations
  /\ faults \in 0..MaxFaults /\ restarts \in 0..MaxRestarts

\* The published totals never claim more than happened on the chain, however
\* cycles overlap on one balance, give up on what lands later and crash; what
\* is lost, is lost on the side of too little.
RecordedIsReal ==
  /\ file.burned <= store.burned /\ store.burned <= burned
  /\ file.toNodes <= store.toNodes /\ store.toNodes <= to_nodes
  /\ file.solSpent <= store.solSpent /\ store.solSpent <= spent

\* index.ts:118: the public lifetime burn never regresses, whichever cycle
\* writes the file last and wherever a crash comes.
TotalsNeverRegress ==
  [][/\ file'.burned >= file.burned
     /\ file'.toNodes >= file.toNodes
     /\ file'.solSpent >= file.solSpent]_vars

\* index.ts:254, "self-heals any leftover": $WEFT in the wallet is split in
\* the end, also when its cycle gave up, crashed or lost a race for it, and
\* when there is no SOL left to buy with.
LeftoverSplit == weft > 0 ~> weft = 0
=============================================================================
