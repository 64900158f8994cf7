----------------------------- MODULE Aggregator -----------------------------
(***************************************************************************)
(* The reward aggregator (services/aggregator).  Nodes are credited in an  *)
(* epoch ledger from two sources: the lifetime bytes in the relay's exit   *)
(* profiles, which autoSettleOnce settles up to a cursor file, and signed  *)
(* receipts that relays post.  Operators withdraw their running total with *)
(* a co-signed claim_rewards.  With WEFT_POST_ON_RECEIPTS a receipt build  *)
(* is posted on the chain too, where each of its leaves can be claimed.    *)
(*                                                                         *)
(* The process is single-threaded: code between two awaits is one step,    *)
(* except that a crash may come between the two file writes of             *)
(* autoSettleOnce (pc "cursor"), when no other task can run.  A poster key *)
(* is configured, autoSettle is on (so nothing is posted at boot), and no  *)
(* WEFT_TRUSTED_* totals.  A byte earns one token (reputation and bonuses  *)
(* are arithmetic, left out here).                                         *)
(*                                                                         *)
(* A write of the ledger or of the cursor may throw (a full disk).  Both   *)
(* go by way of a temporary file, so the file stays as it was, but the map *)
(* of EpochStore has changed before it is saved.                           *)
(*                                                                         *)
(* External: the relay that writes the profiles, node accounts, the chain. *)
(* An RPC answer is the value at a step of its own, and any call may fail. *)
(***************************************************************************)
EXTENDS Integers, FiniteSets, FiniteSetsExt, Functions

CONSTANTS
  Nodes,
  Receipts,        \* the signed receipts there are, each of one byte
  NodeOf,          \* the (operator, node) of each
  EpochOf,         \* the epoch each receipt's window lies in
  FileReceipts,    \* those in the file read at boot, all of FileEpoch
  FileEpoch,       \* WEFT_EPOCH
  Handlers,        \* concurrent POST /receipts requests
  PostOnReceipts,  \* WEFT_POST_ON_RECEIPTS
  MaxEpoch,        \* bound on ledger epochs, above what the run can use up
  MaxBytes,        \* bound on the bytes each node serves
  Payment,         \* the node share of each payment of a user
  MaxFunds,        \* bound on the tokens paid into the reward vault
  MaxRestarts,     \* bound on crashes
  MaxFaults        \* bound on writes that throw

ASSUME AggregatorAssumption ==
  /\ IsFiniteSet(Nodes) /\ IsFiniteSet(Receipts)
  /\ NodeOf \in [Receipts -> Nodes] /\ EpochOf \in [Receipts -> 0..MaxEpoch]
  /\ FileReceipts \subseteq Receipts
  /\ \A r \in FileReceipts : EpochOf[r] = FileEpoch
  /\ {MaxEpoch, Payment, MaxFunds, MaxRestarts, MaxFaults} \subseteq Nat
  /\ FileEpoch \in 0..MaxEpoch
  /\ MaxBytes \in [Nodes -> Nat] /\ PostOnReceipts \in BOOLEAN

VARIABLES
  profile,         \* relay file: lifetime bytes per node's endpoint
  status,          \* chain: "absent", "poor" (too little stake), "staked"
  vault, claimed,  \* chain: reward vault, cumulative_claimed
  withdrawn,       \* chain: NodeState.withdrawn
  in_flight,       \* chain: the total of a co-signed claim under way, 0 = none
  posts,           \* post_epoch transactions sent, which may still land
  posted,          \* chain: the rewards under the root of each posted epoch
  obligated,       \* chain: cumulative_obligated
  leaf_claims,     \* chain: the ClaimStatus accounts, <<epoch, node>>
  ledger,          \* EpochStore's map in memory
  stored,          \* its file
  settled,         \* the cursor file
  received,        \* receiptsByEpoch: how often each receipt is in it
  auto, handler,   \* the tasks
  restarts, faults,
  \* history, read by properties only:
  ever_received,   \* receipts that were ever accepted
  receipts_put,    \* a receipt build was ever put
  repeatable,      \* credits whose cursor was never written, so that a later
                   \* pass credits their bytes again
  peak             \* the most each node's ledger total ever was

epochVars == <<posts, posted, obligated, leaf_claims>>
chainVars == <<status, vault, claimed, withdrawn, in_flight, epochVars>>
historyVars == <<ever_received, receipts_put, repeatable, peak>>
fileVars == <<ledger, stored, faults>>
vars == <<profile, chainVars, fileVars, settled, received, auto, handler,
          restarts, historyVars>>

Epochs == 0..MaxEpoch
NoAmounts == [n \in Nodes |-> 0]
NoBuild == [live |-> FALSE, amount |-> NoAmounts]
NoSnapshot == [n \in Nodes |-> "absent"]
AutoIdle == [pc |-> "idle", profile |-> NoAmounts, nodes |-> NoSnapshot,
             claimed |-> 0, outstanding |-> 0, cap |-> 0]
HandlerIdle == [pc |-> "idle", epoch |-> 0, all |-> [r \in Receipts |-> 0],
                nodes |-> NoSnapshot]

-----------------------------------------------------------------------------
(* EpochStore and the reward builds                                        *)

Live(book) == {e \in Epochs : book[e].live}
EarnedIn(book, n) == SumFunction([e \in Live(book) |-> book[e].amount[n]])
EarnedForNode(n) == EarnedIn(ledger, n)
TotalIn(book) == SumFunction([n \in Nodes |-> EarnedIn(book, n)])
TotalEarned == TotalIn(ledger)

NextEpochByCount == Cardinality(Live(ledger))
NextEpoch == IF Live(ledger) = {} THEN 0 ELSE Max(Live(ledger)) + 1

Replaced(book, e, amounts) ==
  [book EXCEPT ![e] = [live |-> TRUE, amount |-> amounts]]
Holds(book) ==
  /\ ledger' = book
  /\ peak' = [n \in Nodes |-> Max({peak[n], EarnedIn(book, n)})]

\* The write a task ends in: it is done, or throws and leaves the file.
Written == faults' = faults
Throws  == faults < MaxFaults /\ faults' = faults + 1
Saves   == Written /\ stored' = ledger'
Unsaved == Throws /\ stored' = stored

\* buildEpochFromByteTotals: only registered nodes with enough stake earn.
Rewards(bytes, nodes) ==
  [n \in Nodes |-> IF nodes[n] = "staked" THEN bytes[n] ELSE 0]
ScaledTo(cap, rewards) ==
  IF SumFunction(rewards) <= cap THEN rewards
  ELSE [n \in Nodes |-> (rewards[n] * cap) \div SumFunction(rewards)]

\* selectReceiptsForEpoch counts an (operator, nonce) once.
EachCounted(times) == times
Deduplicated(times) == IF times > 0 THEN 1 ELSE 0
ReceiptBytes(all, e) ==
  [n \in Nodes |->
     SumFunction([r \in {r \in Receipts : NodeOf[r] = n /\ EpochOf[r] = e} |->
                    Deduplicated(all[r])])]

Init ==
  /\ profile = NoAmounts
  /\ status = NoSnapshot
  /\ vault = 0 /\ claimed = 0
  /\ withdrawn = NoAmounts /\ in_flight = NoAmounts
  /\ posts = {} /\ posted = [e \in Epochs |-> NoBuild]
  /\ obligated = 0 /\ leaf_claims = {}
  /\ ledger = [e \in Epochs |-> NoBuild] /\ stored = ledger
  /\ settled = NoAmounts
  /\ received = [r \in Receipts |-> IF r \in FileReceipts THEN 1 ELSE 0]
  /\ auto = AutoIdle
  /\ handler = [h \in Handlers |-> HandlerIdle]
  /\ restarts = 0 /\ faults = 0
  /\ ever_received = FileReceipts /\ receipts_put = FALSE
  /\ repeatable = NoAmounts /\ peak = NoAmounts

processVars == <<fileVars, settled, received, auto, handler, restarts,
                 historyVars>>

-----------------------------------------------------------------------------
(* The relay and the chain (external)                                      *)

\* Bytes a node's exit carried, as the relay measured them.
Serve(n) ==
  /\ profile[n] < MaxBytes[n]
  /\ profile' = [profile EXCEPT ![n] = @ + 1]
  /\ UNCHANGED <<chainVars, processVars>>

\* A node registers; then its stake moves over and under the minimum.
ChangeStatus(n, s) ==
  /\ status[n] # s /\ s # "absent"
  /\ status' = [status EXCEPT ![n] = s]
  /\ UNCHANGED <<profile, vault, claimed, withdrawn, in_flight, epochVars,
                 processVars>>

\* The node share of a user's payment.
Fund ==
  /\ vault + claimed + Payment <= MaxFunds
  /\ vault' = vault + Payment
  /\ UNCHANGED <<profile, status, claimed, withdrawn, in_flight, epochVars,
                 processVars>>

\* claim_rewards: the total is cumulative, a stale one is refused.
ClaimLands(n) ==
  LET payout == in_flight[n] - withdrawn[n] IN
  /\ in_flight[n] > 0
  /\ status[n] # "absent" /\ payout >= 0 /\ payout <= vault
  /\ withdrawn' = [withdrawn EXCEPT ![n] = in_flight[n]]
  /\ claimed' = claimed + payout
  /\ vault' = vault - payout
  /\ in_flight' = [in_flight EXCEPT ![n] = 0]
  /\ UNCHANGED <<profile, status, epochVars, processVars>>

\* It never lands: refused on the chain, or its blockhash expired.
ClaimLost(n) ==
  /\ in_flight[n] > 0
  /\ in_flight' = [in_flight EXCEPT ![n] = 0]
  /\ UNCHANGED <<profile, status, vault, claimed, withdrawn, epochVars,
                 processVars>>

\* post_epoch: only a later epoch, and only if the vault covers it beside
\* what the books say is outstanding; they fail when that is negative.
CurrentEpoch == IF Live(posted) = {} THEN 0 ELSE Max(Live(posted))
PostLands(post) ==
  /\ post \in posts
  /\ post.epoch > CurrentEpoch
  /\ obligated >= claimed
  /\ vault >= obligated - claimed + SumFunction(post.amount)
  /\ posted' = [posted EXCEPT ![post.epoch] =
                  [live |-> TRUE, amount |-> post.amount]]
  /\ obligated' = obligated + SumFunction(post.amount)
  /\ posts' = posts \ {post}
  /\ UNCHANGED <<profile, status, vault, claimed, withdrawn, in_flight,
                 leaf_claims, processVars>>

\* claim: once for each leaf of a posted root; `withdrawn` is not touched.
ClaimLeaf(e, n) ==
  LET amount == posted[e].amount[n] IN
  /\ posted[e].live /\ amount > 0
  /\ <<e, n>> \notin leaf_claims
  /\ amount <= vault
  /\ leaf_claims' = leaf_claims \cup {<<e, n>>}
  /\ claimed' = claimed + amount
  /\ vault' = vault - amount
  /\ UNCHANGED <<profile, status, withdrawn, in_flight, posts, posted,
                 obligated, processVars>>

-----------------------------------------------------------------------------
(* POST /claim                                                             *)

\* Between put and cursor write autoSettleOnce does not yield.
Yielded == auto.pc # "cursor"

\* coSign: the poster signs any total up to what the ledger holds.  (A total
\* not above what was withdrawn pays nothing or is refused: it is left out.)
AnyTotal(n, total) == TRUE
WithinLedger(n, total) == total <= EarnedForNode(n)

CoSign(n, total) ==
  /\ Yielded
  /\ in_flight[n] = 0
  /\ EarnedForNode(n) > 0
  /\ WithinLedger(n, total) /\ total > withdrawn[n]
  /\ in_flight' = [in_flight EXCEPT ![n] = total]
  /\ UNCHANGED <<profile, status, vault, claimed, withdrawn, epochVars,
                 processVars>>

-----------------------------------------------------------------------------
(* POST /receipts: onReceipts                                              *)

othersOfHandler == <<profile, chainVars, settled, auto, restarts>>

\* The accepted receipts of epoch e, possibly none, join receiptsByEpoch before
\* the await.
ReceiptsStart(h, e, accepted) ==
  /\ Yielded
  /\ handler[h].pc = "idle"
  /\ \A r \in accepted : EpochOf[r] = e /\ received[r] < 2
  /\ received' = [r \in Receipts |->
                    IF r \in accepted THEN received[r] + 1 ELSE received[r]]
  /\ ever_received' = ever_received \cup accepted
  /\ handler' = [handler EXCEPT ![h] =
                   [HandlerIdle EXCEPT !.pc = "nodes", !.epoch = e,
                                       !.all = received']]
  /\ UNCHANGED <<othersOfHandler, fileVars, receipts_put, repeatable, peak>>

ReceiptsNodes(h) ==
  /\ handler[h].pc = "nodes"
  /\ handler' = [handler EXCEPT ![h].pc = "put", ![h].nodes = status]
  /\ UNCHANGED <<othersOfHandler, fileVars, received, historyVars>>

\* fetchNodeInfos throws: the receipts stay in memory, the ledger as it was.
ReceiptsError(h) ==
  /\ handler[h].pc = "nodes"
  /\ handler' = [handler EXCEPT ![h] = HandlerIdle]
  /\ UNCHANGED <<othersOfHandler, fileVars, received, historyVars>>

\* maybePost: an empty build is not posted.  What becomes of the transaction
\* (it may never land) only changes the answer to the relay.  One that the
\* chain can only refuse, now and later, is not kept.
MaybePost(build) ==
  posts' = IF PostOnReceipts /\ build.amount # NoAmounts
                /\ build.epoch > CurrentEpoch
           THEN posts \cup {build} ELSE posts

\* The build replaces whatever the epoch held, capped by no vault.  If it
\* cannot be saved the request ends there.
ReceiptsPut(h) ==
  LET e == handler[h].epoch
      rewards == Rewards(ReceiptBytes(handler[h].all, e), handler[h].nodes)
  IN
  /\ Yielded
  /\ handler[h].pc = "put"
  /\ Holds(Replaced(ledger, e, rewards))
  /\ \/ Saves /\ MaybePost([epoch |-> e, amount |-> rewards])
     \/ Unsaved /\ posts' = posts
  /\ handler' = [handler EXCEPT ![h] = HandlerIdle]
  /\ receipts_put' = TRUE
  /\ UNCHANGED <<profile, status, vault, claimed, withdrawn, in_flight, posted,
                 obligated, leaf_claims, settled, auto, restarts, received,
                 ever_received, repeatable>>

-----------------------------------------------------------------------------
(* autoSettleOnce; pc # "idle" is autoSettleRunning                        *)

othersOfAuto == <<profile, chainVars, received, handler, restarts>>

AutoStart ==
  /\ auto.pc = "idle"
  /\ auto' = [AutoIdle EXCEPT !.pc = "nodes", !.profile = profile]
  /\ UNCHANGED <<othersOfAuto, fileVars, settled, historyVars>>

\* buildProfileByteTotals: endpoints of registered nodes that moved on.
Delta == [n \in Nodes |->
            IF auto.nodes[n] = "absent" \/ auto.profile[n] <= settled[n] THEN 0
            ELSE auto.profile[n] - settled[n]]
NextSettledKept == settled
NextSettled == [n \in Nodes |-> settled[n] + Delta[n]]

AutoNodes ==
  /\ auto.pc = "nodes"
  /\ auto' = IF \E n \in Nodes :
                  status[n] # "absent" /\ auto.profile[n] > settled[n]
             THEN [auto EXCEPT !.pc = "claimed", !.nodes = status]
             ELSE AutoIdle
  /\ UNCHANGED <<othersOfAuto, fileVars, settled, historyVars>>

AutoClaimed ==
  /\ auto.pc = "claimed"
  /\ auto' = [auto EXCEPT !.pc = "outstanding", !.claimed = claimed]
  /\ UNCHANGED <<othersOfAuto, fileVars, settled, historyVars>>

AutoOutstanding ==
  /\ auto.pc = "outstanding"
  /\ auto' = [auto EXCEPT
                !.pc = "vault", !.claimed = 0,
                !.outstanding = IF TotalEarned > auto.claimed
                                THEN TotalEarned - auto.claimed ELSE 0]
  /\ UNCHANGED <<othersOfAuto, fileVars, settled, historyVars>>

HeadroomOfVault(vaultBal, outstanding) == vaultBal
HeadroomUnclamped(vaultBal, outstanding) == vaultBal - outstanding
Headroom(vaultBal, outstanding) ==
  IF vaultBal > outstanding THEN vaultBal - outstanding ELSE 0

AutoVault ==
  /\ auto.pc = "vault"
  /\ auto' = [auto EXCEPT !.pc = "credit", !.outstanding = 0,
                          !.cap = Headroom(vault, auto.outstanding)]
  /\ UNCHANGED <<othersOfAuto, fileVars, settled, historyVars>>

Credit == ScaledTo(auto.cap, Rewards(Delta, auto.nodes))

\* Whatever throws is caught; finally clears autoSettleRunning.
Kept == [AutoIdle EXCEPT !.pc = "running"]
Released == AutoIdle

\* The cursor moves up to the profiles that were read, if it can be written.
CursorMoves == Written /\ settled' = NextSettled
CursorStays == Throws /\ settled' = settled
Repeatable == [n \in Nodes |-> repeatable[n] + Credit[n]]

\* Nobody earns from these bytes: only the cursor moves.
AutoNothing ==
  /\ auto.pc = "credit"
  /\ Credit = NoAmounts
  /\ CursorMoves \/ CursorStays
  /\ auto' = Released
  /\ UNCHANGED <<othersOfAuto, ledger, stored, historyVars>>

\* The credit is in the map even if it cannot be saved.
AutoCredit ==
  /\ auto.pc = "credit"
  /\ Credit # NoAmounts
  /\ NextEpoch <= MaxEpoch
  /\ Holds(Replaced(ledger, NextEpoch, Credit))
  /\ \/ /\ Saves
        /\ auto' = [auto EXCEPT !.pc = "cursor"]
        /\ repeatable' = repeatable
     \/ /\ Unsaved
        /\ auto' = Released
        /\ repeatable' = Repeatable
  /\ UNCHANGED <<othersOfAuto, settled, ever_received, receipts_put>>

AutoCursor ==
  /\ auto.pc = "cursor"
  /\ \/ CursorMoves /\ repeatable' = repeatable
     \/ CursorStays /\ repeatable' = Repeatable
  /\ auto' = Released
  /\ UNCHANGED <<othersOfAuto, ledger, stored, ever_received, receipts_put,
                 peak>>

\* An RPC call throws, or reading the profiles or the cursor does.
AutoError ==
  /\ auto.pc \in {"nodes", "claimed", "vault"}
  /\ auto' = Released
  /\ UNCHANGED <<othersOfAuto, fileVars, settled, historyVars>>

-----------------------------------------------------------------------------
\* A crash, and the boot after it, which puts the build of the receipts file
\* into what the ledger's file holds.  (If that cannot be saved the process
\* ends again: a longer crash.)
Restart ==
  LET build == Rewards(ReceiptBytes(received', FileEpoch), status)
      none  == build = NoAmounts
      book  == IF none THEN stored ELSE Replaced(stored, FileEpoch, build)
  IN
  /\ restarts < MaxRestarts
  /\ restarts' = restarts + 1
  /\ received' = [r \in Receipts |-> IF r \in FileReceipts THEN 1 ELSE 0]
  /\ auto' = AutoIdle
  /\ handler' = [h \in Handlers |-> HandlerIdle]
  /\ repeatable' = IF auto.pc = "cursor" THEN Repeatable ELSE repeatable
  /\ Holds(book) /\ Saves
  /\ receipts_put' = (receipts_put \/ ~none)
  /\ UNCHANGED <<profile, chainVars, settled, ever_received>>

-----------------------------------------------------------------------------
ChainNext ==
  \/ Fund
  \/ \E n \in Nodes :
       \/ Serve(n)
       \/ ClaimLands(n)
       \/ ClaimLost(n)
       \/ \E s \in {"poor", "staked"} : ChangeStatus(n, s)
       \/ \E e \in Epochs : ClaimLeaf(e, n)
  \/ \E post \in posts : PostLands(post)
HandlerNext ==
  \/ \E n \in Nodes, total \in 1..MaxFunds : CoSign(n, total)
  \/ \E h \in Handlers :
       \/ \E e \in {EpochOf[r] : r \in Receipts} :
            \E accepted \in SUBSET Receipts : ReceiptsStart(h, e, accepted)
       \/ ReceiptsNodes(h)
       \/ ReceiptsError(h)
       \/ ReceiptsPut(h)
AutoNext ==
  \/ AutoStart \/ AutoNodes \/ AutoClaimed \/ AutoOutstanding \/ AutoVault
  \/ AutoNothing \/ AutoCredit \/ AutoCursor \/ AutoError

Next == ChainNext \/ HandlerNext \/ AutoNext \/ Restart

\* setInterval starts the pass again and again, its RPC calls are answered, if
\* only with an error, and one that is made again and again succeeds at times.
Spec ==
  /\ Init /\ [][Next]_vars
  /\ WF_vars(AutoNext)
  /\ SF_vars(AutoNodes) /\ SF_vars(AutoClaimed) /\ SF_vars(AutoVault)

-----------------------------------------------------------------------------
AutoTask ==
  [pc : {"idle", "nodes", "claimed", "outstanding", "vault", "credit",
         "cursor"},
   profile : [Nodes -> Nat], nodes : [Nodes -> {"absent", "poor", "staked"}],
   claimed : Nat, outstanding : Nat, cap : Nat]
HandlerTask ==
  [pc : {"idle", "nodes", "put"}, epoch : Epochs, all : [Receipts -> 0..2],
   nodes : [Nodes -> {"absent", "poor", "staked"}]]

\* Every variable has its type, and neither the cursor nor what a pass has read
\* of the profile passes it: past it, bytes a node has still to serve would
\* never be settled.
TypeOK ==
  /\ profile \in [Nodes -> Nat]
  /\ status \in [Nodes -> {"absent", "poor", "staked"}]
  /\ vault \in Nat /\ claimed \in Nat
  /\ withdrawn \in [Nodes -> Nat] /\ in_flight \in [Nodes -> Nat]
  /\ {ledger, stored, posted} \subseteq
       [Epochs -> [live : BOOLEAN, amount : [Nodes -> Nat]]]
  /\ posts \subseteq [epoch : Epochs, amount : [Nodes -> Nat]]
  /\ obligated \in Nat /\ leaf_claims \subseteq Epochs \X Nodes
  /\ settled \in [Nodes -> Nat] /\ \A n \in Nodes : settled[n] <= profile[n]
  /\ received \in [Receipts -> 0..2]
  /\ auto \in AutoTask /\ \A n \in Nodes : auto.profile[n] <= profile[n]
  /\ handler \in [Handlers -> HandlerTask]
  /\ restarts \in 0..MaxRestarts /\ faults \in 0..MaxFaults
  /\ ever_received \subseteq Receipts /\ receipts_put \in BOOLEAN
  /\ repeatable \in [Nodes -> Nat] /\ peak \in [Nodes -> Nat]

\* A node's ledger total is backed by what the relay measured for it and by
\* the distinct receipts accepted for it: passes, reposted receipts, lost
\* races, failed writes and restarts count no byte twice, but for the credits
\* whose own cursor was never written, because a write threw or the process
\* crashed just there; and these repeat no more than themselves.
Backing(n) ==
  profile[n] + Cardinality({r \in ever_received : NodeOf[r] = n})
CreditBacked ==
  \A n \in Nodes : EarnedForNode(n) <= Backing(n) + repeatable[n]

\* While the ledger is fed by autoSettleOnce alone, what it owes never exceeds
\* the vault, however claims land between its reads and whatever a crash or
\* a failed write credits again.  (Receipt builds are capped by no vault.)
VaultCoversLedger == ~receipts_put => TotalEarned - claimed <= vault

\* No node is paid more than its ledger once held, however late a co-signed
\* claim lands and whatever happened to the ledger since.
PaidWithinLedger == \A n \in Nodes : withdrawn[n] <= peak[n]

\* A root on the chain is never corrected, so it has to be right when it is
\* posted: over all posted epochs no node has a leaf for more than the distinct
\* receipts accepted for it, however often relays post them again, builds for
\* one epoch overtake each other and the process starts over.
PostedBacked ==
  \A n \in Nodes :
    EarnedIn(posted, n)
      <= Cardinality({r \in ever_received : NodeOf[r] = n})

\* A pass always opens a new epoch: it never replaces entries that a receipt
\* handler put while the pass was waiting for the chain.
AutoNeverOverwrites ==
  [][auto.pc = "credit" =>
       \A e \in Live(ledger) :
         \/ ledger'[e] = ledger[e]
         \/ handler' # handler \/ restarts' # restarts]_vars

\* The bytes of a registered node are settled in the end: no error, failed
\* write, early return or crash leaves autoSettleRunning set or the cursor behind.
CaughtUp ==
  \A n \in Nodes :
    [](status[n] # "absent" => <>(settled[n] = profile[n]))

-----------------------------------------------------------------------------
(* What the comments claim                                                 *)

\* cli.ts:263: if the process dies between the credit and the cursor, no
\* reward is ever doubled.
NeverDoubled == \A n \in Nodes : EarnedForNode(n) <= Backing(n)

\* PROJECT.md:23: a single payout rail, so no double-pay surface.  What a node
\* was paid for its leaves and by claim_rewards never exceeds the most its
\* ledger held.
PaidByLeaf(n) ==
  SumFunction([e \in Epochs |->
                 IF <<e, n>> \in leaf_claims THEN posted[e].amount[n] ELSE 0])
PaidOnceAcrossRails ==
  \A n \in Nodes : PaidByLeaf(n) + withdrawn[n] <= peak[n]
=============================================================================
