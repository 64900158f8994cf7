# TLA+ verification of Weft

Weft sells VPN bandwidth on Solana. One on-chain program holds the node registry, the node stakes,
the users' prepaid escrows and the reward vault; off-chain services meter the traffic, bill the
escrows and post what the nodes earned. This directory holds TLA+ models of the program and of the
three services that move tokens or bytes, the TLC configurations that check them, and theorems about
all four and about the protocol's arithmetic, checked by TLAPS.

    tlc -config MCStaking.cfg MCWeft          # one run
    tlapm WeftSafetyProofs.tla                # one proof module

`PROJECT.json` lists the runs, the source lines each definition stands for, a seeded bug (mutant)
for every checked property, the hazards and the findings.

## The system

| Part | State | Operations | What makes it correct | Where |
|---|---|---|---|---|
| Registry (`programs/weft/src/lib.rs`) | Registry, TreeShard and NodeState accounts, the cNFT leaves | initialize_core, register_tree, register/update/deregister_node, admin setters, shutdown_core | counters equal what they count, identities are unique, the authority keys agree, closing an account strands nothing | `Registry` |
| Staking (same file) | StakingConfig, StakePosition, stake vault | stake, request_unstake, withdraw_unstaked, close_empty_stake_position, slash | stake is recoverable, not before its lock and unbonding time, and copied exactly into the NodeState | `Staking` |
| Escrow (same file) | PaymentEscrow and its vault | deposit, withdraw, close, pay_traffic, pay_traffic_from_escrow, settle_from_escrow | balance, totals and vault agree, the 70/20/10 split leaves no dust | `Escrow` |
| Distributor (same file) | Distributor, EpochDistribution, ClaimStatus, reward vault | fund, post_epoch, claim, dispute, claim_rewards | nobody is paid twice, what is posted can be paid | `Distributor` |
| weft-primitives | none (pure) | split, rewards, vesting, geo, reputation, Merkle proofs | exact integer arithmetic, agreement with `sdk/src/math.ts`; a proof verifies for a posted leaf and nothing else | `WeftMath` (used by the program), `MerkleTree`, `RewardMath` (the rest) |
| Control plane (`services/control-plane`) | the store file and its live objects, `lastApplied`, Xray's configuration and counters | provision, settle, tick, autoSettle, bootstrap | users pay for what they use, once; a payment counts once; access follows the escrow | `ControlPlane` |
| Exit profiles and relay (same service) | profile file, exit counters | registerExitProfile, applyRelayExitBytes, liveExitProfiles | an exit is credited once for what it carried, and never loses a credit | `ControlPlane` (the file is the input of `Aggregator`) |
| Aggregator (`services/aggregator`) | epoch ledger, settled-bytes cursor, receipts | autoSettleOnce, onReceipts, maybePost, coSign | each byte is credited once, the vault covers what is owed, nothing is forgotten | `Aggregator` |
| Buyback worker (`services/buyback-burn`) | totals in memory and on disk | cycle: jupSwapAndSend, splitAndBurn | the public burn total never overstates or regresses, nothing is left unsplit | `Buyback` |
| Provisioning, faucet, indexer, HTTP servers, SDK, desktop client, scripts | – | – | – | not modelled (below) |

Interactions. The control plane reads escrow balances over RPC and sends settle_from_escrow with the
poster key; every payment splits 70 % to the reward vault, 20 % burned, 10 % treasury. The
aggregator reads the relays' exit profiles and the stakes, credits an epoch ledger of its own,
co-signs claim_rewards up to the ledger and can post epoch roots (post_epoch). Nodes claim with
Merkle proofs. Exit nodes report to the relay with a heartbeat. The buyback worker pays its node
share into a payout wallet of its own. Disputes come from the dispute authority, which is also the
slash authority.

What is hard here. *On chain* every instruction is atomic, but any party may send any instruction at
any time, in any order, again and again, and send tokens into any vault; accounts are closed and
re-created at the same address; counters copy sets and balances. *In the control plane* three kinds
of asynchronous tasks share live JavaScript objects across awaits, every save writes everything,
transactions may land although the call throws, and a crash loses what is not in the file; the
command that reloads Xray may fail, and Xray forgets its counters when it restarts. *In the
aggregator* one pass gathers its inputs over four awaits, while receipt handlers write the same
ledger and co-signed claims land late, and it ends in two file writes. *In the buyback worker*
cycles overlap on one wallet and on one object of totals. `PROJECT.json` lists these hazards line by
line.

## The on-chain model

`WeftState` declares the accounts, the token vaults, the clock and the type invariant; `Registry`,
`Staking`, `Escrow` and `Distributor` extend one another and add one action per instruction;
`WeftProgram` composes them into `Next` and `Spec` and states the properties. `WeftMath` is the
arithmetic.

* An account is a record with a `live` flag where the PDA can be closed; account constraints
  (`has_one`, `close`, seeds, `init`) are guards. A failed instruction changes nothing, so it is a
  disabled action. Where the code relies on a PDA surviving (EpochDistribution, ClaimStatus after
  shutdown_core) the record survives.
* The signers are abstract keys. Keys matter where they are stored (admin, poster, dispute, slash);
  a node or an escrow stands for its owner.
* `checked_add`, `checked_sub` and `saturating_sub` on u64 are kept: `Fits(n)` bounds additions at
  `MaxU64` (the run instances make it small, so that it is reached), subtraction guards are
  explicit. The reward product in u128 cannot overflow and is exact.
* A Merkle root is the set of its leaves `<<node, amount>>`; a valid proof is membership.
  `MerkleTree` says why this is right (below).
* Clock: `Tick` advances `now` by one.
* External: Bubblegum mints (`MintLeaf`, and `ForeignMint`, because the tree is created public),
  token transfers into any vault by anyone (`Donate...`).
* History variables, read by properties only: `pledged`, `slashed`, `refunded`, `stake_gift`,
  `escrow_gift`, `gasless_paid`, `attested`, `reused`, `tree_uses`.

Simplified: register_tree's `max_depth` is an argument of the client, independent of the real tree;
the model takes the two equal, as provision.ts passes them. All cores use one reward mint. The
clawback window is stored and never read, so it is left out. `claim_status.amount` of a dispute is 0
in the model (the code stores an argument nobody reads). Name, endpoint and geo data of a node are
one metadata value.

| Run (`MCWeft`) | Bounds | What it shows |
|---|---|---|
| `MCStaking` | 1 node, amount 2 of 5 tokens, locks 0 and 1, unbonding 1, time 0..2 | two stakes with different locks make 4, of which a slash takes 1 (25 % of 4 is the smallest slash that takes a token) and a half can unbond; the fifth token is a donation; deregistration and a second core fit; TypeOK, StakeRecoverable, NodeStakeSynced, LockedStakeHeld |
| `MCEscrow` | 2 users, amounts 1 and 5 of 6 tokens, MaxU64 6 | 1 and 5 both round in the split, several payments reach MaxU64; EscrowExact, which also says that payments and withdrawals never touch what strangers sent into a vault |
| `MCRewards` | 2 nodes, 2 epochs, leaf amounts 1 and 3, roots with two leaves (also one that exceeds its total), 6 tokens | two epochs outstanding together, claims against a core that did not post them, gasless payouts; BooksExact, VaultCoversBooks, EpochRailSolvent, LeafPayable, ClaimsExact, GaslessExactUntilReused, and PayoutsImplemented, the refinement of `EpochPayouts` |
| `MCRegistry` | 2 nodes, 2 trees of 2 leaves, 2 keys | both trees fill, roll over and are registered again; NodeCountExact, AssetIdsUnique, AuthoritiesAgree |
| `MCReregister` | 1 node, 1 epoch, 2 tokens | **violation** of NeverPaidTwice (below) |

TypeOK is checked once, in `MCStaking`, and proved for all constants.
The operations of one component read few fields of the others, so each run drives one component
fully and the others as far as they interact (deregistration, slashing, shutdown). Tokens, time and
epochs are bounded and accounts may all be closed, so these instances do stop: the configurations
say CHECK_DEADLOCK FALSE. There is no fairness and no liveness property: no instruction is ever
forced on anybody.

`EpochPayouts` is what the epoch rail promises a node, without accounts, vaults, cores, authorities
or time: the terms of an epoch are posted once, an entitlement is settled once, by one of the node's
leaves or by a forfeit, and an epoch never pays more than its budget. `WeftProgram` maps an
EpochDistribution account to the terms (`TermsOf`) and a ClaimStatus account to the outcome
(`OutcomeOf`); every other instruction is a stutter. What could break it is an instruction that
re-initialises one of these accounts, and shutdown_core is the candidate. `PayoutsImplemented` is
checked in `MCRewards` and proved.

The gasless rail is outside that promise: claim_rewards pays from the same vault without regard to
what post_epoch promised, so LAUNCH.md:62-64 ("payouts are solvent by construction") holds for the
epoch rail alone. `EpochRailSolvent` and `BooksExact` say by how much it fails otherwise: by what
the gasless rail paid. Once `cumulative_claimed` is above `cumulative_obligated`, post_epoch
(lib.rs:1465) and shutdown_core (lib.rs:1716) fail for good, since only post_epoch raises the
latter.

`MerkleTree` has no steps. Its hash is injective: a hash is the record of what was hashed, with its
domain. TLC evaluates two ASSUMEs of `MCWeft` in each of its runs: in trees of up to nine leaves
(every way a level can be odd) each leaf verifies with the proof built for it, and in trees of up to
five no other epoch, node, amount or allocation verifies with any proof of up to three nodes of this
tree or another, nor a leaf with any proof but its own. That a claim verifies exactly when it was
posted is proved for trees of every size (below).

## The control-plane model

`ControlPlane` models one process. Node.js runs one task at a time up to its next await, so the code
between two awaits is one action. The tasks are the metering loop (`Tick...`), the billing loop
(`Auto...`) and the HTTP calls (`Provision...`, which is also the /status route, and `Settle...`,
one per handler). A variable per task holds its program counter and the locals that live across an
await: that is where stale values are. `object` holds the User objects in memory, shared by all
tasks; `users` is which object the store refers to (two concurrent provisions of one wallet make two
objects); `disk` is the file. `Save` writes all of memory, whoever changed it. The chain is
`escrow_balance`, `wallet_funds` and `landed`. An RPC answer is the current value or, on an error,
zero (`escrowBalance` catches everything). `Restart` is a crash at any point.

Xray is what it runs (`xray_on`, `exits_on`) and what it has counted since the last reset
(`counter`, `exit_counter`); it starts from a file, `config`, and forgets its counters (`Loads`,
`XrayRestarts`). `reconcile` compares with `last_applied` and otherwise writes the file and reloads:
`Reconciled`. The reload command may fail (`ReconcileThrows`): the file is written, Xray runs the
old configuration, the new one or none, and `last_applied` stays. A throw in a tick skips the poll
of the exits; elsewhere reconcile is the last call of its caller. The live exits are asked for
twice, once for the signature and once for the file, and the two answers may differ.

The relay is the file of exit profiles, one per relay port: heartbeats (`NodeProfile`, with a key
that may change), expiry, and the credits of each tick (`TickExits`). Which tunnels the tunnel
server reports as online is any subset. A relay's own node sends the same heartbeat.

Abstracted: quota bytes and the cached balance (recomputed immediately before each use), lifetime
totals, link formats. Writing the store and the profile file is taken to succeed: a write that
throws in settle and a crash after it would lose a processed record. `BillLands` then `AutoFailed`
is a bill that landed although the call threw.

| Run (`MCControlPlane`) | Bounds | What it shows |
|---|---|---|
| `MCControlPlane` | 1 wallet, 1 handler, its own payment and a stranger's, 2 tokens, 2 bytes, 1 restart; no exits | 755,000 states: TypeOK, BilledIsServed, ProcessedIsPaid, SequentialClearsOnce, InSyncWhenQuiet and the action property LedgerForever |
| `MCRelay` | 1 wallet, 1 handler, 1 port, 1 key, 1 token, 1 byte, 1 failing reload, 1 restart; no payments | 500,000 states, two to three minutes: InSyncWhenQuiet, CreditedIsCarried, the action property CreditKept and the liveness property CutOff |
| `MCSettleRace` | 2 handlers, 1 payment | **violation** of PaymentClearsOnce (below) |

Two of everything a wallet has (bytes, tokens, signatures) is what the lost-update and
double-counting hazards of billing need: one unit counted before and one after the awaited step. The
relay needs one byte: the hazard is that the same byte is credited again. Two handlers with crashes
are too large for a complete search; they appear only in the violation run. Deadlock is checked:
none.

Fairness: only `WF_vars(TickNext)`. index.ts runs the metering loop for ever (113-123), catching
every error, and its RPC reads end with an answer or an error. Nothing is assumed of users,
handlers, or the billing loop, which may not even be configured.

Limits of the properties, each found by TLC on a stronger first version:
* `BilledIsServed` excepts wallets with a bill that landed without being booked (a throw or a crash
  in autoSettle): these are billed again. It is stated for 6 decimals: with more, a bill capped by
  the escrow is floored to bytes and its remainder is charged again.
* `SequentialClearsOnce` is about one call at a time, because of the finding below, and up to the
  first crash: during settle's await another task's save writes the reduced tab with the record
  still pending, and after a crash the call is repeated and reduces it again, against
  store.ts:114-117.
* `InSyncWhenQuiet` with two handlers is false: settle's early return after a lost race has flipped
  the user without reconciling; the next tick repairs it.
* `InSyncWhenQuiet` and `CutOff` except a failed reload (`reload_ok`; CutOff assumes
  `[]<>reload_ok`). Without it both are false: when the set of users goes back to what
  `last_applied` names, reconcile returns early (controller.ts:84) and Xray keeps what the failed
  reload left it with, although controller.ts:225 expects the next tick to repair access.
* `CreditedIsCarried` is one-sided. The comments (exitProfiles.ts:80-85, xray.ts:101-104 and
  237-240) say that the bytes of the exits add up to what users consumed. Exactly that is not so: an
  exit's counter is lost when Xray restarts, when a reload fails before the poll, and with a port
  nobody registered; bytes past the exits are in no profile. Always on the side of too little.

## The aggregator model

`Aggregator` models one process too, an action for the code between two awaits. The tasks are the
settlement pass (`Auto...`, autoSettleOnce), the receipt handlers (`Receipts...`) and `CoSign` (POST
/claim). `ledger` is the EpochStore's map, `stored` its file, which EpochStore.put writes before it
returns; `settled` is the cursor file; `received` is receiptsByEpoch, which a crash loses. `auto`
holds what a pass carries across its awaits: the profiles, the nodes, the claimed total, the
outstanding sum, the cap. The two file writes at the end of a pass (`AutoCredit`, `AutoCursor`) are
two actions although no await is between them, so that `Restart` can come between; the other tasks
are barred from it by `Yielded`. `Restart` is the crash and the boot, which reads the ledger's file
and puts the build of the receipts file into it again.

Each write may also throw (`Unsaved`, `CursorStays`; a full disk), at most MaxFaults times. The file
stays as it was, but the map has changed before it is saved (store.ts:54-57): an unsaved credit or
build can be co-signed until a crash forgets it, and the next put writes it along. In a pass the
error is caught (cli.ts:272-278) and the process lives on; the cursor is behind, so a later pass
credits the bytes again under another epoch. `repeatable` adds up the credits that were put without
their cursor, by a crash or a failed write.

With WEFT_POST_ON_RECEIPTS a receipt build is also posted: `MaybePost` sends the transaction, which
lands (`PostLands`, with post_epoch's guards), later or never, and each leaf of the posted root can
be claimed once (`ClaimLeaf`). A post that fails changes only the answer to the relay. Posting at
boot happens only without autoSettle (a second post of the epoch makes main exit) and is left out.

External: the profiles grow (`Serve`, the relay's file), nodes register and their stake moves
(`ChangeStatus`), payments fill the vault (`Fund`), a co-signed claim lands, at any time, or never
(`ClaimLands`, `ClaimLost`). A post that the chain can only refuse, because a later epoch or
this one is posted, and a claim whose total was withdrawn before change nothing and are not kept.

| Run (`MCAggregator`) | Bounds | What it shows |
|---|---|---|
| `MCAggregator` | 1 node, 1 served byte, 1 receipt (in the boot file and posted again), 1 handler, posting on, a payment of 2 tokens, 1 crash, 1 failing write, ledger epochs 0..4 | 339,000 states, two to three minutes: TypeOK, CreditBacked, VaultCoversLedger, PaidWithinLedger, PostedBacked, the action property AutoNeverOverwrites and the liveness property CaughtUp |
| `MCAggregatorCrash` | 2 nodes with a byte each, no receipts, 1 crash, no failing write | **violation** of NeverDoubled (below) |
| `MCPosting` | 1 node, 1 receipt, no crash, no failing write | **violation** of PaidOnceAcrossRails (below) |

A byte and a receipt give a node two credits, and two tokens (one payment) let one be paid before
the pass that races with the claim. The receipt's epoch is 1 while the passes start at 0, so that
the ledger has a gap, and because post_epoch never accepts epoch 0. Epoch 4 is above what a byte, a
receipt build and the repeated credits can use up, so the bound never blocks a pass. Nodes meet only
in the sum that the cap compares with the vault. One claim of a node is in flight at a time: a later
one would be superseded by the larger total anyway. Deadlock is checked: none.

Fairness: `WF_vars(AutoNext)`, because cli.ts:281-293 starts a pass at every interval and an RPC
call ends with an answer or an error; and SF for the three calls of a pass, since a call that is
made again and again succeeds at times. RPC errors are not bounded in number;
failing writes are, since a cursor that can never be written never moves. Nothing is assumed of the
handlers, the operators or the chain.

Limits of the properties:
* `CreditBacked` bounds what a node has beyond its bytes and receipts by `repeatable`: a credit
  whose own cursor was not written, because of a crash or a failed write, is made again, no other.
  That this happens at all is the finding. It counts profile bytes and receipts as two sources;
  whether a relay reports one byte in both is not the aggregator's to see.
* `VaultCoversLedger` is about a ledger without receipt builds: buildEpoch in onReceipts and at boot
  is given no vaultCap.
* `PaidWithinLedger` compares with the peak of the ledger, because a receipt build, even of an empty
  post, replaces the epoch it names, also one a pass has used, so a node's total can shrink.
* `PostedBacked` is about the roots on the chain. With one handler and one receipt no two builds
  overtake each other in its run, only the transactions land late; the theorem is for any number of
  both. The ledger's entry of a posted epoch may be replaced afterwards (onReceipts, cli.ts:217), so
  that the proofs GET /proof serves belong to another tree than the posted root, although
  store.ts:1-3 and server.ts:4 have them be the ones that claim accepts: no property covers what
  /proof serves.
* `CaughtUp` says that bytes are settled, not that they are paid: bytes served below the minimum
  stake, or while the vault is short, move the cursor and earn less or nothing.
* Deregistration and trusted totals (devnet) are left out, and a byte earns one token.

## The buyback model

`Buyback` models the worker: `setInterval` starts a cycle every interval, whether or not the one
before has ended, so several are under way (`Cycles`). A cycle reads the SOL balance, sends a swap,
waits for it with a bound, books it, then reads the $WEFT balance and sends one transaction that
pays the nodes' share and burns the rest, waits again, books and saves. Where a wait gives up
(`GivesUp`), the transaction may still land later (`"late swap"`, `"late split"`), be refused or
expire. A crash does the same to all cycles and loads the file.

| Run (`MCBuyback`) | Bounds | What it shows |
|---|---|---|
| `MCBuyback` | 2 cycles, 3 SOL, reserve 1, at most 2 a swap, 1 donated token, rates 1 and 2, 2 faults, 1 restart | 821,000 states, one to two minutes: TypeOK, RecordedIsReal, the action property TotalsNeverRegress and the liveness property LeftoverSplit |

Two cycles are what overlapping needs. Two faults let a cycle fail and its successor too. Three SOL
with a reserve of 1 are a swap of two or two swaps of one, so two cycles can compete for the same
SOL. Deadlock is checked: none.

Fairness: weak fairness of each cycle's steps. The interval starts cycles for ever, every call ends,
and what is sent lands, is refused or expires.

Limits: overlapping swaps can spend the wallet below the reserve, as both read the balance before
either lands; no line of the repository promises otherwise. The totals may say too little (a
transaction that landed late is not booked). Writing the totals is taken to succeed: where it does
not, the next save writes them. While there is SOL above the reserve and Jupiter keeps
failing, each cycle ends before the split: `LeftoverSplit` relies on the bounded number of faults.

## The arithmetic

`RewardMath` has no steps. It holds the reward of a node for its bytes (the formula of
weft-primitives and sdk/src/math.ts, and the cap, bonuses and scale that buildEpochFromByteTotals
puts around it), geohash regions, the window test of receipts, the sale split, vesting and
reputation. Some of it explains what the other models take for granted: `WindowInOneEpoch` is why
`Aggregator` may give each receipt one epoch (`EpochOf`), and `RewardIsShare` is why one token a
byte is a fair stand-in: with a reputation of 1.0x or more the credit is exactly `nodeShareCap`, so
the geo, staking and cold-start bonuses never pay anything; they only make up for a reputation below
1.0x.

Nothing in it depends on an interleaving, so it has no run of its own: it is proved. The theorems
show what the definitions imply; that they compute what the code does is shown on the values of the
unit tests of weft-primitives, which TLC evaluates as ASSUMEs of `MCAggregator` in each of its runs.
Rewards of whole gigabytes exceed TLC's 32-bit integers, so these use a few bytes; MaxU64 is
1,000,000 there and any natural number in the proofs.

## Findings

1. **Re-registration** (`NeverPaidTwice`, `MCReregister`). `withdrawn` lives in the NodeState, which
   deregister_node closes; the same node id starts again at 0, and a cumulative attestation pays
   everything again. Until then payment is exact (`GaslessExactUntilReused`).
2. **Settle race** (`PaymentClearsOnce`, `MCSettleRace`). settle reduces the live object before it
   knows that the record is still pending; two calls with one signature reduce it twice.
3. **Credit crash** (`NeverDoubled`, `MCAggregatorCrash`). The comment at cli.ts:263-265 calls the
   order credit-then-cursor idempotent. The credit goes under the next free epoch key, so after a
   crash between the two writes the same bytes are credited under another key and the node can
   withdraw both, as far as the vault's headroom goes (`VaultCoversLedger` still holds). A cursor
   write that throws does the same without a crash: the log of cli.ts:274 says "cursor not advanced,
   will retry", and the retry credits again.
4. **Posting** (`PaidOnceAcrossRails`, `MCPosting`). PROJECT.md:23-24 speaks of a single payout rail
   and LAUNCH.md:64 says that a node can never be paid twice. With WEFT_POST_ON_RECEIPTS a receipt
   build is on the chain, where its leaf is claimed, and in the ledger, whose total claim_rewards
   pays; neither rail knows of the other.

## Proofs

The theorems hold for all values of the constants that satisfy the named assumptions: natural bounds
and amounts in range, and finite sets where the code counts or adds up what is in them (nodes and
epochs are u64 keys, a root commits to a list, the aggregator's files are finite, so
`ConstantsAssumption` and `FiniteAssumption` in `WeftState`, `AggregatorAssumption`,
`BuybackAssumption`); `RewardMath` only takes MaxU64 to be a natural number. Every invariant and
every action property of a passing run is a theorem, and so is the refinement of `EpochPayouts`;
only liveness is left to TLC.

Induction. The provers cannot use an induction rule, whose hypothesis is a parameter. Where a fact
holds for every number, length or finite set, the proofs take a smallest counterexample instead:
`SmallestExists` and `SmallestSubset` in `SumTheorems` (from the well-foundedness of the naturals
and of strict inclusion) give one, and the step shows that there is a smaller one. In this way
`SumTheorems` unfolds the library's recursive SumFunctionOnSet (`SumUnfolds`), and from there what
the ledgers need: a sum changes by what one entry changes (`SumChanges`, `SumRises`), is monotone, a
part of it is no more than it, sums of sums.

The Weft program:

* `WeftTypeProofs`: the split is exact, a slash is bounded by a quarter of the position, a penalty
  by the floor; all rest on one lemma about `amount * bps \div BPS`. Then `Spec => []TypeOK`, one
  lemma per instruction. TypeOK is inductive as it stands, since the code's checked subtractions
  are guards.
* `WeftSafetyProofs`: `StakeInv` conjoins stake recoverability, the stake copy and the node count.
  Alone they are not inductive: that a position outlives its NodeState is excluded only by the
  exactness of the stake copy, which deregister_node tests, and that the registry outlives its nodes
  by the exactness of node_count, which shutdown_core tests. LockedStakeHeld needs `LockInv`: no
  stake is pledged past the one `locked_until` that request_unstake reads, because stake() takes the
  larger of the two locks. EscrowExact is inductive with TypeOK, and so are AuthoritiesAgree and
  GaslessExactUntilReused (with what a closed NodeState implies). `ShardsCount` (the shard of a tree
  registered once counts no more leaves than the tree has, and tree and shard identify each other)
  and `AssetInv` (every node's nonce is below that count) give AssetIdsUnique.
* `WeftRewardProofs`: VaultCoversBooks. `ClaimsInv` adds to ClaimsExact that an epoch nobody has
  posted has no claims and that a new claim status overwrites none with an amount. `BooksInv` adds
  to BooksExact that a core that is shut down owes nothing, which is what shutdown_core tests before
  initialize_core starts the counters anew. EpochRailSolvent follows from both with
  VaultCoversBooks, and so does LeafPayable: the total that is left of a well-formed epoch is the
  sum of its unclaimed leaves at least, and the vault holds what all epochs have left. At the end
  `PayoutsRefined`: initial states map to initial states, and post_epoch, claim and dispute map to
  Post, Pay and Forfeit, all others to stutters.

The services:

* `ControlPlaneProofs`: TypeOK is inductive as it stands. It is a conjunction of groups (ChainType,
  XrayType, ...), so that each step proves the groups it touches and takes the rest from the lemma
  `Untouched`. CreditedIsCarried is inductive with it: `CountersSteps` shows that every step but
  Serve and TickExits keeps or resets the exit counters and touches no credit. ProcessedIsPaid and
  LedgerForever rest on `LedgerInv`: the file's records are those of memory, which is why a crash
  forgets none, and a handler past its verification has a payment of its own wallet.
  `OneCallClearsOnce` has the assumption that there is one handler (`OneCall`): then a record whose
  payment has cut a tab is pending with that handler or processed, which `ClearInv` says.
  `BilledAlwaysServed` needs no such assumption: `BillInv` keeps a budget for each wallet, of what
  was billed, what the tabs of all its objects may still be billed (where a bill is under way, the
  larger of the tab and the tab it was made from), what a tick has polled and what Xray counts; a
  second part bounds what the file would have it billed after a crash. `QuietIsInSync` is for one
  handler, without which it is false: `SyncInv` says that what was applied last are the active users
  unless a pass has flipped one and has yet to reconcile, `OnlyItsOwn` that nobody else knows of the
  object a provision is making.
* `AggregatorProofs`: TypeOK includes that neither the cursor nor what a pass has read of the
  profile passes the profile; that amounts are natural numbers needs `ScaledWithinCap` (the shares
  of the cap, rounded down, stay within it) and sums over receipts. PostedBacked follows from
  `ReceivedInv` (what a build may hold was accepted) and `PostedInv` (a root, posted or on its way,
  is backed epoch by epoch); PaidWithinLedger from `PaidInv`, which includes the co-signed totals
  under way. VaultCoversLedger needs `VaultInv`, one clause per await: claims move tokens from the
  vault to `claimed` and payments only add, so what a pass read earlier still bounds what is true
  now, in the order in which the code reads (claimed total, outstanding sum, vault). The ledger's
  file is held to the same bound as the ledger, which it becomes by a restart. `CreditInv` is about
  the credits beyond the receipts of their epoch: in the ledger, and again in its file, they are no
  more than the bytes the cursor has passed or is about to pass and `repeatable`. A credit raises
  the bound by what it credits, whether its cursor is still to be written or never will be, and
  nothing lowers it. `VaultInv` too has a clause for the file. And a pass opens an epoch that is not
  live (`MaxOfEpochs`).
* `BuybackProofs`: TypeOK; TotalsNeverRegress from `FileBehind` (the file's totals are never above
  those in memory, which only grow between restarts); RecordedIsReal from `ChainAhead`: the chain is
  ahead of the totals in memory by what all cycles together have confirmed and not yet booked, the
  sum over the cycles being what keeps two overlapping ones apart.

The pure parts, `PrimitivesProofs`:

* `RewardIsShare`, `RewardMonotone`, `WindowInOneEpoch`, `TgeExact`, `VestedMonotone`,
  `MultiplierInRange`, `EmaBetween`, `DecayNeverOvershoots`. Products of two unknowns are what the
  solver finds hard, so the divisions are put into a few lemmas (`Quotient`, `QuotientMonotone`,
  `QuotientBetween`) and a larger factor is always written as the smaller one plus some k.
  DecayNeverOvershoots is what lib.rs:466 says of any number of periods, by the smallest number that
  would overshoot.
* `PostedVerifies`: in a tree of any size the proof that merkle_proof builds for a leaf verifies. By
  `WalkClimbs`, at every height the walk is at the node its proof leads to; `AscendStep` is the
  case distinction of left, right and promoted nodes. `VerifiesIffPosted` is why `Distributor` may
  check a claim by membership: some proof lets an epoch, node and amount through exactly when they
  were posted. The climb from a leaf ends in the root, a node of the tree, and `ClimbStays` goes back
  down: a node of the tree in the pair domain is the hash of two nodes of the tree and, hashes being
  injective, of no others; so the leaf is a node of the tree, and being in the leaf domain it is one
  of the leaves. `AllocationNeverVerifies` is the same for the third domain. The one assumption is
  the model's: SHA-256 is injective on what is hashed here.

Only model-checked: liveness (CutOff, CaughtUp, LeftoverSplit), which needs ENABLED. Of the findings
there is nothing to prove: TLC's counterexample is the result.

## Not modelled

* Faucet (devnet only; a table of cooldowns nothing else reads), node indexer (reads accounts, no
  state), HTTP servers, configuration and links (parsing, authentication, formatting).
* Provisioning: operator scripts that run once and are repeated by hand; each transaction is a
  registry action, and the registry is modelled for any order of them.
* SDK: generated from the program's interface, but for `math.ts`, which is in `MerkleTree` and
  `RewardMath`. Desktop client: user interface and process supervision. `docker/control-plane.mjs`
  is a bundle of the control plane and its libraries; its lines, and the generated SDK's, are most
  of the repository's, so that the mapped share of all lines stays small although the handwritten
  core is modelled.
* In what is modelled: rendering of Xray's configuration and the parsers of its counters, byte
  layouts of receipts and accounts, posting at boot, trusted totals.

## What is left

1. InSyncWhenQuiet after failed reloads: the weaker property that holds without `reload_ok`, and its
   proof.
2. Two handlers with crashes, and two relays, in instances larger than a run allows now; of the
   safety properties only SequentialClearsOnce and InSyncWhenQuiet depend on one handler, the other
   theorems cover any number.
3. The order and the resumption of the provisioning steps.
