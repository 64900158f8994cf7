---------------------------- MODULE ControlPlane ----------------------------
(***************************************************************************)
(* One VPN node's control plane (services/control-plane): metering, access *)
(* and settlement of users' tabs.  The process is single-threaded, so code *)
(* between two awaits is one step; at every await the metering loop (tick),*)
(* the billing loop (auto) and the HTTP handlers interleave.  They share   *)
(* the User objects: store.get and store.all hand out the live objects,    *)
(* and every save writes the whole store.                                  *)
(*                                                                         *)
(* A User object is <<wallet, version>>: a new version is a new object     *)
(* with a uuid of its own, made by provision for a wallet the store does   *)
(* not know.  balanceBaseUnits and quotaBytes are left out, since every    *)
(* task overwrites them just before computeActive reads them, and so are   *)
(* the lifetime totals, which are only reported.                           *)
(*                                                                         *)
(* A relay also routes users' traffic through exit nodes, which register   *)
(* their profiles with it, and credits each exit with the bytes that went  *)
(* through its port.                                                       *)
(*                                                                         *)
(* External: Xray (byte counters per wallet and per exit port, lost when   *)
(* Xray restarts) and the chain (escrow balances, landed payments).  An    *)
(* RPC read is a step of its own between the call and the resumption.      *)
(* Token amounts are in base units, UnitsPerByte = 10^(decimals - 6) of    *)
(* them to a byte.                                                         *)
(***************************************************************************)
EXTENDS Integers, FiniteSets

CONSTANTS
  Wallets, Handlers,
  Sigs,            \* signatures of payment transactions
  Payer,           \* the wallet that signs each of them, None = a stranger
  None,            \* no wallet, no signature
  MaxObjects,      \* bound on the User objects alive per wallet
  UnitsPerByte,    \* price: base units per byte
  SettleMinBytes,  \* cfg.settleMinBytes
  Amounts,         \* token amounts of deposits, withdrawals and payments
  Funds,           \* tokens each wallet starts with
  Ports, ExitKeys, \* relay ports of exit nodes, and keys a profile may have
  MaxServed,       \* bound on the bytes each wallet consumes
  MaxRestarts,     \* bound on crashes
  MaxFaults        \* bound on failing reloads of Xray

ASSUME ControlPlaneAssumption ==
  /\ None \notin Wallets \cup Sigs
  /\ Payer \in [Sigs -> Wallets \cup {None}]
  /\ MaxObjects \in Nat \ {0} /\ UnitsPerByte \in Nat \ {0}
  /\ SettleMinBytes \in Nat /\ Amounts \subseteq Nat \ {0}
  /\ Funds \in [Wallets -> Nat] /\ MaxServed \in [Wallets -> Nat]
  /\ None \notin Ports
  /\ MaxRestarts \in Nat /\ MaxFaults \in Nat

VARIABLES
  escrow_balance,  \* chain: prepaid escrow per wallet
  wallet_funds,    \* chain: tokens per wallet outside the escrow
  landed,          \* chain: the amount each signature paid, 0 = not landed
  counter,         \* Xray: bytes per wallet since the last reset
  exit_counter,    \* Xray: bytes per exit port since the last reset
  xray_on,         \* Xray: objects whose uuid is in the config it runs
  exits_on,        \* Xray: exits in the config it runs
  config,          \* the config file Xray loads when it starts
  last_applied,    \* the signature of the last apply that succeeded
  exit_profile,    \* the file of exit profiles, by port
  users,           \* store: version of each wallet's object, 0 = unknown
  object,          \* the User objects in memory
  payments,        \* store: the payment records
  disk,            \* the store file
  tick, auto, handler,  \* the three kinds of task
  restarts, faults,
  \* history, read by properties only:
  reload_ok,       \* the last reload the process asked for succeeded
  carried,         \* bytes Xray carried per exit port
  served,          \* bytes Xray carried per wallet
  billed,          \* tokens settle_from_escrow took per wallet
  doubtful         \* wallets with a landed bill the process did not book

chainVars == <<escrow_balance, wallet_funds, landed>>
countVars == <<counter, exit_counter, xray_on, exits_on>>
xrayVars == <<countVars, config, last_applied, faults, reload_ok>>
relayVars == <<exit_profile, carried>>
storeVars == <<users, payments, disk>>
historyVars == <<served, billed, doubtful>>
vars == <<chainVars, xrayVars, relayVars, object, storeVars, tick, auto,
          handler, restarts, historyVars>>

Objects == Wallets \X (1..MaxObjects)
NoObject == <<None, 0>>
NewUser ==
  [unsettledBytes |-> 0, active |-> FALSE,
   cleared |-> [s \in Sigs |-> 0]]  \* cleared: history, tab reductions per sig
NoPayment == [status |-> "none", wallet |-> None]
NoBytes == [w \in Wallets |-> 0]
NoExitBytes == [p \in Ports |-> 0]
NoProfile == [known |-> FALSE, key |-> None, served |-> 0, fresh |-> FALSE]
Nothing == [users |-> {}, exits |-> {}]

TickIdle == [pc |-> "idle", users |-> {}, todo |-> {}, u |-> NoObject,
             delta |-> NoBytes, balance |-> 0]
AutoIdle == [pc |-> "idle", todo |-> {}, u |-> NoObject, unsettled |-> 0,
             amount |-> 0, balance |-> 0, changed |-> FALSE]
HandlerIdle == [pc |-> "idle", call |-> "none", u |-> NoObject, sig |-> None,
                isNew |-> FALSE, balance |-> 0]

\* Bytes a balance buys, and what bytes cost; exact because decimals >= 6.
QuotaBytes(balance) == balance \div UnitsPerByte
CostBaseUnits(bytes) == UnitsPerByte * bytes

\* A tab after `paid` bytes were paid off.
TabMinus(tab, paid) == tab - paid
TabLess(tab, paid) == IF tab > paid THEN tab - paid ELSE 0

-----------------------------------------------------------------------------
(* The store, the chain reads and Xray, as every task uses them            *)

All == {<<w, users[w]>> : w \in {x \in Wallets : users[x] # 0}}

\* Store.save writes what memory holds, whoever changed it.
Saved(ptr, pays, obj) ==
  [users |-> ptr, payments |-> pays,
   object |-> [w \in Wallets |-> IF ptr[w] = 0 THEN NewUser
                                 ELSE obj[<<w, ptr[w]>>]]]
Save == disk' = Saved(users', payments', object')

ActiveUsers(ptr, obj) == {u \in Objects : ptr[u[1]] = u[2] /\ obj[u].active}

\* liveExitProfiles: the profiles seen within the TTL whose tunnel is online;
\* which tunnels are, or that the tunnel server does not answer, is external.
LiveExits ==
  LET fresh == {p \in Ports : exit_profile'[p].fresh}
  IN  SUBSET {<<p, exit_profile'[p].key>> : p \in fresh}

\* Xray starts with a configuration and forgets the bytes it counted.
Loads(cfg) ==
  /\ xray_on' = cfg.users
  /\ exits_on' = cfg.exits
  /\ counter' = NoBytes
  /\ exit_counter' = NoExitBytes

AlreadyApplied(on, signed) == last_applied = [users |-> on, exits |-> signed]

\* reconcile: when the active uuids or the live exits differ from what was
\* applied last, the file is written and Xray restarted.  The signature and
\* the file each ask for the live exits.
Reconciled ==
  LET on == ActiveUsers(users', object') IN
  \E signed \in LiveExits :
    \/ AlreadyApplied(on, signed) /\ UNCHANGED xrayVars
    \/ /\ ~AlreadyApplied(on, signed)
       /\ \E rendered \in LiveExits :
            config' = [users |-> on, exits |-> rendered]
       /\ Loads(config')
       /\ last_applied' = [users |-> on, exits |-> signed]
       /\ reload_ok' = TRUE
       /\ UNCHANGED faults

\* The reload command fails: the file is written, Xray runs the old
\* configuration, the new one or none, and the signature stays.
ReconcileThrows ==
  LET on == ActiveUsers(users', object') IN
  /\ faults < MaxFaults
  /\ faults' = faults + 1
  /\ \E signed \in LiveExits : ~AlreadyApplied(on, signed)
  /\ \E rendered \in LiveExits : config' = [users |-> on, exits |-> rendered]
  /\ Loads(config') \/ Loads(Nothing) \/ UNCHANGED countVars
  /\ reload_ok' = FALSE
  /\ UNCHANGED last_applied

\* Wherever it is the caller's last call, a throw changes nothing else.
Reconcile == Reconciled \/ ReconcileThrows

\* escrowBalance: an RPC error reads as zero.
Answers(w) == {escrow_balance[w], 0}

\* refreshBalance and computeActive, with the balance the RPC answered.
TurnedOn(user, balance) ==
  [user EXCEPT !.active = @ \/ user.unsettledBytes < QuotaBytes(balance)]
Refreshed(user, balance) ==
  [user EXCEPT !.active = user.unsettledBytes < QuotaBytes(balance)]

Init ==
  /\ escrow_balance = [w \in Wallets |-> 0]
  /\ wallet_funds = Funds
  /\ landed = [s \in Sigs |-> 0]
  /\ counter = NoBytes /\ exit_counter = NoExitBytes
  /\ xray_on = {} /\ exits_on = {}
  /\ config = Nothing /\ last_applied = Nothing /\ reload_ok = TRUE
  /\ exit_profile = [p \in Ports |-> NoProfile]
  /\ users = [w \in Wallets |-> 0]
  /\ object = [u \in Objects |-> NewUser]
  /\ payments = [s \in Sigs |-> NoPayment]
  /\ disk = [users |-> users, payments |-> payments,
             object |-> [w \in Wallets |-> NewUser]]
  /\ tick = TickIdle
  /\ auto = AutoIdle
  /\ handler = [h \in Handlers |-> HandlerIdle]
  /\ restarts = 0 /\ faults = 0
  /\ carried = NoExitBytes
  /\ served = NoBytes
  /\ billed = NoBytes
  /\ doubtful = {}

-----------------------------------------------------------------------------
(* External: users on the chain and on the VPN                             *)

processVars == <<xrayVars, relayVars, object, storeVars, tick, auto, handler,
                 restarts, historyVars>>

Deposit(w, amount) ==
  /\ amount <= wallet_funds[w]
  /\ wallet_funds' = [wallet_funds EXCEPT ![w] = @ - amount]
  /\ escrow_balance' = [escrow_balance EXCEPT ![w] = @ + amount]
  /\ UNCHANGED <<landed, processVars>>

Withdraw(w, amount) ==
  /\ amount <= escrow_balance[w]
  /\ escrow_balance' = [escrow_balance EXCEPT ![w] = @ - amount]
  /\ wallet_funds' = [wallet_funds EXCEPT ![w] = @ + amount]
  /\ UNCHANGED <<landed, processVars>>

\* pay_traffic or pay_traffic_from_escrow lands under signature s.
Pay(s, amount) ==
  LET w == Payer[s] IN
  /\ landed[s] = 0
  /\ landed' = [landed EXCEPT ![s] = amount]
  /\ \/ w = None /\ UNCHANGED <<wallet_funds, escrow_balance>>
     \/ /\ w # None
        /\ amount <= wallet_funds[w]
        /\ wallet_funds' = [wallet_funds EXCEPT ![w] = @ - amount]
        /\ UNCHANGED escrow_balance
     \/ /\ w # None
        /\ amount <= escrow_balance[w]
        /\ escrow_balance' = [escrow_balance EXCEPT ![w] = @ - amount]
        /\ UNCHANGED wallet_funds
  /\ UNCHANGED processVars

\* Xray carries a byte for a wallet whose link is in its config, through one
\* of its exits, or past them (None): directly when no exit is healthy, or
\* over Tor.
Serve(w, p) ==
  /\ \E u \in xray_on : u[1] = w
  /\ p = None \/ \E x \in exits_on : x[1] = p
  /\ served[w] < MaxServed[w]
  /\ served' = [served EXCEPT ![w] = @ + 1]
  /\ counter' = [counter EXCEPT ![w] = @ + 1]
  /\ IF p = None THEN UNCHANGED <<exit_counter, carried>>
     ELSE /\ exit_counter' = [exit_counter EXCEPT ![p] = @ + 1]
          /\ carried' = [carried EXCEPT ![p] = @ + 1]
  /\ UNCHANGED <<chainVars, xray_on, exits_on, config, last_applied, faults,
                 reload_ok, exit_profile, object, storeVars, tick, auto,
                 handler, restarts, billed, doubtful>>

\* Xray dies, or is down, and its supervisor starts it on the file.
XrayRestarts ==
  /\ Loads(config)
  /\ UNCHANGED <<chainVars, config, last_applied, faults, reload_ok, relayVars,
                 object, storeVars, tick, auto, handler, restarts,
                 historyVars>>

-----------------------------------------------------------------------------
(* The metering loop: tick and applyUsage                                  *)

\* The user's share of the poll is added before its balance is read.
Metered(user, delta) == [user EXCEPT !.unsettledBytes = @ + delta]

\* End of applyUsage: the objects of the snapshot are put back and saved.
\* A reload that throws ends the tick before the exits are polled.
TickFinish ==
  /\ users' = [w \in Wallets |->
                 IF \E u \in tick.users : u[1] = w
                 THEN (CHOOSE u \in tick.users : u[1] = w)[2] ELSE users[w]]
  /\ UNCHANGED payments
  /\ Save
  /\ \/ Reconciled /\ tick' = [TickIdle EXCEPT !.pc = "exits"]
     \/ ReconcileThrows /\ tick' = TickIdle

\* pollUsage resets the counters it reads, or fails and leaves them; then
\* applyUsage runs up to its first balance read, if there is any user.
\* addNodeServedBytes saves the store when there is any delta.
TickPoll ==
  /\ tick.pc = "idle"
  /\ \E delta \in {counter, NoBytes} :
       /\ counter' = IF delta = counter THEN NoBytes ELSE counter
       /\ disk' = IF delta = NoBytes THEN disk
                  ELSE Saved(users, payments, object)
       /\ \/ /\ All = {}
             /\ tick' = [TickIdle EXCEPT !.pc = "resume"]
             /\ UNCHANGED object
          \/ \E u \in All :
               /\ object' = [object EXCEPT ![u] = Metered(@, delta[u[1]])]
               /\ tick' = [pc |-> "read", users |-> All, todo |-> All \ {u},
                           u |-> u, delta |-> delta, balance |-> 0]
  /\ UNCHANGED <<chainVars, exit_counter, xray_on, exits_on, config,
                 last_applied, faults, reload_ok, relayVars, users, payments,
                 auto, handler, restarts, historyVars>>

TickRead ==
  /\ tick.pc = "read"
  /\ \E b \in Answers(tick.u[1]) :
       tick' = [tick EXCEPT !.pc = "resume", !.balance = b]
  /\ UNCHANGED <<chainVars, xrayVars, object, storeVars, auto, handler,
                 restarts, relayVars, historyVars>>

\* The user is flipped; the next one is metered, or the pass ends.
TickResume ==
  LET flipped == IF tick.u = NoObject THEN object
                 ELSE [object EXCEPT ![tick.u] = Refreshed(@, tick.balance)]
  IN
  /\ tick.pc = "resume"
  /\ UNCHANGED <<chainVars, relayVars, auto, handler, restarts, historyVars>>
  /\ \/ \E u \in tick.todo :
          /\ object' = [flipped EXCEPT ![u] = Metered(@, tick.delta[u[1]])]
          /\ tick' = [tick EXCEPT !.pc = "read", !.u = u, !.todo = @ \ {u},
                                  !.balance = 0]
          /\ UNCHANGED <<xrayVars, storeVars>>
     \/ /\ tick.todo = {}
        /\ object' = flipped
        /\ TickFinish

-----------------------------------------------------------------------------
(* The relay: exit profiles and the bytes the exits carry                  *)

\* What applyRelayExitBytes makes of a profile; a byte shows its exit alive.
Credited(profile, delta) ==
  IF delta = 0 \/ ~profile.known THEN profile
  ELSE [profile EXCEPT !.served = @ + delta, !.fresh = TRUE]

\* End of a tick: pollExitUsage resets the counters it reads, or fails.
PolledAndKept(polled) == exit_counter
PolledAndReset(polled) == IF polled THEN NoExitBytes ELSE exit_counter
TickExits ==
  /\ tick.pc = "exits"
  /\ tick' = TickIdle
  /\ \E polled \in BOOLEAN :
       /\ exit_counter' = PolledAndReset(polled)
       /\ exit_profile' = [p \in Ports |->
            Credited(exit_profile[p], IF polled THEN exit_counter[p] ELSE 0)]
  /\ UNCHANGED <<chainVars, counter, xray_on, exits_on, config, last_applied,
                 faults, reload_ok, carried, object, storeVars, auto, handler,
                 restarts, historyVars>>

\* POST /relay/node-profile, once the chain has confirmed the endpoint: the
\* exit's heartbeat.  Its own count of bytes is not taken over; the one the
\* relay keeps survives.
StartedOver(p, key) ==
  [known |-> TRUE, key |-> key, served |-> 0, fresh |-> TRUE]
Registered(p, key) ==
  [known |-> TRUE, key |-> key, served |-> exit_profile[p].served,
   fresh |-> TRUE]
NodeProfile(p, key) ==
  /\ exit_profile' = [exit_profile EXCEPT ![p] = Registered(p, key)]
  /\ UNCHANGED <<users, object>>
  /\ Reconcile
  /\ UNCHANGED <<chainVars, carried, payments, disk, tick, auto, handler,
                 restarts, historyVars>>

\* exitProfileTtlMs pass without a heartbeat or a byte.
ProfileExpires(p) ==
  /\ exit_profile[p].fresh
  /\ exit_profile' = [exit_profile EXCEPT ![p].fresh = FALSE]
  /\ UNCHANGED <<chainVars, xrayVars, carried, object, storeVars, tick, auto,
                 handler, restarts, historyVars>>

-----------------------------------------------------------------------------
(* POST /provision: also the /status route                                 *)

\* Versions of a wallet's object that nothing refers to any more.
InUse(w) ==
  {users[w], disk.users[w]}
    \cup {u[2] : u \in {x \in xray_on \cup tick.users \cup auto.todo
                              \cup {tick.u, auto.u}
                              \cup {handler[h].u : h \in Handlers} : x[1] = w}}
Fresh(w) == (1..MaxObjects) \ InUse(w)

ProvisionStart(h, w) ==
  /\ handler[h].pc = "idle"
  /\ \/ /\ users[w] # 0
        /\ handler' = [handler EXCEPT ![h] =
             [HandlerIdle EXCEPT !.pc = "read", !.call = "provision",
                                 !.u = <<w, users[w]>>]]
        /\ UNCHANGED object
     \/ /\ users[w] = 0 /\ Fresh(w) # {}
        /\ LET u == <<w, CHOOSE v \in Fresh(w) : \A x \in Fresh(w) : v <= x>>
           IN  /\ object' = [object EXCEPT ![u] = NewUser]
               /\ handler' = [handler EXCEPT ![h] =
                    [HandlerIdle EXCEPT !.pc = "read", !.call = "provision",
                                        !.u = u, !.isNew = TRUE]]
  /\ UNCHANGED <<chainVars, xrayVars, storeVars, tick, auto, restarts,
                 relayVars, historyVars>>

HandlerRead(h) ==
  /\ handler[h].pc = "read"
  /\ \E b \in Answers(handler[h].u[1]) :
       handler' = [handler EXCEPT ![h].pc = "resume", ![h].balance = b]
  /\ UNCHANGED <<chainVars, xrayVars, object, storeVars, tick, auto, restarts,
                 relayVars, historyVars>>

\* A new wallet without escrow is answered but not stored.
ProvisionResume(h) ==
  LET u == handler[h].u
      refreshed == [object EXCEPT ![u] = Refreshed(@, handler[h].balance)]
  IN
  /\ handler[h].pc = "resume" /\ handler[h].call = "provision"
  /\ handler' = [handler EXCEPT ![h] = HandlerIdle]
  /\ object' = refreshed
  /\ UNCHANGED <<chainVars, relayVars, tick, auto, restarts, historyVars>>
  /\ IF handler[h].isNew /\ handler[h].balance = 0
     THEN UNCHANGED <<xrayVars, storeVars>>
     ELSE /\ users' = [users EXCEPT ![u[1]] = u[2]]
          /\ UNCHANGED payments
          /\ Save
          /\ Reconcile

-----------------------------------------------------------------------------
(* POST /settle                                                            *)

\* beginPayment refuses a processed payment and another wallet's; one left
\* pending by an earlier call or a crash is taken up again.
AnyPayment(s) == TRUE
NotProcessed(s) == payments[s].status # "processed"

SettleStart(h, w, s) ==
  /\ handler[h].pc = "idle"
  /\ users[w] # 0
  /\ NotProcessed(s)
  /\ payments[s].wallet \in {None, w}
  /\ handler' = [handler EXCEPT ![h] =
                   [HandlerIdle EXCEPT !.pc = "verify", !.call = "settle",
                                       !.u = <<w, users[w]>>, !.sig = s]]
  /\ IF payments[s] = NoPayment
     THEN /\ payments' = [payments EXCEPT ![s] =
                            [status |-> "pending", wallet |-> w]]
          /\ UNCHANGED <<users, object>>
          /\ Save
     ELSE UNCHANGED <<object, storeVars>>
  /\ UNCHANGED <<chainVars, xrayVars, relayVars, tick, auto, restarts,
                 historyVars>>

\* verifyPayTraffic: the payment landed and this wallet signed it.
PaidByAnyone(s, w) == landed[s] > 0
PaidBy(s, w) == landed[s] > 0 /\ Payer[s] = w

\* The tab is cut on the live object, before the balance is read and before
\* the payment is marked.
SettleVerified(h) ==
  LET u == handler[h].u
      s == handler[h].sig
  IN
  /\ handler[h].pc = "verify"
  /\ PaidBy(s, u[1])
  /\ object' = [object EXCEPT ![u] =
       [object[u] EXCEPT
          !.unsettledBytes = TabLess(@, QuotaBytes(landed[s])),
          !.cleared[s] = IF @ < 2 THEN @ + 1 ELSE 2]]
  /\ handler' = [handler EXCEPT ![h].pc = "read"]
  /\ UNCHANGED <<chainVars, xrayVars, storeVars, tick, auto, restarts,
                 relayVars, historyVars>>

\* Not found after all attempts, not this wallet's, or an RPC error.
SettleRefused(h) ==
  LET s == handler[h].sig IN
  /\ handler[h].pc = "verify"
  /\ handler' = [handler EXCEPT ![h] = HandlerIdle]
  /\ IF payments[s] = [status |-> "pending", wallet |-> handler[h].u[1]]
     THEN /\ payments' = [payments EXCEPT ![s] = NoPayment]
          /\ UNCHANGED <<users, object>>
          /\ Save
     ELSE UNCHANGED <<object, storeVars>>
  /\ UNCHANGED <<chainVars, xrayVars, relayVars, tick, auto, restarts,
                 historyVars>>

\* applySettlement acts only on this wallet's pending reservation; otherwise
\* settle returns, and what it did to the live object stays.
SettleResume(h) ==
  LET u == handler[h].u
      s == handler[h].sig
  IN
  /\ handler[h].pc = "resume" /\ handler[h].call = "settle"
  /\ handler' = [handler EXCEPT ![h] = HandlerIdle]
  /\ object' = [object EXCEPT ![u] = Refreshed(@, handler[h].balance)]
  /\ UNCHANGED <<chainVars, relayVars, tick, auto, restarts, historyVars>>
  /\ IF payments[s] = [status |-> "pending", wallet |-> u[1]]
     THEN /\ users' = [users EXCEPT ![u[1]] = u[2]]
          /\ payments' = [payments EXCEPT ![s].status = "processed"]
          /\ Save
          /\ Reconcile
     ELSE UNCHANGED <<xrayVars, storeVars>>
-----------------------------------------------------------------------------
(* The billing loop: autoSettle                                            *)

NeverReconciled(changed) == UNCHANGED xrayVars
EndOfPass(changed) == IF changed THEN Reconcile ELSE UNCHANGED xrayVars

\* Goes on to the next user with at least SettleMinBytes unsettled, skipping
\* others in any order, or ends the pass.  The tab is read here, before the
\* awaits.
Billable(todo) == {u \in todo : object'[u].unsettledBytes >= SettleMinBytes}
AutoAdvance(todo, changed) ==
  \/ \E u \in Billable(todo), skipped \in SUBSET (todo \ Billable(todo)) :
       /\ auto' = [AutoIdle EXCEPT
                     !.pc = "read", !.u = u,
                     !.todo = todo \ (skipped \cup {u}),
                     !.unsettled = object'[u].unsettledBytes,
                     !.changed = changed]
       /\ UNCHANGED xrayVars
  \/ /\ Billable(todo) = {}
     /\ auto' = AutoIdle
     /\ EndOfPass(changed)

AutoStart ==
  /\ auto.pc = "idle"
  /\ UNCHANGED <<chainVars, object, storeVars, tick, handler, restarts,
                 relayVars, historyVars>>
  /\ AutoAdvance(All, FALSE)

AutoRead ==
  /\ auto.pc \in {"read", "reread"}
  /\ \E b \in Answers(auto.u[1]) :
       auto' = [auto EXCEPT !.pc = IF @ = "read" THEN "bill" ELSE "resume",
                            !.balance = b]
  /\ UNCHANGED <<chainVars, xrayVars, object, storeVars, tick, handler,
                 restarts, relayVars, historyVars>>

\* Never more than the escrow was seen to hold; nothing to bill: next user.
AutoBill ==
  LET owed == CostBaseUnits(auto.unsettled)
      amount == IF owed < auto.balance THEN owed ELSE auto.balance
  IN
  /\ auto.pc = "bill"
  /\ UNCHANGED <<chainVars, object, storeVars, tick, handler, restarts,
                 relayVars, historyVars>>
  /\ IF amount <= 0 THEN AutoAdvance(auto.todo, auto.changed)
     ELSE /\ auto' = [auto EXCEPT !.pc = "sent", !.amount = amount]
          /\ UNCHANGED xrayVars

\* External: settle_from_escrow lands; it fails when the escrow is short.
BillLands ==
  LET w == auto.u[1] IN
  /\ auto.pc = "sent"
  /\ auto.amount <= escrow_balance[w]
  /\ escrow_balance' = [escrow_balance EXCEPT ![w] = @ - auto.amount]
  /\ billed' = [billed EXCEPT ![w] = @ + auto.amount]
  /\ auto' = [auto EXCEPT !.pc = "landed"]
  /\ UNCHANGED <<wallet_funds, landed, xrayVars, object, storeVars, tick,
                 handler, restarts, relayVars, served, doubtful>>

\* The settler throws: the tab stays, also when the bill did land.
AutoFailed ==
  /\ auto.pc \in {"sent", "landed"}
  /\ doubtful' = IF auto.pc = "landed" THEN doubtful \cup {auto.u[1]}
                                       ELSE doubtful
  /\ UNCHANGED <<chainVars, object, storeVars, tick, handler, restarts,
                 relayVars, served, billed>>
  /\ AutoAdvance(auto.todo, auto.changed)

\* The tab becomes what it was before the awaits, less what was billed.
TabUnchanged(tab, amount) == tab
TabAfterBill(tab, amount) == TabLess(tab, QuotaBytes(amount))

AutoBooked ==
  /\ auto.pc = "landed"
  /\ object' = [object EXCEPT ![auto.u].unsettledBytes =
                  TabAfterBill(auto.unsettled, auto.amount)]
  /\ auto' = [auto EXCEPT !.pc = "reread"]
  /\ UNCHANGED <<chainVars, xrayVars, storeVars, tick, handler, restarts,
                 relayVars, historyVars>>

AutoResume ==
  /\ auto.pc = "resume"
  /\ object' = [object EXCEPT ![auto.u] = Refreshed(@, auto.balance)]
  /\ users' = [users EXCEPT ![auto.u[1]] = auto.u[2]]
  /\ UNCHANGED <<payments, chainVars, relayVars, tick, handler, restarts,
                 historyVars>>
  /\ Save
  /\ AutoAdvance(auto.todo, TRUE)

-----------------------------------------------------------------------------
(* Crash and restart                                                       *)

\* sweepStalePendings drops old reservations, never a processed record.
AnyRecord(payment) == payment # NoPayment
Sweepable(payment) == payment.status = "pending"

\* The process dies anywhere; the next one loads the file, sweeps (any of
\* the pending records may be old enough) and applies the config; a boot whose
\* reload fails ends there, so the next one is meant.
Restart ==
  /\ restarts < MaxRestarts
  /\ restarts' = restarts + 1
  /\ UNCHANGED <<chainVars, relayVars, faults, served, billed>>
  /\ users' = disk.users
  /\ object' = [u \in Objects |-> IF disk.users[u[1]] = u[2]
                                  THEN disk.object[u[1]] ELSE NewUser]
  /\ \E swept \in SUBSET {s \in Sigs : Sweepable(disk.payments[s])} :
       payments' = [s \in Sigs |-> IF s \in swept THEN NoPayment
                                   ELSE disk.payments[s]]
  /\ Save
  /\ \E rendered \in LiveExits :
       config' = [users |-> ActiveUsers(users', object'), exits |-> rendered]
  /\ \E signed \in LiveExits :
       last_applied' = [config' EXCEPT !.exits = signed]
  /\ Loads(config') /\ reload_ok' = TRUE
  /\ tick' = TickIdle /\ auto' = AutoIdle
  /\ handler' = [h \in Handlers |-> HandlerIdle]
  /\ doubtful' = IF auto.pc \in {"landed", "reread", "resume"}
                 THEN doubtful \cup {auto.u[1]} ELSE doubtful

-----------------------------------------------------------------------------
ChainNext ==
  \/ \E w \in Wallets, n \in Amounts : Deposit(w, n)
  \/ \E w \in Wallets, n \in Amounts : Withdraw(w, n)
  \/ \E s \in Sigs, n \in Amounts : Pay(s, n)
  \/ BillLands
TickNext == TickPoll \/ TickRead \/ TickResume \/ TickExits
RelayNext ==
  \/ \E p \in Ports, key \in ExitKeys : NodeProfile(p, key)
  \/ \E p \in Ports : ProfileExpires(p)
HandlerNext ==
  \/ \E h \in Handlers, w \in Wallets : ProvisionStart(h, w)
  \/ \E h \in Handlers, w \in Wallets, s \in Sigs : SettleStart(h, w, s)
  \/ \E h \in Handlers :
       \/ HandlerRead(h)
       \/ ProvisionResume(h)
       \/ SettleVerified(h)
       \/ SettleRefused(h)
       \/ SettleResume(h)
AutoNext ==
  AutoStart \/ AutoRead \/ AutoBill \/ AutoFailed \/ AutoBooked \/ AutoResume

Next ==
  \/ ChainNext
  \/ \E w \in Wallets, p \in Ports \cup {None} : Serve(w, p)
  \/ XrayRestarts
  \/ TickNext
  \/ RelayNext
  \/ HandlerNext
  \/ AutoNext
  \/ Restart

\* The metering loop runs for ever and its RPC reads are answered, if only
\* with an error (escrowBalance catches it).
Spec == Init /\ [][Next]_vars /\ WF_vars(TickNext)

-----------------------------------------------------------------------------
UserRecord ==
  [unsettledBytes : Nat, active : BOOLEAN, cleared : [Sigs -> 0..2]]
PaymentRecord ==
  [status : {"none", "pending", "processed"}, wallet : Wallets \cup {None}]
ProfileRecord ==
  [known : BOOLEAN, key : ExitKeys \cup {None}, served : Nat, fresh : BOOLEAN]
XrayConfig == [users : SUBSET Objects, exits : SUBSET (Ports \X ExitKeys)]
StoreFile ==
  [users : [Wallets -> 0..MaxObjects], payments : [Sigs -> PaymentRecord],
   object : [Wallets -> UserRecord]]
TickRecord ==
  [pc : {"idle", "read", "resume", "exits"}, users : SUBSET Objects,
   todo : SUBSET Objects, u : Objects \cup {NoObject},
   delta : [Wallets -> Nat], balance : Nat]
AutoRecord ==
  [pc : {"idle", "read", "bill", "sent", "landed", "reread", "resume"},
   todo : SUBSET Objects, u : Objects \cup {NoObject}, unsettled : Nat,
   amount : Nat, balance : Nat, changed : BOOLEAN]
HandlerRecord ==
  [pc : {"idle", "verify", "read", "resume"},
   call : {"none", "provision", "settle"}, u : Objects \cup {NoObject},
   sig : Sigs \cup {None}, isNew : BOOLEAN, balance : Nat]

ChainType ==
  /\ escrow_balance \in [Wallets -> Nat]
  /\ wallet_funds \in [Wallets -> Nat]
  /\ landed \in [Sigs -> Nat]
XrayType ==
  /\ counter \in [Wallets -> Nat] /\ exit_counter \in [Ports -> Nat]
  /\ xray_on \subseteq Objects /\ exits_on \subseteq Ports \X ExitKeys
  /\ config \in XrayConfig /\ last_applied \in XrayConfig
  /\ faults \in 0..MaxFaults /\ reload_ok \in BOOLEAN
RelayType ==
  /\ exit_profile \in [Ports -> ProfileRecord]
  /\ \A p \in Ports :
       /\ exit_profile[p].fresh => exit_profile[p].known
       /\ exit_profile[p].known => exit_profile[p].key \in ExitKeys
  /\ carried \in [Ports -> Nat]
StoreType ==
  /\ users \in [Wallets -> 0..MaxObjects]
  /\ object \in [Objects -> UserRecord]
  /\ payments \in [Sigs -> PaymentRecord]
  /\ disk \in StoreFile
TickType == tick \in TickRecord /\ (tick.pc = "read" => tick.u \in Objects)
AutoType == auto \in AutoRecord /\ (auto.pc # "idle" => auto.u \in Objects)
HandlerType ==
  /\ handler \in [Handlers -> HandlerRecord]
  /\ \A h \in Handlers :
       /\ handler[h].pc # "idle" => handler[h].u \in Objects
       /\ handler[h].pc = "verify" => handler[h].call = "settle"
       /\ handler[h].pc # "idle" /\ handler[h].call = "settle" =>
            handler[h].sig \in Sigs
HistoryType ==
  /\ restarts \in 0..MaxRestarts
  /\ served \in [Wallets -> Nat] /\ billed \in [Wallets -> Nat]
  /\ doubtful \subseteq Wallets

\* Every variable has its type: no tab, balance or counter goes below zero, no
\* task acts on an object that is none, no exit without a key goes live.
TypeOK ==
  /\ ChainType /\ XrayType /\ RelayType /\ StoreType
  /\ TickType /\ AutoType /\ HandlerType /\ HistoryType

\* A wallet is never billed for more than it consumed, however provisioning,
\* metering, manual settlement, billing and crashes interleave, unless a bill
\* landed that the process never booked (settle threw, or a crash).  This is
\* for a mint of 6 decimals, where a byte costs one base unit: with more, a
\* bill capped by the escrow is floored to bytes and overcharges the rest.
BilledIsServed ==
  UnitsPerByte = 1 =>
    \A w \in Wallets \ doubtful : billed[w] <= CostBaseUnits(served[w])

\* The dedup ledger outlives everything: a payment marked processed is never
\* forgotten, by a refused call, a crash at any point or the boot sweep.
LedgerForever ==
  [][\A s \in Sigs : payments[s].status = "processed" =>
                       payments'[s] = payments[s]]_vars

\* A processed record names the wallet that really paid on the chain.
ProcessedIsPaid ==
  \A s \in Sigs : payments[s].status = "processed" =>
                    landed[s] > 0 /\ payments[s].wallet = Payer[s]

\* Between crashes, with one settle call at a time, one landed payment cuts
\* a tab at most once however often it is submitted.
SequentialClearsOnce ==
  restarts = 0 => \A u \in Objects, s \in Sigs : object[u].cleared[s] <= 1

\* With one HTTP call at a time: when no task is under way and the last
\* reload did not fail, Xray serves exactly the users the store has active, so
\* no path that flips a user forgets to reconcile.  (settle's early return
\* does forget it, but needs two calls.)
Quiet == /\ tick.pc = "idle" /\ auto.pc = "idle"
         /\ \A h \in Handlers : handler[h].pc = "idle"
InSyncWhenQuiet == Quiet /\ reload_ok => xray_on = ActiveUsers(users, object)

\* A wallet whose escrow is empty for good is cut off for good, also when
\* reloads fail, unless no reload follows the failed one: a user set that goes
\* back to what was applied before it is taken for applied (controller.ts:84).
Off(w) == \A u \in xray_on : u[1] # w
CutOff == \A w \in Wallets :
            <>[](escrow_balance[w] = 0) /\ []<>reload_ok => <>[]Off(w)

\* An exit is credited with bytes that went through it, each at most once:
\* what its profile has and what is still counted never exceed what Xray
\* carried, however polls fail, exits register again and Xray restarts.
CreditedIsCarried ==
  \A p \in Ports : exit_profile[p].served + exit_counter[p] <= carried[p]

\* The reward basis of an exit never shrinks: neither a heartbeat, nor new
\* keys, nor a crash of the relay takes back what an exit was credited with.
CreditKept ==
  [][\A p \in Ports : exit_profile'[p].served >= exit_profile[p].served]_vars

-----------------------------------------------------------------------------
(* What the comments claim                                                 *)

\* controller.ts:198: a concurrent double-submit of a payment applies
\* nothing, so one payment cuts a tab once.
PaymentClearsOnce ==
  \A u \in Objects, s \in Sigs : object[u].cleared[s] <= 1
=============================================================================
