------------------------- MODULE ControlPlaneProofs -------------------------
(***************************************************************************)
(* The control plane for every value of the constants: its types, the      *)
(* bytes credited to exits, the payment ledger, that a payment cuts a tab  *)
(* once, that nobody is billed for more than was served, and that Xray     *)
(* serves the active users whenever nothing is under way.                  *)
(***************************************************************************)
EXTENDS ControlPlane, SumTheorems

-----------------------------------------------------------------------------
(* Type correctness: what the tasks share                                  *)

\* A part of the state whose variables an action leaves alone keeps its type.
LEMMA Untouched ==
  ASSUME TypeOK
  PROVE  /\ UNCHANGED chainVars => ChainType'
         /\ UNCHANGED xrayVars => XrayType'
         /\ UNCHANGED relayVars => RelayType'
         /\ UNCHANGED <<object, storeVars>> => StoreType'
         /\ UNCHANGED tick => TickType'
         /\ UNCHANGED auto => AutoType'
         /\ UNCHANGED handler => HandlerType'
         /\ UNCHANGED <<restarts, historyVars>> => HistoryType'
<1> USE DEF TypeOK
<1>1. UNCHANGED chainVars => ChainType'
  BY DEF chainVars, ChainType
<1>2. UNCHANGED xrayVars => XrayType'
  BY DEF xrayVars, countVars, XrayType
<1>3. UNCHANGED relayVars => RelayType'
  BY DEF relayVars, RelayType
<1>4. UNCHANGED <<object, storeVars>> => StoreType'
  BY DEF storeVars, StoreType
<1>5. UNCHANGED tick => TickType'
  BY DEF TickType
<1>6. UNCHANGED auto => AutoType'
  BY DEF AutoType
<1>7. UNCHANGED handler => HandlerType'
  BY DEF HandlerType
<1>8. UNCHANGED <<restarts, historyVars>> => HistoryType'
  BY DEF historyVars, HistoryType
<1> QED BY <1>1, <1>2, <1>3, <1>4, <1>5, <1>6, <1>7, <1>8

LEMMA MaxesAreNats ==
  MaxFaults \in Nat /\ MaxRestarts \in Nat /\ MaxObjects \in Nat \ {0}
BY ControlPlaneAssumption

LEMMA QuotaIsNat ==
  ASSUME NEW balance \in Nat
  PROVE  QuotaBytes(balance) \in Nat
BY ControlPlaneAssumption DEF QuotaBytes

LEMMA AnswerIsNat ==
  ASSUME ChainType, NEW w \in Wallets, NEW b \in Answers(w)
  PROVE  b \in Nat
BY DEF ChainType, Answers

LEMMA ObjectParts ==
  ASSUME NEW u \in Objects
  PROVE  /\ u[1] \in Wallets /\ u[2] \in 1..MaxObjects
         /\ u = <<u[1], u[2]>> /\ u # NoObject
BY ControlPlaneAssumption DEF Objects, NoObject

LEMMA NewUserType == NewUser \in UserRecord
BY DEF NewUser, UserRecord

\* What the tasks make of a User object is a User object.
LEMMA UserSteps ==
  ASSUME NEW user \in UserRecord, NEW n \in Nat
  PROVE  /\ Refreshed(user, n) \in UserRecord
         /\ Metered(user, n) \in UserRecord
         /\ [user EXCEPT !.unsettledBytes = n] \in UserRecord
         /\ TabLess(user.unsettledBytes, n) \in Nat
<1>1. /\ user.unsettledBytes \in Nat
      /\ (user.unsettledBytes < QuotaBytes(n)) \in BOOLEAN
  BY DEF UserRecord
<1>2. Refreshed(user, n) \in UserRecord
  BY <1>1, Zenon DEF Refreshed, UserRecord
<1>3. user.unsettledBytes + n \in Nat
  BY <1>1
<1>4. Metered(user, n) \in UserRecord
  BY <1>3, Zenon DEF Metered, UserRecord
<1>5. [user EXCEPT !.unsettledBytes = n] \in UserRecord
  BY Zenon DEF UserRecord
<1>6. TabLess(user.unsettledBytes, n) \in Nat
  BY <1>1 DEF TabLess
<1> QED BY <1>2, <1>4, <1>5, <1>6

LEMMA SavedType ==
  ASSUME NEW ptr \in [Wallets -> 0..MaxObjects],
         NEW pays \in [Sigs -> PaymentRecord],
         NEW obj \in [Objects -> UserRecord]
  PROVE  Saved(ptr, pays, obj) \in StoreFile
<1>1. \A w \in Wallets : ptr[w] # 0 => <<w, ptr[w]>> \in Objects
  BY DEF Objects
<1>2. [w \in Wallets |-> IF ptr[w] = 0 THEN NewUser ELSE obj[<<w, ptr[w]>>]]
        \in [Wallets -> UserRecord]
  BY <1>1, NewUserType
<1> QED BY <1>2 DEF Saved, StoreFile

LEMMA AllObjects == StoreType => All \subseteq Objects
BY DEF StoreType, All, Objects

LEMMA NoBytesType ==
  /\ NoBytes \in [Wallets -> Nat] /\ NoExitBytes \in [Ports -> Nat]
BY DEF NoBytes, NoExitBytes

-----------------------------------------------------------------------------
(* Reconciling and billing                                                 *)

LEMMA LiveExitsType ==
  ASSUME RelayType', NEW live \in LiveExits
  PROVE  live \subseteq Ports \X ExitKeys
<1>1. \A p \in Ports : exit_profile'[p].fresh => exit_profile'[p].key \in ExitKeys
  BY DEF RelayType
<1>2. {<<p, exit_profile'[p].key>> : p \in {q \in Ports : exit_profile'[q].fresh}}
        \subseteq Ports \X ExitKeys
  BY <1>1
<1> QED BY <1>2 DEF LiveExits

LEMMA LoadsType ==
  ASSUME NEW cfg \in XrayConfig, Loads(cfg)
  PROVE  /\ counter' \in [Wallets -> Nat] /\ exit_counter' \in [Ports -> Nat]
         /\ xray_on' \subseteq Objects /\ exits_on' \subseteq Ports \X ExitKeys
BY NoBytesType DEF Loads, XrayConfig

LEMMA ReconcileType ==
  ASSUME TypeOK, RelayType', Reconcile
  PROVE  XrayType'
<1> USE DEF TypeOK
<1>0. ActiveUsers(users', object') \subseteq Objects
  BY DEF ActiveUsers
<1>1. CASE Reconciled
  <2>1. CASE UNCHANGED xrayVars
    BY <2>1, Untouched
  <2>2. ASSUME NEW signed \in LiveExits, NEW rendered \in LiveExits,
               config' = [users |-> ActiveUsers(users', object'),
                          exits |-> rendered],
               Loads(config'), reload_ok' = TRUE, UNCHANGED faults,
               last_applied' = [users |-> ActiveUsers(users', object'),
                                exits |-> signed]
        PROVE  XrayType'
    <3>1. config' \in XrayConfig /\ last_applied' \in XrayConfig
      BY <1>0, <2>2, LiveExitsType DEF XrayConfig
    <3> QED BY <2>2, <3>1, LoadsType DEF XrayType
  <2> QED BY <1>1, <2>1, <2>2 DEF Reconciled
<1>2. CASE ReconcileThrows
  <2>1. PICK rendered \in LiveExits :
          config' = [users |-> ActiveUsers(users', object'),
                     exits |-> rendered]
    BY <1>2 DEF ReconcileThrows
  <2>2. config' \in XrayConfig
    BY <1>0, <2>1, LiveExitsType DEF XrayConfig
  <2>3. Nothing \in XrayConfig
    BY DEF Nothing, XrayConfig
  <2>4. /\ last_applied' \in XrayConfig /\ reload_ok' \in BOOLEAN
        /\ faults' \in 0..MaxFaults
    <3>1. /\ faults < MaxFaults /\ faults' = faults + 1
          /\ reload_ok' = FALSE /\ last_applied' = last_applied
      BY <1>2 DEF ReconcileThrows
    <3>2. faults \in 0..MaxFaults /\ last_applied \in XrayConfig
      BY DEF XrayType
    <3>3. faults' \in 0..MaxFaults
      BY <3>1, <3>2, MaxesAreNats
    <3> QED BY <3>1, <3>2, <3>3
  <2>5. /\ counter' \in [Wallets -> Nat] /\ exit_counter' \in [Ports -> Nat]
        /\ xray_on' \subseteq Objects /\ exits_on' \subseteq Ports \X ExitKeys
    <3>1. CASE Loads(config')
      BY <2>2, <3>1, LoadsType
    <3>2. CASE Loads(Nothing)
      BY <2>3, <3>2, LoadsType
    <3>3. CASE UNCHANGED countVars
      BY <3>3 DEF countVars, XrayType
    <3> QED BY <1>2, <3>1, <3>2, <3>3 DEF ReconcileThrows
  <2> QED BY <2>2, <2>4, <2>5 DEF XrayType
<1> QED BY <1>1, <1>2 DEF Reconcile

LEMMA AutoIdleType ==
  /\ AutoIdle \in AutoRecord /\ TickIdle \in TickRecord
  /\ HandlerIdle \in HandlerRecord
BY NoBytesType, ControlPlaneAssumption
   DEF AutoIdle, AutoRecord, TickIdle, TickRecord, HandlerIdle, HandlerRecord

LEMMA AutoAdvanceType ==
  ASSUME TypeOK, RelayType', StoreType', NEW todo \in SUBSET Objects,
         NEW changed \in BOOLEAN, AutoAdvance(todo, changed)
  PROVE  AutoType' /\ XrayType'
<1>1. CASE \E u \in Billable(todo), skipped \in SUBSET (todo \ Billable(todo)) :
             /\ auto' = [AutoIdle EXCEPT
                           !.pc = "read", !.u = u,
                           !.todo = todo \ (skipped \cup {u}),
                           !.unsettled = object'[u].unsettledBytes,
                           !.changed = changed]
             /\ UNCHANGED xrayVars
  <2>1. PICK u \in Billable(todo), skipped \in SUBSET (todo \ Billable(todo)) :
          /\ auto' = [AutoIdle EXCEPT
                        !.pc = "read", !.u = u,
                        !.todo = todo \ (skipped \cup {u}),
                        !.unsettled = object'[u].unsettledBytes,
                        !.changed = changed]
          /\ UNCHANGED xrayVars
    BY <1>1
  <2>2. u \in Objects /\ object'[u].unsettledBytes \in Nat
    BY DEF Billable, StoreType, UserRecord
  <2>3. auto'.pc = "read" /\ auto'.u = u
    BY <2>1 DEF AutoIdle
  <2>4. auto' \in AutoRecord
    BY <2>1, <2>2 DEF AutoIdle, AutoRecord
  <2> QED BY <2>1, <2>2, <2>3, <2>4, Untouched DEF AutoType
<1>2. CASE /\ Billable(todo) = {}
           /\ auto' = AutoIdle
           /\ EndOfPass(changed)
  <2>1. AutoType'
    BY <1>2, AutoIdleType DEF AutoType, AutoIdle
  <2>2. XrayType'
    BY <1>2, Untouched, ReconcileType DEF EndOfPass
  <2> QED BY <2>1, <2>2
<1> QED BY <1>1, <1>2 DEF AutoAdvance

-----------------------------------------------------------------------------
(* Type correctness: the actions                                           *)

LEMMA InitType == Init => TypeOK
<1> SUFFICES ASSUME Init PROVE TypeOK
  OBVIOUS
<1> USE DEF Init
<1>1. ChainType
  BY ControlPlaneAssumption DEF ChainType
<1>2. XrayType
  BY NoBytesType, MaxesAreNats DEF XrayType, Nothing, XrayConfig
<1>3. RelayType
  BY NoBytesType DEF RelayType, NoProfile, ProfileRecord
<1>4. StoreType
  <2>1. NoPayment \in PaymentRecord
    BY DEF NoPayment, PaymentRecord
  <2> QED BY <2>1, NewUserType, MaxesAreNats DEF StoreType, StoreFile
<1>5. TickType /\ AutoType /\ HandlerType
  BY AutoIdleType
     DEF TickType, AutoType, HandlerType, TickIdle, AutoIdle, HandlerIdle
<1>6. HistoryType
  BY NoBytesType, MaxesAreNats DEF HistoryType
<1> QED BY <1>1, <1>2, <1>3, <1>4, <1>5, <1>6 DEF TypeOK

LEMMA ChainStepType ==
  ASSUME TypeOK, ChainNext
  PROVE  TypeOK'
<1> USE DEF TypeOK
<1>1. ASSUME NEW w \in Wallets, NEW n \in Amounts,
             Deposit(w, n) \/ Withdraw(w, n)
      PROVE  TypeOK'
  <2>1. ChainType'
    <3>1. n \in Nat /\ escrow_balance[w] \in Nat /\ wallet_funds[w] \in Nat
      BY ControlPlaneAssumption DEF ChainType
    <3> QED BY <1>1, <3>1 DEF Deposit, Withdraw, ChainType
  <2> QED BY <1>1, <2>1, Untouched DEF Deposit, Withdraw, processVars
<1>2. ASSUME NEW s \in Sigs, NEW n \in Amounts, Pay(s, n)
      PROVE  TypeOK'
  <2>1. ChainType'
    <3>1. n \in Nat /\ (Payer[s] # None => Payer[s] \in Wallets)
      BY ControlPlaneAssumption
    <3>2. landed' \in [Sigs -> Nat]
      BY <1>2, <3>1 DEF Pay, ChainType
    <3>3. CASE UNCHANGED <<wallet_funds, escrow_balance>>
      BY <3>2, <3>3 DEF ChainType
    <3>4. CASE /\ Payer[s] # None /\ n <= wallet_funds[Payer[s]]
               /\ wallet_funds' = [wallet_funds EXCEPT ![Payer[s]] = @ - n]
               /\ UNCHANGED escrow_balance
      BY <3>1, <3>2, <3>4 DEF ChainType
    <3>5. CASE /\ Payer[s] # None /\ n <= escrow_balance[Payer[s]]
               /\ escrow_balance' = [escrow_balance EXCEPT ![Payer[s]] = @ - n]
               /\ UNCHANGED wallet_funds
      BY <3>1, <3>2, <3>5 DEF ChainType
    <3> QED BY <1>2, <3>3, <3>4, <3>5 DEF Pay
  <2> QED BY <1>2, <2>1, Untouched DEF Pay, processVars
<1>3. CASE BillLands
  <2> DEFINE w == auto.u[1]
  <2>1. w \in Wallets /\ auto.amount \in Nat /\ auto.u \in Objects
    BY <1>3, ObjectParts DEF BillLands, AutoType, AutoRecord
  <2>2. ChainType'
    BY <1>3, <2>1 DEF BillLands, ChainType
  <2>3. HistoryType'
    BY <1>3, <2>1 DEF BillLands, HistoryType
  <2>4. AutoType'
    <3>1. [auto EXCEPT !.pc = "landed"] \in AutoRecord
      BY DEF AutoType, AutoRecord
    <3> QED BY <1>3, <2>1, <3>1 DEF BillLands, AutoType, AutoRecord
  <2> QED BY <1>3, <2>2, <2>3, <2>4, Untouched DEF BillLands
<1> QED BY <1>1, <1>2, <1>3 DEF ChainNext

LEMMA XrayStepType ==
  ASSUME TypeOK,
         \/ \E w \in Wallets, p \in Ports \cup {None} : Serve(w, p)
         \/ XrayRestarts
  PROVE  TypeOK'
<1> USE DEF TypeOK
<1>1. ASSUME NEW w \in Wallets, NEW p \in Ports \cup {None}, Serve(w, p)
      PROVE  TypeOK'
  <2>1. XrayType'
    BY <1>1 DEF Serve, XrayType
  <2>2. RelayType'
    BY <1>1 DEF Serve, RelayType
  <2>3. HistoryType'
    BY <1>1 DEF Serve, HistoryType
  <2> QED BY <1>1, <2>1, <2>2, <2>3, Untouched DEF Serve
<1>2. CASE XrayRestarts
  <2>1. config \in XrayConfig
    BY DEF XrayType
  <2>2. XrayType'
    BY <1>2, <2>1, LoadsType DEF XrayRestarts, XrayType
  <2> QED BY <1>2, <2>2, Untouched DEF XrayRestarts
<1> QED BY <1>1, <1>2

LEMMA RelayStepType ==
  ASSUME TypeOK, TickExits \/ RelayNext
  PROVE  TypeOK'
<1> USE DEF TypeOK
<1>1. CASE TickExits
  <2>1. PICK polled \in BOOLEAN :
          /\ exit_counter' = PolledAndReset(polled)
          /\ exit_profile' = [p \in Ports |->
               Credited(exit_profile[p], IF polled THEN exit_counter[p] ELSE 0)]
    BY <1>1 DEF TickExits
  <2>2. XrayType'
    BY <1>1, <2>1, NoBytesType DEF TickExits, PolledAndReset, XrayType
  <2>3. RelayType'
    <3>1. ASSUME NEW p \in Ports
          PROVE  /\ exit_profile'[p] \in ProfileRecord
                 /\ exit_profile'[p].fresh => exit_profile'[p].known
                 /\ exit_profile'[p].known => exit_profile'[p].key \in ExitKeys
      <4> DEFINE delta == IF polled THEN exit_counter[p] ELSE 0
      <4>1. delta \in Nat /\ exit_profile[p] \in ProfileRecord
        BY DEF XrayType, RelayType
      <4>2. exit_profile'[p] = Credited(exit_profile[p], delta)
        BY <2>1
      <4> HIDE DEF delta
      <4>3. CASE delta = 0 \/ ~exit_profile[p].known
        BY <4>1, <4>2, <4>3 DEF Credited, RelayType
      <4>4. CASE ~(delta = 0 \/ ~exit_profile[p].known)
        <5>1. exit_profile'[p] =
                [exit_profile[p] EXCEPT !.served = exit_profile[p].served + delta,
                                        !.fresh = TRUE]
          BY <4>2, <4>4 DEF Credited
        <5>2. exit_profile[p].served + delta \in Nat
          BY <4>1 DEF ProfileRecord
        <5> QED BY <4>1, <4>4, <5>1, <5>2 DEF ProfileRecord, RelayType
      <4> QED BY <4>3, <4>4
    <3> QED BY <1>1, <2>1, <3>1 DEF TickExits, RelayType
  <2>4. TickType'
    BY <1>1, AutoIdleType DEF TickExits, TickType, TickIdle
  <2> QED BY <1>1, <2>2, <2>3, <2>4, Untouched DEF TickExits
<1>2. ASSUME NEW p \in Ports, NEW key \in ExitKeys, NodeProfile(p, key)
      PROVE  TypeOK'
  <2>1. RelayType'
    <3>1. exit_profile[p].served \in Nat
      BY DEF RelayType, ProfileRecord
    <3>2. Registered(p, key) \in ProfileRecord
      BY <3>1 DEF Registered, ProfileRecord
    <3> QED BY <1>2, <3>2 DEF NodeProfile, RelayType, Registered
  <2>2. XrayType'
    BY <1>2, <2>1, ReconcileType DEF NodeProfile
  <2> QED BY <1>2, <2>1, <2>2, Untouched DEF NodeProfile, storeVars
<1>3. ASSUME NEW p \in Ports, ProfileExpires(p)
      PROVE  TypeOK'
  <2>1. RelayType'
    BY <1>3 DEF ProfileExpires, RelayType, ProfileRecord
  <2> QED BY <1>3, <2>1, Untouched DEF ProfileExpires
<1> QED BY <1>1, <1>2, <1>3 DEF RelayNext

LEMMA TickFinishType ==
  ASSUME TypeOK, object' \in [Objects -> UserRecord], UNCHANGED relayVars,
         TickFinish
  PROVE  StoreType' /\ XrayType' /\ TickType'
<1> USE DEF TypeOK
<1>1. users' \in [Wallets -> 0..MaxObjects]
  <2> DEFINE versionOf(w) == (CHOOSE u \in tick.users : u[1] = w)[2]
  <2>1. ASSUME NEW w \in Wallets, \E u \in tick.users : u[1] = w
        PROVE  versionOf(w) \in 0..MaxObjects
    <3>1. (CHOOSE u \in tick.users : u[1] = w) \in tick.users
      BY <2>1
    <3>2. tick.users \subseteq Objects
      BY DEF TickType, TickRecord
    <3> QED BY <3>1, <3>2, ObjectParts, MaxesAreNats
  <2>2. users' = [w \in Wallets |-> IF \E u \in tick.users : u[1] = w
                                    THEN versionOf(w) ELSE users[w]]
    BY DEF TickFinish
  <2> HIDE DEF versionOf
  <2> QED BY <2>1, <2>2 DEF StoreType
<1>2. payments' \in [Sigs -> PaymentRecord]
  BY DEF TickFinish, StoreType
<1>3. StoreType'
  BY <1>1, <1>2, SavedType DEF TickFinish, Save, StoreType
<1>4. XrayType'
  BY Untouched, ReconcileType DEF TickFinish, Reconcile
<1>5. TickType'
  <2>1. [TickIdle EXCEPT !.pc = "exits"] \in TickRecord
    BY AutoIdleType DEF TickRecord
  <2>2. [TickIdle EXCEPT !.pc = "exits"].pc = "exits" /\ TickIdle.pc = "idle"
    BY DEF TickIdle
  <2>3. tick' = [TickIdle EXCEPT !.pc = "exits"] \/ tick' = TickIdle
    BY DEF TickFinish
  <2>4. tick' \in TickRecord /\ tick'.pc # "read"
    BY <2>1, <2>2, <2>3, AutoIdleType
  <2> QED BY <2>4 DEF TickType
<1> QED BY <1>3, <1>4, <1>5

LEMMA TickStepType ==
  ASSUME TypeOK, TickPoll \/ TickRead \/ TickResume
  PROVE  TypeOK'
<1> USE DEF TypeOK
<1>1. CASE TickPoll
  <2>1. PICK delta \in {counter, NoBytes} :
          /\ counter' = IF delta = counter THEN NoBytes ELSE counter
          /\ disk' = IF delta = NoBytes THEN disk
                     ELSE Saved(users, payments, object)
          /\ \/ /\ All = {}
                /\ tick' = [TickIdle EXCEPT !.pc = "resume"]
                /\ UNCHANGED object
             \/ \E u \in All :
                  /\ object' = [object EXCEPT ![u] = Metered(@, delta[u[1]])]
                  /\ tick' = [pc |-> "read", users |-> All, todo |-> All \ {u},
                              u |-> u, delta |-> delta, balance |-> 0]
    BY <1>1 DEF TickPoll
  <2>2. delta \in [Wallets -> Nat]
    BY NoBytesType DEF XrayType
  <2>3. XrayType'
    BY <1>1, <2>1, NoBytesType DEF TickPoll, XrayType
  <2>4. object' \in [Objects -> UserRecord] /\ TickType'
    <3>1. CASE tick' = [TickIdle EXCEPT !.pc = "resume"] /\ UNCHANGED object
      <4>1. [TickIdle EXCEPT !.pc = "resume"] \in TickRecord
        BY AutoIdleType DEF TickRecord
      <4> QED BY <3>1, <4>1 DEF TickType, StoreType, TickIdle
    <3>2. ASSUME NEW u \in All,
                 object' = [object EXCEPT ![u] = Metered(@, delta[u[1]])],
                 tick' = [pc |-> "read", users |-> All, todo |-> All \ {u},
                          u |-> u, delta |-> delta, balance |-> 0]
          PROVE  object' \in [Objects -> UserRecord] /\ TickType'
      <4>1. u \in Objects /\ All \subseteq Objects
        BY AllObjects
      <4>2. Metered(object[u], delta[u[1]]) \in UserRecord
        BY <2>2, <4>1, ObjectParts, UserSteps DEF StoreType
      <4>3. object' \in [Objects -> UserRecord]
        BY <3>2, <4>1, <4>2 DEF StoreType
      <4>4. TickType'
        BY <2>2, <3>2, <4>1 DEF TickType, TickRecord
      <4> QED BY <4>3, <4>4
    <3> QED BY <2>1, <3>1, <3>2
  <2>5. StoreType'
    BY <1>1, <2>1, <2>4, SavedType DEF TickPoll, StoreType
  <2> QED BY <1>1, <2>3, <2>4, <2>5, Untouched DEF TickPoll
<1>2. CASE TickRead
  <2>1. PICK b \in Answers(tick.u[1]) :
          tick' = [tick EXCEPT !.pc = "resume", !.balance = b]
    BY <1>2 DEF TickRead
  <2>2. b \in Nat
    BY <1>2, AnswerIsNat, ObjectParts DEF TickRead, TickType
  <2>3. TickType'
    BY <2>1, <2>2 DEF TickType, TickRecord
  <2> QED BY <1>2, <2>3, Untouched DEF TickRead
<1>3. CASE TickResume
  <2> DEFINE flipped ==
               IF tick.u = NoObject THEN object
               ELSE [object EXCEPT ![tick.u] = Refreshed(@, tick.balance)]
  <2>1. flipped \in [Objects -> UserRecord]
    <3>1. tick.u \in Objects \cup {NoObject} /\ tick.balance \in Nat
      BY DEF TickType, TickRecord
    <3>2. tick.u \in Objects => Refreshed(object[tick.u], tick.balance) \in UserRecord
      BY <3>1, UserSteps DEF StoreType
    <3> QED BY <3>1, <3>2 DEF StoreType
  <2> HIDE DEF flipped
  <2>2. ASSUME NEW u \in tick.todo,
               object' = [flipped EXCEPT ![u] = Metered(@, tick.delta[u[1]])],
               tick' = [tick EXCEPT !.pc = "read", !.u = u, !.todo = @ \ {u},
                                    !.balance = 0],
               UNCHANGED <<xrayVars, storeVars>>
        PROVE  TypeOK'
    <3>1. u \in Objects /\ tick.delta[u[1]] \in Nat
      <4>1. tick.todo \subseteq Objects /\ tick.delta \in [Wallets -> Nat]
        BY DEF TickType, TickRecord
      <4> QED BY <4>1, ObjectParts
    <3>2. Metered(flipped[u], tick.delta[u[1]]) \in UserRecord
      BY <2>1, <3>1, UserSteps
    <3>3. StoreType'
      BY <2>1, <2>2, <3>1, <3>2 DEF StoreType, storeVars
    <3>4. TickType'
      BY <2>2, <3>1 DEF TickType, TickRecord
    <3> QED BY <1>3, <2>2, <3>3, <3>4, Untouched DEF TickResume
  <2>3. CASE object' = flipped /\ TickFinish
    BY <1>3, <2>1, <2>3, TickFinishType, Untouched DEF TickResume
  <2> QED BY <1>3, <2>2, <2>3 DEF TickResume, flipped
<1> QED BY <1>1, <1>2, <1>3

LEMMA ProvisionStepType ==
  ASSUME TypeOK, NEW h \in Handlers,
         (\E w \in Wallets : ProvisionStart(h, w)) \/ ProvisionResume(h)
  PROVE  TypeOK'
<1> USE DEF TypeOK
<1>1. ASSUME NEW w \in Wallets, ProvisionStart(h, w)
      PROVE  TypeOK'
  <2>1. CASE /\ users[w] # 0
             /\ handler' = [handler EXCEPT ![h] =
                  [HandlerIdle EXCEPT !.pc = "read", !.call = "provision",
                                      !.u = <<w, users[w]>>]]
             /\ UNCHANGED object
    <3>1. <<w, users[w]>> \in Objects
      BY <2>1 DEF StoreType, Objects
    <3>2. HandlerType'
      BY <2>1, <3>1, AutoIdleType DEF HandlerType, HandlerRecord, HandlerIdle
    <3> QED BY <1>1, <2>1, <3>2, Untouched DEF ProvisionStart
  <2>2. CASE /\ users[w] = 0 /\ Fresh(w) # {}
             /\ LET u == <<w, CHOOSE v \in Fresh(w) :
                                \A x \in Fresh(w) : v <= x>>
                IN  /\ object' = [object EXCEPT ![u] = NewUser]
                    /\ handler' = [handler EXCEPT ![h] =
                         [HandlerIdle EXCEPT !.pc = "read",
                                             !.call = "provision",
                                             !.u = u, !.isNew = TRUE]]
    <3> DEFINE v == CHOOSE v \in Fresh(w) : \A x \in Fresh(w) : v <= x
    <3>1. v \in Fresh(w) /\ Fresh(w) \subseteq 1..MaxObjects
      <4>1. Fresh(w) \subseteq Nat /\ Fresh(w) \subseteq 1..MaxObjects
        BY MaxesAreNats DEF Fresh
      <4>2. \E x \in Fresh(w) : \A y \in Fresh(w) : x <= y
        BY <2>2, <4>1, SmallestExists
      <4> QED BY <4>1, <4>2
    <3> HIDE DEF v
    <3>2. <<w, v>> \in Objects
      BY <3>1 DEF Objects
    <3>3. StoreType'
      BY <1>1, <2>2, <3>2, NewUserType
         DEF ProvisionStart, StoreType, storeVars, v
    <3>4. HandlerType'
      <4>1. handler' = [handler EXCEPT ![h] =
                          [HandlerIdle EXCEPT !.pc = "read",
                                              !.call = "provision",
                                              !.u = <<w, v>>, !.isNew = TRUE]]
        BY <2>2 DEF v
      <4> QED BY <3>2, <4>1, AutoIdleType
              DEF HandlerType, HandlerRecord, HandlerIdle
    <3> QED BY <1>1, <3>3, <3>4, Untouched DEF ProvisionStart
  <2> QED BY <1>1, <2>1, <2>2 DEF ProvisionStart
<1>2. CASE ProvisionResume(h)
  <2> DEFINE u == handler[h].u
  <2>1. u \in Objects /\ handler[h].balance \in Nat
    BY <1>2 DEF ProvisionResume, HandlerType, HandlerRecord
  <2>2. object' \in [Objects -> UserRecord]
    <3>1. object' = [object EXCEPT ![u] = Refreshed(@, handler[h].balance)]
      BY <1>2 DEF ProvisionResume
    <3>2. Refreshed(object[u], handler[h].balance) \in UserRecord
      BY <2>1, UserSteps DEF StoreType
    <3> QED BY <2>1, <3>1, <3>2 DEF StoreType
  <2>3. HandlerType'
    BY <1>2, AutoIdleType DEF ProvisionResume, HandlerType, HandlerIdle
  <2>4. RelayType'
    BY <1>2, Untouched DEF ProvisionResume
  <2>5. CASE UNCHANGED <<xrayVars, storeVars>>
    <3>1. StoreType'
      BY <2>2, <2>5 DEF StoreType, storeVars
    <3> QED BY <1>2, <2>3, <2>4, <2>5, <3>1, Untouched DEF ProvisionResume
  <2>6. CASE /\ users' = [users EXCEPT ![u[1]] = u[2]]
             /\ UNCHANGED payments /\ Save /\ Reconcile
    <3>1. users' \in [Wallets -> 0..MaxObjects]
      BY <2>1, <2>6, ObjectParts, MaxesAreNats DEF StoreType
    <3>2. StoreType'
      BY <2>2, <2>6, <3>1, SavedType DEF Save, StoreType
    <3> QED BY <1>2, <2>3, <2>4, <2>6, <3>2, Untouched, ReconcileType
            DEF ProvisionResume
  <2> QED BY <1>2, <2>5, <2>6 DEF ProvisionResume
<1> QED BY <1>1, <1>2

LEMMA SettleStepType ==
  ASSUME TypeOK, NEW h \in Handlers,
         \/ \E w \in Wallets, s \in Sigs : SettleStart(h, w, s)
         \/ HandlerRead(h)
         \/ SettleVerified(h)
         \/ SettleRefused(h)
         \/ SettleResume(h)
  PROVE  TypeOK'
<1> USE DEF TypeOK
<1>1. ASSUME NEW w \in Wallets, NEW s \in Sigs, SettleStart(h, w, s)
      PROVE  TypeOK'
  <2>1. <<w, users[w]>> \in Objects
    <3>1. users[w] \in 0..MaxObjects /\ users[w] # 0
      BY <1>1 DEF SettleStart, StoreType
    <3> QED BY <3>1, MaxesAreNats DEF Objects
  <2>2. HandlerType'
    <3> DEFINE next == [HandlerIdle EXCEPT
                          !.pc = "verify", !.call = "settle",
                          !.u = <<w, users[w]>>, !.sig = s]
    <3>1. /\ next \in HandlerRecord
          /\ next.u \in Objects /\ next.call = "settle" /\ next.sig \in Sigs
      BY <2>1, AutoIdleType DEF HandlerRecord, HandlerIdle
    <3>2. handler' = [handler EXCEPT ![h] = next]
      BY <1>1 DEF SettleStart
    <3> HIDE DEF next
    <3> QED BY <3>1, <3>2 DEF HandlerType
  <2>3. StoreType'
    <3>1. [status |-> "pending", wallet |-> w] \in PaymentRecord
      BY DEF PaymentRecord
    <3>2. CASE UNCHANGED <<object, storeVars>>
      BY <3>2, Untouched
    <3>3. CASE /\ payments' = [payments EXCEPT ![s] =
                                 [status |-> "pending", wallet |-> w]]
               /\ UNCHANGED <<users, object>>
               /\ Save
      BY <3>1, <3>3, SavedType DEF Save, StoreType
    <3> QED BY <1>1, <3>2, <3>3 DEF SettleStart
  <2> QED BY <1>1, <2>2, <2>3, Untouched DEF SettleStart
<1>2. CASE HandlerRead(h)
  <2>1. PICK b \in Answers(handler[h].u[1]) :
          handler' = [handler EXCEPT ![h].pc = "resume", ![h].balance = b]
    BY <1>2 DEF HandlerRead
  <2>2. b \in Nat
    BY <1>2, AnswerIsNat, ObjectParts DEF HandlerRead, HandlerType
  <2>3. HandlerType'
    <3> DEFINE next == [handler[h] EXCEPT !.pc = "resume", !.balance = b]
    <3>1. /\ next \in HandlerRecord
          /\ next.pc = "resume" /\ next.u = handler[h].u
          /\ next.call = handler[h].call /\ next.sig = handler[h].sig
      BY <2>2 DEF HandlerType, HandlerRecord
    <3>2. handler' = [handler EXCEPT ![h] = next]
      BY <2>1 DEF HandlerType
    <3> HIDE DEF next
    <3> QED BY <1>2, <3>1, <3>2 DEF HandlerRead, HandlerType
  <2> QED BY <1>2, <2>3, Untouched DEF HandlerRead
<1>3. CASE SettleVerified(h)
  <2> DEFINE u == handler[h].u
             s == handler[h].sig
             paid == QuotaBytes(landed[s])
  <2>1. u \in Objects
    BY <1>3 DEF SettleVerified, HandlerType
  <2>2. [object[u] EXCEPT
           !.unsettledBytes = TabLess(@, paid),
           !.cleared[s] = IF @ < 2 THEN @ + 1 ELSE 2] \in UserRecord
    <3>1. object[u] \in UserRecord /\ s \in Sigs /\ landed[s] \in Nat
      BY <1>3, <2>1 DEF SettleVerified, StoreType, HandlerType, ChainType
    <3>2. TabLess(object[u].unsettledBytes, paid) \in Nat
      BY <3>1, QuotaIsNat, UserSteps
    <3>3. /\ object[u].cleared \in [Sigs -> 0..2]
          /\ (IF object[u].cleared[s] < 2 THEN object[u].cleared[s] + 1 ELSE 2)
               \in 0..2
      BY <3>1 DEF UserRecord
    <3> HIDE DEF u, s, paid
    <3> QED BY <3>1, <3>2, <3>3, Zenon DEF UserRecord
  <2>3. StoreType'
    BY <1>3, <2>1, <2>2 DEF SettleVerified, StoreType, storeVars
  <2>4. HandlerType'
    BY <1>3 DEF SettleVerified, HandlerType, HandlerRecord
  <2> QED BY <1>3, <2>3, <2>4, Untouched DEF SettleVerified
<1>4. CASE SettleRefused(h)
  <2>1. HandlerType'
    BY <1>4, AutoIdleType DEF SettleRefused, HandlerType, HandlerIdle
  <2>2. StoreType'
    <3>1. CASE UNCHANGED <<object, storeVars>>
      BY <3>1, Untouched
    <3>2. CASE /\ payments' = [payments EXCEPT ![handler[h].sig] = NoPayment]
               /\ UNCHANGED <<users, object>>
               /\ Save
      <4>1. NoPayment \in PaymentRecord
        BY DEF NoPayment, PaymentRecord
      <4> QED BY <3>2, <4>1, SavedType DEF Save, StoreType
    <3> QED BY <1>4, <3>1, <3>2 DEF SettleRefused
  <2> QED BY <1>4, <2>1, <2>2, Untouched DEF SettleRefused
<1>5. CASE SettleResume(h)
  <2> DEFINE u == handler[h].u
             s == handler[h].sig
  <2>1. u \in Objects /\ handler[h].balance \in Nat
    BY <1>5 DEF SettleResume, HandlerType, HandlerRecord
  <2>2. object' \in [Objects -> UserRecord]
    <3>1. object' = [object EXCEPT ![u] = Refreshed(@, handler[h].balance)]
      BY <1>5 DEF SettleResume
    <3>2. Refreshed(object[u], handler[h].balance) \in UserRecord
      BY <2>1, UserSteps DEF StoreType
    <3> QED BY <2>1, <3>1, <3>2 DEF StoreType
  <2>3. HandlerType'
    BY <1>5, AutoIdleType DEF SettleResume, HandlerType, HandlerIdle
  <2>4. RelayType'
    BY <1>5, Untouched DEF SettleResume
  <2>5. CASE UNCHANGED <<xrayVars, storeVars>>
    <3>1. StoreType'
      BY <2>2, <2>5 DEF StoreType, storeVars
    <3> QED BY <1>5, <2>3, <2>4, <2>5, <3>1, Untouched DEF SettleResume
  <2>6. CASE /\ users' = [users EXCEPT ![u[1]] = u[2]]
             /\ payments' = [payments EXCEPT ![s].status = "processed"]
             /\ Save /\ Reconcile
    <3>1. users' \in [Wallets -> 0..MaxObjects]
      BY <2>1, <2>6, ObjectParts, MaxesAreNats DEF StoreType
    <3>2. payments' \in [Sigs -> PaymentRecord]
      BY <2>6 DEF StoreType, PaymentRecord
    <3>3. StoreType'
      BY <2>2, <2>6, <3>1, <3>2, SavedType DEF Save, StoreType
    <3> QED BY <1>5, <2>3, <2>4, <2>6, <3>3, Untouched, ReconcileType
            DEF SettleResume
  <2> QED BY <1>5, <2>5, <2>6 DEF SettleResume
<1> QED BY <1>1, <1>2, <1>3, <1>4, <1>5

LEMMA AutoStepType ==
  ASSUME TypeOK, AutoNext
  PROVE  TypeOK'
<1> USE DEF TypeOK
<1>1. CASE AutoStart
  <2>1. RelayType' /\ StoreType'
    BY <1>1, Untouched DEF AutoStart
  <2>2. AutoType' /\ XrayType'
    BY <1>1, <2>1, AutoAdvanceType, AllObjects DEF AutoStart
  <2> QED BY <1>1, <2>1, <2>2, Untouched DEF AutoStart
<1>2. CASE AutoRead
  <2>1. PICK b \in Answers(auto.u[1]) :
          auto' = [auto EXCEPT !.pc = IF @ = "read" THEN "bill" ELSE "resume",
                               !.balance = b]
    BY <1>2 DEF AutoRead
  <2>2. b \in Nat
    BY <1>2, AnswerIsNat, ObjectParts DEF AutoRead, AutoType
  <2>3. AutoType'
    BY <1>2, <2>1, <2>2 DEF AutoRead, AutoType, AutoRecord
  <2> QED BY <1>2, <2>3, Untouched DEF AutoRead
<1>3. CASE AutoBill
  <2> DEFINE owed == CostBaseUnits(auto.unsettled)
             amount == IF owed < auto.balance THEN owed ELSE auto.balance
  <2>1. amount \in Nat /\ auto.todo \in SUBSET Objects /\ auto.changed \in BOOLEAN
    <3>1. owed \in Nat /\ auto.balance \in Nat
      BY ControlPlaneAssumption DEF AutoType, AutoRecord, CostBaseUnits
    <3> QED BY <3>1 DEF AutoType, AutoRecord
  <2>2. RelayType' /\ StoreType'
    BY <1>3, Untouched DEF AutoBill
  <2>3. CASE AutoAdvance(auto.todo, auto.changed)
    BY <1>3, <2>1, <2>2, <2>3, AutoAdvanceType, Untouched DEF AutoBill
  <2>4. CASE /\ auto' = [auto EXCEPT !.pc = "sent", !.amount = amount]
             /\ UNCHANGED xrayVars
    <3>1. AutoType'
      <4> HIDE DEF amount
      <4> QED BY <1>3, <2>1, <2>4 DEF AutoBill, AutoType, AutoRecord
    <3> QED BY <1>3, <2>2, <2>4, <3>1, Untouched DEF AutoBill
  <2> QED BY <1>3, <2>3, <2>4 DEF AutoBill
<1>4. CASE AutoFailed
  <2>1. RelayType' /\ StoreType'
    BY <1>4, Untouched DEF AutoFailed
  <2>2. AutoType' /\ XrayType'
    BY <1>4, <2>1, AutoAdvanceType DEF AutoFailed, AutoType, AutoRecord
  <2>3. HistoryType'
    BY <1>4, ObjectParts DEF AutoFailed, HistoryType, AutoType
  <2> QED BY <1>4, <2>1, <2>2, <2>3, Untouched DEF AutoFailed
<1>5. CASE AutoBooked
  <2>1. auto.u \in Objects /\ auto.unsettled \in Nat /\ auto.amount \in Nat
    BY <1>5 DEF AutoBooked, AutoType, AutoRecord
  <2>2. TabAfterBill(auto.unsettled, auto.amount) \in Nat
    BY <2>1, QuotaIsNat DEF TabAfterBill, TabLess
  <2>3. StoreType'
    <3>1. object[auto.u] \in UserRecord
      BY <2>1 DEF StoreType
    <3>2. [object[auto.u] EXCEPT
             !.unsettledBytes = TabAfterBill(auto.unsettled, auto.amount)]
            \in UserRecord
      BY <2>2, <3>1, UserSteps
    <3> QED BY <1>5, <2>1, <3>2 DEF AutoBooked, StoreType, storeVars
  <2>4. AutoType'
    BY <1>5 DEF AutoBooked, AutoType, AutoRecord
  <2> QED BY <1>5, <2>3, <2>4, Untouched DEF AutoBooked
<1>6. CASE AutoResume
  <2>1. /\ auto.u \in Objects /\ auto.balance \in Nat
        /\ auto.todo \in SUBSET Objects
    BY <1>6 DEF AutoResume, AutoType, AutoRecord
  <2>2. object' \in [Objects -> UserRecord]
    <3>1. Refreshed(object[auto.u], auto.balance) \in UserRecord
      BY <2>1, UserSteps DEF StoreType
    <3> QED BY <1>6, <2>1, <3>1 DEF AutoResume, StoreType
  <2>3. users' \in [Wallets -> 0..MaxObjects]
    BY <1>6, <2>1, ObjectParts, MaxesAreNats DEF AutoResume, StoreType
  <2>4. StoreType'
    BY <1>6, <2>2, <2>3, SavedType DEF AutoResume, Save, StoreType
  <2>5. RelayType'
    BY <1>6, Untouched DEF AutoResume
  <2>6. AutoType' /\ XrayType'
    BY <1>6, <2>1, <2>4, <2>5, AutoAdvanceType DEF AutoResume
  <2> QED BY <1>6, <2>4, <2>5, <2>6, Untouched DEF AutoResume
<1> QED BY <1>1, <1>2, <1>3, <1>4, <1>5, <1>6 DEF AutoNext

LEMMA RestartType ==
  ASSUME TypeOK, Restart
  PROVE  TypeOK'
<1> USE DEF TypeOK
<1>1. RelayType' /\ ChainType'
  BY Untouched DEF Restart
<1>2. StoreType'
  <2>1. disk \in StoreFile
    BY DEF StoreType
  <2>2. object' \in [Objects -> UserRecord]
    BY <2>1, ObjectParts, NewUserType DEF Restart, StoreFile
  <2>3. users' \in [Wallets -> 0..MaxObjects]
    BY <2>1 DEF Restart, StoreFile
  <2>4. payments' \in [Sigs -> PaymentRecord]
    <3>1. NoPayment \in PaymentRecord
      BY DEF NoPayment, PaymentRecord
    <3> QED BY <2>1, <3>1 DEF Restart, StoreFile
  <2> QED BY <2>2, <2>3, <2>4, SavedType DEF Restart, Save, StoreType
<1>3. XrayType'
  <2>1. PICK rendered \in LiveExits :
          config' = [users |-> ActiveUsers(users', object'),
                     exits |-> rendered]
    BY DEF Restart
  <2>2. PICK signed \in LiveExits : last_applied' = [config' EXCEPT !.exits = signed]
    BY DEF Restart
  <2>3. config' \in XrayConfig
    BY <1>1, <2>1, LiveExitsType DEF ActiveUsers, XrayConfig
  <2>4. last_applied' \in XrayConfig
    BY <1>1, <2>2, <2>3, LiveExitsType DEF XrayConfig
  <2> QED BY <2>3, <2>4, LoadsType DEF Restart, XrayType
<1>4. TickType' /\ AutoType' /\ HandlerType'
  BY AutoIdleType
     DEF Restart, TickType, TickIdle, AutoType, AutoIdle, HandlerType,
         HandlerIdle
<1>5. HistoryType'
  <2>1. auto.pc # "idle" => auto.u[1] \in Wallets
    BY ObjectParts DEF AutoType
  <2>2. restarts' \in 0..MaxRestarts
    BY MaxesAreNats DEF Restart, HistoryType
  <2> QED BY <2>1, <2>2 DEF Restart, HistoryType
<1> QED BY <1>1, <1>2, <1>3, <1>4, <1>5

LEMMA NextType == TypeOK /\ [Next]_vars => TypeOK'
<1> SUFFICES ASSUME TypeOK, [Next]_vars PROVE TypeOK'
  OBVIOUS
<1>1. CASE UNCHANGED vars
  BY <1>1, Untouched DEF vars, TypeOK
<1>2. CASE TickNext
  BY <1>2, TickStepType, RelayStepType DEF TickNext
<1>3. CASE HandlerNext
  BY <1>3, ProvisionStepType, SettleStepType DEF HandlerNext
<1> QED BY <1>1, <1>2, <1>3, ChainStepType, XrayStepType, RelayStepType,
           AutoStepType, RestartType DEF Next

\* Every variable of the control plane has its type in every reachable state:
\* no tab, balance or counter goes below zero, and no task acts on an object
\* that is none, whatever the interleaving of metering, billing and requests.
THEOREM ControlPlaneType == Spec => []TypeOK
BY InitType, NextType, PTL DEF Spec

-----------------------------------------------------------------------------
(* The bytes credited to exits                                             *)

CountersKept ==
  /\ \A p \in Ports : exit_profile'[p].served = exit_profile[p].served
  /\ carried' = carried
  /\ exit_counter' \in {exit_counter, NoExitBytes}

LEMMA ReconcileCounters ==
  ASSUME Reconcile \/ UNCHANGED xrayVars
  PROVE  exit_counter' \in {exit_counter, NoExitBytes}
BY DEF Reconcile, Reconciled, ReconcileThrows, Loads, xrayVars, countVars

LEMMA AdvanceCounters ==
  ASSUME NEW todo, NEW changed, AutoAdvance(todo, changed)
  PROVE  exit_counter' \in {exit_counter, NoExitBytes}
BY ReconcileCounters DEF AutoAdvance, EndOfPass

\* Outside Serve and TickExits no step moves a credit, only counters reset.
LEMMA CountersSteps ==
  ASSUME TypeOK, Next
  PROVE  \/ CountersKept
         \/ TickExits
         \/ \E w \in Wallets, p \in Ports \cup {None} : Serve(w, p)
<1> USE DEF CountersKept
<1>1. CASE ChainNext
  BY <1>1 DEF ChainNext, Deposit, Withdraw, Pay, BillLands, processVars,
              relayVars, xrayVars, countVars
<1>2. CASE XrayRestarts
  BY <1>2 DEF XrayRestarts, Loads, relayVars
<1>3. CASE TickPoll \/ TickRead
  BY <1>3 DEF TickPoll, TickRead, relayVars, xrayVars, countVars
<1>4. CASE TickResume
  <2>1. exit_counter' \in {exit_counter, NoExitBytes}
    BY <1>4, ReconcileCounters DEF TickResume, TickFinish, Reconcile
  <2> QED BY <1>4, <2>1 DEF TickResume, relayVars
<1>5. ASSUME NEW p \in Ports, NEW key \in ExitKeys, NodeProfile(p, key)
      PROVE  CountersKept
  <2>1. exit_profile' = [exit_profile EXCEPT ![p] = Registered(p, key)]
    BY <1>5 DEF NodeProfile
  <2>2. Registered(p, key).served = exit_profile[p].served
    BY DEF Registered
  <2> QED BY <1>5, <2>1, <2>2, ReconcileCounters
          DEF NodeProfile, TypeOK, RelayType
<1>6. ASSUME NEW p \in Ports, ProfileExpires(p)
      PROVE  CountersKept
  BY <1>6 DEF ProfileExpires, TypeOK, RelayType, ProfileRecord, xrayVars,
              countVars
<1>7. ASSUME NEW h \in Handlers,
             \/ \E w \in Wallets : ProvisionStart(h, w)
             \/ \E w \in Wallets, s \in Sigs : SettleStart(h, w, s)
             \/ HandlerRead(h)
             \/ SettleVerified(h)
             \/ SettleRefused(h)
      PROVE  CountersKept
  BY <1>7 DEF ProvisionStart, SettleStart, HandlerRead, SettleVerified,
              SettleRefused, relayVars, xrayVars, countVars
<1>8. ASSUME NEW h \in Handlers, ProvisionResume(h) \/ SettleResume(h)
      PROVE  CountersKept
  BY <1>8, ReconcileCounters DEF ProvisionResume, SettleResume, relayVars
<1>9. CASE AutoStart \/ AutoBill \/ AutoFailed \/ AutoResume
  BY <1>9, AdvanceCounters, ReconcileCounters
     DEF AutoStart, AutoBill, AutoFailed, AutoResume, relayVars
<1>10. CASE AutoRead \/ AutoBooked
  BY <1>10 DEF AutoRead, AutoBooked, relayVars, xrayVars, countVars
<1>11. CASE Restart
  BY <1>11 DEF Restart, Loads, relayVars
<1> QED BY <1>1, <1>2, <1>3, <1>4, <1>5, <1>6, <1>7, <1>8, <1>9, <1>10, <1>11
           DEF Next, TickNext, RelayNext, HandlerNext, AutoNext

\* What a credit adds is what the counter had.
LEMMA CreditAdds ==
  ASSUME NEW profile \in ProfileRecord, NEW delta \in Nat
  PROVE  /\ Credited(profile, delta).served \in Nat
         /\ Credited(profile, delta).served >= profile.served
         /\ Credited(profile, delta).served <= profile.served + delta
BY DEF Credited, ProfileRecord

LEMMA PollStep ==
  ASSUME TypeOK, TickExits, NEW p \in Ports
  PROVE  /\ exit_profile'[p].served >= exit_profile[p].served
         /\ exit_profile'[p].served + exit_counter'[p]
              <= exit_profile[p].served + exit_counter[p]
         /\ carried' = carried
<1>1. PICK polled \in BOOLEAN :
        /\ exit_counter' = PolledAndReset(polled)
        /\ exit_profile' = [q \in Ports |->
             Credited(exit_profile[q], IF polled THEN exit_counter[q] ELSE 0)]
  BY DEF TickExits
<1>2. /\ exit_counter[p] \in Nat /\ exit_profile[p] \in ProfileRecord
      /\ exit_profile[p].served \in Nat
  BY DEF TypeOK, XrayType, RelayType, ProfileRecord
<1>3. carried' = carried
  BY DEF TickExits
<1>4. CASE polled
  <2>1. exit_counter'[p] = 0
    BY <1>1, <1>4 DEF PolledAndReset, NoExitBytes
  <2>2. exit_profile'[p] = Credited(exit_profile[p], exit_counter[p])
    BY <1>1, <1>4
  <2> QED BY <1>2, <1>3, <2>1, <2>2, CreditAdds
<1>5. CASE ~polled
  <2>1. exit_counter'[p] = exit_counter[p]
    BY <1>1, <1>5 DEF PolledAndReset
  <2>2. exit_profile'[p] = exit_profile[p]
    BY <1>1, <1>5 DEF Credited
  <2> QED BY <1>2, <1>3, <2>1, <2>2
<1> QED BY <1>4, <1>5

LEMMA CreditedStep ==
  ASSUME TypeOK, CreditedIsCarried, [Next]_vars
  PROVE  /\ CreditedIsCarried'
         /\ \A p \in Ports : exit_profile'[p].served >= exit_profile[p].served
<1> SUFFICES ASSUME NEW p \in Ports
             PROVE  /\ exit_profile'[p].served + exit_counter'[p] <= carried'[p]
                    /\ exit_profile'[p].served >= exit_profile[p].served
  BY DEF CreditedIsCarried
<1>1. /\ exit_profile[p].served \in Nat /\ exit_counter[p] \in Nat
      /\ carried[p] \in Nat
      /\ exit_profile[p].served + exit_counter[p] <= carried[p]
  BY DEF TypeOK, XrayType, RelayType, ProfileRecord, CreditedIsCarried
<1>2. CASE CountersKept
  BY <1>1, <1>2 DEF CountersKept, NoExitBytes
<1>3. CASE TickExits
  <2>1. /\ exit_profile'[p].served \in Nat /\ exit_counter'[p] \in Nat
    BY <1>3, RelayStepType DEF TypeOK, XrayType, RelayType, ProfileRecord
  <2> QED BY <1>1, <1>3, <2>1, PollStep
<1>4. ASSUME NEW w \in Wallets, NEW q \in Ports \cup {None}, Serve(w, q)
      PROVE  /\ exit_profile'[p].served + exit_counter'[p] <= carried'[p]
             /\ exit_profile'[p].served >= exit_profile[p].served
  <2>1. exit_profile' = exit_profile
    BY <1>4 DEF Serve
  <2>2. \/ exit_counter'[p] = exit_counter[p] /\ carried'[p] = carried[p]
        \/ exit_counter'[p] = exit_counter[p] + 1 /\ carried'[p] = carried[p] + 1
    BY <1>4 DEF Serve, TypeOK, XrayType, RelayType
  <2> QED BY <1>1, <2>1, <2>2
<1>5. CASE UNCHANGED vars
  BY <1>1, <1>5 DEF vars, xrayVars, countVars, relayVars
<1> QED BY <1>2, <1>3, <1>4, <1>5, CountersSteps

\* An exit is never credited with a byte that did not go through it, and with
\* none twice, however polls fail, exits register again, Xray loses its
\* counters and the relay crashes.
THEOREM CreditedIsCarriedAlways == Spec => []CreditedIsCarried
<1>1. Init => CreditedIsCarried
  BY DEF Init, CreditedIsCarried, NoProfile, NoExitBytes
<1>2. TypeOK /\ CreditedIsCarried /\ [Next]_vars => CreditedIsCarried'
  BY CreditedStep
<1> QED BY <1>1, <1>2, ControlPlaneType, PTL DEF Spec

\* The reward basis of an exit never shrinks.
THEOREM CreditIsKept == Spec => CreditKept
<1>1. TypeOK /\ CreditedIsCarried /\ [Next]_vars =>
        [\A p \in Ports : exit_profile'[p].served >= exit_profile[p].served]_vars
  BY CreditedStep
<1> QED BY <1>1, ControlPlaneType, CreditedIsCarriedAlways, PTL
        DEF Spec, CreditKept

-----------------------------------------------------------------------------
(* The payment ledger                                                      *)

\* A settle call that has verified its payment.
Verified(h) ==
  handler[h].call = "settle" /\ handler[h].pc \in {"read", "resume"}

\* Why a payment can be marked: the store on disk and in memory hold the same
\* records, each of a wallet, and behind a verified call is a payment on the
\* chain by the wallet that called.
VerifiedPaid ==
  \A h \in Handlers : Verified(h) => PaidBy(handler[h].sig, handler[h].u[1])
LedgerInv ==
  /\ disk.payments = payments
  /\ \A s \in Sigs :
       payments[s] # NoPayment =>
         payments[s].wallet \in Wallets /\ payments[s].status # "none"
  /\ VerifiedPaid
  /\ ProcessedIsPaid

\* What all steps keep outside the settle calls and a crash.
LedgerKept ==
  /\ payments' = payments /\ disk'.payments \in {payments, disk.payments}
  /\ \A s \in Sigs : landed[s] > 0 => landed'[s] = landed[s]
  /\ \A h \in Handlers :
       \/ handler'[h] = handler[h]
       \/ /\ handler'[h].call # "settle"
          /\ handler[h].pc # "idle" => handler[h].call # "settle"
  /\ \A u \in Objects, s \in Sigs :
       object'[u].cleared[s] \in {object[u].cleared[s], 0}
  /\ restarts' = restarts

LEMMA SavedPayments ==
  ASSUME NEW ptr, NEW pays, NEW obj
  PROVE  Saved(ptr, pays, obj).payments = pays
BY DEF Saved

LEMMA ClearedBySteps ==
  ASSUME NEW user \in UserRecord, NEW n \in Nat
  PROVE  /\ Refreshed(user, n).cleared = user.cleared
         /\ Metered(user, n).cleared = user.cleared
         /\ [user EXCEPT !.unsettledBytes = n].cleared = user.cleared
BY DEF Refreshed, Metered, UserRecord

LEMMA LedgerSteps ==
  ASSUME TypeOK, Next
  PROVE  \/ LedgerKept
         \/ Restart
         \/ \E h \in Handlers :
              \/ \E w \in Wallets, s \in Sigs : SettleStart(h, w, s)
              \/ HandlerRead(h)
              \/ SettleVerified(h)
              \/ SettleRefused(h)
              \/ SettleResume(h)
<1> USE DEF LedgerKept, TypeOK
<1>0. \A u \in Objects : object[u] \in UserRecord
  BY DEF StoreType
<1>1. CASE ChainNext
  <2>1. \A s \in Sigs : landed[s] > 0 => landed'[s] = landed[s]
    BY <1>1 DEF ChainNext, Deposit, Withdraw, Pay, BillLands, ChainType
  <2>2. UNCHANGED <<object, storeVars, handler, restarts>>
    BY <1>1 DEF ChainNext, Deposit, Withdraw, Pay, BillLands, processVars
  <2> QED BY <2>1, <2>2 DEF storeVars
<1>2. ASSUME UNCHANGED <<chainVars, object, storeVars, handler, restarts>>
      PROVE  LedgerKept
  BY <1>2 DEF chainVars, storeVars
<1>3. CASE \/ \E w \in Wallets, p \in Ports \cup {None} : Serve(w, p)
           \/ XrayRestarts \/ TickRead \/ TickExits \/ RelayNext
           \/ AutoStart \/ AutoRead \/ AutoBill \/ AutoFailed
  BY <1>2, <1>3
     DEF Serve, XrayRestarts, TickRead, TickExits, RelayNext, NodeProfile,
         ProfileExpires, AutoStart, AutoRead, AutoBill, AutoFailed, storeVars
<1>4. ASSUME UNCHANGED <<chainVars, payments, handler, restarts>>,
             disk'.payments \in {payments, disk.payments},
             \A u \in Objects : object'[u].cleared = object[u].cleared
      PROVE  LedgerKept
  BY <1>4 DEF chainVars
<1>5. CASE TickPoll
  <2>1. disk'.payments \in {payments, disk.payments}
    BY <1>5, SavedPayments DEF TickPoll
  <2>2. \A u \in Objects : object'[u].cleared = object[u].cleared
    <3>1. ASSUME NEW delta \in {counter, NoBytes}, NEW u \in All,
                 object' = [object EXCEPT ![u] = Metered(@, delta[u[1]])]
          PROVE  \A x \in Objects : object'[x].cleared = object[x].cleared
      <4>1. u \in Objects /\ delta[u[1]] \in Nat
        BY AllObjects, NoBytesType, ObjectParts DEF XrayType
      <4> QED BY <1>0, <3>1, <4>1, ClearedBySteps DEF StoreType
    <3> QED BY <1>5, <3>1 DEF TickPoll
  <2> QED BY <1>4, <1>5, <2>1, <2>2 DEF TickPoll
<1>6. CASE TickResume
  <2> DEFINE flipped ==
               IF tick.u = NoObject THEN object
               ELSE [object EXCEPT ![tick.u] = Refreshed(@, tick.balance)]
  <2>1. /\ flipped \in [Objects -> UserRecord]
        /\ \A u \in Objects : flipped[u].cleared = object[u].cleared
    <3>1. tick.u \in Objects \cup {NoObject} /\ tick.balance \in Nat
      BY DEF TickType, TickRecord
    <3>2. tick.u \in Objects =>
            /\ Refreshed(object[tick.u], tick.balance) \in UserRecord
            /\ Refreshed(object[tick.u], tick.balance).cleared
                 = object[tick.u].cleared
      BY <1>0, <3>1, UserSteps, ClearedBySteps
    <3> QED BY <3>1, <3>2 DEF StoreType
  <2> HIDE DEF flipped
  <2>2. ASSUME NEW u \in tick.todo,
               object' = [flipped EXCEPT ![u] = Metered(@, tick.delta[u[1]])],
               UNCHANGED storeVars
        PROVE  LedgerKept
    <3>1. u \in Objects /\ tick.delta[u[1]] \in Nat
      BY ObjectParts DEF TickType, TickRecord
    <3>2. Metered(flipped[u], tick.delta[u[1]]).cleared = flipped[u].cleared
      BY <2>1, <3>1, ClearedBySteps
    <3>3. \A x \in Objects : object'[x].cleared = object[x].cleared
      BY <2>1, <2>2, <3>1, <3>2
    <3> QED BY <1>4, <1>6, <2>2, <3>3 DEF TickResume, storeVars
  <2>3. CASE object' = flipped /\ TickFinish
    <3>1. payments' = payments /\ disk'.payments = payments
      BY <2>3, SavedPayments DEF TickFinish, Save
    <3>2. UNCHANGED <<chainVars, handler, restarts>>
      BY <1>6 DEF TickResume
    <3> QED BY <1>4, <2>1, <2>3, <3>1, <3>2
  <2> QED BY <1>6, <2>2, <2>3 DEF TickResume, flipped
<1>7. CASE AutoBooked
  <2>1. auto.u \in Objects /\ auto.unsettled \in Nat /\ auto.amount \in Nat
    BY <1>7 DEF AutoBooked, AutoType, AutoRecord
  <2>2. TabAfterBill(auto.unsettled, auto.amount) \in Nat
    BY <2>1, QuotaIsNat DEF TabAfterBill, TabLess
  <2>3. \A u \in Objects : object'[u].cleared = object[u].cleared
    BY <1>0, <1>7, <2>1, <2>2, ClearedBySteps DEF AutoBooked, StoreType
  <2> QED BY <1>4, <1>7, <2>3 DEF AutoBooked, storeVars
<1>8. CASE AutoResume
  <2>1. auto.u \in Objects /\ auto.balance \in Nat
    BY <1>8 DEF AutoResume, AutoType, AutoRecord
  <2>2. \A u \in Objects : object'[u].cleared = object[u].cleared
    BY <1>0, <1>8, <2>1, ClearedBySteps DEF AutoResume, StoreType
  <2>3. disk'.payments = payments
    BY <1>8, SavedPayments DEF AutoResume, Save
  <2> QED BY <1>4, <1>8, <2>2, <2>3 DEF AutoResume
<1>9. ASSUME NEW h \in Handlers, NEW w \in Wallets, ProvisionStart(h, w)
      PROVE  LedgerKept
  <2>1. /\ handler[h].pc = "idle" /\ handler'[h].call = "provision"
        /\ \A x \in Handlers : x # h => handler'[x] = handler[x]
    BY <1>9 DEF ProvisionStart, HandlerType, HandlerIdle
  <2>2. \A u \in Objects, s \in Sigs :
          object'[u].cleared[s] \in {object[u].cleared[s], 0}
    <3>1. CASE UNCHANGED object
      BY <3>1
    <3>2. ASSUME NEW u, object' = [object EXCEPT ![u] = NewUser]
          PROVE  \A x \in Objects, s \in Sigs :
                   object'[x].cleared[s] \in {object[x].cleared[s], 0}
      BY <3>2 DEF NewUser, StoreType
    <3> QED BY <1>9, <3>1, <3>2 DEF ProvisionStart
  <2> QED BY <1>9, <2>1, <2>2 DEF ProvisionStart, chainVars, storeVars
<1>10. ASSUME NEW h \in Handlers, ProvisionResume(h)
       PROVE  LedgerKept
  <2>1. /\ handler[h].u \in Objects /\ handler[h].balance \in Nat
        /\ handler[h].call = "provision"
    BY <1>10 DEF ProvisionResume, HandlerType, HandlerRecord
  <2>2. \A u \in Objects : object'[u].cleared = object[u].cleared
    BY <1>0, <1>10, <2>1, ClearedBySteps DEF ProvisionResume, StoreType
  <2>3. /\ handler'[h].call # "settle"
        /\ \A x \in Handlers : x # h => handler'[x] = handler[x]
    BY <1>10 DEF ProvisionResume, HandlerType, HandlerIdle
  <2>4. payments' = payments /\ disk'.payments \in {payments, disk.payments}
    BY <1>10, SavedPayments DEF ProvisionResume, Save, storeVars
  <2> QED BY <1>10, <2>1, <2>2, <2>3, <2>4 DEF ProvisionResume, chainVars
<1> QED BY <1>1, <1>3, <1>5, <1>6, <1>7, <1>8, <1>9, <1>10
           DEF Next, TickNext, HandlerNext, AutoNext

LEMMA LedgerInit == Init => LedgerInv
BY DEF Init, LedgerInv, NoPayment, ProcessedIsPaid, VerifiedPaid, Verified,
       HandlerIdle

\* The step of the ledger: the invariant, and that processed records stay.
ProcessedStay ==
  \A s \in Sigs : payments[s].status = "processed" => payments'[s] = payments[s]

LEMMA VerifiedPaidStep ==
  ASSUME TypeOK, VerifiedPaid,
         \A s \in Sigs : landed[s] > 0 => landed'[s] = landed[s],
         \A h \in Handlers : Verified(h)' => handler'[h] = handler[h]
  PROVE  VerifiedPaid'
<1> SUFFICES ASSUME NEW h \in Handlers, Verified(h)'
             PROVE  PaidBy(handler[h].sig, handler[h].u[1])'
  BY DEF VerifiedPaid
<1>1. handler'[h] = handler[h] /\ Verified(h)
  BY DEF Verified
<1>2. handler[h].sig \in Sigs
  BY <1>1 DEF TypeOK, HandlerType, Verified
<1>3. PaidBy(handler[h].sig, handler[h].u[1])
  BY <1>1 DEF VerifiedPaid
<1> QED BY <1>1, <1>2, <1>3 DEF PaidBy

\* The parts of the step, for a step that changes at most one record.
LEMMA OneRecordChanges ==
  ASSUME TypeOK, LedgerInv, VerifiedPaid', landed' = landed,
         NEW s,
         \A x \in Sigs : x # s => payments'[x] = payments[x],
         s \in Sigs => /\ payments[s].status # "processed"
                       /\ \/ payments'[s] = NoPayment
                          \/ /\ payments'[s].status \in {"pending", "processed"}
                             /\ payments'[s].wallet \in Wallets
                       /\ payments'[s].status = "processed" =>
                            landed[s] > 0 /\ payments'[s].wallet = Payer[s],
         disk'.payments = payments'
  PROVE  LedgerInv' /\ ProcessedStay
<1>1. NoPayment.status = "none"
  BY DEF NoPayment
<1>2. ProcessedStay
  BY DEF ProcessedStay
<1>3. ProcessedIsPaid'
  BY <1>1 DEF ProcessedIsPaid, LedgerInv
<1>4. \A x \in Sigs : payments'[x] # NoPayment =>
        payments'[x].wallet \in Wallets /\ payments'[x].status # "none"
  BY DEF LedgerInv
<1> QED BY <1>2, <1>3, <1>4 DEF LedgerInv

LEMMA SettleStartLedger ==
  ASSUME TypeOK, LedgerInv, NEW h \in Handlers, NEW w \in Wallets,
         NEW s \in Sigs, SettleStart(h, w, s)
  PROVE  LedgerInv' /\ ProcessedStay
<1> USE DEF TypeOK
<1>1. /\ landed' = landed
      /\ \A x \in Handlers : x # h => handler'[x] = handler[x]
      /\ ~Verified(h)'
  BY DEF SettleStart, chainVars, HandlerType, HandlerIdle, Verified
<1>2. VerifiedPaid'
  BY <1>1, VerifiedPaidStep DEF LedgerInv
<1>3. CASE UNCHANGED storeVars
  BY <1>1, <1>2, <1>3 DEF LedgerInv, ProcessedIsPaid, ProcessedStay, storeVars
<1>4. CASE /\ payments[s] = NoPayment
           /\ payments' = [payments EXCEPT ![s] =
                             [status |-> "pending", wallet |-> w]]
           /\ Save
  <2>1. disk'.payments = payments'
    BY <1>4, SavedPayments DEF Save
  <2>2. /\ \A x \in Sigs : x # s => payments'[x] = payments[x]
        /\ payments'[s] = [status |-> "pending", wallet |-> w]
        /\ payments[s].status = "none"
    BY <1>4 DEF StoreType, NoPayment
  <2> QED BY <1>1, <1>2, <2>1, <2>2, OneRecordChanges
<1> QED BY <1>3, <1>4 DEF SettleStart, storeVars

LEMMA VerifiedLedger ==
  ASSUME TypeOK, LedgerInv, NEW h \in Handlers,
         HandlerRead(h) \/ SettleVerified(h)
  PROVE  LedgerInv' /\ ProcessedStay
<1> USE DEF TypeOK
<1>1. UNCHANGED <<landed, payments, disk>>
  BY DEF HandlerRead, SettleVerified, chainVars, storeVars
<1>2. /\ \A x \in Handlers : x # h => handler'[x] = handler[x]
      /\ handler'[h].sig = handler[h].sig /\ handler'[h].u = handler[h].u
      /\ handler'[h].call = handler[h].call
  BY DEF HandlerRead, SettleVerified, HandlerType, HandlerRecord
<1>3. Verified(h)' => PaidBy(handler[h].sig, handler[h].u[1])
  BY <1>2 DEF LedgerInv, VerifiedPaid, Verified, HandlerRead, SettleVerified
<1>4. VerifiedPaid'
  BY <1>1, <1>2, <1>3 DEF LedgerInv, VerifiedPaid, Verified, PaidBy
<1> QED BY <1>1, <1>4 DEF LedgerInv, ProcessedIsPaid, ProcessedStay

LEMMA SettleRefusedLedger ==
  ASSUME TypeOK, LedgerInv, NEW h \in Handlers, SettleRefused(h)
  PROVE  LedgerInv' /\ ProcessedStay
<1> USE DEF TypeOK
<1> DEFINE s == handler[h].sig
<1>1. /\ landed' = landed
      /\ \A x \in Handlers : x # h => handler'[x] = handler[x]
      /\ ~Verified(h)'
  BY DEF SettleRefused, chainVars, HandlerType, HandlerIdle, Verified
<1>2. VerifiedPaid'
  BY <1>1, VerifiedPaidStep DEF LedgerInv
<1>3. CASE UNCHANGED storeVars
  BY <1>1, <1>2, <1>3 DEF LedgerInv, ProcessedIsPaid, ProcessedStay, storeVars
<1>4. CASE /\ payments[s].status = "pending"
           /\ payments' = [payments EXCEPT ![s] = NoPayment]
           /\ Save
  <2>1. disk'.payments = payments'
    BY <1>4, SavedPayments DEF Save
  <2>2. /\ \A x \in Sigs : x # s => payments'[x] = payments[x]
        /\ s \in Sigs => payments'[s] = NoPayment
    BY <1>4 DEF StoreType
  <2>3. NoPayment.status = "none"
    BY DEF NoPayment
  <2> QED BY <1>1, <1>2, <1>4, <2>1, <2>2, <2>3, OneRecordChanges
<1> QED BY <1>3, <1>4 DEF SettleRefused, storeVars

LEMMA SettleResumeLedger ==
  ASSUME TypeOK, LedgerInv, NEW h \in Handlers, SettleResume(h)
  PROVE  LedgerInv' /\ ProcessedStay
<1> USE DEF TypeOK
<1> DEFINE s == handler[h].sig
           w == handler[h].u[1]
<1>0. s \in Sigs /\ w \in Wallets /\ PaidBy(s, w)
  BY ObjectParts
     DEF SettleResume, HandlerType, LedgerInv, VerifiedPaid, Verified
<1>1. /\ landed' = landed
      /\ \A x \in Handlers : x # h => handler'[x] = handler[x]
      /\ ~Verified(h)'
  BY DEF SettleResume, chainVars, HandlerType, HandlerIdle, Verified
<1>2. VerifiedPaid'
  BY <1>1, VerifiedPaidStep DEF LedgerInv
<1>3. CASE UNCHANGED storeVars
  BY <1>1, <1>2, <1>3 DEF LedgerInv, ProcessedIsPaid, ProcessedStay, storeVars
<1>4. CASE /\ payments[s] = [status |-> "pending", wallet |-> w]
           /\ payments' = [payments EXCEPT ![s].status = "processed"]
           /\ Save
  <2>1. disk'.payments = payments'
    BY <1>4, SavedPayments DEF Save
  <2>2. /\ \A x \in Sigs : x # s => payments'[x] = payments[x]
        /\ payments'[s] = [status |-> "processed", wallet |-> w]
    BY <1>0, <1>4 DEF StoreType
  <2>3. landed[s] > 0 /\ Payer[s] = w
    BY <1>0 DEF PaidBy
  <2> HIDE DEF s, w
  <2> QED BY <1>0, <1>1, <1>2, <1>4, <2>1, <2>2, <2>3, OneRecordChanges
<1> QED BY <1>3, <1>4 DEF SettleResume, storeVars

LEMMA RestartLedger ==
  ASSUME TypeOK, LedgerInv, Restart
  PROVE  LedgerInv' /\ ProcessedStay
<1>1. /\ landed' = landed /\ \A x \in Handlers : ~Verified(x)'
      /\ disk'.payments = payments'
  BY SavedPayments DEF Restart, chainVars, HandlerIdle, Verified, Save
<1>2. \A s \in Sigs : \/ payments'[s] = payments[s]
                      \/ payments[s].status = "pending" /\ payments'[s] = NoPayment
  BY DEF Restart, Sweepable, LedgerInv
<1>3. VerifiedPaid'
  BY <1>1 DEF VerifiedPaid
<1> QED BY <1>1, <1>2, <1>3
        DEF LedgerInv, ProcessedIsPaid, ProcessedStay, NoPayment

LEMMA LedgerStep ==
  ASSUME TypeOK, LedgerInv, [Next]_vars
  PROVE  LedgerInv' /\ ProcessedStay
<1>1. CASE LedgerKept
  <2>1. payments' = payments /\ disk'.payments = payments
    BY <1>1 DEF LedgerKept, LedgerInv
  <2>2. \A h \in Handlers : Verified(h)' => handler'[h] = handler[h]
    BY <1>1 DEF LedgerKept, Verified
  <2>3. \A s \in Sigs : landed[s] > 0 => landed'[s] = landed[s]
    BY <1>1 DEF LedgerKept
  <2>4. VerifiedPaid'
    BY <2>2, <2>3, VerifiedPaidStep DEF LedgerInv
  <2>5. ProcessedIsPaid'
    BY <2>1, <2>3 DEF LedgerInv, ProcessedIsPaid
  <2> QED BY <2>1, <2>4, <2>5 DEF LedgerInv, ProcessedStay
<1>2. CASE UNCHANGED vars
  BY <1>2 DEF vars, chainVars, storeVars, LedgerInv, ProcessedIsPaid,
              ProcessedStay, VerifiedPaid, Verified, PaidBy
<1> QED BY <1>1, <1>2, LedgerSteps, SettleStartLedger, VerifiedLedger,
           SettleRefusedLedger, SettleResumeLedger, RestartLedger

\* The file's records of payments are always those of memory, and a handler
\* past its verification has a payment of its own wallet.
THEOREM LedgerAlways == Spec => []LedgerInv
BY LedgerInit, LedgerStep, ControlPlaneType, PTL DEF Spec

\* A record marked processed names a wallet that paid on the chain under that
\* signature, however settle calls, refusals and crashes interleave.
THEOREM ProcessedIsPaidAlways == Spec => []ProcessedIsPaid
<1>1. LedgerInv => ProcessedIsPaid
  BY DEF LedgerInv
<1> QED BY <1>1, LedgerAlways, PTL

\* A record marked processed is never changed or forgotten.
THEOREM LedgerIsForever == Spec => LedgerForever
<1>1. TypeOK /\ LedgerInv /\ [Next]_vars =>
        [\A s \in Sigs : payments[s].status = "processed" =>
                           payments'[s] = payments[s]]_vars
  BY LedgerStep DEF ProcessedStay
<1> QED BY <1>1, ControlPlaneType, LedgerAlways, PTL DEF Spec, LedgerForever

-----------------------------------------------------------------------------
(* One payment cuts a tab once, if settle calls do not overlap             *)

OneCall == \A g, h \in Handlers : g = h

\* What a landed payment has bought is used up.
Spent(s) ==
  \/ payments[s].status = "processed"
  \/ \E h \in Handlers : Verified(h) /\ handler[h].sig = s
Reserved ==
  \A h \in Handlers :
    handler[h].pc # "idle" /\ handler[h].call = "settle" =>
      payments[handler[h].sig] =
        [status |-> "pending", wallet |-> handler[h].u[1]]
ClearedIsSpent ==
  \A u \in Objects, s \in Sigs :
    /\ object[u].cleared[s] <= 1
    /\ object[u].cleared[s] # 0 => Spent(s)
ClearInv == restarts = 0 => Reserved /\ ClearedIsSpent

LEMMA ClearInit == Init => ClearInv
BY DEF Init, ClearInv, Reserved, ClearedIsSpent, HandlerIdle, NewUser

LEMMA ClearKept ==
  ASSUME TypeOK, ClearInv, LedgerKept
  PROVE  ClearInv'
<1> SUFFICES ASSUME restarts = 0 PROVE Reserved' /\ ClearedIsSpent'
  BY DEF ClearInv, LedgerKept
<1>1. payments' = payments /\ Reserved /\ ClearedIsSpent
  BY DEF ClearInv, LedgerKept
<1>2. Reserved'
  BY <1>1 DEF LedgerKept, Reserved
<1>3. \A s \in Sigs : Spent(s) => Spent(s)'
  BY <1>1 DEF LedgerKept, Spent, Verified
<1>4. ClearedIsSpent'
  <2>1. SUFFICES ASSUME NEW u \in Objects, NEW s \in Sigs
                 PROVE  /\ object'[u].cleared[s] <= 1
                        /\ object'[u].cleared[s] # 0 => Spent(s)'
    BY DEF ClearedIsSpent
  <2>2. object'[u].cleared[s] \in {object[u].cleared[s], 0}
    BY DEF LedgerKept
  <2> QED BY <1>1, <1>3, <2>2 DEF ClearedIsSpent
<1> QED BY <1>2, <1>4

\* A settle call starts on a reservation of its own wallet.
LEMMA StartReserves ==
  ASSUME TypeOK, LedgerInv, NEW h \in Handlers, NEW w \in Wallets,
         NEW s \in Sigs, SettleStart(h, w, s)
  PROVE  /\ payments'[s] = [status |-> "pending", wallet |-> w]
         /\ handler'[h].u = <<w, users[w]>> /\ handler'[h].sig = s
         /\ ~handler'[h].isNew /\ ~Verified(h)
<1>1. CASE payments[s] = NoPayment
  BY <1>1 DEF SettleStart, TypeOK, StoreType, HandlerType, HandlerIdle, Verified
<1>2. CASE payments[s] # NoPayment
  <2>1. /\ payments[s] \in PaymentRecord
        /\ payments[s].status = "pending" /\ payments[s].wallet = w
    BY <1>2, ControlPlaneAssumption
       DEF SettleStart, NotProcessed, LedgerInv, TypeOK, StoreType,
           PaymentRecord
  <2>2. payments[s] = [status |-> "pending", wallet |-> w]
    BY <2>1 DEF PaymentRecord
  <2>3. payments' = payments
    BY <1>2 DEF SettleStart, storeVars
  <2>4. /\ handler'[h].u = <<w, users[w]>> /\ handler'[h].sig = s
        /\ ~handler'[h].isNew /\ ~Verified(h)
    BY DEF SettleStart, TypeOK, HandlerType, HandlerIdle, Verified
  <2> QED BY <2>2, <2>3, <2>4
<1> QED BY <1>1, <1>2

LEMMA ClearCalls ==
  ASSUME OneCall, TypeOK, LedgerInv, ClearInv, NEW h \in Handlers,
         \/ \E w \in Wallets, s \in Sigs : SettleStart(h, w, s)
         \/ HandlerRead(h)
         \/ SettleRefused(h)
         \/ SettleResume(h)
  PROVE  ClearInv'
<1>1. restarts' = restarts
  BY DEF SettleStart, HandlerRead, SettleRefused, SettleResume
<1> SUFFICES ASSUME restarts = 0 PROVE Reserved' /\ ClearedIsSpent'
  BY <1>1 DEF ClearInv
<1>2. Reserved /\ ClearedIsSpent
  BY DEF ClearInv
<1>3. ASSUME \A u \in Objects : object'[u].cleared = object[u].cleared,
             \A s \in Sigs : (\E u \in Objects : object[u].cleared[s] # 0)
                               /\ Spent(s) => Spent(s)'
      PROVE  ClearedIsSpent'
  BY <1>2, <1>3 DEF ClearedIsSpent
<1>4. ASSUME NEW w \in Wallets, NEW s \in Sigs, SettleStart(h, w, s)
      PROVE  Reserved' /\ ClearedIsSpent'
  <2>1. payments'[s] = [status |-> "pending", wallet |-> w]
    BY <1>4, StartReserves
  <2>2. /\ handler'[h].u = <<w, users[w]>> /\ handler'[h].sig = s
        /\ ~Verified(h)
    BY <1>4, StartReserves
  <2>3. Reserved'
    BY <2>1, <2>2 DEF Reserved, OneCall
  <2>4. \A x \in Sigs : Spent(x) => payments[x].status = "processed"
    BY <2>2 DEF Spent, OneCall
  <2>5. \A x \in Sigs : Spent(x) => Spent(x)'
    BY <1>4, <2>4, SettleStartLedger DEF Spent, ProcessedStay
  <2>6. \A u \in Objects : object'[u].cleared = object[u].cleared
    BY <1>4 DEF SettleStart
  <2> QED BY <1>3, <2>3, <2>5, <2>6
<1>5. CASE HandlerRead(h)
  <2>1. /\ handler'[h].sig = handler[h].sig /\ handler'[h].u = handler[h].u
        /\ handler'[h].call = handler[h].call /\ handler[h].pc = "read"
        /\ handler'[h].pc = "resume"
        /\ payments' = payments /\ object' = object
    BY <1>5 DEF HandlerRead, TypeOK, HandlerType, HandlerRecord, storeVars
  <2>2. Reserved'
    BY <1>2, <2>1 DEF Reserved, OneCall
  <2>3. \A x \in Sigs : Spent(x) => Spent(x)'
    BY <2>1 DEF Spent, Verified, OneCall
  <2> QED BY <1>3, <2>1, <2>2, <2>3
<1>6. CASE SettleRefused(h)
  <2>1. /\ handler'[h].pc = "idle" /\ ~Verified(h) /\ UNCHANGED object
    BY <1>6 DEF SettleRefused, TypeOK, HandlerType, HandlerIdle, Verified,
                storeVars
  <2>2. Reserved'
    BY <2>1 DEF Reserved, OneCall
  <2>3. \A x \in Sigs : Spent(x) => payments[x].status = "processed"
    BY <2>1 DEF Spent, OneCall
  <2>4. \A x \in Sigs : Spent(x) => Spent(x)'
    BY <1>6, <2>3, SettleRefusedLedger DEF Spent, ProcessedStay
  <2> QED BY <1>3, <2>1, <2>2, <2>4
<1>7. CASE SettleResume(h)
  <2> DEFINE s == handler[h].sig
  <2>1. /\ handler[h].pc = "resume" /\ handler[h].call = "settle"
        /\ s \in Sigs /\ handler'[h].pc = "idle"
        /\ handler[h].u \in Objects /\ handler[h].balance \in Nat
    BY <1>7 DEF SettleResume, TypeOK, HandlerType, HandlerRecord, HandlerIdle
  <2>2. payments[s] = [status |-> "pending", wallet |-> handler[h].u[1]]
    BY <1>2, <2>1 DEF Reserved
  <2>3. payments' = [payments EXCEPT ![s].status = "processed"]
    BY <1>7, <2>2 DEF SettleResume
  <2>4. payments'[s].status = "processed"
    BY <2>1, <2>2, <2>3 DEF TypeOK, StoreType, PaymentRecord
  <2>5. Reserved'
    BY <2>1 DEF Reserved, OneCall
  <2>6. \A x \in Sigs : Spent(x) => Spent(x)'
    <3>1. \A x \in Sigs : Spent(x) => payments[x].status = "processed" \/ x = s
      BY DEF Spent, OneCall
    <3> QED BY <1>7, <2>4, <3>1, SettleResumeLedger DEF Spent, ProcessedStay
  <2>7. \A u \in Objects : object'[u].cleared = object[u].cleared
    <3>1. object' = [object EXCEPT ![handler[h].u] =
                       Refreshed(@, handler[h].balance)]
      BY <1>7 DEF SettleResume
    <3>2. \A u \in Objects : object[u] \in UserRecord
      BY DEF TypeOK, StoreType
    <3> QED BY <2>1, <3>1, <3>2, ClearedBySteps DEF TypeOK, StoreType
  <2> QED BY <1>3, <2>5, <2>6, <2>7
<1> QED BY <1>4, <1>5, <1>6, <1>7

LEMMA ClearVerified ==
  ASSUME OneCall, TypeOK, ClearInv, NEW h \in Handlers, SettleVerified(h)
  PROVE  ClearInv'
<1> SUFFICES ASSUME restarts = 0 PROVE Reserved' /\ ClearedIsSpent'
  BY DEF ClearInv, SettleVerified
<1> DEFINE u == handler[h].u
           s == handler[h].sig
<1>1. Reserved /\ ClearedIsSpent
  BY DEF ClearInv
<1>2. /\ handler[h].pc = "verify" /\ handler[h].call = "settle"
      /\ u \in Objects /\ s \in Sigs /\ ~Verified(h)
      /\ payments' = payments
  BY DEF SettleVerified, TypeOK, HandlerType, storeVars, Verified
<1>3. /\ handler'[h].sig = s /\ handler'[h].u = u
      /\ handler'[h].call = "settle" /\ handler'[h].pc = "read"
  BY <1>2 DEF SettleVerified, TypeOK, HandlerType, HandlerRecord
<1>4. Reserved'
  BY <1>1, <1>2, <1>3 DEF Reserved, OneCall
<1>5. ~Spent(s)
  <2>1. payments[s].status = "pending"
    <3>1. payments[s] = [status |-> "pending", wallet |-> u[1]]
      BY <1>1, <1>2 DEF Reserved
    <3> QED BY <3>1
  <2>2. \A g \in Handlers : ~Verified(g)
    BY <1>2 DEF OneCall
  <2> QED BY <2>1, <2>2 DEF Spent
<1>6. object[u].cleared[s] = 0
  BY <1>1, <1>2, <1>5 DEF ClearedIsSpent
<1>7. \A x \in Sigs : x = s \/ Spent(x) => Spent(x)'
  BY <1>2, <1>3 DEF Spent, Verified, OneCall
<1>8. /\ object'[u].cleared[s] = 1
      /\ \A v \in Objects, x \in Sigs : v # u \/ x # s =>
           object'[v].cleared[x] = object[v].cleared[x]
  <2>1. object[u] \in UserRecord
    BY <1>2 DEF TypeOK, StoreType
  <2>2. object[u].cleared \in [Sigs -> 0..2]
    BY <2>1 DEF UserRecord
  <2>3. object' = [object EXCEPT ![u] =
          [object[u] EXCEPT
             !.unsettledBytes = TabLess(@, QuotaBytes(landed[s])),
             !.cleared[s] = IF @ < 2 THEN @ + 1 ELSE 2]]
    BY DEF SettleVerified
  <2>4. object'[u].cleared = [object[u].cleared EXCEPT ![s] = 1]
    BY <1>2, <1>6, <2>1, <2>3 DEF TypeOK, StoreType, UserRecord
  <2>5. \A v \in Objects : v # u => object'[v] = object[v]
    BY <2>3 DEF TypeOK, StoreType
  <2> QED BY <1>2, <2>2, <2>4, <2>5
<1>9. ClearedIsSpent'
  <2> HIDE DEF u, s
  <2>1. SUFFICES ASSUME NEW v \in Objects, NEW x \in Sigs
                 PROVE  /\ object'[v].cleared[x] <= 1
                        /\ object'[v].cleared[x] # 0 => Spent(x)'
    BY DEF ClearedIsSpent
  <2>2. CASE v = u /\ x = s
    BY <1>7, <1>8, <2>2
  <2>3. CASE v # u \/ x # s
    <3>1. object'[v].cleared[x] = object[v].cleared[x]
      BY <1>8, <2>3
    <3> QED BY <1>1, <1>7, <3>1 DEF ClearedIsSpent
  <2> QED BY <2>2, <2>3
<1> QED BY <1>4, <1>9

LEMMA ClearStep ==
  ASSUME OneCall, TypeOK, LedgerInv, ClearInv, [Next]_vars
  PROVE  ClearInv'
<1>1. CASE UNCHANGED vars
  BY <1>1 DEF vars, storeVars, ClearInv, Reserved, ClearedIsSpent, Spent,
              Verified
<1>2. CASE Restart
  <2>1. restarts' # 0
    BY <1>2 DEF Restart, TypeOK, HistoryType
  <2> QED BY <2>1 DEF ClearInv
<1> QED BY <1>1, <1>2, ClearKept, ClearCalls, ClearVerified, LedgerSteps

\* If POST /settle calls do not overlap, one landed payment cuts a tab at most
\* once until a crash, however often it is submitted and refused: the double
\* reduction needs two calls at a time.
THEOREM OneCallClearsOnce ==
  ASSUME OneCall
  PROVE  Spec => []SequentialClearsOnce
<1>1. Init => ClearInv
  BY ClearInit
<1>2. TypeOK /\ LedgerInv /\ ClearInv /\ [Next]_vars => ClearInv'
  BY OneCall, ClearStep
<1>3. ClearInv => SequentialClearsOnce
  BY DEF ClearInv, ClearedIsSpent, SequentialClearsOnce
<1> QED BY <1>1, <1>2, <1>3, ControlPlaneType, LedgerAlways, PTL DEF Spec

-----------------------------------------------------------------------------
(* Nobody is billed for more than was served                               *)

Versions == 1..MaxObjects
Greater(a, b) == IF a > b THEN a ELSE b

\* What a bill under way may still take for object u, or leave on its tab.
Weight(obj, task, u) ==
  IF task.u # u \/ task.pc \notin {"read", "bill", "sent", "landed"}
  THEN obj[u].unsettledBytes
  ELSE IF task.pc = "landed" THEN TabLess(task.unsettled, task.amount)
       ELSE Greater(obj[u].unsettledBytes, task.unsettled)
Weights(obj, task, w) == [v \in Versions |-> Weight(obj, task, <<w, v>>)]
Owed(obj, task, w) == SumFunctionOnSet(Weights(obj, task, w), Versions)

\* What a tick has polled for a wallet and not yet put on a tab.
Pending(task, w) == IF \E u \in task.todo : u[1] = w THEN task.delta[w] ELSE 0

\* A bill of the wallet has landed that the store file does not show.
Landed(task, w) == task.pc \in {"landed", "reread", "resume"} /\ task.u[1] = w

LEMMA VersionsFinite == IsFiniteSet(Versions)
BY MaxesAreNats, FS_Interval DEF Versions

LEMMA VersionsAreObjects ==
  ASSUME NEW w \in Wallets, NEW v \in Versions
  PROVE  <<w, v>> \in Objects
BY DEF Versions, Objects

LEMMA WeightTyped ==
  ASSUME NEW obj \in [Objects -> UserRecord], NEW task \in AutoRecord,
         NEW u \in Objects
  PROVE  /\ Weight(obj, task, u) \in Nat
         /\ obj[u].unsettledBytes \in Nat
         /\ task.u # u \/ task.pc # "landed" =>
              obj[u].unsettledBytes <= Weight(obj, task, u)
<1> DEFINE tab == obj[u].unsettledBytes
<1>1. tab \in Nat /\ task.unsettled \in Nat /\ task.amount \in Nat
  BY DEF UserRecord, AutoRecord
<1>2. TabLess(task.unsettled, task.amount) \in Nat
  BY <1>1 DEF TabLess
<1>3. Greater(tab, task.unsettled) \in Nat /\ tab <= Greater(tab, task.unsettled)
  BY <1>1 DEF Greater
<1>4. \/ Weight(obj, task, u) = tab
      \/ /\ Weight(obj, task, u) = TabLess(task.unsettled, task.amount)
         /\ task.u = u /\ task.pc = "landed"
      \/ Weight(obj, task, u) = Greater(tab, task.unsettled)
  BY DEF Weight
<1> HIDE DEF tab
<1> QED BY <1>1, <1>2, <1>3, <1>4 DEF tab

\* A tab that falls takes its weight with it.
LEMMA WeightFalls ==
  ASSUME NEW obj \in [Objects -> UserRecord], NEW task \in AutoRecord,
         NEW more \in [Objects -> UserRecord], NEW u \in Objects, NEW d \in Nat,
         more[u].unsettledBytes <= obj[u].unsettledBytes + d
  PROVE  Weight(more, task, u) <= Weight(obj, task, u) + d
<1> DEFINE a == obj[u].unsettledBytes
           b == more[u].unsettledBytes
           t == task.unsettled
           l == TabLess(task.unsettled, task.amount)
<1>1. a \in Nat /\ b \in Nat /\ t \in Nat /\ l \in Nat /\ b <= a + d
  BY DEF UserRecord, AutoRecord, TabLess
<1>2. \/ Weight(obj, task, u) = a /\ Weight(more, task, u) = b
      \/ Weight(obj, task, u) = l /\ Weight(more, task, u) = l
      \/ Weight(obj, task, u) = Greater(a, t) /\ Weight(more, task, u) = Greater(b, t)
  BY DEF Weight
<1> HIDE DEF a, b, t, l
<1>3. Greater(b, t) <= Greater(a, t) + d
  BY <1>1 DEF Greater
<1> QED BY <1>1, <1>2, <1>3

LEMMA OwedTyped ==
  ASSUME NEW obj \in [Objects -> UserRecord], NEW task \in AutoRecord,
         NEW w \in Wallets
  PROVE  /\ \A v \in Versions : Weights(obj, task, w)[v] \in Nat
         /\ Owed(obj, task, w) \in Nat
         /\ \A v \in Versions : Weight(obj, task, <<w, v>>) <= Owed(obj, task, w)
<1> DEFINE f == Weights(obj, task, w)
<1>1. \A v \in Versions : f[v] \in Nat /\ f[v] = Weight(obj, task, <<w, v>>)
  BY VersionsAreObjects, WeightTyped DEF Weights
<1> HIDE DEF f
<1>2. SumFunctionOnSet(f, Versions) \in Nat
  BY <1>1, VersionsFinite, SumIsNat
<1>3. ASSUME NEW v \in Versions
      PROVE  f[v] <= SumFunctionOnSet(f, Versions)
  <2> DEFINE rest == Versions \ {v}
  <2>0. \A x \in Versions : f[x] \in Nat
    BY <1>1
  <2>1. SumFunctionOnSet(f, Versions) = f[v] + SumFunctionOnSet(f, rest)
    <3>1. \A x \in Versions : f[x] \in Int
      BY <2>0
    <3> QED BY <3>1, VersionsFinite, SumWithout
  <2>2. IsFiniteSet(rest)
    BY VersionsFinite, FS_Subset
  <2>3. SumFunctionOnSet(f, rest) \in Nat
    BY <2>0, <2>2, SumIsNat
  <2>4. f[v] \in Nat
    BY <2>0
  <2> HIDE DEF rest
  <2> QED BY <2>1, <2>3, <2>4
<1> QED BY <1>1, <1>2, <1>3 DEF f, Owed

\* If no weight but that of version x rises, and that by d, so does the sum.
LEMMA OwedRises ==
  ASSUME NEW obj \in [Objects -> UserRecord], NEW task \in AutoRecord,
         NEW more \in [Objects -> UserRecord], NEW next \in AutoRecord,
         NEW w \in Wallets, NEW x \in Versions, NEW d \in Int,
         \A v \in Versions \ {x} :
           Weight(more, next, <<w, v>>) <= Weight(obj, task, <<w, v>>),
         Weight(more, next, <<w, x>>) <= Weight(obj, task, <<w, x>>) + d
  PROVE  Owed(more, next, w) <= Owed(obj, task, w) + d
<1> DEFINE f == Weights(obj, task, w)
           g == Weights(more, next, w)
<1>1. \A v \in Versions : f[v] \in Nat /\ g[v] \in Nat
  BY OwedTyped
<1>2. /\ \A v \in Versions \ {x} : g[v] <= f[v]
      /\ g[x] <= f[x] + d
  BY DEF Weights
<1> HIDE DEF f, g
<1>3. \A v \in Versions : f[v] \in Int /\ g[v] \in Int
  BY <1>1
<1>4. SumFunctionOnSet(g, Versions) <= SumFunctionOnSet(f, Versions) + d
  BY <1>2, <1>3, VersionsFinite, SumRises
<1> QED BY <1>4 DEF f, g, Owed

LEMMA OwedFalls ==
  ASSUME NEW obj \in [Objects -> UserRecord], NEW task \in AutoRecord,
         NEW more \in [Objects -> UserRecord], NEW next \in AutoRecord,
         NEW w \in Wallets,
         \A v \in Versions :
           Weight(more, next, <<w, v>>) <= Weight(obj, task, <<w, v>>)
  PROVE  Owed(more, next, w) <= Owed(obj, task, w)
<1> DEFINE f == Weights(obj, task, w)
           g == Weights(more, next, w)
<1>1. \A v \in Versions : f[v] \in Nat /\ g[v] \in Nat
  BY OwedTyped
<1>2. \A v \in Versions : g[v] <= f[v]
  BY DEF Weights
<1> HIDE DEF f, g
<1>3. \A v \in Versions : g[v] \in Int /\ f[v] \in Int /\ g[v] <= f[v]
  BY <1>1, <1>2
<1>4. SumFunctionOnSet(g, Versions) <= SumFunctionOnSet(f, Versions)
  BY <1>3, VersionsFinite, SumMonotone
<1> QED BY <1>4 DEF f, g, Owed

\* What a wallet was billed, what its tabs may still be billed and what is
\* still counted for it never exceed what it was served; nor does what the
\* store file would have it billed after a crash.
Due(w) == Owed(object, auto, w) + Pending(tick, w) + counter[w] + billed[w]
Budget(w) ==
  /\ Due(w) <= served[w]
  /\ ~Landed(auto, w) => disk.object[w].unsettledBytes + billed[w] <= served[w]
BillInv ==
  /\ auto.pc \in {"sent", "landed"} =>
       auto.amount <= CostBaseUnits(auto.unsettled)
  /\ \A u, v \in tick.todo : u[1] = v[1] => u = v
  /\ UnitsPerByte = 1 => \A w \in Wallets \ doubtful : Budget(w)

BudgetTyped ==
  \A w \in Wallets :
    /\ Owed(object, auto, w) \in Nat /\ Pending(tick, w) \in Nat
    /\ counter[w] \in Nat /\ billed[w] \in Nat /\ served[w] \in Nat
    /\ disk.object[w].unsettledBytes \in Nat

LEMMA BudgetHasType == TypeOK => BudgetTyped
<1> SUFFICES ASSUME TypeOK, NEW w \in Wallets
             PROVE  /\ Owed(object, auto, w) \in Nat /\ Pending(tick, w) \in Nat
                    /\ counter[w] \in Nat /\ billed[w] \in Nat
                    /\ served[w] \in Nat
                    /\ disk.object[w].unsettledBytes \in Nat
  BY DEF BudgetTyped
<1> USE DEF TypeOK
<1>1. Owed(object, auto, w) \in Nat
  BY OwedTyped DEF StoreType, AutoType
<1>2. Pending(tick, w) \in Nat
  <2>1. tick.delta[w] \in Nat
    BY DEF TickType, TickRecord
  <2> QED BY <2>1 DEF Pending
<1>3. counter[w] \in Nat /\ billed[w] \in Nat /\ served[w] \in Nat
  BY DEF XrayType, HistoryType
<1>4. disk.object[w].unsettledBytes \in Nat
  BY DEF StoreType, StoreFile, UserRecord
<1> QED BY <1>1, <1>2, <1>3, <1>4

LEMMA SavedWithin ==
  ASSUME NEW obj \in [Objects -> UserRecord], NEW task \in AutoRecord,
         NEW ptr \in [Wallets -> 0..MaxObjects], NEW pays,
         NEW w \in Wallets, ~Landed(task, w)
  PROVE  Saved(ptr, pays, obj).object[w].unsettledBytes <= Owed(obj, task, w)
<1>1. Owed(obj, task, w) \in Nat
  BY OwedTyped
<1>2. CASE ptr[w] = 0
  <2>1. Saved(ptr, pays, obj).object[w].unsettledBytes = 0
    BY <1>2 DEF Saved, NewUser
  <2> QED BY <1>1, <2>1
<1>3. CASE ptr[w] # 0
  <2> DEFINE u == <<w, ptr[w]>>
  <2>1. ptr[w] \in Versions /\ u \in Objects
    <3>1. ptr[w] \in 0..MaxObjects
      OBVIOUS
    <3>2. ptr[w] \in Versions
      BY <1>3, <3>1, MaxesAreNats DEF Versions
    <3> QED BY <3>2, VersionsAreObjects
  <2>2. Saved(ptr, pays, obj).object[w] = obj[u]
    BY <1>3 DEF Saved
  <2>3. task.u # u \/ task.pc # "landed"
    BY DEF Landed
  <2>4. /\ Weight(obj, task, u) \in Nat /\ obj[u].unsettledBytes \in Nat
        /\ obj[u].unsettledBytes <= Weight(obj, task, u)
    BY <2>1, <2>3, WeightTyped
  <2>5. Weight(obj, task, u) <= Owed(obj, task, w)
    BY <2>1, OwedTyped
  <2> HIDE DEF u
  <2> QED BY <1>1, <2>2, <2>4, <2>5
<1> QED BY <1>2, <1>3

LEMMA TypesNext ==
  ASSUME TypeOK, Next
  PROVE  /\ TypeOK' /\ BudgetTyped /\ BudgetTyped'
         /\ object \in [Objects -> UserRecord] /\ auto \in AutoRecord
         /\ object' \in [Objects -> UserRecord] /\ auto' \in AutoRecord
         /\ users' \in [Wallets -> 0..MaxObjects]
<1>1. TypeOK'
  BY NextType
<1>2. TypeOK' => BudgetTyped'
  BY BudgetHasType, PTL
<1> QED BY <1>1, <1>2, BudgetHasType DEF TypeOK, StoreType, AutoType

\* A step after which a wallet owes no more, and has as much for it, keeps its
\* budget: what it owes now, and what the file would have it owe.
LEMMA BudgetKept ==
  ASSUME TypeOK, Next, NEW w \in Wallets, Budget(w),
         Due(w)' - served'[w] <= Due(w) - served[w],
         \/ /\ disk' = disk /\ billed'[w] = billed[w] /\ served[w] <= served'[w]
            /\ Landed(auto, w) => Landed(auto', w)
         \/ disk' = Saved(users', payments', object')
         \/ /\ disk' = Saved(users, payments, object) /\ auto' = auto
            /\ billed'[w] = billed[w] /\ served[w] <= served'[w]
         \/ Landed(auto', w)
  PROVE  Budget(w)'
<1>1. /\ Owed(object, auto, w) \in Nat /\ Pending(tick, w) \in Nat
      /\ counter[w] \in Nat /\ billed[w] \in Nat /\ served[w] \in Nat
      /\ disk.object[w].unsettledBytes \in Nat
  BY TypesNext DEF BudgetTyped
<1>2. /\ Owed(object', auto', w) \in Nat /\ Pending(tick', w) \in Nat
      /\ counter'[w] \in Nat /\ billed'[w] \in Nat /\ served'[w] \in Nat
      /\ disk'.object[w].unsettledBytes \in Nat
  BY TypesNext DEF BudgetTyped
<1>3. /\ Due(w) = Owed(object, auto, w) + Pending(tick, w) + counter[w] + billed[w]
      /\ Due(w)' = Owed(object', auto', w) + Pending(tick', w) + counter'[w]
                     + billed'[w]
  BY DEF Due
<1>4. Due(w)' <= served'[w]
  <2>1. Due(w) \in Int /\ Due(w)' \in Int /\ Due(w) <= served[w]
    BY <1>1, <1>2, <1>3 DEF Budget
  <2> QED BY <1>1, <1>2, <2>1
<1>5. Owed(object', auto', w) + billed'[w] <= served'[w]
  BY <1>2, <1>3, <1>4
<1>6. ASSUME ~Landed(auto', w)
      PROVE  disk'.object[w].unsettledBytes + billed'[w] <= served'[w]
  <2>1. CASE /\ disk' = disk /\ billed'[w] = billed[w] /\ served[w] <= served'[w]
             /\ Landed(auto, w) => Landed(auto', w)
    <3>1. disk.object[w].unsettledBytes + billed[w] <= served[w]
      BY <1>6, <2>1 DEF Budget
    <3> QED BY <1>1, <1>2, <2>1, <3>1
  <2>2. CASE disk' = Saved(users', payments', object')
    <3>1. disk'.object[w].unsettledBytes <= Owed(object', auto', w)
      BY <1>6, <2>2, TypesNext, SavedWithin
    <3> QED BY <1>2, <1>5, <3>1
  <2>3. CASE /\ disk' = Saved(users, payments, object) /\ auto' = auto
             /\ billed'[w] = billed[w] /\ served[w] <= served'[w]
    <3>1. users \in [Wallets -> 0..MaxObjects]
      BY DEF TypeOK, StoreType
    <3>2. disk'.object[w].unsettledBytes <= Owed(object, auto, w)
      BY <1>6, <2>3, <3>1, TypesNext, SavedWithin
    <3>3. Owed(object, auto, w) + billed[w] <= served[w]
      BY <1>1, <1>3 DEF Budget
    <3> QED BY <1>1, <1>2, <2>3, <3>2, <3>3
  <2> QED BY <1>6, <2>1, <2>2, <2>3
<1> QED BY <1>4, <1>6 DEF Budget

\* Most steps put nothing on a tab and leave the bill under way alone.
BillQuiet ==
  /\ \A u \in Objects : object'[u].unsettledBytes <= object[u].unsettledBytes
  /\ auto' = auto
  /\ \/ tick'.todo = tick.todo /\ tick'.delta = tick.delta
     \/ tick'.todo = {}
  /\ \A w \in Wallets : counter'[w] \in {counter[w], 0}
  /\ UNCHANGED <<billed, served, doubtful>>
  /\ disk' = disk \/ disk' = Saved(users', payments', object')

LEMMA ReconcileResets ==
  ASSUME Reconcile, NEW w \in Wallets
  PROVE  counter'[w] \in {counter[w], 0}
BY DEF Reconcile, Reconciled, ReconcileThrows, Loads, countVars, xrayVars,
       NoBytes

\* What the steps of a task do to a tab.
LEMMA TabSteps ==
  ASSUME NEW user \in UserRecord, NEW n \in Nat
  PROVE  /\ Refreshed(user, n).unsettledBytes = user.unsettledBytes
         /\ Metered(user, n).unsettledBytes = user.unsettledBytes + n
         /\ user.unsettledBytes \in Nat
         /\ TabLess(user.unsettledBytes, n) <= user.unsettledBytes
         /\ \A tab : [user EXCEPT !.unsettledBytes = tab].unsettledBytes = tab
BY DEF Refreshed, Metered, UserRecord, TabLess

TickMeters(flipped) ==
  \E u \in tick.todo :
    /\ object' = [flipped EXCEPT ![u] = Metered(@, tick.delta[u[1]])]
    /\ tick' = [tick EXCEPT !.pc = "read", !.u = u, !.todo = @ \ {u},
                            !.balance = 0]
    /\ UNCHANGED <<xrayVars, storeVars>>
Flipped ==
  IF tick.u = NoObject THEN object
  ELSE [object EXCEPT ![tick.u] = Refreshed(@, tick.balance)]

LEMMA FlippedTabs ==
  ASSUME TypeOK
  PROVE  /\ Flipped \in [Objects -> UserRecord]
         /\ \A u \in Objects :
              Flipped[u].unsettledBytes = object[u].unsettledBytes
<1>1. tick.u \in Objects \cup {NoObject} /\ tick.balance \in Nat
  BY DEF TypeOK, TickType, TickRecord
<1>2. object \in [Objects -> UserRecord]
  BY DEF TypeOK, StoreType
<1>3. tick.u \in Objects =>
        /\ Refreshed(object[tick.u], tick.balance) \in UserRecord
        /\ Refreshed(object[tick.u], tick.balance).unsettledBytes
             = object[tick.u].unsettledBytes
  BY <1>1, <1>2, UserSteps, TabSteps
<1> QED BY <1>1, <1>2, <1>3 DEF Flipped

LEMMA HandlerQuiet ==
  ASSUME TypeOK, HandlerNext
  PROVE  BillQuiet
<1> USE DEF TypeOK
<1>0. object \in [Objects -> UserRecord]
      /\ \A u \in Objects : object[u].unsettledBytes \in Nat
  BY DEF StoreType, UserRecord
<1>1. ASSUME \A u \in Objects :
               object'[u].unsettledBytes <= object[u].unsettledBytes,
             UNCHANGED <<auto, tick, historyVars>>,
             UNCHANGED xrayVars \/ Reconcile,
             disk' = disk \/ Save
      PROVE  BillQuiet
  <2>1. \A w \in Wallets : counter'[w] \in {counter[w], 0}
    BY <1>1, ReconcileResets DEF xrayVars, countVars
  <2> QED BY <1>1, <2>1 DEF BillQuiet, Save, historyVars
<1>2. ASSUME NEW h \in Handlers, NEW w \in Wallets, ProvisionStart(h, w)
      PROVE  BillQuiet
  <2>1. UNCHANGED object \/ \E u : object' = [object EXCEPT ![u] = NewUser]
    BY <1>2 DEF ProvisionStart
  <2>2. \A u \in Objects :
          object'[u].unsettledBytes <= object[u].unsettledBytes
    BY <1>0, <2>1 DEF NewUser
  <2> QED BY <1>1, <1>2, <2>2 DEF ProvisionStart, storeVars
<1>3. ASSUME NEW h \in Handlers, NEW w \in Wallets, NEW s \in Sigs,
             SettleStart(h, w, s)
      PROVE  BillQuiet
  <2>1. object' = object /\ (disk' = disk \/ Save)
    BY <1>3 DEF SettleStart, storeVars
  <2> QED BY <1>0, <1>1, <1>3, <2>1 DEF SettleStart
<1>4. ASSUME NEW h \in Handlers, HandlerRead(h) \/ SettleRefused(h)
      PROVE  BillQuiet
  <2>1. object' = object /\ (disk' = disk \/ Save)
        /\ UNCHANGED <<auto, tick, historyVars, xrayVars>>
    BY <1>4 DEF HandlerRead, SettleRefused, storeVars
  <2> QED BY <1>0, <1>1, <2>1
<1>5. ASSUME NEW h \in Handlers, ProvisionResume(h) \/ SettleResume(h)
      PROVE  BillQuiet
  <2>1. /\ handler[h].u \in Objects /\ handler[h].balance \in Nat
        /\ object' = [object EXCEPT ![handler[h].u] =
                        Refreshed(@, handler[h].balance)]
    BY <1>5 DEF ProvisionResume, SettleResume, HandlerType, HandlerRecord
  <2>2. \A u \in Objects :
          object'[u].unsettledBytes <= object[u].unsettledBytes
    BY <1>0, <2>1, TabSteps
  <2>3. /\ UNCHANGED <<auto, tick, historyVars>>
        /\ UNCHANGED xrayVars \/ Reconcile
        /\ disk' = disk \/ Save
    BY <1>5 DEF ProvisionResume, SettleResume, storeVars
  <2> QED BY <1>1, <2>2, <2>3
<1>6. ASSUME NEW h \in Handlers, SettleVerified(h)
      PROVE  BillQuiet
  <2> DEFINE u == handler[h].u
             s == handler[h].sig
             paid == QuotaBytes(landed[s])
             tab == TabLess(object[u].unsettledBytes, paid)
  <2>1. /\ u \in Objects /\ s \in Sigs /\ paid \in Nat
    BY <1>6, QuotaIsNat DEF SettleVerified, HandlerType, ChainType
  <2>2. object' = [object EXCEPT ![u] =
          [object[u] EXCEPT !.unsettledBytes = tab,
                            !.cleared[s] = IF @ < 2 THEN @ + 1 ELSE 2]]
    BY <1>6 DEF SettleVerified
  <2> HIDE DEF tab
  <2>3. object'[u].unsettledBytes = tab
    BY <1>0, <2>1, <2>2 DEF UserRecord
  <2>4. tab <= object[u].unsettledBytes
    BY <1>0, <2>1, TabSteps DEF tab
  <2>5. \A x \in Objects : x # u => object'[x] = object[x]
    BY <1>0, <2>2
  <2>6. \A x \in Objects :
          object'[x].unsettledBytes <= object[x].unsettledBytes
    BY <1>0, <2>3, <2>4, <2>5
  <2> QED BY <1>1, <1>6, <2>6 DEF SettleVerified, storeVars
<1> QED BY <1>2, <1>3, <1>4, <1>5, <1>6 DEF HandlerNext

LEMMA OthersQuiet ==
  ASSUME TypeOK,
         \/ \E w \in Wallets, n \in Amounts : Deposit(w, n) \/ Withdraw(w, n)
         \/ \E s \in Sigs, n \in Amounts : Pay(s, n)
         \/ XrayRestarts \/ RelayNext \/ TickRead \/ TickExits
         \/ TickResume /\ ~TickMeters(Flipped)
  PROVE  BillQuiet
<1> USE DEF TypeOK
<1>0. object \in [Objects -> UserRecord]
      /\ \A u \in Objects : object[u].unsettledBytes \in Nat
  BY DEF StoreType, UserRecord
<1>1. ASSUME UNCHANGED <<object, auto, disk, billed, served, doubtful>>,
             \/ tick'.todo = tick.todo /\ tick'.delta = tick.delta
             \/ tick'.todo = {},
             \A w \in Wallets : counter'[w] \in {counter[w], 0}
      PROVE  BillQuiet
  BY <1>0, <1>1 DEF BillQuiet
<1>2. CASE \/ \E w \in Wallets, n \in Amounts : Deposit(w, n) \/ Withdraw(w, n)
           \/ \E s \in Sigs, n \in Amounts : Pay(s, n)
  BY <1>1, <1>2
     DEF Deposit, Withdraw, Pay, processVars, xrayVars, countVars, storeVars,
         historyVars
<1>3. CASE XrayRestarts
  BY <1>1, <1>3 DEF XrayRestarts, Loads, NoBytes, storeVars, historyVars
<1>4. CASE RelayNext
  <2>1. \A w \in Wallets : counter'[w] \in {counter[w], 0}
    BY <1>4, ReconcileResets
       DEF RelayNext, NodeProfile, ProfileExpires, xrayVars, countVars
  <2> QED BY <1>1, <1>4, <2>1
          DEF RelayNext, NodeProfile, ProfileExpires, storeVars, historyVars
<1>5. CASE TickRead
  <2>1. tick'.todo = tick.todo /\ tick'.delta = tick.delta
    BY <1>5 DEF TickRead, TickType, TickRecord
  <2> QED BY <1>1, <1>5, <2>1
          DEF TickRead, xrayVars, countVars, storeVars, historyVars
<1>6. CASE TickExits
  BY <1>1, <1>6 DEF TickExits, TickIdle, storeVars, historyVars
<1>7. CASE TickResume /\ ~TickMeters(Flipped)
  <2>1. object' = Flipped /\ TickFinish
    BY <1>7 DEF TickResume, TickMeters, Flipped
  <2>2. \A w \in Wallets : counter'[w] \in {counter[w], 0}
    BY <2>1, ReconcileResets DEF TickFinish, Reconcile
  <2>3. tick'.todo = {}
    BY <2>1 DEF TickFinish, TickIdle
  <2>4. \A u \in Objects :
          object'[u].unsettledBytes <= object[u].unsettledBytes
    BY <1>0, <2>1, FlippedTabs
  <2>5. UNCHANGED <<auto, historyVars>> /\ Save
    BY <1>7, <2>1 DEF TickResume, TickFinish
  <2> QED BY <2>2, <2>3, <2>4, <2>5 DEF BillQuiet, Save, historyVars
<1> QED BY <1>2, <1>3, <1>4, <1>5, <1>6, <1>7

\* A step that puts no weight on any tab of the wallet, whoever takes it.
LEMMA LighterBudget ==
  ASSUME TypeOK, Next, NEW w \in Wallets, Budget(w),
         \A v \in Versions :
           Weight(object', auto', <<w, v>>) <= Weight(object, auto, <<w, v>>),
         Pending(tick', w) <= Pending(tick, w),
         counter'[w] \in {counter[w], 0},
         billed'[w] = billed[w], served'[w] = served[w],
         \/ disk' = disk /\ (Landed(auto, w) => Landed(auto', w))
         \/ disk' = Saved(users', payments', object')
  PROVE  Budget(w)'
<1>1. Owed(object', auto', w) <= Owed(object, auto, w)
  BY TypesNext, OwedFalls
<1>2. /\ Owed(object, auto, w) \in Nat /\ Pending(tick, w) \in Nat
      /\ counter[w] \in Nat /\ billed[w] \in Nat /\ served[w] \in Nat
  BY TypesNext DEF BudgetTyped
<1>3. /\ Owed(object', auto', w) \in Nat /\ Pending(tick', w) \in Nat
      /\ counter'[w] \in Nat
  BY TypesNext DEF BudgetTyped
<1>4. /\ Due(w) = Owed(object, auto, w) + Pending(tick, w) + counter[w] + billed[w]
      /\ Due(w)' = Owed(object', auto', w) + Pending(tick', w) + counter'[w]
                     + billed'[w]
  BY DEF Due
<1>5. counter'[w] <= counter[w]
  BY <1>2
<1>6. Due(w)' - served'[w] <= Due(w) - served[w]
  BY <1>1, <1>2, <1>3, <1>4, <1>5
<1>7. served[w] <= served'[w]
  BY <1>2
<1> QED BY <1>6, <1>7, BudgetKept

LEMMA QuietBudget ==
  ASSUME TypeOK, Next, BillQuiet, NEW w \in Wallets, Budget(w)
  PROVE  Budget(w)'
<1>1. ASSUME NEW v \in Versions
      PROVE  Weight(object', auto', <<w, v>>) <= Weight(object, auto, <<w, v>>)
  <2> DEFINE u == <<w, v>>
  <2>1. u \in Objects
    BY VersionsAreObjects
  <2>2. object'[u].unsettledBytes <= object[u].unsettledBytes
    BY <2>1 DEF BillQuiet
  <2>3. /\ object \in [Objects -> UserRecord] /\ auto \in AutoRecord
        /\ object' \in [Objects -> UserRecord]
    BY TypesNext
  <2> HIDE DEF u
  <2>4. object[u].unsettledBytes \in Nat /\ object'[u].unsettledBytes \in Nat
    BY <2>1, <2>3 DEF UserRecord
  <2>5. object'[u].unsettledBytes <= object[u].unsettledBytes + 0
    BY <2>2, <2>4
  <2>6. Weight(object', auto, u) <= Weight(object, auto, u) + 0
    BY <2>1, <2>3, <2>5, WeightFalls
  <2>7. Weight(object, auto, u) \in Nat /\ Weight(object', auto, u) \in Nat
    BY <2>1, <2>3, WeightTyped
  <2>8. Weight(object', auto, u) <= Weight(object, auto, u)
    BY <2>6, <2>7
  <2> QED BY <2>8 DEF BillQuiet, u
<1>2. Pending(tick', w) <= Pending(tick, w)
  <2>1. Pending(tick, w) \in Nat
    BY TypesNext DEF BudgetTyped
  <2>2. Pending(tick', w) = Pending(tick, w) \/ Pending(tick', w) = 0
    BY DEF Pending, BillQuiet
  <2> QED BY <2>1, <2>2
<1>3. /\ counter'[w] \in {counter[w], 0}
      /\ billed'[w] = billed[w] /\ served'[w] = served[w]
      /\ \/ disk' = disk /\ (Landed(auto, w) => Landed(auto', w))
         \/ disk' = Saved(users', payments', object')
  BY DEF BillQuiet
<1> QED BY <1>1, <1>2, <1>3, LighterBudget

LEMMA ServeBudget ==
  ASSUME TypeOK, Next, NEW x \in Wallets, NEW p, Serve(x, p),
         NEW w \in Wallets, Budget(w)
  PROVE  Budget(w)'
<1>1. /\ Owed(object, auto, w) \in Nat /\ Pending(tick, w) \in Nat
      /\ counter[w] \in Nat /\ billed[w] \in Nat /\ served[w] \in Nat
  BY TypesNext DEF BudgetTyped
<1>2. counter \in [Wallets -> Nat] /\ served \in [Wallets -> Nat]
  BY DEF TypeOK, XrayType, HistoryType
<1>3. \/ counter'[w] = counter[w] /\ served'[w] = served[w]
      \/ counter'[w] = counter[w] + 1 /\ served'[w] = served[w] + 1
  BY <1>2 DEF Serve
<1>4. UNCHANGED <<object, auto, tick, billed, disk>>
  BY DEF Serve, storeVars
<1>5. /\ Due(w) = Owed(object, auto, w) + Pending(tick, w) + counter[w] + billed[w]
      /\ Due(w)' = Owed(object, auto, w) + Pending(tick, w) + counter'[w]
                     + billed[w]
  BY <1>4 DEF Due
<1>6. Due(w)' - served'[w] <= Due(w) - served[w]
  BY <1>1, <1>3, <1>5
<1>7. served[w] <= served'[w]
  BY <1>1, <1>3
<1> QED BY <1>4, <1>6, <1>7, BudgetKept

LEMMA BillLandsBudget ==
  ASSUME TypeOK, Next, BillLands, UnitsPerByte = 1, BillInv,
         NEW w \in Wallets, Budget(w)
  PROVE  Budget(w)'
<1> DEFINE u == auto.u
           n == auto.amount
<1>1. /\ Owed(object, auto, w) \in Nat /\ Pending(tick, w) \in Nat
      /\ counter[w] \in Nat /\ billed[w] \in Nat /\ served[w] \in Nat
  BY TypesNext DEF BudgetTyped
<1>2. /\ u \in Objects /\ n \in Nat /\ auto.unsettled \in Nat
      /\ auto.pc = "sent" /\ auto' = [auto EXCEPT !.pc = "landed"]
  BY DEF BillLands, TypeOK, AutoType, AutoRecord
<1>3. n <= auto.unsettled
  BY <1>2 DEF BillInv, CostBaseUnits
<1>4. /\ auto'.u = u /\ auto'.pc = "landed"
      /\ auto'.unsettled = auto.unsettled /\ auto'.amount = n
  BY <1>2 DEF TypeOK, AutoType, AutoRecord
<1>5. UNCHANGED <<object, tick, counter, served, disk>>
  BY DEF BillLands, xrayVars, countVars, storeVars
<1>6. billed' = [billed EXCEPT ![u[1]] = @ + n] /\ billed \in [Wallets -> Nat]
  BY DEF BillLands, TypeOK, HistoryType
<1>7. /\ object \in [Objects -> UserRecord] /\ auto \in AutoRecord
      /\ object' \in [Objects -> UserRecord] /\ auto' \in AutoRecord
  BY TypesNext
<1>8. \A x \in Objects : x # u =>
        Weight(object', auto', x) = Weight(object, auto, x)
  BY <1>4, <1>5 DEF Weight
<1>9. Weight(object', auto', u) <= Weight(object, auto, u) + (0 - n)
  <2> DEFINE tab == object[u].unsettledBytes
             most == Greater(tab, auto.unsettled)
  <2>1. tab \in Nat
    BY <1>2, <1>7 DEF UserRecord
  <2>2. Weight(object', auto', u) = TabLess(auto.unsettled, n)
    BY <1>4 DEF Weight
  <2>3. Weight(object, auto, u) = most
    BY <1>2 DEF Weight
  <2>4. most \in Nat /\ auto.unsettled <= most
    BY <1>2, <2>1 DEF Greater
  <2>5. TabLess(auto.unsettled, n) = auto.unsettled - n
    BY <1>2, <1>3 DEF TabLess
  <2> HIDE DEF most, n
  <2> QED BY <1>2, <2>2, <2>3, <2>4, <2>5
<1>10. CASE u[1] = w
  <2>1. billed'[w] = billed[w] + n
    BY <1>6, <1>10
  <2>2. PICK x \in Versions : u = <<w, x>>
    BY <1>2, <1>10, ObjectParts DEF Versions
  <2>3. 0 - n \in Int
    BY <1>2
  <2>4. \A v \in Versions \ {x} :
          Weight(object', auto', <<w, v>>) <= Weight(object, auto, <<w, v>>)
    <3> TAKE v \in Versions \ {x}
    <3>1. <<w, v>> \in Objects /\ <<w, v>> # u
      BY <2>2, VersionsAreObjects
    <3>2. Weight(object, auto, <<w, v>>) \in Nat
      BY <1>7, <3>1, WeightTyped
    <3>3. Weight(object', auto', <<w, v>>) = Weight(object, auto, <<w, v>>)
      BY <1>8, <3>1
    <3> QED BY <3>2, <3>3
  <2>5. Weight(object', auto', <<w, x>>) <= Weight(object, auto, <<w, x>>) + (0 - n)
    BY <1>9, <2>2
  <2>6. Owed(object', auto', w) <= Owed(object, auto, w) + (0 - n)
    <3> HIDE DEF n
    <3> QED BY <1>7, <2>3, <2>4, <2>5, OwedRises
  <2>7. Owed(object', auto', w) \in Nat
    BY TypesNext DEF BudgetTyped
  <2>8. /\ Due(w) = Owed(object, auto, w) + Pending(tick, w) + counter[w] + billed[w]
        /\ Due(w)' = Owed(object', auto', w) + Pending(tick, w) + counter[w]
                       + billed'[w]
    BY <1>5 DEF Due
  <2>9. Due(w)' - served'[w] <= Due(w) - served[w]
    <3> HIDE DEF n
    <3> QED BY <1>1, <1>2, <1>5, <2>1, <2>6, <2>7, <2>8 DEF n
  <2>10. Landed(auto', w)
    BY <1>4, <1>10 DEF Landed
  <2> QED BY <2>9, <2>10, BudgetKept
<1>11. CASE u[1] # w
  <2>1. billed'[w] = billed[w]
    BY <1>6, <1>11
  <2>2. \A v \in Versions :
          Weight(object', auto', <<w, v>>) <= Weight(object, auto, <<w, v>>)
    <3> TAKE v \in Versions
    <3>1. <<w, v>> \in Objects /\ <<w, v>> # u
      BY <1>11, VersionsAreObjects
    <3>2. Weight(object, auto, <<w, v>>) \in Nat
      BY <1>7, <3>1, WeightTyped
    <3>3. Weight(object', auto', <<w, v>>) = Weight(object, auto, <<w, v>>)
      BY <1>8, <3>1
    <3> QED BY <3>2, <3>3
  <2>3. Pending(tick', w) <= Pending(tick, w)
    BY <1>1, <1>5
  <2>4. ~Landed(auto, w)
    BY <1>11 DEF Landed
  <2> QED BY <1>5, <2>1, <2>2, <2>3, <2>4, LighterBudget
<1> QED BY <1>10, <1>11

\* Putting d bytes on one tab of a wallet raises what it owes by at most d.
LEMMA MeterRaises ==
  ASSUME TypeOK, Next, auto' = auto, NEW w \in Wallets, NEW x \in Versions,
         NEW d \in Nat,
         \A v \in Versions \ {x} : object'[<<w, v>>].unsettledBytes
                                     = object[<<w, v>>].unsettledBytes,
         object'[<<w, x>>].unsettledBytes = object[<<w, x>>].unsettledBytes + d
  PROVE  Owed(object', auto', w) <= Owed(object, auto, w) + d
<1>1. /\ object \in [Objects -> UserRecord] /\ auto \in AutoRecord
      /\ object' \in [Objects -> UserRecord] /\ auto' \in AutoRecord
  BY TypesNext
<1>2. \A v \in Versions : <<w, v>> \in Objects
  BY VersionsAreObjects
<1>3. \A v \in Versions : /\ object[<<w, v>>].unsettledBytes \in Nat
                          /\ object'[<<w, v>>].unsettledBytes \in Nat
  BY <1>1, <1>2 DEF UserRecord
<1>4. Weight(object', auto, <<w, x>>) <= Weight(object, auto, <<w, x>>) + d
  <2>1. object'[<<w, x>>].unsettledBytes
          <= object[<<w, x>>].unsettledBytes + d
    BY <1>3
  <2> QED BY <1>1, <1>2, <2>1, WeightFalls
<1>5. \A v \in Versions \ {x} :
        Weight(object', auto, <<w, v>>) <= Weight(object, auto, <<w, v>>)
  <2> TAKE v \in Versions \ {x}
  <2> DEFINE u == <<w, v>>
  <2>1. u \in Objects
    BY <1>2
  <2>2. object'[u].unsettledBytes <= object[u].unsettledBytes + 0
    BY <1>3
  <2> HIDE DEF u
  <2>3. Weight(object', auto, u) <= Weight(object, auto, u) + 0
    BY <1>1, <2>1, <2>2, WeightFalls
  <2>4. Weight(object, auto, u) \in Nat /\ Weight(object', auto, u) \in Nat
    BY <1>1, <2>1, WeightTyped
  <2>5. Weight(object', auto, u) <= Weight(object, auto, u)
    BY <2>3, <2>4
  <2> QED BY <2>5 DEF u
<1>6. d \in Int
  OBVIOUS
<1>7. Owed(object', auto, w) <= Owed(object, auto, w) + d
  BY <1>1, <1>4, <1>5, <1>6, OwedRises
<1> QED BY <1>7

\* A step that moves bytes of a poll onto the tab of user u: the sum of what
\* is counted, pending and owed does not rise.
LEMMA MeteredBudget ==
  ASSUME TypeOK, Next, NEW w \in Wallets, Budget(w), NEW u \in Objects,
         NEW d \in Nat,
         \A x \in Objects : x # u => object'[x].unsettledBytes
                                       = object[x].unsettledBytes,
         object'[u].unsettledBytes = object[u].unsettledBytes + d,
         UNCHANGED <<auto, billed, served>>,
         IF u[1] = w
         THEN d + Pending(tick', w) + counter'[w]
                <= Pending(tick, w) + counter[w]
         ELSE Pending(tick', w) + counter'[w] <= Pending(tick, w) + counter[w],
         disk' = disk \/ disk' = Saved(users, payments, object)
  PROVE  Budget(w)'
<1>1. /\ Owed(object, auto, w) \in Nat /\ Pending(tick, w) \in Nat
      /\ counter[w] \in Nat /\ billed[w] \in Nat /\ served[w] \in Nat
  BY TypesNext DEF BudgetTyped
<1>2. /\ Owed(object', auto', w) \in Nat /\ Pending(tick', w) \in Nat
      /\ counter'[w] \in Nat
  BY TypesNext DEF BudgetTyped
<1>3. /\ object \in [Objects -> UserRecord]
      /\ object' \in [Objects -> UserRecord]
  BY TypesNext
<1>4. \A v \in Versions : <<w, v>> \in Objects
  BY VersionsAreObjects
<1>5. CASE u[1] = w
  <2>1. PICK x \in Versions : u = <<w, x>>
    BY <1>5, ObjectParts DEF Versions
  <2>2. \A v \in Versions \ {x} : object'[<<w, v>>].unsettledBytes
                                    = object[<<w, v>>].unsettledBytes
    BY <1>4, <2>1
  <2>3. object'[<<w, x>>].unsettledBytes = object[<<w, x>>].unsettledBytes + d
    BY <2>1
  <2>4. Owed(object', auto', w) <= Owed(object, auto, w) + d
    BY <2>2, <2>3, MeterRaises
  <2>5. /\ Due(w) = Owed(object, auto, w) + Pending(tick, w) + counter[w] + billed[w]
        /\ Due(w)' = Owed(object', auto', w) + Pending(tick', w) + counter'[w]
                       + billed[w]
    BY DEF Due
  <2>6. Due(w)' - served'[w] <= Due(w) - served[w]
    BY <1>1, <1>2, <1>5, <2>4, <2>5
  <2>7. served[w] <= served'[w]
    BY <1>1
  <2> QED BY <2>6, <2>7, BudgetKept
<1>6. CASE u[1] # w
  <2>1. PICK x : x \in Versions
    BY MaxesAreNats DEF Versions
  <2>2. \A v \in Versions : <<w, v>> # u
    BY <1>6
  <2>3. \A v \in Versions : object'[<<w, v>>].unsettledBytes
                              = object[<<w, v>>].unsettledBytes
    BY <1>4, <2>2
  <2>4. object[<<w, x>>].unsettledBytes \in Nat
    BY <1>3, <1>4, <2>1 DEF UserRecord
  <2>5. object'[<<w, x>>].unsettledBytes = object[<<w, x>>].unsettledBytes + 0
    BY <2>1, <2>3, <2>4
  <2>6. Owed(object', auto', w) <= Owed(object, auto, w) + 0
    BY <2>1, <2>3, <2>5, MeterRaises
  <2>7. /\ Due(w) = Owed(object, auto, w) + Pending(tick, w) + counter[w] + billed[w]
        /\ Due(w)' = Owed(object', auto', w) + Pending(tick', w) + counter'[w]
                       + billed[w]
    BY DEF Due
  <2>8. Due(w)' - served'[w] <= Due(w) - served[w]
    BY <1>1, <1>2, <1>6, <2>6, <2>7
  <2>9. served[w] <= served'[w]
    BY <1>1
  <2> QED BY <2>8, <2>9, BudgetKept
<1> QED BY <1>5, <1>6

LEMMA TickMetersBudget ==
  ASSUME TypeOK, Next, BillInv, TickResume, TickMeters(Flipped),
         NEW w \in Wallets, Budget(w)
  PROVE  Budget(w)'
<1>1. PICK u \in tick.todo :
        /\ object' = [Flipped EXCEPT ![u] = Metered(@, tick.delta[u[1]])]
        /\ tick' = [tick EXCEPT !.pc = "read", !.u = u, !.todo = @ \ {u},
                                !.balance = 0]
        /\ UNCHANGED <<xrayVars, storeVars>>
  BY DEF TickMeters
<1> DEFINE d == tick.delta[u[1]]
<1>2. u \in Objects /\ u[1] \in Wallets /\ d \in Nat
  BY <1>1, ObjectParts DEF TypeOK, TickType, TickRecord
<1>3. /\ tick'.delta = tick.delta /\ tick'.todo = tick.todo \ {u}
  BY <1>1 DEF TypeOK, TickType, TickRecord
<1>4. \A x \in Objects : x # u =>
        object'[x].unsettledBytes = object[x].unsettledBytes
  BY <1>1, FlippedTabs
<1>5. object'[u].unsettledBytes = object[u].unsettledBytes + d
  <2>1. Flipped[u] \in UserRecord
        /\ Flipped[u].unsettledBytes = object[u].unsettledBytes
    BY <1>2, FlippedTabs
  <2>2. object'[u] = Metered(Flipped[u], d)
    BY <1>1, <1>2, FlippedTabs
  <2> HIDE DEF d
  <2> QED BY <1>2, <2>1, <2>2, TabSteps
<1>6. UNCHANGED <<auto, billed, served, counter, disk>>
  BY <1>1 DEF TickResume, historyVars, xrayVars, countVars, storeVars
<1>7. /\ Pending(tick, w) \in Nat /\ counter[w] \in Nat
  BY TypesNext DEF BudgetTyped
<1>8. CASE u[1] = w
  <2>1. Pending(tick, w) = d
    BY <1>1, <1>8 DEF Pending
  <2>2. Pending(tick', w) = 0
    BY <1>1, <1>3, <1>8 DEF Pending, BillInv
  <2>3. d + Pending(tick', w) + counter'[w] <= Pending(tick, w) + counter[w]
    BY <1>2, <1>6, <1>7, <2>1, <2>2
  <2> HIDE DEF d
  <2> QED BY <1>2, <1>4, <1>5, <1>6, <1>8, <2>3, MeteredBudget
<1>9. CASE u[1] # w
  <2>1. Pending(tick', w) = Pending(tick, w)
    BY <1>3, <1>9 DEF Pending
  <2>2. Pending(tick', w) + counter'[w] <= Pending(tick, w) + counter[w]
    BY <1>6, <1>7, <2>1
  <2> HIDE DEF d
  <2> QED BY <1>2, <1>4, <1>5, <1>6, <1>9, <2>2, MeteredBudget
<1> QED BY <1>8, <1>9

LEMMA TickPollBudget ==
  ASSUME TypeOK, Next, TickPoll, NEW w \in Wallets, Budget(w)
  PROVE  Budget(w)'
<1>1. PICK delta \in {counter, NoBytes} :
       /\ counter' = IF delta = counter THEN NoBytes ELSE counter
       /\ disk' = IF delta = NoBytes THEN disk
                  ELSE Saved(users, payments, object)
       /\ \/ /\ All = {}
             /\ tick' = [TickIdle EXCEPT !.pc = "resume"]
             /\ UNCHANGED object
          \/ \E u \in All :
               /\ object' = [object EXCEPT ![u] = Metered(@, delta[u[1]])]
               /\ tick' = [pc |-> "read", users |-> All, todo |-> All \ {u},
                           u |-> u, delta |-> delta, balance |-> 0]
  BY DEF TickPoll
<1>2. UNCHANGED <<auto, users, payments, billed, served>>
  BY DEF TickPoll, historyVars
<1>3. /\ Pending(tick, w) \in Nat /\ counter[w] \in Nat
  BY TypesNext DEF BudgetTyped
<1>4. delta \in [Wallets -> Nat]
  BY NoBytesType DEF TypeOK, XrayType
<1>5. delta[w] + counter'[w] <= counter[w] /\ counter'[w] \in Nat
      /\ delta[w] \in Nat
  BY <1>1, <1>3, <1>4 DEF NoBytes
<1>6. disk' = disk \/ disk' = Saved(users, payments, object)
  BY <1>1
<1>7. CASE All = {} /\ tick' = [TickIdle EXCEPT !.pc = "resume"]
           /\ UNCHANGED object
  <2>1. Pending(tick', w) = 0
    BY <1>7 DEF TickIdle, Pending
  <2>2. UNCHANGED <<historyVars>>
    BY DEF TickPoll
  <2>3. object \in [Objects -> UserRecord]
    BY DEF TypeOK, StoreType
  <2>4. \A u \in Objects : object'[u].unsettledBytes <= object[u].unsettledBytes
    BY <1>7, <2>3 DEF UserRecord
  <2>5. \A x \in Wallets : counter'[x] \in {counter[x], 0}
    BY <1>1 DEF NoBytes
  <2>6. tick'.todo = {}
    BY <1>7 DEF TickIdle
  <2>7. BillQuiet
    BY <1>2, <1>6, <1>7, <2>2, <2>4, <2>5, <2>6 DEF BillQuiet, historyVars
  <2> QED BY <2>7, QuietBudget
<1>8. ASSUME NEW u \in All,
             object' = [object EXCEPT ![u] = Metered(@, delta[u[1]])],
             tick' = [pc |-> "read", users |-> All, todo |-> All \ {u},
                      u |-> u, delta |-> delta, balance |-> 0]
      PROVE  Budget(w)'
  <2> DEFINE d == delta[u[1]]
  <2>1. u \in Objects /\ u[1] \in Wallets /\ d \in Nat
    BY <1>4, AllObjects, ObjectParts DEF TypeOK
  <2>2. object \in [Objects -> UserRecord]
    BY DEF TypeOK, StoreType
  <2>3. \A x \in Objects : x # u =>
          object'[x].unsettledBytes = object[x].unsettledBytes
    BY <1>8, <2>2
  <2>4. object'[u].unsettledBytes = object[u].unsettledBytes + d
    <3>1. object'[u] = Metered(object[u], d)
      BY <1>8, <2>1, <2>2
    <3> HIDE DEF d
    <3> QED BY <2>1, <2>2, <3>1, TabSteps
  <2>5. tick'.todo = All \ {u} /\ tick'.delta = delta
    BY <1>8
  <2>6. Pending(tick', w) \in {delta[w], 0}
    BY <2>5 DEF Pending
  <2>7. CASE u[1] = w
    <3>1. \A x \in All : x[1] = w => x = u
      BY <2>7 DEF All
    <3>2. Pending(tick', w) = 0
      BY <2>5, <3>1 DEF Pending
    <3>3. d = delta[w]
      BY <2>7
    <3> HIDE DEF d
    <3>4. d + Pending(tick', w) + counter'[w] <= Pending(tick, w) + counter[w]
      BY <1>3, <1>5, <3>2, <3>3
    <3> QED BY <1>2, <1>6, <2>1, <2>3, <2>4, <2>7, <3>4, MeteredBudget
  <2>8. CASE u[1] # w
    <3> HIDE DEF d
    <3>1. Pending(tick', w) + counter'[w] <= Pending(tick, w) + counter[w]
      BY <1>3, <1>5, <2>6
    <3> QED BY <1>2, <1>6, <2>1, <2>3, <2>4, <2>8, <3>1, MeteredBudget
  <2> QED BY <2>7, <2>8
<1> QED BY <1>1, <1>7, <1>8

\* Going on to the next user, or ending the pass, no bill is under way.
LEMMA AdvanceWeight ==
  ASSUME TypeOK, Next, NEW todo \in SUBSET Objects, NEW changed,
         AutoAdvance(todo, changed)
  PROVE  /\ auto'.pc \in {"idle", "read"}
         /\ \A u \in Objects :
              Weight(object', auto', u) = object'[u].unsettledBytes
         /\ \A w \in Wallets : counter'[w] \in {counter[w], 0}
<1>1. object' \in [Objects -> UserRecord]
  BY TypesNext
<1>2. \A w \in Wallets : UNCHANGED xrayVars \/ Reconcile =>
                           counter'[w] \in {counter[w], 0}
  BY ReconcileResets DEF xrayVars, countVars
<1>3. CASE auto' = AutoIdle /\ EndOfPass(changed)
  BY <1>2, <1>3 DEF AutoIdle, EndOfPass, Weight
<1>4. ASSUME NEW u \in Billable(todo),
             NEW skipped \in SUBSET (todo \ Billable(todo)),
             auto' = [AutoIdle EXCEPT
                     !.pc = "read", !.u = u,
                     !.todo = todo \ (skipped \cup {u}),
                     !.unsettled = object'[u].unsettledBytes,
                     !.changed = changed],
             UNCHANGED xrayVars
      PROVE  /\ auto'.pc \in {"idle", "read"}
             /\ \A x \in Objects :
                  Weight(object', auto', x) = object'[x].unsettledBytes
             /\ \A w \in Wallets : counter'[w] \in {counter[w], 0}
  <2>1. /\ auto'.pc = "read" /\ auto'.u = u
        /\ auto'.unsettled = object'[u].unsettledBytes
    BY <1>4 DEF AutoIdle
  <2>2. object'[u].unsettledBytes \in Nat
    BY <1>1 DEF Billable, UserRecord
  <2>3. Greater(object'[u].unsettledBytes, auto'.unsettled)
          = object'[u].unsettledBytes
    BY <2>1, <2>2 DEF Greater
  <2>4. \A x \in Objects :
          Weight(object', auto', x) = object'[x].unsettledBytes
    BY <2>1, <2>3 DEF Weight
  <2> QED BY <1>2, <1>4, <2>1, <2>4
<1> QED BY <1>3, <1>4 DEF AutoAdvance

\* What every step of the billing loop leaves alone, and what it writes.
LEMMA AutoFrame ==
  ASSUME AutoNext
  PROVE  /\ UNCHANGED <<tick, billed, served>>
         /\ disk' = disk \/ AutoResume
         /\ AutoResume => disk' = Saved(users', payments', object')
BY DEF AutoNext, AutoStart, AutoRead, AutoBill, AutoFailed, AutoBooked,
       AutoResume, storeVars, historyVars, Save

LEMMA AutoWeights ==
  ASSUME TypeOK, Next, AutoNext, UnitsPerByte = 1,
         NEW w \in Wallets \ doubtful', NEW u \in Objects, u[1] = w
  PROVE  /\ Weight(object', auto', u) <= Weight(object, auto, u)
         /\ counter'[w] \in {counter[w], 0}
         /\ AutoResume \/ (Landed(auto, w) => Landed(auto', w))
<1> USE DEF TypeOK
<1>1. /\ object \in [Objects -> UserRecord] /\ auto \in AutoRecord
      /\ object' \in [Objects -> UserRecord] /\ auto' \in AutoRecord
  BY TypesNext
<1>2. /\ Weight(object, auto, u) \in Nat /\ Weight(object', auto', u) \in Nat
      /\ object[u].unsettledBytes \in Nat
      /\ auto.u # u \/ auto.pc # "landed" =>
           object[u].unsettledBytes <= Weight(object, auto, u)
  BY <1>1, WeightTyped
<1>3. auto.todo \in SUBSET Objects /\ All \in SUBSET Objects
  BY <1>1, AllObjects DEF AutoRecord
<1>4. CASE AutoStart
  <2>1. auto.pc = "idle" /\ object' = object /\ AutoAdvance(All, FALSE)
    BY <1>4 DEF AutoStart
  <2>2. /\ Weight(object', auto', u) = object[u].unsettledBytes
        /\ counter'[w] \in {counter[w], 0}
    BY <1>3, <2>1, AdvanceWeight
  <2> QED BY <1>2, <2>1, <2>2 DEF Landed
<1>5. CASE AutoRead
  <2>1. /\ object' = object /\ counter' = counter
        /\ \/ auto.pc = "read" /\ auto'.pc = "bill"
           \/ auto.pc = "reread" /\ auto'.pc = "resume"
        /\ auto'.u = auto.u /\ auto'.unsettled = auto.unsettled
    <3>1. PICK b : auto' = [auto EXCEPT !.pc = IF @ = "read" THEN "bill"
                                                              ELSE "resume",
                                        !.balance = b]
      BY <1>5 DEF AutoRead
    <3>2. auto'.pc = (IF auto.pc = "read" THEN "bill" ELSE "resume")
          /\ auto'.u = auto.u /\ auto'.unsettled = auto.unsettled
      BY <1>1, <3>1 DEF AutoRecord
    <3>3. auto.pc \in {"read", "reread"} /\ UNCHANGED <<object, xrayVars>>
      BY <1>5 DEF AutoRead
    <3>4. object' = object /\ counter' = counter
      BY <3>3 DEF xrayVars, countVars
    <3> QED BY <3>2, <3>3, <3>4
  <2>2. Weight(object', auto', u) = Weight(object, auto, u)
    BY <2>1 DEF Weight
  <2> QED BY <1>2, <2>1, <2>2 DEF Landed
<1>6. CASE AutoBill
  <2>1. /\ auto.pc = "bill" /\ object' = object
    BY <1>6 DEF AutoBill
  <2>2. CASE AutoAdvance(auto.todo, auto.changed)
    <3>1. /\ Weight(object', auto', u) = object[u].unsettledBytes
          /\ counter'[w] \in {counter[w], 0}
      BY <1>3, <2>1, <2>2, AdvanceWeight
    <3> QED BY <1>2, <2>1, <3>1 DEF Landed
  <2>3. CASE UNCHANGED xrayVars
             /\ \E n : auto' = [auto EXCEPT !.pc = "sent", !.amount = n]
    <3>1. /\ auto'.pc = "sent" /\ auto'.u = auto.u
          /\ auto'.unsettled = auto.unsettled /\ counter' = counter
      BY <1>1, <2>3 DEF AutoRecord, xrayVars, countVars
    <3>2. Weight(object', auto', u) = Weight(object, auto, u)
      BY <2>1, <3>1 DEF Weight
    <3> QED BY <1>2, <2>1, <3>1, <3>2 DEF Landed
  <2> QED BY <1>6, <2>2, <2>3 DEF AutoBill
<1>7. CASE AutoFailed
  <2>1. /\ auto.pc \in {"sent", "landed"} /\ object' = object
        /\ auto.pc = "landed" => auto.u[1] # w
        /\ AutoAdvance(auto.todo, auto.changed)
    BY <1>7 DEF AutoFailed
  <2>2. /\ Weight(object', auto', u) = object[u].unsettledBytes
        /\ counter'[w] \in {counter[w], 0}
    BY <1>3, <2>1, AdvanceWeight
  <2>3. auto.u # u \/ auto.pc # "landed"
    BY <2>1
  <2> QED BY <1>2, <2>1, <2>2, <2>3 DEF Landed
<1>8. CASE AutoBooked
  <2> DEFINE rest == TabLess(auto.unsettled, auto.amount)
  <2>1. /\ auto.pc = "landed" /\ auto'.pc = "reread" /\ auto'.u = auto.u
        /\ auto.u \in Objects /\ counter' = counter
    BY <1>1, <1>8 DEF AutoBooked, AutoType, AutoRecord, xrayVars, countVars
  <2>2. object' = [object EXCEPT ![auto.u].unsettledBytes = rest]
    <3>1. auto.amount \in Nat
      BY <1>1 DEF AutoRecord
    <3>2. QuotaBytes(auto.amount) = auto.amount
      BY <3>1 DEF QuotaBytes
    <3> QED BY <1>8, <3>2 DEF AutoBooked, TabAfterBill
  <2> HIDE DEF rest
  <2>3. object'[auto.u].unsettledBytes = rest
    BY <1>1, <2>1, <2>2, TabSteps
  <2>4. u # auto.u => object'[u] = object[u]
    BY <1>1, <2>2
  <2>5. Weight(object', auto', u) = Weight(object, auto, u)
    <3>1. Weight(object', auto', u) = object'[u].unsettledBytes
      BY <2>1 DEF Weight
    <3>2. CASE u = auto.u
      BY <2>1, <2>3, <3>1, <3>2 DEF Weight, rest
    <3>3. CASE u # auto.u
      BY <2>4, <3>1, <3>3 DEF Weight
    <3> QED BY <3>2, <3>3
  <2> QED BY <1>2, <2>1, <2>5 DEF Landed
<1>9. CASE AutoResume
  <2>1. /\ auto.pc = "resume" /\ auto.u \in Objects
        /\ object' = [object EXCEPT ![auto.u] = Refreshed(@, auto.balance)]
        /\ AutoAdvance(auto.todo, TRUE)
    BY <1>9 DEF AutoResume, AutoType
  <2>2. /\ Weight(object', auto', u) = object'[u].unsettledBytes
        /\ counter'[w] \in {counter[w], 0}
    BY <1>3, <2>1, AdvanceWeight
  <2>3. object'[u].unsettledBytes = object[u].unsettledBytes
    <3>1. auto.balance \in Nat
      BY <1>1 DEF AutoRecord
    <3> QED BY <1>1, <2>1, <3>1, TabSteps
  <2>4. Weight(object, auto, u) = object[u].unsettledBytes
    BY <2>1 DEF Weight
  <2> QED BY <1>2, <1>9, <2>2, <2>3, <2>4
<1> QED BY <1>4, <1>5, <1>6, <1>7, <1>8, <1>9 DEF AutoNext

LEMMA AutoBudget ==
  ASSUME TypeOK, Next, AutoNext, UnitsPerByte = 1,
         NEW w \in Wallets \ doubtful', Budget(w)
  PROVE  Budget(w)'
<1>1. ASSUME NEW v \in Versions
      PROVE  Weight(object', auto', <<w, v>>) <= Weight(object, auto, <<w, v>>)
  <2> DEFINE u == <<w, v>>
  <2>1. u \in Objects /\ u[1] = w
    BY VersionsAreObjects
  <2> HIDE DEF u
  <2>2. Weight(object', auto', u) <= Weight(object, auto, u)
    BY <2>1, AutoWeights
  <2> QED BY <2>2 DEF u
<1>2. PICK v \in Versions : <<w, v>> \in Objects
  BY VersionsAreObjects, MaxesAreNats DEF Versions
<1>3. /\ counter'[w] \in {counter[w], 0}
      /\ AutoResume \/ (Landed(auto, w) => Landed(auto', w))
  <2> DEFINE u == <<w, v>>
  <2>1. u \in Objects /\ u[1] = w
    BY <1>2
  <2> HIDE DEF u
  <2> QED BY <2>1, AutoWeights
<1>4. /\ UNCHANGED <<tick, billed, served>>
      /\ disk' = disk \/ AutoResume
      /\ AutoResume => disk' = Saved(users', payments', object')
  BY AutoFrame
<1>5. Pending(tick', w) <= Pending(tick, w)
  <2>1. Pending(tick, w) \in Nat
    BY TypesNext DEF BudgetTyped
  <2> QED BY <1>4, <2>1
<1>6. \/ disk' = disk /\ (Landed(auto, w) => Landed(auto', w))
      \/ disk' = Saved(users', payments', object')
  BY <1>3, <1>4
<1>7. billed'[w] = billed[w] /\ served'[w] = served[w]
  BY <1>4
<1> QED BY <1>1, <1>3, <1>5, <1>6, <1>7, LighterBudget

\* After a restart a wallet owes what the file says.
LEMMA RestartBudget ==
  ASSUME TypeOK, Next, Restart, NEW w \in Wallets \ doubtful', Budget(w)
  PROVE  Budget(w)'
<1> DEFINE saved == disk.object[w].unsettledBytes
<1>1. ~Landed(auto, w)
  BY DEF Restart, Landed
<1>2. saved + billed[w] <= served[w]
  BY <1>1 DEF Budget
<1>3. /\ billed[w] \in Nat /\ served[w] \in Nat /\ saved \in Nat
  BY TypesNext DEF BudgetTyped
<1>4. /\ Owed(object', auto', w) \in Nat
      /\ disk'.object[w].unsettledBytes \in Nat
  BY TypesNext DEF BudgetTyped
<1>5. auto'.pc = "idle" /\ Pending(tick', w) = 0 /\ counter'[w] = 0
      /\ UNCHANGED <<billed, served>>
      /\ disk' = Saved(users', payments', object')
  BY DEF Restart, AutoIdle, TickIdle, Pending, Loads, NoBytes, Save
<1>6. \A v \in Versions :
        Weight(object', auto', <<w, v>>)
          = IF disk.users[w] = v THEN saved ELSE 0
  <2> TAKE v \in Versions
  <2>1. <<w, v>> \in Objects
    BY VersionsAreObjects
  <2>2. object'[<<w, v>>] = IF disk.users[w] = v THEN disk.object[w]
                                                 ELSE NewUser
    BY <2>1 DEF Restart
  <2>3. Weight(object', auto', <<w, v>>) = object'[<<w, v>>].unsettledBytes
    BY <1>5 DEF Weight
  <2> QED BY <2>2, <2>3 DEF NewUser
<1>7. Owed(object', auto', w) <= saved
  <2> DEFINE f == Weights(object', auto', w)
             x == IF disk.users[w] \in Versions THEN disk.users[w] ELSE 1
             zero == [v \in Versions |-> 0]
  <2>1. x \in Versions
    BY MaxesAreNats DEF Versions
  <2>2. \A v \in Versions : f[v] = IF disk.users[w] = v THEN saved ELSE 0
    BY <1>6 DEF Weights
  <2> HIDE DEF f, saved
  <2>3. \A v \in Versions : f[v] \in Int /\ zero[v] \in Int
    BY <1>3, <2>2
  <2>4. \A v \in Versions \ {x} : f[v] <= zero[v]
    BY <2>2
  <2>5. f[x] <= zero[x] + saved
    BY <1>3, <2>1, <2>2
  <2>6. saved \in Int
    BY <1>3
  <2> HIDE DEF x
  <2>7. SumFunctionOnSet(f, Versions) <= SumFunctionOnSet(zero, Versions) + saved
    <3> HIDE DEF zero
    <3> QED BY <2>1, <2>3, <2>4, <2>5, <2>6, VersionsFinite, SumRises
  <2>8. SumFunctionOnSet(zero, Versions) = 0
    BY VersionsFinite, SumOfZeros
  <2>9. SumFunctionOnSet(f, Versions) <= saved
    BY <2>6, <2>7, <2>8
  <2> QED BY <2>9 DEF f, Owed
<1>8. Due(w)' <= served'[w]
  <2>1. Due(w)' = Owed(object', auto', w) + 0 + 0 + billed[w]
    BY <1>5 DEF Due
  <2> HIDE DEF saved
  <2> QED BY <1>2, <1>3, <1>4, <1>5, <1>7, <2>1
<1>9. disk'.object[w].unsettledBytes + billed'[w] <= served'[w]
  <2>1. ~Landed(auto', w)
    BY <1>5 DEF Landed
  <2>2. disk'.object[w].unsettledBytes <= Owed(object', auto', w)
    BY <1>5, <2>1, TypesNext, SavedWithin
  <2> HIDE DEF saved
  <2> QED BY <1>2, <1>3, <1>4, <1>5, <1>7, <2>2
<1> QED BY <1>8, <1>9 DEF Budget

\* A bill never asks for more than the tab it was made from, and a tick never
\* meters two objects of a wallet.
BillSound ==
  /\ auto.pc \in {"sent", "landed"} =>
       auto.amount <= CostBaseUnits(auto.unsettled)
  /\ \A u, v \in tick.todo : u[1] = v[1] => u = v

LEMMA BillSoundStep ==
  ASSUME TypeOK, BillSound, [Next]_vars
  PROVE  BillSound'
<1> USE DEF TypeOK
<1>1. auto'.pc \in {"sent", "landed"} =>
        auto'.amount <= CostBaseUnits(auto'.unsettled)
  <2>1. CASE auto' = auto
    BY <2>1 DEF BillSound
  <2>2. ASSUME NEW todo, NEW changed, AutoAdvance(todo, changed)
        PROVE  auto'.pc \notin {"sent", "landed"}
    <3>1. CASE auto' = AutoIdle
      BY <3>1 DEF AutoIdle
    <3>2. ASSUME NEW u \in Billable(todo),
                 NEW skipped \in SUBSET (todo \ Billable(todo)),
                 auto' = [AutoIdle EXCEPT
                     !.pc = "read", !.u = u,
                     !.todo = todo \ (skipped \cup {u}),
                     !.unsettled = object'[u].unsettledBytes,
                     !.changed = changed]
          PROVE  auto'.pc = "read"
      BY <3>2 DEF AutoIdle
    <3> QED BY <2>2, <3>1, <3>2 DEF AutoAdvance
  <2>3. CASE Restart
    BY <2>3 DEF Restart, AutoIdle
  <2>4. CASE BillLands
    BY <2>4 DEF BillLands, BillSound, AutoType, AutoRecord
  <2>5. CASE AutoStart \/ AutoFailed \/ AutoResume
    BY <2>2, <2>5 DEF AutoStart, AutoFailed, AutoResume
  <2>6. CASE AutoRead \/ AutoBooked
    BY <2>6 DEF AutoRead, AutoBooked, AutoType, AutoRecord
  <2>7. CASE AutoBill
    <3> DEFINE owed == CostBaseUnits(auto.unsettled)
               amount == IF owed < auto.balance THEN owed ELSE auto.balance
    <3>1. auto.unsettled \in Nat /\ auto.balance \in Nat /\ owed \in Nat
      BY ControlPlaneAssumption DEF AutoType, AutoRecord, CostBaseUnits
    <3>2. amount <= owed
      <4> HIDE DEF owed
      <4> QED BY <3>1
    <3>3. CASE auto' = [auto EXCEPT !.pc = "sent", !.amount = amount]
      <4> HIDE DEF amount
      <4> QED BY <3>2, <3>3 DEF AutoType, AutoRecord
    <3> QED BY <2>2, <2>7, <3>3 DEF AutoBill
  <2> QED BY <2>1, <2>3, <2>4, <2>5, <2>6, <2>7
          DEF Next, vars, ChainNext, Deposit, Withdraw, Pay, processVars, Serve,
              XrayRestarts, TickNext, TickPoll, TickRead, TickResume, TickExits,
              RelayNext, NodeProfile, ProfileExpires, HandlerNext,
              ProvisionStart, SettleStart, HandlerRead, ProvisionResume,
              SettleVerified, SettleRefused, SettleResume, AutoNext
<1>2. \A u, v \in tick'.todo : u[1] = v[1] => u = v
  <2>1. CASE tick'.todo \subseteq tick.todo
    BY <2>1 DEF BillSound
  <2>2. CASE TickPoll
    BY <2>2 DEF TickPoll, TickIdle, All
  <2>3. CASE TickRead
    <3>1. PICK b : tick' = [tick EXCEPT !.pc = "resume", !.balance = b]
      BY <2>3 DEF TickRead
    <3>2. tick'.todo = tick.todo
      BY <3>1 DEF TickType, TickRecord
    <3> QED BY <2>1, <3>2
  <2>4. CASE TickExits
    BY <2>1, <2>4 DEF TickExits, TickIdle
  <2>6. CASE TickResume
    <3>1. CASE TickFinish
      BY <2>1, <3>1 DEF TickFinish, TickIdle
    <3>2. ASSUME NEW u \in tick.todo,
                 tick' = [tick EXCEPT !.pc = "read", !.u = u, !.todo = @ \ {u},
                                      !.balance = 0]
          PROVE  tick'.todo \subseteq tick.todo
      BY <3>2 DEF TickType, TickRecord
    <3> QED BY <2>1, <2>6, <3>1, <3>2 DEF TickResume
  <2>5. CASE Restart
    BY <2>1, <2>5 DEF Restart, TickIdle
  <2> QED BY <2>1, <2>2, <2>3, <2>4, <2>5, <2>6
          DEF Next, vars, ChainNext, Deposit, Withdraw, Pay, BillLands,
              processVars, Serve, XrayRestarts, TickNext,
              RelayNext, NodeProfile, ProfileExpires, HandlerNext,
              ProvisionStart, SettleStart, HandlerRead, ProvisionResume,
              SettleVerified, SettleRefused, SettleResume, AutoNext, AutoStart,
              AutoRead, AutoBill, AutoFailed, AutoBooked, AutoResume
<1> QED BY <1>1, <1>2 DEF BillSound

LEMMA DoubtsStay ==
  ASSUME Next
  PROVE  doubtful \subseteq doubtful'
BY DEF Next, ChainNext, Deposit, Withdraw, Pay, BillLands, processVars, Serve,
       XrayRestarts, TickNext, TickPoll, TickRead, TickResume, TickExits,
       RelayNext, NodeProfile, ProfileExpires, HandlerNext, ProvisionStart,
       SettleStart, HandlerRead, ProvisionResume, SettleVerified,
       SettleRefused, SettleResume, AutoNext, AutoStart, AutoRead, AutoBill,
       AutoFailed, AutoBooked, AutoResume, Restart, historyVars

LEMMA BillStep ==
  ASSUME TypeOK, BillInv, [Next]_vars
  PROVE  BillInv'
<1>1. BillSound'
  BY BillSoundStep DEF BillSound, BillInv
<1>2. CASE UNCHANGED vars
  BY <1>1, <1>2
     DEF vars, BillInv, BillSound, Budget, Due, historyVars, storeVars,
         xrayVars, countVars
<1>3. CASE Next
  <2> SUFFICES ASSUME UnitsPerByte = 1, NEW w \in Wallets \ doubtful'
               PROVE  Budget(w)'
    BY <1>1 DEF BillInv, BillSound
  <2>1. Budget(w)
    BY <1>3, DoubtsStay DEF BillInv
  <2>2. CASE BillLands
    BY <1>3, <2>1, <2>2, BillLandsBudget
  <2>3. CASE \E x \in Wallets, p \in Ports \cup {None} : Serve(x, p)
    BY <1>3, <2>1, <2>3, ServeBudget
  <2>4. CASE TickPoll
    BY <1>3, <2>1, <2>4, TickPollBudget
  <2>5. CASE TickResume /\ TickMeters(Flipped)
    BY <1>3, <2>1, <2>5, TickMetersBudget
  <2>6. CASE HandlerNext
    BY <1>3, <2>1, <2>6, HandlerQuiet, QuietBudget
  <2>7. CASE \/ \E x \in Wallets, n \in Amounts : Deposit(x, n) \/ Withdraw(x, n)
             \/ \E s \in Sigs, n \in Amounts : Pay(s, n)
             \/ XrayRestarts \/ RelayNext \/ TickRead \/ TickExits
             \/ TickResume /\ ~TickMeters(Flipped)
    BY <1>3, <2>1, <2>7, OthersQuiet, QuietBudget
  <2>8. CASE AutoNext
    BY <1>3, <2>1, <2>8, AutoBudget
  <2>9. CASE Restart
    BY <1>3, <2>1, <2>9, RestartBudget
  <2> QED BY <1>3, <2>2, <2>3, <2>4, <2>5, <2>6, <2>7, <2>8, <2>9
          DEF Next, ChainNext, TickNext
<1> QED BY <1>2, <1>3

LEMMA BillInit == Init => BillInv
<1> SUFFICES ASSUME Init PROVE BillInv
  OBVIOUS
<1>1. auto.pc = "idle" /\ tick.todo = {}
  BY DEF Init, AutoIdle, TickIdle
<1>2. ASSUME NEW w \in Wallets
      PROVE  Budget(w)
  <2>1. \A v \in Versions : Weights(object, auto, w)[v] = 0
    <3> TAKE v \in Versions
    <3>1. <<w, v>> \in Objects
      BY VersionsAreObjects
    <3>2. object[<<w, v>>].unsettledBytes = 0
      BY <3>1 DEF Init, NewUser
    <3> QED BY <1>1, <3>2 DEF Weights, Weight
  <2>2. Owed(object, auto, w) = 0
    <3> HIDE DEF Weights
    <3> QED BY <2>1, VersionsFinite, SumOfZeros DEF Owed
  <2>3. Pending(tick, w) = 0
    BY <1>1 DEF Pending
  <2>4. /\ counter[w] = 0 /\ billed[w] = 0 /\ served[w] = 0
        /\ disk.object[w].unsettledBytes = 0
    BY DEF Init, NoBytes, NewUser
  <2> QED BY <2>2, <2>3, <2>4 DEF Budget, Due
<1> QED BY <1>1, <1>2 DEF BillInv

\* However provisioning, metering, manual settlement, billing and crashes
\* interleave, and however long they run, no wallet is billed for more than it
\* was served, unless a bill landed that the process never booked.
THEOREM BilledAlwaysServed == Spec => []BilledIsServed
<1>1. TypeOK /\ BillInv => BilledIsServed
  <2> SUFFICES ASSUME TypeOK, BillInv, UnitsPerByte = 1,
                      NEW w \in Wallets \ doubtful
               PROVE  billed[w] <= CostBaseUnits(served[w])
    BY DEF BilledIsServed
  <2>1. /\ Owed(object, auto, w) \in Nat /\ Pending(tick, w) \in Nat
        /\ counter[w] \in Nat /\ billed[w] \in Nat /\ served[w] \in Nat
    BY BudgetHasType DEF BudgetTyped
  <2>2. Due(w) <= served[w]
    BY DEF BillInv, Budget
  <2>3. CostBaseUnits(served[w]) = served[w]
    BY <2>1 DEF CostBaseUnits
  <2> QED BY <2>1, <2>2, <2>3 DEF Due
<1>2. TypeOK /\ BillInv /\ [Next]_vars => BillInv'
  BY BillStep
<1> QED BY <1>1, <1>2, BillInit, ControlPlaneType, PTL DEF Spec

-----------------------------------------------------------------------------
(* Xray serves the active users whenever nothing is under way              *)

\* A call that made a new object is the only one that knows of it.
OnlyItsOwn ==
  \A h \in Handlers :
    handler[h].pc # "idle" /\ handler[h].isNew =>
      LET u == handler[h].u
      IN  /\ users[u[1]] # u[2]
          /\ u \notin tick.users \cup auto.todo \cup {auto.u}

\* After a reload that worked, Xray and its file hold what was applied last,
\* and that is the active users, but for a pass that has yet to reconcile.
XrayAgrees ==
  reload_ok => xray_on = last_applied.users /\ config.users = last_applied.users
Flipping ==
  tick.pc \in {"read", "resume"} \/ (auto.pc # "idle" /\ auto.changed)
AppliedAgrees == reload_ok => last_applied.users = ActiveUsers(users, object)
SyncInv == XrayAgrees /\ (~Flipping => AppliedAgrees)

LEMMA ReservedStep ==
  ASSUME OneCall, TypeOK, LedgerInv, Reserved, [Next]_vars
  PROVE  Reserved'
<1>1. CASE UNCHANGED vars \/ LedgerKept
  BY <1>1 DEF vars, storeVars, LedgerKept, Reserved
<1>2. CASE Restart
  BY <1>2 DEF Restart, HandlerIdle, Reserved
<1>3. ASSUME NEW h \in Handlers, NEW w \in Wallets, NEW s \in Sigs,
             SettleStart(h, w, s)
      PROVE  Reserved'
  <2>1. /\ payments'[s] = [status |-> "pending", wallet |-> w]
        /\ handler'[h].u = <<w, users[w]>> /\ handler'[h].sig = s
    BY <1>3, StartReserves
  <2> QED BY <2>1 DEF Reserved, OneCall
<1>4. ASSUME NEW h \in Handlers, HandlerRead(h) \/ SettleVerified(h)
      PROVE  Reserved'
  <2>1. /\ handler'[h].sig = handler[h].sig /\ handler'[h].u = handler[h].u
        /\ handler'[h].call = handler[h].call
        /\ handler[h].pc # "idle" /\ payments' = payments
    BY <1>4 DEF HandlerRead, SettleVerified, TypeOK, HandlerType, HandlerRecord,
                storeVars
  <2> QED BY <2>1 DEF Reserved, OneCall
<1>5. ASSUME NEW h \in Handlers, SettleRefused(h) \/ SettleResume(h)
      PROVE  Reserved'
  <2>1. handler'[h].pc = "idle"
    BY <1>5 DEF SettleRefused, SettleResume, TypeOK, HandlerType, HandlerIdle
  <2> QED BY <2>1 DEF Reserved, OneCall
<1> QED BY <1>1, <1>2, <1>3, <1>4, <1>5, LedgerSteps

-----------------------------------------------------------------------------

\* What the billing loop turns to comes from the store or from its pass.
LEMMA AdvanceTodo ==
  ASSUME TypeOK, NEW todo \in SUBSET Objects, NEW changed,
         AutoAdvance(todo, changed)
  PROVE  auto'.todo \subseteq todo /\ auto'.u \in todo \cup {NoObject}
<1>1. CASE auto' = AutoIdle
  BY <1>1 DEF AutoIdle
<1>2. ASSUME NEW u \in Billable(todo),
             NEW skipped \in SUBSET (todo \ Billable(todo)),
             auto' = [AutoIdle EXCEPT
                     !.pc = "read", !.u = u,
                     !.todo = todo \ (skipped \cup {u}),
                     !.unsettled = object'[u].unsettledBytes,
                     !.changed = changed]
      PROVE  auto'.todo \subseteq todo /\ auto'.u \in todo \cup {NoObject}
  <2>1. auto'.todo = todo \ (skipped \cup {u}) /\ auto'.u = u
    BY <1>2 DEF AutoIdle
  <2> QED BY <2>1 DEF Billable
<1> QED BY <1>1, <1>2 DEF AutoAdvance

\* A new object stays unseen while the other loops step.
LEMMA LoopsKeepOwn ==
  ASSUME TypeOK, OnlyItsOwn, handler' = handler,
         \A w \in Wallets, v \in Versions :
           users'[w] = v => \/ users[w] = v
                            \/ <<w, v>> \in tick.users \cup {auto.u},
         tick'.users \subseteq tick.users \cup All,
         auto'.todo \subseteq auto.todo \cup All,
         auto'.u \in auto.todo \cup All \cup {auto.u, NoObject}
  PROVE  OnlyItsOwn'
<1> SUFFICES ASSUME NEW h \in Handlers,
                    handler[h].pc # "idle", handler[h].isNew
             PROVE  LET u == handler[h].u
                    IN  /\ users'[u[1]] # u[2]
                        /\ u \notin tick'.users \cup auto'.todo \cup {auto'.u}
  BY DEF OnlyItsOwn
<1> DEFINE u == handler[h].u
<1>1. u \in Objects
  BY DEF TypeOK, HandlerType
<1>2. /\ users[u[1]] # u[2]
      /\ u \notin tick.users \cup auto.todo \cup {auto.u}
  BY DEF OnlyItsOwn
<1> HIDE DEF u
<1>3. /\ u[1] \in Wallets /\ u[2] \in Versions /\ u = <<u[1], u[2]>>
      /\ u # NoObject
  BY <1>1, ObjectParts DEF Versions
<1>4. u \notin All
  BY <1>2, <1>3 DEF All
<1>5. users'[u[1]] # u[2]
  BY <1>2, <1>3
<1> QED BY <1>2, <1>3, <1>4, <1>5 DEF u

LEMMA OwnStep ==
  ASSUME OneCall, TypeOK, LedgerInv, OnlyItsOwn, [Next]_vars
  PROVE  OnlyItsOwn'
<1> USE DEF TypeOK
<1>0. /\ tick.users \subseteq Objects /\ auto.todo \subseteq Objects
      /\ All \subseteq Objects /\ users \in [Wallets -> 0..MaxObjects]
  BY AllObjects DEF TickType, TickRecord, AutoType, AutoRecord, StoreType
<1>1. CASE UNCHANGED <<users, tick, auto, handler>>
  BY <1>1 DEF OnlyItsOwn
<1>2. CASE Restart
  BY <1>2 DEF Restart, HandlerIdle, OnlyItsOwn
<1>3. CASE TickPoll
  <2>1. UNCHANGED <<users, auto, handler>> /\ tick'.users \subseteq All
    BY <1>3 DEF TickPoll, TickIdle
  <2> QED BY <2>1, LoopsKeepOwn
<1>4. CASE TickRead
  <2>1. PICK b : tick' = [tick EXCEPT !.pc = "resume", !.balance = b]
    BY <1>4 DEF TickRead
  <2>2. tick'.users = tick.users
    BY <2>1 DEF TickType, TickRecord
  <2>3. UNCHANGED <<users, auto, handler>>
    BY <1>4 DEF TickRead, storeVars
  <2> QED BY <2>2, <2>3, LoopsKeepOwn
<1>5. CASE TickExits
  <2>1. UNCHANGED <<users, auto, handler>> /\ tick'.users = {}
    BY <1>5 DEF TickExits, TickIdle, storeVars
  <2> QED BY <2>1, LoopsKeepOwn
<1>6. CASE TickResume
  <2>1. UNCHANGED <<auto, handler>>
    BY <1>6 DEF TickResume
  <2>2. ASSUME NEW u \in tick.todo,
               tick' = [tick EXCEPT !.pc = "read", !.u = u, !.todo = @ \ {u},
                                    !.balance = 0],
               UNCHANGED storeVars
        PROVE  OnlyItsOwn'
    <3>1. tick'.users = tick.users /\ users' = users
      BY <2>2 DEF TickType, TickRecord, storeVars
    <3> QED BY <2>1, <3>1, LoopsKeepOwn
  <2>3. CASE TickFinish
    <3>1. tick'.users = {}
      BY <2>3 DEF TickFinish, TickIdle
    <3>2. ASSUME NEW w \in Wallets, NEW v \in Versions, users'[w] = v
          PROVE  users[w] = v \/ <<w, v>> \in tick.users
      <4>1. CASE \E u \in tick.users : u[1] = w
        <5> DEFINE c == CHOOSE u \in tick.users : u[1] = w
        <5>1. c \in tick.users /\ c[1] = w
          BY <4>1
        <5>2. users'[w] = c[2]
          BY <2>3, <4>1 DEF TickFinish
        <5> HIDE DEF c
        <5>3. c = <<w, v>>
          BY <1>0, <3>2, <5>1, <5>2, ObjectParts
        <5> QED BY <5>1, <5>3
      <4>2. CASE ~\E u \in tick.users : u[1] = w
        BY <2>3, <3>2, <4>2 DEF TickFinish
      <4> QED BY <4>1, <4>2
    <3> QED BY <2>1, <3>1, <3>2, LoopsKeepOwn
  <2> QED BY <1>6, <2>2, <2>3 DEF TickResume
<1>7. CASE BillLands \/ AutoRead \/ AutoBooked
           \/ (AutoBill /\ ~AutoAdvance(auto.todo, auto.changed))
  <2>1. UNCHANGED <<users, tick, handler>>
    BY <1>7 DEF BillLands, AutoRead, AutoBooked, AutoBill, storeVars
  <2>2. auto'.todo = auto.todo /\ auto'.u = auto.u
    <3>1. CASE BillLands
      BY <3>1 DEF BillLands, AutoType, AutoRecord
    <3>2. CASE AutoRead
      BY <3>2 DEF AutoRead, AutoType, AutoRecord
    <3>3. CASE AutoBooked
      BY <3>3 DEF AutoBooked, AutoType, AutoRecord
    <3>4. CASE AutoBill /\ ~AutoAdvance(auto.todo, auto.changed)
      <4>1. \E n : auto' = [auto EXCEPT !.pc = "sent", !.amount = n]
        BY <3>4 DEF AutoBill
      <4> QED BY <4>1 DEF AutoType, AutoRecord
    <3> QED BY <1>7, <3>1, <3>2, <3>3, <3>4
  <2> QED BY <2>1, <2>2, LoopsKeepOwn
<1>8. CASE AutoStart
  <2>1. UNCHANGED <<users, tick, handler>> /\ AutoAdvance(All, FALSE)
    BY <1>8 DEF AutoStart, storeVars
  <2>2. auto'.todo \subseteq All /\ auto'.u \in All \cup {NoObject}
    BY <1>0, <2>1, AdvanceTodo
  <2> QED BY <2>1, <2>2, LoopsKeepOwn
<1>9. CASE AutoAdvance(auto.todo, auto.changed)
           /\ (AutoBill \/ AutoFailed)
  <2>1. UNCHANGED <<users, tick, handler>>
    BY <1>9 DEF AutoBill, AutoFailed, storeVars
  <2>2. auto'.todo \subseteq auto.todo /\ auto'.u \in auto.todo \cup {NoObject}
    BY <1>0, <1>9, AdvanceTodo
  <2> QED BY <2>1, <2>2, LoopsKeepOwn
<1>10. CASE AutoResume
  <2>1. /\ UNCHANGED <<tick, handler>> /\ AutoAdvance(auto.todo, TRUE)
        /\ users' = [users EXCEPT ![auto.u[1]] = auto.u[2]]
        /\ auto.u \in Objects
    BY <1>10 DEF AutoResume, AutoType
  <2>2. auto'.todo \subseteq auto.todo /\ auto'.u \in auto.todo \cup {NoObject}
    BY <1>0, <2>1, AdvanceTodo
  <2>3. \A w \in Wallets, v \in Versions :
          users'[w] = v => users[w] = v \/ <<w, v>> = auto.u
    BY <1>0, <2>1, ObjectParts
  <2> QED BY <2>1, <2>2, <2>3, LoopsKeepOwn
<1>11. ASSUME NEW h \in Handlers, NEW w \in Wallets, ProvisionStart(h, w)
       PROVE  OnlyItsOwn'
  <2>1. UNCHANGED <<users, tick, auto>>
    BY <1>11 DEF ProvisionStart, storeVars
  <2>2. CASE users[w] # 0
    <3>1. ~handler'[h].isNew
      BY <1>11, <2>2 DEF ProvisionStart, HandlerType, HandlerIdle
    <3> QED BY <3>1 DEF OnlyItsOwn, OneCall
  <2>3. CASE users[w] = 0
    <3> DEFINE v == CHOOSE v \in Fresh(w) : \A x \in Fresh(w) : v <= x
    <3>1. Fresh(w) # {} /\ handler'[h].u = <<w, v>>
      BY <1>11, <2>3 DEF ProvisionStart, HandlerType, HandlerIdle
    <3>2. v \in Fresh(w)
      <4>1. Fresh(w) \subseteq Nat
        BY MaxesAreNats DEF Fresh
      <4>2. \E y \in Fresh(w) : \A x \in Fresh(w) : y <= x
        BY <3>1, <4>1, SmallestExists
      <4> QED BY <4>2
    <3> HIDE DEF v
    <3>3. /\ users[w] # v
          /\ <<w, v>> \notin tick.users \cup auto.todo \cup {auto.u}
      BY <3>2 DEF Fresh, InUse
    <3> QED BY <2>1, <3>1, <3>3 DEF OnlyItsOwn, OneCall
  <2> QED BY <2>2, <2>3
<1>12. ASSUME NEW h \in Handlers, NEW w \in Wallets, NEW s \in Sigs,
              SettleStart(h, w, s)
       PROVE  OnlyItsOwn'
  <2>1. ~handler'[h].isNew
    BY <1>12, StartReserves
  <2> QED BY <2>1 DEF OnlyItsOwn, OneCall
<1>13. ASSUME NEW h \in Handlers, HandlerRead(h) \/ SettleVerified(h)
       PROVE  OnlyItsOwn'
  <2>1. /\ handler'[h].u = handler[h].u /\ handler'[h].isNew = handler[h].isNew
        /\ handler[h].pc # "idle" /\ UNCHANGED <<users, tick, auto>>
    BY <1>13 DEF HandlerRead, SettleVerified, HandlerType, HandlerRecord,
                 storeVars
  <2> QED BY <2>1 DEF OnlyItsOwn, OneCall
<1>14. ASSUME NEW h \in Handlers,
              SettleRefused(h) \/ SettleResume(h) \/ ProvisionResume(h)
       PROVE  OnlyItsOwn'
  <2>1. handler'[h].pc = "idle"
    BY <1>14
       DEF SettleRefused, SettleResume, ProvisionResume, HandlerType, HandlerIdle
  <2> QED BY <2>1 DEF OnlyItsOwn, OneCall
<1> QED BY <1>1, <1>2, <1>3, <1>4, <1>5, <1>6, <1>7, <1>8, <1>9, <1>10, <1>11,
           <1>12, <1>13, <1>14
        DEF Next, vars, ChainNext, Deposit, Withdraw, Pay, processVars, Serve,
            XrayRestarts, TickNext, RelayNext, NodeProfile, ProfileExpires,
            HandlerNext, AutoNext, AutoFailed, storeVars

-----------------------------------------------------------------------------

LEMMA ReconcileSyncs ==
  ASSUME XrayAgrees, Reconcile
  PROVE  XrayAgrees' /\ AppliedAgrees'
<1> DEFINE on == ActiveUsers(users', object')
<1>1. CASE Reconciled
  <2>1. PICK signed \in LiveExits :
          \/ AlreadyApplied(on, signed) /\ UNCHANGED xrayVars
          \/ /\ \E rendered \in LiveExits :
                  config' = [users |-> on, exits |-> rendered]
             /\ Loads(config')
             /\ last_applied' = [users |-> on, exits |-> signed]
    BY <1>1 DEF Reconciled
  <2>2. ActiveUsers(users, object)' = on
    BY DEF ActiveUsers
  <2> HIDE DEF on
  <2>3. CASE AlreadyApplied(on, signed) /\ UNCHANGED xrayVars
    BY <2>2, <2>3
       DEF AlreadyApplied, xrayVars, countVars, XrayAgrees, AppliedAgrees
  <2>4. CASE /\ \E rendered \in LiveExits :
                  config' = [users |-> on, exits |-> rendered]
             /\ Loads(config')
             /\ last_applied' = [users |-> on, exits |-> signed]
    <3>1. /\ config'.users = on /\ xray_on' = on /\ last_applied'.users = on
      BY <2>4 DEF Loads
    <3> QED BY <2>2, <3>1 DEF XrayAgrees, AppliedAgrees
  <2> QED BY <2>1, <2>3, <2>4
<1>2. CASE ReconcileThrows
  BY <1>2 DEF ReconcileThrows, XrayAgrees, AppliedAgrees
<1> QED BY <1>1, <1>2 DEF Reconcile

\* A step that flips nobody, and starts or ends no pass that did.
LEMMA SameActive ==
  ASSUME SyncInv,
         UNCHANGED <<reload_ok, last_applied, config, users>>,
         xray_on' \in {xray_on, config.users},
         \A u \in Objects : users[u[1]] = u[2] =>
                              object'[u].active = object[u].active,
         Flipping => Flipping'
  PROVE  SyncInv'
<1>1. XrayAgrees'
  BY DEF SyncInv, XrayAgrees
<1>2. ActiveUsers(users', object') = ActiveUsers(users, object)
  BY DEF ActiveUsers
<1>3. AppliedAgrees => AppliedAgrees'
  BY <1>2 DEF AppliedAgrees
<1> QED BY <1>1, <1>3 DEF SyncInv

\* The billing loop reconciles where its pass flipped somebody.
LEMMA AdvanceSyncs ==
  ASSUME SyncInv, NEW todo, NEW changed \in BOOLEAN, AutoAdvance(todo, changed),
         tick' = tick,
         changed \/ (users' = users /\ object' = object
                     /\ (auto.pc = "idle" \/ ~auto.changed))
  PROVE  SyncInv'
<1>1. CASE changed /\ auto' = AutoIdle /\ EndOfPass(changed)
  <2>1. Reconcile
    BY <1>1 DEF EndOfPass
  <2> QED BY <2>1, ReconcileSyncs DEF SyncInv
<1>2. CASE ~changed /\ UNCHANGED xrayVars
  <2>1. UNCHANGED <<reload_ok, last_applied, config, users, xray_on, object>>
    BY <1>2 DEF xrayVars, countVars
  <2>2. Flipping => Flipping'
    BY <1>2 DEF Flipping
  <2> QED BY <2>1, <2>2, SameActive
<1>3. ASSUME NEW u \in Billable(todo),
             NEW skipped \in SUBSET (todo \ Billable(todo)),
             auto' = [AutoIdle EXCEPT
                     !.pc = "read", !.u = u,
                     !.todo = todo \ (skipped \cup {u}),
                     !.unsettled = object'[u].unsettledBytes,
                     !.changed = changed],
             UNCHANGED xrayVars, changed
      PROVE  SyncInv'
  <2>1. auto'.pc = "read" /\ auto'.changed
    BY <1>3 DEF AutoIdle
  <2>2. XrayAgrees'
    BY <1>3 DEF SyncInv, XrayAgrees, xrayVars, countVars
  <2> QED BY <2>1, <2>2 DEF SyncInv, Flipping
<1> QED BY <1>1, <1>2, <1>3 DEF AutoAdvance, EndOfPass

\* Cutting a tab or adding to it flips nobody.
LEMMA FlipsNobody ==
  ASSUME NEW user \in UserRecord, NEW n
  PROVE  /\ [user EXCEPT !.unsettledBytes = n].active = user.active
         /\ Metered(user, n).active = user.active
BY DEF UserRecord, Metered

LEMMA SyncStep ==
  ASSUME TypeOK, Reserved, OnlyItsOwn, SyncInv, [Next]_vars
  PROVE  SyncInv'
<1> USE DEF TypeOK
<1>0. /\ object \in [Objects -> UserRecord]
      /\ auto \in AutoRecord /\ tick \in TickRecord
  BY DEF StoreType, AutoType, TickType
<1>1. ASSUME Reconcile
      PROVE  SyncInv'
  BY <1>1, ReconcileSyncs DEF SyncInv
<1>2. ASSUME UNCHANGED <<reload_ok, last_applied, config, users, object>>,
             xray_on' \in {xray_on, config.users},
             Flipping => Flipping'
      PROVE  SyncInv'
  BY <1>2, SameActive
<1>3. CASE UNCHANGED vars
  BY <1>2, <1>3 DEF vars, xrayVars, countVars, storeVars, Flipping
<1>4. CASE \/ \E w \in Wallets, n \in Amounts : Deposit(w, n) \/ Withdraw(w, n)
           \/ \E s \in Sigs, n \in Amounts : Pay(s, n)
           \/ \E p \in Ports : ProfileExpires(p)
  BY <1>2, <1>4 DEF Deposit, Withdraw, Pay, ProfileExpires, processVars,
                    xrayVars, countVars, storeVars, Flipping
<1>5. CASE (\E w \in Wallets, p \in Ports \cup {None} : Serve(w, p))
           \/ XrayRestarts
  BY <1>2, <1>5 DEF Serve, XrayRestarts, Loads, storeVars, Flipping
<1>6. CASE \E p \in Ports, key \in ExitKeys : NodeProfile(p, key)
  BY <1>1, <1>6 DEF NodeProfile
<1>7. CASE TickPoll
  <2>1. tick'.pc \in {"read", "resume"}
    BY <1>7 DEF TickPoll, TickIdle
  <2>2. UNCHANGED <<reload_ok, last_applied, config, users, xray_on>>
    BY <1>7 DEF TickPoll
  <2>3. Flipping'
    BY <2>1 DEF Flipping
  <2>4. XrayAgrees'
    BY <2>2 DEF SyncInv, XrayAgrees
  <2> QED BY <2>3, <2>4 DEF SyncInv
<1>8. CASE TickRead
  <2>1. PICK b : tick' = [tick EXCEPT !.pc = "resume", !.balance = b]
    BY <1>8 DEF TickRead
  <2>2. tick'.pc = "resume"
    BY <1>0, <2>1 DEF TickRecord
  <2>3. Flipping'
    BY <2>2 DEF Flipping
  <2> QED BY <1>2, <1>8, <2>3 DEF TickRead, xrayVars, countVars, storeVars
<1>9. CASE TickExits
  <2>1. Flipping => Flipping'
    BY <1>9 DEF TickExits, Flipping
  <2> QED BY <1>2, <1>9, <2>1 DEF TickExits, storeVars
<1>10. CASE TickResume
  <2>1. CASE TickFinish
    BY <1>1, <2>1 DEF TickFinish, Reconcile
  <2>2. ASSUME NEW u \in tick.todo,
               tick' = [tick EXCEPT !.pc = "read", !.u = u, !.todo = @ \ {u},
                                    !.balance = 0],
               UNCHANGED xrayVars
        PROVE  SyncInv'
    <3>1. tick'.pc = "read"
      BY <1>0, <2>2 DEF TickRecord
    <3>2. XrayAgrees'
      BY <2>2 DEF SyncInv, XrayAgrees, xrayVars, countVars
    <3> QED BY <3>1, <3>2 DEF SyncInv, Flipping
  <2> QED BY <1>10, <2>1, <2>2 DEF TickResume
<1>11. CASE Restart
  <2>1. PICK rendered \in LiveExits, signed \in LiveExits :
          /\ config' = [users |-> ActiveUsers(users', object'), exits |-> rendered]
          /\ last_applied' = [config' EXCEPT !.exits = signed]
    BY <1>11 DEF Restart
  <2>2. /\ config'.users = ActiveUsers(users', object')
        /\ last_applied'.users = ActiveUsers(users', object')
    BY <2>1
  <2>3. xray_on' = config'.users
    BY <1>11 DEF Restart, Loads
  <2>4. ActiveUsers(users, object)' = ActiveUsers(users', object')
    BY DEF ActiveUsers
  <2> QED BY <2>2, <2>3, <2>4 DEF SyncInv, XrayAgrees, AppliedAgrees
<1>12. CASE BillLands \/ AutoRead \/ AutoBooked
            \/ (AutoBill /\ ~AutoAdvance(auto.todo, auto.changed))
  <2>1. /\ UNCHANGED <<users, tick>> /\ UNCHANGED xrayVars
        /\ auto.pc # "idle"
    BY <1>12 DEF BillLands, AutoRead, AutoBooked, AutoBill, storeVars
  <2>2. auto'.changed = auto.changed /\ auto'.pc # "idle"
    <3>1. CASE BillLands
      BY <1>0, <3>1 DEF BillLands, AutoRecord
    <3>2. CASE AutoRead
      <4>1. PICK b : auto' = [auto EXCEPT !.pc = IF @ = "read" THEN "bill"
                                                              ELSE "resume",
                                          !.balance = b]
        BY <3>2 DEF AutoRead
      <4> QED BY <1>0, <4>1 DEF AutoRecord
    <3>3. CASE AutoBooked
      BY <1>0, <3>3 DEF AutoBooked, AutoRecord
    <3>4. CASE AutoBill /\ ~AutoAdvance(auto.todo, auto.changed)
      <4>1. \E n : auto' = [auto EXCEPT !.pc = "sent", !.amount = n]
        BY <3>4 DEF AutoBill
      <4> QED BY <1>0, <4>1 DEF AutoRecord
    <3> QED BY <1>12, <3>1, <3>2, <3>3, <3>4
  <2>3. \A u \in Objects : object'[u].active = object[u].active
    <3>1. CASE AutoBooked
      <4>1. \E n : object' = [object EXCEPT ![auto.u] =
                                [object[auto.u] EXCEPT !.unsettledBytes = n]]
        BY <3>1 DEF AutoBooked
      <4> QED BY <1>0, <4>1, FlipsNobody
    <3>2. CASE ~AutoBooked
      BY <1>12, <3>2 DEF BillLands, AutoRead, AutoBill
    <3> QED BY <3>1, <3>2
  <2>4. Flipping => Flipping'
    BY <2>1, <2>2 DEF Flipping
  <2> QED BY <2>1, <2>3, <2>4, SameActive DEF xrayVars, countVars
<1>13. CASE AutoStart
  <2>1. /\ UNCHANGED <<users, object, tick>> /\ auto.pc = "idle"
        /\ AutoAdvance(All, FALSE)
    BY <1>13 DEF AutoStart, storeVars
  <2> QED BY <2>1, AdvanceSyncs
<1>14. CASE AutoAdvance(auto.todo, auto.changed) /\ (AutoBill \/ AutoFailed)
  <2>1. UNCHANGED <<users, object, tick>>
    BY <1>14 DEF AutoBill, AutoFailed, storeVars
  <2>2. auto.changed \in BOOLEAN
    BY <1>0 DEF AutoRecord
  <2> QED BY <1>14, <2>1, <2>2, AdvanceSyncs
<1>15. CASE AutoResume
  <2>1. tick' = tick /\ AutoAdvance(auto.todo, TRUE)
    BY <1>15 DEF AutoResume
  <2> QED BY <2>1, AdvanceSyncs
<1>16. ASSUME NEW h \in Handlers, NEW w \in Wallets, ProvisionStart(h, w)
       PROVE  SyncInv'
  <2>1. UNCHANGED <<users, tick, auto>> /\ UNCHANGED xrayVars
    BY <1>16 DEF ProvisionStart, storeVars
  <2>2. ASSUME NEW u \in Objects, users[u[1]] = u[2]
        PROVE  object'[u].active = object[u].active
    <3>1. CASE UNCHANGED object
      BY <3>1
    <3>2. ASSUME users[w] = 0, NEW v,
                 object' = [object EXCEPT ![<<w, v>>] = NewUser]
          PROVE  object'[u] = object[u]
      <4>1. u # <<w, v>>
        BY <2>2, <3>2, ObjectParts, MaxesAreNats
      <4> QED BY <1>0, <3>2, <4>1
    <3> QED BY <1>16, <3>1, <3>2 DEF ProvisionStart
  <2>3. Flipping => Flipping'
    BY <2>1 DEF Flipping
  <2> QED BY <2>1, <2>2, <2>3, SameActive DEF xrayVars, countVars
<1>17. ASSUME NEW h \in Handlers, ProvisionResume(h)
       PROVE  SyncInv'
  <2>1. CASE Reconcile
    BY <1>1, <2>1
  <2>2. CASE ~Reconcile
    <3>1. /\ UNCHANGED xrayVars /\ UNCHANGED <<users, tick, auto>>
          /\ handler[h].pc # "idle" /\ handler[h].isNew
          /\ object' = [object EXCEPT ![handler[h].u] =
                          Refreshed(@, handler[h].balance)]
      BY <1>17, <2>2 DEF ProvisionResume, storeVars
    <3>2. ASSUME NEW u \in Objects, users[u[1]] = u[2]
          PROVE  object'[u].active = object[u].active
      <4>1. u # handler[h].u
        BY <3>1, <3>2 DEF OnlyItsOwn
      <4> QED BY <1>0, <3>1, <4>1
    <3>3. Flipping => Flipping'
      BY <3>1 DEF Flipping
    <3> QED BY <3>1, <3>2, <3>3, SameActive DEF xrayVars, countVars
  <2> QED BY <2>1, <2>2
<1>18. ASSUME NEW h \in Handlers, NEW w \in Wallets, NEW s \in Sigs,
              SettleStart(h, w, s)
       PROVE  SyncInv'
  <2>1. UNCHANGED <<users, object, tick, auto>> /\ UNCHANGED xrayVars
    BY <1>18 DEF SettleStart, storeVars
  <2> QED BY <1>2, <2>1 DEF xrayVars, countVars, Flipping
<1>19. ASSUME NEW h \in Handlers, HandlerRead(h) \/ SettleRefused(h)
       PROVE  SyncInv'
  <2>1. UNCHANGED <<users, object, tick, auto>> /\ UNCHANGED xrayVars
    BY <1>19 DEF HandlerRead, SettleRefused, storeVars
  <2> QED BY <1>2, <2>1 DEF xrayVars, countVars, Flipping
<1>20. ASSUME NEW h \in Handlers, SettleVerified(h)
       PROVE  SyncInv'
  <2>1. UNCHANGED <<users, tick, auto>> /\ UNCHANGED xrayVars
    BY <1>20 DEF SettleVerified, storeVars
  <2>2. \A u \in Objects : object'[u].active = object[u].active
    <3>1. \E n, c : object' = [object EXCEPT ![handler[h].u] =
            [object[handler[h].u] EXCEPT !.unsettledBytes = n, !.cleared = c]]
      BY <1>20 DEF SettleVerified
    <3> QED BY <1>0, <3>1 DEF UserRecord
  <2>3. Flipping => Flipping'
    BY <2>1 DEF Flipping
  <2> QED BY <2>1, <2>2, <2>3, SameActive DEF xrayVars, countVars
<1>21. ASSUME NEW h \in Handlers, SettleResume(h)
       PROVE  SyncInv'
  <2>1. payments[handler[h].sig]
          = [status |-> "pending", wallet |-> handler[h].u[1]]
    BY <1>21 DEF SettleResume, Reserved
  <2> QED BY <1>1, <1>21, <2>1 DEF SettleResume
<1> QED BY <1>3, <1>4, <1>5, <1>6, <1>7, <1>8, <1>9, <1>10, <1>11, <1>12,
           <1>13, <1>14, <1>15, <1>16, <1>17, <1>18, <1>19, <1>20, <1>21
        DEF Next, ChainNext, TickNext, RelayNext, HandlerNext, AutoNext,
            AutoFailed

LEMMA SyncInit == Init => Reserved /\ OnlyItsOwn /\ SyncInv
<1> SUFFICES ASSUME Init PROVE Reserved /\ OnlyItsOwn /\ SyncInv
  OBVIOUS
<1>1. Reserved /\ OnlyItsOwn
  BY DEF Init, HandlerIdle, Reserved, OnlyItsOwn
<1>2. ActiveUsers(users, object) = {}
  <2>1. \A u \in Objects : ~object[u].active
    BY DEF Init, NewUser
  <2> QED BY <2>1 DEF ActiveUsers
<1>3. xray_on = {} /\ config.users = {} /\ last_applied.users = {}
  BY DEF Init, Nothing
<1> QED BY <1>1, <1>2, <1>3 DEF SyncInv, XrayAgrees, AppliedAgrees

\* If HTTP calls do not overlap, then whenever no task is under way and the
\* last reload worked, Xray serves exactly the users the store has active: no
\* path flips a user and forgets Xray, whatever crashes and reloads that fail
\* come in between.
THEOREM QuietIsInSync ==
  ASSUME OneCall
  PROVE  Spec => []InSyncWhenQuiet
<1>1. SyncInv => InSyncWhenQuiet
  BY DEF SyncInv, XrayAgrees, AppliedAgrees, Flipping, InSyncWhenQuiet, Quiet
<1>2. TypeOK /\ LedgerInv /\ Reserved /\ [Next]_vars => Reserved'
  BY OneCall, ReservedStep
<1>3. TypeOK /\ LedgerInv /\ OnlyItsOwn /\ [Next]_vars => OnlyItsOwn'
  BY OneCall, OwnStep
<1>4. TypeOK /\ Reserved /\ OnlyItsOwn /\ SyncInv /\ [Next]_vars => SyncInv'
  BY SyncStep
<1> QED BY <1>1, <1>2, <1>3, <1>4, SyncInit, ControlPlaneType, LedgerAlways, PTL
        DEF Spec
=============================================================================
