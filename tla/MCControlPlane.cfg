SPECIFICATION Spec
CONSTANTS
  w1 = w1  s1 = s1
  Wallets = {w1}
  Handlers = {h1}
  Sigs = {s1, s2}
  Payer <- PaidByUser
  None = None
  MaxObjects = 1
  UnitsPerByte = 1
  SettleMinBytes = 1
  Amounts = {1}
  Funds <- Two
  Ports = {}
  ExitKeys = {}
  MaxServed <- Two
  MaxRestarts = 1
  MaxFaults = 0
INVARIANTS TypeOK BilledIsServed ProcessedIsPaid SequentialClearsOnce InSyncWhenQuiet
PROPERTY LedgerForever
