SPECIFICATION Spec
CONSTANTS
  MaxU64 = 1000000
  n1 = n1  n2 = n2  r1 = r1  r2 = r2
  Nodes = {n1}
  Receipts = {r1}
  NodeOf <- OfFirst
  EpochOf <- InOne
  FileReceipts = {r1}
  FileEpoch = 1
  Handlers = {h1}
  PostOnReceipts = TRUE
  MaxEpoch = 4
  MaxBytes <- OneByte
  Payment = 2
  MaxFunds = 2
  MaxRestarts = 1
  MaxFaults = 1
INVARIANTS TypeOK CreditBacked VaultCoversLedger PaidWithinLedger PostedBacked
PROPERTIES CaughtUp AutoNeverOverwrites
