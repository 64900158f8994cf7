SPECIFICATION Spec
CONSTANTS
  MaxU64 = 1000000
  n1 = n1  n2 = n2  r1 = r1  r2 = r2
  Nodes = {n1, n2}
  Receipts = {}
  NodeOf <- OfFirst
  EpochOf <- InOne
  FileReceipts = {}
  FileEpoch = 1
  Handlers = {}
  PostOnReceipts = FALSE
  MaxEpoch = 4
  MaxBytes <- OneByte
  Payment = 1
  MaxFunds = 2
  MaxRestarts = 1
  MaxFaults = 0
INVARIANT NeverDoubled
