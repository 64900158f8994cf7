SPECIFICATION Spec
CONSTANTS
  w1 = w1  s1 = s1
  Wallets = {w1}
  Handlers = {h1, h2}
  Sigs = {s1}
  Payer <- PaidByUser
  None = None
  MaxObjects = 2
  UnitsPerByte = 1
  SettleMinBytes = 1
  Amounts = {1}
  Funds <- Two
  Ports = {}
  ExitKeys = {}
  MaxServed <- One
  MaxRestarts = 0
  MaxFaults = 0
INVARIANT PaymentClearsOnce
