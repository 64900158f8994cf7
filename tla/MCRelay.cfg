SPECIFICATION Spec
CONSTANTS
  w1 = w1  s1 = s1
  Wallets = {w1}
  Handlers = {h1}
  Sigs = {}
  Payer <- PaidByUser
  None = None
  MaxObjects = 1
  UnitsPerByte = 1
  SettleMinBytes = 1
  Amounts = {1}
  Funds <- One
  Ports = {p1}
  ExitKeys = {k1}
  MaxServed <- One
  MaxRestarts = 1
  MaxFaults = 1
INVARIANT InSyncWhenQuiet CreditedIsCarried
PROPERTY CutOff CreditKept
