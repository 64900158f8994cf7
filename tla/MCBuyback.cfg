SPECIFICATION Spec
CONSTANTS
  Cycles = {c1, c2}
  Reserve = 1
  MinBuy = 1
  MaxBuy = 2
  NodeBps = 7000
  Rates = {1, 2}
  Sol = 3
  Donations = 1
  MaxFaults = 2
  MaxRestarts = 1
INVARIANTS TypeOK RecordedIsReal
PROPERTIES TotalsNeverRegress LeftoverSplit
