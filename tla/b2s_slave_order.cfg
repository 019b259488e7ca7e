SPECIFICATION Spec
CONSTANTS
  Bots = {master, slave}
  Slaves = {slave}
  LazyMaster = FALSE
  Swaps = {s1}
  Prices = {1}
  TimeLock = 3
  Confirmations = 1
  MaxHeight = 5
  LastDeposit = 1
  Drift = 1
  DownAtFirst = {}
  Prompt = FALSE
  FaultKinds = {}
  MaxFaults = 0
INVARIANT SlaveFollowsLock
