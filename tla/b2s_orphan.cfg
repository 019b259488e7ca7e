SPECIFICATION Spec
CONSTANTS
  Bots = {master}
  Slaves = {}
  LazyMaster = FALSE
  Swaps = {s1}
  Prices = {1}
  TimeLock = 3
  Confirmations = 1
  MaxHeight = 4
  LastDeposit = 1
  Drift = 1
  DownAtFirst = {}
  Prompt = FALSE
  FaultKinds = {"crash", "timeout"}
  MaxFaults = 1
INVARIANT NothingLockedTooLate
