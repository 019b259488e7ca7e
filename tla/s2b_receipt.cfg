SPECIFICATION Spec
CONSTANTS
  Bots = {master}
  Slaves = {}
  LazyMaster = FALSE
  Swaps = {s1}
  Prices = {1}
  TimeLock = 4
  Confirmations = 1
  MaxHeight = 3
  LastDeposit = 0
  Drift = 1
  DownAtFirst = {}
  Prompt = FALSE
  FaultKinds = {}
  MaxFaults = 0
PROPERTY RevealedFromBchLocked
