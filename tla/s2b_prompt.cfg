SPECIFICATION Spec
CONSTANTS
  Bots = {master}
  Slaves = {}
  LazyMaster = FALSE
  Swaps = {s1}
  Prices = {1}
  TimeLock = 60
  Confirmations = 2
  MaxHeight = 33
  LastDeposit = 0
  Drift = 2
  DownAtFirst = {master}
  Prompt = TRUE
  FaultKinds = {}
  MaxFaults = 0
INVARIANTS BotNotCheated
