SPECIFICATION Spec
CONSTANTS
  Bots = {master}
  Slaves = {}
  LazyMaster = FALSE
  Swaps = {s1}
  Prices = {1}
  TimeLock = 18
  Confirmations = 2
  MaxHeight = 20
  LastDeposit = 1
  Drift = 2
  DownAtFirst = {master}
  Prompt = TRUE
  FaultKinds = {}
  MaxFaults = 0
INVARIANTS BotNotCheated
