SPECIFICATION Spec
CONSTANTS
  Bots = {master, slave}
  Slaves = {slave}
  LazyMaster = FALSE
  Swaps = {s1}
  Prices = {1}
  TimeLock = 4
  Confirmations = 1
  MaxHeight = 4
  LastDeposit = 0
  Drift = 1
  DownAtFirst = {slave}
  Prompt = TRUE
  FaultKinds = {"db"}
  MaxFaults = 1
INVARIANTS RecordsBacked
PROPERTIES MasterActsFirst
