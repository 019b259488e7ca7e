SPECIFICATION Spec
CONSTANTS
  Bots = {master, slave}
  Slaves = {slave}
  LazyMaster = FALSE
  Swaps = {s1}
  Prices = {1}
  TimeLock = 3
  Confirmations = 1
  MaxHeight = 4
  LastDeposit = 1
  Drift = 1
  DownAtFirst = {slave}
  Prompt = TRUE
  FaultKinds = {"db"}
  MaxFaults = 1
INVARIANTS RecordsBacked
PROPERTIES MasterActsFirst
