SPECIFICATION FairSpec
CONSTANTS
  Bots = {master}
  Slaves = {}
  LazyMaster = FALSE
  Swaps = {s1}
  Prices = {1, 2}
  TimeLock = 4
  Confirmations = 1
  MaxHeight = 3
  LastDeposit = 0
  Drift = 1
  DownAtFirst = {}
  Prompt = FALSE
  FaultKinds = {"crash", "rpc", "timeout"}
  MaxFaults = 1
INVARIANTS TypeOK RecordsBacked UserNotCheated
PROPERTIES LockedBchSettles RevealedSecretUsed
  IsAtomicSwap
