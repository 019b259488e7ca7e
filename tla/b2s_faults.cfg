SPECIFICATION FairSpec
CONSTANTS
  Bots = {master}
  Slaves = {}
  LazyMaster = FALSE
  Swaps = {s1}
  Prices = {1, 2}
  TimeLock = 3
  Confirmations = 1
  MaxHeight = 3
  LastDeposit = 1
  Drift = 1
  DownAtFirst = {}
  Prompt = FALSE
  FaultKinds = {"crash", "rpc", "timeout"}
  MaxFaults = 1
PROPERTIES LockedSbchSettles RevealedDepositSpent
  IsAtomicSwap
INVARIANTS TypeOK RecordsBacked UserNotCheated
