SPECIFICATION Spec
CONSTANTS
  b1 = b1
  s1 = s1
  s2 = s2
  B2S = {b1}
  S2B = {s1, s2}
  Value <- MCValue
  FirstWallet <- MCWallet
  QueryLimit = 1
  MaxInputs = 2
  Reserve = 1
  Dust = 1
  PenaltyBPS = 500
  MaxFaults = 1
INVARIANTS TypeOK FindsOutputs WalletBalanced SecondLocksAreFaults NothingActiveMissed
PROPERTY NoneStarves
