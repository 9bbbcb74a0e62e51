SPECIFICATION Spec
CONSTANTS
  Offsets = {1}
  Spenders = {s1}
  Blocks = {b1}
  Unspent = Unspent
  Frozen = Frozen
  NoOutput = NoOutput
  NPages = 1
  Outs <- AllSpendable
  Callers = {c1}
  Pruner = Pruner
  BlockHeight <- Height1
  Retention = 1
  UnminedTxRetention = 2
  SpendableAfter = 1
  CoinbaseHeight = 0
  CreatedConflicting = {FALSE}
  CreatedLocked = {FALSE}
  MaxHeight = 2
  OpsUntil = 2
  MaxReassign = 1
  Ops = {"spend", "unspend", "mine"}
INVARIANTS SettledPageStampMeansSpent
CHECK_DEADLOCK FALSE
