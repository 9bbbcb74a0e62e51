SPECIFICATION FairSpec
CONSTANTS
  Offsets = {1}
  Spenders = {s1}
  Blocks = {b1}
  Unspent = Unspent
  Frozen = Frozen
  NoOutput = NoOutput
  NPages = 2
  Outs <- AllSpendable
  Callers = {c1, c2}
  Pruner = Pruner
  BlockHeight <- Height1
  Retention = 1
  UnminedTxRetention = 2
  SpendableAfter = 1
  CoinbaseHeight = 0
  CreatedConflicting = {FALSE}
  CreatedLocked = {FALSE}
  MaxHeight = 4
  OpsUntil = 2
  MaxReassign = 1
  Ops = {"spend", "mine", "prune"}
PROPERTIES FullySpentIsPruned
CHECK_DEADLOCK FALSE
