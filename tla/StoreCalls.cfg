SPECIFICATION Spec
CONSTANTS
  Offsets = {1}
  Spenders = {s1, s2}
  Blocks = {b1}
  Unspent = Unspent
  Frozen = Frozen
  NoOutput = NoOutput
  NPages = 1
  Outs <- AllSpendable
  Callers = {c1}
  Pruner = Pruner
  BlockHeight <- Height1
  Retention = 1
  UnminedTxRetention = 2
  SpendableAfter = 1
  CoinbaseHeight = 1
  CreatedConflicting = {FALSE}
  CreatedLocked = {FALSE, TRUE}
  MaxHeight = 2
  OpsUntil = 2
  MaxReassign = 1
  Ops = {"spend", "force", "unspend", "mine", "chain", "conflict", "lock", "freeze", "preserve", "child"}
SYMMETRY Symmetry
INVARIANTS TypeOK SpentCountExact AckedSpendStands MasterStampMeansSpent LatchMatchesPage PreservedHasNoStamp PageLocksFollowMaster
PROPERTY ImplementsLedger
CHECK_DEADLOCK FALSE
