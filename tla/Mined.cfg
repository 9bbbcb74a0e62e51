\* One fault and one invalidated or reconsidered block; c repeats a transaction.
\* The system stops when all blocks are in and the bounds are used up.
SPECIFICATION Spec
CONSTANTS
  g = g
  a = a
  b = b
  c = c
  t1 = t1
  t2 = t2
  Blocks = {g, a, b, c}
  Genesis = g
  Parent <- MCParent
  Chain <- MCChain
  Peer <- MCPeer
  Txs = {t1, t2}
  TxsOf <- MCTxsRepeat
  ResetDepth = 2
  MaxAttempts = 1
  FaultKinds = {"store", "validationRestart", "assemblyRestart", "timeout", "notification"}
  MaxFaults = 1
  MaxOps = 1
INVARIANTS
  TypeOK
  SettledTagsMatch
  TemplateIsUnmined
CHECK_DEADLOCK FALSE
