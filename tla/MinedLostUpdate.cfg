\* One block is invalidated and nothing fails.
SPECIFICATION Spec
CONSTANTS
  g = g
  a = a
  b = b
  c = c
  t1 = t1
  t2 = t2
  Blocks = {g, a, b, c}
  Genesis = g
  Parent <- MCParent
  Chain <- MCChain
  Peer <- MCPeer
  Txs = {t1, t2}
  TxsOf <- MCTxsRepeat
  ResetDepth = 2
  MaxAttempts = 2
  FaultKinds = {}
  MaxFaults = 0
  MaxOps = 1
INVARIANTS
  SettledMeansTagged
CHECK_DEADLOCK FALSE
