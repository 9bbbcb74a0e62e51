\* Two faults, enough for a block to be dropped from the queue.
\* The system stops when all blocks are in and settled.
SPECIFICATION LiveSpec
CONSTANTS
  g = g
  a = a
  b = b
  c = c
  t1 = t1
  t2 = t2
  Blocks = {g, a, b, c}
  Genesis = g
  Parent <- MCParent
  Chain <- MCChain
  Peer <- MCPeer
  Txs = {t1, t2}
  TxsOf <- MCTxsOf
  ResetDepth = 2
  MaxAttempts = 2
  FaultKinds = {"store", "validationRestart", "assemblyRestart", "timeout", "notification"}
  MaxFaults = 2
  MaxOps = 0
PROPERTIES
  EveryBlockSettles
  AssemblyFollows
CHECK_DEADLOCK FALSE
