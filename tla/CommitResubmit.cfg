SPECIFICATION Spec
CONSTANTS
  Root = Root  Tx = Tx  Child = Child  Rival = Rival
  r1 = r1  r2 = r2  t1 = t1
  a1 = a1  a2 = a2  a3 = a3  a4 = a4
  Txs <- MCTxs
  Mined = {Root}
  Outpoints <- MCOutpoints
  Creator <- MCCreator
  Ins <- MCIns
  Attempts = {a1,a2}
  TxOf <- MCTxOf
  InBlock = {}
  NoTx = NoTx
  QueueLimit = 1
  MaxFaults = 1
  MaxResets = 0
INVARIANT RecordKeepsInputs
CHECK_DEADLOCK FALSE
