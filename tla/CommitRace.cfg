SPECIFICATION Spec
CONSTANTS
  Root = Root  Tx = Tx  Child = Child  Rival = Rival
  r1 = r1  r2 = r2  t1 = t1
  a1 = a1  a2 = a2  a3 = a3  a4 = a4
  Txs <- MCTxs
  Mined = {Root}
  Outpoints <- MCOutpoints
  Creator <- MCCreator
  Ins <- MCIns
  Attempts = {a1,a2,a3,a4}
  TxOf <- MCTxOf
  InBlock = {a3}
  NoTx = NoTx
  QueueLimit = 1
  MaxFaults = 2
  MaxResets = 0
INVARIANTS RecordOwnsInputs NoDanglingSpend AssemblyHasRecords
CHECK_DEADLOCK FALSE
