SPECIFICATION FairSpec
CONSTANTS
  Parent = Parent  Loser = Loser  Child = Child  Winner = Winner  Heir = Heir  Rival = Rival  Thief = Thief
  p1 = p1  p2 = p2  l1 = l1  l2 = l2  w1 = w1
  Txs <- MCTxs
  Outpoints <- MCOutpoints
  Creator <- MCCreator
  Inputs <- MCInputs
  CreatedAt <- MCCreatedAt
  Winners = {Winner}
  Held = {Parent, Loser, Winner}
  Confirmed <- MCConfirmed
  NoTx = NoTx
  NoIntent = NoIntent
  MaxFaults = 2
  MaxMoves = 2
INVARIANTS TypeOK ConfirmedSpendStands BelievedOwns LastOperationStands
PROPERTY IntentsResolved
CHECK_DEADLOCK FALSE
