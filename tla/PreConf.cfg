SPECIFICATION Spec
CONSTANTS
  Txs <- MCTxs
  Subscribers = {s1, s2}
  Deadline = 3
  PreconfTime = 2
  MaxSkipped = 1
  MaxClock = 4
INVARIANTS
  PayloadsMakeTheBlock
  PayloadsOrdered
  RunReceived
PROPERTIES
  TakenInTime
  CancelEndsProposal
  TickerEnds
  BlockPublished
CHECK_DEADLOCK FALSE
