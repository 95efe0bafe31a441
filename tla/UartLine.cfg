SPECIFICATION FairSpec
CONSTANTS
  BufLen = 4
  QueueLen = 2
  MaxRead = 3
  MaxTyped = 9
INVARIANTS TypeOK MessagesAreLines InTypedOrder
PROPERTIES EndedLineIsHandled
