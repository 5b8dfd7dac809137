SPECIFICATION Spec
CONSTANTS
  ann = ann
  bob = bob
  eve = eve
  Clients = {ann, bob, eve}
  Pieces <- MCPieces
  IllFormed = {eve}
  Descriptors = {4, 5, 6}
  MaxWatches = 2
  MAX_EVENTS = 2
  threads_count_ = 3
  NoClient = NoClient
  NoDescriptor = NoDescriptor
INVARIANTS TypeOK OneHolder RepliesGoHome NotDropped
CHECK_DEADLOCK FALSE
