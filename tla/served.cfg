SPECIFICATION FairSpec
CONSTANTS
  ann = ann
  bob = bob
  eve = eve
  Clients = {bob, eve}
  Pieces <- MCPieces
  IllFormed = {eve}
  Descriptors = {4, 5}
  MaxWatches = 2
  MAX_EVENTS = 2
  threads_count_ = 3
  NoClient = NoClient
  NoDescriptor = NoDescriptor
PROPERTIES Served
CHECK_DEADLOCK FALSE
