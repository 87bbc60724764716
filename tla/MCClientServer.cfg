SPECIFICATION Spec
CONSTANTS
  c1 = c1
  c2 = c2
  c3 = c3
  NoClient = NoClient
  FifoClients = {c1, c2}
  FifoStarts = 2
  Texts = {"t1", "t2"}
  Contents <- ShortFiles
  LeftValues = {0, 1}
  OrderClients = {c1, c2, c3}
  OrderStarts = 2
  Capacity = 2
INVARIANTS
  TypeOK
  RequestsServedOnce
  ChunksShownOnce
  OrdersServedInOrder
  RemovedAtEnd
PROPERTIES
  NobodyWaitsForEver
\* Every program may end, and no server is started more than twice.
CHECK_DEADLOCK FALSE
