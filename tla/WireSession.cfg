CONSTANTS
    kWireHeaderBytes = 2
    kReceiveChunkBytes = 3
    client_limits <- MCClientLimits
    server_limits <- MCServerLimits
    RequestSizes = {0, 2}
    ReplySizes = {0, 3, 4}
    MaxRequests = 3
    MaxConnections = 2
CHECK_DEADLOCK FALSE
SPECIFICATION Spec
INVARIANTS
    HandledInOrder
    ReplyIsOwn
    RefusesOnlyWithoutRoom
    FreshAfterConnect
PROPERTIES
    RequestReturns
