SPECIFICATION FairSpec
CONSTANTS
    w1 = w1
    w2 = w2
    acceptor = acceptor
    owner = owner
    other = other
    Acceptor = acceptor
    Owner = owner
    KeepAlive <- MCKeepAlive
    BufferSize = 1
    Workers = {w1}
    Disconnectors <- MCOwnerDisconnects
    MaxClients = 2
    MaxBytes = 2
INVARIANT NothingDropped
PROPERTIES
    ShutdownReturns
    DisconnectReturns
    Served
