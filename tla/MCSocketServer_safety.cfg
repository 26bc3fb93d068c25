SPECIFICATION Spec
CONSTANTS
    w1 = w1
    w2 = w2
    acceptor = acceptor
    owner = owner
    other = other
    Acceptor = acceptor
    Owner = owner
    KeepAlive <- MCKeepAlive
    BufferSize = 1
    Workers <- MCWorkers
    Disconnectors <- MCOtherDisconnects
    MaxClients = 2
    MaxBytes = 1
SYMMETRY Symmetry
INVARIANTS
    ShutdownClosesClients
    DisconnectWaits
PROPERTY CloseCallbackLast
