SPECIFICATION Spec
CONSTANTS
    Clients = {a, b}
    Data = data
    Delimiter = delimiter
    MaxDescriptors = 2
    MaxSent = 2
INVARIANTS
    SocketsOwned
    MessagesWhole
SYMMETRY Symmetry
CHECK_DEADLOCK FALSE
