SPECIFICATION Spec
CONSTANTS
    Modulus = 16
    m_maxBufferSize = 3
    DataSize = 5
    MaxSize = 4
INVARIANTS
    BytesTrue
    ReadComplete
    WalkComplete
