SPECIFICATION Spec
CONSTANTS
    a = a
    b = b
    c = c
    Elements <- MCElements
    Nothing = Nothing
    m_capacity = 3
SYMMETRY Symmetry
INVARIANTS
    EndsAgree
PROPERTY Promise
