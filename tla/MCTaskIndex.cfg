SPECIFICATION Spec
CONSTANTS
    Tasks = {t1, t2, t3, t4}
    Values = {v1, v2}
    None = None
    Workers = {w1}
    ChunkSize = 2
    MaxOps = 4
INVARIANTS
    IndexInOrder
PROPERTIES
    ImplementsMap
SYMMETRY Symmetry
CHECK_DEADLOCK FALSE
