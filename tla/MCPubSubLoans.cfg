SPECIFICATION Spec
CONSTANTS
    Publishers = {p1}
    Subscribers = {s1, s2}
    Chunks = {c1, c2, c3, c4, c5}
    SerializedOnly = FALSE
    MaxLoans = 2
    MaxBorrows = 1
    BufferSize = 2
    HistorySize = 1
    MaxMessages = 3
    Faults = {"loan", "serialize", "send", "notify", "receive", "deserialize", "resize"}
SYMMETRY ChunkSymmetry
INVARIANTS
    TypeOK
    BuffersInOrder
    LoansExclusive
    NoLeakedLoans
PROPERTIES
    PayloadStable
