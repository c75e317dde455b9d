SPECIFICATION FairSpec
CONSTANTS
    Publishers = {p1}
    Subscribers = {s1}
    Chunks = {c1, c2, c3, c4}
    SerializedOnly = FALSE
    MaxLoans = 1
    MaxBorrows = 2
    BufferSize = 2
    HistorySize = 1
    MaxMessages = 3
    Faults = {"deserialize"}
PROPERTIES
    BuffersDrained
