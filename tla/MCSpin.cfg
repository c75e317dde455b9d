SPECIFICATION SpinSpec
CONSTANTS
    Publishers = {p1, p2}
    Subscribers = {s1}
    Chunks = {c1, c2, c3, c4}
    SerializedOnly = FALSE
    MaxLoans = 1
    MaxBorrows = 1
    BufferSize = 2
    HistorySize = 0
    MaxMessages = 1
    Faults = {"loan", "serialize", "send", "notify", "receive"}
INVARIANTS
    
    LoansExclusive
    Announced
PROPERTIES
    MessagesTaken
CHECK_DEADLOCK FALSE
