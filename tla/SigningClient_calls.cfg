SPECIFICATION Spec
CONSTANTS
    c1 = c1
    c2 = c2
    m1 = m1
    m2 = m2
    foreign = foreign
    NoTx = NoTx
    NoMsg = NoMsg
    Calls <- TwoCalls
    Msgs <- TwoMsgs
    Foreign <- NoSequences
    Async <- SecondMsg
    Lossy <- SecondMsg
    Edits <- BOOLEAN
    Explicit <- Ahead
    MaxSeq = 1
    MaxForeign = 0
    Policies <- FreeOrAwait
    Drops = FALSE
SYMMETRY Symmetry
INVARIANTS TypeOK OnlySignedIsSent ResponsesAreDistinct AwaitedCallsNeverMismatch
CHECK_DEADLOCK FALSE
