SPECIFICATION FairSpec
CONSTANTS
    c1 = c1
    c2 = c2
    m1 = m1
    m2 = m2
    foreign = foreign
    NoTx = NoTx
    NoMsg = NoMsg
    Calls <- TwoCalls
    Msgs <- TwoMsgs
    Foreign <- ForeignMsg
    Async <- SecondMsg
    Lossy <- NoSequences
    Edits <- Unedited
    Explicit <- NoSequences
    MaxSeq = 1
    MaxForeign = 1
    Policies <- Retry
    Drops = TRUE
INVARIANTS RetriesExecuteOnce
PROPERTY EveryCallEnds
CHECK_DEADLOCK FALSE
