SPECIFICATION Spec
CONSTANTS
    c1 = c1
    c2 = c2
    c3 = c3
    t1 = t1
    t2 = t2
    NoTx = NoTx
    Calls <- TwoCalls
    Txs <- OneTx
INVARIANT DocIncludedInTimeIsReported
