SPECIFICATION Spec
CONSTANTS
    c1 = c1
    c2 = c2
    All = All
    Calls <- TwoCalls
    Atomics = 10
    Rates <- AllRates
    Fees <- AllFees
    DefaultGas = 300
    Amounts <- SomeAmounts
    MaxBalance = 5
    MaxEvents = 1
SYMMETRY Symmetry
INVARIANTS TypeOK UndisturbedSwapSucceeds LeavesOnlyForeignFee BridgesWhatItSwaps
CHECK_DEADLOCK FALSE
