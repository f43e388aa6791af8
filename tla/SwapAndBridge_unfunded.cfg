SPECIFICATION Spec
CONSTANTS
    c1 = c1
    c2 = c2
    All = All
    Calls <- OneCall
    Atomics = 10
    Rates <- AllRates
    Fees <- AllFees
    DefaultGas = 300
    Amounts <- SomeAmounts
    MaxBalance = 6
    MaxEvents = 1
INVARIANT DocSignsOnlyFunded
CHECK_DEADLOCK FALSE
