SPECIFICATION Spec
CONSTANTS
    Calls = {c1, c2}
    Reads = {r1, r2}
    Wasms = {w1, w2}
    MaxCodes = 2
    MaxContracts = 2
    AdminOptions = {"user"}
    MaxStarted = 2
SYMMETRY Symmetry
INVARIANTS TypeOK ReportsAreOwn ResolvedMeansDone ErrorsLeaveNoTrace
    UnclearErrorsAreAllOrNothing CodeDetailsAreTrue ReadsSeeWhatResolved
CHECK_DEADLOCK FALSE
