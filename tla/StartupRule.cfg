\* The rule of the documentation, with goroutines that do not keep it.
CONSTANTS
    Ctx = {x1}
    Other = {}
    NumKeys = 1
    MaxVersion = 1
    MaxRuns = 1
    Unset = Unset
    Refused = Refused
    RegisterWhileRunning = TRUE
SPECIFICATION SafetySpec
PROPERTIES
    RegisteredOnlyBeforeRun
\* A process that has exited, or has used up its Runs, stops.
CHECK_DEADLOCK FALSE
