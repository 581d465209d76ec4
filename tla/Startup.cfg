\* Two Contexts that start at the same time, one key, two file versions, two
\* Runs, and one goroutine that may be the one both metrics answers depend on;
\* the program keeps the registration rule.
CONSTANTS
    Ctx = {x1, x2}
    Other = {g}
    NumKeys = 1
    MaxVersion = 2
    MaxRuns = 2
    Unset = Unset
    Refused = Refused
    RegisterWhileRunning = FALSE
SPECIFICATION Spec
INVARIANTS
    OneBootstrapPerProcess
    PublishedIsComplete
    ScansNeverGoBack
    AppFindsFilledTargets
    EveryAppIsCleanedUp
PROPERTIES
    PublishedConfigIsFinal
    RunIsDecided
\* A process that has exited, or has used up its Runs, stops.
CHECK_DEADLOCK FALSE
