\* Two goroutines and three calls: a call during another one's setup, and a
\* call after a result was returned, with every pair of exporter lists.
CONSTANTS
    Caller = {c1, c2}
    Configs <- MCConfigs
    MaxCalls = 3
    Unset = Unset
    Refused = Refused
    NoProvider = NoProvider
SPECIFICATION Spec
INVARIANTS
    SameAnswer
    SuccessIsComplete
    OnlyCompleteSetupServes
    SyncedServer
    NoForeignCollectors
PROPERTIES
    PromiseKept
