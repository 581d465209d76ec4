\* Two servers, two requests, every kind of delay and logger, any servers without recovery.
CONSTANTS
    Server = {s1, s2}
    Request = {r1, r2}
    NoOption = NoOption
    Delay <- MCDelay
    OptionLists <- MCOptionLists
    LbDelay = 2
SPECIFICATION Spec
INVARIANTS
    NothingIsRefused
    CleanupIsLast
    LateDeathsAreHandlers
PROPERTY Terminates
\* A process that has ended stays so.
CHECK_DEADLOCK FALSE
