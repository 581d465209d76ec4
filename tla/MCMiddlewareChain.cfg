\* Two requests at a time, four clients, 16 servers, over HTTP and gRPC.
CONSTANTS
    Request = {r1, r2}
    Key = {"k1"}
    NoKey = ""
    Method = {"", "HS384", "none"}
    ClientSetting <- MCClient
    ServerSetting <- MCServer
SPECIFICATION Spec
SYMMETRY MCSymmetry
INVARIANTS
    HandlerIsProtected
    PanicIsContained
    SlotsAreReturned
    SpansEndInOrder
    AdmittedAreObserved
    SameAuthIsAccepted
\* Requests may all have been made: the system then stops.
CHECK_DEADLOCK FALSE
