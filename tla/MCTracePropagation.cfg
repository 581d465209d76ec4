\* Two services in each of seven configurations, one tree of up to three requests.
\* Four identifiers: a root, an excluded call, and two spans below them.
CONSTANTS
    Service = {s1, s2}
    Text <- MCText
    Blank = " "
    Operation <- MCOperation
    Setting <- MCSetting
    MaxIds = 4
    MaxArrivals = 1
    MaxRequests = 3
SPECIFICATION Spec
SYMMETRY MCSymmetry
INVARIANTS
    SilentSubtree
    NoOrphans
    WholeTraces
    ExclusionStaysBelow
\* Requests may all have been made: the system then stops.
CHECK_DEADLOCK FALSE
