\* Every pair of configurations in which one aspect varies at each end.
CONSTANTS
    Absent = Absent
    Malformed = Malformed
    Duration <- MCDuration
    Size <- MCSize
    File <- MCFile
    Readable <- MCReadable
    Issuer <- MCIssuer
    NameOf <- MCNameOf
    ClientConfigs <- MCClientConfigs
    ServerConfigs <- MCServerConfigs
    Payload <- MCPayload
SPECIFICATION PairSpec
INVARIANTS
    SizesAreHonoured
    PairIsSound
\* One call is made.
CHECK_DEADLOCK FALSE
