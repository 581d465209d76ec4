\* Four records and a restart, files of one record to three, one or two backups.
CONSTANTS
    Absent = Absent
    FileName <- MCFileName
    Section <- MCSection
    Emitted = {"info", "error", "fatal"}
    DefaultMaxSize = 3
    DefaultMaxBackups = 2
    DefaultMaxAge = 3
    MaxRecords = 4
    MaxStarts = 2
SPECIFICATION FairSpec
INVARIANT ErrorsAreKept
PROPERTY DiskIsReclaimed
\* Every record may have been logged, and the last process ended.
CHECK_DEADLOCK FALSE
