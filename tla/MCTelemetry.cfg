\* Three spans for a queue of two, every pair of seven and seven sections.
\* A process that has ended does nothing more.
CONSTANTS
    Span = {s1, s2, s3}
    Absent = Absent
    Endpoint <- MCEndpoint
    Sampler <- MCSampler
    Tracing <- MCTracing
    Metering <- MCMetering
    QueueSize = 2
SPECIFICATION FairSpec
INVARIANT ProvidersAreSound
PROPERTY EndedSpansLeave
CHECK_DEADLOCK FALSE
