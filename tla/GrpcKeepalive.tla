---------------------------- MODULE GrpcKeepalive ----------------------------
(***************************************************************************)
(* The keepalive sections of a gRPC client and of a gRPC server, and what  *)
(* the constructors in src/rpc/grpc.go make of them.  Durations are in     *)
(* seconds.                                                                *)
(***************************************************************************)
EXTENDS Integers

CONSTANTS
    Absent,      \* a message, or an optional value, that is not there
    Malformed,   \* a duration that CheckValid rejects
    Duration     \* the durations that occur, in seconds

ASSUME KeepaliveAssumption ==
    /\ Duration \subseteq Int
    /\ Absent \notin Duration
    /\ Malformed \notin Duration

minimumClientKeepaliveTime == 10

OptionalDuration == Duration \cup {Absent, Malformed}

Client_Keepalive == [enable : BOOLEAN, time : OptionalDuration, timeout : OptionalDuration,
                     permit_without_stream : BOOLEAN]

Server_KeepaliveEnforcementPolicy == [enable : BOOLEAN, min_time : OptionalDuration,
                                      permit_without_stream : BOOLEAN]

-----------------------------------------------------------------------------
\* positiveDuration returns no error.
PositiveDuration(d) == d \notin {Absent, Malformed} /\ d > 0

Off == [enabled |-> FALSE]

\* A section that is missing or switched off is not looked at.
ClientKeepaliveValid(k) ==
    k # Absent /\ k.enable =>
        /\ PositiveDuration(k.time)
        /\ k.time >= minimumClientKeepaliveTime
        /\ PositiveDuration(k.timeout)

\* Faulty variant: idle connections are forgotten.
ClientParametersWithoutPermit(k) ==
    IF k = Absent \/ ~ k.enable THEN Off
    ELSE [enabled |-> TRUE, time |-> k.time, timeout |-> k.timeout, permit |-> FALSE]

ClientKeepaliveParameters(k) ==
    IF k = Absent \/ ~ k.enable THEN Off
    ELSE [enabled |-> TRUE, time |-> k.time, timeout |-> k.timeout,
          permit |-> k.permit_without_stream]

ServerPolicyValid(p) == p # Absent /\ p.enable => PositiveDuration(p.min_time)

\* Faulty variant: so are they on the other side.
ServerPolicyWithoutPermit(p) ==
    IF p = Absent \/ ~ p.enable THEN Off
    ELSE [enabled |-> TRUE, min_time |-> p.min_time, permit |-> FALSE]

ServerKeepaliveEnforcementPolicy(p) ==
    IF p = Absent \/ ~ p.enable THEN Off
    ELSE [enabled |-> TRUE, min_time |-> p.min_time, permit |-> p.permit_without_stream]
=============================================================================
