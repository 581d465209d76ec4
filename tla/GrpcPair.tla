------------------------------ MODULE GrpcPair ------------------------------
(***************************************************************************)
(* A gRPC client and a gRPC server, each created by its constructor in     *)
(* src/rpc/grpc.go from a configuration of its own, and the calls between  *)
(* them: the two configurations meet only on the wire.                     *)
(***************************************************************************)
EXTENDS GrpcTransport

CONSTANTS
    ClientConfigs,  \* cfg.Client.Grpc of the client
    ServerConfigs,  \* cfg.Server.Grpc of the server
    Payload         \* sizes of requests and replies, in MB

ASSUME PairAssumption ==
    /\ ClientConfigs \subseteq Client_GRPC \cup {Absent}
    /\ ServerConfigs \subseteq Server_GRPC \cup {Absent}
    /\ Payload \subseteq Nat

VARIABLES
    cc, sc,          \* the two configurations
    client, server,  \* what became of the two constructors, and their options
    call             \* a call, if one was made: its sizes and its outcome

pairVars == <<cc, sc, client, server, call>>

Nothing == [is |-> "nothing"]

PairTypeOK ==
    /\ cc \in ClientConfigs /\ sc \in ServerConfigs
    /\ client.is \in {"nothing", "panic", "exit", "created"}
    /\ server.is \in {"nothing", "panic", "exit", "created"}
    /\ client.is = "created" =>
        /\ client.opts.limit \in Int
        /\ client.opts.keepalive.enabled => client.opts.keepalive.timeout \in Duration
    /\ server.is = "created" =>
        /\ server.opts.limit \in Int
        /\ server.opts.policy.enabled => server.opts.policy.min_time > 0
    /\ call = Nothing \/ call.is \in {"answered", "too large", "no connection"}

PairInit ==
    /\ cc \in ClientConfigs /\ sc \in ServerConfigs
    /\ client = Nothing /\ server = Nothing /\ call = Nothing

CreateGrpcClient ==
    /\ client = Nothing
    /\ client' = IF ClientOutcome(cc) = "created"
                 THEN [is |-> "created", opts |-> ClientOptions(cc)]
                 ELSE [is |-> ClientOutcome(cc)]
    /\ UNCHANGED <<cc, sc, server, call>>

CreateGrpcServer ==
    /\ server = Nothing
    /\ server' = IF ServerOutcome(sc) = "created"
                 THEN [is |-> "created", opts |-> ServerOptions(sc)]
                 ELSE [is |-> ServerOutcome(sc)]
    /\ UNCHANGED <<cc, sc, client, call>>

\* A call passes four limits: sending and receiving, request and reply.  Calls
\* leave nothing behind, so one is enough.
Call(request, reply) ==
    /\ call = Nothing
    /\ client.is = "created" /\ server # Nothing
    /\ call' = [request |-> request, reply |-> reply,
                is |-> IF server.is # "created" THEN "no connection"
                       ELSE IF ~ Handshake(client.opts, server.opts) THEN "no connection"
                       ELSE IF /\ {request, reply} \subseteq 0..client.opts.limit
                               /\ {request, reply} \subseteq 0..server.opts.limit
                            THEN "answered" ELSE "too large"]
    /\ UNCHANGED <<cc, sc, client, server>>

PairNext ==
    \/ CreateGrpcClient \/ CreateGrpcServer
    \/ \E request, reply \in Payload : Call(request, reply)

PairSpec == PairInit /\ [][PairNext]_pairVars

-----------------------------------------------------------------------------
(* Properties *)

Configured(max) == IF max > 0 THEN max ELSE defaultMsgSize

Fits(max) == call.request <= Configured(max) /\ call.reply <= Configured(max)

\* max_msg_size is the limit in MB (README.md:235) of both directions at both
\* ends: what fits passes, and what does not is refused.
SizesAreHonoured ==
    /\ call # Nothing /\ call.is = "answered" => Fits(cc.max_msg_size) /\ Fits(sc.max_msg_size)
    /\ call # Nothing /\ call.is = "too large" =>
        ~ (Fits(cc.max_msg_size) /\ Fits(sc.max_msg_size))

\* An enabled keepalive section either is used as it stands, and is then one
\* grpc-go takes as it stands, or there is no client (README.md:258).  The same
\* holds of the server's policy.
NoSilentFallback ==
    /\ client.is = "created" /\ cc.keepalive # Absent =>
        client.opts.keepalive =
            (IF cc.keepalive.enable
             THEN [enabled |-> TRUE, time |-> cc.keepalive.time,
                   timeout |-> cc.keepalive.timeout,
                   permit |-> cc.keepalive.permit_without_stream]
             ELSE Off)
    /\ client.is = "created" /\ client.opts.keepalive.enabled =>
        client.opts.keepalive.time >= minimumClientKeepaliveTime
    /\ server.is = "created" /\ server.opts.policy.enabled => server.opts.policy.min_time > 0

\* A server with TLS answers only who presents a certificate of its authority,
\* and a client with TLS only talks to who holds one of its own authority for
\* the name it expects; whoever has none of the two never meets the other.
PeersAreVerified ==
    call # Nothing /\ call.is \in {"answered", "too large"} =>
        /\ client.opts.tls.on = server.opts.tls.on
        /\ server.opts.tls.on =>
            /\ Issuer[client.opts.tls.cert] =
                Default(sc.tls.ca_file, defaultCaFile)
            /\ Issuer[server.opts.tls.cert] = Default(cc.tls.ca_file, defaultCaFile)
            /\ NameOf[server.opts.tls.cert] = Default(cc.tls.server_name, defaultServerName)

\* Both ends are what their sections say, or there is no connection.
PairIsSound == PairTypeOK /\ NoSilentFallback /\ PeersAreVerified
=============================================================================
