-------------------------- MODULE KeepaliveRollout --------------------------
(***************************************************************************)
(* Two deployments, of gRPC clients and of gRPC servers, whose keepalive   *)
(* sections are changed instance by instance while they are connected.     *)
(* The constructors of src/rpc/grpc.go read the section when an instance   *)
(* starts; grpc-go sends the pings, counts those that come too early, and  *)
(* closes a connection on the third.  The network may swallow a            *)
(* connection without telling anybody, which is what keepalive is for.     *)
(*                                                                         *)
(* The operator keeps the rule of README.md:260, which is a guard of the   *)
(* deployment actions: a section that sends more pings is rolled out only  *)
(* when every server, and every server that is about to restart, has a     *)
(* policy for it; a stricter policy only when no client needs the old one. *)
(***************************************************************************)
EXTENDS GrpcKeepalive

CONSTANTS
    Client, Server,     \* the instances of the two deployments
    ClientSection,      \* client.grpc.keepalive, as it may be deployed
    ServerSection,      \* server.grpc.keepalive_enforcement_policy
    Down                \* the instance does not run

ASSUME RolloutAssumption ==
    /\ Client \cap Server = {}
    /\ ClientSection \subseteq Client_Keepalive \cup {Absent} /\ Absent \in ClientSection
    /\ ServerSection \subseteq Server_KeepaliveEnforcementPolicy \cup {Absent}
    /\ Absent \in ServerSection
    /\ Down \notin ClientSection \cup ServerSection

\* grpc-go, when no policy is set; and a ping on an idle connection that the
\* policy does not permit is early within two hours.
DefaultMinTime == 300
IdlePingTime == 7200
MaxPingStrikes == 2

VARIABLES
    deployed,  \* the section each instance will start with
    running,   \* the section each instance did start with
    link       \* the connection of each client to each server

vars == <<deployed, running, link>>

NoLink == [is |-> "none", pinged |-> FALSE, strikes |-> 0]
NewLink == [is |-> "open", pinged |-> FALSE, strikes |-> 0]

ValidClientSection == {k \in ClientSection : ClientKeepaliveValid(k)}
ValidServerSection == {p \in ServerSection : ServerPolicyValid(p)}

TypeOK ==
    /\ deployed \in [Client \cup Server -> ClientSection \cup ServerSection]
    /\ running \in [Client \cup Server -> ValidClientSection \cup ValidServerSection \cup {Down}]
    /\ \A c \in Client : deployed[c] \in ClientSection
                         /\ running[c] \in ValidClientSection \cup {Down}
    /\ \A s \in Server : deployed[s] \in ServerSection
                         /\ running[s] \in ValidServerSection \cup {Down}
    /\ link \in [Client \X Server -> [is : {"none", "open", "lost", "banned"},
                                      pinged : BOOLEAN, strikes : Nat]]
    /\ \A c \in Client, s \in Server : link[<<c, s>>].is # "none" => running[c] # Down

\* Both deployments start without any section.
Init ==
    /\ deployed = [x \in Client \cup Server |-> Absent]
    /\ running = [x \in Client \cup Server |-> Absent]
    /\ link = [l \in Client \X Server |-> NoLink]

-----------------------------------------------------------------------------
(* What the sections mean on the wire *)

Keepalive(k) == ClientKeepaliveParameters(k)
MinTime(p) ==
    LET e == ServerKeepaliveEnforcementPolicy(p) IN IF e.enabled THEN e.min_time ELSE DefaultMinTime
Permits(p) ==
    LET e == ServerKeepaliveEnforcementPolicy(p) IN e.enabled /\ e.permit

\* README.md:260, for one client section and one server section.
Compatible(k, p) ==
    k # Absent /\ k.enable =>
        /\ k.time >= (IF p # Absent /\ p.enable THEN p.min_time ELSE DefaultMinTime)
        /\ k.permit_without_stream => p # Absent /\ p.enable /\ p.permit_without_stream

\* What an instance runs with or may come to run with.
ClientMayRun(c) == {running[c], deployed[c]} \cap ValidClientSection
ServerMayRun(s) == {running[s], deployed[s]} \cap ValidServerSection

-----------------------------------------------------------------------------
(* Deployment *)

DeployClient(c, k) ==
    /\ k \in ValidClientSection =>
        \A s \in Server : \A p \in ServerMayRun(s) : Compatible(k, p)
    /\ deployed' = [deployed EXCEPT ![c] = k]
    /\ UNCHANGED <<running, link>>

DeployServer(s, p) ==
    /\ p \in ValidServerSection =>
        \A c \in Client : \A k \in ClientMayRun(c) : Compatible(k, p)
    /\ deployed' = [deployed EXCEPT ![s] = p]
    /\ UNCHANGED <<running, link>>

\* An instance stops, for whatever reason, and starts with what is deployed; an
\* invalid section ends it in CreateGrpcClient.
StartClient(c) ==
    /\ running' = [running EXCEPT ![c] =
                    IF ClientKeepaliveValid(deployed[c]) THEN deployed[c] ELSE Down]
    /\ link' = [l \in DOMAIN link |-> IF l[1] = c THEN NoLink ELSE link[l]]
    /\ UNCHANGED deployed

StartServer(s) ==
    /\ running' = [running EXCEPT ![s] =
                    IF ServerPolicyValid(deployed[s]) THEN deployed[s] ELSE Down]
    /\ link' = [l \in DOMAIN link |-> IF l[2] = s THEN NoLink ELSE link[l]]
    /\ UNCHANGED deployed

-----------------------------------------------------------------------------
(* Connections *)

Connect(c, s) ==
    /\ running[c] # Down /\ running[s] # Down
    /\ link[<<c, s>>].is = "none"
    /\ link' = [link EXCEPT ![<<c, s>>] = NewLink]
    /\ UNCHANGED <<deployed, running>>

\* The server takes a ping that comes too early for a strike.
Early(c, s, streams) ==
    IF streams \/ Permits(running[s]) THEN Keepalive(running[c]).time < MinTime(running[s])
    ELSE Keepalive(running[c]).time < IdlePingTime

\* The client pings a quiet connection, one without streams only if it may.
MayPing(c, streams) ==
    /\ running[c] # Down
    /\ Keepalive(running[c]).enabled
    /\ streams \/ Keepalive(running[c]).permit

Ping(c, s) ==
    /\ link[<<c, s>>].is = "open"
    /\ \E streams \in BOOLEAN :
        /\ MayPing(c, streams)
        /\ LET strikes == link[<<c, s>>].strikes
                          + (IF link[<<c, s>>].pinged /\ Early(c, s, streams) THEN 1 ELSE 0)
           IN  link' = [link EXCEPT ![<<c, s>>] =
                    [is |-> IF strikes > MaxPingStrikes THEN "banned" ELSE "open",
                     pinged |-> TRUE, strikes |-> strikes]]
    /\ UNCHANGED <<deployed, running>>

\* Whatever the server sends makes it forget the pings before.
ServerSends(c, s) ==
    /\ link[<<c, s>>].is = "open"
    /\ link' = [link EXCEPT ![<<c, s>>] = NewLink]
    /\ UNCHANGED <<deployed, running>>

\* The network drops the connection and tells neither side.
Vanish(c, s) ==
    /\ link[<<c, s>>].is = "open"
    /\ link' = [link EXCEPT ![<<c, s>>].is = "lost"]
    /\ UNCHANGED <<deployed, running>>

\* A ping is not answered within its timeout; an idle client that may not ping
\* learns of it only if it happens to have a stream.
Notice(c, s, streams) ==
    /\ link[<<c, s>>].is = "lost"
    /\ MayPing(c, streams)
    /\ link' = [link EXCEPT ![<<c, s>>] = NoLink]
    /\ UNCHANGED <<deployed, running>>

Next ==
    \/ \E c \in Client : StartClient(c) \/ \E k \in ClientSection : DeployClient(c, k)
    \/ \E s \in Server : StartServer(s) \/ \E p \in ServerSection : DeployServer(s, p)
    \/ \E c \in Client, s \in Server :
        \/ Connect(c, s) \/ Ping(c, s) \/ ServerSends(c, s) \/ Vanish(c, s)
        \/ \E streams \in BOOLEAN : Notice(c, s, streams)

\* grpc-go runs the keepalive timer of every connection; nobody is obliged to
\* have streams.
Fairness == \A c \in Client, s \in Server : WF_vars(Notice(c, s, FALSE))

SafetySpec == Init /\ [][Next]_vars

Spec == SafetySpec /\ Fairness

-----------------------------------------------------------------------------
(* Properties *)

\* In the order of README.md:260 no server ever takes a ping of a client for too
\* early, in any mixture of old and new instances: no strike, no ban.
PingsAreWelcome ==
    \A l \in Client \X Server : link[l].is # "banned" /\ link[l].strikes = 0

KeepsIdleLinks(k) == k \notin {Down, Absent} /\ k.enable /\ k.permit_without_stream

\* A client that started with keepalive, idle connections included, does not
\* stay on a connection that has vanished (README.md:239).
LostLinksAreNoticed ==
    \A c \in Client, s \in Server :
        (link[<<c, s>>].is = "lost" /\ KeepsIdleLinks(running[c]))
        ~> (link[<<c, s>>].is # "lost")
=============================================================================
