------------------------------ MODULE GrpcProofs ------------------------------
(***************************************************************************)
(* Proofs about the gRPC transport: about KeepaliveRollout, for any        *)
(* deployments and any sections, that in the order of README.md:260 no     *)
(* server bans a client, and about GrpcPair, for any two configurations.   *)
(***************************************************************************)
EXTENDS KeepaliveRollout, GrpcPair, TLAPS

-----------------------------------------------------------------------------
(* A roll-out *)

\* Whatever an instance runs with, or would start with, suits every instance
\* of the other deployment.  The rule of the README looks at one change; this
\* is what it keeps true in between.
AllCompatible ==
    \A c \in Client, s \in Server :
        \A k \in ClientMayRun(c), p \in ServerMayRun(s) : Compatible(k, p)

\* A connection has two ends.
LinksAreOfTheLiving ==
    \A c \in Client, s \in Server :
        link[<<c, s>>].is # "none" => running[c] # Down /\ running[s] # Down

Inv == TypeOK /\ AllCompatible /\ LinksAreOfTheLiving /\ PingsAreWelcome

LEMMA DownIsNoSection == Down \notin ValidClientSection /\ Down \notin ValidServerSection
BY RolloutAssumption DEF ValidClientSection, ValidServerSection

\* The sections of clients and servers that have no section at all.
LEMMA AbsentIsValid == Absent \in ValidClientSection /\ Absent \in ValidServerSection
BY RolloutAssumption
DEF ValidClientSection, ValidServerSection, ClientKeepaliveValid, ServerPolicyValid

LEMMA InitInv == Init => Inv
<1> SUFFICES ASSUME Init PROVE Inv
  OBVIOUS
<1>1. \A c \in Client : running[c] = Absent /\ deployed[c] = Absent
  BY DEF Init
<1>2. \A s \in Server : running[s] = Absent /\ deployed[s] = Absent
  BY DEF Init
<1>3. \A l \in Client \X Server : link[l] = NoLink
  BY DEF Init
<1>4. TypeOK
  BY <1>1, <1>2, <1>3, AbsentIsValid, RolloutAssumption DEF Init, TypeOK, NoLink
<1>5. AllCompatible
  BY <1>1, <1>2 DEF AllCompatible, ClientMayRun, Compatible
<1>6. LinksAreOfTheLiving
  BY <1>3 DEF LinksAreOfTheLiving, NoLink
<1>7. PingsAreWelcome
  BY <1>3 DEF PingsAreWelcome, NoLink
<1> QED BY <1>4, <1>5, <1>6, <1>7 DEF Inv

-----------------------------------------------------------------------------
(* Deployment keeps the sections compatible *)

LEMMA DeployClientInv ==
    ASSUME Inv, NEW c \in Client, NEW k \in ClientSection, DeployClient(c, k)
    PROVE  Inv'
<1>1. TypeOK'
  BY RolloutAssumption DEF Inv, TypeOK, DeployClient
<1>2. AllCompatible'
  <2> SUFFICES ASSUME NEW d \in Client, NEW s \in Server,
                      NEW i \in ClientMayRun(d)', NEW p \in ServerMayRun(s)'
               PROVE  Compatible(i, p)
    BY DEF AllCompatible
  <2>1. p \in ServerMayRun(s)
    BY RolloutAssumption DEF DeployClient, ServerMayRun, Inv, TypeOK
  <2>2. i \in ClientMayRun(d) \/ (i = k /\ k \in ValidClientSection)
    BY DEF DeployClient, ClientMayRun, Inv, TypeOK
  <2> QED BY <2>1, <2>2 DEF DeployClient, Inv, AllCompatible
<1>3. LinksAreOfTheLiving' /\ PingsAreWelcome'
  BY DEF DeployClient, Inv, LinksAreOfTheLiving, PingsAreWelcome
<1> QED BY <1>1, <1>2, <1>3 DEF Inv

LEMMA DeployServerInv ==
    ASSUME Inv, NEW s \in Server, NEW p \in ServerSection, DeployServer(s, p)
    PROVE  Inv'
<1>1. TypeOK'
  BY RolloutAssumption DEF Inv, TypeOK, DeployServer
<1>2. AllCompatible'
  <2> SUFFICES ASSUME NEW c \in Client, NEW t \in Server,
                      NEW k \in ClientMayRun(c)', NEW q \in ServerMayRun(t)'
               PROVE  Compatible(k, q)
    BY DEF AllCompatible
  <2>1. k \in ClientMayRun(c)
    BY RolloutAssumption DEF DeployServer, ClientMayRun, Inv, TypeOK
  <2>2. q \in ServerMayRun(t) \/ (q = p /\ p \in ValidServerSection)
    BY DEF DeployServer, ServerMayRun, Inv, TypeOK
  <2> QED BY <2>1, <2>2 DEF DeployServer, Inv, AllCompatible
<1>3. LinksAreOfTheLiving' /\ PingsAreWelcome'
  BY DEF DeployServer, Inv, LinksAreOfTheLiving, PingsAreWelcome
<1> QED BY <1>1, <1>2, <1>3 DEF Inv

LEMMA StartClientInv ==
    ASSUME Inv, NEW c \in Client, StartClient(c)
    PROVE  Inv'
<1>1. \A l \in Client \X Server : link'[l] = IF l[1] = c THEN NoLink ELSE link[l]
  BY DEF StartClient, Inv, TypeOK
<1>2. \A x \in Client \cup Server : x # c => running'[x] = running[x]
  BY DEF StartClient, Inv, TypeOK
<1>3. running'[c] \in ({deployed[c]} \cap ValidClientSection) \cup {Down}
  BY DEF StartClient, Inv, TypeOK, ValidClientSection
<1>4. LinksAreOfTheLiving'
  BY <1>1, <1>2, RolloutAssumption DEF Inv, LinksAreOfTheLiving, NoLink
<1>5. TypeOK'
  <2>1. running' \in [Client \cup Server -> ValidClientSection \cup ValidServerSection \cup {Down}]
    BY <1>3 DEF StartClient, Inv, TypeOK, ValidClientSection
  <2>2. link' \in [Client \X Server -> [is : {"none", "open", "lost", "banned"},
                                        pinged : BOOLEAN, strikes : Nat]]
    BY DEF StartClient, Inv, TypeOK, NoLink
  <2>3. \A s \in Server : running'[s] \in ValidServerSection \cup {Down}
    BY <1>2, RolloutAssumption DEF Inv, TypeOK
  <2>4. \A d \in Client : running'[d] \in ValidClientSection \cup {Down}
    BY <1>2, <1>3 DEF Inv, TypeOK
  <2> QED BY <2>1, <2>2, <2>3, <2>4, <1>4 DEF StartClient, Inv, TypeOK, LinksAreOfTheLiving
<1>6. AllCompatible'
  <2> SUFFICES ASSUME NEW d \in Client, NEW s \in Server,
                      NEW k \in ClientMayRun(d)', NEW p \in ServerMayRun(s)'
               PROVE  Compatible(k, p)
    BY DEF AllCompatible
  <2>1. k \in ClientMayRun(d)
    BY <1>2, <1>3, DownIsNoSection DEF ClientMayRun, StartClient
  <2>2. p \in ServerMayRun(s)
    BY <1>2, RolloutAssumption DEF ServerMayRun, StartClient
  <2> QED BY <2>1, <2>2 DEF Inv, AllCompatible
<1>7. PingsAreWelcome'
  BY <1>1 DEF Inv, PingsAreWelcome, NoLink
<1> QED BY <1>4, <1>5, <1>6, <1>7 DEF Inv

LEMMA StartServerInv ==
    ASSUME Inv, NEW s \in Server, StartServer(s)
    PROVE  Inv'
<1>1. \A l \in Client \X Server : link'[l] = IF l[2] = s THEN NoLink ELSE link[l]
  BY DEF StartServer, Inv, TypeOK
<1>2. \A x \in Client \cup Server : x # s => running'[x] = running[x]
  BY DEF StartServer, Inv, TypeOK
<1>3. running'[s] \in ({deployed[s]} \cap ValidServerSection) \cup {Down}
  BY DEF StartServer, Inv, TypeOK, ValidServerSection
<1>4. LinksAreOfTheLiving'
  BY <1>1, <1>2, RolloutAssumption DEF Inv, LinksAreOfTheLiving, NoLink
<1>5. TypeOK'
  <2>1. running' \in [Client \cup Server -> ValidClientSection \cup ValidServerSection \cup {Down}]
    BY <1>3 DEF StartServer, Inv, TypeOK, ValidServerSection
  <2>2. link' \in [Client \X Server -> [is : {"none", "open", "lost", "banned"},
                                        pinged : BOOLEAN, strikes : Nat]]
    BY DEF StartServer, Inv, TypeOK, NoLink
  <2>3. \A t \in Server : running'[t] \in ValidServerSection \cup {Down}
    BY <1>2, <1>3 DEF Inv, TypeOK
  <2>4. \A c \in Client : running'[c] \in ValidClientSection \cup {Down}
    BY <1>2, RolloutAssumption DEF Inv, TypeOK
  <2> QED BY <2>1, <2>2, <2>3, <2>4, <1>4 DEF StartServer, Inv, TypeOK, LinksAreOfTheLiving
<1>6. AllCompatible'
  <2> SUFFICES ASSUME NEW c \in Client, NEW t \in Server,
                      NEW k \in ClientMayRun(c)', NEW p \in ServerMayRun(t)'
               PROVE  Compatible(k, p)
    BY DEF AllCompatible
  <2>1. k \in ClientMayRun(c)
    BY <1>2, RolloutAssumption DEF ClientMayRun, StartServer
  <2>2. p \in ServerMayRun(t)
    BY <1>2, <1>3, DownIsNoSection DEF ServerMayRun, StartServer
  <2> QED BY <2>1, <2>2 DEF Inv, AllCompatible
<1>7. PingsAreWelcome'
  BY <1>1 DEF Inv, PingsAreWelcome, NoLink
<1> QED BY <1>4, <1>5, <1>6, <1>7 DEF Inv

-----------------------------------------------------------------------------
(* Connections *)

\* A client pings only as often, and only as idle, as a compatible server takes.
LEMMA PingIsNotEarly ==
    ASSUME Inv, NEW c \in Client, NEW s \in Server, NEW streams \in BOOLEAN,
           link[<<c, s>>].is = "open", MayPing(c, streams)
    PROVE  ~ Early(c, s, streams)
<1> DEFINE k == running[c]
           p == running[s]
<1>1. k \in ValidClientSection /\ p \in ValidServerSection
  BY DEF Inv, TypeOK, LinksAreOfTheLiving
<1>2. Compatible(k, p)
  BY <1>1 DEF Inv, AllCompatible, ClientMayRun, ServerMayRun
<1>3. k # Absent /\ k.enable
  BY DEF MayPing, Keepalive, ClientKeepaliveParameters, Off
<1>4. k.time \in Int
  BY <1>1, <1>3, RolloutAssumption, KeepaliveAssumption
  DEF ValidClientSection, ClientKeepaliveValid, PositiveDuration, Client_Keepalive, OptionalDuration
<1>5. MinTime(p) \in Int
  <2>1. CASE p = Absent \/ ~ p.enable
    BY <2>1 DEF MinTime, ServerKeepaliveEnforcementPolicy, Off, DefaultMinTime
  <2>2. CASE p # Absent /\ p.enable
    <3>1. p.min_time \in Int
      BY <1>1, <2>2, RolloutAssumption, KeepaliveAssumption
      DEF ValidServerSection, ServerPolicyValid, PositiveDuration,
          Server_KeepaliveEnforcementPolicy, OptionalDuration
    <3> QED BY <2>2, <3>1 DEF MinTime, ServerKeepaliveEnforcementPolicy
  <2> QED BY <2>1, <2>2
<1>6. k.time >= MinTime(p)
  BY <1>1, <1>2, <1>3, RolloutAssumption
  DEF Compatible, MinTime, ServerKeepaliveEnforcementPolicy, Off, ValidServerSection,
      Server_KeepaliveEnforcementPolicy
<1>7. ~ streams => Permits(p)
  BY <1>1, <1>2, <1>3, RolloutAssumption
  DEF MayPing, Keepalive, ClientKeepaliveParameters, Compatible, Permits,
      ServerKeepaliveEnforcementPolicy, ValidServerSection, Server_KeepaliveEnforcementPolicy
<1>8. Keepalive(k).time = k.time
  BY <1>3 DEF Keepalive, ClientKeepaliveParameters
<1> QED BY <1>4, <1>5, <1>6, <1>7, <1>8 DEF Early

\* A step that changes one connection, between two instances that run.
LEMMA LinkStepInv ==
    ASSUME Inv, NEW c \in Client, NEW s \in Server,
           NEW l \in [is : {"none", "open", "lost"}, pinged : BOOLEAN, strikes : {0}],
           running[c] # Down, running[s] # Down,
           link' = [link EXCEPT ![<<c, s>>] = l], UNCHANGED <<deployed, running>>
    PROVE  Inv'
<1>1. TypeOK'
  BY DEF Inv, TypeOK
<1>2. AllCompatible'
  BY DEF Inv, AllCompatible, ClientMayRun, ServerMayRun
<1>3. LinksAreOfTheLiving'
  BY DEF Inv, TypeOK, LinksAreOfTheLiving
<1>4. PingsAreWelcome'
  BY DEF Inv, TypeOK, PingsAreWelcome
<1> QED BY <1>1, <1>2, <1>3, <1>4 DEF Inv

LEMMA PingInv ==
    ASSUME Inv, NEW c \in Client, NEW s \in Server, Ping(c, s)
    PROVE  Inv'
<1>1. link[<<c, s>>].is = "open" /\ link[<<c, s>>].strikes = 0
  BY DEF Ping, Inv, PingsAreWelcome
<1> DEFINE l == [is |-> "open", pinged |-> TRUE, strikes |-> 0]
<1>2. link' = [link EXCEPT ![<<c, s>>] = l]
  <2>1. PICK streams \in BOOLEAN :
          /\ MayPing(c, streams)
          /\ LET strikes == link[<<c, s>>].strikes
                            + (IF link[<<c, s>>].pinged /\ Early(c, s, streams) THEN 1 ELSE 0)
             IN  link' = [link EXCEPT ![<<c, s>>] =
                      [is |-> IF strikes > MaxPingStrikes THEN "banned" ELSE "open",
                       pinged |-> TRUE, strikes |-> strikes]]
    BY DEF Ping
  <2>2. ~ Early(c, s, streams)
    BY <1>1, <2>1, PingIsNotEarly
  <2> QED BY <1>1, <2>1, <2>2 DEF MaxPingStrikes
<1>3. running[c] # Down /\ running[s] # Down
  BY <1>1 DEF Inv, LinksAreOfTheLiving
<1>4. l \in [is : {"none", "open", "lost"}, pinged : BOOLEAN, strikes : {0}]
  OBVIOUS
<1> HIDE DEF l
<1> QED BY <1>2, <1>3, <1>4, LinkStepInv DEF Ping

LEMMA LinkInv ==
    ASSUME Inv, NEW c \in Client, NEW s \in Server, NEW streams \in BOOLEAN,
           \/ Connect(c, s) \/ ServerSends(c, s) \/ Vanish(c, s) \/ Notice(c, s, streams)
    PROVE  Inv'
<1>1. link[<<c, s>>] \in [is : {"none", "open", "lost"}, pinged : BOOLEAN, strikes : {0}]
  BY DEF Inv, TypeOK, PingsAreWelcome
<1>2. CASE Connect(c, s)
  BY <1>2, LinkStepInv DEF Connect, NewLink
<1>3. CASE ServerSends(c, s)
  BY <1>3, LinkStepInv DEF ServerSends, NewLink, Inv, LinksAreOfTheLiving
<1>4. CASE Vanish(c, s)
  <2> DEFINE l == [link[<<c, s>>] EXCEPT !.is = "lost"]
  <2>1. l \in [is : {"none", "open", "lost"}, pinged : BOOLEAN, strikes : {0}]
    BY <1>1
  <2>2. link' = [link EXCEPT ![<<c, s>>] = l]
    BY <1>4 DEF Vanish
  <2>3. running[c] # Down /\ running[s] # Down
    BY <1>4 DEF Vanish, Inv, LinksAreOfTheLiving
  <2> HIDE DEF l
  <2> QED BY <2>1, <2>2, <2>3, <1>4, LinkStepInv DEF Vanish
<1>5. CASE Notice(c, s, streams)
  BY <1>5, LinkStepInv DEF Notice, NoLink, Inv, LinksAreOfTheLiving
<1> QED BY <1>2, <1>3, <1>4, <1>5

-----------------------------------------------------------------------------
LEMMA NextInv == Inv /\ [Next]_vars => Inv'
<1> SUFFICES ASSUME Inv, [Next]_vars PROVE Inv'
  OBVIOUS
<1>1. CASE UNCHANGED vars
  BY <1>1
  DEF vars, Inv, TypeOK, AllCompatible, ClientMayRun, ServerMayRun, LinksAreOfTheLiving,
      PingsAreWelcome
<1>2. ASSUME NEW c \in Client, StartClient(c) \/ \E k \in ClientSection : DeployClient(c, k)
      PROVE  Inv'
  BY <1>2, StartClientInv, DeployClientInv
<1>3. ASSUME NEW s \in Server, StartServer(s) \/ \E p \in ServerSection : DeployServer(s, p)
      PROVE  Inv'
  BY <1>3, StartServerInv, DeployServerInv
<1>4. ASSUME NEW c \in Client, NEW s \in Server,
             \/ Connect(c, s) \/ Ping(c, s) \/ ServerSends(c, s) \/ Vanish(c, s)
             \/ \E streams \in BOOLEAN : Notice(c, s, streams)
      PROVE  Inv'
  BY <1>4, PingInv, LinkInv
<1> QED BY <1>1, <1>2, <1>3, <1>4 DEF Next

\* Sections stay compatible across every mixture of old and new instances.
THEOREM Invariance == Spec => []Inv
BY InitInv, NextInv, PTL DEF Spec, SafetySpec

\* Type correctness, for any deployments and sections.
THEOREM TypeCorrect == Spec => []TypeOK
<1>1. Inv => TypeOK
  BY DEF Inv
<1> QED BY <1>1, Invariance, PTL

\* No client is ever banned, nor comes near it: the operators keep the order of
\* README.md:260, grpc.go:335-375 does the rest.
THEOREM PingsAreWelcomeTheorem == Spec => []PingsAreWelcome
<1>1. Inv => PingsAreWelcome
  BY DEF Inv
<1> QED BY <1>1, Invariance, PTL
-----------------------------------------------------------------------------
(* A pair: the limits *)

\* The limit is the one that was configured exactly if it is below 2 GB: the product
\* of the code is an int32 (grpc.go:62,244).
LEMMA LimitIsConfigured ==
    ASSUME NEW max \in Int
    PROVE  MsgSize(max) \in Int /\ (MsgSize(max) = Configured(max) <=> max < 2048)
<1>1. max % 4096 \in 0..4095
  OBVIOUS
<1>2. CASE max > 0 /\ max < 2048
  <2>1. max % 4096 = max
    BY <1>2
  <2> QED BY <1>2, <2>1 DEF MsgSize, Int32, Configured, defaultMsgSize
<1>3. CASE max >= 2048
  <2>1. Int32(max) \in Int /\ Int32(max) < 2048
    BY <1>1 DEF Int32
  <2> QED BY <1>3, <2>1 DEF MsgSize, Configured
<1>4. CASE max <= 0
  BY <1>4 DEF MsgSize, Configured, defaultMsgSize
<1> QED BY <1>2, <1>3, <1>4

LEMMA SizesAreIntegers == Size \subseteq Int
BY TransportAssumption

LEMMA LimitsAreConfigured ==
    ASSUME \A size \in Size : size < 2048, NEW size \in Size
    PROVE  MsgSize(size) = Configured(size)
BY LimitIsConfigured, SizesAreIntegers

-----------------------------------------------------------------------------
(* A pair: what a constructor made of its configuration *)

\* A client that exists has a section, and the section is valid.
LEMMA CreatedClient ==
    ASSUME NEW cfg \in ClientConfigs, ClientOutcome(cfg) = "created"
    PROVE  /\ cfg \in Client_GRPC
           /\ ClientKeepaliveValid(cfg.keepalive) /\ ClientTLSLoads(cfg.tls)
<1>1. cfg # Absent
  BY DEF ClientOutcome
<1> QED BY <1>1, PairAssumption DEF ClientOutcome

LEMMA CreatedServer ==
    ASSUME NEW cfg \in ServerConfigs, ServerOutcome(cfg) = "created"
    PROVE  /\ cfg \in Server_GRPC
           /\ ServerPolicyValid(cfg.keepalive_enforcement_policy) /\ ServerTLSLoads(cfg.tls)
<1>1. cfg # Absent
  BY DEF ServerOutcome
<1> QED BY <1>1, PairAssumption DEF ServerOutcome

\* The keepalive section of a client that exists is used as it stands, and grpc-go
\* takes it as it stands.
LEMMA ClientKeepaliveIs ==
    ASSUME NEW k \in Client_Keepalive \cup {Absent}, ClientKeepaliveValid(k)
    PROVE  LET p == ClientKeepaliveParameters(k)
           IN  /\ k # Absent => p = (IF k.enable
                    THEN [enabled |-> TRUE, time |-> k.time, timeout |-> k.timeout,
                          permit |-> k.permit_without_stream]
                    ELSE Off)
               /\ p.enabled => p.time >= minimumClientKeepaliveTime /\ p.timeout \in Duration
<1>1. CASE k = Absent \/ ~ k.enable
  BY <1>1 DEF ClientKeepaliveParameters, Off
<1>2. CASE k # Absent /\ k.enable
  <2>1. /\ ClientKeepaliveParameters(k) =
              [enabled |-> TRUE, time |-> k.time, timeout |-> k.timeout,
               permit |-> k.permit_without_stream]
        /\ k.time >= minimumClientKeepaliveTime
    BY <1>2 DEF ClientKeepaliveParameters, ClientKeepaliveValid
  <2>2. k.timeout \in Duration
    BY <1>2 DEF ClientKeepaliveValid, PositiveDuration, Client_Keepalive, OptionalDuration
  <2> QED BY <1>2, <2>1, <2>2
<1> QED BY <1>1, <1>2

LEMMA ServerPolicyIs ==
    ASSUME NEW p \in Server_KeepaliveEnforcementPolicy \cup {Absent}, ServerPolicyValid(p)
    PROVE  LET e == ServerKeepaliveEnforcementPolicy(p) IN e.enabled => e.min_time > 0
<1>1. CASE p = Absent \/ ~ p.enable
  BY <1>1 DEF ServerKeepaliveEnforcementPolicy, Off
<1>2. CASE p # Absent /\ p.enable
  BY <1>2 DEF ServerKeepaliveEnforcementPolicy, ServerPolicyValid, PositiveDuration
<1> QED BY <1>1, <1>2

\* Either there is no TLS, or the peer is verified against the authority of the section.
LEMMA ClientTLSIs ==
    ASSUME NEW t \in Client_TLS \cup {Absent}
    PROVE  \/ ClientTLS(t).on = FALSE
           \/ /\ ClientTLS(t).on = TRUE
              /\ ClientTLS(t).rootCAs = Default(t.ca_file, defaultCaFile)
              /\ ServerName(t) = Default(t.server_name, defaultServerName)
BY DEF ClientTLS, Plain, NewTLSConfig, ServerName

LEMMA ServerTLSIs ==
    ASSUME NEW t \in Server_TLS \cup {Absent}
    PROVE  \/ ServerTLS(t).on = FALSE
           \/ /\ ServerTLS(t).on = TRUE /\ ServerTLS(t).clientAuth = TRUE
              /\ ServerTLS(t).clientCAs = Default(t.ca_file, defaultCaFile)
BY DEF ServerTLS, Plain, NewTLSConfig

-----------------------------------------------------------------------------
(* A pair: its states *)

ClientResult ==
    IF ClientOutcome(cc) = "created" THEN [is |-> "created", opts |-> ClientOptions(cc)]
    ELSE [is |-> ClientOutcome(cc)]

ServerResult ==
    IF ServerOutcome(sc) = "created" THEN [is |-> "created", opts |-> ServerOptions(sc)]
    ELSE [is |-> ServerOutcome(sc)]

CallOutcome(request, reply) ==
    IF server.is # "created" THEN "no connection"
    ELSE IF ~ Handshake(client.opts, server.opts) THEN "no connection"
    ELSE IF /\ {request, reply} \subseteq 0..client.opts.limit
            /\ {request, reply} \subseteq 0..server.opts.limit
         THEN "answered" ELSE "too large"

\* Whatever the order of the three steps, each result is the one its own
\* configuration calls for, and the call that of both ends as they are now.
PairInv ==
    /\ cc \in ClientConfigs /\ sc \in ServerConfigs
    /\ client \in {Nothing, ClientResult}
    /\ server \in {Nothing, ServerResult}
    /\ \/ call = Nothing
       \/ /\ client.is = "created" /\ server # Nothing
          /\ \E request, reply \in Payload :
                call = [request |-> request, reply |-> reply,
                        is |-> CallOutcome(request, reply)]

LEMMA PairInitInv == PairInit => PairInv
BY DEF PairInit, PairInv

LEMMA PairNextInv == PairInv /\ [PairNext]_pairVars => PairInv'
<1> SUFFICES ASSUME PairInv, [PairNext]_pairVars PROVE PairInv'
  OBVIOUS
<1>1. CASE UNCHANGED pairVars
  BY <1>1 DEF pairVars, PairInv, ClientResult, ServerResult, CallOutcome
<1>2. CASE CreateGrpcClient
  <2>1. client = Nothing /\ client' = ClientResult /\ UNCHANGED <<cc, sc, server, call>>
    BY <1>2 DEF CreateGrpcClient, ClientResult
  <2>2. call = Nothing
    BY <2>1 DEF PairInv, Nothing
  <2> QED BY <2>1, <2>2 DEF PairInv, ClientResult, ServerResult
<1>3. CASE CreateGrpcServer
  <2>1. server = Nothing /\ server' = ServerResult /\ UNCHANGED <<cc, sc, client, call>>
    BY <1>3 DEF CreateGrpcServer, ServerResult
  <2>2. call = Nothing
    BY <2>1 DEF PairInv
  <2> QED BY <2>1, <2>2 DEF PairInv, ClientResult, ServerResult
<1>4. ASSUME NEW request \in Payload, NEW reply \in Payload, Call(request, reply)
      PROVE  PairInv'
  <2>1. /\ call' = [request |-> request, reply |-> reply, is |-> CallOutcome(request, reply)]
        /\ client.is = "created" /\ server # Nothing /\ UNCHANGED <<cc, sc, client, server>>
    BY <1>4 DEF Call, CallOutcome
  <2> QED BY <2>1 DEF PairInv, ClientResult, ServerResult, CallOutcome
<1> QED BY <1>1, <1>2, <1>3, <1>4 DEF PairNext

\* The state of a pair is what the two configurations and the sizes determine.
THEOREM PairInvariance == PairSpec => []PairInv
BY PairInitInv, PairNextInv, PTL DEF PairSpec

\* What a client that exists looks like.
LEMMA ClientIs ==
    ASSUME PairInv, client.is = "created"
    PROVE  /\ cc \in Client_GRPC /\ ClientKeepaliveValid(cc.keepalive)
           /\ client.opts.limit = MsgSize(cc.max_msg_size)
           /\ client.opts.tls = ClientTLS(cc.tls) /\ client.opts.name = ServerName(cc.tls)
           /\ client.opts.keepalive = ClientKeepaliveParameters(cc.keepalive)
<1>1. client # Nothing
  BY DEF Nothing
<1>2. ClientOutcome(cc) = "created"
  BY <1>1 DEF PairInv, ClientResult
<1>3. client.opts = ClientOptions(cc)
  BY <1>1, <1>2 DEF PairInv, ClientResult
<1>4. /\ client.opts.limit = MsgSize(cc.max_msg_size)
      /\ client.opts.tls = ClientTLS(cc.tls) /\ client.opts.name = ServerName(cc.tls)
      /\ client.opts.keepalive = ClientKeepaliveParameters(cc.keepalive)
  BY <1>3 DEF ClientOptions
<1> QED BY <1>2, <1>4, CreatedClient DEF PairInv

LEMMA ServerIs ==
    ASSUME PairInv, server.is = "created"
    PROVE  /\ sc \in Server_GRPC /\ ServerPolicyValid(sc.keepalive_enforcement_policy)
           /\ server.opts.limit = MsgSize(sc.max_msg_size)
           /\ server.opts.tls = ServerTLS(sc.tls)
           /\ server.opts.policy =
                  ServerKeepaliveEnforcementPolicy(sc.keepalive_enforcement_policy)
<1>1. server # Nothing
  BY DEF Nothing
<1>2. ServerOutcome(sc) = "created"
  BY <1>1 DEF PairInv, ServerResult
<1>3. server.opts = ServerOptions(sc)
  BY <1>1, <1>2 DEF PairInv, ServerResult
<1>4. /\ server.opts.limit = MsgSize(sc.max_msg_size)
      /\ server.opts.tls = ServerTLS(sc.tls)
      /\ server.opts.policy =
             ServerKeepaliveEnforcementPolicy(sc.keepalive_enforcement_policy)
  BY <1>3 DEF ServerOptions
<1> QED BY <1>2, <1>4, CreatedServer DEF PairInv

\* A call that was answered or refused met two ends that exist and shook hands.
LEMMA CallIs ==
    ASSUME PairInv, call # Nothing
    PROVE  /\ call.is \in {"answered", "too large", "no connection"}
           /\ call.request \in Nat /\ call.reply \in Nat
           /\ client.is = "created"
           /\ call.is # "no connection" =>
                /\ server.is = "created" /\ Handshake(client.opts, server.opts)
                /\ call.is = "answered" <=>
                    /\ call.request <= client.opts.limit /\ call.reply <= client.opts.limit
                    /\ call.request <= server.opts.limit /\ call.reply <= server.opts.limit
<1>1. PICK request \in Payload, reply \in Payload :
        call = [request |-> request, reply |-> reply, is |-> CallOutcome(request, reply)]
  BY DEF PairInv
<1>2. call.request = request /\ call.reply = reply /\ call.is = CallOutcome(request, reply)
  BY <1>1
<1>3. request \in Nat /\ reply \in Nat
  BY PairAssumption
<1>4. client.is = "created"
  BY DEF PairInv
<1>5. CASE server.is # "created" \/ ~ Handshake(client.opts, server.opts)
  BY <1>2, <1>3, <1>4, <1>5 DEF CallOutcome
<1>6. CASE server.is = "created" /\ Handshake(client.opts, server.opts)
  <2>1. client.opts.limit \in Int /\ server.opts.limit \in Int
    <3>1. cc.max_msg_size \in Int /\ sc.max_msg_size \in Int
      BY <1>4, <1>6, ClientIs, ServerIs, TransportAssumption DEF Client_GRPC, Server_GRPC
    <3>2. client.opts.limit = MsgSize(cc.max_msg_size)
          /\ server.opts.limit = MsgSize(sc.max_msg_size)
      BY <1>4, <1>6, ClientIs, ServerIs
    <3> QED BY <3>1, <3>2, LimitIsConfigured
  <2>2. call.is = IF /\ {request, reply} \subseteq 0..client.opts.limit
                     /\ {request, reply} \subseteq 0..server.opts.limit
                  THEN "answered" ELSE "too large"
    BY <1>2, <1>6 DEF CallOutcome
  <2>3. (/\ {request, reply} \subseteq 0..client.opts.limit
         /\ {request, reply} \subseteq 0..server.opts.limit)
        <=> (/\ request <= client.opts.limit /\ reply <= client.opts.limit
             /\ request <= server.opts.limit /\ reply <= server.opts.limit)
    BY <1>3, <2>1
  <2> QED BY <1>2, <1>3, <1>4, <1>6, <2>2, <2>3
<1> QED BY <1>5, <1>6

-----------------------------------------------------------------------------
(* A pair: its properties *)

LEMMA PairSizes ==
    ASSUME PairInv, \A size \in Size : MsgSize(size) = Configured(size)
    PROVE  SizesAreHonoured
<1> SUFFICES ASSUME call # Nothing, call.is # "no connection"
             PROVE  call.is = "answered" <=> Fits(cc.max_msg_size) /\ Fits(sc.max_msg_size)
  BY CallIs DEF SizesAreHonoured
<1>1. client.is = "created" /\ server.is = "created"
  BY CallIs
<1>2. cc.max_msg_size \in Size /\ sc.max_msg_size \in Size
  BY <1>1, ClientIs, ServerIs DEF Client_GRPC, Server_GRPC
<1>3. client.opts.limit = MsgSize(cc.max_msg_size)
      /\ server.opts.limit = MsgSize(sc.max_msg_size)
  BY <1>1, ClientIs, ServerIs
<1>4. client.opts.limit = Configured(cc.max_msg_size)
      /\ server.opts.limit = Configured(sc.max_msg_size)
  BY <1>2, <1>3
<1>5. call.is = "answered" <=>
          /\ call.request <= client.opts.limit /\ call.reply <= client.opts.limit
          /\ call.request <= server.opts.limit /\ call.reply <= server.opts.limit
  BY CallIs
<1> QED BY <1>4, <1>5 DEF Fits

\* Sizes are honoured in both directions at both ends, whatever the two configurations,
\* as long as no limit reaches 2 GB (grpc.go:62,244; README.md:235).  From there on,
\* LimitIsConfigured says, the limit is another one.
THEOREM SizesAreHonouredTheorem ==
    ASSUME \A size \in Size : size < 2048
    PROVE  PairSpec => []SizesAreHonoured
<1>1. \A size \in Size : MsgSize(size) = Configured(size)
  BY LimitsAreConfigured
<1>2. PairInv => SizesAreHonoured
  BY <1>1, PairSizes
<1> QED BY <1>2, PairInvariance, PTL

LEMMA PairTypes == PairInv => PairTypeOK
<1> SUFFICES ASSUME PairInv PROVE PairTypeOK
  OBVIOUS
<1>1. /\ client.is \in {"nothing", "panic", "exit", "created"}
      /\ server.is \in {"nothing", "panic", "exit", "created"}
  BY DEF PairInv, Nothing, ClientResult, ServerResult, ClientOutcome, ServerOutcome
<1>2. ASSUME client.is = "created"
      PROVE  /\ client.opts.limit \in Int
             /\ client.opts.keepalive.enabled => client.opts.keepalive.timeout \in Duration
  <2>1. /\ client.opts.limit = MsgSize(cc.max_msg_size)
        /\ client.opts.keepalive = ClientKeepaliveParameters(cc.keepalive)
    BY <1>2, ClientIs
  <2>2. /\ cc.max_msg_size \in Int /\ cc.keepalive \in Client_Keepalive \cup {Absent}
        /\ ClientKeepaliveValid(cc.keepalive)
    BY <1>2, ClientIs, TransportAssumption DEF Client_GRPC
  <2> QED BY <2>1, <2>2, LimitIsConfigured, ClientKeepaliveIs
<1>3. ASSUME server.is = "created"
      PROVE  /\ server.opts.limit \in Int
             /\ server.opts.policy.enabled => server.opts.policy.min_time > 0
  <2>1. /\ server.opts.limit = MsgSize(sc.max_msg_size)
        /\ server.opts.policy = ServerKeepaliveEnforcementPolicy(sc.keepalive_enforcement_policy)
    BY <1>3, ServerIs
  <2>2. /\ sc.max_msg_size \in Int
        /\ sc.keepalive_enforcement_policy \in Server_KeepaliveEnforcementPolicy \cup {Absent}
        /\ ServerPolicyValid(sc.keepalive_enforcement_policy)
    BY <1>3, ServerIs, TransportAssumption DEF Server_GRPC
  <2> QED BY <2>1, <2>2, LimitIsConfigured, ServerPolicyIs
<1>4. call = Nothing \/ call.is \in {"answered", "too large", "no connection"}
  BY CallIs
<1> QED BY <1>1, <1>2, <1>3, <1>4 DEF PairTypeOK, PairInv

LEMMA PairKeepalive == PairInv => NoSilentFallback
<1> SUFFICES ASSUME PairInv PROVE NoSilentFallback
  OBVIOUS
<1>1. ASSUME client.is = "created"
      PROVE  /\ cc.keepalive # Absent =>
                 client.opts.keepalive =
                    (IF cc.keepalive.enable
                     THEN [enabled |-> TRUE, time |-> cc.keepalive.time,
                           timeout |-> cc.keepalive.timeout,
                           permit |-> cc.keepalive.permit_without_stream]
                     ELSE Off)
             /\ client.opts.keepalive.enabled =>
                 client.opts.keepalive.time >= minimumClientKeepaliveTime
  <2>1. client.opts.keepalive = ClientKeepaliveParameters(cc.keepalive)
    BY <1>1, ClientIs
  <2>2. cc.keepalive \in Client_Keepalive \cup {Absent} /\ ClientKeepaliveValid(cc.keepalive)
    BY <1>1, ClientIs DEF Client_GRPC
  <2> QED BY <2>1, <2>2, ClientKeepaliveIs
<1>2. server.is = "created" /\ server.opts.policy.enabled => server.opts.policy.min_time > 0
  BY PairTypes DEF PairTypeOK
<1> QED BY <1>1, <1>2 DEF NoSilentFallback

LEMMA PairPeers == PairInv => PeersAreVerified
<1> SUFFICES ASSUME PairInv, call # Nothing, call.is \in {"answered", "too large"}
             PROVE  /\ client.opts.tls.on = server.opts.tls.on
                    /\ server.opts.tls.on =>
                        /\ Issuer[client.opts.tls.cert] = Default(sc.tls.ca_file, defaultCaFile)
                        /\ Issuer[server.opts.tls.cert] = Default(cc.tls.ca_file, defaultCaFile)
                        /\ NameOf[server.opts.tls.cert] =
                               Default(cc.tls.server_name, defaultServerName)
  BY DEF PeersAreVerified
<1>1. client.is = "created" /\ server.is = "created" /\ Handshake(client.opts, server.opts)
  BY CallIs
<1>2. /\ client.opts.tls = ClientTLS(cc.tls) /\ client.opts.name = ServerName(cc.tls)
      /\ server.opts.tls = ServerTLS(sc.tls)
  BY <1>1, ClientIs, ServerIs
<1>3. cc.tls \in Client_TLS \cup {Absent} /\ sc.tls \in Server_TLS \cup {Absent}
  BY <1>1, ClientIs, ServerIs DEF Client_GRPC, Server_GRPC
<1>4. \/ client.opts.tls.on = FALSE
      \/ /\ client.opts.tls.on = TRUE
         /\ client.opts.tls.rootCAs = Default(cc.tls.ca_file, defaultCaFile)
         /\ client.opts.name = Default(cc.tls.server_name, defaultServerName)
  BY <1>2, <1>3, ClientTLSIs
<1>5. \/ server.opts.tls.on = FALSE
      \/ /\ server.opts.tls.on = TRUE /\ server.opts.tls.clientAuth = TRUE
         /\ server.opts.tls.clientCAs = Default(sc.tls.ca_file, defaultCaFile)
  BY <1>2, <1>3, ServerTLSIs
<1> QED BY <1>1, <1>4, <1>5 DEF Handshake

\* Both ends are what their sections say, and meet only a peer their section trusts, or
\* there is no connection (grpc.go:335-412), for any two configurations.
THEOREM PairIsSoundTheorem == PairSpec => []PairIsSound
<1>1. PairInv => PairIsSound
  BY PairTypes, PairKeepalive, PairPeers DEF PairIsSound
<1> QED BY <1>1, PairInvariance, PTL
=============================================================================
