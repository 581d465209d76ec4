---------------------------- MODULE GrpcTransport ----------------------------
(***************************************************************************)
(* The transport options of CreateGrpcClient and CreateGrpcServer          *)
(* (src/rpc/grpc.go): message sizes, keepalive and TLS of a client and of  *)
(* a server created from any two configurations, and the calls they make.  *)
(*                                                                         *)
(* Sizes are in MB, which loses nothing: the code computes them in int32,  *)
(* and m * 2^20 modulo 2^32 is (m modulo 2^12) * 2^20.                     *)
(***************************************************************************)
EXTENDS GrpcKeepalive

CONSTANTS
    Size,           \* the sizes that occur, in MB
    File,           \* the file names that occur, and the server names
    Readable,       \* the files that can be read and parsed
    Issuer,         \* the CA file that verifies a certificate file
    NameOf          \* the server name a certificate file is for

defaultMsgSize == 16
defaultCaFile == "ca.crt"
defaultServerCertFile == "server.crt"
defaultClientCertFile == "client.crt"
defaultServerName == "localhost"

ASSUME TransportAssumption ==
    /\ Size \subseteq Int
    /\ {"", defaultCaFile, defaultServerCertFile, defaultClientCertFile,
        defaultServerName} \subseteq File
    /\ Readable \subseteq File /\ "" \notin Readable
    /\ Issuer \in [File -> File] /\ NameOf \in [File -> File]

-----------------------------------------------------------------------------
(* The configuration messages *)

Client_TLS == [enable : BOOLEAN, cert_file : File, key_file : File, ca_file : File,
               server_name : File]

Server_TLS == [enable : BOOLEAN, cert_file : File, key_file : File, ca_file : File]

Client_GRPC == [max_msg_size : Size, keepalive : Client_Keepalive \cup {Absent},
                tls : Client_TLS \cup {Absent}]

Server_GRPC == [max_msg_size : Size, tls : Server_TLS \cup {Absent},
                keepalive_enforcement_policy :
                    Server_KeepaliveEnforcementPolicy \cup {Absent}]

-----------------------------------------------------------------------------
(* Message sizes *)

\* The product of three int32 values is an int32.
Int32(mb) == IF mb % 4096 >= 2048 THEN (mb % 4096) - 4096 ELSE mb % 4096

\* Faulty variant: the unit is forgotten on the way.
MsgSizeInKB(max) == IF max > 0 THEN max \div 1024 ELSE defaultMsgSize

MsgSize(max) == IF max > 0 THEN Int32(max) ELSE defaultMsgSize

-----------------------------------------------------------------------------
(* TLS *)

Default(file, default) == IF file = "" THEN default ELSE file

\* newTLSConfig returns no error: key pair and CA can be read and parsed.
TLSConfigLoads(cert, key, ca) == {cert, key, ca} \subseteq Readable

\* Faulty variant: the peer is not asked for a certificate.
NewTLSConfigOneWay(cert, ca) ==
    [on |-> TRUE, cert |-> cert, rootCAs |-> ca, clientCAs |-> ca, clientAuth |-> FALSE]

\* One pool of authorities verifies servers and, always, clients.
NewTLSConfig(cert, ca) ==
    [on |-> TRUE, cert |-> cert, rootCAs |-> ca, clientCAs |-> ca, clientAuth |-> TRUE]

Plain == [on |-> FALSE]

ClientTLS(t) ==
    IF t = Absent \/ ~ t.enable THEN Plain
    ELSE NewTLSConfig(Default(t.cert_file, defaultClientCertFile),
                      Default(t.ca_file, defaultCaFile))

ClientTLSLoads(t) ==
    t # Absent /\ t.enable =>
        TLSConfigLoads(Default(t.cert_file, defaultClientCertFile), t.key_file,
                       Default(t.ca_file, defaultCaFile))

ServerTLS(t) ==
    IF t = Absent \/ ~ t.enable THEN Plain
    ELSE NewTLSConfig(Default(t.cert_file, defaultServerCertFile),
                      Default(t.ca_file, defaultCaFile))

ServerTLSLoads(t) ==
    t # Absent /\ t.enable =>
        TLSConfigLoads(Default(t.cert_file, defaultServerCertFile), t.key_file,
                       Default(t.ca_file, defaultCaFile))

ServerName(t) == IF t = Absent \/ ~ t.enable THEN "" ELSE Default(t.server_name, defaultServerName)

-----------------------------------------------------------------------------
(* The constructors: what each does with a configuration *)

\* cfg.Client.Grpc is dereferenced before it is tested (grpc.go:46), while the
\* constructor can tell the operator of every other fault.
ClientOutcome(cfg) ==
    IF cfg = Absent THEN "panic"
    ELSE IF ClientKeepaliveValid(cfg.keepalive) /\ ClientTLSLoads(cfg.tls) THEN "created"
    ELSE "exit"

\* So is cfg.Server.Grpc once the middlewares are chosen (grpc.go:244).
ServerOutcome(cfg) ==
    IF cfg = Absent THEN "panic"
    ELSE IF ServerPolicyValid(cfg.keepalive_enforcement_policy) /\ ServerTLSLoads(cfg.tls)
         THEN "created"
    ELSE "exit"

ClientOptions(cfg) ==
    [limit |-> MsgSize(cfg.max_msg_size), tls |-> ClientTLS(cfg.tls),
     name |-> ServerName(cfg.tls), keepalive |-> ClientKeepaliveParameters(cfg.keepalive)]

ServerOptions(cfg) ==
    [limit |-> MsgSize(cfg.max_msg_size), tls |-> ServerTLS(cfg.tls),
     policy |-> ServerKeepaliveEnforcementPolicy(cfg.keepalive_enforcement_policy)]

\* The handshake of crypto/tls, in both directions.
Handshake(c, s) ==
    \/ ~ c.tls.on /\ ~ s.tls.on
    \/ /\ c.tls.on /\ s.tls.on
       /\ Issuer[s.tls.cert] = c.tls.rootCAs /\ NameOf[s.tls.cert] = c.name
       /\ s.tls.clientAuth => Issuer[c.tls.cert] = s.tls.clientCAs

=============================================================================
