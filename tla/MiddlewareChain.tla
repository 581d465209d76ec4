---------------------------- MODULE MiddlewareChain ----------------------------
(***************************************************************************)
(* The middleware chains that the constructors of clients and servers      *)
(* build from a configuration (rpc/http.go, rpc/grpc.go), and the way of   *)
(* requests through them: down to the handler, and up again with a reply,  *)
(* an error or a panic.  A client that times out goes back without waiting *)
(* for the server, which goes on; the timeout of a server only cancels the *)
(* context its handler gets.                                               *)
(*                                                                         *)
(* The first middleware appended is the outermost one.  The metadata       *)
(* middleware only copies headers and is left out.                         *)
(***************************************************************************)
EXTENDS Naturals, Sequences, FiniteSetsExt

CONSTANTS
    Request,        \* the calls somebody may make
    Key, NoKey,     \* JWT secrets, and the empty string
    Method,         \* names of signing methods in configurations
    ClientSetting,  \* the configurations the client may have
    ServerSetting   \* the configurations the server may have

Instruments == {"histogram", "counter", "gauge", "summary"}

\* Configuration of one side: its switches, the Auth section (whose key may be
\* empty), the Metrics section, and whether the caller appends a middleware.
Common == [recovery : BOOLEAN, tracing : BOOLEAN, validate : BOOLEAN,
           key : Key \cup {NoKey}, method : Method, metrics : SUBSET Instruments,
           app : BOOLEAN]

ASSUME ChainAssumption ==
    /\ NoKey \notin Key
    /\ ClientSetting \subseteq Common
    /\ \A s \in ServerSetting :
        /\ s.limiter \in {"none", "bbr", "other"} /\ s.logging \in BOOLEAN
        /\ [f \in DOMAIN s \ {"limiter", "logging"} |-> s[f]] \in Common

VARIABLES
    kind,      \* "http" or "grpc"
    client,    \* configuration of the client
    server,    \* configuration of the server
    installed, \* the layers between the caller and the handler
    req,       \* state of every request
    caller,    \* the layer a caller is at on its way back from a timeout
    slots,     \* requests the limiter counts as in flight
    spans,     \* spans that are open: request and middleware
    observed,  \* what was logged or counted: request and middleware
    served,    \* requests whose handler ran
    crashed    \* the server process has died

config == <<kind, client, server, installed>>
effects == <<caller, slots, spans, observed, served, crashed>>
vars == <<config, req, effects>>

-----------------------------------------------------------------------------
(* The chains *)

ClientOrder == <<"clientRecovery", "clientTracing", "clientValidate", "clientAuth",
                 "clientMetrics", "clientApp">>

\* Faulty variant: the recovery comes after the limiter.
ServerOrderLateRecovery ==
    <<"serverTracing", "serverValidate", "serverLimiter", "serverRecovery", "serverAuth",
      "serverLogging", "serverMetrics", "serverApp">>

\* Faulty variant: requests are logged and counted before they are authenticated.
ServerOrderEarlyMetrics ==
    <<"serverRecovery", "serverTracing", "serverValidate", "serverLimiter",
      "serverLogging", "serverMetrics", "serverAuth", "serverApp">>

\* The order in which the constructors append.
ServerOrder ==
    <<"serverRecovery", "serverTracing", "serverValidate", "serverLimiter", "serverAuth",
      "serverLogging", "serverMetrics", "serverApp">>

\* From the caller to the handler.
Path == ClientOrder \o <<"transport">> \o ServerOrder \o <<"handler">>
Position(layer) == CHOOSE i \in DOMAIN Path : Path[i] = layer

On(switch, layer) == IF switch THEN {layer} ELSE {}

\* A Metrics section without histogram and counter installs nothing.
Observes(metrics) == metrics \cap {"histogram", "counter"} # {}

\* CreateHTTPClient and CreateGrpcClient.
ClientLayers ==
    On(client.recovery, "clientRecovery")
    \cup On(client.tracing, "clientTracing")
    \cup On(client.validate, "clientValidate")
    \cup On(kind = "grpc" /\ client.key # NoKey, "clientAuth")
    \cup On(Observes(client.metrics), "clientMetrics")
    \cup On(client.app, "clientApp")

\* CreateHTTPServer and CreateGrpcServer.  The switch of the circuit breaker
\* has no effect, and a limiter of any name is installed.
ServerLayers ==
    On(server.recovery, "serverRecovery")
    \cup On(server.tracing, "serverTracing")
    \cup On(server.validate, "serverValidate")
    \cup On(server.limiter # "none", "serverLimiter")
    \cup On(kind = "grpc" /\ server.key # NoKey, "serverAuth")
    \cup On(server.logging, "serverLogging")
    \cup On(Observes(server.metrics), "serverMetrics")
    \cup On(server.app, "serverApp")

Below(p) == Min({q \in DOMAIN Path : q > p /\ Path[q] \in installed})

\* 0 stands for the caller.
Above(p) == Max({0} \cup {q \in DOMAIN Path : q < p /\ Path[q] \in installed})

\* The switch over the method names: HS256 is the default.
Signing(method) == IF method \in {"HS384", "HS512"} THEN method ELSE "HS256"

\* What a token is signed with, and must be signed with.
Secret(cfg) == [key |-> cfg.key, method |-> Signing(cfg.method)]

-----------------------------------------------------------------------------
(* Requests *)

Outcome == {"none", "reply", "error", "panic"}
NoToken == [key |-> NoKey, method |-> "HS256"]
Idle == [at |-> 0, way |-> "idle", result |-> "none", by |-> "none", valid |-> TRUE,
         token |-> NoToken, panicked |-> FALSE]

\* "by" is the layer the result comes from, "panicked" tells that it was a
\* panic at first.  The program keeps neither of them.
TypeOK ==
    /\ kind \in {"http", "grpc"} /\ client \in ClientSetting /\ server \in ServerSetting
    /\ installed \subseteq {Path[i] : i \in DOMAIN Path}
    /\ req \in [Request -> [at : 0..Len(Path), way : {"idle", "down", "up"}, result : Outcome,
                            by : {"none"} \cup {Path[i] : i \in DOMAIN Path}, valid : BOOLEAN,
                            token : [key : Key \cup {NoKey},
                                     method : {"HS256", "HS384", "HS512"}],
                            panicked : BOOLEAN]]
    /\ caller \in [Request -> 0..Position("transport")]
    /\ slots \subseteq Request
    /\ spans \subseteq Request \X {"clientTracing", "serverTracing"}
    /\ observed \subseteq Request \X {"clientMetrics", "serverLogging", "serverMetrics"}
    /\ served \subseteq Request
    /\ crashed \in BOOLEAN
    /\ \A r \in Request :
        /\ req[r].way = "up" <=> req[r].result # "none"
        /\ req[r].at # 0 => Path[req[r].at] \in installed

Init ==
    /\ kind \in {"http", "grpc"} /\ client \in ClientSetting /\ server \in ServerSetting
    /\ installed = {"transport", "handler"} \cup ClientLayers \cup ServerLayers
    /\ req = [r \in Request |-> Idle]
    /\ caller = [r \in Request |-> Position("transport")]
    /\ slots = {} /\ spans = {} /\ observed = {} /\ served = {}
    /\ crashed = FALSE

Layer(r) == Path[req[r].at]
Descends(r, layers) == req[r].way = "down" /\ Layer(r) \in layers
Ascends(r, layers) == req[r].way = "up" /\ req[r].at # 0 /\ Layer(r) \in layers

\* The next handler is called; the result comes from here; it is handed on.
Pass(r) == req' = [req EXCEPT ![r].at = Below(@)]
Answer(r, result) ==
    req' = [req EXCEPT ![r].way = "up", ![r].at = Above(@), ![r].result = result,
                       ![r].by = Layer(r), ![r].panicked = (result = "panic")]
Return(r, result) == req' = [req EXCEPT ![r].at = Above(@), ![r].result = result]

\* A call is made, with a payload that satisfies its validation rules or not.
Call(r) ==
    /\ req[r].way = "idle"
    /\ \E v \in BOOLEAN :
        req' = [req EXCEPT ![r].way = "down", ![r].at = Below(@), ![r].valid = v]
    /\ UNCHANGED <<config, effects>>

-----------------------------------------------------------------------------
(* Down the chain *)

\* Recovery, logging and metrics do their work on the way back.
Enter(r) ==
    /\ Descends(r, {"clientRecovery", "clientMetrics",
                    "serverRecovery", "serverLogging", "serverMetrics"})
    /\ Pass(r)
    /\ UNCHANGED <<config, effects>>

StartSpan(r) ==
    /\ Descends(r, {"clientTracing", "serverTracing"})
    /\ Pass(r)
    /\ spans' = spans \cup {<<r, Layer(r)>>}
    /\ UNCHANGED <<config, caller, slots, observed, served, crashed>>

Validate(r) ==
    /\ Descends(r, {"clientValidate", "serverValidate"})
    /\ IF req[r].valid THEN Pass(r) ELSE Answer(r, "error")
    /\ UNCHANGED <<config, effects>>

\* Faulty variant: the signing method is not handed to jwt.Client.
SignByDefault(r) ==
    /\ Descends(r, {"clientAuth"})
    /\ req' = [req EXCEPT ![r].at = Below(@),
                          ![r].token = [key |-> client.key, method |-> "HS256"]]
    /\ UNCHANGED <<config, effects>>

\* jwt.Client signs a token for the request.
Sign(r) ==
    /\ Descends(r, {"clientAuth"})
    /\ req' = [req EXCEPT ![r].at = Below(@), ![r].token = Secret(client)]
    /\ UNCHANGED <<config, effects>>

Transmit(r) ==
    /\ Descends(r, {"transport"})
    /\ IF crashed THEN Answer(r, "error") ELSE Pass(r)
    /\ UNCHANGED <<config, effects>>

\* BBR admits the request or sheds it; a limiter of any other name is nil.
Limit(r) ==
    /\ Descends(r, {"serverLimiter"})
    /\ \/ server.limiter = "bbr" /\ Pass(r) /\ slots' = slots \cup {r}
       \/ server.limiter = "bbr" /\ Answer(r, "error") /\ UNCHANGED slots
       \/ server.limiter # "bbr" /\ Answer(r, "panic") /\ UNCHANGED slots
    /\ UNCHANGED <<config, caller, spans, observed, served, crashed>>

\* Faulty variant: the signing method is not checked.
AuthenticateAnyMethod(r) ==
    /\ Descends(r, {"serverAuth"})
    /\ IF req[r].token.key = server.key THEN Pass(r) ELSE Answer(r, "error")
    /\ UNCHANGED <<config, effects>>

\* jwt.Server: the token has the method and the secret of the configuration.
Authenticate(r) ==
    /\ Descends(r, {"serverAuth"})
    /\ IF req[r].token = Secret(server) THEN Pass(r) ELSE Answer(r, "error")
    /\ UNCHANGED <<config, effects>>

\* A middleware of the caller may do anything.
App(r) ==
    /\ Descends(r, {"clientApp", "serverApp"})
    /\ Pass(r) \/ Answer(r, "error") \/ Answer(r, "panic")
    /\ UNCHANGED <<config, effects>>

Handle(r) ==
    /\ Descends(r, {"handler"})
    /\ served' = served \cup {r}
    /\ \E result \in {"reply", "error", "panic"} : Answer(r, result)
    /\ UNCHANGED <<config, caller, slots, spans, observed, crashed>>

-----------------------------------------------------------------------------
(* And up again *)

Recover(r) ==
    /\ Ascends(r, {"clientRecovery", "serverRecovery"})
    /\ Return(r, IF req[r].result = "panic" THEN "error" ELSE req[r].result)
    /\ UNCHANGED <<config, effects>>

\* Faulty variant: the span is not ended by a deferred function.
EndSpanUnlessPanic(r) ==
    /\ Ascends(r, {"clientTracing", "serverTracing"})
    /\ Return(r, req[r].result)
    /\ spans' = IF req[r].result = "panic" THEN spans ELSE spans \ {<<r, Layer(r)>>}
    /\ UNCHANGED <<config, caller, slots, observed, served, crashed>>

\* The span ends in a deferred function, so it ends in a panic too.
EndSpan(r) ==
    /\ Ascends(r, {"clientTracing", "serverTracing"})
    /\ Return(r, req[r].result)
    /\ spans' = spans \ {<<r, Layer(r)>>}
    /\ UNCHANGED <<config, caller, slots, observed, served, crashed>>

\* Faulty variant: only a reply gives the slot back.
ReleaseOnReply(r) ==
    /\ Ascends(r, {"serverLimiter"})
    /\ Return(r, req[r].result)
    /\ slots' = IF req[r].result = "reply" THEN slots \ {r} ELSE slots
    /\ UNCHANGED <<config, caller, spans, observed, served, crashed>>

\* The limiter is told of the end by a call, which a panic skips.
Release(r) ==
    /\ Ascends(r, {"serverLimiter"})
    /\ Return(r, req[r].result)
    /\ slots' = IF req[r].result = "panic" THEN slots ELSE slots \ {r}
    /\ UNCHANGED <<config, caller, spans, observed, served, crashed>>

\* So are the log line and the measurements.
Observe(r) ==
    /\ Ascends(r, {"clientMetrics", "serverLogging", "serverMetrics"})
    /\ Return(r, req[r].result)
    /\ observed' = IF req[r].result = "panic" THEN observed
                   ELSE observed \cup {<<r, Layer(r)>>}
    /\ UNCHANGED <<config, caller, slots, spans, served, crashed>>

Hand(r) ==
    /\ Ascends(r, {"clientValidate", "serverValidate", "clientAuth", "serverAuth",
                   "clientApp", "serverApp"})
    /\ Return(r, req[r].result)
    /\ UNCHANGED <<config, effects>>

InServer(r) == req[r].way # "idle" /\ req[r].at > Position("transport")

\* Nobody has given the request up.
Waits(r) == caller[r] = Position("transport")

\* net/http recovers what a handler panics with, and breaks the connection.
Reply(r) ==
    /\ Ascends(r, {"transport"}) /\ Waits(r)
    /\ req[r].result # "panic" \/ kind = "http"
    /\ Return(r, IF req[r].result = "panic" THEN "error" ELSE req[r].result)
    /\ UNCHANGED <<config, effects>>

\* The result comes too late: the caller has had an error.
Discard(r) ==
    /\ Ascends(r, {"transport"}) /\ ~ Waits(r)
    /\ req[r].result # "panic" \/ kind = "http"
    /\ req' = [req EXCEPT ![r].at = 0, ![r].result = "error"]
    /\ UNCHANGED <<config, effects>>

\* The client's time is up while the server has the request.
TimeOut(r) ==
    /\ InServer(r) /\ Waits(r)
    /\ caller' = [caller EXCEPT ![r] = Above(@)]
    /\ UNCHANGED <<config, req, slots, spans, observed, served, crashed>>

\* The error of the timeout goes up through one layer of the client.
Withdraw(r) ==
    /\ ~ Waits(r) /\ caller[r] # 0
    /\ caller' = [caller EXCEPT ![r] = Above(@)]
    /\ spans' = spans \ {<<r, Path[caller[r]]>>}
    /\ observed' = IF Path[caller[r]] = "clientMetrics"
                   THEN observed \cup {<<r, "clientMetrics">>} ELSE observed
    /\ UNCHANGED <<config, req, slots, served, crashed>>

\* grpc-go does not: the process dies, and with it all the requests it has.
Crash(r) ==
    /\ Ascends(r, {"transport"})
    /\ req[r].result = "panic" /\ kind = "grpc"
    /\ crashed' = TRUE
    /\ req' = [x \in Request |->
                IF x = r \/ InServer(x)
                THEN [req[x] EXCEPT !.way = "up", !.result = "error",
                                    !.at = IF Waits(x) THEN Above(Position("transport")) ELSE 0,
                                    !.by = IF x = r THEN @ ELSE "transport"]
                ELSE req[x]]
    /\ slots' = {}
    /\ spans' = spans \ (Request \X {"serverTracing"})
    /\ UNCHANGED <<config, caller, observed, served>>

\* A new process, with a new limiter.
Restart ==
    /\ crashed
    /\ crashed' = FALSE
    /\ UNCHANGED <<config, caller, req, slots, spans, observed, served>>

Next ==
    \/ \E r \in Request :
        \/ Call(r) \/ Enter(r) \/ StartSpan(r) \/ Validate(r) \/ Sign(r) \/ Transmit(r)
        \/ Limit(r) \/ Authenticate(r) \/ App(r) \/ Handle(r)
        \/ Recover(r) \/ EndSpan(r) \/ Release(r) \/ Observe(r) \/ Hand(r)
        \/ Reply(r) \/ Crash(r) \/ Discard(r) \/ TimeOut(r) \/ Withdraw(r)
    \/ Restart

Spec == Init /\ [][Next]_vars

-----------------------------------------------------------------------------
(* Properties *)

Done(r) == req[r].way = "up" /\ req[r].at = 0

\* A handler runs only what every protection of its server lets through: valid
\* payloads, tokens of its secret and method, and nothing at all behind a
\* limiter whose name is unknown.
HandlerIsProtected ==
    \A r \in served :
        /\ "serverValidate" \in installed => req[r].valid
        /\ "serverAuth" \in installed => req[r].token = Secret(server)
        /\ server.limiter # "other"

\* With recovery switched on no panic of the handler or of another middleware
\* ends the process, reaches the caller, or takes other requests along.
PanicIsContained ==
    /\ server.recovery => ~ crashed
    /\ client.recovery => \A r \in Request : Done(r) => req[r].result # "panic"
    /\ server.recovery => \A r \in Request : req[r].by # "transport"

\* The limiter gets every slot back, except those of requests that panicked
\* below it: recovery is outside of it, and the slot is lost for good.
SlotsAreReturned ==
    \A r \in slots : req[r].panicked \/ req[r].at >= Position("serverLimiter")

\* Every span ends, also in a panic: that of the server before its answer
\* leaves it, that of the client before its caller goes on, answered or timed
\* out.  And unless the client has timed out (grpc.go:53, http.go:64), the span
\* of the server lies within its own.
SpansEndInOrder ==
    \A r \in Request :
        /\ ~ InServer(r) => <<r, "serverTracing">> \notin spans
        /\ (IF Waits(r) THEN Done(r) ELSE caller[r] = 0) => <<r, "clientTracing">> \notin spans
        /\ <<r, "serverTracing">> \in spans /\ "clientTracing" \in installed =>
            <<r, "clientTracing">> \in spans \/ ~ Waits(r)

\* Log and metrics of the server tell of every request that was admitted and
\* did not panic, and of no other: who floods the limiter or lacks a token
\* leaves no trace in them.
AdmittedAreObserved ==
    \A r \in Request : \A l \in {"serverLogging", "serverMetrics"} :
        /\ <<r, l>> \in observed =>
            req[r].by \notin {"serverValidate", "serverLimiter", "serverAuth"}
        /\ Done(r) /\ ~ req[r].panicked /\ req[r].by \in {"serverApp", "handler"} =>
            (l \in installed => <<r, l>> \in observed)

\* A client and a server with the same secret and equivalent methods understand
\* each other; a method the code does not know is equivalent to HS256.
SameAuthIsAccepted ==
    "clientAuth" \in installed /\ Secret(client) = Secret(server)
    => \A r \in Request : req[r].by # "serverAuth"
=============================================================================
