---------------------------- MODULE AppLifecycle ----------------------------
(***************************************************************************)
(* The life of one application: NewAppWithOptions (src/bootstrap.go)       *)
(* builds it, Context.Run (src/context.go) runs it and its deferred        *)
(* cleanup, kratos starts and stops its servers, and a load balancer that  *)
(* was told of the termination goes on routing for a while.                *)
(*                                                                         *)
(* Time is counted in ticks, and only as far as somebody waits for it: the *)
(* BeforeStop delay and the load balancer.  Every other step may take any  *)
(* number of ticks.                                                        *)
(***************************************************************************)
EXTENDS Integers, Sequences

CONSTANTS
    Server,       \* the servers passed to NewAppWithOptions
    Request,      \* requests the load balancer has for them
    Delay,        \* values of WithBeforeStopDelay, in ticks, negative ones too
    NoOption,     \* a nil AppOption
    OptionLists,  \* the lists of options an application may pass
    LbDelay       \* ticks for which traffic arrives after the signal

DefaultBeforeStopDelay == 0

ASSUME LifecycleAssumption ==
    /\ Delay \subseteq Int
    /\ NoOption \notin Delay
    /\ OptionLists \subseteq Seq(Delay \cup {NoOption})
    /\ LbDelay \in Nat

VARIABLES
    app,        \* what the application is built from
    main,       \* where the goroutine that runs Context.Run is
    srv,        \* the state of each server
    stopper,    \* the goroutine that waits for the signal
    left,       \* ticks its sleep still lasts
    signalled,  \* the process was asked to terminate
    settle,     \* ticks for which the load balancer still routes after that
    cancelled,  \* the context of the app is cancelled
    failed,     \* a server stopped serving with an error
    cleanups,   \* how often the cleanup of initApp has run
    routed,     \* the servers the load balancer knows to be ready
    req         \* what became of each request, and at which server

lifeVars == <<app, main, cleanups>>
stopVars == <<stopper, left, signalled, settle, cancelled>>
vars == <<lifeVars, stopVars, srv, failed, routed, req>>

Ended == {"returned", "panicked", "dead"}
NoRequest == [is |-> "idle", at |-> "nowhere"]

TypeOK ==
    /\ app \in [delay : Delay \cup {DefaultBeforeStopDelay}, identity : BOOLEAN,
                logger : {"none", "valid", "wrapped"}, bare : SUBSET Server]
    /\ main \in {"new", "run", "launched", "wait", "cleanup"} \cup Ended
    /\ srv \in [Server -> {"new", "up", "broken", "draining", "down"}]
    /\ stopper \in {"none", "select", "sleeping", "done"}
    /\ left \in Nat /\ settle \in 0..LbDelay
    /\ signalled \in BOOLEAN /\ cancelled \in BOOLEAN /\ failed \in BOOLEAN
    /\ cleanups \in {0, 1}
    /\ routed \subseteq Server
    /\ req \in [Request -> [is : {"open", "served", "refused", "cut"}, at : Server]
                           \cup {NoRequest}]

\* newAppOptions applies the options in order and skips nil: d is the delay
\* they leave, that of the last one that is not nil.
DelayOf(opts, d) ==
    \/ /\ d = DefaultBeforeStopDelay
       /\ \A i \in DOMAIN opts : opts[i] = NoOption
    \/ \E i \in DOMAIN opts :
        /\ opts[i] = d
        /\ \A j \in DOMAIN opts : j > i => opts[j] = NoOption

\* "bare" are the gRPC servers without the recovery middleware, which is off by
\* default; net/http recovers by itself.
Init ==
    /\ app \in [delay : {d \in Delay \cup {DefaultBeforeStopDelay} :
                            \E opts \in OptionLists : DelayOf(opts, d)},
                identity : BOOLEAN, logger : {"none", "valid", "wrapped"},
                bare : SUBSET Server]
    /\ main = "new" /\ cleanups = 0
    /\ srv = [s \in Server |-> "new"]
    /\ stopper = "none" /\ left = 0
    /\ signalled = FALSE /\ settle = LbDelay
    /\ cancelled = FALSE /\ failed = FALSE
    /\ routed = {}
    /\ req = [r \in Request |-> NoRequest]

-----------------------------------------------------------------------------
(* The goroutine of Context.Run *)

\* The process ends: what its handlers were doing is cut.
End(how) ==
    /\ main' = how
    /\ req' = [r \in Request |-> IF req[r].is = "open" THEN [req[r] EXCEPT !.is = "cut"]
                                 ELSE req[r]]

\* NewAppWithOptions inside initApp: a nil logger gives way to the default one,
\* a Context without identity panics, before there is any cleanup to run.
NewAppWithOptions ==
    /\ main = "new"
    /\ IF app.identity THEN main' = "run" ELSE main' = "panicked"
    /\ app' = IF app.logger = "none" THEN [app EXCEPT !.logger = "valid"] ELSE app
    /\ UNCHANGED <<cleanups, stopVars, srv, failed, routed, req>>

\* app.Run binds the addresses, or returns the error that it cannot.
Launch ==
    /\ main = "run"
    /\ \/ main' = "launched" /\ UNCHANGED failed
       \/ main' = "cleanup" /\ failed' = TRUE
    /\ UNCHANGED <<app, cleanups, stopVars, srv, routed, req>>

\* Signals are taken over only once every server was launched.
Notify ==
    /\ main = "launched"
    /\ main' = "wait"
    /\ stopper' = "select"
    /\ UNCHANGED <<app, cleanups, left, signalled, settle, cancelled, srv, failed, routed, req>>

\* app.Run waits for the end of every goroutine it started, a sleeping one too.
AppReturns ==
    /\ main = "wait"
    /\ stopper = "done"
    /\ \A s \in Server : srv[s] = "down"
    /\ main' = "cleanup"
    /\ UNCHANGED <<app, cleanups, stopVars, srv, failed, routed, req>>

\* Faulty variant: the cleanup runs as soon as the servers are told to stop.
CleanupOnCancel ==
    /\ main = "wait" /\ cancelled
    /\ cleanups' = cleanups + 1
    /\ End(IF failed THEN "panicked" ELSE "returned")
    /\ UNCHANGED <<app, stopVars, srv, failed, routed>>

\* The deferred cleanup; then Run returns, or panics with the error of app.Run.
Cleanup ==
    /\ main = "cleanup"
    /\ cleanups' = cleanups + 1
    /\ End(IF failed THEN "panicked" ELSE "returned")
    /\ UNCHANGED <<app, stopVars, srv, failed, routed>>

-----------------------------------------------------------------------------
(* The servers *)

Alive == main \notin Ended
Running == main \in {"launched", "wait"}
Stopping == cancelled \/ failed
Open(s) == {r \in Request : req[r].is = "open" /\ req[r].at = s}

\* A server logs that it listens; without a logger below the wrapper this
\* panics in a goroutine of its own, which ends the process.
StartServer(s) ==
    /\ Running /\ srv[s] = "new"
    /\ \/ /\ app.logger = "valid"
          /\ srv' = [srv EXCEPT ![s] = "up"]
          /\ UNCHANGED <<lifeVars, req>>
       \/ /\ app.logger # "valid"
          /\ End("dead")
          /\ UNCHANGED <<app, cleanups, srv>>
    /\ UNCHANGED <<stopVars, failed, routed>>

\* A server cannot go on: all others are stopped, without any delay.
ServerFails(s) ==
    /\ Running /\ srv[s] = "up"
    /\ srv' = [srv EXCEPT ![s] = "broken"]
    /\ failed' = TRUE
    /\ UNCHANGED <<lifeVars, stopVars, routed, req>>

StopServer(s) ==
    /\ Running /\ Stopping
    /\ srv[s] \in {"new", "up", "broken"}
    /\ srv' = [srv EXCEPT ![s] = "draining"]
    /\ UNCHANGED <<lifeVars, stopVars, failed, routed, req>>

\* A graceful stop ends with the last request.
Drained(s) ==
    /\ Running /\ srv[s] = "draining" /\ Open(s) = {}
    /\ srv' = [srv EXCEPT ![s] = "down"]
    /\ UNCHANGED <<lifeVars, stopVars, failed, routed, req>>

-----------------------------------------------------------------------------
(* Termination *)

\* Whoever runs the process asks it to terminate, and tells the load balancer.
\* Before Notify the signal has its default effect; a second one has none.
Signal ==
    /\ Alive /\ ~ signalled
    /\ signalled' = TRUE
    /\ IF stopper = "none" THEN End("dead") ELSE UNCHANGED <<main, req>>
    /\ UNCHANGED <<app, cleanups, stopper, left, settle, cancelled, srv, failed, routed>>

\* The goroutine chooses among what is ready: the signal, on which app.Stop
\* runs the BeforeStop function if there is one, which logs and then sleeps, or
\* the end of the group.
Wake ==
    /\ Alive /\ stopper = "select"
    /\ \/ /\ signalled /\ app.delay > 0
          /\ stopper' = "sleeping" /\ left' = app.delay
          /\ UNCHANGED cancelled
          /\ IF app.logger = "valid" THEN UNCHANGED <<main, req>> ELSE End("dead")
       \/ /\ signalled /\ app.delay <= 0
          /\ stopper' = "done" /\ cancelled' = TRUE
          /\ UNCHANGED <<left, main, req>>
       \/ /\ Stopping
          /\ stopper' = "done"
          /\ UNCHANGED <<left, cancelled, main, req>>
    /\ UNCHANGED <<app, cleanups, signalled, settle, srv, failed, routed>>

\* Faulty variant: the wait is one on the context of the app.
SleepOnContext ==
    /\ Alive /\ stopper = "sleeping"
    /\ Stopping
    /\ stopper' = "done" /\ cancelled' = TRUE /\ left' = 0
    /\ UNCHANGED <<lifeVars, signalled, settle, srv, failed, routed, req>>

\* Faulty variant: the wait is cut short by whatever comes first.
SleepShort ==
    /\ Alive /\ stopper = "sleeping"
    /\ stopper' = "done" /\ cancelled' = TRUE /\ left' = 0
    /\ UNCHANGED <<lifeVars, signalled, settle, srv, failed, routed, req>>

\* time.Sleep looks at nothing but the clock.  Then the context is cancelled.
SleepEnds ==
    /\ Alive /\ stopper = "sleeping" /\ left = 0
    /\ stopper' = "done" /\ cancelled' = TRUE
    /\ UNCHANGED <<lifeVars, left, signalled, settle, srv, failed, routed, req>>

\* Time passes for the sleeper and for the load balancer alike.
Tick ==
    /\ signalled /\ (settle > 0 \/ left > 0)
    /\ settle' = IF settle > 0 THEN settle - 1 ELSE 0
    /\ left' = IF left > 0 THEN left - 1 ELSE 0
    /\ UNCHANGED <<lifeVars, stopper, signalled, cancelled, srv, failed, routed, req>>

-----------------------------------------------------------------------------
(* Traffic *)

\* The load balancer learns that a server is ready.
Join(s) ==
    /\ Alive /\ srv[s] = "up" /\ ~ signalled
    /\ routed' = routed \cup {s}
    /\ UNCHANGED <<lifeVars, stopVars, srv, failed, req>>

\* It routes to servers it knows, for LbDelay ticks also after the signal.
Arrive(r, s) ==
    /\ req[r] = NoRequest
    /\ s \in routed /\ (signalled => settle > 0)
    /\ req' = [req EXCEPT ![r] =
                [is |-> IF Alive /\ srv[s] = "up" THEN "open" ELSE "refused", at |-> s]]
    /\ UNCHANGED <<lifeVars, stopVars, srv, failed, routed>>

\* The handler ends, with a reply, an error, or a panic that is recovered.
Finish(r) ==
    /\ Alive /\ req[r].is = "open"
    /\ req' = [req EXCEPT ![r].is = "served"]
    /\ UNCHANGED <<lifeVars, stopVars, srv, failed, routed>>

\* Faulty variant: the switch does not install the recovery.
HandlerPanicsUnrecovered(r) ==
    /\ Alive /\ req[r].is = "open"
    /\ End("dead")
    /\ UNCHANGED <<app, cleanups, stopVars, srv, failed, routed>>

\* A handler panics in a goroutine of grpc-go, and no recovery is above it: the
\* process ends, and the deferred cleanup of Context.Run does not run.
HandlerPanics(r) ==
    /\ Alive /\ req[r].is = "open" /\ req[r].at \in app.bare
    /\ End("dead")
    /\ UNCHANGED <<app, cleanups, stopVars, srv, failed, routed>>

-----------------------------------------------------------------------------
MainStep == NewAppWithOptions \/ Launch \/ Notify \/ AppReturns \/ Cleanup
ServerStep(s) == StartServer(s) \/ StopServer(s) \/ Drained(s)

Next ==
    \/ MainStep \/ Signal \/ Wake \/ SleepEnds \/ Tick
    \/ \E s \in Server : ServerStep(s) \/ ServerFails(s) \/ Join(s)
    \/ \E r \in Request : Finish(r) \/ HandlerPanics(r) \/ \E s \in Server : Arrive(r, s)

\* Goroutines that can run do run, time passes, and handlers end.  Nobody is
\* obliged to send a signal or a request, and no server has to fail.
Fairness ==
    /\ WF_vars(MainStep) /\ WF_vars(Wake) /\ WF_vars(SleepEnds) /\ WF_vars(Tick)
    /\ \A s \in Server : WF_vars(ServerStep(s))
    /\ \A r \in Request : WF_vars(Finish(r))

SafetySpec == Init /\ [][Next]_vars

Spec == SafetySpec /\ Fairness

-----------------------------------------------------------------------------
(* Properties *)

\* A delay of at least the time the load balancer takes makes termination
\* invisible: a request is refused only if a server failed before (the others
\* then stop at once), if the delay is shorter, or if the process was killed.
NothingIsRefused ==
    (\E r \in Request : req[r].is = "refused")
    => failed \/ app.delay < LbDelay \/ main = "dead"

\* The cleanup closes what handlers use (context.go:138): it runs when every
\* server has stopped, no request is left in a handler, and nothing of the
\* application runs any more.
CleanupIsLast ==
    cleanups = 1 => /\ \A r \in Request : req[r].is \notin {"open", "cut"}
                    /\ stopper \in {"none", "done"}
                    /\ stopper = "done" => \A s \in Server : srv[s] = "down"

\* A process that has let a request in skips its cleanup, and cuts what is open,
\* only if a handler panicked at a server without recovery (grpc.go:184), or if
\* the signal came before Notify.  A logger that wraps nil (logger.go:54, which
\* bootstrap.go:63 does not see) fails fast: it kills the process before anybody
\* is let in, and the missing one never does.
LateDeathsAreHandlers ==
    main = "dead" /\ (\E r \in Request : req[r].is \in {"served", "cut"}) =>
        \/ signalled /\ stopper = "none"
        \/ \E r \in Request : req[r].is = "cut" /\ req[r].at \in app.bare

\* A signal or the failure of a server ends the process, delay included.
Terminates == (signalled \/ failed) ~> ~ Alive
=============================================================================
