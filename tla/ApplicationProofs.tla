------------------------ MODULE ApplicationProofs ------------------------
(***************************************************************************)
(* Proofs about the application that the bootstrap pipeline runs: what the *)
(* end of a process may do to requests (AppLifecycle, for any servers,     *)
(* requests, delays and any load balancer), and what its initApp makes of  *)
(* the Data section (DataClients, for any sections and programs).          *)
(***************************************************************************)
EXTENDS AppLifecycle, DataClients, TLAPS

-----------------------------------------------------------------------------
(* The end of a process: the invariant *)

\* Who may run when: the goroutine that waits for the signal is there while
\* app.Run waits, and it ends over a cancelled context or a failed server.
Ordered ==
    /\ main \in {"new", "run", "launched"} => stopper = "none"
    /\ stopper \in {"select", "sleeping"} => main \in {"wait", "dead"}
    /\ stopper = "sleeping" => signalled
    /\ cancelled => stopper = "done" /\ signalled
    /\ stopper = "done" => Stopping
    /\ cleanups = 1 => main \in {"returned", "panicked"}
    /\ app.logger = "none" => main \in {"new", "dead"}

\* A delay that is long enough outlasts the load balancer.
DelayCovers ==
    app.delay >= LbDelay =>
        /\ stopper = "sleeping" => settle <= left
        /\ cancelled => settle = 0

\* Servers stop only when they are told to, and app.Run returns only when
\* none is left, or none was ever started.
ServersFollow ==
    /\ \A s \in Server :
        /\ srv[s] \in {"draining", "down"} => Stopping
        /\ srv[s] = "broken" => failed
        /\ s \in routed => srv[s] # "new"
    /\ app.logger # "valid" => routed = {} /\ \A s \in Server : srv[s] # "up"
    /\ main \in {"new", "run"} => routed = {} /\ \A s \in Server : srv[s] = "new"
    /\ main \in {"cleanup", "returned", "panicked"} =>
        \/ stopper = "done" /\ \A s \in Server : srv[s] = "down"
        \/ stopper = "none" /\ routed = {} /\ \A s \in Server : srv[s] = "new"

\* Only a process that lives works on requests, and only its death cuts them.
RequestsFollow ==
    \A r \in Request :
        /\ req[r] # NoRequest => req[r].at \in routed
        /\ req[r].is = "open" => Alive /\ srv[req[r].at] \notin {"new", "down"}
        /\ req[r].is = "cut" => main = "dead"

\* What a process that skips its cleanup died of: a signal before Notify, a
\* logger that wraps nil, or a handler that nothing recovers.
DeathIsKnown ==
    main = "dead" =>
        \/ signalled /\ stopper = "none"
        \/ app.logger = "wrapped"
        \/ \E r \in Request : req[r].is = "cut" /\ req[r].at \in app.bare

Inv ==
    /\ TypeOK /\ Ordered /\ DelayCovers /\ ServersFollow /\ RequestsFollow
    /\ NothingIsRefused /\ DeathIsKnown

Requests == [Request -> [is : {"open", "served", "refused", "cut"}, at : Server] \cup {NoRequest}]

-----------------------------------------------------------------------------
LEMMA DelayIsInt == TypeOK => app.delay \in Int /\ LbDelay \in Nat
<1>1. LbDelay \in Nat /\ \A d \in Delay \cup {DefaultBeforeStopDelay} : d \in Int
  BY LifecycleAssumption DEF DefaultBeforeStopDelay
<1>2. TypeOK => app.delay \in Delay \cup {DefaultBeforeStopDelay}
  BY DEF TypeOK
<1> QED BY <1>1, <1>2

LEMMA InitInv == Init => Inv
<1> SUFFICES ASSUME Init PROVE Inv
  OBVIOUS
<1>1. TypeOK
  <2>1. app \in [delay : Delay \cup {DefaultBeforeStopDelay}, identity : BOOLEAN,
               logger : {"none", "valid", "wrapped"}, bare : SUBSET Server]
    BY DEF Init
  <2>2. LbDelay \in Nat
    BY LifecycleAssumption
  <2>3. req \in Requests
    BY DEF Init, Requests
  <2>4. srv \in [Server -> {"new", "up", "broken", "draining", "down"}] /\ settle \in 0..LbDelay
    BY <2>2 DEF Init
  <2> QED BY <2>1, <2>3, <2>4 DEF Init, TypeOK, Ended, Requests
<1>2. Ordered /\ DelayCovers /\ ServersFollow
  BY DEF Init, Ordered, DelayCovers, ServersFollow
<1>3. RequestsFollow /\ NothingIsRefused /\ DeathIsKnown
  BY DEF Init, RequestsFollow, NothingIsRefused, DeathIsKnown, NoRequest
<1> QED BY <1>1, <1>2, <1>3 DEF Inv

\* What the end of a process leaves of its requests.
LEMMA EndCuts ==
    ASSUME TypeOK, NEW how, End(how)
    PROVE  /\ main' = how
           /\ req' \in Requests
           /\ \A r \in Request :
                /\ req[r].is # "open" => req'[r] = req[r]
                /\ req[r].is = "open" => /\ req'[r].is = "cut" /\ req'[r].at = req[r].at
                                         /\ req[r] # NoRequest
<1>1. \A r \in Request :
        req'[r] = IF req[r].is = "open" THEN [req[r] EXCEPT !.is = "cut"] ELSE req[r]
  BY DEF End
<1>2. \A r \in Request : req[r].is = "open" =>
        req[r] \in [is : {"open", "served", "refused", "cut"}, at : Server]
  BY DEF TypeOK, NoRequest
<1>3. ASSUME NEW r \in Request
      PROVE  req'[r] \in [is : {"open", "served", "refused", "cut"}, at : Server] \cup {NoRequest}
  <2>1. CASE req[r].is = "open"
    BY <1>1, <1>2, <2>1
  <2>2. CASE req[r].is # "open"
    BY <1>1, <2>2 DEF TypeOK
  <2> QED BY <2>1, <2>2
<1>4. req' \in Requests
  BY <1>3 DEF End, Requests
<1> QED BY <1>1, <1>2, <1>4 DEF End, NoRequest

\* Death by a signal before Notify, over a logger that wraps nil, or by a handler.
LEMMA DeathInv ==
    ASSUME Inv, Alive, End("dead"),
           UNCHANGED <<app, cleanups, settle, cancelled, srv, failed, routed>>,
           \/ signalled' = TRUE /\ stopper = "none" /\ UNCHANGED <<stopper, left>>
           \/ app.logger = "wrapped" /\ UNCHANGED <<signalled, stopper, left>>
           \/ /\ \E r \in Request : req[r].is = "open" /\ req[r].at \in app.bare
              /\ UNCHANGED <<signalled, stopper, left>>
           \/ /\ app.logger = "wrapped" /\ UNCHANGED signalled
              /\ stopper = "select" /\ signalled /\ stopper' = "sleeping"
              /\ app.delay > 0 /\ left' = app.delay
    PROVE  Inv'
<1>1. TypeOK'
  <2>1. TypeOK
    BY DEF Inv
  <2>2. left' \in Nat
    BY DelayIsInt, <2>1 DEF TypeOK
  <2>3. main' \in Ended /\ req' \in Requests
    BY <2>1, EndCuts DEF Ended
  <2>4. signalled' \in BOOLEAN /\ stopper' \in {"none", "select", "sleeping", "done"}
    BY <2>1 DEF TypeOK
  <2> QED BY <2>1, <2>2, <2>3, <2>4 DEF TypeOK, Requests
<1>2. Ordered'
  BY EndCuts DEF Inv, Ordered, Alive, Ended, Stopping, TypeOK
<1>3. DelayCovers'
  BY DelayIsInt, EndCuts DEF Inv, TypeOK, DelayCovers, Ordered
<1>4. ServersFollow'
  BY EndCuts DEF Inv, ServersFollow, Stopping
<1>5. RequestsFollow'
  BY EndCuts DEF Inv, RequestsFollow
<1>6. NothingIsRefused' /\ DeathIsKnown'
  BY EndCuts DEF Inv, NothingIsRefused, DeathIsKnown
<1> QED BY <1>1, <1>2, <1>3, <1>4, <1>5, <1>6 DEF Inv

-----------------------------------------------------------------------------
(* The goroutine of Context.Run *)

LEMMA NewAppWithOptionsInv ==
    ASSUME Inv, NewAppWithOptions
    PROVE  Inv'
<1>1. TypeOK'
  BY DEF Inv, NewAppWithOptions, TypeOK, lifeVars, stopVars, Ended
<1>2. Ordered'
  BY DEF Inv, NewAppWithOptions, Ordered, lifeVars, stopVars, Stopping
<1>3. DelayCovers'
  BY DEF Inv, NewAppWithOptions, DelayCovers, lifeVars, stopVars
<1>4. ServersFollow'
  BY DEF Inv, NewAppWithOptions, Ordered, ServersFollow, stopVars, Stopping
<1>5. RequestsFollow'
  BY DEF Inv, NewAppWithOptions, ServersFollow, RequestsFollow, Alive, Ended, NoRequest
<1>6. NothingIsRefused' /\ DeathIsKnown'
  BY DEF Inv, NewAppWithOptions, NothingIsRefused, DeathIsKnown, lifeVars, stopVars
<1> QED BY <1>1, <1>2, <1>3, <1>4, <1>5, <1>6 DEF Inv

LEMMA LaunchInv ==
    ASSUME Inv, Launch
    PROVE  Inv'
<1>1. TypeOK'
  BY DEF Inv, Launch, TypeOK, lifeVars, stopVars, Ended
<1>2. Ordered'
  BY DEF Inv, Launch, Ordered, lifeVars, stopVars, Stopping
<1>3. DelayCovers'
  BY DEF Inv, Launch, DelayCovers, lifeVars, stopVars
<1>4. ServersFollow'
  BY DEF Inv, Launch, Ordered, ServersFollow, stopVars, Stopping
<1>5. RequestsFollow'
  BY DEF Inv, Launch, RequestsFollow, lifeVars, stopVars, Alive, Ended
<1>6. NothingIsRefused' /\ DeathIsKnown'
  BY DEF Inv, Launch, NothingIsRefused, DeathIsKnown, lifeVars, stopVars
<1> QED BY <1>1, <1>2, <1>3, <1>4, <1>5, <1>6 DEF Inv

LEMMA NotifyInv ==
    ASSUME Inv, Notify
    PROVE  Inv'
<1>1. TypeOK'
  BY DEF Inv, Notify, TypeOK, lifeVars, stopVars, Ended
<1>2. Ordered'
  BY DEF Inv, Notify, Ordered, lifeVars, stopVars, Stopping
<1>3. DelayCovers'
  BY DEF Inv, Notify, DelayCovers, lifeVars, stopVars
<1>4. ServersFollow'
  BY DEF Inv, Notify, ServersFollow, lifeVars, stopVars, Stopping
<1>5. RequestsFollow'
  BY DEF Inv, Notify, RequestsFollow, lifeVars, stopVars, Alive, Ended
<1>6. NothingIsRefused' /\ DeathIsKnown'
  BY DEF Inv, Notify, NothingIsRefused, DeathIsKnown, lifeVars, stopVars
<1> QED BY <1>1, <1>2, <1>3, <1>4, <1>5, <1>6 DEF Inv

LEMMA AppReturnsInv ==
    ASSUME Inv, AppReturns
    PROVE  Inv'
<1>1. TypeOK'
  BY DEF Inv, AppReturns, TypeOK, lifeVars, stopVars, Ended
<1>2. Ordered'
  BY DEF Inv, AppReturns, Ordered, lifeVars, stopVars, Stopping
<1>3. DelayCovers'
  BY DEF Inv, AppReturns, DelayCovers, lifeVars, stopVars
<1>4. ServersFollow'
  BY DEF Inv, AppReturns, ServersFollow, lifeVars, stopVars, Stopping
<1>5. RequestsFollow'
  BY DEF Inv, AppReturns, RequestsFollow, lifeVars, stopVars, Alive, Ended
<1>6. NothingIsRefused' /\ DeathIsKnown'
  BY DEF Inv, AppReturns, NothingIsRefused, DeathIsKnown, lifeVars, stopVars
<1> QED BY <1>1, <1>2, <1>3, <1>4, <1>5, <1>6 DEF Inv

LEMMA CleanupInv ==
    ASSUME Inv, Cleanup
    PROVE  Inv'
<1>1. TypeOK'
  BY EndCuts DEF Inv, Cleanup, TypeOK, Ordered, Requests, stopVars, Ended
<1>2. Ordered'
  BY EndCuts DEF Inv, Cleanup, Ordered, lifeVars, stopVars, Stopping
<1>3. DelayCovers'
  BY EndCuts DEF Inv, Cleanup, DelayCovers, lifeVars, stopVars
<1>4. ServersFollow'
  BY EndCuts DEF Inv, Cleanup, ServersFollow, lifeVars, stopVars, Stopping
<1>5. RequestsFollow'
  <2>1. \A r \in Request : req[r].is # "open"
    BY DEF Inv, Cleanup, TypeOK, ServersFollow, RequestsFollow, NoRequest
  <2> QED BY <2>1, EndCuts DEF Inv, Cleanup, RequestsFollow
<1>6. NothingIsRefused' /\ DeathIsKnown'
  BY EndCuts DEF Inv, Cleanup, NothingIsRefused, DeathIsKnown, lifeVars, stopVars
<1> QED BY <1>1, <1>2, <1>3, <1>4, <1>5, <1>6 DEF Inv

-----------------------------------------------------------------------------
(* The servers *)

LEMMA StartServerInv ==
    ASSUME Inv, NEW s \in Server, StartServer(s)
    PROVE  Inv'
<1>1. CASE app.logger # "valid"
  BY <1>1, DeathInv
  DEF StartServer, Inv, TypeOK, Ordered, Running, Alive, Ended, stopVars
<1>2. CASE app.logger = "valid"
  <2>1. srv' = [srv EXCEPT ![s] = "up"] /\ UNCHANGED <<lifeVars, stopVars, failed, routed, req>>
    BY <1>2 DEF StartServer
  <2>2. Running /\ srv[s] = "new"
    BY DEF StartServer
  <2>3. TypeOK' /\ Ordered' /\ DelayCovers'
    BY <2>1 DEF Inv, TypeOK, Ordered, DelayCovers, lifeVars, stopVars, Stopping
  <2>4. ServersFollow'
    BY <1>2, <2>1, <2>2 DEF Inv, TypeOK, ServersFollow, lifeVars, stopVars, Stopping, Running
  <2>5. RequestsFollow'
    BY <2>1, <2>2 DEF Inv, TypeOK, RequestsFollow, lifeVars, Alive, Ended
  <2>6. NothingIsRefused' /\ DeathIsKnown'
    BY <2>1 DEF Inv, NothingIsRefused, DeathIsKnown, lifeVars, stopVars
  <2> QED BY <2>3, <2>4, <2>5, <2>6 DEF Inv
<1> QED BY <1>1, <1>2

LEMMA ServerFailsInv ==
    ASSUME Inv, NEW s \in Server, ServerFails(s)
    PROVE  Inv'
<1>1. TypeOK'
  BY DEF Inv, ServerFails, TypeOK, lifeVars, stopVars, Ended, Running
<1>2. Ordered'
  BY DEF Inv, ServerFails, Ordered, lifeVars, stopVars, Running, Stopping
<1>3. DelayCovers'
  BY DEF Inv, ServerFails, DelayCovers, lifeVars, stopVars, Running
<1>4. ServersFollow'
  BY DEF Inv, ServerFails, ServersFollow, lifeVars, stopVars, Running, Stopping
<1>5. RequestsFollow'
  BY DEF Inv, ServerFails, RequestsFollow, lifeVars, stopVars, Alive, Ended, Running
<1>6. NothingIsRefused' /\ DeathIsKnown'
  BY DEF Inv, ServerFails, NothingIsRefused, DeathIsKnown, lifeVars, stopVars, Running
<1> QED BY <1>1, <1>2, <1>3, <1>4, <1>5, <1>6 DEF Inv

LEMMA StopServerInv ==
    ASSUME Inv, NEW s \in Server, StopServer(s)
    PROVE  Inv'
<1>1. TypeOK'
  BY DEF Inv, StopServer, TypeOK, lifeVars, stopVars, Ended, Running, Stopping
<1>2. Ordered'
  BY DEF Inv, StopServer, Ordered, lifeVars, stopVars, Running, Stopping
<1>3. DelayCovers'
  BY DEF Inv, StopServer, DelayCovers, lifeVars, stopVars, Running, Stopping
<1>4. ServersFollow'
  BY DEF Inv, StopServer, ServersFollow, lifeVars, stopVars, Running, Stopping
<1>5. RequestsFollow'
  BY DEF Inv, StopServer, RequestsFollow, lifeVars, stopVars, Alive, Ended, Running, Stopping
<1>6. NothingIsRefused' /\ DeathIsKnown'
  BY DEF Inv, StopServer, NothingIsRefused, DeathIsKnown, lifeVars, stopVars, Running, Stopping
<1> QED BY <1>1, <1>2, <1>3, <1>4, <1>5, <1>6 DEF Inv

LEMMA DrainedInv ==
    ASSUME Inv, NEW s \in Server, Drained(s)
    PROVE  Inv'
<1>1. TypeOK'
  BY DEF Inv, Drained, TypeOK, lifeVars, stopVars, Ended, Running, Open
<1>2. Ordered'
  BY DEF Inv, Drained, Ordered, lifeVars, stopVars, Running, Stopping, Open
<1>3. DelayCovers'
  BY DEF Inv, Drained, DelayCovers, lifeVars, stopVars, Running, Open
<1>4. ServersFollow'
  BY DEF Inv, Drained, ServersFollow, lifeVars, stopVars, Running, Stopping, Open
<1>5. RequestsFollow'
  BY DEF Inv, Drained, RequestsFollow, lifeVars, stopVars, Alive, Ended, Running, Open
<1>6. NothingIsRefused' /\ DeathIsKnown'
  BY DEF Inv, Drained, NothingIsRefused, DeathIsKnown, lifeVars, stopVars, Running, Open
<1> QED BY <1>1, <1>2, <1>3, <1>4, <1>5, <1>6 DEF Inv

-----------------------------------------------------------------------------
(* Termination and traffic *)

LEMMA SignalInv ==
    ASSUME Inv, Signal
    PROVE  Inv'
<1>1. CASE stopper = "none"
  BY <1>1, DeathInv DEF Signal
<1>2. CASE stopper # "none"
  <2>1. UNCHANGED <<lifeVars, stopper, left, settle, cancelled, srv, failed, routed, req>>
        /\ signalled' = TRUE
    BY <1>2 DEF Signal, lifeVars
  <2>2. TypeOK' /\ Ordered' /\ DelayCovers'
    BY <2>1 DEF Inv, TypeOK, Ordered, DelayCovers, lifeVars, Stopping
  <2>3. ServersFollow' /\ RequestsFollow'
    BY <2>1 DEF Inv, ServersFollow, RequestsFollow, lifeVars, Stopping, Alive
  <2>4. NothingIsRefused' /\ DeathIsKnown'
    BY <1>2, <2>1 DEF Inv, NothingIsRefused, DeathIsKnown, lifeVars
  <2> QED BY <2>2, <2>3, <2>4 DEF Inv
<1> QED BY <1>1, <1>2

LEMMA WakeInv ==
    ASSUME Inv, Wake
    PROVE  Inv'
<1>1. main = "wait" /\ stopper = "select" /\ app.logger # "none"
  BY DEF Wake, Inv, Ordered, Alive, Ended
<1>2. CASE /\ signalled /\ app.delay > 0 /\ app.logger # "valid"
           /\ stopper' = "sleeping" /\ left' = app.delay /\ End("dead")
           /\ UNCHANGED <<app, cleanups, signalled, settle, cancelled, srv, failed, routed>>
  <2>1. app.logger = "wrapped"
    BY <1>1, <1>2 DEF Inv, TypeOK
  <2> QED BY <1>1, <1>2, <2>1, DeathInv DEF Wake
<1>3. CASE /\ signalled /\ app.delay > 0
           /\ stopper' = "sleeping" /\ left' = app.delay
           /\ UNCHANGED <<lifeVars, signalled, settle, cancelled, srv, failed, routed, req>>
  <2>1. TypeOK'
    BY <1>3, DelayIsInt DEF Inv, TypeOK, lifeVars
  <2>2. Ordered'
    BY <1>1, <1>3 DEF Inv, Ordered, lifeVars, Stopping
  <2>3. DelayCovers'
    BY <1>3, DelayIsInt DEF Inv, TypeOK, DelayCovers, lifeVars
  <2>4. ServersFollow' /\ RequestsFollow'
    BY <1>1, <1>3 DEF Inv, ServersFollow, RequestsFollow, lifeVars, Stopping, Alive
  <2>5. NothingIsRefused' /\ DeathIsKnown'
    BY <1>1, <1>3 DEF Inv, NothingIsRefused, DeathIsKnown, lifeVars
  <2> QED BY <2>1, <2>2, <2>3, <2>4, <2>5 DEF Inv
<1>4. CASE /\ stopper' = "done"
           /\ \/ signalled /\ app.delay <= 0 /\ cancelled' = TRUE
              \/ Stopping /\ UNCHANGED cancelled
           /\ UNCHANGED <<lifeVars, left, signalled, settle, srv, failed, routed, req>>
  <2>1. TypeOK'
    BY <1>4 DEF Inv, TypeOK, lifeVars
  <2>5. Ordered'
    BY <1>1, <1>4 DEF Inv, Ordered, lifeVars, Stopping
  <2>2. DelayCovers'
    BY <1>1, <1>4, DelayIsInt DEF Inv, TypeOK, Ordered, DelayCovers, lifeVars
  <2>3. ServersFollow' /\ RequestsFollow'
    BY <1>1, <1>4 DEF Inv, ServersFollow, RequestsFollow, lifeVars, Stopping, Alive
  <2>4. NothingIsRefused' /\ DeathIsKnown'
    BY <1>1, <1>4 DEF Inv, NothingIsRefused, DeathIsKnown, lifeVars
  <2> QED BY <2>1, <2>2, <2>3, <2>4, <2>5 DEF Inv
<1> QED BY <1>2, <1>3, <1>4 DEF Wake, lifeVars

LEMMA SleepEndsInv ==
    ASSUME Inv, SleepEnds
    PROVE  Inv'
<1>1. TypeOK'
  BY DEF Inv, SleepEnds, TypeOK, lifeVars, stopVars, Alive, Ended
<1>2. Ordered'
  BY DEF Inv, SleepEnds, Ordered, lifeVars, stopVars, Alive, Ended, Stopping
<1>3. DelayCovers'
  BY DelayIsInt DEF Inv, SleepEnds, TypeOK, DelayCovers, lifeVars
<1>4. ServersFollow'
  BY DEF Inv, SleepEnds, ServersFollow, lifeVars, stopVars, Alive, Ended, Stopping
<1>5. RequestsFollow'
  BY DEF Inv, SleepEnds, RequestsFollow, lifeVars, stopVars, Alive, Ended
<1>6. NothingIsRefused' /\ DeathIsKnown'
  BY DEF Inv, SleepEnds, NothingIsRefused, DeathIsKnown, lifeVars, stopVars, Alive, Ended
<1> QED BY <1>1, <1>2, <1>3, <1>4, <1>5, <1>6 DEF Inv

LEMMA TickInv ==
    ASSUME Inv, Tick
    PROVE  Inv'
<1>1. TypeOK'
  BY DelayIsInt DEF Inv, Tick, TypeOK, lifeVars, Ended
<1>2. Ordered'
  BY DEF Inv, Tick, Ordered, lifeVars, stopVars, Stopping
<1>3. DelayCovers'
  BY DelayIsInt DEF Inv, Tick, TypeOK, DelayCovers, lifeVars
<1>4. ServersFollow'
  BY DEF Inv, Tick, ServersFollow, lifeVars, stopVars, Stopping
<1>5. RequestsFollow'
  BY DEF Inv, Tick, RequestsFollow, lifeVars, stopVars, Alive, Ended
<1>6. NothingIsRefused' /\ DeathIsKnown'
  BY DEF Inv, Tick, NothingIsRefused, DeathIsKnown, lifeVars, stopVars
<1> QED BY <1>1, <1>2, <1>3, <1>4, <1>5, <1>6 DEF Inv

LEMMA JoinInv ==
    ASSUME Inv, NEW s \in Server, Join(s)
    PROVE  Inv'
<1>1. TypeOK'
  BY DEF Inv, Join, TypeOK, lifeVars, stopVars, Alive, Ended
<1>2. Ordered'
  BY DEF Inv, Join, Ordered, lifeVars, stopVars, Alive, Ended, Stopping
<1>3. DelayCovers'
  BY DEF Inv, Join, DelayCovers, lifeVars, stopVars, Alive, Ended
<1>4. ServersFollow'
  BY DEF Inv, Join, ServersFollow, lifeVars, stopVars, Alive, Ended, Stopping
<1>5. RequestsFollow'
  BY DEF Inv, Join, RequestsFollow, lifeVars, stopVars, Alive, Ended
<1>6. NothingIsRefused' /\ DeathIsKnown'
  BY DEF Inv, Join, NothingIsRefused, DeathIsKnown, lifeVars, stopVars, Alive, Ended
<1> QED BY <1>1, <1>2, <1>3, <1>4, <1>5, <1>6 DEF Inv

LEMMA ArriveInv ==
    ASSUME Inv, NEW r \in Request, NEW s \in Server, Arrive(r, s)
    PROVE  Inv'
<1>1. TypeOK'
  BY DEF Inv, Arrive, TypeOK, lifeVars, stopVars, Alive, Ended, NoRequest
<1>2. Ordered'
  BY DEF Inv, Arrive, Ordered, lifeVars, stopVars, Alive, Ended, Stopping, NoRequest
<1>3. DelayCovers'
  BY DEF Inv, Arrive, DelayCovers, lifeVars, stopVars, Alive, Ended, NoRequest
<1>4. ServersFollow'
  BY DEF Inv, Arrive, ServersFollow, lifeVars, stopVars, Alive, Ended, Stopping, NoRequest
<1>5. RequestsFollow'
  BY DEF Inv, Arrive, RequestsFollow, lifeVars, stopVars, Alive, Ended, NoRequest
<1>6. NothingIsRefused'
  <2>1. CASE ~ (Alive /\ srv[s] = "up")
    <3>1. srv[s] # "new" /\ srv[s] \in {"new", "up", "broken", "draining", "down"}
      BY DEF Arrive, Inv, TypeOK, ServersFollow
    <3>2. UNCHANGED <<main, app, failed>>
      BY DEF Arrive, lifeVars
    <3>3. app.delay \in Int /\ LbDelay \in Int
      BY DelayIsInt DEF Inv
    <3>4. ASSUME main = "dead" PROVE NothingIsRefused'
      BY <3>2, <3>4 DEF NothingIsRefused
    <3>5. ASSUME main # "dead" PROVE NothingIsRefused'
      <4>1. Stopping \/ failed
        BY <2>1, <3>1, <3>5 DEF Inv, Ordered, ServersFollow, Alive, Ended, Arrive
      <4>2. ~ (cancelled /\ app.delay >= LbDelay)
        BY <3>3 DEF Inv, Ordered, DelayCovers, Arrive
      <4>3. failed \/ app.delay < LbDelay
        BY <4>1, <4>2, <3>3 DEF Stopping
      <4> QED BY <3>2, <4>3 DEF NothingIsRefused
    <3> QED BY <3>4, <3>5
  <2>2. CASE Alive /\ srv[s] = "up"
    <3>1. req' = [req EXCEPT ![r] = [is |-> "open", at |-> s]]
      BY <2>2 DEF Arrive
    <3> QED BY <3>1 DEF Inv, TypeOK, Arrive, NothingIsRefused, lifeVars, stopVars
  <2> QED BY <2>1, <2>2
<1>7. DeathIsKnown'
  <2>1. \A q \in Request : req[q].is = "cut" => req'[q] = req[q]
    BY DEF Arrive, Inv, TypeOK, NoRequest
  <2>2. UNCHANGED <<main, app, signalled, stopper>>
    BY DEF Arrive, lifeVars, stopVars
  <2> QED BY <2>1, <2>2 DEF Inv, DeathIsKnown
<1> QED BY <1>1, <1>2, <1>3, <1>4, <1>5, <1>6, <1>7 DEF Inv

LEMMA FinishInv ==
    ASSUME Inv, NEW r \in Request, Finish(r)
    PROVE  Inv'
<1>1. TypeOK'
  BY DEF Inv, Finish, TypeOK, lifeVars, stopVars, Alive, Ended, NoRequest
<1>2. Ordered'
  BY DEF Inv, Finish, Ordered, lifeVars, stopVars, Alive, Ended, Stopping
<1>3. DelayCovers'
  BY DEF Inv, Finish, DelayCovers, lifeVars, stopVars, Alive, Ended
<1>4. ServersFollow'
  BY DEF Inv, Finish, ServersFollow, lifeVars, stopVars, Alive, Ended, Stopping
<1>5. RequestsFollow'
  BY DEF Inv, Finish, RequestsFollow, lifeVars, stopVars, Alive, Ended, NoRequest
<1>6. NothingIsRefused' /\ DeathIsKnown'
  BY DEF Inv, Finish, NothingIsRefused, DeathIsKnown, lifeVars, stopVars, Alive, Ended
<1> QED BY <1>1, <1>2, <1>3, <1>4, <1>5, <1>6 DEF Inv

-----------------------------------------------------------------------------
LEMMA HandlerPanicsInv ==
    ASSUME Inv, NEW r \in Request, HandlerPanics(r)
    PROVE  Inv'
BY DeathInv DEF HandlerPanics, stopVars

LEMMA NextInv == Inv /\ [Next]_vars => Inv'
<1> SUFFICES ASSUME Inv, [Next]_vars PROVE Inv'
  OBVIOUS
<1>1. CASE UNCHANGED vars
  <2>1. TypeOK' /\ Ordered' /\ DelayCovers'
    BY <1>1 DEF Inv, vars, lifeVars, stopVars, TypeOK, Ordered, DelayCovers, Stopping
  <2>2. ServersFollow' /\ RequestsFollow'
    BY <1>1 DEF Inv, vars, lifeVars, stopVars, ServersFollow, RequestsFollow, Stopping, Alive
  <2>3. NothingIsRefused' /\ DeathIsKnown'
    BY <1>1 DEF Inv, vars, lifeVars, stopVars, NothingIsRefused, DeathIsKnown
  <2> QED BY <2>1, <2>2, <2>3 DEF Inv
<1>2. CASE MainStep
  BY <1>2, NewAppWithOptionsInv, LaunchInv, NotifyInv, AppReturnsInv, CleanupInv DEF MainStep
<1>3. CASE Signal \/ Wake \/ SleepEnds \/ Tick
  BY <1>3, SignalInv, WakeInv, SleepEndsInv, TickInv
<1>4. CASE \E s \in Server : ServerStep(s) \/ ServerFails(s) \/ Join(s)
  BY <1>4, StartServerInv, StopServerInv, DrainedInv, ServerFailsInv, JoinInv DEF ServerStep
<1>5. CASE \E r \in Request : Finish(r) \/ HandlerPanics(r) \/ \E s \in Server : Arrive(r, s)
  BY <1>5, FinishInv, HandlerPanicsInv, ArriveInv
<1> QED BY <1>1, <1>2, <1>3, <1>4, <1>5 DEF Next

THEOREM Invariance == Spec => []Inv
BY InitInv, NextInv, PTL DEF Spec, SafetySpec

\* Type correctness, for any servers, requests, delays and load balancers.
THEOREM TypeCorrect == Spec => []TypeOK
<1>1. Inv => TypeOK
  BY DEF Inv
<1> QED BY <1>1, Invariance, PTL

\* A delay of at least the time the load balancer takes makes termination
\* invisible (bootstrap.go:82-88), whatever else happens to the process.
THEOREM NothingIsRefusedTheorem == Spec => []NothingIsRefused
<1>1. Inv => NothingIsRefused
  BY DEF Inv
<1> QED BY <1>1, Invariance, PTL

\* The cleanup of initApp (context.go:138) never closes what a handler uses.
THEOREM CleanupIsLastTheorem == Spec => []CleanupIsLast
<1>1. Inv => CleanupIsLast
  <2> SUFFICES ASSUME Inv, cleanups = 1 PROVE CleanupIsLast
    BY DEF CleanupIsLast
  <2>1. main \in {"returned", "panicked"}
    BY DEF Inv, Ordered
  <2>2. \A r \in Request : req[r].is \notin {"open", "cut"}
    BY <2>1 DEF Inv, RequestsFollow, Alive, Ended
  <2>3. /\ stopper \in {"none", "done"}
        /\ stopper = "done" => \A s \in Server : srv[s] = "down"
    BY <2>1 DEF Inv, ServersFollow
  <2> QED BY <2>2, <2>3 DEF CleanupIsLast
<1> QED BY <1>1, Invariance, PTL

\* A process that has let a request in skips its cleanup only over a signal before
\* Notify or a handler that panics at a server without recovery (grpc.go:184).
THEOREM LateDeathsAreHandlersTheorem == Spec => []LateDeathsAreHandlers
<1>1. Inv => LateDeathsAreHandlers
  <2> SUFFICES ASSUME Inv, main = "dead", NEW r \in Request, req[r].is \in {"served", "cut"}
               PROVE  \/ signalled /\ stopper = "none"
                      \/ \E q \in Request : req[q].is = "cut" /\ req[q].at \in app.bare
    BY DEF LateDeathsAreHandlers
  <2>1. req[r].at \in routed
    BY DEF Inv, RequestsFollow, NoRequest
  <2>2. app.logger # "wrapped"
    BY <2>1 DEF Inv, ServersFollow
  <2> QED BY <2>2 DEF Inv, DeathIsKnown
<1> QED BY <1>1, Invariance, PTL

-----------------------------------------------------------------------------
(* The data clients: what a constructor may do *)

\* What an outcome of a constructor tells of the sections.
OutcomeSound(c, o) ==
    /\ o.how \in {"returns", "error", "panic", "exit"}
    /\ o.how = "returns" =>
        /\ o.client.kind \in {c, "nil"}
        /\ c = "opensearch" =>
            /\ SectionOf("opensearch") # Absent
            /\ o.client = OpenSearchClient(SectionOf("opensearch"))
            /\ LET s == SectionOf("opensearch")
               IN  s.tls # Absent => LoadCACertData(s.tls) # Absent

LEMMA EntOutcome == ASSUME NEW o \in NewEntClient PROVE OutcomeSound("ent", o)
<1> DEFINE d == SectionOf("database")
<1>1. CASE d = Absent \/ ~ creator
  <2>1. o = Returns(NilClient)
    BY <1>1 DEF NewEntClient
  <2> QED BY <2>1 DEF OutcomeSound, Returns, NilClient
<1>2. CASE d # Absent /\ creator /\ d.driver \notin Driver
  <2>1. o = Ends("exit")
    BY <1>2 DEF NewEntClient
  <2> QED BY <2>1 DEF OutcomeSound, Ends
<1>3. CASE d # Absent /\ creator /\ d.driver \in Driver
  <2>1. o = Returns([kind |-> "ent", pool |-> <<d.max_idle_connections,
                                                d.max_open_connections>>])
    BY <1>3 DEF NewEntClient
  <2>2. o.how = "returns" /\ o.client.kind = "ent"
    BY <2>1 DEF Returns
  <2> QED BY <2>2 DEF OutcomeSound
<1> QED BY <1>1, <1>2, <1>3

LEMMA ElasticsearchOutcome ==
    ASSUME NEW o \in NewElasticsearchClient PROVE OutcomeSound("elasticsearch", o)
<1> DEFINE e == SectionOf("elasticsearch")
<1>1. CASE o \in {Ends("panic"), Ends("exit")}
  BY <1>1 DEF OutcomeSound, Ends
<1>2. CASE o \notin {Ends("panic"), Ends("exit")}
  <2>1. o = Returns([kind |-> "elasticsearch", addresses |-> e.addresses])
    BY <1>2 DEF NewElasticsearchClient
  <2>2. o.how = "returns" /\ o.client.kind = "elasticsearch"
    BY <2>1 DEF Returns
  <2> QED BY <2>2 DEF OutcomeSound
<1> QED BY <1>1, <1>2

LEMMA OpenSearchOutcome ==
    ASSUME NEW o \in NewOpenSearchClient PROVE OutcomeSound("opensearch", o)
<1> DEFINE s == SectionOf("opensearch")
<1>1. CASE o = Ends("error")
  BY <1>1 DEF OutcomeSound, Ends
<1>2. CASE o # Ends("error")
  <2>1. s # Absent /\ ~ (s.tls # Absent /\ LoadCACertData(s.tls) = Absent)
    BY <1>2 DEF NewOpenSearchClient
  <2>2. o = Returns(OpenSearchClient(s))
    BY <1>2, <2>1 DEF NewOpenSearchClient
  <2>3. o.how = "returns" /\ o.client = OpenSearchClient(s)
    BY <2>2 DEF Returns
  <2>4. o.client.kind = "opensearch"
    BY <2>3 DEF OpenSearchClient
  <2> HIDE DEF s
  <2>5. s = SectionOf("opensearch")
    BY DEF s
  <2> QED BY <2>1, <2>3, <2>4, <2>5 DEF OutcomeSound
<1> QED BY <1>1, <1>2

LEMMA RedisOutcome == ASSUME NEW o \in NewRedisClient PROVE OutcomeSound("redis", o)
<1> DEFINE r == SectionOf("redis")
<1>1. CASE o = Ends("exit")
  BY <1>1 DEF OutcomeSound, Ends
<1>2. CASE o # Ends("exit")
  <2> DEFINE addr == IF r = Absent THEN "" ELSE r.addr
             client == [kind |-> "redis", addr |-> IF addr = "" THEN "localhost:6379" ELSE addr]
  <2>1. o = Returns(client)
    BY <1>2 DEF NewRedisClient
  <2>2. o.how = "returns" /\ o.client.kind = "redis"
    BY <2>1 DEF Returns
  <2> QED BY <2>2 DEF OutcomeSound
<1> QED BY <1>1, <1>2

\* Every constructor keeps to it, for any section.
LEMMA OutcomesAreSound ==
    ASSUME NEW c \in Client, NEW o \in Outcomes(c)
    PROVE  OutcomeSound(c, o)
<1>1. CASE c = "ent"
  BY <1>1, EntOutcome DEF Outcomes
<1>2. CASE c = "elasticsearch"
  BY <1>2, ElasticsearchOutcome DEF Outcomes
<1>3. CASE c = "opensearch"
  BY <1>3, OpenSearchOutcome DEF Outcomes
<1>4. CASE c = "redis"
  BY <1>4, RedisOutcome DEF Outcomes
<1> QED BY <1>1, <1>2, <1>3, <1>4 DEF Client

-----------------------------------------------------------------------------
(* The data clients: the invariant *)

\* The OpenSearch client is the one its constructor makes of section, caller and files,
\* however many constructors have been called since.
OpenSearchIsExplained ==
    LET s == SectionOf("opensearch")
    IN  clients["opensearch"] # NilClient =>
            /\ s # Absent
            /\ clients["opensearch"] = OpenSearchClient(s)
            /\ s.tls # Absent => LoadCACertData(s.tls) # Absent

DataInv == DataTypeOK /\ OpenSearchIsExplained

\* What is assumed of the orders.
LEMMA OrdersAre == \A o \in Order : o \in Seq(Client)
BY DataAssumption

LEMMA DataInitInv == DataInit => DataInv
<1> SUFFICES ASSUME DataInit PROVE DataInv
  OBVIOUS
<1>1. \A c \in Client : clients[c] = NilClient /\ clients[c].kind = "nil"
  BY DEF DataInit, NilClient
<1>2. order \in Order
  BY DEF DataInit
<1>3. order \in Seq(Client)
  BY <1>2, OrdersAre
<1>4. built = 0 /\ 0 \in 0..Len(order)
  <2>1. Len(order) \in Nat
    BY <1>3
  <2>2. built = 0
    BY DEF DataInit
  <2> QED BY <2>1, <2>2
<1>5. /\ data \in Setting /\ creator \in BOOLEAN /\ opts \in Option /\ reachable \in BOOLEAN
      /\ files \in [File -> Pem \cup {"", Absent}] /\ DOMAIN clients = Client
      /\ pc = "building"
  BY DEF DataInit
<1>6. DataTypeOK
  BY <1>1, <1>2, <1>4, <1>5 DEF DataTypeOK
<1>7. OpenSearchIsExplained
  BY <1>1 DEF OpenSearchIsExplained, Client
<1> QED BY <1>6, <1>7 DEF DataInv

\* The constructor that is called next is one of the four.
LEMMA NextIsAClient ==
    ASSUME DataTypeOK, built < Len(order)
    PROVE  Calling \in Client /\ built + 1 \in 0..Len(order)
<1>1. order \in Order /\ built \in 0..Len(order)
  BY DEF DataTypeOK
<1>2. order \in Seq(Client)
  BY <1>1, OrdersAre
<1>3. Len(order) \in Nat /\ \A i \in 1..Len(order) : order[i] \in Client
  BY <1>2
<1>4. built + 1 \in 1..Len(order)
  BY <1>1, <1>3
<1> QED BY <1>3, <1>4 DEF Calling

\* What the section explains stays explained when no client changes.
LEMMA ExplainedStays ==
    ASSUME OpenSearchIsExplained, UNCHANGED program,
           clients'["opensearch"] = clients["opensearch"]
    PROVE  OpenSearchIsExplained'
<1>1. UNCHANGED <<data, opts, files>>
  BY DEF program
<1>2. SectionOf("opensearch")' = SectionOf("opensearch")
  BY <1>1 DEF SectionOf
<1> QED BY <1>1, <1>2
     DEF OpenSearchIsExplained, OpenSearchClient, FromSection, LoadCACertData

\* A constructor returned, and initApp goes on.
LEMMA BuiltInv ==
    ASSUME DataInv, built < Len(order), NEW o \in Outcomes(Calling), o.how = "returns",
           built' = built + 1, clients' = [clients EXCEPT ![Calling] = o.client],
           UNCHANGED <<program, pc, reachable>>
    PROVE  DataInv'
<1> DEFINE c == Calling
<1>1. c \in Client /\ built + 1 \in 0..Len(order)
  BY NextIsAClient DEF DataInv
<1>2. OutcomeSound(c, o)
  BY <1>1, OutcomesAreSound
<1>3. UNCHANGED <<data, order, creator, opts, files, pc, reachable>>
  BY DEF program
<1> HIDE DEF c
<1>4. /\ DOMAIN clients' = Client
      /\ \A d \in Client : clients'[d] = IF d = c THEN o.client ELSE clients[d]
  BY <1>1 DEF DataInv, DataTypeOK, c
<1>5. DataTypeOK'
  <2>1. \A d \in Client : clients'[d].kind \in {d, "nil"}
    BY <1>2, <1>4 DEF DataInv, DataTypeOK, OutcomeSound
  <2> QED BY <1>1, <1>3, <1>4, <2>1 DEF DataInv, DataTypeOK
<1>6. OpenSearchIsExplained'
  <2>1. "opensearch" \in Client
    BY DEF Client
  <2>2. SectionOf("opensearch")' = SectionOf("opensearch")
    BY <1>3 DEF SectionOf
  <2>3. CASE c = "opensearch"
    <3>1. clients'["opensearch"] = o.client
      BY <1>4, <2>1, <2>3
    <3>2. LET s == SectionOf("opensearch")
          IN  /\ s # Absent /\ o.client = OpenSearchClient(s)
              /\ s.tls # Absent => LoadCACertData(s.tls) # Absent
      BY <1>2, <2>3 DEF OutcomeSound
    <3>3. \A s : OpenSearchClient(s)' = OpenSearchClient(s)
                 /\ LoadCACertData(s.tls)' = LoadCACertData(s.tls)
      BY <1>3 DEF OpenSearchClient, FromSection, LoadCACertData
    <3> QED BY <2>2, <3>1, <3>2, <3>3 DEF OpenSearchIsExplained
  <2>4. CASE c # "opensearch"
    BY <1>4, <2>1, <2>4, ExplainedStays DEF DataInv
  <2> QED BY <2>3, <2>4
<1> QED BY <1>5, <1>6 DEF DataInv

LEMMA BuildInv == ASSUME DataInv, Build PROVE DataInv'
<1>1. PICK o \in Outcomes(Calling) :
        IF o.how = "returns"
        THEN /\ built' = built + 1
             /\ clients' = [clients EXCEPT ![Calling] = o.client]
             /\ UNCHANGED pc
        ELSE pc' = o.how /\ UNCHANGED <<built, clients>>
  BY DEF Build
<1>2. built < Len(order) /\ UNCHANGED <<program, reachable>>
  BY DEF Build
<1>3. CASE o.how = "returns"
  BY <1>1, <1>2, <1>3, BuiltInv
<1>4. CASE o.how # "returns"
  <2>1. OutcomeSound(Calling, o)
    BY <1>2, NextIsAClient, OutcomesAreSound DEF DataInv
  <2>2. pc' \in {"error", "panic", "exit"}
    BY <1>1, <1>4, <2>1 DEF OutcomeSound
  <2>3. DataTypeOK'
    BY <1>1, <1>2, <1>4, <2>2 DEF DataInv, DataTypeOK, program
  <2> QED BY <1>1, <1>2, <1>4, <2>3, ExplainedStays DEF DataInv
<1> QED BY <1>3, <1>4

LEMMA DataNextInv == DataInv /\ [DataNext]_dataVars => DataInv'
<1> SUFFICES ASSUME DataInv, [DataNext]_dataVars PROVE DataInv'
  OBVIOUS
<1>1. CASE Build
  BY <1>1, BuildInv
<1>2. CASE Serve \/ ServerChanges \/ UNCHANGED dataVars
  <2>1. UNCHANGED <<program, built, clients>> /\ pc' \in {pc, "up"} /\ reachable' \in BOOLEAN
    BY <1>2 DEF Serve, ServerChanges, dataVars, DataInv, DataTypeOK
  <2>2. DataTypeOK'
    BY <2>1 DEF DataInv, DataTypeOK, program
  <2> QED BY <2>1, <2>2, ExplainedStays DEF DataInv
<1> QED BY <1>1, <1>2 DEF DataNext

\* The inductive invariant of the constructors.
THEOREM DataInvariance == DataSpec => []DataInv
BY DataInitInv, DataNextInv, PTL DEF DataSpec

\* The OpenSearch client a program gets has the options of its caller, then the optional
\* fields of its section and no others, and the CA of its TLS section unless that is an
\* empty file, for any sections, files, options and orders (data/opensearch/client.go:12-113).
THEOREM ClientsAreSoundTheorem == DataSpec => []ClientsAreSound
<1>1. DataInv => OpenSearchFollowsItsSection
  <2> DEFINE set == clients["opensearch"].set
             o == SectionOf("opensearch")
             S == FromSection(o)
             ca == LoadCACertData(o.tls)
  <2> SUFFICES ASSUME DataInv, clients["opensearch"] # NilClient
               PROVE  OpenSearchFollowsItsSection
    BY DEF OpenSearchFollowsItsSection
  <2>1. /\ clients["opensearch"] = OpenSearchClient(o)
        /\ o.tls # Absent => ca # Absent
    BY DEF DataInv, OpenSearchIsExplained
  <2>2. set = [f \in S \cup DOMAIN opts |-> IF f \in DOMAIN opts THEN opts[f]
                                            ELSE IF f = "ca" THEN ca ELSE o[f]]
    BY <2>1 DEF OpenSearchClient
  <2>3. /\ \A f \in OptionalField : f \in S <=> o[f] # Absent
        /\ "ca" \in S <=> o.tls # Absent /\ ca # ""
    BY DEF FromSection, OptionalField
  <2>4. "ca" \notin OptionalField
    BY DEF OptionalField
  <2> HIDE DEF S
  <2>5. \A f \in DOMAIN opts : f \in DOMAIN set /\ set[f] = opts[f]
    BY <2>2
  <2>6. ASSUME NEW f \in OptionalField \ DOMAIN opts
        PROVE  IF o[f] = Absent THEN f \notin DOMAIN set ELSE f \in DOMAIN set /\ set[f] = o[f]
    BY <2>2, <2>3, <2>4
  <2>7. ASSUME "ca" \notin DOMAIN opts
        PROVE  /\ "ca" \in DOMAIN set <=> o.tls # Absent /\ ca # ""
               /\ "ca" \in DOMAIN set => set["ca"] = ca
    BY <2>2, <2>3, <2>7
  <2>8. ASSUME o.tls # Absent, o.tls.file # Absent
        PROVE  ca = files[o.tls.file.ca_path]
    BY <2>1, <2>8 DEF LoadCACertData
  <2>9. ASSUME o.tls # Absent, o.tls.file = Absent
        PROVE  ca = o.tls.config.ca_pem /\ ca # ""
    BY <2>1, <2>9 DEF LoadCACertData
  <2>10. ASSUME "ca" \notin DOMAIN opts
         PROVE  /\ o.tls = Absent => "ca" \notin DOMAIN set
                /\ o.tls # Absent /\ o.tls.file # Absent =>
                    LET held == files[o.tls.file.ca_path]
                    IN  IF "ca" \in DOMAIN set THEN set["ca"] = held ELSE held = ""
                /\ o.tls # Absent /\ o.tls.file = Absent =>
                    "ca" \in DOMAIN set /\ set["ca"] = o.tls.config.ca_pem
    <3> HIDE DEF set, ca
    <3> QED BY <2>7, <2>8, <2>9, <2>10
  <2> QED BY <2>5, <2>6, <2>10 DEF OpenSearchFollowsItsSection
<1>2. DataInv => ClientsAreSound
  BY <1>1 DEF DataInv, ClientsAreSound
<1> QED BY <1>2, DataInvariance, PTL
=============================================================================
