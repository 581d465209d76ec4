------------------------- MODULE MetricsInitProofs -------------------------
(***************************************************************************)
(* Proofs about MetricsInit, for every set of goroutines, every set of     *)
(* exporter lists and every number of calls.                               *)
(***************************************************************************)
EXTENDS MetricsInit, FiniteSetTheorems, TLAPS

\* At most one goroutine is inside the closure, and only while the Once runs.
OneSetup ==
    /\ \A c, d \in Caller : (pc[c] \in SetupPC /\ pc[d] \in SetupPC) => c = d
    /\ \A c \in Caller : pc[c] \in SetupPC => once = "running"
    /\ \A c \in Caller : pc[c] = "return" => once = "done"
    /\ synced # {} => once = "done"
    /\ (\E c \in Caller : ret[c] \in Result) => once = "done"

\* What the closure has done so far, by the statement it is at.
Before ==
    /\ otelProvider = NoProvider
    /\ instruments = 0
    /\ promHTTP = FALSE
    /\ initErr = "nil"

SetupSoFar ==
    /\ once = "new" => Before
    /\ \A c \in Caller :
        /\ pc[c] \in {"readers", "resource", "provider"} => Before
        /\ pc[c] \in {"instruments", "handler"} =>
              otelProvider = cfg[c] /\ promHTTP = FALSE
        /\ pc[c] = "handler" => instruments = ClientSeconds
        /\ pc[c] = "publishErr" => (setupErr = "nil" => Complete)
        /\ pc[c] = "publishFlag" => (initErr = "nil" => Complete)
        /\ pc[c] \in SetupPC \ {"release"} => ~ initialized
        /\ pc[c] = "release" => (initialized <=> initErr = "nil")
    /\ once = "new" => ~ initialized
    /\ once = "done" => (initialized <=> initErr = "nil")
    /\ initialized => Complete

\* Answers and servers reflect the settled result.
Observed ==
    /\ \A c \in Caller : ret[c] \in Result => ret[c] = initErr
    /\ \A c \in Caller : endpoint[c].handler = "live" => initialized
    /\ \A c \in Caller : endpoint[c].inSync =>
        /\ once = "done"
        /\ endpoint[c].handler = IF initialized /\ promHTTP THEN "live" ELSE "notFound"
        /\ initialized => endpoint[c].requests /\ endpoint[c].seconds

\* Only a validated list reaches the provider.
Validated ==
    /\ \A c \in Caller : pc[c] # "idle" => ValidateConfig(cfg[c])
    /\ otelProvider # NoProvider => ValidateConfig(otelProvider)

Inv == TypeOK /\ OneSetup /\ SetupSoFar /\ Observed /\ Validated

-----------------------------------------------------------------------------
(* The invariant holds initially and is kept by every action *)

LEMMA InitInv == Init => Inv
<1> SUFFICES ASSUME Init PROVE Inv
  OBVIOUS
<1> USE MetricsAssumption DEF Init
<1>1. TypeOK
  <2>1. endpoint \in [Caller -> Endpoint]
    BY DEF Endpoint, NoServer
  <2>2. cfg \in [Caller -> Seq(AnyExporter)]
    OBVIOUS
  <2>3. pc \in [Caller -> PC] /\ ret \in [Caller -> Result \cup {Unset, Refused}]
    BY DEF PC
  <2>4. calls \in 0..MaxCalls /\ instruments \in 0..ClientSeconds
    BY DEF ClientSeconds
  <2> QED BY <2>1, <2>2, <2>3, <2>4 DEF TypeOK, Result
<1>2. OneSetup
  BY DEF OneSetup, SetupPC
<1>3. SetupSoFar
  BY DEF SetupSoFar, Before
<1>4. Observed
  BY DEF Observed, NoServer
<1>5. Validated
  BY DEF Validated
<1> QED BY <1>1, <1>2, <1>3, <1>4, <1>5 DEF Inv

LEMMA CallInvalidInv ==
    ASSUME Inv, NEW c \in Caller, NEW e \in Configs, CallInvalid(c, e)
    PROVE  Inv'
<1> USE DEF CallInvalid, Inv, At, Goto, callVars, setupVars
<1>1. TypeOK'
  BY MetricsAssumption DEF TypeOK
<1>2. OneSetup'
  BY MetricsAssumption DEF OneSetup
<1>3. SetupSoFar'
  BY DEF SetupSoFar, Before, Complete
<1>4. Observed'
  BY MetricsAssumption DEF Observed
<1>5. Validated'
  BY DEF Validated
<1> QED BY <1>1, <1>2, <1>3, <1>4, <1>5

LEMMA CallInv == ASSUME Inv, NEW c \in Caller, NEW e \in Configs, Call(c, e) PROVE Inv'
<1> USE DEF Call, Inv, At, Goto, callVars, setupVars
<1>1. TypeOK'
  BY MetricsAssumption DEF TypeOK, PC
<1>2. OneSetup'
  BY MetricsAssumption DEF OneSetup, SetupPC
<1>3. SetupSoFar'
  BY DEF SetupSoFar, Before, Complete, SetupPC
<1>4. Observed'
  BY MetricsAssumption DEF Observed
<1>5. Validated'
  BY DEF TypeOK, Validated
<1> QED BY <1>1, <1>2, <1>3, <1>4, <1>5

LEMMA EnterInv == ASSUME Inv, NEW c \in Caller, Enter(c) PROVE Inv'
<1> USE DEF Enter, Inv, At, Goto, callVars, setupVars
<1>1. TypeOK'
  BY DEF TypeOK, PC
<1>2. OneSetup'
  BY DEF OneSetup
<1>3. SetupSoFar'
  BY DEF SetupSoFar, Before, Complete
<1>4. Observed'
  BY DEF Observed
<1>5. Validated'
  BY DEF Validated
<1> QED BY <1>1, <1>2, <1>3, <1>4, <1>5

LEMMA PassInv == ASSUME Inv, NEW c \in Caller, Pass(c) PROVE Inv'
<1> USE DEF Pass, Inv, At, Goto, callVars, setupVars
<1>1. TypeOK'
  BY DEF TypeOK, PC
<1>2. OneSetup'
  BY DEF OneSetup, SetupPC
<1>3. SetupSoFar'
  BY DEF TypeOK, OneSetup, SetupSoFar, Complete, SetupPC
<1>4. Observed'
  BY DEF Observed
<1>5. Validated'
  BY DEF Validated
<1> QED BY <1>1, <1>2, <1>3, <1>4, <1>5

LEMMA CreateReaderInv == ASSUME Inv, NEW c \in Caller, CreateReader(c) PROVE Inv'
<1> USE DEF CreateReader, Inv, At, Goto, callVars, setupVars
<1>1. TypeOK'
  BY DEF TypeOK
<1>2. OneSetup'
  BY DEF OneSetup
<1>3. SetupSoFar'
  BY DEF SetupSoFar, Before, Complete
<1>4. Observed'
  BY DEF Observed
<1>5. Validated'
  BY DEF Validated
<1> QED BY <1>1, <1>2, <1>3, <1>4, <1>5

LEMMA ReadersFailInv == ASSUME Inv, NEW c \in Caller, ReadersFail(c) PROVE Inv'
<1> USE DEF ReadersFail, Inv, At, Goto, callVars, setupVars
<1>1. TypeOK'
  BY DEF TypeOK, PC, Result, Fail
<1>2. OneSetup'
  BY DEF TypeOK, OneSetup, SetupPC, Fail
<1>3. SetupSoFar'
  BY DEF SetupSoFar, Before, Complete, Fail
<1>4. Observed'
  BY DEF Observed
<1>5. Validated'
  BY DEF Validated, Fail
<1> QED BY <1>1, <1>2, <1>3, <1>4, <1>5

LEMMA ReadersDoneInv == ASSUME Inv, NEW c \in Caller, ReadersDone(c) PROVE Inv'
<1> USE DEF ReadersDone, Inv, At, Goto, callVars, setupVars
<1>1. TypeOK'
  BY DEF TypeOK, PC
<1>2. OneSetup'
  BY DEF TypeOK, OneSetup, SetupPC
<1>3. SetupSoFar'
  BY DEF SetupSoFar, Before, Complete
<1>4. Observed'
  BY DEF Observed
<1>5. Validated'
  BY DEF Validated
<1> QED BY <1>1, <1>2, <1>3, <1>4, <1>5

LEMMA CreateResourceInv == ASSUME Inv, NEW c \in Caller, CreateResource(c) PROVE Inv'
<1> USE DEF CreateResource, Inv, At, Goto, callVars, setupVars
<1>0. /\ \A d \in Caller : d # c => pc'[d] = pc[d]
      /\ pc[c] \in SetupPC /\ pc'[c] \in SetupPC
  BY DEF TypeOK, Fail, SetupPC, PC
<1>1. TypeOK'
  BY DEF TypeOK, PC, Result, ClientSeconds, Fail
<1>2. OneSetup'
  BY <1>0 DEF OneSetup, SetupPC
<1>3. SetupSoFar'
  BY DEF TypeOK, SetupSoFar, Before, Complete, Fail
<1>4. Observed'
  BY DEF Observed
<1>5. Validated'
  BY DEF TypeOK, Validated, Fail
<1> QED BY <1>1, <1>2, <1>3, <1>4, <1>5

LEMMA InstallProviderInv == ASSUME Inv, NEW c \in Caller, InstallProvider(c) PROVE Inv'
<1> USE DEF InstallProvider, Inv, At, Goto, callVars, setupVars
<1>1. TypeOK'
  BY DEF TypeOK, PC
<1>2. OneSetup'
  BY DEF TypeOK, OneSetup, SetupPC
<1>3. SetupSoFar'
  BY DEF TypeOK, OneSetup, SetupSoFar, Before, SetupPC
<1>4. Observed'
  BY DEF Observed
<1>5. Validated'
  BY DEF Validated
<1> QED BY <1>1, <1>2, <1>3, <1>4, <1>5

LEMMA CreateInstrumentInv == ASSUME Inv, NEW c \in Caller, CreateInstrument(c) PROVE Inv'
<1> USE DEF CreateInstrument, Inv, At, Goto, callVars, setupVars
<1>0. /\ \/ UNCHANGED <<pc, setupErr>>
         \/ pc' = [pc EXCEPT ![c] = "publishErr"] /\ setupErr' = "instruments"
      /\ instruments' \in 0..ClientSeconds
  BY DEF TypeOK, Fail, ClientSeconds
<1>1. TypeOK'
  BY <1>0 DEF TypeOK, PC, Result
<1>2. OneSetup'
  BY <1>0, <1>1 DEF TypeOK, OneSetup, SetupPC, PC
<1>3. SetupSoFar'
  BY <1>1 DEF TypeOK, OneSetup, SetupSoFar, Before, Complete, SetupPC, PC, Fail,
     ClientSeconds
<1>4. Observed'
  BY DEF Observed
<1>5. Validated'
  BY DEF TypeOK, Validated, Fail
<1> QED BY <1>1, <1>2, <1>3, <1>4, <1>5

LEMMA InstrumentsDoneInv == ASSUME Inv, NEW c \in Caller, InstrumentsDone(c) PROVE Inv'
<1> USE DEF InstrumentsDone, Inv, At, Goto, callVars, setupVars
<1>1. TypeOK'
  BY DEF TypeOK, PC
<1>2. OneSetup'
  BY DEF TypeOK, OneSetup, SetupPC
<1>3. SetupSoFar'
  BY DEF TypeOK, OneSetup, SetupSoFar, Complete, SetupPC
<1>4. Observed'
  BY DEF Observed
<1>5. Validated'
  BY DEF Validated
<1> QED BY <1>1, <1>2, <1>3, <1>4, <1>5

LEMMA InstallHandlerInv == ASSUME Inv, NEW c \in Caller, InstallHandler(c) PROVE Inv'
<1> USE DEF InstallHandler, Inv, At, Goto, callVars, setupVars
<1>1. TypeOK'
  BY DEF TypeOK, PC, Result
<1>2. OneSetup'
  BY DEF TypeOK, OneSetup, SetupPC
<1>0. promHTTP' <=> Has(otelProvider', "prometheus")
  BY DEF SetupSoFar, HasPrometheusExporter
<1>a. Complete'
  BY <1>0, MetricsAssumption DEF TypeOK, SetupSoFar, Complete
<1>b. \A d \in Caller : d # c => pc'[d] = pc[d] /\ pc'[d] \notin SetupPC
  BY DEF TypeOK, OneSetup, SetupPC
<1>3. SetupSoFar'
  BY <1>a DEF TypeOK, OneSetup, SetupSoFar, SetupPC
<1>4. Observed'
  BY DEF OneSetup, Observed, SetupPC, PC
<1>5. Validated'
  BY DEF Validated
<1> QED BY <1>1, <1>2, <1>3, <1>4, <1>5

LEMMA PublishErrInv == ASSUME Inv, NEW c \in Caller, PublishErr(c) PROVE Inv'
<1> USE DEF PublishErr, Inv, At, Goto, callVars, setupVars
<1>1. TypeOK'
  BY DEF TypeOK, PC
<1>2. OneSetup'
  BY DEF TypeOK, OneSetup, SetupPC
<1>3. SetupSoFar'
  BY DEF TypeOK, OneSetup, SetupSoFar, Complete, SetupPC
<1>4. Observed'
  BY DEF TypeOK, OneSetup, Observed, SetupPC
<1>5. Validated'
  BY DEF Validated
<1> QED BY <1>1, <1>2, <1>3, <1>4, <1>5

LEMMA PublishFlagInv == ASSUME Inv, NEW c \in Caller, PublishFlag(c) PROVE Inv'
<1> USE DEF PublishFlag, Inv, At, Goto, callVars, setupVars
<1>1. TypeOK'
  BY DEF TypeOK, PC
<1>2. OneSetup'
  BY DEF TypeOK, OneSetup, SetupPC
<1>3. SetupSoFar'
  BY DEF TypeOK, OneSetup, SetupSoFar, Complete, SetupPC
<1>4. Observed'
  BY DEF SetupSoFar, Observed, SetupPC, PC
<1>5. Validated'
  BY DEF Validated
<1> QED BY <1>1, <1>2, <1>3, <1>4, <1>5

LEMMA ReleaseInv == ASSUME Inv, NEW c \in Caller, Release(c) PROVE Inv'
<1> USE DEF Release, Inv, At, Goto, callVars, setupVars
<1>1. TypeOK'
  BY DEF TypeOK, PC
<1>2. OneSetup'
  BY DEF TypeOK, OneSetup, SetupPC, PC
<1>3. SetupSoFar'
  BY DEF TypeOK, OneSetup, SetupSoFar, Complete, SetupPC
<1>4. Observed'
  BY DEF Observed
<1>5. Validated'
  BY DEF Validated
<1> QED BY <1>1, <1>2, <1>3, <1>4, <1>5

LEMMA ReturnInv == ASSUME Inv, NEW c \in Caller, Return(c) PROVE Inv'
<1> USE DEF Return, Inv, At, Goto, callVars, setupVars
<1>1. TypeOK'
  BY DEF TypeOK, PC
<1>2. OneSetup'
  BY DEF OneSetup, SetupPC
<1>3. SetupSoFar'
  BY DEF TypeOK, OneSetup, SetupSoFar, Complete, SetupPC
<1>4. Observed'
  BY DEF Observed
<1>5. Validated'
  BY DEF Validated
<1> QED BY <1>1, <1>2, <1>3, <1>4, <1>5

LEMMA CreateHTTPServerInv == ASSUME Inv, NEW c \in Caller, CreateHTTPServer(c) PROVE Inv'
<1> USE DEF CreateHTTPServer, Inv, At, Goto, callVars, setupVars
<1>0. PICK requests \in Seen(c, instruments >= ServerRequests),
           seconds \in Seen(c, instruments >= ServerSeconds),
           handler \in PromHandler(c) :
        endpoint' = [endpoint EXCEPT ![c] =
            [requests |-> requests, seconds |-> seconds, handler |-> handler,
             inSync |-> c \in synced]]
  OBVIOUS
<1>a. requests \in BOOLEAN /\ seconds \in BOOLEAN /\ handler \in {"notFound", "live", "broken"}
  BY DEF Seen, PromHandler
<1>1. TypeOK'
  BY <1>0, <1>a DEF TypeOK, Endpoint
<1>2. OneSetup'
  BY DEF OneSetup
<1>3. SetupSoFar'
  BY DEF SetupSoFar, Before, Complete
<1>b. endpoint'[c].handler = "live" => initialized
  BY DEF TypeOK, PromHandler
<1>c. ASSUME endpoint'[c].inSync
      PROVE  /\ once = "done"
             /\ endpoint'[c].handler = IF initialized /\ promHTTP THEN "live" ELSE "notFound"
             /\ initialized => endpoint'[c].requests /\ endpoint'[c].seconds
  <2>1. c \in synced
    BY <1>0, <1>c DEF TypeOK
  <2>2. once = "done"
    BY <2>1 DEF OneSetup
  <2>3. handler = IF initialized /\ promHTTP THEN "live" ELSE "notFound"
    BY <2>1 DEF PromHandler
  <2>4. initialized => requests /\ seconds
    BY <2>1 DEF SetupSoFar, Complete, Seen, ServerRequests, ServerSeconds, ClientSeconds
  <2> QED BY <1>0, <2>2, <2>3, <2>4 DEF TypeOK
<1>4. Observed'
  BY <1>b, <1>c DEF Observed
<1>5. Validated'
  BY DEF Validated
<1> QED BY <1>1, <1>2, <1>3, <1>4, <1>5

THEOREM Invariance == SafetySpec => []Inv
<1>1. Inv /\ [Next]_metricsVars => Inv'
  <2> SUFFICES ASSUME Inv, [Next]_metricsVars PROVE Inv'
    OBVIOUS
  <2>1. CASE UNCHANGED metricsVars
    BY <2>1 DEF metricsVars, callVars, setupVars, Inv, TypeOK, OneSetup, SetupSoFar,
       Before, Complete, Observed, Validated
  <2>2. CASE Next
    <3>1. PICK c \in Caller :
            \/ \E e \in Configs : Call(c, e) \/ CallInvalid(c, e)
            \/ Step(c)
            \/ CreateHTTPServer(c)
      BY <2>2 DEF Next
    <3>2. CASE \E e \in Configs : Call(c, e) \/ CallInvalid(c, e)
      BY <3>2, CallInv, CallInvalidInv
    <3>3. CASE Step(c)
      <4>1. CASE SetupStep(c)
        BY <4>1, CreateReaderInv, ReadersFailInv, ReadersDoneInv, CreateResourceInv,
           InstallProviderInv, CreateInstrumentInv, InstrumentsDoneInv,
           InstallHandlerInv, PublishErrInv, PublishFlagInv, ReleaseInv DEF SetupStep
      <4> QED BY <3>3, <4>1, EnterInv, PassInv, ReturnInv DEF Step
    <3>4. CASE CreateHTTPServer(c)
      BY <3>4, CreateHTTPServerInv
    <3> QED BY <3>1, <3>2, <3>3, <3>4
  <2> QED BY <2>1, <2>2
<1> QED BY <1>1, InitInv, PTL DEF SafetySpec

-----------------------------------------------------------------------------
(* What the module promises *)

\* Every variable keeps its type.
THEOREM TypeCorrect == SafetySpec => []TypeOK
<1>1. Inv => TypeOK
  BY DEF Inv
<1> QED BY <1>1, Invariance, PTL

\* All valid calls of InitWithConfig return the same result (metrics.go:60-64).
THEOREM SameAnswerTheorem == SafetySpec => []SameAnswer
<1>1. Inv => SameAnswer
  BY DEF Inv, Observed, SameAnswer
<1> QED BY <1>1, Invariance, PTL

\* A caller told "no error" finds the whole setup in place (metrics.go:60-130).
THEOREM SuccessIsCompleteTheorem == SafetySpec => []SuccessIsComplete
<1>1. Inv => SuccessIsComplete
  BY DEF Inv, Result, OneSetup, SetupSoFar, Observed, SuccessIsComplete
<1> QED BY <1>1, Invariance, PTL

\* Only a complete setup serves metrics (metrics.go:133-138).
THEOREM OnlyCompleteSetupServesTheorem == SafetySpec => []OnlyCompleteSetupServes
<1>1. Inv => OnlyCompleteSetupServes
  BY DEF Inv, SetupSoFar, Observed, OnlyCompleteSetupServes
<1> QED BY <1>1, Invariance, PTL

\* A server created after InitWithConfig returned captures its result.
THEOREM SyncedServerTheorem == SafetySpec => []SyncedServer
<1>1. Inv => SyncedServer
  BY DEF Inv, SetupSoFar, Observed, Complete, SyncedServer
<1> QED BY <1>1, Invariance, PTL

\* No provider holds both OTLP exporters (options.go:154-173).
THEOREM ExclusiveOTLPTheorem == SafetySpec => []ExclusiveOTLP
<1>1. Inv => ExclusiveOTLP
  BY DEF Inv, Validated, ValidateConfig, Has, ExclusiveOTLP
<1> QED BY <1>1, Invariance, PTL

\* The result is final: once it is known, no package variable changes.
THEOREM FrozenTheorem == SafetySpec => Frozen
<1>1. Inv /\ [Next]_metricsVars =>
        [(\E c \in Caller : ret[c] \in Result) => UNCHANGED setupVars]_metricsVars
  <2> SUFFICES ASSUME Inv, Next, \E c \in Caller : ret[c] \in Result
               PROVE  UNCHANGED setupVars
    OBVIOUS
  <2>1. once = "done" /\ \A c \in Caller : pc[c] \notin SetupPC
    BY DEF Inv, OneSetup
  <2>2. PICK c \in Caller :
          \/ \E e \in Configs : Call(c, e) \/ CallInvalid(c, e)
          \/ Step(c)
          \/ CreateHTTPServer(c)
    BY DEF Next
  <2>3. ~ SetupStep(c) /\ ~ Enter(c)
    BY <2>1 DEF SetupStep, CreateReader, ReadersFail, ReadersDone, CreateResource,
       InstallProvider, CreateInstrument, InstrumentsDone, InstallHandler, PublishErr,
       PublishFlag, Release, Enter, At, SetupPC, PC
  <2> QED BY <2>2, <2>3 DEF Step, Call, CallInvalid, Pass, Return, CreateHTTPServer
<1> QED BY <1>1, Invariance, PTL DEF SafetySpec, Frozen

\* Every step of the code is a step of OnceResult or leaves it unchanged: the
\* refinement, without its liveness.
THEOREM PromiseSafety ==
    SafetySpec => Promise!OnceInit /\ [][Promise!OnceNext]_(Promise!onceVars)
<1> USE DEF At, Goto
<1>1. Init => Promise!OnceInit
  BY DEF Init, Promise!OnceInit
<1>2. Inv /\ [Next]_metricsVars => [Promise!OnceNext]_(Promise!onceVars)
  <2> SUFFICES ASSUME Inv, [Next]_metricsVars
               PROVE  [Promise!OnceNext]_(Promise!onceVars)
    OBVIOUS
  <2>1. CASE UNCHANGED metricsVars
    BY <2>1 DEF metricsVars, callVars, setupVars, Promise!onceVars
  <2>2. ASSUME NEW c \in Caller, NEW e \in Configs, Call(c, e)
        PROVE  Promise!Ask(c)
    BY <2>2 DEF Call, setupVars, Inv, TypeOK, Promise!Ask
  <2>3. ASSUME NEW c \in Caller, NEW e \in Configs, CallInvalid(c, e)
        PROVE  Promise!Refuse(c)
    BY <2>3 DEF CallInvalid, setupVars, Promise!Refuse
  <2>4. ASSUME NEW c \in Caller, SetupStep(c)
        PROVE  [Promise!OnceNext]_(Promise!onceVars)
    <3>1. /\ pc[c] \in SetupPC
          /\ \E label \in PC \ {"idle"} : Goto(c, label) \/ (pc' = pc /\ label = pc[c])
          /\ ret' = ret
      BY <2>4 DEF SetupStep, CreateReader, ReadersFail, ReadersDone, CreateResource,
         InstallProvider, CreateInstrument, InstrumentsDone, InstallHandler, Fail,
         PublishErr, PublishFlag, Release, SetupPC, PC, callVars
    <3>2. {d \in Caller : pc'[d] # "idle"} = {d \in Caller : pc[d] # "idle"}
      BY <3>1 DEF Inv, TypeOK, SetupPC
    <3>3. CASE Release(c)
      <4>1. once = "running" /\ once' = "done" /\ initErr' = initErr /\ initErr \in Result
        BY <3>1, <3>3 DEF Inv, TypeOK, OneSetup, Release
      <4>2. Promise!Settle(initErr)
        BY <3>1, <3>2, <4>1 DEF Promise!Settle, SetupPC
      <4> QED BY <4>1, <4>2 DEF Promise!OnceNext
    <3>4. CASE ~ Release(c)
      <4>1. once' = once /\ once = "running"
        BY <2>4, <3>1, <3>4 DEF SetupStep, CreateReader, ReadersFail, ReadersDone,
           CreateResource, InstallProvider, CreateInstrument, InstrumentsDone,
           InstallHandler, PublishErr, PublishFlag, setupVars, Inv, OneSetup
      <4> QED BY <3>1, <3>2, <4>1 DEF Promise!onceVars
    <3> QED BY <3>3, <3>4
  <2>5. ASSUME NEW c \in Caller, Enter(c) \/ Pass(c)
        PROVE  UNCHANGED Promise!onceVars
    <3>1. /\ pc[c] = "enter"
          /\ pc' = [pc EXCEPT ![c] = "readers"] \/ pc' = [pc EXCEPT ![c] = "return"]
          /\ ret' = ret
          /\ (once' = once /\ initErr' = initErr) \/ (once = "new" /\ once' = "running")
      BY <2>5 DEF Enter, Pass, setupVars
    <3>2. {d \in Caller : pc'[d] # "idle"} = {d \in Caller : pc[d] # "idle"}
      BY <3>1 DEF Inv, TypeOK
    <3> QED BY <3>1, <3>2 DEF Promise!onceVars
  <2>6. ASSUME NEW c \in Caller, Return(c)
        PROVE  Promise!Answer(c)
    <3>1. once = "done" /\ once' = "done" /\ initErr' = initErr /\ initErr \in Result
      BY <2>6 DEF Return, setupVars, Inv, TypeOK, OneSetup
    <3>2. {d \in Caller : pc'[d] # "idle"} = {d \in Caller : pc[d] # "idle"} \ {c}
      BY <2>6 DEF Return, Inv, TypeOK
    <3>3. pc[c] # "idle" /\ ret' = [ret EXCEPT ![c] = initErr]
      BY <2>6 DEF Return
    <3> QED BY <3>1, <3>2, <3>3, MetricsAssumption DEF Promise!Answer
  <2>7. ASSUME NEW c \in Caller, CreateHTTPServer(c)
        PROVE  UNCHANGED Promise!onceVars
    BY <2>7 DEF CreateHTTPServer, callVars, setupVars, Promise!onceVars
  <2> QED BY <2>1, <2>2, <2>3, <2>4, <2>5, <2>6, <2>7 DEF Next, Step, Promise!OnceNext
<1> QED BY <1>1, <1>2, Invariance, PTL DEF SafetySpec
-----------------------------------------------------------------------------
(* The collectors in the default registry *)

\* The Prometheus entries among the first n of a list.
PrometheusUpTo(e, n) == {i \in 1..n : e[i] = "prometheus"}

\* The registry holds one collector for each Prometheus entry the only setup
\* there ever is has passed: none before, all of them once it has the readers.
\* The provider has that setup's list, so it owns every collector.
Counted ==
    /\ once = "new" => collectors = 0
    /\ \A c \in Caller :
        /\ pc[c] = "readers" =>
            /\ made <= Len(cfg[c])
            /\ collectors = Cardinality(PrometheusUpTo(cfg[c], made))
        /\ pc[c] \in {"resource", "provider"} =>
            collectors = Cardinality(PrometheusUpTo(cfg[c], Len(cfg[c])))
    /\ otelProvider # NoProvider =>
        collectors = Cardinality(PrometheusUpTo(otelProvider, Len(otelProvider)))

\* One more entry counts if it is a Prometheus entry.
LEMMA OneMoreEntry ==
    ASSUME NEW e, NEW n \in Nat
    PROVE  Cardinality(PrometheusUpTo(e, n + 1)) =
               Cardinality(PrometheusUpTo(e, n)) + (IF e[n + 1] = "prometheus" THEN 1 ELSE 0)
<1>1. IsFiniteSet(PrometheusUpTo(e, n))
  <2>1. IsFiniteSet(1..n)
    BY FS_Interval
  <2>2. PrometheusUpTo(e, n) \subseteq 1..n
    BY DEF PrometheusUpTo
  <2> QED BY <2>1, <2>2, FS_Subset
<1>2. n + 1 \notin PrometheusUpTo(e, n)
  BY DEF PrometheusUpTo
<1>3. CASE e[n + 1] = "prometheus"
  <2>1. PrometheusUpTo(e, n + 1) = PrometheusUpTo(e, n) \cup {n + 1}
    BY <1>3 DEF PrometheusUpTo
  <2>2. Cardinality(PrometheusUpTo(e, n) \cup {n + 1}) = Cardinality(PrometheusUpTo(e, n)) + 1
    BY <1>1, <1>2, FS_AddElement
  <2> QED BY <2>1, <2>2, <1>3
<1>4. CASE e[n + 1] # "prometheus"
  <2>1. PrometheusUpTo(e, n + 1) = PrometheusUpTo(e, n)
    BY <1>4 DEF PrometheusUpTo
  <2>2. Cardinality(PrometheusUpTo(e, n)) \in Nat
    BY <1>1, FS_CardinalityType
  <2> QED BY <2>1, <2>2, <1>4
<1> QED BY <1>3, <1>4

LEMMA NoEntries == ASSUME NEW e PROVE Cardinality(PrometheusUpTo(e, 0)) = 0
<1>1. PrometheusUpTo(e, 0) = {}
  BY DEF PrometheusUpTo
<1> QED BY <1>1, FS_EmptySet

LEMMA InitCounted == Init => Counted
BY DEF Init, Counted

\* The readers of the setup are created and counted one by one.
LEMMA ReaderCounted == ASSUME Inv, Counted, NEW c \in Caller, CreateReader(c) PROVE Counted'
<1> USE DEF At
<1>1. /\ pc[c] = "readers" /\ once = "running" /\ otelProvider = NoProvider
      /\ \A d \in Caller : pc[d] \in SetupPC => d = c
  BY DEF CreateReader, Inv, OneSetup, SetupSoFar, Before, SetupPC, PC
<1>2. made \in Nat /\ cfg[c] \in Seq(AnyExporter) /\ collectors \in Nat
  BY DEF Inv, TypeOK
<1>3. made < Len(cfg[c]) /\ made' = made + 1
      /\ UNCHANGED <<pc, cfg, once, otelProvider>>
  BY DEF CreateReader, callVars
<1>4. collectors' = collectors + (IF cfg[c][made + 1] = "prometheus" THEN 1 ELSE 0)
  BY <1>2 DEF CreateReader
<1>5. collectors = Cardinality(PrometheusUpTo(cfg[c], made))
  BY <1>1 DEF Counted
<1>6. collectors' = Cardinality(PrometheusUpTo(cfg[c], made + 1))
  BY <1>2, <1>4, <1>5, OneMoreEntry
<1>7. made + 1 <= Len(cfg[c])
  BY <1>2, <1>3
<1> QED BY <1>1, <1>3, <1>6, <1>7 DEF Counted, SetupPC, PC

LEMMA EnterCounted == ASSUME Inv, Counted, NEW c \in Caller, Enter(c) PROVE Counted'
<1> USE DEF At, Goto
<1>1. /\ once = "new" /\ once' = "running" /\ made' = 0
      /\ pc' = [pc EXCEPT ![c] = "readers"]
      /\ UNCHANGED <<cfg, collectors, otelProvider>>
  BY DEF Enter
<1>2. otelProvider = NoProvider /\ \A d \in Caller : pc[d] \notin SetupPC
  BY <1>1 DEF Inv, OneSetup, SetupSoFar, Before
<1>3. \A d \in Caller : pc'[d] = IF d = c THEN "readers" ELSE pc[d]
  BY <1>1 DEF Inv, TypeOK
<1>4. \A d \in Caller : pc'[d] \in SetupPC => d = c /\ pc'[d] = "readers"
  BY <1>2, <1>3
<1>5. collectors = 0
  BY <1>1 DEF Counted
<1>6. 0 <= Len(cfg[c])
  BY DEF Inv, TypeOK
<1> QED BY <1>1, <1>2, <1>4, <1>5, <1>6, NoEntries DEF Counted, SetupPC, PC

LEMMA ReadersDoneCounted == ASSUME Inv, Counted, NEW c \in Caller, ReadersDone(c) PROVE Counted'
<1> USE DEF At, Goto
<1>1. /\ pc[c] = "readers" /\ made = Len(cfg[c])
      /\ pc' = [pc EXCEPT ![c] = "resource"]
      /\ UNCHANGED <<cfg, once, collectors, otelProvider>>
  BY DEF ReadersDone, setupVars
<1>2. once = "running" /\ otelProvider = NoProvider
      /\ \A d \in Caller : pc[d] \in SetupPC => d = c
  BY <1>1 DEF Inv, OneSetup, SetupSoFar, Before, SetupPC, PC
<1>3. \A d \in Caller : pc'[d] = IF d = c THEN "resource" ELSE pc[d]
  BY <1>1 DEF Inv, TypeOK
<1>4. collectors = Cardinality(PrometheusUpTo(cfg[c], Len(cfg[c])))
  BY <1>1 DEF Counted
<1> QED BY <1>1, <1>2, <1>3, <1>4 DEF Counted, SetupPC, PC

LEMMA InstallProviderCounted ==
    ASSUME Inv, Counted, NEW c \in Caller, InstallProvider(c)
    PROVE  Counted'
<1> USE DEF At, Goto
<1>1. /\ pc[c] = "provider" /\ otelProvider' = cfg[c]
      /\ pc' = [pc EXCEPT ![c] = "instruments"]
      /\ UNCHANGED <<cfg, once, collectors>>
  BY DEF InstallProvider
<1>2. once = "running" /\ \A d \in Caller : pc[d] \in SetupPC => d = c
  BY <1>1 DEF Inv, OneSetup, SetupPC, PC
<1>3. \A d \in Caller : pc'[d] = IF d = c THEN "instruments" ELSE pc[d]
  BY <1>1 DEF Inv, TypeOK
<1>4. collectors = Cardinality(PrometheusUpTo(cfg[c], Len(cfg[c])))
  BY <1>1 DEF Counted
<1> QED BY <1>1, <1>2, <1>3, <1>4 DEF Counted, SetupPC, PC

\* A goroutine that moves on without creating a reader.
LEMMA MoveCounted ==
    ASSUME Counted, NEW c \in Caller, NEW label, pc' = [pc EXCEPT ![c] = label],
           pc \in [Caller -> PC],
           label # "readers", label = "provider" => pc[c] = "resource", label # "resource",
           once' = once \/ once' = "done",
           UNCHANGED <<cfg, made, collectors, otelProvider>>
    PROVE  Counted'
<1>1. \A d \in Caller : pc'[d] = IF d = c THEN label ELSE pc[d]
  OBVIOUS
<1> QED BY <1>1 DEF Counted

LEMMA CallCounted ==
    ASSUME Inv, Counted, NEW c \in Caller, NEW e \in Configs, Call(c, e)
    PROVE  Counted'
<1> USE DEF At, Goto
<1>1. /\ pc[c] = "idle" /\ pc' = [pc EXCEPT ![c] = "enter"] /\ cfg' = [cfg EXCEPT ![c] = e]
      /\ UNCHANGED <<once, made, collectors, otelProvider>>
  BY DEF Call, setupVars
<1>2. \A d \in Caller :
        /\ pc'[d] = IF d = c THEN "enter" ELSE pc[d]
        /\ d # c => cfg'[d] = cfg[d]
  BY <1>1 DEF Inv, TypeOK
<1> QED BY <1>1, <1>2 DEF Counted

LEMMA NextCounted == Inv /\ Counted /\ [Next]_metricsVars => Counted'
<1> SUFFICES ASSUME Inv, Counted, [Next]_metricsVars PROVE Counted'
  OBVIOUS
<1> USE DEF At, Goto
<1>0. pc \in [Caller -> PC]
  BY DEF Inv, TypeOK
<1>1. CASE UNCHANGED metricsVars
  BY <1>1 DEF metricsVars, callVars, setupVars, Counted
<1>2. ASSUME NEW c \in Caller, NEW e \in Configs, CallInvalid(c, e)
      PROVE  Counted'
  BY <1>2 DEF CallInvalid, setupVars, Counted
<1>3. ASSUME NEW c \in Caller, Pass(c) PROVE Counted'
  BY <1>0, <1>3, MoveCounted DEF Pass, setupVars
<1>4. ASSUME NEW c \in Caller, ReadersFail(c) PROVE Counted'
  BY <1>0, <1>4, MoveCounted DEF ReadersFail, Fail
<1>5. ASSUME NEW c \in Caller, CreateResource(c) PROVE Counted'
  <2>1. CASE Fail(c, "resource")
    BY <1>0, <1>5, <2>1, MoveCounted DEF CreateResource, Fail
  <2>2. CASE Goto(c, "provider")
    BY <1>0, <1>5, <2>2, MoveCounted DEF CreateResource
  <2> QED BY <1>5, <2>1, <2>2 DEF CreateResource
<1>6. ASSUME NEW c \in Caller, CreateInstrument(c) PROVE Counted'
  <2>1. CASE Fail(c, "instruments")
    BY <1>0, <1>6, <2>1, MoveCounted DEF CreateInstrument, Fail
  <2>2. CASE UNCHANGED <<pc, setupErr>>
    BY <1>6, <2>2 DEF CreateInstrument, Counted
  <2> QED BY <1>6, <2>1, <2>2 DEF CreateInstrument
<1>7. ASSUME NEW c \in Caller, InstrumentsDone(c) PROVE Counted'
  BY <1>0, <1>7, MoveCounted DEF InstrumentsDone, setupVars
<1>8. ASSUME NEW c \in Caller, InstallHandler(c) PROVE Counted'
  BY <1>0, <1>8, MoveCounted DEF InstallHandler
<1>9. ASSUME NEW c \in Caller, PublishErr(c) PROVE Counted'
  BY <1>0, <1>9, MoveCounted DEF PublishErr
<1>10. ASSUME NEW c \in Caller, PublishFlag(c) PROVE Counted'
  BY <1>0, <1>10, MoveCounted DEF PublishFlag
<1>11. ASSUME NEW c \in Caller, Release(c) PROVE Counted'
  BY <1>0, <1>11, MoveCounted DEF Release
<1>12. ASSUME NEW c \in Caller, Return(c) PROVE Counted'
  BY <1>0, <1>12, MoveCounted DEF Return, setupVars
<1>13. ASSUME NEW c \in Caller, CreateHTTPServer(c) PROVE Counted'
  BY <1>13 DEF CreateHTTPServer, callVars, setupVars, Counted
<1>14. ASSUME NEW c \in Caller, Step(c) PROVE Counted'
  BY <1>14, <1>3, <1>4, <1>5, <1>6, <1>7, <1>8, <1>9, <1>10, <1>11, <1>12, ReaderCounted,
     EnterCounted, ReadersDoneCounted, InstallProviderCounted
  DEF Step, SetupStep
<1> QED BY <1>1, <1>2, <1>13, <1>14, CallCounted DEF Next

\* Every collector in the default registry belongs to the provider that serves:
\* there is one setup, so no reader outside it was ever registered
\* (metrics.go:60-64, exporter.go:27-44).
THEOREM NoForeignCollectorsTheorem == SafetySpec => []NoForeignCollectors
<1>1. Inv /\ Counted => NoForeignCollectors
  <2> SUFFICES ASSUME Inv, Counted, initialized PROVE
        collectors = Cardinality({i \in DOMAIN otelProvider : otelProvider[i] = "prometheus"})
    BY DEF NoForeignCollectors
  <2>1. otelProvider # NoProvider /\ otelProvider \in Seq(AnyExporter)
    BY DEF Inv, TypeOK, SetupSoFar, Complete
  <2>2. {i \in DOMAIN otelProvider : otelProvider[i] = "prometheus"} =
            PrometheusUpTo(otelProvider, Len(otelProvider))
    BY <2>1 DEF PrometheusUpTo
  <2> QED BY <2>1, <2>2 DEF Counted
<1>2. SafetySpec => []Counted
  BY InitCounted, NextCounted, Invariance, PTL DEF SafetySpec
<1> QED BY <1>1, <1>2, Invariance, PTL

-----------------------------------------------------------------------------
(* Who waits in Do, and for whom *)

SomebodySetsUp == once = "running" => \E c \in Caller : pc[c] \in SetupPC

\* The statements of the closure lead from one to the next until it returns.
LEMMA SetupStepStays ==
    ASSUME Inv, NEW c \in Caller, SetupStep(c)
    PROVE  once' = "done" \/ (once' = once /\ pc'[c] \in SetupPC)
<1> USE DEF At, Goto
<1>1. CASE Release(c)
  BY <1>1 DEF Release
<1>2. CASE ~ Release(c)
  <2>1. once' = once
    BY <1>2 DEF SetupStep, CreateReader, ReadersFail, ReadersDone, CreateResource,
       InstallProvider, CreateInstrument, InstrumentsDone, InstallHandler, PublishErr,
       PublishFlag, setupVars
  <2>2. /\ pc[c] \in SetupPC
        /\ pc' = pc \/ \E label \in SetupPC : pc' = [pc EXCEPT ![c] = label]
    BY <1>2 DEF SetupStep, CreateReader, ReadersFail, ReadersDone, CreateResource,
       InstallProvider, CreateInstrument, InstrumentsDone, InstallHandler, Fail,
       PublishErr, PublishFlag, callVars, SetupPC, PC
  <2> QED BY <2>1, <2>2 DEF Inv, TypeOK
<1> QED BY <1>1, <1>2

LEMMA NextSetsUp == Inv /\ SomebodySetsUp /\ [Next]_metricsVars => SomebodySetsUp'
<1> SUFFICES ASSUME Inv, SomebodySetsUp, [Next]_metricsVars PROVE SomebodySetsUp'
  OBVIOUS
<1> USE DEF At, Goto
<1>1. pc \in [Caller -> PC]
  BY DEF Inv, TypeOK
<1>2. ASSUME once' = once, NEW c \in Caller, pc[c] \notin SetupPC,
             \A d \in Caller : d # c => pc'[d] = pc[d]
      PROVE  SomebodySetsUp'
  BY <1>2 DEF SomebodySetsUp
<1>3. CASE UNCHANGED metricsVars
  BY <1>3 DEF metricsVars, callVars, setupVars, SomebodySetsUp
<1>4. ASSUME NEW c \in Caller, NEW e \in Configs, Call(c, e) \/ CallInvalid(c, e)
      PROVE  SomebodySetsUp'
  BY <1>1, <1>2, <1>4 DEF Call, CallInvalid, setupVars, SetupPC, PC
<1>5. ASSUME NEW c \in Caller, Enter(c) PROVE SomebodySetsUp'
  BY <1>1, <1>5 DEF Enter, SomebodySetsUp, SetupPC, PC
<1>6. ASSUME NEW c \in Caller, Pass(c) \/ Return(c) PROVE SomebodySetsUp'
  BY <1>1, <1>2, <1>6 DEF Pass, Return, setupVars, SetupPC, PC
<1>7. ASSUME NEW c \in Caller, SetupStep(c) PROVE SomebodySetsUp'
  BY <1>7, SetupStepStays DEF SomebodySetsUp
<1>8. ASSUME NEW c \in Caller, CreateHTTPServer(c) PROVE SomebodySetsUp'
  BY <1>8 DEF CreateHTTPServer, callVars, setupVars, SomebodySetsUp
<1> QED BY <1>3, <1>4, <1>5, <1>6, <1>7, <1>8 DEF Next, Step

\* What the liveness of PromiseKept rests on in every state: who waits in Do waits for a
\* goroutine that is inside the closure, and that goroutine has a statement to go on with,
\* as it never creates more readers than its list has (metrics.go:60-64).
NobodyWaitsInVain ==
    \A c \in Caller :
        /\ pc[c] = "enter" /\ once = "running" => \E d \in Caller : pc[d] \in SetupPC
        /\ pc[c] = "readers" => made <= Len(cfg[c])

\* A call of InitWithConfig never waits for a setup nobody runs (metrics.go:60-64).
THEOREM NobodyWaitsInVainTheorem == SafetySpec => []NobodyWaitsInVain
<1>1. Init => SomebodySetsUp
  BY DEF Init, SomebodySetsUp
<1>2. SomebodySetsUp /\ Counted => NobodyWaitsInVain
  BY DEF SomebodySetsUp, Counted, NobodyWaitsInVain
<1>3. SafetySpec => []SomebodySetsUp
  BY <1>1, NextSetsUp, Invariance, PTL DEF SafetySpec
<1>4. SafetySpec => []Counted
  BY InitCounted, NextCounted, Invariance, PTL DEF SafetySpec
<1> QED BY <1>2, <1>3, <1>4, PTL
=============================================================================
