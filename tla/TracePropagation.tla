--------------------------- MODULE TracePropagation ---------------------------
(***************************************************************************)
(* Span contexts along a tree of calls between services built with this    *)
(* package: the tracing middleware of servers and clients, the operations  *)
(* their configuration excludes, and the suppression an excluded operation *)
(* hands to everything below it (rpc/tracing.go).                          *)
(*                                                                         *)
(* A request is delivered at any time and any number of times: its caller  *)
(* may retry it with the same headers.  A handler goes on working and      *)
(* calling as long as the bounds allow.                                    *)
(***************************************************************************)
EXTENDS Naturals, Sequences, FiniteSetsExt

CONSTANTS
    Service,     \* the services
    Text,        \* strings, as sequences of tokens
    Blank,       \* the token strings.TrimSpace removes
    Operation,   \* what transport.Operation() returns for some request
    Setting,     \* the configurations a service may have
    MaxIds,      \* bound on the span identifiers ever drawn
    MaxArrivals, \* bound on the requests from outside
    MaxRequests  \* bound on the requests ever sent

\* Where an identifier comes from: a span of the SDK, a caller outside the
\* system, or contextWithTracingSuppressed.
Origin == {"span", "foreign", "suppressed"}

Rules == [exact : SUBSET Text, prefix : SUBSET Text]

\* What the tracer section gives: no provider; one that samples but, as its
\* endpoint is empty, exports nothing; or one that exports what it samples.
Tracer == {"none", "samples", "exports"}

\* Configuration: the two enable_tracing switches, the tracer, and the rules of
\* the server and of the client middleware.
ASSUME TracingAssumption ==
    /\ MaxIds \in Nat
    /\ MaxArrivals \in Nat
    /\ MaxRequests \in Nat
    /\ Operation \subseteq Text
    /\ Setting \subseteq [server : BOOLEAN, client : BOOLEAN, tracer : Tracer,
                          serverRules : Rules, clientRules : Rules]

VARIABLES
    setting,   \* configuration of each service
    origin,    \* the identifiers drawn so far: the n-th one has origin[n]
    arrivals,  \* number of requests from outside, bounded by MaxArrivals
    requests,  \* the requests sent: receiver, operation, traceparent header
    handlers,  \* the scopes of running handlers: service and span context
    spans      \* the spans the SDK has started, with the service that did

vars == <<setting, origin, arrivals, requests, handlers, spans>>

\* A span context.  Identifier 0 stands for no span; a trace has the identifier
\* of its first context.
SpanContext == [trace : Nat, id : Nat, sampled : BOOLEAN]
NoSpan == [trace |-> 0, id |-> 0, sampled |-> FALSE]

\* The field "silent" is no state of the code.  It tells what the rules
\* promise: an operation above was excluded, and every hop since took part in
\* tracing.
TypeOK ==
    /\ setting \in [Service -> Setting]
    /\ origin \in Seq(Origin)
    /\ arrivals \in 0..MaxArrivals
    /\ requests \subseteq [to : Service, op : Operation, header : SpanContext, silent : BOOLEAN]
    /\ handlers \subseteq [service : Service, ctx : SpanContext, silent : BOOLEAN]
    /\ spans \subseteq [service : Service, ctx : SpanContext, parent : Nat, silent : BOOLEAN]
    /\ \A h \in handlers : h.ctx.id = 0 <=> h.ctx.trace = 0

Init ==
    /\ setting \in [Service -> Setting]
    /\ origin = << >>
    /\ arrivals = 0
    /\ requests = {}
    /\ handlers = {}
    /\ spans = {}

-----------------------------------------------------------------------------
(* Which operations are excluded *)

TrimSpace(s) ==
    LET solid == {i \in DOMAIN s : s[i] # Blank}
    IN  IF solid = {} THEN << >> ELSE SubSeq(s, Min(solid), Max(solid))

HasPrefix(s, p) == Len(p) <= Len(s) /\ SubSeq(s, 1, Len(p)) = p

\* traceOperationMatches: white space around names does not count, and an
\* empty prefix names nothing.
Matches(op, rules) ==
    /\ TrimSpace(op) # << >>
    /\ \/ \E e \in rules.exact : TrimSpace(op) = TrimSpace(e)
       \/ \E p \in rules.prefix :
            /\ TrimSpace(p) # << >>
            /\ HasPrefix(TrimSpace(op), TrimSpace(p))

-----------------------------------------------------------------------------
(* Span contexts *)

Fresh == Len(origin) + 1

Draw(kind) ==
    /\ Len(origin) < MaxIds
    /\ origin' = Append(origin, kind)

\* Faulty variant: no span context, as a no-op span would have.
SuppressedNoop == NoSpan
\* Faulty variant: the trace flags are set.
SuppressedSampled == [trace |-> Fresh, id |-> Fresh, sampled |-> TRUE]
\* contextWithTracingSuppressed: valid, not sampled, in a trace of its own.
Suppressed == [trace |-> Fresh, id |-> Fresh, sampled |-> FALSE]

\* Faulty variant: the sampling ratio is applied to every span.
StartByRatio(parent) ==
    [trace : {IF parent.id = 0 THEN Fresh ELSE parent.trace}, id : {Fresh}, sampled : BOOLEAN]

\* The sampler of NewTracerProvider follows the parent, and decides by a ratio
\* for a span that has none.
Start(parent) ==
    IF parent.id = 0
    THEN [trace : {Fresh}, id : {Fresh}, sampled : BOOLEAN]
    ELSE [trace : {parent.trace}, id : {Fresh}, sampled : {parent.sampled}]

\* The contexts a tracer of service s may yield below parent; without a
\* provider it passes the parent on.
Traced(s, parent) == IF setting[s].tracer = "none" THEN {parent} ELSE Start(parent)

Record(s, parent, ctx, silent) ==
    IF setting[s].tracer = "none"
    THEN UNCHANGED <<origin, spans>>
    ELSE /\ Draw("span")
         /\ spans' = spans \cup
              {[service |-> s, ctx |-> ctx, parent |-> parent.id, silent |-> silent]}

\* A span the collector gets: it is sampled, and the provider has an exporter.
Exported(sp) == sp.ctx.sampled /\ setting[sp.service].tracer = "exports"

-----------------------------------------------------------------------------
(* Requests *)

Send(to, op, header, silent) ==
    /\ Cardinality(requests) < MaxRequests
    /\ requests' = requests \cup
         {[to |-> to, op |-> op, header |-> header, silent |-> silent]}

Handle(s, ctx, silent) ==
    handlers' = handlers \cup {[service |-> s, ctx |-> ctx, silent |-> silent]}

\* A request from outside, with a traceparent header or without.
Arrive(s, op) ==
    /\ arrivals < MaxArrivals
    /\ arrivals' = arrivals + 1
    /\ \/ Send(s, op, NoSpan, FALSE) /\ UNCHANGED origin
       \/ /\ Draw("foreign")
          /\ \E b \in BOOLEAN :
                Send(s, op, [trace |-> Fresh, id |-> Fresh, sampled |-> b], FALSE)
    /\ UNCHANGED <<setting, handlers, spans>>

\* The server middleware: not installed; the operation is excluded, and
\* whatever the headers say is ignored; or a span below the caller's.
Deliver(m) ==
    LET s == m.to
        skip == Matches(m.op, setting[s].serverRules)
    IN
    /\ \/ /\ ~ setting[s].server
          /\ Handle(s, NoSpan, FALSE)
          /\ UNCHANGED <<origin, spans>>
       \/ /\ setting[s].server /\ skip
          /\ Draw("suppressed")
          /\ Handle(s, Suppressed, TRUE)
          /\ UNCHANGED spans
       \/ /\ setting[s].server /\ ~ skip
          /\ \E ctx \in Traced(s, m.header) :
                Record(s, m.header, ctx, m.silent) /\ Handle(s, ctx, m.silent)
    /\ UNCHANGED <<setting, arrivals, requests>>

\* Other instrumentation of a handler starts a span, and works below it.
Work(h) ==
    /\ \E ctx \in Traced(h.service, h.ctx) :
        /\ Record(h.service, h.ctx, ctx, h.silent)
        /\ Handle(h.service, ctx, h.silent)
    /\ UNCHANGED <<setting, arrivals, requests>>

\* Faulty variant: the context of a skipped call replaces the handler's own.
CallLeaking(h, to, op) ==
    LET s == h.service
        skip == Matches(op, setting[s].clientRules)
    IN
    /\ \/ /\ ~ setting[s].client
          /\ Send(to, op, NoSpan, FALSE)
          /\ UNCHANGED <<origin, spans, handlers>>
       \/ /\ setting[s].client /\ skip
          /\ Draw("suppressed")
          /\ Send(to, op, Suppressed, TRUE)
          /\ Handle(s, Suppressed, h.silent)
          /\ UNCHANGED spans
       \/ /\ setting[s].client /\ ~ skip
          /\ \E ctx \in Traced(s, h.ctx) :
                Record(s, h.ctx, ctx, h.silent) /\ Send(to, op, ctx, h.silent)
          /\ UNCHANGED handlers
    /\ UNCHANGED <<setting, arrivals>>

\* The client middleware: not installed, and no header is sent; the operation
\* is excluded, and its request carries a suppressed context; or a span below
\* the handler's, which the request carries.  The handler keeps its context.
Call(h, to, op) ==
    LET s == h.service
        skip == Matches(op, setting[s].clientRules)
    IN
    /\ \/ /\ ~ setting[s].client
          /\ Send(to, op, NoSpan, FALSE)
          /\ UNCHANGED <<origin, spans>>
       \/ /\ setting[s].client /\ skip
          /\ Draw("suppressed")
          /\ Send(to, op, Suppressed, TRUE)
          /\ UNCHANGED spans
       \/ /\ setting[s].client /\ ~ skip
          /\ \E ctx \in Traced(s, h.ctx) :
                Record(s, h.ctx, ctx, h.silent) /\ Send(to, op, ctx, h.silent)
    /\ UNCHANGED <<setting, arrivals, handlers>>

Next ==
    \/ \E s \in Service, op \in Operation : Arrive(s, op)
    \/ \E m \in requests : Deliver(m)
    \/ \E h \in handlers : Work(h)
    \/ \E h \in handlers, to \in Service, op \in Operation : Call(h, to, op)

Spec == Init /\ [][Next]_vars

-----------------------------------------------------------------------------
(* Properties *)

\* An excluded operation exports no span, nor does anything below it as far as
\* tracing reaches: not the instrumentation of its handler, not its calls, not
\* the services it calls (tracing.go:95-107, README.md:214).
SilentSubtree == \A sp \in spans : sp.silent => ~ Exported(sp)

\* The exported spans form trees, complete but for what services without an
\* endpoint keep to themselves (tracer.go:67): the parent of an exported span
\* was exported too, or belongs to a caller outside or to such a service.  No
\* exclusion leaves a span with a parent nobody ever started.
NoOrphans ==
    \A sp \in spans : Exported(sp) /\ sp.parent # 0 =>
        \/ origin[sp.parent] = "foreign"
        \/ \E up \in spans :
              /\ up.ctx.id = sp.parent
              /\ Exported(up) \/ setting[up.service].tracer = "samples"

\* Of a trace, all services that have an exporter export all their spans or
\* none, though each samples by itself (tracer.go:57), and though the services
\* between them may export nothing.
WholeTraces ==
    \A a, b \in spans : a.ctx.trace = b.ctx.trace /\ Exported(a) =>
        Exported(b) \/ setting[b.service].tracer = "samples"

\* Suppression reaches what is below the excluded operation and nothing else:
\* neither the handler that made an excluded call nor its other calls, nor what
\* starts behind a hop without tracing.
ExclusionStaysBelow ==
    \A sp \in spans : origin[sp.ctx.trace] = "suppressed" => sp.silent

\* The rules of both middlewares of a service hold nothing but white space.
RulesOf(s) == {setting[s].serverRules, setting[s].clientRules}
AllRulesBlank ==
    \A s \in Service : \A rules \in RulesOf(s) :
        \A t \in rules.exact \cup rules.prefix : \A i \in DOMAIN t : t[i] = Blank

\* Rules that are empty or blank exclude nothing (tracing.go:75-88).
BlankRulesAreInert == AllRulesBlank => \A n \in DOMAIN origin : origin[n] # "suppressed"
=============================================================================
