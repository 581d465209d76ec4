-------------------------- MODULE ObservationProofs ---------------------------
(***************************************************************************)
(* Proofs about what is observed of the services: TracePropagation, for    *)
(* any number of services, configurations, operations, identifiers and     *)
(* requests, and LogFiles, for any sections, file names, numbers of        *)
(* records and of starts.                                                  *)
(***************************************************************************)
EXTENDS TracePropagation, LogFiles, FiniteSetTheorems, SequenceTheorems, TLAPS

-----------------------------------------------------------------------------
(* TracePropagation *)

\* Every span context somebody holds or sends.
Contexts ==
    {h.ctx : h \in handlers} \cup {m.header : m \in requests} \cup {sp.ctx : sp \in spans}

\* The span n is one of a caller outside, or was started here, and sampled.
Backed(n) ==
    \/ origin[n] = "foreign"
    \/ \E above \in spans : above.ctx.id = n /\ above.ctx.sampled

\* A context below an excluded operation (silent) or not, as the middleware
\* leaves it.
Sound(c, silent) ==
    /\ c \in SpanContext
    /\ c.id = 0 <=> c.trace = 0
    /\ c.id <= Len(origin) /\ c.trace <= Len(origin)
    /\ silent => c.id # 0 /\ ~ c.sampled
    /\ c.sampled => c.id # 0 /\ Backed(c.id)
    /\ c.trace # 0 /\ origin[c.trace] = "suppressed" => silent

SoundSpan(sp) ==
    /\ Sound(sp.ctx, sp.silent)
    /\ sp.ctx.id # 0
    /\ sp.parent <= Len(origin)
    /\ sp.ctx.sampled /\ sp.parent # 0 => Backed(sp.parent)
    /\ setting[sp.service].tracer \in {"samples", "exports"}

\* The contexts of a trace agree with c.
Agrees(c) == \A d \in Contexts : c.trace = d.trace => c.sampled = d.sampled

Inv ==
    /\ TypeOK
    /\ \A h \in handlers : Sound(h.ctx, h.silent)
    /\ \A m \in requests : Sound(m.header, m.silent)
    /\ \A sp \in spans : SoundSpan(sp)
    /\ \A c \in Contexts : Agrees(c)
    /\ BlankRulesAreInert

-----------------------------------------------------------------------------
(* Contexts stay sound *)

\* At most one identifier is drawn by a step, and spans are never taken back.
Grows ==
    /\ setting' = setting
    /\ \/ origin' = origin
       \/ \E k \in Origin : origin' = Append(origin, k)
    /\ spans \subseteq spans'

LEMMA OriginGrows ==
    ASSUME TypeOK, Grows
    PROVE  /\ origin' \in Seq(Origin)
           /\ Len(origin) \in Nat /\ Len(origin') \in Nat /\ Len(origin) <= Len(origin')
           /\ \A n \in 1..Len(origin) : origin'[n] = origin[n]
<1>1. CASE origin' = origin
  BY <1>1 DEF TypeOK
<1>2. CASE \E k \in Origin : origin' = Append(origin, k)
  BY <1>2 DEF TypeOK
<1> QED BY <1>1, <1>2 DEF Grows

LEMMA SoundStays ==
    ASSUME TypeOK, Grows, NEW c, NEW silent \in BOOLEAN, Sound(c, silent)
    PROVE  Sound(c, silent)'
<1>1. c.id \in Nat /\ c.trace \in Nat
  BY DEF Sound, SpanContext
<1>2. ASSUME NEW n \in 1..Len(origin), Backed(n)
      PROVE  Backed(n)'
  BY <1>2, OriginGrows DEF Backed, Grows
<1>3. c.sampled => Backed(c.id)'
  BY <1>1, <1>2, OriginGrows DEF Sound
<1>4. c.trace # 0 /\ origin'[c.trace] = "suppressed" => silent
  BY <1>1, OriginGrows DEF Sound
<1> QED BY <1>1, <1>3, <1>4, OriginGrows DEF Sound

LEMMA SoundSpanStays ==
    ASSUME TypeOK, Grows, NEW sp \in spans, SoundSpan(sp)
    PROVE  SoundSpan(sp)'
<1>1. Sound(sp.ctx, sp.silent)'
  BY SoundStays DEF TypeOK, SoundSpan
<1>2. sp.parent \in Nat
  BY DEF TypeOK
<1>3. sp.ctx.sampled /\ sp.parent # 0 => Backed(sp.parent)'
  BY <1>2, OriginGrows DEF SoundSpan, Backed, Grows
<1>4. /\ sp.parent <= Len(origin')
      /\ sp.ctx.id # 0
      /\ (setting[sp.service].tracer \in {"samples", "exports"})'
  BY <1>2, OriginGrows DEF SoundSpan, Grows
<1> QED BY <1>1, <1>3, <1>4 DEF SoundSpan

\* What an action may add: one context, held by a handler, sent or recorded.
Adds(c) ==
    /\ Agrees(c)
    /\ \A h \in handlers' \ handlers :
         /\ h \in [service : Service, ctx : {c}, silent : BOOLEAN]
         /\ Sound(c, h.silent)'
    /\ \A m \in requests' \ requests :
         /\ m \in [to : Service, op : Operation, header : {c}, silent : BOOLEAN]
         /\ Sound(c, m.silent)'
    /\ \A sp \in spans' \ spans :
         /\ sp \in [service : Service, ctx : {c}, parent : Nat, silent : BOOLEAN]
         /\ SoundSpan(sp)'

\* With such a step the contexts stay sound and agree.
LEMMA AddsInv ==
    ASSUME Inv, Grows, arrivals' \in 0..MaxArrivals, NEW c \in SpanContext, Adds(c),
           BlankRulesAreInert'
    PROVE  Inv'
<1>1. \A h \in handlers' : Sound(h.ctx, h.silent)'
  <2>1. ASSUME NEW h \in handlers PROVE Sound(h.ctx, h.silent)'
    BY SoundStays DEF Inv, TypeOK
  <2> QED BY <2>1 DEF Adds
<1>2. \A m \in requests' : Sound(m.header, m.silent)'
  <2>1. ASSUME NEW m \in requests PROVE Sound(m.header, m.silent)'
    BY SoundStays DEF Inv, TypeOK
  <2> QED BY <2>1 DEF Adds
<1>3. \A sp \in spans' : SoundSpan(sp)'
  BY SoundSpanStays DEF Inv, Adds
<1>4. TypeOK'
  <2>1. handlers' \subseteq [service : Service, ctx : SpanContext, silent : BOOLEAN]
    BY DEF Inv, TypeOK, Adds
  <2>2. requests' \subseteq [to : Service, op : Operation, header : SpanContext, silent : BOOLEAN]
    BY DEF Inv, TypeOK, Adds
  <2>3. spans' \subseteq [service : Service, ctx : SpanContext, parent : Nat, silent : BOOLEAN]
    BY DEF Inv, TypeOK, Adds
  <2>4. \A h \in handlers' : h.ctx.id = 0 <=> h.ctx.trace = 0
    BY <1>1 DEF Sound
  <2>5. setting' \in [Service -> Setting]
    BY DEF Inv, TypeOK, Grows
  <2> QED BY <2>1, <2>2, <2>3, <2>4, <2>5, OriginGrows DEF Inv, TypeOK
<1>5. (\A d \in Contexts : Agrees(d))'
  <2>1. Contexts' \subseteq Contexts \cup {c}
    BY DEF Contexts, Adds
  <2> QED BY <2>1 DEF Inv, Agrees, Adds
<1> QED BY <1>1, <1>2, <1>3, <1>4, <1>5 DEF Inv

\* What Send and Handle add.
LEMMA SendAdds ==
    ASSUME NEW to \in Service, NEW op \in Operation, NEW c, NEW silent \in BOOLEAN,
           Send(to, op, c, silent), Sound(c, silent)', Agrees(c), handlers' = handlers,
           \A sp \in spans' \ spans :
              /\ sp \in [service : Service, ctx : {c}, parent : Nat, silent : BOOLEAN]
              /\ SoundSpan(sp)'
    PROVE  Adds(c)
<1>1. ASSUME NEW m \in requests' \ requests
      PROVE  /\ m \in [to : Service, op : Operation, header : {c}, silent : BOOLEAN]
             /\ Sound(c, m.silent)'
  <2>1. m = [to |-> to, op |-> op, header |-> c, silent |-> silent]
    BY DEF Send
  <2>2. m.silent = silent
    BY <2>1
  <2> QED BY <2>1, <2>2
<1> QED BY <1>1 DEF Adds

LEMMA HandleAdds ==
    ASSUME NEW s \in Service, NEW c, NEW silent \in BOOLEAN,
           Handle(s, c, silent), Sound(c, silent)', Agrees(c), requests' = requests,
           \A sp \in spans' \ spans :
              /\ sp \in [service : Service, ctx : {c}, parent : Nat, silent : BOOLEAN]
              /\ SoundSpan(sp)'
    PROVE  Adds(c)
<1>1. ASSUME NEW h \in handlers' \ handlers
      PROVE  /\ h \in [service : Service, ctx : {c}, silent : BOOLEAN]
             /\ Sound(c, h.silent)'
  <2>1. h = [service |-> s, ctx |-> c, silent |-> silent]
    BY DEF Handle
  <2>2. h.silent = silent
    BY <2>1
  <2> QED BY <2>1, <2>2
<1> QED BY <1>1 DEF Adds

-----------------------------------------------------------------------------
(* What tracers and the middleware yield *)

\* A context that starts a trace: nobody has its identifier.
LEMMA FreshSound ==
    ASSUME Inv, NEW kind \in Origin, Draw(kind), NEW b \in BOOLEAN, NEW silent \in BOOLEAN,
           b => kind = "foreign", silent => ~ b, kind = "suppressed" => silent,
           NEW c, c = [trace |-> Fresh, id |-> Fresh, sampled |-> b]
    PROVE  c \in SpanContext /\ Sound(c, silent)' /\ Agrees(c)
<1>1. /\ origin \in Seq(Origin) /\ c.trace \in Nat /\ c.trace # 0
      /\ c.id = c.trace /\ c.sampled = b
      /\ Len(origin) < c.trace /\ Len(origin') = c.trace /\ origin'[c.trace] = kind
  BY DEF Inv, TypeOK, Draw, Fresh
<1>2. c \in SpanContext
  BY DEF SpanContext, Fresh, Inv, TypeOK
<1>3. Sound(c, silent)'
  BY <1>1, <1>2 DEF Sound, Backed
<1>4. Agrees(c)
  <2>1. \A d \in Contexts : d.trace \in Nat /\ d.trace <= Len(origin)
    BY DEF Contexts, Inv, Sound, SoundSpan, SpanContext
  <2> QED BY <1>1, <2>1 DEF Agrees
<1> QED BY <1>2, <1>3, <1>4

\* A context without span agrees with all others.
LEMMA NoSpanSound ==
    ASSUME Inv, Grows
    PROVE  NoSpan \in SpanContext /\ Sound(NoSpan, FALSE)' /\ Agrees(NoSpan)
<1>1. NoSpan \in SpanContext
  BY DEF NoSpan, SpanContext
<1>2. Sound(NoSpan, FALSE)'
  <2>1. /\ NoSpan.id = 0 /\ NoSpan.trace = 0 /\ NoSpan.sampled = FALSE
        /\ Len(origin') \in Nat
    BY OriginGrows DEF NoSpan, Inv
  <2> QED BY <1>1, <2>1 DEF Sound
<1>3. \A d \in Contexts : d.trace = 0 => ~ d.sampled /\ d.sampled \in BOOLEAN
  BY DEF Contexts, Inv, Sound, SoundSpan, SpanContext
<1> QED BY <1>1, <1>2, <1>3 DEF Agrees, NoSpan

\* A span below a sound context is sound, and of one mind with its trace.
LEMMA TracedSound ==
    ASSUME Inv, NEW s \in Service, NEW parent \in Contexts, NEW silent \in BOOLEAN,
           Sound(parent, silent), NEW c \in Traced(s, parent),
           Record(s, parent, c, silent), setting' = setting
    PROVE  /\ Grows /\ c \in SpanContext /\ Sound(c, silent)' /\ Agrees(c)
           /\ \A sp \in spans' \ spans :
                /\ sp \in [service : Service, ctx : {c}, parent : Nat, silent : BOOLEAN]
                /\ SoundSpan(sp)'
<1>1. /\ parent \in SpanContext /\ parent.id \in Nat /\ parent.trace \in Nat
      /\ parent.sampled \in BOOLEAN /\ Agrees(parent)
  BY DEF Sound, SpanContext, Inv
<1>2. CASE setting[s].tracer = "none"
  <2>1. c = parent /\ origin' = origin /\ spans' = spans
    BY <1>2 DEF Traced, Record
  <2>2. Grows
    BY <2>1 DEF Grows
  <2> QED BY <1>1, <2>1, <2>2, SoundStays DEF Inv
<1>3. CASE setting[s].tracer # "none"
  <2>1. c \in Start(parent) /\ Draw("span")
    BY <1>3 DEF Traced, Record
  <2>2. spans' = spans \cup
          {[service |-> s, ctx |-> c, parent |-> parent.id, silent |-> silent]}
    BY <1>3 DEF Record
  <2>3. Grows
    BY <2>1, <2>2 DEF Grows, Draw, Origin
  <2>4. /\ origin \in Seq(Origin) /\ Len(origin) \in Nat /\ Fresh = Len(origin) + 1
        /\ Len(origin') = Fresh /\ origin'[Fresh] = "span"
        /\ \A n \in 1..Len(origin) : origin'[n] = origin[n]
    BY <2>1 DEF Inv, TypeOK, Draw, Fresh
  <2>5. /\ c \in SpanContext /\ c.id = Fresh
        /\ parent.id = 0 => c.trace = Fresh
        /\ parent.id # 0 => c.trace = parent.trace /\ c.sampled = parent.sampled
    BY <1>1, <2>1, <2>4 DEF Start, SpanContext
  <2>6. c.trace \in Nat /\ c.trace # 0 /\ c.trace <= Fresh /\ c.sampled \in BOOLEAN
    BY <1>1, <2>4, <2>5 DEF Sound, SpanContext
  <2>7. silent => ~ c.sampled
    BY <2>5 DEF Sound
  <2>8. c.sampled => Backed(c.id)'
    <3>1. [service |-> s, ctx |-> c, parent |-> parent.id, silent |-> silent] \in spans'
      BY <2>2
    <3> QED BY <2>5, <3>1 DEF Backed
  <2>9. origin'[c.trace] = "suppressed" => silent
    BY <1>1, <2>4, <2>5, <2>6 DEF Sound
  <2>10. Sound(c, silent)'
    BY <2>4, <2>5, <2>6, <2>7, <2>8, <2>9 DEF Sound
  <2>11. Agrees(c)
    <3>1. \A d \in Contexts : d.trace \in Nat /\ d.trace <= Len(origin)
      BY DEF Contexts, Inv, Sound, SoundSpan, SpanContext
    <3> QED BY <1>1, <2>4, <2>5, <3>1 DEF Agrees
  <2>12. c.sampled /\ parent.id # 0 => Backed(parent.id)'
    <3>1. Sound(parent, silent)'
      BY <2>3, SoundStays DEF Inv
    <3> QED BY <2>5, <3>1 DEF Sound
  <2>13. parent.id <= Len(origin')
    BY <1>1, <2>4 DEF Sound
  <2>14. ASSUME NEW sp \in spans' \ spans
         PROVE  /\ sp \in [service : Service, ctx : {c}, parent : Nat, silent : BOOLEAN]
                /\ SoundSpan(sp)'
    <3>1. sp = [service |-> s, ctx |-> c, parent |-> parent.id, silent |-> silent]
      BY <2>2
    <3>2. sp \in [service : Service, ctx : {c}, parent : Nat, silent : BOOLEAN]
      BY <1>1, <3>1
    <3>3. (setting[sp.service].tracer \in {"samples", "exports"})'
      BY <1>3, <3>1, TracingAssumption DEF Inv, TypeOK, Tracer
    <3> QED BY <2>4, <2>5, <2>10, <2>12, <2>13, <3>1, <3>2, <3>3 DEF SoundSpan
  <2> QED BY <2>3, <2>5, <2>10, <2>11, <2>14
<1> QED BY <1>2, <1>3

-----------------------------------------------------------------------------
(* The invariant holds initially and is kept by every action *)

\* Rules that are blank match no operation.
LEMMA BlankMatchesNothing ==
    ASSUME NEW op, NEW rules \in Rules,
           \A t \in rules.exact \cup rules.prefix : \A i \in DOMAIN t : t[i] = Blank
    PROVE  ~ Matches(op, rules)
<1>1. ASSUME NEW t \in rules.exact \cup rules.prefix PROVE TrimSpace(t) = << >>
  BY DEF TrimSpace
<1> QED BY <1>1 DEF Matches

\* A step that draws no suppressed context keeps BlankRulesAreInert.
LEMMA BlankStays ==
    ASSUME Inv, Grows, Len(origin') > Len(origin) => origin'[Len(origin')] # "suppressed"
    PROVE  BlankRulesAreInert'
<1>1. ASSUME NEW n \in DOMAIN origin'
      PROVE  n \in DOMAIN origin \/ (n = Len(origin') /\ n > Len(origin))
  <2>1. CASE origin' = origin
    BY <2>1
  <2>2. ASSUME NEW k \in Origin, origin' = Append(origin, k)
        PROVE  n \in DOMAIN origin \/ (n = Len(origin') /\ n > Len(origin))
    BY <2>2 DEF Inv, TypeOK
  <2> QED BY <2>1, <2>2 DEF Grows
<1>2. \A n \in DOMAIN origin : n \in DOMAIN origin' => origin'[n] = origin[n]
  BY OriginGrows DEF Inv, TypeOK
<1> QED BY <1>1, <1>2 DEF Inv, BlankRulesAreInert, AllRulesBlank, RulesOf, Grows

\* Nor does a step that suppresses by rules that match: they are not blank.
LEMMA MatchIsNotBlank ==
    ASSUME Inv, setting' = setting, NEW s \in Service, NEW op,
           NEW rules \in RulesOf(s), Matches(op, rules)
    PROVE  BlankRulesAreInert'
<1>1. rules \in Rules
  BY TracingAssumption DEF RulesOf, Inv, TypeOK
<1>2. ~ AllRulesBlank
  BY <1>1, BlankMatchesNothing DEF AllRulesBlank
<1> QED BY <1>2 DEF BlankRulesAreInert, AllRulesBlank, RulesOf

LEMMA InitInv == Init => Inv
<1> SUFFICES ASSUME Init PROVE Inv
  OBVIOUS
<1>1. TypeOK
  BY TracingAssumption DEF Init, TypeOK
<1> QED BY <1>1 DEF Init, Inv, Contexts, BlankRulesAreInert

LEMMA ArriveInv ==
    ASSUME Inv, NEW s \in Service, NEW op \in Operation, Arrive(s, op)
    PROVE  Inv'
<1>1. arrivals' \in 0..MaxArrivals
  BY TracingAssumption DEF Arrive, Inv, TypeOK
<1>2. CASE Send(s, op, NoSpan, FALSE) /\ UNCHANGED origin
  <2>1. Grows
    BY <1>2 DEF Arrive, Grows
  <2>2. BlankRulesAreInert'
    BY <1>2, <2>1, BlankStays DEF Inv, TypeOK
  <2>3. Adds(NoSpan)
    BY <1>2, <2>1, NoSpanSound, SendAdds DEF Arrive
  <2> QED BY <1>1, <2>1, <2>2, <2>3, NoSpanSound, AddsInv
<1>3. ASSUME Draw("foreign"), NEW b \in BOOLEAN,
             Send(s, op, [trace |-> Fresh, id |-> Fresh, sampled |-> b], FALSE)
      PROVE  Inv'
  <2>1. PICK c : c = [trace |-> Fresh, id |-> Fresh, sampled |-> b]
    OBVIOUS
  <2>2. Grows
    BY <1>3 DEF Arrive, Grows, Draw, Origin
  <2>3. BlankRulesAreInert'
    BY <1>3, <2>2, BlankStays DEF Draw, Inv, TypeOK
  <2>4. c \in SpanContext /\ Sound(c, FALSE)' /\ Agrees(c)
    BY <1>3, <2>1, FreshSound DEF Origin
  <2>5. Adds(c)
    BY <1>3, <2>1, <2>4, SendAdds DEF Arrive
  <2> QED BY <1>1, <2>2, <2>3, <2>4, <2>5, AddsInv
<1> QED BY <1>2, <1>3 DEF Arrive

\* The suppressed context is sound below an excluded operation.
LEMMA SuppressedSound ==
    ASSUME Inv, setting' = setting, spans' = spans, Draw("suppressed"),
           NEW c, c = Suppressed
    PROVE  Grows /\ c \in SpanContext /\ Sound(c, TRUE)' /\ Agrees(c)
<1>1. Grows
  BY DEF Grows, Draw, Origin
<1> QED BY <1>1, FreshSound DEF Suppressed, Origin

LEMMA TracedBlank ==
    ASSUME Inv, NEW s, NEW parent, NEW c, NEW silent, Record(s, parent, c, silent), Grows
    PROVE  BlankRulesAreInert'
BY BlankStays DEF Record, Draw, Inv, TypeOK

LEMMA DeliverInv ==
    ASSUME Inv, NEW m \in requests, Deliver(m)
    PROVE  Inv'
<1> DEFINE s == m.to
<1>1. /\ s \in Service /\ m.silent \in BOOLEAN /\ m.header \in Contexts
      /\ Sound(m.header, m.silent)
      /\ setting' = setting /\ requests' = requests /\ arrivals' \in 0..MaxArrivals
  BY DEF Deliver, Inv, TypeOK, Contexts
<1>2. CASE Handle(s, NoSpan, FALSE) /\ UNCHANGED <<origin, spans>>
  <2>1. Grows
    BY <1>1, <1>2 DEF Grows
  <2>2. BlankRulesAreInert'
    BY <1>2, <2>1, BlankStays DEF Inv, TypeOK
  <2>3. Adds(NoSpan)
    BY <1>1, <1>2, <2>1, NoSpanSound, HandleAdds
  <2> QED BY <1>1, <2>1, <2>2, <2>3, NoSpanSound, AddsInv
<1>3. CASE /\ Matches(m.op, setting[s].serverRules)
           /\ Draw("suppressed") /\ Handle(s, Suppressed, TRUE) /\ UNCHANGED spans
  <2>1. PICK c : c = Suppressed
    OBVIOUS
  <2>2. BlankRulesAreInert'
    BY <1>1, <1>3, MatchIsNotBlank DEF RulesOf
  <2>3. Adds(c)
    BY <1>1, <1>3, <2>1, SuppressedSound, HandleAdds
  <2> QED BY <1>1, <1>3, <2>1, <2>2, <2>3, SuppressedSound, AddsInv
<1>4. ASSUME NEW c \in Traced(s, m.header), Record(s, m.header, c, m.silent),
             Handle(s, c, m.silent)
      PROVE  Inv'
  <2>1. Adds(c) /\ Grows /\ c \in SpanContext
    BY <1>1, <1>4, TracedSound, HandleAdds
  <2>2. BlankRulesAreInert'
    BY <1>4, <2>1, TracedBlank
  <2> QED BY <1>1, <2>1, <2>2, AddsInv
<1> QED BY <1>2, <1>3, <1>4 DEF Deliver

LEMMA WorkInv ==
    ASSUME Inv, NEW h \in handlers, Work(h)
    PROVE  Inv'
<1>1. /\ h.service \in Service /\ h.silent \in BOOLEAN /\ h.ctx \in Contexts
      /\ Sound(h.ctx, h.silent)
      /\ setting' = setting /\ requests' = requests /\ arrivals' \in 0..MaxArrivals
  BY DEF Work, Inv, TypeOK, Contexts
<1>2. PICK c \in Traced(h.service, h.ctx) :
        Record(h.service, h.ctx, c, h.silent) /\ Handle(h.service, c, h.silent)
  BY DEF Work
<1>3. Adds(c) /\ Grows /\ c \in SpanContext
  BY <1>1, <1>2, TracedSound, HandleAdds
<1>4. BlankRulesAreInert'
  BY <1>2, <1>3, TracedBlank
<1> QED BY <1>1, <1>3, <1>4, AddsInv

LEMMA CallInv ==
    ASSUME Inv, NEW h \in handlers, NEW to \in Service, NEW op \in Operation, Call(h, to, op)
    PROVE  Inv'
<1> DEFINE s == h.service
<1>1. /\ s \in Service /\ h.silent \in BOOLEAN /\ h.ctx \in Contexts
      /\ Sound(h.ctx, h.silent)
      /\ setting' = setting /\ handlers' = handlers /\ arrivals' \in 0..MaxArrivals
  BY DEF Call, Inv, TypeOK, Contexts
<1>2. CASE Send(to, op, NoSpan, FALSE) /\ UNCHANGED <<origin, spans>>
  <2>1. Grows
    BY <1>1, <1>2 DEF Grows
  <2>2. BlankRulesAreInert'
    BY <1>2, <2>1, BlankStays DEF Inv, TypeOK
  <2>3. Adds(NoSpan)
    BY <1>1, <1>2, <2>1, NoSpanSound, SendAdds
  <2> QED BY <1>1, <2>1, <2>2, <2>3, NoSpanSound, AddsInv
<1>3. CASE /\ Matches(op, setting[s].clientRules)
           /\ Draw("suppressed") /\ Send(to, op, Suppressed, TRUE) /\ UNCHANGED spans
  <2>1. PICK c : c = Suppressed
    OBVIOUS
  <2>2. BlankRulesAreInert'
    BY <1>1, <1>3, MatchIsNotBlank DEF RulesOf
  <2>3. Adds(c)
    BY <1>1, <1>3, <2>1, SuppressedSound, SendAdds
  <2> QED BY <1>1, <1>3, <2>1, <2>2, <2>3, SuppressedSound, AddsInv
<1>4. ASSUME NEW c \in Traced(s, h.ctx), Record(s, h.ctx, c, h.silent),
             Send(to, op, c, h.silent)
      PROVE  Inv'
  <2>1. Adds(c) /\ Grows /\ c \in SpanContext
    BY <1>1, <1>4, TracedSound, SendAdds
  <2>2. BlankRulesAreInert'
    BY <1>4, <2>1, TracedBlank
  <2> QED BY <1>1, <2>1, <2>2, AddsInv
<1> QED BY <1>2, <1>3, <1>4 DEF Call

LEMMA NextInv == Inv /\ [Next]_vars => Inv'
<1>1. ASSUME Inv, UNCHANGED vars PROVE Inv'
  BY <1>1 DEF vars, Inv, TypeOK, Sound, SoundSpan, Backed, Agrees, Contexts,
     BlankRulesAreInert, AllRulesBlank, RulesOf
<1> QED BY <1>1, ArriveInv, DeliverInv, WorkInv, CallInv DEF Next

THEOREM Invariance == Spec => []Inv
  BY InitInv, NextInv, PTL DEF Spec

-----------------------------------------------------------------------------
(* What the module promises *)

\* Every variable keeps its type.
THEOREM TypeCorrect == Spec => []TypeOK
<1>1. Inv => TypeOK
  BY DEF Inv
<1> QED BY <1>1, Invariance, PTL

\* A service that started a span has a tracer, which exports or does not.
LEMMA SampledIsExported ==
    ASSUME Inv, NEW sp \in spans, sp.ctx.sampled
    PROVE  Exported(sp) \/ setting[sp.service].tracer = "samples"
BY DEF Inv, SoundSpan, Exported

\* Nothing below an excluded operation is exported, as far as tracing reaches
\* (tracing.go:95-107).
THEOREM SilentSubtreeTheorem == Spec => []SilentSubtree
<1>1. Inv => SilentSubtree
  BY DEF Inv, SoundSpan, Sound, SilentSubtree, Exported
<1> QED BY <1>1, Invariance, PTL

\* No exclusion orphans an exported span: its parent is lost only to a service
\* that has no endpoint (tracer.go:67).
THEOREM NoOrphansTheorem == Spec => []NoOrphans
<1>1. ASSUME Inv, NEW sp \in spans, Exported(sp), sp.parent # 0
      PROVE  \/ origin[sp.parent] = "foreign"
             \/ \E above \in spans :
                   /\ above.ctx.id = sp.parent
                   /\ Exported(above) \/ setting[above.service].tracer = "samples"
  <2>1. Backed(sp.parent)
    BY <1>1 DEF Inv, SoundSpan, Exported
  <2> QED BY <1>1, <2>1, SampledIsExported DEF Backed
<1>2. Inv => NoOrphans
  BY <1>1 DEF NoOrphans
<1> QED BY <1>2, Invariance, PTL

\* The services with an exporter export all their spans of a trace or none
\* (tracer.go:57).
THEOREM WholeTracesTheorem == Spec => []WholeTraces
<1>1. ASSUME Inv, NEW a \in spans, NEW b \in spans, a.ctx.trace = b.ctx.trace, Exported(a)
      PROVE  Exported(b) \/ setting[b.service].tracer = "samples"
  <2>1. b.ctx.sampled
    BY <1>1 DEF Inv, Agrees, Contexts, Exported
  <2> QED BY <1>1, <2>1, SampledIsExported
<1>2. Inv => WholeTraces
  BY <1>1 DEF WholeTraces
<1> QED BY <1>2, Invariance, PTL

\* Suppression does not leave the subtree of the excluded operation
\* (tracing.go:35-48).
THEOREM ExclusionTheorem == Spec => []ExclusionStaysBelow
<1>1. Inv => ExclusionStaysBelow
  BY DEF Inv, SoundSpan, Sound, ExclusionStaysBelow
<1> QED BY <1>1, Invariance, PTL

\* Blank rules exclude nothing (tracing.go:75-88).
THEOREM BlankRulesTheorem == Spec => []BlankRulesAreInert
<1>1. Inv => BlankRulesAreInert
  BY DEF Inv
<1> QED BY <1>1, Invariance, PTL

-----------------------------------------------------------------------------
(* The log files: levels and the configuration *)

LEMMA LevelsAre ==
    /\ Level = {"debug", "info", "warn", "error", "fatal"}
    /\ Rank("warn") = 3 /\ Rank("error") = 4
<1>1. /\ DOMAIN Levels = 1..5 /\ Levels[1] = "debug" /\ Levels[2] = "info"
      /\ Levels[3] = "warn" /\ Levels[4] = "error" /\ Levels[5] = "fatal"
  BY DEF Levels
<1>2. Level = {"debug", "info", "warn", "error", "fatal"}
  BY <1>1 DEF Level, ToSet
<1>3. \A i \in 1..5 : (Levels[i] = "warn") <=> (i = 3)
  BY <1>1
<1>4. \A i \in 1..5 : (Levels[i] = "error") <=> (i = 4)
  BY <1>1
<1>5. Rank("warn") = 3
  BY <1>1, <1>3 DEF Rank
<1>6. Rank("error") = 4
  BY <1>1, <1>4 DEF Rank
<1> QED BY <1>2, <1>5, <1>6

\* What is assumed of the constants, one fact at a time.
LEMMA SectionsAre == Section \subseteq Logger \cup {Absent}
BY LogFilesAssumption

LEMMA NamesAre ==
    DefaultFileName \in FileName /\ DefaultErrorFileName \in FileName /\ Emitted \subseteq Level
BY LogFilesAssumption

LEMMA DefaultsAre ==
    /\ DefaultMaxSize \in Nat \ {0} /\ DefaultMaxBackups \in Nat \ {0}
    /\ DefaultMaxAge \in Nat \ {0}
BY LogFilesAssumption

Configs ==
    [console : BOOLEAN, file : BOOLEAN, errorFile : BOOLEAN, name : FileName,
     errorName : FileName, level : Level, maxSize : Nat \ {0}, maxBackups : Nat \ {0},
     maxAge : Nat \ {0}]

LEMMA DefaultConfigType == DefaultConfig \in Configs
<1>1. (IF production THEN "info" ELSE "debug") \in Level
  BY LevelsAre
<1>2. DefaultFileName \in FileName /\ DefaultErrorFileName \in FileName
  BY NamesAre
<1>3. /\ DefaultMaxSize \in Nat \ {0} /\ DefaultMaxBackups \in Nat \ {0}
      /\ DefaultMaxAge \in Nat \ {0}
  BY DefaultsAre
<1> QED BY <1>1, <1>2, <1>3 DEF DefaultConfig, Configs

LEMMA WithOptionsType ==
    ASSUME NEW z \in Logger_Zap, z.level # UnknownLevel
    PROVE  WithOptions(z) \in Configs
<1> DEFINE c == WithOptions(z)
<1>1. c.console \in BOOLEAN /\ c.file \in BOOLEAN /\ c.errorFile \in BOOLEAN
  BY DEF WithOptions, Scanned
<1>2. c.name \in FileName
  BY NamesAre DEF WithOptions, OrDefault, Logger_Zap
<1>3. c.errorName \in FileName
  BY NamesAre DEF WithOptions, OrDefault, Logger_Zap
<1>4. DefaultConfig.level \in Level
  BY DefaultConfigType DEF Configs
<1>5. c.level \in Level
  BY <1>4 DEF WithOptions, OrDefault, Logger_Zap
<1>6. /\ c.maxSize \in Nat \ {0} /\ c.maxBackups \in Nat \ {0}
      /\ c.maxAge \in Nat \ {0}
  BY DefaultsAre DEF WithOptions, OrDefault, Logger_Zap
<1>7. c = [console |-> c.console, file |-> c.file, errorFile |-> c.errorFile, name |-> c.name,
           errorName |-> c.errorName, level |-> c.level, maxSize |-> c.maxSize,
           maxBackups |-> c.maxBackups, maxAge |-> c.maxAge]
  BY DEF WithOptions
<1> HIDE DEF c
<1>8. c \in Configs
  BY <1>1, <1>2, <1>3, <1>5, <1>6, <1>7 DEF Configs
<1> QED BY <1>8 DEF c

LEMMA ConfigType ==
    ASSUME section \in Section, NewLogger = "zap" PROVE Config \in Configs
<1>1. section # Absent /\ (section.zap = Absent \/ section.zap.level # UnknownLevel)
  BY DEF NewLogger
<1>2. section \in Logger
  BY <1>1, SectionsAre
<1>3. CASE section.zap = Absent
  BY <1>3, DefaultConfigType DEF Config
<1>4. CASE section.zap # Absent
  <2>1. section.zap \in Logger_Zap
    BY <1>2, <1>4 DEF Logger
  <2> QED BY <1>1, <1>4, <2>1, WithOptionsType DEF Config
<1> QED BY <1>3, <1>4

\* The facts about a configuration in force that the other proofs use.
LEMMA ConfigIs ==
    ASSUME section \in Section, NewLogger = "zap"
    PROVE  /\ Config.name \in FileName /\ Config.errorName \in FileName
           /\ Config.maxSize \in Nat /\ Config.maxSize >= 1
           /\ Config.maxBackups \in Nat /\ Config.maxBackups >= 1
           /\ \A w \in Writer : Target(w) \in FileName
           /\ BackupSize \in Nat /\ BackupSize >= 1
<1>1. Config \in Configs
  BY ConfigType
<1>2. Config.name \in FileName /\ Config.errorName \in FileName
  BY <1>1 DEF Configs
<1>3. Config.maxSize \in Nat \ {0} /\ Config.maxBackups \in Nat \ {0}
  BY <1>1 DEF Configs
<1>4. \A w \in Writer : Target(w) \in FileName
  BY <1>2 DEF Target
<1>5. BackupSize \in Nat /\ BackupSize >= 1
  BY <1>3 DEF BackupSize
<1> QED BY <1>2, <1>3, <1>4, <1>5

-----------------------------------------------------------------------------
(* The log files: what a record does to a disk *)

Disks ==
    [content : Seq(Seq(Nat)), named : [FileName -> Nat], backups : [FileName -> Seq(Nat)],
     writer : [Writer -> [file : Nat, size : Nat, mill : BOOLEAN]]]

\* The record r at the end of the file f, which w has open afterwards.
Extended(d, w, r, f, s, m) ==
    [content |-> [d.content EXCEPT ![f] = Append(d.content[f], r)], named |-> d.named,
     backups |-> d.backups,
     writer |-> [d.writer EXCEPT ![w] = [file |-> f, size |-> s + 1, mill |-> m]]]

\* The record r in a new file, and what had its name among the backups.
Rotated(d, w, r) ==
    LET n == Target(w)
        new == Len(d.content) + 1
    IN  [content |-> Append(d.content, <<r>>),
         named |-> [d.named EXCEPT ![n] = new],
         backups |-> [d.backups EXCEPT ![n] = IF d.named[n] = 0 THEN d.backups[n]
                                              ELSE Append(d.backups[n], d.named[n])],
         writer |-> [d.writer EXCEPT ![w] = [file |-> new, size |-> 1, mill |-> TRUE]]]

LEMMA DiskFields ==
    ASSUME NEW x, DOMAIN x = {"content", "named", "backups", "writer"},
           x = [i \in DOMAIN x |-> x[i]]
    PROVE  x = [content |-> x.content, named |-> x.named, backups |-> x.backups,
                writer |-> x.writer]
OBVIOUS

\* What OpenNew and mill make of the entry of a writer, and what Write makes of it.
LEMMA WriterFields ==
    ASSUME NEW v \in [file : Nat, size : Nat, mill : BOOLEAN], NEW g \in Nat,
           NEW u \in Nat
    PROVE  /\ [[v EXCEPT !.file = g, !.size = u] EXCEPT !.mill = TRUE]
                = [file |-> g, size |-> u, mill |-> TRUE]
           /\ [v EXCEPT !.size = @ + 1]
                = [file |-> v.file, size |-> v.size + 1, mill |-> v.mill]
<1> DEFINE z(t) == [[v EXCEPT !.file = g, !.size = t] EXCEPT !.mill = TRUE]
           y == [v EXCEPT !.size = @ + 1]
<1>1. ASSUME NEW t PROVE z(t) = [file |-> g, size |-> t, mill |-> TRUE]
  <2>1. z(t).file = g /\ z(t).size = t
    OBVIOUS
  <2>2. z(t).mill = TRUE
    OBVIOUS
  <2>3. DOMAIN z(t) = {"file", "size", "mill"} /\ z(t) = [i \in DOMAIN z(t) |-> z(t)[i]]
    OBVIOUS
  <2> HIDE DEF z
  <2> QED BY <2>1, <2>2, <2>3
<1>2. y = [file |-> v.file, size |-> v.size + 1, mill |-> v.mill]
  <2>1. y.file = v.file /\ y.size = v.size + 1 /\ y.mill = v.mill
    OBVIOUS
  <2>2. DOMAIN y = {"file", "size", "mill"} /\ y = [i \in DOMAIN y |-> y[i]]
    OBVIOUS
  <2> HIDE DEF y
  <2> QED BY <2>1, <2>2
<1> QED BY <1>1, <1>2

\* The end of Written, over a disk whose writer is ready.
Appended(e, w, r) ==
    [e EXCEPT !.content[e.writer[w].file] = Append(@, r), !.writer[w].size = @ + 1]

LEMMA ReadyExtended ==
    ASSUME NEW e \in Disks, NEW w \in Writer, NEW r,
           e.writer[w].file \in DOMAIN e.content
    PROVE  Appended(e, w, r)
             = Extended(e, w, r, e.writer[w].file, e.writer[w].size, e.writer[w].mill)
<1> DEFINE x == [e EXCEPT !.content[e.writer[w].file] = Append(@, r), !.writer[w].size = @ + 1]
           f == e.writer[w].file
<1>1. x.content = [e.content EXCEPT ![f] = Append(e.content[f], r)]
  BY DEF Disks
<1>2. x.named = e.named /\ x.backups = e.backups
  BY DEF Disks
<1>3. x.writer = [e.writer EXCEPT ![w] = [e.writer[w] EXCEPT !.size = @ + 1]]
  BY DEF Disks
<1>4. e.writer[w] = [file |-> f, size |-> e.writer[w].size, mill |-> e.writer[w].mill]
  BY DEF Disks
<1>5. [e.writer[w] EXCEPT !.size = @ + 1]
        = [file |-> f, size |-> e.writer[w].size + 1, mill |-> e.writer[w].mill]
  BY <1>4
<1>6. x = [content |-> x.content, named |-> x.named, backups |-> x.backups,
           writer |-> x.writer]
  <2>1. DOMAIN x = {"content", "named", "backups", "writer"} /\ x = [i \in DOMAIN x |-> x[i]]
    BY DEF Disks
  <2> QED BY <2>1, DiskFields
<1> QED BY <1>1, <1>2, <1>3, <1>5, <1>6 DEF Extended, Appended

LEMMA OpenNewIs ==
    ASSUME NEW d \in Disks, NEW w \in Writer, Target(w) \in FileName
    PROVE  Mill(OpenNew(d, w), w) =
             [content |-> Append(d.content, <<>>),
              named |-> [d.named EXCEPT ![Target(w)] = Len(d.content) + 1],
              backups |-> [d.backups EXCEPT ![Target(w)] =
                              IF d.named[Target(w)] = 0 THEN d.backups[Target(w)]
                              ELSE Append(d.backups[Target(w)], d.named[Target(w)])],
              writer |-> [d.writer EXCEPT ![w] =
                              [file |-> Len(d.content) + 1, size |-> 0, mill |-> TRUE]]]
<1> DEFINE n == Target(w)
           new == Len(d.content) + 1
           e == OpenNew(d, w)
           x == Mill(e, w)
<1>1. e.content = Append(d.content, <<>>)
  BY DEF Disks, OpenNew
<1>2. e.named = [d.named EXCEPT ![n] = new]
  BY DEF Disks, OpenNew
<1>3. e.backups = [d.backups EXCEPT ![n] = IF d.named[n] = 0 THEN d.backups[n]
                                           ELSE Append(d.backups[n], d.named[n])]
  BY DEF Disks, OpenNew
<1>4. e.writer = [d.writer EXCEPT ![w] = [d.writer[w] EXCEPT !.file = new, !.size = 0]]
  BY DEF Disks, OpenNew
<1>5. DOMAIN e = {"content", "named", "backups", "writer"} /\ e = [i \in DOMAIN e |-> e[i]]
  BY DEF Disks, OpenNew
<1>6. d.writer[w] \in [file : Nat, size : Nat, mill : BOOLEAN] /\ new \in Nat
  BY DEF Disks
<1>7. [[d.writer[w] EXCEPT !.file = new, !.size = 0] EXCEPT !.mill = TRUE]
        = [file |-> new, size |-> 0, mill |-> TRUE]
  BY <1>6, WriterFields
<1>8. DOMAIN d.writer = Writer /\ d.writer = [v \in Writer |-> d.writer[v]]
  BY DEF Disks
<1> HIDE DEF e
<1>9. x.content = e.content /\ x.named = e.named /\ x.backups = e.backups
  BY <1>5 DEF Mill
<1>10. x.writer = [e.writer EXCEPT ![w] = [e.writer[w] EXCEPT !.mill = TRUE]]
  BY <1>5 DEF Mill
<1>11. x = [content |-> x.content, named |-> x.named, backups |-> x.backups,
            writer |-> x.writer]
  <2>1. DOMAIN x = {"content", "named", "backups", "writer"} /\ x = [i \in DOMAIN x |-> x[i]]
    BY <1>5 DEF Mill
  <2> QED BY <2>1, DiskFields
<1>12. x.writer = [d.writer EXCEPT ![w] = [file |-> new, size |-> 0, mill |-> TRUE]]
  BY <1>4, <1>7, <1>8, <1>10
<1> HIDE DEF x
<1>13. x = [content |-> Append(d.content, <<>>),
            named |-> [d.named EXCEPT ![n] = new],
            backups |-> [d.backups EXCEPT ![n] = IF d.named[n] = 0 THEN d.backups[n]
                                                 ELSE Append(d.backups[n], d.named[n])],
            writer |-> [d.writer EXCEPT ![w] = [file |-> new, size |-> 0, mill |-> TRUE]]]
  BY <1>1, <1>2, <1>3, <1>9, <1>11, <1>12
<1> QED BY <1>13 DEF x, e

\* Which file the record goes to, and with which size, when it needs no new one.
Continues(d, w, f, s) ==
    IF d.writer[w].file # 0 THEN f = d.writer[w].file /\ s = d.writer[w].size
    ELSE f = d.named[Target(w)] /\ s = Len(d.content[f])

\* When it does.
IsFull(d, w) ==
    LET old == d.named[Target(w)]
    IN  IF d.writer[w].file # 0 THEN d.writer[w].size + 1 > Config.maxSize
        ELSE old # 0 => Len(d.content[old]) + 1 >= Config.maxSize

LEMMA ReopenedIs ==
    ASSUME NEW d \in Disks, NEW w \in Writer, NEW f \in Nat, NEW s \in Nat
    PROVE  Mill([d EXCEPT !.writer[w] = [@ EXCEPT !.file = f, !.size = s]], w)
             = [content |-> d.content, named |-> d.named, backups |-> d.backups,
                writer |-> [d.writer EXCEPT ![w] = [file |-> f, size |-> s, mill |-> TRUE]]]
<1> DEFINE e == [d EXCEPT !.writer[w] = [@ EXCEPT !.file = f, !.size = s]]
           x == Mill(e, w)
<1>1. e.content = d.content /\ e.named = d.named /\ e.backups = d.backups
  BY DEF Disks
<1>2. e.writer = [d.writer EXCEPT ![w] = [d.writer[w] EXCEPT !.file = f, !.size = s]]
  BY DEF Disks
<1>3. DOMAIN e = {"content", "named", "backups", "writer"} /\ e = [i \in DOMAIN e |-> e[i]]
  BY DEF Disks
<1>4. DOMAIN d.writer = Writer /\ d.writer = [v \in Writer |-> d.writer[v]]
  BY DEF Disks
<1>5. [[d.writer[w] EXCEPT !.file = f, !.size = s] EXCEPT !.mill = TRUE]
        = [file |-> f, size |-> s, mill |-> TRUE]
  <2>1. d.writer[w] \in [file : Nat, size : Nat, mill : BOOLEAN]
    BY DEF Disks
  <2> QED BY <2>1, WriterFields
<1> HIDE DEF e
<1>6. x.content = e.content /\ x.named = e.named /\ x.backups = e.backups
  BY <1>3 DEF Mill
<1>7. x.writer = [e.writer EXCEPT ![w] = [e.writer[w] EXCEPT !.mill = TRUE]]
  BY <1>3 DEF Mill
<1>8. x.writer = [d.writer EXCEPT ![w] = [file |-> f, size |-> s, mill |-> TRUE]]
  BY <1>2, <1>4, <1>5, <1>7
<1>9. x = [content |-> x.content, named |-> x.named, backups |-> x.backups,
           writer |-> x.writer]
  <2>1. DOMAIN x = {"content", "named", "backups", "writer"} /\ x = [i \in DOMAIN x |-> x[i]]
    BY <1>3 DEF Mill
  <2> QED BY <2>1, DiskFields
<1> HIDE DEF x
<1>10. x = [content |-> d.content, named |-> d.named, backups |-> d.backups,
            writer |-> [d.writer EXCEPT ![w] = [file |-> f, size |-> s, mill |-> TRUE]]]
  BY <1>1, <1>6, <1>8, <1>9
<1> QED BY <1>10 DEF x, e

\* Once its writer is ready, the record goes to the end of the file that is open.
LEMMA WrittenExtended ==
    ASSUME NEW d, NEW e \in Disks, NEW w \in Writer, NEW r, Ready(d, w) = e,
           e.writer[w].file \in DOMAIN e.content
    PROVE  Written(d, w, r)
             = Extended(e, w, r, e.writer[w].file, e.writer[w].size, e.writer[w].mill)
<1>1. Written(d, w, r) = Appended(Ready(d, w), w, r)
  BY DEF Written, Appended
<1>2. Appended(e, w, r)
        = Extended(e, w, r, e.writer[w].file, e.writer[w].size, e.writer[w].mill)
  BY ReadyExtended
<1> QED BY <1>1, <1>2

LEMMA WriterSet ==
    ASSUME NEW v \in [Writer -> [file : Nat, size : Nat, mill : BOOLEAN]], NEW w \in Writer,
           NEW a \in [file : Nat, size : Nat, mill : BOOLEAN], NEW b
    PROVE  /\ [v EXCEPT ![w] = a] \in [Writer -> [file : Nat, size : Nat, mill : BOOLEAN]]
           /\ [v EXCEPT ![w] = a][w] = a
           /\ [[v EXCEPT ![w] = a] EXCEPT ![w] = b] = [v EXCEPT ![w] = b]
OBVIOUS

LEMMA WrittenToNew ==
    ASSUME NEW d \in Disks, NEW w \in Writer, NEW r \in Nat, Target(w) \in FileName,
           Ready(d, w) = Mill(OpenNew(d, w), w)
    PROVE  Written(d, w, r) = Rotated(d, w, r)
<1> DEFINE n == Target(w)
           new == Len(d.content) + 1
           a == [file |-> new, size |-> 0, mill |-> TRUE]
           content == Append(d.content, <<>>)
           named == [d.named EXCEPT ![n] = new]
           backups == [d.backups EXCEPT ![n] = IF d.named[n] = 0 THEN d.backups[n]
                                               ELSE Append(d.backups[n], d.named[n])]
           writer == [d.writer EXCEPT ![w] = a]
           e == [content |-> content, named |-> named, backups |-> backups, writer |-> writer]
<1>1. Ready(d, w) = e
  BY OpenNewIs
<1>2. d.content \in Seq(Seq(Nat)) /\ new \in Nat
      /\ d.writer \in [Writer -> [file : Nat, size : Nat, mill : BOOLEAN]]
  BY DEF Disks
<1>3. a \in [file : Nat, size : Nat, mill : BOOLEAN]
  BY <1>2
<1>4. /\ writer \in [Writer -> [file : Nat, size : Nat, mill : BOOLEAN]]
      /\ writer[w] = a
      /\ \A b : [writer EXCEPT ![w] = b] = [d.writer EXCEPT ![w] = b]
  BY <1>2, <1>3, WriterSet
<1>5. content \in Seq(Seq(Nat)) /\ Len(content) = new /\ content[new] = <<>>
      /\ new \in DOMAIN content
  BY <1>2
<1>6. named \in [FileName -> Nat]
  BY <1>2 DEF Disks
<1>7. backups \in [FileName -> Seq(Nat)]
  <2>1. d.backups[n] \in Seq(Nat) /\ d.named[n] \in Nat /\ d.backups \in [FileName -> Seq(Nat)]
    BY DEF Disks
  <2>2. Append(d.backups[n], d.named[n]) \in Seq(Nat)
    BY <2>1
  <2> QED BY <2>1, <2>2
<1>8. [content EXCEPT ![new] = <<r>>] = Append(d.content, <<r>>)
  <2> DEFINE x == [content EXCEPT ![new] = <<r>>]
             y == Append(d.content, <<r>>)
  <2>1. <<r>> \in Seq(Nat) /\ new \in 1..Len(content)
    BY <1>5
  <2>2. \A i \in 1..Len(d.content) : content[i] = d.content[i]
    BY <1>2
  <2> HIDE DEF content
  <2>3. x \in Seq(Seq(Nat)) /\ Len(x) = new
        /\ \A i \in 1..new : x[i] = IF i = new THEN <<r>> ELSE content[i]
    BY <1>5, <2>1, ExceptSeq
  <2>4. y \in Seq(Seq(Nat)) /\ Len(y) = new /\ y[new] = <<r>>
        /\ \A i \in 1..Len(d.content) : y[i] = d.content[i]
    BY <1>2, <2>1, AppendProperties
  <2> HIDE DEF x, y
  <2>5. \A i \in 1..new : x[i] = y[i]
    <3>1. \A i \in 1..new : i = new \/ i \in 1..Len(d.content)
      BY <1>2
    <3> QED BY <2>3, <2>4, <2>2, <3>1
  <2>6. x = y
    BY <2>3, <2>4, <2>5, SeqEqual
  <2> QED BY <2>6 DEF x, y
<1>9. Append(<<>>, r) = <<r>>
  OBVIOUS
<1> HIDE DEF content, named, backups, writer
<1>10. e \in Disks
  BY <1>4, <1>5, <1>6, <1>7 DEF Disks
<1>11. e.content = content /\ e.named = named /\ e.backups = backups /\ e.writer = writer
  OBVIOUS
<1> HIDE DEF e
<1>12. e.writer[w].file = new /\ e.writer[w].size = 0
  BY <1>4, <1>11
<1>13. e.writer[w].mill = TRUE
  BY <1>4, <1>11
<1>14. Written(d, w, r) = Extended(e, w, r, new, 0, TRUE)
  <2>1. e.writer[w].file \in DOMAIN e.content
    BY <1>5, <1>11, <1>12
  <2>2. Written(d, w, r)
          = Extended(e, w, r, e.writer[w].file, e.writer[w].size, e.writer[w].mill)
    BY <1>1, <1>10, <2>1, WrittenExtended
  <2> QED BY <1>12, <1>13, <2>2
<1>15. Extended(e, w, r, new, 0, TRUE) = Rotated(d, w, r)
  <2>1. [e.content EXCEPT ![new] = Append(e.content[new], r)] = Append(d.content, <<r>>)
    BY <1>5, <1>8, <1>9, <1>11
  <2>2. [e.writer EXCEPT ![w] = [file |-> new, size |-> 0 + 1, mill |-> TRUE]]
          = [d.writer EXCEPT ![w] = [file |-> new, size |-> 1, mill |-> TRUE]]
    <3>1. 0 + 1 = 1
      OBVIOUS
    <3> DEFINE b == [file |-> new, size |-> 1, mill |-> TRUE]
    <3> HIDE DEF b
    <3>2. [e.writer EXCEPT ![w] = b] = [d.writer EXCEPT ![w] = b]
      BY <1>4, <1>11
    <3> QED BY <3>1, <3>2 DEF b
  <2> QED BY <1>11, <2>1, <2>2 DEF Extended, Rotated, named, backups
<1> QED BY <1>14, <1>15

\* A disk on which the records 1..k may be.
DiskOK(d, k) ==
    /\ d \in Disks
    /\ \A f \in DOMAIN d.content : \A j \in DOMAIN d.content[f] : d.content[f][j] \in 1..k
    /\ \A n \in FileName : d.named[n] \in 0..Len(d.content)
    /\ \A n \in FileName : \A j \in DOMAIN d.backups[n] : d.backups[n][j] \in DOMAIN d.content
    /\ \A w \in Writer : d.writer[w].file \in 0..Len(d.content)

LEMMA WrittenIs ==
    ASSUME NEW d, NEW k \in Nat, DiskOK(d, k), NEW w \in Writer, Target(w) \in FileName,
           NEW r \in Nat, Config.maxSize \in Nat
    PROVE  \/ \E f \in DOMAIN d.content, s \in Nat, m \in BOOLEAN :
                /\ Continues(d, w, f, s)
                /\ d.writer[w].file = 0 \/ d.writer[w].mill => m
                /\ Written(d, w, r) = Extended(d, w, r, f, s, m)
           \/ IsFull(d, w) /\ Written(d, w, r) = Rotated(d, w, r)
<1> DEFINE v == d.writer[w]
           old == d.named[Target(w)]
<1>1. /\ d \in Disks /\ d.content \in Seq(Seq(Nat))
      /\ d.writer \in [Writer -> [file : Nat, size : Nat, mill : BOOLEAN]]
  BY DEF DiskOK, Disks
<1>2. v.file \in Nat /\ v.size \in Nat /\ v.mill \in BOOLEAN
  BY <1>1
<1>3. /\ v.file # 0 => v.file \in DOMAIN d.content
      /\ old # 0 => old \in DOMAIN d.content
  BY <1>1, <1>2 DEF DiskOK
<1>4. CASE Ready(d, w) = Mill(OpenNew(d, w), w) /\ IsFull(d, w)
  BY <1>1, <1>4, WrittenToNew
<1>5. CASE v.file # 0 /\ ~ (v.size + 1 > Config.maxSize)
  <2>1. Ready(d, w) = d
    BY <1>5 DEF Ready
  <2>2. Written(d, w, r) = Extended(d, w, r, v.file, v.size, v.mill)
    BY <1>1, <1>3, <1>5, <2>1, WrittenExtended
  <2>3. Continues(d, w, v.file, v.size)
    BY <1>5 DEF Continues
  <2> DEFINE Noticed(m) == d.writer[w].file = 0 \/ d.writer[w].mill => m
  <2>4. Noticed(v.mill)
    BY <1>5, Zenon
  <2> HIDE DEF v, Noticed
  <2>5. \E f \in DOMAIN d.content, s \in Nat, m \in BOOLEAN :
          /\ Continues(d, w, f, s)
          /\ Noticed(m)
          /\ Written(d, w, r) = Extended(d, w, r, f, s, m)
    BY <1>2, <1>3, <1>5, <2>2, <2>3, <2>4
  <2> QED BY <2>5 DEF Noticed
<1>6. CASE v.file = 0 /\ old # 0 /\ Len(d.content[old]) + 1 < Config.maxSize
  <2> DEFINE s == Len(d.content[old])
             a == [file |-> old, size |-> s, mill |-> TRUE]
             writer == [d.writer EXCEPT ![w] = a]
             e == [content |-> d.content, named |-> d.named, backups |-> d.backups,
                   writer |-> writer]
  <2>1. old \in Nat /\ s \in Nat /\ old \in DOMAIN d.content
    BY <1>1, <1>3, <1>6
  <2>2. Ready(d, w) = Mill([d EXCEPT !.writer[w] = [@ EXCEPT !.file = old, !.size = s]], w)
    BY <1>6 DEF Ready
  <2>3. Ready(d, w) = e
    BY <1>1, <2>1, <2>2, ReopenedIs
  <2>4. a \in [file : Nat, size : Nat, mill : BOOLEAN]
    BY <2>1
  <2>5. /\ writer \in [Writer -> [file : Nat, size : Nat, mill : BOOLEAN]]
        /\ writer[w] = a
        /\ \A b : [writer EXCEPT ![w] = b] = [d.writer EXCEPT ![w] = b]
    BY <1>1, <2>4, WriterSet
  <2> HIDE DEF writer
  <2>6. e \in Disks
    BY <1>1, <2>5 DEF Disks
  <2>7. e.content = d.content /\ e.named = d.named /\ e.backups = d.backups /\ e.writer = writer
    OBVIOUS
  <2> HIDE DEF e
  <2>8. e.writer[w].file = old /\ e.writer[w].size = s
    BY <2>5, <2>7
  <2>9. e.writer[w].mill = TRUE
    BY <2>5, <2>7
  <2>10. Written(d, w, r) = Extended(e, w, r, old, s, TRUE)
    <3>1. e.writer[w].file \in DOMAIN e.content
      BY <2>1, <2>7, <2>8
    <3>2. Written(d, w, r)
            = Extended(e, w, r, e.writer[w].file, e.writer[w].size, e.writer[w].mill)
      BY <2>3, <2>6, <3>1, WrittenExtended
    <3> QED BY <2>8, <2>9, <3>2
  <2>11. Extended(e, w, r, old, s, TRUE) = Extended(d, w, r, old, s, TRUE)
    BY <2>5, <2>7 DEF Extended
  <2>12. Continues(d, w, old, s)
    BY <1>6 DEF Continues
  <2> HIDE DEF old, s
  <2> QED BY <2>1, <2>10, <2>11, <2>12
<1>7. CASE ~ (v.file # 0 /\ ~ (v.size + 1 > Config.maxSize))
           /\ ~ (v.file = 0 /\ old # 0 /\ Len(d.content[old]) + 1 < Config.maxSize)
  <2>1. CASE v.file # 0
    <3>1. v.size + 1 > Config.maxSize
      BY <1>7, <2>1
    <3>2. Ready(d, w) = Mill(OpenNew(d, w), w) /\ IsFull(d, w)
      BY <2>1, <3>1 DEF Ready, IsFull
    <3> QED BY <1>4, <3>2
  <2>2. CASE v.file = 0
    <3>1. ~ (old # 0 /\ Len(d.content[old]) + 1 < Config.maxSize)
      BY <1>7, <2>2
    <3>2. Ready(d, w) = Mill(OpenNew(d, w), w)
      BY <2>2, <3>1 DEF Ready
    <3>3. old # 0 => Len(d.content[old]) + 1 >= Config.maxSize
      <4>1. old # 0 => Len(d.content[old]) \in Nat
        BY <1>1, <1>3
      <4> QED BY <3>1, <4>1
    <3>4. IsFull(d, w)
      BY <2>2, <3>3 DEF IsFull
    <3> QED BY <1>4, <3>2, <3>4
  <2> QED BY <2>1, <2>2
<1> QED BY <1>5, <1>6, <1>7

\* A disk stays one when a record is written to it.
LEMMA ExtendedOK ==
    ASSUME NEW d, NEW k \in Nat, DiskOK(d, k), NEW w \in Writer, NEW r \in Nat, r >= 1,
           NEW l \in Nat, k <= l, r <= l, NEW f \in DOMAIN d.content, NEW s \in Nat,
           NEW m \in BOOLEAN
    PROVE  DiskOK(Extended(d, w, r, f, s, m), l)
<1> DEFINE e == Extended(d, w, r, f, s, m)
<1>1. /\ d.content \in Seq(Seq(Nat)) /\ f \in 1..Len(d.content) /\ Len(d.content) \in Nat
      /\ d.named \in [FileName -> Nat] /\ d.backups \in [FileName -> Seq(Nat)]
      /\ d.writer \in [Writer -> [file : Nat, size : Nat, mill : BOOLEAN]]
  BY DEF DiskOK, Disks
<1>2. d.content[f] \in Seq(Nat)
  BY <1>1
<1>3. Append(d.content[f], r) \in Seq(Nat)
  BY <1>2, AppendProperties
<1>4. e.content \in Seq(Seq(Nat)) /\ Len(e.content) = Len(d.content)
      /\ \A g \in 1..Len(d.content) :
            e.content[g] = IF g = f THEN Append(d.content[f], r) ELSE d.content[g]
  BY <1>1, <1>3, ExceptSeq DEF Extended
<1>5. e.named = d.named /\ e.backups = d.backups
  BY DEF Extended
<1>6. /\ e.writer \in [Writer -> [file : Nat, size : Nat, mill : BOOLEAN]]
      /\ e.writer[w].file = f /\ \A v \in Writer : v # w => e.writer[v] = d.writer[v]
  <2>1. [file |-> f, size |-> s + 1, mill |-> m] \in [file : Nat, size : Nat, mill : BOOLEAN]
    BY <1>1
  <2> QED BY <1>1, <2>1 DEF Extended
<1>7. e = [content |-> e.content, named |-> e.named, backups |-> e.backups,
           writer |-> e.writer]
  BY DEF Extended
<1> HIDE DEF e
<1>8. e \in Disks
  BY <1>1, <1>4, <1>5, <1>6, <1>7 DEF Disks
<1>9. ASSUME NEW g \in DOMAIN e.content, NEW j \in DOMAIN e.content[g]
      PROVE  e.content[g][j] \in 1..l
  <2>1. g \in 1..Len(d.content)
    <3>1. DOMAIN e.content = 1..Len(e.content)
      BY <1>4
    <3> QED BY <1>4, <3>1
  <2>2. CASE g = f
    <3>1. e.content[g] = Append(d.content[f], r)
      BY <1>4, <2>1, <2>2
    <3>2. j \in 1..(Len(d.content[f]) + 1) /\ Len(d.content[f]) \in Nat
      BY <1>2, <3>1
    <3>3. CASE j = Len(d.content[f]) + 1
      <4>1. e.content[g][j] = r
        BY <1>2, <3>1, <3>3
      <4> QED BY <4>1
    <3>4. CASE j # Len(d.content[f]) + 1
      <4>1. j \in DOMAIN d.content[f] /\ e.content[g][j] = d.content[f][j]
        BY <1>2, <3>1, <3>2, <3>4
      <4> QED BY <4>1 DEF DiskOK
    <3> QED BY <3>3, <3>4
  <2>3. CASE g # f
    <3>1. e.content[g] = d.content[g] /\ g \in DOMAIN d.content
      BY <1>1, <1>4, <2>1, <2>3
    <3> QED BY <3>1 DEF DiskOK
  <2> QED BY <2>2, <2>3
<1>10. /\ \A n \in FileName : e.named[n] \in 0..Len(e.content)
       /\ \A n \in FileName : \A j \in DOMAIN e.backups[n] : e.backups[n][j] \in DOMAIN e.content
  BY <1>1, <1>4, <1>5 DEF DiskOK
<1>11. ASSUME NEW v \in Writer PROVE e.writer[v].file \in 0..Len(e.content)
  <2>1. CASE v = w
    BY <1>1, <1>4, <1>6, <2>1
  <2>2. CASE v # w
    BY <1>4, <1>6, <2>2 DEF DiskOK
  <2> QED BY <2>1, <2>2
<1>12. DiskOK(e, l)
  BY <1>8, <1>9, <1>10, <1>11 DEF DiskOK
<1> QED BY <1>12 DEF e

LEMMA RotatedOK ==
    ASSUME NEW d, NEW k \in Nat, DiskOK(d, k), NEW w \in Writer, Target(w) \in FileName,
           NEW r \in Nat, r >= 1, NEW l \in Nat, k <= l, r <= l
    PROVE  DiskOK(Rotated(d, w, r), l)
<1> DEFINE e == Rotated(d, w, r)
           n == Target(w)
           new == Len(d.content) + 1
<1>1. /\ d.content \in Seq(Seq(Nat)) /\ Len(d.content) \in Nat
      /\ d.named \in [FileName -> Nat] /\ d.backups \in [FileName -> Seq(Nat)]
      /\ d.writer \in [Writer -> [file : Nat, size : Nat, mill : BOOLEAN]]
  BY DEF DiskOK, Disks
<1>2. <<r>> \in Seq(Nat) /\ Len(<<r>>) = 1 /\ <<r>>[1] = r
  OBVIOUS
<1>3. e.content \in Seq(Seq(Nat)) /\ Len(e.content) = new /\ e.content[new] = <<r>>
      /\ \A g \in 1..Len(d.content) : e.content[g] = d.content[g]
  BY <1>1, <1>2, AppendProperties DEF Rotated
<1>4. e.named \in [FileName -> Nat]
      /\ \A x \in FileName : e.named[x] = IF x = n THEN new ELSE d.named[x]
  BY <1>1 DEF Rotated
<1>5. d.backups[n] \in Seq(Nat) /\ d.named[n] \in Nat
  BY <1>1
<1>6. Append(d.backups[n], d.named[n]) \in Seq(Nat)
  BY <1>5, AppendProperties
<1>7. e.backups \in [FileName -> Seq(Nat)]
      /\ \A x \in FileName :
            e.backups[x] = IF x = n /\ d.named[n] # 0 THEN Append(d.backups[n], d.named[n])
                           ELSE d.backups[x]
  BY <1>1, <1>5, <1>6 DEF Rotated
<1>8. /\ e.writer \in [Writer -> [file : Nat, size : Nat, mill : BOOLEAN]]
      /\ e.writer[w].file = new /\ \A v \in Writer : v # w => e.writer[v] = d.writer[v]
  <2>1. [file |-> new, size |-> 1, mill |-> TRUE] \in [file : Nat, size : Nat, mill : BOOLEAN]
    BY <1>1
  <2> QED BY <1>1, <2>1 DEF Rotated
<1>9. e = [content |-> e.content, named |-> e.named, backups |-> e.backups,
           writer |-> e.writer]
  BY DEF Rotated
<1> HIDE DEF e
<1>10. e \in Disks
  BY <1>3, <1>4, <1>7, <1>8, <1>9 DEF Disks
<1>11. ASSUME NEW g \in DOMAIN e.content, NEW j \in DOMAIN e.content[g]
       PROVE  e.content[g][j] \in 1..l
  <2>1. g \in 1..new
    BY <1>3
  <2>2. CASE g = new
    BY <1>2, <1>3, <2>2
  <2>3. CASE g # new
    <3>1. g \in 1..Len(d.content) /\ DOMAIN d.content = 1..Len(d.content)
      BY <1>1, <2>1, <2>3
    <3>2. e.content[g] = d.content[g]
      BY <1>3, <3>1
    <3> QED BY <3>1, <3>2 DEF DiskOK
  <2> QED BY <2>2, <2>3
<1>12. DOMAIN e.content = 1..new /\ DOMAIN d.content = 1..Len(d.content)
       /\ \A i \in 0..Len(d.content) : i \in 0..Len(e.content)
  BY <1>1, <1>3
<1>13. ASSUME NEW x \in FileName PROVE e.named[x] \in 0..Len(e.content)
  <2>1. CASE x = n
    BY <1>1, <1>3, <1>4, <2>1
  <2>2. CASE x # n
    BY <1>4, <1>12, <2>2 DEF DiskOK
  <2> QED BY <2>1, <2>2
<1>14. ASSUME NEW x \in FileName, NEW j \in DOMAIN e.backups[x]
       PROVE  e.backups[x][j] \in DOMAIN e.content
  <2>1. CASE x = n /\ d.named[n] # 0
    <3>1. e.backups[x] = Append(d.backups[n], d.named[n])
      BY <1>7, <2>1
    <3>2. j \in 1..(Len(d.backups[n]) + 1)
      BY <1>5, <3>1
    <3>3. CASE j = Len(d.backups[n]) + 1
      <4>1. e.backups[x][j] = d.named[n] /\ d.named[n] \in 0..Len(d.content)
        BY <1>5, <3>1, <3>3 DEF DiskOK
      <4> QED BY <1>1, <1>12, <2>1, <4>1
    <3>4. CASE j # Len(d.backups[n]) + 1
      <4>1. j \in DOMAIN d.backups[n] /\ e.backups[x][j] = d.backups[n][j]
        BY <1>5, <3>1, <3>2, <3>4
      <4>2. e.backups[x][j] \in DOMAIN d.content
        BY <4>1 DEF DiskOK
      <4> QED BY <1>1, <1>12, <4>2
    <3> QED BY <3>3, <3>4
  <2>2. CASE ~ (x = n /\ d.named[n] # 0)
    <3>1. e.backups[x] = d.backups[x]
      BY <1>7, <2>2
    <3>2. e.backups[x][j] \in DOMAIN d.content
      BY <3>1 DEF DiskOK
    <3> QED BY <1>1, <1>12, <3>2
  <2> QED BY <2>1, <2>2
<1>15. ASSUME NEW v \in Writer PROVE e.writer[v].file \in 0..Len(e.content)
  <2>1. CASE v = w
    BY <1>1, <1>3, <1>8, <2>1
  <2>2. CASE v # w
    BY <1>8, <1>12, <2>2 DEF DiskOK
  <2> QED BY <2>1, <2>2
<1>16. DiskOK(e, l)
  BY <1>10, <1>11, <1>13, <1>14, <1>15 DEF DiskOK
<1> QED BY <1>16 DEF e

-----------------------------------------------------------------------------
(* The log files: the records in a file and its backups *)

\* The files that have or had the name n, from the i-th backup on, and the records in them.
FilesFrom(d, n, i) ==
    ({d.named[n]} \ {0}) \cup {d.backups[n][j] : j \in i..Len(d.backups[n])}

RecordsFrom(d, n, i) == UNION {ToSet(d.content[f]) : f \in FilesFrom(d, n, i)}

LEMMA RecordIn ==
    ASSUME NEW d, NEW n, NEW i, NEW x
    PROVE  x \in RecordsFrom(d, n, i)
             <=> \E f \in FilesFrom(d, n, i) : x \in ToSet(d.content[f])
BY DEF RecordsFrom

LEMMA AppendedSet ==
    ASSUME NEW s \in Seq(Nat), NEW r \in Nat
    PROVE  ToSet(Append(s, r)) = ToSet(s) \cup {r}
<1>1. /\ Append(s, r) \in Seq(Nat) /\ Len(Append(s, r)) = Len(s) + 1 /\ Len(s) \in Nat
      /\ \A j \in 1..Len(s) : Append(s, r)[j] = s[j]
      /\ Append(s, r)[Len(s) + 1] = r
  BY AppendProperties
<1>2. DOMAIN Append(s, r) = 1..(Len(s) + 1) /\ DOMAIN s = 1..Len(s)
  BY <1>1
<1>3. 1..(Len(s) + 1) = 1..Len(s) \cup {Len(s) + 1}
  BY <1>1
<1> QED BY <1>1, <1>2, <1>3 DEF ToSet

LEMMA FilesAreThere ==
    ASSUME NEW d, NEW k \in Nat, DiskOK(d, k), NEW n \in FileName, NEW i \in Nat, i >= 1
    PROVE  /\ FilesFrom(d, n, i) \subseteq DOMAIN d.content
           /\ FilesFrom(d, n, i) \subseteq FilesFrom(d, n, 1)
           /\ DOMAIN d.content = 1..Len(d.content) /\ Len(d.content) \in Nat
           /\ d.backups[n] \in Seq(Nat) /\ Len(d.backups[n]) \in Nat /\ d.named[n] \in Nat
<1>1. /\ d.content \in Seq(Seq(Nat)) /\ d.backups[n] \in Seq(Nat) /\ d.named[n] \in Nat
  BY DEF DiskOK, Disks
<1>2. DOMAIN d.content = 1..Len(d.content) /\ Len(d.content) \in Nat
      /\ DOMAIN d.backups[n] = 1..Len(d.backups[n]) /\ Len(d.backups[n]) \in Nat
  BY <1>1
<1>3. \A j \in i..Len(d.backups[n]) : j \in DOMAIN d.backups[n] /\ j \in 1..Len(d.backups[n])
  BY <1>2
<1>4. \A j \in i..Len(d.backups[n]) : d.backups[n][j] \in DOMAIN d.content
  BY <1>3 DEF DiskOK
<1>5. d.named[n] # 0 => d.named[n] \in DOMAIN d.content
  BY <1>2 DEF DiskOK
<1> QED BY <1>1, <1>2, <1>3, <1>4, <1>5 DEF FilesFrom

LEMMA RecordsAreThere ==
    ASSUME NEW d, NEW k \in Nat, DiskOK(d, k), NEW n \in FileName, NEW i \in Nat, i >= 1
    PROVE  /\ RecordsFrom(d, n, i) \subseteq 1..k
           /\ IsFiniteSet(RecordsFrom(d, n, i)) /\ Cardinality(RecordsFrom(d, n, i)) \in Nat
<1>1. ASSUME NEW x \in RecordsFrom(d, n, i) PROVE x \in 1..k
  <2>1. PICK f \in FilesFrom(d, n, i) : x \in ToSet(d.content[f])
    BY RecordIn
  <2>2. f \in DOMAIN d.content
    BY FilesAreThere
  <2>3. PICK j \in DOMAIN d.content[f] : x = d.content[f][j]
    BY <2>1 DEF ToSet
  <2> QED BY <2>2, <2>3 DEF DiskOK
<1>2. IsFiniteSet(1..k)
  BY FS_Interval
<1>3. IsFiniteSet(RecordsFrom(d, n, i))
  BY <1>1, <1>2, FS_Subset
<1> QED BY <1>1, <1>3, FS_CardinalityType

LEMMA ExtendedRecords ==
    ASSUME NEW d, NEW k \in Nat, DiskOK(d, k), NEW w \in Writer, NEW r \in Nat,
           NEW f \in DOMAIN d.content, NEW s, NEW m,
           NEW n \in FileName, NEW i \in Nat, i >= 1
    PROVE  LET e == Extended(d, w, r, f, s, m)
           IN  /\ FilesFrom(e, n, i) = FilesFrom(d, n, i)
               /\ f \in FilesFrom(d, n, i) =>
                    RecordsFrom(e, n, i) = RecordsFrom(d, n, i) \cup {r}
               /\ f \notin FilesFrom(d, n, i) => RecordsFrom(e, n, i) = RecordsFrom(d, n, i)
<1> DEFINE e == Extended(d, w, r, f, s, m)
           F == FilesFrom(d, n, i)
<1>1. e.named = d.named /\ e.backups = d.backups
      /\ e.content = [d.content EXCEPT ![f] = Append(d.content[f], r)]
  BY DEF Extended
<1>2. d.content \in Seq(Seq(Nat)) /\ d.content[f] \in Seq(Nat)
  BY DEF DiskOK, Disks
<1> HIDE DEF e
<1>3. FilesFrom(e, n, i) = F
  BY <1>1 DEF FilesFrom
<1>4. F \subseteq DOMAIN d.content
  BY FilesAreThere
<1> HIDE DEF F
<1>5. \A g \in F : ToSet(e.content[g]) = IF g = f THEN ToSet(d.content[f]) \cup {r}
                                         ELSE ToSet(d.content[g])
  <2>1. ToSet(Append(d.content[f], r)) = ToSet(d.content[f]) \cup {r}
    BY <1>2, AppendedSet
  <2>2. \A g \in F : e.content[g] = IF g = f THEN Append(d.content[f], r) ELSE d.content[g]
    BY <1>1, <1>4
  <2> QED BY <2>1, <2>2
<1>6. \A x : x \in RecordsFrom(e, n, i) <=> \E g \in F : x \in ToSet(e.content[g])
  BY <1>3, RecordIn
<1>7. \A x : x \in RecordsFrom(d, n, i) <=> \E g \in F : x \in ToSet(d.content[g])
  BY RecordIn DEF F
<1>8. CASE f \in F
  <2>1. RecordsFrom(e, n, i) = RecordsFrom(d, n, i) \cup {r}
    BY <1>5, <1>6, <1>7, <1>8
  <2> QED BY <1>3, <1>8, <2>1 DEF e, F
<1>9. CASE f \notin F
  <2>1. RecordsFrom(e, n, i) = RecordsFrom(d, n, i)
    BY <1>5, <1>6, <1>7, <1>9
  <2> QED BY <1>3, <1>9, <2>1 DEF e, F
<1> QED BY <1>8, <1>9

\* What Rotated does to the files, field by field.
LEMMA RotatedFields ==
    ASSUME NEW d, NEW k \in Nat, DiskOK(d, k), NEW w \in Writer, Target(w) \in FileName,
           NEW r \in Nat
    PROVE  LET e == Rotated(d, w, r)
               n == Target(w)
               new == Len(d.content) + 1
           IN  /\ \A x \in FileName : x # n =>
                    e.named[x] = d.named[x] /\ e.backups[x] = d.backups[x]
               /\ e.named[n] = new
               /\ d.named[n] = 0 => e.backups[n] = d.backups[n]
               /\ d.named[n] # 0 => e.backups[n] = Append(d.backups[n], d.named[n])
               /\ \A f \in DOMAIN d.content : e.content[f] = d.content[f]
               /\ e.content[new] = <<r>> /\ new \notin DOMAIN d.content /\ new # 0
<1>1. /\ d.content \in Seq(Seq(Nat)) /\ Len(d.content) \in Nat
      /\ d.named \in [FileName -> Nat] /\ d.backups \in [FileName -> Seq(Nat)]
  BY DEF DiskOK, Disks
<1>2. <<r>> \in Seq(Nat)
  OBVIOUS
<1>3. /\ \A f \in 1..Len(d.content) : Append(d.content, <<r>>)[f] = d.content[f]
      /\ Append(d.content, <<r>>)[Len(d.content) + 1] = <<r>>
  BY <1>1, <1>2, AppendProperties
<1>4. DOMAIN d.content = 1..Len(d.content)
  BY <1>1
<1>5. Len(d.content) + 1 \notin DOMAIN d.content /\ Len(d.content) + 1 # 0
  BY <1>1, <1>4
<1>6. /\ Rotated(d, w, r).content = Append(d.content, <<r>>)
      /\ Rotated(d, w, r).named = [d.named EXCEPT ![Target(w)] = Len(d.content) + 1]
      /\ Rotated(d, w, r).backups
           = [d.backups EXCEPT ![Target(w)] = IF d.named[Target(w)] = 0 THEN d.backups[Target(w)]
                                              ELSE Append(d.backups[Target(w)],
                                                          d.named[Target(w)])]
  BY DEF Rotated
<1> QED BY <1>1, <1>3, <1>4, <1>5, <1>6

\* Under any other name nothing changes.
LEMMA RotatedOthers ==
    ASSUME NEW d, NEW k \in Nat, DiskOK(d, k), NEW w \in Writer, Target(w) \in FileName,
           NEW r \in Nat, NEW n \in FileName, n # Target(w), NEW i \in Nat, i >= 1
    PROVE  /\ FilesFrom(Rotated(d, w, r), n, i) = FilesFrom(d, n, i)
           /\ RecordsFrom(Rotated(d, w, r), n, i) = RecordsFrom(d, n, i)
<1> DEFINE e == Rotated(d, w, r)
<1>1. /\ e.named[n] = d.named[n] /\ e.backups[n] = d.backups[n]
      /\ \A f \in DOMAIN d.content : e.content[f] = d.content[f]
  BY RotatedFields
<1> HIDE DEF e
<1>2. FilesFrom(e, n, i) = FilesFrom(d, n, i)
  BY <1>1 DEF FilesFrom
<1>3. FilesFrom(d, n, i) \subseteq DOMAIN d.content
  BY FilesAreThere
<1>4. RecordsFrom(e, n, i) = RecordsFrom(d, n, i)
  <2>1. \A f \in FilesFrom(d, n, i) : ToSet(e.content[f]) = ToSet(d.content[f])
    BY <1>1, <1>3
  <2> QED BY <1>2, <2>1 DEF RecordsFrom
<1> QED BY <1>2, <1>4 DEF e

LEMMA RotatedRecords ==
    ASSUME NEW d, NEW k \in Nat, DiskOK(d, k), NEW w \in Writer, NEW n \in FileName,
           Target(w) = n, NEW r \in Nat
    PROVE  LET e == Rotated(d, w, r)
               l == Len(d.backups[n])
           IN  /\ d.named[n] # 0 =>
                    /\ Len(e.backups[n]) = l + 1
                    /\ \A i \in 1..(l + 1) :
                        /\ FilesFrom(e, n, i) = FilesFrom(d, n, i) \cup {Len(d.content) + 1}
                        /\ RecordsFrom(e, n, i) = RecordsFrom(d, n, i) \cup {r}
                    /\ \A i \in Nat : i > l + 1 => RecordsFrom(e, n, i) = {r}
               /\ d.named[n] = 0 /\ d.backups[n] = <<>> =>
                    /\ e.backups[n] = <<>>
                    /\ FilesFrom(e, n, 1) = {Len(d.content) + 1}
                    /\ RecordsFrom(e, n, 1) = {r} /\ RecordsFrom(d, n, 1) = {}
<1> DEFINE e == Rotated(d, w, r)
           l == Len(d.backups[n])
           new == Len(d.content) + 1
<1>1. /\ e.named[n] = new
      /\ d.named[n] = 0 => e.backups[n] = d.backups[n]
      /\ d.named[n] # 0 => e.backups[n] = Append(d.backups[n], d.named[n])
      /\ \A f \in DOMAIN d.content : e.content[f] = d.content[f]
      /\ e.content[new] = <<r>> /\ new \notin DOMAIN d.content /\ new # 0
  BY RotatedFields
<1>2. d.backups[n] \in Seq(Nat) /\ l \in Nat /\ d.named[n] \in Nat
  BY DEF DiskOK, Disks
<1>3. ToSet(<<r>>) = {r}
  BY DEF ToSet
<1> HIDE DEF e, new
<1>4. CASE d.named[n] # 0
  <2>1. /\ Len(e.backups[n]) = l + 1
        /\ \A j \in 1..l : e.backups[n][j] = d.backups[n][j]
        /\ e.backups[n][l + 1] = d.named[n]
    <3> DEFINE b == d.backups[n]
               old == d.named[n]
    <3>1. b \in Seq(Nat) /\ old \in Nat /\ e.backups[n] = Append(b, old)
      BY <1>1, <1>2, <1>4
    <3> HIDE DEF b, old
    <3>2. /\ Len(Append(b, old)) = Len(b) + 1 /\ Append(b, old)[Len(b) + 1] = old
          /\ \A j \in 1..Len(b) : Append(b, old)[j] = b[j]
      BY <3>1, AppendProperties
    <3> QED BY <3>1, <3>2 DEF b, old
  <2>2. ASSUME NEW i \in 1..(l + 1)
        PROVE  /\ FilesFrom(e, n, i) = FilesFrom(d, n, i) \cup {new}
               /\ RecordsFrom(e, n, i) = RecordsFrom(d, n, i) \cup {r}
    <3>1. i..(l + 1) = i..l \cup {l + 1} /\ \A j \in i..l : j \in 1..l
      BY <1>2
    <3>2. {e.backups[n][j] : j \in i..(l + 1)} = {d.backups[n][j] : j \in i..l} \cup {d.named[n]}
      <4>1. \A j \in i..(l + 1) :
              e.backups[n][j] = IF j = l + 1 THEN d.named[n] ELSE d.backups[n][j]
        BY <2>1, <3>1
      <4>2. \A j \in i..l : j \in i..(l + 1) /\ j # l + 1
        BY <1>2
      <4>3. l + 1 \in i..(l + 1)
        BY <1>2
      <4> HIDE DEF l
      <4> QED BY <3>1, <4>1, <4>2, <4>3
    <3> HIDE DEF l
    <3>3. FilesFrom(e, n, i) = FilesFrom(d, n, i) \cup {new}
      BY <1>1, <1>4, <2>1, <3>2 DEF FilesFrom, l
    <3>4. FilesFrom(d, n, i) \subseteq DOMAIN d.content
      BY <1>2, FilesAreThere
    <3>5. RecordsFrom(e, n, i) = RecordsFrom(d, n, i) \cup {r}
      BY <1>1, <1>3, <3>3, <3>4, RecordIn
    <3> QED BY <3>3, <3>5
  <2>3. ASSUME NEW i \in Nat, i > l + 1 PROVE RecordsFrom(e, n, i) = {r}
    <3>1. i..(l + 1) = {}
      BY <1>2, <2>3
    <3>2. FilesFrom(e, n, i) = {new}
      BY <1>1, <2>1, <3>1 DEF FilesFrom
    <3> QED BY <1>1, <1>3, <3>2 DEF RecordsFrom
  <2> QED BY <1>4, <2>1, <2>2, <2>3 DEF e, new
<1>5. CASE d.named[n] = 0 /\ d.backups[n] = <<>>
  <2>1. e.backups[n] = <<>> /\ 1..Len(d.backups[n]) = {}
    BY <1>1, <1>5
  <2>2. FilesFrom(e, n, 1) = {new}
    BY <1>1, <1>5, <2>1 DEF FilesFrom
  <2>3. FilesFrom(d, n, 1) = {}
    BY <1>5, <2>1 DEF FilesFrom
  <2>4. RecordsFrom(e, n, 1) = {r}
    BY <1>1, <1>3, <2>2 DEF RecordsFrom
  <2>5. RecordsFrom(d, n, 1) = {}
    BY <2>3 DEF RecordsFrom
  <2> QED BY <1>5, <2>1, <2>2, <2>4, <2>5 DEF e, new
<1>6. CASE d.named[n] = 0 /\ d.backups[n] # <<>>
  BY <1>6
<1> QED BY <1>4, <1>5, <1>6

-----------------------------------------------------------------------------
(* The log files: the invariant *)

\* Only writers of this configuration open files.
OnlyEnabledWrite(d) == \A w \in Writer : d.writer[w].file # 0 \/ d.writer[w].mill => Enabled(w)

\* A writer knows its file, as nobody else writes there.
WritersFollow(d) ==
    \A w \in Writer : d.writer[w].file # 0 =>
        /\ d.writer[w].file = d.named[Target(w)]
        /\ d.writer[w].size = Len(d.content[d.writer[w].file])

NothingShared(d) ==
    \A f \in FilesFrom(d, Config.name, 1) : f \notin FilesFrom(d, Config.errorName, 1)

\* Each backup holds what a file has to hold before it is rotated, counted from any of
\* them to the end.
BackupsAreFull(d) ==
    LET n == Config.errorName
        file == d.named[n]
    IN  /\ file = 0 => d.backups[n] = <<>>
        /\ file # 0 =>
            /\ Len(d.content[file]) >= 1
            /\ \A i \in 1..Len(d.backups[n]) + 1 :
                Cardinality(RecordsFrom(d, n, i))
                    >= (Len(d.backups[n]) + 1 - i) * BackupSize + Len(d.content[file])

\* The error file and its backups hold the latest errors, in their order, and all that
\* are young until a backup was removed because there were too many.
LatestRemain(d, errors) ==
    LET n == Config.errorName
        kept == RecordsFrom(d, n, 1)
    IN  /\ kept \subseteq errors
        /\ \A i \in 1..Len(d.backups[n]) + 1 :
            \A x \in errors \ RecordsFrom(d, n, i) : \A y \in RecordsFrom(d, n, i) : x < y
        /\ (\E x \in errors \ kept : x > aged) =>
                Cardinality(kept) >= Config.maxBackups * BackupSize + 1

ErrorFileSound(d, errors) ==
    /\ WritersFollow(d) /\ NothingShared(d) /\ BackupsAreFull(d) /\ LatestRemain(d, errors)


-----------------------------------------------------------------------------
(* The log files: writers whose files are apart *)

LEMMA WritersAre ==
    ASSUME section \in Section, NewLogger = "zap", Apart, NEW w \in Writer, NEW v \in Writer
    PROVE  /\ Target("log") = Config.name /\ Target("errors") = Config.errorName
           /\ Target(w) \in FileName
           /\ v # w => /\ Target(v) # Target(w)
                       /\ {Target(v), Target(w)} = {Config.name, Config.errorName}
<1>1. Target("log") = Config.name /\ Target("errors") = Config.errorName
  BY DEF Target
<1>2. v \in {"log", "errors"} /\ w \in {"log", "errors"}
  BY DEF Writer
<1> QED BY <1>1, <1>2, ConfigIs DEF Apart

\* Files of the two names are different files.
LEMMA FilesApart ==
    ASSUME section \in Section, NewLogger = "zap", Apart, NEW d, NothingShared(d),
           NEW v \in Writer, NEW w \in Writer, v # w,
           d.named[Target(v)] # 0, d.named[Target(w)] # 0
    PROVE  d.named[Target(v)] # d.named[Target(w)]
<1>1. d.named[Target(v)] \in FilesFrom(d, Target(v), 1)
      /\ d.named[Target(w)] \in FilesFrom(d, Target(w), 1)
  BY DEF FilesFrom
<1>2. \/ Target(v) = Config.name /\ Target(w) = Config.errorName
      \/ Target(w) = Config.name /\ Target(v) = Config.errorName
  BY WritersAre
<1> QED BY <1>1, <1>2 DEF NothingShared

LEMMA ContinuesThere ==
    ASSUME NEW d, WritersFollow(d), NEW w \in Writer, NEW f, NEW s, Continues(d, w, f, s)
    PROVE  f = d.named[Target(w)] /\ s = Len(d.content[f])
BY DEF WritersFollow, Continues

LEMMA ExtendedFollow ==
    ASSUME section \in Section, NewLogger = "zap", Apart, NEW d, NEW k \in Nat, DiskOK(d, k),
           WritersFollow(d), NothingShared(d), NEW w \in Writer, NEW r \in Nat,
           NEW f \in DOMAIN d.content, NEW s \in Nat, NEW m \in BOOLEAN, Continues(d, w, f, s)
    PROVE  LET e == Extended(d, w, r, f, s, m)
           IN  WritersFollow(e) /\ NothingShared(e)
<1> DEFINE e == Extended(d, w, r, f, s, m)
<1>1. f = d.named[Target(w)] /\ s = Len(d.content[f])
  BY ContinuesThere
<1>2. /\ d.content \in Seq(Seq(Nat)) /\ d.content[f] \in Seq(Nat) /\ f # 0
      /\ d.writer \in [Writer -> [file : Nat, size : Nat, mill : BOOLEAN]]
  BY DEF DiskOK, Disks
<1>3. /\ e.named = d.named /\ e.backups = d.backups
      /\ e.content = [d.content EXCEPT ![f] = Append(d.content[f], r)]
      /\ e.writer = [d.writer EXCEPT ![w] = [file |-> f, size |-> s + 1, mill |-> m]]
  BY DEF Extended
<1> HIDE DEF e
<1>4. e.content[f] = Append(d.content[f], r) /\ \A g \in DOMAIN d.content : g # f =>
        e.content[g] = d.content[g]
  BY <1>3
<1>5. Len(e.content[f]) = s + 1
  BY <1>1, <1>2, <1>4, AppendProperties
<1>6. /\ e.writer[w].file = f /\ e.writer[w].size = s + 1
      /\ \A v \in Writer : v # w => e.writer[v] = d.writer[v]
  BY <1>2, <1>3
<1>7. WritersFollow(e)
  <2> SUFFICES ASSUME NEW v \in Writer, e.writer[v].file # 0
               PROVE  /\ e.writer[v].file = e.named[Target(v)]
                      /\ e.writer[v].size = Len(e.content[e.writer[v].file])
    BY DEF WritersFollow
  <2>1. CASE v = w
    BY <1>1, <1>3, <1>5, <1>6, <2>1
  <2>2. CASE v # w
    <3>1. /\ d.writer[v].file = d.named[Target(v)] /\ d.writer[v].file # 0
          /\ d.writer[v].size = Len(d.content[d.writer[v].file])
          /\ e.writer[v] = d.writer[v]
      BY <1>6, <2>2 DEF WritersFollow
    <3>2. d.writer[v].file # f
      BY <1>1, <1>2, <2>2, <3>1, FilesApart
    <3>3. d.writer[v].file \in DOMAIN d.content
      BY <1>2, <3>1 DEF DiskOK
    <3> QED BY <1>3, <1>4, <3>1, <3>2, <3>3
  <2> QED BY <2>1, <2>2
<1>8. NothingShared(e)
  <2>1. \A x : FilesFrom(e, x, 1) = FilesFrom(d, x, 1)
    BY <1>3 DEF FilesFrom
  <2> QED BY <2>1 DEF NothingShared
<1> QED BY <1>7, <1>8 DEF e

LEMMA RotatedFollow ==
    ASSUME section \in Section, NewLogger = "zap", Apart, NEW d, NEW k \in Nat, DiskOK(d, k),
           WritersFollow(d), NothingShared(d), NEW w \in Writer, NEW r \in Nat
    PROVE  LET e == Rotated(d, w, r)
           IN  WritersFollow(e) /\ NothingShared(e)
<1> DEFINE e == Rotated(d, w, r)
           new == Len(d.content) + 1
<1>1. Target(w) \in FileName /\ \A v \in Writer : Target(v) \in FileName
  BY ConfigIs
<1>2. /\ \A x \in FileName : x # Target(w) =>
            e.named[x] = d.named[x] /\ e.backups[x] = d.backups[x]
      /\ e.named[Target(w)] = new
      /\ \A f \in DOMAIN d.content : e.content[f] = d.content[f]
      /\ e.content[new] = <<r>> /\ new \notin DOMAIN d.content /\ new # 0
  BY <1>1, RotatedFields
<1>3. /\ e.writer[w].file = new /\ e.writer[w].size = 1
      /\ \A v \in Writer : v # w => e.writer[v] = d.writer[v]
  <2>1. e.writer = [d.writer EXCEPT ![w] = [file |-> new, size |-> 1, mill |-> TRUE]]
    BY DEF Rotated
  <2>2. d.writer \in [Writer -> [file : Nat, size : Nat, mill : BOOLEAN]]
    BY DEF DiskOK, Disks
  <2> HIDE DEF e, new
  <2> QED BY <2>1, <2>2
<1>4. \A v \in Writer : d.writer[v].file # 0 => d.writer[v].file \in DOMAIN d.content
  <2>1. d.writer \in [Writer -> [file : Nat, size : Nat, mill : BOOLEAN]]
        /\ d.content \in Seq(Seq(Nat))
    BY DEF DiskOK, Disks
  <2> QED BY <2>1 DEF DiskOK
<1>5. FilesFrom(e, Target(w), 1) \subseteq FilesFrom(d, Target(w), 1) \cup {new}
  <2>1. CASE d.named[Target(w)] # 0
    <3>1. Len(d.backups[Target(w)]) \in Nat
      BY <1>1, FilesAreThere
    <3>2. 1 \in 1..(Len(d.backups[Target(w)]) + 1)
      BY <3>1
    <3> QED BY <1>1, <2>1, <3>2, RotatedRecords
  <2>2. CASE d.named[Target(w)] = 0
    <3>1. e.backups[Target(w)] = d.backups[Target(w)] /\ e.named[Target(w)] = new
      BY <1>1, <2>2, RotatedFields
    <3> HIDE DEF e, new
    <3> QED BY <3>1 DEF FilesFrom
  <2> QED BY <2>1, <2>2
<1>6. \A v \in Writer : v # w => FilesFrom(e, Target(v), 1) = FilesFrom(d, Target(v), 1)
  BY <1>1, WritersAre, RotatedOthers
<1>7. \A v \in Writer : new \notin FilesFrom(d, Target(v), 1)
  BY <1>1, <1>2, FilesAreThere
<1> HIDE DEF e, new
<1>8. WritersFollow(e)
  <2> SUFFICES ASSUME NEW v \in Writer, e.writer[v].file # 0
               PROVE  /\ e.writer[v].file = e.named[Target(v)]
                      /\ e.writer[v].size = Len(e.content[e.writer[v].file])
    BY DEF WritersFollow
  <2>1. CASE v = w
    <3>1. Len(<<r>>) = 1
      OBVIOUS
    <3> QED BY <1>2, <1>3, <2>1, <3>1
  <2>2. CASE v # w
    <3>1. Target(v) # Target(w)
      BY <2>2, WritersAre
    <3>2. e.named[Target(v)] = d.named[Target(v)]
      BY <1>1, <1>2, <3>1
    <3>3. e.writer[v] = d.writer[v] /\ d.writer[v].file # 0
      BY <1>3, <2>2
    <3>4. e.content[d.writer[v].file] = d.content[d.writer[v].file]
      BY <1>2, <1>4, <3>3
    <3> QED BY <3>2, <3>3, <3>4 DEF WritersFollow
  <2> QED BY <2>1, <2>2
<1>9. NothingShared(e)
  <2>1. Target("log") = Config.name /\ Target("errors") = Config.errorName
        /\ "log" \in Writer /\ "errors" \in Writer /\ "log" # "errors"
    BY DEF Target, Writer
  <2>2. \A g \in FilesFrom(d, Target("log"), 1) : g \notin FilesFrom(d, Target("errors"), 1)
    BY <2>1 DEF NothingShared
  <2>3. CASE w = "log"
    BY <1>5, <1>6, <1>7, <2>1, <2>2, <2>3 DEF NothingShared
  <2>4. CASE w = "errors"
    BY <1>5, <1>6, <1>7, <2>1, <2>2, <2>4 DEF NothingShared
  <2> QED BY <2>3, <2>4 DEF Writer
<1> QED BY <1>8, <1>9 DEF e

\* The error file and its backups may be looked at alone.
LEMMA SameErrorFile ==
    ASSUME NEW d, NEW k \in Nat, DiskOK(d, k), Config.errorName \in FileName, NEW e, NEW errors,
           e.named[Config.errorName] = d.named[Config.errorName],
           e.backups[Config.errorName] = d.backups[Config.errorName],
           \A i \in Nat : i >= 1 =>
             RecordsFrom(e, Config.errorName, i) = RecordsFrom(d, Config.errorName, i),
           d.named[Config.errorName] # 0 =>
             e.content[d.named[Config.errorName]] = d.content[d.named[Config.errorName]],
           BackupsAreFull(d), LatestRemain(d, errors)
    PROVE  BackupsAreFull(e) /\ LatestRemain(e, errors)
<1>1. Len(d.backups[Config.errorName]) \in Nat
  BY FilesAreThere
<1>2. \A i \in 1..Len(d.backups[Config.errorName]) + 1 :
        RecordsFrom(e, Config.errorName, i) = RecordsFrom(d, Config.errorName, i)
  BY <1>1
<1>3. BackupsAreFull(e)
  BY <1>2 DEF BackupsAreFull
<1>4. LatestRemain(e, errors)
  BY <1>2 DEF LatestRemain
<1> QED BY <1>3, <1>4

LEMMA LogWrites ==
    ASSUME section \in Section, NewLogger = "zap", Apart, NEW d, NEW k \in Nat, DiskOK(d, k),
           NEW errors, ErrorFileSound(d, errors), NEW r \in Nat
    PROVE  ErrorFileSound(Written(d, "log", r), errors)
<1> DEFINE n == Config.errorName
<1>1. "log" \in Writer /\ Target("log") = Config.name /\ Target("log") \in FileName
      /\ n \in FileName /\ n # Target("log") /\ Config.maxSize \in Nat
  BY ConfigIs DEF Writer, Target, Apart
<1>2. WritersFollow(d) /\ NothingShared(d) /\ BackupsAreFull(d) /\ LatestRemain(d, errors)
  BY DEF ErrorFileSound
<1>3. d.named[n] # 0 => d.named[n] \in FilesFrom(d, n, 1)
  BY DEF FilesFrom
<1>4. FilesFrom(d, n, 1) \subseteq DOMAIN d.content /\
        \A i \in Nat : i >= 1 => FilesFrom(d, n, i) \subseteq FilesFrom(d, n, 1)
  BY <1>1, FilesAreThere
<1>5. ASSUME NEW f \in DOMAIN d.content, NEW s \in Nat, NEW m \in BOOLEAN,
             Continues(d, "log", f, s)
      PROVE  ErrorFileSound(Extended(d, "log", r, f, s, m), errors)
  <2> DEFINE e == Extended(d, "log", r, f, s, m)
  <2>1. WritersFollow(e) /\ NothingShared(e)
    BY <1>1, <1>2, <1>5, ExtendedFollow
  <2>2. f = d.named[Config.name]
    BY <1>1, <1>2, <1>5, ContinuesThere
  <2>3. f # 0
    <3>1. d.content \in Seq(Seq(Nat))
      BY DEF DiskOK, Disks
    <3> QED BY <3>1
  <2>4. f \in FilesFrom(d, Config.name, 1)
    BY <2>2, <2>3 DEF FilesFrom
  <2>5. f \notin FilesFrom(d, n, 1)
    BY <1>2, <2>4 DEF NothingShared
  <2>6. \A i \in Nat : i >= 1 => RecordsFrom(e, n, i) = RecordsFrom(d, n, i)
    BY <1>1, <1>4, <2>5, ExtendedRecords
  <2>7. e.named = d.named /\ e.backups = d.backups
        /\ e.content = [d.content EXCEPT ![f] = Append(d.content[f], r)]
    BY DEF Extended
  <2> HIDE DEF e
  <2>8. d.named[n] # 0 => e.content[d.named[n]] = d.content[d.named[n]]
    BY <1>3, <1>4, <2>5, <2>7
  <2>9. BackupsAreFull(e) /\ LatestRemain(e, errors)
    BY <1>1, <1>2, <2>6, <2>7, <2>8, SameErrorFile
  <2>10. ErrorFileSound(e, errors)
    BY <2>1, <2>9 DEF ErrorFileSound
  <2> QED BY <2>10 DEF e
<1>6. ErrorFileSound(Rotated(d, "log", r), errors)
  <2> DEFINE e == Rotated(d, "log", r)
  <2>1. WritersFollow(e) /\ NothingShared(e)
    BY <1>1, <1>2, RotatedFollow
  <2>2. \A i \in Nat : i >= 1 => RecordsFrom(e, n, i) = RecordsFrom(d, n, i)
    BY <1>1, RotatedOthers
  <2>3. e.named[n] = d.named[n] /\ e.backups[n] = d.backups[n]
        /\ \A f \in DOMAIN d.content : e.content[f] = d.content[f]
    BY <1>1, RotatedFields
  <2> HIDE DEF e
  <2>4. d.named[n] # 0 => e.content[d.named[n]] = d.content[d.named[n]]
    BY <1>3, <1>4, <2>3
  <2>5. BackupsAreFull(e) /\ LatestRemain(e, errors)
    BY <1>1, <1>2, <2>2, <2>3, <2>4, SameErrorFile
  <2>6. ErrorFileSound(e, errors)
    BY <2>1, <2>5 DEF ErrorFileSound
  <2> QED BY <2>6 DEF e
<1>7. \/ \E f \in DOMAIN d.content, s \in Nat, m \in BOOLEAN :
            /\ Continues(d, "log", f, s)
            /\ Written(d, "log", r) = Extended(d, "log", r, f, s, m)
      \/ Written(d, "log", r) = Rotated(d, "log", r)
  BY <1>1, WrittenIs
<1> QED BY <1>5, <1>6, <1>7

\* One record more that is later than all of them.
LEMMA OneMoreRecord ==
    ASSUME NEW R, IsFiniteSet(R), NEW r, r \notin R
    PROVE  /\ IsFiniteSet(R \cup {r}) /\ Cardinality(R) \in Nat
           /\ Cardinality(R \cup {r}) = Cardinality(R) + 1
BY FS_AddElement, FS_CardinalityType

LEMMA LatestGrow ==
    ASSUME NEW d, NEW k \in Nat, DiskOK(d, k), NEW e, NEW errors \in SUBSET Nat, NEW r \in Nat,
           \A x \in errors : x < r, LatestRemain(d, errors),
           section \in Section, NewLogger = "zap",
           RecordsFrom(e, Config.errorName, 1) = RecordsFrom(d, Config.errorName, 1) \cup {r},
           \A i \in 1..(Len(e.backups[Config.errorName]) + 1) :
             \/ RecordsFrom(e, Config.errorName, i) = {r}
             \/ /\ i \in 1..(Len(d.backups[Config.errorName]) + 1)
                /\ RecordsFrom(e, Config.errorName, i)
                     = RecordsFrom(d, Config.errorName, i) \cup {r}
    PROVE  LatestRemain(e, errors \cup {r})
<1> DEFINE kept == RecordsFrom(d, Config.errorName, 1)
           now == RecordsFrom(e, Config.errorName, 1)
<1>1. /\ kept \subseteq errors
      /\ (\E x \in errors \ kept : x > aged) =>
            Cardinality(kept) >= Config.maxBackups * BackupSize + 1
  BY DEF LatestRemain
<1>2. Config.errorName \in FileName /\ Config.maxBackups \in Nat /\ BackupSize \in Nat
  BY ConfigIs
<1>3. IsFiniteSet(kept)
  BY <1>2, RecordsAreThere
<1>4. r \notin kept
  BY <1>1
<1> HIDE DEF kept, now
<1>5. now = kept \cup {r}
  BY DEF kept, now
<1>6. Cardinality(now) = Cardinality(kept) + 1 /\ Cardinality(kept) \in Nat
  BY <1>3, <1>4, <1>5, OneMoreRecord
<1>7. now \subseteq errors \cup {r}
  BY <1>1, <1>5
<1>8. ASSUME NEW i \in 1..(Len(e.backups[Config.errorName]) + 1),
             NEW x \in (errors \cup {r}) \ RecordsFrom(e, Config.errorName, i),
             NEW y \in RecordsFrom(e, Config.errorName, i)
      PROVE  x < y
  <2>1. CASE RecordsFrom(e, Config.errorName, i) = {r}
    BY <2>1
  <2>2. CASE /\ i \in 1..(Len(d.backups[Config.errorName]) + 1)
             /\ RecordsFrom(e, Config.errorName, i)
                  = RecordsFrom(d, Config.errorName, i) \cup {r}
    <3>1. x \in errors \ RecordsFrom(d, Config.errorName, i)
      BY <2>2
    <3>2. CASE y = r
      BY <3>1, <3>2
    <3>3. CASE y # r
      BY <2>2, <3>1, <3>3 DEF LatestRemain
    <3> QED BY <3>2, <3>3
  <2> QED BY <2>1, <2>2
<1>9. ASSUME NEW x \in (errors \cup {r}) \ now, x > aged
      PROVE  Cardinality(now) >= Config.maxBackups * BackupSize + 1
  <2>1. \E y \in errors \ kept : y > aged
    BY <1>5, <1>9
  <2>2. Cardinality(kept) >= Config.maxBackups * BackupSize + 1
    BY <1>1, <2>1
  <2> DEFINE full == Config.maxBackups * BackupSize
  <2>3. full \in Nat
    BY <1>2
  <2> HIDE DEF full
  <2>4. Cardinality(now) >= full + 1
    BY <1>6, <2>2, <2>3 DEF full
  <2> QED BY <2>4 DEF full
<1> QED BY <1>7, <1>8, <1>9 DEF LatestRemain, now

LEMMA RecordsShrink ==
    ASSUME NEW d, NEW k \in Nat, DiskOK(d, k), NEW n \in FileName, NEW i \in Nat, i >= 1
    PROVE  RecordsFrom(d, n, i) \subseteq RecordsFrom(d, n, 1)
BY FilesAreThere, RecordIn

LEMMA OneTimes == \A a \in Nat, b \in Nat : (a + 1) * b = a * b + b /\ a * b \in Nat /\ 0 * b = 0
OBVIOUS

LEMMA OneRecord == \A r : Cardinality({r}) = 1
BY FS_Singleton

\* An error goes to the end of the file that is open.
LEMMA FullExtended ==
    ASSUME section \in Section, NewLogger = "zap", NEW d, NEW k \in Nat, DiskOK(d, k),
           NEW r \in Nat, r \notin RecordsFrom(d, Config.errorName, 1), BackupsAreFull(d),
           d.named[Config.errorName] \in DOMAIN d.content, NEW s \in Nat, NEW m \in BOOLEAN
    PROVE  BackupsAreFull(Extended(d, "errors", r, d.named[Config.errorName], s, m))
<1> DEFINE n == Config.errorName
           f == d.named[n]
           e == Extended(d, "errors", r, f, s, m)
           l == Len(d.backups[n])
<1>1. n \in FileName /\ BackupSize \in Nat /\ "errors" \in Writer
  BY ConfigIs DEF Writer
<1>2. l \in Nat
  BY <1>1, FilesAreThere
<1>3. d.content \in Seq(Seq(Nat)) /\ d.content[f] \in Seq(Nat) /\ f # 0
  BY DEF DiskOK, Disks
<1>4. \A i \in Nat : i >= 1 => f \in FilesFrom(d, n, i)
  BY <1>3 DEF FilesFrom
<1>5. ASSUME NEW i \in Nat, i >= 1
      PROVE  /\ Cardinality(RecordsFrom(e, n, i)) = Cardinality(RecordsFrom(d, n, i)) + 1
             /\ Cardinality(RecordsFrom(d, n, i)) \in Nat
  <2>1. RecordsFrom(e, n, i) = RecordsFrom(d, n, i) \cup {r}
    BY <1>1, <1>4, <1>5, ExtendedRecords
  <2>2. IsFiniteSet(RecordsFrom(d, n, i))
    BY <1>1, <1>5, RecordsAreThere
  <2>3. r \notin RecordsFrom(d, n, i)
    BY <1>1, <1>5, RecordsShrink
  <2> HIDE DEF e, n
  <2> QED BY <2>1, <2>2, <2>3, OneMoreRecord
<1>6. e.named[n] = f /\ e.backups[n] = d.backups[n]
      /\ e.content = [d.content EXCEPT ![f] = Append(d.content[f], r)]
  BY DEF Extended
<1> HIDE DEF e
<1>7. Len(e.content[f]) = Len(d.content[f]) + 1 /\ Len(d.content[f]) \in Nat
  <2>1. e.content[f] = Append(d.content[f], r)
    BY <1>6
  <2> QED BY <1>3, <2>1, AppendProperties
<1>8. ASSUME NEW i \in 1..(l + 1)
      PROVE  Cardinality(RecordsFrom(e, n, i))
               >= (l + 1 - i) * BackupSize + Len(e.content[f])
  <2>1. Cardinality(RecordsFrom(d, n, i)) >= (l + 1 - i) * BackupSize + Len(d.content[f])
    BY <1>3 DEF BackupsAreFull
  <2>2. i \in Nat /\ i >= 1 /\ l + 1 - i \in Nat
    BY <1>2
  <2>3. (l + 1 - i) * BackupSize \in Nat
    BY <1>1, <2>2, OneTimes
  <2>4. Cardinality(RecordsFrom(e, n, i)) = Cardinality(RecordsFrom(d, n, i)) + 1
        /\ Cardinality(RecordsFrom(d, n, i)) \in Nat
    BY <1>5, <2>2
  <2> HIDE DEF n, f, l
  <2> QED BY <1>7, <2>1, <2>3, <2>4
<1>9. Len(e.content[f]) >= 1
  BY <1>7
<1>10. BackupsAreFull(e)
  BY <1>3, <1>6, <1>8, <1>9 DEF BackupsAreFull
<1> QED BY <1>10 DEF e

\* An error goes to a new file: the one before holds what a backup holds.
LEMMA FullRotated ==
    ASSUME section \in Section, NewLogger = "zap", NEW d, NEW k \in Nat, DiskOK(d, k),
           NEW r \in Nat, r \notin RecordsFrom(d, Config.errorName, 1), BackupsAreFull(d),
           WritersFollow(d), IsFull(d, "errors")
    PROVE  BackupsAreFull(Rotated(d, "errors", r))
<1> DEFINE n == Config.errorName
           f == d.named[n]
           e == Rotated(d, "errors", r)
           l == Len(d.backups[n])
           new == Len(d.content) + 1
<1>1. n \in FileName /\ BackupSize \in Nat /\ "errors" \in Writer /\ Target("errors") = n
  BY ConfigIs DEF Writer, Target
<1>2. l \in Nat
  BY <1>1, FilesAreThere
<1>3. e.named[n] = new /\ e.content[new] = <<r>> /\ new # 0
  BY <1>1, RotatedFields
<1>4. Len(<<r>>) = 1
  OBVIOUS
<1>5. CASE f # 0
  <2>1. /\ Len(e.backups[n]) = l + 1
        /\ \A i \in Nat : i > l + 1 => RecordsFrom(e, n, i) = {r}
        /\ \A i \in 1..(l + 1) : RecordsFrom(e, n, i) = RecordsFrom(d, n, i) \cup {r}
    BY <1>1, <1>5, RotatedRecords
  <2>2. Len(d.content[f]) \in Nat /\ Len(d.content[f]) >= 1
    <3>1. d.content \in Seq(Seq(Nat)) /\ f \in DOMAIN d.content
      BY <1>1, <1>5, FilesAreThere DEF DiskOK, Disks
    <3> QED BY <1>5, <3>1 DEF BackupsAreFull
  <2>3. Len(d.content[f]) >= BackupSize
    <3>1. Config.maxSize \in Nat /\ Config.maxSize >= 1
      BY ConfigIs
    <3>2. Len(d.content[f]) + 1 >= Config.maxSize
      <4>1. CASE d.writer["errors"].file # 0
        <5>1. /\ d.writer["errors"].size = Len(d.content[f])
              /\ d.writer["errors"].size + 1 > Config.maxSize
          BY <1>1, <4>1 DEF WritersFollow, IsFull
        <5> QED BY <2>2, <3>1, <5>1
      <4>2. CASE d.writer["errors"].file = 0
        BY <1>1, <1>5, <4>2 DEF IsFull
      <4> QED BY <4>1, <4>2
    <3>3. BackupSize = IF Config.maxSize = 1 THEN 1 ELSE Config.maxSize - 1
      BY DEF BackupSize
    <3> HIDE DEF f
    <3> QED BY <2>2, <3>1, <3>2, <3>3
  <2>4. ASSUME NEW i \in 1..(l + 2)
        PROVE  Cardinality(RecordsFrom(e, n, i)) >= (l + 2 - i) * BackupSize + 1
    <3>1. CASE i = l + 2
      <4>1. (l + 2 - i) * BackupSize = 0
        <5>1. l + 2 - i = 0
          BY <1>2, <3>1
        <5> QED BY <1>1, <5>1, OneTimes
      <4>2. Cardinality(RecordsFrom(e, n, i)) = 1
        <5>1. i \in Nat /\ i > l + 1
          BY <1>2, <3>1
        <5> QED BY <2>1, <5>1, OneRecord
      <4> QED BY <4>1, <4>2
    <3>2. CASE i # l + 2
      <4>1. i \in 1..(l + 1) /\ i \in Nat /\ i >= 1 /\ l + 1 - i \in Nat
            /\ l + 2 - i = (l + 1 - i) + 1
        BY <1>2, <3>2
      <4>2. Cardinality(RecordsFrom(d, n, i)) >= (l + 1 - i) * BackupSize + Len(d.content[f])
        BY <1>5, <4>1 DEF BackupsAreFull
      <4>3. IsFiniteSet(RecordsFrom(d, n, i)) /\ r \notin RecordsFrom(d, n, i)
        BY <1>1, <4>1, RecordsAreThere, RecordsShrink
      <4>4. RecordsFrom(e, n, i) = RecordsFrom(d, n, i) \cup {r}
        BY <2>1, <4>1
      <4> DEFINE a == l + 1 - i
      <4>5. (a + 1) * BackupSize = a * BackupSize + BackupSize /\ a * BackupSize \in Nat
        BY <1>1, <4>1, OneTimes
      <4>6. l + 2 - i = a + 1
        BY <4>1
      <4> HIDE DEF e, n, f, a
      <4>7. Cardinality(RecordsFrom(e, n, i)) = Cardinality(RecordsFrom(d, n, i)) + 1
            /\ Cardinality(RecordsFrom(d, n, i)) \in Nat
        BY <4>3, <4>4, OneMoreRecord
      <4>8. Cardinality(RecordsFrom(d, n, i)) >= a * BackupSize + Len(d.content[f])
        BY <4>2 DEF a
      <4>9. (l + 2 - i) * BackupSize = a * BackupSize + BackupSize
        BY <4>5, <4>6
      <4> DEFINE p == a * BackupSize
                 q == (l + 2 - i) * BackupSize
      <4>10. p \in Nat /\ q = p + BackupSize
             /\ Cardinality(RecordsFrom(d, n, i)) >= p + Len(d.content[f])
        BY <4>5, <4>8, <4>9
      <4> HIDE DEF p, q
      <4>11. Cardinality(RecordsFrom(e, n, i)) >= q + 1
        BY <1>1, <2>2, <2>3, <4>7, <4>10
      <4> QED BY <4>11 DEF q
    <3> QED BY <3>1, <3>2
  <2> HIDE DEF e, new, l
  <2>5. \A i \in 1..(Len(e.backups[n]) + 1) :
            Cardinality(RecordsFrom(e, n, i))
                >= (Len(e.backups[n]) + 1 - i) * BackupSize + Len(e.content[new])
    <3> SUFFICES ASSUME NEW i \in 1..(Len(e.backups[n]) + 1)
                 PROVE  Cardinality(RecordsFrom(e, n, i))
                          >= (Len(e.backups[n]) + 1 - i) * BackupSize + Len(e.content[new])
      OBVIOUS
    <3>1. Len(e.content[new]) = 1
      BY <1>3, <1>4
    <3>2. Len(e.backups[n]) + 1 - i = l + 2 - i /\ i \in 1..(l + 2)
      BY <1>2, <2>1
    <3>3. Cardinality(RecordsFrom(e, n, i)) >= (l + 2 - i) * BackupSize + 1
      BY <2>4, <3>2
    <3> QED BY <3>1, <3>2, <3>3
  <2>6. Len(e.content[new]) >= 1
    BY <1>3, <1>4
  <2>7. BackupsAreFull(e)
    BY <1>3, <2>5, <2>6 DEF BackupsAreFull
  <2> QED BY <2>7 DEF e
<1>6. CASE f = 0
  <2>1. d.backups[n] = <<>>
    BY <1>6 DEF BackupsAreFull
  <2>2. e.backups[n] = <<>> /\ RecordsFrom(e, n, 1) = {r}
    BY <1>1, <1>6, <2>1, RotatedRecords
  <2>3. Len(e.backups[n]) = 0 /\ Cardinality(RecordsFrom(e, n, 1)) = 1
    BY <2>2, OneRecord
  <2> HIDE DEF e, new
  <2>4. \A i \in 1..(Len(e.backups[n]) + 1) :
            Cardinality(RecordsFrom(e, n, i))
                >= (Len(e.backups[n]) + 1 - i) * BackupSize + Len(e.content[new])
    <3> SUFFICES ASSUME NEW i \in 1..(Len(e.backups[n]) + 1)
                 PROVE  Cardinality(RecordsFrom(e, n, i))
                          >= (Len(e.backups[n]) + 1 - i) * BackupSize + Len(e.content[new])
      OBVIOUS
    <3>1. i = 1 /\ Len(e.backups[n]) + 1 - i = 0
      BY <2>3
    <3>2. (Len(e.backups[n]) + 1 - i) * BackupSize = 0
      BY <1>1, <3>1, OneTimes
    <3>3. Len(e.content[new]) = 1
      BY <1>3, <1>4
    <3> QED BY <2>3, <3>1, <3>2, <3>3
  <2>5. Len(e.content[new]) >= 1
    BY <1>3, <1>4
  <2>6. BackupsAreFull(e)
    BY <1>3, <2>4, <2>5 DEF BackupsAreFull
  <2> QED BY <2>6 DEF e
<1> QED BY <1>5, <1>6

LEMMA ErrorWrites ==
    ASSUME section \in Section, NewLogger = "zap", Apart, NEW d, NEW k \in Nat, DiskOK(d, k),
           NEW errors \in SUBSET Nat, ErrorFileSound(d, errors), NEW r \in Nat,
           \A x \in errors : x < r
    PROVE  ErrorFileSound(Written(d, "errors", r), errors \cup {r})
<1> DEFINE n == Config.errorName
<1>1. "errors" \in Writer /\ Target("errors") = n /\ n \in FileName /\ Config.maxSize \in Nat
  BY ConfigIs DEF Writer, Target
<1>2. WritersFollow(d) /\ NothingShared(d) /\ BackupsAreFull(d) /\ LatestRemain(d, errors)
  BY DEF ErrorFileSound
<1>3. r \notin RecordsFrom(d, n, 1)
  <2>1. RecordsFrom(d, n, 1) \subseteq errors
    BY <1>2 DEF LatestRemain
  <2> QED BY <2>1
<1>4. ASSUME NEW f \in DOMAIN d.content, NEW s \in Nat, NEW m \in BOOLEAN,
             Continues(d, "errors", f, s)
      PROVE  ErrorFileSound(Extended(d, "errors", r, f, s, m), errors \cup {r})
  <2> DEFINE e == Extended(d, "errors", r, f, s, m)
  <2>1. WritersFollow(e) /\ NothingShared(e)
    BY <1>1, <1>2, <1>4, ExtendedFollow
  <2>2. f = d.named[n]
    BY <1>1, <1>2, <1>4, ContinuesThere
  <2>3. BackupsAreFull(e)
    BY <1>2, <1>3, <2>2, FullExtended
  <2>4. f \in FilesFrom(d, n, 1)
    <3>1. d.content \in Seq(Seq(Nat))
      BY DEF DiskOK, Disks
    <3>2. f # 0
      BY <3>1
    <3> QED BY <2>2, <3>2 DEF FilesFrom
  <2>5. \A i \in Nat : i >= 1 => f \in FilesFrom(d, n, i)
    BY <2>2, <2>4 DEF FilesFrom, DiskOK, Disks
  <2>6. \A i \in Nat : i >= 1 => RecordsFrom(e, n, i) = RecordsFrom(d, n, i) \cup {r}
    BY <1>1, <2>5, ExtendedRecords
  <2>7. e.backups[n] = d.backups[n] /\ Len(d.backups[n]) \in Nat
    BY <1>1, FilesAreThere DEF Extended
  <2> HIDE DEF e
  <2>8. LatestRemain(e, errors \cup {r})
    <3>1. \A i \in 1..(Len(e.backups[n]) + 1) :
            i \in 1..(Len(d.backups[n]) + 1) /\ i \in Nat /\ i >= 1
      BY <2>7
    <3> QED BY <1>2, <2>6, <3>1, LatestGrow
  <2>9. ErrorFileSound(e, errors \cup {r})
    BY <2>1, <2>3, <2>8 DEF ErrorFileSound
  <2> QED BY <2>9 DEF e
<1>5. ASSUME IsFull(d, "errors")
      PROVE  ErrorFileSound(Rotated(d, "errors", r), errors \cup {r})
  <2> DEFINE e == Rotated(d, "errors", r)
  <2>1. WritersFollow(e) /\ NothingShared(e)
    BY <1>1, <1>2, RotatedFollow
  <2>2. BackupsAreFull(e)
    BY <1>2, <1>3, <1>5, FullRotated
  <2>3. /\ RecordsFrom(e, n, 1) = RecordsFrom(d, n, 1) \cup {r}
        /\ \A i \in 1..(Len(e.backups[n]) + 1) :
            \/ RecordsFrom(e, n, i) = {r}
            \/ /\ i \in 1..(Len(d.backups[n]) + 1)
               /\ RecordsFrom(e, n, i) = RecordsFrom(d, n, i) \cup {r}
    <3>1. CASE d.named[n] # 0
      <4>1. Len(d.backups[n]) \in Nat
        BY <1>1, FilesAreThere
      <4>2. Len(e.backups[n]) = Len(d.backups[n]) + 1
        BY <1>1, <3>1, RotatedRecords
      <4>3. \A i \in Nat : i > Len(d.backups[n]) + 1 => RecordsFrom(e, n, i) = {r}
        BY <1>1, <3>1, RotatedRecords
      <4>4. \A i \in 1..(Len(d.backups[n]) + 1) :
              RecordsFrom(e, n, i) = RecordsFrom(d, n, i) \cup {r}
        BY <1>1, <3>1, RotatedRecords
      <4> HIDE DEF e, n
      <4>5. 1 \in 1..(Len(d.backups[n]) + 1)
        BY <4>1
      <4>6. \A i \in 1..(Len(e.backups[n]) + 1) :
              \/ i \in Nat /\ i > Len(d.backups[n]) + 1
              \/ i \in 1..(Len(d.backups[n]) + 1)
        BY <4>1, <4>2
      <4> QED BY <4>2, <4>4, <4>5, <4>6, <4>3
    <3>2. CASE d.named[n] = 0
      <4>1. d.backups[n] = <<>>
        BY <1>2, <3>2 DEF BackupsAreFull
      <4>2. /\ e.backups[n] = <<>>
            /\ RecordsFrom(e, n, 1) = {r} /\ RecordsFrom(d, n, 1) = {}
        BY <1>1, <3>2, <4>1, RotatedRecords
      <4> HIDE DEF e, n
      <4>3. \A i \in 1..(Len(e.backups[n]) + 1) : i = 1
        BY <4>2
      <4> QED BY <4>2, <4>3
    <3> QED BY <3>1, <3>2
  <2> HIDE DEF e
  <2>4. LatestRemain(e, errors \cup {r})
    BY <1>2, <2>3, LatestGrow
  <2>5. ErrorFileSound(e, errors \cup {r})
    BY <2>1, <2>2, <2>4 DEF ErrorFileSound
  <2> QED BY <2>5 DEF e
<1>6. \/ \E f \in DOMAIN d.content, s \in Nat, m \in BOOLEAN :
            /\ Continues(d, "errors", f, s)
            /\ Written(d, "errors", r) = Extended(d, "errors", r, f, s, m)
      \/ IsFull(d, "errors") /\ Written(d, "errors", r) = Rotated(d, "errors", r)
  BY <1>1, WrittenIs
<1> QED BY <1>4, <1>5, <1>6

-----------------------------------------------------------------------------
(* The log files: the end of a process, and old backups *)

LEMMA StopFields ==
    ASSUME NEW d \in Disks
    PROVE  /\ Stop(d).content = d.content /\ Stop(d).named = d.named
           /\ Stop(d).backups = d.backups /\ Stop(d).writer = [w \in Writer |-> Closed]
           /\ Stop(d) \in Disks
<1>1. /\ Stop(d).content = d.content /\ Stop(d).named = d.named
      /\ Stop(d).backups = d.backups
  BY DEF Disks, Stop
<1>2. Stop(d).writer = [w \in Writer |-> Closed]
  BY DEF Disks, Stop
<1>3. Closed \in [file : Nat, size : Nat, mill : BOOLEAN]
  BY DEF Closed
<1>4. DOMAIN Stop(d) = {"content", "named", "backups", "writer"}
      /\ Stop(d) = [i \in DOMAIN Stop(d) |-> Stop(d)[i]]
  BY DEF Disks, Stop
<1>5. Stop(d) = [content |-> Stop(d).content, named |-> Stop(d).named,
                 backups |-> Stop(d).backups, writer |-> Stop(d).writer]
  BY <1>4, DiskFields
<1>6. Stop(d) \in Disks
  BY <1>1, <1>2, <1>3, <1>5 DEF Disks
<1> QED BY <1>1, <1>2, <1>6

LEMMA StopOK ==
    ASSUME NEW d, NEW k \in Nat, DiskOK(d, k)
    PROVE  DiskOK(Stop(d), k) /\ OnlyEnabledWrite(Stop(d))
<1> DEFINE e == Stop(d)
<1>1. d \in Disks /\ Len(d.content) \in Nat
  BY DEF DiskOK, Disks
<1>2. e.content = d.content /\ e.named = d.named /\ e.backups = d.backups
      /\ e.writer = [w \in Writer |-> Closed] /\ e \in Disks
  BY <1>1, StopFields
<1> HIDE DEF e
<1>3. \A w \in Writer : e.writer[w].file = 0
  BY <1>2 DEF Closed
<1>4. \A w \in Writer : e.writer[w].mill = FALSE
  BY <1>2 DEF Closed
<1>5. DiskOK(e, k)
  BY <1>1, <1>2, <1>3 DEF DiskOK
<1>6. OnlyEnabledWrite(e)
  BY <1>3, <1>4 DEF OnlyEnabledWrite
<1> QED BY <1>5, <1>6 DEF e

LEMMA StopSound ==
    ASSUME section \in Section, NewLogger = "zap", NEW d, NEW k \in Nat, DiskOK(d, k),
           NEW errors, ErrorFileSound(d, errors)
    PROVE  ErrorFileSound(Stop(d), errors)
<1> DEFINE e == Stop(d)
<1>1. e.content = d.content /\ e.named = d.named /\ e.backups = d.backups
      /\ e.writer = [w \in Writer |-> Closed]
  BY StopFields DEF DiskOK
<1> HIDE DEF e
<1>2. WritersFollow(e)
  BY <1>1 DEF WritersFollow, Closed
<1>3. \A n, i : FilesFrom(e, n, i) = FilesFrom(d, n, i)
  BY <1>1 DEF FilesFrom
<1>4. \A n, i : RecordsFrom(e, n, i) = RecordsFrom(d, n, i)
  BY <1>1, <1>3 DEF RecordsFrom
<1>5. NothingShared(e)
  BY <1>3 DEF ErrorFileSound, NothingShared
<1>6. BackupsAreFull(e) /\ LatestRemain(e, errors)
  BY <1>1, <1>4, ConfigIs, SameErrorFile DEF ErrorFileSound
<1> QED BY <1>2, <1>5, <1>6 DEF ErrorFileSound, e

\* The first c backups of n are those that have to go.
Removes(d, n, c) ==
    LET remove == {SurplusOf(d.backups[n])} \cup Outdated(d, n)
    IN  c \in remove /\ \A i \in remove : i <= c

Removed(d, w, c) ==
    LET n == Target(w)
        b == d.backups[n]
    IN  [content |-> d.content, named |-> d.named,
         backups |-> [d.backups EXCEPT ![n] = SubSeq(b, c + 1, Len(b))],
         writer |-> [d.writer EXCEPT ![w] = [d.writer[w] EXCEPT !.mill = FALSE]]]

LEMMA RemovedIs ==
    ASSUME disk \in Disks, NEW w \in Writer, Target(w) \in FileName, RemoveOld(w)
    PROVE  \E c : Removes(disk, Target(w), c) /\ disk' = Removed(disk, w, c)
<1> DEFINE n == Target(w)
           b == disk.backups[n]
<1>1. PICK c : /\ Removes(disk, n, c)
               /\ disk' = [disk EXCEPT !.writer[w].mill = FALSE,
                                      !.backups[n] = SubSeq(@, c + 1, Len(@))]
  BY DEF RemoveOld, Removes
<1>2. disk' = [disk EXCEPT !.writer[w].mill = FALSE,
                         !.backups[n] = SubSeq(@, c + 1, Len(@))]
  BY <1>1
<1>3. disk'.content = disk.content /\ disk'.named = disk.named
  BY <1>2 DEF Disks
<1>4. disk'.backups = [disk.backups EXCEPT ![n] = SubSeq(b, c + 1, Len(b))]
  BY <1>2 DEF Disks
<1>5. disk'.writer = [disk.writer EXCEPT ![w] = [disk.writer[w] EXCEPT !.mill = FALSE]]
  BY <1>2 DEF Disks
<1>6. DOMAIN disk' = {"content", "named", "backups", "writer"}
      /\ disk' = [i \in DOMAIN disk' |-> disk'[i]]
  BY <1>2 DEF Disks
<1>7. disk' = [content |-> disk'.content, named |-> disk'.named, backups |-> disk'.backups,
               writer |-> disk'.writer]
  BY <1>6, DiskFields
<1> QED BY <1>3, <1>4, <1>5, <1>7, <1>1 DEF Removed

\* Fewer backups, from the same on: too many there are none left.
LEMMA RemovedFields ==
    ASSUME section \in Section, NewLogger = "zap", NEW d, NEW k \in Nat, DiskOK(d, k),
           NEW w \in Writer, NEW n \in FileName, Target(w) = n, NEW c, Removes(d, n, c)
    PROVE  LET e == Removed(d, w, c)
               b == d.backups[n]
           IN  /\ e.content = d.content /\ e.named = d.named
               /\ \A x \in FileName : x # n => e.backups[x] = d.backups[x]
               /\ e.backups[n] \in Seq(Nat) /\ e.backups \in [FileName -> Seq(Nat)]
               /\ c \in 0..Len(b)
               /\ Len(e.backups[n]) = Len(b) - c
               /\ \A i \in 1..Len(e.backups[n]) : e.backups[n][i] = b[i + c]
               /\ c = 0 \/ Len(b) - c = Config.maxBackups \/ c \in Outdated(d, n)
               /\ SurplusOf(e.backups[n]) = 0
<1> DEFINE e == Removed(d, w, c)
           b == d.backups[n]
           s == c
<1>1. d.backups \in [FileName -> Seq(Nat)] /\ b \in Seq(Nat) /\ Len(b) \in Nat
  BY DEF DiskOK, Disks
<1>2. Config.maxBackups \in Nat
  BY ConfigIs
<1>3. /\ s \in 0..Len(b) /\ SurplusOf(b) <= s /\ SurplusOf(b) \in Nat
      /\ s = 0 \/ Len(b) - s = Config.maxBackups \/ s \in Outdated(d, n)
  <2> DEFINE l == Len(b)
             u == SurplusOf(b)
  <2>1. u = IF Config.maxBackups = 0 \/ l < Config.maxBackups THEN 0 ELSE l - Config.maxBackups
    BY DEF SurplusOf
  <2>2. (c = u \/ c \in Outdated(d, n)) /\ u <= c
    BY DEF Removes
  <2>3. DOMAIN b = 1..l /\ l \in Nat
    BY <1>1
  <2>4. Outdated(d, n) \subseteq 1..l
    BY <2>3 DEF Outdated
  <2> HIDE DEF l, u
  <2>5. c \in 0..l /\ u \in Nat
    BY <1>2, <2>1, <2>2, <2>3, <2>4
  <2>6. c = 0 \/ l - c = Config.maxBackups \/ c \in Outdated(d, n)
    BY <1>2, <2>1, <2>2, <2>3
  <2> QED BY <2>2, <2>5, <2>6 DEF l, u
<1> HIDE DEF s
<1>4. \A i \in (s + 1)..Len(b) : b[i] \in Nat
  <2>1. \A i \in (s + 1)..Len(b) : i \in 1..Len(b)
    BY <1>1, <1>3
  <2> QED BY <1>1, <2>1
<1> DEFINE t == SubSeq(b, s + 1, Len(b))
<1>5. /\ t \in Seq(Nat) /\ Len(t) = IF s + 1 <= Len(b) THEN Len(b) - (s + 1) + 1 ELSE 0
      /\ \A i \in 1..(Len(b) - (s + 1) + 1) : t[i] = b[(s + 1) + i - 1]
  <2>1. s + 1 \in Int /\ Len(b) \in Int
    BY <1>1, <1>3
  <2> QED BY <1>4, <2>1, SubSeqProperties
<1> HIDE DEF t
<1>6. Len(t) = Len(b) - s
  BY <1>1, <1>3, <1>5
<1>7. \A i \in 1..Len(t) : t[i] = b[i + s]
  <2> SUFFICES ASSUME NEW i \in 1..Len(t) PROVE t[i] = b[i + s]
    OBVIOUS
  <2>1. i \in 1..(Len(b) - (s + 1) + 1) /\ (s + 1) + i - 1 = i + s
    BY <1>1, <1>3, <1>6
  <2> QED BY <1>5, <2>1
<1>8. e.content = d.content /\ e.named = d.named /\ e.backups = [d.backups EXCEPT ![n] = t]
  BY DEF Removed, t, s
<1> HIDE DEF e
<1>9. e.backups[n] = t /\ \A x \in FileName : x # n => e.backups[x] = d.backups[x]
  BY <1>1, <1>8
<1>10. e.backups \in [FileName -> Seq(Nat)]
  BY <1>1, <1>5, <1>8
<1>11. SurplusOf(t) = 0
  <2> DEFINE l == Len(b)
             m == Len(t)
             u == SurplusOf(b)
  <2>1. u = IF Config.maxBackups = 0 \/ l < Config.maxBackups THEN 0 ELSE l - Config.maxBackups
    BY DEF SurplusOf
  <2>2. SurplusOf(t) = IF Config.maxBackups = 0 \/ m < Config.maxBackups THEN 0
                       ELSE m - Config.maxBackups
    BY DEF SurplusOf
  <2>3. u <= s /\ m = l - s /\ l \in Nat /\ s \in 0..l
    BY <1>1, <1>3, <1>6
  <2> HIDE DEF l, m, u
  <2> QED BY <1>2, <2>1, <2>2, <2>3
<1> HIDE DEF b
<1> QED BY <1>3, <1>5, <1>6, <1>7, <1>8, <1>9, <1>10, <1>11 DEF e, s, b

LEMMA RemovedOK ==
    ASSUME section \in Section, NewLogger = "zap", NEW d, NEW k \in Nat, DiskOK(d, k),
           NEW w \in Writer, OnlyEnabledWrite(d), NEW c, Removes(d, Target(w), c)
    PROVE  DiskOK(Removed(d, w, c), k) /\ OnlyEnabledWrite(Removed(d, w, c))
<1> DEFINE e == Removed(d, w, c)
           n == Target(w)
<1>1. n \in FileName
  BY ConfigIs
<1>2. /\ e.content = d.content /\ e.named = d.named
      /\ \A x \in FileName : x # n => e.backups[x] = d.backups[x]
      /\ e.backups[n] \in Seq(Nat) /\ e.backups \in [FileName -> Seq(Nat)]
      /\ c \in 0..Len(d.backups[n])
      /\ Len(e.backups[n]) = Len(d.backups[n]) - c
      /\ \A i \in 1..Len(e.backups[n]) : e.backups[n][i] = d.backups[n][i + c]
  BY <1>1, RemovedFields
<1>3. d.writer \in [Writer -> [file : Nat, size : Nat, mill : BOOLEAN]]
      /\ d.content \in Seq(Seq(Nat)) /\ d.named \in [FileName -> Nat]
      /\ d.backups[n] \in Seq(Nat) /\ Len(d.backups[n]) \in Nat
  BY <1>1 DEF DiskOK, Disks
<1>4. e.writer = [d.writer EXCEPT ![w] = [d.writer[w] EXCEPT !.mill = FALSE]]
  BY DEF Removed
<1>5. e = [content |-> e.content, named |-> e.named, backups |-> e.backups,
           writer |-> e.writer]
  BY DEF Removed
<1> HIDE DEF e
<1>6. [d.writer[w] EXCEPT !.mill = FALSE] \in [file : Nat, size : Nat, mill : BOOLEAN]
  BY <1>3
<1>7. e.writer \in [Writer -> [file : Nat, size : Nat, mill : BOOLEAN]]
  BY <1>3, <1>4, <1>6
<1>8. e \in Disks
  BY <1>2, <1>3, <1>5, <1>7 DEF Disks
<1>9. \A v \in Writer : e.writer[v].file = d.writer[v].file
  BY <1>3, <1>4
<1>10. \A v \in Writer : e.writer[v].mill => d.writer[v].mill
  <2>1. e.writer[w].mill = FALSE
    BY <1>3, <1>4
  <2>2. \A v \in Writer : v # w => e.writer[v] = d.writer[v]
    BY <1>3, <1>4
  <2> QED BY <2>1, <2>2
<1>11. ASSUME NEW x \in FileName, NEW j \in DOMAIN e.backups[x]
       PROVE  e.backups[x][j] \in DOMAIN e.content
  <2>1. CASE x = n
    <3> DEFINE s == c
    <3>1. j \in 1..Len(e.backups[n])
      BY <1>2, <2>1
    <3>2. e.backups[x][j] = d.backups[n][j + s]
      BY <1>2, <2>1, <3>1
    <3>3. s \in 0..Len(d.backups[n]) /\ Len(e.backups[n]) = Len(d.backups[n]) - s
      BY <1>2
    <3> HIDE DEF s
    <3>4. j + s \in 1..Len(d.backups[n])
      BY <1>3, <3>1, <3>3
    <3>5. j + s \in DOMAIN d.backups[n]
      BY <1>3, <3>4
    <3> QED BY <1>1, <1>2, <3>2, <3>5 DEF DiskOK
  <2>2. CASE x # n
    BY <1>2, <2>2 DEF DiskOK
  <2> QED BY <2>1, <2>2
<1>12. DiskOK(e, k)
  BY <1>2, <1>8, <1>9, <1>11 DEF DiskOK
<1>13. OnlyEnabledWrite(e)
  BY <1>9, <1>10 DEF OnlyEnabledWrite
<1> QED BY <1>12, <1>13 DEF e

\* What is left are the files from that backup on.
LEMMA RemovedRecords ==
    ASSUME section \in Section, NewLogger = "zap", NEW d, NEW k \in Nat, DiskOK(d, k),
           NEW w \in Writer, NEW n \in FileName, Target(w) = n, NEW i \in Nat, i >= 1,
           NEW c, Removes(d, n, c)
    PROVE  LET e == Removed(d, w, c)
           IN  /\ FilesFrom(e, n, i) = FilesFrom(d, n, i + c)
               /\ RecordsFrom(e, n, i) = RecordsFrom(d, n, i + c)
<1> DEFINE e == Removed(d, w, c)
           b == d.backups[n]
           s == c
           l == Len(b)
<1> HIDE DEF b, s, l
<1>1. /\ e.content = d.content /\ e.named = d.named /\ s \in 0..l
      /\ Len(e.backups[n]) = l - s
      /\ \A j \in 1..Len(e.backups[n]) : e.backups[n][j] = b[j + s]
  <2>1. e.content = d.content /\ e.named = d.named /\ c \in 0..Len(d.backups[n])
    BY RemovedFields
  <2>2. Len(e.backups[n]) = Len(d.backups[n]) - c
    BY RemovedFields
  <2>3. \A j \in 1..Len(e.backups[n]) : e.backups[n][j] = d.backups[n][j + c]
    BY RemovedFields, SMTT(30)
  <2> QED BY <2>1, <2>2, <2>3 DEF b, s, l
<1>2. l \in Nat
  BY FilesAreThere DEF l, b
<1> HIDE DEF e
<1>3. {e.backups[n][j] : j \in i..(l - s)} = {b[j] : j \in (i + s)..l}
  <2>1. \A j \in i..(l - s) : j + s \in (i + s)..l /\ e.backups[n][j] = b[j + s]
    BY <1>1, <1>2
  <2>2. \A j \in (i + s)..l : j - s \in i..(l - s) /\ (j - s) + s = j
    BY <1>1, <1>2
  <2>3. \A j \in (i + s)..l : j - s \in i..(l - s) /\ e.backups[n][j - s] = b[j]
    BY <2>1, <2>2
  <2> QED BY <2>1, <2>3
<1>4. FilesFrom(e, n, i) = FilesFrom(d, n, i + s)
  BY <1>1, <1>3 DEF FilesFrom, b, l
<1>5. RecordsFrom(e, n, i) = RecordsFrom(d, n, i + s)
  BY <1>1, <1>4 DEF RecordsFrom
<1> QED BY <1>4, <1>5 DEF e, s, b

LEMMA RemovedFollow ==
    ASSUME section \in Section, NewLogger = "zap", Apart, NEW d, NEW k \in Nat, DiskOK(d, k),
           WritersFollow(d), NothingShared(d), NEW w \in Writer,
           NEW c, Removes(d, Target(w), c)
    PROVE  WritersFollow(Removed(d, w, c)) /\ NothingShared(Removed(d, w, c))
<1> DEFINE e == Removed(d, w, c)
<1>1. Target(w) \in FileName /\ Config.name \in FileName /\ Config.errorName \in FileName
  BY ConfigIs
<1>2. e.content = d.content /\ e.named = d.named
      /\ \A x \in FileName : x # Target(w) => e.backups[x] = d.backups[x]
  BY <1>1, RemovedFields
<1>3. \A v \in Writer : e.writer[v].file = d.writer[v].file /\ e.writer[v].size = d.writer[v].size
  <2>1. d.writer \in [Writer -> [file : Nat, size : Nat, mill : BOOLEAN]]
    BY DEF DiskOK, Disks
  <2>2. e.writer = [d.writer EXCEPT ![w] = [d.writer[w] EXCEPT !.mill = FALSE]]
    BY DEF Removed
  <2> HIDE DEF e
  <2> QED BY <2>1, <2>2
<1>4. WritersFollow(e)
  <2> HIDE DEF e
  <2> QED BY <1>2, <1>3 DEF WritersFollow
<1>5. \A x \in FileName : FilesFrom(e, x, 1) \subseteq FilesFrom(d, x, 1)
  <2> SUFFICES ASSUME NEW x \in FileName
               PROVE  FilesFrom(e, x, 1) \subseteq FilesFrom(d, x, 1)
    OBVIOUS
  <2>1. CASE x = Target(w)
    <3> DEFINE s == c
    <3>1. s \in 0..Len(d.backups[x]) /\ Len(d.backups[x]) \in Nat
      BY <2>1, RemovedFields, FilesAreThere
    <3>2. FilesFrom(e, x, 1) = FilesFrom(d, x, 1 + s)
      BY <2>1, RemovedRecords
    <3> HIDE DEF s
    <3>3. 1 + s \in Nat /\ 1 + s >= 1
      BY <3>1
    <3>4. FilesFrom(d, x, 1 + s) \subseteq FilesFrom(d, x, 1)
      BY <3>3, FilesAreThere
    <3> QED BY <3>2, <3>4
  <2>2. CASE x # Target(w)
    <3>1. e.backups[x] = d.backups[x] /\ e.named = d.named
      BY <1>2, <2>2
    <3> HIDE DEF e
    <3> QED BY <3>1 DEF FilesFrom
  <2> QED BY <2>1, <2>2
<1>6. NothingShared(e)
  BY <1>1, <1>5 DEF NothingShared
<1> QED BY <1>4, <1>6

\* The file whose backups are removed is the error file: what is left are the latest
\* records, and as many as the backups hold that are left, or all that are not too old.
LEMMA RemovedErrors ==
    ASSUME section \in Section, NewLogger = "zap", Apart, NEW d, NEW k \in Nat, DiskOK(d, k),
           NEW errors \in SUBSET Nat, ErrorFileSound(d, errors), aged \in Nat,
           NEW c, Removes(d, Config.errorName, c)
    PROVE  LET e == Removed(d, "errors", c)
           IN  BackupsAreFull(e) /\ LatestRemain(e, errors)
<1> DEFINE e == Removed(d, "errors", c)
           n == Config.errorName
           f == d.named[n]
           s == c
           l == Len(d.backups[n])
           left == Len(e.backups[n])
<1>1. n \in FileName /\ "errors" \in Writer /\ Target("errors") = n
      /\ BackupSize \in Nat /\ Config.maxBackups \in Nat /\ BackupSize >= 1
  BY ConfigIs DEF Writer, Target
<1>2. /\ e.content = d.content /\ e.named = d.named /\ e.backups[n] \in Seq(Nat)
      /\ s \in 0..l /\ left = l - s
      /\ s = 0 \/ l - s = Config.maxBackups \/ s \in Outdated(d, n)
  BY <1>1, RemovedFields
<1>3. l \in Nat
  BY <1>1, FilesAreThere
<1>4. \A i \in Nat : i >= 1 => RecordsFrom(e, n, i) = RecordsFrom(d, n, i + s)
  BY <1>1, RemovedRecords
<1>5. BackupsAreFull(d) /\ LatestRemain(d, errors)
  BY DEF ErrorFileSound
<1> HIDE DEF e, s, l, left
<1>6. ASSUME NEW i \in 1..(left + 1)
      PROVE  /\ i + s \in 1..(l + 1) /\ i \in Nat /\ i >= 1
             /\ RecordsFrom(e, n, i) = RecordsFrom(d, n, i + s)
             /\ left + 1 - i = l + 1 - (i + s)
  BY <1>2, <1>3, <1>4
<1>7. BackupsAreFull(e)
  <2>1. CASE f = 0
    <3>1. d.backups[n] = <<>>
      BY <1>5, <2>1 DEF BackupsAreFull
    <3>2. left = 0
      BY <1>2, <3>1 DEF l
    <3>3. e.backups[n] = <<>>
      BY <1>2, <3>2 DEF left
    <3> QED BY <1>2, <2>1, <3>3 DEF BackupsAreFull
  <2>2. CASE f # 0
    <3>1. ASSUME NEW i \in 1..(left + 1)
          PROVE  Cardinality(RecordsFrom(e, n, i))
                   >= (left + 1 - i) * BackupSize + Len(d.content[f])
      <4>1. i + s \in 1..(l + 1) /\ RecordsFrom(e, n, i) = RecordsFrom(d, n, i + s)
            /\ left + 1 - i = l + 1 - (i + s)
        BY <1>6
      <4>2. Cardinality(RecordsFrom(d, n, i + s))
              >= (l + 1 - (i + s)) * BackupSize + Len(d.content[f])
        BY <1>5, <2>2, <4>1 DEF BackupsAreFull, l
      <4> QED BY <4>1, <4>2
    <3>2. Len(d.content[f]) >= 1
      BY <1>5, <2>2 DEF BackupsAreFull
    <3> QED BY <1>2, <2>2, <3>1, <3>2 DEF BackupsAreFull, left
  <2> QED BY <2>1, <2>2
<1>8. LatestRemain(e, errors)
  <2> DEFINE kept == RecordsFrom(e, n, 1)
  <2>1. kept = RecordsFrom(d, n, 1 + s) /\ 1 + s \in Nat /\ 1 + s >= 1
    BY <1>2, <1>3, <1>4
  <2>2. kept \subseteq errors
    <3>1. RecordsFrom(d, n, 1 + s) \subseteq RecordsFrom(d, n, 1)
      BY <1>1, <2>1, RecordsShrink
    <3> QED BY <1>5, <2>1, <3>1 DEF LatestRemain
  <2>3. ASSUME NEW i \in 1..(left + 1), NEW x \in errors \ RecordsFrom(e, n, i),
               NEW y \in RecordsFrom(e, n, i)
        PROVE  x < y
    BY <1>5, <1>6 DEF LatestRemain, l
  <2>4. ASSUME NEW x \in errors \ kept, x > aged
        PROVE  Cardinality(kept) >= Config.maxBackups * BackupSize + 1
    <3>1. CASE s = 0
      <4>1. 1 + s = 1
        BY <3>1
      <4> QED BY <1>5, <2>1, <2>4, <4>1 DEF LatestRemain
    <3>2. ASSUME s # 0 PROVE f # 0
      <4>1. l # 0
        BY <1>2, <1>3, <3>2
      <4>2. d.backups[n] # <<>>
        BY <4>1 DEF l
      <4> QED BY <1>5, <4>2 DEF BackupsAreFull
    <3>3. CASE s # 0 /\ s \in Outdated(d, n)
      <4>1. PICK y \in ToSet(d.content[NextFile(d, n, s)]) : y <= aged
        BY <3>3 DEF Outdated
      <4>2. NextFile(d, n, s) \in FilesFrom(d, n, 1 + s)
        <5>1. CASE s = l
          BY <3>2, <3>3, <5>1 DEF NextFile, FilesFrom, l
        <5>2. CASE s # l
          <6>1. s + 1 \in (1 + s)..l /\ NextFile(d, n, s) = d.backups[n][s + 1]
            BY <1>2, <1>3, <5>2 DEF NextFile, l
          <6> QED BY <6>1 DEF FilesFrom, l
        <5> QED BY <5>1, <5>2
      <4>3. y \in RecordsFrom(d, n, 1 + s)
        BY <4>1, <4>2, RecordIn
      <4>4. y \in Nat
        BY <1>1, <2>1, <4>3, RecordsAreThere
      <4>5. 1 + s \in 1..(l + 1)
        BY <1>2, <1>3
      <4>6. x < y
        BY <1>5, <2>1, <2>4, <4>3, <4>5 DEF LatestRemain, l
      <4> QED BY <2>4, <4>1, <4>4, <4>6
    <3>4. CASE s # 0 /\ l - s = Config.maxBackups
      <4>1. f # 0
        BY <3>4, <3>2
      <4>2. 1 + s \in 1..(l + 1) /\ l + 1 - (1 + s) = Config.maxBackups
        BY <1>2, <1>3, <3>4
      <4>3. Cardinality(RecordsFrom(d, n, 1 + s))
              >= (l + 1 - (1 + s)) * BackupSize + Len(d.content[f])
        BY <1>5, <4>1, <4>2 DEF BackupsAreFull, l
      <4>4. Cardinality(RecordsFrom(d, n, 1 + s)) \in Nat
        BY <1>1, <2>1, RecordsAreThere
      <4>5. Len(d.content[f]) \in Nat /\ Len(d.content[f]) >= 1
        <5>1. d.content \in Seq(Seq(Nat)) /\ f \in DOMAIN d.content
          BY <1>1, <4>1, FilesAreThere DEF DiskOK, Disks
        <5> QED BY <1>5, <4>1, <5>1 DEF BackupsAreFull
      <4> DEFINE p == Config.maxBackups * BackupSize
      <4>6. p \in Nat
        BY <1>1, OneTimes
      <4>7. Cardinality(kept) >= p + Len(d.content[f])
        BY <2>1, <4>2, <4>3
      <4> HIDE DEF p, kept
      <4>8. Cardinality(kept) >= p + 1
        BY <2>1, <4>4, <4>5, <4>6, <4>7
      <4> QED BY <4>8 DEF p
    <3> QED BY <1>2, <3>1, <3>4, <3>3
  <2> QED BY <2>2, <2>3, <2>4 DEF LatestRemain, left
<1> QED BY <1>7, <1>8 DEF e

LEMMA RemovedSound ==
    ASSUME section \in Section, NewLogger = "zap", Apart, NEW d, NEW k \in Nat, DiskOK(d, k),
           NEW errors \in SUBSET Nat, ErrorFileSound(d, errors), aged \in Nat,
           NEW w \in Writer, NEW c, Removes(d, Target(w), c)
    PROVE  ErrorFileSound(Removed(d, w, c), errors)
<1>1. WritersFollow(Removed(d, w, c)) /\ NothingShared(Removed(d, w, c))
  BY RemovedFollow DEF ErrorFileSound
<1>2. CASE w = "errors"
  <2>1. /\ BackupsAreFull(Removed(d, "errors", c))
        /\ LatestRemain(Removed(d, "errors", c), errors)
    BY <1>2, RemovedErrors DEF Target
  <2> QED BY <1>1, <1>2, <2>1 DEF ErrorFileSound
<1>3. CASE w # "errors"
  <2> DEFINE e == Removed(d, w, c)
             n == Config.errorName
  <2>1. Target(w) = Config.name /\ Target(w) \in FileName /\ n \in FileName /\ n # Target(w)
    BY <1>3, ConfigIs DEF Writer, Target, Apart
  <2>2. e.content = d.content /\ e.named = d.named /\ e.backups[n] = d.backups[n]
    BY <2>1, RemovedFields
  <2> HIDE DEF e
  <2>3. \A i \in Nat : i >= 1 => RecordsFrom(e, n, i) = RecordsFrom(d, n, i)
    BY <2>2 DEF RecordsFrom, FilesFrom
  <2>4. BackupsAreFull(e) /\ LatestRemain(e, errors)
    BY <2>1, <2>2, <2>3, SameErrorFile DEF ErrorFileSound
  <2> QED BY <1>1, <2>4 DEF ErrorFileSound, e
<1> QED BY <1>2, <1>3

-----------------------------------------------------------------------------
(* The log files: a record in both files *)

LEMMA WiderOK ==
    ASSUME NEW d, NEW k \in Nat, DiskOK(d, k), NEW l \in Nat, k <= l
    PROVE  DiskOK(d, l)
<1>1. \A x \in 1..k : x \in 1..l
  OBVIOUS
<1> QED BY <1>1 DEF DiskOK

LEMMA WrittenOK ==
    ASSUME section \in Section, NewLogger = "zap", NEW d, NEW k \in Nat, DiskOK(d, k),
           NEW w \in Writer, Enabled(w), OnlyEnabledWrite(d),
           NEW r \in Nat, r >= 1, NEW l \in Nat, k <= l, r <= l
    PROVE  DiskOK(Written(d, w, r), l) /\ OnlyEnabledWrite(Written(d, w, r))
<1>1. Target(w) \in FileName /\ Config.maxSize \in Nat
  BY ConfigIs
<1>2. \/ \E f \in DOMAIN d.content, s \in Nat, m \in BOOLEAN :
            Written(d, w, r) = Extended(d, w, r, f, s, m)
      \/ Written(d, w, r) = Rotated(d, w, r)
  BY <1>1, WrittenIs
<1>3. DiskOK(Written(d, w, r), l)
  BY <1>1, <1>2, ExtendedOK, RotatedOK
<1>4. d.writer \in [Writer -> [file : Nat, size : Nat, mill : BOOLEAN]]
  BY DEF DiskOK, Disks
<1>5. \A v \in Writer : v # w => Written(d, w, r).writer[v] = d.writer[v]
  <2>1. CASE \E f \in DOMAIN d.content, s \in Nat, m \in BOOLEAN :
                Written(d, w, r) = Extended(d, w, r, f, s, m)
    <3>1. PICK f, s, m : Written(d, w, r) = Extended(d, w, r, f, s, m)
      BY <2>1
    <3>2. Written(d, w, r).writer
            = [d.writer EXCEPT ![w] = [file |-> f, size |-> s + 1, mill |-> m]]
      BY <3>1 DEF Extended
    <3> QED BY <1>4, <3>2
  <2>2. CASE Written(d, w, r) = Rotated(d, w, r)
    <3>1. Written(d, w, r).writer
            = [d.writer EXCEPT ![w] = [file |-> Len(d.content) + 1, size |-> 1, mill |-> TRUE]]
      BY <2>2 DEF Rotated
    <3> QED BY <1>4, <3>1
  <2> QED BY <1>2, <2>1, <2>2
<1>6. OnlyEnabledWrite(Written(d, w, r))
  BY <1>5 DEF OnlyEnabledWrite
<1> QED BY <1>3, <1>6

LEMMA TeeOK ==
    ASSUME section \in Section, NewLogger = "zap", NEW d, NEW k \in Nat, DiskOK(d, k),
           OnlyEnabledWrite(d), NEW logged
    PROVE  DiskOK(Tee(d, logged, k + 1), k + 1) /\ OnlyEnabledWrite(Tee(d, logged, k + 1))
<1> DEFINE r == k + 1
           wanted == Enabled("log") /\ Rank(logged) >= Rank(Config.level)
           log == IF wanted THEN Written(d, "log", r) ELSE d
<1>1. "log" \in Writer /\ "errors" \in Writer
  BY DEF Writer
<1>2. r \in Nat /\ r >= 1 /\ k <= r /\ r <= r
  OBVIOUS
<1>3. DiskOK(log, r) /\ OnlyEnabledWrite(log)
  <2>1. CASE wanted
    BY <1>1, <1>2, <2>1, WrittenOK
  <2>2. CASE ~ wanted
    BY <1>2, <2>2, WiderOK
  <2> QED BY <2>1, <2>2
<1>4. \/ Enabled("errors") /\ Tee(d, logged, r) = Written(log, "errors", r)
      \/ Tee(d, logged, r) = log
  BY DEF Tee
<1> HIDE DEF log, r
<1>5. CASE Enabled("errors") /\ Tee(d, logged, r) = Written(log, "errors", r)
  <2>1. DiskOK(Written(log, "errors", r), r) /\ OnlyEnabledWrite(Written(log, "errors", r))
    BY <1>1, <1>2, <1>3, <1>5, WrittenOK
  <2> QED BY <1>5, <2>1 DEF r
<1>6. CASE Tee(d, logged, r) = log
  BY <1>3, <1>6 DEF r
<1> QED BY <1>4, <1>5, <1>6

\* Records of a lower level leave the error file as it is; errors are added to it.
LEMMA TeeSound ==
    ASSUME section \in Section, NewLogger = "zap", Enabled("errors"), Apart,
           NEW d, NEW k \in Nat, DiskOK(d, k), OnlyEnabledWrite(d),
           NEW errors \in SUBSET Nat, \A x \in errors : x < k + 1, ErrorFileSound(d, errors),
           NEW logged
    PROVE  ErrorFileSound(Tee(d, logged, k + 1),
                          IF Rank(logged) >= Rank("error") THEN errors \cup {k + 1} ELSE errors)
<1> DEFINE r == k + 1
           wanted == Enabled("log") /\ Rank(logged) >= Rank(Config.level)
           log == IF wanted THEN Written(d, "log", r) ELSE d
<1>1. "log" \in Writer
  BY DEF Writer
<1>2. r \in Nat /\ r >= 1 /\ k <= r /\ r <= r
  OBVIOUS
<1>3. DiskOK(log, r) /\ ErrorFileSound(log, errors)
  <2>1. CASE wanted
    BY <1>1, <1>2, <2>1, WrittenOK, LogWrites
  <2>2. CASE ~ wanted
    BY <1>2, <2>2, WiderOK
  <2> QED BY <2>1, <2>2
<1>4. Tee(d, logged, r) = IF Rank(logged) >= Rank("error") THEN Written(log, "errors", r)
                          ELSE log
  BY DEF Tee
<1>5. \A x \in errors : x < r
  OBVIOUS
<1> HIDE DEF log, r
<1>6. CASE Rank(logged) >= Rank("error")
  <2>1. ErrorFileSound(Written(log, "errors", r), errors \cup {r})
    BY <1>2, <1>3, <1>5, ErrorWrites
  <2> QED BY <1>4, <1>6, <2>1 DEF r
<1>7. CASE ~ (Rank(logged) >= Rank("error"))
  BY <1>3, <1>4, <1>7 DEF r
<1> QED BY <1>6, <1>7

LEMMA WantedErrors ==
    ASSUME NEW level \in Level, NEW paired \in BOOLEAN
    PROVE  (Rank(LoggedLevel(level, paired)) >= Rank("error"))
             <=> (paired /\ Rank(level) >= Rank("error"))
<1>1. CASE paired
  BY <1>1 DEF LoggedLevel
<1>2. CASE ~ paired
  <2>1. LoggedLevel(level, paired) = "warn"
    BY <1>2 DEF LoggedLevel
  <2>2. ~ (Rank("warn") >= Rank("error"))
    BY LevelsAre
  <2> QED BY <1>2, <2>1, <2>2
<1> QED BY <1>1, <1>2

Records == Seq([level : Emitted, paired : BOOLEAN])

LEMMA ErrorsAre ==
    ASSUME records \in Records
    PROVE  /\ Len(records) \in Nat /\ Errors \subseteq 1..Len(records) /\ Errors \in SUBSET Nat
           /\ \A x \in Errors : x < Len(records) + 1
BY DEF Errors, Records

LEMMA ErrorsGrow ==
    ASSUME records \in Records, NEW level \in Emitted, NEW paired \in BOOLEAN,
           records' = Append(records, [level |-> level, paired |-> paired])
    PROVE  /\ records' \in Records /\ Len(records') = Len(records) + 1
           /\ Errors' = IF Rank(LoggedLevel(level, paired)) >= Rank("error")
                        THEN Errors \cup {Len(records) + 1} ELSE Errors
<1> DEFINE k == Len(records)
           rec == [level |-> level, paired |-> paired]
           new == paired /\ Rank(level) >= Rank("error")
<1>1. rec \in [level : Emitted, paired : BOOLEAN]
  OBVIOUS
<1>2. /\ records' \in Records /\ Len(records') = k + 1 /\ k \in Nat
      /\ \A i \in 1..k : records'[i] = records[i]
      /\ records'[k + 1] = rec
  <2> HIDE DEF rec
  <2>1. records' = Append(records, rec)
    BY DEF rec
  <2> QED BY <1>1, <2>1, AppendProperties DEF Records
<1>3. DOMAIN records' = 1..(k + 1) /\ DOMAIN records = 1..k
  BY <1>2 DEF Records
<1>4. rec.level = level /\ (rec.paired <=> paired)
  OBVIOUS
<1> HIDE DEF rec, k
<1>5. Errors' = {i \in 1..(k + 1) : records'[i].paired /\ Rank(records'[i].level) >= Rank("error")}
  BY <1>3 DEF Errors, IsError, Rank, Levels
<1>6. Errors = {i \in 1..k : records[i].paired /\ Rank(records[i].level) >= Rank("error")}
  BY <1>3 DEF Errors, IsError
<1>7. records'[k + 1].paired /\ Rank(records'[k + 1].level) >= Rank("error") <=> new
  BY <1>2, <1>4
<1>8. 1..(k + 1) = 1..k \cup {k + 1} /\ k + 1 \notin 1..k
  BY <1>2
<1>9. Errors' = IF new THEN Errors \cup {k + 1} ELSE Errors
  <2>1. CASE new
    BY <1>2, <1>5, <1>6, <1>7, <1>8, <2>1
  <2>2. CASE ~ new
    BY <1>2, <1>5, <1>6, <1>7, <1>8, <2>2
  <2> QED BY <2>1, <2>2
<1>10. new <=> Rank(LoggedLevel(level, paired)) >= Rank("error")
  BY NamesAre, WantedErrors
<1> QED BY <1>2, <1>9, <1>10 DEF k

-----------------------------------------------------------------------------
(* The log files: every step *)

LogInv ==
    /\ section \in Section /\ production \in BOOLEAN /\ up \in BOOLEAN
    /\ starts \in 1..MaxStarts
    /\ records \in Records /\ console \subseteq DOMAIN records
    /\ aged \in 0..Len(records)
    /\ DiskOK(disk, Len(records)) /\ OnlyEnabledWrite(disk)
    /\ Enabled("errors") /\ Apart => ErrorFileSound(disk, Errors)

\* The section of a deployment does not change, and with it the configuration.
LEMMA SettingStays ==
    ASSUME UNCHANGED <<section, production>>
    PROVE  /\ Config' = Config /\ NewLogger' = NewLogger /\ BackupSize' = BackupSize
           /\ \A w : Target(w)' = Target(w) /\ (Enabled(w)' <=> Enabled(w))
           /\ Apart' <=> Apart
<1>1. Config' = Config
  BY DEF Config, DefaultConfig, WithOptions
<1>2. NewLogger' = NewLogger
  BY DEF NewLogger
<1>3. BackupSize' = BackupSize
  BY <1>1 DEF BackupSize
<1>4. \A w : Target(w)' = Target(w)
  BY <1>1 DEF Target
<1>5. \A w : Enabled(w)' <=> Enabled(w)
  BY <1>1, <1>2 DEF Enabled
<1>6. Apart' <=> Apart
  BY <1>1 DEF Apart
<1> QED BY <1>1, <1>2, <1>3, <1>4, <1>5, <1>6

\* So the invariant may be shown of the disk after the step, with what is configured before.
LEMMA DiskStays ==
    ASSUME UNCHANGED <<section, production, aged>>,
           DiskOK(disk', Len(records')), OnlyEnabledWrite(disk'),
           Enabled("errors") /\ Apart => ErrorFileSound(disk', Errors')
    PROVE  /\ DiskOK(disk, Len(records))' /\ OnlyEnabledWrite(disk)'
           /\ (Enabled("errors") /\ Apart => ErrorFileSound(disk, Errors))'
<1>1. DiskOK(disk, Len(records))'
  BY DEF DiskOK, Disks
<1>2. OnlyEnabledWrite(disk)'
  BY SettingStays DEF OnlyEnabledWrite
<1>3. ASSUME ErrorFileSound(disk', Errors') PROVE ErrorFileSound(disk, Errors)'
  <2>1. /\ WritersFollow(disk') /\ NothingShared(disk') /\ BackupsAreFull(disk')
        /\ LatestRemain(disk', Errors')
    BY <1>3 DEF ErrorFileSound
  <2>2. WritersFollow(disk)'
    BY <2>1, SettingStays DEF WritersFollow
  <2>3. NothingShared(disk)'
    BY <2>1, SettingStays DEF NothingShared, FilesFrom
  <2>4. BackupsAreFull(disk)'
    BY <2>1, SettingStays DEF BackupsAreFull, RecordsFrom, FilesFrom
  <2>5. LatestRemain(disk, Errors)'
    BY <2>1, SettingStays DEF LatestRemain, RecordsFrom, FilesFrom
  <2> QED BY <2>2, <2>3, <2>4, <2>5 DEF ErrorFileSound
<1>4. (Enabled("errors") /\ Apart)' <=> Enabled("errors") /\ Apart
  BY SettingStays
<1> QED BY <1>1, <1>2, <1>3, <1>4

LEMMA LogInitInv == LogInit => LogInv
<1> SUFFICES ASSUME LogInit PROVE LogInv
  OBVIOUS
<1>1. /\ section \in Section /\ production \in BOOLEAN /\ up = TRUE /\ starts = 1
      /\ records = <<>> /\ console = {} /\ aged = 0
      /\ disk = [content |-> <<>>, named |-> [n \in FileName |-> 0],
                 backups |-> [n \in FileName |-> <<>>], writer |-> [w \in Writer |-> Closed]]
  BY DEF LogInit
<1>2. starts \in 1..MaxStarts
  <2>1. MaxStarts \in Nat \ {0}
    BY LogFilesAssumption
  <2> QED BY <1>1, <2>1
<1>3. records \in Records /\ Len(records) = 0 /\ DOMAIN records = {} /\ Errors = {}
  BY <1>1 DEF Records, Errors
<1>4. /\ disk.content = <<>> /\ \A n \in FileName : disk.named[n] = 0 /\ disk.backups[n] = <<>>
      /\ \A w \in Writer : disk.writer[w] = Closed
  BY <1>1
<1>5. /\ <<>> \in Seq(Seq(Nat)) /\ <<>> \in Seq(Nat) /\ Len(<<>>) = 0
      /\ Closed \in [file : Nat, size : Nat, mill : BOOLEAN] /\ Closed.file = 0
  BY DEF Closed
<1>6. Closed.mill = FALSE
  BY DEF Closed
<1>7. disk \in Disks
  BY <1>1, <1>5 DEF Disks
<1>8. DiskOK(disk, Len(records))
  BY <1>3, <1>4, <1>5, <1>7 DEF DiskOK
<1>9. OnlyEnabledWrite(disk)
  BY <1>4, <1>5, <1>6 DEF OnlyEnabledWrite
<1>10. ASSUME NewLogger = "zap" PROVE ErrorFileSound(disk, Errors)
  <2>1. Config.name \in FileName /\ Config.errorName \in FileName
    BY <1>1, <1>10, ConfigIs
  <2>2. \A n \in FileName, i \in Nat : i >= 1 => FilesFrom(disk, n, i) = {}
    <3>1. \A i \in Nat : i >= 1 => i..0 = {}
      OBVIOUS
    <3> QED BY <1>4, <1>5, <3>1 DEF FilesFrom
  <2>3. RecordsFrom(disk, Config.errorName, 1) = {}
    BY <2>1, <2>2 DEF RecordsFrom
  <2>4. WritersFollow(disk)
    BY <1>4, <1>5 DEF WritersFollow
  <2>5. NothingShared(disk)
    BY <2>1, <2>2 DEF NothingShared
  <2>6. BackupsAreFull(disk)
    BY <1>4, <2>1 DEF BackupsAreFull
  <2>7. LatestRemain(disk, Errors)
    BY <1>3, <2>3 DEF LatestRemain
  <2> QED BY <2>4, <2>5, <2>6, <2>7 DEF ErrorFileSound
<1>11. Enabled("errors") => NewLogger = "zap"
  BY DEF Enabled
<1>12. production \in BOOLEAN /\ up \in BOOLEAN
  BY <1>1
<1>13. console \subseteq DOMAIN records
  BY <1>1
<1> QED BY <1>1, <1>2, <1>3, <1>8, <1>9, <1>10, <1>11, <1>12, <1>13 DEF LogInv

\* A process that ends closes its files.
LEMMA StopInv ==
    ASSUME section \in Section, NEW d, NEW k \in Nat, DiskOK(d, k), NEW errors,
           Enabled("errors") /\ Apart => ErrorFileSound(d, errors)
    PROVE  /\ DiskOK(Stop(d), k) /\ OnlyEnabledWrite(Stop(d))
           /\ Enabled("errors") /\ Apart => ErrorFileSound(Stop(d), errors)
BY StopOK, StopSound DEF Enabled

LEMMA LogStepInv ==
    ASSUME LogInv, NEW level \in Emitted, NEW paired \in BOOLEAN, Log(level, paired)
    PROVE  LogInv'
<1> DEFINE k == Len(records)
           logged == LoggedLevel(level, paired)
           d == IF NewLogger = "zap" THEN Tee(disk, logged, k + 1) ELSE disk
<1>1. /\ records' = Append(records, [level |-> level, paired |-> paired])
      /\ console' \subseteq console \cup {k + 1}
      /\ disk' = d \/ disk' = Stop(d)
      /\ UNCHANGED <<section, production, starts, aged>>
  BY DEF Log
<1>2. up' \in BOOLEAN
  BY DEF Log
<1>3. /\ records' \in Records /\ Len(records') = k + 1 /\ k \in Nat
      /\ Errors' = IF Rank(logged) >= Rank("error") THEN Errors \cup {k + 1} ELSE Errors
  BY <1>1, ErrorsGrow, ErrorsAre DEF LogInv
<1>4. Errors \in SUBSET Nat /\ \A x \in Errors : x < k + 1
  BY ErrorsAre DEF LogInv
<1>5. section \in Section /\ DiskOK(disk, k) /\ OnlyEnabledWrite(disk)
      /\ (Enabled("errors") /\ Apart => ErrorFileSound(disk, Errors))
  BY DEF LogInv
<1>6. DiskOK(d, k + 1) /\ OnlyEnabledWrite(d)
  <2>1. CASE NewLogger = "zap"
    BY <1>3, <1>5, <2>1, TeeOK
  <2>2. CASE NewLogger # "zap"
    BY <1>3, <1>5, <2>2, WiderOK
  <2> QED BY <2>1, <2>2
<1>7. ASSUME Enabled("errors"), Apart PROVE ErrorFileSound(d, Errors')
  <2>1. NewLogger = "zap"
    BY <1>7 DEF Enabled
  <2>2. ErrorFileSound(Tee(disk, logged, k + 1),
                       IF Rank(logged) >= Rank("error") THEN Errors \cup {k + 1} ELSE Errors)
    BY <1>3, <1>4, <1>5, <1>7, <2>1, TeeSound
  <2> QED BY <1>3, <2>1, <2>2
<1>8. console' \subseteq DOMAIN records'
  <2>1. DOMAIN records' = 1..(k + 1) /\ DOMAIN records = 1..k
    BY <1>3 DEF LogInv, Records
  <2> QED BY <1>1, <1>3, <2>1 DEF LogInv
<1> HIDE DEF d, k, logged
<1>9. /\ DiskOK(disk', k + 1) /\ OnlyEnabledWrite(disk')
      /\ Enabled("errors") /\ Apart => ErrorFileSound(disk', Errors')
  <2>1. CASE disk' = d
    BY <1>6, <1>7, <2>1
  <2>2. CASE disk' = Stop(d)
    BY <1>3, <1>5, <1>6, <1>7, <2>2, StopInv
  <2> QED BY <1>1, <2>1, <2>2
<1>10. /\ DiskOK(disk, Len(records))' /\ OnlyEnabledWrite(disk)'
       /\ (Enabled("errors") /\ Apart => ErrorFileSound(disk, Errors))'
  BY <1>1, <1>3, <1>9, DiskStays
<1>11. section' \in Section /\ production' \in BOOLEAN /\ starts' \in 1..MaxStarts
  BY <1>1 DEF LogInv
<1>12. aged' \in 0..Len(records')
  <2>1. aged \in 0..Len(records) /\ Len(records) \in Nat /\ Len(records') = Len(records) + 1
    BY <1>3 DEF LogInv, k
  <2> QED BY <1>1, <2>1
<1> QED BY <1>2, <1>3, <1>8, <1>10, <1>11, <1>12 DEF LogInv, Records

LEMMA RemoveOldInv == ASSUME LogInv, NEW w \in Writer, RemoveOld(w) PROVE LogInv'
<1>1. /\ disk.writer[w].mill
      /\ UNCHANGED <<section, production, up, starts, records, console, aged>>
  BY DEF RemoveOld
<1>2. section \in Section /\ DiskOK(disk, Len(records)) /\ OnlyEnabledWrite(disk)
      /\ (Enabled("errors") /\ Apart => ErrorFileSound(disk, Errors))
  BY DEF LogInv
<1>3. NewLogger = "zap"
  BY <1>1, <1>2 DEF OnlyEnabledWrite, Enabled
<1>4. PICK c : Removes(disk, Target(w), c) /\ disk' = Removed(disk, w, c)
  <2>1. Target(w) \in FileName /\ disk \in Disks
    BY <1>2, <1>3, ConfigIs DEF DiskOK
  <2> QED BY <2>1, RemovedIs
<1>5. Len(records) \in Nat /\ Errors \in SUBSET Nat /\ aged \in Nat
  BY ErrorsAre DEF LogInv
<1>6. DiskOK(disk', Len(records)) /\ OnlyEnabledWrite(disk')
  BY <1>2, <1>3, <1>4, <1>5, RemovedOK
<1>7. ASSUME Enabled("errors"), Apart PROVE ErrorFileSound(disk', Errors)
  BY <1>2, <1>3, <1>4, <1>5, <1>7, RemovedSound
<1>8. Errors' = Errors
  BY <1>1 DEF Errors, IsError
<1>9. /\ DiskOK(disk, Len(records))' /\ OnlyEnabledWrite(disk)'
      /\ (Enabled("errors") /\ Apart => ErrorFileSound(disk, Errors))'
  BY <1>1, <1>6, <1>7, <1>8, DiskStays
<1> QED BY <1>1, <1>9 DEF LogInv

LEMMA RestInv == ASSUME LogInv, Crash \/ Restart \/ UNCHANGED logVars PROVE LogInv'
<1>1. /\ UNCHANGED <<section, production, records, console, aged>>
      /\ disk' = disk \/ disk' = Stop(disk)
  BY DEF Crash, Restart, logVars
<1>2. up' \in BOOLEAN /\ starts' \in 1..MaxStarts
  <2>1. MaxStarts \in Nat \ {0}
    BY LogFilesAssumption
  <2>2. up' \in BOOLEAN
    <3>1. CASE Crash
      BY <3>1 DEF Crash
    <3>2. CASE Restart
      BY <3>2 DEF Restart
    <3>3. CASE UNCHANGED logVars
      BY <3>3 DEF logVars, LogInv
    <3> QED BY <3>1, <3>2, <3>3
  <2>3. starts' = starts \/ (starts' = starts + 1 /\ starts < MaxStarts)
    BY DEF Crash, Restart, logVars
  <2> QED BY <2>1, <2>2, <2>3 DEF LogInv
<1>3. section \in Section /\ DiskOK(disk, Len(records)) /\ OnlyEnabledWrite(disk)
      /\ (Enabled("errors") /\ Apart => ErrorFileSound(disk, Errors))
  BY DEF LogInv
<1>4. Len(records) \in Nat
  BY ErrorsAre DEF LogInv
<1>5. Errors' = Errors
  BY <1>1 DEF Errors, IsError
<1>6. /\ DiskOK(disk', Len(records)) /\ OnlyEnabledWrite(disk')
      /\ Enabled("errors") /\ Apart => ErrorFileSound(disk', Errors)
  <2>1. CASE disk' = disk
    BY <1>3, <2>1
  <2>2. CASE disk' = Stop(disk)
    BY <1>3, <1>4, <2>2, StopInv
  <2> QED BY <1>1, <2>1, <2>2
<1>7. /\ DiskOK(disk, Len(records))' /\ OnlyEnabledWrite(disk)'
      /\ (Enabled("errors") /\ Apart => ErrorFileSound(disk, Errors))'
  BY <1>1, <1>5, <1>6, DiskStays
<1> QED BY <1>1, <1>2, <1>7 DEF LogInv

\* As time passes, fewer errors are young.
LEMMA TimePassesInv == ASSUME LogInv, TimePasses PROVE LogInv'
<1>1. UNCHANGED <<section, production, up, starts, records, console, disk>>
  BY DEF TimePasses
<1>2. DiskOK(disk, Len(records)) /\ Len(records) \in Nat /\ aged \in 0..Len(records)
      /\ Errors \in SUBSET Nat
  BY ErrorsAre DEF LogInv
<1>3. aged' \in 0..Len(records) /\ aged' > aged
  <2>1. PICK f \in DOMAIN disk.content :
            disk.content[f] # <<>> /\ disk.content[f][1] > aged /\ aged' = disk.content[f][1]
    BY DEF TimePasses, ToSet
  <2>2. disk.content[f] \in Seq(Nat)
    BY <1>2 DEF DiskOK, Disks
  <2>3. 1 \in DOMAIN disk.content[f]
    BY <2>1, <2>2
  <2>4. disk.content[f][1] \in 1..Len(records)
    BY <1>2, <2>3 DEF DiskOK
  <2> QED BY <1>2, <2>1, <2>4
<1>4. Errors' = Errors
  BY <1>1 DEF Errors, IsError
<1>5. (Enabled("errors") /\ Apart)' <=> Enabled("errors") /\ Apart
  BY <1>1, SettingStays
<1>6. DiskOK(disk, Len(records))' /\ OnlyEnabledWrite(disk)'
  BY <1>1, SettingStays DEF LogInv, DiskOK, Disks, OnlyEnabledWrite
<1>7. ASSUME ErrorFileSound(disk, Errors) PROVE ErrorFileSound(disk, Errors)'
  <2>1. WritersFollow(disk)'
    BY <1>1, <1>7, SettingStays DEF ErrorFileSound, WritersFollow
  <2>2. NothingShared(disk)'
    BY <1>1, <1>7, SettingStays DEF ErrorFileSound, NothingShared, FilesFrom
  <2>3. BackupsAreFull(disk)'
    BY <1>1, <1>7, SettingStays DEF ErrorFileSound, BackupsAreFull, RecordsFrom, FilesFrom
  <2>4. LatestRemain(disk, Errors)'
    <3> DEFINE kept == RecordsFrom(disk, Config.errorName, 1)
    <3>1. \A x \in Errors : x > aged' => x > aged
      BY <1>2, <1>3
    <3>2. /\ Config' = Config /\ BackupSize' = BackupSize /\ disk' = disk
          /\ \A i : RecordsFrom(disk, Config.errorName, i)'
                    = RecordsFrom(disk, Config.errorName, i)
      BY <1>1, SettingStays DEF RecordsFrom, FilesFrom
    <3>3. LatestRemain(disk, Errors)
      BY <1>7 DEF ErrorFileSound
    <3> QED BY <1>4, <3>1, <3>2, <3>3 DEF LatestRemain
  <2> QED BY <2>1, <2>2, <2>3, <2>4 DEF ErrorFileSound
<1>8. (Enabled("errors") /\ Apart => ErrorFileSound(disk, Errors))'
  BY <1>5, <1>7 DEF LogInv
<1> QED BY <1>1, <1>3, <1>6, <1>8 DEF LogInv

LEMMA LogNextInv == LogInv /\ [LogNext]_logVars => LogInv'
<1> SUFFICES ASSUME LogInv, [LogNext]_logVars PROVE LogInv'
  OBVIOUS
<1>1. ASSUME NEW level \in Emitted, NEW paired \in BOOLEAN, Log(level, paired) PROVE LogInv'
  BY <1>1, LogStepInv
<1>2. ASSUME NEW w \in Writer, RemoveOld(w) PROVE LogInv'
  BY <1>2, RemoveOldInv
<1>3. CASE Crash \/ Restart \/ UNCHANGED logVars
  BY <1>3, RestInv
<1>4. CASE TimePasses
  BY <1>4, TimePassesInv
<1> QED BY <1>1, <1>2, <1>3, <1>4 DEF LogNext

\* The error file and its backups hold the latest errors that are not older than max_age
\* days, in their order, in full files.
THEOREM LogInvariance == LogSpec => []LogInv
BY LogInitInv, LogNextInv, PTL DEF LogSpec

-----------------------------------------------------------------------------
(* The log files: what follows *)

LEMMA KeptIs ==
    ASSUME NEW k \in Nat, DiskOK(disk, k), NEW n \in FileName
    PROVE  Kept(n) = RecordsFrom(disk, n, 1)
<1>1. DOMAIN disk.backups[n] = 1..Len(disk.backups[n])
  BY FilesAreThere
<1>2. ToSet(disk.backups[n]) = {disk.backups[n][j] : j \in 1..Len(disk.backups[n])}
  BY <1>1 DEF ToSet
<1> QED BY <1>2 DEF Kept, RecordsFrom, FilesFrom

LEMMA SeqRange ==
    ASSUME NEW S, NEW T, NEW s \in Seq(S), \A i \in DOMAIN s : s[i] \in T
    PROVE  s \in Seq(T)
<1>1. DOMAIN s = 1..Len(s) /\ Len(s) \in Nat /\ s = [i \in 1..Len(s) |-> s[i]]
  OBVIOUS
<1>2. s \in [1..Len(s) -> T]
  BY <1>1
<1> QED BY <1>1, <1>2, IsASeq

LEMMA DiskType ==
    ASSUME NEW d, NEW k \in Nat, DiskOK(d, k)
    PROVE  /\ d.content \in Seq(Seq(1..k))
           /\ d.named \in [FileName -> 0..Len(d.content)]
           /\ d.backups \in [FileName -> Seq(DOMAIN d.content)]
           /\ d.writer \in [Writer -> [file : 0..Len(d.content), size : Nat, mill : BOOLEAN]]
<1>1. /\ d.content \in Seq(Seq(Nat)) /\ d.named \in [FileName -> Nat]
      /\ d.backups \in [FileName -> Seq(Nat)]
      /\ d.writer \in [Writer -> [file : Nat, size : Nat, mill : BOOLEAN]]
  BY DEF DiskOK, Disks
<1>2. d.content \in Seq(Seq(1..k))
  <2>1. \A f \in DOMAIN d.content : d.content[f] \in Seq(Nat)
    BY <1>1, ElementOfSeq
  <2>2. \A f \in DOMAIN d.content : d.content[f] \in Seq(1..k)
    BY <2>1, SeqRange DEF DiskOK
  <2> QED BY <1>1, <2>2, SeqRange
<1>3. d.named \in [FileName -> 0..Len(d.content)]
  BY <1>1 DEF DiskOK
<1>4. d.backups \in [FileName -> Seq(DOMAIN d.content)]
  <2>1. ASSUME NEW n \in FileName PROVE d.backups[n] \in Seq(DOMAIN d.content)
    <3>1. d.backups[n] \in Seq(Nat)
      BY <1>1
    <3>2. \A j \in DOMAIN d.backups[n] : d.backups[n][j] \in DOMAIN d.content
      BY DEF DiskOK
    <3> QED BY <3>1, <3>2, SeqRange
  <2> QED BY <1>1, <2>1
<1>5. d.writer \in [Writer -> [file : 0..Len(d.content), size : Nat, mill : BOOLEAN]]
  <2>1. ASSUME NEW w \in Writer
        PROVE  d.writer[w] \in [file : 0..Len(d.content), size : Nat, mill : BOOLEAN]
    <3>1. d.writer[w] \in [file : Nat, size : Nat, mill : BOOLEAN]
      BY <1>1
    <3>2. d.writer[w].file \in 0..Len(d.content)
      BY DEF DiskOK
    <3> QED BY <3>1, <3>2
  <2> QED BY <1>1, <2>1
<1> QED BY <1>2, <1>3, <1>4, <1>5

LEMMA LogTypes == LogInv => LogTypeOK
<1> SUFFICES ASSUME LogInv PROVE LogTypeOK
  OBVIOUS
<1>1. NewLogger = "zap" => Config \in Configs
  BY ConfigType DEF LogInv
<1>2. DiskOK(disk, Len(records)) /\ Len(records) \in Nat /\ DOMAIN records = 1..Len(records)
  BY ErrorsAre DEF LogInv, Records
<1>3. /\ disk.content \in Seq(Seq(DOMAIN records))
      /\ disk.named \in [FileName -> 0..Len(disk.content)]
      /\ disk.backups \in [FileName -> Seq(DOMAIN disk.content)]
      /\ disk.writer \in [Writer -> [file : 0..Len(disk.content), size : Nat, mill : BOOLEAN]]
  BY <1>2, DiskType
<1> QED BY <1>1, <1>3 DEF LogInv, LogTypeOK, Configs, Records

LEMMA OnlyErrors == LogInv => OnlyErrorsAreKept
<1> SUFFICES ASSUME LogInv, Enabled("errors"), Apart
             PROVE  Kept(Config.errorName) \subseteq Errors
  BY DEF OnlyErrorsAreKept
<1>1. Config.errorName \in FileName
  BY ConfigIs DEF LogInv, Enabled
<1>2. Kept(Config.errorName) = RecordsFrom(disk, Config.errorName, 1)
  BY <1>1, KeptIs, ErrorsAre DEF LogInv
<1> QED BY <1>2 DEF LogInv, ErrorFileSound, LatestRemain

\* An error that is gone is older than all that are kept, and those are many.
LEMMA LatestErrors == LogInv => LatestErrorsAreKept
<1> DEFINE kept == Kept(Config.errorName)
           bound == Config.maxBackups * BackupSize + 1
<1> SUFFICES ASSUME LogInv, Enabled("errors"), Apart, NEW r \in Errors, r > aged, r \notin kept
             PROVE  ~ (Cardinality({s \in Errors : s > r}) < bound)
  BY DEF LatestErrorsAreKept
<1> DEFINE later == {s \in Errors : s > r}
           n == Config.errorName
<1>1. n \in FileName /\ Config.maxBackups \in Nat /\ BackupSize \in Nat
  BY ConfigIs DEF LogInv, Enabled
<1>2. bound \in Nat
  BY <1>1, OneTimes
<1>3. /\ Len(records) \in Nat /\ Errors \subseteq 1..Len(records) /\ Errors \in SUBSET Nat
  BY ErrorsAre DEF LogInv
<1>4. DiskOK(disk, Len(records)) /\ LatestRemain(disk, Errors)
  BY DEF LogInv, ErrorFileSound
<1>5. kept = RecordsFrom(disk, n, 1)
  BY <1>1, <1>3, <1>4, KeptIs
<1>6. kept \subseteq Errors /\ Cardinality(kept) >= bound
  BY <1>4, <1>5 DEF LatestRemain
<1>7. kept \subseteq later
  <2>1. Len(disk.backups[n]) \in Nat
    BY <1>1, <1>3, <1>4, FilesAreThere
  <2>2. 1 \in 1..(Len(disk.backups[n]) + 1)
    BY <2>1
  <2>3. \A y \in kept : r < y
    BY <1>4, <1>5, <2>2 DEF LatestRemain
  <2> QED BY <1>3, <1>6, <2>3
<1>8. IsFiniteSet(later)
  <2>1. IsFiniteSet(1..Len(records))
    BY <1>3, FS_Interval
  <2>2. later \subseteq 1..Len(records)
    BY <1>3
  <2> QED BY <2>1, <2>2, FS_Subset
<1> HIDE DEF kept, later, bound
<1>9. /\ Cardinality(kept) <= Cardinality(later) /\ Cardinality(later) \in Nat
      /\ Cardinality(kept) \in Nat
  BY <1>7, <1>8, FS_Subset, FS_CardinalityType
<1>10. ~ (Cardinality(later) < bound)
  BY <1>2, <1>6, <1>9
<1> QED BY <1>10 DEF later

\* What a section may say yields a Config in its ranges, and the writers and the disk
\* hold only files and records that exist (logger/zap/option.go, zap.go).
THEOREM LogTypeCorrect == LogSpec => []LogTypeOK
BY LogInvariance, LogTypes, PTL

\* Whatever is logged, rotated and removed, in however many processes: the error file and
\* its backups hold errors only, and of these the latest, as many as the configured
\* backups have room for, unless they are older than max_age days (logger/zap/zap.go,
\* option.go, with the rotation of lumberjack).
THEOREM ErrorsAreKeptTheorem == LogSpec => []ErrorsAreKept
<1>1. LogInv => ErrorsAreKept
  BY LogTypes, OnlyErrors, LatestErrors DEF ErrorsAreKept
<1> QED BY <1>1, LogInvariance, PTL

-----------------------------------------------------------------------------
(* The log files: surplus backups *)

\* Backups that are too many, of a file that is open, are known to a goroutine that
\* removes them: the writer's own, or that of the other writer of the same file.
RemovalIsPending(d) ==
    \A w \in Writer : d.writer[w].file # 0 /\ SurplusOf(d.backups[Target(w)]) # 0 =>
        \E v \in Writer : Target(v) = Target(w) /\ d.writer[v].mill

LEMMA ExtendedPending ==
    ASSUME NEW d, NEW k \in Nat, DiskOK(d, k), RemovalIsPending(d), NEW w \in Writer,
           NEW r, NEW f, NEW s, NEW m \in BOOLEAN,
           d.writer[w].file = 0 \/ d.writer[w].mill => m
    PROVE  RemovalIsPending(Extended(d, w, r, f, s, m))
<1> DEFINE e == Extended(d, w, r, f, s, m)
<1>1. e.backups = d.backups
      /\ e.writer = [d.writer EXCEPT ![w] = [file |-> f, size |-> s + 1, mill |-> m]]
  BY DEF Extended
<1>2. d.writer \in [Writer -> [file : Nat, size : Nat, mill : BOOLEAN]]
  BY DEF DiskOK, Disks
<1> HIDE DEF e
<1>3. \A v \in Writer : v # w => e.writer[v] = d.writer[v]
  BY <1>1, <1>2
<1>4. e.writer[w].mill = m
  BY <1>1, <1>2
<1>5. ASSUME NEW x \in Writer, e.writer[x].file # 0, SurplusOf(e.backups[Target(x)]) # 0
      PROVE  \E v \in Writer : Target(v) = Target(x) /\ e.writer[v].mill
  <2>1. CASE x = w /\ d.writer[w].file = 0
    BY <1>4, <2>1
  <2>2. CASE d.writer[x].file # 0
    <3>1. PICK v \in Writer : Target(v) = Target(x) /\ d.writer[v].mill
      BY <1>1, <1>5, <2>2 DEF RemovalIsPending
    <3>2. CASE v = w
      BY <1>4, <3>1, <3>2
    <3>3. CASE v # w
      BY <1>3, <3>1, <3>3
    <3> QED BY <3>2, <3>3
  <2>3. d.writer[x].file # 0 \/ (x = w /\ d.writer[w].file = 0)
    BY <1>3, <1>5
  <2> QED BY <2>1, <2>2, <2>3
<1> QED BY <1>5 DEF RemovalIsPending, e

LEMMA RotatedPending ==
    ASSUME NEW d, NEW k \in Nat, DiskOK(d, k), RemovalIsPending(d), NEW w \in Writer, NEW r,
           \A v \in Writer : Target(v) \in FileName
    PROVE  RemovalIsPending(Rotated(d, w, r))
<1> DEFINE e == Rotated(d, w, r)
           new == Len(d.content) + 1
<1>1. /\ \E b : e.backups = [d.backups EXCEPT ![Target(w)] = b]
      /\ e.writer = [d.writer EXCEPT ![w] = [file |-> new, size |-> 1, mill |-> TRUE]]
  BY DEF Rotated
<1>2. d.writer \in [Writer -> [file : Nat, size : Nat, mill : BOOLEAN]]
      /\ d.backups \in [FileName -> Seq(Nat)]
  BY DEF DiskOK, Disks
<1> HIDE DEF e, new
<1>3. \A v \in Writer : v # w => e.writer[v] = d.writer[v]
  BY <1>1, <1>2
<1>4. e.writer[w].mill = TRUE
  BY <1>1, <1>2
<1>5. \A n \in FileName : n # Target(w) => e.backups[n] = d.backups[n]
  BY <1>1, <1>2
<1>6. ASSUME NEW x \in Writer, e.writer[x].file # 0, SurplusOf(e.backups[Target(x)]) # 0
      PROVE  \E v \in Writer : Target(v) = Target(x) /\ e.writer[v].mill
  <2>1. CASE Target(x) = Target(w)
    BY <1>4, <2>1
  <2>2. CASE Target(x) # Target(w)
    <3>1. x # w /\ e.backups[Target(x)] = d.backups[Target(x)]
      BY <1>5, <2>2
    <3>2. PICK v \in Writer : Target(v) = Target(x) /\ d.writer[v].mill
      BY <1>3, <1>6, <3>1 DEF RemovalIsPending
    <3>3. v # w
      BY <2>2, <3>2
    <3> QED BY <1>3, <3>2, <3>3
  <2> QED BY <2>1, <2>2
<1> QED BY <1>6 DEF RemovalIsPending, e

LEMMA WrittenPending ==
    ASSUME section \in Section, NewLogger = "zap", NEW d, NEW k \in Nat, DiskOK(d, k),
           RemovalIsPending(d), NEW w \in Writer, NEW r \in Nat
    PROVE  RemovalIsPending(Written(d, w, r))
<1>1. (\A v \in Writer : Target(v) \in FileName) /\ Config.maxSize \in Nat
  BY ConfigIs
<1>2. \/ \E f \in DOMAIN d.content, s \in Nat, m \in BOOLEAN :
            /\ d.writer[w].file = 0 \/ d.writer[w].mill => m
            /\ Written(d, w, r) = Extended(d, w, r, f, s, m)
      \/ Written(d, w, r) = Rotated(d, w, r)
  BY <1>1, WrittenIs
<1>3. CASE Written(d, w, r) = Rotated(d, w, r)
  BY <1>1, <1>3, RotatedPending
<1>4. ASSUME NEW f \in DOMAIN d.content, NEW s \in Nat, NEW m \in BOOLEAN,
             d.writer[w].file = 0 \/ d.writer[w].mill => m,
             Written(d, w, r) = Extended(d, w, r, f, s, m)
      PROVE  RemovalIsPending(Written(d, w, r))
  BY <1>4, ExtendedPending
<1> QED BY <1>2, <1>3, <1>4

LEMMA TeePending ==
    ASSUME section \in Section, NewLogger = "zap", NEW d, NEW k \in Nat, DiskOK(d, k),
           OnlyEnabledWrite(d), RemovalIsPending(d), NEW logged
    PROVE  RemovalIsPending(Tee(d, logged, k + 1))
<1> DEFINE r == k + 1
           wanted == Enabled("log") /\ Rank(logged) >= Rank(Config.level)
           log == IF wanted THEN Written(d, "log", r) ELSE d
<1>1. "log" \in Writer /\ "errors" \in Writer
  BY DEF Writer
<1>2. r \in Nat /\ r >= 1 /\ k <= r /\ r <= r
  OBVIOUS
<1>3. DiskOK(log, r) /\ RemovalIsPending(log)
  <2>1. CASE wanted
    BY <1>1, <1>2, <2>1, WrittenOK, WrittenPending
  <2>2. CASE ~ wanted
    BY <1>2, <2>2, WiderOK
  <2> QED BY <2>1, <2>2
<1>4. \/ Tee(d, logged, r) = Written(log, "errors", r)
      \/ Tee(d, logged, r) = log
  BY DEF Tee
<1> HIDE DEF log, r
<1>5. RemovalIsPending(Written(log, "errors", r))
  BY <1>1, <1>2, <1>3, WrittenPending
<1> QED BY <1>3, <1>4, <1>5 DEF r

LEMMA RemovedPending ==
    ASSUME section \in Section, NewLogger = "zap", NEW d, NEW k \in Nat, DiskOK(d, k),
           RemovalIsPending(d), NEW w \in Writer, NEW c, Removes(d, Target(w), c)
    PROVE  RemovalIsPending(Removed(d, w, c))
<1> DEFINE e == Removed(d, w, c)
           n == Target(w)
<1>1. \A v \in Writer : Target(v) \in FileName
  BY ConfigIs
<1>2. /\ \A x \in FileName : x # n => e.backups[x] = d.backups[x]
      /\ SurplusOf(e.backups[n]) = 0
  BY <1>1, RemovedFields
<1>3. d.writer \in [Writer -> [file : Nat, size : Nat, mill : BOOLEAN]]
  BY DEF DiskOK, Disks
<1>4. e.writer = [d.writer EXCEPT ![w] = [d.writer[w] EXCEPT !.mill = FALSE]]
  BY DEF Removed
<1> HIDE DEF e
<1>5. \A v \in Writer : v # w => e.writer[v] = d.writer[v]
  BY <1>3, <1>4
<1>6. \A v \in Writer : e.writer[v].file = d.writer[v].file
  BY <1>3, <1>4
<1>7. ASSUME NEW x \in Writer, e.writer[x].file # 0, SurplusOf(e.backups[Target(x)]) # 0
      PROVE  \E v \in Writer : Target(v) = Target(x) /\ e.writer[v].mill
  <2>1. Target(x) # n /\ e.backups[Target(x)] = d.backups[Target(x)]
    BY <1>1, <1>2, <1>7
  <2>2. PICK v \in Writer : Target(v) = Target(x) /\ d.writer[v].mill
    BY <1>6, <1>7, <2>1 DEF RemovalIsPending
  <2>3. v # w
    BY <2>1, <2>2
  <2> QED BY <1>5, <2>2, <2>3
<1> QED BY <1>7 DEF RemovalIsPending, e

\* A process that ends leaves no file open.
LEMMA StopPending == ASSUME NEW d, NEW k \in Nat, DiskOK(d, k) PROVE RemovalIsPending(Stop(d))
<1>1. \A w \in Writer : Stop(d).writer[w] = Closed
  BY DEF Stop, DiskOK, Disks
<1>2. Closed.file = 0
  BY DEF Closed
<1> QED BY <1>1, <1>2 DEF RemovalIsPending

LEMMA PendingNext ==
    LogInv /\ (NewLogger = "zap" => RemovalIsPending(disk)) /\ [LogNext]_logVars
    => (NewLogger = "zap" => RemovalIsPending(disk))'
<1> SUFFICES ASSUME LogInv, NewLogger = "zap" => RemovalIsPending(disk), [LogNext]_logVars,
                    NewLogger' = "zap"
             PROVE  RemovalIsPending(disk)'
  OBVIOUS
<1>1. section \in Section /\ DiskOK(disk, Len(records)) /\ Len(records) \in Nat
      /\ OnlyEnabledWrite(disk)
  BY ErrorsAre DEF LogInv
<1>2. UNCHANGED <<section, production>>
  BY DEF LogNext, Log, RemoveOld, TimePasses, Crash, Restart, logVars
<1>3. NewLogger = "zap" /\ RemovalIsPending(disk)
  BY <1>2, SettingStays
<1>4. RemovalIsPending(disk')
  <2>1. ASSUME NEW level \in Emitted, NEW paired \in BOOLEAN, Log(level, paired)
        PROVE  RemovalIsPending(disk')
    <3> DEFINE d == Tee(disk, LoggedLevel(level, paired), Len(records) + 1)
    <3>1. disk' = d \/ disk' = Stop(d)
      BY <1>3, <2>1 DEF Log
    <3>2. DiskOK(d, Len(records) + 1) /\ Len(records) + 1 \in Nat
      BY <1>1, <1>3, TeeOK
    <3>3. RemovalIsPending(d)
      BY <1>1, <1>3, TeePending
    <3> HIDE DEF d
    <3> QED BY <3>1, <3>2, <3>3, StopPending
  <2>2. ASSUME NEW w \in Writer, RemoveOld(w) PROVE RemovalIsPending(disk')
    <3>1. Target(w) \in FileName /\ disk \in Disks
      BY <1>1, <1>3, ConfigIs DEF DiskOK
    <3>2. PICK c : Removes(disk, Target(w), c) /\ disk' = Removed(disk, w, c)
      BY <2>2, <3>1, RemovedIs
    <3> QED BY <1>1, <1>3, <3>2, RemovedPending
  <2>3. CASE Crash
    BY <1>1, <2>3, StopPending DEF Crash
  <2>4. CASE TimePasses \/ Restart \/ UNCHANGED logVars
    BY <1>3, <2>4 DEF TimePasses, Restart, logVars
  <2> QED BY <2>1, <2>2, <2>3, <2>4 DEF LogNext
<1>5. Config' = Config /\ \A w : Target(w)' = Target(w)
  BY <1>2, SettingStays
<1> QED BY <1>4, <1>5 DEF RemovalIsPending, SurplusOf

\* What DiskIsReclaimed rests on in every state: backups beyond what the section asks for
\* are a pending removal of a writer of that file, as long as the file is open.
SurplusIsPending ==
    \A w \in Writer : disk.writer[w].file # 0 /\ Surplus(w) =>
        \E v \in Writer : Target(v) = Target(w) /\ disk.writer[v].mill

\* No writer forgets its surplus backups, whoever rotated the file, also when both writers
\* have the same one (logger/zap/zap.go, with the rotation of lumberjack).
THEOREM SurplusIsPendingTheorem == LogSpec => []SurplusIsPending
<1>1. LogInit => (NewLogger = "zap" => RemovalIsPending(disk))
  <2>1. LogInit => \A w \in Writer : disk.writer[w] = Closed
    BY DEF LogInit
  <2>2. Closed.file = 0
    BY DEF Closed
  <2> QED BY <2>1, <2>2 DEF RemovalIsPending
<1>2. LogInv /\ (NewLogger = "zap" => RemovalIsPending(disk)) => SurplusIsPending
  <2> SUFFICES ASSUME LogInv, NewLogger = "zap" => RemovalIsPending(disk),
                      NEW w \in Writer, disk.writer[w].file # 0, Surplus(w)
               PROVE  \E v \in Writer : Target(v) = Target(w) /\ disk.writer[v].mill
    BY DEF SurplusIsPending
  <2> DEFINE l == Len(disk.backups[Target(w)])
  <2>1. NewLogger = "zap" /\ section \in Section
    BY DEF Surplus, Enabled, LogInv
  <2>2. Config.maxBackups = BackupsAskedFor
    BY DEF Config, BackupsAskedFor, DefaultConfig, WithOptions, OrDefault
  <2>3. Config.maxBackups \in Nat /\ Config.maxBackups >= 1 /\ Target(w) \in FileName
    BY <2>1, ConfigIs
  <2>4. l \in Nat
    BY <2>3, FilesAreThere, ErrorsAre DEF LogInv
  <2>5. l > Config.maxBackups
    BY <2>2 DEF Surplus
  <2> HIDE DEF l
  <2>6. SurplusOf(disk.backups[Target(w)]) = l - Config.maxBackups
    BY <2>3, <2>4, <2>5 DEF SurplusOf, l
  <2>7. SurplusOf(disk.backups[Target(w)]) # 0
    BY <2>3, <2>4, <2>5, <2>6
  <2> QED BY <2>1, <2>7 DEF RemovalIsPending
<1> QED BY <1>1, <1>2, PendingNext, LogInvariance, PTL DEF LogSpec

===============================================================================
