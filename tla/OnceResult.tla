----------------------------- MODULE OnceResult -----------------------------
(***************************************************************************)
(* What a process-wide initialisation guarded by sync.Once promises its    *)
(* callers: the first attempt settles one outcome for the whole life of    *)
(* the process, and every call that was accepted is answered with it.      *)
(*                                                                         *)
(* metrics.InitWithConfig (src/metrics/metrics.go) keeps this promise with *)
(* initOnce, initErr and initialized: MetricsInit models it step by step   *)
(* and implements this module.  Startup uses this module in place of the   *)
(* detail.                                                                 *)
(***************************************************************************)
CONSTANTS
    Caller,     \* the goroutines that may call the initialiser
    Result,     \* the outcomes an attempt can settle on
    Unset,      \* no outcome yet, no answer yet
    Refused     \* the answer to a call with an invalid argument

VARIABLES
    outcome,    \* the settled result, Unset until the attempt is over
    asking,     \* the callers waiting for an answer
    got         \* the last answer each caller received

onceVars == <<outcome, asking, got>>

OnceTypeOK ==
    /\ outcome \in Result \cup {Unset}
    /\ asking \subseteq Caller
    /\ got \in [Caller -> Result \cup {Unset, Refused}]

OnceInit ==
    /\ outcome = Unset
    /\ asking = {}
    /\ got = [c \in Caller |-> Unset]

-----------------------------------------------------------------------------
\* A call passes validation and waits for the outcome.
Ask(c) ==
    /\ c \notin asking
    /\ asking' = asking \cup {c}
    /\ got' = [got EXCEPT ![c] = Unset]
    /\ UNCHANGED outcome

\* A call whose argument is invalid is answered at once and settles nothing.
Refuse(c) ==
    /\ c \notin asking
    /\ got' = [got EXCEPT ![c] = Refused]
    /\ UNCHANGED <<outcome, asking>>

\* The only attempt ends: some caller asked for it, and nothing was settled.
Settle(r) ==
    /\ asking # {}
    /\ outcome = Unset
    /\ outcome' = r
    /\ UNCHANGED <<asking, got>>

\* A waiting caller learns the outcome.
Answer(c) ==
    /\ c \in asking
    /\ outcome # Unset
    /\ got' = [got EXCEPT ![c] = outcome]
    /\ asking' = asking \ {c}
    /\ UNCHANGED outcome

OnceNext ==
    \/ \E c \in Caller : Ask(c) \/ Refuse(c) \/ Answer(c)
    \/ \E r \in Result : Settle(r)

OnceFairness ==
    /\ WF_onceVars(\E r \in Result : Settle(r))
    /\ \A c \in Caller : WF_onceVars(Answer(c))

OnceSpec == OnceInit /\ [][OnceNext]_onceVars /\ OnceFairness
=============================================================================
