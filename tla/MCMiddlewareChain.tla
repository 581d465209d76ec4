--------------------------- MODULE MCMiddlewareChain ---------------------------
(* Small instances of MiddlewareChain. *)
EXTENDS MiddlewareChain, TLC

\* The model does not tell requests apart.
MCSymmetry == Permutations(Request)

Auth(key, method) == [key |-> key, method |-> method]
MCAuth == {Auth("", ""), Auth("k1", "HS384"), Auth("k1", "none")}

\* Clients with all that has a way back, and one without middleware but the token.
MCClient ==
    {[recovery |-> on, tracing |-> on, validate |-> FALSE, key |-> a.key,
      method |-> a.method, metrics |-> {"gauge"}, app |-> on] :
        <<on, a>> \in {TRUE} \X MCAuth \cup {<<FALSE, Auth("k1", "HS384")>>}}

\* Every recovery and limiter: servers with all other middlewares and any
\* authentication, and servers with none of them.
MCServer ==
    {[recovery |-> rec, tracing |-> on, validate |-> on, key |-> a.key,
      method |-> a.method, metrics |-> IF on THEN {"counter"} ELSE {}, app |-> on,
      limiter |-> l, logging |-> on] :
        rec \in BOOLEAN,
        <<on, a, l>> \in {TRUE} \X MCAuth \X {"bbr", "other"}
                       \cup {FALSE} \X {Auth("", "")} \X {"none", "bbr"}}
=============================================================================
