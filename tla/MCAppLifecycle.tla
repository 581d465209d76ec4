--------------------------- MODULE MCAppLifecycle ---------------------------
(* Instances of AppLifecycle for TLC. *)
EXTENDS AppLifecycle

\* No option, a nil one, one that is not registered, one as long as the load
\* balancer needs and one too short, overridden either way.
MCDelay == {-1, 1, 2}
MCOptionLists == {<<>>, <<NoOption>>, <<-1>>, <<2>>, <<1, 2>>, <<2, NoOption, 1>>}
=============================================================================
