------------------------ MODULE MCKeepaliveRollout ------------------------
(* Instances of KeepaliveRollout for TLC. *)
EXTENDS KeepaliveRollout

MCDuration == {0, 10, 30, 60, 300}

K(time, permit) == [enable |-> TRUE, time |-> time, timeout |-> 10, permit_without_stream |-> permit]
P(time, permit) == [enable |-> TRUE, min_time |-> time, permit_without_stream |-> permit]

\* The sections of README.md:237-256, a faster one, and those that are not valid.
MCClientSection == {Absent, K(60, TRUE), K(10, FALSE), K(0, TRUE)}
MCServerSection == {Absent, P(30, TRUE), P(10, FALSE), P(0, TRUE)}
=============================================================================
