---------------------------- MODULE MCLifecycle ----------------------------
(* Three launches: two for the user, one to stop the service.              *)
EXTENDS Lifecycle

CONSTANTS p1, p2, p3, i1, i2, i3

MCLaunches == {p1, p2, p3}
MCKind == [p \in Launches |-> IF p = p3 THEN "stop" ELSE IF p = p2 THEN "open" ELSE "quiet"]
EveryFault == AllFaults
=============================================================================
