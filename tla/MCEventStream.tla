---------------------------- MODULE MCEventStream ----------------------------
(* Model values for EventStream: events of one unit.                       *)
EXTENDS EventStream

AllKinds == {"tunnel", "telemetry", "task"}
Tunnels == {"tunnel"}
SmallEvents == {1}
=============================================================================
