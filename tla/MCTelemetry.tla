----------------------------- MODULE MCTelemetry -----------------------------
(* Telemetry with small limits: one plan for each part of the registry.     *)
EXTENDS Telemetry

CONSTANTS a, b, c1, c2
Jump == [h \in Hosts |-> IF h = a THEN b ELSE None]
TwoGenerations == 1..2
Symmetric == {[c \in {c1, c2} |-> c], [c \in {c1, c2} |-> IF c = c1 THEN c2 ELSE c1]}
Kinds(set, n) == [kinds |-> set, events |-> n]
SmallPlans ==
    {Kinds({"start", "stop", "delete", "sample", "exit"}, 5),
     Kinds({"start", "stop", "no kill", "malformed", "slow", "stderr stays open"}, 4),
     Kinds({"start", "stop", "no ssh", "no stdin", "no thread", "delete", "closed"}, 4),
     Kinds({"start", "sample"}, 6),
     Kinds({"watch", "unwatch", "delete", "lost", "slow"}, 4),
     Kinds({"watch", "unwatch", "foreign", "no answer", "lost"}, 4),
     Kinds({"start", "watch", "update"}, 4),
     Kinds({"watch", "shutdown", "lost"}, 5),
     Kinds({"start", "watch", "shutdown", "slow"}, 4),
     Kinds({"TERM", "KILL", "process", "expiry", "lost", "delete"}, 6)}
=============================================================================
