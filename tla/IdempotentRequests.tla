------------------------- MODULE IdempotentRequests -------------------------
(***************************************************************************)
(* What the server promises for the idempotency key of a state-changing    *)
(* request (docs/architecture.md), per key and as long as the key is       *)
(* remembered: the command is executed at most once; whoever asks with     *)
(* that key is told that it was executed, that it was refused and not      *)
(* executed, or that nothing is certain; a key is not forgotten while its  *)
(* command is being executed, unless nothing certain was said of it.       *)
(***************************************************************************)
CONSTANT Keys

VARIABLES
    effect, \* of the command: "none", "begun", "ended"
    told    \* "none", "done", "refused", "unknown"

vars == <<effect, told>>

Init ==
    /\ effect = [k \in Keys |-> "none"]
    /\ told = [k \in Keys |-> "none"]

\* The command is executed, at once or in two steps.
Execute(k, e) ==
    /\ told[k] \in {"none", "unknown"}
    /\ effect[k] = "none"
    /\ effect' = [effect EXCEPT ![k] = e]
    /\ UNCHANGED told

End(k) ==
    /\ effect[k] = "begun"
    /\ effect' = [effect EXCEPT ![k] = "ended"]
    /\ UNCHANGED told

\* The outcome of key k is told; it is told anew when it was uncertain.
Tell(k, a) ==
    /\ told[k] \in {"none", "unknown"}
    /\ \/ a = "done" /\ effect[k] = "ended"
       \/ a = "refused" /\ effect[k] = "none"
    /\ told' = [told EXCEPT ![k] = a]
    /\ UNCHANGED effect

\* Executions fail, or the server stops: nothing is certain of the keys ks.
Interrupt(ks) ==
    /\ told' = [k \in Keys |-> IF k \in ks THEN "unknown" ELSE told[k]]
    /\ UNCHANGED effect

\* The keys ks are forgotten and may be used anew.
Forget(ks) ==
    /\ \A k \in ks : told[k] # "none" /\ (effect[k] = "begun" => told[k] = "unknown")
    /\ effect' = [k \in Keys |-> IF k \in ks THEN "none" ELSE effect[k]]
    /\ told' = [k \in Keys |-> IF k \in ks THEN "none" ELSE told[k]]

Next ==
    \/ \E k \in Keys :
          \/ \E e \in {"begun", "ended"} : Execute(k, e)
          \/ End(k)
          \/ \E a \in {"done", "refused"} : Tell(k, a)
    \/ \E ks \in SUBSET Keys : Interrupt(ks) \/ Forget(ks)

Spec == Init /\ [][Next]_vars
=============================================================================
