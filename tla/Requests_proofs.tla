---------------------------- MODULE Requests_proofs ----------------------------
(***************************************************************************)
(* Proofs about Requests, for any callers, keys, commands, limits and      *)
(* faults: the server implements the promise of IdempotentRequests, its    *)
(* answers are true, and nothing is executed any more when the registries  *)
(* are shut down.                                                          *)
(*                                                                         *)
(* ClaimInv(c) relates the task of a claim, the effect of its command, its *)
(* operation and the result that was sent; Told(c, o) is what the result o *)
(* says of them, and stays true whatever is sent later. CallerInv(r) says  *)
(* that a caller waits on a claim of its own request, and that a claim     *)
(* that still has to be spawned has one caller who does it. ShutdownInv is *)
(* the chain of the shutdown: each of its phases leaves less that can run. *)
(***************************************************************************)
EXTENDS Requests, FiniteSetTheorems, TLAPS

TaskPcs == {"none", "spawned", "dispatch", "report", "deregister", "done"}
OperationPcs == {"none", "queued", "permit", "dispatch", "finish", "done"}

Types ==
    /\ made \in Seq(Keys \X Bodies)
    /\ record \in [Keys -> Nat]
    /\ result \in [Claims -> Outcomes \cup {"none"}]
    /\ admitted \subseteq Claims
    /\ task \in [Claims -> TaskPcs]
    /\ outcome \in [Claims -> Outcomes \cup {"none"}]
    /\ effect \in [Claims -> {"none", "begun", "ended"}]
    /\ otask \in [Claims -> OperationPcs]
    /\ pc \in [Callers -> {"new", "claim", "spawn", "wait", "done"}]
    /\ request \in [Callers -> (Keys \X Bodies) \cup {<<>>}]
    /\ claim \in [Callers -> Nat]
    /\ answer \in [Callers -> Answers]

\* Every caller makes at most one claim.
Claimed == {r \in Callers : pc[r] \in {"spawn", "wait", "done"}}
BoundInv == Len(made) <= Cardinality(Claimed)

\* Each key leads to a claim that was made with it.
KeyInv(k) == record[k] # 0 => record[k] \in DOMAIN made /\ made[record[k]][1] = k

\* What the result o says of claim c.
Told(c, o) ==
    /\ o = "ok" => effect[c] = "ended" /\ ~IsLong(c)
    /\ o = "accepted" => effect[c] = "ended" /\ otask[c] # "none"
    /\ o \in {"refused", "busy"} =>
          /\ effect[c] = "none" /\ task[c] \notin {"spawned", "dispatch"}
          /\ task[c] = "none" => result[c] = "refused"

ClaimInv(c) ==
    /\ c \notin DOMAIN made => task[c] = "none" /\ result[c] = "none"
    /\ task[c] = "none" =>
          /\ effect[c] = "none" /\ otask[c] = "none" /\ c \notin admitted
          /\ result[c] \in {"none", "refused"}
    /\ task[c] = "spawned" => effect[c] = "none" /\ otask[c] = "none"
    /\ task[c] = "dispatch" => effect[c] = "begun" /\ ~IsLong(c)
    /\ task[c] = "report" =>
          outcome[c] \in {"ok", "interrupted", "accepted", "busy"} /\ Told(c, outcome[c])
    /\ task[c] \in {"spawned", "dispatch", "report"} => result[c] \in {"none", "stopping"}
    /\ Told(c, result[c])
    /\ task[c] \notin {"none", "done"} => c \in admitted \cup aborted
    /\ otask[c] \notin {"none", "done"} => c \in oaborted \cup (operations \ Completed)
    /\ otask[c] = "none" => c \notin operations \cup Completed

CallerInv(r) ==
    /\ pc[r] = "claim" => request[r] \in Keys \X Bodies
    /\ pc[r] \in {"spawn", "wait"} \/ (pc[r] = "done" /\ answer[r] \in Outcomes) =>
          claim[r] \in DOMAIN made /\ made[claim[r]] = request[r]
    /\ pc[r] = "spawn" =>
          /\ task[claim[r]] = "none" /\ result[claim[r]] = "none"
          /\ \A q \in Callers : pc[q] = "spawn" /\ claim[q] = claim[r] => q = r
    /\ pc[r] = "done" /\ answer[r] \in Outcomes => Told(claim[r], answer[r])

ShutdownInv ==
    /\ phase # "up" => closed
    /\ phase \in {"draining", "drained", "aborting", "cleaning"} => admitted = {}
    /\ phase \in {"drained", "aborting", "cleaning"} /\ inTime =>
          \A c \in Claims : task[c] \in {"none", "done"}
    /\ phase \in {"aborting", "cleaning"} /\ inTime =>
          \A c \in Claims : otask[c] \notin {"none", "done"} => c \in oaborted
    /\ phase = "cleaning" /\ inTime => \A c \in Claims : otask[c] \in {"none", "done"}

\* The inductive invariant.
Inv ==
    /\ Types /\ BoundInv
    /\ \A k \in Keys : KeyInv(k)
    /\ \A c \in Claims : ClaimInv(c)
    /\ \A r \in Callers : CallerInv(r)
    /\ ShutdownInv

\* There is a result channel for every claim that is made.
LEMMA ClaimsFit ==
    ASSUME Inv
    PROVE  /\ IsFiniteSet(Claimed) /\ Cardinality(Claimed) \in Nat
           /\ Cardinality(Callers) \in Nat /\ Cardinality(Claimed) <= Cardinality(Callers)
           /\ Len(made) \in Nat /\ DOMAIN made = 1 .. Len(made) /\ DOMAIN made \subseteq Claims
<1>1. IsFiniteSet(Callers) /\ Claimed \subseteq Callers
    BY RequestsAssumption DEF Claimed
<1>2. /\ IsFiniteSet(Claimed) /\ Cardinality(Claimed) \in Nat
      /\ Cardinality(Callers) \in Nat /\ Cardinality(Claimed) <= Cardinality(Callers)
    BY <1>1, FS_Subset, FS_CardinalityType
<1>3. Len(made) \in Nat /\ DOMAIN made = 1 .. Len(made) /\ Len(made) <= Cardinality(Claimed)
    BY DEF Inv, Types, BoundInv
<1> QED
    BY <1>2, <1>3 DEF Claims

\* What a task may do to what was told of its claim: what has an effect keeps it,
\* and what was refused is never begun.
Advances(c) ==
    /\ effect'[c] = effect[c] \/ (task[c] \in {"spawned", "dispatch"} /\ effect[c] # "ended")
    /\ otask[c] # "none" => otask'[c] # "none"
    /\ task[c] = "none" => task'[c] = "none" /\ result'[c] = result[c]
    /\ task[c] \notin {"none", "spawned", "dispatch"} => task'[c] \notin {"none", "spawned", "dispatch"}

\* Callers are not affected by a step of the tasks or of the shutdown.
LEMMA CallersKept ==
    ASSUME Inv, UNCHANGED <<made, pc, request, claim, answer>>,
           \A c \in Claims : Advances(c),
           NEW r \in Callers
    PROVE  CallerInv(r)'
<1>1. CallerInv(r) /\ DOMAIN made \subseteq Claims
    BY ClaimsFit DEF Inv
<1>2. pc[r] = "done" /\ answer[r] \in Outcomes => Told(claim[r], answer[r])'
    <2>1. CASE pc[r] = "done" /\ answer[r] \in Outcomes
        <3>1. Told(claim[r], answer[r]) /\ claim[r] \in Claims
            BY <1>1, <2>1 DEF CallerInv
        <3> QED
            BY <3>1 DEF Told, Advances, IsLong
    <2> QED
        BY <2>1
<1>3. pc[r] = "spawn" => task'[claim[r]] = "none" /\ result'[claim[r]] = "none"
    BY <1>1 DEF CallerInv, Advances
<1> QED
    BY <1>1, <1>2, <1>3 DEF CallerInv

\* A claim is not affected by a step about others.
LEMMA ClaimFrame ==
    ASSUME NEW c \in Claims, ClaimInv(c), UNCHANGED made,
           UNCHANGED <<task[c], outcome[c], effect[c], otask[c], result[c]>>,
           c \in admitted' <=> c \in admitted, aborted \subseteq aborted',
           c \in oaborted \cup (operations \ Completed) => (c \in oaborted \cup (operations \ Completed))',
           (c \in operations \cup Completed)' => c \in operations \cup Completed
    PROVE  ClaimInv(c)'
BY DEF ClaimInv, Told, IsLong

\* What is left to show of a step of the task or of the operation of claim g.
LEMMA WorkKept ==
    ASSUME Inv, NEW g \in Claims,
           UNCHANGED <<made, record, pc, request, claim, answer, closed, aborted, oaborted, phase, inTime>>,
           task' \in [Claims -> TaskPcs], outcome' \in [Claims -> Outcomes \cup {"none"}],
           effect' \in [Claims -> {"none", "begun", "ended"}], otask' \in [Claims -> OperationPcs],
           result' \in [Claims -> Outcomes \cup {"none"}], admitted' \subseteq admitted,
           \A c \in Claims \ {g} :
              /\ task'[c] = task[c] /\ outcome'[c] = outcome[c] /\ effect'[c] = effect[c]
              /\ otask'[c] = otask[c] /\ result'[c] = result[c]
              /\ c \in admitted' <=> c \in admitted
              /\ c \in operations \ Completed => (c \in operations \ Completed)'
              /\ (c \in operations \cup Completed)' => c \in operations \cup Completed,
           Advances(g), ClaimInv(g)',
           task[g] \in {"none", "done"} => task'[g] \in {"none", "done"},
           task[g] \in {"none", "done"} /\ otask[g] \in {"none", "done"} => otask'[g] \in {"none", "done"}
    PROVE  Inv'
<1>1. Types'
    BY DEF Inv, Types
<1>2. BoundInv'
    BY DEF Inv, BoundInv, Claimed
<1>3. ASSUME NEW k \in Keys PROVE KeyInv(k)'
    BY DEF Inv, KeyInv
<1>4. ASSUME NEW c \in Claims PROVE ClaimInv(c)'
    <2>1. CASE c # g
        BY <2>1, ClaimFrame DEF Inv
    <2> QED
        BY <2>1
<1>5. ASSUME NEW c \in Claims PROVE Advances(c)
    BY DEF Advances
<1>6. ASSUME NEW r \in Callers PROVE CallerInv(r)'
    BY <1>5, CallersKept
<1>7. ShutdownInv'
    BY DEF Inv, ShutdownInv
<1> QED
    BY <1>1, <1>2, <1>3, <1>4, <1>6, <1>7 DEF Inv

-----------------------------------------------------------------------------
(* The task of a claim.                                                    *)

\* A short command is begun.
LEMMA DispatchStep ==
    ASSUME Inv, NEW g \in Claims, Dispatch(g)
    PROVE  Inv'
<1>0. Types /\ ClaimInv(g) /\ task[g] = "spawned" /\ ~IsLong(g)
    BY DEF Inv, Dispatch
<1>u. UNCHANGED <<made, record, result, closed, admitted, aborted, outcome, operations, completed,
                  otask, oaborted, phase, inTime, pc, request, claim, answer>>
    BY DEF Dispatch, requestVars, operationVars, serviceVars, callerVars
<1>1. /\ task' \in [Claims -> TaskPcs] /\ task'[g] = "dispatch"
      /\ effect' \in [Claims -> {"none", "begun", "ended"}] /\ effect'[g] = "begun"
      /\ \A c \in Claims \ {g} : task'[c] = task[c] /\ effect'[c] = effect[c]
    BY <1>0 DEF Types, TaskPcs, Dispatch
<1>2. Advances(g)
    BY <1>0, <1>u, <1>1 DEF Advances, ClaimInv
<1>3. ClaimInv(g)'
    BY <1>0, <1>u, <1>1 DEF ClaimInv, Told, IsLong, Completed
<1> QED
    BY <1>0, <1>u, <1>1, <1>2, <1>3, WorkKept DEF Types, Completed

\* The task has an outcome.
LEMMA ReportsFacts ==
    ASSUME Types, NEW g \in Claims, NEW o \in Outcomes, TaskReports(g, o)
    PROVE  /\ task' \in [Claims -> TaskPcs] /\ task'[g] = "report"
           /\ outcome' \in [Claims -> Outcomes \cup {"none"}] /\ outcome'[g] = o
           /\ \A c \in Claims \ {g} : task'[c] = task[c] /\ outcome'[c] = outcome[c]
BY DEF Types, TaskPcs, TaskReports

\* A short command returns: its effect has ended before success is reported.
LEMMA DispatchEndsStep ==
    ASSUME Inv, NEW g \in Claims, DispatchEnds(g)
    PROVE  Inv'
<1>0. Types /\ ClaimInv(g) /\ task[g] = "dispatch"
    BY DEF Inv, DispatchEnds
<1>u. UNCHANGED <<made, record, result, closed, admitted, aborted, operations, completed,
                  otask, oaborted, phase, inTime, pc, request, claim, answer>>
    BY DEF DispatchEnds, requestVars, operationVars, serviceVars, callerVars
<1>1. /\ task' \in [Claims -> TaskPcs] /\ task'[g] = "report"
      /\ outcome' \in [Claims -> Outcomes \cup {"none"}] /\ outcome'[g] = "ok"
      /\ \A c \in Claims \ {g} : task'[c] = task[c] /\ outcome'[c] = outcome[c]
    BY <1>0, ReportsFacts DEF DispatchEnds, Outcomes
<1>2. /\ effect' \in [Claims -> {"none", "begun", "ended"}] /\ effect'[g] = "ended"
      /\ \A c \in Claims \ {g} : effect'[c] = effect[c]
    BY <1>0 DEF Types, DispatchEnds
<1>3. Advances(g)
    BY <1>0, <1>u, <1>1, <1>2 DEF Advances, ClaimInv
<1>4. ClaimInv(g)'
    BY <1>0, <1>u, <1>1, <1>2 DEF ClaimInv, Told, IsLong, Completed
<1> QED
    BY <1>0, <1>u, <1>1, <1>2, <1>3, <1>4, WorkKept DEF Types, Completed

\* It panics: nothing certain is going to be reported.
LEMMA DispatchPanicsStep ==
    ASSUME Inv, NEW g \in Claims, DispatchPanics(g)
    PROVE  Inv'
<1>0. Types /\ ClaimInv(g) /\ task[g] = "dispatch"
    BY DEF Inv, DispatchPanics
<1>u. UNCHANGED <<made, record, result, closed, admitted, aborted, effect, operations, completed,
                  otask, oaborted, phase, inTime, pc, request, claim, answer>>
    BY DEF DispatchPanics, requestVars, operationVars, serviceVars, callerVars
<1>1. /\ task' \in [Claims -> TaskPcs] /\ task'[g] = "report"
      /\ outcome' \in [Claims -> Outcomes \cup {"none"}] /\ outcome'[g] = "interrupted"
      /\ \A c \in Claims \ {g} : task'[c] = task[c] /\ outcome'[c] = outcome[c]
    BY <1>0, ReportsFacts DEF DispatchPanics, Outcomes
<1>2. Advances(g)
    BY <1>0, <1>u, <1>1 DEF Advances
<1>3. ClaimInv(g)'
    BY <1>0, <1>u, <1>1 DEF ClaimInv, Told, IsLong, Completed
<1> QED
    BY <1>0, <1>u, <1>1, <1>2, <1>3, WorkKept DEF Types, Completed

\* An operation that finds no room has no effect.
LEMMA OperationRefusedStep ==
    ASSUME Inv, NEW g \in Claims, OperationRefused(g)
    PROVE  Inv'
<1>0. Types /\ ClaimInv(g) /\ task[g] = "spawned"
    BY DEF Inv, OperationRefused
<1>u. UNCHANGED <<made, record, result, closed, admitted, aborted, effect, operations, completed,
                  otask, oaborted, phase, inTime, pc, request, claim, answer>>
    BY DEF OperationRefused, requestVars, operationVars, serviceVars, callerVars
<1>1. /\ task' \in [Claims -> TaskPcs] /\ task'[g] = "report"
      /\ outcome' \in [Claims -> Outcomes \cup {"none"}] /\ outcome'[g] = "busy"
      /\ \A c \in Claims \ {g} : task'[c] = task[c] /\ outcome'[c] = outcome[c]
    BY <1>0, ReportsFacts DEF OperationRefused, Outcomes
<1>2. Advances(g)
    BY <1>0, <1>u, <1>1 DEF Advances
<1>3. ClaimInv(g)'
    BY <1>0, <1>u, <1>1 DEF ClaimInv, Told, IsLong, Completed
<1> QED
    BY <1>0, <1>u, <1>1, <1>2, <1>3, WorkKept DEF Types, Completed

\* A new operation is registered; those that are pruned have completed.
LEMMA StartOperationStep ==
    ASSUME Inv, NEW g \in Claims, StartOperation(g)
    PROVE  Inv'
<1>0. Types /\ ClaimInv(g) /\ task[g] = "spawned"
    BY DEF Inv, StartOperation
<1>u. UNCHANGED <<made, record, result, closed, admitted, aborted, oaborted, phase, inTime,
                  pc, request, claim, answer>>
    BY DEF StartOperation, requestVars, serviceVars, callerVars
<1>1. /\ task' \in [Claims -> TaskPcs] /\ task'[g] = "report"
      /\ outcome' \in [Claims -> Outcomes \cup {"none"}] /\ outcome'[g] = "accepted"
      /\ \A c \in Claims \ {g} : task'[c] = task[c] /\ outcome'[c] = outcome[c]
    BY <1>0, ReportsFacts DEF StartOperation, Outcomes
<1>2. /\ effect' \in [Claims -> {"none", "begun", "ended"}] /\ effect'[g] = "ended"
      /\ otask' \in [Claims -> OperationPcs] /\ otask'[g] = "queued"
      /\ \A c \in Claims \ {g} : effect'[c] = effect[c] /\ otask'[c] = otask[c]
    BY <1>0 DEF Types, StartOperation, OperationPcs
<1>3. PICK old \in SUBSET Completed :
         /\ operations' = (operations \ old) \cup {g}
         /\ completed' = [d \in Claims |-> IF d \in old THEN 0 ELSE completed[d]]
    BY DEF StartOperation
<1>4. \A c \in Claims \ {g} : c \in operations \ Completed => (c \in operations \ Completed)'
    BY <1>3 DEF Completed
<1>5. \A c \in Claims \ {g} : (c \in operations \cup Completed)' => c \in operations \cup Completed
    BY <1>3 DEF Completed
<1>6. Advances(g)
    BY <1>0, <1>u, <1>1, <1>2 DEF Advances, ClaimInv
<1>7. ClaimInv(g)'
    <2>1. (g \in operations \ Completed)'
        BY <1>0, <1>3 DEF ClaimInv, Completed
    <2> QED
        BY <1>0, <1>u, <1>1, <1>2, <2>1 DEF ClaimInv, Told, IsLong
<1> QED
    BY <1>0, <1>u, <1>1, <1>2, <1>4, <1>5, <1>6, <1>7, WorkKept DEF Types

\* The result is sent; it is the outcome of the command.
LEMMA ReportStep ==
    ASSUME Inv, NEW g \in Claims, Report(g)
    PROVE  Inv'
<1>0. Types /\ ClaimInv(g) /\ task[g] = "report"
    BY DEF Inv, Report
<1>u. UNCHANGED <<made, record, closed, admitted, aborted, outcome, effect, operations, completed,
                  otask, oaborted, phase, inTime, pc, request, claim, answer>>
    BY DEF Report, requestVars, operationVars, serviceVars, callerVars
<1>1. /\ task' \in [Claims -> TaskPcs] /\ task'[g] = "deregister"
      /\ result' \in [Claims -> Outcomes \cup {"none"}] /\ result'[g] = outcome[g]
      /\ \A c \in Claims \ {g} : task'[c] = task[c] /\ result'[c] = result[c]
    BY <1>0 DEF Types, TaskPcs, Report
<1>2. Advances(g)
    BY <1>0, <1>u, <1>1 DEF Advances
<1>3. ClaimInv(g)'
    BY <1>0, <1>u, <1>1 DEF ClaimInv, Told, IsLong, Completed
<1> QED
    BY <1>0, <1>u, <1>1, <1>2, <1>3, WorkKept DEF Types, Completed

\* The task ends: it removes itself, or it was aborted and is dropped.
LEMMA TaskEndsStep ==
    ASSUME Inv, NEW g \in Claims, Deregister(g) \/ TaskDropped(g)
    PROVE  Inv'
<1>0. Types /\ ClaimInv(g) /\ task[g] \in {"spawned", "dispatch", "deregister"}
    BY DEF Inv, Deregister, TaskDropped
<1>u. UNCHANGED <<made, record, result, closed, aborted, outcome, effect, operations, completed,
                  otask, oaborted, phase, inTime, pc, request, claim, answer>>
    BY DEF Deregister, TaskDropped, requestVars, operationVars, serviceVars, callerVars
<1>1. /\ task' \in [Claims -> TaskPcs] /\ task'[g] = "done"
      /\ \A c \in Claims \ {g} : task'[c] = task[c]
      /\ admitted' \subseteq admitted
      /\ \A c \in Claims \ {g} : c \in admitted' <=> c \in admitted
    BY <1>0 DEF Types, TaskPcs, Deregister, TaskDropped
<1>2. Advances(g)
    BY <1>0, <1>u, <1>1 DEF Advances
<1>3. ClaimInv(g)'
    BY <1>0, <1>u, <1>1 DEF ClaimInv, Told, IsLong, Completed
<1> QED
    BY <1>0, <1>u, <1>1, <1>2, <1>3, WorkKept DEF Types, Completed

-----------------------------------------------------------------------------
(* The task of an operation.                                               *)

\* The operation waits, works or is dropped; its record stays as it is.
LEMMA OperationWorks ==
    ASSUME Inv, NEW g \in Claims,
           TakePermit(g) \/ OperationBegins(g) \/ OperationEnds(g) \/ OperationDropped(g)
    PROVE  Inv'
<1>0. Types /\ ClaimInv(g) /\ otask[g] \notin {"none", "done"}
    BY DEF Inv, TakePermit, OperationBegins, OperationEnds, OperationDropped
<1>u. UNCHANGED <<made, record, result, closed, admitted, aborted, task, outcome, effect,
                  operations, completed, oaborted, phase, inTime, pc, request, claim, answer>>
    BY DEF TakePermit, OperationBegins, OperationEnds, OperationDropped, requestVars, taskVars,
           serviceVars, callerVars
<1>1. /\ otask' \in [Claims -> OperationPcs] /\ otask'[g] # "none"
      /\ \A c \in Claims \ {g} : otask'[c] = otask[c]
    BY <1>0 DEF Types, OperationPcs, TakePermit, OperationBegins, OperationEnds, OperationDropped
<1>2. Advances(g)
    BY <1>0, <1>u, <1>1 DEF Advances
<1>3. ClaimInv(g)'
    BY <1>0, <1>u, <1>1 DEF ClaimInv, Told, IsLong, Completed
<1> QED
    BY <1>0, <1>u, <1>1, <1>2, <1>3, WorkKept DEF Types, Completed

\* Only the operations cs get a new time of completion.
LEMMA CompletesFacts ==
    ASSUME NEW cs \in SUBSET Claims, Completes(cs)
    PROVE  Completed' \subseteq Completed \cup cs
BY DEF Completes, Completed

\* An operation that completes has no task any more.
LEMMA OperationFinishesStep ==
    ASSUME Inv, NEW g \in Claims, NEW s, NEW size, OperationFinishes(g, s, size)
    PROVE  Inv'
<1>0. Types /\ ClaimInv(g) /\ otask[g] = "finish"
    BY DEF Inv, OperationFinishes
<1>u. UNCHANGED <<made, record, result, closed, admitted, aborted, task, outcome, effect,
                  operations, oaborted, phase, inTime, pc, request, claim, answer>>
    BY DEF OperationFinishes, requestVars, taskVars, serviceVars, callerVars
<1>1. /\ otask' \in [Claims -> OperationPcs] /\ otask'[g] = "done"
      /\ \A c \in Claims \ {g} : otask'[c] = otask[c]
    BY <1>0 DEF Types, OperationPcs, OperationFinishes
<1>2. \A c \in Claims \ {g} : c \in Completed' => c \in Completed
    <2>1. Completes({g}) \/ UNCHANGED completed
        BY DEF OperationFinishes
    <2> QED
        BY <2>1, CompletesFacts DEF Completed
<1>3. Advances(g)
    BY <1>0, <1>u, <1>1 DEF Advances
<1>4. ClaimInv(g)'
    BY <1>0, <1>u, <1>1 DEF ClaimInv, Told, IsLong
<1> QED
    BY <1>0, <1>u, <1>1, <1>2, <1>3, <1>4, WorkKept DEF Types

-----------------------------------------------------------------------------
(* The handler of a caller.                                                *)

\* More callers that have claimed leave room for more claims.
LEMMA BoundKept ==
    ASSUME Inv, Claimed \subseteq Claimed', UNCHANGED made
    PROVE  BoundInv'
<1>1. IsFiniteSet(Claimed')
    <2>1. IsFiniteSet(Callers) /\ Claimed' \subseteq Callers
        BY RequestsAssumption DEF Claimed
    <2> QED
        BY <2>1, FS_Subset
<1>2. Cardinality(Claimed) <= Cardinality(Claimed') /\ Cardinality(Claimed') \in Nat
    BY <1>1, FS_Subset, FS_CardinalityType
<1> QED
    BY <1>2, ClaimsFit DEF Inv, BoundInv

\* What is left to show of a step of caller r that no task notices.
LEMMA CallerKept ==
    ASSUME Inv, NEW r \in Callers,
           UNCHANGED <<made, result, admitted, aborted, task, outcome, effect, otask, oaborted,
                       operations, completed, closed, phase, inTime>>,
           pc' \in [Callers -> {"new", "claim", "spawn", "wait", "done"}],
           request' \in [Callers -> (Keys \X Bodies) \cup {<<>>}],
           claim' \in [Callers -> Nat], answer' \in [Callers -> Answers],
           record' \in [Keys -> Nat], \A k \in Keys : record'[k] \in {0, record[k]},
           \A q \in Callers \ {r} : /\ pc'[q] = pc[q] /\ request'[q] = request[q]
                                    /\ claim'[q] = claim[q] /\ answer'[q] = answer[q],
           pc'[r] # "spawn", pc[r] \in {"spawn", "wait", "done"} => pc'[r] \in {"spawn", "wait", "done"},
           CallerInv(r)'
    PROVE  Inv'
<1>1. Types'
    BY DEF Inv, Types
<1>2. BoundInv'
    BY BoundKept DEF Claimed
<1>3. ASSUME NEW k \in Keys PROVE KeyInv(k)'
    BY DEF Inv, KeyInv
<1>4. ASSUME NEW c \in Claims PROVE ClaimInv(c)'
    BY ClaimFrame DEF Inv, Completed
<1>5. ASSUME NEW q \in Callers PROVE CallerInv(q)'
    <2>1. CASE q # r
        <3>1. CallerInv(q) /\ pc'[q] = pc[q] /\ request'[q] = request[q]
              /\ claim'[q] = claim[q] /\ answer'[q] = answer[q]
            BY <2>1 DEF Inv
        <3>2. Told(claim[q], answer[q]) => Told(claim[q], answer[q])'
            BY <3>1 DEF Told, IsLong
        <3>3. ASSUME NEW p \in Callers, pc[q] = "spawn", pc'[p] = "spawn", claim'[p] = claim'[q]
              PROVE  p = q
            BY <3>1, <3>3 DEF CallerInv
        <3> QED
            BY <3>1, <3>2, <3>3 DEF CallerInv
    <2> QED
        BY <2>1
<1>6. ShutdownInv'
    BY DEF Inv, ShutdownInv
<1> QED
    BY <1>1, <1>2, <1>3, <1>4, <1>5, <1>6 DEF Inv

\* A request arrives; it has no claim yet.
LEMMA SubmitStep ==
    ASSUME Inv, NEW r \in Callers, NEW k \in Keys, NEW b \in Bodies, Submit(r, k, b)
    PROVE  Inv'
<1>0. Types /\ pc[r] = "new"
    BY DEF Inv, Submit
<1>u. UNCHANGED <<made, record, result, admitted, aborted, task, outcome, effect, otask, oaborted,
                  operations, completed, closed, phase, inTime, claim, answer>>
    BY DEF Submit, requestVars, taskVars, operationVars, serviceVars
<1>1. /\ pc' \in [Callers -> {"new", "claim", "spawn", "wait", "done"}] /\ pc'[r] = "claim"
      /\ request' \in [Callers -> (Keys \X Bodies) \cup {<<>>}] /\ request'[r] = <<k, b>>
      /\ \A q \in Callers \ {r} : pc'[q] = pc[q] /\ request'[q] = request[q]
    BY <1>0 DEF Types, Submit
<1>2. CallerInv(r)'
    BY <1>1 DEF CallerInv
<1> QED
    BY <1>0, <1>u, <1>1, <1>2, CallerKept DEF Types

\* Claims are only dropped, and only when they have a result.
LEMMA RetainedFacts ==
    ASSUME Types
    PROVE  Retained \in [Keys -> Nat]
           /\ \A k \in Keys : \/ Retained[k] = record[k]
                              \/ Retained[k] = 0 /\ result[record[k]] # "none"
BY DEF Types, Retained

\* The caller joins a claim only when the claim was made with its own key and body.
LEMMA ClaimExistingStep ==
    ASSUME Inv, NEW r \in Callers, ClaimExisting(r)
    PROVE  Inv'
<1>0. Types /\ CallerInv(r) /\ pc[r] = "claim" /\ request[r] \in Keys \X Bodies
    BY DEF Inv, CallerInv, ClaimExisting
<1>u. UNCHANGED <<made, result, admitted, aborted, task, outcome, effect, otask, oaborted,
                  operations, completed, closed, phase, inTime, request>>
    BY DEF ClaimExisting, taskVars, operationVars, serviceVars
<1>k. PICK k \in Keys : k = request[r][1]
    BY <1>0
<1>1. /\ record' = Retained /\ record' \in [Keys -> Nat] /\ record'[k] # 0
      /\ \A h \in Keys : record'[h] \in {0, record[h]}
    BY <1>0, <1>k, RetainedFacts DEF ClaimExisting
<1>2. CASE /\ made[Retained[k]] = request[r]
           /\ claim' = [claim EXCEPT ![r] = Retained[k]]
           /\ pc' = [pc EXCEPT ![r] = "wait"]
           /\ UNCHANGED answer
    <2>1. /\ pc' \in [Callers -> {"new", "claim", "spawn", "wait", "done"}] /\ pc'[r] = "wait"
          /\ claim' \in [Callers -> Nat] /\ claim'[r] = record'[k]
          /\ \A q \in Callers \ {r} : pc'[q] = pc[q] /\ claim'[q] = claim[q]
        BY <1>0, <1>1, <1>2 DEF Types
    <2>2. CallerInv(r)'
        BY <1>0, <1>1, <1>2, <1>u, <2>1 DEF CallerInv, Inv, KeyInv
    <2> QED
        BY <1>0, <1>u, <1>1, <1>2, <2>1, <2>2, CallerKept DEF Types
<1>3. CASE Respond(r, "conflict") /\ UNCHANGED claim
    <2>1. /\ pc' \in [Callers -> {"new", "claim", "spawn", "wait", "done"}] /\ pc'[r] = "done"
          /\ answer' \in [Callers -> Answers] /\ answer'[r] = "conflict"
          /\ \A q \in Callers \ {r} : pc'[q] = pc[q] /\ answer'[q] = answer[q]
        BY <1>0, <1>3 DEF Types, Respond, Answers
    <2>2. CallerInv(r)'
        BY <2>1 DEF CallerInv, Outcomes
    <2> QED
        BY <1>0, <1>u, <1>1, <1>3, <2>1, <2>2, CallerKept DEF Types
<1> QED
    BY <1>k, <1>2, <1>3 DEF ClaimExisting

\* The caller is told what was sent for the claim it waits on.
LEMMA ReceiveStep ==
    ASSUME Inv, NEW r \in Callers, Receive(r)
    PROVE  Inv'
<1>0. /\ Types /\ CallerInv(r) /\ pc[r] = "wait" /\ result[claim[r]] # "none"
      /\ claim[r] \in Claims /\ ClaimInv(claim[r])
    BY ClaimsFit DEF Inv, CallerInv, Receive
<1>u. UNCHANGED <<made, record, result, admitted, aborted, task, outcome, effect, otask, oaborted,
                  operations, completed, closed, phase, inTime, request, claim>>
    BY DEF Receive, requestVars, taskVars, operationVars, serviceVars
<1>1. /\ pc' \in [Callers -> {"new", "claim", "spawn", "wait", "done"}] /\ pc'[r] = "done"
      /\ answer' \in [Callers -> Answers] /\ answer'[r] = result[claim[r]]
      /\ \A q \in Callers \ {r} : pc'[q] = pc[q] /\ answer'[q] = answer[q]
    BY <1>0 DEF Types, Receive, Respond, Answers
<1>2. CallerInv(r)'
    BY <1>0, <1>u, <1>1 DEF CallerInv, ClaimInv, Told, IsLong
<1> QED
    BY <1>0, <1>u, <1>1, <1>2, CallerKept DEF Types

\* A caller that goes away is told nothing.
LEMMA DisconnectStep ==
    ASSUME Inv, NEW r \in Callers, Disconnect(r)
    PROVE  Inv'
<1>0. Types /\ pc[r] = "wait"
    BY DEF Inv, Disconnect
<1>u. UNCHANGED <<made, record, result, admitted, aborted, task, outcome, effect, otask, oaborted,
                  operations, completed, closed, phase, inTime>>
    BY DEF Disconnect, requestVars, taskVars, operationVars, serviceVars
<1>1. /\ pc' \in [Callers -> {"new", "claim", "spawn", "wait", "done"}] /\ pc'[r] = "done"
      /\ answer' \in [Callers -> Answers] /\ answer'[r] = "lost"
      /\ request' \in [Callers -> (Keys \X Bodies) \cup {<<>>}] /\ claim' \in [Callers -> Nat]
      /\ \A q \in Callers \ {r} : /\ pc'[q] = pc[q] /\ request'[q] = request[q]
                                  /\ claim'[q] = claim[q] /\ answer'[q] = answer[q]
    BY <1>0 DEF Types, Disconnect, Respond, Answers
<1>2. CallerInv(r)'
    BY <1>1 DEF CallerInv, Outcomes
<1> QED
    BY <1>0, <1>u, <1>1, <1>2, CallerKept DEF Types

\* A caller that has not claimed yet leaves a result channel for its claim.
LEMMA ChannelLeft ==
    ASSUME Inv, NEW r \in Callers, pc[r] = "claim"
    PROVE  /\ Len(made) + 1 \in Claims
           /\ Len(made) + 1 <= Cardinality(Claimed \cup {r})
<1>1. r \notin Claimed
    BY DEF Claimed
<1>2. Cardinality(Claimed \cup {r}) = Cardinality(Claimed) + 1
    BY <1>1, ClaimsFit, FS_AddElement
<1>3. Cardinality(Claimed \cup {r}) <= Cardinality(Callers)
    <2>1. Claimed \cup {r} \subseteq Callers /\ IsFiniteSet(Callers)
        BY RequestsAssumption DEF Claimed
    <2> QED
        BY <2>1, FS_Subset
<1> QED
    BY <1>2, <1>3, ClaimsFit DEF Inv, BoundInv, Claims

\* A new claim is made: it has a result channel of its own, and no task yet.
LEMMA ClaimNewStep ==
    ASSUME Inv, NEW r \in Callers, ClaimNew(r)
    PROVE  Inv'
<1>0. Types /\ CallerInv(r) /\ pc[r] = "claim" /\ request[r] \in Keys \X Bodies
    BY DEF Inv, CallerInv, ClaimNew
<1>u. UNCHANGED <<result, admitted, aborted, task, outcome, effect, otask, oaborted,
                  operations, completed, closed, phase, inTime, request>>
    BY DEF ClaimNew, taskVars, operationVars, serviceVars
<1>k. PICK k \in Keys : k = request[r][1]
    BY <1>0
<1>c. PICK c \in Nat : c = Len(made) + 1
    BY ClaimsFit
<1>1. Retained \in [Keys -> Nat] /\ \A h \in Keys : Retained[h] \in {0, record[h]}
    BY <1>0, RetainedFacts
<1>2. CASE /\ made' = Append(made, request[r])
           /\ record' = [Retained EXCEPT ![k] = c]
           /\ claim' = [claim EXCEPT ![r] = c]
           /\ pc' = [pc EXCEPT ![r] = "spawn"]
           /\ UNCHANGED answer
    <2>1. /\ made' \in Seq(Keys \X Bodies) /\ Len(made') = c
          /\ DOMAIN made' = DOMAIN made \cup {c} /\ c \notin DOMAIN made /\ c # 0
          /\ made'[c] = request[r] /\ \A d \in DOMAIN made : made'[d] = made[d]
        BY <1>0, <1>2, <1>c DEF Types
    <2>2. /\ pc' \in [Callers -> {"new", "claim", "spawn", "wait", "done"}] /\ pc'[r] = "spawn"
          /\ claim' \in [Callers -> Nat] /\ claim'[r] = c
          /\ \A q \in Callers \ {r} : pc'[q] = pc[q] /\ claim'[q] = claim[q]
        BY <1>0, <1>2 DEF Types
    <2>3. record' \in [Keys -> Nat] /\ record'[k] = c /\ \A h \in Keys \ {k} : record'[h] \in {0, record[h]}
        BY <1>1, <1>2
    <2>4. Types'
        BY <1>0, <1>u, <1>2, <2>1, <2>2, <2>3 DEF Types
    <2>5. BoundInv' /\ c \in Claims
        <3>1. Claimed' = Claimed \cup {r}
            BY <1>0, <2>2 DEF Claimed
        <3> QED
            BY <1>0, <1>c, <2>1, <3>1, ChannelLeft DEF BoundInv
    <2>6. ASSUME NEW h \in Keys PROVE KeyInv(h)'
        BY <1>k, <2>1, <2>3 DEF Inv, KeyInv
    <2>7. ASSUME NEW d \in Claims PROVE ClaimInv(d)'
        BY <1>u, <2>1 DEF Inv, ClaimInv, Told, IsLong, Completed
    <2>8. CallerInv(r)'
        <3>1. task[c] = "none" /\ result[c] = "none"
            BY <2>1, <2>5 DEF Inv, ClaimInv
        <3>2. ASSUME NEW q \in Callers, pc'[q] = "spawn", claim'[q] = claim'[r] PROVE q = r
            BY <2>1, <2>2, <3>2 DEF Inv, CallerInv
        <3> QED
            BY <1>u, <2>1, <2>2, <3>1, <3>2 DEF CallerInv
    <2>9. ASSUME NEW q \in Callers PROVE CallerInv(q)'
        <3>1. CASE q = r
            BY <2>8, <3>1
        <3>2. CASE q # r
            <4>1. CallerInv(q) /\ pc'[q] = pc[q] /\ claim'[q] = claim[q]
                BY <2>2, <3>2 DEF Inv
            <4>2. claim[q] \in DOMAIN made /\ Told(claim[q], answer[q]) => Told(claim[q], answer[q])'
                BY <1>u, <1>2, <2>1, <4>1 DEF Told, IsLong
            <4>3. ASSUME NEW p \in Callers, pc[q] = "spawn", pc'[p] = "spawn", claim'[p] = claim'[q]
                  PROVE  p = q
                BY <2>1, <2>2, <4>1, <4>3 DEF CallerInv
            <4>4. pc[q] \in {"spawn", "wait"} \/ (pc[q] = "done" /\ answer[q] \in Outcomes)
                     => claim[q] \in DOMAIN made' /\ made'[claim[q]] = request[q]
                BY <2>1, <4>1 DEF CallerInv
            <4>5. pc[q] = "done" /\ answer[q] \in Outcomes => Told(claim[q], answer[q])'
                BY <4>1, <4>2 DEF CallerInv
            <4> QED
                BY <1>u, <1>2, <4>1, <4>3, <4>4, <4>5 DEF CallerInv
        <3> QED
            BY <3>1, <3>2
    <2>10. ShutdownInv'
        BY <1>u DEF Inv, ShutdownInv
    <2> QED
        BY <2>4, <2>5, <2>6, <2>7, <2>9, <2>10 DEF Inv
<1>3. CASE record' = Retained /\ Respond(r, "limit") /\ UNCHANGED <<made, claim>>
    <2>1. /\ pc' \in [Callers -> {"new", "claim", "spawn", "wait", "done"}] /\ pc'[r] = "done"
          /\ answer' \in [Callers -> Answers] /\ answer'[r] = "limit"
          /\ \A q \in Callers \ {r} : pc'[q] = pc[q] /\ answer'[q] = answer[q]
        BY <1>0, <1>3 DEF Types, Respond, Answers
    <2>2. CallerInv(r)'
        BY <2>1 DEF CallerInv, Outcomes
    <2> QED
        BY <1>0, <1>u, <1>1, <1>3, <2>1, <2>2, CallerKept DEF Types
<1> QED
    BY <1>k, <1>c, <1>2, <1>3 DEF ClaimNew

\* The caller that made a claim is the one to spawn its task.
LEMMA SpawnerFacts ==
    ASSUME Inv, NEW r \in Callers, pc[r] = "spawn"
    PROVE  /\ claim[r] \in Claims /\ claim[r] \in DOMAIN made /\ made[claim[r]] = request[r]
           /\ ClaimInv(claim[r]) /\ task[claim[r]] = "none" /\ result[claim[r]] = "none"
           /\ \A q \in Callers \ {r} : pc[q] = "spawn" => claim[q] # claim[r]
BY ClaimsFit DEF Inv, CallerInv

\* What is left to show of the step of a caller that spawns the task of claim g, or
\* fails to.
LEMMA SpawnerKept ==
    ASSUME Inv, NEW r \in Callers, pc[r] = "spawn", NEW g \in Claims, g = claim[r],
           UNCHANGED <<made, record, request, claim, aborted, outcome, effect, otask, oaborted,
                       operations, completed, closed, phase, inTime>>,
           pc' \in [Callers -> {"new", "claim", "spawn", "wait", "done"}],
           answer' \in [Callers -> Answers], pc'[r] \in {"wait", "done"},
           \A q \in Callers \ {r} : pc'[q] = pc[q] /\ answer'[q] = answer[q],
           task' \in [Claims -> TaskPcs], result' \in [Claims -> Outcomes \cup {"none"}],
           \A c \in Claims \ {g} : /\ task'[c] = task[c] /\ result'[c] = result[c]
                                   /\ c \in admitted' <=> c \in admitted,
           admitted \subseteq admitted', admitted' \subseteq Claims,
           task'[g] = "none" \/ ~closed, admitted' = admitted \/ ~closed,
           ClaimInv(g)', pc'[r] = "done" => Told(g, answer[r])',
           result'[g] \in {"none", "refused"}
    PROVE  Inv'
<1>1. Types'
    BY DEF Inv, Types
<1>2. BoundInv'
    BY BoundKept DEF Claimed
<1>3. ASSUME NEW k \in Keys PROVE KeyInv(k)'
    BY DEF Inv, KeyInv
<1>4. ASSUME NEW c \in Claims PROVE ClaimInv(c)'
    <2>1. CASE c # g
        BY <2>1, ClaimFrame DEF Inv, Completed
    <2> QED
        BY <2>1
<1>5. CallerInv(r)'
    BY SpawnerFacts DEF CallerInv
<1>6. ASSUME NEW q \in Callers \ {r} PROVE CallerInv(q)'
    <2>1. CallerInv(q) /\ pc'[q] = pc[q] /\ answer'[q] = answer[q] /\ DOMAIN made \subseteq Claims
        BY ClaimsFit DEF Inv
    <2>2. pc[q] = "done" /\ answer[q] \in Outcomes => Told(claim[q], answer[q])'
        <3>1. CASE claim[q] = g
            BY <2>1, <3>1, SpawnerFacts DEF CallerInv, ClaimInv, Told
        <3>2. CASE claim[q] # g
            BY <2>1, <3>2 DEF CallerInv, Told, IsLong
        <3> QED
            BY <3>1, <3>2
    <2>3. pc[q] = "spawn" => claim[q] # g /\ claim[q] \in Claims
        BY SpawnerFacts
    <2>4. ASSUME NEW p \in Callers, pc[q] = "spawn", pc'[p] = "spawn", claim[p] = claim[q]
          PROVE  p = q
        BY <2>1, <2>4 DEF CallerInv
    <2> QED
        BY <2>1, <2>2, <2>3, <2>4 DEF CallerInv
<1>7. ShutdownInv'
    <2>1. closed => \A c \in Claims : task'[c] = task[c]
        BY SpawnerFacts
    <2> QED
        BY <2>1 DEF Inv, ShutdownInv
<1> QED
    BY <1>1, <1>2, <1>3, <1>4, <1>5, <1>6, <1>7 DEF Inv

\* A refused claim never gets a task, since its only spawner is done with it.
LEMMA SpawnRefusedStep ==
    ASSUME Inv, NEW r \in Callers, SpawnRefused(r)
    PROVE  Inv'
<1>g. PICK g \in Claims : g = claim[r]
    BY SpawnerFacts DEF SpawnRefused
<1>0. Types /\ pc[r] = "spawn" /\ ClaimInv(g) /\ task[g] = "none" /\ result[g] = "none" /\ g \in DOMAIN made
    BY <1>g, SpawnerFacts DEF Inv, SpawnRefused
<1>u. UNCHANGED <<made, record, request, claim, closed, admitted, aborted, task, outcome, effect, otask,
                  oaborted, operations, completed, phase, inTime>>
    BY DEF SpawnRefused, requestVars, taskVars, operationVars, serviceVars
<1>1. /\ pc' \in [Callers -> {"new", "claim", "spawn", "wait", "done"}] /\ pc'[r] = "done"
      /\ answer' \in [Callers -> Answers] /\ answer'[r] = "refused"
      /\ \A q \in Callers \ {r} : pc'[q] = pc[q] /\ answer'[q] = answer[q]
    BY <1>0 DEF Types, SpawnRefused, Respond, Answers, Outcomes
<1>2. /\ result' \in [Claims -> Outcomes \cup {"none"}] /\ result'[g] = "refused"
      /\ \A c \in Claims \ {g} : result'[c] = result[c]
    BY <1>g, <1>0 DEF Types, SpawnRefused, Outcomes
<1>3. ClaimInv(g)' /\ Told(g, answer[r])'
    BY <1>0, <1>u, <1>1, <1>2 DEF ClaimInv, Told, Completed
<1> QED
    BY <1>g, <1>0, <1>u, <1>1, <1>2, <1>3, SpawnerKept DEF Types

\* A claim gets one task, which is admitted with it, and none once the admission is closed.
LEMMA SpawnStep ==
    ASSUME Inv, NEW r \in Callers, Spawn(r)
    PROVE  Inv'
<1>g. PICK g \in Claims : g = claim[r]
    BY SpawnerFacts DEF Spawn
<1>0. /\ Types /\ pc[r] = "spawn" /\ ClaimInv(g) /\ task[g] = "none" /\ result[g] = "none"
      /\ g \in DOMAIN made /\ ~closed
    BY <1>g, SpawnerFacts DEF Inv, Spawn
<1>u. UNCHANGED <<made, record, result, request, claim, answer, closed, aborted, outcome, effect, otask,
                  oaborted, operations, completed, phase, inTime>>
    BY DEF Spawn, requestVars, operationVars, serviceVars
<1>1. /\ pc' \in [Callers -> {"new", "claim", "spawn", "wait", "done"}] /\ pc'[r] = "wait"
      /\ \A q \in Callers \ {r} : pc'[q] = pc[q]
    BY <1>0 DEF Types, Spawn
<1>2. /\ task' \in [Claims -> TaskPcs] /\ task'[g] = "spawned" /\ admitted' = admitted \cup {g}
      /\ \A c \in Claims \ {g} : task'[c] = task[c]
    BY <1>g, <1>0 DEF Types, Spawn, TaskPcs
<1>3. ClaimInv(g)'
    BY <1>0, <1>u, <1>1, <1>2 DEF ClaimInv, Told, Completed
<1> QED
    BY <1>g, <1>0, <1>u, <1>1, <1>2, <1>3, SpawnerKept DEF Types

-----------------------------------------------------------------------------
(* shutdown_server.                                                        *)

\* The admission is closed, the flag is set, and the waits end: every phase comes
\* after what it relies on.
LEMMA PhaseStep ==
    ASSUME Inv, CloseAdmission \/ SetStopping \/ RequestsDrained \/ OperationsAborted
    PROVE  Inv'
<1>u. UNCHANGED <<made, record, result, admitted, aborted, task, outcome, effect, operations, completed,
                  otask, oaborted, pc, request, claim, answer>>
    BY DEF CloseAdmission, SetStopping, RequestsDrained, OperationsAborted, requestVars, taskVars,
           operationVars, callerVars
<1>1. Types' /\ BoundInv'
    BY <1>u DEF Inv, Types, BoundInv, Claimed
<1>2. ASSUME NEW k \in Keys PROVE KeyInv(k)'
    BY <1>u DEF Inv, KeyInv
<1>3. ASSUME NEW c \in Claims PROVE ClaimInv(c)'
    BY <1>u, ClaimFrame DEF Inv, Completed
<1>4. ASSUME NEW r \in Callers PROVE CallerInv(r)'
    BY <1>u, CallersKept DEF Advances
<1>5. ShutdownInv'
    <2>1. \A c \in Claims : task[c] \notin {"none", "done"} => c \in admitted \cup aborted
        BY DEF Inv, ClaimInv
    <2>2. CASE CloseAdmission
        BY <1>u, <2>2 DEF CloseAdmission, Inv, ShutdownInv
    <2>3. CASE SetStopping
        BY <1>u, <2>3 DEF SetStopping, Inv, ShutdownInv
    <2>4. CASE RequestsDrained
        BY <1>u, <2>1, <2>4 DEF RequestsDrained, Inv, ShutdownInv
    <2>5. CASE OperationsAborted
        BY <1>u, <2>5 DEF OperationsAborted, Inv, ShutdownInv
    <2> QED
        BY <2>2, <2>3, <2>4, <2>5
<1> QED
    BY <1>1, <1>2, <1>3, <1>4, <1>5 DEF Inv

\* The admitted tasks are answered and aborted.
LEMMA CancelRequestsStep ==
    ASSUME Inv, CancelRequests
    PROVE  Inv'
<1>0. Types
    BY DEF Inv
<1>u. UNCHANGED <<made, record, closed, task, outcome, effect, operations, completed,
                  otask, oaborted, inTime, pc, request, claim, answer>>
    BY DEF CancelRequests, requestVars, taskVars, operationVars, callerVars
<1>1. /\ result' = [c \in Claims |-> IF c \in admitted THEN "stopping" ELSE result[c]]
      /\ result' \in [Claims -> Outcomes \cup {"none"}]
      /\ admitted' = {} /\ aborted' = aborted \cup admitted /\ phase = "stopping" /\ phase' = "draining"
    BY <1>0 DEF Types, CancelRequests, Outcomes
<1>2. Types' /\ BoundInv'
    BY <1>0, <1>u, <1>1 DEF Inv, Types, BoundInv, Claimed
<1>3. ASSUME NEW k \in Keys PROVE KeyInv(k)'
    BY <1>u DEF Inv, KeyInv
<1>4. ASSUME NEW c \in Claims PROVE ClaimInv(c)'
    <2>1. ClaimInv(c) /\ (c \notin admitted => result'[c] = result[c]) /\ (c \in admitted => result'[c] = "stopping")
        BY <1>1 DEF Inv
    <2> QED
        BY <1>u, <1>1, <2>1 DEF ClaimInv, Told, IsLong, Completed
<1>5. ASSUME NEW c \in Claims PROVE Advances(c)
    BY <1>u, <1>1 DEF Inv, ClaimInv, Advances
<1>6. ASSUME NEW r \in Callers PROVE CallerInv(r)'
    BY <1>u, <1>5, CallersKept
<1>7. ShutdownInv'
    BY <1>u, <1>1 DEF Inv, ShutdownInv
<1> QED
    BY <1>2, <1>3, <1>4, <1>6, <1>7 DEF Inv

\* The operations without a result are failed and aborted.
LEMMA AbortPendingStep ==
    ASSUME Inv, AbortPending
    PROVE  Inv'
<1>u. UNCHANGED <<made, record, result, closed, admitted, aborted, task, outcome, effect, operations,
                  otask, inTime, pc, request, claim, answer>>
    BY DEF AbortPending, requestVars, taskVars, callerVars
<1>1. /\ oaborted' = oaborted \cup (operations \ Completed)
      /\ phase = "drained" /\ phase' = "aborting"
    BY DEF AbortPending, Pending
<1>2. Completed' \subseteq Completed \cup operations
    BY DEF AbortPending, Completes, Completed, Pending
<1>3. Types' /\ BoundInv'
    BY <1>u DEF Inv, Types, BoundInv, Claimed
<1>4. ASSUME NEW k \in Keys PROVE KeyInv(k)'
    BY <1>u DEF Inv, KeyInv
<1>5. ASSUME NEW c \in Claims PROVE ClaimInv(c)'
    BY <1>u, <1>1, <1>2 DEF Inv, ClaimInv, Told, IsLong
<1>6. ASSUME NEW r \in Callers PROVE CallerInv(r)'
    BY <1>u, CallersKept DEF Advances
<1>7. ShutdownInv'
    BY <1>u, <1>1 DEF Inv, ClaimInv, ShutdownInv
<1> QED
    BY <1>3, <1>4, <1>5, <1>6, <1>7 DEF Inv

-----------------------------------------------------------------------------
(* The invariant, and what follows from it.                                *)

\* In the beginning there is no claim and no task.
LEMMA InitInv == Init => Inv
<1> SUFFICES ASSUME Init PROVE Inv
    OBVIOUS
<1>0. made = <<>> /\ made \in Seq(Keys \X Bodies) /\ Len(made) = 0 /\ DOMAIN made = {}
    BY DEF Init
<1>1. Types
    BY <1>0 DEF Init, Types, TaskPcs, OperationPcs, Answers
<1>2. BoundInv
    <2>1. IsFiniteSet(Claimed)
        <3>1. IsFiniteSet(Callers) /\ Claimed \subseteq Callers
            BY RequestsAssumption DEF Claimed
        <3> QED
            BY <3>1, FS_Subset
    <2> QED
        BY <1>0, <2>1, FS_CardinalityType DEF BoundInv
<1>3. ASSUME NEW k \in Keys PROVE KeyInv(k)
    BY DEF Init, KeyInv
<1>4. ASSUME NEW c \in Claims PROVE ClaimInv(c)
    BY <1>0 DEF Init, ClaimInv, Told, Completed
<1>5. ASSUME NEW r \in Callers PROVE CallerInv(r)
    BY DEF Init, CallerInv
<1>6. ShutdownInv
    BY DEF Init, ShutdownInv
<1> QED
    BY <1>1, <1>2, <1>3, <1>4, <1>5, <1>6 DEF Inv

\* Time passes, or nothing happens.
LEMMA IdleStep ==
    ASSUME Inv, (\E c \in Claims : Age(c)) \/ UNCHANGED vars
    PROVE  Inv'
<1>u. UNCHANGED <<made, record, result, closed, admitted, aborted, task, outcome, effect, operations,
                  completed, otask, oaborted, phase, inTime, pc, request, claim, answer>>
    BY DEF Age, vars, requestVars, taskVars, operationVars, serviceVars, callerVars
<1>1. Types' /\ BoundInv'
    BY <1>u DEF Inv, Types, BoundInv, Claimed
<1>2. ASSUME NEW k \in Keys PROVE KeyInv(k)'
    BY <1>u DEF Inv, KeyInv
<1>3. ASSUME NEW c \in Claims PROVE ClaimInv(c)'
    BY <1>u, ClaimFrame DEF Inv, Completed
<1>4. ASSUME NEW r \in Callers PROVE CallerInv(r)'
    BY <1>u, CallersKept DEF Advances
<1>5. ShutdownInv'
    BY <1>u DEF Inv, ShutdownInv
<1> QED
    BY <1>1, <1>2, <1>3, <1>4, <1>5 DEF Inv

\* Every step keeps the invariant.
LEMMA NextInv == Inv /\ [Next]_vars => Inv'
<1> SUFFICES ASSUME Inv, [Next]_vars PROVE Inv'
    OBVIOUS
<1>1. ASSUME NEW r \in Callers, NEW k \in Keys, NEW b \in Bodies, Submit(r, k, b) PROVE Inv'
    BY <1>1, SubmitStep
<1>2. ASSUME NEW r \in Callers, CallerStep(r) \/ Disconnect(r) PROVE Inv'
    BY <1>2, ClaimExistingStep, ClaimNewStep, SpawnRefusedStep, SpawnStep, ReceiveStep,
       DisconnectStep DEF CallerStep
<1>3. ASSUME NEW c \in Claims, TaskStep(c) \/ TaskDropped(c) PROVE Inv'
    BY <1>3, DispatchStep, DispatchEndsStep, DispatchPanicsStep, OperationRefusedStep,
       StartOperationStep, ReportStep, TaskEndsStep DEF TaskStep
<1>4. ASSUME NEW c \in Claims, OperationStep(c) \/ OperationDropped(c) PROVE Inv'
    BY <1>4, OperationWorks, OperationFinishesStep DEF OperationStep
<1>5. CASE CloseAdmission \/ ShutdownStep
    BY <1>5, PhaseStep, CancelRequestsStep, AbortPendingStep DEF ShutdownStep
<1>6. CASE (\E c \in Claims : Age(c)) \/ UNCHANGED vars
    BY <1>6, IdleStep
<1> QED
    BY <1>1, <1>2, <1>3, <1>4, <1>5, <1>6 DEF Next

\* The invariant holds in every reachable state.
LEMMA Invariance == Spec => []Inv
BY InitInv, NextInv, PTL DEF Spec

\* What a caller is told is true of its own command.
THEOREM CallersAreToldTheTruth == Spec => []AnswersAreTrue
<1>1. Inv => AnswersAreTrue
    BY DEF Inv, CallerInv, Told, AnswersAreTrue
<1> QED
    BY <1>1, Invariance, PTL

\* When the waits of the shutdown ended in time, nothing is executed any more.
THEOREM ShutdownIsQuiet == Spec => []CleanupIsQuiet
<1>1. Inv => CleanupIsQuiet
    BY DEF Inv, ShutdownInv, CleanupIsQuiet
<1> QED
    BY <1>1, Invariance, PTL

-----------------------------------------------------------------------------
(* The server implements the promise of IdempotentRequests.                *)

\* The state of the promise: what is executed and told of each key.
KeyEffect == [k \in Keys |-> IF record[k] = 0 THEN "none" ELSE effect[record[k]]]
KeyTold == [k \in Keys |-> IF record[k] = 0 THEN "none" ELSE Class(result[record[k]])]

\* A claim is retained for one key only.
LEMMA OneKey ==
    ASSUME Inv, NEW k \in Keys, NEW h \in Keys, record[k] # 0, record[k] = record[h]
    PROVE  k = h
BY DEF Inv, KeyInv

\* A step that neither changes the retained claims, nor what they did and were told,
\* is none of the promise.
LEMMA StutterStep ==
    ASSUME Inv, UNCHANGED record,
           \A k \in Keys : record[k] # 0 => /\ effect'[record[k]] = effect[record[k]]
                                            /\ result'[record[k]] = result[record[k]]
    PROVE  UNCHANGED Promise!vars
<1>1. KeyEffect' = KeyEffect
    BY DEF KeyEffect
<1>2. KeyTold' = KeyTold
    BY DEF KeyTold
<1> QED
    BY <1>1, <1>2 DEF Promise!vars, KeyEffect, KeyTold

\* A step of claim g is one of the key it is retained for.
LEMMA KeyStep ==
    ASSUME Inv, UNCHANGED record, NEW g \in Claims,
           \A c \in Claims \ {g} : effect'[c] = effect[c] /\ result'[c] = result[c],
           NEW k \in Keys, record[k] = g
    PROVE  /\ KeyEffect[k] = effect[g] /\ KeyTold[k] = Class(result[g])
           /\ KeyEffect' = [KeyEffect EXCEPT ![k] = effect'[g]]
           /\ KeyTold' = [KeyTold EXCEPT ![k] = Class(result'[g])]
<1>1. g # 0
    BY DEF Claims
<1>2. \A h \in Keys \ {k} : record[h] # 0 => record[h] \in Claims \ {g}
    BY <1>1, OneKey, ClaimsFit DEF Inv, KeyInv
<1>3. \A h \in Keys \ {k} : KeyEffect'[h] = KeyEffect[h] /\ KeyTold'[h] = KeyTold[h]
    BY <1>2 DEF KeyEffect, KeyTold
<1>4. KeyEffect'[k] = effect'[g] /\ KeyTold'[k] = Class(result'[g])
    BY <1>1 DEF KeyEffect, KeyTold
<1>5. KeyEffect' = [KeyEffect EXCEPT ![k] = effect'[g]]
    BY <1>3, <1>4 DEF KeyEffect
<1>6. KeyTold' = [KeyTold EXCEPT ![k] = Class(result'[g])]
    BY <1>3, <1>4 DEF KeyTold
<1> QED
    BY <1>1, <1>5, <1>6 DEF KeyEffect, KeyTold

\* A step of the task of claim g: what it means for the key of the claim.
LEMMA TaskRefines ==
    ASSUME Inv, NEW g \in Claims, TaskStep(g) \/ TaskDropped(g)
    PROVE  [Promise!Next]_(Promise!vars)
<1>0. Types /\ ClaimInv(g)
    BY DEF Inv
<1>1. CASE UNCHANGED <<record, effect, result>>
    BY <1>1, StutterStep
<1>2. ASSUME UNCHANGED record,
             \A c \in Claims \ {g} : effect'[c] = effect[c] /\ result'[c] = result[c],
             \A k \in Keys : record[k] # g
      PROVE  UNCHANGED Promise!vars
    <2>1. \A k \in Keys : record[k] # 0 => record[k] \in Claims \ {g}
        BY <1>2, ClaimsFit DEF Inv, KeyInv
    <2> QED
        BY <1>2, <2>1, StutterStep
<1>3. ASSUME NEW e \in {"begun", "ended"}, effect' = [effect EXCEPT ![g] = e],
             UNCHANGED <<record, result>>, task[g] = "spawned"
      PROVE  [Promise!Next]_(Promise!vars)
    <2>1. \A c \in Claims \ {g} : effect'[c] = effect[c] /\ result'[c] = result[c]
        BY <1>3
    <2>2. CASE \A k \in Keys : record[k] # g
        BY <1>2, <1>3, <2>1, <2>2
    <2>3. ASSUME NEW k \in Keys, record[k] = g PROVE Promise!Execute(k, e)
        <3>1. /\ KeyEffect[k] = "none" /\ KeyTold[k] \in {"none", "unknown"}
            BY <1>0, <1>3, <2>1, <2>3, KeyStep DEF ClaimInv, Class
        <3>2. KeyEffect' = [KeyEffect EXCEPT ![k] = e]
            BY <1>0, <1>3, <2>1, <2>3, KeyStep DEF Types
        <3>3. KeyTold' = KeyTold
            BY <1>3 DEF KeyTold
        <3> QED
            BY <3>1, <3>2, <3>3 DEF Promise!Execute, KeyEffect, KeyTold
    <2> QED
        BY <2>2, <2>3 DEF Promise!Next
<1>4. CASE DispatchEnds(g)
    <2>1. /\ UNCHANGED <<record, result>> /\ effect' = [effect EXCEPT ![g] = "ended"]
          /\ effect[g] = "begun"
        BY <1>0, <1>4 DEF DispatchEnds, requestVars, ClaimInv
    <2>2. \A c \in Claims \ {g} : effect'[c] = effect[c] /\ result'[c] = result[c]
        BY <2>1
    <2>3. CASE \A k \in Keys : record[k] # g
        BY <1>2, <2>1, <2>2, <2>3
    <2>4. ASSUME NEW k \in Keys, record[k] = g PROVE Promise!End(k)
        <3>1. KeyEffect[k] = "begun" /\ KeyEffect' = [KeyEffect EXCEPT ![k] = "ended"]
            BY <1>0, <2>1, <2>2, <2>4, KeyStep DEF Types
        <3>2. KeyTold' = KeyTold
            BY <2>1 DEF KeyTold
        <3> QED
            BY <3>1, <3>2 DEF Promise!End, KeyEffect, KeyTold
    <2> QED
        BY <2>3, <2>4 DEF Promise!Next
<1>5. CASE Report(g)
    <2>1. /\ UNCHANGED <<record, effect>> /\ result' = [result EXCEPT ![g] = outcome[g]]
          /\ outcome[g] \in {"ok", "interrupted", "accepted", "busy"} /\ Told(g, outcome[g])
          /\ result[g] \in {"none", "stopping"}
        BY <1>0, <1>5 DEF Report, requestVars, taskVars, ClaimInv
    <2>2. \A c \in Claims \ {g} : effect'[c] = effect[c] /\ result'[c] = result[c]
        BY <2>1
    <2>3. CASE \A k \in Keys : record[k] # g
        BY <1>2, <2>1, <2>2, <2>3
    <2>4. ASSUME NEW k \in Keys, record[k] = g
          PROVE  \/ \E a \in {"done", "refused"} : Promise!Tell(k, a)
                 \/ Promise!Interrupt({k})
        <3>0. Class(result[g]) \in {"none", "unknown"} /\ result'[g] = outcome[g]
            BY <1>0, <2>1 DEF Types, Class
        <3>1. /\ KeyEffect[k] = effect[g] /\ KeyTold[k] \in {"none", "unknown"}
              /\ KeyTold' = [KeyTold EXCEPT ![k] = Class(outcome[g])]
            BY <2>1, <2>2, <2>4, <3>0, KeyStep
        <3>2. KeyEffect' = KeyEffect
            BY <2>1 DEF KeyEffect
        <3>3. CASE outcome[g] \in {"ok", "accepted"}
            <4>1. Class(outcome[g]) = "done" /\ KeyEffect[k] = "ended"
                BY <2>1, <3>1, <3>3 DEF Class, Told
            <4> QED
                BY <3>1, <3>2, <4>1 DEF Promise!Tell, KeyEffect, KeyTold
        <3>4. CASE outcome[g] = "busy"
            <4>1. Class(outcome[g]) = "refused" /\ KeyEffect[k] = "none"
                BY <2>1, <3>1, <3>4 DEF Class, Told
            <4> QED
                BY <3>1, <3>2, <4>1 DEF Promise!Tell, KeyEffect, KeyTold
        <3>5. CASE outcome[g] = "interrupted"
            <4>1. KeyTold' = [h \in Keys |-> IF h \in {k} THEN "unknown" ELSE KeyTold[h]]
                BY <3>1, <3>5 DEF Class, KeyTold
            <4> QED
                BY <3>2, <4>1 DEF Promise!Interrupt, KeyEffect, KeyTold
        <3> QED
            BY <2>1, <3>3, <3>4, <3>5
    <2> QED
        BY <2>3, <2>4 DEF Promise!Next
<1> QED
    BY <1>1, <1>3, <1>4, <1>5 DEF TaskStep, TaskDropped, Dispatch, DispatchPanics, OperationRefused,
       StartOperation, Deregister, requestVars, taskVars

\* A claim is dropped only when something was told of it; if its command is still being
\* executed, that was nothing certain. A new claim begins afresh.
LEMMA ForgetStep ==
    ASSUME Inv, UNCHANGED <<effect, result>>,
           \A k \in Keys : \/ record'[k] = Retained[k]
                           \/ /\ Retained[k] = 0 /\ record'[k] # 0
                              /\ effect[record'[k]] = "none" /\ result[record'[k]] = "none"
    PROVE  \E ks \in SUBSET Keys : Promise!Forget(ks)
<1>0. PICK ks \in SUBSET Keys : ks = {k \in Keys : record[k] # 0 /\ Retained[k] = 0}
    OBVIOUS
<1>1. \A k \in Keys : \/ Retained[k] = record[k]
                      \/ Retained[k] = 0 /\ result[record[k]] # "none"
    BY RetainedFacts DEF Inv
<1>2. ASSUME NEW k \in ks
      PROVE  KeyTold[k] # "none" /\ (KeyEffect[k] = "begun" => KeyTold[k] = "unknown")
    <2>1. ClaimInv(record[k]) /\ record[k] # 0 /\ record[k] \in Claims /\ result[record[k]] # "none"
        BY <1>0, <1>1, <1>2, ClaimsFit DEF Inv, KeyInv
    <2>2. result[record[k]] \in Outcomes
        BY <2>1 DEF Inv, Types
    <2>3. record[k] # 0 /\ KeyEffect[k] = effect[record[k]] /\ KeyTold[k] = Class(result[record[k]])
        BY <1>0, <2>1 DEF KeyEffect, KeyTold
    <2> QED
        BY <2>1, <2>2, <2>3 DEF Class, ClaimInv, Told, Outcomes
<1>3. ASSUME NEW k \in Keys
      PROVE  /\ KeyEffect'[k] = IF k \in ks THEN "none" ELSE KeyEffect[k]
             /\ KeyTold'[k] = IF k \in ks THEN "none" ELSE KeyTold[k]
    <2>1. Class("none") = "none"
        BY DEF Class
    <2>2. CASE record'[k] = 0
        BY <1>0, <1>1, <2>2 DEF KeyEffect, KeyTold
    <2>3. CASE record'[k] # 0 /\ record'[k] = Retained[k]
        BY <1>0, <1>1, <2>3 DEF KeyEffect, KeyTold
    <2>4. CASE /\ Retained[k] = 0 /\ record'[k] # 0
               /\ effect[record'[k]] = "none" /\ result[record'[k]] = "none"
        BY <1>0, <1>1, <2>1, <2>4 DEF KeyEffect, KeyTold
    <2> QED
        BY <2>2, <2>3, <2>4
<1>4. KeyEffect' = [k \in Keys |-> IF k \in ks THEN "none" ELSE KeyEffect[k]]
    BY <1>3 DEF KeyEffect
<1>5. KeyTold' = [k \in Keys |-> IF k \in ks THEN "none" ELSE KeyTold[k]]
    BY <1>3 DEF KeyTold
<1>6. Promise!Forget(ks)
    BY <1>2, <1>4, <1>5 DEF Promise!Forget, KeyEffect, KeyTold
<1> QED
    BY <1>6

\* A step of a caller: old claims are forgotten, or it refuses its own.
LEMMA CallerRefines ==
    ASSUME Inv, NEW r \in Callers, CallerStep(r) \/ Disconnect(r)
    PROVE  [Promise!Next]_(Promise!vars)
<1>1. CASE ClaimExisting(r)
    <2>1. UNCHANGED <<effect, result>> /\ record' = Retained
        BY <1>1 DEF ClaimExisting, taskVars
    <2> QED
        BY <2>1, ForgetStep DEF Promise!Next
<1>2. CASE ClaimNew(r)
    <2>1. UNCHANGED <<effect, result>> /\ Retained[request[r][1]] = 0
        BY <1>2 DEF ClaimNew, taskVars
    <2>2. CASE record' = Retained
        BY <2>1, <2>2, ForgetStep DEF Promise!Next
    <2>3. ASSUME made' = Append(made, request[r]),
                 record' = [Retained EXCEPT ![request[r][1]] = Len(made) + 1]
          PROVE  \E ks \in SUBSET Keys : Promise!Forget(ks)
        <3>1. Len(made) + 1 \in Claims /\ Len(made) + 1 \notin DOMAIN made
            <4>1. pc[r] = "claim"
                BY <1>2 DEF ClaimNew
            <4>2. Len(made) + 1 \in Claims
                BY <4>1, ChannelLeft
            <4> QED
                BY <4>2, ClaimsFit
        <3>2. effect[Len(made) + 1] = "none" /\ result[Len(made) + 1] = "none"
            BY <3>1 DEF Inv, ClaimInv
        <3>3. Retained \in [Keys -> Nat] /\ Len(made) + 1 # 0
            BY RetainedFacts, <3>1 DEF Inv, Claims
        <3> QED
            BY <2>1, <2>3, <3>2, <3>3, ForgetStep
    <2> QED
        BY <1>2, <2>2, <2>3 DEF ClaimNew, Promise!Next

<1>3. CASE SpawnRefused(r)
    <2>g. PICK g \in Claims : g = claim[r]
        BY <1>3, SpawnerFacts DEF SpawnRefused
    <2>1. /\ UNCHANGED <<record, effect>> /\ result' = [result EXCEPT ![g] = "refused"]
          /\ result[g] = "none" /\ effect[g] = "none"
        BY <1>3, <2>g, SpawnerFacts DEF SpawnRefused, requestVars, taskVars, ClaimInv
    <2>2. \A c \in Claims \ {g} : effect'[c] = effect[c] /\ result'[c] = result[c]
        BY <2>1
    <2>3. CASE \A k \in Keys : record[k] # g
        <3>1. \A k \in Keys : record[k] # 0 => record[k] \in Claims \ {g}
            BY <2>3, ClaimsFit DEF Inv, KeyInv
        <3> QED
            BY <2>1, <2>2, <3>1, StutterStep
    <2>4. ASSUME NEW k \in Keys, record[k] = g PROVE Promise!Tell(k, "refused")
        <3>0. Class("none") = "none" /\ Class("refused") = "refused" /\ result'[g] = "refused"
            BY <2>1 DEF Class, Inv, Types
        <3>1. /\ KeyEffect[k] = "none" /\ KeyTold[k] = "none"
              /\ KeyTold' = [KeyTold EXCEPT ![k] = "refused"]
            BY <2>1, <2>2, <2>4, <3>0, KeyStep
        <3>2. KeyEffect' = KeyEffect
            BY <2>1 DEF KeyEffect
        <3> QED
            BY <3>1, <3>2 DEF Promise!Tell, KeyEffect, KeyTold
    <2> QED
        BY <2>3, <2>4 DEF Promise!Next
<1>4. CASE Spawn(r) \/ Receive(r) \/ Disconnect(r)
    <2>1. UNCHANGED <<record, effect, result>>
        BY <1>4 DEF Spawn, Receive, Disconnect, requestVars, taskVars
    <2> QED
        BY <2>1, StutterStep
<1> QED
    BY <1>1, <1>2, <1>3, <1>4 DEF CallerStep

\* The shutdown makes the outcome of the admitted tasks uncertain.
LEMMA CancelRefines ==
    ASSUME Inv, CancelRequests
    PROVE  \E ks \in SUBSET Keys : Promise!Interrupt(ks)
<1>0. PICK ks \in SUBSET Keys : ks = {k \in Keys : record[k] # 0 /\ record[k] \in admitted}
    OBVIOUS
<1>1. /\ UNCHANGED <<record, effect>>
      /\ result' = [c \in Claims |-> IF c \in admitted THEN "stopping" ELSE result[c]]
    BY DEF CancelRequests, requestVars, taskVars
<1>2. ASSUME NEW k \in Keys
      PROVE  KeyTold'[k] = IF k \in ks THEN "unknown" ELSE KeyTold[k]
    <2>1. Class("stopping") = "unknown" /\ (record[k] # 0 => record[k] \in Claims)
        BY ClaimsFit DEF Class, Inv, KeyInv
    <2> QED
        BY <1>0, <1>1, <2>1 DEF KeyTold
<1>3. KeyTold' = [k \in Keys |-> IF k \in ks THEN "unknown" ELSE KeyTold[k]]
    BY <1>2 DEF KeyTold
<1>4. KeyEffect' = KeyEffect
    BY <1>1 DEF KeyEffect
<1>5. Promise!Interrupt(ks)
    BY <1>3, <1>4 DEF Promise!Interrupt, KeyEffect, KeyTold
<1> QED
    BY <1>5

\* Every step of the server is a step of the promise, or none.
LEMMA StepRefines == Inv /\ [Next]_vars => [Promise!Next]_(Promise!vars)
<1> SUFFICES ASSUME Inv, [Next]_vars PROVE [Promise!Next]_(Promise!vars)
    OBVIOUS
<1>1. ASSUME NEW r \in Callers, CallerStep(r) \/ Disconnect(r)
      PROVE  [Promise!Next]_(Promise!vars)
    BY <1>1, CallerRefines
<1>2. ASSUME NEW c \in Claims, TaskStep(c) \/ TaskDropped(c)
      PROVE  [Promise!Next]_(Promise!vars)
    BY <1>2, TaskRefines
<1>3. CASE CancelRequests
    BY <1>3, CancelRefines DEF Promise!Next
<1>4. CASE UNCHANGED <<record, effect, result>>
    BY <1>4, StutterStep
<1>5. ASSUME NEW r \in Callers, NEW k \in Keys, NEW b \in Bodies, Submit(r, k, b)
      PROVE  UNCHANGED <<record, effect, result>>
    BY <1>5 DEF Submit, requestVars, taskVars
<1>6. ASSUME NEW c \in Claims, Age(c) \/ OperationStep(c) \/ OperationDropped(c)
      PROVE  UNCHANGED <<record, effect, result>>
    BY <1>6 DEF Age, OperationStep, OperationDropped, TakePermit, OperationBegins, OperationEnds,
           OperationFinishes, requestVars, taskVars
<1>7. CASE CloseAdmission \/ SetStopping \/ RequestsDrained \/ AbortPending \/ OperationsAborted
    <2>1. UNCHANGED <<record, effect, result>>
        BY <1>7 DEF CloseAdmission, SetStopping, RequestsDrained, AbortPending, OperationsAborted,
               requestVars, taskVars
    <2> QED
        BY <2>1, <1>4
<1>8. CASE UNCHANGED vars
    BY <1>4, <1>8 DEF vars, requestVars, taskVars
<1> QED
    BY <1>1, <1>2, <1>3, <1>4, <1>5, <1>6, <1>7, <1>8 DEF Next, ShutdownStep

\* The server implements the promise: as long as a key is remembered, its command is
\* executed at most once, and what the callers are told of it agrees with that.
THEOREM KeepsThePromise == Spec => Idempotent
<1>1. Init => Promise!Init
    <2>1. Init => KeyEffect = [k \in Keys |-> "none"] /\ KeyTold = [k \in Keys |-> "none"]
        BY DEF Init, KeyEffect, KeyTold
    <2> QED
        BY <2>1 DEF Promise!Init, KeyEffect, KeyTold
<1>2. Spec => Promise!Init /\ [][Promise!Next]_(Promise!vars)
    BY <1>1, Invariance, StepRefines, PTL DEF Spec
<1> QED
    BY <1>2 DEF Idempotent, Promise!Spec

================================================================================
