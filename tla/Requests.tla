------------------------------ MODULE Requests ------------------------------
(***************************************************************************)
(* State-changing requests of the HTTP server: idempotency claims          *)
(* (Requests::claim), admission of the task that executes the command      *)
(* (Admission), long operations (Operations) and their shutdown            *)
(* (shutdown_server).                                                      *)
(*                                                                         *)
(* A claim is one entry of the request history: a result channel that      *)
(* every caller with the same key waits on, and the task that executes the *)
(* command.  A long command only registers an operation, with a task of    *)
(* its own; it bears the number of its claim.  An action is one critical   *)
(* section or one stretch of a task between awaits.                        *)
(***************************************************************************)
EXTENDS Naturals, FiniteSets, Sequences, FiniteSetsExt

CONSTANTS
    Callers,        \* HTTP requests; a retry is another one with the same key
    Keys,           \* idempotency keys of a browser session
    Bodies,         \* commands with their arguments
    Long,           \* those in LONG_OPERATIONS
    RequestLimit,   \* 1024 retained claims
    AdmissionLimit, \* 128 admitted tasks
    PendingLimit,   \* 32 operations without a result
    RetainedLimit,  \* 256 operations
    LargeLimit,     \* large results that fit into 32 MiB
    Permits,        \* 8 operations at work
    Faults          \* of commands that panic or do not await for seconds, of
                    \* browsers that disconnect, and of requests that expire

ASSUME RequestsAssumption ==
    /\ Long \subseteq Bodies
    /\ {RequestLimit, AdmissionLimit, PendingLimit, Permits} \subseteq Nat \ {0}
    /\ RetainedLimit \in Nat /\ PendingLimit <= RetainedLimit
    /\ LargeLimit \in Nat
    /\ Faults \subseteq {"panic", "slow", "disconnect", "expire"}
    /\ IsFiniteSet(Callers)

Claims == 1..Cardinality(Callers)

VARIABLES
    made,       \* history: key and body of each claim, in the order made
    record,     \* Requests: the claim retained for each key, or 0
    result,     \* the watch channel of each claim
    aged,       \* claims made at least 30 minutes ago
    closed,     \* AdmissionState.closed
    admitted,   \* AdmissionState.tasks
    task,       \* the task of each claim
    outcome,    \* what the task is about to report
    aborted,    \* tasks aborted by cancel_and_wait
    effect,     \* history: whether the command of the claim was executed
    operations, \* Operations.records
    state,      \* OperationSummary.state
    completed,  \* OperationSummary.completed_at, 0: none
    large,      \* operations with a large result
    otask,      \* the task of each operation
    oaborted,   \* tasks aborted by abort_pending
    stopping,   \* Server.stopping
    phase,      \* progress of shutdown_server
    inTime,     \* all aborted tasks ended within the timeouts
    pc,         \* progress of the handler of each caller
    request,    \* its key and body
    claim,      \* the claim it waits on
    answer      \* what it was answered

requestVars == <<made, record, aged>>
taskVars == <<task, outcome, effect>>
operationVars == <<operations, state, completed, large, otask, oaborted>>
serviceVars == <<stopping, phase, inTime>>
callerVars == <<pc, request, claim, answer>>
vars == <<requestVars, result, closed, admitted, aborted, taskVars, operationVars,
          serviceVars, callerVars>>

Outcomes == {"ok", "interrupted", "accepted", "busy", "refused", "stopping"}
Answers == Outcomes \cup {"none", "conflict", "limit", "lost"}
Completed == {c \in Claims : completed[c] # 0}
\* Tasks that hold a permit of the operations.
Working == {c \in Claims : otask[c] \in {"permit", "dispatch", "finish"}}
Pending == operations \ Completed

Init ==
    /\ made = <<>>
    /\ record = [k \in Keys |-> 0]
    /\ result = [c \in Claims |-> "none"]
    /\ aged = {} /\ closed = FALSE /\ admitted = {} /\ aborted = {}
    /\ task = [c \in Claims |-> "none"]
    /\ outcome = [c \in Claims |-> "none"]
    /\ effect = [c \in Claims |-> "none"]
    /\ operations = {} /\ completed = [c \in Claims |-> 0] /\ large = {} /\ oaborted = {}
    /\ state = [c \in Claims |-> "none"]
    /\ otask = [c \in Claims |-> "none"]
    /\ stopping = FALSE /\ phase = "up" /\ inTime = TRUE
    /\ pc = [r \in Callers |-> "new"]
    /\ request = [r \in Callers |-> <<>>]
    /\ claim = [r \in Callers |-> 0]
    /\ answer = [r \in Callers |-> "none"]

-----------------------------------------------------------------------------
(* The handler of a caller: business.                                      *)

\* The caller r is answered and its handler ends.
Respond(r, a) ==
    /\ pc' = [pc EXCEPT ![r] = "done"]
    /\ answer' = [answer EXCEPT ![r] = a]

\* A request, perhaps a retry with the key of an earlier one, passes the check
\* of the stopping flag. One that does not is refused without any effect.
Submit(r, k, b) ==
    /\ pc[r] = "new"
    /\ ~stopping
    /\ request' = [request EXCEPT ![r] = <<k, b>>]
    /\ pc' = [pc EXCEPT ![r] = "claim"]
    /\ UNCHANGED <<requestVars, result, closed, admitted, aborted, taskVars,
                   operationVars, serviceVars, claim, answer>>

\* Records of 30 minutes ago are dropped once they have a result.
Retained ==
    [k \in Keys |-> IF record[k] \in aged /\ result[record[k]] # "none" THEN 0 ELSE record[k]]

\* Faulty: does not compare the digest.
ClaimExistingAnyBody(r) ==
    /\ pc[r] = "claim"
    /\ Retained[request[r][1]] # 0
    /\ record' = Retained
    /\ claim' = [claim EXCEPT ![r] = Retained[request[r][1]]]
    /\ pc' = [pc EXCEPT ![r] = "wait"]
    /\ UNCHANGED <<made, aged, request, answer, result, closed, admitted, aborted,
                   taskVars, operationVars, serviceVars>>

\* claim finds a record of the key.
ClaimExisting(r) ==
    LET k == request[r][1]  c == Retained[k] IN
    /\ pc[r] = "claim"
    /\ c # 0
    /\ record' = Retained
    /\ IF made[c] = request[r]
         THEN /\ claim' = [claim EXCEPT ![r] = c]
              /\ pc' = [pc EXCEPT ![r] = "wait"]
              /\ UNCHANGED answer
         ELSE /\ Respond(r, "conflict")
              /\ UNCHANGED claim
    /\ UNCHANGED <<made, aged, request, result, closed, admitted, aborted, taskVars,
                   operationVars, serviceVars>>

\* claim finds none: a new record, if there is room.
ClaimNew(r) ==
    LET k == request[r][1]  c == Len(made) + 1 IN
    /\ pc[r] = "claim"
    /\ Retained[k] = 0
    /\ IF Cardinality({h \in Keys : Retained[h] # 0}) < RequestLimit
         THEN /\ made' = Append(made, request[r])
              /\ record' = [Retained EXCEPT ![k] = c]
              /\ claim' = [claim EXCEPT ![r] = c]
              /\ pc' = [pc EXCEPT ![r] = "spawn"]
              /\ UNCHANGED answer
         ELSE /\ record' = Retained
              /\ Respond(r, "limit")
              /\ UNCHANGED <<made, claim>>
    /\ UNCHANGED <<aged, request, result, closed, admitted, aborted, taskVars,
                   operationVars, serviceVars>>

\* Faulty: the task is spawned before the limits are checked.
SpawnRefusedLate(r) ==
    /\ pc[r] = "spawn"
    /\ closed \/ Cardinality(admitted) >= AdmissionLimit
    /\ task' = [task EXCEPT ![claim[r]] = "spawned"]
    /\ result' = [result EXCEPT ![claim[r]] = "refused"]
    /\ Respond(r, "refused")
    /\ UNCHANGED <<requestVars, closed, admitted, aborted, outcome, effect, operationVars,
                   serviceVars, request, claim>>

\* Admission::spawn refuses: the result of the claim says so to every caller.
SpawnRefused(r) ==
    /\ pc[r] = "spawn"
    /\ closed \/ Cardinality(admitted) >= AdmissionLimit
    /\ result' = [result EXCEPT ![claim[r]] = "refused"]
    /\ Respond(r, "refused")
    /\ UNCHANGED <<requestVars, closed, admitted, aborted, taskVars, operationVars,
                   serviceVars, request, claim>>

\* Admission::spawn: the task is registered before it can remove itself.
Spawn(r) ==
    LET c == claim[r] IN
    /\ pc[r] = "spawn"
    /\ ~closed /\ Cardinality(admitted) < AdmissionLimit
    /\ admitted' = admitted \cup {c}
    /\ task' = [task EXCEPT ![c] = "spawned"]
    /\ pc' = [pc EXCEPT ![r] = "wait"]
    /\ UNCHANGED <<requestVars, result, closed, aborted, outcome, effect, operationVars,
                   serviceVars, request, claim, answer>>

\* The watch channel has a result.
Receive(r) ==
    /\ pc[r] = "wait"
    /\ result[claim[r]] # "none"
    /\ Respond(r, result[claim[r]])
    /\ UNCHANGED <<requestVars, result, closed, admitted, aborted, taskVars,
                   operationVars, serviceVars, request, claim>>

\* The browser goes away while the handler awaits, and the handler is dropped;
\* the task is not affected.
Disconnect(r) ==
    /\ "disconnect" \in Faults
    /\ pc[r] = "wait"
    /\ Respond(r, "lost")
    /\ request' = [request EXCEPT ![r] = <<>>]
    /\ claim' = [claim EXCEPT ![r] = 0]
    /\ UNCHANGED <<requestVars, result, closed, admitted, aborted, taskVars,
                   operationVars, serviceVars>>

\* Thirty minutes pass since claim c was made.
Age(c) ==
    /\ "expire" \in Faults
    /\ c \in DOMAIN made \ aged
    /\ aged' = aged \cup {c}
    /\ UNCHANGED <<made, record, result, closed, admitted, aborted, taskVars,
                   operationVars, serviceVars, callerVars>>

-----------------------------------------------------------------------------
(* The task of claim c: execute.                                           *)

\* The body of claim c is a long command.
IsLong(c) == made[c][2] \in Long

\* The task goes on to q with outcome o of the command.
TaskReports(c, o) ==
    /\ task' = [task EXCEPT ![c] = "report"]
    /\ outcome' = [outcome EXCEPT ![c] = o]

\* A short command is dispatched.
Dispatch(c) ==
    /\ task[c] = "spawned" /\ ~IsLong(c)
    /\ task' = [task EXCEPT ![c] = "dispatch"]
    /\ effect' = [effect EXCEPT ![c] = "begun"]
    /\ UNCHANGED <<requestVars, result, closed, admitted, aborted, outcome,
                   operationVars, serviceVars, callerVars>>

\* It returns, with success or an error.
DispatchEnds(c) ==
    /\ task[c] = "dispatch"
    /\ TaskReports(c, "ok")
    /\ effect' = [effect EXCEPT ![c] = "ended"]
    /\ UNCHANGED <<requestVars, result, closed, admitted, aborted, operationVars,
                   serviceVars, callerVars>>

\* It panics: caught and reported.
DispatchPanics(c) ==
    /\ "panic" \in Faults
    /\ task[c] = "dispatch"
    /\ TaskReports(c, "interrupted")
    /\ UNCHANGED <<requestVars, result, closed, admitted, aborted, effect, operationVars,
                   serviceVars, callerVars>>

\* Operations::start has no room.
OperationRefused(c) ==
    /\ task[c] = "spawned" /\ IsLong(c)
    /\ Cardinality(Pending) >= PendingLimit
    /\ TaskReports(c, "busy")
    /\ UNCHANGED <<requestVars, result, closed, admitted, aborted, effect, operationVars,
                   serviceVars, callerVars>>

Oldest(old) == \A c \in old, d \in Completed \ old : completed[c] <= completed[d]
Room(old) ==
    /\ Cardinality(operations \ old) < RetainedLimit
    /\ Cardinality(large \ old) <= LargeLimit
\* The oldest completed operations are removed until there is room or none is left.
Pruned(old) ==
    /\ Oldest(old)
    /\ Room(old) \/ old = Completed
    /\ old = {} \/ \E last \in old : Oldest(old \ {last}) /\ ~Room(old \ {last})

\* Operations::start registers the operation and its task under the lock.
StartOperation(c) ==
    /\ task[c] = "spawned" /\ IsLong(c)
    /\ Cardinality(Pending) < PendingLimit
    /\ \E old \in SUBSET Completed :
          /\ Pruned(old)
          /\ operations' = (operations \ old) \cup {c}
          /\ completed' = [d \in Claims |-> IF d \in old THEN 0 ELSE completed[d]]
          /\ large' = large \ old
    /\ state' = [state EXCEPT ![c] = "queued"]
    /\ otask' = [otask EXCEPT ![c] = "queued"]
    /\ effect' = [effect EXCEPT ![c] = "ended"]
    /\ TaskReports(c, "accepted")
    /\ UNCHANGED <<requestVars, result, closed, admitted, aborted, oaborted, serviceVars,
                   callerVars>>

\* The result is sent to the callers,
Report(c) ==
    /\ task[c] = "report"
    /\ result' = [result EXCEPT ![c] = outcome[c]]
    /\ task' = [task EXCEPT ![c] = "deregister"]
    /\ UNCHANGED <<requestVars, closed, admitted, aborted, outcome, effect, operationVars,
                   serviceVars, callerVars>>

\* and the task removes itself from the admitted ones.
Deregister(c) ==
    /\ task[c] = "deregister"
    /\ admitted' = admitted \ {c}
    /\ task' = [task EXCEPT ![c] = "done"]
    /\ UNCHANGED <<requestVars, result, closed, aborted, outcome, effect, operationVars,
                   serviceVars, callerVars>>

\* An aborted task is dropped where it awaits, or before it ran.
TaskDropped(c) ==
    /\ c \in aborted
    /\ task[c] \in {"spawned", "dispatch"}
    /\ task' = [task EXCEPT ![c] = "done"]
    /\ UNCHANGED <<requestVars, result, closed, admitted, aborted, outcome, effect,
                   operationVars, serviceVars, callerVars>>

-----------------------------------------------------------------------------
(* The task of operation c.                                                *)

\* A permit of the semaphore.
TakePermit(c) ==
    /\ otask[c] = "queued"
    /\ Cardinality(Working) < Permits
    /\ otask' = [otask EXCEPT ![c] = "permit"]
    /\ UNCHANGED <<requestVars, result, closed, admitted, aborted, taskVars, operations,
                   state, completed, large, oaborted, serviceVars, callerVars>>

\* The operation is running; api::dispatch begins.
OperationBegins(c) ==
    /\ otask[c] = "permit"
    /\ otask' = [otask EXCEPT ![c] = "dispatch"]
    /\ state' = IF c \in operations THEN [state EXCEPT ![c] = "running"] ELSE state
    /\ UNCHANGED <<requestVars, result, closed, admitted, aborted, taskVars, operations,
                   completed, large, oaborted, serviceVars, callerVars>>

\* It returns, fails or panics (which is caught).
OperationEnds(c) ==
    /\ otask[c] = "dispatch"
    /\ otask' = [otask EXCEPT ![c] = "finish"]
    /\ UNCHANGED <<requestVars, result, closed, admitted, aborted, taskVars, operations,
                   state, completed, large, oaborted, serviceVars, callerVars>>

\* The operations cs get their completed_at, perhaps anew.
Completes(cs) ==
    LET now == 1 + Max({0} \cup {completed[d] : d \in Claims}) IN
    completed' = [c \in Claims |-> IF c \in cs THEN now ELSE completed[c]]

\* Its result is entered, unless the record was pruned, and the permit released.
OperationFinishes(c, s, size) ==
    /\ otask[c] = "finish"
    /\ otask' = [otask EXCEPT ![c] = "done"]
    /\ IF c \in operations
         THEN /\ state' = [state EXCEPT ![c] = s]
              /\ Completes({c})
              /\ large' = IF s = "completed" /\ size = "large" THEN large \cup {c} ELSE large
         ELSE UNCHANGED <<state, completed, large>>
    /\ UNCHANGED <<requestVars, result, closed, admitted, aborted, taskVars, operations,
                   oaborted, serviceVars, callerVars>>

\* An aborted operation is dropped where it awaits, with its permit.
OperationDropped(c) ==
    /\ c \in oaborted
    /\ otask[c] \in {"queued", "dispatch"}
    /\ otask' = [otask EXCEPT ![c] = "done"]
    /\ UNCHANGED <<requestVars, result, closed, admitted, aborted, taskVars, operations,
                   state, completed, large, oaborted, serviceVars, callerVars>>

-----------------------------------------------------------------------------
(* shutdown_server.                                                        *)

\* request_stop closes the admission,
CloseAdmission ==
    /\ phase = "up"
    /\ closed' = TRUE
    /\ phase' = "closed"
    /\ UNCHANGED <<requestVars, result, admitted, aborted, taskVars, operationVars,
                   stopping, inTime, callerVars>>

\* and then makes the handlers refuse requests.
SetStopping ==
    /\ phase = "closed"
    /\ stopping' = TRUE
    /\ phase' = "stopping"
    /\ UNCHANGED <<requestVars, result, closed, admitted, aborted, taskVars,
                   operationVars, inTime, callerVars>>

\* Faulty: the callers of the drained tasks are not told.
CancelRequestsSilently ==
    /\ phase = "stopping"
    /\ aborted' = aborted \cup admitted
    /\ admitted' = {}
    /\ phase' = "draining"
    /\ UNCHANGED <<requestVars, result, closed, taskVars, operationVars, stopping,
                   inTime, callerVars>>

\* cancel_and_wait answers for the admitted tasks and aborts them,
CancelRequests ==
    /\ phase = "stopping"
    /\ result' = [c \in Claims |-> IF c \in admitted THEN "stopping" ELSE result[c]]
    /\ aborted' = aborted \cup admitted
    /\ admitted' = {}
    /\ phase' = "draining"
    /\ UNCHANGED <<requestVars, closed, taskVars, operationVars, stopping, inTime,
                   callerVars>>

\* and waits for them, at most two seconds; a task that does not await in that
\* time outlives the wait.
RequestsDrained ==
    /\ phase = "draining"
    /\ LET ended == \A c \in aborted : task[c] = "done" IN
       /\ ended \/ "slow" \in Faults
       /\ inTime' = ended
    /\ phase' = "drained"
    /\ UNCHANGED <<requestVars, result, closed, admitted, aborted, taskVars,
                   operationVars, stopping, callerVars>>

\* Faulty: only running operations are aborted.
AbortRunning ==
    /\ phase = "drained"
    /\ LET running == {c \in Pending : state[c] = "running"} IN
       /\ state' = [c \in Claims |-> IF c \in running THEN "failed" ELSE state[c]]
       /\ Completes(running)
       /\ oaborted' = oaborted \cup running
    /\ phase' = "aborting"
    /\ UNCHANGED <<requestVars, result, closed, admitted, aborted, taskVars, operations,
                   large, otask, stopping, inTime, callerVars>>

\* abort_pending fails the operations that have no result and aborts them,
AbortPending ==
    /\ phase = "drained"
    /\ state' = [c \in Claims |-> IF c \in Pending THEN "failed" ELSE state[c]]
    /\ Completes(Pending)
    /\ oaborted' = oaborted \cup Pending
    /\ phase' = "aborting"
    /\ UNCHANGED <<requestVars, result, closed, admitted, aborted, taskVars, operations,
                   large, otask, stopping, inTime, callerVars>>

\* and waits in the same way. The registries are shut down next.
OperationsAborted ==
    /\ phase = "aborting"
    /\ LET ended == \A c \in oaborted : otask[c] = "done" IN
       /\ ended \/ "slow" \in Faults
       /\ inTime' = (inTime /\ ended)
    /\ phase' = "cleaning"
    /\ UNCHANGED <<requestVars, result, closed, admitted, aborted, taskVars,
                   operationVars, stopping, callerVars>>

-----------------------------------------------------------------------------
CallerStep(r) == ClaimExisting(r) \/ ClaimNew(r) \/ SpawnRefused(r) \/ Spawn(r) \/ Receive(r)

TaskStep(c) ==
    \/ Dispatch(c) \/ DispatchEnds(c) \/ DispatchPanics(c)
    \/ OperationRefused(c) \/ StartOperation(c)
    \/ Report(c) \/ Deregister(c)

OperationStep(c) ==
    \/ TakePermit(c) \/ OperationBegins(c) \/ OperationEnds(c)
    \/ \E s \in {"completed", "failed"}, size \in {"small", "large"} :
          OperationFinishes(c, s, size)

ShutdownStep ==
    \/ SetStopping \/ CancelRequests \/ RequestsDrained \/ AbortPending \/ OperationsAborted

Next ==
    \/ \E r \in Callers :
          \/ \E k \in Keys, b \in Bodies : Submit(r, k, b)
          \/ CallerStep(r)
          \/ Disconnect(r)
    \/ \E c \in Claims :
          \/ Age(c)
          \/ TaskStep(c) \/ TaskDropped(c)
          \/ OperationStep(c) \/ OperationDropped(c)
    \/ CloseAdmission
    \/ ShutdownStep

\* Handlers and tasks are scheduled and commands return: each is bounded by the
\* timeouts of its own work. An aborted task is dropped or runs to its end. The
\* waits of the shutdown are timers.
Fairness ==
    /\ \A r \in Callers : WF_vars(CallerStep(r))
    /\ \A c \in Claims : WF_vars(TaskStep(c)) /\ WF_vars(OperationStep(c))
    /\ WF_vars(ShutdownStep)

Spec == Init /\ [][Next]_vars /\ Fairness

-----------------------------------------------------------------------------
(* Properties.                                                             *)

\* Every variable has its type.
TypeOK ==
    /\ made \in Seq(Keys \X Bodies) /\ Len(made) <= Cardinality(Callers)
    /\ record \in [Keys -> 0..Len(made)]
    /\ result \in [Claims -> Outcomes \cup {"none"}]
    /\ {aged, admitted, aborted, operations, large, oaborted} \subseteq SUBSET DOMAIN made
    /\ task \in [Claims -> {"none", "spawned", "dispatch", "report", "deregister", "done"}]
    /\ outcome \in [Claims -> Outcomes \cup {"none"}]
    /\ effect \in [Claims -> {"none", "begun", "ended"}]
    /\ state \in [Claims -> {"none", "queued", "running", "completed", "failed"}]
    /\ otask \in [Claims -> {"none", "queued", "permit", "dispatch", "finish", "done"}]
    /\ completed \in [Claims -> Nat] /\ Completed \subseteq operations
    /\ closed \in BOOLEAN /\ stopping \in BOOLEAN /\ inTime \in BOOLEAN
    /\ phase \in {"up", "closed", "stopping", "draining", "drained", "aborting", "cleaning"}
    /\ pc \in [Callers -> {"new", "claim", "spawn", "wait", "done"}]
    /\ request \in [Callers -> Keys \X Bodies \cup {<<>>}]
    /\ claim \in [Callers -> 0..Len(made)]
    /\ answer \in [Callers -> Answers]

\* What a caller is told is true of its own command: success means that it was
\* executed, an operation id that the operation was registered, a refusal that
\* nothing was executed, nor will be.
AnswersAreTrue ==
    \A r \in Callers :
        LET c == claim[r] IN
        pc[r] = "done" /\ answer[r] \in Outcomes =>
            /\ made[c] = request[r]
            /\ answer[r] = "ok" => effect[c] = "ended" /\ ~IsLong(c)
            /\ answer[r] = "accepted" => otask[c] # "none"
            /\ answer[r] \in {"refused", "busy"} =>
                  effect[c] = "none" /\ task[c] \notin {"spawned", "dispatch"}

\* When the registries are shut down, and the waits before ended in time, no
\* command is executed any more: none can start a process that nobody stops.
CleanupIsQuiet ==
    phase = "cleaning" /\ inTime =>
        \A c \in Claims : task[c] \in {"none", "done"} /\ otask[c] \in {"none", "done"}

\* A caller that waits is answered, also during the shutdown.
CallersAnswered == \A r \in Callers : pc[r] = "wait" ~> pc[r] # "wait"

\* What the history of a key promises, see IdempotentRequests.
Class(o) == CASE o = "none" -> "none"
              [] o \in {"ok", "accepted"} -> "done"
              [] o \in {"refused", "busy"} -> "refused"
              [] OTHER -> "unknown"
Promise == INSTANCE IdempotentRequests WITH
    effect <- [k \in Keys |-> IF record[k] = 0 THEN "none" ELSE effect[record[k]]],
    told <- [k \in Keys |-> IF record[k] = 0 THEN "none" ELSE Class(result[record[k]])]

\* The server implements that promise.
Idempotent == Promise!Spec

=============================================================================
