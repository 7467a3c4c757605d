----------------------------- MODULE CommandJobs -----------------------------
(***************************************************************************)
(* The command job registry of crates/remotedeck-core/src/command_job.rs:  *)
(* run_resolved, record_pty_handoff, cancel, retire_host and restore_host, *)
(* the task execute_job of every job and the child process that it owns.   *)
(*                                                                         *)
(* An action is one critical section of the `entries` mutex, one wait of a *)
(* task, or one step of the environment.  cancel() changes the state under *)
(* the mutex and sends the signal afterwards: the two are separate steps.  *)
(* The host barrier is the component of HostOperationBarrier; here it is   *)
(* its promise: `leases` counts the starts in progress, and a retired host *)
(* admits none.                                                            *)
(*                                                                         *)
(* Jobs are numbered in the order of RegistryEntry.sequence.  Output is    *)
(* abstracted to whether a finished job has a large one, revisions and     *)
(* events are those of EventStream, and shutdown() is a sequence of        *)
(* cancel() calls.  The risk check of prepare_run is one of the reasons    *)
(* for RunFails.                                                           *)
(***************************************************************************)
EXTENDS Naturals, FiniteSets, FiniteSetsExt

CONSTANTS
    HostIds,         \* host identifiers
    MaxConcurrency,  \* permits of the semaphore
    MaxPending,      \* MAX_PENDING_JOBS
    MaxRetained,     \* MAX_RETAINED_JOBS
    MaxLarge,        \* large outputs that fit in MAX_RETAINED_OUTPUT_BYTES
    Deletable,       \* hosts that a user deletes
    Faults,          \* which of AllFaults the environment may produce
    MaxJobs,         \* bound: jobs registered
    MaxStarts        \* bound: starts in progress on one host

AllFaults == {"spawn", "pipe", "stuck", "timeout"}

ASSUME JobsAssumption ==
    /\ MaxConcurrency \in Nat \ {0}
    /\ MaxPending \in Nat \ {0}
    /\ MaxRetained \in Nat \ {0}
    /\ MaxPending < MaxRetained
    /\ MaxLarge \in Nat
    /\ Deletable \subseteq HostIds
    /\ Faults \subseteq AllFaults
    /\ MaxJobs \in Nat
    /\ MaxStarts \in Nat \ {0}

Jobs == 1 .. MaxJobs

VARIABLES
    created,    \* jobs registered so far
    host,       \* CommandJob.host_id
    state,      \* CommandJob.state, "none" without an entry
    large,      \* finished jobs with a large output
    signalling, \* jobs whose cancel() has not sent the signal yet
    signalled,  \* jobs whose cancellation signal was sent
    pc,         \* progress of the job's task
    proc,       \* the child process of the job
    status,     \* exit status the task has read
    pipes,      \* jobs whose output pipes are open
    seen,       \* cancellation_seen
    failure,    \* jobs with a cancellation_failure
    pipeError,  \* jobs with a pipe_error
    leases,     \* starts in progress on a host
    retired,    \* hosts that admit no start
    retire,     \* progress of retire_host
    retireIds   \* jobs that it still has to cancel

jobVars   == <<created, host, state, large>>
cancelVars == <<signalling, signalled>>
locals    == <<signalled, proc, status, pipes, seen, failure, pipeError>>
taskVars  == <<pc, proc, status, pipes, seen, failure, pipeError>>
hostVars  == <<leases, retired, retire, retireIds>>
jobsVars  == <<created, host, state, large, signalling, signalled, pc, proc,
               status, pipes, seen, failure, pipeError, leases, retired, retire, retireIds>>

Terminal == {"Completed", "Failed", "Cancelled"}
States == {"none", "Queued", "Running", "Cancelling"} \cup Terminal
Listed == {j \in Jobs : state[j] # "none"}
TaskStates == {"none", "start", "queue", "permitted", "spawn", "loop", "check", "finish", "end"}
Live == {"alive", "killed"}

JobsInit ==
    /\ created = 0
    /\ host \in [Jobs -> HostIds]
    /\ state = [j \in Jobs |-> "none"]
    /\ large = {}
    /\ signalling = {}
    /\ signalled = {}
    /\ pc = [j \in Jobs |-> "none"]
    /\ proc = [j \in Jobs |-> "none"]
    /\ status = [j \in Jobs |-> "none"]
    /\ pipes = {}
    /\ seen = {}
    /\ failure = {}
    /\ pipeError = {}
    /\ leases = [h \in HostIds |-> 0]
    /\ retired = {}
    /\ retire = [h \in HostIds |-> "none"]
    /\ retireIds = [h \in HostIds |-> {}]

-----------------------------------------------------------------------------
(* Starting a job.                                                         *)

\* Jobs that are listed in st, those that are terminal, and the n oldest of them.
ListedIn(st) == {j \in Jobs : st[j] # "none"}
TerminalIn(st) == {j \in Jobs : st[j] \in Terminal}
OldestIn(st, n) ==
    {j \in TerminalIn(st) : Cardinality({i \in TerminalIn(st) : i < j}) < n}

\* The listing st without the jobs of R.
Without(st, R) == [j \in Jobs |-> IF j \in R THEN "none" ELSE st[j]]

\* prune_terminal_jobs: the oldest terminal jobs leave until both limits hold.
Prune(st, big) ==
    LET fits == {n \in 0 .. Cardinality(TerminalIn(st)) :
                    /\ Cardinality(ListedIn(st)) - n < MaxRetained
                    /\ Cardinality((TerminalIn(st) \ OldestIn(st, n)) \cap big) <= MaxLarge}
    IN  Without(st, IF fits = {} THEN TerminalIn(st) ELSE OldestIn(st, Min(fits)))

\* run_resolved and record_pty_handoff: begin_host_operation.
RunBegin(h) ==
    /\ h \notin retired
    /\ leases[h] < MaxStarts
    /\ leases' = [leases EXCEPT ![h] = @ + 1]
    /\ UNCHANGED <<jobVars, cancelVars, taskVars, retired, retire, retireIds>>

\* prepare_run or remote_command_spec refuses; the lease is dropped.
RunFails(h) ==
    /\ leases[h] > 0
    /\ leases' = [leases EXCEPT ![h] = @ - 1]
    /\ UNCHANGED <<jobVars, cancelVars, taskVars, retired, retire, retireIds>>

Pending == {j \in Jobs : state[j] \in {"Queued", "Running", "Cancelling"}}

\* A job is inserted after pruning; the lease is dropped.
Insert(h, st) ==
    LET j == created + 1
    IN  /\ created' = j
        /\ host' = [host EXCEPT ![j] = h]
        /\ state' = [Prune(state, large) EXCEPT ![j] = st]
        /\ large' = large \cap ListedIn(state')

\* start_process: the job is registered and its task spawned.
RunRegister(h) ==
    /\ leases[h] > 0
    /\ created < MaxJobs
    /\ leases' = [leases EXCEPT ![h] = @ - 1]
    /\ Cardinality(Pending) < MaxPending
    /\ Insert(h, "Queued")
    /\ pc' = [pc EXCEPT ![created + 1] = "start"]
    /\ UNCHANGED <<cancelVars, proc, status, pipes, seen, failure, pipeError,
                   retired, retire, retireIds>>

\* start_process: the queue is full; what was pruned stays pruned.
RunRejected(h) ==
    /\ leases[h] > 0
    /\ leases' = [leases EXCEPT ![h] = @ - 1]
    /\ Cardinality(Pending) >= MaxPending
    /\ state' = Prune(state, large)
    /\ large' = large \cap ListedIn(state')
    /\ UNCHANGED <<created, host, cancelVars, taskVars, retired, retire, retireIds>>

\* record_pty_handoff: the dispatch of an interactive command is recorded.
RecordHandoff(h) ==
    /\ leases[h] > 0
    /\ created < MaxJobs
    /\ leases' = [leases EXCEPT ![h] = @ - 1]
    /\ Insert(h, "Completed")
    /\ pc' = [pc EXCEPT ![created + 1] = "end"]
    /\ UNCHANGED <<cancelVars, proc, status, pipes, seen, failure, pipeError,
                   retired, retire, retireIds>>

-----------------------------------------------------------------------------
(* Cancelling.                                                             *)

Cancellable(j) == state[j] \in {"Queued", "Running"}

\* cancel: the state of a queued or running job, then the signal; a job that is
\* terminal or cancelling is left alone.
SetCancelled(j) ==
    IF Cancellable(j)
      THEN /\ state' = [state EXCEPT ![j] = IF @ = "Queued" THEN "Cancelled" ELSE "Cancelling"]
           /\ signalling' = signalling \cup {j}
      ELSE UNCHANGED <<state, signalling>>

Cancel(j) ==
    /\ Cancellable(j)
    /\ SetCancelled(j)
    /\ UNCHANGED <<created, host, large, signalled, taskVars, hostVars>>

Signal(j) ==
    /\ j \in signalling
    /\ signalling' = signalling \ {j}
    /\ signalled' = IF pc[j] = "end" THEN signalled ELSE signalled \cup {j}
    /\ UNCHANGED <<jobVars, taskVars, hostVars>>

-----------------------------------------------------------------------------
(* The task of a job, execute_job.                                         *)

Goto(j, p) == pc' = [pc EXCEPT ![j] = p]

\* The task returns and its local variables are dropped: kill_on_drop.
TaskEnds(j) ==
    /\ Goto(j, "end")
    /\ status' = [status EXCEPT ![j] = "none"]
    /\ pipes' = pipes \ {j}
    /\ seen' = seen \ {j}
    /\ failure' = failure \ {j}
    /\ pipeError' = pipeError \ {j}
    /\ signalled' = signalled \ {j}
    /\ proc' = [proc EXCEPT ![j] = IF @ \in Live THEN "killed" ELSE "none"]

\* finish_cancelled and finish_job: the task enters its result, if the job is
\* still listed, and prunes.
SetFinal(j, result, allowed) ==
    IF state[j] \in allowed
      THEN \E big \in {large, large \cup {j}} :
              /\ state' = Prune([state EXCEPT ![j] = result], big)
              /\ large' = big \cap ListedIn(state')
      ELSE UNCHANGED <<state, large>>

FinishCancelled(j) == SetFinal(j, "Cancelled", States \ {"none", "Cancelled"})
FinishJob(j, st)   == SetFinal(j, st, {"Running", "Cancelling"})

\* The sender of the signal is dropped with the entry.
SenderDropped(j) == state[j] = "none" /\ j \notin signalling

\* The task begins, and waits for a permit unless it is cancelled already.
TaskStart(j) ==
    /\ pc[j] = "start"
    /\ IF j \in signalled
         THEN TaskEnds(j) /\ FinishCancelled(j)
         ELSE Goto(j, "queue") /\ UNCHANGED <<state, large, locals>>
    /\ UNCHANGED <<created, host, signalling, hostVars>>

\* The biased select before a permit is granted: cancellation first.
TaskCancelledInQueue(j) ==
    /\ pc[j] = "queue"
    /\ j \in signalled \/ SenderDropped(j)
    /\ TaskEnds(j)
    /\ FinishCancelled(j)
    /\ UNCHANGED <<created, host, signalling, hostVars>>

Permits == {j \in Jobs : pc[j] \in {"permitted", "spawn", "loop"}}

\* acquire_owned: a permit is free.
TaskPermit(j) ==
    /\ pc[j] = "queue"
    /\ j \notin signalled
    /\ ~SenderDropped(j)
    /\ Cardinality(Permits) < MaxConcurrency
    /\ Goto(j, "permitted")
    /\ UNCHANGED <<jobVars, cancelVars, proc, status, pipes, seen, failure, pipeError,
                   hostVars>>

\* Faulty transition: a job that is no longer queued runs.
TransitionRunningUnchecked(j) ==
    /\ pc[j] = "permitted"
    /\ IF j \in Listed
         THEN /\ state' = [state EXCEPT ![j] = "Running"]
              /\ Goto(j, "spawn")
              /\ UNCHANGED locals
         ELSE UNCHANGED state /\ TaskEnds(j)
    /\ UNCHANGED <<created, host, large, signalling, hostVars>>

\* transition_running: only a job that is still queued runs.
TransitionRunning(j) ==
    /\ pc[j] = "permitted"
    /\ IF state[j] = "Queued"
         THEN /\ state' = [state EXCEPT ![j] = "Running"]
              /\ Goto(j, "spawn")
              /\ UNCHANGED locals
         ELSE UNCHANGED state /\ TaskEnds(j)
    /\ UNCHANGED <<created, host, large, signalling, hostVars>>

\* process.spawn succeeds.
Spawn(j) ==
    /\ pc[j] = "spawn"
    /\ proc' = [proc EXCEPT ![j] = "alive"]
    /\ pipes' = pipes \cup {j}
    /\ Goto(j, "loop")
    /\ UNCHANGED <<jobVars, cancelVars, status, seen, failure, pipeError, hostVars>>

\* process.spawn fails.
SpawnFails(j) ==
    /\ pc[j] = "spawn"
    /\ "spawn" \in Faults
    /\ FinishJob(j, "Failed")
    /\ TaskEnds(j)
    /\ UNCHANGED <<created, host, signalling, hostVars>>

\* child.start_kill: an error once the exit status has been read.
StartKill(j) ==
    IF status[j] # "none"
      THEN failure' = failure \cup {j} /\ UNCHANGED proc
      ELSE /\ proc' = [proc EXCEPT ![j] = IF @ = "alive" THEN "killed" ELSE @]
           /\ UNCHANGED failure

\* The loop sees the cancellation.  The sender cannot be dropped here: a job
\* whose task runs is listed.
SeeCancel(j) ==
    /\ pc[j] = "loop"
    /\ j \notin seen
    /\ j \in signalled
    /\ seen' = seen \cup {j}
    /\ StartKill(j)
    /\ UNCHANGED <<jobVars, cancelVars, pc, status, pipes, pipeError, hostVars>>

\* child.wait returns.
WaitChild(j) ==
    /\ pc[j] = "loop"
    /\ status[j] = "none"
    /\ proc[j] = "exited"
    /\ \E result \in {"success", "error"} : status' = [status EXCEPT ![j] = result]
    /\ UNCHANGED <<jobVars, cancelVars, pc, proc, pipes, seen, failure, pipeError, hostVars>>

\* Both pipes are at their end, which may be before or after the exit.
PipesClose(j) ==
    /\ pc[j] = "loop"
    /\ j \in pipes
    /\ pipes' = pipes \ {j}
    /\ UNCHANGED <<jobVars, cancelVars, pc, proc, status, seen, failure, pipeError, hostVars>>

\* A pipe reader fails.
PipeFails(j) ==
    /\ pc[j] = "loop"
    /\ j \in pipes
    /\ "pipe" \in Faults
    /\ pipeError' = pipeError \cup {j}
    /\ StartKill(j)
    /\ UNCHANGED <<jobVars, cancelVars, pc, status, pipes, seen, hostVars>>

\* Faulty deadline: it is set by a pipe error only.
DeadlinePipesOnly(j) ==
    /\ pc[j] = "loop"
    /\ "stuck" \in Faults
    /\ j \in pipeError
    /\ status[j] = "none" \/ j \in pipes
    /\ Goto(j, "check")
    /\ UNCHANGED <<jobVars, cancelVars, proc, status, pipes, seen, failure, pipeError, hostVars>>

\* COMMAND_CANCEL_TIMEOUT passes before the process and its pipes are gone.
Deadline(j) ==
    /\ pc[j] = "loop"
    /\ "stuck" \in Faults
    /\ j \in seen \cup pipeError
    /\ status[j] = "none" \/ j \in pipes
    /\ failure' = IF j \in seen THEN failure \cup {j} ELSE failure
    /\ Goto(j, "check")
    /\ UNCHANGED <<jobVars, cancelVars, proc, status, pipes, seen, pipeError, hostVars>>

\* The loop ends; the permit is dropped.
LoopEnds(j) ==
    /\ pc[j] = "loop"
    /\ status[j] # "none"
    /\ j \notin pipes
    /\ Goto(j, "check")
    /\ UNCHANGED <<jobVars, cancelVars, proc, status, pipes, seen, failure, pipeError, hostVars>>

\* job_cancellation_requested.
CheckCancelled(j) ==
    /\ pc[j] = "check"
    /\ IF j \in seen \/ state[j] \in {"Cancelling", "Cancelled"}
         THEN /\ IF j \in failure THEN FinishJob(j, "Failed") ELSE FinishCancelled(j)
              /\ TaskEnds(j)
         ELSE /\ Goto(j, "finish")
              /\ UNCHANGED <<state, large, locals>>
    /\ UNCHANGED <<created, host, signalling, hostVars>>

\* finish_completed or finish_failed.
Finish(j) ==
    /\ pc[j] = "finish"
    /\ FinishJob(j, IF j \notin pipeError /\ status[j] = "success" THEN "Completed" ELSE "Failed")
    /\ TaskEnds(j)
    /\ UNCHANGED <<created, host, signalling, hostVars>>

\* The environment: the process exits by itself, or because it was killed.
Exits(j) ==
    /\ proc[j] = "alive"
    /\ proc' = [proc EXCEPT ![j] = "exited"]
    /\ UNCHANGED <<jobVars, cancelVars, pc, status, pipes, seen, failure, pipeError, hostVars>>

KilledExits(j) ==
    /\ proc[j] = "killed"
    /\ proc' = [proc EXCEPT ![j] = IF pc[j] = "end" THEN "none" ELSE "exited"]
    /\ UNCHANGED <<jobVars, cancelVars, pc, status, pipes, seen, failure, pipeError, hostVars>>

-----------------------------------------------------------------------------
(* Deleting a host, retire_host and restore_host.                          *)

JobsOf(h) == {j \in Listed : host[j] = h}

RetireBegin(h) ==
    /\ h \in Deletable
    /\ retire[h] = "none"
    /\ retired' = retired \cup {h}
    /\ retire' = [retire EXCEPT ![h] = "idle"]
    /\ UNCHANGED <<jobVars, cancelVars, taskVars, leases, retireIds>>

\* Faulty retirement: starts in progress are not waited for.
RetireListUnchecked(h) ==
    /\ retire[h] = "idle"
    /\ retire' = [retire EXCEPT ![h] = "cancel"]
    /\ retireIds' = [retireIds EXCEPT ![h] = (JobsOf(h) \cap Pending)]
    /\ UNCHANGED <<jobVars, cancelVars, taskVars, leases, retired>>

\* wait_idle returns; the jobs to cancel are listed.
RetireList(h) ==
    /\ retire[h] = "idle"
    /\ leases[h] = 0
    /\ retire' = [retire EXCEPT ![h] = "cancel"]
    /\ retireIds' = [retireIds EXCEPT ![h] = (JobsOf(h) \cap Pending)]
    /\ UNCHANGED <<jobVars, cancelVars, taskVars, leases, retired>>

RetireCancel(h, j) ==
    /\ retire[h] = "cancel"
    /\ j \in retireIds[h]
    /\ retireIds' = [retireIds EXCEPT ![h] = @ \ {j}]
    /\ SetCancelled(j)
    /\ UNCHANGED <<created, host, large, signalled, taskVars, leases, retired, retire>>

\* All jobs of the host are terminal.
RetireSettled(h) ==
    /\ retire[h] = "cancel"
    /\ retireIds[h] = {}
    /\ (JobsOf(h) \cap Pending) = {}
    /\ retire' = [retire EXCEPT ![h] = "purge"]
    /\ UNCHANGED <<jobVars, cancelVars, taskVars, leases, retired, retireIds>>

RetirePurge(h) ==
    /\ retire[h] = "purge"
    /\ state' = Without(state, JobsOf(h))
    /\ large' = large \ JobsOf(h)
    /\ retire' = [retire EXCEPT ![h] = "done"]
    /\ UNCHANGED <<created, host, cancelVars, taskVars, leases, retired, retireIds>>

\* HOST_RETIREMENT_TIMEOUT passes in one of the two waits.
RetireTimeout(h) ==
    /\ "timeout" \in Faults
    /\ \/ retire[h] = "idle" /\ leases[h] > 0
       \/ retire[h] = "cancel" /\ retireIds[h] = {} /\ (JobsOf(h) \cap Pending) # {}
    /\ retire' = [retire EXCEPT ![h] = "failed"]
    /\ UNCHANGED <<jobVars, cancelVars, taskVars, leases, retired, retireIds>>

\* delete_host: the deletion is aborted, here or in a later step.
Restore(h) ==
    /\ retire[h] \in {"done", "failed"}
    /\ retired' = retired \ {h}
    /\ retire' = [retire EXCEPT ![h] = "none"]
    /\ UNCHANGED <<jobVars, cancelVars, taskVars, leases, retireIds>>

-----------------------------------------------------------------------------
StartStep(h) == RunFails(h) \/ RunRegister(h) \/ RunRejected(h) \/ RecordHandoff(h)

TaskStep(j) ==
    \/ TaskStart(j) \/ TaskCancelledInQueue(j) \/ TaskPermit(j) \/ TransitionRunning(j)
    \/ Spawn(j) \/ SpawnFails(j) \/ SeeCancel(j) \/ WaitChild(j) \/ Deadline(j)
    \/ LoopEnds(j) \/ CheckCancelled(j) \/ Finish(j)

RetireStep(h) ==
    \/ RetireList(h) \/ RetireSettled(h) \/ RetirePurge(h)
    \/ \E j \in Jobs : RetireCancel(h, j)

JobsNext ==
    \/ \E h \in HostIds :
          \/ RunBegin(h) \/ StartStep(h)
          \/ RetireBegin(h) \/ RetireStep(h) \/ RetireTimeout(h) \/ Restore(h)
    \/ \E j \in Jobs :
          \/ Cancel(j) \/ Signal(j)
          \/ TaskStep(j) \/ PipesClose(j) \/ PipeFails(j)
          \/ Exits(j) \/ KilledExits(j)

(* Fairness: the runtime schedules the tasks and requests, timers fire,    *)
(* and the pipes of an exited process close.  A killed process exits,      *)
(* unless it may be stuck.  Nothing is assumed of one that nobody kills.   *)
Fairness ==
    /\ \A h \in HostIds : WF_jobsVars(StartStep(h)) /\ WF_jobsVars(RetireStep(h))
    /\ \A j \in Jobs :
          /\ WF_jobsVars(Signal(j)) /\ WF_jobsVars(TaskStep(j))
          /\ WF_jobsVars(proc[j] = "exited" /\ PipesClose(j))
          /\ WF_jobsVars("stuck" \notin Faults /\ KilledExits(j))

JobsSpec == JobsInit /\ [][JobsNext]_jobsVars /\ Fairness

-----------------------------------------------------------------------------
(* Properties.                                                             *)

\* Every variable keeps its type.
TypeOK ==
    /\ created \in 0 .. MaxJobs
    /\ Listed \subseteq 1 .. created
    /\ host \in [Jobs -> HostIds]
    /\ state \in [Jobs -> States]
    /\ large \subseteq Jobs
    /\ signalling \subseteq Jobs
    /\ signalled \subseteq Jobs
    /\ pc \in [Jobs -> TaskStates]
    /\ proc \in [Jobs -> {"none", "exited"} \cup Live]
    /\ status \in [Jobs -> {"none", "success", "error"}]
    /\ pipes \subseteq Jobs
    /\ seen \subseteq Jobs
    /\ failure \subseteq Jobs
    /\ pipeError \subseteq Jobs
    /\ leases \in [HostIds -> 0 .. MaxStarts]
    /\ retired \subseteq HostIds
    /\ retire \in [HostIds -> {"none", "idle", "cancel", "purge", "done", "failed"}]
    /\ retireIds \in [HostIds -> SUBSET Jobs]

\* retire_host: no job of a host survives its retirement, no start that resolved
\* the host earlier brings a new one, and every process of it was killed at
\* least.
RetiredHostIsQuiet ==
    \A h \in HostIds : retire[h] = "done" =>
        /\ JobsOf(h) = {}
        /\ leases[h] = 0
        /\ \A j \in 1 .. created : host[j] = h => proc[j] # "alive"

\* The result of a job is final: a late cancellation, signal or exit never
\* changes the state of a listed job that has finished.
TerminalIsFinal ==
    [][\A j \in Jobs :
          state[j] \in Terminal => state'[j] \in {state[j], "none"}]_jobsVars

\* A cancellation takes effect: the job ends within a bounded wait, even when
\* the process survives its kill or something keeps its pipes open.
CancelEnds ==
    \A j \in Jobs : state[j] = "Cancelling" ~> state[j] # "Cancelling"

=============================================================================
