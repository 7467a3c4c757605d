-------------------- MODULE CommandsAndTerminals_proofs --------------------
(***************************************************************************)
(* Proofs about CommandJobs and, in the second half, TerminalStream.  The  *)
(* two share no state; each half has its own inductive invariant.          *)
(***************************************************************************)
EXTENDS CommandJobs, TerminalStream, SequenceTheorems, WellFoundedInduction, TLAPS

(***************************************************************************)
(* Proofs about CommandJobs, for any hosts, limits, faults and number of   *)
(* jobs.                                                                   *)
(*                                                                         *)
(* JobInv relates the entry of a job to its task: while the task owns a    *)
(* process, the job is listed as running or being cancelled, so a purge of *)
(* listed jobs that are not pending cannot lose a process; and before the  *)
(* task runs, the entry holds no result that it could overwrite.           *)
(* RetireInv(h) says what retire_host knows at each of its steps: after    *)
(* wait_idle no start of the host is left, after the second wait no        *)
(* pending job, after the purge no job.                                    *)
(***************************************************************************)

Awaiting == {"start", "queue", "permitted"}
Owning   == {"spawn", "loop", "check", "finish"}

JobInv(j) ==
    /\ j > created => state[j] = "none" /\ pc[j] = "none" /\ proc[j] = "none"
    /\ proc[j] = "alive" => pc[j] \in Owning
    /\ pc[j] \in Awaiting => state[j] \in {"none", "Queued", "Cancelled"}
    /\ pc[j] \in Owning => state[j] \in {"Running", "Cancelling"}

RetireInv(h) ==
    /\ retire[h] \in {"idle", "cancel", "purge", "done"} => h \in retired
    /\ retire[h] \in {"cancel", "purge", "done"} => leases[h] = 0
    /\ retire[h] = "purge" => JobsOf(h) \cap Pending = {}
    /\ retire[h] = "done" => JobsOf(h) = {}

\* TypeOK without its bound on the listed jobs, which JobInv implies.
Types ==
    /\ created \in 0 .. MaxJobs
    /\ host \in [Jobs -> HostIds]
    /\ state \in [Jobs -> States]
    /\ large \subseteq Jobs
    /\ signalling \subseteq Jobs
    /\ signalled \subseteq Jobs
    /\ pc \in [Jobs -> TaskStates]
    /\ proc \in [Jobs -> {"none", "exited"} \cup Live]
    /\ status \in [Jobs -> {"none", "success", "error"}]
    /\ pipes \subseteq Jobs
    /\ seen \subseteq Jobs
    /\ failure \subseteq Jobs
    /\ pipeError \subseteq Jobs
    /\ leases \in [HostIds -> 0 .. MaxStarts]
    /\ retired \subseteq HostIds
    /\ retire \in [HostIds -> {"none", "idle", "cancel", "purge", "done", "failed"}]
    /\ retireIds \in [HostIds -> SUBSET Jobs]

\* The inductive invariant.
JobsInv == Types /\ (\A j \in Jobs : JobInv(j)) /\ \A h \in HostIds : RetireInv(h)

\* Listed jobs have been created, by JobInv.
LEMMA TypesSuffice == Types /\ (\A j \in Jobs : JobInv(j)) => TypeOK
<1> SUFFICES ASSUME Types, \A j \in Jobs : JobInv(j) PROVE TypeOK
    OBVIOUS
<1>1. ASSUME NEW j \in Listed PROVE j \in 1 .. created
    BY <1>1, JobsAssumption DEF Listed, Jobs, JobInv, Types
<1> QED
    BY <1>1 DEF Types, TypeOK

\* Pruning drops jobs that are terminal and changes no other
\* (command_job.rs, prune_terminal_jobs).
LEMMA Pruned ==
    ASSUME NEW st \in [Jobs -> States], NEW big
    PROVE  /\ Prune(st, big) \in [Jobs -> States]
           /\ \A j \in Jobs : \/ Prune(st, big)[j] = st[j]
                              \/ st[j] \in Terminal /\ Prune(st, big)[j] = "none"
<1>1. PICK R \in SUBSET TerminalIn(st) : Prune(st, big) = Without(st, R)
    BY Zenon DEF Prune, OldestIn
<1>2. Without(st, R) \in [Jobs -> States]
    BY DEF Without, States
<1> QED
    BY <1>1, <1>2 DEF Without, TerminalIn

\* How a step may change the entry of a job that it does not insert.
Keeps(j) ==
    \/ state'[j] = state[j]
    \/ state[j] \in Terminal /\ state'[j] = "none"

\* What retire_host knows of a host survives a step that takes no lease on it
\* while it is retired, and brings it neither a job nor a pending one.
LEMMA RetireFrame ==
    ASSUME NEW k \in HostIds, RetireInv(k), retire'[k] = retire[k],
           k \in retired => k \in retired' /\ (leases[k] = 0 => leases'[k] = 0),
           retire[k] \in {"purge", "done"} =>
             \A j \in Jobs : state'[j] # "none" /\ host'[j] = k =>
              /\ state[j] # "none" /\ host[j] = k
              /\ state'[j] \in {"Queued", "Running", "Cancelling"} =>
                    state[j] \in {"Queued", "Running", "Cancelling"}
    PROVE  RetireInv(k)'
<1>1. retire[k] \in {"purge", "done"} =>
        /\ JobsOf(k)' \subseteq JobsOf(k)
        /\ (JobsOf(k) \cap Pending)' \subseteq JobsOf(k) \cap Pending
    BY DEF JobsOf, Listed, Pending
<1> QED
    BY <1>1 DEF RetireInv

\* SetFinal enters the result of j, if it is allowed, and prunes.
LEMMA Finals ==
    ASSUME Types, NEW j \in Jobs, NEW result \in Terminal, NEW allowed,
           SetFinal(j, result, allowed)
    PROVE  /\ state' \in [Jobs -> States] /\ large' \subseteq Jobs
           /\ \A i \in Jobs \ {j} : Keeps(i)
           /\ state[j] \in allowed => state'[j] \in {result, "none"}
           /\ state[j] \notin allowed => state'[j] = state[j]
<1> DEFINE st == [state EXCEPT ![j] = result]
<1>1. CASE state[j] \in allowed
    <2>1. st \in [Jobs -> States] /\ st[j] = result /\ \A i \in Jobs \ {j} : st[i] = state[i]
        BY DEF Types, States
    <2>2. PICK big \in {large, large \cup {j}} :
              state' = Prune(st, big) /\ large' = big \cap ListedIn(state')
        BY <1>1 DEF SetFinal
    <2> HIDE DEF st
    <2>3. large' \subseteq Jobs
        BY <2>2 DEF Types
    <2> QED
        BY <1>1, <2>1, <2>2, <2>3, Pruned DEF Keeps
<1>2. CASE state[j] \notin allowed
    BY <1>2 DEF SetFinal, Types, Keeps
<1> QED
    BY <1>1, <1>2

-----------------------------------------------------------------------------
(* Starts.                                                                 *)

\* A start inserts at most one new job of a host that has a lease, and prunes.
LEMMA StartJob ==
    ASSUME JobsInv, NEW h \in HostIds, RunBegin(h) \/ StartStep(h)
    PROVE  JobsInv'
<1>0. Types /\ (\A j \in Jobs : JobInv(j)) /\ \A k \in HostIds : RetireInv(k)
    BY DEF JobsInv
<1>1. CASE RunBegin(h) \/ RunFails(h)
    <2>1. /\ UNCHANGED <<jobVars, cancelVars, taskVars, retired, retire, retireIds>>
          /\ leases' \in [HostIds -> 0 .. MaxStarts]
          /\ \A k \in HostIds \cap retired : leases[k] = 0 => leases'[k] = 0
        <3>1. leases \in [HostIds -> 0 .. MaxStarts] /\ MaxStarts \in Nat
            BY <1>0, JobsAssumption DEF Types
        <3>2. CASE RunBegin(h)
            BY <3>1, <3>2 DEF RunBegin
        <3>3. CASE RunFails(h)
            BY <3>1, <3>3 DEF RunFails
        <3> QED
            BY <1>1, <3>2, <3>3
    <2>2. Types'
        BY <1>0, <2>1 DEF Types, jobVars, cancelVars, taskVars
    <2>3. ASSUME NEW j \in Jobs PROVE JobInv(j)'
        BY <1>0, <2>1 DEF JobInv, jobVars, taskVars
    <2>4. ASSUME NEW k \in HostIds PROVE RetireInv(k)'
        <3>1. UNCHANGED <<state, host, retire, retired>> /\ RetireInv(k)
            BY <1>0, <2>1 DEF jobVars
        <3> QED
            BY <2>1, <3>1, RetireFrame
    <2> QED
        BY <2>2, <2>3, <2>4 DEF JobsInv
<1>2. CASE RunRejected(h) \/ RunRegister(h) \/ RecordHandoff(h)
    <2> DEFINE n == created + 1
    <2>1. /\ leases[h] > 0 /\ leases' = [leases EXCEPT ![h] = @ - 1]
          /\ UNCHANGED <<cancelVars, proc, status, pipes, seen, failure, pipeError,
                         retired, retire, retireIds>>
        BY <1>2 DEF RunRejected, RunRegister, RecordHandoff, taskVars
    <2>2. \/ UNCHANGED <<created, host, pc>> /\ state' = Prune(state, large)
          \/ /\ n \in Jobs /\ created' = n /\ host' = [host EXCEPT ![n] = h]
             /\ \E st \in {"Queued", "Completed"} :
                   /\ state' = [Prune(state, large) EXCEPT ![n] = st]
                   /\ pc' = [pc EXCEPT ![n] = IF st = "Queued" THEN "start" ELSE "end"]
        BY <1>0, <1>2, JobsAssumption
        DEF RunRejected, RunRegister, RecordHandoff, Insert, Types, Jobs, taskVars
    <2>3. large' \subseteq Jobs
        BY <1>0, <1>2 DEF RunRejected, RunRegister, RecordHandoff, Insert, Types
    <2>4. created \in Nat /\ n \notin 1 .. created
        BY <1>0, JobsAssumption DEF Types
    <2>5. PICK pr \in [Jobs -> States] :
              /\ pr = Prune(state, large)
              /\ \A j \in Jobs : pr[j] = state[j] \/ (state[j] \in Terminal /\ pr[j] = "none")
        BY <1>0, Pruned DEF Types
    <2>6. /\ state' \in [Jobs -> States]
          /\ \A j \in Jobs : j # n \/ created' = created => state'[j] = pr[j] /\ host'[j] = host[j]
        <3>1. "Queued" \in States /\ "Completed" \in States
            BY DEF States, Terminal
        <3>2. created' = created => state' = pr /\ host' = host
            BY <2>2, <2>4, <2>5
        <3>3. host \in [Jobs -> HostIds]
            BY <1>0 DEF Types
        <3>4. CASE created' = n
            BY <2>2, <2>4, <2>5, <3>1, <3>3, <3>4
        <3> QED
            BY <2>2, <2>4, <2>5, <3>2, <3>4
    <2>7. Types'
        <3>1. created' \in 0 .. MaxJobs /\ leases' \in [HostIds -> 0 .. MaxStarts]
            BY <1>0, <2>1, <2>2, JobsAssumption DEF Types, Jobs
        <3>2. host' \in [Jobs -> HostIds] /\ pc' \in [Jobs -> TaskStates]
            BY <1>0, <2>2 DEF Types, TaskStates
        <3> QED
            BY <1>0, <2>1, <2>3, <2>6, <3>1, <3>2 DEF Types, cancelVars
    <2>8. ASSUME NEW j \in Jobs PROVE JobInv(j)'
        <3>1. JobInv(j) /\ j \in Nat
            BY <1>0 DEF Jobs
        <3>2. CASE n = j /\ created' = n
            <4>1. proc[j] = "none" /\ proc' = proc
                BY <2>1, <2>4, <3>1, <3>2 DEF JobInv
            <4>2. PICK st \in {"Queued", "Completed"} :
                     state'[j] = st /\ pc'[j] = IF st = "Queued" THEN "start" ELSE "end"
                BY <1>0, <2>2, <2>4, <2>5, <3>2 DEF Types
            <4> QED
                BY <2>4, <3>2, <4>1, <4>2 DEF JobInv, Awaiting, Owning
        <3>3. CASE n # j \/ created' = created
            <4>1. /\ state'[j] = state[j] \/ (state[j] \in Terminal /\ state'[j] = "none")
                  /\ pc'[j] = pc[j] /\ proc' = proc /\ (j > created' => j > created)
                BY <1>0, <2>1, <2>2, <2>4, <2>5, <2>6, <3>1, <3>3 DEF Types
            <4> QED
                BY <3>1, <4>1 DEF JobInv, Awaiting, Owning, Terminal
        <3> QED
            BY <2>2, <3>2, <3>3
    <2>9. ASSUME NEW k \in HostIds PROVE RetireInv(k)'
        <3>0. retire[k] \in {"purge", "done"} => k # h
            BY <1>0, <2>1 DEF RetireInv
        <3>1. ASSUME NEW j \in Jobs, state'[j] # "none", host'[j] = k, k # h
              PROVE  host[j] = k /\ state'[j] = state[j]
            <4>1. j # n \/ created' = created
                BY <1>0, <2>2, <3>1 DEF Types
            <4> QED
                BY <2>5, <2>6, <3>1, <4>1
        <3>2. leases[k] = 0 => leases'[k] = 0
            BY <1>0, <2>1 DEF Types
        <3> QED
            BY <1>0, <2>1, <3>0, <3>1, <3>2, RetireFrame
    <2> QED
        BY <2>7, <2>8, <2>9 DEF JobsInv
<1> QED
    BY <1>1, <1>2 DEF StartStep

-----------------------------------------------------------------------------
(* Cancelling, and the task of a job.                                      *)

PendingStates == {"Queued", "Running", "Cancelling"}

\* A step of one job, its task or its process: the other jobs can only be
\* pruned, and the job does not become pending.
LEMMA JobFrame ==
    ASSUME JobsInv, NEW j \in Jobs, Types', JobInv(j)',
           UNCHANGED <<created, host, leases, retired, retire>>,
           \A i \in Jobs \ {j} : Keeps(i) /\ pc'[i] = pc[i] /\ proc'[i] = proc[i],
           state'[j] # "none" => state[j] # "none",
           state'[j] \in PendingStates => state[j] \in PendingStates
    PROVE  JobsInv'
<1>1. ASSUME NEW i \in Jobs PROVE JobInv(i)'
    <2>1. CASE i # j
        <3>1. JobInv(i) /\ i \in Nat
            BY DEF JobsInv, Jobs
        <3> QED
            BY <2>1, <3>1 DEF JobInv, Keeps, Awaiting, Owning, Terminal
    <2> QED
        BY <2>1
<1>2. ASSUME NEW k \in HostIds PROVE RetireInv(k)'
    <2>1. RetireInv(k)
        BY DEF JobsInv
    <2>2. \A i \in Jobs : state'[i] # "none" =>
             state[i] # "none" /\ (state'[i] \in PendingStates => state[i] \in PendingStates)
        BY DEF Keeps
    <2> QED
        BY <2>1, <2>2, RetireFrame DEF PendingStates
<1> QED
    BY <1>1, <1>2 DEF JobsInv

\* cancel, from a request or from retire_host, and its signal.
LEMMA CancelJob ==
    ASSUME JobsInv, NEW j \in Jobs,
           Cancel(j) \/ Signal(j) \/ \E h \in HostIds : RetireCancel(h, j)
    PROVE  JobsInv'
<1>0. Types /\ JobInv(j)
    BY DEF JobsInv
<1>1. /\ UNCHANGED <<created, host, large, taskVars, leases, retired, retire>>
      /\ signalling' \subseteq Jobs /\ signalled' \subseteq Jobs
      /\ \/ UNCHANGED state
         \/ state[j] = "Queued" /\ state' = [state EXCEPT ![j] = "Cancelled"]
         \/ state[j] = "Running" /\ state' = [state EXCEPT ![j] = "Cancelling"]
    BY <1>0 DEF Cancel, Signal, RetireCancel, SetCancelled, Cancellable, Types, jobVars, hostVars
<1>2. retireIds' \in [HostIds -> SUBSET Jobs]
    <2>1. CASE Cancel(j) \/ Signal(j)
        BY <1>0, <2>1 DEF Cancel, Signal, Types, hostVars
    <2>2. ASSUME NEW h \in HostIds, RetireCancel(h, j) PROVE retireIds' \in [HostIds -> SUBSET Jobs]
        BY <1>0, <2>2 DEF RetireCancel, Types
    <2> QED
        BY <2>1, <2>2
<1>3. Types'
    BY <1>0, <1>1, <1>2 DEF Types, States, Terminal, taskVars
<1>4. JobInv(j)'
    BY <1>0, <1>1 DEF Types, JobInv, Awaiting, Owning, taskVars
<1> QED
    BY <1>0, <1>1, <1>3, <1>4, JobFrame DEF Types, Keeps, PendingStates, taskVars

\* The steps of a task that enter no result, and those of its process.
LEMMA TaskMoves ==
    ASSUME JobsInv, NEW j \in Jobs,
           \/ TaskPermit(j) \/ Spawn(j) \/ SeeCancel(j) \/ WaitChild(j) \/ Deadline(j)
           \/ LoopEnds(j) \/ PipesClose(j) \/ PipeFails(j) \/ Exits(j) \/ KilledExits(j)
    PROVE  JobsInv'
<1>0. Types /\ JobInv(j)
    BY DEF JobsInv
<1>1. /\ UNCHANGED <<created, host, state, large, signalling, signalled, hostVars>>
      /\ pipes' \subseteq Jobs /\ seen' \subseteq Jobs /\ failure' \subseteq Jobs
      /\ pipeError' \subseteq Jobs
    BY <1>0 DEF TaskPermit, Spawn, SeeCancel, WaitChild, Deadline, LoopEnds, PipesClose, PipeFails,
        Exits, KilledExits, StartKill, Types, jobVars, cancelVars
<1>2. status' \in [Jobs -> {"none", "success", "error"}]
    BY <1>0 DEF TaskPermit, Spawn, SeeCancel, WaitChild, Deadline, LoopEnds, PipesClose, PipeFails,
        Exits, KilledExits, Types
<1>3. \/ UNCHANGED pc
      \/ pc[j] = "queue" /\ pc' = [pc EXCEPT ![j] = "permitted"]
      \/ pc[j] = "spawn" /\ pc' = [pc EXCEPT ![j] = "loop"]
      \/ pc[j] = "loop" /\ pc' = [pc EXCEPT ![j] = "check"]
    BY DEF TaskPermit, Spawn, SeeCancel, WaitChild, Deadline, LoopEnds, PipesClose, PipeFails,
        Exits, KilledExits, Goto
<1>4. \/ UNCHANGED proc
      \/ pc'[j] = "loop" /\ pc[j] \in Owning /\ proc' = [proc EXCEPT ![j] = "alive"]
      \/ proc[j] # "none" /\ \E s \in {"none", "killed", "exited"} : proc' = [proc EXCEPT ![j] = s]
    BY <1>0 DEF TaskPermit, Spawn, SeeCancel, WaitChild, Deadline, LoopEnds, PipesClose, PipeFails,
        Exits, KilledExits, StartKill, Goto, Types, Owning
<1>5. Types'
    <2>1. pc' \in [Jobs -> TaskStates] /\ proc' \in [Jobs -> {"none", "exited"} \cup Live]
        BY <1>0, <1>3, <1>4 DEF Types, TaskStates, Live
    <2> QED
        BY <1>0, <1>1, <1>2, <2>1 DEF Types, hostVars
<1>6. JobInv(j)'
    BY <1>0, <1>1, <1>3, <1>4 DEF Types, JobInv, Awaiting, Owning
<1> QED
    BY <1>0, <1>1, <1>3, <1>4, <1>5, <1>6, JobFrame DEF Types, Keeps, hostVars

\* What the end of a task leaves.
LEMMA TaskEnded ==
    ASSUME Types, NEW j \in Jobs, TaskEnds(j)
    PROVE  /\ pc' = [pc EXCEPT ![j] = "end"] /\ pc' \in [Jobs -> TaskStates]
           /\ proc' \in [Jobs -> {"none", "exited"} \cup Live]
           /\ proc'[j] \in {"none", "killed"} /\ \A i \in Jobs \ {j} : proc'[i] = proc[i]
           /\ proc[j] = "none" => proc'[j] = "none"
           /\ status' \in [Jobs -> {"none", "success", "error"}]
           /\ pipes' \subseteq Jobs /\ seen' \subseteq Jobs /\ failure' \subseteq Jobs
           /\ pipeError' \subseteq Jobs /\ signalled' \subseteq Jobs
<1>1. /\ pipes' \subseteq Jobs /\ seen' \subseteq Jobs /\ failure' \subseteq Jobs
      /\ pipeError' \subseteq Jobs /\ signalled' \subseteq Jobs
    BY DEF TaskEnds, Types
<1>2. /\ pc' = [pc EXCEPT ![j] = "end"] /\ pc' \in [Jobs -> TaskStates]
      /\ status' \in [Jobs -> {"none", "success", "error"}]
    BY DEF TaskEnds, Goto, Types, TaskStates
<1>3. /\ proc' \in [Jobs -> {"none", "exited"} \cup Live]
      /\ proc'[j] \in {"none", "killed"} /\ \A i \in Jobs \ {j} : proc'[i] = proc[i]
      /\ proc[j] = "none" => proc'[j] = "none"
    BY DEF TaskEnds, Types, Live
<1> QED
    BY <1>1, <1>2, <1>3

\* A task that ends, with its result or without: its job is no longer pending,
\* unless it was left as it was.
LEMMA TaskFinishes ==
    ASSUME JobsInv, NEW j \in Jobs, TaskEnds(j), pc[j] # "none",
           UNCHANGED <<created, host, signalling, hostVars>>,
           \/ UNCHANGED <<state, large>>
           \/ FinishCancelled(j)
           \/ \E st \in {"Completed", "Failed"} : FinishJob(j, st)
    PROVE  JobsInv'
<1>0. Types /\ JobInv(j)
    BY DEF JobsInv
<1>1. /\ state' \in [Jobs -> States] /\ large' \subseteq Jobs
      /\ \A i \in Jobs \ {j} : Keeps(i)
      /\ state'[j] \in {state[j], "none"} \cup Terminal
      /\ state[j] = "none" => state'[j] = "none"
    <2>1. CASE UNCHANGED <<state, large>>
        BY <1>0, <2>1 DEF Types, Keeps
    <2>2. CASE FinishCancelled(j)
        BY <1>0, <2>2, Finals DEF FinishCancelled, Terminal
    <2>3. ASSUME NEW st \in {"Completed", "Failed"}, FinishJob(j, st)
          PROVE  /\ state' \in [Jobs -> States] /\ large' \subseteq Jobs
                 /\ \A i \in Jobs \ {j} : Keeps(i)
                 /\ state'[j] \in {state[j], "none", st}
                 /\ state[j] = "none" => state'[j] = "none"
        BY <1>0, <2>3, Finals DEF FinishJob, Terminal
    <2> QED
        BY <2>1, <2>2, <2>3 DEF Terminal
<1>2. Types'
    BY <1>0, <1>1, TaskEnded DEF Types, hostVars
<1>3. JobInv(j)'
    BY <1>0, <1>1, TaskEnded DEF JobInv, Awaiting, Owning, Types
<1>4. \A i \in Jobs \ {j} : pc'[i] = pc[i] /\ proc'[i] = proc[i]
    BY <1>0, TaskEnded DEF Types
<1> QED
    BY <1>1, <1>2, <1>3, <1>4, JobFrame DEF hostVars, PendingStates, Terminal

\* The steps of a task at which it may end.
LEMMA TaskDecides ==
    ASSUME JobsInv, NEW j \in Jobs,
           \/ TaskStart(j) \/ TaskCancelledInQueue(j) \/ TransitionRunning(j)
           \/ SpawnFails(j) \/ CheckCancelled(j) \/ Finish(j)
    PROVE  JobsInv'
<1>0. Types /\ JobInv(j)
    BY DEF JobsInv
<1>1. UNCHANGED <<created, host, signalling, hostVars>> /\ pc[j] # "none"
    BY DEF TaskStart, TaskCancelledInQueue, TransitionRunning, SpawnFails, CheckCancelled, Finish
<1>2. CASE TaskEnds(j)
    <2>1. \/ UNCHANGED <<state, large>>
          \/ FinishCancelled(j)
          \/ \E st \in {"Completed", "Failed"} : FinishJob(j, st)
        <3>1. CASE TaskStart(j)
            BY <1>2, <3>1 DEF TaskStart
        <3>2. CASE TransitionRunning(j)
            BY <1>0, <1>2, <3>2 DEF TransitionRunning, TaskEnds, Goto, Types
        <3>3. CASE TaskCancelledInQueue(j) \/ SpawnFails(j) \/ CheckCancelled(j) \/ Finish(j)
            BY <3>3 DEF TaskCancelledInQueue, SpawnFails, CheckCancelled, Finish
        <3> QED
            BY <3>1, <3>2, <3>3
    <2> QED
        BY <1>1, <1>2, <2>1, TaskFinishes
<1>3. CASE ~TaskEnds(j)
    <2>1. /\ UNCHANGED <<large, locals>>
          /\ \/ pc[j] = "start" /\ pc' = [pc EXCEPT ![j] = "queue"] /\ UNCHANGED state
             \/ /\ pc[j] = "permitted" /\ pc' = [pc EXCEPT ![j] = "spawn"]
                /\ state[j] = "Queued" /\ state' = [state EXCEPT ![j] = "Running"]
             \/ pc[j] = "check" /\ pc' = [pc EXCEPT ![j] = "finish"] /\ UNCHANGED state
        BY <1>3 DEF TaskStart, TaskCancelledInQueue, TransitionRunning, SpawnFails, CheckCancelled,
            Finish, Goto
    <2>2. Types'
        <3>1. pc' \in [Jobs -> TaskStates] /\ state' \in [Jobs -> States]
            BY <1>0, <2>1 DEF Types, TaskStates, States
        <3> QED
            BY <1>0, <1>1, <2>1, <3>1 DEF Types, locals, hostVars
    <2>3. JobInv(j)'
        BY <1>0, <1>1, <2>1 DEF Types, JobInv, Awaiting, Owning, locals
    <2> QED
        BY <1>0, <1>1, <2>1, <2>2, <2>3, JobFrame DEF Types, Keeps, PendingStates, locals, hostVars
<1> QED
    BY <1>2, <1>3

-----------------------------------------------------------------------------
(* Deleting a host.                                                        *)

\* retire_host goes on only with what it has waited for.
LEMMA RetireHost ==
    ASSUME JobsInv, NEW h \in HostIds,
           \/ RetireBegin(h) \/ RetireList(h) \/ RetireSettled(h) \/ RetirePurge(h)
           \/ RetireTimeout(h) \/ Restore(h)
    PROVE  JobsInv'
<1>0. Types /\ (\A j \in Jobs : JobInv(j)) /\ \A k \in HostIds : RetireInv(k)
    BY DEF JobsInv
<1>1. CASE RetirePurge(h)
    <2>1. /\ retire[h] = "purge" /\ retire' = [retire EXCEPT ![h] = "done"]
          /\ state' = [j \in Jobs |-> IF j \in JobsOf(h) THEN "none" ELSE state[j]]
          /\ large' \subseteq Jobs
          /\ UNCHANGED <<created, host, cancelVars, taskVars, leases, retired, retireIds>>
        BY <1>0, <1>1 DEF RetirePurge, Without, Types
    <2>2. Types'
        BY <1>0, <2>1 DEF Types, States, cancelVars, taskVars
    <2>3. \A j \in Jobs : j \in JobsOf(h) => state[j] \in Terminal
        BY <1>0, <2>1 DEF RetireInv, JobsOf, Listed, Pending, Types, States, Terminal
    <2>4. ASSUME NEW j \in Jobs PROVE JobInv(j)'
        BY <1>0, <2>1, <2>3 DEF JobInv, Awaiting, Owning, Terminal, taskVars
    <2>5. ASSUME NEW k \in HostIds PROVE RetireInv(k)'
        <3>1. CASE k = h
            <4>1. JobsOf(h)' = {}
                BY <2>1 DEF JobsOf, Listed
            <4> QED
                BY <1>0, <2>1, <3>1, <4>1 DEF RetireInv, Types
        <3>2. CASE k # h
            BY <1>0, <2>1, <3>2, RetireFrame DEF Types
        <3> QED
            BY <3>1, <3>2
    <2> QED
        BY <2>2, <2>4, <2>5 DEF JobsInv
<1>2. CASE \/ RetireBegin(h) \/ RetireList(h) \/ RetireSettled(h) \/ RetireTimeout(h) \/ Restore(h)
    <2>1. /\ UNCHANGED <<jobVars, cancelVars, taskVars, leases>>
          /\ retireIds' \in [HostIds -> SUBSET Jobs] /\ retired' \subseteq HostIds
          /\ retired \ {h} \subseteq retired'
        BY <1>0, <1>2 DEF RetireBegin, RetireList, RetireSettled, RetireTimeout, Restore, JobsOf,
            Listed, Types
    <2>2. \/ retire' = [retire EXCEPT ![h] = "idle"] /\ h \in retired'
          \/ /\ retire[h] = "idle" /\ leases[h] = 0 /\ h \in retired'
             /\ retire' = [retire EXCEPT ![h] = "cancel"]
          \/ /\ retire[h] = "cancel" /\ JobsOf(h) \cap Pending = {} /\ h \in retired'
             /\ retire' = [retire EXCEPT ![h] = "purge"]
          \/ retire' = [retire EXCEPT ![h] = "failed"]
          \/ retire' = [retire EXCEPT ![h] = "none"]
        BY <1>0, <1>2 DEF RetireBegin, RetireList, RetireSettled, RetireTimeout, Restore, RetireInv
    <2>3. Types'
        BY <1>0, <2>1, <2>2 DEF Types, jobVars, cancelVars, taskVars
    <2>4. ASSUME NEW j \in Jobs PROVE JobInv(j)'
        BY <1>0, <2>1 DEF JobInv, jobVars, taskVars
    <2>5. ASSUME NEW k \in HostIds PROVE RetireInv(k)'
        <3>1. JobsOf(k)' = JobsOf(k) /\ Pending' = Pending
            BY <2>1 DEF JobsOf, Listed, Pending, jobVars
        <3>2. CASE k = h
            BY <1>0, <2>1, <2>2, <3>1, <3>2 DEF RetireInv, Types
        <3>3. CASE k # h
            BY <1>0, <2>1, <2>2, <3>1, <3>3 DEF RetireInv, Types
        <3> QED
            BY <3>2, <3>3
    <2> QED
        BY <2>3, <2>4, <2>5 DEF JobsInv
<1> QED
    BY <1>1, <1>2

-----------------------------------------------------------------------------
(* Theorems.                                                               *)

\* Every step keeps the invariant.
LEMMA JobsNextInv == JobsInv /\ [JobsNext]_jobsVars => JobsInv'
<1> SUFFICES ASSUME JobsInv, [JobsNext]_jobsVars PROVE JobsInv'
    OBVIOUS
<1>1. CASE JobsNext
    BY <1>1, StartJob, CancelJob, TaskMoves, TaskDecides, RetireHost
    DEF JobsNext, TaskStep, RetireStep
<1>2. CASE UNCHANGED jobsVars
    <2>1. Types'
        BY <1>2 DEF JobsInv, Types, jobsVars
    <2>2. \A j \in Jobs : JobInv(j)'
        BY <1>2 DEF JobsInv, JobInv, jobsVars
    <2>3. \A h \in HostIds : RetireInv(h)'
        BY <1>2 DEF JobsInv, RetireInv, JobsOf, Listed, Pending, jobsVars
    <2> QED
        BY <2>1, <2>2, <2>3 DEF JobsInv
<1> QED
    BY <1>1, <1>2

\* Without jobs there is nothing to relate.
LEMMA JobsInitInv == JobsInit => JobsInv
<1> SUFFICES ASSUME JobsInit PROVE JobsInv
    OBVIOUS
<1>1. Types
    BY JobsAssumption DEF JobsInit, Types, States, TaskStates, Live
<1>2. \A j \in Jobs : JobInv(j)
    BY DEF JobsInit, JobInv, Awaiting, Owning
<1>3. \A h \in HostIds : RetireInv(h)
    BY DEF JobsInit, RetireInv
<1> QED
    BY <1>1, <1>2, <1>3 DEF JobsInv

\* The inductive invariant holds in every reachable state.
LEMMA JobsInvariance == JobsSpec => []JobsInv
BY JobsInitInv, JobsNextInv, PTL DEF JobsSpec

\* Every variable of the registry keeps its type, and only jobs that were
\* registered are listed.
THEOREM TypeCorrect == JobsSpec => []TypeOK
BY TypesSuffice, JobsInvariance, PTL DEF JobsInv

\* When retire_host has returned, no job of the host is listed, no start of it
\* is under way and every process of its jobs was killed at least
\* (command_job.rs, retire_host).
THEOREM RetirementIsComplete == JobsSpec => []RetiredHostIsQuiet
<1>1. JobsInv => RetiredHostIsQuiet
    <2> SUFFICES ASSUME JobsInv, NEW h \in HostIds, retire[h] = "done"
                 PROVE  /\ JobsOf(h) = {}
                        /\ leases[h] = 0
                        /\ \A j \in 1 .. created : host[j] = h => proc[j] # "alive"
        BY DEF RetiredHostIsQuiet
    <2>1. JobsOf(h) = {} /\ leases[h] = 0
        BY DEF JobsInv, RetireInv
    <2>2. ASSUME NEW j \in 1 .. created, host[j] = h PROVE proc[j] # "alive"
        <3>1. j \in Jobs
            BY JobsAssumption DEF JobsInv, Types, Jobs
        <3> QED
            BY <2>1, <2>2, <3>1 DEF JobsInv, JobInv, JobsOf, Listed
    <2> QED
        BY <2>1, <2>2
<1> QED
    BY <1>1, JobsInvariance, PTL

\* No step of a task, a cancellation or a start changes a result.
LEMMA ResultStays ==
    ASSUME JobsInv, [JobsNext]_jobsVars, NEW j \in Jobs, state[j] \in Terminal
    PROVE  state'[j] \in {state[j], "none"}
<1>0. Types /\ JobInv(j) /\ state[j] # "none"
    BY DEF JobsInv, Terminal
<1>1. ASSUME NEW h \in HostIds, StartStep(h) PROVE state'[j] \in {state[j], "none"}
    <2>1. j # created + 1
        BY <1>0, JobsAssumption DEF JobInv, Jobs, Types
    <2>2. PICK pr \in [Jobs -> States] :
              pr = Prune(state, large) /\ \A i \in Jobs : pr[i] \in {state[i], "none"}
        BY <1>0, Pruned DEF Types
    <2>3. \/ UNCHANGED state
          \/ state' = pr
          \/ \E st \in States : state' = [pr EXCEPT ![created + 1] = st]
        BY <1>1, <2>2 DEF StartStep, RunFails, RunRejected, RunRegister, RecordHandoff, Insert,
            States, Terminal, jobVars
    <2> QED
        BY <2>1, <2>2, <2>3
<1>2. ASSUME NEW i \in Jobs,
             \/ TaskStart(i) \/ TaskCancelledInQueue(i) \/ TransitionRunning(i)
             \/ SpawnFails(i) \/ CheckCancelled(i) \/ Finish(i)
      PROVE  state'[j] \in {state[j], "none"}
    <2>0. JobInv(i)
        BY DEF JobsInv
    <2>1. \/ UNCHANGED state
          \/ state[i] = "Queued" /\ state' = [state EXCEPT ![i] = "Running"]
          \/ FinishCancelled(i) /\ pc[i] \in {"start", "queue", "check"}
          \/ \E st \in {"Completed", "Failed"} : FinishJob(i, st)
        BY <1>2 DEF TaskStart, TaskCancelledInQueue, TransitionRunning, SpawnFails, CheckCancelled,
            Finish
    <2>2. CASE FinishCancelled(i) /\ pc[i] \in {"start", "queue", "check"}
        <3>1. i = j => state[i] = "Cancelled"
            BY <2>0, <2>2 DEF JobInv, Awaiting, Owning, Terminal
        <3>2. i = j => state[i] \notin States \ {"none", "Cancelled"}
            BY <3>1
        <3> QED
            BY <1>0, <2>2, <3>2, Finals DEF FinishCancelled, Keeps, Terminal
    <2>3. ASSUME NEW st \in {"Completed", "Failed"}, FinishJob(i, st)
          PROVE  state'[j] \in {state[j], "none"}
        BY <1>0, <2>3, Finals DEF FinishJob, Keeps, Terminal
    <2> QED
        BY <1>0, <2>1, <2>2, <2>3 DEF Types, Terminal
<1>3. ASSUME NEW i \in Jobs, Cancel(i) \/ Signal(i) \/ \E h \in HostIds : RetireCancel(h, i)
      PROVE  state'[j] \in {state[j], "none"}
    BY <1>0, <1>3 DEF Cancel, Signal, RetireCancel, SetCancelled, Cancellable, Types, Terminal, jobVars
<1>4. ASSUME NEW i \in Jobs,
             \/ TaskPermit(i) \/ Spawn(i) \/ SeeCancel(i) \/ WaitChild(i) \/ Deadline(i)
             \/ LoopEnds(i) \/ PipesClose(i) \/ PipeFails(i) \/ Exits(i) \/ KilledExits(i)
      PROVE  UNCHANGED state
    BY <1>4 DEF TaskPermit, Spawn, SeeCancel, WaitChild, Deadline, LoopEnds, PipesClose, PipeFails,
        Exits, KilledExits, jobVars
<1>5. ASSUME NEW h \in HostIds,
             \/ RunBegin(h) \/ RetireBegin(h) \/ RetireList(h) \/ RetireSettled(h)
             \/ RetirePurge(h) \/ RetireTimeout(h) \/ Restore(h)
      PROVE  state'[j] \in {state[j], "none"}
    BY <1>5 DEF RunBegin, RetireBegin, RetireList, RetireSettled, RetirePurge, RetireTimeout,
        Restore, Without, jobVars
<1>6. CASE UNCHANGED jobsVars
    BY <1>6 DEF jobsVars
<1> QED
    BY <1>1, <1>2, <1>3, <1>4, <1>5, <1>6 DEF JobsNext, TaskStep, RetireStep

\* A result is final: no late cancellation, signal or exit changes the state of
\* a job that has finished, until it is dropped (command_job.rs, finish_job).
THEOREM ResultsAreFinal == JobsSpec => TerminalIsFinal
<1>1. JobsInv /\ [JobsNext]_jobsVars =>
        [\A j \in Jobs : state[j] \in Terminal => state'[j] \in {state[j], "none"}]_jobsVars
    BY ResultStays
<1> QED
    BY <1>1, JobsInvariance, PTL DEF JobsSpec, TerminalIsFinal

-----------------------------------------------------------------------------
(***************************************************************************)
(* Proofs about the input and the output of TerminalStream, for any tabs,  *)
(* sockets, limits and bounds.  First the input:                           *)
(*                                                                         *)
(* Every lease that a tab, a socket or a message under way names is known  *)
(* to be Granted to the tab: in the running generation it is at most the   *)
(* newest lease, and when it is the newest the tab owns the input.  This   *)
(* is what makes the number of a lease mean something to whoever holds it. *)
(***************************************************************************)

\* The stages in which a socket holds a lease.
Holding == {"leased", "greet", "replay", "live", "write", "release"}
SockPhases == {"none", "upgraded", "closing"} \cup Holding
TabPhases == {"idle", "wait", "asking", "ticket", "open"}

\* Lease number l of generation g was granted to tab t.
Granted(t, g, l) ==
    /\ l # 0 /\ g <= generation
    /\ g = generation => l <= input.last /\ (l = input.last => owner = t)

InputInv ==
    /\ generation \in Nat \ {0}
    /\ input \in [active : Nat, issued : SUBSET Nat, last : Nat]
    /\ input.active \in {0, input.last}

IsSequence(w) == \E S : w \in Seq(S)

\* What is on its way says the leases that were granted.
Announces(w, t, g) ==
    \A i \in 1..Len(w) : w[i].kind = "attached" => w[i].lease \in Nat /\ Granted(t, g, w[i].lease)

SockTypes(s) ==
    /\ DOMAIN sock[s] = DOMAIN NoSock
    /\ sock[s].phase \in SockPhases
    /\ {sock[s].ticket, sock[s].gen, sock[s].lease, sock[s].resume, sock[s].granted} \subseteq Nat
    /\ IsSequence(wire[s])

SockInv(s) ==
    /\ sock[s].phase \notin Holding => sock[s].gen = 0 /\ sock[s].lease = 0
    /\ sock[s].phase \in Holding =>
          /\ sock[s].gen = sock[s].ticket
          /\ Granted(sock[s].of, sock[s].gen, sock[s].lease)
    /\ sock[s].phase = "upgraded" /\ sock[s].resume # 0 =>
          Granted(sock[s].of, sock[s].granted, sock[s].resume)
    /\ sock[s].phase = "none" \/ sock[s].link # "up" => wire[s] = <<>>

TabTypes(t) ==
    /\ DOMAIN tab[t] = DOMAIN NewTab
    /\ tab[t].phase \in TabPhases
    /\ {tab[t].gen, tab[t].lease, tab[t].granted, tab[t].resume} \subseteq Nat

TabInv(t) ==
    /\ tab[t].gen <= generation
    /\ tab[t].lease # 0 => Granted(t, tab[t].granted, tab[t].lease)
    /\ tab[t].resume \in {0, tab[t].lease}
    /\ tab[t].phase = "open" =>
          /\ tab[t].resume = 0 /\ tab[t].sock \in Sockets
          /\ sock[tab[t].sock].of = t /\ sock[tab[t].sock].link = "up"
          /\ sock[tab[t].sock].phase # "none"
          /\ sock[tab[t].sock].phase # "closing" => sock[tab[t].sock].ticket = tab[t].gen
          /\ Announces(wire[tab[t].sock], t, tab[t].gen)

\* The inductive invariant.
Inv ==
    /\ InputInv
    /\ sock = [s \in Sockets |-> sock[s]] /\ wire = [s \in Sockets |-> wire[s]]
    /\ tab = [t \in Tabs |-> tab[t]]
    /\ \A s \in Sockets : SockTypes(s) /\ SockInv(s)
    /\ \A t \in Tabs : TabTypes(t) /\ TabInv(t)

\* The messages under way after one is sent, or received.
LEMMA MessagesUnderWay ==
    ASSUME NEW w, IsSequence(w)
    PROVE  /\ Len(w) \in Nat
           /\ \A m : /\ IsSequence(Append(w, m)) /\ Len(Append(w, m)) = Len(w) + 1
                     /\ Append(w, m)[Len(w) + 1] = m
                     /\ \A i \in 1..Len(w) : Append(w, m)[i] = w[i]
           /\ w # <<>> => /\ IsSequence(Tail(w)) /\ Len(Tail(w)) = Len(w) - 1 /\ Len(w) > 0
                          /\ Head(w) = w[1] /\ \A i \in 1..Len(Tail(w)) : Tail(w)[i] = w[i + 1]
<1>1. PICK S : w \in Seq(S)
    BY DEF IsSequence
<1>2. Len(w) \in Nat
    BY <1>1
<1>3. ASSUME NEW m
      PROVE  /\ IsSequence(Append(w, m)) /\ Len(Append(w, m)) = Len(w) + 1
             /\ Append(w, m)[Len(w) + 1] = m
             /\ \A i \in 1..Len(w) : Append(w, m)[i] = w[i]
    <2>1. w \in Seq(S \cup {m})
        BY <1>1, SeqMonotonic
    <2>2. Append(w, m) \in Seq(S \cup {m})
        BY <2>1
    <2>3. /\ Len(Append(w, m)) = Len(w) + 1 /\ Append(w, m)[Len(w) + 1] = m
          /\ \A i \in 1..Len(w) : Append(w, m)[i] = w[i]
        BY <2>1
    <2> QED
        BY <2>2, <2>3 DEF IsSequence
<1>4. ASSUME w # <<>>
      PROVE  /\ IsSequence(Tail(w)) /\ Len(Tail(w)) = Len(w) - 1 /\ Len(w) > 0
             /\ Head(w) = w[1] /\ \A i \in 1..Len(Tail(w)) : Tail(w)[i] = w[i + 1]
    <2>1. Tail(w) \in Seq(S) /\ Len(Tail(w)) = Len(w) - 1 /\ Len(w) > 0
        BY <1>1, <1>4
    <2>2. Head(w) = w[1] /\ \A i \in 1..Len(Tail(w)) : Tail(w)[i] = w[i + 1]
        BY <1>1, <1>4, <2>1
    <2> QED
        BY <2>1, <2>2 DEF IsSequence
<1> QED
    BY <1>2, <1>3, <1>4

\* There is nothing under way on an empty connection.
LEMMA NothingUnderWay == IsSequence(<<>>) /\ \A t, g : Announces(<<>>, t, g)
<1>1. <<>> \in Seq({}) /\ Len(<<>>) = 0
    OBVIOUS
<1> QED
    BY <1>1 DEF IsSequence, Announces

\* What was granted stays granted: newer leases and generations have larger numbers.
LEMMA GrantedKept ==
    ASSUME InputInv, NEW t, NEW g \in Nat, NEW l \in Nat, Granted(t, g, l),
           \/ UNCHANGED <<generation, owner>> /\ input'.last = input.last
           \/ generation' = generation /\ input'.last = input.last + 1
           \/ generation' = generation + 1
    PROVE  Granted(t, g, l)'
BY DEF Granted, InputInv

\* A step of the server task of a socket. It may send a message; only the greeting
\* announces a lease, the one that the socket holds.
LEMMA SocketKept ==
    ASSUME Inv, NEW s \in Sockets, NEW new, UNCHANGED <<generation, tab>>, InputInv',
           \A t : \A g, l \in Nat : Granted(t, g, l) => Granted(t, g, l)',
           sock' = [sock EXCEPT ![s] = new],
           SockTypes(s)', SockInv(s)',
           \/ new.phase = "none" /\ sock[s].link # "up"
           \/ /\ new.phase # "none" /\ new.of = sock[s].of /\ new.link = sock[s].link
              /\ new.phase = "closing" \/ (sock[s].phase # "closing" /\ new.ticket = sock[s].ticket),
           \/ wire' = wire
           \/ \E m : /\ wire' = [wire EXCEPT ![s] = Append(@, m)]
                     /\ m.kind = "attached" => sock[s].phase = "greet" /\ m.lease = sock[s].lease
    PROVE  Inv'
<1>1. /\ sock' = [x \in Sockets |-> sock'[x]] /\ wire' = [x \in Sockets |-> wire'[x]]
      /\ sock'[s] = new /\ tab' = [t \in Tabs |-> tab'[t]]
      /\ \A x \in Sockets \ {s} : sock'[x] = sock[x] /\ wire'[x] = wire[x]
    BY DEF Inv
<1>2. \A t : \A g, l \in Nat : Granted(t, g, l) => Granted(t, g, l)'
    OBVIOUS
<1>3. ASSUME NEW x \in Sockets PROVE SockTypes(x)' /\ SockInv(x)'
    <2>1. CASE x = s
        BY <2>1
    <2>2. CASE x # s
        BY <1>1, <1>2, <2>2 DEF Inv, SockTypes, SockInv
    <2> QED
        BY <2>1, <2>2
<1>4. ASSUME NEW t \in Tabs PROVE TabTypes(t)' /\ TabInv(t)'
    <2>0. TabTypes(t) /\ TabInv(t) /\ tab'[t] = tab[t] /\ {tab[t].gen, tab[t].lease, tab[t].granted} \subseteq Nat
        BY <1>1 DEF Inv, TabTypes
    <2>1. TabTypes(t)'
        BY <2>0 DEF TabTypes
    <2>2. /\ tab'[t].gen <= generation'
          /\ tab'[t].lease # 0 => Granted(t, tab[t].granted, tab[t].lease)'
          /\ tab'[t].resume \in {0, tab'[t].lease}
        BY <1>2, <2>0 DEF TabInv
    <2>3. CASE tab[t].phase = "open" /\ tab[t].sock = s
        <3>1. /\ sock[s].of = t /\ sock[s].link = "up" /\ Announces(wire[s], t, tab[t].gen)
              /\ sock[s].phase # "closing" => sock[s].ticket = tab[t].gen
              /\ sock[s].phase # "none"
            BY <2>0, <2>3 DEF TabInv
        <3>2. SockTypes(s) /\ SockInv(s)
            BY DEF Inv
        <3>3. Announces(wire[s], t, tab[t].gen)'
            <4>1. CASE wire' = wire
                BY <1>2, <2>0, <3>1, <4>1 DEF Announces
            <4>2. CASE \E m : /\ wire' = [wire EXCEPT ![s] = Append(@, m)]
                              /\ m.kind = "attached" => sock[s].phase = "greet" /\ m.lease = sock[s].lease
                <5>1. PICK m : /\ wire' = [wire EXCEPT ![s] = Append(@, m)]
                               /\ m.kind = "attached" => sock[s].phase = "greet" /\ m.lease = sock[s].lease
                    BY <4>2
                <5>2. wire'[s] = Append(wire[s], m)
                    BY <5>1 DEF Inv
                <5>3. m.kind = "attached" => m.lease \in Nat /\ Granted(t, tab[t].gen, m.lease)
                    BY <3>1, <3>2, <5>1 DEF SockTypes, SockInv, Holding
                <5>4. IsSequence(wire[s])
                    BY <3>2 DEF SockTypes
                <5>5. ASSUME NEW i \in 1..Len(wire'[s]), wire'[s][i].kind = "attached"
                      PROVE  wire'[s][i].lease \in Nat /\ Granted(t, tab[t].gen, wire'[s][i].lease)
                    <6>1. i \in 1..Len(wire[s]) \/ i = Len(wire[s]) + 1
                        BY <5>2, <5>4, MessagesUnderWay
                    <6>2. CASE i \in 1..Len(wire[s])
                        BY <3>1, <5>2, <5>4, <5>5, <6>2, MessagesUnderWay DEF Announces
                    <6>3. CASE i = Len(wire[s]) + 1
                        BY <5>2, <5>3, <5>4, <5>5, <6>3, MessagesUnderWay
                    <6> QED
                        BY <6>1, <6>2, <6>3
                <5> QED
                    BY <1>2, <2>0, <5>5 DEF Announces
            <4> QED
                BY <4>1, <4>2
        <3> QED
            BY <1>1, <2>0, <2>1, <2>2, <2>3, <3>1, <3>3 DEF TabInv
    <2>4. CASE ~(tab[t].phase = "open" /\ tab[t].sock = s)
        <3>1. ASSUME tab[t].phase = "open"
              PROVE  Announces(wire[tab[t].sock], t, tab[t].gen)'
            <4>1. wire'[tab[t].sock] = wire[tab[t].sock] /\ Announces(wire[tab[t].sock], t, tab[t].gen)
                BY <1>1, <2>0, <2>4, <3>1 DEF TabInv
            <4> QED
                BY <1>2, <2>0, <4>1 DEF Announces
        <3> QED
            BY <1>1, <2>0, <2>1, <2>2, <2>4, <3>1 DEF TabInv
    <2> QED
        BY <2>3, <2>4
<1> QED
    BY <1>1, <1>3, <1>4 DEF Inv

\* What is on the way from a socket stays a sequence.
LEMMA WireKept ==
    ASSUME NEW s \in Sockets, wire = [x \in Sockets |-> wire[x]], IsSequence(wire[s]),
           wire' = wire \/ \E m : wire' = [wire EXCEPT ![s] = Append(@, m)]
    PROVE  IsSequence(wire'[s])
<1>1. CASE wire' = wire
    BY <1>1
<1>2. CASE \E m : wire' = [wire EXCEPT ![s] = Append(@, m)]
    <2>1. PICK m : wire'[s] = Append(wire[s], m)
        BY <1>2
    <2> QED
        BY <2>1, MessagesUnderWay
<1> QED
    BY <1>1, <1>2

\* A socket goes on, or leaves its loop, with the lease that it holds.
LEMMA SocketGoesOn ==
    ASSUME Inv, NEW s \in Sockets, NEW new, UNCHANGED <<generation, inputVars, tab>>,
           sock' = [sock EXCEPT ![s] = new], sock[s].phase \in Holding,
           DOMAIN new = DOMAIN NoSock, new.phase \in Holding,
           new.of = sock[s].of, new.link = sock[s].link, new.ticket = sock[s].ticket,
           new.gen = sock[s].gen, new.lease = sock[s].lease,
           {new.resume, new.granted} \subseteq Nat,
           \/ wire' = wire
           \/ \E m : /\ wire' = [wire EXCEPT ![s] = Append(@, m)] /\ sock[s].link = "up"
                     /\ m.kind = "attached" => sock[s].phase = "greet" /\ m.lease = sock[s].lease
    PROVE  Inv'
<1>1. SockTypes(s) /\ SockInv(s) /\ InputInv /\ sock'[s] = new
    BY DEF Inv
<1>2. IsSequence(wire'[s])
    BY <1>1, WireKept DEF Inv, SockTypes
<1>3. SockTypes(s)'
    BY <1>1, <1>2 DEF SockTypes, SockPhases
<1>4. SockInv(s)'
    <2>1. Granted(sock[s].of, sock[s].gen, sock[s].lease)'
        BY <1>1 DEF SockInv, Granted, inputVars
    <2>2. sock'[s].link # "up" => wire'[s] = <<>>
        BY <1>1 DEF SockInv
    <2> QED
        BY <1>1, <2>1, <2>2 DEF SockInv, Holding, Granted, inputVars
<1>5. InputInv' /\ \A t : \A g, l \in Nat : Granted(t, g, l) => Granted(t, g, l)'
    BY <1>1 DEF InputInv, Granted, inputVars
<1> QED
    BY <1>1, <1>3, <1>4, <1>5, SocketKept DEF Holding

\* Leaving the loop of a socket keeps the lease and says nothing.
LEMMA LeavesKept ==
    ASSUME Inv, NEW s \in Sockets, UNCHANGED <<generation, inputVars, tab>>,
           sock' = [sock EXCEPT ![s] = Leaves(s)], sock[s].phase \in Holding,
           wire' = wire \/ \E m : Sends(s, m) /\ m.kind # "attached"
    PROVE  Inv'
<1>1. /\ DOMAIN Leaves(s) = DOMAIN NoSock /\ Leaves(s).phase \in Holding
      /\ Leaves(s).of = sock[s].of /\ Leaves(s).link = sock[s].link
      /\ Leaves(s).ticket = sock[s].ticket /\ Leaves(s).gen = sock[s].gen
      /\ Leaves(s).lease = sock[s].lease /\ {Leaves(s).resume, Leaves(s).granted} \subseteq Nat
    BY DEF Leaves, NoSock, Holding
<1> QED
    BY <1>1, SocketGoesOn DEF Sends

\* A serving socket keeps what it is, and the lease, and says only what it may.
Serves(s) ==
    /\ UNCHANGED <<generation, inputVars, tab>>
    /\ sock' = [sock EXCEPT ![s] = sock'[s]]
    /\ DOMAIN sock'[s] = DOMAIN sock[s]
    /\ {sock[s].phase, sock'[s].phase} \subseteq Holding
    /\ sock'[s].of = sock[s].of /\ sock'[s].link = sock[s].link
    /\ sock'[s].ticket = sock[s].ticket /\ sock'[s].gen = sock[s].gen
    /\ sock'[s].lease = sock[s].lease /\ sock'[s].resume = sock[s].resume
    /\ sock'[s].granted = sock[s].granted
    /\ \/ wire' = wire
       \/ \E m : /\ Sends(s, m)
                 /\ m.kind = "attached" => sock[s].phase = "greet" /\ m.lease = sock[s].lease

LEMMA ServesKept ==
    ASSUME Inv, NEW s \in Sockets, Serves(s)
    PROVE  Inv'
<1> DEFINE new == sock'[s]
<1>1. SockTypes(s) /\ sock = [x \in Sockets |-> sock[x]]
    BY DEF Inv
<1>2. /\ new.of = sock[s].of /\ new.link = sock[s].link /\ new.ticket = sock[s].ticket
      /\ new.gen = sock[s].gen /\ new.lease = sock[s].lease
      /\ {new.resume, new.granted} \subseteq Nat
    BY <1>1 DEF Serves, SockTypes
<1>3. /\ sock[s].phase \in Holding /\ new.phase \in Holding /\ DOMAIN new = DOMAIN NoSock
    BY <1>1 DEF Serves, SockTypes
<1> QED
    BY <1>2, <1>3, SocketGoesOn DEF Serves, Sends

\* The steps of a socket that holds a lease.
LEMMA ServingKept ==
    ASSUME Inv, NEW s \in Sockets,
           \/ AttachStream(s) \/ Greet(s) \/ SendMarker(s) \/ SendReplay(s)
           \/ ReplayComplete(s) \/ SendLive(s) \/ InputFrame(s)
           \/ WriteInput(s) /\ IsCurrent(s)
    PROVE  Inv'
<1>0. SockTypes(s) /\ sock = [x \in Sockets |-> sock[x]]
    BY DEF Inv
<1>1. CASE AttachStream(s)
    <2>1. PICK v1, v2, v3, v4 :
              sock'[s] = [sock[s] EXCEPT !.phase = "greet", !.marker = v1, !.upto = v2,
                                         !.position = v3, !.sent = v4]
        BY <1>0, <1>1 DEF AttachStream
    <2>2. sock' = [sock EXCEPT ![s] = sock'[s]] /\ sock[s].phase = "leased"
          /\ UNCHANGED <<generation, inputVars, tab, wire>>
        BY <1>0, <1>1 DEF AttachStream, ptyVars
    <2>3. Serves(s)
        BY <1>0, <2>1, <2>2 DEF Serves, Holding
    <2> QED
        BY <2>3, ServesKept
<1>2. CASE Greet(s)
    BY <1>0, <1>2, ServesKept DEF Serves, SockTypes, NoSock, Holding, ptyVars, inputVars, Greet, Attached
<1>3. CASE SendMarker(s)
    BY <1>0, <1>3, ServesKept DEF Serves, SockTypes, NoSock, Holding, ptyVars, inputVars, SendMarker, Marker
<1>4. CASE SendReplay(s)
    BY <1>0, <1>4, ServesKept DEF Serves, SockTypes, NoSock, Holding, ptyVars, inputVars, SendReplay, Event
<1>5. CASE ReplayComplete(s)
    BY <1>0, <1>5, ServesKept DEF Serves, SockTypes, NoSock, Holding, ptyVars, inputVars, ReplayComplete, Complete
<1>6. CASE SendLive(s)
    <2>1. sock'[s] = [sock[s] EXCEPT !.sent = sock[s].position, !.position = sock[s].position + 1]
        BY <1>0, <1>6 DEF SendLive
    <2>2. sock' = [sock EXCEPT ![s] = sock'[s]] /\ sock[s].phase = "live"
          /\ UNCHANGED <<generation, inputVars, tab>> /\ Sends(s, Event(sock[s].position))
        BY <1>0, <1>6 DEF SendLive, ptyVars
    <2>3. Event(sock[s].position).kind # "attached"
        BY DEF Event
    <2>4. Serves(s)
        BY <1>0, <2>1, <2>2, <2>3 DEF Serves, Holding
    <2> QED
        BY <2>4, ServesKept
<1>7. CASE InputFrame(s)
    BY <1>0, <1>7, ServesKept DEF Serves, SockTypes, NoSock, Holding, ptyVars, inputVars, InputFrame
<1>8. CASE WriteInput(s) /\ IsCurrent(s)
    BY <1>0, <1>8, ServesKept DEF Serves, SockTypes, NoSock, Holding, ptyVars, inputVars, WriteInput
<1> QED
    BY <1>1, <1>2, <1>3, <1>4, <1>5, <1>6, <1>7, <1>8

\* The steps in which such a socket leaves its loop.
LEMMA LeavingKept ==
    ASSUME Inv, NEW s \in Sockets,
           \/ Lagged(s) \/ StreamClosed(s) \/ NotCurrent(s) \/ SendTimeout(s)
           \/ WriteInput(s) /\ ~IsCurrent(s)
           \/ Broken(s) /\ sock[s].lease # 0
    PROVE  Inv'
<1>0. SockInv(s) /\ sock = [x \in Sockets |-> sock[x]]
    BY DEF Inv
<1> USE DEF Holding, ptyVars, inputVars
<1>1. CASE Lagged(s)
    <2>1. Sends(s, Resync) /\ Resync.kind # "attached"
        BY <1>1 DEF Lagged, Resync
    <2> QED
        BY <1>1, <2>1, LeavesKept DEF Lagged
<1>2. CASE StreamClosed(s)
    BY <1>2, LeavesKept DEF StreamClosed
<1>3. CASE NotCurrent(s)
    <2>1. Sends(s, ControlMoved) /\ ControlMoved.kind # "attached"
        BY <1>3 DEF NotCurrent, ControlMoved
    <2> QED
        BY <1>3, <2>1, LeavesKept DEF NotCurrent
<1>4. CASE SendTimeout(s)
    BY <1>4, LeavesKept DEF SendTimeout
<1>5. CASE WriteInput(s) /\ ~IsCurrent(s)
    BY <1>0, <1>5, LeavesKept DEF WriteInput
<1>6. CASE Broken(s) /\ sock[s].lease # 0
    BY <1>0, <1>6, LeavesKept DEF Broken, SockInv
<1> QED
    BY <1>1, <1>2, <1>3, <1>4, <1>5, <1>6

\* A socket is closed; its last message, if any, announces nothing.
LEMMA ClosingKept ==
    ASSUME Inv, NEW s \in Sockets, UNCHANGED <<generation, owner, tab>>,
           InputInv', input'.last = input.last,
           sock' = [sock EXCEPT ![s] = Closing(s)],
           wire' = wire \/ \E m : Sends(s, m) /\ m.kind # "attached"
    PROVE  Inv'
<1>1. SockTypes(s) /\ SockInv(s) /\ sock = [x \in Sockets |-> sock[x]]
    BY DEF Inv
<1>2. \A t : \A g, l \in Nat : Granted(t, g, l) => Granted(t, g, l)'
    BY DEF Granted
<1>3. /\ sock'[s] = Closing(s)
      /\ DOMAIN Closing(s) = DOMAIN NoSock /\ Closing(s).phase \in {"none", "closing"}
      /\ Closing(s).gen = 0 /\ Closing(s).lease = 0 /\ Closing(s).ticket = 0
      /\ Closing(s).resume = 0 /\ Closing(s).granted = 0
      /\ Closing(s).phase = "none" => sock[s].link # "up"
      /\ Closing(s).phase = "closing" =>
            sock[s].link = "up" /\ Closing(s).link = "up" /\ Closing(s).of = sock[s].of
    BY <1>1 DEF Closing, NoSock
<1>4. /\ IsSequence(wire'[s])
      /\ sock[s].link # "up" => wire'[s] = <<>>
    <2>1. IsSequence(wire'[s])
        BY <1>1, WireKept DEF Inv, SockTypes, Sends
    <2>2. sock[s].link # "up" => wire'[s] = <<>>
        BY <1>1 DEF SockInv, Sends
    <2> QED
        BY <2>1, <2>2
<1>5. SockTypes(s)'
    BY <1>3, <1>4 DEF SockTypes, SockPhases
<1>6. SockInv(s)'
    BY <1>3, <1>4 DEF SockInv, Holding
<1> QED
    BY <1>2, <1>3, <1>5, <1>6, SocketKept DEF Sends

\* The steps in which a socket is closed, its lease refused or released.
LEMMA ClosingStepsKept ==
    ASSUME Inv, NEW s \in Sockets,
           LeaseRefused(s) \/ ReleaseInput(s) \/ (Broken(s) /\ sock[s].lease = 0)
    PROVE  Inv'
<1>0. InputInv
    BY DEF Inv
<1>1. CASE LeaseRefused(s)
    <2>1. /\ UNCHANGED <<generation, input, owner, tab>>
          /\ sock' = [sock EXCEPT ![s] = Closing(s)]
        BY <1>1 DEF LeaseRefused, ptyVars, inputVars
    <2>2. \E m : Sends(s, m) /\ m.kind # "attached"
        <3>1. AttachError.kind # "attached" /\ ControlMoved.kind # "attached"
            BY DEF AttachError, ControlMoved
        <3> QED
            BY <1>1, <3>1 DEF LeaseRefused
    <2> QED
        BY <1>0, <2>1, <2>2, ClosingKept DEF InputInv
<1>2. CASE Broken(s) /\ sock[s].lease = 0
    BY <1>0, <1>2, ClosingKept DEF Broken, ptyVars, inputVars, InputInv
<1>3. CASE ReleaseInput(s)
    <2>1. InputInv' /\ input'.last = input.last
        BY <1>0, <1>3 DEF ReleaseInput, Released, InputInv, ptyVars
    <2> QED
        BY <1>3, <2>1, ClosingKept DEF ReleaseInput, ptyVars
<1> QED
    BY <1>1, <1>2, <1>3

\* An attachment takes the newest lease, and with it the input.
LEMMA TakeLeaseKept ==
    ASSUME Inv, NEW s \in Sockets, TakeLease(s)
    PROVE  Inv'
<1>1. SockTypes(s) /\ SockInv(s) /\ InputInv /\ sock = [x \in Sockets |-> sock[x]]
    BY DEF Inv
<1>2. /\ sock'[s] = [sock[s] EXCEPT !.phase = "leased", !.gen = generation,
                                    !.lease = input.last + 1]
      /\ sock' = [sock EXCEPT ![s] = sock'[s]]
      /\ sock[s].phase = "upgraded" /\ sock[s].ticket = generation
      /\ UNCHANGED <<generation, wire, tab>>
      /\ input' = Activated(input) /\ owner' = sock[s].of
    BY <1>1 DEF TakeLease, MayAttach, ptyVars
<1>3. /\ DOMAIN sock'[s] = DOMAIN sock[s] /\ sock'[s].phase = "leased"
      /\ sock'[s].gen = generation /\ sock'[s].lease = input.last + 1
      /\ sock'[s].of = sock[s].of /\ sock'[s].link = sock[s].link
      /\ sock'[s].ticket = sock[s].ticket /\ sock'[s].resume = sock[s].resume
      /\ sock'[s].granted = sock[s].granted
    BY <1>1, <1>2 DEF SockTypes, NoSock
<1>4. InputInv' /\ input'.last = input.last + 1
    BY <1>1, <1>2 DEF InputInv, Activated
<1>5. \A t : \A g, l \in Nat : Granted(t, g, l) => Granted(t, g, l)'
    BY <1>1, <1>2, <1>4, GrantedKept
<1>6. SockTypes(s)'
    BY <1>1, <1>2, <1>3 DEF SockTypes, SockPhases, Holding, InputInv
<1>7. SockInv(s)'
    BY <1>1, <1>2, <1>3, <1>4 DEF SockInv, Granted, Holding, InputInv
<1> QED
    BY <1>2, <1>3, <1>4, <1>5, <1>6, <1>7, SocketKept

\* The PTY: what was granted in an earlier generation means nothing in a new one.
LEMMA PtyKept ==
    ASSUME Inv, PtyStep
    PROVE  Inv'
<1>1. /\ InputInv' /\ generation' >= generation
      /\ \A t : \A g, l \in Nat : Granted(t, g, l) => Granted(t, g, l)'
      /\ UNCHANGED <<sock, wire, tab>>
    <2>0. InputInv
        BY DEF Inv
    <2>1. CASE Exit \/ \E size \in Sizes : Output(size)
        BY <2>0, <2>1 DEF Exit, Output, InputInv, Granted, inputVars
    <2>2. CASE Reconnect
        <3>1. InputInv' /\ generation' >= generation /\ UNCHANGED <<sock, wire, tab>>
            BY <2>0, <2>2 DEF Reconnect, NewInput, InputInv
        <3>2. generation' = generation + 1
            BY <2>2 DEF Reconnect
        <3> QED
            BY <2>0, <3>1, <3>2, GrantedKept
    <2> QED
        BY <2>1, <2>2 DEF PtyStep
<1>2. ASSUME NEW s \in Sockets PROVE SockTypes(s)' /\ SockInv(s)'
    BY <1>1 DEF Inv, SockTypes, SockInv
<1>3. ASSUME NEW t \in Tabs PROVE TabTypes(t)' /\ TabInv(t)'
    <2>1. TabTypes(t) /\ TabInv(t) /\ generation \in Nat /\ generation' \in Nat
        BY <1>1 DEF Inv, InputInv
    <2>2. TabTypes(t)' /\ tab'[t] = tab[t] /\ {tab[t].gen, tab[t].lease, tab[t].granted} \subseteq Nat
        BY <1>1, <2>1 DEF TabTypes
    <2>3. tab[t].phase = "open" => Announces(wire[tab[t].sock], t, tab[t].gen)'
        BY <1>1, <2>1, <2>2 DEF TabInv, Announces
    <2> QED
        BY <1>1, <2>1, <2>2, <2>3 DEF TabInv
<1> QED
    BY <1>1, <1>2, <1>3 DEF Inv

\* A step of a tab leaves the sockets and the messages of the others alone.
LEMMA TabKept ==
    ASSUME Inv, NEW t \in Tabs, NEW new, UNCHANGED <<generation, inputVars>>,
           tab' = [tab EXCEPT ![t] = new], TabTypes(t)', TabInv(t)',
           sock' = [s \in Sockets |-> sock'[s]], wire' = [s \in Sockets |-> wire'[s]],
           \A s \in Sockets : \/ sock'[s] = sock[s] /\ wire'[s] = wire[s]
                              \/ /\ SockTypes(s)' /\ SockInv(s)'
                                 /\ sock[s].phase = "none" \/ sock[s].of = t
    PROVE  Inv'
<1>1. InputInv' /\ \A x, g, l : Granted(x, g, l)' <=> Granted(x, g, l)
    BY DEF Inv, InputInv, Granted, inputVars
<1>2. ASSUME NEW s \in Sockets PROVE SockTypes(s)' /\ SockInv(s)'
    BY <1>1, <1>2 DEF Inv, SockTypes, SockInv
<1>3. ASSUME NEW x \in Tabs PROVE TabTypes(x)' /\ TabInv(x)'
    <2>1. CASE x = t
        BY <2>1
    <2>2. CASE x # t
        <3>1. TabTypes(x) /\ TabInv(x) /\ tab'[x] = tab[x]
            BY <2>2 DEF Inv
        <3>2. TabTypes(x)'
            BY <3>1 DEF TabTypes
        <3>3. ASSUME tab[x].phase = "open"
              PROVE  /\ sock'[tab[x].sock] = sock[tab[x].sock]
                     /\ Announces(wire[tab[x].sock], x, tab[x].gen)'
            <4>1. /\ tab[x].sock \in Sockets /\ sock[tab[x].sock].of = x
                  /\ sock[tab[x].sock].phase # "none"
                  /\ Announces(wire[tab[x].sock], x, tab[x].gen)
                BY <3>1, <3>3 DEF TabInv
            <4>2. sock'[tab[x].sock] = sock[tab[x].sock] /\ wire'[tab[x].sock] = wire[tab[x].sock]
                BY <2>2, <4>1
            <4> QED
                BY <1>1, <3>1, <4>1, <4>2 DEF Announces
        <3> QED
            BY <1>1, <3>1, <3>2, <3>3 DEF TabInv, inputVars
    <2> QED
        BY <2>1, <2>2
<1>4. tab' = [x \in Tabs |-> tab'[x]]
    BY DEF Inv
<1> QED
    BY <1>1, <1>2, <1>3, <1>4 DEF Inv

\* A tab whose socket is gone knows what it knew, and may mean to resume.
LEMMA HangupKept ==
    ASSUME Inv, NEW t \in Tabs, NEW new, UNCHANGED <<generation, inputVars>>,
           tab[t].phase = "open", Hangup(t), tab' = [tab EXCEPT ![t] = new],
           DOMAIN new = DOMAIN NewTab, new.phase \in {"idle", "wait"},
           new.gen = tab[t].gen, new.lease = tab[t].lease, new.granted = tab[t].granted,
           new.resume \in {0, tab[t].lease}
    PROVE  Inv'
<1>1. /\ TabTypes(t) /\ TabInv(t) /\ tab[t].sock \in Sockets
      /\ SockTypes(tab[t].sock) /\ SockInv(tab[t].sock) /\ sock[tab[t].sock].of = t
      /\ tab'[t] = new
    BY DEF Inv, TabInv
<1>2. \A x, g, l : Granted(x, g, l)' <=> Granted(x, g, l)
    BY DEF Granted, inputVars
<1>3. TabTypes(t)' /\ TabInv(t)'
    BY <1>1, <1>2 DEF TabTypes, TabInv, TabPhases
<1>4. sock' = [s \in Sockets |-> sock'[s]] /\ wire' = [s \in Sockets |-> wire'[s]]
    BY DEF Hangup
<1>5. ASSUME NEW s \in Sockets
      PROVE  \/ sock'[s] = sock[s] /\ wire'[s] = wire[s]
             \/ SockTypes(s)' /\ SockInv(s)' /\ sock[s].of = t
    <2>1. CASE s # tab[t].sock
        BY <2>1 DEF Hangup
    <2>2. CASE s = tab[t].sock
        <3>1. wire'[s] = <<>> /\ sock'[s] = Gone(s) /\ SockTypes(s) /\ SockInv(s) /\ sock[s].of = t
            BY <1>1, <2>2 DEF Hangup
        <3>2. SockTypes(s)'
            BY <3>1, NothingUnderWay DEF SockTypes, Gone, NoSock, SockPhases
        <3>3. SockInv(s)'
            <4>1. CASE sock[s].phase = "closing"
                BY <3>1, <4>1 DEF SockInv, Gone, NoSock, Holding
            <4>2. CASE sock[s].phase # "closing"
                <5>1. sock'[s] = [sock[s] EXCEPT !.link = "gone"]
                    BY <3>1, <4>2 DEF Gone
                <5> QED
                    BY <1>2, <3>1, <5>1 DEF SockInv, SockTypes, NoSock, Holding
            <4> QED
                BY <4>1, <4>2
        <3> QED
            BY <3>1, <3>2, <3>3
    <2> QED
        BY <2>1, <2>2
<1> QED
    BY <1>3, <1>4, <1>5, TabKept

\* Giving up a connection, with or without a recovery.
LEMMA DetachedShape ==
    ASSUME Inv, NEW t \in Tabs, NEW new \in {Detached(tab[t]), Reattaching(tab[t])}
    PROVE  /\ DOMAIN new = DOMAIN NewTab /\ new.phase \in {"idle", "wait"}
           /\ new.gen = tab[t].gen /\ new.lease = tab[t].lease /\ new.granted = tab[t].granted
           /\ new.resume \in {0, tab[t].lease}
<1>1. TabTypes(t) /\ TabInv(t)
    BY DEF Inv
<1> QED
    BY <1>1 DEF TabTypes, TabInv, Detached, Reattaching, NewTab

\* The steps in which a tab leaves its socket.
LEMMA LeavingTabKept ==
    ASSUME Inv, NEW t \in Tabs,
           \/ Leave(t) \/ Reattach(t) \/ Closed(t) \/ Cut(t)
           \/ Receive(t) /\ Head(wire[tab[t].sock]).kind \in {"moved", "error"}
    PROVE  Inv'
<1>1. PICK new \in {Detached(tab[t]), Reattaching(tab[t])} :
          /\ UNCHANGED <<generation, inputVars>> /\ tab[t].phase = "open" /\ Hangup(t)
          /\ tab' = [tab EXCEPT ![t] = new]
    BY DEF Leave, Reattach, Closed, Cut, Receive, ptyVars
<1> QED
    BY <1>1, DetachedShape, HangupKept

\* A set of numbers has a least one.
LEMMA LeastIsMember ==
    ASSUME NEW F \in SUBSET Nat, F # {}
    PROVE  (CHOOSE n \in F : \A x \in F : n <= x) \in F
<1>1. IsWellFoundedOn({p \in Nat \X Nat : p[1] < p[2]}, Nat)
    BY NatLessThanWellFounded DEF OpToRel
<1>2. PICK n \in F : \A x \in F : ~ (<<x, n>> \in {p \in Nat \X Nat : p[1] < p[2]})
    BY <1>1, WFMin
<1>3. \A x \in F : n <= x
    <2>1. ASSUME NEW x \in F PROVE n <= x
        <3>1. x \in Nat /\ n \in Nat /\ ~ (<<x, n>> \in {p \in Nat \X Nat : p[1] < p[2]})
            BY <1>2
        <3> QED
            BY <3>1
    <2> QED
        BY <2>1
<1> QED
    BY <1>3

\* The socket that an upgrade takes is one of the free ones.
LEMMA FreeSocket ==
    ASSUME Free # {}
    PROVE  (CHOOSE s \in Free : \A x \in Free : s <= x) \in Free
<1>1. Free \in SUBSET Nat
    BY StreamAssumption DEF Free
<1> QED
    BY <1>1, LeastIsMember

\* The steps of a tab that has no socket: what it knows stays, and a ticket is of the
\* running generation.
LEMMA AskingTabKept ==
    ASSUME Inv, NEW t \in Tabs,
           \/ Attach(t) \/ Retry(t) \/ OpenTerminalInput(t) \/ AskFails(t)
           \/ TerminalUpgrade(t) /\ UNCHANGED sock
    PROVE  Inv'
<1>1. TabTypes(t) /\ TabInv(t) /\ InputInv /\ tab = [x \in Tabs |-> tab[x]]
    BY DEF Inv
<1>2. /\ DOMAIN tab'[t] = DOMAIN NewTab /\ tab'[t].phase \in TabPhases \ {"open"}
      /\ tab'[t].gen \in {tab[t].gen, generation}
      /\ tab'[t].lease = tab[t].lease /\ tab'[t].granted = tab[t].granted
      /\ tab'[t].resume \in {0, tab[t].lease}
      /\ tab' = [tab EXCEPT ![t] = tab'[t]]
      /\ UNCHANGED <<generation, inputVars, sock, wire>>
    <2>1. CASE Attach(t)
        BY <1>1, <2>1 DEF Attach, TabTypes, TabInv, TabPhases, NewTab, ptyVars
    <2>2. CASE Retry(t)
        BY <1>1, <2>2 DEF Retry, TabTypes, TabInv, TabPhases, NewTab, ptyVars
    <2>3. CASE OpenTerminalInput(t)
        <3>1. PICK new : /\ tab'[t] = new /\ tab' = [tab EXCEPT ![t] = new]
                         /\ UNCHANGED <<generation, inputVars, sock, wire>>
                         /\ \/ new = [Detached(tab[t]) EXCEPT !.resume = 0]
                            \/ \E n : new = [tab[t] EXCEPT !.phase = "ticket", !.gen = generation,
                                                           !.seq = n]
            BY <1>1, <2>3 DEF OpenTerminalInput, ptyVars
        <3> QED
            BY <1>1, <3>1 DEF TabTypes, TabInv, TabPhases, NewTab, Detached
    <2>4. CASE AskFails(t)
        BY <1>1, <2>4, DetachedShape DEF AskFails, TabPhases, ptyVars
    <2>5. CASE TerminalUpgrade(t) /\ UNCHANGED sock
        <3>1. CASE running /\ tab[t].gen = generation
            \* The socket that is taken was free, hence it changes.
            <4>1. PICK s : /\ sock' = [sock EXCEPT ![s] =
                                  [NoSock EXCEPT !.phase = "upgraded", !.of = t,
                                                 !.ticket = tab[t].gen,
                                                 !.since = tab[t].seq,
                                                 !.resume = tab[t].resume,
                                                 !.granted = tab[t].granted]]
                           /\ s \in Free
                BY <2>5, <3>1, FreeSocket DEF TerminalUpgrade
            <4> QED
                BY <2>5, <4>1 DEF Free, NoSock, Inv
        <3>2. CASE ~(running /\ tab[t].gen = generation)
            BY <1>1, <2>5, <3>2, DetachedShape DEF TerminalUpgrade, TabPhases, ptyVars
        <3> QED
            BY <3>1, <3>2
    <2> QED
        BY <2>1, <2>2, <2>3, <2>4, <2>5
<1>3. TabTypes(t)' /\ TabInv(t)'
    BY <1>1, <1>2 DEF TabTypes, TabInv, Granted, InputInv, inputVars
<1>4. sock' = [s \in Sockets |-> sock'[s]] /\ wire' = [s \in Sockets |-> wire'[s]]
    BY <1>2 DEF Inv
<1> QED
    BY <1>2, <1>3, <1>4, TabKept

\* An upgrade: the new socket has the ticket of the tab, and may name its lease.
LEMMA UpgradeKept ==
    ASSUME Inv, NEW t \in Tabs, TerminalUpgrade(t), running /\ tab[t].gen = generation
    PROVE  Inv'
<1>1. TabTypes(t) /\ TabInv(t) /\ tab = [x \in Tabs |-> tab[x]] /\ sock = [x \in Sockets |-> sock[x]]
    BY DEF Inv
<1> DEFINE new == [NoSock EXCEPT !.phase = "upgraded", !.of = t, !.ticket = tab[t].gen,
                                 !.since = tab[t].seq, !.resume = tab[t].resume,
                                 !.granted = tab[t].granted]
<1>2. PICK s \in Free :
          /\ sock' = [sock EXCEPT ![s] = new]
          /\ tab' = [tab EXCEPT ![t].phase = "open", ![t].sock = s, ![t].resume = 0]
          /\ UNCHANGED <<generation, inputVars, wire>>
    BY FreeSocket DEF TerminalUpgrade, ptyVars
<1>3. s \in Sockets /\ sock[s].phase = "none" /\ wire[s] = <<>> /\ SockTypes(s)
    BY DEF Free, Inv, SockInv
<1>4. /\ sock'[s] = new
      /\ DOMAIN new = DOMAIN NoSock /\ new.phase = "upgraded" /\ new.of = t /\ new.link = "up"
      /\ new.ticket = tab[t].gen /\ new.gen = 0 /\ new.lease = 0
      /\ new.resume = tab[t].resume /\ new.granted = tab[t].granted
    BY <1>1, <1>2, <1>3 DEF NoSock
<1> HIDE DEF new
<1>5. tab'[t] = [tab[t] EXCEPT !.phase = "open", !.sock = s, !.resume = 0]
    BY <1>1, <1>2
<1>6. /\ DOMAIN tab'[t] = DOMAIN NewTab /\ tab'[t].phase = "open" /\ tab'[t].sock = s
      /\ tab'[t].resume = 0 /\ tab'[t].gen = tab[t].gen /\ tab'[t].lease = tab[t].lease
      /\ tab'[t].granted = tab[t].granted
    BY <1>1, <1>5 DEF TabTypes, NewTab
<1>7. \A x, g, l : Granted(x, g, l)' <=> Granted(x, g, l)
    BY <1>2 DEF Granted, inputVars
<1>8. SockTypes(s)' /\ SockInv(s)'
    <2>1. SockTypes(s)'
        BY <1>1, <1>2, <1>3, <1>4 DEF SockTypes, TabTypes, SockPhases
    <2>2. tab[t].resume # 0 => Granted(t, tab[t].granted, tab[t].resume)
        BY <1>1 DEF TabInv
    <2> QED
        BY <1>2, <1>3, <1>4, <1>7, <2>1, <2>2 DEF SockInv, Holding
<1>9. TabTypes(t)' /\ TabInv(t)'
    <2>1. Announces(wire[s], t, tab[t].gen)'
        BY <1>2, <1>3, NothingUnderWay DEF Announces
    <2> QED
        BY <1>1, <1>2, <1>3, <1>4, <1>6, <1>7, <2>1 DEF TabTypes, TabInv, TabPhases
<1>10. /\ sock' = [x \in Sockets |-> sock'[x]] /\ wire' = [x \in Sockets |-> wire'[x]]
       /\ tab' = [tab EXCEPT ![t] = tab'[t]]
    BY <1>1, <1>2 DEF Inv
<1>11. ASSUME NEW x \in Sockets
       PROVE  \/ sock'[x] = sock[x] /\ wire'[x] = wire[x]
              \/ SockTypes(x)' /\ SockInv(x)' /\ sock[x].phase = "none"
    BY <1>1, <1>2, <1>3, <1>8
<1> QED
    BY <1>2, <1>9, <1>10, <1>11, TabKept

\* A message is received that leaves the socket open.
LEMMA ReceiveKept ==
    ASSUME Inv, NEW t \in Tabs, Receive(t),
           Head(wire[tab[t].sock]).kind \notin {"moved", "error"}
    PROVE  Inv'
<1>0. PICK s, m : s = tab[t].sock /\ m = Head(wire[s])
    OBVIOUS
<1>1. /\ TabTypes(t) /\ TabInv(t) /\ tab = [x \in Tabs |-> tab[x]]
      /\ tab[t].phase = "open" /\ s \in Sockets /\ wire[s] # <<>> /\ IsSequence(wire[s])
      /\ SockTypes(s) /\ SockInv(s) /\ sock[s].of = t
    BY <1>0 DEF Inv, TabInv, SockTypes, Receive
<1>2. /\ wire' = [wire EXCEPT ![s] = Tail(@)] /\ UNCHANGED <<sock, generation, inputVars>>
      /\ tab' = [tab EXCEPT ![t] = tab'[t]]
    BY <1>0, <1>1 DEF Receive, ptyVars
<1>3. /\ wire'[s] = Tail(wire[s]) /\ IsSequence(wire'[s])
      /\ Len(wire'[s]) \in Nat /\ Len(wire[s]) = Len(wire'[s]) + 1
      /\ m = wire[s][1] /\ \A i \in 1..Len(wire'[s]) : wire'[s][i] = wire[s][i + 1]
    BY <1>0, <1>1, <1>2, MessagesUnderWay DEF Inv
<1>4. Announces(wire[s], t, tab[t].gen)
    BY <1>0, <1>1 DEF TabInv
<1>5. /\ DOMAIN tab'[t] = DOMAIN NewTab /\ tab'[t].phase = "open" /\ tab'[t].sock = s
      /\ tab'[t].resume = tab[t].resume /\ tab'[t].gen = tab[t].gen
      /\ \/ tab'[t].lease = tab[t].lease /\ tab'[t].granted = tab[t].granted
         \/ m.kind = "attached" /\ tab'[t].lease = m.lease /\ tab'[t].granted = tab[t].gen
    <2>1. \/ tab'[t] = [tab[t] EXCEPT !.lease = m.lease, !.granted = tab[t].gen] /\ m.kind = "attached"
          \/ tab'[t] = [tab[t] EXCEPT !.control = TRUE]
          \/ tab'[t] = [tab[t] EXCEPT !.retry = TRUE]
          \/ tab'[t] = Shows(tab[t], m)
        BY <1>0, <1>1 DEF Receive
    <2>2. \/ Shows(tab[t], m) = tab[t]
          \/ \E n : Shows(tab[t], m) = [tab[t] EXCEPT !.seq = n]
          \/ Shows(tab[t], m) = [tab[t] EXCEPT !.retry = TRUE]
        BY DEF Shows
    <2>3. DOMAIN tab[t] = DOMAIN NewTab
        BY <1>1 DEF TabTypes
    <2>4. CASE tab'[t] = [tab[t] EXCEPT !.lease = m.lease, !.granted = tab[t].gen] /\ m.kind = "attached"
        BY <1>0, <1>1, <2>3, <2>4 DEF NewTab
    <2>5. CASE tab'[t] = tab[t]
        BY <1>0, <1>1, <2>3, <2>5
    <2>6. CASE \E v : \/ tab'[t] = [tab[t] EXCEPT !.control = v]
                      \/ tab'[t] = [tab[t] EXCEPT !.retry = v]
                      \/ tab'[t] = [tab[t] EXCEPT !.seq = v]
        BY <1>0, <1>1, <2>3, <2>6 DEF NewTab
    <2> QED
        BY <2>1, <2>2, <2>4, <2>5, <2>6
<1>6. m.kind = "attached" => m.lease \in Nat /\ Granted(t, tab[t].gen, m.lease)
    BY <1>3, <1>4 DEF Announces
<1>7. \A x, g, l : Granted(x, g, l)' <=> Granted(x, g, l)
    BY <1>2 DEF Granted, inputVars
<1>8. Announces(wire[s], t, tab[t].gen)'
    BY <1>2, <1>3, <1>4, <1>5, <1>7 DEF Announces
<1>9. TabTypes(t)'
    BY <1>1, <1>5, <1>6 DEF TabTypes, TabPhases
<1>10. TabInv(t)'
    BY <1>0, <1>1, <1>2, <1>5, <1>6, <1>7, <1>8 DEF TabInv, inputVars
<1>11. SockTypes(s)' /\ SockInv(s)'
    BY <1>1, <1>2, <1>3, <1>7 DEF SockTypes, SockInv, inputVars
<1>12. sock' = [x \in Sockets |-> sock'[x]] /\ wire' = [x \in Sockets |-> wire'[x]]
    BY <1>2 DEF Inv
<1>13. ASSUME NEW x \in Sockets
       PROVE  \/ sock'[x] = sock[x] /\ wire'[x] = wire[x]
              \/ SockTypes(x)' /\ SockInv(x)' /\ sock[x].of = t
    BY <1>1, <1>2, <1>11 DEF Inv
<1> QED
    BY <1>2, <1>9, <1>10, <1>12, <1>13, TabKept

\* Nothing is attached when the session starts.
LEMMA InitInv == Init => Inv
<1> SUFFICES ASSUME Init PROVE Inv
    OBVIOUS
<1>1. InputInv
    BY DEF Init, InputInv, NewInput
<1>2. ASSUME NEW s \in Sockets PROVE SockTypes(s) /\ SockInv(s)
    BY NothingUnderWay DEF Init, SockTypes, SockInv, NoSock, SockPhases, Holding
<1>3. ASSUME NEW t \in Tabs PROVE TabTypes(t) /\ TabInv(t)
    BY DEF Init, TabTypes, TabInv, NewTab, TabPhases
<1> QED
    BY <1>1, <1>2, <1>3 DEF Inv, Init

LEMMA StutterInv == Inv /\ UNCHANGED vars => Inv'
<1> SUFFICES ASSUME Inv, UNCHANGED vars PROVE Inv'
    OBVIOUS
<1>1. UNCHANGED <<generation, input, owner, sock, wire, tab>>
    BY DEF vars, ptyVars, inputVars
<1>2. \A x, g, l : Granted(x, g, l)' <=> Granted(x, g, l)
    BY <1>1 DEF Granted
<1>3. InputInv'
    BY <1>1 DEF Inv, InputInv
<1>4. ASSUME NEW s \in Sockets PROVE SockTypes(s)' /\ SockInv(s)'
    BY <1>1, <1>2 DEF Inv, SockTypes, SockInv
<1>5. ASSUME NEW t \in Tabs PROVE TabTypes(t)' /\ TabInv(t)'
    <2>1. TabTypes(t)' /\ TabInv(t)
        BY <1>1 DEF Inv, TabTypes
    <2>2. tab[t].phase = "open" => Announces(wire[tab[t].sock], t, tab[t].gen)'
        BY <1>1, <1>2, <2>1 DEF TabInv, Announces
    <2> QED
        BY <1>1, <1>2, <2>1, <2>2 DEF TabInv
<1> QED
    BY <1>1, <1>3, <1>4, <1>5 DEF Inv

\* One line for each action of the sockets and the tabs.
LEMMA NextInv == Inv /\ Next => Inv'
<1> SUFFICES ASSUME Inv, Next PROVE Inv'
    OBVIOUS
<1>1. CASE PtyStep
    BY <1>1, PtyKept
<1>2. ASSUME NEW s \in Sockets, SocketStep(s) PROVE Inv'
    <2>1. CASE TakeLease(s)
        BY <2>1, TakeLeaseKept
    <2>2. CASE \/ AttachStream(s) \/ Greet(s) \/ SendMarker(s) \/ SendReplay(s)
               \/ ReplayComplete(s) \/ SendLive(s) \/ InputFrame(s)
               \/ WriteInput(s) /\ IsCurrent(s)
        BY <2>2, ServingKept
    <2>3. CASE \/ Lagged(s) \/ StreamClosed(s) \/ NotCurrent(s) \/ SendTimeout(s)
               \/ WriteInput(s) /\ ~IsCurrent(s)
               \/ Broken(s) /\ sock[s].lease # 0
        BY <2>3, LeavingKept
    <2>4. CASE LeaseRefused(s) \/ ReleaseInput(s) \/ (Broken(s) /\ sock[s].lease = 0)
        BY <2>4, ClosingStepsKept
    <2>5. CASE WriteInput(s)
        BY <2>2, <2>3, <2>5
    <2>6. CASE Broken(s)
        BY <2>3, <2>4, <2>6
    <2> QED
        BY <1>2, <2>1, <2>2, <2>3, <2>4, <2>5, <2>6 DEF SocketStep
<1>3. ASSUME NEW t \in Tabs, TabStep(t) PROVE Inv'
    <2>1. CASE Attach(t) \/ Retry(t) \/ OpenTerminalInput(t) \/ AskFails(t)
        BY <2>1, AskingTabKept
    <2>2. CASE TerminalUpgrade(t)
        <3>1. CASE running /\ tab[t].gen = generation
            BY <2>2, <3>1, UpgradeKept
        <3>2. CASE ~(running /\ tab[t].gen = generation)
            <4>1. UNCHANGED sock
                BY <2>2, <3>2 DEF TerminalUpgrade
            <4> QED
                BY <2>2, <4>1, AskingTabKept
        <3> QED
            BY <3>1, <3>2
    <2>3. CASE Leave(t) \/ Reattach(t) \/ Closed(t) \/ Cut(t)
        BY <2>3, LeavingTabKept
    <2>4. CASE Receive(t)
        BY <2>4, LeavingTabKept, ReceiveKept
    <2> QED
        BY <1>3, <2>1, <2>2, <2>3, <2>4 DEF TabStep
<1> QED
    BY <1>1, <1>2, <1>3 DEF Next

THEOREM Invariance == Spec => []Inv
<1>1. Inv /\ [Next]_vars => Inv'
    BY NextInv, StutterInv
<1> QED
    BY <1>1, InitInv, PTL DEF Spec

\* Only its own task moves a socket on: others leave it as it is, take it when it is
\* free, or hang up.
LEMMA OwnSteps ==
    ASSUME Inv, Next, NEW s \in Sockets, ~SocketStep(s), sock[s].phase # "none"
    PROVE  sock'[s].phase \in {sock[s].phase, "none"}
<1>0. sock = [x \in Sockets |-> sock[x]] /\ SockTypes(s)
    BY DEF Inv
<1>1. CASE PtyStep
    BY <1>1 DEF PtyStep, Output, Exit, Reconnect
<1>2. ASSUME NEW x \in Sockets, SocketStep(x)
      PROVE  sock'[s].phase \in {sock[s].phase, "none"}
    <2>1. x # s
        BY <1>2
    <2>2. \E new : sock' = [sock EXCEPT ![x] = new]
        <3>1. sock' = [sock EXCEPT ![x] = sock'[x]]
            BY <1>0, <1>2 DEF SocketStep, TakeLease, LeaseRefused, AttachStream, Greet, SendMarker,
                     SendReplay, ReplayComplete, SendLive, Lagged, StreamClosed, NotCurrent,
                     InputFrame, WriteInput, Broken, SendTimeout, ReleaseInput
        <3> QED
            BY <3>1
    <2> QED
        BY <1>0, <2>1, <2>2
<1>3. ASSUME NEW t \in Tabs, TabStep(t)
      PROVE  sock'[s].phase \in {sock[s].phase, "none"}
    <2>1. CASE UNCHANGED sock
        BY <2>1
    <2>2. CASE Hangup(t)
        <3>1. sock'[s] \in {sock[s], Gone(s)}
            BY <2>2 DEF Hangup
        <3> QED
            BY <1>0, <3>1 DEF Gone, SockTypes, NoSock
    <2>3. CASE TerminalUpgrade(t) /\ ~UNCHANGED sock
        <3>1. PICK x \in Free : \E new : sock' = [sock EXCEPT ![x] = new]
            BY <2>3, FreeSocket DEF TerminalUpgrade
        <3> QED
            BY <1>0, <3>1 DEF Free
    <2> QED
        BY <1>3, <2>1, <2>2, <2>3 DEF TabStep, Attach, Leave, Retry, OpenTerminalInput, AskFails,
                                     Receive, Reattach, Closed, Cut
<1> QED
    BY <1>1, <1>2, <1>3 DEF Next

\* How a socket comes to hold a lease, and how input is written.
LEMMA LeaseIsTaken ==
    ASSUME Inv, Next, NEW s \in Sockets, sock[s].phase = "upgraded", sock'[s].phase = "leased"
    PROVE  TakeLease(s)
<1>1. SocketStep(s) /\ sock = [x \in Sockets |-> sock[x]]
    BY OwnSteps DEF Inv
<1>2. ASSUME LeaseRefused(s) \/ Broken(s)
      PROVE  FALSE
    <2>1. sock'[s] \in {Closing(s), Leaves(s)}
        BY <1>1, <1>2 DEF LeaseRefused, Broken
    <2>2. Closing(s).phase # "leased" /\ Leaves(s).phase # "leased"
        BY DEF Closing, Leaves, NoSock
    <2> QED
        BY <2>1, <2>2
<1> QED
    BY <1>1, <1>2 DEF SocketStep, AttachStream, Greet, SendMarker, SendReplay, ReplayComplete,
          SendLive, Lagged, StreamClosed, NotCurrent, InputFrame, WriteInput, SendTimeout, ReleaseInput

LEMMA InputIsWritten ==
    ASSUME Inv, Next, NEW s \in Sockets, sock[s].phase = "write", sock'[s].phase = "live"
    PROVE  IsCurrent(s)
<1>1. SocketStep(s) /\ sock = [x \in Sockets |-> sock[x]]
    BY OwnSteps DEF Inv
<1>2. WriteInput(s)
    BY <1>1 DEF SocketStep, TakeLease, LeaseRefused, AttachStream, Greet, SendMarker, SendReplay,
          ReplayComplete, SendLive, Lagged, StreamClosed, NotCurrent, InputFrame, Broken,
          SendTimeout, ReleaseInput
<1>3. CASE ~IsCurrent(s)
    <2>1. sock'[s] = Leaves(s)
        BY <1>1, <1>2, <1>3 DEF WriteInput
    <2> QED
        BY <2>1 DEF Leaves, NoSock
<1> QED
    BY <1>3

\* resume_lease takes the newest lease only, and in the generation that granted the
\* lease only its tab can name the newest one.
THEOREM RecoveryRenewsItsOwn == Spec => RecoveryOnlyRenews
<1>1. ASSUME Inv, [Next]_vars, NEW s \in Sockets, sock[s].phase = "upgraded",
             sock'[s].phase = "leased", sock[s].resume # 0, sock[s].granted = generation
      PROVE  owner = sock[s].of
    <2>1. Next
        BY <1>1 DEF vars
    <2>2. sock[s].resume = input.last
        BY <1>1, <2>1, LeaseIsTaken DEF TakeLease, MayResume
    <2>3. Granted(sock[s].of, sock[s].granted, sock[s].resume) /\ SockTypes(s)
        BY <1>1 DEF Inv, SockInv
    <2> QED
        BY <1>1, <2>2, <2>3 DEF Granted, SockTypes, Inv, InputInv
<1>2. Inv /\ [Next]_vars =>
        \A s \in Sockets :
            (/\ sock[s].phase = "upgraded" /\ sock'[s].phase = "leased"
             /\ sock[s].resume # 0 /\ sock[s].granted = generation)
                => owner = sock[s].of
    BY <1>1
<1> QED
    BY <1>2, Invariance, PTL DEF Spec, RecoveryOnlyRenews

\* write_input reaches the PTY only for the tab that took control last, with a ticket
\* of the generation that runs.
THEOREM OnlyTheOwnerWrites == Spec => InputIsOwned
<1>1. ASSUME Inv, [Next]_vars, NEW s \in Sockets, sock[s].phase = "write", sock'[s].phase = "live"
      PROVE  running /\ sock[s].ticket = generation /\ owner = sock[s].of
    <2>1. Next
        BY <1>1 DEF vars
    <2>2. /\ running /\ sock[s].gen = generation /\ input.active = sock[s].lease
        BY <1>1, <2>1, InputIsWritten DEF IsCurrent
    <2>3. Granted(sock[s].of, sock[s].gen, sock[s].lease) /\ SockTypes(s) /\ InputInv
        BY <1>1 DEF Inv, SockInv, Holding
    <2>4. sock[s].gen = sock[s].ticket
        BY <1>1 DEF Inv, SockInv, Holding
    <2> QED
        BY <2>2, <2>3, <2>4 DEF Granted, SockTypes, InputInv
<1>2. Inv /\ [Next]_vars =>
        \A s \in Sockets :
            (sock[s].phase = "write" /\ sock'[s].phase = "live")
                => running /\ sock[s].ticket = generation /\ owner = sock[s].of
    BY <1>1
<1> QED
    BY <1>2, Invariance, PTL DEF Spec, InputIsOwned

-----------------------------------------------------------------------------
(* What a tab is shown.  A tab may read an event when it has the one       *)
(* before, or will have read it from what is under way (Chain), and a      *)
(* socket sends only what follows the last it has sent (Covers).           *)

\* A message with the number of an event: the event, or the marker of a gap up to it.
Numbered(m) == m.kind \in {"event", "truncated"}

\* Each event under way follows q, or something that is read before it.
Chain(w, q) ==
    \A i \in 1..Len(w) :
        /\ Numbered(w[i]) => w[i].seq \in Int
        /\ w[i].kind = "event" =>
              \/ w[i].seq <= q + 1
              \/ \E j \in 1..(i - 1) : Numbered(w[j]) /\ w[i].seq <= w[j].seq + 1

\* Whoever has q and reads w has n.
Covers(w, q, n) ==
    n <= q \/ \E j \in 1..Len(w) : Numbered(w[j]) /\ n <= w[j].seq

StreamInv ==
    /\ generation \in Generations
    /\ stream = [g \in Generations |-> stream[g]]
    /\ \A g \in Generations :
          /\ DOMAIN stream[g] = DOMAIN NewStream
          /\ stream[g].next \in Nat /\ IsSequence(stream[g].log)

ReadInv(s) ==
    /\ {sock[s].since, sock[s].sent, sock[s].upto, sock[s].position} \subseteq Int
    /\ sock[s].phase \in Holding => sock[s].gen \in Generations
    /\ sock[s].phase \in {"greet", "replay"} => sock[s].position = sock[s].upto + 1

\* A socket serves a tab: what it has sent so far is under way, or was read.
Serving(s, q) ==
    /\ Chain(wire[s], q)
    /\ sock[s].phase \in {"upgraded", "leased", "greet"} => wire[s] = <<>> /\ sock[s].since = q
    /\ sock[s].phase \in {"greet", "replay"} /\ ~sock[s].marker => Covers(wire[s], q, sock[s].sent)
    /\ sock[s].phase \in {"live", "write"} => Covers(wire[s], q, sock[s].position - 1)

ShownInv(t) ==
    /\ tab[t].seq \in Int
    /\ tab[t].phase = "open" => Serving(tab[t].sock, tab[t].seq)

GapInv ==
    /\ StreamInv
    /\ \A s \in Sockets : ReadInv(s)
    /\ \A t \in Tabs : ShownInv(t)

\* A message that is sent after the others, event or not.
LEMMA ChainGrows ==
    ASSUME NEW w, IsSequence(w), NEW q \in Int, NEW m, Chain(w, q),
           Numbered(m) => m.seq \in Int,
           m.kind = "event" => Covers(w, q, m.seq - 1)
    PROVE  Chain(Append(w, m), q)
<1>1. /\ Len(w) \in Nat /\ Len(Append(w, m)) = Len(w) + 1
      /\ Append(w, m)[Len(w) + 1] = m /\ \A i \in 1..Len(w) : Append(w, m)[i] = w[i]
    BY MessagesUnderWay
<1>2. ASSUME NEW i \in 1..(Len(w) + 1)
      PROVE  /\ Numbered(Append(w, m)[i]) => Append(w, m)[i].seq \in Int
             /\ Append(w, m)[i].kind = "event" =>
                   \/ Append(w, m)[i].seq <= q + 1
                   \/ \E j \in 1..(i - 1) : /\ Numbered(Append(w, m)[j])
                                            /\ Append(w, m)[i].seq <= Append(w, m)[j].seq + 1
    <2>1. CASE i \in 1..Len(w)
        <3>1. \A j \in 1..(i - 1) : j \in 1..Len(w)
            BY <1>1, <2>1
        <3> QED
            BY <1>1, <2>1, <3>1 DEF Chain
    <2>2. CASE i = Len(w) + 1
        <3>1. CASE m.kind = "event"
            <4>1. m.seq \in Int
                BY <3>1 DEF Numbered
            <4>2. CASE m.seq - 1 <= q
                BY <1>1, <2>2, <4>1, <4>2
            <4>3. CASE \E j \in 1..Len(w) : Numbered(w[j]) /\ m.seq - 1 <= w[j].seq
                <5>1. PICK j \in 1..Len(w) : Numbered(w[j]) /\ m.seq - 1 <= w[j].seq
                    BY <4>3
                <5>2. w[j].seq \in Int
                    BY <5>1 DEF Chain
                <5>3. m.seq <= w[j].seq + 1 /\ j \in 1..(i - 1)
                    BY <1>1, <2>2, <4>1, <5>1, <5>2
                <5> QED
                    BY <1>1, <2>2, <4>1, <5>1, <5>3
            <4> QED
                BY <3>1, <4>2, <4>3 DEF Covers
        <3>2. CASE m.kind # "event"
            BY <1>1, <2>2, <3>2
        <3> QED
            BY <3>1, <3>2
    <2> QED
        BY <1>1, <2>1, <2>2
<1> QED
    BY <1>1, <1>2 DEF Chain

\* What is covered stays so, and a numbered message covers its number.
LEMMA CoversGrows ==
    ASSUME NEW w, IsSequence(w), NEW q \in Int, NEW m, NEW n,
           Covers(w, q, n) \/ (Numbered(m) /\ m.seq = n /\ n \in Int)
    PROVE  Covers(Append(w, m), q, n)
<1>1. /\ Len(w) \in Nat /\ Len(Append(w, m)) = Len(w) + 1
      /\ Append(w, m)[Len(w) + 1] = m /\ \A i \in 1..Len(w) : Append(w, m)[i] = w[i]
    BY MessagesUnderWay
<1>2. CASE n <= q
    BY <1>2 DEF Covers
<1>3. CASE \E j \in 1..Len(w) : Numbered(w[j]) /\ n <= w[j].seq
    <2>1. PICK j \in 1..Len(w) : Numbered(w[j]) /\ n <= w[j].seq
        BY <1>3
    <2>2. j \in 1..(Len(w) + 1) /\ Append(w, m)[j] = w[j]
        BY <1>1
    <2> QED
        BY <1>1, <2>1, <2>2 DEF Covers
<1>4. CASE Numbered(m) /\ m.seq = n /\ n \in Int
    <2>1. Len(w) + 1 \in 1..(Len(w) + 1) /\ n <= m.seq
        BY <1>1, <1>4
    <2> QED
        BY <1>1, <1>4, <2>1 DEF Covers
<1> QED
    BY <1>2, <1>3, <1>4 DEF Covers

LEMMA CoversLess ==
    ASSUME NEW w, NEW q \in Int, NEW n \in Int, NEW k \in Int, k <= n, Chain(w, q), Covers(w, q, n)
    PROVE  Covers(w, q, k)
<1>1. CASE n <= q
    BY <1>1 DEF Covers
<1>2. CASE \E j \in 1..Len(w) : Numbered(w[j]) /\ n <= w[j].seq
    <2>1. PICK j \in 1..Len(w) : Numbered(w[j]) /\ n <= w[j].seq
        BY <1>2
    <2>2. w[j].seq \in Int /\ k <= w[j].seq
        BY <2>1 DEF Chain
    <2> QED
        BY <2>1, <2>2 DEF Covers
<1> QED
    BY <1>1, <1>2 DEF Covers

\* The first message is read: what the tab has then is no less, and covers the rest.
LEMMA ChainShrinks ==
    ASSUME NEW w, IsSequence(w), w # <<>>, NEW q \in Int, NEW r \in Int, q <= r, Chain(w, q),
           Numbered(Head(w)) => Head(w).seq <= r
    PROVE  /\ Chain(Tail(w), r)
           /\ \A n \in Int : Covers(w, q, n) => Covers(Tail(w), r, n)
<1>1. /\ IsSequence(Tail(w)) /\ Len(w) \in Nat /\ Len(Tail(w)) = Len(w) - 1 /\ Len(w) > 0
      /\ Head(w) = w[1] /\ \A i \in 1..Len(Tail(w)) : Tail(w)[i] = w[i + 1]
    BY MessagesUnderWay
<1>2. \A j \in 1..Len(w) : j = 1 \/ (j - 1 \in 1..Len(Tail(w)) /\ Tail(w)[j - 1] = w[j])
    BY <1>1
<1>3. \A i \in 1..Len(w) : Numbered(w[i]) => w[i].seq \in Int
    BY DEF Chain
<1>4. ASSUME NEW i \in 1..Len(Tail(w))
      PROVE  /\ Numbered(Tail(w)[i]) => Tail(w)[i].seq \in Int
             /\ Tail(w)[i].kind = "event" =>
                   \/ Tail(w)[i].seq <= r + 1
                   \/ \E j \in 1..(i - 1) : Numbered(Tail(w)[j]) /\ Tail(w)[i].seq <= Tail(w)[j].seq + 1
    <2>1. i + 1 \in 1..Len(w) /\ Tail(w)[i] = w[i + 1]
        BY <1>1
    <2>2. Numbered(Tail(w)[i]) => Tail(w)[i].seq \in Int
        BY <1>3, <2>1
    <2>3. CASE Tail(w)[i].kind = "event"
        <3>1. w[i + 1].seq \in Int
            BY <2>1, <2>2, <2>3 DEF Numbered
        <3>2. CASE w[i + 1].seq <= q + 1
            BY <2>1, <3>1, <3>2
        <3>3. CASE \E j \in 1..i : Numbered(w[j]) /\ w[i + 1].seq <= w[j].seq + 1
            <4>1. PICK j \in 1..i : Numbered(w[j]) /\ w[i + 1].seq <= w[j].seq + 1
                BY <3>3
            <4>2. j \in 1..Len(w) /\ w[j].seq \in Int
                BY <1>3, <2>1, <4>1
            <4>3. CASE j = 1
                <5>1. w[1].seq <= r /\ w[1].seq \in Int /\ w[i + 1].seq <= w[1].seq + 1
                    BY <1>1, <4>1, <4>2, <4>3
                <5> QED
                    BY <2>1, <3>1, <5>1
            <4>4. CASE j # 1
                <5>1. j - 1 \in 1..(i - 1)
                    BY <4>1, <4>4
                <5>2. Tail(w)[j - 1] = w[j]
                    BY <1>2, <4>2, <4>4
                <5>3. Numbered(Tail(w)[j - 1]) /\ Tail(w)[i].seq <= Tail(w)[j - 1].seq + 1
                    BY <2>1, <4>1, <5>2
                <5> QED
                    BY <2>2, <5>1, <5>3
            <4> QED
                BY <4>3, <4>4
        <3> QED
            BY <2>1, <2>3, <3>2, <3>3 DEF Chain
    <2> QED
        BY <2>2, <2>3
<1>5. ASSUME NEW n \in Int, Covers(w, q, n)
      PROVE  Covers(Tail(w), r, n)
    <2>1. CASE n <= q
        BY <2>1 DEF Covers
    <2>2. CASE \E j \in 1..Len(w) : Numbered(w[j]) /\ n <= w[j].seq
        <3>1. PICK j \in 1..Len(w) : Numbered(w[j]) /\ n <= w[j].seq
            BY <2>2
        <3>2. CASE j = 1
            BY <1>1, <1>3, <3>1, <3>2 DEF Covers
        <3>3. CASE j # 1
            BY <1>2, <3>1, <3>3 DEF Covers
        <3> QED
            BY <3>2, <3>3
    <2> QED
        BY <1>5, <2>1, <2>2 DEF Covers
<1> QED
    BY <1>4, <1>5 DEF Chain

\* publish gives the next number to the event and keeps a sequence of sizes.
LEMMA PublishedTypes ==
    ASSUME NEW r, NEW size, DOMAIN r = DOMAIN NewStream, r.next \in Nat, IsSequence(r.log)
    PROVE  /\ DOMAIN Published(r, size) = DOMAIN NewStream
           /\ Published(r, size).next \in Nat /\ IsSequence(Published(r, size).log)
<1> DEFINE log == Append(r.log, size)
           fits == {n \in 0..Len(log) :
                       n = Len(log) \/ Bytes(SubSeq(log, n + 1, Len(log))) <= ReplayLimit}
           least == CHOOSE n \in fits : \A k \in fits : n <= k
<1>1. IsSequence(log) /\ Len(log) \in Nat
    BY MessagesUnderWay
<1> HIDE DEF log
<1>2. fits \in SUBSET Nat /\ fits # {}
    BY <1>1
<1>3. least \in 0..Len(log)
    <2>1. least \in fits
        BY <1>2, LeastIsMember
    <2> QED
        BY <2>1
<1> HIDE DEF least
<1>4. IsSequence(SubSeq(log, least + 1, Len(log)))
    <2>1. PICK S : log \in Seq(S)
        BY <1>1 DEF IsSequence
    <2>2. SubSeq(log, least + 1, Len(log)) \in Seq(S)
        BY <1>1, <1>3, <2>1
    <2> QED
        BY <2>2 DEF IsSequence
<1>5. Retained(log) = SubSeq(log, least + 1, Len(log))
    BY DEF Retained, least
<1>6. Published(r, size) = [r EXCEPT !.next = r.next + 1, !.log = Retained(log)]
    BY DEF Published, log
<1> QED
    BY <1>4, <1>5, <1>6 DEF NewStream

\* The PTY changes neither the sockets nor what was sent.
LEMMA PtyGap ==
    ASSUME Inv, GapInv, PtyStep
    PROVE  GapInv'
<1>1. UNCHANGED <<sock, wire, tab>>
    BY DEF PtyStep, Output, Exit, Reconnect
<1>2. StreamInv'
    <2>0. StreamInv /\ generation \in Nat
        BY DEF GapInv, Inv, InputInv
    <2>1. CASE Reconnect
        BY <2>0, <2>1, StreamAssumption DEF Reconnect, StreamInv, Generations
    <2>2. ASSUME NEW r, stream' = [stream EXCEPT ![generation] = r], generation' = generation,
                 DOMAIN r = DOMAIN NewStream, r.next \in Nat, IsSequence(r.log)
          PROVE  StreamInv'
        BY <2>0, <2>2 DEF StreamInv
    <2>3. CASE \E size \in Sizes : Output(size)
        <3>1. PICK size \in Sizes : Output(size)
            BY <2>3
        <3>2. /\ stream' = [stream EXCEPT ![generation] = Published(stream[generation], size)]
              /\ generation' = generation
            BY <2>0, <3>1 DEF Output, StreamInv
        <3> QED
            BY <2>0, <2>2, <3>2, PublishedTypes DEF StreamInv
    <2>4. CASE Exit
        <3> DEFINE r == [Published(stream[generation], 0) EXCEPT !.closed = TRUE]
        <3>1. stream' = [stream EXCEPT ![generation] = r] /\ generation' = generation
            BY <2>0, <2>4 DEF Exit, StreamInv
        <3>2. DOMAIN r = DOMAIN NewStream /\ r.next \in Nat /\ IsSequence(r.log)
            BY <2>0, PublishedTypes DEF StreamInv, NewStream
        <3> QED
            BY <2>2, <3>1, <3>2
    <2> QED
        BY <2>1, <2>3, <2>4 DEF PtyStep
<1>3. ASSUME NEW s \in Sockets PROVE ReadInv(s)'
    BY <1>1 DEF GapInv, ReadInv
<1>4. ASSUME NEW t \in Tabs PROVE ShownInv(t)'
    BY <1>1 DEF GapInv, ShownInv, Serving
<1> QED
    BY <1>2, <1>3, <1>4 DEF GapInv

\* A socket's own step.
LEMMA SocketGap ==
    ASSUME Inv, GapInv, NEW s \in Sockets, UNCHANGED <<generation, stream, tab>>,
           sock' = [sock EXCEPT ![s] = sock'[s]], wire' = [wire EXCEPT ![s] = wire'[s]],
           ReadInv(s)', \A q \in Int : Serving(s, q) => Serving(s, q)'
    PROVE  GapInv'
<1>1. \A x \in Sockets \ {s} : sock'[x] = sock[x] /\ wire'[x] = wire[x]
    BY DEF Inv
<1>2. ASSUME NEW x \in Sockets PROVE ReadInv(x)'
    BY <1>1 DEF GapInv, ReadInv
<1>3. ASSUME NEW t \in Tabs PROVE ShownInv(t)'
    <2>1. ShownInv(t) /\ TabInv(t)
        BY DEF GapInv, Inv
    <2>2. CASE tab[t].sock = s
        <3>1. tab[t].phase = "open" => Serving(s, tab[t].seq)'
            BY <2>1, <2>2 DEF ShownInv
        <3> QED
            BY <2>1, <2>2, <3>1 DEF ShownInv
    <2>3. CASE tab[t].sock # s
        <3>1. tab[t].phase = "open" => Serving(tab[t].sock, tab[t].seq)'
            BY <1>1, <2>1, <2>3 DEF ShownInv, TabInv, Serving
        <3> QED
            BY <2>1, <3>1 DEF ShownInv
    <2> QED
        BY <2>2, <2>3
<1>4. StreamInv'
    BY DEF GapInv, StreamInv
<1> QED
    BY <1>2, <1>3, <1>4 DEF GapInv

\* What is under way after a message that follows from it was sent.
LEMMA SaysKept ==
    ASSUME Inv, NEW s \in Sockets, NEW q \in Int, Chain(wire[s], q), NEW m, Sends(s, m),
           Numbered(m) => m.seq \in Int,
           m.kind = "event" => Covers(wire[s], q, m.seq - 1)
    PROVE  /\ wire' = [wire EXCEPT ![s] = wire'[s]] /\ wire'[s] = Append(wire[s], m)
           /\ Chain(wire'[s], q)
           /\ \A n : Covers(wire[s], q, n) => Covers(wire'[s], q, n)
           /\ Numbered(m) => Covers(wire'[s], q, m.seq)
<1>1. IsSequence(wire[s]) /\ wire = [x \in Sockets |-> wire[x]]
    BY DEF Inv, SockTypes
<1>2. wire' = [wire EXCEPT ![s] = wire'[s]] /\ wire'[s] = Append(wire[s], m)
    BY <1>1 DEF Sends
<1>3. Chain(Append(wire[s], m), q)
    BY <1>1, ChainGrows
<1>4. \A n : Covers(wire[s], q, n) => Covers(Append(wire[s], m), q, n)
    BY <1>1, CoversGrows
<1>5. Numbered(m) => Covers(Append(wire[s], m), q, m.seq)
    BY <1>1, CoversGrows
<1> QED
    BY <1>2, <1>3, <1>4, <1>5

\* A socket that leaves its loop or closes may say something, but no number.
LEMMA QuietGap ==
    ASSUME Inv, GapInv, NEW s \in Sockets, UNCHANGED <<generation, stream, tab>>,
           sock' = [sock EXCEPT ![s] = sock'[s]],
           \/ sock'[s] = Leaves(s) /\ sock[s].phase \in Holding
           \/ sock'[s] = Closing(s),
           wire' = wire \/ \E m : Sends(s, m) /\ ~Numbered(m)
    PROVE  GapInv'
<1>1. ReadInv(s) /\ wire = [x \in Sockets |-> wire[x]]
    BY DEF Inv, GapInv
<1>2. sock'[s].phase \in {"release", "closing", "none"}
    <2>1. Leaves(s).phase = "release" /\ Closing(s).phase \in {"closing", "none"}
        BY DEF Leaves, Closing, NoSock
    <2> QED
        BY <2>1
<1>3. ReadInv(s)'
    <2>1. CASE sock'[s] = Leaves(s) /\ sock[s].phase \in Holding
        BY <1>1, <2>1 DEF ReadInv, Leaves, NoSock
    <2>2. CASE sock'[s] = Closing(s)
        BY <1>1, <2>2 DEF ReadInv, Closing, NoSock, Holding
    <2> QED
        BY <2>1, <2>2
<1>4. wire' = [wire EXCEPT ![s] = wire'[s]]
    BY <1>1 DEF Sends
<1>5. ASSUME NEW q \in Int, Serving(s, q)
      PROVE  Serving(s, q)'
    <2>1. Chain(wire[s], q)
        BY <1>5 DEF Serving
    <2>2. Chain(wire'[s], q)
        <3>1. CASE wire' = wire
            BY <2>1, <3>1
        <3>2. CASE \E m : Sends(s, m) /\ ~Numbered(m)
            BY <2>1, <3>2, SaysKept DEF Numbered
        <3> QED
            BY <3>1, <3>2
    <2> QED
        BY <1>2, <2>2 DEF Serving
<1> QED
    BY <1>3, <1>4, <1>5, SocketGap

\* Before anything is sent the socket has what the tab told it.
LEMMA BeginGap ==
    ASSUME Inv, GapInv, NEW s \in Sockets, TakeLease(s) \/ AttachStream(s) \/ Greet(s)
    PROVE  GapInv'
<1>1. /\ ReadInv(s) /\ SockTypes(s) /\ StreamInv
      /\ sock = [x \in Sockets |-> sock[x]] /\ wire = [x \in Sockets |-> wire[x]]
    BY DEF Inv, GapInv
<1>2. CASE TakeLease(s)
    <2>1. /\ sock'[s] = [sock[s] EXCEPT !.phase = "leased", !.gen = generation,
                                        !.lease = input.last + 1]
          /\ sock' = [sock EXCEPT ![s] = sock'[s]] /\ sock[s].phase = "upgraded"
          /\ UNCHANGED <<generation, stream, wire, tab>>
        BY <1>1, <1>2 DEF TakeLease, ptyVars
    <2>2. ReadInv(s)'
        BY <1>1, <2>1 DEF ReadInv, SockTypes, NoSock, StreamInv
    <2>3. ASSUME NEW q \in Int, Serving(s, q) PROVE Serving(s, q)'
        BY <1>1, <2>1, <2>3 DEF Serving, SockTypes, NoSock
    <2>4. wire' = [wire EXCEPT ![s] = wire'[s]]
        BY <1>1, <2>1
    <2> QED
        BY <2>1, <2>2, <2>3, <2>4, SocketGap
<1>3. CASE AttachStream(s)
    <2>1. PICK d, n \in Int :
              /\ sock'[s] = [sock[s] EXCEPT !.phase = "greet", !.marker = sock[s].since < d,
                                            !.upto = n, !.position = n + 1,
                                            !.sent = IF sock[s].since < d THEN d ELSE sock[s].since]
              /\ sock[s].phase = "leased"
        <3>1. sock[s].gen \in Generations
            BY <1>1, <1>3 DEF AttachStream, ReadInv, Holding
        <3>2. stream[sock[s].gen].next \in Int /\ Dropped(sock[s].gen) \in Int
            BY <1>1, <3>1, MessagesUnderWay DEF StreamInv, Dropped
        <3> QED
            BY <1>1, <1>3, <3>2 DEF AttachStream, Truncated
    <2>2. /\ sock' = [sock EXCEPT ![s] = sock'[s]] /\ wire' = [wire EXCEPT ![s] = wire'[s]]
          /\ UNCHANGED <<generation, stream, wire, tab>>
        BY <1>1, <1>3 DEF AttachStream, ptyVars
    <2>3. /\ sock'[s].phase = "greet" /\ sock'[s].marker = (sock[s].since < d)
          /\ sock'[s].upto = n /\ sock'[s].position = n + 1 /\ sock'[s].since = sock[s].since
          /\ sock'[s].sent = (IF sock[s].since < d THEN d ELSE sock[s].since)
          /\ sock'[s].gen = sock[s].gen
        BY <1>1, <2>1 DEF SockTypes, NoSock
    <2>4. ReadInv(s)'
        BY <1>1, <2>1, <2>3 DEF ReadInv, Holding
    <2>5. ASSUME NEW q \in Int, Serving(s, q) PROVE Serving(s, q)'
        <3>1. wire'[s] = <<>> /\ sock[s].since = q /\ Chain(wire'[s], q)
            BY <2>1, <2>2, <2>5 DEF Serving
        <3>2. ASSUME ~sock'[s].marker PROVE Covers(wire'[s], q, sock'[s].sent)
            <4>1. ~(sock[s].since < d)
                BY <2>3, <3>2, Zenon
            <4>2. sock'[s].sent = q
                BY <2>3, <3>1, <4>1
            <4> QED
                BY <4>2 DEF Covers
        <3> QED
            BY <2>3, <3>1, <3>2 DEF Serving
    <2> QED
        BY <2>2, <2>4, <2>5, SocketGap
<1>4. CASE Greet(s)
    <2>1. /\ sock'[s] = [sock[s] EXCEPT !.phase = "replay"] /\ sock[s].phase = "greet"
          /\ sock' = [sock EXCEPT ![s] = sock'[s]] /\ Sends(s, Attached(s))
          /\ UNCHANGED <<generation, stream, tab>>
        BY <1>1, <1>4 DEF Greet, ptyVars
    <2>2. /\ sock'[s].phase = "replay" /\ sock'[s].marker = sock[s].marker /\ sock'[s].gen = sock[s].gen
          /\ sock'[s].since = sock[s].since /\ sock'[s].sent = sock[s].sent
          /\ sock'[s].upto = sock[s].upto /\ sock'[s].position = sock[s].position
        BY <1>1, <2>1 DEF SockTypes, NoSock
    <2>3. ReadInv(s)'
        BY <1>1, <2>1, <2>2 DEF ReadInv, Holding
    <2>4. ~Numbered(Attached(s)) /\ Attached(s).kind # "event"
        BY DEF Numbered, Attached
    <2>5. ASSUME NEW q \in Int, Serving(s, q) PROVE Serving(s, q)'
        <3>1. Chain(wire[s], q) /\ (~sock[s].marker => Covers(wire[s], q, sock[s].sent))
            BY <2>1, <2>5 DEF Serving
        <3>2. Chain(wire'[s], q) /\ (~sock[s].marker => Covers(wire'[s], q, sock[s].sent))
            BY <2>1, <2>4, <3>1, SaysKept
        <3> QED
            BY <2>2, <3>2 DEF Serving
    <2>6. wire' = [wire EXCEPT ![s] = wire'[s]]
        BY <1>1, <2>1 DEF Sends
    <2> QED
        BY <2>1, <2>3, <2>5, <2>6, SocketGap
<1> QED
    BY <1>2, <1>3, <1>4

\* The marker, the replay and its end: each follows what was sent before it.
LEMMA ReplayGap ==
    ASSUME Inv, GapInv, NEW s \in Sockets, SendMarker(s) \/ SendReplay(s) \/ ReplayComplete(s)
    PROVE  GapInv'
<1>1. /\ ReadInv(s) /\ SockTypes(s)
      /\ sock = [x \in Sockets |-> sock[x]] /\ wire = [x \in Sockets |-> wire[x]]
    BY DEF Inv, GapInv
<1>2. CASE SendMarker(s)
    <2>1. /\ sock'[s] = [sock[s] EXCEPT !.marker = FALSE] /\ sock[s].phase = "replay"
          /\ sock' = [sock EXCEPT ![s] = sock'[s]] /\ Sends(s, Marker(sock[s].sent))
          /\ UNCHANGED <<generation, stream, tab>>
        BY <1>1, <1>2 DEF SendMarker, ptyVars
    <2>2. /\ sock'[s].phase = "replay" /\ sock'[s].gen = sock[s].gen
          /\ sock'[s].since = sock[s].since /\ sock'[s].sent = sock[s].sent
          /\ sock'[s].upto = sock[s].upto /\ sock'[s].position = sock[s].position
        BY <1>1, <2>1 DEF SockTypes, NoSock
    <2>3. ReadInv(s)'
        BY <1>1, <2>1, <2>2 DEF ReadInv, Holding
    <2>4. /\ Numbered(Marker(sock[s].sent)) /\ Marker(sock[s].sent).seq = sock[s].sent
          /\ Marker(sock[s].sent).kind # "event" /\ sock[s].sent \in Int
        BY <1>1 DEF Numbered, Marker, ReadInv
    <2>5. ASSUME NEW q \in Int, Serving(s, q) PROVE Serving(s, q)'
        <3>1. Chain(wire[s], q)
            BY <2>5 DEF Serving
        <3>2. Chain(wire'[s], q) /\ Covers(wire'[s], q, Marker(sock[s].sent).seq)
            BY <2>1, <2>4, <3>1, SaysKept
        <3> QED
            BY <2>2, <2>4, <3>2 DEF Serving
    <2>6. wire' = [wire EXCEPT ![s] = wire'[s]]
        BY <1>1, <2>1 DEF Sends
    <2> QED
        BY <2>1, <2>3, <2>5, <2>6, SocketGap
<1>3. CASE SendReplay(s)
    <2>1. /\ sock'[s] = [sock[s] EXCEPT !.sent = sock[s].sent + 1]
          /\ sock[s].phase = "replay" /\ ~sock[s].marker
          /\ sock' = [sock EXCEPT ![s] = sock'[s]] /\ Sends(s, Event(sock[s].sent + 1))
          /\ UNCHANGED <<generation, stream, tab>>
        BY <1>1, <1>3 DEF SendReplay, ptyVars
    <2>2. /\ sock'[s].phase = "replay" /\ sock'[s].gen = sock[s].gen
          /\ sock'[s].since = sock[s].since /\ sock'[s].sent = sock[s].sent + 1
          /\ sock'[s].upto = sock[s].upto /\ sock'[s].position = sock[s].position
        BY <1>1, <2>1 DEF SockTypes, NoSock
    <2>3. ReadInv(s)'
        BY <1>1, <2>1, <2>2 DEF ReadInv, Holding
    <2>4. /\ Numbered(Event(sock[s].sent + 1)) /\ Event(sock[s].sent + 1).seq = sock[s].sent + 1
          /\ sock[s].sent \in Int
        BY <1>1 DEF Numbered, Event, ReadInv
    <2>5. ASSUME NEW q \in Int, Serving(s, q) PROVE Serving(s, q)'
        <3>1. Chain(wire[s], q) /\ Covers(wire[s], q, sock[s].sent)
            BY <2>1, <2>5 DEF Serving
        <3>2. Event(sock[s].sent + 1).seq \in Int /\ Event(sock[s].sent + 1).seq - 1 = sock[s].sent
            BY <2>4
        <3>3. Chain(wire'[s], q) /\ Covers(wire'[s], q, Event(sock[s].sent + 1).seq)
            BY <2>1, <2>4, <3>1, <3>2, SaysKept
        <3> QED
            BY <2>2, <2>4, <3>3 DEF Serving
    <2>6. wire' = [wire EXCEPT ![s] = wire'[s]]
        BY <1>1, <2>1 DEF Sends
    <2> QED
        BY <2>1, <2>3, <2>5, <2>6, SocketGap
<1>4. CASE ReplayComplete(s)
    <2>1. /\ sock'[s] = [sock[s] EXCEPT !.phase = "live"]
          /\ sock[s].phase = "replay" /\ ~sock[s].marker /\ sock[s].sent >= sock[s].upto
          /\ sock' = [sock EXCEPT ![s] = sock'[s]] /\ Sends(s, Complete)
          /\ UNCHANGED <<generation, stream, tab>>
        BY <1>1, <1>4 DEF ReplayComplete, ptyVars
    <2>2. /\ sock'[s].phase = "live" /\ sock'[s].gen = sock[s].gen
          /\ sock'[s].since = sock[s].since /\ sock'[s].sent = sock[s].sent
          /\ sock'[s].upto = sock[s].upto /\ sock'[s].position = sock[s].position
        BY <1>1, <2>1 DEF SockTypes, NoSock
    <2>3. ReadInv(s)'
        BY <1>1, <2>1, <2>2 DEF ReadInv, Holding
    <2>4. ~Numbered(Complete) /\ Complete.kind # "event"
        BY DEF Numbered, Complete
    <2>5. /\ sock[s].sent \in Int /\ sock[s].position - 1 \in Int
          /\ sock[s].position - 1 <= sock[s].sent
        BY <1>1, <2>1 DEF ReadInv
    <2>6. ASSUME NEW q \in Int, Serving(s, q) PROVE Serving(s, q)'
        <3>1. Chain(wire[s], q) /\ Covers(wire[s], q, sock[s].sent)
            BY <2>1, <2>6 DEF Serving
        <3>2. Chain(wire'[s], q) /\ Covers(wire'[s], q, sock[s].sent)
            BY <2>1, <2>4, <3>1, SaysKept
        <3>3. Covers(wire'[s], q, sock[s].position - 1)
            BY <2>5, <3>2, CoversLess
        <3> QED
            BY <2>2, <3>2, <3>3 DEF Serving
    <2>7. wire' = [wire EXCEPT ![s] = wire'[s]]
        BY <1>1, <2>1 DEF Sends
    <2> QED
        BY <2>1, <2>3, <2>6, <2>7, SocketGap
<1> QED
    BY <1>2, <1>3, <1>4

\* Live output, and the input frames between.
LEMMA LiveGap ==
    ASSUME Inv, GapInv, NEW s \in Sockets,
           SendLive(s) \/ InputFrame(s) \/ (WriteInput(s) /\ IsCurrent(s))
    PROVE  GapInv'
<1>1. /\ ReadInv(s) /\ SockTypes(s)
      /\ sock = [x \in Sockets |-> sock[x]] /\ wire = [x \in Sockets |-> wire[x]]
    BY DEF Inv, GapInv
<1>2. CASE SendLive(s)
    <2>1. /\ sock'[s] = [sock[s] EXCEPT !.sent = sock[s].position, !.position = sock[s].position + 1]
          /\ sock[s].phase = "live"
          /\ sock' = [sock EXCEPT ![s] = sock'[s]] /\ Sends(s, Event(sock[s].position))
          /\ UNCHANGED <<generation, stream, tab>>
        BY <1>1, <1>2 DEF SendLive, ptyVars
    <2>2. /\ sock'[s].phase = "live" /\ sock'[s].gen = sock[s].gen
          /\ sock'[s].since = sock[s].since /\ sock'[s].sent = sock[s].position
          /\ sock'[s].upto = sock[s].upto /\ sock'[s].position = sock[s].position + 1
        BY <1>1, <2>1 DEF SockTypes, NoSock
    <2>3. ReadInv(s)'
        BY <1>1, <2>1, <2>2 DEF ReadInv, Holding
    <2>4. /\ Numbered(Event(sock[s].position)) /\ Event(sock[s].position).seq = sock[s].position
          /\ sock[s].position \in Int
        BY <1>1 DEF Numbered, Event, ReadInv
    <2>5. ASSUME NEW q \in Int, Serving(s, q) PROVE Serving(s, q)'
        <3>1. Chain(wire[s], q) /\ Covers(wire[s], q, sock[s].position - 1)
            BY <2>1, <2>5 DEF Serving
        <3>2. Chain(wire'[s], q) /\ Covers(wire'[s], q, Event(sock[s].position).seq)
            BY <2>1, <2>4, <3>1, SaysKept
        <3>3. sock'[s].position - 1 = sock[s].position
            BY <2>2, <2>4
        <3> QED
            BY <2>2, <2>4, <3>2, <3>3 DEF Serving
    <2>6. wire' = [wire EXCEPT ![s] = wire'[s]]
        BY <1>1, <2>1 DEF Sends
    <2> QED
        BY <2>1, <2>3, <2>5, <2>6, SocketGap
<1>3. CASE InputFrame(s) \/ (WriteInput(s) /\ IsCurrent(s))
    <2>1. PICK p \in {"live", "write"} :
              /\ sock'[s] = [sock[s] EXCEPT !.phase = p] /\ sock[s].phase \in {"live", "write"}
              /\ sock' = [sock EXCEPT ![s] = sock'[s]]
              /\ UNCHANGED <<generation, stream, wire, tab>>
        BY <1>1, <1>3 DEF InputFrame, WriteInput, ptyVars
    <2>2. /\ sock'[s].phase \in {"live", "write"} /\ sock'[s].gen = sock[s].gen
          /\ sock'[s].since = sock[s].since /\ sock'[s].sent = sock[s].sent
          /\ sock'[s].upto = sock[s].upto /\ sock'[s].position = sock[s].position
        BY <1>1, <2>1 DEF SockTypes, NoSock
    <2>3. ReadInv(s)'
        BY <1>1, <2>1, <2>2 DEF ReadInv, Holding
    <2>4. ASSUME NEW q \in Int, Serving(s, q) PROVE Serving(s, q)'
        BY <2>1, <2>2, <2>4 DEF Serving
    <2>5. wire' = [wire EXCEPT ![s] = wire'[s]]
        BY <1>1, <2>1
    <2> QED
        BY <2>1, <2>3, <2>4, <2>5, SocketGap
<1> QED
    BY <1>2, <1>3

\* The steps in which a socket ends.
LEMMA EndGap ==
    ASSUME Inv, GapInv, NEW s \in Sockets,
           \/ LeaseRefused(s) \/ Lagged(s) \/ StreamClosed(s) \/ NotCurrent(s) \/ SendTimeout(s)
           \/ WriteInput(s) /\ ~IsCurrent(s)
           \/ Broken(s) \/ ReleaseInput(s)
    PROVE  GapInv'
<1>1. /\ SockInv(s) /\ sock = [x \in Sockets |-> sock[x]]
    BY DEF Inv
<1>2. /\ ~Numbered(Resync) /\ ~Numbered(ControlMoved) /\ ~Numbered(AttachError)
    BY DEF Numbered, Resync, ControlMoved, AttachError
<1>3. /\ UNCHANGED <<generation, stream, tab>> /\ sock' = [sock EXCEPT ![s] = sock'[s]]
      /\ \/ sock'[s] = Leaves(s) /\ sock[s].phase \in Holding
         \/ sock'[s] = Closing(s)
      /\ wire' = wire \/ \E m : Sends(s, m) /\ ~Numbered(m)
    <2>1. CASE LeaseRefused(s)
        BY <1>1, <1>2, <2>1 DEF LeaseRefused, ptyVars
    <2>2. CASE Lagged(s)
        BY <1>1, <1>2, <2>2 DEF Lagged, ptyVars, Holding
    <2>3. CASE StreamClosed(s)
        BY <1>1, <2>3 DEF StreamClosed, ptyVars, Holding
    <2>4. CASE NotCurrent(s)
        BY <1>1, <1>2, <2>4 DEF NotCurrent, ptyVars, Holding
    <2>5. CASE SendTimeout(s)
        BY <1>1, <2>5 DEF SendTimeout, ptyVars, Holding
    <2>6. CASE WriteInput(s) /\ ~IsCurrent(s)
        BY <1>1, <2>6 DEF WriteInput, ptyVars, Holding
    <2>7. CASE Broken(s)
        BY <1>1, <2>7 DEF Broken, ptyVars, Holding, SockInv
    <2>8. CASE ReleaseInput(s)
        BY <1>1, <2>8 DEF ReleaseInput, ptyVars
    <2> QED
        BY <2>1, <2>2, <2>3, <2>4, <2>5, <2>6, <2>7, <2>8
<1> QED
    BY <1>3, QuietGap

\* A step of a tab leaves the sockets and the messages of the others alone.
LEMMA TabGap ==
    ASSUME Inv, GapInv, NEW t \in Tabs, UNCHANGED <<generation, stream>>,
           tab' = [tab EXCEPT ![t] = tab'[t]], ShownInv(t)',
           \A s \in Sockets : \/ sock'[s] = sock[s] /\ wire'[s] = wire[s]
                              \/ ReadInv(s)' /\ (sock[s].phase = "none" \/ sock[s].of = t)
    PROVE  GapInv'
<1>1. StreamInv'
    BY DEF GapInv, StreamInv
<1>2. ASSUME NEW s \in Sockets PROVE ReadInv(s)'
    BY <1>2 DEF GapInv, ReadInv
<1>3. ASSUME NEW x \in Tabs PROVE ShownInv(x)'
    <2>1. CASE x = t
        BY <2>1
    <2>2. CASE x # t
        <3>1. tab'[x] = tab[x] /\ ShownInv(x) /\ TabInv(x)
            BY <2>2 DEF Inv, GapInv
        <3>2. ASSUME tab[x].phase = "open" PROVE Serving(tab[x].sock, tab[x].seq)'
            <4>1. /\ tab[x].sock \in Sockets /\ sock[tab[x].sock].of = x
                  /\ sock[tab[x].sock].phase # "none" /\ Serving(tab[x].sock, tab[x].seq)
                BY <3>1, <3>2 DEF TabInv, ShownInv
            <4>2. sock'[tab[x].sock] = sock[tab[x].sock] /\ wire'[tab[x].sock] = wire[tab[x].sock]
                BY <2>2, <4>1
            <4> QED
                BY <3>1, <4>1, <4>2 DEF Serving
        <3> QED
            BY <3>1, <3>2 DEF ShownInv
    <2> QED
        BY <2>1, <2>2
<1> QED
    BY <1>1, <1>2, <1>3 DEF GapInv

\* Giving up a connection keeps what was shown.
LEMMA SeqKept ==
    ASSUME Inv, NEW t \in Tabs, NEW new \in {Detached(tab[t]), Reattaching(tab[t])}
    PROVE  new.phase # "open" /\ new.seq = tab[t].seq
<1>1. TabTypes(t)
    BY DEF Inv
<1> QED
    BY <1>1 DEF TabTypes, Detached, Reattaching, NewTab

\* A tab that has no socket reads nothing; a new generation is shown from its start.
LEMMA AskingGap ==
    ASSUME Inv, GapInv, NEW t \in Tabs,
           \/ Attach(t) \/ Retry(t) \/ OpenTerminalInput(t) \/ AskFails(t)
           \/ TerminalUpgrade(t) /\ ~(running /\ tab[t].gen = generation)
    PROVE  GapInv'
<1>1. TabTypes(t) /\ ShownInv(t) /\ tab = [x \in Tabs |-> tab[x]]
    BY DEF Inv, GapInv
<1>2. /\ tab'[t].phase # "open" /\ tab'[t].seq \in {tab[t].seq, 0}
      /\ tab' = [tab EXCEPT ![t] = tab'[t]]
      /\ UNCHANGED <<generation, stream, sock, wire>>
    <2>1. CASE Attach(t)
        BY <1>1, <2>1 DEF Attach, TabTypes, NewTab, ptyVars
    <2>2. CASE Retry(t)
        BY <1>1, <2>2 DEF Retry, TabTypes, NewTab, ptyVars
    <2>3. CASE OpenTerminalInput(t)
        <3>1. PICK n \in {tab[t].seq, 0} :
                  /\ tab'[t] \in {[Detached(tab[t]) EXCEPT !.resume = 0],
                                  [tab[t] EXCEPT !.phase = "ticket", !.gen = generation, !.seq = n]}
                  /\ tab' = [tab EXCEPT ![t] = tab'[t]]
                  /\ UNCHANGED <<generation, stream, sock, wire>>
            BY <1>1, <2>3 DEF OpenTerminalInput, ptyVars
        <3> QED
            BY <1>1, <3>1 DEF TabTypes, NewTab, Detached
    <2>4. CASE AskFails(t)
        BY <1>1, <2>4, SeqKept DEF AskFails, ptyVars
    <2>5. CASE TerminalUpgrade(t) /\ ~(running /\ tab[t].gen = generation)
        BY <1>1, <2>5, SeqKept DEF TerminalUpgrade, ptyVars
    <2> QED
        BY <2>1, <2>2, <2>3, <2>4, <2>5
<1>3. ShownInv(t)'
    BY <1>1, <1>2 DEF ShownInv
<1> QED
    BY <1>2, <1>3, TabGap

\* The new socket is told what the tab has, and nothing is under way.
LEMMA UpgradeGap ==
    ASSUME Inv, GapInv, NEW t \in Tabs, TerminalUpgrade(t), running /\ tab[t].gen = generation
    PROVE  GapInv'
<1>1. TabTypes(t) /\ ShownInv(t) /\ tab = [x \in Tabs |-> tab[x]] /\ sock = [x \in Sockets |-> sock[x]]
    BY DEF Inv, GapInv
<1>2. PICK s \in Free :
          /\ sock' = [sock EXCEPT ![s] =
                        [NoSock EXCEPT !.phase = "upgraded", !.of = t, !.ticket = tab[t].gen,
                                       !.since = tab[t].seq, !.resume = tab[t].resume,
                                       !.granted = tab[t].granted]]
          /\ tab' = [tab EXCEPT ![t].phase = "open", ![t].sock = s, ![t].resume = 0]
          /\ UNCHANGED <<generation, stream, wire>>
    BY FreeSocket DEF TerminalUpgrade, ptyVars
<1>3. s \in Sockets /\ sock[s].phase = "none" /\ wire[s] = <<>>
    BY DEF Free, Inv, SockInv
<1>4. /\ sock'[s].phase = "upgraded" /\ sock'[s].since = tab[t].seq
      /\ sock'[s].sent = 0 /\ sock'[s].upto = 0 /\ sock'[s].position = 0
    BY <1>1, <1>2, <1>3 DEF NoSock
<1>5. tab'[t] = [tab[t] EXCEPT !.phase = "open", !.sock = s, !.resume = 0]
      /\ tab' = [tab EXCEPT ![t] = tab'[t]]
    BY <1>1, <1>2
<1>6. tab'[t].sock = s /\ tab'[t].seq = tab[t].seq
    BY <1>1, <1>5 DEF TabTypes, NewTab
<1>7. ReadInv(s)'
    BY <1>1, <1>4 DEF ReadInv, ShownInv, Holding
<1>8. ShownInv(t)'
    <2>1. Chain(wire'[s], tab[t].seq)
        BY <1>2, <1>3 DEF Chain
    <2> QED
        BY <1>1, <1>2, <1>3, <1>4, <1>6, <2>1 DEF ShownInv, Serving
<1>9. ASSUME NEW x \in Sockets
      PROVE  \/ sock'[x] = sock[x] /\ wire'[x] = wire[x]
             \/ ReadInv(x)' /\ sock[x].phase = "none"
    BY <1>1, <1>2, <1>3, <1>7
<1> QED
    BY <1>2, <1>5, <1>8, <1>9, TabGap

\* A tab that leaves its socket keeps what it was shown.
LEMMA LeavingTabGap ==
    ASSUME Inv, GapInv, NEW t \in Tabs,
           \/ Leave(t) \/ Reattach(t) \/ Closed(t) \/ Cut(t)
           \/ Receive(t) /\ Head(wire[tab[t].sock]).kind \in {"moved", "error"}
    PROVE  GapInv'
<1>1. /\ TabInv(t) /\ ShownInv(t) /\ tab = [x \in Tabs |-> tab[x]]
    BY DEF Inv, GapInv
<1>2. /\ UNCHANGED <<generation, stream>> /\ tab[t].phase = "open" /\ Hangup(t)
      /\ tab'[t] \in {Detached(tab[t]), Reattaching(tab[t])}
      /\ tab' = [tab EXCEPT ![t] = tab'[t]]
    BY <1>1 DEF Leave, Reattach, Closed, Cut, Receive, ptyVars
<1>3. ShownInv(t)'
    BY <1>1, <1>2, SeqKept DEF ShownInv
<1>4. ASSUME NEW s \in Sockets
      PROVE  \/ sock'[s] = sock[s] /\ wire'[s] = wire[s]
             \/ ReadInv(s)' /\ sock[s].of = t
    <2>1. CASE s # tab[t].sock
        BY <1>2, <2>1 DEF Hangup
    <2>2. CASE s = tab[t].sock
        <3>1. sock'[s] = Gone(s) /\ sock[s].of = t /\ ReadInv(s) /\ SockTypes(s)
            BY <1>1, <1>2, <2>2 DEF Hangup, TabInv, Inv, GapInv
        <3>2. ReadInv(s)'
            BY <3>1 DEF Gone, ReadInv, SockTypes, NoSock, Holding
        <3> QED
            BY <3>1, <3>2
    <2> QED
        BY <2>1, <2>2
<1> QED
    BY <1>2, <1>3, <1>4, TabGap

\* What a tab has after it has read a message: no less, and the message.
LEMMA ShowsKept ==
    ASSUME NEW c, DOMAIN c = DOMAIN NewTab, c.seq \in Int, NEW m,
           Numbered(m) => m.seq \in Int,
           m.kind = "event" => m.seq <= c.seq + 1
    PROVE  /\ Shows(c, m).phase = c.phase /\ Shows(c, m).sock = c.sock
           /\ Shows(c, m).seq \in Int /\ c.seq <= Shows(c, m).seq
           /\ Numbered(m) => m.seq <= Shows(c, m).seq
<1>1. CASE m.seq <= c.seq
    BY <1>1 DEF Shows
<1>2. CASE ~(m.seq <= c.seq) /\ (m.kind = "truncated" \/ m.seq = c.seq + 1)
    <2>1. Shows(c, m) = [c EXCEPT !.seq = m.seq] /\ m.seq \in Int
        BY <1>2 DEF Shows, Numbered
    <2> QED
        BY <1>2, <2>1 DEF NewTab
<1>3. CASE ~(m.seq <= c.seq) /\ ~(m.kind = "truncated" \/ m.seq = c.seq + 1)
    <2>1. Shows(c, m) = [c EXCEPT !.retry = TRUE]
        BY <1>3 DEF Shows
    <2>2. ~Numbered(m)
        BY <1>3 DEF Numbered
    <2> QED
        BY <2>1, <2>2 DEF NewTab
<1> QED
    BY <1>1, <1>2, <1>3

\* A message is read that leaves the socket open.
LEMMA ReceiveGap ==
    ASSUME Inv, GapInv, NEW t \in Tabs, Receive(t),
           Head(wire[tab[t].sock]).kind \notin {"moved", "error"}
    PROVE  GapInv'
<1>0. PICK s : s = tab[t].sock
    OBVIOUS
<1>1. /\ TabTypes(t) /\ TabInv(t) /\ ShownInv(t) /\ tab = [x \in Tabs |-> tab[x]]
      /\ tab[t].phase = "open" /\ s \in Sockets /\ wire[s] # <<>> /\ IsSequence(wire[s])
      /\ sock[s].of = t /\ ReadInv(s) /\ Serving(s, tab[t].seq)
    BY <1>0 DEF Inv, GapInv, TabInv, SockTypes, ShownInv, Receive
<1>2. PICK m : m = Head(wire[s])
    OBVIOUS
<1>3. /\ wire' = [wire EXCEPT ![s] = Tail(wire[s])] /\ UNCHANGED <<sock, generation, stream>>
      /\ tab' = [tab EXCEPT ![t] = tab'[t]]
    BY <1>0, <1>1 DEF Receive, ptyVars
<1>4. /\ Numbered(m) => m.seq \in Int
      /\ m.kind = "event" => m.seq <= tab[t].seq + 1
    <2>1. m = wire[s][1] /\ 1 \in 1..Len(wire[s])
        BY <1>1, <1>2, MessagesUnderWay
    <2> QED
        BY <1>1, <2>1 DEF Serving, Chain
<1>5. /\ tab'[t].phase = "open" /\ tab'[t].sock = s
      /\ tab'[t].seq \in Int /\ tab[t].seq <= tab'[t].seq
      /\ Numbered(m) => m.seq <= tab'[t].seq
    <2>1. \/ ~Numbered(m) /\ \/ tab'[t] = [tab[t] EXCEPT !.lease = m.lease, !.granted = tab[t].gen]
                             \/ tab'[t] = [tab[t] EXCEPT !.control = TRUE]
                             \/ tab'[t] = [tab[t] EXCEPT !.retry = TRUE]
          \/ tab'[t] = Shows(tab[t], m)
        BY <1>0, <1>1, <1>2 DEF Receive, Numbered
    <2>2. DOMAIN tab[t] = DOMAIN NewTab /\ tab[t].seq \in Int
        BY <1>1 DEF TabTypes, ShownInv
    <2>3. CASE tab'[t] = Shows(tab[t], m)
        BY <1>0, <1>1, <1>4, <2>2, <2>3, ShowsKept
    <2>4. CASE tab'[t] # Shows(tab[t], m)
        <3>1. \/ tab'[t] = [tab[t] EXCEPT !.lease = m.lease, !.granted = tab[t].gen]
              \/ \E v : tab'[t] \in {[tab[t] EXCEPT !.control = v], [tab[t] EXCEPT !.retry = v]}
            BY <2>1, <2>4
        <3>2. /\ tab'[t].phase = tab[t].phase /\ tab'[t].sock = tab[t].sock
              /\ tab'[t].seq = tab[t].seq
            BY <2>2, <3>1 DEF NewTab
        <3>3. ~Numbered(m)
            BY <2>1, <2>4
        <3> QED
            BY <1>0, <1>1, <2>2, <3>2, <3>3
    <2> QED
        BY <2>3, <2>4
<1>6. /\ wire'[s] = Tail(wire[s]) /\ Chain(wire'[s], tab'[t].seq)
      /\ \A n \in Int : Covers(wire[s], tab[t].seq, n) => Covers(wire'[s], tab'[t].seq, n)
    <2>1. wire'[s] = Tail(wire[s])
        BY <1>1, <1>3 DEF Inv
    <2>2. Chain(wire[s], tab[t].seq) /\ tab[t].seq \in Int
        BY <1>1 DEF Serving, ShownInv
    <2> QED
        BY <1>1, <1>2, <1>5, <2>1, <2>2, ChainShrinks
<1>7. Serving(s, tab[t].seq)'
    <2>1. sock[s].phase \notin {"upgraded", "leased", "greet"}
        BY <1>1 DEF Serving
    <2>2. sock[s].sent \in Int /\ sock[s].position - 1 \in Int
        BY <1>1 DEF ReadInv
    <2>3. Covers(wire[s], tab[t].seq, sock[s].sent) => Covers(wire'[s], tab'[t].seq, sock[s].sent)
        BY <1>6, <2>2
    <2>4. Covers(wire[s], tab[t].seq, sock[s].position - 1)
              => Covers(wire'[s], tab'[t].seq, sock[s].position - 1)
        BY <1>6, <2>2
    <2> QED
        BY <1>1, <1>3, <1>6, <2>1, <2>3, <2>4 DEF Serving
<1>8. ShownInv(t)'
    BY <1>5, <1>7 DEF ShownInv
<1>9. ASSUME NEW x \in Sockets
      PROVE  \/ sock'[x] = sock[x] /\ wire'[x] = wire[x]
             \/ ReadInv(x)' /\ sock[x].of = t
    BY <1>1, <1>3 DEF ReadInv, Inv
<1> QED
    BY <1>3, <1>8, <1>9, TabGap

\* Nothing was published or shown when the session starts.
LEMMA InitGap == Init => GapInv
<1> SUFFICES ASSUME Init PROVE GapInv
    OBVIOUS
<1>1. StreamInv
    BY StreamAssumption, NothingUnderWay DEF Init, StreamInv, Generations, NewStream
<1>2. ASSUME NEW s \in Sockets PROVE ReadInv(s)
    BY DEF Init, ReadInv, NoSock, Holding
<1>3. ASSUME NEW t \in Tabs PROVE ShownInv(t)
    BY DEF Init, ShownInv, NewTab
<1> QED
    BY <1>1, <1>2, <1>3 DEF GapInv

LEMMA StutterGap == GapInv /\ UNCHANGED vars => GapInv'
<1> SUFFICES ASSUME GapInv, UNCHANGED vars PROVE GapInv'
    OBVIOUS
<1>1. UNCHANGED <<generation, stream, sock, wire, tab>>
    BY DEF vars, ptyVars
<1> QED
    BY <1>1 DEF GapInv, StreamInv, ReadInv, ShownInv, Serving

\* One line for each action.
LEMMA NextGap == Inv /\ GapInv /\ Next => GapInv'
<1> SUFFICES ASSUME Inv, GapInv, Next PROVE GapInv'
    OBVIOUS
<1>1. CASE PtyStep
    BY <1>1, PtyGap
<1>2. ASSUME NEW s \in Sockets, SocketStep(s) PROVE GapInv'
    <2>1. CASE TakeLease(s) \/ AttachStream(s) \/ Greet(s)
        BY <2>1, BeginGap
    <2>2. CASE SendMarker(s) \/ SendReplay(s) \/ ReplayComplete(s)
        BY <2>2, ReplayGap
    <2>3. CASE SendLive(s) \/ InputFrame(s)
        BY <2>3, LiveGap
    <2>4. CASE \/ LeaseRefused(s) \/ Lagged(s) \/ StreamClosed(s) \/ NotCurrent(s) \/ SendTimeout(s)
               \/ Broken(s) \/ ReleaseInput(s)
        BY <2>4, EndGap
    <2>5. CASE WriteInput(s)
        BY <2>5, LiveGap, EndGap
    <2> QED
        BY <1>2, <2>1, <2>2, <2>3, <2>4, <2>5 DEF SocketStep
<1>3. ASSUME NEW t \in Tabs, TabStep(t) PROVE GapInv'
    <2>1. CASE Attach(t) \/ Retry(t) \/ OpenTerminalInput(t) \/ AskFails(t)
        BY <2>1, AskingGap
    <2>2. CASE TerminalUpgrade(t)
        BY <2>2, AskingGap, UpgradeGap
    <2>3. CASE Leave(t) \/ Reattach(t) \/ Closed(t) \/ Cut(t)
        BY <2>3, LeavingTabGap
    <2>4. CASE Receive(t)
        BY <2>4, LeavingTabGap, ReceiveGap
    <2> QED
        BY <1>3, <2>1, <2>2, <2>3, <2>4 DEF TabStep
<1> QED
    BY <1>1, <1>2, <1>3 DEF Next

\* Whatever was truncated, replayed, published meanwhile or cut, each event that a
\* tab is about to read is one it has, or the one after the last it has.
THEOREM NoGapUnexplained == Spec => []NoUnexplainedGap
<1>1. Inv /\ GapInv /\ [Next]_vars => GapInv'
    BY NextGap, StutterGap
<1>2. ASSUME Inv, GapInv, NEW t \in Tabs, tab[t].phase = "open", wire[tab[t].sock] # <<>>,
             Head(wire[tab[t].sock]).kind = "event"
      PROVE  Head(wire[tab[t].sock]).seq <= tab[t].seq + 1
    <2>1. /\ tab[t].sock \in Sockets /\ IsSequence(wire[tab[t].sock])
          /\ Chain(wire[tab[t].sock], tab[t].seq)
        BY <1>2 DEF Inv, TabInv, SockTypes, GapInv, ShownInv, Serving
    <2>2. Head(wire[tab[t].sock]) = wire[tab[t].sock][1] /\ 1 \in 1..Len(wire[tab[t].sock])
        BY <1>2, <2>1, MessagesUnderWay
    <2> QED
        BY <1>2, <2>1, <2>2 DEF Chain
<1>3. Inv /\ GapInv => NoUnexplainedGap
    BY <1>2 DEF NoUnexplainedGap
<1> QED
    BY <1>1, <1>3, InitGap, Invariance, PTL DEF Spec

=============================================================================
