-------------------------------- MODULE Tunnel --------------------------------
(***************************************************************************)
(* The tunnel registry of crates/remotedeck-core/src/tunnel.rs: start,     *)
(* stop, restart, remove, stop_for_host and stop_all, the worker thread    *)
(* that every start spawns, and the OpenSSH child each worker owns.        *)
(*                                                                         *)
(* The registry mutex `operations` admits one request at a time: `op` is   *)
(* the request that holds it and stage[t] how far it is with tunnel t      *)
(* (stop_all works on all tunnels at once).  The per-entry `lifecycle`     *)
(* mutex is held by a request from the generation bump to its end, and by  *)
(* a worker around the spawn of a child; the latter is one action here.    *)
(* An action is one critical section of the per-entry `inner` mutex.       *)
(*                                                                         *)
(* A worker is identified by the generation it was started with.  A        *)
(* removed entry and the one a later start creates are different objects,  *)
(* and workers of the old one never see the new one; the model keeps       *)
(* counting generations across the removal, which identifies the pair.     *)
(*                                                                         *)
(* Left out: log lines, health text, uptime and backoff arithmetic, and    *)
(* the snapshots that are emitted (EventStream).                           *)
(***************************************************************************)
EXTENDS Naturals, FiniteSets

CONSTANTS
    Tunnels,            \* tunnel identifiers
    HostIds,            \* host identifiers
    Target,             \* [Tunnels -> HostIds]: the host of a tunnel
    Route,              \* [HostIds -> SUBSET HostIds]: a host and its ProxyJump
    Configs,            \* tunnel profiles: [auto : BOOLEAN, health : BOOLEAN]
    MaxActive,          \* MAX_ACTIVE_TUNNELS
    MaxEntries,         \* MAX_RUNTIME_ENTRIES
    MaxHealthFailures,  \* MAX_HEALTH_FAILURES
    Faults,             \* which of AllFaults the environment may produce
    MaxGeneration,      \* bound: generations of one tunnel
    Settings            \* connection-critical settings of a host

AllFaults == {"terminate", "poll", "process", "thread", "resolve", "panic"}

ASSUME TunnelAssumption ==
    /\ IsFiniteSet(Tunnels)
    /\ Target \in [Tunnels -> HostIds]
    /\ Route \in [HostIds -> SUBSET HostIds]
    /\ Configs \subseteq [auto : BOOLEAN, health : BOOLEAN]
    /\ MaxActive \in Nat \ {0}
    /\ MaxEntries \in Nat \ {0}
    /\ MaxHealthFailures \in Nat \ {0}
    /\ Faults \subseteq AllFaults
    /\ MaxGeneration \in Nat
    /\ Settings # {}

VARIABLES
    entry,        \* tunnels with an entry in the registry
    state,        \* TunnelInner.state
    desired,      \* TunnelInner.desired_running
    workerActive, \* TunnelInner.worker_active
    retired,      \* TunnelInner.retired
    generation,   \* TunnelInner.generation
    child,        \* TunnelInner.child: generation that spawned it, 0 if None
    profile,      \* TunnelInner.profile
    hostProfile,  \* TunnelInner.host_profile: settings of its route
    op,           \* request that holds the registry mutex, or "none"
    opConfig,     \* profile given to the start or restart in progress
    stage,        \* progress of that request on each tunnel
    opChild,      \* child the request took out of the entry, 0 if None
    wpc,          \* program counter of the worker of each generation
    strikes,      \* consecutive failed health checks of the current attempt
    proc,         \* the OpenSSH process that somebody owns, by generation
    lost,         \* generations with a process that outlived its last owner
    hosts         \* saved settings of each host, and its save_host in progress
                  \* in progress: the settings they read and those they save

entryVars == <<entry, state, desired, workerActive, retired, generation, child,
               profile, hostProfile>>
opVars    == <<op, opConfig, stage, opChild>>
vars      == <<entry, state, desired, workerActive, retired, generation, child,
               profile, hostProfile, op, opConfig, stage, opChild, wpc, strikes,
               proc, lost, hosts>>

Generations == 1 .. MaxGeneration
States == {"Stopped", "Starting", "Running", "Waiting", "Failed"}
LiveStates == {"Starting", "Running", "Waiting"}
Ops == {"none", "start", "stop", "restart", "remove", "stop_for_host", "stop_all"}
Stages == {"idle", "stop", "stopping", "clear", "begin", "bump", "set", "spawn"}
WorkerStates == {"none", "begin", "resolve", "spawn", "poll", "unhealthy",
                 "terminating", "dropping", "clean", "failed", "wait", "guard",
                 "closing", "exited"}
Procs == {"none", "alive", "dead"}
HostRecords == [saved : Settings, edits : SUBSET (Settings \X Settings)]

Init ==
    /\ entry = {}
    /\ state = [t \in Tunnels |-> "Stopped"]
    /\ desired = [t \in Tunnels |-> FALSE]
    /\ workerActive = [t \in Tunnels |-> FALSE]
    /\ retired = [t \in Tunnels |-> FALSE]
    /\ generation = [t \in Tunnels |-> 0]
    /\ child = [t \in Tunnels |-> 0]
    /\ profile \in [Tunnels -> Configs]
    /\ op = "none"
    /\ opConfig \in Configs
    /\ stage = [t \in Tunnels |-> "idle"]
    /\ opChild = [t \in Tunnels |-> 0]
    /\ wpc = [t \in Tunnels |-> [g \in Generations |-> "none"]]
    /\ strikes = [t \in Tunnels |-> 0]
    /\ proc = [t \in Tunnels |-> [g \in Generations |-> "none"]]
    /\ lost = [t \in Tunnels |-> {}]
    /\ hosts \in [HostIds -> [saved : Settings, edits : {{}}]]
    /\ hostProfile = [t \in Tunnels |-> [h \in HostIds |-> hosts[h].saved]]

\* is_current_locked: the worker of generation g may still act on t.
IsCurrent(t, g) == generation[t] = g /\ desired[t]

\* desired_running || worker_active || child.is_some(), as the limits count it.
IsActive(t) == desired[t] \/ workerActive[t] \/ child[t] # 0

LifecycleHeld(t) == stage[t] \in {"stopping", "set", "spawn"}

\* The request leaves tunnel t; it releases the registry mutex when it was the
\* last one.
Leave(t) ==
    /\ stage' = [stage EXCEPT ![t] = "idle"]
    /\ op' = IF \A u \in Tunnels \ {t} : stage[u] = "idle" THEN "none" ELSE op

\* OwnedChild::terminate succeeded or the process had exited: it is reaped.
\* There is nothing to reap for g = 0, no child.
Reap(t, g) ==
    proc' = [proc EXCEPT ![t] = [k \in Generations |-> IF k = g THEN "none" ELSE @[k]]]

\* OwnedChild::drop: kill, wait 250 ms, ignore errors.  Its owner is gone either
\* way: the process has exited, or runs on with nobody to poll or terminate it.
DropChild(t, g) ==
    /\ Reap(t, g)
    /\ \/ UNCHANGED lost
       \/ /\ "terminate" \in Faults
          /\ g # 0 /\ proc[t][g] = "alive"
          /\ lost' = [lost EXCEPT ![t] = @ \cup {g}]

-----------------------------------------------------------------------------
(* Requests.                                                               *)

\* start: takes the registry mutex.
Start(t, c) ==
    /\ op = "none"
    /\ generation[t] < MaxGeneration
    /\ op' = "start"
    /\ opConfig' = c
    /\ stage' = [stage EXCEPT ![t] = "begin"]
    /\ UNCHANGED <<entryVars, opChild, wpc, strikes, proc, lost, hosts>>

\* restart: stop_inner first, unless there is no entry, then start_inner.
Restart(t, c) ==
    /\ op = "none"
    /\ generation[t] + 1 < MaxGeneration
    /\ op' = "restart"
    /\ opConfig' = c
    /\ stage' = [stage EXCEPT ![t] = IF t \in entry THEN "stop" ELSE "begin"]
    /\ UNCHANGED <<entryVars, opChild, wpc, strikes, proc, lost, hosts>>

\* stop, remove, stop_for_host and stop_all: stop_inner for a set of entries.
StopEntries(kind, T) ==
    /\ op = "none"
    /\ T # {}
    /\ \A t \in T : generation[t] < MaxGeneration
    /\ op' = kind
    /\ stage' = [t \in Tunnels |-> IF t \in T THEN "stop" ELSE "idle"]
    /\ UNCHANGED <<entryVars, opConfig, opChild, wpc, strikes, proc, lost, hosts>>

Stop(t) == t \in entry /\ StopEntries("stop", {t})

Remove(t) == t \in entry /\ StopEntries("remove", {t})

StopForHost(h) == StopEntries("stop_for_host", {t \in entry : Target[t] = h})

StopAll == StopEntries("stop_all", entry)

\* Entries that start_inner keeps: the retired ones are dropped from the map.
Retained == {t \in entry : ~retired[t]}

\* start_inner, entries.retain: the map lets go of the retired entries.  The
\* reader of the child's stderr holds its entry too, so a child that runs runs on
\* and nobody terminates it; without that thread the last reference is gone, and
\* the drop of the child kills it or fails to.
DropRetired ==
    LET dropped == entry \ Retained
        running == {t \in dropped : child[t] # 0 /\ proc[t][child[t]] = "alive"}
    IN  /\ retired' = [t \in Tunnels |-> FALSE]
        /\ child' = [t \in Tunnels |-> IF t \in dropped THEN 0 ELSE child[t]]
        /\ state' = [t \in Tunnels |-> IF t \in dropped THEN "Stopped" ELSE state[t]]
        /\ proc' = [t \in Tunnels |-> [g \in Generations |->
                       IF t \in dropped /\ g = child[t] THEN "none" ELSE proc[t][g]]]
        /\ \E kept \in SUBSET running :
              /\ kept = running \/ "thread" \in Faults
              /\ lost' = [t \in Tunnels |->
                    IF t \in kept THEN lost[t] \cup {child[t]} ELSE lost[t]]

\* start_inner, the limits on retained entries and on other active tunnels.
WithinLimits(t) ==
    /\ t \in Retained \/ Cardinality(Retained) < MaxEntries
    /\ Cardinality({u \in Retained \ {t} : IsActive(u)}) < MaxActive

\* start_inner up to the entry: it is found or created, or a limit refuses.
StartAdmit(t) ==
    /\ stage[t] = "begin"
    /\ DropRetired
    /\ IF WithinLimits(t)
         THEN /\ entry' = Retained \cup {t}
              /\ stage' = [stage EXCEPT ![t] = "bump"]
              /\ UNCHANGED op
         ELSE entry' = Retained /\ Leave(t)
    /\ UNCHANGED <<desired, workerActive, generation, profile, hostProfile,
                   opConfig, opChild, wpc, strikes, hosts>>

\* start: the saved host, or the command for it, cannot be resolved.
StartUnresolved(t) ==
    /\ stage[t] = "begin"
    /\ "resolve" \in Faults
    /\ Leave(t)
    /\ UNCHANGED <<entryVars, opConfig, opChild, wpc, strikes, proc, lost, hosts>>

AlreadyRunning(t) ==
    desired[t] /\ profile[t] = opConfig /\ state[t] \in LiveStates

\* start_inner under the lifecycle mutex: a live tunnel with this profile is
\* left alone.
StartAlreadyRunning(t) ==
    /\ stage[t] = "bump"
    /\ AlreadyRunning(t)
    /\ Leave(t)
    /\ UNCHANGED <<entryVars, opConfig, opChild, wpc, strikes, proc, lost, hosts>>

\* start_inner: otherwise a new generation begins and the stale child is taken.
StartBump(t) ==
    /\ stage[t] = "bump"
    /\ ~AlreadyRunning(t)
    /\ generation' = [generation EXCEPT ![t] = @ + 1]
    /\ opChild' = [opChild EXCEPT ![t] = child[t]]
    /\ child' = [child EXCEPT ![t] = 0]
    /\ stage' = [stage EXCEPT ![t] = "set"]
    /\ UNCHANGED <<entry, state, desired, workerActive, retired, profile,
                   hostProfile, op, opConfig, wpc, strikes, proc, lost, hosts>>

\* start_inner: the stale child could not be terminated; it is dropped and the
\* error returned, with the other fields of the entry as they were.
StartTerminateFails(t) ==
    /\ stage[t] = "set"
    /\ opChild[t] # 0
    /\ "terminate" \in Faults
    /\ DropChild(t, opChild[t])
    /\ opChild' = [opChild EXCEPT ![t] = 0]
    /\ Leave(t)
    /\ UNCHANGED <<entryVars, opConfig, wpc, strikes, hosts>>

\* start_inner: the stale child, if any, is gone; publish the new lifecycle.
StartSet(t) ==
    /\ stage[t] = "set"
    /\ Reap(t, opChild[t])
    /\ opChild' = [opChild EXCEPT ![t] = 0]
    /\ state' = [state EXCEPT ![t] = "Starting"]
    /\ desired' = [desired EXCEPT ![t] = TRUE]
    /\ workerActive' = [workerActive EXCEPT ![t] = TRUE]
    /\ profile' = [profile EXCEPT ![t] = opConfig]
    /\ hostProfile' = [hostProfile EXCEPT ![t] = [h \in HostIds |-> hosts[h].saved]]
    /\ stage' = [stage EXCEPT ![t] = "spawn"]
    /\ UNCHANGED <<entry, retired, generation, child, op, opConfig, wpc, strikes,
                   lost, hosts>>

\* spawn_worker succeeds.
StartSpawnWorker(t) ==
    /\ stage[t] = "spawn"
    /\ wpc' = [wpc EXCEPT ![t][generation[t]] = "begin"]
    /\ Leave(t)
    /\ UNCHANGED <<entryVars, opConfig, opChild, strikes, proc, lost, hosts>>

\* spawn_worker fails.
StartSpawnFails(t) ==
    /\ stage[t] = "spawn"
    /\ "thread" \in Faults
    /\ state' = [state EXCEPT ![t] = "Failed"]
    /\ desired' = [desired EXCEPT ![t] = FALSE]
    /\ workerActive' = [workerActive EXCEPT ![t] = FALSE]
    /\ Leave(t)
    /\ UNCHANGED <<entry, retired, generation, child, profile, hostProfile,
                   opConfig, opChild, wpc, strikes, proc, lost, hosts>>

\* stop_inner, first critical section: under the lifecycle mutex, reconnection
\* is disabled and the child taken.  stop_for_host stops one entry at a time.
StopTake(t) ==
    /\ stage[t] = "stop"
    /\ op = "stop_for_host" =>
          \A u \in Tunnels : stage[u] \notin {"stopping", "clear"}
    /\ desired' = [desired EXCEPT ![t] = FALSE]
    /\ workerActive' = [workerActive EXCEPT ![t] = FALSE]
    /\ retired' = [retired EXCEPT ![t] = @ \/ op \in {"remove", "stop_for_host"}]
    /\ generation' = [generation EXCEPT ![t] = @ + 1]
    /\ opChild' = [opChild EXCEPT ![t] = child[t]]
    /\ child' = [child EXCEPT ![t] = 0]
    /\ stage' = [stage EXCEPT ![t] = "stopping"]
    /\ UNCHANGED <<entry, state, profile, hostProfile, op, opConfig, wpc, strikes,
                   proc, lost, hosts>>

\* stop_inner: the child, if any, was terminated and reaped.
StopDone(t) ==
    /\ stage[t] = "stopping"
    /\ Reap(t, opChild[t])
    /\ opChild' = [opChild EXCEPT ![t] = 0]
    /\ state' = [state EXCEPT ![t] = "Stopped"]
    /\ CASE op \in {"remove", "stop_for_host"} ->
              stage' = [stage EXCEPT ![t] = "clear"] /\ UNCHANGED op
         [] op = "restart" ->
              stage' = [stage EXCEPT ![t] = "begin"] /\ UNCHANGED op
         [] OTHER -> Leave(t)
    /\ UNCHANGED <<entry, desired, workerActive, retired, generation, child,
                   profile, hostProfile, opConfig, wpc, strikes, lost, hosts>>

\* Faulty stop_inner: the child that survived is dropped with the error.
StopFailsDropping(t) ==
    /\ stage[t] = "stopping"
    /\ opChild[t] # 0
    /\ "terminate" \in Faults
    /\ DropChild(t, opChild[t])
    /\ opChild' = [opChild EXCEPT ![t] = 0]
    /\ state' = [state EXCEPT ![t] = "Failed"]
    /\ Leave(t)
    /\ UNCHANGED <<entry, desired, workerActive, retired, generation, child, profile,
                   hostProfile, opConfig, wpc, strikes, hosts>>

\* stop_inner: the child survived; it stays owned by the entry.
StopFails(t) ==
    /\ stage[t] = "stopping"
    /\ opChild[t] # 0
    /\ "terminate" \in Faults
    /\ child' = [child EXCEPT ![t] = opChild[t]]
    /\ opChild' = [opChild EXCEPT ![t] = 0]
    /\ state' = [state EXCEPT ![t] = "Failed"]
    /\ Leave(t)
    /\ UNCHANGED <<entry, desired, workerActive, retired, generation, profile,
                   hostProfile, opConfig, wpc, strikes, proc, lost, hosts>>

\* remove and stop_for_host: the stopped entry leaves the map.
StopClear(t) ==
    /\ stage[t] = "clear"
    /\ entry' = entry \ {t}
    /\ retired' = [retired EXCEPT ![t] = FALSE]
    /\ Leave(t)
    /\ UNCHANGED <<state, desired, workerActive, generation, child, profile,
                   hostProfile, opConfig, opChild, wpc, strikes, proc, lost, hosts>>

\* save_host: the saved profile is read before the update takes the mutex of
\* the registry; dispatch holds the configuration mutex around both.
SaveHost(h, next) ==
    /\ \A k \in HostIds : hosts[k].edits = {}
    /\ hosts' = [hosts EXCEPT ![h].edits = @ \cup {<<hosts[h].saved, next>>}]
    /\ UNCHANGED <<entryVars, opVars, wpc, strikes, proc, lost>>

\* An active tunnel was started through h, directly or as its ProxyJump.
InUse(h) == \E t \in entry : h \in Route[Target[t]] /\ IsActive(t)

\* Faulty update: only looks at the target host of a tunnel, not at its route.
HostUpdateTargetOnly(h, previous, next) ==
    /\ op = "none"
    /\ <<previous, next>> \in hosts[h].edits
    /\ hosts' = [hosts EXCEPT ![h] =
          [saved |-> IF previous # next /\ (\E t \in entry : Target[t] = h /\ IsActive(t))
                       THEN @.saved ELSE next,
           edits |-> @.edits \ {<<previous, next>>}]]
    /\ UNCHANGED <<entryVars, opVars, wpc, strikes, proc, lost>>

\* apply_host_update: a change of the connection is refused while h is in use.
HostUpdate(h, previous, next) ==
    /\ op = "none"
    /\ <<previous, next>> \in hosts[h].edits
    /\ hosts' = [hosts EXCEPT ![h] =
          [saved |-> IF previous # next /\ InUse(h) THEN @.saved ELSE next,
           edits |-> @.edits \ {<<previous, next>>}]]
    /\ UNCHANGED <<entryVars, opVars, wpc, strikes, proc, lost>>

-----------------------------------------------------------------------------
(* The worker of generation g: run_worker.                                 *)

Goto(t, g, pc) == wpc' = [wpc EXCEPT ![t][g] = pc]

\* A check of is_current fails: run_worker returns.
WorkerLeaves(t, g) ==
    /\ wpc[t][g] \in {"begin", "poll", "clean", "failed", "wait"}
    /\ ~IsCurrent(t, g)
    /\ Goto(t, g, "guard")
    /\ UNCHANGED <<entryVars, opVars, strikes, proc, lost, hosts>>

\* Faulty mark_starting: does not check that the worker is current.
MarkStartingUnchecked(t, g) ==
    /\ wpc[t][g] = "begin"
    /\ state' = [state EXCEPT ![t] = "Starting"]
    /\ strikes' = [strikes EXCEPT ![t] = 0]
    /\ Goto(t, g, "resolve")
    /\ UNCHANGED <<entry, desired, workerActive, retired, generation, child, profile,
                   hostProfile, opVars, proc, lost, hosts>>

\* mark_starting.
MarkStarting(t, g) ==
    /\ wpc[t][g] = "begin"
    /\ IsCurrent(t, g)
    /\ state' = [state EXCEPT ![t] = "Starting"]
    /\ strikes' = [strikes EXCEPT ![t] = 0]
    /\ Goto(t, g, "resolve")
    /\ UNCHANGED <<entry, desired, workerActive, retired, generation, child, profile,
                   hostProfile, opVars, proc, lost, hosts>>

\* current_host_profile and tunnel_command.
ResolveHost(t, g) ==
    /\ wpc[t][g] = "resolve"
    /\ \/ Goto(t, g, "spawn")
       \/ "resolve" \in Faults /\ Goto(t, g, "failed")
    /\ UNCHANGED <<entryVars, opVars, strikes, proc, lost, hosts>>

\* Faulty spawn: is_current is not checked again under the lifecycle mutex.
SpawnChildUnchecked(t, g) ==
    /\ wpc[t][g] = "spawn"
    /\ ~LifecycleHeld(t)
    /\ child' = [child EXCEPT ![t] = g]
    /\ proc' = [proc EXCEPT ![t][g] = "alive"]
    /\ Goto(t, g, "poll")
    /\ UNCHANGED <<entry, state, desired, workerActive, retired, generation, profile,
                   hostProfile, opVars, strikes, lost, hosts>>

\* The spawn of a child under the lifecycle mutex: nothing else can make the
\* worker stale between the check and the store.
SpawnChild(t, g) ==
    /\ wpc[t][g] = "spawn"
    /\ ~LifecycleHeld(t)
    /\ \/ /\ ~IsCurrent(t, g)
          /\ Goto(t, g, "guard")
          /\ UNCHANGED <<child, proc>>
       \/ /\ IsCurrent(t, g)
          /\ child' = [child EXCEPT ![t] = g]
          /\ proc' = [proc EXCEPT ![t][g] = "alive"]
          /\ Goto(t, g, "poll")
       \/ /\ IsCurrent(t, g)
          /\ "process" \in Faults
          /\ Goto(t, g, "failed")
          /\ UNCHANGED <<child, proc>>
    /\ UNCHANGED <<entry, state, desired, workerActive, retired, generation, profile,
                   hostProfile, opVars, strikes, lost, hosts>>

\* poll_child: the child has exited, cleanly or not.
PollExited(t, g) ==
    /\ wpc[t][g] = "poll"
    /\ IsCurrent(t, g)
    /\ child[t] = g
    /\ proc[t][g] = "dead"
    /\ child' = [child EXCEPT ![t] = 0]
    /\ Reap(t, g)
    /\ \E end \in {"clean", "failed"} : Goto(t, g, end)
    /\ UNCHANGED <<entry, state, desired, workerActive, retired, generation, profile,
                   hostProfile, opVars, strikes, lost, hosts>>

\* poll_child: the child cannot be polled; it is taken, to be dropped.
PollFails(t, g) ==
    /\ wpc[t][g] = "poll"
    /\ IsCurrent(t, g)
    /\ child[t] = g
    /\ "poll" \in Faults
    /\ child' = [child EXCEPT ![t] = 0]
    /\ Goto(t, g, "dropping")
    /\ UNCHANGED <<entry, state, desired, workerActive, retired, generation, profile,
                   hostProfile, opVars, strikes, proc, lost, hosts>>

\* mark_running, once the startup grace period is over.
MarkRunning(t, g) ==
    /\ wpc[t][g] = "poll"
    /\ IsCurrent(t, g)
    /\ state[t] = "Starting"
    /\ state' = [state EXCEPT ![t] = "Running"]
    /\ UNCHANGED <<entry, desired, workerActive, retired, generation, child, profile,
                   hostProfile, opVars, wpc, strikes, proc, lost, hosts>>

\* A TCP health check of a running tunnel and set_health.
HealthCheck(t, g) ==
    /\ wpc[t][g] = "poll"
    /\ IsCurrent(t, g)
    /\ state[t] = "Running"
    /\ profile[t].health
    /\ \/ /\ strikes' = [strikes EXCEPT ![t] = 0]
          /\ UNCHANGED wpc
       \/ /\ strikes' = [strikes EXCEPT ![t] = @ + 1]
          /\ IF strikes[t] + 1 >= MaxHealthFailures
               THEN Goto(t, g, "unhealthy")
               ELSE UNCHANGED wpc
    /\ UNCHANGED <<entryVars, opVars, proc, lost, hosts>>

\* Faulty take: the child is taken whatever the generation of the entry.
TakeUnhealthyUnchecked(t, g) ==
    /\ wpc[t][g] = "unhealthy"
    /\ child' = [child EXCEPT ![t] = 0]
    /\ Goto(t, g, "terminating")
    /\ UNCHANGED <<entry, state, desired, workerActive, retired, generation, profile,
                   hostProfile, opVars, strikes, proc, lost, hosts>>

\* terminate_generation_child, first critical section.
TakeUnhealthy(t, g) ==
    /\ wpc[t][g] = "unhealthy"
    /\ \/ /\ generation[t] # g
          /\ Goto(t, g, "failed")
          /\ UNCHANGED child
       \/ /\ generation[t] = g
          /\ child' = [child EXCEPT ![t] = 0]
          /\ Goto(t, g, "terminating")
    /\ UNCHANGED <<entry, state, desired, workerActive, retired, generation, profile,
                   hostProfile, opVars, strikes, proc, lost, hosts>>

\* terminate_generation_child: the child exited.
TerminateUnhealthy(t, g) ==
    /\ wpc[t][g] = "terminating"
    /\ Reap(t, g)
    /\ Goto(t, g, "failed")
    /\ UNCHANGED <<entryVars, opVars, strikes, lost, hosts>>

\* terminate_generation_child: it did not; the child is put back if the
\* generation is still the same, and otherwise dropped.
TerminateUnhealthyFails(t, g) ==
    /\ wpc[t][g] = "terminating"
    /\ "terminate" \in Faults
    /\ \/ /\ generation[t] = g
          /\ child' = [child EXCEPT ![t] = g]
          /\ Goto(t, g, "failed")
       \/ /\ generation[t] # g
          /\ Goto(t, g, "dropping")
          /\ UNCHANGED child
    /\ UNCHANGED <<entry, state, desired, workerActive, retired, generation, profile,
                   hostProfile, opVars, strikes, proc, lost, hosts>>

\* The drop of the child that poll_child, terminate_generation_child or
\* WorkerGuard::drop took, outside the lock.
WorkerDrops(t, g) ==
    /\ wpc[t][g] \in {"dropping", "closing"}
    /\ DropChild(t, g)
    /\ Goto(t, g, IF wpc[t][g] = "dropping" THEN "failed" ELSE "exited")
    /\ UNCHANGED <<entryVars, opVars, strikes, hosts>>

\* finish_attempt: give up if the child is still there, otherwise wait for the
\* next attempt or stop for good.
FinishAttempt(t, g) ==
    /\ wpc[t][g] \in {"clean", "failed"}
    /\ IsCurrent(t, g)
    /\ IF child[t] = 0 /\ profile[t].auto
         THEN /\ state' = [state EXCEPT ![t] = "Waiting"]
              /\ Goto(t, g, "wait")
              /\ UNCHANGED desired
         ELSE /\ state' = [state EXCEPT ![t] =
                      IF child[t] = 0 /\ wpc[t][g] = "clean" THEN "Stopped" ELSE "Failed"]
              /\ desired' = [desired EXCEPT ![t] = FALSE]
              /\ Goto(t, g, "guard")
    /\ UNCHANGED <<entry, workerActive, retired, generation, child, profile,
                   hostProfile, opVars, strikes, proc, lost, hosts>>

\* interruptible_wait: the backoff is over.
BackoffOver(t, g) ==
    /\ wpc[t][g] = "wait"
    /\ IsCurrent(t, g)
    /\ Goto(t, g, "begin")
    /\ UNCHANGED <<entryVars, opVars, strikes, proc, lost, hosts>>

\* The worker thread unwinds.
WorkerPanics(t, g) ==
    /\ "panic" \in Faults
    /\ wpc[t][g] \in {"begin", "resolve", "poll", "clean", "failed", "wait"}
    /\ Goto(t, g, "guard")
    /\ UNCHANGED <<entryVars, opVars, strikes, proc, lost, hosts>>

\* WorkerGuard::drop: the worker of a tunnel that should run takes its child.
WorkerGuardDrop(t, g) ==
    /\ wpc[t][g] = "guard"
    /\ workerActive' = [workerActive EXCEPT ![t] = @ /\ generation[t] # g]
    /\ \/ /\ IsCurrent(t, g)
          /\ desired' = [desired EXCEPT ![t] = FALSE]
          /\ state' = [state EXCEPT ![t] = "Failed"]
          /\ child' = [child EXCEPT ![t] = 0]
          /\ Goto(t, g, IF child[t] = 0 THEN "exited" ELSE "closing")
       \/ /\ ~IsCurrent(t, g)
          /\ Goto(t, g, "exited")
          /\ UNCHANGED <<desired, state, child>>
    /\ UNCHANGED <<entry, retired, generation, profile, hostProfile, opVars, strikes,
                   proc, lost, hosts>>

\* The environment: an OpenSSH process exits by itself.  If somebody owns it, it
\* waits to be reaped.
ProcessExits(t, g) ==
    /\ \/ /\ proc[t][g] = "alive"
          /\ proc' = [proc EXCEPT ![t][g] = "dead"]
          /\ UNCHANGED lost
       \/ /\ g \in lost[t]
          /\ lost' = [lost EXCEPT ![t] = @ \ {g}]
          /\ UNCHANGED proc
    /\ UNCHANGED <<entryVars, opVars, wpc, strikes, hosts>>

-----------------------------------------------------------------------------
Request(t) ==
    \/ \E c \in Configs : Start(t, c) \/ Restart(t, c)
    \/ Stop(t)
    \/ Remove(t)

RequestStep(t) ==
    \/ StartAdmit(t) \/ StartUnresolved(t) \/ StartAlreadyRunning(t) \/ StartBump(t)
    \/ StartTerminateFails(t) \/ StartSet(t) \/ StartSpawnWorker(t) \/ StartSpawnFails(t)
    \/ StopTake(t) \/ StopDone(t) \/ StopFails(t) \/ StopClear(t)

EditHost(h) ==
    \/ \E next \in Settings : SaveHost(h, next)
    \/ \E previous, next \in Settings : HostUpdate(h, previous, next)

WorkerStep(t, g) ==
    \/ WorkerLeaves(t, g) \/ MarkStarting(t, g) \/ ResolveHost(t, g) \/ SpawnChild(t, g)
    \/ PollExited(t, g) \/ PollFails(t, g) \/ TakeUnhealthy(t, g)
    \/ TerminateUnhealthy(t, g) \/ TerminateUnhealthyFails(t, g)
    \/ WorkerDrops(t, g) \/ FinishAttempt(t, g) \/ BackoffOver(t, g)
    \/ WorkerGuardDrop(t, g)

Next ==
    \/ \E t \in Tunnels : Request(t) \/ RequestStep(t)
    \/ \E h \in HostIds : StopForHost(h) \/ EditHost(h)
    \/ StopAll
    \/ \E t \in Tunnels, g \in Generations :
          \/ WorkerStep(t, g)
          \/ MarkRunning(t, g) \/ HealthCheck(t, g)
          \/ WorkerPanics(t, g)
          \/ ProcessExits(t, g)

(* Fairness: threads keep running and every wait in them is bounded (the   *)
(* termination wait by 5 s, the backoff by 30 s).  Nothing is assumed of   *)
(* the user, of the network or of the lifetime of an OpenSSH process.      *)
Fairness ==
    /\ \A t \in Tunnels : WF_vars(RequestStep(t))
    /\ \A t \in Tunnels, g \in Generations : WF_vars(WorkerStep(t, g))

Spec == Init /\ [][Next]_vars /\ Fairness

-----------------------------------------------------------------------------
(* Properties.                                                             *)

\* Every variable of the registry keeps its type.
TypeOK ==
    /\ entry \subseteq Tunnels
    /\ state \in [Tunnels -> States]
    /\ desired \in [Tunnels -> BOOLEAN]
    /\ workerActive \in [Tunnels -> BOOLEAN]
    /\ retired \in [Tunnels -> BOOLEAN]
    /\ generation \in [Tunnels -> 0 .. MaxGeneration]
    /\ child \in [Tunnels -> 0 .. MaxGeneration]
    /\ profile \in [Tunnels -> Configs]
    /\ hostProfile \in [Tunnels -> [HostIds -> Settings]]
    /\ op \in Ops
    /\ opConfig \in Configs
    /\ stage \in [Tunnels -> Stages]
    /\ opChild \in [Tunnels -> 0 .. MaxGeneration]
    /\ wpc \in [Tunnels -> [Generations -> WorkerStates]]
    /\ strikes \in [Tunnels -> 0 .. MaxHealthFailures]
    /\ proc \in [Tunnels -> [Generations -> Procs]]
    /\ lost \in [Tunnels -> SUBSET Generations]
    /\ hosts \in [HostIds -> HostRecords]

InEntry(t, g)  == child[t] = g
InRequest(t, g) == opChild[t] = g
InWorker(t, g) == wpc[t][g] \in {"terminating", "dropping", "closing"}

\* An OpenSSH process has exactly one owner, which will poll, terminate or drop
\* it: a registered entry, the request that stops it, or the worker that
\* terminates or drops it.  No interleaving of requests and workers leaves a
\* forward without one, or with two; only a process that could not be
\* terminated ever outlives its owner (the drop of OwnedChild, or the retired
\* entry of a failed removal).
EveryProcessOwned ==
    \A t \in Tunnels, g \in Generations :
        /\ proc[t][g] # "none" =>
              (InEntry(t, g) /\ t \in entry) \/ InRequest(t, g) \/ InWorker(t, g)
        /\ ~(InEntry(t, g) /\ InRequest(t, g))
        /\ ~(InEntry(t, g) /\ InWorker(t, g))
        /\ ~(InRequest(t, g) /\ InWorker(t, g))
        /\ g \in lost[t] => "terminate" \in Faults

\* snapshot_for: a tunnel without an entry, or with a retired one, is listed as
\* stopped.
Reported(t) == IF t \in entry /\ ~retired[t] THEN state[t] ELSE "Stopped"

\* A tunnel listed as stopped forwards nothing, except through a child that an
\* outdated worker is terminating or dropping, or through one that could not be
\* terminated: it belongs to the retired entry of a failed removal, or to nobody.
StoppedForwardsNothing ==
    \A t \in Tunnels, g \in Generations :
        /\ Reported(t) = "Stopped"
        /\ stage[t] = "idle"
        /\ proc[t][g] # "none" \/ g \in lost[t]
        => \/ InWorker(t, g) /\ generation[t] # g
           \/ /\ "terminate" \in Faults
              /\ g \in lost[t] \/ (retired[t] /\ InEntry(t, g))

\* stop, remove, stop_for_host and stop_all never let go of a process that they
\* cannot terminate: it stays in its entry, for a later stop.  Only a start or
\* restart, or the process's own worker, can lose one.
StopsLoseNothing ==
    [][\A t \in Tunnels, g \in Generations :
          g \in lost'[t] \ lost[t] => op \in {"start", "restart"} \/ InWorker(t, g)]_vars

\* docs/tunnels.md: no start creates an invisible forward, one that runs on while
\* no entry, request or worker owns it.
NoLostForward == \A t \in Tunnels : lost[t] = {}

\* The saved connection settings of the hosts on an active tunnel's route are
\* those the tunnel was started with: a change is refused until the tunnel stops.
ActiveUsesSavedProfile ==
    \A t \in entry : IsActive(t) /\ stage[t] = "idle" =>
        \A h \in Route[Target[t]] : hostProfile[t][h] = hosts[h].saved

\* Late activity of a worker cannot revive a tunnel: only a start or restart
\* makes a stopped or failed tunnel live again.
NoRevival ==
    [][\A t \in Tunnels :
          state[t] \notin LiveStates /\ state'[t] \in LiveStates
              => op \in {"start", "restart"}]_vars

=============================================================================
