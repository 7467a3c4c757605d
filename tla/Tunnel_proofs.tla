---------------------------- MODULE Tunnel_proofs ----------------------------
(***************************************************************************)
(* Proofs about Tunnel, for any number of tunnels, hosts, profiles and     *)
(* generations, and for every subset of the faults.                        *)
(*                                                                         *)
(* The properties are not inductive.  EveryProcessOwned needs to know that *)
(* a new generation has no worker and no process yet (Past), and where the *)
(* child of a generation may be at each program counter of its worker and  *)
(* at each stage of the request (EntryInv, RequestInv).                    *)
(* StoppedForwardsNothing needs Stopped => no child in the entry, and that *)
(* a retired entry is left behind only by a termination that failed;       *)
(* NoRevival needs that a worker that may still act belongs to a tunnel    *)
(* that is desired and live.  LocalInv(t) speaks of one tunnel only, so an *)
(* action on t is checked against LocalInv(t) and, by Frame, against       *)
(* nothing else; StartAdmit, which drops the retired entries of all        *)
(* tunnels, is the exception.                                              *)
(***************************************************************************)
EXTENDS Tunnel, TLAPS

\* The program counters of a worker that has not begun to leave.
Working == {"begin", "resolve", "spawn", "poll", "unhealthy", "terminating",
            "dropping", "clean", "failed", "wait"}

\* EveryProcessOwned for one tunnel.
OwnedAt(t) ==
    \A g \in Generations :
        /\ proc[t][g] # "none" =>
              (InEntry(t, g) /\ t \in entry) \/ InRequest(t, g) \/ InWorker(t, g)
        /\ ~(InEntry(t, g) /\ InRequest(t, g))
        /\ ~(InEntry(t, g) /\ InWorker(t, g))
        /\ ~(InRequest(t, g) /\ InWorker(t, g))
        /\ g \in lost[t] => "terminate" \in Faults

\* The future of t is untouched, and a child in the entry or in a request
\* belongs to a generation that has begun.
Past(t) ==
    /\ child[t] <= generation[t]
    /\ opChild[t] # 0 => opChild[t] < generation[t]
    /\ \A g \in Generations : g > generation[t] => wpc[t][g] = "none" /\ proc[t][g] = "none"

\* What the request in progress knows of t.
RequestInv(t) ==
    /\ stage[t] \in {"begin", "bump", "set", "spawn"} => op \in {"start", "restart"}
    /\ stage[t] \notin {"idle", "begin"} => t \in entry
    /\ opChild[t] # 0 => stage[t] \in {"set", "stopping"}
    /\ stage[t] \in {"set", "spawn", "stopping", "clear"} =>
          /\ child[t] = 0
          /\ generation[t] > 0
          /\ wpc[t][generation[t]] = "none"
    /\ stage[t] \in {"stopping", "clear"} => ~desired[t]
    /\ stage[t] = "spawn" => desired[t] /\ state[t] = "Starting"
    /\ stage[t] \in {"bump", "set", "spawn"} => ~retired[t]

\* What the entry of t says while the worker of its generation runs.  A retired
\* entry has none, and outlives its request only if a termination failed.
EntryInv(t) ==
    /\ desired[t] => t \in entry /\ ~retired[t]
    /\ retired[t] => \/ "terminate" \in Faults
                     \/ stage[t] \in {"stopping", "clear"} /\ op \in {"remove", "stop_for_host"}
    /\ state[t] = "Stopped" => child[t] = 0
    /\ \A g \in Generations : generation[t] = g =>
        /\ wpc[t][g] \in Working => desired[t] /\ state[t] \in LiveStates
        /\ retired[t] => wpc[t][g] = "none"
        /\ wpc[t][g] \in {"begin", "resolve", "spawn", "wait", "terminating", "dropping"}
              => child[t] = 0
        /\ wpc[t][g] \in {"poll", "unhealthy"} => child[t] = g
        /\ wpc[t][g] \in {"clean", "failed", "guard"} => child[t] \in {0, g}
        /\ wpc[t][g] = "closing" => t \in entry /\ state[t] = "Failed"

\* The bounds on requests leave room for the generations they begin, and a
\* worker has strikes left while it polls.
BoundsInv(t) ==
    /\ stage[t] \in {"stop", "begin", "bump"} => generation[t] < MaxGeneration
    /\ op = "restart" /\ stage[t] = "stop" => generation[t] + 1 < MaxGeneration
    /\ op = "restart" /\ stage[t] = "stopping" => generation[t] < MaxGeneration
    /\ \A g \in Generations :
          generation[t] = g /\ wpc[t][g] \in {"resolve", "spawn", "poll"}
              => strikes[t] < MaxHealthFailures

LocalInv(t) == OwnedAt(t) /\ Past(t) /\ RequestInv(t) /\ EntryInv(t) /\ BoundsInv(t)

\* One request at a time; a start or restart works on one tunnel.
MutexInv ==
    /\ op = "none" => \A t \in Tunnels : stage[t] = "idle"
    /\ op \in {"start", "restart"} =>
          \A t, u \in Tunnels : stage[t] # "idle" /\ stage[u] # "idle" => t = u

\* The inductive invariant.
Inv == TypeOK /\ MutexInv /\ \A t \in Tunnels : LocalInv(t)

\* A step changes nothing of tunnel u.
SameAt(u) ==
    /\ u \in entry' <=> u \in entry
    /\ state'[u] = state[u]
    /\ desired'[u] = desired[u]
    /\ retired'[u] = retired[u]
    /\ generation'[u] = generation[u]
    /\ child'[u] = child[u]
    /\ stage'[u] = stage[u]
    /\ opChild'[u] = opChild[u]
    /\ wpc'[u] = wpc[u]
    /\ proc'[u] = proc[u]
    /\ lost'[u] = lost[u]
    /\ strikes'[u] = strikes[u]

\* A worker that moves keeps the type of wpc.
LEMMA GotoType ==
    ASSUME TypeOK, NEW t \in Tunnels, NEW g \in Generations,
           \E pc \in WorkerStates : Goto(t, g, pc)
    PROVE  wpc' \in [Tunnels -> [Generations -> WorkerStates]]
BY DEF TypeOK, Goto

\* Reaping or dropping a child keeps the types of proc and lost.
LEMMA ReapType ==
    ASSUME TypeOK, NEW t \in Tunnels, NEW g \in 0 .. MaxGeneration
    PROVE  /\ Reap(t, g) => proc' \in [Tunnels -> [Generations -> Procs]]
           /\ DropChild(t, g) => /\ proc' \in [Tunnels -> [Generations -> Procs]]
                                 /\ lost' \in [Tunnels -> SUBSET Generations]
<1>1. [k \in Generations |-> IF k = g THEN "none" ELSE proc[t][k]] \in [Generations -> Procs]
    BY DEF TypeOK, Procs
<1>2. Reap(t, g) => proc' \in [Tunnels -> [Generations -> Procs]]
    BY <1>1 DEF TypeOK, Reap
<1>3. DropChild(t, g) => lost' \in [Tunnels -> SUBSET Generations]
    <2>1. g # 0 => lost[t] \cup {g} \in SUBSET Generations
        BY TunnelAssumption DEF TypeOK, Generations
    <2> QED
        BY <2>1 DEF TypeOK, DropChild
<1> QED
    BY <1>2, <1>3 DEF DropChild

\* A step that leaves every variable LocalInv(t) reads of another tunnel u
\* unchanged keeps LocalInv(u): the actions below only argue about t.
LEMMA Frame ==
    ASSUME NEW u \in Tunnels, LocalInv(u), SameAt(u), stage[u] = "idle" \/ op' = op
    PROVE  LocalInv(u)'
BY DEF SameAt, LocalInv, OwnedAt, InEntry, InRequest, InWorker, Past, RequestInv,
       EntryInv, BoundsInv

\* start: an unresolvable host leaves the entry alone and releases the mutex.
LEMMA StartUnresolvedStep ==
    ASSUME Inv, NEW t \in Tunnels, StartUnresolved(t)
    PROVE  Inv'
<1>0. TypeOK /\ MutexInv /\ LocalInv(t)
    BY DEF Inv
<1> USE TunnelAssumption DEF StartUnresolved, entryVars, Leave
<1>1. TypeOK'
    BY <1>0 DEF TypeOK, States, LiveStates, Ops, Stages, WorkerStates, Procs, Generations
<1>2. ASSUME NEW u \in Tunnels, u # t PROVE LocalInv(u)'
    <2>1. SameAt(u)
        BY <1>0, <1>2 DEF SameAt, TypeOK, Generations
    <2>2. stage[u] = "idle" \/ op' = op
        BY <1>2
    <2> QED
        BY <1>2, <2>1, <2>2, Frame DEF Inv
<1>3. MutexInv'
    BY <1>0 DEF MutexInv, TypeOK
<1>4. OwnedAt(t)'
    BY <1>0 DEF TypeOK, LocalInv, OwnedAt, InEntry, InRequest, InWorker, Past,
                RequestInv, EntryInv, LifecycleHeld, Working, Generations
<1>5. Past(t)'
    BY <1>0 DEF TypeOK, LocalInv, Past, RequestInv, EntryInv, Working, Generations
<1>6. RequestInv(t)'
    BY <1>0 DEF TypeOK, LocalInv, Past, RequestInv, LifecycleHeld, Generations, MutexInv
<1>7. EntryInv(t)'
    BY <1>0 DEF TypeOK, LocalInv, Past, RequestInv, EntryInv, Working, LiveStates, Generations
<1>8. BoundsInv(t)'
    BY <1>0 DEF TypeOK, LocalInv, Past, RequestInv, BoundsInv, Generations
<1> QED
    BY <1>1, <1>2, <1>3, <1>4, <1>5, <1>6, <1>7, <1>8 DEF Inv, LocalInv

\* start_inner: the early return for a live tunnel changes no entry.
LEMMA StartAlreadyRunningStep ==
    ASSUME Inv, NEW t \in Tunnels, StartAlreadyRunning(t)
    PROVE  Inv'
<1>0. TypeOK /\ MutexInv /\ LocalInv(t)
    BY DEF Inv
<1> USE TunnelAssumption DEF StartAlreadyRunning, entryVars, Leave, AlreadyRunning
<1>1. TypeOK'
    BY <1>0 DEF TypeOK, States, LiveStates, Ops, Stages, WorkerStates, Procs, Generations
<1>2. ASSUME NEW u \in Tunnels, u # t PROVE LocalInv(u)'
    <2>1. SameAt(u)
        BY <1>0, <1>2 DEF SameAt, TypeOK, Generations
    <2>2. stage[u] = "idle" \/ op' = op
        BY <1>2
    <2> QED
        BY <1>2, <2>1, <2>2, Frame DEF Inv
<1>3. MutexInv'
    BY <1>0 DEF MutexInv, TypeOK
<1>4. OwnedAt(t)'
    BY <1>0 DEF TypeOK, LocalInv, OwnedAt, InEntry, InRequest, InWorker, Past,
                RequestInv, EntryInv, LifecycleHeld, Working, Generations
<1>5. Past(t)'
    BY <1>0 DEF TypeOK, LocalInv, Past, RequestInv, EntryInv, Working, Generations
<1>6. RequestInv(t)'
    BY <1>0 DEF TypeOK, LocalInv, Past, RequestInv, LifecycleHeld, Generations, MutexInv
<1>7. EntryInv(t)'
    BY <1>0 DEF TypeOK, LocalInv, Past, RequestInv, EntryInv, Working, LiveStates, Generations
<1>8. BoundsInv(t)'
    BY <1>0 DEF TypeOK, LocalInv, Past, RequestInv, BoundsInv, Generations
<1> QED
    BY <1>1, <1>2, <1>3, <1>4, <1>5, <1>6, <1>7, <1>8 DEF Inv, LocalInv

\* start_inner: the new generation has no worker, and the request now owns the
\* stale child.
LEMMA StartBumpStep ==
    ASSUME Inv, NEW t \in Tunnels, StartBump(t)
    PROVE  Inv'
<1>0. TypeOK /\ MutexInv /\ LocalInv(t)
    BY DEF Inv
<1> USE TunnelAssumption DEF StartBump, entryVars
<1>9. generation[t] + 1 \in Generations
    BY <1>0 DEF LocalInv, BoundsInv, TypeOK, Generations
<1>10. /\ wpc'[t][generation[t] + 1] = "none"
       /\ generation'[t] = generation[t] + 1
    BY <1>0, <1>9 DEF LocalInv, Past, TypeOK, Generations
<1>1. TypeOK'
    BY <1>0, <1>9 DEF TypeOK, Stages, Generations
<1>2. ASSUME NEW u \in Tunnels, u # t PROVE LocalInv(u)'
    <2>1. SameAt(u)
        BY <1>0, <1>2 DEF SameAt, TypeOK, Generations
    <2>2. stage[u] = "idle" \/ op' = op
        BY <1>2
    <2> QED
        BY <1>2, <2>1, <2>2, Frame DEF Inv
<1>3. MutexInv'
    BY <1>0 DEF MutexInv, TypeOK
<1>4. OwnedAt(t)'
    BY <1>0 DEF TypeOK, LocalInv, OwnedAt, InEntry, InRequest, InWorker, Past,
                RequestInv, EntryInv, LifecycleHeld, Working, Generations
<1>5. Past(t)'
    BY <1>0, <1>9, <1>10 DEF TypeOK, LocalInv, Past, RequestInv, EntryInv, Working, Generations
<1>6. RequestInv(t)'
    BY <1>0, <1>9, <1>10 DEF TypeOK, LocalInv, Past, RequestInv, LifecycleHeld, Generations, MutexInv
<1>7. EntryInv(t)'
    BY <1>0, <1>9, <1>10 DEF TypeOK, LocalInv, Past, RequestInv, EntryInv, Working, LiveStates, Generations
<1>8. BoundsInv(t)'
    BY <1>0, <1>9, <1>10 DEF TypeOK, LocalInv, Past, RequestInv, BoundsInv, Generations
<1> QED
    BY <1>1, <1>2, <1>3, <1>4, <1>5, <1>6, <1>7, <1>8 DEF Inv, LocalInv

\* start_inner: a stale child that cannot be terminated is dropped.
LEMMA StartTerminateFailsStep ==
    ASSUME Inv, NEW t \in Tunnels, StartTerminateFails(t)
    PROVE  Inv'
<1>0. TypeOK /\ MutexInv /\ LocalInv(t)
    BY DEF Inv
<1>r. proc' \in [Tunnels -> [Generations -> Procs]] /\ lost' \in [Tunnels -> SUBSET Generations]
    BY <1>0, ReapType DEF StartTerminateFails, TypeOK
<1> USE TunnelAssumption DEF StartTerminateFails, entryVars, Leave, DropChild, Reap
<1>1. TypeOK'
    <2>1. op' \in Ops /\ stage' \in [Tunnels -> Stages]
        BY <1>0 DEF TypeOK, Ops, Stages
    <2>2. opChild' \in [Tunnels -> 0 .. MaxGeneration]
        BY <1>0 DEF TypeOK
    <2> QED
        BY <1>0, <1>r, <2>1, <2>2 DEF TypeOK
<1>2. ASSUME NEW u \in Tunnels, u # t PROVE LocalInv(u)'
    <2>1. SameAt(u)
        BY <1>0, <1>2 DEF SameAt, TypeOK, Generations
    <2>2. stage[u] = "idle" \/ op' = op
        BY <1>2
    <2> QED
        BY <1>2, <2>1, <2>2, Frame DEF Inv
<1>3. MutexInv'
    BY <1>0 DEF MutexInv, TypeOK
<1>4. OwnedAt(t)'
    BY <1>0 DEF TypeOK, LocalInv, OwnedAt, InEntry, InRequest, InWorker, Past,
                RequestInv, EntryInv, LifecycleHeld, Working, Generations
<1>5. Past(t)'
    BY <1>0 DEF TypeOK, LocalInv, Past, RequestInv, EntryInv, Working, Generations
<1>6. RequestInv(t)'
    BY <1>0 DEF TypeOK, LocalInv, Past, RequestInv, LifecycleHeld, Generations, MutexInv
<1>7. EntryInv(t)'
    BY <1>0 DEF TypeOK, LocalInv, Past, RequestInv, EntryInv, Working, LiveStates, Generations
<1>8. BoundsInv(t)'
    BY <1>0 DEF TypeOK, LocalInv, Past, RequestInv, BoundsInv, Generations
<1> QED
    BY <1>1, <1>2, <1>3, <1>4, <1>5, <1>6, <1>7, <1>8 DEF Inv, LocalInv

\* start_inner: the stale child is reaped before the tunnel is published as live.
LEMMA StartSetStep ==
    ASSUME Inv, NEW t \in Tunnels, StartSet(t)
    PROVE  Inv'
<1>0. TypeOK /\ MutexInv /\ LocalInv(t)
    BY DEF Inv
<1> USE TunnelAssumption DEF StartSet, entryVars, Reap
<1>1. TypeOK'
    <2>1. [h \in HostIds |-> hosts[h].saved] \in [HostIds -> Settings]
        BY <1>0 DEF TypeOK, HostRecords
    <2>2. hostProfile' \in [Tunnels -> [HostIds -> Settings]]
        BY <1>0, <2>1 DEF TypeOK
    <2> QED
        BY <1>0, <2>2 DEF TypeOK, States, LiveStates, Ops, Stages, WorkerStates, Procs, Generations
<1>2. ASSUME NEW u \in Tunnels, u # t PROVE LocalInv(u)'
    <2>1. SameAt(u)
        BY <1>0, <1>2 DEF SameAt, TypeOK, Generations
    <2>2. stage[u] = "idle" \/ op' = op
        BY <1>2
    <2> QED
        BY <1>2, <2>1, <2>2, Frame DEF Inv
<1>3. MutexInv'
    BY <1>0 DEF MutexInv, TypeOK
<1>4. OwnedAt(t)'
    BY <1>0 DEF TypeOK, LocalInv, OwnedAt, InEntry, InRequest, InWorker, Past,
                RequestInv, EntryInv, LifecycleHeld, Working, Generations
<1>5. Past(t)'
    BY <1>0 DEF TypeOK, LocalInv, Past, RequestInv, EntryInv, Working, Generations
<1>6. RequestInv(t)'
    BY <1>0 DEF TypeOK, LocalInv, Past, RequestInv, LifecycleHeld, Generations, MutexInv
<1>7. EntryInv(t)'
    BY <1>0 DEF TypeOK, LocalInv, Past, RequestInv, EntryInv, Working, LiveStates, Generations
<1>8. BoundsInv(t)'
    BY <1>0 DEF TypeOK, LocalInv, Past, RequestInv, BoundsInv, Generations
<1> QED
    BY <1>1, <1>2, <1>3, <1>4, <1>5, <1>6, <1>7, <1>8 DEF Inv, LocalInv

\* spawn_worker: the worker of the current generation starts with no child.
LEMMA StartSpawnWorkerStep ==
    ASSUME Inv, NEW t \in Tunnels, StartSpawnWorker(t)
    PROVE  Inv'
<1>0. TypeOK /\ MutexInv /\ LocalInv(t)
    BY DEF Inv
<1> USE TunnelAssumption DEF StartSpawnWorker, entryVars, Leave
<1>1. TypeOK'
    BY <1>0 DEF TypeOK, States, LiveStates, Ops, Stages, WorkerStates, Procs, Generations
<1>2. ASSUME NEW u \in Tunnels, u # t PROVE LocalInv(u)'
    <2>1. SameAt(u)
        BY <1>0, <1>2 DEF SameAt, TypeOK, Generations
    <2>2. stage[u] = "idle" \/ op' = op
        BY <1>2
    <2> QED
        BY <1>2, <2>1, <2>2, Frame DEF Inv
<1>3. MutexInv'
    BY <1>0 DEF MutexInv, TypeOK
<1>4. OwnedAt(t)'
    BY <1>0 DEF TypeOK, LocalInv, OwnedAt, InEntry, InRequest, InWorker, Past,
                RequestInv, EntryInv, LifecycleHeld, Working, Generations
<1>5. Past(t)'
    BY <1>0 DEF TypeOK, LocalInv, Past, RequestInv, EntryInv, Working, Generations
<1>6. RequestInv(t)'
    BY <1>0 DEF TypeOK, LocalInv, Past, RequestInv, LifecycleHeld, Generations, MutexInv
<1>7. EntryInv(t)'
    BY <1>0 DEF TypeOK, LocalInv, Past, RequestInv, EntryInv, Working, LiveStates, Generations
<1>8. BoundsInv(t)'
    BY <1>0 DEF TypeOK, LocalInv, Past, RequestInv, BoundsInv, Generations
<1> QED
    BY <1>1, <1>2, <1>3, <1>4, <1>5, <1>6, <1>7, <1>8 DEF Inv, LocalInv

\* spawn_worker fails: the tunnel is marked Failed and owns nothing.
LEMMA StartSpawnFailsStep ==
    ASSUME Inv, NEW t \in Tunnels, StartSpawnFails(t)
    PROVE  Inv'
<1>0. TypeOK /\ MutexInv /\ LocalInv(t)
    BY DEF Inv
<1> USE TunnelAssumption DEF StartSpawnFails, entryVars, Leave
<1>1. TypeOK'
    BY <1>0 DEF TypeOK, States, LiveStates, Ops, Stages, WorkerStates, Procs, Generations
<1>2. ASSUME NEW u \in Tunnels, u # t PROVE LocalInv(u)'
    <2>1. SameAt(u)
        BY <1>0, <1>2 DEF SameAt, TypeOK, Generations
    <2>2. stage[u] = "idle" \/ op' = op
        BY <1>2
    <2> QED
        BY <1>2, <2>1, <2>2, Frame DEF Inv
<1>3. MutexInv'
    BY <1>0 DEF MutexInv, TypeOK
<1>4. OwnedAt(t)'
    BY <1>0 DEF TypeOK, LocalInv, OwnedAt, InEntry, InRequest, InWorker, Past,
                RequestInv, EntryInv, LifecycleHeld, Working, Generations
<1>5. Past(t)'
    BY <1>0 DEF TypeOK, LocalInv, Past, RequestInv, EntryInv, Working, Generations
<1>6. RequestInv(t)'
    BY <1>0 DEF TypeOK, LocalInv, Past, RequestInv, LifecycleHeld, Generations, MutexInv
<1>7. EntryInv(t)'
    BY <1>0 DEF TypeOK, LocalInv, Past, RequestInv, EntryInv, Working, LiveStates, Generations
<1>8. BoundsInv(t)'
    BY <1>0 DEF TypeOK, LocalInv, Past, RequestInv, BoundsInv, Generations
<1> QED
    BY <1>1, <1>2, <1>3, <1>4, <1>5, <1>6, <1>7, <1>8 DEF Inv, LocalInv

\* stop_inner takes the child: it becomes the request's, and every worker stale.
LEMMA StopTakeStep ==
    ASSUME Inv, NEW t \in Tunnels, StopTake(t)
    PROVE  Inv'
<1>0. TypeOK /\ MutexInv /\ LocalInv(t)
    BY DEF Inv
<1> USE TunnelAssumption DEF StopTake, entryVars
<1>9. generation[t] + 1 \in Generations
    BY <1>0 DEF LocalInv, BoundsInv, TypeOK, Generations
<1>10. /\ wpc'[t][generation[t] + 1] = "none"
       /\ generation'[t] = generation[t] + 1
    BY <1>0, <1>9 DEF LocalInv, Past, TypeOK, Generations
<1>1. TypeOK'
    BY <1>0, <1>9 DEF TypeOK, Stages, Generations
<1>2. ASSUME NEW u \in Tunnels, u # t PROVE LocalInv(u)'
    <2>1. SameAt(u)
        BY <1>0, <1>2 DEF SameAt, TypeOK, Generations
    <2>2. stage[u] = "idle" \/ op' = op
        BY <1>2
    <2> QED
        BY <1>2, <2>1, <2>2, Frame DEF Inv
<1>3. MutexInv'
    BY <1>0 DEF MutexInv, TypeOK
<1>4. OwnedAt(t)'
    BY <1>0 DEF TypeOK, LocalInv, OwnedAt, InEntry, InRequest, InWorker, Past,
                RequestInv, EntryInv, LifecycleHeld, Working, Generations
<1>5. Past(t)'
    BY <1>0, <1>9, <1>10 DEF TypeOK, LocalInv, Past, RequestInv, EntryInv, Working, Generations
<1>6. RequestInv(t)'
    BY <1>0, <1>9, <1>10 DEF TypeOK, LocalInv, Past, RequestInv, LifecycleHeld, Generations, MutexInv
<1>7. EntryInv(t)'
    BY <1>0, <1>9, <1>10 DEF TypeOK, LocalInv, Past, RequestInv, EntryInv, Working, LiveStates, Generations
<1>8. BoundsInv(t)'
    BY <1>0, <1>9, <1>10 DEF TypeOK, LocalInv, Past, RequestInv, BoundsInv, Generations
<1> QED
    BY <1>1, <1>2, <1>3, <1>4, <1>5, <1>6, <1>7, <1>8 DEF Inv, LocalInv

\* stop_inner: Stopped is published only once the taken child is reaped.
LEMMA StopDoneStep ==
    ASSUME Inv, NEW t \in Tunnels, StopDone(t)
    PROVE  Inv'
<1>0. TypeOK /\ MutexInv /\ LocalInv(t)
    BY DEF Inv
<1>r. proc' \in [Tunnels -> [Generations -> Procs]]
    BY <1>0, ReapType DEF StopDone, TypeOK
<1> USE TunnelAssumption DEF StopDone, entryVars, Reap, Leave
<1>1. TypeOK'
    <2>2. op' \in Ops /\ stage' \in [Tunnels -> Stages]
        BY <1>0 DEF TypeOK, Ops, Stages
    <2>3. opChild' \in [Tunnels -> 0 .. MaxGeneration] /\ state' \in [Tunnels -> States]
        BY <1>0 DEF TypeOK, States
    <2> QED
        BY <1>0, <1>r, <2>2, <2>3 DEF TypeOK
<1>2. ASSUME NEW u \in Tunnels, u # t PROVE LocalInv(u)'
    <2>1. SameAt(u)
        BY <1>0, <1>2 DEF SameAt, TypeOK, Generations
    <2>2. stage[u] = "idle" \/ op' = op
        BY <1>2
    <2> QED
        BY <1>2, <2>1, <2>2, Frame DEF Inv
<1>3. MutexInv'
    <2>1. CASE op \in {"remove", "stop_for_host"}
        BY <1>0, <2>1 DEF MutexInv, TypeOK
    <2>2. CASE op = "restart"
        BY <1>0, <2>2 DEF MutexInv, TypeOK
    <2>3. CASE op \notin {"remove", "stop_for_host", "restart"}
        <3>1. /\ stage' = [stage EXCEPT ![t] = "idle"]
              /\ op' = IF \A u \in Tunnels \ {t} : stage[u] = "idle" THEN "none" ELSE op
            BY <2>3
        <3> QED
            BY <1>0, <3>1 DEF MutexInv, TypeOK
    <2> QED
        BY <2>1, <2>2, <2>3
<1>4. OwnedAt(t)'
    BY <1>0 DEF TypeOK, LocalInv, OwnedAt, InEntry, InRequest, InWorker, Past,
                RequestInv, EntryInv, LifecycleHeld, Working, Generations
<1>5. Past(t)'
    BY <1>0 DEF TypeOK, LocalInv, Past, RequestInv, EntryInv, Working, Generations
<1>6. RequestInv(t)'
    BY <1>0 DEF TypeOK, LocalInv, Past, RequestInv, LifecycleHeld, Generations, MutexInv
<1>7. EntryInv(t)'
    BY <1>0 DEF TypeOK, LocalInv, Past, RequestInv, EntryInv, Working, LiveStates, Generations
<1>8. BoundsInv(t)'
    BY <1>0 DEF TypeOK, LocalInv, Past, RequestInv, BoundsInv, Generations
<1> QED
    BY <1>1, <1>2, <1>3, <1>4, <1>5, <1>6, <1>7, <1>8 DEF Inv, LocalInv

\* stop_inner: a child that survives goes back to the entry, marked Failed.
LEMMA StopFailsStep ==
    ASSUME Inv, NEW t \in Tunnels, StopFails(t)
    PROVE  Inv'
<1>0. TypeOK /\ MutexInv /\ LocalInv(t)
    BY DEF Inv
<1> USE TunnelAssumption DEF StopFails, entryVars, Leave
<1>1. TypeOK'
    <2>1. op' \in Ops /\ stage' \in [Tunnels -> Stages]
        BY <1>0 DEF TypeOK, Ops, Stages
    <2>2. /\ child' \in [Tunnels -> 0 .. MaxGeneration]
          /\ opChild' \in [Tunnels -> 0 .. MaxGeneration]
          /\ state' \in [Tunnels -> States]
        BY <1>0 DEF TypeOK, States
    <2> QED
        BY <1>0, <2>1, <2>2 DEF TypeOK
<1>2. ASSUME NEW u \in Tunnels, u # t PROVE LocalInv(u)'
    <2>1. SameAt(u)
        BY <1>0, <1>2 DEF SameAt, TypeOK, Generations
    <2>2. stage[u] = "idle" \/ op' = op
        BY <1>2
    <2> QED
        BY <1>2, <2>1, <2>2, Frame DEF Inv
<1>3. MutexInv'
    BY <1>0 DEF MutexInv, TypeOK
<1>4. OwnedAt(t)'
    BY <1>0 DEF TypeOK, LocalInv, OwnedAt, InEntry, InRequest, InWorker, Past,
                RequestInv, EntryInv, LifecycleHeld, Working, Generations
<1>5. Past(t)'
    BY <1>0 DEF TypeOK, LocalInv, Past, RequestInv, EntryInv, Working, Generations
<1>6. RequestInv(t)'
    BY <1>0 DEF TypeOK, LocalInv, Past, RequestInv, LifecycleHeld, Generations, MutexInv
<1>7. EntryInv(t)'
    BY <1>0 DEF TypeOK, LocalInv, Past, RequestInv, EntryInv, Working, LiveStates, Generations
<1>8. BoundsInv(t)'
    BY <1>0 DEF TypeOK, LocalInv, Past, RequestInv, BoundsInv, Generations
<1> QED
    BY <1>1, <1>2, <1>3, <1>4, <1>5, <1>6, <1>7, <1>8 DEF Inv, LocalInv

\* remove, stop_for_host: the entry that leaves the map owns no child.
LEMMA StopClearStep ==
    ASSUME Inv, NEW t \in Tunnels, StopClear(t)
    PROVE  Inv'
<1>0. TypeOK /\ MutexInv /\ LocalInv(t)
    BY DEF Inv
<1> USE TunnelAssumption DEF StopClear, entryVars, Leave
<1>1. TypeOK'
    BY <1>0 DEF TypeOK, States, LiveStates, Ops, Stages, WorkerStates, Procs, Generations
<1>2. ASSUME NEW u \in Tunnels, u # t PROVE LocalInv(u)'
    <2>1. SameAt(u)
        BY <1>0, <1>2 DEF SameAt, TypeOK, Generations
    <2>2. stage[u] = "idle" \/ op' = op
        BY <1>2
    <2> QED
        BY <1>2, <2>1, <2>2, Frame DEF Inv
<1>3. MutexInv'
    BY <1>0 DEF MutexInv, TypeOK
<1>4. OwnedAt(t)'
    BY <1>0 DEF TypeOK, LocalInv, OwnedAt, InEntry, InRequest, InWorker, Past,
                RequestInv, EntryInv, LifecycleHeld, Working, Generations
<1>5. Past(t)'
    BY <1>0 DEF TypeOK, LocalInv, Past, RequestInv, EntryInv, Working, Generations
<1>6. RequestInv(t)'
    BY <1>0 DEF TypeOK, LocalInv, Past, RequestInv, LifecycleHeld, Generations, MutexInv
<1>7. EntryInv(t)'
    BY <1>0 DEF TypeOK, LocalInv, Past, RequestInv, EntryInv, Working, LiveStates, Generations
<1>8. BoundsInv(t)'
    BY <1>0 DEF TypeOK, LocalInv, Past, RequestInv, BoundsInv, Generations
<1> QED
    BY <1>1, <1>2, <1>3, <1>4, <1>5, <1>6, <1>7, <1>8 DEF Inv, LocalInv

\* A worker that finds itself outdated leaves without touching the entry.
LEMMA WorkerLeavesStep ==
    ASSUME Inv, NEW t \in Tunnels, NEW g \in Generations, WorkerLeaves(t, g)
    PROVE  Inv'
<1>0. TypeOK /\ MutexInv /\ LocalInv(t)
    BY DEF Inv
<1> USE TunnelAssumption DEF WorkerLeaves, entryVars, opVars, Goto, IsCurrent
<1>1. TypeOK'
    BY <1>0 DEF TypeOK, States, LiveStates, Ops, Stages, WorkerStates, Procs, Generations
<1>2. ASSUME NEW u \in Tunnels, u # t PROVE LocalInv(u)'
    <2>1. SameAt(u)
        BY <1>0, <1>2 DEF SameAt, TypeOK, Generations
    <2>2. stage[u] = "idle" \/ op' = op
        BY <1>2
    <2> QED
        BY <1>2, <2>1, <2>2, Frame DEF Inv
<1>3. MutexInv'
    BY <1>0 DEF MutexInv, TypeOK
<1>4. OwnedAt(t)'
    BY <1>0 DEF TypeOK, LocalInv, OwnedAt, InEntry, InRequest, InWorker, Past,
                RequestInv, EntryInv, LifecycleHeld, Working, Generations
<1>5. Past(t)'
    BY <1>0 DEF TypeOK, LocalInv, Past, RequestInv, EntryInv, Working, Generations
<1>6. RequestInv(t)'
    BY <1>0 DEF TypeOK, LocalInv, Past, RequestInv, LifecycleHeld, Generations, MutexInv
<1>7. EntryInv(t)'
    BY <1>0 DEF TypeOK, LocalInv, Past, RequestInv, EntryInv, Working, LiveStates, Generations
<1>8. BoundsInv(t)'
    BY <1>0 DEF TypeOK, LocalInv, Past, RequestInv, BoundsInv, Generations
<1> QED
    BY <1>1, <1>2, <1>3, <1>4, <1>5, <1>6, <1>7, <1>8 DEF Inv, LocalInv

\* mark_starting changes the state of a desired tunnel only.
LEMMA MarkStartingStep ==
    ASSUME Inv, NEW t \in Tunnels, NEW g \in Generations, MarkStarting(t, g)
    PROVE  Inv'
<1>0. TypeOK /\ MutexInv /\ LocalInv(t)
    BY DEF Inv
<1> USE TunnelAssumption DEF MarkStarting, entryVars, opVars, Goto, IsCurrent
<1>1. TypeOK'
    BY <1>0 DEF TypeOK, States, LiveStates, Ops, Stages, WorkerStates, Procs, Generations
<1>2. ASSUME NEW u \in Tunnels, u # t PROVE LocalInv(u)'
    <2>1. SameAt(u)
        BY <1>0, <1>2 DEF SameAt, TypeOK, Generations
    <2>2. stage[u] = "idle" \/ op' = op
        BY <1>2
    <2> QED
        BY <1>2, <2>1, <2>2, Frame DEF Inv
<1>3. MutexInv'
    BY <1>0 DEF MutexInv, TypeOK
<1>4. OwnedAt(t)'
    BY <1>0 DEF TypeOK, LocalInv, OwnedAt, InEntry, InRequest, InWorker, Past,
                RequestInv, EntryInv, LifecycleHeld, Working, Generations
<1>5. Past(t)'
    BY <1>0 DEF TypeOK, LocalInv, Past, RequestInv, EntryInv, Working, Generations
<1>6. RequestInv(t)'
    BY <1>0 DEF TypeOK, LocalInv, Past, RequestInv, LifecycleHeld, Generations, MutexInv
<1>7. EntryInv(t)'
    BY <1>0 DEF TypeOK, LocalInv, Past, RequestInv, EntryInv, Working, LiveStates, Generations
<1>8. BoundsInv(t)'
    BY <1>0 DEF TypeOK, LocalInv, Past, RequestInv, BoundsInv, Generations
<1> QED
    BY <1>1, <1>2, <1>3, <1>4, <1>5, <1>6, <1>7, <1>8 DEF Inv, LocalInv

\* current_host_profile touches nothing but the worker.
LEMMA ResolveHostStep ==
    ASSUME Inv, NEW t \in Tunnels, NEW g \in Generations, ResolveHost(t, g)
    PROVE  Inv'
<1>0. TypeOK /\ MutexInv /\ LocalInv(t)
    BY DEF Inv
<1> USE TunnelAssumption DEF ResolveHost, entryVars, opVars, Goto, IsCurrent
<1>1. TypeOK'
    <2>1. \E pc \in WorkerStates : Goto(t, g, pc)
        BY DEF WorkerStates, Goto
    <2>2. wpc' \in [Tunnels -> [Generations -> WorkerStates]]
        BY <1>0, <2>1, GotoType
    <2> QED
        BY <1>0, <2>2 DEF TypeOK
<1>2. ASSUME NEW u \in Tunnels, u # t PROVE LocalInv(u)'
    <2>1. SameAt(u)
        BY <1>0, <1>2 DEF SameAt, TypeOK, Generations
    <2>2. stage[u] = "idle" \/ op' = op
        BY <1>2
    <2> QED
        BY <1>2, <2>1, <2>2, Frame DEF Inv
<1>3. MutexInv'
    BY <1>0 DEF MutexInv, TypeOK
<1>4. OwnedAt(t)'
    <2>1. \A k \in Generations : InWorker(t, k)' <=> InWorker(t, k)
        BY <1>0 DEF TypeOK, InWorker
    <2> QED
        BY <1>0, <2>1 DEF LocalInv, OwnedAt, InEntry, InRequest
<1>5. Past(t)'
    BY <1>0 DEF TypeOK, LocalInv, Past, RequestInv, EntryInv, Working, Generations
<1>6. RequestInv(t)'
    BY <1>0 DEF TypeOK, LocalInv, Past, RequestInv, LifecycleHeld, Generations, MutexInv
<1>7. EntryInv(t)'
    BY <1>0 DEF TypeOK, LocalInv, Past, RequestInv, EntryInv, Working, LiveStates, Generations
<1>8. BoundsInv(t)'
    BY <1>0 DEF TypeOK, LocalInv, Past, RequestInv, BoundsInv, Generations
<1> QED
    BY <1>1, <1>2, <1>3, <1>4, <1>5, <1>6, <1>7, <1>8 DEF Inv, LocalInv

\* The spawn stores the child in an entry that has none and is still current.
LEMMA SpawnChildStep ==
    ASSUME Inv, NEW t \in Tunnels, NEW g \in Generations, SpawnChild(t, g)
    PROVE  Inv'
<1>0. TypeOK /\ MutexInv /\ LocalInv(t)
    BY DEF Inv
<1> USE TunnelAssumption DEF SpawnChild, entryVars, opVars, Goto, IsCurrent
<1>1. TypeOK'
    <2>1. \E pc \in WorkerStates : Goto(t, g, pc)
        BY DEF WorkerStates, Goto
    <2>2. wpc' \in [Tunnels -> [Generations -> WorkerStates]]
        BY <1>0, <2>1, GotoType
    <2>3. \/ UNCHANGED <<child, proc>>
          \/ /\ child' = [child EXCEPT ![t] = g]
             /\ proc' = [proc EXCEPT ![t][g] = "alive"]
        OBVIOUS
    <2>4. /\ child' \in [Tunnels -> 0 .. MaxGeneration]
          /\ proc' \in [Tunnels -> [Generations -> Procs]]
        <3>1. CASE UNCHANGED <<child, proc>>
            BY <1>0, <3>1 DEF TypeOK
        <3>2. CASE /\ child' = [child EXCEPT ![t] = g]
                   /\ proc' = [proc EXCEPT ![t][g] = "alive"]
            BY <1>0, <3>2 DEF TypeOK, Generations, Procs
        <3> QED
            BY <2>3, <3>1, <3>2
    <2> QED
        BY <1>0, <2>2, <2>4 DEF TypeOK
<1>2. ASSUME NEW u \in Tunnels, u # t PROVE LocalInv(u)'
    <2>1. SameAt(u)
        BY <1>0, <1>2 DEF SameAt, TypeOK, Generations
    <2>2. stage[u] = "idle" \/ op' = op
        BY <1>2
    <2> QED
        BY <1>2, <2>1, <2>2, Frame DEF Inv
<1>3. MutexInv'
    BY <1>0 DEF MutexInv, TypeOK
<1>4. OwnedAt(t)'
    <2>1. \A k \in Generations : InWorker(t, k)' <=> InWorker(t, k)
        BY <1>0 DEF TypeOK, InWorker
    <2>2. CASE UNCHANGED <<child, proc>>
        BY <1>0, <2>1, <2>2 DEF LocalInv, OwnedAt, InEntry, InRequest
    <2>3. CASE /\ child' = [child EXCEPT ![t] = g]
               /\ proc' = [proc EXCEPT ![t][g] = "alive"]
               /\ IsCurrent(t, g)
        <3>1. /\ child[t] = 0 /\ child'[t] = g /\ opChild[t] # g /\ t \in entry /\ ~InWorker(t, g)
              /\ \A k \in Generations : k # g => proc'[t][k] = proc[t][k]
            BY <1>0, <2>3 DEF TypeOK, LocalInv, Past, EntryInv, Generations, InWorker
        <3> QED
            BY <1>0, <2>1, <3>1 DEF LocalInv, OwnedAt, InEntry, InRequest, Generations
    <2> QED
        BY <2>2, <2>3
<1>5. Past(t)'
    BY <1>0 DEF TypeOK, LocalInv, Past, RequestInv, EntryInv, Working, Generations
<1>6. RequestInv(t)'
    BY <1>0 DEF TypeOK, LocalInv, Past, RequestInv, LifecycleHeld, Generations, MutexInv
<1>7. EntryInv(t)'
    BY <1>0 DEF TypeOK, LocalInv, Past, RequestInv, EntryInv, Working, LiveStates, Generations
<1>8. BoundsInv(t)'
    BY <1>0 DEF TypeOK, LocalInv, Past, RequestInv, BoundsInv, Generations
<1> QED
    BY <1>1, <1>2, <1>3, <1>4, <1>5, <1>6, <1>7, <1>8 DEF Inv, LocalInv

\* poll_child: the exited child leaves the entry and is reaped.
LEMMA PollExitedStep ==
    ASSUME Inv, NEW t \in Tunnels, NEW g \in Generations, PollExited(t, g)
    PROVE  Inv'
<1>0. TypeOK /\ MutexInv /\ LocalInv(t)
    BY DEF Inv
<1> USE TunnelAssumption DEF PollExited, entryVars, opVars, Reap, Goto, IsCurrent
<1>1. TypeOK'
    BY <1>0 DEF TypeOK, States, LiveStates, Ops, Stages, WorkerStates, Procs, Generations
<1>2. ASSUME NEW u \in Tunnels, u # t PROVE LocalInv(u)'
    <2>1. SameAt(u)
        BY <1>0, <1>2 DEF SameAt, TypeOK, Generations
    <2>2. stage[u] = "idle" \/ op' = op
        BY <1>2
    <2> QED
        BY <1>2, <2>1, <2>2, Frame DEF Inv
<1>3. MutexInv'
    BY <1>0 DEF MutexInv, TypeOK
<1>4. OwnedAt(t)'
    BY <1>0 DEF TypeOK, LocalInv, OwnedAt, InEntry, InRequest, InWorker, Past,
                RequestInv, EntryInv, LifecycleHeld, Working, Generations
<1>5. Past(t)'
    BY <1>0 DEF TypeOK, LocalInv, Past, RequestInv, EntryInv, Working, Generations
<1>6. RequestInv(t)'
    BY <1>0 DEF TypeOK, LocalInv, Past, RequestInv, LifecycleHeld, Generations, MutexInv
<1>7. EntryInv(t)'
    BY <1>0 DEF TypeOK, LocalInv, Past, RequestInv, EntryInv, Working, LiveStates, Generations
<1>8. BoundsInv(t)'
    BY <1>0 DEF TypeOK, LocalInv, Past, RequestInv, BoundsInv, Generations
<1> QED
    BY <1>1, <1>2, <1>3, <1>4, <1>5, <1>6, <1>7, <1>8 DEF Inv, LocalInv

\* poll_child: a child that cannot be polled leaves the entry for its worker.
LEMMA PollFailsStep ==
    ASSUME Inv, NEW t \in Tunnels, NEW g \in Generations, PollFails(t, g)
    PROVE  Inv'
<1>0. TypeOK /\ MutexInv /\ LocalInv(t)
    BY DEF Inv
<1> USE TunnelAssumption DEF PollFails, entryVars, opVars, Goto, IsCurrent
<1>1. TypeOK'
    <2>1. wpc' \in [Tunnels -> [Generations -> WorkerStates]]
        BY <1>0, GotoType DEF WorkerStates
    <2> QED
        BY <1>0, <2>1 DEF TypeOK
<1>2. ASSUME NEW u \in Tunnels, u # t PROVE LocalInv(u)'
    <2>1. SameAt(u)
        BY <1>0, <1>2 DEF SameAt, TypeOK, Generations
    <2>2. stage[u] = "idle" \/ op' = op
        BY <1>2
    <2> QED
        BY <1>2, <2>1, <2>2, Frame DEF Inv
<1>3. MutexInv'
    BY <1>0 DEF MutexInv, TypeOK
<1>4. OwnedAt(t)'
    BY <1>0 DEF TypeOK, LocalInv, OwnedAt, InEntry, InRequest, InWorker, Past,
                RequestInv, EntryInv, LifecycleHeld, Working, Generations
<1>5. Past(t)'
    BY <1>0 DEF TypeOK, LocalInv, Past, RequestInv, EntryInv, Working, Generations
<1>6. RequestInv(t)'
    BY <1>0 DEF TypeOK, LocalInv, Past, RequestInv, LifecycleHeld, Generations, MutexInv
<1>7. EntryInv(t)'
    BY <1>0 DEF TypeOK, LocalInv, Past, RequestInv, EntryInv, Working, LiveStates, Generations
<1>8. BoundsInv(t)'
    BY <1>0 DEF TypeOK, LocalInv, Past, RequestInv, BoundsInv, Generations
<1> QED
    BY <1>1, <1>2, <1>3, <1>4, <1>5, <1>6, <1>7, <1>8 DEF Inv, LocalInv

\* mark_running changes one live state into another.
LEMMA MarkRunningStep ==
    ASSUME Inv, NEW t \in Tunnels, NEW g \in Generations, MarkRunning(t, g)
    PROVE  Inv'
<1>0. TypeOK /\ MutexInv /\ LocalInv(t)
    BY DEF Inv
<1> USE TunnelAssumption DEF MarkRunning, entryVars, opVars, Goto, IsCurrent
<1>1. TypeOK'
    BY <1>0 DEF TypeOK, States, LiveStates, Ops, Stages, WorkerStates, Procs, Generations
<1>2. ASSUME NEW u \in Tunnels, u # t PROVE LocalInv(u)'
    <2>1. SameAt(u)
        BY <1>0, <1>2 DEF SameAt, TypeOK, Generations
    <2>2. stage[u] = "idle" \/ op' = op
        BY <1>2
    <2> QED
        BY <1>2, <2>1, <2>2, Frame DEF Inv
<1>3. MutexInv'
    BY <1>0 DEF MutexInv, TypeOK
<1>4. OwnedAt(t)'
    BY <1>0 DEF TypeOK, LocalInv, OwnedAt, InEntry, InRequest, InWorker, Past,
                RequestInv, EntryInv, LifecycleHeld, Working, Generations
<1>5. Past(t)'
    BY <1>0 DEF TypeOK, LocalInv, Past, RequestInv, EntryInv, Working, Generations
<1>6. RequestInv(t)'
    BY <1>0 DEF TypeOK, LocalInv, Past, RequestInv, LifecycleHeld, Generations, MutexInv
<1>7. EntryInv(t)'
    BY <1>0 DEF TypeOK, LocalInv, Past, RequestInv, EntryInv, Working, LiveStates, Generations
<1>8. BoundsInv(t)'
    BY <1>0 DEF TypeOK, LocalInv, Past, RequestInv, BoundsInv, Generations
<1> QED
    BY <1>1, <1>2, <1>3, <1>4, <1>5, <1>6, <1>7, <1>8 DEF Inv, LocalInv

\* A health check counts strikes and never passes the limit.
LEMMA HealthCheckStep ==
    ASSUME Inv, NEW t \in Tunnels, NEW g \in Generations, HealthCheck(t, g)
    PROVE  Inv'
<1>0. TypeOK /\ MutexInv /\ LocalInv(t)
    BY DEF Inv
<1> USE TunnelAssumption DEF HealthCheck, entryVars, opVars, Goto, IsCurrent
<1>1. TypeOK'
    <2>1. wpc' = wpc \/ Goto(t, g, "unhealthy")
        BY DEF Goto
    <2>2. wpc' \in [Tunnels -> [Generations -> WorkerStates]]
        BY <1>0, <2>1, GotoType DEF WorkerStates, TypeOK
    <2>3. strikes[t] < MaxHealthFailures
        BY <1>0 DEF LocalInv, EntryInv, BoundsInv, TypeOK
    <2>4. \E n \in 0 .. MaxHealthFailures : strikes' = [strikes EXCEPT ![t] = n]
        BY <1>0, <2>3 DEF TypeOK
    <2>5. strikes' \in [Tunnels -> 0 .. MaxHealthFailures]
        BY <1>0, <2>4 DEF TypeOK
    <2> QED
        BY <1>0, <2>2, <2>5 DEF TypeOK
<1>2. ASSUME NEW u \in Tunnels, u # t PROVE LocalInv(u)'
    <2>1. SameAt(u)
        BY <1>0, <1>2 DEF SameAt, TypeOK, Generations
    <2>2. stage[u] = "idle" \/ op' = op
        BY <1>2
    <2> QED
        BY <1>2, <2>1, <2>2, Frame DEF Inv
<1>3. MutexInv'
    BY <1>0 DEF MutexInv, TypeOK
<1>4. OwnedAt(t)'
    BY <1>0 DEF TypeOK, LocalInv, OwnedAt, InEntry, InRequest, InWorker, Past,
                RequestInv, EntryInv, LifecycleHeld, Working, Generations
<1>5. Past(t)'
    BY <1>0 DEF TypeOK, LocalInv, Past, RequestInv, EntryInv, Working, Generations
<1>6. RequestInv(t)'
    BY <1>0 DEF TypeOK, LocalInv, Past, RequestInv, LifecycleHeld, Generations, MutexInv
<1>7. EntryInv(t)'
    BY <1>0 DEF TypeOK, LocalInv, Past, RequestInv, EntryInv, Working, LiveStates, Generations
<1>8. BoundsInv(t)'
    BY <1>0 DEF TypeOK, LocalInv, Past, RequestInv, BoundsInv, Generations
<1> QED
    BY <1>1, <1>2, <1>3, <1>4, <1>5, <1>6, <1>7, <1>8 DEF Inv, LocalInv

\* terminate_generation_child: the worker takes the child of its own
\* generation, or none.
LEMMA TakeUnhealthyStep ==
    ASSUME Inv, NEW t \in Tunnels, NEW g \in Generations, TakeUnhealthy(t, g)
    PROVE  Inv'
<1>0. TypeOK /\ MutexInv /\ LocalInv(t)
    BY DEF Inv
<1> USE TunnelAssumption DEF TakeUnhealthy, entryVars, opVars, Goto, IsCurrent
<1>1. TypeOK'
    <2>1. \E pc \in WorkerStates : Goto(t, g, pc)
        BY DEF WorkerStates, Goto
    <2>2. wpc' \in [Tunnels -> [Generations -> WorkerStates]]
        BY <1>0, <2>1, GotoType
    <2>3. child' = child \/ child' = [child EXCEPT ![t] = 0]
        OBVIOUS
    <2>4. child' \in [Tunnels -> 0 .. MaxGeneration]
        <3>1. child \in [Tunnels -> 0 .. MaxGeneration]
            BY <1>0 DEF TypeOK
        <3> QED
            BY <2>3, <3>1
    <2> QED
        BY <1>0, <2>2, <2>4 DEF TypeOK
<1>2. ASSUME NEW u \in Tunnels, u # t PROVE LocalInv(u)'
    <2>1. SameAt(u)
        BY <1>0, <1>2 DEF SameAt, TypeOK, Generations
    <2>2. stage[u] = "idle" \/ op' = op
        BY <1>2
    <2> QED
        BY <1>2, <2>1, <2>2, Frame DEF Inv
<1>3. MutexInv'
    BY <1>0 DEF MutexInv, TypeOK
<1>4. OwnedAt(t)'
    <2>1. CASE generation[t] # g
        BY <1>0, <2>1 DEF TypeOK, LocalInv, OwnedAt, InEntry, InRequest, InWorker
    <2>2. CASE generation[t] = g
        <3>1. child[t] = g /\ opChild[t] # g
            BY <1>0, <2>2 DEF TypeOK, LocalInv, Past, EntryInv, Generations
        <3>2. child'[t] = 0 /\ wpc'[t] = [wpc[t] EXCEPT ![g] = "terminating"]
            BY <1>0, <2>2 DEF TypeOK
        <3> QED
            BY <1>0, <3>1, <3>2
            DEF TypeOK, LocalInv, OwnedAt, InEntry, InRequest, InWorker, Generations
    <2> QED
        BY <2>1, <2>2
<1>5. Past(t)'
    BY <1>0 DEF TypeOK, LocalInv, Past, RequestInv, EntryInv, Working, Generations
<1>6. RequestInv(t)'
    BY <1>0 DEF TypeOK, LocalInv, Past, RequestInv, LifecycleHeld, Generations, MutexInv
<1>7. EntryInv(t)'
    BY <1>0 DEF TypeOK, LocalInv, Past, RequestInv, EntryInv, Working, LiveStates, Generations
<1>8. BoundsInv(t)'
    BY <1>0 DEF TypeOK, LocalInv, Past, RequestInv, BoundsInv, Generations
<1> QED
    BY <1>1, <1>2, <1>3, <1>4, <1>5, <1>6, <1>7, <1>8 DEF Inv, LocalInv

\* terminate_generation_child: the worker reaps the child that it took.
LEMMA TerminateUnhealthyStep ==
    ASSUME Inv, NEW t \in Tunnels, NEW g \in Generations, TerminateUnhealthy(t, g)
    PROVE  Inv'
<1>0. TypeOK /\ MutexInv /\ LocalInv(t)
    BY DEF Inv
<1> USE TunnelAssumption DEF TerminateUnhealthy, entryVars, opVars, Reap, Goto
<1>1. TypeOK'
    BY <1>0 DEF TypeOK, States, LiveStates, Ops, Stages, WorkerStates, Procs, Generations
<1>2. ASSUME NEW u \in Tunnels, u # t PROVE LocalInv(u)'
    <2>1. SameAt(u)
        BY <1>0, <1>2 DEF SameAt, TypeOK, Generations
    <2>2. stage[u] = "idle" \/ op' = op
        BY <1>2
    <2> QED
        BY <1>2, <2>1, <2>2, Frame DEF Inv
<1>3. MutexInv'
    BY <1>0 DEF MutexInv, TypeOK
<1>4. OwnedAt(t)'
    BY <1>0 DEF TypeOK, LocalInv, OwnedAt, InEntry, InRequest, InWorker, Past,
                RequestInv, EntryInv, LifecycleHeld, Working, Generations
<1>5. Past(t)'
    BY <1>0 DEF TypeOK, LocalInv, Past, RequestInv, EntryInv, Working, Generations
<1>6. RequestInv(t)'
    BY <1>0 DEF TypeOK, LocalInv, Past, RequestInv, LifecycleHeld, Generations, MutexInv
<1>7. EntryInv(t)'
    BY <1>0 DEF TypeOK, LocalInv, Past, RequestInv, EntryInv, Working, LiveStates, Generations
<1>8. BoundsInv(t)'
    BY <1>0 DEF TypeOK, LocalInv, Past, RequestInv, BoundsInv, Generations
<1> QED
    BY <1>1, <1>2, <1>3, <1>4, <1>5, <1>6, <1>7, <1>8 DEF Inv, LocalInv

\* terminate_generation_child: a surviving child goes back to an entry of the
\* same generation, which has none, and otherwise stays with the worker.
LEMMA TerminateUnhealthyFailsStep ==
    ASSUME Inv, NEW t \in Tunnels, NEW g \in Generations, TerminateUnhealthyFails(t, g)
    PROVE  Inv'
<1>0. TypeOK /\ MutexInv /\ LocalInv(t)
    BY DEF Inv
<1> USE TunnelAssumption DEF TerminateUnhealthyFails, entryVars, opVars, Goto
<1>1. TypeOK'
    <2>1. wpc' \in [Tunnels -> [Generations -> WorkerStates]]
        BY <1>0, GotoType DEF WorkerStates
    <2>2. child' = child \/ child' = [child EXCEPT ![t] = g]
        OBVIOUS
    <2>3. child' \in [Tunnels -> 0 .. MaxGeneration]
        BY <1>0, <2>2 DEF TypeOK, Generations
    <2> QED
        BY <1>0, <2>1, <2>3 DEF TypeOK
<1>2. ASSUME NEW u \in Tunnels, u # t PROVE LocalInv(u)'
    <2>1. SameAt(u)
        BY <1>0, <1>2 DEF SameAt, TypeOK, Generations
    <2>2. stage[u] = "idle" \/ op' = op
        BY <1>2
    <2> QED
        BY <1>2, <2>1, <2>2, Frame DEF Inv
<1>3. MutexInv'
    BY <1>0 DEF MutexInv, TypeOK
<1>4. OwnedAt(t)'
    <2>1. \A k \in Generations : k # g => (InWorker(t, k)' <=> InWorker(t, k))
        BY <1>0 DEF TypeOK, InWorker
    <2>2. InWorker(t, g)
        BY DEF InWorker
    <2>3. CASE generation[t] = g
        <3>1. child[t] = 0 /\ child'[t] = g /\ t \in entry /\ ~InWorker(t, g)'
            BY <1>0, <2>3 DEF TypeOK, LocalInv, EntryInv, Working, InWorker
        <3> QED
            BY <1>0, <2>1, <2>2, <3>1 DEF LocalInv, OwnedAt, InEntry, InRequest, Generations
    <2>4. CASE generation[t] # g
        <3>1. InWorker(t, g)' /\ child' = child
            BY <1>0, <2>4 DEF TypeOK, InWorker
        <3> QED
            BY <1>0, <2>1, <2>2, <3>1 DEF LocalInv, OwnedAt, InEntry, InRequest
    <2> QED
        BY <2>3, <2>4
<1>5. Past(t)'
    BY <1>0 DEF TypeOK, LocalInv, Past, RequestInv, EntryInv, Working, Generations
<1>6. RequestInv(t)'
    BY <1>0 DEF TypeOK, LocalInv, Past, RequestInv, LifecycleHeld, Generations, MutexInv
<1>7. EntryInv(t)'
    BY <1>0 DEF TypeOK, LocalInv, Past, RequestInv, EntryInv, Working, LiveStates, Generations
<1>8. BoundsInv(t)'
    BY <1>0 DEF TypeOK, LocalInv, Past, RequestInv, BoundsInv, Generations
<1> QED
    BY <1>1, <1>2, <1>3, <1>4, <1>5, <1>6, <1>7, <1>8 DEF Inv, LocalInv

\* A worker drops the child that it took, which then has no owner.
LEMMA WorkerDropsStep ==
    ASSUME Inv, NEW t \in Tunnels, NEW g \in Generations, WorkerDrops(t, g)
    PROVE  Inv'
<1>0. TypeOK /\ MutexInv /\ LocalInv(t)
    BY DEF Inv
<1>r. proc' \in [Tunnels -> [Generations -> Procs]] /\ lost' \in [Tunnels -> SUBSET Generations]
    BY <1>0, ReapType DEF WorkerDrops, Generations, TypeOK
<1>w. wpc' \in [Tunnels -> [Generations -> WorkerStates]]
    BY <1>0, GotoType DEF WorkerDrops, WorkerStates
<1> USE TunnelAssumption DEF WorkerDrops, entryVars, opVars, DropChild, Reap, Goto
<1>1. TypeOK'
    BY <1>0, <1>r, <1>w DEF TypeOK
<1>2. ASSUME NEW u \in Tunnels, u # t PROVE LocalInv(u)'
    <2>1. SameAt(u)
        BY <1>0, <1>2 DEF SameAt, TypeOK, Generations
    <2>2. stage[u] = "idle" \/ op' = op
        BY <1>2
    <2> QED
        BY <1>2, <2>1, <2>2, Frame DEF Inv
<1>3. MutexInv'
    BY <1>0 DEF MutexInv, TypeOK
<1>4. OwnedAt(t)'
    BY <1>0 DEF TypeOK, LocalInv, OwnedAt, InEntry, InRequest, InWorker, Past,
                RequestInv, EntryInv, LifecycleHeld, Working, Generations
<1>5. Past(t)'
    BY <1>0 DEF TypeOK, LocalInv, Past, RequestInv, EntryInv, Working, Generations
<1>6. RequestInv(t)'
    BY <1>0 DEF TypeOK, LocalInv, Past, RequestInv, LifecycleHeld, Generations, MutexInv
<1>7. EntryInv(t)'
    BY <1>0 DEF TypeOK, LocalInv, Past, RequestInv, EntryInv, Working, LiveStates, Generations
<1>8. BoundsInv(t)'
    BY <1>0 DEF TypeOK, LocalInv, Past, RequestInv, BoundsInv, Generations
<1> QED
    BY <1>1, <1>2, <1>3, <1>4, <1>5, <1>6, <1>7, <1>8 DEF Inv, LocalInv

\* finish_attempt: a tunnel becomes Stopped only without a child.
LEMMA FinishAttemptStep ==
    ASSUME Inv, NEW t \in Tunnels, NEW g \in Generations, FinishAttempt(t, g)
    PROVE  Inv'
<1>0. TypeOK /\ MutexInv /\ LocalInv(t)
    BY DEF Inv
<1> USE TunnelAssumption DEF FinishAttempt, entryVars, opVars, Goto, IsCurrent
<1>1. TypeOK'
    <2>1. \E pc \in WorkerStates : Goto(t, g, pc)
        BY DEF WorkerStates, Goto
    <2>2. wpc' \in [Tunnels -> [Generations -> WorkerStates]]
        BY <1>0, <2>1, GotoType
    <2>3. state' \in [Tunnels -> States] /\ desired' \in [Tunnels -> BOOLEAN]
        BY <1>0 DEF TypeOK, States
    <2> QED
        BY <1>0, <2>2, <2>3 DEF TypeOK
<1>2. ASSUME NEW u \in Tunnels, u # t PROVE LocalInv(u)'
    <2>1. SameAt(u)
        BY <1>0, <1>2 DEF SameAt, TypeOK, Generations
    <2>2. stage[u] = "idle" \/ op' = op
        BY <1>2
    <2> QED
        BY <1>2, <2>1, <2>2, Frame DEF Inv
<1>3. MutexInv'
    BY <1>0 DEF MutexInv, TypeOK
<1>4. OwnedAt(t)'
    BY <1>0 DEF TypeOK, LocalInv, OwnedAt, InEntry, InRequest, InWorker, Past,
                RequestInv, EntryInv, LifecycleHeld, Working, Generations
<1>5. Past(t)'
    BY <1>0 DEF TypeOK, LocalInv, Past, RequestInv, EntryInv, Working, Generations
<1>6. RequestInv(t)'
    BY <1>0 DEF TypeOK, LocalInv, Past, RequestInv, LifecycleHeld, Generations, MutexInv
<1>7. EntryInv(t)'
    BY <1>0 DEF TypeOK, LocalInv, Past, RequestInv, EntryInv, Working, LiveStates, Generations
<1>8. BoundsInv(t)'
    BY <1>0 DEF TypeOK, LocalInv, Past, RequestInv, BoundsInv, Generations
<1> QED
    BY <1>1, <1>2, <1>3, <1>4, <1>5, <1>6, <1>7, <1>8 DEF Inv, LocalInv

\* interruptible_wait: the next attempt begins without a child.
LEMMA BackoffOverStep ==
    ASSUME Inv, NEW t \in Tunnels, NEW g \in Generations, BackoffOver(t, g)
    PROVE  Inv'
<1>0. TypeOK /\ MutexInv /\ LocalInv(t)
    BY DEF Inv
<1> USE TunnelAssumption DEF BackoffOver, entryVars, opVars, Goto, IsCurrent
<1>1. TypeOK'
    BY <1>0 DEF TypeOK, States, LiveStates, Ops, Stages, WorkerStates, Procs, Generations
<1>2. ASSUME NEW u \in Tunnels, u # t PROVE LocalInv(u)'
    <2>1. SameAt(u)
        BY <1>0, <1>2 DEF SameAt, TypeOK, Generations
    <2>2. stage[u] = "idle" \/ op' = op
        BY <1>2
    <2> QED
        BY <1>2, <2>1, <2>2, Frame DEF Inv
<1>3. MutexInv'
    BY <1>0 DEF MutexInv, TypeOK
<1>4. OwnedAt(t)'
    BY <1>0 DEF TypeOK, LocalInv, OwnedAt, InEntry, InRequest, InWorker, Past,
                RequestInv, EntryInv, LifecycleHeld, Working, Generations
<1>5. Past(t)'
    BY <1>0 DEF TypeOK, LocalInv, Past, RequestInv, EntryInv, Working, Generations
<1>6. RequestInv(t)'
    BY <1>0 DEF TypeOK, LocalInv, Past, RequestInv, LifecycleHeld, Generations, MutexInv
<1>7. EntryInv(t)'
    BY <1>0 DEF TypeOK, LocalInv, Past, RequestInv, EntryInv, Working, LiveStates, Generations
<1>8. BoundsInv(t)'
    BY <1>0 DEF TypeOK, LocalInv, Past, RequestInv, BoundsInv, Generations
<1> QED
    BY <1>1, <1>2, <1>3, <1>4, <1>5, <1>6, <1>7, <1>8 DEF Inv, LocalInv

\* A worker that unwinds goes to its guard.
LEMMA WorkerPanicsStep ==
    ASSUME Inv, NEW t \in Tunnels, NEW g \in Generations, WorkerPanics(t, g)
    PROVE  Inv'
<1>0. TypeOK /\ MutexInv /\ LocalInv(t)
    BY DEF Inv
<1> USE TunnelAssumption DEF WorkerPanics, entryVars, opVars, Goto, IsCurrent
<1>1. TypeOK'
    BY <1>0 DEF TypeOK, States, LiveStates, Ops, Stages, WorkerStates, Procs, Generations
<1>2. ASSUME NEW u \in Tunnels, u # t PROVE LocalInv(u)'
    <2>1. SameAt(u)
        BY <1>0, <1>2 DEF SameAt, TypeOK, Generations
    <2>2. stage[u] = "idle" \/ op' = op
        BY <1>2
    <2> QED
        BY <1>2, <2>1, <2>2, Frame DEF Inv
<1>3. MutexInv'
    BY <1>0 DEF MutexInv, TypeOK
<1>4. OwnedAt(t)'
    BY <1>0 DEF TypeOK, LocalInv, OwnedAt, InEntry, InRequest, InWorker, Past,
                RequestInv, EntryInv, LifecycleHeld, Working, Generations
<1>5. Past(t)'
    BY <1>0 DEF TypeOK, LocalInv, Past, RequestInv, EntryInv, Working, Generations
<1>6. RequestInv(t)'
    BY <1>0 DEF TypeOK, LocalInv, Past, RequestInv, LifecycleHeld, Generations, MutexInv
<1>7. EntryInv(t)'
    BY <1>0 DEF TypeOK, LocalInv, Past, RequestInv, EntryInv, Working, LiveStates, Generations
<1>8. BoundsInv(t)'
    BY <1>0 DEF TypeOK, LocalInv, Past, RequestInv, BoundsInv, Generations
<1> QED
    BY <1>1, <1>2, <1>3, <1>4, <1>5, <1>6, <1>7, <1>8 DEF Inv, LocalInv

\* WorkerGuard::drop: a current worker that ends takes its child.
LEMMA WorkerGuardDropStep ==
    ASSUME Inv, NEW t \in Tunnels, NEW g \in Generations, WorkerGuardDrop(t, g)
    PROVE  Inv'
<1>0. TypeOK /\ MutexInv /\ LocalInv(t)
    BY DEF Inv
<1> USE TunnelAssumption DEF WorkerGuardDrop, entryVars, opVars, Goto, IsCurrent
<1>1. TypeOK'
    <2>1. wpc' \in [Tunnels -> [Generations -> WorkerStates]]
        BY <1>0, GotoType DEF WorkerStates
    <2>2. \/ UNCHANGED <<state, desired, child>>
          \/ /\ state' = [state EXCEPT ![t] = "Failed"]
             /\ desired' = [desired EXCEPT ![t] = FALSE]
             /\ child' = [child EXCEPT ![t] = 0]
        OBVIOUS
    <2>3. /\ state' \in [Tunnels -> States]
          /\ desired' \in [Tunnels -> BOOLEAN]
          /\ child' \in [Tunnels -> 0 .. MaxGeneration]
        <3>1. CASE UNCHANGED <<state, desired, child>>
            BY <1>0, <3>1 DEF TypeOK
        <3>2. CASE /\ state' = [state EXCEPT ![t] = "Failed"]
                   /\ desired' = [desired EXCEPT ![t] = FALSE]
                   /\ child' = [child EXCEPT ![t] = 0]
            BY <1>0, <3>2 DEF TypeOK, States
        <3> QED
            BY <2>2, <3>1, <3>2
    <2>4. workerActive' \in [Tunnels -> BOOLEAN]
        BY <1>0 DEF TypeOK
    <2> QED
        BY <1>0, <2>1, <2>3, <2>4 DEF TypeOK
<1>2. ASSUME NEW u \in Tunnels, u # t PROVE LocalInv(u)'
    <2>1. SameAt(u)
        BY <1>0, <1>2 DEF SameAt, TypeOK, Generations
    <2>2. stage[u] = "idle" \/ op' = op
        BY <1>2
    <2> QED
        BY <1>2, <2>1, <2>2, Frame DEF Inv
<1>3. MutexInv'
    BY <1>0 DEF MutexInv, TypeOK
<1>4. OwnedAt(t)'
    <2>1. \A k \in Generations : k # g => (InWorker(t, k)' <=> InWorker(t, k))
        BY <1>0 DEF TypeOK, InWorker
    <2>2. ~InWorker(t, g)
        BY DEF InWorker
    <2>3. CASE ~IsCurrent(t, g)
        <3>1. ~InWorker(t, g)' /\ child' = child
            BY <1>0, <2>3 DEF TypeOK, InWorker
        <3> QED
            BY <1>0, <2>1, <2>2, <3>1 DEF LocalInv, OwnedAt, InEntry, InRequest
    <2>4. CASE IsCurrent(t, g)
        <3>1. child[t] \in {0, g} /\ child'[t] = 0 /\ opChild[t] # g
            BY <1>0, <2>4 DEF TypeOK, LocalInv, Past, EntryInv, Generations
        <3>2. InWorker(t, g)' <=> child[t] = g
            BY <1>0, <2>4, <3>1 DEF TypeOK, InWorker, Generations
        <3> QED
            BY <1>0, <2>1, <2>2, <3>1, <3>2
            DEF LocalInv, OwnedAt, InEntry, InRequest, Generations
    <2> QED
        BY <2>3, <2>4
<1>5. Past(t)'
    BY <1>0 DEF TypeOK, LocalInv, Past, RequestInv, EntryInv, Working, Generations
<1>6. RequestInv(t)'
    BY <1>0 DEF TypeOK, LocalInv, Past, RequestInv, LifecycleHeld, Generations, MutexInv
<1>7. EntryInv(t)'
    BY <1>0 DEF TypeOK, LocalInv, Past, RequestInv, EntryInv, Working, LiveStates, Generations
<1>8. BoundsInv(t)'
    BY <1>0 DEF TypeOK, LocalInv, Past, RequestInv, BoundsInv, Generations
<1> QED
    BY <1>1, <1>2, <1>3, <1>4, <1>5, <1>6, <1>7, <1>8 DEF Inv, LocalInv

\* A process that exits by itself keeps its owner.
LEMMA ProcessExitsStep ==
    ASSUME Inv, NEW t \in Tunnels, NEW g \in Generations, ProcessExits(t, g)
    PROVE  Inv'
<1>0. TypeOK /\ MutexInv /\ LocalInv(t)
    BY DEF Inv
<1>r. proc' \in [Tunnels -> [Generations -> Procs]] /\ lost' \in [Tunnels -> SUBSET Generations]
    <2>1. CASE proc' = [proc EXCEPT ![t][g] = "dead"] /\ UNCHANGED lost
        BY <1>0, <2>1 DEF TypeOK, Procs
    <2>2. CASE lost' = [lost EXCEPT ![t] = lost[t] \ {g}] /\ UNCHANGED proc
        BY <1>0, <2>2 DEF TypeOK
    <2> QED
        BY <2>1, <2>2 DEF ProcessExits
<1> USE TunnelAssumption DEF ProcessExits, entryVars, opVars, Goto, IsCurrent
<1>1. TypeOK'
    BY <1>0, <1>r DEF TypeOK
<1>2. ASSUME NEW u \in Tunnels, u # t PROVE LocalInv(u)'
    <2>1. SameAt(u)
        BY <1>0, <1>2 DEF SameAt, TypeOK, Generations
    <2>2. stage[u] = "idle" \/ op' = op
        BY <1>2
    <2> QED
        BY <1>2, <2>1, <2>2, Frame DEF Inv
<1>3. MutexInv'
    BY <1>0 DEF MutexInv, TypeOK
<1>4. OwnedAt(t)'
    BY <1>0 DEF TypeOK, LocalInv, OwnedAt, InEntry, InRequest, InWorker, Past,
                RequestInv, EntryInv, LifecycleHeld, Working, Generations
<1>5. Past(t)'
    BY <1>0 DEF TypeOK, LocalInv, Past, RequestInv, EntryInv, Working, Generations
<1>6. RequestInv(t)'
    BY <1>0 DEF TypeOK, LocalInv, Past, RequestInv, LifecycleHeld, Generations, MutexInv
<1>7. EntryInv(t)'
    BY <1>0 DEF TypeOK, LocalInv, Past, RequestInv, EntryInv, Working, LiveStates, Generations
<1>8. BoundsInv(t)'
    BY <1>0 DEF TypeOK, LocalInv, Past, RequestInv, BoundsInv, Generations
<1> QED
    BY <1>1, <1>2, <1>3, <1>4, <1>5, <1>6, <1>7, <1>8 DEF Inv, LocalInv

\* start_inner up to the entry: the only step of a request that touches other
\* tunnels, whose retired entries it drops.
LEMMA StartAdmitStep ==
    ASSUME Inv, NEW t \in Tunnels, StartAdmit(t)
    PROVE  Inv'
<1> USE TunnelAssumption
<1>0. TypeOK /\ MutexInv /\ \A u \in Tunnels : LocalInv(u)
    BY DEF Inv
<1>1. /\ stage[t] = "begin"
      /\ op \in {"start", "restart"}
      /\ \A u \in Tunnels \ {t} : stage[u] = "idle"
    BY <1>0 DEF StartAdmit, LocalInv, RequestInv, MutexInv
<1>d. PICK kept \in SUBSET Tunnels :
          /\ \A u \in kept : /\ u \in entry /\ retired[u]
                             /\ child[u] # 0
          /\ lost' = [u \in Tunnels |->
                 IF u \in kept THEN lost[u] \cup {child[u]} ELSE lost[u]]
    BY <1>0 DEF StartAdmit, DropRetired, Retained, TypeOK
<1>e. /\ UNCHANGED <<desired, workerActive, generation, profile, hostProfile, opConfig, opChild,
                     wpc, strikes, hosts>>
      /\ retired' = [u \in Tunnels |-> FALSE]
      /\ child' = [u \in Tunnels |-> IF u \in entry \ Retained THEN 0 ELSE child[u]]
      /\ state' = [u \in Tunnels |-> IF u \in entry \ Retained THEN "Stopped" ELSE state[u]]
      /\ proc' = [u \in Tunnels |-> [k \in Generations |->
                     IF u \in entry \ Retained /\ k = child[u] THEN "none" ELSE proc[u][k]]]
    BY DEF StartAdmit, DropRetired
<1>2. \/ /\ entry' = Retained \cup {t}
         /\ stage' = [stage EXCEPT ![t] = "bump"]
         /\ op' = op
      \/ /\ entry' = Retained
         /\ stage' = [stage EXCEPT ![t] = "idle"]
         /\ op' = "none"
    BY <1>1 DEF StartAdmit, Leave
<1>3. TypeOK'
    <2>1. /\ retired' \in [Tunnels -> BOOLEAN]
          /\ child' \in [Tunnels -> 0 .. MaxGeneration]
          /\ state' \in [Tunnels -> States]
        BY <1>0, <1>e DEF TypeOK, States
    <2>2. proc' \in [Tunnels -> [Generations -> Procs]]
        BY <1>0, <1>e DEF TypeOK, Procs
    <2>3. lost' \in [Tunnels -> SUBSET Generations]
        <3>1. \A u \in kept : child[u] \in Generations
            BY <1>0, <1>d DEF TypeOK, Generations
        <3> QED
            BY <1>0, <1>d, <3>1 DEF TypeOK
    <2>4. /\ entry' \subseteq Tunnels
          /\ stage' \in [Tunnels -> Stages]
          /\ op' \in Ops
        BY <1>0, <1>2 DEF TypeOK, Retained, Stages, Ops
    <2> QED
        BY <1>0, <1>e, <2>1, <2>2, <2>3, <2>4 DEF TypeOK
<1>4. MutexInv'
    <2>1. \A u \in Tunnels \ {t} : stage'[u] = "idle"
        BY <1>0, <1>1, <1>2 DEF TypeOK
    <2>2. op' = "none" => stage'[t] = "idle"
        BY <1>0, <1>1, <1>2 DEF TypeOK
    <2> QED
        BY <2>1, <2>2 DEF MutexInv
<1>5. ASSUME NEW u \in Tunnels PROVE LocalInv(u)'
    <2>0. LocalInv(u) /\ opChild[u] = 0
        BY <1>0, <1>1 DEF LocalInv, RequestInv
    <2>1. /\ UNCHANGED <<desired, generation, opChild, wpc, strikes>>
          /\ ~retired'[u]
          /\ u \in entry /\ ~retired[u] => u \in entry'
        BY <1>2, <1>e DEF Retained
    <2>2. stage'[u] \in {"idle", "bump"}
          /\ (stage'[u] = "bump" => u = t /\ u \in entry' /\ op' = op)
        BY <1>0, <1>1, <1>2 DEF TypeOK
    <2>3. CASE u \in entry /\ retired[u]
        <3>1. /\ child'[u] = 0
              /\ \A k \in Generations :
                    proc'[u][k] = IF k = child[u] THEN "none" ELSE proc[u][k]
            BY <1>e, <2>3 DEF Retained
        <3>2. /\ ~desired[u] /\ "terminate" \in Faults
              /\ \A k \in Generations : generation[u] = k => wpc[u][k] = "none"
            BY <1>1, <2>0, <2>3 DEF LocalInv, EntryInv
        <3>3. OwnedAt(u)'
            <4>1. \A k \in Generations : k # 0
                BY TunnelAssumption DEF Generations
            <4> SUFFICES ASSUME NEW k \in Generations
                         PROVE  proc'[u][k] # "none" => InWorker(u, k)'
                BY <2>0, <2>1, <3>1, <3>2, <4>1 DEF OwnedAt, InEntry, InRequest
            <4> QED
                BY <2>0, <2>1, <3>1, <4>1 DEF LocalInv, OwnedAt, InEntry, InRequest, InWorker
        <3>4. Past(u)'
            BY <1>0, <2>0, <2>1, <3>1 DEF LocalInv, Past, TypeOK
        <3>5. RequestInv(u)'
            BY <1>1, <2>0, <2>1, <2>2 DEF RequestInv
        <3>6. EntryInv(u)'
            BY <2>0, <2>1, <3>1, <3>2 DEF EntryInv, Working
        <3>7. BoundsInv(u)'
            BY <1>1, <2>0, <2>1, <2>2 DEF LocalInv, BoundsInv
        <3> QED
            BY <3>3, <3>4, <3>5, <3>6, <3>7 DEF LocalInv
    <2>4. CASE ~(u \in entry /\ retired[u])
        <3>1. child'[u] = child[u] /\ state'[u] = state[u] /\ lost'[u] = lost[u]
            BY <1>d, <1>e, <2>4 DEF Retained
        <3>2. \A k \in Generations : proc'[u][k] = proc[u][k]
            BY <1>e, <2>4 DEF Retained
        <3>3. OwnedAt(u)'
            <4>1. child[u] # 0 /\ u \notin entry' => u \notin entry
                BY <2>1, <2>4
            <4> QED
                BY TunnelAssumption, <2>0, <2>1, <3>1, <3>2, <4>1
                DEF LocalInv, OwnedAt, InEntry, InRequest, InWorker, Generations
        <3>4. Past(u)'
            BY <2>0, <2>1, <3>1, <3>2 DEF LocalInv, Past
        <3>5. RequestInv(u)'
            BY <1>1, <2>0, <2>1, <2>2 DEF RequestInv
        <3>6. EntryInv(u)'
            BY <2>0, <2>1, <2>4, <3>1 DEF LocalInv, EntryInv
        <3>7. BoundsInv(u)'
            BY <1>1, <2>0, <2>1, <2>2 DEF LocalInv, BoundsInv
        <3> QED
            BY <3>3, <3>4, <3>5, <3>6, <3>7 DEF LocalInv
    <2> QED
        BY <2>3, <2>4
<1> QED
    BY <1>3, <1>4, <1>5 DEF Inv

\* A request that takes the registry mutex.
LEMMA RequestStart ==
    ASSUME Inv, NEW t \in Tunnels, NEW c \in Configs, Start(t, c) \/ Restart(t, c)
    PROVE  Inv'
<1>0. TypeOK /\ MutexInv /\ \A u \in Tunnels : LocalInv(u) /\ stage[u] = "idle"
    BY DEF Inv, MutexInv, Start, Restart
<1> USE TunnelAssumption
<1>1. /\ UNCHANGED <<entryVars, opChild, wpc, strikes, proc, lost, hosts>>
      /\ opConfig' = c
      /\ op' \in {"start", "restart"}
      /\ \/ stage' = [stage EXCEPT ![t] = "begin"]
         \/ stage' = [stage EXCEPT ![t] = "stop"] /\ t \in entry /\ op' = "restart"
      /\ generation[t] < MaxGeneration
      /\ op' = "restart" => generation[t] + 1 < MaxGeneration
    BY <1>0 DEF Start, Restart, TypeOK
<1>2. TypeOK'
    BY <1>0, <1>1 DEF TypeOK, entryVars, Stages, Ops
<1>3. MutexInv'
    BY <1>0, <1>1 DEF MutexInv, TypeOK
<1>4. ASSUME NEW u \in Tunnels PROVE LocalInv(u)'
    <2>0. LocalInv(u) /\ stage[u] = "idle"
        BY <1>0
    <2>1. CASE u # t
        <3>1. SameAt(u)
            BY <1>0, <1>1, <2>1 DEF SameAt, TypeOK, entryVars
        <3> QED
            BY <2>0, <3>1, Frame
    <2>2. CASE u = t
        <3>1. stage'[t] = "begin" \/ (stage'[t] = "stop" /\ t \in entry)
            BY <1>0, <1>1 DEF TypeOK
        <3>2. OwnedAt(u)' /\ Past(u)' /\ EntryInv(u)'
            BY <1>1, <2>0 DEF LocalInv, OwnedAt, Past, EntryInv, InEntry, InRequest,
                              InWorker, entryVars
        <3>3. RequestInv(u)'
            BY <1>1, <2>0, <2>2, <3>1 DEF LocalInv, RequestInv, entryVars
        <3>4. BoundsInv(u)'
            BY <1>1, <2>0, <2>2, <3>1 DEF LocalInv, BoundsInv, entryVars
        <3> QED
            BY <3>2, <3>3, <3>4 DEF LocalInv
    <2> QED
        BY <2>1, <2>2
<1> QED
    BY <1>2, <1>3, <1>4 DEF Inv

\* A request that stops a set of entries takes the registry mutex.
LEMMA RequestStop ==
    ASSUME Inv, NEW T \in SUBSET entry,
           NEW kind \in {"stop", "remove", "stop_for_host", "stop_all"},
           StopEntries(kind, T)
    PROVE  Inv'
<1>0. TypeOK /\ MutexInv /\ \A u \in Tunnels : LocalInv(u) /\ stage[u] = "idle"
    BY DEF Inv, MutexInv, StopEntries
<1> USE TunnelAssumption DEF StopEntries, entryVars
<1>1. TypeOK'
    BY <1>0 DEF TypeOK, Stages, Ops
<1>2. MutexInv'
    BY <1>0 DEF MutexInv, TypeOK
<1>3. ASSUME NEW u \in Tunnels PROVE LocalInv(u)'
    <2>0. LocalInv(u) /\ stage[u] = "idle"
        BY <1>0
    <2>1. OwnedAt(u)' /\ Past(u)' /\ EntryInv(u)'
        BY <2>0 DEF LocalInv, OwnedAt, Past, EntryInv, InEntry, InRequest, InWorker
    <2>2. stage'[u] = "idle" \/ (stage'[u] = "stop" /\ u \in T)
        OBVIOUS
    <2>3. RequestInv(u)'
        BY <2>0, <2>2 DEF LocalInv, RequestInv
    <2>4. BoundsInv(u)'
        BY <2>0, <2>2 DEF LocalInv, BoundsInv
    <2> QED
        BY <2>1, <2>3, <2>4 DEF LocalInv
<1> QED
    BY <1>1, <1>2, <1>3 DEF Inv

\* Saving a host, and steps that change nothing, keep the invariant.
LEMMA OtherStep ==
    ASSUME Inv, (\E h \in HostIds : EditHost(h)) \/ UNCHANGED vars
    PROVE  Inv'
<1>0. TypeOK /\ MutexInv /\ \A u \in Tunnels : LocalInv(u)
    BY DEF Inv
<1>1. UNCHANGED <<entryVars, opVars, wpc, strikes, proc, lost>>
    BY DEF EditHost, SaveHost, HostUpdate, vars, entryVars, opVars
<1>2. hosts' \in [HostIds -> HostRecords]
    <2>0. hosts \in [HostIds -> HostRecords]
        BY <1>0 DEF TypeOK
    <2>1. ASSUME NEW h \in HostIds, NEW next \in Settings, SaveHost(h, next)
          PROVE  hosts' \in [HostIds -> HostRecords]
        BY <2>0, <2>1 DEF SaveHost, HostRecords
    <2>2. ASSUME NEW h \in HostIds, NEW previous \in Settings, NEW next \in Settings,
                 HostUpdate(h, previous, next)
          PROVE  hosts' \in [HostIds -> HostRecords]
        BY <2>0, <2>2 DEF HostUpdate, HostRecords
    <2>3. CASE UNCHANGED vars
        BY <2>0, <2>3 DEF vars
    <2> QED
        BY <2>1, <2>2, <2>3 DEF EditHost
<1>3. TypeOK'
    BY <1>0, <1>1, <1>2 DEF TypeOK, entryVars, opVars
<1>4. MutexInv'
    BY <1>0, <1>1 DEF MutexInv, opVars
<1>5. ASSUME NEW u \in Tunnels PROVE LocalInv(u)'
    BY <1>0, <1>1, Frame DEF SameAt, entryVars, opVars
<1> QED
    BY <1>3, <1>4, <1>5 DEF Inv

\* The initial states satisfy the invariant.
LEMMA InitInv == Init => Inv
<1> SUFFICES ASSUME Init PROVE Inv
    OBVIOUS
<1>1. TypeOK
    <2>1. hosts \in [HostIds -> HostRecords]
        BY DEF Init, HostRecords
    <2>2. hostProfile \in [Tunnels -> [HostIds -> Settings]]
        BY <2>1 DEF Init, HostRecords
    <2> QED
        BY <2>1, <2>2, TunnelAssumption DEF Init, TypeOK, States, Ops, Stages, WorkerStates,
            Procs
<1>2. MutexInv
    BY DEF Init, MutexInv
<1>3. ASSUME NEW t \in Tunnels PROVE LocalInv(t)
    BY TunnelAssumption DEF Init, LocalInv, OwnedAt, InEntry, InRequest, InWorker, Past,
        RequestInv, EntryInv, BoundsInv, Generations, Working
<1> QED
    BY <1>1, <1>2, <1>3 DEF Inv

\* Every step keeps the invariant.
LEMMA NextInv == Inv /\ [Next]_vars => Inv'
<1> SUFFICES ASSUME Inv, [Next]_vars PROVE Inv'
    OBVIOUS
<1>1. ASSUME NEW t \in Tunnels, Request(t) PROVE Inv'
    <2>1. ASSUME Stop(t) \/ Remove(t) PROVE Inv'
        BY <2>1, RequestStop DEF Stop, Remove
    <2> QED
        BY <1>1, <2>1, RequestStart DEF Request
<1>2. ASSUME NEW t \in Tunnels, RequestStep(t) PROVE Inv'
    BY <1>2, StartAdmitStep, StartUnresolvedStep, StartAlreadyRunningStep, StartBumpStep,
       StartTerminateFailsStep, StartSetStep, StartSpawnWorkerStep, StartSpawnFailsStep,
       StopTakeStep, StopDoneStep, StopFailsStep, StopClearStep
    DEF RequestStep
<1>3. ASSUME NEW h \in HostIds, StopForHost(h) PROVE Inv'
    BY <1>3, RequestStop DEF StopForHost
<1>4. ASSUME StopAll PROVE Inv'
    BY <1>4, RequestStop DEF StopAll
<1>5. ASSUME NEW t \in Tunnels, NEW g \in Generations, WorkerStep(t, g) PROVE Inv'
    BY <1>5, WorkerLeavesStep, MarkStartingStep, ResolveHostStep, SpawnChildStep,
       PollExitedStep, PollFailsStep, TakeUnhealthyStep, TerminateUnhealthyStep,
       TerminateUnhealthyFailsStep, WorkerDropsStep, FinishAttemptStep, BackoffOverStep, WorkerGuardDropStep
    DEF WorkerStep
<1>6. ASSUME NEW t \in Tunnels, NEW g \in Generations,
             MarkRunning(t, g) \/ HealthCheck(t, g) \/ WorkerPanics(t, g) \/ ProcessExits(t, g)
      PROVE  Inv'
    BY <1>6, MarkRunningStep, HealthCheckStep, WorkerPanicsStep, ProcessExitsStep
<1> QED
    BY <1>1, <1>2, <1>3, <1>4, <1>5, <1>6, OtherStep DEF Next

\* The inductive invariant holds throughout.
THEOREM Invariance == Spec => []Inv
<1>1. Init => Inv
    BY InitInv
<1>2. Inv /\ [Next]_vars => Inv'
    BY NextInv
<1> QED
    BY <1>1, <1>2, PTL DEF Spec

\* The variables of the registry keep their types.
THEOREM TypeCorrect == Spec => []TypeOK
<1>1. Inv => TypeOK
    BY DEF Inv
<1> QED
    BY <1>1, Invariance, PTL

\* Every OpenSSH process that was not reaped has exactly one owner that can
\* still stop it: its entry, the request that stops it, or its worker.
THEOREM ProcessesOwned == Spec => []EveryProcessOwned
<1>1. Inv => EveryProcessOwned
    BY DEF Inv, LocalInv, OwnedAt, EveryProcessOwned
<1> QED
    BY <1>1, Invariance, PTL

\* A tunnel listed as stopped forwards nothing, but for a child that an outdated
\* worker is about to end, or one whose termination failed.
THEOREM StoppedIsStopped == Spec => []StoppedForwardsNothing
<1>1. Inv => StoppedForwardsNothing
    <2> SUFFICES ASSUME Inv, NEW t \in Tunnels, NEW g \in Generations,
                        Reported(t) = "Stopped", stage[t] = "idle",
                        proc[t][g] # "none" \/ g \in lost[t]
                 PROVE  \/ InWorker(t, g) /\ generation[t] # g
                        \/ /\ "terminate" \in Faults
                           /\ g \in lost[t] \/ (retired[t] /\ InEntry(t, g))
        BY DEF StoppedForwardsNothing
    <2>1. LocalInv(t)
        BY DEF Inv
    <2>2. CASE g \in lost[t]
        BY <2>1, <2>2 DEF LocalInv, OwnedAt
    <2>3. CASE g \notin lost[t]
        <3>1. opChild[t] # g
            BY <2>1, TunnelAssumption DEF LocalInv, RequestInv, Generations
        <3>2. (InEntry(t, g) /\ t \in entry) \/ InWorker(t, g)
            BY <2>1, <2>3, <3>1 DEF LocalInv, OwnedAt, InRequest
        <3>3. InEntry(t, g) /\ t \in entry => retired[t] /\ "terminate" \in Faults
            BY <2>1, TunnelAssumption DEF LocalInv, EntryInv, InEntry, Reported, Generations
        <3>4. InWorker(t, g) => generation[t] # g
            BY <2>1 DEF LocalInv, EntryInv, InWorker, Working, LiveStates, Reported
        <3> QED
            BY <3>2, <3>3, <3>4
    <2> QED
        BY <2>2, <2>3
<1> QED
    BY <1>1, Invariance, PTL

\* stop, remove, stop_for_host and stop_all keep a process they cannot terminate.
THEOREM StopsKeepTheirChild == Spec => StopsLoseNothing
<1> DEFINE Kept == \A t \in Tunnels, g \in Generations :
        g \in lost'[t] \ lost[t] => op \in {"start", "restart"} \/ InWorker(t, g)
<1>1. Inv /\ [Next]_vars => [Kept]_vars
    <2> SUFFICES ASSUME Inv, Next, NEW t \in Tunnels, NEW g \in Generations,
                        g \in lost'[t] \ lost[t]
                 PROVE  op \in {"start", "restart"} \/ InWorker(t, g)
        OBVIOUS
    <2>0. TypeOK /\ \A u \in Tunnels : LocalInv(u)
        BY DEF Inv
    <2>1. ASSUME NEW u \in Tunnels, Request(u) PROVE FALSE
        BY <2>1 DEF Request, Start, Restart, Stop, Remove, StopEntries
    <2>2. ASSUME NEW u \in Tunnels, RequestStep(u) PROVE op \in {"start", "restart"}
        <3>1. CASE StartAdmit(u) \/ StartTerminateFails(u)
            BY <2>0, <3>1 DEF StartAdmit, StartTerminateFails, LocalInv, RequestInv
        <3>2. CASE ~(StartAdmit(u) \/ StartTerminateFails(u))
            BY <2>2, <3>2 DEF RequestStep, StartUnresolved, StartAlreadyRunning, StartBump, StartSet,
                StartSpawnWorker, StartSpawnFails, StopTake, StopDone, StopFails, StopClear
        <3> QED
            BY <3>1, <3>2
    <2>3. ASSUME \/ StopAll
                 \/ \E h \in HostIds : StopForHost(h) \/ EditHost(h)
          PROVE  FALSE
        BY <2>3 DEF StopAll, StopForHost, StopEntries, EditHost, SaveHost, HostUpdate
    <2>4. ASSUME NEW u \in Tunnels, NEW k \in Generations, WorkerDrops(u, k)
          PROVE  InWorker(t, g)
        <3>1. u = t /\ k = g
            <4>1. lost' = lost \/ lost' = [lost EXCEPT ![u] = lost[u] \cup {k}]
                BY <2>4 DEF WorkerDrops, DropChild
            <4>2. lost \in [Tunnels -> SUBSET Generations]
                BY <2>0 DEF TypeOK
            <4>3. lost' = [lost EXCEPT ![u] = lost[u] \cup {k}]
                BY <4>1
            <4>4. lost'[t] = IF t = u THEN lost[u] \cup {k} ELSE lost[t]
                BY <4>2, <4>3
            <4> QED
                BY <4>4
        <3> QED
            BY <2>4, <3>1 DEF WorkerDrops, InWorker
    <2>5. ASSUME NEW u \in Tunnels, NEW k \in Generations, ProcessExits(u, k)
          PROVE  FALSE
        BY <2>0, <2>5 DEF ProcessExits, TypeOK
    <2>6. ASSUME NEW u \in Tunnels, NEW k \in Generations,
                 \/ WorkerStep(u, k) /\ ~WorkerDrops(u, k)
                 \/ MarkRunning(u, k) \/ HealthCheck(u, k) \/ WorkerPanics(u, k)
          PROVE  FALSE
        BY <2>6 DEF WorkerStep, WorkerLeaves, MarkStarting, ResolveHost, SpawnChild, PollExited,
            PollFails, TakeUnhealthy, TerminateUnhealthy, TerminateUnhealthyFails, FinishAttempt,
            BackoffOver, WorkerGuardDrop, MarkRunning, HealthCheck, WorkerPanics
    <2> QED
        BY <2>1, <2>2, <2>3, <2>4, <2>5, <2>6 DEF Next
<1>2. []Inv /\ [][Next]_vars => [][Kept]_vars
    BY <1>1, PTL
<1> QED
    BY <1>2, Invariance, PTL DEF Spec, StopsLoseNothing

\* Late activity of a worker cannot revive a stopped or failed tunnel.
THEOREM NothingRevives == Spec => NoRevival
<1> DEFINE NoRevivalStep ==
        \A t \in Tunnels : state[t] \notin LiveStates /\ state'[t] \in LiveStates
            => op \in {"start", "restart"}
<1>1. Inv /\ [Next]_vars => [NoRevivalStep]_vars
    <2> SUFFICES ASSUME Inv, Next, NEW t \in Tunnels,
                        state[t] \notin LiveStates, state'[t] \in LiveStates
                 PROVE  op \in {"start", "restart"}
        OBVIOUS
    <2>0. TypeOK /\ \A u \in Tunnels : LocalInv(u)
        BY DEF Inv
    <2>1. ASSUME NEW u \in Tunnels, Request(u) PROVE FALSE
        BY <2>1 DEF Request, Start, Restart, Stop, Remove, StopEntries, entryVars
    <2>2. ASSUME NEW u \in Tunnels, RequestStep(u) PROVE op \in {"start", "restart"}
        <3>1. CASE StartSet(u)
            BY <2>0, <3>1 DEF StartSet, LocalInv, RequestInv
        <3>2. CASE StartAdmit(u)
            BY <2>0, <3>2 DEF StartAdmit, LocalInv, RequestInv
        <3>3. CASE \/ StartUnresolved(u) \/ StartAlreadyRunning(u) \/ StartBump(u)
                   \/ StartTerminateFails(u) \/ StartSpawnWorker(u) \/ StopTake(u)
                   \/ StopClear(u)
            BY <3>3 DEF StartUnresolved, StartAlreadyRunning, StartBump,
                StartTerminateFails, StartSpawnWorker, StopTake, StopClear, entryVars
        <3>4. CASE StartSpawnFails(u) \/ StopDone(u) \/ StopFails(u)
            BY <2>0, <3>4 DEF StartSpawnFails, StopDone, StopFails, LiveStates, TypeOK
        <3> QED
            BY <2>2, <3>1, <3>2, <3>3, <3>4 DEF RequestStep
    <2>3. ASSUME NEW h \in HostIds, StopForHost(h) \/ EditHost(h) PROVE FALSE
        BY <2>3 DEF StopForHost, EditHost, SaveHost, HostUpdate, StopEntries, entryVars
    <2>4. ASSUME StopAll PROVE FALSE
        BY <2>4 DEF StopAll, StopEntries, entryVars
    <2>5. ASSUME NEW u \in Tunnels, NEW g \in Generations,
                 MarkStarting(u, g) \/ FinishAttempt(u, g) \/ MarkRunning(u, g)
          PROVE  FALSE
        <3>1. state[u] \in LiveStates
            BY <2>0, <2>5 DEF MarkStarting, FinishAttempt, MarkRunning, IsCurrent,
                LocalInv, EntryInv, Working, LiveStates
        <3>2. state'[t] = state[t] \/ t = u
            BY <2>0, <2>5 DEF MarkStarting, FinishAttempt, MarkRunning, TypeOK
        <3> QED
            BY <3>1, <3>2
    <2>6. ASSUME NEW u \in Tunnels, NEW g \in Generations,
                 \/ WorkerLeaves(u, g) \/ ResolveHost(u, g) \/ SpawnChild(u, g)
                 \/ PollExited(u, g) \/ PollFails(u, g) \/ TakeUnhealthy(u, g)
                 \/ TerminateUnhealthy(u, g) \/ TerminateUnhealthyFails(u, g)
                 \/ WorkerDrops(u, g) \/ BackoffOver(u, g) \/ HealthCheck(u, g) \/ WorkerPanics(u, g)
                 \/ ProcessExits(u, g)
          PROVE  FALSE
        BY <2>6 DEF WorkerLeaves, ResolveHost, SpawnChild, PollExited, PollFails,
            TakeUnhealthy, TerminateUnhealthy, TerminateUnhealthyFails, WorkerDrops,
            BackoffOver, HealthCheck, WorkerPanics, ProcessExits, entryVars
    <2>7. ASSUME NEW u \in Tunnels, NEW g \in Generations, WorkerGuardDrop(u, g)
          PROVE  FALSE
        BY <2>0, <2>7 DEF WorkerGuardDrop, LiveStates, TypeOK
    <2> QED
        BY <2>1, <2>2, <2>3, <2>4, <2>5, <2>6, <2>7 DEF Next, WorkerStep
<1>2. []Inv /\ [][Next]_vars => [][NoRevivalStep]_vars
    BY <1>1, PTL
<1> QED
    BY <1>2, Invariance, PTL DEF Spec, NoRevival

-----------------------------------------------------------------------------
(* The saved profile of an active tunnel.  A change of a saved host looks   *)
(* at the active entries while no request holds the registry mutex, so the  *)
(* invariant must hold within a request too: also for a child the request   *)
(* has taken out and may put back (Engaged).  Nothing is active outside the *)
(* map, or retired, or being cleared; and the previous profile of the one   *)
(* edit in progress is still the saved one, so "unchanged" means unchanged. *)

\* Active, or with a child that the request may put back.
Engaged(t) == IsActive(t) \/ opChild[t] # 0

ProfileInv(t) ==
    /\ t \notin entry => ~IsActive(t)
    /\ retired[t] \/ stage[t] \in {"stopping", "clear"} => ~workerActive[t]
    /\ Engaged(t) => \A h \in Route[Target[t]] : hostProfile[t][h] = hosts[h].saved

EditsInv ==
    \A h, k \in HostIds : \A e \in hosts[h].edits, f \in hosts[k].edits :
        h = k /\ e = f /\ e[1] = hosts[h].saved

\* A request that starts, or moves on without a new profile.
LEMMA RequestProfile ==
    ASSUME Inv, NEW u \in Tunnels, NEW t \in Tunnels, ProfileInv(u),
           Request(t) \/ RequestStep(t)
    PROVE  ProfileInv(u)'
<1>0. TypeOK /\ LocalInv(t) /\ LocalInv(u)
    BY DEF Inv
<1>1. CASE Request(t) \/ StartUnresolved(t) \/ StartAlreadyRunning(t) \/ StartSpawnWorker(t)
    <2>1. /\ UNCHANGED <<entryVars, opChild, hosts>>
          /\ stage'[u] \notin {"stopping", "clear"} \/ stage'[u] = stage[u]
        BY <1>0, <1>1 DEF TypeOK, Request, Start, Restart, Stop, Remove, StopEntries,
            StartUnresolved, StartAlreadyRunning, StartSpawnWorker, Leave
    <2> QED
        BY <2>1 DEF ProfileInv, Engaged, IsActive, entryVars
<1>2. CASE StartBump(t) \/ StartTerminateFails(t)
    BY <1>0, <1>2 DEF TypeOK, StartBump, StartTerminateFails, Leave, ProfileInv, Engaged, IsActive,
        LocalInv, RequestInv, entryVars
<1>3. CASE StartSet(t)
    <2>1. CASE u = t
        <3>1. t \in entry /\ ~retired[t] /\ stage'[t] = "spawn" /\ UNCHANGED <<entry, retired, hosts>>
            BY <1>0, <1>3 DEF StartSet, LocalInv, RequestInv, TypeOK
        <3>2. \A h \in Route[Target[t]] : hostProfile'[t][h] = hosts[h].saved
            BY <1>0, <1>3, TunnelAssumption DEF StartSet, TypeOK
        <3> QED
            BY <2>1, <3>1, <3>2 DEF ProfileInv
    <2>2. CASE u # t
        BY <1>0, <1>3, <2>2 DEF StartSet, TypeOK, ProfileInv, Engaged, IsActive
    <2> QED
        BY <2>1, <2>2
<1>4. CASE StartSpawnFails(t)
    BY <1>0, <1>4 DEF TypeOK, StartSpawnFails, Leave, ProfileInv, Engaged, IsActive
<1>5. CASE StopTake(t)
    BY <1>0, <1>5 DEF TypeOK, StopTake, ProfileInv, Engaged, IsActive, LocalInv, RequestInv
<1>6. CASE StopDone(t)
    BY <1>0, <1>6 DEF TypeOK, StopDone, Leave, ProfileInv, Engaged, IsActive
<1>7. CASE StopFails(t)
    BY <1>0, <1>7 DEF TypeOK, StopFails, Leave, ProfileInv, Engaged, IsActive, LocalInv, RequestInv
<1>8. CASE StopClear(t)
    BY <1>0, <1>8 DEF TypeOK, StopClear, Leave, ProfileInv, Engaged, IsActive, LocalInv, RequestInv
<1>9. CASE StartAdmit(t)
    BY <1>0, <1>9 DEF TypeOK, StartAdmit, DropRetired, Retained, Leave, ProfileInv, Engaged,
        IsActive, LocalInv, EntryInv
<1> QED
    BY <1>1, <1>2, <1>3, <1>4, <1>5, <1>6, <1>7, <1>8, <1>9 DEF RequestStep

\* A worker gives a child only to an entry that is desired, hence engaged.
LEMMA WorkerProfile ==
    ASSUME Inv, NEW u \in Tunnels, NEW t \in Tunnels, NEW g \in Generations, ProfileInv(u),
           \/ WorkerStep(t, g) \/ MarkRunning(t, g) \/ HealthCheck(t, g)
           \/ WorkerPanics(t, g) \/ ProcessExits(t, g)
    PROVE  ProfileInv(u)'
<1>0. TypeOK /\ LocalInv(t) /\ LocalInv(u)
    BY DEF Inv
<1>1. CASE \/ WorkerLeaves(t, g) \/ MarkStarting(t, g) \/ ResolveHost(t, g)
           \/ TerminateUnhealthy(t, g) \/ WorkerDrops(t, g) \/ BackoffOver(t, g) \/ MarkRunning(t, g)
           \/ HealthCheck(t, g) \/ WorkerPanics(t, g) \/ ProcessExits(t, g)
    <2>1. UNCHANGED <<entry, desired, workerActive, retired, child, hostProfile, opVars, hosts>>
        BY <1>1 DEF WorkerLeaves, MarkStarting, ResolveHost, TerminateUnhealthy, WorkerDrops, BackoffOver,
            MarkRunning, HealthCheck, WorkerPanics, ProcessExits, entryVars
    <2> QED
        BY <2>1 DEF ProfileInv, Engaged, IsActive, opVars
<1>2. CASE SpawnChild(t, g) \/ PollExited(t, g) \/ PollFails(t, g) \/ TakeUnhealthy(t, g)
           \/ TerminateUnhealthyFails(t, g)
    <2>1. /\ UNCHANGED <<entry, desired, workerActive, retired, hostProfile, opVars, hosts>>
          /\ \/ UNCHANGED child
             \/ child' = [child EXCEPT ![t] = 0]
             \/ child' = [child EXCEPT ![t] = g] /\ desired[t] /\ t \in entry
        BY <1>0, <1>2 DEF SpawnChild, PollExited, PollFails, TakeUnhealthy, TerminateUnhealthyFails,
            IsCurrent, LocalInv, EntryInv, Working
    <2> QED
        BY <1>0, <2>1 DEF TypeOK, ProfileInv, Engaged, IsActive, opVars
<1>3. CASE FinishAttempt(t, g) \/ WorkerGuardDrop(t, g)
    <2>1. /\ UNCHANGED <<entry, retired, hostProfile, opVars, hosts>>
          /\ \A v \in Tunnels : /\ desired'[v] => desired[v]
                                /\ workerActive'[v] => workerActive[v]
                                /\ child'[v] # 0 => child'[v] = child[v]
        BY <1>0, <1>3 DEF TypeOK, FinishAttempt, WorkerGuardDrop
    <2> QED
        BY <2>1 DEF ProfileInv, Engaged, IsActive, opVars
<1> QED
    BY <1>1, <1>2, <1>3 DEF WorkerStep

\* A request that stops all entries, or those of a host.
LEMMA StopProfile ==
    ASSUME NEW u \in Tunnels, ProfileInv(u), StopAll \/ \E h \in HostIds : StopForHost(h)
    PROVE  ProfileInv(u)'
<1>1. /\ UNCHANGED <<entryVars, opChild, hosts>>
      /\ stage'[u] \notin {"stopping", "clear"}
    BY DEF StopAll, StopForHost, StopEntries
<1> QED
    BY <1>1 DEF ProfileInv, Engaged, IsActive, entryVars

\* save_host: one edit at a time, of the profile that is saved.
LEMMA SaveProfile ==
    ASSUME Inv, EditsInv, \A t \in Tunnels : ProfileInv(t),
           NEW h \in HostIds, NEW next \in Settings, SaveHost(h, next)
    PROVE  EditsInv' /\ \A t \in Tunnels : ProfileInv(t)'
<1>1. /\ \A k \in HostIds : hosts[k].edits = {}
      /\ hosts' = [hosts EXCEPT ![h].edits = hosts[h].edits \cup {<<hosts[h].saved, next>>}]
      /\ UNCHANGED <<entryVars, opVars>>
    BY DEF SaveHost
<1>2. hosts \in [HostIds -> HostRecords]
    BY DEF Inv, TypeOK
<1>3. \A k \in HostIds : /\ hosts'[k].saved = hosts[k].saved
                         /\ hosts'[k].edits = IF k = h THEN {<<hosts[h].saved, next>>} ELSE {}
    BY <1>1, <1>2 DEF HostRecords
<1>4. EditsInv'
    BY <1>3 DEF EditsInv
<1>5. ASSUME NEW t \in Tunnels PROVE ProfileInv(t)'
    BY <1>1, <1>3, TunnelAssumption DEF ProfileInv, Engaged, IsActive, entryVars, opVars
<1> QED
    BY <1>4, <1>5

\* apply_host_update: refused while the host is in use, and then nothing that is
\* active has it on its route; or the settings are the saved ones.
LEMMA UpdateProfile ==
    ASSUME Inv, EditsInv, \A t \in Tunnels : ProfileInv(t), NEW h \in HostIds,
           NEW previous \in Settings, NEW next \in Settings, HostUpdate(h, previous, next)
    PROVE  EditsInv' /\ \A t \in Tunnels : ProfileInv(t)'
<1> DEFINE refused == previous # next /\ InUse(h)
<1>1. /\ op = "none" /\ <<previous, next>> \in hosts[h].edits
      /\ hosts' = [hosts EXCEPT ![h] = [saved |-> IF refused THEN hosts[h].saved ELSE next,
                                        edits |-> hosts[h].edits \ {<<previous, next>>}]]
      /\ UNCHANGED <<entryVars, opVars>>
    BY DEF HostUpdate
<1>2. hosts \in [HostIds -> HostRecords]
    BY DEF Inv, TypeOK
<1>3. previous = hosts[h].saved
    BY <1>1 DEF EditsInv
<1> HIDE DEF refused
<1>4. \A k \in HostIds : /\ hosts'[k].edits \subseteq hosts[k].edits
                         /\ hosts'[k].saved = IF k = h /\ ~refused THEN next ELSE hosts[k].saved
    BY <1>1, <1>2
<1>5. EditsInv'
    <2>1. ASSUME NEW k \in HostIds, NEW e \in hosts'[k].edits PROVE FALSE
        <3>1. e \in hosts[k].edits
            BY <1>4, <2>1
        <3>2. k = h /\ e = <<previous, next>>
            BY <1>1, <2>1, <3>1 DEF EditsInv
        <3> QED
            BY <1>1, <1>2, <2>1, <3>2
    <2> QED
        BY <2>1 DEF EditsInv
<1>6. ASSUME NEW t \in Tunnels, Engaged(t), NEW k \in Route[Target[t]]
      PROVE  hostProfile[t][k] = hosts'[k].saved
    <2>1. opChild[t] = 0 /\ IsActive(t) /\ t \in entry
        BY <1>1, <1>6 DEF Inv, MutexInv, LocalInv, RequestInv, Engaged, ProfileInv
    <2>2. k \in HostIds /\ hostProfile[t][k] = hosts[k].saved
        BY <1>6, TunnelAssumption DEF ProfileInv
    <2>3. k = h => refused \/ next = hosts[h].saved
        BY <1>3, <1>6, <2>1 DEF refused, InUse
    <2> QED
        BY <1>4, <2>2, <2>3
<1>7. ASSUME NEW t \in Tunnels PROVE ProfileInv(t)'
    BY <1>1, <1>6 DEF ProfileInv, Engaged, IsActive, entryVars, opVars
<1> QED
    BY <1>5, <1>7

\* Every step keeps the profiles of the active tunnels saved.
LEMMA NextProfile ==
    Inv /\ EditsInv /\ (\A t \in Tunnels : ProfileInv(t)) /\ [Next]_vars
        => (EditsInv /\ \A t \in Tunnels : ProfileInv(t))'
<1> SUFFICES ASSUME Inv, EditsInv, \A t \in Tunnels : ProfileInv(t), [Next]_vars
             PROVE  EditsInv' /\ \A t \in Tunnels : ProfileInv(t)'
    OBVIOUS
<1>1. CASE \E t \in Tunnels : Request(t) \/ RequestStep(t)
    <2>1. hosts' = hosts
        BY <1>1 DEF Request, Start, Restart, Stop, Remove, StopEntries, RequestStep, StartAdmit,
            StartUnresolved, StartAlreadyRunning, StartBump, StartTerminateFails, StartSet,
            StartSpawnWorker, StartSpawnFails, StopTake, StopDone, StopFails, StopClear
    <2> QED
        BY <1>1, <2>1, RequestProfile DEF EditsInv
<1>2. CASE StopAll \/ \E h \in HostIds : StopForHost(h)
    <2>1. hosts' = hosts
        BY <1>2 DEF StopAll, StopForHost, StopEntries
    <2> QED
        BY <1>2, <2>1, StopProfile DEF EditsInv
<1>3. CASE \E h \in HostIds : EditHost(h)
    BY <1>3, SaveProfile, UpdateProfile DEF EditHost
<1>4. CASE \E t \in Tunnels, g \in Generations :
              \/ WorkerStep(t, g) \/ MarkRunning(t, g) \/ HealthCheck(t, g)
              \/ WorkerPanics(t, g) \/ ProcessExits(t, g)
    <2>1. hosts' = hosts
        BY <1>4 DEF WorkerStep, WorkerLeaves, MarkStarting, ResolveHost, SpawnChild, PollExited,
            PollFails, TakeUnhealthy, TerminateUnhealthy, TerminateUnhealthyFails, WorkerDrops,
            FinishAttempt, BackoffOver, WorkerGuardDrop, MarkRunning, HealthCheck, WorkerPanics, ProcessExits
    <2> QED
        BY <1>4, <2>1, WorkerProfile DEF EditsInv
<1>5. CASE UNCHANGED vars
    BY <1>5 DEF EditsInv, ProfileInv, Engaged, IsActive, vars
<1> QED
    BY <1>1, <1>2, <1>3, <1>4, <1>5 DEF Next

\* The saved connection settings of the hosts on the route of an active tunnel
\* are those it was started with (apply_host_update, api.rs save_host).
THEOREM ProfileStaysSaved == Spec => []ActiveUsesSavedProfile
<1>1. Init => EditsInv /\ \A t \in Tunnels : ProfileInv(t)
    BY DEF Init, EditsInv, ProfileInv, Engaged, IsActive
<1>2. (\A t \in Tunnels : ProfileInv(t)) /\ Inv => ActiveUsesSavedProfile
    BY DEF ProfileInv, Engaged, ActiveUsesSavedProfile, Inv, TypeOK
<1> QED
    BY <1>1, <1>2, NextProfile, Invariance, PTL DEF Spec

=============================================================================
