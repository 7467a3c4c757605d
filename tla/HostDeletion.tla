------------------------------ MODULE HostDeletion ------------------------------
(***************************************************************************)
(* The deletion of a host (apps/server/src/api.rs, delete_host)            *)
(* and of a tunnel (delete_tunnel) composed with the requests that start   *)
(* work on it.  Deletions run under the configuration mutex, so one is     *)
(* under way at a time; starts do not take that mutex.                     *)
(*                                                                         *)
(* Transfers, terminal sessions and command jobs each own a barrier of     *)
(* HostOperationBarrier.  A key of the barrier is a registry and a host,   *)
(* and the task that waits in a registry bears the registry's name.  The   *)
(* three Notify objects are one here, which can only add spurious wake-ups *)
(* to the loop of wait_idle.                                               *)
(*                                                                         *)
(* The tunnel registry has no barrier.  start_tunnel reads the saved       *)
(* profiles with nothing held; the registry reads the host's again under   *)
(* its mutex `operations`, but not the tunnel's.  Each host has one tunnel *)
(* here, which bears the name of the host.                                 *)
(***************************************************************************)
EXTENDS HostOperationBarrier, Sequences

CONSTANTS
    Hosts,        \* the saved hosts at the start
    Starters      \* concurrent start_tunnel requests

Registries == <<"transfers", "terminals", "commands">>
NoHost == "none"

ASSUME DeletionAssumption ==
    /\ Deletions = {Registries[i] : i \in 1..3}
    /\ HostIds = Deletions \X Hosts
    /\ NoHost \notin Hosts \cup Starters

VARIABLES
    saved,        \* hosts in the saved state
    profiles,     \* tunnel profiles in the saved state
    deleting,     \* StateRepository.deleting_hosts
    work,         \* [Operations -> where the start of a piece of work is]
    cleared,      \* whether the work of the present registry was stopped
    stage,        \* where delete_host or delete_tunnel is, or "idle"
    target,       \* the host, or tunnel, being deleted
    starter,      \* [Starters -> tunnel read by start_tunnel, or NoHost]
    operator,     \* the start that holds TunnelRegistry.operations, or NoHost
    tunnels       \* tunnels that run

hostVars  == <<saved, profiles, deleting>>
stageVars == <<cleared, stage, target>>
linkVars  == <<starter, operator, tunnels>>
allVars   == <<vars, hostVars, work, stageVars, linkVars>>

Following == [transfers |-> "terminals", terminals |-> "commands",
              commands |-> "begin"]

Setup ==
    /\ Init
    /\ saved = Hosts
    /\ profiles = Hosts
    /\ deleting = {}
    /\ work = [o \in Operations |-> "none"]
    /\ cleared = FALSE
    /\ stage = "idle"
    /\ target \in Hosts
    /\ opHost = [o \in Operations |-> <<"transfers", target>>]
    /\ delHost = [d \in Deletions |-> <<d, target>>]
    /\ starter = [s \in Starters |-> NoHost]
    /\ operator = NoHost
    /\ tunnels = {}

Registry(o) == opHost[o][1]
HostOf(o)   == opHost[o][2]
Key(r)      == <<r, target>>

\* StateRepository::host.
Readable(h) == h \in saved \ deleting

-----------------------------------------------------------------------------
(* Work of the three guarded registries.                                   *)

\* A start of a terminal or command takes the lease before it resolves the
\* profile.
StartWork(o, k) ==
    /\ k[1] # "transfers"
    /\ Begin(o, k)
    /\ work[o] = "none"
    /\ work' = [work EXCEPT ![o] = "resolve"]
    /\ UNCHANGED <<hostVars, stageVars, linkVars>>

\* A start of a transfer takes none: its task will.
StartTransfer(o, k) ==
    /\ k[1] = "transfers"
    /\ opState[o] = "idle"
    /\ work[o] = "none"
    /\ opHost' = [opHost EXCEPT ![o] = k]
    /\ work' = [work EXCEPT ![o] = "resolve"]
    /\ UNCHANGED <<mapVars, opState, delVars, signalled, quiet, hostVars, stageVars, linkVars>>

\* current_host_profile: refused for a host that is gone or being deleted.
ResolveWork(o) ==
    /\ work[o] = "resolve"
    /\ work' = [work EXCEPT ![o] = IF Readable(HostOf(o)) THEN "register" ELSE "none"]
    /\ UNCHANGED <<vars, hostVars, stageVars, linkVars>>

\* The session or job runs, or the transfer is queued; that registry refuses a
\* retired host here.
RegisterWork(o) ==
    /\ work[o] = "register"
    /\ work' = [work EXCEPT ![o] =
                   IF Registry(o) # "transfers" THEN "running"
                   ELSE IF retired[opHost[o]] THEN "none" ELSE "queued"]
    /\ UNCHANGED <<vars, hostVars, stageVars, linkVars>>

\* The task of a transfer takes the lease, or fails.
ExecuteTransfer(o) ==
    /\ work[o] = "queued"
    /\ \/ Begin(o, opHost[o]) /\ work' = [work EXCEPT ![o] = "running"]
       \/ retired[opHost[o]] /\ work' = [work EXCEPT ![o] = "none"] /\ UNCHANGED vars
    /\ UNCHANGED <<hostVars, stageVars, linkVars>>

\* Faulty release: the lease is dropped before the work is registered.
EndStartEarly(o) ==
    /\ work[o] # "resolve"
    /\ DropLease(o)
    /\ UNCHANGED <<hostVars, work, stageVars, linkVars>>

\* The request that started the work returns and drops its lease; a transfer
\* holds it to its end.
EndStart(o) ==
    /\ \/ work[o] = "none"
       \/ work[o] = "running" /\ Registry(o) # "transfers"
    /\ DropLease(o)
    /\ UNCHANGED <<hostVars, work, stageVars, linkVars>>

EndStartNotify(o) ==
    /\ DropNotify(o)
    /\ UNCHANGED <<hostVars, work, stageVars, linkVars>>

\* The transfer, session or job ends, or is cancelled.
WorkEnds(o) ==
    /\ work[o] \in {"queued", "running"}
    /\ work' = [work EXCEPT ![o] = "none"]
    /\ UNCHANGED <<vars, hostVars, stageVars, linkVars>>

-----------------------------------------------------------------------------
(* Tunnels.                                                                *)

\* start_tunnel: read the tunnel's profile and its host's.
ReadProfiles(s, h) ==
    /\ starter[s] = NoHost
    /\ h \in profiles
    /\ Readable(h)
    /\ starter' = [starter EXCEPT ![s] = h]
    /\ UNCHANGED <<vars, hostVars, work, stageVars, operator, tunnels>>

\* TunnelRegistry::start: under the mutex, read the host's profile again.
ResolveTunnel(s) ==
    /\ starter[s] # NoHost
    /\ operator = NoHost
    /\ IF Readable(starter[s])
         THEN operator' = s /\ UNCHANGED starter
         ELSE starter' = [starter EXCEPT ![s] = NoHost] /\ UNCHANGED operator
    /\ UNCHANGED <<vars, hostVars, work, stageVars, tunnels>>

\* start_inner with the tunnel's profile as it was read, or its failure.
StartTunnel(s) ==
    /\ operator = s
    /\ tunnels' \in {tunnels, tunnels \cup {starter[s]}}
    /\ operator' = NoHost
    /\ starter' = [starter EXCEPT ![s] = NoHost]
    /\ UNCHANGED <<vars, hostVars, work, stageVars>>

\* stop_tunnel, or the end of the OpenSSH process.
StopTunnel(h) ==
    /\ h \in tunnels
    /\ tunnels' = tunnels \ {h}
    /\ UNCHANGED <<vars, hostVars, work, stageVars, starter, operator>>

\* delete_tunnel: TunnelRegistry::remove, which may fail, and then the store,
\* which may fail as well.
DeleteTunnel(h) ==
    /\ stage = "idle"
    /\ h \in profiles
    /\ target' = h
    /\ stage' = "remove"
    /\ UNCHANGED <<vars, hostVars, work, cleared, linkVars>>

RemoveTunnel ==
    /\ stage = "remove"
    /\ operator = NoHost
    /\ \/ stage' = "forget" /\ tunnels' = tunnels \ {target}
       \/ stage' = "idle" /\ UNCHANGED tunnels
    /\ UNCHANGED <<vars, hostVars, work, cleared, target, starter, operator>>

ForgetTunnel ==
    /\ stage = "forget"
    /\ profiles' \in {profiles, profiles \ {target}}
    /\ stage' = "idle"
    /\ UNCHANGED <<vars, saved, deleting, work, cleared, target, linkVars>>

-----------------------------------------------------------------------------
(* delete_host.                                                            *)

\* ensure_host_deletable accepts the host.
DeleteHost(h) ==
    /\ stage = "idle"
    /\ \A d \in Deletions : delState[d] = "idle"
    /\ Readable(h)
    /\ target' = h
    /\ stage' = "transfers"
    /\ UNCHANGED <<vars, hostVars, work, cleared, linkVars>>

RetireRegistry(r) ==
    /\ stage = r
    /\ Retire(r, Key(r))
    /\ UNCHANGED <<hostVars, work, stageVars, linkVars>>

\* remove_host of the transfers stops the registered work before it waits, the
\* other two wait first.
StopsFirst(r) == r = "transfers"

\* Everything registered for the host is cancelled or closed and has ended.
ClearRegistry(r) ==
    /\ stage = r
    /\ delState[r] = IF StopsFirst(r) THEN "retired" ELSE "drained"
    /\ ~cleared
    /\ cleared' = TRUE
    /\ work' = [o \in Operations |->
                   IF work[o] \in {"queued", "running"} /\ opHost[o] = Key(r)
                   THEN "none" ELSE work[o]]
    /\ UNCHANGED <<vars, hostVars, stage, target, linkVars>>

WaitRegistry(r) ==
    /\ stage = r
    /\ StopsFirst(r) => cleared
    /\ WaitStep(r)
    /\ UNCHANGED <<hostVars, work, stageVars, linkVars>>

\* The registry is quiet: go on with the next one.
RegistryDone(r) ==
    /\ stage = r
    /\ delState[r] = "drained"
    /\ cleared
    /\ cleared' = FALSE
    /\ stage' = Following[r]
    /\ UNCHANGED <<vars, hostVars, work, target, linkVars>>

\* A wait timed out, or something of the registry could not be stopped.
RegistryFails(r) ==
    /\ stage = r
    /\ \/ delState[r] = "waiting"
       \/ delState[r] = IF StopsFirst(r) THEN "retired" ELSE "drained"
    /\ stage' = "restore"
    /\ cleared' = FALSE
    /\ UNCHANGED <<vars, hostVars, work, target, linkVars>>

\* begin_host_deletion.
BeginDeletion ==
    /\ stage = "begin"
    /\ deleting' = deleting \cup {target}
    /\ stage' = "tunnels"
    /\ UNCHANGED <<vars, saved, profiles, work, cleared, target, linkVars>>

\* begin_host_deletion refuses: another host now jumps through this one.
BeginFails ==
    /\ stage = "begin"
    /\ stage' = "restore"
    /\ UNCHANGED <<vars, hostVars, work, cleared, target, linkVars>>

\* stop_for_host and telemetry.remove_host: an error of the first does not
\* keep the second from running, so one step may fail at either.
StopTunnels ==
    /\ stage = "tunnels"
    /\ operator = NoHost
    /\ \/ /\ tunnels' = tunnels \ {target}
          /\ stage' = "telemetry"
       \/ /\ stage' = "abort"
          /\ UNCHANGED tunnels
    /\ UNCHANGED <<vars, hostVars, work, cleared, target, starter, operator>>

\* telemetry.remove_host, awaited.
RemoveTelemetry ==
    /\ stage = "telemetry"
    /\ stage' \in {"finish", "abort"}
    /\ UNCHANGED <<vars, hostVars, work, cleared, target, linkVars>>

\* abort_host_deletion.
AbortDeletion ==
    /\ stage = "abort"
    /\ deleting' = deleting \ {target}
    /\ stage' = "restore"
    /\ UNCHANGED <<vars, saved, profiles, work, cleared, target, linkVars>>

\* Faulty finish: the registries are left retired when the save fails.
FinishWithoutRestore ==
    /\ stage = "finish"
    /\ deleting' = deleting \ {target}
    /\ stage' = "leave"
    /\ \/ saved' = saved \ {target} /\ profiles' = profiles \ {target}
       \/ UNCHANGED <<saved, profiles>>
    /\ UNCHANGED <<vars, work, cleared, target, linkVars>>

\* finish_host_deletion: the save may fail, and the mark goes in both cases.
FinishDeletion ==
    /\ stage = "finish"
    /\ deleting' = deleting \ {target}
    /\ \/ /\ saved' = saved \ {target}
          /\ profiles' = profiles \ {target}
          /\ stage' = "leave"
       \/ /\ stage' = "restore"
          /\ UNCHANGED <<saved, profiles>>
    /\ UNCHANGED <<vars, work, cleared, target, linkVars>>

\* The error paths restore the registries retired so far, the last one first.
RestoreRegistry(i) ==
    /\ stage = "restore"
    /\ \A j \in i + 1..3 : delState[Registries[j]] = "idle"
    /\ \/ Restore(Registries[i])
       \/ RestoreNotify(Registries[i])
    /\ UNCHANGED <<hostVars, work, stageVars, linkVars>>

\* The deletion succeeded: the registries keep the host retired.
LeaveRegistry(r) ==
    /\ stage = "leave"
    /\ Finish(r)
    /\ UNCHANGED <<hostVars, work, stageVars, linkVars>>

\* delete_host returns and the configuration mutex is released.
DeleteHostEnds ==
    /\ stage \in {"restore", "leave"}
    /\ \A d \in Deletions : delState[d] = "idle"
    /\ stage' = "idle"
    /\ UNCHANGED <<vars, hostVars, work, cleared, target, linkVars>>

WorkStep(o) ==
    \/ ResolveWork(o)
    \/ RegisterWork(o)
    \/ ExecuteTransfer(o)
    \/ EndStart(o)
    \/ EndStartNotify(o)

RegistryStep(r) ==
    \/ RetireRegistry(r)
    \/ ClearRegistry(r)
    \/ WaitRegistry(r)
    \/ RegistryDone(r)
    \/ LeaveRegistry(r)

DeleteStep ==
    \/ \E r \in Deletions : RegistryStep(r)
    \/ \E i \in 1..3 : RestoreRegistry(i)
    \/ BeginDeletion
    \/ StopTunnels
    \/ RemoveTelemetry
    \/ AbortDeletion
    \/ FinishDeletion
    \/ DeleteHostEnds
    \/ RemoveTunnel
    \/ ForgetTunnel

Step ==
    \/ \E o \in Operations, k \in HostIds : StartWork(o, k) \/ StartTransfer(o, k)
    \/ \E o \in Operations : WorkStep(o) \/ WorkEnds(o)
    \/ \E s \in Starters, h \in Hosts : ReadProfiles(s, h)
    \/ \E s \in Starters : ResolveTunnel(s) \/ StartTunnel(s)
    \/ \E h \in Hosts : StopTunnel(h) \/ DeleteTunnel(h) \/ DeleteHost(h)
    \/ \E r \in Deletions : RegistryFails(r)
    \/ BeginFails
    \/ DeleteStep

\* A started request goes on, and a deletion goes on: the mutex of the tunnel
\* registry is fair, so it gets it in the end (SF).  The timeouts of the waits
\* are not needed for it to end: they are left without fairness.
Progress ==
    /\ \A o \in Operations : WF_allVars(WorkStep(o))
    /\ WF_allVars(DeleteStep)
    /\ SF_allVars(StopTunnels)
    /\ SF_allVars(RemoveTunnel)
    /\ \A s \in Starters : WF_allVars(StartTunnel(s))

DeletionSpec == Setup /\ [][Step]_allVars /\ Progress

-----------------------------------------------------------------------------
(* Properties.                                                             *)

\* A host that was deleted has no transfer, terminal session, command job or
\* tunnel, whatever starts were under way when delete_host retired it
\* (docs/tunnels.md: "Host deletion stops and retires that host's tunnel entries
\* before persisting their removal").
DeletedHostIsQuiet ==
    /\ \A o \in Operations : work[o] \in {"queued", "running"} => HostOf(o) \in saved
    /\ tunnels \subseteq saved

\* When no deletion is under way, no registry refuses work on a host that is
\* still saved: every error path of delete_host restores what it had retired.
FailedDeletionRestores ==
    stage = "idle" => \A k \in HostIds : retired[k] => k[2] \notin saved

\* A deletion always ends, the last lease is never missed by its waits, and
\* with it the configuration mutex is released.
DeletionEnds == stage # "idle" ~> stage = "idle"

\* docs/tunnels.md: "concurrent starts cannot create invisible forwards".
\* list_tunnels shows the tunnels that have a saved profile.
NoInvisibleForward == stage = "idle" => tunnels \subseteq profiles

=============================================================================
