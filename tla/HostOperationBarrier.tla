------------------------- MODULE HostOperationBarrier -------------------------
(***************************************************************************)
(* The barrier of crates/remotedeck-core/src/host_operation.rs: runtime    *)
(* work takes a lease on a host before it resolves the host's profile, and *)
(* a host deletion retires the host, waits until the leases taken earlier  *)
(* are dropped, and may later restore it.                                  *)
(*                                                                         *)
(* `hosts` is the mutex-protected map.  It is kept as its key set and two  *)
(* total functions that are reset when a key is removed.  `changed` is a   *)
(* tokio Notify, modelled by how wait_idle uses it: a Notified future      *)
(* created before a notify_waiters() call completes even if it was not yet *)
(* awaited when the call was made.                                         *)
(*                                                                         *)
(* The map lock is released before notify_waiters() is called, so dropping *)
(* a lease and restoring a host are two steps each.                        *)
(***************************************************************************)
EXTENDS Naturals, FiniteSets

CONSTANTS
    HostIds,      \* host identifiers
    Operations,   \* tasks that take leases: one lease at a time each
    Deletions     \* tasks that retire a host, wait for idle and may restore

ASSUME BarrierAssumption ==
    /\ IsFiniteSet(Operations)
    /\ Deletions \cap Operations = {}

VARIABLES
    known,        \* keys of hosts
    active,       \* HostOperationState.active, 0 for an absent key
    retired,      \* HostOperationState.retired, FALSE for an absent key
    opState,      \* [Operations -> {"idle", "leased", "notify"}]
    opHost,       \* host of the lease an operation holds or just dropped
    delState,     \* where a deletion is in retire / wait_idle / restore
    delHost,      \* host a deletion works on
    signalled,    \* deletions whose Notified future has been completed
    quiet         \* history: hosts that wait_idle found idle while retired,
                  \* and that have not been restored since

mapVars == <<known, active, retired>>
opVars  == <<opState, opHost>>
delVars == <<delState, delHost>>
vars    == <<known, active, retired, opState, opHost,
             delState, delHost, signalled, quiet>>

OpStates  == {"idle", "leased", "notify"}
DelStates == {"idle", "retired", "registered", "waiting", "drained", "notify"}

\* The operations that hold a lease on h.
Holders(h) == {o \in Operations : opState[o] = "leased" /\ opHost[o] = h}

Init ==
    /\ known = {}
    /\ active = [h \in HostIds |-> 0]
    /\ retired = [h \in HostIds |-> FALSE]
    /\ opState = [o \in Operations |-> "idle"]
    /\ opHost \in [Operations -> HostIds]
    /\ delState = [d \in Deletions |-> "idle"]
    /\ delHost \in [Deletions -> HostIds]
    /\ signalled = {}
    /\ quiet = {}

\* Notify::notify_waiters: completes every Notified future that exists.
NotifyWaiters ==
    signalled' = {d \in Deletions : delState[d] \in {"registered", "waiting"}}

-----------------------------------------------------------------------------
(* Operations that use a host.                                             *)

\* Faulty begin: does not look at the retirement flag.
BeginUnchecked(o, h) ==
    /\ opState[o] = "idle"
    /\ known' = known \cup {h}
    /\ active' = [active EXCEPT ![h] = @ + 1]
    /\ opState' = [opState EXCEPT ![o] = "leased"]
    /\ opHost' = [opHost EXCEPT ![o] = h]
    /\ UNCHANGED <<retired, delVars, signalled, quiet>>

\* begin: refused for a retired host; otherwise one more lease.
Begin(o, h) ==
    /\ opState[o] = "idle"
    /\ ~retired[h]
    /\ known' = known \cup {h}
    /\ active' = [active EXCEPT ![h] = @ + 1]
    /\ opState' = [opState EXCEPT ![o] = "leased"]
    /\ opHost' = [opHost EXCEPT ![o] = h]
    /\ UNCHANGED <<retired, delVars, signalled, quiet>>

\* HostOperationLease::drop up to the release of the map lock.  A missing key
\* is left alone and the count saturates at zero.
DropLease(o) ==
    LET h == opHost[o]
        left == IF active[h] = 0 THEN 0 ELSE active[h] - 1
    IN  /\ opState[o] = "leased"
        /\ opState' = [opState EXCEPT ![o] = "notify"]
        /\ active' = IF h \in known THEN [active EXCEPT ![h] = left] ELSE active
        /\ known' = IF left = 0 /\ ~retired[h] THEN known \ {h} ELSE known
        /\ UNCHANGED <<retired, opHost, delVars, signalled, quiet>>

\* Faulty drop: wakes the waiters only when the entry was removed.
DropNotifyIfRemoved(o) ==
    /\ opState[o] = "notify"
    /\ opState' = [opState EXCEPT ![o] = "idle"]
    /\ IF opHost[o] \in known THEN UNCHANGED signalled ELSE NotifyWaiters
    /\ UNCHANGED <<mapVars, opHost, delVars, quiet>>

\* HostOperationLease::drop, its call of notify_waiters.
DropNotify(o) ==
    /\ opState[o] = "notify"
    /\ opState' = [opState EXCEPT ![o] = "idle"]
    /\ NotifyWaiters
    /\ UNCHANGED <<mapVars, opHost, delVars, quiet>>

-----------------------------------------------------------------------------
(* Deletions.                                                              *)

\* retire.
Retire(d, h) ==
    /\ delState[d] = "idle"
    /\ known' = known \cup {h}
    /\ retired' = [retired EXCEPT ![h] = TRUE]
    /\ delState' = [delState EXCEPT ![d] = "retired"]
    /\ delHost' = [delHost EXCEPT ![d] = h]
    /\ UNCHANGED <<active, opVars, signalled, quiet>>

\* wait_idle: create the Notified future, before the map is inspected.
Register(d) ==
    /\ delState[d] = "retired"
    /\ delState' = [delState EXCEPT ![d] = "registered"]
    /\ signalled' = signalled \ {d}
    /\ UNCHANGED <<mapVars, opVars, delHost, quiet>>

\* wait_idle: return if the host has no lease, otherwise await the future.
CheckIdle(d) ==
    LET h == delHost[d]
    IN  /\ delState[d] = "registered"
        /\ \/ /\ active[h] = 0
              /\ delState' = [delState EXCEPT ![d] = "drained"]
              /\ quiet' = IF retired[h] THEN quiet \cup {h} ELSE quiet
           \/ /\ active[h] # 0
              /\ delState' = [delState EXCEPT ![d] = "waiting"]
              /\ UNCHANGED quiet
        /\ UNCHANGED <<mapVars, opVars, delHost, signalled>>

\* wait_idle: the future completed; go round the loop.
Wake(d) ==
    /\ delState[d] = "waiting"
    /\ d \in signalled
    /\ delState' = [delState EXCEPT ![d] = "retired"]
    /\ UNCHANGED <<mapVars, opVars, delHost, signalled, quiet>>

\* restore up to the release of the map lock.  The callers restore when their
\* bounded wait timed out, which for the transfers may be before wait_idle is
\* entered, or when a later step of the deletion failed.
Restore(d) ==
    LET h == delHost[d]
    IN  /\ delState[d] \in {"retired", "waiting", "drained"}
        /\ delState' = [delState EXCEPT ![d] = "notify"]
        /\ retired' = [retired EXCEPT ![h] = FALSE]
        /\ known' = IF active[h] = 0 THEN known \ {h} ELSE known
        /\ quiet' = quiet \ {h}
        /\ UNCHANGED <<active, opVars, delHost, signalled>>

\* restore, its call of notify_waiters.
RestoreNotify(d) ==
    /\ delState[d] = "notify"
    /\ delState' = [delState EXCEPT ![d] = "idle"]
    /\ NotifyWaiters
    /\ UNCHANGED <<mapVars, opVars, delHost, quiet>>

\* The deletion succeeded: the host stays retired.
Finish(d) ==
    /\ delState[d] = "drained"
    /\ delState' = [delState EXCEPT ![d] = "idle"]
    /\ UNCHANGED <<mapVars, opVars, delHost, signalled, quiet>>

OpNext(o) == (\E h \in HostIds : Begin(o, h)) \/ DropLease(o) \/ DropNotify(o)

WaitStep(d) == Register(d) \/ CheckIdle(d) \/ Wake(d)

DelNext(d) ==
    \/ \E h \in HostIds : Retire(d, h)
    \/ WaitStep(d)
    \/ Restore(d)
    \/ RestoreNotify(d)
    \/ Finish(d)

Next == (\E o \in Operations : OpNext(o)) \/ (\E d \in Deletions : DelNext(d))

(* Fairness: a polled task keeps running, and a lease is held by work of   *)
(* bounded duration.  Nothing is assumed of begin, retire, restore, or of  *)
(* the timeouts of the callers.                                            *)
Fairness ==
    /\ \A o \in Operations : WF_vars(DropLease(o)) /\ WF_vars(DropNotify(o))
    /\ \A d \in Deletions : WF_vars(WaitStep(d)) /\ WF_vars(RestoreNotify(d))

Spec == Init /\ [][Next]_vars /\ Fairness

-----------------------------------------------------------------------------
(* Properties.                                                             *)

\* Every variable of the barrier keeps its type.
TypeOK ==
    /\ known \subseteq HostIds
    /\ active \in [HostIds -> Nat]
    /\ retired \in [HostIds -> BOOLEAN]
    /\ opState \in [Operations -> OpStates]
    /\ opHost \in [Operations -> HostIds]
    /\ delState \in [Deletions -> DelStates]
    /\ delHost \in [Deletions -> HostIds]
    /\ signalled \subseteq Deletions
    /\ quiet \subseteq HostIds

\* The count a deletion inspects is the number of leases that exist, however
\* begins, drops, retirements and restores of several tasks interleave.
CountMatchesLeases ==
    \A h \in HostIds : active[h] = Cardinality(Holders(h))

\* Once wait_idle has returned for a retired host, nobody holds a lease on it
\* until it is restored: the deletion may scan the registry without missing
\* work that is being registered.
QuietUntilRestored ==
    \A h \in quiet : retired[h] /\ Holders(h) = {}

\* The map keeps no entry for a host that is neither in use nor retired.
NoIdleEntries ==
    \A h \in HostIds : h \in known <=> (active[h] > 0 \/ retired[h])

=============================================================================
