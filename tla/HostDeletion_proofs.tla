-------------------------- MODULE HostDeletion_proofs --------------------------
(***************************************************************************)
(* Proofs about the host operation barrier and about HostDeletion, which   *)
(* uses it, for any hosts, pieces of work and tunnel starts.               *)
(*                                                                         *)
(* The barrier's own invariant holds in the composition, since each step   *)
(* is one of its steps or changes the host of an operation that holds no   *)
(* lease (BarrierKept).  On top of it, a start that has resolved its host  *)
(* holds a lease, or is refused where it is registered (WorkInv); a        *)
(* registry that delete_host has passed is drained and has no work of the  *)
(* host (StageInv); and a host that is gone stays quiet in every registry. *)
(* Tunnels have no barrier: what counts is that a start under the mutex of *)
(* the registry has seen the mark of the deletion (TunnelInv).             *)
(***************************************************************************)
EXTENDS HostDeletion, FiniteSetTheorems, TLAPS

-----------------------------------------------------------------------------
(***************************************************************************)
(* Safety of the host operation barrier, for every set of hosts, every     *)
(* finite set of operations and every set of deletions.                    *)
(*                                                                         *)
(* CountMatchesLeases is what makes the rest work: the deletion inspects   *)
(* the counter, while the property is about the leases that exist.  The    *)
(* inductive invariant is the type invariant, the counter being exact, and *)
(* NoIdleEntries, which says that a removed entry had nothing to lose, and *)
(* the barrier property stated on the counter.                             *)
(***************************************************************************)

\* The barrier property on the counter instead of the leases.
QuietCount == \A h \in quiet : retired[h] /\ active[h] = 0

\* The inductive invariant of the barrier.
Inv == TypeOK /\ CountMatchesLeases /\ NoIdleEntries /\ QuietCount

\* The leases on a host are finitely many, so their number is a natural.
LEMMA HoldersFinite ==
    \A h : IsFiniteSet(Holders(h)) /\ Cardinality(Holders(h)) \in Nat
BY BarrierAssumption, FS_Subset, FS_CardinalityType DEF Holders

\* Taking a lease on h adds one holder of h and changes no other host.
LEMMA HoldersBegin ==
    ASSUME TypeOK, NEW o \in Operations, NEW h \in HostIds, Begin(o, h)
    PROVE  \A k \in HostIds :
              Cardinality(Holders(k)') = Cardinality(Holders(k)) + (IF k = h THEN 1 ELSE 0)
<1>1. TAKE k \in HostIds
<1>2. CASE k = h
    <2>1. Holders(k)' = Holders(k) \cup {o} /\ o \notin Holders(k)
        BY <1>2 DEF TypeOK, Begin, Holders
    <2> QED
        BY <1>2, <2>1, HoldersFinite, FS_AddElement
<1>3. CASE k # h
    <2>1. Holders(k)' = Holders(k)
        BY <1>3 DEF TypeOK, Begin, Holders
    <2> QED
        BY <1>3, <2>1, HoldersFinite
<1> QED
    BY <1>2, <1>3

\* Dropping a lease removes one holder of its host, which had one.
LEMMA HoldersDrop ==
    ASSUME TypeOK, NEW o \in Operations, DropLease(o)
    PROVE  /\ Cardinality(Holders(opHost[o])) > 0
           /\ \A k \in HostIds :
                Cardinality(Holders(k)')
                    = Cardinality(Holders(k)) - (IF k = opHost[o] THEN 1 ELSE 0)
<1>1. opHost[o] \in HostIds /\ o \in Holders(opHost[o])
    BY DEF TypeOK, DropLease, Holders
<1>2. Cardinality(Holders(opHost[o])) > 0
    BY <1>1, HoldersFinite, FS_EmptySet
<1>3. ASSUME NEW k \in HostIds
      PROVE  Cardinality(Holders(k)')
                = Cardinality(Holders(k)) - (IF k = opHost[o] THEN 1 ELSE 0)
    <2>1. CASE k = opHost[o]
        <3>1. Holders(k)' = Holders(k) \ {o}
            BY <2>1 DEF TypeOK, DropLease, Holders
        <3> QED
            BY <1>1, <2>1, <3>1, HoldersFinite, FS_RemoveElement
    <2>2. CASE k # opHost[o]
        <3>1. Holders(k)' = Holders(k)
            BY <2>2 DEF TypeOK, DropLease, Holders
        <3> QED
            BY <2>2, <3>1, HoldersFinite
    <2> QED
        BY <2>1, <2>2
<1> QED
    BY <1>2, <1>3

\* Initially there are no leases and no entries.
LEMMA InitInv == Init => Inv
<1> SUFFICES ASSUME Init PROVE Inv
    OBVIOUS
<1>1. TypeOK
    BY DEF Init, TypeOK, OpStates, DelStates
<1>2. \A h \in HostIds : Holders(h) = {}
    BY DEF Init, Holders
<1>3. CountMatchesLeases
    BY <1>2, FS_EmptySet DEF Init, CountMatchesLeases
<1>4. NoIdleEntries /\ QuietCount
    BY DEF Init, NoIdleEntries, QuietCount
<1> QED
    BY <1>1, <1>3, <1>4 DEF Inv

\* Every step keeps the types.
LEMMA TypeStep == TypeOK /\ [Next]_vars => TypeOK'
<1> SUFFICES ASSUME TypeOK, [Next]_vars PROVE TypeOK'
    OBVIOUS
<1> USE DEF TypeOK, OpStates, DelStates, mapVars, opVars, delVars, NotifyWaiters
<1>1. ASSUME NEW o \in Operations, NEW h \in HostIds, Begin(o, h) PROVE TypeOK'
    BY <1>1 DEF Begin
<1>2. ASSUME NEW o \in Operations, DropLease(o) PROVE TypeOK'
    BY <1>2 DEF DropLease
<1>3. ASSUME NEW o \in Operations, DropNotify(o) PROVE TypeOK'
    BY <1>3 DEF DropNotify
<1>4. ASSUME NEW d \in Deletions, NEW h \in HostIds, Retire(d, h) PROVE TypeOK'
    BY <1>4 DEF Retire
<1>5. ASSUME NEW d \in Deletions, WaitStep(d) PROVE TypeOK'
    BY <1>5 DEF WaitStep, Register, CheckIdle, Wake
<1>6. ASSUME NEW d \in Deletions, Restore(d) \/ RestoreNotify(d) \/ Finish(d)
      PROVE  TypeOK'
    BY <1>6 DEF Restore, RestoreNotify, Finish
<1>7. CASE UNCHANGED vars
    BY <1>7 DEF vars
<1> QED
    BY <1>1, <1>2, <1>3, <1>4, <1>5, <1>6, <1>7 DEF Next, OpNext, DelNext

\* Every step keeps the inductive invariant.
LEMMA StepInv == Inv /\ [Next]_vars => Inv'
<1> SUFFICES ASSUME Inv, [Next]_vars PROVE Inv'
    OBVIOUS
<1>0. TypeOK'
    BY TypeStep DEF Inv
<1> USE DEF mapVars, opVars, delVars
<1>1. ASSUME NEW o \in Operations, NEW h \in HostIds, Begin(o, h) PROVE Inv'
    <2>1. CountMatchesLeases'
        <3>1. \A k \in HostIds : Cardinality(Holders(k)')
                = Cardinality(Holders(k)) + (IF k = h THEN 1 ELSE 0)
            BY <1>1, HoldersBegin DEF Inv
        <3>2. \A k \in HostIds : active'[k] = active[k] + (IF k = h THEN 1 ELSE 0)
            BY <1>1 DEF Inv, TypeOK, Begin
        <3> QED
            BY <3>1, <3>2 DEF Inv, CountMatchesLeases
    <2>2. NoIdleEntries'
        BY <1>1 DEF Inv, TypeOK, NoIdleEntries, Begin
    <2>3. QuietCount'
        BY <1>1 DEF Inv, TypeOK, QuietCount, Begin
    <2> QED
        BY <1>0, <2>1, <2>2, <2>3 DEF Inv
<1>2. ASSUME NEW o \in Operations, DropLease(o) PROVE Inv'
    <2>1. opHost[o] \in HostIds /\ active[opHost[o]] > 0 /\ opHost[o] \in known
        BY <1>2, HoldersDrop DEF Inv, TypeOK, CountMatchesLeases, NoIdleEntries
    <2>2. CountMatchesLeases'
        <3>1. \A k \in HostIds : Cardinality(Holders(k)')
                = Cardinality(Holders(k)) - (IF k = opHost[o] THEN 1 ELSE 0)
            BY <1>2, HoldersDrop DEF Inv
        <3>2. \A k \in HostIds :
                active'[k] = active[k] - (IF k = opHost[o] THEN 1 ELSE 0)
            BY <1>2, <2>1 DEF Inv, TypeOK, DropLease
        <3> QED
            BY <3>1, <3>2 DEF Inv, CountMatchesLeases
    <2>3. NoIdleEntries'
        BY <1>2, <2>1 DEF Inv, TypeOK, NoIdleEntries, DropLease
    <2>4. QuietCount'
        BY <1>2, <2>1 DEF Inv, TypeOK, QuietCount, DropLease
    <2> QED
        BY <1>0, <2>2, <2>3, <2>4 DEF Inv
<1>3. ASSUME NEW o \in Operations, DropNotify(o) PROVE Inv'
    <2>1. \A h \in HostIds : Holders(h)' = Holders(h)
        BY <1>3 DEF Inv, TypeOK, DropNotify, Holders
    <2> QED
        BY <1>0, <1>3, <2>1
        DEF Inv, TypeOK, DropNotify, CountMatchesLeases, NoIdleEntries, QuietCount
<1>4. ASSUME NEW d \in Deletions, DelNext(d) PROVE Inv'
    <2>1. CountMatchesLeases'
        <3>1. UNCHANGED <<active, opState, opHost>>
            BY <1>4 DEF DelNext, WaitStep, Retire, Register, CheckIdle, Wake,
                        Restore, RestoreNotify, Finish
        <3> QED
            BY <3>1 DEF Inv, CountMatchesLeases, Holders
    <2>2. NoIdleEntries' /\ QuietCount'
        <3>1. ASSUME NEW h \in HostIds, Retire(d, h)
              PROVE  NoIdleEntries' /\ QuietCount'
            BY <3>1 DEF Inv, TypeOK, NoIdleEntries, QuietCount, Retire
        <3>2. CASE CheckIdle(d)
            BY <3>2 DEF Inv, TypeOK, NoIdleEntries, QuietCount, CheckIdle
        <3>3. CASE Restore(d)
            BY <3>3 DEF Inv, TypeOK, NoIdleEntries, QuietCount, Restore
        <3>4. CASE Register(d) \/ Wake(d) \/ RestoreNotify(d) \/ Finish(d)
            BY <3>4 DEF Inv, TypeOK, NoIdleEntries, QuietCount,
                        Register, Wake, RestoreNotify, Finish
        <3> QED
            BY <1>4, <3>1, <3>2, <3>3, <3>4 DEF DelNext, WaitStep
    <2> QED
        BY <1>0, <2>1, <2>2 DEF Inv
<1>5. CASE UNCHANGED vars
    <2>1. \A h \in HostIds : Holders(h)' = Holders(h)
        BY <1>5 DEF vars, Holders
    <2> QED
        BY <1>0, <1>5, <2>1
        DEF vars, Inv, CountMatchesLeases, NoIdleEntries, QuietCount
<1> QED
    BY <1>1, <1>2, <1>3, <1>4, <1>5 DEF Next, OpNext

\* The inductive invariant holds throughout.
THEOREM Invariance == Spec => []Inv
<1>1. Init => Inv
    BY InitInv
<1>2. Inv /\ [Next]_vars => Inv'
    BY StepInv
<1> QED
    BY <1>1, <1>2, PTL DEF Spec

\* HostOperationState.active is the number of HostOperationLease values alive.
THEOREM CountIsExact == Spec => []CountMatchesLeases
<1>1. Inv => CountMatchesLeases
    BY DEF Inv
<1> QED
    BY <1>1, Invariance, PTL

\* A host with the count zero has no lease.
LEMMA QuietHolds == Inv => QuietUntilRestored
<1> SUFFICES ASSUME Inv, NEW h \in quiet PROVE retired[h] /\ Holders(h) = {}
    BY DEF QuietUntilRestored
<1>1. h \in HostIds /\ retired[h] /\ Cardinality(Holders(h)) = 0
    BY DEF Inv, TypeOK, QuietCount, CountMatchesLeases
<1>2. Holders(h) = {}
    BY <1>1, HoldersFinite, FS_EmptySet
<1> QED
    BY <1>1, <1>2

\* After wait_idle returned for a retired host, no lease on it exists until
\* the host is restored.
THEOREM BarrierHolds == Spec => []QuietUntilRestored
BY QuietHolds, Invariance, PTL

-----------------------------------------------------------------------------
(* The deletion, see above.                                                *)

Serving  == {"queued", "running"}
Retiring == {"retired", "registered", "waiting", "drained"}
Marked   == {"tunnels", "telemetry", "finish", "abort"}
Deleting == {"transfers", "terminals", "commands", "begin", "restore", "leave"} \cup Marked

\* delete_host is beyond the registry r and has not begun to restore it.
Passed(r) ==
    \/ stage \in {"begin"} \cup Marked
    \/ r = "transfers" /\ stage \in {"terminals", "commands"}
    \/ r = "terminals" /\ stage = "commands"

\* No work of the target is registered in r.
NoWork(r) == \A o \in Operations : opHost[o] = Key(r) => work[o] \notin Serving

DeletionTypeOK ==
    /\ saved \subseteq Hosts
    /\ profiles \subseteq Hosts
    /\ deleting \subseteq Hosts
    /\ work \in [Operations -> {"none", "resolve", "register"} \cup Serving]
    /\ cleared \in BOOLEAN
    /\ stage \in {"idle", "remove", "forget"} \cup Deleting
    /\ target \in Hosts
    /\ starter \in [Starters -> Hosts \cup {NoHost}]
    /\ operator \in Starters \cup {NoHost}
    /\ tunnels \subseteq Hosts

\* A start of a terminal or command has its lease until it has registered.
WorkInv ==
    /\ \A o \in Operations :
          Registry(o) # "transfers" /\ work[o] \in {"resolve", "register"} => opState[o] = "leased"
    /\ \A o \in Operations : work[o] \in Serving => HostOf(o) \in saved

\* The tasks of delete_host that wait in a registry.
RetireInv ==
    /\ \A d \in Deletions : delState[d] # "idle" => delHost[d] = Key(d) /\ stage \in Deleting
    /\ \A d \in Deletions : delState[d] \in Retiring => retired[Key(d)]
    /\ \A d \in Deletions : delState[d] = "drained" => Key(d) \in quiet
    /\ \A k \in HostIds : retired[k] /\ k[2] \in saved =>
          k[2] = target /\ delState[k[1]] \in Retiring
    /\ \A k \in HostIds : k[2] \notin saved => k \in quiet

\* How far delete_host is.
StageInv ==
    /\ \A d \in Deletions : Passed(d) => delState[d] = "drained" /\ NoWork(d)
    /\ cleared => stage \in Deletions /\ NoWork(stage) /\ delState[stage] \in Retiring
                  /\ (stage = "transfers" \/ delState[stage] = "drained")
    /\ stage \in Deleting \ {"leave"} => target \in saved
    /\ stage = "leave" => target \notin saved
    /\ stage \in Marked => target \in deleting

\* Tunnels run on saved hosts, and no start under the mutex brings the target back.
TunnelInv ==
    /\ tunnels \subseteq saved
    /\ operator # NoHost => starter[operator] \in saved
    /\ stage \in {"telemetry", "finish"} =>
          target \notin tunnels /\ (operator # NoHost => starter[operator] # target)

\* What delete_host adds to the barrier.
ProtocolInv == DeletionTypeOK /\ WorkInv /\ RetireInv /\ StageInv /\ TunnelInv

\* The registries, and the keys of the barrier.
LEMMA Names ==
    /\ Deletions = {"transfers", "terminals", "commands"}
    /\ Registries[1] = "transfers" /\ Registries[2] = "terminals" /\ Registries[3] = "commands"
    /\ \A k \in HostIds : k[1] \in Deletions /\ k[2] \in Hosts /\ k = <<k[1], k[2]>>
    /\ target \in Hosts => \A r \in Deletions : Key(r) \in HostIds /\ Key(r)[1] = r /\ Key(r)[2] = target
<1>1. 1..3 = {1, 2, 3}
    OBVIOUS
<1>2. Deletions = {"transfers", "terminals", "commands"}
    BY <1>1, DeletionAssumption DEF Registries
<1> QED
    BY <1>2, DeletionAssumption DEF Registries, Key

-----------------------------------------------------------------------------
(* The barrier.                                                            *)

\* A transfer that is requested names its host without a lease.
LEMMA TransferKeepsBarrier ==
    ASSUME Inv, NEW o \in Operations, NEW k \in HostIds, StartTransfer(o, k)
    PROVE  Inv'
<1>1. TypeOK'
    BY DEF Inv, TypeOK, StartTransfer, mapVars, delVars
<1>2. \A h \in HostIds : Holders(h)' = Holders(h)
    BY DEF Inv, TypeOK, StartTransfer, Holders
<1> QED
    BY <1>1, <1>2 DEF Inv, StartTransfer, mapVars, delVars,
        CountMatchesLeases, NoIdleEntries, QuietCount

\* Every other step is one of the barrier, or leaves it alone.
LEMMA StepOfBarrier ==
    ASSUME Inv, DeletionTypeOK, Step
    PROVE  [Next]_vars \/ \E o \in Operations, k \in HostIds : StartTransfer(o, k)
<1>1. ASSUME NEW o \in Operations, WorkStep(o) \/ WorkEnds(o) PROVE [Next]_vars
    BY <1>1 DEF Inv, TypeOK, WorkStep, WorkEnds, ResolveWork, RegisterWork, ExecuteTransfer,
        EndStart, EndStartNotify, Next, OpNext
<1>2. ASSUME NEW o \in Operations, NEW k \in HostIds, StartWork(o, k) PROVE [Next]_vars
    BY <1>2 DEF StartWork, Next, OpNext
<1>3. ASSUME NEW r \in Deletions, RegistryStep(r) \/ RegistryFails(r) PROVE [Next]_vars
    BY <1>3, Names DEF DeletionTypeOK, RegistryStep, RegistryFails, RetireRegistry, ClearRegistry,
        WaitRegistry, RegistryDone, LeaveRegistry, Next, DelNext
<1>4. ASSUME NEW i \in 1..3, RestoreRegistry(i) PROVE [Next]_vars
    BY <1>4, DeletionAssumption DEF RestoreRegistry, Next, DelNext
<1>5. ASSUME NEW s \in Starters, NEW h \in Hosts,
             ReadProfiles(s, h) \/ ResolveTunnel(s) \/ StartTunnel(s) PROVE UNCHANGED vars
    BY <1>5 DEF ReadProfiles, ResolveTunnel, StartTunnel
<1>6. ASSUME NEW h \in Hosts, StopTunnel(h) \/ DeleteTunnel(h) \/ DeleteHost(h)
      PROVE UNCHANGED vars
    BY <1>6 DEF StopTunnel, DeleteTunnel, DeleteHost
<1>7. CASE \/ BeginDeletion \/ StopTunnels \/ RemoveTelemetry \/ AbortDeletion \/ FinishDeletion
           \/ DeleteHostEnds \/ RemoveTunnel \/ ForgetTunnel \/ BeginFails
    BY <1>7 DEF BeginDeletion, StopTunnels, RemoveTelemetry, AbortDeletion, FinishDeletion,
        DeleteHostEnds, RemoveTunnel, ForgetTunnel, BeginFails
<1> QED
    BY <1>1, <1>2, <1>3, <1>4, <1>5, <1>6, <1>7 DEF Step, DeleteStep, DeletionTypeOK

\* The invariant of the barrier holds through every step of the composition: those of the
\* other registries leave the barrier alone.
LEMMA BarrierKept == Inv /\ DeletionTypeOK /\ [Step]_allVars => Inv'
<1> SUFFICES ASSUME Inv, DeletionTypeOK, [Step]_allVars PROVE Inv'
    OBVIOUS
<1>1. CASE Step
    BY <1>1, StepOfBarrier, StepInv, TransferKeepsBarrier
<1>2. CASE UNCHANGED allVars
    BY <1>2, StepInv DEF allVars
<1> QED
    BY <1>1, <1>2

-----------------------------------------------------------------------------
(* Initially, and work.                                                    *)

\* Nothing runs, nothing is retired and no deletion is under way.
LEMMA SetupProtocol == Setup => Inv /\ ProtocolInv
<1> SUFFICES ASSUME Setup PROVE Inv /\ ProtocolInv
    OBVIOUS
<1>1. Inv
    BY InitInv DEF Setup
<1>2. DeletionTypeOK
    BY DEF Setup, DeletionTypeOK
<1>3. WorkInv /\ RetireInv
    BY Names DEF Setup, Init, WorkInv, RetireInv, Serving, Retiring, HostOf
<1>4. StageInv /\ TunnelInv
    BY Names DEF Setup, Init, StageInv, TunnelInv, Passed, Deleting, Marked
<1> QED
    BY <1>1, <1>2, <1>3, <1>4 DEF ProtocolInv

\* A host that wait_idle found idle is retired, and no operation holds a lease on it.
LEMMA QuietHost ==
    ASSUME Inv, NEW o \in Operations, opHost[o] \in quiet
    PROVE  retired[opHost[o]] /\ opState[o] # "leased"
<1>1. opHost[o] \in HostIds /\ o \notin Holders(opHost[o]) /\ retired[opHost[o]]
    BY QuietHolds DEF Inv, TypeOK, QuietUntilRestored
<1> QED
    BY <1>1 DEF Holders

\* A start names its host while it has nothing registered there.
LEMMA StartKeeps ==
    ASSUME Inv, ProtocolInv, NEW o \in Operations, NEW k \in HostIds,
           StartWork(o, k) \/ StartTransfer(o, k)
    PROVE  ProtocolInv'
<1> USE DEF Serving, HostOf, Registry
<1>1. /\ work[o] = "none" /\ work' = [work EXCEPT ![o] = "resolve"]
      /\ opHost' = [opHost EXCEPT ![o] = k]
      /\ k[1] # "transfers" => opState' = [opState EXCEPT ![o] = "leased"]
      /\ k[1] = "transfers" => opState' = opState
      /\ UNCHANGED <<retired, delVars, quiet, hostVars, stageVars, linkVars>>
    BY DEF StartWork, StartTransfer, Begin, mapVars
<1>2. DeletionTypeOK'
    BY <1>1 DEF ProtocolInv, DeletionTypeOK, hostVars, stageVars, linkVars
<1>3. WorkInv'
    BY <1>1 DEF ProtocolInv, DeletionTypeOK, WorkInv, Inv, TypeOK, hostVars
<1>4. RetireInv'
    BY <1>1 DEF ProtocolInv, RetireInv, delVars, hostVars, stageVars, Key
<1>5. \A r : NoWork(r) => NoWork(r)'
    BY <1>1 DEF ProtocolInv, DeletionTypeOK, Inv, TypeOK, NoWork, stageVars, Key
<1>6. StageInv'
    BY <1>1, <1>5 DEF ProtocolInv, StageInv, Passed, hostVars, stageVars, delVars
<1>7. TunnelInv'
    BY <1>1 DEF ProtocolInv, TunnelInv, hostVars, stageVars, linkVars
<1> QED
    BY <1>2, <1>3, <1>4, <1>6, <1>7 DEF ProtocolInv

\* Every step of a piece of work leaves delete_host and the tunnels alone, and
\* registers nothing in a registry that delete_host has passed.
LEMMA WorkKeeps ==
    ASSUME Inv, ProtocolInv, NEW o \in Operations, WorkStep(o) \/ WorkEnds(o)
    PROVE  ProtocolInv'
<1> USE DEF Serving, HostOf, Registry
<1>1. UNCHANGED <<retired, delVars, quiet, opHost, hostVars, stageVars, linkVars>>
    <2>1. CASE ExecuteTransfer(o)
        BY <2>1 DEF Inv, TypeOK, ExecuteTransfer, Begin, delVars, vars
    <2> QED
        BY <2>1 DEF WorkStep, WorkEnds, ResolveWork, RegisterWork, EndStart, EndStartNotify,
            DropLease, DropNotify, mapVars, delVars, vars
<1>2. \/ UNCHANGED work
      \/ work' = [work EXCEPT ![o] = "none"]
      \/ /\ work[o] = "resolve" /\ work' = [work EXCEPT ![o] = "register"]
         /\ UNCHANGED opState
      \/ /\ work[o] = "register" /\ Registry(o) # "transfers"
         /\ work' = [work EXCEPT ![o] = "running"]
      \/ /\ work[o] = "register" /\ ~retired[opHost[o]]
         /\ work' = [work EXCEPT ![o] = "queued"]
      \/ work[o] = "queued" /\ work' = [work EXCEPT ![o] = "running"]
    BY DEF ProtocolInv, DeletionTypeOK, WorkStep, WorkEnds, ResolveWork, RegisterWork,
        ExecuteTransfer, EndStart, EndStartNotify, Begin, vars
<1>3. /\ \A q \in Operations \ {o} : opState'[q] = opState[q]
      /\ opState'[o] = opState[o] \/ work'[o] \notin {"resolve", "register"}
         \/ Registry(o) = "transfers" \/ opState[o] = "notify"
    BY DEF ProtocolInv, DeletionTypeOK, Inv, TypeOK, WorkStep, WorkEnds, ResolveWork, RegisterWork,
        ExecuteTransfer, EndStart, EndStartNotify, Begin, DropLease, DropNotify, vars
<1>4. DeletionTypeOK'
    BY <1>1, <1>2 DEF ProtocolInv, DeletionTypeOK, hostVars, stageVars, linkVars
<1>5. work'[o] \in Serving /\ work[o] \notin Serving => opHost[o] \notin quiet
    BY <1>2, QuietHost DEF ProtocolInv, DeletionTypeOK, WorkInv
<1>6. opHost[o] \in HostIds /\ \A q \in Operations \ {o} : work'[q] = work[q]
    BY <1>2 DEF ProtocolInv, DeletionTypeOK, Inv, TypeOK
<1>7. WorkInv'
    <2>1. \A q \in Operations : Registry(q)' # "transfers" /\ work'[q] \in {"resolve", "register"}
                                   => opState'[q] = "leased"
        BY <1>1, <1>2, <1>3 DEF ProtocolInv, DeletionTypeOK, WorkInv
    <2>2. work'[o] \in Serving => opHost[o][2] \in saved
        BY <1>5, <1>6 DEF ProtocolInv, WorkInv, RetireInv
    <2>3. \A q \in Operations : work'[q] \in Serving => HostOf(q)' \in saved'
        BY <1>1, <1>6, <2>2 DEF ProtocolInv, WorkInv, hostVars
    <2> QED
        BY <2>1, <2>3 DEF WorkInv
<1>8. RetireInv'
    BY <1>1 DEF ProtocolInv, RetireInv, delVars, hostVars, stageVars, Key
<1>9. \A r \in Deletions : delState[r] = "drained" /\ NoWork(r) => NoWork(r)'
    <2>1. \A r \in Deletions : delState[r] = "drained" => Key(r) \in quiet
        BY DEF ProtocolInv, RetireInv
    <2> QED
        BY <1>1, <1>5, <1>6, <2>1 DEF NoWork, Key, stageVars
<1>10. cleared => NoWork(stage)'
    <2>1. ASSUME cleared, work'[o] \in Serving, work[o] \notin Serving PROVE opHost[o] # Key(stage)
        <3>1. stage = "transfers" \/ delState[stage] = "drained"
            BY <2>1 DEF ProtocolInv, StageInv
        <3>2. CASE delState[stage] = "drained"
            BY <1>5, <2>1, <3>2 DEF ProtocolInv, StageInv, RetireInv
        <3>3. CASE stage = "transfers"
            <4>1. retired[Key(stage)]
                BY <2>1 DEF ProtocolInv, StageInv, RetireInv
            <4> QED
                BY <1>2, <2>1, <3>3, <4>1 DEF ProtocolInv, DeletionTypeOK, Key
        <3> QED
            BY <3>1, <3>2, <3>3
    <2> QED
        BY <1>1, <1>6, <2>1 DEF ProtocolInv, StageInv, NoWork, Key, stageVars
<1>11. StageInv'
    BY <1>1, <1>9, <1>10 DEF ProtocolInv, StageInv, Passed, hostVars, stageVars, delVars
<1>12. TunnelInv'
    BY <1>1 DEF ProtocolInv, TunnelInv, hostVars, stageVars, linkVars
<1> QED
    BY <1>4, <1>7, <1>8, <1>11, <1>12 DEF ProtocolInv

-----------------------------------------------------------------------------
(* Tunnels.                                                                *)

\* A tunnel that starts or stops, and delete_tunnel: the barrier, the work and
\* the registries are left alone.
LEMMA TunnelKeeps ==
    ASSUME ProtocolInv,
           \/ \E s \in Starters, h \in Hosts : ReadProfiles(s, h)
           \/ \E s \in Starters : ResolveTunnel(s) \/ StartTunnel(s)
           \/ \E h \in Hosts : StopTunnel(h) \/ DeleteTunnel(h)
           \/ RemoveTunnel \/ ForgetTunnel
    PROVE  ProtocolInv'
<1>1. /\ UNCHANGED <<vars, saved, deleting, work, cleared>>
      /\ \/ UNCHANGED <<stage, target>>
         \/ stage = "idle" /\ stage' = "remove"
         \/ stage \in {"remove", "forget"} /\ stage' \in {"forget", "idle"} /\ UNCHANGED target
    BY DEF ReadProfiles, ResolveTunnel, StartTunnel, StopTunnel, DeleteTunnel, RemoveTunnel,
        ForgetTunnel, hostVars, stageVars, linkVars
<1>2. DeletionTypeOK'
    <2>1. CASE \/ \E s \in Starters, h \in Hosts : ReadProfiles(s, h)
               \/ \E s \in Starters : ResolveTunnel(s)
        BY <2>1 DEF ProtocolInv, DeletionTypeOK, ReadProfiles, ResolveTunnel, hostVars, stageVars
    <2>2. ASSUME NEW s \in Starters, StartTunnel(s) PROVE DeletionTypeOK'
        BY <2>2, DeletionAssumption
        DEF ProtocolInv, DeletionTypeOK, TunnelInv, StartTunnel, hostVars, stageVars
    <2>3. CASE \/ \E h \in Hosts : StopTunnel(h) \/ DeleteTunnel(h)
               \/ RemoveTunnel \/ ForgetTunnel
        BY <2>3 DEF ProtocolInv, DeletionTypeOK, StopTunnel, DeleteTunnel, RemoveTunnel,
            ForgetTunnel, hostVars, stageVars, linkVars
    <2> QED
        BY <2>1, <2>2, <2>3
<1>3. WorkInv'
    BY <1>1 DEF ProtocolInv, WorkInv, vars, Registry, HostOf, Serving
<1>4. stage \notin Deleting => \A d \in Deletions : delState[d] = "idle"
    BY DEF ProtocolInv, RetireInv
<1>5. RetireInv'
    <2>1. CASE UNCHANGED <<stage, target>>
        BY <1>1, <2>1 DEF ProtocolInv, RetireInv, vars, Key
    <2>2. CASE stage \notin Deleting /\ stage' \notin Deleting
        BY <1>1, <1>4, <2>2, Names DEF ProtocolInv, RetireInv, vars, Retiring
    <2> QED
        BY <1>1, <2>1, <2>2 DEF Deleting, Marked
<1>6. StageInv'
    <2>1. CASE UNCHANGED <<stage, target>>
        BY <1>1, <2>1 DEF ProtocolInv, StageInv, Passed, NoWork, vars, Key
    <2>2. CASE stage \notin Deleting /\ stage' \notin Deleting
        BY <1>1, <2>2, Names DEF ProtocolInv, StageInv, Passed, Deleting, Marked
    <2> QED
        BY <1>1, <2>1, <2>2 DEF Deleting, Marked
<1>7. TunnelInv'
    <2>1. ASSUME NEW s \in Starters, NEW h \in Hosts, ReadProfiles(s, h) PROVE TunnelInv'
        BY <2>1, DeletionAssumption
        DEF ProtocolInv, DeletionTypeOK, TunnelInv, ReadProfiles, hostVars, stageVars
    <2>2. ASSUME NEW s \in Starters, ResolveTunnel(s) PROVE TunnelInv'
        BY <2>2, DeletionAssumption DEF ProtocolInv, DeletionTypeOK, TunnelInv, StageInv, Marked,
            ResolveTunnel, Readable, hostVars, stageVars
    <2>3. ASSUME NEW s \in Starters, StartTunnel(s) PROVE TunnelInv'
        BY <2>3, DeletionAssumption
        DEF ProtocolInv, DeletionTypeOK, TunnelInv, StartTunnel, hostVars, stageVars
    <2>4. ASSUME NEW h \in Hosts, StopTunnel(h) \/ DeleteTunnel(h) PROVE TunnelInv'
        BY <2>4 DEF ProtocolInv, TunnelInv, StopTunnel, DeleteTunnel, hostVars, stageVars, linkVars
    <2>5. CASE RemoveTunnel \/ ForgetTunnel
        BY <2>5 DEF ProtocolInv, TunnelInv, RemoveTunnel, ForgetTunnel, hostVars, linkVars
    <2> QED
        BY <2>1, <2>2, <2>3, <2>4, <2>5
<1> QED
    BY <1>2, <1>3, <1>5, <1>6, <1>7 DEF ProtocolInv

-----------------------------------------------------------------------------
(* delete_host.                                                            *)

\* A deletion begins with every registry idle.
LEMMA DeleteHostKeeps ==
    ASSUME ProtocolInv, NEW h \in Hosts, DeleteHost(h)
    PROVE  ProtocolInv'
<1>1. /\ stage = "idle" /\ stage' = "transfers" /\ target' = h /\ h \in saved
      /\ \A d \in Deletions : delState[d] = "idle"
      /\ UNCHANGED <<vars, saved, profiles, deleting, work, cleared, linkVars>>
    BY DEF DeleteHost, Readable, hostVars
<1>2. ~cleared /\ ~ \E r \in Deletions : Passed(r)'
    BY <1>1, Names DEF ProtocolInv, StageInv, Passed, Marked
<1>3. DeletionTypeOK' /\ WorkInv' /\ TunnelInv'
    BY <1>1 DEF ProtocolInv, DeletionTypeOK, WorkInv, TunnelInv, vars, linkVars, Deleting,
        Registry, HostOf, Serving
<1>4. RetireInv'
    BY <1>1, Names DEF ProtocolInv, RetireInv, vars, Retiring
<1>5. StageInv'
    BY <1>1, <1>2 DEF ProtocolInv, StageInv, Deleting, Marked
<1> QED
    BY <1>3, <1>4, <1>5 DEF ProtocolInv

\* The steps of delete_host in a registry: only the entry of the registry moves.
LEMMA RegistryKeeps ==
    ASSUME Inv, ProtocolInv, NEW r \in Deletions, RegistryStep(r) \/ RegistryFails(r)
    PROVE  ProtocolInv'
<1>1. CASE RetireRegistry(r)
    <2>1. /\ stage = r /\ delState[r] = "idle"
          /\ delState' = [delState EXCEPT ![r] = "retired"]
          /\ delHost' = [delHost EXCEPT ![r] = Key(r)]
          /\ retired' = [retired EXCEPT ![Key(r)] = TRUE]
          /\ UNCHANGED <<opState, opHost, quiet, hostVars, work, stageVars, linkVars>>
        BY <1>1 DEF RetireRegistry, Retire, opVars
    <2>2. DeletionTypeOK' /\ WorkInv' /\ TunnelInv'
        BY <2>1 DEF ProtocolInv, DeletionTypeOK, WorkInv, TunnelInv, hostVars, stageVars, linkVars,
            Registry, HostOf, Serving
    <2>3. r \in Deleting
        BY Names DEF Deleting
    <2>4. RetireInv'
        BY <2>1, <2>3, Names DEF Inv, TypeOK, ProtocolInv, DeletionTypeOK, RetireInv, Retiring,
            hostVars, stageVars, Key
    <2>5. ~cleared /\ ~Passed(r)
        BY <2>1, Names DEF ProtocolInv, StageInv, Retiring, Passed, Marked
    <2>6. StageInv'
        BY <2>1, <2>5 DEF Inv, TypeOK, ProtocolInv, StageInv, Passed, NoWork, hostVars, stageVars, Key
    <2> QED
        BY <2>2, <2>4, <2>6 DEF ProtocolInv
<1>2. CASE ClearRegistry(r)
    <2>1. /\ stage = r /\ cleared' = TRUE
          /\ delState[r] = IF StopsFirst(r) THEN "retired" ELSE "drained"
          /\ work' = [o \in Operations |->
                        IF work[o] \in Serving /\ opHost[o] = Key(r) THEN "none" ELSE work[o]]
          /\ UNCHANGED <<vars, hostVars, stage, target, linkVars>>
        BY <1>2 DEF ClearRegistry, Serving
    <2>2. DeletionTypeOK' /\ WorkInv' /\ TunnelInv'
        BY <2>1 DEF ProtocolInv, DeletionTypeOK, WorkInv, TunnelInv, vars, hostVars, linkVars,
            Registry, HostOf, Serving
    <2>3. RetireInv'
        BY <2>1 DEF ProtocolInv, RetireInv, vars, hostVars, Key
    <2>4. NoWork(r)' /\ \A q : NoWork(q) => NoWork(q)'
        BY <2>1 DEF NoWork, Serving, vars, Key
    <2>5. StageInv'
        BY <2>1, <2>4 DEF ProtocolInv, StageInv, StopsFirst, Passed, vars, hostVars, Retiring
    <2> QED
        BY <2>2, <2>3, <2>5 DEF ProtocolInv
<1>3. CASE WaitRegistry(r)
    <2>1. /\ stage = r /\ delState[r] \in Retiring \ {"drained"}
          /\ \E s \in Retiring : delState' = [delState EXCEPT ![r] = s]
          /\ delHost' = delHost /\ quiet \subseteq quiet'
          /\ delState'[r] = "drained" /\ retired[delHost[r]] => delHost[r] \in quiet'
          /\ UNCHANGED <<retired, opState, opHost, hostVars, work, stageVars, linkVars>>
        BY <1>3 DEF Inv, TypeOK, WaitRegistry, WaitStep, Register, CheckIdle, Wake, mapVars, opVars,
            Retiring
    <2>2. DeletionTypeOK' /\ WorkInv' /\ TunnelInv'
        BY <2>1 DEF ProtocolInv, DeletionTypeOK, WorkInv, TunnelInv, hostVars, stageVars, linkVars,
            Registry, HostOf, Serving
    <2>3. delHost[r] = Key(r) /\ retired[Key(r)] /\ stage \in Deleting
        BY <2>1 DEF ProtocolInv, RetireInv, Retiring
    <2>4. RetireInv'
        BY <2>1, <2>3 DEF Inv, TypeOK, ProtocolInv, RetireInv, hostVars, stageVars, Key
    <2>5. ~Passed(r) /\ \A q : NoWork(q) => NoWork(q)'
        BY <2>1 DEF ProtocolInv, StageInv, Passed, NoWork, stageVars, Key
    <2>6. StageInv'
        BY <2>1, <2>5 DEF Inv, TypeOK, ProtocolInv, StageInv, Passed, hostVars, stageVars
    <2> QED
        BY <2>2, <2>4, <2>6 DEF ProtocolInv
<1>4. CASE RegistryDone(r)
    <2>1. /\ stage = r /\ delState[r] = "drained" /\ cleared /\ cleared' = FALSE
          /\ stage' = Following[r]
          /\ UNCHANGED <<vars, hostVars, work, target, linkVars>>
        BY <1>4 DEF RegistryDone
    <2>2. /\ r = "transfers" => stage' = "terminals"
          /\ r = "terminals" => stage' = "commands"
          /\ r = "commands" => stage' = "begin"
        BY <2>1 DEF Following
    <2>3. stage \in Deleting \ {"leave"} /\ stage' \in Deleting \ {"leave"} /\ stage' \notin Marked
        BY <2>1, <2>2, Names DEF Deleting, Marked
    <2>4. DeletionTypeOK' /\ WorkInv' /\ TunnelInv'
        BY <2>1, <2>3 DEF ProtocolInv, DeletionTypeOK, WorkInv, TunnelInv, vars, hostVars, linkVars,
            Registry, HostOf, Serving, Marked
    <2>5. RetireInv'
        BY <2>1, <2>3 DEF ProtocolInv, RetireInv, vars, hostVars, Key
    <2>6. NoWork(r) /\ \A q : NoWork(q) => NoWork(q)'
        BY <2>1 DEF ProtocolInv, StageInv, NoWork, vars, Key
    <2>7. \A d \in Deletions : Passed(d)' => d = r \/ Passed(d)
        BY <2>1, <2>2, Names DEF Passed, Marked
    <2>8. StageInv'
        BY <2>1, <2>3, <2>6, <2>7 DEF ProtocolInv, StageInv, vars, hostVars
    <2> QED
        BY <2>4, <2>5, <2>8 DEF ProtocolInv
<1>5. CASE LeaveRegistry(r)
    <2>1. /\ stage = "leave" /\ delState' = [delState EXCEPT ![r] = "idle"]
          /\ UNCHANGED <<retired, opState, opHost, delHost, quiet,
                         hostVars, work, stageVars, linkVars>>
        BY <1>5 DEF LeaveRegistry, Finish, mapVars, opVars
    <2>2. DeletionTypeOK' /\ WorkInv' /\ TunnelInv'
        BY <2>1 DEF ProtocolInv, DeletionTypeOK, WorkInv, TunnelInv, hostVars, stageVars, linkVars,
            Registry, HostOf, Serving
    <2>3. target \notin saved /\ ~cleared /\ ~ \E d \in Deletions : Passed(d)
        BY <2>1, Names DEF ProtocolInv, StageInv, Passed, Marked, Deleting
    <2>4. RetireInv'
        BY <2>1, <2>3 DEF Inv, TypeOK, ProtocolInv, RetireInv, Retiring, hostVars, stageVars, Key
    <2>5. StageInv'
        BY <2>1, <2>3 DEF ProtocolInv, StageInv, Passed, hostVars, stageVars
    <2> QED
        BY <2>2, <2>4, <2>5 DEF ProtocolInv
<1>6. CASE RegistryFails(r)
    <2>1. /\ stage = r /\ stage' = "restore" /\ cleared' = FALSE
          /\ UNCHANGED <<vars, hostVars, work, target, linkVars>>
        BY <1>6 DEF RegistryFails
    <2>2. r \in Deleting \ {"leave"}
        BY Names DEF Deleting
    <2>3. DeletionTypeOK' /\ WorkInv' /\ TunnelInv'
        BY <2>1 DEF ProtocolInv, DeletionTypeOK, WorkInv, TunnelInv, vars, hostVars, linkVars,
            Registry, HostOf, Serving, Deleting
    <2>4. RetireInv' /\ StageInv'
        BY <2>1, <2>2, Names DEF ProtocolInv, RetireInv, StageInv, Passed, Marked, Deleting, vars,
            hostVars, Key
    <2> QED
        BY <2>3, <2>4 DEF ProtocolInv
<1> QED
    BY <1>1, <1>2, <1>3, <1>4, <1>5, <1>6 DEF RegistryStep

\* Between the registries and the save, only the stage and the mark move.
LEMMA MiddleKeeps ==
    ASSUME ProtocolInv, BeginDeletion \/ BeginFails \/ StopTunnels \/ RemoveTelemetry \/ AbortDeletion
    PROVE  ProtocolInv'
<1>1. /\ stage \in Marked \cup {"begin"} /\ stage' \in Marked \cup {"restore"}
      /\ stage' \in Marked => target \in deleting'
      /\ deleting' \in {deleting, deleting \cup {target}, deleting \ {target}}
      /\ UNCHANGED <<vars, saved, profiles, work, cleared, target, starter, operator>>
    BY DEF ProtocolInv, StageInv, BeginDeletion, BeginFails, StopTunnels, RemoveTelemetry,
        AbortDeletion, hostVars, linkVars, Marked
<1>2. DeletionTypeOK'
    BY <1>1 DEF ProtocolInv, DeletionTypeOK, Deleting, Marked, BeginDeletion, BeginFails,
        StopTunnels, RemoveTelemetry, AbortDeletion, hostVars, linkVars
<1>3. WorkInv' /\ RetireInv'
    BY <1>1 DEF ProtocolInv, WorkInv, RetireInv, vars, Registry, HostOf, Serving, Deleting, Key
<1>4. \A r : Passed(r)' => Passed(r)
    BY <1>1, Names DEF Passed, Marked
<1>5. StageInv'
    BY <1>1, <1>4, Names DEF ProtocolInv, StageInv, NoWork, Deleting, Marked, vars, Key
<1>6. TunnelInv'
    BY DEF ProtocolInv, TunnelInv, BeginDeletion, BeginFails, StopTunnels, RemoveTelemetry,
        AbortDeletion, hostVars, linkVars
<1> QED
    BY <1>2, <1>3, <1>5, <1>6 DEF ProtocolInv

\* The save: when the host goes, its key is quiet in each registry, it has no
\* work there, and no start of a tunnel holds the mutex with its profile.
LEMMA FinishKeeps ==
    ASSUME Inv, ProtocolInv, FinishDeletion
    PROVE  ProtocolInv'
<1>1. /\ stage = "finish" /\ stage' \in {"leave", "restore"}
      /\ stage' = "leave" => saved' = saved \ {target}
      /\ stage' = "restore" => saved' = saved
      /\ saved' \subseteq saved /\ profiles' \subseteq profiles /\ deleting' = deleting \ {target}
      /\ UNCHANGED <<vars, work, cleared, target, linkVars>>
    BY DEF FinishDeletion
<1>2. DeletionTypeOK'
    BY <1>1 DEF ProtocolInv, DeletionTypeOK, Deleting, linkVars
<1>3. \A r \in Deletions : delState[r] = "drained" /\ NoWork(r) /\ Key(r) \in quiet
    BY <1>1 DEF ProtocolInv, StageInv, RetireInv, Passed, Marked
<1>4. \A k \in HostIds : k[2] = target => k \in quiet /\ \E r \in Deletions : k = Key(r)
    BY <1>3, Names DEF Key
<1>5. WorkInv'
    <2>1. \A o \in Operations : work[o] \in Serving => HostOf(o) # target
        BY <1>3, <1>4 DEF Inv, TypeOK, NoWork, HostOf
    <2> QED
        BY <1>1, <2>1 DEF ProtocolInv, WorkInv, vars, Registry, HostOf, Serving
<1>6. RetireInv'
    BY <1>1, <1>4 DEF ProtocolInv, RetireInv, vars, Key, Deleting
<1>7. StageInv'
    BY <1>1, Names DEF ProtocolInv, StageInv, Passed, Deleting, Marked
<1>8. TunnelInv'
    BY <1>1 DEF ProtocolInv, TunnelInv, linkVars
<1> QED
    BY <1>2, <1>5, <1>6, <1>7, <1>8 DEF ProtocolInv

\* A restored registry takes work again, while the host is still saved.
LEMMA RestoreKeeps ==
    ASSUME Inv, ProtocolInv, NEW i \in 1..3, RestoreRegistry(i)
    PROVE  ProtocolInv'
<1> DEFINE r == Registries[i]
<1>1. r \in Deletions
    BY DeletionAssumption
<1> HIDE DEF r
<1>2. /\ stage = "restore"
      /\ UNCHANGED <<opState, opHost, delHost, hostVars, work, stageVars, linkVars>>
      /\ \/ /\ delState[r] \in Retiring /\ delState' = [delState EXCEPT ![r] = "notify"]
            /\ retired' = [retired EXCEPT ![delHost[r]] = FALSE]
            /\ quiet' = quiet \ {delHost[r]}
         \/ /\ delState[r] = "notify" /\ delState' = [delState EXCEPT ![r] = "idle"]
            /\ UNCHANGED <<retired, quiet>>
    BY DEF RestoreRegistry, Restore, RestoreNotify, mapVars, opVars, Retiring, r
<1>3. DeletionTypeOK' /\ WorkInv' /\ TunnelInv'
    BY <1>2 DEF ProtocolInv, DeletionTypeOK, WorkInv, TunnelInv, hostVars, stageVars, linkVars,
        Registry, HostOf, Serving
<1>4. target \in saved /\ ~cleared /\ ~ \E d \in Deletions : Passed(d)
    BY <1>2, Names DEF ProtocolInv, StageInv, Passed, Marked, Deleting
<1>5. RetireInv'
    <2>1. delHost[r] = Key(r)
        BY <1>1, <1>2 DEF ProtocolInv, RetireInv, Retiring
    <2>2. \A d \in Deletions : Key(d) \in HostIds /\ (Key(d) = Key(r) => d = r)
        BY <1>1, Names DEF ProtocolInv, DeletionTypeOK
    <2>3. \A k \in HostIds : k[2] = target => k[1] \in Deletions /\ k = Key(k[1])
        BY Names DEF Key
    <2>4. \A k \in HostIds : retired'[k] => retired[k]
        BY <1>2 DEF Inv, TypeOK
    <2>5. \A d \in Deletions \ {r} : delState'[d] = delState[d] /\ retired'[Key(d)] = retired[Key(d)]
        BY <1>1, <1>2, <2>1, <2>2 DEF Inv, TypeOK
    <2>6. delState'[r] \notin Retiring
        BY <1>1, <1>2 DEF Inv, TypeOK, Retiring
    <2>7. \A d \in Deletions : Key(d)' = Key(d)
        BY <1>2 DEF Key, stageVars
    <2>8. \A d \in Deletions : /\ delState'[d] # "idle" => delHost'[d] = Key(d)' /\ stage' \in Deleting
                               /\ delState'[d] \in Retiring => retired'[Key(d)']
        BY <1>2, <2>1, <2>5, <2>6, <2>7 DEF ProtocolInv, RetireInv, Retiring, stageVars
    <2>9. \A d \in Deletions : delState'[d] = "drained" => Key(d)' \in quiet'
        BY <1>2, <2>1, <2>2, <2>5, <2>6, <2>7 DEF ProtocolInv, RetireInv, Retiring
    <2>10. \A k \in HostIds : retired'[k] /\ k[2] \in saved' =>
              k[2] = target' /\ delState'[k[1]] \in Retiring
        <3>1. ASSUME NEW k \in HostIds, retired'[k], k[2] \in saved'
              PROVE  k[2] = target /\ delState[k[1]] \in Retiring /\ k = Key(k[1])
            BY <1>2, <2>3, <2>4, <3>1 DEF ProtocolInv, RetireInv, hostVars
        <3>2. delState[r] \in Retiring => ~retired'[Key(r)]
            BY <1>1, <1>2, <2>1, <2>2 DEF Inv, TypeOK, Retiring
        <3> QED
            BY <1>2, <2>3, <2>5, <3>1, <3>2 DEF stageVars
    <2>11. \A k \in HostIds : k[2] \notin saved' => k \in quiet'
        BY <1>1, <1>2, <1>4, <2>1, Names DEF ProtocolInv, DeletionTypeOK, RetireInv, hostVars
    <2> QED
        BY <2>8, <2>9, <2>10, <2>11 DEF RetireInv
<1>6. StageInv'
    BY <1>2, <1>4 DEF ProtocolInv, StageInv, Passed, hostVars, stageVars
<1> QED
    BY <1>3, <1>5, <1>6 DEF ProtocolInv

\* delete_host returns when no registry is retired for a saved host.
LEMMA EndKeeps ==
    ASSUME ProtocolInv, DeleteHostEnds
    PROVE  ProtocolInv'
<1>1. /\ stage \in {"restore", "leave"} /\ stage' = "idle"
      /\ \A d \in Deletions : delState[d] = "idle"
      /\ UNCHANGED <<vars, hostVars, work, cleared, target, linkVars>>
    BY DEF DeleteHostEnds
<1>2. DeletionTypeOK' /\ WorkInv' /\ TunnelInv'
    BY <1>1 DEF ProtocolInv, DeletionTypeOK, WorkInv, TunnelInv, vars, hostVars, linkVars,
        Registry, HostOf, Serving
<1>3. RetireInv'
    BY <1>1 DEF ProtocolInv, RetireInv, vars, hostVars, Key
<1>4. StageInv'
    BY <1>1, Names DEF ProtocolInv, StageInv, Passed, Deleting, Marked
<1> QED
    BY <1>2, <1>3, <1>4 DEF ProtocolInv

-----------------------------------------------------------------------------
(* Theorems.                                                               *)

\* Every step keeps the invariant of the barrier and that of the deletion.
LEMMA DeletionStep == Inv /\ ProtocolInv /\ [Step]_allVars => (Inv /\ ProtocolInv)'
<1> SUFFICES ASSUME Inv, ProtocolInv, [Step]_allVars PROVE (Inv /\ ProtocolInv)'
    OBVIOUS
<1>1. Inv'
    BY BarrierKept DEF ProtocolInv
<1>2. CASE UNCHANGED allVars
    <2>1. DeletionTypeOK' /\ WorkInv' /\ TunnelInv'
        BY <1>2 DEF ProtocolInv, DeletionTypeOK, WorkInv, TunnelInv, allVars, vars, hostVars,
            stageVars, linkVars, Registry, HostOf
    <2>2. RetireInv' /\ StageInv'
        BY <1>2 DEF ProtocolInv, RetireInv, StageInv, Passed, NoWork, allVars, vars, hostVars,
            stageVars, Key
    <2> QED
        BY <1>1, <2>1, <2>2 DEF ProtocolInv
<1>3. CASE Step
    BY <1>1, <1>3, StartKeeps, WorkKeeps, TunnelKeeps, DeleteHostKeeps, RegistryKeeps, MiddleKeeps,
        FinishKeeps, RestoreKeeps, EndKeeps DEF Step, DeleteStep
<1> QED
    BY <1>2, <1>3

\* The inductive invariant of the composition holds in every reachable state.
LEMMA DeletionInvariance == DeletionSpec => [](Inv /\ ProtocolInv)
BY SetupProtocol, DeletionStep, PTL DEF DeletionSpec

\* In the composition too, nobody holds a lease on a host that wait_idle found
\* idle, until it is restored (host_operation.rs, wait_idle).
THEOREM LeasesStayAway == DeletionSpec => []QuietUntilRestored
BY DeletionInvariance, QuietHolds, PTL

\* A host that delete_host removed from the saved state has no transfer,
\* terminal session, command job or tunnel (api.rs, delete_host).
THEOREM QuietAfterDeletion == DeletionSpec => []DeletedHostIsQuiet
<1>1. ProtocolInv => DeletedHostIsQuiet
    BY DEF ProtocolInv, WorkInv, TunnelInv, DeletedHostIsQuiet, Serving
<1> QED
    BY <1>1, DeletionInvariance, PTL

\* When delete_host has returned, only hosts that are gone are still retired:
\* each error path restored what had been retired (api.rs, delete_host).
THEOREM FailureRestoresEveryRegistry == DeletionSpec => []FailedDeletionRestores
<1>1. ProtocolInv => FailedDeletionRestores
    BY Names DEF ProtocolInv, RetireInv, FailedDeletionRestores, Deleting, Marked, Retiring
<1> QED
    BY <1>1, DeletionInvariance, PTL

=============================================================================
