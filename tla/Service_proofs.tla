---------------------------- MODULE Service_proofs ----------------------------
(***************************************************************************)
(* Proofs about the service process and the state it keeps: Lifecycle, for *)
(* any set of launches and of process identifiers and for every subset of  *)
(* the faults, and Store with Migration, for any documents, drafts,        *)
(* sources, clients and bounds.                                            *)
(*                                                                         *)
(* DescriptorIsTrue and SingleWriter both rest on the mutex: a launch from *)
(* the moment it found the mutex new to the moment it closes its handle is *)
(* alone (MutexInv).  Nobody else replaces or removes the descriptor in    *)
(* between, so what the launch has read of it in RuntimeGuard::drop is     *)
(* still true when it removes the file (DescriptorInv).                    *)
(*                                                                         *)
(* The store is only as sound as every document it may ever read: the one  *)
(* in memory, the one being written, the primary and the backup (DocsInv). *)
(* A change is made of the document in memory, checked, and becomes the    *)
(* one in memory only at the end of its write, so what a step does to      *)
(* routes and to marked hosts is known of the document being written       *)
(* before it takes effect (RunInv).                                        *)
(*                                                                         *)
(* SurvivesRestart needs more, and is proved for any number of failed and  *)
(* interrupted writes and one damage: of the two files, one is what a      *)
(* start should find at every step, and the backup serves for as long as   *)
(* the primary may be damaged (FilesInv).                                  *)
(***************************************************************************)
EXTENDS Lifecycle, Migration, FiniteSetTheorems, TLAPS

-----------------------------------------------------------------------------
(* Lifecycle.                                                              *)

\* The stages of a launch that holds the RuntimeGuard.
Guarded == {"clean", "stale", "open", "publish", "serve", "drain", "drop", "remove", "unlock"}

\* The handles are those of the guards and of launches that found another's mutex;
\* there is one guard at a time.
MutexInv ==
    /\ \A p \in Launches : p \in handles <=> pc[p] \in Guarded \cup {"existing"}
    /\ \A p, q \in Launches : pc[p] \in Guarded /\ pc[q] \in Guarded => p = q

\* Work is admitted from Open to the end of the shutdown.
WorkInv == \A p \in busy : pc[p] \in {"publish", "serve", "drain"} \/ p \in late

\* A descriptor belongs to a launch that will look for it when it ends; one that
\* has looked knows what is there.
DescriptorInv ==
    /\ \A p \in Launches : pc[p] = "serve" => descriptor = p
    /\ \A p \in Launches : descriptor = p =>
          \/ p \in excused
          \/ p \in published /\ pc[p] \in {"serve", "drain", "drop"}
          \/ pc[p] = "remove" /\ seen[p] = p

\* The inductive invariant.
LifecycleInv == TypeOK /\ MutexInv /\ WorkInv /\ DescriptorInv

\* Before any launch nobody has the mutex, and there is no descriptor.
LEMMA LifecycleInitInv == Init => LifecycleInv
BY LifecycleAssumption DEF Init, LifecycleInv, TypeOK, MutexInv, WorkInv, DescriptorInv, Idle, Guarded

\* What the steps of one launch keep: each action changes the stage of p only.
LEMMA ProcessKeepsInv ==
    ASSUME LifecycleInv, NEW p \in Launches, ProcessStep(p)
    PROVE  LifecycleInv'
<1> USE LifecycleAssumption DEF LifecycleInv, TypeOK, MutexInv, WorkInv, DescriptorInv, Idle, Guarded, Goto
<1>1. CASE CloseExisting(p)
    BY <1>1 DEF CloseExisting
<1>2. CASE ReadDescriptor(p)
    BY <1>2 DEF ReadDescriptor
<1>3. CASE Discover(p)
    BY <1>3 DEF Discover, Ends
<1>4. CASE CleanupStale(p)
    BY <1>4 DEF CleanupStale
<1>5. CASE CallAnswered(p) \/ CallFails(p)
    BY <1>5 DEF CallAnswered, CallFails, Ends, Answering
<1>6. CASE Open(p) \/ OpenFails(p)
    BY <1>6 DEF Open, OpenFails
<1>7. CASE Publish(p) \/ PublishFails(p)
    BY <1>7 DEF Publish, PublishFails
<1>8. CASE Stop(p) \/ Drained(p)
    BY <1>8 DEF Stop, Drained
<1>9. CASE DropReads(p)
    BY <1>9 DEF DropReads
<1>10. CASE DropRemoves(p)
    BY <1>10 DEF DropRemoves
<1>11. CASE Unlock(p) \/ Exit(p)
    BY <1>11 DEF Unlock, Exit, Ends
<1> QED
    BY <1>1, <1>2, <1>3, <1>4, <1>5, <1>6, <1>7, <1>8, <1>9, <1>10, <1>11 DEF ProcessStep

\* Every step of a launch, and of the world around it, keeps the invariant.
LEMMA LifecycleNextInv == LifecycleInv /\ [Next]_vars => LifecycleInv'
<1> SUFFICES ASSUME LifecycleInv, [Next]_vars PROVE LifecycleInv'
    OBVIOUS
<1> USE LifecycleAssumption DEF LifecycleInv, TypeOK, MutexInv, WorkInv, DescriptorInv, Idle, Guarded, Goto
<1>1. ASSUME NEW p \in Launches, Acquire(p) PROVE LifecycleInv'
    BY <1>1 DEF Acquire
<1>2. ASSUME NEW p \in Launches, ProcessStep(p) PROVE LifecycleInv'
    BY <1>2, ProcessKeepsInv
<1>3. ASSUME NEW p \in Launches, Work(p) \/ AskStop(p) \/ ServiceFails(p) \/ WorkEnds(p)
      PROVE  LifecycleInv'
    BY <1>3 DEF Work, AskStop, ServiceFails, WorkEnds
<1>4. ASSUME NEW p \in Launches, Crash(p) PROVE LifecycleInv'
    BY <1>4 DEF Crash, Ends, Running
<1>5. ASSUME NEW i \in Pids, Reuse(i) PROVE LifecycleInv'
    BY <1>5 DEF Reuse
<1>6. CASE UNCHANGED vars
    BY <1>6 DEF vars
<1> QED
    BY <1>1, <1>2, <1>3, <1>4, <1>5, <1>6 DEF Next

\* The invariant holds in every reachable state.
LEMMA LifecycleInvariance == Spec => []LifecycleInv
BY LifecycleInitInv, LifecycleNextInv, PTL DEF Spec

\* The variables of the launches keep their types.
THEOREM TypeCorrect == Spec => []TypeOK
<1>1. LifecycleInv => TypeOK
    BY DEF LifecycleInv
<1> QED
    BY <1>1, LifecycleInvariance, PTL

\* RuntimeGuard: a service that serves can be found, and the descriptor of one
\* that has ended remains only after a crash or a failed removal.
THEOREM DescriptorNamesService == Spec => []DescriptorIsTrue
<1>1. LifecycleInv => DescriptorIsTrue
    BY DEF LifecycleInv, TypeOK, DescriptorInv, DescriptorIsTrue, Running, Idle
<1> QED
    BY <1>1, LifecycleInvariance, PTL

\* Launches never work on one data directory at the same time, but for work that
\* outlived every wait of shutdown_server.
THEOREM OneWriter == Spec => []SingleWriter
<1>1. LifecycleInv => SingleWriter
    <2> SUFFICES ASSUME LifecycleInv PROVE Cardinality(busy \ late) <= 1
        BY DEF SingleWriter
    <2>1. \A p, q \in busy \ late : p = q
        BY DEF LifecycleInv, TypeOK, MutexInv, WorkInv, Guarded
    <2>2. CASE busy \ late = {}
        BY <2>2, FS_EmptySet
    <2>3. CASE busy \ late # {}
        <3>1. PICK p : p \in busy \ late
            BY <2>3
        <3>2. busy \ late = {p}
            BY <2>1, <3>1
        <3> QED
            BY <3>2, FS_Singleton
    <2> QED
        BY <2>2, <2>3
<1> QED
    BY <1>1, LifecycleInvariance, PTL

-----------------------------------------------------------------------------
(* Jumps.                                                                  *)

\* Host g goes through host k of the document.
Target(doc, g, k) ==
    /\ k \in HostsOf(doc) /\ k # g /\ doc.hosts[k].jump = NONE
    /\ doc.hosts[g].jump \in {ById(k), ByAlias(doc.hosts[k].alias)}

\* A host that connects directly, or through a host it names.
JumpOK(doc, g) == doc.hosts[g].jump = NONE \/ \E k \in Ids : Target(doc, g, k)

\* The three forms of a reference are told apart, and name one thing each.
LEMMA References1 ==
    /\ \A g, h \in Ids : ById(g) = ById(h) => g = h
    /\ \A a, b : ByAlias(a) = ByAlias(b) => a = b
    /\ \A g, a, e : ById(g) # ByAlias(a) /\ ById(g) # ByEndpoint(e) /\ ByAlias(a) # ByEndpoint(e)
BY DEF ById, ByAlias, ByEndpoint

\* NONE is no reference and no profile.
LEMMA NotNone ==
    /\ \A h \in Ids : ById(h) # NONE
    /\ \A a \in Aliases : ByAlias(a) # NONE
    /\ \A e \in Endpoints : ByEndpoint(e) # NONE
    /\ \A p \in Profiles : p # NONE
BY StoreAssumption DEF References

\* The parts of a document.
LEMMA DocTypes ==
    ASSUME NEW doc \in Documents
    PROVE  /\ doc.hosts \in [Ids -> Profiles \cup {NONE}]
           /\ \A h \in HostsOf(doc) :
                 /\ h \in Ids /\ doc.hosts[h] \in Profiles
                 /\ doc.hosts[h].alias \in Aliases /\ doc.hosts[h].endpoint \in Endpoints
                 /\ doc.hosts[h].jump \in References \cup {NONE}
           /\ doc.records \in SUBSET [kind : Kinds, host : Ids \cup {NONE}, name : Names]
           /\ doc.hashes \in SUBSET Hashes
           /\ doc.settings \in SettingValues \cup {NONE}
           /\ doc.stray \in SUBSET Ids
BY DEF Documents, HostsOf, Profiles

\* What a resolved reference names.
LEMMA RouteByTarget ==
    ASSUME NEW doc \in Documents, ValidDoc(doc), NEW g \in HostsOf(doc), NEW k \in Ids, Target(doc, g, k)
    PROVE  Route(doc, g) = {k} /\ doc.hosts[g].jump # NONE
<1> DEFINE ref == doc.hosts[g].jump
           matches == {h \in HostsOf(doc) : RefersTo(ref, h, doc.hosts[h])}
<1>1. k \in HostsOf(doc) /\ k # g /\ doc.hosts[k].jump = NONE
      /\ (ref = ById(k) \/ ref = ByAlias(doc.hosts[k].alias))
    BY DEF Target
<1>2. \A h \in HostsOf(doc) : doc.hosts[h].alias = doc.hosts[k].alias => h = k
    BY <1>1 DEF ValidDoc
<1>3. \A h \in HostsOf(doc) : RefersTo(ref, h, doc.hosts[h]) <=> h = k
    BY <1>1, <1>2, References1, DocTypes DEF RefersTo
<1>4. matches = {k}
    BY <1>1, <1>3
<1>5. Cardinality(matches) = 1
    BY <1>4, FS_Singleton
<1>6. Resolve(doc, ref) = {k}
    BY <1>4, <1>5 DEF Resolve
<1>7. ref # NONE
    BY <1>1, NotNone, DocTypes
<1> QED
    BY <1>1, <1>6, <1>7 DEF Route

\* What RouteResolves says of a reference in any form.
LEMMA RouteMember ==
    ASSUME NEW doc \in Documents, NEW g \in HostsOf(doc), NEW k \in Route(doc, g)
    PROVE  /\ k \in HostsOf(doc) /\ k # g /\ doc.hosts[k].jump = NONE
           /\ RefersTo(doc.hosts[g].jump, k, doc.hosts[k])
           /\ doc.hosts[g].jump # NONE
BY DEF Route, Resolve

\* A document is sound when every jump names its host by id or by alias; then
\* resolve_proxy_jump finds exactly that host.
LEMMA SoundIff ==
    ASSUME NEW doc \in Documents
    PROVE  Sound(doc) <=> ValidDoc(doc) /\ \A g \in HostsOf(doc) : JumpOK(doc, g)
<1>1. ASSUME Sound(doc), NEW g \in HostsOf(doc)
      PROVE  JumpOK(doc, g)
    <2>1. CASE doc.hosts[g].jump = NONE
        BY <2>1 DEF JumpOK
    <2>2. CASE doc.hosts[g].jump # NONE
        <3>1. PICK k \in Route(doc, g) : TRUE
            BY <1>1, <2>2 DEF Sound, RouteResolves
        <3>2. k \in Ids /\ doc.hosts[k].endpoint \in Endpoints
            BY <3>1, RouteMember, DocTypes
        <3>3. doc.hosts[g].jump # ByEndpoint(doc.hosts[k].endpoint)
            BY <1>1, <3>2 DEF Sound
        <3>4. Target(doc, g, k)
            BY <3>1, <3>3, RouteMember DEF Target, RefersTo
        <3> QED
            BY <3>2, <3>4 DEF JumpOK
    <2> QED
        BY <2>1, <2>2
<1>2. ASSUME ValidDoc(doc), NEW g \in HostsOf(doc), JumpOK(doc, g)
      PROVE  RouteResolves(doc, g) /\ \A e \in Endpoints : doc.hosts[g].jump # ByEndpoint(e)
    <2>1. CASE doc.hosts[g].jump = NONE
        BY <2>1, NotNone DEF RouteResolves
    <2>2. CASE doc.hosts[g].jump # NONE
        <3>1. PICK k \in Ids : Target(doc, g, k)
            BY <1>2, <2>2 DEF JumpOK
        <3>2. Route(doc, g) = {k}
            BY <1>2, <3>1, RouteByTarget
        <3>3. doc.hosts[g].jump \in {ById(k), ByAlias(doc.hosts[k].alias)}
            BY <3>1 DEF Target
        <3> QED
            BY <3>2, <3>3, References1 DEF RouteResolves
    <2> QED
        BY <2>1, <2>2
<1> QED
    BY <1>1, <1>2 DEF Sound

\* A target is unique, and nobody else is referred to.
LEMMA TargetIsUnique ==
    ASSUME NEW doc \in Documents, ValidDoc(doc), NEW g \in HostsOf(doc),
           NEW k \in Ids, Target(doc, g, k), NEW x \in HostsOf(doc),
           RefersTo(doc.hosts[g].jump, x, doc.hosts[x])
    PROVE  x = k
<1>1. k \in HostsOf(doc) /\ doc.hosts[g].jump \in {ById(k), ByAlias(doc.hosts[k].alias)}
    BY DEF Target
<1>2. doc.hosts[x].alias = doc.hosts[k].alias => x = k
    BY <1>1 DEF ValidDoc
<1> QED
    BY <1>1, <1>2, References1, DocTypes DEF RefersTo

\* validate_host_deletion_state in a sound document: no other host goes through x.
LEMMA DeletableIff ==
    ASSUME NEW doc \in Documents, Sound(doc), NEW x \in Ids
    PROVE  Deletable(doc, x) <=>
             x \in HostsOf(doc) /\ \A g \in HostsOf(doc) \ {x} : ~Target(doc, g, x)
<1>1. ValidDoc(doc) /\ \A g \in HostsOf(doc) : JumpOK(doc, g)
    BY SoundIff
<1>2. ASSUME x \in HostsOf(doc), NEW g \in HostsOf(doc) \ {x}
      PROVE  RefersTo(doc.hosts[g].jump, x, doc.hosts[x]) <=> Target(doc, g, x)
    <2>1. ASSUME Target(doc, g, x) PROVE RefersTo(doc.hosts[g].jump, x, doc.hosts[x])
        BY <2>1 DEF Target, RefersTo
    <2>2. ASSUME RefersTo(doc.hosts[g].jump, x, doc.hosts[x]) PROVE Target(doc, g, x)
        <3>1. doc.hosts[g].jump # NONE
            <4>1. /\ doc.hosts[x].alias \in Aliases /\ doc.hosts[x].endpoint \in Endpoints
                BY <1>2, DocTypes
            <4> QED
                BY <2>2, <4>1, NotNone DEF RefersTo
        <3>2. PICK k \in Ids : Target(doc, g, k)
            BY <1>1, <3>1 DEF JumpOK
        <3>3. x = k
            BY <1>1, <1>2, <2>2, <3>2, TargetIsUnique
        <3> QED
            BY <3>2, <3>3
    <2> QED
        BY <2>1, <2>2
<1> QED
    BY <1>2 DEF Deletable, Dependents

-----------------------------------------------------------------------------
(* What a change of the hosts keeps.                                       *)

\* The hosts of S have the same targets in E as in doc.
Keeps(doc, E, S) ==
    \A g \in S :
        /\ doc.hosts[g].jump = NONE => E.hosts[g].jump = NONE
        /\ \A k \in Ids : Target(doc, g, k) => Target(E, g, k)

\* RoutesAreStable for a document and the one that replaces it.
Stable(doc, E) ==
    \A h \in HostsOf(doc) \cap HostsOf(E) :
        \/ Route(E, h) = Route(doc, h)
        \/ E.hosts[h].jump # doc.hosts[h].jump /\ Cardinality(
              {g \in HostsOf(doc) : E.hosts[g] # doc.hosts[g]}) = 1

\* A host with the same targets keeps its route, and gets no other target.
LEMMA KeptHosts ==
    ASSUME NEW doc \in Documents, Sound(doc), NEW E \in Documents, ValidDoc(E),
           NEW S, S \subseteq HostsOf(doc) \cap HostsOf(E), Keeps(doc, E, S)
    PROVE  \A g \in S :
              /\ JumpOK(E, g)
              /\ Route(E, g) = Route(doc, g)
              /\ \A x \in Ids : Target(E, g, x) => Target(doc, g, x)
<1> TAKE g \in S
<1>1. g \in HostsOf(doc) /\ g \in HostsOf(E)
    OBVIOUS
<1>2. ValidDoc(doc) /\ JumpOK(doc, g)
    BY <1>1, SoundIff
<1>3. CASE doc.hosts[g].jump = NONE
    <2>1. E.hosts[g].jump = NONE
        BY <1>3 DEF Keeps
    <2>2. \A x \in Ids : ~Target(E, g, x)
        <3> SUFFICES ASSUME NEW x \in Ids, Target(E, g, x) PROVE FALSE
            OBVIOUS
        <3>1. Route(E, g) = {x} /\ E.hosts[g].jump # NONE
            BY <1>1, RouteByTarget
        <3> QED
            BY <2>1, <3>1
    <2> QED
        BY <1>3, <2>1, <2>2 DEF JumpOK, Route
<1>4. CASE doc.hosts[g].jump # NONE
    <2>1. PICK k \in Ids : Target(doc, g, k)
        BY <1>2, <1>4 DEF JumpOK
    <2>2. Target(E, g, k)
        BY <2>1 DEF Keeps
    <2>3. Route(doc, g) = {k} /\ Route(E, g) = {k}
        BY <1>1, <1>2, <2>1, <2>2, RouteByTarget
    <2>4. ASSUME NEW x \in Ids, Target(E, g, x) PROVE x = k
        <3>1. Route(E, g) = {x}
            BY <1>1, <2>4, RouteByTarget
        <3> QED
            BY <2>3, <3>1
    <2> QED
        BY <2>1, <2>2, <2>3, <2>4 DEF JumpOK
<1> QED
    BY <1>3, <1>4

\* A change that keeps every host it does not remove or add.
LEMMA Kept ==
    ASSUME NEW doc \in Documents, Sound(doc), NEW E \in Documents, ValidDoc(E),
           Keeps(doc, E, HostsOf(doc) \cap HostsOf(E)),
           \A g \in HostsOf(E) \ HostsOf(doc) : JumpOK(E, g)
    PROVE  Sound(E) /\ Stable(doc, E)
<1>1. \A g \in HostsOf(doc) \cap HostsOf(E) : JumpOK(E, g) /\ Route(E, g) = Route(doc, g)
    BY KeptHosts
<1>2. \A g \in HostsOf(E) : JumpOK(E, g)
    BY <1>1
<1> QED
    BY <1>1, <1>2, SoundIff DEF Stable

\* Records, settings, hashes.
LEMMA SameHosts ==
    ASSUME NEW doc \in Documents, Sound(doc), NEW E \in Documents, ValidDoc(E),
           E.hosts = doc.hosts
    PROVE  /\ Sound(E) /\ Stable(doc, E) /\ HostsOf(E) = HostsOf(doc)
           /\ \A h \in Ids : Deletable(doc, h) <=> Deletable(E, h)
<1>1. HostsOf(E) = HostsOf(doc)
    BY DEF HostsOf
<1>2. \A g, k : Target(doc, g, k) <=> Target(E, g, k)
    BY <1>1 DEF Target
<1>3. Keeps(doc, E, HostsOf(doc) \cap HostsOf(E))
    BY <1>2 DEF Keeps
<1>4. Sound(E) /\ Stable(doc, E)
    BY <1>1, <1>3, Kept
<1>5. \A h \in Ids : Deletable(doc, h) <=> Deletable(E, h)
    BY <1>1, <1>2, <1>4, DeletableIff
<1> QED
    BY <1>1, <1>4, <1>5

\* delete_host_locked: nobody goes through the host that is deleted.
LEMMA WithoutHostKeeps ==
    ASSUME NEW doc \in Documents, Sound(doc), NEW h \in Ids, Deletable(doc, h),
           ValidDoc(WithoutHost(doc, h))
    PROVE  /\ WithoutHost(doc, h) \in Documents
           /\ HostsOf(WithoutHost(doc, h)) = HostsOf(doc) \ {h}
           /\ Sound(WithoutHost(doc, h)) /\ Stable(doc, WithoutHost(doc, h))
           /\ \A x \in Ids \ {h} : Deletable(doc, x) => Deletable(WithoutHost(doc, h), x)
<1> DEFINE E == WithoutHost(doc, h)
<1>1. E \in Documents
    BY DEF WithoutHost, Documents
<1>2. E.hosts = [doc.hosts EXCEPT ![h] = NONE]
    BY DEF WithoutHost, Documents
<1>3. HostsOf(E) = HostsOf(doc) \ {h} /\ \A g \in HostsOf(E) : E.hosts[g] = doc.hosts[g]
    BY <1>2, DocTypes DEF HostsOf
<1>4. \A g \in HostsOf(doc) \ {h} : ~Target(doc, g, h)
    BY DeletableIff
<1> HIDE DEF E
<1>5. Keeps(doc, E, HostsOf(doc) \cap HostsOf(E))
    <2>1. ASSUME NEW g \in HostsOf(E), NEW k \in Ids, Target(doc, g, k) PROVE Target(E, g, k)
        <3>1. k # h
            BY <1>3, <1>4, <2>1
        <3>2. k \in HostsOf(E) /\ k # g /\ doc.hosts[k].jump = NONE
              /\ doc.hosts[g].jump \in {ById(k), ByAlias(doc.hosts[k].alias)}
            BY <1>3, <2>1, <3>1 DEF Target
        <3> QED
            BY <1>3, <3>2 DEF Target
    <2> QED
        BY <1>3, <2>1 DEF Keeps
<1>6. Sound(E) /\ Stable(doc, E)
    BY <1>1, <1>3, <1>5, Kept DEF E
<1>7. ASSUME NEW x \in Ids \ {h}, Deletable(doc, x) PROVE Deletable(E, x)
    <2>1. x \in HostsOf(doc) /\ \A g \in HostsOf(doc) \ {x} : ~Target(doc, g, x)
        BY <1>7, DeletableIff
    <2>2. \A g \in HostsOf(E) : Target(E, g, x) => Target(doc, g, x)
        BY <1>1, <1>3, <1>5, <1>6, KeptHosts DEF Sound
    <2> QED
        BY <1>1, <1>3, <1>6, <2>1, <2>2, DeletableIff
<1> QED
    BY <1>1, <1>3, <1>6, <1>7 DEF E

-----------------------------------------------------------------------------
(* apply_host_update.                                                      *)

DraftOf(h, profile) ==
    [id |-> h, alias |-> profile.alias, endpoint |-> profile.endpoint, jump |-> profile.jump]

\* A resolved jump is stored as the id of a direct host.
LEMMA NormalizedIs ==
    ASSUME NEW doc \in Documents, NEW h \in HostsOf(doc), RouteResolves(doc, h)
    PROVE  /\ NormalizedProfile(doc, h) \in Profiles
           /\ NormalizedProfile(doc, h).alias = doc.hosts[h].alias
           /\ NormalizedProfile(doc, h).endpoint = doc.hosts[h].endpoint
           /\ doc.hosts[h].jump = NONE => NormalizedProfile(doc, h).jump = NONE
           /\ doc.hosts[h].jump # NONE =>
                 \E j \in Ids : /\ NormalizedProfile(doc, h).jump = ById(j)
                                /\ j \in HostsOf(doc) /\ j # h /\ doc.hosts[j].jump = NONE
<1> DEFINE p == NormalizedProfile(doc, h)
<1>1. /\ h \in Ids /\ doc.hosts[h] \in Profiles
      /\ doc.hosts[h].alias \in Aliases /\ doc.hosts[h].endpoint \in Endpoints
      /\ doc.hosts[h] = [alias |-> doc.hosts[h].alias, endpoint |-> doc.hosts[h].endpoint,
                         jump |-> doc.hosts[h].jump]
    BY DocTypes DEF Profiles
<1>2. CASE doc.hosts[h].jump = NONE
    BY <1>1, <1>2 DEF NormalizedProfile
<1>3. CASE doc.hosts[h].jump # NONE
    <2> DEFINE j == CHOOSE i \in Route(doc, h) : TRUE
    <2>1. j \in Route(doc, h)
        BY <1>3 DEF RouteResolves
    <2>2. j \in HostsOf(doc) /\ j # h /\ doc.hosts[j].jump = NONE
        BY <2>1, RouteMember
    <2>3. p = [doc.hosts[h] EXCEPT !.jump = ById(j)]
        BY <1>3 DEF NormalizedProfile
    <2>4. j \in Ids /\ ById(j) \in References
        BY <2>2 DEF HostsOf, References
    <2> HIDE DEF j
    <2>5. p = [alias |-> doc.hosts[h].alias, endpoint |-> doc.hosts[h].endpoint, jump |-> ById(j)]
        BY <1>1, <2>3
    <2> HIDE DEF p
    <2>6. p \in Profiles /\ p.alias = doc.hosts[h].alias /\ p.endpoint = doc.hosts[h].endpoint
          /\ p.jump = ById(j)
        BY <1>1, <2>4, <2>5 DEF Profiles
    <2> QED
        BY <1>3, <2>2, <2>4, <2>6 DEF p
<1> QED
    BY <1>2, <1>3

\* The profiles after a rename has been carried into the references.
LEMMA DraftedIs ==
    ASSUME NEW doc \in Documents, NEW h \in Ids, NEW profile \in Profiles
    PROVE  LET D == Drafted(doc, DraftOf(h, profile))
               old == doc.hosts[h].alias
               Renamed(g) == /\ h \in HostsOf(doc) /\ g \in HostsOf(doc) \cup {h}
                             /\ (IF g = h THEN profile ELSE doc.hosts[g]).jump = ByAlias(old)
                             /\ old # profile.alias
           IN  /\ D \in Documents
               /\ HostsOf(D) = HostsOf(doc) \cup {h}
               /\ \A g \in HostsOf(doc) \cup {h} :
                     D.hosts[g] = LET q == IF g = h THEN profile ELSE doc.hosts[g]
                                  IN  IF Renamed(g) THEN [q EXCEPT !.jump = ById(h)] ELSE q
<1> DEFINE W == WithDraft(doc, DraftOf(h, profile))
           D == Drafted(doc, DraftOf(h, profile))
<1>1. profile = [alias |-> profile.alias, endpoint |-> profile.endpoint, jump |-> profile.jump]
      /\ profile.alias \in Aliases /\ profile.endpoint \in Endpoints /\ profile # NONE
    BY NotNone DEF Profiles
<1>2. W = [doc EXCEPT !.hosts[h] = profile]
    BY <1>1 DEF WithDraft, ProfileOf, DraftOf
<1>3. W \in Documents /\ W.hosts = [doc.hosts EXCEPT ![h] = profile]
    BY <1>2 DEF Documents
<1>4. /\ HostsOf(W) = HostsOf(doc) \cup {h}
      /\ \A g \in Ids : W.hosts[g] = IF g = h THEN profile ELSE doc.hosts[g]
    BY <1>1, <1>3, DocTypes DEF HostsOf
<1>5. CASE h \notin HostsOf(doc)
    <2>1. D = W
        BY <1>5 DEF Drafted, DraftOf
    <2>2. \A g \in HostsOf(W) : g \in Ids
        BY DEF HostsOf
    <2> QED
        BY <1>3, <1>4, <1>5, <2>1, <2>2
<1>6. CASE h \in HostsOf(doc)
    <2> DEFINE old == doc.hosts[h].alias
               Renamed(g) == g \in HostsOf(W) /\ W.hosts[g].jump = ByAlias(old) /\ old # W.hosts[h].alias
               Hosts == [g \in Ids |-> IF Renamed(g) THEN [W.hosts[g] EXCEPT !.jump = ById(h)]
                                       ELSE W.hosts[g]]
    <2>1. D = [W EXCEPT !.hosts = Hosts]
        BY <1>6 DEF Drafted, DraftOf, Retargeted
    <2>2. ASSUME NEW g \in HostsOf(W)
          PROVE  [W.hosts[g] EXCEPT !.jump = ById(h)] \in Profiles
        <3>1. W.hosts[g] \in Profiles
            BY <1>3, DocTypes
        <3>2. ById(h) \in References
            BY DEF References
        <3> QED
            BY <3>1, <3>2 DEF Profiles
    <2>3. Hosts \in [Ids -> Profiles \cup {NONE}]
        BY <1>3, <2>2, DocTypes
    <2>4. HostsOf(W) = {g \in Ids : W.hosts[g] # NONE}
        BY DEF HostsOf
    <2>5. {g \in Ids : Hosts[g] # NONE} = HostsOf(W)
        BY <2>2, <2>4, NotNone
    <2>6. D \in Documents /\ D.hosts = Hosts
        <3> HIDE DEF Hosts
        <3> QED
            BY <1>3, <2>1, <2>3 DEF Documents
    <2>7. HostsOf(D) = HostsOf(W)
        BY <2>5, <2>6 DEF HostsOf
    <2> QED
        BY <1>4, <1>6, <2>4, <2>6, <2>7
<1> QED
    BY <1>5, <1>6

\* apply_host_update, when it is accepted: the references by an old alias follow the
\* rename, so every other host keeps its target, and a host that gets a jump is nobody's.
LEMMA HostUpdatedKeeps ==
    ASSUME NEW doc \in Documents, Sound(doc), NEW h \in Ids, NEW profile \in Profiles,
           HostUpdateAccepted(doc, DraftOf(h, profile)),
           ValidDoc(HostUpdated(doc, DraftOf(h, profile)))
    PROVE  LET E == HostUpdated(doc, DraftOf(h, profile))
           IN  /\ E \in Documents
               /\ HostsOf(E) = HostsOf(doc) \cup {h}
               /\ Sound(E) /\ Stable(doc, E)
               /\ \A x \in Ids \ {h} : (Deletable(doc, x) /\ x \notin Route(E, h)) => Deletable(E, x)
<1> DEFINE D == Drafted(doc, DraftOf(h, profile))
           E == HostUpdated(doc, DraftOf(h, profile))
           old == doc.hosts[h].alias
           Renamed(g) == /\ h \in HostsOf(doc) /\ g \in HostsOf(doc) \cup {h}
                         /\ (IF g = h THEN profile ELSE doc.hosts[g]).jump = ByAlias(old)
                         /\ old # profile.alias
<1>1. /\ D \in Documents
      /\ HostsOf(D) = HostsOf(doc) \cup {h}
      /\ \A g \in HostsOf(doc) \cup {h} :
            D.hosts[g] = LET q == IF g = h THEN profile ELSE doc.hosts[g]
                         IN  IF Renamed(g) THEN [q EXCEPT !.jump = ById(h)] ELSE q
    BY DraftedIs
<1>2. RouteResolves(D, h) /\ RoleValid(E, h) /\ E = Normalized(D, h)
    BY DEF HostUpdateAccepted, HostUpdated, DraftOf
<1>3. E = [D EXCEPT !.hosts[h] = NormalizedProfile(D, h)]
    BY <1>2 DEF Normalized
<1> HIDE DEF D, E
<1>4. h \in HostsOf(D) /\ NormalizedProfile(D, h) \in Profiles
    BY <1>1, <1>2, NormalizedIs
<1>5. E \in Documents /\ E.hosts = [D.hosts EXCEPT ![h] = NormalizedProfile(D, h)]
    BY <1>1, <1>3, <1>4 DEF Documents
<1>6. HostsOf(E) = HostsOf(doc) \cup {h}
    <2>1. D.hosts \in [Ids -> Profiles \cup {NONE}]
        BY <1>1, DocTypes
    <2>2. HostsOf(E) = HostsOf(D)
        BY <1>4, <1>5, <2>1, NotNone DEF HostsOf
    <2> QED
        BY <1>1, <2>2
\* Every other host keeps its profile, or the reference by the old alias becomes the id.
<1>7. ASSUME NEW g \in HostsOf(doc), g # h
      PROVE  /\ g \in HostsOf(E)
             /\ E.hosts[g].alias = doc.hosts[g].alias
             /\ ~Renamed(g) => E.hosts[g] = doc.hosts[g]
             /\ Renamed(g) => E.hosts[g].jump = ById(h)
    <2>1. E.hosts[g] = D.hosts[g]
        BY <1>1, <1>5, <1>7, DocTypes
    <2>2. D.hosts[g] = IF Renamed(g) THEN [doc.hosts[g] EXCEPT !.jump = ById(h)] ELSE doc.hosts[g]
        BY <1>1, <1>7
    <2>3. doc.hosts[g] = [alias |-> doc.hosts[g].alias, endpoint |-> doc.hosts[g].endpoint,
                          jump |-> doc.hosts[g].jump]
        BY DocTypes DEF Profiles
    <2> QED
        BY <1>6, <2>1, <2>2, <2>3
\* The host itself.
<1>8. E.hosts[h].alias = profile.alias
    <2>1. D.hosts[h] = IF Renamed(h) THEN [profile EXCEPT !.jump = ById(h)] ELSE profile
        BY <1>1
    <2>2. D.hosts[h].alias = profile.alias
        BY <2>1 DEF Profiles
    <2>3. E.hosts[h] = NormalizedProfile(D, h)
        BY <1>1, <1>5, DocTypes
    <2> QED
        BY <1>1, <1>2, <2>2, <2>3, NormalizedIs
<1>9. \/ E.hosts[h].jump = NONE
      \/ \E j \in Ids : E.hosts[h].jump = ById(j) /\ Target(E, h, j)
    <2>1. E.hosts[h] = NormalizedProfile(D, h)
        BY <1>1, <1>5, DocTypes
    <2>2. CASE D.hosts[h].jump = NONE
        BY <1>1, <1>2, <2>1, <2>2, NormalizedIs
    <2>3. CASE D.hosts[h].jump # NONE
        <3>1. PICK j \in Ids : /\ NormalizedProfile(D, h).jump = ById(j)
                               /\ j \in HostsOf(D) /\ j # h /\ D.hosts[j].jump = NONE
            BY <1>1, <1>2, <2>3, NormalizedIs
        <3>2. E.hosts[j] = D.hosts[j]
            BY <1>1, <1>5, <3>1, DocTypes
        <3>3. Target(E, h, j)
            BY <1>1, <1>6, <2>1, <3>1, <3>2 DEF Target
        <3> QED
            BY <2>1, <3>1, <3>3
    <2> QED
        BY <2>2, <2>3
<1>10. ValidDoc(doc) /\ (\A g \in HostsOf(doc) : JumpOK(doc, g)) /\ ValidDoc(E)
    BY SoundIff DEF E
\* Only a host that went through h is retargeted, and h is still direct.
<1>11. ASSUME NEW g \in HostsOf(doc), g # h, Renamed(g)
       PROVE  Target(doc, g, h)
    <2>1. doc.hosts[g].jump = ByAlias(old) /\ h \in HostsOf(doc)
        BY <1>11
    <2>2. doc.hosts[g].jump # NONE
        BY <2>1, DocTypes, NotNone
    <2>3. PICK k \in Ids : Target(doc, g, k)
        BY <1>10, <2>2 DEF JumpOK
    <2>4. RefersTo(doc.hosts[g].jump, h, doc.hosts[h])
        BY <2>1 DEF RefersTo
    <2>5. h = k
        BY <1>10, <2>1, <2>3, <2>4, TargetIsUnique
    <2> QED
        BY <2>3, <2>5
<1>12. ASSUME NEW g \in HostsOf(doc), g # h, Target(doc, g, h)
       PROVE  Target(E, g, h)
    <2>1. h \in HostsOf(doc) /\ doc.hosts[g].jump \in {ById(h), ByAlias(old)}
        BY <1>12 DEF Target
    <2>2. E.hosts[g].jump \in {ById(h), ByAlias(profile.alias)}
        BY <1>7, <1>12, <2>1
    <2>3. g \in Dependents(E, h)
        BY <1>7, <1>8, <1>12, <2>2 DEF Dependents, RefersTo
    <2>4. E.hosts[h].jump = NONE
        BY <1>2, <2>3 DEF RoleValid
    <2> QED
        BY <1>6, <1>8, <1>12, <2>2, <2>4 DEF Target
<1>13. Keeps(doc, E, HostsOf(doc) \ {h})
    <2>1. ASSUME NEW g \in HostsOf(doc) \ {h}, doc.hosts[g].jump = NONE
          PROVE  E.hosts[g].jump = NONE
        <3>1. ~Renamed(g)
            BY <1>11, <2>1, DocTypes, NotNone
        <3> QED
            BY <1>7, <2>1, <3>1
    <2>2. ASSUME NEW g \in HostsOf(doc) \ {h}, NEW k \in Ids, Target(doc, g, k)
          PROVE  Target(E, g, k)
        <3>1. CASE k = h
            BY <1>12, <2>2, <3>1
        <3>2. CASE k # h
            <4>1. k \in HostsOf(doc) /\ k # g /\ doc.hosts[k].jump = NONE
                  /\ doc.hosts[g].jump \in {ById(k), ByAlias(doc.hosts[k].alias)}
                BY <2>2 DEF Target
            <4>2. ~Renamed(g)
                <5> SUFFICES ASSUME Renamed(g) PROVE FALSE
                    OBVIOUS
                <5>1. Target(doc, g, h)
                    BY <1>11
                <5>2. Route(doc, g) = {h} /\ Route(doc, g) = {k}
                    BY <1>10, <2>2, <5>1, RouteByTarget
                <5> QED
                    BY <3>2, <5>2
            <4>3. E.hosts[g] = doc.hosts[g]
                BY <1>7, <4>2
            <4>4. E.hosts[k].jump = NONE /\ E.hosts[k].alias = doc.hosts[k].alias /\ k \in HostsOf(E)
                BY <1>7, <2>1, <3>2, <4>1
            <4> QED
                BY <4>1, <4>3, <4>4 DEF Target
        <3> QED
            BY <3>1, <3>2
    <2> QED
        BY <2>1, <2>2 DEF Keeps
<1>14. \A g \in HostsOf(doc) \ {h} :
          /\ JumpOK(E, g) /\ Route(E, g) = Route(doc, g)
          /\ \A x \in Ids : Target(E, g, x) => Target(doc, g, x)
    BY <1>5, <1>6, <1>10, <1>13, KeptHosts
<1>15. JumpOK(E, h)
    BY <1>9 DEF JumpOK
<1>16. Sound(E)
    BY <1>5, <1>6, <1>10, <1>14, <1>15, SoundIff
<1>17. Stable(doc, E)
    <2>1. ASSUME h \in HostsOf(doc), E.hosts[h].jump = doc.hosts[h].jump
          PROVE  Route(E, h) = Route(doc, h)
        <3>1. CASE E.hosts[h].jump = NONE
            BY <2>1, <3>1 DEF Route
        <3>2. CASE E.hosts[h].jump # NONE
            <4>1. PICK j \in Ids : E.hosts[h].jump = ById(j) /\ Target(E, h, j)
                BY <1>9, <3>2
            <4>2. PICK k \in Ids : Target(doc, h, k)
                BY <1>10, <2>1, <3>2 DEF JumpOK
            <4>3. doc.hosts[h].jump = ById(k)
                BY <2>1, <4>1, <4>2, References1 DEF Target
            <4>4. j = k
                BY <2>1, <4>1, <4>3, References1
            <4>5. Route(doc, h) = {j}
                BY <1>10, <2>1, <4>2, <4>4, RouteByTarget
            <4>6. h \in HostsOf(E)
                BY <1>6
            <4>7. Route(E, h) = {j}
                BY <1>5, <1>10, <4>1, <4>6, RouteByTarget
            <4> QED
                BY <4>5, <4>7
        <3> QED
            BY <3>1, <3>2
    <2>2. ASSUME h \in HostsOf(doc), E.hosts[h].jump # doc.hosts[h].jump
          PROVE  \/ Cardinality({g \in HostsOf(doc) : E.hosts[g] # doc.hosts[g]}) = 1
                 \/ Route(E, h) = Route(doc, h)
        <3>1. CASE \E g \in HostsOf(doc) : g # h /\ Renamed(g)
            <4>1. PICK g \in HostsOf(doc) : g # h /\ Renamed(g)
                BY <3>1
            <4>2. Target(doc, g, h) /\ Target(E, g, h)
                BY <1>11, <1>12, <4>1
            <4> QED
                BY <2>2, <4>2 DEF Target
        <3>2. CASE \A g \in HostsOf(doc) : g # h => ~Renamed(g)
            <4>1. {g \in HostsOf(doc) : E.hosts[g] # doc.hosts[g]} = {h}
                BY <1>7, <2>2, <3>2
            <4> QED
                BY <4>1, FS_Singleton
        <3> QED
            BY <3>1, <3>2
    <2> QED
        BY <1>14, <2>1, <2>2 DEF Stable
<1>18. ASSUME NEW x \in Ids \ {h}, Deletable(doc, x), x \notin Route(E, h)
       PROVE  Deletable(E, x)
    <2>1. x \in HostsOf(doc) /\ \A g \in HostsOf(doc) \ {x} : ~Target(doc, g, x)
        BY <1>18, DeletableIff
    <2>2. ~Target(E, h, x)
        <3> SUFFICES ASSUME Target(E, h, x) PROVE FALSE
            OBVIOUS
        <3>1. h \in HostsOf(E)
            BY <1>6
        <3>2. Route(E, h) = {x}
            BY <1>5, <1>10, <3>1, RouteByTarget
        <3> QED
            BY <1>18, <3>2
    <2>3. \A g \in HostsOf(E) \ {x} : ~Target(E, g, x)
        BY <1>6, <1>14, <2>1, <2>2
    <2> QED
        BY <1>5, <1>6, <1>16, <2>1, <2>3, DeletableIff
<1> QED
    BY <1>5, <1>6, <1>16, <1>17, <1>18 DEF E

-----------------------------------------------------------------------------
(* import_hosts and import_batch.                                          *)

IdsOf(drafts) == {drafts[i].id : i \in DOMAIN drafts}

\* Drafts of new hosts add their profiles and change no other.
LEMMA WithDraftsIs ==
    ASSUME NEW doc \in Documents, NEW drafts,
           \A i \in DOMAIN drafts : drafts[i].id \in Ids /\ ProfileOf(drafts[i]) \in Profiles
    PROVE  /\ WithDrafts(doc, drafts) \in Documents
           /\ HostsOf(WithDrafts(doc, drafts)) = HostsOf(doc) \cup IdsOf(drafts)
           /\ \A h \in Ids \ IdsOf(drafts) : WithDrafts(doc, drafts).hosts[h] = doc.hosts[h]
<1> DEFINE F == WithDrafts(doc, drafts)
           Hosts == [h \in Ids |->
                        IF \E i \in DOMAIN drafts : drafts[i].id = h
                        THEN ProfileOf(drafts[CHOOSE i \in DOMAIN drafts : drafts[i].id = h])
                        ELSE doc.hosts[h]]
<1>1. F = [doc EXCEPT !.hosts = Hosts]
    BY DEF WithDrafts
<1>2. ASSUME NEW h \in IdsOf(drafts)
      PROVE  h \in Ids /\ Hosts[h] \in Profiles
    <2> DEFINE j == CHOOSE i \in DOMAIN drafts : drafts[i].id = h
    <2>1. \E i \in DOMAIN drafts : drafts[i].id = h
        BY <1>2 DEF IdsOf
    <2>2. j \in DOMAIN drafts /\ drafts[j].id = h
        BY <2>1
    <2>3. h \in Ids /\ ProfileOf(drafts[j]) \in Profiles
        BY <2>2
    <2>4. Hosts[h] = ProfileOf(drafts[j])
        BY <2>1, <2>3
    <2> QED
        BY <2>3, <2>4
<1>3. \A h \in Ids \ IdsOf(drafts) : Hosts[h] = doc.hosts[h]
    BY DEF IdsOf
<1>4. Hosts \in [Ids -> Profiles \cup {NONE}]
    <2>1. \A h \in Ids : Hosts[h] \in Profiles \cup {NONE}
        BY <1>2, <1>3, DocTypes
    <2>2. DOMAIN Hosts = Ids /\ Hosts = [h \in Ids |-> Hosts[h]]
        OBVIOUS
    <2> HIDE DEF Hosts
    <2> QED
        BY <2>1, <2>2
<1> HIDE DEF Hosts
<1>5. F \in Documents /\ F.hosts = Hosts
    BY <1>1, <1>4 DEF Documents
<1> HIDE DEF F
<1>6. HostsOf(F) = HostsOf(doc) \cup IdsOf(drafts)
    BY <1>2, <1>3, <1>5, NotNone DEF HostsOf
<1> QED
    BY <1>3, <1>5, <1>6 DEF F

\* import_hosts and import_batch, when they are accepted: the new hosts resolve, and
\* those that were saved are as they were.
LEMMA HostsImportedKeeps ==
    ASSUME NEW doc \in Documents, Sound(doc), NEW drafts,
           \A i \in DOMAIN drafts :
              drafts[i].id \in Ids \ HostsOf(doc) /\ ProfileOf(drafts[i]) \in Profiles,
           DraftsAccepted(doc, drafts)
    PROVE  /\ HostsImported(doc, drafts) \in Documents
           /\ HostsOf(HostsImported(doc, drafts)) = HostsOf(doc) \cup IdsOf(drafts)
           /\ \A E \in Documents :
                 (ValidDoc(E) /\ E.hosts = HostsImported(doc, drafts).hosts) =>
                    Sound(E) /\ Stable(doc, E)
<1> DEFINE all == WithDrafts(doc, drafts)
           F == HostsImported(doc, drafts)
           ids == IdsOf(drafts)
<1>1. /\ all \in Documents /\ HostsOf(all) = HostsOf(doc) \cup ids
      /\ \A h \in Ids \ ids : all.hosts[h] = doc.hosts[h]
    BY WithDraftsIs
<1>2. \A h \in ids : RouteResolves(all, h)
    BY DEF DraftsAccepted, IdsOf
<1>3. ids \subseteq Ids /\ \A h \in ids : h \notin HostsOf(doc)
    BY DEF IdsOf
<1> DEFINE Hosts == [h \in Ids |-> IF h \in ids THEN NormalizedProfile(all, h) ELSE all.hosts[h]]
<1>4. F = [all EXCEPT !.hosts = Hosts]
    BY DEF HostsImported, AllNormalized, IdsOf
<1> HIDE DEF all, F, ids
<1>5. ASSUME NEW h \in ids PROVE NormalizedProfile(all, h) \in Profiles
    BY <1>1, <1>2, NormalizedIs
<1>6. Hosts \in [Ids -> Profiles \cup {NONE}]
    BY <1>1, <1>5, DocTypes
<1>7. /\ \A h \in ids : Hosts[h] = NormalizedProfile(all, h)
      /\ \A h \in Ids \ ids : Hosts[h] = doc.hosts[h]
    BY <1>1, <1>3
<1> HIDE DEF Hosts
<1>8. F \in Documents /\ F.hosts = Hosts
    BY <1>1, <1>4, <1>6 DEF Documents
<1>9. HostsOf(F) = HostsOf(doc) \cup ids
    BY <1>3, <1>5, <1>7, <1>8, NotNone DEF HostsOf
<1>10. ASSUME NEW E \in Documents, ValidDoc(E), E.hosts = F.hosts
       PROVE  Sound(E) /\ Stable(doc, E)
    <2>1. HostsOf(E) = HostsOf(doc) \cup ids
        BY <1>9, <1>10 DEF HostsOf
    <2>2. /\ \A h \in ids : E.hosts[h] = NormalizedProfile(all, h)
          /\ \A h \in HostsOf(doc) : E.hosts[h] = doc.hosts[h]
        BY <1>3, <1>7, <1>8, <1>10 DEF HostsOf
    <2>3. Keeps(doc, E, HostsOf(doc) \cap HostsOf(E))
        BY <2>1, <2>2 DEF Keeps, Target
    <2>4. ASSUME NEW h \in HostsOf(E) \ HostsOf(doc) PROVE JumpOK(E, h)
        <3>1. h \in ids /\ h \in HostsOf(all) /\ RouteResolves(all, h)
            BY <1>1, <1>2, <2>1
        <3>2. CASE all.hosts[h].jump = NONE
            BY <1>1, <2>2, <3>1, <3>2, NormalizedIs DEF JumpOK
        <3>3. CASE all.hosts[h].jump # NONE
            <4>1. PICK j \in Ids : /\ NormalizedProfile(all, h).jump = ById(j)
                                   /\ j \in HostsOf(all) /\ j # h /\ all.hosts[j].jump = NONE
                BY <1>1, <3>1, <3>3, NormalizedIs
            <4>2. E.hosts[j].jump = NONE
                <5>1. CASE j \in ids
                    BY <1>1, <1>2, <2>2, <4>1, <5>1, NormalizedIs
                <5>2. CASE j \notin ids
                    BY <1>1, <2>2, <4>1, <5>2
                <5> QED
                    BY <5>1, <5>2
            <4>3. Target(E, h, j)
                BY <1>1, <2>1, <2>2, <3>1, <4>1, <4>2 DEF Target
            <4> QED
                BY <4>3 DEF JumpOK
        <3> QED
            BY <3>2, <3>3
    <2> QED
        BY <1>10, <2>3, <2>4, Kept
<1> QED
    BY <1>8, <1>9, <1>10 DEF F, ids

-----------------------------------------------------------------------------
(* The inductive invariant.                                                *)

Files == Documents \cup {Absent, Garbled}

\* What is left of the bounds.
Budgets == [events : Nat, faults : 0 .. MaxFaults, corruptions : 0 .. MaxCorruptions]

\* Types, and when a write is in progress.
StoreTypes ==
    /\ mem \in Documents
    /\ deleting \subseteq Ids
    /\ running \in {"down", "opening", "running", "stuck"}
    /\ write \in {NONE} \cup [doc : Documents, phase : Phases]
    /\ primary \in Files /\ backup \in Files
    /\ lastId \in Nat
    /\ acked \in Documents \cup {NONE}
    /\ attempts \subseteq Documents /\ older \subseteq Documents
    /\ budget \in Budgets
    /\ running = "down" => write = NONE
    /\ running = "opening" => write # NONE
    /\ running = "stuck" => write = NONE

\* What is known of every document: it is sound, its hosts have ids that were
\* generated, and no two of them come from the same source host.
Good(d, last, from) ==
    \/ d \in {Absent, Garbled}
    \/ /\ d \in Documents
       /\ Sound(d)
       /\ HostsOf(d) \subseteq 1 .. last
       /\ \A h \in HostsOf(d) : from[h] # NONE => from[h][1] \in d.hashes
       /\ \A g, h \in HostsOf(d) : (g # h /\ from[g] # NONE) => from[g] # from[h]

\* Every document that a step may read.
Seen == {mem, primary, backup, IF write = NONE THEN EmptyDoc ELSE write.doc}

\* All of them are good.
DocsInv == \A d \in Seen : Good(d, lastId, origin)

\* A host whose deletion was begun stays deletable, and the document that is
\* being written reroutes no host.
RunInv ==
    /\ running = "opening" => deleting = {}
    /\ running = "running" =>
          /\ \A h \in deleting : Deletable(mem, h)
          /\ write # NONE =>
                Stable(mem, write.doc) /\ \A h \in deleting : Deletable(write.doc, h)

\* A batch is built from one source.
BatchOf(bt, b) ==
    /\ Loads(b) /\ bt.hash = b.hash
    /\ \E n \in Nat : bt.hosts \in [1 .. n -> DOMAIN b.hosts]
    /\ \A i, j \in DOMAIN bt.hosts : bt.hosts[i] = bt.hosts[j] => i = j
    /\ \A r \in bt.records : r.kind \in Kinds /\ r.name \in Names
    /\ bt.settings \in SettingValues \cup {NONE}

\* Of every client that has a batch.
BatchInv ==
    /\ DOMAIN batch = Clients
    /\ \A c \in Clients : batch[c] # NONE => \E b \in Bundles : BatchOf(batch[c], b)

\* The inductive invariant of the changes.
MigrationInv == StoreTypes /\ DocsInv /\ RunInv /\ BatchInv

\* The defaults of a first start.
LEMMA EmptyIsGood ==
    ASSUME NEW last, NEW from
    PROVE  EmptyDoc \in Documents /\ HostsOf(EmptyDoc) = {} /\ Good(EmptyDoc, last, from)
<1>1. EmptyDoc \in Documents /\ HostsOf(EmptyDoc) = {} /\ EmptyDoc.records = {}
    BY DEF EmptyDoc, Documents, HostsOf
<1>2. Cardinality({}) = 0
    BY FS_EmptySet
<1>3. ValidDoc(EmptyDoc)
    <2>1. 0 <= MaxHosts
        BY StoreAssumption
    <2> QED
        BY <1>1, <1>2, <2>1 DEF ValidDoc
<1> QED
    BY <1>1, <1>3 DEF Good, Sound

\* clear_inactive_identity_files changes nothing else, and once is enough.
LEMMA CleanedIsGood ==
    ASSUME NEW d \in Documents
    PROVE  /\ Cleaned(d) \in Documents /\ Cleaned(d).hosts = d.hosts
           /\ Cleaned(d).hashes = d.hashes /\ Cleaned(d).stray = {}
           /\ Cleaned(Cleaned(d)) = Cleaned(d)
           /\ d.stray = {} => Cleaned(d) = d
           /\ \A last, from : Good(d, last, from) => Good(Cleaned(d), last, from)
<1> DEFINE C == Cleaned(d)
<1>1. d = [hosts |-> d.hosts, records |-> d.records, hashes |-> d.hashes,
           settings |-> d.settings, stray |-> d.stray]
    BY DEF Documents
<1>2. C = [hosts |-> d.hosts, records |-> d.records, hashes |-> d.hashes,
           settings |-> d.settings, stray |-> {}]
    BY <1>1 DEF Cleaned
<1>3. Cleaned(C) = C
    BY <1>2 DEF Cleaned
<1>4. /\ d.stray = {} => C = d
      /\ C.hosts = d.hosts /\ C.records = d.records /\ C.hashes = d.hashes /\ C.stray = {}
    BY <1>1, <1>2
<1>6. C \in Documents
    BY <1>2 DEF Documents
<1> HIDE DEF C
<1>7. HostsOf(C) = HostsOf(d)
    BY <1>4 DEF HostsOf
<1>8. ASSUME Sound(d) PROVE Sound(C)
    <2>1. ValidDoc(C)
        BY <1>4, <1>7, <1>8 DEF Sound, ValidDoc
    <2> QED
        BY <1>4, <1>6, <1>7, <1>8, <2>1, SameHosts
<1>5. ASSUME NEW last, NEW from, Good(d, last, from) PROVE Good(C, last, from)
    <2>1. d \notin {Absent, Garbled}
        BY StoreAssumption
    <2> QED
        BY <1>4, <1>5, <1>6, <1>7, <1>8, <2>1 DEF Good
<1> QED
    BY <1>3, <1>4, <1>5, <1>6 DEF C

\* Documents stay good while ids are generated.
LEMMA GoodLasts ==
    ASSUME NEW d, NEW last, NEW from, Good(d, last, from), NEW last2, NEW from2,
           1 .. last \subseteq 1 .. last2, \A h \in 1 .. last : from2[h] = from[h]
    PROVE  Good(d, last2, from2)
<1>1. CASE d \in {Absent, Garbled}
    BY <1>1 DEF Good
<1>2. CASE d \notin {Absent, Garbled}
    <2>1. \A h \in HostsOf(d) : h \in 1 .. last /\ from2[h] = from[h]
        BY <1>2 DEF Good
    <2> QED
        BY <1>2, <2>1 DEF Good
<1> QED
    BY <1>1, <1>2

\* A document made from a good one, whose new hosts have no source.
LEMMA GoodChange ==
    ASSUME NEW d \in Documents, NEW last, NEW from, Good(d, last, from),
           NEW E \in Documents, Sound(E), d.hashes \subseteq E.hashes,
           NEW last2, NEW from2, HostsOf(E) \subseteq 1 .. last2,
           \A h \in 1 .. last : from2[h] = from[h],
           \A h \in HostsOf(E) \ HostsOf(d) : from2[h] = NONE
    PROVE  Good(E, last2, from2)
<1>1. d \notin {Absent, Garbled}
    BY StoreAssumption
<1>2. \A h \in HostsOf(d) : h \in 1 .. last /\ from2[h] = from[h]
    BY <1>1 DEF Good
<1>3. \A h \in HostsOf(E) : from2[h] # NONE => from2[h][1] \in E.hashes
    BY <1>1, <1>2 DEF Good
<1>4. \A g, h \in HostsOf(E) : (g # h /\ from2[g] # NONE) => from2[g] # from2[h]
    BY <1>1, <1>2 DEF Good
<1> QED
    BY <1>3, <1>4 DEF Good

\* Ids generated earlier stay generated.
LEMMA Longer ==
    ASSUME NEW m \in Nat, NEW n \in Nat
    PROVE  1 .. m \subseteq 1 .. (m + n) /\ m + n \in Nat
OBVIOUS

-----------------------------------------------------------------------------
(* The changes that are persisted.                                         *)

LEMMA OriginGrows ==
    ASSUME NEW last \in Nat, NEW last2 \in Nat, 1 .. last \subseteq 1 .. last2, NEW from, NEW from2,
           from2 = [h \in 1 .. last2 |-> IF h <= last THEN from[h] ELSE NONE]
    PROVE  /\ \A h \in 1 .. last : from2[h] = from[h]
           /\ \A h \in 1 .. last2 \ 1 .. last : from2[h] = NONE
<1>1. ASSUME NEW h \in 1 .. last PROVE from2[h] = from[h]
    <2>1. h \in 1 .. last2 /\ h <= last
        OBVIOUS
    <2> QED
        BY <2>1
<1>2. ASSUME NEW h \in 1 .. last2 \ 1 .. last PROVE from2[h] = NONE
    <2>1. h \in 1 .. last2 /\ ~(h <= last)
        OBVIOUS
    <2> QED
        BY <2>1
<1> QED
    BY <1>1, <1>2

\* A client or the store itself changes the document in memory to E.
Changed(E) ==
    /\ Persist(E)
    /\ E \in Documents /\ Sound(E) /\ Stable(mem, E)
    /\ lastId' \in Nat /\ 1 .. lastId \subseteq 1 .. lastId'
    /\ \A h \in 1 .. lastId : origin'[h] = origin[h]
    /\ Good(E, lastId', origin')
    /\ deleting' \subseteq deleting
    /\ \A x \in deleting' : Deletable(E, x)

\* New hosts of a step of the store come from no source.
OriginStep == origin' = [h \in 1 .. lastId' |-> IF h <= lastId THEN origin[h] ELSE NONE]

\* What is known where a change may be made.
LEMMA BeforeChange ==
    ASSUME MigrationInv, MayWrite
    PROVE  /\ mem \in Documents /\ Sound(mem) /\ Good(mem, lastId, origin)
           /\ HostsOf(mem) \subseteq 1 .. lastId /\ lastId \in Nat
           /\ HostsOf(mem) \subseteq Ids
           /\ deleting \subseteq Ids /\ \A x \in deleting : Deletable(mem, x)
<1>1. mem \in Documents /\ lastId \in Nat /\ deleting \subseteq Ids /\ mem \notin {Absent, Garbled}
    BY StoreAssumption DEF MigrationInv, StoreTypes
<1>2. Good(mem, lastId, origin)
    BY DEF MigrationInv, DocsInv, Seen
<1>3. \A x \in deleting : Deletable(mem, x)
    BY DEF MigrationInv, RunInv, MayWrite
<1>4. HostsOf(mem) \subseteq Ids
    BY DEF HostsOf
<1> QED
    BY <1>1, <1>2, <1>3, <1>4 DEF Good

\* A change that leaves the hosts, or removes one of them.
LEMMA NoNewHost ==
    ASSUME MigrationInv, NEW E \in Documents, Persist(E), Sound(E), Stable(mem, E),
           HostsOf(E) \subseteq HostsOf(mem), E.hashes = mem.hashes, lastId' = lastId, OriginStep,
           deleting' \subseteq deleting, \A x \in deleting' : Deletable(E, x)
    PROVE  Changed(E)
<1>1. /\ mem \in Documents /\ Good(mem, lastId, origin) /\ lastId \in Nat
      /\ HostsOf(mem) \subseteq 1 .. lastId
    BY BeforeChange DEF Persist
<1>2. lastId' \in Nat /\ 1 .. lastId \subseteq 1 .. lastId'
    BY <1>1
<1>3. \A h \in 1 .. lastId : origin'[h] = origin[h]
    BY <1>1, <1>2, OriginGrows DEF OriginStep
<1>4. HostsOf(E) \subseteq 1 .. lastId' /\ HostsOf(E) \ HostsOf(mem) = {}
    BY <1>1
<1>5. Good(E, lastId', origin')
    BY <1>1, <1>3, <1>4, GoodChange
<1> QED
    BY <1>2, <1>3, <1>5 DEF Changed

\* A change of records or settings.
LEMMA SimpleChange ==
    ASSUME MigrationInv, NEW E \in Documents, Persist(E), E.hosts = mem.hosts, E.hashes = mem.hashes,
           UNCHANGED <<deleting, lastId>>, OriginStep
    PROVE  Changed(E)
<1>1. /\ mem \in Documents /\ Sound(mem) /\ deleting \subseteq Ids
      /\ \A x \in deleting : Deletable(mem, x)
    BY BeforeChange DEF Persist
<1>2. ValidDoc(E)
    BY DEF Persist
<1>3. /\ Sound(E) /\ Stable(mem, E) /\ HostsOf(E) = HostsOf(mem)
      /\ \A h \in Ids : Deletable(mem, h) <=> Deletable(E, h)
    BY <1>1, <1>2, SameHosts
<1>4. deleting' \subseteq deleting /\ \A x \in deleting' : Deletable(E, x)
    BY <1>1, <1>3
<1> QED
    BY <1>3, <1>4, NoNewHost

\* save_tunnel and save_command.
LEMMA SaveRecordChanges ==
    ASSUME MigrationInv, NEW old, NEW new \in Records, SaveRecord(old, new), OriginStep
    PROVE  \E E : Changed(E)
<1> DEFINE E == WithRecord(mem, old, new)
<1>1. mem \in Documents
    BY DEF MigrationInv, StoreTypes
<1>2. new \in [kind : Kinds, host : Ids \cup {NONE}, name : Names]
    <2>1. HostsOf(mem) \subseteq Ids
        BY DEF HostsOf
    <2> QED
        BY <2>1 DEF Records, Kinds
<1>3. E \in Documents /\ E.hosts = mem.hosts /\ E.hashes = mem.hashes
    <2>1. (mem.records \ {old}) \cup {new} \subseteq [kind : Kinds, host : Ids \cup {NONE}, name : Names]
        BY <1>1, <1>2, DocTypes
    <2> QED
        BY <1>1, <2>1 DEF WithRecord, Documents
<1>4. Persist(E) /\ UNCHANGED <<deleting, lastId>>
    BY DEF SaveRecord
<1> QED
    BY <1>3, <1>4, SimpleChange

\* delete_tunnel and delete_command_for_host.
LEMMA DeleteRecordChanges ==
    ASSUME MigrationInv, NEW record, Persist([mem EXCEPT !.records = @ \ {record}]),
           UNCHANGED <<deleting, lastId>>, OriginStep
    PROVE  \E E : Changed(E)
<1> DEFINE E == [mem EXCEPT !.records = @ \ {record}]
<1>1. mem \in Documents
    BY DEF MigrationInv, StoreTypes
<1>2. E \in Documents /\ E.hosts = mem.hosts /\ E.hashes = mem.hashes
    BY <1>1 DEF Documents
<1> QED
    BY <1>2, SimpleChange

\* update_settings.
LEMMA UpdateSettingsChanges ==
    ASSUME MigrationInv, NEW value \in SettingValues, UpdateSettings(value), OriginStep
    PROVE  \E E : Changed(E)
<1> DEFINE E == SettingsPatched(mem, value)
<1>1. mem \in Documents
    BY DEF MigrationInv, StoreTypes
<1>2. E \in Documents /\ E.hosts = mem.hosts /\ E.hashes = mem.hashes
    BY <1>1 DEF SettingsPatched, Documents
<1>3. Persist(E) /\ UNCHANGED <<deleting, lastId>>
    BY DEF UpdateSettings
<1> QED
    BY <1>2, <1>3, SimpleChange

\* finish_host_deletion: the other marked hosts stay deletable.
LEMMA FinishHostDeletionChanges ==
    ASSUME MigrationInv, NEW h, FinishHostDeletion(h), OriginStep
    PROVE  \E E : Changed(E)
<1> DEFINE E == WithoutHost(mem, h)
<1>1. /\ Persist(E) /\ deleting' = deleting \ {h} /\ lastId' = lastId /\ Deletable(mem, h)
      /\ h \in deleting /\ MayWrite
    BY DEF FinishHostDeletion
<1>2. /\ mem \in Documents /\ Sound(mem) /\ deleting \subseteq Ids
      /\ \A x \in deleting : Deletable(mem, x)
    BY <1>1, BeforeChange
<1>3. /\ E \in Documents /\ HostsOf(E) = HostsOf(mem) \ {h}
      /\ Sound(E) /\ Stable(mem, E)
      /\ \A x \in Ids \ {h} : Deletable(mem, x) => Deletable(E, x)
    <2>1. ValidDoc(E) /\ h \in Ids
        BY <1>1, <1>2 DEF Persist
    <2> QED
        BY <1>1, <1>2, <2>1, WithoutHostKeeps
<1>4. deleting' \subseteq deleting /\ \A x \in deleting' : Deletable(E, x)
    BY <1>1, <1>2, <1>3
<1>5. E.hashes = mem.hashes
    BY <1>2 DEF WithoutHost, Documents
<1> HIDE DEF E
<1> QED
    BY <1>1, <1>3, <1>4, <1>5, NoNewHost

\* Changes of hosts leave the hashes of imported sources alone.
LEMMA HostChangeHashes ==
    ASSUME NEW doc \in Documents
    PROVE  /\ \A draft : HostUpdated(doc, draft).hashes = doc.hashes
           /\ \A drafts : HostsImported(doc, drafts).hashes = doc.hashes
<1>1. \A d, f : d.hashes = [d EXCEPT !.hosts = f].hashes
    OBVIOUS
<1>2. ASSUME NEW draft PROVE HostUpdated(doc, draft).hashes = doc.hashes
    <2>1. WithDraft(doc, draft).hashes = doc.hashes
        BY DEF WithDraft
    <2>2. Drafted(doc, draft).hashes = doc.hashes
        BY <2>1, <1>1 DEF Drafted, Retargeted
    <2> QED
        BY <2>2 DEF HostUpdated, Normalized
<1>3. ASSUME NEW drafts PROVE HostsImported(doc, drafts).hashes = doc.hashes
    <2>1. WithDrafts(doc, drafts).hashes = doc.hashes
        BY <1>1 DEF WithDrafts
    <2> QED
        BY <1>1, <2>1 DEF HostsImported, AllNormalized
<1> QED
    BY <1>2, <1>3

\* A generated id is new.
LEMMA NextIds ==
    ASSUME NEW last \in Nat, NEW n \in Nat, NEW i \in 1 .. n
    PROVE  last + i \notin 1 .. last /\ last + i \in 1 .. (last + n)
OBVIOUS

\* save_host: it is refused through a host being deleted, so marks stay valid.
LEMMA SaveHostChanges ==
    ASSUME MigrationInv, NEW h, NEW d \in Drafts, SaveHostRequest(h, d), OriginStep
    PROVE  \E E : Changed(E)
<1> DEFINE draft == DraftOf(h, d)
           E == HostUpdated(mem, draft)
<1>1. SaveHost(draft) /\ \/ h \in HostsOf(mem) /\ lastId' = lastId
                         \/ h \in Ids /\ h = lastId + 1 /\ lastId' = h
    BY DEF SaveHostRequest, DraftOf
<1>2. /\ MayWrite /\ h \notin deleting /\ HostUpdateAccepted(mem, draft)
      /\ Route(E, h) \cap deleting = {} /\ Persist(E) /\ deleting' = deleting
    BY <1>1 DEF SaveHost, DraftOf
<1>3. /\ mem \in Documents /\ Sound(mem) /\ Good(mem, lastId, origin) /\ lastId \in Nat
      /\ HostsOf(mem) \subseteq 1 .. lastId /\ HostsOf(mem) \subseteq Ids
      /\ deleting \subseteq Ids /\ \A x \in deleting : Deletable(mem, x)
    BY <1>2, BeforeChange
<1>4. h \in Ids /\ d \in Profiles /\ ValidDoc(E)
    BY <1>1, <1>2, <1>3, StoreAssumption DEF Persist
<1>5. /\ E \in Documents /\ HostsOf(E) = HostsOf(mem) \cup {h}
      /\ Sound(E) /\ Stable(mem, E)
      /\ \A x \in Ids \ {h} : (Deletable(mem, x) /\ x \notin Route(E, h)) => Deletable(E, x)
    BY <1>2, <1>3, <1>4, HostUpdatedKeeps
<1>6. E.hashes = mem.hashes
    BY <1>3, HostChangeHashes
<1> HIDE DEF E
<1>7. deleting' \subseteq deleting /\ \A x \in deleting' : Deletable(E, x)
    BY <1>2, <1>3, <1>5
<1>8. CASE h \in HostsOf(mem) /\ lastId' = lastId
    <2>1. HostsOf(E) \subseteq HostsOf(mem)
        BY <1>5, <1>8
    <2> QED
        BY <1>2, <1>5, <1>6, <1>7, <1>8, <2>1, NoNewHost
<1>9. CASE h = lastId + 1 /\ lastId' = h
    <2>1. /\ lastId + 1 \in Nat /\ 1 .. lastId \subseteq 1 .. (lastId + 1)
          /\ lastId + 1 \notin 1 .. lastId /\ lastId + 1 \in 1 .. (lastId + 1)
        BY <1>3, Longer, NextIds
    <2>2. lastId' \in Nat /\ 1 .. lastId \subseteq 1 .. lastId' /\ h \in 1 .. lastId' \ 1 .. lastId
        BY <1>9, <2>1
    <2>3. (\A g \in 1 .. lastId : origin'[g] = origin[g]) /\ origin'[h] = NONE
        BY <1>3, <2>2, OriginGrows DEF OriginStep
    <2>4. HostsOf(E) \subseteq 1 .. lastId' /\ \A g \in HostsOf(E) \ HostsOf(mem) : origin'[g] = NONE
        BY <1>3, <1>5, <2>2, <2>3
    <2>5. Good(E, lastId', origin')
        BY <1>3, <1>5, <1>6, <2>3, <2>4, GoodChange
    <2> QED
        BY <1>2, <1>5, <1>7, <2>2, <2>3, <2>5 DEF Changed
<1> QED
    BY <1>1, <1>8, <1>9

\* import_hosts and import_batch with fresh ids: the hosts of the new document.
LEMMA ImportedHosts ==
    ASSUME MigrationInv, MayWrite, NEW drafts, NEW n \in Nat, DOMAIN drafts = 1 .. n,
           lastId + n <= MaxIds,
           \A i \in 1 .. n : drafts[i].id = lastId + i /\ ProfileOf(drafts[i]) \in Profiles,
           DraftsAccepted(mem, drafts)
    PROVE  LET F == HostsImported(mem, drafts)
           IN  /\ F \in Documents
               /\ HostsOf(F) \subseteq 1 .. (lastId + n)
               /\ HostsOf(F) \cap 1 .. lastId = HostsOf(mem)
               /\ F.hashes = mem.hashes
               /\ 1 .. lastId \subseteq 1 .. (lastId + n) /\ lastId + n \in Nat
               /\ \A E \in Documents : (ValidDoc(E) /\ E.hosts = F.hosts) => Sound(E) /\ Stable(mem, E)
<1> DEFINE F == HostsImported(mem, drafts)
<1>1. /\ mem \in Documents /\ Sound(mem) /\ lastId \in Nat
      /\ HostsOf(mem) \subseteq 1 .. lastId
    BY BeforeChange
<1>2. ASSUME NEW i \in 1 .. n
      PROVE  /\ lastId + i \notin 1 .. lastId /\ lastId + i \in 1 .. (lastId + n)
             /\ lastId + i \in Ids
    <2>1. lastId + i \notin 1 .. lastId /\ lastId + i \in 1 .. (lastId + n)
        BY <1>1, NextIds
    <2>2. lastId + i \in 1 .. MaxIds
        BY <1>1, StoreAssumption
    <2> QED
        BY <2>1, <2>2 DEF Ids
<1>3. \A i \in DOMAIN drafts : drafts[i].id \in Ids \ HostsOf(mem) /\ ProfileOf(drafts[i]) \in Profiles
    BY <1>1, <1>2
<1>4. /\ F \in Documents /\ HostsOf(F) = HostsOf(mem) \cup IdsOf(drafts)
      /\ \A E \in Documents : (ValidDoc(E) /\ E.hosts = F.hosts) => Sound(E) /\ Stable(mem, E)
    BY <1>1, <1>3, HostsImportedKeeps
<1>5. \A x \in IdsOf(drafts) : x \notin 1 .. lastId /\ x \in 1 .. (lastId + n)
    BY <1>2 DEF IdsOf
<1>6. 1 .. lastId \subseteq 1 .. (lastId + n) /\ lastId + n \in Nat
    BY <1>1, Longer
<1>7. F.hashes = mem.hashes
    BY <1>1, HostChangeHashes
<1> HIDE DEF F
<1> QED
    BY <1>1, <1>4, <1>5, <1>6, <1>7 DEF F

\* SetToSeq lists a finite set.
LEMMA SetToSeqIs ==
    ASSUME NEW S, IsFiniteSet(S)
    PROVE  /\ SetToSeq(S) \in [1 .. Cardinality(S) -> S]
           /\ Cardinality(S) \in Nat
           /\ \A i, j \in 1 .. Cardinality(S) : SetToSeq(S)[i] = SetToSeq(S)[j] => i = j
<1> DEFINE n == Cardinality(S)
           List == [1 .. n -> S]
<1>1. n \in Nat /\ ExistsBijection(1 .. n, S)
    BY FS_CardinalityType
<1>2. PICK f \in Bijection(1 .. n, S) : TRUE
    BY <1>1 DEF ExistsBijection
<1>3. f \in List /\ IsInjective(f)
    BY <1>2 DEF Bijection, Injection, IsInjective
<1>4. SetToSeq(S) = CHOOSE g \in List : IsInjective(g)
    BY DEF SetToSeq
<1>5. SetToSeq(S) \in List /\ IsInjective(SetToSeq(S))
    BY <1>3, <1>4
<1> QED
    BY <1>1, <1>5 DEF IsInjective

\* The length of a sequence given by its domain.
LEMMA LenOf ==
    ASSUME NEW n \in Nat, NEW s, DOMAIN s = 1 .. n
    PROVE  Len(s) = n
<1> QED
    OBVIOUS

\* import_ssh_config: no deletion is in progress, and the ids are fresh.
LEMMA ImportSshConfigChanges ==
    ASSUME MigrationInv, NEW candidates \in SshConfigs, ImportSshConfig(candidates)
    PROVE  \E E : Changed(E)
<1> DEFINE fresh == FreshCandidates(mem, candidates)
           drafts == [i \in DOMAIN fresh |->
                        [id |-> lastId + i, alias |-> fresh[i].alias,
                         endpoint |-> fresh[i].endpoint, jump |-> fresh[i].jump]]
           E == HostsImported(mem, drafts)
<1>1. MayWrite /\ ImportHosts(drafts)
      /\ origin' = [h \in 1 .. lastId' |-> IF h <= lastId THEN origin[h] ELSE NONE]
    BY DEF ImportSshConfig
<1>2. candidates \in Seq(Profiles)
    BY MigrationAssumption
<1>3. PICK n \in Nat : DOMAIN fresh = 1 .. n /\ \A i \in 1 .. n : fresh[i] \in Profiles
    <2> DEFINE Fresh(i) == /\ \A h \in HostsOf(mem) : mem.hosts[h].alias # candidates[i].alias
                           /\ \A j \in 1 .. i - 1 : candidates[j].alias # candidates[i].alias
               places == {i \in DOMAIN candidates : Fresh(i)}
    <2>1. fresh = [k \in 1 .. Cardinality(places) |-> candidates[SetToSeq(places)[k]]]
        BY DEF FreshCandidates
    <2>2. IsFiniteSet(DOMAIN candidates)
        <3>1. Len(candidates) \in Nat /\ DOMAIN candidates = 1 .. Len(candidates)
            BY <1>2
        <3> QED
            BY <3>1, FS_Interval
    <2>3. IsFiniteSet(places)
        BY <2>2, FS_Subset
    <2> HIDE DEF places
    <2>4. places \subseteq DOMAIN candidates
        BY DEF places
    <2>5. SetToSeq(places) \in [1 .. Cardinality(places) -> places] /\ Cardinality(places) \in Nat
        BY <2>3, SetToSeqIs
    <2> HIDE DEF fresh
    <2>6. ASSUME NEW k \in 1 .. Cardinality(places) PROVE fresh[k] \in Profiles
        <3>1. SetToSeq(places)[k] \in DOMAIN candidates
            BY <2>4, <2>5
        <3>2. \A i \in DOMAIN candidates : candidates[i] \in Profiles
            BY <1>2
        <3> QED
            BY <2>1, <3>1, <3>2
    <2>7. DOMAIN fresh = 1 .. Cardinality(places)
        BY <2>1
    <2> QED
        BY <2>5, <2>6, <2>7
<1> HIDE DEF fresh
<1>4. DOMAIN drafts = 1 .. n /\ Len(drafts) = n
    BY <1>3, LenOf
<1>5. ASSUME NEW i \in 1 .. n
      PROVE  drafts[i].id = lastId + i /\ ProfileOf(drafts[i]) \in Profiles
    <2>1. fresh[i] \in Profiles
        BY <1>3
    <2>2. drafts[i] = [id |-> lastId + i, alias |-> fresh[i].alias,
                       endpoint |-> fresh[i].endpoint, jump |-> fresh[i].jump]
        BY <1>3
    <2> HIDE DEF drafts
    <2> QED
        BY <2>1, <2>2 DEF ProfileOf, Profiles
<1> HIDE DEF drafts
<1>6. /\ deleting = {} /\ lastId + n <= MaxIds /\ DraftsAccepted(mem, drafts)
      /\ Persist(E) /\ lastId' = lastId + n /\ deleting' = deleting
    BY <1>1, <1>4 DEF ImportHosts
<1>7. /\ mem \in Documents /\ Good(mem, lastId, origin) /\ lastId \in Nat
      /\ HostsOf(mem) \subseteq 1 .. lastId
    BY <1>1, BeforeChange
<1>8. /\ E \in Documents /\ E.hashes = mem.hashes
      /\ HostsOf(E) \subseteq 1 .. (lastId + n) /\ HostsOf(E) \cap 1 .. lastId = HostsOf(mem)
      /\ 1 .. lastId \subseteq 1 .. (lastId + n) /\ lastId + n \in Nat
      /\ ValidDoc(E) => Sound(E) /\ Stable(mem, E)
    BY <1>1, <1>4, <1>5, <1>6, ImportedHosts
<1>9. ValidDoc(E)
    BY <1>6 DEF Persist
<1> HIDE DEF E
<1>10. lastId' \in Nat /\ 1 .. lastId \subseteq 1 .. lastId'
    BY <1>6, <1>8
<1>11. /\ \A h \in 1 .. lastId : origin'[h] = origin[h]
       /\ \A h \in 1 .. lastId' \ 1 .. lastId : origin'[h] = NONE
    BY <1>1, <1>7, <1>10, OriginGrows
<1>12. Good(E, lastId', origin')
    <2>1. HostsOf(E) \subseteq 1 .. lastId'
        BY <1>6, <1>8
    <2>2. \A h \in HostsOf(E) \ HostsOf(mem) : origin'[h] = NONE
        BY <1>8, <1>11, <2>1
    <2> QED
        BY <1>7, <1>8, <1>9, <1>11, <2>1, <2>2, GoodChange
<1> QED
    BY <1>6, <1>8, <1>9, <1>10, <1>11, <1>12 DEF Changed

\* build_import_batch lists each source host once.
LEMMA BatchForOfSource ==
    ASSUME NEW b \in Bundles, NEW doc, NEW selection, Loads(b)
    PROVE  BatchOf(BatchFor(b, doc, selection), b)
<1> DEFINE bt == BatchFor(b, doc, selection)
           records == {[kind |-> r.kind, name |-> r.name,
                        host |-> IF r.host = NONE THEN NONE
                                 ELSE CHOOSE d \in Destinations(b, r.host, doc, selection) : TRUE]
                          : r \in Selected(b, selection)}
<1>1. /\ bt.hash = b.hash
      /\ bt.hosts = IF "hosts" \in selection THEN SetToSeq(DOMAIN b.hosts) ELSE <<>>
      /\ bt.records = records
      /\ bt.settings = IF "settings" \in selection THEN b.settings ELSE NONE
    BY DEF BatchFor
<1>2. IsFiniteSet(DOMAIN b.hosts) /\ b.settings \in SettingValues \cup {NONE}
      /\ \A r \in b.records : r.kind \in Kinds /\ r.name \in Names
    BY MigrationAssumption
<1>3. \A r \in records : r.kind \in Kinds /\ r.name \in Names
    BY <1>2 DEF Selected
<1> HIDE DEF bt, records
<1>4. /\ \E n \in Nat : bt.hosts \in [1 .. n -> DOMAIN b.hosts]
      /\ \A i, j \in DOMAIN bt.hosts : bt.hosts[i] = bt.hosts[j] => i = j
    <2>1. CASE "hosts" \in selection
        BY <1>1, <1>2, <2>1, SetToSeqIs
    <2>2. CASE "hosts" \notin selection
        <3>1. bt.hosts = <<>>
            BY <1>1, <2>2
        <3>2. <<>> \in [1 .. 0 -> DOMAIN b.hosts] /\ DOMAIN <<>> = {}
            OBVIOUS
        <3> QED
            BY <3>1, <3>2
    <2> QED
        BY <2>1, <2>2
<1>5. bt.settings \in SettingValues \cup {NONE}
    BY <1>1, <1>2
<1> QED
    BY <1>1, <1>3, <1>4, <1>5 DEF BatchOf, bt

\* The drafts of a batch are typed, whatever the form of their jumps.
LEMMA BatchDraftsAre ==
    ASSUME NEW b \in Bundles, NEW bt, BatchOf(bt, b), NEW n \in Nat,
           bt.hosts \in [1 .. n -> DOMAIN b.hosts]
    PROVE  /\ DOMAIN BatchDrafts(bt) = 1 .. n
           /\ \A i \in 1 .. n : /\ BatchDrafts(bt)[i].id = lastId + i
                                /\ ProfileOf(BatchDrafts(bt)[i]) \in Profiles
<1>1. BundleOf(bt.hash) = b
    <2>1. \A d \in Bundles : d.hash = bt.hash => d = b
        BY MigrationAssumption DEF BatchOf
    <2>2. b.hash = bt.hash
        BY DEF BatchOf
    <2> QED
        BY <2>1, <2>2 DEF BundleOf
<1>2. DOMAIN bt.hosts = 1 .. n
    OBVIOUS
<1>3. BatchDrafts(bt) =
        [i \in 1 .. n |->
            [id |-> lastId + i, alias |-> b.hosts[bt.hosts[i]].alias,
             endpoint |-> b.hosts[bt.hosts[i]].endpoint,
             jump |-> PlannedJump(b, bt.hosts[i])]]
    BY <1>1, <1>2 DEF BatchDrafts
<1>4. ASSUME NEW s \in DOMAIN b.hosts
      PROVE  /\ b.hosts[s].alias \in Aliases /\ b.hosts[s].endpoint \in Endpoints
             /\ PlannedJump(b, s) \in References \cup {NONE}
    <2>1. b.hosts[s].alias \in Aliases /\ b.hosts[s].endpoint \in Endpoints
        BY MigrationAssumption
    <2>2. CASE b.hosts[s].jump = NONE
        BY <2>1, <2>2 DEF PlannedJump
    <2>3. CASE b.kind = "labpulse"
        BY <2>1, <2>3, MigrationAssumption DEF PlannedJump
    <2>4. CASE b.kind = "v1" /\ b.hosts[s].jump # NONE
        <3>1. b.hosts[s].jump \in DOMAIN b.hosts
            BY <2>4 DEF BatchOf, Loads, MapAccepted, V1Mapped
        <3>2. b.hosts[b.hosts[s].jump].endpoint \in Endpoints
            BY <3>1, MigrationAssumption
        <3>3. PlannedJump(b, s) = ByEndpoint(b.hosts[b.hosts[s].jump].endpoint)
            BY <2>4 DEF PlannedJump
        <3> QED
            BY <2>1, <3>2, <3>3 DEF References
    <2>5. b.kind \in {"v1", "labpulse"}
        BY MigrationAssumption
    <2> QED
        BY <2>1, <2>2, <2>3, <2>4, <2>5
<1>5. ASSUME NEW i \in 1 .. n
      PROVE  BatchDrafts(bt)[i].id = lastId + i /\ ProfileOf(BatchDrafts(bt)[i]) \in Profiles
    <2>1. bt.hosts[i] \in DOMAIN b.hosts
        OBVIOUS
    <2>2. BatchDrafts(bt)[i] =
            [id |-> lastId + i, alias |-> b.hosts[bt.hosts[i]].alias,
             endpoint |-> b.hosts[bt.hosts[i]].endpoint,
             jump |-> PlannedJump(b, bt.hosts[i])]
        BY <1>3
    <2> QED
        BY <1>4, <2>1, <2>2 DEF ProfileOf, Profiles
<1> QED
    BY <1>3, <1>5

\* resolve_import_host gives every record a saved or an imported host.
LEMMA BatchRecordsAre ==
    ASSUME NEW b \in Bundles, NEW bt, BatchOf(bt, b), NEW n \in Nat,
           bt.hosts \in [1 .. n -> DOMAIN b.hosts], lastId \in Nat, lastId + n <= MaxIds,
           \A r \in bt.records : ImportHost(bt, r.host) # {}
    PROVE  BatchRecords(bt) \subseteq [kind : Kinds, host : Ids \cup {NONE}, name : Names]
<1>1. ASSUME NEW r \in bt.records
      PROVE  (CHOOSE h \in ImportHost(bt, r.host) : TRUE) \in Ids \cup {NONE}
    <2>1. HostsOf(mem) \subseteq Ids
        BY DEF HostsOf
    <2>2. \A k \in DOMAIN bt.hosts : lastId + k \in Ids
        <3> TAKE k \in DOMAIN bt.hosts
        <3>1. k \in 1 .. n
            OBVIOUS
        <3>2. lastId + k \in 1 .. MaxIds
            BY <3>1, StoreAssumption
        <3> QED
            BY <3>2 DEF Ids
    <2>3. ImportHost(bt, r.host) \subseteq Ids \cup {NONE}
        BY <2>1, <2>2 DEF ImportHost
    <2> QED
        BY <2>3
<1>2. ASSUME NEW r \in bt.records, NEW h \in Ids \cup {NONE}
      PROVE  [kind |-> r.kind, name |-> r.name, host |-> h]
                \in [kind : Kinds, host : Ids \cup {NONE}, name : Names]
    <2>1. r.kind \in Kinds /\ r.name \in Names
        BY DEF BatchOf
    <2> QED
        BY <2>1
<1> QED
    BY <1>1, <1>2 DEF BatchRecords

\* import_batch: the hash is looked up again under the lock, so the origins of the new
\* hosts differ from those of all hosts saved before.
LEMMA ApplyImportChanges ==
    ASSUME MigrationInv, NEW c \in Clients, ApplyImport(c)
    PROVE  \E E : Changed(E)
<1> DEFINE bt == batch[c]
           F == HostsImported(mem, BatchDrafts(bt))
           E == BatchApplied(bt)
<1>1. PICK b \in Bundles : BatchOf(bt, b)
    BY DEF ApplyImport, MigrationInv, BatchInv
<1>2. PICK n \in Nat : bt.hosts \in [1 .. n -> DOMAIN b.hosts]
    BY <1>1 DEF BatchOf
<1>3. DOMAIN bt.hosts = 1 .. n /\ Len(bt.hosts) = n
    BY <1>2, LenOf
<1>4. /\ MayWrite /\ lastId + n <= MaxIds /\ deleting = {} /\ bt.hash \notin mem.hashes
      /\ BatchFits(bt) /\ Persist(E) /\ lastId' = lastId + n /\ deleting' = deleting
      /\ origin' = [h \in 1 .. lastId' |-> IF h <= lastId THEN origin[h]
                                           ELSE <<bt.hash, bt.hosts[h - lastId]>>]
    BY <1>3 DEF ApplyImport, NotImported
<1>5. /\ mem \in Documents /\ Good(mem, lastId, origin) /\ lastId \in Nat
      /\ HostsOf(mem) \subseteq 1 .. lastId
    BY <1>4, BeforeChange
<1>6. /\ DOMAIN BatchDrafts(bt) = 1 .. n
      /\ \A i \in 1 .. n : /\ BatchDrafts(bt)[i].id = lastId + i
                           /\ ProfileOf(BatchDrafts(bt)[i]) \in Profiles
    BY <1>1, <1>2, BatchDraftsAre
<1>7. DraftsAccepted(mem, BatchDrafts(bt)) /\ \A r \in bt.records : ImportHost(bt, r.host) # {}
    BY <1>4 DEF BatchFits
<1>8. /\ F \in Documents
      /\ HostsOf(F) \subseteq 1 .. (lastId + n)
      /\ HostsOf(F) \cap 1 .. lastId = HostsOf(mem)
      /\ F.hashes = mem.hashes
      /\ 1 .. lastId \subseteq 1 .. (lastId + n) /\ lastId + n \in Nat
      /\ \A G \in Documents : (ValidDoc(G) /\ G.hosts = F.hosts) => Sound(G) /\ Stable(mem, G)
    BY <1>4, <1>6, <1>7, ImportedHosts
<1>9. /\ BatchRecords(bt) \subseteq [kind : Kinds, host : Ids \cup {NONE}, name : Names]
      /\ bt.settings \in SettingValues \cup {NONE} /\ bt.hash \in Hashes
    BY <1>1, <1>2, <1>4, <1>5, <1>7, BatchRecordsAre, MigrationAssumption DEF BatchOf
<1>10. E = [F EXCEPT !.records = @ \cup BatchRecords(bt),
                     !.settings = IF bt.settings = NONE THEN @ ELSE bt.settings,
                     !.hashes = @ \cup {bt.hash}]
    BY DEF BatchApplied
<1> HIDE DEF E, F
<1>11. E \in Documents /\ E.hosts = F.hosts /\ E.hashes = F.hashes \cup {bt.hash}
    BY <1>8, <1>9, <1>10 DEF Documents
<1>12. HostsOf(E) = HostsOf(F)
    BY <1>11 DEF HostsOf
<1>13. Sound(E) /\ Stable(mem, E)
    BY <1>4, <1>8, <1>11 DEF Persist
<1>14. lastId' \in Nat /\ 1 .. lastId \subseteq 1 .. lastId'
    BY <1>4, <1>8
<1>15. ASSUME NEW h \in 1 .. lastId PROVE origin'[h] = origin[h]
    <2>1. h \in 1 .. lastId' /\ h <= lastId
        BY <1>5, <1>14
    <2> QED
        BY <1>4, <2>1
\* The imported hosts are told apart by the source host.
<1>16. ASSUME NEW h \in HostsOf(E) \ HostsOf(mem)
       PROVE  /\ h - lastId \in 1 .. n /\ origin'[h] = <<bt.hash, bt.hosts[h - lastId]>>
              /\ origin'[h][1] = bt.hash
    <2>1. h \in 1 .. (lastId + n) /\ h \notin 1 .. lastId
        BY <1>8, <1>12
    <2>2. ~(h <= lastId) /\ h - lastId \in 1 .. n
        BY <1>5, <2>1
    <2>3. origin'[h] = <<bt.hash, bt.hosts[h - lastId]>>
        BY <1>4, <2>1, <2>2
    <2>4. \A x, y : <<x, y>>[1] = x
        OBVIOUS
    <2> QED
        BY <2>2, <2>3, <2>4
<1>17. \A h \in HostsOf(mem) : origin[h] # NONE => origin[h][1] \in mem.hashes
    BY <1>5, StoreAssumption DEF Good
<1>18. ASSUME NEW g \in HostsOf(E), NEW h \in HostsOf(E), g # h, origin'[g] # NONE
       PROVE  origin'[g] # origin'[h]
    <2>1. CASE g \in HostsOf(mem) /\ h \in HostsOf(mem)
        <3>1. mem \notin {Absent, Garbled}
            BY <1>5, StoreAssumption
        <3> QED
            BY <1>5, <1>15, <1>18, <2>1, <3>1 DEF Good
    <2>2. CASE g \in HostsOf(mem) /\ h \notin HostsOf(mem)
        <3>1. origin'[g] = origin[g] /\ origin[g][1] \in mem.hashes
            BY <1>5, <1>15, <1>17, <1>18, <2>2
        <3> QED
            BY <1>4, <1>16, <2>2, <3>1
    <2>3. CASE g \notin HostsOf(mem) /\ h \in HostsOf(mem)
        <3>1. origin'[h] = origin[h] /\ (origin[h] # NONE => origin[h][1] \in mem.hashes)
            BY <1>5, <1>15, <1>17, <2>3
        <3> QED
            BY <1>4, <1>16, <1>18, <2>3, <3>1
    <2>4. CASE g \notin HostsOf(mem) /\ h \notin HostsOf(mem)
        <3>1. /\ g - lastId \in 1 .. n /\ h - lastId \in 1 .. n
              /\ origin'[g] = <<bt.hash, bt.hosts[g - lastId]>>
              /\ origin'[h] = <<bt.hash, bt.hosts[h - lastId]>>
            BY <1>16, <2>4
        <3>2. g - lastId # h - lastId
            <4>1. g \in Int /\ h \in Int
                BY <1>8, <1>12
            <4> QED
                BY <1>5, <1>18, <4>1
        <3>3. bt.hosts[g - lastId] # bt.hosts[h - lastId]
            BY <1>1, <1>3, <3>1, <3>2 DEF BatchOf
        <3> QED
            BY <3>1, <3>3
    <2> QED
        BY <2>1, <2>2, <2>3, <2>4
<1>19. ASSUME NEW h \in HostsOf(E), origin'[h] # NONE
       PROVE  origin'[h][1] \in E.hashes
    <2>1. CASE h \in HostsOf(mem)
        BY <1>5, <1>8, <1>11, <1>15, <1>17, <1>19, <2>1
    <2>2. CASE h \notin HostsOf(mem)
        BY <1>11, <1>16, <2>2
    <2> QED
        BY <2>1, <2>2
<1>20. Good(E, lastId', origin')
    <2>1. HostsOf(E) \subseteq 1 .. lastId'
        BY <1>4, <1>8, <1>12
    <2> QED
        BY <1>11, <1>13, <1>18, <1>19, <2>1 DEF Good
<1> QED
    BY <1>4, <1>11, <1>13, <1>14, <1>15, <1>20 DEF Changed

-----------------------------------------------------------------------------
(* The steps keep the invariant.                                           *)

StoreInv == StoreTypes /\ DocsInv /\ RunInv

\* A write is not NONE.
LEMMA NoneIsNoWrite ==
    /\ \A d \in Documents, p \in Phases : [doc |-> d, phase |-> p] # NONE
    /\ \A w \in [doc : Documents, phase : Phases] :
          w # NONE /\ w.doc \in Documents /\ w.phase \in Phases
BY StoreAssumption

\* A stop, a fault or a damage is taken off the budget.
LEMMA BudgetSpent ==
    ASSUME NEW b \in Budgets, b.events > 0
    PROVE  /\ LET c == [b EXCEPT !.faults = @, !.events = @ - 1]
              IN  c \in Budgets /\ c.faults = b.faults /\ c.corruptions = b.corruptions
           /\ b.faults > 0 =>
                LET c == [b EXCEPT !.faults = @ - 1, !.events = @ - 1]
                IN  c \in Budgets /\ c.faults = b.faults - 1 /\ c.corruptions = b.corruptions
           /\ b.corruptions > 0 =>
                LET c == [b EXCEPT !.corruptions = @ - 1, !.events = @ - 1]
                IN  c \in Budgets /\ c.faults = b.faults /\ c.corruptions = b.corruptions - 1
<1>1. /\ b.events \in Nat /\ b.faults \in 0 .. MaxFaults /\ b.corruptions \in 0 .. MaxCorruptions
    BY DEF Budgets
<1>2. /\ b.events - 1 \in Nat
      /\ b.faults > 0 => b.faults - 1 \in 0 .. MaxFaults
      /\ b.corruptions > 0 => b.corruptions - 1 \in 0 .. MaxCorruptions
    BY <1>1, StoreAssumption
<1>3. ASSUME NEW x \in 0 .. MaxFaults, NEW e \in Nat
      PROVE  LET c == [b EXCEPT !.faults = x, !.events = e]
             IN  c \in Budgets /\ c.faults = x /\ c.corruptions = b.corruptions
    BY DEF Budgets
<1>4. ASSUME NEW x \in 0 .. MaxCorruptions, NEW e \in Nat
      PROVE  LET c == [b EXCEPT !.corruptions = x, !.events = e]
             IN  c \in Budgets /\ c.faults = b.faults /\ c.corruptions = x
    BY DEF Budgets
<1> QED
    BY <1>1, <1>2, <1>3, <1>4, Zenon

\* Every change is persisted by one write, whose document is kept apart.
LEMMA ChangeKeepsInv ==
    ASSUME MigrationInv, NEW E, Changed(E)
    PROVE  StoreInv'
<1>1. /\ StoreTypes /\ DocsInv /\ running = "running" /\ write = NONE /\ budget.events > 0
      /\ E \in Documents /\ Persist(E)
    BY DEF MigrationInv, Changed, Persist, MayWrite
<1>2. /\ write' = [doc |-> E, phase |-> "written"] /\ budget' = [budget EXCEPT !.events = @ - 1]
      /\ mem' = mem /\ running' = running /\ primary' = primary /\ backup' = backup
      /\ acked' = acked /\ attempts' = attempts /\ older' = older
    BY <1>1 DEF Persist, diskVars, ghosts
<1>3. write' # NONE /\ write'.doc = E
    BY <1>1, <1>2, NoneIsNoWrite DEF Phases
<1>4. StoreTypes'
    <2>1. budget' \in Budgets
        BY <1>1, <1>2 DEF StoreTypes, Budgets
    <2>2. deleting' \subseteq Ids /\ lastId' \in Nat
        BY <1>1 DEF StoreTypes, Changed
    <2>3. write' \in {NONE} \cup [doc : Documents, phase : Phases]
        BY <1>1, <1>2 DEF Phases
    <2> QED
        BY <1>1, <1>2, <2>1, <2>2, <2>3 DEF StoreTypes
<1>5. DocsInv'
    <2>1. ASSUME NEW d, Good(d, lastId, origin) PROVE Good(d, lastId', origin')
        BY <2>1, GoodLasts DEF Changed
    <2>2. \A d \in Seen : Good(d, lastId', origin')
        BY <1>1, <2>1 DEF DocsInv
    <2>3. Good(E, lastId', origin')
        BY DEF Changed
    <2> QED
        BY <1>2, <1>3, <2>2, <2>3 DEF DocsInv, Seen
<1>6. RunInv'
    <2>1. \A x \in deleting' : Deletable(mem, x) /\ Deletable(E, x)
        BY <1>1 DEF MigrationInv, RunInv, Changed
    <2>2. Stable(mem, E)
        BY DEF Changed
    <2> QED
        BY <1>1, <1>2, <1>3, <2>1, <2>2 DEF RunInv
<1> QED
    BY <1>4, <1>5, <1>6 DEF StoreInv

\* The other steps only move documents that were seen, or clean one.
LEMMA Moved ==
    ASSUME StoreTypes, DocsInv, lastId' = lastId, OriginStep \/ origin' = origin,
           \A d \in Seen' : \/ d \in Seen \cup {EmptyDoc, Absent, Garbled}
                            \/ \E c \in Seen \cap Documents : d = Cleaned(c)
    PROVE  DocsInv'
<1>1. lastId \in Nat /\ 1 .. lastId \subseteq 1 .. lastId'
    BY DEF StoreTypes
<1>2. \A h \in 1 .. lastId : origin'[h] = origin[h]
    BY <1>1, OriginGrows DEF OriginStep
<1>3. ASSUME NEW d, Good(d, lastId, origin) PROVE Good(d, lastId', origin')
    BY <1>1, <1>2, <1>3, GoodLasts
<1>4. ASSUME NEW d, d \in Seen' PROVE Good(d, lastId, origin)
    <2>1. CASE d \in Seen
        BY <2>1 DEF DocsInv
    <2>2. CASE d \in {EmptyDoc, Absent, Garbled}
        BY <2>2, EmptyIsGood DEF Good
    <2>3. CASE \E c \in Seen \cap Documents : d = Cleaned(c)
        BY <2>3, CleanedIsGood DEF DocsInv
    <2> QED
        BY <1>4, <2>1, <2>2, <2>3
<1> QED
    BY <1>3, <1>4 DEF DocsInv

\* The steps of write_state before its end.
LEMMA WriteStepKeepsInv ==
    ASSUME StoreInv, MoveAside \/ Replace \/ Fails, OriginStep
    PROVE  StoreInv'
<1>1. StoreTypes /\ DocsInv /\ RunInv
    BY DEF StoreInv
<1>2. /\ write # NONE /\ write \in [doc : Documents, phase : Phases]
      /\ write.doc \in Documents /\ primary \in Files /\ backup \in Files
    BY <1>1 DEF MoveAside, Replace, Fails, StoreTypes
<1>3. /\ mem' = mem /\ deleting' = deleting /\ lastId' = lastId
      /\ acked' = acked /\ older' = older
    BY DEF MoveAside, Replace, Fails, diskVars, ghosts
<1>4. CASE MoveAside
    <2>1. /\ write' = [doc |-> write.doc, phase |-> "moved"]
          /\ running' = running /\ primary' = Absent /\ backup' = primary
          /\ attempts' = attempts /\ budget' = budget
        BY <1>2, <1>4 DEF MoveAside, ghosts
    <2>2. write' # NONE /\ write'.doc = write.doc /\ write' \in [doc : Documents, phase : Phases]
        BY <1>2, <2>1, NoneIsNoWrite DEF Phases
    <2>3. StoreTypes'
        BY <1>1, <1>2, <1>3, <2>1, <2>2 DEF StoreTypes, Files
    <2>4. \A d \in Seen' : d \in Seen \cup {Absent}
        BY <1>2, <1>3, <2>1, <2>2 DEF Seen
    <2>5. RunInv'
        BY <1>1, <1>2, <1>3, <2>1, <2>2 DEF RunInv
    <2> QED
        BY <1>1, <1>3, <2>3, <2>4, <2>5, Moved DEF StoreInv
<1>5. CASE Replace
    <2>1. /\ write' = [doc |-> write.doc, phase |-> "replaced"]
          /\ running' = running /\ primary' = write.doc /\ backup' = backup
          /\ attempts' \subseteq attempts \cup {write.doc} /\ budget' = budget
        BY <1>2, <1>5 DEF Replace
    <2>2. write' # NONE /\ write'.doc = write.doc /\ write' \in [doc : Documents, phase : Phases]
        BY <1>2, <2>1, NoneIsNoWrite DEF Phases
    <2>3. StoreTypes'
        BY <1>1, <1>2, <1>3, <2>1, <2>2 DEF StoreTypes, Files
    <2>4. \A d \in Seen' : d \in Seen
        BY <1>2, <1>3, <2>1, <2>2 DEF Seen
    <2>5. RunInv'
        BY <1>1, <1>2, <1>3, <2>1, <2>2 DEF RunInv
    <2> QED
        BY <1>1, <1>3, <2>3, <2>4, <2>5, Moved DEF StoreInv
<1>6. CASE Fails
    <2>1. /\ write' = NONE /\ running' = (IF running = "opening" THEN "down" ELSE running)
          /\ \/ primary' = primary /\ backup' = backup
             \/ primary' = backup /\ backup' = Absent
          /\ attempts' = attempts
          /\ budget.faults > 0 /\ budget.events > 0
          /\ budget' = [budget EXCEPT !.faults = @ - 1, !.events = @ - 1]
        BY <1>6 DEF Fails, diskVars, ghosts
    <2>2. budget' \in Budgets
        BY <1>1, <2>1, BudgetSpent DEF StoreTypes
    <2>3. StoreTypes'
        BY <1>1, <1>3, <2>1, <2>2 DEF StoreTypes, Files
    <2>4. \A d \in Seen' : d \in Seen \cup {EmptyDoc, Absent}
        BY <1>3, <2>1 DEF Seen
    <2>5. RunInv'
        BY <1>1, <1>3, <2>1 DEF RunInv
    <2> QED
        BY <1>1, <1>3, <2>3, <2>4, <2>5, Moved DEF StoreInv
<1> QED
    BY <1>4, <1>5, <1>6

\* open or a write ends with a document, or cleans it first.
LEMMA FinishedKeeps ==
    ASSUME StoreInv, NEW doc \in Documents, Finished(doc)
    PROVE  /\ mem' \in Documents /\ acked' \in Documents \cup {NONE}
           /\ attempts' \subseteq Documents /\ older' \subseteq Documents
           /\ \/ /\ running # "running" /\ running' = "opening" /\ mem' = mem
                 /\ write' = [doc |-> Cleaned(doc), phase |-> "written"]
                 /\ acked' = acked /\ attempts' = attempts /\ older' = older
              \/ /\ running' = "running" /\ write' = NONE /\ mem' = doc
                 /\ acked' = doc /\ attempts' = {}
                 /\ older' = ((IF running = "running" THEN {} ELSE older)
                                \cup attempts \cup {acked}) \ {doc, NONE}
           /\ write' \in {NONE} \cup [doc : Documents, phase : Phases]
<1>1. /\ mem \in Documents /\ acked \in Documents \cup {NONE}
      /\ attempts \subseteq Documents /\ older \subseteq Documents
    BY DEF StoreInv, StoreTypes
<1>2. CASE running # "running" /\ doc.stray # {}
    <2>1. /\ running' = "opening" /\ mem' = mem /\ write' = [doc |-> Cleaned(doc), phase |-> "written"]
          /\ acked' = acked /\ attempts' = attempts /\ older' = older
        BY <1>2 DEF Finished, ghosts
    <2>2. Cleaned(doc) \in Documents
        BY CleanedIsGood
    <2>3. write' \in [doc : Documents, phase : Phases]
        BY <2>1, <2>2 DEF Phases
    <2> QED
        BY <1>1, <1>2, <2>1, <2>3
<1>3. CASE ~(running # "running" /\ doc.stray # {})
    <2>1. /\ write' = NONE /\ running' = "running" /\ mem' = doc
          /\ acked' = doc /\ attempts' = {}
          /\ older' = ((IF running = "running" THEN {} ELSE older)
                         \cup attempts \cup {acked}) \ {doc, NONE}
        BY <1>3 DEF Finished
    <2> QED
        BY <1>1, <2>1
<1> QED
    BY <1>2, <1>3

\* The end of write_state: the document that was checked becomes the one in memory.
LEMMA WriteEndsKeepsInv ==
    ASSUME StoreInv, WriteEnds, OriginStep
    PROVE  StoreInv'
<1>1. StoreTypes /\ DocsInv /\ RunInv
    BY DEF StoreInv
<1>2. /\ write # NONE /\ write.doc \in Documents
      /\ primary \in Files /\ backup \in Files
    BY <1>1 DEF WriteEnds, StoreTypes
<1>3. /\ Finished(write.doc)
      /\ deleting' = deleting /\ primary' = primary /\ backup' = backup /\ lastId' = lastId
      /\ budget' = budget
    BY DEF WriteEnds, diskVars
<1>4. /\ mem' \in Documents /\ acked' \in Documents \cup {NONE}
      /\ attempts' \subseteq Documents /\ older' \subseteq Documents
      /\ \/ /\ running # "running" /\ running' = "opening" /\ mem' = mem
            /\ write' = [doc |-> Cleaned(write.doc), phase |-> "written"]
         \/ running' = "running" /\ write' = NONE /\ mem' = write.doc
      /\ write' \in {NONE} \cup [doc : Documents, phase : Phases]
    BY <1>2, <1>3, FinishedKeeps
<1>6. Cleaned(write.doc) \in Documents
    BY <1>2, CleanedIsGood
<1>7. [doc |-> Cleaned(write.doc), phase |-> "written"] # NONE
    BY <1>6, NoneIsNoWrite DEF Phases
<1>8. StoreTypes'
    BY <1>1, <1>3, <1>4, <1>7 DEF StoreTypes
<1>9. DocsInv'
    <2>1. write.doc \in Seen
        BY <1>2 DEF Seen
    <2>2. \A d \in Seen' : \/ d \in Seen \cup {EmptyDoc}
                           \/ d = Cleaned(write.doc)
        BY <1>2, <1>3, <1>4, <1>7 DEF Seen
    <2> QED
        BY <1>1, <1>2, <1>3, <2>1, <2>2, Moved
<1>10. RunInv'
    <2>1. CASE running = "running"
        BY <1>1, <1>2, <1>3, <1>4, <2>1 DEF RunInv
    <2>2. CASE running # "running"
        <3>1. running = "opening"
            BY <1>1, <1>2, <2>2 DEF StoreTypes
        <3> QED
            BY <1>1, <1>3, <1>4, <3>1 DEF RunInv
    <2> QED
        BY <2>1, <2>2
<1> QED
    BY <1>8, <1>9, <1>10 DEF StoreInv

\* open.
LEMMA OpenKeepsInv ==
    ASSUME StoreInv, OpenStore, OriginStep
    PROVE  StoreInv'
<1>1. StoreTypes /\ DocsInv /\ RunInv
    BY DEF StoreInv
<1>2. /\ running = "down" /\ deleting' = {} /\ primary' = primary /\ backup' = backup
      /\ lastId' = lastId /\ budget' = budget /\ primary \in Files /\ backup \in Files
      /\ write = NONE
    BY <1>1 DEF OpenStore, StoreTypes, diskVars
\* The four ways to open, of which two write a document.
<1>3. ASSUME NEW doc \in Documents, Finished(doc), doc \in Seen
      PROVE  StoreInv'
    <2>1. /\ mem' \in Documents /\ acked' \in Documents \cup {NONE}
          /\ attempts' \subseteq Documents /\ older' \subseteq Documents
          /\ \/ /\ running' = "opening" /\ mem' = mem
                /\ write' = [doc |-> Cleaned(doc), phase |-> "written"]
             \/ running' = "running" /\ write' = NONE /\ mem' = doc
          /\ write' \in {NONE} \cup [doc : Documents, phase : Phases]
        BY <1>3, FinishedKeeps
    <2>2. Cleaned(doc) \in Documents
        BY CleanedIsGood
    <2>3. [doc |-> Cleaned(doc), phase |-> "written"] # NONE
        BY <2>2, NoneIsNoWrite DEF Phases
    <2>4. StoreTypes'
        BY <1>1, <1>2, <1>3, <2>1, <2>3 DEF StoreTypes
    <2>5. \A d \in Seen' : d \in Seen \cup {EmptyDoc} \/ d = Cleaned(doc)
        BY <1>2, <1>3, <2>1, <2>3 DEF Seen
    <2>6. DocsInv'
        BY <1>1, <1>2, <1>3, <2>5, Moved
    <2>7. RunInv'
        BY <1>2, <2>1 DEF RunInv
    <2> QED
        BY <2>4, <2>6, <2>7 DEF StoreInv
<1>4. ASSUME NEW doc \in Documents, doc \in Seen \cup {EmptyDoc}, running' = "opening",
             write' = [doc |-> doc, phase |-> "written"], UNCHANGED <<mem, ghosts>>
      PROVE  StoreInv'
    <2>1. write' # NONE /\ write'.doc = doc /\ write' \in [doc : Documents, phase : Phases]
        BY <1>4, NoneIsNoWrite DEF Phases
    <2>2. StoreTypes'
        BY <1>1, <1>2, <1>4, <2>1 DEF StoreTypes, ghosts
    <2>3. \A d \in Seen' : d \in Seen \cup {EmptyDoc}
        BY <1>2, <1>4, <2>1 DEF Seen
    <2>4. DocsInv'
        BY <1>1, <1>2, <2>3, Moved
    <2>5. RunInv'
        BY <1>2, <1>4 DEF RunInv
    <2> QED
        BY <2>2, <2>4, <2>5 DEF StoreInv
<1>5. ASSUME running' = "stuck", UNCHANGED <<mem, write, ghosts>>
      PROVE  StoreInv'
    <2>1. StoreTypes'
        BY <1>1, <1>2, <1>5 DEF StoreTypes, ghosts
    <2>2. \A d \in Seen' : d \in Seen
        BY <1>2, <1>5 DEF Seen
    <2>3. DocsInv'
        BY <1>1, <1>2, <2>2, Moved
    <2>4. RunInv'
        BY <1>5 DEF RunInv
    <2> QED
        BY <2>1, <2>3, <2>4 DEF StoreInv
<1>6. primary \in Seen /\ backup \in Seen
    BY DEF Seen
<1>7. EmptyDoc \in Documents
    BY EmptyIsGood
<1> QED
    BY <1>2, <1>3, <1>4, <1>5, <1>6, <1>7 DEF OpenStore, Readable, Files

\* Stops and damages move no document the program did not write.
LEMMA StopKeepsInv ==
    ASSUME StoreInv, ProcessStops \/ Corrupt, OriginStep
    PROVE  StoreInv'
<1>1. StoreTypes /\ DocsInv /\ RunInv
    BY DEF StoreInv
<1>2. primary \in Files /\ backup \in Files /\ budget \in Budgets
    BY <1>1 DEF StoreTypes
<1>3. /\ mem' = mem /\ deleting' = deleting /\ lastId' = lastId
      /\ acked' = acked /\ attempts' = attempts /\ older' = older
    BY DEF ProcessStops, Corrupt, ghosts
<1>4. CASE ProcessStops
    <2>1. /\ running' = "down" /\ write' = NONE
          /\ primary' = primary /\ backup' = backup /\ budget' \in Budgets
        BY <1>2, <1>4, BudgetSpent DEF ProcessStops, diskVars
    <2>2. StoreTypes'
        BY <1>1, <1>2, <1>3, <2>1 DEF StoreTypes
    <2>4. \A d \in Seen' : d \in Seen \cup {EmptyDoc}
        BY <1>3, <2>1 DEF Seen
    <2>5. DocsInv'
        BY <1>1, <1>3, <2>4, Moved
    <2> QED
        BY <2>1, <2>2, <2>5 DEF StoreInv, RunInv
<1>5. CASE Corrupt
    <2>1. /\ running' = running /\ write' = write /\ write = NONE /\ backup' = backup
          /\ primary' = Garbled /\ budget' \in Budgets
        BY <1>2, <1>5, BudgetSpent DEF Corrupt
    <2>4. StoreTypes'
        BY <1>1, <1>2, <1>3, <2>1 DEF StoreTypes, Files
    <2>6. \A d \in Seen' : d \in Seen \cup {Garbled}
        BY <1>3, <2>1 DEF Seen
    <2>7. DocsInv'
        BY <1>1, <1>3, <2>6, Moved
    <2>8. RunInv'
        BY <1>1, <1>3, <2>1 DEF RunInv
    <2> QED
        BY <2>4, <2>7, <2>8 DEF StoreInv
<1> QED
    BY <1>4, <1>5

\* begin_host_deletion checks what the invariant says of a marked host.
LEMMA MarkKeepsInv ==
    ASSUME StoreInv, NEW h, BeginHostDeletion(h) \/ AbortHostDeletion(h), OriginStep
    PROVE  StoreInv'
<1>1. StoreTypes /\ DocsInv /\ RunInv
    BY DEF StoreInv
<1>2. /\ running = "running" /\ write = NONE
      /\ UNCHANGED <<mem, running, write, primary, backup, lastId, acked, attempts,
                     older, budget>>
      /\ \/ Deletable(mem, h) /\ deleting' = deleting \cup {h}
         \/ deleting' = deleting \ {h}
    BY DEF BeginHostDeletion, AbortHostDeletion, diskVars, ghosts
<1>3. deleting' \subseteq Ids /\ \A x \in deleting' : Deletable(mem, x)
    BY <1>1, <1>2 DEF StoreTypes, RunInv, Deletable, HostsOf
<1>4. StoreTypes'
    BY <1>1, <1>2, <1>3 DEF StoreTypes
<1>5. \A d \in Seen' : d \in Seen
    BY <1>2 DEF Seen
<1>6. DocsInv'
    BY <1>1, <1>2, <1>5, Moved
<1>7. RunInv'
    BY <1>2, <1>3 DEF RunInv
<1> QED
    BY <1>4, <1>6, <1>7 DEF StoreInv

\* All steps of the store.
LEMMA StoreStepKeepsInv ==
    ASSUME MigrationInv, StoreStep
    PROVE  StoreInv'
<1>1. StoreInv /\ StoreNext /\ OriginStep
    BY DEF MigrationInv, StoreInv, StoreStep, OriginStep
<1>2. ASSUME NEW h, NEW d \in Drafts, SaveHostRequest(h, d) PROVE StoreInv'
    BY <1>1, <1>2, SaveHostChanges, ChangeKeepsInv
<1>3. ASSUME NEW h, FinishHostDeletion(h) PROVE StoreInv'
    BY <1>1, <1>3, FinishHostDeletionChanges, ChangeKeepsInv
<1>4. ASSUME NEW h, BeginHostDeletion(h) \/ AbortHostDeletion(h) PROVE StoreInv'
    BY <1>1, <1>4, MarkKeepsInv
<1>5. ASSUME NEW old, NEW new \in Records, SaveRecord(old, new) PROVE StoreInv'
    BY <1>1, <1>5, SaveRecordChanges, ChangeKeepsInv
<1>6. ASSUME NEW record, NEW h, DeleteTunnel(record) \/ DeleteCommand(record, h) PROVE StoreInv'
    <2>1. Persist([mem EXCEPT !.records = @ \ {record}]) /\ UNCHANGED <<deleting, lastId>>
        BY <1>6 DEF DeleteTunnel, DeleteCommand
    <2> QED
        BY <1>1, <2>1, DeleteRecordChanges, ChangeKeepsInv
<1>7. ASSUME NEW value \in SettingValues, UpdateSettings(value) PROVE StoreInv'
    BY <1>1, <1>7, UpdateSettingsChanges, ChangeKeepsInv
<1>8. CASE MoveAside \/ Replace \/ Fails
    BY <1>1, <1>8, WriteStepKeepsInv
<1>9. CASE WriteEnds
    BY <1>1, <1>9, WriteEndsKeepsInv
<1>10. CASE OpenStore
    BY <1>1, <1>10, OpenKeepsInv
<1>11. CASE ProcessStops \/ Corrupt
    BY <1>1, <1>11, StopKeepsInv
<1> QED
    BY <1>1, <1>2, <1>3, <1>4, <1>5, <1>6, <1>7, <1>8, <1>9, <1>10, <1>11 DEF StoreNext

\* A step that changes only the batches.
LEMMA SameStore ==
    ASSUME StoreInv, UNCHANGED <<storeVars, origin>>
    PROVE  StoreInv'
<1>1. UNCHANGED <<mem, deleting, running, write, primary, backup, lastId,
                  acked, attempts, older, budget, origin>>
    BY DEF storeVars
<1>2. StoreTypes' /\ RunInv'
    BY <1>1 DEF StoreInv, StoreTypes, RunInv
<1>3. DocsInv'
    BY <1>1 DEF StoreInv, DocsInv, Seen
<1> QED
    BY <1>2, <1>3 DEF StoreInv

\* A batch is what build_import_batch made, until import_batch takes it.
LEMMA BatchStep ==
    ASSUME MigrationInv, [MigrationNext]_allVars
    PROVE  BatchInv'
<1>1. BatchInv
    BY DEF MigrationInv
<1>2. CASE StoreStep
    <2>1. CASE running' = "down"
        <3>1. batch' = [c \in Clients |-> NONE]
            BY <1>2, <2>1 DEF StoreStep
        <3> QED
            BY <3>1 DEF BatchInv
    <2>2. CASE running' # "down"
        BY <1>1, <1>2, <2>2 DEF StoreStep, BatchInv
    <2> QED
        BY <2>1, <2>2
<1>3. ASSUME NEW candidates, ImportSshConfig(candidates) PROVE BatchInv'
    BY <1>1, <1>3 DEF ImportSshConfig, BatchInv
<1>4. ASSUME NEW c \in Clients, ApplyImport(c) \/ ApplyRefused(c) PROVE BatchInv'
    <2>1. batch' = [batch EXCEPT ![c] = NONE]
        BY <1>4 DEF ApplyImport, ApplyRefused
    <2>2. DOMAIN batch' = Clients /\ \A x \in Clients : batch'[x] \in {NONE, batch[x]}
        BY <1>1, <2>1 DEF BatchInv
    <2> QED
        BY <1>1, <2>2 DEF BatchInv
<1>5. ASSUME NEW c \in Clients, NEW b \in Bundles, NEW selection, ApplyLoad(c, b, selection)
      PROVE  BatchInv'
    <2> DEFINE bt == BatchFor(b, mem, selection)
    <2>1. Loads(b) /\ batch' = [batch EXCEPT ![c] = bt]
        BY <1>5 DEF ApplyLoad
    <2>2. BatchOf(bt, b)
        BY <2>1, BatchForOfSource
    <2> HIDE DEF bt
    <2>3. DOMAIN batch' = Clients /\ \A x \in Clients : batch'[x] = IF x = c THEN bt ELSE batch[x]
        BY <1>1, <2>1 DEF BatchInv
    <2> QED
        BY <1>1, <2>2, <2>3 DEF BatchInv
<1>6. CASE UNCHANGED allVars
    BY <1>1, <1>6 DEF allVars, migrationVars, BatchInv
<1> QED
    BY <1>2, <1>3, <1>4, <1>5, <1>6 DEF MigrationNext

\* Before the first start.
LEMMA MigrationInitInv ==
    ASSUME MigrationInit
    PROVE  MigrationInv
<1>1. StoreInit /\ batch = [c \in Clients |-> NONE] /\ origin = [h \in 1 .. lastId |-> NONE]
    BY DEF MigrationInit
<1>2. /\ EmptyDoc \in Documents /\ HostsOf(EmptyDoc) = {}
      /\ \A last, from : Good(EmptyDoc, last, from)
    BY EmptyIsGood
<1>3. primary \in Files /\ primary \in InitialDocs /\ primary # Garbled
    BY <1>1, StoreAssumption DEF StoreInit, Files
<1>4. lastId \in Nat /\ (primary # Absent => HostsOf(primary) = 1 .. lastId /\ Sound(primary))
    <2>1. CASE primary = Absent
        BY <1>1, <2>1 DEF StoreInit
    <2>2. CASE primary # Absent
        <3>1. lastId = Cardinality(HostsOf(primary))
            BY <1>1, <2>2 DEF StoreInit
        <3>2. IsFiniteSet(HostsOf(primary))
            <4>1. IsFiniteSet(1 .. MaxIds)
                BY StoreAssumption, FS_Interval
            <4>2. HostsOf(primary) \subseteq 1 .. MaxIds
                BY DEF HostsOf, Ids
            <4> QED
                BY <4>1, <4>2, FS_Subset
        <3>3. lastId \in Nat
            BY <3>1, <3>2, FS_CardinalityType
        <3> QED
            BY <1>3, <2>2, <3>1, <3>3, StoreAssumption
    <2> QED
        BY <2>1, <2>2
<1>5. StoreTypes
    <2>1. budget \in Budgets
        BY <1>1, StoreAssumption DEF StoreInit, Budgets
    <2>2. acked \in Documents \cup {NONE}
        BY <1>1, <1>3 DEF StoreInit, Files
    <2> QED
        BY <1>1, <1>2, <1>3, <1>4, <2>1, <2>2 DEF StoreInit, StoreTypes, Files
<1>6. Good(primary, lastId, origin)
    BY <1>1, <1>3, <1>4 DEF Good, Files
<1>7. DocsInv
    <2>1. backup = Absent
          /\ mem = EmptyDoc /\ write = NONE
        BY <1>1 DEF StoreInit
    <2>2. Good(Absent, lastId, origin)
        BY DEF Good
    <2> QED
        BY <1>2, <1>6, <2>1, <2>2 DEF DocsInv, Seen
<1>8. RunInv
    BY <1>1 DEF StoreInit, RunInv
<1>9. BatchInv
    BY <1>1 DEF BatchInv
<1> QED
    BY <1>5, <1>7, <1>8, <1>9 DEF MigrationInv

\* Each step of the store or of an import keeps the invariant.
LEMMA MigrationNextInv ==
    ASSUME MigrationInv, [MigrationNext]_allVars
    PROVE  MigrationInv'
<1>1. StoreInv
    BY DEF MigrationInv, StoreInv
<1>2. ASSUME NEW candidates \in SshConfigs, ImportSshConfig(candidates) PROVE StoreInv'
    BY <1>2, ImportSshConfigChanges, ChangeKeepsInv
<1>3. ASSUME NEW c \in Clients, ApplyImport(c) PROVE StoreInv'
    BY <1>3, ApplyImportChanges, ChangeKeepsInv
<1>4. ASSUME NEW c, ApplyRefused(c) PROVE StoreInv'
    BY <1>1, <1>4, SameStore DEF ApplyRefused
<1>5. ASSUME NEW c, NEW b, NEW selection, ApplyLoad(c, b, selection) PROVE StoreInv'
    BY <1>1, <1>5, SameStore DEF ApplyLoad
<1>6. ASSUME UNCHANGED allVars PROVE StoreInv'
    <2>1. UNCHANGED <<storeVars, origin>>
        BY <1>6 DEF allVars, migrationVars, storeVars
    <2> QED
        BY <1>1, <2>1, SameStore
<1>7. ASSUME StoreStep PROVE StoreInv'
    BY <1>7, StoreStepKeepsInv
<1>9. StoreInv'
    BY <1>2, <1>3, <1>4, <1>5, <1>6, <1>7 DEF MigrationNext
<1>8. BatchInv'
    BY BatchStep
<1> QED
    BY <1>8, <1>9 DEF MigrationInv, StoreInv

\* The inductive invariant holds in every state the store and the imports reach.
THEOREM MigrationInvariance == MigrationSpec => []MigrationInv
<1>1. MigrationInit => MigrationInv
    BY MigrationInitInv
<1>2. MigrationInv /\ [MigrationNext]_allVars => MigrationInv'
    BY MigrationNextInv
<1> QED
    BY <1>1, <1>2, PTL DEF MigrationSpec

\* Whatever clients save, rename, import and delete, every saved jump resolves to one
\* direct host, and a host whose deletion was begun stays deletable (save_host,
\* import_batch, begin_host_deletion).
THEOREM NoHostLosesItsJump == MigrationSpec => []JumpsAreSound
<1>1. MigrationInv => JumpsAreSound
    <2> SUFFICES ASSUME MigrationInv PROVE JumpsAreSound
        OBVIOUS
    <2>1. mem \in Documents /\ Good(mem, lastId, origin) /\ mem \notin {Absent, Garbled}
        BY StoreAssumption DEF MigrationInv, StoreTypes, DocsInv, Seen
    <2>2. Sound(mem)
        BY <2>1 DEF Good
    <2>3. JumpsAreDirect
        BY <2>2 DEF Sound, JumpsAreDirect
    <2>4. PreparedDeletionHolds
        BY DEF MigrationInv, RunInv, PreparedDeletionHolds
    <2> QED
        BY <2>3, <2>4 DEF JumpsAreSound
<1> QED
    BY <1>1, MigrationInvariance, PTL

\* Two applies of one source that pass the first check of the hash do not both import
\* it (import_batch), whatever fails or restarts in between.
THEOREM NoSourceIsImportedTwice == MigrationSpec => []ImportedOnce
<1>1. MigrationInv => ImportedOnce
    <2> SUFFICES ASSUME MigrationInv PROVE ImportedOnce
        OBVIOUS
    <2>1. Good(mem, lastId, origin) /\ mem \notin {Absent, Garbled}
        BY StoreAssumption DEF MigrationInv, StoreTypes, DocsInv, Seen
    <2> QED
        BY <2>1 DEF Good, ImportedOnce
<1> QED
    BY <1>1, MigrationInvariance, PTL

\* Only open and the end of a write put another document into memory.
LEMMA MemoryChanges ==
    ASSUME MigrationInv, [MigrationNext]_allVars
    PROVE  \/ mem' = mem
           \/ running # "running"
           \/ write # NONE /\ mem' = write.doc
<1>1. ASSUME NEW E, Persist(E) PROVE mem' = mem
    BY <1>1 DEF Persist
<1>2. CASE StoreStep
    <2>1. StoreNext
        BY <1>2 DEF StoreStep
    <2>2. ASSUME NEW h, NEW d, SaveHostRequest(h, d) PROVE mem' = mem
        BY <1>1, <2>2 DEF SaveHostRequest, SaveHost
    <2>3. ASSUME NEW h, BeginHostDeletion(h) \/ FinishHostDeletion(h) \/ AbortHostDeletion(h)
          PROVE  mem' = mem
        BY <1>1, <2>3 DEF BeginHostDeletion, FinishHostDeletion, AbortHostDeletion
    <2>4. ASSUME NEW old, NEW new, SaveRecord(old, new) PROVE mem' = mem
        BY <1>1, <2>4 DEF SaveRecord
    <2>5. ASSUME NEW record, NEW h, DeleteTunnel(record) \/ DeleteCommand(record, h)
          PROVE  mem' = mem
        BY <1>1, <2>5 DEF DeleteTunnel, DeleteCommand
    <2>6. ASSUME NEW value, UpdateSettings(value) PROVE mem' = mem
        BY <1>1, <2>6 DEF UpdateSettings
    <2>7. ASSUME MoveAside \/ Replace \/ Fails \/ ProcessStops \/ Corrupt PROVE mem' = mem
        BY <2>7 DEF MoveAside, Replace, Fails, ProcessStops, Corrupt
    <2>8. CASE WriteEnds
        BY <2>8 DEF WriteEnds, Finished
    <2>9. CASE OpenStore
        BY <2>9 DEF OpenStore
    <2> QED
        BY <2>1, <2>2, <2>3, <2>4, <2>5, <2>6, <2>7, <2>8, <2>9 DEF StoreNext
<1>3. ASSUME NEW candidates, ImportSshConfig(candidates) PROVE mem' = mem
    BY <1>1, <1>3 DEF ImportSshConfig, ImportHosts
<1>4. ASSUME NEW c, ApplyImport(c) PROVE mem' = mem
    BY <1>1, <1>4 DEF ApplyImport
<1>5. ASSUME NEW c, NEW b, NEW selection, ApplyRefused(c) \/ ApplyLoad(c, b, selection)
      PROVE  mem' = mem
    BY <1>5 DEF ApplyRefused, ApplyLoad, storeVars
<1>6. ASSUME UNCHANGED allVars PROVE mem' = mem
    BY <1>6 DEF allVars, storeVars
<1> QED
    BY <1>2, <1>3, <1>4, <1>5, <1>6 DEF MigrationNext

\* No change of one host reroutes another (apply_host_update retargets references by
\* an old alias; a jump is stored as an id).
THEOREM NoHostIsRerouted == MigrationSpec => RoutesAreStable
<1>1. MigrationInv /\ [MigrationNext]_allVars =>
        [\A h \in HostsOf(mem) \cap HostsOf(mem') :
            \/ Route(mem', h) = Route(mem, h)
            \/ running # "running"
            \/ mem'.hosts[h].jump # mem.hosts[h].jump /\ Cardinality(
                  {g \in HostsOf(mem) : mem'.hosts[g] # mem.hosts[g]}) = 1]_storeVars
    <2> SUFFICES ASSUME MigrationInv, [MigrationNext]_allVars, running = "running",
                        NEW h \in HostsOf(mem) \cap HostsOf(mem')
                 PROVE  \/ Route(mem', h) = Route(mem, h)
                        \/ mem'.hosts[h].jump # mem.hosts[h].jump /\ Cardinality(
                              {g \in HostsOf(mem) : mem'.hosts[g] # mem.hosts[g]}) = 1
        OBVIOUS
    <2>1. CASE mem' = mem
        BY <2>1
    <2>2. CASE write # NONE /\ mem' = write.doc
        <3>1. Stable(mem, write.doc)
            BY <2>2 DEF MigrationInv, RunInv
        <3> QED
            BY <2>2, <3>1 DEF Stable
    <2> QED
        BY <2>1, <2>2, MemoryChanges
<1> QED
    BY <1>1, MigrationInvariance, PTL DEF MigrationSpec, RoutesAreStable

-----------------------------------------------------------------------------
(* What a restart finds.                                                   *)

\* A copy that is what a start should find.
Holds(b) == b \in Documents /\ Cleaned(b) \in Wanted

\* A backup serves in the place of a damaged primary.
Serves(b) ==
    /\ b \in Documents => Cleaned(b) \in CleanOf(Latest \cup older)
    /\ NoFault /\ older # {} => b \in Documents

\* Before the first acknowledged document there are only the defaults.
FirstInv == acked = NONE =>
    /\ running # "running" /\ older = {} /\ attempts = {} /\ backup = Absent
    /\ primary \in {Absent, EmptyDoc, Garbled}
    /\ running = "opening" =>
          /\ write.doc = EmptyDoc /\ write.phase # "moved"
          /\ write.phase = "written" => primary = Absent
          /\ write.phase = "replaced" => primary = EmptyDoc

\* The primary is what a start should find, or the backup is; and the backup serves
\* as long as the primary may yet be damaged, or is.
FilesInv ==
    /\ primary = Garbled => Damaged
    /\ acked # NONE =>
          /\ primary = Absent => Holds(backup)
          /\ primary \in Documents =>
                Cleaned(primary) \in Wanted \/ (primary = EmptyDoc /\ Holds(backup))
          /\ ~Damaged \/ primary = Garbled => Serves(backup)

\* While the store runs the files are those of the last two writes.
RunningFiles == running = "running" =>
    /\ acked # NONE
    /\ IF write # NONE /\ write.phase = "replaced"
       THEN /\ primary = write.doc /\ attempts = {write.doc}
            /\ ~Damaged => backup = acked
       ELSE /\ attempts = {}
            /\ primary \in {acked, Garbled} \/ (primary = Absent /\ backup = acked)
    /\ write # NONE /\ write.phase = "moved" => primary = Absent

\* A start writes what it should find, or the defaults while the backup has it.
OpeningFiles == running = "opening" /\ acked # NONE =>
    /\ Cleaned(write.doc) \in Wanted \/ (write.doc = EmptyDoc /\ Holds(backup))
    /\ write.phase = "written" /\ primary \in Documents => Cleaned(primary) \in Wanted
    /\ write.phase = "moved" => primary = Absent
    /\ write.phase = "replaced" => primary = write.doc

\* Until a write fails or is interrupted the primary is missing only within a write.
FaultlessInv == NoFault /\ acked # NONE =>
    /\ running = "down" => attempts = {} /\ primary \in {acked, Garbled}
    /\ running = "opening" =>
          backup \in Documents \/ (write.phase = "written" /\ primary \in Documents)
    /\ primary = Absent => write # NONE /\ write.phase = "moved"

\* The inductive invariant of the files.
DiskInv == FirstInv /\ FilesInv /\ RunningFiles /\ OpeningFiles /\ FaultlessInv

\* The primary is damaged at most once; writes fail and stop as often as they may.
OneDamage == MaxCorruptions <= 1

\* What validate_persisted_state makes of the files the program wrote.
LEMMA ReadableFiles ==
    ASSUME StoreInv
    PROVE  /\ Readable(primary) <=> primary \in Documents
           /\ Readable(backup) <=> backup \in Documents
           /\ primary \in Documents \/ primary \in {Absent, Garbled}
           /\ backup \in Documents \/ backup \in {Absent, Garbled}
<1>1. primary \in Seen /\ backup \in Seen
    BY DEF Seen
<1>2. Good(primary, lastId, origin) /\ Good(backup, lastId, origin)
    BY <1>1 DEF StoreInv, DocsInv
<1>3. primary \in Files /\ backup \in Files
    BY DEF StoreInv, StoreTypes
<1> QED
    BY <1>2, <1>3, StoreAssumption DEF Readable, Good, Sound, Files

\* Files, documents and NONE are told apart.
LEMMA Apart ==
    ASSUME StoreInv
    PROVE  /\ Absent \notin Documents /\ Garbled \notin Documents /\ NONE \notin Documents
           /\ Absent # Garbled /\ NONE \notin {Absent, Garbled}
           /\ EmptyDoc \in Documents /\ EmptyDoc.stray = {}
           /\ acked \in Documents \cup {NONE} /\ (write # NONE => write.doc \in Documents)
           /\ running = "opening" => write # NONE
           /\ running = "down" => write = NONE
BY StoreAssumption, EmptyIsGood, NoneIsNoWrite DEF StoreInv, StoreTypes, EmptyDoc

\* What a step makes of the faults and damages so far.
LEMMA Budget ==
    ASSUME StoreInv
    PROVE  /\ budget \in Budgets
           /\ budget.faults - 1 # MaxFaults \/ budget.faults = 0
           /\ OneDamage /\ budget.corruptions > 0 => ~Damaged
           /\ budget.corruptions > 0 => budget.corruptions - 1 < MaxCorruptions
<1>1. /\ budget \in Budgets /\ budget.faults \in 0 .. MaxFaults
      /\ budget.corruptions \in 0 .. MaxCorruptions
      /\ MaxFaults \in Nat /\ MaxCorruptions \in Nat
    BY StoreAssumption DEF StoreInv, StoreTypes, Budgets
<1> QED
    BY <1>1 DEF OneDamage, Damaged

\* Steps that touch neither the files nor the write.
LEMMA SameDisk ==
    ASSUME DiskInv, UNCHANGED <<running, write, primary, backup, acked, attempts, older, budget>>
    PROVE  DiskInv'
BY DEF DiskInv, FirstInv, FilesInv, RunningFiles, OpeningFiles, FaultlessInv, NoFault, Damaged,
       Wanted, CleanOf, Latest, Serves, Holds

\* What should be found depends on the history and on damage only.
LEMMA SameWanted ==
    ASSUME UNCHANGED <<acked, attempts, older>>, Damaged' = Damaged, NoFault' => NoFault
    PROVE  /\ Wanted' = Wanted
           /\ UNCHANGED backup => (Holds(backup)' <=> Holds(backup))
           /\ UNCHANGED backup => (Serves(backup) => Serves(backup)')
BY DEF Wanted, CleanOf, Latest, Holds, Serves

\* A write begins.
LEMMA PersistDisk ==
    ASSUME DiskInv, StoreInv, NEW E, Persist(E)
    PROVE  DiskInv'
<1>1. /\ running = "running" /\ write = NONE /\ running' = running
      /\ write' = [doc |-> E, phase |-> "written"] /\ budget' = [budget EXCEPT !.events = @ - 1]
      /\ UNCHANGED <<primary, backup, acked, attempts, older>>
    BY DEF Persist, MayWrite, diskVars, ghosts
<1>2. write'.phase = "written"
    BY <1>1
<1>3. budget'.faults = budget.faults /\ budget'.corruptions = budget.corruptions
    BY <1>1, Budget DEF Budgets
<1>4. NoFault' = NoFault /\ Damaged' = Damaged
    BY <1>3 DEF NoFault, Damaged
<1>5. Wanted' = Wanted /\ (Holds(backup)' <=> Holds(backup)) /\ (Serves(backup) => Serves(backup)')
    BY <1>1, <1>4, SameWanted
<1>6. FirstInv' /\ OpeningFiles'
    BY <1>1 DEF DiskInv, FirstInv, RunningFiles, OpeningFiles
<1>7. FilesInv'
    BY <1>1, <1>4, <1>5 DEF DiskInv, FilesInv
<1>8. RunningFiles' /\ FaultlessInv'
    BY <1>1, <1>2, <1>4 DEF DiskInv, RunningFiles, FaultlessInv
<1> QED
    BY <1>6, <1>7, <1>8 DEF DiskInv

\* What ReplaceFileW makes the backup is what a start should find.
LEMMA MoveAsideDisk ==
    ASSUME DiskInv, StoreInv, MoveAside
    PROVE  DiskInv'
<1>1. /\ write # NONE /\ write.phase = "written" /\ primary \in Documents
      /\ backup' = primary /\ primary' = Absent /\ write' = [write EXCEPT !.phase = "moved"]
      /\ UNCHANGED <<running, acked, attempts, older, budget>>
    BY ReadableFiles DEF MoveAside, ghosts
<1>2. write' = [doc |-> write.doc, phase |-> "moved"] /\ write.doc \in Documents
    BY <1>1 DEF StoreInv, StoreTypes
<1>3. write'.doc = write.doc /\ write'.phase = "moved" /\ write' # NONE
    BY <1>2, NoneIsNoWrite DEF Phases
<1>4. NoFault' = NoFault /\ Damaged' = Damaged
    BY <1>1 DEF NoFault, Damaged
<1>5. Wanted' = Wanted
    BY <1>1, <1>4, SameWanted
<1>6. running \in {"running", "opening"} /\ acked # NONE
    <2>1. running \in {"running", "opening"}
        BY <1>1 DEF StoreInv, StoreTypes
    <2> QED
        BY <1>1, <2>1, Apart DEF DiskInv, FirstInv
<1>7. Cleaned(primary) \in Wanted
    <2>1. CASE running = "running"
        <3>1. primary = acked /\ acked \in Latest
            BY <1>1, <1>6, <2>1, Apart DEF DiskInv, RunningFiles, Latest
        <3> QED
            BY <3>1 DEF Wanted, CleanOf
    <2>2. CASE running = "opening"
        BY <1>1, <1>6, <2>2 DEF DiskInv, OpeningFiles
    <2> QED
        BY <1>6, <2>1, <2>2
<1>8. Holds(backup)'
    BY <1>1, <1>5, <1>7 DEF Holds
<1>9. ~Damaged => Serves(backup)'
    <2>1. ~Damaged => Cleaned(primary) \in CleanOf(Latest \cup older)
        BY <1>7 DEF Wanted, CleanOf
    <2> QED
        BY <1>1, <2>1 DEF Serves, CleanOf, Latest
<1>10. FirstInv' /\ FilesInv'
    BY <1>1, <1>4, <1>6, <1>8, <1>9, Apart DEF FirstInv, FilesInv
<1>11. RunningFiles'
    BY <1>1, <1>3, <1>6, Apart DEF DiskInv, RunningFiles
<1>12. OpeningFiles' /\ FaultlessInv'
    BY <1>1, <1>3, <1>5, <1>6, <1>8 DEF DiskInv, OpeningFiles, FaultlessInv
<1> QED
    BY <1>10, <1>11, <1>12 DEF DiskInv

\* The new primary, next to the backup that ReplaceFileW has made or that stays.
LEMMA ReplaceDisk ==
    ASSUME DiskInv, StoreInv, Replace
    PROVE  DiskInv'
<1>1. /\ write # NONE /\ primary' = write.doc /\ write' = [write EXCEPT !.phase = "replaced"]
      /\ write.phase = "moved" \/ (write.phase = "written" /\ primary \notin Documents)
      /\ attempts' = IF running = "running" THEN attempts \cup {write.doc} ELSE attempts
      /\ UNCHANGED <<running, backup, acked, older, budget>>
    BY ReadableFiles DEF Replace
<1>2. write' = [doc |-> write.doc, phase |-> "replaced"] /\ write.doc \in Documents
    BY <1>1 DEF StoreInv, StoreTypes
<1>3. write'.doc = write.doc /\ write'.phase = "replaced" /\ write' # NONE
    BY <1>2, NoneIsNoWrite DEF Phases
<1>4. NoFault' = NoFault /\ Damaged' = Damaged
    BY <1>1 DEF NoFault, Damaged
<1>5. primary' \in Documents /\ primary' # Absent /\ primary' # Garbled
    BY <1>1, <1>2, Apart
<1>6. CASE running = "running"
    <2>1. /\ acked # NONE /\ attempts = {} /\ attempts' = {write.doc}
          /\ primary \in {acked, Garbled} \/ (primary = Absent /\ backup = acked)
          /\ write.phase = "moved" => primary = Absent
          /\ primary = Garbled => Damaged
        BY <1>1, <1>6 DEF DiskInv, RunningFiles, FilesInv
    <2>2. acked \in Documents /\ (~Damaged => backup = acked)
        BY <1>1, <2>1, Apart
    <2>3. write.doc \in Latest' /\ acked \in Latest'
        BY <1>1, <2>1 DEF Latest
    <2>4. Cleaned(write.doc) \in Wanted' /\ Cleaned(acked) \in CleanOf(Latest' \cup older')
        BY <2>3 DEF Wanted, CleanOf
    <2>5. ~Damaged => Serves(backup)'
        BY <1>1, <2>2, <2>4 DEF Serves
    <2>6. FilesInv'
        BY <1>1, <1>4, <1>5, <2>4, <2>5 DEF FilesInv
    <2>7. RunningFiles'
        BY <1>1, <1>3, <1>4, <2>1, <2>2 DEF RunningFiles
    <2>8. FirstInv' /\ OpeningFiles' /\ FaultlessInv'
        BY <1>1, <1>5, <1>6, <2>1 DEF FirstInv, OpeningFiles, FaultlessInv
    <2> QED
        BY <2>6, <2>7, <2>8 DEF DiskInv
<1>7. CASE running # "running"
    <2>1. running = "opening" /\ attempts' = attempts
        BY <1>1, <1>7 DEF StoreInv, StoreTypes
    <2>2. /\ Wanted' = Wanted /\ (Holds(backup)' <=> Holds(backup))
          /\ Serves(backup) => Serves(backup)'
        BY <1>1, <1>4, <2>1, SameWanted
    <2>3. FirstInv'
        BY <1>1, <1>3, <2>1 DEF DiskInv, FirstInv
    <2>4. FilesInv'
        BY <1>1, <1>4, <1>5, <2>1, <2>2 DEF DiskInv, FilesInv, OpeningFiles
    <2>5. OpeningFiles' /\ RunningFiles'
        BY <1>1, <1>3, <2>1, <2>2 DEF DiskInv, OpeningFiles, RunningFiles
    <2>6. FaultlessInv'
        BY <1>1, <1>3, <1>4, <1>5, <2>1 DEF DiskInv, FaultlessInv
    <2> QED
        BY <2>3, <2>4, <2>5, <2>6 DEF DiskInv
<1> QED
    BY <1>6, <1>7

\* A write that fails leaves the files, or the backup takes the place of the primary.
LEMMA FailsDisk ==
    ASSUME DiskInv, StoreInv, Fails
    PROVE  DiskInv'
<1>1. /\ write # NONE /\ write.phase # "replaced" /\ write' = NONE
      /\ running' = IF running = "opening" THEN "down" ELSE running
      /\ budget.faults > 0 /\ budget' = [budget EXCEPT !.faults = @ - 1, !.events = @ - 1]
      /\ \/ UNCHANGED <<primary, backup>>
         \/ write.phase = "moved" /\ primary' = backup /\ backup' = Absent
      /\ UNCHANGED <<acked, attempts, older>>
    BY DEF Fails, diskVars, ghosts
<1>2. budget'.faults = budget.faults - 1 /\ budget'.corruptions = budget.corruptions
    BY <1>1, Budget DEF Budgets
<1>3. ~NoFault' /\ Damaged' = Damaged
    BY <1>1, <1>2, Budget DEF NoFault, Damaged
<1>4. /\ Wanted' = Wanted
      /\ UNCHANGED backup => (Holds(backup)' <=> Holds(backup))
      /\ UNCHANGED backup => (Serves(backup) => Serves(backup)')
    BY <1>1, <1>3, SameWanted
<1>5. running \in {"running", "opening"} /\ running' \in {"running", "down"}
    BY <1>1 DEF StoreInv, StoreTypes
<1>6. CASE UNCHANGED <<primary, backup>>
    <2>1. FirstInv' /\ RunningFiles'
        BY <1>1, <1>5, <1>6 DEF DiskInv, FirstInv, RunningFiles
    <2>2. FilesInv'
        BY <1>1, <1>3, <1>4, <1>6 DEF DiskInv, FilesInv
    <2>3. OpeningFiles' /\ FaultlessInv'
        BY <1>3, <1>5 DEF OpeningFiles, FaultlessInv
    <2> QED
        BY <2>1, <2>2, <2>3 DEF DiskInv
<1>7. CASE write.phase = "moved" /\ primary' = backup /\ backup' = Absent
    <2>1. acked # NONE /\ primary = Absent
        BY <1>5, <1>7, <1>1 DEF DiskInv, FirstInv, RunningFiles, OpeningFiles
    <2>2. Holds(backup)
        BY <2>1 DEF DiskInv, FilesInv
    <2>3. primary' \in Documents /\ Cleaned(primary') \in Wanted'
        BY <1>4, <1>7, <2>2 DEF Holds
    <2>4. Serves(backup)'
        BY <1>3, <1>7, Apart DEF Serves
    <2>5. FirstInv' /\ FilesInv'
        BY <1>1, <1>3, <2>1, <2>3, <2>4, Apart DEF FirstInv, FilesInv
    <2>6. RunningFiles'
        BY <1>1, <1>5, <1>7, <2>1, Apart DEF DiskInv, RunningFiles
    <2>7. OpeningFiles' /\ FaultlessInv'
        BY <1>3, <1>5 DEF OpeningFiles, FaultlessInv
    <2> QED
        BY <2>5, <2>6, <2>7 DEF DiskInv
<1> QED
    BY <1>1, <1>6, <1>7

\* A stop leaves the files, and is a fault within a write.
LEMMA StopDisk ==
    ASSUME DiskInv, StoreInv, ProcessStops
    PROVE  DiskInv'
<1>1. /\ running \in {"opening", "running"} /\ running' = "down" /\ write' = NONE
      /\ write # NONE => budget.faults > 0
      /\ budget' = [budget EXCEPT !.faults = IF write = NONE THEN @ ELSE @ - 1, !.events = @ - 1]
      /\ UNCHANGED <<primary, backup, acked, attempts, older>>
    BY DEF ProcessStops, diskVars, ghosts
<1>2. /\ budget'.faults = IF write = NONE THEN budget.faults ELSE budget.faults - 1
      /\ budget'.corruptions = budget.corruptions
    BY <1>1, Budget DEF Budgets
<1>3. (NoFault' => NoFault /\ write = NONE) /\ Damaged' = Damaged
    BY <1>1, <1>2, Budget DEF NoFault, Damaged
<1>4. Wanted' = Wanted /\ (Holds(backup)' <=> Holds(backup)) /\ (Serves(backup) => Serves(backup)')
    BY <1>1, <1>3, SameWanted
<1>5. FirstInv' /\ RunningFiles' /\ OpeningFiles'
    BY <1>1 DEF DiskInv, FirstInv, RunningFiles, OpeningFiles
<1>6. FilesInv'
    BY <1>1, <1>3, <1>4 DEF DiskInv, FilesInv
<1>7. FaultlessInv'
    BY <1>1, <1>3, Apart DEF DiskInv, RunningFiles, FaultlessInv
<1> QED
    BY <1>5, <1>6, <1>7 DEF DiskInv

\* A damage happens once, to a primary whose backup serves.
LEMMA CorruptDisk ==
    ASSUME OneDamage, DiskInv, StoreInv, Corrupt
    PROVE  DiskInv'
<1>1. /\ running \in {"down", "running"} /\ write = NONE /\ write' = write /\ running' = running
      /\ budget.corruptions > 0 /\ primary \notin {Absent, Garbled}
      /\ budget' = [budget EXCEPT !.corruptions = @ - 1, !.events = @ - 1]
      /\ primary' = Garbled
      /\ UNCHANGED <<backup, acked, attempts, older>>
    BY DEF Corrupt, ghosts
<1>2. budget'.faults = budget.faults /\ budget'.corruptions = budget.corruptions - 1
    BY <1>1, Budget DEF Budgets
<1>3. NoFault' = NoFault /\ ~Damaged /\ Damaged'
    BY <1>1, <1>2, Budget DEF NoFault, Damaged
<1>4. acked # NONE => Serves(backup)'
    BY <1>1, <1>3 DEF DiskInv, FilesInv, Serves, CleanOf, Latest
<1>5. FirstInv' /\ OpeningFiles'
    BY <1>1 DEF DiskInv, FirstInv, OpeningFiles
<1>6. FilesInv'
    BY <1>1, <1>3, <1>4, Apart DEF FilesInv
<1>7. RunningFiles' /\ FaultlessInv'
    BY <1>1, <1>3, Apart DEF DiskInv, RunningFiles, FaultlessInv
<1> QED
    BY <1>5, <1>6, <1>7 DEF DiskInv

\* open is done with a document that became, or already was, the primary.
LEMMA FinishedDisk ==
    ASSUME DiskInv, StoreInv, running # "running", NEW doc \in Documents, Finished(doc),
           primary = doc, UNCHANGED <<primary, backup, budget>>,
           acked = NONE => doc = EmptyDoc,
           acked # NONE => Cleaned(doc) \in Wanted \/ doc = EmptyDoc,
           NoFault /\ ~Damaged /\ ((older \cup attempts \cup {acked}) \ {doc, NONE}) # {} =>
              backup \in Documents
    PROVE  DiskInv'
<1>1. NoFault' = NoFault /\ Damaged' = Damaged
    BY DEF NoFault, Damaged
<1>2. doc # Absent /\ doc # Garbled /\ doc # NONE
    BY Apart
<1>3. CASE doc.stray # {}
    <2>1. /\ running' = "opening" /\ write' = [doc |-> Cleaned(doc), phase |-> "written"]
          /\ UNCHANGED <<acked, attempts, older>>
        BY <1>3 DEF Finished, ghosts
    <2>2. acked # NONE /\ Cleaned(doc) \in Wanted
        BY <1>3, Apart
    <2>3. /\ Wanted' = Wanted /\ (Holds(backup)' <=> Holds(backup))
          /\ Serves(backup) => Serves(backup)'
        BY <1>1, <2>1, SameWanted
    <2>4. write'.doc = Cleaned(doc) /\ write'.phase = "written" /\ Cleaned(Cleaned(doc)) = Cleaned(doc)
        BY <2>1, CleanedIsGood
    <2>5. FilesInv'
        BY <1>1, <2>1, <2>3 DEF DiskInv, FilesInv
    <2>6. OpeningFiles'
        BY <2>2, <2>3, <2>4 DEF OpeningFiles
    <2>7. FirstInv' /\ RunningFiles' /\ FaultlessInv'
        BY <1>2, <2>1, <2>2, <2>4 DEF FirstInv, RunningFiles, FaultlessInv
    <2> QED
        BY <2>5, <2>6, <2>7 DEF DiskInv
<1>4. CASE doc.stray = {}
    <2>1. /\ running' = "running" /\ write' = NONE /\ acked' = doc /\ attempts' = {}
          /\ older' = (older \cup attempts \cup {acked}) \ {doc, NONE}
        BY <1>4 DEF Finished
    <2>2. doc \in Latest' /\ Latest \cup older \subseteq Latest' \cup older'
        BY <1>2, <2>1, Apart DEF Latest, StoreInv, StoreTypes
    <2>3. Cleaned(doc) \in Wanted' /\ CleanOf(Latest \cup older) \subseteq CleanOf(Latest' \cup older')
        BY <2>2 DEF Wanted, CleanOf
    <2>4. ~Damaged => Serves(backup)'
        <3>1. ~Damaged /\ backup \in Documents => Cleaned(backup) \in CleanOf(Latest \cup older)
            BY Apart DEF DiskInv, FirstInv, FilesInv, Serves
        <3> QED
            BY <1>1, <2>1, <2>3, <3>1 DEF Serves
    <2>5. FilesInv'
        BY <1>1, <1>2, <2>3, <2>4 DEF FilesInv
    <2>6. FirstInv' /\ RunningFiles' /\ OpeningFiles' /\ FaultlessInv'
        BY <1>2, <2>1 DEF FirstInv, RunningFiles, OpeningFiles, FaultlessInv
    <2> QED
        BY <2>5, <2>6 DEF DiskInv
<1> QED
    BY <1>3, <1>4

\* The end of a write, which is acknowledged.
LEMMA WriteEndsDisk ==
    ASSUME DiskInv, StoreInv, WriteEnds
    PROVE  DiskInv'
<1>1. /\ write # NONE /\ write.phase = "replaced" /\ Finished(write.doc)
      /\ UNCHANGED <<primary, backup, budget>>
    BY DEF WriteEnds, diskVars
<1>2. write.doc \in Documents /\ NoFault' = NoFault /\ Damaged' = Damaged
    BY <1>1, Apart DEF NoFault, Damaged
<1>3. CASE running = "running"
    <2>1. /\ write' = NONE /\ running' = "running" /\ acked' = write.doc /\ attempts' = {}
          /\ older' = (attempts \cup {acked}) \ {write.doc, NONE}
        BY <1>1, <1>3 DEF Finished
    <2>2. acked # NONE /\ primary = write.doc /\ (~Damaged => backup = acked)
        BY <1>1, <1>3 DEF DiskInv, RunningFiles
    <2>3. write.doc \in Latest' /\ acked \in Latest' \cup older' /\ acked \in Documents
        BY <1>2, <2>1, <2>2, Apart DEF Latest
    <2>4. Cleaned(write.doc) \in Wanted' /\ Cleaned(acked) \in CleanOf(Latest' \cup older')
        BY <2>3 DEF Wanted, CleanOf
    <2>5. ~Damaged => Serves(backup)'
        BY <1>1, <2>2, <2>3, <2>4 DEF Serves
    <2>6. primary' = write.doc /\ write.doc # Absent /\ write.doc # Garbled /\ write.doc # NONE
        BY <1>1, <1>2, <2>2, Apart
    <2>7. FilesInv'
        BY <1>2, <2>4, <2>5, <2>6 DEF FilesInv
    <2>8. FirstInv' /\ RunningFiles' /\ OpeningFiles' /\ FaultlessInv'
        BY <2>1, <2>6 DEF FirstInv, RunningFiles, OpeningFiles, FaultlessInv
    <2> QED
        BY <2>7, <2>8 DEF DiskInv
<1>4. CASE running # "running"
    <2>1. running = "opening"
        BY <1>1, <1>4 DEF StoreInv, StoreTypes
    <2>2. primary = write.doc /\ (acked = NONE => write.doc = EmptyDoc)
        BY <1>1, <2>1 DEF DiskInv, FirstInv, OpeningFiles
    <2>3. acked # NONE => Cleaned(write.doc) \in Wanted \/ write.doc = EmptyDoc
        BY <2>1 DEF DiskInv, OpeningFiles
    <2>4. NoFault /\ acked # NONE => backup \in Documents
        BY <1>1, <2>1 DEF DiskInv, FaultlessInv
    <2>5. acked = NONE => (older \cup attempts \cup {acked}) \ {write.doc, NONE} = {}
        BY DEF DiskInv, FirstInv
    <2> QED
        BY <1>1, <1>2, <1>4, <2>2, <2>3, <2>4, <2>5, FinishedDisk
<1> QED
    BY <1>3, <1>4

\* open takes the primary, the backup or the defaults.
LEMMA OpenDisk ==
    ASSUME DiskInv, StoreInv, OpenStore
    PROVE  DiskInv'
<1>1. running = "down" /\ write = NONE /\ UNCHANGED <<primary, backup, budget>>
    BY Apart DEF OpenStore, diskVars
<1>2. NoFault' = NoFault /\ Damaged' = Damaged
    BY <1>1 DEF NoFault, Damaged
<1>3. ASSUME Readable(primary), Finished(primary)
      PROVE  DiskInv'
    <2>1. primary \in Documents
        BY <1>3, ReadableFiles
    <2>2. acked = NONE => primary = EmptyDoc /\ older = {} /\ attempts = {}
        BY <2>1, Apart DEF DiskInv, FirstInv
    <2>3. acked # NONE => Cleaned(primary) \in Wanted \/ primary = EmptyDoc
        BY <2>1 DEF DiskInv, FilesInv
    <2>4. ASSUME NoFault, ~Damaged, (older \cup attempts \cup {acked}) \ {primary, NONE} # {}
          PROVE  backup \in Documents
        <3>1. acked # NONE
            BY <2>2, <2>4
        <3>2. attempts = {} /\ primary = acked
            BY <1>1, <2>1, <2>4, <3>1, Apart DEF DiskInv, FaultlessInv
        <3>3. older # {}
            BY <2>4, <3>2
        <3> QED
            BY <2>4, <3>1, <3>3 DEF DiskInv, FilesInv, Serves
    <2> QED
        BY <1>1, <1>3, <2>1, <2>2, <2>3, <2>4, FinishedDisk
<1>4. ASSUME UNCHANGED <<acked, attempts, older>>
      PROVE  /\ Wanted' = Wanted /\ (Holds(backup)' <=> Holds(backup)) /\ FilesInv'
    <2>1. /\ Wanted' = Wanted /\ (Holds(backup)' <=> Holds(backup))
          /\ Serves(backup) => Serves(backup)'
        BY <1>1, <1>2, <1>4, SameWanted
    <2> QED
        BY <1>1, <1>2, <1>4, <2>1 DEF DiskInv, FilesInv
<1>5. ASSUME primary # Absent, ~Readable(primary), Readable(backup),
             write' = [doc |-> backup, phase |-> "written"], running' = "opening",
             UNCHANGED <<acked, attempts, older>>
      PROVE  DiskInv'
    <2>1. primary = Garbled /\ backup \in Documents
        BY <1>5, ReadableFiles
    <2>2. acked # NONE /\ Damaged /\ Serves(backup)
        BY <2>1, Apart DEF DiskInv, FirstInv, FilesInv
    <2>3. Cleaned(backup) \in Wanted'
        BY <1>4, <1>5, <2>1, <2>2 DEF Serves, Wanted
    <2>4. write'.doc = backup /\ write'.phase = "written"
        BY <1>5
    <2>5. OpeningFiles'
        BY <1>1, <2>1, <2>3, <2>4, Apart DEF OpeningFiles
    <2>6. FirstInv' /\ RunningFiles' /\ FaultlessInv'
        BY <1>1, <1>5, <2>1, <2>2, Apart DEF FirstInv, RunningFiles, FaultlessInv
    <2> QED
        BY <1>4, <1>5, <2>5, <2>6 DEF DiskInv
<1>6. ASSUME primary # Absent, running' = "stuck", UNCHANGED <<acked, attempts, older>>
      PROVE  DiskInv'
    <2>1. FirstInv' /\ RunningFiles' /\ OpeningFiles' /\ FaultlessInv'
        BY <1>1, <1>6 DEF DiskInv, FirstInv, RunningFiles, OpeningFiles, FaultlessInv
    <2> QED
        BY <1>4, <1>6, <2>1 DEF DiskInv
<1>7. ASSUME primary = Absent, write' = [doc |-> EmptyDoc, phase |-> "written"],
             running' = "opening", UNCHANGED <<acked, attempts, older>>
      PROVE  DiskInv'
    <2>1. write'.doc = EmptyDoc /\ write'.phase = "written"
        BY <1>7
    <2>2. acked # NONE => Holds(backup) /\ ~NoFault
        BY <1>1, <1>7 DEF DiskInv, FilesInv, FaultlessInv
    <2>3. OpeningFiles'
        BY <1>1, <1>4, <1>7, <2>1, <2>2, Apart DEF OpeningFiles
    <2>4. FirstInv'
        BY <1>1, <1>7, <2>1 DEF DiskInv, FirstInv
    <2>5. RunningFiles' /\ FaultlessInv'
        BY <1>2, <1>7, <2>2 DEF RunningFiles, FaultlessInv
    <2> QED
        BY <1>4, <1>7, <2>3, <2>4, <2>5 DEF DiskInv
<1> QED
    BY <1>3, <1>5, <1>6, <1>7 DEF OpenStore, ghosts

\* Each step keeps the invariant of the files.
LEMMA DiskNext ==
    ASSUME OneDamage, MigrationInv, DiskInv, [MigrationNext]_allVars
    PROVE  DiskInv'
<1>1. StoreInv
    BY DEF MigrationInv, StoreInv
<1>2. ASSUME NEW E, Persist(E) PROVE DiskInv'
    BY <1>1, <1>2, PersistDisk
<1>3. ASSUME StoreStep PROVE DiskInv'
    <2>1. StoreNext
        BY <1>3 DEF StoreStep
    <2>2. ASSUME NEW h, NEW d, SaveHostRequest(h, d) PROVE DiskInv'
        BY <1>2, <2>2 DEF SaveHostRequest, SaveHost
    <2>3. ASSUME NEW h, BeginHostDeletion(h) \/ AbortHostDeletion(h) PROVE DiskInv'
        BY <2>3, SameDisk DEF BeginHostDeletion, AbortHostDeletion, diskVars, ghosts
    <2>4. ASSUME NEW h, FinishHostDeletion(h) PROVE DiskInv'
        BY <1>2, <2>4 DEF FinishHostDeletion
    <2>5. ASSUME NEW old, NEW new, SaveRecord(old, new) PROVE DiskInv'
        BY <1>2, <2>5 DEF SaveRecord
    <2>6. ASSUME NEW record, NEW h, DeleteTunnel(record) \/ DeleteCommand(record, h)
          PROVE  DiskInv'
        BY <1>2, <2>6 DEF DeleteTunnel, DeleteCommand
    <2>7. ASSUME NEW value, UpdateSettings(value) PROVE DiskInv'
        BY <1>2, <2>7 DEF UpdateSettings
    <2> QED
        BY <1>1, <2>1, <2>2, <2>3, <2>4, <2>5, <2>6, <2>7, MoveAsideDisk, ReplaceDisk, FailsDisk,
           WriteEndsDisk, OpenDisk, StopDisk, CorruptDisk
        DEF StoreNext
<1>4. ASSUME NEW candidates, ImportSshConfig(candidates) PROVE DiskInv'
    BY <1>2, <1>4 DEF ImportSshConfig, ImportHosts
<1>5. ASSUME NEW c, ApplyImport(c) PROVE DiskInv'
    BY <1>2, <1>5 DEF ApplyImport
<1>6. ASSUME UNCHANGED storeVars PROVE DiskInv'
    BY <1>6, SameDisk DEF storeVars
<1>7. ASSUME NEW c, NEW b, NEW selection, ApplyRefused(c) \/ ApplyLoad(c, b, selection)
      PROVE  DiskInv'
    <2>1. UNCHANGED storeVars
        BY <1>7 DEF ApplyRefused, ApplyLoad, storeVars
    <2> QED
        BY <1>6, <2>1
<1>8. ASSUME UNCHANGED allVars PROVE DiskInv'
    <2>1. UNCHANGED storeVars
        BY <1>8 DEF allVars
    <2> QED
        BY <1>6, <2>1
<1> QED
    BY <1>3, <1>4, <1>5, <1>7, <1>8 DEF MigrationNext

\* Nothing has failed before the first start.
LEMMA DiskInit ==
    ASSUME MigrationInit
    PROVE  DiskInv
<1>1. /\ running = "down" /\ write = NONE /\ backup = Absent /\ primary \in InitialDocs
      /\ acked = (IF primary = Absent THEN NONE ELSE primary)
      /\ attempts = {} /\ older = {}
    BY DEF MigrationInit, StoreInit
<1>2. /\ Absent \notin Documents /\ Garbled \notin Documents /\ Absent # Garbled
      /\ NONE \notin Documents /\ primary \in Documents \cup {Absent}
    BY <1>1, StoreAssumption
<1>3. FirstInv /\ RunningFiles /\ OpeningFiles /\ FaultlessInv
    BY <1>1, <1>2 DEF FirstInv, RunningFiles, OpeningFiles, FaultlessInv
<1>4. acked # NONE => Cleaned(primary) \in Wanted
    BY <1>1 DEF Wanted, CleanOf, Latest
<1>5. Serves(backup)
    BY <1>1, <1>2 DEF Serves
<1> QED
    BY <1>1, <1>2, <1>3, <1>4, <1>5 DEF DiskInv, FilesInv

\* However many writes fail or are interrupted at any step, and after one damage of the
\* primary, open finds the last acknowledged document or one that was being written
\* since, or begins with the defaults while the backup has it; it is stuck only after
\* damage, and then there was no backup yet or a write had failed (write_state, open).
THEOREM RestartFindsTheLastWrite ==
    ASSUME OneDamage
    PROVE  MigrationSpec => SurvivesRestart
<1>1. MigrationInv /\ DiskInv /\ [MigrationNext]_allVars =>
        [/\ Starts => \/ Cleaned(mem') \in Wanted
                      \/ mem' = EmptyDoc /\ Readable(backup') /\ Cleaned(backup') \in Wanted
         /\ (running # "stuck" /\ running' = "stuck") => Damaged /\ (NoFault => older = {})]_storeVars
    <2> SUFFICES ASSUME MigrationInv, DiskInv, [MigrationNext]_allVars
                 PROVE  /\ Starts => \/ Cleaned(mem') \in Wanted
                                     \/ mem' = EmptyDoc /\ Readable(backup') /\ Cleaned(backup') \in Wanted
                        /\ (running # "stuck" /\ running' = "stuck") =>
                              Damaged /\ (NoFault => older = {})
        OBVIOUS
    <2>1. StoreInv
        BY DEF MigrationInv, StoreInv
    <2>2. CASE running' = running
        BY <2>2 DEF Starts
    <2>3. CASE OpenStore
        <3>1. running = "down" /\ UNCHANGED <<primary, backup>>
            BY <2>3 DEF OpenStore, diskVars
        <3>2. ASSUME Starts
              PROVE  \/ Cleaned(mem') \in Wanted
                     \/ mem' = EmptyDoc /\ Readable(backup') /\ Cleaned(backup') \in Wanted
            <4>1. primary \in Documents /\ mem' = primary /\ acked # NONE
                BY <2>1, <2>3, <3>1, <3>2, ReadableFiles DEF OpenStore, Finished, Starts
            <4> QED
                BY <2>1, <3>1, <4>1, ReadableFiles DEF DiskInv, FilesInv, Holds
        <3>3. ASSUME running' = "stuck" PROVE Damaged /\ (NoFault => older = {})
            <4>1. primary = Garbled /\ backup \notin Documents
                BY <2>1, <2>3, <3>1, <3>3, ReadableFiles DEF OpenStore, Finished
            <4> QED
                BY <4>1 DEF DiskInv, FirstInv, FilesInv, Serves
        <3> QED
            BY <3>2, <3>3
    <2>4. CASE WriteEnds
        <3>1. Finished(write.doc) /\ write # NONE /\ UNCHANGED <<primary, backup>>
            BY <2>4 DEF WriteEnds, diskVars
        <3>2. running' # "stuck"
            BY <3>1 DEF Finished
        <3>3. ASSUME Starts
              PROVE  \/ Cleaned(mem') \in Wanted
                     \/ mem' = EmptyDoc /\ Readable(backup') /\ Cleaned(backup') \in Wanted
            <4>1. running = "opening" /\ mem' = write.doc /\ acked # NONE
                BY <2>1, <3>1, <3>3 DEF Finished, Starts, StoreInv, StoreTypes
            <4> QED
                BY <2>1, <3>1, <4>1, ReadableFiles DEF DiskInv, OpeningFiles, Holds
        <3> QED
            BY <3>2, <3>3
    <2>5. ASSUME Fails \/ ProcessStops PROVE running' \in {running, "down"}
        BY <2>5 DEF Fails, ProcessStops
    <2>6. ASSUME NEW E, Persist(E) PROVE running' = running
        BY <2>6 DEF Persist
    <2>7. ASSUME StoreStep, ~OpenStore, ~WriteEnds PROVE running' \in {running, "down"}
        <3>1. StoreNext
            BY <2>7 DEF StoreStep
        <3>2. ASSUME NEW h, NEW d, SaveHostRequest(h, d) PROVE running' = running
            BY <2>6, <3>2 DEF SaveHostRequest, SaveHost
        <3>3. ASSUME NEW h, BeginHostDeletion(h) \/ FinishHostDeletion(h) \/ AbortHostDeletion(h)
              PROVE  running' = running
            BY <2>6, <3>3 DEF BeginHostDeletion, FinishHostDeletion, AbortHostDeletion
        <3>4. ASSUME NEW old, NEW new, SaveRecord(old, new) PROVE running' = running
            BY <2>6, <3>4 DEF SaveRecord
        <3>5. ASSUME NEW record, NEW h, DeleteTunnel(record) \/ DeleteCommand(record, h)
              PROVE  running' = running
            BY <2>6, <3>5 DEF DeleteTunnel, DeleteCommand
        <3>6. ASSUME NEW value, UpdateSettings(value) PROVE running' = running
            BY <2>6, <3>6 DEF UpdateSettings
        <3>7. ASSUME MoveAside \/ Replace \/ Corrupt PROVE running' = running
            BY <3>7 DEF MoveAside, Replace, Corrupt
        <3> QED
            BY <2>5, <2>7, <3>1, <3>2, <3>3, <3>4, <3>5, <3>6, <3>7 DEF StoreNext
    <2>8. ASSUME NEW candidates, ImportSshConfig(candidates) PROVE running' = running
        BY <2>6, <2>8 DEF ImportSshConfig, ImportHosts
    <2>9. ASSUME NEW c, ApplyImport(c) PROVE running' = running
        BY <2>6, <2>9 DEF ApplyImport
    <2>10. ASSUME NEW c, NEW b, NEW selection, ApplyRefused(c) \/ ApplyLoad(c, b, selection)
           PROVE  running' = running
        BY <2>10 DEF ApplyRefused, ApplyLoad, storeVars
    <2>11. ASSUME UNCHANGED allVars PROVE running' = running
        BY <2>11 DEF allVars, storeVars
    <2>12. CASE running' \in {running, "down"}
        BY <2>12 DEF Starts
    <2>13. OpenStore \/ WriteEnds \/ running' \in {running, "down"}
        BY <2>7, <2>8, <2>9, <2>10, <2>11 DEF MigrationNext
    <2> QED
        BY <2>3, <2>4, <2>12, <2>13
<1>2. MigrationInit => DiskInv
    BY DiskInit
<1>3. MigrationInv /\ DiskInv /\ [MigrationNext]_allVars => DiskInv'
    BY DiskNext
<1> QED
    BY <1>1, <1>2, <1>3, MigrationInvariance, PTL DEF MigrationSpec, SurvivesRestart

=============================================================================
