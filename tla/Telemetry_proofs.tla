--------------------------- MODULE Telemetry_proofs ---------------------------
(***************************************************************************)
(* Proofs about Telemetry, for any hosts, callers, routes and bounds.      *)
(*                                                                         *)
(* The inductive invariant TelemetryInv says of each worker (GenInv) that  *)
(* it is listed until it ends, and that a collector that lives is with its *)
(* worker or in its slot and uses the saved connection; of each host       *)
(* (MonitorInv, HostInv) that what is listed for it is its own and that a  *)
(* tracked watchdog uses the saved connection; of each call that a stop    *)
(* sets the flag before it kills (StopInv), that a deletion which has      *)
(* reached the watchdog meets no later start (DeleteInv), and that one     *)
(* call at a time holds the watchdog operation of a host (DogInv).         *)
(***************************************************************************)
EXTENDS Telemetry, NaturalsInduction, WellFoundedInduction, TLAPS

\* Those who may have a call in progress.
Everyone == Callers \cup Hosts

\* What a watchdog was started with, if there is one.
Dogs == {Untracked} \cup (Nat \X Nat)

\* A collector that runs, or that was killed and has not exited.
Living == {"running", "dying"}
\* The steps of a stop after it has set the flag of the worker.
Stopping == {"kill", "wait", "clean"}
\* The call has reserved the watchdog operation of its host.
Held == {"verify", "permit", "run", "gate", "inspect", "gate again", "halt"}
\* A start of a watchdog that has compared the saved profile.
Started == {"permit", "run", "gate", "inspect", "gate again"}

\* The stages of a worker, from an unused number to its end.
Stages == {"unused", "new", "never", "top", "place", "check", "read", "take", "wait", "after",
           "end", "done"}

\* The steps of each kind of call.
StepsOf ==
    [kind \in {"idle", "stop", "sweep", "delete", "watch", "unwatch", "TERM", "KILL"} |->
        CASE kind = "idle" -> {"idle"}
          [] kind \in {"stop", "sweep"} -> Stopping \cup {"late"}
          [] kind = "delete" -> Stopping \cup {"begin", "late", "dog", "reserve", "permit", "halt", "forget"}
          [] kind = "watch" -> Started \cup {"reserve", "verify"}
          [] kind = "unwatch" -> {"reserve", "permit", "halt"}
          [] OTHER -> {"signal"}]

\* The steps of calls of all kinds.
AllSteps == Held \cup Stopping \cup {"idle", "begin", "late", "dog", "reserve", "forget", "signal"}

\* The records that call[c] may hold.
Calls == [kind : DOMAIN StepsOf, host : Hosts \cup {None},
          pc : AllSteps,
          gen : Generations \cup {0, 1}, dog : Dogs, id : {<<>>} \cup (Hosts \X Nat)]

\* The values of the variables of the workers.
WorkerTypes ==
    /\ pc \in [Generations -> Stages]
    /\ host \in [Generations -> Hosts \cup {None}]
    /\ used \in [Generations -> Dogs]
    /\ child \in [Generations -> {None, "running", "dying", "left", "exited", "reaped"}]
    /\ slot \subseteq Generations /\ stop \subseteq Generations

\* Of the saved hosts, the lists of monitors and samples, and the shutdown.
ListTypes ==
    /\ saved \in [Hosts -> {"saved", "deleting", "gone"}]
    /\ version \in [Hosts -> Nat]
    /\ monitors \in [Hosts -> Generations \cup {0}]
    /\ history \in [Hosts -> Seq(Nat)] /\ sequence \in Nat
    /\ shutting \in {"no", "yes", "done", "cut short"}

\* Of the watchdogs, their operations and their remote sessions.
DogTypes ==
    /\ watchdogs \in [Hosts -> Dogs] /\ operations \in [Hosts -> Dogs]
    /\ session \in [Hosts -> {None, "ours", "foreign"}]

\* Of the calls in progress and the process a signal may name.
CallTypes == call \in [Everyone -> Calls] /\ process \in [Hosts -> Hosts \X Nat]

\* The types of all the variables.
Types == WorkerTypes /\ ListTypes /\ DogTypes /\ CallTypes

\* A worker that has not ended is listed, and so is a child in a slot.  A collector
\* that lives is with its worker or in its slot, and uses the saved connection.
GenInv(g) ==
    /\ pc[g] # "unused" <=> host[g] \in Hosts
    /\ Unfinished(g) => monitors[host[g]] = g
    /\ g \in slot => /\ monitors[host[g]] = g
                     /\ pc[g] \in {"check", "read", "take", "after", "end", "done"}
    /\ child[g] \in Living =>
          /\ pc[g] \in {"place", "wait"} \/ g \in slot
          /\ used[g] = Connection(host[g])

\* What is listed for a host is a worker of it.
MonitorInv(h) ==
    /\ monitors[h] # 0 => host[monitors[h]] = h
    /\ saved[h] = "gone" => monitors[h] = 0

\* No start of a watchdog has passed the check of the saved profile.
NoWatch(h) == \A c \in Everyone :
    call[c].host = h /\ call[c].kind = "watch" => call[c].pc \in {"reserve", "verify"}

\* A session of ours is tracked, or was left by a shutdown or a lost answer.
HostInv(h) ==
    /\ watchdogs[h] \in {Untracked, Connection(h)}
    /\ saved[h] = "gone" => history[h] = <<>> /\ watchdogs[h] = Untracked /\ NoWatch(h)
    /\ session[h] = "ours" =>
          h \in unsure \/ watchdogs[h] # Untracked \/ (shutting # "no" /\ saved[h] # "gone")

\* A call that stops a worker has set its flag; then its child is killed, the kill was
\* refused, or the worker has yet to look at the flag.
StopInv(c) ==
    call[c].pc \in Stopping =>
        /\ call[c].gen \in stop /\ host[call[c].gen] = call[c].host
        /\ call[c].pc = "clean" => pc[call[c].gen] = "done"
        /\ call[c].pc = "wait" /\ pc[call[c].gen] = "read" /\ child[call[c].gen] = "running" =>
               call[c].gen \in refused
        /\ call[c].kind = "delete" => monitors[call[c].host] \in {0, call[c].gen}

\* What a host deletion has reached: no monitor, no start of a watchdog, none left.
DeleteInv(c) ==
    call[c].kind = "delete" =>
        /\ saved[call[c].host] = "deleting" /\ shutting = "no"
        /\ call[c].pc \notin Stopping \cup {"begin"} => monitors[call[c].host] = 0
        /\ call[c].pc \in {"reserve", "permit", "halt", "forget"} => NoWatch(call[c].host)
        /\ call[c].pc = "forget" => watchdogs[call[c].host] = Untracked
        /\ \A d \in Everyone \ {c} : call[d].kind = "delete" => call[d].host # call[c].host

\* One call at a time holds the watchdog operation of a host, and a start that has
\* compared the saved profile still has it.
DogInv(c) ==
    /\ call[c].pc = "reserve" => call[c].dog # Untracked
    /\ call[c].pc \in Held =>
          /\ operations[call[c].host] # Untracked
          /\ \A d \in Everyone \ {c} : call[d].pc \in Held => call[d].host # call[c].host
    /\ call[c].kind = "watch" /\ call[c].pc \in Started => call[c].dog = Connection(call[c].host)

\* A call is at a step of its kind; the shutdown sweep is the only call of a host.
CallInv(c) ==
    /\ call[c].pc \in StepsOf[call[c].kind]
    /\ call[c].kind # "idle" => call[c].host \in Hosts
    /\ c \in Hosts => call[c].kind = "idle" \/ (call[c].kind = "sweep" /\ shutting # "no")
    /\ StopInv(c) /\ DeleteInv(c) /\ DogInv(c)

\* The inductive invariant.
TelemetryInv ==
    /\ Types
    /\ \A g \in Generations : GenInv(g)
    /\ \A h \in Hosts : MonitorInv(h) /\ HostInv(h)
    /\ \A c \in Everyone : CallInv(c)

\* Generations are numbered from one, and no caller is None.
LEMMA Constants ==
    /\ None \notin Hosts /\ None \notin Everyone
    /\ Generations \subseteq Nat \ {0} /\ 0 \notin Generations
    /\ Hosts \cap Callers = {} /\ MaxSamples \in Nat \ {0}
    /\ Via \in [Hosts -> Hosts \cup {None}]
<1>1. Generations \subseteq Nat \ {0}
    <2>1. Generations = 1 .. Cardinality(Generations)
        BY TelemetryAssumption
    <2>2. \A n : \A g \in 1 .. n : g \in Nat \ {0}
        OBVIOUS
    <2> QED
        BY <2>1, <2>2
<1> QED
    BY <1>1, TelemetryAssumption DEF Everyone

\* The saved connection of a host is a pair, hence not the mark of no watchdog.
LEMMA ConnectionIs ==
    ASSUME version \in [Hosts -> Nat], NEW h \in Hosts
    PROVE  Connection(h) \in Nat \X Nat /\ Connection(h) \in Dogs /\ Connection(h) # Untracked
<1>1. Via[h] \in Hosts \cup {None}
    BY Constants
<1>2. Connection(h) \in Nat \X Nat
    BY <1>1 DEF Connection
<1>3. ASSUME NEW a, NEW b PROVE <<a, b>> # <<>>
    <2>1. DOMAIN <<a, b>> = 1 .. 2 /\ DOMAIN <<>> = 1 .. 0
        OBVIOUS
    <2> QED
        BY <2>1
<1>4. Connection(h) # <<>>
    BY <1>3, Zenon DEF Connection
<1> QED
    BY <1>2, <1>4 DEF Dogs, Untracked

\* What a call of each kind may be doing.
LEMMA StepsAre ==
    /\ StepsOf["idle"] = {"idle"} /\ StepsOf["stop"] = Stopping \cup {"late"}
    /\ StepsOf["sweep"] = Stopping \cup {"late"}
    /\ StepsOf["delete"] = Stopping \cup {"begin", "late", "dog", "reserve", "permit", "halt", "forget"}
    /\ StepsOf["watch"] = Started \cup {"reserve", "verify"}
    /\ StepsOf["unwatch"] = {"reserve", "permit", "halt"}
    /\ StepsOf["TERM"] = {"signal"} /\ StepsOf["KILL"] = {"signal"}
    /\ DOMAIN StepsOf = {"idle", "stop", "sweep", "delete", "watch", "unwatch", "TERM", "KILL"}
BY DEF StepsOf

-----------------------------------------------------------------------------
(* Steps of the worker of one generation.                                  *)

\* What a step of the worker of g may change, apart from its own invariant.
WorkerMoves(g) ==
    /\ UNCHANGED <<host, stop, refused, call, process, savedVars, dogVars, shutting>>
    /\ \A k \in Generations \ {g} :
          pc'[k] = pc[k] /\ used'[k] = used[k] /\ child'[k] = child[k] /\ (k \in slot' <=> k \in slot)
    /\ pc'[g] = pc[g] \/ pc[g] \notin {"unused", "done"}
    /\ \/ monitors' = monitors
       \/ monitors[host[g]] = g /\ monitors' = [monitors EXCEPT ![host[g]] = 0]
    /\ \A h \in Hosts : history[h] = <<>> => history'[h] = <<>> \/ monitors[h] # 0
    /\ g \in stop /\ pc'[g] = "read" /\ child'[g] = "running" => pc[g] = "read" /\ child[g] = "running"

\* What a worker may change leaves the invariants of the others alone.
LEMMA WorkerKeeps ==
    ASSUME TelemetryInv, NEW g \in Generations, WorkerMoves(g), Types', GenInv(g)'
    PROVE  TelemetryInv'
<1>1. Types
    BY DEF TelemetryInv
<1>2. /\ UNCHANGED <<host, stop, refused, call, saved, version, watchdogs, operations, session, unsure, shutting>>
      /\ \A h \in Hosts : monitors'[h] = monitors[h] \/ (monitors[h] = g /\ h = host[g] /\ monitors'[h] = 0)
    BY <1>1 DEF WorkerMoves, savedVars, dogVars, Types, ListTypes
<1>3. \A h : Connection(h)' = Connection(h)
    BY <1>2 DEF Connection
<1>4. ASSUME NEW k \in Generations PROVE GenInv(k)'
    <2>1. CASE k # g
        <3>1. /\ pc'[k] = pc[k] /\ used'[k] = used[k] /\ child'[k] = child[k] /\ (k \in slot' <=> k \in slot)
            BY <2>1 DEF WorkerMoves
        <3>2. GenInv(k) /\ pc[k] \in Stages /\ host[k] \in Hosts \cup {None}
            BY <1>1 DEF TelemetryInv, Types, WorkerTypes
        <3>3. host[k] \in Hosts => monitors'[host[k]] = monitors[host[k]] \/ monitors[host[k]] # k
            BY <1>2, <2>1
        <3> QED
            BY <1>2, <1>3, <3>1, <3>2, <3>3 DEF GenInv, Unfinished
    <2> QED
        BY <2>1
<1>5. ASSUME NEW h \in Hosts PROVE MonitorInv(h)' /\ HostInv(h)'
    <2>1. MonitorInv(h) /\ HostInv(h)
        BY DEF TelemetryInv
    <2>2. monitors'[h] = monitors[h] \/ monitors'[h] = 0
        BY <1>2
    <2>3. MonitorInv(h)'
        BY <1>2, <2>1, <2>2 DEF MonitorInv
    <2>4. NoWatch(h)' <=> NoWatch(h)
        BY <1>2 DEF NoWatch
    <2>5. history[h] = <<>> => history'[h] = <<>> \/ monitors[h] # 0
        BY DEF WorkerMoves
    <2>6. HostInv(h)'
        BY <1>2, <1>3, <2>1, <2>4, <2>5, Zenon DEF HostInv, MonitorInv
    <2> QED
        BY <2>3, <2>6
<1>6. ASSUME NEW c \in Everyone PROVE CallInv(c)'
    <2>1. CallInv(c)
        BY DEF TelemetryInv
    <2>2. call' = call /\ call[c] \in Calls
        BY <1>1, <1>2 DEF Types, CallTypes
    <2>3. StopInv(c)'
        <3> SUFFICES ASSUME call[c].pc \in Stopping
                     PROVE  /\ call[c].gen \in stop /\ host[call[c].gen] = call[c].host
                            /\ call[c].pc = "clean" => pc'[call[c].gen] = "done"
                            /\ call[c].pc = "wait" /\ pc'[call[c].gen] = "read" /\ child'[call[c].gen] = "running" =>
                                   call[c].gen \in refused
                            /\ call[c].kind = "delete" => monitors'[call[c].host] \in {0, call[c].gen}
            BY <1>2, <2>2 DEF StopInv
        <3>1. StopInv(c)
            BY <2>1 DEF CallInv
        <3>2. call[c].gen \in Generations
            BY <1>1, <3>1 DEF StopInv, Types, WorkerTypes
        <3>3. call[c].host \in Hosts
            BY <2>1, <2>2, StepsAre DEF CallInv, Stopping
        <3>4. call[c].kind = "delete" => monitors'[call[c].host] \in {0, call[c].gen}
            BY <1>2, <3>1, <3>3 DEF StopInv
        <3>5. call[c].pc = "clean" => pc'[call[c].gen] = "done"
            BY <3>1, <3>2 DEF StopInv, WorkerMoves
        <3>6. call[c].pc = "wait" /\ pc'[call[c].gen] = "read" /\ child'[call[c].gen] = "running" =>
                  call[c].gen \in refused
            BY <3>1, <3>2 DEF StopInv, WorkerMoves
        <3> QED
            BY <3>1, <3>4, <3>5, <3>6 DEF StopInv
    <2>4. DeleteInv(c)'
        <3> SUFFICES ASSUME call[c].kind = "delete" PROVE DeleteInv(c)'
            BY <2>2 DEF DeleteInv
        <3>1. call[c].host \in Hosts /\ DeleteInv(c)
            BY <2>1 DEF CallInv
        <3>2. monitors[call[c].host] = 0 => monitors'[call[c].host] = 0
            BY <1>2, <3>1
        <3>3. NoWatch(call[c].host)' <=> NoWatch(call[c].host)
            BY <1>2 DEF NoWatch
        <3> QED
            BY <1>2, <3>1, <3>2, <3>3 DEF DeleteInv
    <2>5. DogInv(c)'
        BY <1>2, <1>3, <2>1 DEF CallInv, DogInv
    <2> QED
        BY <1>2, <2>1, <2>3, <2>4, <2>5 DEF CallInv
<1> QED
    BY <1>4, <1>5, <1>6 DEF TelemetryInv

\* What may become of the collector of a worker.
ChildStates == {None, "running", "dying", "left", "exited", "reaped"}

\* Such a step that changes neither the list of monitors nor the history.
LEMMA LocalStep ==
    ASSUME TelemetryInv, NEW g \in Generations, NEW p \in Stages, NEW u \in Dogs, NEW x \in ChildStates,
           pc' = [pc EXCEPT ![g] = p], used' = [used EXCEPT ![g] = u], child' = [child EXCEPT ![g] = x],
           slot' \in {slot, slot \cup {g}, slot \ {g}},
           UNCHANGED <<host, stop, refused, call, process, savedVars, dogVars, shutting, monitors, history, sequence>>,
           p = pc[g] \/ (Unfinished(g) /\ p \notin {"unused", "never", "done"}),
           g \in slot' => monitors[host[g]] = g /\ p \in {"check", "read", "take", "after", "end", "done"},
           x \in Living => (p \in {"place", "wait"} \/ g \in slot') /\ u = Connection(host[g]),
           g \in stop /\ p = "read" /\ x = "running" => pc[g] = "read" /\ child[g] = "running"
    PROVE  TelemetryInv'
<1>1. Types /\ GenInv(g)
    BY DEF TelemetryInv
<1>2. /\ pc'[g] = p /\ used'[g] = u /\ child'[g] = x
      /\ \A k \in Generations \ {g} :
            pc'[k] = pc[k] /\ used'[k] = used[k] /\ child'[k] = child[k] /\ (k \in slot' <=> k \in slot)
    BY <1>1 DEF Types, WorkerTypes
<1>3. Types'
    <2>1. pc' \in [Generations -> Stages] /\ used' \in [Generations -> Dogs]
          /\ child' \in [Generations -> ChildStates] /\ slot' \subseteq Generations
        BY <1>1 DEF Types, WorkerTypes, ChildStates
    <2>2. WorkerTypes'
        BY <1>1, <2>1 DEF Types, WorkerTypes, ChildStates
    <2> QED
        BY <1>1, <2>2 DEF Types, ListTypes, DogTypes, CallTypes, savedVars, dogVars
<1>4. Connection(host[g])' = Connection(host[g])
    BY DEF Connection, savedVars
<1>5. GenInv(g)'
    BY <1>1, <1>2, <1>4, Zenon DEF GenInv, Unfinished
<1>6. WorkerMoves(g)
    BY <1>2, Zenon DEF WorkerMoves, Unfinished
<1> QED
    BY <1>3, <1>5, <1>6, WorkerKeeps

\* What the worker of g knows.
LEMMA WorkerFacts ==
    ASSUME TelemetryInv, NEW g \in Generations
    PROVE  /\ pc[g] \in Stages /\ used[g] \in Dogs /\ child[g] \in ChildStates /\ GenInv(g)
           /\ pc = [pc EXCEPT ![g] = pc[g]] /\ used = [used EXCEPT ![g] = used[g]]
           /\ child = [child EXCEPT ![g] = child[g]]
           /\ Unfinished(g) => host[g] \in Hosts /\ monitors[host[g]] = g /\ Connection(host[g]) \in Dogs
<1>1. Types /\ GenInv(g)
    BY DEF TelemetryInv
<1>2. Unfinished(g) => host[g] \in Hosts /\ monitors[host[g]] = g
    BY <1>1 DEF GenInv, Unfinished
<1>3. \A h \in Hosts : Connection(h) \in Dogs
    BY <1>1, ConnectionIs DEF Types, ListTypes
<1> QED
    BY <1>1, <1>2, <1>3 DEF Types, WorkerTypes, ChildStates

\* run_collector: the child is made for the saved connection, put into the slot and
\* fed, or killed if a stop came before.
LEMMA CollectorStarts ==
    ASSUME TelemetryInv, NEW g \in Generations, Connect(g) \/ Place(g) \/ Feed(g)
    PROVE  TelemetryInv'
<1>1. /\ pc[g] \in Stages /\ used[g] \in Dogs /\ child[g] \in ChildStates /\ GenInv(g)
      /\ pc = [pc EXCEPT ![g] = pc[g]] /\ used = [used EXCEPT ![g] = used[g]]
      /\ child = [child EXCEPT ![g] = child[g]]
      /\ Unfinished(g) => host[g] \in Hosts /\ monitors[host[g]] = g /\ Connection(host[g]) \in Dogs
    BY WorkerFacts
<1>2. UNCHANGED <<host, stop, refused, call, process, savedVars, dogVars, shutting, monitors, history, sequence>>
    BY DEF Connect, Place, Feed, listVars, signalVars, endVars
<1>3. CASE Connect(g)
    <2>1. pc[g] = "top" /\ slot' = slot
        BY <1>3 DEF Connect
    <2>2. Unfinished(g) /\ g \notin slot /\ child[g] \notin Living
        BY <1>1, <2>1 DEF GenInv, Unfinished
    <2>3. CASE UNCHANGED <<used, child>> /\ \E p \in {"end", "after"} : pc' = [pc EXCEPT ![g] = p]
        <3>1. PICK p \in {"end", "after"} : pc' = [pc EXCEPT ![g] = p]
            BY <2>3
        <3>2. p \in Stages /\ slot' \in {slot, slot \cup {g}, slot \ {g}}
            BY <2>1 DEF Stages
        <3>3. used' = [used EXCEPT ![g] = used[g]] /\ child' = [child EXCEPT ![g] = child[g]]
            BY <1>1, <2>3
        <3>4. p # "read" /\ p \notin {"unused", "never", "done"}
            OBVIOUS
        <3> QED
            BY <1>1, <1>2, <2>1, <2>2, <3>1, <3>2, <3>3, <3>4, LocalStep
    <2>4. CASE /\ pc' = [pc EXCEPT ![g] = "place"] /\ used' = [used EXCEPT ![g] = Connection(host[g])]
               /\ child' = [child EXCEPT ![g] = "running"]
        <3>1. "place" \in Stages /\ "running" \in ChildStates /\ slot' \in {slot, slot \cup {g}, slot \ {g}}
            BY <2>1 DEF Stages, ChildStates
        <3>2. pc' = [pc EXCEPT ![g] = "place"] /\ used' = [used EXCEPT ![g] = Connection(host[g])]
              /\ child' = [child EXCEPT ![g] = "running"]
            BY <2>4
        <3> QED
            BY <1>1, <1>2, <2>1, <2>2, <3>1, <3>2, LocalStep
    <2> QED
        BY <1>3, <2>3, <2>4 DEF Connect
<1>4. CASE Place(g)
    <2>1. /\ pc[g] = "place" /\ pc' = [pc EXCEPT ![g] = "check"] /\ slot' = slot \cup {g}
          /\ UNCHANGED <<used, child>>
        BY <1>4 DEF Place
    <2>2. Unfinished(g) /\ (child[g] \in Living => used[g] = Connection(host[g]))
        BY <1>1, <2>1 DEF GenInv, Unfinished
    <2> QED
        BY <1>1, <1>2, <2>1, <2>2, LocalStep DEF Stages
<1>5. CASE Feed(g)
    <2>1. pc[g] = "check" /\ used' = used
        BY <1>5 DEF Feed
    <2>2. Unfinished(g) /\ (child[g] \in Living => g \in slot /\ used[g] = Connection(host[g]))
        BY <1>1, <2>1 DEF GenInv, Unfinished
    <2>3. PICK p \in {"take", "read", "after"}, x \in ChildStates :
             /\ pc' = [pc EXCEPT ![g] = p] /\ child' = [child EXCEPT ![g] = x]
             /\ \/ x \in Living => child[g] \in Living /\ slot' = slot /\ p # "after"
             /\ x \notin Living => slot' \in {slot, slot \ {g}} 
             /\ p = "after" => slot' = slot \ {g}
             /\ p = "read" => g \notin stop
        <3>1. CASE /\ child' = [child EXCEPT ![g] = IF g \in stop THEN Killed(g) ELSE @]
                   /\ pc' = [pc EXCEPT ![g] = IF g \in stop THEN "take" ELSE "read"]
                   /\ UNCHANGED slot
            <4>1. Killed(g) \in ChildStates /\ (Killed(g) \in Living => child[g] \in Living)
                BY <1>1 DEF Killed, ChildStates, Living
            <4> QED
                BY <1>1, <3>1, <4>1
        <3>2. CASE /\ slot' = slot \ {g}
                   /\ child' = [child EXCEPT ![g] = IF @ = "exited" THEN "reaped" ELSE "left"]
                   /\ pc' = [pc EXCEPT ![g] = "after"]
            BY <1>1, <3>2 DEF ChildStates, Living
        <3>3. CASE g \in stop /\ pc' = [pc EXCEPT ![g] = "take"] /\ UNCHANGED <<child, slot>>
            BY <1>1, <3>3 DEF ChildStates, Living
        <3> QED
            BY <1>5, <3>1, <3>2, <3>3 DEF Feed
    <2>4. g \in slot' => p \in {"check", "read", "take", "after", "end", "done"}
        BY <2>3
    <2>5. slot' \in {slot, slot \cup {g}, slot \ {g}} /\ p \in Stages
        BY <2>3 DEF Stages
    <2> QED
        BY <1>1, <1>2, <2>1, <2>2, <2>3, <2>4, <2>5, LocalStep
<1> QED
    BY <1>3, <1>4, <1>5

\* Such a step with the same collector.
LEMMA SameCollector ==
    ASSUME TelemetryInv, NEW g \in Generations, NEW p \in Stages, NEW x \in ChildStates,
           pc' = [pc EXCEPT ![g] = p], child' = [child EXCEPT ![g] = x],
           slot' \in {slot, slot \cup {g}, slot \ {g}},
           UNCHANGED <<host, stop, refused, call, process, savedVars, dogVars, shutting, monitors, history, sequence, used>>,
           p = pc[g] \/ (Unfinished(g) /\ p \notin {"unused", "never", "done"}),
           g \in slot' => monitors[host[g]] = g /\ p \in {"check", "read", "take", "after", "end", "done"},
           x \in Living => child[g] \in Living /\ (p \in {"place", "wait"} \/ g \in slot'),
           g \in stop /\ p = "read" /\ x = "running" => pc[g] = "read" /\ child[g] = "running"
    PROVE  TelemetryInv'
<1>1. /\ used[g] \in Dogs /\ used = [used EXCEPT ![g] = used[g]]
      /\ GenInv(g)
    BY WorkerFacts
<1>2. used' = [used EXCEPT ![g] = used[g]]
    BY <1>1
<1>3. x \in Living => (p \in {"place", "wait"} \/ g \in slot') /\ used[g] = Connection(host[g])
    BY <1>1 DEF GenInv
<1>4. UNCHANGED <<host, stop, refused, call, process, savedVars, dogVars, shutting, monitors, history, sequence>>
    OBVIOUS
<1> QED
    BY <1>1, <1>2, <1>3, <1>4, LocalStep

\* The end of the stream: the child is taken, killed, reaped, or left in the slot.
LEMMA CollectorEnds ==
    ASSUME TelemetryInv, NEW g \in Generations,
           StreamEnds(g) \/ Take(g) \/ KillTaken(g) \/ Reap(g)
    PROVE  TelemetryInv'
<1>1. /\ pc[g] \in Stages /\ child[g] \in ChildStates /\ GenInv(g)
      /\ pc = [pc EXCEPT ![g] = pc[g]] /\ child = [child EXCEPT ![g] = child[g]]
      /\ Unfinished(g) => host[g] \in Hosts /\ monitors[host[g]] = g
    BY WorkerFacts
<1>2. UNCHANGED <<host, stop, refused, call, process, savedVars, dogVars, shutting, monitors, history, sequence, used>>
    BY DEF StreamEnds, Take, KillTaken, Reap, listVars, signalVars, endVars
<1>3. CASE StreamEnds(g)
    <2>1. pc[g] = "read" /\ pc' = [pc EXCEPT ![g] = "take"] /\ slot' = slot
          /\ child' = [child EXCEPT ![g] = child[g]]
        BY <1>1, <1>3 DEF StreamEnds
    <2>2. Unfinished(g) /\ (child[g] \in Living => g \in slot)
        BY <1>1, <2>1 DEF GenInv, Unfinished
    <2>3. "take" \in Stages /\ slot' \in {slot, slot \cup {g}, slot \ {g}}
        BY <2>1 DEF Stages
    <2> QED
        BY <1>1, <1>2, <2>1, <2>2, <2>3, SameCollector
<1>4. CASE Take(g)
    <2>1. pc[g] = "take" /\ pc' = [pc EXCEPT ![g] = "wait"] /\ slot' = slot \ {g}
          /\ child' = [child EXCEPT ![g] = child[g]]
        BY <1>1, <1>4 DEF Take
    <2>2. Unfinished(g) /\ g \notin slot'
        BY <2>1 DEF Unfinished
    <2>3. "wait" \in Stages /\ slot' \in {slot, slot \cup {g}, slot \ {g}}
        BY <2>1 DEF Stages
    <2> QED
        BY <1>1, <1>2, <2>1, <2>2, <2>3, SameCollector
<1>5. CASE KillTaken(g)
    <2>1. pc[g] = "wait" /\ child[g] = "running"
        BY <1>5 DEF KillTaken
    <2>2. Unfinished(g) /\ g \notin slot
        BY <1>1, <2>1 DEF GenInv, Unfinished
    <2>3. CASE child' = [child EXCEPT ![g] = "dying"] /\ UNCHANGED <<pc, slot>>
        <3>1. pc' = [pc EXCEPT ![g] = "wait"] /\ g \notin slot'
              /\ slot' \in {slot, slot \cup {g}, slot \ {g}} /\ "dying" \in ChildStates /\ "wait" \in Stages
            BY <1>1, <2>1, <2>2, <2>3 DEF ChildStates, Stages
        <3>2. child[g] \in Living
            BY <2>1 DEF Living
        <3> QED
            BY <1>2, <2>1, <2>3, <3>1, <3>2, SameCollector
    <2>4. CASE slot' = slot \cup {g} /\ pc' = [pc EXCEPT ![g] = "after"] /\ UNCHANGED child
        <3>1. child' = [child EXCEPT ![g] = child[g]] /\ g \in slot' /\ "after" \in Stages
              /\ slot' \in {slot, slot \cup {g}, slot \ {g}}
            BY <1>1, <2>4 DEF Stages
        <3> QED
            BY <1>1, <1>2, <2>2, <2>4, <3>1, SameCollector
    <2> QED
        BY <1>5, <2>3, <2>4 DEF KillTaken
<1>6. CASE Reap(g)
    <2>1. pc[g] = "wait" /\ pc' = [pc EXCEPT ![g] = "after"]
        BY <1>6 DEF Reap
    <2>2. Unfinished(g) /\ g \notin slot /\ "after" \in Stages
        BY <1>1, <2>1 DEF GenInv, Unfinished, Stages
    <2>3. CASE child' = [child EXCEPT ![g] = "reaped"] /\ UNCHANGED slot
        <3>1. "reaped" \in ChildStates /\ "reaped" \notin Living /\ g \notin slot'
              /\ slot' \in {slot, slot \cup {g}, slot \ {g}}
            BY <2>2, <2>3 DEF ChildStates, Living
        <3> QED
            BY <1>2, <2>1, <2>2, <2>3, <3>1, SameCollector
    <2>4. CASE slot' = slot \cup {g} /\ UNCHANGED child
        <3>1. child' = [child EXCEPT ![g] = child[g]] /\ g \in slot'
              /\ slot' \in {slot, slot \cup {g}, slot \ {g}}
            BY <1>1, <2>4
        <3> QED
            BY <1>1, <1>2, <2>1, <2>2, <3>1, SameCollector
    <2> QED
        BY <1>6, <2>3, <2>4 DEF Reap
<1> QED
    BY <1>3, <1>4, <1>5, <1>6

\* The loop is left or entered again only without a child, or with one in the slot;
\* a child may exit at any time.
LEMMA LoopGoesOn ==
    ASSUME TelemetryInv, NEW g \in Generations,
           \/ Conclude(g) \/ ChildExits(g)
           \/ Announce(g) /\ monitors' = monitors /\ pc' = [pc EXCEPT ![g] = "top"]
    PROVE  TelemetryInv'
<1>1. /\ pc[g] \in Stages /\ child[g] \in ChildStates /\ GenInv(g)
      /\ pc = [pc EXCEPT ![g] = pc[g]] /\ child = [child EXCEPT ![g] = child[g]]
      /\ Unfinished(g) => host[g] \in Hosts /\ monitors[host[g]] = g
    BY WorkerFacts
<1>2. UNCHANGED <<host, stop, refused, call, process, savedVars, dogVars, shutting, monitors, history, sequence, used>>
    BY DEF Announce, Conclude, ChildExits, listVars, signalVars, endVars
<1>3. CASE ChildExits(g)
    <2>1. PICK x \in {"exited", "reaped"} : child' = [child EXCEPT ![g] = x]
        BY <1>3 DEF ChildExits
    <2>2. pc' = [pc EXCEPT ![g] = pc[g]] /\ slot' = slot
        BY <1>1, <1>3 DEF ChildExits
    <2>3. x \in ChildStates /\ x \notin Living /\ x # "running" /\ slot' \in {slot, slot \cup {g}, slot \ {g}}
        BY <2>2 DEF ChildStates, Living
    <2>4. g \in slot' => monitors[host[g]] = g /\ pc[g] \in {"check", "read", "take", "after", "end", "done"}
        BY <1>1, <2>2 DEF GenInv
    <2> QED
        BY <1>1, <1>2, <2>1, <2>2, <2>3, <2>4, SameCollector
<1>4. CASE Conclude(g)
    <2>1. pc[g] = "after" /\ slot' = slot
        BY <1>4 DEF Conclude
    <2>2. PICK p \in {"top", "end"} : pc' = [pc EXCEPT ![g] = p] /\ (g \in slot => p = "end")
        BY <1>4 DEF Conclude
    <2>3. child' = [child EXCEPT ![g] = child[g]]
        BY <1>1, <1>4 DEF Conclude
    <2>4. Unfinished(g) /\ (g \in slot => monitors[host[g]] = g) /\ (child[g] \in Living => g \in slot)
        BY <1>1, <2>1 DEF GenInv, Unfinished
    <2>5. p \in Stages /\ p # "read" /\ p \notin {"unused", "never", "done"}
          /\ slot' \in {slot, slot \cup {g}, slot \ {g}}
        BY <2>1 DEF Stages
    <2>6. g \in slot' => monitors[host[g]] = g /\ p \in {"check", "read", "take", "after", "end", "done"}
        BY <2>1, <2>2, <2>4
    <2>7. child[g] \in Living => child[g] \in Living /\ (p \in {"place", "wait"} \/ g \in slot')
        BY <2>1, <2>4
    <2> QED
        BY <1>1, <1>2, <2>2, <2>3, <2>4, <2>5, <2>6, <2>7, SameCollector
<1>5. CASE Announce(g) /\ monitors' = monitors /\ pc' = [pc EXCEPT ![g] = "top"]
    <2>1. pc[g] = "new" /\ slot' = slot /\ child' = [child EXCEPT ![g] = child[g]]
        BY <1>1, <1>5 DEF Announce
    <2>2. Unfinished(g) /\ g \notin slot /\ child[g] \notin Living /\ "top" \in Stages
          /\ slot' \in {slot, slot \cup {g}, slot \ {g}}
        BY <1>1, <2>1 DEF GenInv, Unfinished, Stages
    <2> QED
        BY <1>1, <1>2, <1>5, <2>1, <2>2, SameCollector
<1> QED
    BY <1>3, <1>4, <1>5

\* A nonempty set of numbers has a least one.
LEMMA LeastIsMember ==
    ASSUME NEW F \in SUBSET Nat, F # {}
    PROVE  \E n \in F : \A x \in F : n <= x
<1>1. IsWellFoundedOn({p \in Nat \X Nat : p[1] < p[2]}, Nat)
    BY NatLessThanWellFounded DEF OpToRel
<1>2. PICK n \in F : \A x \in F : ~ (<<x, n>> \in {p \in Nat \X Nat : p[1] < p[2]})
    BY <1>1, WFMin
<1>3. \A x \in F : n <= x
    <2>1. ASSUME NEW x \in F PROVE n <= x
        <3>1. x \in Nat /\ n \in Nat /\ ~ (<<x, n>> \in {p \in Nat \X Nat : p[1] < p[2]})
            BY <1>2
        <3> QED
            BY <3>1
    <2> QED
        BY <2>1
<1> QED
    BY <1>3

\* The host that loses a sample has one.
LEMMA OldestHostHasSamples ==
    ASSUME NEW hist \in [Hosts -> Seq(Nat)], NEW h \in Hosts, hist[h] # <<>>
    PROVE  OldestHost(hist) \in Hosts /\ hist[OldestHost(hist)] # <<>>
<1> DEFINE F == {hist[o][1] : o \in {p \in Hosts : hist[p] # <<>>}}
<1>1. F \in SUBSET Nat
    OBVIOUS
<1>2. hist[h][1] \in F
    OBVIOUS
<1>3. PICK n \in F : \A x \in F : n <= x
    BY <1>1, <1>2, LeastIsMember
<1>4. PICK o \in Hosts : hist[o] # <<>> /\ hist[o][1] = n
    BY <1>3
<1>5. \A p \in Hosts : hist[p] # <<>> => hist[o][1] <= hist[p][1]
    BY <1>3, <1>4
<1> QED
    BY <1>4, <1>5 DEF OldestHost

\* A sample of h leaves the hosts without samples without any.
LEMMA RecordedKeeps ==
    ASSUME history \in [Hosts -> Seq(Nat)], sequence \in Nat, NEW h \in Hosts
    PROVE  /\ Recorded(h) \in [Hosts -> Seq(Nat)]
           /\ \A o \in Hosts \ {h} : history[o] = <<>> => Recorded(h)[o] = <<>>
<1> DEFINE added == [history EXCEPT ![h] = Append(@, sequence)]
           own == IF Len(added[h]) > MaxSamples THEN [added EXCEPT ![h] = Tail(@)] ELSE added
<1>1. added \in [Hosts -> Seq(Nat)] /\ added[h] # <<>> /\ Len(added[h]) \in Nat \ {0}
    <2>1. history[h] \in Seq(Nat) /\ added[h] = Append(history[h], sequence)
        OBVIOUS
    <2>2. Append(history[h], sequence) \in Seq(Nat) /\ Len(Append(history[h], sequence)) = Len(history[h]) + 1
        BY <2>1
    <2>3. Len(history[h]) \in Nat
        BY <2>1
    <2>4. Len(added[h]) \in Nat \ {0}
        BY <2>1, <2>2, <2>3
    <2>5. Len(<<>>) = 0
        OBVIOUS
    <2>6. added[h] # <<>>
        BY <2>4, <2>5
    <2> QED
        BY <2>1, <2>2, <2>4, <2>6
<1>2. own \in [Hosts -> Seq(Nat)] /\ own[h] # <<>>
    <2>1. MaxSamples \in Nat \ {0}
        BY Constants
    <2>2. CASE Len(added[h]) > MaxSamples
        <3>1. Tail(added[h]) \in Seq(Nat) /\ Len(Tail(added[h])) = Len(added[h]) - 1
            BY <1>1
        <3>2. Len(Tail(added[h])) # 0
            BY <1>1, <2>1, <2>2, <3>1
        <3>3. Len(<<>>) = 0
            OBVIOUS
        <3>4. Tail(added[h]) # <<>>
            BY <3>2, <3>3, Zenon
        <3>5. own = [added EXCEPT ![h] = Tail(added[h])]
            BY <2>2
        <3> QED
            BY <1>1, <3>1, <3>4, <3>5
    <2>3. CASE ~(Len(added[h]) > MaxSamples)
        BY <1>1, <2>3
    <2> QED
        BY <2>2, <2>3
<1>3. \A o \in Hosts \ {h} : own[o] = history[o]
    OBVIOUS
<1> DEFINE b == OldestHost(own)
<1>4. b \in Hosts /\ own[b] # <<>>
    BY <1>2, OldestHostHasSamples
<1>5. [own EXCEPT ![b] = Tail(@)] \in [Hosts -> Seq(Nat)]
    BY <1>2, <1>4
<1>6. Recorded(h) \in {own, [own EXCEPT ![b] = Tail(@)]}
    BY Zenon DEF Recorded
<1> HIDE DEF own, b
<1> QED
    BY <1>2, <1>3, <1>4, <1>5, <1>6

\* A worker that is not made, or ends without a pending child, leaves the list; a
\* listed worker records samples.
LEMMA WorkerLeavesOrSamples ==
    ASSUME TelemetryInv, NEW g \in Generations,
           \/ Announce(g) /\ pc' = [pc EXCEPT ![g] = "never"] /\ monitors' = [monitors EXCEPT ![host[g]] = 0]
           \/ WorkerEnds(g) \/ Sample(g)
    PROVE  TelemetryInv'
<1>1. /\ pc[g] \in Stages /\ child[g] \in ChildStates /\ GenInv(g) /\ Types
      /\ Unfinished(g) => host[g] \in Hosts /\ monitors[host[g]] = g
    BY WorkerFacts DEF TelemetryInv
<1>2. UNCHANGED <<host, stop, refused, call, process, savedVars, dogVars, shutting, used, child, slot>>
    BY DEF Announce, WorkerEnds, Sample, signalVars, endVars
<1>3. 0 \notin Generations
    BY Constants
<1>4. Connection(host[g])' = Connection(host[g])
    BY <1>2 DEF Connection, savedVars
<1>5. ASSUME NEW p \in Stages, pc' = [pc EXCEPT ![g] = p], monitors' \in [Hosts -> Generations \cup {0}],
             history' \in [Hosts -> Seq(Nat)], sequence' \in Nat
      PROVE  Types' /\ pc'[g] = p
    <2>1. pc' \in [Generations -> Stages] /\ pc'[g] = p
        BY <1>1, <1>5 DEF Types, WorkerTypes
    <2>2. WorkerTypes'
        BY <1>1, <1>2, <2>1 DEF Types, WorkerTypes
    <2>3. ListTypes'
        BY <1>1, <1>2, <1>5 DEF Types, ListTypes, savedVars
    <2> QED
        BY <1>1, <1>2, <2>1, <2>2, <2>3 DEF Types, DogTypes, CallTypes, dogVars
<1>6. \A k \in Generations \ {g} : pc'[k] = pc[k] /\ used'[k] = used[k] /\ child'[k] = child[k] /\ (k \in slot' <=> k \in slot)
    BY <1>1, <1>2 DEF Types, WorkerTypes, Announce, WorkerEnds, Sample
<1>7. CASE Announce(g) /\ pc' = [pc EXCEPT ![g] = "never"] /\ monitors' = [monitors EXCEPT ![host[g]] = 0]
    <2>1. pc[g] = "new" /\ UNCHANGED <<history, sequence>>
        BY <1>7 DEF Announce
    <2>2. Unfinished(g) /\ g \notin slot /\ child[g] \notin Living
        BY <1>1, <2>1 DEF GenInv, Unfinished
    <2>3. Types' /\ pc'[g] = "never"
        BY <1>1, <1>5, <1>7, <2>1 DEF Types, ListTypes, Stages
    <2>4. GenInv(g)'
        BY <1>1, <1>2, <2>2, <2>3 DEF GenInv, Unfinished
    <2>5. WorkerMoves(g)
        BY <1>1, <1>2, <1>6, <1>7, <2>1, <2>2, <2>3 DEF WorkerMoves
    <2> QED
        BY <2>3, <2>4, <2>5, WorkerKeeps
<1>8. CASE WorkerEnds(g)
    <2>1. pc[g] = "end" /\ pc' = [pc EXCEPT ![g] = "done"] /\ UNCHANGED <<history, sequence>>
        BY <1>8 DEF WorkerEnds
    <2>2. \/ monitors' = monitors
          \/ g \notin slot /\ monitors[host[g]] = g /\ monitors' = [monitors EXCEPT ![host[g]] = 0]
        BY <1>8 DEF WorkerEnds, Pending
    <2>3. Unfinished(g) /\ (child[g] \in Living => g \in slot)
        BY <1>1, <2>1 DEF GenInv, Unfinished
    <2>4. Types' /\ pc'[g] = "done"
        BY <1>1, <1>5, <2>1, <2>2 DEF Types, ListTypes, Stages
    <2>5. g \in slot => monitors'[host[g]] = g
        BY <1>1, <2>2 DEF GenInv
    <2>6. GenInv(g)'
        BY <1>1, <1>2, <1>4, <2>1, <2>3, <2>4, <2>5 DEF GenInv, Unfinished
    <2>7. WorkerMoves(g)
        BY <1>1, <1>2, <1>6, <2>1, <2>2, <2>4 DEF WorkerMoves
    <2> QED
        BY <2>4, <2>6, <2>7, WorkerKeeps
<1>9. CASE Sample(g)
    <2>1. pc[g] = "read" /\ monitors' = monitors
        BY <1>9 DEF Sample
    <2>2. PICK p \in {"take", "read"} : pc' = [pc EXCEPT ![g] = p]
        BY <1>9 DEF Sample
    <2>3. Unfinished(g) /\ (child[g] \in Living => g \in slot)
        BY <1>1, <2>1 DEF GenInv, Unfinished
    <2>4. /\ history' \in [Hosts -> Seq(Nat)] /\ sequence' \in Nat
          /\ \A h \in Hosts : history[h] = <<>> => history'[h] = <<>> \/ h = host[g]
        <3>1. history \in [Hosts -> Seq(Nat)] /\ sequence \in Nat
            BY <1>1 DEF Types, ListTypes
        <3>2. CASE Accepts(g)
            <4>1. history' = Recorded(host[g]) /\ sequence' = sequence + 1
                BY <1>9, <3>2 DEF Sample
            <4> QED
                BY <1>1, <2>3, <3>1, <4>1, RecordedKeeps
        <3>3. CASE ~Accepts(g)
            BY <1>9, <3>1, <3>3 DEF Sample
        <3> QED
            BY <3>2, <3>3
    <2>5. Types' /\ pc'[g] = p
        BY <1>1, <1>5, <2>1, <2>2, <2>4 DEF Types, ListTypes, Stages
    <2>6. GenInv(g)'
        BY <1>1, <1>2, <1>4, <2>1, <2>2, <2>3, <2>5 DEF GenInv, Unfinished
    <2>7. \A h \in Hosts : history[h] = <<>> => history'[h] = <<>> \/ monitors[h] # 0
        BY <1>1, <1>3, <2>3, <2>4
    <2>8. WorkerMoves(g)
        BY <1>2, <1>6, <2>1, <2>7 DEF WorkerMoves
    <2> QED
        BY <2>5, <2>6, <2>8, WorkerKeeps
<1> QED
    BY <1>7, <1>8, <1>9

\* A free generation is listed for a host that is saved.
LEMMA MonitorStarts ==
    ASSUME TelemetryInv, NEW g \in Generations, NEW h \in Hosts, StartMonitor(h, g)
    PROVE  TelemetryInv'
<1>1. /\ pc[g] = "unused" /\ saved[h] = "saved" /\ monitors[h] = 0
      /\ monitors' = [monitors EXCEPT ![h] = g] /\ host' = [host EXCEPT ![g] = h]
      /\ pc' = [pc EXCEPT ![g] = "new"]
      /\ UNCHANGED <<history, sequence, used, child, slot, stop, refused, saved, version,
                     watchdogs, operations, session, unsure, call, process, shutting>>
    BY DEF StartMonitor, dogVars, signalVars, endVars, savedVars
<1>2. Types /\ GenInv(g) /\ 0 \notin Generations
    BY Constants DEF TelemetryInv
<1>3. host[g] \notin Hosts /\ g \notin slot /\ child[g] \notin Living
    BY <1>1, <1>2 DEF GenInv
<1>4. /\ \A k \in Generations : pc'[k] = IF k = g THEN "new" ELSE pc[k]
      /\ \A k \in Generations : host'[k] = IF k = g THEN h ELSE host[k]
      /\ \A o \in Hosts : monitors'[o] = IF o = h THEN g ELSE monitors[o]
    BY <1>1, <1>2 DEF Types, WorkerTypes, ListTypes
<1>5. Types'
    <2>1. WorkerTypes'
        BY <1>1, <1>2 DEF Types, WorkerTypes, Stages
    <2>2. ListTypes'
        BY <1>1, <1>2 DEF Types, ListTypes
    <2> QED
        BY <1>1, <1>2, <2>1, <2>2 DEF Types, DogTypes, CallTypes
<1>6. \A o : Connection(o)' = Connection(o)
    BY <1>1 DEF Connection
<1>7. ASSUME NEW k \in Generations PROVE GenInv(k)'
    <2>1. CASE k = g
        BY <1>1, <1>3, <1>4, <2>1 DEF GenInv, Unfinished
    <2>2. CASE k # g
        <3>1. GenInv(k) /\ pc'[k] = pc[k] /\ host'[k] = host[k]
            BY <1>4, <2>2 DEF TelemetryInv
        <3>2. ~(host[k] = h /\ monitors[h] = k)
            BY <1>1, <1>2
        <3>3. host[k] \in Hosts /\ monitors[host[k]] = k => monitors'[host[k]] = k
            BY <1>4, <3>2
        <3>4. Unfinished(k)' <=> Unfinished(k)
            BY <3>1 DEF Unfinished
        <3>5. k \in slot => pc[k] # "unused"
            BY <3>1 DEF GenInv
        <3> QED
            BY <1>1, <1>6, <3>1, <3>3, <3>4, <3>5 DEF GenInv, Unfinished
    <2> QED
        BY <2>1, <2>2
<1>8. ASSUME NEW o \in Hosts PROVE MonitorInv(o)' /\ HostInv(o)'
    <2>1. MonitorInv(o) /\ HostInv(o) /\ monitors[o] \in Generations \cup {0}
        BY <1>2 DEF TelemetryInv, Types, ListTypes
    <2>2. MonitorInv(o)'
        BY <1>1, <1>2, <1>3, <1>4, <2>1 DEF MonitorInv
    <2>3. NoWatch(o)' <=> NoWatch(o)
        BY <1>1 DEF NoWatch
    <2>4. HostInv(o)'
        BY <1>1, <1>6, <2>1, <2>3 DEF HostInv
    <2> QED
        BY <2>2, <2>4
<1>9. ASSUME NEW c \in Everyone PROVE CallInv(c)'
    <2>1. CallInv(c) /\ call[c] \in Calls
        BY <1>2 DEF TelemetryInv, Types, CallTypes
    <2>2. call[c].pc \in Stopping => call[c].gen # g /\ call[c].gen \in Generations /\ call[c].host \in Hosts
        BY <1>2, <1>3, <2>1, StepsAre DEF CallInv, StopInv, Stopping, Types, WorkerTypes
    <2>3. call[c].kind = "delete" => call[c].host \in Hosts /\ monitors'[call[c].host] = monitors[call[c].host]
        BY <1>1, <1>4, <2>1 DEF CallInv, DeleteInv
    <2>4. StopInv(c)'
        BY <1>1, <1>4, <2>1, <2>2, <2>3 DEF CallInv, StopInv
    <2>5. \A o : NoWatch(o)' <=> NoWatch(o)
        BY <1>1 DEF NoWatch
    <2>6. DeleteInv(c)'
        BY <1>1, <2>1, <2>3, <2>5 DEF CallInv, DeleteInv
    <2>7. DogInv(c)'
        BY <1>1, <1>6, <2>1 DEF CallInv, DogInv
    <2> QED
        BY <1>1, <2>1, <2>4, <2>6, <2>7 DEF CallInv
<1> QED
    BY <1>5, <1>7, <1>8, <1>9 DEF TelemetryInv

-----------------------------------------------------------------------------
(* Steps of one call.                                                      *)

\* A call k at a remote command of a started watchdog.
Watching(k) == k.kind = "watch" /\ k.pc \notin {"reserve", "verify"}

\* What a step of the call of c may change, apart from its own invariant.
CallMoves(c) ==
    /\ UNCHANGED <<pc, host, used, version, shutting>>
    /\ stop \subseteq stop' /\ refused \subseteq refused'
    /\ \A g \in Generations : child'[g] = "running" => child[g] = "running"
    /\ \A h \in Hosts :
          /\ monitors'[h] \in {monitors[h], 0}
          /\ saved'[h] = saved[h] \/ saved[h] = "saved" \/ (call[c].kind = "delete" /\ call[c].host = h)
          /\ operations[h] # Untracked => operations'[h] # Untracked \/ (call[c].pc \in Held /\ call[c].host = h)
          /\ watchdogs[h] = Untracked => watchdogs'[h] = Untracked \/ (Watching(call[c]) /\ call[c].host = h)
    /\ \A d \in Everyone \ {c} : call'[d] = call[d]
    /\ Watching(call'[c]) =>
          saved[call'[c].host] = "saved" \/ (Watching(call[c]) /\ call'[c].host = call[c].host)
    /\ call'[c].kind = "delete" =>
          saved[call'[c].host] = "saved" \/ (call[c].kind = "delete" /\ call'[c].host = call[c].host)
    /\ call'[c].pc \in Held =>
          operations[call'[c].host] = Untracked \/ (call[c].pc \in Held /\ call'[c].host = call[c].host)

\* A host that is not saved gets no start of a watchdog.
LEMMA NoWatchKept ==
    ASSUME NEW c \in Everyone, NEW h, CallMoves(c), saved[h] # "saved", NoWatch(h)
    PROVE  NoWatch(h)'
<1> SUFFICES ASSUME NEW b \in Everyone, call'[b].host = h, call'[b].kind = "watch"
             PROVE  call'[b].pc \in {"reserve", "verify"}
    BY DEF NoWatch
<1>1. CASE b = c
    BY <1>1 DEF CallMoves, NoWatch, Watching
<1>2. CASE b # c
    BY <1>2 DEF CallMoves, NoWatch
<1> QED
    BY <1>1, <1>2

\* What a call may change leaves the other calls alone.
LEMMA OthersKeep ==
    ASSUME TelemetryInv, NEW c \in Everyone, NEW d \in Everyone \ {c}, CallMoves(c)
    PROVE  CallInv(d)'
<1>1. Types /\ CallInv(d) /\ CallInv(c)
    BY DEF TelemetryInv
<1>2. call'[d] = call[d] /\ UNCHANGED <<pc, host, used, version, shutting>>
    BY DEF CallMoves
<1>3. call[d].kind # "idle" => call[d].host \in Hosts
    BY <1>1 DEF CallInv
<1>4. StopInv(d)'
    <2> SUFFICES ASSUME call[d].pc \in Stopping
                 PROVE  /\ call[d].gen \in stop' /\ host[call[d].gen] = call[d].host
                        /\ call[d].pc = "clean" => pc[call[d].gen] = "done"
                        /\ call[d].pc = "wait" /\ pc[call[d].gen] = "read" /\ child'[call[d].gen] = "running" =>
                               call[d].gen \in refused'
                        /\ call[d].kind = "delete" => monitors'[call[d].host] \in {0, call[d].gen}
        BY <1>2 DEF StopInv
    <2>1. StopInv(d) /\ call[d].gen \in stop /\ call[d].gen \in Generations
        BY <1>1 DEF CallInv, StopInv, Types, WorkerTypes
    <2>2. call[d].host \in Hosts
        BY <1>1, <1>3, StepsAre DEF CallInv, Stopping
    <2> QED
        BY <2>1, <2>2 DEF CallMoves, StopInv
<1>5. DeleteInv(d)'
    <2> SUFFICES ASSUME call[d].kind = "delete" PROVE DeleteInv(d)'
        BY <1>2 DEF DeleteInv
    <2>1. DeleteInv(d) /\ call[d].host \in Hosts
        BY <1>1, <1>3 DEF CallInv
    <2> PICK h \in Hosts : h = call[d].host
        BY <2>1
    <2>2. saved[h] = "deleting" /\ ~(call[c].kind = "delete" /\ call[c].host = h)
        BY <2>1 DEF DeleteInv
    <2>3. saved'[h] = "deleting"
        BY <2>1, <2>2 DEF CallMoves
    <2>4. monitors[h] = 0 => monitors'[h] = 0
        BY <2>1 DEF CallMoves
    <2>5. NoWatch(h) => NoWatch(h)'
        BY <2>2, NoWatchKept
    <2>6. NoWatch(h) /\ watchdogs[h] = Untracked => watchdogs'[h] = Untracked
        BY <2>1 DEF CallMoves, NoWatch, Watching
    <2>7. \A b \in Everyone \ {d} : call'[b].kind = "delete" => call'[b].host # h
        <3> SUFFICES ASSUME NEW b \in Everyone \ {d}, call'[b].kind = "delete" PROVE call'[b].host # h
            OBVIOUS
        <3>1. CASE b = c
            BY <2>2, <3>1 DEF CallMoves
        <3>2. CASE b # c
            BY <2>1, <3>2 DEF CallMoves, DeleteInv
        <3> QED
            BY <3>1, <3>2
    <2>8. /\ DeleteInv(d)' <=>
              (/\ saved'[h] = "deleting" /\ shutting = "no"
               /\ call[d].pc \notin Stopping \cup {"begin"} => monitors'[h] = 0
               /\ call[d].pc \in {"reserve", "permit", "halt", "forget"} => NoWatch(h)'
               /\ call[d].pc = "forget" => watchdogs'[h] = Untracked
               /\ \A b \in Everyone \ {d} : call'[b].kind = "delete" => call'[b].host # h)
        BY <1>2 DEF DeleteInv
    <2> QED
        BY <2>1, <2>3, <2>4, <2>5, <2>6, <2>7, <2>8 DEF DeleteInv
<1>6. DogInv(d)'
    <2>1. DogInv(d)
        BY <1>1 DEF CallInv
    <2>2. Connection(call[d].host)' = Connection(call[d].host)
        BY <1>2 DEF Connection
    <2>3. ASSUME call[d].pc \in Held
          PROVE  /\ operations'[call[d].host] # Untracked
                 /\ \A b \in Everyone \ {d} : call'[b].pc \in Held => call'[b].host # call[d].host
        <3>1. call[d].host \in Hosts
            BY <1>1, <1>3, <2>3, StepsAre DEF CallInv, Held
        <3>2. operations[call[d].host] # Untracked /\ ~(call[c].pc \in Held /\ call[c].host = call[d].host)
            BY <2>1, <2>3 DEF DogInv
        <3>3. operations'[call[d].host] # Untracked
            BY <3>1, <3>2 DEF CallMoves
        <3>4. ASSUME NEW b \in Everyone \ {d}, call'[b].pc \in Held PROVE call'[b].host # call[d].host
            <4>1. CASE b = c
                BY <3>2, <3>4, <4>1 DEF CallMoves
            <4>2. CASE b # c
                BY <2>1, <2>3, <3>4, <4>2 DEF CallMoves, DogInv
            <4> QED
                BY <4>1, <4>2
        <3> QED
            BY <3>3, <3>4
    <2> QED
        BY <1>2, <2>1, <2>2, <2>3 DEF DogInv
<1> QED
    BY <1>1, <1>2, <1>4, <1>5, <1>6 DEF CallInv

\* A step that leaves the workers and the list alone.
LEMMA WorkersRest ==
    ASSUME TelemetryInv, UNCHANGED <<pc, host, used, child, slot, monitors, version>>, NEW g \in Generations
    PROVE  GenInv(g)'
<1>1. GenInv(g)
    BY DEF TelemetryInv
<1>2. Connection(host[g])' = Connection(host[g])
    BY DEF Connection
<1> QED
    BY <1>1, <1>2 DEF GenInv, Unfinished

\* A call that is over has nothing to keep.
LEMMA IdleInv ==
    ASSUME NEW c, call'[c] = Idle
    PROVE  CallInv(c)'
<1>1. call'[c].kind = "idle" /\ call'[c].pc = "idle"
    BY DEF Idle
<1>2. call'[c].pc \notin Stopping \cup Held /\ "idle" \in StepsOf["idle"]
    BY <1>1, StepsAre DEF Stopping, Held
<1> QED
    BY <1>1, <1>2 DEF CallInv, StopInv, DeleteInv, DogInv

\* The calls are of their type.
LEMMA IdleIsCall == Idle \in Calls
BY StepsAre DEF Idle, Calls, AllSteps, Dogs

\* A call that has ended holds nothing.
LEMMA IdleIsQuiet == Idle.kind = "idle" /\ Idle.pc = "idle" /\ Idle.kind # "delete" /\ Idle.pc \notin Held /\ ~Watching(Idle)
<1>1. Idle.kind = "idle" /\ Idle.pc = "idle"
    BY DEF Idle
<1> QED
    BY <1>1 DEF Held, Watching

\* A step of one call, with what it may change.
LEMMA CallStep ==
    ASSUME TelemetryInv, NEW c \in Everyone, NEW k \in Calls, call' = [call EXCEPT ![c] = k],
           CallMoves(c), CallInv(c)', WorkerTypes', ListTypes', DogTypes', process' \in [Hosts -> Hosts \X Nat],
           \A g \in Generations : GenInv(g)',
           \A h \in Hosts : MonitorInv(h)' /\ HostInv(h)'
    PROVE  TelemetryInv'
<1>1. CallTypes'
    BY DEF TelemetryInv, Types, CallTypes
<1>2. \A d \in Everyone : CallInv(d)'
    BY OthersKeep
<1> QED
    BY <1>1, <1>2 DEF TelemetryInv, Types

\* A step of one call that touches neither the workers nor what is tracked.
LEMMA CallAlone ==
    ASSUME TelemetryInv, NEW c \in Everyone, NEW k \in Calls, call' = [call EXCEPT ![c] = k],
           CallMoves(c), CallInv(c)', stop' \subseteq Generations,
           saved' \in [Hosts -> {"saved", "deleting", "gone"}],
           \A h \in Hosts : saved'[h] = "gone" => saved[h] = "gone",
           operations' \in [Hosts -> Dogs], process' \in [Hosts -> Hosts \X Nat],
           UNCHANGED <<child, slot, monitors, history, sequence, watchdogs, session, unsure>>
    PROVE  TelemetryInv'
<1>1. Types /\ UNCHANGED <<pc, host, used, version, shutting>>
    BY DEF TelemetryInv, CallMoves
<1>2. WorkerTypes' /\ ListTypes' /\ DogTypes'
    BY <1>1 DEF Types, WorkerTypes, ListTypes, DogTypes
<1>3. \A g \in Generations : GenInv(g)'
    BY <1>1, WorkersRest
<1>4. ASSUME NEW h \in Hosts PROVE MonitorInv(h)' /\ HostInv(h)'
    <2>1. MonitorInv(h) /\ HostInv(h)
        BY DEF TelemetryInv
    <2>2. MonitorInv(h)'
        BY <1>1, <2>1 DEF MonitorInv
    <2>3. Connection(h)' = Connection(h)
        BY <1>1 DEF Connection
    <2>4. saved'[h] = "gone" => saved[h] = "gone" /\ NoWatch(h)'
        BY <2>1, NoWatchKept DEF HostInv
    <2>5. HostInv(h)'
        BY <1>1, <2>1, <2>3, <2>4 DEF HostInv
    <2> QED
        BY <2>2, <2>5
<1> QED
    BY <1>2, <1>3, <1>4, CallStep

\* What a call returns with an error: a host deletion is aborted.
LEMMA RefusedFacts ==
    ASSUME TelemetryInv, NEW c \in Everyone, Refused(c)
    PROVE  /\ call' = [call EXCEPT ![c] = Idle] /\ call'[c] = Idle /\ Idle \in Calls
           /\ CallInv(c)' /\ saved' \in [Hosts -> {"saved", "deleting", "gone"}]
           /\ \A h \in Hosts : saved'[h] = "gone" => saved[h] = "gone"
           /\ \A h \in Hosts : saved'[h] = saved[h] \/ (call[c].kind = "delete" /\ call[c].host = h)
           /\ UNCHANGED version
<1>1. Types
    BY DEF TelemetryInv
<1>2. call' = [call EXCEPT ![c] = Idle] /\ call'[c] = Idle
    BY <1>1 DEF Refused, Types, CallTypes
<1>3. /\ saved' \in [Hosts -> {"saved", "deleting", "gone"}]
      /\ \A h \in Hosts : saved'[h] = "gone" => saved[h] = "gone"
      /\ \A h \in Hosts : saved'[h] = saved[h] \/ (call[c].kind = "delete" /\ call[c].host = h)
    BY <1>1 DEF Refused, Types, ListTypes
<1> QED
    BY <1>2, <1>3, IdleInv, IdleIsCall DEF Refused

\* The call ends, without touching workers or watchdogs.
LEMMA CallEnds ==
    ASSUME TelemetryInv, NEW c \in Everyone,
           Refused(c) \/ (call' = [call EXCEPT ![c] = Idle] /\ UNCHANGED savedVars),
           UNCHANGED <<pc, host, used, child, slot, stop, refused, monitors, history, sequence, shutting,
                       watchdogs, session, unsure>>,
           process' \in [Hosts -> Hosts \X Nat],
           \/ UNCHANGED operations
           \/ call[c].pc \in Held /\ operations' = [operations EXCEPT ![call[c].host] = Untracked]
    PROVE  TelemetryInv'
<1>1. Types
    BY DEF TelemetryInv
<1>2. /\ call' = [call EXCEPT ![c] = Idle] /\ call'[c] = Idle /\ Idle \in Calls
      /\ CallInv(c)' /\ saved' \in [Hosts -> {"saved", "deleting", "gone"}]
      /\ \A h \in Hosts : saved'[h] = "gone" => saved[h] = "gone"
      /\ \A h \in Hosts : saved'[h] = saved[h] \/ (call[c].kind = "delete" /\ call[c].host = h)
      /\ UNCHANGED version
    <2>1. CASE Refused(c)
        BY <2>1, RefusedFacts
    <2>2. CASE call' = [call EXCEPT ![c] = Idle] /\ UNCHANGED savedVars
        <3>1. call'[c] = Idle
            BY <1>1, <2>2 DEF Types, CallTypes
        <3> QED
            BY <1>1, <2>2, <3>1, IdleInv, IdleIsCall DEF Types, ListTypes, savedVars
    <2> QED
        BY <2>1, <2>2
<1>3. /\ operations' \in [Hosts -> Dogs]
      /\ \A h \in Hosts : operations[h] # Untracked => operations'[h] # Untracked \/ (call[c].pc \in Held /\ call[c].host = h)
    BY <1>1 DEF Types, DogTypes, Dogs
<1>4. /\ ~Watching(call'[c]) /\ call'[c].kind # "delete" /\ call'[c].pc \notin Held
    BY <1>2, IdleIsQuiet, Zenon
<1>5. CallMoves(c)
    <2>1. \A d \in Everyone \ {c} : call'[d] = call[d]
        BY <1>1, <1>2 DEF Types, CallTypes
    <2> QED
        BY <1>2, <1>3, <1>4, <2>1 DEF CallMoves
<1>6. stop' \subseteq Generations
    BY <1>1 DEF Types, WorkerTypes
<1> QED
    BY <1>2, <1>3, <1>5, <1>6, CallAlone

\* What kind of call is at a step.
LEMMA KindIs ==
    ASSUME TelemetryInv, NEW c \in Everyone
    PROVE  /\ call[c] \in Calls /\ CallInv(c)
           /\ call[c].pc # "idle" => call[c].host \in Hosts /\ call[c].kind # "idle"
           /\ call[c].pc \in {"begin", "dog", "forget"} => call[c].kind = "delete"
           /\ call[c].pc \in Stopping \cup {"late"} => call[c].kind \in {"stop", "sweep", "delete"}
           /\ call[c].pc \in {"reserve", "permit"} => call[c].kind \in {"watch", "unwatch", "delete"}
           /\ call[c].pc \in {"verify", "run", "gate", "inspect", "gate again"} => call[c].kind = "watch"
           /\ call[c].pc = "halt" => call[c].kind \in {"unwatch", "delete"}
           /\ call[c].pc = "signal" => call[c].kind \in {"TERM", "KILL"}
<1>1. call[c] \in Calls /\ CallInv(c)
    BY DEF TelemetryInv, Types, CallTypes
<1>2. call[c].kind \in DOMAIN StepsOf
    BY <1>1 DEF Calls
<1>3. call[c].pc # "idle" => call[c].host \in Hosts /\ call[c].kind # "idle"
    BY <1>1, StepsAre DEF CallInv
<1>4. call[c].pc \in StepsOf[call[c].kind] /\ call[c].kind \in {"idle", "stop", "sweep", "delete", "watch", "unwatch", "TERM", "KILL"}
    BY <1>1, <1>2, StepsAre DEF CallInv
<1>5. /\ call[c].kind = "idle" => call[c].pc = "idle"
      /\ call[c].kind \in {"stop", "sweep"} => call[c].pc \in {"kill", "wait", "clean", "late"}
      /\ call[c].kind = "delete" => call[c].pc \in {"kill", "wait", "clean", "begin", "late", "dog", "reserve", "permit", "halt", "forget"}
      /\ call[c].kind = "watch" => call[c].pc \in {"permit", "run", "gate", "inspect", "gate again", "reserve", "verify"}
      /\ call[c].kind = "unwatch" => call[c].pc \in {"reserve", "permit", "halt"}
      /\ call[c].kind \in {"TERM", "KILL"} => call[c].pc = "signal"
    <2>1. /\ StepsOf["stop"] = {"kill", "wait", "clean", "late"} /\ StepsOf["sweep"] = {"kill", "wait", "clean", "late"}
          /\ StepsOf["delete"] = {"kill", "wait", "clean", "begin", "late", "dog", "reserve", "permit", "halt", "forget"}
          /\ StepsOf["watch"] = {"permit", "run", "gate", "inspect", "gate again", "reserve", "verify"}
        BY StepsAre DEF Stopping, Started
    <2>2. /\ StepsOf["idle"] = {"idle"} /\ StepsOf["unwatch"] = {"reserve", "permit", "halt"}
          /\ StepsOf["TERM"] = {"signal"} /\ StepsOf["KILL"] = {"signal"}
        BY StepsAre
    <2> QED
        BY <1>4, <2>1, <2>2
<1>6. call[c].kind \in {"idle", "stop", "sweep", "delete", "watch", "unwatch", "TERM", "KILL"}
    BY <1>4
<1>7. /\ call[c].pc \in {"begin", "dog", "forget"} => call[c].kind = "delete"
      /\ call[c].pc \in {"kill", "wait", "clean", "late"} => call[c].kind \in {"stop", "sweep", "delete"}
    BY <1>5, <1>6
<1>8. /\ call[c].pc \in {"reserve", "permit"} => call[c].kind \in {"watch", "unwatch", "delete"}
      /\ call[c].pc \in {"verify", "run", "gate", "inspect", "gate again"} => call[c].kind = "watch"
      /\ call[c].pc = "halt" => call[c].kind \in {"unwatch", "delete"}
      /\ call[c].pc = "signal" => call[c].kind \in {"TERM", "KILL"}
    BY <1>5, <1>6
<1>9. Stopping \cup {"late"} = {"kill", "wait", "clean", "late"}
    BY DEF Stopping
<1> QED
    BY <1>1, <1>3, <1>7, <1>8, <1>9

\* A call that begins or goes on.
LEMMA CallGoesOn ==
    ASSUME TelemetryInv, NEW c \in Everyone, NEW k \in Calls, call' = [call EXCEPT ![c] = k], CallInv(c)',
           stop \subseteq stop', stop' \subseteq Generations, refused \subseteq refused',
           \/ UNCHANGED saved
           \/ saved[k.host] = "saved" /\ saved' = [saved EXCEPT ![k.host] = "deleting"],
           \/ UNCHANGED operations
           \/ operations[k.host] = Untracked /\ \E d \in Dogs : operations' = [operations EXCEPT ![k.host] = d],
           UNCHANGED <<pc, host, used, child, slot, monitors, history, sequence, version, shutting, process,
                       watchdogs, session, unsure>>,
           Watching(k) => saved[k.host] = "saved" \/ (Watching(call[c]) /\ k.host = call[c].host),
           k.kind = "delete" => saved[k.host] = "saved" \/ (call[c].kind = "delete" /\ k.host = call[c].host),
           k.pc \in Held => operations[k.host] = Untracked \/ (call[c].pc \in Held /\ k.host = call[c].host)
    PROVE  TelemetryInv'
<1>1. Types
    BY DEF TelemetryInv
<1>2. call'[c] = k /\ \A d \in Everyone \ {c} : call'[d] = call[d]
    BY <1>1 DEF Types, CallTypes
<1>3. /\ saved' \in [Hosts -> {"saved", "deleting", "gone"}]
      /\ \A h \in Hosts : saved'[h] = "gone" => saved[h] = "gone"
      /\ \A h \in Hosts : saved'[h] = saved[h] \/ saved[h] = "saved"
    BY <1>1 DEF Types, ListTypes
<1>4. /\ operations' \in [Hosts -> Dogs]
      /\ \A h \in Hosts : operations[h] # Untracked => operations'[h] # Untracked
    BY <1>1 DEF Types, DogTypes
<1>5. CallMoves(c)
    BY <1>2, <1>3, <1>4 DEF CallMoves
<1>6. process' \in [Hosts -> Hosts \X Nat]
    BY <1>1 DEF Types, CallTypes
<1> QED
    BY <1>3, <1>4, <1>5, <1>6, CallAlone

\* The stop of a request and of a host deletion.
LEMMA StopOfMonitor ==
    ASSUME TelemetryInv, NEW c \in Everyone, NEW h \in Hosts, NEW kind \in {"stop", "delete"},
           StopBegins(c, h, kind),
           kind = "stop" => c \notin Hosts,
           kind = "delete" => call[c].kind = "delete" /\ call[c].host = h,
           UNCHANGED <<pc, host, used, child, slot, refused, monitors, history, sequence, saved, version, shutting,
                       process, watchdogs, operations, session, unsure>>
    PROVE  TelemetryInv'
<1>1. Types /\ MonitorInv(h) /\ call[c] \in Calls /\ CallInv(c)
    BY KindIs DEF TelemetryInv
<1> DEFINE p == IF monitors[h] = 0 THEN "late" ELSE "kill"
           k == [Idle EXCEPT !.kind = kind, !.host = h, !.gen = monitors[h], !.pc = p]
<1>2. kind \in DOMAIN StepsOf /\ p \in AllSteps /\ monitors[h] \in Generations \cup {0, 1}
    <2>1. kind \in DOMAIN StepsOf
        BY StepsAre
    <2>2. p \in AllSteps
        BY DEF AllSteps, Stopping
    <2>3. monitors[h] \in Generations \cup {0, 1}
        BY <1>1 DEF Types, ListTypes
    <2> QED
        BY <2>1, <2>2, <2>3
<1>3. call' = [call EXCEPT ![c] = k] /\ stop' = IF monitors[h] = 0 THEN stop ELSE stop \cup {monitors[h]}
    BY DEF StopBegins
<1>4. k \in Calls /\ k.kind = kind /\ k.host = h /\ k.gen = monitors[h] /\ k.pc = p
    <2> HIDE DEF p
    <2>1. Idle \in Calls
        BY IdleIsCall
    <2> QED
        BY <1>2, <2>1 DEF Calls, Idle
<1>5. call'[c] = k /\ \A d \in Everyone \ {c} : call'[d] = call[d]
    BY <1>1, <1>3 DEF Types, CallTypes
<1>6. stop \subseteq stop' /\ stop' \subseteq Generations /\ (monitors[h] # 0 => monitors[h] \in stop' /\ host[monitors[h]] = h)
    BY <1>1, <1>3 DEF Types, ListTypes, WorkerTypes, MonitorInv
<1>7. /\ k.kind = kind /\ k.host = h /\ k.gen = monitors[h] /\ k.pc = p
      /\ p \in {"late", "kill"} /\ (p = "late" <=> monitors[h] = 0)
    BY <1>4
<1> HIDE DEF k, p
<1>8. CallInv(c)'
    <2>1. StopInv(c)'
        BY <1>5, <1>6, <1>7 DEF StopInv, Stopping
    <2>2. DeleteInv(c)'
        BY <1>1, <1>5, <1>7 DEF CallInv, DeleteInv, Stopping
    <2>3. DogInv(c)'
        BY <1>5, <1>7 DEF DogInv, Held
    <2>4. k.pc \in StepsOf[k.kind]
        BY <1>7, StepsAre DEF Stopping
    <2>5. c \in Hosts => k.kind = "idle" \/ (k.kind = "sweep" /\ shutting' # "no")
        BY <1>1, <1>7 DEF CallInv
    <2> QED
        BY <1>5, <1>7, <2>1, <2>2, <2>3, <2>4, <2>5 DEF CallInv
<1>9. ~Watching(k) /\ k.pc \notin Held
    BY <1>7 DEF Watching, Held
<1> QED
    BY <1>3, <1>4, <1>6, <1>7, <1>8, <1>9, CallGoesOn

\* stop and remove_host: a caller sets the flag of the worker that is listed.
LEMMA StopCalls ==
    ASSUME TelemetryInv, NEW c \in Everyone, NEW h \in Hosts, (AskStop(c, h) /\ c \in Callers) \/ RemoveHost(c)
    PROVE  TelemetryInv'
<1>1. UNCHANGED <<pc, host, used, child, slot, refused, monitors, history, sequence, saved, version, shutting,
                  process, watchdogs, operations, session, unsure>>
    BY DEF AskStop, RemoveHost, listVars, dogVars, signalVars, endVars, savedVars
<1>2. CASE AskStop(c, h) /\ c \in Callers
    <2>1. c \notin Hosts /\ StopBegins(c, h, "stop")
        BY <1>2, Constants DEF AskStop
    <2> QED
        BY <1>1, <2>1, StopOfMonitor
<1>3. CASE RemoveHost(c)
    <2> PICK o \in Hosts : o = call[c].host
        BY <1>3, KindIs DEF RemoveHost
    <2>1. call[c].kind = "delete" /\ call[c].host = o /\ StopBegins(c, o, "delete")
        BY <1>3, KindIs DEF RemoveHost
    <2> QED
        BY <1>1, <2>1, StopOfMonitor
<1> QED
    BY <1>2, <1>3

\* A request for a watchdog or for a signal begins.
LEMMA FreshCall ==
    ASSUME TelemetryInv, NEW c \in Callers, NEW k \in Calls, call' = [call EXCEPT ![c] = k],
           k.host \in Hosts, k.kind \in {"watch", "unwatch", "TERM", "KILL"},
           k.pc = IF k.kind \in {"watch", "unwatch"} THEN "reserve" ELSE "signal",
           k.pc = "reserve" => k.dog # Untracked,
           UNCHANGED <<pc, host, used, child, slot, stop, refused, monitors, history, sequence, saved, version, shutting,
                       process, watchdogs, operations, session, unsure>>
    PROVE  TelemetryInv'
<1>1. Types /\ c \in Everyone /\ c \notin Hosts
    BY Constants DEF TelemetryInv, Everyone
<1>2. call'[c] = k
    BY <1>1 DEF Types, CallTypes
<1>3. k.pc \notin Stopping \cup Held /\ ~Watching(k) /\ k.kind # "delete" /\ k.kind # "idle"
    BY DEF Stopping, Held, Watching
<1>4. k.pc \in StepsOf[k.kind]
    BY StepsAre
<1>5. CallInv(c)'
    <2>1. StopInv(c)' /\ DeleteInv(c)'
        BY <1>2, <1>3 DEF StopInv, DeleteInv
    <2>2. DogInv(c)'
        BY <1>2, <1>3 DEF DogInv, Started
    <2> QED
        BY <1>1, <1>2, <1>4, <2>1, <2>2 DEF CallInv
<1>6. stop \subseteq stop' /\ stop' \subseteq Generations
    BY <1>1 DEF Types, WorkerTypes
<1> QED
    BY <1>1, <1>3, <1>5, <1>6, CallGoesOn

\* A caller begins a start or a stop of a watchdog, or a signal.
LEMMA RequestsBegin ==
    ASSUME TelemetryInv, NEW c \in Callers, NEW h \in Hosts,
           \/ AskWatch(c, h) \/ AskUnwatch(c, h)
           \/ \E kind \in {"TERM", "KILL"}, n \in 0..process[h][2] : AskSignal(c, h, kind, n)
    PROVE  TelemetryInv'
<1>1. UNCHANGED <<pc, host, used, child, slot, stop, refused, monitors, history, sequence, saved, version, shutting,
                  process, watchdogs, operations, session, unsure>>
    BY DEF AskWatch, AskUnwatch, AskSignal, workerVars, listVars, dogVars, signalVars, endVars, savedVars
<1>2. Types /\ Idle \in Calls
    BY IdleIsCall DEF TelemetryInv
<1>3. {"reserve", "signal"} \subseteq AllSteps /\ {"watch", "unwatch", "TERM", "KILL"} \subseteq DOMAIN StepsOf
    BY StepsAre DEF AllSteps
<1>4. ASSUME NEW kind \in {"watch", "unwatch"}, NEW d \in Dogs, d # Untracked,
             call' = [call EXCEPT ![c] = [Idle EXCEPT !.kind = kind, !.host = h, !.pc = "reserve", !.dog = d]]
      PROVE  TelemetryInv'
    <2> DEFINE k == [Idle EXCEPT !.kind = kind, !.host = h, !.pc = "reserve", !.dog = d]
    <2>1. k \in Calls
        BY <1>2, <1>3 DEF Calls
    <2>2. k.kind = kind /\ k.host = h /\ k.pc = "reserve" /\ k.dog = d
        BY DEF Idle
    <2>3. call' = [call EXCEPT ![c] = k]
        BY <1>4
    <2> HIDE DEF k
    <2> QED
        BY <1>1, <1>4, <2>1, <2>2, <2>3, FreshCall
<1>5. CASE AskWatch(c, h)
    <2>1. Connection(h) \in Dogs /\ Connection(h) # Untracked
        BY <1>2, ConnectionIs DEF Types, ListTypes
    <2> QED
        BY <1>4, <1>5, <2>1 DEF AskWatch
<1>6. CASE AskUnwatch(c, h)
    <2>1. watchdogs[h] \in Dogs /\ watchdogs[h] # Untracked
        BY <1>2, <1>6 DEF Types, DogTypes, AskUnwatch
    <2> QED
        BY <1>4, <1>6, <2>1 DEF AskUnwatch
<1>7. CASE \E kind \in {"TERM", "KILL"}, n \in 0..process[h][2] : AskSignal(c, h, kind, n)
    <2>1. PICK kind \in {"TERM", "KILL"}, n \in 0..process[h][2] : AskSignal(c, h, kind, n)
        BY <1>7
    <2> DEFINE k == [Idle EXCEPT !.kind = kind, !.host = h, !.pc = "signal", !.id = <<h, n>>]
    <2>2. process[h][2] \in Nat
        BY <1>2 DEF Types, CallTypes
    <2>3. <<h, n>> \in Hosts \X Nat
        BY <2>2
    <2>4. k \in Calls
        BY <1>2, <1>3, <2>3 DEF Calls
    <2>5. k.kind = kind /\ k.host = h /\ k.pc = "signal"
        BY DEF Idle
    <2>6. call' = [call EXCEPT ![c] = k]
        BY <2>1 DEF AskSignal
    <2> HIDE DEF k
    <2> QED
        BY <1>1, <2>4, <2>5, <2>6, FreshCall
<1> QED
    BY <1>5, <1>6, <1>7

\* A host deletion begins; there is no other of the host.
LEMMA DeletionBegins ==
    ASSUME TelemetryInv, NEW c \in Callers, NEW h \in Hosts, AskDelete(c, h)
    PROVE  TelemetryInv'
<1> DEFINE k == [Idle EXCEPT !.kind = "delete", !.host = h, !.pc = "begin"]
<1>1. Types /\ c \in Everyone /\ c \notin Hosts /\ Idle \in Calls
    BY Constants, IdleIsCall DEF TelemetryInv, Everyone
<1>2. /\ shutting = "no" /\ saved[h] = "saved" /\ saved' = [saved EXCEPT ![h] = "deleting"]
      /\ call' = [call EXCEPT ![c] = k]
      /\ UNCHANGED <<pc, host, used, child, slot, stop, refused, monitors, history, sequence, version, shutting,
                     process, watchdogs, operations, session, unsure>>
    BY DEF AskDelete, workerVars, listVars, dogVars, signalVars, endVars
<1>3. k \in Calls
    <2>1. "begin" \in AllSteps /\ "delete" \in DOMAIN StepsOf
        BY StepsAre DEF AllSteps
    <2> QED
        BY <1>1, <2>1 DEF Calls
<1>4. k.kind = "delete" /\ k.host = h /\ k.pc = "begin"
    BY DEF Idle
<1> HIDE DEF k
<1>5. call'[c] = k /\ \A d \in Everyone \ {c} : call'[d] = call[d]
    BY <1>1, <1>2 DEF Types, CallTypes
<1>6. k.pc \notin Stopping \cup Held /\ ~Watching(k) /\ k.pc \in StepsOf["delete"]
    BY <1>4, StepsAre DEF Stopping, Held, Watching
<1>7. CallInv(c)'
    <2>1. StopInv(c)' /\ DogInv(c)'
        BY <1>4, <1>5, <1>6 DEF StopInv, DogInv
    <2>2. saved'[h] = "deleting" /\ shutting' = "no"
        BY <1>1, <1>2 DEF Types, ListTypes
    <2>3. \A d \in Everyone \ {c} : call[d].kind = "delete" => call[d].host # h
        BY <1>2 DEF TelemetryInv, CallInv, DeleteInv
    <2>4. DeleteInv(c)'
        BY <1>4, <1>5, <2>2, <2>3 DEF DeleteInv, Stopping
    <2> QED
        BY <1>1, <1>4, <1>5, <1>6, <2>1, <2>4 DEF CallInv
<1>8. stop \subseteq stop' /\ stop' \subseteq Generations
    BY <1>1, <1>2 DEF Types, WorkerTypes
<1> QED
    BY <1>1, <1>2, <1>3, <1>4, <1>6, <1>7, <1>8, CallGoesOn

\* A call that only goes to its next step.
LEMMA NextStep ==
    ASSUME TelemetryInv, NEW c \in Everyone, NEW p \in AllSteps, NEW d \in Dogs,
           call' = [call EXCEPT ![c] = [@ EXCEPT !.pc = p, !.dog = d]],
           call[c].pc # "idle", p # "idle",
           p \in StepsOf[call[c].kind],
           StopInv(c)', DeleteInv(c)', DogInv(c)',
           \/ UNCHANGED operations
           \/ operations[call[c].host] = Untracked /\ \E o \in Dogs : operations' = [operations EXCEPT ![call[c].host] = o],
           call[c].kind = "watch" /\ p \notin {"reserve", "verify"} =>
               saved[call[c].host] = "saved" \/ call[c].pc \notin {"reserve", "verify"},
           p \in Held => operations[call[c].host] = Untracked \/ call[c].pc \in Held,
           UNCHANGED <<pc, host, used, child, slot, stop, refused, monitors, history, sequence, saved, version, shutting,
                       process, watchdogs, session, unsure>>
    PROVE  TelemetryInv'
<1> DEFINE k == [call[c] EXCEPT !.pc = p, !.dog = d]
<1>1. Types /\ call[c] \in Calls /\ CallInv(c) /\ call[c].host \in Hosts /\ call[c].kind # "idle"
    BY KindIs DEF TelemetryInv
<1>2. k \in Calls /\ k.pc = p /\ k.kind = call[c].kind /\ k.host = call[c].host
    BY <1>1 DEF Calls
<1>3. call' = [call EXCEPT ![c] = k]
    OBVIOUS
<1> HIDE DEF k
<1>4. call'[c] = k
    BY <1>1, <1>3 DEF Types, CallTypes
<1>5. CallInv(c)'
    BY <1>1, <1>2, <1>4 DEF CallInv
<1>6. stop \subseteq stop' /\ stop' \subseteq Generations
    BY <1>1 DEF Types, WorkerTypes
<1>7. Watching(k) => saved[k.host] = "saved" \/ (Watching(call[c]) /\ k.host = call[c].host)
    BY <1>2 DEF Watching
<1>8. k.pc \in Held => operations[k.host] = Untracked \/ (call[c].pc \in Held /\ k.host = call[c].host)
    BY <1>2
<1>9. \/ UNCHANGED operations
      \/ operations[k.host] = Untracked /\ \E o \in Dogs : operations' = [operations EXCEPT ![k.host] = o]
    BY <1>2
<1> QED
    BY <1>2, <1>3, <1>5, <1>6, <1>7, <1>8, <1>9, CallGoesOn

\* What the call looks like then.
LEMMA NextCall ==
    ASSUME TelemetryInv, NEW c \in Everyone, NEW p \in AllSteps, NEW d \in Dogs, call[c].pc # "idle",
           \/ call' = [call EXCEPT ![c].pc = p] /\ d = call[c].dog
           \/ call' = [call EXCEPT ![c].pc = p, ![c].dog = d]
    PROVE  /\ call' = [call EXCEPT ![c] = [@ EXCEPT !.pc = p, !.dog = d]]
           /\ call'[c].pc = p /\ call'[c].dog = d
           /\ call'[c].kind = call[c].kind /\ call'[c].host = call[c].host /\ call'[c].gen = call[c].gen
           /\ \A o \in Everyone \ {c} : call'[o] = call[o]
<1>1. call \in [Everyone -> Calls] /\ call[c] \in Calls
    BY KindIs DEF TelemetryInv, Types, CallTypes
<1>2. call' = [call EXCEPT ![c] = [@ EXCEPT !.pc = p, !.dog = d]]
    <2>1. CASE call' = [call EXCEPT ![c].pc = p] /\ d = call[c].dog
        <3>1. [call[c] EXCEPT !.pc = p, !.dog = d] = [call[c] EXCEPT !.pc = p]
            BY <1>1, <2>1 DEF Calls
        <3> QED
            BY <1>1, <2>1, <3>1
    <2>2. CASE call' = [call EXCEPT ![c].pc = p, ![c].dog = d]
        BY <1>1, <2>2
    <2> QED
        BY <2>1, <2>2
<1> DEFINE k == [call[c] EXCEPT !.pc = p, !.dog = d]
<1>3. call'[c] = k /\ \A o \in Everyone \ {c} : call'[o] = call[o]
    BY <1>1, <1>2
<1>4. k.pc = p /\ k.dog = d /\ k.kind = call[c].kind /\ k.host = call[c].host /\ k.gen = call[c].gen
    BY <1>1 DEF Calls
<1> QED
    BY <1>2, <1>3, <1>4

\* A call that goes on to step p and changes nothing else of itself.
LEMMA NextPc ==
    ASSUME TelemetryInv, NEW c \in Everyone, NEW p \in AllSteps, call[c].pc # "idle",
           call' = [call EXCEPT ![c].pc = p]
    PROVE  /\ call[c].dog \in Dogs
           /\ call' = [call EXCEPT ![c] = [@ EXCEPT !.pc = p, !.dog = call[c].dog]]
           /\ call'[c].pc = p /\ call'[c].dog = call[c].dog
           /\ call'[c].kind = call[c].kind /\ call'[c].host = call[c].host /\ call'[c].gen = call[c].gen
           /\ \A o \in Everyone \ {c} : call'[o] = call[o]
<1>1. call \in [Everyone -> Calls] /\ call[c] \in Calls /\ call[c].dog \in Dogs
    BY KindIs DEF TelemetryInv, Types, CallTypes, Calls
<1> DEFINE k == [call[c] EXCEPT !.pc = p, !.dog = call[c].dog]
<1>2. k = [call[c] EXCEPT !.pc = p]
    BY <1>1 DEF Calls
<1>3. call' = [call EXCEPT ![c] = k]
    BY <1>1, <1>2
<1>4. call'[c] = k /\ \A o \in Everyone \ {c} : call'[o] = call[o]
    BY <1>1, <1>3
<1>5. k.pc = p /\ k.dog = call[c].dog /\ k.kind = call[c].kind /\ k.host = call[c].host /\ k.gen = call[c].gen
    BY <1>1 DEF Calls
<1> QED
    BY <1>1, <1>3, <1>4, <1>5

\* The end of a stop: a host deletion goes on with the watchdog.
LEMMA StopIsOver ==
    ASSUME TelemetryInv, NEW c \in Everyone, StopEnds(c)
    PROVE  TelemetryInv'
<1>1. /\ call[c].pc = "late"
      /\ UNCHANGED <<pc, host, used, child, slot, stop, refused, monitors, history, sequence, saved, version, shutting,
                     process, watchdogs, operations, session, unsure, savedVars>>
    BY DEF StopEnds, workerVars, dogVars, signalVars, endVars, savedVars
<1>2. Types /\ CallInv(c) /\ call[c] \in Calls /\ call[c].host \in Hosts
    BY <1>1, KindIs DEF TelemetryInv
<1>3. CASE call[c].kind = "delete"
    <2>1. call' = [call EXCEPT ![c] = [call[c] EXCEPT !.pc = "dog"]]
        BY <1>2, <1>3 DEF StopEnds, Types, CallTypes
    <2>2. call' = [call EXCEPT ![c].pc = "dog"]
        BY <1>2, <2>1 DEF Types, CallTypes
    <2>3. "dog" \in AllSteps /\ "dog" \in StepsOf["delete"] /\ call[c].dog \in Dogs
          /\ "dog" \notin Stopping \cup Held
        BY <1>2, StepsAre DEF AllSteps, Calls, Stopping, Held
    <2>4. /\ call' = [call EXCEPT ![c] = [@ EXCEPT !.pc = "dog", !.dog = call[c].dog]]
          /\ call'[c].pc = "dog" /\ call'[c].kind = "delete" /\ call'[c].host = call[c].host
          /\ \A o \in Everyone \ {c} : call'[o] = call[o]
        BY <1>1, <1>3, <2>2, <2>3, NextCall
    <2>5. StopInv(c)' /\ DogInv(c)'
        BY <2>3, <2>4 DEF StopInv, DogInv
    <2>6. DeleteInv(c)'
        BY <1>1, <1>2, <1>3, <2>4 DEF CallInv, DeleteInv, Stopping
    <2> QED
        BY <1>1, <1>3, <2>3, <2>4, <2>5, <2>6, NextStep
<1>4. CASE call[c].kind # "delete"
    <2>1. call' = [call EXCEPT ![c] = Idle] /\ process' \in [Hosts -> Hosts \X Nat]
        BY <1>1, <1>2, <1>4 DEF StopEnds, Types, CallTypes
    <2> QED
        BY <1>1, <2>1, CallEnds
<1> QED
    BY <1>3, <1>4

\* No watchdog operation of a host is held, so no start of one is beyond its reservation.
LEMMA FreeHasNoWatch ==
    ASSUME TelemetryInv, NEW h \in Hosts, operations[h] = Untracked
    PROVE  NoWatch(h)
<1> SUFFICES ASSUME NEW c \in Everyone, call[c].host = h, call[c].kind = "watch"
             PROVE  call[c].pc \in {"reserve", "verify"}
    BY DEF NoWatch
<1>1. call[c].pc \notin Held
    BY DEF TelemetryInv, CallInv, DogInv
<1>2. call[c].pc \in Started \cup {"reserve", "verify"}
    BY StepsAre DEF TelemetryInv, CallInv
<1> QED
    BY <1>1, <1>2 DEF Held, Started

\* A host deletion looks for the watchdog when no operation is in progress.
LEMMA DogIsRemoved ==
    ASSUME TelemetryInv, NEW c \in Everyone, RemoveDog(c)
    PROVE  TelemetryInv'
<1>1. /\ call[c].pc = "dog"
      /\ UNCHANGED <<pc, host, used, child, slot, stop, refused, monitors, history, sequence, version, shutting,
                     process, watchdogs, operations, session, unsure>>
    BY DEF RemoveDog, Refused, workerVars, listVars, dogVars, signalVars, endVars, savedVars
<1>2. /\ Types /\ CallInv(c) /\ call[c] \in Calls /\ call[c].host \in Hosts /\ call[c].kind = "delete"
      /\ process' \in [Hosts -> Hosts \X Nat]
    BY <1>1, KindIs DEF TelemetryInv, Types, CallTypes
<1>3. CASE Refused(c)
    BY <1>1, <1>2, <1>3, CallEnds
<1> PICK h \in Hosts : h = call[c].host
    BY <1>2
<1>4. ASSUME operations[h] = Untracked, saved' = saved, NEW p \in {"forget", "reserve"}, NEW d \in Dogs,
             p = "forget" => watchdogs[h] = Untracked, p = "reserve" => d # Untracked,
             \/ call' = [call EXCEPT ![c].pc = p] /\ d = call[c].dog
             \/ call' = [call EXCEPT ![c].pc = p, ![c].dog = d]
      PROVE  TelemetryInv'
    <2>1. p \in AllSteps /\ p \in StepsOf["delete"] /\ p \notin Stopping \cup Held \cup {"begin", "idle"}
        BY <1>4, StepsAre DEF AllSteps, Stopping, Held
    <2>2. /\ call' = [call EXCEPT ![c] = [@ EXCEPT !.pc = p, !.dog = d]]
          /\ call'[c].pc = p /\ call'[c].dog = d /\ call'[c].kind = "delete" /\ call'[c].host = h
          /\ \A o \in Everyone \ {c} : call'[o] = call[o]
        <3>1. call[c].pc # "idle" /\ p \in AllSteps /\ d \in Dogs
            BY <1>1, <2>1
        <3>2. /\ call' = [call EXCEPT ![c] = [@ EXCEPT !.pc = p, !.dog = d]]
              /\ call'[c].pc = p /\ call'[c].dog = d /\ call'[c].kind = call[c].kind /\ call'[c].host = call[c].host
              /\ \A o \in Everyone \ {c} : call'[o] = call[o]
            <4>1. CASE call' = [call EXCEPT ![c].pc = p] /\ d = call[c].dog
                BY <3>1, <4>1, NextCall
            <4>2. CASE call' = [call EXCEPT ![c].pc = p, ![c].dog = d]
                BY <3>1, <4>2, NextCall
            <4> QED
                BY <1>4, <4>1, <4>2
        <3> QED
            BY <1>2, <3>2
    <2>3. StopInv(c)' /\ DogInv(c)'
        <3>1. StopInv(c)'
            BY <2>1, <2>2 DEF StopInv
        <3>2. call'[c].pc \notin Held /\ call'[c].kind # "watch" /\ (call'[c].pc = "reserve" => call'[c].dog # Untracked)
            BY <1>4, <2>1, <2>2
        <3>3. DogInv(c)'
            BY <3>2 DEF DogInv
        <3> QED
            BY <3>1, <3>3
    <2>4. NoWatch(h)'
        BY <1>2, <1>4, <2>2, FreeHasNoWatch DEF NoWatch
    <2>5. DeleteInv(c)'
        BY <1>1, <1>2, <1>4, <2>1, <2>2, <2>4 DEF CallInv, DeleteInv, Stopping
    <2>6. UNCHANGED <<pc, host, used, child, slot, stop, refused, monitors, history, sequence, saved, version, shutting,
                     process, watchdogs, session, unsure>>
        BY <1>1, <1>4
    <2> QED
        BY <1>1, <1>2, <2>1, <2>2, <2>3, <2>5, <2>6, NextStep
<1>5. CASE operations[h] = Untracked /\ watchdogs[h] = Untracked
    <2>1. call' = [call EXCEPT ![c].pc = "forget"] /\ saved' = saved /\ call[c].dog \in Dogs
        BY <1>2, <1>5 DEF RemoveDog, Later, savedVars, Calls
    <2> QED
        BY <1>4, <1>5, <2>1
<1>6. CASE operations[h] = Untracked /\ watchdogs[h] # Untracked
    <2>1. call' = [call EXCEPT ![c].pc = "reserve", ![c].dog = watchdogs[h]] /\ saved' = saved /\ watchdogs[h] \in Dogs
        BY <1>2, <1>6 DEF RemoveDog, savedVars, Types, DogTypes
    <2> QED
        BY <1>4, <1>6, <2>1
<1>7. CASE operations[h] # Untracked
    BY <1>3, <1>7 DEF RemoveDog
<1> QED
    BY <1>5, <1>6, <1>7

\* The call waits until the worker has ended, but not for ever.
LEMMA WorkerIsAwaited ==
    ASSUME TelemetryInv, NEW c \in Everyone, WorkerFinished(c)
    PROVE  TelemetryInv'
<1>1. /\ call[c].pc = "wait"
      /\ UNCHANGED <<pc, host, used, child, slot, stop, refused, monitors, history, sequence, version, shutting,
                     process, watchdogs, operations, session, unsure>>
    BY DEF WorkerFinished, Refused, workerVars, listVars, dogVars, signalVars, endVars, savedVars
<1>2. /\ Types /\ CallInv(c) /\ call[c] \in Calls /\ call[c].host \in Hosts
      /\ call[c].kind \in {"stop", "sweep", "delete"}
      /\ process' \in [Hosts -> Hosts \X Nat]
    BY <1>1, KindIs DEF TelemetryInv, Types, CallTypes, Stopping
<1>3. CASE Refused(c)
    BY <1>1, <1>2, <1>3, CallEnds
<1>4. CASE pc[call[c].gen] = "done" /\ Later(c, "clean") /\ UNCHANGED savedVars
    <2>1. "clean" \in AllSteps /\ "clean" \in StepsOf[call[c].kind] /\ "clean" \notin Held /\ call[c].dog \in Dogs
        BY <1>2, StepsAre DEF AllSteps, Stopping, Held, Calls
    <2>2. /\ call' = [call EXCEPT ![c] = [@ EXCEPT !.pc = "clean", !.dog = call[c].dog]]
          /\ call'[c].pc = "clean" /\ call'[c].kind = call[c].kind /\ call'[c].host = call[c].host
          /\ call'[c].gen = call[c].gen
          /\ \A o \in Everyone \ {c} : call'[o] = call[o]
        BY <1>1, <1>4, <2>1, NextCall DEF Later
    <2>3. DogInv(c)'
        BY <1>2, <2>1, <2>2 DEF DogInv
    <2>4. StopInv(c)'
        BY <1>1, <1>2, <1>4, <2>2 DEF CallInv, StopInv, Stopping
    <2>5. UNCHANGED <<pc, host, used, child, slot, stop, refused, monitors, history, sequence, saved, version, shutting,
                     process, watchdogs, session, unsure>>
        BY <1>1, <1>4 DEF savedVars
    <2>6. DeleteInv(c)'
        BY <1>1, <1>2, <2>2, <2>5 DEF CallInv, DeleteInv, Stopping
    <2> QED
        BY <1>1, <1>2, <2>1, <2>2, <2>3, <2>4, <2>5, <2>6, NextStep
<1> QED
    BY <1>3, <1>4 DEF WorkerFinished

\* A step of a call in which the watchdogs, and what is saved, rest.
LEMMA HostsRest ==
    ASSUME TelemetryInv, NEW c \in Everyone, NEW h \in Hosts, CallMoves(c),
           saved'[h] = "gone" => saved[h] = "gone", history'[h] = history[h],
           UNCHANGED <<watchdogs, session, unsure>>
    PROVE  MonitorInv(h)' /\ HostInv(h)'
<1>1. MonitorInv(h) /\ HostInv(h) /\ monitors'[h] \in {monitors[h], 0} /\ UNCHANGED <<host, version, shutting>>
    BY DEF TelemetryInv, CallMoves
<1>2. MonitorInv(h)'
    BY <1>1 DEF MonitorInv
<1>3. Connection(h)' = Connection(h)
    BY <1>1 DEF Connection
<1>4. saved'[h] = "gone" => NoWatch(h)'
    BY <1>1, NoWatchKept DEF HostInv
<1>5. HostInv(h)'
    BY <1>1, <1>3, <1>4 DEF HostInv
<1> QED
    BY <1>2, <1>5

\* The child is killed if it is in the slot, unless the kill is refused; without a
\* child in the slot the worker does not read.
LEMMA ChildIsKilled ==
    ASSUME TelemetryInv, NEW c \in Everyone, KillChild(c)
    PROVE  TelemetryInv'
<1>1. /\ call[c].pc = "kill" /\ call' = [call EXCEPT ![c].pc = "wait"]
      /\ UNCHANGED <<pc, host, used, slot, stop, monitors, history, sequence, saved, version, shutting,
                     process, watchdogs, operations, session, unsure>>
    BY DEF KillChild, Later, listVars, dogVars, signalVars, endVars, savedVars
<1>2. /\ Types /\ CallInv(c) /\ call[c] \in Calls /\ call[c].host \in Hosts
      /\ call[c].kind \in {"stop", "sweep", "delete"}
    BY <1>1, KindIs DEF TelemetryInv, Stopping
<1> PICK g \in Generations : g = call[c].gen
    BY <1>1, <1>2 DEF CallInv, StopInv, Stopping, Types, WorkerTypes
<1>3. /\ child' \in [Generations -> ChildStates]
      /\ \A k \in Generations : child'[k] = "running" => child[k] = "running"
      /\ \A k \in Generations : child'[k] \in Living => child[k] \in Living
      /\ g \in slot => child'[g] # "running" \/ g \in refused'
      /\ refused \subseteq refused'
    <2>1. Killed(g) \in ChildStates /\ Killed(g) # "running" /\ (Killed(g) \in Living => child[g] \in Living)
        BY <1>2 DEF Types, WorkerTypes, Killed, ChildStates, Living
    <2>2. \/ /\ child' = IF g \in slot THEN [child EXCEPT ![g] = Killed(g)] ELSE child
             /\ UNCHANGED refused
          \/ refused' = refused \cup {g} /\ UNCHANGED child
        BY Zenon DEF KillChild
    <2> QED
        BY <1>2, <2>1, <2>2 DEF Types, WorkerTypes, ChildStates
<1>4. "wait" \in AllSteps /\ "wait" \in StepsOf[call[c].kind] /\ "wait" \notin Held /\ call[c].dog \in Dogs
    BY <1>2, StepsAre DEF AllSteps, Stopping, Held, Calls
<1>5. /\ call'[c].pc = "wait" /\ call'[c].kind = call[c].kind /\ call'[c].host = call[c].host
      /\ call'[c].gen = call[c].gen
      /\ \A o \in Everyone \ {c} : call'[o] = call[o]
    BY <1>1, <1>4, NextCall
<1>6. CallMoves(c)
    BY <1>1, <1>2, <1>3, <1>4, <1>5 DEF CallMoves, Watching
<1>7. ASSUME NEW k \in Generations PROVE GenInv(k)'
    <2>1. GenInv(k) /\ Connection(host[k])' = Connection(host[k])
        BY <1>1 DEF TelemetryInv, Connection
    <2> QED
        BY <1>1, <1>3, <2>1 DEF GenInv, Unfinished
<1>8. CallInv(c)'
    <2>1. pc[g] = "read" => child'[g] # "running" \/ g \in refused'
        <3>1. GenInv(g)
            BY DEF TelemetryInv
        <3> QED
            BY <1>3, <3>1 DEF GenInv, Living
    <2>2. StopInv(c)'
        BY <1>1, <1>2, <1>5, <2>1 DEF CallInv, StopInv, Stopping
    <2>3. DeleteInv(c)' /\ DogInv(c)'
        BY <1>1, <1>2, <1>4, <1>5 DEF CallInv, DeleteInv, DogInv, Stopping
    <2> QED
        BY <1>1, <1>2, <1>4, <1>5, <2>2, <2>3 DEF CallInv
<1>9. WorkerTypes' /\ ListTypes' /\ DogTypes' /\ process' \in [Hosts -> Hosts \X Nat]
    BY <1>1, <1>2, <1>3 DEF Types, WorkerTypes, ListTypes, DogTypes, CallTypes, ChildStates
<1>10. \A h \in Hosts : MonitorInv(h)' /\ HostInv(h)'
    BY <1>1, <1>6, HostsRest
<1> DEFINE k == [call[c] EXCEPT !.pc = "wait"]
<1>11. call' = [call EXCEPT ![c] = k] /\ k \in Calls
    BY <1>1, <1>2, <1>4 DEF Types, CallTypes, Calls
<1> QED
    BY <1>6, <1>7, <1>8, <1>9, <1>10, <1>11, CallStep

\* The end of remove_host, when there is neither a monitor nor a watchdog.
LEMMA HostIsForgotten ==
    ASSUME TelemetryInv, NEW c \in Everyone, Forget(c)
    PROVE  TelemetryInv'
<1>1. /\ call[c].pc = "forget" /\ call' = [call EXCEPT ![c] = Idle]
      /\ saved' = [saved EXCEPT ![call[c].host] = "gone"]
      /\ history' = [history EXCEPT ![call[c].host] = <<>>]
      /\ UNCHANGED <<pc, host, used, child, slot, stop, refused, monitors, sequence, version, shutting,
                     process, watchdogs, operations, session, unsure>>
    BY DEF Forget, workerVars, dogVars, endVars
<1>2. /\ Types /\ CallInv(c) /\ call[c].host \in Hosts /\ call[c].kind = "delete" /\ Idle \in Calls
    BY <1>1, KindIs, IdleIsCall DEF TelemetryInv
<1> PICK h \in Hosts : h = call[c].host
    BY <1>2
<1>3. monitors[h] = 0 /\ NoWatch(h) /\ watchdogs[h] = Untracked /\ shutting = "no"
    BY <1>1, <1>2 DEF CallInv, DeleteInv, Stopping
<1>4. call'[c] = Idle /\ \A o \in Everyone \ {c} : call'[o] = call[o]
    BY <1>1, <1>2 DEF Types, CallTypes
<1>5. ~Watching(call'[c]) /\ call'[c].kind # "delete" /\ call'[c].pc \notin Held
    BY <1>4, IdleIsQuiet, Zenon
<1>6. \A o \in Hosts : saved'[o] = IF o = h THEN "gone" ELSE saved[o]
    BY <1>1, <1>2 DEF Types, ListTypes
<1>7. CallMoves(c)
    BY <1>1, <1>2, <1>4, <1>5, <1>6 DEF CallMoves
<1>8. CallInv(c)'
    BY <1>4, IdleInv
<1>9. WorkerTypes' /\ ListTypes' /\ DogTypes' /\ process' \in [Hosts -> Hosts \X Nat]
    <2>1. <<>> \in Seq(Nat)
        OBVIOUS
    <2>2. history' \in [Hosts -> Seq(Nat)]
        BY <1>1, <1>2, <2>1 DEF Types, ListTypes
    <2>3. saved' \in [Hosts -> {"saved", "deleting", "gone"}]
        BY <1>1, <1>2 DEF Types, ListTypes
    <2> QED
        BY <1>1, <1>2, <2>2, <2>3 DEF Types, WorkerTypes, ListTypes, DogTypes, CallTypes
<1>10. \A g \in Generations : GenInv(g)'
    BY <1>1, WorkersRest
<1>11. ASSUME NEW o \in Hosts PROVE MonitorInv(o)' /\ HostInv(o)'
    <2>1. CASE o # h
        <3>1. saved'[o] = saved[o] /\ history'[o] = history[o]
            BY <1>1, <1>2, <1>6, <2>1 DEF Types, ListTypes
        <3> QED
            BY <1>1, <1>7, <3>1, HostsRest
    <2>2. CASE o = h
        <3>1. MonitorInv(h) /\ HostInv(h) /\ Connection(h)' = Connection(h)
            BY <1>1 DEF TelemetryInv, Connection
        <3>2. MonitorInv(h)'
            BY <1>1, <1>3, <3>1 DEF MonitorInv
        <3>3. history'[h] = <<>>
            BY <1>1, <1>2 DEF Types, ListTypes
        <3>4. NoWatch(h)'
            BY <1>3, <1>4, IdleIsQuiet DEF NoWatch
        <3>5. HostInv(h)'
            BY <1>1, <1>3, <3>1, <3>3, <3>4 DEF HostInv
        <3> QED
            BY <2>2, <3>2, <3>5
    <2> QED
        BY <2>1, <2>2
<1> QED
    BY <1>1, <1>2, <1>7, <1>8, <1>9, <1>10, <1>11, CallStep

\* The child is reaped and the entry goes, unless the cleanup fails.
LEMMA ChildIsCleanedUp ==
    ASSUME TelemetryInv, NEW c \in Everyone, CleanUp(c)
    PROVE  TelemetryInv'
<1>1. /\ call[c].pc = "clean"
      /\ UNCHANGED <<pc, host, used, stop, refused, history, sequence, version, shutting,
                     process, watchdogs, operations, session, unsure>>
    BY DEF CleanUp, Refused, dogVars, signalVars, endVars, savedVars
<1>2. /\ Types /\ CallInv(c) /\ call[c] \in Calls /\ call[c].host \in Hosts
      /\ call[c].kind \in {"stop", "sweep", "delete"}
    BY <1>1, KindIs DEF TelemetryInv, Stopping
<1> PICK g \in Generations : g = call[c].gen
    BY <1>1, <1>2 DEF CallInv, StopInv, Stopping, Types, WorkerTypes
<1> PICK h \in Hosts : h = call[c].host
    BY <1>2
<1>3. /\ pc[g] = "done" /\ host[g] = h /\ g \in stop
      /\ call[c].kind = "delete" => monitors[h] \in {0, g}
      /\ GenInv(g)
    BY <1>1, <1>2 DEF CallInv, StopInv, Stopping, TelemetryInv
<1>4. /\ \A o : Connection(o)' = Connection(o)
      /\ process' \in [Hosts -> Hosts \X Nat]
      /\ child \in [Generations -> ChildStates] /\ monitors \in [Hosts -> Generations \cup {0}]
      /\ saved \in [Hosts -> {"saved", "deleting", "gone"}]
    BY <1>1, <1>2 DEF Connection, Types, CallTypes, WorkerTypes, ListTypes, ChildStates
<1>5. ASSUME child' \in [Generations -> ChildStates], slot' \subseteq Generations,
             monitors' \in [Hosts -> Generations \cup {0}], saved' \in [Hosts -> {"saved", "deleting", "gone"}]
      PROVE  WorkerTypes' /\ ListTypes' /\ DogTypes'
    BY <1>1, <1>2, <1>5 DEF Types, WorkerTypes, ListTypes, DogTypes, ChildStates
<1>6. CASE child[g] = "running" /\ child' = [child EXCEPT ![g] = "dying"]
           /\ UNCHANGED <<monitors, slot, call, saved>>
    <2>1. /\ child' \in [Generations -> ChildStates]
          /\ \A k \in Generations : child'[k] \in Living <=> child[k] \in Living
          /\ \A k \in Generations : child'[k] = "running" => child[k] = "running"
        BY <1>4, <1>6 DEF ChildStates, Living
    <2>2. CallMoves(c)
        BY <1>1, <1>4, <1>6, <2>1 DEF CallMoves
    <2>3. CallInv(c)'
        <3>1. StopInv(c)'
            BY <1>1, <1>2, <1>3, <1>6 DEF StopInv
        <3>2. \A o : NoWatch(o)' <=> NoWatch(o)
            BY <1>6 DEF NoWatch
        <3>3. DeleteInv(c)' /\ DogInv(c)'
            BY <1>1, <1>2, <1>4, <1>6, <3>2 DEF CallInv, DeleteInv, DogInv
        <3> QED
            BY <1>1, <1>2, <1>6, <3>1, <3>3 DEF CallInv
    <2>4. \A k \in Generations : GenInv(k)'
        BY <1>1, <1>4, <1>6, <2>1 DEF TelemetryInv, GenInv, Unfinished
    <2>5. \A o \in Hosts : MonitorInv(o)' /\ HostInv(o)'
        BY <1>1, <1>6, <2>2, HostsRest
    <2>6. call' = [call EXCEPT ![c] = call[c]]
        BY <1>2, <1>6 DEF Types, CallTypes
    <2> QED
        BY <1>2, <1>4, <1>5, <1>6, <2>1, <2>2, <2>3, <2>4, <2>5, <2>6, CallStep DEF Types, WorkerTypes
<1>7. CASE Refused(c) /\ UNCHANGED <<monitors, slot, child>>
    BY <1>1, <1>4, <1>7, CallEnds
<1>8. ASSUME slot' = slot \ {g}, child' = [child EXCEPT ![g] = IF g \in slot THEN "reaped" ELSE @],
             monitors' = monitors \/ monitors' = [monitors EXCEPT ![h] = IF @ = g THEN 0 ELSE @],
             NEW k \in Calls, call' = [call EXCEPT ![c] = k], CallInv(c)',
             \A o \in Hosts : saved'[o] = saved[o] \/ (call[c].kind = "delete" /\ call[c].host = o),
             \A o \in Hosts : saved'[o] = "gone" => saved[o] = "gone",
             saved' \in [Hosts -> {"saved", "deleting", "gone"}],
             ~Watching(k), k.pc \notin Held, k.kind = "delete" => call[c].kind = "delete" /\ k.host = call[c].host
      PROVE  TelemetryInv'
    <2>1. /\ child' \in [Generations -> ChildStates]
          /\ \A o \in Generations \ {g} : child'[o] = child[o]
          /\ child'[g] \notin Living
          /\ \A o \in Generations : child'[o] = "running" => child[o] = "running"
        <3>1. g \notin slot => child[g] \notin Living
            BY <1>3 DEF GenInv
        <3> QED
            BY <1>4, <1>8, <3>1 DEF ChildStates, Living
    <2>2. /\ monitors' \in [Hosts -> Generations \cup {0}]
          /\ \A o \in Hosts : monitors'[o] = monitors[o] \/ (monitors[o] = g /\ monitors'[o] = 0)
        BY <1>4, <1>8
    <2>3. call'[c] = k /\ \A o \in Everyone \ {c} : call'[o] = call[o]
        BY <1>2, <1>8 DEF Types, CallTypes
    <2>4. CallMoves(c)
        BY <1>1, <1>8, <2>1, <2>2, <2>3 DEF CallMoves
    <2>5. ASSUME NEW o \in Generations PROVE GenInv(o)'
        <3>1. CASE o = g
            BY <1>1, <1>3, <1>8, <2>1, <3>1 DEF GenInv, Unfinished
        <3>2. CASE o # g
            <4>1. GenInv(o) /\ child'[o] = child[o] /\ (o \in slot' <=> o \in slot)
                BY <1>8, <2>1, <3>2 DEF TelemetryInv
            <4>2. host[o] \in Hosts /\ monitors[host[o]] = o => monitors'[host[o]] = o
                BY <2>2, <3>2
            <4>3. Unfinished(o)' <=> Unfinished(o)
                BY <1>1 DEF Unfinished
            <4> QED
                BY <1>1, <1>4, <4>1, <4>2, <4>3 DEF GenInv, Unfinished
        <3> QED
            BY <3>1, <3>2
    <2>6. \A o \in Hosts : MonitorInv(o)' /\ HostInv(o)'
        BY <1>1, <1>8, <2>4, HostsRest
    <2>7. slot' \subseteq Generations
        BY <1>2, <1>8 DEF Types, WorkerTypes
    <2> QED
        BY <1>4, <1>5, <1>8, <2>1, <2>2, <2>4, <2>5, <2>6, <2>7, CallStep
<1>9. CASE /\ slot' = slot \ {g} /\ child' = [child EXCEPT ![g] = IF g \in slot THEN "reaped" ELSE @]
           /\ Refused(c) /\ UNCHANGED monitors
    <2>1. ~Watching(Idle) /\ Idle.pc \notin Held /\ Idle.kind # "delete"
        BY IdleIsQuiet
    <2> QED
        BY <1>8, <1>9, <2>1, RefusedFacts
<1>10. CASE /\ slot' = slot \ {g} /\ child' = [child EXCEPT ![g] = IF g \in slot THEN "reaped" ELSE @]
            /\ monitors' = [monitors EXCEPT ![h] = IF @ = g THEN 0 ELSE @]
            /\ Later(c, "late") /\ UNCHANGED savedVars
    <2> DEFINE k == [call[c] EXCEPT !.pc = "late"]
    <2>1. "late" \in AllSteps /\ "late" \in StepsOf[call[c].kind] /\ "late" \notin Held \cup Stopping \cup {"begin"}
        BY <1>2, StepsAre DEF AllSteps, Stopping, Held
    <2>2. k \in Calls /\ k.pc = "late" /\ k.kind = call[c].kind /\ k.host = h
        BY <1>2, <2>1 DEF Calls
    <2>3. call' = [call EXCEPT ![c] = k]
        BY <1>2, <1>10 DEF Later, Types, CallTypes
    <2> HIDE DEF k
    <2>4. call'[c] = k /\ \A o \in Everyone \ {c} : call'[o] = call[o]
        BY <1>2, <2>3 DEF Types, CallTypes
    <2>5. CallInv(c)'
        <3>1. StopInv(c)'
            BY <2>1, <2>2, <2>4 DEF StopInv
        <3>2. DogInv(c)'
            BY <1>2, <2>1, <2>2, <2>4 DEF DogInv
        <3>3. call[c].kind = "delete" => monitors'[h] = 0
            BY <1>3, <1>4, <1>10
        <3>4. saved' = saved
            BY <1>10 DEF savedVars
        <3>5. DeleteInv(c)'
            BY <1>1, <1>2, <2>1, <2>2, <2>4, <3>3, <3>4 DEF CallInv, DeleteInv
        <3> QED
            BY <1>1, <1>2, <2>1, <2>2, <2>4, <3>1, <3>2, <3>5 DEF CallInv
    <2>6. ~Watching(k) /\ k.pc \notin Held /\ (k.kind = "delete" => call[c].kind = "delete" /\ k.host = call[c].host)
        BY <1>2, <2>1, <2>2 DEF Watching
    <2>7. saved' = saved
        BY <1>10 DEF savedVars
    <2> QED
        BY <1>4, <1>8, <1>10, <2>2, <2>3, <2>5, <2>6, <2>7
<1> QED
    BY <1>6, <1>7, <1>9, <1>10 DEF CleanUp, savedVars

-----------------------------------------------------------------------------
(* Signals of a process and changes of the remote side.                    *)

\* send_signal: the call ends, and the process may have been replaced.
LEMMA SignalIsSent ==
    ASSUME TelemetryInv, NEW c \in Everyone, SendSignal(c)
    PROVE  TelemetryInv'
<1>1. call' = [call EXCEPT ![c] = Idle] /\ UNCHANGED savedVars
      /\ UNCHANGED <<pc, host, used, child, slot, stop, refused, monitors, history, sequence, shutting,
                     watchdogs, session, unsure, operations>>
    BY DEF SendSignal, workerVars, listVars, dogVars, endVars
<1>2. process \in [Hosts -> Hosts \X Nat]
    BY DEF TelemetryInv, Types, CallTypes
<1>3. process' \in [Hosts -> Hosts \X Nat]
    <2>1. \/ process' = process
          \/ process' = [process EXCEPT ![call[c].id[1]][2] = @ + 1]
        BY DEF SendSignal
    <2>2. \A h \in Hosts : [process[h] EXCEPT ![2] = @ + 1] \in Hosts \X Nat
        <3> SUFFICES ASSUME NEW h \in Hosts PROVE [process[h] EXCEPT ![2] = @ + 1] \in Hosts \X Nat
            OBVIOUS
        <3>1. PICK a \in Hosts, n \in Nat : process[h] = <<a, n>>
            BY <1>2
        <3>2. [<<a, n>> EXCEPT ![2] = @ + 1] = <<a, n + 1>>
            OBVIOUS
        <3> QED
            BY <3>1, <3>2
    <2> QED
        BY <1>2, <2>1, <2>2
<1> QED
    BY <1>1, <1>3, CallEnds

\* What the registry does not take part in.
LEMMA RemoteSide ==
    ASSUME TelemetryInv, process' \in [Hosts -> Hosts \X Nat],
           UNCHANGED <<savedVars, listVars, workerVars, dogVars, call, shutting>>
    PROVE  TelemetryInv'
<1>1. Types'
    BY DEF TelemetryInv, Types, WorkerTypes, ListTypes, DogTypes, CallTypes,
           savedVars, listVars, workerVars, dogVars
<1>2. \A h : Connection(h)' = Connection(h) /\ (NoWatch(h)' <=> NoWatch(h))
    BY DEF Connection, NoWatch, savedVars
<1>3. ASSUME NEW g \in Generations PROVE GenInv(g)'
    BY <1>2 DEF TelemetryInv, GenInv, Unfinished, workerVars, listVars
<1>4. ASSUME NEW h \in Hosts PROVE MonitorInv(h)' /\ HostInv(h)'
    BY <1>2 DEF TelemetryInv, MonitorInv, HostInv, workerVars, listVars, dogVars, savedVars
<1>5. ASSUME NEW c \in Everyone PROVE CallInv(c)'
    <2>1. CallInv(c)
        BY DEF TelemetryInv
    <2>2. StopInv(c)' /\ DogInv(c)' /\ DeleteInv(c)'
        BY <1>2, <2>1 DEF CallInv, StopInv, DogInv, DeleteInv, workerVars, listVars, dogVars, savedVars
    <2> QED
        BY <2>1, <2>2 DEF CallInv
<1> QED
    BY <1>1, <1>3, <1>4, <1>5 DEF TelemetryInv

\* Another process gets the pid; a TERM is forgotten.
LEMMA ProcessesChange ==
    ASSUME TelemetryInv, TermExpires \/ \E h \in Hosts : ProcessChanges(h)
    PROVE  TelemetryInv'
<1>1. process \in [Hosts -> Hosts \X Nat]
    BY DEF TelemetryInv, Types, CallTypes
<1>2. UNCHANGED <<savedVars, listVars, workerVars, dogVars, call, shutting>>
    BY DEF TermExpires, ProcessChanges, endVars
<1>3. CASE TermExpires
    BY <1>1, <1>2, <1>3, RemoteSide DEF TermExpires
<1>4. CASE \E h \in Hosts : ProcessChanges(h)
    <2> PICK h \in Hosts : ProcessChanges(h)
        BY <1>4
    <2>1. PICK a \in Hosts, n \in Nat : process[h] = <<a, n>>
        BY <1>1
    <2>2. [<<a, n>> EXCEPT ![2] = @ + 1] = <<a, n + 1>>
        OBVIOUS
    <2>3. process' = [process EXCEPT ![h][2] = @ + 1]
        BY DEF ProcessChanges
    <2>4. process' \in [Hosts -> Hosts \X Nat]
        BY <1>1, <2>1, <2>2, <2>3
    <2> QED
        BY <1>2, <2>4, RemoteSide
<1> QED
    BY <1>3, <1>4

\* The remote user changes a session, or shutdown stops it: it does not become ours.
LEMMA SessionsChange ==
    ASSUME TelemetryInv, NEW h \in Hosts, SessionChanges(h) \/ SweepDog(h)
    PROVE  TelemetryInv'
<1>1. UNCHANGED <<savedVars, listVars, workerVars, watchdogs, operations, call, process, shutting>>
    BY DEF SessionChanges, SweepDog, signalVars, endVars
<1>2. Types
    BY DEF TelemetryInv
<1>3. /\ session' \in [Hosts -> {None, "ours", "foreign"}] /\ unsure \subseteq unsure'
      /\ \A o \in Hosts : session'[o] = "ours" => session[o] = "ours"
    <2>1. CASE SessionChanges(h)
        BY <1>2, <2>1 DEF SessionChanges, Types, DogTypes, None
    <2>2. CASE SweepDog(h)
        <3>1. Halted(h) \in {None, "foreign"}
            BY <1>2 DEF Halted, Types, DogTypes
        <3>2. session' \in {session, [session EXCEPT ![h] = Halted(h)]} /\ unsure \subseteq unsure'
            BY <2>2 DEF SweepDog
        <3> QED
            BY <1>2, <3>1, <3>2 DEF Types, DogTypes, None
    <2> QED
        BY <2>1, <2>2
<1>4. Types'
    BY <1>1, <1>2, <1>3 DEF Types, WorkerTypes, ListTypes, DogTypes, CallTypes, savedVars, listVars, workerVars
<1>5. \A o : Connection(o)' = Connection(o) /\ (NoWatch(o)' <=> NoWatch(o))
    BY <1>1 DEF Connection, NoWatch, savedVars
<1>6. ASSUME NEW g \in Generations PROVE GenInv(g)'
    BY <1>1, <1>5 DEF TelemetryInv, GenInv, Unfinished, workerVars, listVars
<1>7. ASSUME NEW o \in Hosts PROVE MonitorInv(o)' /\ HostInv(o)'
    BY <1>1, <1>3, <1>5 DEF TelemetryInv, MonitorInv, HostInv, workerVars, listVars, savedVars
<1>8. ASSUME NEW c \in Everyone PROVE CallInv(c)'
    <2>1. CallInv(c)
        BY DEF TelemetryInv
    <2>2. StopInv(c)' /\ DogInv(c)' /\ DeleteInv(c)'
        BY <1>1, <1>5, <2>1 DEF CallInv, StopInv, DogInv, DeleteInv, workerVars, listVars, savedVars
    <2> QED
        BY <1>1, <2>1, <2>2 DEF CallInv
<1> QED
    BY <1>4, <1>6, <1>7, <1>8 DEF TelemetryInv

-----------------------------------------------------------------------------
(* The btop watchdog.                                                      *)

\* A step of the call that holds the watchdog operation of h.
LEMMA DogStep ==
    ASSUME TelemetryInv, NEW c \in Everyone, NEW h \in Hosts, h = call[c].host, call[c].pc \in Held,
           NEW k \in Calls, call' = [call EXCEPT ![c] = k], CallInv(c)',
           UNCHANGED <<pc, host, used, child, slot, stop, refused, monitors, history, sequence, version, shutting, process>>,
           saved' \in [Hosts -> {"saved", "deleting", "gone"}],
           \A o \in Hosts : saved'[o] = saved[o] \/ (call[c].kind = "delete" /\ call[c].host = o),
           \A o \in Hosts : saved'[o] = "gone" => saved[o] = "gone",
           DogTypes',
           \A o \in Hosts \ {h} : watchdogs'[o] = watchdogs[o] /\ session'[o] = session[o] /\ operations'[o] = operations[o],
           unsure \subseteq unsure',
           watchdogs'[h] \in {watchdogs[h], Untracked} \/ (Watching(call[c]) /\ watchdogs'[h] = Connection(h)),
           session'[h] = "ours" =>
               h \in unsure' \/ watchdogs'[h] # Untracked \/ (session[h] = "ours" /\ watchdogs'[h] = watchdogs[h]),
           Watching(k) => Watching(call[c]) /\ k.host = h,
           k.kind = "delete" => call[c].kind = "delete" /\ k.host = h,
           k.pc \in Held => k.host = h
    PROVE  TelemetryInv'
<1>1. Types
    BY DEF TelemetryInv
<1>2. call'[c] = k /\ \A d \in Everyone \ {c} : call'[d] = call[d]
    BY <1>1 DEF Types, CallTypes
<1>3. WorkerTypes' /\ ListTypes' /\ process' \in [Hosts -> Hosts \X Nat]
    BY <1>1 DEF Types, WorkerTypes, ListTypes, CallTypes
<1>4. CallMoves(c)
    <2>1. ASSUME NEW o \in Hosts
          PROVE  /\ operations[o] # Untracked => operations'[o] # Untracked \/ (call[c].pc \in Held /\ call[c].host = o)
                 /\ watchdogs[o] = Untracked => watchdogs'[o] = Untracked \/ (Watching(call[c]) /\ call[c].host = o)
        BY <2>1
    <2> QED
        BY <1>2, <2>1 DEF CallMoves
<1>5. \A g \in Generations : GenInv(g)'
    BY WorkersRest
<1>6. ASSUME NEW o \in Hosts PROVE MonitorInv(o)' /\ HostInv(o)'
    <2>1. MonitorInv(o) /\ HostInv(o) /\ Connection(o)' = Connection(o)
        BY DEF TelemetryInv, Connection
    <2>2. MonitorInv(o)'
        BY <2>1 DEF MonitorInv
    <2>3. saved'[o] = "gone" => saved[o] = "gone" /\ NoWatch(o) /\ NoWatch(o)'
        BY <1>4, <2>1, NoWatchKept DEF HostInv
    <2>4. HostInv(o)'
        <3>1. CASE o # h
            BY <2>1, <2>3, <3>1 DEF HostInv
        <3>2. CASE o = h
            <4>1. watchdogs'[h] \in {Untracked, Connection(h)}
                BY <2>1, <3>2 DEF HostInv
            <4>2. saved'[h] = "gone" => watchdogs'[h] = Untracked
                <5>1. saved'[h] = "gone" => watchdogs[h] = Untracked /\ ~Watching(call[c])
                    BY <2>1, <2>3, <3>2 DEF HostInv, NoWatch, Watching
                <5> QED
                    BY <5>1
            <4>3. session'[h] = "ours" =>
                     h \in unsure' \/ watchdogs'[h] # Untracked \/ (shutting' # "no" /\ saved'[h] # "gone")
                BY <2>1, <2>3, <3>2 DEF HostInv
            <4> QED
                BY <2>1, <2>3, <3>2, <4>1, <4>2, <4>3 DEF HostInv
        <3> QED
            BY <3>1, <3>2
    <2> QED
        BY <2>2, <2>4
<1> QED
    BY <1>3, <1>4, <1>5, <1>6, CallStep

\* The call ends and releases the operation.
LEMMA DogEnds ==
    ASSUME TelemetryInv, NEW c \in Everyone, NEW h \in Hosts, h = call[c].host, call[c].pc \in Held,
           Gives(c) \/ Returns(c),
           UNCHANGED <<pc, host, used, child, slot, stop, refused, monitors, history, sequence, shutting, process>>,
           \/ UNCHANGED watchdogs
           \/ watchdogs' = [watchdogs EXCEPT ![h] = Untracked]
           \/ Watching(call[c]) /\ watchdogs' = [watchdogs EXCEPT ![h] = Connection(h)],
           \/ UNCHANGED session
           \/ \E s \in {None, "ours", "foreign"} : session' = [session EXCEPT ![h] = s],
           unsure \subseteq unsure',
           session'[h] = "ours" =>
               h \in unsure' \/ watchdogs'[h] # Untracked \/ (session[h] = "ours" /\ watchdogs'[h] = watchdogs[h])
    PROVE  TelemetryInv'
<1>1. Types
    BY DEF TelemetryInv
<1>2. /\ call' = [call EXCEPT ![c] = Idle] /\ call'[c] = Idle /\ Idle \in Calls
      /\ CallInv(c)' /\ saved' \in [Hosts -> {"saved", "deleting", "gone"}]
      /\ \A o \in Hosts : saved'[o] = "gone" => saved[o] = "gone"
      /\ \A o \in Hosts : saved'[o] = saved[o] \/ (call[c].kind = "delete" /\ call[c].host = o)
      /\ UNCHANGED version
    <2>1. CASE Refused(c)
        BY <2>1, RefusedFacts
    <2>2. CASE call' = [call EXCEPT ![c] = Idle] /\ UNCHANGED savedVars
        <3>1. call'[c] = Idle
            BY <1>1, <2>2 DEF Types, CallTypes
        <3> QED
            BY <1>1, <2>2, <3>1, IdleInv, IdleIsCall DEF Types, ListTypes, savedVars
    <2> QED
        BY <2>1, <2>2 DEF Gives, Returns
<1>3. operations' = [operations EXCEPT ![h] = Untracked]
    BY DEF Gives, Returns, Released
<1>4. Connection(h) \in Dogs /\ Untracked \in Dogs
    BY <1>1, ConnectionIs DEF Types, ListTypes, Dogs
<1>5. /\ DogTypes'
      /\ \A o \in Hosts \ {h} : watchdogs'[o] = watchdogs[o] /\ session'[o] = session[o] /\ operations'[o] = operations[o]
      /\ watchdogs'[h] \in {watchdogs[h], Untracked} \/ (Watching(call[c]) /\ watchdogs'[h] = Connection(h))
    BY <1>1, <1>3, <1>4 DEF Types, DogTypes
<1>6. ~Watching(Idle) /\ Idle.kind # "delete" /\ Idle.pc \notin Held
    BY IdleIsQuiet
<1> QED
    BY <1>2, <1>5, <1>6, DogStep

\* What the holder of an operation knows.
LEMMA HolderFacts ==
    ASSUME TelemetryInv, NEW c \in Everyone, call[c].pc \in Held
    PROVE  /\ call[c].host \in Hosts /\ CallInv(c) /\ call[c] \in Calls /\ Types
           /\ operations[call[c].host] # Untracked
           /\ call[c].dog \in Dogs
<1>1. call[c].pc # "idle"
    BY DEF Held
<1> QED
    BY <1>1, KindIs DEF TelemetryInv, CallInv, DogInv, Calls

\* The holder of an operation goes to its next step.
LEMMA HolderSteps ==
    ASSUME TelemetryInv, NEW c \in Everyone, call[c].pc \in Held, NEW p \in Held, NEW d \in Dogs,
           call' = [call EXCEPT ![c] = [@ EXCEPT !.pc = p, !.dog = d]],
           p \in StepsOf[call[c].kind],
           call[c].kind = "delete" => call[c].pc \in {"permit", "halt"},
           call[c].kind = "watch" => /\ p \notin {"reserve", "verify"}
                                     /\ Watching(call[c]) \/ saved[call[c].host] = "saved"
                                     /\ d = Connection(call[c].host),
           UNCHANGED <<pc, host, used, child, slot, stop, refused, monitors, history, sequence, saved, version, shutting,
                       process, watchdogs, operations, session, unsure>>
    PROVE  TelemetryInv'
<1>1. /\ call[c].host \in Hosts /\ CallInv(c) /\ call[c] \in Calls /\ Types
      /\ operations[call[c].host] # Untracked
    BY HolderFacts
<1>2. p \in AllSteps /\ p \notin Stopping \cup {"idle", "reserve", "forget", "begin"} /\ call[c].pc # "idle"
    BY DEF AllSteps, Held, Stopping
<1>3. /\ call' = [call EXCEPT ![c] = [@ EXCEPT !.pc = p, !.dog = d]]
      /\ call'[c].pc = p /\ call'[c].dog = d
      /\ call'[c].kind = call[c].kind /\ call'[c].host = call[c].host
      /\ \A o \in Everyone \ {c} : call'[o] = call[o]
    <2> DEFINE k == [call[c] EXCEPT !.pc = p, !.dog = d]
    <2>1. call' = [call EXCEPT ![c] = k]
        OBVIOUS
    <2>2. k.pc = p /\ k.dog = d /\ k.kind = call[c].kind /\ k.host = call[c].host
        BY <1>1 DEF Calls
    <2>3. call \in [Everyone -> Calls]
        BY <1>1 DEF Types, CallTypes
    <2> HIDE DEF k
    <2>4. call'[c] = k /\ \A o \in Everyone \ {c} : call'[o] = call[o]
        BY <2>1, <2>3
    <2>5. call' = [call EXCEPT ![c] = [@ EXCEPT !.pc = p, !.dog = d]]
        OBVIOUS
    <2> QED
        BY <2>2, <2>4, <2>5
<1>4. StopInv(c)'
    BY <1>2, <1>3 DEF StopInv
<1>5. DeleteInv(c)'
    <2> SUFFICES ASSUME call[c].kind = "delete" PROVE DeleteInv(c)'
        BY <1>3 DEF DeleteInv
    <2> PICK h \in Hosts : h = call[c].host
        BY <1>1
    <2>1. DeleteInv(c) /\ NoWatch(h) /\ monitors[h] = 0
        BY <1>1 DEF CallInv, DeleteInv, Stopping
    <2>2. NoWatch(h)'
        BY <1>3, <2>1 DEF NoWatch
    <2> QED
        BY <1>2, <1>3, <2>1, <2>2 DEF DeleteInv
<1>6. DogInv(c)'
    <2>1. Connection(call[c].host)' = Connection(call[c].host)
        BY <1>3 DEF Connection
    <2>2. \A b \in Everyone \ {c} : call[b].pc \in Held => call[b].host # call[c].host
        BY <1>1 DEF CallInv, DogInv
    <2> QED
        BY <1>1, <1>2, <1>3, <2>1, <2>2 DEF DogInv
<1> QED
    BY <1>1, <1>2, <1>3, <1>4, <1>5, <1>6, NextStep DEF Watching

\* Such a step that keeps what it captured.
LEMMA HolderGoesOn ==
    ASSUME TelemetryInv, NEW c \in Everyone, call[c].pc \in Held, NEW p \in Held,
           call' = [call EXCEPT ![c].pc = p], p \in StepsOf[call[c].kind],
           call[c].kind = "delete" => call[c].pc \in {"permit", "halt"},
           call[c].kind = "watch" => /\ p \notin {"reserve", "verify"}
                                     /\ Watching(call[c]) \/ saved[call[c].host] = "saved"
                                     /\ call[c].dog = Connection(call[c].host),
           UNCHANGED <<pc, host, used, child, slot, stop, refused, monitors, history, sequence, saved, version, shutting,
                       process, watchdogs, operations, session, unsure>>
    PROVE  TelemetryInv'
<1>1. call[c].dog \in Dogs
    BY HolderFacts
<1>2. call[c].pc # "idle" /\ p \in AllSteps
    BY DEF AllSteps, Held
<1>3. call' = [call EXCEPT ![c].pc = p]
    OBVIOUS
<1>4. call' = [call EXCEPT ![c] = [@ EXCEPT !.pc = p, !.dog = call[c].dog]]
    BY <1>2, <1>3, NextPc
<1> QED
    BY <1>1, <1>4, HolderSteps

\* The reservation, for one call at a time.
LEMMA OperationIsReserved ==
    ASSUME TelemetryInv, NEW c \in Everyone, ReserveWatchdogOperation(c)
    PROVE  TelemetryInv'
<1>1. /\ call[c].pc = "reserve"
      /\ UNCHANGED <<pc, host, used, child, slot, stop, refused, monitors, history, sequence, version, shutting,
                     process, watchdogs, session, unsure>>
    BY DEF ReserveWatchdogOperation, Refused, workerVars, listVars, signalVars, endVars, savedVars
<1>2. /\ Types /\ CallInv(c) /\ call[c] \in Calls /\ call[c].host \in Hosts
      /\ call[c].kind \in {"watch", "unwatch", "delete"}
      /\ process' \in [Hosts -> Hosts \X Nat]
    BY <1>1, KindIs DEF TelemetryInv, Types, CallTypes
<1> PICK h \in Hosts : h = call[c].host
    BY <1>2
<1>3. CASE Refused(c) /\ UNCHANGED operations
    BY <1>1, <1>2, <1>3, CallEnds
<1>4. CASE /\ operations[h] = Untracked /\ operations' = [operations EXCEPT ![h] = call[c].dog]
           /\ Later(c, IF call[c].kind = "watch" THEN "verify" ELSE "permit")
           /\ UNCHANGED savedVars
    <2> PICK p \in {"verify", "permit"} : p = IF call[c].kind = "watch" THEN "verify" ELSE "permit"
        OBVIOUS
    <2>1. call[c].dog \in Dogs /\ call[c].dog # Untracked
        BY <1>1, <1>2 DEF CallInv, DogInv, Calls
    <2>2. /\ p \in AllSteps /\ p \in StepsOf[call[c].kind] /\ p \in Held
          /\ p \notin Stopping \cup {"idle", "reserve", "forget", "begin"}
        BY <1>2, StepsAre DEF AllSteps, Held, Stopping, Started
    <2>3. call' = [call EXCEPT ![c].pc = p] /\ saved' = saved
        BY <1>4 DEF Later, savedVars
    <2>4. /\ call' = [call EXCEPT ![c] = [@ EXCEPT !.pc = p, !.dog = call[c].dog]]
          /\ call'[c].pc = p /\ call'[c].kind = call[c].kind /\ call'[c].host = call[c].host
          /\ \A o \in Everyone \ {c} : call'[o] = call[o]
        <3>1. call[c].pc # "idle" /\ call' = [call EXCEPT ![c].pc = p]
            BY <1>1, <2>3
        <3> QED
            BY <2>2, <3>1, NextPc
    <2>5. StopInv(c)'
        BY <2>2, <2>4 DEF StopInv
    <2>6. DeleteInv(c)'
        <3> SUFFICES ASSUME call[c].kind = "delete" PROVE DeleteInv(c)'
            BY <2>4 DEF DeleteInv
        <3>1. DeleteInv(c) /\ NoWatch(h) /\ monitors[h] = 0
            BY <1>1, <1>2 DEF CallInv, DeleteInv, Stopping
        <3>2. NoWatch(h)'
            BY <2>4, <3>1 DEF NoWatch
        <3> QED
            BY <1>1, <2>2, <2>3, <2>4, <3>1, <3>2 DEF DeleteInv
    <2>7. DogInv(c)'
        <3>1. operations'[h] # Untracked
            BY <1>2, <1>4, <2>1 DEF Types, DogTypes
        <3>2. \A d \in Everyone \ {c} : call[d].pc \in Held => call[d].host # h
            BY <1>4 DEF TelemetryInv, CallInv, DogInv
        <3>3. ~(call[c].kind = "watch" /\ p \in Started)
            BY DEF Started
        <3> QED
            BY <1>2, <2>2, <2>4, <3>1, <3>2, <3>3 DEF DogInv
    <2>8. UNCHANGED <<pc, host, used, child, slot, stop, refused, monitors, history, sequence, saved, version, shutting,
                       process, watchdogs, session, unsure>>
        BY <1>1, <2>3
    <2>9. operations[call[c].host] = Untracked /\ \E o \in Dogs : operations' = [operations EXCEPT ![call[c].host] = o]
        BY <1>4, <2>1
    <2>10. call[c].kind = "watch" => p = "verify"
        OBVIOUS
    <2> QED
        BY <1>1, <1>4, <2>1, <2>2, <2>4, <2>5, <2>6, <2>7, <2>8, <2>9, <2>10, NextStep
<1> QED
    BY <1>3, <1>4 DEF ReserveWatchdogOperation

\* The saved profile is compared and a permit acquired.
LEMMA StartIsPermitted ==
    ASSUME TelemetryInv, NEW c \in Everyone, VerifyProfile(c) \/ AcquireBtopPermit(c)
    PROVE  TelemetryInv'
<1>1. /\ call[c].pc \in {"verify", "permit"} /\ call[c].pc \in Held
      /\ UNCHANGED <<pc, host, used, child, slot, stop, refused, monitors, history, sequence, version, shutting,
                     process, watchdogs, session, unsure>>
    BY DEF VerifyProfile, AcquireBtopPermit, Gives, Refused, Held, workerVars, listVars, signalVars, endVars, savedVars
<1>2. /\ call[c].host \in Hosts /\ CallInv(c) /\ call[c] \in Calls /\ Types
      /\ process' \in [Hosts -> Hosts \X Nat]
    BY <1>1, HolderFacts DEF Types, CallTypes
<1>3. CASE Gives(c)
    BY <1>1, <1>2, <1>3, CallEnds DEF Gives, Released
<1>4. CASE /\ VerifyProfile(c) /\ saved[call[c].host] = "saved"
           /\ call' = [call EXCEPT ![c].pc = "permit", ![c].dog = Connection(call[c].host)]
           /\ UNCHANGED <<operations, savedVars>>
    <2>1. call[c].kind = "watch" /\ "permit" \in StepsOf[call[c].kind] /\ "permit" \in Held
        BY <1>4, KindIs, StepsAre DEF VerifyProfile, Held, Started
    <2>2. UNCHANGED <<operations, saved>>
        BY <1>4 DEF savedVars
    <2> PICK d \in Dogs : d = Connection(call[c].host)
        BY <1>2, ConnectionIs DEF Types, ListTypes
    <2>3. call' = [call EXCEPT ![c] = [@ EXCEPT !.pc = "permit", !.dog = d]]
        BY <1>2, <1>4 DEF Types, CallTypes
    <2> QED
        BY <1>1, <1>4, <2>1, <2>2, <2>3, HolderSteps
<1>5. CASE /\ AcquireBtopPermit(c) /\ Later(c, IF call[c].kind = "watch" THEN "run" ELSE "halt")
           /\ UNCHANGED <<operations, savedVars>>
    <2>1. call[c].pc = "permit" /\ call[c].kind \in {"watch", "unwatch", "delete"} /\ UNCHANGED <<operations, saved>>
        BY <1>5, KindIs DEF AcquireBtopPermit, savedVars
    <2>2. CASE call[c].kind = "watch"
        <3>1. "run" \in Held /\ "run" \in StepsOf[call[c].kind] /\ Watching(call[c])
              /\ call[c].dog = Connection(call[c].host)
            BY <1>2, <2>1, <2>2, StepsAre DEF Held, Started, Watching, CallInv, DogInv
        <3>2. call' = [call EXCEPT ![c].pc = "run"]
            BY <1>5, <2>2 DEF Later
        <3> QED
            BY <1>1, <2>1, <2>2, <3>1, <3>2, HolderGoesOn
    <2>3. CASE call[c].kind # "watch"
        <3>1. "halt" \in Held /\ "halt" \in StepsOf[call[c].kind]
            BY <2>1, <2>3, StepsAre DEF Held
        <3>2. call' = [call EXCEPT ![c].pc = "halt"]
            BY <1>5, <2>3 DEF Later
        <3> QED
            BY <1>1, <2>1, <2>3, <3>1, <3>2, HolderGoesOn
    <2> QED
        BY <2>2, <2>3
<1> QED
    BY <1>3, <1>4, <1>5 DEF VerifyProfile, AcquireBtopPermit

\* What a start of a watchdog knows.
LEMMA StarterFacts ==
    ASSUME TelemetryInv, NEW c \in Everyone, call[c].pc \in {"run", "gate", "inspect", "gate again"}
    PROVE  /\ call[c].pc \in Held /\ call[c].kind = "watch" /\ call[c].host \in Hosts /\ Watching(call[c])
           /\ call[c].dog = Connection(call[c].host) /\ Connection(call[c].host) # Untracked
           /\ Types /\ CallInv(c) /\ call[c] \in Calls
           /\ \A p \in {"gate", "inspect", "gate again"} : p \in Held /\ p \in StepsOf[call[c].kind]
<1>1. call[c].pc \in Held /\ call[c].pc \in Started
    BY DEF Held, Started
<1>2. call[c].kind = "watch" /\ call[c].host \in Hosts /\ CallInv(c) /\ call[c] \in Calls /\ Types
    BY KindIs DEF TelemetryInv
<1>3. Watching(call[c]) /\ call[c].dog = Connection(call[c].host)
    BY <1>1, <1>2 DEF Watching, CallInv, DogInv
<1>4. Connection(call[c].host) # Untracked
    BY <1>2, ConnectionIs DEF Types, ListTypes
<1>5. \A p \in {"gate", "inspect", "gate again"} : p \in Held /\ p \in StepsOf["watch"]
    BY StepsAre DEF Held, Started
<1> QED
    BY <1>1, <1>2, <1>3, <1>4, <1>5

\* A command whose answer is lost.
LEMMA LostFacts ==
    ASSUME TelemetryInv, NEW c \in Everyone, NEW h \in Hosts, h = call[c].host, NEW after \in {None, "ours", "foreign"}, Lost(c, after)
    PROVE  /\ unsure \subseteq unsure' /\ h \in unsure'
           /\ UNCHANGED session \/ session' = [session EXCEPT ![h] = after]
BY DEF Lost

\* A started watchdog is stopped again.
LEMMA DogIsTakenBack ==
    ASSUME TelemetryInv, NEW c \in Everyone, call[c].pc \in Held, TakesBack(c),
           UNCHANGED <<pc, host, used, child, slot, stop, refused, monitors, history, sequence, shutting, process>>
    PROVE  TelemetryInv'
<1>1. call[c].host \in Hosts /\ Types
    BY HolderFacts
<1> PICK h \in Hosts : h = call[c].host
    BY <1>1
<1>2. Halted(h) \in {None, "foreign"}
    BY <1>1 DEF Halted, Types, DogTypes
<1>3. /\ unsure \subseteq unsure'
      /\ UNCHANGED session \/ \E s \in {None, "ours", "foreign"} : session' = [session EXCEPT ![h] = s]
      /\ session'[h] = "ours" => h \in unsure'
    <2>1. CASE session' = [session EXCEPT ![h] = Halted(h)] /\ UNCHANGED unsure
        <3>1. session'[h] # "ours"
            BY <1>1, <1>2, <2>1 DEF Types, DogTypes, None
        <3> QED
            BY <1>2, <2>1, <3>1
    <2>2. CASE Lost(c, Halted(h))
        BY <1>2, <2>2, LostFacts
    <2> QED
        BY <2>1, <2>2 DEF TakesBack
<1>4. Gives(c) /\ watchdogs' = [watchdogs EXCEPT ![h] = Untracked]
    BY DEF TakesBack
<1> QED
    BY <1>3, <1>4, DogEnds

\* The remote start: a session is made, adopted, or refused.
LEMMA BtopStarts ==
    ASSUME TelemetryInv, NEW c \in Everyone, RunBtopStart(c)
    PROVE  TelemetryInv'
<1>1. /\ call[c].pc = "run"
      /\ UNCHANGED <<pc, host, used, child, slot, stop, refused, monitors, history, sequence, shutting, process>>
    BY DEF RunBtopStart, workerVars, listVars, signalVars, endVars
<1>2. /\ call[c].pc \in Held /\ call[c].kind = "watch" /\ call[c].host \in Hosts /\ Watching(call[c])
      /\ call[c].dog = Connection(call[c].host) /\ Connection(call[c].host) # Untracked
      /\ Types /\ CallInv(c) /\ call[c] \in Calls
      /\ "gate" \in Held /\ "gate" \in StepsOf[call[c].kind]
    BY <1>1, StarterFacts
<1> PICK h \in Hosts : h = call[c].host
    BY <1>2
<1>3. CASE Gives(c) /\ UNCHANGED <<watchdogs, session, unsure>>
    BY <1>1, <1>2, <1>3, DogEnds
<1>4. CASE Later(c, "gate") /\ UNCHANGED <<watchdogs, operations, session, unsure, savedVars>>
    BY <1>1, <1>2, <1>4, HolderGoesOn DEF Later, savedVars
<1>5. CASE /\ session' = [session EXCEPT ![h] = "ours"] /\ watchdogs' = [watchdogs EXCEPT ![h] = call[c].dog]
           /\ call' = [call EXCEPT ![c].pc = "gate", ![c].gen = 1]
           /\ UNCHANGED <<operations, unsure, savedVars>>
    <2> DEFINE k == [call[c] EXCEPT !.pc = "gate", !.gen = 1]
    <2>1. "gate" \in AllSteps /\ "gate" \notin Stopping \cup {"idle", "reserve"}
        BY DEF AllSteps, Held, Stopping
    <2>2. k \in Calls /\ k.pc = "gate" /\ k.kind = "watch" /\ k.host = h /\ k.dog = call[c].dog
        BY <1>2, <2>1 DEF Calls
    <2>3. call' = [call EXCEPT ![c] = k]
        BY <1>2, <1>5 DEF Types, CallTypes
    <2> HIDE DEF k
    <2>4. call'[c] = k /\ \A o \in Everyone \ {c} : call'[o] = call[o]
        BY <1>2, <2>3 DEF Types, CallTypes
    <2>5. Connection(h)' = Connection(h)
        BY <1>5 DEF Connection, savedVars
    <2>6. CallInv(c)'
        <3>1. StopInv(c)' /\ DeleteInv(c)'
            BY <2>1, <2>2, <2>4 DEF StopInv, DeleteInv
        <3>2. \A d \in Everyone \ {c} : call[d].pc \in Held => call[d].host # h
            BY <1>2 DEF CallInv, DogInv
        <3>3. operations'[h] # Untracked
            BY <1>2, <1>5 DEF CallInv, DogInv
        <3>4. DogInv(c)'
            BY <1>2, <2>1, <2>2, <2>4, <2>5, <3>2, <3>3 DEF DogInv
        <3> QED
            BY <1>1, <1>2, <2>2, <2>4, <3>1, <3>4 DEF CallInv
    <2>7. Connection(h) \in Dogs
        BY <1>2, ConnectionIs DEF Types, ListTypes
    <2>8. /\ DogTypes'
          /\ \A o \in Hosts \ {h} : watchdogs'[o] = watchdogs[o] /\ session'[o] = session[o] /\ operations'[o] = operations[o]
          /\ watchdogs'[h] = Connection(h)
        BY <1>2, <1>5, <2>7 DEF Types, DogTypes
    <2>9. UNCHANGED <<saved, version>> /\ saved' \in [Hosts -> {"saved", "deleting", "gone"}]
        BY <1>2, <1>5 DEF savedVars, Types, ListTypes
    <2>10. unsure \subseteq unsure' /\ watchdogs'[h] # Untracked
        BY <1>2, <1>5, <2>8
    <2> QED
        BY <1>1, <1>2, <2>2, <2>3, <2>6, <2>8, <2>9, <2>10, DogStep
<1>6. CASE Lost(c, IF session[h] = None THEN "ours" ELSE session[h]) /\ Gives(c) /\ UNCHANGED watchdogs
    <2> PICK after \in {None, "ours", "foreign"} : after = IF session[h] = None THEN "ours" ELSE session[h]
        BY <1>2 DEF Types, DogTypes
    <2>1. unsure \subseteq unsure' /\ h \in unsure' /\ (UNCHANGED session \/ session' = [session EXCEPT ![h] = after])
        BY <1>6, LostFacts
    <2> QED
        BY <1>1, <1>2, <1>6, <2>1, DogEnds
<1> QED
    BY <1>3, <1>4, <1>5, <1>6 DEF RunBtopStart

\* shutting_down is looked at, and the session is inspected.
LEMMA BtopIsInspected ==
    ASSUME TelemetryInv, NEW c \in Everyone, PassGate(c) \/ InspectBtop(c)
    PROVE  TelemetryInv'
<1>1. /\ call[c].pc \in {"run", "gate", "inspect", "gate again"}
      /\ UNCHANGED <<pc, host, used, child, slot, stop, refused, monitors, history, sequence, shutting, process>>
    BY DEF PassGate, InspectBtop, workerVars, listVars, signalVars, endVars
<1>2. /\ call[c].pc \in Held /\ call[c].kind = "watch" /\ call[c].host \in Hosts /\ Watching(call[c])
      /\ call[c].dog = Connection(call[c].host) /\ Connection(call[c].host) # Untracked
      /\ Types
      /\ \A p \in {"inspect", "gate again"} : p \in Held /\ p \in StepsOf[call[c].kind]
    BY <1>1, StarterFacts
<1> PICK h \in Hosts : h = call[c].host
    BY <1>2
<1>3. CASE TakesBack(c)
    BY <1>1, <1>2, <1>3, DogIsTakenBack
<1>4. CASE Gives(c) /\ UNCHANGED <<watchdogs, session, unsure>>
    BY <1>1, <1>2, <1>4, DogEnds
<1>5. CASE \E p \in {"inspect", "gate again"} : Later(c, p) /\ UNCHANGED <<dogVars, savedVars>>
    <2>1. PICK p \in {"inspect", "gate again"} : Later(c, p) /\ UNCHANGED <<dogVars, savedVars>>
        BY <1>5
    <2>2. p \in Held /\ p \in StepsOf[call[c].kind] /\ call' = [call EXCEPT ![c].pc = p] /\ p \notin {"reserve", "verify"}
        BY <1>2, <2>1 DEF Later
    <2>3. UNCHANGED <<pc, host, used, child, slot, stop, refused, monitors, history, sequence, saved, version, shutting,
                       process, watchdogs, operations, session, unsure>>
        BY <1>1, <2>1 DEF dogVars, savedVars
    <2> QED
        BY <1>2, <2>2, <2>3, HolderGoesOn
<1>6. CASE watchdogs' = [watchdogs EXCEPT ![h] = call[c].dog] /\ Returns(c) /\ UNCHANGED <<session, unsure>>
    <2>1. watchdogs' = [watchdogs EXCEPT ![h] = Connection(h)]
        BY <1>2, <1>6
    <2>2. watchdogs'[h] # Untracked
        BY <1>2, <2>1 DEF Types, DogTypes
    <2> QED
        BY <1>1, <1>2, <1>6, <2>1, <2>2, DogEnds
<1> QED
    BY <1>3, <1>4, <1>5, <1>6 DEF PassGate, InspectBtop

\* The remote stop.
LEMMA BtopStops ==
    ASSUME TelemetryInv, NEW c \in Everyone, StopBtop(c)
    PROVE  TelemetryInv'
<1>1. /\ call[c].pc = "halt" /\ call[c].pc \in Held
      /\ UNCHANGED <<pc, host, used, child, slot, stop, refused, monitors, history, sequence, shutting, process>>
    BY DEF StopBtop, workerVars, listVars, signalVars, endVars, Held
<1>2. call[c].host \in Hosts /\ CallInv(c) /\ call[c] \in Calls /\ Types /\ call[c].kind \in {"unwatch", "delete"}
    BY <1>1, HolderFacts, KindIs
<1> PICK h \in Hosts : h = call[c].host
    BY <1>2
<1>3. CASE Gives(c) /\ UNCHANGED <<watchdogs, session, unsure>>
    BY <1>1, <1>3, DogEnds
<1>4. CASE Lost(c, Halted(h)) /\ Gives(c) /\ UNCHANGED watchdogs
    <2>1. Halted(h) \in {None, "ours", "foreign"}
        BY <1>2 DEF Halted, Types, DogTypes
    <2>2. unsure \subseteq unsure' /\ h \in unsure' /\ (UNCHANGED session \/ session' = [session EXCEPT ![h] = Halted(h)])
        BY <1>4, <2>1, LostFacts
    <2> QED
        BY <1>1, <1>4, <2>1, <2>2, DogEnds
<1>5. ASSUME session' = [session EXCEPT ![h] = None], watchdogs' = [watchdogs EXCEPT ![h] = Untracked], UNCHANGED unsure
      PROVE  /\ session'[h] # "ours" /\ watchdogs'[h] = Untracked /\ watchdogs' \in [Hosts -> Dogs]
             /\ session' \in [Hosts -> {None, "ours", "foreign"}]
             /\ \A o \in Hosts \ {h} : watchdogs'[o] = watchdogs[o] /\ session'[o] = session[o]
    BY <1>2, <1>5 DEF Types, DogTypes, Dogs, None
<1>6. CASE /\ session' = [session EXCEPT ![h] = None] /\ watchdogs' = [watchdogs EXCEPT ![h] = Untracked]
           /\ UNCHANGED unsure /\ (Gives(c) \/ Returns(c))
    BY <1>1, <1>5, <1>6, DogEnds
<1>7. CASE /\ session' = [session EXCEPT ![h] = None] /\ watchdogs' = [watchdogs EXCEPT ![h] = Untracked]
           /\ UNCHANGED unsure /\ Released(c) /\ call[c].kind = "delete"
           /\ call' = [call EXCEPT ![c] = [@ EXCEPT !.pc = "forget"]] /\ UNCHANGED savedVars
    <2> DEFINE k == [call[c] EXCEPT !.pc = "forget"]
    <2>1. "forget" \in AllSteps /\ "forget" \notin Stopping \cup Held \cup {"begin", "reserve"} /\ "forget" \in StepsOf["delete"]
        BY StepsAre DEF AllSteps, Held, Stopping
    <2>2. k \in Calls /\ k.pc = "forget" /\ k.kind = "delete" /\ k.host = h
        BY <1>2, <1>7, <2>1 DEF Calls
    <2>3. call' = [call EXCEPT ![c] = k]
        BY <1>2, <1>7 DEF Types, CallTypes
    <2> HIDE DEF k
    <2>4. call'[c] = k /\ \A o \in Everyone \ {c} : call'[o] = call[o]
        BY <1>2, <2>3 DEF Types, CallTypes
    <2>5. UNCHANGED <<saved, version>> /\ saved' \in [Hosts -> {"saved", "deleting", "gone"}]
        BY <1>2, <1>7 DEF savedVars, Types, ListTypes
    <2>6. CallInv(c)'
        <3>1. StopInv(c)' /\ DogInv(c)'
            BY <2>1, <2>2, <2>4 DEF StopInv, DogInv
        <3>2. NoWatch(h)'
            <4>1. NoWatch(h)
                BY <1>1, <1>2, <1>7 DEF CallInv, DeleteInv
            <4> QED
                BY <2>2, <2>4, <4>1 DEF NoWatch
        <3>3. monitors[h] = 0
            BY <1>1, <1>2, <1>7 DEF CallInv, DeleteInv, Stopping
        <3>4. watchdogs'[h] = Untracked
            BY <1>5, <1>7
        <3>5. DeleteInv(c)'
            BY <1>1, <1>2, <1>7, <2>1, <2>2, <2>4, <2>5, <3>2, <3>3, <3>4 DEF CallInv, DeleteInv
        <3> QED
            BY <1>1, <1>2, <1>7, <2>1, <2>2, <2>4, <3>1, <3>5 DEF CallInv
    <2>7. operations' = [operations EXCEPT ![h] = Untracked]
        BY <1>7 DEF Released
    <2>8. operations' \in [Hosts -> Dogs] /\ \A o \in Hosts \ {h} : operations'[o] = operations[o]
        BY <1>2, <2>7 DEF Types, DogTypes, Dogs
    <2>9. DogTypes'
        BY <1>5, <1>7, <2>8 DEF DogTypes
    <2>10. ~Watching(k) /\ k.pc \notin Held
        BY <2>1, <2>2 DEF Watching
    <2>11. /\ session'[h] # "ours" /\ watchdogs'[h] = Untracked
           /\ \A o \in Hosts \ {h} : watchdogs'[o] = watchdogs[o] /\ session'[o] = session[o] /\ operations'[o] = operations[o]
        BY <1>5, <1>7, <2>8
    <2>12. /\ \A o \in Hosts : saved'[o] = saved[o] \/ (call[c].kind = "delete" /\ call[c].host = o)
           /\ \A o \in Hosts : saved'[o] = "gone" => saved[o] = "gone"
           /\ unsure \subseteq unsure'
        BY <1>7, <2>5
    <2>13. k.kind = "delete" => call[c].kind = "delete" /\ k.host = h
        BY <1>7, <2>2
    <2>14. UNCHANGED <<pc, host, used, child, slot, stop, refused, monitors, history, sequence, version, shutting, process>>
        BY <1>1, <2>5
    <2> QED
        BY <1>1, <2>2, <2>3, <2>5, <2>6, <2>9, <2>10, <2>11, <2>12, <2>13, <2>14, DogStep
<1>8. CASE /\ session' = [session EXCEPT ![h] = None] /\ watchdogs' = [watchdogs EXCEPT ![h] = Untracked]
           /\ UNCHANGED unsure /\ Released(c)
           /\ call' = [call EXCEPT ![c] = IF @.kind = "delete" THEN [@ EXCEPT !.pc = "forget"] ELSE Idle]
           /\ UNCHANGED savedVars
    <2>1. CASE call[c].kind = "delete"
        <3>1. call' = [call EXCEPT ![c] = [@ EXCEPT !.pc = "forget"]]
            BY <1>2, <1>8, <2>1 DEF Types, CallTypes
        <3> QED
            BY <1>7, <1>8, <2>1, <3>1
    <2>2. CASE call[c].kind # "delete"
        <3>1. call' = [call EXCEPT ![c] = Idle]
            BY <1>2, <1>8, <2>2 DEF Types, CallTypes
        <3> QED
            BY <1>6, <1>8, <3>1 DEF Returns
    <2> QED
        BY <2>1, <2>2
<1> QED
    BY <1>3, <1>4, <1>6, <1>8 DEF StopBtop

-----------------------------------------------------------------------------
(* Edits of a host, and shutdown.                                          *)

\* save_host changes no connection that a collector or a watchdog uses.
LEMMA HostIsSaved ==
    ASSUME TelemetryInv, NEW h \in Hosts, SaveHost(h)
    PROVE  TelemetryInv'
<1>1. /\ saved[h] = "saved" /\ ~Affected(h) /\ version' = [version EXCEPT ![h] = @ + 1]
      /\ UNCHANGED <<saved, workerVars, listVars, dogVars, call, process, shutting>>
    BY DEF SaveHost, signalVars, endVars
<1>2. Types
    BY DEF TelemetryInv
<1>3. \A o \in Hosts : ~Uses(o, h) => Connection(o)' = Connection(o)
    <2> SUFFICES ASSUME NEW o \in Hosts, ~Uses(o, h) PROVE Connection(o)' = Connection(o)
        OBVIOUS
    <2>1. o # h /\ Via[o] # h /\ Via[o] \in Hosts \cup {None}
        BY Constants DEF Uses
    <2>2. version'[o] = version[o] /\ (Via[o] # None => version'[Via[o]] = version[Via[o]])
        BY <1>1, <1>2, <2>1 DEF Types, ListTypes
    <2> QED
        BY <2>2 DEF Connection
<1>4. \A o \in Hosts : monitors[o] # 0 \/ watchdogs[o] # Untracked \/ operations[o] # Untracked
                           => Connection(o)' = Connection(o)
    BY <1>1, <1>3 DEF Affected, Monitored
<1>5. Types'
    <2>1. version' \in [Hosts -> Nat]
        <3>1. version \in [Hosts -> Nat]
            BY <1>2 DEF Types, ListTypes
        <3>2. version[h] + 1 \in Nat
            BY <3>1
        <3> QED
            BY <1>1, <3>1, <3>2
    <2> QED
        BY <1>1, <1>2, <2>1 DEF Types, WorkerTypes, ListTypes, DogTypes, CallTypes, workerVars, listVars, dogVars
<1>6. \A o : NoWatch(o)' <=> NoWatch(o)
    BY <1>1 DEF NoWatch
<1>7. ASSUME NEW g \in Generations PROVE GenInv(g)'
    <2>1. GenInv(g) /\ g # 0
        BY Constants DEF TelemetryInv
    <2>2. child[g] \in Living => host[g] \in Hosts /\ monitors[host[g]] = g
        BY <2>1 DEF GenInv, Unfinished
    <2>3. child[g] \in Living => Connection(host[g])' = Connection(host[g])
        BY <1>1, <1>4, <2>1, <2>2 DEF Connection, workerVars
    <2> QED
        BY <1>1, <2>1, <2>3 DEF GenInv, Unfinished, workerVars, listVars
<1>8. ASSUME NEW o \in Hosts PROVE MonitorInv(o)' /\ HostInv(o)'
    <2>1. MonitorInv(o) /\ HostInv(o)
        BY DEF TelemetryInv
    <2>2. MonitorInv(o)'
        BY <1>1, <2>1 DEF MonitorInv, workerVars, listVars
    <2>3. HostInv(o)'
        BY <1>1, <1>4, <1>6, <2>1 DEF HostInv, workerVars, listVars, dogVars
    <2> QED
        BY <2>2, <2>3
<1>9. ASSUME NEW c \in Everyone PROVE CallInv(c)'
    <2>1. CallInv(c)
        BY DEF TelemetryInv
    <2>2. StopInv(c)' /\ DeleteInv(c)'
        BY <1>1, <1>6, <2>1 DEF CallInv, StopInv, DeleteInv, workerVars, listVars, dogVars
    <2>3. ASSUME call[c].kind = "watch", call[c].pc \in Started PROVE Connection(call[c].host)' = Connection(call[c].host)
        <3>1. call[c].pc \in Held
            BY <2>3 DEF Started, Held
        <3>2. call[c].host \in Hosts /\ operations[call[c].host] # Untracked
            BY <3>1, HolderFacts
        <3> QED
            BY <1>1, <1>4, <3>2 DEF Connection
    <2>4. DogInv(c)'
        BY <1>1, <2>1, <2>3 DEF CallInv, DogInv, dogVars
    <2> QED
        BY <1>1, <2>1, <2>2, <2>4 DEF CallInv
<1> QED
    BY <1>5, <1>7, <1>8, <1>9 DEF TelemetryInv

\* shutdown stops every listed monitor; no other stop or deletion is in progress.
LEMMA ShutdownBegins ==
    ASSUME TelemetryInv, Shutdown
    PROVE  TelemetryInv'
<1> DEFINE Sweep(h) == [Idle EXCEPT !.kind = "sweep", !.host = h, !.gen = monitors[h], !.pc = "kill"]
<1>1. /\ shutting = "no" /\ shutting' = "yes"
      /\ \A c \in Callers : call[c].kind \in {"idle", "watch"}
      /\ stop' = stop \cup {monitors[h] : h \in Monitored}
      /\ call' = [c \in DOMAIN call |-> IF c \in Monitored THEN Sweep(c) ELSE call[c]]
      /\ UNCHANGED <<pc, host, used, child, slot, monitors, history, sequence, saved, version,
                     watchdogs, operations, session, unsure, process>>
    BY DEF Shutdown, listVars, dogVars, signalVars, savedVars
<1>2. Types /\ Idle \in Calls
    BY IdleIsCall DEF TelemetryInv
<1>3. \A h \in Monitored : /\ h \in Hosts /\ monitors[h] \in Generations /\ host[monitors[h]] = h
                           /\ monitors[h] \in stop'
    BY <1>1, <1>2 DEF Monitored, TelemetryInv, MonitorInv, Types, ListTypes
<1>4. ASSUME NEW h \in Monitored
      PROVE  /\ Sweep(h) \in Calls /\ Sweep(h).kind = "sweep" /\ Sweep(h).host = h /\ Sweep(h).pc = "kill"
             /\ Sweep(h).gen = monitors[h]
    <2>1. "sweep" \in DOMAIN StepsOf /\ "kill" \in AllSteps /\ monitors[h] \in Generations \cup {0, 1}
        BY <1>3, StepsAre DEF AllSteps, Stopping
    <2>2. h \in Hosts
        BY <1>3
    <2> QED
        BY <1>2, <2>1, <2>2 DEF Calls, Idle
<1> HIDE DEF Sweep
<1>5. \A c \in Everyone : call'[c] = IF c \in Monitored THEN Sweep(c) ELSE call[c]
    BY <1>1, <1>2 DEF Types, CallTypes
<1>6. call' \in [Everyone -> Calls]
    BY <1>1, <1>2, <1>4 DEF Types, CallTypes
<1>7. \A c \in Everyone : call[c].kind \in {"idle", "watch"}
    BY <1>1 DEF TelemetryInv, CallInv, Everyone
<1>8. \A c \in Everyone : call'[c].kind \in {"idle", "watch", "sweep"}
                          /\ (call'[c].kind # "sweep" => call'[c] = call[c] /\ c \notin Monitored)
    BY <1>4, <1>5, <1>7
<1>9. Types'
    <2>1. stop' \subseteq Generations
        BY <1>1, <1>2, <1>3 DEF Types, WorkerTypes
    <2> QED
        BY <1>1, <1>2, <1>6, <2>1 DEF Types, WorkerTypes, ListTypes, DogTypes, CallTypes
<1>10. \A g \in Generations : GenInv(g)'
    BY <1>1, WorkersRest
<1>11. ASSUME NEW h \in Hosts PROVE MonitorInv(h)' /\ HostInv(h)'
    <2>1. MonitorInv(h) /\ HostInv(h) /\ Connection(h)' = Connection(h)
        BY <1>1 DEF TelemetryInv, Connection
    <2>2. NoWatch(h) => NoWatch(h)'
        BY <1>8 DEF NoWatch
    <2>3. MonitorInv(h)'
        BY <1>1, <2>1 DEF MonitorInv
    <2>4. HostInv(h)'
        BY <1>1, <2>1, <2>2 DEF HostInv
    <2> QED
        BY <2>3, <2>4
<1>12. ASSUME NEW c \in Everyone PROVE CallInv(c)'
    <2>1. CallInv(c)
        BY DEF TelemetryInv
    <2>2. "kill" \in StepsOf["sweep"] /\ "kill" \notin Held /\ "kill" \in Stopping
        BY StepsAre DEF Held, Stopping
    <2>3. CASE c \in Monitored
        <3>1. call'[c].kind = "sweep" /\ call'[c].host = c /\ call'[c].pc = "kill" /\ call'[c].gen = monitors[c]
            BY <1>4, <1>5, <2>3
        <3>2. StopInv(c)'
            <4>1. monitors[c] \in stop' /\ host[monitors[c]] = c /\ host' = host
                BY <1>1, <1>3, <2>3
            <4> QED
                BY <3>1, <4>1 DEF StopInv
        <3>3. DeleteInv(c)' /\ DogInv(c)'
            BY <2>2, <3>1 DEF DeleteInv, DogInv
        <3> QED
            BY <1>1, <1>3, <2>2, <2>3, <3>1, <3>2, <3>3 DEF CallInv
    <2>4. CASE c \notin Monitored
        <3>1. call'[c] = call[c] /\ call[c].kind \in {"idle", "watch"}
            BY <1>5, <1>7, <2>4
        <3>2. call[c].pc \notin Stopping
            BY <3>1, KindIs
        <3>3. StopInv(c)' /\ DeleteInv(c)'
            BY <3>1, <3>2 DEF StopInv, DeleteInv
        <3>4. \A d \in Everyone : call'[d].pc \in Held => call'[d] = call[d]
            BY <1>4, <1>5, <2>2
        <3>5. DogInv(c) /\ Connection(call[c].host)' = Connection(call[c].host)
            BY <1>1, <2>1, <3>1 DEF CallInv, Connection
        <3>6. DogInv(c)'
            BY <1>1, <3>1, <3>4, <3>5 DEF DogInv
        <3> QED
            BY <1>1, <2>1, <3>1, <3>3, <3>6 DEF CallInv
    <2> QED
        BY <2>3, <2>4
<1> QED
    BY <1>9, <1>10, <1>11, <1>12 DEF TelemetryInv

\* The end of shutdown: no watchdog is tracked any more.
LEMMA ShutdownIsOver ==
    ASSUME TelemetryInv, ShutdownEnds
    PROVE  TelemetryInv'
<1>1. /\ shutting = "yes" /\ shutting' \in {"done", "cut short"} /\ watchdogs' = [h \in Hosts |-> Untracked]
      /\ UNCHANGED <<pc, host, used, child, slot, stop, refused, monitors, history, sequence, saved, version,
                     operations, session, unsure, process, call>>
    BY DEF ShutdownEnds, workerVars, listVars, savedVars
<1>2. Types
    BY DEF TelemetryInv
<1>3. Types'
    BY <1>1, <1>2 DEF Types, WorkerTypes, ListTypes, DogTypes, CallTypes, Dogs
<1>4. \A g \in Generations : GenInv(g)'
    BY <1>1, WorkersRest
<1>5. ASSUME NEW h \in Hosts PROVE MonitorInv(h)' /\ HostInv(h)'
    <2>1. MonitorInv(h) /\ HostInv(h) /\ (NoWatch(h)' <=> NoWatch(h)) /\ watchdogs'[h] = Untracked
        BY <1>1 DEF TelemetryInv, NoWatch
    <2>2. MonitorInv(h)'
        BY <1>1, <2>1 DEF MonitorInv
    <2>3. HostInv(h)'
        BY <1>1, <2>1 DEF HostInv
    <2> QED
        BY <2>2, <2>3
<1>6. ASSUME NEW c \in Everyone PROVE CallInv(c)'
    <2>1. CallInv(c) /\ call[c].kind # "delete"
        BY <1>1 DEF TelemetryInv, CallInv, DeleteInv
    <2>2. StopInv(c)' /\ DeleteInv(c)'
        BY <1>1, <2>1 DEF CallInv, StopInv, DeleteInv
    <2>3. Connection(call[c].host)' = Connection(call[c].host)
        BY <1>1 DEF Connection
    <2>4. DogInv(c)'
        BY <1>1, <2>1, <2>3 DEF CallInv, DogInv
    <2> QED
        BY <1>1, <2>1, <2>2, <2>4 DEF CallInv
<1> QED
    BY <1>3, <1>4, <1>5, <1>6 DEF TelemetryInv

-----------------------------------------------------------------------------
(* The theorems.                                                           *)

\* The service starts with nothing listed, in progress or running.
LEMMA InitInv == Init => TelemetryInv
<1> SUFFICES ASSUME Init PROVE TelemetryInv
    OBVIOUS
<1>1. /\ saved = [h \in Hosts |-> "saved"] /\ version = [h \in Hosts |-> 0]
      /\ monitors = [h \in Hosts |-> 0] /\ history = [h \in Hosts |-> <<>>] /\ sequence = 0
      /\ pc = [g \in Generations |-> "unused"] /\ host = [g \in Generations |-> None]
      /\ used = [g \in Generations |-> <<>>] /\ child = [g \in Generations |-> None]
      /\ slot = {} /\ stop = {}
      /\ watchdogs = [h \in Hosts |-> Untracked] /\ operations = [h \in Hosts |-> Untracked]
      /\ session \in [Hosts -> {None, "foreign"}]
      /\ call = [c \in Everyone |-> Idle]
      /\ process = [h \in Hosts |-> <<h, 0>>] /\ shutting = "no"
    BY DEF Init, Everyone
<1>2. Types
    <2>1. WorkerTypes
        BY <1>1 DEF WorkerTypes, Stages, Dogs, Untracked
    <2>2. ListTypes
        <3>1. <<>> \in Seq(Nat)
            OBVIOUS
        <3> QED
            BY <1>1, <3>1 DEF ListTypes
    <2>3. DogTypes
        BY <1>1 DEF DogTypes, Dogs
    <2>4. CallTypes
        BY <1>1, IdleIsCall DEF CallTypes
    <2> QED
        BY <2>1, <2>2, <2>3, <2>4 DEF Types
<1>3. ASSUME NEW g \in Generations PROVE GenInv(g)
    <2>1. pc[g] = "unused" /\ host[g] = None /\ child[g] = None /\ g \notin slot /\ None \notin Hosts
        BY <1>1, Constants
    <2> QED
        BY <2>1 DEF GenInv, Unfinished, Living, None
<1>4. \A c \in Everyone : call[c] = Idle
    BY <1>1
<1>5. ASSUME NEW h \in Hosts PROVE MonitorInv(h) /\ HostInv(h)
    <2>1. monitors[h] = 0 /\ watchdogs[h] = Untracked /\ session[h] # "ours" /\ saved[h] = "saved"
        BY <1>1 DEF None
    <2> QED
        BY <2>1 DEF MonitorInv, HostInv
<1>6. ASSUME NEW c \in Everyone PROVE CallInv(c)
    <2>1. call[c].kind = "idle" /\ call[c].pc = "idle"
        BY <1>4, IdleIsQuiet
    <2>2. "idle" \notin Stopping \cup Held /\ "idle" \in StepsOf["idle"]
        BY StepsAre DEF Stopping, Held
    <2> QED
        BY <2>1, <2>2 DEF CallInv, StopInv, DeleteInv, DogInv
<1> QED
    BY <1>2, <1>3, <1>5, <1>6 DEF TelemetryInv

\* The steps of a worker.
LEMMA WorkersKeep == ASSUME TelemetryInv, NEW g \in Generations, Worker(g) PROVE TelemetryInv'
<1>1. CASE Announce(g)
    <2>1. CASE pc' = [pc EXCEPT ![g] = "top"] /\ UNCHANGED monitors
        BY <1>1, <2>1, LoopGoesOn
    <2>2. CASE pc' = [pc EXCEPT ![g] = "never"] /\ monitors' = [monitors EXCEPT ![host[g]] = 0]
        BY <1>1, <2>2, WorkerLeavesOrSamples
    <2> QED
        BY <1>1, <2>1, <2>2 DEF Announce
<1>2. CASE Connect(g) \/ Place(g) \/ Feed(g)
    BY <1>2, CollectorStarts
<1>3. CASE StreamEnds(g) \/ Take(g) \/ KillTaken(g) \/ Reap(g)
    BY <1>3, CollectorEnds
<1>4. CASE Conclude(g) \/ ChildExits(g)
    BY <1>4, LoopGoesOn
<1>5. CASE WorkerEnds(g) \/ Sample(g)
    BY <1>5, WorkerLeavesOrSamples
<1> QED
    BY <1>1, <1>2, <1>3, <1>4, <1>5 DEF Worker

\* The steps of a call.
LEMMA CallsKeep == ASSUME TelemetryInv, NEW c \in Everyone, Request(c) PROVE TelemetryInv'
<1>1. CASE RemoveHost(c)
    <2>1. call[c].host \in Hosts
        BY <1>1, KindIs DEF RemoveHost
    <2> PICK h \in Hosts : h = call[c].host
        BY <2>1
    <2> QED
        BY <1>1, StopCalls
<1>2. CASE KillChild(c) \/ WorkerFinished(c) \/ CleanUp(c) \/ StopEnds(c)
    BY <1>2, ChildIsKilled, WorkerIsAwaited, ChildIsCleanedUp, StopIsOver
<1>3. CASE RemoveDog(c) \/ Forget(c)
    BY <1>3, DogIsRemoved, HostIsForgotten
<1>4. CASE ReserveWatchdogOperation(c) \/ VerifyProfile(c) \/ AcquireBtopPermit(c)
    BY <1>4, OperationIsReserved, StartIsPermitted
<1>5. CASE RunBtopStart(c) \/ PassGate(c) \/ InspectBtop(c) \/ StopBtop(c)
    BY <1>5, BtopStarts, BtopIsInspected, BtopStops
<1>6. CASE SendSignal(c)
    BY <1>6, SignalIsSent
<1> QED
    BY <1>1, <1>2, <1>3, <1>4, <1>5, <1>6 DEF Request

\* Every step of the registry, of its callers and of the remote side.
LEMMA NextInv == TelemetryInv /\ [Next]_vars => TelemetryInv'
<1> SUFFICES ASSUME TelemetryInv, [Next]_vars PROVE TelemetryInv'
    OBVIOUS
<1>1. DOMAIN call = Everyone /\ Callers \subseteq Everyone /\ process \in [Hosts -> Hosts \X Nat]
    BY DEF TelemetryInv, Types, CallTypes, Everyone
<1>2. CASE \E g \in Generations : Worker(g) \/ \E h \in Hosts : StartMonitor(h, g)
    BY <1>2, WorkersKeep, MonitorStarts
<1>3. CASE \E c \in DOMAIN call : Request(c)
    BY <1>1, <1>3, CallsKeep
<1>4. CASE \E c \in Callers, h \in Hosts : AskStop(c, h)
    BY <1>1, <1>4, StopCalls
<1>5. CASE \E c \in Callers, h \in Hosts : AskDelete(c, h)
    BY <1>5, DeletionBegins
<1>6. CASE \E c \in Callers, h \in Hosts :
              \/ AskWatch(c, h) \/ AskUnwatch(c, h)
              \/ \E kind \in {"TERM", "KILL"}, n \in 0..process[h][2] : AskSignal(c, h, kind, n)
    BY <1>6, RequestsBegin
<1>7. CASE \E h \in Hosts : SaveHost(h) \/ SessionChanges(h) \/ ProcessChanges(h) \/ SweepDog(h)
    BY <1>7, HostIsSaved, SessionsChange, ProcessesChange
<1>8. CASE TermExpires \/ Shutdown \/ ShutdownEnds
    BY <1>8, ProcessesChange, ShutdownBegins, ShutdownIsOver
<1>9. CASE UNCHANGED vars
    <2>1. process' \in [Hosts -> Hosts \X Nat]
        BY <1>1, <1>9 DEF vars, signalVars
    <2>2. UNCHANGED <<savedVars, listVars, workerVars, dogVars, call, shutting>>
        BY <1>9 DEF vars, endVars
    <2> QED
        BY <2>1, <2>2, RemoteSide
<1> QED
    BY <1>2, <1>3, <1>4, <1>5, <1>6, <1>7, <1>8, <1>9 DEF Next

\* The invariant holds throughout.
LEMMA AlwaysInv == Spec => []TelemetryInv
BY InitInv, NextInv, PTL DEF Spec

\* The four properties follow from the invariant.
LEMMA InvImplies ==
    ASSUME TelemetryInv
    PROVE  CollectorsAreOwned /\ StopReachesTheChild /\ GoneHostIsQuiet /\ ConnectionsAreSaved
<1>1. CollectorsAreOwned
    <2> SUFFICES ASSUME NEW g \in Generations, child[g] \in Living
                 PROVE  pc[g] \in {"place", "wait"} \/ (g \in slot /\ monitors[host[g]] = g)
        BY DEF CollectorsAreOwned, Living
    <2> QED
        BY DEF TelemetryInv, GenInv
<1>2. StopReachesTheChild
    <2> SUFFICES ASSUME NEW c \in DOMAIN call, call[c].pc = "wait", pc[call[c].gen] = "read",
                        child[call[c].gen] = "running"
                 PROVE  call[c].gen \in refused
        BY DEF StopReachesTheChild
    <2>1. c \in Everyone
        BY DEF TelemetryInv, Types, CallTypes
    <2> QED
        BY <2>1 DEF TelemetryInv, CallInv, StopInv, Stopping
<1>3. GoneHostIsQuiet
    <2> SUFFICES ASSUME NEW h \in Hosts, saved[h] = "gone"
                 PROVE  /\ monitors[h] = 0 /\ history[h] = <<>>
                        /\ watchdogs[h] = Untracked
                        /\ \A c \in Permitted : call[c].host = h => call[c].kind # "watch"
                        /\ session[h] = "ours" => h \in unsure
                        /\ \A g \in Generations :
                             host[g] = h => ~Unfinished(g) /\ child[g] \notin {"running", "dying"}
        BY DEF GoneHostIsQuiet
    <2>1. monitors[h] = 0 /\ history[h] = <<>> /\ watchdogs[h] = Untracked /\ NoWatch(h)
          /\ (session[h] = "ours" => h \in unsure)
        BY DEF TelemetryInv, MonitorInv, HostInv
    <2>2. \A c \in Permitted : call[c].host = h => call[c].kind # "watch"
        BY <2>1 DEF Permitted, NoWatch, TelemetryInv, Types, CallTypes
    <2>3. ASSUME NEW g \in Generations, host[g] = h
          PROVE  ~Unfinished(g) /\ child[g] \notin Living
        <3>1. GenInv(g) /\ 0 \notin Generations
            BY Constants DEF TelemetryInv
        <3>2. ~Unfinished(g) /\ g \notin slot
            BY <2>1, <2>3, <3>1 DEF GenInv
        <3> QED
            BY <3>1, <3>2 DEF GenInv, Unfinished
    <2> QED
        BY <2>1, <2>2, <2>3 DEF Living
<1>4. ConnectionsAreSaved
    BY DEF ConnectionsAreSaved, TelemetryInv, GenInv, HostInv, Living
<1> QED
    BY <1>1, <1>2, <1>3, <1>4

\* Every collector process that lives is with its worker or in the slot of a listed
\* monitor, where a stop reaches it.
THEOREM EveryCollectorIsOwned == Spec => []CollectorsAreOwned
BY AlwaysInv, InvImplies, PTL

\* A stop that waits for a worker has killed the child it reads from, unless the
\* operating system refused that very kill, however the kill and the placement of the
\* child in the slot interleave.
THEOREM NoStopMissesTheChild == Spec => []StopReachesTheChild
BY AlwaysInv, InvImplies, PTL

\* Nothing of the registry outlives the removal of its host: no monitor, worker,
\* collector, sample or watchdog, and no start of one.
THEOREM NothingOutlivesItsHost == Spec => []GoneHostIsQuiet
BY AlwaysInv, InvImplies, PTL

\* No edit of a host changes the connection under a collector or a watchdog.
THEOREM NoEditMovesAConnection == Spec => []ConnectionsAreSaved
BY AlwaysInv, InvImplies, PTL

===============================================================================
