------------------------------ MODULE Lifecycle ------------------------------
(***************************************************************************)
(* One service per data directory: RuntimeGuard of apps/server/src/        *)
(* lifecycle.rs on Windows, with run, existing and shutdown_server of      *)
(* main.rs around it.                                                      *)
(*                                                                         *)
(* Every launch is a process that takes the named mutex or hands its       *)
(* request over to the service that the runtime descriptor names.  The     *)
(* mutex is an object of the system: it exists while some process has a    *)
(* handle to it, and the end of a process closes its handles.  Its name is *)
(* made from the path of the data directory as it is given, and belongs to *)
(* the session of the user: launches are those of one session that give    *)
(* the directory by one path.                                              *)
(*                                                                         *)
(* The control token, drawn anew by every service, is the launch itself.   *)
(* A process identifier may be given to another program later.  `busy` is  *)
(* the work that a service admits and that may write its data, with all    *)
(* that AppContext starts; Requests, Store and the registries say what it  *)
(* is.  Left out: the port, the launch file, the browser, the window for   *)
(* older installations, the POSIX lock file (which the source reserves for *)
(* tests) and the text of the shutdown report.                             *)
(***************************************************************************)
EXTENDS Naturals, FiniteSets

CONSTANTS
    Launches,  \* processes started by the user or at login
    Pids,      \* process identifiers
    Kind,      \* what each launch asks for: "open", "quiet" or "stop"
    Faults     \* which of AllFaults happen

AllFaults == {"crash", "reuse", "fail", "slow", "remove"}
None == "none"

ASSUME LifecycleAssumption ==
    /\ Kind \in [Launches -> {"open", "quiet", "stop"}]
    /\ Faults \subseteq AllFaults
    /\ None \notin Launches \cup Pids

VARIABLES
    pc,         \* how far a launch is
    pid,        \* its process identifier
    handles,    \* launches with a handle to the mutex
    descriptor, \* the launch whose token runtime.json holds, or None
    seen,       \* the descriptor that a launch has read
    published,  \* published_token: launches that have published
    busy,       \* services with work that may write
    late,       \* those whose work outlived the waits of the shutdown
    asked,      \* services whose stop was requested
    foreign,    \* identifiers that other programs have
    excused     \* launches that crashed or could not remove their descriptor

vars == <<pc, pid, handles, descriptor, seen, published, busy, late, asked, foreign, excused>>

Idle    == {"new", "done"}
Running == {p \in Launches : pc[p] \notin Idle}

Init ==
    /\ pc = [p \in Launches |-> "new"]
    /\ pid = [p \in Launches |-> None]
    /\ handles = {}
    /\ descriptor = None
    /\ seen = [p \in Launches |-> None]
    /\ published = {} /\ busy = {} /\ late = {} /\ asked = {}
    /\ foreign = {} /\ excused = {}

Goto(p, there) == pc' = [pc EXCEPT ![p] = there]

\* The process identifiers in use.
Taken == foreign \cup {pid[p] : p \in Running}

\* is_process_alive of the process identifier in the descriptor of d.
Alive(d) == pid[d] \in Taken

\* A launch ends, and what it knows with it.
Ends(p) == Goto(p, "done") /\ seen' = [seen EXCEPT ![p] = None]

-----------------------------------------------------------------------------
(* RuntimeGuard::acquire.                                                  *)

\* Faulty acquisition: ERROR_ALREADY_EXISTS is not looked at.
AcquireAnyway(p) ==
    /\ pc[p] = "new"
    /\ \E i \in Pids \ Taken : pid' = [pid EXCEPT ![p] = i]
    /\ handles' = handles \cup {p}
    /\ Goto(p, "clean")
    /\ UNCHANGED <<descriptor, seen, published, busy, late, asked, foreign, excused>>

\* A process starts and calls CreateMutexW; the mutex exists already or is new.
Acquire(p) ==
    /\ pc[p] = "new"
    /\ \E i \in Pids \ Taken : pid' = [pid EXCEPT ![p] = i]
    /\ handles' = handles \cup {p}
    /\ Goto(p, IF handles = {} THEN "clean" ELSE "existing")
    /\ UNCHANGED <<descriptor, seen, published, busy, late, asked, foreign, excused>>

\* The handle to an existing mutex is closed.
CloseExisting(p) ==
    /\ pc[p] = "existing"
    /\ handles' = handles \ {p}
    /\ Goto(p, "lookup")
    /\ UNCHANGED <<pid, descriptor, seen, published, busy, late, asked, foreign, excused>>

\* read_runtime_descriptor, by a launch that found the mutex or a new service.
ReadDescriptor(p) ==
    /\ pc[p] \in {"lookup", "clean"}
    /\ seen' = [seen EXCEPT ![p] = descriptor]
    /\ Goto(p, IF pc[p] = "lookup" THEN "found" ELSE "stale")
    /\ UNCHANGED <<pid, handles, descriptor, published, busy, late, asked, foreign, excused>>

\* No descriptor, or that of a dead process: LegacyInstanceRunning.  A launch
\* that is to open nothing ends with success; the others call the service.
Discover(p) ==
    /\ pc[p] = "found"
    /\ IF seen[p] # None /\ Alive(seen[p]) /\ Kind[p] # "quiet"
         THEN Goto(p, "call") /\ UNCHANGED seen
         ELSE Ends(p)
    /\ UNCHANGED <<pid, handles, descriptor, published, busy, late, asked, foreign, excused>>

\* cleanup_stale_descriptor.  A descriptor whose process seems alive ends the
\* launch with RuntimeDescriptorConflict, one that cannot be read or removed and
\* a window that cannot be created with their errors; a launch to stop ends here
\* as well.
CleanupStale(p) ==
    /\ pc[p] = "stale"
    /\ LET conflict == seen[p] # None /\ Alive(seen[p]) IN
       \/ /\ ~conflict
          /\ descriptor' = None
          /\ Goto(p, IF Kind[p] = "stop" THEN "unlock" ELSE "open")
       \/ /\ conflict \/ "fail" \in Faults
          /\ Goto(p, "unlock")
          /\ UNCHANGED descriptor
    /\ UNCHANGED <<pid, handles, seen, published, busy, late, asked, foreign, excused>>

-----------------------------------------------------------------------------
(* The request of a second launch.                                         *)

\* Services that accept HTTP requests.
Answering == {q \in Launches : pc[q] = "serve"}

\* The service with the token answers: /internal/stop asks it to stop, a
\* request to open does nothing here.
CallAnswered(p) ==
    /\ pc[p] = "call"
    /\ seen[p] \in Answering
    /\ asked' = IF Kind[p] = "stop" THEN asked \cup {seen[p]} ELSE asked
    /\ Ends(p)
    /\ UNCHANGED <<pid, handles, descriptor, published, busy, late, foreign, excused>>

\* The service is not there (any more, or yet), or does not answer in time.
CallFails(p) ==
    /\ pc[p] = "call"
    /\ seen[p] \notin Answering \/ "slow" \in Faults
    /\ Ends(p)
    /\ UNCHANGED <<pid, handles, descriptor, published, busy, late, asked, foreign, excused>>

-----------------------------------------------------------------------------
(* The service.                                                            *)

\* The port is bound and AppContext::open has read the data: from here on there
\* is work that may write it.
Open(p) ==
    /\ pc[p] = "open"
    /\ busy' = busy \cup {p}
    /\ Goto(p, "publish")
    /\ UNCHANGED <<pid, handles, descriptor, seen, published, late, asked, foreign, excused>>

\* The port or the data cannot be opened: run returns and drops the guard.
OpenFails(p) ==
    /\ "fail" \in Faults
    /\ pc[p] = "open"
    /\ Goto(p, "drop")
    /\ UNCHANGED <<pid, handles, descriptor, seen, published, busy, late, asked, foreign, excused>>

\* RuntimeGuard::publish replaces the descriptor; the service starts.
Publish(p) ==
    /\ pc[p] = "publish"
    /\ descriptor' = p
    /\ published' = published \cup {p}
    /\ Goto(p, "serve")
    /\ UNCHANGED <<pid, handles, seen, busy, late, asked, foreign, excused>>

\* publish fails and leaves the file as it was: the service is shut down.
PublishFails(p) ==
    /\ "fail" \in Faults
    /\ pc[p] = "publish"
    /\ Goto(p, "drain")
    /\ UNCHANGED <<pid, handles, descriptor, seen, published, busy, late, asked, foreign, excused>>

\* While it is served, work comes and goes.
Work(p) ==
    /\ pc[p] = "serve"
    /\ busy' = IF p \in busy THEN busy \ {p} ELSE busy \cup {p}
    /\ UNCHANGED <<pc, pid, handles, descriptor, seen, published, late, asked, foreign, excused>>

\* request_stop closes the admission: after a stop request or Ctrl-C, or because
\* the browser or the launch file failed or the HTTP service ended.
Stop(p) ==
    /\ pc[p] = "serve"
    /\ p \in asked
    /\ Goto(p, "drain")
    /\ UNCHANGED <<pid, handles, descriptor, seen, published, busy, late, asked, foreign, excused>>

\* Faulty end after an error: run returns at once, as with `?`.
ServiceFailsAtOnce(p) ==
    /\ "fail" \in Faults
    /\ pc[p] = "serve"
    /\ Goto(p, "drop")
    /\ UNCHANGED <<pid, handles, descriptor, seen, published, busy, late, asked, foreign, excused>>

ServiceFails(p) ==
    /\ "fail" \in Faults
    /\ pc[p] = "serve"
    /\ Goto(p, "drain")
    /\ UNCHANGED <<pid, handles, descriptor, seen, published, busy, late, asked, foreign, excused>>

\* Work that was admitted ends by itself or is cancelled.
WorkEnds(p) ==
    /\ pc[p] = "drain"
    /\ p \in busy
    /\ busy' = busy \ {p}
    /\ UNCHANGED <<pc, pid, handles, descriptor, seen, published, late, asked, foreign, excused>>

\* Faulty shutdown: it waits until all work has ended.
DrainedWhenever(p) ==
    /\ pc[p] = "drain"
    /\ p \notin busy
    /\ Goto(p, "drop")
    /\ UNCHANGED <<pid, handles, descriptor, seen, published, busy, late, asked, foreign, excused>>

\* shutdown_server returns: the work has ended, or each of its waits (for the
\* requests, the operations, the resources and the HTTP service) its limit.
Drained(p) ==
    /\ pc[p] = "drain"
    /\ p \in busy => "slow" \in Faults
    /\ late' = IF p \in busy THEN late \cup {p} ELSE late
    /\ Goto(p, "drop")
    /\ UNCHANGED <<pid, handles, descriptor, seen, published, busy, asked, foreign, excused>>

-----------------------------------------------------------------------------
(* RuntimeGuard::drop and the end of the process.                          *)

\* The descriptor is read if this launch has published one.
DropReads(p) ==
    /\ pc[p] = "drop"
    /\ seen' = [seen EXCEPT ![p] = IF p \in published THEN descriptor ELSE None]
    /\ Goto(p, "remove")
    /\ UNCHANGED <<pid, handles, descriptor, published, busy, late, asked, foreign, excused>>

\* It is removed if it has the identifier and the token of this launch.
DropRemoves(p) ==
    /\ pc[p] = "remove"
    /\ IF seen[p] = p
         THEN \/ descriptor' = None /\ UNCHANGED excused
              \/ "remove" \in Faults /\ excused' = excused \cup {p} /\ UNCHANGED descriptor
         ELSE UNCHANGED <<descriptor, excused>>
    /\ Goto(p, "unlock")
    /\ UNCHANGED <<pid, handles, seen, published, busy, late, asked, foreign>>

\* The mutex is released; the runtime waits for what is left, at most two
\* seconds.
Unlock(p) ==
    /\ pc[p] = "unlock"
    /\ handles' = handles \ {p}
    /\ Goto(p, "exit")
    /\ UNCHANGED <<pid, descriptor, seen, published, busy, late, asked, foreign, excused>>

\* The process exits, and the system ends and closes what it still has.
Exit(p) ==
    /\ pc[p] = "exit"
    /\ Ends(p)
    /\ busy' = busy \ {p}
    /\ published' = published \ {p}
    /\ UNCHANGED <<pid, handles, descriptor, late, asked, foreign, excused>>

\* It crashes, or is killed.
Crash(p) ==
    /\ "crash" \in Faults
    /\ p \in Running
    /\ Ends(p)
    /\ handles' = handles \ {p}
    /\ busy' = busy \ {p}
    /\ published' = published \ {p}
    /\ excused' = excused \cup {p}
    /\ UNCHANGED <<pid, descriptor, late, asked, foreign>>

\* A user asks a service to stop from its page.
AskStop(p) ==
    /\ pc[p] = "serve"
    /\ p \notin asked
    /\ asked' = asked \cup {p}
    /\ UNCHANGED <<pc, pid, handles, descriptor, seen, published, busy, late, foreign, excused>>

\* Another program gets the identifier that the descriptor names, or ends.
Reuse(i) ==
    /\ "reuse" \in Faults
    /\ i \notin {pid[p] : p \in Running}
    /\ i \in foreign \cup {pid[d] : d \in {descriptor} \ {None}}
    /\ foreign' = IF i \in foreign THEN foreign \ {i} ELSE foreign \cup {i}
    /\ UNCHANGED <<pc, pid, handles, descriptor, seen, published, busy, late, asked, excused>>

-----------------------------------------------------------------------------
\* The steps of a process that was started.
ProcessStep(p) ==
    \/ CloseExisting(p) \/ ReadDescriptor(p) \/ Discover(p) \/ CleanupStale(p)
    \/ CallAnswered(p) \/ CallFails(p)
    \/ Open(p) \/ OpenFails(p) \/ Publish(p) \/ PublishFails(p)
    \/ Stop(p) \/ Drained(p)
    \/ DropReads(p) \/ DropRemoves(p) \/ Unlock(p) \/ Exit(p)

Next ==
    \/ \E p \in Launches :
          \/ Acquire(p) \/ ProcessStep(p)
          \/ Work(p) \/ AskStop(p) \/ ServiceFails(p) \/ WorkEnds(p) \/ Crash(p)
    \/ \E i \in Pids : Reuse(i)

\* A process that was started goes on; its waits have limits, so this assumes
\* nothing of the work of a service.
Fairness == \A p \in Launches : WF_vars(ProcessStep(p))

Spec == Init /\ [][Next]_vars /\ Fairness

-----------------------------------------------------------------------------
(* Properties.                                                             *)

\* Every variable has its type.
TypeOK ==
    /\ pc \in [Launches -> Idle \cup {"existing", "lookup", "found", "call", "clean", "stale",
                                      "open", "publish", "serve", "drain", "drop", "remove",
                                      "unlock", "exit"}]
    /\ pid \in [Launches -> Pids \cup {None}]
    /\ descriptor \in Launches \cup {None}
    /\ seen \in [Launches -> Launches \cup {None}]
    /\ {handles, published, busy, late, asked, excused} \subseteq SUBSET Launches
    /\ foreign \subseteq Pids

\* A service that serves can be found: the descriptor is its own, whatever other
\* launches clean up or remove.  The descriptor of a service that has ended
\* remains only after a crash or a failed removal (RuntimeGuard).
DescriptorIsTrue ==
    /\ \A p \in Launches : pc[p] = "serve" => descriptor = p
    /\ descriptor # None =>
          descriptor \in Running \cup excused

\* No two processes work on the same data directory: a service that gives up the
\* mutex, in order or after an error, has ended its work before, unless that
\* outlived every wait of shutdown_server.
SingleWriter == Cardinality(busy \ late) <= 1

\* A stop takes effect: the service that was asked gives up the data directory,
\* although its work may never end ("within a deadline", docs/architecture.md).
StopEnds == \A p \in Launches : p \in asked ~> p \notin handles

=============================================================================
