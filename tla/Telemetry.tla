----------------------------- MODULE Telemetry -----------------------------
(***************************************************************************)
(* TelemetryRegistry: the collector of a monitored host with its worker    *)
(* thread and ssh child, the owned btop watchdogs, TERM and KILL of a      *)
(* remote process, and what host deletion and shutdown do to them.         *)
(*                                                                         *)
(* A generation is one call of start: its worker runs collectors until it  *)
(* is stopped or gives up.  A call is a request in progress; the host h is *)
(* the caller of the stop that shutdown makes for h.                       *)
(***************************************************************************)
EXTENDS Naturals, FiniteSets, Sequences, SequencesExt

CONSTANTS
    Hosts,
    Via,            \* proxy_jump of each host, or None
    Callers,        \* bound: requests in progress
    Generations,    \* bound: 1..n, calls of start
    MaxMonitors,    \* 32
    MaxAttempts,    \* 8 reconnections
    MaxSamples,     \* samples kept of a host
    MaxSamplesAll,  \* 8192 samples kept of all hosts
    BtopPermits,    \* 8 concurrent btop commands
    MaxTerms,       \* 512 remembered TERMs
    AutoReconnect,  \* the setting
    Plans           \* bound: which requests and events there are, and how many

None == "none"
ASSUME TelemetryAssumption ==
    /\ IsFiniteSet(Hosts) /\ IsFiniteSet(Callers) /\ Hosts \cap Callers = {}
    /\ None \notin Hosts \cup Callers
    /\ Via \in [Hosts -> Hosts \cup {None}] /\ \A h \in Hosts : Via[h] # h
    /\ Generations = 1..Cardinality(Generations)
    /\ {MaxMonitors, MaxSamples, MaxSamplesAll, BtopPermits, MaxTerms} \subseteq Nat \ {0}
    /\ MaxAttempts \in Nat /\ AutoReconnect \in BOOLEAN

VARIABLES
    saved,      \* the repository: "saved", "deleting" or "gone"
    version,    \* of the saved connection settings
    monitors,   \* generation that is listed for each host, or 0
    status,     \* TelemetryStatus.state
    history,    \* sequence numbers of the samples kept
    sequence,   \* HistoryStore.next_sequence
    pc,         \* progress of each generation's worker
    host,       \* its host
    used,       \* connection settings of its latest collector
    child,      \* its ssh process
    slot,       \* generations whose child is in the handle's child slot
    stop,       \* generations that are asked to stop
    cleanup,    \* generations with a cleanup_error
    attempt,    \* reconnections
    refused,    \* history: generations whose child a stop could not kill
    watchdogs,  \* settings that each tracked watchdog was started with, or <<>>
    operations, \* settings of the reserved watchdog operation, or <<>>
    session,    \* the host's tmux session: None, "ours" or "foreign"
    call,       \* requests in progress
    terms,      \* term_attempts, oldest first
    process,    \* the remote process: <<host, incarnation>> of one pid
    termed,     \* history: processes that received TERM
    killed,     \* history: processes that received KILL
    shutting,   \* "no", "yes", "done" or "cut short"
    sweeping,   \* watchdogs that shutdown has yet to stop
    unsure,     \* history: hosts with a watchdog command whose answer was lost
    plan, left  \* the bound

workerVars == <<pc, host, used, child, slot, stop, cleanup, attempt, refused>>
listVars == <<monitors, status, history, sequence>>
dogVars == <<watchdogs, operations, session, unsure>>
signalVars == <<terms, process, termed, killed>>
endVars == <<shutting, sweeping>>
savedVars == <<saved, version>>
boundVars == <<plan, left>>
vars == <<savedVars, listVars, workerVars, dogVars, call, signalVars, endVars, boundVars>>

Untracked == <<>>
Idle == [kind |-> "idle", host |-> None, pc |-> "idle", gen |-> 0, dog |-> Untracked, id |-> <<>>]
Connection(h) == <<version[h], IF Via[h] = None THEN 0 ELSE version[Via[h]]>>
Uses(c, h) == c = h \/ Via[c] = h
Alive(g) == child[g] \in {"running", "dying", "left"}
Unfinished(g) == pc[g] \notin {"unused", "done", "never"}
Monitored == {h \in Hosts : monitors[h] # 0}
Permitted == {c \in DOMAIN call : call[c].pc \in {"run", "gate", "inspect", "gate again", "halt"}}

Event(k) == k \in plan.kinds /\ left > 0 /\ left' = left - 1 /\ UNCHANGED plan
NoEvent == UNCHANGED boundVars
Later(c, p) == call' = [call EXCEPT ![c].pc = p]

Init ==
    /\ saved = [h \in Hosts |-> "saved"] /\ version = [h \in Hosts |-> 0]
    /\ monitors = [h \in Hosts |-> 0] /\ status = [h \in Hosts |-> None]
    /\ history = [h \in Hosts |-> <<>>] /\ sequence = 0
    /\ pc = [g \in Generations |-> "unused"] /\ host = [g \in Generations |-> None]
    /\ used = [g \in Generations |-> <<>>] /\ child = [g \in Generations |-> None]
    /\ slot = {} /\ stop = {} /\ cleanup = {} /\ refused = {}
    /\ attempt = [g \in Generations |-> 0]
    /\ watchdogs = [h \in Hosts |-> Untracked] /\ operations = [h \in Hosts |-> Untracked]
    /\ session \in [Hosts -> {None, "foreign"}]
    /\ call = [c \in Callers \cup Hosts |-> Idle]
    /\ terms = <<>> /\ process = [h \in Hosts |-> <<h, 0>>] /\ termed = {} /\ killed = {}
    /\ shutting = "no" /\ sweeping = {} /\ unsure = {}
    /\ plan \in Plans /\ left = plan.events
    /\ "foreign" \in plan.kinds \/ session = [h \in Hosts |-> None]

-----------------------------------------------------------------------------
(* The history of samples.                                                 *)

\* The host whose oldest sample is the oldest of all.
OldestHost(hist) ==
    CHOOSE h \in Hosts : /\ hist[h] # <<>>
                         /\ \A o \in Hosts : hist[o] # <<>> => hist[h][1] <= hist[o][1]
SampleCount(hist) == FoldSet(LAMBDA h, n : n + Len(hist[h]), 0, Hosts)

\* HistoryStore::record: per host first, then over all hosts; one sample is
\* added at a time, so one at most is dropped by each limit.
Recorded(h) ==
    LET added == [history EXCEPT ![h] = Append(@, sequence)]
        own == IF Len(added[h]) > MaxSamples THEN [added EXCEPT ![h] = Tail(@)] ELSE added IN
    IF SampleCount(own) > MaxSamplesAll THEN [own EXCEPT ![OldestHost(own)] = Tail(@)] ELSE own

-----------------------------------------------------------------------------
(* start and the worker thread.                                            *)

\* start reads the profile under the lock of the monitors.
StartMonitor(h, g) ==
    /\ Event("start")
    /\ pc[g] = "unused" /\ (g > 1 => pc[g - 1] # "unused")
    /\ shutting = "no"
    /\ saved[h] = "saved"
    /\ monitors[h] = 0 /\ Cardinality(Monitored) < MaxMonitors
    /\ monitors' = [monitors EXCEPT ![h] = g]
    /\ host' = [host EXCEPT ![g] = h]
    /\ pc' = [pc EXCEPT ![g] = "new"]
    /\ UNCHANGED <<status, history, sequence, used, child, slot, stop, cleanup, attempt, refused,
                   dogVars, call, signalVars, endVars, savedVars>>

\* The rest of start: the first status and the thread, which may not be created.
Announce(g) ==
    /\ pc[g] = "new"
    /\ \/ /\ NoEvent
          /\ pc' = [pc EXCEPT ![g] = "top"]
          /\ status' = [status EXCEPT ![host[g]] = "starting"]
          /\ UNCHANGED monitors
       \/ /\ Event("no thread")
          /\ pc' = [pc EXCEPT ![g] = "never"]
          /\ status' = [status EXCEPT ![host[g]] = "failed"]
          /\ monitors' = [monitors EXCEPT ![host[g]] = 0]
    /\ UNCHANGED <<history, sequence, host, used, child, slot, stop, cleanup, attempt, refused,
                   dogVars, call, signalVars, endVars, savedVars>>

\* The head of the loop, and run_collector until its child exists.
Connect(g) ==
    /\ pc[g] = "top"
    /\ IF g \in stop
       THEN NoEvent /\ pc' = [pc EXCEPT ![g] = "end"] /\ UNCHANGED <<used, child>>
       ELSE IF saved[host[g]] # "saved"
       THEN NoEvent /\ pc' = [pc EXCEPT ![g] = "after"] /\ UNCHANGED <<used, child>>
       ELSE \/ /\ NoEvent
               /\ pc' = [pc EXCEPT ![g] = "place"]
               /\ used' = [used EXCEPT ![g] = Connection(host[g])]
               /\ child' = [child EXCEPT ![g] = "running"]
            \/ /\ Event("no ssh")
               /\ pc' = [pc EXCEPT ![g] = "after"]
               /\ UNCHANGED <<used, child>>
    /\ UNCHANGED <<host, slot, stop, cleanup, attempt, refused,
                   listVars, dogVars, call, signalVars, endVars, savedVars>>

Place(g) ==
    /\ pc[g] = "place"
    /\ slot' = slot \cup {g}
    /\ pc' = [pc EXCEPT ![g] = "check"]
    /\ UNCHANGED <<host, used, child, stop, cleanup, attempt, refused,
                   listVars, dogVars, call, signalVars, endVars, savedVars, boundVars>>

Killed(g) == IF child[g] = "running" THEN "dying" ELSE child[g]

\* The script is sent and the child killed if a stop came meanwhile, which may fail
\* without a word; when the script cannot be sent, terminate_child gives up on a child
\* that survives its kill.
Feed(g) ==
    /\ pc[g] = "check"
    /\ \/ /\ NoEvent
          /\ child' = [child EXCEPT ![g] = IF g \in stop THEN Killed(g) ELSE @]
          /\ pc' = [pc EXCEPT ![g] = IF g \in stop THEN "take" ELSE "read"]
          /\ UNCHANGED slot
       \/ /\ g \in stop /\ Event("no kill")
          /\ pc' = [pc EXCEPT ![g] = "take"]
          /\ UNCHANGED <<child, slot>>
       \/ /\ Event("no stdin")
          /\ slot' = slot \ {g}
          /\ child' = [child EXCEPT ![g] = IF @ = "exited" THEN "reaped" ELSE "left"]
          /\ pc' = [pc EXCEPT ![g] = "after"]
    /\ UNCHANGED <<host, used, stop, cleanup, attempt, refused,
                   listVars, dogVars, call, signalVars, endVars, savedVars>>

\* record_sample checks the stop flag and the generation under the lock of the
\* monitors, which it holds until the status is set.
Accepts(g) == g \notin stop /\ monitors[host[g]] = g

\* A line that parses is recorded; the next one is read unless a stop came.
Sample(g) ==
    /\ pc[g] = "read" /\ Alive(g)
    /\ Event("sample")
    /\ IF Accepts(g)
       THEN /\ history' = Recorded(host[g])
            /\ sequence' = sequence + 1
            /\ status' = [status EXCEPT ![host[g]] = "online"]
       ELSE UNCHANGED <<history, sequence, status>>
    /\ pc' = [pc EXCEPT ![g] = IF g \in stop THEN "take" ELSE "read"]
    /\ UNCHANGED <<monitors, host, used, child, slot, stop, cleanup, attempt, refused,
                   dogVars, call, signalVars, endVars, savedVars>>

\* The stream ends with the child, or earlier; or a line does not parse.
StreamEnds(g) ==
    /\ pc[g] = "read"
    /\ \/ ~Alive(g) /\ NoEvent
       \/ Event("closed")
       \/ Alive(g) /\ Event("malformed")
    /\ pc' = [pc EXCEPT ![g] = "take"]
    /\ UNCHANGED <<host, used, child, slot, stop, cleanup, attempt, refused,
                   listVars, dogVars, call, signalVars, endVars, savedVars>>

\* The child is taken out of the slot.
Take(g) ==
    /\ pc[g] = "take"
    /\ slot' = slot \ {g}
    /\ pc' = [pc EXCEPT ![g] = "wait"]
    /\ UNCHANGED <<host, used, child, stop, cleanup, attempt, refused,
                   listVars, dogVars, call, signalVars, endVars, savedVars, boundVars>>

\* It is killed at once after a stop or an error, and otherwise when it does not
\* end by itself; one that cannot be killed goes back to the slot.
KillTaken(g) ==
    /\ pc[g] = "wait" /\ child[g] = "running"
    /\ \/ /\ NoEvent
          /\ child' = [child EXCEPT ![g] = "dying"]
          /\ UNCHANGED <<pc, slot>>
       \/ /\ Event("no kill")
          /\ slot' = slot \cup {g}
          /\ pc' = [pc EXCEPT ![g] = "after"]
          /\ UNCHANGED child
    /\ UNCHANGED <<host, used, stop, cleanup, attempt, refused,
                   listVars, dogVars, call, signalVars, endVars, savedVars>>

\* The end of the child and of the stderr reader; a child that survives its
\* kill goes back to the slot.
Reap(g) ==
    /\ pc[g] = "wait"
    /\ pc' = [pc EXCEPT ![g] = "after"]
    /\ \/ /\ child[g] = "exited"
          /\ child' = [child EXCEPT ![g] = "reaped"]
          /\ \/ NoEvent /\ UNCHANGED cleanup
             \/ Event("stderr stays open") /\ cleanup' = cleanup \cup {g}
          /\ UNCHANGED slot
       \/ /\ child[g] = "dying" /\ Event("slow")
          /\ slot' = slot \cup {g}
          /\ UNCHANGED <<child, cleanup>>
    /\ UNCHANGED <<host, used, stop, attempt, refused,
                   listVars, dogVars, call, signalVars, endVars, savedVars>>

\* The rest of the loop: no new attempt while a child is pending.
Conclude(g) ==
    /\ pc[g] = "after"
    /\ IF g \in slot \/ g \in stop
       THEN /\ status' = [status EXCEPT ![host[g]] = IF g \in slot THEN "failed" ELSE @]
            /\ pc' = [pc EXCEPT ![g] = "end"]
            /\ UNCHANGED attempt
       ELSE LET retries == AutoReconnect /\ attempt[g] < MaxAttempts IN
            /\ attempt' = [attempt EXCEPT ![g] = @ + 1]
            /\ status' = [status EXCEPT ![host[g]] = IF retries THEN "degraded" ELSE "failed"]
            /\ pc' = [pc EXCEPT ![g] = IF retries THEN "top" ELSE "end"]
    /\ UNCHANGED <<monitors, history, sequence, host, used, child, slot, stop, cleanup, refused,
                   dogVars, call, signalVars, endVars, savedVars, boundVars>>

\* Mutant: an entry whose child was not reaped is taken out.
PendingError(g) == g \in cleanup

\* What keeps an entry: a child that was not reaped, or an error of the cleanup.
Pending(g) == g \in slot \/ g \in cleanup

\* The worker takes its entry out, unless its child is pending, and completes.
WorkerEnds(g) ==
    /\ pc[g] = "end"
    /\ IF ~Pending(g) /\ monitors[host[g]] = g
       THEN /\ monitors' = [monitors EXCEPT ![host[g]] = 0]
            /\ status' = [status EXCEPT ![host[g]] = IF g \in stop THEN "stopped" ELSE @]
       ELSE UNCHANGED <<monitors, status>>
    /\ pc' = [pc EXCEPT ![g] = "done"]
    /\ UNCHANGED <<history, sequence, host, used, child, slot, stop, cleanup, attempt, refused,
                   dogVars, call, signalVars, endVars, savedVars, boundVars>>

\* The operating system: a child that was killed exits; another may.
ChildExits(g) ==
    /\ \/ child[g] = "dying" /\ child' = [child EXCEPT ![g] = "exited"] /\ NoEvent
       \/ child[g] = "left" /\ child' = [child EXCEPT ![g] = "reaped"] /\ NoEvent
       \/ child[g] = "running" /\ child' = [child EXCEPT ![g] = "exited"] /\ Event("exit")
    /\ UNCHANGED <<pc, host, used, slot, stop, cleanup, attempt, refused,
                   listVars, dogVars, call, signalVars, endVars, savedVars>>

-----------------------------------------------------------------------------
(* stop, of a request, of a host deletion (remove_host) and of shutdown.   *)

\* A call of c for h begins to stop the host's monitor.
StopBegins(c, h, kind) ==
    LET g == monitors[h] IN
    /\ stop' = IF g = 0 THEN stop ELSE stop \cup {g}
    /\ call' = [call EXCEPT ![c] = [Idle EXCEPT !.kind = kind, !.host = h, !.gen = g,
                                                !.pc = IF g = 0 THEN "late" ELSE "kill"]]

AskStop(c, h) ==
    /\ Event("stop")
    /\ call[c] = Idle /\ shutting = "no" /\ saved[h] = "saved"
    /\ StopBegins(c, h, "stop")
    /\ UNCHANGED <<pc, host, used, child, slot, cleanup, attempt, refused,
                   listVars, dogVars, signalVars, endVars, savedVars>>

\* begin_host_deletion, and remove_host when the tunnels are stopped.
AskDelete(c, h) ==
    /\ Event("delete")
    /\ call[c] = Idle /\ shutting = "no" /\ saved[h] = "saved"
    /\ \A o \in Hosts : saved[o] # "gone" => Via[o] # h
    /\ saved' = [saved EXCEPT ![h] = "deleting"]
    /\ call' = [call EXCEPT ![c] = [Idle EXCEPT !.kind = "delete", !.host = h, !.pc = "begin"]]
    /\ UNCHANGED <<version, workerVars, listVars, dogVars, signalVars, endVars>>

RemoveHost(c) ==
    /\ call[c].pc = "begin"
    /\ StopBegins(c, call[c].host, "delete")
    /\ UNCHANGED <<pc, host, used, child, slot, cleanup, attempt, refused,
                   listVars, dogVars, signalVars, endVars, savedVars, boundVars>>

\* The call returns an error; a host deletion is aborted.
Refused(c) ==
    /\ call' = [call EXCEPT ![c] = Idle]
    /\ saved' = IF call[c].kind = "delete" THEN [saved EXCEPT ![call[c].host] = "saved"] ELSE saved
    /\ UNCHANGED version

\* Mutant: the call only waits.
KillForgotten(c) ==
    /\ call[c].pc = "kill" /\ Later(c, "wait")
    /\ UNCHANGED <<workerVars, listVars, dogVars, signalVars, endVars, savedVars, boundVars>>

\* request_monitor_child_kill, which may fail: stop keeps the error for its message.
\* Either way the call then waits for the completion.
KillChild(c) ==
    LET g == call[c].gen IN
    /\ call[c].pc = "kill"
    /\ \/ /\ NoEvent
          /\ child' = IF g \in slot THEN [child EXCEPT ![g] = Killed(g)] ELSE child
          /\ UNCHANGED refused
       \/ /\ g \in slot /\ child[g] = "running" /\ Event("no kill")
          /\ refused' = refused \cup {g}
          /\ UNCHANGED child
    /\ Later(c, "wait")
    /\ UNCHANGED <<pc, host, used, slot, stop, cleanup, attempt,
                   listVars, dogVars, signalVars, endVars, savedVars>>

WorkerFinished(c) ==
    /\ call[c].pc = "wait"
    /\ \/ pc[call[c].gen] = "done" /\ Later(c, "clean") /\ UNCHANGED savedVars /\ NoEvent
       \/ pc[call[c].gen] # "done" /\ Event("slow") /\ Refused(c)
    /\ UNCHANGED <<workerVars, listVars, dogVars, signalVars, endVars>>

\* cleanup_monitor_child, then the entry goes; a child that does not exit, or a
\* cleanup error, leaves the entry.
CleanUp(c) ==
    LET g == call[c].gen IN
    /\ call[c].pc = "clean"
    /\ \/ /\ g \in slot /\ child[g] = "running"
          /\ child' = [child EXCEPT ![g] = "dying"]
          /\ UNCHANGED <<monitors, status, slot, call>> /\ UNCHANGED savedVars /\ NoEvent
       \/ /\ g \in slot /\ Alive(g) /\ Event("slow")
          /\ Refused(c)
          /\ UNCHANGED <<monitors, status, slot, child>>
       \/ /\ g \in slot => child[g] = "exited"
          /\ NoEvent
          /\ slot' = slot \ {g}
          /\ child' = [child EXCEPT ![g] = IF g \in slot THEN "reaped" ELSE @]
          /\ IF g \in cleanup
             THEN /\ status' = [status EXCEPT ![call[c].host] = "failed"]
                  /\ Refused(c)
                  /\ UNCHANGED monitors
             ELSE /\ monitors' = [monitors EXCEPT ![call[c].host] = IF @ = g THEN 0 ELSE @]
                  /\ Later(c, "late")
                  /\ UNCHANGED <<status, savedVars>>
    /\ UNCHANGED <<history, sequence, pc, host, used, stop, cleanup, attempt, refused,
                   dogVars, signalVars, endVars>>

\* The last status of a stop, after the lock of the monitors is released.
StopEnds(c) ==
    /\ call[c].pc = "late"
    /\ status' = [status EXCEPT ![call[c].host] = "stopped"]
    /\ call' = [call EXCEPT ![c] = IF @.kind = "delete" THEN [@ EXCEPT !.pc = "dog"] ELSE Idle]
    /\ UNCHANGED <<monitors, history, sequence, workerVars,
                   dogVars, signalVars, endVars, savedVars, boundVars>>

\* Mutant: an operation in progress is not looked for.
RemoveTrackedDog(c) ==
    LET h == call[c].host IN
    /\ call[c].pc = "dog"
    /\ call' = IF watchdogs[h] = Untracked THEN [call EXCEPT ![c].pc = "forget"]
               ELSE [call EXCEPT ![c].pc = "reserve", ![c].dog = watchdogs[h]]
    /\ UNCHANGED <<workerVars, listVars, dogVars, signalVars, endVars, savedVars, boundVars>>

\* remove_host goes on with the watchdog, when there is one.
RemoveDog(c) ==
    LET h == call[c].host IN
    /\ call[c].pc = "dog"
    /\ CASE operations[h] # Untracked -> Refused(c)
         [] operations[h] = Untracked /\ watchdogs[h] = Untracked -> Later(c, "forget") /\ UNCHANGED savedVars
         [] OTHER -> /\ call' = [call EXCEPT ![c].pc = "reserve", ![c].dog = watchdogs[h]]
                     /\ UNCHANGED savedVars
    /\ UNCHANGED <<workerVars, listVars, dogVars, signalVars, endVars, boundVars>>

\* The end of remove_host, and finish_host_deletion.
Forget(c) ==
    LET h == call[c].host IN
    /\ call[c].pc = "forget"
    /\ status' = [status EXCEPT ![h] = None]
    /\ history' = [history EXCEPT ![h] = <<>>]
    /\ terms' = SelectSeq(terms, LAMBDA id : id[1] # h)
    /\ saved' = [saved EXCEPT ![h] = "gone"]
    /\ call' = [call EXCEPT ![c] = Idle]
    /\ UNCHANGED <<monitors, sequence, workerVars, dogVars, process, termed, killed,
                   endVars, version, boundVars>>

\* Mutant: only what is tracked counts, not what is being started.
AffectedTracked(h) ==
    \/ \E m \in Monitored : Uses(m, h)
    \/ \E w \in Hosts : watchdogs[w] # Untracked /\ Uses(w, h)

\* save_host with other connection settings, under the locks of the operations,
\* the watchdogs and the monitors.
Affected(h) ==
    \/ \E m \in Monitored : Uses(m, h)
    \/ \E w \in Hosts : (watchdogs[w] # Untracked \/ operations[w] # Untracked) /\ Uses(w, h)

SaveHost(h) ==
    /\ Event("update")
    /\ saved[h] = "saved" /\ shutting = "no"
    /\ ~Affected(h)
    /\ version' = [version EXCEPT ![h] = @ + 1]
    /\ UNCHANGED <<saved, workerVars, listVars, dogVars, call, signalVars, endVars>>

-----------------------------------------------------------------------------
(* The btop watchdog: a tmux session of the host that carries the owner    *)
(* nonce of this installation.                                             *)

\* A remote command of c whose answer is lost: it may have been carried out, and
\* then left the session as it would.
Lost(c, after) ==
    /\ Event("lost")
    /\ unsure' = unsure \cup {call[c].host}
    /\ session' \in {session, [session EXCEPT ![call[c].host] = after]}

\* build_btop_stop_command: what is left of a session.
Halted(h) == IF session[h] = "ours" THEN None ELSE session[h]

\* The call returns, and its operation guard and its permit are dropped.
Released(c) == operations' = [operations EXCEPT ![call[c].host] = Untracked]
Gives(c) == Released(c) /\ Refused(c)
Returns(c) == Released(c) /\ call' = [call EXCEPT ![c] = Idle] /\ UNCHANGED savedVars

\* start_btop_watchdog up to the reservation.
AskWatch(c, h) ==
    /\ Event("watch")
    /\ call[c] = Idle /\ shutting = "no" /\ saved[h] = "saved"
    /\ watchdogs[h] # Untracked => watchdogs[h][1] = version[h]
    /\ call' = [call EXCEPT ![c] = [Idle EXCEPT !.kind = "watch", !.host = h,
                                                !.pc = "reserve", !.dog = Connection(h)]]
    /\ UNCHANGED <<workerVars, listVars, dogVars, signalVars, endVars, savedVars>>

\* stop_btop_watchdog up to the reservation: only a tracked watchdog.
AskUnwatch(c, h) ==
    /\ Event("unwatch")
    /\ call[c] = Idle /\ shutting = "no" /\ saved[h] = "saved"
    /\ watchdogs[h] # Untracked
    /\ call' = [call EXCEPT ![c] = [Idle EXCEPT !.kind = "unwatch", !.host = h,
                                                !.pc = "reserve", !.dog = watchdogs[h]]]
    /\ UNCHANGED <<workerVars, listVars, dogVars, signalVars, endVars, savedVars>>

ReserveWatchdogOperation(c) ==
    LET h == call[c].host IN
    /\ call[c].pc = "reserve"
    /\ IF operations[h] # Untracked
       THEN Refused(c) /\ UNCHANGED operations
       ELSE /\ operations' = [operations EXCEPT ![h] = call[c].dog]
            /\ Later(c, IF call[c].kind = "watch" THEN "verify" ELSE "permit")
            /\ UNCHANGED savedVars
    /\ UNCHANGED <<workerVars, listVars, watchdogs, session, unsure, signalVars, endVars, boundVars>>

\* Only after the reservation is the saved profile compared with the captured one.
\* A profile names its jump host; the settings of that are looked up by the command.
VerifyProfile(c) ==
    LET h == call[c].host IN
    /\ call[c].pc = "verify"
    /\ IF saved[h] = "saved" /\ call[c].dog[1] = version[h]
       THEN /\ call' = [call EXCEPT ![c].pc = "permit", ![c].dog = Connection(h)]
            /\ UNCHANGED <<operations, savedVars>>
       ELSE Gives(c)
    /\ UNCHANGED <<workerVars, listVars, watchdogs, session, unsure, signalVars, endVars, boundVars>>

AcquireBtopPermit(c) ==
    /\ call[c].pc = "permit"
    /\ \/ /\ NoEvent
          /\ Cardinality(Permitted) < BtopPermits
          /\ Later(c, IF call[c].kind = "watch" THEN "run" ELSE "halt")
          /\ UNCHANGED <<operations, savedVars>>
       \/ /\ Event("slow")
          /\ Cardinality(Permitted) >= BtopPermits
          /\ Gives(c)
    /\ UNCHANGED <<workerVars, listVars, watchdogs, session, unsure, signalVars, endVars>>

\* build_btop_start_command: a session of this owner is adopted, another refused.
RunBtopStart(c) ==
    LET h == call[c].host IN
    /\ call[c].pc = "run"
    /\ \/ NoEvent /\ session[h] = "foreign" /\ Gives(c) /\ UNCHANGED <<watchdogs, session, unsure>>
       \/ /\ NoEvent /\ session[h] = "ours"
          /\ Later(c, "gate")
          /\ UNCHANGED <<watchdogs, operations, session, unsure, savedVars>>
       \/ /\ NoEvent /\ session[h] = None
          /\ session' = [session EXCEPT ![h] = "ours"]
          /\ watchdogs' = [watchdogs EXCEPT ![h] = call[c].dog]
          /\ call' = [call EXCEPT ![c].pc = "gate", ![c].gen = 1]
          /\ UNCHANGED <<operations, unsure, savedVars>>
       \/ Lost(c, IF session[h] = None THEN "ours" ELSE session[h]) /\ Gives(c) /\ UNCHANGED watchdogs
    /\ UNCHANGED <<workerVars, listVars, signalVars, endVars>>

\* A started watchdog is stopped again and no longer tracked; errors are ignored.
TakesBack(c) ==
    LET h == call[c].host IN
    /\ watchdogs' = [watchdogs EXCEPT ![h] = Untracked]
    /\ \/ NoEvent /\ session' = [session EXCEPT ![h] = Halted(h)] /\ UNCHANGED unsure
       \/ Lost(c, Halted(h))
    /\ Gives(c)

\* shutting_down is looked at after the start and after the inspection.
PassGate(c) ==
    /\ call[c].pc \in {"gate", "gate again"}
    /\ IF shutting # "no" THEN TakesBack(c)
       ELSE IF call[c].pc = "gate"
       THEN Later(c, "inspect") /\ UNCHANGED <<dogVars, savedVars>> /\ NoEvent
       ELSE /\ watchdogs' = [watchdogs EXCEPT ![call[c].host] = call[c].dog]
            /\ Returns(c) /\ NoEvent
            /\ UNCHANGED <<session, unsure>>
    /\ UNCHANGED <<workerVars, listVars, signalVars, endVars>>

\* inspect_btop_status; gen = 1 says that this call created the session.
InspectBtop(c) ==
    LET h == call[c].host IN
    /\ call[c].pc = "inspect"
    /\ \/ /\ session[h] = "ours" /\ NoEvent
          /\ Later(c, "gate again") /\ UNCHANGED <<dogVars, savedVars>>
       \/ session[h] # "ours" /\ call[c].gen = 1 /\ TakesBack(c)
       \/ session[h] # "ours" /\ call[c].gen = 0 /\ Gives(c) /\ NoEvent
          /\ UNCHANGED <<watchdogs, session, unsure>>
       \/ Event("no answer") /\ Gives(c) /\ UNCHANGED <<watchdogs, session, unsure>>
    /\ UNCHANGED <<workerVars, listVars, signalVars, endVars>>

\* stop_btop_watchdog from the remote command on, with the inspection that
\* follows it; a host deletion goes on when both succeed.
StopBtop(c) ==
    LET h == call[c].host IN
    /\ call[c].pc = "halt"
    /\ \/ NoEvent /\ session[h] = "foreign" /\ Gives(c) /\ UNCHANGED <<watchdogs, session, unsure>>
       \/ /\ session[h] # "foreign"
          /\ session' = [session EXCEPT ![h] = None]
          /\ watchdogs' = [watchdogs EXCEPT ![h] = Untracked]
          /\ UNCHANGED unsure
          /\ \/ /\ NoEvent /\ Released(c)
                /\ call' = [call EXCEPT ![c] = IF @.kind = "delete" THEN [@ EXCEPT !.pc = "forget"]
                                               ELSE Idle]
                /\ UNCHANGED savedVars
             \/ Event("no answer") /\ Gives(c)
       \/ Lost(c, Halted(h)) /\ Gives(c) /\ UNCHANGED watchdogs
    /\ UNCHANGED <<workerVars, listVars, signalVars, endVars>>

\* The remote user ends a session, or takes the name of one.
SessionChanges(h) ==
    /\ Event("foreign")
    /\ session' = [session EXCEPT ![h] = IF @ = None THEN "foreign" ELSE None]
    /\ UNCHANGED <<watchdogs, operations, unsure, workerVars, listVars, call,
                   signalVars, endVars, savedVars>>

-----------------------------------------------------------------------------
(* TERM and KILL of a process that a sample showed.                        *)

Remembered(id) == \E i \in DOMAIN terms : terms[i] = id
Without(id) == SelectSeq(terms, LAMBDA t : t # id)

\* signal_process: a KILL needs a TERM of the same identity in the last minutes.
AskSignal(c, h, kind, n) ==
    /\ Event(kind)
    /\ call[c] = Idle /\ shutting = "no" /\ saved[h] = "saved"
    /\ n <= process[h][2]
    /\ kind = "KILL" => Remembered(<<h, n>>)
    /\ call' = [call EXCEPT ![c] = [Idle EXCEPT !.kind = kind, !.host = h,
                                                !.pc = "signal", !.id = <<h, n>>]]
    /\ UNCHANGED <<workerVars, listVars, dogVars, signalVars, endVars, savedVars>>

\* The attempts that are remembered after a signal was answered with success.
Attempts(kind, id) ==
    IF kind = "KILL" THEN Without(id)
    ELSE LET kept == IF Len(terms) >= MaxTerms THEN Tail(terms) ELSE terms IN
         Append(SelectSeq(kept, LAMBDA t : t # id), id)

\* build_signal_command compares the identity on the remote side and signals
\* the process; the answer may be lost, or the command never carried out.
SendSignal(c) ==
    LET id == call[c].id
        kind == call[c].kind IN
    /\ call[c].pc = "signal"
    /\ \E carried, answered \in BOOLEAN :
         /\ IF carried /\ answered THEN NoEvent ELSE Event("lost")
         /\ LET hit == carried /\ process[id[1]] = id IN
            /\ termed' = IF hit /\ kind = "TERM" THEN termed \cup {id} ELSE termed
            /\ killed' = IF hit /\ kind = "KILL" THEN killed \cup {id} ELSE killed
            /\ process' = IF hit /\ kind = "KILL" THEN [process EXCEPT ![id[1]][2] = @ + 1]
                          ELSE process
            /\ terms' = IF hit /\ answered THEN Attempts(kind, id) ELSE terms
    /\ call' = [call EXCEPT ![c] = Idle]
    /\ UNCHANGED <<workerVars, listVars, dogVars, endVars, savedVars>>

\* The pid is given to another process; a remembered TERM gets too old.
ProcessChanges(h) ==
    /\ Event("process") /\ process' = [process EXCEPT ![h][2] = @ + 1]
    /\ UNCHANGED <<terms, termed, killed, workerVars, listVars, dogVars, call, endVars, savedVars>>

TermExpires ==
    /\ terms # <<>> /\ Event("expiry") /\ terms' = Tail(terms)
    /\ UNCHANGED <<process, termed, killed, workerVars, listVars, dogVars, call, endVars, savedVars>>

-----------------------------------------------------------------------------
(* shutdown.                                                               *)

\* The requests are over (Requests: CleanupIsQuiet); watchdog starts of the
\* autostart task may be in progress.
Shutdown ==
    /\ Event("shutdown")
    /\ shutting = "no"
    /\ \A c \in Callers : call[c].kind \in {"idle", "watch"}
    /\ \A g \in Generations : pc[g] # "new"
    /\ shutting' = "yes"
    /\ sweeping' = {h \in Hosts : watchdogs[h] # Untracked \/ operations[h] # Untracked}
    /\ stop' = stop \cup {monitors[h] : h \in Monitored}
    /\ call' = [c \in DOMAIN call |->
                   IF c \in Monitored
                   THEN [Idle EXCEPT !.kind = "sweep", !.host = c, !.gen = monitors[c], !.pc = "kill"]
                   ELSE call[c]]
    /\ UNCHANGED <<pc, host, used, child, slot, cleanup, attempt, refused,
                   listVars, dogVars, signalVars, savedVars>>

\* stop_watchdog_contexts, one host; errors are ignored.
SweepDog(h) ==
    /\ h \in sweeping /\ shutting = "yes"
    /\ Cardinality(Permitted) < BtopPermits
    /\ sweeping' = sweeping \ {h}
    /\ \/ NoEvent /\ session' = [session EXCEPT ![h] = Halted(h)] /\ UNCHANGED unsure
       \/ /\ Event("lost")
          /\ unsure' = unsure \cup {h}
          /\ session' \in {session, [session EXCEPT ![h] = Halted(h)]}
    /\ UNCHANGED <<watchdogs, operations, workerVars, listVars, call, signalVars, shutting, savedVars>>

ShutdownEnds ==
    /\ shutting = "yes"
    /\ \/ /\ NoEvent
          /\ sweeping = {} /\ \A h \in Hosts : operations[h] = Untracked /\ call[h] = Idle
          /\ shutting' = "done"
       \/ Event("slow") /\ shutting' = "cut short"
    /\ watchdogs' = [h \in Hosts |-> Untracked]
    /\ terms' = <<>>
    /\ UNCHANGED <<operations, session, unsure, workerVars, listVars, call,
                   process, termed, killed, sweeping, savedVars>>

-----------------------------------------------------------------------------
Worker(g) ==
    \/ Announce(g) \/ Connect(g) \/ Place(g) \/ Feed(g) \/ Sample(g) \/ StreamEnds(g)
    \/ Take(g) \/ KillTaken(g) \/ Reap(g) \/ Conclude(g) \/ WorkerEnds(g) \/ ChildExits(g)

Request(c) ==
    \/ RemoveHost(c) \/ KillChild(c) \/ WorkerFinished(c) \/ CleanUp(c) \/ StopEnds(c)
    \/ RemoveDog(c) \/ Forget(c)
    \/ ReserveWatchdogOperation(c) \/ VerifyProfile(c) \/ AcquireBtopPermit(c) \/ RunBtopStart(c)
    \/ PassGate(c) \/ InspectBtop(c) \/ StopBtop(c) \/ SendSignal(c)

Next ==
    \/ \E g \in Generations : Worker(g) \/ \E h \in Hosts : StartMonitor(h, g)
    \/ \E c \in DOMAIN call : Request(c)
    \/ \E c \in Callers, h \in Hosts :
         \/ AskStop(c, h) \/ AskDelete(c, h) \/ AskWatch(c, h) \/ AskUnwatch(c, h)
         \/ \E kind \in {"TERM", "KILL"}, n \in 0..process[h][2] : AskSignal(c, h, kind, n)
    \/ \E h \in Hosts : SaveHost(h) \/ SessionChanges(h) \/ ProcessChanges(h) \/ SweepDog(h)
    \/ TermExpires \/ Shutdown \/ ShutdownEnds

Spec == Init /\ [][Next]_vars

-----------------------------------------------------------------------------
(* Properties.                                                             *)

\* Every collector process that lives is with its worker or in the slot of a
\* listed monitor, where stop and host deletion reach it; only one whose script
\* could not be sent is given up.
CollectorsAreOwned ==
    \A g \in Generations :
        child[g] \in {"running", "dying"} =>
            \/ pc[g] \in {"place", "wait"}
            \/ g \in slot /\ monitors[host[g]] = g

\* A worker that is stopped is not left in its read of a collector that runs: the stop
\* found the child in the slot and killed it, or the worker sees the flag before it
\* reads. Only when the operating system refused the kill may it read on, until the
\* next line; the child then stays with its entry (CollectorsAreOwned), and the stop
\* fails unless the worker ends in time.
StopReachesTheChild ==
    \A c \in DOMAIN call :
        call[c].pc = "wait" /\ pc[call[c].gen] = "read" /\ child[call[c].gen] = "running" =>
            call[c].gen \in refused

\* A host that is gone has no monitor, no worker, no collector, no samples, no
\* watchdog and no start of one; its tmux session is ours only after a
\* command whose answer was lost. A child that terminate_child gave up ("left") is
\* excepted: nothing refers to it any more.
GoneHostIsQuiet ==
    \A h \in Hosts :
        saved[h] = "gone" =>
            /\ monitors[h] = 0 /\ history[h] = <<>>
            /\ watchdogs[h] = Untracked
            /\ \A c \in Permitted : call[c].host = h => call[c].kind # "watch"
            /\ session[h] = "ours" => h \in unsure
            /\ \A g \in Generations :
                 host[g] = h => ~Unfinished(g) /\ child[g] \notin {"running", "dying"}

\* Collectors and watchdogs use the saved connection settings: an edit of the
\* host, or of its jump host, is refused while one is reserved or running.
ConnectionsAreSaved ==
    /\ \A g \in Generations :
         child[g] \in {"running", "dying"} => used[g] = Connection(host[g])
    /\ \A h \in Hosts : watchdogs[h] \in {Untracked, Connection(h)}

=============================================================================
