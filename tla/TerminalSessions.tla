-------------------------- MODULE TerminalSessions --------------------------
(***************************************************************************)
(* The registry of terminal sessions (TerminalRegistry): the start and the *)
(* reconnection of a PTY child, its reader and waiter threads, close, and  *)
(* the retirement of a host.                                               *)
(*                                                                         *)
(* A start or reconnection draws a generation; the state of its call, its  *)
(* child and its threads is indexed by that generation. The state lock is  *)
(* taken once by each action below that reads or writes slot or record.    *)
(***************************************************************************)
EXTENDS Naturals, FiniteSets, FiniteSetsExt

CONSTANTS
    Sessions,
    MaxGeneration, \* bound: starts and reconnections
    MaxOutput,     \* bound: pieces of output of a child
    Closers,       \* concurrent calls of close
    MaxActive,     \* 32 active sessions
    MaxRetained,   \* 256 snapshots
    Faults         \* "spawn", "thread": a start fails; "kill": a child survives;
                   \* "wait": waiting for it fails; "read": reading fails;
                   \* "slow": a timeout comes before what it waits for

ASSUME TerminalAssumption ==
    /\ IsFiniteSet(Sessions) /\ {MaxGeneration, MaxOutput, MaxRetained} \subseteq Nat
    /\ MaxActive \in Nat \ {0}
    /\ "retire" \notin Closers
    /\ Faults \subseteq {"spawn", "thread", "kill", "wait", "read", "slow"}

VARIABLES
    slot,      \* TerminalRegistryState.active
    record,    \* TerminalRegistryState.snapshots; gen 0: none
    issued,    \* next_generation
    start,     \* the call of start or reconnect that drew each generation
    child,     \* its process: "none", "alive" or "exited"
    handle,    \* where SpawnCleanup's child is: "cleanup", "waiter" or "taken"
    known,     \* generations with SpawnCleanup.terminated
    reader,    \* progress of its reader thread
    waiter,    \* progress of its waiter thread
    output,    \* pieces that its child wrote and the reader did not publish
    overdue,   \* generations whose waiter stopped waiting for the reader
    exited,    \* generations whose exit event was published
    call,      \* calls of close, and the one of a retirement
    closed,    \* generations that a close has answered for (history)
    barred,    \* the host is retired in host_operations
    retiring,  \* progress of retire_host
    toClose,   \* sessions that it still closes
    stopped    \* stop_all was called

stateVars == <<slot, record>>
startVars == <<issued, start>>
childVars == <<child, handle, known>>
threadVars == <<reader, waiter, output, overdue, exited>>
closeVars == <<call, closed>>
retireVars == <<barred, retiring, toClose, stopped>>
vars == <<stateVars, startVars, childVars, threadVars, closeVars, retireVars>>

Generations == 1..MaxGeneration
Calls == Closers \cup {"retire"}
NoSlot == [kind |-> "none", gen |-> 0, close |-> FALSE, cleanup |-> FALSE]
NoRecord == [gen |-> 0, rev |-> 0, st |-> "none"]
NoCall == [pc |-> "idle", s |-> "none", gen |-> 0]
NoStart == [pc |-> "none", s |-> "none", rev |-> 0, new |-> FALSE]

Current(g) == \E s \in Sessions : slot[s].gen = g
StartingAt(g) == Current(g) /\ slot[start[g].s].kind = "starting"
RunningAt(g) == Current(g) /\ slot[start[g].s].kind = "running"
Active == {s \in Sessions : slot[s].kind # "none"}
Listed == {s \in Sessions : record[s].gen # 0}
\* Calls that hold a lease on the host.
Leased == {g \in Generations : start[g].pc \notin {"none", "done"}}

Init ==
    /\ slot = [s \in Sessions |-> NoSlot]
    /\ record = [s \in Sessions |-> NoRecord]
    /\ issued = 0
    /\ start = [g \in Generations |-> NoStart]
    /\ child = [g \in Generations |-> "none"]
    /\ handle = [g \in Generations |-> "cleanup"]
    /\ known = {}
    /\ reader = [g \in Generations |-> "idle"]
    /\ waiter = [g \in Generations |-> "idle"]
    /\ output = [g \in Generations |-> 0]
    /\ overdue = {} /\ exited = {}
    /\ call = [c \in Calls |-> NoCall]
    /\ closed = {}
    /\ barred = FALSE /\ retiring = "idle" /\ toClose = {} /\ stopped = FALSE

-----------------------------------------------------------------------------
(* Start and reconnect.                                                    *)

At(g, p) == start[g].pc = p
Goes(g, p) == start' = [start EXCEPT ![g].pc = p]
SlotIs(s, v) == slot' = [slot EXCEPT ![s] = v]
RecordIs(s, v) == record' = [record EXCEPT ![s] = v]

\* The generation is drawn before the registry is locked.
Draw(s, new) ==
    /\ ~barred /\ ~stopped
    /\ issued < MaxGeneration
    /\ new => \A g \in Generations : start[g].s # s
    /\ ~new => s \in Listed
    /\ issued' = issued + 1
    /\ start' = [start EXCEPT ![issued + 1] = [pc |-> "drawn", s |-> s, rev |-> 1, new |-> new]]
    /\ UNCHANGED <<stateVars, childVars, threadVars, closeVars, retireVars>>

\* reconnect continues the revisions of the snapshot it replaces.
NextRevision(g) == IF start[g].new THEN 1 ELSE record[start[g].s].rev + 1

\* reserve_new, reserve_reconnect.
Reserve(g) ==
    /\ At(g, "drawn")
    /\ LET s == start[g].s
           free == slot[s].kind = "none" /\ (start[g].new <=> s \notin Listed)
           room == Cardinality(Active) < MaxActive IN
       IF free /\ room
       THEN /\ SlotIs(s, [NoSlot EXCEPT !.kind = "starting", !.gen = g])
            /\ start' = [start EXCEPT ![g].pc = "reserved", ![g].rev = NextRevision(g)]
       ELSE Goes(g, "done") /\ UNCHANGED slot
    /\ UNCHANGED <<record, issued, childVars, threadVars, closeVars, retireVars>>

\* The slot of g is given up; if a close was requested, the snapshot with it.
Releases(g) ==
    LET s == start[g].s IN
    IF Current(g)
    THEN /\ SlotIs(s, NoSlot)
         /\ IF StartingAt(g) /\ slot[s].close THEN RecordIs(s, NoRecord) ELSE UNCHANGED record
    ELSE UNCHANGED stateVars

Spawn(g) ==
    /\ At(g, "reserved")
    /\ \/ child' = [child EXCEPT ![g] = "alive"] /\ Goes(g, "spawned") /\ UNCHANGED stateVars
       \/ "spawn" \in Faults /\ Releases(g) /\ Goes(g, "done") /\ UNCHANGED child
    /\ UNCHANGED <<issued, handle, known, threadVars, closeVars, retireVars>>

\* Faulty: the slot is written anew, and a close that came before is forgotten.
RegisterAnew(g) ==
    /\ At(g, "spawned")
    /\ IF StartingAt(g)
       THEN /\ SlotIs(start[g].s, [kind |-> "starting", gen |-> g, close |-> FALSE, cleanup |-> TRUE])
            /\ Goes(g, "registered")
       ELSE Goes(g, "abort") /\ UNCHANGED slot
    /\ UNCHANGED <<record, issued, childVars, threadVars, closeVars, retireVars>>

\* register_spawn_cleanup: from here on a close can terminate the child.
Register(g) ==
    /\ At(g, "spawned")
    /\ IF StartingAt(g)
       THEN /\ slot' = [slot EXCEPT ![start[g].s].cleanup = TRUE]
            /\ Goes(g, IF slot[start[g].s].close THEN "abort" ELSE "registered")
       ELSE Goes(g, "abort") /\ UNCHANGED slot
    /\ UNCHANGED <<record, issued, childVars, threadVars, closeVars, retireVars>>

\* The oldest snapshots of sessions that are not active, beyond the limit.
Pruned(s) ==
    LET idle == {t \in Listed \ {s} : slot[t].kind = "none"}
        excess == Cardinality(Listed \cup {s}) - MaxRetained IN
    {t \in idle : excess > Cardinality({u \in idle : record[u].gen < record[t].gen})}

Commits(g) == StartingAt(g) /\ ~slot[start[g].s].close

\* The threads are created, or not; then commit_running.
Commit(g) ==
    /\ At(g, "registered")
    /\ LET s == start[g].s IN
       \/ /\ Commits(g)
          /\ SlotIs(s, [slot[s] EXCEPT !.kind = "running"])
          /\ record' = [t \in Sessions |->
                CASE t = s -> [gen |-> g, rev |-> start[g].rev, st |-> "running"]
                  [] t \in Pruned(s) -> NoRecord
                  [] OTHER -> record[t]]
          /\ Goes(g, "committed")
       \/ /\ "thread" \in Faults \/ ~Commits(g)
          /\ Goes(g, "abort") /\ UNCHANGED stateVars
    /\ UNCHANGED <<issued, childVars, threadVars, closeVars, retireVars>>

StartReader(g) ==
    /\ At(g, "committed")
    /\ reader' = [reader EXCEPT ![g] = "reading"]
    /\ Goes(g, "started")
    /\ UNCHANGED <<stateVars, issued, childVars, waiter, output, overdue, exited, closeVars, retireVars>>

\* The waiter takes the child, unless a close has reaped it by now.
StartWaiter(g) ==
    /\ At(g, "started")
    /\ Goes(g, "done")
    /\ IF handle[g] = "cleanup"
       THEN handle' = [handle EXCEPT ![g] = "waiter"] /\ waiter' = [waiter EXCEPT ![g] = "waiting"]
       ELSE UNCHANGED <<handle, waiter>>
    /\ UNCHANGED <<stateVars, issued, child, known, reader, output, overdue, exited, closeVars, retireVars>>

-----------------------------------------------------------------------------
(* terminate_cleanup.                                                      *)

\* The kill: the child exits, or survives it.
Kills(g) ==
    \/ child[g] = "alive" /\ child' = [child EXCEPT ![g] = "exited"]
    \/ (child[g] # "alive" \/ "kill" \in Faults) /\ UNCHANGED child

\* Faulty: a kill that reported no error counts as the exit.
ExitSeenEarly(g) == UNCHANGED <<handle, known>>
\* The exit is observed: by the waiter, or here when the waiter does not have the child.
ExitSeen(g) ==
    \/ g \in known /\ UNCHANGED <<handle, known>>
    \/ /\ g \notin known /\ handle[g] = "cleanup" /\ child[g] = "exited"
       /\ handle' = [handle EXCEPT ![g] = "taken"] /\ known' = known \cup {g}

\* The two seconds are over.
ExitMissed(g) == g \notin known /\ ("slow" \in Faults \/ child[g] = "alive")

\* abort_spawn.
Abort(g) ==
    /\ At(g, "abort")
    /\ IF Current(g) THEN Kills(g) /\ Goes(g, "reap") ELSE Goes(g, "done") /\ UNCHANGED child
    /\ UNCHANGED <<stateVars, issued, handle, known, threadVars, closeVars, retireVars>>

AbortEnds(g) ==
    /\ At(g, "reap")
    /\ Goes(g, "done")
    /\ \/ ExitSeen(g) /\ Releases(g)
       \/ ExitMissed(g) /\ UNCHANGED <<stateVars, handle, known>>
    /\ UNCHANGED <<issued, child, threadVars, closeVars, retireVars>>

-----------------------------------------------------------------------------
(* The child and its threads.                                              *)

ChildWrites(g) ==
    /\ child[g] = "alive" /\ output[g] < MaxOutput
    /\ output' = [output EXCEPT ![g] = @ + 1]
    /\ UNCHANGED <<stateVars, startVars, childVars, reader, waiter, overdue, exited, closeVars, retireVars>>

ChildExits(g) ==
    /\ child[g] = "alive"
    /\ child' = [child EXCEPT ![g] = "exited"]
    /\ UNCHANGED <<stateVars, startVars, handle, known, threadVars, closeVars, retireVars>>

\* A failure is recorded for the generation that is running.
RecordsError(g) ==
    LET s == start[g].s IN
    IF RunningAt(g) /\ record[s].gen = g
    THEN RecordIs(s, [record[s] EXCEPT !.st = "failed", !.rev = @ + 1])
    ELSE UNCHANGED record

\* A piece is read, while the session runs; it is published by the next step.
ReaderReads(g) ==
    /\ reader[g] = "reading"
    /\ \/ ~RunningAt(g) /\ reader' = [reader EXCEPT ![g] = "done"]
       \/ output[g] > 0 /\ RunningAt(g) /\ reader' = [reader EXCEPT ![g] = "publishing"]
       \/ output[g] = 0 /\ child[g] = "exited" /\ reader' = [reader EXCEPT ![g] = "done"]
    /\ UNCHANGED <<stateVars, startVars, childVars, waiter, output, overdue, exited, closeVars, retireVars>>

ReaderPublishes(g) ==
    /\ reader[g] = "publishing"
    /\ reader' = [reader EXCEPT ![g] = "reading"]
    /\ output' = [output EXCEPT ![g] = @ - 1]
    /\ UNCHANGED <<stateVars, startVars, childVars, waiter, overdue, exited, closeVars, retireVars>>

\* The rest of the output is lost.
ReaderFails(g) ==
    /\ "read" \in Faults
    /\ reader[g] = "reading"
    /\ reader' = [reader EXCEPT ![g] = "failed"]
    /\ RecordsError(g)
    /\ UNCHANGED <<slot, startVars, childVars, waiter, output, overdue, exited, closeVars, retireVars>>

\* child.wait() returns, or fails and gives the child back.
WaiterWakes(g) ==
    /\ waiter[g] = "waiting"
    /\ \/ /\ child[g] = "exited"
          /\ known' = known \cup {g} /\ waiter' = [waiter EXCEPT ![g] = "draining"]
          /\ UNCHANGED <<handle, record>>
       \/ /\ "wait" \in Faults
          /\ handle' = [handle EXCEPT ![g] = "cleanup"] /\ waiter' = [waiter EXCEPT ![g] = "done"]
          /\ RecordsError(g)
          /\ UNCHANGED known
    /\ UNCHANGED <<slot, startVars, child, reader, output, overdue, exited, closeVars, retireVars>>

\* Faulty: the exit is published as soon as the child has exited.
DrainedAtOnce(g) == TRUE
\* The reader has published the rest, or it could not read it.
Drained(g) == reader[g] \in {"done", "failed"}

\* The two seconds of recv_timeout are over: the waiter goes on as if the reader had
\* ended. (A ConPTY may give its reader no end of file before finalize_exit.)
DrainTimesOut(g) ==
    /\ "slow" \in Faults
    /\ waiter[g] = "draining" /\ ~Drained(g) /\ g \notin overdue
    /\ overdue' = overdue \cup {g}
    /\ UNCHANGED <<stateVars, startVars, childVars, reader, waiter, output, exited, closeVars, retireVars>>

\* finalize_exit, and the exit event.
FinalizeExit(g) ==
    /\ waiter[g] = "draining" /\ (Drained(g) \/ g \in overdue)
    /\ waiter' = [waiter EXCEPT ![g] = "done"]
    /\ LET s == start[g].s IN
       IF RunningAt(g) /\ record[s].gen = g
       THEN /\ SlotIs(s, NoSlot)
            /\ RecordIs(s, [record[s] EXCEPT !.st = "ended", !.rev = @ + 1])
            /\ exited' = exited \cup {g}
       ELSE UNCHANGED <<stateVars, exited>>
    /\ UNCHANGED <<startVars, childVars, reader, output, overdue, closeVars, retireVars>>

-----------------------------------------------------------------------------
(* close, and retire_host.                                                 *)

\* The locked part: what is to be terminated, if anything.
Close(c, s) ==
    /\ call[c].pc = "idle"
    /\ c = "retire" => retiring \in {"closing", "failing"} /\ s \in toClose
    /\ CASE slot[s].kind = "starting" ->
              /\ slot' = [slot EXCEPT ![s].close = TRUE]
              /\ call' = [call EXCEPT ![c] = [pc |-> IF slot[s].cleanup THEN "kill" ELSE "ok",
                                              s |-> s, gen |-> slot[s].gen]]
              /\ closed' = IF slot[s].cleanup THEN closed ELSE closed \cup {slot[s].gen}
              /\ UNCHANGED record
         [] slot[s].kind = "running" ->
              /\ call' = [call EXCEPT ![c] = [pc |-> "kill", s |-> s, gen |-> slot[s].gen]]
              /\ UNCHANGED <<stateVars, closed>>
         [] OTHER ->  \* NotFound, unless there is a snapshot
              /\ RecordIs(s, NoRecord)
              /\ call' = [call EXCEPT ![c] = [pc |-> IF s \in Listed THEN "ok" ELSE "error",
                                              s |-> s, gen |-> 0]]
              /\ UNCHANGED <<slot, closed>>
    /\ UNCHANGED <<startVars, childVars, threadVars, retireVars>>

CloseKills(c) ==
    /\ call[c].pc = "kill"
    /\ Kills(call[c].gen)
    /\ call' = [call EXCEPT ![c].pc = "reap"]
    /\ UNCHANGED <<stateVars, startVars, handle, known, threadVars, closed, retireVars>>

CloseReaps(c) ==
    /\ call[c].pc = "reap"
    /\ \/ ExitSeen(call[c].gen) /\ call' = [call EXCEPT ![c].pc = "remove"]
       \/ /\ ExitMissed(call[c].gen) /\ call' = [call EXCEPT ![c].pc = "error"]
          /\ UNCHANGED <<handle, known>>
    /\ UNCHANGED <<stateVars, startVars, child, threadVars, closed, retireVars>>

\* The slot is removed if it is still that of the child that was terminated.
CloseRemoves(c) ==
    /\ call[c].pc = "remove"
    /\ call' = [call EXCEPT ![c].pc = "ok"]
    /\ closed' = closed \cup {call[c].gen}
    /\ IF slot[call[c].s].gen = call[c].gen
       THEN SlotIs(call[c].s, NoSlot) /\ RecordIs(call[c].s, NoRecord)
       ELSE UNCHANGED stateVars
    /\ UNCHANGED <<startVars, childVars, threadVars, retireVars>>

CloseReturns(c) ==
    /\ call[c].pc \in {"ok", "error"}
    /\ call' = [call EXCEPT ![c] = NoCall]
    /\ IF c = "retire"
       THEN /\ toClose' = toClose \ {call[c].s}
            /\ retiring' = IF call[c].pc = "error" THEN "failing" ELSE retiring
       ELSE UNCHANGED <<toClose, retiring>>
    /\ UNCHANGED <<stateVars, startVars, childVars, threadVars, closed, barred, stopped>>

RetireHost ==
    /\ retiring = "idle" /\ ~stopped
    /\ barred' = TRUE /\ retiring' = "waiting"
    /\ UNCHANGED <<stateVars, startVars, childVars, threadVars, closeVars, toClose, stopped>>

\* Faulty: the sessions are collected while some of them are starting.
SettledAtOnce == TRUE
\* wait_idle: no start or reconnection of the host is in progress.
Settled == Leased = {}

\* stop_for_host.
RetireCollects ==
    /\ retiring = "waiting" /\ Settled
    /\ toClose' = Active \cup Listed
    /\ retiring' = "closing"
    /\ UNCHANGED <<stateVars, startVars, childVars, threadVars, closeVars, barred, stopped>>

RetireTimesOut ==
    /\ "slow" \in Faults
    /\ retiring = "waiting" /\ ~Settled
    /\ retiring' = "failed"
    /\ UNCHANGED <<stateVars, startVars, childVars, threadVars, closeVars, barred, toClose, stopped>>

\* All are closed. A session that cannot be closed does not keep the others open.
RetireEnds ==
    /\ retiring \in {"closing", "failing"} /\ toClose = {} /\ call["retire"].pc = "idle"
    /\ retiring' = IF retiring = "failing" THEN "failed" ELSE "retired"
    /\ UNCHANGED <<stateVars, startVars, childVars, threadVars, closeVars, barred, toClose, stopped>>

RestoreHost ==
    /\ retiring \in {"failed", "retired"}
    /\ barred' = FALSE /\ retiring' = "idle"
    /\ UNCHANGED <<stateVars, startVars, childVars, threadVars, closeVars, toClose, stopped>>

\* stop_all, in the shutdown: when it comes no request is in progress any more.
StopAll ==
    /\ ~stopped
    /\ Leased = {} /\ \A c \in Calls : call[c] = NoCall
    /\ retiring \in {"idle", "failed", "retired"}
    /\ stopped' = TRUE
    /\ slot' = [s \in Sessions |-> NoSlot]
    /\ record' = [s \in Sessions |-> NoRecord]
    /\ \E survivors \in SUBSET (IF "kill" \in Faults THEN {g \in Generations : Current(g)} ELSE {}) :
          child' = [g \in Generations |->
             IF child[g] = "alive" /\ g \notin survivors THEN "exited" ELSE child[g]]
    /\ UNCHANGED <<startVars, handle, known, threadVars, closeVars, barred, retiring, toClose>>

-----------------------------------------------------------------------------
StartStep(g) ==
    \/ Reserve(g) \/ Spawn(g) \/ Register(g) \/ Commit(g) \/ StartReader(g) \/ StartWaiter(g)
    \/ Abort(g) \/ AbortEnds(g)
ThreadStep(g) ==
    \/ ReaderReads(g) \/ ReaderPublishes(g) \/ ReaderFails(g) \/ WaiterWakes(g)
    \/ DrainTimesOut(g) \/ FinalizeExit(g)
ChildStep(g) == ChildWrites(g) \/ ChildExits(g)
CloseStep(c) ==
    \/ \E s \in Sessions : Close(c, s)
    \/ CloseKills(c) \/ CloseReaps(c) \/ CloseRemoves(c) \/ CloseReturns(c)
RetireStep == RetireHost \/ RetireCollects \/ RetireTimesOut \/ RetireEnds \/ RestoreHost

Next ==
    \/ \E s \in Sessions, new \in BOOLEAN : Draw(s, new)
    \/ \E g \in Generations : StartStep(g) \/ ThreadStep(g) \/ ChildStep(g)
    \/ \E c \in Calls : CloseStep(c)
    \/ RetireStep \/ StopAll

\* The threads of a started session run: an exit wakes the waiter, and the reader
\* reaches the end of the output of a child that has exited.
Spec == Init /\ [][Next]_vars
    /\ \A g \in Generations : WF_vars(StartStep(g)) /\ WF_vars(ThreadStep(g))

-----------------------------------------------------------------------------
(* Properties.                                                             *)

\* No child is ever lost: while it lives, its slot leads to it, or the call that
\* started it has not given it up. A close or an abort forgets a child only after
\* its exit was observed, whatever the kill reported. After stop_all, which clears the
\* registry before it kills, a child that survives its kill belongs to nobody.
EveryChildOwned ==
    \A g \in Generations : child[g] = "alive" =>
        \/ Current(g) /\ slot[start[g].s].cleanup
        \/ start[g].pc = "spawned"
        \/ stopped

Delivered(g) == reader[g] = "failed" \/ (reader[g] = "done" /\ output[g] = 0)

\* Pending output is published before the exit, unless it could not be read or the
\* waiter gave up waiting for the reader after two seconds.
OutputBeforeExit == \A g \in exited \ overdue : Delivered(g)

\* docs/terminal.md:7 says it without exception: pending output is emitted before exit.
OutputFirst == \A g \in exited : Delivered(g)

\* When retire_host succeeds the host has no session and no process, and none can
\* start, although sessions were starting, closing or exiting meanwhile.
RetiredHostHasNoChild ==
    retiring = "retired" => Active = {} /\ Leased = {} /\ \A g \in Generations : child[g] # "alive"

\* What a close has answered for is gone: that session never runs, whether it was
\* reserved, spawned, registered or running when the close came, and if it has a child
\* that lives, its start is going to abort it or has failed to, and the slot still
\* says that it is to be closed. After stop_all nothing is registered any more.
ClosedIsGone ==
    \A g \in closed :
        /\ ~RunningAt(g)
        /\ child[g] = "alive" => stopped \/ (StartingAt(g) /\ slot[start[g].s].close)
=============================================================================
