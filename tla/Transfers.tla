----------------------------- MODULE Transfers -----------------------------
(***************************************************************************)
(* The transfer registry (TransferRegistry, SftpService): jobs with        *)
(* cancellation and retry, the retirement of a host, and the commit of a   *)
(* finished transfer over an existing destination.                         *)
(*                                                                         *)
(* A job is one entry; every retry gives it a new control, numbered by     *)
(* round.  pc is the progress of the task that performs its attempt; the   *)
(* task holds the host's SFTP lease in the stages of Working.  A step of   *)
(* an attempt is one sftp batch or one local file operation, so steps of   *)
(* jobs with the same destination interleave.                              *)
(***************************************************************************)
EXTENDS Naturals, FiniteSets, FiniteSetsExt

CONSTANTS
    Jobs,        \* 1..n, numbered in the order of created_at
    MaxRounds,   \* bound: attempts of a job
    Hosts,
    Names,       \* file names in the directory that the requests name
    Existing,    \* those that are there from the beginning
    Directions,  \* {"upload", "download"}: the remote and the local directory
    Plans,       \* bound: what the jobs are asked to do, and how many faults, cancels,
                 \* removals, edits and direct operations come in between
    MaxActive,   \* 8 jobs in progress
    MaxRetained, \* 512 jobs
    Faults       \* "io": operations fail; "lost": a remote one is carried out
                 \* and reported as failed; "stuck": a child survives its kill;
                 \* "slow": the 30 s of a retirement run out

Policies == {"ask", "skip", "overwrite", "rename"}
All == "all"
NoJob == [host |-> All, dir |-> "none", policy |-> "none", name |-> All, route |-> 0]
RequestSet == [host : {All}, dir : Directions, policy : Policies, name : Names, route : {0}]

ASSUME TransfersAssumption ==
    /\ Jobs = 1..Cardinality(Jobs) /\ IsFiniteSet(Hosts) /\ All \notin Hosts
    /\ {MaxRounds, MaxActive, MaxRetained} \subseteq Nat \ {0}
    /\ MaxActive < MaxRetained
    /\ Existing \subseteq Names
    /\ Directions \subseteq {"upload", "download"}
    /\ Plans \subseteq [asks : [Jobs -> RequestSet \cup {NoJob}], events : Nat]
    /\ Faults \subseteq {"io", "lost", "stuck", "slow"}

VARIABLES
    plan,      \* what is asked in this behaviour
    job,       \* what each entry was asked to do, and the route it uses
    state,     \* TransferJob.state; "gone" when pruned or purged
    round,     \* the control of the entry
    cancelled, \* entries whose control is cancelled
    finished,  \* entries whose control is finished
    signals,   \* cancel between its lock and control.cancel()
    pc,        \* progress of the attempt of each job
    outcome,   \* what perform_upload or perform_download is about to return
    target,    \* the resolved destination
    dest,      \* contents of the named files, by direction
    temp,      \* the temporary of each job and name
    backup,    \* the backup of each job and name
    placed,    \* history: rounds whose result was renamed to its destination
    retired,   \* TransferRegistry.retired_hosts
    barred,    \* hosts retired in the service's own barrier
    crud,      \* hosts with a direct SFTP operation
    saved,     \* version of the saved connection settings
    sweep,     \* progress of remove_host for each host, and of cancel_all
    captured,  \* the controls that it waits for
    left       \* what is left of plan.events

entryVars == <<job, state, round>>
controlVars == <<cancelled, finished, signals>>
attemptVars == <<pc, outcome, target>>
fileVars == <<dest, temp, backup, placed>>
hostVars == <<retired, barred, crud, saved>>
sweepVars == <<sweep, captured>>
boundVars == <<plan, left>>
vars == <<entryVars, controlVars, attemptVars, fileVars, hostVars, sweepVars, boundVars>>

Terminal == {"completed", "cancelled", "failed"}
Live == {"queued", "running", "cancelling"}
Working == {"resolve", "candidate", "prepare", "copying", "check", "existing",
            "promote", "backup", "replace", "rollback", "drop", "clean"}
\* A file is absent, or what was there before, or the result of a round of a job.
Absent == <<>>
Original == <<0>>

Entries == {j \in Jobs : state[j] \in Terminal \cup Live}
ActiveJobs == {j \in Jobs : state[j] \in Live}
On(h) == {j \in Entries : job[j].host = h}
Leased(h) == h \in crud \/ \E j \in Jobs : pc[j] \in Working /\ job[j].host = h

\* A step of the environment, that the bound counts, or none.
Event == left > 0 /\ left' = left - 1 /\ UNCHANGED plan
NoEvent == UNCHANGED boundVars
Fails == "io" \in Faults /\ Event
Lost(j) == "lost" \in Faults /\ job[j].dir = "upload" /\ Event

Init ==
    /\ plan \in Plans
    /\ job = [j \in Jobs |-> NoJob]
    /\ state = [j \in Jobs |-> "none"]
    /\ round = [j \in Jobs |-> 0]
    /\ cancelled = {} /\ finished = {} /\ signals = {}
    /\ pc = [j \in Jobs |-> "none"]
    /\ outcome = [j \in Jobs |-> "none"]
    /\ target = [j \in Jobs |-> All]
    /\ dest = [d \in Directions |-> [n \in Names |-> IF n \in Existing THEN Original ELSE Absent]]
    /\ temp = [j \in Jobs |-> [n \in Names |-> "absent"]]
    /\ backup = [j \in Jobs |-> [n \in Names |-> Absent]]
    /\ placed = {}
    /\ retired = {} /\ barred = {} /\ crud = {}
    /\ saved = [h \in Hosts |-> 0]
    /\ sweep = [w \in Hosts \cup {All} |-> "idle"]
    /\ captured = [w \in Hosts \cup {All} |-> {}]
    /\ left = plan.events

-----------------------------------------------------------------------------
(* Requests.                                                               *)

\* The oldest terminal entries that must go to leave room for one more.
Pruned ==
    LET done == {j \in Jobs : state[j] \in Terminal}
        excess == Cardinality(Entries) + 1 - MaxRetained IN
    {j \in done : excess > Cardinality({i \in done : i < j})}

\* A control for a new attempt of j, and the task that performs it.
Begins(j) ==
    /\ cancelled' = cancelled \ {j}
    /\ finished' = finished \ {j}
    /\ pc' = [pc EXCEPT ![j] = "spawned"]
    /\ outcome' = [outcome EXCEPT ![j] = "none"]
    /\ UNCHANGED <<signals, target>>

\* start_upload, start_download; entries are pruned before the limit is checked.
Start(j, h) ==
    /\ job[j] = NoJob /\ plan.asks[j] # NoJob /\ \A i \in 1..(j - 1) : job[i] # NoJob
    /\ sweep[All] = "idle"
    /\ h \notin retired
    /\ Cardinality(ActiveJobs) < MaxActive
    /\ job' = [job EXCEPT ![j] = [plan.asks[j] EXCEPT !.host = h, !.route = saved[h]]]
    /\ state' = [i \in Jobs |-> CASE i = j -> "queued"
                                  [] i \in Pruned -> "gone"
                                  [] OTHER -> state[i]]
    /\ round' = [round EXCEPT ![j] = 1]
    /\ Begins(j)
    /\ UNCHANGED <<fileVars, hostVars, sweepVars, boundVars>>

\* The same, refused at the limit.
StartRefused(h) ==
    /\ sweep[All] = "idle" /\ h \notin retired
    /\ Cardinality(ActiveJobs) >= MaxActive
    /\ Pruned # {}
    /\ state' = [i \in Jobs |-> IF i \in Pruned THEN "gone" ELSE state[i]]
    /\ UNCHANGED <<job, round, controlVars, attemptVars, fileVars, hostVars, sweepVars, boundVars>>

\* The locked part of cancel. The control is cancelled after the unlock.
Cancels(j) ==
    /\ state[j] \in {"queued", "running"}
    /\ state' = [state EXCEPT ![j] = "cancelling"]
    /\ signals' = signals \cup {<<j, round[j]>>}
    /\ UNCHANGED <<job, round, cancelled, finished>>

Cancel(j) ==
    /\ Cancels(j)
    /\ Event
    /\ UNCHANGED <<attemptVars, fileVars, hostVars, sweepVars>>

\* control.cancel(): of the control that was current at the time of the lock.
Signal(j, r) ==
    /\ <<j, r>> \in signals
    /\ signals' = signals \ {<<j, r>>}
    /\ cancelled' = IF r = round[j] THEN cancelled \cup {j} ELSE cancelled
    /\ UNCHANGED <<entryVars, finished, attemptVars, fileVars, hostVars, sweepVars, boundVars>>

\* Faulty: a job that is being cancelled may be queued anew, too.
RetriableEarly == {"cancelling", "cancelled", "failed"}
\* transition: states from which a job may be queued anew.
Retriable == {"cancelled", "failed"}

\* prepare_transfer_retry: the current profile of the host replaces the old one.
Rebound(j) == job' = [job EXCEPT ![j].route = saved[job[j].host]]

\* retry: a new control and a new attempt.
Retry(j) ==
    /\ state[j] \in Retriable
    /\ round[j] < MaxRounds
    /\ sweep[All] = "idle"
    /\ job[j].host \notin retired
    /\ Cardinality(ActiveJobs \ {j}) < MaxActive
    /\ Rebound(j)
    /\ state' = [state EXCEPT ![j] = "queued"]
    /\ round' = [round EXCEPT ![j] = @ + 1]
    /\ Begins(j)
    /\ UNCHANGED <<fileVars, hostVars, sweepVars, boundVars>>

\* apply_host_update with settings that a connection depends on.  (The hosts are
\* reached directly; an edit of a jump host is refused for the same jobs.)
HostUpdate(h) ==
    /\ \A j \in ActiveJobs : job[j].host # h
    /\ saved' = [saved EXCEPT ![h] = @ + 1]
    /\ Event
    /\ UNCHANGED <<entryVars, controlVars, attemptVars, fileVars, retired, barred, crud,
                   sweepVars>>

\* A directory operation of the browser: list, mkdir, rename, delete.
BeginCrud(h) ==
    /\ h \notin barred \cup crud
    /\ crud' = crud \cup {h}
    /\ Event
    /\ UNCHANGED <<entryVars, controlVars, attemptVars, fileVars, retired, barred, saved,
                   sweepVars>>

EndCrud(h) ==
    /\ h \in crud
    /\ crud' = crud \ {h}
    /\ UNCHANGED <<entryVars, controlVars, attemptVars, fileVars, retired, barred, saved,
                   sweepVars, boundVars>>

-----------------------------------------------------------------------------
(* remove_host for a host, and cancel_all.                                 *)

Phase(w, q) == sweep' = [sweep EXCEPT ![w] = q]

\* No new jobs of the host,
Retire(h) ==
    /\ sweep[h] = "idle"
    /\ retired' = retired \cup {h}
    /\ Phase(h, "retired")
    /\ Event
    /\ UNCHANGED <<entryVars, controlVars, attemptVars, fileVars, barred, crud, saved, captured>>

\* and no new SFTP operations.
Bar(h) ==
    /\ sweep[h] = "retired"
    /\ barred' = barred \cup {h}
    /\ Phase(h, "collect")
    /\ UNCHANGED <<entryVars, controlVars, attemptVars, fileVars, retired, crud, saved, captured, boundVars>>

\* The jobs that it cancels and waits for, in any state, with their controls;
\* cancel_all, called by the shutdown after it refuses requests, those in progress.
Collect(w) ==
    /\ IF w = All THEN sweep[w] = "idle" ELSE sweep[w] = "collect"
    /\ captured' = [captured EXCEPT ![w] =
          {<<j, round[j]>> : j \in IF w = All THEN ActiveJobs ELSE On(w)}]
    /\ Phase(w, "cancelling")
    /\ IF w = All THEN Event ELSE NoEvent
    /\ UNCHANGED <<entryVars, controlVars, attemptVars, fileVars, hostVars>>

SweepCancels(w, j) ==
    /\ sweep[w] = "cancelling"
    /\ <<j, round[j]>> \in captured[w]
    /\ Cancels(j)
    /\ UNCHANGED <<attemptVars, fileVars, hostVars, sweepVars, boundVars>>

\* Each of them was cancelled.
SweepWaits(w) ==
    /\ sweep[w] = "cancelling"
    /\ \A c \in captured[w] : state[c[1]] \notin {"queued", "running"}
    /\ captured[w] \cap signals = {}
    /\ Phase(w, "waiting")
    /\ UNCHANGED <<entryVars, controlVars, attemptVars, fileVars, hostVars, captured, boundVars>>

Over(w) == \A c \in captured[w] : c[1] \in finished \/ c[2] < round[c[1]]

\* Faulty: waits for the jobs but not for direct operations.
RemovedBusy(h) == sweep[h] = "waiting" /\ Over(h)
\* All controls are finished and the host is idle.
Removed(h) == sweep[h] = "waiting" /\ Over(h) /\ ~Leased(h)

\* The jobs of the host are purged; or the time of cancel_all is up.
SweepEnds(w) ==
    /\ IF w = All THEN sweep[w] = "waiting" /\ Over(w) ELSE Removed(w)
    /\ state' = [j \in Jobs |-> IF w # All /\ j \in On(w) THEN "gone" ELSE state[j]]
    /\ Phase(w, "done")
    /\ UNCHANGED <<job, round, controlVars, attemptVars, fileVars, hostVars, captured, boundVars>>

SweepTimesOut(w) ==
    /\ "slow" \in Faults /\ Event
    /\ sweep[w] = "waiting"
    /\ Phase(w, IF w = All THEN "done" ELSE "failed")
    /\ UNCHANGED <<entryVars, controlVars, attemptVars, fileVars, hostVars, captured>>

\* restore_host, when the retirement failed or the deletion is aborted later.
Restore(h) ==
    /\ sweep[h] \in {"failed", "done"}
    /\ retired' = retired \ {h}
    /\ Phase(h, "restoring")
    /\ UNCHANGED <<entryVars, controlVars, attemptVars, fileVars, barred, crud, saved, captured, boundVars>>

RestoreBarrier(h) ==
    /\ sweep[h] = "restoring"
    /\ barred' = barred \ {h}
    /\ captured' = [captured EXCEPT ![h] = {}]
    /\ Phase(h, "idle")
    /\ UNCHANGED <<entryVars, controlVars, attemptVars, fileVars, retired, crud, saved, boundVars>>

-----------------------------------------------------------------------------
(* The task of an attempt.                                                 *)

At(j, p) == pc[j] = p
Goes(j, p) == pc' = [pc EXCEPT ![j] = p]
\* The attempt is about to return o; it has nothing to clean up, or its temporary.
Ends(j, o) == Goes(j, "end") /\ outcome' = [outcome EXCEPT ![j] = o]
Cleans(j, o) == Goes(j, "clean") /\ outcome' = [outcome EXCEPT ![j] = o]
Proceeds(j, p) == Goes(j, p) /\ UNCHANGED outcome
Contents(j) == dest[job[j].dir][target[j]]
HasTemp(j, t) == temp' = [temp EXCEPT ![j][target[j]] = t]
Writes(j, c) == dest' = [dest EXCEPT ![job[j].dir][target[j]] = c]
Backs(j, c) == backup' = [backup EXCEPT ![j][target[j]] = c]

Quiet == UNCHANGED <<hostVars, sweepVars>>
NoEntry == UNCHANGED <<entryVars, controlVars>>
NoFile == UNCHANGED fileVars

\* execute: the attempt starts, unless the job was cancelled before. A cancel
\* whose control is not yet cancelled makes the transition to running fail.
Execute(j) ==
    /\ At(j, "spawned")
    /\ CASE state[j] = "gone" -> Goes(j, "none") /\ UNCHANGED state
         [] state[j] # "gone" /\ j \in cancelled ->
              Goes(j, "mark") /\ state' = [state EXCEPT ![j] = "cancelled"]
         [] state[j] = "queued" /\ j \notin cancelled ->
              Goes(j, "begin") /\ state' = [state EXCEPT ![j] = "running"]
         [] OTHER -> Goes(j, "mark") /\ state' = [state EXCEPT ![j] = "failed"]
    /\ UNCHANGED <<job, round, controlVars, outcome, target>> /\ NoFile /\ Quiet /\ NoEvent

\* begin_host_operation: the lease on the host.
BeginAttempt(j) ==
    /\ At(j, "begin")
    /\ IF job[j].host \in barred THEN Ends(j, "failed") ELSE Proceeds(j, "resolve")
    /\ UNCHANGED target /\ NoEntry /\ NoFile /\ Quiet /\ NoEvent

\* The preflight: a cancel or a failure ends the attempt with nothing to clean up.
PreflightStops(j) ==
    /\ \E p \in {"resolve", "candidate", "prepare"} : At(j, p)
    /\ \/ j \in cancelled /\ Ends(j, "cancelled") /\ NoEvent
       \/ Fails /\ Ends(j, "failed")
    /\ UNCHANGED target /\ NoEntry /\ NoFile /\ Quiet

\* resolve_remote_conflict, resolve_local_conflict: the requested name, when it is
\* free or may be overwritten.
Resolve(j) ==
    /\ At(j, "resolve") /\ j \notin cancelled
    /\ target' = [target EXCEPT ![j] = job[j].name]
    /\ CASE dest[job[j].dir][job[j].name] = Absent \/ job[j].policy = "overwrite" ->
              Proceeds(j, "prepare")
         [] OTHER -> CASE job[j].policy = "ask" -> Ends(j, "failed")
                       [] job[j].policy = "skip" -> Ends(j, "skipped")
                       [] OTHER -> Proceeds(j, "candidate")
    /\ NoEntry /\ NoFile /\ Quiet /\ NoEvent

\* The first of the numbered names that is free.
Candidate(j) ==
    /\ At(j, "candidate") /\ j \notin cancelled
    /\ LET free == {n \in Names \ {job[j].name} : dest[job[j].dir][n] = Absent} IN
       IF free = {} THEN Ends(j, "failed") /\ UNCHANGED target
       ELSE \E n \in free : target' = [target EXCEPT ![j] = n] /\ Proceeds(j, "prepare")
    /\ NoEntry /\ NoFile /\ Quiet /\ NoEvent

\* An upload refuses a temporary that an earlier attempt left behind, a download
\* removes it. The temporary exists from here on.
Prepare(j) ==
    /\ At(j, "prepare") /\ j \notin cancelled
    /\ IF job[j].dir = "upload" /\ temp[j][target[j]] # "absent"
       THEN Ends(j, "failed") /\ UNCHANGED temp
       ELSE Proceeds(j, "copying") /\ HasTemp(j, "partial")
    /\ UNCHANGED <<target, dest, backup, placed>> /\ NoEntry /\ Quiet /\ NoEvent

\* The put or get batch ends.  A child that cannot be killed after a cancellation
\* or at TRANSFER_TIMEOUT leaves its temporary behind.
Copy(j) ==
    /\ At(j, "copying")
    /\ \/ j \notin cancelled /\ Proceeds(j, "check") /\ HasTemp(j, "complete") /\ NoEvent
       \/ j \in cancelled /\ Cleans(j, "cancelled") /\ UNCHANGED temp /\ NoEvent
       \/ Fails /\ Cleans(j, "failed") /\ UNCHANGED temp
       \/ "stuck" \in Faults /\ Event /\ Ends(j, "failed") /\ UNCHANGED temp
    /\ UNCHANGED <<target, dest, backup, placed>> /\ NoEntry /\ Quiet

\* The last look at the cancellation.
CheckCancelled(j) ==
    /\ At(j, "check")
    /\ IF j \in cancelled THEN Cleans(j, "cancelled") ELSE Proceeds(j, "existing")
    /\ UNCHANGED target /\ NoEntry /\ NoFile /\ Quiet /\ NoEvent

\* Is there something at the destination now? A failure of the question itself is
\* returned by an upload without removing the temporary.
LookForExisting(j) ==
    /\ At(j, "existing")
    /\ \/ /\ CASE Contents(j) = Absent -> Proceeds(j, "promote")
               [] Contents(j) # Absent /\ job[j].policy = "overwrite" -> Proceeds(j, "backup")
               [] OTHER -> Cleans(j, "failed")
          /\ NoEvent
       \/ Fails /\ IF job[j].dir = "upload" THEN Ends(j, "failed") ELSE Cleans(j, "failed")
    /\ UNCHANGED target /\ NoEntry /\ NoFile /\ Quiet

\* The rename of the temporary to the destination is carried out. The contents
\* are the attempt's, and a file that appeared since is replaced.
Places(j) ==
    /\ Writes(j, <<j, round[j]>>)
    /\ HasTemp(j, "absent")
    /\ placed' = placed \cup {<<j, round[j]>>}
    /\ UNCHANGED backup

Promote(j) ==
    /\ At(j, "promote")
    /\ \/ Places(j) /\ Ends(j, "completed") /\ NoEvent
       \/ Lost(j) /\ Places(j) /\ Cleans(j, "failed")
       \/ Fails /\ NoFile /\ Cleans(j, "failed")
    /\ UNCHANGED target /\ NoEntry /\ Quiet

\* The destination becomes the job's backup, unless one is preserved there.
Backup(j) ==
    /\ At(j, "backup")
    /\ \/ /\ backup[j][target[j]] = Absent /\ Contents(j) # Absent
          /\ Backs(j, Contents(j)) /\ Writes(j, Absent)
          /\ \/ Proceeds(j, "replace") /\ NoEvent
             \/ Lost(j) /\ Cleans(j, "failed")
       \/ /\ \/ Fails
             \/ (backup[j][target[j]] # Absent \/ Contents(j) = Absent) /\ NoEvent
          /\ Cleans(j, "failed") /\ UNCHANGED <<dest, backup>>
    /\ UNCHANGED <<target, temp, placed>> /\ NoEntry /\ Quiet

Replace(j) ==
    /\ At(j, "replace")
    /\ \/ Places(j) /\ Proceeds(j, "drop") /\ NoEvent
       \/ Lost(j) /\ Places(j) /\ Proceeds(j, "rollback")
       \/ Fails /\ NoFile /\ Proceeds(j, "rollback")
    /\ UNCHANGED target /\ NoEntry /\ Quiet

\* Faulty: the backup is removed when the replacement failed.
RollbackDrops(j) ==
    /\ At(j, "rollback")
    /\ Backs(j, Absent) /\ Cleans(j, "failed")
    /\ UNCHANGED <<target, dest, temp, placed>> /\ NoEntry /\ Quiet /\ NoEvent
\* The backup becomes the destination again; if that fails, the error names it.
Rollback(j) ==
    /\ At(j, "rollback")
    /\ \/ Writes(j, backup[j][target[j]]) /\ Backs(j, Absent) /\ NoEvent
       \/ Fails /\ UNCHANGED <<dest, backup>>
    /\ Cleans(j, "failed")
    /\ UNCHANGED <<target, temp, placed>> /\ NoEntry /\ Quiet

\* The backup is removed; a failure leaves it, and the job is failed.
DropBackup(j) ==
    /\ At(j, "drop")
    /\ \/ Backs(j, Absent) /\ Ends(j, "completed") /\ NoEvent
       \/ Lost(j) /\ Backs(j, Absent) /\ Cleans(j, "failed")
       \/ Fails /\ UNCHANGED backup /\ Cleans(j, "failed")
    /\ UNCHANGED <<target, dest, temp, placed>> /\ NoEntry /\ Quiet

\* remove_remote_temp, remove_local_temp_if_owned.
Clean(j) ==
    /\ At(j, "clean")
    /\ \/ HasTemp(j, "absent") /\ Proceeds(j, "end") /\ NoEvent
       \/ Fails /\ Ends(j, "failed") /\ UNCHANGED temp
    /\ UNCHANGED <<target, dest, backup, placed>> /\ NoEntry /\ Quiet

\* Faulty: a job whose control is cancelled by now is cancelled.
ReportedByFlag(j) ==
    CASE j \in cancelled -> "cancelled"
      [] outcome[j] = "skipped" -> "completed"
      [] OTHER -> outcome[j]
Reported(j) == IF outcome[j] = "skipped" THEN "completed" ELSE outcome[j]

\* execute: the result, whatever the state is by now; the lease is given back.
Finish(j) ==
    /\ At(j, "end")
    /\ state' = [state EXCEPT ![j] = Reported(j)]
    /\ Goes(j, "mark")
    /\ UNCHANGED <<job, round, controlVars, outcome, target>> /\ NoFile /\ Quiet /\ NoEvent

\* mark_finished, after the unlock.
MarkFinished(j) ==
    /\ At(j, "mark")
    /\ Goes(j, "none")
    /\ finished' = finished \cup {j}
    /\ UNCHANGED <<entryVars, cancelled, signals, outcome, target>> /\ NoFile /\ Quiet /\ NoEvent

-----------------------------------------------------------------------------
RequestStep ==
    \/ \E j \in Jobs, h \in Hosts : Start(j, h)
    \/ \E h \in Hosts : StartRefused(h) \/ HostUpdate(h) \/ BeginCrud(h) \/ EndCrud(h)
    \/ \E j \in Jobs : Cancel(j) \/ Retry(j)

SignalStep == \E j \in Jobs, r \in 1..MaxRounds : Signal(j, r)

AttemptStep(j) ==
    \/ Execute(j) \/ BeginAttempt(j) \/ PreflightStops(j) \/ Resolve(j) \/ Candidate(j)
    \/ Prepare(j) \/ Copy(j) \/ CheckCancelled(j) \/ LookForExisting(j) \/ Promote(j)
    \/ Backup(j) \/ Replace(j) \/ Rollback(j) \/ DropBackup(j) \/ Clean(j) \/ Finish(j)
    \/ MarkFinished(j)

RemovalStep(w) ==
    \/ w # All /\ (Retire(w) \/ Bar(w))
    \/ Collect(w) \/ SweepWaits(w) \/ SweepEnds(w) \/ SweepTimesOut(w)
    \/ \E j \in Jobs : SweepCancels(w, j)

RestoreStep(h) == Restore(h) \/ RestoreBarrier(h)

Next ==
    \/ RequestStep \/ SignalStep
    \/ \E j \in Jobs : AttemptStep(j)
    \/ \E w \in Hosts \cup {All} : RemovalStep(w)
    \/ \E h \in Hosts : RestoreStep(h)

Spec == Init /\ [][Next]_vars

-----------------------------------------------------------------------------
(* Properties.                                                             *)

\* An overwrite first moves the old file aside, then renames the new one into
\* place, and any of the steps may fail or be done without an answer: the file
\* that was there is at its name, replaced by a completed copy, or in a backup.
NeverNeither ==
    \A d \in Directions : \A n \in Existing :
        \/ dest[d][n] # Absent
        \/ \E j \in Jobs : job[j].dir = d /\ backup[j][n] # Absent

\* What a job reports about its attempt is what happened to the destination:
\* completed and not skipped means that its result was placed there, cancelled
\* means that it was not, and that the attempt left nothing of its own behind. A
\* failed one may have been carried out. (A temporary of an earlier attempt may
\* still be there.)
OutcomeIsTrue ==
    \A j \in Entries :
        /\ state[j] = "completed" /\ outcome[j] # "skipped" => <<j, round[j]>> \in placed
        /\ state[j] = "cancelled" =>
              /\ <<j, round[j]>> \notin placed
              /\ round[j] = 1 => \A n \in Names : temp[j][n] = "absent" /\ backup[j][n] = Absent

\* One task per job: a retry starts a new attempt only when the one before has
\* reported its end, so two attempts never write the same temporary.
OneAttempt ==
    [][\A j \in Jobs : round'[j] # round[j] => pc[j] \in {"none", "mark"}]_vars

\* When remove_host has succeeded, nothing of the host is left: no job that could
\* be retried with the old profile, no task and no sftp operation.
RetiredHostIsQuiet ==
    \A h \in Hosts : sweep[h] = "done" =>
        On(h) = {} /\ ~Leased(h) /\ \A j \in Jobs : job[j].host = h => pc[j] \in {"none", "mark"}

=============================================================================
