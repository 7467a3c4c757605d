--------------------- MODULE TransfersAndEvents_proofs ---------------------
(***************************************************************************)
(* Proofs about Transfers, for any hosts, names, plans, limits, faults and *)
(* number of jobs and retries, and about EventStream, for any limits of    *)
(* the log, sizes of events and number of changes and connections.         *)
(*                                                                         *)
(* Transfers: JobInv(j) relates what the registry shows of a job to the    *)
(* task of its attempt: a job that may be retried or pruned has no task    *)
(* that works.  FileInv(j) says what each step of an attempt has           *)
(* established about its own files, RemovalInv(h) what remove_host knows   *)
(* at each of its phases.  SafeInv strengthens NeverNeither: a file that   *)
(* is not at its name is in a backup that nobody is about to remove, since *)
(* an attempt that removes its backup has put a file at the name after it  *)
(* made that backup.                                                       *)
(*                                                                         *)
(* EventStream: a client misses nothing when what is under way to it, what *)
(* the handler replays and what the receiver of the broadcast has yet to   *)
(* deliver follow one another (Follows), or when it is told to resync      *)
(* first (OnlyResync).  The handler subscribes before it reads the log, so *)
(* the receiver is never ahead of the end of the replay.                   *)
(***************************************************************************)
EXTENDS Transfers, EventStream, NaturalsInduction, WellFoundedInduction, TLAPS

-----------------------------------------------------------------------------
(* Transfers.                                                              *)
Fresh == {"spawned", "begin", "resolve", "candidate", "prepare"}
Copying == {"copying", "check"}
\* The attempt has not renamed anything to the destination.
Unplaced == Fresh \cup Copying \cup {"existing", "promote", "backup", "replace"}
Attempt == {"begin", "end"} \cup Working
Pcs == {"none", "spawned", "mark"} \cup Attempt
JobStates == {"none", "gone"} \cup Live \cup Terminal
Results == {"completed", "cancelled", "failed", "skipped"}
Files == {Absent, Original} \cup (Jobs \X Nat)
Requested == [host : Hosts, dir : Directions, policy : Policies, name : Names, route : Nat]
Phases == {"idle", "retired", "collect", "cancelling", "waiting", "done", "failed", "restoring"}

Types ==
    /\ plan \in Plans
    /\ job \in [Jobs -> Requested \cup {NoJob}]
    /\ state \in [Jobs -> JobStates]
    /\ round \in [Jobs -> Nat]
    /\ pc \in [Jobs -> Pcs]
    /\ outcome \in [Jobs -> Results \cup {"none"}]
    /\ target \in [Jobs -> Names \cup {All}]
    /\ dest \in [Directions -> [Names -> Files]]
    /\ temp \in [Jobs -> [Names -> {"absent", "partial", "complete"}]]
    /\ backup \in [Jobs -> [Names -> Files]]
    /\ placed \subseteq Jobs \X Nat
    /\ saved \in [Hosts -> Nat]
    /\ sweep \in [Hosts \cup {All} -> Phases]
    /\ captured \in [Hosts \cup {All} -> SUBSET (Jobs \X Nat)]

JobInv(j) ==
    /\ state[j] = "none" <=> job[j] = NoJob
    /\ round[j] = 0 <=> job[j] = NoJob
    /\ pc[j] \in {"none", "mark"} <=> state[j] \notin Live
    /\ pc[j] = "spawned" => state[j] \in {"queued", "cancelling"}
    /\ pc[j] \in Attempt => state[j] \in {"running", "cancelling"}
    /\ j \in finished => pc[j] = "none"

\* Nothing of job j is left, but perhaps the temporary that it works on.
Tidy(j) ==
    /\ \A n \in Names : backup[j][n] = Absent
    /\ \A n \in Names : \/ temp[j][n] = "absent"
                        \/ pc[j] \in Copying \cup {"clean"} /\ n = target[j]

\* What the result of the attempt says of the destination.
ResultInv(j) ==
    /\ \A r \in Nat : <<j, r>> \in placed => r <= round[j]
    /\ pc[j] \in Unplaced => <<j, round[j]>> \notin placed /\ outcome[j] = "none"
    /\ pc[j] \in {"rollback", "drop"} => outcome[j] = "none"
    /\ pc[j] = "drop" => <<j, round[j]>> \in placed
    /\ pc[j] = "clean" => outcome[j] \in {"cancelled", "failed"}
    /\ pc[j] = "end" => outcome[j] \in Results
    /\ outcome[j] = "completed" => <<j, round[j]>> \in placed
    /\ state[j] = "completed" => outcome[j] \in {"completed", "skipped"}
    /\ outcome[j] = "cancelled" \/ state[j] = "cancelled" => <<j, round[j]>> \notin placed

\* Where the attempt works, and when it has made a backup.
TargetInv(j) ==
    /\ pc[j] \in Working \ {"resolve"} => target[j] \in Names
    /\ pc[j] \in {"replace", "rollback", "drop"} => backup[j][target[j]] # Absent

\* When there is nothing of an earlier attempt, this one cleans up after itself.
LeavesInv(j) ==
    /\ job[j] = NoJob => Tidy(j)
    /\ round[j] = 1 /\ (pc[j] \in Fresh \cup Copying \/ outcome[j] = "cancelled" \/ state[j] = "cancelled")
          => Tidy(j)

FileInv(j) == ResultInv(j) /\ TargetInv(j) /\ LeavesInv(j)

RemovalInv(h) ==
    /\ sweep[h] \notin {"idle", "restoring"} => h \in retired
    /\ sweep[h] \notin {"idle", "retired"} => h \in barred
    /\ sweep[h] \in {"cancelling", "waiting"} => \A j \in On(h) : <<j, round[j]>> \in captured[h]
    /\ sweep[h] = "done" => On(h) = {} /\ h \notin crud

SafeInv ==
    \A d \in Directions, n \in Existing :
        \/ dest[d][n] # Absent
        \/ \E j \in Jobs : /\ job[j].dir = d /\ backup[j][n] # Absent
                           /\ ~(pc[j] = "drop" /\ target[j] = n)

\* The inductive invariant.
Inv ==
    /\ Types
    /\ \A j \in Jobs : JobInv(j)
    /\ \A j \in Jobs : FileInv(j)
    /\ \A h \in Hosts : RemovalInv(h)
    /\ SafeInv

\* Absent is not the contents of any file.
LEMMA Contentful == Original # Absent /\ \A j \in Jobs, r \in Nat : <<j, r>> # Absent
<1>1. Len(Absent) = 0 /\ Len(Original) = 1 /\ \A j \in Jobs, r \in Nat : Len(<<j, r>>) = 2
    BY DEF Absent, Original
<1> QED
    BY <1>1

\* No job that is asked for is NoJob.
LEMMA AsksForSomething == NoJob \notin Requested
BY TransfersAssumption DEF NoJob, Requested

\* What is left to show of a step of the attempt of job g.
LEMMA AttemptKept ==
    ASSUME Inv, NEW g \in Jobs, Quiet, UNCHANGED <<plan, job, round>>, finished' \subseteq finished \cup {g},
           state' \in [Jobs -> JobStates], pc' \in [Jobs -> Pcs],
           outcome' \in [Jobs -> Results \cup {"none"}], target' \in [Jobs -> Names \cup {All}],
           dest' \in [Directions -> [Names -> Files]],
           temp' \in [Jobs -> [Names -> {"absent", "partial", "complete"}]],
           backup' \in [Jobs -> [Names -> Files]],
           placed \subseteq placed', placed' \subseteq placed \cup {<<g, round[g]>>},
           \A j \in Jobs \ {g} : /\ state'[j] = state[j] /\ pc'[j] = pc[j] /\ outcome'[j] = outcome[j]
                                 /\ target'[j] = target[j] /\ temp'[j] = temp[j] /\ backup'[j] = backup[j],
           state[g] \in {"none", "gone"} <=> state'[g] \in {"none", "gone"},
           JobInv(g)', FileInv(g)', SafeInv'
    PROVE  Inv'
<1>1. Types'
    BY DEF Inv, Types, Quiet, hostVars, sweepVars
<1>2. ASSUME NEW j \in Jobs PROVE JobInv(j)'
    BY DEF Inv, JobInv
<1>3. ASSUME NEW j \in Jobs PROVE FileInv(j)'
    <2>1. CASE j # g
        <3>1. \A r \in Nat : <<j, r>> \in placed' <=> <<j, r>> \in placed
            BY <2>1
        <3> QED
            BY <2>1, <3>1 DEF Inv, Types, FileInv, ResultInv, TargetInv, LeavesInv, Tidy
    <2> QED
        BY <2>1
<1>4. ASSUME NEW h \in Hosts PROVE RemovalInv(h)'
    <2>1. \A j \in Jobs : state'[j] \in Terminal \cup Live <=> state[j] \in Terminal \cup Live
        BY DEF Inv, Types, JobStates, Terminal, Live
    <2>2. On(h)' = On(h)
        BY <2>1 DEF On, Entries
    <2> QED
        BY <2>2 DEF Inv, RemovalInv, Quiet, hostVars, sweepVars
<1> QED
    BY <1>1, <1>2, <1>3, <1>4 DEF Inv

\* A step that changes neither backups nor destinations keeps them safe, unless it
\* begins to remove a backup.
LEMMA SafeKept ==
    ASSUME Inv, NEW g \in Jobs, UNCHANGED <<job, dest, backup>>,
           \A j \in Jobs \ {g} : pc'[j] = pc[j] /\ target'[j] = target[j],
           pc'[g] # "drop"
    PROVE  SafeInv'
BY DEF Inv, SafeInv

-----------------------------------------------------------------------------
(* The attempt of a job.                                                   *)

\* The attempt of g is at stage p, and goes to stage q with result o.
Moves(g, p, q, o) ==
    /\ pc[g] = p /\ pc' = [pc EXCEPT ![g] = q]
    /\ outcome' = [outcome EXCEPT ![g] = o]

\* The attempt of g after such a step.
LEMMA MovesFacts ==
    ASSUME Types, NEW g \in Jobs, NEW p \in Pcs, NEW q \in Pcs, NEW o \in Results \cup {"none"},
           Moves(g, p, q, o)
    PROVE  /\ pc' \in [Jobs -> Pcs] /\ pc[g] = p /\ pc'[g] = q
           /\ outcome' \in [Jobs -> Results \cup {"none"}] /\ outcome'[g] = o
           /\ \A j \in Jobs \ {g} : pc'[j] = pc[j] /\ outcome'[j] = outcome[j]
BY DEF Types, Moves

\* A step of the attempt that touches no file and goes on, or ends with a result
\* that it has not placed anything, keeps what is known about the attempt's files.
LEMMA LookKept ==
    ASSUME Inv, NEW g \in Jobs, NEW p \in Pcs, NEW q \in Pcs, NEW o \in Results \cup {"none"},
           Moves(g, p, q, o), NoFile, UNCHANGED <<plan, job, state, round, finished>>, Quiet,
           target' \in [Jobs -> Names \cup {All}], \A j \in Jobs \ {g} : target'[j] = target[j],
           \/ /\ p \in {"begin", "resolve", "candidate", "check", "existing"} /\ o = outcome[g]
              /\ q \in {"resolve", "candidate", "prepare", "existing", "promote", "backup"}
              /\ q \in {"resolve", "candidate", "prepare"} <=> p \in {"begin", "resolve", "candidate"}
              /\ p = "check" <=> q = "existing"
              /\ q # "resolve" => target'[g] \in Names
           \/ /\ p \in Fresh \ {"spawned"} /\ q = "end" /\ o \in {"cancelled", "failed", "skipped"}
           \/ /\ p = "check" /\ q = "clean" /\ o = "cancelled" /\ target' = target
           \/ /\ p = "existing" /\ q \in {"clean", "end"} /\ o = "failed" /\ target' = target
    PROVE  Inv'
<1>0. Types /\ JobInv(g) /\ FileInv(g)
    BY DEF Inv
<1>1. /\ pc' \in [Jobs -> Pcs] /\ pc[g] = p /\ pc'[g] = q
      /\ outcome' \in [Jobs -> Results \cup {"none"}] /\ outcome'[g] = o
      /\ \A j \in Jobs \ {g} : pc'[j] = pc[j] /\ outcome'[j] = outcome[j]
    BY <1>0, MovesFacts
<1>2. UNCHANGED <<dest, temp, backup, placed>>
    BY DEF NoFile, fileVars
<1>3. p \in Attempt /\ q \in Attempt \ {"drop"}
    BY DEF Attempt, Working, Fresh
<1>4. JobInv(g)'
    BY <1>0, <1>1, <1>3 DEF JobInv, Attempt, Working
<1>5. SafeInv'
    BY <1>1, <1>2, <1>3, SafeKept
<1>6. state[g] \in {"running", "cancelling"} /\ job[g] # NoJob
    BY <1>0, <1>1, <1>3 DEF JobInv
<1>7. Tidy(g) /\ p \in {"begin", "resolve", "candidate", "prepare"} => Tidy(g)'
    BY <1>1, <1>2 DEF Tidy, Copying
<1>8. Tidy(g) /\ p = "check" /\ q = "clean" => Tidy(g)'
    BY <1>1, <1>2 DEF Tidy, Copying
<1>9. ResultInv(g)'
    BY <1>0, <1>1, <1>2 DEF FileInv, ResultInv, Unplaced, Fresh, Copying, Results
<1>10. TargetInv(g)'
    BY <1>0, <1>1, <1>2 DEF FileInv, TargetInv, Fresh, Working
<1>11. LeavesInv(g)'
    <2>1. job'[g] # NoJob /\ state'[g] # "cancelled" /\ round'[g] = round[g]
        BY <1>6
    <2>2. p \in Fresh \cup Copying \cup {"existing"} /\ outcome[g] = "none"
        BY <1>0, <1>1 DEF FileInv, ResultInv, Fresh, Copying, Unplaced
    <2>3. round[g] = 1 /\ p # "existing" /\ q # "existing" => Tidy(g)'
        BY <1>0, <1>1, <1>7, <1>8, <2>2 DEF FileInv, LeavesInv, Fresh, Copying
    <2>4. p = "existing" \/ q = "existing" => q \notin Fresh \cup Copying /\ o # "cancelled"
        BY <2>2 DEF Fresh, Copying
    <2> QED
        BY <1>1, <2>1, <2>3, <2>4 DEF LeavesInv
<1>12. FileInv(g)'
    BY <1>9, <1>10, <1>11 DEF FileInv
<1> QED
    BY <1>0, <1>1, <1>2, <1>4, <1>5, <1>12, AttemptKept DEF Types

\* The step of BeginAttempt, PreflightStops, Resolve, Candidate, CheckCancelled or
\* LookForExisting.
LEMMA LookStep ==
    ASSUME Inv, NEW g \in Jobs,
           BeginAttempt(g) \/ PreflightStops(g) \/ Resolve(g) \/ Candidate(g)
           \/ CheckCancelled(g) \/ LookForExisting(g)
    PROVE  Inv'
<1> DEFINE Looks(p, q, o) ==
       \/ /\ p \in {"begin", "resolve", "candidate", "check", "existing"} /\ o = outcome[g]
          /\ q \in {"resolve", "candidate", "prepare", "existing", "promote", "backup"}
          /\ q \in {"resolve", "candidate", "prepare"} <=> p \in {"begin", "resolve", "candidate"}
          /\ p = "check" <=> q = "existing"
          /\ q # "resolve" => target'[g] \in Names
       \/ /\ p \in Fresh \ {"spawned"} /\ q = "end" /\ o \in {"cancelled", "failed", "skipped"}
       \/ /\ p = "check" /\ q = "clean" /\ o = "cancelled" /\ target' = target
       \/ /\ p = "existing" /\ q \in {"clean", "end"} /\ o = "failed" /\ target' = target
<1>0. Types /\ JobInv(g) /\ TargetInv(g)
    BY DEF Inv, FileInv
<1>1. UNCHANGED <<plan, job, state, round, finished>> /\ NoFile /\ Quiet
    BY DEF BeginAttempt, PreflightStops, Resolve, Candidate, CheckCancelled, LookForExisting,
           NoEntry, NoEvent, Fails, Event, entryVars, controlVars, boundVars
<1>2. pc[g] \in Attempt
    BY DEF BeginAttempt, PreflightStops, Resolve, Candidate, CheckCancelled, LookForExisting,
           At, Attempt, Working
<1>3. job[g] \in Requested
    BY <1>0, <1>2 DEF Types, JobInv
<1>4. outcome = [outcome EXCEPT ![g] = outcome[g]] /\ outcome[g] \in Results \cup {"none"}
    BY <1>0 DEF Types
<1> DEFINE LooksAhead == \E p \in Pcs, q \in Pcs, o \in Results \cup {"none"} : Moves(g, p, q, o) /\ Looks(p, q, o)
           Aimed == target' \in [Jobs -> Names \cup {All}] /\ \A j \in Jobs \ {g} : target'[j] = target[j]
<1>5. LooksAhead /\ Aimed
    <2> USE DEF Moves, Goes, Ends, Cleans, Proceeds, At, Results, Pcs, Attempt, Working, Fresh
    <2>1. CASE BeginAttempt(g)
        BY <1>0, <1>4, <2>1 DEF BeginAttempt, Types
    <2>2. CASE PreflightStops(g)
        BY <1>0, <1>4, <2>2 DEF PreflightStops, Types
    <2>3. CASE Resolve(g)
        <3>1. target' = [target EXCEPT ![g] = job[g].name] /\ job[g].name \in Names /\ pc[g] = "resolve"
            BY <1>3, <2>3 DEF Resolve, Requested
        <3>2. Aimed /\ target'[g] \in Names
            BY <1>0, <3>1 DEF Types
        <3>3. \/ Moves(g, "resolve", "prepare", outcome[g])
              \/ Moves(g, "resolve", "candidate", outcome[g])
              \/ Moves(g, "resolve", "end", "failed")
              \/ Moves(g, "resolve", "end", "skipped")
            BY <1>4, <2>3 DEF Resolve
        <3> QED
            BY <1>4, <3>2, <3>3
    <2>4. CASE Candidate(g)
        <3>1. CASE \E n \in Names : target' = [target EXCEPT ![g] = n] /\ Proceeds(g, "prepare")
            <4>1. Aimed /\ target'[g] \in Names
                BY <1>0, <3>1 DEF Types
            <4> QED
                BY <1>4, <2>4, <3>1, <4>1 DEF Candidate
        <3>2. CASE Ends(g, "failed") /\ UNCHANGED target
            BY <1>0, <1>4, <2>4, <3>2 DEF Candidate, Types
        <3> QED
            BY <2>4, <3>1, <3>2 DEF Candidate
    <2>5. CASE CheckCancelled(g)
        <3>1. target' = target /\ Aimed /\ target[g] \in Names
            BY <1>0, <2>5 DEF CheckCancelled, Types, TargetInv
        <3>2. Moves(g, "check", "existing", outcome[g]) \/ Moves(g, "check", "clean", "cancelled")
            BY <1>4, <2>5 DEF CheckCancelled
        <3> QED
            BY <1>4, <3>1, <3>2
    <2>6. CASE LookForExisting(g)
        <3>1. target' = target /\ Aimed /\ target[g] \in Names
            BY <1>0, <2>6 DEF LookForExisting, Types, TargetInv
        <3>2. \/ Moves(g, "existing", "promote", outcome[g]) \/ Moves(g, "existing", "backup", outcome[g])
              \/ Moves(g, "existing", "clean", "failed") \/ Moves(g, "existing", "end", "failed")
            BY <1>4, <2>6 DEF LookForExisting
        <3> QED
            BY <1>4, <3>1, <3>2
    <2> QED
        BY <2>1, <2>2, <2>3, <2>4, <2>5, <2>6
<1>6. PICK p \in Pcs, q \in Pcs, o \in Results \cup {"none"} : Moves(g, p, q, o) /\ Looks(p, q, o)
    BY <1>5
<1> QED
    BY <1>1, <1>5, <1>6, LookKept

\* A step of the attempt that changes its temporary only.
LEMMA TempKept ==
    ASSUME Inv, NEW g \in Jobs, NEW p \in Pcs, NEW q \in Pcs, NEW o \in Results \cup {"none"},
           NEW t \in {"absent", "partial", "complete"},
           Moves(g, p, q, o), Quiet,
           UNCHANGED <<plan, job, state, round, finished, target, dest, backup, placed>>,
           temp' = temp \/ HasTemp(g, t),
           \/ /\ (p = "prepare" /\ q = "copying") \/ (p = "copying" /\ q = "check")
              /\ o = outcome[g]
           \/ p \in {"prepare", "copying", "clean"} /\ q = "end" /\ o = "failed"
           \/ p = "copying" /\ q = "clean" /\ o \in {"cancelled", "failed"} /\ temp' = temp
           \/ p = "clean" /\ q = "end" /\ o = outcome[g] /\ HasTemp(g, t) /\ t = "absent"
    PROVE  Inv'
<1>0. Types /\ JobInv(g) /\ ResultInv(g) /\ TargetInv(g) /\ LeavesInv(g)
    BY DEF Inv, FileInv
<1>1. /\ pc' \in [Jobs -> Pcs] /\ pc[g] = p /\ pc'[g] = q
      /\ outcome' \in [Jobs -> Results \cup {"none"}] /\ outcome'[g] = o
      /\ \A j \in Jobs \ {g} : pc'[j] = pc[j] /\ outcome'[j] = outcome[j]
    BY <1>0, MovesFacts
<1>2. p \in Attempt /\ q \in Attempt \ {"drop"}
    BY DEF Attempt, Working
<1>3. state[g] \in {"running", "cancelling"} /\ job[g] # NoJob
    BY <1>0, <1>1, <1>2 DEF JobInv
<1>4. /\ temp' \in [Jobs -> [Names -> {"absent", "partial", "complete"}]]
      /\ \A j \in Jobs \ {g} : temp'[j] = temp[j]
      /\ \A n \in Names \ {target[g]} : temp'[g][n] = temp[g][n]
      /\ HasTemp(g, t) => \A n \in Names : n = target[g] => temp'[g][n] = t
    <2>1. target[g] \in Names
        BY <1>0, <1>1 DEF TargetInv, Working
    <2>2. temp \in [Jobs -> [Names -> {"absent", "partial", "complete"}]]
        BY <1>0 DEF Types
    <2>3. CASE HasTemp(g, t)
        <3>1. temp' = [temp EXCEPT ![g] = [temp[g] EXCEPT ![target[g]] = t]]
            BY <2>3 DEF HasTemp
        <3>2. [temp[g] EXCEPT ![target[g]] = t] \in [Names -> {"absent", "partial", "complete"}]
            BY <2>2
        <3>3. temp'[g] = [temp[g] EXCEPT ![target[g]] = t]
            BY <2>2, <3>1
        <3> QED
            BY <2>1, <2>2, <3>1, <3>2, <3>3
    <2>4. CASE temp' = temp /\ ~HasTemp(g, t)
        BY <2>2, <2>4
    <2> QED
        BY <2>3, <2>4
<1>5. JobInv(g)'
    BY <1>0, <1>1, <1>2 DEF JobInv, Attempt, Working
<1>6. SafeInv'
    BY <1>1, <1>2, SafeKept
<1>7. ResultInv(g)'
    BY <1>0, <1>1 DEF ResultInv, Unplaced, Fresh, Copying, Results
<1>8. TargetInv(g)'
    BY <1>0, <1>1 DEF TargetInv, Working
<1>9. LeavesInv(g)'
    <2>1. job'[g] # NoJob /\ state'[g] # "cancelled" /\ round'[g] = round[g]
        BY <1>3
    <2>2. p \in {"prepare", "copying", "clean"}
        OBVIOUS
    <2>3. p # "clean" => outcome[g] = "none"
        BY <1>0, <1>1, <2>2 DEF ResultInv, Fresh, Copying, Unplaced
    <2>4. ASSUME round[g] = 1, q \in Fresh \cup Copying \/ o = "cancelled" PROVE Tidy(g)'
        <3>1. Tidy(g)
            BY <1>0, <1>1, <2>2, <2>3, <2>4 DEF LeavesInv, Fresh, Copying
        <3>2. \A n \in Names : backup'[g][n] = Absent
            BY <3>1 DEF Tidy
        <3>3. \A n \in Names : temp'[g][n] = "absent" \/ (q \in Copying \cup {"clean"} /\ n = target[g])
            <4>1. CASE p = "clean"
                BY <1>1, <1>4, <2>4, <3>1, <4>1 DEF Tidy, Fresh, Copying
            <4>2. CASE p = "prepare" \/ p = "copying"
                BY <1>1, <1>4, <2>4, <3>1, <4>2 DEF Tidy, Fresh, Copying
            <4> QED
                BY <2>2, <4>1, <4>2
        <3> QED
            BY <1>1, <3>2, <3>3 DEF Tidy
    <2> QED
        BY <1>1, <2>1, <2>4 DEF LeavesInv
<1>10. FileInv(g)'
    BY <1>7, <1>8, <1>9 DEF FileInv
<1> QED
    BY <1>0, <1>1, <1>3, <1>4, <1>5, <1>6, <1>10, AttemptKept DEF Types

\* The step of Prepare, Copy or Clean.
LEMMA TempStep ==
    ASSUME Inv, NEW g \in Jobs, Prepare(g) \/ Copy(g) \/ Clean(g)
    PROVE  Inv'
<1>0. Types
    BY DEF Inv
<1>1. /\ UNCHANGED <<plan, job, state, round, finished, target, dest, backup, placed>> /\ Quiet
    BY DEF Prepare, Copy, Clean, NoEntry, NoEvent, Fails, Event, entryVars, controlVars, boundVars
<1>2. outcome = [outcome EXCEPT ![g] = outcome[g]] /\ outcome[g] \in Results \cup {"none"}
    BY <1>0 DEF Types
<1> USE DEF Results, Pcs, Attempt, Working
<1>3. CASE Prepare(g)
    <2>1. \/ Moves(g, "prepare", "copying", outcome[g]) /\ HasTemp(g, "partial")
          \/ Moves(g, "prepare", "end", "failed") /\ temp' = temp
        BY <1>2, <1>3 DEF Prepare, Moves, Goes, Ends, Proceeds, At
    <2> QED
        BY <1>1, <1>2, <2>1, TempKept
<1>4. CASE Copy(g)
    <2>1. \/ Moves(g, "copying", "check", outcome[g]) /\ HasTemp(g, "complete")
          \/ Moves(g, "copying", "clean", "cancelled") /\ temp' = temp
          \/ Moves(g, "copying", "clean", "failed") /\ temp' = temp
          \/ Moves(g, "copying", "end", "failed") /\ temp' = temp
        BY <1>2, <1>4 DEF Copy, Moves, Goes, Ends, Cleans, Proceeds, At
    <2> QED
        BY <1>1, <1>2, <2>1, TempKept
<1>5. CASE Clean(g)
    <2>1. \/ Moves(g, "clean", "end", outcome[g]) /\ HasTemp(g, "absent")
          \/ Moves(g, "clean", "end", "failed") /\ temp' = temp
        BY <1>2, <1>5 DEF Clean, Moves, Goes, Ends, Proceeds, At
    <2> QED
        BY <1>1, <1>2, <2>1, TempKept
<1> QED
    BY <1>3, <1>4, <1>5

\* A step of the attempt that may change the destination and its backup, and keeps
\* what was there safe.
LEMMA CommitKept ==
    ASSUME Inv, NEW g \in Jobs, NEW p \in Pcs, NEW q \in Pcs, NEW o \in Results \cup {"none"},
           Moves(g, p, q, o), Quiet, UNCHANGED <<plan, job, state, round, finished, target>>,
           dest' \in [Directions -> [Names -> Files]],
           temp' \in [Jobs -> [Names -> {"absent", "partial", "complete"}]],
           backup' \in [Jobs -> [Names -> Files]],
           \A j \in Jobs \ {g} : temp'[j] = temp[j] /\ backup'[j] = backup[j],
           placed' = placed \/ placed' = placed \cup {<<g, round[g]>>},
           p \in {"promote", "backup", "replace", "rollback", "drop"},
           q \in {"end", "clean", "replace", "rollback", "drop"},
           q = "end" => o = "completed", q = "clean" => o = "failed",
           q \notin {"end", "clean"} => o = outcome[g],
           q \in {"end", "drop"} => <<g, round[g]>> \in placed',
           q = "replace" => p = "backup" /\ placed' = placed,
           q \in {"rollback", "drop"} => p = "replace",
           q \in {"replace", "rollback", "drop"} => backup'[g][target[g]] # Absent,
           SafeInv'
    PROVE  Inv'
<1>0. Types /\ JobInv(g) /\ ResultInv(g) /\ TargetInv(g) /\ LeavesInv(g)
    BY DEF Inv, FileInv
<1>1. /\ pc' \in [Jobs -> Pcs] /\ pc[g] = p /\ pc'[g] = q
      /\ outcome' \in [Jobs -> Results \cup {"none"}] /\ outcome'[g] = o
      /\ \A j \in Jobs \ {g} : pc'[j] = pc[j] /\ outcome'[j] = outcome[j]
    BY <1>0, MovesFacts
<1>2. p \in Attempt /\ q \in Attempt /\ round[g] \in Nat
    BY <1>0 DEF Attempt, Working, Types
<1>3. state[g] \in {"running", "cancelling"} /\ job[g] # NoJob
    BY <1>0, <1>1, <1>2 DEF JobInv
<1>4. outcome[g] = "none"
    BY <1>0, <1>1 DEF ResultInv, Unplaced
<1>5. JobInv(g)'
    BY <1>0, <1>1, <1>2 DEF JobInv, Attempt, Working
<1>6. ResultInv(g)'
    <2>1. \A r \in Nat : <<g, r>> \in placed' => r <= round'[g]
        BY <1>0, <1>2 DEF ResultInv
    <2>2. q \in Unplaced => <<g, round[g]>> \notin placed'
        BY <1>0, <1>1 DEF ResultInv, Unplaced, Fresh, Copying
    <2>3. state'[g] \notin {"completed", "cancelled"} /\ o # "cancelled"
        BY <1>3, <1>4
    <2>4. o = "completed" => <<g, round[g]>> \in placed'
        BY <1>4
    <2>5. q \notin {"end", "clean"} => o = "none"
        BY <1>4
    <2> QED
        BY <1>1, <2>1, <2>2, <2>3, <2>4, <2>5 DEF ResultInv, Unplaced, Fresh, Copying, Results
<1>7. TargetInv(g)'
    BY <1>0, <1>1 DEF TargetInv, Working
<1>8. LeavesInv(g)'
    BY <1>1, <1>3, <1>4 DEF LeavesInv, Fresh, Copying
<1>9. FileInv(g)'
    BY <1>6, <1>7, <1>8 DEF FileInv
<1>10. placed \subseteq placed' /\ placed' \subseteq placed \cup {<<g, round[g]>>}
    OBVIOUS
<1> QED
    BY <1>0, <1>1, <1>3, <1>5, <1>9, <1>10, AttemptKept DEF Types

\* The destination and the backup of g after a write.
LEMMA WritesFacts ==
    ASSUME Types, NEW g \in Jobs, job[g] \in Requested, target[g] \in Names, NEW c \in Files
    PROVE  /\ Writes(g, c) =>
                /\ dest' \in [Directions -> [Names -> Files]]
                /\ dest'[job[g].dir][target[g]] = c
                /\ \A d \in Directions, n \in Names :
                      (d = job[g].dir /\ n = target[g]) \/ dest'[d][n] = dest[d][n]
           /\ Backs(g, c) =>
                /\ backup' \in [Jobs -> [Names -> Files]]
                /\ backup'[g][target[g]] = c
                /\ \A n \in Names \ {target[g]} : backup'[g][n] = backup[g][n]
                /\ \A j \in Jobs \ {g} : backup'[j] = backup[j]
           /\ HasTemp(g, "absent") =>
                /\ temp' \in [Jobs -> [Names -> {"absent", "partial", "complete"}]]
                /\ \A j \in Jobs \ {g} : temp'[j] = temp[j]
<1>1. job[g].dir \in Directions
    BY DEF Requested
<1>2. ASSUME Writes(g, c)
      PROVE  /\ dest' \in [Directions -> [Names -> Files]]
             /\ dest'[job[g].dir][target[g]] = c
             /\ \A d \in Directions, n \in Names :
                   (d = job[g].dir /\ n = target[g]) \/ dest'[d][n] = dest[d][n]
    <2> DEFINE e == job[g].dir
               f == [dest[e] EXCEPT ![target[g]] = c]
    <2>1. dest' = [dest EXCEPT ![e] = f]
        BY <1>2 DEF Writes
    <2>2. f \in [Names -> Files] /\ f[target[g]] = c /\ \A n \in Names \ {target[g]} : f[n] = dest[e][n]
        BY <1>1 DEF Types
    <2>3. dest \in [Directions -> [Names -> Files]]
        BY DEF Types
    <2> HIDE DEF f
    <2> QED
        BY <1>1, <2>1, <2>2, <2>3
<1>3. ASSUME Backs(g, c)
      PROVE  /\ backup' \in [Jobs -> [Names -> Files]]
             /\ backup'[g][target[g]] = c
             /\ \A n \in Names \ {target[g]} : backup'[g][n] = backup[g][n]
             /\ \A j \in Jobs \ {g} : backup'[j] = backup[j]
    <2> DEFINE f == [backup[g] EXCEPT ![target[g]] = c]
    <2>1. backup' = [backup EXCEPT ![g] = f]
        BY <1>3 DEF Backs
    <2>2. f \in [Names -> Files] /\ f[target[g]] = c /\ \A n \in Names \ {target[g]} : f[n] = backup[g][n]
        BY DEF Types
    <2>3. backup \in [Jobs -> [Names -> Files]]
        BY DEF Types
    <2> HIDE DEF f
    <2> QED
        BY <2>1, <2>2, <2>3
<1>4. ASSUME HasTemp(g, "absent")
      PROVE  /\ temp' \in [Jobs -> [Names -> {"absent", "partial", "complete"}]]
             /\ \A j \in Jobs \ {g} : temp'[j] = temp[j]
    <2> DEFINE f == [temp[g] EXCEPT ![target[g]] = "absent"]
    <2>1. temp' = [temp EXCEPT ![g] = f]
        BY <1>4 DEF HasTemp
    <2>2. f \in [Names -> {"absent", "partial", "complete"}]
        BY DEF Types
    <2>3. temp \in [Jobs -> [Names -> {"absent", "partial", "complete"}]]
        BY DEF Types
    <2> HIDE DEF f
    <2> QED
        BY <2>1, <2>2, <2>3
<1> QED
    BY <1>2, <1>3, <1>4

\* The rename of the temporary puts a file at the destination: whatever was safe is
\* safe, also when g goes on to remove its backup.
LEMMA PlacesSafely ==
    ASSUME Inv, NEW g \in Jobs, job[g] \in Requested, target[g] \in Names, Places(g),
           UNCHANGED <<job, target>>, \A j \in Jobs \ {g} : pc'[j] = pc[j]
    PROVE  /\ dest' \in [Directions -> [Names -> Files]]
           /\ temp' \in [Jobs -> [Names -> {"absent", "partial", "complete"}]]
           /\ \A j \in Jobs \ {g} : temp'[j] = temp[j]
           /\ SafeInv'
<1>1. Types /\ SafeInv
    BY DEF Inv
<1>2. <<g, round[g]>> \in Files /\ <<g, round[g]>> # Absent
    BY <1>1, Contentful DEF Types, Files
<1>3. /\ dest' \in [Directions -> [Names -> Files]]
      /\ dest'[job[g].dir][target[g]] # Absent
      /\ \A d \in Directions, n \in Names :
            (d = job[g].dir /\ n = target[g]) \/ dest'[d][n] = dest[d][n]
      /\ temp' \in [Jobs -> [Names -> {"absent", "partial", "complete"}]]
      /\ \A j \in Jobs \ {g} : temp'[j] = temp[j]
    BY <1>1, <1>2, WritesFacts DEF Places
<1>4. backup' = backup
    BY DEF Places
<1>5. ASSUME NEW d \in Directions, NEW n \in Existing
      PROVE  \/ dest'[d][n] # Absent
             \/ \E j \in Jobs : /\ job'[j].dir = d /\ backup'[j][n] # Absent
                                /\ ~(pc'[j] = "drop" /\ target'[j] = n)
    <2>1. CASE d = job[g].dir /\ n = target[g]
        BY <1>3, <2>1
    <2>2. CASE ~(d = job[g].dir /\ n = target[g])
        <3>1. n \in Names /\ dest'[d][n] = dest[d][n]
            BY <1>3, <2>2, TransfersAssumption
        <3>2. CASE dest[d][n] = Absent
            <4>1. PICK j \in Jobs : /\ job[j].dir = d /\ backup[j][n] # Absent
                                    /\ ~(pc[j] = "drop" /\ target[j] = n)
                BY <1>1, <3>2 DEF SafeInv
            <4>2. ~(pc'[j] = "drop" /\ target'[j] = n)
                BY <2>2, <4>1
            <4> QED
                BY <1>4, <4>1, <4>2
        <3> QED
            BY <3>1, <3>2
    <2> QED
        BY <2>1, <2>2
<1> QED
    BY <1>3, <1>5 DEF SafeInv

\* A change at the destination of g that leaves a file or the backup of g there
\* keeps everything else safe.
LEMMA SafelyWritten ==
    ASSUME Inv, NEW g \in Jobs, job[g] \in Requested, target[g] \in Names,
           UNCHANGED <<job, target>>, \A j \in Jobs \ {g} : pc'[j] = pc[j] /\ backup'[j] = backup[j],
           pc'[g] # "drop",
           \A n \in Names \ {target[g]} : backup'[g][n] = backup[g][n],
           \A d \in Directions, n \in Names :
                 (d = job[g].dir /\ n = target[g]) \/ dest'[d][n] = dest[d][n],
           \/ dest'[job[g].dir][target[g]] # Absent
           \/ backup'[g][target[g]] # Absent
           \/ pc[g] = "drop" /\ dest' = dest
    PROVE  SafeInv'
<1>1. SafeInv
    BY DEF Inv
<1>2. ASSUME NEW d \in Directions, NEW n \in Existing
      PROVE  \/ dest'[d][n] # Absent
             \/ \E j \in Jobs : /\ job'[j].dir = d /\ backup'[j][n] # Absent
                                /\ ~(pc'[j] = "drop" /\ target'[j] = n)
    <2>0. n \in Names
        BY TransfersAssumption
    <2>1. CASE d = job[g].dir /\ n = target[g] /\ (dest'[d][n] # Absent \/ backup'[g][n] # Absent)
        BY <2>1
    <2>2. CASE /\ d # job[g].dir \/ n # target[g] \/ (pc[g] = "drop" /\ dest' = dest)
               /\ dest'[d][n] = Absent
        <3>1. dest[d][n] = Absent
            BY <2>0, <2>2
        <3>2. PICK j \in Jobs : /\ job[j].dir = d /\ backup[j][n] # Absent
                                /\ ~(pc[j] = "drop" /\ target[j] = n)
            BY <1>1, <3>1 DEF SafeInv
        <3>3. CASE j = g
            BY <2>0, <2>2, <3>2, <3>3
        <3>4. CASE j # g
            BY <3>2, <3>4
        <3> QED
            BY <3>3, <3>4
    <2> QED
        BY <2>1, <2>2
<1> QED
    BY <1>2 DEF SafeInv

\* The step of Promote, Backup, Replace, Rollback or DropBackup.
LEMMA CommitStep ==
    ASSUME Inv, NEW g \in Jobs,
           Promote(g) \/ Backup(g) \/ Replace(g) \/ Rollback(g) \/ DropBackup(g)
    PROVE  Inv'
<1>0. Types /\ JobInv(g) /\ ResultInv(g) /\ TargetInv(g)
    BY DEF Inv, FileInv
<1>1. UNCHANGED <<plan, job, state, round, finished, target>> /\ Quiet
    BY DEF Promote, Backup, Replace, Rollback, DropBackup, NoEntry, NoEvent, Fails, Lost, Event,
           entryVars, controlVars, boundVars
<1>2. pc[g] \in {"promote", "backup", "replace", "rollback", "drop"}
    BY DEF Promote, Backup, Replace, Rollback, DropBackup, At
<1>3. job[g] \in Requested /\ target[g] \in Names /\ outcome[g] \in Results \cup {"none"}
    BY <1>0, <1>2 DEF Types, JobInv, TargetInv, Attempt, Working
<1>4. outcome = [outcome EXCEPT ![g] = outcome[g]]
    BY <1>0 DEF Types
<1>5. /\ dest \in [Directions -> [Names -> Files]] /\ backup \in [Jobs -> [Names -> Files]]
      /\ temp \in [Jobs -> [Names -> {"absent", "partial", "complete"}]]
      /\ pc \in [Jobs -> Pcs] /\ Absent \in Files /\ Contents(g) \in Files /\ backup[g][target[g]] \in Files
    BY <1>0, <1>3 DEF Types, Files, Contents, Requested
<1>6. ASSUME NEW q \in {"end", "clean", "rollback", "drop"}, Places(g), Goes(g, q)
      PROVE  /\ dest' \in [Directions -> [Names -> Files]]
             /\ temp' \in [Jobs -> [Names -> {"absent", "partial", "complete"}]]
             /\ backup' = backup /\ placed' = placed \cup {<<g, round[g]>>}
             /\ \A j \in Jobs \ {g} : temp'[j] = temp[j]
             /\ SafeInv'
    <2>1. \A j \in Jobs \ {g} : pc'[j] = pc[j]
        BY <1>5, <1>6 DEF Goes
    <2> QED
        BY <1>1, <1>3, <1>6, <2>1, PlacesSafely DEF Places
<1>7. ASSUME NEW q \in {"clean", "rollback"}, NoFile, Goes(g, q)
      PROVE  UNCHANGED <<dest, temp, backup, placed>> /\ SafeInv'
    <2>1. pc'[g] = q /\ \A j \in Jobs \ {g} : pc'[j] = pc[j]
        BY <1>5, <1>7 DEF Goes
    <2> QED
        BY <1>1, <1>7, <2>1, SafeKept DEF NoFile, fileVars
<1>8. CASE Promote(g)
    <2>1. \/ Places(g) /\ Goes(g, "end") /\ Moves(g, "promote", "end", "completed")
          \/ Places(g) /\ Goes(g, "clean") /\ Moves(g, "promote", "clean", "failed")
          \/ NoFile /\ Goes(g, "clean") /\ Moves(g, "promote", "clean", "failed")
        BY <1>4, <1>8 DEF Promote, Moves, Goes, Ends, Cleans, At
    <2> QED
        BY <1>1, <1>3, <1>5, <1>6, <1>7, <2>1, CommitKept DEF Results, Pcs, Attempt, Working
<1>9. CASE Backup(g)
    <2>1. temp' = temp /\ placed' = placed
        BY <1>9 DEF Backup
    <2>2. CASE /\ Backs(g, Contents(g)) /\ Writes(g, Absent) /\ Contents(g) # Absent
               /\ \/ Moves(g, "backup", "replace", outcome[g])
                  \/ Moves(g, "backup", "clean", "failed")
        <3>1. /\ dest' \in [Directions -> [Names -> Files]]
              /\ backup' \in [Jobs -> [Names -> Files]]
              /\ backup'[g][target[g]] # Absent
              /\ \A n \in Names \ {target[g]} : backup'[g][n] = backup[g][n]
              /\ \A j \in Jobs \ {g} : backup'[j] = backup[j]
              /\ \A d \in Directions, n \in Names :
                    (d = job[g].dir /\ n = target[g]) \/ dest'[d][n] = dest[d][n]
            BY <1>0, <1>3, <1>5, <2>2, WritesFacts
        <3>2. pc'[g] # "drop" /\ \A j \in Jobs \ {g} : pc'[j] = pc[j]
            BY <1>5, <2>2 DEF Moves
        <3>3. SafeInv'
            BY <1>1, <1>3, <3>1, <3>2, SafelyWritten
        <3> QED
            BY <1>1, <1>3, <1>5, <2>1, <2>2, <3>1, <3>3, CommitKept DEF Results, Pcs, Attempt, Working
    <2>3. CASE UNCHANGED <<dest, backup>> /\ Cleans(g, "failed")
        <3>1. NoFile /\ Goes(g, "clean") /\ Moves(g, "backup", "clean", "failed")
            BY <1>9, <2>1, <2>3 DEF NoFile, fileVars, Backup, Moves, Goes, Cleans, At
        <3> QED
            BY <1>1, <1>3, <1>5, <1>7, <3>1, CommitKept DEF Results, Pcs, Attempt, Working
    <2> QED
        BY <1>4, <1>9, <2>2, <2>3 DEF Backup, Moves, Goes, Cleans, Proceeds, At
<1>10. CASE Replace(g)
    <2>1. \/ Places(g) /\ Goes(g, "drop") /\ Moves(g, "replace", "drop", outcome[g])
          \/ Places(g) /\ Goes(g, "rollback") /\ Moves(g, "replace", "rollback", outcome[g])
          \/ NoFile /\ Goes(g, "rollback") /\ Moves(g, "replace", "rollback", outcome[g])
        BY <1>4, <1>10 DEF Replace, Moves, Goes, Proceeds, At
    <2>2. backup[g][target[g]] # Absent
        BY <1>0, <1>10 DEF TargetInv, Replace, At
    <2> QED
        BY <1>1, <1>3, <1>5, <1>6, <1>7, <2>1, <2>2, CommitKept DEF Results, Pcs, Attempt, Working
<1>11. CASE Rollback(g)
    <2>1. temp' = temp /\ placed' = placed /\ Goes(g, "clean") /\ Moves(g, "rollback", "clean", "failed")
        BY <1>11 DEF Rollback, Moves, Cleans, Goes, At
    <2>2. CASE Writes(g, backup[g][target[g]]) /\ Backs(g, Absent)
        <3>1. backup[g][target[g]] # Absent
            BY <1>0, <1>11 DEF TargetInv, Rollback, At
        <3>2. /\ dest' \in [Directions -> [Names -> Files]]
              /\ backup' \in [Jobs -> [Names -> Files]]
              /\ dest'[job[g].dir][target[g]] # Absent
              /\ \A n \in Names \ {target[g]} : backup'[g][n] = backup[g][n]
              /\ \A j \in Jobs \ {g} : backup'[j] = backup[j]
              /\ \A d \in Directions, n \in Names :
                    (d = job[g].dir /\ n = target[g]) \/ dest'[d][n] = dest[d][n]
            BY <1>0, <1>3, <1>5, <2>2, <3>1, WritesFacts
        <3>3. pc'[g] # "drop" /\ \A j \in Jobs \ {g} : pc'[j] = pc[j]
            BY <1>5, <2>1 DEF Moves
        <3>4. SafeInv'
            BY <1>1, <1>3, <3>2, <3>3, SafelyWritten
        <3> QED
            BY <1>1, <1>3, <1>5, <2>1, <2>2, <3>2, <3>4, CommitKept DEF Results, Pcs, Attempt, Working
    <2>3. CASE UNCHANGED <<dest, backup>>
        <3>1. NoFile
            BY <2>1, <2>3 DEF NoFile, fileVars
        <3> QED
            BY <1>1, <1>3, <1>5, <1>7, <2>1, <3>1, CommitKept DEF Results, Pcs, Attempt, Working
    <2> QED
        BY <1>11, <2>2, <2>3 DEF Rollback
<1>12. CASE DropBackup(g)
    <2>1. temp' = temp /\ placed' = placed /\ dest' = dest
        BY <1>12 DEF DropBackup
    <2>2. CASE /\ Backs(g, Absent)
               /\ Moves(g, "drop", "end", "completed") \/ Moves(g, "drop", "clean", "failed")
        <3>1. /\ backup' \in [Jobs -> [Names -> Files]]
              /\ \A n \in Names \ {target[g]} : backup'[g][n] = backup[g][n]
              /\ \A j \in Jobs \ {g} : backup'[j] = backup[j]
            BY <1>0, <1>3, <1>5, <2>2, WritesFacts
        <3>2. pc[g] = "drop" /\ pc'[g] # "drop" /\ \A j \in Jobs \ {g} : pc'[j] = pc[j]
            BY <1>5, <2>2 DEF Moves
        <3>3. SafeInv'
            BY <1>1, <1>3, <2>1, <3>1, <3>2, SafelyWritten
        <3>4. <<g, round[g]>> \in placed
            BY <1>0, <3>2 DEF ResultInv
        <3> QED
            BY <1>1, <1>3, <1>5, <2>1, <2>2, <3>1, <3>3, <3>4, CommitKept DEF Results, Pcs, Attempt, Working
    <2>3. CASE backup' = backup /\ Cleans(g, "failed")
        <3>1. NoFile /\ Goes(g, "clean") /\ Moves(g, "drop", "clean", "failed")
            BY <1>12, <2>1, <2>3 DEF NoFile, fileVars, DropBackup, Moves, Goes, Cleans, At
        <3> QED
            BY <1>1, <1>3, <1>5, <1>7, <3>1, CommitKept DEF Results, Pcs, Attempt, Working
    <2> QED
        BY <1>12, <2>2, <2>3 DEF DropBackup, Moves, Goes, Ends, Cleans, At
<1> QED
    BY <1>2, <1>8, <1>9, <1>10, <1>11, <1>12

\* The step of Execute, Finish or MarkFinished.
LEMMA StateStep ==
    ASSUME Inv, NEW g \in Jobs, Execute(g) \/ Finish(g) \/ MarkFinished(g)
    PROVE  Inv'
<1>0. Types /\ JobInv(g) /\ ResultInv(g) /\ TargetInv(g) /\ LeavesInv(g)
    BY DEF Inv, FileInv
<1>1. /\ UNCHANGED <<plan, job, round, outcome, target, dest, temp, backup, placed>> /\ Quiet
      /\ finished' \subseteq finished \cup {g}
    BY DEF Execute, Finish, MarkFinished, NoFile, NoEvent, controlVars, entryVars, fileVars, boundVars
<1>2. \/ /\ pc[g] = "spawned" /\ pc' = [pc EXCEPT ![g] = "begin"]
         /\ state[g] = "queued" /\ state' = [state EXCEPT ![g] = "running"] /\ finished' = finished
      \/ /\ pc[g] = "spawned" /\ pc' = [pc EXCEPT ![g] = "mark"] /\ finished' = finished
         /\ (state' = [state EXCEPT ![g] = "cancelled"]) \/ (state' = [state EXCEPT ![g] = "failed"])
      \/ /\ pc[g] = "end" /\ pc' = [pc EXCEPT ![g] = "mark"]
         /\ state' = [state EXCEPT ![g] = Reported(g)] /\ finished' = finished
      \/ pc[g] = "mark" /\ pc' = [pc EXCEPT ![g] = "none"] /\ state' = state
    <2>1. CASE Execute(g)
        <3>1. pc[g] = "spawned" /\ state[g] \in {"queued", "cancelling"} /\ finished' = finished
            BY <1>0, <2>1 DEF Execute, At, JobInv, controlVars
        <3> QED
            BY <2>1, <3>1 DEF Execute, Goes
    <2>2. CASE Finish(g)
        BY <2>2 DEF Finish, At, Goes, controlVars
    <2>3. CASE MarkFinished(g)
        BY <2>3 DEF MarkFinished, At, Goes, entryVars
    <2> QED
        BY <2>1, <2>2, <2>3
<1>3. Reported(g) \in {"completed", "cancelled", "failed"} \/ pc[g] # "end"
    BY <1>0 DEF ResultInv, Results, Reported
<1>4. /\ pc' \in [Jobs -> Pcs] /\ state' \in [Jobs -> JobStates] /\ pc'[g] # "drop"
      /\ \A j \in Jobs \ {g} : pc'[j] = pc[j] /\ state'[j] = state[j]
    BY <1>0, <1>2, <1>3 DEF Types, Pcs, Attempt, JobStates, Live, Terminal
<1>5. \/ /\ pc[g] = "spawned" /\ pc'[g] = "begin" /\ state[g] = "queued" /\ state'[g] = "running"
         /\ finished' = finished
      \/ /\ pc[g] = "spawned" /\ pc'[g] = "mark" /\ state'[g] \in {"cancelled", "failed"}
         /\ finished' = finished
      \/ pc[g] = "end" /\ pc'[g] = "mark" /\ state'[g] = Reported(g) /\ finished' = finished
      \/ pc[g] = "mark" /\ pc'[g] = "none" /\ state'[g] = state[g]
    BY <1>0, <1>2 DEF Types
<1>6. pc[g] # "mark" => state[g] \in Live
    BY <1>0, <1>5 DEF JobInv
<1>7. JobInv(g)' /\ (state[g] \in {"none", "gone"} <=> state'[g] \in {"none", "gone"})
    BY <1>0, <1>1, <1>3, <1>5, <1>6 DEF JobInv, Attempt, Working, Live
<1>8. SafeInv'
    BY <1>1, <1>4, SafeKept
<1>9. ResultInv(g)'
    BY <1>0, <1>1, <1>3, <1>5, <1>6 DEF ResultInv, Reported, Unplaced, Fresh, Copying, Results, Live
<1>10. TargetInv(g)'
    BY <1>5 DEF TargetInv, Working
<1>11. LeavesInv(g)'
    <2>1. Tidy(g) => Tidy(g)'
        BY <1>1, <1>5 DEF Tidy, Copying
    <2>2. state'[g] = "cancelled" => pc[g] = "spawned" \/ outcome[g] = "cancelled" \/ state[g] = "cancelled"
        BY <1>5 DEF Reported
    <2>3. pc'[g] \in Fresh \cup Copying => pc[g] = "spawned"
        BY <1>5 DEF Fresh, Copying
    <2> QED
        BY <1>0, <1>1, <2>1, <2>2, <2>3 DEF LeavesInv, Fresh
<1>12. FileInv(g)'
    BY <1>9, <1>10, <1>11 DEF FileInv
<1> QED
    BY <1>0, <1>1, <1>4, <1>7, <1>8, <1>12, AttemptKept DEF Types

\* Every step of an attempt.
LEMMA AttemptKeepsInv ==
    ASSUME Inv, NEW g \in Jobs, AttemptStep(g)
    PROVE  Inv'
BY LookStep, TempStep, CommitStep, StateStep DEF AttemptStep

-----------------------------------------------------------------------------
(* Requests and the removal of a host.                                     *)

\* A step that only cancels jobs, prunes or purges ended ones, and goes on with a
\* removal.
LEMMA EntriesKept ==
    ASSUME Inv, UNCHANGED <<plan, job, round, finished, attemptVars, fileVars>>,
           state' \in [Jobs -> JobStates], saved' \in [Hosts -> Nat],
           sweep' \in [Hosts \cup {All} -> Phases],
           captured' \in [Hosts \cup {All} -> SUBSET (Jobs \X Nat)],
           \A j \in Jobs : \/ state'[j] = state[j]
                           \/ (state[j] # "none" /\ state'[j] = "gone" /\ pc[j] \in {"none", "mark"})
                           \/ state[j] \in {"queued", "running"} /\ state'[j] = "cancelling",
           \A h \in Hosts : RemovalInv(h)'
    PROVE  Inv'
<1>0. UNCHANGED <<pc, outcome, target, dest, temp, backup, placed>>
    BY DEF attemptVars, fileVars
<1>1. Types'
    BY <1>0 DEF Inv, Types
<1>2. ASSUME NEW j \in Jobs PROVE JobInv(j)'
    BY <1>0 DEF Inv, JobInv, Live, Attempt, Working
<1>3. ASSUME NEW j \in Jobs PROVE FileInv(j)'
    <2>1. state'[j] \in {"completed", "cancelled"} => state'[j] = state[j]
        OBVIOUS
    <2>2. FileInv(j)
        BY DEF Inv
    <2> QED
        BY <1>0, <2>1, <2>2 DEF FileInv, ResultInv, TargetInv, LeavesInv, Tidy
<1>4. SafeInv'
    BY <1>0 DEF Inv, SafeInv
<1> QED
    BY <1>1, <1>2, <1>3, <1>4 DEF Inv

\* No host gets a job by such a step.
LEMMA OnKept ==
    ASSUME Types, UNCHANGED job, state' \in [Jobs -> JobStates],
           \A j \in Jobs : \/ state'[j] = state[j] \/ state'[j] = "gone"
                           \/ state[j] \in {"queued", "running"} /\ state'[j] = "cancelling"
    PROVE  \A h \in Hosts : On(h)' \subseteq On(h)
BY DEF On, Entries, Live, Terminal, Types

\* A new attempt of g, for a host that is not being removed.
LEMMA BeginsKept ==
    ASSUME Inv, NEW g \in Jobs, pc[g] \in {"none", "mark"}, Begins(g),
           UNCHANGED <<fileVars, hostVars, sweepVars, plan>>,
           job' \in [Jobs -> Requested \cup {NoJob}], job'[g] \in Requested, job'[g].host \notin retired,
           job[g] = NoJob \/ (job[g].host = job'[g].host /\ job[g].dir = job'[g].dir),
           \A j \in Jobs \ {g} : job'[j] = job[j] /\ round'[j] = round[j],
           round' \in [Jobs -> Nat], round'[g] = round[g] + 1,
           state' \in [Jobs -> JobStates], state'[g] = "queued",
           \A j \in Jobs \ {g} : \/ state'[j] = state[j]
                                 \/ state[j] \in Terminal /\ state'[j] = "gone"
    PROVE  Inv'
<1>0. Types /\ JobInv(g) /\ FileInv(g) /\ SafeInv
    BY DEF Inv
<1>1. UNCHANGED <<dest, temp, backup, placed, retired, barred, crud, saved, sweep, captured, target>>
    BY DEF fileVars, hostVars, sweepVars, Begins
<1>2. /\ pc' \in [Jobs -> Pcs] /\ pc'[g] = "spawned"
      /\ outcome' \in [Jobs -> Results \cup {"none"}] /\ outcome'[g] = "none"
      /\ \A j \in Jobs \ {g} : pc'[j] = pc[j] /\ outcome'[j] = outcome[j]
      /\ finished' = finished \ {g}
    BY <1>0 DEF Begins, Types, Pcs
<1>3. Types'
    BY <1>0, <1>1, <1>2 DEF Types
<1>4. ASSUME NEW j \in Jobs PROVE JobInv(j)'
    <2>1. CASE j = g
        BY <1>0, <1>2, <2>1, AsksForSomething DEF JobInv, Types, Live, Attempt, Working
    <2>2. CASE j # g
        <3>1. JobInv(j)
            BY DEF Inv
        <3> QED
            BY <1>2, <2>2, <3>1 DEF JobInv, Terminal, Live, Attempt, Working
    <2> QED
        BY <2>1, <2>2
<1>5. ASSUME NEW j \in Jobs PROVE FileInv(j)'
    <2>1. CASE j = g
        <3>1. round[g] \in Nat /\ (round'[g] = 1 => job[g] = NoJob)
            <4>1. round[g] \in Nat
                BY <1>0 DEF Types
            <4>2. round[g] = 0 => job[g] = NoJob
                BY <1>0 DEF JobInv
            <4> QED
                BY <4>1, <4>2
        <3>2. \A r \in Nat : <<g, r>> \in placed' => r <= round[g]
            BY <1>0, <1>1 DEF FileInv, ResultInv
        <3>3. ResultInv(g)'
            BY <1>1, <1>2, <3>1, <3>2 DEF ResultInv
        <3>4. TargetInv(g)'
            BY <1>2 DEF TargetInv, Working
        <3>5. job[g] = NoJob => Tidy(g)'
            BY <1>0, <1>1, <1>2 DEF FileInv, LeavesInv, Tidy, Copying
        <3>6. LeavesInv(g)'
            BY <3>1, <3>5, AsksForSomething DEF LeavesInv
        <3> QED
            BY <2>1, <3>3, <3>4, <3>6 DEF FileInv
    <2>2. CASE j # g
        <3>1. FileInv(j)
            BY DEF Inv
        <3>2. state'[j] \in {"completed", "cancelled"} => state'[j] = state[j]
            BY <2>2
        <3> QED
            BY <1>1, <1>2, <2>2, <3>1, <3>2 DEF FileInv, ResultInv, TargetInv, LeavesInv, Tidy
    <2> QED
        BY <2>1, <2>2
<1>6. ASSUME NEW h \in Hosts PROVE RemovalInv(h)'
    <2>1. RemovalInv(h)
        BY DEF Inv
    <2>2. CASE h \in retired
        <3>1. On(h)' \subseteq On(h) /\ g \notin On(h)'
            BY <2>2 DEF On, Entries, Terminal, Live
        <3>2. \A j \in On(h)' : j \in Jobs \ {g}
            BY <3>1 DEF On, Entries
        <3>3. \A j \in On(h)' : <<j, round[j]>> \in captured[h] => <<j, round'[j]>> \in captured'[h]
            BY <1>1, <3>2
        <3> QED
            BY <1>1, <2>1, <3>1, <3>3 DEF RemovalInv
    <2>3. CASE h \notin retired
        BY <1>1, <2>1, <2>3 DEF RemovalInv
    <2> QED
        BY <2>2, <2>3
<1>7. SafeInv'
    <2>1. ASSUME NEW d \in Directions, NEW n \in Existing, dest[d][n] = Absent
          PROVE  \E j \in Jobs : /\ job'[j].dir = d /\ backup'[j][n] # Absent
                                 /\ ~(pc'[j] = "drop" /\ target'[j] = n)
        <3>1. PICK j \in Jobs : /\ job[j].dir = d /\ backup[j][n] # Absent
                                /\ ~(pc[j] = "drop" /\ target[j] = n)
            BY <1>0, <2>1 DEF SafeInv
        <3>2. NoJob.dir \notin Directions
            BY TransfersAssumption DEF NoJob
        <3>3. job'[j].dir = d
            BY <3>1, <3>2
        <3>4. ~(pc'[j] = "drop" /\ target'[j] = n)
            BY <1>1, <1>2, <3>1
        <3> QED
            BY <1>1, <3>1, <3>3, <3>4
    <2> QED
        BY <1>1, <2>1 DEF SafeInv
<1> QED
    BY <1>3, <1>4, <1>5, <1>6, <1>7 DEF Inv

\* The step of Start.
LEMMA StartStep ==
    ASSUME Inv, NEW g \in Jobs, NEW h \in Hosts, Start(g, h)
    PROVE  Inv'
<1>0. Types /\ JobInv(g)
    BY DEF Inv
<1>1. job[g] = NoJob /\ state[g] = "none" /\ pc[g] \in {"none", "mark"} /\ round[g] = 0
    BY <1>0 DEF Start, JobInv, Live
<1> DEFINE new == [plan.asks[g] EXCEPT !.host = h, !.route = saved[h]]
<1>2. plan.asks[g] \in RequestSet
    BY <1>0, TransfersAssumption DEF Start, Types
<1>3. new \in Requested /\ new.host = h
    BY <1>0, <1>2 DEF RequestSet, Requested, Types
<1>4. job' = [job EXCEPT ![g] = new]
    BY DEF Start
<1> HIDE DEF new
<1>5. /\ job' \in [Jobs -> Requested \cup {NoJob}] /\ job'[g] = new
      /\ \A j \in Jobs \ {g} : job'[j] = job[j]
    BY <1>0, <1>3, <1>4 DEF Types
<1>6. /\ round' \in [Jobs -> Nat] /\ round'[g] = round[g] + 1
      /\ \A j \in Jobs \ {g} : round'[j] = round[j]
    BY <1>0, <1>1 DEF Start, Types
<1>7. /\ state' \in [Jobs -> JobStates] /\ state'[g] = "queued"
      /\ \A j \in Jobs \ {g} : state'[j] = state[j] \/ (state[j] \in Terminal /\ state'[j] = "gone")
    <2>1. state' = [i \in Jobs |-> CASE i = g -> "queued"
                                     [] i \in Pruned -> "gone"
                                     [] OTHER -> state[i]]
        BY DEF Start
    <2>2. g \notin Pruned /\ \A i \in Pruned : state[i] \in Terminal
        BY <1>1 DEF Pruned, Terminal
    <2>3. state'[g] = "queued"
        BY <2>1, <2>2
    <2>4. ASSUME NEW j \in Jobs \ {g}
          PROVE  state'[j] = state[j] \/ (state[j] \in Terminal /\ state'[j] = "gone")
        BY <2>1, <2>2
    <2>5. state' \in [Jobs -> JobStates]
        <3>1. \A j \in Jobs : state'[j] \in JobStates
            BY <1>0, <2>3, <2>4 DEF Types, JobStates, Live
        <3> QED
            BY <2>1, <3>1
    <2> QED
        BY <2>3, <2>4, <2>5
<1>8. /\ Begins(g) /\ UNCHANGED <<fileVars, hostVars, sweepVars, plan>> /\ h \notin retired
    BY DEF Start, boundVars
<1> QED
    BY <1>1, <1>3, <1>5, <1>6, <1>7, <1>8, BeginsKept

\* The step of Retry.
LEMMA RetryStep ==
    ASSUME Inv, NEW g \in Jobs, Retry(g)
    PROVE  Inv'
<1>0. Types /\ JobInv(g)
    BY DEF Inv
<1>1. job[g] \in Requested /\ pc[g] \in {"none", "mark"}
    BY <1>0 DEF Retry, Retriable, JobInv, Types, Live
<1>2. job' = [job EXCEPT ![g] = [job[g] EXCEPT !.route = saved[job[g].host]]]
    BY DEF Retry, Rebound
<1>3. [job[g] EXCEPT !.route = saved[job[g].host]] \in Requested
    BY <1>0, <1>1 DEF Requested, Types
<1>4. /\ job' \in [Jobs -> Requested \cup {NoJob}] /\ job'[g] \in Requested
      /\ job'[g].host = job[g].host /\ job'[g].dir = job[g].dir
      /\ \A j \in Jobs \ {g} : job'[j] = job[j]
    BY <1>0, <1>1, <1>2, <1>3 DEF Types, Requested
<1>5. /\ round' \in [Jobs -> Nat] /\ round'[g] = round[g] + 1
      /\ \A j \in Jobs \ {g} : round'[j] = round[j]
    BY <1>0 DEF Retry, Types
<1>6. /\ state' \in [Jobs -> JobStates] /\ state'[g] = "queued"
      /\ \A j \in Jobs \ {g} : state'[j] = state[j]
    BY <1>0 DEF Retry, Types, JobStates, Live
<1>7. /\ Begins(g) /\ UNCHANGED <<fileVars, hostVars, sweepVars, plan>> /\ job[g].host \notin retired
    BY DEF Retry, boundVars
<1> QED
    BY <1>1, <1>4, <1>5, <1>6, <1>7, BeginsKept

\* The locked part of a cancellation, by a request or by a removal.
LEMMA CancelsKept ==
    ASSUME Inv, NEW g \in Jobs, Cancels(g), UNCHANGED <<plan, attemptVars, fileVars, hostVars, sweepVars>>
    PROVE  Inv'
<1>0. Types /\ \A h \in Hosts : RemovalInv(h)
    BY DEF Inv
<1>1. UNCHANGED <<job, round, finished, sweep, captured, retired, barred, crud, saved>>
    BY DEF Cancels, hostVars, sweepVars
<1>2. state' = [state EXCEPT ![g] = "cancelling"] /\ state[g] \in {"queued", "running"}
    BY DEF Cancels
<1>3. \A j \in Jobs : \/ state'[j] = state[j]
                      \/ state[j] \in {"queued", "running"} /\ state'[j] = "cancelling"
    BY <1>0, <1>2 DEF Types
<1>4. state' \in [Jobs -> JobStates]
    BY <1>0, <1>2 DEF Types, JobStates, Live
<1>5. \A h \in Hosts : On(h)' \subseteq On(h)
    BY <1>0, <1>1, <1>3, <1>4, OnKept
<1>6. \A h \in Hosts : RemovalInv(h)'
    BY <1>0, <1>1, <1>5 DEF RemovalInv
<1> QED
    BY <1>0, <1>1, <1>3, <1>4, <1>6, EntriesKept DEF Types

\* The steps of the other requests, and of a cancellation.
LEMMA RequestKeepsInv ==
    ASSUME Inv, RequestStep \/ SignalStep
    PROVE  Inv'
<1>0. Types /\ \A h \in Hosts : RemovalInv(h)
    BY DEF Inv
<1>1. ASSUME NEW h \in Hosts, StartRefused(h) PROVE Inv'
    <2>1. UNCHANGED <<plan, job, round, finished, attemptVars, fileVars, saved, sweep, captured,
                      retired, barred, crud>>
        BY <1>1 DEF StartRefused, boundVars, controlVars, hostVars, sweepVars
    <2>2. state' = [i \in Jobs |-> IF i \in Pruned THEN "gone" ELSE state[i]]
        BY <1>1 DEF StartRefused
    <2>3. \A i \in Pruned : state[i] \in Terminal
        BY DEF Pruned
    <2>4. \A j \in Jobs : \/ state'[j] = state[j]
                          \/ (state[j] # "none" /\ state'[j] = "gone" /\ pc[j] \in {"none", "mark"})
        BY <2>2, <2>3 DEF Inv, JobInv, Terminal, Live
    <2>5. state' \in [Jobs -> JobStates]
        BY <1>0, <2>2 DEF Types, JobStates
    <2>6. \A h1 \in Hosts : On(h1)' \subseteq On(h1)
        BY <1>0, <2>1, <2>4, <2>5, OnKept
    <2>7. \A h1 \in Hosts : RemovalInv(h1)'
        BY <1>0, <2>1, <2>6 DEF RemovalInv
    <2> QED
        BY <1>0, <2>1, <2>4, <2>5, <2>7, EntriesKept DEF Types
<1>2. ASSUME NEW h \in Hosts, HostUpdate(h) \/ BeginCrud(h) \/ EndCrud(h) PROVE Inv'
    <2>1. UNCHANGED <<plan, job, state, round, finished, attemptVars, fileVars, sweep, captured, retired, barred>>
        BY <1>2 DEF HostUpdate, BeginCrud, EndCrud, Event, entryVars, boundVars, controlVars, sweepVars
    <2>2. saved' \in [Hosts -> Nat]
        BY <1>0, <1>2 DEF HostUpdate, BeginCrud, EndCrud, Types
    <2>3. ASSUME NEW k \in Hosts PROVE RemovalInv(k)'
        <3>1. On(k)' = On(k)
            BY <2>1 DEF On, Entries
        <3>2. k \in barred => (k \in crud' => k \in crud)
            BY <1>2 DEF HostUpdate, BeginCrud, EndCrud
        <3> QED
            BY <1>0, <2>1, <3>1, <3>2 DEF RemovalInv
    <2> QED
        BY <1>0, <2>1, <2>2, <2>3, EntriesKept DEF Types
<1>3. ASSUME NEW g \in Jobs, Cancel(g) PROVE Inv'
    BY <1>3, CancelsKept DEF Cancel, Event
<1>4. ASSUME NEW g \in Jobs, NEW r \in 1..MaxRounds, Signal(g, r) PROVE Inv'
    <2>1. UNCHANGED <<plan, job, state, round, finished, pc, outcome, target, dest, temp, backup, placed,
                      retired, barred, crud, saved, sweep, captured>>
        BY <1>4 DEF Signal, entryVars, attemptVars, fileVars, hostVars, sweepVars, boundVars
    <2> QED
        BY <2>1 DEF Inv, Types, JobInv, FileInv, ResultInv, TargetInv, LeavesInv, Tidy, RemovalInv, On,
                    Entries, SafeInv
<1> QED
    BY <1>1, <1>2, <1>3, <1>4, StartStep, RetryStep DEF RequestStep, SignalStep

\* The steps of remove_host, cancel_all and restore_host.
LEMMA RemovalKeepsInv ==
    ASSUME Inv, NEW w \in Hosts \cup {All}, RemovalStep(w) \/ (w \in Hosts /\ RestoreStep(w))
    PROVE  Inv'
<1>0. Types /\ \A h \in Hosts : RemovalInv(h)
    BY DEF Inv
<1>1. sweep \in [Hosts \cup {All} -> Phases] /\ captured \in [Hosts \cup {All} -> SUBSET (Jobs \X Nat)]
    BY <1>0 DEF Types
<1>2. All \notin Hosts
    BY TransfersAssumption
\* Most steps change nothing but the phase and what the host refuses.
<1>3. ASSUME UNCHANGED <<plan, job, state, round, finished, attemptVars, fileVars, crud, saved>>,
             NEW q \in Phases, sweep' = [sweep EXCEPT ![w] = q],
             captured' \in [Hosts \cup {All} -> SUBSET (Jobs \X Nat)],
             \A h \in Hosts \ {w} : /\ captured'[h] = captured[h]
                                    /\ h \in retired <=> h \in retired'
                                    /\ h \in barred <=> h \in barred',
             w \in Hosts => RemovalInv(w)'
      PROVE  Inv'
    <2>1. \A h \in Hosts : On(h)' = On(h)
        BY <1>3 DEF On, Entries
    <2>2. sweep' \in [Hosts \cup {All} -> Phases] /\ \A h \in Hosts \ {w} : sweep'[h] = sweep[h]
        BY <1>1, <1>3
    <2>3. ASSUME NEW h \in Hosts \ {w} PROVE RemovalInv(h)'
        BY <1>0, <1>3, <2>1, <2>2 DEF RemovalInv
    <2>4. \A h \in Hosts : RemovalInv(h)'
        BY <1>3, <2>3
    <2> QED
        BY <1>0, <1>3, <2>2, <2>4, EntriesKept DEF Types
<1> USE DEF Phases
<1>4. CASE w \in Hosts /\ Retire(w)
    <2>1. /\ UNCHANGED <<plan, job, state, round, finished, attemptVars, fileVars, crud, saved, captured, barred>>
          /\ retired' = retired \cup {w} /\ sweep' = [sweep EXCEPT ![w] = "retired"]
        BY <1>4 DEF Retire, Phase, Event, entryVars, controlVars
    <2>2. RemovalInv(w)'
        BY <1>0, <1>1, <1>4, <2>1 DEF RemovalInv
    <2> QED
        BY <1>1, <1>3, <1>4, <2>1, <2>2
<1>5. CASE w \in Hosts /\ Bar(w)
    <2>1. /\ UNCHANGED <<plan, job, state, round, finished, attemptVars, fileVars, crud, saved, captured, retired>>
          /\ barred' = barred \cup {w} /\ sweep' = [sweep EXCEPT ![w] = "collect"] /\ sweep[w] = "retired"
        BY <1>5 DEF Bar, Phase, entryVars, controlVars, boundVars
    <2>2. RemovalInv(w)'
        BY <1>0, <1>1, <1>5, <2>1 DEF RemovalInv
    <2> QED
        BY <1>1, <1>3, <1>5, <2>1, <2>2
<1>6. CASE Collect(w)
    <2> DEFINE c == {<<j, round[j]>> : j \in IF w = All THEN ActiveJobs ELSE On(w)}
    <2>1. /\ UNCHANGED <<plan, job, state, round, finished, attemptVars, fileVars, crud, saved, retired, barred>>
          /\ captured' = [captured EXCEPT ![w] = c] /\ sweep' = [sweep EXCEPT ![w] = "cancelling"]
          /\ w \in Hosts => sweep[w] = "collect"
        BY <1>2, <1>6 DEF Collect, Phase, Event, NoEvent, entryVars, controlVars, hostVars, boundVars
    <2>2. c \in SUBSET (Jobs \X Nat)
        BY <1>0 DEF Types, ActiveJobs, On, Entries
    <2>3. w \in Hosts => \A j \in On(w) : <<j, round[j]>> \in c
        BY <1>2
    <2> HIDE DEF c
    <2>4. captured' \in [Hosts \cup {All} -> SUBSET (Jobs \X Nat)] /\ captured'[w] = c
          /\ \A h \in Hosts \ {w} : captured'[h] = captured[h]
        BY <1>1, <2>1, <2>2
    <2>5. sweep'[w] = "cancelling"
        BY <1>1, <2>1
    <2>6. w \in Hosts => RemovalInv(w)'
        <3>1. \A h \in Hosts : On(h)' = On(h)
            BY <2>1 DEF On, Entries
        <3> QED
            BY <1>0, <2>1, <2>3, <2>4, <2>5, <3>1 DEF RemovalInv
    <2> QED
        BY <1>3, <2>1, <2>4, <2>6
<1>7. CASE SweepWaits(w)
    <2>1. /\ UNCHANGED <<plan, job, state, round, finished, attemptVars, fileVars, hostVars, captured>>
          /\ sweep' = [sweep EXCEPT ![w] = "waiting"] /\ sweep[w] = "cancelling"
        BY <1>7 DEF SweepWaits, Phase, entryVars, controlVars, boundVars
    <2>2. w \in Hosts => RemovalInv(w)'
        BY <1>0, <1>1, <2>1 DEF RemovalInv, On, Entries, hostVars
    <2> QED
        BY <1>1, <1>3, <2>1, <2>2 DEF hostVars
<1>8. CASE SweepTimesOut(w)
    <2>1. /\ UNCHANGED <<plan, job, state, round, finished, attemptVars, fileVars, hostVars, captured>>
          /\ sweep[w] = "waiting"
          /\ \E q \in {"failed", "done"} : sweep' = [sweep EXCEPT ![w] = q] /\ (w \in Hosts => q = "failed")
        BY <1>2, <1>8 DEF SweepTimesOut, Phase, Event, entryVars, controlVars
    <2>2. w \in Hosts => RemovalInv(w)'
        BY <1>0, <1>1, <2>1 DEF RemovalInv, On, Entries, hostVars
    <2> QED
        BY <1>1, <1>3, <2>1, <2>2 DEF hostVars
<1>9. CASE w \in Hosts /\ Restore(w)
    <2>1. /\ UNCHANGED <<plan, job, state, round, finished, attemptVars, fileVars, crud, saved, captured, barred>>
          /\ retired' = retired \ {w} /\ sweep' = [sweep EXCEPT ![w] = "restoring"]
          /\ sweep[w] \in {"failed", "done"}
        BY <1>9 DEF Restore, Phase, entryVars, controlVars, boundVars
    <2>2. RemovalInv(w)'
        BY <1>0, <1>1, <1>9, <2>1 DEF RemovalInv
    <2> QED
        BY <1>1, <1>3, <1>9, <2>1, <2>2
<1>10. CASE w \in Hosts /\ RestoreBarrier(w)
    <2>1. /\ UNCHANGED <<plan, job, state, round, finished, attemptVars, fileVars, crud, saved, retired>>
          /\ barred' = barred \ {w} /\ sweep' = [sweep EXCEPT ![w] = "idle"]
          /\ captured' = [captured EXCEPT ![w] = {}]
        BY <1>10 DEF RestoreBarrier, Phase, entryVars, controlVars, boundVars
    <2>2. RemovalInv(w)'
        BY <1>0, <1>1, <1>10, <2>1 DEF RemovalInv
    <2> QED
        BY <1>1, <1>3, <1>10, <2>1, <2>2
<1>11. CASE SweepEnds(w)
    <2>1. /\ UNCHANGED <<plan, job, round, finished, attemptVars, fileVars, hostVars, captured>>
          /\ sweep' = [sweep EXCEPT ![w] = "done"]
          /\ state' = [j \in Jobs |-> IF w # All /\ j \in On(w) THEN "gone" ELSE state[j]]
        BY <1>11 DEF SweepEnds, Phase, entryVars, controlVars, boundVars
    <2>2. CASE w = All
        <3>1. state' = state
            BY <1>0, <2>1, <2>2 DEF Types
        <3> QED
            BY <1>1, <1>2, <1>3, <2>1, <2>2, <3>1 DEF hostVars
    <2>3. CASE w \in Hosts
        <3>1. sweep[w] = "waiting" /\ Over(w) /\ ~Leased(w)
            BY <1>2, <1>11, <2>3 DEF SweepEnds, Removed
        <3>2. \A j \in On(w) : j \in finished
            <4>1. ASSUME NEW j \in On(w) PROVE j \in finished
                <5>1. <<j, round[j]>> \in captured[w] /\ j \in Jobs /\ round[j] \in Nat
                    BY <1>0, <2>3, <3>1 DEF RemovalInv, On, Entries, Types
                <5> QED
                    BY <3>1, <5>1 DEF Over
            <4> QED
                BY <4>1
        <3>3. \A j \in Jobs : \/ state'[j] = state[j]
                              \/ (state[j] # "none" /\ state'[j] = "gone" /\ pc[j] \in {"none", "mark"})
            BY <2>1, <3>2 DEF Inv, JobInv, On, Entries, Terminal, Live
        <3>4. state' \in [Jobs -> JobStates]
            BY <1>0, <2>1 DEF Types, JobStates
        <3>5. \A h \in Hosts : On(h)' \subseteq On(h)
            BY <1>0, <2>1, <3>3, <3>4, OnKept
        <3>6. On(w)' = {}
            BY <1>2, <2>1, <2>3 DEF On, Entries, Terminal, Live
        <3>7. sweep' \in [Hosts \cup {All} -> Phases] /\ sweep'[w] = "done"
              /\ \A h \in Hosts \ {w} : sweep'[h] = sweep[h]
            BY <1>1, <2>1
        <3>8. w \notin crud /\ RemovalInv(w)
            BY <1>0, <2>3, <3>1 DEF Leased
        <3>9. RemovalInv(w)'
            BY <2>1, <3>1, <3>6, <3>7, <3>8 DEF RemovalInv, hostVars
        <3>10. ASSUME NEW h \in Hosts \ {w} PROVE RemovalInv(h)'
            BY <1>0, <2>1, <3>5, <3>7 DEF RemovalInv, hostVars
        <3>11. \A h \in Hosts : RemovalInv(h)'
            BY <3>9, <3>10
        <3> QED
            BY <1>0, <1>1, <2>1, <3>3, <3>4, <3>7, <3>11, EntriesKept DEF Types, hostVars
    <2> QED
        BY <2>2, <2>3
<1>12. ASSUME NEW g \in Jobs, SweepCancels(w, g) PROVE Inv'
    BY <1>12, CancelsKept DEF SweepCancels, boundVars
<1> QED
    BY <1>4, <1>5, <1>6, <1>7, <1>8, <1>9, <1>10, <1>11, <1>12, <1>2 DEF RemovalStep, RestoreStep

\* In the initial state there is nothing.
LEMMA InitInv == Init => Inv
<1> SUFFICES ASSUME Init PROVE Inv
    OBVIOUS
<1>1. Types
    <2>1. plan \in Plans /\ job \in [Jobs -> Requested \cup {NoJob}] /\ state \in [Jobs -> JobStates]
          /\ round \in [Jobs -> Nat] /\ placed \subseteq Jobs \X Nat /\ saved \in [Hosts -> Nat]
        BY DEF Init, JobStates
    <2>2. pc \in [Jobs -> Pcs] /\ outcome \in [Jobs -> Results \cup {"none"}]
          /\ target \in [Jobs -> Names \cup {All}]
        BY DEF Init, Pcs
    <2>3. dest \in [Directions -> [Names -> Files]]
        BY DEF Init, Files
    <2>4. temp \in [Jobs -> [Names -> {"absent", "partial", "complete"}]]
          /\ backup \in [Jobs -> [Names -> Files]]
        BY DEF Init, Files
    <2>5. sweep \in [Hosts \cup {All} -> Phases] /\ captured \in [Hosts \cup {All} -> SUBSET (Jobs \X Nat)]
        BY DEF Init, Phases
    <2> QED
        BY <2>1, <2>2, <2>3, <2>4, <2>5 DEF Types
<1>2. ASSUME NEW j \in Jobs PROVE JobInv(j) /\ FileInv(j)
    <2>1. /\ job[j] = NoJob /\ state[j] = "none" /\ round[j] = 0 /\ pc[j] = "none" /\ outcome[j] = "none"
          /\ placed = {} /\ finished = {}
          /\ \A n \in Names : temp[j][n] = "absent" /\ backup[j][n] = Absent
        BY DEF Init
    <2> QED
        BY <2>1 DEF JobInv, FileInv, ResultInv, TargetInv, LeavesInv, Tidy, Live, Attempt, Working,
                    Unplaced, Fresh, Copying
<1>3. ASSUME NEW h \in Hosts PROVE RemovalInv(h)
    BY DEF Init, RemovalInv
<1>4. SafeInv
    BY Contentful, TransfersAssumption DEF Init, SafeInv
<1> QED
    BY <1>1, <1>2, <1>3, <1>4 DEF Inv

\* Every step keeps the invariant.
LEMMA NextInv == Inv /\ [Next]_vars => Inv'
<1> SUFFICES ASSUME Inv, [Next]_vars PROVE Inv'
    OBVIOUS
<1>1. CASE RequestStep \/ SignalStep
    BY <1>1, RequestKeepsInv
<1>2. CASE \E j \in Jobs : AttemptStep(j)
    BY <1>2, AttemptKeepsInv
<1>3. CASE \E w \in Hosts \cup {All} : RemovalStep(w)
    BY <1>3, RemovalKeepsInv
<1>4. CASE \E h \in Hosts : RestoreStep(h)
    BY <1>4, RemovalKeepsInv
<1>5. CASE UNCHANGED vars
    <2>1. UNCHANGED <<plan, job, state, round, finished, pc, outcome, target, dest, temp, backup, placed,
                      retired, barred, crud, saved, sweep, captured>>
        BY <1>5 DEF vars, entryVars, controlVars, attemptVars, fileVars, hostVars, sweepVars, boundVars
    <2> QED
        BY <2>1 DEF Inv, Types, JobInv, FileInv, ResultInv, TargetInv, LeavesInv, Tidy, RemovalInv, On,
                    Entries, SafeInv
<1> QED
    BY <1>1, <1>2, <1>3, <1>4, <1>5 DEF Next

\* The invariant holds in every state of the program.
THEOREM Invariance == Spec => []Inv
<1>1. Init => Inv
    BY InitInv
<1>2. Inv /\ [Next]_vars => Inv'
    BY NextInv
<1> QED
    BY <1>1, <1>2, PTL DEF Spec

\* A file that an overwrite replaces is never lost: while an attempt moves it aside,
\* replaces it, rolls back or removes the backup, and whatever of it fails or is done
\* without an answer, the file is at its name, replaced, or in a backup.
THEOREM NothingIsLost == Spec => []NeverNeither
<1>1. Inv => NeverNeither
    BY DEF Inv, SafeInv, NeverNeither
<1> QED
    BY <1>1, Invariance, PTL

\* What TransferJob.state says after execute is what happened to the destination.
THEOREM StateIsTrue == Spec => []OutcomeIsTrue
<1>1. Inv => OutcomeIsTrue
    <2> SUFFICES ASSUME Inv, NEW j \in Entries
                 PROVE  /\ state[j] = "completed" /\ outcome[j] # "skipped" => <<j, round[j]>> \in placed
                        /\ state[j] = "cancelled" =>
                              /\ <<j, round[j]>> \notin placed
                              /\ round[j] = 1 => \A n \in Names : temp[j][n] = "absent" /\ backup[j][n] = Absent
        BY DEF OutcomeIsTrue
    <2>1. j \in Jobs /\ JobInv(j) /\ ResultInv(j) /\ LeavesInv(j)
        BY DEF Inv, FileInv, Entries
    <2>2. state[j] = "cancelled" => pc[j] \in {"none", "mark"}
        BY <2>1 DEF JobInv, Live
    <2> QED
        BY <2>1, <2>2 DEF ResultInv, LeavesInv, Tidy, Copying
<1> QED
    BY <1>1, Invariance, PTL

\* When remove_host has succeeded for the SFTP service, no job, task or operation of
\* the host is left.
THEOREM RemovedHostIsQuiet == Spec => []RetiredHostIsQuiet
<1>1. Inv => RetiredHostIsQuiet
    <2> SUFFICES ASSUME Inv, NEW h \in Hosts, sweep[h] = "done"
                 PROVE  /\ On(h) = {} /\ ~Leased(h)
                        /\ \A j \in Jobs : job[j].host = h => pc[j] \in {"none", "mark"}
        BY DEF RetiredHostIsQuiet
    <2>1. On(h) = {} /\ h \notin crud
        BY DEF Inv, RemovalInv
    <2>2. \A j \in Jobs : job[j].host = h => pc[j] \in {"none", "mark"}
        BY <2>1 DEF Inv, JobInv, On, Entries
    <2> QED
        BY <2>1, <2>2 DEF Leased, Working
<1> QED
    BY <1>1, Invariance, PTL

\* A retry begins a new attempt of a job only when the task of the one before has
\* reported its end: two tasks never write the same temporary.
THEOREM AttemptsDoNotOverlap == Spec => OneAttempt
<1>1. Inv /\ [Next]_vars => [\A j \in Jobs : round'[j] # round[j] => pc[j] \in {"none", "mark"}]_vars
    <2> SUFFICES ASSUME Inv, Next, NEW j \in Jobs, round'[j] # round[j]
                 PROVE  pc[j] \in {"none", "mark"}
        OBVIOUS
    <2>1. JobInv(j) /\ Types
        BY DEF Inv
    <2>2. CASE \E h \in Hosts : Start(j, h)
        BY <2>1, <2>2 DEF Start, JobInv, Live
    <2>3. CASE Retry(j)
        BY <2>1, <2>3 DEF Retry, Retriable, JobInv, Live
    <2>4. CASE \E i \in Jobs \ {j} : Retry(i) \/ \E h \in Hosts : Start(i, h)
        BY <2>1, <2>4 DEF Retry, Start, Types
    <2>5. CASE \/ \E h \in Hosts : StartRefused(h) \/ HostUpdate(h) \/ BeginCrud(h) \/ EndCrud(h)
               \/ \E i \in Jobs : Cancel(i)
               \/ SignalStep
        BY <2>5 DEF StartRefused, HostUpdate, BeginCrud, EndCrud, Cancel, Cancels, SignalStep, Signal, entryVars
    <2>6. CASE \E i \in Jobs : AttemptStep(i)
        <3> USE DEF NoEntry, entryVars
        <3> QED
            BY <2>6 DEF AttemptStep, Execute, BeginAttempt, PreflightStops, Resolve, Candidate, Prepare,
                        Copy, CheckCancelled, LookForExisting, Promote, Backup, Replace, Rollback,
                        DropBackup, Clean, Finish, MarkFinished
    <2>7. CASE \E w \in Hosts \cup {All} : RemovalStep(w)
        BY <2>7 DEF RemovalStep, Retire, Bar, Collect, SweepWaits, SweepEnds, SweepTimesOut, SweepCancels,
                    Cancels, entryVars
    <2>8. CASE \E h \in Hosts : RestoreStep(h)
        BY <2>8 DEF RestoreStep, Restore, RestoreBarrier, entryVars
    <2> QED
        BY <2>2, <2>3, <2>4, <2>5, <2>6, <2>7, <2>8 DEF Next, RequestStep
<1> QED
    BY <1>1, Invariance, PTL DEF Spec, OneAttempt

-----------------------------------------------------------------------------
(* EventStream.                                                            *)

\* Messages, with no bound on the numbers.
Wire == [resync : BOOLEAN, sequence : Nat, state : Nat]

\* What the log keeps.
Envelopes == [resync : BOOLEAN, state : Nat, total : Nat]

\* The id that the browser has seen when it has read everything under way.
End == IF wire = <<>> THEN lastId ELSE wire[Len(wire)].sequence

\* The types that the proof needs.
StreamTypes ==
    /\ sent \in Seq(Envelopes)
    /\ unsent \subseteq Nat
    /\ bus \in Seq(Nat)
    /\ revisions \in Seq(Nat)
    /\ kept \in Nat /\ kept <= Sequence
    /\ since \in Nat \cup {None}
    /\ receiver \in Nat \ {0}
    /\ receiver - 1 <= Sequence
    /\ pending \in Seq(Wire)
    /\ last \in Nat
    /\ wire \in Seq(Wire)
    /\ lastId \in Nat \cup {None}

\* With events below the byte limit the log retains the newest event.
LogInv == Sequence = 0 \/ kept >= 1

\* Until the handler has started, nothing is under way, and the client resumes
\* from the last id it saw.
IdleInv ==
    conn \in {"none", "connecting", "subscribed"} =>
        wire = <<>> /\ since \in {None, lastId} /\ (~Resumable => since = None)

\* The handler starts with a resync: the receiver has nothing older to come.
OnlyResync ==
    /\ Len(pending) = 1 /\ pending[1].resync
    /\ pending[1].sequence >= receiver - 1

\* What the handler replays goes on where the client is, and reaches the receiver.
Follows ==
    /\ \A i \in 1 .. Len(pending) : pending[i].sequence = last + i
    /\ End = last
    /\ last + Len(pending) >= receiver - 1

\* A client that is connected was told to resync, or misses nothing.
OpenInv == conn = "open" => OnlyResync \/ Follows

\* Only a handler that has replayed all lags.
LagInv == conn = "lagged" => pending = <<>>

\* One event that exceeds the byte limit empties the log, and EventHub::initial then
\* takes every id for retained: such events are excluded for a client that resumes.
\* The browser of this repository never does.
Small == ~Resumable \/ \A size \in Sizes : size <= ByteLimit

\* The inductive invariant.
StreamInv == StreamTypes /\ (Resumable => LogInv) /\ IdleInv /\ OpenInv /\ LagInv /\ NoSilentGap

\* The elements of a sequence.
LEMMA Element ==
    ASSUME NEW S, NEW s \in Seq(S), NEW i \in 1 .. Len(s)
    PROVE  s[i] \in S
OBVIOUS

\* The first element, and the others one place further.
LEMMA HeadAndTail ==
    ASSUME NEW S, NEW s \in Seq(S), s # <<>>
    PROVE  /\ Head(s) \in S /\ Head(s) = s[1] /\ Len(s) \in Nat \ {0}
           /\ Tail(s) \in Seq(S) /\ Len(Tail(s)) = Len(s) - 1
           /\ \A i \in 1 .. Len(s) - 1 : Tail(s)[i] = s[i + 1]
OBVIOUS

\* Max of the community modules is a CHOOSE: of two numbers it is the greater.
LEMMA MaxOfTwo ==
    ASSUME NEW a \in Int, NEW b \in Int
    PROVE  Max({a, b}) = IF a >= b THEN a ELSE b
BY DEF Max

\* A set of numbers has a least one.
LEMMA LeastIsMember ==
    ASSUME NEW F \in SUBSET Nat, F # {}
    PROVE  \E n \in F : \A x \in F : n <= x
<1>1. IsWellFoundedOn({p \in Nat \X Nat : p[1] < p[2]}, Nat)
    BY NatLessThanWellFounded DEF OpToRel
<1>2. PICK n \in F : \A x \in F : ~ (<<x, n>> \in {p \in Nat \X Nat : p[1] < p[2]})
    BY <1>1, WFMin
<1>3. \A x \in F : n <= x
    <2>1. ASSUME NEW x \in F PROVE n <= x
        <3>1. x \in Nat /\ n \in Nat /\ ~ (<<x, n>> \in {p \in Nat \X Nat : p[1] < p[2]})
            BY <1>2
        <3> QED
            BY <3>1
    <2> QED
        BY <2>1
<1> QED
    BY <1>3

\* A set of numbers with a bound has a greatest one.
LEMMA MaxIsMember ==
    ASSUME NEW n \in Nat, NEW F \in SUBSET (0 .. n), F # {}
    PROVE  Max(F) \in F /\ \A x \in F : Max(F) >= x
<1> DEFINE G == {n - x : x \in F}
<1>1. G \in SUBSET Nat /\ G # {}
    <2>1. \A x \in F : n - x \in Nat
        OBVIOUS
    <2> QED
        BY <2>1
<1>2. PICK m \in G : \A y \in G : m <= y
    BY <1>1, LeastIsMember
<1>3. PICK x \in F : m = n - x
    BY <1>2
<1>4. \A y \in F : x >= y
    <2> SUFFICES ASSUME NEW y \in F PROVE x >= y
        OBVIOUS
    <2>1. n - x <= n - y
        BY <1>2, <1>3
    <2> QED
        BY <2>1
<1> QED
    BY <1>4 DEF Max

\* No event and no connection yet.
LEMMA StreamInitInv == StreamInit => StreamInv
BY StreamAssumption DEF StreamInit, StreamInv, StreamTypes, LogInv, IdleInv, OpenInv, LagInv, NoSilentGap, Sequence, None

\* What the log retains of the events.
LEMMA PublishKeeps ==
    ASSUME StreamInv, NEW b \in BOOLEAN, NEW n \in Nat, NEW size \in Sizes, Publish(b, n, size), Small
    PROVE  /\ sent' \in Seq(Envelopes) /\ Len(sent') = Len(sent) + 1
           /\ kept' \in Nat /\ kept' <= Len(sent')
           /\ Resumable => kept' >= 1
<1> DEFINE e == [resync |-> b, state |-> n, total |-> Total(sent, Sequence) + size]
           F == {k \in 0 .. kept + 1 : k <= LogLimit /\ Bytes(sent', k) <= ByteLimit}
<1>1. size \in Nat \ {0} /\ sent \in Seq(Envelopes) /\ kept \in 0 .. Len(sent)
    BY StreamAssumption DEF StreamInv, StreamTypes, Publish, Sequence
<1>2. Total(sent, Sequence) \in Nat
    <2>1. CASE Len(sent) = 0
        BY <1>1, <2>1 DEF Total, Sequence
    <2>2. CASE Len(sent) # 0
        <3>1. sent[Len(sent)] \in Envelopes
            <4>1. Len(sent) \in 1 .. Len(sent)
                BY <1>1, <2>2
            <4> QED
                BY <1>1, <4>1, Element
        <3> QED
            BY <3>1, <2>2 DEF Envelopes, Total, Sequence
    <2> QED
        BY <2>1, <2>2
<1>3. /\ sent' = Append(sent, e) /\ kept' = Max(F)
    BY DEF Publish
<1>4. e \in Envelopes /\ e.total = Total(sent, Sequence) + size
    BY <1>1, <1>2 DEF Envelopes
<1> HIDE DEF e
<1>5. sent' \in Seq(Envelopes) /\ Len(sent') = Len(sent) + 1
      /\ sent'[Len(sent) + 1] = e /\ (Len(sent) # 0 => sent'[Len(sent)] = sent[Len(sent)])
    BY <1>1, <1>3, <1>4
<1>6. Bytes(sent', 0) = 0
    <2>1. Total(sent', Len(sent')) = e.total
        BY <1>1, <1>5 DEF Total
    <2> QED
        BY <1>1, <1>2, <1>4, <1>5, <2>1 DEF Bytes
<1>7. Bytes(sent', 1) = size
    <2>1. Total(sent', Len(sent')) = e.total
        BY <1>1, <1>5 DEF Total
    <2>2. Total(sent', Len(sent') - 1) = Total(sent, Sequence)
        BY <1>1, <1>5 DEF Total, Sequence
    <2> QED
        BY <1>1, <1>2, <1>4, <2>1, <2>2 DEF Bytes
<1>8. F \in SUBSET (0 .. kept + 1) /\ 0 \in F
    BY <1>1, <1>6, StreamAssumption
<1>9. Resumable => 1 \in F
    BY <1>1, <1>7, StreamAssumption DEF Small
<1>10. Max(F) \in F /\ \A x \in F : Max(F) >= x
    <2> HIDE DEF F
    <2> QED
        <3>1. kept + 1 \in Nat /\ F \in SUBSET (0 .. kept + 1) /\ F # {}
            BY <1>1, <1>8
        <3> QED
            BY <3>1, MaxIsMember
<1>11. Max(F) \in 0 .. kept + 1 /\ (Resumable => Max(F) >= 1)
    BY <1>8, <1>9, <1>10
<1> HIDE DEF F
<1> QED
    BY <1>1, <1>3, <1>5, <1>11

\* EventHub::initial for an id that the log retains: the events that follow it.
LEMMA ReplayFollows ==
    ASSUME StreamInv, NEW s \in Nat, Resumable, Retained(s)
    PROVE  /\ Replay(s) \in Seq(Wire)
           /\ \A i \in 1 .. Len(Replay(s)) : Replay(s)[i].sequence = s + i
           /\ s + Len(Replay(s)) = Sequence
<1>1. kept \in Nat /\ Sequence \in Nat /\ kept <= Sequence /\ LogInv /\ s <= Sequence
    BY DEF StreamInv, StreamTypes, Sequence, Retained
<1>2. s >= Sequence - kept
    BY <1>1 DEF Retained, LogInv
<1>3. Max({s, Sequence - kept}) = s
    BY <1>1, <1>2, MaxOfTwo
<1>4. Replay(s) = [i \in 1 .. Sequence - s |-> Envelope(s + i)]
    <2>1. Replay(s) = [i \in 1 .. Sequence - (s + 1) + 1 |-> Envelope((s + 1) + i - 1)]
        BY <1>3 DEF Replay
    <2>2. Sequence - (s + 1) + 1 = Sequence - s /\ \A i \in 1 .. Sequence - s : (s + 1) + i - 1 = s + i
        BY <1>1
    <2> QED
        BY <2>1, <2>2
<1>5. \A i \in 1 .. Sequence - s : Envelope(s + i) \in Wire /\ Envelope(s + i).sequence = s + i
    <2> SUFFICES ASSUME NEW i \in 1 .. Sequence - s
                 PROVE Envelope(s + i) \in Wire /\ Envelope(s + i).sequence = s + i
        OBVIOUS
    <2>1. s + i \in 1 .. Len(sent) /\ sent \in Seq(Envelopes)
        BY <1>1 DEF Sequence, StreamInv, StreamTypes
    <2>2. sent[s + i] \in Envelopes
        BY <2>1, Element
    <2>3. sent[s + i].state \in Nat /\ sent[s + i].resync \in BOOLEAN
        BY <2>2 DEF Envelopes
    <2> QED
        BY <2>1, <2>3 DEF Envelope, Wire
<1>6. Sequence - s \in Nat
    BY <1>1
<1>7. Replay(s) \in Seq(Wire) /\ Len(Replay(s)) = Sequence - s
    BY <1>4, <1>5, <1>6
<1>8. ASSUME NEW i \in 1 .. Len(Replay(s))
      PROVE  Replay(s)[i].sequence = s + i
    <2>1. i \in 1 .. Sequence - s
        BY <1>7
    <2> QED
        BY <1>4, <1>5, <2>1
<1>9. s + Len(Replay(s)) = Sequence
    BY <1>1, <1>6, <1>7
<1> QED
    BY <1>7, <1>8, <1>9

\* The hub changes nothing of the connections.
LEMMA PublishInv ==
    ASSUME StreamInv, NEW b \in BOOLEAN, NEW n \in Nat, NEW size \in Sizes, Publish(b, n, size), Small,
           UNCHANGED <<revisions, connVars, wire, lastId>>, unsent' \subseteq unsent, bus' \in Seq(Nat)
    PROVE  StreamInv'
<1>1. /\ sent' \in Seq(Envelopes) /\ Len(sent') = Len(sent) + 1
      /\ kept' \in Nat /\ kept' <= Len(sent') /\ (Resumable => kept' >= 1)
    BY PublishKeeps
<1>2. UNCHANGED <<connVars, wire, lastId>> /\ revisions' \in Seq(Nat) /\ unsent' \subseteq Nat
    BY DEF StreamInv, StreamTypes
<1>3. Len(sent) \in Nat
    BY DEF StreamInv, StreamTypes
<1>4. Resumable => LogInv'
    BY <1>1 DEF LogInv
<1>5. StreamTypes'
    <2>1. receiver - 1 <= Len(sent) + 1
        BY <1>3 DEF StreamInv, StreamTypes, Sequence
    <2> QED
        BY <1>1, <1>2, <2>1 DEF StreamInv, StreamTypes, connVars, Sequence
<1>6. (IdleInv /\ OpenInv /\ LagInv /\ NoSilentGap)'
    BY <1>2 DEF StreamInv, IdleInv, OpenInv, OnlyResync, Follows, End, LagInv, NoSilentGap, connVars
<1> QED
    BY <1>4, <1>5, <1>6 DEF StreamInv

\* The registry and the forwarder: states change, are emitted and published.
LEMMA SourceInv ==
    ASSUME StreamInv, Small, Change \/ Remove \/ EmitSome \/ ForwardSome
    PROVE  StreamInv'
<1>1. unsent \subseteq Nat /\ bus \in Seq(Nat) /\ revisions \in Seq(Nat) /\ Latest \in Nat
    BY DEF StreamInv, StreamTypes, Latest
<1>2. ASSUME UNCHANGED <<sent, kept, connVars, wire, lastId>>,
             unsent' \subseteq Nat, bus' \in Seq(Nat), revisions' \in Seq(Nat)
      PROVE  StreamInv'
    BY <1>2 DEF StreamInv, StreamTypes, LogInv, IdleInv, OpenInv, OnlyResync, Follows, End, LagInv,
        NoSilentGap, connVars, Sequence
<1>3. CASE Change
    <2>1. Revision(Latest) \in Nat
        BY <1>1, Element DEF Revision, Latest
    <2>2. unsent' \subseteq Nat /\ revisions' \in Seq(Nat) /\ UNCHANGED <<bus, sent, kept, connVars, wire, lastId>>
        BY <1>1, <1>3, <2>1 DEF Change, logVars, clientVars
    <2> QED
        BY <1>1, <1>2, <2>2
<1>4. CASE Remove
    <2>1. revisions' \in Seq(Nat) /\ UNCHANGED <<unsent, bus, sent, kept, connVars, wire, lastId>>
        BY <1>1, <1>4 DEF Remove, logVars, clientVars
    <2> QED
        BY <1>1, <1>2, <2>1
<1>5. CASE DropSuperseded
    <2>1. unsent' \subseteq Nat /\ UNCHANGED <<revisions, bus, sent, kept, connVars, wire, lastId>>
        BY <1>1, <1>5 DEF DropSuperseded, logVars, clientVars
    <2> QED
        BY <1>1, <1>2, <2>1
<1>6. ASSUME NEW n \in unsent, EmitTask(n)
      PROVE  StreamInv'
    <2>1. unsent' \subseteq Nat /\ UNCHANGED <<revisions, sent, kept, connVars, wire, lastId>>
        BY <1>1, <1>6 DEF EmitTask, logVars, clientVars
    <2>2. bus' = Append(bus, n) \/ (bus # <<>> /\ bus' = Append(Tail(bus), n))
        <3>1. CASE Len(bus) < BusCapacity
            BY <1>6, <3>1 DEF EmitTask
        <3>2. CASE ~(Len(bus) < BusCapacity)
            <4>1. bus # <<>>
                BY <3>2, StreamAssumption
            <4> QED
                BY <1>6, <3>2, <4>1 DEF EmitTask
        <3> QED
            BY <3>1, <3>2
    <2>3. n \in Nat /\ (bus # <<>> => Tail(bus) \in Seq(Nat))
        BY <1>1, <1>6, HeadAndTail
    <2>4. ASSUME NEW s \in Seq(Nat), NEW m \in Nat
          PROVE  Append(s, m) \in Seq(Nat)
        OBVIOUS
    <2>5. bus' \in Seq(Nat)
        BY <1>1, <2>2, <2>3, <2>4, Zenon
    <2> QED
        BY <1>1, <1>2, <2>1, <2>5
<1>7. ASSUME NEW n \in unsent, NEW size \in Sizes, EmitStatus(n, size)
      PROVE  StreamInv'
    <2>1. /\ Publish(FALSE, n, size) /\ unsent' \subseteq unsent /\ n \in Nat
          /\ bus' \in Seq(Nat) /\ UNCHANGED <<revisions, connVars, wire, lastId>>
        BY <1>1, <1>7 DEF EmitStatus, clientVars
    <2> QED
        BY <2>1, PublishInv
<1>8. ASSUME NEW size \in Sizes, Forward(size)
      PROVE  StreamInv'
    <2>1. Publish(FALSE, Head(bus), size) /\ bus # <<>> /\ bus' = Tail(bus) /\ unsent' \subseteq unsent
        BY <1>8 DEF Forward
    <2>2. UNCHANGED <<revisions, connVars, wire, lastId>>
        BY <1>8 DEF Forward, clientVars
    <2>3. Head(bus) \in Nat /\ bus' \in Seq(Nat)
        BY <1>1, <2>1, HeadAndTail
    <2> QED
        BY <2>1, <2>2, <2>3, PublishInv
<1>9. ASSUME NEW size \in Sizes, ForwarderLags(size)
      PROVE  StreamInv'
    <2>1. /\ Publish(TRUE, 0, size) /\ unsent' \subseteq unsent /\ bus' \in Seq(Nat)
          /\ UNCHANGED <<revisions, connVars, wire, lastId>>
        BY <1>1, <1>9 DEF ForwarderLags, clientVars
    <2> QED
        BY <2>1, PublishInv
<1> QED
    BY <1>3, <1>4, <1>5, <1>6, <1>7, <1>8, <1>9 DEF EmitSome, ForwardSome

\* Connecting, subscribing and disconnecting: nothing is under way.
LEMMA ConnectInv ==
    ASSUME StreamInv, ConnectSome \/ Subscribe \/ Disconnect
    PROVE  StreamInv'
<1>1. UNCHANGED <<unsent, bus, revisions, sent, kept, lastId>> /\ Sequence' = Sequence
    BY DEF ConnectSome, Connect, Subscribe, Disconnect, hubVars, sourceVars, logVars, clientVars, Sequence
<1>2. Sequence \in Nat
    BY DEF StreamInv, StreamTypes, Sequence
<1>3. wire' = <<>> /\ conn' \in {"none", "connecting", "subscribed"}
    BY DEF StreamInv, IdleInv, ConnectSome, Connect, Subscribe, Disconnect, clientVars
<1>4. StreamTypes'
    <2>1. since' \in Nat \cup {None}
        BY DEF StreamInv, StreamTypes, ConnectSome, Connect, Subscribe, Disconnect
    <2>2. receiver' \in Nat \ {0} /\ receiver' - 1 <= Sequence
        <3>1. receiver \in Nat \ {0} /\ receiver - 1 <= Sequence
            BY DEF StreamInv, StreamTypes
        <3>2. receiver' = receiver \/ receiver' = Sequence + 1 \/ receiver' = 1
            BY DEF ConnectSome, Connect, Subscribe, Disconnect
        <3> QED
            BY <1>2, <3>1, <3>2
    <2>3. pending' \in Seq(Wire) /\ last' \in Nat
        <3>1. (pending' = pending \/ pending' = <<>>) /\ (last' = last \/ last' = 0)
            BY DEF ConnectSome, Connect, Subscribe, Disconnect
        <3>2. last' \in Nat
            BY <3>1 DEF StreamInv, StreamTypes
        <3>3. pending \in Seq(Wire) /\ <<>> \in Seq(Wire)
            BY DEF StreamInv, StreamTypes
        <3> QED
            BY <3>1, <3>2, <3>3, Zenon
    <2> QED
        BY <1>1, <1>3, <2>1, <2>2, <2>3 DEF StreamInv, StreamTypes
<1>5. IdleInv'
    BY <1>1, <1>3 DEF StreamInv, IdleInv, ConnectSome, Connect, Subscribe, Disconnect
<1>6. (Resumable => LogInv)' /\ OpenInv' /\ LagInv' /\ NoSilentGap'
    BY <1>1, <1>3 DEF StreamInv, LogInv, OpenInv, LagInv, NoSilentGap
<1> QED
    BY <1>4, <1>5, <1>6 DEF StreamInv

\* The handler takes what it replays.
LEMMA InitialInv ==
    ASSUME StreamInv, Initial
    PROVE  StreamInv'
<1>1. /\ conn = "subscribed" /\ conn' = "open" /\ pending' = Replay(since)
      /\ last' = Max({since, 0})
      /\ UNCHANGED <<unsent, bus, revisions, sent, kept, since, receiver, wire, lastId>>
      /\ wire = <<>> /\ since \in {None, lastId} /\ (~Resumable => since = None)
    BY DEF Initial, hubVars, sourceVars, logVars, clientVars, StreamInv, IdleInv
<1>2. /\ Sequence \in Nat /\ receiver - 1 <= Sequence /\ receiver \in Nat /\ since \in Nat \cup {None}
    BY DEF StreamInv, StreamTypes, Sequence
<1>3. last' \in Nat /\ (since \in Nat => last' = since)
    BY <1>1, <1>2, MaxOfTwo DEF None
<1>4. CASE since # None /\ Retained(since)
    <2>0. since \in Nat /\ Resumable /\ since = lastId
        BY <1>1, <1>2, <1>4, StreamAssumption
    <2>1. /\ pending' \in Seq(Wire)
          /\ \A i \in 1 .. Len(pending') : pending'[i].sequence = last' + i
          /\ last' + Len(pending') = Sequence
        BY <1>1, <1>3, <1>4, <2>0, ReplayFollows
    <2>2. StreamTypes' /\ Follows'
        BY <1>1, <1>2, <1>3, <2>0, <2>1 DEF StreamInv, StreamTypes, Follows, End, Sequence
    <2> QED
        BY <1>1, <2>2 DEF StreamInv, LogInv, Sequence, IdleInv, OpenInv, LagInv, NoSilentGap
<1>5. CASE ~(since # None /\ Retained(since))
    <2>1. pending' = <<Resync>>
        BY <1>1, <1>5 DEF Replay, Retained
    <2>2. Resync \in Wire /\ Resync.resync /\ Resync.sequence = Sequence
        BY <1>2 DEF Resync, Wire
    <2>3. pending' \in Seq(Wire) /\ Len(pending') = 1 /\ pending'[1] = Resync
        BY <2>1, <2>2
    <2>4. StreamTypes' /\ OnlyResync'
        BY <1>1, <1>2, <1>3, <2>2, <2>3 DEF StreamInv, StreamTypes, OnlyResync, Sequence
    <2> QED
        BY <1>1, <2>4 DEF StreamInv, LogInv, Sequence, IdleInv, OpenInv, LagInv, NoSilentGap
<1> QED
    BY <1>4, <1>5

\* A message that follows what is under way, or tells the client to resync.
LEMMA Extends ==
    ASSUME wire \in Seq(Wire), NoSilentGap, NEW m \in Wire, lastId \in Nat \cup {None},
           m.resync \/ m.sequence = End + 1,
           wire' = Append(wire, m), lastId' = lastId
    PROVE  wire' \in Seq(Wire) /\ NoSilentGap' /\ End' = m.sequence
<1>1. /\ wire' \in Seq(Wire) /\ Len(wire') = Len(wire) + 1 /\ Len(wire) \in Nat
      /\ wire'[Len(wire')] = m
      /\ \A i \in 1 .. Len(wire) : wire'[i] = wire[i]
    OBVIOUS
<1>2. wire' # <<>> /\ End' = m.sequence
    BY <1>1 DEF End
<1>3. ASSUME NEW i \in 1 .. Len(wire'), ~wire'[i].resync
      PROVE  wire'[i].sequence = (IF i = 1 THEN lastId ELSE wire'[i - 1].sequence) + 1
    <2>1. CASE i \in 1 .. Len(wire)
        <3>1. i = 1 \/ i - 1 \in 1 .. Len(wire)
            BY <1>1, <2>1
        <3> QED
            BY <1>1, <1>3, <2>1, <3>1 DEF NoSilentGap
    <2>2. CASE i = Len(wire) + 1
        <3>1. m.sequence = End + 1
            BY <1>1, <1>3, <2>2
        <3>2. CASE wire = <<>>
            BY <1>1, <2>2, <3>1, <3>2 DEF End
        <3>3. CASE wire # <<>>
            <4>1. Len(wire) \in 1 .. Len(wire) /\ i - 1 = Len(wire) /\ i # 1
                BY <1>1, <2>2, <3>3
            <4> QED
                BY <1>1, <2>2, <3>1, <3>3, <4>1 DEF End
        <3> QED
            BY <3>2, <3>3
    <2> QED
        BY <1>1, <2>1, <2>2
<1> QED
    BY <1>1, <1>2, <1>3 DEF NoSilentGap

\* The handler sends the next of what it replays.
LEMMA PendingInv ==
    ASSUME StreamInv, DeliverPending
    PROVE  StreamInv'
<1> DEFINE m == Head(pending)
<1>1. /\ conn = "open" /\ pending # <<>> /\ Deliver(m) /\ pending' = Tail(pending)
      /\ UNCHANGED <<unsent, bus, revisions, sent, kept, conn, since, receiver, lastId>>
    BY DEF DeliverPending, CanSend, hubVars, sourceVars, logVars, clientVars
<1>2. /\ pending \in Seq(Wire) /\ m \in Wire /\ m = pending[1] /\ m.sequence \in Nat
      /\ Tail(pending) \in Seq(Wire) /\ Len(Tail(pending)) = Len(pending) - 1
      /\ \A i \in 1 .. Len(pending) - 1 : Tail(pending)[i] = pending[i + 1]
      /\ Len(pending) \in Nat \ {0}
    <2>1. pending \in Seq(Wire) /\ pending # <<>>
        BY <1>1 DEF StreamInv, StreamTypes
    <2>2. m \in Wire
        BY <2>1, HeadAndTail
    <2>3. m.sequence \in Nat
        BY <2>2 DEF Wire
    <2> QED
        BY <2>1, <2>2, <2>3, HeadAndTail
<1>3. last \in Nat /\ receiver \in Nat \ {0} /\ lastId \in Nat \cup {None} /\ wire \in Seq(Wire) /\ NoSilentGap
    BY DEF StreamInv, StreamTypes
<1> HIDE DEF m
<1>4. m.resync \/ (m.sequence = last + 1 /\ End = last)
    BY <1>1, <1>2 DEF StreamInv, OpenInv, OnlyResync, Follows
<1>5. last' = m.sequence /\ wire' = Append(wire, m)
    BY <1>1, <1>2, <1>3, <1>4 DEF Deliver
<1>6. wire' \in Seq(Wire) /\ NoSilentGap' /\ End' = m.sequence
    BY <1>1, <1>2, <1>3, <1>4, <1>5, Extends
<1>7. Follows'
    <2>1. CASE OnlyResync
        BY <1>1, <1>2, <1>5, <1>6, <2>1 DEF OnlyResync, Follows
    <2>2. CASE Follows
        <3>1. m.sequence = last + 1
            BY <1>2, <2>2 DEF Follows
        <3>2. last' + Len(pending') >= receiver' - 1
            BY <1>1, <1>2, <1>3, <1>5, <2>2, <3>1 DEF Follows
        <3>3. ASSUME NEW i \in 1 .. Len(pending')
              PROVE  pending'[i].sequence = last' + i
            <4>1. i + 1 \in 1 .. Len(pending) /\ pending'[i] = pending[i + 1]
                BY <1>1, <1>2
            <4> QED
                BY <1>2, <1>3, <1>5, <2>2, <3>1, <4>1 DEF Follows
        <3> QED
            BY <1>5, <1>6, <3>2, <3>3 DEF Follows
    <2> QED
        BY <1>1, <2>1, <2>2 DEF StreamInv, OpenInv
<1>8. StreamTypes'
    BY <1>1, <1>2, <1>5, <1>6 DEF StreamInv, StreamTypes, Sequence
<1> QED
    BY <1>1, <1>6, <1>7, <1>8 DEF StreamInv, LogInv, Sequence, IdleInv, OpenInv, LagInv

\* The oldest envelope that the broadcast channel retains.
LEMMA OldestBound == ASSUME StreamInv PROVE Oldest \in Nat \ {0} /\ Oldest - 1 <= Sequence /\ Sequence \in Nat
<1>1. Sequence \in Nat /\ Capacity \in Nat \ {0}
    BY StreamAssumption DEF StreamInv, StreamTypes, Sequence
<1> QED
    BY <1>1, MaxOfTwo DEF Oldest

\* The handler sends the next of the broadcast, or has delivered it already.
LEMMA ReceivedInv ==
    ASSUME StreamInv, DeliverReceived
    PROVE  StreamInv'
<1> DEFINE m == Envelope(receiver)
<1>1. /\ conn = "open" /\ pending = <<>> /\ Deliver(m) /\ receiver' = receiver + 1
      /\ receiver \in Oldest .. Sequence
      /\ UNCHANGED <<unsent, bus, revisions, sent, kept, conn, since, pending, lastId>>
    BY DEF DeliverReceived, CanSend, hubVars, sourceVars, logVars, clientVars
<1>2. /\ last \in Nat /\ receiver \in Nat \ {0} /\ lastId \in Nat \cup {None} /\ wire \in Seq(Wire)
      /\ NoSilentGap /\ sent \in Seq(Envelopes) /\ Sequence = Len(sent)
    BY DEF StreamInv, StreamTypes, Sequence
<1>3. Sequence \in Nat /\ receiver <= Sequence
    BY <1>1, OldestBound
<1>4. m \in Wire /\ m.sequence = receiver
    <2>1. sent[receiver] \in Envelopes
        <3>1. receiver \in 1 .. Len(sent)
            BY <1>2, <1>3
        <3> QED
            BY <1>2, <3>1, Element
    <2>2. sent[receiver].state \in Nat /\ sent[receiver].resync \in BOOLEAN
        BY <2>1 DEF Envelopes
    <2> QED
        BY <1>2, <2>2 DEF Envelope, Wire
<1> HIDE DEF m
<1>5. Follows
    BY <1>1 DEF StreamInv, OpenInv, OnlyResync
<1>6. End = last /\ last >= receiver - 1
    BY <1>1, <1>2, <1>5 DEF Follows
<1>7. /\ wire' \in Seq(Wire) /\ NoSilentGap' /\ End' = last' /\ last' \in Nat /\ last' >= receiver
    <2>1. CASE receiver <= last /\ ~m.resync
        <3>1. UNCHANGED <<last, wire, lastId>>
            BY <1>1, <1>4, <2>1 DEF Deliver
        <3> QED
            BY <1>2, <1>6, <2>1, <3>1 DEF End, NoSilentGap
    <2>2. CASE ~(receiver <= last /\ ~m.resync)
        <3>1. last' = m.sequence /\ wire' = Append(wire, m) /\ (m.resync \/ m.sequence = End + 1)
            BY <1>1, <1>2, <1>4, <1>6, <2>2 DEF Deliver
        <3> QED
            BY <1>1, <1>2, <1>4, <3>1, Extends
    <2> QED
        BY <2>1, <2>2
<1>8. Follows'
    <2>1. Len(pending') = 0
        BY <1>1
    <2>4. ASSUME NEW i \in 1 .. Len(pending')
          PROVE  pending'[i].sequence = last' + i
        BY <2>1
    <2>5. End' = last'
        BY <1>7
    <2>2. ASSUME NEW n \in Nat, n >= receiver
          PROVE  n + 0 >= (receiver + 1) - 1
        BY <1>2, <2>2
    <2>3. last' + Len(pending') >= receiver' - 1
        BY <1>1, <1>7, <2>1, <2>2, Zenon
    <2> QED
        BY <2>3, <2>4, <2>5 DEF Follows
<1>9. StreamTypes'
    BY <1>1, <1>2, <1>3, <1>7 DEF StreamInv, StreamTypes, Sequence
<1> QED
    BY <1>1, <1>7, <1>8, <1>9 DEF StreamInv, LogInv, Sequence, IdleInv, OpenInv, LagInv

\* A receiver that lags skips, and the handler says so.
LEMMA LagKeepsInv ==
    ASSUME StreamInv, ReceiverLags \/ DeliverResync
    PROVE  StreamInv'
<1>1. /\ last \in Nat /\ receiver \in Nat \ {0} /\ lastId \in Nat \cup {None} /\ wire \in Seq(Wire)
      /\ NoSilentGap /\ Sequence = Len(sent) /\ receiver - 1 <= Sequence
      /\ Oldest \in Nat \ {0} /\ Oldest - 1 <= Sequence /\ Sequence \in Nat
    BY OldestBound DEF StreamInv, StreamTypes, Sequence
<1>2. CASE ReceiverLags
    <2>1. /\ pending = <<>> /\ receiver' = Oldest /\ conn' = "lagged"
          /\ UNCHANGED <<unsent, bus, revisions, sent, kept, since, pending, last, wire, lastId>>
        BY <1>2 DEF ReceiverLags, hubVars, sourceVars, logVars, clientVars
    <2>2. StreamTypes'
        BY <1>1, <2>1 DEF StreamInv, StreamTypes, Sequence
    <2> QED
        BY <2>1, <2>2 DEF StreamInv, LogInv, Sequence, IdleInv, OpenInv, LagInv, NoSilentGap
<1>3. CASE DeliverResync
    <2>1. /\ conn = "lagged" /\ conn' = "open" /\ Deliver(Resync) /\ pending = <<>>
          /\ UNCHANGED <<unsent, bus, revisions, sent, kept, since, receiver, pending, lastId>>
        BY <1>3 DEF DeliverResync, hubVars, sourceVars, logVars, clientVars, StreamInv, LagInv
    <2>2. Resync \in Wire /\ Resync.resync /\ Resync.sequence = Sequence
        BY <1>1 DEF Resync, Wire
    <2>3. last' = Sequence /\ wire' = Append(wire, Resync)
        BY <2>1, <2>2 DEF Deliver
    <2>4. wire' \in Seq(Wire) /\ NoSilentGap' /\ End' = last'
        BY <1>1, <2>1, <2>2, <2>3, Extends
    <2>5. Follows'
        BY <1>1, <2>1, <2>3, <2>4 DEF Follows
    <2>6. StreamTypes'
        BY <1>1, <2>1, <2>3, <2>4 DEF StreamInv, StreamTypes, Sequence
    <2> QED
        BY <2>1, <2>4, <2>5, <2>6 DEF StreamInv, LogInv, Sequence, IdleInv, OpenInv, LagInv
<1> QED
    BY <1>2, <1>3

\* The browser takes the first message under way.
LEMMA MessageInv ==
    ASSUME StreamInv, Message
    PROVE  StreamInv'
<1>1. /\ wire # <<>> /\ wire' = Tail(wire) /\ lastId' = Head(wire).sequence
      /\ UNCHANGED <<unsent, bus, revisions, sent, kept, connVars>>
    BY DEF Message, hubVars, sourceVars, logVars
<1>2. /\ wire \in Seq(Wire) /\ Len(wire) \in Nat \ {0} /\ Head(wire) = wire[1]
      /\ Tail(wire) \in Seq(Wire) /\ Len(Tail(wire)) = Len(wire) - 1
      /\ \A i \in 1 .. Len(wire) - 1 : Tail(wire)[i] = wire[i + 1]
    <2>1. wire \in Seq(Wire)
        BY DEF StreamInv, StreamTypes
    <2> QED
        BY <1>1, <2>1, HeadAndTail
<1>3. wire[1] \in Wire /\ lastId' \in Nat
    <2>1. wire[1] \in Wire
        BY <1>1, <1>2, HeadAndTail
    <2> QED
        BY <1>1, <1>2, <2>1 DEF Wire
<1>4. End' = End
    <2>1. CASE Len(wire) = 1
        <3>1. wire' = <<>> /\ End' = lastId'
            BY <1>1, <1>2, <2>1 DEF End
        <3> QED
            BY <1>1, <1>2, <2>1, <3>1 DEF End
    <2>2. CASE Len(wire) # 1
        <3>1. Len(wire) - 1 \in 1 .. Len(wire) - 1 /\ (Len(wire) - 1) + 1 = Len(wire) /\ Len(wire) - 1 # 0
            BY <1>2, <2>2
        <3>4. Len(wire') = Len(wire) - 1
            BY <1>1, <1>2, Zenon
        <3>5. wire' # <<>>
            <4>1. Len(<<>>) = 0
                OBVIOUS
            <4> QED
                BY <3>1, <3>4, <4>1, Zenon
        <3>2. wire'[Len(wire')] = wire[Len(wire)]
            BY <1>1, <1>2, <3>1, <3>4, Zenon
        <3> QED
            BY <1>1, <3>2, <3>5, Zenon DEF End
    <2> QED
        BY <2>1, <2>2
<1>5. ASSUME NEW i \in 1 .. Len(wire'), ~wire'[i].resync
      PROVE  wire'[i].sequence = (IF i = 1 THEN lastId' ELSE wire'[i - 1].sequence) + 1
    <2>1. i + 1 \in 1 .. Len(wire) /\ i + 1 # 1 /\ (i + 1) - 1 = i /\ wire'[i] = wire[i + 1]
        <3>1. Len(wire') = Len(wire) - 1 /\ i \in 1 .. Len(wire) - 1
            BY <1>1, <1>2
        <3>2. wire'[i] = wire[i + 1]
            BY <1>1, <1>2, <3>1, Zenon
        <3> QED
            BY <1>2, <3>1, <3>2
    <2>2. wire[i + 1].sequence = wire[i].sequence + 1
        BY <1>5, <2>1 DEF StreamInv, NoSilentGap
    <2>3. wire[i].sequence = IF i = 1 THEN lastId' ELSE wire'[i - 1].sequence
        BY <1>1, <1>2, <2>1
    <2> QED
        BY <2>1, <2>2, <2>3
<1>6. NoSilentGap'
    BY <1>5 DEF NoSilentGap
<1>7. StreamTypes'
    BY <1>1, <1>2, <1>3 DEF StreamInv, StreamTypes, connVars, Sequence
<1>8. IdleInv' /\ LagInv' /\ (Resumable => LogInv)'
    BY <1>1 DEF StreamInv, IdleInv, LagInv, LogInv, connVars, Sequence
<1>9. OpenInv'
    BY <1>1, <1>4 DEF StreamInv, OpenInv, OnlyResync, Follows, connVars
<1> QED
    BY <1>6, <1>7, <1>8, <1>9 DEF StreamInv

\* Each step of the hub, the handler and the browser keeps the invariant.
LEMMA StreamNextInv == Small /\ StreamInv /\ [StreamNext]_streamVars => StreamInv'
<1> SUFFICES ASSUME Small, StreamInv, [StreamNext]_streamVars PROVE StreamInv'
    OBVIOUS
<1>1. CASE Change \/ Remove \/ EmitSome \/ ForwardSome
    BY <1>1, SourceInv
<1>3. CASE ConnectSome \/ Subscribe \/ Disconnect
    BY <1>3, ConnectInv
<1>4. CASE Initial
    BY <1>4, InitialInv
<1>5. CASE DeliverPending
    BY <1>5, PendingInv
<1>6. CASE DeliverReceived
    BY <1>6, ReceivedInv
<1>7. CASE ReceiverLags \/ DeliverResync
    BY <1>7, LagKeepsInv
<1>8. CASE Message
    BY <1>8, MessageInv
<1>9. CASE ReadSnapshot \/ ApplySnapshot \/ UNCHANGED streamVars
    <2>1. UNCHANGED <<unsent, bus, revisions, sent, kept, connVars, wire, lastId>>
        BY <1>9 DEF ReadSnapshot, ApplySnapshot, streamVars, hubVars, sourceVars, logVars, connVars
    <2> QED
        BY <2>1 DEF StreamInv, StreamTypes, LogInv, IdleInv, OpenInv, OnlyResync, Follows, End, LagInv,
            NoSilentGap, connVars, Sequence
<1> QED
    BY <1>1, <1>3, <1>4, <1>5, <1>6, <1>7, <1>8, <1>9 DEF StreamNext

\* Between two messages that a client receives no event is lost without a resync, for
\* any limits of the log and of the channel and however often it reconnects (publish,
\* initial and events of transport.rs).
THEOREM NoEventIsMissed == ASSUME Small PROVE StreamSpec => []NoSilentGap
<1>1. StreamInv => NoSilentGap
    BY DEF StreamInv
<1>2. StreamInv /\ [StreamNext]_streamVars => StreamInv'
    BY StreamNextInv
<1> QED
    BY <1>1, <1>2, StreamInitInv, PTL DEF StreamSpec
=============================================================================
