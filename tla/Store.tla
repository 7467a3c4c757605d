--------------------------------- MODULE Store ---------------------------------
(***************************************************************************)
(* The application state store, crates/remotedeck-core/src/store.rs: the   *)
(* profiles in memory, the hosts marked as being deleted, and the state    *)
(* file with its backup.                                                   *)
(*                                                                         *)
(* Every write clones the state, changes the clone, persists it and only   *)
(* then swaps it in, all under the write lock.  A write is therefore one   *)
(* step that checks and changes the clone, followed by the steps of        *)
(* write_state, any of which may fail, and between any two of which the    *)
(* process or the machine may stop.  atomic_replace is the one for Windows *)
(* (the program runs nowhere else): ReplaceFileW renames the primary to    *)
(* the backup and then the temporary file to the primary, MoveFileExW does *)
(* only the latter.  Both are asked to write through, and are taken at     *)
(* their word: a loss of power is a stop at this or an earlier step.       *)
(*                                                                         *)
(* A document is the PersistedState: a profile per saved host, the tunnel  *)
(* and command profiles as records of a host (NONE for a command of every  *)
(* host) and a name, the hashes of imported sources, and the settings as   *)
(* one value.  The code compares names ignoring case, so one alias or name *)
(* stands for all its spellings; an endpoint stands for user@host[:port].  *)
(* `stray` are the hosts that keep an identity file their authentication   *)
(* method does not use.                                                    *)
(***************************************************************************)
EXTENDS Integers, FiniteSets, Sequences

CONSTANTS
    Aliases,          \* aliases of hosts,
    Endpoints,        \* their endpoints,
    Hashes,           \* hashes of imported sources,
    Names,            \* names of tunnels and commands
    Drafts,           \* host drafts a client may send: [alias, endpoint, jump]
    SettingValues,
    InitialDocs,      \* state files an earlier start may have left
    MaxHosts,         \* safety limit on saved hosts
    MaxIds,           \* bound of the model: host ids ever generated
    MaxRecords,       \* bounds of the model: saved records,
    MaxFaults,        \* failed writes and crashes,
    MaxCorruptions,   \* damages of the primary,
    MaxEvents,        \* and writes, faults and damages together
    Absent, Garbled,  \* a missing and an unreadable file
    NONE

VARIABLES
    mem,          \* the state in memory
    deleting,     \* hosts whose deletion was begun
    running,      \* "down", "opening", "running" or "stuck"
    write,        \* the write in progress, or NONE
    primary,      \* state-v2.json: a document, Absent or Garbled
    backup,       \* state-v2.json.bak
    lastId,       \* host ids are fresh: the last one generated
    acked,        \* history: the last document acknowledged
    attempts,     \* history: documents of failed writes since then
    older,        \* history: the same of the write before
    budget        \* what is left of the bounds

diskVars == <<primary, backup>>
ghosts   == <<acked, attempts, older>>
storeVars == <<mem, deleting, running, write, primary, backup, lastId,
               acked, attempts, older, budget>>

Ids == 1..MaxIds

-----------------------------------------------------------------------------
(* Documents.  A jump host is referred to by a text: its id, its alias or  *)
(* its endpoint.                                                           *)

ById(h)       == <<"id", h>>
ByAlias(a)    == <<"alias", a>>
ByEndpoint(e) == <<"endpoint", e>>

References == {ById(h) : h \in Ids} \cup {ByAlias(a) : a \in Aliases}
              \cup {ByEndpoint(e) : e \in Endpoints}

Profiles == [alias : Aliases, endpoint : Endpoints, jump : References \cup {NONE}]
Kinds == {"tunnel", "command"}
Phases == {"written", "moved", "replaced"}  \* of a write

Documents == [hosts : [Ids -> Profiles \cup {NONE}],
              records : SUBSET [kind : Kinds, host : Ids \cup {NONE}, name : Names],
              hashes : SUBSET Hashes, settings : SettingValues \cup {NONE},
              stray : SUBSET Ids]

\* PersistedState::default.  A profile is NONE for an id that is not saved.
EmptyDoc == [hosts |-> [h \in Ids |-> NONE], records |-> {}, hashes |-> {},
             settings |-> NONE, stray |-> {}]

HostsOf(doc) == {h \in Ids : doc.hosts[h] # NONE}

-----------------------------------------------------------------------------
(* Jump hosts.                                                             *)

\* proxy_reference_matches_host.
RefersTo(ref, h, profile) ==
    \/ ref = ById(h)
    \/ ref = ByAlias(profile.alias)
    \/ ref = ByEndpoint(profile.endpoint)

\* resolve_proxy_reference: the host a reference names, as a set that is empty
\* when none does or when an endpoint is ambiguous.
Resolve(doc, ref) ==
    LET matches == {h \in HostsOf(doc) : RefersTo(ref, h, doc.hosts[h])}
    IN  IF Cardinality(matches) = 1 THEN matches ELSE {}

\* The hosts whose connection goes through h.
Dependents(doc, h) ==
    {d \in HostsOf(doc) \ {h} : RefersTo(doc.hosts[d].jump, h, doc.hosts[h])}

\* resolve_proxy_jump: the jump of a host, which connects directly itself.
Route(doc, h) ==
    IF doc.hosts[h].jump = NONE THEN {}
    ELSE {j \in Resolve(doc, doc.hosts[h].jump) :
             j # h /\ doc.hosts[j].jump = NONE}

RouteResolves(doc, h) == doc.hosts[h].jump # NONE => Route(doc, h) # {}

\* normalize_proxy_jump_for: a resolved reference is stored as the id.
NormalizedProfile(doc, h) ==
    IF doc.hosts[h].jump = NONE THEN doc.hosts[h]
    ELSE [doc.hosts[h] EXCEPT !.jump = ById(CHOOSE j \in Route(doc, h) : TRUE)]

Normalized(doc, h) == [doc EXCEPT !.hosts[h] = NormalizedProfile(doc, h)]

\* validate_proxy_jump_role: a host with a jump is nobody's jump.
RoleValid(doc, h) ==
    /\ RouteResolves(doc, h)
    /\ doc.hosts[h].jump # NONE => Dependents(doc, h) = {}

-----------------------------------------------------------------------------
(* Changes of a document.  Each has a predicate that says when the change  *)
(* is accepted.                                                            *)

\* validate_persisted_state, which write_state and read_valid_state apply.
ValidDoc(doc) ==
    /\ Cardinality(HostsOf(doc)) <= MaxHosts
    /\ \A g, h \in HostsOf(doc) :
          doc.hosts[g].alias = doc.hosts[h].alias => g = h
    /\ \A r \in doc.records : r.host \in HostsOf(doc) \cup {NONE}

\* What this program writes: jumps that resolve, and none in the endpoint form.
Sound(doc) ==
    /\ ValidDoc(doc)
    /\ \A h \in HostsOf(doc) :
          RouteResolves(doc, h) /\ \A e \in Endpoints : doc.hosts[h].jump # ByEndpoint(e)

ASSUME StoreAssumption ==
    /\ MaxHosts \in Nat /\ MaxIds \in Nat /\ MaxEvents \in Nat /\ MaxFaults \in Nat /\ MaxCorruptions \in Nat
    /\ Drafts \subseteq Profiles
    /\ NONE \notin Profiles /\ NONE \notin References /\ NONE \notin Ids
    /\ NONE \notin Documents /\ NONE \notin [doc : Documents, phase : Phases]
    /\ Absent \notin Documents /\ Garbled \notin Documents /\ Absent # Garbled
    /\ NONE \notin {Absent, Garbled}
    /\ InitialDocs \subseteq Documents \cup {Absent}
    /\ \A doc \in InitialDocs \ {Absent} :
          Sound(doc) /\ HostsOf(doc) = 1 .. Cardinality(HostsOf(doc))

Readable(file) == file \notin {Absent, Garbled} /\ ValidDoc(file)

\* apply_host_draft accepts a draft for id h: the alias is free, and a draft
\* that names an id edits a host that still exists (a new host has a fresh id).
DraftAccepted(doc, draft) ==
    draft.alias \notin {doc.hosts[g].alias : g \in HostsOf(doc) \ {draft.id}}

\* apply_host_draft.
ProfileOf(draft) == [alias |-> draft.alias, endpoint |-> draft.endpoint, jump |-> draft.jump]

WithDraft(doc, draft) == [doc EXCEPT !.hosts[draft.id] = ProfileOf(draft)]

\* Faulty apply_host_update: a rename leaves the references by the old alias.
RetargetedNot(doc, h, alias) == doc

\* apply_host_update after a rename: references by the old alias become ids.
Retargeted(doc, h, alias) ==
    [doc EXCEPT !.hosts = [d \in Ids |->
        IF /\ d \in HostsOf(doc) /\ doc.hosts[d].jump = ByAlias(alias)
           /\ alias # doc.hosts[h].alias
        THEN [doc.hosts[d] EXCEPT !.jump = ById(h)] ELSE doc.hosts[d]]]

\* apply_host_update before it normalises and validates the jump.
Drafted(doc, draft) ==
    IF draft.id \in HostsOf(doc)
    THEN Retargeted(WithDraft(doc, draft), draft.id, doc.hosts[draft.id].alias)
    ELSE WithDraft(doc, draft)

\* apply_host_update.
HostUpdateAccepted(doc, draft) ==
    /\ DraftAccepted(doc, draft)
    /\ RouteResolves(Drafted(doc, draft), draft.id)
    /\ RoleValid(Normalized(Drafted(doc, draft), draft.id), draft.id)

HostUpdated(doc, draft) == Normalized(Drafted(doc, draft), draft.id)

\* The loop of import_hosts and import_batch over the drafts of new hosts, whose
\* ids differ.
WithDrafts(doc, drafts) ==
    [doc EXCEPT !.hosts = [h \in Ids |->
        IF \E i \in DOMAIN drafts : drafts[i].id = h
        THEN ProfileOf(drafts[CHOOSE i \in DOMAIN drafts : drafts[i].id = h])
        ELSE doc.hosts[h]]]

\* Their loop over the new hosts that normalises each jump.  (Storing a reference
\* in another form changes the route of no host.)
AllNormalized(doc, ids) ==
    [doc EXCEPT !.hosts = [h \in Ids |->
        IF h \in ids THEN NormalizedProfile(doc, h) ELSE doc.hosts[h]]]

\* import_hosts and import_batch accept the drafts of new hosts: the aliases
\* are free and distinct, and with all of them present every jump is valid.
DraftsAccepted(doc, drafts) ==
    LET ids == {drafts[i].id : i \in DOMAIN drafts}
        all == WithDrafts(doc, drafts)
    IN  /\ \A i \in DOMAIN drafts :
              DraftAccepted(WithDrafts(doc, SubSeq(drafts, 1, i - 1)), drafts[i])
        /\ \A h \in ids : RouteResolves(all, h)
        /\ \A h \in ids : RoleValid(AllNormalized(all, ids), h)

HostsImported(doc, drafts) ==
    AllNormalized(WithDrafts(doc, drafts), {drafts[i].id : i \in DOMAIN drafts})

\* validate_host_deletion_state.
Deletable(doc, h) == h \in HostsOf(doc) /\ Dependents(doc, h) = {}

\* delete_host_locked: the host with its tunnels and its commands.
WithoutHost(doc, h) ==
    [doc EXCEPT !.hosts[h] = NONE,
                !.records = {r \in @ : r.host # h}]

\* apply_tunnel_draft, apply_command_draft: `old` is the record being edited,
\* or NONE for a new one.
RecordAccepted(doc, old, new) ==
    /\ old = NONE \/ old \in doc.records
    /\ old # NONE => old.kind = new.kind
    /\ new \notin doc.records \ {old}

WithRecord(doc, old, new) == [doc EXCEPT !.records = (@ \ {old}) \cup {new}]

\* apply_settings_patch.
SettingsPatched(doc, value) == [doc EXCEPT !.settings = value]

-----------------------------------------------------------------------------
(* Writes.                                                                 *)

\* The locks are free and the bound on events is not reached.
MayWrite == running = "running" /\ write = NONE /\ budget.events > 0

\* A change is persisted by write_state, which refuses an invalid document.
\* The new document is kept apart from the one in memory until it is done.
Persist(doc) ==
    /\ MayWrite
    /\ ValidDoc(doc)
    /\ write' = [doc |-> doc, phase |-> "written"]
    /\ budget' = [budget EXCEPT !.events = @ - 1]
    /\ UNCHANGED <<mem, running, diskVars, ghosts>>

\* Faulty save_host: the deletions in progress are looked up for the saved host
\* only, not for its jump.
SaveHostAnyJump(draft) ==
    /\ draft.id \notin deleting
    /\ HostUpdateAccepted(mem, draft)
    /\ Persist(HostUpdated(mem, draft))
    /\ UNCHANGED deleting

\* save_host.  Refused for a host being deleted, and through one.
SaveHost(draft) ==
    /\ MayWrite
    /\ draft.id \notin deleting
    /\ HostUpdateAccepted(mem, draft)
    /\ Route(HostUpdated(mem, draft), draft.id) \cap deleting = {}
    /\ Persist(HostUpdated(mem, draft))
    /\ UNCHANGED deleting

\* An edit keeps the id; a new host gets a fresh one.
SaveHostRequest(h, d) ==
    LET draft == [id |-> h, alias |-> d.alias, endpoint |-> d.endpoint, jump |-> d.jump]
    IN  \/ h \in HostsOf(mem) /\ SaveHost(draft) /\ UNCHANGED lastId
        \/ h \in Ids /\ h = lastId + 1 /\ SaveHost(draft) /\ lastId' = h

\* import_hosts: all the hosts of an OpenSSH configuration or none.
ImportHosts(drafts) ==
    /\ MayWrite
    /\ deleting = {}
    /\ drafts # <<>> /\ lastId + Len(drafts) <= MaxIds
    /\ DraftsAccepted(mem, drafts)
    /\ Persist(HostsImported(mem, drafts))
    /\ lastId' = lastId + Len(drafts)
    /\ UNCHANGED deleting

\* begin_host_deletion.
BeginHostDeletion(h) ==
    /\ running = "running" /\ write = NONE
    /\ h \notin deleting
    /\ Deletable(mem, h)
    /\ deleting' = deleting \cup {h}
    /\ UNCHANGED <<mem, running, write, diskVars, lastId, ghosts, budget>>

\* finish_host_deletion: the mark goes whether or not the write succeeds; the
\* lock on the marks is held until it ends.
FinishHostDeletion(h) ==
    /\ MayWrite
    /\ h \in deleting
    /\ Deletable(mem, h)
    /\ Persist(WithoutHost(mem, h))
    /\ deleting' = deleting \ {h}
    /\ UNCHANGED lastId

\* abort_host_deletion.
AbortHostDeletion(h) ==
    /\ running = "running" /\ write = NONE
    /\ h \in deleting
    /\ deleting' = deleting \ {h}
    /\ UNCHANGED <<mem, running, write, diskVars, lastId, ghosts, budget>>

\* save_tunnel, save_command.  Only the host the record will belong to is
\* looked up among the deletions.
SaveRecord(old, new) ==
    /\ MayWrite
    /\ Cardinality(mem.records \ {old}) < MaxRecords
    /\ new.host \notin deleting
    /\ RecordAccepted(mem, old, new)
    /\ Persist(WithRecord(mem, old, new))
    /\ UNCHANGED <<deleting, lastId>>

\* delete_tunnel.
DeleteTunnel(record) ==
    /\ record \in mem.records /\ record.kind = "tunnel"
    /\ Persist([mem EXCEPT !.records = @ \ {record}])
    /\ UNCHANGED <<deleting, lastId>>

\* delete_command_for_host: a command of the selected host, or of every host.
DeleteCommand(record, h) ==
    /\ h \notin deleting
    /\ record \in mem.records /\ record.kind = "command"
    /\ record.host \in {h, NONE}
    /\ Persist([mem EXCEPT !.records = @ \ {record}])
    /\ UNCHANGED <<deleting, lastId>>

\* update_settings.
UpdateSettings(value) ==
    /\ Persist(SettingsPatched(mem, value))
    /\ UNCHANGED <<deleting, lastId>>

-----------------------------------------------------------------------------
(* write_state.  The temporary file is complete and synced when the write  *)
(* is in phase "written".                                                  *)

\* Faulty write_state: the primary is not read before it is made the backup.
MoveAsideAlways ==
    /\ write # NONE /\ write.phase = "written" /\ primary # Absent
    /\ backup' = primary /\ primary' = Absent
    /\ write' = [write EXCEPT !.phase = "moved"]
    /\ UNCHANGED <<mem, deleting, running, lastId, ghosts, budget>>

\* The first half of ReplaceFileW, for a readable primary: it takes the name of the
\* backup, in place of the earlier one.
MoveAside ==
    /\ write # NONE /\ write.phase = "written" /\ Readable(primary)
    /\ backup' = primary /\ primary' = Absent
    /\ write' = [write EXCEPT !.phase = "moved"]
    /\ UNCHANGED <<mem, deleting, running, lastId, ghosts, budget>>

\* The second half: the temporary file takes the name of the primary.  MoveFileExW
\* does this at once to a primary that is absent or damaged.
Replace ==
    /\ write # NONE
    /\ write.phase = "moved" \/ (write.phase = "written" /\ ~Readable(primary))
    /\ primary' = write.doc
    /\ attempts' = IF running = "running" THEN attempts \cup {write.doc} ELSE attempts
    /\ write' = [write EXCEPT !.phase = "replaced"]
    /\ UNCHANGED <<mem, deleting, running, backup, lastId, acked, older, budget>>

\* A step of write_state fails: the temporary file is removed and the error returned,
\* memory is unchanged.  ReplaceFileW may fail with the primary still under the name
\* of the backup (ERROR_UNABLE_TO_MOVE_REPLACEMENT_2) or put back, the earlier backup
\* being gone.
Fails ==
    /\ write # NONE /\ write.phase # "replaced"
    /\ budget.faults > 0 /\ budget.events > 0
    /\ budget' = [budget EXCEPT !.faults = @ - 1, !.events = @ - 1]
    /\ write' = NONE
    /\ running' = IF running = "opening" THEN "down" ELSE running
    /\ \/ UNCHANGED diskVars
       \/ write.phase = "moved" /\ primary' = backup /\ backup' = Absent
    /\ UNCHANGED <<mem, deleting, lastId, ghosts>>

\* clear_inactive_identity_files.
Cleaned(doc) == [doc EXCEPT !.stray = {}]

\* open or a write is done with a document.  It becomes the state in memory,
\* and the caller is told; but while opening, a document that keeps unused
\* identity files is cleaned and written once more.
Finished(doc) ==
    IF running # "running" /\ doc.stray # {}
    THEN /\ write' = [doc |-> Cleaned(doc), phase |-> "written"]
         /\ running' = "opening"
         /\ UNCHANGED <<mem, ghosts>>
    ELSE /\ write' = NONE
         /\ running' = "running"
         /\ mem' = doc
         /\ acked' = doc
         /\ attempts' = {}
         /\ older' = ((IF running = "running" THEN {} ELSE older)
                        \cup attempts \cup {acked}) \ {doc, NONE}

\* The end of write_state, and of the write.
WriteEnds ==
    /\ write # NONE /\ write.phase = "replaced"
    /\ Finished(write.doc)
    /\ UNCHANGED <<deleting, diskVars, lastId, budget>>

-----------------------------------------------------------------------------
(* Starting, stopping and damage.                                          *)

\* open: a primary that exists, or else its backup; without a primary the defaults,
\* whether or not there is a backup.
OpenStore ==
    /\ running = "down"
    /\ deleting' = {}
    /\ \/ Readable(primary) /\ Finished(primary)
       \/ /\ primary # Absent /\ ~Readable(primary) /\ Readable(backup)
          /\ write' = [doc |-> backup, phase |-> "written"]
          /\ running' = "opening"
          /\ UNCHANGED <<mem, ghosts>>
       \/ /\ primary # Absent /\ ~Readable(primary) /\ ~Readable(backup)
          /\ running' = "stuck"
          /\ UNCHANGED <<mem, write, ghosts>>
       \/ /\ primary = Absent
          /\ write' = [doc |-> EmptyDoc, phase |-> "written"]
          /\ running' = "opening"
          /\ UNCHANGED <<mem, ghosts>>
    /\ UNCHANGED <<diskVars, lastId, budget>>

\* The process stops at any moment, which is a fault in the middle of a write.
ProcessStops ==
    /\ running \in {"opening", "running"} /\ budget.events > 0
    /\ write # NONE => budget.faults > 0
    /\ budget' = [budget EXCEPT !.faults = IF write = NONE THEN @ ELSE @ - 1, !.events = @ - 1]
    /\ running' = "down"
    /\ write' = NONE
    /\ UNCHANGED <<mem, deleting, diskVars, lastId, ghosts>>

\* The primary is damaged by something else.  (Damage during a write is the
\* same as before or after it.)
Corrupt ==
    /\ running \in {"down", "running"} /\ write = NONE
    /\ budget.corruptions > 0 /\ budget.events > 0
    /\ primary \notin {Absent, Garbled}
    /\ budget' = [budget EXCEPT !.corruptions = @ - 1, !.events = @ - 1]
    /\ primary' = Garbled
    /\ UNCHANGED <<mem, deleting, running, write, backup, lastId, ghosts>>

StoreInit ==
    /\ mem = EmptyDoc
    /\ deleting = {}
    /\ running = "down"
    /\ write = NONE
    /\ primary \in InitialDocs
    /\ backup = Absent
    /\ lastId = IF primary = Absent THEN 0 ELSE Cardinality(HostsOf(primary))
    /\ acked = IF primary = Absent THEN NONE ELSE primary
    /\ attempts = {}
    /\ older = {}
    /\ budget = [events |-> MaxEvents, faults |-> MaxFaults,
                 corruptions |-> MaxCorruptions]

\* A tunnel belongs to a host; a command to a host or to all of them.
Records == [kind : {"tunnel"}, host : HostsOf(mem), name : Names]
           \cup [kind : {"command"}, host : HostsOf(mem) \cup {NONE}, name : Names]

StoreNext ==
    \/ /\ running = "running" /\ write = NONE
       /\ \/ \E h \in HostsOf(mem) \cup {lastId + 1}, d \in Drafts : SaveHostRequest(h, d)
          \/ \E h \in HostsOf(mem) :
                BeginHostDeletion(h) \/ FinishHostDeletion(h) \/ AbortHostDeletion(h)
          \/ \E new \in Records, old \in mem.records \cup {NONE} : SaveRecord(old, new)
          \/ \E record \in mem.records :
                DeleteTunnel(record) \/ \E h \in HostsOf(mem) : DeleteCommand(record, h)
          \/ \E value \in SettingValues : UpdateSettings(value)
    \/ MoveAside \/ Replace \/ Fails \/ WriteEnds
    \/ OpenStore \/ ProcessStops \/ Corrupt

-----------------------------------------------------------------------------
(* Properties.                                                             *)

\* A saved jump leads to exactly one saved host, which connects directly,
\* however hosts are saved, renamed, imported and deleted: a profile that was
\* accepted stays connectable.  (The endpoint form is never stored by this
\* version.)
JumpsAreDirect == \A h \in HostsOf(mem) : RouteResolves(mem, h)

\* Saving, importing or deleting one host never reroutes another: not by a
\* rename, nor by reusing an alias or an endpoint the other once referred to.
RoutesAreStable ==
    [][\A h \in HostsOf(mem) \cap HostsOf(mem') :
          \/ Route(mem', h) = Route(mem, h)
          \/ running # "running"
          \/ mem'.hosts[h].jump # mem.hosts[h].jump /\ Cardinality(
                {g \in HostsOf(mem) : mem'.hosts[g] # mem.hosts[g]}) = 1]_storeVars

\* A host whose deletion was begun stays deletable until it is finished: no
\* host starts to jump through it, so runtime work that was retired for the
\* deletion was not retired in vain.
PreparedDeletionHolds ==
    running = "running" => \A h \in deleting : Deletable(mem, h)

\* Both, over every sequence of saves, imports and deletions that overlap.
JumpsAreSound == JumpsAreDirect /\ PreparedDeletionHolds

\* Documents up to the identity files that open clears.
CleanOf(docs) == {Cleaned(d) : d \in docs}
\* The last acknowledged document, and those that were being written since.
Latest == attempts \cup ({acked} \ {NONE})
\* The primary was damaged; no write has failed or was interrupted.
Damaged == budget.corruptions < MaxCorruptions
NoFault == budget.faults = MaxFaults
\* What a start should find; after damage of the primary, the write before that.
Wanted == CleanOf(Latest \cup IF Damaged THEN older ELSE {})
Starts == running # "running" /\ running' = "running" /\ acked # NONE

\* Whatever fails or stops between the steps of a write, the next start finds what
\* was acknowledged last, or was being written since, or, when the primary was moved
\* aside and not replaced, begins with the defaults while the backup still has it.
\* Only damage makes a start impossible, and only before there was a backup or after
\* a write that failed.
SurvivesRestart ==
    [][/\ Starts => \/ Cleaned(mem') \in Wanted
                    \/ mem' = EmptyDoc /\ Readable(backup') /\ Cleaned(backup') \in Wanted
       /\ (running # "stuck" /\ running' = "stuck") => Damaged /\ (NoFault => older = {})]_storeVars

\* docs/architecture.md:15: state writes atomically replace the primary file, so a
\* start finds the state before or after the write that was interrupted or failed.
ReplacedAtomically == [][Starts => Cleaned(mem') \in Wanted]_storeVars

================================================================================
