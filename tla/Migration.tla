------------------------------- MODULE Migration -------------------------------
(***************************************************************************)
(* The import of LabPulse and RemoteDeck v1 files,                         *)
(* crates/remotedeck-core/src/migration.rs, and of OpenSSH configurations  *)
(* (key_service.rs), composed with the store.                              *)
(*                                                                         *)
(* A client previews a source, which changes nothing, and sends the hash   *)
(* it was shown back with the categories it selected.  The source is read  *)
(* and hashed again; a bundle that was edited meanwhile has another hash   *)
(* and is refused, so a request that gets further stands for the bundle    *)
(* the client saw.  A batch is then built against a snapshot of the store, *)
(* and import_batch applies it as one write.  Clients, the other changes   *)
(* of the store, failed writes and restarts interleave.                    *)
(*                                                                         *)
(* A bundle is a source: its hash, its hosts (source id -> alias, endpoint *)
(* and jump), its records (the host is a source id, or NONE) and settings. *)
(* The jump of a v1 host is a source id; the one of a LabPulse host is a   *)
(* ProxyJump text of the user's OpenSSH configuration.                     *)
(***************************************************************************)
EXTENDS Store, SequencesExt

CONSTANTS
    Bundles,      \* contents the source may have when it is applied
    Selections,   \* sets of categories a client selects
    SshConfigs,   \* sequences of OpenSSH host candidates
    Clients

VARIABLES
    batch,        \* [Clients -> the batch about to be applied, or NONE]
    origin        \* history: <<hash, source id>> of every host id, or NONE

migrationVars == <<batch, origin>>
allVars == <<storeVars, migrationVars>>

\* The hash tells the sources apart.  The jump of a v1 host is a source id.
ASSUME MigrationAssumption ==
    /\ \A b, d \in Bundles : b.hash = d.hash => b = d
    /\ \A b \in Bundles :
          /\ b.kind \in {"v1", "labpulse"}
          /\ b.hash \in Hashes /\ b.settings \in SettingValues \cup {NONE}
          /\ IsFiniteSet(DOMAIN b.hosts)
          /\ \A s \in DOMAIN b.hosts :
                /\ b.hosts[s].alias \in Aliases /\ b.hosts[s].endpoint \in Endpoints
                /\ b.kind = "labpulse" => b.hosts[s].jump \in References \cup {NONE}
          /\ \A r \in b.records : r.kind \in Kinds /\ r.name \in Names
    /\ SshConfigs \subseteq Seq(Profiles)

BundleOf(hash) == CHOOSE b \in Bundles : b.hash = hash

-----------------------------------------------------------------------------
(* Plans.                                                                  *)

\* map_v1 accepts a database whose jumps exist and connect directly.
V1Mapped(b) ==
    \A s \in DOMAIN b.hosts : b.hosts[s].jump # NONE =>
        /\ b.hosts[s].jump \in DOMAIN b.hosts
        /\ b.hosts[b.hosts[s].jump].jump = NONE

\* map_labpulse makes one host, with the jump of the OpenSSH candidate of its
\* alias, and gives it every tunnel and command.
LabPulseMapped(b) ==
    \E s \in DOMAIN b.hosts :
        DOMAIN b.hosts = {s} /\ \A r \in b.records : r.host = s

MapAccepted(b) == IF b.kind = "v1" THEN V1Mapped(b) ELSE LabPulseMapped(b)

\* validate_plan: aliases are distinct and records belong to planned hosts.
PlanValid(b) ==
    /\ \A s, t \in DOMAIN b.hosts : b.hosts[s].alias = b.hosts[t].alias => s = t
    /\ \A r \in b.records : r.host \in DOMAIN b.hosts \cup {NONE}

\* map_v1: a jump becomes proxy_destination, user@host:port of the source host.
PlannedJump(b, s) ==
    IF b.hosts[s].jump = NONE \/ b.kind = "labpulse" THEN b.hosts[s].jump
    ELSE ByEndpoint(b.hosts[b.hosts[s].jump].endpoint)

\* load_migration, when it succeeds.
Loads(b) == MapAccepted(b) /\ PlanValid(b)

\* destination_host_reference: a host that is imported too, or the saved host
\* with the alias of the source host.
Destinations(b, s, doc, selection) ==
    IF "hosts" \in selection THEN {<<"imported", s>>}
    ELSE {<<"existing", h>> : h \in
            {g \in HostsOf(doc) : doc.hosts[g].alias = b.hosts[s].alias}}

\* The categories a source has something in.
Available(b) ==
    {c \in {"hosts", "tunnels", "commands", "settings"} :
        CASE c = "hosts" -> DOMAIN b.hosts # {}
          [] c = "tunnels" -> \E r \in b.records : r.kind = "tunnel"
          [] c = "commands" -> \E r \in b.records : r.kind = "command"
          [] OTHER -> b.settings # NONE}

Selected(b, selection) ==
    {r \in b.records : \/ r.kind = "tunnel" /\ "tunnels" \in selection
                       \/ r.kind = "command" /\ "commands" \in selection}

\* build_import_batch succeeds: something is selected, and every selected
\* record has a destination.
BatchAccepted(b, doc, selection) ==
    /\ selection \cap Available(b) # {}
    /\ \A r \in Selected(b, selection) :
          r.host # NONE => Destinations(b, r.host, doc, selection) # {}

BatchFor(b, doc, selection) ==
    [hash |-> b.hash,
     hosts |-> IF "hosts" \in selection THEN SetToSeq(DOMAIN b.hosts) ELSE <<>>,
     records |-> {[kind |-> r.kind, name |-> r.name,
                   host |-> IF r.host = NONE THEN NONE
                            ELSE CHOOSE d \in Destinations(b, r.host, doc, selection) : TRUE]
                     : r \in Selected(b, selection)},
     settings |-> IF "settings" \in selection THEN b.settings ELSE NONE]

-----------------------------------------------------------------------------
(* import_batch.                                                           *)

\* The drafts of the batch, with the fresh ids the store will give them.
BatchDrafts(bt) ==
    LET b == BundleOf(bt.hash)
    IN  [i \in DOMAIN bt.hosts |->
            [id |-> lastId + i, alias |-> b.hosts[bt.hosts[i]].alias,
             endpoint |-> b.hosts[bt.hosts[i]].endpoint,
             jump |-> PlannedJump(b, bt.hosts[i])]]

\* resolve_import_host: an imported host, or one that is still saved.
ImportHost(bt, ref) ==
    IF ref = NONE THEN {NONE}
    ELSE IF ref[1] = "existing" THEN {ref[2]} \cap HostsOf(mem)
    ELSE {lastId + i : i \in {k \in DOMAIN bt.hosts : bt.hosts[k] = ref[2]}}

BatchRecords(bt) ==
    {[kind |-> r.kind, name |-> r.name,
      host |-> CHOOSE h \in ImportHost(bt, r.host) : TRUE] : r \in bt.records}

\* The document import_batch would persist.
BatchApplied(bt) ==
    LET doc == HostsImported(mem, BatchDrafts(bt))
    IN  [doc EXCEPT !.records = @ \cup BatchRecords(bt),
                    !.settings = IF bt.settings = NONE THEN @ ELSE bt.settings,
                    !.hashes = @ \cup {bt.hash}]

\* Every record is accepted on the clone, else nothing of the batch is kept.
BatchFits(bt) ==
    /\ DraftsAccepted(mem, BatchDrafts(bt))
    /\ \A r \in bt.records : ImportHost(bt, r.host) # {}
    /\ BatchRecords(bt) \cap mem.records = {}
    /\ Cardinality(BatchRecords(bt)) = Cardinality(bt.records)

\* Faulty import_batch: trusts the check made before the batch was built.
NotImportedUnlocked(bt) == TRUE

\* import_batch looks for the hash again, now under the write lock.
NotImported(bt) == bt.hash \notin mem.hashes

-----------------------------------------------------------------------------
(* Actions.                                                                *)

\* apply up to import_batch: the source loads, has the hash of the request,
\* and is not imported yet.
ApplyLoad(c, b, selection) ==
    /\ running = "running" /\ write = NONE /\ batch[c] = NONE
    /\ Loads(b)
    /\ b.hash \notin mem.hashes
    /\ BatchAccepted(b, mem, selection)
    /\ batch' = [batch EXCEPT ![c] = BatchFor(b, mem, selection)]
    /\ UNCHANGED <<storeVars, origin>>

\* import_batch.
ApplyImport(c) ==
    /\ MayWrite
    /\ batch[c] # NONE
    /\ lastId + Len(batch[c].hosts) <= MaxIds
    /\ deleting = {}
    /\ NotImported(batch[c])
    /\ BatchFits(batch[c])
    /\ Persist(BatchApplied(batch[c]))
    /\ lastId' = lastId + Len(batch[c].hosts)
    /\ origin' = [h \in 1..lastId' |->
                     IF h <= lastId THEN origin[h]
                     ELSE <<batch[c].hash, batch[c].hosts[h - lastId]>>]
    /\ batch' = [batch EXCEPT ![c] = NONE]
    /\ UNCHANGED deleting

\* import_batch reports a duplicate, or refuses the batch.
ApplyRefused(c) ==
    /\ running = "running" /\ write = NONE
    /\ batch[c] # NONE
    /\ \/ ~NotImported(batch[c])
       \/ deleting # {}
       \/ lastId + Len(batch[c].hosts) <= MaxIds /\ ~BatchFits(batch[c])
    /\ batch' = [batch EXCEPT ![c] = NONE]
    /\ UNCHANGED <<storeVars, origin>>

\* import_candidates skips a candidate whose alias is taken, in the store or by
\* an earlier candidate.  (The order of the others only numbers them.)
FreshCandidates(doc, candidates) ==
    LET Fresh(i) == /\ \A h \in HostsOf(doc) : doc.hosts[h].alias # candidates[i].alias
                    /\ \A j \in 1 .. i - 1 : candidates[j].alias # candidates[i].alias
        places == {i \in DOMAIN candidates : Fresh(i)}
    IN  [n \in 1 .. Cardinality(places) |-> candidates[SetToSeq(places)[n]]]

\* key_service import_ssh_config: the snapshot and the import are two locks,
\* but the import checks the aliases again, so a stale skip only refuses it.
ImportSshConfig(candidates) ==
    LET fresh == FreshCandidates(mem, candidates)
    IN  /\ MayWrite
        /\ ImportHosts([i \in DOMAIN fresh |->
              [id |-> lastId + i, alias |-> fresh[i].alias,
               endpoint |-> fresh[i].endpoint, jump |-> fresh[i].jump]])
        /\ origin' = [h \in 1..lastId' |-> IF h <= lastId THEN origin[h] ELSE NONE]
        /\ UNCHANGED batch

MigrationInit ==
    /\ StoreInit
    /\ batch = [c \in Clients |-> NONE]
    /\ origin = [h \in 1..lastId |-> NONE]

\* A step of the store; clients of a process that stopped get no answer.
StoreStep ==
    /\ StoreNext
    /\ batch' = IF running' = "down" THEN [c \in Clients |-> NONE] ELSE batch
    /\ origin' = [h \in 1..lastId' |-> IF h <= lastId THEN origin[h] ELSE NONE]

MigrationNext ==
    \/ StoreStep
    \/ \E candidates \in SshConfigs : ImportSshConfig(candidates)
    \/ \E c \in Clients :
          \/ ApplyImport(c) \/ ApplyRefused(c)
          \/ \E b \in Bundles, selection \in Selections : ApplyLoad(c, b, selection)

MigrationSpec == MigrationInit /\ [][MigrationNext]_allVars

-----------------------------------------------------------------------------
(* Properties.                                                             *)

\* A source is imported at most once into a store: across clients that apply
\* it together, failed writes and restarts, no two saved hosts come from the
\* same source host, even after one of them was renamed.
ImportedOnce ==
    \A g, h \in HostsOf(mem) :
        (g # h /\ origin[g] # NONE) => origin[g] # origin[h]

================================================================================
