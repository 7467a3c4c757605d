------------------------------ MODULE MCMigration ------------------------------
(***************************************************************************)
(* Instances of Store and Migration for TLC.                               *)
(***************************************************************************)
EXTENDS Migration, TLC

CONSTANTS c1, c2

MCClients == {c1, c2}
ClientSymmetry == Permutations(MCClients)

Host(alias, endpoint, jump) == [alias |-> alias, endpoint |-> endpoint, jump |-> jump]

\* A direct host; a rename of it, or another host with the endpoint of a source
\* host; one that jumps by alias, and one by endpoint.
MCDrafts == {Host("bastion", "e1", NONE), Host("gate", "e1", NONE),
             Host("lab", "e2", ByAlias("bastion")),
             Host("bastion", "e2", ByEndpoint("e1"))}

\* Nothing yet; two hosts of an earlier version, one jumping by alias.
MCInitialDocs ==
    {Absent,
     [EmptyDoc EXCEPT !.hosts[1] = Host("bastion", "e1", NONE),
                      !.hosts[2] = Host("node", "e4", ByAlias("bastion")),
                      !.stray = {2}]}

Bundle(hash, kind, hosts, records, settings) ==
    [hash |-> hash, kind |-> kind, hosts |-> hosts, records |-> records,
     settings |-> settings]

MCBundles ==
    {Bundle("v1", "v1",
            [s1 |-> Host("old-gate", "e1", NONE), s2 |-> Host("old-lab", "e3", "s1")],
            {[kind |-> "tunnel", host |-> "s2", name |-> "n"]}, NONE),
     Bundle("lp", "labpulse",
            [s3 |-> Host("lab", "e2", ByAlias("bastion"))],
            {[kind |-> "command", host |-> "s3", name |-> "n"]}, 1)}

MCSelections == {{"hosts", "tunnels", "commands", "settings"},
                 {"tunnels", "commands"}}

MCSshConfigs == {<<Host("lab", "e2", ByAlias("bastion")), Host("bastion", "e1", NONE)>>}

\* A document in which nothing but the settings was changed.
Untouched(doc) ==
    doc \in {NONE, Absent, Garbled}
        \/ [doc EXCEPT !.settings = NONE, !.stray = {}] \in
              CleanOf({EmptyDoc} \cup (MCInitialDocs \ {Absent}))

OnlySettings ==
    /\ deleting = {} /\ \A c \in Clients : batch[c] = NONE
    /\ write # NONE => Untouched(write.doc)
    /\ \A doc \in {mem, primary, backup, acked} \cup attempts \cup older : Untouched(doc)

\* Behaviours of more than three events or of several faults change the settings only.
Scope == (budget.events >= MaxEvents - 3 /\ budget.faults >= MaxFaults - 1) \/ OnlySettings
================================================================================
