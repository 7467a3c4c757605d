----------------------------- MODULE MCTransfers -----------------------------
(* Transfers with small limits: an overwriting upload with one more job,   *)
(* two jobs that look for a free name, and three short ones for the limits.*)
EXTENDS Transfers

ThreeJobs == 1..3
BothWays == {"upload", "download"}
Asks(d, p) == [NoJob EXCEPT !.dir = d, !.policy = p, !.name = "f"]
Others == {Asks("upload", p) : p \in Policies \ {"ask"}} \cup {Asks("download", "overwrite")}
SmallPlans ==
    {[asks |-> <<Asks("upload", "overwrite"), other, NoJob>>, events |-> 2] : other \in Others}
    \cup {[asks |-> <<Asks("upload", "rename"), Asks("upload", "rename"), NoJob>>, events |-> 0],
          [asks |-> [j \in ThreeJobs |-> Asks("download", "ask")], events |-> 0]}
AllFaults == {"io", "lost", "stuck", "slow"}
=============================================================================
