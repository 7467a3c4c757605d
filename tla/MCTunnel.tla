------------------------------- MODULE MCTunnel -------------------------------
(***************************************************************************)
(* Instances of Tunnel for TLC.                                            *)
(***************************************************************************)
EXTENDS Tunnel, TLC

CONSTANTS t1, h1, h2

\* One tunnel of h1, which is reached through h2.
OneTunnel  == {t1}
Hosts      == {h1, h2}
TargetH1   == [t \in Tunnels |-> h1]
ViaH2      == [h \in HostIds |-> {h, h2}]

\* A profile that reconnects and is health-checked, and one that does neither.
Auto  == [auto |-> TRUE, health |-> TRUE]
Once  == [auto |-> FALSE, health |-> FALSE]
BothConfigs == {Auto, Once}
EveryFault  == AllFaults

\* The termination of a child may fail, and nothing else.
OnceOnly      == {Once}
OnlyTerminate == {"terminate"}

\* Saved settings are only compared.
SettingsSymmetry == Permutations(Settings)
=============================================================================
