--------------------------- MODULE MCHostDeletion ---------------------------
(***************************************************************************)
(* Instance of HostDeletion for TLC: the keys of the barriers are the      *)
(* pairs of a registry and a host.                                         *)
(***************************************************************************)
EXTENDS HostDeletion

RegistryNames == {"transfers", "terminals", "commands"}
Keys == RegistryNames \X Hosts
=============================================================================
