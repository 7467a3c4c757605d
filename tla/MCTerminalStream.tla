--------------------------- MODULE MCTerminalStream ---------------------------
(***************************************************************************)
(* Instance of TerminalStream for TLC: two tabs, interchangeable, that     *)
(* share two sockets; every event is as large as the others, and two of    *)
(* them fill the replay.                                                   *)
(***************************************************************************)
EXTENDS TerminalStream, TLC

TabSymmetry == Permutations(Tabs)
=============================================================================
