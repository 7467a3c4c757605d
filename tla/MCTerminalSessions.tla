------------------------- MODULE MCTerminalSessions -------------------------
(* TerminalSessions with small limits.                                     *)
EXTENDS TerminalSessions, TLC

CONSTANTS s1, s2, c1
TwoSessions == {s1, s2}
OneCloser == {c1}
AllFaults == {"spawn", "thread", "kill", "wait", "read", "slow"}
Symmetry == Permutations(TwoSessions)
=============================================================================
