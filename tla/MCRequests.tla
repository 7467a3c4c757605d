----------------------------- MODULE MCRequests -----------------------------
(* Requests with small limits: a request and its retry, or two requests.    *)
EXTENDS Requests

CONSTANTS r1, r2, k1, save, deploy

TwoCallers == {r1, r2}
OneKey == {k1}
LongBodies == {deploy}
MixedBodies == {save, deploy}
EveryFault == {"panic", "slow", "disconnect", "expire"}
=============================================================================
