----------------------------- MODULE MCLifecycle -----------------------------
(* Two connections, one running timer callback and one user: an open can   *)
(* overlap a close, a callback either of them, and a stop all three.       *)
EXTENDS Lifecycle

CONSTANTS c1, c2, k1, u1

TwoConns == {c1, c2}
OneCallback == {k1}
OneUser == {u1}
=============================================================================
