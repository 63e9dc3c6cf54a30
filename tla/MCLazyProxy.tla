----------------------------- MODULE MCLazyProxy -----------------------------
(* Two calls share the connection: one resets while the other dials, sends *)
(* or waits.  One fault is enough to lose a connection both use, two let a *)
(* reset meet a second failure.                                            *)
EXTENDS LazyProxy, TLC

CONSTANTS k1, k2

TwoCalls == {k1, k2}
CallSymmetry == Permutations(TwoCalls)
=============================================================================
