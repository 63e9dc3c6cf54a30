-------------------------- MODULE MCProtocolClient --------------------------
(* Two callers: one waits while the other calls, connects or closes.       *)
(* Three requests: a late answer can be taken for the next call's, and     *)
(* that one's for a third.                                                 *)
EXTENDS ProtocolClient

CONSTANTS k1, k2

TwoCallers == {k1, k2}
=============================================================================
