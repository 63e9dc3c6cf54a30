--------------------------- MODULE MCServerProcess ---------------------------
(* Two connections and one timer callback: every open, close and callback   *)
(* overlaps every other, the signals, the menu and both ways to exit.       *)
EXTENDS ServerProcess

CONSTANTS c1, c2, k1

TwoConns == {c1, c2}
OneCallback == {k1}
=============================================================================
