------------------------------- MODULE MCWizard -------------------------------
(* Three callers: one that shows a wizard, one that waits for its result,   *)
(* and one that shows the next wizard while the first is torn down.         *)
EXTENDS Wizard

CONSTANTS c1, c2, c3

ThreeCallers == {c1, c2, c3}
=============================================================================
