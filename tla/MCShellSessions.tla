--------------------------- MODULE MCShellSessions ---------------------------
(* Two handlers of any kind and one that closes or lists: one may wait for  *)
(* a session that another holds while the third takes it from the table or  *)
(* asks for its Info.  Two sessions, so that CloseAll and List have one     *)
(* left while the other is spawned or closed.  One input chunk and one      *)
(* output chunk fill the PTY.                                               *)
EXTENDS ShellSessions

CONSTANTS o1, o2, o3, s1, s2

ThreeOps == {o1, o2, o3}
TwoSessions == {s1, s2}
OneTidies == [o \in ThreeOps |-> IF o = o3 THEN {"close", "list"} ELSE Kinds]
=============================================================================
