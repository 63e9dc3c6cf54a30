------------------------------ MODULE MCDoBatch ------------------------------
(* Two applications, and actions of every kind: inputs that name their     *)
(* application, inherit it or have an alias for it, a focus on each        *)
(* application, actions on windows, and ill-formed ones.  One call gets    *)
(* each of them alone, each after a focus, a wait or a closed window, and  *)
(* some before a focus or after two; the other one an action that changes  *)
(* the desktop under it: its click, its paste or its pointer moving.       *)
EXTENDS DoBatch

CONSTANTS c1, c2, A, B

TwoCalls == {c1, c2}
TwoApps == {A, B}

An(type, name) == [type |-> type, app |-> name, app_name |-> NoApp, button |-> "", fit |-> TRUE]

Bare == {An(type, NoApp) : type \in {"click", "type", "paste", "scroll", "screenshot", "wait"}}
OnA == {An(type, A) : type \in {"focus", "key", "scroll", "close", "hover"}}
OnB == {An("focus", B), [An("click", B) EXCEPT !.button = "Right"],
        [An("drag", A) EXCEPT !.app_name = B], [An("mouse_move", NoApp) EXCEPT !.app_name = B]}
Ill == {An("tap", A), [An("paste", A) EXCEPT !.fit = FALSE], [An("click", A) EXCEPT !.button = "side"]}
Focuses == {An("focus", A), An("focus", B)}
WellFormed == Bare \cup OnA \cup OnB
Heirs == {An(type, NoApp) : type \in {"click", "type", "screenshot"}}
First == Focuses \cup {An("wait", NoApp), An("close", A)}

AnyBatch == {<<>>} \cup {<<a>> : a \in WellFormed \cup Ill}
              \cup {<<a, b>> : a \in First, b \in WellFormed \cup Ill}
              \cup {<<a, f>> : a \in Heirs, f \in Focuses}
              \cup {<<f, g, a>> : f, g \in Focuses, a \in Heirs}
Rival == {<<An(type, B)>> : type \in {"paste", "click", "move"}}

SomeBatches == [c \in TwoCalls |-> IF c = c1 THEN AnyBatch ELSE Rival]
=============================================================================
