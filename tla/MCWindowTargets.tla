--------------------------- MODULE MCWindowTargets ---------------------------
(* Windows of two by two points on one display of six by four, some of them *)
(* half or wholly off it.  The name "mail" is a substring of "mail notes".  *)
EXTENDS WindowTargets

Screen == {[x |-> 0, y |-> 0, width |-> 6, height |-> 4]}

At(id, pid, owner, name, x) ==
  [id |-> id, pid |-> pid, owner |-> owner, name |-> name, layer |-> 0,
   rect |-> [x |-> x, y |-> 0, width |-> 2, height |-> 2]]
Floating(w) == [w EXCEPT !.layer = 3]
Empty(w) == [w EXCEPT !.rect.width = 0]

Names == {"mail", "notes", "mail notes"}
Substrings == {<<n, m>> \in (Names \cup {""}) \X (Names \cup {""}) :
                 n = "" \/ n = m \/ m = "mail notes"}

\* One window for each application, some titled like another application.
Mails == {At(1, 11, "mail", t, x) : t \in {"", "notes"}, x \in {0, 7}}
Notes == {At(2, 22, "notes", t, x) : t \in {"mail", "mail notes"}, x \in {1, 0 - 1}}
Helpers == {At(3, 33, "mail notes", "mail", 3)}
OneEach == {<<a, b>> : a \in Mails, b \in Notes} \cup {<<b, a>> : a \in Mails, b \in Notes}
             \cup {<<a, c, b>> : a \in Mails, b \in Notes, c \in Helpers}
             \cup {<<Empty(a), b>> : a \in Mails, b \in Notes}

\* Two windows of one application, the first one without a title.
TwoOfOne == {<<At(1, 11, "mail", "", 0), At(2, 11, "mail", "notes", 3)>>,
             <<At(1, 11, "mail", "", 0), At(2, 22, "notes", "mail", 1)>>}

\* One application's windows, any on or off the display, and a floating one.
Mixed == {At(i, 11, "mail", t, x) : i \in {1, 2}, t \in {"", "notes"}, x \in {0, 7}}
Crowded == {<<Floating(At(4, 44, "notes", "mail", 4)), a, b, c>> :
              a \in {w \in Mixed : w.id = 1}, b \in Notes \cup {At(5, 22, "notes", "", 0)},
              c \in {w \in Mixed : w.id = 2}}
             \cup {<<>>}

AllDesktops == OneEach \cup TwoOfOne \cup Crowded

Anything == {"mail", "notes"}
Sought == {"notes"}
Corner == {<<0, 0>>, <<1, 1>>, <<2, 0>>, <<1, 0 - 1>>}
Large == {<<4, 3>>}
Places == {<<4, 1>>}
=============================================================================
