---------------------------- MODULE SessionServer ----------------------------
(***************************************************************************)
(* What the socket server of main.go owes its clients, without goroutines, *)
(* counts, states and timers.  A client that dials waits, is served and    *)
(* goes, or is refused.  The server is up, deaf (an Accept error has ended *)
(* its loop while its sessions go on), stopping, or over.                  *)
(***************************************************************************)
CONSTANT Conns

VARIABLES
  client,  \* of each connection: "away", "waiting", "served", "gone" or "refused"
  mode     \* of the server: "up", "deaf", "stopping" or "over"

vars == <<client, mode>>

Becomes(c, from, to) ==
  client[c] = from /\ client' = [client EXCEPT ![c] = to]

Init == client = [c \in Conns |-> "away"] /\ mode = "up"

Dial(c) == mode # "over" /\ Becomes(c, "away", "waiting") /\ UNCHANGED mode

\* A session may still begin in a server that is stopping, not in a deaf one.
Serve(c) == /\ mode \in {"up", "stopping"}
            /\ Becomes(c, "waiting", "served")
            /\ UNCHANGED mode

Go(c) == Becomes(c, "served", "gone") /\ UNCHANGED mode

Refused(S) == [c \in Conns |-> IF c \in S THEN "refused" ELSE client[c]]

\* Only a server that is stopping turns clients away, one or all at once.
Refuse(S) == /\ mode = "stopping"
             /\ \A c \in S : client[c] = "waiting"
             /\ client' = Refused(S)
             /\ UNCHANGED mode

GoDeaf == mode = "up" /\ mode' = "deaf" /\ UNCHANGED client

Stop == mode \in {"up", "deaf"} /\ mode' = "stopping" /\ UNCHANGED client

\* The end: nobody is served any more, and whoever still waits is refused.
Finish == /\ mode \in {"deaf", "stopping"}
          /\ \A c \in Conns : client[c] # "served"
          /\ client' = Refused({c \in Conns : client[c] = "waiting"})
          /\ mode' = "over"

Next == \/ \E c \in Conns : Dial(c) \/ Serve(c) \/ Go(c)
        \/ \E S \in SUBSET Conns : Refuse(S)
        \/ GoDeaf \/ Stop \/ Finish

\* A stop ends what is served and then the server; who waits for a server
\* that is not deaf is answered.
Fairness ==
  /\ WF_vars(mode = "stopping" /\ Finish)
  /\ \A c \in Conns :
       /\ WF_vars(mode = "stopping" /\ Go(c))
       /\ WF_vars(Serve(c) \/ Refuse({c}))

Spec == Init /\ [][Next]_vars /\ Fairness
=============================================================================
