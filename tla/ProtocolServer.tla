--------------------------- MODULE ProtocolServer ---------------------------
(***************************************************************************)
(* The JSON-RPC server of internal/protocol/server.go after Start: the     *)
(* accept loop, one handler goroutine per connection, Stop and             *)
(* BroadcastNotification, all concurrent.  s.conns is a sync.Map: Range    *)
(* visits every key that is there from its start to its end, and may visit *)
(* a key stored meanwhile.  Clients and the kernel's socket buffers are    *)
(* external.                                                               *)
(***************************************************************************)
EXTENDS Integers, FiniteSets

CONSTANTS
  Conns,         \* the connections clients may open (bounds the model)
  NoConn,        \* the accept loop holds no connection
  OutCap,        \* how many messages a socket buffers for its client (bound)
  Calls,         \* what the server's owner calls: "stop", "broadcast" (bound)
  AcceptErrors   \* TRUE: Accept may fail while the listener is open

ASSUME ProtocolServerAssumption ==
  /\ IsFiniteSet(Conns)
  /\ NoConn \notin Conns
  /\ OutCap \in Nat \ {0}
  /\ Calls \subseteq {"stop", "broadcast"}
  /\ AcceptErrors \in BOOLEAN

VARIABLES
  stopCh,     \* s.stopCh is closed
  listening,  \* s.listener is open
  sock,       \* the server's end of each connection
  hung,       \* the clients that hung up
  inbox,      \* requests a client has sent and nobody has read (0 or 1)
  outbox,     \* messages in the socket that the client has not read
  conns,      \* s.conns
  connCount,  \* s.connCount
  wg,         \* s.wg
  accept,     \* what acceptLoop does next
  fresh,      \* the connection it accepted last
  pc,         \* what each handleConnection does next
  stop,       \* what Stop does next
  toClose,    \* connections Stop's Range must still visit
  cast,       \* what BroadcastNotification does next
  toTell,     \* connections its Range must still visit
  telling,    \* the connection it is writing to
  told        \* connections it has written to, or failed to

netVars    == <<sock, hung, inbox, outbox>>
acceptVars == <<accept, fresh>>
stopVars   == <<stopCh, listening, stop, toClose>>
castVars   == <<cast, toTell, telling, told>>
bookVars   == <<conns, connCount, wg>>
vars == <<netVars, acceptVars, stopVars, castVars, bookVars, pc>>

HandlerSteps == {"check", "read", "encode", "complain", "close", "delete", "uncount", "done"}

TypeOK ==
  /\ stopCh \in BOOLEAN
  /\ listening \in BOOLEAN
  /\ sock \in [Conns -> {"none", "backlog", "open", "closed"}]
  /\ hung \in SUBSET Conns
  /\ inbox \in [Conns -> {0, 1}]
  /\ outbox \in [Conns -> 0..OutCap]
  /\ conns \in SUBSET Conns
  /\ connCount \in Nat
  /\ wg \in Nat
  /\ accept \in {"accept", "failed", "store", "add", "go", "returned"}
  /\ fresh \in Conns \cup {NoConn}
  /\ pc \in [Conns -> HandlerSteps \cup {"off", "returned"}]
  /\ stop \in {"idle", "listener", "range", "wait", "returned"}
  /\ toClose \in SUBSET Conns
  /\ cast \in {"idle", "range"}
  /\ toTell \in SUBSET Conns
  /\ telling \in Conns \cup {NoConn}
  /\ told \in SUBSET Conns

\* Start has opened the listener and started the accept loop.
Init ==
  /\ stopCh = FALSE
  /\ listening = TRUE
  /\ sock = [c \in Conns |-> "none"]
  /\ hung = {}
  /\ inbox = [c \in Conns |-> 0]
  /\ outbox = [c \in Conns |-> 0]
  /\ conns = {}
  /\ connCount = 0
  /\ wg = 1
  /\ accept = "accept"
  /\ fresh = NoConn
  /\ pc = [c \in Conns |-> "off"]
  /\ stop = "idle"
  /\ toClose = {}
  /\ cast = "idle"
  /\ toTell = {}
  /\ telling = NoConn
  /\ told = {}

-----------------------------------------------------------------------------
(* Clients.                                                                 *)

Dial(c) ==
  /\ sock[c] = "none" /\ listening
  /\ sock' = [sock EXCEPT ![c] = "backlog"]
  /\ UNCHANGED <<hung, inbox, outbox, acceptVars, stopVars, castVars, bookVars, pc>>

Connected(c) == sock[c] \in {"backlog", "open"} /\ c \notin hung

ClientSends(c) ==
  /\ Connected(c) /\ inbox[c] = 0
  /\ inbox' = [inbox EXCEPT ![c] = 1]
  /\ UNCHANGED <<sock, hung, outbox, acceptVars, stopVars, castVars, bookVars, pc>>

ClientReads(c) ==
  /\ outbox[c] > 0 /\ c \notin hung
  /\ outbox' = [outbox EXCEPT ![c] = @ - 1]
  /\ UNCHANGED <<sock, hung, inbox, acceptVars, stopVars, castVars, bookVars, pc>>

HangsUp(c) ==
  /\ Connected(c)
  /\ hung' = hung \cup {c}
  /\ UNCHANGED <<sock, inbox, outbox, acceptVars, stopVars, castVars, bookVars, pc>>

-----------------------------------------------------------------------------
(* acceptLoop.                                                              *)

Accept(c) ==
  /\ accept = "accept" /\ listening /\ sock[c] = "backlog"
  /\ sock' = [sock EXCEPT ![c] = "open"]
  /\ accept' = "store"
  /\ fresh' = c
  /\ UNCHANGED <<hung, inbox, outbox, stopVars, castVars, bookVars, pc>>

AcceptFails ==
  /\ accept = "accept"
  /\ ~listening \/ AcceptErrors
  /\ accept' = "failed"
  /\ UNCHANGED <<netVars, fresh, stopVars, castVars, bookVars, pc>>

AcceptAgain ==
  /\ accept = "failed" /\ ~stopCh
  /\ accept' = "accept"
  /\ UNCHANGED <<netVars, fresh, stopVars, castVars, bookVars, pc>>

AcceptReturns ==
  /\ accept = "failed" /\ stopCh
  /\ accept' = "returned"
  /\ wg' = wg - 1
  /\ UNCHANGED <<netVars, fresh, stopVars, castVars, conns, connCount, pc>>

AcceptStores ==
  /\ accept = "store"
  /\ conns' = conns \cup {fresh}
  /\ accept' = "add"
  /\ UNCHANGED <<netVars, fresh, stopVars, castVars, connCount, wg, pc>>

AcceptCounts ==
  /\ accept = "add"
  /\ connCount' = connCount + 1
  /\ accept' = "go"
  /\ UNCHANGED <<netVars, fresh, stopVars, castVars, conns, wg, pc>>

\* wg.Add and the go statement: Stop waits for this loop too, so it cannot
\* see the one without the other.
AcceptSpawns ==
  /\ accept = "go"
  /\ wg' = wg + 1
  /\ pc' = [pc EXCEPT ![fresh] = "check"]
  /\ accept' = "accept"
  /\ UNCHANGED <<netVars, fresh, stopVars, castVars, conns, connCount>>

AcceptLoop ==
  \/ \E c \in Conns : Accept(c)
  \/ AcceptFails \/ AcceptAgain \/ AcceptReturns
  \/ AcceptStores \/ AcceptCounts \/ AcceptSpawns

-----------------------------------------------------------------------------
(* handleConnection.                                                        *)

Step(c, from, to) == pc[c] = from /\ pc' = [pc EXCEPT ![c] = to]

\* Mutant: a handler that does not look at stopCh.
CheckNothing(c) ==
  /\ Step(c, "check", "read")
  /\ UNCHANGED <<netVars, acceptVars, stopVars, castVars, bookVars>>

Check(c) ==
  /\ Step(c, "check", IF stopCh THEN "close" ELSE "read")
  /\ UNCHANGED <<netVars, acceptVars, stopVars, castVars, bookVars>>

\* A request, parsed and dispatched or not; one that is in the reader's
\* buffer outlives the socket.
ReadRequest(c) ==
  /\ inbox[c] > 0
  /\ Step(c, "read", "encode") \/ Step(c, "read", "complain")
  /\ inbox' = [inbox EXCEPT ![c] = 0]
  /\ UNCHANGED <<sock, hung, outbox, acceptVars, stopVars, castVars, bookVars>>

ReadFails(c) ==
  /\ sock[c] = "closed" \/ (c \in hung /\ inbox[c] = 0)
  /\ Step(c, "read", "close")
  /\ UNCHANGED <<netVars, acceptVars, stopVars, castVars, bookVars>>

WriteGoes(c) == sock[c] = "open" /\ c \notin hung /\ outbox[c] < OutCap
WriteBreaks(c) == sock[c] = "closed" \/ c \in hung
Written(c) == outbox' = [outbox EXCEPT ![c] = @ + 1] /\ UNCHANGED <<sock, hung, inbox>>

Encode(c) ==
  /\ \/ Step(c, "encode", "check") /\ WriteGoes(c) /\ Written(c)
     \/ Step(c, "encode", "close") /\ WriteBreaks(c) /\ UNCHANGED netVars
  /\ UNCHANGED <<acceptVars, stopVars, castVars, bookVars>>

\* The answer to a request that does not parse: its error is not looked at.
Complain(c) ==
  /\ Step(c, "complain", "check")
  /\ \/ WriteGoes(c) /\ Written(c)
     \/ WriteBreaks(c) /\ UNCHANGED netVars
  /\ UNCHANGED <<acceptVars, stopVars, castVars, bookVars>>

CloseConn(c) ==
  /\ Step(c, "close", "delete")
  /\ sock' = [sock EXCEPT ![c] = "closed"]
  /\ UNCHANGED <<hung, inbox, outbox, acceptVars, stopVars, castVars, bookVars>>

DeleteConn(c) ==
  /\ Step(c, "delete", "uncount")
  /\ conns' = conns \ {c}
  /\ UNCHANGED <<netVars, acceptVars, stopVars, castVars, connCount, wg>>

Uncount(c) ==
  /\ Step(c, "uncount", "done")
  /\ connCount' = connCount - 1
  /\ UNCHANGED <<netVars, acceptVars, stopVars, castVars, conns, wg>>

Done(c) ==
  /\ Step(c, "done", "returned")
  /\ wg' = wg - 1
  /\ UNCHANGED <<netVars, acceptVars, stopVars, castVars, conns, connCount>>

HandleConnection(c) ==
  \/ Check(c) \/ ReadRequest(c) \/ ReadFails(c) \/ Encode(c)
  \/ Complain(c) \/ CloseConn(c) \/ DeleteConn(c) \/ Uncount(c) \/ Done(c)

-----------------------------------------------------------------------------
(* Stop.                                                                    *)

StopBegins ==
  /\ stop = "idle" /\ "stop" \in Calls
  /\ stopCh' = TRUE
  /\ stop' = "listener"
  /\ UNCHANGED <<netVars, acceptVars, listening, toClose, castVars, bookVars, pc>>

\* The kernel resets what waits in the backlog.
StopListener ==
  /\ stop = "listener"
  /\ listening' = FALSE
  /\ sock' = [c \in Conns |-> IF sock[c] = "backlog" THEN "closed" ELSE sock[c]]
  /\ stop' = "range"
  /\ toClose' = conns
  /\ UNCHANGED <<hung, inbox, outbox, acceptVars, stopCh, castVars, bookVars, pc>>

StopCloses(c) ==
  /\ stop = "range"
  /\ c \in conns
  /\ c \in toClose \/ sock[c] = "open"
  /\ sock' = [sock EXCEPT ![c] = "closed"]
  /\ toClose' = toClose \ {c}
  /\ UNCHANGED <<hung, inbox, outbox, acceptVars, stopCh, listening, stop, castVars, bookVars, pc>>

\* Mutant: Stop closes the listener and leaves the connections to their
\* handlers.
StopRangesNothing ==
  /\ stop = "range"
  /\ stop' = "wait"
  /\ UNCHANGED <<netVars, acceptVars, stopCh, listening, toClose, castVars, bookVars, pc>>

StopRanged ==
  /\ stop = "range"
  /\ toClose \cap conns = {}
  /\ stop' = "wait"
  /\ UNCHANGED <<netVars, acceptVars, stopCh, listening, toClose, castVars, bookVars, pc>>

StopWaited ==
  /\ stop = "wait" /\ wg = 0
  /\ stop' = "returned"
  /\ UNCHANGED <<netVars, acceptVars, stopCh, listening, toClose, castVars, bookVars, pc>>

Stop ==
  \/ StopBegins \/ StopListener \/ StopRanged \/ StopWaited
  \/ \E c \in Conns : StopCloses(c)

-----------------------------------------------------------------------------
(* BroadcastNotification.                                                   *)

CastBegins ==
  /\ cast = "idle" /\ "broadcast" \in Calls
  /\ cast' = "range"
  /\ toTell' = conns
  /\ UNCHANGED <<netVars, acceptVars, stopVars, telling, told, bookVars, pc>>

CastPicks(c) ==
  /\ cast = "range" /\ telling = NoConn
  /\ c \in conns \ told
  /\ telling' = c
  /\ UNCHANGED <<netVars, acceptVars, stopVars, cast, toTell, told, bookVars, pc>>

\* A write that fails is passed over.
CastWrites ==
  /\ telling # NoConn
  /\ \/ WriteGoes(telling) /\ Written(telling)
     \/ WriteBreaks(telling) /\ UNCHANGED netVars
  /\ telling' = NoConn
  /\ toTell' = toTell \ {telling}
  /\ told' = told \cup {telling}
  /\ UNCHANGED <<acceptVars, stopVars, cast, bookVars, pc>>

CastEnds ==
  /\ cast = "range" /\ telling = NoConn
  /\ toTell \cap conns = {}
  /\ cast' = "idle"
  /\ toTell' = {}
  /\ told' = {}
  /\ UNCHANGED <<netVars, acceptVars, stopVars, telling, bookVars, pc>>

Cast == CastWrites \/ CastEnds \/ \E c \in Conns : CastPicks(c)

-----------------------------------------------------------------------------
Clients == \E c \in Conns : Dial(c) \/ ClientSends(c) \/ ClientReads(c) \/ HangsUp(c)

Quiescent ==
  /\ stop = "returned" /\ cast # "range"
  /\ UNCHANGED vars

Next ==
  \/ Clients
  \/ AcceptLoop
  \/ \E c \in Conns : HandleConnection(c)
  \/ Stop
  \/ CastBegins \/ Cast
  \/ Quiescent

\* Every goroutine goes on while it can; nobody has to call Stop or
\* BroadcastNotification.  Those who write to one connection queue for its
\* write lock, so a broadcast that can write again and again does.
Fairness ==
  /\ WF_vars(AcceptLoop)
  /\ \A c \in Conns : WF_vars(HandleConnection(c))
  /\ WF_vars(Stop /\ stop # "idle")
  /\ SF_vars(Cast)

Spec == Init /\ [][Next]_vars /\ Fairness

-----------------------------------------------------------------------------
(* Properties.                                                              *)

\* When Stop returns nothing of the server is left: the accept loop and every
\* handler have ended, no connection is open, tracked or counted.
StoppedIsQuiet ==
  stop = "returned" =>
    /\ accept = "returned"
    /\ \A c \in Conns : pc[c] \in {"off", "returned"} /\ sock[c] \in {"none", "closed"}
    /\ conns = {} /\ connCount = 0

\* Stop returns even when clients neither read nor hang up: a connection it
\* finds is closed under its handler, one that it misses finds stopCh closed.
StopReturns == stop # "idle" ~> stop = "returned"

\* A broadcast ends once the server is stopped, even when it is stuck on a
\* client that does not read.
BroadcastEndsOnceStopped ==
  cast = "range" /\ stop # "idle" ~> cast = "idle"
=============================================================================
