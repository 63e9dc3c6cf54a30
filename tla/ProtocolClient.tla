--------------------------- MODULE ProtocolClient ---------------------------
(***************************************************************************)
(* The JSON-RPC client of internal/protocol/client.go: callers of Connect, *)
(* Call and Close take turns on c.mu, write a request line and read one    *)
(* line back.  The server at the other end and the socket between them are *)
(* external: it answers in order, late or never, may send notifications,   *)
(* and may go away.                                                        *)
(***************************************************************************)
EXTENDS Integers, Sequences, FiniteSets

CONSTANTS
  Callers,   \* goroutines that use the client
  Nobody,    \* c.mu is free
  MaxCalls,  \* requests written in a run, at most (bounds the model)
  MaxNotes   \* notifications the server sends, at most (bounds the model)

ASSUME ProtocolClientAssumption ==
  /\ IsFiniteSet(Callers)
  /\ Nobody \notin Callers
  /\ MaxCalls \in Nat
  /\ MaxNotes \in Nat

\* A line: the response to request n > 0, a notification, or the rest of a
\* response whose first part a timed-out read has taken.
Note == 0
Rest == -1
Lines == -1..MaxCalls
Nothing == -2

VARIABLES
  mu,         \* who holds c.mu
  connected,  \* c.connected
  broken,     \* c.encoder has failed once and does not write any more
  alive,      \* the other end of c.conn is open
  nextID,     \* c.nextID
  requests,   \* requests the server has still to answer
  lines,      \* lines sent by the server and not yet read
  notes,      \* notifications sent so far
  pc,         \* what each caller does next
  id,         \* the request each caller has written
  got,        \* the line each caller returned as its response
  desynced    \* history: a call timed out on this connection, or a
              \* notification was sent on it

wireVars == <<alive, requests, lines, notes>>
vars == <<mu, connected, broken, nextID, wireVars, pc, id, got, desynced>>

TypeOK ==
  /\ mu \in Callers \cup {Nobody}
  /\ connected \in BOOLEAN
  /\ broken \in BOOLEAN
  /\ alive \in BOOLEAN
  /\ nextID \in 0..MaxCalls
  /\ requests \in Seq(1..MaxCalls)
  /\ lines \in Seq(Lines)
  /\ notes \in 0..MaxNotes
  /\ pc \in [Callers -> {"idle", "call", "send", "receive", "connect", "close"}]
  /\ id \in [Callers -> 0..MaxCalls]
  /\ got \in [Callers -> Lines \cup {Nothing}]
  /\ desynced \in BOOLEAN

Init ==
  /\ mu = Nobody
  /\ connected = FALSE
  /\ broken = FALSE
  /\ alive = FALSE
  /\ nextID = 0
  /\ requests = <<>>
  /\ lines = <<>>
  /\ notes = 0
  /\ pc = [k \in Callers |-> "idle"]
  /\ id = [k \in Callers |-> 0]
  /\ got = [k \in Callers |-> Nothing]
  /\ desynced = FALSE

-----------------------------------------------------------------------------
Step(k, from, to) == pc[k] = from /\ pc' = [pc EXCEPT ![k] = to]

\* What a caller returned is seen until it begins its next operation.
Begin(k, operation) ==
  /\ operation = "call" =>
       nextID + Cardinality({j \in Callers : pc[j] = "call"}) < MaxCalls
  /\ Step(k, "idle", operation)
  /\ id' = [id EXCEPT ![k] = 0]
  /\ got' = [got EXCEPT ![k] = Nothing]
  /\ UNCHANGED <<mu, connected, broken, nextID, wireVars, desynced>>

ConnectDials(k) ==
  /\ mu = Nobody /\ ~connected
  /\ Step(k, "connect", "idle")
  /\ connected' = TRUE
  /\ broken' = FALSE
  /\ alive' = TRUE
  /\ desynced' = FALSE
  /\ UNCHANGED <<mu, nextID, requests, lines, notes, id, got>>

\* Already connected, or nobody listens.
ConnectDoesNothing(k) ==
  /\ mu = Nobody
  /\ Step(k, "connect", "idle")
  /\ UNCHANGED <<mu, connected, broken, nextID, wireVars, id, got, desynced>>

\* Closing the connection drops what was under way on it.
Close(k) ==
  /\ mu = Nobody
  /\ Step(k, "close", "idle")
  /\ connected' = FALSE
  /\ alive' = FALSE
  /\ requests' = <<>>
  /\ lines' = <<>>
  /\ UNCHANGED <<mu, broken, nextID, notes, id, got, desynced>>

CallNotConnected(k) ==
  /\ mu = Nobody /\ ~connected
  /\ Step(k, "call", "idle")
  /\ UNCHANGED <<mu, connected, broken, nextID, wireVars, id, got, desynced>>

CallBegins(k) ==
  /\ mu = Nobody /\ connected
  /\ Step(k, "call", "send")
  /\ mu' = k
  /\ nextID' = nextID + 1
  /\ id' = [id EXCEPT ![k] = nextID + 1]
  /\ UNCHANGED <<connected, broken, wireVars, got, desynced>>

\* Mutant: c.mu guards the encoder only and is free while the call waits.
SendAndUnlock(k) ==
  /\ alive /\ ~broken
  /\ Step(k, "send", "receive")
  /\ requests' = Append(requests, id[k])
  /\ mu' = Nobody
  /\ UNCHANGED <<connected, broken, nextID, alive, lines, notes, id, got, desynced>>

Send(k) ==
  /\ alive /\ ~broken
  /\ Step(k, "send", "receive")
  /\ requests' = Append(requests, id[k])
  /\ UNCHANGED <<mu, connected, broken, nextID, alive, lines, notes, id, got, desynced>>

\* The write fails, or reaches its deadline before all of the line is written:
\* the server has no request, and json.Encoder keeps the error for the calls to
\* come, while the client stays connected.
SendFails(k) ==
  /\ Step(k, "send", "idle")
  /\ broken' = TRUE
  /\ mu' = Nobody
  /\ UNCHANGED <<connected, nextID, wireVars, id, got, desynced>>

\* Mutant: a failed call returns without the deferred unlock.
ReceiveFailsLocked(k) ==
  /\ ~alive /\ lines = <<>>
  /\ Step(k, "receive", "idle")
  /\ UNCHANGED <<mu, connected, broken, nextID, wireVars, id, got, desynced>>

\* The connection has ended: the client stays connected.
ReceiveFails(k) ==
  /\ ~alive /\ lines = <<>>
  /\ Step(k, "receive", "idle")
  /\ mu' = Nobody
  /\ UNCHANGED <<connected, broken, nextID, wireVars, id, got, desynced>>

\* The next line, whatever request it answers, is the response; what is left
\* of a line does not parse.
Receive(k) ==
  /\ lines # <<>>
  /\ Step(k, "receive", "idle")
  /\ got' = [got EXCEPT ![k] = IF Head(lines) = Rest THEN Nothing ELSE Head(lines)]
  /\ lines' = Tail(lines)
  /\ mu' = Nobody
  /\ UNCHANGED <<connected, broken, nextID, alive, requests, notes, id, desynced>>

TimesOut(k) ==
  /\ Step(k, "receive", "idle")
  /\ mu' = Nobody
  /\ desynced' = TRUE
  /\ \/ UNCHANGED <<requests, lines>>
     \/ /\ alive /\ requests # <<>> /\ lines = <<>>   \* in the middle of a line
        /\ requests' = Tail(requests)
        /\ lines' = <<Rest>>
  /\ UNCHANGED <<connected, broken, nextID, alive, notes, id, got>>

-----------------------------------------------------------------------------
(* The server.                                                              *)

Answer ==
  /\ alive /\ requests # <<>>
  /\ lines' = Append(lines, Head(requests))
  /\ requests' = Tail(requests)
  /\ UNCHANGED <<mu, connected, broken, alive, nextID, notes, pc, id, got, desynced>>

Notify ==
  /\ alive /\ notes < MaxNotes
  /\ lines' = Append(lines, Note)
  /\ notes' = notes + 1
  /\ desynced' = TRUE
  /\ UNCHANGED <<mu, connected, broken, alive, nextID, requests, pc, id, got>>

GoesAway ==
  /\ alive
  /\ alive' = FALSE
  /\ requests' = <<>>
  /\ UNCHANGED <<mu, connected, broken, nextID, lines, notes, pc, id, got, desynced>>

-----------------------------------------------------------------------------
Running(k) ==
  \/ ConnectDials(k) \/ ConnectDoesNothing(k) \/ Close(k)
  \/ CallNotConnected(k) \/ CallBegins(k) \/ Send(k)
  \/ SendFails(k) \/ ReceiveFails(k) \/ Receive(k) \/ TimesOut(k)

Next ==
  \/ \E k \in Callers :
       \/ \E operation \in {"call", "connect", "close"} : Begin(k, operation)
       \/ Running(k)
  \/ Answer \/ Notify \/ GoesAway

\* sync.Mutex lets nobody wait for ever, and a call has a deadline.  The
\* server owes nothing: it may be slow, mute or gone.
Fairness ==
  /\ \A k \in Callers : SF_vars(Running(k))

Spec == Init /\ [][Next]_vars /\ Fairness

-----------------------------------------------------------------------------
(* Properties.                                                              *)

\* "sends a request and waits for the response": what a call returns is the
\* answer to the request it wrote, until a call has timed out on the
\* connection or a notification was sent on it; a new connection sets it right.
OwnResponse ==
  [][\A k \in Callers : pc[k] = "receive" /\ pc'[k] = "idle" /\ ~desynced
       => got'[k] \in {Nothing, id[k]}]_vars

\* Every operation ends: calls by their answer, an error or their deadline,
\* the others once the caller before them is through.
EveryOperationReturns == \A k \in Callers : pc[k] # "idle" ~> pc[k] = "idle"
=============================================================================
