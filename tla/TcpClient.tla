-------------------------------- MODULE TcpClient --------------------------------
(***************************************************************************)
(* The TCP client (tcp/client.go) on the endpoints of tcp/endpoint.go.     *)
(* Connect dials, makes an endpoint, keeps it as THE endpoint of the       *)
(* client and gives its reader to the client's own executor, where Run     *)
(* blocks until there is a place (TaskPool).  The observer is called by    *)
(* the goroutine that meets the event, and may Connect again in            *)
(* OnDisConnect: then the reader of the lost connection waits inside       *)
(* Connect while it keeps its place, and several connections live at once, *)
(* of which Close and SendData know the last one only.                     *)
(***************************************************************************)
EXTENDS Naturals, Sequences, FiniteSets

CONSTANTS
  MaxConns,   \* bound: connections that are ever dialled, 1..MaxConns in this order
  Capacity,   \* of the client's executor
  Size,       \* pieces of a message, any number of which one Write may take
  MaxSends    \* bound: calls of SendData

ASSUME ClientAssumption ==
  MaxConns \in Nat /\ Capacity \in Nat \ {0} /\ Size \in Nat \ {0} /\ MaxSends \in Nat

Conns == 1..MaxConns
User == 0                      \* the goroutine that sends; no connection has this number
Callers == Conns \cup {User}   \* a reader calls Connect inside OnDisConnect

VARIABLES
  phase,     \* the executor: see TaskPool; the task of a connection is its reader
  peer,      \* the other end: "none", "open", "fin" or "reset"
  socket,    \* this end: "open" or "closed"
  observer,  \* endpointImpl.observer is not nil
  reader,    \* where the reader of a connection is
  endpoint,  \* clientImpl.endpoint, 0 for nil
  connect,   \* the Connect that a caller is in
  user,      \* what the user's goroutine does, on which endpoint, with what offset
  sends,     \* calls of SendData
  wire,      \* the pieces that a connection has taken
  told,      \* history: messages of a connection that SendData reported as sent
  dropped    \* history: connections that the user closed

Exec == INSTANCE TaskPool WITH Tasks <- Conns

conn == <<peer, socket, observer>>
sending == <<user, sends, wire, told>>
vars == <<phase, conn, reader, endpoint, connect, sending, dropped>>

NotConnecting == [at |-> "none", conn |-> 0]
Idle == [at |-> "idle", ep |-> 0, offset |-> 0]

-------------------------------------------------------------------------------
Init ==
  /\ Exec!PoolInit
  /\ peer = [c \in Conns |-> "none"]
  /\ socket = [c \in Conns |-> "open"]
  /\ observer = [c \in Conns |-> FALSE]
  /\ reader = [c \in Conns |-> "reading"]
  /\ endpoint = 0
  /\ connect = [g \in Callers |-> NotConnecting]
  /\ user = Idle
  /\ sends = 0
  /\ wire = [c \in Conns |-> <<>>]
  /\ told = [c \in Conns |-> 0]
  /\ dropped = {}

PeerEnds(c, how) ==
  /\ peer[c] = "open"
  /\ peer' = [peer EXCEPT ![c] = how]
  /\ UNCHANGED <<phase, socket, observer, reader, endpoint, connect, sending, dropped>>

-------------------------------------------------------------------------------
\* Who may call Connect: the user, and whoever is in OnDisConnect.
MayConnect(g) ==
  /\ connect[g].at = "none"
  /\ IF g = User THEN user.at \in {"idle", "callback"} ELSE reader[g] = "callback"

\* net.Dial, newEndpoint and its OnConnect.  A Dial that fails returns, and nothing
\* but the return of the callback follows from it.
Dial(g) ==
  /\ MayConnect(g)
  /\ \E c \in Conns :
       /\ peer[c] = "none" /\ \A d \in 1..(c - 1) : peer[d] # "none"
       /\ peer' = [peer EXCEPT ![c] = "open"]
       /\ observer' = [observer EXCEPT ![c] = TRUE]
       /\ connect' = [connect EXCEPT ![g] = [at |-> "announced", conn |-> c]]
  /\ UNCHANGED <<phase, socket, reader, endpoint, sending, dropped>>

\* s.endpoint = implPtr, and Run is called.
StoreEndpoint(g) ==
  /\ connect[g].at = "announced"
  /\ endpoint' = connect[g].conn
  /\ Exec!Enqueue(connect[g].conn)
  /\ connect' = [connect EXCEPT ![g].at = "inRun"]
  /\ UNCHANGED <<conn, reader, sending, dropped>>

\* A callback ends after the Connect in it, or without one.
BackFromCallback(g) ==
  /\ user' = IF g = User THEN Idle ELSE user
  /\ reader' = IF g = User THEN reader ELSE [reader EXCEPT ![g] = "closing"]

\* Mutant: Connect waits until the reader is over.
ConnectReturns_Joins(g) ==
  /\ connect[g].at = "inRun"
  /\ phase[connect[g].conn] = "left"
  /\ connect' = [connect EXCEPT ![g] = NotConnecting]
  /\ BackFromCallback(g)
  /\ UNCHANGED <<phase, conn, endpoint, sends, wire, told, dropped>>

\* Run returned: the executor has started the reader.
ConnectReturns(g) ==
  /\ connect[g].at = "inRun"
  /\ phase[connect[g].conn] # "waiting"
  /\ connect' = [connect EXCEPT ![g] = NotConnecting]
  /\ BackFromCallback(g)
  /\ UNCHANGED <<phase, conn, endpoint, sends, wire, told, dropped>>

CallbackReturns(g) ==
  /\ connect[g].at = "none"
  /\ IF g = User THEN user.at = "callback" ELSE reader[g] = "callback"
  /\ BackFromCallback(g)
  /\ UNCHANGED <<phase, conn, endpoint, connect, sends, wire, told, dropped>>

-------------------------------------------------------------------------------
\* The reader of c goes from one place to another.  What it reads it gives to
\* OnRecvData before it reads on: nothing here depends on it.
ReaderMoves(c, from, to) ==
  /\ phase[c] = "running"
  /\ reader[c] = from
  /\ reader' = [reader EXCEPT ![c] = to]

Kept == UNCHANGED <<phase, conn, endpoint, connect, sending, dropped>>

\* Mutant: an error is logged and the loop goes on.
ReadFails_Continue(c) ==
  /\ socket[c] = "closed" \/ peer[c] = "reset"
  /\ ReaderMoves(c, "reading", "reading")
  /\ Kept

ReadFails(c) ==
  /\ socket[c] = "closed" \/ peer[c] = "reset"
  /\ ReaderMoves(c, "reading", "closing")
  /\ Kept

ReadEof(c) ==
  /\ socket[c] = "open" /\ peer[c] = "fin"
  /\ ReaderMoves(c, "reading", "eof")
  /\ Kept

\* if s.observer != nil, and the call, which reads observer again: when Close came
\* between the two, the reader panics and runs its defer.
CheckObserver(c) ==
  /\ ReaderMoves(c, "eof", IF observer[c] THEN "goodbye" ELSE "closing")
  /\ Kept

OnDisConnect(c) ==
  /\ ReaderMoves(c, "goodbye", IF observer[c] THEN "callback" ELSE "closing")
  /\ Kept

Closes(c) ==
  /\ observer' = [observer EXCEPT ![c] = FALSE]
  /\ socket' = [socket EXCEPT ![c] = "closed"]

\* Mutant: defer s.Close(), which closes the endpoint of the moment.
ReaderEnds_ClientClose(c) ==
  /\ ReaderMoves(c, "closing", "done")
  /\ Closes(endpoint)
  /\ Exec!Leave(c)
  /\ UNCHANGED <<peer, endpoint, connect, sending, dropped>>

\* defer implPtr.Close(): the reader closes its own endpoint and leaves the executor.
ReaderEnds(c) ==
  /\ ReaderMoves(c, "closing", "done")
  /\ Closes(c)
  /\ Exec!Leave(c)
  /\ UNCHANGED <<peer, endpoint, connect, sending, dropped>>

\* Close, called by any goroutine of the user's.
UserCloses ==
  /\ endpoint # 0
  /\ endpoint \notin dropped
  /\ dropped' = dropped \cup {endpoint}
  /\ Closes(endpoint)
  /\ UNCHANGED <<phase, peer, reader, endpoint, connect, sending>>

-------------------------------------------------------------------------------
UserMoves(from, to) == user.at = from /\ user' = to

\* SendData, on the endpoint of the moment.
SendData ==
  /\ endpoint # 0 /\ sends < MaxSends
  /\ connect[User].at = "none"
  /\ UserMoves("idle", [at |-> "sending", ep |-> endpoint, offset |-> 0])
  /\ sends' = sends + 1
  /\ UNCHANGED <<phase, conn, reader, endpoint, connect, wire, told, dropped>>

Pieces(from, to) == [i \in 1..(to - from) |-> from + i]

\* connVal.Write takes some of the rest; SendData goes on behind it until all is gone.
Took(n, offset) ==
  LET c == user.ep
      all == offset = Size
  IN /\ wire' = [wire EXCEPT ![c] = @ \o Pieces(user.offset, user.offset + n)]
     /\ user' = IF all THEN Idle ELSE [user EXCEPT !.offset = offset]
     /\ told' = IF all THEN [told EXCEPT ![c] = @ + 1] ELSE told

\* Mutant: what a Write left over counts as sent.
Write_Truncates ==
  /\ user.at = "sending"
  /\ socket[user.ep] = "open" /\ peer[user.ep] # "reset"
  /\ \E n \in 1..(Size - user.offset) : Took(n, Size)
  /\ UNCHANGED <<phase, conn, reader, endpoint, connect, sends, dropped>>

Write ==
  /\ user.at = "sending"
  /\ socket[user.ep] = "open" /\ peer[user.ep] # "reset"
  /\ \E n \in 1..(Size - user.offset) : Took(n, user.offset + n)
  /\ UNCHANGED <<phase, conn, reader, endpoint, connect, sends, dropped>>

\* A closed connection, or a peer that is gone: what fails an open one is its reset,
\* and no later Write gets through.
WriteFails ==
  /\ UserMoves("sending", [user EXCEPT !.at = "failed"])
  /\ \/ socket[user.ep] = "closed" /\ UNCHANGED peer
     \/ peer[user.ep] # "open" /\ peer' = [peer EXCEPT ![user.ep] = "reset"]
  /\ UNCHANGED <<phase, socket, observer, reader, endpoint, connect, sends, wire, told,
                 dropped>>

\* if err != nil && s.observer != nil, and OnDisConnect in the goroutine of the user,
\* where a nil observer is a panic that nobody recovers: the goroutine is "over".
SenderChecks ==
  /\ \/ UserMoves("failed", IF observer[user.ep] THEN [user EXCEPT !.at = "goodbye"] ELSE Idle)
     \/ UserMoves("goodbye", [user EXCEPT !.at = IF observer[user.ep] THEN "callback" ELSE "over"])
  /\ UNCHANGED <<phase, conn, reader, endpoint, connect, sends, wire, told, dropped>>

-------------------------------------------------------------------------------
Occupy(c) ==
  /\ Exec!Occupy(c)
  /\ UNCHANGED <<conn, reader, endpoint, connect, sending, dropped>>

\* What the program does by itself.
Step ==
  \/ \E g \in Callers : StoreEndpoint(g) \/ ConnectReturns(g) \/ CallbackReturns(g)
  \/ \E c \in Conns :
       \/ Occupy(c)
       \/ ReadFails(c) \/ ReadEof(c) \/ CheckObserver(c) \/ OnDisConnect(c)
       \/ ReaderEnds(c)
  \/ Write \/ WriteFails \/ SenderChecks

Environment ==
  \/ \E c \in Conns : PeerEnds(c, "fin") \/ PeerEnds(c, "reset")
  \/ \E g \in Callers : Dial(g)
  \/ UserCloses \/ SendData

Next == Step \/ Environment

\* Callbacks return, and while some goroutine can run, some goroutine does; nothing is
\* assumed of the peers and of what the user calls.
Spec == Init /\ [][Next]_vars /\ WF_vars(Step)

-------------------------------------------------------------------------------
\* Although a later Connect has replaced the endpoint of the client, a reader that ends
\* closes its own connection and no other: one that is closed was closed by its reader
\* or by the user, while it was the endpoint (client.go:43-50).
ClosedByOwner ==
  \A c \in Conns : socket[c] = "closed" => reader[c] = "done" \/ c \in dropped

\* The peer of a connection gets whole messages one behind the other, the last one maybe
\* cut by the end of the connection, and all that SendData reported as sent
\* (endpoint.go:114-128, design-realtime.md:44 "不会在分段发送时截断数据").
SentWhole ==
  \A c \in Conns :
    /\ Len(wire[c]) >= told[c] * Size
    /\ \A i \in 1..Len(wire[c]) : wire[c][i] = ((i - 1) % Size) + 1

Lives(c) == reader[c] = "reading" /\ socket[c] = "open" /\ peer[c] = "open"

\* Every place is taken, and not only by readers that wait or are on their way out.
TakenByTheLiving ==
  /\ Cardinality(Exec!Occupying) = Capacity
  /\ \E c \in Exec!Occupying : Lives(c)

\* With fewer connections than twice the places of its executor, a Connect waits for
\* ever only while every place is taken, at least one by a connection that lives,
\* although readers that reconnect in OnDisConnect keep their places while they wait for
\* another one (client.go:46-50).  With twice as many, all readers may reconnect at
\* once and wait for each other.
ConnectGetsPlace ==
  MaxConns < 2 * Capacity =>
    \A c \in Conns : phase[c] = "waiting" ~> phase[c] # "waiting" \/ []TakenByTheLiving

\* When the peer of a connection goes or the user closes it, its place comes back,
\* unless its reader waits inside a Connect (client.go:46-50, endpoint.go:149-170).
PlaceReturned ==
  \A c \in Conns :
    phase[c] = "running" /\ (peer[c] \in {"fin", "reset"} \/ socket[c] = "closed")
      ~> phase[c] = "left" \/ connect[c].at # "none"

===============================================================================
