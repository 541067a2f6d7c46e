---------------------------- MODULE EndpointManager ----------------------------
(***************************************************************************)
(* The TCP server (tcp/server.go), the endpoints it makes and the manager  *)
(* that dispatches to an observer (tcp/endpoint.go), all on one executor   *)
(* as example/tcp/server/main.go wires them.                               *)
(*                                                                         *)
(* The accept loop submits one job per connection, which makes an endpoint *)
(* and reads until the connection ends.  Every callback of the observer is *)
(* a job of its own that the reader, or whoever's SendData failed, submits; *)
(* Run blocks its caller until the job has a place (TaskPool, which        *)
(* Execute implements).  SendData is called by a goroutine of the user's   *)
(* and, as in the example, by OnRecvData itself, which holds a place       *)
(* meanwhile.  endpointImpl.observer and the read buffer are shared by     *)
(* these goroutines without any lock.                                      *)
(***************************************************************************)
EXTENDS Naturals, FiniteSets

CONSTANTS
  Conns,      \* connections, each with an address pair of its own
  MaxChunks,  \* bound: pieces of at most buffSize bytes that the peer of each sends
  Kept,       \* connections whose endpoint the user keeps, to send and to close
  Capacity    \* of the executor

ASSUME EndpointAssumption ==
  /\ IsFiniteSet(Conns)
  /\ MaxChunks \in [Conns -> Nat]
  /\ Kept \subseteq Conns
  /\ Capacity \in Nat \ {0}

Job(kind, c, n) == [kind |-> kind, conn |-> c, n |-> n]
ReaderJob(c) == Job("reader", c, 0)   \* OnNewConnect, submitted by the accept loop
ConnectJob(c) == Job("connect", c, 0)
DataJob(c, n) == Job("data", c, n)    \* OnRecvData of the n-th piece
EofJob(c) == Job("eof", c, 0)         \* OnDisConnect from RecvData

DataJobs(c) == {DataJob(c, n) : n \in 1..MaxChunks[c]}

\* Who calls SendData: OnRecvData of each piece, and a goroutine of the user's.
UserOf(c) == Job("user", c, 0)
SendersOf(c) == DataJobs(c) \cup {UserOf(k) : k \in Kept \cap {c}}
Senders == UNION {SendersOf(c) : c \in Conns}

FailJob(s) == Job("fail", s.conn, s.n)   \* OnDisConnect from the SendData of s

CallbackJobs(c) == {ConnectJob(c), EofJob(c)} \cup DataJobs(c) \cup {FailJob(s) : s \in SendersOf(c)}
Jobs == UNION {CallbackJobs(c) \cup {ReaderJob(c)} : c \in Conns}

VARIABLES
  phase,     \* the executor: see TaskPool
  peer,      \* the other end: "none", "open", "fin" or "reset"
  sent,      \* pieces it sent
  pulled,    \* pieces that bufio took from the socket
  taken,     \* pieces that Read returned
  socket,    \* the local end: "open" or "closed"
  reader,    \* where the reader job of a connection is
  observer,  \* endpointImpl.observer is not nil
  buffer,    \* the piece that the read buffer holds
  send,      \* how far a failing SendData of each sender is
  endpoints, \* the keys of endpointMap
  closed,    \* history: the user called Close
  seen       \* history: <<n, m>>: OnRecvData of piece n found piece m

Exec == INSTANCE TaskPool WITH Tasks <- Jobs

remote == <<peer, sent>>
local == <<pulled, taken, socket, reader, observer, buffer>>
vars == <<phase, remote, local, send, endpoints, closed, seen>>

-------------------------------------------------------------------------------
Init ==
  /\ Exec!PoolInit
  /\ peer = [c \in Conns |-> "none"]
  /\ sent = [c \in Conns |-> 0]
  /\ pulled = [c \in Conns |-> 0]
  /\ taken = [c \in Conns |-> 0]
  /\ socket = [c \in Conns |-> "open"]
  /\ reader = [c \in Conns |-> "new"]
  /\ observer = [c \in Conns |-> FALSE]
  /\ buffer = [c \in Conns |-> 0]
  /\ send = [s \in Senders |-> "idle"]
  /\ endpoints = {}
  /\ closed = [c \in Conns |-> FALSE]
  /\ seen = [c \in Conns |-> {}]

\* Mutant: Run submits and returns, as execute/README.md:34 has it.
InRun_Never(c) == FALSE

\* The reader of c is inside an Executor.Run that has not returned.
InRun(c) ==
  \E j \in {ConnectJob(c), EofJob(c)} \cup DataJobs(c) : phase[j] = "waiting"

\* The reader of c is at place from and goes on to place to.
ReaderMoves(c, from, to) ==
  /\ reader[c] = from
  /\ ~InRun(c)
  /\ reader' = [reader EXCEPT ![c] = to]

-------------------------------------------------------------------------------
\* The peers, as far as the server can tell.
PeerConnects(c) ==
  /\ peer[c] = "none"
  /\ peer' = [peer EXCEPT ![c] = "open"]
  /\ UNCHANGED <<phase, sent, local, send, endpoints, closed, seen>>

PeerSends(c) ==
  /\ peer[c] = "open"
  /\ sent[c] < MaxChunks[c]
  /\ sent' = [sent EXCEPT ![c] = @ + 1]
  /\ UNCHANGED <<phase, peer, local, send, endpoints, closed, seen>>

PeerEnds(c, how) ==
  /\ peer[c] = "open"
  /\ peer' = [peer EXCEPT ![c] = how]
  /\ UNCHANGED <<phase, sent, local, send, endpoints, closed, seen>>

-------------------------------------------------------------------------------
\* serverImpl.Run: Accept, and Run blocks the loop until the job has a place.
Accept(c) ==
  /\ peer[c] # "none"
  /\ \A d \in Conns : phase[ReaderJob(d)] # "waiting"
  /\ Exec!Enqueue(ReaderJob(c))
  /\ UNCHANGED <<remote, local, send, endpoints, closed, seen>>

\* OnNewConnect up to RecvData: newEndpoint, endpointMap.Store, OnConnect.
NewEndpoint(c) ==
  /\ phase[ReaderJob(c)] = "running"
  /\ ReaderMoves(c, "new", "reading")
  /\ observer' = [observer EXCEPT ![c] = TRUE]
  /\ endpoints' = endpoints \cup {c}
  /\ Exec!Enqueue(ConnectJob(c))
  /\ UNCHANGED <<remote, pulled, taken, socket, buffer, send, closed, seen>>

Readable(c) == socket[c] = "open" /\ peer[c] # "reset"

\* reader.Read: what bufio holds, else what the socket has, up to all of it.
ReadChunk(c) ==
  /\ ReaderMoves(c, "reading", "read")
  /\ \/ /\ taken[c] < pulled[c]
        /\ UNCHANGED pulled
     \/ /\ taken[c] = pulled[c]
        /\ Readable(c)
        /\ \E n \in (pulled[c] + 1)..sent[c] : pulled' = [pulled EXCEPT ![c] = n]
  /\ taken' = [taken EXCEPT ![c] = @ + 1]
  /\ buffer' = [buffer EXCEPT ![c] = taken[c] + 1]
  /\ UNCHANGED <<phase, remote, socket, observer, send, endpoints, closed, seen>>

\* Mutant: EOF is treated as every other error.
ReadEof_Silent(c) ==
  /\ Readable(c) /\ peer[c] = "fin" /\ taken[c] = sent[c]
  /\ ReaderMoves(c, "reading", "closing")
  /\ UNCHANGED <<phase, remote, pulled, taken, socket, observer, buffer, send,
                 endpoints, closed, seen>>

ReadEof(c) ==
  /\ Readable(c) /\ peer[c] = "fin" /\ taken[c] = sent[c]
  /\ ReaderMoves(c, "reading", "eof")
  /\ UNCHANGED <<phase, remote, pulled, taken, socket, observer, buffer, send,
                 endpoints, closed, seen>>

\* Mutant: an error is logged and the loop goes on.
ReadFails_Continue(c) ==
  /\ ~Readable(c) /\ taken[c] = pulled[c]
  /\ ReaderMoves(c, "reading", "reading")
  /\ UNCHANGED <<phase, remote, pulled, taken, socket, observer, buffer, send,
                 endpoints, closed, seen>>

\* Any other error makes RecvData return at once.
ReadFails(c) ==
  /\ ~Readable(c) /\ taken[c] = pulled[c]
  /\ ReaderMoves(c, "reading", "closing")
  /\ UNCHANGED <<phase, remote, pulled, taken, socket, observer, buffer, send,
                 endpoints, closed, seen>>

\* if s.observer != nil, behind a Read and behind the loop.
CheckObserver(c) ==
  /\ \/ ReaderMoves(c, "read", IF observer[c] THEN "dispatch" ELSE "reading")
     \/ ReaderMoves(c, "eof", IF observer[c] THEN "goodbye" ELSE "closing")
  /\ UNCHANGED <<phase, remote, pulled, taken, socket, observer, buffer, send,
                 endpoints, closed, seen>>

\* s.observer.OnRecvData: observer is read again, or kept from the check.  The job
\* gets a slice of the buffer, not a copy.
Dispatch(c) ==
  /\ ReaderMoves(c, "dispatch", "reading")
  /\ Exec!Enqueue(DataJob(c, taken[c]))
  /\ UNCHANGED <<remote, pulled, taken, socket, observer, buffer, send, endpoints,
                 closed, seen>>

Goodbye(c) ==
  /\ ReaderMoves(c, "goodbye", "closing")
  /\ endpoints' = endpoints \ {c}
  /\ Exec!Enqueue(EofJob(c))
  /\ UNCHANGED <<remote, pulled, taken, socket, observer, buffer, send, closed, seen>>

\* The second read of observer finds nil: the reader panics and runs its defer.
NilObserver(c) ==
  /\ ~observer[c]
  /\ ReaderMoves(c, "dispatch", "closing") \/ ReaderMoves(c, "goodbye", "closing")
  /\ UNCHANGED <<phase, remote, pulled, taken, socket, observer, buffer, send,
                 endpoints, closed, seen>>

\* Mutant: only the connection is closed.
Closes_ConnOnly(c) ==
  /\ socket' = [socket EXCEPT ![c] = "closed"]
  /\ UNCHANGED observer

\* Close: observer = nil, then the connection.  Whoever runs between the two sees
\* what it sees when it looked at the connection just before.
Closes(c) ==
  /\ observer' = [observer EXCEPT ![c] = FALSE]
  /\ socket' = [socket EXCEPT ![c] = "closed"]

\* The deferred Close, and the job ends.
ReaderEnds(c) ==
  /\ ReaderMoves(c, "closing", "done")
  /\ Closes(c)
  /\ Exec!Leave(ReaderJob(c))
  /\ UNCHANGED <<remote, pulled, taken, buffer, send, endpoints, closed, seen>>

-------------------------------------------------------------------------------
\* The callback j is inside a SendData that failed, or in the Run that this one called.
InSend(j) ==
  /\ j.kind = "data"
  /\ send[j] \in {"failed", "goodbye"} \/ phase[FailJob(j)] = "waiting"

\* Mutant: a callback ends and keeps its place.
Callback_KeepsPlace(c, j) ==
  /\ phase[j] = "running" /\ ~InSend(j)
  /\ seen' = [seen EXCEPT ![c] = IF j.kind = "data" THEN @ \cup {<<j.n, buffer[c]>>} ELSE @]
  /\ UNCHANGED <<phase, remote, local, send, endpoints, closed>>

\* A callback of the observer ends, OnRecvData with or without having called SendData.
Callback(c, j) ==
  /\ Exec!Leave(j) /\ ~InSend(j)
  /\ seen' = [seen EXCEPT ![c] = IF j.kind = "data" THEN @ \cup {<<j.n, buffer[c]>>} ELSE @]
  /\ UNCHANGED <<remote, local, send, endpoints, closed>>

\* The user has the endpoint, from OnConnect on.
Known(c) == phase[ConnectJob(c)] \in {"running", "left"}

UserCloses(c) ==
  /\ c \in Kept /\ Known(c) /\ ~closed[c]
  /\ closed' = [closed EXCEPT ![c] = TRUE]
  /\ Closes(c)
  /\ UNCHANGED <<phase, remote, pulled, taken, reader, buffer, send, endpoints, seen>>

SendMoves(s, from, to) == send[s] = from /\ send' = [send EXCEPT ![s] = to]

\* SendData: the write fails.  One that succeeds changes nothing here.
SendFails(c, s) ==
  /\ IF s.kind = "data" THEN phase[s] = "running" ELSE Known(c)
  /\ socket[c] = "closed" \/ peer[c] # "open"
  /\ SendMoves(s, "idle", "failed")
  /\ UNCHANGED <<phase, remote, local, endpoints, closed, seen>>

SendChecks(c, s) ==
  /\ SendMoves(s, "failed", IF observer[c] THEN "goodbye" ELSE "over")
  /\ UNCHANGED <<phase, remote, local, endpoints, closed, seen>>

\* OnDisConnect: Run keeps whoever called SendData, and a callback keeps its place.
SendGoodbye(c, s) ==
  /\ SendMoves(s, "goodbye", "over")
  /\ endpoints' = endpoints \ {c}
  /\ Exec!Enqueue(FailJob(s))
  /\ UNCHANGED <<remote, local, closed, seen>>

\* The second read of observer finds nil.  The executor recovers what a callback
\* panics with; a user's goroutine is assumed to recover by itself, for Go ends the
\* program otherwise.
SendPanics(c, s) ==
  /\ ~observer[c]
  /\ SendMoves(s, "goodbye", "over")
  /\ UNCHANGED <<phase, remote, local, endpoints, closed, seen>>

-------------------------------------------------------------------------------
Occupy(j) ==
  /\ Exec!Occupy(j)
  /\ UNCHANGED <<remote, local, send, endpoints, closed, seen>>

Environment(c) ==
  \/ PeerConnects(c) \/ PeerSends(c) \/ PeerEnds(c, "fin") \/ PeerEnds(c, "reset")
  \/ UserCloses(c) \/ \E s \in SendersOf(c) : SendFails(c, s)

Reader(c) ==
  \/ NewEndpoint(c)
  \/ ReadChunk(c) \/ ReadEof(c) \/ ReadFails(c)
  \/ CheckObserver(c) \/ Dispatch(c) \/ Goodbye(c) \/ NilObserver(c)
  \/ ReaderEnds(c)

Sender(c) == \E s \in SendersOf(c) : SendChecks(c, s) \/ SendGoodbye(c, s) \/ SendPanics(c, s)

Callbacks(c) == \E j \in CallbackJobs(c) : Callback(c, j)

\* What the program does by itself.
Step ==
  \/ \E c \in Conns : Accept(c) \/ Reader(c) \/ Sender(c) \/ Callbacks(c)
  \/ \E j \in Jobs : Occupy(j)

Next == Step \/ \E c \in Conns : Environment(c)

\* What a callback does besides SendData ends, a write of SendData does (a peer that
\* is there and never reads could hold one up), and while some goroutine can run, some
\* goroutine does.  Nothing is assumed of peers and users, nor of which waiting job
\* gets a place.
Spec == Init /\ [][Next]_vars /\ WF_vars(Step)

-------------------------------------------------------------------------------
Submitted(j) == phase[j] # "new"
Started(j) == phase[j] \in {"running", "left"}

\* Although each callback runs in a goroutine of its own, the callbacks that the
\* reader of a connection submits get their places in order and without a gap: OnConnect,
\* OnRecvData of each piece, and OnDisConnect after the last piece (newEndpoint,
\* RecvData: Run returns only when the executor has taken the callback).  In which order
\* goroutines that have their places get on is nobody's promise.
StartedInOrder ==
  \A c \in Conns :
    /\ \A n \in 1..MaxChunks[c] :
         Submitted(DataJob(c, n)) =>
           /\ Started(ConnectJob(c))
           /\ \A m \in 1..(n - 1) : Started(DataJob(c, m))
    /\ Submitted(EofJob(c)) =>
         /\ Started(ConnectJob(c))
         /\ \A n \in 1..sent[c] : Started(DataJob(c, n))

\* The goroutines that found an observer and have not called it yet.
PastCheck(c) ==
  (IF reader[c] \in {"dispatch", "goodbye"} THEN {ReaderJob(c)} ELSE {})
    \cup {s \in SendersOf(c) : send[s] = "goodbye"}

CalledBack(c) == {j \in CallbackJobs(c) : Submitted(j)}

\* Behind a Close, the user's or the deferred one of OnNewConnect, nobody calls the
\* observer of that connection but who was past the check of endpointImpl.observer, and
\* that once: not the reader with what bufio still holds or at the end of the file, nor
\* callbacks and goroutines whose SendData fails on the closed socket (Close, RecvData,
\* SendData).
ClosedIsSilent ==
  [][\A c \in Conns :
       closed[c] \/ reader[c] = "done" =>
         /\ PastCheck(c)' \subseteq PastCheck(c)
         /\ CalledBack(c)' # CalledBack(c) => PastCheck(c)' # PastCheck(c)]_vars

\* What a peer sent before it closed its side is delivered, and then its departure,
\* unless the user closes the endpoint (RecvData).
Delivered ==
  \A c \in Conns :
    peer[c] = "fin" ~>
      \/ closed[c]
      \/ /\ phase[EofJob(c)] = "left"
         /\ \A n \in 1..sent[c] : phase[DataJob(c, n)] = "left"

\* No callback of a connection waits for ever for a place in the executor, which is
\* also what whoever announced it waits for (Run at tcp/endpoint.go:62, 73, 83), as
\* long as there are more places than readers and sending callbacks that can wait at once.
CallbackProgress ==
  \A c \in Conns :
    (\E j \in CallbackJobs(c) : phase[j] = "waiting")
      ~> (\A j \in CallbackJobs(c) : phase[j] # "waiting")

\* The place that a connection takes in the executor comes back when its peer goes
\* or the user closes it (OnNewConnect).
PlacesReturned ==
  \A c \in Conns :
    peer[c] \in {"fin", "reset"} \/ closed[c] ~> phase[ReaderJob(c)] = "left"

-------------------------------------------------------------------------------
\* What the code's documents and tests say and the code does not keep.

\* tcp_test.go:181 expects OnRecvData to find what was sent: the callback of the
\* n-th piece finds the n-th piece.  RecvData hands out its one buffer and reads on.
PayloadIntact == \A c \in Conns : \A p \in seen[c] : p[1] = p[2]

===============================================================================
