------------------------- MODULE EndpointManager_proof -------------------------
(***************************************************************************)
(* On any executor, for any number of connections and of pieces, the       *)
(* callbacks that the reader of a connection of EndpointManager submits    *)
(* are started in order and without a gap, and behind a Close nobody calls *)
(* back but who was past the check of the observer.                        *)
(***************************************************************************)
EXTENDS EndpointManager, TLAPS

USE EndpointAssumption

-------------------------------------------------------------------------------
TypeOK ==
  /\ phase \in [Jobs -> {"new", "waiting", "running", "left"}]
  /\ peer \in [Conns -> {"none", "open", "fin", "reset"}]
  /\ sent \in [Conns -> Nat]
  /\ pulled \in [Conns -> Nat]
  /\ taken \in [Conns -> Nat]
  /\ socket \in [Conns -> {"open", "closed"}]
  /\ reader \in [Conns -> {"new", "reading", "read", "dispatch", "eof", "goodbye",
                           "closing", "done"}]
  /\ observer \in [Conns -> BOOLEAN]
  /\ send \in [Senders -> {"idle", "failed", "goodbye", "over"}]
  /\ closed \in [Conns -> BOOLEAN]

\* What a reader took was pulled from the socket, and the peer had sent that.
Counted ==
  \A c \in Conns :
    /\ taken[c] <= pulled[c] /\ pulled[c] <= sent[c] /\ sent[c] <= MaxChunks[c]
    /\ reader[c] = "new" => taken[c] = 0
    /\ reader[c] \in {"read", "dispatch"} => taken[c] >= 1

\* The pieces that the reader is through with.
Past(c) == 1..(IF reader[c] \in {"read", "dispatch"} THEN taken[c] - 1 ELSE taken[c])

\* The reader has submitted OnConnect when it reads, and nothing of a piece before it is
\* through with the one before.
Asked ==
  \A c \in Conns :
    /\ Submitted(ConnectJob(c)) <=> reader[c] # "new"
    /\ \A n \in 1..MaxChunks[c] : Submitted(DataJob(c, n)) => n \in Past(c)

\* While the observer is there, or was there when the reader looked, no piece was left
\* out: after Close the reader leaves pieces out, and then every later one.
NoGap ==
  \A c \in Conns :
    observer[c] \/ reader[c] \in {"dispatch", "goodbye"} =>
      \A n \in Past(c) : Submitted(DataJob(c, n))

\* At the end of the file the reader has all that the peer will ever have sent.
AtTheEnd ==
  \A c \in Conns :
    /\ reader[c] \in {"eof", "goodbye"} => peer[c] = "fin" /\ taken[c] = sent[c]
    /\ Submitted(EofJob(c)) => peer[c] = "fin" /\ reader[c] \in {"closing", "done"}

\* A connection that somebody closed has an endpoint, without an observer.
Silenced ==
  \A c \in Conns :
    /\ closed[c] => reader[c] # "new"
    /\ closed[c] \/ reader[c] = "done" => ~observer[c]

IInv ==
  /\ TypeOK
  /\ Counted /\ Asked /\ NoGap /\ AtTheEnd /\ Silenced
  /\ StartedInOrder

-------------------------------------------------------------------------------
\* The jobs of the connections, and what the executor does to them.

LEMMA JobsOf ==
  ASSUME NEW c \in Conns
  PROVE  /\ ReaderJob(c) \in Jobs /\ CallbackJobs(c) \subseteq Jobs
         /\ {ConnectJob(c), EofJob(c)} \subseteq CallbackJobs(c)
         /\ \A n \in 1..MaxChunks[c] : DataJob(c, n) \in CallbackJobs(c)
         /\ \A s \in SendersOf(c) : s \in Senders /\ FailJob(s) \in CallbackJobs(c)
BY DEF Jobs, CallbackJobs, DataJobs, Senders

LEMMA JobsDiffer ==
  ASSUME NEW c, NEW d, NEW n, NEW m, NEW s
  PROVE  /\ ConnectJob(c) = ConnectJob(d) => c = d
         /\ EofJob(c) = EofJob(d) => c = d
         /\ DataJob(c, n) = DataJob(d, m) => c = d /\ n = m
         /\ ConnectJob(c) \notin {EofJob(d), FailJob(s), DataJob(d, m), ReaderJob(d)}
         /\ EofJob(c) \notin {FailJob(s), DataJob(d, m), ReaderJob(d)}
         /\ FailJob(s) \notin {DataJob(d, m), ReaderJob(d)}
         /\ DataJob(c, n) # ReaderJob(d)
BY DEF ConnectJob, EofJob, FailJob, DataJob, ReaderJob, Job

\* A job belongs to one connection, and nobody who sends is a reader.
LEMMA JobsBelong ==
  ASSUME NEW c \in Conns
  PROVE  /\ \A j \in CallbackJobs(c) : j.conn = c
         /\ \A s \in SendersOf(c) : s.conn = c /\ s # ReaderJob(c)
         /\ ReaderJob(c).conn = c /\ ReaderJob(c) \notin CallbackJobs(c)
<1>1. \A s \in SendersOf(c) : s.conn = c /\ s # ReaderJob(c)
  BY DEF SendersOf, DataJobs, DataJob, UserOf, ReaderJob, Job
<1>2. \A j \in {ConnectJob(c), EofJob(c)} \cup DataJobs(c) : j.conn = c /\ j # ReaderJob(c)
  BY DEF DataJobs, DataJob, ConnectJob, EofJob, ReaderJob, Job
<1>3. \A s \in SendersOf(c) : FailJob(s).conn = c /\ FailJob(s) # ReaderJob(c)
  BY <1>1 DEF FailJob, ReaderJob, Job
<1>. QED BY <1>1, <1>2, <1>3 DEF CallbackJobs, ReaderJob, Job

LEMMA Enqueued ==
  ASSUME TypeOK, NEW j \in Jobs, Exec!Enqueue(j)
  PROVE  /\ phase' \in [Jobs -> {"new", "waiting", "running", "left"}]
         /\ \A k \in Jobs : /\ Submitted(k)' <=> Submitted(k) \/ k = j
                            /\ Started(k)' <=> Started(k)
BY DEF TypeOK, Exec!Enqueue, Exec!Moves, Submitted, Started

LEMMA WentOn ==
  ASSUME TypeOK, NEW j \in Jobs, Exec!Occupy(j) \/ Exec!Leave(j)
  PROVE  /\ phase' \in [Jobs -> {"new", "waiting", "running", "left"}]
         /\ \A k \in Jobs : /\ Submitted(k)' <=> Submitted(k)
                            /\ Started(k) => Started(k)'
BY DEF TypeOK, Exec!Occupy, Exec!Leave, Exec!Moves, Submitted, Started

LEMMA RunReturned ==
  ASSUME TypeOK, NEW c \in Conns, ~InRun(c)
  PROVE  /\ Submitted(ConnectJob(c)) => Started(ConnectJob(c))
         /\ \A n \in 1..MaxChunks[c] : Submitted(DataJob(c, n)) => Started(DataJob(c, n))
<1>1. phase[ConnectJob(c)] # "waiting" /\ \A j \in DataJobs(c) : phase[j] # "waiting"
  BY DEF InRun
<1>2. ConnectJob(c) \in Jobs /\ \A n \in 1..MaxChunks[c] : DataJob(c, n) \in Jobs
  BY JobsOf
<1>3. \A n \in 1..MaxChunks[c] : DataJob(c, n) \in DataJobs(c)
  BY DEF DataJobs
<1>4. \A j \in Jobs : phase[j] # "waiting" /\ Submitted(j) => Started(j)
  BY DEF TypeOK, Submitted, Started
<1>. QED BY <1>1, <1>2, <1>3, <1>4

\* A step of the executor alone.
LEMMA ExecutorKeeps ==
  ASSUME IInv, UNCHANGED <<remote, local, send, closed>>,
         phase' \in [Jobs -> {"new", "waiting", "running", "left"}],
         \A c \in Conns : \A j \in CallbackJobs(c) :
           /\ Submitted(j)' <=> Submitted(j)
           /\ Started(j) => Started(j)'
  PROVE  IInv'
<1>. USE JobsOf DEF remote, local, IInv
<1>1. TypeOK' /\ Counted'
  BY DEF TypeOK, Counted
<1>2. Asked'
  BY DEF Asked, Past
<1>3. NoGap'
  BY DEF NoGap, Past, TypeOK, Counted
<1>4. AtTheEnd' /\ Silenced'
  BY DEF AtTheEnd, Silenced
<1>5. StartedInOrder'
  BY DEF StartedInOrder, TypeOK, Counted
<1>. QED BY <1>1, <1>2, <1>3, <1>4, <1>5

-------------------------------------------------------------------------------
LEMMA InitEstablishes == Init => IInv
<1>. SUFFICES ASSUME Init PROVE IInv
  OBVIOUS
<1>1. TypeOK
  BY DEF Init, TypeOK, Exec!PoolInit
<1>2. \A j \in Jobs : ~Submitted(j)
  BY DEF Init, Exec!PoolInit, Submitted
<1>3. \A c \in Conns :
        /\ ~Submitted(ConnectJob(c)) /\ ~Submitted(EofJob(c))
        /\ \A n \in 1..MaxChunks[c] : ~Submitted(DataJob(c, n))
  BY <1>2, JobsOf
<1>4. Counted /\ Asked /\ NoGap /\ AtTheEnd /\ Silenced
  BY <1>3 DEF Init, Counted, Asked, NoGap, AtTheEnd, Silenced, Past
<1>5. StartedInOrder
  BY <1>3 DEF Init, StartedInOrder
<1>. QED BY <1>1, <1>4, <1>5 DEF IInv

LEMMA StepKeeps == IInv /\ [Next]_vars => IInv'
<1>. SUFFICES ASSUME IInv, [Next]_vars PROVE IInv'
  OBVIOUS
<1>. USE DEF IInv, remote, local
<1>1. CASE UNCHANGED vars
  BY <1>1, ExecutorKeeps DEF vars, TypeOK, Submitted, Started
<1>2. ASSUME NEW c \in Conns, PeerConnects(c)
      PROVE  IInv'
  <2>. USE <1>2 DEF PeerConnects
  <2>1. TypeOK' /\ Counted' /\ Asked'
    BY DEF TypeOK, Counted, Asked, Past, Submitted
  <2>2. NoGap' /\ AtTheEnd' /\ Silenced'
    BY DEF TypeOK, NoGap, AtTheEnd, Silenced, Past, Submitted
  <2>3. StartedInOrder'
    BY DEF StartedInOrder, Submitted, Started
  <2>. QED BY <2>1, <2>2, <2>3
<1>3. ASSUME NEW c \in Conns, PeerSends(c)
      PROVE  IInv'
  <2>. USE <1>3 DEF PeerSends
  <2>1. TypeOK' /\ Counted' /\ Asked'
    BY DEF TypeOK, Counted, Asked, Past, Submitted
  <2>2. NoGap' /\ AtTheEnd' /\ Silenced'
    BY DEF TypeOK, NoGap, AtTheEnd, Silenced, Past, Submitted
  <2>3. ~Submitted(EofJob(c))
    BY DEF AtTheEnd
  <2>4. StartedInOrder'
    BY <2>3 DEF TypeOK, StartedInOrder, Submitted, Started
  <2>. QED BY <2>1, <2>2, <2>4
<1>4. ASSUME NEW c \in Conns, PeerEnds(c, "fin") \/ PeerEnds(c, "reset")
      PROVE  IInv'
  <2>. USE <1>4 DEF PeerEnds
  <2>1. TypeOK' /\ Counted' /\ Asked'
    BY DEF TypeOK, Counted, Asked, Past, Submitted
  <2>2. NoGap' /\ AtTheEnd' /\ Silenced'
    BY DEF TypeOK, NoGap, AtTheEnd, Silenced, Past, Submitted
  <2>3. StartedInOrder'
    BY DEF StartedInOrder, Submitted, Started
  <2>. QED BY <2>1, <2>2, <2>3
<1>5. ASSUME NEW c \in Conns, Accept(c)
      PROVE  IInv'
  <2>1. /\ phase' \in [Jobs -> {"new", "waiting", "running", "left"}]
        /\ \A k \in Jobs : /\ Submitted(k)' <=> Submitted(k) \/ k = ReaderJob(c)
                           /\ Started(k)' <=> Started(k)
    BY <1>5, Enqueued, JobsOf DEF Accept
  <2>2. \A d \in Conns : ReaderJob(c) \notin CallbackJobs(d)
    BY JobsDiffer DEF CallbackJobs, DataJobs
  <2>. QED BY <1>5, <2>1, <2>2, JobsOf, ExecutorKeeps DEF Accept
<1>6. ASSUME NEW c \in Conns, NewEndpoint(c)
      PROVE  IInv'
  <2>. USE <1>6 DEF NewEndpoint, ReaderMoves
  <2>1. /\ phase' \in [Jobs -> {"new", "waiting", "running", "left"}]
        /\ \A k \in Jobs : /\ Submitted(k)' <=> Submitted(k) \/ k = ConnectJob(c)
                           /\ Started(k)' <=> Started(k)
    BY Enqueued, JobsOf
  <2>2. /\ \A d \in Conns : /\ Submitted(ConnectJob(d))' <=> Submitted(ConnectJob(d)) \/ d = c
                            /\ Started(ConnectJob(d))' <=> Started(ConnectJob(d))
        /\ \A d \in Conns : Submitted(EofJob(d))' <=> Submitted(EofJob(d))
        /\ \A d \in Conns : \A n \in 1..MaxChunks[d] :
             /\ Submitted(DataJob(d, n))' <=> Submitted(DataJob(d, n))
             /\ Started(DataJob(d, n))' <=> Started(DataJob(d, n))
    BY <2>1, JobsOf, JobsDiffer
  <2>3. TypeOK' /\ Counted'
    BY <2>1 DEF TypeOK, Counted
  <2>4. Asked' /\ NoGap'
    BY <2>2 DEF TypeOK, Counted, Asked, NoGap, Past
  <2>5. AtTheEnd' /\ Silenced'
    BY <2>2 DEF TypeOK, AtTheEnd, Silenced
  <2>7. StartedInOrder'
    BY <2>2 DEF TypeOK, Counted, StartedInOrder
  <2>. QED BY <2>3, <2>4, <2>5, <2>7
<1>7. ASSUME NEW c \in Conns, ReadChunk(c)
      PROVE  IInv'
  <2>. USE <1>7 DEF ReadChunk, ReaderMoves
  <2>1. TypeOK'
    BY DEF TypeOK
  <2>2. Counted'
    BY DEF TypeOK, Counted
  <2>3. Asked' /\ NoGap'
    BY DEF TypeOK, Counted, Asked, NoGap, Past, Submitted
  <2>4. AtTheEnd' /\ Silenced'
    BY DEF TypeOK, AtTheEnd, Silenced, Submitted
  <2>5. StartedInOrder'
    BY DEF TypeOK, StartedInOrder, Submitted, Started
  <2>. QED BY <2>1, <2>2, <2>3, <2>4, <2>5
<1>8. ASSUME NEW c \in Conns, ReadEof(c) \/ ReadFails(c) \/ CheckObserver(c) \/ NilObserver(c)
      PROVE  IInv'
  <2>. USE <1>8 DEF ReadEof, ReadFails, CheckObserver, NilObserver, ReaderMoves
  <2>1. TypeOK'
    BY DEF TypeOK
  <2>2. Counted'
    BY DEF TypeOK, Counted
  <2>3. Asked'
    BY DEF TypeOK, Counted, Asked, Past, Submitted
  <2>4. NoGap'
    BY DEF TypeOK, Counted, NoGap, Past, Submitted
  <2>5. AtTheEnd' /\ Silenced'
    BY DEF TypeOK, AtTheEnd, Silenced, Submitted
  <2>6. StartedInOrder'
    BY DEF TypeOK, StartedInOrder, Submitted, Started
  <2>. QED BY <2>1, <2>2, <2>3, <2>4, <2>5, <2>6
<1>9. ASSUME NEW c \in Conns, Dispatch(c)
      PROVE  IInv'
  <2>. USE <1>9 DEF Dispatch, ReaderMoves
  <2>1. taken[c] \in 1..MaxChunks[c] /\ Submitted(ConnectJob(c)) /\ ~Submitted(EofJob(c))
    BY DEF TypeOK, Counted, Asked, AtTheEnd
  <2>2. /\ phase' \in [Jobs -> {"new", "waiting", "running", "left"}]
        /\ \A k \in Jobs : /\ Submitted(k)' <=> Submitted(k) \/ k = DataJob(c, taken[c])
                           /\ Started(k)' <=> Started(k)
    BY <2>1, Enqueued, JobsOf
  <2>3. /\ \A d \in Conns : /\ Submitted(ConnectJob(d))' <=> Submitted(ConnectJob(d))
                            /\ Started(ConnectJob(d))' <=> Started(ConnectJob(d))
                            /\ Submitted(EofJob(d))' <=> Submitted(EofJob(d))
        /\ \A d \in Conns : \A n \in 1..MaxChunks[d] :
             /\ Submitted(DataJob(d, n))' <=> Submitted(DataJob(d, n)) \/ (d = c /\ n = taken[c])
             /\ Started(DataJob(d, n))' <=> Started(DataJob(d, n))
    <3>1. \A d \in Conns : \A n \in 1..MaxChunks[d] :
            DataJob(d, n) = DataJob(c, taken[c]) <=> d = c /\ n = taken[c]
      BY JobsDiffer
    <3>2. \A d \in Conns : DataJob(c, taken[c]) \notin {ConnectJob(d), EofJob(d)}
      BY JobsDiffer
    <3>3. \A d \in Conns : /\ {ConnectJob(d), EofJob(d)} \subseteq Jobs
                           /\ \A n \in 1..MaxChunks[d] : DataJob(d, n) \in Jobs
      BY JobsOf
    <3>4. \A d \in Conns : \A k \in {ConnectJob(d), EofJob(d)} :
            k \in Jobs /\ k # DataJob(c, taken[c])
      BY <3>2, <3>3
    <3>. QED BY <2>2, <3>1, <3>3, <3>4
  <2>4. TypeOK' /\ Counted'
    BY <2>2 DEF TypeOK, Counted
  <2>5. Asked'
    BY <2>1, <2>3 DEF TypeOK, Counted, Asked, Past
  <2>6. NoGap'
    <3>1. \A d \in Conns \ {c} : Past(d)' = Past(d)
      BY DEF TypeOK, Past
    <3>2. Past(c) = 1..(taken[c] - 1) /\ Past(c)' = 1..taken[c]
      BY DEF TypeOK, Past
    <3>3. \A n \in Past(c)' : n \in 1..MaxChunks[c] /\ (n = taken[c] \/ n \in Past(c))
      BY <2>1, <3>2 DEF TypeOK
    <3>4. \A d \in Conns : Past(d) \subseteq 1..MaxChunks[d]
      BY DEF TypeOK, Counted, Past
    <3>5. \A n \in Past(c) : Submitted(DataJob(c, n))
      BY DEF NoGap
    <3>6. \A n \in Past(c)' : Submitted(DataJob(c, n))'
      BY <2>3, <3>3, <3>5
    <3>7. ASSUME NEW d \in Conns \ {c}, (observer[d] \/ reader[d] \in {"dispatch", "goodbye"})',
                 NEW n \in Past(d)'
          PROVE  Submitted(DataJob(d, n))'
      <4>1. n \in Past(d) /\ n \in 1..MaxChunks[d]
        BY <3>1, <3>4, <3>7
      <4>2. observer[d] \/ reader[d] \in {"dispatch", "goodbye"}
        BY <3>7 DEF TypeOK
      <4>. QED BY <2>3, <4>1, <4>2 DEF NoGap
    <3>. QED BY <3>6, <3>7 DEF NoGap
  <2>7. AtTheEnd' /\ Silenced'
    BY <2>3 DEF TypeOK, AtTheEnd, Silenced
  <2>8. Started(ConnectJob(c)) /\ \A m \in 1..(taken[c] - 1) : Started(DataJob(c, m))
    <3>1. \A m \in 1..(taken[c] - 1) : Submitted(DataJob(c, m))
      BY DEF NoGap, Past
    <3>2. 1..(taken[c] - 1) \subseteq 1..MaxChunks[c]
      BY <2>1 DEF TypeOK
    <3>. QED BY <2>1, <3>1, <3>2, RunReturned
  <2>9. StartedInOrder'
    BY <2>1, <2>3, <2>8 DEF TypeOK, Counted, StartedInOrder
  <2>. QED BY <2>4, <2>5, <2>6, <2>7, <2>9
<1>10. ASSUME NEW c \in Conns, Goodbye(c)
       PROVE  IInv'
  <2>. USE <1>10 DEF Goodbye, ReaderMoves
  <2>1. Submitted(ConnectJob(c)) /\ peer[c] = "fin" /\ taken[c] = sent[c]
    BY DEF TypeOK, Asked, AtTheEnd
  <2>2. /\ phase' \in [Jobs -> {"new", "waiting", "running", "left"}]
        /\ \A k \in Jobs : /\ Submitted(k)' <=> Submitted(k) \/ k = EofJob(c)
                           /\ Started(k)' <=> Started(k)
    BY Enqueued, JobsOf
  <2>3. /\ \A d \in Conns : /\ Submitted(ConnectJob(d))' <=> Submitted(ConnectJob(d))
                            /\ Started(ConnectJob(d))' <=> Started(ConnectJob(d))
                            /\ Submitted(EofJob(d))' <=> Submitted(EofJob(d)) \/ d = c
        /\ \A d \in Conns : \A n \in 1..MaxChunks[d] :
             /\ Submitted(DataJob(d, n))' <=> Submitted(DataJob(d, n))
             /\ Started(DataJob(d, n))' <=> Started(DataJob(d, n))
    BY <2>2, JobsOf, JobsDiffer
  <2>4. TypeOK' /\ Counted'
    BY <2>2 DEF TypeOK, Counted
  <2>5. Asked' /\ NoGap'
    BY <2>3 DEF TypeOK, Counted, Asked, NoGap, Past
  <2>6. AtTheEnd' /\ Silenced'
    BY <2>1, <2>3 DEF TypeOK, AtTheEnd, Silenced
  <2>8. Started(ConnectJob(c)) /\ \A n \in 1..sent[c] : Started(DataJob(c, n))
    <3>1. \A n \in 1..sent[c] : Submitted(DataJob(c, n))
      BY <2>1 DEF NoGap, Past
    <3>2. 1..sent[c] \subseteq 1..MaxChunks[c]
      BY DEF TypeOK, Counted
    <3>. QED BY <2>1, <3>1, <3>2, RunReturned
  <2>9. StartedInOrder'
    BY <2>3, <2>8 DEF TypeOK, Counted, StartedInOrder
  <2>. QED BY <2>4, <2>5, <2>6, <2>9
<1>11. ASSUME NEW c \in Conns, ReaderEnds(c)
       PROVE  IInv'
  <2>1. /\ phase' \in [Jobs -> {"new", "waiting", "running", "left"}]
        /\ \A k \in Jobs : /\ Submitted(k)' <=> Submitted(k)
                           /\ Started(k) => Started(k)'
    BY <1>11, WentOn, JobsOf DEF ReaderEnds
  <2>. USE <1>11, JobsOf DEF ReaderEnds, ReaderMoves, Closes
  <2>2. TypeOK' /\ Counted'
    BY <2>1 DEF TypeOK, Counted
  <2>3. Asked' /\ NoGap'
    BY <2>1 DEF TypeOK, Counted, Asked, NoGap, Past
  <2>4. AtTheEnd' /\ Silenced'
    BY <2>1 DEF TypeOK, AtTheEnd, Silenced
  <2>5. StartedInOrder'
    BY <2>1 DEF TypeOK, Counted, StartedInOrder
  <2>. QED BY <2>2, <2>3, <2>4, <2>5
<1>12. ASSUME NEW c \in Conns, UserCloses(c)
       PROVE  IInv'
  <2>. USE <1>12 DEF UserCloses, Closes
  <2>1. TypeOK' /\ Counted'
    BY DEF TypeOK, Counted
  <2>2. Asked' /\ NoGap'
    BY DEF TypeOK, Counted, Asked, NoGap, Past, Submitted
  <2>3. AtTheEnd'
    BY DEF TypeOK, AtTheEnd, Submitted
  <2>4. reader[c] # "new"
    BY DEF Known, Asked, Submitted
  <2>5. Silenced'
    BY <2>4 DEF TypeOK, Silenced
  <2>6. StartedInOrder'
    BY DEF TypeOK, StartedInOrder, Submitted, Started
  <2>. QED BY <2>1, <2>2, <2>3, <2>5, <2>6
<1>13. ASSUME NEW c \in Conns, NEW s \in SendersOf(c),
              SendFails(c, s) \/ SendChecks(c, s) \/ SendPanics(c, s)
       PROVE  IInv'
  <2>. USE <1>13 DEF SendFails, SendChecks, SendPanics, SendMoves
  <2>1. TypeOK' /\ Counted'
    BY DEF TypeOK, Counted
  <2>2. Asked' /\ NoGap'
    BY DEF TypeOK, Asked, NoGap, Past, Submitted
  <2>3. AtTheEnd' /\ Silenced'
    BY DEF TypeOK, AtTheEnd, Silenced, Submitted
  <2>4. StartedInOrder'
    BY DEF TypeOK, StartedInOrder, Submitted, Started
  <2>. QED BY <2>1, <2>2, <2>3, <2>4
<1>14. ASSUME NEW c \in Conns, NEW s \in SendersOf(c), SendGoodbye(c, s)
       PROVE  IInv'
  <2>. USE <1>14 DEF SendGoodbye, SendMoves
  <2>1. /\ phase' \in [Jobs -> {"new", "waiting", "running", "left"}]
        /\ \A k \in Jobs : /\ Submitted(k)' <=> Submitted(k) \/ k = FailJob(s)
                           /\ Started(k)' <=> Started(k)
    BY Enqueued, JobsOf
  <2>2. /\ \A d \in Conns : /\ Submitted(ConnectJob(d))' <=> Submitted(ConnectJob(d))
                            /\ Started(ConnectJob(d))' <=> Started(ConnectJob(d))
                            /\ Submitted(EofJob(d))' <=> Submitted(EofJob(d))
        /\ \A d \in Conns : \A n \in 1..MaxChunks[d] :
             /\ Submitted(DataJob(d, n))' <=> Submitted(DataJob(d, n))
             /\ Started(DataJob(d, n))' <=> Started(DataJob(d, n))
    BY <2>1, JobsOf, JobsDiffer
  <2>3. TypeOK' /\ Counted'
    BY <2>1 DEF TypeOK, Counted
  <2>4. Asked' /\ NoGap'
    BY <2>2 DEF TypeOK, Counted, Asked, NoGap, Past
  <2>5. AtTheEnd' /\ Silenced'
    BY <2>2 DEF TypeOK, AtTheEnd, Silenced
  <2>6. StartedInOrder'
    BY <2>2 DEF TypeOK, Counted, StartedInOrder
  <2>. QED BY <2>3, <2>4, <2>5, <2>6
<1>15. ASSUME NEW c \in Conns, NEW j \in CallbackJobs(c), Callback(c, j)
       PROVE  IInv'
  BY <1>15, WentOn, JobsOf, ExecutorKeeps DEF Callback
<1>16. ASSUME NEW j \in Jobs, Occupy(j)
       PROVE  IInv'
  BY <1>16, WentOn, JobsOf, ExecutorKeeps DEF Occupy
<1>. QED
  BY <1>1, <1>2, <1>3, <1>4, <1>5, <1>6, <1>7, <1>8, <1>9, <1>10, <1>11, <1>12, <1>13, <1>14,
     <1>15, <1>16 DEF Next, Step, Environment, Reader, Sender, Callbacks

-------------------------------------------------------------------------------
\* The steps of a closed connection, for those past the check of its observer.

SilentStep(c) ==
  /\ PastCheck(c)' \subseteq PastCheck(c)
  /\ CalledBack(c)' # CalledBack(c) => PastCheck(c)' # PastCheck(c)

\* Nobody of the connection moves: its reader and its senders stay, and none of its
\* callbacks is submitted.
LEMMA NobodyMoves ==
  ASSUME NEW c \in Conns, reader'[c] = reader[c],
         \A s \in SendersOf(c) : send'[s] = send[s],
         \A j \in CallbackJobs(c) : Submitted(j)' <=> Submitted(j)
  PROVE  SilentStep(c)
BY DEF SilentStep, PastCheck, CalledBack

\* The reader moves, and submits something on its way out of PastCheck only.
LEMMA ReaderLeaves ==
  ASSUME NEW c \in Conns,
         reader'[c] \notin {"dispatch", "goodbye"},
         \/ reader[c] \in {"dispatch", "goodbye"}
         \/ \A j \in CallbackJobs(c) : Submitted(j)' <=> Submitted(j),
         send' = send
  PROVE  SilentStep(c)
<1>1. ReaderJob(c) \notin SendersOf(c)
  BY JobsBelong
<1>. QED BY <1>1 DEF SilentStep, PastCheck, CalledBack

\* So does a sender.
LEMMA SenderLeaves ==
  ASSUME TypeOK, NEW c \in Conns, NEW s \in SendersOf(c),
         reader' = reader,
         send' = [send EXCEPT ![s] = "over"],
         \/ send[s] = "goodbye"
         \/ \A j \in CallbackJobs(c) : Submitted(j)' <=> Submitted(j)
  PROVE  SilentStep(c)
<1>1. s \in Senders /\ s # ReaderJob(c) /\ SendersOf(c) \subseteq Senders
  BY JobsOf, JobsBelong
<1>2. send'[s] = "over" /\ \A t \in SendersOf(c) \ {s} : send'[t] = send[t]
  BY <1>1 DEF TypeOK
<1>3. PastCheck(c)' = PastCheck(c) \ {s}
  BY <1>1, <1>2 DEF PastCheck
<1>4. send[s] = "goodbye" => s \in PastCheck(c)
  BY DEF PastCheck
<1>5. send[s] = "goodbye" \/ CalledBack(c)' = CalledBack(c)
  BY DEF CalledBack
<1>. QED BY <1>3, <1>4, <1>5 DEF SilentStep

\* Whoever acts for another connection leaves this one alone.
LEMMA OthersApart ==
  ASSUME TypeOK, NEW c \in Conns, NEW d \in Conns \ {c}, UNCHANGED send,
         \E to : reader' = [reader EXCEPT ![d] = to],
         \/ \E j \in CallbackJobs(d) : Exec!Enqueue(j)
         \/ \A j \in Jobs : Submitted(j)' <=> Submitted(j)
  PROVE  SilentStep(c)
<1>1. \A j \in CallbackJobs(d) : j \in Jobs /\ j \notin CallbackJobs(c)
  BY JobsOf, JobsBelong
<1>2. \A j \in CallbackJobs(c) : Submitted(j)' <=> Submitted(j)
  BY <1>1, JobsOf, Enqueued
<1>3. reader'[c] = reader[c]
  BY DEF TypeOK
<1>. QED BY <1>2, <1>3, NobodyMoves

LEMMA ClosedStep ==
  ASSUME IInv, Next, NEW c \in Conns, closed[c] \/ reader[c] = "done"
  PROVE  SilentStep(c)
<1>. USE DEF IInv, remote, local
<1>1. ~observer[c] /\ reader[c] # "new"
  BY DEF Silenced
<1>2. CallbackJobs(c) \subseteq Jobs
  BY JobsOf
<1>3. ASSUME NEW d \in Conns, Environment(d)
      PROVE  SilentStep(c)
  <2>1. reader' = reader /\ phase' = phase
    BY <1>3 DEF Environment, PeerConnects, PeerSends, PeerEnds, UserCloses, SendFails
  <2>2. CASE send' = send
    BY <2>1, <2>2, NobodyMoves DEF Submitted
  <2>3. CASE \E s \in SendersOf(d) : SendMoves(s, "idle", "failed")
    <3>1. PICK s \in SendersOf(d) : SendMoves(s, "idle", "failed")
      BY <2>3
    <3>2. \A t \in SendersOf(c) : t \in Senders /\ (send'[t] = "goodbye" <=> send[t] = "goodbye")
      BY <3>1, JobsOf DEF SendMoves, TypeOK
    <3>. QED BY <2>1, <3>2 DEF SilentStep, PastCheck, CalledBack, Submitted
  <2>. QED
    BY <1>3, <2>2, <2>3 DEF Environment, PeerConnects, PeerSends, PeerEnds, UserCloses, SendFails
<1>4. ASSUME NEW d \in Conns, Accept(d)
      PROVE  SilentStep(c)
  <2>1. \A k \in Jobs : Submitted(k)' <=> Submitted(k) \/ k = ReaderJob(d)
    BY <1>4, Enqueued, JobsOf DEF Accept
  <2>2. ReaderJob(d) \notin CallbackJobs(c)
    BY JobsBelong
  <2>. QED BY <1>2, <1>4, <2>1, <2>2, NobodyMoves DEF Accept
<1>5. ASSUME NEW j \in Jobs, Occupy(j)
      PROVE  SilentStep(c)
  BY <1>2, <1>5, WentOn, NobodyMoves DEF Occupy
<1>6. ASSUME NEW d \in Conns, NEW j \in CallbackJobs(d), Callback(d, j)
      PROVE  SilentStep(c)
  BY <1>2, <1>6, WentOn, JobsOf, NobodyMoves DEF Callback
<1>7. ASSUME NEW d \in Conns, Reader(d)
      PROVE  SilentStep(c)
  <2>1. /\ UNCHANGED send
        /\ \E from, to : ReaderMoves(d, from, to)
    BY <1>7 DEF Reader, NewEndpoint, ReadChunk, ReadEof, ReadFails, CheckObserver, Dispatch,
                Goodbye, NilObserver, ReaderEnds
  <2>2. \E to : reader' = [reader EXCEPT ![d] = to]
    BY <2>1 DEF ReaderMoves
  <2>3. \/ \E j \in CallbackJobs(d) : Exec!Enqueue(j)
        \/ \A j \in Jobs : Submitted(j)' <=> Submitted(j)
    <3>1. CASE NewEndpoint(d)
      BY <3>1, JobsOf DEF NewEndpoint
    <3>2. CASE ReadChunk(d) \/ ReadEof(d) \/ ReadFails(d) \/ CheckObserver(d) \/ NilObserver(d)
      BY <3>2 DEF ReadChunk, ReadEof, ReadFails, CheckObserver, NilObserver, Submitted
    <3>3. CASE Dispatch(d)
      <4>1. taken[d] \in 1..MaxChunks[d]
        BY <3>3 DEF Dispatch, ReaderMoves, TypeOK, Counted
      <4>. QED BY <3>3, <4>1, JobsOf DEF Dispatch
    <3>4. CASE Goodbye(d)
      BY <3>4, JobsOf DEF Goodbye
    <3>5. CASE ReaderEnds(d)
      BY <3>5, WentOn, JobsOf DEF ReaderEnds
    <3>. QED BY <1>7, <3>1, <3>2, <3>3, <3>4, <3>5 DEF Reader
  <2>4. CASE d # c
    BY <2>1, <2>2, <2>3, <2>4, OthersApart
  <2>5. CASE d = c
    <3>1. ~NewEndpoint(c)
      BY <1>1 DEF NewEndpoint, ReaderMoves
    <3>2. reader'[c] \notin {"dispatch", "goodbye"}
      BY <1>1, <1>7, <2>5, <3>1 DEF Reader, ReadChunk, ReadEof, ReadFails, CheckObserver,
           Dispatch, Goodbye, NilObserver, ReaderEnds, ReaderMoves, TypeOK
    <3>3. \/ reader[c] \in {"dispatch", "goodbye"}
          \/ \A j \in CallbackJobs(c) : Submitted(j)' <=> Submitted(j)
      <4>1. CASE Dispatch(c) \/ Goodbye(c)
        BY <4>1 DEF Dispatch, Goodbye, ReaderMoves
      <4>2. CASE ReadChunk(c) \/ ReadEof(c) \/ ReadFails(c) \/ CheckObserver(c) \/ NilObserver(c)
        BY <4>2 DEF ReadChunk, ReadEof, ReadFails, CheckObserver, NilObserver, Submitted
      <4>3. CASE ReaderEnds(c)
        BY <1>2, <4>3, WentOn, JobsOf DEF ReaderEnds
      <4>. QED BY <1>7, <2>5, <3>1, <4>1, <4>2, <4>3 DEF Reader
    <3>. QED BY <2>1, <3>2, <3>3, ReaderLeaves
  <2>. QED BY <2>4, <2>5
<1>8. ASSUME NEW d \in Conns, NEW s \in SendersOf(d),
             SendChecks(d, s) \/ SendGoodbye(d, s) \/ SendPanics(d, s)
      PROVE  SilentStep(c)
  <2>1. reader' = reader
    BY <1>8 DEF SendChecks, SendGoodbye, SendPanics
  <2>2. CASE d # c
    <3>1. s \in Senders /\ s \notin SendersOf(c) /\ SendersOf(c) \subseteq Senders
      BY <2>2, JobsOf, JobsBelong
    <3>2. \A t \in SendersOf(c) : send'[t] = send[t]
      BY <1>8, <3>1 DEF SendChecks, SendGoodbye, SendPanics, SendMoves, TypeOK
    <3>3. FailJob(s) \in Jobs /\ FailJob(s) \notin CallbackJobs(c)
      BY <2>2, JobsOf, JobsBelong
    <3>4. \A j \in CallbackJobs(c) : Submitted(j)' <=> Submitted(j)
      <4>1. CASE SendGoodbye(d, s)
        BY <1>2, <3>3, <4>1, Enqueued DEF SendGoodbye
      <4>2. CASE SendChecks(d, s) \/ SendPanics(d, s)
        BY <4>2 DEF SendChecks, SendPanics, Submitted
      <4>. QED BY <1>8, <4>1, <4>2
    <3>. QED BY <2>1, <3>2, <3>4, NobodyMoves
  <2>3. CASE d = c
    <3>1. send' = [send EXCEPT ![s] = "over"]
      BY <1>1, <1>8, <2>3 DEF SendChecks, SendGoodbye, SendPanics, SendMoves
    <3>2. \/ send[s] = "goodbye"
          \/ \A j \in CallbackJobs(c) : Submitted(j)' <=> Submitted(j)
      BY <1>8, <2>3 DEF SendChecks, SendGoodbye, SendPanics, SendMoves, Submitted
    <3>. QED BY <2>1, <2>3, <3>1, <3>2, SenderLeaves
  <2>. QED BY <2>2, <2>3
<1>. QED
  BY <1>3, <1>4, <1>5, <1>6, <1>7, <1>8 DEF Next, Step, Sender, Callbacks

-------------------------------------------------------------------------------
LEMMA Invariance == Spec => []IInv
BY InitEstablishes, StepKeeps, PTL DEF Spec

\* OnConnect, OnRecvData of each piece and OnDisConnect are started in the order in which
\* the reader met them, whatever the executor's capacity and whenever the user closes
\* the endpoint (tcp/endpoint.go:58-86, 130-170).
THEOREM CallbacksInOrder == Spec => []StartedInOrder
<1>1. IInv => StartedInOrder
  BY DEF IInv
<1>. QED BY <1>1, Invariance, PTL

\* Whatever the executor's capacity and however many goroutines send, a Close of an
\* endpoint, the user's or the deferred one of OnNewConnect, leaves those to call the
\* observer once who had found it, and nobody else (tcp/endpoint.go:107-135, 149-170).
THEOREM CloseSilences == Spec => ClosedIsSilent
<1>1. IInv /\ [Next]_vars =>
        [\A c \in Conns : closed[c] \/ reader[c] = "done" => SilentStep(c)]_vars
  BY ClosedStep
<1>. QED BY <1>1, Invariance, PTL DEF Spec, ClosedIsSilent, SilentStep

===============================================================================
