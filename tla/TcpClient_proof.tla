---------------------------- MODULE TcpClient_proof ----------------------------
(***************************************************************************)
(* However often the client of TcpClient reconnects, a reader closes its   *)
(* own connection and no other, and messages are whole on the wire, for    *)
(* any number of connections, places, messages and pieces of a message.    *)
(***************************************************************************)
EXTENDS TcpClient, Integers, SequenceTheorems, TLAPS

USE ClientAssumption

-------------------------------------------------------------------------------
TypeOK ==
  /\ phase \in [Conns -> {"new", "waiting", "running", "left"}]
  /\ peer \in [Conns -> {"none", "open", "fin", "reset"}]
  /\ socket \in [Conns -> {"open", "closed"}]
  /\ observer \in [Conns -> BOOLEAN]
  /\ reader \in [Conns -> {"reading", "eof", "goodbye", "callback", "closing", "done"}]
  /\ endpoint \in {0} \cup Conns
  /\ connect \in [Callers -> [at : {"none", "announced", "inRun"}, conn : {0} \cup Conns]]
  /\ user \in [at : {"idle", "sending", "failed", "goodbye", "callback", "over"},
               ep : {0} \cup Conns, offset : 0..(Size - 1)]
  /\ sends \in Nat
  /\ wire \in [Conns -> Seq(Nat)]
  /\ told \in [Conns -> Nat]
  /\ dropped \subseteq Conns

\* Whoever is in a Connect has a connection there, and is the user, or a reader in its
\* callback, and does nothing else meanwhile.
ConnectsInCallback ==
  \A g \in Callers : connect[g].at # "none" =>
    /\ connect[g].conn \in Conns
    /\ IF g = User THEN user.at \in {"idle", "callback"} ELSE reader[g] = "callback"

SendsToEndpoint == user.at # "idle" => user.ep \in Conns

\* Something more could be written to a connection.
Writable(c) == socket[c] = "open" /\ peer[c] # "reset"

\* Pieces of the message under way that a connection has.
Begun(c) == IF user.at = "sending" /\ user.ep = c THEN user.offset ELSE 0

\* A connection that takes more has some messages, and the beginning of the one under
\* way.  SentWhole alone does not say that a message begins where the last one ended.
WholeSoFar ==
  \A c \in Conns : Writable(c) =>
    \E k \in Nat : Len(wire[c]) = k * Size + Begun(c) /\ told[c] <= k

IInv ==
  TypeOK /\ ConnectsInCallback /\ SendsToEndpoint /\ ClosedByOwner /\ WholeSoFar /\ SentWhole

-------------------------------------------------------------------------------
LEMMA Remainder ==
  ASSUME NEW k \in Nat, NEW p \in 0..(Size - 1)
  PROVE  (k * Size + p) % Size = p
OBVIOUS

LEMMA OneMoreMessage ==
  ASSUME NEW k \in Nat
  PROVE  (k + 1) * Size = k * Size + Size /\ k * Size \in Nat
OBVIOUS

LEMMA FewerMessages ==
  ASSUME NEW k \in Nat, NEW m \in Nat, m <= k
  PROVE  m * Size <= k * Size
OBVIOUS

LEMMA InitEstablishes == Init => IInv
<1>. SUFFICES ASSUME Init PROVE IInv
  OBVIOUS
<1>1. TypeOK
  BY DEF Init, TypeOK, Exec!PoolInit, NotConnecting, Idle, Callers
<1>2. ConnectsInCallback /\ SendsToEndpoint /\ ClosedByOwner
  BY DEF Init, ConnectsInCallback, SendsToEndpoint, ClosedByOwner, NotConnecting, Idle
<1>3. WholeSoFar
  <2>. SUFFICES ASSUME NEW c \in Conns
                PROVE  Len(wire[c]) = 0 * Size + Begun(c) /\ told[c] <= 0
    BY DEF WholeSoFar
  <2>. QED BY DEF Init, Begun, Idle
<1>4. SentWhole
  BY DEF Init, SentWhole
<1>. QED BY <1>1, <1>2, <1>3, <1>4 DEF IInv

\* A step that writes nothing keeps messages whole where more may be written.
LEMMA NothingWritten ==
  ASSUME IInv, UNCHANGED <<wire, told>>,
         \A c \in Conns : Writable(c)' => Writable(c) /\ Begun(c)' = Begun(c)
  PROVE  WholeSoFar' /\ SentWhole'
BY DEF IInv, WholeSoFar, SentWhole

\* What a Write adds goes on where the message stopped.
LEMMA PiecesGoOn ==
  ASSUME IInv, Write
  PROVE  WholeSoFar' /\ SentWhole' /\ wire' \in [Conns -> Seq(Nat)] /\ told' \in [Conns -> Nat]
<1>1. PICK c \in Conns : c = user.ep /\ user.at = "sending" /\ Writable(c)
  BY DEF Write, IInv, SendsToEndpoint, Writable
<1>2. PICK n \in 1..(Size - user.offset) : Took(n, user.offset + n)
  BY DEF Write
<1>3. user.offset \in 0..(Size - 1) /\ n \in Nat \ {0} /\ user.offset + n <= Size
  BY DEF IInv, TypeOK
<1>4. PICK k \in Nat : Len(wire[c]) = k * Size + user.offset /\ told[c] <= k
  BY <1>1 DEF IInv, WholeSoFar, Begun
<1>5. PICK L \in Nat : L = k * Size
  BY OneMoreMessage
<1>. DEFINE more == Pieces(user.offset, user.offset + n)
<1>6. more \in Seq(Nat) /\ Len(more) = n /\ \A j \in 1..n : more[j] = user.offset + j
  BY <1>3 DEF Pieces
<1>7. wire' = [wire EXCEPT ![c] = wire[c] \o more]
  BY <1>1, <1>2 DEF Took
<1>. HIDE DEF more
<1>8. wire[c] \in Seq(Nat) /\ told[c] \in Nat
  BY <1>1 DEF IInv, TypeOK
<1>9. wire'[c] = wire[c] \o more
  BY <1>7 DEF IInv, TypeOK
<1>10. /\ wire'[c] \in Seq(Nat) /\ Len(wire'[c]) = Len(wire[c]) + n
       /\ \A i \in 1..(Len(wire[c]) + n) :
           wire'[c][i] = IF i <= Len(wire[c]) THEN wire[c][i] ELSE more[i - Len(wire[c])]
  <2>1. /\ wire[c] \o more \in Seq(Nat) /\ Len(wire[c] \o more) = Len(wire[c]) + Len(more)
        /\ \A i \in 1..(Len(wire[c]) + Len(more)) :
             (wire[c] \o more)[i] = IF i <= Len(wire[c]) THEN wire[c][i] ELSE more[i - Len(wire[c])]
    BY <1>6, <1>8, ConcatProperties
  <2>. QED BY <1>6, <1>9, <2>1
<1>11. wire' \in [Conns -> Seq(Nat)]
  BY <1>1, <1>7, <1>10 DEF IInv, TypeOK
<1>12. told' \in [Conns -> Nat] /\ told'[c] = IF user.offset + n = Size THEN told[c] + 1 ELSE told[c]
  <2>1. /\ told' = [told EXCEPT ![c] = IF user.offset + n = Size THEN told[c] + 1 ELSE told[c]]
        /\ told \in [Conns -> Nat]
    BY <1>1, <1>2 DEF Took, IInv, TypeOK
  <2>. QED BY <1>8, <2>1
<1>13. \A d \in Conns \ {c} : wire'[d] = wire[d] /\ told'[d] = told[d]
  <2>1. \A d \in Conns \ {c} : wire'[d] = wire[d]
    BY <1>7 DEF IInv, TypeOK
  <2>2. \A d \in Conns \ {c} : told'[d] = told[d]
    BY <1>1, <1>2 DEF Took, IInv, TypeOK
  <2>. QED BY <2>1, <2>2
<1>14. \E q \in Nat : Len(wire'[c]) = q * Size + Begun(c)' /\ told'[c] <= q
  <2>1. CASE user.offset + n = Size
    <3>1. Begun(c)' = 0
      BY <1>2, <2>1 DEF Took, Begun, Idle
    <3>2. Len(wire'[c]) = (k + 1) * Size + 0 /\ told'[c] <= k + 1
      <4>1. Len(wire'[c]) = Len(wire[c]) + n /\ told'[c] = told[c] + 1
        BY <1>10, <1>12, <2>1
      <4>2. Len(wire[c]) + n = k * Size + Size
        BY <1>3, <1>4, <1>5, <2>1, OneMoreMessage
      <4>3. (k + 1) * Size = k * Size + Size /\ k * Size + Size \in Nat
        BY OneMoreMessage
      <4>. QED BY <1>4, <1>8, <4>1, <4>2, <4>3
    <3>. QED BY <3>1, <3>2
  <2>2. CASE user.offset + n # Size
    <3>1. Begun(c)' = user.offset + n
      BY <1>1, <1>2, <2>2 DEF Took, Begun, IInv, TypeOK
    <3>2. Len(wire'[c]) = k * Size + (user.offset + n) /\ told'[c] <= k
      BY <1>3, <1>4, <1>5, <1>10, <1>12, <2>2
    <3>. QED BY <3>1, <3>2
  <2>. QED BY <2>1, <2>2
<1>15. WholeSoFar'
  <2>. SUFFICES ASSUME NEW d \in Conns, Writable(d)'
                PROVE  \E q \in Nat : Len(wire'[d]) = q * Size + Begun(d)' /\ told'[d] <= q
    BY DEF WholeSoFar
  <2>1. CASE d # c
    <3>1. Begun(d)' = 0 /\ Begun(d) = 0
      BY <1>1, <1>2, <2>1 DEF Took, Begun, Idle, IInv, TypeOK
    <3>2. Writable(d)
      BY DEF Write, conn, Writable
    <3>. QED BY <1>13, <2>1, <3>1, <3>2 DEF IInv, WholeSoFar
  <2>. QED BY <1>14, <2>1
<1>16. \A i \in 1..Len(wire'[c]) : wire'[c][i] = ((i - 1) % Size) + 1
  <2>. SUFFICES ASSUME NEW i \in 1..(Len(wire[c]) + n)
                PROVE  wire'[c][i] = ((i - 1) % Size) + 1
    BY <1>10
  <2>1. CASE i <= Len(wire[c])
    <3>1. i \in 1..Len(wire[c])
      BY <1>8, <2>1
    <3>2. wire[c][i] = ((i - 1) % Size) + 1
      BY <3>1 DEF IInv, SentWhole
    <3>. QED BY <1>10, <2>1, <3>2
  <2>2. CASE i > Len(wire[c])
    <3>1. PICK p \in 0..(Size - 1) : i - 1 = k * Size + p
      <4>1. i - 1 - L \in 0..(Size - 1)
        BY <1>3, <1>4, <1>5, <2>2
      <4>. QED BY <1>5, <4>1
    <3>2. (i - 1) % Size = p
      BY <3>1, Remainder
    <3>3. wire'[c][i] = user.offset + (i - Len(wire[c]))
      <4>1. i - Len(wire[c]) \in 1..n
        BY <1>8, <2>2
      <4>. QED BY <1>6, <1>10, <2>2, <4>1
    <3>. QED BY <1>3, <1>4, <1>5, <3>1, <3>2, <3>3
  <2>. QED BY <1>8, <2>1, <2>2
<1>17. Len(wire'[c]) >= told'[c] * Size
  <2>1. PICK q \in Nat : Len(wire'[c]) = q * Size + Begun(c)' /\ told'[c] <= q
    BY <1>14
  <2>2. Begun(c)' \in Nat
    BY <1>2, <1>3 DEF Took, Begun, Idle, IInv, TypeOK
  <2>3. told'[c] * Size <= q * Size /\ told'[c] * Size \in Nat /\ q * Size \in Nat
    BY <1>1, <1>12, <2>1, FewerMessages, OneMoreMessage
  <2>. QED BY <2>1, <2>2, <2>3
<1>18. SentWhole'
  <2>. SUFFICES ASSUME NEW d \in Conns
                PROVE  /\ Len(wire'[d]) >= told'[d] * Size
                       /\ \A i \in 1..Len(wire'[d]) : wire'[d][i] = ((i - 1) % Size) + 1
    BY DEF SentWhole
  <2>1. CASE d = c
    BY <1>16, <1>17, <2>1
  <2>2. CASE d # c
    BY <1>13, <2>2 DEF IInv, SentWhole
  <2>. QED BY <2>1, <2>2
<1>. QED BY <1>11, <1>12, <1>15, <1>18

-------------------------------------------------------------------------------
LEMMA StepKeeps ==
  ASSUME IInv, [Next]_vars
  PROVE  IInv'
<1>. USE DEF conn, sending
<1>1. CASE UNCHANGED vars
  <2>1. TypeOK'
    BY <1>1 DEF vars, IInv, TypeOK
  <2>2. ConnectsInCallback' /\ SendsToEndpoint'
    BY <1>1 DEF vars, IInv, TypeOK, ConnectsInCallback, SendsToEndpoint
  <2>3. ClosedByOwner'
    BY <1>1 DEF vars, IInv, TypeOK, ClosedByOwner
  <2>4. WholeSoFar' /\ SentWhole'
    BY <1>1, NothingWritten DEF vars, Writable, Begun, IInv, TypeOK
  <2>. QED BY <2>1, <2>2, <2>3, <2>4 DEF IInv
<1>2. ASSUME NEW c \in Conns, NEW how \in {"fin", "reset"}, PeerEnds(c, how)
      PROVE  IInv'
  <2>1. TypeOK'
    BY <1>2 DEF PeerEnds, IInv, TypeOK
  <2>2. ConnectsInCallback' /\ SendsToEndpoint'
    BY <1>2 DEF PeerEnds, IInv, TypeOK, ConnectsInCallback, SendsToEndpoint
  <2>3. ClosedByOwner'
    BY <1>2 DEF PeerEnds, IInv, TypeOK, ClosedByOwner
  <2>4. WholeSoFar' /\ SentWhole'
    BY <1>2, NothingWritten DEF PeerEnds, Writable, Begun, IInv, TypeOK
  <2>. QED BY <2>1, <2>2, <2>3, <2>4 DEF IInv
<1>3. ASSUME NEW g \in Callers, Dial(g)
      PROVE  IInv'
  <2>1. TypeOK'
    BY <1>3 DEF Dial, MayConnect, IInv, TypeOK, Callers, User
  <2>2. ConnectsInCallback' /\ SendsToEndpoint'
    BY <1>3 DEF Dial, MayConnect, IInv, TypeOK, ConnectsInCallback, SendsToEndpoint, Callers, User
  <2>3. ClosedByOwner'
    BY <1>3 DEF Dial, MayConnect, IInv, TypeOK, ClosedByOwner
  <2>4. WholeSoFar' /\ SentWhole'
    BY <1>3, NothingWritten DEF Dial, MayConnect, Writable, Begun, IInv, TypeOK
  <2>. QED BY <2>1, <2>2, <2>3, <2>4 DEF IInv
<1>4. ASSUME NEW g \in Callers, StoreEndpoint(g)
      PROVE  IInv'
  <2>1. TypeOK'
    <3>1. connect[g].conn \in Conns
      BY <1>4 DEF StoreEndpoint, IInv, ConnectsInCallback
    <3>2. connect' \in [Callers -> [at : {"none", "announced", "inRun"}, conn : {0} \cup Conns]]
      BY <1>4 DEF StoreEndpoint, IInv, TypeOK
    <3>3. phase' \in [Conns -> {"new", "waiting", "running", "left"}]
      BY <1>4, <3>1 DEF StoreEndpoint, Exec!Enqueue, Exec!Moves, IInv, TypeOK
    <3>. QED BY <1>4, <3>1, <3>2, <3>3 DEF StoreEndpoint, IInv, TypeOK
  <2>2. ConnectsInCallback' /\ SendsToEndpoint'
    BY <1>4 DEF StoreEndpoint, Exec!Enqueue, Exec!Moves, IInv, TypeOK, ConnectsInCallback, SendsToEndpoint
  <2>3. ClosedByOwner'
    BY <1>4 DEF StoreEndpoint, Exec!Enqueue, Exec!Moves, IInv, TypeOK, ClosedByOwner
  <2>4. WholeSoFar' /\ SentWhole'
    BY <1>4, NothingWritten DEF StoreEndpoint, Exec!Enqueue, Exec!Moves, Writable, Begun, IInv, TypeOK
  <2>. QED BY <2>1, <2>2, <2>3, <2>4 DEF IInv
<1>5. ASSUME NEW g \in Callers, ConnectReturns(g)
      PROVE  IInv'
  <2>1. TypeOK'
    BY <1>5 DEF ConnectReturns, BackFromCallback, IInv, TypeOK, NotConnecting, Idle, Callers, User
  <2>2. ConnectsInCallback' /\ SendsToEndpoint'
    BY <1>5 DEF ConnectReturns, BackFromCallback, IInv, TypeOK, ConnectsInCallback, SendsToEndpoint, NotConnecting, Idle, Callers, User
  <2>3. ClosedByOwner'
    BY <1>5 DEF ConnectReturns, BackFromCallback, IInv, TypeOK, ClosedByOwner, ConnectsInCallback
  <2>4. WholeSoFar' /\ SentWhole'
    BY <1>5, NothingWritten DEF ConnectReturns, BackFromCallback, Writable, Begun, IInv, TypeOK, ConnectsInCallback, NotConnecting, Idle, Callers, User
  <2>. QED BY <2>1, <2>2, <2>3, <2>4 DEF IInv
<1>6. ASSUME NEW g \in Callers, CallbackReturns(g)
      PROVE  IInv'
  <2>1. TypeOK'
    BY <1>6 DEF CallbackReturns, BackFromCallback, IInv, TypeOK, Idle, Callers, User
  <2>2. ConnectsInCallback' /\ SendsToEndpoint'
    BY <1>6 DEF CallbackReturns, BackFromCallback, IInv, TypeOK, ConnectsInCallback, SendsToEndpoint, Idle, Callers, User
  <2>3. ClosedByOwner'
    BY <1>6 DEF CallbackReturns, BackFromCallback, IInv, TypeOK, ClosedByOwner, ConnectsInCallback
  <2>4. WholeSoFar' /\ SentWhole'
    BY <1>6, NothingWritten DEF CallbackReturns, BackFromCallback, Writable, Begun, IInv, TypeOK, ConnectsInCallback, Idle, Callers, User
  <2>. QED BY <2>1, <2>2, <2>3, <2>4 DEF IInv
<1>7. ASSUME NEW c \in Conns, Occupy(c)
      PROVE  IInv'
  <2>1. TypeOK'
    BY <1>7 DEF Occupy, Exec!Occupy, Exec!Moves, IInv, TypeOK
  <2>2. ConnectsInCallback' /\ SendsToEndpoint'
    BY <1>7 DEF Occupy, Exec!Occupy, Exec!Moves, IInv, TypeOK, ConnectsInCallback, SendsToEndpoint
  <2>3. ClosedByOwner'
    BY <1>7 DEF Occupy, Exec!Occupy, Exec!Moves, IInv, TypeOK, ClosedByOwner
  <2>4. WholeSoFar' /\ SentWhole'
    BY <1>7, NothingWritten DEF Occupy, Exec!Occupy, Exec!Moves, Writable, Begun, IInv, TypeOK
  <2>. QED BY <2>1, <2>2, <2>3, <2>4 DEF IInv
<1>8. ASSUME NEW c \in Conns, ReadFails(c)
      PROVE  IInv'
  <2>1. TypeOK'
    BY <1>8 DEF ReadFails, ReaderMoves, Kept, IInv, TypeOK, Callers, User
  <2>2. ConnectsInCallback' /\ SendsToEndpoint'
    BY <1>8 DEF ReadFails, ReaderMoves, Kept, IInv, TypeOK, ConnectsInCallback, SendsToEndpoint, Callers, User
  <2>3. ClosedByOwner'
    BY <1>8 DEF ReadFails, ReaderMoves, Kept, IInv, TypeOK, ClosedByOwner
  <2>4. WholeSoFar' /\ SentWhole'
    BY <1>8, NothingWritten DEF ReadFails, ReaderMoves, Kept, Writable, Begun, IInv, TypeOK
  <2>. QED BY <2>1, <2>2, <2>3, <2>4 DEF IInv
<1>9. ASSUME NEW c \in Conns, ReadEof(c)
      PROVE  IInv'
  <2>1. TypeOK'
    BY <1>9 DEF ReadEof, ReaderMoves, Kept, IInv, TypeOK, Callers, User
  <2>2. ConnectsInCallback' /\ SendsToEndpoint'
    BY <1>9 DEF ReadEof, ReaderMoves, Kept, IInv, TypeOK, ConnectsInCallback, SendsToEndpoint, Callers, User
  <2>3. ClosedByOwner'
    BY <1>9 DEF ReadEof, ReaderMoves, Kept, IInv, TypeOK, ClosedByOwner
  <2>4. WholeSoFar' /\ SentWhole'
    BY <1>9, NothingWritten DEF ReadEof, ReaderMoves, Kept, Writable, Begun, IInv, TypeOK
  <2>. QED BY <2>1, <2>2, <2>3, <2>4 DEF IInv
<1>10. ASSUME NEW c \in Conns, CheckObserver(c)
      PROVE  IInv'
  <2>1. TypeOK'
    BY <1>10 DEF CheckObserver, ReaderMoves, Kept, IInv, TypeOK, Callers, User
  <2>2. ConnectsInCallback' /\ SendsToEndpoint'
    BY <1>10 DEF CheckObserver, ReaderMoves, Kept, IInv, TypeOK, ConnectsInCallback, SendsToEndpoint, Callers, User
  <2>3. ClosedByOwner'
    BY <1>10 DEF CheckObserver, ReaderMoves, Kept, IInv, TypeOK, ClosedByOwner
  <2>4. WholeSoFar' /\ SentWhole'
    BY <1>10, NothingWritten DEF CheckObserver, ReaderMoves, Kept, Writable, Begun, IInv, TypeOK
  <2>. QED BY <2>1, <2>2, <2>3, <2>4 DEF IInv
<1>11. ASSUME NEW c \in Conns, OnDisConnect(c)
      PROVE  IInv'
  <2>1. TypeOK'
    BY <1>11 DEF OnDisConnect, ReaderMoves, Kept, IInv, TypeOK, Callers, User
  <2>2. ConnectsInCallback' /\ SendsToEndpoint'
    BY <1>11 DEF OnDisConnect, ReaderMoves, Kept, IInv, TypeOK, ConnectsInCallback, SendsToEndpoint, Callers, User
  <2>3. ClosedByOwner'
    BY <1>11 DEF OnDisConnect, ReaderMoves, Kept, IInv, TypeOK, ClosedByOwner
  <2>4. WholeSoFar' /\ SentWhole'
    BY <1>11, NothingWritten DEF OnDisConnect, ReaderMoves, Kept, Writable, Begun, IInv, TypeOK
  <2>. QED BY <2>1, <2>2, <2>3, <2>4 DEF IInv
<1>12. ASSUME NEW c \in Conns, ReaderEnds(c)
      PROVE  IInv'
  <2>1. TypeOK'
    BY <1>12 DEF ReaderEnds, ReaderMoves, Closes, Exec!Leave, Exec!Moves, IInv, TypeOK, Callers, User
  <2>2. ConnectsInCallback' /\ SendsToEndpoint'
    BY <1>12 DEF ReaderEnds, ReaderMoves, Closes, Exec!Leave, Exec!Moves, IInv, TypeOK, ConnectsInCallback, SendsToEndpoint, Callers, User
  <2>3. ClosedByOwner'
    BY <1>12 DEF ReaderEnds, ReaderMoves, Closes, Exec!Leave, Exec!Moves, IInv, TypeOK, ClosedByOwner
  <2>4. WholeSoFar' /\ SentWhole'
    BY <1>12, NothingWritten DEF ReaderEnds, ReaderMoves, Closes, Exec!Leave, Exec!Moves, Writable, Begun, IInv, TypeOK
  <2>. QED BY <2>1, <2>2, <2>3, <2>4 DEF IInv
<1>13. CASE UserCloses
  <2>1. TypeOK'
    BY <1>13 DEF UserCloses, Closes, IInv, TypeOK
  <2>2. ConnectsInCallback' /\ SendsToEndpoint'
    BY <1>13 DEF UserCloses, Closes, IInv, TypeOK, ConnectsInCallback, SendsToEndpoint
  <2>3. ClosedByOwner'
    BY <1>13 DEF UserCloses, Closes, IInv, TypeOK, ClosedByOwner
  <2>4. WholeSoFar' /\ SentWhole'
    BY <1>13, NothingWritten DEF UserCloses, Closes, Writable, Begun, IInv, TypeOK
  <2>. QED BY <2>1, <2>2, <2>3, <2>4 DEF IInv
<1>14. CASE SendData
  <2>1. TypeOK'
    BY <1>14 DEF SendData, UserMoves, IInv, TypeOK, Callers, User
  <2>2. ConnectsInCallback' /\ SendsToEndpoint'
    BY <1>14 DEF SendData, UserMoves, IInv, TypeOK, ConnectsInCallback, SendsToEndpoint, Callers, User
  <2>3. ClosedByOwner'
    BY <1>14 DEF SendData, UserMoves, IInv, TypeOK, ClosedByOwner
  <2>4. WholeSoFar' /\ SentWhole'
    BY <1>14, NothingWritten DEF SendData, UserMoves, Writable, Begun, IInv, TypeOK
  <2>. QED BY <2>1, <2>2, <2>3, <2>4 DEF IInv
<1>15. CASE WriteFails
  <2>1. TypeOK'
    BY <1>15 DEF WriteFails, UserMoves, IInv, TypeOK, Callers, User
  <2>2. ConnectsInCallback' /\ SendsToEndpoint'
    BY <1>15 DEF WriteFails, UserMoves, IInv, TypeOK, ConnectsInCallback, SendsToEndpoint, Callers, User
  <2>3. ClosedByOwner'
    BY <1>15 DEF WriteFails, UserMoves, IInv, TypeOK, ClosedByOwner
  <2>4. WholeSoFar' /\ SentWhole'
    BY <1>15, NothingWritten DEF WriteFails, UserMoves, Writable, Begun, IInv, TypeOK
  <2>. QED BY <2>1, <2>2, <2>3, <2>4 DEF IInv
<1>16. CASE SenderChecks
  <2>1. /\ user.at \in {"failed", "goodbye"}
        /\ \/ user' = Idle
           \/ \E at \in {"goodbye", "callback", "over"} : user' = [user EXCEPT !.at = at]
        /\ UNCHANGED <<phase, conn, reader, endpoint, connect, sends, wire, told, dropped>>
    BY <1>16 DEF SenderChecks, UserMoves
  <2>2. user' \in [at : {"idle", "goodbye", "callback", "over"}, ep : {0} \cup Conns,
                   offset : 0..(Size - 1)]
    <3>1. Idle \in [at : {"idle"}, ep : {0} \cup Conns, offset : 0..(Size - 1)]
      BY DEF Idle
    <3>2. \A at \in {"goodbye", "callback", "over"} :
            [user EXCEPT !.at = at] \in [at : {"goodbye", "callback", "over"}, ep : {0} \cup Conns,
                                        offset : 0..(Size - 1)]
      BY DEF IInv, TypeOK
    <3>. QED BY <2>1, <3>1, <3>2
  <2>3. TypeOK'
    BY <2>1, <2>2 DEF IInv, TypeOK
  <2>4. connect[User].at = "none"
    BY <2>1 DEF IInv, ConnectsInCallback, Callers, TypeOK
  <2>5. ConnectsInCallback'
    BY <2>1, <2>4 DEF IInv, ConnectsInCallback
  <2>6. SendsToEndpoint'
    <3>1. user.ep \in Conns
      BY <2>1 DEF IInv, SendsToEndpoint
    <3>2. \A at \in {"goodbye", "callback", "over"} : [user EXCEPT !.at = at].ep = user.ep
      BY DEF IInv, TypeOK
    <3>3. CASE user' = Idle
      BY <3>3 DEF Idle, SendsToEndpoint
    <3>4. CASE \E at \in {"goodbye", "callback", "over"} : user' = [user EXCEPT !.at = at]
      <4>1. user'.ep = user.ep
        BY <3>2, <3>4
      <4>. QED BY <3>1, <4>1 DEF SendsToEndpoint
    <3>. QED BY <2>1, <3>3, <3>4
  <2>7. ClosedByOwner'
    BY <2>1 DEF IInv, ClosedByOwner
  <2>8. WholeSoFar' /\ SentWhole'
    BY <2>1, <2>2, NothingWritten DEF Writable, Begun
  <2>. QED BY <2>3, <2>5, <2>6, <2>7, <2>8 DEF IInv
<1>17. CASE Write
  <2>1. WholeSoFar' /\ SentWhole' /\ wire' \in [Conns -> Seq(Nat)] /\ told' \in [Conns -> Nat]
    BY <1>17, PiecesGoOn
  <2>2. TypeOK'
    <3>1. PICK n \in 1..(Size - user.offset) : Took(n, user.offset + n)
      BY <1>17 DEF Write
    <3>2. user.offset \in 0..(Size - 1) /\ user.offset + n \in 0..Size
      BY DEF IInv, TypeOK
    <3>3. user' = Idle \/ (user.offset + n # Size /\ user' = [user EXCEPT !.offset = user.offset + n])
      BY <3>1 DEF Took
    <3>4. user' \in [at : {"idle", "sending", "failed", "goodbye", "callback", "over"},
                     ep : {0} \cup Conns, offset : 0..(Size - 1)]
      BY <3>2, <3>3 DEF Idle, IInv, TypeOK
    <3>. QED BY <1>17, <2>1, <3>4 DEF Write, IInv, TypeOK
  <2>3. ConnectsInCallback' /\ SendsToEndpoint'
    BY <1>17 DEF Write, Took, Idle, IInv, TypeOK, ConnectsInCallback, SendsToEndpoint, Callers, User
  <2>4. ClosedByOwner'
    BY <1>17 DEF Write, IInv, ClosedByOwner
  <2>. QED BY <2>1, <2>2, <2>3, <2>4 DEF IInv
<1>. QED BY <1>1, <1>2, <1>3, <1>4, <1>5, <1>6, <1>7, <1>8, <1>9, <1>10, <1>11, <1>12, <1>13, <1>14, <1>15, <1>16, <1>17 DEF Next, Step, Environment

-------------------------------------------------------------------------------
LEMMA Invariance == Spec => []IInv
BY InitEstablishes, StepKeeps, PTL DEF Spec

\* Readers that end, Close and SendData meet different connections of one client, and a
\* connection is closed by its own reader or by the user who meant it (client.go:43-50).
THEOREM OwnersClose == Spec => []ClosedByOwner
<1>1. IInv => ClosedByOwner
  BY DEF IInv
<1>. QED BY <1>1, Invariance, PTL

\* Partial writes, failures and a Close in between never cut a message in the middle of
\* a connection, nor make SendData report one that was not sent (endpoint.go:114-128).
THEOREM MessagesStayWhole == Spec => []SentWhole
<1>1. IInv => SentWhole
  BY DEF IInv
<1>. QED BY <1>1, Invariance, PTL

===============================================================================
