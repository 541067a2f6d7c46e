---------------------------- MODULE SseClient_proof ----------------------------
(***************************************************************************)
(* The sink gets the events in order and a call makes a bounded number of  *)
(* attempts, for any number of events, any choice of those that have an    *)
(* id, any number of retries and any number of calls.                      *)
(***************************************************************************)
EXTENDS SseClient, SequenceTheorems, TLAPS

USE ClientAssumption

\* The id that the client should remember behind event n, or see in it.
IdOf(n) == IF n \in WithId THEN n ELSE NoId

\* The last event that was delivered, 0 for none.
LastOne == IF delivered = <<>> THEN 0 ELSE delivered[Len(delivered)]

Places == {"loop", "attempt", "do", "read", "blocked", "failed", "retry", "returned"}
Reading == {"read", "blocked"}

\* retryCount goes up in twos, so that it is never 1.
TypeOK ==
  /\ pc \in Places
  /\ calls \in Nat
  /\ retryCount \in {0} \cup 2..(MaxRetries + 1)
  /\ lastEventID \in Nat
  /\ currentEvent \in [id : Nat, data : BOOLEAN]
  /\ next \in Nat \ {0}
  /\ line \in {"id", "data", "blank"}
  /\ attempts \in Nat
  /\ delivered \in Seq(Nat)

\* Two on the counter pay for one attempt; the first one, and no other, is free.
AttemptsCounted ==
  /\ 2 * attempts <= retryCount + 2
  /\ pc \in {"loop", "attempt"} => 2 * attempts <= retryCount

\* What the client remembers is the id of the event delivered last.
RemembersLast == lastEventID = IdOf(LastOne)

\* While it reads, the server is behind that event, or at the first one when the
\* client could not name it, and of the event under way the client has what the lines
\* before the next one said.
ReadsOn ==
  pc \in Reading =>
    /\ next = LastOne + 1 \/ (next = 1 /\ LastOne \notin WithId)
    /\ line = "id" => next \in WithId
    /\ currentEvent.id = IF line = "id" THEN NoId ELSE IdOf(next)
    /\ currentEvent.data <=> line = "blank"

IInv == TypeOK /\ AttemptsCounted /\ RemembersLast /\ ReadsOn /\ EventsInOrder

-------------------------------------------------------------------------------
LEMMA InitEstablishes == Init => IInv
BY DEF Init, IInv, TypeOK, Places, AttemptsCounted, RemembersLast, LastOne, IdOf, NoId, ReadsOn,
       Reading, EventsInOrder, NoEvent, FirstLine

\* What the sink was given does not change but behind a blank line.
LEMMA SinkUntouched ==
  ASSUME IInv, UNCHANGED <<lastEventID, delivered>>
  PROVE  RemembersLast' /\ EventsInOrder' /\ LastOne' = LastOne
BY DEF IInv, RemembersLast, EventsInOrder, LastOne, IdOf

\* An event that ends is one more in order, or the first once more.
LEMMA OneMoreInOrder ==
  ASSUME IInv, pc = "blocked", delivered' = Append(delivered, next)
  PROVE  EventsInOrder' /\ LastOne' = next /\ delivered' \in Seq(Nat)
<1>1. /\ delivered' \in Seq(Nat) /\ Len(delivered') = Len(delivered) + 1
      /\ delivered'[Len(delivered) + 1] = next
      /\ \A i \in 1..Len(delivered) : delivered'[i] = delivered[i]
  BY AppendProperties DEF IInv, TypeOK
<1>2. LastOne' = next
  BY <1>1 DEF LastOne
<1>3. LastOne = IF Len(delivered) = 0 THEN 0 ELSE delivered[Len(delivered)]
  BY EmptySeq DEF LastOne, IInv, TypeOK
<1>4. Len(delivered) \in Nat
  BY DEF IInv, TypeOK
<1>5. next = LastOne + 1 \/ (next = 1 /\ LastOne \notin WithId)
  BY DEF IInv, ReadsOn, Reading
<1>6. SUFFICES ASSUME NEW i \in 1..(Len(delivered) + 1)
               PROVE  \/ delivered'[i] = IF i = 1 THEN 1 ELSE delivered'[i - 1] + 1
                      \/ i > 1 /\ delivered'[i] = 1 /\ delivered'[i - 1] \notin WithId
  BY <1>1, <1>2 DEF EventsInOrder
<1>7. CASE i = Len(delivered) + 1
  BY <1>1, <1>3, <1>4, <1>5, <1>7
<1>8. CASE i <= Len(delivered)
  <2>1. i > 1 => i - 1 \in 1..Len(delivered)
    BY <1>4, <1>8
  <2>. QED BY <1>1, <1>4, <1>8, <2>1 DEF IInv, EventsInOrder
<1>. QED BY <1>4, <1>7, <1>8

LEMMA StepKeeps ==
  ASSUME IInv, [Next]_vars
  PROVE  IInv'
<1>. USE DEF Goes, Returns, client, server, history, TypeOK, Places
<1>1. CASE UNCHANGED vars
  BY <1>1, SinkUntouched DEF vars, IInv, AttemptsCounted, ReadsOn, Reading, IdOf
<1>2. CASE Loop
  <2>1. RemembersLast' /\ EventsInOrder' /\ LastOne' = LastOne
    BY <1>2, SinkUntouched DEF Loop
  <2>2. TypeOK'
    BY <1>2 DEF Loop, IInv
  <2>3. AttemptsCounted'
    BY <1>2 DEF Loop, IInv, AttemptsCounted
  <2>4. ReadsOn'
    BY <1>2, <2>1 DEF Loop, IInv, ReadsOn, Reading, IdOf
  <2>. QED BY <2>1, <2>2, <2>3, <2>4 DEF IInv
<1>3. CASE Attempt
  <2>1. RemembersLast' /\ EventsInOrder' /\ LastOne' = LastOne
    BY <1>3, SinkUntouched DEF Attempt
  <2>2. TypeOK'
    BY <1>3 DEF Attempt, IInv
  <2>3. AttemptsCounted'
    BY <1>3 DEF Attempt, IInv, AttemptsCounted
  <2>4. ReadsOn'
    BY <1>3, <2>1 DEF Attempt, IInv, ReadsOn, Reading, IdOf
  <2>. QED BY <2>1, <2>2, <2>3, <2>4 DEF IInv
<1>4. CASE Do
  <2>1. RemembersLast' /\ EventsInOrder' /\ LastOne' = LastOne
    BY <1>4, SinkUntouched DEF Do
  <2>2. TypeOK'
    BY <1>4 DEF Do, IInv, FirstLine, NoEvent, NoId
  <2>3. AttemptsCounted'
    BY <1>4 DEF Do, IInv, AttemptsCounted
  <2>4. ReadsOn'
    BY <1>4, <2>1 DEF Do, IInv, ReadsOn, Reading, IdOf, FirstLine, NoEvent, NoId, RemembersLast
  <2>. QED BY <2>1, <2>2, <2>3, <2>4 DEF IInv
<1>5. CASE DoFails
  <2>1. RemembersLast' /\ EventsInOrder' /\ LastOne' = LastOne
    BY <1>5, SinkUntouched DEF DoFails
  <2>2. TypeOK'
    BY <1>5 DEF DoFails, IInv
  <2>3. AttemptsCounted'
    BY <1>5 DEF DoFails, IInv, AttemptsCounted
  <2>4. ReadsOn'
    BY <1>5, <2>1 DEF DoFails, IInv, ReadsOn, Reading, IdOf
  <2>. QED BY <2>1, <2>2, <2>3, <2>4 DEF IInv
<1>6. CASE Select
  <2>1. RemembersLast' /\ EventsInOrder' /\ LastOne' = LastOne
    BY <1>6, SinkUntouched DEF Select
  <2>2. TypeOK'
    BY <1>6 DEF Select, IInv
  <2>3. AttemptsCounted'
    BY <1>6 DEF Select, IInv, AttemptsCounted
  <2>4. ReadsOn'
    BY <1>6, <2>1 DEF Select, IInv, ReadsOn, Reading, IdOf
  <2>. QED BY <2>1, <2>2, <2>3, <2>4 DEF IInv
<1>7. CASE ReadId
  <2>1. RemembersLast' /\ EventsInOrder' /\ LastOne' = LastOne
    BY <1>7, SinkUntouched DEF ReadId, ReadLine
  <2>2. TypeOK'
    BY <1>7 DEF ReadId, IInv, ReadLine
  <2>3. AttemptsCounted'
    BY <1>7 DEF ReadId, IInv, AttemptsCounted, ReadLine
  <2>4. ReadsOn'
    BY <1>7, <2>1 DEF ReadId, IInv, ReadsOn, Reading, IdOf, ReadLine
  <2>. QED BY <2>1, <2>2, <2>3, <2>4 DEF IInv
<1>8. CASE ReadData
  <2>1. RemembersLast' /\ EventsInOrder' /\ LastOne' = LastOne
    BY <1>8, SinkUntouched DEF ReadData, ReadLine
  <2>2. TypeOK'
    BY <1>8 DEF ReadData, IInv, ReadLine
  <2>3. AttemptsCounted'
    BY <1>8 DEF ReadData, IInv, AttemptsCounted, ReadLine
  <2>4. ReadsOn'
    BY <1>8, <2>1 DEF ReadData, IInv, ReadsOn, Reading, IdOf, ReadLine
  <2>. QED BY <2>1, <2>2, <2>3, <2>4 DEF IInv
<1>9. CASE ReadEof
  <2>1. RemembersLast' /\ EventsInOrder' /\ LastOne' = LastOne
    BY <1>9, SinkUntouched DEF ReadEof
  <2>2. TypeOK'
    BY <1>9 DEF ReadEof, IInv
  <2>3. AttemptsCounted'
    BY <1>9 DEF ReadEof, IInv, AttemptsCounted
  <2>4. ReadsOn'
    BY <1>9, <2>1 DEF ReadEof, IInv, ReadsOn, Reading, IdOf
  <2>. QED BY <2>1, <2>2, <2>3, <2>4 DEF IInv
<1>10. CASE ReadFails
  <2>1. RemembersLast' /\ EventsInOrder' /\ LastOne' = LastOne
    BY <1>10, SinkUntouched DEF ReadFails
  <2>2. TypeOK'
    BY <1>10 DEF ReadFails, IInv
  <2>3. AttemptsCounted'
    BY <1>10 DEF ReadFails, IInv, AttemptsCounted
  <2>4. ReadsOn'
    BY <1>10, <2>1 DEF ReadFails, IInv, ReadsOn, Reading, IdOf
  <2>. QED BY <2>1, <2>2, <2>3, <2>4 DEF IInv
<1>11. CASE Cleanup
  <2>1. RemembersLast' /\ EventsInOrder' /\ LastOne' = LastOne
    BY <1>11, SinkUntouched DEF Cleanup
  <2>2. TypeOK'
    BY <1>11 DEF Cleanup, IInv
  <2>3. AttemptsCounted'
    BY <1>11 DEF Cleanup, IInv, AttemptsCounted
  <2>4. ReadsOn'
    BY <1>11, <2>1 DEF Cleanup, IInv, ReadsOn, Reading, IdOf
  <2>. QED BY <2>1, <2>2, <2>3, <2>4 DEF IInv
<1>12. CASE Retry
  <2>1. RemembersLast' /\ EventsInOrder' /\ LastOne' = LastOne
    BY <1>12, SinkUntouched DEF Retry
  <2>2. TypeOK'
    BY <1>12 DEF Retry, IInv
  <2>3. AttemptsCounted'
    BY <1>12 DEF Retry, IInv, AttemptsCounted
  <2>4. ReadsOn'
    BY <1>12, <2>1 DEF Retry, IInv, ReadsOn, Reading, IdOf
  <2>. QED BY <2>1, <2>2, <2>3, <2>4 DEF IInv
<1>13. CASE GiveUp
  <2>1. RemembersLast' /\ EventsInOrder' /\ LastOne' = LastOne
    BY <1>13, SinkUntouched DEF GiveUp
  <2>2. TypeOK'
    BY <1>13 DEF GiveUp, IInv
  <2>3. AttemptsCounted'
    BY <1>13 DEF GiveUp, IInv, AttemptsCounted
  <2>4. ReadsOn'
    BY <1>13, <2>1 DEF GiveUp, IInv, ReadsOn, Reading, IdOf
  <2>. QED BY <2>1, <2>2, <2>3, <2>4 DEF IInv
<1>14. CASE CallAgain
  <2>1. RemembersLast' /\ EventsInOrder' /\ LastOne' = LastOne
    BY <1>14, SinkUntouched DEF CallAgain
  <2>2. TypeOK'
    BY <1>14 DEF CallAgain, IInv
  <2>3. AttemptsCounted'
    BY <1>14 DEF CallAgain, IInv, AttemptsCounted
  <2>4. ReadsOn'
    BY <1>14, <2>1 DEF CallAgain, IInv, ReadsOn, Reading, IdOf
  <2>. QED BY <2>1, <2>2, <2>3, <2>4 DEF IInv
<1>15. CASE Close
  <2>1. RemembersLast' /\ EventsInOrder' /\ LastOne' = LastOne
    BY <1>15, SinkUntouched DEF Close
  <2>2. TypeOK'
    BY <1>15 DEF Close, IInv
  <2>3. AttemptsCounted'
    BY <1>15 DEF Close, IInv, AttemptsCounted
  <2>4. ReadsOn'
    BY <1>15, <2>1 DEF Close, IInv, ReadsOn, Reading, IdOf
  <2>. QED BY <2>1, <2>2, <2>3, <2>4 DEF IInv
<1>16. CASE Cancel
  <2>1. RemembersLast' /\ EventsInOrder' /\ LastOne' = LastOne
    BY <1>16, SinkUntouched DEF Cancel
  <2>2. TypeOK'
    BY <1>16 DEF Cancel, IInv
  <2>3. AttemptsCounted'
    BY <1>16 DEF Cancel, IInv, AttemptsCounted
  <2>4. ReadsOn'
    BY <1>16, <2>1 DEF Cancel, IInv, ReadsOn, Reading, IdOf
  <2>. QED BY <2>1, <2>2, <2>3, <2>4 DEF IInv
<1>17. CASE ReadBlank
  <2>1. currentEvent.id = IdOf(next) /\ currentEvent.data
    BY <1>17 DEF ReadBlank, ReadLine, IInv, ReadsOn, Reading
  <2>2. /\ pc = "blocked" /\ delivered' = Append(delivered, next)
        /\ lastEventID' = IdOf(next) /\ next' = next + 1 /\ line' = FirstLine(next + 1)
    BY <1>17, <2>1 DEF ReadBlank, ReadLine
  <2>3. EventsInOrder' /\ LastOne' = next /\ delivered' \in Seq(Nat)
    BY <2>2, OneMoreInOrder
  <2>4. RemembersLast'
    BY <2>2, <2>3 DEF RemembersLast, IdOf
  <2>5. TypeOK'
    BY <1>17, <2>2, <2>3 DEF ReadBlank, ReadLine, IInv, IdOf, NoId, NoEvent, FirstLine
  <2>6. AttemptsCounted'
    BY <1>17 DEF ReadBlank, ReadLine, IInv, AttemptsCounted
  <2>7. ReadsOn'
    BY <1>17, <2>2, <2>3 DEF ReadBlank, IInv, ReadsOn, Reading, IdOf, NoId, NoEvent, FirstLine
  <2>. QED BY <2>3, <2>4, <2>5, <2>6, <2>7 DEF IInv
<1>18. CASE pc = "returned" /\ UNCHANGED vars
  BY <1>1, <1>18
<1>. QED BY <1>1, <1>2, <1>3, <1>4, <1>5, <1>6, <1>7, <1>8, <1>9, <1>10, <1>11, <1>12, <1>13, <1>14, <1>15, <1>16, <1>17, <1>18 DEF Next, ClientStep

-------------------------------------------------------------------------------
LEMMA Invariance == Spec => []IInv
BY InitEstablishes, StepKeeps, PTL DEF Spec

\* The types of the client's variables, for any bounds.
THEOREM TypeCorrect == Spec => []TypeOK
<1>1. IInv => TypeOK
  BY DEF IInv
<1>. QED BY <1>1, Invariance, PTL

\* What the sink gets is in order over all attempts and calls: recvVal takes the id of
\* an event over with the event and not before (client.go:256-302).
THEOREM EventsStayInOrder == Spec => []EventsInOrder
<1>1. IInv => EventsInOrder
  BY DEF IInv
<1>. QED BY <1>1, Invariance, PTL

\* No call makes more than maxRetries retries, whatever ends its attempts
\* (client.go:113-129, 307-316).
THEOREM RetriesStayBounded == Spec => []RetriesBounded
<1>1. IInv => RetriesBounded
  BY DEF IInv, TypeOK, AttemptsCounted, RetriesBounded
<1>. QED BY <1>1, Invariance, PTL

===============================================================================
