------------------------------- MODULE SseClient -------------------------------
(***************************************************************************)
(* Calls of Client.Get or Client.Post (sse/client.go), one after the       *)
(* other: attempts to read an event stream, the retries between them, and  *)
(* what other goroutines do meanwhile: cancel the context of the call, or  *)
(* call Close.  The last event id outlives the attempt and the call.       *)
(*                                                                         *)
(* Of an event only its number is kept, which the server gives as the id   *)
(* of those that have one; it is sent as a line with the id, a line with   *)
(* data and a blank line.                                                  *)
(* The server is external: it goes on behind the Last-Event-ID it is told, *)
(* and may refuse, fall silent, end the stream or break it at any line.    *)
(* What differs between Get and Post (the body, the text of an error) is   *)
(* left out, and so is the length of the wait before a retry.              *)
(***************************************************************************)
EXTENDS Naturals, Sequences

CONSTANTS
  MaxRetries,  \* Client.maxRetries
  MaxEvents,   \* bound: events that the server has
  WithId,      \* the events that have an id
  MaxCalls     \* bound: calls on the client

ASSUME ClientAssumption ==
  MaxRetries \in Nat /\ MaxEvents \in Nat /\ WithId \subseteq 1..MaxEvents /\ MaxCalls \in Nat

NoId == 0             \* the empty lastEventID
NoEvent == [id |-> NoId, data |-> FALSE]

VARIABLES
  pc,           \* where the goroutine of the call is
  calls,        \* how often the client was called
  result,       \* what it returned: "none" yet, "nil", "context" or "error"
  retryCount,
  lastEventID,
  currentEvent, \* of recvVal: the id and whether there are data
  cancelFunc,   \* it is not nil
  outer,        \* the context of the call is alive
  inner,        \* the attempt's own context was not cancelled
  next,         \* the server: the event it sends
  line,         \* the server: the line of that event that comes next
  attempts,     \* history: of this call
  closedIn,     \* history: the last of them during which Close was called
  delivered     \* history: the events given to OnRecv

client == <<retryCount, lastEventID, currentEvent, cancelFunc>>
server == <<next, line>>
history == <<attempts, closedIn, delivered>>
vars == <<pc, calls, result, client, outer, inner, server, history>>

-------------------------------------------------------------------------------
FirstLine(n) == IF n \in WithId THEN "id" ELSE "data"

Init ==
  /\ pc = "loop"
  /\ calls = 1
  /\ result = "none"
  /\ retryCount = 0
  /\ lastEventID = NoId
  /\ currentEvent = NoEvent
  /\ cancelFunc = FALSE
  /\ outer = TRUE
  /\ inner = TRUE
  /\ next = 1
  /\ line = FirstLine(1)
  /\ attempts = 0
  /\ closedIn = 0
  /\ delivered = <<>>

Goes(from, to) == pc = from /\ pc' = to

\* Mutant: the attempt's context does not descend from the one of the call.
Alive_Detached == inner

\* clientCtx is a child of ctx.
Alive == inner /\ outer

Returns(what) == pc' = "returned" /\ result' = what

-------------------------------------------------------------------------------
\* select at the head of the loop: a cancelled context ends the call.
Loop ==
  /\ IF outer THEN Goes("loop", "attempt") /\ UNCHANGED result
     ELSE pc = "loop" /\ Returns("context")
  /\ UNCHANGED <<calls, client, outer, inner, server, history>>

\* Mutant: cancelFunc is not stored.
Attempt_NotStored ==
  /\ Goes("attempt", "do")
  /\ inner' = TRUE
  /\ attempts' = attempts + 1
  /\ UNCHANGED <<calls, result, client, outer, server, closedIn, delivered>>

\* actionFunc makes a context and stores its cancel function.
Attempt ==
  /\ Goes("attempt", "do")
  /\ inner' = TRUE
  /\ cancelFunc' = TRUE
  /\ attempts' = attempts + 1
  /\ UNCHANGED <<calls, result, retryCount, lastEventID, currentEvent, outer, server, closedIn,
                 delivered>>

\* The server answers 200 and goes on behind the event it was told of.
Do ==
  /\ Goes("do", "read")
  /\ next' = lastEventID + 1
  /\ line' = FirstLine(lastEventID + 1)
  /\ currentEvent' = NoEvent
  /\ UNCHANGED <<calls, result, retryCount, lastEventID, cancelFunc, outer, inner, history>>

\* No connection, another status, or the context was cancelled.
DoFails ==
  /\ Goes("do", "failed")
  /\ UNCHANGED <<calls, result, client, outer, inner, server, history>>

\* select in recvVal: a cancelled context ends recvVal, and the call, without error.
Select ==
  /\ IF Alive THEN Goes("read", "blocked") /\ UNCHANGED result
     ELSE pc = "read" /\ Returns("nil")
  /\ UNCHANGED <<calls, client, outer, inner, server, history>>

\* ReadBytes returns a line, which bufio may have had before a cancellation.
ReadLine(what) ==
  /\ next <= MaxEvents /\ line = what
  /\ Goes("blocked", "read")

\* Mutant: the id counts as received before the event is.
ReadId_Records ==
  /\ ReadLine("id")
  /\ currentEvent' = [currentEvent EXCEPT !.id = next]
  /\ lastEventID' = next
  /\ line' = "data"
  /\ UNCHANGED <<calls, result, retryCount, cancelFunc, outer, inner, next, history>>

ReadId ==
  /\ ReadLine("id")
  /\ currentEvent' = [currentEvent EXCEPT !.id = next]
  /\ line' = "data"
  /\ UNCHANGED <<calls, result, retryCount, lastEventID, cancelFunc, outer, inner, next, history>>

ReadData ==
  /\ ReadLine("data")
  /\ currentEvent' = [currentEvent EXCEPT !.data = TRUE]
  /\ line' = "blank"
  /\ UNCHANGED <<calls, result, retryCount, lastEventID, cancelFunc, outer, inner, next, history>>

\* A blank line ends the event: its id, empty if it had none, is remembered and the
\* sink gets it.
ReadBlank ==
  /\ ReadLine("blank")
  /\ IF currentEvent.data
     THEN /\ lastEventID' = currentEvent.id
          /\ delivered' = Append(delivered, next)
     ELSE UNCHANGED <<lastEventID, delivered>>
  /\ currentEvent' = NoEvent
  /\ next' = next + 1
  /\ line' = FirstLine(next + 1)
  /\ UNCHANGED <<calls, result, retryCount, cancelFunc, outer, inner, attempts, closedIn>>

\* io.EOF ends the call without error, in the middle of an event too.
ReadEof ==
  /\ pc = "blocked"
  /\ Returns("nil")
  /\ UNCHANGED <<calls, client, outer, inner, server, history>>

ReadFails ==
  /\ Goes("blocked", "failed")
  /\ UNCHANGED <<calls, result, client, outer, inner, server, history>>

\* The deferred function of actionFunc.
Cleanup ==
  /\ Goes("failed", "retry")
  /\ inner' = FALSE
  /\ cancelFunc' = FALSE
  /\ UNCHANGED <<calls, result, retryCount, lastEventID, currentEvent, outer, server, history>>

\* Mutant: handleRetry's result is dropped.
Retry_Dropped ==
  /\ retryCount < MaxRetries
  /\ Goes("retry", "loop")
  /\ UNCHANGED <<calls, result, client, outer, inner, server, history>>

\* handleRetry sleeps and counts, and the loop counts once more.
Retry ==
  /\ retryCount < MaxRetries
  /\ Goes("retry", "loop")
  /\ retryCount' = retryCount + 2
  /\ UNCHANGED <<calls, result, lastEventID, currentEvent, cancelFunc, outer, inner, server,
                 history>>

\* max retries exceeded: sink.OnClose, and the error of the attempt.
GiveUp ==
  /\ retryCount >= MaxRetries
  /\ pc = "retry" /\ Returns("error")
  /\ UNCHANGED <<calls, client, outer, inner, server, history>>

\* Get or Post once more, with a context of its own.
CallAgain ==
  /\ calls < MaxCalls
  /\ Goes("returned", "loop")
  /\ calls' = calls + 1
  /\ result' = "none"
  /\ retryCount' = 0
  /\ outer' = TRUE
  /\ attempts' = 0
  /\ closedIn' = 0
  /\ UNCHANGED <<lastEventID, currentEvent, cancelFunc, inner, server, delivered>>

-------------------------------------------------------------------------------
\* Between two attempts it finds no cancel function and does nothing.
Close ==
  /\ closedIn < attempts
  /\ inner' = (inner /\ ~cancelFunc)
  /\ closedIn' = IF pc \in {"do", "read", "blocked"} THEN attempts ELSE closedIn
  /\ UNCHANGED <<calls, pc, result, client, outer, server, attempts, delivered>>

\* The caller cancels the context of the call.
Cancel ==
  /\ outer
  /\ outer' = FALSE
  /\ UNCHANGED <<calls, pc, result, client, inner, server, history>>

\* The steps that need no answer of the server.
ClientStep ==
  \/ Loop \/ Attempt \/ Select \/ Cleanup \/ Retry \/ GiveUp
  \/ (~Alive /\ (DoFails \/ ReadFails))

Next ==
  \/ ClientStep
  \/ Do \/ DoFails
  \/ ReadId \/ ReadData \/ ReadBlank \/ ReadEof \/ ReadFails
  \/ Close \/ Cancel \/ CallAgain
  \/ pc = "returned" /\ UNCHANGED vars

\* The call runs; a request or a read whose context was cancelled ends.  The server
\* need not do anything.
Spec == Init /\ [][Next]_vars /\ WF_vars(ClientStep)

-------------------------------------------------------------------------------
\* The sink gets the events in order, none left out and none twice, over any number of
\* attempts and calls that break in the middle of an event; only behind an event
\* without an id, which makes the client forget the ids before it, the events may come
\* all over again (client.go:256-302: recvVal takes an id over with the whole event).
EventsInOrder ==
  \A i \in 1..Len(delivered) :
    \/ delivered[i] = IF i = 1 THEN 1 ELSE delivered[i - 1] + 1
    \/ i > 1 /\ delivered[i] = 1 /\ delivered[i - 1] \notin WithId

\* design-realtime.md:20 "最大重试次数": never more than maxRetries retries, in a
\* call, whatever the attempts before had achieved.
RetriesBounded == attempts <= MaxRetries + 1

\* A cancelled call returns although the server is silent (Get's context is the
\* parent of every attempt's).
CancelEnds == ~outer ~> pc = "returned"

\* Close ends the attempt during which it is called, not the call: if retries are
\* left, another attempt follows (client.go:43-50, 113-129).
CloseEndsAttempt ==
  \A n \in 1..(MaxRetries + 1) : closedIn = n ~> attempts > n \/ pc = "returned"

===============================================================================
