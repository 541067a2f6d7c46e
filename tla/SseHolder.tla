------------------------------- MODULE SseHolder -------------------------------
(***************************************************************************)
(* One SSE stream on the server (sse/server.go): the Holder of a response, *)
(* the goroutines that write to it and the registry that knows it.         *)
(*                                                                         *)
(* Holder.Run runs a task and, unless a master does so already, a loop     *)
(* that sends a heartbeat after timerTimeout of silence.  Tasks, loops and *)
(* whoever found the holder with GetHolder write to the same response; the *)
(* mutex guards lastActive and masterFlag, not the writes.                 *)
(*                                                                         *)
(* Time is counted in ticks of timerInterval, one for all loops; goroutines *)
(* are assumed to finish what they are writing within a tick.              *)
(***************************************************************************)
EXTENDS Naturals, FiniteSets

CONSTANTS
  Runs,       \* calls of Holder.Run, each by a goroutine of its own
  Senders,    \* goroutines outside any task that call OnRecv
  MaxEvents,  \* bound: calls of OnRecv by each task and each sender
  Timeout     \* timerTimeout in ticks: silence up to here is no reason to beat

ASSUME HolderAssumption ==
  /\ IsFiniteSet(Runs) /\ IsFiniteSet(Senders)
  /\ MaxEvents \in Nat
  /\ Timeout \in Nat \ {0}

Writer(kind, g) == [kind |-> kind, of |-> g]
Task(r) == Writer("task", r)      \* the task of a Run
Loop(r) == Writer("loop", r)      \* the heartbeat loop of a Run
Sender(s) == Writer("sender", s)
Writers == {Task(r) : r \in Runs} \cup {Loop(r) : r \in Runs} \cup {Sender(s) : s \in Senders}

Nobody == Writer("none", "none")
LongAgo == Timeout + 2            \* and longer: the counts of ticks stop here

VARIABLES
  masterFlag,
  lastActive,  \* ticks since it was set; a new holder has the zero time
  run,         \* how far each Run is
  loop,        \* how far the heartbeat loop of each Run is
  tick,        \* the loop's ticker.C holds a tick
  write,       \* how far the write of each writer is
  events,      \* OnRecv calls that each writer began
  broken,      \* the client is gone: writes may fail
  registered,  \* holderMap has the holder
  quiet,       \* history: ticks since something was written or a loop began
  open,        \* history: the writer whose event line was the last thing written
  torn         \* history: something came between the two lines of a frame

running == <<masterFlag, run, loop, tick>>
writing == <<write, events, quiet, open, torn>>
vars == <<running, lastActive, writing, broken, registered>>

-------------------------------------------------------------------------------
Init ==
  /\ masterFlag = FALSE
  /\ lastActive = LongAgo
  /\ run = [r \in Runs |-> "new"]
  /\ loop = [r \in Runs |-> "none"]
  /\ tick = [r \in Runs |-> FALSE]
  /\ write = [w \in Writers |-> "idle"]
  /\ events = [w \in Writers |-> 0]
  /\ broken = FALSE
  /\ registered = TRUE
  /\ quiet = 0
  /\ open = Nobody
  /\ torn = FALSE

RunMoves(r, from, to) == run[r] = from /\ run' = [run EXCEPT ![r] = to]
LoopMoves(r, from, to) == loop[r] = from /\ loop' = [loop EXCEPT ![r] = to]
WriteMoves(w, from, to) == write[w] = from /\ write' = [write EXCEPT ![w] = to]


-------------------------------------------------------------------------------
\* Holder.Run reads the flag; with a master it just calls the task.
CheckMaster(r) ==
  /\ RunMoves(r, "new", IF masterFlag THEN "plain" ELSE "checked")
  /\ UNCHANGED <<masterFlag, loop, tick, lastActive, writing, broken, registered>>

\* It sets the flag in a second critical section, starts task and loop, and waits.
BecomeMaster(r) ==
  /\ RunMoves(r, "checked", "master")
  /\ LoopMoves(r, "none", "select")
  /\ masterFlag' = TRUE
  /\ quiet' = 0
  /\ UNCHANGED <<tick, lastActive, write, events, open, torn, broken, registered>>

\* The task returns: a master closes done, everyone else returns its error.
TaskEnds(r) ==
  /\ write[Task(r)] = "idle"
  /\ RunMoves(r, "master", "done") \/ RunMoves(r, "plain", "returned")
  /\ UNCHANGED <<masterFlag, loop, tick, lastActive, writing, broken, registered>>

\* wg.Wait: task and loop are over.  masterFlag stays set.
RunReturns(r) ==
  /\ loop[r] = "over"
  /\ RunMoves(r, "done", "returned")
  /\ UNCHANGED <<masterFlag, loop, tick, lastActive, writing, broken, registered>>

-------------------------------------------------------------------------------
\* Mutant: no wg.Done when the loop ends.
LoopEnds_Silent(r) ==
  /\ run[r] = "done"
  /\ LoopMoves(r, "select", "none")
  /\ tick' = [tick EXCEPT ![r] = FALSE]
  /\ UNCHANGED <<masterFlag, run, lastActive, writing, broken, registered>>

\* case <-done, also when a tick is there too; ticker.Stop.
LoopEnds(r) ==
  /\ run[r] = "done"
  /\ LoopMoves(r, "select", "over")
  /\ tick' = [tick EXCEPT ![r] = FALSE]
  /\ UNCHANGED <<masterFlag, run, lastActive, writing, broken, registered>>

\* Mutant: silence is noticed a tick late.
Overdue_Late == lastActive > Timeout + 1

\* time.Since(lastActive) > timerTimeout
Overdue == lastActive > Timeout

\* case <-ticker.C: lastActive is read, heartbeat decided on.
LoopTicks(r) ==
  /\ tick[r]
  /\ tick' = [tick EXCEPT ![r] = FALSE]
  /\ LoopMoves(r, "select", IF Overdue THEN "beat" ELSE "select")
  /\ UNCHANGED <<masterFlag, run, lastActive, writing, broken, registered>>

\* heartbeat() sets lastActive; its write is one of those below.
Heartbeat(r) ==
  /\ LoopMoves(r, "beat", "writing")
  /\ WriteMoves(Loop(r), "idle", "data")
  /\ lastActive' = 0
  /\ UNCHANGED <<masterFlag, run, tick, events, quiet, open, torn, broken, registered>>

HeartbeatReturns(r) ==
  /\ write[Loop(r)] = "idle"
  /\ LoopMoves(r, "writing", "select")
  /\ UNCHANGED <<masterFlag, run, tick, lastActive, writing, broken, registered>>

-------------------------------------------------------------------------------
MayCall(w) ==
  CASE w.kind = "task" -> run[w.of] \in {"plain", "master"}
    [] w.kind = "sender" -> registered     \* the holder comes from GetHolder
    [] OTHER -> FALSE

\* OnRecv sets lastActive; without an event name, and in EchoSSEID, there is a
\* single write.
OnRecv(w, first) ==
  /\ MayCall(w) /\ events[w] < MaxEvents
  /\ events' = [events EXCEPT ![w] = @ + 1]
  /\ WriteMoves(w, "idle", first)
  /\ lastActive' = 0
  /\ UNCHANGED <<running, quiet, open, torn, broken, registered>>

WriteEvent(w) ==
  /\ WriteMoves(w, "event", "dataOfEvent")
  /\ open' = w
  /\ quiet' = 0
  /\ UNCHANGED <<running, lastActive, events, torn, broken, registered>>

\* The last line of a frame, and the blank line that ends it.
WriteData(w) ==
  /\ WriteMoves(w, "data", "idle") \/ WriteMoves(w, "dataOfEvent", "idle")
  /\ torn' = (torn \/ (write[w] = "dataOfEvent" /\ open # w))
  /\ open' = Nobody
  /\ quiet' = 0
  /\ UNCHANGED <<running, lastActive, events, broken, registered>>

WriteFails(w) ==
  /\ broken
  /\ write[w] \in {"event", "data", "dataOfEvent"}
  /\ WriteMoves(w, write[w], "failed")
  /\ UNCHANGED <<running, lastActive, events, quiet, open, torn, broken, registered>>

\* Mutant: err is declared anew in the function, the deferred one stays nil.
CloseAfterError_Shadowed(w) ==
  /\ WriteMoves(w, "failed", "idle")
  /\ UNCHANGED <<running, lastActive, events, quiet, open, torn, broken, registered>>

\* The deferred OnClose takes the holder out of the registry.
CloseAfterError(w) ==
  /\ WriteMoves(w, "failed", "idle")
  /\ registered' = FALSE
  /\ UNCHANGED <<running, lastActive, events, quiet, open, torn, broken>>

\* Holder.OnClose, called by the user.
OnClose ==
  /\ registered
  /\ registered' = FALSE
  /\ UNCHANGED <<running, lastActive, writing, broken>>

-------------------------------------------------------------------------------
Disconnect ==
  /\ ~broken
  /\ broken' = TRUE
  /\ UNCHANGED <<running, lastActive, writing, registered>>

\* The heartbeat loops that run: more than one if two Runs read masterFlag before
\* either sets it.
Ticking == {r \in Runs : loop[r] \notin {"none", "over"}}

Settled ==
  /\ \A w \in Writers : write[w] = "idle"
  /\ \A r \in Ticking : loop[r] = "select" /\ ~tick[r] /\ run[r] # "done"

OneMore(n) == IF n = LongAgo THEN n ELSE n + 1

\* A second passes.
Tick ==
  /\ Settled
  /\ lastActive' = OneMore(lastActive)
  /\ quiet' = IF Ticking = {} THEN 0 ELSE OneMore(quiet)
  /\ tick' = [r \in Runs |-> r \in Ticking]
  /\ UNCHANGED <<masterFlag, run, loop, write, events, open, torn, broken, registered>>

Goroutine(r) ==
  \/ BecomeMaster(r) \/ RunReturns(r)
  \/ LoopEnds(r) \/ LoopTicks(r) \/ Heartbeat(r) \/ HeartbeatReturns(r)

Writing(w) == WriteEvent(w) \/ WriteData(w) \/ WriteFails(w) \/ CloseAfterError(w)

Next ==
  \/ \E r \in Runs : CheckMaster(r) \/ TaskEnds(r) \/ Goroutine(r)
  \/ \E w \in Writers : Writing(w) \/ \E first \in {"event", "data"} : OnRecv(w, first)
  \/ OnClose \/ Disconnect \/ Tick

\* Goroutines run, time passes, writes return, and not every write to a client that is
\* gone succeeds: each fills what TCP buffers, or is answered by a reset.  Tasks need
\* not end.
Spec ==
  /\ Init /\ [][Next]_vars
  /\ \A r \in Runs : WF_vars(Goroutine(r))
  /\ \A w \in Writers : WF_vars(Writing(w))
  /\ WF_vars(Tick)
  /\ SF_vars(\E w \in Writers : WriteFails(w))

-------------------------------------------------------------------------------
\* From the start of a heartbeat loop until the last one ends, a client that is there
\* hears something every timerTimeout and a tick, however tasks, senders and several
\* loops race for lastActive (heartbeat and OnRecv set it before they write).
QuietBounded == Ticking # {} /\ ~broken => quiet <= Timeout + 1

\* A client that went away while a heartbeat loop ran is forgotten, although its task
\* never writes and never ends and nobody else sends: the silence makes the loop beat
\* until a beat fails, and its deferred OnClose takes the holder out of the registry
\* (heartbeat, OnRecv, EchoSSEID).  Without a loop nobody notices.
DeadIsForgotten == broken /\ Ticking # {} ~> ~registered \/ Ticking = {}

\* Every Holder.Run returns once its task has, and stops its loop first, whichever
\* case the loop's select takes when both are ready (server.go:169-203).
RunsReturn == \A r \in Runs : run[r] = "done" ~> run[r] = "returned" /\ r \notin Ticking

\* sse_test.go:101 "expected complete SSE frame": nothing comes between the lines of
\* a frame.  A heartbeat that was decided on before OnRecv set lastActive does, and
\* its blank line ends the event that the first line named.
FramesWhole == ~torn

===============================================================================
