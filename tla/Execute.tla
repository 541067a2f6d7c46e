-------------------------------- MODULE Execute --------------------------------
(***************************************************************************)
(* The executor that tcp/ runs everything on (vendored from the same       *)
(* author, execute/execute.go): Run takes a place in a buffered channel,   *)
(* counts the task under the mutex and starts a goroutine; the goroutine   *)
(* gives the place back BEFORE it is counted out.  Both counters and the   *)
(* channel are separate steps, so each may be seen without the others.     *)
(*                                                                         *)
(* A task may itself call Run on the same executor, as the tasks of tcp/   *)
(* do: while that Run blocks, its caller keeps its own place.              *)
(***************************************************************************)
EXTENDS Naturals, FiniteSets

CONSTANTS
  Tasks,      \* every function ever given to Run
  Capacity,   \* capacitySize
  Outside,    \* a goroutine that is not a task of this executor
  Submitter   \* who calls Run for a task: another task, or Outside

ASSUME ExecuteAssumption ==
  /\ Capacity \in Nat \ {0}
  /\ IsFiniteSet(Tasks)
  /\ Outside \notin Tasks
  /\ Submitter \in [Tasks -> Tasks \cup {Outside}]

VARIABLES
  at,           \* how far each task is
  slots,        \* elements in capacityQueue
  queueLength,
  activeCount,
  waiter,       \* a caller of WaitTimeout
  awaited       \* history: the tasks whose Run had returned when it began to wait

vars == <<at, slots, queueLength, activeCount, waiter, awaited>>
counters == <<queueLength, activeCount>>

At(place) == {t \in Tasks : at[t] \in place}
InRun == {"sending", "placed"}        \* Run has not returned
Holding == {"placed", "running", "finished"}
Counted == {"running", "finished", "released"}

-------------------------------------------------------------------------------
Init ==
  /\ at = [t \in Tasks |-> "new"]
  /\ slots = 0
  /\ queueLength = 0
  /\ activeCount = 0
  /\ waiter = "idle"
  /\ awaited = {}

Moves(t, from, to) == at[t] = from /\ at' = [at EXCEPT ![t] = to]

\* A task that calls Run does nothing else until Run returns.
Blocked(p) == \E t \in At(InRun) : Submitter[t] = p

MaySubmit(p) == p \in {Outside} \cup {q \in At({"running"}) : ~Blocked(q)}

\* Run, up to the channel; the warnings before it change nothing.
Submit(t) ==
  /\ MaySubmit(Submitter[t])
  /\ Moves(t, "new", "sending")
  /\ UNCHANGED <<slots, counters, waiter, awaited>>

\* Mutant: one sender too many.
Acquire_OffByOne(t) ==
  /\ slots <= Capacity
  /\ Moves(t, "sending", "placed")
  /\ slots' = slots + 1
  /\ UNCHANGED <<counters, waiter, awaited>>

\* capacityQueue <- true
Acquire(t) ==
  /\ slots < Capacity
  /\ Moves(t, "sending", "placed")
  /\ slots' = slots + 1
  /\ UNCHANGED <<counters, waiter, awaited>>

\* Mutant: activeCount is left to the goroutine.
Start_Uncounted(t) ==
  /\ Moves(t, "placed", "running")
  /\ queueLength' = queueLength + 1
  /\ UNCHANGED <<activeCount, slots, waiter, awaited>>

\* The counters, the goroutine, and Run returns.
Start(t) ==
  /\ Moves(t, "placed", "running")
  /\ queueLength' = queueLength + 1
  /\ activeCount' = activeCount + 1
  /\ UNCHANGED <<slots, waiter, awaited>>

\* funcPtr returns or panics, maybe before it submitted all it would.
Finish(t) ==
  /\ ~Blocked(t)
  /\ Moves(t, "running", "finished")
  /\ UNCHANGED <<slots, counters, waiter, awaited>>

\* Mutant: the place is lost, as when recover() returns early.
Release_Leak(t) ==
  /\ slots > 0
  /\ Moves(t, "finished", "released")
  /\ UNCHANGED <<slots, counters, waiter, awaited>>

\* <-capacityQueue
Release(t) ==
  /\ slots > 0
  /\ Moves(t, "finished", "released")
  /\ slots' = slots - 1
  /\ UNCHANGED <<counters, waiter, awaited>>

\* Mutant: counted out a second time on the way through the panic branch.
CountOut_Twice(t) ==
  /\ Moves(t, "released", "done")
  /\ queueLength' = queueLength - 2
  /\ activeCount' = activeCount - 2
  /\ UNCHANGED <<slots, waiter, awaited>>

CountOut(t) ==
  /\ Moves(t, "released", "done")
  /\ queueLength' = queueLength - 1
  /\ activeCount' = activeCount - 1
  /\ UNCHANGED <<slots, waiter, awaited>>

\* WaitTimeout and WaitContext: poll activeCount until it is 0 or, after a look
\* that found it busy, until it is too late.
Wait ==
  /\ waiter \in {"idle", "drained", "timedOut"}
  /\ waiter' = "polling"
  /\ awaited' = Tasks \ At({"new"} \cup InRun)
  /\ UNCHANGED <<at, slots, counters>>

Poll ==
  /\ waiter = "polling"
  /\ waiter' = IF activeCount = 0 THEN "drained" ELSE "busy"
  /\ UNCHANGED <<at, slots, counters, awaited>>

Sleep ==
  /\ waiter = "busy"
  /\ waiter' \in {"polling", "timedOut"}
  /\ UNCHANGED <<at, slots, counters, awaited>>

Step(t) == Acquire(t) \/ Start(t) \/ Finish(t) \/ Release(t) \/ CountOut(t)

Next ==
  \/ \E t \in Tasks : Submit(t) \/ Step(t)
  \/ Wait \/ Poll \/ Sleep

\* Goroutines are scheduled and tasks return; a place in the channel goes to the
\* sender that waited longest.
Spec == Init /\ [][Next]_vars /\ \A t \in Tasks : WF_vars(Step(t))

-------------------------------------------------------------------------------
TypeOK ==
  /\ at \in [Tasks -> {"new"} \cup InRun \cup Counted \cup {"done"}]
  /\ slots \in 0..Capacity
  /\ queueLength \in Nat
  /\ activeCount \in Nat
  /\ waiter \in {"idle", "polling", "busy", "drained", "timedOut"}
  /\ awaited \subseteq Tasks

\* Every place and every count belongs to one task, also between the steps that
\* take and return them in different order (execute.go:50-66).
Accounted ==
  /\ slots = Cardinality(At(Holding))
  /\ queueLength = Cardinality(At(Counted))
  /\ activeCount = Cardinality(At(Counted))

\* "WaitTimeout waits until all submitted tasks drain" (execute.go:84): when it
\* returns true, every task whose Run had returned before it began is counted out.
WaitMeansDrained == waiter = "drained" => awaited \subseteq At({"done"})

\* What a place is to the users of the pool.
PhaseAt(place) ==
  IF place = "new" THEN "new"
  ELSE IF place = "sending" THEN "waiting"
  ELSE IF place \in Holding THEN "running"
  ELSE "left"

Pool == INSTANCE TaskPool WITH phase <- [t \in Tasks |-> PhaseAt(at[t])]

\* The executor is a bounded pool: never more than Capacity tasks are between
\* taking a place and returning it (execute.go:50, 62).
ImplementsPool == Pool!PoolSpec

\* execute/README.md:34 "`Run()` 会提交一个任务并立即返回": Run returns.
RunReturns == \A t \in Tasks : (at[t] = "sending") ~> (at[t] \notin InRun)

===============================================================================
