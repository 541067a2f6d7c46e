----------------------------- MODULE Execute_proof -----------------------------
(***************************************************************************)
(* The executor's places and counters are accounted for, a wait that says  *)
(* drained is right, and the executor implements TaskPool, for every       *)
(* capacity and every finite set of tasks that submit one another.         *)
(***************************************************************************)
EXTENDS Execute, FiniteSetTheorems, TLAPS

USE ExecuteAssumption

\* What a waiter remembers was counted when it began and is never forgotten.
AwaitedCounted == awaited \subseteq At(Counted \cup {"done"})

\* WaitMeansDrained is not inductive: it needs that activeCount is exact, and that
\* awaited tasks had been counted.
IInv == TypeOK /\ Accounted /\ AwaitedCounted /\ WaitMeansDrained

-------------------------------------------------------------------------------
LEMMA AtFinite ==
  ASSUME NEW places
  PROVE  IsFiniteSet(At(places)) /\ Cardinality(At(places)) \in Nat
<1>1. At(places) \subseteq Tasks
  BY DEF At
<1>2. IsFiniteSet(At(places))
  BY <1>1, FS_Subset
<1>. QED BY <1>2, FS_CardinalityType

\* One task enters a set of places.
LEMMA Enters ==
  ASSUME NEW places, NEW t \in Tasks, t \notin At(places), At(places)' = At(places) \cup {t}
  PROVE  Cardinality(At(places))' = Cardinality(At(places)) + 1
BY AtFinite, FS_AddElement

\* One task leaves a set of places.
LEMMA Leaves ==
  ASSUME NEW places, NEW t \in At(places), At(places)' = At(places) \ {t}
  PROVE  /\ Cardinality(At(places))' = Cardinality(At(places)) - 1
         /\ Cardinality(At(places)) > 0
<1>1. Cardinality(At(places))' = Cardinality(At(places)) - 1
  BY AtFinite, FS_RemoveElement
<1>2. Cardinality(At(places)) # 0
  BY AtFinite, FS_EmptySet
<1>. QED BY <1>1, <1>2, AtFinite

\* A move changes the sets of places it leaves or enters, and no other.
LEMMA MoveShifts ==
  ASSUME TypeOK, NEW t \in Tasks, NEW from, NEW to, Moves(t, from, to), NEW places
  PROVE  At(places)' = IF to \in places THEN At(places) \cup {t} ELSE At(places) \ {t}
BY DEF TypeOK, Moves, At

LEMMA InitEstablishes == Init => IInv
<1>. SUFFICES ASSUME Init PROVE IInv
  OBVIOUS
<1>1. At(Holding) = {} /\ At(Counted) = {}
  BY DEF Init, At, Holding, Counted
<1>2. Cardinality(At(Holding)) = 0 /\ Cardinality(At(Counted)) = 0
  BY <1>1, FS_EmptySet
<1>. QED BY <1>2 DEF Init, IInv, TypeOK, Accounted, AwaitedCounted, WaitMeansDrained
LEMMA StepKeeps ==
  ASSUME IInv, [Next]_vars
  PROVE  IInv'
<1>. USE DEF IInv, Accounted
<1>1. CASE UNCHANGED vars
  BY <1>1 DEF vars, counters, TypeOK, At, AwaitedCounted, WaitMeansDrained
<1>2. ASSUME NEW t \in Tasks, Submit(t)
      PROVE  IInv'
  <2>1. At(Holding)' = At(Holding) /\ At(Counted)' = At(Counted)
    BY <1>2 DEF Submit, Moves, At, Holding, Counted, TypeOK
  <2>2. TypeOK'
    BY <1>2 DEF Submit, Moves, TypeOK, counters, InRun
  <2>3. AwaitedCounted' /\ WaitMeansDrained'
    BY <1>2 DEF Submit, Moves, TypeOK, At, Counted, AwaitedCounted, WaitMeansDrained
  <2>. QED BY <1>2, <2>1, <2>2, <2>3 DEF Submit, counters
<1>3. ASSUME NEW t \in Tasks, Acquire(t)
      PROVE  IInv'
  <2>1. t \notin At(Holding) /\ At(Holding)' = At(Holding) \cup {t} /\ At(Counted)' = At(Counted)
    BY <1>3 DEF Acquire, Moves, At, Holding, Counted, TypeOK
  <2>2. slots' = Cardinality(At(Holding))'
    BY <1>3, <2>1, Enters DEF Acquire
  <2>3. TypeOK'
    BY <1>3 DEF Acquire, Moves, TypeOK, counters, InRun
  <2>4. AwaitedCounted' /\ WaitMeansDrained'
    BY <1>3 DEF Acquire, Moves, TypeOK, At, Counted, AwaitedCounted, WaitMeansDrained
  <2>. QED BY <1>3, <2>1, <2>2, <2>3, <2>4 DEF Acquire, counters
<1>4. ASSUME NEW t \in Tasks, Start(t)
      PROVE  IInv'
  <2>1. t \notin At(Counted) /\ At(Counted)' = At(Counted) \cup {t} /\ At(Holding)' = At(Holding)
    BY <1>4 DEF Start, Moves, At, Holding, Counted, TypeOK
  <2>2. Cardinality(At(Counted))' = Cardinality(At(Counted)) + 1
    BY <2>1, Enters
  <2>3. TypeOK'
    BY <1>4 DEF Start, Moves, TypeOK, Counted
  <2>4. AwaitedCounted' /\ WaitMeansDrained'
    BY <1>4 DEF Start, Moves, TypeOK, At, Counted, AwaitedCounted, WaitMeansDrained
  <2>. QED BY <1>4, <2>1, <2>2, <2>3, <2>4 DEF Start
<1>5. ASSUME NEW t \in Tasks, Finish(t)
      PROVE  IInv'
  <2>1. At(Holding)' = At(Holding) /\ At(Counted)' = At(Counted)
    BY <1>5 DEF Finish, Moves, At, Holding, Counted, TypeOK
  <2>2. TypeOK'
    BY <1>5 DEF Finish, Moves, TypeOK, counters, Counted
  <2>3. AwaitedCounted' /\ WaitMeansDrained'
    BY <1>5 DEF Finish, Moves, TypeOK, At, Counted, AwaitedCounted, WaitMeansDrained
  <2>. QED BY <1>5, <2>1, <2>2, <2>3 DEF Finish, counters
<1>6. ASSUME NEW t \in Tasks, Release(t)
      PROVE  IInv'
  <2>1. t \in At(Holding) /\ At(Holding)' = At(Holding) \ {t} /\ At(Counted)' = At(Counted)
    BY <1>6 DEF Release, Moves, At, Holding, Counted, TypeOK
  <2>2. slots' = Cardinality(At(Holding))'
    BY <1>6, <2>1, Leaves DEF Release
  <2>3. TypeOK'
    BY <1>6 DEF Release, Moves, TypeOK, counters, Counted
  <2>4. AwaitedCounted' /\ WaitMeansDrained'
    BY <1>6 DEF Release, Moves, TypeOK, At, Counted, AwaitedCounted, WaitMeansDrained
  <2>. QED BY <1>6, <2>1, <2>2, <2>3, <2>4 DEF Release, counters
<1>7. ASSUME NEW t \in Tasks, CountOut(t)
      PROVE  IInv'
  <2>1. t \in At(Counted) /\ At(Counted)' = At(Counted) \ {t} /\ At(Holding)' = At(Holding)
    BY <1>7 DEF CountOut, Moves, At, Holding, Counted, TypeOK
  <2>2. /\ Cardinality(At(Counted))' = Cardinality(At(Counted)) - 1
        /\ Cardinality(At(Counted)) > 0
    BY <2>1, Leaves
  <2>3. TypeOK'
    BY <1>7, <2>2 DEF CountOut, Moves, TypeOK
  <2>4. AwaitedCounted' /\ WaitMeansDrained'
    BY <1>7 DEF CountOut, Moves, TypeOK, At, Counted, AwaitedCounted, WaitMeansDrained
  <2>. QED BY <1>7, <2>1, <2>2, <2>3, <2>4 DEF CountOut
<1>8. CASE Wait
  <2>1. TypeOK' /\ AwaitedCounted' /\ WaitMeansDrained'
    BY <1>8 DEF Wait, TypeOK, counters, At, InRun, Counted, AwaitedCounted, WaitMeansDrained
  <2>. QED BY <1>8, <2>1 DEF Wait, counters, At
<1>9. CASE Poll
  <2>1. ASSUME waiter' = "drained"
        PROVE  awaited \subseteq At({"done"})
    <3>1. Cardinality(At(Counted)) = 0
      BY <1>9, <2>1 DEF Poll
    <3>2. At(Counted) = {}
      BY <3>1, AtFinite, FS_EmptySet
    <3>. QED BY <3>2 DEF AwaitedCounted, At
  <2>2. TypeOK' /\ AwaitedCounted' /\ WaitMeansDrained'
    BY <1>9, <2>1 DEF Poll, TypeOK, counters, At, AwaitedCounted, WaitMeansDrained
  <2>. QED BY <1>9, <2>2 DEF Poll, counters, At
<1>10. CASE Sleep
  <2>1. TypeOK' /\ AwaitedCounted' /\ WaitMeansDrained'
    BY <1>10 DEF Sleep, TypeOK, counters, At, AwaitedCounted, WaitMeansDrained
  <2>. QED BY <1>10, <2>1 DEF Sleep, counters, At
<1>. QED BY <1>1, <1>2, <1>3, <1>4, <1>5, <1>6, <1>7, <1>8, <1>9, <1>10 DEF Next, Step

LEMMA Invariance == Spec => []IInv
<1>1. IInv /\ [Next]_vars => IInv'
  BY StepKeeps
<1>. QED BY <1>1, InitEstablishes, PTL DEF Spec

-------------------------------------------------------------------------------
\* The places and counters have their types: in particular queueLength and
\* activeCount never go below zero (execute.go:63-66).
THEOREM TypeCorrect == Spec => []TypeOK
<1>1. IInv => TypeOK
  BY DEF IInv
<1>. QED BY <1>1, Invariance, PTL

\* Whatever order the goroutines run in, the channel holds one element per task
\* that took a place and the counters one per task that is counted
\* (execute.go:50-66).
THEOREM PlacesAccounted == Spec => []Accounted
<1>1. IInv => Accounted
  BY DEF IInv
<1>. QED BY <1>1, Invariance, PTL

\* WaitTimeout returning true is right about every task whose Run had returned
\* (execute.go:84-99).
THEOREM DrainedIsTrue == Spec => []WaitMeansDrained
<1>1. IInv => WaitMeansDrained
  BY DEF IInv
<1>. QED BY <1>1, Invariance, PTL

LEMMA Phases ==
  /\ PhaseAt("new") = "new"
  /\ PhaseAt("sending") = "waiting"
  /\ \A place \in Holding : PhaseAt(place) = "running"
  /\ PhaseAt("released") = "left" /\ PhaseAt("done") = "left"
BY DEF PhaseAt, Holding

LEMMA PoolOccupied ==
  ASSUME TypeOK
  PROVE  Pool!Occupying = At(Holding)
BY DEF Pool!Occupying, At, Holding, TypeOK, InRun, Counted, PhaseAt

\* A move of a task is a move of its phase, or none if the phase is the same.
LEMMA PhaseMoves ==
  ASSUME TypeOK, NEW t \in Tasks, NEW from, NEW to, Moves(t, from, to)
  PROVE  /\ Pool!Moves(t, PhaseAt(from), PhaseAt(to))
         /\ PhaseAt(from) = PhaseAt(to) =>
              [u \in Tasks |-> PhaseAt(at[u])]' = [u \in Tasks |-> PhaseAt(at[u])]
<1>1. at[t] = from /\ at' = [at EXCEPT ![t] = to] /\ at \in [Tasks -> {at[u] : u \in Tasks}]
  BY DEF Moves, TypeOK
<1>2. \A u \in Tasks : at'[u] = IF u = t THEN to ELSE at[u]
  BY <1>1
<1>. QED BY <1>1, <1>2 DEF Pool!Moves

\* The executor implements the bounded pool: each of its steps is one step of the
\* pool or none, and a task occupies the pool only when fewer than Capacity others
\* do (execute.go:50, 62).
THEOREM ExecuteImplementsPool == Spec => ImplementsPool
<1>1. Init => Pool!PoolInit
  BY Phases DEF Init, Pool!PoolInit
<1>. DEFINE bar == [t \in Tasks |-> PhaseAt(at[t])]
<1>2. ASSUME IInv, [Next]_vars
      PROVE  [Pool!PoolNext]_bar
  <2>1. ASSUME NEW t \in Tasks, Submit(t)
        PROVE  Pool!Enqueue(t)
    BY <1>2, <2>1, Phases, PhaseMoves DEF Submit, Pool!Enqueue, IInv
  <2>2. ASSUME NEW t \in Tasks, Acquire(t)
        PROVE  Pool!Occupy(t)
    <3>1. Pool!Cardinality(Pool!Occupying) < Capacity
      <4>1. Cardinality(At(Holding)) < Capacity
        BY <1>2, <2>2 DEF Acquire, IInv, Accounted
      <4>2. Pool!Cardinality(At(Holding)) = Cardinality(At(Holding))
        BY DEF Pool!Cardinality, Cardinality
      <4>. QED BY <1>2, <4>1, <4>2, PoolOccupied DEF IInv
    <3>2. PhaseAt("sending") = "waiting" /\ PhaseAt("placed") = "running"
      BY Phases DEF Holding
    <3>3. Pool!Moves(t, "waiting", "running")
      BY <1>2, <2>2, <3>2, PhaseMoves DEF Acquire, IInv
    <3>. QED BY <3>1, <3>3 DEF Pool!Occupy
  <2>3. ASSUME NEW t \in Tasks, Release(t)
        PROVE  Pool!Leave(t)
    BY <1>2, <2>3, Phases, PhaseMoves DEF Release, Pool!Leave, IInv, Holding
  <2>4. ASSUME NEW t \in Tasks, Start(t) \/ Finish(t) \/ CountOut(t)
        PROVE  bar' = bar
    BY <1>2, <2>4, Phases, PhaseMoves DEF Start, Finish, CountOut, IInv, Holding
  <2>5. ASSUME Wait \/ Poll \/ Sleep \/ UNCHANGED vars
        PROVE  bar' = bar
    BY <2>5 DEF Wait, Poll, Sleep, vars
  <2>. HIDE DEF bar
  <2>. QED BY <1>2, <2>1, <2>2, <2>3, <2>4, <2>5 DEF Next, Step, Pool!PoolNext
<1>. QED BY <1>1, <1>2, Invariance, PTL DEF Spec, ImplementsPool, Pool!PoolSpec

===============================================================================
