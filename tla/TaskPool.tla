------------------------------- MODULE TaskPool -------------------------------
(***************************************************************************)
(* A bounded task executor as its users see it: a task that is submitted   *)
(* waits until fewer than Capacity others occupy the pool, occupies it,    *)
(* and leaves.  Execute implements this; EndpointManager runs on it.       *)
(***************************************************************************)
EXTENDS Naturals, FiniteSets

CONSTANTS
  Tasks,     \* every task that is ever submitted
  Capacity   \* tasks that occupy the pool at once

VARIABLE phase   \* "new", "waiting", "running" or "left", of each task

Occupying == {t \in Tasks : phase[t] = "running"}

PoolInit == phase = [t \in Tasks |-> "new"]

Moves(t, from, to) == phase[t] = from /\ phase' = [phase EXCEPT ![t] = to]

Enqueue(t) == Moves(t, "new", "waiting")

Occupy(t) ==
  /\ Cardinality(Occupying) < Capacity
  /\ Moves(t, "waiting", "running")

Leave(t) == Moves(t, "running", "left")

PoolNext == \E t \in Tasks : Enqueue(t) \/ Occupy(t) \/ Leave(t)

PoolSpec == PoolInit /\ [][PoolNext]_phase

===============================================================================
