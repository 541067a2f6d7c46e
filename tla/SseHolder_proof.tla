---------------------------- MODULE SseHolder_proof ----------------------------
(***************************************************************************)
(* For any number of runs, senders and events, and any timerTimeout, a     *)
(* client of SseHolder that is there hears something in time.              *)
(***************************************************************************)
EXTENDS SseHolder, TLAPS

USE HolderAssumption DEF LongAgo

-------------------------------------------------------------------------------
TypeOK ==
  /\ masterFlag \in BOOLEAN
  /\ lastActive \in Nat /\ lastActive <= LongAgo
  /\ run \in [Runs -> {"new", "checked", "plain", "master", "done", "returned"}]
  /\ loop \in [Runs -> {"none", "select", "beat", "writing", "over"}]
  /\ tick \in [Runs -> BOOLEAN]
  /\ write \in [Writers -> {"idle", "event", "data", "dataOfEvent", "failed"}]
  /\ events \in [Writers -> Nat]
  /\ broken \in BOOLEAN
  /\ registered \in BOOLEAN
  /\ quiet \in Nat /\ quiet <= LongAgo
  /\ open \in Writers \cup {Nobody}
  /\ torn \in BOOLEAN

\* lastActive is set before what it stands for is written: the client has heard
\* something since, or is about to.
ActiveSince ==
  ~broken => \/ quiet <= lastActive
             \/ \E w \in Writers : write[w] \in {"event", "data", "dataOfEvent"}

\* A loop that waits for its next tick found no silence at the last one, or ended it, or
\* began since.  Without this, a loop could let the last tick that it may let pass, pass.
LoopsLookedUp ==
  \A r \in Runs :
    /\ loop[r] = "select" /\ ~tick[r] => lastActive <= Timeout \/ quiet <= Timeout
    /\ loop[r] = "writing" => lastActive <= Timeout

IInv == TypeOK /\ ActiveSince /\ LoopsLookedUp /\ QuietBounded

-------------------------------------------------------------------------------
LEMMA WritersAre ==
  /\ \A r \in Runs : Task(r) \in Writers /\ Loop(r) \in Writers
  /\ \A s \in Senders : Sender(s) \in Writers
BY DEF Writers

LEMMA InitEstablishes == Init => IInv
<1>. SUFFICES ASSUME Init PROVE IInv
  OBVIOUS
<1>1. TypeOK
  <2>1. 0 <= LongAgo /\ LongAgo <= LongAgo /\ LongAgo \in Nat
    OBVIOUS
  <2>2. lastActive \in Nat /\ lastActive <= LongAgo /\ quiet \in Nat /\ quiet <= LongAgo
    BY <2>1 DEF Init
  <2>. QED BY <2>2 DEF Init, TypeOK
<1>2. ActiveSince /\ LoopsLookedUp /\ QuietBounded
  BY DEF Init, ActiveSince, LoopsLookedUp, QuietBounded, Ticking
<1>. QED BY <1>1, <1>2 DEF IInv

\* No step of a Run alone matters.
LEMMA RunsKeep ==
  ASSUME IInv, UNCHANGED <<masterFlag, loop, tick, lastActive, writing, broken, registered>>,
         run' \in [Runs -> {"new", "checked", "plain", "master", "done", "returned"}]
  PROVE  IInv'
<1>1. TypeOK'
  BY DEF IInv, TypeOK, writing
<1>2. ActiveSince'
  BY DEF IInv, ActiveSince, writing
<1>3. LoopsLookedUp'
  BY DEF IInv, LoopsLookedUp, writing
<1>4. QuietBounded'
  BY DEF IInv, QuietBounded, Ticking, writing
<1>. QED BY <1>1, <1>2, <1>3, <1>4 DEF IInv

LEMMA StepKeeps == IInv /\ [Next]_vars => IInv'
<1>. SUFFICES ASSUME IInv, [Next]_vars PROVE IInv'
  OBVIOUS
<1>. USE WritersAre DEF IInv, running, writing
<1>1. CASE UNCHANGED vars
  BY <1>1 DEF vars, TypeOK, ActiveSince, LoopsLookedUp, QuietBounded, Ticking
<1>2. ASSUME NEW r \in Runs, CheckMaster(r)
      PROVE  IInv'
  <2>1. \/ run' = [run EXCEPT ![r] = "plain"]
        \/ run' = [run EXCEPT ![r] = "checked"]
    BY <1>2 DEF CheckMaster, RunMoves
  <2>. QED BY <1>2, <2>1, RunsKeep DEF CheckMaster, TypeOK
<1>3. ASSUME NEW r \in Runs, BecomeMaster(r)
      PROVE  IInv'
  <2>. USE <1>3 DEF BecomeMaster, RunMoves, LoopMoves
  <2>1. TypeOK'
    BY DEF TypeOK, Nobody
  <2>2. ActiveSince'
    BY DEF TypeOK, ActiveSince
  <2>3. LoopsLookedUp'
    BY DEF TypeOK, LoopsLookedUp
  <2>4. QuietBounded'
    BY DEF TypeOK, QuietBounded, Ticking
  <2>. QED BY <2>1, <2>2, <2>3, <2>4
<1>4. ASSUME NEW r \in Runs, TaskEnds(r)
      PROVE  IInv'
  <2>1. \/ run' = [run EXCEPT ![r] = "done"]
        \/ run' = [run EXCEPT ![r] = "returned"]
    BY <1>4 DEF TaskEnds, RunMoves
  <2>. QED BY <1>4, <2>1, RunsKeep DEF TaskEnds, TypeOK
<1>5. ASSUME NEW r \in Runs, RunReturns(r)
      PROVE  IInv'
  BY <1>5, RunsKeep DEF RunReturns, RunMoves, TypeOK
<1>6. ASSUME NEW r \in Runs, LoopEnds(r)
      PROVE  IInv'
  <2>. USE <1>6 DEF LoopEnds, LoopMoves
  <2>1. TypeOK'
    BY DEF TypeOK, Nobody
  <2>2. ActiveSince'
    BY DEF TypeOK, ActiveSince
  <2>3. LoopsLookedUp'
    BY DEF TypeOK, LoopsLookedUp
  <2>4. QuietBounded'
    BY DEF TypeOK, QuietBounded, Ticking
  <2>. QED BY <2>1, <2>2, <2>3, <2>4
<1>7. ASSUME NEW r \in Runs, LoopTicks(r)
      PROVE  IInv'
  <2>. USE <1>7 DEF LoopTicks, LoopMoves, Overdue
  <2>1. TypeOK'
    BY DEF TypeOK, Nobody
  <2>2. ActiveSince'
    BY DEF TypeOK, ActiveSince
  <2>3. LoopsLookedUp'
    BY DEF TypeOK, LoopsLookedUp
  <2>4. QuietBounded'
    BY DEF TypeOK, QuietBounded, Ticking
  <2>. QED BY <2>1, <2>2, <2>3, <2>4
<1>8. ASSUME NEW r \in Runs, Heartbeat(r)
      PROVE  IInv'
  <2>. USE <1>8 DEF Heartbeat, LoopMoves, WriteMoves
  <2>1. TypeOK'
    BY DEF TypeOK, Nobody
  <2>2. ActiveSince'
    BY DEF TypeOK, ActiveSince
  <2>3. LoopsLookedUp'
    BY DEF TypeOK, LoopsLookedUp
  <2>4. QuietBounded'
    BY DEF TypeOK, QuietBounded, Ticking
  <2>. QED BY <2>1, <2>2, <2>3, <2>4
<1>9. ASSUME NEW r \in Runs, HeartbeatReturns(r)
      PROVE  IInv'
  <2>. USE <1>9 DEF HeartbeatReturns, LoopMoves
  <2>1. TypeOK'
    BY DEF TypeOK, Nobody
  <2>2. ActiveSince'
    BY DEF TypeOK, ActiveSince
  <2>3. LoopsLookedUp'
    BY DEF TypeOK, LoopsLookedUp
  <2>4. QuietBounded'
    BY DEF TypeOK, QuietBounded, Ticking
  <2>. QED BY <2>1, <2>2, <2>3, <2>4
<1>10. ASSUME NEW w \in Writers, NEW first \in {"event", "data"}, OnRecv(w, first)
      PROVE  IInv'
  <2>. USE <1>10 DEF OnRecv, WriteMoves
  <2>1. TypeOK'
    BY DEF TypeOK, Nobody
  <2>2. ActiveSince'
    BY DEF TypeOK, ActiveSince
  <2>3. LoopsLookedUp'
    BY DEF TypeOK, LoopsLookedUp
  <2>4. QuietBounded'
    BY DEF TypeOK, QuietBounded, Ticking
  <2>. QED BY <2>1, <2>2, <2>3, <2>4
<1>11. ASSUME NEW w \in Writers, WriteEvent(w)
      PROVE  IInv'
  <2>. USE <1>11 DEF WriteEvent, WriteMoves
  <2>1. TypeOK'
    BY DEF TypeOK, Nobody
  <2>2. ActiveSince'
    BY DEF TypeOK, ActiveSince
  <2>3. LoopsLookedUp'
    BY DEF TypeOK, LoopsLookedUp
  <2>4. QuietBounded'
    BY DEF TypeOK, QuietBounded, Ticking
  <2>. QED BY <2>1, <2>2, <2>3, <2>4
<1>12. ASSUME NEW w \in Writers, WriteData(w)
      PROVE  IInv'
  <2>. USE <1>12 DEF WriteData, WriteMoves
  <2>1. TypeOK'
    BY DEF TypeOK, Nobody
  <2>2. ActiveSince'
    BY DEF TypeOK, ActiveSince
  <2>3. LoopsLookedUp'
    BY DEF TypeOK, LoopsLookedUp
  <2>4. QuietBounded'
    BY DEF TypeOK, QuietBounded, Ticking
  <2>. QED BY <2>1, <2>2, <2>3, <2>4
<1>13. ASSUME NEW w \in Writers, WriteFails(w)
      PROVE  IInv'
  <2>. USE <1>13 DEF WriteFails, WriteMoves
  <2>1. TypeOK'
    BY DEF TypeOK, Nobody
  <2>2. ActiveSince'
    BY DEF TypeOK, ActiveSince
  <2>3. LoopsLookedUp'
    BY DEF TypeOK, LoopsLookedUp
  <2>4. QuietBounded'
    BY DEF TypeOK, QuietBounded, Ticking
  <2>. QED BY <2>1, <2>2, <2>3, <2>4
<1>14. ASSUME NEW w \in Writers, CloseAfterError(w)
      PROVE  IInv'
  <2>. USE <1>14 DEF CloseAfterError, WriteMoves
  <2>1. TypeOK'
    BY DEF TypeOK, Nobody
  <2>2. ActiveSince'
    BY DEF TypeOK, ActiveSince
  <2>3. LoopsLookedUp'
    BY DEF TypeOK, LoopsLookedUp
  <2>4. QuietBounded'
    BY DEF TypeOK, QuietBounded, Ticking
  <2>. QED BY <2>1, <2>2, <2>3, <2>4
<1>15. CASE OnClose
  <2>. USE <1>15 DEF OnClose
  <2>1. TypeOK'
    BY DEF TypeOK, Nobody
  <2>2. ActiveSince'
    BY DEF TypeOK, ActiveSince
  <2>3. LoopsLookedUp'
    BY DEF TypeOK, LoopsLookedUp
  <2>4. QuietBounded'
    BY DEF TypeOK, QuietBounded, Ticking
  <2>. QED BY <2>1, <2>2, <2>3, <2>4
<1>16. CASE Disconnect
  <2>. USE <1>16 DEF Disconnect
  <2>1. TypeOK'
    BY DEF TypeOK, Nobody
  <2>2. ActiveSince'
    BY DEF TypeOK, ActiveSince
  <2>3. LoopsLookedUp'
    BY DEF TypeOK, LoopsLookedUp
  <2>4. QuietBounded'
    BY DEF TypeOK, QuietBounded, Ticking
  <2>. QED BY <2>1, <2>2, <2>3, <2>4
<1>17. CASE Tick
  <2>. USE <1>17 DEF Tick
  <2>1. TypeOK'
    BY DEF TypeOK, OneMore, Ticking
  <2>2. ~broken => quiet <= lastActive
    BY DEF ActiveSince, Settled
  <2>3. ActiveSince'
    BY <2>2 DEF TypeOK, ActiveSince, OneMore
  <2>4. LoopsLookedUp'
    BY DEF TypeOK, LoopsLookedUp, Settled, Ticking
  <2>5. QuietBounded'
    <3>. SUFFICES ASSUME Ticking # {}, ~broken PROVE quiet' <= Timeout + 1
      BY DEF QuietBounded, Ticking
    <3>1. PICK r \in Runs : loop[r] = "select" /\ ~tick[r]
      BY DEF Settled, Ticking
    <3>2. quiet <= Timeout
      BY <2>2, <3>1 DEF LoopsLookedUp, TypeOK
    <3>. QED BY <3>2 DEF OneMore, TypeOK
  <2>. QED BY <2>1, <2>3, <2>4, <2>5
<1>. QED
  BY <1>1, <1>2, <1>3, <1>4, <1>5, <1>6, <1>7, <1>8, <1>9, <1>10, <1>11, <1>12, <1>13, <1>14,
     <1>15, <1>16, <1>17 DEF Next, Goroutine, Writing

-------------------------------------------------------------------------------
LEMMA Invariance == Spec => []IInv
BY InitEstablishes, StepKeeps, PTL DEF Spec

\* However many loops, tasks and senders race for lastActive, no client waits longer for
\* a sign of life than timerTimeout and a tick (server.go:169-203, heartbeat, OnRecv).
THEOREM SilenceEnds == Spec => []QuietBounded
<1>1. IInv => QuietBounded
  BY DEF IInv
<1>. QED BY <1>1, Invariance, PTL

===============================================================================
