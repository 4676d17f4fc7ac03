----------------------- MODULE PublisherLifecycleProofs -----------------------
(***************************************************************************)
(* Proofs about the life cycle of an OutboxPublisher, for any number of    *)
(* callers of run_once, of calls of stop and of cancellations.             *)
(*                                                                         *)
(* ClosedIsQuiet rests on an inductive invariant: the run task holds the   *)
(* running flag for as long as it can still act, its own cycle is counted  *)
(* exactly while it waits for it, and a stop that no longer waits for the  *)
(* run task has closed the door behind it.                                 *)
(***************************************************************************)
EXTENDS PublisherLifecycle, TLAPS

(* The run task before it starts or after it has left its finally block,   *)
(* and the task on its way.                                                *)
Gone == {"none", "ended", "interrupted"}
Acting == {"created", "looping", "polling", "cycle", "draining"}

LoopCycleCounted == run = "cycle" <=> cycle[Loop] # "out"

ActingIsRunning == run \in Acting => running

ClosedIsOver == closed => Drained /\ ~running /\ ~closing /\ run \in Gone

FinallyCloses == run \in {"ended", "interrupted"} => closed

StopClosesDoor ==
  \A s \in Stoppers : stopper[s] = "cycles" =>
    run \in Gone /\ (closing \/ closed)

LifeInv ==
  /\ TypeOK
  /\ LoopCycleCounted
  /\ ActingIsRunning
  /\ ClosedIsOver
  /\ FinallyCloses
  /\ StopClosesDoor

-----------------------------------------------------------------------------
(* The types of the variables, as separate facts.                          *)
LEMMA TypeParts ==
  TypeOK <=> /\ running \in BOOLEAN /\ closing \in BOOLEAN /\ closed \in BOOLEAN
             /\ run \in RunStates
             /\ cycle \in [Owners -> CycleStates]
             /\ hit \subseteq Owners
             /\ uncertain \subseteq Owners
             /\ stopper \in [Stoppers -> StopStates]
             /\ abandoned \in Nat
             /\ unconfirmed \in BOOLEAN /\ cancelled \in BOOLEAN
             /\ lost \in BOOLEAN
             /\ cancels \in [run : Nat, callers : Nat]
BY DEF TypeOK

(* Where a step can leave the run task, the flags and the cycle of its own *)
(* when a cycle ends (_release_cycle and the code after it).               *)
LEMMA LeaveTypes ==
  ASSUME TypeOK, NEW c \in Owners, NEW i \in BOOLEAN, Leave(c, i)
  PROVE  /\ cycle' \in [Owners -> CycleStates]
         /\ hit' \subseteq Owners /\ uncertain' \subseteq Owners
         /\ cancelled' \in BOOLEAN
         /\ run' \in RunStates
         /\ closing' \in BOOLEAN /\ closed' = closed
<1>1. cycle' \in [Owners -> CycleStates]
  BY TypeParts DEF Leave, CycleStates
<1>2. hit' \subseteq Owners /\ uncertain' \subseteq Owners
  BY TypeParts DEF Leave
<1>3. cancelled' \in BOOLEAN
  BY TypeParts DEF Leave
<1>4. run' \in RunStates
  BY TypeParts DEF Leave, AfterCycle, RunStates
<1>5. closing' \in BOOLEAN /\ closed' = closed
  BY TypeParts DEF Leave, AfterCycle, BeginClosing
<1> QED BY <1>1, <1>2, <1>3, <1>4, <1>5

(* A cycle is interrupted or it is not.                                    *)
LEMMA LeaveEither ==
  ASSUME NEW c \in Owners, Leave(c, c \in hit)
  PROVE  \E i \in BOOLEAN : Leave(c, i) /\ (i <=> c \in hit)
<1>1. CASE c \in hit
  <2>1. Leave(c, TRUE)
    BY <1>1 DEF Leave, AfterCycle
  <2> QED BY <1>1, <2>1
<1>2. CASE c \notin hit
  <2>1. Leave(c, FALSE)
    BY <1>2 DEF Leave, AfterCycle
  <2> QED BY <1>2, <2>1
<1> QED BY <1>1, <1>2

LEMMA TypeStep ==
  ASSUME TypeOK, [Next]_vars
  PROVE  TypeOK'
<1> USE TypeParts
<1>1. CASE Start
  BY <1>1 DEF Start, TypeOK, RunStates, counters
<1>2. CASE LoopHead
  BY <1>2 DEF LoopHead, TypeOK, RunStates, CycleStates, Owners, flags, counters
<1>3. CASE Poll
  BY <1>3 DEF Poll, TypeOK, RunStates, flags, counters
<1>4. CASE FinishRun
  BY <1>4 DEF FinishRun, MarkClosed, TypeOK, RunStates, flags, counters
<1>5. CASE CancelRun
  <2>1. cancels' \in [run : Nat, callers : Nat]
    BY <1>5 DEF CancelRun
  <2>2. run' \in RunStates /\ hit' \subseteq Owners
    BY <1>5 DEF CancelRun, RunStates, Owners
  <2>3. closing' \in BOOLEAN /\ closed' \in BOOLEAN
    BY <1>5 DEF CancelRun, BeginClosing
  <2> QED BY <1>5, <2>1, <2>2, <2>3 DEF CancelRun, TypeOK, counters
<1>6. ASSUME NEW c \in Callers, RunOnce(c)
      PROVE  TypeOK'
  BY <1>6 DEF RunOnce, TypeOK, CycleStates, Owners, flags, counters
<1>7. ASSUME NEW c \in Callers, CancelCaller(c)
      PROVE  TypeOK'
  <2>1. cancels' \in [run : Nat, callers : Nat]
    BY <1>7 DEF CancelCaller
  <2>2. hit' \subseteq Owners
    BY <1>7 DEF CancelCaller, Owners
  <2> QED BY <1>7, <2>1, <2>2 DEF CancelCaller, TypeOK, flags, counters
<1>8. ASSUME NEW c \in Owners, TakeLock(c)
      PROVE  TypeOK'
  <2>1. CASE abandoned >= MaxCallbacks
    <3>1. Leave(c, FALSE)
      BY <1>8, <2>1 DEF TakeLock
    <3> QED BY <1>8, <3>1, LeaveTypes DEF TakeLock, TypeOK
  <2>2. CASE ~(abandoned >= MaxCallbacks)
    BY <1>8, <2>2 DEF TakeLock, TypeOK, CycleStates
  <2> QED BY <2>1, <2>2
<1>9. ASSUME NEW c \in Owners, LeaveQueue(c)
      PROVE  TypeOK'
  BY <1>9, LeaveTypes DEF LeaveQueue, TypeOK
<1>10. ASSUME NEW c \in Owners, ClaimReturns(c)
       PROVE  TypeOK'
  <2>1. CASE Leave(c, c \in hit)
    BY <1>10, <2>1, LeaveTypes, LeaveEither DEF ClaimReturns, TypeOK
  <2>2. CASE /\ cycle' = [cycle EXCEPT ![c] = "publish"]
             /\ UNCHANGED <<run, closing, closed, hit, uncertain, cancelled>>
    BY <1>10, <2>2 DEF ClaimReturns, TypeOK, CycleStates
  <2> QED BY <1>10, <2>1, <2>2 DEF ClaimReturns
<1>11. ASSUME NEW c \in Owners, NEW a \in BOOLEAN, CallEnds(c, a)
       PROVE  TypeOK'
  <2>1. abandoned' \in Nat /\ uncertain' \subseteq Owners
    BY <1>11 DEF CallEnds
  <2>2. unconfirmed' \in BOOLEAN
    BY <1>11 DEF CallEnds
  <2>3. cycle' \in [Owners -> CycleStates]
    BY <1>11 DEF CallEnds, CycleStates
  <2> QED BY <1>11, <2>1, <2>2, <2>3 DEF CallEnds, TypeOK, flags
<1>12. ASSUME NEW c \in Owners, NEW a \in BOOLEAN, PersistReturns(c, a)
       PROVE  TypeOK'
  <2>1. unconfirmed' \in BOOLEAN /\ lost' \in BOOLEAN
    BY <1>12 DEF PersistReturns
  <2>2. Leave(c, c \in hit)
    BY <1>12 DEF PersistReturns
  <2> QED BY <1>12, <2>1, <2>2, LeaveTypes, LeaveEither
          DEF PersistReturns, TypeOK
<1>13. CASE CallbackEnds
  BY <1>13 DEF CallbackEnds, TypeOK, flags, counters
<1>14. CASE RequestStop
  BY <1>14 DEF RequestStop, BeginClosing, TypeOK, counters
<1>15. ASSUME NEW s \in Stoppers, Stop(s)
       PROVE  TypeOK'
  <2>1. stopper' \in [Stoppers -> StopStates]
    BY <1>15 DEF Stop, StopStates
  <2>2. closing' \in BOOLEAN /\ closed' \in BOOLEAN
    BY <1>15 DEF Stop, BeginClosing
  <2> QED BY <1>15, <2>1, <2>2 DEF Stop, TypeOK, counters
<1>16. ASSUME NEW s \in Stoppers, RunAwaited(s)
       PROVE  TypeOK'
  BY <1>16 DEF RunAwaited, TypeOK, StopStates, flags, counters
<1>17. ASSUME NEW s \in Stoppers, StopReturns(s)
       PROVE  TypeOK'
  BY <1>17 DEF StopReturns, MarkClosed, TypeOK, StopStates, flags, counters
<1>18. CASE UNCHANGED vars
  BY <1>18 DEF vars, TypeOK, flags, counters
<1> QED
  BY <1>1, <1>2, <1>3, <1>4, <1>5, <1>6, <1>7, <1>8, <1>9, <1>10, <1>11,
     <1>12, <1>13, <1>14, <1>15, <1>16, <1>17, <1>18
  DEF Next, RunStep, CycleStep, StopStep

LEMMA TypeInit == Init => TypeOK
<1> SUFFICES ASSUME Init PROVE TypeOK
  OBVIOUS
<1>1. cancels \in [run : Nat, callers : Nat]
  BY DEF Init
<1>2. /\ run \in RunStates
      /\ cycle \in [Owners -> CycleStates]
      /\ stopper \in [Stoppers -> StopStates]
  BY DEF Init, RunStates, CycleStates, StopStates
<1> QED BY <1>1, <1>2, TypeParts DEF Init

-----------------------------------------------------------------------------
(* Cycles that only move on: no flag, no run task and no stop changes, and *)
(* the same cycles are counted before and after.                           *)
LEMMA MovesOn ==
  ASSUME LifeInv, TypeOK',
         UNCHANGED <<running, closing, closed, run, stopper>>,
         \A o \in Owners : cycle'[o] = "out" <=> cycle[o] = "out"
  PROVE  LifeInv'
BY DEF LifeInv, LoopCycleCounted, ActingIsRunning, ClosedIsOver,
       FinallyCloses, StopClosesDoor, Drained, Owners, Gone, Acting

(* A cycle that is counted ends: the loop goes on, or begins to close.     *)
LEMMA LeaveKeeps ==
  ASSUME LifeInv, TypeOK', NEW c \in Owners, NEW i \in BOOLEAN, Leave(c, i),
         cycle[c] # "out", UNCHANGED <<running, stopper>>
  PROVE  LifeInv'
<1> USE TypeParts DEF LifeInv
<1>1. ~closed /\ ~closed'
  BY LeaveTypes DEF ClosedIsOver, Drained
<1>2. CASE c # Loop
  <2>1. UNCHANGED <<run, closing, closed>> /\ cycle'[Loop] = cycle[Loop]
    BY <1>2 DEF Leave, AfterCycle, Owners
  <2> QED BY <1>1, <2>1
          DEF LoopCycleCounted, ActingIsRunning, ClosedIsOver, FinallyCloses,
              StopClosesDoor
<1>3. CASE c = Loop
  <2>1. run = "cycle" /\ running
    BY <1>3 DEF LoopCycleCounted, ActingIsRunning, Acting
  <2>2. cycle'[Loop] = "out"
    BY <1>3 DEF Leave, Owners
  <2>3. run' \in {"draining", "looping", "polling"}
    BY <1>3 DEF Leave, AfterCycle
  <2>4. LoopCycleCounted'
    BY <2>2, <2>3 DEF LoopCycleCounted
  <2>5. ActingIsRunning' /\ ClosedIsOver' /\ FinallyCloses'
    BY <1>1, <2>1, <2>3 DEF ActingIsRunning, ClosedIsOver, FinallyCloses
  <2>6. StopClosesDoor'
    BY <2>1 DEF StopClosesDoor, Gone
  <2> QED BY <2>4, <2>5, <2>6
<1> QED BY <1>2, <1>3

LEMMA LifeStep ==
  ASSUME LifeInv, [Next]_vars
  PROVE  LifeInv'
<1> USE TypeParts
<1>0. TypeOK /\ TypeOK'
  BY TypeStep DEF LifeInv
<1>1. CASE Start
  <2>1. run \notin Acting /\ run' = "created" /\ cycle' = cycle
    BY <1>1 DEF Start, LifeInv, ActingIsRunning
  <2>2. LoopCycleCounted' /\ ActingIsRunning' /\ ClosedIsOver' /\ FinallyCloses'
    BY <1>0, <1>1, <2>1 DEF Start, LifeInv, LoopCycleCounted, ActingIsRunning,
       ClosedIsOver, FinallyCloses, Acting
  <2>3. StopClosesDoor'
    BY <1>1 DEF Start, LifeInv, StopClosesDoor
  <2> QED BY <1>0, <2>2, <2>3 DEF LifeInv
<1>2. CASE LoopHead
  <2>1. running /\ ~closed /\ UNCHANGED <<running, closing, closed, stopper>>
    BY <1>0, <1>2 DEF LoopHead, flags, LifeInv, ActingIsRunning, ClosedIsOver,
       Acting, Gone
  <2>2. LoopCycleCounted'
    BY <1>0, <1>2 DEF LoopHead, LifeInv, LoopCycleCounted, Owners
  <2>3. run' \in {"draining", "cycle"}
    BY <1>2 DEF LoopHead
  <2>4. StopClosesDoor'
    BY <1>2, <2>1 DEF LoopHead, LifeInv, StopClosesDoor, Gone
  <2> QED BY <1>0, <2>1, <2>2, <2>3, <2>4
          DEF LifeInv, ActingIsRunning, ClosedIsOver, FinallyCloses
<1>3. CASE Poll
  <2>1. running /\ UNCHANGED <<running, closing, closed, stopper, cycle>>
    BY <1>0, <1>3 DEF Poll, flags, LifeInv, ActingIsRunning, Acting
  <2>2. run = "polling" /\ run' = "looping"
    BY <1>3 DEF Poll
  <2> QED BY <1>0, <2>1, <2>2 DEF LifeInv, LoopCycleCounted, ActingIsRunning,
          ClosedIsOver, FinallyCloses, StopClosesDoor, Gone
<1>4. CASE FinishRun
  <2>1. /\ Drained /\ Drained' /\ ~running' /\ ~closing' /\ closed'
        /\ run' \in {"ended", "interrupted"}
        /\ UNCHANGED <<stopper, cycle>>
    BY <1>4 DEF FinishRun, MarkClosed, Drained
  <2> QED BY <1>0, <2>1 DEF LifeInv, LoopCycleCounted, ActingIsRunning,
          ClosedIsOver, FinallyCloses, StopClosesDoor, Gone, Acting, Drained,
          Owners
<1>5. CASE CancelRun
  <2>1. CASE run \in {"created", "draining"}
    <3>1. run' = "broken" /\ UNCHANGED <<running, closing, closed, stopper, cycle>>
      BY <1>5, <2>1 DEF CancelRun
    <3> QED BY <1>0, <2>1, <3>1 DEF LifeInv, LoopCycleCounted, ActingIsRunning,
            ClosedIsOver, FinallyCloses, StopClosesDoor, Gone, Acting
  <2>2. CASE run = "polling"
    <3>1. /\ run' = "draining" /\ closed' = closed
          /\ UNCHANGED <<running, stopper, cycle>>
      BY <1>5, <2>2 DEF CancelRun, BeginClosing
    <3> QED BY <1>0, <2>2, <3>1 DEF LifeInv, LoopCycleCounted, ActingIsRunning,
            ClosedIsOver, FinallyCloses, StopClosesDoor, Gone, Acting
  <2>3. CASE run = "cycle"
    <3>1. UNCHANGED <<running, closing, closed, run, stopper, cycle>>
      BY <1>5, <2>3 DEF CancelRun
    <3> QED BY <1>0, <3>1, MovesOn
  <2> QED BY <1>5, <2>1, <2>2, <2>3 DEF CancelRun
<1>6. ASSUME NEW c \in Callers, RunOnce(c)
      PROVE  LifeInv'
  <2>1. /\ ~closed /\ UNCHANGED <<running, closing, closed, run, stopper>>
        /\ cycle'[Loop] = cycle[Loop]
    BY <1>0, <1>6, LoopAssumption DEF RunOnce, flags, Owners
  <2> QED BY <1>0, <2>1 DEF LifeInv, LoopCycleCounted, ActingIsRunning,
          ClosedIsOver, FinallyCloses, StopClosesDoor
<1>7. ASSUME NEW c \in Callers, CancelCaller(c)
      PROVE  LifeInv'
  BY <1>0, <1>7, MovesOn DEF CancelCaller, flags
<1>8. ASSUME NEW c \in Owners, TakeLock(c)
      PROVE  LifeInv'
  <2>1. CASE abandoned >= MaxCallbacks
    BY <1>0, <1>8, <2>1, LeaveKeeps DEF TakeLock
  <2>2. CASE ~(abandoned >= MaxCallbacks)
    BY <1>0, <1>8, <2>2, MovesOn DEF TakeLock
  <2> QED BY <2>1, <2>2
<1>9. ASSUME NEW c \in Owners, LeaveQueue(c)
      PROVE  LifeInv'
  BY <1>0, <1>9, LeaveKeeps DEF LeaveQueue
<1>10. ASSUME NEW c \in Owners, ClaimReturns(c)
       PROVE  LifeInv'
  <2>1. CASE Leave(c, c \in hit)
    BY <1>0, <1>10, <2>1, LeaveKeeps, LeaveEither DEF ClaimReturns
  <2>2. CASE /\ cycle' = [cycle EXCEPT ![c] = "publish"]
             /\ UNCHANGED <<run, closing, closed, hit, uncertain, cancelled>>
    BY <1>0, <1>10, <2>2, MovesOn DEF ClaimReturns
  <2> QED BY <1>10, <2>1, <2>2 DEF ClaimReturns
<1>11. ASSUME NEW c \in Owners, NEW a \in BOOLEAN, CallEnds(c, a)
       PROVE  LifeInv'
  BY <1>0, <1>11, MovesOn DEF CallEnds, flags
<1>12. ASSUME NEW c \in Owners, NEW a \in BOOLEAN, PersistReturns(c, a)
       PROVE  LifeInv'
  BY <1>0, <1>12, LeaveKeeps, LeaveEither DEF PersistReturns
<1>13. CASE CallbackEnds
  BY <1>0, <1>13, MovesOn DEF CallbackEnds, flags
<1>14. CASE RequestStop
  <2>1. closed' = closed /\ UNCHANGED <<running, run, stopper, cycle>>
    BY <1>14 DEF RequestStop, BeginClosing
  <2>2. closing => closing'
    BY <1>0, <1>14 DEF RequestStop, BeginClosing
  <2>3. closed => (closing' <=> closing)
    BY <1>0, <1>14 DEF RequestStop, BeginClosing
  <2> QED BY <1>0, <2>1, <2>2, <2>3 DEF LifeInv, LoopCycleCounted,
          ActingIsRunning, ClosedIsOver, FinallyCloses, StopClosesDoor, Drained
<1>15. ASSUME NEW s \in Stoppers, Stop(s)
       PROVE  LifeInv'
  <2>1. closed' = closed /\ UNCHANGED <<running, run, cycle>>
    BY <1>15 DEF Stop, BeginClosing
  <2>2. closing' \/ closed
    BY <1>0, <1>15 DEF Stop, BeginClosing
  <2>3. closed => (closing' <=> closing)
    BY <1>0, <1>15 DEF Stop, BeginClosing
  <2>4. stopper'[s] = "cycles" => run \in Gone
    BY <1>0, <1>15 DEF Stop, Gone
  <2>5. \A t \in Stoppers \ {s} : stopper'[t] = stopper[t]
    BY <1>0, <1>15 DEF Stop
  <2> QED BY <1>0, <2>1, <2>2, <2>3, <2>4, <2>5 DEF LifeInv, LoopCycleCounted,
          ActingIsRunning, ClosedIsOver, FinallyCloses, StopClosesDoor, Drained
<1>16. ASSUME NEW s \in Stoppers, RunAwaited(s)
       PROVE  LifeInv'
  <2>1. UNCHANGED <<running, closing, closed, run, cycle>>
    BY <1>16 DEF RunAwaited, flags
  <2>2. stopper'[s] = "cycles" => run = "ended"
    BY <1>0, <1>16 DEF RunAwaited
  <2>3. \A t \in Stoppers \ {s} : stopper'[t] = stopper[t]
    BY <1>0, <1>16 DEF RunAwaited
  <2> QED BY <1>0, <2>1, <2>2, <2>3 DEF LifeInv, LoopCycleCounted,
          ActingIsRunning, ClosedIsOver, FinallyCloses, StopClosesDoor, Drained,
          Gone
<1>17. ASSUME NEW s \in Stoppers, StopReturns(s)
       PROVE  LifeInv'
  <2>1. /\ Drained /\ Drained' /\ ~running' /\ ~closing' /\ closed'
        /\ UNCHANGED <<run, cycle>>
    BY <1>17 DEF StopReturns, MarkClosed, Drained
  <2>2. run \in Gone
    BY <1>17 DEF StopReturns, LifeInv, StopClosesDoor
  <2>3. \A t \in Stoppers : stopper'[t] = "cycles" => stopper[t] = "cycles"
    BY <1>0, <1>17 DEF StopReturns
  <2> QED BY <1>0, <2>1, <2>2, <2>3 DEF LifeInv, LoopCycleCounted,
          ActingIsRunning, ClosedIsOver, FinallyCloses, StopClosesDoor, Gone,
          Acting
<1>18. CASE UNCHANGED vars
  BY <1>0, <1>18, MovesOn DEF vars, flags
<1> QED
  BY <1>1, <1>2, <1>3, <1>4, <1>5, <1>6, <1>7, <1>8, <1>9, <1>10, <1>11,
     <1>12, <1>13, <1>14, <1>15, <1>16, <1>17, <1>18
  DEF Next, RunStep, CycleStep, StopStep

LEMMA LifeInit == Init => LifeInv
<1> SUFFICES ASSUME Init PROVE LifeInv
  OBVIOUS
<1>1. LoopCycleCounted /\ ActingIsRunning /\ ClosedIsOver /\ FinallyCloses
  BY DEF Init, LoopCycleCounted, ActingIsRunning, ClosedIsOver, FinallyCloses,
         Acting, Owners
<1>2. StopClosesDoor
  BY DEF Init, StopClosesDoor
<1> QED BY <1>1, <1>2, TypeInit DEF LifeInv

(* Whatever calls, stops and cancellations interleave on the event loop of *)
(* the publisher, the flags, the run task, the cycles and the counters     *)
(* keep the types the code gives them.                                     *)
THEOREM TypeCorrect == Spec => []TypeOK
BY TypeInit, TypeStep, PTL DEF Spec

(* _mark_closed is reached only when every accepted cycle has ended and    *)
(* the run task is past its finally block, and _accept_cycle lets nothing  *)
(* in afterwards: a closed publisher is quiet.                             *)
THEOREM ClosedPublisherIsQuiet == Spec => []ClosedIsQuiet
<1>1. LifeInv => ClosedIsQuiet
  BY DEF LifeInv, ClosedIsOver, ClosedIsQuiet, Gone
<1> QED BY <1>1, LifeInit, LifeStep, PTL DEF Spec

(* An attempt whose outcome stayed unknown is counted as unconfirmed, or   *)
(* the cycle that saw it as cancelled.                                     *)
LostIsCounted == lost => unconfirmed \/ cancelled

LEMMA LeaveCounts ==
  ASSUME TypeOK, NEW c \in Owners, Leave(c, c \in hit)
  PROVE  cancelled' <=> cancelled \/ c \in hit
BY TypeParts DEF Leave

LEMMA LostStep ==
  ASSUME TypeOK, LostIsCounted, [Next]_vars
  PROVE  LostIsCounted'
<1> USE TypeParts
<1>0. TypeOK'
  BY TypeStep
<1>1. ASSUME NEW c \in Owners, NEW a \in BOOLEAN, PersistReturns(c, a)
      PROVE  LostIsCounted'
  <2>1. cancelled' <=> cancelled \/ c \in hit
    BY <1>1, LeaveCounts DEF PersistReturns
  <2>2. lost' <=> lost \/ ~a
    BY <1>1 DEF PersistReturns
  <2>3. unconfirmed' <=> unconfirmed \/ (~a /\ c \notin uncertain \cap hit)
    BY <1>1 DEF PersistReturns
  <2> QED BY <2>1, <2>2, <2>3 DEF LostIsCounted
<1>2. ASSUME NEW c \in Owners, NEW a \in BOOLEAN, CallEnds(c, a)
      PROVE  LostIsCounted'
  <2>1. unconfirmed => unconfirmed'
    BY <1>2 DEF CallEnds
  <2> QED BY <1>2, <2>1 DEF CallEnds, LostIsCounted
<1>3. ASSUME NEW c \in Owners, TakeLock(c) \/ LeaveQueue(c) \/ ClaimReturns(c)
      PROVE  LostIsCounted'
  <2>1. (cancelled => cancelled') /\ UNCHANGED <<lost, unconfirmed>>
    BY <1>3 DEF TakeLock, LeaveQueue, ClaimReturns, Leave
  <2> QED BY <2>1 DEF LostIsCounted
<1>4. CASE UNCHANGED counters
  BY <1>4 DEF counters, LostIsCounted
<1> QED
  BY <1>1, <1>2, <1>3, <1>4
  DEF Next, RunStep, CycleStep, StopStep, vars, Start, LoopHead, Poll, FinishRun,
      CancelRun, RunOnce, CancelCaller, CallbackEnds, RequestStop, Stop,
      RunAwaited, StopReturns

(* shutdown_clean, read from the statistics of a closed publisher, is true *)
(* only if no attempt ended with its outcome unknown, however its cycle    *)
(* was cancelled.                                                          *)
THEOREM CleanShutdownIsTruthful == Spec => []CleanIsTruthful
<1>1. Init => LostIsCounted
  BY DEF Init, LostIsCounted
<1>2. LostIsCounted => CleanIsTruthful
  BY DEF LostIsCounted, CleanIsTruthful, ShutdownClean
<1> QED BY <1>1, <1>2, LostStep, TypeInit, TypeStep, PTL DEF Spec
=============================================================================
