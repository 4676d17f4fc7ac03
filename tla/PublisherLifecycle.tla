-------------------------- MODULE PublisherLifecycle --------------------------
(***************************************************************************)
(* The life cycle of one OutboxPublisher object (publisher.py): start,     *)
(* run, run_once, request_stop and stop on one asyncio event loop.  Cycles *)
(* come from the run loop and from callers of run_once; a cycle lock       *)
(* serialises them.  What a cycle does to the outbox is the subject of     *)
(* OutboxPublisher; here a cycle is the awaits it passes through.          *)
(*                                                                         *)
(* The code between two awaits is one step.                                *)
(***************************************************************************)
EXTENDS Integers, FiniteSets

CONSTANTS
  Callers,        \* tasks that call run_once directly
  Stoppers,       \* tasks that call stop
  Loop,           \* the run task, as the caller of its own cycles
  MaxCallbacks,   \* max_callback_tasks
  MaxRunCancels,  \* how often the owner cancels the run task
  MaxCancels      \* how often callers of run_once are cancelled

ASSUME LoopAssumption == Loop \notin Callers
ASSUME LimitsAssumption ==
  /\ MaxCallbacks \in Nat \ {0}
  /\ MaxRunCancels \in Nat
  /\ MaxCancels \in Nat

VARIABLES
  running, closing, closed,  \* the flags of those names
  run,         \* where the run task is
  cycle,       \* where each cycle is
  hit,         \* cycles with a cancellation they have not delivered yet
  uncertain,   \* cycles with an attempt whose outcome is unknown
  stopper,     \* where each call of stop is
  abandoned,   \* callbacks still running after their deadline
  unconfirmed, \* accepted_unconfirmed > 0
  cancelled,   \* cancelled_cycles > 0
  lost,        \* history: an attempt ended with its outcome unknown
  cancels      \* history: cancellations of run and of its callers

flags == <<running, closing, closed>>
counters == <<unconfirmed, cancelled, lost>>
vars == <<flags, run, cycle, hit, uncertain, stopper, abandoned, counters,
          cancels>>

-----------------------------------------------------------------------------
Owners == Callers \cup {Loop}

(* A run task is created, sleeps between polls, waits for its own cycle,   *)
(* or drains; "ended" and "interrupted" have passed through the whole      *)
(* finally block, "broken" was cancelled outside of it or inside of it.    *)
RunStates == {"none", "created", "looping", "polling", "cycle", "draining",
              "ended", "interrupted", "broken"}
CycleStates == {"out", "lock", "store", "publish", "persist"}
StopStates == {"idle", "run", "cycles", "returned", "raised"}

TypeOK ==
  /\ {running, closing, closed} \subseteq BOOLEAN
  /\ run \in RunStates
  /\ cycle \in [Owners -> CycleStates]
  /\ hit \subseteq Owners
  /\ uncertain \subseteq Owners
  /\ stopper \in [Stoppers -> StopStates]
  /\ abandoned \in Nat
  /\ {unconfirmed, cancelled, lost} \subseteq BOOLEAN
  /\ cancels \in [run : Nat, callers : Nat]

Init ==
  /\ running = FALSE /\ closing = FALSE /\ closed = FALSE
  /\ run = "none"
  /\ cycle = [c \in Owners |-> "out"]
  /\ hit = {}
  /\ uncertain = {}
  /\ stopper = [s \in Stoppers |-> "idle"]
  /\ abandoned = 0
  /\ unconfirmed = FALSE /\ cancelled = FALSE /\ lost = FALSE
  /\ cancels = [run |-> 0, callers |-> 0]

Drained == \A c \in Owners : cycle[c] = "out"

(* _begin_closing; _mark_closed does nothing while a cycle is active.      *)
BeginClosing == closing' = (closing \/ ~closed) /\ UNCHANGED closed

(* Mutant: an abandoned callback keeps the publisher from closing.         *)
MarkClosedAfterCallbacks ==
  IF Drained /\ abandoned = 0
  THEN running' = FALSE /\ closing' = FALSE /\ closed' = TRUE
  ELSE UNCHANGED flags

MarkClosed ==
  IF Drained THEN running' = FALSE /\ closing' = FALSE /\ closed' = TRUE
  ELSE UNCHANGED flags

-----------------------------------------------------------------------------
(* The run task. *)

Start ==
  /\ ~closing /\ ~closed /\ ~running
  /\ running' = TRUE
  /\ run' = "created"
  /\ UNCHANGED <<closing, closed, cycle, hit, uncertain, stopper, abandoned,
                 counters, cancels>>

(* The head of the loop: begin a cycle, or leave for the finally block.    *)
LoopHead ==
  /\ run \in {"created", "looping"}
  /\ IF closing
     THEN run' = "draining" /\ UNCHANGED cycle
     ELSE run' = "cycle" /\ cycle' = [cycle EXCEPT ![Loop] = "lock"]
  /\ UNCHANGED <<flags, hit, uncertain, stopper, abandoned, counters, cancels>>

Poll ==
  /\ run = "polling"
  /\ run' = "looping"
  /\ UNCHANGED <<flags, cycle, hit, uncertain, stopper, abandoned, counters,
                 cancels>>

(* Where the run task goes when its own cycle ends.                        *)
AfterCycle(c, interrupted) ==
  IF c # Loop THEN UNCHANGED <<run, closing, closed>>
  ELSE IF interrupted \/ closing THEN run' = "draining" /\ BeginClosing
  ELSE run' \in {"looping", "polling"} /\ UNCHANGED <<closing, closed>>

FinishRun ==
  /\ run = "draining"
  /\ Drained
  /\ MarkClosed
  /\ run' = IF cancels.run > 0 THEN "interrupted" ELSE "ended"
  /\ UNCHANGED <<cycle, hit, uncertain, stopper, abandoned, counters, cancels>>

(* The owner cancels the run task: before its first step and while it      *)
(* drains, nothing of the finally block is left to run.                    *)
CancelRun ==
  /\ cancels.run < MaxRunCancels
  /\ cancels' = [cancels EXCEPT !.run = @ + 1]
  /\ \/ /\ run \in {"created", "draining"}
        /\ run' = "broken"
        /\ UNCHANGED <<closing, closed, hit>>
     \/ /\ run = "polling"
        /\ run' = "draining"
        /\ BeginClosing
        /\ UNCHANGED hit
     \/ /\ run = "cycle"
        /\ hit' = hit \cup {Loop}
        /\ UNCHANGED <<run, closing, closed>>
  /\ UNCHANGED <<running, cycle, uncertain, stopper, abandoned, counters>>

-----------------------------------------------------------------------------
(* run_once. *)

(* Mutant: a cycle is accepted in every state of the publisher.            *)
AcceptAlways(c) ==
  /\ cycle[c] = "out"
  /\ cycle' = [cycle EXCEPT ![c] = "lock"]
  /\ UNCHANGED <<flags, run, hit, uncertain, stopper, abandoned, counters,
                 cancels>>

(* _accept_cycle: nothing is awaited between its check and its increment.  *)
RunOnce(c) ==
  /\ cycle[c] = "out"
  /\ ~closing /\ ~closed
  /\ cycle' = [cycle EXCEPT ![c] = "lock"]
  /\ UNCHANGED <<flags, run, hit, uncertain, stopper, abandoned, counters,
                 cancels>>

LockFree == \A c \in Owners : cycle[c] \in {"out", "lock"}

(* Mutant: a cancelled cycle is not counted.                               *)
LeaveUncounted(c, interrupted) ==
  /\ cycle' = [cycle EXCEPT ![c] = "out"]
  /\ hit' = hit \ {c}
  /\ uncertain' = uncertain \ {c}
  /\ UNCHANGED cancelled
  /\ AfterCycle(c, interrupted)

(* _release_cycle, with the counters of the batch or of its cancellation.  *)
Leave(c, interrupted) ==
  /\ cycle' = [cycle EXCEPT ![c] = "out"]
  /\ hit' = hit \ {c}
  /\ uncertain' = uncertain \ {c}
  /\ cancelled' = (cancelled \/ interrupted)
  /\ AfterCycle(c, interrupted)

(* With no callback slot left the cycle ends without a claim.              *)
TakeLock(c) ==
  /\ cycle[c] = "lock"
  /\ c \notin hit
  /\ LockFree
  /\ IF abandoned >= MaxCallbacks
     THEN Leave(c, FALSE)
     ELSE /\ cycle' = [cycle EXCEPT ![c] = "store"]
          /\ UNCHANGED <<run, closing, closed, hit, uncertain, cancelled>>
  /\ UNCHANGED <<running, stopper, abandoned, unconfirmed, lost, cancels>>

(* A cancellation reaches a cycle that waits for the lock.                 *)
LeaveQueue(c) ==
  /\ cycle[c] = "lock"
  /\ c \in hit
  /\ Leave(c, TRUE)
  /\ UNCHANGED <<running, stopper, abandoned, unconfirmed, lost, cancels>>

(* claim_outbox ends.  A cancellation is delivered only now; otherwise the *)
(* claim failed or was empty, or there is a message to publish.            *)
ClaimReturns(c) ==
  /\ cycle[c] = "store"
  /\ \/ Leave(c, c \in hit)
     \/ /\ c \notin hit
        /\ cycle' = [cycle EXCEPT ![c] = "publish"]
        /\ UNCHANGED <<run, closing, closed, hit, uncertain, cancelled>>
  /\ UNCHANGED <<running, stopper, abandoned, unconfirmed, lost, cancels>>

(* Mutant: a cancellation does not end the wait for the connector.         *)
CallEndsAnswered(c, answered) ==
  /\ cycle[c] = "publish"
  /\ c \notin hit /\ answered
  /\ cycle' = [cycle EXCEPT ![c] = "persist"]
  /\ UNCHANGED <<flags, run, hit, uncertain, stopper, abandoned, counters,
                 cancels>>

(* The connector answers in time, or it is abandoned at the deadline or at *)
(* the cancellation, with its outcome unknown.                             *)
CallEnds(c, answered) ==
  /\ cycle[c] = "publish"
  /\ c \in hit => ~answered
  /\ cycle' = [cycle EXCEPT ![c] = "persist"]
  /\ IF answered THEN UNCHANGED <<uncertain, abandoned>>
     ELSE uncertain' = uncertain \cup {c} /\ abandoned' = abandoned + 1
  /\ unconfirmed' = (unconfirmed \/ c \in hit)
  /\ UNCHANGED <<flags, run, hit, stopper, cancelled, lost, cancels>>

(* The outcome's transaction ends.  An acknowledgement that fails or is    *)
(* interrupted leaves an answered call unconfirmed as well.  The batch is  *)
(* recorded unless the cycle was cancelled in the meantime.                *)
PersistReturns(c, confirmed) ==
  /\ cycle[c] = "persist"
  /\ c \in uncertain => ~confirmed
  /\ lost' = (lost \/ ~confirmed)
  /\ unconfirmed' = (unconfirmed \/ (~confirmed /\ c \notin uncertain \cap hit))
  /\ Leave(c, c \in hit)
  /\ UNCHANGED <<running, stopper, abandoned, cancels>>

CancelCaller(c) ==
  /\ cancels.callers < MaxCancels
  /\ cycle[c] # "out"
  /\ hit' = hit \cup {c}
  /\ cancels' = [cancels EXCEPT !.callers = @ + 1]
  /\ UNCHANGED <<flags, run, cycle, uncertain, stopper, abandoned, counters>>

CallbackEnds ==
  /\ abandoned > 0
  /\ abandoned' = abandoned - 1
  /\ UNCHANGED <<flags, run, cycle, hit, uncertain, stopper, counters, cancels>>

-----------------------------------------------------------------------------
(* request_stop and stop. *)

RequestStop ==
  /\ BeginClosing
  /\ UNCHANGED <<running, run, cycle, hit, uncertain, stopper, abandoned,
                 counters, cancels>>

(* stop waits for the run task it finds, then for the cycles.              *)
Stop(s) ==
  /\ stopper[s] = "idle"
  /\ IF closed
     THEN stopper' = [stopper EXCEPT ![s] = "returned"]
     ELSE stopper' = [stopper EXCEPT ![s] =
            IF run \in {"none", "ended", "interrupted"} THEN "cycles" ELSE "run"]
  /\ BeginClosing
  /\ UNCHANGED <<running, run, cycle, hit, uncertain, abandoned, counters,
                 cancels>>

(* Awaiting a cancelled run task raises CancelledError in stop.            *)
RunAwaited(s) ==
  /\ stopper[s] = "run"
  /\ run \in {"ended", "interrupted", "broken"}
  /\ stopper' = [stopper EXCEPT ![s] = IF run = "ended" THEN "cycles" ELSE "raised"]
  /\ UNCHANGED <<flags, run, cycle, hit, uncertain, abandoned, counters,
                 cancels>>

StopReturns(s) ==
  /\ stopper[s] = "cycles"
  /\ Drained
  /\ MarkClosed
  /\ stopper' = [stopper EXCEPT ![s] = "returned"]
  /\ UNCHANGED <<run, cycle, hit, uncertain, abandoned, counters, cancels>>

RunStep == LoopHead \/ Poll \/ FinishRun

CycleStep(c) ==
  \/ LeaveQueue(c)
  \/ ClaimReturns(c)
  \/ \E answered \in BOOLEAN : CallEnds(c, answered)
  \/ \E confirmed \in BOOLEAN : PersistReturns(c, confirmed)

StopStep(s) == RunAwaited(s) \/ StopReturns(s)

Next ==
  \/ Start
  \/ RunStep
  \/ CancelRun
  \/ \E c \in Callers : RunOnce(c) \/ CancelCaller(c)
  \/ \E c \in Owners : TakeLock(c) \/ CycleStep(c)
  \/ CallbackEnds
  \/ RequestStop
  \/ \E s \in Stoppers : Stop(s) \/ StopStep(s)

Spec == Init /\ [][Next]_vars

-----------------------------------------------------------------------------
(* Properties. *)

(* A closed publisher is quiet: every cycle accepted before the stop has   *)
(* ended, none is accepted after it, and the run task is gone.             *)
ClosedIsQuiet ==
  closed => Drained /\ ~running /\ run \notin {"looping", "polling", "cycle"}

(* shutdown_clean is never reported after an attempt whose outcome stayed  *)
(* unknown, also when the batch that saw it was cancelled before its       *)
(* statistics were recorded.                                               *)
ShutdownClean == closed /\ ~unconfirmed /\ ~cancelled /\ abandoned = 0

CleanIsTruthful == ShutdownClean => ~lost

-----------------------------------------------------------------------------
(* Liveness.  The event loop runs what is ready, the deadline ends every   *)
(* call, every SQLite call returns, and asyncio.Lock is first come, first  *)
(* served.  The callback of an abandoned call may never end.               *)

Fairness ==
  /\ WF_vars(RunStep)
  /\ \A c \in Owners : WF_vars(CycleStep(c)) /\ SF_vars(TakeLock(c))
  /\ \A s \in Stoppers : WF_vars(StopStep(s))

FairSpec == Spec /\ Fairness

(* Every accepted cycle ends, behind whatever cycles and callbacks.        *)
AcceptedCycleEnds == \A c \in Owners : cycle[c] # "out" ~> cycle[c] = "out"

(* The docstring of stop: it closes after all accepted cycles have reached *)
(* a terminal or unconfirmed state.                                        *)
StopCloses == \A s \in Stoppers : stopper[s] # "idle" ~> closed

(* The same as long as nobody cancels the run task: whatever cycles,       *)
(* abandoned callbacks and other stops there are, a stop closes the        *)
(* publisher.                                                              *)
StopClosesUncancelled ==
  \A s \in Stoppers : stopper[s] # "idle" ~> closed \/ cancels.run > 0
=============================================================================
