---------------------------- MODULE Orchestrator ----------------------------
(***************************************************************************)
(* One workflow session of the orchestrator kernel (runtime.py) with its   *)
(* task graph (scheduler.py), its policy and its approvals (policy.py).    *)
(* Every state change is an event batch appended to the session's stream   *)
(* and then applied to memory; a restarted kernel replays the stream and   *)
(* refuses a history it cannot explain.                                    *)
(*                                                                         *)
(* One process runs the session (the docs exclude a second one).  It may   *)
(* die at any point; an append may fail, or land and raise without the     *)
(* readback being able to prove it.  The code between two awaits is one    *)
(* step.  Event envelopes (actor, correlation, causation) are left out.    *)
(***************************************************************************)
EXTENDS Integers, Sequences, FiniteSets, SequencesExt

CONSTANTS
  Order,           \* the task ids, in the order of the plan
  Plans,           \* the plans a session may be started with
  MaxConcurrency,  \* max_concurrency
  None             \* Python's None

Tasks == {Order[i] : i \in 1 .. Len(Order)}
Risks == 0 .. 4    \* RiskLevel.rank: none, low, medium, high, critical

(* What a plan says of a task.  "forbidden" and "safe" say whether the     *)
(* action is in forbidden_actions and in SAFE_READ_ACTIONS; "granted"      *)
(* whether the delegated authority lists it.                               *)
TaskSpec ==
  [deps : SUBSET Tasks, priority : 0 .. 100, forbidden : BOOLEAN,
   safe : BOOLEAN, external : BOOLEAN, irreversible : BOOLEAN, risk : Risks,
   granted : BOOLEAN, maxRisk : Risks, mayAffect : BOOLEAN]

ASSUME OrderAssumption ==
  Order \in Seq(Tasks) /\ Len(Order) > 0 /\ IsInjective(Order)
ASSUME PlansAssumption == Plans \subseteq [Tasks -> TaskSpec]
ASSUME LimitAssumption == MaxConcurrency \in Nat \ {0}

VARIABLES
  plan,     \* the requested plan, which no step changes
  log,      \* the session's event stream
  mem,      \* the kernel's projection of it, NotLoaded before recovery
  run,      \* where the call of run is: "idle", "top" of the loop, "batch"
  pc,       \* where each _run_task of the batch is
  life,     \* the kernel: "open", "closing" or "closed"
  invoked   \* history: how often each task's agent was called

vars == <<plan, log, mem, run, pc, life, invoked>>

-----------------------------------------------------------------------------
(* The task graph. *)

Done == {"completed", "superseded"}
Failed == {"failed", "blocked", "canceled"}
Statuses == {"pending", "ready", "running", "waiting_approval",
             "waiting_input"} \cup Done \cup Failed
Decisions == {"approve", "revise", "reject"}

ASSUME NoneAssumption == None \notin Tasks \cup Statuses \cup Decisions

Allowed ==
  [s \in Statuses |->
     CASE s = "pending"          -> {"ready", "blocked", "canceled"}
       [] s = "ready"            -> {"running", "blocked", "canceled"}
       [] s = "running"          -> {"completed", "failed", "waiting_input",
                                     "waiting_approval", "canceled"}
       [] s = "waiting_approval" -> {"ready", "canceled", "waiting_input"}
       [] s = "waiting_input"    -> {"ready", "canceled"}
       [] s = "completed"        -> {"superseded"}
       [] OTHER                  -> {}]

(* A projection: statuses, revisions, and each task's approval request,    *)
(* which is absent (None), pending or decided.                             *)
Projection ==
  [status : [Tasks -> Statuses], rev : [Tasks -> Nat],
   request : [Tasks -> {None, "pending"} \cup Decisions]]

NewGraph == [status |-> [t \in Tasks |-> "pending"],
             rev |-> [t \in Tasks |-> 0],
             request |-> [t \in Tasks |-> None]]

NotLoaded == [status |-> <<>>]

Loaded == mem # NotLoaded

(* Mutant: a task is ready once its dependencies have come to any end.     *)
RefreshTargetAnyEnd(g, t) ==
  IF g.status[t] # "pending" THEN None
  ELSE IF \A d \in plan[t].deps : g.status[d] \in Done \cup Failed THEN "ready"
  ELSE None

(* preview_refresh: where a pending task goes, in one pass.                *)
RefreshTarget(g, t) ==
  IF g.status[t] # "pending" THEN None
  ELSE IF \E d \in plan[t].deps : g.status[d] \in Failed THEN "blocked"
  ELSE IF \A d \in plan[t].deps : g.status[d] \in Done THEN "ready"
  ELSE None

Moved(g, t, to) ==
  [g EXCEPT !.status[t] = to, !.rev[t] = @ + 1]

Refreshed(g) ==
  [g EXCEPT
     !.status = [t \in Tasks |-> IF RefreshTarget(g, t) = None THEN @[t]
                                 ELSE RefreshTarget(g, t)],
     !.rev = [t \in Tasks |-> IF RefreshTarget(g, t) = None THEN @[t]
                              ELSE @[t] + 1]]

ReadyTasks(g) == {t \in Tasks : g.status[t] = "ready"}

(* ready() sorts by priority, then by id; ids sort in plan order.          *)
Index(t) == CHOOSE i \in 1 .. Len(Order) : Order[i] = t

Before(t, u) ==
  \/ plan[t].priority > plan[u].priority
  \/ plan[t].priority = plan[u].priority /\ Index(t) < Index(u)

-----------------------------------------------------------------------------
(* PolicyEngine.evaluate and Authority.permits. *)

Permits(i) ==
  i.granted /\ i.risk <= i.maxRisk /\ (i.external => i.mayAffect)

(* Mutant: delegated authority is looked at before the impact.             *)
EvaluateAuthorityFirst(i) ==
  IF i.forbidden THEN "deny"
  ELSE IF Permits(i) THEN "allow"
  ELSE IF i.safe /\ ~i.external /\ ~i.irreversible /\ i.risk <= 1 THEN "allow"
  ELSE "needs_approval"

Evaluate(i) ==
  IF i.forbidden THEN "deny"
  ELSE IF i.safe /\ ~i.external /\ ~i.irreversible /\ i.risk <= 1 THEN "allow"
  ELSE IF i.irreversible \/ i.risk >= 3 THEN "needs_approval"
  ELSE IF Permits(i) THEN "allow"
  ELSE "needs_approval"

(* _approved_tasks: the approval covers exactly this task.                 *)
Decision(t) ==
  IF Evaluate(plan[t]) = "needs_approval" /\ mem.request[t] = "approve"
  THEN "allow" ELSE Evaluate(plan[t])

-----------------------------------------------------------------------------
(* Events and appends. *)

Event(type, t) == [type |-> type, task |-> t, from |-> None, to |-> None,
                   rev |-> 0, decision |-> None]

StatusEvent(t, from, to, rev) ==
  [Event("status", t) EXCEPT !.from = from, !.to = to, !.rev = rev]

DecidedEvent(t, d) == [Event("decided", t) EXCEPT !.decision = d]

EventTypes == {"plan", "created", "status", "requested", "decided",
               "context", "started", "artifact", "result"}

Events ==
  [type : EventTypes, task : Tasks \cup {None},
   from : Statuses \cup {None}, to : Statuses \cup {None}, rev : Nat,
   decision : Decisions \cup {None}]

RefreshEvent(g, t) ==
  StatusEvent(t, "pending", RefreshTarget(g, t), g.rev[t] + 1)

RefreshEvents(g) ==
  LET upTo[n \in 0 .. Len(Order)] ==
        IF n = 0 THEN <<>>
        ELSE IF RefreshTarget(g, Order[n]) = None THEN upTo[n - 1]
        ELSE Append(upTo[n - 1], RefreshEvent(g, Order[n]))
  IN  upTo[Len(Order)]

(* idempotency_key, which is unique in a stream.                           *)
Key(e) == <<e.type, e.task, e.rev>>

HasKey(e) == \E i \in 1 .. Len(log) : Key(log[i]) = Key(e)

(* How _append_many_reconciled may end.  "unseen" has landed and raised,   *)
(* and the readback did not prove it.                                      *)
Outcomes == {"appended", "failed", "unseen"}

AppendMany(batch, outcome) ==
  /\ outcome # "failed" => \A i \in 1 .. Len(batch) : ~HasKey(batch[i])
  /\ log' = IF outcome = "failed" THEN log ELSE log \o batch

TypeOK ==
  /\ plan \in Plans
  /\ log \in Seq(Events)
  /\ mem \in Projection \cup {NotLoaded}
  /\ run \in {"idle", "top", "batch"}
  /\ pc \in [Tasks -> {"none", "queued", "hook", "compiling", "announcing",
                       "started", "invoking", "failing", "recording",
                       "publishing", "completing", "ended", "raised"}]
  /\ life \in {"open", "closing", "closed"}
  /\ invoked \in [Tasks -> Nat]

Init ==
  /\ plan \in Plans
  /\ log = <<>>
  /\ mem = NotLoaded
  /\ run = "idle"
  /\ pc = [t \in Tasks |-> "none"]
  /\ life = "open"
  /\ invoked = [t \in Tasks |-> 0]

-----------------------------------------------------------------------------
(* _recover_session: the stream is folded event by event into a candidate. *)
(* "awaiting" holds the sequence number of a waiting transition whose      *)
(* request has not been seen, "due" that of a decision whose transition    *)
(* has not been seen (0 if there is none).                                 *)

Candidate ==
  [graph |-> NewGraph, planned |-> FALSE, created |-> <<>>, moved |-> FALSE,
   awaiting |-> [t \in Tasks |-> 0], due |-> [t \in Tasks |-> 0], ok |-> TRUE]

Target(decision) ==
  CASE decision = "approve" -> "ready"
    [] decision = "revise"  -> "waiting_input"
    [] decision = "reject"  -> "canceled"

(* _apply_recovered_transition and the checks around it.                   *)
StatusAccepted(c, e, n) ==
  LET g == c.graph
      t == e.task
  IN  /\ Len(c.created) >= Len(Order) => c.created = Order
      /\ e.from = g.status[t]
      /\ e.rev = g.rev[t] + 1
      /\ e.to \in Allowed[e.from]
      /\ e.from = "waiting_approval" =>
           c.due[t] = n - 1 /\ c.due[t] # 0 /\ e.to = Target(g.request[t])
      /\ e.to = "waiting_approval" =>
           c.awaiting[t] = 0 /\ g.request[t] = None

Accepted(c, e, n) ==
  LET g == c.graph
      t == e.task
  IN  CASE e.type = "plan"      -> ~c.planned
        [] e.type = "created"   -> c.planned /\ ~c.moved
        [] e.type = "status"    -> c.planned /\ StatusAccepted(c, e, n)
        [] e.type = "requested" ->
             /\ c.planned
             /\ g.status[t] = "waiting_approval"
             /\ g.request[t] = None
             /\ c.awaiting[t] = n - 1 /\ c.awaiting[t] # 0
        [] e.type = "decided"   ->
             /\ c.planned
             /\ g.request[t] = "pending"
             /\ g.status[t] = "waiting_approval"
             /\ c.due[t] = 0
        [] OTHER -> TRUE

Applied(c, e, n) ==
  LET t == e.task
  IN  CASE e.type = "plan"      -> [c EXCEPT !.planned = TRUE]
        [] e.type = "created"   -> [c EXCEPT !.created = Append(@, t)]
        [] e.type = "status"    ->
             [c EXCEPT !.moved = TRUE, !.graph = Moved(@, t, e.to),
                       !.due[t] = IF e.from = "waiting_approval" THEN 0 ELSE @,
                       !.awaiting[t] = IF e.to = "waiting_approval" THEN n ELSE @]
        [] e.type = "requested" ->
             [c EXCEPT !.graph.request[t] = "pending", !.awaiting[t] = 0]
        [] e.type = "decided"   ->
             [c EXCEPT !.graph.request[t] = e.decision, !.due[t] = n]
        [] OTHER -> c

Stepped(c, e, n) ==
  IF c.ok /\ Accepted(c, e, n) THEN Applied(c, e, n) ELSE [c EXCEPT !.ok = FALSE]

Replay(events) ==
  LET upTo[n \in 0 .. Len(events)] ==
        IF n = 0 THEN Candidate ELSE Stepped(upTo[n - 1], events[n], n)
  IN  upTo[Len(events)]

(* The checks after the last event, but for the quarantine of RUNNING.     *)
Explained(c) ==
  /\ c.ok
  /\ c.planned => c.created = Order
  /\ \A t \in Tasks :
       /\ c.awaiting[t] = 0
       /\ c.due[t] = 0
       /\ c.graph.request[t] = "pending" => c.graph.status[t] = "waiting_approval"

(* _require_no_unreconciled_running_tasks.                                 *)
NoneRunning(g) == \A t \in Tasks : g.status[t] # "running"

-----------------------------------------------------------------------------
(* run. *)

Recover ==
  /\ life = "open"
  /\ run = "idle"
  /\ ~Loaded
  /\ LET c == Replay(log)
     IN  /\ c.planned
         /\ Explained(c)
         /\ NoneRunning(c.graph)
         /\ mem' = c.graph
  /\ run' = "top"
  /\ UNCHANGED <<plan, log, pc, life, invoked>>

(* A loaded session is quarantined by the same assertion.                  *)
Resume ==
  /\ life = "open"
  /\ run = "idle"
  /\ Loaded
  /\ NoneRunning(mem)
  /\ run' = "top"
  /\ UNCHANGED <<plan, log, mem, pc, life, invoked>>

(* _initialize_plan: plan, tasks and first readiness in one batch.         *)
Initialize(outcome) ==
  /\ life = "open"
  /\ run = "idle"
  /\ ~Loaded
  /\ ~Replay(log).planned
  /\ AppendMany(<<Event("plan", None)>>
                 \o [i \in 1 .. Len(Order) |-> Event("created", Order[i])]
                 \o RefreshEvents(NewGraph), outcome)
  /\ IF outcome = "appended" THEN mem' = Refreshed(NewGraph) /\ run' = "top"
     ELSE UNCHANGED <<mem, run>>
  /\ UNCHANGED <<plan, pc, life, invoked>>

(* The head of the loop: commit the refresh, then start a batch or return. *)
LoopTop(outcome) ==
  LET events == RefreshEvents(mem)
      g == Refreshed(mem)
  IN  /\ run = "top"
      /\ events = <<>> => outcome = "appended"
      /\ AppendMany(events, outcome)
      /\ IF outcome = "appended"
         THEN /\ mem' = g
              /\ run' = IF ReadyTasks(g) = {} THEN "idle" ELSE "batch"
              /\ pc' = [t \in Tasks |-> IF t \in ReadyTasks(g) THEN "queued" ELSE "none"]
         ELSE run' = "idle" /\ UNCHANGED <<mem, pc>>
      /\ UNCHANGED <<plan, life, invoked>>

Settled == {"none", "ended", "raised"}

(* gather has collected every outcome; the first exception is re-raised.   *)
BatchDone ==
  /\ run = "batch"
  /\ \A t \in Tasks : pc[t] \in Settled
  /\ run' = IF \E t \in Tasks : pc[t] = "raised" THEN "idle" ELSE "top"
  /\ pc' = [t \in Tasks |-> "none"]
  /\ UNCHANGED <<plan, log, mem, life, invoked>>

(* The caller of run is cancelled: every task of the batch ends where it   *)
(* waits, and its status stays what it is.                                 *)
CancelRun ==
  /\ run # "idle"
  /\ run' = "idle"
  /\ pc' = [t \in Tasks |-> "none"]
  /\ UNCHANGED <<plan, log, mem, life, invoked>>

-----------------------------------------------------------------------------
(* _run_task. *)

Goto(t, label) == pc' = [pc EXCEPT ![t] = label]

(* The semaphore admits tasks in the order of ready().                     *)
Admit(t) ==
  /\ pc[t] = "queued"
  /\ \A u \in Tasks : pc[u] = "queued" => ~Before(u, t)
  /\ Cardinality({u \in Tasks : pc[u] \notin Settled \cup {"queued"}})
       < MaxConcurrency
  /\ Goto(t, "hook")
  /\ UNCHANGED <<plan, log, mem, run, life, invoked>>

(* Commit moves of t: append them, then apply them to memory, then go on.  *)
(* Mutant: memory is changed before the append, and stays changed.         *)
CommitMemoryFirst(t, events, outcome, g, next) ==
  /\ AppendMany(events, outcome)
  /\ mem' = g
  /\ IF outcome = "appended" THEN Goto(t, next) ELSE Goto(t, "raised")

Commit(t, events, outcome, g, next) ==
  /\ AppendMany(events, outcome)
  /\ IF outcome = "appended" THEN mem' = g /\ Goto(t, next)
     ELSE UNCHANGED mem /\ Goto(t, "raised")

(* Mutant: a denied task is left ready.                                    *)
DenyKeepingReady(t, outcome) ==
  /\ outcome = "appended"
  /\ Goto(t, "ended")
  /\ UNCHANGED <<log, mem>>

Deny(t, outcome) ==
  LET rev == mem.rev[t]
  IN  Commit(t, <<StatusEvent(t, "ready", "running", rev + 1),
                  StatusEvent(t, "running", "failed", rev + 2)>>,
             outcome, Moved(Moved(mem, t, "running"), t, "failed"), "ended")

(* Mutant: the request is appended ahead of the transitions.               *)
RequestApprovalFirst(t, outcome) ==
  LET rev == mem.rev[t]
  IN  Commit(t, <<Event("requested", t),
                  StatusEvent(t, "ready", "running", rev + 1),
                  StatusEvent(t, "running", "waiting_approval", rev + 2)>>,
             outcome,
             [Moved(Moved(mem, t, "running"), t, "waiting_approval")
                EXCEPT !.request[t] = "pending"], "ended")

RequestApproval(t, outcome) ==
  LET rev == mem.rev[t]
  IN  IF mem.request[t] = "pending" THEN Goto(t, "raised") /\ UNCHANGED <<log, mem>>
      ELSE Commit(t, <<StatusEvent(t, "ready", "running", rev + 1),
                       StatusEvent(t, "running", "waiting_approval", rev + 2),
                       Event("requested", t)>>,
                  outcome,
                  [Moved(Moved(mem, t, "running"), t, "waiting_approval")
                     EXCEPT !.request[t] = "pending"], "ended")

(* Mutant: the agent is prepared although RUNNING is not durable.          *)
BeginUncommitted(t, outcome) ==
  /\ AppendMany(<<StatusEvent(t, "ready", "running", mem.rev[t] + 1)>>, outcome)
  /\ mem' = IF outcome = "appended" THEN Moved(mem, t, "running") ELSE mem
  /\ Goto(t, "compiling")

Begin(t, outcome) ==
  Commit(t, <<StatusEvent(t, "ready", "running", mem.rev[t] + 1)>>,
         outcome, Moved(mem, t, "running"), "compiling")

(* After the BEFORE_DISPATCH hooks, which may raise.                       *)
Dispatch(t, outcome) ==
  /\ pc[t] = "hook"
  /\ CASE Decision(t) = "deny"           -> Deny(t, outcome)
       [] Decision(t) = "needs_approval" -> RequestApproval(t, outcome)
       [] Decision(t) = "allow"          -> Begin(t, outcome)
  /\ UNCHANGED <<plan, run, life, invoked>>

HookRaises(t) ==
  /\ pc[t] \in {"hook", "recording"}
  /\ Goto(t, "raised")
  /\ UNCHANGED <<plan, log, mem, run, life, invoked>>

(* One ordinary event; an append that raises leads to "otherwise".         *)
Record(t, at, type, outcome, next, otherwise) ==
  /\ pc[t] = at
  /\ AppendMany(<<Event(type, t)>>, outcome)
  /\ Goto(t, IF outcome = "appended" THEN next ELSE otherwise)
  /\ UNCHANGED <<plan, mem, run, life, invoked>>

CompileContext(t, outcome) ==
  Record(t, "compiling", "context", outcome, "announcing", "failing")

Announce(t, outcome) ==
  Record(t, "announcing", "started", outcome, "started", "failing")

(* The BEFORE_AGENT hooks, then registry.invoke, which a closing kernel    *)
(* refuses.                                                                *)
Invoke(t) ==
  /\ pc[t] = "started"
  /\ life = "open"
  /\ Goto(t, "invoking")
  /\ invoked' = [invoked EXCEPT ![t] = @ + 1]
  /\ UNCHANGED <<plan, log, mem, run, life>>

InvokeRefused(t) ==
  /\ pc[t] = "started"
  /\ Goto(t, "failing")
  /\ UNCHANGED <<plan, log, mem, run, life, invoked>>

(* The agent returns or raises.                                            *)
AgentEnds(t, returned) ==
  /\ pc[t] = "invoking"
  /\ Goto(t, IF returned THEN "recording" ELSE "failing")
  /\ UNCHANGED <<plan, log, mem, run, life, invoked>>

(* The last append of a task; the AFTER_DISPATCH hooks may raise after it. *)
Finish(t, status, outcome, hooks) ==
  /\ Commit(t, <<StatusEvent(t, "running", status, mem.rev[t] + 1)>>,
            outcome, Moved(mem, t, status), hooks)
  /\ UNCHANGED <<plan, run, life, invoked>>

Fail(t, outcome, hooks) ==
  pc[t] = "failing" /\ Finish(t, "failed", outcome, hooks)

(* After the AFTER_AGENT hooks.  What fails from here on leaves RUNNING.   *)
RecordArtifact(t, outcome) ==
  Record(t, "recording", "artifact", outcome, "publishing", "raised")

PublishResult(t, outcome) ==
  Record(t, "publishing", "result", outcome, "completing", "raised")

Complete(t, outcome, hooks) ==
  pc[t] = "completing" /\ Finish(t, "completed", outcome, hooks)

-----------------------------------------------------------------------------
(* decide, close and the death of the process. *)

(* decide waits for the session lock, which run holds.                     *)
Decide(t, d, outcome) ==
  /\ life = "open"
  /\ run = "idle"
  /\ Loaded
  /\ mem.request[t] = "pending"
  /\ mem.status[t] = "waiting_approval"
  /\ AppendMany(<<DecidedEvent(t, d),
                  StatusEvent(t, "waiting_approval", Target(d), mem.rev[t] + 1)>>,
                outcome)
  /\ mem' = IF outcome = "appended"
            THEN [Moved(mem, t, Target(d)) EXCEPT !.request[t] = d]
            ELSE mem
  /\ UNCHANGED <<plan, run, pc, life, invoked>>

Close ==
  /\ life = "open"
  /\ life' = "closing"
  /\ UNCHANGED <<plan, log, mem, run, pc, invoked>>

(* The runtimes are closed once their calls have ended.                    *)
CloseEnds ==
  /\ life = "closing"
  /\ \A t \in Tasks : pc[t] # "invoking"
  /\ life' = "closed"
  /\ UNCHANGED <<plan, log, mem, run, pc, invoked>>

(* The process dies and a new kernel is made.                              *)
Crash ==
  /\ mem' = NotLoaded
  /\ run' = "idle"
  /\ pc' = [t \in Tasks |-> "none"]
  /\ life' = "open"
  /\ UNCHANGED <<plan, log, invoked>>

RunStep ==
  BatchDone \/ \E o \in Outcomes : LoopTop(o)

TaskStep(t) ==
  \/ Admit(t)
  \/ \E o \in Outcomes :
       \/ Dispatch(t, o)
       \/ CompileContext(t, o)
       \/ Announce(t, o)
       \/ RecordArtifact(t, o)
       \/ PublishResult(t, o)
       \/ \E hooks \in {"ended", "raised"} : Fail(t, o, hooks) \/ Complete(t, o, hooks)
  \/ Invoke(t)
  \/ InvokeRefused(t)
  \/ \E returned \in BOOLEAN : AgentEnds(t, returned)

CallerStep ==
  \/ Recover
  \/ Resume
  \/ \E o \in Outcomes : Initialize(o)
  \/ CancelRun
  \/ \E t \in Tasks, d \in Decisions, o \in Outcomes : Decide(t, d, o)
  \/ Close
  \/ CloseEnds

Next ==
  \/ RunStep
  \/ \E t \in Tasks : TaskStep(t) \/ HookRaises(t)
  \/ CallerStep
  \/ Crash

Spec == Init /\ [][Next]_vars

-----------------------------------------------------------------------------
(* Properties. *)

Logged(type, t) == \E i \in 1 .. Len(log) : log[i].type = type /\ log[i].task = t

(* An agent is called at most once for a task, whatever fails, is          *)
(* cancelled, lost or restarted, and only after the log says so: RUNNING   *)
(* is durable, and stays until the call has ended.                         *)
InvokedOnce ==
  \A t \in Tasks :
    /\ invoked[t] <= 1
    /\ invoked[t] = 1 => Logged("context", t) /\ Logged("started", t)
    /\ pc[t] = "invoking" => Replay(log).graph.status[t] = "running"

(* Recovery can explain every history the kernel writes, cut off at any    *)
(* append: only a RUNNING task keeps a session from being recovered.       *)
RecoveryExplains == Explained(Replay(log))

(* Memory never runs ahead of the log: what a kernel believes of a task is *)
(* a durable state of it, and the present one if the revisions agree.      *)
MemoryNeverAhead ==
  Loaded =>
    LET g == Replay(log).graph
    IN  \A t \in Tasks :
          /\ mem.rev[t] <= g.rev[t]
          /\ mem.rev[t] = g.rev[t] =>
               mem.status[t] = g.status[t] /\ mem.request[t] = g.request[t]

(* No agent runs a forbidden action, and none runs a high-impact or an     *)
(* undelegated external one without a person's durable approval, across    *)
(* restarts between the decision and the call.                             *)
EffectsAuthorised ==
  \A t \in Tasks : invoked[t] > 0 =>
    LET i == plan[t]
    IN  /\ ~i.forbidden
        /\ \/ i.irreversible \/ i.risk >= 3
           \/ i.external /\ ~(i.granted /\ i.mayAffect)
           => \E n \in 1 .. Len(log) : log[n] = DecidedEvent(t, "approve")

(* An agent is called only after each dependency has published its result. *)
DependenciesRespected ==
  \A t \in Tasks : invoked[t] > 0 =>
    \A d \in plan[t].deps : Logged("artifact", d) /\ Logged("result", d)

-----------------------------------------------------------------------------
(* Liveness.  The event loop runs what is ready; agents are assumed to     *)
(* return or raise, which the kernel does not enforce.                     *)

Fairness == WF_vars(RunStep) /\ \A t \in Tasks : WF_vars(TaskStep(t))

FairSpec == Spec /\ Fairness

(* run comes to an end: denials, approvals, failures and blocked tasks do  *)
(* not keep the loop going.                                                *)
RunReturns == run # "idle" ~> run = "idle"
=============================================================================
