--------------------------- MODULE OutboxPublisher ---------------------------
(***************************************************************************)
(* The transactional outbox (the outbox and outbox_ambiguities tables of   *)
(* store.py) and the publishers that empty it (publisher.py).  Several     *)
(* publisher processes share one SQLite file.  Each claims a batch of due  *)
(* messages under a lease, hands every message to a connector that runs in *)
(* a thread of its own, and persists the outcome.  An attempt that ends    *)
(* without a definite outcome is quarantined for an operator.              *)
(*                                                                         *)
(* One step is one transaction, or one step of a publisher's event loop    *)
(* between two awaits.                                                     *)
(***************************************************************************)
EXTENDS Integers, Sequences, FiniteSets

CONSTANTS
  Messages,      \* message ids, ordered by outbox_position
  Publishers,    \* publisher processes, each running one cycle at a time
  LeaseTime,     \* lease_seconds
  PublishTime,   \* publish_timeout
  MaxAttempts,   \* max_attempts
  BatchSize,     \* batch_size
  MaxCallbacks,  \* max_callback_tasks
  RetryDelays,   \* delays a publisher may ask for before a retry
  MaxTime,       \* bound on the clock and on every deadline
  MaxTokens,     \* bound on the lease tokens drawn
  None           \* SQL NULL

ASSUME MessagesAssumption == Messages \subseteq Nat /\ IsFiniteSet(Messages)
ASSUME TimesAssumption ==
  /\ PublishTime \in Nat \ {0}
  /\ LeaseTime \in Nat
  /\ LeaseTime > PublishTime
  /\ RetryDelays \subseteq Nat
  /\ MaxTime \in Nat
ASSUME LimitsAssumption ==
  /\ MaxAttempts \in Nat \ {0}
  /\ BatchSize \in Nat \ {0}
  /\ MaxCallbacks \in Nat \ {0}
  /\ MaxTokens \in Nat
ASSUME NoneAssumption ==
  /\ None \notin Nat
  /\ None \notin {"published", "retry", "dead_letter", "accepted", "failed",
                   "callback_timeout", "lease_expired_after_accept"}

VARIABLES
  clock,      \* the system clock, read by the store and the publishers
  row,        \* outbox: one row for each message id, NoRow if absent
  ambiguity,  \* outbox_ambiguities
  task        \* the attempts claimed so far; a lease token is an index

vars == <<clock, row, ambiguity, task>>

-----------------------------------------------------------------------------
Times == 0 .. MaxTime
Statuses == {"absent", "pending", "in_flight", "published", "dead_letter"}
Reasons == {"callback_timeout", "caller_cancelled", "ack_failed",
            "lease_expired_after_accept"}
Resolutions == {"published", "retry", "dead_letter"}

Row ==
  [status : Statuses, attempts : Nat, available : Times,
   token : Nat \cup {None}, expires : Times \cup {None}]

NoRow == [status |-> "absent", attempts |-> 0, available |-> 0,
          token |-> None, expires |-> None]

Ambiguity ==
  [message : Messages, token : Nat, reason : Reasons,
   resolution : Resolutions \cup {None}]

(* An attempt: the _publish_one task and its connector thread.  "dropped"  *)
(* is a lease whose claim never reached the publisher, or whose publisher  *)
(* died.  effect says whether the downstream system has taken the message. *)
Phases == {"claimed", "calling", "acking", "rejecting", "quarantining",
           "done", "dropped"}
Task ==
  [publisher : Publishers, message : Messages, deadline : Times, count : Nat,
   phase : Phases, since : Times, reason : Reasons \cup {None},
   cancelled : BOOLEAN, thread : {"none", "running", "ended"},
   result : {"accepted", "failed", None}, effect : BOOLEAN]

Tokens == 1 .. Len(task)

TypeOK ==
  /\ clock \in Times
  /\ row \in [Messages -> Row]
  /\ ambiguity \subseteq Ambiguity
  /\ task \in Seq(Task)

Init ==
  /\ clock = 0
  /\ row = [m \in Messages |-> NoRow]
  /\ ambiguity = {}
  /\ task = <<>>

-----------------------------------------------------------------------------
(* Transactions.  A call returns what it did, or raises: its transaction   *)
(* was then rolled back, or its COMMIT landed unseen.                      *)

Endings == {"returned", "raised", "landed_and_raised"}
Lands(ending) == ending # "raised"

Open(m) == \E a \in ambiguity : a.message = m /\ a.resolution = None

(* append_with_outbox, as far as the outbox row goes.                      *)
AppendWithOutbox(m) ==
  /\ row[m].status = "absent"
  /\ row' = [row EXCEPT ![m] = [NoRow EXCEPT !.status = "pending",
                                             !.available = clock]]
  /\ UNCHANGED <<clock, ambiguity, task>>

(* Mutants: an open ambiguity or a running lease does not keep a message   *)
(* from being claimed.                                                     *)
DueAlthoughOpen(m) ==
  \/ row[m].status = "pending" /\ row[m].available <= clock
  \/ row[m].status = "in_flight" /\ row[m].expires <= clock

DueWhileLeased(m) ==
  row[m].status \in {"pending", "in_flight"} /\ row[m].available <= clock /\ ~Open(m)

Due(m) ==
  /\ \/ row[m].status = "pending" /\ row[m].available <= clock
     \/ row[m].status = "in_flight" /\ row[m].expires <= clock
  /\ ~Open(m)

(* B is what ORDER BY outbox_position LIMIT n returns.                     *)
FirstDue(B, n) ==
  LET due == {m \in Messages : Due(m)}
  IN  /\ B \subseteq due
      /\ Cardinality(B) = IF Cardinality(due) <= n THEN Cardinality(due) ELSE n
      /\ \A b \in B, m \in due \ B : b < m

(* The guard of the ACK and NACK updates.                                  *)
LiveLease(m, token) ==
  /\ row[m].status = "in_flight"
  /\ row[m].token = token
  /\ row[m].expires > clock
  /\ ~Open(m)

Settled(m, status, available) ==
  [row EXCEPT ![m] = [@ EXCEPT !.status = status, !.available = available,
                               !.token = None, !.expires = None]]

-----------------------------------------------------------------------------
(* One cycle of a publisher: claim. *)

(* _callback_tasks: active and abandoned connector threads.                *)
CallbackTasks(p) ==
  {t \in Tokens : task[t].publisher = p /\ task[t].thread = "running"}

Idle(p) == \A t \in Tokens : task[t].publisher = p =>
                               task[t].phase \in {"done", "dropped"}

NewTask(p, m, phase) ==
  [publisher |-> p, message |-> m, deadline |-> clock + LeaseTime,
   count |-> row[m].attempts + 1, phase |-> phase, since |-> clock,
   reason |-> None, cancelled |-> FALSE, thread |-> "none", result |-> None,
   effect |-> FALSE]

(* The order of a batch's tokens, which is the order of its positions.     *)
Rank(m, B) == Cardinality({k \in B : k <= m})

MessageAt(B, i) == CHOOSE m \in B : Rank(m, B) = i

(* run_once up to the creation of the batch's tasks.  When the claim       *)
(* raises, or its caller is cancelled, a batch that landed is forgotten;   *)
(* one that did not land changes nothing and is not a step.                *)
Claim(p, B, returned) ==
  /\ Idle(p)
  /\ Cardinality(CallbackTasks(p)) < MaxCallbacks
  /\ LET free == MaxCallbacks - Cardinality(CallbackTasks(p))
     IN  FirstDue(B, IF BatchSize <= free THEN BatchSize ELSE free)
  /\ B # {}
  /\ clock + LeaseTime <= MaxTime
  /\ Len(task) + Cardinality(B) <= MaxTokens
  /\ row' = [m \in Messages |->
       IF m \in B
       THEN [row[m] EXCEPT !.status = "in_flight", !.attempts = @ + 1,
                           !.token = Len(task) + Rank(m, B),
                           !.expires = clock + LeaseTime]
       ELSE row[m]]
  /\ task' = task \o [i \in 1 .. Cardinality(B) |->
       NewTask(p, MessageAt(B, i),
               IF returned THEN "claimed" ELSE "dropped")]
  /\ UNCHANGED <<clock, ambiguity>>

-----------------------------------------------------------------------------
(* _publish_one. *)

SetTask(t, new) == task' = [task EXCEPT ![t] = new]

(* The lease must leave room for the whole publish timeout; otherwise the  *)
(* message is given back without a call.  A thread that cannot be started  *)
(* is a failed attempt.                                                    *)
Begin(t, started) ==
  LET a == task[t]
  IN  /\ a.phase = "claimed"
      /\ IF a.deadline - clock < PublishTime
         THEN SetTask(t, [a EXCEPT !.phase = "rejecting"])
         ELSE SetTask(t, [a EXCEPT !.phase = "calling", !.since = clock,
                            !.thread = IF started THEN "running" ELSE "ended",
                            !.result = IF started THEN None ELSE "failed"])
      /\ UNCHANGED <<clock, row, ambiguity>>

(* The connector, which is not part of the repository.  It reports         *)
(* acceptance only after the downstream system took the message; it may    *)
(* fail before or after that, or never return.                             *)
TakeEffect(t) ==
  /\ task[t].thread = "running"
  /\ ~task[t].effect
  /\ SetTask(t, [task[t] EXCEPT !.effect = TRUE])
  /\ UNCHANGED <<clock, row, ambiguity>>

Return(t, result) ==
  /\ task[t].thread = "running"
  /\ result = "accepted" => task[t].effect
  /\ SetTask(t, [task[t] EXCEPT !.thread = "ended", !.result = result])
  /\ UNCHANGED <<clock, row, ambiguity>>

(* The connector's result is in before the deadline fires.                 *)
Receive(t) ==
  LET a == task[t]
  IN  /\ a.phase = "calling"
      /\ a.thread = "ended"
      /\ CASE a.result = "failed" -> SetTask(t, [a EXCEPT !.phase = "rejecting"])
           [] a.result = "accepted" /\ clock < a.deadline ->
                SetTask(t, [a EXCEPT !.phase = "acking"])
           [] a.result = "accepted" /\ clock >= a.deadline ->
                SetTask(t, [a EXCEPT !.phase = "quarantining",
                                     !.reason = "lease_expired_after_accept"])
      /\ UNCHANGED <<clock, row, ambiguity>>

(* Mutants: a call that missed its deadline counts as accepted, or is      *)
(* awaited for ever.                                                       *)
TimeoutAsAccepted(t) ==
  LET a == task[t]
  IN  /\ a.phase = "calling"
      /\ a.thread = "running"
      /\ clock >= a.since + PublishTime
      /\ SetTask(t, [a EXCEPT !.phase = "acking"])
      /\ UNCHANGED <<clock, row, ambiguity>>

NoTimeout(t) == FALSE /\ UNCHANGED vars

(* The hard deadline: the callback is abandoned and goes on running.       *)
Timeout(t) ==
  LET a == task[t]
  IN  /\ a.phase = "calling"
      /\ a.thread = "running"
      /\ clock >= a.since + PublishTime
      /\ SetTask(t, [a EXCEPT !.phase = "quarantining",
                              !.reason = "callback_timeout"])
      /\ UNCHANGED <<clock, row, ambiguity>>

(* acknowledge_outbox and what _publish_one makes of its answer.           *)
Acknowledge(t, ending) ==
  LET a == task[t]
      acked == LiveLease(a.message, t)
      reason == IF a.cancelled THEN "caller_cancelled" ELSE "ack_failed"
  IN  /\ a.phase = "acking"
      /\ row' = IF acked /\ Lands(ending)
                THEN Settled(a.message, "published", row[a.message].available)
                ELSE row
      /\ SetTask(t, IF acked /\ ending = "returned" /\ ~a.cancelled
                    THEN [a EXCEPT !.phase = "done"]
                    ELSE [a EXCEPT !.phase = "quarantining", !.reason = reason])
      /\ UNCHANGED <<clock, ambiguity>>

Exhausted(a) == a.count >= MaxAttempts

(* _reject_failed: the last permitted attempt is dead-lettered, an earlier *)
(* one is retried after a delay.  A failure to store that is only counted. *)
RejectFailed(t, delay, ending) ==
  LET a == task[t]
      dead == Exhausted(a)
  IN  /\ a.phase = "rejecting"
      /\ clock + delay <= MaxTime
      /\ row' = IF LiveLease(a.message, t) /\ Lands(ending)
                THEN Settled(a.message,
                             IF dead THEN "dead_letter" ELSE "pending",
                             IF dead THEN clock ELSE clock + delay)
                ELSE row
      /\ SetTask(t, [a EXCEPT !.phase = "done"])
      /\ UNCHANGED <<clock, ambiguity>>

(* Mutant: an attempt is marked although its row is no longer in flight    *)
(* under its token.                                                        *)
MarkedUnfenced(m, token, reason) ==
  IF \E a \in ambiguity : a.message = m /\ a.token = token
  THEN ambiguity
  ELSE ambiguity \cup {[message |-> m, token |-> token, reason |-> reason,
                        resolution |-> None]}

(* mark_outbox_ambiguous: only the token is compared, not the deadline,    *)
(* and a second mark of the same attempt changes nothing.                  *)
Marked(m, token, reason) ==
  IF \/ row[m].status # "in_flight" \/ row[m].token # token
     \/ \E a \in ambiguity : a.message = m /\ a.token = token
  THEN ambiguity
  ELSE ambiguity \cup {[message |-> m, token |-> token, reason |-> reason,
                        resolution |-> None]}

PersistAmbiguity(t, ending) ==
  LET a == task[t]
  IN  /\ a.phase = "quarantining"
      /\ ambiguity' = IF Lands(ending) THEN Marked(a.message, t, a.reason)
                      ELSE ambiguity
      /\ SetTask(t, [a EXCEPT !.phase = "done"])
      /\ UNCHANGED <<clock, row>>

(* The cycle's caller is cancelled.  Attempts that have not begun end; a   *)
(* running call is quarantined; a transaction in progress is awaited, and  *)
(* the ambiguity of an acknowledgement is persisted after it.              *)
Cancelled(a) ==
  CASE a.phase = "claimed" -> [a EXCEPT !.phase = "done"]
    [] a.phase = "calling" -> [a EXCEPT !.phase = "quarantining",
                                        !.reason = "caller_cancelled"]
    [] a.phase = "acking"  -> [a EXCEPT !.cancelled = TRUE]
    [] OTHER -> a

Cancel(p) ==
  /\ ~Idle(p)
  /\ task' = [t \in Tokens |-> IF task[t].publisher = p THEN Cancelled(task[t])
                               ELSE task[t]]
  /\ UNCHANGED <<clock, row, ambiguity>>

(* The process dies with its daemon threads and is started again.          *)
Killed(a) ==
  [a EXCEPT !.thread = IF @ = "running" THEN "ended" ELSE @,
            !.phase = IF @ = "done" THEN @ ELSE "dropped"]

Crash(p) ==
  /\ task' = [t \in Tokens |-> IF task[t].publisher = p THEN Killed(task[t])
                               ELSE task[t]]
  /\ UNCHANGED <<clock, row, ambiguity>>

-----------------------------------------------------------------------------
(* resolve_outbox_ambiguity. *)

Resolvable(a) ==
  /\ a.resolution = None
  /\ row[a.message].status = "in_flight"
  /\ row[a.message].token = a.token

Resolve(a, resolution, delay) ==
  LET status == CASE resolution = "published"   -> "published"
                  [] resolution = "retry"       -> "pending"
                  [] resolution = "dead_letter" -> "dead_letter"
  IN  /\ Resolvable(a)
      /\ clock + delay <= MaxTime
      /\ row' = Settled(a.message, status,
                        IF resolution = "published"
                        THEN row[a.message].available ELSE clock + delay)
      /\ ambiguity' = (ambiguity \ {a}) \cup
                        {[a EXCEPT !.resolution = resolution]}
      /\ UNCHANGED <<clock, task>>

Tick ==
  /\ clock < MaxTime
  /\ clock' = clock + 1
  /\ UNCHANGED <<row, ambiguity, task>>

TaskStep(t) ==
  \/ \E started \in BOOLEAN : Begin(t, started)
  \/ Receive(t)
  \/ Timeout(t)
  \/ \E e \in Endings : Acknowledge(t, e)
  \/ \E e \in Endings, d \in RetryDelays : RejectFailed(t, d, e)
  \/ \E e \in Endings : PersistAmbiguity(t, e)

ConnectorStep(t) ==
  \/ TakeEffect(t)
  \/ \E r \in {"accepted", "failed"} : Return(t, r)

PublisherStep(p) ==
  \/ \E B \in SUBSET Messages, returned \in BOOLEAN : Claim(p, B, returned)
  \/ Cancel(p)
  \/ Crash(p)

OperatorStep ==
  \E a \in ambiguity, r \in Resolutions, d \in RetryDelays : Resolve(a, r, d)

Next ==
  \/ \E m \in Messages : AppendWithOutbox(m)
  \/ \E p \in Publishers : PublisherStep(p)
  \/ \E t \in Tokens : TaskStep(t) \/ ConnectorStep(t)
  \/ OperatorStep
  \/ Tick

Spec == Init /\ [][Next]_vars

-----------------------------------------------------------------------------
(* Properties. *)

(* Whoever holds an open ambiguity can still resolve it: the row stays in  *)
(* flight under the quarantined token, and no message has two of them (the *)
(* unique index would make the second mark raise).                         *)
AmbiguityResolvable ==
  /\ \A a \in ambiguity : a.resolution = None => Resolvable(a)
  /\ \A a, b \in ambiguity :
       a.message = b.message /\ a.token = b.token => a = b

(* The connector accepted, and its publisher received that before either   *)
(* deadline had passed.                                                    *)
Confirmed(a) ==
  /\ a.effect /\ a.result = "accepted"
  /\ a.phase \notin {"claimed", "calling"}
  /\ a.reason \notin {"callback_timeout", "lease_expired_after_accept"}

(* A message is reported as published only if the connector accepted it in *)
(* time or an operator said so: no timeout, late receipt, cancelled call   *)
(* or stale owner turns into an acknowledgement; and it is dead-lettered   *)
(* only after max_attempts claims, or by an operator (_publish_one,        *)
(* _invoke_with_hard_deadline, _reject_failed).                            *)
TerminalEarned ==
  \A m \in Messages :
    /\ row[m].status = "published" =>
         \/ \E t \in Tokens : task[t].message = m /\ Confirmed(task[t])
         \/ \E a \in ambiguity : a.message = m /\ a.resolution = "published"
    /\ row[m].status = "dead_letter" =>
         \/ row[m].attempts >= MaxAttempts
         \/ \E a \in ambiguity : a.message = m /\ a.resolution = "dead_letter"

Working(t) == task[t].phase \in {"claimed", "calling", "acking", "rejecting"}

(* Two publishers never work on one message inside their leases, and a     *)
(* publisher never has more connector threads, abandoned ones included,    *)
(* than max_callback_tasks (claim_outbox, run_once).                       *)
LiveAttemptExclusive ==
  /\ \A s, t \in Tokens :
       /\ task[s].message = task[t].message
       /\ Working(s) /\ Working(t)
       /\ clock < task[s].deadline /\ clock < task[t].deadline
       => s = t
  /\ \A p \in Publishers :
       Cardinality({t \in Tokens : /\ task[t].publisher = p
                                  /\ task[t].thread = "running"})
         <= MaxCallbacks

-----------------------------------------------------------------------------
(* The contract. *)

LifeOf(m) ==
  CASE row[m].status = "absent"      -> "absent"
    [] row[m].status = "pending"     -> "waiting"
    [] row[m].status = "published"   -> "published"
    [] row[m].status = "dead_letter" -> "dead"
    [] row[m].status = "in_flight"   -> IF Open(m) THEN "quarantined" ELSE "leased"

HolderOf(m) == row[m].token

Rulings ==
  {[message |-> a.message, token |-> a.token, resolution |-> a.resolution] :
     a \in {x \in ambiguity : x.resolution # None}}

Contract == INSTANCE DeliveryContract
              WITH life    <- [m \in Messages |-> LifeOf(m)],
                   holder  <- [m \in Messages |-> HolderOf(m)],
                   rulings <- Rulings,
                   Tokens  <- 1 .. MaxTokens

(* The outbox implements the contract.  While an ambiguity is open, no     *)
(* claim, acknowledgement or rejection moves the message or its token:     *)
(* only resolve_outbox_ambiguity does, once for each attempt.  A token     *)
(* that is held or was ruled on is never drawn again, and a published or   *)
(* dead-lettered message never moves again.                                *)
ImplementsContract == Contract!Spec

-----------------------------------------------------------------------------
(* Liveness. *)

(* The event loop runs every task that is ready and every SQLite call      *)
(* ends.  Nothing is assumed of the connector, which may hang for ever.    *)
Fairness ==
  /\ WF_vars(Tick)
  /\ \A t \in 1 .. MaxTokens : WF_vars(t \in Tokens /\ TaskStep(t))

FairSpec == Spec /\ Fairness

(* Every claimed attempt ends: a connector that hangs is abandoned at its  *)
(* deadline and does not hold up the cycle.                                *)
AttemptEnds ==
  \A t \in 1 .. MaxTokens :
    t \in Tokens ~> t \in Tokens /\ task[t].phase \in {"done", "dropped"}

-----------------------------------------------------------------------------
(* docs/production/OUTBOX_PUBLISHER.md, safety invariant 5, for timeouts:  *)
(* once an attempt has timed out whose message was taken downstream after  *)
(* all, the connector is not called for that message again until an        *)
(* operator has resolved the attempt (_persist_ambiguity, claim_outbox).   *)
UncertainNotRetried ==
  [][\A s, t \in Tokens :
       /\ task[s].message = task[t].message
       /\ task[s].reason = "callback_timeout" /\ task[s].effect
       /\ task[t].phase = "claimed" /\ task'[t].thread = "running"
       => \E a \in ambiguity : /\ a.message = task[s].message
                               /\ a.token = s
                               /\ a.resolution # None]_vars
=============================================================================
