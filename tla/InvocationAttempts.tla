------------------------- MODULE InvocationAttempts -------------------------
(***************************************************************************)
(* The durable invocation attempt store (attempts.py).  Several processes  *)
(* open one SQLite file; each has its own store object, reads its own      *)
(* clock, and claims jobs under a lease that other processes may fence     *)
(* once it expires.  A COMMIT may be acknowledged, may lose its            *)
(* acknowledgement (the call then reads the rows back), or may leave the   *)
(* store object poisoned.                                                  *)
(*                                                                         *)
(* Every public write is one BEGIN IMMEDIATE transaction, hence one step;  *)
(* the readback after a lost acknowledgement is a step of its own, because *)
(* other processes write in between.                                       *)
(***************************************************************************)
EXTENDS Integers, Sequences, FiniteSets

CONSTANTS
  Jobs,         \* invocation identifiers; their order breaks ties in claims
  Workers,      \* processes, each with one store object and one caller
  Results,      \* result references a worker may complete a job with
  Priority,     \* Priority[j]: the job's priority
  MaxAttempts,  \* MaxAttempts[j]: the job's attempt budget
  Leases,       \* lease durations that callers ask for
  Requests,     \* values of available_at that enqueue is called with
  Retries,      \* values of retry_at that fail is called with
  Skew,         \* how far a clock reading may lag behind the fastest one
  SweepLimit,   \* the largest number of leases one sweep fences
  MaxTime,      \* bound on the clock and on every deadline
  MaxTokens,    \* bound on the tokens drawn by claims
  None          \* SQL NULL

ASSUME JobsAssumption == Jobs \subseteq Nat
ASSUME NoneAssumption ==
  /\ None \notin Nat
  /\ None \notin Workers
  /\ None \notin Results
  /\ None \notin {"failure", "expiry"}
ASSUME BudgetAssumption ==
  /\ Priority \in [Jobs -> Int]
  /\ MaxAttempts \in [Jobs -> Nat \ {0}]
ASSUME BoundAssumption ==
  /\ Leases \subseteq Nat \ {0}
  /\ Requests \subseteq (0 .. MaxTime) \cup {None}
  /\ Retries \subseteq 0 .. MaxTime
  /\ Skew \in Nat
  /\ SweepLimit \in Nat \ {0}
  /\ MaxTime \in Nat
  /\ MaxTokens \in Nat

VARIABLES
  clock,      \* the fastest system clock reading so far
  job,        \* invocation_jobs: one row for each identifier, NoJob if absent
  attempts,   \* invocation_attempts: each job's rows, by attempt_number
  tokens,     \* lease tokens (with their attempt ids) drawn so far
  store,      \* each process's store object: "open" or "poisoned"
  held,       \* leases each process received and still has in memory
  call,       \* the call each process has to reconcile, or NoCall
  told        \* history: what the store has reported to its callers

vars == <<clock, job, attempts, tokens, store, held, call, told>>

-----------------------------------------------------------------------------
(* Rows, leases and calls. *)

Times == 0 .. MaxTime
OptTime == Times \cup {None}
OptToken == Nat \cup {None}
OptResult == Results \cup {None}
Errors == {"failure", "expiry"}

JobStatuses == {"absent", "queued", "running", "succeeded", "failed"}
AttemptStatuses == {"running", "succeeded", "failed", "expired"}

JobRow ==
  [status : JobStatuses, started : Nat, epoch : Nat,
   available : Times, created : Times, updated : Times,
   owner : Workers \cup {None}, token : OptToken,
   expires : OptTime, heartbeat : OptTime, finished : OptTime,
   error : Errors \cup {None}, result : OptResult]

AttemptRow ==
  [epoch : Nat, worker : Workers, token : Nat, status : AttemptStatuses,
   started : Times, heartbeat : Times, expires : Times, finished : OptTime,
   error : Errors \cup {None}, result : OptResult]

Lease ==
  [job : Jobs, token : Nat, number : Nat, epoch : Nat, worker : Workers,
   claimed : Times, expires : Times]

QueuedRow(available, now) ==
  [status |-> "queued", started |-> 0, epoch |-> 0,
   available |-> available, created |-> now, updated |-> now,
   owner |-> None, token |-> None, expires |-> None, heartbeat |-> None,
   finished |-> None, error |-> None, result |-> None]

NoJob == [QueuedRow(0, 0) EXCEPT !.status = "absent"]

(* What a call remembers while its COMMIT outcome is unknown: the          *)
(* operation, its lease, and the rows the transaction wrote.               *)
Call ==
  [op : {"claim", "heartbeat", "complete", "fail"}, lease : Lease,
   row : JobRow, attempt : AttemptRow]

NoCall == [op |-> "none"]

(* Records of what callers were told.  "until" is a promised deadline.     *)
Report ==
  [what : {"leased", "completed", "failed"}, job : Jobs, token : Nat,
   until : OptTime, result : OptResult]

TypeOK ==
  /\ clock \in Times
  /\ job \in [Jobs -> JobRow]
  /\ attempts \in [Jobs -> Seq(AttemptRow)]
  /\ tokens \in Nat
  /\ store \in [Workers -> {"open", "poisoned"}]
  /\ held \in [Workers -> SUBSET Lease]
  /\ call \in [Workers -> Call \cup {NoCall}]
  /\ told \subseteq Report

Init ==
  /\ clock = 0
  /\ job = [j \in Jobs |-> NoJob]
  /\ attempts = [j \in Jobs |-> <<>>]
  /\ tokens = 0
  /\ store = [w \in Workers |-> "open"]
  /\ held = [w \in Workers |-> {}]
  /\ call = [w \in Workers |-> NoCall]
  /\ told = {}

-----------------------------------------------------------------------------
(* Clock readings and transactions. *)

(* Mutant: the requested deadline replaces a later one.                    *)
LaterIsRequested(s, t) == t

Later(s, t) == IF s >= t THEN s ELSE t

(* The clock a store reads after BEGIN IMMEDIATE: processes of one host    *)
(* read the same system clock, which may be set back by up to Skew.        *)
Readings == {t \in Times : t <= clock /\ t + Skew >= clock}

Usable(w) == store[w] = "open" /\ call[w] = NoCall

(* How a COMMIT may end for the process that issued it.                    *)
Outcomes == {"acknowledged", "lost", "poisoned"}

(* One write transaction of w.  It lands unless its COMMIT was not         *)
(* acknowledged and SQLite had rolled it back.  A lost acknowledgement     *)
(* leaves the call to be reconciled; an outcome the store object cannot    *)
(* even inspect poisons it.                                                *)
Commit(w, outcome, landed, newJob, newAttempts, expected) ==
  /\ outcome = "acknowledged" => landed
  /\ job' = IF landed THEN newJob ELSE job
  /\ attempts' = IF landed THEN newAttempts ELSE attempts
  /\ call' = IF outcome = "lost" THEN [call EXCEPT ![w] = expected] ELSE call
  /\ store' = IF outcome = "poisoned"
              THEN [store EXCEPT ![w] = "poisoned"] ELSE store

-----------------------------------------------------------------------------
(* enqueue. *)

(* Mutant: a missing available_at is stored as it is.                      *)
EnqueueWithoutDefault(w, j, requested, now, outcome, landed) ==
  /\ Usable(w)
  /\ outcome # "lost"
  /\ job[j].status = "absent"
  /\ Commit(w, outcome, landed, [job EXCEPT ![j] = QueuedRow(requested, now)],
            attempts, NoCall)
  /\ UNCHANGED <<clock, tokens, held, told>>

(* Mutant: an identity that is enqueued again reschedules a queued row.    *)
EnqueueRescheduling(w, j, requested, now, outcome, landed) ==
  LET available == IF requested = None THEN now ELSE requested
  IN  /\ Usable(w)
      /\ outcome # "lost"
      /\ job[j].status \in {"absent", "queued"}
      /\ Commit(w, outcome, landed,
                [job EXCEPT ![j] = IF @.status = "absent"
                                   THEN QueuedRow(available, now)
                                   ELSE [@ EXCEPT !.available = available]],
                attempts, NoCall)
      /\ UNCHANGED <<clock, tokens, held, told>>

(* A new identity inserts a queued row; an existing one is returned as it  *)
(* is or refused, which changes nothing.  The readback after a lost        *)
(* acknowledgement only decides what the caller is told.                   *)
Enqueue(w, j, requested, now, outcome, landed) ==
  /\ Usable(w)
  /\ outcome # "lost"
  /\ job[j].status = "absent"
  /\ Commit(w, outcome, landed,
            [job EXCEPT ![j] =
               QueuedRow(IF requested = None THEN now ELSE requested, now)],
            attempts, NoCall)
  /\ UNCHANGED <<clock, tokens, held, told>>

-----------------------------------------------------------------------------
(* Expiry recovery. *)

(* Mutant: the sweep skips jobs that have attempts left.                   *)
ExpiredAndSpent(now) ==
  {j \in Jobs : /\ job[j].status = "running"
                /\ job[j].expires <= now
                /\ job[j].started >= MaxAttempts[j]}

Expired(now) ==
  {j \in Jobs : job[j].status = "running" /\ job[j].expires <= now}

ExpiresBefore(i, k) ==
  \/ job[i].expires < job[k].expires
  \/ job[i].expires = job[k].expires /\ i < k

(* R is what SELECT ... ORDER BY lease_expires_at, invocation_id LIMIT n   *)
(* returns among the candidates C.                                         *)
Selected(R, C, n) ==
  /\ Cardinality(R) = IF Cardinality(C) <= n THEN Cardinality(C) ELSE n
  /\ \A r \in R, c \in C \ R : ExpiresBefore(r, c)

Released(row, now) ==
  [row EXCEPT !.updated = now, !.owner = None, !.token = None,
              !.expires = None, !.heartbeat = None]

(* Mutant: an ended attempt gives its start back to the queue.             *)
AfterAttemptAsNew(row, budget, now, available, error) ==
  [Released(row, now) EXCEPT !.status = "queued", !.started = 0,
                             !.available = available]

(* The job row after a failed or expired attempt: terminal when the budget *)
(* is spent, otherwise queued with its effect unknown.                     *)
AfterAttempt(row, budget, now, available, error) ==
  LET released == [Released(row, now) EXCEPT !.error = error]
  IN  IF row.started >= budget
      THEN [released EXCEPT !.status = "failed", !.finished = now]
      ELSE [released EXCEPT !.status = "queued", !.available = available]

EndedAttempt(attempt, status, now, error) ==
  [attempt EXCEPT !.status = status, !.finished = now, !.error = error]

SweptJobs(R, now) ==
  [j \in Jobs |-> IF j \in R
                  THEN AfterAttempt(job[j], MaxAttempts[j], now, now, "expiry")
                  ELSE job[j]]

SweptAttempts(R, now) ==
  [j \in Jobs |->
     IF j \in R
     THEN [attempts[j] EXCEPT ![job[j].started] =
             EndedAttempt(@, "expired", now, "expiry")]
     ELSE attempts[j]]

(* recover_expired: fences up to n expired owners in one transaction.  Its *)
(* readback only decides what the caller is told, never what is stored.    *)
RecoverExpired(w, now, n, outcome, landed) ==
  /\ Usable(w)
  /\ outcome # "lost"
  /\ \E R \in SUBSET Expired(now) :
       /\ Selected(R, Expired(now), n)
       /\ R # {}
       /\ Commit(w, outcome, landed, SweptJobs(R, now), SweptAttempts(R, now),
                 NoCall)
  /\ UNCHANGED <<clock, tokens, held, told>>

-----------------------------------------------------------------------------
(* claim and claim_next. *)

(* Mutant: a queued job is claimed again after a failure.                  *)
EligibleAgain(now, requested) ==
  {j \in Jobs : /\ job[j].status = "queued"
                /\ job[j].available <= now
                /\ requested = None \/ j = requested}

Eligible(now, requested) ==
  {j \in Jobs : /\ job[j].status = "queued"
                /\ job[j].started = 0
                /\ job[j].available <= now
                /\ requested = None \/ j = requested}

ClaimedBefore(i, k) ==
  \/ Priority[i] > Priority[k]
  \/ /\ Priority[i] = Priority[k]
     /\ \/ job[i].available < job[k].available
        \/ /\ job[i].available = job[k].available
           /\ \/ job[i].created < job[k].created
              \/ job[i].created = job[k].created /\ i < k

(* The row that ORDER BY ... LIMIT 1 returns.                              *)
FirstCandidate(j, now, requested) ==
  /\ j \in Eligible(now, requested)
  /\ \A k \in Eligible(now, requested) \ {j} : ClaimedBefore(j, k)

(* The leases a claim fences before it selects its own candidate.          *)
ClaimSweep(now, requested) ==
  IF requested = None
  THEN {R \in SUBSET Expired(now) : Selected(R, Expired(now), SweepLimit)}
  ELSE {Expired(now) \cap {requested}}

ClaimedRow(row, w, token, now, deadline) ==
  [row EXCEPT !.status = "running", !.started = @ + 1, !.epoch = @ + 1,
              !.owner = w, !.token = token, !.expires = deadline,
              !.heartbeat = now, !.updated = now, !.finished = None]

StartedAttempt(row) ==
  [epoch |-> row.epoch, worker |-> row.owner, token |-> row.token,
   status |-> "running", started |-> row.heartbeat,
   heartbeat |-> row.heartbeat, expires |-> row.expires, finished |-> None,
   error |-> None, result |-> None]

LeaseOf(j, row) ==
  [job |-> j, token |-> row.token, number |-> row.started,
   epoch |-> row.epoch, worker |-> row.owner, claimed |-> row.heartbeat,
   expires |-> row.expires]

TellLease(w, lease) ==
  /\ held' = [held EXCEPT ![w] = @ \cup {lease}]
  /\ told' = told \cup {[what |-> "leased", job |-> lease.job,
                         token |-> lease.token, until |-> lease.expires,
                         result |-> None]}

(* A claim that finds no candidate commits its sweep and returns nothing.  *)
ClaimNothing(w, requested, now, outcome, landed) ==
  /\ Usable(w)
  /\ outcome # "lost"
  /\ Eligible(now, requested) = {}
  /\ \E R \in ClaimSweep(now, requested) :
       /\ R # {}
       /\ Commit(w, outcome, landed, SweptJobs(R, now), SweptAttempts(R, now),
                 NoCall)
  /\ UNCHANGED <<clock, tokens, held, told>>

(* A claim whose clock reading is earlier than the candidate's durable     *)
(* times rolls back, sweep included, and is not a step.                    *)
Claim(w, j, requested, now, duration, outcome, landed) ==
  LET row == ClaimedRow(job[j], w, tokens, now, now + duration)
      lease == LeaseOf(j, row)
  IN  /\ Usable(w)
      /\ tokens < MaxTokens
      /\ now + duration <= MaxTime
      /\ FirstCandidate(j, now, requested)
      /\ now >= job[j].created /\ now >= job[j].updated
      /\ \E R \in ClaimSweep(now, requested) :
           Commit(w, outcome, landed,
                  [SweptJobs(R, now) EXCEPT ![j] = row],
                  [SweptAttempts(R, now) EXCEPT
                     ![j] = Append(@, StartedAttempt(row))],
                  [op |-> "claim", lease |-> lease, row |-> row,
                   attempt |-> StartedAttempt(row)])
      /\ tokens' = tokens + 1
      /\ IF outcome = "acknowledged" THEN TellLease(w, lease)
         ELSE UNCHANGED <<held, told>>
      /\ UNCHANGED clock

-----------------------------------------------------------------------------
(* heartbeat, complete and fail: calls under a lease. *)

(* Mutant: the deadline is not part of the guard.                          *)
ActiveOwnedForever(lease, now) ==
  LET row == job[lease.job]
  IN  /\ row.status = "running"
      /\ row.owner = lease.worker
      /\ row.token = lease.token
      /\ row.epoch = lease.epoch

(* The compare-and-set guard: the row is still this lease's, and its       *)
(* deadline has not passed.  Otherwise the call returns False.             *)
ActiveOwned(lease, now) ==
  LET row == job[lease.job]
  IN  /\ row.status = "running"
      /\ row.owner = lease.worker
      /\ row.token = lease.token
      /\ row.epoch = lease.epoch
      /\ row.expires > now

CurrentAttempt(j) == attempts[j][job[j].started]

(* Mutant: the reading is not compared with the durable times.             *)
AnyReading(j, now) == TRUE

(* A reading earlier than the durable times raises and rolls back.         *)
NotRegressing(j, now) ==
  /\ now >= job[j].updated
  /\ now >= CurrentAttempt(j).started
  /\ now >= CurrentAttempt(j).heartbeat

OwnedWrite(w, op, lease, now, outcome, landed, row, attempt) ==
  LET j == lease.job
  IN  /\ Usable(w)
      /\ lease \in held[w]
      /\ ActiveOwned(lease, now)
      /\ NotRegressing(j, now)
      /\ Commit(w, outcome, landed,
                [job EXCEPT ![j] = row],
                [attempts EXCEPT ![j][job[j].started] = attempt],
                [op |-> op, lease |-> lease, row |-> row,
                 attempt |-> attempt])
      /\ UNCHANGED <<clock, tokens, held>>

Tell(what, lease, until, result) ==
  told' = told \cup {[what |-> what, job |-> lease.job, token |-> lease.token,
                      until |-> until, result |-> result]}

RenewedRow(row, now, deadline) ==
  [row EXCEPT !.heartbeat = now, !.updated = now, !.expires = deadline]

RenewedAttempt(attempt, now, deadline) ==
  [attempt EXCEPT !.heartbeat = now, !.expires = deadline]

Heartbeat(w, lease, now, duration, outcome, landed) ==
  LET j == lease.job
      deadline == Later(job[j].expires, now + duration)
  IN  /\ now + duration <= MaxTime
      /\ OwnedWrite(w, "heartbeat", lease, now, outcome, landed,
                    RenewedRow(job[j], now, deadline),
                    RenewedAttempt(CurrentAttempt(j), now, deadline))
      /\ IF outcome = "acknowledged" THEN Tell("leased", lease, deadline, None)
         ELSE UNCHANGED told

CompletedRow(row, now, result) ==
  [Released(row, now) EXCEPT !.status = "succeeded", !.result = result,
                             !.finished = now]

CompletedAttempt(attempt, now, result) ==
  [attempt EXCEPT !.status = "succeeded", !.finished = now, !.result = result]

Complete(w, lease, now, result, outcome, landed) ==
  LET j == lease.job
  IN  /\ OwnedWrite(w, "complete", lease, now, outcome, landed,
                    CompletedRow(job[j], now, result),
                    CompletedAttempt(CurrentAttempt(j), now, result))
      /\ IF outcome = "acknowledged" THEN Tell("completed", lease, None, result)
         ELSE UNCHANGED told

Fail(w, lease, now, retry, outcome, landed) ==
  LET j == lease.job
  IN  /\ OwnedWrite(w, "fail", lease, now, outcome, landed,
                    AfterAttempt(job[j], MaxAttempts[j], now, Later(now, retry),
                                 "failure"),
                    EndedAttempt(CurrentAttempt(j), "failed", now, "failure"))
      /\ IF outcome = "acknowledged" THEN Tell("failed", lease, None, None)
         ELSE UNCHANGED told

-----------------------------------------------------------------------------
(* Reconciliation of a lost acknowledgement. *)

(* The current attempt is the one this lease was issued for.               *)
BoundTo(lease) ==
  LET j == lease.job
  IN  /\ job[j].started > 0
      /\ lease.number = job[j].started
      /\ lease.epoch = job[j].epoch
      /\ lease.token = CurrentAttempt(j).token
      /\ lease.epoch = CurrentAttempt(j).epoch
      /\ lease.worker = CurrentAttempt(j).worker
      /\ lease.claimed = CurrentAttempt(j).started

(* Mutant: the readback compares only the job's status.                    *)
StatusMatches(c) == job[c.lease.job].status = c.row.status

(* The durable rows agree with what the transaction wrote, on the columns  *)
(* the operation's readback compares.                                      *)
Matches(c) ==
  LET row == job[c.lease.job]
      attempt == CurrentAttempt(c.lease.job)
  IN  /\ BoundTo(c.lease)
      /\ row.status = c.row.status
      /\ attempt.status = c.attempt.status
      /\ row.updated = c.row.updated
      /\ c.op = "claim" => row.owner = c.row.owner
      /\ c.op \in {"claim", "heartbeat"} =>
           /\ row.heartbeat = c.row.heartbeat
           /\ row.expires = c.row.expires
           /\ attempt.heartbeat = c.attempt.heartbeat
           /\ attempt.expires = c.attempt.expires
      /\ c.op = "complete" =>
           /\ row.result = c.row.result
           /\ attempt.result = c.attempt.result
      /\ c.op = "fail" =>
           /\ row.error = c.row.error
           /\ attempt.error = c.attempt.error
           /\ row.status = "queued" => row.available = c.row.available
      /\ c.op \in {"complete", "fail"} =>
           /\ row.finished = c.row.finished
           /\ attempt.finished = c.attempt.finished

(* The readback matches: the call reports the success it could not see.    *)
ReconcileMatch(w) ==
  LET c == call[w]
  IN  /\ store[w] = "open"
      /\ c # NoCall
      /\ Matches(c)
      /\ call' = [call EXCEPT ![w] = NoCall]
      /\ CASE c.op = "claim"     -> TellLease(w, c.lease)
           [] c.op = "heartbeat" -> /\ Tell("leased", c.lease, c.row.expires, None)
                                    /\ UNCHANGED held
           [] c.op = "complete"  -> /\ Tell("completed", c.lease, None, c.row.result)
                                    /\ UNCHANGED held
           [] c.op = "fail"      -> /\ Tell("failed", c.lease, None, None)
                                    /\ UNCHANGED held
      /\ UNCHANGED <<clock, job, attempts, tokens, store>>

(* The readback does not match, or fails: InvocationCommitAmbiguityError.  *)
(* With a control signal in flight the store object is poisoned as well.   *)
ReconcileAmbiguous(w, poisoned) ==
  /\ store[w] = "open"
  /\ call[w] # NoCall
  /\ call' = [call EXCEPT ![w] = NoCall]
  /\ store' = IF poisoned THEN [store EXCEPT ![w] = "poisoned"] ELSE store
  /\ UNCHANGED <<clock, job, attempts, tokens, held, told>>

-----------------------------------------------------------------------------
(* Process life cycle and the passing of time. *)

(* The caller opens a new store object on the same file.                   *)
Reopen(w) ==
  /\ store[w] = "poisoned"
  /\ store' = [store EXCEPT ![w] = "open"]
  /\ UNCHANGED <<clock, job, attempts, tokens, held, call, told>>

(* The process dies at any point, also between COMMIT and readback, and is *)
(* started again: its leases and the call in progress are gone.            *)
Crash(w) ==
  /\ store' = [store EXCEPT ![w] = "open"]
  /\ held' = [held EXCEPT ![w] = {}]
  /\ call' = [call EXCEPT ![w] = NoCall]
  /\ UNCHANGED <<clock, job, attempts, tokens, told>>

Tick ==
  /\ clock < MaxTime
  /\ clock' = clock + 1
  /\ UNCHANGED <<job, attempts, tokens, store, held, call, told>>

LeaseCall(w) ==
  \E lease \in held[w], now \in Readings, o \in Outcomes, landed \in BOOLEAN :
    \/ \E d \in Leases : Heartbeat(w, lease, now, d, o, landed)
    \/ \E r \in OptResult : Complete(w, lease, now, r, o, landed)
    \/ \E t \in Retries : Fail(w, lease, now, t, o, landed)

ClaimCall(w) ==
  \E req \in Jobs \cup {None}, now \in Readings, o \in Outcomes,
     landed \in BOOLEAN :
    \/ ClaimNothing(w, req, now, o, landed)
    \/ \E j \in Jobs, d \in Leases : Claim(w, j, req, now, d, o, landed)

RecoverCall(w) ==
  \E now \in Readings, n \in 1 .. SweepLimit, o \in Outcomes,
     landed \in BOOLEAN : RecoverExpired(w, now, n, o, landed)

EnqueueCall(w) ==
  \E j \in Jobs, requested \in Requests, now \in Readings, o \in Outcomes,
     landed \in BOOLEAN : Enqueue(w, j, requested, now, o, landed)

WorkerStep(w) ==
  \/ EnqueueCall(w)
  \/ ClaimCall(w)
  \/ LeaseCall(w)
  \/ RecoverCall(w)
  \/ ReconcileMatch(w)
  \/ \E poisoned \in BOOLEAN : ReconcileAmbiguous(w, poisoned)
  \/ Reopen(w)
  \/ Crash(w)

Next == Tick \/ \E w \in Workers : WorkerStep(w)

Spec == Init /\ [][Next]_vars

-----------------------------------------------------------------------------
(* What persisted decoding and recovery demand of the rows. *)

(* _row_to_job.                                                            *)
JobRowValid(row, budget) ==
  LET leased == row.status = "running"
      terminal == row.status \in {"succeeded", "failed"}
      retryable == row.status = "queued" /\ row.started > 0
  IN  /\ row.started <= budget
      /\ row.epoch >= row.started
      /\ row.started = 0 => row.epoch = 0 /\ row.error = None
      /\ row.status = "failed" => row.started = budget
      /\ retryable => row.started < budget
      /\ leased => None \notin {row.owner, row.token, row.expires, row.heartbeat}
      /\ ~leased => {row.owner, row.token, row.expires, row.heartbeat} = {None}
      /\ leased \/ terminal => row.started > 0
      /\ terminal <=> row.finished # None
      /\ row.status = "failed" \/ retryable => row.error # None
      /\ row.updated >= row.created
      /\ terminal => row.finished >= row.created /\ row.updated >= row.finished
      /\ leased => /\ row.heartbeat >= row.created
                   /\ row.updated >= row.heartbeat
                   /\ row.expires > row.heartbeat
                   /\ row.expires > row.updated
      /\ row.result # None => row.status = "succeeded"

(* _row_to_attempt, for attempt number n.                                  *)
AttemptRowValid(a, n) ==
  /\ a.epoch >= n
  /\ a.status = "running" <=> a.finished = None
  /\ a.status \in {"failed", "expired"} <=> a.error # None
  /\ a.heartbeat >= a.started
  /\ a.expires > a.heartbeat
  /\ a.finished # None => a.finished >= a.started /\ a.finished >= a.heartbeat
  /\ a.status \in {"succeeded", "failed"} => a.finished < a.expires
  /\ a.status = "expired" => a.finished >= a.expires
  /\ a.result # None => a.status = "succeeded"

(* The history loop of recovery_snapshot_for_task.                         *)
HistoryValid(row, history) ==
  \A n \in 1 .. Len(history) :
    /\ AttemptRowValid(history[n], n)
    /\ history[n].started >= row.created
    /\ n > 1 => /\ history[n].epoch > history[n-1].epoch
                /\ history[n].started >= history[n-1].finished
    /\ n < row.started => history[n].status \in {"failed", "expired"}

(* _validate_recovery_snapshot, for a job whose current attempt is a.      *)
CurrentValid(row, a) ==
  /\ a.epoch = row.epoch
  /\ a.finished # None => a.finished <= row.updated
  /\ row.finished # None => row.finished = a.finished
  /\ row.status = "running" <=> a.status = "running"
  /\ row.status = "running" => /\ a.worker = row.owner
                               /\ a.token = row.token
                               /\ a.heartbeat = row.heartbeat
                               /\ a.expires = row.expires
  /\ row.status = "succeeded" => a.status = "succeeded" /\ a.result = row.result
  /\ row.status \in {"failed", "queued"} =>
       a.status \in {"failed", "expired"} /\ a.error = row.error

SnapshotValid(row, history) ==
  /\ Len(history) = row.started
  /\ row.started > 0 => CurrentValid(row, history[row.started])

-----------------------------------------------------------------------------
(* Properties. *)

(* Whatever the processes do, and however their clocks, commits and        *)
(* crashes fall, every durable job and its history pass the store's own    *)
(* integrity checks: no public write creates state that recovery refuses.  *)
RecoveryAccepts ==
  \A j \in Jobs : job[j].status # "absent" =>
    /\ JobRowValid(job[j], MaxAttempts[j])
    /\ HistoryValid(job[j], attempts[j])
    /\ SnapshotValid(job[j], attempts[j])

(* An invocation is started at most once: after a failure or an expiry its *)
(* effect is unknown and neither claim nor claim_next selects it again.    *)
StartedAtMostOnce == \A j \in Jobs : Len(attempts[j]) <= 1

(* A lease the store has handed out is the only one for its job, also when *)
(* the claim's acknowledgement was lost and another process claimed in     *)
(* between.                                                                *)
LeaseExclusive ==
  \A r, s \in told : r.job = s.job => r.token = s.token

(* No owner is fenced before the deadline the store promised it, by the    *)
(* claim or by a heartbeat, acknowledged or reconciled.                    *)
PromisedLeaseRespected ==
  \A r \in told : r.what = "leased" =>
    \A n \in 1 .. Len(attempts[r.job]) :
      attempts[r.job][n].status = "expired" => attempts[r.job][n].finished >= r.until

(* A completion or failure reported to its caller is durable: the rows say *)
(* what the caller was told, with the caller's own attempt and result.     *)
ReportedOutcomeDurable ==
  \A r \in told :
    /\ r.what = "completed" =>
         /\ job[r.job].status = "succeeded"
         /\ job[r.job].result = r.result
         /\ CurrentAttempt(r.job).token = r.token
    /\ r.what = "failed" =>
         /\ job[r.job].status \in {"queued", "failed"}
         /\ CurrentAttempt(r.job).status = "failed"
         /\ CurrentAttempt(r.job).token = r.token

(* A job's durable time never runs backwards, even where a sweep writes a  *)
(* reading without comparing it with updated_at.                           *)
DurableTimeMonotone ==
  [][\A j \in Jobs : job[j].status # "absent" => job'[j].updated >= job[j].updated]_vars

(* Once an attempt has ended nothing rewrites it: a late heartbeat,        *)
(* completion or sweep of a fenced owner changes neither row.              *)
EndedAttemptFrozen ==
  [][\A j \in Jobs : job[j].started > 0 /\ job[j].status # "running" =>
       job'[j] = job[j] /\ attempts'[j] = attempts[j]]_vars

-----------------------------------------------------------------------------
(* The contract the store implements. *)

LifeOf(row) ==
  CASE row.status = "absent"    -> <<"absent">>
    [] row.status = "running"   -> <<"owned", row.owner>>
    [] row.status = "succeeded" -> <<"done", row.result>>
    [] row.status = "failed"    -> <<"quarantined">>
    [] row.status = "queued"    -> IF row.started = 0 THEN <<"waiting">>
                                   ELSE <<"quarantined">>

Life == [j \in Jobs |-> LifeOf(job[j])]

Contract == INSTANCE InvocationContract WITH Results <- OptResult, life <- Life

(* The attempt store implements the contract: no transaction, readback,    *)
(* crash or clock reading moves an invocation along any other edge, gives  *)
(* it a second owner, or ends it twice.                                    *)
ImplementsContract == Contract!Spec

-----------------------------------------------------------------------------
(* Liveness. *)

(* One process is the sweeper: it ends the calls it makes, replaces a      *)
(* poisoned store object, and calls recover_expired periodically, so that  *)
(* a sweep which is possible again and again commits at last.  Nothing is  *)
(* assumed of the other processes.  The system clock goes on.              *)
EndCall(w) == ReconcileMatch(w) \/ ReconcileAmbiguous(w, FALSE)

SweepLands(w) ==
  clock \in Readings /\ RecoverExpired(w, clock, SweepLimit, "acknowledged", TRUE)

Fairness ==
  /\ WF_vars(Tick)
  /\ \E w \in Workers : /\ WF_vars(EndCall(w))
                        /\ WF_vars(Reopen(w))
                        /\ SF_vars(SweepLands(w))

FairSpec == Spec /\ Fairness

(* A running job does not stay running: its owner ends it or, once the     *)
(* lease runs out, a sweep fences the owner.                               *)
RunningReleased ==
  \A j \in Jobs : job[j].status = "running" ~> job[j].status # "running"
=============================================================================
