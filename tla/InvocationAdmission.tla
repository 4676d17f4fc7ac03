------------------------- MODULE InvocationAdmission -------------------------
(***************************************************************************)
(* Admission and first start of an invocation (store.py), the values they  *)
(* exchange (invocation_execution.py), the gate a worker prepares behind   *)
(* (invocation_worker.py) and the recovery coordinator that reads the same *)
(* rows (invocation_recovery.py).                                          *)
(*                                                                         *)
(* An admission appends a task's events, enqueues its job and writes a     *)
(* receipt in one transaction.  A start mints the job's only lease and     *)
(* appends the event that proves it.  Either may land and raise: its store *)
(* object is then poisoned, and the truth is read back after a reopen.     *)
(* The attempt store claims, ends and enqueues jobs in the same file       *)
(* without knowing of admissions, and any caller may append events.        *)
(*                                                                         *)
(* Digests are abstracted to what they digest: the binding of a job or of  *)
(* a receipt is the request itself.                                        *)
(***************************************************************************)
EXTENDS EventStore, SequencesExt

CONSTANTS
  Requests,     \* admission requests: [invocation, session, task, key,
                \*   events, scope, canonical, pure, max]
  Others,       \* events that other callers append
  Scopes,       \* (tenant, workspace) pairs
  Stores,       \* EventStore objects, each on a connection of its own
  Workers       \* worker ids

Invocations == {r.invocation : r \in Requests}
Tasks == {r.task : r \in Requests}
Sessions == {r.session : r \in Requests}

(* What the payload of an event may name.                                  *)
Names(r) == {<<"invocation", r.invocation>>, <<"task", r.task>>}

(* The event of a start: its key and evidence name the invocation and the  *)
(* attempt minted with it, here the worker's.                              *)
StartEvent(r, w) ==
  [id |-> <<"start", r.invocation, w>>, stream |-> r.session,
   key |-> <<"invocation-start", r.invocation>>, names |-> Names(r),
   start |-> TRUE, worker |-> w]

Minted == {StartEvent(r, w) : r \in Requests, w \in Workers}

(* A batch belongs to its session's stream and repeats no id and no key;   *)
(* the job of a canonical request has one attempt.                         *)
ASSUME RequestsAssumption ==
  /\ Minted \subseteq DomainEvents
  /\ Others \subseteq DomainEvents \ Minted
  /\ \A r \in Requests :
       /\ r.events \in Seq(DomainEvents \ Minted) /\ r.events # <<>>
       /\ r.scope \in Scopes \cup {None}
       /\ r.canonical \in BOOLEAN /\ r.max \in Nat \ {0}
       /\ r.canonical => r.max = 1
       /\ \A k \in DOMAIN r.events :
            /\ r.events[k].stream = r.session
            /\ \A j \in DOMAIN r.events :
                 (\/ r.events[j].id = r.events[k].id
                  \/ r.events[k].key # None /\ r.events[j].key = r.events[k].key)
                   => j = k

VARIABLES
  jobs,      \* invocation_jobs and invocation_attempts, by invocation
  receipts,  \* invocation_admissions, by invocation
  poisoned,  \* the store objects whose last outcome is unknown
  answers,   \* history: receipts that admission callers were answered with
  leases,    \* history: leases handed to workers
  observed,  \* history: start receipts returned to callers
  prepared,  \* worker admissions built behind the gate
  decision   \* the last recovery decision, of a task of a session

admissionVars == <<jobs, receipts>>
history == <<answers, leases, observed, prepared, decision>>
vars == <<logVars, admissionVars, poisoned, history>>

-----------------------------------------------------------------------------
AttemptStatus == {"running", "succeeded", "failed"}

Job ==
  [spec : Requests, status : {"queued"} \cup AttemptStatus,
   attempts : Seq([worker : Workers, status : AttemptStatus])]

Receipt == [request : Requests, version : 0 .. MaxEvents, first : Positions]

(* None is no row. *)
ASSUME NoneAssumption == None \notin Job /\ None \notin Receipt

Lease ==
  [invocation : Invocations, attempt : Nat, worker : Workers, started : BOOLEAN]
Observation ==
  [invocation : Invocations, position : Positions, worker : Workers]

Decisions ==
  {"missing_job", "first_claim_ready", "effect_unknown", "active_lease",
   "receipt_unverified", "result_uncommitted", "terminal_failure"}

TypeOK ==
  /\ LogTypeOK
  /\ jobs \in [Invocations -> Job \cup {None}]
  /\ receipts \in [Invocations -> Receipt \cup {None}]
  /\ poisoned \subseteq Stores
  /\ answers \subseteq Receipt
  /\ leases \subseteq Lease
  /\ observed \subseteq Observation
  /\ prepared \subseteq Lease
  /\ decision \in (Sessions \X Tasks \X Decisions) \cup {None}

Init ==
  /\ LogInit
  /\ jobs = [i \in Invocations |-> None]
  /\ receipts = [i \in Invocations |-> None]
  /\ poisoned = {}
  /\ answers = {} /\ leases = {} /\ observed = {} /\ prepared = {}
  /\ decision = None

-----------------------------------------------------------------------------
(* Two bindings compete for one identity: the invocation, or a task or a   *)
(* job key of one session.                                                 *)
Competes(r, q) ==
  \/ r.invocation = q.invocation
  \/ r.session = q.session /\ (r.task = q.task \/ r.key = q.key)

FreshJob(r) == [spec |-> r, status |-> "queued", attempts |-> <<>>]

Batch(r) ==
  [k \in DOMAIN r.events |->
     [event |-> r.events[k], sequence |-> StreamVersion(r.session) + k]]

(* _validate_invocation_admission_receipt: the job and the events a        *)
(* receipt names are there, contiguous and unchanged.                      *)
Proven(c) ==
  /\ jobs[c.request.invocation] # None
  /\ jobs[c.request.invocation].spec = c.request
  /\ \A k \in DOMAIN c.request.events :
       /\ c.first + k - 1 <= Len(log)
       /\ log[c.first + k - 1] =
            [event |-> c.request.events[k], sequence |-> c.version + k]

(* No receipt, no event and no job of the request's identities.            *)
Unadmitted(r) ==
  /\ \A i \in Invocations :
       /\ receipts[i] # None => ~Competes(receipts[i].request, r)
       /\ jobs[i] # None => ~Competes(jobs[i].spec, r)
  /\ \A k \in DOMAIN r.events, p \in DOMAIN log :
       /\ log[p].event.id # r.events[k].id
       /\ p \notin Idempotent(r.events[k])

ReceiptOf(r) ==
  [request |-> r, version |-> StreamVersion(r.session), first |-> Len(log) + 1]

(* The caller is answered; or the body was complete and its exit raised,   *)
(* and the store is poisoned unless the error came after the transaction.  *)
AnswerReceipt(s, c) ==
  \/ answers' = answers \cup {c} /\ UNCHANGED poisoned
  \/ poisoned' \in {poisoned, poisoned \cup {s}} /\ UNCHANGED answers

(* append_invocation_admission, which the canonical wrappers call too.     *)
AdmitFresh(s, r, version) ==
  /\ s \notin poisoned
  /\ Unadmitted(r)
  /\ Expected(version, StreamVersion(r.session))
  /\ Len(log) + Len(r.events) <= MaxEvents
  /\ log' = log \o Batch(r)
  /\ jobs' = [jobs EXCEPT ![r.invocation] = FreshJob(r)]
  /\ receipts' = [receipts EXCEPT ![r.invocation] = ReceiptOf(r)]
  /\ AnswerReceipt(s, ReceiptOf(r))
  /\ UNCHANGED <<outbox, inbox, snapshot, told, admitted, leases, observed,
                 prepared, decision>>

AdmitAgain(s, r, version) ==
  /\ s \notin poisoned
  /\ receipts[r.invocation] # None
  /\ \A i \in Invocations \ {r.invocation} :
       receipts[i] # None => ~Competes(receipts[i].request, r)
  /\ Proven(receipts[r.invocation])
  /\ receipts[r.invocation].request = r
  /\ Expected(version, receipts[r.invocation].version)
  /\ AnswerReceipt(s, receipts[r.invocation])
  /\ UNCHANGED <<logVars, admissionVars, leases, observed, prepared, decision>>

-----------------------------------------------------------------------------
(* The admitted events and job are exactly those of a manifest and a task  *)
(* transition; the schema of the manifest says whether it has a scope.     *)
Canonical(r) == r.canonical

InScope(r, scope) == Canonical(r) /\ r.scope = scope

(* The manifest declares effects that a worker may repeat.                 *)
PureManifest(r) == Canonical(r) /\ r.pure

(* A receipt that decodes to a canonical request of the wanted schema:     *)
(* scope None is the schema without a tenant and a workspace.              *)
CanonicalAdmission(i, scope) ==
  /\ receipts[i] # None
  /\ Proven(receipts[i])
  /\ InScope(receipts[i].request, scope)

(* Every row of the database that looks like a start of the task.          *)
StartCandidates(r) ==
  {p \in DOMAIN log :
     \/ log[p].event.key \in {<<"invocation-start", r.invocation>>,
                              <<"invocation-started", r.task>>}
     \/ log[p].event.start /\ Names(r) \cap log[p].event.names # {}}

Unstarted(i) ==
  /\ StartCandidates(receipts[i].request) = {}
  /\ jobs[i].status = "queued" /\ jobs[i].attempts = <<>>
  /\ jobs[i].spec.max = 1

(* _validate_invocation_start_readback: the one start-like row is the      *)
(* event of this request and of the job's one attempt, behind the events   *)
(* of the admission.                                                       *)
StartedAt(i, p) ==
  LET c == receipts[i] IN
  /\ StartCandidates(c.request) = {p}
  /\ Len(jobs[i].attempts) = 1
  /\ jobs[i].spec.max = 1
  /\ log[p].event = StartEvent(c.request, jobs[i].attempts[1].worker)
  /\ p >= c.first + Len(c.request.events)
  /\ log[p].sequence > c.version + Len(c.request.events)

Observe(i, p) ==
  [invocation |-> i, position |-> p, worker |-> log[p].event.worker]

(* The first claim of a queued job with a budget left.                     *)
Claimable(i) ==
  /\ jobs[i] # None
  /\ jobs[i].status = "queued"
  /\ Len(jobs[i].attempts) < jobs[i].spec.max

Claimed(i, w) ==
  [jobs[i] EXCEPT !.status = "running",
                  !.attempts = Append(@, [worker |-> w, status |-> "running"])]

LeaseOf(i, w, started) ==
  [invocation |-> i, attempt |-> Len(jobs[i].attempts) + 1, worker |-> w,
   started |-> started]

(* claim_invocation_start and its scoped form mint the lease and append    *)
(* its event.  The lease is handed over only with a normal COMMIT.         *)
ClaimStart(s, i, scope, w, version) ==
  LET e == StartEvent(receipts[i].request, w) IN
  /\ s \notin poisoned
  /\ CanonicalAdmission(i, scope)
  /\ Unstarted(i)
  /\ version = StreamVersion(e.stream)
  /\ Claimable(i)
  /\ InsertsEvent(e, version, None)
  /\ log' = Extended(e)
  /\ jobs' = [jobs EXCEPT ![i] = Claimed(i, w)]
  /\ \/ /\ leases' = leases \cup {LeaseOf(i, w, TRUE)}
        /\ observed' = observed \cup
             {[invocation |-> i, position |-> Len(log) + 1, worker |-> w]}
        /\ UNCHANGED poisoned
     \/ poisoned' = poisoned \cup {s} /\ UNCHANGED <<leases, observed>>
  /\ UNCHANGED <<outbox, inbox, snapshot, told, admitted, receipts, answers,
                 prepared, decision>>

(* Mutant: a replayed start hands its lease to the caller. *)
ObserveStartAsLease(s, i, scope, p, version) ==
  /\ s \notin poisoned
  /\ CanonicalAdmission(i, scope)
  /\ StartedAt(i, p)
  /\ version \in {log[p].sequence - 1, None}
  /\ observed' = observed \cup {Observe(i, p)}
  /\ leases' = leases \cup {LeaseOf(i, log[p].event.worker, TRUE)}
  /\ UNCHANGED <<logVars, admissionVars, poisoned, answers, prepared, decision>>

(* A start that exists is returned as a receipt, never as a lease: to a    *)
(* claim that names the version it began at, and to a read.                *)
ObserveStart(s, i, scope, p, version) ==
  /\ s \notin poisoned
  /\ CanonicalAdmission(i, scope)
  /\ StartedAt(i, p)
  /\ version \in {log[p].sequence - 1, None}
  /\ observed' = observed \cup {Observe(i, p)}
  /\ UNCHANGED <<logVars, admissionVars, poisoned, answers, leases, prepared,
                 decision>>

(* The entry points: schema 2 has no scope, schema 3 has one.              *)
ClaimInvocationStart(s, i, w, version) == ClaimStart(s, i, None, w, version)

ClaimScopedInvocationStart(s, i, scope, w, version) ==
  ClaimStart(s, i, scope, w, version)

ReadInvocationStart(s, i, p, version) == ObserveStart(s, i, None, p, version)

ReadScopedInvocationStart(s, i, scope, p, version) ==
  ObserveStart(s, i, scope, p, version)

(* A rollback that could not be confirmed leaves nothing but a poisoned    *)
(* store; a process that opens the file again starts afresh.               *)
Abandon(s) ==
  /\ s \notin poisoned
  /\ poisoned' = poisoned \cup {s}
  /\ UNCHANGED <<logVars, admissionVars, history>>

Reopen(s) ==
  /\ s \in poisoned
  /\ poisoned' = poisoned \ {s}
  /\ UNCHANGED <<logVars, admissionVars, history>>

-----------------------------------------------------------------------------
(* The gate: a worker with a start's lease presents a manifest, which must *)
(* be the one the start was minted for, and of pure effects.  Nothing is   *)
(* dispatched behind it.                                                   *)
Prepare(l, r) ==
  /\ l \in leases /\ l.started
  /\ PureManifest(r)
  /\ r.invocation = l.invocation
  /\ jobs[l.invocation].spec = r
  /\ prepared' = prepared \cup {l}
  /\ UNCHANGED <<logVars, admissionVars, poisoned, answers, leases, observed,
                 decision>>

(* The recovery coordinator reads a task's job and attempt, and a result   *)
(* receipt the caller may hold, and decides.                               *)
JobsOf(s, t) ==
  {i \in Invocations :
     jobs[i] # None /\ jobs[i].spec.session = s /\ jobs[i].spec.task = t}

(* Mutant: a queued job is taken for one that was never claimed. *)
AssessmentByStatus(i) ==
  CASE jobs[i].status = "queued" -> "first_claim_ready"
    [] jobs[i].status = "running" -> "active_lease"
    [] jobs[i].status = "succeeded" -> "result_uncommitted"
    [] jobs[i].status = "failed" -> "terminal_failure"

Assessment(i) ==
  CASE jobs[i].status = "queued" /\ jobs[i].attempts = <<>> -> "first_claim_ready"
    [] jobs[i].status = "queued" /\ jobs[i].attempts # <<>> -> "effect_unknown"
    [] jobs[i].status = "running" -> "active_lease"
    [] jobs[i].status = "succeeded" -> "result_uncommitted"
    [] jobs[i].status = "failed" -> "terminal_failure"

(* _validate_receipt_match: the receipt is of the current attempt.         *)
ReceiptMatches(i, result) ==
  /\ jobs[i].attempts # <<>>
  /\ result.invocation = i
  /\ result.attempt = Len(jobs[i].attempts)
  /\ result.worker = Last(jobs[i].attempts).worker

Assess(binding, result) ==
  LET s == binding.session
      t == binding.task IN
  /\ \/ /\ JobsOf(s, t) = {} /\ result = None
        /\ decision' = <<s, t, "missing_job">>
     \/ \E i \in JobsOf(s, t) :
          /\ jobs[i].spec = binding
          /\ \/ /\ result = None
                /\ decision' = <<s, t, Assessment(i)>>
             \/ /\ result # None
                /\ ReceiptMatches(i, result)
                /\ decision' = <<s, t, "receipt_unverified">>
  /\ UNCHANGED <<logVars, admissionVars, poisoned, answers, leases, observed,
                 prepared>>

-----------------------------------------------------------------------------
(* Mutant: an enqueue replaces the job of its invocation. *)
EnqueueReplacing(r) ==
  /\ jobs' = [jobs EXCEPT ![r.invocation] = FreshJob(r)]
  /\ UNCHANGED <<logVars, receipts, poisoned, history>>

(* The attempt store on the same file.                                     *)
EnqueueAlone(r) ==
  /\ \A i \in Invocations : jobs[i] # None => ~Competes(jobs[i].spec, r)
  /\ jobs' = [jobs EXCEPT ![r.invocation] = FreshJob(r)]
  /\ UNCHANGED <<logVars, receipts, poisoned, history>>

ClaimAlone(i, w) ==
  /\ Claimable(i)
  /\ jobs' = [jobs EXCEPT ![i] = Claimed(i, w)]
  /\ leases' \in {leases, leases \cup {LeaseOf(i, w, FALSE)}}
  /\ UNCHANGED <<logVars, receipts, poisoned, answers, observed, prepared,
                 decision>>

(* An attempt completes, fails or expires; a job with a budget left is     *)
(* queued again.                                                           *)
EndAttempt(i, status) ==
  LET n == Len(jobs[i].attempts) IN
  /\ jobs[i] # None
  /\ jobs[i].status = "running"
  /\ jobs' = [jobs EXCEPT
       ![i].attempts = [@ EXCEPT ![n].status = status],
       ![i].status = IF status = "failed" /\ n < jobs[i].spec.max
                     THEN "queued" ELSE status]
  /\ UNCHANGED <<logVars, receipts, poisoned, history>>

(* Other appends to the log, some of which look like starts or are part of *)
(* a request; what their callers are told is EventStore's matter.          *)
AppendOther(e) ==
  /\ InsertsEvent(e, None, None)
  /\ log' = Extended(e)
  /\ UNCHANGED <<outbox, inbox, snapshot, told, admitted>>
  /\ UNCHANGED <<admissionVars, poisoned, history>>

Next ==
  \/ \E s \in Stores, r \in Requests, v \in Wanted :
       AdmitFresh(s, r, v) \/ AdmitAgain(s, r, v)
  \/ \E s \in Stores, i \in Invocations, w \in Workers, v \in Wanted :
       \/ ClaimInvocationStart(s, i, w, v)
       \/ \E c \in Scopes : ClaimScopedInvocationStart(s, i, c, w, v)
  \/ \E s \in Stores, i \in Invocations, p \in DOMAIN log, v \in Wanted :
       \/ ReadInvocationStart(s, i, p, v)
       \/ \E c \in Scopes : ReadScopedInvocationStart(s, i, c, p, v)
  \/ \E s \in Stores : Abandon(s) \/ Reopen(s)
  \/ \E l \in leases, r \in Requests : Prepare(l, r)
  \/ \E r \in Requests, l \in leases \cup {None} : Assess(r, l)
  \/ \E r \in Requests : EnqueueAlone(r)
  \/ \E i \in Invocations, w \in Workers : ClaimAlone(i, w)
  \/ \E i \in Invocations, x \in AttemptStatus \ {"running"} : EndAttempt(i, x)
  \/ \E e \in Others : AppendOther(e)

Spec == Init /\ [][Next]_vars

-----------------------------------------------------------------------------
(* An admission, once committed, stays provable whatever the attempt store *)
(* and other writers do, so a caller whose answer was lost is answered by  *)
(* a retry, with what every earlier answer said; and no task, job key or   *)
(* event is admitted twice (append_invocation_admission).                  *)
AdmissionProvable ==
  /\ \A i \in Invocations :
       receipts[i] # None =>
         /\ receipts[i].request.invocation = i
         /\ Proven(receipts[i])
         /\ \A j \in Invocations \ {i} :
              receipts[j] # None =>
                ~Competes(receipts[i].request, receipts[j].request)
  /\ \A c \in answers : receipts[c.request.invocation] = c

(* While no writer appended a row that looks like a start of the task and  *)
(* is not the start of this invocation, and no claim bypassed the start,   *)
(* an admitted invocation reads as exactly one of unstarted and started,   *)
(* however its attempt ended since.                                        *)
StartReadable(i) ==
  (/\ \A p \in StartCandidates(receipts[i].request) :
        \E w \in Workers : log[p].event = StartEvent(receipts[i].request, w)
   /\ (jobs[i].attempts # <<>> => StartCandidates(receipts[i].request) # {}))
  => \/ Unstarted(i)
     \/ \E p \in DOMAIN log : StartedAt(i, p)

(* The authority of a canonical invocation exists once: one lease at most  *)
(* is ever handed out for it, by a start or by a claim that bypassed the   *)
(* start, and never to a caller that only observes; the event in the log,  *)
(* the attempt, every receipt returned and every prepared worker name the  *)
(* worker that lease was handed to; and a start can always be read back    *)
(* (claim_invocation_start, _load_invocation_start_in_transaction).        *)
StartAuthority ==
  /\ \A i \in Invocations :
       receipts[i] # None /\ Canonical(receipts[i].request) =>
         /\ Cardinality({l \in leases : l.invocation = i}) <= 1
         /\ StartReadable(i)
  /\ \A o \in observed :
       /\ log[o.position].event = StartEvent(receipts[o.invocation].request, o.worker)
       /\ jobs[o.invocation].attempts[1].worker = o.worker
       /\ \A l \in leases : l.invocation = o.invocation =>
            l.started /\ l.worker = o.worker
  /\ \A l \in prepared : l \in leases /\ \E o \in observed :
       o.invocation = l.invocation /\ o.worker = l.worker

(* The leases and the starts of a task of a session.                       *)
LeasesOf(s, t) == {l \in leases : l.invocation \in JobsOf(s, t)}

StartsOf(s, t) ==
  {p \in RowsOf(s) : log[p].event \in Minted /\ <<"task", t>> \in log[p].event.names}

(* What a step that decides knows of the task it decides about.            *)
DecidesHonestly ==
  decision' # decision =>
    LET s == decision'[1]
        t == decision'[2] IN
    CASE decision'[3] \in {"first_claim_ready", "missing_job"} ->
           LeasesOf(s, t) = {} /\ StartsOf(s, t) = {}
      [] decision'[3] = "receipt_unverified" -> LeasesOf(s, t) # {}
      [] OTHER -> \E i \in JobsOf(s, t) : jobs[i].attempts # <<>>

(* Recovery says that a task may be claimed for the first time, or that it *)
(* has no job, only when no lease of any of the task's invocations exists  *)
(* anywhere, delivered or lost; and that it has an unverified receipt only *)
(* for a lease that was handed out (assess_invocation_recovery).           *)
RecoveryHonest == [][DecidesHonestly]_vars
=============================================================================
