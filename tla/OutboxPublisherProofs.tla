------------------------ MODULE OutboxPublisherProofs ------------------------
(***************************************************************************)
(* Proofs about the transactional outbox and its publishers, for any       *)
(* messages, publishers, leases and limits.                                *)
(***************************************************************************)
EXTENDS OutboxPublisher, TLAPS, FiniteSetTheorems, SequenceTheorems

-----------------------------------------------------------------------------
(* The inductive invariant.                                                *)

(* The connector reports acceptance after the effect, only an accepted     *)
(* call is acknowledged, and nothing is uncertain about an attempt yet     *)
(* that is claimed, called or acknowledged.                                *)
TaskOK(a) ==
  /\ a.result = "accepted" => a.effect
  /\ a.phase = "acking" => a.result = "accepted" /\ a.thread = "ended"
  /\ a.phase = "calling" /\ a.thread = "ended" => a.result # None
  /\ a.phase = "quarantining" => a.reason \in Reasons
  /\ a.thread = "running" => a.result = None
  /\ a.phase \in {"claimed", "calling", "acking"} => a.reason = None

Active(a) == a.phase \in {"claimed", "calling", "acking", "rejecting"}

(* An attempt that has, or may still start, a connector thread.            *)
Loaded(a) == a.phase = "claimed" \/ a.thread = "running"

LoadOf(p) == {t \in Tokens : task[t].publisher = p /\ Loaded(task[t])}

(* A message in flight has the deadline and the count of the attempt whose *)
(* token it carries.                                                       *)
RowOK(m) ==
  row[m].status = "in_flight" =>
    /\ row[m].token \in Tokens
    /\ task[row[m].token].message = m
    /\ row[m].expires = task[row[m].token].deadline
    /\ row[m].attempts = task[row[m].token].count

(* A message that is not in flight is held by nobody.                      *)
Unheld(m) == row[m].status # "in_flight" => row[m].token = None

(* An attempt inside its lease that has not ended holds its message.       *)
Holding(t) ==
  Active(task[t]) /\ clock < task[t].deadline =>
    /\ row[task[t].message].status = "in_flight"
    /\ row[task[t].message].token = t

MarkedIsOver ==
  \A a \in ambiguity : a.token \in Tokens /\ task[a.token].phase = "done"

OutboxInv ==
  /\ TypeOK
  /\ \A t \in Tokens : TaskOK(task[t]) /\ Holding(t)
  /\ \A m \in Messages : RowOK(m) /\ Unheld(m)
  /\ MarkedIsOver
  /\ AmbiguityResolvable
  /\ TerminalEarned
  /\ \A p \in Publishers : Cardinality(LoadOf(p)) <= MaxCallbacks

-----------------------------------------------------------------------------
(* The tokens of a batch: Rank numbers the messages of a claim without a   *)
(* gap, and MessageAt is its inverse.                                      *)
LEMMA SizeOfInterval ==
  ASSUME NEW n \in Nat
  PROVE  IsFiniteSet(1 .. n) /\ Cardinality(1 .. n) = n
<1>1. IsFiniteSet(1 .. n) /\ Cardinality(1 .. n) = IF 1 > n THEN 0 ELSE n - 1 + 1
  BY FS_Interval
<1>2. (IF 1 > n THEN 0 ELSE n - 1 + 1) = n
  OBVIOUS
<1> QED BY <1>1, <1>2

LEMMA RankNumbers ==
  ASSUME NEW B \in SUBSET Messages, NEW n, n = Cardinality(B)
  PROVE  /\ IsFiniteSet(B) /\ n \in Nat
         /\ \A m \in B : Rank(m, B) \in 1 .. n /\ MessageAt(B, Rank(m, B)) = m
         /\ \A i \in 1 .. n : MessageAt(B, i) \in B /\ Rank(MessageAt(B, i), B) = i
<1> DEFINE upto(m) == {k \in B : k <= m}
<1>1. IsFiniteSet(B) /\ n \in Nat
  BY MessagesAssumption, FS_Subset, FS_CardinalityType
<1>2. \A m \in B : m \in Nat
  BY MessagesAssumption
<1>3. \A m \in B : /\ IsFiniteSet(upto(m)) /\ Rank(m, B) = Cardinality(upto(m))
                   /\ Rank(m, B) \in Nat /\ Rank(m, B) <= n
  <2> SUFFICES ASSUME NEW m \in B
               PROVE  /\ IsFiniteSet(upto(m)) /\ Rank(m, B) = Cardinality(upto(m))
                      /\ Rank(m, B) \in Nat /\ Rank(m, B) <= n
    OBVIOUS
  <2>1. upto(m) \in SUBSET B
    OBVIOUS
  <2>2. Rank(m, B) = Cardinality(upto(m))
    BY DEF Rank
  <2> HIDE DEF upto
  <2>3. IsFiniteSet(upto(m)) /\ Cardinality(upto(m)) <= Cardinality(B)
    BY <1>1, <2>1, FS_Subset
  <2>4. Cardinality(upto(m)) \in Nat
    BY <2>3, FS_CardinalityType
  <2> QED BY <2>2, <2>3, <2>4
<1>4. \A m \in B : Rank(m, B) # 0
  <2> SUFFICES ASSUME NEW m \in B PROVE Rank(m, B) # 0
    OBVIOUS
  <2>1. m \in upto(m)
    BY <1>2
  <2>2. upto(m) # {}
    BY <2>1
  <2> HIDE DEF upto
  <2> QED BY <1>3, <2>2, FS_EmptySet
<1>5. \A m \in B : Rank(m, B) \in 1 .. n
  <2> SUFFICES ASSUME NEW m \in B PROVE Rank(m, B) \in 1 .. n
    OBVIOUS
  <2>1. Rank(m, B) \in Nat /\ Rank(m, B) <= n /\ Rank(m, B) # 0
    BY <1>3, <1>4
  <2> QED BY <1>1, <2>1
<1>6. \A m, k \in B : m < k => Rank(m, B) # Rank(k, B)
  <2> SUFFICES ASSUME NEW m \in B, NEW k \in B, m < k
               PROVE  Rank(m, B) # Rank(k, B)
    OBVIOUS
  <2>1. upto(m) \in SUBSET upto(k)
    BY <1>2
  <2>2. k \in upto(k) /\ k \notin upto(m)
    BY <1>2
  <2> HIDE DEF upto
  <2>3. upto(m) # upto(k)
    BY <2>2
  <2> QED BY <1>3, <2>1, <2>3, FS_Subset
<1>7. \A m, k \in B : Rank(m, B) = Rank(k, B) => m = k
  BY <1>2, <1>6
<1>8. PICK f : f = [m \in B |-> Rank(m, B)]
  OBVIOUS
<1>9. f \in Injection(B, 1 .. n)
  <2>1. f \in [B -> 1 .. n]
    BY <1>5, <1>8
  <2>2. \A m, k \in B : f[m] = f[k] => m = k
    BY <1>7, <1>8
  <2> QED BY <2>1, <2>2 DEF Injection, IsInjective
<1>10. f \in Surjection(B, 1 .. n)
  <2>1. IsFiniteSet(1 .. n) /\ Cardinality(1 .. n) = Cardinality(B)
    BY <1>1, SizeOfInterval
  <2> QED BY <1>9, <2>1, FS_Injection
<1>11. \A i \in 1 .. n : \E m \in B : Rank(m, B) = i
  BY <1>8, <1>10 DEF Surjection
<1>12. \A i \in 1 .. n : MessageAt(B, i) \in B /\ Rank(MessageAt(B, i), B) = i
  BY <1>11 DEF MessageAt
<1>13. \A m \in B : MessageAt(B, Rank(m, B)) = m
  BY <1>5, <1>7, <1>12
<1> QED BY <1>1, <1>5, <1>12, <1>13

-----------------------------------------------------------------------------
(* What any step of an attempt, of its thread or of its process may do to  *)
(* it: it never becomes active or loaded again, and an effect and a timely *)
(* acceptance stay.                                                        *)
Progress(a, b) ==
  /\ b \in Task /\ TaskOK(b)
  /\ b.publisher = a.publisher /\ b.message = a.message
  /\ b.deadline = a.deadline /\ b.count = a.count
  /\ a.effect => b.effect
  /\ Confirmed(a) => Confirmed(b)
  /\ a.phase = "done" => b.phase = "done"
  /\ Active(b) => Active(a)
  /\ Loaded(b) => Loaded(a)

TasksProgress ==
  /\ task' \in Seq(Task) /\ Len(task') = Len(task)
  /\ \A t \in Tokens : Progress(task[t], task'[t])

LEMMA TaskFacts ==
  ASSUME OutboxInv
  PROVE  /\ task \in Seq(Task) /\ Len(task) \in Nat /\ DOMAIN task = Tokens
         /\ \A t \in Tokens : task[t] \in Task /\ TaskOK(task[t])
         /\ clock \in Times /\ row \in [Messages -> Row]
         /\ ambiguity \subseteq Ambiguity
<1>1. task \in Seq(Task) /\ clock \in Times /\ row \in [Messages -> Row]
      /\ ambiguity \subseteq Ambiguity
  BY DEF OutboxInv, TypeOK
<1>2. Len(task) \in Nat /\ DOMAIN task = Tokens
  BY <1>1 DEF Tokens
<1>3. \A t \in Tokens : task[t] \in Task
  BY <1>1 DEF Tokens
<1> QED BY <1>1, <1>2, <1>3 DEF OutboxInv

LEMMA ProgressNone ==
  ASSUME NEW a \in Task, TaskOK(a)
  PROVE  Progress(a, a)
BY DEF Progress

LEMMA OneTask ==
  ASSUME OutboxInv, NEW t \in Tokens, NEW b, Progress(task[t], b), SetTask(t, b)
  PROVE  /\ TasksProgress
         /\ task'[t] = b
         /\ \A s \in Tokens : s # t => task'[s] = task[s]
<1>1. task' = [task EXCEPT ![t] = b] /\ b \in Task
  BY DEF SetTask, Progress
<1>2. /\ task' \in Seq(Task) /\ Len(task') = Len(task)
      /\ \A s \in Tokens : task'[s] = IF s = t THEN b ELSE task[s]
  BY <1>1, TaskFacts DEF Tokens
<1>3. \A s \in Tokens : Progress(task[s], task'[s])
  BY <1>2, TaskFacts, ProgressNone
<1> QED BY <1>2, <1>3 DEF TasksProgress

LEMMA AllTasks ==
  ASSUME OutboxInv, task' = [t \in Tokens |-> task'[t]],
         \A t \in Tokens : Progress(task[t], task'[t])
  PROVE  TasksProgress
<1>1. \A t \in Tokens : task'[t] \in Task
  BY DEF Progress
<1>2. task' \in Seq(Task) /\ Len(task') = Len(task)
  BY <1>1, TaskFacts DEF Tokens
<1> QED BY <1>2 DEF TasksProgress

(* The publisher's running threads and unstarted attempts do not grow.     *)
LEMMA LoadFalls ==
  ASSUME OutboxInv, TasksProgress, NEW p \in Publishers
  PROVE  Cardinality(LoadOf(p)') <= MaxCallbacks
<1>1. Tokens' = Tokens /\ Len(task) \in Nat
  BY TaskFacts DEF TasksProgress, Tokens
<1>2. IsFiniteSet(Tokens)
  BY <1>1, SizeOfInterval DEF Tokens
<1>3. LoadOf(p) \in SUBSET Tokens /\ LoadOf(p)' \in SUBSET LoadOf(p)
  BY <1>1 DEF LoadOf, TasksProgress, Progress, Loaded
<1>4. IsFiniteSet(LoadOf(p))
  BY <1>2, <1>3, FS_Subset
<1>5. Cardinality(LoadOf(p)') <= Cardinality(LoadOf(p)) /\ IsFiniteSet(LoadOf(p)')
  BY <1>3, <1>4, FS_Subset
<1>6. Cardinality(LoadOf(p)) \in Nat /\ Cardinality(LoadOf(p)') \in Nat
  BY <1>4, <1>5, FS_CardinalityType
<1>7. Cardinality(LoadOf(p)) <= MaxCallbacks
  BY DEF OutboxInv
<1> QED BY <1>5, <1>6, <1>7, LimitsAssumption

Earned(m) ==
  /\ row[m].status = "published" =>
       \/ \E t \in Tokens : task[t].message = m /\ Confirmed(task[t])
       \/ \E a \in ambiguity : a.message = m /\ a.resolution = "published"
  /\ row[m].status = "dead_letter" =>
       \/ row[m].attempts >= MaxAttempts
       \/ \E a \in ambiguity : a.message = m /\ a.resolution = "dead_letter"

(* The row of m leaves the state it was in, and no attempt that is active  *)
(* after the step holds it.                                                *)
Leaves(m) ==
  /\ row'[m].status # "in_flight" /\ row'[m].token = None
  /\ row[m].status = "in_flight" => ~Active(task'[row[m].token])
  /\ Earned(m)'

(* Steps in which no message is claimed.                                   *)
LEMMA Kept ==
  ASSUME OutboxInv, TasksProgress, clock' \in Times, clock' >= clock,
         row' \in [Messages -> Row], ambiguity' \subseteq Ambiguity,
         \A m \in Messages : row'[m] = row[m] \/ Leaves(m),
         \A a \in ambiguity' : a.token \in Tokens /\ task'[a.token].phase = "done",
         \A a \in ambiguity : a.resolution # None => a \in ambiguity',
         AmbiguityResolvable'
  PROVE  OutboxInv'
<1>1. /\ task' \in Seq(Task) /\ Tokens' = Tokens
      /\ \A t \in Tokens : Progress(task[t], task'[t])
  BY DEF TasksProgress, Tokens
<1>2. TypeOK'
  BY <1>1 DEF TypeOK
<1>3. \A t \in Tokens : task[t].message \in Messages /\ task[t].deadline \in Nat
  BY TaskFacts DEF Task, Times
<1>4. clock \in Nat /\ clock' \in Nat
  BY TaskFacts DEF Times
<1>5. \A t \in Tokens' : (TaskOK(task[t]))'
  BY <1>1 DEF Progress, TaskOK
<1>6. \A t \in Tokens' : Holding(t)'
  <2> SUFFICES ASSUME NEW t \in Tokens, Active(task'[t]), clock' < task'[t].deadline
               PROVE  /\ row'[task'[t].message].status = "in_flight"
                      /\ row'[task'[t].message].token = t
    BY <1>1 DEF Holding, Active
  <2>1. /\ Active(task[t]) /\ task'[t].deadline = task[t].deadline
        /\ task'[t].message = task[t].message
    BY <1>1 DEF Progress
  <2>2. clock < task[t].deadline
    BY <1>3, <1>4, <2>1
  <2>3. row[task[t].message].status = "in_flight" /\ row[task[t].message].token = t
    BY <2>1, <2>2 DEF OutboxInv, Holding
  <2>4. ~Leaves(task[t].message)
    BY <2>3 DEF Leaves
  <2> QED BY <1>3, <2>1, <2>3, <2>4
<1>7. \A m \in Messages : RowOK(m)'
  <2> SUFFICES ASSUME NEW m \in Messages, row'[m].status = "in_flight"
               PROVE  /\ row'[m].token \in Tokens
                      /\ task'[row'[m].token].message = m
                      /\ row'[m].expires = task'[row'[m].token].deadline
                      /\ row'[m].attempts = task'[row'[m].token].count
    BY <1>1 DEF RowOK
  <2>1. row'[m] = row[m]
    BY DEF Leaves
  <2>2. /\ row[m].token \in Tokens
        /\ task[row[m].token].message = m
        /\ row[m].expires = task[row[m].token].deadline
        /\ row[m].attempts = task[row[m].token].count
    BY <2>1 DEF OutboxInv, RowOK
  <2> QED BY <1>1, <2>1, <2>2 DEF Progress
<1>8. MarkedIsOver'
  BY <1>1 DEF MarkedIsOver
<1>9. \A m \in Messages : Earned(m)'
  <2> SUFFICES ASSUME NEW m \in Messages, row'[m] = row[m]
               PROVE  Earned(m)'
    BY DEF Leaves
  <2>1. Earned(m)
    BY DEF OutboxInv, TerminalEarned, Earned
  <2>2. \A t \in Tokens : task[t].message = m /\ Confirmed(task[t]) =>
                            task'[t].message = m /\ Confirmed(task'[t])
    BY <1>1 DEF Progress
  <2>3. \A a \in ambiguity : \A r \in {"published", "dead_letter"} :
          a.message = m /\ a.resolution = r => a \in ambiguity'
    BY NoneAssumption
  <2>4. \A t \in Tokens : Confirmed(task'[t]) <=> Confirmed(task[t])'
    BY DEF Confirmed
  <2> QED BY <1>1, <2>1, <2>2, <2>3, <2>4 DEF Earned
<1>10. TerminalEarned'
  BY <1>9 DEF TerminalEarned, Earned
<1>11. \A m \in Messages : Unheld(m)'
  BY DEF OutboxInv, Unheld, Leaves
<1> QED BY <1>2, <1>5, <1>6, <1>7, <1>8, <1>10, <1>11, LoadFalls DEF OutboxInv

(* Steps that touch attempts only.                                         *)
LEMMA TasksOnly ==
  ASSUME OutboxInv, TasksProgress, UNCHANGED <<clock, row, ambiguity>>
  PROVE  OutboxInv'
<1>1. /\ clock' \in Times /\ clock' >= clock /\ row' \in [Messages -> Row]
      /\ ambiguity' \subseteq Ambiguity
  BY TaskFacts DEF Times
<1>2. \A a \in ambiguity' : a.token \in Tokens /\ task'[a.token].phase = "done"
  BY DEF OutboxInv, MarkedIsOver, TasksProgress, Progress
<1>3. AmbiguityResolvable'
  BY DEF OutboxInv, AmbiguityResolvable, Resolvable
<1> QED BY <1>1, <1>2, <1>3, Kept

(* An attempt goes to another phase, with or without a reason.             *)
Goes(a, b, f) ==
  /\ b \in Task /\ b.phase = f
  /\ b.publisher = a.publisher /\ b.message = a.message
  /\ b.deadline = a.deadline /\ b.count = a.count /\ b.effect = a.effect
  /\ b.thread = a.thread /\ b.result = a.result
  /\ IF f = "quarantining" THEN b.reason \in Reasons ELSE b.reason = a.reason

LEMMA GoesPlain ==
  ASSUME NEW a \in Task, NEW f \in Phases \ {"quarantining"}, NEW b, b = [a EXCEPT !.phase = f]
  PROVE  Goes(a, b, f)
BY DEF Task, Goes

LEMMA GoesFor ==
  ASSUME NEW a \in Task, NEW r \in Reasons, NEW b,
         b = [a EXCEPT !.phase = "quarantining", !.reason = r]
  PROVE  Goes(a, b, "quarantining") /\ b.reason = r
BY DEF Task, Goes, Phases

LEMMA Moves ==
  ASSUME NEW a \in Task, TaskOK(a), NEW b, NEW f, Goes(a, b, f),
         f \notin {"claimed", "calling"}, a.phase # "done",
         f \in {"acking", "rejecting"} => Active(a),
         f = "acking" => /\ a.result = "accepted" /\ a.thread = "ended"
                         /\ a.reason = None,
         f = "quarantining" => \/ a.phase = "calling"
                               \/ b.reason \in {"caller_cancelled", "ack_failed"}
  PROVE  Progress(a, b)
<1> USE DEF Goes
<1>2. TaskOK(b)
  BY DEF TaskOK
<1>3. Active(b) => Active(a)
  BY DEF Active
<1>4. Loaded(b) => Loaded(a)
  BY DEF Loaded
<1>5. Confirmed(a) => Confirmed(b)
  BY DEF Confirmed
<1> QED BY <1>2, <1>3, <1>4, <1>5 DEF Progress

LEMMA BeginStep ==
  ASSUME OutboxInv, NEW t \in Tokens, NEW started \in BOOLEAN, Begin(t, started)
  PROVE  OutboxInv'
<1> DEFINE a == task[t]
<1>1. a \in Task /\ TaskOK(a) /\ clock \in Times
  BY TaskFacts
<1>2. a.phase = "claimed" /\ UNCHANGED <<clock, row, ambiguity>>
  BY DEF Begin
<1>3. CASE SetTask(t, [a EXCEPT !.phase = "rejecting"])
  <2>1. PICK b : b = [a EXCEPT !.phase = "rejecting"]
    OBVIOUS
  <2>2. Progress(a, b)
    <3>1. Goes(a, b, "rejecting")
      BY <1>1, <2>1, GoesPlain DEF Phases
    <3> QED BY <1>1, <1>2, <3>1, Moves DEF Active
  <2> QED BY <1>2, <1>3, <2>1, <2>2, OneTask, TasksOnly
<1>4. ASSUME NEW h \in {"running", "ended"}, NEW r \in {None, "failed"},
             h = "ended" => r = "failed", h = "running" => r = None,
             SetTask(t, [a EXCEPT !.phase = "calling", !.since = clock,
                                  !.thread = h, !.result = r])
      PROVE  OutboxInv'
  <2>1. PICK b : b = [a EXCEPT !.phase = "calling", !.since = clock,
                               !.thread = h, !.result = r]
    OBVIOUS
  <2>2. /\ b \in Task /\ b.phase = "calling" /\ b.result = r /\ b.effect = a.effect
        /\ b.publisher = a.publisher /\ b.message = a.message
        /\ b.deadline = a.deadline /\ b.count = a.count /\ b.thread = h
        /\ b.reason = a.reason /\ a.reason = None
    BY <1>1, <1>2, <2>1 DEF Task, Phases, TaskOK
  <2>3. r # "accepted" /\ (h = "ended" => r # None)
    BY <1>4, NoneAssumption
  <2>4. Progress(a, b)
    BY <1>2, <1>4, <2>2, <2>3 DEF Progress, TaskOK, Active, Loaded, Confirmed
  <2> QED BY <1>2, <1>4, <2>1, <2>4, OneTask, TasksOnly
<1>5. CASE started
  <2>1. \/ SetTask(t, [a EXCEPT !.phase = "rejecting"])
        \/ SetTask(t, [a EXCEPT !.phase = "calling", !.since = clock,
                                !.thread = "running", !.result = None])
    BY <1>5 DEF Begin
  <2> QED BY <1>3, <1>4, <2>1
<1>6. CASE ~started
  <2>1. \/ SetTask(t, [a EXCEPT !.phase = "rejecting"])
        \/ SetTask(t, [a EXCEPT !.phase = "calling", !.since = clock,
                                !.thread = "ended", !.result = "failed"])
    BY <1>6 DEF Begin
  <2> QED BY <1>3, <1>4, <2>1
<1> QED BY <1>5, <1>6

LEMMA ConnectorKeeps ==
  ASSUME OutboxInv, NEW t \in Tokens, ConnectorStep(t)
  PROVE  OutboxInv'
<1> DEFINE a == task[t]
<1>1. a \in Task /\ TaskOK(a)
  BY TaskFacts
<1>2. CASE TakeEffect(t)
  <2>1. PICK b : b = [a EXCEPT !.effect = TRUE]
    OBVIOUS
  <2>2. /\ b \in Task /\ b.effect /\ b.phase = a.phase /\ b.result = a.result
        /\ b.publisher = a.publisher /\ b.message = a.message
        /\ b.deadline = a.deadline /\ b.count = a.count /\ b.thread = a.thread
        /\ b.reason = a.reason
    BY <1>1, <2>1 DEF Task
  <2>3. Progress(a, b)
    BY <1>1, <2>2 DEF Progress, TaskOK, Active, Loaded, Confirmed
  <2>4. SetTask(t, b) /\ UNCHANGED <<clock, row, ambiguity>>
    BY <1>2, <2>1 DEF TakeEffect
  <2> QED BY <2>3, <2>4, OneTask, TasksOnly
<1>3. ASSUME NEW r \in {"accepted", "failed"}, Return(t, r)
      PROVE  OutboxInv'
  <2>1. PICK b : b = [a EXCEPT !.thread = "ended", !.result = r]
    OBVIOUS
  <2>2. /\ b \in Task /\ b.effect = a.effect /\ b.phase = a.phase /\ b.result = r
        /\ b.publisher = a.publisher /\ b.message = a.message
        /\ b.deadline = a.deadline /\ b.count = a.count /\ b.thread = "ended"
        /\ b.reason = a.reason
    BY <1>1, <2>1 DEF Task
  <2>3. a.thread = "running" /\ (r = "accepted" => a.effect)
    BY <1>3 DEF Return
  <2>4. a.phase # "acking"
    BY <1>1, <2>3 DEF TaskOK
  <2>5. ~Confirmed(a)
    BY <1>1, <2>3, NoneAssumption DEF TaskOK, Confirmed
  <2>7. Progress(a, b)
    BY <1>1, <2>2, <2>3, <2>4, <2>5, NoneAssumption DEF Progress, TaskOK, Active, Loaded
  <2>6. SetTask(t, b) /\ UNCHANGED <<clock, row, ambiguity>>
    BY <1>3, <2>1 DEF Return
  <2> QED BY <2>6, <2>7, OneTask, TasksOnly
<1> QED BY <1>2, <1>3 DEF ConnectorStep

LEMMA ReceiveStep ==
  ASSUME OutboxInv, NEW t \in Tokens, Receive(t)
  PROVE  OutboxInv'
<1> DEFINE a == task[t]
           late == "lease_expired_after_accept"
<1>1. a \in Task /\ TaskOK(a)
  BY TaskFacts
<1>2. /\ a.phase = "calling" /\ a.thread = "ended"
      /\ UNCHANGED <<clock, row, ambiguity>>
  BY DEF Receive
<1>3. Active(a)
  BY <1>2 DEF Active
<1>4. CASE SetTask(t, [a EXCEPT !.phase = "rejecting"])
  <2>1. PICK b : b = [a EXCEPT !.phase = "rejecting"]
    OBVIOUS
  <2>2. Progress(a, b)
    <3>1. Goes(a, b, "rejecting")
      BY <1>1, <2>1, GoesPlain DEF Phases
    <3> QED BY <1>1, <1>2, <1>3, <3>1, Moves
  <2> QED BY <1>2, <1>4, <2>1, <2>2, OneTask, TasksOnly
<1>5. CASE a.result = "accepted" /\ SetTask(t, [a EXCEPT !.phase = "acking"])
  <2>1. PICK b : b = [a EXCEPT !.phase = "acking"]
    OBVIOUS
  <2>2. Progress(a, b)
    <3>1. Goes(a, b, "acking")
      BY <1>1, <2>1, GoesPlain DEF Phases
    <3>2. a.reason = None
      BY <1>1, <1>2 DEF TaskOK
    <3> QED BY <1>1, <1>2, <1>3, <1>5, <3>1, <3>2, Moves
  <2> QED BY <1>2, <1>5, <2>1, <2>2, OneTask, TasksOnly
<1>6. CASE SetTask(t, [a EXCEPT !.phase = "quarantining", !.reason = late])
  <2>1. PICK b : b = [a EXCEPT !.phase = "quarantining", !.reason = late]
    OBVIOUS
  <2>2. Progress(a, b)
    <3>1. Goes(a, b, "quarantining")
      BY <1>1, <2>1, GoesFor DEF Reasons
    <3> QED BY <1>1, <1>2, <1>3, <3>1, Moves
  <2> QED BY <1>2, <1>6, <2>1, <2>2, OneTask, TasksOnly
<1>7. a.result \in {"failed", "accepted"}
  BY <1>1, <1>2 DEF Task, TaskOK
<1>8. clock < a.deadline \/ clock >= a.deadline
  BY <1>1, TaskFacts DEF Task, Times
<1> QED BY <1>4, <1>5, <1>6, <1>7, <1>8 DEF Receive

LEMMA TimeoutStep ==
  ASSUME OutboxInv, NEW t \in Tokens, Timeout(t)
  PROVE  OutboxInv'
<1> DEFINE a == task[t]
<1>1. a \in Task /\ TaskOK(a)
  BY TaskFacts
<1>2. PICK b : b = [a EXCEPT !.phase = "quarantining", !.reason = "callback_timeout"]
  OBVIOUS
<1>3. /\ a.phase = "calling" /\ SetTask(t, b) /\ UNCHANGED <<clock, row, ambiguity>>
  BY <1>2 DEF Timeout
<1>4. Goes(a, b, "quarantining")
  BY <1>1, <1>2, GoesFor DEF Reasons
<1>5. Progress(a, b)
  BY <1>1, <1>3, <1>4, Moves
<1> QED BY <1>3, <1>5, OneTask, TasksOnly

LEMMA CancelStep ==
  ASSUME OutboxInv, NEW p \in Publishers, Cancel(p)
  PROVE  OutboxInv'
<1>1. ASSUME NEW a \in Task, TaskOK(a)
      PROVE  Progress(a, Cancelled(a))
  <2>1. PICK b : b = Cancelled(a)
    OBVIOUS
  <2>2. CASE a.phase = "claimed"
    <3>1. b = [a EXCEPT !.phase = "done"]
      BY <2>1, <2>2 DEF Cancelled
    <3>2. Goes(a, b, "done")
      BY <3>1, GoesPlain DEF Phases
    <3> QED BY <1>1, <2>1, <2>2, <3>2, Moves
  <2>3. CASE a.phase = "calling"
    <3>1. b = [a EXCEPT !.phase = "quarantining", !.reason = "caller_cancelled"]
      BY <2>1, <2>3 DEF Cancelled
    <3>2. Goes(a, b, "quarantining")
      BY <3>1, GoesFor DEF Reasons
    <3> QED BY <1>1, <2>1, <2>3, <3>2, Moves
  <2>4. CASE a.phase = "acking"
    <3>1. b = [a EXCEPT !.cancelled = TRUE]
      BY <2>1, <2>4 DEF Cancelled
    <3>2. Goes(a, b, a.phase)
      BY <2>4, <3>1 DEF Goes, Task
    <3> QED BY <1>1, <2>1, <2>4, <3>2 DEF Goes, Progress, TaskOK, Active, Loaded, Confirmed
  <2>5. CASE a.phase \notin {"claimed", "calling", "acking"}
    <3>1. b = a
      BY <2>1, <2>5 DEF Cancelled
    <3> QED BY <1>1, <2>1, <3>1, ProgressNone
  <2> QED BY <2>2, <2>3, <2>4, <2>5
<1>2. /\ task' = [t \in Tokens |-> IF task[t].publisher = p THEN Cancelled(task[t])
                                   ELSE task[t]]
      /\ UNCHANGED <<clock, row, ambiguity>>
  BY DEF Cancel
<1>3. \A t \in Tokens : task'[t] \in {task[t], Cancelled(task[t])}
  BY <1>2
<1>4. \A t \in Tokens : Progress(task[t], task'[t])
  BY <1>1, <1>3, TaskFacts, ProgressNone
<1>5. task' = [t \in Tokens |-> task'[t]]
  BY <1>2
<1> QED BY <1>2, <1>4, <1>5, AllTasks, TasksOnly

LEMMA CrashStep ==
  ASSUME OutboxInv, NEW p \in Publishers, Crash(p)
  PROVE  OutboxInv'
<1>1. ASSUME NEW a \in Task, TaskOK(a)
      PROVE  Progress(a, Killed(a))
  <2>1. PICK b : b = Killed(a)
    OBVIOUS
  <2>2. PICK h \in {"none", "ended"}, f \in {"done", "dropped"} :
          /\ b = [a EXCEPT !.thread = h, !.phase = f]
          /\ a.phase = "done" => f = "done"
    BY <2>1 DEF Killed, Task
  <2>3. /\ b \in Task /\ b.phase = f /\ b.thread = h
        /\ b.publisher = a.publisher /\ b.message = a.message
        /\ b.deadline = a.deadline /\ b.count = a.count /\ b.effect = a.effect
        /\ b.result = a.result /\ b.reason = a.reason
    BY <2>2 DEF Task, Phases
  <2> QED BY <1>1, <2>1, <2>2, <2>3 DEF Progress, TaskOK, Active, Loaded, Confirmed
<1>2. /\ task' = [t \in Tokens |-> IF task[t].publisher = p THEN Killed(task[t])
                                   ELSE task[t]]
      /\ UNCHANGED <<clock, row, ambiguity>>
  BY DEF Crash
<1>3. \A t \in Tokens : task'[t] \in {task[t], Killed(task[t])}
  BY <1>2
<1>4. \A t \in Tokens : Progress(task[t], task'[t])
  BY <1>1, <1>3, TaskFacts, ProgressNone
<1>5. task' = [t \in Tokens |-> task'[t]]
  BY <1>2
<1> QED BY <1>2, <1>4, <1>5, AllTasks, TasksOnly

LEMMA TickStep ==
  ASSUME OutboxInv, Tick
  PROVE  OutboxInv'
<1>1. /\ UNCHANGED <<row, ambiguity, task>> /\ clock' = clock + 1 /\ clock < MaxTime
  BY DEF Tick
<1>2. clock' \in Times /\ clock' >= clock
  BY <1>1, TaskFacts, TimesAssumption DEF Times
<1>3. TasksProgress
  BY <1>1, TaskFacts, ProgressNone DEF TasksProgress
<1>4. /\ row' \in [Messages -> Row] /\ ambiguity' \subseteq Ambiguity
      /\ \A a \in ambiguity' : a.token \in Tokens /\ task'[a.token].phase = "done"
  BY <1>1, TaskFacts DEF OutboxInv, MarkedIsOver
<1>5. AmbiguityResolvable'
  BY <1>1 DEF OutboxInv, AmbiguityResolvable, Resolvable
<1> QED BY <1>1, <1>2, <1>3, <1>4, <1>5, Kept

-----------------------------------------------------------------------------
(* Transactions on a message's row.                                        *)

LEMMA SettledRow ==
  ASSUME OutboxInv, NEW m \in Messages,
         NEW s \in {"pending", "published", "dead_letter"}, NEW x \in Times,
         row' = Settled(m, s, x)
  PROVE  /\ row' \in [Messages -> Row]
         /\ row'[m].status = s /\ row'[m].attempts = row[m].attempts
         /\ row'[m].token = None
         /\ \A k \in Messages : k # m => row'[k] = row[k]
<1>1. PICK r : r = [row[m] EXCEPT !.status = s, !.available = x,
                                  !.token = None, !.expires = None]
  OBVIOUS
<1>2. row' = [row EXCEPT ![m] = r]
  BY <1>1 DEF Settled
<1>3. row \in [Messages -> Row] /\ row[m] \in Row
  BY TaskFacts
<1>4. r \in Row /\ r.status = s /\ r.attempts = row[m].attempts /\ r.token = None
  BY <1>1, <1>3 DEF Row, Statuses
<1> QED BY <1>2, <1>3, <1>4

LEMMA AppendStep ==
  ASSUME OutboxInv, NEW m \in Messages, AppendWithOutbox(m)
  PROVE  OutboxInv'
<1>1. PICK c : c = NoRow
  OBVIOUS
<1>2. PICK r : r = [c EXCEPT !.status = "pending", !.available = clock]
  OBVIOUS
<1>3. /\ row[m].status = "absent" /\ row' = [row EXCEPT ![m] = r]
      /\ UNCHANGED <<clock, ambiguity, task>>
  BY <1>1, <1>2 DEF AppendWithOutbox
<1>4. clock \in Times /\ row \in [Messages -> Row] /\ clock' >= clock
  BY <1>3, TaskFacts DEF Times
<1>5. c \in Row /\ c.token = None
  BY <1>1, TimesAssumption DEF NoRow, Row, Statuses, Times
<1>6. r \in Row /\ r.status = "pending" /\ r.token = None
  BY <1>2, <1>4, <1>5 DEF Row, Statuses
<1>7. /\ row' \in [Messages -> Row] /\ row'[m].status = "pending" /\ row'[m].token = None
      /\ \A k \in Messages : k # m => row'[k] = row[k]
  BY <1>3, <1>4, <1>6
<1>8. Leaves(m)
  BY <1>3, <1>7 DEF Leaves, Earned
<1>9. TasksProgress
  BY <1>3, TaskFacts, ProgressNone DEF TasksProgress
<1>10. /\ ambiguity' \subseteq Ambiguity
       /\ \A a \in ambiguity' : a.token \in Tokens /\ task'[a.token].phase = "done"
  BY <1>3, TaskFacts DEF OutboxInv, MarkedIsOver
<1>11. AmbiguityResolvable'
  <2>1. \A a \in ambiguity : a.message \in Messages
    BY TaskFacts DEF Ambiguity
  <2> QED BY <1>3, <1>7, <2>1 DEF OutboxInv, AmbiguityResolvable, Resolvable
<1> QED BY <1>3, <1>4, <1>7, <1>8, <1>9, <1>10, <1>11, Kept

(* The guarded updates: a message whose lease is live and unmarked is      *)
(* settled by the attempt that holds it, or nothing is written.            *)
LEMMA LeaseEnds ==
  ASSUME OutboxInv, NEW t \in Tokens, NEW b, SetTask(t, b), Progress(task[t], b),
         NEW s \in {"pending", "published", "dead_letter"}, NEW x \in Times,
         LiveLease(task[t].message, t), ~Active(b),
         row' = Settled(task[t].message, s, x), UNCHANGED <<clock, ambiguity>>,
         s = "published" => Confirmed(task[t]),
         s = "dead_letter" => task[t].count >= MaxAttempts
  PROVE  OutboxInv'
<1>1. /\ TasksProgress /\ task'[t] = b
  BY OneTask
<1>0. PICK m \in Messages : m = task[t].message
  BY TaskFacts DEF Task
<1>2. clock \in Times /\ clock' \in Times /\ clock' >= clock
  BY TaskFacts DEF Times
<1>3. /\ row' \in [Messages -> Row]
      /\ row'[m].status = s /\ row'[m].attempts = row[m].attempts
      /\ row'[m].token = None
      /\ \A k \in Messages : k # m => row'[k] = row[k]
  BY <1>0, SettledRow
<1>4. row[m].status = "in_flight" /\ row[m].token = t /\ ~Open(m)
  BY <1>0 DEF LiveLease
<1>5. row[m].attempts = task[t].count
  BY <1>4 DEF OutboxInv, RowOK
<1>6. Earned(m)'
  <2>1. b.message = m /\ (Confirmed(task[t]) => Confirmed(b)) /\ Tokens' = Tokens
    BY <1>0, <1>1 DEF Progress, TasksProgress, Tokens
  <2>2. s = "published" => task'[t].message = m /\ Confirmed(task[t])'
    BY <1>1, <2>1 DEF Confirmed
  <2>3. s = "dead_letter" => row'[m].attempts >= MaxAttempts
    BY <1>3, <1>5
  <2> QED BY <1>3, <2>1, <2>2, <2>3 DEF Earned
<1>7. Leaves(m)
  BY <1>1, <1>3, <1>4, <1>6 DEF Leaves
<1>8. AmbiguityResolvable'
  <2>1. \A a \in ambiguity : a.message \in Messages
    BY TaskFacts DEF Ambiguity
  <2>2. \A a \in ambiguity : a.resolution = None => a.message # m
    BY <1>4 DEF Open
  <2> QED BY <1>3, <2>1, <2>2 DEF OutboxInv, AmbiguityResolvable, Resolvable
<1>9. /\ ambiguity' \subseteq Ambiguity
      /\ \A a \in ambiguity' : a.token \in Tokens /\ task'[a.token].phase = "done"
  BY <1>1, TaskFacts DEF OutboxInv, MarkedIsOver, TasksProgress, Progress
<1> QED BY <1>1, <1>2, <1>3, <1>7, <1>8, <1>9, Kept

LEMMA AcknowledgeStep ==
  ASSUME OutboxInv, NEW t \in Tokens, NEW e \in Endings, Acknowledge(t, e)
  PROVE  OutboxInv'
<1> DEFINE a == task[t]
<1>1. a \in Task /\ TaskOK(a) /\ a.message \in Messages
  BY TaskFacts DEF Task
<1>2. a.phase = "acking" /\ UNCHANGED <<clock, ambiguity>>
  BY DEF Acknowledge
<1>3. PICK b : SetTask(t, b) /\ Progress(a, b) /\ ~Active(b)
  <2>1. CASE SetTask(t, [a EXCEPT !.phase = "done"])
    <3>1. PICK b : b = [a EXCEPT !.phase = "done"]
      OBVIOUS
    <3>2. Goes(a, b, "done")
      BY <1>1, <3>1, GoesPlain DEF Phases
    <3>3. Progress(a, b) /\ ~Active(b)
      BY <1>1, <1>2, <3>2, Moves DEF Goes, Active
    <3> QED BY <2>1, <3>1, <3>3
  <2>2. ASSUME NEW r \in {"caller_cancelled", "ack_failed"},
               SetTask(t, [a EXCEPT !.phase = "quarantining", !.reason = r])
        PROVE  \E b : SetTask(t, b) /\ Progress(a, b) /\ ~Active(b)
    <3>1. PICK b : b = [a EXCEPT !.phase = "quarantining", !.reason = r]
      OBVIOUS
    <3>2. r \in Reasons
      BY DEF Reasons
    <3>3. Goes(a, b, "quarantining") /\ b.reason = r
      BY <1>1, <3>1, <3>2 DEF Goes, Task, Phases
    <3>4. b.reason \in {"caller_cancelled", "ack_failed"}
      BY <3>3
    <3>5. Progress(a, b)
      BY <1>1, <1>2, <3>3, <3>4, Moves
    <3>6. ~Active(b)
      BY <3>3 DEF Goes, Active
    <3> QED BY <2>2, <3>1, <3>5, <3>6
  <2>3. \/ SetTask(t, [a EXCEPT !.phase = "done"])
        \/ \E r \in {"caller_cancelled", "ack_failed"} :
             SetTask(t, [a EXCEPT !.phase = "quarantining", !.reason = r])
    BY DEF Acknowledge
  <2>4. \E b : SetTask(t, b) /\ Progress(a, b) /\ ~Active(b)
    BY <2>1, <2>2, <2>3
  <2> QED BY <2>4
<1>4. CASE row' = row
  BY <1>2, <1>3, <1>4, OneTask, TasksOnly
<1>5. CASE /\ LiveLease(a.message, t)
           /\ row' = Settled(a.message, "published", row[a.message].available)
  <2>1. row[a.message].available \in Times
    BY <1>1, TaskFacts DEF Row
  <2>2. Confirmed(a)
    BY <1>1, <1>2, NoneAssumption DEF TaskOK, Confirmed
  <2> QED BY <1>2, <1>3, <1>5, <2>1, <2>2, LeaseEnds
<1> QED BY <1>4, <1>5 DEF Acknowledge

LEMMA RejectStep ==
  ASSUME OutboxInv, NEW t \in Tokens, NEW e \in Endings, NEW d \in RetryDelays,
         RejectFailed(t, d, e)
  PROVE  OutboxInv'
<1> DEFINE a == task[t]
<1>1. a \in Task /\ TaskOK(a) /\ a.message \in Messages /\ clock \in Times
  BY TaskFacts DEF Task
<1>2. PICK b : b = [a EXCEPT !.phase = "done"]
  OBVIOUS
<1>3. /\ a.phase = "rejecting" /\ UNCHANGED <<clock, ambiguity>> /\ SetTask(t, b)
      /\ clock + d <= MaxTime
  BY <1>2 DEF RejectFailed
<1>4. Goes(a, b, "done")
  BY <1>1, <1>2, GoesPlain DEF Phases
<1>5. Progress(a, b) /\ ~Active(b)
  BY <1>1, <1>3, <1>4, Moves DEF Goes, Active
<1>6. clock + d \in Times
  BY <1>1, <1>3, TimesAssumption DEF Times
<1>7. CASE row' = row
  BY <1>3, <1>5, <1>7, OneTask, TasksOnly
<1>8. CASE LiveLease(a.message, t) /\ Exhausted(a)
             /\ row' = Settled(a.message, "dead_letter", clock)
  BY <1>1, <1>3, <1>5, <1>8, LeaseEnds DEF Exhausted
<1>9. CASE LiveLease(a.message, t)
             /\ row' = Settled(a.message, "pending", clock + d)
  BY <1>3, <1>5, <1>6, <1>9, LeaseEnds
<1> QED BY <1>7, <1>8, <1>9 DEF RejectFailed

LEMMA PersistStep ==
  ASSUME OutboxInv, NEW t \in Tokens, NEW e \in Endings, PersistAmbiguity(t, e)
  PROVE  OutboxInv'
<1> DEFINE a == task[t]
           m == task[t].message
<1>1. a \in Task /\ TaskOK(a) /\ m \in Messages
  BY TaskFacts DEF Task
<1>2. PICK b : b = [a EXCEPT !.phase = "done"]
  OBVIOUS
<1>3. a.phase = "quarantining" /\ UNCHANGED <<clock, row>> /\ SetTask(t, b)
  BY <1>2 DEF PersistAmbiguity
<1>4. Goes(a, b, "done")
  BY <1>1, <1>2, GoesPlain DEF Phases
<1>5. Progress(a, b) /\ b.phase = "done"
  BY <1>1, <1>3, <1>4, Moves DEF Goes
<1>6. TasksProgress /\ task'[t].phase = "done"
  BY <1>3, <1>5, OneTask
<1>7. CASE ambiguity' = ambiguity
  BY <1>3, <1>6, <1>7, TasksOnly
<1>8. ASSUME NEW x, x = [message |-> m, token |-> t, reason |-> a.reason,
                         resolution |-> None],
             ambiguity' = ambiguity \cup {x},
             row[m].status = "in_flight", row[m].token = t,
             \A y \in ambiguity : ~(y.message = m /\ y.token = t)
      PROVE  OutboxInv'
  <2>1. a.reason \in Reasons
    BY <1>1, <1>3 DEF TaskOK
  <2>2. /\ x \in Ambiguity /\ x.message = m /\ x.token = t /\ x.resolution = None
    <3>1. t \in Nat
      BY TaskFacts DEF Tokens
    <3> QED BY <1>1, <1>8, <2>1, <3>1 DEF Ambiguity
  <2>3. \A y \in ambiguity' : y.token \in Tokens /\ task'[y.token].phase = "done"
    BY <1>6, <1>8, <2>2 DEF OutboxInv, MarkedIsOver, TasksProgress, Progress
  <2>4. AmbiguityResolvable'
    <3>1. \A y \in ambiguity' : y.resolution = None =>
            row[y.message].status = "in_flight" /\ row[y.message].token = y.token
      BY <1>8, <2>2 DEF OutboxInv, AmbiguityResolvable, Resolvable
    <3>2. \A y, z \in ambiguity' : y.message = z.message /\ y.token = z.token => y = z
      BY <1>8, <2>2 DEF OutboxInv, AmbiguityResolvable
    <3> QED BY <1>3, <3>1, <3>2 DEF AmbiguityResolvable, Resolvable
  <2>5. /\ clock' \in Times /\ clock' >= clock /\ row' \in [Messages -> Row]
        /\ ambiguity' \subseteq Ambiguity
    BY <1>3, <1>8, <2>2, TaskFacts DEF Times
  <2>6. \A y \in ambiguity : y.resolution # None => y \in ambiguity'
    BY <1>8
  <2> QED BY <1>3, <1>6, <2>3, <2>4, <2>5, <2>6, Kept
<1> QED BY <1>7, <1>8 DEF PersistAmbiguity, Marked

LEMMA ResolveStep ==
  ASSUME OutboxInv, NEW a \in ambiguity, NEW r \in Resolutions,
         NEW d \in RetryDelays, Resolve(a, r, d)
  PROVE  OutboxInv'
<1> DEFINE m == a.message
<1>1. /\ a \in Ambiguity /\ m \in Messages /\ clock \in Times
  BY TaskFacts DEF Ambiguity
<1>2. /\ a.resolution = None /\ row[m].status = "in_flight" /\ row[m].token = a.token
      /\ clock + d <= MaxTime /\ UNCHANGED <<clock, task>>
  BY DEF Resolve, Resolvable
<1>3. clock + d \in Times /\ row[m].available \in Times
  BY <1>1, <1>2, TimesAssumption, TaskFacts DEF Times, Row
<1>4. PICK s \in {"pending", "published", "dead_letter"}, x \in Times :
        /\ row' = Settled(m, s, x)
        /\ s = "published" => r = "published"
        /\ s = "dead_letter" => r = "dead_letter"
  <2>1. CASE r = "published"
    <3>1. row' = Settled(m, "published", row[m].available)
      BY <2>1 DEF Resolve
    <3> QED BY <1>3, <2>1, <3>1
  <2>2. CASE r = "retry"
    <3>1. row' = Settled(m, "pending", clock + d)
      BY <2>2 DEF Resolve
    <3> QED BY <1>3, <2>2, <3>1
  <2>3. CASE r = "dead_letter"
    <3>1. row' = Settled(m, "dead_letter", clock + d)
      BY <2>3 DEF Resolve
    <3> QED BY <1>3, <2>3, <3>1
  <2> QED BY <2>1, <2>2, <2>3 DEF Resolutions
<1>5. /\ row' \in [Messages -> Row] /\ row'[m].status = s /\ row'[m].token = None
      /\ \A k \in Messages : k # m => row'[k] = row[k]
  BY <1>1, <1>4, SettledRow
<1>6. PICK b : b = [a EXCEPT !.resolution = r]
  OBVIOUS
<1>7. /\ b \in Ambiguity /\ b.message = m /\ b.token = a.token /\ b.resolution = r
  BY <1>1, <1>6 DEF Ambiguity
<1>8. ambiguity' = (ambiguity \ {a}) \cup {b}
  BY <1>6 DEF Resolve
<1>9. r # None
  BY NoneAssumption DEF Resolutions
<1>10. TasksProgress
  BY <1>2, TaskFacts, ProgressNone DEF TasksProgress
<1>11. \A y \in ambiguity : y.token \in Tokens /\ task[y.token].phase = "done"
  BY DEF OutboxInv, MarkedIsOver
<1>12. \A y \in ambiguity' : y.token \in Tokens /\ task'[y.token].phase = "done"
  BY <1>2, <1>7, <1>8, <1>11
<1>13. Leaves(m)
  <2>1. ~Active(task'[row[m].token])
    BY <1>2, <1>11 DEF Active
  <2>2. Earned(m)'
    BY <1>4, <1>5, <1>7, <1>8 DEF Earned
  <2> QED BY <1>5, <2>1, <2>2 DEF Leaves
<1>14. AmbiguityResolvable'
  <2>1. \A y \in ambiguity : y.message \in Messages
    BY TaskFacts DEF Ambiguity
  <2>2. \A y \in ambiguity : y.resolution = None /\ y.message = m => y = a
    BY <1>2 DEF OutboxInv, AmbiguityResolvable, Resolvable
  <2>3. \A y \in ambiguity' : y.resolution = None =>
          y \in ambiguity /\ y.message # m
    BY <1>7, <1>8, <1>9, <2>2
  <2>4. \A y, z \in ambiguity' : y.message = z.message /\ y.token = z.token => y = z
    BY <1>7, <1>8 DEF OutboxInv, AmbiguityResolvable
  <2> QED BY <1>5, <2>1, <2>3, <2>4 DEF OutboxInv, AmbiguityResolvable, Resolvable
<1>15. /\ clock' \in Times /\ clock' >= clock /\ ambiguity' \subseteq Ambiguity
  BY <1>1, <1>2, <1>7, <1>8, TaskFacts DEF Times
<1>16. \A y \in ambiguity : y.resolution # None => y \in ambiguity'
  BY <1>2, <1>8
<1> QED BY <1>5, <1>10, <1>12, <1>13, <1>14, <1>15, <1>16, Kept

-----------------------------------------------------------------------------
(* A claim: the tasks and the rows of its batch.                           *)

FreshTask(b, p, m, f) ==
  /\ b \in Task /\ b.publisher = p /\ b.message = m
  /\ b.deadline = clock + LeaseTime /\ b.count = row[m].attempts + 1
  /\ b.phase = f /\ b.thread = "none" /\ b.result = None /\ b.reason = None

LEMMA FreshTaskOf ==
  ASSUME OutboxInv, NEW p \in Publishers, NEW m \in Messages,
         NEW f \in {"claimed", "dropped"}, clock + LeaseTime <= MaxTime
  PROVE  FreshTask(NewTask(p, m, f), p, m, f)
<1>1. PICK b : b = NewTask(p, m, f)
  OBVIOUS
<1>2. clock \in Times /\ row[m].attempts \in Nat
  BY TaskFacts DEF Row
<1>3. clock + LeaseTime \in Times /\ row[m].attempts + 1 \in Nat
  BY <1>2, TimesAssumption DEF Times
<1>4. FreshTask(b, p, m, f)
  BY <1>1, <1>2, <1>3 DEF NewTask, FreshTask, Task, Phases
<1> QED BY <1>1, <1>4

(* The batch B is claimed: each of its messages is due, its row carries    *)
(* the token of its own fresh attempt, and nothing else changes.           *)
Batch(p, B, f) ==
  /\ B \in SUBSET Messages /\ \A m \in B : Due(m)
  /\ task' \in Seq(Task) /\ Len(task') = Len(task) + Cardinality(B)
  /\ \A t \in Tokens : task'[t] = task[t]
  /\ \A m \in B :
       /\ Len(task) + Rank(m, B) \in 1 .. Len(task')
       /\ FreshTask(task'[Len(task) + Rank(m, B)], p, m, f)
       /\ row'[m].status = "in_flight"
       /\ row'[m].token = Len(task) + Rank(m, B)
       /\ row'[m].expires = clock + LeaseTime
       /\ row'[m].attempts = row[m].attempts + 1
  /\ \A t \in 1 .. Len(task') :
       t \in Tokens \/ (\E m \in B : t = Len(task) + Rank(m, B))
  /\ row' \in [Messages -> Row]
  /\ \A m \in Messages : m \notin B => row'[m] = row[m]
  /\ UNCHANGED <<clock, ambiguity>>

LEMMA ClaimIsBatch ==
  ASSUME OutboxInv, NEW p \in Publishers, NEW B \in SUBSET Messages,
         NEW returned \in BOOLEAN, Claim(p, B, returned)
  PROVE  \E f \in {"claimed", "dropped"} : Batch(p, B, f)
<1> DEFINE n == Cardinality(B)
           l == Len(task)
<1>0. PICK f \in {"claimed", "dropped"} : f = IF returned THEN "claimed" ELSE "dropped"
  OBVIOUS
<1>1. /\ n \in Nat
      /\ \A m \in B : Rank(m, B) \in 1 .. n /\ MessageAt(B, Rank(m, B)) = m
      /\ \A i \in 1 .. n : MessageAt(B, i) \in B /\ Rank(MessageAt(B, i), B) = i
  BY RankNumbers
<1>2. /\ l \in Nat /\ task \in Seq(Task) /\ row \in [Messages -> Row] /\ clock \in Times
  BY TaskFacts
<1>3. /\ clock + LeaseTime <= MaxTime /\ UNCHANGED <<clock, ambiguity>>
      /\ \A m \in B : Due(m)
  BY DEF Claim, FirstDue
<1>4. PICK q : q = [i \in 1 .. n |-> NewTask(p, MessageAt(B, i), f)]
  OBVIOUS
<1>5. \A i \in 1 .. n : FreshTask(NewTask(p, MessageAt(B, i), f), p, MessageAt(B, i), f)
  BY <1>1, <1>3, FreshTaskOf
<1>6. /\ q \in Seq(Task) /\ Len(q) = n
      /\ \A i \in 1 .. n : FreshTask(q[i], p, MessageAt(B, i), f)
  <2>1. \A i \in 1 .. n : q[i] = NewTask(p, MessageAt(B, i), f)
    BY <1>4
  <2>2. \A i \in 1 .. n : FreshTask(q[i], p, MessageAt(B, i), f)
    BY <1>5, <2>1
  <2>3. \A i \in 1 .. n : q[i] \in Task
    BY <2>2 DEF FreshTask
  <2>4. q = [i \in 1 .. n |-> q[i]]
    BY <1>4
  <2> HIDE DEF n
  <2>5. q \in Seq(Task) /\ Len(q) = n
    BY <1>1, <2>3, <2>4
  <2> QED BY <2>2, <2>5
<1>7. task' = task \o q
  BY <1>0, <1>4 DEF Claim
<1> HIDE DEF n
<1>8. /\ task' \in Seq(Task) /\ Len(task') = l + n
      /\ \A t \in 1 .. l : task'[t] = task[t]
      /\ \A i \in 1 .. n : task'[l + i] = q[i]
  <2>1. /\ task' \in Seq(Task) /\ Len(task') = l + n
        /\ \A t \in 1 .. l + n : task'[t] = IF t <= l THEN task[t] ELSE q[t - l]
    BY <1>2, <1>6, <1>7, ConcatProperties
  <2>2. \A t \in 1 .. l : t \in 1 .. l + n /\ t <= l
    BY <1>1, <1>2
  <2>3. \A i \in 1 .. n : l + i \in 1 .. l + n /\ ~(l + i <= l) /\ (l + i) - l = i
    BY <1>1, <1>2
  <2> HIDE DEF l
  <2> QED BY <2>1, <2>2, <2>3
<1>9. \A m \in B : /\ l + Rank(m, B) \in 1 .. l + n
                   /\ FreshTask(task'[l + Rank(m, B)], p, m, f)
  <2> SUFFICES ASSUME NEW m \in B
               PROVE  /\ l + Rank(m, B) \in 1 .. l + n
                      /\ FreshTask(task'[l + Rank(m, B)], p, m, f)
    OBVIOUS
  <2>1. PICK i \in 1 .. n : i = Rank(m, B) /\ MessageAt(B, i) = m
    BY <1>1
  <2>2. l + i \in 1 .. l + n
    BY <1>1, <1>2
  <2> QED BY <1>6, <1>8, <2>1, <2>2
<1>10. \A t \in 1 .. l + n : t \in 1 .. l \/ (\E m \in B : t = l + Rank(m, B))
  <2> SUFFICES ASSUME NEW t \in 1 .. l + n, t \notin 1 .. l
               PROVE  \E m \in B : t = l + Rank(m, B)
    OBVIOUS
  <2>1. PICK i \in 1 .. n : t = l + i
    <3>1. t - l \in 1 .. n /\ t = l + (t - l)
      BY <1>1, <1>2
    <3> QED BY <3>1
  <2> QED BY <1>1, <2>1
<1>11. row' = [m \in Messages |->
         IF m \in B
         THEN [row[m] EXCEPT !.status = "in_flight", !.attempts = @ + 1,
                             !.token = l + Rank(m, B),
                             !.expires = clock + LeaseTime]
         ELSE row[m]]
  BY DEF Claim
<1>12. \A m \in B :
         /\ row'[m] \in Row /\ row'[m].status = "in_flight"
         /\ row'[m].token = l + Rank(m, B)
         /\ row'[m].expires = clock + LeaseTime
         /\ row'[m].attempts = row[m].attempts + 1
  <2> SUFFICES ASSUME NEW m \in B
               PROVE  /\ row'[m] \in Row /\ row'[m].status = "in_flight"
                      /\ row'[m].token = l + Rank(m, B)
                      /\ row'[m].expires = clock + LeaseTime
                      /\ row'[m].attempts = row[m].attempts + 1
    OBVIOUS
  <2>1. row[m] \in Row /\ row[m].attempts \in Nat
    BY <1>2 DEF Row
  <2>2. PICK k \in Nat : k = l + Rank(m, B)
    BY <1>1, <1>2
  <2>3. PICK y \in Nat : y = row[m].attempts + 1
    BY <2>1
  <2>4. PICK z \in Times : z = clock + LeaseTime
    BY <1>2, <1>3, TimesAssumption DEF Times
  <2>5. PICK r : r = [row[m] EXCEPT !.status = "in_flight", !.attempts = y,
                                    !.token = k, !.expires = z]
    OBVIOUS
  <2>6. row'[m] = r
    BY <1>11, <2>2, <2>3, <2>4, <2>5
  <2>7. /\ r \in Row /\ r.status = "in_flight" /\ r.token = k /\ r.expires = z
        /\ r.attempts = y
    BY <2>1, <2>5 DEF Row, Statuses
  <2> QED BY <2>2, <2>3, <2>4, <2>6, <2>7
<1>13. \A m \in Messages : m \notin B => row'[m] = row[m]
  BY <1>11
<1>14. row' \in [Messages -> Row]
  <2>1. \A m \in Messages : row'[m] \in Row
    BY <1>2, <1>12, <1>13
  <2>2. row' = [m \in Messages |-> row'[m]]
    BY <1>11
  <2> QED BY <2>1, <2>2
<1>15. Batch(p, B, f)
  BY <1>3, <1>8, <1>9, <1>10, <1>12, <1>13, <1>14 DEF Batch, Tokens, n
<1> QED BY <1>15

(* Idle, p has no attempt that could still start a thread; the batch is no *)
(* larger than the threads that are free.                                  *)
LEMMA ClaimLoad ==
  ASSUME OutboxInv, NEW p \in Publishers, NEW B \in SUBSET Messages,
         NEW returned \in BOOLEAN, Claim(p, B, returned),
         NEW f, Batch(p, B, f), NEW q \in Publishers
  PROVE  Cardinality(LoadOf(q)') <= MaxCallbacks
<1> DEFINE n == Cardinality(B)
           l == Len(task)
           C == LoadOf(q)
           N == l + 1 .. l + n
<1>1. n \in Nat /\ l \in Nat /\ IsFiniteSet(Messages)
  BY RankNumbers, TaskFacts, MessagesAssumption
<1>2. /\ Tokens = 1 .. l /\ Tokens' = 1 .. l + n
      /\ \A t \in 1 .. l : task'[t] = task[t]
  BY DEF Batch, Tokens
<1>3. \A t \in 1 .. l + n : t \in 1 .. l \/ t \in N
  BY <1>1
<1>4. C \in SUBSET (1 .. l) /\ IsFiniteSet(1 .. l)
  BY <1>1, <1>2, SizeOfInterval DEF LoadOf
<1>5. IsFiniteSet(C) /\ Cardinality(C) \in Nat
  BY <1>4, FS_Subset, FS_CardinalityType
<1>6. Cardinality(C) <= MaxCallbacks
  BY DEF OutboxInv
<1>7. CASE q # p
  <2>1. \A t \in N : task'[t].publisher = p
    <3> SUFFICES ASSUME NEW t \in N PROVE task'[t].publisher = p
      OBVIOUS
    <3>1. t \in 1 .. Len(task') /\ t \notin Tokens
      BY <1>1, <1>2 DEF Batch
    <3> QED BY <3>1 DEF Batch, FreshTask
  <2>2. \A t \in LoadOf(q)' :
          t \in 1 .. l + n /\ task'[t].publisher = q /\ Loaded(task'[t])
    BY <1>2 DEF LoadOf, Loaded
  <2> HIDE DEF N
  <2>3. LoadOf(q)' \in SUBSET C
    BY <1>2, <1>3, <1>7, <2>1, <2>2 DEF LoadOf
  <2> HIDE DEF C
  <2>4. Cardinality(LoadOf(q)') <= Cardinality(C) /\ IsFiniteSet(LoadOf(q)')
    BY <1>5, <2>3, FS_Subset
  <2>5. Cardinality(LoadOf(q)') \in Nat
    BY <2>4, FS_CardinalityType
  <2> QED BY <1>5, <1>6, <2>4, <2>5, LimitsAssumption
<1>8. CASE q = p
  <2>1. \A t \in Tokens : task[t].publisher = p => task[t].phase # "claimed"
    BY DEF Claim, Idle
  <2>2. C = CallbackTasks(p)
    BY <1>8, <2>1 DEF LoadOf, Loaded, CallbackTasks
  <2>3. n <= MaxCallbacks - Cardinality(C)
    <3> DEFINE due == {m \in Messages : Due(m)}
               free == MaxCallbacks - Cardinality(C)
               k == IF BatchSize <= free THEN BatchSize ELSE free
    <3>1. IsFiniteSet(due) /\ Cardinality(due) \in Nat
      <4>1. due \in SUBSET Messages
        OBVIOUS
      <4> HIDE DEF due
      <4> QED BY <1>1, <4>1, FS_Subset, FS_CardinalityType
    <3>2. FirstDue(B, k)
      BY <2>2 DEF Claim
    <3>3. n = IF Cardinality(due) <= k THEN Cardinality(due) ELSE k
      BY <3>2 DEF FirstDue
    <3>4. free \in Int /\ k \in Int /\ k <= free
      BY <1>5, LimitsAssumption
    <3> HIDE DEF due, k, n, free
    <3>5. n <= free
      BY <1>1, <3>1, <3>3, <3>4
    <3> QED BY <3>5 DEF free
  <2>4. LoadOf(q)' \in SUBSET (C \cup N)
    <3>1. \A t \in LoadOf(q)' :
            t \in 1 .. l + n /\ task'[t].publisher = q /\ Loaded(task'[t])
      BY <1>2 DEF LoadOf, Loaded
    <3> HIDE DEF N
    <3> QED BY <1>2, <1>3, <3>1 DEF LoadOf
  <2>5. IsFiniteSet(N) /\ Cardinality(N) = n
    <3>1. PICK x \in Int, y \in Int : x = l + 1 /\ y = l + n
      BY <1>1
    <3>2. IsFiniteSet(x .. y) /\ Cardinality(x .. y) = IF x > y THEN 0 ELSE y - x + 1
      BY FS_Interval
    <3>3. (IF x > y THEN 0 ELSE y - x + 1) = n
      <4> HIDE DEF n
      <4> QED BY <1>1, <3>1
    <3> QED BY <3>1, <3>2, <3>3
  <2> HIDE DEF C, N, n
  <2>6. /\ IsFiniteSet(C \cup N)
        /\ Cardinality(C \cup N)
             = Cardinality(C) + Cardinality(N) - Cardinality(C \cap N)
    BY <1>5, <2>5, FS_Union
  <2>7. IsFiniteSet(C \cap N) /\ Cardinality(C \cap N) \in Nat
    <3>1. (C \cap N) \in SUBSET C
      OBVIOUS
    <3>2. IsFiniteSet(C \cap N)
      BY <1>5, <3>1, FS_Subset
    <3> QED BY <3>2, FS_CardinalityType
  <2>8. Cardinality(C \cup N) \in Int /\ Cardinality(C \cup N) <= MaxCallbacks
    BY <1>1, <1>5, <2>3, <2>5, <2>6, <2>7, LimitsAssumption
  <2>9. Cardinality(LoadOf(q)') <= Cardinality(C \cup N) /\ IsFiniteSet(LoadOf(q)')
    BY <2>4, <2>6, FS_Subset
  <2>10. Cardinality(LoadOf(q)') \in Nat
    BY <2>9, FS_CardinalityType
  <2> QED BY <2>8, <2>9, <2>10, LimitsAssumption
<1> QED BY <1>7, <1>8

LEMMA ClaimStep ==
  ASSUME OutboxInv, NEW p \in Publishers, NEW B \in SUBSET Messages,
         NEW returned \in BOOLEAN, Claim(p, B, returned)
  PROVE  OutboxInv'
<1>0. PICK f \in {"claimed", "dropped"} : Batch(p, B, f)
  BY ClaimIsBatch
<1> USE <1>0
<1>1. /\ Len(task) \in Nat /\ Cardinality(B) \in Nat /\ Tokens \subseteq Tokens'
      /\ \A t \in Tokens : task'[t] = task[t]
      /\ Tokens' = 1 .. Len(task')
  <2>1. Len(task) \in Nat /\ Cardinality(B) \in Nat
    BY TaskFacts, RankNumbers
  <2>2. Len(task') = Len(task) + Cardinality(B) /\ \A t \in Tokens : task'[t] = task[t]
    BY DEF Batch
  <2>3. Tokens' = 1 .. Len(task')
    BY DEF Tokens
  <2>4. 1 .. Len(task) \subseteq 1 .. Len(task) + Cardinality(B)
    BY <2>1
  <2> QED BY <2>1, <2>2, <2>3, <2>4 DEF Tokens
<1>2. TypeOK'
  BY TaskFacts DEF TypeOK, Batch
<1>3. \A t \in Tokens : task[t].message \in Messages /\ task[t].deadline \in Nat
  BY TaskFacts DEF Task, Times
<1>4. clock \in Nat
  BY TaskFacts DEF Times
<1>5. \A t \in Tokens' : t \in Tokens \/ \E m \in B : t = Len(task) + Rank(m, B)
  BY <1>1 DEF Batch
<1>6. \A m \in B : /\ FreshTask(task'[Len(task) + Rank(m, B)], p, m, f)
                   /\ Len(task) + Rank(m, B) \in Tokens'
                   /\ row'[m].status = "in_flight"
                   /\ row'[m].token = Len(task) + Rank(m, B)
                   /\ row'[m].expires = clock + LeaseTime
                   /\ row'[m].attempts = row[m].attempts + 1
  BY <1>1 DEF Batch
<1>7. \A m \in Messages : m \notin B => row'[m] = row[m]
  BY DEF Batch
<1>8. \A m \in B : Due(m) /\ ~Open(m)
  BY DEF Batch, Due
<1>9. \A t \in Tokens' : (TaskOK(task[t]))'
  <2>1. \A m \in B : TaskOK(task'[Len(task) + Rank(m, B)])
    BY <1>6, NoneAssumption DEF FreshTask, TaskOK
  <2>2. \A t \in Tokens' : TaskOK(task'[t])
    BY <1>1, <1>5, <2>1, TaskFacts
  <2> QED BY <2>2 DEF TaskOK
<1>10. \A t \in Tokens' : Holding(t)'
  <2> SUFFICES ASSUME NEW t \in Tokens', Active(task'[t]), clock < task'[t].deadline
               PROVE  /\ row'[task'[t].message].status = "in_flight"
                      /\ row'[task'[t].message].token = t
    BY DEF Holding, Active, Batch
  <2>1. CASE t \in Tokens
    <3>1. task'[t] = task[t]
      BY <1>1, <2>1
    <3>2. /\ row[task[t].message].status = "in_flight"
          /\ row[task[t].message].token = t
      BY <2>1, <3>1 DEF OutboxInv, Holding
    <3>3. row[task[t].message].expires = task[t].deadline
      BY <1>3, <2>1, <3>2 DEF OutboxInv, RowOK
    <3>4. task[t].message \notin B
      <4>1. ~(task[t].deadline <= clock)
        BY <1>3, <1>4, <2>1, <3>1
      <4>2. ~Due(task[t].message)
        BY <3>2, <3>3, <4>1 DEF Due
      <4> QED BY <1>8, <4>2
    <3> QED BY <1>3, <1>7, <2>1, <3>1, <3>2, <3>4
  <2>2. CASE \E m \in B : t = Len(task) + Rank(m, B)
    BY <1>6, <2>2 DEF FreshTask
  <2> QED BY <1>5, <2>1, <2>2
<1>11. \A m \in Messages : RowOK(m)'
  <2> SUFFICES ASSUME NEW m \in Messages, row'[m].status = "in_flight"
               PROVE  /\ row'[m].token \in Tokens'
                      /\ task'[row'[m].token].message = m
                      /\ row'[m].expires = task'[row'[m].token].deadline
                      /\ row'[m].attempts = task'[row'[m].token].count
    BY DEF RowOK
  <2>1. CASE m \in B
    BY <1>6, <2>1 DEF FreshTask
  <2>2. CASE m \notin B
    <3>1. row'[m] = row[m]
      BY <1>7, <2>2
    <3>2. /\ row[m].token \in Tokens
          /\ task[row[m].token].message = m
          /\ row[m].expires = task[row[m].token].deadline
          /\ row[m].attempts = task[row[m].token].count
      BY <3>1 DEF OutboxInv, RowOK
    <3> QED BY <1>1, <3>1, <3>2
  <2> QED BY <2>1, <2>2
<1>12. UNCHANGED ambiguity
  BY DEF Batch
<1>13. MarkedIsOver'
  BY <1>1, <1>12 DEF OutboxInv, MarkedIsOver
<1>14. AmbiguityResolvable'
  <2>1. \A a \in ambiguity : a.message \in Messages
    BY TaskFacts DEF Ambiguity
  <2>2. \A a \in ambiguity : a.resolution = None => a.message \notin B
    BY <1>8 DEF Open
  <2> QED BY <1>7, <1>12, <2>1, <2>2 DEF OutboxInv, AmbiguityResolvable, Resolvable
<1>15. \A m \in Messages : Earned(m)'
  <2> SUFFICES ASSUME NEW m \in Messages PROVE Earned(m)'
    OBVIOUS
  <2>1. CASE m \in B
    BY <1>6, <2>1 DEF Earned
  <2>2. CASE m \notin B
    <3>1. Earned(m) /\ row'[m] = row[m]
      BY <1>7, <2>2 DEF OutboxInv, TerminalEarned, Earned
    <3>2. \A t \in Tokens : Confirmed(task[t])' <=> Confirmed(task[t])
      BY <1>1 DEF Confirmed
    <3> QED BY <1>1, <1>12, <3>1, <3>2 DEF Earned
  <2> QED BY <2>1, <2>2
<1>16. TerminalEarned'
  BY <1>15 DEF TerminalEarned, Earned
<1>17. \A q \in Publishers : Cardinality(LoadOf(q)') <= MaxCallbacks
  BY ClaimLoad
<1>18. \A m \in Messages : Unheld(m)'
  BY <1>6, <1>7 DEF OutboxInv, Unheld
<1> QED BY <1>2, <1>9, <1>10, <1>11, <1>13, <1>14, <1>16, <1>17, <1>18 DEF OutboxInv

-----------------------------------------------------------------------------
(* The specification.                                                      *)

LEMMA StartOK == Init => OutboxInv
<1> SUFFICES ASSUME Init PROVE OutboxInv
  OBVIOUS
<1>1. task \in Seq(Task) /\ Len(task) = 0
  BY EmptySeq DEF Init
<1>2. Tokens = {}
  BY <1>1 DEF Tokens
<1>3. PICK c : c = NoRow
  OBVIOUS
<1>4. c \in Row /\ c.status = "absent" /\ c.token = None
  BY <1>3, TimesAssumption DEF NoRow, Row, Statuses, Times
<1>5. /\ row \in [Messages -> Row]
      /\ \A m \in Messages : row[m].status = "absent" /\ row[m].token = None
  BY <1>3, <1>4 DEF Init
<1>6. TypeOK
  BY <1>1, <1>5, TimesAssumption DEF TypeOK, Init, Times
<1>7. \A m \in Messages : RowOK(m) /\ Unheld(m)
  BY <1>5 DEF RowOK, Unheld
<1>8. MarkedIsOver /\ AmbiguityResolvable /\ TerminalEarned
  BY <1>5 DEF Init, MarkedIsOver, AmbiguityResolvable, TerminalEarned
<1>9. \A p \in Publishers : Cardinality(LoadOf(p)) <= MaxCallbacks
  BY <1>2, FS_EmptySet, LimitsAssumption DEF LoadOf
<1> QED BY <1>2, <1>6, <1>7, <1>8, <1>9 DEF OutboxInv

LEMMA StepOK == OutboxInv /\ [Next]_vars => OutboxInv'
<1> SUFFICES ASSUME OutboxInv, [Next]_vars PROVE OutboxInv'
  OBVIOUS
<1>1. CASE UNCHANGED vars
  <2>1. UNCHANGED <<clock, row, ambiguity, task>>
    BY <1>1 DEF vars
  <2>2. TasksProgress
    BY <2>1, TaskFacts, ProgressNone DEF TasksProgress
  <2> QED BY <2>1, <2>2, TasksOnly
<1>2. ASSUME NEW t \in Tokens, TaskStep(t) PROVE OutboxInv'
  BY <1>2, BeginStep, ReceiveStep, TimeoutStep, AcknowledgeStep, RejectStep,
     PersistStep DEF TaskStep
<1>3. ASSUME NEW p \in Publishers, PublisherStep(p) PROVE OutboxInv'
  BY <1>3, ClaimStep, CancelStep, CrashStep DEF PublisherStep
<1>4. CASE OperatorStep
  BY <1>4, ResolveStep DEF OperatorStep
<1> QED BY <1>1, <1>2, <1>3, <1>4, AppendStep, ConnectorKeeps, TickStep DEF Next

(* The rows, ambiguity records, attempts, leases and connector threads     *)
(* agree with one another in every reachable state (the inductive          *)
(* invariant), for any messages, publishers and limits.                    *)
THEOREM OutboxInvariance == Spec => []OutboxInv
BY StartOK, StepOK, PTL DEF Spec

(* The tables and the attempts keep the shape the schema gives them.       *)
THEOREM OutboxTypeCorrect == Spec => []TypeOK
<1>1. OutboxInv => TypeOK
  BY DEF OutboxInv
<1> QED BY <1>1, OutboxInvariance, PTL

(* Every quarantined message stays resolvable, by exactly one record.      *)
THEOREM QuarantineIsResolvable == Spec => []AmbiguityResolvable
<1>1. OutboxInv => AmbiguityResolvable
  BY DEF OutboxInv
<1> QED BY <1>1, OutboxInvariance, PTL

(* Published means accepted by the connector in time or confirmed by an    *)
(* operator; dead means out of attempts or given up by one.                *)
THEOREM OutcomesAreEarned == Spec => []TerminalEarned
<1>1. OutboxInv => TerminalEarned
  BY DEF OutboxInv
<1> QED BY <1>1, OutboxInvariance, PTL

(* No two publishers work on one message inside their leases, and no       *)
(* publisher runs more connector threads than it may.                      *)
THEOREM AttemptsAreExclusive == Spec => []LiveAttemptExclusive
<1>1. OutboxInv => LiveAttemptExclusive
  <2> SUFFICES ASSUME OutboxInv PROVE LiveAttemptExclusive
    OBVIOUS
  <2>1. \A s, t \in Tokens :
          /\ task[s].message = task[t].message
          /\ Working(s) /\ Working(t)
          /\ clock < task[s].deadline /\ clock < task[t].deadline
          => s = t
    BY DEF OutboxInv, Holding, Working, Active
  <2>2. ASSUME NEW p \in Publishers
        PROVE  Cardinality({t \in Tokens : /\ task[t].publisher = p
                                           /\ task[t].thread = "running"})
                 <= MaxCallbacks
    <3> DEFINE R == {t \in Tokens : task[t].publisher = p /\ task[t].thread = "running"}
    <3>1. Len(task) \in Nat /\ IsFiniteSet(Tokens)
      BY TaskFacts, SizeOfInterval DEF Tokens
    <3>2. LoadOf(p) \in SUBSET Tokens /\ R \in SUBSET LoadOf(p)
      BY DEF LoadOf, Loaded
    <3>3. IsFiniteSet(LoadOf(p))
      BY <3>1, <3>2, FS_Subset
    <3> HIDE DEF R
    <3>4. Cardinality(R) <= Cardinality(LoadOf(p)) /\ IsFiniteSet(R)
      BY <3>2, <3>3, FS_Subset
    <3>5. Cardinality(R) \in Nat /\ Cardinality(LoadOf(p)) \in Nat
      BY <3>3, <3>4, FS_CardinalityType
    <3>6. Cardinality(LoadOf(p)) <= MaxCallbacks
      BY DEF OutboxInv
    <3>7. Cardinality(R) <= MaxCallbacks
      BY <3>4, <3>5, <3>6, LimitsAssumption
    <3> QED BY <3>7 DEF R
  <2> QED BY <2>1, <2>2 DEF LiveAttemptExclusive
<1> QED BY <1>1, OutboxInvariance, PTL

-----------------------------------------------------------------------------
(* The contract: what a step does to the life, the holder and the rulings. *)

Life == [m \in Messages |-> LifeOf(m)]
Holder == [m \in Messages |-> HolderOf(m)]

(* The life of m goes from a to b, or nobody holds m any longer; nothing   *)
(* else changes.                                                           *)
Shift(m, a, b) ==
  /\ LifeOf(m) = a /\ LifeOf(m)' = b
  /\ \A k \in Messages : k # m => LifeOf(k)' = LifeOf(k)

Freed(m) ==
  /\ row'[m].token = None
  /\ \A k \in Messages : k # m => row'[k] = row[k]

LEMMA Shifted ==
  ASSUME NEW m \in Messages, NEW a, NEW b, Shift(m, a, b)
  PROVE  Life[m] = a /\ Life' = [Life EXCEPT ![m] = b]
<1>1. \A k \in Messages : Life'[k] = IF k = m THEN b ELSE Life[k]
  BY DEF Shift, Life
<1>2. Life' = [k \in Messages |-> Life'[k]] /\ Life = [k \in Messages |-> Life[k]]
  BY DEF Life
<1>3. Life' = [k \in Messages |-> IF k = m THEN b ELSE Life[k]]
  BY <1>1, <1>2
<1> QED BY <1>2, <1>3 DEF Shift, Life

LEMMA FreedHolder ==
  ASSUME NEW m \in Messages, Freed(m)
  PROVE  Holder' = [Holder EXCEPT ![m] = None]
<1>1. \A k \in Messages : Holder'[k] = IF k = m THEN None ELSE Holder[k]
  BY DEF Freed, Holder, HolderOf
<1>2. Holder' = [k \in Messages |-> Holder'[k]] /\ Holder = [k \in Messages |-> Holder[k]]
  BY DEF Holder
<1>3. Holder' = [k \in Messages |-> IF k = m THEN None ELSE Holder[k]]
  BY <1>1, <1>2
<1> QED BY <1>2, <1>3

LEMMA SameRulings ==
  ASSUME UNCHANGED ambiguity
  PROVE  UNCHANGED Rulings
BY DEF Rulings

LEMMA SameHolder ==
  ASSUME \A k \in Messages : row'[k].token = row[k].token
  PROVE  UNCHANGED Holder
BY DEF Holder, HolderOf

ContractVars == <<Life, Holder, Rulings>>

LEMMA ContractStays ==
  ASSUME UNCHANGED <<row, ambiguity>>
  PROVE  UNCHANGED ContractVars
<1>1. \A m \in Messages : LifeOf(m)' = LifeOf(m)
  BY DEF LifeOf, Open
<1>2. UNCHANGED Life
  BY <1>1 DEF Life
<1>3. UNCHANGED Holder
  BY SameHolder
<1> QED BY <1>2, <1>3, SameRulings DEF ContractVars

(* A held message's token is one that was drawn.                           *)
LEMMA TokensDrawn ==
  ASSUME OutboxInv
  PROVE  /\ \A m \in Messages : row[m].token \in Tokens \cup {None}
         /\ \A x \in Rulings : x.token \in Tokens
<1>1. \A m \in Messages : row[m].token \in Tokens \cup {None}
  BY DEF OutboxInv, RowOK, Unheld
<1>2. \A x \in Rulings : x.token \in Tokens
  BY DEF Rulings, OutboxInv, MarkedIsOver
<1> QED BY <1>1, <1>2

EndOf(s) ==
  IF s = "pending" THEN "waiting" ELSE IF s = "published" THEN "published" ELSE "dead"

LEMMA SettleLife ==
  ASSUME OutboxInv, NEW m \in Messages,
         NEW s \in {"pending", "published", "dead_letter"}, NEW x \in Times,
         row' = Settled(m, s, x),
         \A k \in Messages : k # m => Open(k)' = Open(k)
  PROVE  Shift(m, LifeOf(m), EndOf(s)) /\ Freed(m)
<1>1. /\ row'[m].status = s /\ row'[m].token = None
      /\ \A k \in Messages : k # m => row'[k] = row[k]
  BY SettledRow
<1>2. LifeOf(m)' = EndOf(s)
  BY <1>1 DEF LifeOf, EndOf
<1>3. \A k \in Messages : k # m => LifeOf(k)' = LifeOf(k)
  BY <1>1 DEF LifeOf
<1> QED BY <1>1, <1>2, <1>3 DEF Shift, Freed

(* A publisher that settles its live lease does what the holder may.       *)
LEMMA LeaseSettles ==
  ASSUME OutboxInv, NEW m \in Messages, NEW t, LiveLease(m, t),
         NEW s \in {"pending", "published", "dead_letter"}, NEW x \in Times,
         row' = Settled(m, s, x), UNCHANGED ambiguity
  PROVE  Contract!Next
<1>1. LifeOf(m) = "leased"
  BY DEF LiveLease, LifeOf
<1>2. \A k \in Messages : Open(k)' = Open(k)
  BY DEF Open
<1>3. Shift(m, "leased", EndOf(s)) /\ Freed(m)
  BY <1>1, <1>2, SettleLife
<1>4. Contract!Settle(m, EndOf(s))
  BY <1>3, Shifted, FreedHolder, SameRulings DEF Contract!Settle, Life, Holder
<1>5. EndOf(s) \in {"waiting", "published", "dead"}
  BY DEF EndOf
<1> QED BY <1>4, <1>5 DEF Contract!Next

LEMMA AppendLife ==
  ASSUME OutboxInv, NEW m \in Messages, AppendWithOutbox(m)
  PROVE  Contract!Next
<1>1. PICK c : c = NoRow
  OBVIOUS
<1>2. PICK r : r = [c EXCEPT !.status = "pending", !.available = clock]
  OBVIOUS
<1>3. r.status = "pending" /\ r.token = None
  BY <1>1, <1>2 DEF NoRow
<1>4. /\ row[m].status = "absent" /\ UNCHANGED ambiguity
      /\ row' = [row EXCEPT ![m] = r]
  BY <1>1, <1>2 DEF AppendWithOutbox
<1>5. /\ row'[m].status = "pending" /\ row'[m].token = None
      /\ \A k \in Messages : k # m => row'[k] = row[k]
  BY <1>3, <1>4, TaskFacts
<1>6. Shift(m, "absent", "waiting")
  BY <1>4, <1>5 DEF Shift, LifeOf, Open
<1>7. row[m].token = None
  BY <1>4 DEF OutboxInv, Unheld
<1>8. UNCHANGED Holder
  BY <1>5, <1>7, SameHolder
<1>9. Contract!Append(m)
  BY <1>4, <1>6, <1>8, Shifted, SameRulings DEF Contract!Append, Life, Holder
<1> QED BY <1>9 DEF Contract!Next

(* Each message of a batch waited or was leased, and carries a fresh token *)
(* of its own.                                                             *)
LEMMA ClaimLife ==
  ASSUME OutboxInv, NEW p \in Publishers, NEW B \in SUBSET Messages,
         NEW returned \in BOOLEAN, Claim(p, B, returned)
  PROVE  Contract!Next
<1>0. PICK f \in {"claimed", "dropped"} : Batch(p, B, f)
  BY ClaimIsBatch
<1>1. /\ \A m \in B : /\ row'[m].status = "in_flight" /\ Due(m)
                      /\ row'[m].token = Len(task) + Rank(m, B)
      /\ \A m \in Messages : m \notin B => row'[m] = row[m]
      /\ UNCHANGED ambiguity
  BY <1>0 DEF Batch
<1>2. /\ Len(task) \in Nat /\ Cardinality(B) \in Nat
      /\ \A m \in B : /\ Rank(m, B) \in 1 .. Cardinality(B)
                      /\ MessageAt(B, Rank(m, B)) = m
      /\ Len(task) + Cardinality(B) <= MaxTokens
  BY TaskFacts, RankNumbers DEF Claim
<1>3. PICK g : g = [m \in B |-> row'[m].token]
  OBVIOUS
<1>4. \A m \in B : /\ g[m] = Len(task) + Rank(m, B)
                   /\ g[m] \in 1 .. MaxTokens /\ g[m] \notin Tokens /\ g[m] # None
  <2> SUFFICES ASSUME NEW m \in B
               PROVE  /\ g[m] = Len(task) + Rank(m, B)
                      /\ g[m] \in 1 .. MaxTokens /\ g[m] \notin Tokens /\ g[m] # None
    OBVIOUS
  <2>1. PICK i \in 1 .. Cardinality(B) : i = Rank(m, B)
    BY <1>2
  <2>2. g[m] = Len(task) + i
    BY <1>1, <1>3, <2>1
  <2>3. Len(task) + i \in 1 .. MaxTokens /\ Len(task) + i \notin 1 .. Len(task)
    BY <1>2, LimitsAssumption
  <2>4. g[m] # None
    BY <2>2, <2>3, NoneAssumption
  <2> QED BY <2>1, <2>2, <2>3, <2>4 DEF Tokens
<1>5. g \in [B -> 1 .. MaxTokens]
  BY <1>3, <1>4
<1>6. \A m \in B : Contract!Fresh(g[m])
  BY <1>4, TokensDrawn DEF Contract!Fresh, HolderOf
<1>7. \A m, n \in B : g[m] = g[n] => m = n
  <2> SUFFICES ASSUME NEW m \in B, NEW n \in B, g[m] = g[n] PROVE m = n
    OBVIOUS
  <2>1. PICK i \in 1 .. Cardinality(B), j \in 1 .. Cardinality(B) :
          i = Rank(m, B) /\ j = Rank(n, B)
    BY <1>2
  <2>2. Len(task) + i = Len(task) + j
    BY <1>4, <2>1
  <2>3. i = j
    BY <1>2, <2>2
  <2> QED BY <1>2, <2>1, <2>3
<1>8. \A m \in B : LifeOf(m) \in {"waiting", "leased"} /\ LifeOf(m)' = "leased"
  BY <1>1 DEF LifeOf, Due, Open
<1>9. \A m \in Messages : m \notin B => LifeOf(m)' = LifeOf(m)
  BY <1>1 DEF LifeOf, Open
<1>10. Life' = [m \in Messages |-> IF m \in B THEN "leased" ELSE Life[m]]
  <2>1. \A m \in Messages : Life'[m] = IF m \in B THEN "leased" ELSE Life[m]
    BY <1>8, <1>9 DEF Life
  <2>2. Life' = [m \in Messages |-> Life'[m]]
    BY DEF Life
  <2> QED BY <2>1, <2>2
<1>11. Holder' = [m \in Messages |-> IF m \in B THEN g[m] ELSE Holder[m]]
  <2>1. \A m \in Messages : Holder'[m] = IF m \in B THEN g[m] ELSE Holder[m]
    BY <1>1, <1>3 DEF Holder, HolderOf
  <2>2. Holder' = [m \in Messages |-> Holder'[m]]
    BY DEF Holder
  <2> QED BY <2>1, <2>2
<1>12. \A m \in B : Life[m] \in {"waiting", "leased"}
  BY <1>8 DEF Life
<1>13. UNCHANGED Rulings
  BY <1>1, SameRulings
<1>14. Contract!Lease(B)
  BY <1>5, <1>6, <1>7, <1>10, <1>11, <1>12, <1>13 DEF Contract!Lease, Life, Holder
<1> QED BY <1>14 DEF Contract!Next

LEMMA MarkLife ==
  ASSUME OutboxInv, NEW t \in Tokens, NEW e \in Endings, PersistAmbiguity(t, e)
  PROVE  Contract!Next \/ UNCHANGED ContractVars
<1>0. PICK m \in Messages : m = task[t].message
  BY TaskFacts DEF Task
<1>1. CASE ambiguity' = ambiguity
  BY <1>1, ContractStays DEF PersistAmbiguity
<1>2. CASE ambiguity' # ambiguity
  <2>1. PICK x : x = [message |-> m, token |-> t, reason |-> task[t].reason,
                      resolution |-> None]
    OBVIOUS
  <2>2. x.message = m /\ x.resolution = None
    BY <2>1
  <2>3. /\ ambiguity' = ambiguity \cup {x} /\ UNCHANGED row
        /\ row[m].status = "in_flight" /\ row[m].token = t
        /\ \A y \in ambiguity : ~(y.message = m /\ y.token = t)
    BY <1>0, <1>2, <2>1 DEF PersistAmbiguity, Marked
  <2>4. ~Open(m)
    BY <2>3 DEF Open, OutboxInv, AmbiguityResolvable, Resolvable
  <2>5. Open(m)' /\ \A k \in Messages : k # m => Open(k)' = Open(k)
    BY <2>2, <2>3 DEF Open
  <2>6. Shift(m, "leased", "quarantined")
    BY <2>3, <2>4, <2>5 DEF Shift, LifeOf
  <2>7. UNCHANGED Holder
    BY <2>3, SameHolder
  <2>8. {y \in ambiguity' : y.resolution # None} = {y \in ambiguity : y.resolution # None}
    BY <2>2, <2>3
  <2>9. UNCHANGED Rulings
    BY <2>8 DEF Rulings
  <2>10. Contract!Quarantine(m)
    BY <2>6, <2>7, <2>9, Shifted DEF Contract!Quarantine, Life, Holder
  <2> QED BY <2>10 DEF Contract!Next
<1> QED BY <1>1, <1>2

LEMMA TaskLife ==
  ASSUME OutboxInv, NEW t \in Tokens, TaskStep(t) \/ ConnectorStep(t)
  PROVE  Contract!Next \/ UNCHANGED ContractVars
<1>0. PICK m \in Messages : m = task[t].message
  BY TaskFacts DEF Task
<1>2. ASSUME NEW e \in Endings, Acknowledge(t, e)
      PROVE  Contract!Next \/ UNCHANGED ContractVars
  <2>1. row[m].available \in Times
    BY TaskFacts DEF Row
  <2>2. UNCHANGED ambiguity
        /\ \/ row' = row
           \/ /\ LiveLease(m, t)
              /\ row' = Settled(m, "published", row[m].available)
    BY <1>0, <1>2 DEF Acknowledge
  <2> QED BY <2>1, <2>2, LeaseSettles, ContractStays
<1>3. ASSUME NEW e \in Endings, NEW d \in RetryDelays, RejectFailed(t, d, e)
      PROVE  Contract!Next \/ UNCHANGED ContractVars
  <2>1. clock \in Times /\ clock + d \in Times
    BY <1>3, TaskFacts, TimesAssumption DEF RejectFailed, Times
  <2>2. UNCHANGED ambiguity
        /\ \/ row' = row
           \/ LiveLease(m, t) /\ row' = Settled(m, "dead_letter", clock)
           \/ LiveLease(m, t) /\ row' = Settled(m, "pending", clock + d)
    BY <1>0, <1>3 DEF RejectFailed
  <2> QED BY <2>1, <2>2, LeaseSettles, ContractStays
<1>4. CASE ConnectorStep(t) \/ Receive(t) \/ Timeout(t)
             \/ \E started \in BOOLEAN : Begin(t, started)
  <2>1. UNCHANGED <<row, ambiguity>>
    BY <1>4 DEF ConnectorStep, TakeEffect, Return, Receive, Timeout, Begin
  <2> QED BY <2>1, ContractStays
<1> QED BY <1>2, <1>3, <1>4, MarkLife DEF TaskStep

(* An operator rules on an attempt nobody has ruled on.                    *)
LEMMA ResolveLife ==
  ASSUME OutboxInv, NEW a \in ambiguity, NEW r \in Resolutions,
         NEW d \in RetryDelays, Resolve(a, r, d)
  PROVE  Contract!Next
<1>0. PICK m \in Messages : m = a.message
  BY TaskFacts DEF Ambiguity
<1>1. /\ a \in Ambiguity /\ clock \in Times
  BY TaskFacts
<1>2. /\ a.resolution = None /\ row[m].status = "in_flight"
      /\ row[m].token = a.token /\ clock + d <= MaxTime
  BY <1>0 DEF Resolve, Resolvable
<1>3. clock + d \in Times /\ row[m].available \in Times
  BY <1>1, <1>2, TimesAssumption, TaskFacts DEF Times, Row
<1>4. PICK s \in {"pending", "published", "dead_letter"}, u \in Times :
        row' = Settled(m, s, u) /\ EndOf(s) = Contract!Outcome(r)
  <2>1. CASE r = "published"
    BY <1>0, <1>3, <2>1 DEF Resolve, EndOf, Contract!Outcome
  <2>2. CASE r = "retry"
    BY <1>0, <1>3, <2>2 DEF Resolve, EndOf, Contract!Outcome
  <2>3. CASE r = "dead_letter"
    BY <1>0, <1>3, <2>3 DEF Resolve, EndOf, Contract!Outcome
  <2> QED BY <2>1, <2>2, <2>3 DEF Resolutions
<1>5. PICK b : b = [a EXCEPT !.resolution = r]
  OBVIOUS
<1>6. /\ b.message = m /\ b.token = row[m].token /\ b.resolution = r /\ r # None
  BY <1>0, <1>1, <1>2, <1>5, NoneAssumption DEF Ambiguity, Resolutions
<1>7. ambiguity' = (ambiguity \ {a}) \cup {b}
  BY <1>5 DEF Resolve
<1>8. \A k \in Messages : k # m => Open(k)' = Open(k)
  BY <1>0, <1>6, <1>7 DEF Open
<1>9. LifeOf(m) = "quarantined"
  BY <1>0, <1>2 DEF LifeOf, Open
<1>10. Shift(m, "quarantined", Contract!Outcome(r)) /\ Freed(m)
  BY <1>4, <1>8, <1>9, SettleLife
<1>11. PICK v : v = [message |-> m, token |-> row[m].token, resolution |-> r]
  OBVIOUS
<1>12. Rulings' = Rulings \cup {v}
  <2>1. {y \in ambiguity' : y.resolution # None}
          = {y \in ambiguity : y.resolution # None} \cup {b}
    BY <1>2, <1>6, <1>7
  <2>2. v = [message |-> b.message, token |-> b.token, resolution |-> b.resolution]
    BY <1>6, <1>11
  <2> QED BY <2>1, <2>2 DEF Rulings
<1>13. \A x \in Rulings : ~(x.message = m /\ x.token = row[m].token)
  <2> SUFFICES ASSUME NEW y \in ambiguity, y.resolution # None,
                      y.message = m, y.token = row[m].token
               PROVE  FALSE
    BY DEF Rulings
  <2>1. y = a
    BY <1>0, <1>2 DEF OutboxInv, AmbiguityResolvable
  <2> QED BY <1>2, <2>1
<1>14. Holder[m] = row[m].token
  BY DEF Holder, HolderOf
<1>15. Contract!Resolve(m, r)
  BY <1>10, <1>11, <1>12, <1>13, <1>14, Shifted, FreedHolder
  DEF Contract!Resolve, Life, Holder
<1> QED BY <1>15 DEF Contract!Next, Resolutions

(* The outbox and its publishers implement the delivery contract: claims   *)
(* and takeovers draw fresh tokens and pass over quarantined messages, a   *)
(* publisher settles what it holds, and only an operator's one ruling on   *)
(* an attempt takes its message out of quarantine.                         *)
THEOREM DeliveryRefinement == Spec => ImplementsContract
<1>1. Init => Contract!Init
  <2> SUFFICES ASSUME Init PROVE Contract!Init
    OBVIOUS
  <2>1. \A m \in Messages : row[m].status = "absent" /\ row[m].token = None
    BY DEF Init, NoRow
  <2>2. \A m \in Messages : LifeOf(m) = "absent" /\ HolderOf(m) = None
    BY <2>1 DEF LifeOf, HolderOf
  <2>3. Rulings = {}
    BY DEF Init, Rulings
  <2> QED BY <2>2, <2>3 DEF Contract!Init
<1>2. OutboxInv /\ [Next]_vars => [Contract!Next]_ContractVars
  <2> SUFFICES ASSUME OutboxInv, [Next]_vars
               PROVE  Contract!Next \/ UNCHANGED ContractVars
    OBVIOUS
  <2>1. CASE Tick \/ UNCHANGED vars
    BY <2>1, ContractStays DEF Tick, vars
  <2>2. ASSUME NEW p \in Publishers, PublisherStep(p)
        PROVE  Contract!Next \/ UNCHANGED ContractVars
    <3>1. CASE Cancel(p) \/ Crash(p)
      BY <3>1, ContractStays DEF Cancel, Crash
    <3> QED BY <2>2, <3>1, ClaimLife DEF PublisherStep
  <2>3. CASE OperatorStep
    BY <2>3, ResolveLife DEF OperatorStep
  <2> QED BY <2>1, <2>2, <2>3, AppendLife, TaskLife DEF Next
<1> QED
  BY <1>1, <1>2, OutboxInvariance, PTL
  DEF Spec, ImplementsContract, Contract!Spec, Contract!vars, ContractVars, Life, Holder
=============================================================================
