---------------------- MODULE InvocationAttemptsProofs ----------------------
(***************************************************************************)
(* Proofs about the attempt store, for every set of jobs, processes,       *)
(* results and leases and every bound.                                     *)
(*                                                                         *)
(* The argument.  One transaction touches several jobs, but each job's     *)
(* rows change along one of six edges (JobStep).  NextSteps reduces        *)
(* every action to those edges; what an edge preserves is then a fact      *)
(* about two rows and mentions no action, process or commit outcome.       *)
(***************************************************************************)
EXTENDS InvocationAttempts, SequenceTheorems, TLAPS

-----------------------------------------------------------------------------
(* The inductive invariant. *)

(* A job's rows pass every integrity check and hold at most one attempt.   *)
RowOK(row, history, budget) ==
  /\ row \in JobRow
  /\ history \in Seq(AttemptRow)
  /\ JobRowValid(row, budget)
  /\ HistoryValid(row, history)
  /\ SnapshotValid(row, history)
  /\ row.started <= 1
  /\ row.epoch = row.started
  /\ row.status = "absent" => row.started = 0

(* The rows bear out one report to a caller.                               *)
ReportOK(r, row, history) ==
  /\ row.started = 1
  /\ history[1].token = r.token
  /\ r.what = "leased" => r.until \in Times /\ history[1].expires >= r.until
  /\ r.what = "completed" => row.status = "succeeded" /\ row.result = r.result
  /\ r.what = "failed" => /\ row.status \in {"queued", "failed"}
                          /\ history[1].status = "failed"

(* The rows a call will look for are rows its operation writes.            *)
CallOK(c) ==
  /\ c.op = "claim" => c.row.expires = c.lease.expires
  /\ c.op \in {"claim", "heartbeat"} => /\ c.row.expires \in Times
                                        /\ c.attempt.expires = c.row.expires
  /\ c.op = "complete" => c.row.status = "succeeded"
  /\ c.op = "fail" => /\ c.row.status \in {"queued", "failed"}
                      /\ c.attempt.status = "failed"

IInv ==
  /\ TypeOK
  /\ \A j \in Jobs : RowOK(job[j], attempts[j], MaxAttempts[j])
  /\ \A r \in told : ReportOK(r, job[r.job], attempts[r.job])
  /\ \A w \in Workers : CallOK(call[w])

-----------------------------------------------------------------------------
(* The six edges of a job's rows. *)

EnqueueEdge(row, history, newRow, newHistory) ==
  /\ row.status = "absent"
  /\ \E available, now \in Times : newRow = QueuedRow(available, now)
  /\ newHistory = history

ClaimEdge(row, history, newRow, newHistory) ==
  /\ row.status = "queued"
  /\ row.started = 0
  /\ \E w \in Workers, token \in Nat, now, deadline \in Times :
       /\ now >= row.updated
       /\ deadline > now
       /\ newRow = ClaimedRow(row, w, token, now, deadline)
  /\ newHistory = Append(history, StartedAttempt(newRow))

RenewEdge(row, history, newRow, newHistory) ==
  /\ row.status = "running"
  /\ \E now, deadline \in Times :
       /\ now >= row.updated
       /\ deadline > now
       /\ deadline >= row.expires
       /\ newRow = RenewedRow(row, now, deadline)
       /\ newHistory = [history EXCEPT ![row.started] =
                          RenewedAttempt(history[row.started], now, deadline)]

CompleteEdge(row, history, newRow, newHistory) ==
  /\ row.status = "running"
  /\ \E now \in Times, result \in OptResult :
       /\ now >= row.updated
       /\ now < row.expires
       /\ newRow = CompletedRow(row, now, result)
       /\ newHistory = [history EXCEPT ![row.started] =
                          CompletedAttempt(history[row.started], now, result)]

FailEdge(row, history, budget, newRow, newHistory) ==
  /\ row.status = "running"
  /\ \E now, available \in Times :
       /\ now >= row.updated
       /\ now < row.expires
       /\ newRow = AfterAttempt(row, budget, now, available, "failure")
       /\ newHistory = [history EXCEPT ![row.started] =
                          EndedAttempt(history[row.started], "failed", now, "failure")]

ExpireEdge(row, history, budget, newRow, newHistory) ==
  /\ row.status = "running"
  /\ \E now \in Times :
       /\ now >= row.expires
       /\ newRow = AfterAttempt(row, budget, now, now, "expiry")
       /\ newHistory = [history EXCEPT ![row.started] =
                          EndedAttempt(history[row.started], "expired", now, "expiry")]

JobStep(row, history, budget, newRow, newHistory) ==
  \/ newRow = row /\ newHistory = history
  \/ EnqueueEdge(row, history, newRow, newHistory)
  \/ ClaimEdge(row, history, newRow, newHistory)
  \/ RenewEdge(row, history, newRow, newHistory)
  \/ CompleteEdge(row, history, newRow, newHistory)
  \/ FailEdge(row, history, budget, newRow, newHistory)
  \/ ExpireEdge(row, history, budget, newRow, newHistory)

-----------------------------------------------------------------------------
(* What the edges preserve. *)

(* A started job has exactly one attempt, and that attempt is in order.    *)
LEMMA StartedShape ==
  ASSUME NEW row, NEW history, NEW budget \in Nat \ {0},
         RowOK(row, history, budget), row.started # 0
  PROVE  /\ row.started = 1
         /\ history \in Seq(AttemptRow) /\ Len(history) = 1
         /\ history[1] \in AttemptRow
         /\ AttemptRowValid(history[1], 1)
         /\ history[1].started >= row.created
         /\ CurrentValid(row, history[1])
<1>1. row.started = 1 /\ Len(history) = 1 /\ history \in Seq(AttemptRow)
  BY DEF RowOK, SnapshotValid, JobRow
<1>2. history[1] \in AttemptRow
  <2>1. 1 \in 1 .. Len(history)
    BY <1>1
  <2> QED
    BY <1>1, <2>1, ElementOfSeq
<1>3. AttemptRowValid(history[1], 1) /\ history[1].started >= row.created
  BY <1>1 DEF RowOK, HistoryValid
<1>4. CurrentValid(row, history[1])
  BY <1>1 DEF RowOK, SnapshotValid
<1> QED
  BY <1>1, <1>2, <1>3, <1>4

(* A job with one attempt is in order when its row and that attempt are.   *)
LEMMA OneAttemptOK ==
  ASSUME NEW row \in JobRow, NEW history \in Seq(AttemptRow),
         NEW budget \in Nat \ {0},
         Len(history) = 1, JobRowValid(row, budget),
         AttemptRowValid(history[1], 1), history[1].started >= row.created,
         CurrentValid(row, history[1]),
         row.started = 1, row.epoch = 1, row.status # "absent"
  PROVE  RowOK(row, history, budget)
<1>1. HistoryValid(row, history)
  BY DEF HistoryValid
<1>2. SnapshotValid(row, history)
  BY DEF SnapshotValid
<1> QED
  BY <1>1, <1>2 DEF RowOK

(* Replacing the only attempt of a history.                                *)
LEMMA ReplaceOnly ==
  ASSUME NEW history \in Seq(AttemptRow), Len(history) = 1,
         NEW a \in AttemptRow
  PROVE  LET h == [history EXCEPT ![1] = a]
         IN  h \in Seq(AttemptRow) /\ Len(h) = 1 /\ h[1] = a
OBVIOUS

(* A new job is in order.                                                  *)
LEMMA EnqueueKeepsOK ==
  ASSUME NEW row, NEW history, NEW budget \in Nat \ {0}, NEW newRow,
         NEW newHistory, RowOK(row, history, budget),
         EnqueueEdge(row, history, newRow, newHistory)
  PROVE  RowOK(newRow, newHistory, budget)
<1>1. PICK available \in Times, now \in Times : newRow = QueuedRow(available, now)
  BY DEF EnqueueEdge
<1>2. newRow \in JobRow /\ newRow.started = 0 /\ newRow.epoch = 0
  BY <1>1 DEF QueuedRow, JobRow, JobStatuses, OptTime, OptToken, OptResult
<1>3. JobRowValid(newRow, budget)
  BY <1>1 DEF QueuedRow, JobRowValid, Times
<1>4. newHistory \in Seq(AttemptRow) /\ Len(newHistory) = 0
  BY DEF RowOK, EnqueueEdge, SnapshotValid, JobRow
<1>5. HistoryValid(newRow, newHistory)
  BY <1>4 DEF HistoryValid
<1>6. SnapshotValid(newRow, newHistory)
  BY <1>2, <1>4 DEF SnapshotValid
<1> QED
  BY <1>2, <1>3, <1>4, <1>5, <1>6 DEF RowOK

(* A claimed row: its type, and its columns.                               *)
LEMMA ClaimedColumns ==
  ASSUME NEW row \in JobRow, NEW w \in Workers, NEW token \in Nat,
         NEW now \in Times, NEW deadline \in Times,
         NEW new, new = ClaimedRow(row, w, token, now, deadline)
  PROVE  /\ new \in JobRow
         /\ new.status = "running"
         /\ new.started = row.started + 1 /\ new.epoch = row.epoch + 1
         /\ new.created = row.created /\ new.updated = now
         /\ new.owner = w /\ new.token = token
         /\ new.expires = deadline /\ new.heartbeat = now
         /\ new.finished = None /\ new.error = row.error
         /\ new.result = row.result
<1> DEFINE n == row.started + 1
           e == row.epoch + 1
<1>1. n \in Nat /\ e \in Nat
  BY DEF JobRow
<1> HIDE DEF n, e
<1>2. [row EXCEPT !.status = "running", !.started = n, !.epoch = e,
                  !.owner = w, !.token = token, !.expires = deadline,
                  !.heartbeat = now, !.updated = now, !.finished = None]
        \in JobRow
  BY <1>1 DEF JobRow, JobStatuses, OptTime, OptToken
<1>3. ClaimedRow(row, w, token, now, deadline) \in JobRow
  BY <1>2 DEF ClaimedRow, n, e
<1> QED
  BY <1>3 DEF ClaimedRow, JobRow

(* A claimed job is in order: its first attempt starts with its lease.     *)
LEMMA ClaimKeepsOK ==
  ASSUME NEW row, NEW history, NEW budget \in Nat \ {0}, NEW newRow,
         NEW newHistory, RowOK(row, history, budget),
         ClaimEdge(row, history, newRow, newHistory)
  PROVE  /\ RowOK(newRow, newHistory, budget)
         /\ newRow.started = 1
         /\ newHistory[1] = StartedAttempt(newRow)
<1>1. PICK w \in Workers, token \in Nat, now \in Times, deadline \in Times :
        /\ now >= row.updated
        /\ deadline > now
        /\ newRow = ClaimedRow(row, w, token, now, deadline)
  BY DEF ClaimEdge
<1>2. /\ row \in JobRow /\ row.started = 0 /\ row.epoch = 0
      /\ row.status = "queued" /\ row.finished = None /\ row.error = None
      /\ row.result = None /\ row.updated >= row.created
  BY DEF RowOK, ClaimEdge, JobRowValid
<1>3. /\ newRow \in JobRow /\ newRow.status = "running"
      /\ newRow.started = 1 /\ newRow.epoch = 1
      /\ newRow.created = row.created /\ newRow.updated = now
      /\ newRow.owner = w /\ newRow.token = token
      /\ newRow.expires = deadline /\ newRow.heartbeat = now
      /\ newRow.finished = None /\ newRow.error = None /\ newRow.result = None
  <2>0. newRow = ClaimedRow(row, w, token, now, deadline) /\ row \in JobRow
    BY <1>1, <1>2
  <2>1. /\ newRow \in JobRow /\ newRow.status = "running"
        /\ newRow.started = row.started + 1 /\ newRow.epoch = row.epoch + 1
        /\ newRow.created = row.created /\ newRow.updated = now
        /\ newRow.owner = w /\ newRow.token = token
        /\ newRow.expires = deadline /\ newRow.heartbeat = now
        /\ newRow.finished = None /\ newRow.error = row.error
        /\ newRow.result = row.result
    BY <2>0, ClaimedColumns
  <2>2. newRow.started = 1 /\ newRow.epoch = 1
    BY <1>2, <2>1
  <2> QED
    BY <1>2, <2>1, <2>2, Zenon
<1>4. now \in Nat /\ deadline \in Nat /\ row.created \in Nat /\ row.updated \in Nat
  BY <1>2, BoundAssumption DEF Times, JobRow
<1>5. now >= row.created
  BY <1>1, <1>2, <1>4
<1>6. None \notin {w, token, deadline, now}
  BY <1>4, NoneAssumption
<1>7. JobRowValid(newRow, budget)
  BY <1>1, <1>3, <1>4, <1>5, <1>6 DEF JobRowValid
<1> DEFINE a == StartedAttempt(newRow)
<1>8. /\ a = [epoch |-> 1, worker |-> w, token |-> token, status |-> "running",
              started |-> now, heartbeat |-> now, expires |-> deadline,
              finished |-> None, error |-> None, result |-> None]
  BY <1>3 DEF StartedAttempt
<1>9. a \in AttemptRow
  BY <1>8 DEF AttemptRow, AttemptStatuses, OptTime, OptResult
<1>10. AttemptRowValid(a, 1) /\ a.started >= newRow.created
  BY <1>1, <1>3, <1>4, <1>5, <1>8 DEF AttemptRowValid
<1>11. CurrentValid(newRow, a)
  BY <1>3, <1>8 DEF CurrentValid
<1>12. history \in Seq(AttemptRow) /\ Len(history) = 0
  BY <1>2 DEF RowOK, SnapshotValid
<1>13. newHistory = Append(history, a)
  BY DEF ClaimEdge
<1> HIDE DEF a
<1>14. newHistory \in Seq(AttemptRow) /\ Len(newHistory) = 1 /\ newHistory[1] = a
  BY <1>9, <1>12, <1>13, AppendProperties
<1>15. newRow.status # "absent"
  BY <1>3
<1>16. RowOK(newRow, newHistory, budget)
  BY <1>3, <1>7, <1>10, <1>11, <1>14, <1>15, OneAttemptOK
<1> QED
  BY <1>3, <1>14, <1>16 DEF a

(* The columns of the rows a running job may be rewritten with.            *)
LEMMA RenewedColumns ==
  ASSUME NEW row \in JobRow, NEW now \in Times, NEW deadline \in Times,
         NEW new, new = RenewedRow(row, now, deadline)
  PROVE  /\ new \in JobRow
         /\ new.status = row.status
         /\ new.started = row.started /\ new.epoch = row.epoch
         /\ new.created = row.created /\ new.updated = now
         /\ new.owner = row.owner /\ new.token = row.token
         /\ new.expires = deadline /\ new.heartbeat = now
         /\ new.finished = row.finished /\ new.error = row.error
         /\ new.result = row.result
BY DEF RenewedRow, JobRow, OptTime

(* The columns of a completed row.                                         *)
LEMMA CompletedColumns ==
  ASSUME NEW row \in JobRow, NEW now \in Times, NEW result \in OptResult,
         NEW new, new = CompletedRow(row, now, result)
  PROVE  /\ new \in JobRow
         /\ new.status = "succeeded"
         /\ new.started = row.started /\ new.epoch = row.epoch
         /\ new.created = row.created /\ new.updated = now
         /\ new.owner = None /\ new.token = None
         /\ new.expires = None /\ new.heartbeat = None
         /\ new.finished = now /\ new.error = row.error
         /\ new.result = result
BY DEF CompletedRow, Released, JobRow, JobStatuses, OptTime, OptToken

(* The columns of a row whose attempt failed or expired.                   *)
LEMMA AfterAttemptColumns ==
  ASSUME NEW row \in JobRow, NEW budget \in Nat, NEW now \in Times,
         NEW available \in Times, NEW error \in Errors,
         NEW new, new = AfterAttempt(row, budget, now, available, error)
  PROVE  /\ new \in JobRow
         /\ row.started >= budget => new.status = "failed" /\ new.finished = now
         /\ ~(row.started >= budget) =>
              new.status = "queued" /\ new.finished = row.finished
         /\ new.started = row.started /\ new.epoch = row.epoch
         /\ new.created = row.created /\ new.updated = now
         /\ new.owner = None /\ new.token = None
         /\ new.expires = None /\ new.heartbeat = None
         /\ new.error = error /\ new.result = row.result
<1> DEFINE base == [row EXCEPT !.updated = now, !.owner = None, !.token = None,
                               !.expires = None, !.heartbeat = None,
                               !.error = error]
<1>1. /\ base \in JobRow
      /\ base.started = row.started /\ base.epoch = row.epoch
      /\ base.created = row.created /\ base.updated = now
      /\ base.owner = None /\ base.token = None
      /\ base.expires = None /\ base.heartbeat = None
      /\ base.finished = row.finished
      /\ base.error = error /\ base.result = row.result
  BY DEF JobRow, OptTime, OptToken
<1>2. new = IF row.started >= budget
            THEN [base EXCEPT !.status = "failed", !.finished = now]
            ELSE [base EXCEPT !.status = "queued", !.available = available]
  BY DEF AfterAttempt, Released
<1> HIDE DEF base
<1>3. CASE row.started >= budget
  <2>1. new = [base EXCEPT !.status = "failed", !.finished = now]
    BY <1>2, <1>3
  <2> QED
    BY <1>1, <1>3, <2>1 DEF JobRow, JobStatuses, OptTime
<1>4. CASE ~(row.started >= budget)
  <2>1. new = [base EXCEPT !.status = "queued", !.available = available]
    BY <1>2, <1>4
  <2> QED
    BY <1>1, <1>4, <2>1 DEF JobRow, JobStatuses
<1> QED
  BY <1>3, <1>4

(* The facts about a running job that every edge out of it starts from.    *)
LEMMA RunningFacts ==
  ASSUME NEW row, NEW history, NEW budget \in Nat \ {0},
         RowOK(row, history, budget), row.status = "running"
  PROVE  /\ row \in JobRow /\ row.started = 1 /\ row.epoch = 1
         /\ row.started <= budget
         /\ row.created \in Nat /\ row.updated \in Nat
         /\ row.expires \in Nat /\ row.heartbeat \in Nat
         /\ row.created <= row.updated /\ row.updated < row.expires
         /\ row.owner # None /\ row.token # None
         /\ row.result = None /\ row.finished = None
         /\ history \in Seq(AttemptRow) /\ Len(history) = 1
         /\ history[1] \in AttemptRow
         /\ history[1].epoch = 1 /\ history[1].status = "running"
         /\ history[1].worker = row.owner /\ history[1].token = row.token
         /\ history[1].started \in Nat /\ history[1].started >= row.created
         /\ history[1].heartbeat = row.heartbeat
         /\ history[1].started <= row.heartbeat /\ row.heartbeat <= row.updated
         /\ history[1].expires = row.expires
         /\ history[1].error = None /\ history[1].result = None
<1>1. /\ row \in JobRow /\ row.started # 0 /\ row.epoch = row.started
      /\ row.started <= budget
      /\ row.created <= row.updated /\ row.updated < row.expires
      /\ row.heartbeat <= row.updated
      /\ row.owner # None /\ row.token # None
      /\ row.expires # None /\ row.heartbeat # None
      /\ row.result = None /\ row.finished = None
  BY DEF RowOK, JobRowValid, JobRow
<1>2. /\ row.created \in Nat /\ row.updated \in Nat
      /\ row.expires \in Nat /\ row.heartbeat \in Nat
  BY <1>1, BoundAssumption DEF JobRow, Times, OptTime
<1>3. /\ row.started = 1
      /\ history \in Seq(AttemptRow) /\ Len(history) = 1
      /\ history[1] \in AttemptRow
      /\ AttemptRowValid(history[1], 1)
      /\ history[1].started >= row.created
      /\ CurrentValid(row, history[1])
  BY <1>1, StartedShape
<1>4. history[1].started \in Nat
  BY <1>3, BoundAssumption DEF AttemptRow, Times
<1>5. /\ history[1].epoch = row.epoch /\ history[1].status = "running"
      /\ history[1].worker = row.owner /\ history[1].token = row.token
      /\ history[1].heartbeat = row.heartbeat
      /\ history[1].expires = row.expires
  BY <1>3 DEF CurrentValid
<1>6. /\ history[1].started <= history[1].heartbeat
      /\ history[1].error = None /\ history[1].result = None
  BY <1>3, <1>5 DEF AttemptRowValid
<1> QED
  BY <1>1, <1>2, <1>3, <1>4, <1>5, <1>6

(* A renewed lease leaves the job in order.                                *)
LEMMA RenewKeepsOK ==
  ASSUME NEW row, NEW history, NEW budget \in Nat \ {0}, NEW newRow,
         NEW newHistory, RowOK(row, history, budget),
         RenewEdge(row, history, newRow, newHistory)
  PROVE  /\ RowOK(newRow, newHistory, budget)
         /\ newRow.started = 1 /\ newRow.status = "running"
         /\ newRow.updated >= row.updated
         /\ newHistory[1].token = history[1].token
         /\ newHistory[1].expires >= history[1].expires
<1>0. row.status = "running"
  BY DEF RenewEdge
<1> DEFINE a == history[1]
<1>1. /\ row \in JobRow /\ row.started = 1 /\ row.epoch = 1
      /\ row.started <= budget
      /\ row.created \in Nat /\ row.updated \in Nat
      /\ row.expires \in Nat
      /\ row.created <= row.updated
      /\ row.owner # None /\ row.token # None
      /\ row.result = None /\ row.finished = None
      /\ history \in Seq(AttemptRow) /\ Len(history) = 1
      /\ a \in AttemptRow /\ a.epoch = 1 /\ a.status = "running"
      /\ a.worker = row.owner /\ a.token = row.token
      /\ a.started \in Nat /\ a.started >= row.created
      /\ a.started <= row.updated /\ a.expires = row.expires
      /\ a.error = None /\ a.result = None
  BY <1>0, RunningFacts
<1>2. PICK now \in Times, deadline \in Times :
        /\ now >= row.updated
        /\ deadline > now
        /\ deadline >= row.expires
        /\ newRow = RenewedRow(row, now, deadline)
        /\ newHistory = [history EXCEPT ![1] = RenewedAttempt(a, now, deadline)]
  BY <1>1 DEF RenewEdge
<1>3. now \in Nat /\ deadline \in Nat /\ now # None /\ deadline # None
  BY NoneAssumption, BoundAssumption DEF Times
<1> DEFINE b == RenewedAttempt(a, now, deadline)
<1> HIDE DEF a
<1>4. /\ b \in AttemptRow
      /\ b.epoch = 1 /\ b.status = "running"
      /\ b.worker = a.worker /\ b.token = a.token
      /\ b.started = a.started /\ b.heartbeat = now /\ b.expires = deadline
      /\ b.finished = a.finished /\ b.error = None /\ b.result = None
  BY <1>1 DEF RenewedAttempt, AttemptRow
<1> HIDE DEF b
<1>5. newHistory \in Seq(AttemptRow) /\ Len(newHistory) = 1 /\ newHistory[1] = b
  BY <1>1, <1>2, <1>4, ReplaceOnly DEF b
<1>6. /\ newRow \in JobRow /\ newRow.status = "running"
      /\ newRow.started = 1 /\ newRow.epoch = 1
      /\ newRow.created = row.created /\ newRow.updated = now
      /\ newRow.owner = row.owner /\ newRow.token = row.token
      /\ newRow.expires = deadline /\ newRow.heartbeat = now
      /\ newRow.finished = None /\ newRow.error = row.error
      /\ newRow.result = None
  BY <1>0, <1>1, <1>2, RenewedColumns
<1>7. JobRowValid(newRow, budget)
  BY <1>1, <1>2, <1>3, <1>6 DEF JobRowValid
<1>8. a.finished = None
  BY <1>0, <1>1, StartedShape DEF AttemptRowValid, a
<1>9. AttemptRowValid(b, 1) /\ b.started >= newRow.created
  BY <1>1, <1>2, <1>3, <1>4, <1>6, <1>8 DEF AttemptRowValid
<1>10. CurrentValid(newRow, b)
  BY <1>1, <1>4, <1>6, <1>8 DEF CurrentValid
<1>11. RowOK(newRow, newHistory, budget)
  BY <1>5, <1>6, <1>7, <1>9, <1>10, OneAttemptOK
<1> QED
  BY <1>1, <1>2, <1>3, <1>4, <1>5, <1>6, <1>11 DEF a

(* A completed job is in order.                                            *)
LEMMA CompleteKeepsOK ==
  ASSUME NEW row, NEW history, NEW budget \in Nat \ {0}, NEW newRow,
         NEW newHistory, RowOK(row, history, budget),
         CompleteEdge(row, history, newRow, newHistory)
  PROVE  /\ RowOK(newRow, newHistory, budget)
         /\ newRow.started = 1 /\ newRow.status = "succeeded"
         /\ newRow.updated >= row.updated
         /\ newHistory[1].token = history[1].token
         /\ newHistory[1].expires = history[1].expires
<1>0. row.status = "running"
  BY DEF CompleteEdge
<1> DEFINE a == history[1]
<1>1. /\ row \in JobRow /\ row.started = 1 /\ row.epoch = 1
      /\ row.started <= budget
      /\ row.created \in Nat /\ row.updated \in Nat
      /\ row.expires \in Nat /\ row.heartbeat \in Nat
      /\ row.created <= row.updated
      /\ history \in Seq(AttemptRow) /\ Len(history) = 1
      /\ a \in AttemptRow /\ a.epoch = 1
      /\ a.started \in Nat /\ a.started >= row.created
      /\ a.heartbeat = row.heartbeat /\ a.started <= row.heartbeat
      /\ row.heartbeat <= row.updated /\ a.expires = row.expires
      /\ row.updated < row.expires
      /\ a.error = None
  BY <1>0, RunningFacts
<1>2. PICK now \in Times, result \in OptResult :
        /\ now >= row.updated
        /\ now < row.expires
        /\ newRow = CompletedRow(row, now, result)
        /\ newHistory = [history EXCEPT ![1] = CompletedAttempt(a, now, result)]
  BY <1>1 DEF CompleteEdge
<1>3. now \in Nat /\ now # None
  BY NoneAssumption, BoundAssumption DEF Times
<1> DEFINE b == CompletedAttempt(a, now, result)
<1> HIDE DEF a
<1>4. /\ b \in AttemptRow
      /\ b.epoch = 1 /\ b.status = "succeeded" /\ b.token = a.token
      /\ b.started = a.started /\ b.heartbeat = a.heartbeat
      /\ b.expires = a.expires
      /\ b.finished = now /\ b.error = None /\ b.result = result
  BY <1>1 DEF CompletedAttempt, AttemptRow, AttemptStatuses, OptTime
<1> HIDE DEF b
<1>5. newHistory \in Seq(AttemptRow) /\ Len(newHistory) = 1 /\ newHistory[1] = b
  BY <1>1, <1>2, <1>4, ReplaceOnly DEF b
<1>6. /\ newRow \in JobRow /\ newRow.status = "succeeded"
      /\ newRow.started = 1 /\ newRow.epoch = 1
      /\ newRow.created = row.created /\ newRow.updated = now
      /\ newRow.owner = None /\ newRow.token = None
      /\ newRow.expires = None /\ newRow.heartbeat = None
      /\ newRow.finished = now /\ newRow.result = result
  BY <1>1, <1>2, CompletedColumns
<1>7. JobRowValid(newRow, budget)
  BY <1>1, <1>2, <1>3, <1>6 DEF JobRowValid
<1>8. AttemptRowValid(b, 1) /\ b.started >= newRow.created
  BY <1>1, <1>2, <1>3, <1>4, <1>6 DEF AttemptRowValid
<1>9. CurrentValid(newRow, b)
  BY <1>3, <1>4, <1>6 DEF CurrentValid
<1>10. RowOK(newRow, newHistory, budget)
  BY <1>5, <1>6, <1>7, <1>8, <1>9, OneAttemptOK
<1> QED
  BY <1>2, <1>4, <1>5, <1>6, <1>10 DEF a

(* A failed or expired attempt leaves the job in order: queued while its   *)
(* budget lasts, failed when it is spent.  The two edges differ in where   *)
(* the reading lies with respect to the lease.                             *)
LEMMA EndKeepsOK ==
  ASSUME NEW row, NEW history, NEW budget \in Nat \ {0}, NEW newRow,
         NEW newHistory, RowOK(row, history, budget), row.status = "running",
         NEW now \in Times, NEW available \in Times,
         NEW status \in {"failed", "expired"}, NEW error \in Errors,
         now >= row.updated,
         status = "failed" => now < row.expires,
         status = "expired" => now >= row.expires,
         newRow = AfterAttempt(row, budget, now, available, error),
         newHistory = [history EXCEPT ![row.started] =
                         EndedAttempt(history[row.started], status, now, error)]
  PROVE  /\ RowOK(newRow, newHistory, budget)
         /\ newRow.started = 1 /\ newRow.status \in {"queued", "failed"}
         /\ newRow.updated >= row.updated
         /\ newHistory[1].token = history[1].token
         /\ newHistory[1].expires = history[1].expires
<1> DEFINE a == history[1]
<1>1. /\ row \in JobRow /\ row.started = 1 /\ row.epoch = 1
      /\ row.started <= budget
      /\ row.created \in Nat /\ row.updated \in Nat
      /\ row.expires \in Nat /\ row.heartbeat \in Nat
      /\ row.created <= row.updated
      /\ row.result = None /\ row.finished = None
      /\ history \in Seq(AttemptRow) /\ Len(history) = 1
      /\ a \in AttemptRow /\ a.epoch = 1
      /\ a.started \in Nat /\ a.started >= row.created
      /\ a.heartbeat = row.heartbeat /\ a.started <= row.heartbeat
      /\ row.heartbeat <= row.updated /\ a.expires = row.expires
      /\ row.updated < row.expires
      /\ a.result = None
  BY RunningFacts
<1>2. newHistory = [history EXCEPT ![1] = EndedAttempt(a, status, now, error)]
  BY <1>1
<1>3. now \in Nat /\ now # None
  BY NoneAssumption, BoundAssumption DEF Times
<1>4. error # None
  BY NoneAssumption DEF Errors
<1> DEFINE b == EndedAttempt(a, status, now, error)
<1> HIDE DEF a
<1>5. /\ b \in AttemptRow
      /\ b.epoch = 1 /\ b.status = status /\ b.token = a.token
      /\ b.started = a.started /\ b.heartbeat = a.heartbeat
      /\ b.expires = a.expires
      /\ b.finished = now /\ b.error = error /\ b.result = None
  BY <1>1 DEF EndedAttempt, AttemptRow, AttemptStatuses, OptTime
<1> HIDE DEF b
<1>6. newHistory \in Seq(AttemptRow) /\ Len(newHistory) = 1 /\ newHistory[1] = b
  BY <1>1, <1>2, <1>5, ReplaceOnly DEF b
<1>7. /\ newRow \in JobRow
      /\ 1 >= budget => newRow.status = "failed" /\ newRow.finished = now
      /\ ~(1 >= budget) => newRow.status = "queued" /\ newRow.finished = None
      /\ newRow.started = 1 /\ newRow.epoch = 1
      /\ newRow.created = row.created /\ newRow.updated = now
      /\ newRow.owner = None /\ newRow.token = None
      /\ newRow.expires = None /\ newRow.heartbeat = None
      /\ newRow.error = error /\ newRow.result = None
  <2>1. /\ newRow \in JobRow
        /\ row.started >= budget => newRow.status = "failed" /\ newRow.finished = now
        /\ ~(row.started >= budget) =>
             newRow.status = "queued" /\ newRow.finished = row.finished
        /\ newRow.started = row.started /\ newRow.epoch = row.epoch
        /\ newRow.created = row.created /\ newRow.updated = now
        /\ newRow.owner = None /\ newRow.token = None
        /\ newRow.expires = None /\ newRow.heartbeat = None
        /\ newRow.error = error /\ newRow.result = row.result
    <3>1. row \in JobRow /\ budget \in Nat
      BY <1>1
    <3> QED
      BY <3>1, AfterAttemptColumns
  <2> QED
    BY <1>1, <2>1
<1>8. JobRowValid(newRow, budget)
  BY <1>1, <1>3, <1>4, <1>7 DEF JobRowValid
<1>9. AttemptRowValid(b, 1) /\ b.started >= newRow.created
  BY <1>1, <1>3, <1>4, <1>5, <1>7 DEF AttemptRowValid
<1>10. newRow.status \in {"queued", "failed"}
  BY <1>7
<1>11. CurrentValid(newRow, b)
  BY <1>3, <1>5, <1>7, <1>10 DEF CurrentValid
<1>12. RowOK(newRow, newHistory, budget)
  BY <1>6, <1>7, <1>8, <1>9, <1>10, <1>11, OneAttemptOK
<1> QED
  BY <1>5, <1>6, <1>7, <1>10, <1>12 DEF a

-----------------------------------------------------------------------------
(* What one edge does to the rows, their reports and their times. *)

(* A job's rows stay in order along every edge.                            *)
LEMMA JobStepKeepsOK ==
  ASSUME NEW row, NEW history, NEW budget \in Nat \ {0}, NEW newRow,
         NEW newHistory, RowOK(row, history, budget),
         JobStep(row, history, budget, newRow, newHistory)
  PROVE  RowOK(newRow, newHistory, budget)
<1>1. CASE newRow = row /\ newHistory = history
  BY <1>1
<1>2. CASE EnqueueEdge(row, history, newRow, newHistory)
  BY <1>2, EnqueueKeepsOK
<1>3. CASE ClaimEdge(row, history, newRow, newHistory)
  BY <1>3, ClaimKeepsOK
<1>4. CASE RenewEdge(row, history, newRow, newHistory)
  BY <1>4, RenewKeepsOK
<1>5. CASE CompleteEdge(row, history, newRow, newHistory)
  BY <1>5, CompleteKeepsOK
<1>6. CASE FailEdge(row, history, budget, newRow, newHistory)
  <2>1. row.status = "running"
    BY <1>6 DEF FailEdge
  <2>2. PICK now \in Times, available \in Times :
          /\ now >= row.updated
          /\ now < row.expires
          /\ newRow = AfterAttempt(row, budget, now, available, "failure")
          /\ newHistory = [history EXCEPT ![row.started] =
               EndedAttempt(history[row.started], "failed", now, "failure")]
    BY <1>6 DEF FailEdge
  <2> QED
    BY <2>1, <2>2, EndKeepsOK DEF Errors
<1>7. CASE ExpireEdge(row, history, budget, newRow, newHistory)
  <2>1. row.status = "running"
    BY <1>7 DEF ExpireEdge
  <2>2. row.updated \in Nat /\ row.expires \in Nat /\ row.updated < row.expires
    BY <2>1, RunningFacts
  <2>3. PICK now \in Times :
          /\ now >= row.expires
          /\ newRow = AfterAttempt(row, budget, now, now, "expiry")
          /\ newHistory = [history EXCEPT ![row.started] =
               EndedAttempt(history[row.started], "expired", now, "expiry")]
    BY <1>7 DEF ExpireEdge
  <2>4. now >= row.updated
    BY <2>2, <2>3, BoundAssumption DEF Times
  <2> QED
    BY <2>1, <2>3, <2>4, EndKeepsOK DEF Errors
<1> QED
  BY <1>1, <1>2, <1>3, <1>4, <1>5, <1>6, <1>7 DEF JobStep

(* An ended attempt admits no edge but standing still.                     *)
LEMMA JobStepFreezesEnded ==
  ASSUME NEW row, NEW history, NEW budget \in Nat \ {0}, NEW newRow,
         NEW newHistory, RowOK(row, history, budget),
         JobStep(row, history, budget, newRow, newHistory),
         row.started > 0, row.status # "running"
  PROVE  newRow = row /\ newHistory = history
BY DEF JobStep, EnqueueEdge, ClaimEdge, RenewEdge, CompleteEdge, FailEdge,
       ExpireEdge, RowOK

(* The single attempt keeps its token, and its deadline only grows.        *)
LEMMA JobStepKeepsLease ==
  ASSUME NEW row, NEW history, NEW budget \in Nat \ {0}, NEW newRow,
         NEW newHistory, RowOK(row, history, budget),
         JobStep(row, history, budget, newRow, newHistory),
         row.status = "running"
  PROVE  /\ newRow.started = 1
         /\ newHistory[1].token = history[1].token
         /\ newHistory[1].expires >= history[1].expires
         /\ newRow.updated >= row.updated
<1>0. /\ row.started = 1 /\ row.updated \in Nat /\ row.expires \in Nat
      /\ row.updated < row.expires /\ history[1].expires = row.expires
  BY RunningFacts
<1>1. CASE newRow = row /\ newHistory = history
  BY <1>0, <1>1
<1>2. CASE RenewEdge(row, history, newRow, newHistory)
  BY <1>2, RenewKeepsOK
<1>3. CASE CompleteEdge(row, history, newRow, newHistory)
  BY <1>0, <1>3, CompleteKeepsOK
<1>4. CASE FailEdge(row, history, budget, newRow, newHistory)
  BY <1>0, <1>4, EndKeepsOK DEF FailEdge, Errors
<1>5. CASE ExpireEdge(row, history, budget, newRow, newHistory)
  <2>1. PICK now \in Times :
          /\ now >= row.expires
          /\ newRow = AfterAttempt(row, budget, now, now, "expiry")
          /\ newHistory = [history EXCEPT ![row.started] =
               EndedAttempt(history[row.started], "expired", now, "expiry")]
    BY <1>5 DEF ExpireEdge
  <2>2. now >= row.updated
    BY <1>0, <2>1, BoundAssumption DEF Times
  <2>3. /\ newRow.started = 1
        /\ newHistory[1].token = history[1].token
        /\ newHistory[1].expires = history[1].expires
        /\ newRow.updated >= row.updated
    BY <2>1, <2>2, EndKeepsOK DEF Errors
  <2> QED
    BY <1>0, <2>3
<1> QED
  BY <1>1, <1>2, <1>3, <1>4, <1>5 DEF JobStep, EnqueueEdge, ClaimEdge

(* A report borne out by the rows stays borne out.                         *)
LEMMA JobStepKeepsReport ==
  ASSUME NEW row, NEW history, NEW budget \in Nat \ {0}, NEW newRow,
         NEW newHistory, RowOK(row, history, budget),
         JobStep(row, history, budget, newRow, newHistory),
         NEW r \in Report, ReportOK(r, row, history)
  PROVE  ReportOK(r, newRow, newHistory)
<1>1. CASE row.status # "running"
  BY <1>1, JobStepFreezesEnded DEF ReportOK
<1>2. CASE row.status = "running"
  <2>1. r.what = "leased"
    BY <1>2 DEF ReportOK, Report
  <2>2. history[1].expires \in Nat
    BY <1>2, RunningFacts
  <2>3. /\ newRow.started = 1
        /\ newHistory[1].token = history[1].token
        /\ newHistory[1].expires >= history[1].expires
    BY <1>2, JobStepKeepsLease
  <2>4. newHistory[1].expires \in Nat
    <3>1. RowOK(newRow, newHistory, budget)
      BY JobStepKeepsOK
    <3>2. newHistory[1] \in AttemptRow
      BY <2>3, <3>1, StartedShape
    <3> QED
      BY <3>2, BoundAssumption DEF AttemptRow, Times
  <2>5. r.until \in Times /\ r.until \in Nat /\ history[1].expires >= r.until
    BY <2>1, BoundAssumption DEF ReportOK, Times
  <2>6. newHistory[1].expires >= r.until
    BY <2>2, <2>3, <2>4, <2>5
  <2> QED
    BY <2>1, <2>3, <2>5, <2>6 DEF ReportOK
<1> QED
  BY <1>1, <1>2

-----------------------------------------------------------------------------
(* Every action moves every job along an edge. *)

(* Rows that are functions of the job, each one an edge away.              *)
Steps(newJob, newAttempts) ==
  /\ newJob = [j \in Jobs |-> newJob[j]]
  /\ newAttempts = [j \in Jobs |-> newAttempts[j]]
  /\ \A j \in Jobs :
       JobStep(job[j], attempts[j], MaxAttempts[j], newJob[j], newAttempts[j])

(* A sweep moves the jobs it selected along the expiry edge.               *)
LEMMA SweepSteps ==
  ASSUME IInv, NEW now \in Times, NEW R \in SUBSET Expired(now)
  PROVE  Steps(SweptJobs(R, now), SweptAttempts(R, now))
<1> SUFFICES ASSUME NEW j \in Jobs
             PROVE  JobStep(job[j], attempts[j], MaxAttempts[j],
                            SweptJobs(R, now)[j], SweptAttempts(R, now)[j])
  BY DEF Steps, SweptJobs, SweptAttempts
<1>1. CASE j \notin R
  BY <1>1 DEF SweptJobs, SweptAttempts, JobStep
<1>2. CASE j \in R
  <2>1. job[j].status = "running" /\ job[j].expires <= now
    BY <1>2 DEF Expired
  <2>2. job[j].expires \in Nat
    BY <2>1, RunningFacts, BudgetAssumption DEF IInv
  <2>3. now >= job[j].expires
    BY <2>1, <2>2, BoundAssumption DEF Times
  <2>4. SweptJobs(R, now)[j] = AfterAttempt(job[j], MaxAttempts[j], now, now, "expiry")
    BY <1>2 DEF SweptJobs
  <2>5. SweptAttempts(R, now)[j] = [attempts[j] EXCEPT ![job[j].started] =
          EndedAttempt(attempts[j][job[j].started], "expired", now, "expiry")]
    BY <1>2 DEF SweptAttempts
  <2>6. ExpireEdge(job[j], attempts[j], MaxAttempts[j],
                   SweptJobs(R, now)[j], SweptAttempts(R, now)[j])
    BY <2>1, <2>3, <2>4, <2>5 DEF ExpireEdge
  <2> QED
    BY <2>6 DEF JobStep
<1> QED
  BY <1>1, <1>2

(* Standing still is a step of every job.                                  *)
LEMMA StutterSteps ==
  ASSUME TypeOK
  PROVE  Steps(job, attempts)
BY DEF TypeOK, Steps, JobStep

(* Replacing one job's rows along an edge, on top of other steps.          *)
LEMMA OneMoreStep ==
  ASSUME NEW newJob, NEW newAttempts, Steps(newJob, newAttempts),
         NEW j \in Jobs, NEW row, NEW history,
         JobStep(job[j], attempts[j], MaxAttempts[j], row, history)
  PROVE  Steps([newJob EXCEPT ![j] = row], [newAttempts EXCEPT ![j] = history])
BY DEF Steps

(* A transaction that lands takes its steps, another one takes none.       *)
LEMMA CommitSteps ==
  ASSUME TypeOK, NEW w, NEW outcome, NEW landed \in BOOLEAN, NEW newJob,
         NEW newAttempts, NEW expected,
         Commit(w, outcome, landed, newJob, newAttempts, expected),
         Steps(newJob, newAttempts)
  PROVE  Steps(job', attempts')
<1>1. CASE landed
  BY <1>1 DEF Commit
<1>2. CASE ~landed
  BY <1>2, StutterSteps DEF Commit
<1> QED
  BY <1>1, <1>2

(* A clock reading is a time.                                              *)
LEMMA ReadingIsTime ==
  ASSUME NEW now \in Readings
  PROVE  now \in Times
BY DEF Readings

(* enqueue inserts a row or changes nothing.                               *)
LEMMA EnqueueSteps ==
  ASSUME IInv, NEW w \in Workers, NEW j \in Jobs, NEW requested \in Requests,
         NEW now \in Readings, NEW o \in Outcomes, NEW landed \in BOOLEAN,
         Enqueue(w, j, requested, now, o, landed)
  PROVE  Steps(job', attempts')
<1> DEFINE available == IF requested = None THEN now ELSE requested
           row == QueuedRow(available, now)
<1>1. now \in Times /\ available \in Times
  BY ReadingIsTime, BoundAssumption DEF Times
<1>2. EnqueueEdge(job[j], attempts[j], row, attempts[j])
  BY <1>1 DEF Enqueue, EnqueueEdge
<1>3. JobStep(job[j], attempts[j], MaxAttempts[j], row, attempts[j])
  BY <1>2 DEF JobStep
<1> HIDE DEF row
<1>4. Steps([job EXCEPT ![j] = row], [attempts EXCEPT ![j] = attempts[j]])
  BY <1>3, StutterSteps, OneMoreStep DEF IInv
<1>5. [attempts EXCEPT ![j] = attempts[j]] = attempts
  BY DEF IInv, TypeOK
<1>6. Commit(w, o, landed, [job EXCEPT ![j] = row], attempts, NoCall)
  BY DEF Enqueue, row
<1> QED
  BY <1>4, <1>5, <1>6, CommitSteps DEF IInv

(* recover_expired, and a claim that finds no candidate, only sweep.       *)
LEMMA RecoverSteps ==
  ASSUME IInv, NEW w \in Workers, NEW now \in Readings, NEW n,
         NEW o \in Outcomes, NEW landed \in BOOLEAN,
         RecoverExpired(w, now, n, o, landed)
  PROVE  Steps(job', attempts')
<1>1. PICK R \in SUBSET Expired(now) :
        Commit(w, o, landed, SweptJobs(R, now), SweptAttempts(R, now), NoCall)
  BY DEF RecoverExpired
<1>2. Steps(SweptJobs(R, now), SweptAttempts(R, now))
  BY ReadingIsTime, SweepSteps
<1> QED
  BY <1>1, <1>2, CommitSteps DEF IInv

(* The leases a claim fences have all expired.                             *)
LEMMA ClaimSweepIsSweep ==
  ASSUME NEW now, NEW requested, NEW R \in ClaimSweep(now, requested)
  PROVE  R \in SUBSET Expired(now)
BY DEF ClaimSweep

(* A claim without a candidate only sweeps.                                *)
LEMMA ClaimNothingSteps ==
  ASSUME IInv, NEW w \in Workers, NEW requested, NEW now \in Readings,
         NEW o \in Outcomes, NEW landed \in BOOLEAN,
         ClaimNothing(w, requested, now, o, landed)
  PROVE  Steps(job', attempts')
<1>1. PICK R \in ClaimSweep(now, requested) :
        Commit(w, o, landed, SweptJobs(R, now), SweptAttempts(R, now), NoCall)
  BY DEF ClaimNothing
<1>2. Steps(SweptJobs(R, now), SweptAttempts(R, now))
  BY ReadingIsTime, SweepSteps, ClaimSweepIsSweep
<1> QED
  BY <1>1, <1>2, CommitSteps DEF IInv

(* The row and the attempt a claim writes are one edge from the job's.     *)
LEMMA ClaimEdgeOfClaim ==
  ASSUME IInv, NEW w \in Workers, NEW j \in Jobs, NEW requested,
         NEW now \in Readings, NEW d \in Leases, NEW o \in Outcomes,
         NEW landed \in BOOLEAN, Claim(w, j, requested, now, d, o, landed),
         NEW row, row = ClaimedRow(job[j], w, tokens, now, now + d)
  PROVE  ClaimEdge(job[j], attempts[j], row, Append(attempts[j], StartedAttempt(row)))
<1>1. job[j].status = "queued" /\ job[j].started = 0
  BY DEF Claim, FirstCandidate, Eligible
<1>2. now \in Times /\ now + d \in Times /\ now + d > now
  BY ReadingIsTime, BoundAssumption DEF Times, Claim
<1>3. tokens \in Nat /\ now >= job[j].updated
  BY DEF Claim, IInv, TypeOK
<1> QED
  BY <1>1, <1>2, <1>3 DEF ClaimEdge

(* A claim starts its candidate and sweeps other jobs.                     *)
LEMMA ClaimSteps ==
  ASSUME IInv, NEW w \in Workers, NEW j \in Jobs, NEW requested,
         NEW now \in Readings, NEW d \in Leases, NEW o \in Outcomes,
         NEW landed \in BOOLEAN, Claim(w, j, requested, now, d, o, landed)
  PROVE  Steps(job', attempts')
<1> DEFINE row == ClaimedRow(job[j], w, tokens, now, now + d)
           a == StartedAttempt(row)
           expected == [op |-> "claim", lease |-> LeaseOf(j, row), row |-> row,
                        attempt |-> a]
<1>1. PICK R \in ClaimSweep(now, requested) :
        Commit(w, o, landed,
               [SweptJobs(R, now) EXCEPT ![j] = row],
               [SweptAttempts(R, now) EXCEPT
                  ![j] = Append(SweptAttempts(R, now)[j], a)],
               expected)
  BY DEF Claim
<1>2. Steps(SweptJobs(R, now), SweptAttempts(R, now))
  BY ReadingIsTime, SweepSteps, ClaimSweepIsSweep
<1>3. SweptAttempts(R, now)[j] = attempts[j]
  <2>1. j \notin R
    BY ClaimSweepIsSweep DEF Claim, FirstCandidate, Eligible, Expired
  <2> QED
    BY <2>1 DEF SweptAttempts
<1>4. JobStep(job[j], attempts[j], MaxAttempts[j], row, Append(attempts[j], a))
  BY ClaimEdgeOfClaim DEF JobStep
<1> HIDE DEF row, a, expected
<1>5. Steps([SweptJobs(R, now) EXCEPT ![j] = row],
            [SweptAttempts(R, now) EXCEPT ![j] = Append(SweptAttempts(R, now)[j], a)])
  BY <1>2, <1>3, <1>4, OneMoreStep
<1> QED
  BY <1>1, <1>5, CommitSteps DEF IInv

(* A call under a lease rewrites the rows of its own job.                  *)
LEMMA OwnedWriteSteps ==
  ASSUME IInv, NEW w \in Workers, NEW op, NEW lease \in held[w], NEW now,
         NEW o \in Outcomes, NEW landed \in BOOLEAN, NEW row, NEW a,
         OwnedWrite(w, op, lease, now, o, landed, row, a),
         JobStep(job[lease.job], attempts[lease.job], MaxAttempts[lease.job],
                 row, [attempts[lease.job] EXCEPT ![job[lease.job].started] = a])
  PROVE  Steps(job', attempts')
<1> DEFINE j == lease.job
           history == [attempts[j] EXCEPT ![job[j].started] = a]
           expected == [op |-> op, lease |-> lease, row |-> row, attempt |-> a]
<1>1. j \in Jobs
  BY DEF IInv, TypeOK, Lease
<1>2. Commit(w, o, landed, [job EXCEPT ![j] = row],
             [attempts EXCEPT ![j] = history], expected)
  BY DEF OwnedWrite
<1>3. JobStep(job[j], attempts[j], MaxAttempts[j], row, history)
  OBVIOUS
<1> HIDE DEF j, history, expected
<1>4. Steps([job EXCEPT ![j] = row], [attempts EXCEPT ![j] = history])
  BY <1>1, <1>3, StutterSteps, OneMoreStep DEF IInv
<1> QED
  BY <1>2, <1>4, CommitSteps DEF IInv

(* What the compare-and-set guard of a call under a lease establishes.     *)
LEMMA OwnedFacts ==
  ASSUME IInv, NEW w \in Workers, NEW op, NEW lease \in held[w],
         NEW now \in Readings, NEW o, NEW landed, NEW row, NEW a,
         OwnedWrite(w, op, lease, now, o, landed, row, a)
  PROVE  LET j == lease.job
         IN  /\ j \in Jobs /\ lease \in Lease /\ now \in Times /\ now \in Nat
             /\ MaxAttempts[j] \in Nat \ {0}
             /\ RowOK(job[j], attempts[j], MaxAttempts[j])
             /\ job[j].status = "running" /\ job[j].started = 1
             /\ job[j] \in JobRow /\ attempts[j][1] \in AttemptRow
             /\ attempts[j] \in Seq(AttemptRow) /\ Len(attempts[j]) = 1
             /\ attempts[j][1].token = lease.token
             /\ job[j].expires \in Nat /\ job[j].updated \in Nat
             /\ job[j].expires \in Times
             /\ attempts[j][1].expires = job[j].expires
             /\ attempts[j][1].status = "running"
             /\ now >= job[j].updated /\ now < job[j].expires
<1> DEFINE j == lease.job
<1>1. lease \in Lease /\ j \in Jobs
  BY DEF IInv, TypeOK, Lease
<1>2. now \in Times /\ now \in Nat
  BY ReadingIsTime, BoundAssumption DEF Times
<1>3. MaxAttempts[j] \in Nat \ {0} /\ RowOK(job[j], attempts[j], MaxAttempts[j])
  BY <1>1, BudgetAssumption DEF IInv
<1>4. /\ job[j].status = "running" /\ job[j].token = lease.token
      /\ job[j].expires > now /\ now >= job[j].updated
  BY DEF OwnedWrite, ActiveOwned, NotRegressing
<1>5. /\ job[j] \in JobRow /\ job[j].started = 1
      /\ attempts[j][1] \in AttemptRow /\ attempts[j][1].token = job[j].token
      /\ attempts[j] \in Seq(AttemptRow) /\ Len(attempts[j]) = 1
      /\ attempts[j][1].expires = job[j].expires
      /\ attempts[j][1].status = "running"
      /\ job[j].expires \in Nat /\ job[j].updated \in Nat
  BY <1>3, <1>4, RunningFacts
<1>6. job[j].expires \in Times
  BY <1>5, NoneAssumption DEF JobRow, OptTime
<1> QED
  BY <1>1, <1>2, <1>3, <1>4, <1>5, <1>6

(* heartbeat, complete and fail move their job along their own edge.       *)
LEMMA HeartbeatEdge ==
  ASSUME IInv, NEW w \in Workers, NEW lease \in held[w],
         NEW now \in Readings, NEW d \in Leases, NEW o \in Outcomes,
         NEW landed \in BOOLEAN, Heartbeat(w, lease, now, d, o, landed)
  PROVE  LET j == lease.job
             deadline == Later(job[j].expires, now + d)
             row == RenewedRow(job[j], now, deadline)
             a == RenewedAttempt(CurrentAttempt(j), now, deadline)
         IN  /\ OwnedWrite(w, "heartbeat", lease, now, o, landed, row, a)
             /\ deadline \in Times
             /\ RenewEdge(job[j], attempts[j], row,
                          [attempts[j] EXCEPT ![job[j].started] = a])
<1> DEFINE j == lease.job
           deadline == Later(job[j].expires, now + d)
           row == RenewedRow(job[j], now, deadline)
           a == RenewedAttempt(CurrentAttempt(j), now, deadline)
<1>1. OwnedWrite(w, "heartbeat", lease, now, o, landed, row, a)
  BY DEF Heartbeat
<1>2. /\ now \in Times /\ now \in Nat /\ job[j].status = "running"
      /\ job[j].expires \in Nat /\ job[j].expires \in Times
      /\ now >= job[j].updated /\ now < job[j].expires
  BY <1>1, OwnedFacts
<1>3. now + d \in Times /\ now + d > now
  BY <1>2, BoundAssumption DEF Heartbeat, Times
<1>4. deadline \in Times /\ deadline > now /\ deadline >= job[j].expires
  BY <1>2, <1>3, BoundAssumption DEF Later, Times
<1>5. RenewEdge(job[j], attempts[j], row, [attempts[j] EXCEPT ![job[j].started] = a])
  <2> HIDE DEF deadline
  <2> QED
    BY <1>2, <1>4 DEF RenewEdge, CurrentAttempt
<1> QED
  BY <1>1, <1>4, <1>5

(* complete moves its job along the completion edge.                       *)
LEMMA CompleteEdgeOfComplete ==
  ASSUME IInv, NEW w \in Workers, NEW lease \in held[w],
         NEW now \in Readings, NEW result \in OptResult, NEW o \in Outcomes,
         NEW landed \in BOOLEAN, Complete(w, lease, now, result, o, landed)
  PROVE  LET j == lease.job
             row == CompletedRow(job[j], now, result)
             a == CompletedAttempt(CurrentAttempt(j), now, result)
         IN  /\ OwnedWrite(w, "complete", lease, now, o, landed, row, a)
             /\ CompleteEdge(job[j], attempts[j], row,
                             [attempts[j] EXCEPT ![job[j].started] = a])
<1> DEFINE j == lease.job
           row == CompletedRow(job[j], now, result)
           a == CompletedAttempt(CurrentAttempt(j), now, result)
<1>1. OwnedWrite(w, "complete", lease, now, o, landed, row, a)
  BY DEF Complete
<1>2. /\ now \in Times /\ job[j].status = "running"
      /\ now >= job[j].updated /\ now < job[j].expires
  BY <1>1, OwnedFacts
<1>3. CompleteEdge(job[j], attempts[j], row, [attempts[j] EXCEPT ![job[j].started] = a])
  BY <1>2 DEF CompleteEdge, CurrentAttempt
<1> QED
  BY <1>1, <1>3

(* fail moves its job along the failure edge.                              *)
LEMMA FailEdgeOfFail ==
  ASSUME IInv, NEW w \in Workers, NEW lease \in held[w],
         NEW now \in Readings, NEW retry \in Retries, NEW o \in Outcomes,
         NEW landed \in BOOLEAN, Fail(w, lease, now, retry, o, landed)
  PROVE  LET j == lease.job
             row == AfterAttempt(job[j], MaxAttempts[j], now, Later(now, retry), "failure")
             a == EndedAttempt(CurrentAttempt(j), "failed", now, "failure")
         IN  /\ OwnedWrite(w, "fail", lease, now, o, landed, row, a)
             /\ Later(now, retry) \in Times
             /\ FailEdge(job[j], attempts[j], MaxAttempts[j], row,
                         [attempts[j] EXCEPT ![job[j].started] = a])
<1> DEFINE j == lease.job
           available == Later(now, retry)
           row == AfterAttempt(job[j], MaxAttempts[j], now, available, "failure")
           a == EndedAttempt(CurrentAttempt(j), "failed", now, "failure")
<1>1. OwnedWrite(w, "fail", lease, now, o, landed, row, a)
  BY DEF Fail
<1>2. /\ now \in Times /\ job[j].status = "running"
      /\ now >= job[j].updated /\ now < job[j].expires
  BY <1>1, OwnedFacts
<1>3. available \in Times
  BY <1>2, BoundAssumption DEF Later, Times
<1>4. FailEdge(job[j], attempts[j], MaxAttempts[j], row,
               [attempts[j] EXCEPT ![job[j].started] = a])
  <2> HIDE DEF available
  <2> QED
    BY <1>2, <1>3 DEF FailEdge, CurrentAttempt
<1> QED
  BY <1>1, <1>3, <1>4

(* Every call under a lease moves each job along one edge.                 *)
LEMMA LeaseCallSteps ==
  ASSUME IInv, NEW w \in Workers, LeaseCall(w)
  PROVE  Steps(job', attempts')
<1>1. PICK lease \in held[w], now \in Readings, o \in Outcomes, landed \in BOOLEAN :
        \/ \E d \in Leases : Heartbeat(w, lease, now, d, o, landed)
        \/ \E r \in OptResult : Complete(w, lease, now, r, o, landed)
        \/ \E t \in Retries : Fail(w, lease, now, t, o, landed)
  BY DEF LeaseCall
<1>2. CASE \E d \in Leases : Heartbeat(w, lease, now, d, o, landed)
  <2>1. PICK d \in Leases : Heartbeat(w, lease, now, d, o, landed)
    BY <1>2
  <2> DEFINE j == lease.job
             deadline == Later(job[j].expires, now + d)
             row == RenewedRow(job[j], now, deadline)
             a == RenewedAttempt(CurrentAttempt(j), now, deadline)
  <2>2. OwnedWrite(w, "heartbeat", lease, now, o, landed, row, a)
    BY <2>1, HeartbeatEdge
  <2>3. RenewEdge(job[j], attempts[j], row, [attempts[j] EXCEPT ![job[j].started] = a])
    BY <2>1, HeartbeatEdge
  <2>4. JobStep(job[j], attempts[j], MaxAttempts[j], row,
                [attempts[j] EXCEPT ![job[j].started] = a])
    BY <2>3 DEF JobStep
  <2> HIDE DEF row, a
  <2> QED
    BY <2>2, <2>4, OwnedWriteSteps
<1>3. CASE \E r \in OptResult : Complete(w, lease, now, r, o, landed)
  <2>1. PICK r \in OptResult : Complete(w, lease, now, r, o, landed)
    BY <1>3
  <2> DEFINE j == lease.job
             row == CompletedRow(job[j], now, r)
             a == CompletedAttempt(CurrentAttempt(j), now, r)
  <2>2. OwnedWrite(w, "complete", lease, now, o, landed, row, a)
    BY <2>1, CompleteEdgeOfComplete
  <2>3. CompleteEdge(job[j], attempts[j], row, [attempts[j] EXCEPT ![job[j].started] = a])
    BY <2>1, CompleteEdgeOfComplete
  <2>4. JobStep(job[j], attempts[j], MaxAttempts[j], row,
                [attempts[j] EXCEPT ![job[j].started] = a])
    BY <2>3 DEF JobStep
  <2> HIDE DEF row, a
  <2> QED
    BY <2>2, <2>4, OwnedWriteSteps
<1>4. CASE \E t \in Retries : Fail(w, lease, now, t, o, landed)
  <2>1. PICK t \in Retries : Fail(w, lease, now, t, o, landed)
    BY <1>4
  <2> DEFINE j == lease.job
             row == AfterAttempt(job[j], MaxAttempts[j], now, Later(now, t), "failure")
             a == EndedAttempt(CurrentAttempt(j), "failed", now, "failure")
  <2>2. OwnedWrite(w, "fail", lease, now, o, landed, row, a)
    BY <2>1, FailEdgeOfFail
  <2>3. FailEdge(job[j], attempts[j], MaxAttempts[j], row,
                 [attempts[j] EXCEPT ![job[j].started] = a])
    BY <2>1, FailEdgeOfFail
  <2>4. JobStep(job[j], attempts[j], MaxAttempts[j], row,
                [attempts[j] EXCEPT ![job[j].started] = a])
    BY <2>3 DEF JobStep
  <2> HIDE DEF row, a
  <2> QED
    BY <2>2, <2>4, OwnedWriteSteps
<1> QED
  BY <1>1, <1>2, <1>3, <1>4

(* Every step of the store moves each job along one edge.                  *)
LEMMA NextSteps ==
  ASSUME IInv, [Next]_vars
  PROVE  Steps(job', attempts')
<1>1. ASSUME NEW w \in Workers, EnqueueCall(w) PROVE Steps(job', attempts')
  BY <1>1, EnqueueSteps DEF EnqueueCall
<1>2. ASSUME NEW w \in Workers, ClaimCall(w) PROVE Steps(job', attempts')
  BY <1>2, ClaimSteps, ClaimNothingSteps DEF ClaimCall
<1>3. ASSUME NEW w \in Workers, LeaseCall(w) PROVE Steps(job', attempts')
  BY <1>3, LeaseCallSteps
<1>4. ASSUME NEW w \in Workers, RecoverCall(w) PROVE Steps(job', attempts')
  BY <1>4, RecoverSteps DEF RecoverCall
<1>5. ASSUME UNCHANGED <<job, attempts>> PROVE Steps(job', attempts')
  BY <1>5, StutterSteps DEF IInv
<1> QED
  BY <1>1, <1>2, <1>3, <1>4, <1>5
  DEF Next, WorkerStep, ReconcileMatch, ReconcileAmbiguous, Reopen, Crash,
      Tick, vars

-----------------------------------------------------------------------------
(* What a step does to processes, calls and reports. *)

NewsOK ==
  /\ clock' \in Times
  /\ tokens' \in Nat
  /\ store' \in [Workers -> {"open", "poisoned"}]
  /\ held' \in [Workers -> SUBSET Lease]
  /\ call' \in [Workers -> Call \cup {NoCall}]
  /\ \A w \in Workers : CallOK(call'[w])
  /\ told' \subseteq Report
  /\ \A r \in told' \ told : ReportOK(r, job'[r.job], attempts'[r.job])

(* The caller's side of a transaction.                                     *)
LEMMA CommitNews ==
  ASSUME IInv, NEW w \in Workers, NEW o \in Outcomes, NEW landed \in BOOLEAN,
         NEW newJob, NEW newAttempts, NEW expected,
         Commit(w, o, landed, newJob, newAttempts, expected),
         o = "lost" => expected \in Call /\ CallOK(expected)
  PROVE  /\ store' \in [Workers -> {"open", "poisoned"}]
         /\ call' \in [Workers -> Call \cup {NoCall}]
         /\ \A u \in Workers : CallOK(call'[u])
<1>1. store' \in [Workers -> {"open", "poisoned"}]
  BY DEF Commit, IInv, TypeOK
<1>2. CASE o = "lost"
  BY <1>1, <1>2 DEF Commit, IInv, TypeOK
<1>3. CASE o # "lost"
  BY <1>1, <1>3 DEF Commit, IInv, TypeOK
<1> QED
  BY <1>2, <1>3

(* A write whose call tells its caller nothing.                            *)
LEMMA QuietNews ==
  ASSUME IInv, NEW w \in Workers, NEW o \in Outcomes, NEW landed \in BOOLEAN,
         NEW newJob, NEW newAttempts, o # "lost",
         Commit(w, o, landed, newJob, newAttempts, NoCall),
         UNCHANGED <<clock, tokens, held, told>>
  PROVE  NewsOK
<1>1. /\ store' \in [Workers -> {"open", "poisoned"}]
      /\ call' \in [Workers -> Call \cup {NoCall}]
      /\ \A u \in Workers : CallOK(call'[u])
  BY CommitNews
<1> QED
  BY <1>1 DEF NewsOK, IInv, TypeOK

(* A claim tells its caller about a lease that the rows bear out.          *)
LEMMA ClaimNews ==
  ASSUME IInv, NEW w \in Workers, NEW j \in Jobs, NEW requested,
         NEW now \in Readings, NEW d \in Leases, NEW o \in Outcomes,
         NEW landed \in BOOLEAN, Claim(w, j, requested, now, d, o, landed)
  PROVE  NewsOK
<1> DEFINE row == ClaimedRow(job[j], w, tokens, now, now + d)
           a == StartedAttempt(row)
           lease == LeaseOf(j, row)
           expected == [op |-> "claim", lease |-> lease, row |-> row, attempt |-> a]
           report == [what |-> "leased", job |-> lease.job, token |-> lease.token,
                      until |-> lease.expires, result |-> None]
<1>1. PICK R \in ClaimSweep(now, requested) :
        Commit(w, o, landed,
               [SweptJobs(R, now) EXCEPT ![j] = row],
               [SweptAttempts(R, now) EXCEPT ![j] = Append(SweptAttempts(R, now)[j], a)],
               expected)
  BY DEF Claim
<1>2. now \in Times /\ now + d \in Times /\ tokens \in Nat /\ job[j] \in JobRow
  BY ReadingIsTime, BoundAssumption DEF Times, Claim, IInv, TypeOK
<1>3. /\ row \in JobRow /\ row.owner = w /\ row.token = tokens
      /\ row.expires = now + d /\ row.heartbeat = now
  BY <1>2, ClaimedColumns
<1>4. ClaimEdge(job[j], attempts[j], row, Append(attempts[j], a))
  BY ClaimEdgeOfClaim
<1>5. /\ RowOK(row, Append(attempts[j], a), MaxAttempts[j])
      /\ row.started = 1 /\ Append(attempts[j], a)[1] = a
  <2>1. MaxAttempts[j] \in Nat \ {0} /\ RowOK(job[j], attempts[j], MaxAttempts[j])
    BY BudgetAssumption DEF IInv
  <2> DEFINE h == Append(attempts[j], a)
  <2>2. ClaimEdge(job[j], attempts[j], row, h)
    BY <1>4
  <2> HIDE DEF row, a, h
  <2>3. RowOK(row, h, MaxAttempts[j]) /\ row.started = 1 /\ h[1] = StartedAttempt(row)
    BY <2>1, <2>2, ClaimKeepsOK
  <2> QED
    BY <2>3 DEF a, h
<1>6. a \in AttemptRow /\ a.token = tokens /\ a.expires = now + d
  <2> HIDE DEF row
  <2>1. a.token = tokens /\ a.expires = now + d
    BY <1>3 DEF StartedAttempt
  <2>2. a \in AttemptRow
    <3> DEFINE h == Append(attempts[j], a)
    <3>1. RowOK(row, h, MaxAttempts[j]) /\ row.started # 0 /\ h[1] = a
      BY <1>5
    <3>2. MaxAttempts[j] \in Nat \ {0}
      BY BudgetAssumption
    <3> HIDE DEF a, h
    <3>3. h[1] \in AttemptRow
      BY <3>1, <3>2, StartedShape
    <3> QED
      BY <3>1, <3>3
  <2> QED
    BY <2>1, <2>2
<1>7. /\ lease \in Lease /\ lease.job = j /\ lease.token = tokens
      /\ lease.expires = now + d
  <2> HIDE DEF row
  <2> QED
    BY <1>2, <1>3 DEF LeaseOf, Lease, JobRow
<1> HIDE DEF row, a, lease
<1>8. expected \in Call /\ CallOK(expected)
  BY <1>2, <1>3, <1>6, <1>7 DEF Call, CallOK
<1> HIDE DEF expected
<1>9. /\ store' \in [Workers -> {"open", "poisoned"}]
      /\ call' \in [Workers -> Call \cup {NoCall}]
      /\ \A u \in Workers : CallOK(call'[u])
  BY <1>1, <1>8, CommitNews
<1>10. clock' \in Times /\ tokens' \in Nat
  BY DEF Claim, IInv, TypeOK
<1>11. CASE o # "acknowledged"
  BY <1>9, <1>10, <1>11 DEF Claim, NewsOK, IInv, TypeOK
<1>12. CASE o = "acknowledged"
  <2>1. TellLease(w, lease)
    BY <1>12 DEF Claim, lease, row
  <2>2. held' \in [Workers -> SUBSET Lease]
    BY <1>7, <2>1 DEF TellLease, IInv, TypeOK
  <2>3. report \in Report /\ told' = told \cup {report}
    BY <1>2, <1>7, <2>1 DEF TellLease, Report, OptTime, OptResult
  <2>4. job'[j] = row /\ attempts'[j] = Append(attempts[j], a)
    <3>1. landed
      BY <1>1, <1>12 DEF Commit
    <3>2. j \notin R
      BY ClaimSweepIsSweep DEF Claim, FirstCandidate, Eligible, Expired
    <3> QED
      BY <1>1, <3>1, <3>2 DEF Commit, SweptJobs, SweptAttempts
  <2>5. ReportOK(report, job'[j], attempts'[j])
    <3>1. report.what = "leased" /\ report.token = tokens /\ report.until = now + d
      BY <1>7
    <3> HIDE DEF report
    <3>2. a.expires >= report.until
      BY <1>2, <1>6, <3>1, BoundAssumption DEF Times
    <3> QED
      BY <1>2, <1>5, <1>6, <2>4, <3>1, <3>2 DEF ReportOK
  <2>6. report.job = j
    BY <1>7
  <2> HIDE DEF report
  <2> QED
    BY <1>9, <1>10, <2>2, <2>3, <2>5, <2>6 DEF NewsOK, IInv, TypeOK
<1> QED
  BY <1>11, <1>12

(* A call under a lease tells its caller what its own transaction wrote.   *)
LEMMA OwnedNews ==
  ASSUME IInv, NEW w \in Workers, NEW op \in {"heartbeat", "complete", "fail"},
         NEW lease \in held[w], NEW now \in Readings, NEW o \in Outcomes,
         NEW landed \in BOOLEAN, NEW row \in JobRow, NEW a \in AttemptRow,
         OwnedWrite(w, op, lease, now, o, landed, row, a),
         CallOK([op |-> op, lease |-> lease, row |-> row, attempt |-> a]),
         NEW report \in Report, report.job = lease.job,
         ReportOK(report, row,
                  [attempts[lease.job] EXCEPT ![job[lease.job].started] = a]),
         o = "acknowledged" => told' = told \cup {report},
         o # "acknowledged" => told' = told
  PROVE  NewsOK
<1> DEFINE j == lease.job
           expected == [op |-> op, lease |-> lease, row |-> row, attempt |-> a]
           history == [attempts[j] EXCEPT ![job[j].started] = a]
<1>1. lease \in Lease /\ j \in Jobs
  BY DEF IInv, TypeOK, Lease
<1>2. expected \in Call
  BY <1>1 DEF Call
<1>3. Commit(w, o, landed, [job EXCEPT ![j] = row],
             [attempts EXCEPT ![j] = history], expected)
  BY DEF OwnedWrite
<1>4. CallOK(expected) /\ ReportOK(report, row, history) /\ report.job = j
  OBVIOUS
<1>5. clock' \in Times /\ tokens' \in Nat /\ held' \in [Workers -> SUBSET Lease]
  BY DEF OwnedWrite, IInv, TypeOK
<1> HIDE DEF expected, history, j
<1>6. /\ store' \in [Workers -> {"open", "poisoned"}]
      /\ call' \in [Workers -> Call \cup {NoCall}]
      /\ \A u \in Workers : CallOK(call'[u])
  BY <1>2, <1>3, <1>4, CommitNews
<1>7. CASE o # "acknowledged"
  BY <1>5, <1>6, <1>7 DEF NewsOK, IInv, TypeOK
<1>8. CASE o = "acknowledged"
  <2>1. job'[j] = row /\ attempts'[j] = history
    BY <1>1, <1>3, <1>8 DEF Commit, IInv, TypeOK
  <2> QED
    BY <1>4, <1>5, <1>6, <1>8, <2>1 DEF NewsOK, IInv, TypeOK
<1> QED
  BY <1>7, <1>8

(* A renewed deadline told to its owner is in the rows.                    *)
LEMMA HeartbeatNews ==
  ASSUME IInv, NEW w \in Workers, NEW lease \in held[w],
         NEW now \in Readings, NEW d \in Leases, NEW o \in Outcomes,
         NEW landed \in BOOLEAN, Heartbeat(w, lease, now, d, o, landed)
  PROVE  NewsOK
<1> DEFINE j == lease.job
           deadline == Later(job[j].expires, now + d)
           row == RenewedRow(job[j], now, deadline)
           old == CurrentAttempt(j)
           a == RenewedAttempt(old, now, deadline)
           history == [attempts[j] EXCEPT ![job[j].started] = a]
           report == [what |-> "leased", job |-> lease.job, token |-> lease.token,
                      until |-> deadline, result |-> None]
<1>1. OwnedWrite(w, "heartbeat", lease, now, o, landed, row, a) /\ deadline \in Times
  BY HeartbeatEdge
<1>2. /\ j \in Jobs /\ lease \in Lease /\ now \in Times
      /\ job[j] \in JobRow /\ job[j].started = 1
      /\ attempts[j][1] \in AttemptRow /\ attempts[j][1].token = lease.token
      /\ attempts[j] \in Seq(AttemptRow) /\ Len(attempts[j]) = 1
  BY <1>1, OwnedFacts
<1>3. old \in AttemptRow /\ old.token = lease.token
  BY <1>2 DEF CurrentAttempt
<1>4. IF o = "acknowledged" THEN told' = told \cup {report} ELSE told' = told
  BY DEF Heartbeat, Tell
<1> HIDE DEF old, deadline
<1>5. row \in JobRow /\ row.started = 1 /\ row.expires = deadline
  BY <1>1, <1>2, RenewedColumns
<1>6. a \in AttemptRow /\ a.token = lease.token /\ a.expires = deadline
  BY <1>1, <1>2, <1>3 DEF RenewedAttempt, AttemptRow
<1>7. report \in Report
  BY <1>1, <1>2 DEF Report, Lease, OptTime, OptResult
<1> HIDE DEF row, a
<1>8. history[1] = a
  BY <1>2, <1>6, ReplaceOnly
<1> HIDE DEF history
<1>9. ReportOK(report, row, history)
  <2>1. deadline \in Nat
    BY <1>1, BoundAssumption DEF Times
  <2> QED
    BY <1>1, <1>5, <1>6, <1>8, <2>1 DEF ReportOK
<1>10. CallOK([op |-> "heartbeat", lease |-> lease, row |-> row, attempt |-> a])
  BY <1>1, <1>5, <1>6 DEF CallOK
<1>11. report.job = j
  OBVIOUS
<1> HIDE DEF report
<1> QED
  BY <1>1, <1>4, <1>5, <1>6, <1>7, <1>9, <1>10, <1>11, OwnedNews DEF history

(* A completion told to its caller is in the rows.                         *)
LEMMA CompleteNews ==
  ASSUME IInv, NEW w \in Workers, NEW lease \in held[w],
         NEW now \in Readings, NEW r \in OptResult, NEW o \in Outcomes,
         NEW landed \in BOOLEAN, Complete(w, lease, now, r, o, landed)
  PROVE  NewsOK
<1> DEFINE j == lease.job
           row == CompletedRow(job[j], now, r)
           old == CurrentAttempt(j)
           a == CompletedAttempt(old, now, r)
           history == [attempts[j] EXCEPT ![job[j].started] = a]
           report == [what |-> "completed", job |-> lease.job, token |-> lease.token,
                      until |-> None, result |-> r]
<1>1. OwnedWrite(w, "complete", lease, now, o, landed, row, a)
  BY CompleteEdgeOfComplete
<1>2. /\ j \in Jobs /\ lease \in Lease /\ now \in Times
      /\ job[j] \in JobRow /\ job[j].started = 1
      /\ attempts[j][1] \in AttemptRow /\ attempts[j][1].token = lease.token
      /\ attempts[j] \in Seq(AttemptRow) /\ Len(attempts[j]) = 1
  BY <1>1, OwnedFacts
<1>3. old \in AttemptRow /\ old.token = lease.token
  BY <1>2 DEF CurrentAttempt
<1>4. IF o = "acknowledged" THEN told' = told \cup {report} ELSE told' = told
  BY DEF Complete, Tell
<1> HIDE DEF old
<1>5. /\ row \in JobRow /\ row.started = 1 /\ row.status = "succeeded"
      /\ row.result = r
  BY <1>2, CompletedColumns
<1>6. a \in AttemptRow /\ a.token = lease.token
  BY <1>2, <1>3 DEF CompletedAttempt, AttemptRow, AttemptStatuses, OptTime
<1>7. report \in Report
  BY <1>2 DEF Report, Lease, OptTime
<1> HIDE DEF row, a
<1>8. history[1] = a
  BY <1>2, <1>6, ReplaceOnly
<1> HIDE DEF history
<1>9. ReportOK(report, row, history)
  BY <1>5, <1>6, <1>8 DEF ReportOK
<1>10. CallOK([op |-> "complete", lease |-> lease, row |-> row, attempt |-> a])
  BY <1>5 DEF CallOK
<1>11. report.job = j
  OBVIOUS
<1> HIDE DEF report
<1> QED
  BY <1>1, <1>4, <1>5, <1>6, <1>7, <1>9, <1>10, <1>11, OwnedNews DEF history

(* A failure told to its caller is in the rows.                            *)
LEMMA FailNews ==
  ASSUME IInv, NEW w \in Workers, NEW lease \in held[w],
         NEW now \in Readings, NEW t \in Retries, NEW o \in Outcomes,
         NEW landed \in BOOLEAN, Fail(w, lease, now, t, o, landed)
  PROVE  NewsOK
<1> DEFINE j == lease.job
           available == Later(now, t)
           row == AfterAttempt(job[j], MaxAttempts[j], now, available, "failure")
           old == CurrentAttempt(j)
           a == EndedAttempt(old, "failed", now, "failure")
           history == [attempts[j] EXCEPT ![job[j].started] = a]
           report == [what |-> "failed", job |-> lease.job, token |-> lease.token,
                      until |-> None, result |-> None]
<1>1. OwnedWrite(w, "fail", lease, now, o, landed, row, a) /\ available \in Times
  BY FailEdgeOfFail
<1>2. /\ j \in Jobs /\ lease \in Lease /\ now \in Times
      /\ MaxAttempts[j] \in Nat
      /\ job[j] \in JobRow /\ job[j].started = 1
      /\ attempts[j][1] \in AttemptRow /\ attempts[j][1].token = lease.token
      /\ attempts[j] \in Seq(AttemptRow) /\ Len(attempts[j]) = 1
  BY <1>1, OwnedFacts
<1>3. old \in AttemptRow /\ old.token = lease.token
  BY <1>2 DEF CurrentAttempt
<1>4. IF o = "acknowledged" THEN told' = told \cup {report} ELSE told' = told
  BY DEF Fail, Tell
<1> HIDE DEF old, available
<1>5. row \in JobRow /\ row.started = 1 /\ row.status \in {"queued", "failed"}
  <2>1. "failure" \in Errors
    BY DEF Errors
  <2> HIDE DEF row
  <2>2. /\ row \in JobRow /\ row.started = job[j].started
        /\ job[j].started >= MaxAttempts[j] => row.status = "failed"
        /\ ~(job[j].started >= MaxAttempts[j]) => row.status = "queued"
    BY <1>1, <1>2, <2>1, AfterAttemptColumns DEF row
  <2>3. row.started = 1
    BY <1>2, <2>2
  <2>4. row.status = "failed" \/ row.status = "queued"
    BY <2>2, Zenon
  <2> QED
    BY <2>2, <2>3, <2>4
<1>6. a \in AttemptRow /\ a.token = lease.token /\ a.status = "failed"
  BY <1>2, <1>3 DEF EndedAttempt, AttemptRow, AttemptStatuses, OptTime, Errors
<1>7. report \in Report
  BY <1>2 DEF Report, Lease, OptTime, OptResult
<1> HIDE DEF row, a
<1>8. history[1] = a
  BY <1>2, <1>6, ReplaceOnly
<1> HIDE DEF history
<1>9. ReportOK(report, row, history)
  BY <1>5, <1>6, <1>8 DEF ReportOK
<1>10. CallOK([op |-> "fail", lease |-> lease, row |-> row, attempt |-> a])
  BY <1>5, <1>6 DEF CallOK
<1>11. report.job = j
  OBVIOUS
<1> HIDE DEF report
<1> QED
  BY <1>1, <1>4, <1>5, <1>6, <1>7, <1>9, <1>10, <1>11, OwnedNews DEF history

(* A matching readback tells the caller only what the rows bear out.       *)
LEMMA ReconcileMatchNews ==
  ASSUME IInv, NEW w \in Workers, ReconcileMatch(w)
  PROVE  NewsOK
<1> DEFINE c == call[w]
           j == c.lease.job
           a == attempts[j][1]
           report(what, until, result) ==
             [what |-> what, job |-> c.lease.job, token |-> c.lease.token,
              until |-> until, result |-> result]
<1>1. c \in Call /\ CallOK(c) /\ Matches(c)
  BY DEF ReconcileMatch, IInv, TypeOK
<1>2. c.lease \in Lease /\ j \in Jobs /\ c.row \in JobRow /\ c.attempt \in AttemptRow
  BY <1>1 DEF Call, Lease
<1>3. job[j].started > 0 /\ RowOK(job[j], attempts[j], MaxAttempts[j])
  BY <1>1, <1>2 DEF Matches, BoundTo, IInv
<1>4. job[j].started = 1 /\ a \in AttemptRow /\ CurrentAttempt(j) = a
  <2>1. MaxAttempts[j] \in Nat \ {0}
    BY <1>2, BudgetAssumption
  <2>2. job[j].started # 0
    BY <1>3
  <2>3. job[j].started = 1 /\ a \in AttemptRow
    BY <1>3, <2>1, <2>2, StartedShape
  <2> QED
    BY <2>3 DEF CurrentAttempt
<1>5. a.token = c.lease.token
  BY <1>1, <1>4 DEF Matches, BoundTo
<1>6. /\ clock' \in Times /\ tokens' \in Nat /\ UNCHANGED <<job, attempts>>
      /\ store' \in [Workers -> {"open", "poisoned"}]
      /\ call' \in [Workers -> Call \cup {NoCall}]
      /\ \A u \in Workers : CallOK(call'[u])
  BY DEF ReconcileMatch, IInv, TypeOK, CallOK, NoCall
<1>7. held' \in [Workers -> SUBSET Lease]
  <2>1. held' = held \/ held' = [held EXCEPT ![w] = @ \cup {c.lease}]
    BY <1>1 DEF ReconcileMatch, TellLease, Call
  <2> QED
    BY <1>2, <2>1 DEF IInv, TypeOK
<1>8. SUFFICES ASSUME NEW r \in Report, told' = told \cup {r}, r.job = j,
                      ReportOK(r, job[j], attempts[j])
               PROVE  NewsOK
  <2>1. CASE c.op \in {"claim", "heartbeat"}
    <3> DEFINE r == report("leased", c.row.expires, None)
    <3>1. /\ c.row.expires \in Times
          /\ c.op = "claim" => c.row.expires = c.lease.expires
          /\ a.expires = c.row.expires
      BY <1>1, <1>4, <2>1 DEF Matches, CallOK
    <3>2. told' = told \cup {r}
      BY <2>1, <3>1 DEF ReconcileMatch, TellLease, Tell
    <3>3. r \in Report
      BY <1>2, <3>1 DEF Report, Lease, OptTime, OptResult
    <3>4. ReportOK(r, job[j], attempts[j])
      <4>1. c.row.expires \in Nat
        BY <3>1, BoundAssumption DEF Times
      <4>2. a.expires >= c.row.expires
        BY <3>1, <4>1
      <4> QED
        BY <1>4, <1>5, <3>1, <4>2 DEF ReportOK
    <3> QED
      BY <1>8, <3>2, <3>3, <3>4
  <2>2. CASE c.op = "complete"
    <3> DEFINE r == report("completed", None, c.row.result)
    <3>1. told' = told \cup {r}
      BY <2>2 DEF ReconcileMatch, Tell
    <3>2. r \in Report
      BY <1>2 DEF Report, Lease, OptTime, JobRow
    <3>3. job[j].status = "succeeded" /\ job[j].result = c.row.result
      BY <1>1, <2>2 DEF Matches, CallOK
    <3>4. ReportOK(r, job[j], attempts[j])
      BY <1>4, <1>5, <3>3 DEF ReportOK
    <3> QED
      BY <1>8, <3>1, <3>2, <3>4
  <2>3. CASE c.op = "fail"
    <3> DEFINE r == report("failed", None, None)
    <3>1. told' = told \cup {r}
      BY <2>3 DEF ReconcileMatch, Tell
    <3>2. r \in Report
      BY <1>2 DEF Report, Lease, OptTime, OptResult
    <3>3. job[j].status \in {"queued", "failed"} /\ a.status = "failed"
      BY <1>1, <1>4, <2>3 DEF Matches, CallOK
    <3>4. ReportOK(r, job[j], attempts[j])
      BY <1>4, <1>5, <3>3 DEF ReportOK
    <3> QED
      BY <1>8, <3>1, <3>2, <3>4
  <2> QED
    BY <1>1, <2>1, <2>2, <2>3 DEF Call
<1> QED
  BY <1>6, <1>7, <1>8 DEF NewsOK, IInv, TypeOK

(* Every step leaves the callers with what the rows bear out.              *)
LEMMA NextNews ==
  ASSUME IInv, [Next]_vars
  PROVE  NewsOK
<1>1. ASSUME NEW w \in Workers, EnqueueCall(w) PROVE NewsOK
  BY <1>1, QuietNews DEF EnqueueCall, Enqueue
<1>2. ASSUME NEW w \in Workers, ClaimCall(w) PROVE NewsOK
  <2>1. PICK req \in Jobs \cup {None}, now \in Readings, o \in Outcomes,
             landed \in BOOLEAN :
          \/ ClaimNothing(w, req, now, o, landed)
          \/ \E j \in Jobs, d \in Leases : Claim(w, j, req, now, d, o, landed)
    BY <1>2 DEF ClaimCall
  <2>2. CASE ClaimNothing(w, req, now, o, landed)
    BY <2>2, QuietNews DEF ClaimNothing
  <2>3. CASE \E j \in Jobs, d \in Leases : Claim(w, j, req, now, d, o, landed)
    BY <2>3, ClaimNews
  <2> QED
    BY <2>1, <2>2, <2>3
<1>3. ASSUME NEW w \in Workers, LeaseCall(w) PROVE NewsOK
  BY <1>3, HeartbeatNews, CompleteNews, FailNews DEF LeaseCall
<1>4. ASSUME NEW w \in Workers, RecoverCall(w) PROVE NewsOK
  BY <1>4, QuietNews DEF RecoverCall, RecoverExpired
<1>5. ASSUME NEW w \in Workers, ReconcileMatch(w) PROVE NewsOK
  BY <1>5, ReconcileMatchNews
<1>6. ASSUME NEW w \in Workers, NEW p \in BOOLEAN, ReconcileAmbiguous(w, p)
      PROVE  NewsOK
  BY <1>6 DEF ReconcileAmbiguous, NewsOK, IInv, TypeOK, CallOK, NoCall
<1>7. ASSUME NEW w \in Workers, Reopen(w) PROVE NewsOK
  BY <1>7 DEF Reopen, NewsOK, IInv, TypeOK
<1>8. ASSUME NEW w \in Workers, Crash(w) PROVE NewsOK
  BY <1>8 DEF Crash, NewsOK, IInv, TypeOK, CallOK, NoCall
<1>9. ASSUME Tick PROVE NewsOK
  BY <1>9, BoundAssumption DEF Tick, NewsOK, IInv, TypeOK, Times
<1>10. ASSUME UNCHANGED vars PROVE NewsOK
  BY <1>10 DEF vars, NewsOK, IInv, TypeOK
<1> QED
  BY <1>1, <1>2, <1>3, <1>4, <1>5, <1>6, <1>7, <1>8, <1>9, <1>10
  DEF Next, WorkerStep

-----------------------------------------------------------------------------
(* The theorems. *)

(* The inductive invariant holds initially.                                *)
LEMMA InitOK == Init => IInv
<1> SUFFICES ASSUME Init PROVE IInv
  OBVIOUS
<1>1. NoJob \in JobRow /\ NoJob.started = 0 /\ NoJob.epoch = 0 /\ NoJob.status = "absent"
  BY BoundAssumption
  DEF NoJob, QueuedRow, JobRow, JobStatuses, Times, OptTime, OptToken, OptResult
<1>2. ASSUME NEW j \in Jobs PROVE RowOK(NoJob, <<>>, MaxAttempts[j])
  <2>1. JobRowValid(NoJob, MaxAttempts[j])
    BY BudgetAssumption DEF NoJob, QueuedRow, JobRowValid
  <2>2. HistoryValid(NoJob, <<>>)
    BY DEF HistoryValid
  <2>3. SnapshotValid(NoJob, <<>>)
    BY <1>1 DEF SnapshotValid
  <2> QED
    BY <1>1, <2>1, <2>2, <2>3 DEF RowOK
<1>3. TypeOK
  BY <1>1, BoundAssumption DEF Init, TypeOK, Times
<1>4. \A w \in Workers : CallOK(call[w])
  BY DEF Init, CallOK, NoCall
<1> QED
  BY <1>2, <1>3, <1>4 DEF Init, IInv

(* Every step keeps the inductive invariant.                               *)
LEMMA NextOK == IInv /\ [Next]_vars => IInv'
<1> SUFFICES ASSUME IInv, [Next]_vars PROVE IInv'
  OBVIOUS
<1>1. Steps(job', attempts') /\ NewsOK
  BY NextSteps, NextNews
<1>2. ASSUME NEW j \in Jobs
      PROVE  /\ JobStep(job[j], attempts[j], MaxAttempts[j], job'[j], attempts'[j])
             /\ RowOK(job'[j], attempts'[j], MaxAttempts[j])
             /\ MaxAttempts[j] \in Nat \ {0}
             /\ RowOK(job[j], attempts[j], MaxAttempts[j])
  BY <1>1, JobStepKeepsOK, BudgetAssumption DEF Steps, IInv
<1>3. job' \in [Jobs -> JobRow] /\ attempts' \in [Jobs -> Seq(AttemptRow)]
  BY <1>1, <1>2 DEF Steps, RowOK
<1>4. TypeOK'
  BY <1>1, <1>3 DEF NewsOK, TypeOK
<1>5. ASSUME NEW r \in told' PROVE ReportOK(r, job'[r.job], attempts'[r.job])
  <2>1. CASE r \notin told
    BY <1>1, <2>1 DEF NewsOK
  <2>2. CASE r \in told
    <3>1. r \in Report /\ r.job \in Jobs
      BY <2>2 DEF IInv, TypeOK, Report
    <3>2. ReportOK(r, job[r.job], attempts[r.job])
      BY <2>2 DEF IInv
    <3> QED
      BY <1>2, <3>1, <3>2, JobStepKeepsReport
  <2> QED
    BY <2>1, <2>2
<1> QED
  BY <1>1, <1>2, <1>4, <1>5 DEF IInv, NewsOK

(* The inductive invariant holds in every reachable state.                 *)
THEOREM Invariance == Spec => []IInv
<1> QED
  BY InitOK, NextOK, PTL DEF Spec

(* Type correctness of the attempt store.                                  *)
THEOREM TypeCorrect == Spec => []TypeOK
<1>1. IInv => TypeOK
  BY DEF IInv
<1> QED
  BY <1>1, Invariance, PTL

(* No public write of any process creates rows that decoding or recovery   *)
(* refuses.                                                                *)
THEOREM RecoveryAlwaysAccepts == Spec => []RecoveryAccepts
<1>1. IInv => RecoveryAccepts
  BY DEF IInv, RowOK, RecoveryAccepts
<1> QED
  BY <1>1, Invariance, PTL

(* An invocation is started at most once in its whole life.                *)
THEOREM AtMostOneStart == Spec => []StartedAtMostOnce
<1>1. IInv => StartedAtMostOnce
  <2> SUFFICES ASSUME IInv, NEW j \in Jobs PROVE Len(attempts[j]) <= 1
    BY DEF StartedAtMostOnce
  <2> QED
    BY DEF IInv, RowOK, SnapshotValid
<1> QED
  BY <1>1, Invariance, PTL

(* Two leases handed out for one job are the same lease.                   *)
THEOREM LeasesAreExclusive == Spec => []LeaseExclusive
<1>1. IInv => LeaseExclusive
  BY DEF IInv, ReportOK, LeaseExclusive
<1> QED
  BY <1>1, Invariance, PTL

(* No owner is fenced before a deadline it was promised.                   *)
THEOREM PromisesAreKept == Spec => []PromisedLeaseRespected
<1>1. IInv => PromisedLeaseRespected
  <2> SUFFICES ASSUME IInv, NEW r \in told, r.what = "leased",
                      NEW n \in 1 .. Len(attempts[r.job]),
                      attempts[r.job][n].status = "expired"
               PROVE  attempts[r.job][n].finished >= r.until
    BY DEF PromisedLeaseRespected
  <2>1. r.job \in Jobs /\ ReportOK(r, job[r.job], attempts[r.job])
    BY DEF IInv, TypeOK, Report
  <2>2. RowOK(job[r.job], attempts[r.job], MaxAttempts[r.job])
    BY <2>1 DEF IInv
  <2> DEFINE a == attempts[r.job][1]
  <2>3. /\ Len(attempts[r.job]) = 1 /\ a \in AttemptRow
        /\ AttemptRowValid(a, 1)
    BY <2>1, <2>2, StartedShape, BudgetAssumption DEF ReportOK
  <2>4. n = 1
    BY <2>3
  <2>5. a.finished >= a.expires /\ a.finished # None
    BY <2>3, <2>4 DEF AttemptRowValid
  <2>6. a.expires \in Nat /\ a.finished \in Nat
    BY <2>3, <2>5, BoundAssumption DEF AttemptRow, OptTime, Times
  <2>7. a.expires >= r.until /\ r.until \in Nat
    BY <2>1, BoundAssumption DEF ReportOK, Times
  <2> QED
    BY <2>4, <2>5, <2>6, <2>7
<1> QED
  BY <1>1, Invariance, PTL

(* A reported completion or failure is what the rows say from then on.     *)
THEOREM ReportsAreDurable == Spec => []ReportedOutcomeDurable
<1>1. IInv => ReportedOutcomeDurable
  BY DEF IInv, ReportOK, ReportedOutcomeDurable, CurrentAttempt
<1> QED
  BY <1>1, Invariance, PTL

(* An ended attempt is never rewritten.                                    *)
THEOREM EndedAttemptsAreFrozen == Spec => EndedAttemptFrozen
<1>1. IInv /\ [Next]_vars =>
        [\A j \in Jobs : job[j].started > 0 /\ job[j].status # "running" =>
           job'[j] = job[j] /\ attempts'[j] = attempts[j]]_vars
  <2> SUFFICES ASSUME IInv, [Next]_vars, NEW j \in Jobs,
                      job[j].started > 0, job[j].status # "running"
               PROVE  job'[j] = job[j] /\ attempts'[j] = attempts[j]
    OBVIOUS
  <2>1. JobStep(job[j], attempts[j], MaxAttempts[j], job'[j], attempts'[j])
    BY NextSteps DEF Steps
  <2> QED
    BY <2>1, JobStepFreezesEnded, BudgetAssumption DEF IInv
<1> QED
  BY <1>1, Invariance, PTL DEF Spec, EndedAttemptFrozen

(* A job's durable time never runs backwards.                              *)
THEOREM TimeIsMonotone == Spec => DurableTimeMonotone
<1>1. IInv /\ [Next]_vars =>
        [\A j \in Jobs : job[j].status # "absent" => job'[j].updated >= job[j].updated]_vars
  <2> SUFFICES ASSUME IInv, [Next]_vars, NEW j \in Jobs, job[j].status # "absent"
               PROVE  job'[j].updated >= job[j].updated
    OBVIOUS
  <2>1. JobStep(job[j], attempts[j], MaxAttempts[j], job'[j], attempts'[j])
    BY NextSteps DEF Steps
  <2>2. RowOK(job[j], attempts[j], MaxAttempts[j]) /\ MaxAttempts[j] \in Nat \ {0}
    BY BudgetAssumption DEF IInv
  <2>3. job[j].updated \in Nat /\ job[j] \in JobRow
    BY <2>2, BoundAssumption DEF RowOK, JobRow, Times
  <2>4. CASE job[j].status = "running"
    BY <2>1, <2>2, <2>4, JobStepKeepsLease
  <2>5. CASE job'[j] = job[j]
    BY <2>3, <2>5
  <2>6. CASE ClaimEdge(job[j], attempts[j], job'[j], attempts'[j])
    <3>1. PICK w \in Workers, token \in Nat, now \in Times, deadline \in Times :
            /\ now >= job[j].updated
            /\ job'[j] = ClaimedRow(job[j], w, token, now, deadline)
      BY <2>6 DEF ClaimEdge
    <3>2. job'[j].updated = now
      BY <2>3, <3>1, ClaimedColumns
    <3> QED
      BY <3>1, <3>2
  <2> QED
    BY <2>1, <2>4, <2>5, <2>6
    DEF JobStep, EnqueueEdge, RenewEdge, CompleteEdge, FailEdge, ExpireEdge
<1> QED
  BY <1>1, Invariance, PTL DEF Spec, DurableTimeMonotone

(* One edge of a job's rows is one edge of its life, or none.              *)
LEMMA JobStepIsLifeStep ==
  ASSUME NEW row, NEW history, NEW budget \in Nat \ {0}, NEW newRow,
         NEW newHistory, RowOK(row, history, budget),
         JobStep(row, history, budget, newRow, newHistory)
  PROVE  \/ LifeOf(newRow) = LifeOf(row)
         \/ LifeOf(row) = <<"absent">> /\ LifeOf(newRow) = <<"waiting">>
         \/ \E w \in Workers :
              \/ LifeOf(row) = <<"waiting">> /\ LifeOf(newRow) = <<"owned", w>>
              \/ LifeOf(row) = <<"owned", w>> /\ LifeOf(newRow) = <<"quarantined">>
              \/ \E r \in OptResult :
                   LifeOf(row) = <<"owned", w>> /\ LifeOf(newRow) = <<"done", r>>
<1>0. row \in JobRow
  BY DEF RowOK
<1>1. CASE newRow = row
  BY <1>1
<1>2. CASE EnqueueEdge(row, history, newRow, newHistory)
  <2>1. newRow.status = "queued" /\ newRow.started = 0
    BY <1>2 DEF EnqueueEdge, QueuedRow
  <2> QED
    BY <1>2, <2>1 DEF EnqueueEdge, LifeOf
<1>3. CASE ClaimEdge(row, history, newRow, newHistory)
  <2>1. PICK w \in Workers, token \in Nat, now \in Times, deadline \in Times :
          newRow = ClaimedRow(row, w, token, now, deadline)
    BY <1>3 DEF ClaimEdge
  <2>2. newRow.status = "running" /\ newRow.owner = w
    BY <1>0, <2>1, ClaimedColumns
  <2>3. LifeOf(newRow) = <<"owned", w>>
    BY <2>2 DEF LifeOf
  <2>4. LifeOf(row) = <<"waiting">>
    BY <1>3 DEF ClaimEdge, LifeOf
  <2> QED
    BY <2>3, <2>4
<1>4. CASE row.status = "running"
  <2>1. row.owner \in Workers /\ row.started = 1
    BY <1>0, <1>4, RunningFacts DEF JobRow
  <2>2. LifeOf(row) = <<"owned", row.owner>>
    BY <1>4 DEF LifeOf
  <2>3. CASE RenewEdge(row, history, newRow, newHistory)
    <3>1. newRow.status = "running" /\ newRow.owner = row.owner
      BY <1>0, <1>4, <2>3, RenewedColumns DEF RenewEdge
    <3> QED
      BY <2>2, <3>1 DEF LifeOf
  <2>4. CASE CompleteEdge(row, history, newRow, newHistory)
    <3>1. PICK now \in Times, result \in OptResult :
            newRow = CompletedRow(row, now, result)
      BY <2>4 DEF CompleteEdge
    <3>2. newRow.status = "succeeded" /\ newRow.result = result
      BY <1>0, <3>1, CompletedColumns
    <3>3. LifeOf(newRow) = <<"done", result>>
      BY <3>2 DEF LifeOf
    <3> QED
      BY <2>1, <2>2, <3>3
  <2>5. CASE \/ FailEdge(row, history, budget, newRow, newHistory)
             \/ ExpireEdge(row, history, budget, newRow, newHistory)
    <3>1. PICK now \in Times, available \in Times, error \in Errors :
            newRow = AfterAttempt(row, budget, now, available, error)
      BY <2>5 DEF FailEdge, ExpireEdge, Errors
    <3>2. /\ newRow.started = row.started
          /\ row.started >= budget => newRow.status = "failed"
          /\ ~(row.started >= budget) => newRow.status = "queued"
      BY <1>0, <3>1, AfterAttemptColumns
    <3>3. newRow.started = 1 /\ newRow.status \in {"failed", "queued"}
      BY <2>1, <3>2
    <3>4. LifeOf(newRow) = <<"quarantined">>
      BY <3>3 DEF LifeOf
    <3> QED
      BY <2>1, <2>2, <3>4
  <2> QED
    BY <1>4, <1>1, <2>3, <2>4, <2>5 DEF JobStep, EnqueueEdge, ClaimEdge
<1> QED
  BY <1>1, <1>2, <1>3, <1>4
  DEF JobStep, RenewEdge, CompleteEdge, FailEdge, ExpireEdge

(* The attempt store implements the invocation contract.                   *)
THEOREM Refinement == Spec => ImplementsContract
<1>1. Init => Contract!Init
  BY DEF Init, Contract!Init, Contract!Absent, Life, LifeOf, NoJob, QueuedRow
<1>2. IInv /\ [Next]_vars => [Contract!Next]_Life
  <2> SUFFICES ASSUME IInv, [Next]_vars PROVE Contract!Next
    OBVIOUS
  <2>1. Life' = [j \in Jobs |-> Life'[j]]
    BY DEF Life
  <2>2. ASSUME NEW j \in Jobs PROVE Contract!Step(j) \/ Life'[j] = Life[j]
    <3>1. JobStep(job[j], attempts[j], MaxAttempts[j], job'[j], attempts'[j])
      BY NextSteps DEF Steps
    <3>2. RowOK(job[j], attempts[j], MaxAttempts[j]) /\ MaxAttempts[j] \in Nat \ {0}
      BY BudgetAssumption DEF IInv
    <3>3. Life[j] = LifeOf(job[j]) /\ Life'[j] = LifeOf(job'[j])
      BY DEF Life
    <3> DEFINE old == LifeOf(job[j])
               new == LifeOf(job'[j])
    <3>4. \/ new = old
          \/ old = <<"absent">> /\ new = <<"waiting">>
          \/ \E w \in Workers :
               \/ old = <<"waiting">> /\ new = <<"owned", w>>
               \/ old = <<"owned", w>> /\ new = <<"quarantined">>
               \/ \E r \in OptResult : old = <<"owned", w>> /\ new = <<"done", r>>
      BY <3>1, <3>2, JobStepIsLifeStep
    <3> HIDE DEF old, new
    <3>5. Life[j] = old /\ Life'[j] = new
      BY <3>3 DEF old, new
    <3> QED
      BY <3>4, <3>5
      DEF Contract!Step, Contract!Submit, Contract!Own, Contract!Quarantine,
          Contract!Finish, Contract!Absent, Contract!Waiting, Contract!OwnedBy,
          Contract!DoneWith, Contract!Quarantined
  <2> QED
    BY <2>1, <2>2 DEF Contract!Next
<1> QED
  BY <1>1, <1>2, Invariance, PTL DEF Spec, ImplementsContract, Contract!Spec
=============================================================================
