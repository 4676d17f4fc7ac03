----------------------- MODULE InvocationAdmissionProofs -----------------------
(***************************************************************************)
(* Proofs about admission, first start and recovery (InvocationAdmission), *)
(* for any requests, sessions, tasks, stores, workers and other events.    *)
(***************************************************************************)
EXTENDS InvocationAdmission, TLAPS, FiniteSetTheorems, SequenceTheorems,
        WellFoundedInduction

-----------------------------------------------------------------------------
(* The inductive invariant.  A row's sequence never exceeds the length of  *)
(* the log, so a stream's version is a maximum; jobs never compete; leases *)
(* are of attempts that exist, one lease at most of each; and every start  *)
(* in the log is of an admitted request, behind its events, with the one   *)
(* attempt it minted.                                                      *)

SequencesBounded ==
  \A p \in DOMAIN log : log[p].sequence <= Len(log)

JobSound(i, j) ==
  /\ j.spec.invocation = i
  /\ Len(j.attempts) <= j.spec.max
  /\ j.attempts = <<>> => j.status = "queued"

JobsInv ==
  /\ \A i \in Invocations : jobs[i] # None => JobSound(i, jobs[i])
  /\ \A i, j \in Invocations :
       i # j /\ jobs[i] # None /\ jobs[j] # None => ~Competes(jobs[i].spec, jobs[j].spec)

LeaseSound(l) ==
  /\ jobs[l.invocation] # None
  /\ l.attempt \in 1 .. Len(jobs[l.invocation].attempts)
  /\ jobs[l.invocation].attempts[l.attempt].worker = l.worker
  /\ l.started => \E o \in observed : o.invocation = l.invocation /\ o.worker = l.worker

LeasesInv ==
  /\ \A l \in leases : LeaseSound(l)
  /\ \A l, m \in leases : l.invocation = m.invocation /\ l.attempt = m.attempt => l = m

StartSound(i, p) ==
  /\ receipts[i] # None
  /\ jobs[i] # None
  /\ jobs[i].spec.max = 1 /\ Len(jobs[i].attempts) = 1
  /\ log[p].event = StartEvent(receipts[i].request, jobs[i].attempts[1].worker)
  /\ p >= receipts[i].first + Len(receipts[i].request.events)
  /\ log[p].sequence > receipts[i].version + Len(receipts[i].request.events)
  /\ \A l \in leases : l.invocation = i => l.started

StartsInv ==
  /\ \A p \in DOMAIN log : log[p].event \in Minted => \E i \in Invocations : StartSound(i, p)
  /\ \A p, q \in DOMAIN log :
       log[p].event \in Minted /\ log[q].event \in Minted
         /\ log[p].event.key = log[q].event.key => p = q

ObservedInv ==
  \A o \in observed :
    /\ receipts[o.invocation] # None /\ o.position \in DOMAIN log
    /\ log[o.position].event = StartEvent(receipts[o.invocation].request, o.worker)

PreparedInv == \A l \in prepared : l \in leases /\ l.started

AdmissionInv ==
  /\ TypeOK
  /\ SequencesBounded
  /\ JobsInv
  /\ AdmissionProvable
  /\ LeasesInv
  /\ StartsInv
  /\ ObservedInv
  /\ PreparedInv

(* What every step is shown to do.                                         *)
Good == AdmissionInv' /\ DecidesHonestly

-----------------------------------------------------------------------------
(* A set of numbers with a bound has a greatest element: the one that is   *)
(* the least below the bound.                                              *)
LEMMA GreatestExists ==
  ASSUME NEW n \in Nat, NEW S, S \subseteq 0 .. n, S # {}
  PROVE  \E m \in S : \A y \in S : m >= y
<1>1. PICK T : T = {d \in 0 .. n : n - d \in S}
  OBVIOUS
<1>2. T \subseteq Nat /\ T # {}
  <2>1. PICK y \in S : TRUE
    OBVIOUS
  <2>2. y \in 0 .. n
    OBVIOUS
  <2>3. n - y \in 0 .. n /\ n - (n - y) = y
    BY <2>2
  <2>4. n - y \in T
    BY <1>1, <2>1, <2>3
  <2>5. T \subseteq Nat
    BY <1>1
  <2> QED BY <2>4, <2>5
<1>3. PICK d \in T : \A c \in T : ~(<<c, d>> \in OpToRel(<, Nat))
  BY <1>2, NatLessThanWellFounded, WFMin, Zenon
<1>4. \A c \in T : ~(c < d)
  BY <1>2, <1>3 DEF OpToRel
<1>5. d \in 0 .. n /\ n - d \in S
  BY <1>1
<1>6. ASSUME NEW y \in S PROVE n - d >= y
  <2>1. y \in 0 .. n
    OBVIOUS
  <2>2. n - y \in 0 .. n /\ n - (n - y) = y
    BY <2>1
  <2>3. n - y \in T
    BY <1>1, <2>2
  <2>4. ~(n - y < d)
    BY <1>4, <2>3
  <2> QED BY <1>5, <2>1, <2>4
<1> QED BY <1>5, <1>6

(* The version of a stream bounds the sequences of its rows.               *)
LEMMA VersionIs ==
  ASSUME LogTypeOK, SequencesBounded, NEW s
  PROVE  /\ StreamVersion(s) \in 0 .. Len(log)
         /\ \A p \in RowsOf(s) : log[p].sequence <= StreamVersion(s)
<1>0. MaxEvents \in Nat /\ log \in Seq(Row) /\ Len(log) \in Nat
  BY BoundAssumption DEF LogTypeOK
<1>1. PICK S : S = {0} \cup {log[p].sequence : p \in RowsOf(s)}
  OBVIOUS
<1>2. \A p \in DOMAIN log : log[p].sequence \in Nat /\ log[p].sequence <= Len(log)
  <2>1. \A p \in DOMAIN log : log[p] \in Row
    BY <1>0
  <2> QED BY <1>0, <2>1 DEF Row, Positions, SequencesBounded
<1>3. S \subseteq 0 .. Len(log) /\ S # {}
  BY <1>0, <1>1, <1>2 DEF RowsOf
<1>4. \E m \in S : \A y \in S : m >= y
  BY <1>0, <1>3, GreatestExists
<1>5. PICK m : m = StreamVersion(s)
  OBVIOUS
<1>6. m \in S /\ \A y \in S : m >= y
  BY <1>1, <1>4, <1>5 DEF StreamVersion, Max
<1>7. \A p \in RowsOf(s) : log[p].sequence \in S /\ log[p].sequence \in Nat
  BY <1>1, <1>2 DEF RowsOf
<1>8. \A p \in RowsOf(s) : log[p].sequence <= m
  BY <1>3, <1>6, <1>7
<1> QED BY <1>3, <1>5, <1>6, <1>8

-----------------------------------------------------------------------------
(* The log grows: rows stay, and new ones come behind them.                *)

LogGrows ==
  /\ Len(log) <= Len(log')
  /\ \A p \in DOMAIN log : p \in DOMAIN log' /\ log'[p] = log[p]

LEMMA LogFacts ==
  ASSUME LogTypeOK
  PROVE  /\ log \in Seq(Row) /\ Len(log) \in Nat /\ DOMAIN log = 1 .. Len(log)
         /\ MaxEvents \in Nat
         /\ \A p \in DOMAIN log : log[p].sequence \in Positions
         /\ \A p \in DOMAIN log : log[p].event \in DomainEvents
<1>1. log \in Seq(Row)
  BY DEF LogTypeOK
<1>2. \A p \in DOMAIN log : log[p] \in Row
  BY <1>1
<1> QED BY <1>1, <1>2, BoundAssumption DEF Row

LEMMA ExtendedGrows ==
  ASSUME LogTypeOK, SequencesBounded, NEW e \in DomainEvents,
         Len(log) < MaxEvents, log' = Extended(e)
  PROVE  /\ log' \in Seq(Row) /\ Len(log') = Len(log) + 1 /\ Len(log') <= MaxEvents
         /\ LogGrows /\ SequencesBounded'
         /\ log'[Len(log) + 1].event = e
         /\ log'[Len(log) + 1].sequence = StreamVersion(e.stream) + 1
         /\ DOMAIN log' = 1 .. Len(log) + 1
<1>1. PICK r : r = [event |-> e, sequence |-> StreamVersion(e.stream) + 1]
  OBVIOUS
<1>2. StreamVersion(e.stream) \in 0 .. Len(log)
  BY VersionIs
<1>3. r.event = e /\ r.sequence = StreamVersion(e.stream) + 1
  BY <1>1
<1>4. r.sequence \in 1 .. Len(log) + 1 /\ r \in Row
  BY <1>1, <1>2, <1>3, LogFacts DEF Row, Positions
<1>5. log' = Append(log, r)
  BY <1>1 DEF Extended
<1>6. /\ log' \in Seq(Row) /\ Len(log') = Len(log) + 1
      /\ \A p \in 1 .. Len(log) : log'[p] = log[p]
      /\ log'[Len(log) + 1] = r
  BY <1>4, <1>5, LogFacts
<1>7. DOMAIN log' = 1 .. Len(log) + 1
  BY <1>6, LogFacts
<1>8. SequencesBounded'
  <2> SUFFICES ASSUME NEW p \in 1 .. Len(log) + 1 PROVE log'[p].sequence <= Len(log) + 1
    BY <1>6, <1>7 DEF SequencesBounded
  <2>1. CASE p \in 1 .. Len(log)
    <3>1. log[p].sequence <= Len(log) /\ log[p].sequence \in Positions
      BY <2>1, LogFacts DEF SequencesBounded
    <3> QED BY <1>6, <2>1, <3>1, LogFacts DEF Positions
  <2>2. CASE p = Len(log) + 1
    BY <1>4, <1>6, <2>2, LogFacts
  <2> QED BY <2>1, <2>2, LogFacts
<1>9. LogGrows
  BY <1>6, <1>7, LogFacts DEF LogGrows
<1> QED BY <1>3, <1>6, <1>7, <1>8, <1>9, LogFacts

LEMMA EventsOfRequest ==
  ASSUME NEW r \in Requests
  PROVE  /\ Len(r.events) \in Nat \ {0} /\ DOMAIN r.events = 1 .. Len(r.events)
         /\ \A k \in DOMAIN r.events : r.events[k] \in DomainEvents \ Minted
<1>1. PICK s : s = r.events
  OBVIOUS
<1>2. s \in Seq(DomainEvents \ Minted) /\ s # <<>>
  BY <1>1, RequestsAssumption
<1>3. /\ Len(s) \in Nat \ {0} /\ DOMAIN s = 1 .. Len(s)
      /\ \A k \in DOMAIN s : s[k] \in DomainEvents \ Minted
  BY <1>2
<1> QED BY <1>1, <1>3

LEMMA BatchGrows ==
  ASSUME LogTypeOK, SequencesBounded, NEW r \in Requests,
         Len(log) + Len(r.events) <= MaxEvents, log' = log \o Batch(r)
  PROVE  /\ log' \in Seq(Row) /\ Len(log') <= MaxEvents
         /\ Len(r.events) \in Nat \ {0} /\ DOMAIN r.events = 1 .. Len(r.events)
         /\ Len(log') = Len(log) + Len(r.events)
         /\ DOMAIN log' = 1 .. Len(log) + Len(r.events)
         /\ LogGrows /\ SequencesBounded'
         /\ \A k \in 1 .. Len(r.events) :
              log'[Len(log) + k] =
                [event |-> r.events[k], sequence |-> StreamVersion(r.session) + k]
<1>0. Len(r.events) \in Nat \ {0} /\ DOMAIN r.events = 1 .. Len(r.events)
  BY EventsOfRequest
<1>1. PICK n : n = Len(r.events) /\ n \in Nat \ {0} /\ DOMAIN r.events = 1 .. n
  BY <1>0
<1>2. PICK v \in 0 .. Len(log) : v = StreamVersion(r.session)
  BY VersionIs
<1>3. \A k \in 1 .. n : r.events[k] \in DomainEvents
  BY <1>1, EventsOfRequest
<1>4. PICK b : b = Batch(r)
  OBVIOUS
<1>5. b = [k \in 1 .. n |-> [event |-> r.events[k], sequence |-> v + k]]
  BY <1>1, <1>2, <1>4 DEF Batch
<1>6. \A k \in 1 .. n : v + k \in 1 .. Len(log) + n /\ v + k \in Positions
  BY <1>1, <1>2, LogFacts DEF Positions
<1>7. \A k \in 1 .. n :
        b[k] = [event |-> r.events[k], sequence |-> v + k] /\ b[k] \in Row
  BY <1>3, <1>5, <1>6 DEF Row
<1>8. b \in Seq(Row) /\ Len(b) = n
  <2>1. DOMAIN b = 1 .. n /\ b = [k \in 1 .. n |-> b[k]]
    BY <1>5
  <2>2. b \in [1 .. n -> Row]
    BY <1>7, <2>1
  <2>3. b \in Seq(Row)
    <3>1. n \in Nat
      BY <1>1
    <3> QED BY <3>1, <2>2, SeqDef
  <2>4. Len(b) = n
    BY <1>1, <2>1, <2>3
  <2> QED BY <2>3, <2>4
<1>9. /\ log' \in Seq(Row) /\ Len(log') = Len(log) + n
      /\ \A p \in 1 .. Len(log) + n :
           log'[p] = IF p <= Len(log) THEN log[p] ELSE b[p - Len(log)]
  BY <1>4, <1>8, LogFacts, ConcatProperties
<1>10. DOMAIN log' = 1 .. Len(log) + n
  BY <1>9, LogFacts
<1>11. LogGrows
  BY <1>1, <1>9, <1>10, LogFacts DEF LogGrows
<1>12. \A k \in 1 .. n : log'[Len(log) + k] = b[k]
  <2> SUFFICES ASSUME NEW k \in 1 .. n PROVE log'[Len(log) + k] = b[k]
    OBVIOUS
  <2>1. /\ Len(log) + k \in 1 .. Len(log) + n /\ ~(Len(log) + k <= Len(log))
        /\ (Len(log) + k) - Len(log) = k
    BY <1>1, LogFacts
  <2> QED BY <1>9, <2>1
<1>14. Len(log) \in Nat
  BY LogFacts
<1>13. SequencesBounded'
  <2> SUFFICES ASSUME NEW p \in 1 .. Len(log) + n
               PROVE  log'[p].sequence <= Len(log) + n
    BY <1>9, <1>10 DEF SequencesBounded
  <2>1. CASE p \in 1 .. Len(log)
    <3>1. log[p].sequence <= Len(log) /\ log[p].sequence \in Positions
      BY <2>1, LogFacts DEF SequencesBounded
    <3>2. log'[p] = log[p]
      BY <1>9, <2>1
    <3> QED BY <1>1, <3>1, <3>2, LogFacts DEF Positions
  <2>2. CASE ~(p <= Len(log))
    <3>1. PICK k \in 1 .. n : p = Len(log) + k
      <4>1. p - Len(log) \in 1 .. n /\ p = Len(log) + (p - Len(log))
        BY <1>1, <2>2, LogFacts
      <4> QED BY <4>1
    <3>2. log'[p].sequence = v + k
      <4>1. log'[p] = b[k]
        BY <1>12, <3>1
      <4>2. b[k].sequence = v + k
        <5>1. b[k] = [event |-> r.events[k], sequence |-> v + k]
          BY <1>7
        <5> QED BY <5>1
      <4> QED BY <4>1, <4>2
    <3>3. v + k <= Len(log) + n
      <4>1. v \in Int /\ k \in Int /\ n \in Int /\ Len(log) \in Int /\ v <= Len(log) /\ k <= n
        BY <1>1, <1>14
      <4> QED BY <4>1
    <3> QED BY <3>2, <3>3
  <2>3. p \in 1 .. Len(log) \/ ~(p <= Len(log))
    BY <1>1, <1>14
  <2> QED BY <2>1, <2>2, <2>3
<1> QED BY <1>1, <1>2, <1>7, <1>9, <1>10, <1>11, <1>12, <1>13, LogFacts

-----------------------------------------------------------------------------
(* Jobs keep their binding and the workers of their attempts; receipts     *)
(* stay.                                                                   *)

JobKept(a, b) ==
  /\ b # None
  /\ b.spec = a.spec
  /\ Len(a.attempts) <= Len(b.attempts)
  /\ \A k \in 1 .. Len(a.attempts) : b.attempts[k].worker = a.attempts[k].worker

JobsGrow == \A i \in Invocations : jobs[i] # None => JobKept(jobs[i], jobs'[i])

ReceiptsGrow == \A i \in Invocations : receipts[i] # None => receipts'[i] = receipts[i]

LEMMA Facts ==
  ASSUME AdmissionInv
  PROVE  /\ TypeOK /\ LogTypeOK /\ SequencesBounded /\ JobsInv /\ AdmissionProvable
         /\ LeasesInv /\ StartsInv /\ ObservedInv /\ PreparedInv
         /\ jobs \in [Invocations -> Job \cup {None}]
         /\ receipts \in [Invocations -> Receipt \cup {None}]
         /\ answers \subseteq Receipt /\ leases \subseteq Lease
         /\ observed \subseteq Observation /\ prepared \subseteq Lease
         /\ poisoned \subseteq Stores
         /\ decision \in (Sessions \X Tasks \X Decisions) \cup {None}
BY DEF AdmissionInv, TypeOK

LEMMA RequestInvocation ==
  ASSUME NEW r \in Requests
  PROVE  r.invocation \in Invocations /\ r.task \in Tasks /\ r.session \in Sessions
BY DEF Invocations, Tasks, Sessions

LEMMA SeqFacts ==
  ASSUME NEW A, NEW s \in Seq(A)
  PROVE  /\ Len(s) \in Nat /\ DOMAIN s = 1 .. Len(s)
         /\ \A k \in 1 .. Len(s) : s[k] \in A
OBVIOUS

LEMMA JobFacts ==
  ASSUME NEW j \in Job
  PROVE  /\ j.spec \in Requests /\ j.status \in {"queued"} \cup AttemptStatus
         /\ j.attempts \in Seq([worker : Workers, status : AttemptStatus])
         /\ Len(j.attempts) \in Nat /\ DOMAIN j.attempts = 1 .. Len(j.attempts)
         /\ j # None
         /\ \A k \in 1 .. Len(j.attempts) : j.attempts[k].worker \in Workers
<1>1. /\ j.spec \in Requests /\ j.status \in {"queued"} \cup AttemptStatus
      /\ j.attempts \in Seq([worker : Workers, status : AttemptStatus])
  BY DEF Job
<1>2. PICK s, A : s = j.attempts /\ A = [worker : Workers, status : AttemptStatus]
                  /\ s \in Seq(A)
  BY <1>1
<1>3. /\ Len(s) \in Nat /\ DOMAIN s = 1 .. Len(s)
      /\ \A k \in 1 .. Len(s) : s[k] \in A
  BY <1>2, SeqFacts
<1>4. \A k \in 1 .. Len(j.attempts) : j.attempts[k].worker \in Workers
  BY <1>2, <1>3
<1> QED BY <1>1, <1>2, <1>3, <1>4, NoneAssumption

LEMMA ReceiptFacts ==
  ASSUME NEW c \in Receipt
  PROVE  /\ c.request \in Requests /\ c.version \in Nat
         /\ c.first \in Nat \ {0} /\ c # None
         /\ c.request.invocation \in Invocations
         /\ Len(c.request.events) \in Nat \ {0}
         /\ DOMAIN c.request.events = 1 .. Len(c.request.events)
<1>1. c.request \in Requests /\ c.version \in 0 .. MaxEvents /\ c.first \in Positions
  BY DEF Receipt
<1>2. c.version \in Nat /\ c.first \in Nat \ {0}
  BY <1>1, BoundAssumption DEF Positions
<1> QED BY <1>1, <1>2, NoneAssumption, EventsOfRequest, RequestInvocation

LEMMA ProvenKept ==
  ASSUME LogTypeOK, LogGrows, JobsGrow, Len(log') \in Nat,
         NEW c \in Receipt, Proven(c)
  PROVE  Proven(c)'
<1>1. PICK i \in Invocations : i = c.request.invocation
  BY ReceiptFacts
<1>2. jobs[i] # None /\ jobs[i].spec = c.request
  BY <1>1 DEF Proven
<1>3. jobs'[i] # None /\ jobs'[i].spec = c.request
  BY <1>2 DEF JobsGrow, JobKept
<1>4. ASSUME NEW k \in DOMAIN c.request.events
      PROVE  /\ c.first + k - 1 <= Len(log')
             /\ log'[c.first + k - 1] =
                  [event |-> c.request.events[k], sequence |-> c.version + k]
  <2>1. /\ c.first + k - 1 <= Len(log)
        /\ log[c.first + k - 1] =
             [event |-> c.request.events[k], sequence |-> c.version + k]
    BY <1>4 DEF Proven
  <2>2. c.first + k - 1 \in DOMAIN log
    <3>1. k \in Nat \ {0} /\ c.first \in Nat \ {0}
      BY <1>4, ReceiptFacts
    <3> QED BY <2>1, <3>1, LogFacts
  <2>3. c.first + k - 1 \in Int /\ Len(log) \in Int /\ Len(log) <= Len(log')
    BY <2>2, LogFacts DEF LogGrows
  <2>4. c.first + k - 1 <= Len(log')
    BY <2>1, <2>3
  <2> QED BY <2>1, <2>2, <2>4 DEF LogGrows
<1> QED BY <1>1, <1>3, <1>4 DEF Proven

LEMMA LeaseKept ==
  ASSUME jobs \in [Invocations -> Job \cup {None}],
         jobs' \in [Invocations -> Job \cup {None}], JobsGrow,
         observed \subseteq observed', NEW l \in Lease, LeaseSound(l)
  PROVE  LeaseSound(l)'
<1>1. PICK i \in Invocations : i = l.invocation
  BY DEF Lease
<1>2. PICK a \in Job, b \in Job : a = jobs[i] /\ b = jobs'[i] /\ JobKept(a, b)
  <2>1. jobs[i] # None
    BY <1>1 DEF LeaseSound
  <2>2. JobKept(jobs[i], jobs'[i])
    BY <2>1 DEF JobsGrow
  <2>3. jobs[i] \in Job /\ jobs'[i] \in Job
    BY <2>1, <2>2 DEF JobKept
  <2> QED BY <2>2, <2>3
<1>3. l.attempt \in 1 .. Len(a.attempts) /\ a.attempts[l.attempt].worker = l.worker
  BY <1>1, <1>2 DEF LeaseSound
<1>4. l.attempt \in 1 .. Len(b.attempts)
  <2>1. Len(a.attempts) \in Nat /\ Len(b.attempts) \in Nat
    BY JobFacts
  <2> QED BY <1>2, <1>3, <2>1 DEF JobKept
<1>5. b.attempts[l.attempt].worker = l.worker
  BY <1>2, <1>3 DEF JobKept
<1>6. l.started => \E o \in observed' : o.invocation = l.invocation /\ o.worker = l.worker
  BY DEF LeaseSound
<1>7. b # None
  BY <1>2 DEF JobKept
<1> QED BY <1>1, <1>2, <1>4, <1>5, <1>6, <1>7 DEF LeaseSound

(* A job whose budget is used hands out no other lease.                    *)
NewLeasesClaim ==
  \A l \in leases' :
    \/ l \in leases
    \/ l.invocation \in Invocations /\ jobs[l.invocation] # None
         /\ Len(jobs[l.invocation].attempts) < jobs[l.invocation].spec.max

LEMMA StartKept ==
  ASSUME AdmissionInv, jobs' \in [Invocations -> Job \cup {None}], JobsInv',
         LogGrows, JobsGrow, ReceiptsGrow, NewLeasesClaim,
         NEW i \in Invocations, NEW p \in DOMAIN log, StartSound(i, p)
  PROVE  StartSound(i, p)'
<1>1. PICK a \in Job, b \in Job : a = jobs[i] /\ b = jobs'[i] /\ JobKept(a, b)
  <2>1. jobs[i] # None
    BY DEF StartSound
  <2>2. JobKept(jobs[i], jobs'[i])
    BY <2>1 DEF JobsGrow
  <2>3. jobs \in [Invocations -> Job \cup {None}] /\ jobs'[i] # None
    BY <2>2, Facts DEF JobKept
  <2>4. jobs[i] \in Job /\ jobs'[i] \in Job
    BY <2>1, <2>3
  <2> QED BY <2>2, <2>4
<1>2. receipts'[i] = receipts[i] /\ receipts[i] # None
  BY DEF ReceiptsGrow, StartSound
<1>3. a.spec.max = 1 /\ Len(a.attempts) = 1 /\ b.spec = a.spec
  BY <1>1 DEF StartSound, JobKept
<1>4. Len(b.attempts) = 1
  <2>1. Len(b.attempts) <= b.spec.max
    <3>1. jobs'[i] # None
      BY <1>1, JobFacts
    <3>2. JobSound(i, jobs'[i])
      BY <3>1 DEF JobsInv
    <3> QED BY <1>1, <3>2 DEF JobSound
  <2>2. Len(b.attempts) \in Nat
    BY JobFacts
  <2>3. 1 <= Len(b.attempts)
    BY <1>1, <1>3 DEF JobKept
  <2>4. b.spec.max = 1
    BY <1>3
  <2>5. PICK n \in Nat : n = Len(b.attempts)
    BY <2>2
  <2>6. n <= 1 /\ 1 <= n
    BY <2>1, <2>3, <2>4, <2>5
  <2>7. n = 1
    BY <2>6
  <2> QED BY <2>5, <2>7
<1>5. b.attempts[1].worker = a.attempts[1].worker
  BY <1>1, <1>3 DEF JobKept
<1>6. log'[p] = log[p]
  BY DEF LogGrows
<1>7. \A l \in leases' : l.invocation = i => l.started
  <2> SUFFICES ASSUME NEW l \in leases', l.invocation = i PROVE l.started
    OBVIOUS
  <2>1. l \in leases
    <3>1. jobs[l.invocation].spec.max = 1 /\ Len(jobs[l.invocation].attempts) = 1
      BY <1>1, <1>3
    <3>2. ~(Len(jobs[l.invocation].attempts) < jobs[l.invocation].spec.max)
      BY <3>1
    <3> QED BY <3>2 DEF NewLeasesClaim
  <2> QED BY <2>1 DEF StartSound
<1>8. b # None
  BY <1>1 DEF JobKept
<1> QED BY <1>1, <1>2, <1>3, <1>4, <1>5, <1>6, <1>7, <1>8 DEF StartSound

LEMMA ObservedKept ==
  ASSUME AdmissionInv, LogGrows, ReceiptsGrow, NEW o \in observed
  PROVE  /\ receipts'[o.invocation] # None /\ o.position \in DOMAIN log'
         /\ log'[o.position].event = StartEvent(receipts'[o.invocation].request, o.worker)
<1>1. /\ receipts[o.invocation] # None /\ o.position \in DOMAIN log
      /\ log[o.position].event = StartEvent(receipts[o.invocation].request, o.worker)
  BY Facts DEF ObservedInv
<1>2. o.invocation \in Invocations
  <2>1. o \in Observation
    BY Facts
  <2> QED BY <2>1 DEF Observation
<1> QED BY <1>1, <1>2 DEF LogGrows, ReceiptsGrow

-----------------------------------------------------------------------------
(* What a step may add, and that the invariant holds after it.             *)

LogOK == LogTypeOK' /\ SequencesBounded' /\ LogGrows

JobsOK == jobs' \in [Invocations -> Job \cup {None}] /\ JobsInv' /\ JobsGrow

ReceiptsOK ==
  /\ receipts' \in [Invocations -> Receipt \cup {None}]
  /\ ReceiptsGrow
  /\ \A i \in Invocations : receipts[i] = None /\ receipts'[i] # None =>
       /\ receipts'[i].request.invocation = i
       /\ Proven(receipts[i])'
       /\ \A j \in Invocations \ {i} : receipts'[j] # None =>
            ~Competes(receipts'[i].request, receipts'[j].request)

AnswersOK ==
  \A c \in answers' :
    c \in answers \/ (c \in Receipt /\ receipts'[c.request.invocation] = c)

LeasesOK ==
  /\ leases \subseteq leases'
  /\ NewLeasesClaim
  /\ \A l \in leases' : l \in leases \/ (l \in Lease /\ LeaseSound(l)')
  /\ \A l, m \in leases' : l.invocation = m.invocation /\ l.attempt = m.attempt => l = m

StartsOK ==
  \A p \in DOMAIN log' \ DOMAIN log : log'[p].event \in Minted =>
    /\ \E i \in Invocations : StartSound(i, p)'
    /\ \A q \in DOMAIN log' : log'[q].event \in Minted
         /\ log'[p].event.key = log'[q].event.key => p = q

ObservationSound(o) ==
  /\ receipts[o.invocation] # None /\ o.position \in DOMAIN log
  /\ log[o.position].event = StartEvent(receipts[o.invocation].request, o.worker)

ObservationsOK ==
  /\ observed \subseteq observed'
  /\ \A o \in observed' : o \in observed \/ (o \in Observation /\ ObservationSound(o)')

RestOK ==
  /\ \A l \in prepared' : l \in leases' /\ l.started
  /\ poisoned' \subseteq Stores
  /\ decision' \in (Sessions \X Tasks \X Decisions) \cup {None}

LEMMA CompetesBothWays ==
  ASSUME NEW r, NEW q
  PROVE  Competes(r, q) <=> Competes(q, r)
BY DEF Competes

LEMMA ProvableKept ==
  ASSUME AdmissionInv, LogOK, JobsOK, ReceiptsOK, AnswersOK
  PROVE  AdmissionProvable'
<1>0. Len(log') \in Nat
  <2>1. log' \in Seq(Row)
    BY DEF LogOK, LogTypeOK
  <2> QED BY <2>1, SeqFacts
<1>1. ASSUME NEW i \in Invocations, receipts'[i] # None
      PROVE  /\ receipts'[i].request.invocation = i /\ Proven(receipts[i])'
             /\ \A j \in Invocations \ {i} : receipts'[j] # None =>
                  ~Competes(receipts'[i].request, receipts'[j].request)
  <2>1. CASE receipts[i] = None
    BY <1>1, <2>1 DEF ReceiptsOK
  <2>2. CASE receipts[i] # None
    <3>1. PICK c \in Receipt : c = receipts[i] /\ c = receipts'[i]
      BY <2>2, Facts DEF ReceiptsOK, ReceiptsGrow
    <3>2. c.request.invocation = i /\ Proven(c)
      BY <2>2, <3>1, Facts DEF AdmissionProvable
    <3>3. Proven(c)'
      BY <1>0, <3>2, Facts, ProvenKept DEF LogOK, JobsOK
    <3>4. Proven(receipts[i])'
      BY <3>1, <3>3 DEF Proven
    <3>5. ASSUME NEW j \in Invocations \ {i}, receipts'[j] # None
          PROVE  ~Competes(c.request, receipts'[j].request)
      <4>1. CASE receipts[j] = None
        <5>1. ~Competes(receipts'[j].request, receipts'[i].request)
          BY <1>1, <3>5, <4>1 DEF ReceiptsOK
        <5> QED BY <3>1, <5>1, CompetesBothWays
      <4>2. CASE receipts[j] # None
        <5>1. receipts'[j] = receipts[j]
          BY <3>5, <4>2 DEF ReceiptsOK, ReceiptsGrow
        <5>2. ~Competes(receipts[i].request, receipts[j].request)
          BY <2>2, <3>5, <4>2, Facts DEF AdmissionProvable
        <5> QED BY <3>1, <5>1, <5>2
      <4> QED BY <4>1, <4>2
    <3> QED BY <3>1, <3>2, <3>4, <3>5
  <2> QED BY <2>1, <2>2
<1>2. ASSUME NEW c \in answers'
      PROVE  receipts'[c.request.invocation] = c
  <2>1. CASE c \in answers
    <3>1. c \in Receipt /\ receipts[c.request.invocation] = c
      BY <2>1, Facts DEF AdmissionProvable
    <3>2. c # None /\ c.request.invocation \in Invocations
      BY <3>1, ReceiptFacts
    <3> QED BY <3>1, <3>2 DEF ReceiptsOK, ReceiptsGrow
  <2> QED BY <1>2, <2>1 DEF AnswersOK
<1> QED BY <1>1, <1>2 DEF AdmissionProvable

LEMMA Grown ==
  ASSUME AdmissionInv, LogOK, JobsOK, ReceiptsOK, AnswersOK, LeasesOK, StartsOK,
         ObservationsOK, RestOK
  PROVE  AdmissionInv'
<1>1. AdmissionProvable'
  BY ProvableKept
<1>2. LeasesInv'
  <2>1. ASSUME NEW l \in leases' PROVE LeaseSound(l)'
    <3>1. CASE l \in leases
      BY <3>1, Facts, LeaseKept DEF LeasesInv, JobsOK, ObservationsOK
    <3> QED BY <2>1, <3>1 DEF LeasesOK
  <2> QED BY <2>1 DEF LeasesInv, LeasesOK
<1>3. StartsInv'
  <2>1. ASSUME NEW p \in DOMAIN log', log'[p].event \in Minted
        PROVE  \E i \in Invocations : StartSound(i, p)'
    <3>1. CASE p \in DOMAIN log
      <4>1. log'[p] = log[p]
        BY <3>1 DEF LogOK, LogGrows
      <4>2. PICK i \in Invocations : StartSound(i, p)
        BY <2>1, <3>1, <4>1, Facts DEF StartsInv
      <4>3. StartSound(i, p)'
        <5>1. /\ jobs' \in [Invocations -> Job \cup {None}] /\ JobsInv' /\ LogGrows
              /\ JobsGrow /\ ReceiptsGrow /\ NewLeasesClaim
          BY DEF LogOK, JobsOK, ReceiptsOK, LeasesOK
        <5> QED BY <3>1, <4>2, <5>1, StartKept
      <4> QED BY <4>3
    <3> QED BY <2>1, <3>1 DEF StartsOK
  <2>2. ASSUME NEW p \in DOMAIN log', NEW q \in DOMAIN log',
               log'[p].event \in Minted, log'[q].event \in Minted,
               log'[p].event.key = log'[q].event.key
        PROVE  p = q
    <3>1. CASE p \notin DOMAIN log
      BY <2>2, <3>1 DEF StartsOK
    <3>2. CASE q \notin DOMAIN log
      BY <2>2, <3>2 DEF StartsOK
    <3>3. CASE p \in DOMAIN log /\ q \in DOMAIN log
      <4>1. log'[p] = log[p] /\ log'[q] = log[q]
        BY <3>3 DEF LogOK, LogGrows
      <4> QED BY <2>2, <3>3, <4>1, Facts DEF StartsInv
    <3> QED BY <3>1, <3>2, <3>3
  <2> QED BY <2>1, <2>2 DEF StartsInv
<1>4. ObservedInv'
  BY ObservedKept DEF ObservedInv, ObservationsOK, ObservationSound, LogOK, ReceiptsOK
<1>5. TypeOK'
  <2>1. answers' \subseteq Receipt /\ leases' \subseteq Lease
    BY Facts DEF AnswersOK, LeasesOK
  <2>2. observed' \subseteq Observation /\ prepared' \subseteq Lease
    BY <2>1, Facts DEF ObservationsOK, RestOK
  <2> QED BY <2>1, <2>2 DEF TypeOK, LogOK, JobsOK, ReceiptsOK, RestOK
<1>6. PreparedInv'
  BY DEF PreparedInv, RestOK
<1> QED BY <1>1, <1>2, <1>3, <1>4, <1>5, <1>6 DEF AdmissionInv, LogOK, JobsOK

(* What a step leaves alone.                                               *)
LEMMA LogStays ==
  ASSUME AdmissionInv, UNCHANGED logVars
  PROVE  LogOK /\ StartsOK
<1>1. LogTypeOK'
  BY Facts DEF LogTypeOK, logVars
<1>2. SequencesBounded' /\ LogGrows /\ StartsOK
  BY Facts, LogFacts DEF SequencesBounded, LogGrows, StartsOK, logVars
<1> QED BY <1>1, <1>2 DEF LogOK

LEMMA JobsStay ==
  ASSUME AdmissionInv, UNCHANGED jobs
  PROVE  JobsOK
<1>1. JobsInv'
  BY Facts DEF JobsInv
<1>2. ASSUME NEW i \in Invocations, jobs[i] # None
      PROVE  JobKept(jobs[i], jobs'[i])
  <2>1. jobs[i] \in Job
    BY <1>2, Facts
  <2>2. Len(jobs[i].attempts) \in Nat
    BY <2>1, JobFacts
  <2> QED BY <1>2, <2>2 DEF JobKept
<1> QED BY <1>1, <1>2, Facts DEF JobsOK, JobsGrow

LEMMA ReceiptsStay ==
  ASSUME AdmissionInv, UNCHANGED receipts
  PROVE  ReceiptsOK
BY Facts DEF ReceiptsOK, ReceiptsGrow

LEMMA LeasesStay ==
  ASSUME AdmissionInv, UNCHANGED leases
  PROVE  LeasesOK
BY Facts DEF LeasesOK, LeasesInv, NewLeasesClaim

LEMMA RestStays ==
  ASSUME AdmissionInv
  PROVE  /\ UNCHANGED answers => AnswersOK
         /\ UNCHANGED observed => ObservationsOK
         /\ UNCHANGED <<leases, prepared, poisoned, decision>> => RestOK
         /\ UNCHANGED decision => DecidesHonestly
BY Facts DEF AnswersOK, ObservationsOK, RestOK, PreparedInv, DecidesHonestly

-----------------------------------------------------------------------------
(* Changes of one job.                                                     *)

LEMMA OneJobChanges ==
  ASSUME AdmissionInv, NEW i \in Invocations, NEW j \in Job, JobSound(i, j),
         jobs[i] # None => JobKept(jobs[i], j),
         \A k \in Invocations \ {i} :
           jobs[k] # None => ~Competes(jobs[k].spec, j.spec),
         jobs' = [jobs EXCEPT ![i] = j]
  PROVE  JobsOK
<1>1. /\ jobs' \in [Invocations -> Job \cup {None}] /\ jobs'[i] = j
      /\ \A k \in Invocations \ {i} : jobs'[k] = jobs[k]
  BY Facts
<1>2. \A k \in Invocations : jobs'[k] # None => JobSound(k, jobs'[k])
  BY <1>1, Facts DEF JobsInv
<1>3. ASSUME NEW k \in Invocations, NEW m \in Invocations, k # m,
             jobs'[k] # None, jobs'[m] # None
      PROVE  ~Competes(jobs'[k].spec, jobs'[m].spec)
  <2>1. CASE k = i
    BY <1>1, <1>3, <2>1, CompetesBothWays
  <2>2. CASE m = i
    BY <1>1, <1>3, <2>2
  <2>3. CASE k # i /\ m # i
    BY <1>1, <1>3, <2>3, Facts DEF JobsInv
  <2> QED BY <2>1, <2>2, <2>3
<1>4. JobsGrow
  <2> SUFFICES ASSUME NEW k \in Invocations, jobs[k] # None
               PROVE  JobKept(jobs[k], jobs'[k])
    BY DEF JobsGrow
  <2>1. CASE k = i
    BY <1>1, <2>1
  <2>2. CASE k # i
    <3>1. jobs[k] \in Job
      BY Facts
    <3>2. Len(jobs[k].attempts) \in Nat
      BY <3>1, JobFacts
    <3> QED BY <1>1, <2>2, <3>2 DEF JobKept
  <2> QED BY <2>1, <2>2
<1>5. JobsInv'
  BY <1>2, <1>3 DEF JobsInv
<1> QED BY <1>1, <1>4, <1>5 DEF JobsOK

LEMMA FreshJobOK ==
  ASSUME AdmissionInv, NEW r \in Requests,
         \A i \in Invocations : jobs[i] # None => ~Competes(jobs[i].spec, r),
         jobs' = [jobs EXCEPT ![r.invocation] = FreshJob(r)]
  PROVE  /\ JobsOK
         /\ jobs[r.invocation] = None
         /\ jobs'[r.invocation] # None /\ jobs'[r.invocation].spec = r
         /\ \A i \in Invocations : jobs[i] # None => jobs'[i] = jobs[i]
<1>0. r.invocation \in Invocations
  BY RequestInvocation
<1>1. jobs[r.invocation] = None
  BY <1>0, Facts DEF JobsInv, JobSound, Competes
<1>2. PICK j : j = FreshJob(r)
  OBVIOUS
<1>3. j.spec = r /\ j.status = "queued" /\ j.attempts = <<>>
  BY <1>2 DEF FreshJob
<1>4. j \in Job
  <2>1. <<>> \in Seq([worker : Workers, status : AttemptStatus])
    OBVIOUS
  <2> QED BY <1>2, <2>1 DEF FreshJob, Job
<1>5. JobSound(r.invocation, j)
  <2>1. r.max \in Nat /\ Len(<<>>) = 0
    BY RequestsAssumption
  <2>2. Len(j.attempts) <= j.spec.max
    BY <1>3, <2>1
  <2> QED BY <1>3, <2>2 DEF JobSound
<1>6. JobsOK
  BY <1>0, <1>1, <1>2, <1>3, <1>4, <1>5, OneJobChanges
<1>7. jobs'[r.invocation] = j /\ \A i \in Invocations : jobs[i] # None => jobs'[i] = jobs[i]
  BY <1>0, <1>1, <1>2, Facts
<1> QED BY <1>1, <1>3, <1>4, <1>6, <1>7, NoneAssumption

LEMMA ClaimedOK ==
  ASSUME AdmissionInv, NEW i \in Invocations, NEW w \in Workers, Claimable(i),
         jobs' = [jobs EXCEPT ![i] = Claimed(i, w)]
  PROVE  /\ JobsOK
         /\ Len(jobs[i].attempts) \in Nat
         /\ jobs'[i] # None /\ jobs'[i].spec = jobs[i].spec
         /\ Len(jobs'[i].attempts) = Len(jobs[i].attempts) + 1
         /\ jobs'[i].attempts[Len(jobs[i].attempts) + 1].worker = w
         /\ \A k \in Invocations \ {i} : jobs'[k] = jobs[k]
<1>1. PICK a \in Job : a = jobs[i] /\ a # None
  BY Facts DEF Claimable
<1>2. PICK j : j = Claimed(i, w)
  OBVIOUS
<1>3. PICK x : x = [worker |-> w, status |-> "running"]
  OBVIOUS
<1>4. PICK A : A = [worker : Workers, status : AttemptStatus]
  OBVIOUS
<1>5. x \in A /\ a.attempts \in Seq(A) /\ x.worker = w
  BY <1>3, <1>4, JobFacts DEF AttemptStatus
<1>6. PICK s : s = Append(a.attempts, x)
  OBVIOUS
<1>7. /\ s \in Seq(A) /\ Len(a.attempts) \in Nat /\ Len(s) = Len(a.attempts) + 1
      /\ \A k \in 1 .. Len(a.attempts) : s[k] = a.attempts[k]
      /\ s[Len(a.attempts) + 1] = x
  BY <1>5, <1>6
<1>8. j = [a EXCEPT !.status = "running", !.attempts = s]
  BY <1>1, <1>2, <1>3, <1>6 DEF Claimed
<1>9. j.spec = a.spec /\ j.attempts = s /\ j.status = "running"
  BY <1>8 DEF Job
<1>10. j \in Job
  BY <1>4, <1>7, <1>8 DEF Job, AttemptStatus
<1>11. JobKept(a, j)
  <2>1. j # None
    BY <1>10, NoneAssumption
  <2>2. Len(a.attempts) <= Len(j.attempts)
    BY <1>7, <1>9
  <2> QED BY <1>7, <1>9, <2>1, <2>2 DEF JobKept
<1>12. JobSound(i, a)
  BY <1>1, Facts DEF JobsInv
<1>13. JobSound(i, j)
  <2>1. Len(a.attempts) < a.spec.max /\ a.spec.max \in Nat
    BY <1>1, JobFacts, RequestsAssumption DEF Claimable
  <2>2. Len(j.attempts) <= j.spec.max
    BY <1>7, <1>9, <2>1
  <2>3. j.attempts # <<>>
    <3>1. Len(s) # 0
      BY <1>7
    <3> QED BY <1>9, <3>1
  <2> QED BY <1>9, <1>12, <2>2, <2>3 DEF JobSound
<1>14. \A k \in Invocations \ {i} : jobs[k] # None => ~Competes(jobs[k].spec, j.spec)
  BY <1>1, <1>9, Facts DEF JobsInv
<1>15. JobsOK
  BY <1>1, <1>2, <1>10, <1>11, <1>13, <1>14, OneJobChanges
<1>16. jobs'[i] = j /\ \A k \in Invocations \ {i} : jobs'[k] = jobs[k]
  BY <1>2, Facts
<1>17. j.attempts[Len(a.attempts) + 1].worker = w
  BY <1>5, <1>7, <1>9
<1> QED BY <1>1, <1>7, <1>9, <1>10, <1>15, <1>16, <1>17, NoneAssumption

LEMMA EndedOK ==
  ASSUME AdmissionInv, NEW i \in Invocations, NEW status \in AttemptStatus \ {"running"},
         EndAttempt(i, status)
  PROVE  JobsOK
<1>1. PICK a \in Job : a = jobs[i] /\ a # None
  BY Facts DEF EndAttempt
<1>2. PICK n : n = Len(a.attempts) /\ n \in Nat
  BY JobFacts
<1>3. JobSound(i, a) /\ a.status = "running"
  BY <1>1, Facts DEF JobsInv, EndAttempt
<1>4. n \in 1 .. n
  <2>1. a.attempts # <<>>
    BY <1>3 DEF JobSound
  <2>2. n # 0
    BY <1>2, <2>1, JobFacts, EmptySeq
  <2> QED BY <1>2, <2>2
<1>5. PICK A : A = [worker : Workers, status : AttemptStatus]
  OBVIOUS
<1>6. a.attempts \in Seq(A) /\ DOMAIN a.attempts = 1 .. n
  BY <1>2, <1>5, JobFacts
<1>7. a.attempts[n] \in A
  BY <1>2, <1>4, <1>6, SeqFacts
<1>8. PICK x : x = [a.attempts[n] EXCEPT !.status = status]
  OBVIOUS
<1>9. x \in A /\ x.worker = a.attempts[n].worker
  BY <1>5, <1>7, <1>8
<1>10. PICK s : s = [a.attempts EXCEPT ![n] = x]
  OBVIOUS
<1>11. /\ s \in Seq(A) /\ Len(s) = n
       /\ \A k \in 1 .. n : s[k].worker = a.attempts[k].worker
  <2>1. s \in Seq(A) /\ Len(s) = Len(a.attempts)
    BY <1>4, <1>6, <1>9, <1>10
  <2> QED BY <1>2, <1>4, <1>6, <1>9, <1>10, <2>1
<1>12. PICK now : now = IF status = "failed" /\ n < a.spec.max THEN "queued" ELSE status
  OBVIOUS
<1>13. now \in {"queued"} \cup AttemptStatus
  BY <1>12
<1>14. PICK j : j = [a EXCEPT !.attempts = s, !.status = now]
  OBVIOUS
<1>15. jobs' = [jobs EXCEPT ![i] = j]
  <2>1. jobs' = [jobs EXCEPT ![i] =
           [jobs[i] EXCEPT !.attempts = [a.attempts EXCEPT ![n] =
                              [a.attempts[n] EXCEPT !.status = status]],
                           !.status = now]]
    BY <1>1, <1>2, <1>12 DEF EndAttempt
  <2> QED BY <1>1, <1>8, <1>10, <1>14, <2>1
<1>16. j.spec = a.spec /\ j.attempts = s
  BY <1>14 DEF Job
<1>17. j \in Job
  BY <1>5, <1>11, <1>13, <1>14 DEF Job
<1>18. JobKept(a, j)
  <2>1. j # None
    BY <1>17, NoneAssumption
  <2>2. Len(a.attempts) <= Len(j.attempts)
    BY <1>2, <1>11, <1>16
  <2> QED BY <1>2, <1>11, <1>16, <2>1, <2>2 DEF JobKept
<1>19. JobSound(i, j)
  <2>1. j.attempts # <<>>
    <3>1. Len(s) # 0
      BY <1>4, <1>11
    <3> QED BY <1>16, <3>1
  <2> QED BY <1>2, <1>3, <1>11, <1>16, <2>1 DEF JobSound
<1>20. \A k \in Invocations \ {i} : jobs[k] # None => ~Competes(jobs[k].spec, j.spec)
  BY <1>1, <1>16, Facts DEF JobsInv
<1> QED BY <1>1, <1>15, <1>17, <1>18, <1>19, <1>20, OneJobChanges

-----------------------------------------------------------------------------
(* The actions.  First those that change jobs and leases alone.            *)

LEMMA EnqueueAloneGood ==
  ASSUME AdmissionInv, NEW r \in Requests, EnqueueAlone(r)
  PROVE  Good
<1>1. JobsOK
  BY FreshJobOK DEF EnqueueAlone
<1>2. LogOK /\ StartsOK /\ ReceiptsOK /\ LeasesOK
  BY LogStays, ReceiptsStay, LeasesStay DEF EnqueueAlone, history
<1>3. AnswersOK /\ ObservationsOK /\ RestOK /\ DecidesHonestly
  BY RestStays DEF EnqueueAlone, history
<1> QED BY <1>1, <1>2, <1>3, Grown DEF Good

LEMMA EndAttemptGood ==
  ASSUME AdmissionInv, NEW i \in Invocations, NEW x \in AttemptStatus \ {"running"},
         EndAttempt(i, x)
  PROVE  Good
<1>1. JobsOK
  BY EndedOK
<1>2. LogOK /\ StartsOK /\ ReceiptsOK /\ LeasesOK
  BY LogStays, ReceiptsStay, LeasesStay DEF EndAttempt, history
<1>3. AnswersOK /\ ObservationsOK /\ RestOK /\ DecidesHonestly
  BY RestStays DEF EndAttempt, history
<1> QED BY <1>1, <1>2, <1>3, Grown DEF Good

(* The lease of a claim is of the attempt it starts.                       *)
LEMMA LeaseOfFacts ==
  ASSUME AdmissionInv, NEW i \in Invocations, NEW w \in Workers, Claimable(i),
         NEW started \in BOOLEAN
  PROVE  /\ LeaseOf(i, w, started) \in Lease
         /\ LeaseOf(i, w, started).invocation = i
         /\ LeaseOf(i, w, started).attempt = Len(jobs[i].attempts) + 1
         /\ LeaseOf(i, w, started).worker = w
         /\ LeaseOf(i, w, started).started = started
         /\ \A m \in leases : m.invocation = i => m.attempt # Len(jobs[i].attempts) + 1
<1>0. jobs[i] \in Job /\ Len(jobs[i].attempts) \in Nat
  <2>1. jobs[i] \in Job
    BY Facts DEF Claimable
  <2> QED BY <2>1, JobFacts
<1>1. PICK l : l = LeaseOf(i, w, started)
  OBVIOUS
<1>2. /\ l.invocation = i /\ l.attempt = Len(jobs[i].attempts) + 1
      /\ l.worker = w /\ l.started = started
  BY <1>1 DEF LeaseOf
<1>3. l \in Lease
  BY <1>0, <1>1 DEF LeaseOf, Lease
<1>4. ASSUME NEW m \in leases, m.invocation = i
      PROVE  m.attempt # Len(jobs[i].attempts) + 1
  <2>1. m.attempt \in 1 .. Len(jobs[i].attempts)
    BY <1>4, Facts DEF LeasesInv, LeaseSound
  <2> QED BY <1>0, <2>1
<1> QED BY <1>1, <1>2, <1>3, <1>4

LEMMA NewLeaseOK ==
  ASSUME AdmissionInv, NEW i \in Invocations, NEW w \in Workers, Claimable(i),
         jobs' = [jobs EXCEPT ![i] = Claimed(i, w)],
         NEW started \in BOOLEAN,
         leases' = leases \cup {LeaseOf(i, w, started)},
         started => \E o \in observed' : o.invocation = i /\ o.worker = w
  PROVE  LeasesOK
<1>1. PICK l : l = LeaseOf(i, w, started)
  OBVIOUS
<1>2. /\ l \in Lease /\ l.invocation = i /\ l.attempt = Len(jobs[i].attempts) + 1
      /\ l.worker = w /\ l.started = started
      /\ \A m \in leases : m.invocation = i => m.attempt # Len(jobs[i].attempts) + 1
  BY <1>1, LeaseOfFacts
<1>3. /\ Len(jobs[i].attempts) \in Nat
      /\ jobs'[i] # None
      /\ Len(jobs'[i].attempts) = Len(jobs[i].attempts) + 1
      /\ jobs'[i].attempts[Len(jobs[i].attempts) + 1].worker = w
  BY ClaimedOK
<1>4. l.attempt \in 1 .. Len(jobs'[i].attempts)
  BY <1>2, <1>3
<1>5. LeaseSound(l)'
  BY <1>2, <1>3, <1>4 DEF LeaseSound
<1>6. \A m, k \in leases' : m.invocation = k.invocation /\ m.attempt = k.attempt => m = k
  BY <1>1, <1>2, Facts DEF LeasesInv
<1>7. NewLeasesClaim
  BY <1>1, <1>2 DEF NewLeasesClaim, Claimable
<1> QED BY <1>1, <1>2, <1>5, <1>6, <1>7 DEF LeasesOK

LEMMA ClaimAloneGood ==
  ASSUME AdmissionInv, NEW i \in Invocations, NEW w \in Workers, ClaimAlone(i, w)
  PROVE  Good
<1>1. JobsOK
  BY ClaimedOK DEF ClaimAlone
<1>2. LogOK /\ StartsOK /\ ReceiptsOK
  BY LogStays, ReceiptsStay DEF ClaimAlone
<1>3. LeasesOK /\ leases \subseteq leases'
  <2>1. CASE leases' = leases
    BY <2>1, LeasesStay
  <2>2. CASE leases' = leases \cup {LeaseOf(i, w, FALSE)}
    BY <2>2, NewLeaseOK DEF ClaimAlone
  <2> QED BY <2>1, <2>2 DEF ClaimAlone
<1>4. AnswersOK /\ ObservationsOK /\ DecidesHonestly
  BY RestStays DEF ClaimAlone
<1>5. RestOK
  BY <1>3, Facts DEF RestOK, PreparedInv, ClaimAlone
<1> QED BY <1>1, <1>2, <1>3, <1>4, <1>5, Grown DEF Good

-----------------------------------------------------------------------------
(* The appends to the log.                                                 *)

LEMMA AppendOtherGood ==
  ASSUME AdmissionInv, NEW e \in Others, AppendOther(e)
  PROVE  Good
<1>1. e \in DomainEvents \ Minted
  BY RequestsAssumption
<1>2. /\ log' \in Seq(Row) /\ Len(log') = Len(log) + 1 /\ Len(log') <= MaxEvents
      /\ LogGrows /\ SequencesBounded'
      /\ log'[Len(log) + 1].event = e
      /\ DOMAIN log' = 1 .. Len(log) + 1
  BY <1>1, Facts, ExtendedGrows DEF AppendOther, InsertsEvent, Insertable
<1>3. LogOK
  BY <1>2, Facts DEF LogOK, LogTypeOK, AppendOther
<1>4. StartsOK
  <2>1. \A p \in DOMAIN log' \ DOMAIN log : p = Len(log) + 1
    BY <1>2, Facts, LogFacts
  <2> QED BY <1>1, <1>2, <2>1 DEF StartsOK
<1>5. JobsOK /\ ReceiptsOK /\ LeasesOK
  BY JobsStay, ReceiptsStay, LeasesStay DEF AppendOther, admissionVars, history
<1>6. AnswersOK /\ ObservationsOK /\ RestOK /\ DecidesHonestly
  BY RestStays DEF AppendOther, history
<1> QED BY <1>3, <1>4, <1>5, <1>6, Grown DEF Good

LEMMA AdmitFreshGood ==
  ASSUME AdmissionInv, NEW s \in Stores, NEW r \in Requests, NEW v,
         AdmitFresh(s, r, v)
  PROVE  Good
<1>0. r.invocation \in Invocations
  BY RequestInvocation
<1>1. /\ log' \in Seq(Row) /\ Len(log') <= MaxEvents
      /\ Len(r.events) \in Nat \ {0} /\ DOMAIN r.events = 1 .. Len(r.events)
      /\ Len(log') = Len(log) + Len(r.events)
      /\ DOMAIN log' = 1 .. Len(log) + Len(r.events)
      /\ LogGrows /\ SequencesBounded'
      /\ \A k \in 1 .. Len(r.events) :
           log'[Len(log) + k] =
             [event |-> r.events[k], sequence |-> StreamVersion(r.session) + k]
  BY Facts, BatchGrows DEF AdmitFresh
<1>2. LogOK
  BY <1>1, Facts DEF LogOK, LogTypeOK, AdmitFresh
<1>3. /\ JobsOK /\ jobs[r.invocation] = None
      /\ jobs'[r.invocation] # None /\ jobs'[r.invocation].spec = r
  BY FreshJobOK DEF AdmitFresh, Unadmitted
<1>4. PICK c : c = ReceiptOf(r)
  OBVIOUS
<1>5. /\ c.request = r /\ c.version = StreamVersion(r.session)
      /\ c.first = Len(log) + 1
  BY <1>4 DEF ReceiptOf
<1>6. c \in Receipt
  <2>1. StreamVersion(r.session) \in 0 .. Len(log) /\ Len(log) \in Nat
    BY Facts, VersionIs, LogFacts
  <2>2. Len(log) + 1 \in Positions /\ StreamVersion(r.session) \in 0 .. MaxEvents
    BY <1>1, <2>1, BoundAssumption DEF Positions
  <2> QED BY <1>4, <2>2 DEF ReceiptOf, Receipt
<1>7. receipts[r.invocation] = None
  BY <1>0, Facts DEF AdmitFresh, Unadmitted, AdmissionProvable, Competes
<1>8. /\ receipts' \in [Invocations -> Receipt \cup {None}]
      /\ receipts'[r.invocation] = c
      /\ \A i \in Invocations \ {r.invocation} : receipts'[i] = receipts[i]
  BY <1>0, <1>4, <1>6, Facts DEF AdmitFresh
<1>9. Proven(c)'
  <2>1. ASSUME NEW k \in DOMAIN r.events
        PROVE  /\ (Len(log) + 1) + k - 1 <= Len(log')
               /\ log'[(Len(log) + 1) + k - 1] =
                    [event |-> r.events[k], sequence |-> StreamVersion(r.session) + k]
    <3>1. Len(log) \in Nat /\ k \in 1 .. Len(r.events)
      BY <1>1, Facts, LogFacts
    <3>2. (Len(log) + 1) + k - 1 = Len(log) + k /\ Len(log) + k <= Len(log')
      BY <1>1, <3>1
    <3> QED BY <1>1, <3>1, <3>2
  <2> QED BY <1>3, <1>5, <2>1 DEF Proven
<1>10. ReceiptsOK
  <2>1. ReceiptsGrow
    BY <1>7, <1>8 DEF ReceiptsGrow
  <2>2. ASSUME NEW i \in Invocations, receipts[i] = None, receipts'[i] # None
        PROVE  /\ receipts'[i].request.invocation = i /\ Proven(receipts[i])'
               /\ \A j \in Invocations \ {i} : receipts'[j] # None =>
                    ~Competes(receipts'[i].request, receipts'[j].request)
    <3>1. i = r.invocation /\ receipts'[i] = c
      BY <1>8, <2>2
    <3>2. Proven(receipts[i])'
      BY <1>9, <3>1 DEF Proven
    <3>3. ASSUME NEW j \in Invocations \ {i}, receipts'[j] # None
          PROVE  ~Competes(r, receipts'[j].request)
      <4>1. receipts'[j] = receipts[j]
        BY <1>8, <3>1
      <4>2. ~Competes(receipts[j].request, r)
        BY <3>3, <4>1 DEF AdmitFresh, Unadmitted
      <4> QED BY <4>1, <4>2, CompetesBothWays
    <3> QED BY <1>5, <3>1, <3>2, <3>3
  <2> QED BY <1>8, <2>1, <2>2 DEF ReceiptsOK
<1>11. AnswersOK
  BY <1>4, <1>5, <1>6, <1>8 DEF AnswersOK, AdmitFresh, AnswerReceipt
<1>12. StartsOK
  <2>1. ASSUME NEW p \in DOMAIN log' \ DOMAIN log PROVE log'[p].event \notin Minted
    <3>1. PICK k \in 1 .. Len(r.events) : p = Len(log) + k
      <4>1. p - Len(log) \in 1 .. Len(r.events) /\ p = Len(log) + (p - Len(log))
        BY <1>1, <2>1, Facts, LogFacts
      <4> QED BY <4>1
    <3>2. log'[p] = [event |-> r.events[k], sequence |-> StreamVersion(r.session) + k]
      BY <1>1, <3>1
    <3>3. log'[p].event = r.events[k]
      BY <3>2
    <3>4. r.events[k] \in DomainEvents \ Minted
      BY <1>1, EventsOfRequest
    <3> QED BY <3>3, <3>4
  <2> QED BY <2>1 DEF StartsOK
<1>13. LeasesOK /\ ObservationsOK /\ DecidesHonestly
  BY LeasesStay, RestStays DEF AdmitFresh
<1>14. RestOK
  BY Facts DEF RestOK, PreparedInv, AdmitFresh, AnswerReceipt
<1> QED BY <1>2, <1>3, <1>10, <1>11, <1>12, <1>13, <1>14, Grown DEF Good

LEMMA StartEventFacts ==
  ASSUME NEW r \in Requests, NEW w \in Workers
  PROVE  /\ StartEvent(r, w) \in Minted /\ StartEvent(r, w) \in DomainEvents
         /\ StartEvent(r, w).stream = r.session /\ StartEvent(r, w).worker = w
         /\ StartEvent(r, w).key = <<"invocation-start", r.invocation>>
         /\ StartEvent(r, w).names = Names(r)
<1>1. PICK e : e = StartEvent(r, w)
  OBVIOUS
<1>2. /\ e.stream = r.session /\ e.worker = w /\ e.names = Names(r)
      /\ e.key = <<"invocation-start", r.invocation>>
  BY <1>1 DEF StartEvent
<1>3. e \in Minted
  BY <1>1 DEF Minted
<1>4. e \in DomainEvents
  BY <1>3, RequestsAssumption
<1> QED BY <1>1, <1>2, <1>3, <1>4

(* The events of an admission come before whatever is appended later.      *)
LEMMA ProvenBehind ==
  ASSUME AdmissionInv, NEW c \in Receipt, Proven(c)
  PROVE  /\ Len(log) + 1 >= c.first + Len(c.request.events)
         /\ StreamVersion(c.request.session) + 1 > c.version + Len(c.request.events)
<1>1. PICK n : n = Len(c.request.events) /\ n \in Nat \ {0} /\ n \in DOMAIN c.request.events
  BY ReceiptFacts
<1>2. c.first \in Nat \ {0} /\ c.version \in Nat /\ c.request \in Requests
  BY ReceiptFacts
<1>3. PICK p : p = c.first + n - 1
  OBVIOUS
<1>4. /\ p <= Len(log)
      /\ log[p] = [event |-> c.request.events[n], sequence |-> c.version + n]
  BY <1>1, <1>3 DEF Proven
<1>5. p \in DOMAIN log /\ Len(log) \in Nat
  BY <1>1, <1>2, <1>3, <1>4, Facts, LogFacts
<1>6. log[p].event = c.request.events[n] /\ log[p].sequence = c.version + n
  BY <1>4
<1>7. p \in RowsOf(c.request.session)
  BY <1>1, <1>2, <1>5, <1>6, RequestsAssumption DEF RowsOf
<1>8. /\ StreamVersion(c.request.session) \in 0 .. Len(log)
      /\ c.version + n <= StreamVersion(c.request.session)
  <2>1. PICK t : t = c.request.session
    OBVIOUS
  <2>2. LogTypeOK /\ SequencesBounded
    BY Facts
  <2>3. /\ StreamVersion(t) \in 0 .. Len(log)
        /\ \A q \in RowsOf(t) : log[q].sequence <= StreamVersion(t)
    BY <2>2, VersionIs
  <2>4. log[p].sequence <= StreamVersion(t)
    BY <1>7, <2>1, <2>3
  <2>5. c.version + n <= StreamVersion(t)
    BY <1>6, <2>4
  <2> QED BY <2>1, <2>3, <2>5
<1>9. Len(log) + 1 >= c.first + n
  <2>1. PICK m \in Nat : m = Len(log) /\ c.first + n - 1 <= m
    BY <1>3, <1>4, <1>5
  <2>2. PICK a \in Nat, b \in Nat : a = c.first /\ b = n
    BY <1>1, <1>2
  <2>3. m + 1 >= a + b
    BY <2>1, <2>2
  <2> QED BY <2>1, <2>2, <2>3
<1>10. StreamVersion(c.request.session) + 1 > c.version + n
  <2>1. PICK v \in Nat : v = StreamVersion(c.request.session) /\ c.version + n <= v
    BY <1>5, <1>8
  <2>2. v + 1 > c.version + n
    BY <1>1, <1>2, <2>1
  <2> QED BY <2>1, <2>2
<1> QED BY <1>1, <1>9, <1>10

LEMMA ClaimStartGood ==
  ASSUME AdmissionInv, NEW s \in Stores, NEW i \in Invocations, NEW scope,
         NEW w \in Workers, NEW v, ClaimStart(s, i, scope, w, v)
  PROVE  Good
<1>1. PICK c \in Receipt : c = receipts[i] /\ c # None /\ Proven(c)
  BY Facts DEF ClaimStart, CanonicalAdmission
<1>2. c.request \in Requests /\ c.request.invocation = i
  BY <1>1, ReceiptFacts, Facts DEF AdmissionProvable
<1>3. PICK e : e = StartEvent(c.request, w)
  OBVIOUS
<1>4. /\ e \in Minted /\ e \in DomainEvents /\ e.stream = c.request.session
      /\ e.worker = w /\ e.key = <<"invocation-start", i>>
  BY <1>2, <1>3, StartEventFacts
<1>5. /\ Claimable(i) /\ StartCandidates(c.request) = {}
      /\ jobs[i].attempts = <<>> /\ jobs[i].spec.max = 1
      /\ Len(log) < MaxEvents /\ log' = Extended(e)
      /\ jobs' = [jobs EXCEPT ![i] = Claimed(i, w)]
      /\ UNCHANGED <<outbox, inbox, snapshot, told, admitted, receipts, answers,
                     prepared, decision>>
  BY <1>1, <1>3 DEF ClaimStart, Unstarted, InsertsEvent, Insertable
<1>6. PICK p : p = Len(log) + 1
  OBVIOUS
<1>7. /\ log' \in Seq(Row) /\ Len(log') = p /\ Len(log') <= MaxEvents
      /\ LogGrows /\ SequencesBounded'
      /\ log'[p].event = e
      /\ log'[p].sequence = StreamVersion(e.stream) + 1
      /\ DOMAIN log' = 1 .. p
  BY <1>4, <1>5, <1>6, Facts, ExtendedGrows
<1>8. Len(log) \in Nat /\ p \in Positions /\ p \in DOMAIN log' /\ p \notin DOMAIN log
  BY <1>5, <1>6, <1>7, Facts, LogFacts DEF Positions
<1>9. LogOK
  BY <1>5, <1>7, Facts DEF LogOK, LogTypeOK
<1>10. /\ JobsOK /\ jobs'[i] # None /\ jobs'[i].spec = jobs[i].spec
       /\ Len(jobs'[i].attempts) = Len(jobs[i].attempts) + 1
       /\ jobs'[i].attempts[Len(jobs[i].attempts) + 1].worker = w
  BY <1>5, ClaimedOK
<1>11. Len(jobs'[i].attempts) = 1 /\ jobs'[i].attempts[1].worker = w
  <2>1. Len(jobs[i].attempts) = 0
    BY <1>5
  <2> QED BY <1>10, <2>1
<1>12. \A l \in leases : l.invocation # i
  <2> SUFFICES ASSUME NEW l \in leases, l.invocation = i PROVE FALSE
    OBVIOUS
  <2>1. l.attempt \in 1 .. Len(jobs[i].attempts)
    BY Facts DEF LeasesInv, LeaseSound
  <2>2. Len(jobs[i].attempts) = 0
    BY <1>5
  <2> QED BY <2>1, <2>2
<1>13. PICK o : o = [invocation |-> i, position |-> p, worker |-> w]
  OBVIOUS
<1>14. /\ o \in Observation /\ o.invocation = i /\ o.position = p /\ o.worker = w
  BY <1>8, <1>13 DEF Observation
<1>15. /\ LeasesOK /\ ObservationsOK /\ poisoned' \subseteq Stores
       /\ leases \subseteq leases'
       /\ \A l \in leases' : l.invocation = i => l.started
  <2>1. CASE UNCHANGED <<leases, observed>> /\ poisoned' = poisoned \cup {s}
    BY <1>12, <2>1, LeasesStay, RestStays, Facts
  <2>2. CASE /\ leases' = leases \cup {LeaseOf(i, w, TRUE)}
             /\ observed' = observed \cup {o}
             /\ UNCHANGED poisoned
    <3>1. LeasesOK
      BY <1>5, <1>14, <2>2, NewLeaseOK
    <3>2. LeaseOf(i, w, TRUE).started
      BY <1>5, LeaseOfFacts
    <3>3. ObservationSound(o)'
      <4>1. receipts'[i] = c /\ c # None
        BY <1>1, <1>5
      <4> QED BY <1>3, <1>7, <1>8, <1>14, <4>1 DEF ObservationSound
    <3>4. ObservationsOK
      BY <1>14, <2>2, <3>3 DEF ObservationsOK
    <3> QED BY <1>12, <2>2, <3>1, <3>2, <3>4, Facts
  <2> QED BY <1>6, <1>13, <2>1, <2>2 DEF ClaimStart
<1>16. StartSound(i, p)'
  <2>1. receipts'[i] = c /\ c # None
    BY <1>1, <1>5
  <2>2. /\ p >= c.first + Len(c.request.events)
        /\ log'[p].sequence > c.version + Len(c.request.events)
    BY <1>1, <1>4, <1>6, <1>7, ProvenBehind
  <2>3. jobs'[i].spec.max = 1
    BY <1>5, <1>10
  <2> QED BY <1>3, <1>7, <1>10, <1>11, <1>15, <2>1, <2>2, <2>3 DEF StartSound
<1>17. StartsOK
  <2>1. \A q \in DOMAIN log' \ DOMAIN log : q = p
    BY <1>6, <1>7, <1>8, Facts, LogFacts
  <2>2. ASSUME NEW q \in DOMAIN log', log'[q].event.key = e.key
        PROVE  p = q
    <3>1. CASE q \in DOMAIN log
      <4>1. log[q].event.key = <<"invocation-start", c.request.invocation>>
        BY <1>2, <1>4, <1>7, <2>2, <3>1 DEF LogGrows
      <4>2. q \in StartCandidates(c.request)
        BY <3>1, <4>1 DEF StartCandidates
      <4> QED BY <1>5, <4>2
    <3>2. CASE q \notin DOMAIN log
      BY <2>1, <3>2
    <3> QED BY <3>1, <3>2
  <2> QED BY <1>7, <1>16, <2>1, <2>2 DEF StartsOK
<1>18. ReceiptsOK /\ AnswersOK /\ DecidesHonestly
  BY <1>5, ReceiptsStay, RestStays
<1>19. RestOK
  BY <1>5, <1>15, Facts DEF RestOK, PreparedInv
<1> QED BY <1>9, <1>10, <1>15, <1>17, <1>18, <1>19, Grown DEF Good

-----------------------------------------------------------------------------
(* The steps that leave the rows alone.                                    *)

LEMMA RowsStayOK ==
  ASSUME AdmissionInv, UNCHANGED <<logVars, admissionVars, leases>>
  PROVE  LogOK /\ StartsOK /\ JobsOK /\ ReceiptsOK /\ LeasesOK
BY LogStays, JobsStay, ReceiptsStay, LeasesStay DEF admissionVars

LEMMA AdmitAgainGood ==
  ASSUME AdmissionInv, NEW s \in Stores, NEW r \in Requests, NEW v,
         AdmitAgain(s, r, v)
  PROVE  Good
<1>1. LogOK /\ StartsOK /\ JobsOK /\ ReceiptsOK /\ LeasesOK
  BY RowsStayOK DEF AdmitAgain
<1>2. ObservationsOK /\ DecidesHonestly
  BY RestStays DEF AdmitAgain
<1>3. RestOK
  BY Facts DEF RestOK, PreparedInv, AdmitAgain, AnswerReceipt
<1>4. AnswersOK
  <2>1. r.invocation \in Invocations
    BY RequestInvocation
  <2>2. PICK c \in Receipt : c = receipts[r.invocation] /\ c.request = r
    BY <2>1, Facts DEF AdmitAgain
  <2>3. answers' \subseteq answers \cup {c} /\ receipts' = receipts
    BY <2>2 DEF AdmitAgain, AnswerReceipt, admissionVars
  <2> QED BY <2>2, <2>3 DEF AnswersOK
<1> QED BY <1>1, <1>2, <1>3, <1>4, Grown DEF Good

LEMMA ObserveStartGood ==
  ASSUME AdmissionInv, NEW s \in Stores, NEW i \in Invocations, NEW scope,
         NEW p \in DOMAIN log, NEW v, ObserveStart(s, i, scope, p, v)
  PROVE  Good
<1>1. LogOK /\ StartsOK /\ JobsOK /\ ReceiptsOK /\ LeasesOK
  BY RowsStayOK DEF ObserveStart
<1>2. AnswersOK /\ RestOK /\ DecidesHonestly
  BY RestStays DEF ObserveStart
<1>3. ObservationsOK
  <2>1. PICK c \in Receipt : c = receipts[i] /\ c # None /\ c.request \in Requests
    BY Facts, ReceiptFacts DEF ObserveStart, CanonicalAdmission
  <2>2. jobs[i] \in Job
    <3>1. c.request.invocation = i /\ Proven(c)
      BY <2>1, Facts DEF AdmissionProvable
    <3> QED BY <3>1, Facts DEF Proven
  <2>3. PICK w \in Workers : w = jobs[i].attempts[1].worker
    <3>1. Len(jobs[i].attempts) = 1
      BY DEF ObserveStart, StartedAt
    <3>2. 1 \in 1 .. Len(jobs[i].attempts)
      BY <3>1
    <3> QED BY <2>2, <3>2, JobFacts
  <2>4. log[p].event = StartEvent(c.request, w)
    BY <2>1, <2>3 DEF ObserveStart, StartedAt
  <2>5. log[p].event.worker = w
    BY <2>1, <2>4, StartEventFacts
  <2>6. p \in Positions
    <3>1. Len(log) <= MaxEvents
      BY Facts DEF LogTypeOK
    <3> QED BY <3>1, Facts, LogFacts DEF Positions
  <2>7. PICK o : o = Observe(i, p)
    OBVIOUS
  <2>8. o \in Observation /\ o.invocation = i /\ o.position = p /\ o.worker = w
    BY <2>5, <2>6, <2>7 DEF Observe, Observation
  <2>9. observed' = observed \cup {o} /\ receipts' = receipts /\ log' = log
    BY <2>7 DEF ObserveStart, admissionVars, logVars
  <2>10. ObservationSound(o)'
    BY <2>1, <2>4, <2>8, <2>9 DEF ObservationSound
  <2> QED BY <2>8, <2>9, <2>10 DEF ObservationsOK
<1> QED BY <1>1, <1>2, <1>3, Grown DEF Good

LEMMA PoisonGood ==
  ASSUME AdmissionInv, NEW s \in Stores, Abandon(s) \/ Reopen(s)
  PROVE  Good
<1>1. UNCHANGED <<logVars, admissionVars, history>> /\ poisoned' \subseteq Stores
  BY Facts DEF Abandon, Reopen
<1>2. LogOK /\ StartsOK /\ JobsOK /\ ReceiptsOK /\ LeasesOK
  BY <1>1, RowsStayOK DEF history
<1>3. AnswersOK /\ ObservationsOK /\ DecidesHonestly
  BY <1>1, RestStays DEF history
<1>4. RestOK
  BY <1>1, Facts DEF RestOK, PreparedInv, history
<1> QED BY <1>2, <1>3, <1>4, Grown DEF Good

LEMMA PrepareGood ==
  ASSUME AdmissionInv, NEW l \in leases, NEW r \in Requests, Prepare(l, r)
  PROVE  Good
<1>1. LogOK /\ StartsOK /\ JobsOK /\ ReceiptsOK /\ LeasesOK
  BY RowsStayOK DEF Prepare
<1>2. AnswersOK /\ ObservationsOK /\ DecidesHonestly
  BY RestStays DEF Prepare
<1>3. RestOK
  BY Facts DEF RestOK, PreparedInv, Prepare
<1> QED BY <1>1, <1>2, <1>3, Grown DEF Good

-----------------------------------------------------------------------------
(* Recovery: a task of a session has one job, and a start of the task is a *)
(* start of that job.                                                      *)

LEMMA OneJobOf ==
  ASSUME AdmissionInv, NEW s, NEW t, NEW i \in JobsOf(s, t), NEW j \in JobsOf(s, t)
  PROVE  i = j
<1>1. /\ i \in Invocations /\ j \in Invocations
      /\ jobs[i] # None /\ jobs[j] # None
      /\ jobs[i].spec.session = jobs[j].spec.session
      /\ jobs[i].spec.task = jobs[j].spec.task
  BY DEF JobsOf
<1>2. Competes(jobs[i].spec, jobs[j].spec)
  BY <1>1 DEF Competes
<1> QED BY <1>1, <1>2, Facts DEF JobsInv

LEMMA StartHasJob ==
  ASSUME AdmissionInv, NEW s, NEW t, NEW p \in StartsOf(s, t)
  PROVE  \E i \in JobsOf(s, t) : Len(jobs[i].attempts) = 1
<1>1. /\ p \in DOMAIN log /\ log[p].event \in Minted /\ log[p].event.stream = s
      /\ <<"task", t>> \in log[p].event.names
  BY DEF StartsOf, RowsOf
<1>2. PICK i \in Invocations : StartSound(i, p)
  BY <1>1, Facts DEF StartsInv
<1>3. PICK c \in Receipt : c = receipts[i]
  BY <1>2, Facts DEF StartSound
<1>4. c.request.invocation = i /\ Proven(c)
  BY <1>2, <1>3, Facts DEF StartSound, AdmissionProvable
<1>5. jobs[i] # None /\ jobs[i].spec = c.request /\ Len(jobs[i].attempts) = 1
  BY <1>2, <1>4 DEF StartSound, Proven
<1>6. PICK w \in Workers : log[p].event = StartEvent(c.request, w)
  <2>1. jobs[i] \in Job
    BY <1>5, Facts
  <2>2. jobs[i].attempts[1].worker \in Workers
    BY <1>5, <2>1, JobFacts
  <2> QED BY <1>2, <1>3, <2>2 DEF StartSound
<1>7. c.request.session = s /\ <<"task", t>> \in Names(c.request)
  BY <1>1, <1>6, ReceiptFacts, StartEventFacts
<1>8. c.request.task = t
  BY <1>7 DEF Names
<1> QED BY <1>5, <1>7, <1>8 DEF JobsOf

LEMMA NothingClaimed ==
  ASSUME AdmissionInv, NEW s, NEW t,
         \A i \in JobsOf(s, t) : jobs[i].attempts = <<>>
  PROVE  LeasesOf(s, t) = {} /\ StartsOf(s, t) = {}
<1>1. \A i \in JobsOf(s, t) : Len(jobs[i].attempts) = 0
  OBVIOUS
<1>2. ASSUME NEW l \in LeasesOf(s, t) PROVE FALSE
  <2>1. l \in leases /\ l.invocation \in JobsOf(s, t)
    BY <1>2 DEF LeasesOf
  <2>2. l.attempt \in 1 .. Len(jobs[l.invocation].attempts)
    BY <2>1, Facts DEF LeasesInv, LeaseSound
  <2>3. Len(jobs[l.invocation].attempts) = 0
    BY <1>1, <2>1
  <2> QED BY <2>2, <2>3
<1>3. ASSUME NEW p \in StartsOf(s, t) PROVE FALSE
  <2>1. PICK i \in JobsOf(s, t) : Len(jobs[i].attempts) = 1
    BY <1>3, StartHasJob
  <2> QED BY <1>1, <2>1
<1> QED BY <1>2, <1>3

LEMMA HonestVerdict ==
  ASSUME NEW s, NEW t, NEW v, decision' = <<s, t, v>>,
         v \in {"first_claim_ready", "missing_job"} =>
           LeasesOf(s, t) = {} /\ StartsOf(s, t) = {},
         v = "receipt_unverified" => LeasesOf(s, t) # {},
         v \notin {"first_claim_ready", "missing_job", "receipt_unverified"} =>
           \E i \in JobsOf(s, t) : jobs[i].attempts # <<>>
  PROVE  DecidesHonestly
<1>1. decision'[1] = s /\ decision'[2] = t /\ decision'[3] = v
  OBVIOUS
<1>2. CASE v \in {"first_claim_ready", "missing_job"}
  BY <1>1, <1>2 DEF DecidesHonestly
<1>3. CASE v = "receipt_unverified"
  BY <1>1, <1>3 DEF DecidesHonestly
<1>4. CASE v \notin {"first_claim_ready", "missing_job", "receipt_unverified"}
  BY <1>1, <1>4 DEF DecidesHonestly
<1> QED BY <1>2, <1>3, <1>4

LEMMA AssessmentIs ==
  ASSUME AdmissionInv, NEW i \in Invocations, jobs[i] # None
  PROVE  /\ Assessment(i) \in Decisions \ {"missing_job", "receipt_unverified"}
         /\ Assessment(i) = "first_claim_ready" <=> jobs[i].attempts = <<>>
<1>1. PICK j \in Job : j = jobs[i]
  BY Facts
<1>2. j.status \in {"queued", "running", "succeeded", "failed"}
  BY JobFacts DEF AttemptStatus
<1>3. j.attempts = <<>> => j.status = "queued"
  BY <1>1, Facts DEF JobsInv, JobSound
<1>4. CASE j.status = "queued" /\ j.attempts = <<>>
  BY <1>1, <1>4 DEF Assessment, Decisions
<1>5. CASE j.status = "queued" /\ j.attempts # <<>>
  BY <1>1, <1>5 DEF Assessment, Decisions
<1>6. CASE j.status = "running"
  BY <1>1, <1>3, <1>6 DEF Assessment, Decisions
<1>7. CASE j.status = "succeeded"
  BY <1>1, <1>3, <1>7 DEF Assessment, Decisions
<1>8. CASE j.status = "failed"
  BY <1>1, <1>3, <1>8 DEF Assessment, Decisions
<1> QED BY <1>2, <1>4, <1>5, <1>6, <1>7, <1>8

LEMMA AssessGood ==
  ASSUME AdmissionInv, NEW r \in Requests, NEW l \in leases \cup {None}, Assess(r, l)
  PROVE  Good
<1>1. UNCHANGED <<logVars, admissionVars, poisoned, answers, leases, observed, prepared>>
  BY DEF Assess
<1>2. LogOK /\ StartsOK /\ JobsOK /\ ReceiptsOK /\ LeasesOK
  BY <1>1, RowsStayOK
<1>3. AnswersOK /\ ObservationsOK
  BY <1>1 DEF AnswersOK, ObservationsOK
<1>4. PICK s \in Sessions, t \in Tasks : s = r.session /\ t = r.task
  BY RequestInvocation
<1>5. \E v \in Decisions : decision' = <<s, t, v>> /\ DecidesHonestly
  <2>1. CASE JobsOf(s, t) = {} /\ decision' = <<s, t, "missing_job">>
    <3>1. LeasesOf(s, t) = {} /\ StartsOf(s, t) = {}
      BY <2>1, NothingClaimed
    <3>2. DecidesHonestly
      BY <2>1, <3>1, HonestVerdict
    <3> QED BY <2>1, <3>2 DEF Decisions
  <2>2. CASE \E i \in JobsOf(s, t) : decision' = <<s, t, Assessment(i)>>
    <3>1. PICK i \in JobsOf(s, t) : decision' = <<s, t, Assessment(i)>>
      BY <2>2
    <3>2. i \in Invocations /\ jobs[i] # None
      BY <3>1 DEF JobsOf
    <3>3. PICK v \in Decisions \ {"missing_job", "receipt_unverified"} :
            v = Assessment(i) /\ (v = "first_claim_ready" <=> jobs[i].attempts = <<>>)
      BY <3>2, AssessmentIs
    <3>4. v = "first_claim_ready" => LeasesOf(s, t) = {} /\ StartsOf(s, t) = {}
      <4>1. \A j \in JobsOf(s, t) : j = i
        BY <3>1, OneJobOf
      <4> QED BY <3>3, <4>1, NothingClaimed
    <3>5. DecidesHonestly
      BY <3>1, <3>3, <3>4, HonestVerdict
    <3> QED BY <3>1, <3>3, <3>5
  <2>3. CASE \E i \in JobsOf(s, t) : l # None /\ ReceiptMatches(i, l)
               /\ decision' = <<s, t, "receipt_unverified">>
    <3>1. l \in LeasesOf(s, t)
      BY <2>3 DEF ReceiptMatches, LeasesOf
    <3>2. DecidesHonestly
      BY <2>3, <3>1, HonestVerdict
    <3> QED BY <2>3, <3>2 DEF Decisions
  <2> QED BY <1>4, <2>1, <2>2, <2>3 DEF Assess
<1>6. RestOK
  BY <1>1, <1>4, <1>5, Facts DEF RestOK, PreparedInv
<1> QED BY <1>2, <1>3, <1>5, <1>6, Grown DEF Good

-----------------------------------------------------------------------------
LEMMA AdmissionInitial ==
  ASSUME Init
  PROVE  AdmissionInv
<1>1. log = <<>> /\ Len(log) = 0 /\ DOMAIN log = {}
  BY DEF Init, LogInit
<1>2. TypeOK
  BY BoundAssumption DEF Init, LogInit, NoSideRows, TypeOK, LogTypeOK
<1>3. SequencesBounded /\ StartsInv
  BY <1>1 DEF SequencesBounded, StartsInv
<1>4. JobsInv /\ AdmissionProvable
  BY DEF Init, JobsInv, AdmissionProvable
<1>5. LeasesInv /\ ObservedInv /\ PreparedInv
  BY DEF Init, LeasesInv, ObservedInv, PreparedInv
<1> QED BY <1>2, <1>3, <1>4, <1>5 DEF AdmissionInv

LEMMA AdmissionStutters ==
  ASSUME AdmissionInv, UNCHANGED vars
  PROVE  Good
<1>1. UNCHANGED <<logVars, admissionVars, history>> /\ poisoned' = poisoned
  BY DEF vars
<1>2. LogOK /\ StartsOK /\ JobsOK /\ ReceiptsOK /\ LeasesOK
  BY <1>1, RowsStayOK DEF history
<1>3. AnswersOK /\ ObservationsOK /\ DecidesHonestly
  BY <1>1, RestStays DEF history
<1>4. RestOK
  BY <1>1, Facts DEF RestOK, PreparedInv, history
<1> QED BY <1>2, <1>3, <1>4, Grown DEF Good

LEMMA AdmissionStep ==
  ASSUME AdmissionInv, [Next]_vars
  PROVE  AdmissionInv' /\ [DecidesHonestly]_vars
<1>1. ASSUME NEW s \in Stores, NEW r \in Requests, NEW v \in Wanted,
             AdmitFresh(s, r, v) \/ AdmitAgain(s, r, v)
      PROVE  Good
  BY <1>1, AdmitFreshGood, AdmitAgainGood
<1>2. ASSUME NEW s \in Stores, NEW i \in Invocations, NEW w \in Workers, NEW v \in Wanted,
             \/ ClaimInvocationStart(s, i, w, v)
             \/ \E c \in Scopes : ClaimScopedInvocationStart(s, i, c, w, v)
      PROVE  Good
  BY <1>2, ClaimStartGood DEF ClaimInvocationStart, ClaimScopedInvocationStart
<1>3. ASSUME NEW s \in Stores, NEW i \in Invocations, NEW p \in DOMAIN log, NEW v \in Wanted,
             \/ ReadInvocationStart(s, i, p, v)
             \/ \E c \in Scopes : ReadScopedInvocationStart(s, i, c, p, v)
      PROVE  Good
  BY <1>3, ObserveStartGood DEF ReadInvocationStart, ReadScopedInvocationStart
<1>4. ASSUME NEW s \in Stores, Abandon(s) \/ Reopen(s) PROVE Good
  BY <1>4, PoisonGood
<1>5. ASSUME NEW l \in leases, NEW r \in Requests, Prepare(l, r) PROVE Good
  BY <1>5, PrepareGood
<1>6. ASSUME NEW r \in Requests, NEW l \in leases \cup {None}, Assess(r, l) PROVE Good
  BY <1>6, AssessGood
<1>7. ASSUME NEW r \in Requests, EnqueueAlone(r) PROVE Good
  BY <1>7, EnqueueAloneGood
<1>8. ASSUME NEW i \in Invocations, NEW w \in Workers, ClaimAlone(i, w) PROVE Good
  BY <1>8, ClaimAloneGood
<1>9. ASSUME NEW i \in Invocations, NEW x \in AttemptStatus \ {"running"}, EndAttempt(i, x)
      PROVE  Good
  BY <1>9, EndAttemptGood
<1>10. ASSUME NEW e \in Others, AppendOther(e) PROVE Good
  BY <1>10, AppendOtherGood
<1>11. CASE UNCHANGED vars
  BY <1>11, AdmissionStutters DEF Good
<1>12. CASE Next
  <2>1. Good
    BY <1>1, <1>2, <1>3, <1>4, <1>5, <1>6, <1>7, <1>8, <1>9, <1>10, <1>12, Zenon DEF Next
  <2> QED BY <2>1 DEF Good
<1> QED BY <1>11, <1>12

-----------------------------------------------------------------------------
(* The authority of a canonical invocation, from the invariant.            *)

LEMMA AdmittedFacts ==
  ASSUME AdmissionInv, NEW i \in Invocations, receipts[i] # None
  PROVE  /\ receipts[i] \in Receipt /\ receipts[i].request \in Requests
         /\ receipts[i].request.invocation = i
         /\ jobs[i] \in Job /\ jobs[i] # None /\ JobSound(i, jobs[i])
         /\ jobs[i].spec = receipts[i].request
<1>1. PICK c \in Receipt : c = receipts[i]
  BY Facts
<1>2. c.request.invocation = i /\ Proven(c)
  BY <1>1, Facts DEF AdmissionProvable
<1>3. jobs[i] # None /\ jobs[i].spec = c.request
  BY <1>2 DEF Proven
<1>4. jobs[i] \in Job /\ JobSound(i, jobs[i])
  BY <1>3, Facts DEF JobsInv
<1> QED BY <1>1, <1>2, <1>3, <1>4, ReceiptFacts

LEMMA StartIsOf ==
  ASSUME AdmissionInv, NEW i \in Invocations, receipts[i] # None,
         NEW w \in Workers, NEW p \in DOMAIN log,
         log[p].event = StartEvent(receipts[i].request, w)
  PROVE  /\ StartSound(i, p) /\ log[p].event \in Minted
         /\ log[p].event.key = <<"invocation-start", i>>
         /\ jobs[i].attempts[1].worker = w
<1>1. /\ log[p].event \in Minted /\ log[p].event.worker = w
      /\ log[p].event.key = <<"invocation-start", i>>
  BY AdmittedFacts, StartEventFacts
<1>2. PICK j \in Invocations : StartSound(j, p)
  BY <1>1, Facts DEF StartsInv
<1>3. PICK x \in Workers : x = jobs[j].attempts[1].worker
  <2>1. receipts[j] # None /\ Len(jobs[j].attempts) = 1
    BY <1>2 DEF StartSound
  <2>2. jobs[j] \in Job
    BY <2>1, AdmittedFacts
  <2> QED BY <2>1, <2>2, JobFacts
<1>4. receipts[j] # None /\ log[p].event = StartEvent(receipts[j].request, x)
  BY <1>2, <1>3 DEF StartSound
<1>5. log[p].event.key = <<"invocation-start", j>> /\ log[p].event.worker = x
  BY <1>4, AdmittedFacts, StartEventFacts
<1>6. j = i /\ x = w
  BY <1>1, <1>5
<1> QED BY <1>1, <1>2, <1>3, <1>6

(* A canonical job has one attempt, and every lease of it is of that one.  *)
LEMMA LeasesAreOne ==
  ASSUME AdmissionInv, NEW i \in Invocations, receipts[i] # None,
         Canonical(receipts[i].request)
  PROVE  Cardinality({l \in leases : l.invocation = i}) <= 1
<1>1. PICK S : S = {l \in leases : l.invocation = i}
  OBVIOUS
<1>2. jobs[i].spec.max = 1 /\ jobs[i] \in Job /\ JobSound(i, jobs[i])
  BY AdmittedFacts, RequestsAssumption DEF Canonical
<1>3. PICK n \in Nat : n = Len(jobs[i].attempts)
  BY <1>2, JobFacts
<1>4. n <= 1
  BY <1>2, <1>3 DEF JobSound
<1>5. ASSUME NEW l \in S PROVE l.attempt = 1
  <2>1. l.attempt \in 1 .. n
    BY <1>1, <1>3, <1>5, Facts DEF LeasesInv, LeaseSound
  <2> QED BY <1>4, <2>1
<1>6. \A l, m \in S : l = m
  BY <1>1, <1>5, Facts DEF LeasesInv
<1>7. CASE S = {}
  BY <1>1, <1>7, FS_EmptySet
<1>8. CASE S # {}
  <2>1. PICK l : S = {l}
    <3>1. PICK l \in S : TRUE
      BY <1>8
    <3>2. S = {l}
      BY <1>6, <3>1
    <3> QED BY <3>2
  <2>2. Cardinality(S) = 1
    BY <2>1, FS_Singleton
  <2> QED BY <1>1, <2>2
<1> QED BY <1>7, <1>8

LEMMA StartsReadBack ==
  ASSUME AdmissionInv, NEW i \in Invocations, receipts[i] # None,
         Canonical(receipts[i].request)
  PROVE  StartReadable(i)
<1>1. PICK C : C = StartCandidates(receipts[i].request)
  OBVIOUS
<1>2. SUFFICES ASSUME \A p \in C :
                        \E w \in Workers : log[p].event = StartEvent(receipts[i].request, w),
                      jobs[i].attempts # <<>> => C # {}
               PROVE  Unstarted(i) \/ \E p \in DOMAIN log : StartedAt(i, p)
  BY <1>1 DEF StartReadable
<1>3. jobs[i].spec.max = 1 /\ JobSound(i, jobs[i])
  BY AdmittedFacts, RequestsAssumption DEF Canonical
<1>4. CASE C = {}
  <2>1. jobs[i].attempts = <<>> /\ jobs[i].status = "queued"
    BY <1>2, <1>3, <1>4 DEF JobSound
  <2> QED BY <1>1, <1>3, <1>4, <2>1 DEF Unstarted
<1>5. CASE C # {}
  <2>1. PICK p : p \in C
    BY <1>5
  <2>2. C \subseteq DOMAIN log
    BY <1>1 DEF StartCandidates
  <2>3. StartSound(i, p) /\ log[p].event \in Minted
    BY <1>2, <2>1, <2>2, StartIsOf
  <2>4. ASSUME NEW q \in C PROVE q = p
    <3>1. /\ log[q].event \in Minted /\ log[q].event.key = <<"invocation-start", i>>
          /\ log[p].event.key = <<"invocation-start", i>>
      BY <1>2, <2>1, <2>2, <2>4, StartIsOf
    <3> QED BY <2>1, <2>2, <2>3, <2>4, <3>1, Facts DEF StartsInv
  <2>5. StartCandidates(receipts[i].request) = {p}
    BY <1>1, <2>1, <2>4
  <2>6. StartedAt(i, p)
    BY <2>3, <2>5 DEF StartedAt, StartSound
  <2> QED BY <2>1, <2>2, <2>6
<1> QED BY <1>4, <1>5

LEMMA ObservationsName ==
  ASSUME AdmissionInv, NEW o \in observed
  PROVE  /\ log[o.position].event = StartEvent(receipts[o.invocation].request, o.worker)
         /\ jobs[o.invocation].attempts[1].worker = o.worker
         /\ \A l \in leases : l.invocation = o.invocation =>
              l.started /\ l.worker = o.worker
<1>1. o.invocation \in Invocations /\ o.worker \in Workers
  <2>1. o \in Observation
    BY Facts
  <2> QED BY <2>1 DEF Observation
<1>2. /\ receipts[o.invocation] # None /\ o.position \in DOMAIN log
      /\ log[o.position].event = StartEvent(receipts[o.invocation].request, o.worker)
  BY Facts DEF ObservedInv
<1>3. StartSound(o.invocation, o.position) /\ jobs[o.invocation].attempts[1].worker = o.worker
  BY <1>1, <1>2, StartIsOf
<1>4. ASSUME NEW l \in leases, l.invocation = o.invocation
      PROVE  l.started /\ l.worker = o.worker
  <2>1. Len(jobs[o.invocation].attempts) = 1 /\ l.started
    BY <1>3, <1>4 DEF StartSound
  <2>2. /\ l.attempt \in 1 .. Len(jobs[o.invocation].attempts)
        /\ jobs[o.invocation].attempts[l.attempt].worker = l.worker
    BY <1>4, Facts DEF LeasesInv, LeaseSound
  <2>3. l.attempt = 1
    BY <2>1, <2>2
  <2> QED BY <1>3, <2>1, <2>2, <2>3
<1> QED BY <1>2, <1>3, <1>4

LEMMA AuthorityIsOne ==
  ASSUME AdmissionInv
  PROVE  StartAuthority
<1>1. ASSUME NEW l \in prepared
      PROVE  l \in leases /\ \E o \in observed :
               o.invocation = l.invocation /\ o.worker = l.worker
  <2>1. l \in leases /\ l.started
    BY <1>1, Facts DEF PreparedInv
  <2>2. LeaseSound(l)
    BY <2>1, Facts DEF LeasesInv
  <2> QED BY <2>1, <2>2 DEF LeaseSound
<1> QED BY <1>1, LeasesAreOne, StartsReadBack, ObservationsName DEF StartAuthority

-----------------------------------------------------------------------------
(* Every admission, job, lease, start and observation stays consistent     *)
(* with the others, whatever admissions, claims, attempts and other        *)
(* writers do (the inductive invariant).                                   *)
THEOREM AdmissionInvariance == Spec => []AdmissionInv
<1>1. Init => AdmissionInv
  BY AdmissionInitial
<1>2. AdmissionInv /\ [Next]_vars => AdmissionInv'
  BY AdmissionStep
<1> QED BY <1>1, <1>2, PTL DEF Spec

(* The rows, receipts, leases and decisions keep their types.              *)
THEOREM AdmissionTypeCorrect == Spec => []TypeOK
<1>1. AdmissionInv => TypeOK
  BY DEF AdmissionInv
<1> QED BY <1>1, AdmissionInvariance, PTL

(* A committed admission stays provable and answers every retry with the   *)
(* same receipt; no task, job key or event is admitted twice               *)
(* (append_invocation_admission).                                          *)
THEOREM AdmissionsStayProvable == Spec => []AdmissionProvable
<1>1. AdmissionInv => AdmissionProvable
  BY DEF AdmissionInv
<1> QED BY <1>1, AdmissionInvariance, PTL

(* One lease at most is ever handed out for a canonical invocation, every  *)
(* receipt, attempt, event and prepared worker names the same worker, and  *)
(* the start can be read back (claim_invocation_start,                     *)
(* _load_invocation_start_in_transaction).                                 *)
THEOREM StartAuthorityIsUnique == Spec => []StartAuthority
<1>1. AdmissionInv => StartAuthority
  BY AuthorityIsOne
<1> QED BY <1>1, AdmissionInvariance, PTL

(* Recovery calls a task unclaimed, or without a job, only when no lease   *)
(* and no start of it exists (assess_invocation_recovery).                 *)
THEOREM RecoveryIsHonest == Spec => RecoveryHonest
<1>1. AdmissionInv /\ [Next]_vars => [DecidesHonestly]_vars
  BY AdmissionStep
<1> QED BY <1>1, AdmissionInvariance, PTL DEF Spec, RecoveryHonest
=============================================================================
