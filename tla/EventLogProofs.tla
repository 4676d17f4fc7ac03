---------------------------- MODULE EventLogProofs ----------------------------
(***************************************************************************)
(* Proofs about the event log (EventStore), about the projections that     *)
(* read it (Projections) and about the artifact ledgers that read and      *)
(* write it (ArtifactLedger), for any events, streams, deliveries, workers *)
(* and ledgers.                                                            *)
(***************************************************************************)
EXTENDS Projections, ArtifactLedger, TLAPS, FiniteSetTheorems, SequenceTheorems,
        WellFoundedInduction

-----------------------------------------------------------------------------
(* A log in order, as a sequence L of rows: ids are unique, and keys       *)
(* within a stream; a row's sequence counts the rows of its stream up to   *)
(* it, so that the last row of a stream has the number of its rows.        *)

RowsIn(L, s) == {p \in DOMAIN L : L[p].event.stream = s}

IdsUnique(L) ==
  \A p, q \in DOMAIN L : L[p].event.id = L[q].event.id => p = q

KeysUnique(L) ==
  \A p, q \in DOMAIN L :
    /\ L[p].event.stream = L[q].event.stream
    /\ L[p].event.key # None
    /\ L[p].event.key = L[q].event.key
    => p = q

Sequenced(L) ==
  \A p \in DOMAIN L :
    L[p].sequence = Cardinality({q \in RowsIn(L, L[p].event.stream) : q <= p})

Headed(L) ==
  \A s : RowsIn(L, s) # {} =>
    \E p \in RowsIn(L, s) : L[p].sequence = Cardinality(RowsIn(L, s))

LogOK(L) ==
  /\ L \in Seq(Row) /\ Len(L) <= MaxEvents
  /\ IdsUnique(L)
  /\ KeysUnique(L)
  /\ Sequenced(L)
  /\ Headed(L)

LEMMA MaxIs ==
  ASSUME NEW S, S \subseteq Int, NEW n \in S, \A y \in S : n >= y
  PROVE  Max(S) = n
<1>1. PICK m : m = Max(S)
  OBVIOUS
<1>2. m \in S /\ \A y \in S : m >= y
  BY <1>1 DEF Max
<1>3. m >= n /\ n >= m /\ m \in Int /\ n \in Int
  BY <1>2
<1> QED BY <1>1, <1>3

LEMMA RowsFinite ==
  ASSUME NEW L \in Seq(Row), NEW s
  PROVE  /\ Len(L) \in Nat /\ DOMAIN L = 1 .. Len(L)
         /\ IsFiniteSet(RowsIn(L, s))
         /\ Cardinality(RowsIn(L, s)) \in 0 .. Len(L)
         /\ \A T \in SUBSET RowsIn(L, s) :
              /\ IsFiniteSet(T) /\ Cardinality(T) \in Nat
              /\ Cardinality(T) <= Cardinality(RowsIn(L, s))
<1>1. PICK n \in Nat : n = Len(L) /\ DOMAIN L = 1 .. n
  OBVIOUS
<1>2. IsFiniteSet(1 .. n) /\ Cardinality(1 .. n) = n
  <2>1. IsFiniteSet(1 .. n) /\ Cardinality(1 .. n) = IF 1 > n THEN 0 ELSE n - 1 + 1
    BY FS_Interval
  <2>2. (IF 1 > n THEN 0 ELSE n - 1 + 1) = n
    OBVIOUS
  <2> QED BY <2>1, <2>2
<1>3. RowsIn(L, s) \in SUBSET (1 .. n)
  BY <1>1 DEF RowsIn
<1>4. IsFiniteSet(RowsIn(L, s)) /\ Cardinality(RowsIn(L, s)) <= n
  BY <1>2, <1>3, FS_Subset
<1>5. Cardinality(RowsIn(L, s)) \in Nat
  BY <1>4, FS_CardinalityType
<1>6. Cardinality(RowsIn(L, s)) \in 0 .. n
  BY <1>4, <1>5
<1>7. ASSUME NEW T \in SUBSET RowsIn(L, s)
      PROVE  /\ IsFiniteSet(T) /\ Cardinality(T) \in Nat
             /\ Cardinality(T) <= Cardinality(RowsIn(L, s))
  <2>1. IsFiniteSet(T) /\ Cardinality(T) <= Cardinality(RowsIn(L, s))
    BY <1>4, <1>7, FS_Subset
  <2> QED BY <2>1, FS_CardinalityType
<1> QED BY <1>1, <1>4, <1>6, <1>7

(* StreamVersion is MAX(sequence), or 0: the number of rows of the stream. *)
LEMMA VersionIsCount ==
  ASSUME LogOK(log), NEW s
  PROVE  /\ RowsOf(s) = RowsIn(log, s)
         /\ StreamVersion(s) = Cardinality(RowsIn(log, s))
<1> DEFINE R == RowsIn(log, s)
           S == {0} \cup {log[p].sequence : p \in R}
           n == Cardinality(R)
<1>0. RowsOf(s) = R
  BY DEF RowsOf, RowsIn
<1>1. n \in Nat /\ IsFiniteSet(R)
  BY RowsFinite DEF LogOK
<1>2. \A p \in R : log[p].sequence = Cardinality({q \in R : q <= p})
  BY DEF LogOK, Sequenced, RowsIn
<1>3. \A p \in R : log[p].sequence \in Nat /\ log[p].sequence <= n
  <2> SUFFICES ASSUME NEW p \in R
               PROVE  log[p].sequence \in Nat /\ log[p].sequence <= n
    OBVIOUS
  <2>1. {q \in R : q <= p} \in SUBSET R
    OBVIOUS
  <2> QED BY <1>2, <2>1, RowsFinite DEF LogOK
<1>4. n \in S
  <2>1. CASE R = {}
    BY <2>1, FS_EmptySet
  <2>2. CASE R # {}
    BY <2>2 DEF LogOK, Headed
  <2> QED BY <2>1, <2>2
<1>5. S \subseteq Int /\ \A y \in S : n >= y
  BY <1>1, <1>3
<1>6. StreamVersion(s) = Max(S)
  BY <1>0 DEF StreamVersion
<1> HIDE DEF S, n
<1> QED BY <1>0, <1>4, <1>5, <1>6, MaxIs DEF n

(* One more row behind the last.                                           *)
Insertion(L, e) ==
  /\ Len(L) < MaxEvents
  /\ \A p \in DOMAIN L : L[p].event.id # e.id
  /\ \A p \in RowsIn(L, e.stream) : e.key # None => L[p].event.key # e.key

NewRow(L, e) == [event |-> e, sequence |-> Cardinality(RowsIn(L, e.stream)) + 1]

OneMore(L, M, e) ==
  /\ Len(L) \in Nat /\ DOMAIN L = 1 .. Len(L)
  /\ Len(M) = Len(L) + 1 /\ DOMAIN M = 1 .. Len(M)
  /\ \A p \in DOMAIN L : M[p] = L[p]
  /\ M[Len(M)].event = e
  /\ \A s : RowsIn(M, s) = IF s = e.stream THEN RowsIn(L, s) \cup {Len(M)}
                           ELSE RowsIn(L, s)

LEMMA RowAppended ==
  ASSUME NEW L, LogOK(L), NEW e \in DomainEvents, Insertion(L, e),
         NEW M, M = Append(L, NewRow(L, e))
  PROVE  LogOK(M) /\ OneMore(L, M, e)
<1> USE DEF Insertion, NewRow
<1> DEFINE n == Cardinality(RowsIn(L, e.stream))
           l == Len(L) + 1
<1>0. L \in Seq(Row) /\ Len(L) \in Nat /\ DOMAIN L = 1 .. Len(L)
  BY RowsFinite DEF LogOK
<1>1. n \in 0 .. Len(L)
  BY <1>0, RowsFinite
<1>2. n + 1 \in Positions
  BY <1>0, <1>1, BoundAssumption DEF Positions
<1>3. PICK row : row = [event |-> e, sequence |-> n + 1]
  OBVIOUS
<1>4. row \in Row /\ row.event = e /\ row.sequence = n + 1
  BY <1>2, <1>3 DEF Row
<1>5. /\ M \in Seq(Row) /\ Len(M) = l /\ DOMAIN M = 1 .. l
      /\ \A p \in 1 .. Len(L) : M[p] = L[p]
      /\ M[l] = row
  BY <1>0, <1>3, <1>4
<1>6. \A s : RowsIn(L, s) \subseteq 1 .. Len(L)
  BY <1>0 DEF RowsIn
<1>7. l \in Nat /\ l \notin 1 .. Len(L) /\ 1 .. l = 1 .. Len(L) \cup {l}
  BY <1>0
<1>8. \A s : RowsIn(M, s) = IF s = e.stream THEN RowsIn(L, s) \cup {l}
                            ELSE RowsIn(L, s)
  <2> HIDE DEF l
  <2> QED BY <1>0, <1>4, <1>5, <1>7 DEF RowsIn
<1>9. IdsUnique(M)
  <2> HIDE DEF l
  <2> QED BY <1>0, <1>4, <1>5, <1>7 DEF LogOK, IdsUnique
<1>10. KeysUnique(M)
  <2> SUFFICES ASSUME NEW p \in 1 .. l, NEW q \in 1 .. l,
                      M[p].event.stream = M[q].event.stream,
                      M[p].event.key # None, M[p].event.key = M[q].event.key
               PROVE  p = q
    BY <1>5 DEF KeysUnique
  <2>1. \A k \in 1 .. Len(L) :
          L[k].event.stream = e.stream /\ e.key # None => L[k].event.key # e.key
    BY <1>0 DEF RowsIn
  <2>2. CASE p \in 1 .. Len(L) /\ q \in 1 .. Len(L)
    BY <1>0, <1>5, <2>2 DEF LogOK, KeysUnique
  <2>3. CASE p = l /\ q \in 1 .. Len(L)
    BY <1>4, <1>5, <2>1, <2>3
  <2>4. CASE q = l /\ p \in 1 .. Len(L)
    BY <1>4, <1>5, <2>1, <2>4
  <2> HIDE DEF l
  <2> QED BY <1>7, <2>2, <2>3, <2>4
<1>11. ASSUME NEW s
       PROVE  \A p \in RowsIn(L, s) :
                {q \in RowsIn(M, s) : q <= p} = {q \in RowsIn(L, s) : q <= p}
  <2>1. RowsIn(M, s) = RowsIn(L, s) \cup {l} \/ RowsIn(M, s) = RowsIn(L, s)
    BY <1>8
  <2>2. RowsIn(L, s) \subseteq 1 .. Len(L)
    BY <1>6
  <2>3. \A p \in 1 .. Len(L) : ~(l <= p)
    BY <1>0
  <2> HIDE DEF l
  <2> QED BY <2>1, <2>2, <2>3
<1>12. {q \in RowsIn(M, e.stream) : q <= l} = RowsIn(M, e.stream)
  <2>1. RowsIn(M, e.stream) \subseteq 1 .. l
    BY <1>5 DEF RowsIn
  <2>2. \A q \in 1 .. l : q <= l
    BY <1>0
  <2> HIDE DEF l
  <2> QED BY <2>1, <2>2
<1>13. IsFiniteSet(RowsIn(L, e.stream)) /\ l \notin RowsIn(L, e.stream)
  BY <1>0, <1>6, <1>7, RowsFinite
<1>14. Cardinality(RowsIn(M, e.stream)) = n + 1
  <2> HIDE DEF l
  <2>1. RowsIn(M, e.stream) = RowsIn(L, e.stream) \cup {l}
    BY <1>8
  <2>2. Cardinality(RowsIn(L, e.stream) \cup {l}) = Cardinality(RowsIn(L, e.stream)) + 1
    BY <1>13, FS_AddElement
  <2> QED BY <2>1, <2>2
<1>15. Sequenced(M)
  <2> SUFFICES ASSUME NEW p \in 1 .. l
               PROVE  M[p].sequence =
                        Cardinality({q \in RowsIn(M, M[p].event.stream) : q <= p})
    BY <1>5 DEF Sequenced
  <2>1. CASE p = l
    BY <1>4, <1>5, <1>12, <1>14, <2>1
  <2>2. CASE p \in 1 .. Len(L)
    <3>1. /\ M[p] = L[p] /\ p \in RowsIn(L, L[p].event.stream)
          /\ L[p].sequence =
               Cardinality({q \in RowsIn(L, L[p].event.stream) : q <= p})
      BY <1>0, <1>5, <2>2 DEF RowsIn, LogOK, Sequenced
    <3>2. \A x \in RowsIn(L, L[p].event.stream) :
            {q \in RowsIn(M, L[p].event.stream) : q <= x}
              = {q \in RowsIn(L, L[p].event.stream) : q <= x}
      BY <1>11
    <3>3. {q \in RowsIn(M, L[p].event.stream) : q <= p}
            = {q \in RowsIn(L, L[p].event.stream) : q <= p}
      BY <3>1, <3>2
    <3> QED BY <3>1, <3>3
  <2> HIDE DEF l
  <2> QED BY <1>7, <2>1, <2>2
<1>16. Headed(M)
  <2> SUFFICES ASSUME NEW s, RowsIn(M, s) # {}
               PROVE  \E p \in RowsIn(M, s) :
                        M[p].sequence = Cardinality(RowsIn(M, s))
    BY DEF Headed
  <2>1. CASE s = e.stream
    <3>1. M[l].sequence = n + 1
      BY <1>4, <1>5
    <3>2. l \in RowsIn(M, s)
      BY <1>8, <2>1
    <3> HIDE DEF l, n
    <3> QED BY <1>14, <2>1, <3>1, <3>2
  <2>2. CASE s # e.stream
    <3>1. RowsIn(M, s) = RowsIn(L, s)
      BY <1>8, <2>2
    <3>2. PICK p \in RowsIn(L, s) : L[p].sequence = Cardinality(RowsIn(L, s))
      BY <3>1 DEF LogOK, Headed
    <3> QED BY <1>5, <1>6, <3>1, <3>2
  <2> QED BY <2>1, <2>2
<1>17. Len(M) <= MaxEvents
  BY <1>0, <1>5, BoundAssumption
<1> HIDE DEF n
<1>18. OneMore(L, M, e)
  BY <1>0, <1>4, <1>5, <1>8 DEF OneMore
<1> QED BY <1>5, <1>9, <1>10, <1>15, <1>16, <1>17, <1>18 DEF LogOK

(* M is L with more rows.                                                  *)
Extends(L, M) ==
  /\ Len(L) <= Len(M)
  /\ \A p \in DOMAIN L : p \in DOMAIN M /\ M[p] = L[p]

Keyed(L, e) ==
  {p \in RowsIn(L, e.stream) : e.key # None /\ L[p].event.key = e.key}

(* Position q answers an append of e.                                      *)
Answered(L, e, q) ==
  q \in DOMAIN L /\ (L[q].event = e \/ q \in Keyed(L, e))

LEMMA AnswerKept ==
  ASSUME NEW L, NEW M, Extends(L, M), NEW e, NEW q, Answered(L, e, q)
  PROVE  Answered(M, e, q)
BY DEF Extends, Answered, Keyed, RowsIn

(* A second append of an answered event never inserts it, and finds the    *)
(* row of the first answer.                                                *)
LEMMA AnswerUnique ==
  ASSUME NEW L, LogOK(L), NEW e, NEW q, Answered(L, e, q)
  PROVE  /\ ~((\A p \in DOMAIN L : L[p].event.id # e.id) /\ Keyed(L, e) = {})
         /\ \A p \in Keyed(L, e) : p = q
<1>1. ASSUME NEW p \in Keyed(L, e)
      PROVE  p = q
  <2>1. /\ p \in DOMAIN L /\ L[p].event.stream = e.stream
        /\ e.key # None /\ L[p].event.key = e.key
    BY <1>1 DEF Keyed, RowsIn
  <2>2. q \in DOMAIN L /\ L[q].event.stream = e.stream /\ L[q].event.key = e.key
    BY <2>1 DEF Answered, Keyed, RowsIn
  <2> QED BY <2>1, <2>2 DEF LogOK, KeysUnique
<1> QED BY <1>1 DEF Answered

-----------------------------------------------------------------------------
(* The event store.                                                        *)

LogSpec == LogInit /\ [][LogStep(DomainEvents)]_logVars

ToldInv ==
  \A e \in DomainEvents : told[e] # 0 => Answered(log, e, told[e])

(* Receipts, answers and outbox rows are of rows of the log.               *)
SideInv ==
  /\ \A d \in Deliveries :
       inbox[d] <= Len(log) /\ admitted[d] \in {0, inbox[d]}
  /\ \A m \in Messages : outbox[m] <= Len(log)

LogInv == LogTypeOK /\ LogOK(log) /\ ToldInv /\ SideInv

LEMMA IdempotentIsKeyed ==
  ASSUME NEW e
  PROVE  Idempotent(e) = Keyed(log, e)
BY DEF Idempotent, Keyed, RowsOf, RowsIn

LEMMA InvAnswers == LogInv => AnswersHold
<1> SUFFICES ASSUME LogInv PROVE AnswersHold
  OBVIOUS
<1>1. Len(log) \in Nat /\ DOMAIN log = 1 .. Len(log)
  BY RowsFinite DEF LogInv, LogOK
<1>2. \A e \in DomainEvents : told[e] # 0 =>
        /\ told[e] <= Len(log)
        /\ log[told[e]].event = e \/ told[e] \in Idempotent(e)
  BY <1>1, IdempotentIsKeyed DEF LogInv, ToldInv, Answered
<1>3. \A p \in DOMAIN log :
        log[p].sequence = Cardinality({q \in RowsOf(log[p].event.stream) : q <= p})
  BY DEF LogInv, LogOK, Sequenced, RowsIn, RowsOf
<1> QED BY <1>2, <1>3 DEF LogInv, SideInv, AnswersHold

(* An insertion, by whichever operation.                                   *)
LEMMA Inserted ==
  ASSUME LogInv, NEW e \in DomainEvents, Insertable(e), NEW M, M = Extended(e)
  PROVE  /\ LogOK(M) /\ Extends(log, M)
         /\ Len(log) \in Nat /\ DOMAIN log = 1 .. Len(log)
         /\ Len(M) = Len(log) + 1 /\ DOMAIN M = 1 .. Len(log) + 1
         /\ Len(log) + 1 \in 0 .. MaxEvents
         /\ Answered(M, e, Len(log) + 1)
         /\ told[e] = 0
         /\ \A s : RowsIn(M, s) = IF s = e.stream
                                  THEN RowsIn(log, s) \cup {Len(log) + 1}
                                  ELSE RowsIn(log, s)
<1>1. /\ \A p \in DOMAIN log : log[p].event.id # e.id
      /\ Keyed(log, e) = {} /\ Len(log) < MaxEvents /\ LogOK(log)
  BY IdempotentIsKeyed DEF Insertable, LogInv
<1>2. Insertion(log, e)
  BY <1>1 DEF Keyed, Insertion
<1>3. M = Append(log, NewRow(log, e))
  BY <1>1, VersionIsCount DEF Extended, NewRow
<1>4. /\ LogOK(M) /\ Len(log) \in Nat /\ DOMAIN log = 1 .. Len(log)
      /\ Len(M) = Len(log) + 1 /\ DOMAIN M = 1 .. Len(M)
      /\ \A p \in DOMAIN log : M[p] = log[p]
      /\ M[Len(M)].event = e
      /\ \A s : RowsIn(M, s) = IF s = e.stream THEN RowsIn(log, s) \cup {Len(M)}
                               ELSE RowsIn(log, s)
  <2>1. LogOK(M) /\ OneMore(log, M, e)
    BY <1>1, <1>2, <1>3, RowAppended
  <2> QED BY <2>1 DEF OneMore
<1>5. Len(log) + 1 \in 0 .. MaxEvents /\ Len(log) + 1 \in 1 .. Len(log) + 1
  BY <1>1, <1>4, BoundAssumption
<1>6. Extends(log, M)
  BY <1>4 DEF Extends
<1>7. Answered(M, e, Len(log) + 1)
  BY <1>4, <1>5 DEF Answered
<1>8. told[e] = 0
  BY <1>1, AnswerUnique DEF LogInv, ToldInv
<1> QED BY <1>4, <1>5, <1>6, <1>7, <1>8

(* The steps an operation may take, by what they do to the log, and what   *)
(* follows for the answers: the ones given before stay, a new one is of    *)
(* the event it was asked for.                                             *)
LEMMA AnswersStep ==
  ASSUME LogInv, LogOK(log'), Extends(log, log'), NEW e \in DomainEvents,
         NEW q \in 0 .. MaxEvents, Answer(e, q), Answered(log', e, q),
         told[e] \in {0, q}
  PROVE  /\ told' \in [DomainEvents -> 0 .. MaxEvents] /\ ToldInv'
         /\ \A f \in DomainEvents : told[f] # 0 => told'[f] = told[f]
<1>1. told \in [DomainEvents -> 0 .. MaxEvents]
  BY DEF LogInv, LogTypeOK
<1>2. told' = [told EXCEPT ![e] = q]
  BY DEF Answer
<1>3. \A f \in DomainEvents : told'[f] = IF f = e THEN q ELSE told[f]
  BY <1>1, <1>2
<1>4. \A f \in DomainEvents : told'[f] # 0 => Answered(log', f, told'[f])
  BY <1>3, AnswerKept DEF LogInv, ToldInv
<1>5. ToldInv'
  BY <1>4 DEF ToldInv, Answered, Keyed, RowsIn
<1> QED BY <1>1, <1>2, <1>3, <1>5

LEMMA AnswersKeep ==
  ASSUME LogInv, Extends(log, log'), UNCHANGED told
  PROVE  ToldInv'
<1>1. \A f \in DomainEvents : told'[f] # 0 => Answered(log', f, told'[f])
  BY AnswerKept DEF LogInv, ToldInv
<1> QED BY <1>1 DEF ToldInv, Answered, Keyed, RowsIn

LEMMA LogFacts ==
  ASSUME LogInv
  PROVE  /\ Len(log) \in Nat /\ DOMAIN log = 1 .. Len(log) /\ Len(log) <= MaxEvents
         /\ Extends(log, log)
<1>1. Len(log) \in Nat /\ DOMAIN log = 1 .. Len(log) /\ Len(log) <= MaxEvents
  BY RowsFinite DEF LogInv, LogOK
<1> QED BY <1>1 DEF Extends

(* A retry is answered with the row it finds under its key.                *)
LEMMA Found ==
  ASSUME LogInv, NEW e \in DomainEvents, NEW p \in Idempotent(e)
  PROVE  Answered(log, e, p) /\ told[e] \in {0, p} /\ p \in 1 .. Len(log)
<1>1. p \in Keyed(log, e)
  BY IdempotentIsKeyed
<1>2. Answered(log, e, p)
  BY <1>1 DEF Answered, Keyed, RowsIn
<1>3. told[e] # 0 => told[e] = p
  BY <1>1, AnswerUnique DEF LogInv, ToldInv
<1> QED BY <1>2, <1>3, LogFacts DEF Answered

(* A step of the log keeps the invariant and the past when it extends the  *)
(* log, keeps the answers given and touches the side tables only where     *)
(* they are free.                                                          *)
LEMMA LogKept ==
  ASSUME LogInv, LogOK(log'), Extends(log, log'), ToldInv',
         told' \in [DomainEvents -> 0 .. MaxEvents],
         \A f \in DomainEvents : told[f] # 0 => told'[f] = told[f],
         outbox' \in [Messages -> 0 .. MaxEvents],
         \A m \in Messages : \/ outbox'[m] = outbox[m]
                             \/ /\ outbox[m] = 0 /\ outbox'[m] = Len(log) + 1
                                /\ outbox'[m] <= Len(log'),
         inbox' \in [Deliveries -> 0 .. MaxEvents],
         admitted' \in [Deliveries -> 0 .. MaxEvents],
         \A d \in Deliveries :
           /\ inbox[d] # 0 => inbox'[d] = inbox[d]
           /\ inbox'[d] <= Len(log')
           /\ admitted'[d] \in {admitted[d], inbox'[d]},
         snapshot' \in [Streams -> {-1} \cup Snapshots],
         \A s \in Streams : snapshot'[s] >= snapshot[s]
  PROVE  LogInv' /\ RowsStay
<1>1. /\ Len(log) \in Nat /\ DOMAIN log = 1 .. Len(log)
      /\ Len(log') \in Nat /\ DOMAIN log' = 1 .. Len(log')
      /\ Len(log) <= Len(log')
  BY LogFacts, RowsFinite DEF LogOK, Extends
<1>2. /\ outbox \in [Messages -> 0 .. MaxEvents]
      /\ inbox \in [Deliveries -> 0 .. MaxEvents]
      /\ admitted \in [Deliveries -> 0 .. MaxEvents]
  BY DEF LogInv, LogTypeOK
<1>3. LogTypeOK'
  BY DEF LogTypeOK, LogOK
<1>4. \A d \in Deliveries : admitted[d] \in {0, inbox[d]}
  BY DEF LogInv, SideInv
<1>5. \A d \in Deliveries : admitted'[d] \in {0, inbox'[d]}
  BY <1>2, <1>4
<1>6. \A m \in Messages : outbox'[m] <= Len(log')
  BY <1>1, <1>2 DEF LogInv, SideInv
<1>7. SideInv'
  BY <1>5, <1>6 DEF SideInv
<1>8. \A p \in DOMAIN log : p <= Len(log') /\ log'[p] = log[p]
  BY <1>1 DEF Extends
<1>9. \A p \in DOMAIN log : {m \in Messages : outbox'[m] = p} = CausedBy(p)
  <2>1. \A p \in DOMAIN log : p # 0 /\ p # Len(log) + 1
    BY <1>1
  <2> QED BY <2>1 DEF CausedBy
<1>10. \A d \in Deliveries : admitted[d] # 0 => admitted'[d] = admitted[d]
  BY <1>4
<1>11. LogOK(log)'
  BY DEF LogOK, IdsUnique, KeysUnique, Sequenced, Headed, RowsIn
<1> QED BY <1>3, <1>7, <1>8, <1>9, <1>10, <1>11 DEF LogInv, RowsStay

LEMMA LogStepKeeps ==
  ASSUME LogInv,
         \/ LogStep(DomainEvents)
         \/ \E e \in DomainEvents : AppendEvent(e, None, None)
         \/ UNCHANGED logVars
  PROVE  LogInv' /\ RowsStay
<1> USE DEF LogInv
<1>a. /\ outbox \in [Messages -> 0 .. MaxEvents]
      /\ inbox \in [Deliveries -> 0 .. MaxEvents]
      /\ admitted \in [Deliveries -> 0 .. MaxEvents]
      /\ told \in [DomainEvents -> 0 .. MaxEvents]
      /\ snapshot \in [Streams -> {-1} \cup Snapshots]
      /\ \A d \in Deliveries : inbox[d] <= Len(log)
  BY DEF LogTypeOK, SideInv
<1>b. \A s \in Streams : snapshot[s] \in Int
  <2>1. \A x \in Snapshots : x \in Int
    BY BoundAssumption
  <2>2. \A x \in {-1} \cup Snapshots : x \in Int
    BY <2>1
  <2> QED BY <1>a, <2>2
<1>c. \A s \in Streams : snapshot[s] >= snapshot[s]
  BY <1>b
<1>d. /\ Len(log) \in Nat /\ DOMAIN log = 1 .. Len(log) /\ Len(log) <= MaxEvents
      /\ Extends(log, log)
  BY LogFacts
<1>0. /\ outbox \in [Messages -> 0 .. MaxEvents]
      /\ inbox \in [Deliveries -> 0 .. MaxEvents]
      /\ admitted \in [Deliveries -> 0 .. MaxEvents]
      /\ told \in [DomainEvents -> 0 .. MaxEvents]
      /\ snapshot \in [Streams -> {-1} \cup Snapshots]
      /\ \A d \in Deliveries : inbox[d] <= Len(log)
      /\ \A s \in Streams : snapshot[s] >= snapshot[s]
      /\ Len(log) \in Nat /\ DOMAIN log = 1 .. Len(log) /\ Len(log) <= MaxEvents
      /\ Extends(log, log)
  BY <1>a, <1>c, <1>d
<1>1. ASSUME NEW e \in DomainEvents, NEW M, M = Extended(e), Insertable(e),
             log' = M, Answer(e, Len(log) + 1), UNCHANGED <<inbox, snapshot, admitted>>,
             NEW batch \in SUBSET Messages, \A m \in batch : outbox[m] = 0,
             outbox' = [m \in Messages |->
                          IF m \in batch THEN Len(log) + 1 ELSE outbox[m]]
      PROVE  LogInv' /\ RowsStay
  <2>1. /\ LogOK(log') /\ Extends(log, log') /\ Len(log') = Len(log) + 1
        /\ Len(log) + 1 \in 0 .. MaxEvents
        /\ Answered(log', e, Len(log) + 1) /\ told[e] \in {0, Len(log) + 1}
    BY <1>1, Inserted
  <2>2. /\ told' \in [DomainEvents -> 0 .. MaxEvents] /\ ToldInv'
        /\ \A f \in DomainEvents : told[f] # 0 => told'[f] = told[f]
    BY <1>1, <2>1, AnswersStep
  <2>3. /\ outbox' \in [Messages -> 0 .. MaxEvents]
        /\ \A m \in Messages : \/ outbox'[m] = outbox[m]
                               \/ /\ outbox[m] = 0 /\ outbox'[m] = Len(log) + 1
                                  /\ outbox'[m] <= Len(log')
    BY <1>0, <1>1, <2>1
  <2>4. \A d \in Deliveries : inbox'[d] <= Len(log')
    BY <1>0, <1>1, <2>1
  <2> QED BY <1>0, <1>1, <2>1, <2>2, <2>3, <2>4, LogKept
<1>2. ASSUME NEW e \in DomainEvents, NEW p \in Idempotent(e), Answer(e, p),
             UNCHANGED <<log, outbox, inbox, snapshot, admitted>>
      PROVE  LogInv' /\ RowsStay
  <2>1. /\ Answered(log', e, p) /\ told[e] \in {0, p} /\ p \in 0 .. MaxEvents
        /\ LogOK(log') /\ Extends(log, log')
    BY <1>0, <1>2, Found, BoundAssumption
  <2>2. /\ told' \in [DomainEvents -> 0 .. MaxEvents] /\ ToldInv'
        /\ \A f \in DomainEvents : told[f] # 0 => told'[f] = told[f]
    BY <1>2, <2>1, AnswersStep
  <2> QED BY <1>0, <1>2, <2>1, <2>2, LogKept
<1>3. ASSUME NEW e \in DomainEvents, NEW v, NEW g,
             AppendEvent(e, v, g)
      PROVE  LogInv' /\ RowsStay
  <2>1. CASE \E p \in Idempotent(e) : Answer(e, p) /\ UNCHANGED log
    BY <1>2, <1>3, <2>1 DEF AppendEvent
  <2>2. CASE InsertsEvent(e, v, g) /\ log' = Extended(e) /\ Answer(e, Len(log) + 1)
    <3>1. outbox' = [m \in Messages |-> IF m \in {} THEN Len(log) + 1 ELSE outbox[m]]
      BY <1>0, <1>3 DEF AppendEvent
    <3> QED BY <1>1, <1>3, <2>2, <3>1 DEF AppendEvent, InsertsEvent
  <2> QED BY <1>3, <2>1, <2>2 DEF AppendEvent
<1>4. ASSUME NEW e \in DomainEvents, NEW b \in SUBSET Messages, NEW v \in Wanted,
             AppendWithOutbox(e, b, v)
      PROVE  LogInv' /\ RowsStay
  <2>1. CASE \E p \in Idempotent(e) : Answer(e, p) /\ UNCHANGED <<log, outbox>>
    BY <1>2, <1>4, <2>1 DEF AppendWithOutbox
  <2>2. CASE /\ InsertsEvent(e, v, None)
             /\ \A m \in b : outbox[m] = 0
             /\ log' = Extended(e)
             /\ outbox' = [m \in Messages |->
                             IF m \in b THEN Len(log) + 1 ELSE outbox[m]]
             /\ Answer(e, Len(log) + 1)
    BY <1>1, <1>4, <2>2 DEF AppendWithOutbox, InsertsEvent
  <2> QED BY <1>4, <2>1, <2>2 DEF AppendWithOutbox
<1>5. ASSUME NEW d \in Deliveries, NEW e \in DomainEvents, NEW v \in Wanted,
             AppendInbox(d, e, v)
      PROVE  LogInv' /\ RowsStay
  <2>1. UNCHANGED <<outbox, snapshot, told>>
    BY <1>5 DEF AppendInbox
  <2>2. CASE /\ inbox[d] # 0 /\ admitted' = [admitted EXCEPT ![d] = inbox[d]]
             /\ UNCHANGED <<log, inbox>>
    <3>1. /\ admitted' \in [Deliveries -> 0 .. MaxEvents]
          /\ \A x \in Deliveries : admitted'[x] \in {admitted[x], inbox'[x]}
      BY <1>0, <2>2
    <3> QED BY <1>0, <2>1, <2>2, <3>1, AnswersKeep, LogKept
  <2>3. ASSUME inbox[d] = 0, NEW q \in 1 .. MaxEvents, Admits(d, q),
               LogOK(log'), Extends(log, log'), q <= Len(log')
        PROVE  LogInv' /\ RowsStay
    <3>1. /\ inbox' \in [Deliveries -> 0 .. MaxEvents]
          /\ admitted' \in [Deliveries -> 0 .. MaxEvents]
      BY <1>0, <2>3, BoundAssumption DEF Admits
    <3>2. Len(log') \in Nat /\ Len(log) <= Len(log')
      BY <2>3, RowsFinite DEF LogOK, Extends
    <3>3. \A x \in Deliveries :
            /\ inbox[x] # 0 => inbox'[x] = inbox[x]
            /\ inbox'[x] <= Len(log')
            /\ admitted'[x] \in {admitted[x], inbox'[x]}
      BY <1>0, <2>3, <3>2 DEF Admits
    <3> QED BY <1>0, <2>1, <2>3, <3>1, <3>3, AnswersKeep, LogKept
  <2>4. CASE /\ inbox[d] = 0 /\ InsertsEvent(e, v, None) /\ log' = Extended(e)
             /\ Admits(d, Len(log) + 1)
    <3>1. /\ LogOK(log') /\ Extends(log, log') /\ Len(log') = Len(log) + 1
          /\ Len(log) + 1 \in 0 .. MaxEvents
      BY <2>4, Inserted DEF InsertsEvent
    <3>2. Len(log) + 1 \in 1 .. MaxEvents /\ Len(log) + 1 <= Len(log')
      BY <1>0, <3>1
    <3> QED BY <2>3, <2>4, <3>1, <3>2
  <2>5. CASE /\ inbox[d] = 0 /\ \E p \in Idempotent(e) : Admits(d, p)
             /\ UNCHANGED log
    <3>1. PICK p \in Idempotent(e) : Admits(d, p)
      BY <2>5
    <3>2. p \in 1 .. Len(log)
      BY Found
    <3>3. p \in 1 .. MaxEvents /\ p <= Len(log')
      BY <1>0, <2>5, <3>2, BoundAssumption
    <3> QED BY <1>0, <2>3, <2>5, <3>1, <3>3
  <2> QED BY <1>5, <2>2, <2>4, <2>5 DEF AppendInbox
<1>6. ASSUME NEW e \in DomainEvents, NEW f \in DomainEvents, NEW v \in Wanted,
             AppendMany(e, f, v)
      PROVE  LogInv' /\ RowsStay
  <2>1. /\ e.stream = f.stream /\ Insertable(e) /\ Insertable(f) /\ e.id # f.id
        /\ e.key # f.key \/ e.key = None
        /\ Len(log) + 2 <= MaxEvents
        /\ UNCHANGED <<outbox, inbox, snapshot, admitted>>
        /\ told' = [told EXCEPT ![e] = Len(log) + 1, ![f] = Len(log) + 2]
    BY <1>6 DEF AppendMany
  <2>2. PICK M : M = Extended(e)
    OBVIOUS
  <2>3. /\ LogOK(M) /\ Extends(log, M) /\ Len(M) = Len(log) + 1
        /\ DOMAIN M = 1 .. Len(log) + 1
        /\ Answered(M, e, Len(log) + 1) /\ told[e] = 0
        /\ RowsIn(M, f.stream) = RowsIn(log, f.stream) \cup {Len(log) + 1}
    BY <2>1, <2>2, Inserted
  <2>4. told[f] = 0
    BY <2>1, Inserted
  <2>5. M[Len(log) + 1].event = e
    BY <1>0, <2>2 DEF Extended
  <2>6. Insertion(M, f)
    <3>1. \A p \in DOMAIN M : p = Len(log) + 1 \/ (p \in DOMAIN log /\ M[p] = log[p])
      <4>1. \A p \in DOMAIN M : p = Len(log) + 1 \/ p \in DOMAIN log
        BY <1>0, <2>3
      <4>2. \A p \in DOMAIN log : M[p] = log[p]
        BY <2>3 DEF Extends
      <4> QED BY <4>1, <4>2
    <3>2. \A p \in DOMAIN M : M[p].event.id # f.id
      BY <2>1, <2>5, <3>1 DEF Insertable
    <3>3. \A p \in RowsIn(M, f.stream) : f.key # None => M[p].event.key # f.key
      BY <2>1, <2>5, <3>1, IdempotentIsKeyed DEF Insertable, RowsIn, Keyed
    <3>4. Len(M) < MaxEvents
      BY <1>0, <2>1, <2>3, BoundAssumption
    <3> QED BY <3>2, <3>3, <3>4 DEF Insertion
  <2>7. log' = Append(M, NewRow(M, f))
    <3> DEFINE n == Cardinality(RowsIn(log, f.stream))
    <3>1. /\ n \in Nat /\ IsFiniteSet(RowsIn(log, f.stream))
          /\ Len(log) + 1 \notin RowsIn(log, f.stream)
      <4>1. n \in Nat /\ IsFiniteSet(RowsIn(log, f.stream))
        BY RowsFinite DEF LogOK
      <4>2. Len(log) + 1 \notin DOMAIN log
        BY <1>0
      <4>3. RowsIn(log, f.stream) \subseteq DOMAIN log
        BY DEF RowsIn
      <4> QED BY <4>1, <4>2, <4>3
    <3>2. Cardinality(RowsIn(M, f.stream)) = n + 1
      <4> HIDE DEF n
      <4>1. RowsIn(M, f.stream) = RowsIn(log, f.stream) \cup {Len(log) + 1}
        BY <2>3
      <4>2. Cardinality(RowsIn(log, f.stream) \cup {Len(log) + 1})
              = Cardinality(RowsIn(log, f.stream)) + 1
        BY <3>1, FS_AddElement
      <4> QED BY <4>1, <4>2 DEF n
    <3>3. StreamVersion(f.stream) = n
      BY VersionIsCount
    <3>4. PICK a : a = [event |-> e, sequence |-> n + 1]
      OBVIOUS
    <3>5. PICK b : b = [event |-> f, sequence |-> n + 2]
      OBVIOUS
    <3>6. M = Append(log, a)
      BY <2>1, <2>2, <3>3, <3>4 DEF Extended
    <3>7. NewRow(M, f) = b
      <4>1. (n + 1) + 1 = n + 2
        BY <3>1
      <4> QED BY <3>2, <3>5, <4>1 DEF NewRow
    <3>8. log' = log \o <<a, b>>
      BY <1>6, <2>1, <3>3, <3>4, <3>5 DEF AppendMany
    <3>9. a \in Row /\ b \in Row /\ log \in Seq(Row)
      <4>1. n \in 0 .. Len(log)
        BY RowsFinite DEF LogOK
      <4>2. n + 1 \in Positions /\ n + 2 \in Positions
        BY <1>0, <2>1, <4>1, BoundAssumption DEF Positions
      <4> HIDE DEF n
      <4> QED BY <3>4, <3>5, <4>2 DEF Row, LogOK
    <3> HIDE DEF n
    <3>10. log \o <<a, b>> = Append(Append(log, a), b)
      BY <3>9
    <3> QED BY <3>6, <3>7, <3>8, <3>10
  <2>8. LogOK(log') /\ OneMore(M, log', f)
    BY <2>3, <2>6, <2>7, RowAppended
  <2>9. /\ Extends(log, log') /\ Len(log') = Len(log) + 2
        /\ Answered(log', f, Len(log) + 2)
        /\ Answered(log', e, Len(log) + 1)
    <3>1. Len(log') = Len(log) + 2 /\ DOMAIN log' = 1 .. Len(log) + 2
      BY <1>0, <2>3, <2>8 DEF OneMore
    <3>2. \A p \in DOMAIN M : log'[p] = M[p]
      BY <2>8 DEF OneMore
    <3>3. Extends(M, log')
      BY <1>0, <2>3, <3>1, <3>2 DEF Extends
    <3>4. Extends(log, log')
      BY <1>0, <2>3, <3>1, <3>3 DEF Extends
    <3>5. log'[Len(log) + 2].event = f
      BY <2>8, <3>1 DEF OneMore
    <3>6. Answered(log', f, Len(log) + 2)
      BY <1>0, <3>1, <3>5 DEF Answered
    <3>7. Answered(log', e, Len(log) + 1)
      BY <2>3, <3>3, AnswerKept
    <3> QED BY <3>1, <3>4, <3>6, <3>7
  <2>10. /\ told' \in [DomainEvents -> 0 .. MaxEvents]
         /\ \A x \in DomainEvents : told'[x] = IF x = f THEN Len(log) + 2
                                               ELSE IF x = e THEN Len(log) + 1
                                               ELSE told[x]
    <3>1. Len(log) + 1 \in 0 .. MaxEvents /\ Len(log) + 2 \in 0 .. MaxEvents
      BY <1>0, <2>1, BoundAssumption
    <3>2. PICK t : t = [told EXCEPT ![e] = Len(log) + 1]
      OBVIOUS
    <3>3. /\ t \in [DomainEvents -> 0 .. MaxEvents]
          /\ \A x \in DomainEvents : t[x] = IF x = e THEN Len(log) + 1 ELSE told[x]
      BY <1>0, <3>1, <3>2
    <3>4. told' = [t EXCEPT ![f] = Len(log) + 2]
      BY <2>1, <3>2
    <3> QED BY <3>1, <3>3, <3>4
  <2>11. \A x \in DomainEvents : told'[x] # 0 => Answered(log', x, told'[x])
    BY <2>9, <2>10, AnswerKept DEF ToldInv
  <2>12. ToldInv'
    BY <2>11 DEF ToldInv, Answered, Keyed, RowsIn
  <2>13. \A x \in DomainEvents : told[x] # 0 => told'[x] = told[x]
    BY <2>3, <2>4, <2>10
  <2>14. \A d \in Deliveries : inbox'[d] <= Len(log')
    BY <1>0, <2>1, <2>9
  <2> QED BY <1>0, <2>1, <2>8, <2>9, <2>10, <2>12, <2>13, <2>14, LogKept
<1>7. ASSUME NEW s \in Streams, NEW n \in Snapshots, SaveSnapshot(s, n)
      PROVE  LogInv' /\ RowsStay
  <2>1. /\ snapshot' = [snapshot EXCEPT ![s] = n] /\ n >= snapshot[s]
        /\ UNCHANGED <<log, outbox, inbox, told, admitted>>
    BY <1>7 DEF SaveSnapshot
  <2>2. /\ snapshot' \in [Streams -> {-1} \cup Snapshots]
        /\ \A x \in Streams : snapshot'[x] >= snapshot[x]
    BY <1>0, <2>1
  <2> QED BY <1>0, <2>1, <2>2, AnswersKeep, LogKept
<1>8. CASE UNCHANGED logVars
  <2>1. UNCHANGED <<log, outbox, inbox, snapshot, told, admitted>>
    BY <1>8 DEF logVars
  <2> QED BY <1>0, <2>1, AnswersKeep, LogKept
<1> QED BY <1>3, <1>4, <1>5, <1>6, <1>7, <1>8 DEF LogStep

LEMMA LogStart == LogInit => LogInv
<1> SUFFICES ASSUME LogInit PROVE LogInv
  OBVIOUS
<1>1. log \in Seq(Row) /\ Len(log) = 0 /\ DOMAIN log = {}
  BY EmptySeq DEF LogInit
<1>2. LogOK(log)
  BY <1>1, BoundAssumption DEF LogOK, IdsUnique, KeysUnique, Sequenced, Headed, RowsIn
<1>3. LogTypeOK
  BY <1>1, BoundAssumption DEF LogInit, NoSideRows, LogTypeOK
<1>4. ToldInv /\ SideInv
  BY <1>1 DEF LogInit, NoSideRows, ToldInv, SideInv
<1> QED BY <1>2, <1>3, <1>4 DEF LogInv

(* Whatever appends, batches, deliveries and retries race on the log, with *)
(* answers lost after their COMMIT: every answer is of its event or of the *)
(* one admitted under its key, and sequences are consecutive.              *)
THEOREM AnswersAreHeld == LogSpec => []AnswersHold
<1>1. LogInv /\ [LogStep(DomainEvents)]_logVars => LogInv'
  BY LogStepKeeps
<1> QED BY <1>1, LogStart, InvAnswers, PTL DEF LogSpec

(* Rows, receipts, answers and the messages of an event never change once  *)
(* they are written, and a snapshot never goes back.                       *)
THEOREM HistoryIsFixed == LogSpec => HistoryFixed
<1>1. LogInv /\ [LogStep(DomainEvents)]_logVars => LogInv' /\ [RowsStay]_logVars
  BY LogStepKeeps
<1> QED BY <1>1, LogStart, PTL DEF LogSpec, HistoryFixed

-----------------------------------------------------------------------------
(* Projections.                                                            *)

(* A worker's batch lies in the log from the position it has reached on,   *)
(* and its epoch was handed out by the offset.                             *)
BatchOK(r) ==
  /\ r.step = "claimed" => r.upto = 0
  /\ r.step = "renewed" => r.last < r.upto
  /\ r.last < r.upto => r.upto <= Len(log)

WorkersOK == \A w \in Workers : BatchOK(worker[w])

EpochsOK ==
  /\ \A w \in Workers : worker[w].epoch <= offset.epoch
  /\ \A v, w \in Workers :
       worker[v].epoch # 0 /\ worker[v].epoch = worker[w].epoch => v = w

(* What was skipped or written lies below the offset, and what was written *)
(* in the log.                                                             *)
ModelOK ==
  /\ skipped \subseteq 1 .. offset.position
  /\ \A i \in DOMAIN readModel : readModel[i].position <= Len(log)
  /\ ReadModelIsPrefix

ProjectionInv == ProjectionTypeOK /\ LogInv /\ WorkersOK /\ EpochsOK /\ ModelOK

Written == [position : Positions, version : 1 .. MaxVersion]

LEMMA LogStays ==
  ASSUME LogInv, UNCHANGED logVars
  PROVE  LogInv' /\ UNCHANGED log /\ Extends(log, log')
<1>1. UNCHANGED log
  BY DEF logVars
<1>2. Extends(log, log')
  BY <1>1, LogFacts
<1> QED BY <1>1, <1>2, LogStepKeeps

(* A worker's step that writes nothing.                                    *)
LEMMA WorkerMoves ==
  ASSUME ProjectionInv, NEW w \in Workers, NEW r \in Worker,
         worker' = [worker EXCEPT ![w] = r], BatchOK(r), UNCHANGED log,
         r.epoch \in {0, worker[w].epoch}, offset'.epoch = offset.epoch
  PROVE  worker' \in [Workers -> Worker] /\ WorkersOK' /\ EpochsOK'
<1>1. worker \in [Workers -> Worker]
  BY DEF ProjectionInv, ProjectionTypeOK
<1>2. \A v \in Workers : worker'[v] = IF v = w THEN r ELSE worker[v]
  BY <1>1
<1>3. WorkersOK'
  BY <1>2 DEF ProjectionInv, WorkersOK, BatchOK
<1>4. \A v \in Workers : worker[v].epoch \in Nat /\ worker'[v].epoch \in {0, worker[v].epoch}
  BY <1>1, <1>2 DEF Worker
<1>5. offset.epoch \in Nat
  BY DEF ProjectionInv, ProjectionTypeOK, Offset
<1>6. \A v \in Workers : worker'[v].epoch <= offset'.epoch
  <2>1. \A v \in Workers : worker[v].epoch <= offset.epoch
    BY DEF ProjectionInv, EpochsOK
  <2> QED BY <1>4, <1>5, <2>1
<1>7. \A u, v \in Workers :
        worker'[u].epoch # 0 /\ worker'[u].epoch = worker'[v].epoch => u = v
  BY <1>4 DEF ProjectionInv, EpochsOK
<1> QED BY <1>1, <1>3, <1>6, <1>7 DEF EpochsOK

(* A step that writes nothing to the read model.                           *)
LEMMA ModelStays ==
  ASSUME ProjectionInv, Extends(log, log'), LogInv',
         UNCHANGED <<readModel, skipped, current>>,
         offset'.position = offset.position
  PROVE  ModelOK'
<1>1. Len(log) \in Nat /\ Len(log') \in Nat /\ Len(log) <= Len(log')
      /\ DOMAIN log = 1 .. Len(log)
  BY RowsFinite DEF ProjectionInv, LogInv, LogOK, Extends
<1>2. readModel \in Seq(Written)
  BY DEF ProjectionInv, ProjectionTypeOK, Written
<1>3. \A i \in DOMAIN readModel :
        readModel[i].position \in 1 .. MaxEvents /\ readModel[i].position <= Len(log)
  <2>1. \A i \in DOMAIN readModel : readModel[i] \in Written
    BY <1>2
  <2> QED BY <2>1 DEF ProjectionInv, ModelOK, Written, Positions
<1>4. \A i \in DOMAIN readModel :
        /\ readModel[i].position \in DOMAIN log
        /\ readModel[i].position <= Len(log')
  BY <1>1, <1>3, BoundAssumption
<1>5. \A i \in DOMAIN readModel : log'[readModel[i].position] = log[readModel[i].position]
  BY <1>4 DEF Extends
<1> QED BY <1>4, <1>5 DEF ProjectionInv, ModelOK, ReadModelIsPrefix

(* apply_event behind the offset.                                          *)
LEMMA ModelGrows ==
  ASSUME ProjectionInv, UNCHANGED <<logVars, registryVars>>,
         NEW p \in 1 .. Len(log), Upcastable(log[p].event),
         p > offset.position, ApplyEvent(p)
  PROVE  /\ ModelOK' /\ offset' \in Offset
         /\ offset'.position = p /\ offset'.epoch = offset.epoch
         /\ readModel' \in Seq(Written)
         /\ skipped' \subseteq Positions
         /\ receipts \subseteq receipts'
         /\ receipts' \subseteq {e.id : e \in DomainEvents} \X Positions
<1> DEFINE k == offset.position
           v == current[log[p].event.type]
<1>1. /\ Len(log) \in Nat /\ Len(log) <= MaxEvents /\ DOMAIN log = 1 .. Len(log)
      /\ log \in Seq(Row)
  BY RowsFinite DEF ProjectionInv, LogInv, LogOK
<1>2. p \in Positions /\ p \in DOMAIN log /\ p \in Nat
  BY <1>1, BoundAssumption DEF Positions
<1>3. log[p].event \in DomainEvents
  <2>1. log[p] \in Row
    BY <1>1, <1>2
  <2> QED BY <2>1 DEF Row
<1>4. offset \in Offset /\ k \in Nat
  BY DEF ProjectionInv, ProjectionTypeOK, Offset
<1>5. v \in 1 .. MaxVersion
  <2>1. log[p].event.type \in Types
    BY <1>3 DEF Types
  <2>2. v \in 0 .. MaxVersion /\ v # 0
    BY <2>1 DEF ProjectionInv, ProjectionTypeOK, Upcastable
  <2> QED BY <2>2, ProjectionAssumption
<1>6. /\ offset' \in Offset /\ offset'.position = p /\ offset'.epoch = offset.epoch
  <2>1. offset' = [offset EXCEPT !.position = p]
    BY DEF ApplyEvent
  <2>2. p \in 0 .. MaxEvents
    BY <1>2, BoundAssumption DEF Positions
  <2> QED BY <1>4, <2>1, <2>2 DEF Offset
<1>7. skipped \subseteq 1 .. k /\ skipped' = skipped \cup (k + 1 .. p - 1)
  BY DEF ProjectionInv, ModelOK, ApplyEvent
<1>8. /\ skipped' \subseteq 1 .. p
      /\ (1 .. p) \ skipped' = ((1 .. k) \ skipped) \cup {p}
  <2> HIDE DEF k
  <2>1. k \in Nat /\ p \in Nat /\ p > k
    BY <1>2, <1>4 DEF k
  <2>2. 1 .. p = (1 .. k) \cup (k + 1 .. p - 1) \cup {p}
    BY <2>1
  <2>3. (1 .. k) \cap (k + 1 .. p - 1) = {} /\ p \notin 1 .. k /\ p \notin k + 1 .. p - 1
    BY <2>1
  <2> QED BY <1>7, <2>2, <2>3
<1>9. skipped' \subseteq Positions
  <2>1. 1 .. p \subseteq Positions
    BY <1>2, BoundAssumption DEF Positions
  <2> QED BY <1>8, <2>1
<1>10. PICK x : x = [position |-> p, version |-> v]
  OBVIOUS
<1>11. x \in Written /\ x.position = p /\ x.version = v
  <2> HIDE DEF v
  <2> QED BY <1>2, <1>5, <1>10 DEF Written
<1>12. readModel \in Seq(Written)
  BY DEF ProjectionInv, ProjectionTypeOK, Written
<1>13. PICK n \in Nat : n = Len(readModel) /\ DOMAIN readModel = 1 .. n
  BY <1>12
<1>14. readModel' = Append(readModel, x)
  BY <1>10 DEF ApplyEvent
<1>15. /\ readModel' \in Seq(Written) /\ DOMAIN readModel' = 1 .. n + 1
       /\ \A i \in 1 .. n : readModel'[i] = readModel[i]
       /\ readModel'[n + 1] = x
  BY <1>11, <1>12, <1>13, <1>14
<1>16. 1 .. n + 1 = 1 .. n \cup {n + 1}
  BY <1>13
<1>17. \A i \in 1 .. n :
         /\ readModel[i].position \in (1 .. k) \ skipped
         /\ readModel[i].position <= Len(log)
         /\ readModel[i].version = current[log[readModel[i].position].event.type]
  BY <1>13 DEF ProjectionInv, ModelOK, ReadModelIsPrefix
<1>18. {readModel'[i].position : i \in DOMAIN readModel'}
         = {readModel[i].position : i \in 1 .. n} \cup {p}
  BY <1>11, <1>15, <1>16
<1>19. {readModel'[i].position : i \in DOMAIN readModel'} = (1 .. p) \ skipped'
  <2>1. {readModel[i].position : i \in 1 .. n} = (1 .. k) \ skipped
    BY <1>13 DEF ProjectionInv, ModelOK, ReadModelIsPrefix
  <2> QED BY <1>8, <1>18, <2>1
<1>20. \A i, j \in DOMAIN readModel' :
         i < j => readModel'[i].position < readModel'[j].position
  <2> SUFFICES ASSUME NEW i \in 1 .. n + 1, NEW j \in 1 .. n + 1, i < j
               PROVE  readModel'[i].position < readModel'[j].position
    BY <1>15
  <2>1. i \in 1 .. n
    BY <1>13
  <2>2. CASE j = n + 1
    <3>1. readModel'[i].position \in 1 .. k /\ readModel'[j].position = p
      BY <1>11, <1>15, <1>17, <2>1, <2>2
    <3> QED BY <1>2, <1>4, <3>1
  <2>3. CASE j \in 1 .. n
    <3>1. readModel[i].position < readModel[j].position
      BY <1>13, <2>1, <2>3 DEF ProjectionInv, ModelOK, ReadModelIsPrefix
    <3> QED BY <1>15, <2>1, <2>3, <3>1
  <2> QED BY <1>16, <2>2, <2>3
<1>21. UNCHANGED <<log, current>>
  BY DEF logVars, registryVars
<1>22. \A i \in DOMAIN readModel' :
         /\ readModel'[i].position <= Len(log')
         /\ readModel'[i].version = current'[log'[readModel'[i].position].event.type]
  <2> SUFFICES ASSUME NEW i \in 1 .. n + 1
               PROVE  /\ readModel'[i].position <= Len(log)
                      /\ readModel'[i].version
                           = current[log[readModel'[i].position].event.type]
    BY <1>15, <1>21
  <2>1. CASE i = n + 1
    BY <1>1, <1>11, <1>15, <2>1
  <2>2. CASE i \in 1 .. n
    BY <1>15, <1>17, <2>2
  <2> QED BY <1>16, <2>1, <2>2
<1>23. ModelOK'
  BY <1>6, <1>8, <1>19, <1>20, <1>22 DEF ModelOK, ReadModelIsPrefix
<1>24. /\ receipts \subseteq receipts'
       /\ receipts' \subseteq {e.id : e \in DomainEvents} \X Positions
  <2>1. receipts' = receipts \cup {<<log[p].event.id, p>>}
    BY DEF ApplyEvent
  <2>2. log[p].event.id \in {e.id : e \in DomainEvents}
    BY <1>3
  <2>3. receipts \subseteq {e.id : e \in DomainEvents} \X Positions
    BY DEF ProjectionInv, ProjectionTypeOK
  <2> QED BY <1>2, <2>1, <2>2, <2>3
<1> QED BY <1>6, <1>9, <1>15, <1>23, <1>24

(* read_all reads no further than the limit and the end of the log.        *)
LEMMA BatchEnd ==
  ASSUME NEW a \in Nat, NEW b \in Nat, NEW n \in Nat,
         NEW u, u = Max({a, Min({a + b, n})})
  PROVE  u \in Nat /\ (u = a \/ u <= n)
<1>1. PICK m : m = Min({a + b, n})
  OBVIOUS
<1>2. CASE a + b <= n
  <2>1. m = a + b
    <3>1. \E x \in {a + b, n} : \A y \in {a + b, n} : x <= y
      BY <1>2
    <3>2. m \in {a + b, n} /\ m <= a + b /\ m <= n
      BY <1>1, <3>1 DEF Min
    <3> QED BY <1>2, <3>2
  <2>2. u = a \/ u = m
    <3>1. CASE m >= a
      BY <2>1, <3>1, MaxIs, <1>1
    <3> QED BY <2>1, <3>1
  <2> QED BY <1>2, <2>1, <2>2
<1>3. CASE n <= a + b
  <2>1. m = n
    <3>1. \E x \in {a + b, n} : \A y \in {a + b, n} : x <= y
      BY <1>3
    <3>2. m \in {a + b, n} /\ m <= a + b /\ m <= n
      BY <1>1, <3>1 DEF Min
    <3> QED BY <1>3, <3>2
  <2>2. u = a \/ u = n
    <3>1. u = Max({a, n})
      BY <1>1, <2>1
    <3>2. CASE n >= a
      <4>1. Max({a, n}) = n
        BY <3>2, MaxIs
      <4> QED BY <3>1, <4>1
    <3>3. CASE a >= n
      <4>1. Max({a, n}) = a
        BY <3>3, MaxIs
      <4> QED BY <3>1, <4>1
    <3> QED BY <3>2, <3>3
  <2> QED BY <2>2
<1> QED BY <1>2, <1>3

(* Every step of the projection, with what it may do to the offset.        *)
LEMMA ProjectionStep ==
  ASSUME ProjectionInv, [ProjectionNext]_<<logVars, projectionVars>>
  PROVE  ProjectionInv' /\ [OffsetMoves]_<<logVars, projectionVars>>
<1> USE DEF ProjectionInv
<1>t. /\ worker \in [Workers -> Worker] /\ offset \in Offset
      /\ owner \in [Workers -> Owners]
      /\ offset.position \in Nat /\ offset.epoch \in Nat
      /\ \A w \in Workers :
           /\ worker[w] \in Worker /\ worker[w].epoch \in Nat
           /\ worker[w].last \in 0 .. MaxEvents /\ worker[w].upto \in 0 .. MaxEvents
  BY DEF ProjectionTypeOK, Offset, Worker
<1>l. /\ Len(log) \in Nat /\ DOMAIN log = 1 .. Len(log) /\ Len(log) <= MaxEvents
  BY LogFacts
(* Nothing moves the offset.                                               *)
<1>q. ASSUME offset'.position = offset.position, offset'.epoch >= offset.epoch,
             receipts \subseteq receipts'
      PROVE  OffsetMoves
  BY <1>q, <1>t DEF OffsetMoves
(* A step that leaves the log and the registry alone.                      *)
<1>k. ASSUME UNCHANGED <<logVars, registryVars, receipts, readModel, skipped, owner>>,
             offset' \in Offset, offset'.position = offset.position,
             offset'.epoch = offset.epoch,
             NEW w \in Workers, NEW r \in Worker,
             worker' = [worker EXCEPT ![w] = r], BatchOK(r),
             r.epoch \in {0, worker[w].epoch}
      PROVE  ProjectionInv' /\ OffsetMoves
  <2>1. /\ UNCHANGED <<log, receipts, readModel, skipped, owner>>
        /\ UNCHANGED <<current, upcasters, sealed>>
    BY <1>k DEF registryVars, logVars
  <2>2. LogInv' /\ Extends(log, log')
    BY <1>k, LogStays
  <2>3. worker' \in [Workers -> Worker] /\ WorkersOK' /\ EpochsOK'
    BY <1>k, <2>1, WorkerMoves
  <2>4. ModelOK'
    BY <1>k, <2>1, <2>2, ModelStays
  <2>5. ProjectionTypeOK'
    BY <1>k, <2>1, <2>2, <2>3 DEF ProjectionTypeOK, LogInv
  <2>6. OffsetMoves
    BY <1>k, <1>q, <1>t, <2>1
  <2> QED BY <2>2, <2>3, <2>4, <2>5, <2>6
<1>s. ASSUME UNCHANGED storeVars
      PROVE  /\ UNCHANGED <<offset, receipts, readModel, skipped>>
             /\ offset' \in Offset /\ offset'.position = offset.position
             /\ offset'.epoch = offset.epoch
  BY <1>s, <1>t DEF storeVars
(* The lease of w is the newest, and no other worker has its epoch.        *)
<1>h. ASSUME NEW w \in Workers, Holds(w), offset'.position > offset.position,
             offset'.epoch = offset.epoch, offset'.position \in Nat,
             receipts \subseteq receipts'
      PROVE  OffsetMoves
  <2>1. worker[w].epoch = offset.epoch /\ worker[w].epoch # 0
    BY <1>h DEF Holds
  <2>2. \A v \in Workers : worker[v].epoch = offset.epoch => v = w
    BY <2>1 DEF EpochsOK
  <2> QED BY <1>h, <1>t, <2>1, <2>2 DEF OffsetMoves
(* apply_event, whoever calls it.                                          *)
<1>a. ASSUME UNCHANGED <<logVars, registryVars, owner>>,
             NEW w \in Workers, NEW p \in 1 .. Len(log),
             Upcastable(log[p].event), Holds(w), p > offset.position,
             ApplyEvent(p), NEW r \in Worker, worker' = [worker EXCEPT ![w] = r],
             BatchOK(r), r.epoch \in {0, worker[w].epoch}
      PROVE  ProjectionInv' /\ OffsetMoves
  <2>1. /\ ModelOK' /\ offset' \in Offset
        /\ offset'.position = p /\ offset'.epoch = offset.epoch
        /\ readModel' \in Seq(Written)
        /\ skipped' \subseteq Positions
        /\ receipts \subseteq receipts'
        /\ receipts' \subseteq {e.id : e \in DomainEvents} \X Positions
    BY <1>a, ModelGrows
  <2>2. LogInv' /\ UNCHANGED log
    BY <1>a, LogStays
  <2>3. UNCHANGED <<current, upcasters, sealed, owner>>
    BY <1>a DEF registryVars
  <2>4. worker' \in [Workers -> Worker] /\ WorkersOK' /\ EpochsOK'
    BY <1>a, <2>1, <2>2, WorkerMoves
  <2>5. ProjectionTypeOK'
    BY <2>1, <2>2, <2>3, <2>4 DEF ProjectionTypeOK, LogInv, Written
  <2>6. OffsetMoves
    BY <1>a, <1>h, <1>l, <2>1
  <2> QED BY <2>1, <2>2, <2>4, <2>5, <2>6
<1>1. CASE AppendElsewhere
  <2>1. /\ UNCHANGED <<current, upcasters, sealed, offset, receipts, readModel>>
        /\ UNCHANGED <<skipped, owner, worker>>
    BY <1>1 DEF AppendElsewhere, registryVars, storeVars
  <2>2. LogInv' /\ RowsStay
    BY <1>1, LogStepKeeps DEF AppendElsewhere
  <2>3. Extends(log, log')
    <3>1. \E e \in DomainEvents : log' = log \/ (Insertable(e) /\ log' = Extended(e))
      BY <1>1 DEF AppendElsewhere, AppendEvent, InsertsEvent
    <3> QED BY <3>1, LogFacts, Inserted
  <2>4. ModelOK'
    BY <2>1, <2>2, <2>3, ModelStays
  <2>5. Len(log') \in Nat /\ Len(log) <= Len(log')
    BY <2>2, <2>3, RowsFinite DEF LogInv, LogOK, Extends
  <2>6. WorkersOK'
    <3>1. \A w \in Workers : worker[w].upto <= Len(log) => worker[w].upto <= Len(log')
      BY <1>t, <1>l, <2>5
    <3> QED BY <2>1, <3>1 DEF WorkersOK, BatchOK
  <2>7. ProjectionTypeOK' /\ EpochsOK'
    BY <2>1, <2>2 DEF ProjectionTypeOK, EpochsOK, LogInv
  <2>8. OffsetMoves
    BY <1>q, <1>t, <2>1
  <2> QED BY <2>2, <2>4, <2>6, <2>7, <2>8
<1>2. ASSUME NEW t \in Types, NEW v \in 1 .. MaxVersion, RegisterEventType(t, v)
      PROVE  ProjectionInv' /\ OffsetMoves
  <2>1. /\ UNCHANGED <<upcasters, sealed, offset, receipts, readModel>>
        /\ UNCHANGED <<skipped, owner, worker, logVars>>
        /\ current[t] = 0 /\ current' = [current EXCEPT ![t] = v]
    BY <1>2 DEF RegisterEventType, storeVars
  <2>2. LogInv' /\ UNCHANGED log
    BY <2>1, LogStays
  <2>3. current' \in [Types -> 0 .. MaxVersion]
    BY <2>1, ProjectionAssumption DEF ProjectionTypeOK
  <2>4. \A i \in DOMAIN readModel :
          readModel[i].version = current'[log[readModel[i].position].event.type]
    <3> SUFFICES ASSUME NEW i \in DOMAIN readModel
                 PROVE  readModel[i].version
                          = current'[log[readModel[i].position].event.type]
      OBVIOUS
    <3>1. readModel \in Seq(Written)
      BY DEF ProjectionTypeOK, Written
    <3>2. readModel[i] \in Written
      BY <3>1
    <3>3. /\ readModel[i].version # 0
          /\ readModel[i].position \in 1 .. MaxEvents
          /\ readModel[i].position <= Len(log)
          /\ readModel[i].version = current[log[readModel[i].position].event.type]
      BY <3>2 DEF Written, Positions, ModelOK, ReadModelIsPrefix
    <3>4. log[readModel[i].position] \in Row
      BY <1>l, <3>3, BoundAssumption DEF LogInv, LogOK
    <3>5. log[readModel[i].position].event.type \in Types
      BY <3>4 DEF Row, Types
    <3> QED BY <2>1, <3>3, <3>5 DEF ProjectionTypeOK
  <2>5. ModelOK'
    BY <2>1, <2>2, <2>4 DEF ModelOK, ReadModelIsPrefix
  <2>6. ProjectionTypeOK'
    BY <2>1, <2>2, <2>3 DEF ProjectionTypeOK, LogInv
  <2>7. WorkersOK' /\ EpochsOK'
    BY <2>1, <2>2 DEF WorkersOK, BatchOK, EpochsOK
  <2> QED BY <1>q, <1>t, <2>1, <2>2, <2>5, <2>6, <2>7
<1>3. ASSUME \/ Seal
             \/ \E t \in Types, v \in 1 .. MaxVersion : RegisterUpcaster(t, v)
      PROVE  ProjectionInv' /\ OffsetMoves
  <2>1. /\ UNCHANGED <<current, offset, receipts, readModel>>
        /\ UNCHANGED <<skipped, owner, worker, logVars>>
    BY <1>3 DEF RegisterUpcaster, Seal, storeVars
  <2>2. upcasters' \subseteq Types \X (1 .. MaxVersion) /\ sealed' \in BOOLEAN
    <3>1. CASE Seal
      BY <3>1 DEF Seal, ProjectionTypeOK
    <3>2. CASE \E t \in Types, v \in 1 .. MaxVersion : RegisterUpcaster(t, v)
      BY <3>2 DEF RegisterUpcaster, ProjectionTypeOK
    <3> QED BY <1>3, <3>1, <3>2
  <2>3. LogInv' /\ UNCHANGED log /\ Extends(log, log')
    BY <2>1, LogStays
  <2>4. ModelOK'
    BY <2>1, <2>3, ModelStays
  <2>5. ProjectionTypeOK'
    BY <2>1, <2>2, <2>3 DEF ProjectionTypeOK, LogInv
  <2>6. WorkersOK' /\ EpochsOK'
    BY <2>1, <2>3 DEF WorkersOK, BatchOK, EpochsOK
  <2> QED BY <1>q, <1>t, <2>1, <2>3, <2>4, <2>5, <2>6
<1>4. ASSUME NEW w \in Workers, ClaimOffset(w)
      PROVE  ProjectionInv' /\ OffsetMoves
  <2>1. /\ UNCHANGED <<logVars, current, upcasters, sealed, receipts>>
        /\ UNCHANGED <<readModel, skipped, owner>>
        /\ offset.epoch < MaxEpoch
        /\ offset' = [offset EXCEPT !.owner = owner[w], !.epoch = @ + 1, !.live = TRUE]
    BY <1>4 DEF ClaimOffset, Claimable, registryVars
  <2>2. LogInv' /\ UNCHANGED log /\ Extends(log, log')
    BY <2>1, LogStays
  <2>3. /\ offset'.position = offset.position /\ offset'.epoch = offset.epoch + 1
        /\ offset' \in Offset
    <3>1. offset.epoch + 1 \in 0 .. MaxEpoch
      BY <1>t, <2>1, ProjectionAssumption
    <3>2. owner[w] \in Owners
      BY <1>t
    <3> QED BY <1>t, <2>1, <3>1, <3>2 DEF Offset
  <2>4. PICK r : r = [Resting EXCEPT !.step = "claimed", !.epoch = offset.epoch + 1]
    OBVIOUS
  <2>5. /\ r \in Worker /\ BatchOK(r) /\ r.epoch = offset.epoch + 1
    <3>1. PICK c : c = Resting
      OBVIOUS
    <3>2. c \in Worker /\ c.last = 0 /\ c.upto = 0
      BY <3>1, BoundAssumption, ProjectionAssumption DEF Resting, Worker, Steps
    <3>3. offset.epoch + 1 \in 0 .. MaxEpoch
      BY <1>t, <2>1, ProjectionAssumption
    <3>4. r = [c EXCEPT !.step = "claimed", !.epoch = offset.epoch + 1]
      BY <2>4, <3>1
    <3>5. /\ r \in Worker /\ r.last = 0 /\ r.upto = 0
          /\ r.epoch = offset.epoch + 1 /\ r.step = "claimed"
      BY <3>2, <3>3, <3>4 DEF Worker, Steps
    <3> QED BY <3>5 DEF BatchOK
  <2>6. worker' = worker \/ worker' = [worker EXCEPT ![w] = r]
    BY <1>4, <2>4 DEF ClaimOffset
  <2>7. \A v \in Workers :
          worker'[v] = worker[v] \/ (v = w /\ worker'[v] = r)
    BY <1>t, <2>6
  <2>8. worker' \in [Workers -> Worker] /\ WorkersOK'
    BY <1>t, <2>2, <2>5, <2>6, <2>7 DEF WorkersOK, BatchOK
  <2>9. \A v \in Workers : worker[v].epoch <= offset.epoch
    BY DEF EpochsOK
  <2>10. \A v \in Workers :
           worker'[v].epoch = worker[v].epoch
             \/ (v = w /\ worker'[v].epoch = offset.epoch + 1)
    BY <2>5, <2>7
  <2>11. \A v \in Workers : worker'[v].epoch <= offset'.epoch
    BY <1>t, <2>3, <2>9, <2>10
  <2>12. \A u, v \in Workers :
           worker'[u].epoch # 0 /\ worker'[u].epoch = worker'[v].epoch => u = v
    <3>1. \A v \in Workers : worker[v].epoch # offset.epoch + 1
      BY <1>t, <2>9
    <3> QED BY <2>10, <3>1 DEF EpochsOK
  <2>13. EpochsOK'
    BY <2>11, <2>12 DEF EpochsOK
  <2>14. ModelOK'
    BY <2>1, <2>2, <2>3, ModelStays
  <2>15. ProjectionTypeOK'
    BY <2>1, <2>2, <2>3, <2>8 DEF ProjectionTypeOK, LogInv
  <2>16. offset'.epoch >= offset.epoch
    BY <1>t, <2>3
  <2> QED BY <1>q, <2>1, <2>2, <2>3, <2>8, <2>13, <2>14, <2>15, <2>16
<1>5. ASSUME NEW w \in Workers, LoadOffset(w)
      PROVE  ProjectionInv' /\ OffsetMoves
  <2>1. PICK r : r = [worker[w] EXCEPT !.step = "loaded", !.last = offset.position]
    OBVIOUS
  <2>2. worker' = [worker EXCEPT ![w] = r]
    BY <1>5, <2>1 DEF LoadOffset
  <2>3. offset.position \in 0 .. MaxEvents
    BY <1>t DEF Offset
  <2>4. /\ r \in Worker /\ r.step = "loaded" /\ r.last = offset.position
        /\ r.upto = worker[w].upto /\ r.epoch = worker[w].epoch
    BY <1>t, <2>1, <2>3 DEF Worker, Steps
  <2>5. worker[w].upto = 0
    BY <1>5 DEF LoadOffset, WorkersOK, BatchOK
  <2>6. BatchOK(r)
    BY <1>t, <2>4, <2>5 DEF BatchOK
  <2>7. UNCHANGED <<logVars, registryVars, storeVars, owner>>
    BY <1>5 DEF LoadOffset
  <2> QED BY <1>k, <1>s, <2>2, <2>4, <2>6, <2>7
<1>6. ASSUME NEW w \in Workers, ReadBatch(w)
      PROVE  ProjectionInv' /\ OffsetMoves
  <2>1. PICK u : u = Max({worker[w].last, Min({worker[w].last + BatchLimit, Len(log)})})
    OBVIOUS
  <2>2. u \in Nat /\ (u = worker[w].last \/ u <= Len(log))
    <3>1. worker[w].last \in Nat /\ BatchLimit \in Nat
      BY <1>t, ProjectionAssumption
    <3> QED BY <1>l, <2>1, <3>1, BatchEnd
  <2>3. u \in 0 .. MaxEvents
    BY <1>t, <1>l, <2>2, BoundAssumption
  <2>4. PICK r : r = [worker[w] EXCEPT !.step = "batch", !.upto = u]
    OBVIOUS
  <2>5. worker' = [worker EXCEPT ![w] = r]
    BY <1>6, <2>1, <2>4 DEF ReadBatch
  <2>6. /\ r \in Worker /\ r.step = "batch" /\ r.last = worker[w].last
        /\ r.upto = u /\ r.epoch = worker[w].epoch
    BY <1>t, <2>3, <2>4 DEF Worker, Steps
  <2>7. BatchOK(r)
    BY <1>t, <2>2, <2>6 DEF BatchOK
  <2>8. UNCHANGED <<logVars, registryVars, storeVars, owner>>
    BY <1>6 DEF ReadBatch
  <2> QED BY <1>k, <1>s, <2>5, <2>6, <2>7, <2>8
(* A worker that only goes to another step.                                *)
<1>g. ASSUME NEW w \in Workers, NEW x \in Steps, Goes(w, x), x # "claimed",
             x = "renewed" => worker[w].last < worker[w].upto,
             UNCHANGED <<logVars, registryVars, storeVars, owner>>
      PROVE  ProjectionInv' /\ OffsetMoves
  <2>1. PICK r : r = [worker[w] EXCEPT !.step = x]
    OBVIOUS
  <2>2. worker' = [worker EXCEPT ![w] = r]
    BY <1>g, <2>1 DEF Goes
  <2>3. /\ r \in Worker /\ r.step = x /\ r.last = worker[w].last
        /\ r.upto = worker[w].upto /\ r.epoch = worker[w].epoch
    BY <1>g, <1>t, <2>1 DEF Worker
  <2>4. BatchOK(worker[w])
    BY DEF WorkersOK
  <2>5. BatchOK(r)
    BY <1>g, <2>3, <2>4 DEF BatchOK
  <2> QED BY <1>g, <1>k, <1>s, <2>2, <2>3, <2>5
<1>7. ASSUME NEW w \in Workers, RenewLease(w)
      PROVE  ProjectionInv' /\ OffsetMoves
  <2>1. "renewed" \in Steps /\ "releasing" \in Steps
    BY DEF Steps
  <2>2. Goes(w, "renewed") \/ Goes(w, "releasing")
    BY <1>7 DEF RenewLease
  <2> QED BY <1>7, <1>g, <2>1, <2>2 DEF RenewLease
<1>8. ASSUME NEW w \in Workers, EndBatch(w)
      PROVE  ProjectionInv' /\ OffsetMoves
  <2>1. "releasing" \in Steps
    BY DEF Steps
  <2> QED BY <1>8, <1>g, <2>1 DEF EndBatch
(* Resting has no batch and no epoch.                                      *)
<1>r. Resting \in Worker /\ BatchOK(Resting) /\ Resting.epoch = 0
  <2>1. PICK c : c = Resting
    OBVIOUS
  <2>2. c \in Worker /\ c.last = 0 /\ c.upto = 0 /\ c.step = "idle" /\ c.epoch = 0
    BY <2>1, BoundAssumption, ProjectionAssumption DEF Resting, Worker, Steps
  <2>3. BatchOK(c)
    BY <2>2 DEF BatchOK
  <2> QED BY <2>1, <2>2, <2>3
<1>9. ASSUME NEW w \in Workers, ReleaseLease(w)
      PROVE  ProjectionInv' /\ OffsetMoves
  <2>1. \E b \in BOOLEAN : offset' = [offset EXCEPT !.live = b]
    <3>1. offset.live \in BOOLEAN
      BY <1>t DEF Offset
    <3>2. (offset.live /\ ~Holds(w)) \in BOOLEAN
      OBVIOUS
    <3> QED BY <1>9, <3>2 DEF ReleaseLease
  <2>2. /\ offset' \in Offset /\ offset'.position = offset.position
        /\ offset'.epoch = offset.epoch
    BY <1>t, <2>1 DEF Offset
  <2>3. /\ UNCHANGED <<logVars, registryVars, receipts, readModel, skipped, owner>>
        /\ worker' = [worker EXCEPT ![w] = Resting]
    BY <1>9 DEF ReleaseLease
  <2> QED BY <1>k, <1>r, <2>2, <2>3
<1>10. ASSUME NEW w \in Workers, Crash(w)
       PROVE  ProjectionInv' /\ OffsetMoves
  <2>1. /\ UNCHANGED <<logVars, registryVars, storeVars, owner>>
        /\ worker' = [worker EXCEPT ![w] = Resting]
    BY <1>10 DEF Crash
  <2> QED BY <1>k, <1>r, <1>s, <2>1
<1>11. ASSUME NEW w \in Workers, ApplyNext(w)
       PROVE  ProjectionInv' /\ OffsetMoves
  <2> DEFINE p == worker[w].last + 1
  <2>1. /\ worker[w].step = "renewed" /\ BatchOK(worker[w])
        /\ UNCHANGED <<logVars, registryVars, owner>>
    BY <1>11 DEF ApplyNext, WorkersOK
  <2>2. worker[w].last < worker[w].upto /\ worker[w].upto <= Len(log)
    BY <2>1 DEF BatchOK
  <2>3. p \in 1 .. Len(log) /\ p \in 0 .. MaxEvents
    BY <1>t, <1>l, <2>2, BoundAssumption
  <2>4. CASE /\ Upcastable(log[p].event)
             /\ Applicable(w, p, worker[w].last)
             /\ ApplyEvent(p)
             /\ worker' \in {[worker EXCEPT ![w].step = "batch", ![w].last = p],
                             [worker EXCEPT ![w].step = "releasing"]}
    <3>1. PICK b : b = [worker[w] EXCEPT !.step = "batch", !.last = p]
      OBVIOUS
    <3>2. PICK c : c = [worker[w] EXCEPT !.step = "releasing"]
      OBVIOUS
    <3>3. /\ b \in Worker /\ b.step = "batch" /\ b.last = p
          /\ b.upto = worker[w].upto /\ b.epoch = worker[w].epoch
      BY <1>t, <2>3, <3>1 DEF Worker, Steps
    <3>4. /\ c \in Worker /\ c.step = "releasing" /\ c.last = worker[w].last
          /\ c.upto = worker[w].upto /\ c.epoch = worker[w].epoch
      BY <1>t, <3>2 DEF Worker, Steps
    <3>5. BatchOK(b) /\ BatchOK(c)
      BY <2>2, <3>3, <3>4 DEF BatchOK
    <3>6. \/ worker' = [worker EXCEPT ![w] = b]
          \/ worker' = [worker EXCEPT ![w] = c]
      BY <2>4, <3>1, <3>2
    <3>7. Holds(w) /\ p > offset.position
      BY <2>4, <1>t DEF Applicable
    <3> HIDE DEF p
    <3> QED BY <1>a, <2>1, <2>3, <2>4, <3>3, <3>4, <3>5, <3>6, <3>7
  <2>5. CASE /\ Deduplicated(w, p)
             /\ worker' = [worker EXCEPT ![w].step = "batch",
                                         ![w].last = offset.position]
             /\ UNCHANGED storeVars
    <3>1. PICK r : r = [worker[w] EXCEPT !.step = "batch", !.last = offset.position]
      OBVIOUS
    <3>2. offset.position \in 0 .. MaxEvents
      BY <1>t DEF Offset
    <3>3. /\ r \in Worker /\ r.step = "batch" /\ r.last = offset.position
          /\ r.upto = worker[w].upto /\ r.epoch = worker[w].epoch
      BY <1>t, <3>1, <3>2 DEF Worker, Steps
    <3>4. worker' = [worker EXCEPT ![w] = r]
      BY <2>5, <3>1
    <3>5. BatchOK(r)
      BY <2>2, <3>3 DEF BatchOK
    <3> QED BY <1>k, <1>s, <2>1, <2>5, <3>3, <3>4, <3>5
  <2>6. CASE Goes(w, "releasing") /\ UNCHANGED storeVars
    <3>1. "releasing" \in Steps
      BY DEF Steps
    <3> QED BY <1>g, <2>1, <2>6, <3>1
  <2> QED BY <1>11, <2>4, <2>5, <2>6 DEF ApplyNext
<1>12. ASSUME NEW w \in Workers, NEW p \in Positions, NEW x \in 0 .. MaxEvents,
              ApplyDirectly(w, p, x)
       PROVE  ProjectionInv' /\ OffsetMoves
  <2>1. /\ UNCHANGED <<logVars, registryVars, owner, worker>>
        /\ Upcastable(log[p].event) /\ ApplyEvent(p) /\ Holds(w)
        /\ p <= Len(log) /\ offset.position = x /\ p > x
    BY <1>12 DEF ApplyDirectly, Applicable
  <2>2. p \in 1 .. Len(log) /\ p > offset.position
    BY <1>l, <2>1, BoundAssumption DEF Positions
  <2>3. worker' = [worker EXCEPT ![w] = worker[w]]
    BY <1>t, <2>1
  <2>4. worker[w] \in Worker /\ BatchOK(worker[w])
    BY <1>t DEF WorkersOK
  <2> QED BY <1>a, <2>1, <2>2, <2>3, <2>4
<1>13. ASSUME NEW w \in Workers, NEW p \in Positions, NEW x \in 0 .. MaxEvents,
              Advance(w, x, p)
       PROVE  ProjectionInv' /\ OffsetMoves
  <2> DEFINE k == offset.position
  <2>1. /\ UNCHANGED <<logVars, current, upcasters, sealed, receipts>>
        /\ UNCHANGED <<readModel, owner, worker>>
        /\ Holds(w) /\ p > k
        /\ offset' = [offset EXCEPT !.position = p]
        /\ skipped' = skipped \cup (k + 1 .. p)
    BY <1>13 DEF Advance, registryVars
  <2>2. LogInv' /\ UNCHANGED log
    BY <2>1, LogStays
  <2>3. p \in Nat /\ p \in 0 .. MaxEvents
    BY BoundAssumption DEF Positions
  <2>4. /\ offset' \in Offset /\ offset'.position = p /\ offset'.epoch = offset.epoch
    BY <1>t, <2>1, <2>3 DEF Offset
  <2>5. skipped \subseteq 1 .. k /\ skipped \subseteq Positions
    BY DEF ModelOK, ProjectionTypeOK
  <2>6. 1 .. p \subseteq Positions
    BY <2>3, BoundAssumption DEF Positions
  <2>7. skipped' \subseteq 1 .. p /\ (1 .. p) \ skipped' = (1 .. k) \ skipped
    <3>1. k \in Nat
      BY <1>t
    <3> HIDE DEF k
    <3>2. 1 .. p = (1 .. k) \cup (k + 1 .. p) /\ (1 .. k) \cap (k + 1 .. p) = {}
      BY <2>1, <2>3, <3>1
    <3> QED BY <2>1, <2>5, <3>2
  <2>8. ModelOK'
    BY <2>1, <2>2, <2>4, <2>7 DEF ModelOK, ReadModelIsPrefix
  <2>9. ProjectionTypeOK'
    BY <2>1, <2>2, <2>4, <2>6, <2>7 DEF ProjectionTypeOK, LogInv
  <2>10. WorkersOK' /\ EpochsOK'
    BY <2>1, <2>2, <2>4 DEF WorkersOK, BatchOK, EpochsOK
  <2>11. OffsetMoves
    BY <1>h, <2>1, <2>3, <2>4
  <2> QED BY <2>2, <2>8, <2>9, <2>10, <2>11
<1>14. CASE Expire
  <2>1. /\ UNCHANGED <<logVars, current, upcasters, sealed, receipts, worker>>
        /\ UNCHANGED <<readModel, skipped, owner>>
        /\ offset' = [offset EXCEPT !.live = FALSE]
    BY <1>14 DEF Expire, registryVars
  <2>2. LogInv' /\ UNCHANGED log /\ Extends(log, log')
    BY <2>1, LogStays
  <2>3. /\ offset' \in Offset /\ offset'.position = offset.position
        /\ offset'.epoch = offset.epoch
    BY <1>t, <2>1 DEF Offset
  <2>4. ModelOK'
    BY <2>1, <2>2, <2>3, ModelStays
  <2>5. ProjectionTypeOK'
    BY <2>1, <2>2, <2>3 DEF ProjectionTypeOK, LogInv
  <2>6. WorkersOK' /\ EpochsOK'
    BY <2>1, <2>2, <2>3 DEF WorkersOK, BatchOK, EpochsOK
  <2> QED BY <1>q, <1>t, <2>1, <2>2, <2>3, <2>4, <2>5, <2>6
<1>15. CASE UNCHANGED <<logVars, projectionVars>>
  <2>1. /\ UNCHANGED <<logVars, current, upcasters, sealed, offset, receipts, worker>>
        /\ UNCHANGED <<readModel, skipped, owner>>
    BY <1>15 DEF projectionVars, registryVars, storeVars
  <2>2. LogInv' /\ UNCHANGED log /\ Extends(log, log')
    BY <2>1, LogStays
  <2>3. ModelOK'
    BY <2>1, <2>2, ModelStays
  <2>4. ProjectionTypeOK' /\ WorkersOK' /\ EpochsOK'
    BY <2>1, <2>2 DEF ProjectionTypeOK, LogInv, WorkersOK, BatchOK, EpochsOK
  <2> QED BY <1>15, <2>2, <2>3, <2>4
<1>16. CASE ProjectionNext
  BY <1>1, <1>2, <1>3, <1>4, <1>5, <1>6, <1>7, <1>8, <1>9, <1>10, <1>11, <1>12,
     <1>13, <1>14, <1>16 DEF ProjectionNext, WorkerStep
<1> QED BY <1>15, <1>16

LEMMA ProjectionStart == ProjectionInit => ProjectionInv
<1> SUFFICES ASSUME ProjectionInit PROVE ProjectionInv
  OBVIOUS
<1>1. LogInv
  BY LogStart DEF ProjectionInit, NothingProjected
<1>2. PICK c : c = Resting
  OBVIOUS
<1>3. c \in Worker /\ c.last = 0 /\ c.upto = 0 /\ c.step = "idle" /\ c.epoch = 0
  BY <1>2, BoundAssumption, ProjectionAssumption DEF Resting, Worker, Steps
<1>4. worker \in [Workers -> Worker] /\ \A w \in Workers : worker[w] = c
  BY <1>2, <1>3 DEF ProjectionInit, NothingProjected
<1>5. PICK x : x = [position |-> 0, owner |-> None, epoch |-> 0, live |-> FALSE]
  OBVIOUS
<1>6. x \in Offset /\ x.position = 0 /\ x.epoch = 0 /\ offset = x
  BY <1>5, BoundAssumption, ProjectionAssumption
     DEF Offset, ProjectionInit, NothingProjected
<1>7. readModel \in Seq(Written) /\ DOMAIN readModel = {}
  BY EmptySeq DEF ProjectionInit, NothingProjected
<1>8. current \in [Types -> 0 .. MaxVersion]
  BY ProjectionAssumption DEF ProjectionInit, NothingProjected
<1>9. ProjectionTypeOK
  BY <1>1, <1>4, <1>6, <1>7, <1>8
     DEF ProjectionTypeOK, LogInv, ProjectionInit, NothingProjected, Written
<1>10. WorkersOK /\ EpochsOK
  BY <1>3, <1>4, <1>6 DEF WorkersOK, BatchOK, EpochsOK
<1>11. ModelOK
  BY <1>6, <1>7 DEF ModelOK, ReadModelIsPrefix, ProjectionInit, NothingProjected
<1> QED BY <1>1, <1>9, <1>10, <1>11 DEF ProjectionInv

(* Whatever workers claim, crash, lose answers or are taken over, and      *)
(* whatever is appended meanwhile, the read model is the log up to the     *)
(* offset without what a caller skipped, each event once and in order.     *)
THEOREM ReadModelFollowsLog == ProjectionSpec => []ReadModelIsPrefix
<1>1. ProjectionInv /\ [ProjectionNext]_<<logVars, projectionVars>> => ProjectionInv'
  BY ProjectionStep
<1>2. ProjectionInv => ReadModelIsPrefix
  BY DEF ProjectionInv, ModelOK
<1> QED BY <1>1, <1>2, ProjectionStart, PTL DEF ProjectionSpec

(* Only the one worker of the newest claim moves the offset; the offset,   *)
(* its epoch and the receipts never go back.                               *)
THEOREM FencedWorkersStayFenced == ProjectionSpec => FencedForGood
<1>1. ProjectionInv /\ [ProjectionNext]_<<logVars, projectionVars>>
        => ProjectionInv' /\ [OffsetMoves]_<<logVars, projectionVars>>
  BY ProjectionStep
<1> QED BY <1>1, ProjectionStart, PTL DEF ProjectionSpec, FencedForGood

-----------------------------------------------------------------------------
(* Artifact ledgers.  The version rows of a log L are a fold over it; the  *)
(* rows of a prefix do not depend on what follows.                         *)

IsChosen(f, L, n, name) ==
  f = [i \in 0 .. n |->
         IF i = 0 THEN <<>>
         ELSE IF IsVersionOf(L[i].event, name) THEN Append(f[i - 1], L[i])
         ELSE f[i - 1]]

Chosen(L, n, name) == (CHOOSE f : IsChosen(f, L, n, name))[n]

LEMMA RowsAreChosen ==
  ASSUME NEW n, NEW name
  PROVE  VersionRows(n, name) = Chosen(log, n, name)
BY DEF VersionRows, Chosen, IsChosen

(* A set of numbers that is not empty has a least one. *)
LEMMA LeastExists ==
  ASSUME NEW T, T \subseteq Nat, T # {}
  PROVE  \E d \in T : \A c \in T : ~(c < d)
<1>1. PICK d \in T : \A c \in T : ~(<<c, d>> \in OpToRel(<, Nat))
  BY NatLessThanWellFounded, WFMin, Zenon
<1>2. \A c \in T : ~(c < d)
  BY <1>1 DEF OpToRel
<1> QED BY <1>2

LEMMA ChosenExtends ==
  ASSUME NEW L, NEW name, NEW n \in Nat, NEW f, IsChosen(f, L, n, name)
  PROVE  \E h : /\ IsChosen(h, L, n + 1, name)
                /\ h[n] = f[n]
                /\ h[n + 1] = IF IsVersionOf(L[n + 1].event, name)
                              THEN Append(f[n], L[n + 1]) ELSE f[n]
<1>0. \A i \in 0 .. n :
        f[i] = IF i = 0 THEN <<>>
               ELSE IF IsVersionOf(L[i].event, name) THEN Append(f[i - 1], L[i])
               ELSE f[i - 1]
  BY DEF IsChosen
<1>1. PICK last : last = IF IsVersionOf(L[n + 1].event, name)
                         THEN Append(f[n], L[n + 1]) ELSE f[n]
  OBVIOUS
<1>2. PICK h : h = [i \in 0 .. n + 1 |-> IF i = n + 1 THEN last ELSE f[i]]
  OBVIOUS
<1>3. ASSUME NEW i \in 0 .. n + 1
      PROVE  h[i] = IF i = 0 THEN <<>>
                    ELSE IF IsVersionOf(L[i].event, name) THEN Append(h[i - 1], L[i])
                    ELSE h[i - 1]
  <2>1. CASE i = n + 1
    <3>1. i # 0 /\ i - 1 = n /\ n \in 0 .. n + 1 /\ n # n + 1 /\ h[i - 1] = f[n]
      BY <1>2, <2>1
    <3> QED BY <1>1, <1>2, <2>1, <3>1
  <2>2. CASE i # n + 1
    <3>1. i \in 0 .. n /\ h[i] = f[i]
      BY <1>2, <2>2
    <3>2. CASE i = 0
      BY <1>0, <3>1, <3>2
    <3>3. CASE i # 0
      <4>1. i - 1 \in 0 .. n + 1 /\ i - 1 # n + 1
        BY <3>1, <3>3
      <4>2. h[i - 1] = f[i - 1]
        BY <1>2, <4>1
      <4> QED BY <1>0, <3>1, <3>3, <4>2
    <3> QED BY <3>2, <3>3
  <2> QED BY <2>1, <2>2
<1>4. IsChosen(h, L, n + 1, name)
  BY <1>2, <1>3 DEF IsChosen
<1>5. n \in 0 .. n + 1 /\ n # n + 1 /\ n + 1 \in 0 .. n + 1
  OBVIOUS
<1>6. h[n] = f[n] /\ h[n + 1] = last
  BY <1>2, <1>5
<1> QED BY <1>1, <1>4, <1>6

LEMMA ChosenExists ==
  ASSUME NEW L, NEW name, NEW n \in Nat
  PROVE  \E f : IsChosen(f, L, n, name)
<1>1. PICK T : T = {m \in Nat : ~\E f : IsChosen(f, L, m, name)}
  OBVIOUS
<1>2. ASSUME T # {} PROVE FALSE
  <2>1. PICK m \in T : \A c \in T : ~(c < m)
    BY <1>1, <1>2, LeastExists
  <2>2. m \in Nat /\ ~\E f : IsChosen(f, L, m, name)
    BY <1>1
  <2>3. CASE m = 0
    <3>1. PICK f : f = [i \in 0 .. 0 |-> <<>>]
      OBVIOUS
    <3>2. IsChosen(f, L, 0, name)
      BY <3>1 DEF IsChosen
    <3> QED BY <2>2, <2>3, <3>2
  <2>4. CASE m # 0
    <3>1. PICK k \in Nat : m = k + 1 /\ k < m
      <4>1. m - 1 \in Nat /\ m = (m - 1) + 1 /\ m - 1 < m
        BY <2>2, <2>4
      <4> QED BY <4>1
    <3>2. PICK f : IsChosen(f, L, k, name)
      BY <1>1, <2>1, <3>1
    <3> QED BY <2>2, <3>1, <3>2, ChosenExtends
  <2> QED BY <2>3, <2>4
<1> QED BY <1>1, <1>2

LEMMA ChosenUnique ==
  ASSUME NEW L, NEW name, NEW n \in Nat,
         NEW f, IsChosen(f, L, n, name), NEW h, IsChosen(h, L, n, name)
  PROVE  f = h
<1>1. PICK T : T = {m \in 0 .. n : f[m] # h[m]}
  OBVIOUS
<1>2. \A i \in 0 .. n :
        /\ f[i] = IF i = 0 THEN <<>>
                  ELSE IF IsVersionOf(L[i].event, name) THEN Append(f[i - 1], L[i])
                  ELSE f[i - 1]
        /\ h[i] = IF i = 0 THEN <<>>
                  ELSE IF IsVersionOf(L[i].event, name) THEN Append(h[i - 1], L[i])
                  ELSE h[i - 1]
  BY DEF IsChosen
<1>3. ASSUME T # {} PROVE FALSE
  <2>0. T \subseteq Nat
    BY <1>1
  <2>1. PICK m \in T : \A c \in T : ~(c < m)
    BY <1>3, <2>0, LeastExists
  <2>2. m \in 0 .. n /\ f[m] # h[m]
    BY <1>1
  <2>3. m # 0
    BY <1>2, <2>2
  <2>4. m - 1 \in 0 .. n /\ m - 1 < m
    BY <2>2, <2>3
  <2>5. f[m - 1] = h[m - 1]
    BY <1>1, <2>1, <2>4
  <2> QED BY <1>2, <2>2, <2>3, <2>5
<1>4. \A i \in 0 .. n : f[i] = h[i]
  BY <1>1, <1>3
<1> QED BY <1>4 DEF IsChosen

LEMMA ChosenSteps ==
  ASSUME NEW L, NEW name
  PROVE  /\ Chosen(L, 0, name) = <<>>
         /\ \A n \in Nat : Chosen(L, n + 1, name) =
              IF IsVersionOf(L[n + 1].event, name)
              THEN Append(Chosen(L, n, name), L[n + 1]) ELSE Chosen(L, n, name)
<1>1. ASSUME NEW n \in Nat
      PROVE  \A f : IsChosen(f, L, n, name) => Chosen(L, n, name) = f[n]
  <2> SUFFICES ASSUME NEW f, IsChosen(f, L, n, name)
               PROVE  Chosen(L, n, name) = f[n]
    OBVIOUS
  <2>1. PICK h : h = CHOOSE x : IsChosen(x, L, n, name)
    OBVIOUS
  <2>2. IsChosen(h, L, n, name)
    BY <2>1
  <2>3. h = f
    BY <2>2, ChosenUnique
  <2> QED BY <2>1, <2>3 DEF Chosen
<1>2. Chosen(L, 0, name) = <<>>
  <2>1. PICK f : IsChosen(f, L, 0, name)
    BY ChosenExists
  <2>2. f[0] = <<>>
    BY <2>1 DEF IsChosen
  <2> QED BY <1>1, <2>1, <2>2
<1>3. ASSUME NEW n \in Nat
      PROVE  Chosen(L, n + 1, name) =
               IF IsVersionOf(L[n + 1].event, name)
               THEN Append(Chosen(L, n, name), L[n + 1]) ELSE Chosen(L, n, name)
  <2>1. PICK f : IsChosen(f, L, n, name)
    BY ChosenExists
  <2>2. PICK h : /\ IsChosen(h, L, n + 1, name)
                 /\ h[n + 1] = IF IsVersionOf(L[n + 1].event, name)
                               THEN Append(f[n], L[n + 1]) ELSE f[n]
    BY <2>1, ChosenExtends
  <2>3. Chosen(L, n, name) = f[n]
    BY <1>1, <2>1
  <2>4. n + 1 \in Nat
    OBVIOUS
  <2>5. Chosen(L, n + 1, name) = h[n + 1]
    BY <1>1, <2>2, <2>4
  <2> QED BY <2>2, <2>3, <2>5
<1> QED BY <1>2, <1>3

Agree(L, M, n) == \A i \in 1 .. n : M[i] = L[i]

LEMMA ChosenAgree ==
  ASSUME NEW L, NEW M, NEW n \in Nat, Agree(L, M, n), NEW name
  PROVE  Chosen(M, n, name) = Chosen(L, n, name)
<1>1. PICK f, h : f = (CHOOSE x : IsChosen(x, L, n, name))
                  /\ h = (CHOOSE x : IsChosen(x, M, n, name))
  OBVIOUS
<1>2. IsChosen(f, L, n, name) /\ IsChosen(h, M, n, name)
  BY <1>1, ChosenExists
<1>3. ASSUME NEW i \in 0 .. n
      PROVE  h[i] = IF i = 0 THEN <<>>
                    ELSE IF IsVersionOf(L[i].event, name) THEN Append(h[i - 1], L[i])
                    ELSE h[i - 1]
  <2>1. i = 0 \/ i \in 1 .. n
    OBVIOUS
  <2>2. h[i] = IF i = 0 THEN <<>>
               ELSE IF IsVersionOf(M[i].event, name) THEN Append(h[i - 1], M[i])
               ELSE h[i - 1]
    BY <1>2 DEF IsChosen
  <2> QED BY <2>1, <2>2 DEF Agree
<1>4. h = [i \in 0 .. n |-> h[i]]
  BY <1>2 DEF IsChosen
<1>5. IsChosen(h, L, n, name)
  BY <1>3, <1>4 DEF IsChosen
<1>6. h = f
  BY <1>2, <1>5, ChosenUnique
<1> QED BY <1>1, <1>6 DEF Chosen

(* The rows with a version are counted by the artifacts and the versions   *)
(* they have.                                                              *)
Versioned(L, n) == {p \in 1 .. n : L[p].event.output # None}

Pairs(L, n) ==
  {v \in ArtifactNames \X (Nat \ {0}) : v[2] <= Len(Chosen(L, n, v[1]))}

VersionsOf(S) == {r \in S : r.event.output \in Outputs}

Counted(L, S, n) ==
  /\ \A name : Chosen(L, n, name) \in Seq(VersionsOf(S))
  /\ IsFiniteSet(Versioned(L, n)) /\ IsFiniteSet(Pairs(L, n))
  /\ Cardinality(Pairs(L, n)) = Cardinality(Versioned(L, n))
  /\ \A name : Len(Chosen(L, n, name)) <= Cardinality(Versioned(L, n))

LEMMA CountStep ==
  ASSUME NEW S, NEW L, NEW n \in Nat, Counted(L, S, n), L[n + 1] \in S,
         L[n + 1].event.output \in Outputs \cup {None}
  PROVE  /\ Counted(L, S, n + 1)
         /\ Cardinality(Versioned(L, n + 1)) \in Nat
         /\ Cardinality(Versioned(L, n + 1)) =
              Cardinality(Versioned(L, n))
                + IF L[n + 1].event.output = None THEN 0 ELSE 1
<1>0. PICK r, V, P : r = L[n + 1] /\ V = Versioned(L, n) /\ P = Pairs(L, n)
  OBVIOUS
<1>1. /\ IsFiniteSet(V) /\ IsFiniteSet(P) /\ Cardinality(V) \in Nat
      /\ Cardinality(P) = Cardinality(V)
  BY <1>0, FS_CardinalityType DEF Counted
<1>2. \A name : /\ Chosen(L, n, name) \in Seq(VersionsOf(S))
                /\ Len(Chosen(L, n, name)) \in Nat
                /\ Len(Chosen(L, n, name)) <= Cardinality(V)
  <2>1. \A name : Chosen(L, n, name) \in Seq(VersionsOf(S))
    BY DEF Counted
  <2>2. \A name : Len(Chosen(L, n, name)) \in Nat
    BY <2>1, LenProperties
  <2> QED BY <1>0, <2>1, <2>2 DEF Counted
<1>3. \A name : Chosen(L, n + 1, name) = IF IsVersionOf(r.event, name)
                                         THEN Append(Chosen(L, n, name), r)
                                         ELSE Chosen(L, n, name)
  BY <1>0, ChosenSteps
<1>4. CASE r.event.output = None
  <2>1. \A name : Chosen(L, n + 1, name) = Chosen(L, n, name)
    BY <1>3, <1>4 DEF IsVersionOf
  <2>2. Versioned(L, n + 1) = V
    <3>1. \A p \in 1 .. n + 1 : p \in 1 .. n \/ p = n + 1
      OBVIOUS
    <3>2. \A p \in 1 .. n : p \in 1 .. n + 1
      OBVIOUS
    <3> QED BY <1>0, <1>4, <3>1, <3>2 DEF Versioned
  <2>3. Pairs(L, n + 1) = P
    BY <1>0, <2>1 DEF Pairs
  <2> QED BY <1>0, <1>1, <1>2, <1>4, <2>1, <2>2, <2>3 DEF Counted
<1>5. CASE r.event.output # None
  <2>1. PICK o \in Outputs : o = r.event.output
    BY <1>0, <1>5
  <2>2. PICK a \in ArtifactNames : a = <<o.session, o.name>>
    <3>1. <<o.session, o.name>> \in {<<x.session, x.name>> : x \in Outputs}
      OBVIOUS
    <3> QED BY <3>1 DEF ArtifactNames
  <2>3. \A name : IsVersionOf(r.event, name) <=> name = a
    BY <1>5, <2>1, <2>2 DEF IsVersionOf
  <2>4. r \in VersionsOf(S)
    BY <1>0, <2>1 DEF VersionsOf
  <2>5. PICK k \in Nat : k = Len(Chosen(L, n, a)) /\ k <= Cardinality(V)
    BY <1>2
  <2>6. /\ Chosen(L, n + 1, a) = Append(Chosen(L, n, a), r)
        /\ Chosen(L, n + 1, a) \in Seq(VersionsOf(S))
        /\ Len(Chosen(L, n + 1, a)) = k + 1
    <3>1. Chosen(L, n + 1, a) = Append(Chosen(L, n, a), r)
      BY <1>3, <2>3
    <3> QED BY <1>2, <2>4, <2>5, <3>1, AppendProperties
  <2>7. \A name : name # a => Chosen(L, n + 1, name) = Chosen(L, n, name)
    BY <1>3, <2>3
  <2>8. Versioned(L, n + 1) = V \cup {n + 1}
    <3>1. \A p \in 1 .. n + 1 : p \in 1 .. n \/ p = n + 1
      OBVIOUS
    <3>2. (\A p \in 1 .. n : p \in 1 .. n + 1) /\ n + 1 \in 1 .. n + 1
      OBVIOUS
    <3> QED BY <1>0, <1>5, <3>1, <3>2 DEF Versioned
  <2>9. n + 1 \notin V
    BY <1>0 DEF Versioned
  <2>10. IsFiniteSet(V \cup {n + 1}) /\ Cardinality(V \cup {n + 1}) = Cardinality(V) + 1
    BY <1>1, <2>9, FS_AddElement
  <2>11. PICK q : q = <<a, k + 1>> /\ q \in ArtifactNames \X (Nat \ {0})
    <3>1. k + 1 \in Nat \ {0}
      OBVIOUS
    <3>2. <<a, k + 1>> \in ArtifactNames \X (Nat \ {0})
      BY <3>1
    <3> QED BY <3>2
  <2>12. Pairs(L, n + 1) = P \cup {q}
    <3>1. ASSUME NEW v \in ArtifactNames \X (Nat \ {0})
          PROVE  v[2] <= Len(Chosen(L, n + 1, v[1]))
                   <=> v[2] <= Len(Chosen(L, n, v[1])) \/ v = q
      <4>1. CASE v[1] = a
        <5>1. v[2] <= k + 1 <=> v[2] <= k \/ v[2] = k + 1
          OBVIOUS
        <5>2. v = q <=> v[2] = k + 1
          BY <2>11, <4>1
        <5> QED BY <2>5, <2>6, <4>1, <5>1, <5>2
      <4>2. CASE v[1] # a
        <5>1. v # q
          BY <2>11, <4>2
        <5> QED BY <2>7, <4>2, <5>1
      <4> QED BY <4>1, <4>2
    <3>2. q \in ArtifactNames \X (Nat \ {0})
      BY <2>11
    <3> QED BY <1>0, <3>1, <3>2 DEF Pairs
  <2>13. q \notin P
    BY <1>0, <2>5, <2>11 DEF Pairs
  <2>14. IsFiniteSet(P \cup {q}) /\ Cardinality(P \cup {q}) = Cardinality(P) + 1
    BY <1>1, <2>13, FS_AddElement
  <2>15. \A name : /\ Chosen(L, n + 1, name) \in Seq(VersionsOf(S))
                   /\ Len(Chosen(L, n + 1, name)) <= Cardinality(V) + 1
    <3> TAKE name
    <3>1. CASE name = a
      BY <1>1, <2>5, <2>6, <3>1
    <3>2. CASE name # a
      <4>1. Chosen(L, n + 1, name) = Chosen(L, n, name)
        BY <2>7, <3>2
      <4>2. /\ Chosen(L, n, name) \in Seq(VersionsOf(S))
            /\ Len(Chosen(L, n, name)) \in Nat
            /\ Len(Chosen(L, n, name)) <= Cardinality(V)
        BY <1>2
      <4> QED BY <1>1, <4>1, <4>2
    <3> QED BY <3>1, <3>2
  <2>16. /\ IsFiniteSet(Versioned(L, n + 1)) /\ IsFiniteSet(Pairs(L, n + 1))
         /\ Cardinality(Versioned(L, n + 1)) = Cardinality(V) + 1
         /\ Cardinality(Pairs(L, n + 1)) = Cardinality(Versioned(L, n + 1))
    BY <1>1, <2>8, <2>10, <2>12, <2>14
  <2>17. Counted(L, S, n + 1)
    BY <2>15, <2>16 DEF Counted
  <2>18. Cardinality(V) + 1 \in Nat
    BY <1>1
  <2> QED BY <1>0, <1>5, <2>16, <2>17, <2>18
<1> QED BY <1>4, <1>5

LEMMA RowsCounted ==
  ASSUME NEW S, NEW L \in Seq(S),
         \A p \in 1 .. Len(L) : L[p].event.output \in Outputs \cup {None}
  PROVE  \A n \in 0 .. Len(L) :
           Counted(L, S, n) /\ Cardinality(Versioned(L, n)) \in Nat
<1>0. Len(L) \in Nat /\ \A i \in 1 .. Len(L) : L[i] \in S
  OBVIOUS
<1>1. Counted(L, S, 0)
  <2>1. \A name : Chosen(L, 0, name) = <<>>
    BY ChosenSteps
  <2>2. Versioned(L, 0) = {} /\ Pairs(L, 0) = {}
    <3>1. \A v \in ArtifactNames \X (Nat \ {0}) : ~(v[2] <= 0)
      OBVIOUS
    <3> QED BY <2>1, <3>1 DEF Versioned, Pairs
  <2>3. IsFiniteSet({}) /\ Cardinality({}) = 0
    BY FS_EmptySet
  <2>4. \A name : /\ Chosen(L, 0, name) \in Seq(VersionsOf(S))
                  /\ Len(Chosen(L, 0, name)) <= 0
    <3>1. <<>> \in Seq(VersionsOf(S)) /\ Len(<<>>) <= 0
      OBVIOUS
    <3> QED BY <2>1, <3>1
  <2> QED BY <2>2, <2>3, <2>4 DEF Counted
<1>2. PICK T : T = {m \in 0 .. Len(L) : ~Counted(L, S, m)}
  OBVIOUS
<1>3. ASSUME T # {} PROVE FALSE
  <2>0. T \subseteq Nat
    BY <1>2
  <2>1. PICK m \in T : \A c \in T : ~(c < m)
    BY <1>3, <2>0, LeastExists
  <2>2. m \in 0 .. Len(L) /\ ~Counted(L, S, m) /\ m # 0
    BY <1>1, <1>2
  <2>3. PICK k \in Nat : /\ m = k + 1 /\ k \in 0 .. Len(L) /\ k < m
                         /\ k + 1 \in 1 .. Len(L)
    <3>1. /\ m - 1 \in Nat /\ m = (m - 1) + 1 /\ m - 1 \in 0 .. Len(L) /\ m - 1 < m
          /\ (m - 1) + 1 \in 1 .. Len(L)
      BY <1>0, <2>2
    <3> QED BY <3>1
  <2>4. Counted(L, S, k)
    BY <1>2, <2>1, <2>3
  <2>5. Counted(L, S, k + 1)
    BY <1>0, <2>3, <2>4, CountStep
  <2> QED BY <2>2, <2>3, <2>5
<1>4. \A n \in 0 .. Len(L) : Counted(L, S, n)
  BY <1>2, <1>3
<1>5. \A n \in 0 .. Len(L) : Cardinality(Versioned(L, n)) \in Nat
  BY <1>4, FS_CardinalityType DEF Counted
<1> QED BY <1>4, <1>5

-----------------------------------------------------------------------------
(* The ledgers' invariant: what LedgersReplay says, of a log L, and that a *)
(* call about to append has the next version of what its memory shows.     *)

LedgersSpec == LogInit /\ LedgerInit /\ [][LedgerNext]_<<logVars, ledgerVars>>

RowsSound(L) ==
  /\ \E S : L \in Seq(S)
  /\ \A p \in 1 .. Len(L) : L[p].event.output \in Outputs \cup {None}

Chained(L, n) ==
  /\ \A name \in ArtifactNames : \A k \in DOMAIN Chosen(L, n, name) :
       Chosen(L, n, name)[k].event.version = k
  /\ Cardinality(Versioned(L, n)) <= MaxArtifacts

OutputsOf(c) == [k \in DOMAIN c |-> c[k].event.output]

ReplayOf(L, n) ==
  [versions |-> [name \in ArtifactNames |-> OutputsOf(Chosen(L, n, name))],
   position |-> n]

MemoryOK(L, m) == \E n \in 0 .. Len(L) : m = ReplayOf(L, n)

UsageOf(m) ==
  Cardinality({v \in ArtifactNames \X (1 .. MaxArtifacts) :
                 v[2] <= Len(m.versions[v[1]])})

NameOf(o) == <<o.session, o.name>>

PendingOK(m, r, l) ==
  r.event # None =>
    /\ r.output \in Outputs
    /\ r.event = VersionEvent(l, r.output, Len(m.versions[NameOf(r.output)]) + 1)
    /\ UsageOf(m) < MaxArtifacts

RowFor(L, o, p) ==
  /\ p \in 1 .. Len(L)
  /\ L[p].event.stream = o.session /\ L[p].event.key = <<o.task, o.name, o.content>>

RecordedOK(L, o, v) ==
  v # 0 => \E p : RowFor(L, o, p) /\ L[p].event.output = o /\ L[p].event.version = v

IsRecord(r) ==
  /\ r = [output |-> r.output, attempt |-> r.attempt, event |-> r.event]
  /\ r.output \in Outputs \cup {None}

LedgersInv ==
  /\ RowsSound(log) /\ Chained(log, Len(log))
  /\ memory = [l \in Ledgers |-> memory[l]]
  /\ record = [l \in Ledgers |-> record[l]]
  /\ recorded = [o \in Outputs |-> recorded[o]]
  /\ \A l \in Ledgers : /\ MemoryOK(log, memory[l])
                        /\ IsRecord(record[l]) /\ PendingOK(memory[l], record[l], l)
  /\ \A o \in Outputs : RecordedOK(log, o, recorded[o])

LEMMA RowsFacts ==
  ASSUME NEW L, RowsSound(L)
  PROVE  /\ Len(L) \in Nat /\ DOMAIN L = 1 .. Len(L)
         /\ \A n \in 0 .. Len(L) :
              /\ Cardinality(Versioned(L, n)) \in Nat
              /\ \A name : /\ Len(Chosen(L, n, name)) \in Nat
                           /\ DOMAIN Chosen(L, n, name) = 1 .. Len(Chosen(L, n, name))
                           /\ Len(Chosen(L, n, name)) <= Cardinality(Versioned(L, n))
<1>1. PICK S : L \in Seq(S)
  BY DEF RowsSound
<1>2. Len(L) \in Nat /\ DOMAIN L = 1 .. Len(L)
  BY <1>1
<1>3. \A n \in 0 .. Len(L) : Counted(L, S, n) /\ Cardinality(Versioned(L, n)) \in Nat
  BY <1>1, RowsCounted DEF RowsSound
<1>4. \A n \in 0 .. Len(L) : \A name :
        /\ Chosen(L, n, name) \in Seq(VersionsOf(S))
        /\ Len(Chosen(L, n, name)) <= Cardinality(Versioned(L, n))
  BY <1>3 DEF Counted
<1>5. \A n \in 0 .. Len(L) : \A name :
        /\ Len(Chosen(L, n, name)) \in Nat
        /\ DOMAIN Chosen(L, n, name) = 1 .. Len(Chosen(L, n, name))
  BY <1>4, LenProperties
<1> QED BY <1>2, <1>3, <1>4, <1>5

LEMMA OutputsLen ==
  ASSUME NEW c, Len(c) \in Nat, DOMAIN c = 1 .. Len(c)
  PROVE  /\ Len(OutputsOf(c)) = Len(c) /\ DOMAIN OutputsOf(c) = 1 .. Len(c)
         /\ \A k \in 1 .. Len(c) : OutputsOf(c)[k] = c[k].event.output
<1>1. PICK n \in Nat : n = Len(c)
  OBVIOUS
<1>2. OutputsOf(c) = [k \in 1 .. n |-> c[k].event.output]
  BY <1>1 DEF OutputsOf
<1>3. Len(OutputsOf(c)) = n
  BY <1>2
<1> QED BY <1>1, <1>2, <1>3

(* The operators of the component are these, of the log.                   *)
LEMMA LedgerOperators ==
  /\ \A n \in Nat : Replayable(n) <=> Chained(log, n)
  /\ \A n \in Nat : Replayed(n) = ReplayOf(log, n)
  /\ \A l \in Ledgers : Usage(l) = UsageOf(memory[l])
  /\ \A l \in Ledgers : \A o : HistoryOf(l, o) = memory[l].versions[NameOf(o)]
<1>1. \A n \in Nat : Replayable(n) <=> Chained(log, n)
  BY RowsAreChosen DEF Replayable, Chained, Versioned
<1>2. ASSUME NEW n \in Nat PROVE Replayed(n) = ReplayOf(log, n)
  <2>1. \A name : VersionRows(n, name) = Chosen(log, n, name)
    BY RowsAreChosen
  <2>2. Replayed(n).versions = [name \in ArtifactNames |-> OutputsOf(Chosen(log, n, name))]
    BY <2>1 DEF Replayed, OutputsOf
  <2> QED BY <2>2 DEF Replayed, ReplayOf
<1>3. \A l \in Ledgers : Usage(l) = UsageOf(memory[l])
  BY DEF Usage, UsageOf
<1>4. \A l \in Ledgers : \A o : HistoryOf(l, o) = memory[l].versions[NameOf(o)]
  BY DEF HistoryOf, NameOf
<1> QED BY <1>1, <1>2, <1>3, <1>4

LEMMA RowsForKey ==
  ASSUME RowsSound(log), NEW o \in Outputs, NEW p
  PROVE  /\ p \in KeyRows(o) <=> RowFor(log, o, p)
         /\ \A l, v : p \in Idempotent(VersionEvent(l, o, v)) <=> RowFor(log, o, p)
<1>1. DOMAIN log = 1 .. Len(log)
  BY RowsFacts
<1>2. <<o.task, o.name, o.content>> # None
  BY LedgerAssumption
<1>3. \A l, v : p \in Idempotent(VersionEvent(l, o, v)) <=> RowFor(log, o, p)
  BY <1>1, <1>2 DEF Idempotent, RowsOf, VersionEvent, RowFor
<1> QED BY <1>3 DEF KeyRows

LEMMA InvReplays == LedgersInv => LedgersReplay
<1> SUFFICES ASSUME LedgersInv PROVE LedgersReplay
  OBVIOUS
<1>1. Len(log) \in Nat
  BY RowsFacts DEF LedgersInv
<1>2. Replayable(Len(log))
  BY <1>1, LedgerOperators DEF LedgersInv
<1>3. ASSUME NEW l \in Ledgers
      PROVE  memory[l].position <= Len(log) /\ memory[l] = Replayed(memory[l].position)
  <2>1. PICK n \in 0 .. Len(log) : memory[l] = ReplayOf(log, n)
    BY DEF LedgersInv, MemoryOK
  <2>2. memory[l].position = n
    BY <2>1 DEF ReplayOf
  <2>3. n \in Nat /\ n <= Len(log)
    BY <1>1
  <2> QED BY <2>1, <2>2, <2>3, LedgerOperators
<1>4. ASSUME NEW o \in Outputs, recorded[o] # 0
      PROVE  \E p \in KeyRows(o) :
               log[p].event.output = o /\ log[p].event.version = recorded[o]
  BY <1>4, RowsForKey DEF LedgersInv, RecordedOK
<1> QED BY <1>2, <1>3, <1>4 DEF LedgersReplay

-----------------------------------------------------------------------------
(* One more row: what was read, remembered and answered stays.             *)
RowMore(L, M, row) ==
  /\ RowsSound(M) /\ Len(M) = Len(L) + 1 /\ M[Len(L) + 1] = row
  /\ \A i \in 1 .. Len(L) : M[i] = L[i]
  /\ \A n \in 0 .. Len(L) : /\ \A name : Chosen(M, n, name) = Chosen(L, n, name)
                            /\ Versioned(M, n) = Versioned(L, n)
  /\ \A m : MemoryOK(L, m) => MemoryOK(M, m)
  /\ \A o, v : RecordedOK(L, o, v) => RecordedOK(M, o, v)

LEMMA RowsGrow ==
  ASSUME NEW L, RowsSound(L), NEW row, row.event.output \in Outputs \cup {None},
         NEW M, M = Append(L, row)
  PROVE  RowMore(L, M, row)
<1>1. PICK S : L \in Seq(S)
  BY DEF RowsSound
<1>2. PICK T : T = S \cup {row}
  OBVIOUS
<1>3. L \in Seq(T) /\ row \in T
  <2>1. Len(L) \in Nat /\ L \in [1 .. Len(L) -> S]
    BY <1>1
  <2>2. L \in [1 .. Len(L) -> T]
    BY <1>2, <2>1
  <2> QED BY <1>2, <2>1, <2>2
<1>4. /\ M \in Seq(T) /\ Len(L) \in Nat /\ Len(M) = Len(L) + 1 /\ M[Len(L) + 1] = row
      /\ \A i \in 1 .. Len(L) : M[i] = L[i]
  BY <1>3, AppendProperties
<1>5. RowsSound(M)
  <2>1. \A p \in 1 .. Len(M) : p \in 1 .. Len(L) \/ p = Len(L) + 1
    BY <1>4
  <2> QED BY <1>4, <2>1 DEF RowsSound
<1>6. ASSUME NEW n \in 0 .. Len(L)
      PROVE  /\ \A name : Chosen(M, n, name) = Chosen(L, n, name)
             /\ Versioned(M, n) = Versioned(L, n)
             /\ ReplayOf(M, n) = ReplayOf(L, n)
  <2>0. n \in Nat /\ \A i \in 1 .. n : i \in 1 .. Len(L)
    BY <1>4
  <2>1. n \in Nat /\ \A i \in 1 .. n : M[i] = L[i]
    BY <1>4, <2>0
  <2>2. ASSUME NEW name PROVE Chosen(M, n, name) = Chosen(L, n, name)
    <3>1. Agree(L, M, n)
      BY <2>1 DEF Agree
    <3> QED BY <2>0, <3>1, ChosenAgree
  <2>3. Versioned(M, n) = Versioned(L, n)
    <3>1. \A i \in 1 .. n : L[i].event.output # None <=> M[i].event.output # None
      BY <2>1
    <3> QED BY <3>1 DEF Versioned
  <2> QED BY <2>2, <2>3 DEF ReplayOf
<1>7. ASSUME NEW m, MemoryOK(L, m) PROVE MemoryOK(M, m)
  <2>1. PICK n \in 0 .. Len(L) : m = ReplayOf(L, n)
    BY <1>7 DEF MemoryOK
  <2>2. n \in 0 .. Len(M) /\ m = ReplayOf(M, n)
    BY <1>4, <1>6, <2>1
  <2> QED BY <2>2 DEF MemoryOK
<1>8. ASSUME NEW o, NEW v, RecordedOK(L, o, v) PROVE RecordedOK(M, o, v)
  <2>1. \A p \in 1 .. Len(L) : p \in 1 .. Len(M) /\ M[p] = L[p]
    BY <1>4
  <2> QED BY <1>8, <2>1 DEF RecordedOK, RowFor
<1> QED BY <1>4, <1>5, <1>6, <1>7, <1>8 DEF RowMore

LEMMA ForeignRow ==
  ASSUME NEW L, RowsSound(L), Chained(L, Len(L)), NEW row, row.event.output = None,
         NEW M, M = Append(L, row)
  PROVE  Chained(M, Len(M))
<1>1. PICK n \in Nat : n = Len(L)
  BY RowsFacts
<1>2. /\ Len(M) = n + 1 /\ M[n + 1] = row /\ n \in 0 .. Len(L)
      /\ \A name : Chosen(M, n, name) = Chosen(L, n, name)
      /\ Versioned(M, n) = Versioned(L, n)
  <2>1. row.event.output \in Outputs \cup {None}
    OBVIOUS
  <2>2. n \in 0 .. Len(L)
    BY <1>1
  <2>3. RowMore(L, M, row)
    BY <2>1, RowsGrow
  <2> QED BY <1>1, <2>2, <2>3 DEF RowMore
<1>3. \A name : Chosen(M, n + 1, name) = Chosen(L, n, name)
  <2>1. \A name : ~IsVersionOf(M[n + 1].event, name)
    BY <1>2 DEF IsVersionOf
  <2> QED BY <1>2, <2>1, ChosenSteps
<1>4. Versioned(M, n + 1) = Versioned(L, n)
  <2>1. \A p \in 1 .. n + 1 : p \in 1 .. n \/ p = n + 1
    OBVIOUS
  <2>2. \A p \in 1 .. n : p \in 1 .. n + 1
    OBVIOUS
  <2>3. Versioned(M, n + 1) = Versioned(M, n)
    BY <1>2, <2>1, <2>2 DEF Versioned
  <2> QED BY <1>2, <2>3
<1> QED BY <1>1, <1>2, <1>3, <1>4 DEF Chained

(* A ledger that has replayed the whole log and is under the limit counts  *)
(* as many versions as the log has rows of them.                           *)
LEMMA UsageCounts ==
  ASSUME NEW L, RowsSound(L), NEW n \in 0 .. Len(L),
         Cardinality(Versioned(L, n)) <= MaxArtifacts
  PROVE  UsageOf(ReplayOf(L, n)) = Cardinality(Versioned(L, n))
<1>1. PICK S : L \in Seq(S)
  BY DEF RowsSound
<1>2. Cardinality(Pairs(L, n)) = Cardinality(Versioned(L, n))
  <2>1. Counted(L, S, n)
    BY <1>1, RowsCounted DEF RowsSound
  <2> QED BY <2>1 DEF Counted
<1>3. MaxArtifacts \in Nat
  BY LedgerAssumption
<1>4. \A name : /\ Len(Chosen(L, n, name)) \in Nat
                /\ DOMAIN Chosen(L, n, name) = 1 .. Len(Chosen(L, n, name))
                /\ Len(Chosen(L, n, name)) <= MaxArtifacts
  BY <1>3, RowsFacts
<1>5. \A name \in ArtifactNames :
        Len(ReplayOf(L, n).versions[name]) = Len(Chosen(L, n, name))
  BY <1>4, OutputsLen DEF ReplayOf
<1>6. ASSUME NEW name \in ArtifactNames, NEW k
      PROVE  k \in 1 .. MaxArtifacts /\ k <= Len(ReplayOf(L, n).versions[name])
               <=> k \in Nat \ {0} /\ k <= Len(Chosen(L, n, name))
  BY <1>3, <1>4, <1>5
<1>7. {v \in ArtifactNames \X (1 .. MaxArtifacts) :
         v[2] <= Len(ReplayOf(L, n).versions[v[1]])} = Pairs(L, n)
  BY <1>6 DEF Pairs
<1> QED BY <1>2, <1>7 DEF UsageOf

Continues(L, m, a, o, M) ==
  /\ Chained(M, Len(M))
  /\ ReplayOf(M, Len(M)) =
       [versions |-> [m.versions EXCEPT ![a] = Append(@, o)], position |-> Len(L) + 1]

(* The next version of an artifact, appended right behind what the ledger  *)
(* has replayed, continues the chain, and is what it remembers.            *)
LEMMA NextVersion ==
  ASSUME NEW L, RowsSound(L), Chained(L, Len(L)), NEW m, m = ReplayOf(L, Len(L)),
         UsageOf(m) < MaxArtifacts, NEW o \in Outputs, NEW a, a = NameOf(o),
         NEW row, row.event.output = o, row.event.version = Len(m.versions[a]) + 1,
         NEW M, M = Append(L, row)
  PROVE  Continues(L, m, a, o, M)
<1>1. PICK n \in Nat : n = Len(L)
  BY RowsFacts
<1>2. /\ Len(M) = n + 1 /\ M[n + 1] = row /\ n \in 0 .. Len(L)
      /\ \A name : Chosen(M, n, name) = Chosen(L, n, name)
      /\ Versioned(M, n) = Versioned(L, n) /\ RowsSound(M)
  <2>1. row.event.output \in Outputs \cup {None}
    OBVIOUS
  <2>2. n \in 0 .. Len(L)
    BY <1>1
  <2>3. RowMore(L, M, row)
    BY <2>1, RowsGrow
  <2> QED BY <1>1, <2>2, <2>3 DEF RowMore
<1>3. o # None /\ MaxArtifacts \in Nat
  BY LedgerAssumption
<1>4. a \in ArtifactNames
  <2>1. a \in {<<x.session, x.name>> : x \in Outputs}
    BY DEF NameOf
  <2> QED BY <2>1 DEF ArtifactNames
<1>5. \A name : IsVersionOf(row.event, name) <=> name = a
  BY <1>3 DEF IsVersionOf, NameOf
<1>6. PICK S : L \in Seq(S)
  BY DEF RowsSound
<1>7. PICK c : c = Chosen(L, n, a)
  OBVIOUS
<1>8. PICK T : c \in Seq(T) /\ row \in T
  <2>1. c \in Seq(VersionsOf(S))
    BY <1>1, <1>6, <1>7, <1>2, RowsCounted DEF Counted, RowsSound
  <2>2. PICK k \in Nat : k = Len(c)
    BY <2>1
  <2>3. c \in [1 .. k -> VersionsOf(S)]
    BY <2>1, <2>2
  <2>4. c \in [1 .. k -> VersionsOf(S) \cup {row}]
    BY <2>3
  <2>5. c \in Seq(VersionsOf(S) \cup {row}) /\ row \in VersionsOf(S) \cup {row}
    BY <2>4
  <2> QED BY <2>5
<1>9. PICK k \in Nat : k = Len(c) /\ DOMAIN c = 1 .. k
  <2>1. Len(c) \in Nat /\ DOMAIN c = 1 .. Len(c)
    BY <1>8
  <2> QED BY <2>1
<1>10. PICK d : d = Append(c, row)
  OBVIOUS
<1>11. /\ Len(d) = k + 1 /\ DOMAIN d = 1 .. k + 1 /\ d[k + 1] = row
       /\ \A i \in 1 .. k : d[i] = c[i]
  <2>1. /\ d \in Seq(T) /\ Len(d) = k + 1 /\ d[k + 1] = row
        /\ \A i \in 1 .. k : d[i] = c[i]
    BY <1>8, <1>9, <1>10, AppendProperties
  <2> QED BY <2>1
<1>12. \A name : Chosen(M, n + 1, name) = IF name = a THEN d ELSE Chosen(L, n, name)
  <2>1. \A name : Chosen(M, n + 1, name) =
                    IF IsVersionOf(M[n + 1].event, name)
                    THEN Append(Chosen(M, n, name), M[n + 1]) ELSE Chosen(M, n, name)
    BY ChosenSteps
  <2> QED BY <1>2, <1>5, <1>7, <1>10, <2>1
<1>13. m.versions = [name \in ArtifactNames |-> OutputsOf(Chosen(L, n, name))]
  BY <1>1 DEF ReplayOf
<1>14. Len(m.versions[a]) = k
  BY <1>4, <1>7, <1>9, <1>13, OutputsLen
<1>15. Cardinality(Versioned(M, n + 1)) <= MaxArtifacts
  <2>1. Cardinality(Versioned(L, n)) <= MaxArtifacts
    BY <1>1 DEF Chained
  <2>2. UsageOf(m) = Cardinality(Versioned(L, n)) /\ Cardinality(Versioned(L, n)) \in Nat
    BY <1>1, <1>2, <2>1, UsageCounts, RowsFacts
  <2>3. IsFiniteSet(Versioned(L, n))
    BY <1>2, <1>6, RowsCounted DEF Counted, RowsSound
  <2>4. n + 1 \notin Versioned(L, n)
    BY DEF Versioned
  <2>5. Versioned(M, n + 1) = Versioned(L, n) \cup {n + 1}
    <3>1. \A p \in 1 .. n + 1 : p \in 1 .. n \/ p = n + 1
      OBVIOUS
    <3>2. (\A p \in 1 .. n : p \in 1 .. n + 1) /\ n + 1 \in 1 .. n + 1
      OBVIOUS
    <3>3. Versioned(M, n + 1) = Versioned(M, n) \cup {n + 1}
      BY <1>2, <1>3, <3>1, <3>2 DEF Versioned
    <3> QED BY <1>2, <3>3
  <2>6. Cardinality(Versioned(M, n + 1)) = Cardinality(Versioned(L, n)) + 1
    BY <2>3, <2>4, <2>5, FS_AddElement
  <2> QED BY <1>3, <2>2, <2>6
<1>16. Chained(M, Len(M))
  <2>1. ASSUME NEW name \in ArtifactNames, NEW i \in DOMAIN Chosen(M, n + 1, name)
        PROVE  Chosen(M, n + 1, name)[i].event.version = i
    <3>1. CASE name = a /\ i = k + 1
      BY <1>11, <1>12, <1>14, <3>1
    <3>2. CASE name = a /\ i # k + 1
      <4>1. i \in 1 .. k /\ d[i] = c[i]
        BY <1>11, <1>12, <2>1, <3>2
      <4>2. c[i].event.version = i
        BY <1>1, <1>4, <1>7, <1>9, <4>1 DEF Chained
      <4> QED BY <1>12, <3>2, <4>1, <4>2
    <3>3. CASE name # a
      BY <1>1, <1>12, <2>1, <3>3 DEF Chained
    <3> QED BY <3>1, <3>2, <3>3
  <2> QED BY <1>2, <1>15, <2>1 DEF Chained
<1>17. OutputsOf(d) = Append(OutputsOf(c), o)
  <2>1. PICK u : u = OutputsOf(c)
    OBVIOUS
  <2>2. u = [i \in 1 .. k |-> c[i].event.output]
    BY <1>9, <2>1 DEF OutputsOf
  <2>3. PICK R : R = {c[i].event.output : i \in 1 .. k} \cup {o}
    OBVIOUS
  <2>4. u \in Seq(R) /\ Len(u) = k /\ o \in R
    <3>1. u \in [1 .. k -> R]
      BY <2>2, <2>3
    <3> QED BY <2>2, <2>3, <3>1
  <2>5. PICK w : w = Append(u, o)
    OBVIOUS
  <2>6. /\ w \in Seq(R) /\ Len(w) = k + 1 /\ w[k + 1] = o
        /\ \A i \in 1 .. k : w[i] = u[i]
    BY <2>4, <2>5, AppendProperties
  <2>7. w = [i \in 1 .. k + 1 |-> w[i]]
    BY <2>6
  <2>8. \A i \in 1 .. k + 1 : w[i] = d[i].event.output
    <3>1. \A i \in 1 .. k + 1 : i \in 1 .. k \/ i = k + 1
      OBVIOUS
    <3> QED BY <1>11, <2>2, <2>6, <3>1
  <2>9. OutputsOf(d) = [i \in 1 .. k + 1 |-> d[i].event.output]
    BY <1>11 DEF OutputsOf
  <2> QED BY <2>1, <2>5, <2>7, <2>8, <2>9
<1>18. [name \in ArtifactNames |-> OutputsOf(Chosen(M, n + 1, name))]
         = [m.versions EXCEPT ![a] = Append(@, o)]
  <2>1. PICK f, g : /\ f = [name \in ArtifactNames |-> OutputsOf(Chosen(M, n + 1, name))]
                    /\ g = [m.versions EXCEPT ![a] = Append(@, o)]
    OBVIOUS
  <2>2. g = [name \in ArtifactNames |-> g[name]] /\ f = [name \in ArtifactNames |-> f[name]]
    BY <1>13, <2>1
  <2>3. f[a] = OutputsOf(d) /\ g[a] = Append(OutputsOf(c), o)
    BY <1>4, <1>7, <1>12, <1>13, <2>1
  <2>4. ASSUME NEW name \in ArtifactNames, name # a PROVE f[name] = g[name]
    <3>1. Chosen(M, n + 1, name) = Chosen(L, n, name)
      BY <1>12, <2>4
    <3>2. g[name] = m.versions[name]
      BY <1>13, <2>1, <2>4
    <3> QED BY <1>13, <2>1, <3>1, <3>2
  <2>5. \A name \in ArtifactNames : f[name] = g[name]
    BY <1>17, <2>3, <2>4
  <2> QED BY <2>1, <2>2, <2>5
<1>19. ReplayOf(M, n + 1) =
         [versions |-> [m.versions EXCEPT ![a] = Append(@, o)], position |-> n + 1]
  BY <1>18 DEF ReplayOf
<1> QED BY <1>1, <1>2, <1>16, <1>19 DEF Continues

-----------------------------------------------------------------------------
(* What a call of one ledger may do.                                       *)
LogMoves ==
  /\ RowsSound(log') /\ Chained(log', Len(log'))
  /\ \A m : MemoryOK(log, m) => MemoryOK(log', m)
  /\ \A o, v : RecordedOK(log, o, v) => RecordedOK(log', o, v)

LEMMA LedgerMoves ==
  ASSUME LedgersInv, LogMoves, NEW l \in Ledgers, NEW m, NEW r,
         MemoryOK(log', m), IsRecord(r), PendingOK(m, r, l),
         memory' = [memory EXCEPT ![l] = m], record' = [record EXCEPT ![l] = r],
         \/ recorded' = recorded
         \/ \E o \in Outputs : \E v : /\ recorded' = [recorded EXCEPT ![o] = v]
                                      /\ RecordedOK(log', o, v)
  PROVE  LedgersInv'
<1>1. /\ memory = [k \in Ledgers |-> memory[k]] /\ record = [k \in Ledgers |-> record[k]]
      /\ recorded = [o \in Outputs |-> recorded[o]]
  BY DEF LedgersInv
<1>2. /\ memory' = [k \in Ledgers |-> memory'[k]] /\ record' = [k \in Ledgers |-> record'[k]]
      /\ memory'[l] = m /\ record'[l] = r
      /\ \A k \in Ledgers \ {l} : memory'[k] = memory[k] /\ record'[k] = record[k]
  BY <1>1
<1>3. \A k \in Ledgers : /\ MemoryOK(log', memory'[k])
                         /\ IsRecord(record'[k]) /\ PendingOK(memory'[k], record'[k], k)
  <2> SUFFICES ASSUME NEW k \in Ledgers
               PROVE  /\ MemoryOK(log', memory'[k])
                      /\ IsRecord(record'[k]) /\ PendingOK(memory'[k], record'[k], k)
    OBVIOUS
  <2>1. CASE k = l
    BY <1>2, <2>1
  <2>2. CASE k # l
    <3>1. MemoryOK(log, memory[k]) /\ IsRecord(record[k]) /\ PendingOK(memory[k], record[k], k)
      BY DEF LedgersInv
    <3>2. memory'[k] = memory[k] /\ record'[k] = record[k]
      BY <1>2, <2>2
    <3> QED BY <3>1, <3>2 DEF LogMoves
  <2> QED BY <2>1, <2>2
<1>4. /\ recorded' = [o \in Outputs |-> recorded'[o]]
      /\ \A o \in Outputs : RecordedOK(log', o, recorded'[o])
  <2>0. \A o \in Outputs : RecordedOK(log', o, recorded[o])
    BY DEF LedgersInv, LogMoves
  <2>1. CASE recorded' = recorded
    BY <1>1, <2>0, <2>1
  <2>2. CASE \E o \in Outputs : \E v : /\ recorded' = [recorded EXCEPT ![o] = v]
                                       /\ RecordedOK(log', o, v)
    <3>0. PICK o \in Outputs : \E v : /\ recorded' = [recorded EXCEPT ![o] = v]
                                       /\ RecordedOK(log', o, v)
      BY <2>2
    <3>1. PICK v : recorded' = [recorded EXCEPT ![o] = v] /\ RecordedOK(log', o, v)
      BY <3>0
    <3>2. /\ recorded' = [x \in Outputs |-> recorded'[x]] /\ recorded'[o] = v
          /\ \A x \in Outputs \ {o} : recorded'[x] = recorded[x]
      BY <1>1, <3>1
    <3> QED BY <2>0, <3>1, <3>2
  <2> QED BY <2>1, <2>2
<1> QED BY <1>2, <1>3, <1>4 DEF LedgersInv, LogMoves

LEMMA LogRests ==
  ASSUME LedgersInv, log' = log
  PROVE  LogMoves
BY DEF LedgersInv, LogMoves

LEMMA LedgerFacts ==
  ASSUME LedgersInv, NEW l \in Ledgers
  PROVE  /\ RowsSound(log) /\ Chained(log, Len(log)) /\ Len(log) \in Nat
         /\ MemoryOK(log, memory[l]) /\ IsRecord(record[l])
         /\ PendingOK(memory[l], record[l], l)
         /\ memory = [memory EXCEPT ![l] = memory[l]]
BY RowsFacts DEF LedgersInv

LEMMA NoRecordIs ==
  /\ IsRecord(NoRecord) /\ NoRecord.event = None
  /\ \A m, l : PendingOK(m, NoRecord, l)
BY DEF NoRecord, IsRecord, PendingOK

LEMMA RebuiltIs ==
  ASSUME LedgersInv, NEW l \in Ledgers
  PROVE  MemoryOK(log, Rebuilt(l))
<1>1. PICK n \in Nat : n = Len(log)
  BY LedgerFacts
<1>2. MemoryOK(log, ReplayOf(log, n))
  BY <1>1 DEF MemoryOK
<1>3. Rebuilt(l) = Replayed(n) \/ Rebuilt(l) = memory[l]
  BY <1>1 DEF Rebuilt
<1> QED BY <1>2, <1>3, LedgerFacts, LedgerOperators

LEMMA ResolveKept ==
  ASSUME LedgersInv, log' = log, NEW l \in Ledgers, NEW p, record[l].output \in Outputs,
         RowFor(log, record[l].output, p), Resolve(l, p)
  PROVE  LedgersInv'
<1>1. PICK o \in Outputs : o = record[l].output
  OBVIOUS
<1>2. LogMoves
  BY LogRests
<1>3. record' = [record EXCEPT ![l] = NoRecord]
  BY DEF Resolve
<1>4. CASE log[p].event.output = o
  <2>1. PICK m : m = Finds(l, o)
    OBVIOUS
  <2>2. MemoryOK(log, m)
    BY <2>1, LedgerFacts, RebuiltIs DEF Finds
  <2>3. /\ memory' = [memory EXCEPT ![l] = m]
        /\ recorded' = [recorded EXCEPT ![o] = log[p].event.version]
    BY <1>1, <1>4, <2>1 DEF Resolve
  <2>4. RecordedOK(log, o, log[p].event.version)
    BY <1>1, <1>4 DEF RecordedOK
  <2> QED BY <1>2, <1>3, <2>2, <2>3, <2>4, NoRecordIs, LedgerMoves
<1>5. CASE log[p].event.output # o
  <2>1. memory' = memory /\ recorded' = recorded
    BY <1>1, <1>5 DEF Resolve
  <2> QED BY <1>2, <1>3, <2>1, NoRecordIs, LedgerFacts, LedgerMoves
<1> QED BY <1>4, <1>5

(* A call that only forgets, or rebuilds, or takes its output.             *)
LEMMA RecordChanges ==
  ASSUME LedgersInv, log' = log, recorded' = recorded, NEW l \in Ledgers, NEW m, NEW r,
         MemoryOK(log, m), IsRecord(r), PendingOK(m, r, l),
         memory' = [memory EXCEPT ![l] = m], record' = [record EXCEPT ![l] = r]
  PROVE  LedgersInv'
BY LogRests, LedgerMoves

LEMMA BeginKept ==
  ASSUME LedgersInv, NEW l \in Ledgers, NEW o \in Outputs, BeginRecord(l, o)
  PROVE  LedgersInv'
<1>1. PICK r : r = [NoRecord EXCEPT !.output = o, !.attempt = 1]
  OBVIOUS
<1>2. r = [output |-> o, attempt |-> 1, event |-> None]
  BY <1>1 DEF NoRecord
<1>3. IsRecord(r) /\ PendingOK(memory[l], r, l)
  BY <1>2 DEF IsRecord, PendingOK
<1>4. /\ record' = [record EXCEPT ![l] = r]
      /\ log' = log /\ memory' = memory /\ recorded' = recorded
  BY <1>1 DEF BeginRecord, logVars
<1>5. MemoryOK(log, memory[l]) /\ memory' = [memory EXCEPT ![l] = memory[l]]
  BY <1>4, LedgerFacts
<1> QED BY <1>3, <1>4, <1>5, RecordChanges

LEMMA LookUpKept ==
  ASSUME LedgersInv, NEW l \in Ledgers, LookUp(l)
  PROVE  LedgersInv'
<1>1. PICK o : o = record[l].output
  OBVIOUS
<1>2. o \in Outputs /\ log' = log
  BY <1>1, LedgerFacts DEF LookUp, IsRecord, logVars
<1>3. CASE \E p \in KeyRows(o) : Resolve(l, p)
  <2>1. PICK p \in KeyRows(o) : Resolve(l, p)
    BY <1>3
  <2>2. RowFor(log, o, p)
    BY <1>2, <2>1, LedgerFacts, RowsForKey
  <2> QED BY <1>1, <1>2, <2>1, <2>2, ResolveKept
<1>4. CASE /\ Usage(l) < MaxArtifacts
           /\ record' = [record EXCEPT ![l].event =
                           VersionEvent(l, o, Len(HistoryOf(l, o)) + 1)]
           /\ UNCHANGED <<memory, recorded>>
  <2>1. PICK e : e = VersionEvent(l, o, Len(HistoryOf(l, o)) + 1)
    OBVIOUS
  <2>2. PICK r : r = [record[l] EXCEPT !.event = e]
    OBVIOUS
  <2>3. r = [output |-> o, attempt |-> record[l].attempt, event |-> e]
    <3>1. record[l] = [output |-> o, attempt |-> record[l].attempt, event |-> record[l].event]
      BY <1>1, LedgerFacts DEF IsRecord
    <3> QED BY <2>2, <3>1
  <2>4. UsageOf(memory[l]) < MaxArtifacts /\ HistoryOf(l, o) = memory[l].versions[NameOf(o)]
    BY <1>4, LedgerOperators
  <2>5. IsRecord(r) /\ PendingOK(memory[l], r, l)
    BY <1>2, <2>1, <2>3, <2>4 DEF IsRecord, PendingOK
  <2>6. record' = [record EXCEPT ![l] = r]
    BY <1>4, <2>1, <2>2
  <2> QED BY <1>2, <1>4, <2>5, <2>6, LedgerFacts, RecordChanges
<1>5. CASE /\ record' = [record EXCEPT ![l] = NoRecord]
           /\ UNCHANGED <<memory, recorded>>
  BY <1>2, <1>5, NoRecordIs, LedgerFacts, RecordChanges
<1> QED BY <1>1, <1>3, <1>4, <1>5 DEF LookUp

(* A version is appended only behind everything the ledger has replayed,   *)
(* so that it is the next one of what the log says too.                    *)
LEMMA VersionLands ==
  ASSUME LedgersInv, NEW l \in Ledgers, record[l].event # None,
         InsertsEvent(record[l].event, None, memory[l].position),
         log' = Extended(record[l].event)
  PROVE  LET o == record[l].output IN
         /\ o \in Outputs /\ LogMoves
         /\ MemoryOK(log', memory[l]) /\ MemoryOK(log', Remember(l))
         /\ RecordedOK(log', o, record[l].event.version)
<1>0. PICK o \in Outputs : o = record[l].output
  BY LedgerFacts DEF PendingOK
<1>1. PICK e : o = record[l].output /\ e = record[l].event
  BY <1>0
<1>2. PICK n \in Nat : n = Len(log)
  BY LedgerFacts
<1>3. memory[l] = ReplayOf(log, n)
  <2>1. PICK i \in 0 .. n : memory[l] = ReplayOf(log, i)
    BY <1>2, LedgerFacts DEF MemoryOK
  <2>2. memory[l].position = i /\ i # None
    BY <2>1, BoundAssumption DEF ReplayOf
  <2>3. i = n
    BY <1>2, <2>2 DEF InsertsEvent, Expected
  <2> QED BY <2>1, <2>3
<1>4. PICK m, a : m = memory[l] /\ a = NameOf(o)
  OBVIOUS
<1>5. PICK v : v = Len(m.versions[a]) + 1
  OBVIOUS
<1>6. e = VersionEvent(l, o, v) /\ UsageOf(m) < MaxArtifacts
  BY <1>1, <1>4, <1>5, LedgerFacts DEF PendingOK
<1>7. /\ e.output = o /\ e.version = v /\ e.stream = o.session
      /\ e.key = <<o.task, o.name, o.content>>
  BY <1>6 DEF VersionEvent
<1>8. PICK row : row = [event |-> e, sequence |-> StreamVersion(e.stream) + 1]
  OBVIOUS
<1>9. row.event = e /\ log' = Append(log, row)
  BY <1>1, <1>8 DEF Extended
<1>10. RowMore(log, log', row)
  <2>1. row.event.output \in Outputs \cup {None} /\ RowsSound(log)
    BY <1>7, <1>9, LedgerFacts
  <2> QED BY <1>9, <2>1, RowsGrow
<1>11. /\ Chained(log', Len(log'))
       /\ ReplayOf(log', Len(log')) =
            [versions |-> [m.versions EXCEPT ![a] = Append(@, o)], position |-> n + 1]
  <2>1. RowsSound(log) /\ Chained(log, Len(log)) /\ m = ReplayOf(log, Len(log))
    BY <1>2, <1>3, <1>4, LedgerFacts
  <2>2. row.event.output = o /\ row.event.version = Len(m.versions[a]) + 1
    BY <1>5, <1>7, <1>9
  <2>3. Continues(log, m, a, o, log')
    BY <1>4, <1>6, <1>9, <2>1, <2>2, NextVersion
  <2> QED BY <1>2, <2>3 DEF Continues
<1>12. Remember(l) = ReplayOf(log', Len(log'))
  BY <1>1, <1>2, <1>4, <1>11 DEF Remember, NameOf
<1>13. Len(log') \in 0 .. Len(log')
  BY <1>2, <1>10 DEF RowMore
<1>14. MemoryOK(log', Remember(l))
  BY <1>12, <1>13 DEF MemoryOK
<1>15. LogMoves
  BY <1>10, <1>11 DEF LogMoves, RowMore
<1>16. RecordedOK(log', o, v)
  <2>1. n + 1 \in 1 .. Len(log') /\ log'[n + 1] = row
    BY <1>2, <1>10 DEF RowMore
  <2> QED BY <1>7, <1>9, <2>1 DEF RecordedOK, RowFor
<1>17. MemoryOK(log', memory[l])
  BY <1>15, LedgerFacts DEF LogMoves
<1> QED BY <1>1, <1>7, <1>14, <1>15, <1>16, <1>17

LEMMA AppendKept ==
  ASSUME LedgersInv, NEW l \in Ledgers, AppendVersion(l) \/ AppendUnseen(l)
  PROVE  LedgersInv'
<1>1. PICK o : o = record[l].output
  OBVIOUS
<1>2. /\ o \in Outputs /\ LogMoves
      /\ MemoryOK(log', memory[l]) /\ MemoryOK(log', Remember(l))
      /\ RecordedOK(log', o, record[l].event.version)
  BY <1>1, VersionLands DEF AppendVersion, AppendUnseen
<1>3. record' = [record EXCEPT ![l] = NoRecord]
  BY DEF AppendVersion, AppendUnseen
<1>4. CASE AppendVersion(l)
  <2>1. /\ memory' = [memory EXCEPT ![l] = Remember(l)]
        /\ recorded' = [recorded EXCEPT ![o] = record[l].event.version]
    BY <1>1, <1>4 DEF AppendVersion
  <2> QED BY <1>2, <1>3, <2>1, NoRecordIs, LedgerMoves
<1>5. CASE AppendUnseen(l)
  <2>1. memory' = memory /\ recorded' = recorded
    BY <1>5 DEF AppendUnseen
  <2>2. memory' = [memory EXCEPT ![l] = memory[l]]
    BY <2>1, LedgerFacts
  <2> QED BY <1>2, <1>3, <2>1, <2>2, NoRecordIs, LedgerMoves
<1> QED BY <1>4, <1>5

LEMMA RacedKept ==
  ASSUME LedgersInv, NEW l \in Ledgers, AppendRaced(l)
  PROVE  LedgersInv'
<1>1. PICK p \in Idempotent(record[l].event) : Resolve(l, p)
  BY DEF AppendRaced
<1>2. PICK o \in Outputs : o = record[l].output
  BY LedgerFacts DEF AppendRaced, PendingOK
<1>3. \E v : record[l].event = VersionEvent(l, o, v)
  BY <1>2, LedgerFacts DEF AppendRaced, PendingOK
<1>4. RowFor(log, o, p)
  BY <1>1, <1>3, LedgerFacts, RowsForKey
<1> QED BY <1>1, <1>2, <1>4, ResolveKept DEF AppendRaced, logVars

LEMMA RefusedKept ==
  ASSUME LedgersInv, NEW l \in Ledgers, AppendRefused(l)
  PROVE  LedgersInv'
<1>1. log' = log /\ recorded' = recorded
  BY DEF AppendRefused, logVars
<1>2. CASE /\ memory' = [memory EXCEPT ![l] = Rebuilt(l)]
           /\ record' = [record EXCEPT ![l].event = None, ![l].attempt = @ + 1]
  <2>1. PICK r : r = [record[l] EXCEPT !.event = None, !.attempt = @ + 1]
    OBVIOUS
  <2>2. r = [output |-> record[l].output, attempt |-> record[l].attempt + 1, event |-> None]
    <3>1. record[l] = [output |-> record[l].output, attempt |-> record[l].attempt,
                       event |-> record[l].event]
      BY LedgerFacts DEF IsRecord
    <3> QED BY <2>1, <3>1
  <2>3. IsRecord(r) /\ \A m : PendingOK(m, r, l)
    BY <2>2, LedgerFacts DEF IsRecord, PendingOK
  <2>4. record' = [record EXCEPT ![l] = r]
    <3>1. record = [k \in Ledgers |-> record[k]]
      BY DEF LedgersInv
    <3> QED BY <1>2, <2>1, <3>1
  <2> QED BY <1>1, <1>2, <2>3, <2>4, RebuiltIs, RecordChanges
<1>3. CASE record' = [record EXCEPT ![l] = NoRecord] /\ memory' = memory
  BY <1>1, <1>3, NoRecordIs, LedgerFacts, RecordChanges
<1> QED BY <1>2, <1>3 DEF AppendRefused

LEMMA ElsewhereKept ==
  ASSUME LedgersInv, NEW e \in OtherEvents, AppendByOthers(e)
  PROVE  LedgersInv'
<1>1. PICK row : row = [event |-> e, sequence |-> StreamVersion(e.stream) + 1]
  OBVIOUS
<1>2. log' = Append(log, row) /\ UNCHANGED <<memory, record, recorded>>
  BY <1>1 DEF AppendByOthers, Extended, ledgerVars
<1>3. row.event.output = None
  BY <1>1, LedgerAssumption
<1>4. RowsSound(log) /\ Chained(log, Len(log))
  BY DEF LedgersInv
<1>5. RowMore(log, log', row)
  <2>1. row.event.output \in Outputs \cup {None}
    BY <1>3
  <2> QED BY <1>2, <1>4, <2>1, RowsGrow
<1>6. Chained(log', Len(log'))
  BY <1>2, <1>3, <1>4, ForeignRow
<1>7. \A l \in Ledgers : MemoryOK(log', memory'[l])
  BY <1>2, <1>5 DEF RowMore, LedgersInv
<1>8. \A o \in Outputs : RecordedOK(log', o, recorded'[o])
  BY <1>2, <1>5 DEF RowMore, LedgersInv
<1>9. RowsSound(log')
  BY <1>5 DEF RowMore
<1> QED BY <1>2, <1>6, <1>7, <1>8, <1>9 DEF LedgersInv

LEMMA LedgersStart == LogInit /\ LedgerInit => LedgersInv
<1> SUFFICES ASSUME LogInit, LedgerInit PROVE LedgersInv
  OBVIOUS
<1>1. log = <<>> /\ Len(log) = 0
  BY DEF LogInit
<1>2. RowsSound(log)
  <2>1. log \in Seq({})
    BY <1>1
  <2> QED BY <1>1, <2>1 DEF RowsSound
<1>3. Chained(log, 0)
  <2>1. Versioned(log, 0) = {}
    BY DEF Versioned
  <2>2. Cardinality(Versioned(log, 0)) <= MaxArtifacts
    <3>1. Cardinality(Versioned(log, 0)) = 0
      BY <2>1, FS_EmptySet
    <3>2. MaxArtifacts \in Nat
      BY LedgerAssumption
    <3> QED BY <3>1, <3>2
  <2>3. \A name : DOMAIN Chosen(log, 0, name) = {}
    <3>1. 0 \in 0 .. Len(log) /\ Cardinality(Versioned(log, 0)) = 0
      BY <1>1, <2>1, FS_EmptySet
    <3>2. \A name : /\ Len(Chosen(log, 0, name)) \in Nat
                    /\ DOMAIN Chosen(log, 0, name) = 1 .. Len(Chosen(log, 0, name))
                    /\ Len(Chosen(log, 0, name)) <= Cardinality(Versioned(log, 0))
      BY <1>2, <3>1, RowsFacts
    <3> QED BY <3>1, <3>2
  <2> QED BY <2>2, <2>3 DEF Chained
<1>4. MemoryOK(log, Replayed(0))
  BY <1>1, LedgerOperators DEF MemoryOK
<1>5. \A l \in Ledgers : memory[l] = Replayed(0) /\ record[l] = NoRecord
  BY DEF LedgerInit
<1>6. /\ memory = [l \in Ledgers |-> memory[l]] /\ record = [l \in Ledgers |-> record[l]]
      /\ recorded = [o \in Outputs |-> recorded[o]] /\ \A o \in Outputs : recorded[o] = 0
  BY DEF LedgerInit
<1> QED BY <1>1, <1>2, <1>3, <1>4, <1>5, <1>6, NoRecordIs DEF LedgersInv, RecordedOK

LEMMA LedgersKept ==
  ASSUME LedgersInv, [LedgerNext]_<<logVars, ledgerVars>>
  PROVE  LedgersInv'
<1>1. CASE UNCHANGED <<logVars, ledgerVars>>
  <2>1. UNCHANGED <<log, memory, record, recorded>>
    BY <1>1 DEF logVars, ledgerVars
  <2> QED BY <2>1 DEF LedgersInv
<1>2. ASSUME NEW l \in Ledgers, RecordFails(l) \/ Rebuild(l) PROVE LedgersInv'
  <2>1. /\ log' = log /\ recorded' = recorded
        /\ record' = [record EXCEPT ![l] = NoRecord]
    BY <1>2 DEF RecordFails, Rebuild, logVars
  <2>2. CASE RecordFails(l)
    BY <2>1, <2>2, NoRecordIs, LedgerFacts, RecordChanges DEF RecordFails
  <2>3. CASE Rebuild(l)
    <3>1. memory' = [memory EXCEPT ![l] = Rebuilt(l)]
      BY <2>3 DEF Rebuild, Rebuilt
    <3> QED BY <2>1, <3>1, NoRecordIs, RebuiltIs, RecordChanges
  <2> QED BY <1>2, <2>2, <2>3
<1>3. ASSUME LedgerNext PROVE LedgersInv'
  BY <1>2, <1>3, BeginKept, LookUpKept, AppendKept, RacedKept, RefusedKept, ElsewhereKept
     DEF LedgerNext
<1> QED BY <1>1, <1>3

(* The log can always be replayed, each ledger's memory is what the log    *)
(* says up to its position, and a version that record returned stays in    *)
(* the log, for any number of ledgers that race, lose answers, retry and   *)
(* are rebuilt, and whatever others append between.                        *)
THEOREM LedgersAlwaysReplay == LedgersSpec => []LedgersReplay
<1>1. LogInit /\ LedgerInit => LedgersInv
  BY LedgersStart
<1>2. LedgersInv /\ [LedgerNext]_<<logVars, ledgerVars>> => LedgersInv'
  BY LedgersKept
<1>3. LedgersInv => LedgersReplay
  BY InvReplays
<1> QED BY <1>1, <1>2, <1>3, PTL DEF LedgersSpec
=============================================================================
