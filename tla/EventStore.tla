------------------------------ MODULE EventStore ------------------------------
(***************************************************************************)
(* The append-only event log of store.py, with the rows written in the     *)
(* same transactions: the outbox messages an event causes, the receipts    *)
(* of external messages, and the snapshot of each stream.                  *)
(*                                                                         *)
(* One step is one write transaction (BEGIN IMMEDIATE holds SQLite's only  *)
(* write lock).  A transaction whose COMMIT lands may still raise, and its *)
(* caller then retries without an answer; a transaction that rolls back    *)
(* leaves no trace and is a stuttering step.                               *)
(***************************************************************************)
EXTENDS Integers, Sequences, FiniteSets, FiniteSetsExt

CONSTANTS
  DomainEvents,  \* the events callers append: records [id, stream, key, ...]
  Messages,      \* outbox message ids
  Deliveries,    \* (consumer_id, message_id) pairs of external messages
  MaxEvents,     \* bound on the length of the log
  Snapshots,     \* sequences a snapshot may be saved for
  Wanted,        \* expected versions and positions that callers may pass
  None           \* SQL NULL; an expected version or position not given

Streams == {e.stream : e \in DomainEvents}

ASSUME EventsAssumption ==
  \A e, f \in DomainEvents : e.id = f.id => e = f
ASSUME BoundAssumption ==
  /\ MaxEvents \in Nat /\ Snapshots \subseteq Nat /\ None \notin Nat
  /\ Wanted \subseteq Nat \cup {None}

VARIABLES
  log,       \* events: global_position is the index (AUTOINCREMENT)
  outbox,    \* outbox: triggering_global_position of a message, 0 if absent
  inbox,     \* inbox_receipts: event_global_position, 0 if absent
  snapshot,  \* snapshots: sequence of the stream's snapshot, -1 if absent
  told,      \* history: the position the last append of an event answered
  admitted   \* history: the position the last delivery was answered with

logVars == <<log, outbox, inbox, snapshot, told, admitted>>

-----------------------------------------------------------------------------
Positions == 1 .. MaxEvents
Row == [event : DomainEvents, sequence : Positions]

LogTypeOK ==
  /\ log \in Seq(Row) /\ Len(log) <= MaxEvents
  /\ outbox \in [Messages -> 0 .. MaxEvents]
  /\ inbox \in [Deliveries -> 0 .. MaxEvents]
  /\ snapshot \in [Streams -> {-1} \cup Snapshots]
  /\ told \in [DomainEvents -> 0 .. MaxEvents]
  /\ admitted \in [Deliveries -> 0 .. MaxEvents]

NoSideRows ==
  /\ outbox = [m \in Messages |-> 0]
  /\ inbox = [d \in Deliveries |-> 0]
  /\ snapshot = [s \in Streams |-> -1]
  /\ told = [e \in DomainEvents |-> 0]
  /\ admitted = [d \in Deliveries |-> 0]

LogInit == log = <<>> /\ NoSideRows

-----------------------------------------------------------------------------
(* The rows of a stream, its version, and the row of a retry key.          *)
RowsOf(s) == {p \in DOMAIN log : log[p].event.stream = s}

StreamVersion(s) == Max({0} \cup {log[p].sequence : p \in RowsOf(s)})

Idempotent(e) ==
  {p \in RowsOf(e.stream) : e.key # None /\ log[p].event.key = e.key}

(* The UNIQUE constraints of the events table: event_id, and the key       *)
(* within a stream.                                                        *)
Insertable(e) ==
  /\ \A p \in DOMAIN log : log[p].event.id # e.id
  /\ Idempotent(e) = {}
  /\ Len(log) < MaxEvents

Expected(wanted, actual) == wanted \in {None, actual}

(* _append_in_transaction: the row already admitted under the key, or a    *)
(* fresh row behind the last one when both expectations hold.              *)
InsertsEvent(e, version, position) ==
  /\ Idempotent(e) = {}
  /\ Expected(position, Len(log))
  /\ Expected(version, StreamVersion(e.stream))
  /\ Insertable(e)

(* Mutant: the sequence is the global position. *)
ExtendedByPosition(e) ==
  Append(log, [event |-> e, sequence |-> Len(log) + 1])

Extended(e) ==
  Append(log, [event |-> e, sequence |-> StreamVersion(e.stream) + 1])

(* The answer of a transaction; a caller that loses it to an error after   *)
(* COMMIT may ask again like any other.                                    *)
Answer(e, p) == told' = [told EXCEPT ![e] = p]

-----------------------------------------------------------------------------
(* append.                                                                 *)
AppendEvent(e, version, position) ==
  /\ \/ /\ InsertsEvent(e, version, position)
        /\ log' = Extended(e)
        /\ Answer(e, Len(log) + 1)
     \/ \E p \in Idempotent(e) :
          /\ Answer(e, p)
          /\ UNCHANGED log
  /\ UNCHANGED <<outbox, inbox, snapshot, admitted>>

(* The outbox rows an event caused.                                        *)
CausedBy(p) == {m \in Messages : outbox[m] = p}

(* append_with_outbox: a retry must ask for exactly the messages the       *)
(* event was admitted with, and inserts none.                              *)
(* Mutant: a retry inserts the messages it asks for, whatever was admitted. *)
AppendWithOutboxMerging(e, batch, version) ==
  /\ \/ /\ InsertsEvent(e, version, None)
        /\ \A m \in batch : outbox[m] = 0
        /\ log' = Extended(e)
        /\ outbox' = [m \in Messages |->
                        IF m \in batch THEN Len(log) + 1 ELSE outbox[m]]
        /\ Answer(e, Len(log) + 1)
     \/ \E p \in Idempotent(e) :
          /\ outbox' = [m \in Messages |->
                          IF m \in batch /\ outbox[m] = 0 THEN p ELSE outbox[m]]
          /\ Answer(e, p)
          /\ UNCHANGED log
  /\ UNCHANGED <<inbox, snapshot, admitted>>

AppendWithOutbox(e, batch, version) ==
  /\ \/ /\ InsertsEvent(e, version, None)
        /\ \A m \in batch : outbox[m] = 0
        /\ log' = Extended(e)
        /\ outbox' = [m \in Messages |->
                        IF m \in batch THEN Len(log) + 1 ELSE outbox[m]]
        /\ Answer(e, Len(log) + 1)
     \/ \E p \in Idempotent(e) :
          /\ CausedBy(p) = batch
          /\ Answer(e, p)
          /\ UNCHANGED <<log, outbox>>
  /\ UNCHANGED <<inbox, snapshot, admitted>>

(* append_inbox: a redelivery is answered with the event of its receipt,   *)
(* whatever event it carries; the first delivery may find its event        *)
(* already in the log under the event's own key.                           *)
Admits(d, p) ==
  /\ inbox' = [inbox EXCEPT ![d] = p]
  /\ admitted' = [admitted EXCEPT ![d] = p]

AppendInbox(d, e, version) ==
  /\ \/ /\ inbox[d] # 0
        /\ admitted' = [admitted EXCEPT ![d] = inbox[d]]
        /\ UNCHANGED <<log, inbox>>
     \/ /\ inbox[d] = 0
        /\ InsertsEvent(e, version, None)
        /\ log' = Extended(e)
        /\ Admits(d, Len(log) + 1)
     \/ /\ inbox[d] = 0
        /\ \E p \in Idempotent(e) : Admits(d, p)
        /\ UNCHANGED log
  /\ UNCHANGED <<outbox, snapshot, told>>

(* append_many: a batch of one stream, all or nothing.  It does not look a *)
(* key up, so a repeated event violates a UNIQUE constraint and the whole  *)
(* batch rolls back.                                                       *)
AppendMany(first, second, version) ==
  /\ first.stream = second.stream
  /\ Expected(version, StreamVersion(first.stream))
  /\ Insertable(first) /\ Insertable(second)
  /\ first.id # second.id
  /\ first.key # second.key \/ first.key = None
  /\ Len(log) + 2 <= MaxEvents
  /\ log' = log \o <<[event |-> first,
                      sequence |-> StreamVersion(first.stream) + 1],
                     [event |-> second,
                      sequence |-> StreamVersion(first.stream) + 2]>>
  /\ told' = [told EXCEPT ![first] = Len(log) + 1, ![second] = Len(log) + 2]
  /\ UNCHANGED <<outbox, inbox, snapshot, admitted>>

(* save_snapshot: an older snapshot never replaces a newer one.            *)
SaveSnapshot(s, sequence) ==
  /\ sequence >= snapshot[s]
  /\ snapshot' = [snapshot EXCEPT ![s] = sequence]
  /\ UNCHANGED <<log, outbox, inbox, told, admitted>>

(* The callers that append some of the events.                             *)
LogStep(events) ==
  \/ \E e \in events, v, g \in Wanted : AppendEvent(e, v, g)
  \/ \E e \in events, b \in SUBSET Messages, v \in Wanted :
       AppendWithOutbox(e, b, v)
  \/ \E d \in Deliveries, e \in events, v \in Wanted : AppendInbox(d, e, v)
  \/ \E e, f \in events, v \in Wanted : AppendMany(e, f, v)
  \/ \E s \in Streams, n \in Snapshots : SaveSnapshot(s, n)

-----------------------------------------------------------------------------
(* The position a caller was told of holds its own event, or the one       *)
(* admitted earlier under the same key of the same stream; a delivery was  *)
(* told of the event of its receipt; and the rows of each stream carry     *)
(* consecutive sequences in log order, whatever batch or retry wrote them. *)
AnswersHold ==
  /\ \A e \in DomainEvents :
       told[e] # 0 =>
         /\ told[e] <= Len(log)
         /\ \/ log[told[e]].event = e
            \/ told[e] \in Idempotent(e)
  /\ \A d \in Deliveries : admitted[d] \in {0, inbox[d]}
  /\ \A p \in DOMAIN log :
       log[p].sequence =
         Cardinality({q \in RowsOf(log[p].event.stream) : q <= p})

(* What a step may never do to what was written.                           *)
RowsStay ==
  /\ \A p \in DOMAIN log :
       /\ p <= Len(log') /\ log'[p] = log[p]
       /\ {m \in Messages : outbox'[m] = p} = CausedBy(p)
  /\ \A d \in Deliveries : inbox[d] # 0 => inbox'[d] = inbox[d]
  /\ \A s \in Streams : snapshot'[s] >= snapshot[s]
  /\ \A e \in DomainEvents : told[e] # 0 => told'[e] = told[e]
  /\ \A d \in Deliveries : admitted[d] # 0 => admitted'[d] = admitted[d]

(* What callers were told stays true.  Rows and receipts never change, an  *)
(* event admitted with some outbox messages never acquires or loses one, a *)
(* snapshot never goes back; so a retry, across a crash or in a race with  *)
(* another process, is answered with the position of the first answer      *)
(* (append, append_with_outbox, append_many, append_inbox, save_snapshot). *)
HistoryFixed == [][RowsStay]_logVars
=============================================================================
