---------------------------- MODULE ArtifactLedger ----------------------------
(***************************************************************************)
(* The artifact ledger (artifacts.py): versions of named artifacts, kept   *)
(* as events of the log.  Each ledger object replays the log into memory   *)
(* when it is built, and records a version by appending behind the last    *)
(* event it has replayed.                                                  *)
(*                                                                         *)
(* Several processes have a ledger on one log, and other callers append    *)
(* events of their own.  A ledger's lock makes its calls follow each       *)
(* other; its reads and its appends are transactions of their own.         *)
(***************************************************************************)
EXTENDS EventStore

CONSTANTS
  Ledgers,         \* ArtifactLedger objects, each in a process of its own
  Outputs,         \* what agents record: [session, name, task, content, from]
  OtherEvents,     \* events of other callers
  RecordAttempts,  \* _MAX_RECORD_ADMISSION_ATTEMPTS
  MaxArtifacts     \* the safety limit on versions

ArtifactNames == {<<o.session, o.name>> : o \in Outputs}

(* The event a ledger appends for an output; from is the version that      *)
(* restore takes the contents of, None in record.                          *)
VersionEvent(l, o, version) ==
  [id |-> <<l, o, version>>, stream |-> o.session,
   key |-> <<o.task, o.name, o.content>>, output |-> o, version |-> version,
   type |-> "artifact.versioned", schema |-> 1, sound |-> TRUE]

ASSUME LedgerAssumption ==
  /\ None \notin Outputs /\ \A o \in Outputs : <<o.task, o.name, o.content>> # None
  /\ RecordAttempts \in Nat \ {0} /\ MaxArtifacts \in Nat
  /\ OtherEvents \subseteq {e \in DomainEvents : e.output = None}
  /\ \A l \in Ledgers, o \in Outputs, v \in 1 .. MaxArtifacts :
       VersionEvent(l, o, v) \in DomainEvents

VARIABLES
  memory,   \* _state of each ledger: the versions and the replay position
  record,   \* the call of record a ledger is in
  recorded  \* history: the version that record returned for an output

ledgerVars == <<memory, record, recorded>>

-----------------------------------------------------------------------------
Memory ==
  [versions : [ArtifactNames -> Seq(Outputs)], position : 0 .. MaxEvents]

Record ==
  [output : Outputs \cup {None}, attempt : 0 .. RecordAttempts,
   event : DomainEvents \cup {None}]

NoRecord == [output |-> None, attempt |-> 0, event |-> None]

LedgerTypeOK ==
  /\ memory \in [Ledgers -> Memory]
  /\ record \in [Ledgers -> Record]
  /\ recorded \in [Outputs -> 0 .. MaxArtifacts]

IsVersionOf(e, name) == e.output # None /\ <<e.output.session, e.output.name>> = name

(* The artifact events among the first n of the log, by artifact.          *)
VersionRows(n, name) ==
  LET upTo[i \in 0 .. n] ==
        IF i = 0 THEN <<>>
        ELSE IF IsVersionOf(log[i].event, name) THEN Append(upTo[i - 1], log[i])
        ELSE upTo[i - 1]
  IN  upTo[n]

(* _rebuild_under_lock accepts a chain of versions 1, 2, ... under the     *)
(* limits, and remembers it with the last position it read.                *)
Replayable(n) ==
  /\ \A name \in ArtifactNames :
       LET rows == VersionRows(n, name)
       IN  \A k \in DOMAIN rows : rows[k].event.version = k
  /\ Cardinality({p \in 1 .. n : log[p].event.output # None}) <= MaxArtifacts

Replayed(n) ==
  [versions |-> [name \in ArtifactNames |->
                   LET rows == VersionRows(n, name)
                   IN  [k \in DOMAIN rows |-> rows[k].event.output]],
   position |-> n]

Rebuilt(l) == IF Replayable(Len(log)) THEN Replayed(Len(log)) ELSE memory[l]

LedgerInit ==
  /\ memory = [l \in Ledgers |-> Replayed(0)]
  /\ record = [l \in Ledgers |-> NoRecord]
  /\ recorded = [o \in Outputs |-> 0]

-----------------------------------------------------------------------------
HistoryOf(l, o) == memory[l].versions[<<o.session, o.name>>]

Usage(l) ==
  Cardinality({v \in ArtifactNames \X (1 .. MaxArtifacts) :
                 v[2] <= Len(memory[l].versions[v[1]])})

(* record, and restore, which records the contents of an earlier version.  *)
BeginRecord(l, o) ==
  /\ record[l] = NoRecord
  /\ o.from # None =>
       /\ o.from \in DOMAIN HistoryOf(l, o)
       /\ HistoryOf(l, o)[o.from].content = o.content
  /\ record' = [record EXCEPT ![l] = [NoRecord EXCEPT !.output = o,
                                                      !.attempt = 1]]
  /\ UNCHANGED <<logVars, memory, recorded>>

(* The versions a ledger shows once it has found the row of a key.         *)
Finds(l, o) ==
  IF o \in {HistoryOf(l, o)[k] : k \in DOMAIN HistoryOf(l, o)}
  THEN memory[l] ELSE Rebuilt(l)

(* _resolve_idempotent_version: the stored version, if it is of the same   *)
(* request; a ledger that does not know it replays the log.                *)
Resolve(l, p) ==
  LET o == record[l].output IN
  /\ record' = [record EXCEPT ![l] = NoRecord]
  /\ IF log[p].event.output = o
     THEN /\ memory' = [memory EXCEPT ![l] = Finds(l, o)]
          /\ recorded' = [recorded EXCEPT ![o] = log[p].event.version]
     ELSE UNCHANGED <<memory, recorded>>

KeyRows(o) == Idempotent(VersionEvent(CHOOSE l \in Ledgers : TRUE, o, 1))

(* One admission attempt: the key is looked up, and the next version of    *)
(* the artifact in memory is prepared if there is no row and no limit.     *)
LookUp(l) ==
  LET o == record[l].output IN
  /\ o # None /\ record[l].event = None
  /\ \/ \E p \in KeyRows(o) : Resolve(l, p)
     \/ /\ KeyRows(o) = {}
        /\ Usage(l) < MaxArtifacts
        /\ record' = [record EXCEPT ![l].event =
                        VersionEvent(l, o, Len(HistoryOf(l, o)) + 1)]
        /\ UNCHANGED <<memory, recorded>>
     \/ /\ KeyRows(o) = {}
        /\ Usage(l) >= MaxArtifacts
        /\ record' = [record EXCEPT ![l] = NoRecord]
        /\ UNCHANGED <<memory, recorded>>
  /\ UNCHANGED logVars

(* append behind the replay position.  The row lands, with an error or     *)
(* without one, and _reconcile_committed_event finds it; or the row of a   *)
(* racing retry is returned; or the log has moved and the ledger replays   *)
(* it for another attempt.                                                 *)
Remember(l) ==
  LET o == record[l].output IN
  [versions |-> [memory[l].versions EXCEPT ![<<o.session, o.name>>] =
                   Append(@, o)],
   position |-> Len(log) + 1]

(* Mutant: a version is appended wherever the log ends by now. *)
AppendVersionAnywhere(l) ==
  /\ record[l].event # None
  /\ InsertsEvent(record[l].event, None, None)
  /\ log' = Extended(record[l].event)
  /\ memory' = [memory EXCEPT ![l] = Remember(l)]
  /\ recorded' = [recorded EXCEPT ![record[l].output] = record[l].event.version]
  /\ record' = [record EXCEPT ![l] = NoRecord]
  /\ UNCHANGED <<outbox, inbox, snapshot, told, admitted>>

AppendVersion(l) ==
  /\ record[l].event # None
  /\ InsertsEvent(record[l].event, None, memory[l].position)
  /\ log' = Extended(record[l].event)
  /\ memory' = [memory EXCEPT ![l] = Remember(l)]
  /\ recorded' = [recorded EXCEPT ![record[l].output] = record[l].event.version]
  /\ record' = [record EXCEPT ![l] = NoRecord]
  /\ UNCHANGED <<outbox, inbox, snapshot, told, admitted>>

(* The row lands and neither the append nor the readback tells: the call   *)
(* raises, and the ledger's memory is behind.                              *)
AppendUnseen(l) ==
  /\ record[l].event # None
  /\ InsertsEvent(record[l].event, None, memory[l].position)
  /\ log' = Extended(record[l].event)
  /\ record' = [record EXCEPT ![l] = NoRecord]
  /\ UNCHANGED <<memory, recorded, outbox, inbox, snapshot, told, admitted>>

AppendRaced(l) ==
  /\ record[l].event # None
  /\ \E p \in Idempotent(record[l].event) : Resolve(l, p)
  /\ UNCHANGED logVars

AppendRefused(l) ==
  /\ record[l].event # None
  /\ Idempotent(record[l].event) = {}
  /\ ~Expected(memory[l].position, Len(log))
  /\ IF record[l].attempt < RecordAttempts
     THEN /\ memory' = [memory EXCEPT ![l] = Rebuilt(l)]
          /\ record' = [record EXCEPT ![l].event = None, ![l].attempt = @ + 1]
     ELSE /\ record' = [record EXCEPT ![l] = NoRecord]
          /\ UNCHANGED memory
  /\ UNCHANGED <<logVars, recorded>>

(* A call raises for any other reason; a process dies and its successor    *)
(* builds a ledger anew, which replays the log.                            *)
RecordFails(l) ==
  /\ record[l] # NoRecord
  /\ record' = [record EXCEPT ![l] = NoRecord]
  /\ UNCHANGED <<logVars, memory, recorded>>

Rebuild(l) ==
  /\ Replayable(Len(log))
  /\ memory' = [memory EXCEPT ![l] = Replayed(Len(log))]
  /\ record' = [record EXCEPT ![l] = NoRecord]
  /\ UNCHANGED <<logVars, recorded>>

(* Rows of other callers; a ledger reads nothing else that they write.     *)
AppendByOthers(e) ==
  /\ InsertsEvent(e, None, None)
  /\ log' = Extended(e)
  /\ UNCHANGED <<outbox, inbox, snapshot, told, admitted, ledgerVars>>

LedgerNext ==
  \/ \E l \in Ledgers :
       \/ \E o \in Outputs : BeginRecord(l, o)
       \/ LookUp(l) \/ AppendVersion(l) \/ AppendUnseen(l) \/ AppendRaced(l)
       \/ AppendRefused(l) \/ RecordFails(l) \/ Rebuild(l)
  \/ \E e \in OtherEvents : AppendByOthers(e)

-----------------------------------------------------------------------------
(* The log can always be replayed: the ledgers of all processes allocate   *)
(* the versions of an artifact one after the other, under the limit, and   *)
(* whatever was lost, raced or restored, each ledger's memory is what the  *)
(* log said up to its position; a version that record returned is in the   *)
(* log for good (record, _rebuild_under_lock, _reconcile_committed_event). *)
LedgersReplay ==
  /\ Replayable(Len(log))
  /\ \A l \in Ledgers :
       /\ memory[l].position <= Len(log)
       /\ memory[l] = Replayed(memory[l].position)
  /\ \A o \in Outputs : recorded[o] # 0 =>
       \E p \in KeyRows(o) :
         log[p].event.output = o /\ log[p].event.version = recorded[o]
=============================================================================
