------------------------------- MODULE MCStores -------------------------------
(* Small instances of the event log, of ledgers on it, of projections of   *)
(* it, of the artifact store with its backups, and of the migrations of a  *)
(* database, in one run.  A ledger and a projection read nothing of the    *)
(* log but rows, and the others share no state, so the interleavings of    *)
(* the five add nothing to what each of them does: a behaviour goes on     *)
(* with the one its first step is of.                                      *)
EXTENDS ArtifactLedger, Projections, Backup, Migrations, TLC

Event(id, stream, key, type, schema) ==
  [id |-> <<id, None, 0>>, stream |-> stream, key |-> key, output |-> None,
   version |-> 0, type |-> type, schema |-> schema, sound |-> TRUE]

(* One event retried under its key with changed contents, the same key in   *)
(* another stream, and an event without a key.                              *)
Retried == <<"k", "k", "k">>

SmallOthers ==
  {Event(1, "s", Retried, "A", 1), Event(2, "s", Retried, "A", 2),
   Event(3, "t", Retried, "A", 1), Event(4, "s", None, "A", 2)}

(* What projections read: an event of the older schema, its retry of the    *)
(* newest one, and an event without a key.                                  *)
SmallProjected == {e \in SmallOthers : e.stream = "s"}

(* Two contents of one artifact, and a rollback to the first of them.       *)
Output(task, content, from) ==
  [session |-> "s", name |-> "a", task |-> task, content |-> content, from |-> from]

SmallOutputs ==
  {Output("x", "c", None), Output("y", "d", None), Output("z", "c", 1)}

(* A stranger's event that moves the log, under the key of an output.       *)
SmallStrangers == {Event(5, "s", <<"x", "a", "c">>, "A", 1)}

SmallEvents ==
  SmallOthers \cup SmallStrangers
    \cup {VersionEvent(l, o, v) : l \in Ledgers, o \in SmallOutputs, v \in 1 .. MaxArtifacts}

(* A write, its retry with a new artifact id, a reuse of its key, another   *)
(* version with the same contents, and another scope.                       *)
Write(scope, artifact, key, content) ==
  [scope |-> scope, name |-> "a", artifact |-> artifact, key |-> key, content |-> content, by |-> "u"]

SmallWrites ==
  {Write("p", 1, "k", "c"), Write("p", 2, "k", "c"), Write("p", 3, "k", "d"),
   Write("p", 4, "l", "c"), Write("q", 1, "k", "c")}

(* Three migrations, the last of which depends on the first and adopts a    *)
(* table of an older release.                                               *)
SmallDependsOn == [v \in 1 .. LastVersion |-> IF v = 3 THEN {1} ELSE {}]

Untouched(parts) ==
  /\ "log" \in parts => LogInit
  /\ "rows" \in parts => NoSideRows
  /\ "others" \in parts =>
       (\A m \in Messages : outbox[m] = 0) /\ (\A d \in Deliveries : inbox[d] = 0)
         /\ (\A s \in Streams : snapshot[s] = -1)
  /\ "ledgers" \in parts => LedgerInit
  /\ "projections" \in parts =>
       NothingProjected /\ \A v, w \in Workers : owner[v] = owner[w]
  /\ "storage" \in parts => StorageInit
  /\ "migrations" \in parts => MigrationInit /\ objects = {}

(* Backups only tell the states of the file apart: beside them there are   *)
(* two writes and no retry, which changes nothing that a backup reads.     *)
NoBackups == \A b \in Calls : call[b] = New

FewWrites ==
  /\ \A k \in DOMAIN versions : versions[k].write.artifact = 1
  /\ Cardinality({w \in Writes : returned[w] # 0}) = Len(versions)

(* Projections are of one event type, and read no answers.                 *)
FewEvents ==
  /\ \A p \in DOMAIN log : log[p].event \in SmallProjected
  /\ \A e \in SmallOthers : told[e] # 0 => log[told[e]].event = e
  /\ \A t \in Types \ {"A"} : current[t] = 0

Init ==
  /\ ProjectionInit /\ LedgerInit /\ StorageInit /\ MigrationInit
  /\ Untouched({"projections"}) \/ Untouched({"migrations"})

Next ==
  \/ /\ Untouched({"ledgers", "projections", "storage", "migrations"})
     /\ LogStep(SmallOthers)
     /\ UNCHANGED <<ledgerVars, projectionVars, storageVars, migrationVars>>
  \/ /\ Untouched({"rows", "projections", "storage", "migrations"})
     /\ LedgerNext /\ UNCHANGED <<projectionVars, storageVars, migrationVars>>
  \/ /\ Untouched({"others", "ledgers", "storage", "migrations"})
     /\ ProjectionNext
     /\ UNCHANGED <<ledgerVars, storageVars, migrationVars>>
     /\ FewEvents'
  \/ /\ Untouched({"log", "ledgers", "projections", "migrations"})
     /\ StorageNext
     /\ UNCHANGED <<logVars, ledgerVars, projectionVars, migrationVars>>
     /\ (NoBackups \/ FewWrites)'
  \/ /\ Untouched({"log", "ledgers", "projections", "storage"})
     /\ MigrationNext
     /\ UNCHANGED <<logVars, ledgerVars, projectionVars, storageVars>>

Spec ==
  Init /\ [][Next]_<<logVars, ledgerVars, projectionVars, storageVars, migrationVars>>

(* As the parts do not run side by side, their processes share names.      *)
ProcessSymmetry == Permutations(Migrators) \cup Permutations(Owners)
=============================================================================
