------------------------------ MODULE Migrations ------------------------------
(***************************************************************************)
(* Schema migrations of one database: the legacy runner that every store   *)
(* starts when it opens (migrations/__init__.py) and the bridge to domain  *)
(* migrations (domain_migrations.py), which describes what the runner has  *)
(* applied in two sidecar tables.                                          *)
(*                                                                         *)
(* Processes open stores, install the sidecar, bootstrap its rows, and     *)
(* plan and apply both, at any time and in any order.  A step is one       *)
(* transaction or one read; a process may die or raise between two of      *)
(* them, and a COMMIT may land and raise.  A migration stands for the row  *)
(* of the ledger and for the objects it owns; digests and DDL texts are    *)
(* those of one release, so that a row or an object is there or is not.    *)
(***************************************************************************)
EXTENDS Integers, FiniteSets

CONSTANTS
  Migrators,   \* processes
  LastVersion, \* the registry is 1 .. LastVersion
  DependsOn,   \* the dependencies of each migration
  Targets,     \* last of the target_versions a store asks for
  Adopted,     \* migrations whose objects an older release made by itself
  NoPlan

Versions == 1 .. LastVersion
Sidecar == {"metadata", "dependencies"}

(* validate_domain_migration_registry: what a registry must be.            *)
RegistrySound ==
  /\ DependsOn \in [Versions -> SUBSET Versions]
  /\ \A v \in Versions : \A d \in DependsOn[v] : d < v

ASSUME MigrationAssumption ==
  /\ LastVersion \in Nat \ {0}
  /\ Targets \subseteq Versions
  /\ Adopted \subseteq Versions
  /\ RegistrySound

VARIABLES
  ledger,      \* rows of qe_schema_migrations
  objects,     \* migrations whose objects exist
  tables,      \* sidecar tables that exist
  metadata,    \* rows of qe_schema_migration_metadata
  edges,       \* rows of qe_schema_migration_dependencies
  migrator,    \* the call each process is in
  drifted,     \* history: an initializer reported drift
  bridgings    \* history: plans that were applied, and the schema they left

schemaVars == <<ledger, objects, tables, metadata, edges>>
migrationVars == <<schemaVars, migrator, drifted, bridgings>>

Shapes == {"sidecar_absent", "empty", "legacy_prefix", "bridged_prefix"}
SchemaState == [shape : Shapes, applied : SUBSET Versions]

Call ==
  [step : {"idle", "rows", "objects", "applying", "installing",
           "bootstrapping", "planned"},
   target : Targets \cup {0},
   next : 0 .. LastVersion + 1,
   seen : SUBSET Versions,
   source : SchemaState \cup {NoPlan}]

NoCall ==
  [step |-> "idle", target |-> 0, next |-> 0, seen |-> {}, source |-> NoPlan]

MigrationTypeOK ==
  /\ ledger \subseteq Versions /\ objects \subseteq Versions
  /\ tables \subseteq Sidecar
  /\ metadata \subseteq Versions /\ edges \subseteq Versions \X Versions
  /\ migrator \in [Migrators -> Call]
  /\ drifted \in BOOLEAN
  /\ bridgings \subseteq [source : SchemaState, after : SchemaState]

MigrationInit ==
  /\ ledger = {} /\ objects \in {{}, Adopted}
  /\ tables = {} /\ metadata = {} /\ edges = {}
  /\ migrator = [p \in Migrators |-> NoCall]
  /\ drifted = FALSE /\ bridgings = {}

Enters(p, call) == migrator' = [migrator EXCEPT ![p] = call]

(* A transaction that commits goes on, or raises after it has landed.      *)
Commits(p, call) == Enters(p, call) \/ Enters(p, NoCall)

(* A call that raises, or whose process dies, between two transactions or  *)
(* in one, which is rolled back.                                           *)
Abandon(p) ==
  /\ migrator[p].step # "idle"
  /\ Enters(p, NoCall)
  /\ UNCHANGED <<schemaVars, drifted, bridgings>>

-----------------------------------------------------------------------------
(* apply_sqlite_migrations.  The schema is validated without a             *)
(* transaction before and after the loop: rows first, then the objects     *)
(* those rows stand for, while other processes go on.                      *)
Continuous(rows) == \A v \in rows : 1 .. v \subseteq rows

OpenStore(p, n) ==
  /\ migrator[p].step = "idle"
  /\ Enters(p, [NoCall EXCEPT !.step = "rows", !.target = n, !.next = 1])
  /\ UNCHANGED <<schemaVars, drifted, bridgings>>

ReadRows(p) ==
  /\ migrator[p].step = "rows"
  /\ Enters(p, [migrator[p] EXCEPT !.step = "objects", !.seen = ledger])
  /\ UNCHANGED <<schemaVars, drifted, bridgings>>

ValidateSchema(p) ==
  LET call == migrator[p]
      exact == Continuous(call.seen) /\ call.seen \subseteq objects IN
  /\ call.step = "objects"
  /\ drifted' = (drifted \/ ~exact)
  /\ Enters(p, IF exact /\ call.next <= call.target
               THEN [call EXCEPT !.step = "applying", !.seen = {}] ELSE NoCall)
  /\ UNCHANGED <<schemaVars, bridgings>>

(* One migration, looked up again under the write lock.  The schema is     *)
(* validated before the COMMIT; that this never finds drift is part of     *)
(* SchemaExplained, so the rollback it would cause is not modelled.        *)
ApplyMigration(p) ==
  LET call == migrator[p] IN
  /\ call.step = "applying"
  /\ ledger' = ledger \cup {call.next}
  /\ objects' = IF call.next \in ledger THEN objects
                ELSE objects \cup {call.next}
  /\ drifted' = (drifted \/ ~Continuous(ledger') \/ ~(ledger' \subseteq objects'))
  /\ Commits(p, [call EXCEPT !.next = @ + 1,
                  !.step = IF call.next = call.target THEN "rows" ELSE @])
  /\ UNCHANGED <<tables, metadata, edges, bridgings>>

-----------------------------------------------------------------------------
(* read_domain_migration_bridge_state, in one snapshot: the ledger is a    *)
(* prefix, the objects are its own, and a sidecar with rows describes it.  *)
EdgesOf(rows) == UNION {{<<v, d>> : d \in DependsOn[v]} : v \in rows}

SidecarExact == tables \in {{}, Sidecar}
NothingUnapplied == objects \subseteq ledger
MetadataCongruent == metadata = ledger
EdgesCongruent == edges = EdgesOf(ledger)

Readable ==
  /\ Continuous(ledger) /\ ledger \subseteq objects
  /\ NothingUnapplied
  /\ SidecarExact
  /\ IF metadata = {} THEN edges = {} ELSE MetadataCongruent /\ EdgesCongruent

(* inspect_schema_state.                                                   *)
Shape(rows, sidecar, described) ==
  IF sidecar = {} THEN "sidecar_absent"
  ELSE IF rows = {} THEN "empty"
  ELSE IF described = {} THEN "legacy_prefix" ELSE "bridged_prefix"

Inspected == [shape |-> Shape(ledger, tables, metadata), applied |-> ledger]

(* _validate_schema_state: a state the planner takes.                      *)
Plannable(s) ==
  /\ Continuous(s.applied)
  /\ \A v \in s.applied : DependsOn[v] \subseteq s.applied
  /\ s.shape = "empty" => s.applied = {}
  /\ s.shape \in {"legacy_prefix", "bridged_prefix"} => s.applied # {}

(* plan_bridge_migrations: what a plan does to the state it was made of,   *)
(* and the state it leaves.                                                *)
Actions(s) ==
  {a \in {"install_sidecar", "bootstrap_legacy_metadata"} :
     IF a = "install_sidecar" THEN s.shape = "sidecar_absent"
     ELSE s.shape \in {"sidecar_absent", "legacy_prefix"} /\ s.applied # {}}

TargetState(s) ==
  [shape |-> IF s.applied = {} THEN "empty" ELSE "bridged_prefix",
   applied |-> s.applied]

(* The two kernels, under a lock that the caller holds.                    *)
InstallSidecarLocked == tables' = Sidecar

BootstrapLocked ==
  IF metadata = {}
  THEN metadata' = ledger /\ edges' = EdgesOf(ledger)
  ELSE UNCHANGED <<metadata, edges>>

(* install_domain_migration_sidecar, looked at before and under the lock.  *)
InstallSidecar(p) ==
  /\ \/ /\ migrator[p].step = "idle" /\ tables = {}
        /\ Enters(p, [NoCall EXCEPT !.step = "installing"])
        /\ UNCHANGED tables
     \/ /\ migrator[p].step = "installing"
        /\ InstallSidecarLocked
        /\ Enters(p, NoCall)
  /\ UNCHANGED <<ledger, objects, metadata, edges, drifted, bridgings>>

(* bootstrap_legacy_domain_migration_metadata.                             *)
Bootstrap(p) ==
  /\ Readable /\ tables # {}
  /\ \/ /\ migrator[p].step = "idle"
        /\ Enters(p, [NoCall EXCEPT !.step = "bootstrapping"])
        /\ UNCHANGED <<metadata, edges>>
     \/ /\ migrator[p].step = "bootstrapping"
        /\ BootstrapLocked
        /\ Enters(p, NoCall)
  /\ UNCHANGED <<ledger, objects, tables, drifted, bridgings>>

PlanBridge(p) ==
  /\ migrator[p].step = "idle"
  /\ Readable /\ Plannable(Inspected)
  /\ Enters(p, [NoCall EXCEPT !.step = "planned", !.source = Inspected])
  /\ UNCHANGED <<schemaVars, drifted, bridgings>>

(* Mutant: a plan is compared with the shape of the locked schema only. *)
CurrentByShape(source) == source.shape = Inspected.shape

(* The plan is of the state under the lock, not of an earlier one.         *)
Current(source) == source = Inspected

(* apply_bridge_migration_plan.                                            *)
ApplyPlan(p) ==
  LET source == migrator[p].source
      does(a) == a \in Actions(source) IN
  /\ migrator[p].step = "planned"
  /\ Readable /\ Current(source)
  /\ IF does("install_sidecar") THEN InstallSidecarLocked ELSE UNCHANGED tables
  /\ IF does("bootstrap_legacy_metadata") THEN BootstrapLocked
     ELSE UNCHANGED <<metadata, edges>>
  /\ bridgings' = bridgings \cup
       {[source |-> source,
         after |-> [shape |-> Shape(ledger, tables', metadata'), applied |-> ledger]]}
  /\ Enters(p, NoCall)
  /\ UNCHANGED <<ledger, objects, drifted>>

MigrationNext ==
  \E p \in Migrators :
    \/ Abandon(p)
    \/ \E n \in Targets : OpenStore(p, n)
    \/ ReadRows(p) \/ ValidateSchema(p) \/ ApplyMigration(p)
    \/ InstallSidecar(p) \/ Bootstrap(p)
    \/ PlanBridge(p) \/ ApplyPlan(p)

-----------------------------------------------------------------------------
(* Concurrent initializers are safe: none of them takes what another one   *)
(* is about to finish for drift, although they validate without a lock.    *)
(* The bridge can read every schema that initializers and bridges make     *)
(* together, except one with objects that no migration has adopted yet and *)
(* one that an initializer extended after it was described, contrary to    *)
(* LedgerDescribed below; what the rows of that one say is still true up   *)
(* to where they go.  And a plan does what it said to the schema it was    *)
(* made for, or nothing (apply_sqlite_migrations,                          *)
(* apply_bridge_migration_plan).                                           *)
SchemaExplained ==
  /\ ~drifted
  /\ Continuous(ledger) /\ ledger \subseteq objects /\ SidecarExact
  /\ Continuous(metadata) /\ metadata \subseteq ledger
  /\ edges = EdgesOf(metadata)
  /\ \/ Readable
     \/ metadata \notin {{}, ledger}
     \/ objects # ledger /\ objects \ ledger \subseteq Adopted
  /\ \A b \in bridgings : b.after = TargetState(b.source)

(* What docs/architecture/DOMAIN_SCOPED_MIGRATIONS.md says of the sidecar, *)
(* "Every packaged ledger row has exactly one metadata row after           *)
(* bootstrap": the bootstrap describes the rows of that instant, and       *)
(* apply_sqlite_migrations, which knows nothing of the sidecar, adds rows  *)
(* to the ledger afterwards.                                               *)
LedgerDescribed == metadata # {} => metadata = ledger
=============================================================================
