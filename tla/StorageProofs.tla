---------------------------- MODULE StorageProofs ----------------------------
(***************************************************************************)
(* Proofs about what a database file holds and how it is kept: the         *)
(* migrations of its schema, the versions of the artifact store in it, and *)
(* its backups, for any number of processes, writes and calls.             *)
(***************************************************************************)
EXTENDS Backup, Migrations, TLAPS, FiniteSetTheorems, SequenceTheorems

-----------------------------------------------------------------------------
(* Migrations.  What makes validation without a lock sound is that rows    *)
(* only grow and always as a prefix: the rows a call has read are a prefix *)
(* of the ledger for good, and everything before the version it applies    *)
(* next is there already.                                                  *)

MigrationSpec == MigrationInit /\ [][MigrationNext]_migrationVars

LedgerInv ==
  /\ Continuous(ledger)
  /\ ledger \subseteq objects
  /\ objects \ ledger \subseteq Adopted

(* A call between two of its transactions.                                 *)
CallInv(c) ==
  /\ 1 .. c.next - 1 \subseteq ledger
  /\ c.step \in {"rows", "objects", "applying"} => c.next > 0 /\ c.target > 0
  /\ c.step = "applying" => c.next <= c.target
  /\ c.step = "objects" => Continuous(c.seen) /\ c.seen \subseteq ledger

SidecarInv ==
  /\ tables = {} \/ tables = Sidecar
  /\ tables = {} => metadata = {}
  /\ Continuous(metadata)
  /\ metadata \subseteq ledger
  /\ edges = EdgesOf(metadata)

BridgingInv == \A b \in bridgings : b.after = TargetState(b.source)

MigrationInv ==
  /\ MigrationTypeOK
  /\ ~drifted
  /\ LedgerInv
  /\ \A p \in Migrators : CallInv(migrator[p])
  /\ SidecarInv
  /\ BridgingInv

LEMMA InvExplains == MigrationInv => SchemaExplained
<1> SUFFICES ASSUME MigrationInv PROVE SchemaExplained
  OBVIOUS
<1>1. EdgesOf({}) = {}
  BY DEF EdgesOf
<1>2. Readable \/ metadata \notin {{}, ledger}
               \/ (objects # ledger /\ objects \ ledger \subseteq Adopted)
  BY <1>1 DEF MigrationInv, LedgerInv, SidecarInv, Readable, NothingUnapplied,
     SidecarExact, MetadataCongruent, EdgesCongruent
<1> QED BY <1>2 DEF MigrationInv, LedgerInv, SidecarInv, BridgingInv,
        SchemaExplained, SidecarExact

LEMMA NoCallFacts ==
  /\ NoCall \in Call
  /\ CallInv(NoCall)
  /\ NoCall.step = "idle" /\ NoCall.next = 0
<1>1. 0 \in 0 .. LastVersion + 1
  BY MigrationAssumption
<1>2. NoCall \in Call
  BY <1>1 DEF NoCall, Call
<1>3. NoCall.step = "idle" /\ NoCall.next = 0
  BY DEF NoCall
<1>4. 1 .. 0 - 1 = {}
  OBVIOUS
<1> QED BY <1>2, <1>3, <1>4 DEF CallInv

(* A call goes on while the ledger only grows: what the other calls have   *)
(* read stays true.                                                        *)
LEMMA CallsKeep ==
  ASSUME MigrationInv, NEW p \in Migrators, NEW c \in Call, Enters(p, c),
         ledger \subseteq ledger', CallInv(c)'
  PROVE  /\ migrator' \in [Migrators -> Call]
         /\ \A q \in Migrators : CallInv(migrator[q])'
<1>1. migrator' \in [Migrators -> Call]
  BY DEF Enters, MigrationInv, MigrationTypeOK
<1>2. migrator'[p] = c
  BY DEF Enters, MigrationInv, MigrationTypeOK
<1>3. \A q \in Migrators \ {p} : migrator'[q] = migrator[q]
  BY DEF Enters, MigrationInv, MigrationTypeOK
<1>4. \A q \in Migrators : CallInv(migrator[q])'
  BY <1>2, <1>3 DEF CallInv, Continuous, MigrationInv
<1> QED BY <1>1, <1>4

(* The same for a step that leaves the schema alone.                       *)
LEMMA SchemaAlone ==
  ASSUME MigrationInv, NEW p \in Migrators, NEW c \in Call, Enters(p, c),
         CallInv(c), UNCHANGED <<schemaVars, bridgings>>, ~drifted'
  PROVE  MigrationInv'
<1>1. UNCHANGED <<ledger, objects, tables, metadata, edges, bridgings>>
  BY DEF schemaVars
<1>2. CallInv(c)'
  BY <1>1 DEF CallInv, Continuous
<1>3. drifted' = FALSE
  OBVIOUS
<1>4. LedgerInv' /\ SidecarInv' /\ BridgingInv'
  BY <1>1 DEF MigrationInv, LedgerInv, SidecarInv, BridgingInv, Continuous,
     EdgesOf, TargetState
<1>5. /\ migrator' \in [Migrators -> Call]
      /\ \A q \in Migrators : CallInv(migrator[q])'
  BY <1>1, <1>2, CallsKeep
<1> QED BY <1>1, <1>3, <1>4, <1>5 DEF MigrationInv, MigrationTypeOK

(* The next version of a prefix makes a longer prefix.                     *)
LEMMA PrefixGrows ==
  ASSUME NEW rows, rows \subseteq Versions, Continuous(rows),
         NEW v \in Versions, 1 .. v - 1 \subseteq rows
  PROVE  Continuous(rows \cup {v}) /\ 1 .. v \subseteq rows \cup {v}
BY MigrationAssumption DEF Continuous, Versions

(* The sidecar that the bootstrap writes describes the ledger.             *)
LEMMA EdgesTyped ==
  ASSUME NEW rows, rows \subseteq Versions
  PROVE  EdgesOf(rows) \subseteq Versions \X Versions
BY MigrationAssumption DEF EdgesOf, RegistrySound

LEMMA BootstrapDescribes ==
  ASSUME MigrationInv, BootstrapLocked, UNCHANGED ledger, tables' = Sidecar
  PROVE  /\ SidecarInv'
         /\ metadata' \subseteq Versions
         /\ edges' \subseteq Versions \X Versions
         /\ metadata' = IF metadata = {} THEN ledger ELSE metadata
<1>1. metadata' = IF metadata = {} THEN ledger ELSE metadata
  BY DEF BootstrapLocked
<1>2. edges' = EdgesOf(metadata')
  BY DEF BootstrapLocked, MigrationInv, SidecarInv
<1>3. /\ metadata' \subseteq Versions /\ metadata' \subseteq ledger
      /\ Continuous(metadata')
  BY <1>1 DEF MigrationInv, MigrationTypeOK, SidecarInv, LedgerInv
<1>4. Sidecar # {}
  BY DEF Sidecar
<1> QED BY <1>1, <1>2, <1>3, <1>4, EdgesTyped DEF SidecarInv, Continuous, EdgesOf

LEMMA MigrationStep ==
  ASSUME MigrationInv, [MigrationNext]_migrationVars
  PROVE  MigrationInv'
<1>1. ASSUME NEW p \in Migrators, Abandon(p)
      PROVE  MigrationInv'
  BY <1>1, NoCallFacts, SchemaAlone DEF Abandon, MigrationInv
<1>2. ASSUME NEW p \in Migrators, NEW n \in Targets, OpenStore(p, n)
      PROVE  MigrationInv'
  <2>0. PICK c : c = [NoCall EXCEPT !.step = "rows", !.target = n, !.next = 1]
    OBVIOUS
  <2>1. n \in Nat \ {0} /\ 1 \in 0 .. LastVersion + 1
    BY MigrationAssumption DEF Versions
  <2>2. c.step = "rows" /\ c.target = n /\ c.next = 1
    BY <2>0 DEF NoCall
  <2>3. c \in Call
    BY <2>0, <2>1, NoCallFacts DEF Call
  <2>4. CallInv(c)
    BY <2>1, <2>2 DEF CallInv
  <2> QED BY <1>2, <2>0, <2>3, <2>4, SchemaAlone DEF OpenStore, MigrationInv
<1>3. ASSUME NEW p \in Migrators, ReadRows(p)
      PROVE  MigrationInv'
  <2>0. PICK c : c = [migrator[p] EXCEPT !.step = "objects", !.seen = ledger]
    OBVIOUS
  <2>1. migrator[p] \in Call /\ CallInv(migrator[p]) /\ ledger \subseteq Versions
    BY DEF MigrationInv, MigrationTypeOK
  <2>2. /\ c.step = "objects" /\ c.target = migrator[p].target
        /\ c.next = migrator[p].next /\ c.seen = ledger
    BY <2>0, <2>1 DEF Call
  <2>3. c \in Call
    BY <2>0, <2>1 DEF Call
  <2>4. CallInv(c)
    BY <1>3, <2>1, <2>2 DEF CallInv, MigrationInv, LedgerInv, ReadRows
  <2> QED BY <1>3, <2>0, <2>3, <2>4, SchemaAlone DEF ReadRows, MigrationInv
<1>4. ASSUME NEW p \in Migrators, ValidateSchema(p)
      PROVE  MigrationInv'
  <2>1. migrator[p] \in Call /\ CallInv(migrator[p])
    BY DEF MigrationInv, MigrationTypeOK
  <2>2. Continuous(migrator[p].seen) /\ migrator[p].seen \subseteq objects
    BY <1>4, <2>1 DEF ValidateSchema, CallInv, MigrationInv, LedgerInv
  <2>3. ~drifted'
    BY <1>4, <2>2 DEF ValidateSchema, MigrationInv
  <2>4. CASE migrator[p].next <= migrator[p].target
    <3>0. PICK c : c = [migrator[p] EXCEPT !.step = "applying", !.seen = {}]
      OBVIOUS
    <3>1. /\ c.step = "applying" /\ c.target = migrator[p].target
          /\ c.next = migrator[p].next
      BY <2>1, <3>0 DEF Call
    <3>2. c \in Call
      BY <2>1, <3>0 DEF Call
    <3>3. CallInv(c)
      BY <1>4, <2>1, <2>4, <3>1 DEF CallInv, ValidateSchema
    <3>4. Enters(p, c)
      BY <1>4, <2>2, <2>4, <3>0 DEF ValidateSchema
    <3> QED BY <1>4, <2>3, <3>2, <3>3, <3>4, SchemaAlone DEF ValidateSchema
  <2>5. CASE ~(migrator[p].next <= migrator[p].target)
    <3>1. Enters(p, NoCall)
      BY <1>4, <2>5 DEF ValidateSchema
    <3> QED BY <1>4, <2>3, <3>1, NoCallFacts, SchemaAlone DEF ValidateSchema
  <2> QED BY <2>4, <2>5
<1>5. ASSUME NEW p \in Migrators, ApplyMigration(p)
      PROVE  MigrationInv'
  <2> DEFINE v == migrator[p].next
             t == migrator[p].target
  <2>1. /\ migrator[p] \in Call /\ CallInv(migrator[p])
        /\ migrator[p].step = "applying"
    BY <1>5 DEF MigrationInv, MigrationTypeOK, ApplyMigration
  <2>2. t \in Targets \cup {0} /\ v \in 0 .. LastVersion + 1
    BY <2>1 DEF Call
  <2>3. v > 0 /\ t > 0 /\ v <= t /\ 1 .. v - 1 \subseteq ledger
    BY <2>1 DEF CallInv
  <2>4. v \in Versions /\ t \in Versions /\ v + 1 \in 0 .. LastVersion + 1
    <3>1. t \in Versions
      BY <2>2, <2>3, MigrationAssumption
    <3> HIDE DEF v, t
    <3> QED BY <2>2, <2>3, <3>1, MigrationAssumption DEF Versions
  <2>0. PICK c : c = [migrator[p] EXCEPT !.next = @ + 1,
                        !.step = IF v = t THEN "rows" ELSE @]
    OBVIOUS
  <2>5. /\ c.step = (IF v = t THEN "rows" ELSE "applying")
        /\ c.target = t /\ c.next = v + 1
    BY <2>0, <2>1 DEF Call
  <2>6. c \in Call
    BY <2>0, <2>1, <2>4 DEF Call
  <2>7. ledger' = ledger \cup {v} /\ ledger \subseteq Versions
    BY <1>5 DEF ApplyMigration, MigrationInv, MigrationTypeOK
  <2>8. Continuous(ledger') /\ 1 .. v \subseteq ledger'
    BY <2>3, <2>4, <2>7, PrefixGrows DEF MigrationInv, LedgerInv
  <2>9. ledger' \subseteq objects' /\ objects' \ ledger' \subseteq Adopted
    BY <1>5, <2>7 DEF ApplyMigration, MigrationInv, LedgerInv
  <2>10. LedgerInv'
    BY <2>8, <2>9 DEF LedgerInv, Continuous
  <2>11. ~drifted' /\ drifted' \in BOOLEAN
    BY <1>5, <2>8, <2>9 DEF ApplyMigration, MigrationInv, Continuous
  <2>12. CallInv(c)'
    <3>1. 1 .. (v + 1) - 1 \subseteq ledger'
      BY <2>4, <2>8 DEF Versions
    <3>2. v # t => v + 1 <= t
      BY <2>3, <2>4, MigrationAssumption DEF Versions
    <3>3. v + 1 > 0 /\ t > 0
      BY <2>3, <2>4 DEF Versions
    <3> HIDE DEF v, t
    <3> QED BY <2>5, <3>1, <3>2, <3>3 DEF CallInv
  <2>13. CallInv(NoCall)'
    BY NoCallFacts DEF CallInv
  <2>14. /\ migrator' \in [Migrators -> Call]
         /\ \A q \in Migrators : CallInv(migrator[q])'
    <3>1. Enters(p, c) \/ Enters(p, NoCall)
      BY <1>5, <2>0 DEF ApplyMigration, Commits
    <3>2. ledger \subseteq ledger'
      BY <2>7
    <3>3. CASE Enters(p, c)
      BY <2>6, <2>12, <3>2, <3>3, CallsKeep
    <3>4. CASE Enters(p, NoCall)
      BY <2>13, <3>2, <3>4, NoCallFacts, CallsKeep
    <3> QED BY <3>1, <3>3, <3>4
  <2>15. UNCHANGED <<tables, metadata, edges, bridgings>>
    BY <1>5 DEF ApplyMigration
  <2>16. SidecarInv' /\ BridgingInv'
    BY <2>7, <2>15 DEF MigrationInv, SidecarInv, BridgingInv, Continuous, EdgesOf,
       TargetState
  <2>17. ledger' \subseteq Versions /\ objects' \subseteq Versions
    BY <1>5, <2>4, <2>7 DEF ApplyMigration, MigrationInv, MigrationTypeOK
  <2> HIDE DEF v, t
  <2> QED BY <2>10, <2>11, <2>14, <2>15, <2>16, <2>17
          DEF MigrationInv, MigrationTypeOK
<1>6. ASSUME NEW p \in Migrators, InstallSidecar(p)
      PROVE  MigrationInv'
  <2>1. CASE migrator[p].step = "idle"
    <3> DEFINE c == [NoCall EXCEPT !.step = "installing"]
    <3>1. c = [step |-> "installing", target |-> 0, next |-> 0, seen |-> {},
               source |-> NoPlan]
      BY DEF NoCall
    <3>2. 0 \in 0 .. LastVersion + 1
      BY MigrationAssumption
    <3>3. c \in Call /\ CallInv(c)
      BY <3>1, <3>2 DEF Call, CallInv
    <3>4. Enters(p, c) /\ UNCHANGED <<schemaVars, drifted, bridgings>>
      BY <1>6, <2>1 DEF InstallSidecar, schemaVars
    <3> HIDE DEF c
    <3> QED BY <3>3, <3>4, SchemaAlone DEF MigrationInv
  <2>2. CASE migrator[p].step = "installing"
    <3>1. /\ tables' = Sidecar /\ Enters(p, NoCall)
          /\ UNCHANGED <<ledger, objects, metadata, edges, drifted, bridgings>>
      BY <1>6, <2>2 DEF InstallSidecar, InstallSidecarLocked
    <3>2. CallInv(NoCall)'
      BY NoCallFacts DEF CallInv
    <3>3. Sidecar # {}
      BY DEF Sidecar
    <3> QED BY <3>1, <3>2, <3>3, NoCallFacts, CallsKeep
            DEF MigrationInv, MigrationTypeOK, LedgerInv, SidecarInv, BridgingInv,
                Continuous, EdgesOf, TargetState
  <2> QED BY <1>6, <2>1, <2>2 DEF InstallSidecar
<1>7. ASSUME NEW p \in Migrators, Bootstrap(p)
      PROVE  MigrationInv'
  <2>1. CASE migrator[p].step = "idle"
    <3> DEFINE c == [NoCall EXCEPT !.step = "bootstrapping"]
    <3>1. c = [step |-> "bootstrapping", target |-> 0, next |-> 0, seen |-> {},
               source |-> NoPlan]
      BY DEF NoCall
    <3>2. 0 \in 0 .. LastVersion + 1
      BY MigrationAssumption
    <3>3. c \in Call /\ CallInv(c)
      BY <3>1, <3>2 DEF Call, CallInv
    <3>4. Enters(p, c) /\ UNCHANGED <<schemaVars, drifted, bridgings>>
      BY <1>7, <2>1 DEF Bootstrap, schemaVars
    <3> HIDE DEF c
    <3> QED BY <3>3, <3>4, SchemaAlone DEF MigrationInv
  <2>2. CASE migrator[p].step = "bootstrapping"
    <3>1. /\ BootstrapLocked /\ Enters(p, NoCall) /\ tables' = Sidecar
          /\ UNCHANGED <<ledger, objects, tables, drifted, bridgings>>
      BY <1>7, <2>2 DEF Bootstrap, MigrationInv, SidecarInv
    <3>2. SidecarInv' /\ metadata' \subseteq Versions
                      /\ edges' \subseteq Versions \X Versions
      BY <3>1, BootstrapDescribes DEF MigrationInv
    <3>3. CallInv(NoCall)'
      BY NoCallFacts DEF CallInv
    <3> QED BY <3>1, <3>2, <3>3, NoCallFacts, CallsKeep
            DEF MigrationInv, MigrationTypeOK, LedgerInv, BridgingInv,
                Continuous, TargetState
  <2> QED BY <1>7, <2>1, <2>2 DEF Bootstrap
<1>8. ASSUME NEW p \in Migrators, PlanBridge(p)
      PROVE  MigrationInv'
  <2>0. PICK c : c = [NoCall EXCEPT !.step = "planned", !.source = Inspected]
    OBVIOUS
  <2>1. c.step = "planned" /\ c.next = 0
    BY <2>0 DEF NoCall
  <2>2. 0 \in 0 .. LastVersion + 1
    BY MigrationAssumption
  <2>3. Inspected \in SchemaState
    BY DEF Inspected, Shape, Shapes, SchemaState, MigrationInv, MigrationTypeOK
  <2>4. c \in Call
    BY <2>0, <2>3, NoCallFacts DEF Call
  <2>6. CallInv(c)
    BY <2>1, NoCallFacts DEF CallInv
  <2>5. Enters(p, c) /\ UNCHANGED <<schemaVars, drifted, bridgings>>
    BY <1>8, <2>0 DEF PlanBridge
  <2> QED BY <2>4, <2>5, <2>6, SchemaAlone DEF MigrationInv
<1>9. ASSUME NEW p \in Migrators, ApplyPlan(p)
      PROVE  MigrationInv'
  <2> DEFINE source == migrator[p].source
             after == [shape |-> Shape(ledger, tables', metadata'),
                       applied |-> ledger]
  <2>1. /\ Enters(p, NoCall)
        /\ bridgings' = bridgings \cup {[source |-> source, after |-> after]}
        /\ UNCHANGED <<ledger, objects, drifted>>
    BY <1>9 DEF ApplyPlan
  <2>2. source = Inspected
    BY <1>9 DEF ApplyPlan, Current
  <2>3. Inspected \in SchemaState
    BY DEF Inspected, Shape, Shapes, SchemaState, MigrationInv, MigrationTypeOK
  <2>4. /\ source.shape = Shape(ledger, tables, metadata)
        /\ source.applied = ledger
    BY <2>2 DEF Inspected
  <2>5. tables' = Sidecar
    BY <1>9, <2>4 DEF ApplyPlan, Actions, InstallSidecarLocked, Shape,
       MigrationInv, SidecarInv
  <2>6. /\ SidecarInv' /\ metadata' \subseteq Versions
        /\ edges' \subseteq Versions \X Versions
        /\ ledger # {} => metadata' # {}
    <3>1. CASE "bootstrap_legacy_metadata" \in Actions(source)
      BY <1>9, <2>1, <2>5, <3>1, BootstrapDescribes DEF ApplyPlan
    <3>2. CASE "bootstrap_legacy_metadata" \notin Actions(source)
      <4>1. UNCHANGED <<metadata, edges>>
        BY <1>9, <3>2 DEF ApplyPlan
      <4>2. ledger # {} => metadata # {}
        BY <2>4, <3>2 DEF Actions, Shape
      <4>3. Sidecar # {}
        BY DEF Sidecar
      <4> QED BY <2>1, <2>5, <4>1, <4>2, <4>3
              DEF MigrationInv, MigrationTypeOK, SidecarInv, Continuous, EdgesOf
    <3> QED BY <3>1, <3>2
  <2>7. after = TargetState(source)
    <3>1. Sidecar # {}
      BY DEF Sidecar
    <3> QED BY <2>4, <2>5, <2>6, <3>1 DEF TargetState, Shape
  <2>8. after \in SchemaState
    BY DEF Shape, Shapes, SchemaState, MigrationInv, MigrationTypeOK
  <2> HIDE DEF after, source
  <2>9. BridgingInv'
    <3> DEFINE new == [source |-> source, after |-> after]
    <3>1. new.after = TargetState(new.source)
      BY <2>7
    <3> HIDE DEF new
    <3>2. \A b \in bridgings' : b.after = TargetState(b.source)
      BY <2>1, <3>1 DEF BridgingInv, MigrationInv, new
    <3> QED BY <3>2 DEF BridgingInv, TargetState
  <2>10. bridgings' \subseteq [source : SchemaState, after : SchemaState]
    BY <2>1, <2>2, <2>3, <2>8 DEF MigrationInv, MigrationTypeOK
  <2>11. CallInv(NoCall)'
    BY NoCallFacts DEF CallInv
  <2>12. /\ migrator' \in [Migrators -> Call]
         /\ \A q \in Migrators : CallInv(migrator[q])'
    BY <2>1, <2>11, NoCallFacts, CallsKeep
  <2>13. LedgerInv'
    BY <2>1 DEF MigrationInv, LedgerInv, Continuous
  <2>14. tables' \subseteq Sidecar
    BY <2>5
  <2> QED BY <2>1, <2>6, <2>9, <2>10, <2>12, <2>13, <2>14
          DEF MigrationInv, MigrationTypeOK
<1>10. CASE UNCHANGED migrationVars
  BY <1>10 DEF migrationVars, schemaVars, MigrationInv, MigrationTypeOK, LedgerInv,
     SidecarInv, BridgingInv, CallInv, Continuous, EdgesOf, TargetState
<1> QED BY <1>1, <1>2, <1>3, <1>4, <1>5, <1>6, <1>7, <1>8, <1>9, <1>10
        DEF MigrationNext

LEMMA MigrationStart == MigrationInit => MigrationInv
<1> SUFFICES ASSUME MigrationInit PROVE MigrationInv
  OBVIOUS
<1>1. LedgerInv /\ SidecarInv /\ BridgingInv
  BY DEF MigrationInit, LedgerInv, SidecarInv, BridgingInv, Continuous, EdgesOf
<1>2. \A p \in Migrators : migrator[p] = NoCall
  BY DEF MigrationInit
<1>3. migrator \in [Migrators -> Call]
  BY NoCallFacts DEF MigrationInit
<1>4. \A p \in Migrators : CallInv(migrator[p])
  BY <1>2, NoCallFacts
<1> QED BY <1>1, <1>3, <1>4, MigrationAssumption
        DEF MigrationInit, MigrationInv, MigrationTypeOK

(* However many processes open stores, install the sidecar, bootstrap it   *)
(* and apply plans, raising or dying in between: no validation without a   *)
(* lock reports drift, the schema stays one that the bridge explains, and  *)
(* an applied plan left the state it promised.                             *)
THEOREM SchemaIsExplained == MigrationSpec => []SchemaExplained
BY MigrationStart, MigrationStep, InvExplains, PTL DEF MigrationSpec
-----------------------------------------------------------------------------
(* The artifact store.  The head of a name is the number of its versions:  *)
(* a row at the head has that version, no row has a higher one.            *)

Rows(w) == RowsOfName(w.scope, w.name)

HeadInv(w) ==
  Rows(w) # {} => \E k \in Rows(w) : versions[k].version = Cardinality(Rows(w))

LineageInv == \A w \in Writes : Lineage(w.scope, w.name) /\ HeadInv(w)

(* A key and an artifact id name one row of their scope.                   *)
KeysInv == \A k \in DOMAIN versions : Existing(versions[k].write) = {k}

ReturnedInv ==
  \A w \in Writes : returned[w] # 0 =>
    \E k \in Rows(w) :
      /\ versions[k].version = returned[w]
      /\ versions[k].write.key = w.key
      /\ RequestDigest(versions[k].write) = RequestDigest(w)

VersionsInv == ArtifactTypeOK /\ LineageInv /\ KeysInv /\ ReturnedInv

LEMMA MaxIs ==
  ASSUME NEW S, S \subseteq Int, NEW n \in S, \A y \in S : n >= y
  PROVE  Max(S) = n
<1>1. PICK m : m = Max(S)
  OBVIOUS
<1>2. m \in S /\ \A y \in S : m >= y
  BY <1>1 DEF Max
<1>3. m >= n /\ n >= m /\ m \in Int /\ n \in Int
  BY <1>2
<1> QED BY <1>1, <1>3

LEMMA RowsFinite ==
  ASSUME ArtifactTypeOK, NEW w
  PROVE  /\ Len(versions) \in Nat /\ DOMAIN versions = 1 .. Len(versions)
         /\ IsFiniteSet(Rows(w))
         /\ Cardinality(Rows(w)) \in 0 .. Len(versions)
         /\ \A T \in SUBSET Rows(w) :
              /\ IsFiniteSet(T) /\ Cardinality(T) \in Nat
              /\ Cardinality(T) <= Cardinality(Rows(w))
<1>1. Len(versions) \in Nat /\ DOMAIN versions = 1 .. Len(versions)
  BY DEF ArtifactTypeOK
<1>2. /\ IsFiniteSet(1 .. Len(versions))
      /\ Cardinality(1 .. Len(versions)) = Len(versions)
  <2>1. PICK n \in Nat : n = Len(versions)
    BY <1>1
  <2>2. IsFiniteSet(1 .. n) /\ Cardinality(1 .. n) = IF 1 > n THEN 0 ELSE n - 1 + 1
    BY FS_Interval
  <2>3. (IF 1 > n THEN 0 ELSE n - 1 + 1) = n
    OBVIOUS
  <2> QED BY <2>1, <2>2, <2>3
<1>3. Rows(w) \in SUBSET (1 .. Len(versions))
  BY <1>1 DEF Rows, RowsOfName
<1>4. IsFiniteSet(Rows(w)) /\ Cardinality(Rows(w)) <= Len(versions)
  BY <1>2, <1>3, FS_Subset
<1>5. Cardinality(Rows(w)) \in Nat
  BY <1>4, FS_CardinalityType
<1>6. Cardinality(Rows(w)) \in 0 .. Len(versions)
  BY <1>1, <1>4, <1>5
<1>7. \A T \in SUBSET Rows(w) :
        /\ IsFiniteSet(T) /\ Cardinality(T) \in Nat
        /\ Cardinality(T) <= Cardinality(Rows(w))
  <2> SUFFICES ASSUME NEW T \in SUBSET Rows(w)
               PROVE  /\ IsFiniteSet(T) /\ Cardinality(T) \in Nat
                      /\ Cardinality(T) <= Cardinality(Rows(w))
    OBVIOUS
  <2>1. IsFiniteSet(T) /\ Cardinality(T) <= Cardinality(Rows(w))
    BY <1>4, FS_Subset
  <2> QED BY <2>1, FS_CardinalityType
<1> QED BY <1>1, <1>4, <1>6, <1>7

(* HeadVersion is MAX(version), or 0: the number of versions of the name.  *)
LEMMA HeadIsCount ==
  ASSUME VersionsInv, NEW w \in Writes
  PROVE  HeadVersion(w) = Cardinality(Rows(w))
<1> DEFINE R == Rows(w)
           S == {0} \cup {versions[k].version : k \in R}
           n == Cardinality(R)
<1>0. ArtifactTypeOK
  BY DEF VersionsInv
<1>1. n \in Nat /\ IsFiniteSet(R)
  BY <1>0, RowsFinite
<1>2. \A k \in R : versions[k].version = Cardinality({j \in R : j <= k})
  BY DEF VersionsInv, LineageInv, Lineage, Rows
<1>3. \A k \in R : versions[k].version \in Nat /\ versions[k].version <= n
  <2> SUFFICES ASSUME NEW k \in R
               PROVE  versions[k].version \in Nat /\ versions[k].version <= n
    OBVIOUS
  <2>1. {j \in R : j <= k} \in SUBSET R
    OBVIOUS
  <2> QED BY <1>0, <1>2, <2>1, RowsFinite
<1>4. n \in S
  <2>1. CASE R = {}
    BY <2>1, FS_EmptySet
  <2>2. CASE R # {}
    BY <2>2 DEF VersionsInv, LineageInv, HeadInv
  <2> QED BY <2>1, <2>2
<1>5. S \subseteq Int /\ \A y \in S : n >= y
  BY <1>1, <1>3
<1>6. HeadVersion(w) = Max(S)
  BY DEF HeadVersion, Rows
<1> HIDE DEF S, n
<1> QED BY <1>4, <1>5, <1>6, MaxIs DEF n

(* What a fresh write does to the rows of a name.                          *)
LEMMA FreshRows ==
  ASSUME VersionsInv, NEW w \in Writes, NEW head, WriteFresh(w, head)
  PROVE  LET l == Len(versions) + 1 IN
         /\ ArtifactTypeOK'
         /\ l \in Nat /\ DOMAIN versions' = 1 .. l
         /\ \A k \in 1 .. Len(versions) : versions'[k] = versions[k]
         /\ versions'[l] = NextRow(w)
         /\ NextRow(w).write = w
         /\ NextRow(w).version = Cardinality(Rows(w)) + 1
         /\ NextRow(w).parent =
              IF NextRow(w).version = 1 THEN Null ELSE NextRow(w).version - 1
         /\ \A x : Rows(x)' =
              IF x.scope = w.scope /\ x.name = w.name THEN Rows(x) \cup {l}
              ELSE Rows(x)
<1> DEFINE l == Len(versions) + 1
           n == Cardinality(Rows(w))
<1>1. ArtifactTypeOK /\ Len(versions) \in Nat /\ DOMAIN versions = 1 .. Len(versions)
  BY RowsFinite DEF VersionsInv
<1>2. HeadVersion(w) = n /\ n \in 0 .. Len(versions)
  BY <1>1, HeadIsCount, RowsFinite
<1>3. /\ versions' = Append(versions, NextRow(w)) /\ Len(versions) < MaxVersions
      /\ returned' = [returned EXCEPT ![w] = HeadVersion(w) + 1]
      /\ blobs' = blobs \cup {w.content}
  BY DEF WriteFresh
<1>4. /\ NextRow(w).write = w /\ NextRow(w).version = n + 1
      /\ NextRow(w).parent = IF n = 0 THEN Null ELSE n
  BY <1>2 DEF NextRow
<1>5. NextRow(w).parent =
        IF NextRow(w).version = 1 THEN Null ELSE NextRow(w).version - 1
  BY <1>2, <1>4
<1>6. n + 1 \in 1 .. MaxVersions /\ (n # 0 => n \in 1 .. MaxVersions)
  BY <1>1, <1>2, <1>3, WritesAssumption
<1>7. NextRow(w) \in VersionRow
  <2>1. NextRow(w) = [write |-> w, version |-> n + 1,
                      parent |-> IF n = 0 THEN Null ELSE n]
    BY <1>2 DEF NextRow
  <2> HIDE DEF n
  <2> QED BY <1>6, <2>1 DEF VersionRow
<1>8. /\ versions' \in Seq(VersionRow) /\ Len(versions') = l
      /\ DOMAIN versions' = 1 .. l
      /\ \A k \in 1 .. Len(versions) : versions'[k] = versions[k]
      /\ versions'[l] = NextRow(w)
  BY <1>1, <1>3, <1>7 DEF ArtifactTypeOK
<1>9. ArtifactTypeOK'
  <2>1. returned' \in [Writes -> 0 .. MaxVersions]
    BY <1>2, <1>3, <1>6 DEF VersionsInv, ArtifactTypeOK
  <2>2. blobs' \subseteq {x.content : x \in Writes}
    BY <1>3 DEF VersionsInv, ArtifactTypeOK
  <2>3. Len(versions') <= MaxVersions
    BY <1>1, <1>3, <1>8, WritesAssumption
  <2> QED BY <1>8, <2>1, <2>2, <2>3 DEF ArtifactTypeOK
<1>10. \A x : Rows(x)' =
         IF x.scope = w.scope /\ x.name = w.name THEN Rows(x) \cup {l}
         ELSE Rows(x)
  <2> SUFFICES ASSUME NEW x
               PROVE  Rows(x)' = IF x.scope = w.scope /\ x.name = w.name
                                 THEN Rows(x) \cup {l} ELSE Rows(x)
    OBVIOUS
  <2>1. Rows(x)' = {k \in 1 .. l : /\ versions'[k].write.scope = x.scope
                                   /\ versions'[k].write.name = x.name}
    BY <1>8 DEF Rows, RowsOfName
  <2>2. Rows(x) = {k \in 1 .. Len(versions) :
                      /\ versions[k].write.scope = x.scope
                      /\ versions[k].write.name = x.name}
    BY <1>1 DEF Rows, RowsOfName
  <2>3. 1 .. l = 1 .. Len(versions) \cup {l}
    BY <1>1
  <2>4. versions'[l].write = w
    BY <1>4, <1>8
  <2> HIDE DEF l
  <2> QED BY <1>8, <2>1, <2>2, <2>3, <2>4
<1> QED BY <1>1, <1>4, <1>5, <1>8, <1>9, <1>10

LEMMA FreshLineage ==
  ASSUME VersionsInv, NEW w \in Writes, NEW head, WriteFresh(w, head)
  PROVE  LineageInv'
<1> DEFINE l == Len(versions) + 1
<1>0. ArtifactTypeOK
  BY DEF VersionsInv
<1> SUFFICES ASSUME NEW x \in Writes
             PROVE  Lineage(x.scope, x.name)' /\ HeadInv(x)'
  BY DEF LineageInv
<1>1. Lineage(x.scope, x.name) /\ HeadInv(x)
  BY DEF VersionsInv, LineageInv
<1>2. /\ l \in Nat /\ l \notin 1 .. Len(versions)
      /\ \A k \in 1 .. Len(versions) : versions'[k] = versions[k]
      /\ Rows(x) \subseteq 1 .. Len(versions)
  <2>1. Len(versions) \in Nat /\ DOMAIN versions = 1 .. Len(versions)
    BY <1>0, RowsFinite
  <2>2. \A k \in 1 .. Len(versions) : versions'[k] = versions[k]
    BY FreshRows
  <2>3. Rows(x) \subseteq 1 .. Len(versions)
    BY <2>1 DEF Rows, RowsOfName
  <2> QED BY <2>1, <2>2, <2>3
<1>3. blobs \subseteq blobs' /\ w.content \in blobs'
  BY DEF WriteFresh
<1>4. \A k \in Rows(x) :
        /\ versions[k].version = Cardinality({j \in Rows(x) : j <= k})
        /\ versions[k].parent =
             IF versions[k].version = 1 THEN Null ELSE versions[k].version - 1
        /\ versions[k].write.content \in blobs
  BY <1>1 DEF Lineage, Rows
<1>5. CASE Rows(x)' = Rows(x)
  <2>1. \A k \in Rows(x)' :
          /\ versions'[k].version = Cardinality({j \in Rows(x)' : j <= k})
          /\ versions'[k].parent =
               IF versions'[k].version = 1 THEN Null ELSE versions'[k].version - 1
          /\ versions'[k].write.content \in blobs'
    BY <1>2, <1>3, <1>4, <1>5
  <2>2. HeadInv(x)'
    BY <1>1, <1>2, <1>5 DEF HeadInv
  <2> QED BY <2>1, <2>2 DEF Lineage, Rows
<1>6. CASE x.scope = w.scope /\ x.name = w.name
  <2>0. Rows(x) = Rows(w) /\ Rows(x)' = Rows(x) \cup {l}
    BY <1>6, FreshRows DEF Rows
  <2>1. /\ versions'[l].version = Cardinality(Rows(x)) + 1
        /\ versions'[l].parent =
             IF versions'[l].version = 1 THEN Null ELSE versions'[l].version - 1
        /\ versions'[l].write = w
    BY <2>0, FreshRows
  <2>2. /\ IsFiniteSet(Rows(x)) /\ l \notin Rows(x)
    BY <1>0, <1>2, RowsFinite
  <2>3. Cardinality(Rows(x)') = Cardinality(Rows(x)) + 1
    BY <2>0, <2>2, FS_AddElement
  <2>4. {j \in Rows(x)' : j <= l} = Rows(x)'
    BY <1>2, <2>0
  <2>5. \A k \in Rows(x) : {j \in Rows(x)' : j <= k} = {j \in Rows(x) : j <= k}
    BY <1>2, <2>0
  <2>6. ASSUME NEW k \in Rows(x)'
        PROVE  /\ versions'[k].version = Cardinality({j \in Rows(x)' : j <= k})
               /\ versions'[k].parent =
                    IF versions'[k].version = 1 THEN Null
                    ELSE versions'[k].version - 1
               /\ versions'[k].write.content \in blobs'
    <3>1. CASE k = l
      BY <1>3, <2>1, <2>3, <2>4, <3>1
    <3>2. CASE k \in Rows(x)
      BY <1>2, <1>3, <1>4, <2>5, <3>2
    <3> QED BY <2>0, <3>1, <3>2
  <2>7. HeadInv(x)'
    BY <2>0, <2>1, <2>3 DEF HeadInv
  <2> QED BY <2>6, <2>7 DEF Lineage, Rows
<1> QED BY <1>5, <1>6, FreshRows

LEMMA FreshKeys ==
  ASSUME VersionsInv, NEW w \in Writes, NEW head, WriteFresh(w, head)
  PROVE  KeysInv'
<1> DEFINE l == Len(versions) + 1
           Same(a, b) == a.scope = b.scope /\ (a.artifact = b.artifact \/ a.key = b.key)
<1>1. /\ Len(versions) \in Nat /\ DOMAIN versions = 1 .. Len(versions)
      /\ DOMAIN versions' = 1 .. l
  BY FreshRows, RowsFinite DEF VersionsInv
<1>2. /\ \A k \in 1 .. Len(versions) : versions'[k] = versions[k]
      /\ versions'[l].write = w
  BY FreshRows
<1>3. \A k \in 1 .. Len(versions) : ~Same(versions[k].write, w)
  BY <1>1 DEF WriteFresh, Existing
<1>4. \A k, j \in 1 .. Len(versions) :
        Same(versions[j].write, versions[k].write) <=> j = k
  BY <1>1 DEF VersionsInv, KeysInv, Existing
<1>5. \A k \in 1 .. l, j \in 1 .. l :
        Same(versions'[j].write, versions'[k].write) <=> j = k
  <2> SUFFICES ASSUME NEW k \in 1 .. l, NEW j \in 1 .. l
               PROVE  Same(versions'[j].write, versions'[k].write) <=> j = k
    OBVIOUS
  <2>1. (k = l \/ k \in 1 .. Len(versions)) /\ (j = l \/ j \in 1 .. Len(versions))
    BY <1>1
  <2>2. l \notin 1 .. Len(versions)
    BY <1>1
  <2> HIDE DEF l
  <2> QED BY <1>2, <1>3, <1>4, <2>1, <2>2
<1>6. \A k \in 1 .. l :
        Existing(versions[k].write)' = {j \in 1 .. l : Same(versions'[j].write, versions'[k].write)}
  BY <1>1 DEF Existing
<1> HIDE DEF l, Same
<1> QED BY <1>1, <1>5, <1>6 DEF KeysInv

LEMMA FreshReturned ==
  ASSUME VersionsInv, NEW w \in Writes, NEW head, WriteFresh(w, head)
  PROVE  ReturnedInv'
<1> SUFFICES ASSUME NEW x \in Writes, returned'[x] # 0
             PROVE  \E k \in Rows(x)' :
                      /\ versions'[k].version = returned'[x]
                      /\ versions'[k].write.key = x.key
                      /\ RequestDigest(versions'[k].write) = RequestDigest(x)
  BY DEF ReturnedInv, RequestDigest
<1>1. returned' = [returned EXCEPT ![w] = Cardinality(Rows(w)) + 1]
  BY HeadIsCount DEF WriteFresh
<1>2. returned \in [Writes -> 0 .. MaxVersions]
  BY DEF VersionsInv, ArtifactTypeOK
<1>3. CASE x = w
  BY <1>1, <1>2, <1>3, FreshRows
<1>4. CASE x # w
  <2>1. returned[x] = returned'[x] /\ returned[x] # 0
    BY <1>1, <1>2, <1>4
  <2>2. PICK k \in Rows(x) :
          /\ versions[k].version = returned[x]
          /\ versions[k].write.key = x.key
          /\ RequestDigest(versions[k].write) = RequestDigest(x)
    BY <2>1 DEF VersionsInv, ReturnedInv
  <2>3. k \in 1 .. Len(versions) /\ k \in Rows(x)'
    BY FreshRows, RowsFinite DEF VersionsInv, Rows, RowsOfName
  <2> QED BY <2>1, <2>2, <2>3, FreshRows
<1> QED BY <1>3, <1>4

LEMMA AgainStep ==
  ASSUME VersionsInv, NEW w \in Writes, WriteAgain(w)
  PROVE  VersionsInv'
<1>1. PICK k \in DOMAIN versions :
        /\ IdenticalRetry(w, k)
        /\ returned' = [returned EXCEPT ![w] = versions[k].version]
        /\ UNCHANGED <<versions, blobs>>
  BY DEF WriteAgain
<1>2. /\ versions[k] \in VersionRow
      /\ returned \in [Writes -> 0 .. MaxVersions]
  BY DEF VersionsInv, ArtifactTypeOK
<1>3. versions[k].version \in 0 .. MaxVersions
  BY <1>2, WritesAssumption DEF VersionRow
<1>4. ArtifactTypeOK'
  BY <1>1, <1>2, <1>3 DEF VersionsInv, ArtifactTypeOK
<1>5. LineageInv' /\ KeysInv'
  BY <1>1 DEF VersionsInv, LineageInv, KeysInv, Lineage, HeadInv, Rows, RowsOfName,
     Existing
<1>6. /\ versions[k].write.scope = w.scope /\ versions[k].write.name = w.name
      /\ versions[k].write.key = w.key
      /\ RequestDigest(versions[k].write) = RequestDigest(w)
  BY <1>1 DEF IdenticalRetry, RequestDigest
<1>7. k \in Rows(w)
  BY <1>6 DEF Rows, RowsOfName
<1>8. \A x \in Writes : Rows(x)' = Rows(x)
  BY <1>1 DEF Rows, RowsOfName
<1>9. ReturnedInv'
  BY <1>1, <1>2, <1>6, <1>7, <1>8 DEF VersionsInv, ReturnedInv, RequestDigest
<1> QED BY <1>4, <1>5, <1>9 DEF VersionsInv

LEMMA ArtifactStep ==
  ASSUME VersionsInv, ArtifactNext \/ UNCHANGED artifactVars
  PROVE  VersionsInv'
<1>1. ASSUME NEW w \in Writes, NEW head \in Heads, WriteFresh(w, head)
      PROVE  VersionsInv'
  BY <1>1, FreshRows, FreshLineage, FreshKeys, FreshReturned DEF VersionsInv
<1>2. CASE UNCHANGED artifactVars
  <2>1. UNCHANGED <<versions, blobs, returned>>
    BY <1>2 DEF artifactVars
  <2>2. ArtifactTypeOK'
    BY <2>1 DEF VersionsInv, ArtifactTypeOK
  <2>3. LineageInv'
    BY <2>1 DEF VersionsInv, LineageInv, Lineage, HeadInv, Rows, RowsOfName
  <2>4. KeysInv'
    BY <2>1 DEF VersionsInv, KeysInv, Existing
  <2>5. ReturnedInv'
    BY <2>1 DEF VersionsInv, ReturnedInv, Rows, RowsOfName, RequestDigest
  <2> QED BY <2>2, <2>3, <2>4, <2>5 DEF VersionsInv
<1> QED BY <1>1, <1>2, AgainStep DEF ArtifactNext

LEMMA ArtifactStart == ArtifactInit => VersionsInv
<1> SUFFICES ASSUME ArtifactInit PROVE VersionsInv
  OBVIOUS
<1>1. DOMAIN versions = {} /\ Len(versions) = 0 /\ versions \in Seq(VersionRow)
  BY DEF ArtifactInit
<1>2. LineageInv /\ KeysInv /\ ReturnedInv
  BY <1>1 DEF ArtifactInit, LineageInv, KeysInv, ReturnedInv, Lineage, HeadInv, Rows,
     RowsOfName
<1>3. ArtifactTypeOK
  BY <1>1, WritesAssumption DEF ArtifactInit, ArtifactTypeOK
<1> QED BY <1>2, <1>3 DEF VersionsInv

LEMMA InvHolds == VersionsInv => VersionsHold
<1> SUFFICES ASSUME VersionsInv PROVE VersionsHold
  OBVIOUS
<1>1. \A k \in DOMAIN versions : versions[k].write \in Writes
  <2>1. \A k \in DOMAIN versions : versions[k] \in VersionRow
    BY DEF VersionsInv, ArtifactTypeOK
  <2> QED BY <2>1 DEF VersionRow
<1> QED BY <1>1 DEF VersionsInv, LineageInv, KeysInv, ReturnedInv, VersionsHold, Rows
-----------------------------------------------------------------------------
(* Backups.  A name changes hands only when it is free.  It is freed by    *)
(* the operator, by the call that linked it, before that call has          *)
(* returned, or by a call that was about to unlink it when it was linked.  *)
(* A manifest is linked after its copy and unlinked before it.             *)

StorageSpec == StorageInit /\ [][StorageNext]_storageVars

MakersInv ==
  \A n \in {"copy", "manifest"} : entry[n] # Null => entry[n].call \in Creates

HoldsInv ==
  /\ \A n \in Names : entry[n] # Null => IsPrefix(entry[n].holds, versions)
  /\ \A b \in Calls : IsPrefix(call[b].holds, versions)

ManifestInv ==
  \A b \in Creates : Owns(b, "manifest") =>
    call[b].step \in {"published", "unlinking_manifest", "returned", "over"}

(* A call about to unlink a name that another owns was so when the other   *)
(* linked it; and without an operator a name that is about to be unlinked  *)
(* stays with the call that checked it.                                    *)
UnlinkInv ==
  /\ \A c \in Calls, n \in Names : call[c].step = Unlinking[n] =>
       /\ \A b \in Calls : b # c /\ Owns(b, n) => b \in exposed
       /\ removed = {} => Owns(c, n)
  /\ removed = {} => exposed = {}

PairInv ==
  removed = {} /\ entry["manifest"] # Null =>
    entry["copy"] # Null /\ entry["copy"].call = entry["manifest"].call

ReportedInv ==
  /\ \A b \in Creates : call[b].step = "returned" /\ b \notin removed \cup exposed =>
       Owns(b, "copy") /\ Owns(b, "manifest") /\ Verified
  /\ \A r \in Restores : call[r].step = "returned" /\ r \notin removed \cup exposed =>
       Owns(r, "destination")

FilesTypeOK ==
  /\ entry \in [Names -> Entry \cup {Null}]
  /\ call \in [Calls -> CallState]
  /\ removed \subseteq Calls
  /\ exposed \subseteq Calls

BackupInv ==
  /\ FilesTypeOK
  /\ MakersInv
  /\ HoldsInv
  /\ ManifestInv
  /\ UnlinkInv
  /\ PairInv
  /\ ReportedInv

LEMMA PrefixByIndex ==
  ASSUME NEW S, NEW h \in Seq(S), NEW v \in Seq(S)
  PROVE  IsPrefix(h, v) <=>
           Len(h) <= Len(v) /\ \A i \in 1 .. Len(h) : h[i] = v[i]
<1>1. SubSeq(h, 1, Len(h)) = h
  BY SubSeqFull
<1>2. ASSUME Len(h) <= Len(v)
      PROVE  LET t == SubSeq(v, 1, Len(h)) IN
             t \in Seq(S) /\ Len(t) = Len(h) /\ \A i \in 1 .. Len(h) : t[i] = v[i]
  BY <1>2
<1>3. ASSUME IsPrefix(h, v)
      PROVE  Len(h) <= Len(v) /\ \A i \in 1 .. Len(h) : h[i] = v[i]
  BY <1>1, <1>2, <1>3 DEF IsPrefix
<1>4. ASSUME Len(h) <= Len(v), \A i \in 1 .. Len(h) : h[i] = v[i]
      PROVE  IsPrefix(h, v)
  <2>1. SubSeq(v, 1, Len(h)) = h
    BY <1>2, <1>4
  <2> QED BY <1>1, <1>4, <2>1 DEF IsPrefix
<1> QED BY <1>3, <1>4

(* What was a state of the file is one of its past for good.               *)
LEMMA PastKept ==
  ASSUME VersionsInv, ArtifactNext \/ UNCHANGED artifactVars,
         NEW h \in Seq(VersionRow), IsPrefix(h, versions)
  PROVE  IsPrefix(h, versions')
<1>1. versions \in Seq(VersionRow)
  BY DEF VersionsInv, ArtifactTypeOK
<1>2. ASSUME NEW w \in Writes, NEW head \in Heads, WriteFresh(w, head)
      PROVE  IsPrefix(h, versions')
  <2>1. /\ Len(versions) \in Nat
        /\ DOMAIN versions' = 1 .. Len(versions) + 1
        /\ \A k \in 1 .. Len(versions) : versions'[k] = versions[k]
        /\ ArtifactTypeOK'
    BY <1>2, FreshRows, RowsFinite DEF VersionsInv
  <2>2. versions' \in Seq(VersionRow)
    BY <2>1 DEF ArtifactTypeOK
  <2>3. Len(versions') = Len(versions) + 1
    BY <1>1, <1>2 DEF WriteFresh
  <2>4. Len(h) <= Len(versions) /\ \A i \in 1 .. Len(h) : h[i] = versions[i]
    BY <1>1, PrefixByIndex
  <2>5. Len(h) <= Len(versions') /\ \A i \in 1 .. Len(h) : h[i] = versions'[i]
    BY <2>1, <2>3, <2>4
  <2> QED BY <2>2, <2>5, PrefixByIndex
<1>3. versions' = versions => IsPrefix(h, versions')
  OBVIOUS
<1> QED BY <1>2, <1>3 DEF ArtifactNext, WriteAgain, artifactVars

LEMMA NowIsPast ==
  ASSUME VersionsInv
  PROVE  IsPrefix(versions, versions) /\ IsPrefix(<<>>, versions)
<1>1. versions \in Seq(VersionRow) /\ <<>> \in Seq(VersionRow)
  BY DEF VersionsInv, ArtifactTypeOK
<1>2. IsPrefix(versions, versions)
  BY <1>1 DEF IsPrefix
<1>3. IsPrefix(<<>>, versions)
  <2>1. PICK e \in Seq(VersionRow) : e = <<>> /\ Len(e) = 0
    BY EmptySeq
  <2>2. Len(e) <= Len(versions) /\ \A i \in 1 .. Len(e) : e[i] = versions[i]
    BY <1>1, <2>1
  <2>3. IsPrefix(e, versions)
    BY <1>1, <2>2, PrefixByIndex
  <2> QED BY <2>1, <2>3
<1> QED BY <1>2, <1>3

(* Writers go on: no name and no call changes.                             *)
LEMMA WritersKeep ==
  ASSUME VersionsInv, BackupInv, ArtifactNext \/ UNCHANGED artifactVars,
         UNCHANGED backupVars
  PROVE  BackupInv'
<1>1. UNCHANGED <<entry, call, removed, exposed>>
  BY DEF backupVars
<1>2. /\ \A n \in Names : entry[n] # Null => entry[n].holds \in Seq(VersionRow)
      /\ \A b \in Calls : call[b].holds \in Seq(VersionRow)
  <2>1. \A n \in Names : entry[n] # Null => entry[n] \in Entry
    BY DEF BackupInv, FilesTypeOK
  <2>2. \A b \in Calls : call[b] \in CallState
    BY DEF BackupInv, FilesTypeOK
  <2> QED BY <2>1, <2>2 DEF Entry, CallState
<1>3. HoldsInv'
  BY <1>1, <1>2, PastKept DEF BackupInv, HoldsInv
<1> QED BY <1>1, <1>3 DEF BackupInv, FilesTypeOK, MakersInv, ManifestInv, UnlinkInv,
        PairInv, ReportedInv, Owns, Verified

LEMMA UnlinkingSteps ==
  /\ Unlinking["copy"] = "unlinking_copy"
  /\ Unlinking["manifest"] = "unlinking_manifest"
  /\ Unlinking["destination"] = "unlinking_destination"
  /\ \A n \in Names : /\ Unlinking[n] \in CallSteps
                      /\ Unlinking[n] \notin {"new", "copied", "linked", "published",
                                              "undoing", "returned", "over"}
<1>1. /\ Unlinking["copy"] = "unlinking_copy"
      /\ Unlinking["manifest"] = "unlinking_manifest"
      /\ Unlinking["destination"] = "unlinking_destination"
  BY DEF Unlinking, Names
<1> QED BY <1>1 DEF CallSteps, Names

(* What a call that goes on does to the calls.                             *)
LEMMA MovesTo ==
  ASSUME FilesTypeOK, NEW b \in Calls, NEW step \in CallSteps, Moves(b, step)
  PROVE  /\ call' \in [Calls -> CallState]
         /\ call'[b].step = step /\ call'[b].holds = call[b].holds
         /\ \A c \in Calls \ {b} : call'[c] = call[c]
<1>1. call[b] \in CallState
  BY DEF FilesTypeOK
<1>2. PICK new : new = [call[b] EXCEPT !.step = step]
  OBVIOUS
<1>3. new \in CallState /\ new.step = step /\ new.holds = call[b].holds
  BY <1>1, <1>2 DEF CallState
<1>4. call' = [call EXCEPT ![b] = new]
  BY <1>2 DEF Moves
<1> QED BY <1>3, <1>4 DEF FilesTypeOK

LEMMA UndoesTo ==
  ASSUME FilesTypeOK, NEW b \in Calls, NEW step \in CallSteps, Undoes(b, step)
  PROVE  /\ call' \in [Calls -> CallState]
         /\ call'[b].step = step /\ call'[b].holds = <<>>
         /\ \A c \in Calls \ {b} : call'[c] = call[c]
<1>1. PICK new : new = New
  OBVIOUS
<1>2. new \in CallState /\ new.holds = <<>>
  BY <1>1, EmptySeq DEF New, CallState, CallSteps
<1>3. PICK undone : undone = [new EXCEPT !.step = step]
  OBVIOUS
<1>4. undone \in CallState /\ undone.step = step /\ undone.holds = <<>>
  BY <1>2, <1>3 DEF CallState
<1>5. call' = [call EXCEPT ![b] = undone]
  BY <1>1, <1>3 DEF Undoes
<1> QED BY <1>4, <1>5 DEF FilesTypeOK

LEMMA LinkEntry ==
  ASSUME FilesTypeOK, NEW b \in Calls, NEW n \in Names, Link(b, n)
  PROVE  /\ entry' \in [Names -> Entry \cup {Null}]
         /\ entry[n] = Null /\ entry'[n] # Null
         /\ entry'[n].call = b /\ entry'[n].holds = call[b].holds
         /\ \A m \in Names \ {n} : entry'[m] = entry[m]
<1>1. call[b] \in CallState
  BY DEF FilesTypeOK
<1>2. PICK new : new = [call |-> b, holds |-> call[b].holds]
  OBVIOUS
<1>3. new \in Entry /\ new.call = b /\ new.holds = call[b].holds
  BY <1>1, <1>2 DEF Entry, CallState
<1>4. new # Null
  BY <1>3, CallsAssumption DEF Entry, Calls
<1>5. entry[n] = Null /\ entry' = [entry EXCEPT ![n] = new]
  BY <1>2 DEF Link
<1> QED BY <1>3, <1>4, <1>5 DEF FilesTypeOK

(* A step of one call touches one name, if any: it links it when it is     *)
(* free, or unlinks it when it was about to.                               *)
Touches(b, n) ==
  /\ versions' = versions /\ removed' = removed
  /\ exposed \subseteq exposed'
  /\ call[b].step # "returned"
  /\ \A c \in Calls \ {b} : call'[c] = call[c]
  /\ IsPrefix(call'[b].holds, versions)
  /\ \A m \in Names \ {n} : entry'[m] = entry[m]
  /\ \/ entry'[n] = entry[n] /\ exposed' = exposed
     \/ call[b].step = Unlinking[n] /\ entry'[n] = Null /\ exposed' = exposed
     \/ /\ entry[n] = Null /\ entry'[n] # Null /\ entry'[n].call = b
        /\ entry'[n].holds = call[b].holds
        /\ n # "destination" => b \in Creates
        /\ exposed' = IF \E c \in Calls : call[c].step = Unlinking[n]
                      THEN exposed \cup {b} ELSE exposed

(* What such a step keeps: the past, the makers, and what other calls have *)
(* reported.                                                               *)
LEMMA OthersKeep ==
  ASSUME BackupInv, NEW b \in Calls, NEW n \in Names, Touches(b, n)
  PROVE  /\ MakersInv' /\ HoldsInv'
         /\ \A c \in Creates : c # b =>
              (/\ Owns(c, "manifest") =>
                    call[c].step \in {"published", "unlinking_manifest", "returned",
                                      "over"}
               /\ call[c].step = "returned" /\ c \notin removed \cup exposed =>
                    Owns(c, "copy") /\ Owns(c, "manifest") /\ Verified)'
         /\ \A r \in Restores : r # b =>
              (call[r].step = "returned" /\ r \notin removed \cup exposed =>
                 Owns(r, "destination"))'
<1> USE DEF BackupInv, Names, Touches
<1>1. MakersInv'
  BY DEF MakersInv
<1>2. HoldsInv'
  BY DEF HoldsInv
<1>3. ASSUME NEW c \in Creates, c # b
      PROVE  (Owns(c, "manifest") =>
                call[c].step \in {"published", "unlinking_manifest", "returned",
                                  "over"})'
  BY <1>3 DEF ManifestInv, Owns, Calls
<1>4. ASSUME NEW c \in Calls, c # b, c \notin exposed', NEW m \in Names, Owns(c, m)
      PROVE  entry'[m] = entry[m]
  <2>1. m = n => call[b].step # Unlinking[n]
    BY <1>4 DEF UnlinkInv
  <2>2. entry[m] # Null
    BY <1>4 DEF Owns
  <2> QED BY <2>1, <2>2
<1>5. ASSUME NEW c \in Creates, c # b,
             (call[c].step = "returned" /\ c \notin removed \cup exposed)'
      PROVE  (Owns(c, "copy") /\ Owns(c, "manifest") /\ Verified)'
  <2>1. Owns(c, "copy") /\ Owns(c, "manifest") /\ Verified
    BY <1>5 DEF ReportedInv, Calls
  <2>2. entry'["copy"] = entry["copy"] /\ entry'["manifest"] = entry["manifest"]
    BY <1>4, <1>5, <2>1 DEF Calls
  <2> QED BY <2>1, <2>2 DEF Owns, Verified
<1>6. ASSUME NEW r \in Restores, r # b,
             (call[r].step = "returned" /\ r \notin removed \cup exposed)'
      PROVE  Owns(r, "destination")'
  <2>1. Owns(r, "destination")
    BY <1>6 DEF ReportedInv, Calls
  <2>2. entry'["destination"] = entry["destination"]
    BY <1>4, <1>6, <2>1 DEF Calls
  <2> QED BY <2>1, <2>2 DEF Owns
<1> QED BY <1>1, <1>2, <1>3, <1>5, <1>6

(* Whoever starts to unlink owns the name at that instant.                 *)
LEMMA UnlinkKept ==
  ASSUME BackupInv, NEW b \in Calls, NEW n \in Names, Touches(b, n),
         \A m \in Names : call'[b].step = Unlinking[m] => Owns(b, m)'
  PROVE  UnlinkInv'
<1> USE DEF Touches
<1>1. ASSUME NEW c \in Calls, NEW m \in Names, call'[c].step = Unlinking[m],
             NEW d \in Calls, d # c, Owns(d, m)'
      PROVE  d \in exposed'
  <2>1. c # b
    BY <1>1 DEF Owns
  <2>2. call[c].step = Unlinking[m]
    BY <1>1, <2>1
  <2>3. CASE Owns(d, m)
    BY <1>1, <2>2, <2>3 DEF BackupInv, UnlinkInv
  <2>4. CASE ~Owns(d, m)
    <3>1. m = n /\ d = b /\ exposed' = exposed \cup {b}
      BY <1>1, <2>2, <2>4 DEF Owns
    <3> QED BY <3>1
  <2> QED BY <2>3, <2>4
<1>2. ASSUME removed' = {}, NEW c \in Calls, NEW m \in Names,
             call'[c].step = Unlinking[m], c # b
      PROVE  Owns(c, m)'
  <2>1. call[c].step = Unlinking[m] /\ removed = {}
    BY <1>2
  <2>2. Owns(c, m) /\ exposed = {}
    BY <2>1 DEF BackupInv, UnlinkInv
  <2>3. m = n => call[b].step # Unlinking[n]
    BY <1>2, <2>1, <2>2 DEF BackupInv, UnlinkInv
  <2>4. entry'[m] = entry[m]
    BY <2>2, <2>3 DEF Owns
  <2> QED BY <2>2, <2>4 DEF Owns
<1>3. ASSUME removed' = {}
      PROVE  exposed' = {}
  <2>1. removed = {} /\ exposed = {}
    BY <1>3 DEF BackupInv, UnlinkInv
  <2>2. entry[n] = Null => ~\E c \in Calls : call[c].step = Unlinking[n]
    BY <2>1 DEF BackupInv, UnlinkInv, Owns
  <2> QED BY <2>1, <2>2
<1>4. ASSUME NEW c \in Calls, NEW m \in Names, call'[c].step = Unlinking[m],
             removed' = {}
      PROVE  Owns(c, m)'
  BY <1>2, <1>4
<1> QED BY <1>1, <1>3, <1>4 DEF UnlinkInv

(* With what the step does to its own call and to the pair of names.       *)
LEMMA CallStep ==
  ASSUME BackupInv, NEW b \in Calls, NEW n \in Names, Touches(b, n),
         FilesTypeOK', PairInv',
         \A m \in Names : call'[b].step = Unlinking[m] => Owns(b, m)',
         b \in Creates /\ Owns(b, "manifest")' =>
           call'[b].step \in {"published", "unlinking_manifest", "over"},
         call'[b].step # "returned"
  PROVE  BackupInv'
<1>1. ManifestInv' /\ ReportedInv'
  BY OthersKeep DEF ManifestInv, ReportedInv
<1>2. UnlinkInv'
  BY UnlinkKept
<1> QED BY <1>1, <1>2, OthersKeep DEF BackupInv

(* The two halves of _unlink_owned_entry.                                  *)
LEMMA CheckStep ==
  ASSUME VersionsInv, BackupInv, versions' = versions,
         NEW b \in Calls, NEW n \in Names,
         NEW after \in {"undoing", "over"},
         call[b].step \in {"linked", "published", "undoing"},
         n # "manifest" => ~(b \in Creates /\ Owns(b, "manifest")),
         UnlinkOwned(b, n, after), UNCHANGED <<entry, removed, exposed>>
  PROVE  BackupInv'
<1>0. FilesTypeOK /\ UnlinkOwned(b, n, after)
  BY DEF BackupInv
<1>1. PICK step : step = IF Owns(b, n) THEN Unlinking[n] ELSE after
  OBVIOUS
<1>2. step \in CallSteps /\ Undoes(b, step)
  BY <1>0, <1>1, UnlinkingSteps DEF UnlinkOwned, CallSteps
<1>3. /\ call' \in [Calls -> CallState]
      /\ call'[b].step = step /\ call'[b].holds = <<>>
      /\ \A c \in Calls \ {b} : call'[c] = call[c]
  BY <1>0, <1>2, UndoesTo
<1>4. Touches(b, n) /\ FilesTypeOK' /\ PairInv'
  BY <1>0, <1>3, NowIsPast DEF Touches, FilesTypeOK, BackupInv, PairInv
<1>5. ASSUME NEW m \in Names, step = Unlinking[m]
      PROVE  Owns(b, m)'
  <2>1. Owns(b, n) /\ m = n
    BY <1>1, <1>5, UnlinkingSteps DEF Names
  <2> QED BY <2>1 DEF Owns
<1>6. b \in Creates /\ Owns(b, "manifest")' =>
        step \in {"published", "unlinking_manifest", "over"}
  <2>1. ASSUME b \in Creates, Owns(b, "manifest")'
        PROVE  step = "unlinking_manifest"
    <3>1. Owns(b, "manifest")
      BY <2>1 DEF Owns
    <3> QED BY <1>1, <2>1, <3>1, UnlinkingSteps
  <2> QED BY <2>1
<1>7. step # "returned"
  BY <1>1, UnlinkingSteps
<1> QED BY <1>3, <1>4, <1>5, <1>6, <1>7, CallStep

LEMMA UnlinkStep ==
  ASSUME VersionsInv, BackupInv, versions' = versions,
         NEW b \in Calls, NEW n \in Names,
         NEW after \in {"undoing", "over"}, Unlink(b, n, after)
  PROVE  BackupInv'
<1>0. FilesTypeOK /\ after \in CallSteps /\ Undoes(b, after)
  BY DEF BackupInv, CallSteps, Unlink
<1>1. /\ call' \in [Calls -> CallState]
      /\ call'[b].step = after /\ call'[b].holds = <<>>
      /\ \A c \in Calls \ {b} : call'[c] = call[c]
  BY <1>0, UndoesTo
<1>2. /\ entry' \in [Names -> Entry \cup {Null}] /\ entry'[n] = Null
      /\ \A m \in Names \ {n} : entry'[m] = entry[m]
      /\ call[b].step = Unlinking[n]
      /\ removed' = removed /\ exposed' = exposed
  BY <1>0 DEF Unlink, FilesTypeOK
<1>3. Touches(b, n) /\ FilesTypeOK'
  BY <1>0, <1>1, <1>2, NowIsPast, UnlinkingSteps DEF Touches, FilesTypeOK
<1>4. ~Owns(b, "manifest")' \/ b \notin Creates
  <2>1. n # "manifest" => ~Owns(b, "manifest") \/ b \notin Creates
    BY <1>2, UnlinkingSteps DEF BackupInv, ManifestInv, Names
  <2> QED BY <1>2, <2>1 DEF Owns, Names
<1>5. PairInv'
  <2>1. ASSUME removed = {}, n = "copy", entry["manifest"] # Null
        PROVE  FALSE
    <3>1. Owns(b, "copy") /\ entry["copy"].call = entry["manifest"].call
      BY <1>2, <2>1 DEF BackupInv, UnlinkInv, PairInv
    <3>2. Owns(b, "manifest") /\ b \in Creates
      BY <2>1, <3>1 DEF Owns, BackupInv, MakersInv
    <3>3. call[b].step = "unlinking_copy"
      BY <1>2, <2>1, UnlinkingSteps
    <3> QED BY <3>2, <3>3 DEF BackupInv, ManifestInv
  <2>2. n \in {"manifest", "destination"} => PairInv'
    BY <1>2 DEF PairInv, BackupInv, Names
  <2>3. n = "copy" => PairInv'
    BY <1>2, <2>1 DEF PairInv, Names
  <2> QED BY <2>2, <2>3 DEF Names
<1>6. \A m \in Names : call'[b].step # Unlinking[m]
  BY <1>1, UnlinkingSteps
<1>7. call'[b].step # "returned"
  BY <1>1
<1> QED BY <1>3, <1>4, <1>5, <1>6, <1>7, CallStep

(* A call that gives up before it has linked anything, or dies.            *)
LEMMA StopStep ==
  ASSUME VersionsInv, BackupInv, versions' = versions, NEW b \in Calls,
         call[b].step \notin {"new", "returned", "over"},
         Undoes(b, "over"), UNCHANGED <<entry, removed, exposed>>
  PROVE  BackupInv'
<1>0. FilesTypeOK /\ "over" \in CallSteps /\ "copy" \in Names
  BY DEF BackupInv, CallSteps, Names
<1>1. /\ call' \in [Calls -> CallState]
      /\ call'[b].step = "over" /\ call'[b].holds = <<>>
      /\ \A c \in Calls \ {b} : call'[c] = call[c]
  BY <1>0, UndoesTo
<1>2. Touches(b, "copy") /\ FilesTypeOK' /\ PairInv'
  BY <1>0, <1>1, NowIsPast DEF Touches, FilesTypeOK, BackupInv, PairInv
<1>3. \A m \in Names : call'[b].step # Unlinking[m]
  BY <1>1, UnlinkingSteps
<1> QED BY <1>0, <1>1, <1>2, <1>3, CallStep

LEMMA CreateStep ==
  ASSUME VersionsInv, BackupInv, UNCHANGED artifactVars, NEW b \in Creates,
         \/ CopyDatabase(b) \/ LinkCopy(b) \/ LinkManifest(b)
         \/ ReturnManifest(b) \/ UndoCreate(b)
  PROVE  BackupInv'
<1>0. /\ FilesTypeOK /\ b \in Calls /\ call[b] \in CallState
      /\ versions \in Seq(VersionRow) /\ versions' = versions
      /\ IsPrefix(call[b].holds, versions)
      /\ "copy" \in Names /\ "manifest" \in Names /\ "destination" \in Names
  BY DEF BackupInv, FilesTypeOK, Calls, VersionsInv, ArtifactTypeOK, HoldsInv, Names,
     artifactVars
<1>1. CASE CopyDatabase(b)
  <2>1. PICK new : new = [call[b] EXCEPT !.step = "copied", !.holds = versions]
    OBVIOUS
  <2>2. new \in CallState /\ new.step = "copied" /\ new.holds = versions
    BY <1>0, <2>1 DEF CallState, CallSteps
  <2>3. call' = [call EXCEPT ![b] = new]
    BY <1>1, <2>1 DEF CopyDatabase
  <2>4. call' \in [Calls -> CallState] /\ call'[b] = new
        /\ \A c \in Calls \ {b} : call'[c] = call[c]
    BY <1>0, <2>2, <2>3 DEF FilesTypeOK
  <2>5. Touches(b, "copy")
    BY <1>0, <1>1, <2>2, <2>4, NowIsPast DEF Touches, CopyDatabase
  <2>6. FilesTypeOK' /\ PairInv'
    BY <1>0, <1>1, <2>4 DEF FilesTypeOK, BackupInv, PairInv, CopyDatabase
  <2>7. ~Owns(b, "manifest")' /\ \A m \in Names : call'[b].step # Unlinking[m]
    BY <1>1, <2>2, <2>4, UnlinkingSteps DEF CopyDatabase, Owns
  <2> QED BY <1>0, <2>2, <2>4, <2>5, <2>6, <2>7, CallStep
<1>2. CASE LinkCopy(b)
  <2>1. Link(b, "copy") /\ Moves(b, "linked") /\ call[b].step = "copied"
    BY <1>2 DEF LinkCopy
  <2>2. "linked" \in CallSteps
    BY DEF CallSteps
  <2>3. /\ call' \in [Calls -> CallState]
        /\ call'[b].step = "linked" /\ call'[b].holds = call[b].holds
        /\ \A c \in Calls \ {b} : call'[c] = call[c]
    BY <1>0, <2>1, <2>2, MovesTo
  <2>4. Touches(b, "copy") /\ FilesTypeOK'
    BY <1>0, <2>1, <2>3, LinkEntry DEF Touches, FilesTypeOK, Link
  <2>5. PairInv'
    BY <1>0, <2>1, LinkEntry DEF PairInv, BackupInv, Names, Link
  <2>6. ~Owns(b, "manifest")'
    BY <1>0, <2>1, LinkEntry DEF BackupInv, ManifestInv, Owns, Names
  <2>7. \A m \in Names : call'[b].step # Unlinking[m]
    BY <2>3, UnlinkingSteps
  <2> QED BY <1>0, <2>3, <2>4, <2>5, <2>6, <2>7, CallStep
<1>3. CASE LinkManifest(b)
  <2>1. /\ Link(b, "manifest") /\ Moves(b, "published")
        /\ call[b].step = "linked" /\ Owns(b, "copy")
    BY <1>3 DEF LinkManifest
  <2>2. "published" \in CallSteps
    BY DEF CallSteps
  <2>3. /\ call' \in [Calls -> CallState]
        /\ call'[b].step = "published" /\ call'[b].holds = call[b].holds
        /\ \A c \in Calls \ {b} : call'[c] = call[c]
    BY <1>0, <2>1, <2>2, MovesTo
  <2>4. Touches(b, "manifest") /\ FilesTypeOK'
    BY <1>0, <2>1, <2>3, LinkEntry DEF Touches, FilesTypeOK, Link
  <2>5. PairInv'
    BY <1>0, <2>1, LinkEntry DEF PairInv, Owns, Names
  <2>6. \A m \in Names : call'[b].step # Unlinking[m]
    BY <2>3, UnlinkingSteps
  <2> QED BY <1>0, <2>3, <2>4, <2>5, <2>6, CallStep
<1>4. CASE ReturnManifest(b)
  <2>1. /\ Moves(b, "returned") /\ UNCHANGED <<entry, removed, exposed>> /\ Verified
        /\ call[b].step = "published" /\ Owns(b, "copy") /\ Owns(b, "manifest")
    BY <1>4 DEF ReturnManifest
  <2>2. "returned" \in CallSteps
    BY DEF CallSteps
  <2>3. /\ call' \in [Calls -> CallState]
        /\ call'[b].step = "returned" /\ call'[b].holds = call[b].holds
        /\ \A c \in Calls \ {b} : call'[c] = call[c]
    BY <1>0, <2>1, <2>2, MovesTo
  <2>4. Touches(b, "copy") /\ FilesTypeOK' /\ PairInv'
    BY <1>0, <2>1, <2>3 DEF Touches, FilesTypeOK, BackupInv, PairInv
  <2>5. (Owns(b, "copy") /\ Owns(b, "manifest") /\ Verified)'
    BY <2>1 DEF Owns, Verified
  <2>6. b \notin Restores
    BY CallsAssumption
  <2>7. ManifestInv' /\ ReportedInv'
    BY <1>0, <2>3, <2>4, <2>5, <2>6, OthersKeep DEF ManifestInv, ReportedInv
  <2>8. UnlinkInv'
    BY <1>0, <2>3, <2>4, UnlinkingSteps, UnlinkKept
  <2> QED BY <1>0, <2>4, <2>7, <2>8, OthersKeep DEF BackupInv
<1>5. CASE UndoCreate(b)
  <2>1. CASE call[b].step = "copied" /\ Undoes(b, "over")
             /\ UNCHANGED <<entry, removed, exposed>>
    BY <1>0, <2>1, StopStep
  <2>2. CASE call[b].step = "published" /\ UnlinkOwned(b, "manifest", "undoing")
             /\ UNCHANGED <<entry, removed, exposed>>
    BY <1>0, <2>2, CheckStep
  <2>3. CASE call[b].step \in {"linked", "undoing"} /\ UnlinkOwned(b, "copy", "over")
             /\ UNCHANGED <<entry, removed, exposed>>
    <3>1. ~Owns(b, "manifest")
      BY <2>3 DEF BackupInv, ManifestInv
    <3> QED BY <1>0, <2>3, <3>1, CheckStep
  <2>4. CASE Unlink(b, "manifest", "undoing") \/ Unlink(b, "copy", "over")
    BY <1>0, <2>4, UnlinkStep
  <2> QED BY <1>5, <2>1, <2>2, <2>3, <2>4 DEF UndoCreate
<1> QED BY <1>1, <1>2, <1>3, <1>4, <1>5

LEMMA RestoreStep ==
  ASSUME VersionsInv, BackupInv, UNCHANGED artifactVars, NEW r \in Restores,
         \/ OpenBackup(r) \/ LinkDestination(r)
         \/ ReturnRestored(r) \/ UndoRestore(r)
  PROVE  BackupInv'
<1>0. /\ FilesTypeOK /\ r \in Calls /\ call[r] \in CallState /\ r \notin Creates
      /\ versions' = versions
      /\ IsPrefix(call[r].holds, versions)
      /\ "copy" \in Names /\ "manifest" \in Names /\ "destination" \in Names
  BY CallsAssumption DEF BackupInv, FilesTypeOK, Calls, HoldsInv, Names,
     artifactVars
<1>1. CASE OpenBackup(r)
  <2>1. PICK new : new = [step |-> "copied", holds |-> entry["copy"].holds,
                          opened |-> <<entry["copy"].call, entry["manifest"].call>>]
    OBVIOUS
  <2>2. /\ entry["copy"] # Null /\ entry["manifest"] # Null
        /\ entry["copy"] \in Entry
        /\ entry["copy"].call \in Creates /\ entry["manifest"].call \in Creates
    BY <1>0, <1>1 DEF OpenBackup, Verified, BackupInv, FilesTypeOK, MakersInv
  <2>3. new \in CallState /\ new.step = "copied" /\ new.holds = entry["copy"].holds
    BY <2>1, <2>2 DEF CallState, Entry, CallSteps
  <2>4. call' = [call EXCEPT ![r] = new] /\ UNCHANGED <<entry, removed, exposed>>
        /\ call[r].step = "new"
    BY <1>1, <2>1 DEF OpenBackup
  <2>5. call' \in [Calls -> CallState] /\ call'[r] = new
        /\ \A c \in Calls \ {r} : call'[c] = call[c]
    BY <1>0, <2>3, <2>4 DEF FilesTypeOK
  <2>6. IsPrefix(new.holds, versions)
    BY <1>0, <2>2, <2>3 DEF BackupInv, HoldsInv
  <2>7. Touches(r, "destination") /\ FilesTypeOK' /\ PairInv'
    BY <1>0, <2>4, <2>5, <2>6 DEF Touches, FilesTypeOK, BackupInv, PairInv
  <2>8. \A m \in Names : call'[r].step # Unlinking[m]
    BY <2>3, <2>5, UnlinkingSteps
  <2> QED BY <1>0, <2>3, <2>5, <2>7, <2>8, CallStep
<1>2. CASE LinkDestination(r)
  <2>1. Link(r, "destination") /\ Moves(r, "linked") /\ call[r].step = "copied"
    BY <1>2 DEF LinkDestination
  <2>2. "linked" \in CallSteps
    BY DEF CallSteps
  <2>3. /\ call' \in [Calls -> CallState]
        /\ call'[r].step = "linked" /\ call'[r].holds = call[r].holds
        /\ \A c \in Calls \ {r} : call'[c] = call[c]
    BY <1>0, <2>1, <2>2, MovesTo
  <2>4. Touches(r, "destination") /\ FilesTypeOK'
    BY <1>0, <2>1, <2>3, LinkEntry DEF Touches, FilesTypeOK, Link
  <2>5. PairInv'
    BY <1>0, <2>1, LinkEntry DEF PairInv, BackupInv, Names, Link
  <2>6. \A m \in Names : call'[r].step # Unlinking[m]
    BY <2>3, UnlinkingSteps
  <2> QED BY <1>0, <2>3, <2>4, <2>5, <2>6, CallStep
<1>3. CASE ReturnRestored(r)
  <2>1. PICK new : new = [call[r] EXCEPT !.step = "returned", !.opened = Null]
    OBVIOUS
  <2>2. new \in CallState /\ new.step = "returned" /\ new.holds = call[r].holds
    BY <1>0, <2>1 DEF CallState, CallSteps
  <2>3. /\ call' = [call EXCEPT ![r] = new] /\ UNCHANGED <<entry, removed, exposed>>
        /\ call[r].step = "linked" /\ Owns(r, "destination")
    BY <1>3, <2>1 DEF ReturnRestored
  <2>4. call' \in [Calls -> CallState] /\ call'[r] = new
        /\ \A c \in Calls \ {r} : call'[c] = call[c]
    BY <1>0, <2>2, <2>3 DEF FilesTypeOK
  <2>5. Touches(r, "destination") /\ FilesTypeOK' /\ PairInv'
    BY <1>0, <2>2, <2>3, <2>4 DEF Touches, FilesTypeOK, BackupInv, PairInv
  <2>6. Owns(r, "destination")'
    BY <2>3 DEF Owns
  <2>7. ManifestInv' /\ ReportedInv'
    BY <1>0, <2>5, <2>6, OthersKeep DEF ManifestInv, ReportedInv
  <2>8. UnlinkInv'
    BY <1>0, <2>2, <2>4, <2>5, UnlinkingSteps, UnlinkKept
  <2> QED BY <1>0, <2>5, <2>7, <2>8, OthersKeep DEF BackupInv
<1>4. CASE UndoRestore(r)
  <2>1. CASE call[r].step = "copied" /\ Undoes(r, "over")
             /\ UNCHANGED <<entry, removed, exposed>>
    BY <1>0, <2>1, StopStep
  <2>2. CASE call[r].step = "linked" /\ UnlinkOwned(r, "destination", "over")
             /\ UNCHANGED <<entry, removed, exposed>>
    BY <1>0, <2>2, CheckStep
  <2>3. CASE Unlink(r, "destination", "over")
    BY <1>0, <2>3, UnlinkStep
  <2> QED BY <1>4, <2>1, <2>2, <2>3 DEF UndoRestore
<1> QED BY <1>1, <1>2, <1>3, <1>4

LEMMA OutsideStep ==
  ASSUME VersionsInv, BackupInv, UNCHANGED artifactVars,
         (\E b \in Calls : Die(b)) \/ (\E n \in Names : RemoveFile(n))
  PROVE  BackupInv'
<1>0. FilesTypeOK /\ versions' = versions
  BY DEF BackupInv, artifactVars
<1>1. ASSUME NEW b \in Calls, Die(b)
      PROVE  BackupInv'
  BY <1>0, <1>1, StopStep DEF Die
<1>2. ASSUME NEW n \in Names, RemoveFile(n)
      PROVE  BackupInv'
  <2>1. /\ entry[n] # Null /\ entry' = [entry EXCEPT ![n] = Null]
        /\ removed' = removed \cup {entry[n].call}
        /\ call' = call /\ exposed' = exposed
    BY <1>2 DEF RemoveFile
  <2>2. entry[n] \in Entry
    BY <1>0, <2>1 DEF FilesTypeOK
  <2>3. FilesTypeOK'
    BY <1>0, <2>1, <2>2 DEF FilesTypeOK, Entry
  <2>4. entry'[n] = Null /\ \A m \in Names \ {n} : entry'[m] = entry[m]
    BY <1>0, <2>1 DEF FilesTypeOK
  <2>5. MakersInv' /\ HoldsInv' /\ ManifestInv'
    BY <1>0, <2>1, <2>4 DEF BackupInv, MakersInv, HoldsInv, ManifestInv, Owns, Names
  <2>6. removed' # {}
    BY <2>1
  <2>7. UnlinkInv'
    BY <2>1, <2>4, <2>6 DEF BackupInv, UnlinkInv, Owns
  <2>8. \A b \in Calls, m \in Names : b \notin removed' /\ Owns(b, m) =>
          entry'[m] = entry[m]
    BY <2>1, <2>4 DEF Owns
  <2>9. ASSUME NEW b \in Creates, call'[b].step = "returned",
               b \notin removed' \cup exposed'
        PROVE  (Owns(b, "copy") /\ Owns(b, "manifest") /\ Verified)'
    <3>1. Owns(b, "copy") /\ Owns(b, "manifest") /\ Verified
      BY <2>1, <2>9 DEF BackupInv, ReportedInv
    <3>2. entry'["copy"] = entry["copy"] /\ entry'["manifest"] = entry["manifest"]
      BY <2>8, <2>9, <3>1 DEF Names, Calls
    <3> QED BY <3>1, <3>2 DEF Owns, Verified
  <2>10. ASSUME NEW r \in Restores, call'[r].step = "returned",
                r \notin removed' \cup exposed'
         PROVE  Owns(r, "destination")'
    <3>1. Owns(r, "destination")
      BY <2>1, <2>10 DEF BackupInv, ReportedInv
    <3> QED BY <2>8, <2>10, <3>1 DEF Names, Calls, Owns
  <2>11. ReportedInv'
    BY <2>9, <2>10 DEF ReportedInv
  <2> QED BY <2>3, <2>5, <2>6, <2>7, <2>11 DEF BackupInv, PairInv
<1> QED BY <1>1, <1>2

LEMMA StorageStep ==
  ASSUME VersionsInv, BackupInv, [StorageNext]_storageVars
  PROVE  VersionsInv' /\ BackupInv'
<1>1. CASE (ArtifactNext \/ UNCHANGED artifactVars) /\ UNCHANGED backupVars
  BY <1>1, ArtifactStep, WritersKeep
<1>2. CASE BackupNext /\ UNCHANGED artifactVars
  BY <1>2, ArtifactStep, CreateStep, RestoreStep, OutsideStep DEF BackupNext
<1> QED BY <1>1, <1>2 DEF StorageNext, storageVars

LEMMA StorageStart == StorageInit => VersionsInv /\ BackupInv
<1> SUFFICES ASSUME StorageInit PROVE VersionsInv /\ BackupInv
  OBVIOUS
<1>1. VersionsInv
  BY ArtifactStart DEF StorageInit
<1>2. New \in CallState /\ New.step = "new" /\ New.holds = <<>>
  BY EmptySeq DEF New, CallState, CallSteps
<1>3. FilesTypeOK
  BY <1>2 DEF StorageInit, FilesTypeOK
<1>4. \A n \in Names : entry[n] = Null
  BY DEF StorageInit
<1>5. \A b \in Calls : call[b].step = "new" /\ IsPrefix(call[b].holds, versions)
  BY <1>1, <1>2, NowIsPast DEF StorageInit
<1>6. MakersInv /\ HoldsInv /\ ManifestInv /\ PairInv
  BY <1>4, <1>5 DEF MakersInv, HoldsInv, ManifestInv, PairInv, Owns, Names
<1>7. ReportedInv
  BY <1>5 DEF ReportedInv, Calls
<1>8. UnlinkInv
  BY <1>5, UnlinkingSteps DEF UnlinkInv, StorageInit
<1> QED BY <1>1, <1>3, <1>6, <1>7, <1>8 DEF BackupInv

(* However writes with shared keys and artifact ids race and are retried   *)
(* after a COMMIT that landed and raised, in whatever scopes: a version    *)
(* that was returned is there for good and is of its request, and every    *)
(* scope passes verify_scope.                                              *)
THEOREM VersionsAreHeld == StorageSpec => []VersionsHold
BY StorageStart, StorageStep, InvHolds, PTL DEF StorageSpec

(* Whatever calls of create and restore on the same names overlap, raise   *)
(* or die, while writers commit and an operator removes files: a backup    *)
(* that was reported stays, unless it was linked in the window between     *)
(* another call's check of its entry and its unlink, which takes an        *)
(* operator; what verifies is a past of the database; and without one the  *)
(* litter of a dead call never verifies against another's files.           *)
THEOREM BackupsAreHeld == StorageSpec => []BackupsHold
<1>1. BackupInv => BackupsHold
  BY DEF BackupInv, ReportedInv, HoldsInv, UnlinkInv, PairInv, BackupsHold, Verified,
     Names
<1> QED BY <1>1, StorageStart, StorageStep, PTL DEF StorageSpec
=============================================================================
