----------------------------- MODULE Projections -----------------------------
(***************************************************************************)
(* Durable projections (projections.py): workers that read the event log   *)
(* in batches, bring each event to the current schema and let a handler    *)
(* write it to read-model tables, in one transaction with the event's      *)
(* receipt and the projection's offset.  Ownership is a lease with an      *)
(* epoch; two workers, possibly two incarnations under one owner_id, may   *)
(* both believe they own the projection.                                   *)
(*                                                                         *)
(* One projection over the log of EventStore.  The code compares clocks    *)
(* with the lease deadline only to ask whether the lease still runs, so    *)
(* time is the flag offset.live that Expire clears: a worker's clock that  *)
(* runs ahead is an Expire followed by its claim.                          *)
(***************************************************************************)
EXTENDS EventStore

CONSTANTS
  Workers,     \* processes or threads that call run_once
  Owners,      \* owner ids
  MaxVersion,  \* bound on schema versions
  BatchLimit,  \* limit of run_once
  MaxEpoch     \* bound on owner_epoch

Types == {e.type : e \in DomainEvents}

ASSUME ProjectionAssumption ==
  /\ MaxVersion \in Nat \ {0}
  /\ BatchLimit \in Nat \ {0}
  /\ MaxEpoch \in Nat \ {0}
  /\ \A e \in DomainEvents : e.schema \in 1 .. MaxVersion /\ e.sound \in BOOLEAN

VARIABLES
  current,    \* registry: current version of each event type, 0 if unknown
  upcasters,  \* registry: the (type, from_version) upcasters
  sealed,     \* registry: registration is over
  offset,     \* projection_offsets: the row of the projection
  receipts,   \* projection_receipts: (event id, position) pairs
  readModel,  \* the handler's tables: what was written, in commit order
  skipped,    \* history: positions the offset was moved past without a handler
  owner,      \* the owner_id each worker was started with
  worker      \* the local variables of run_once in each worker

registryVars == <<current, upcasters, sealed>>
storeVars == <<offset, receipts, readModel, skipped>>
projectionVars == <<registryVars, storeVars, owner, worker>>

-----------------------------------------------------------------------------
Offset ==
  [position : 0 .. MaxEvents, owner : Owners \cup {None},
   epoch : 0 .. MaxEpoch, live : BOOLEAN]

Steps == {"idle", "claimed", "loaded", "batch", "renewed", "releasing"}
Worker ==
  [step : Steps, epoch : 0 .. MaxEpoch, last : 0 .. MaxEvents,
   upto : 0 .. MaxEvents]

Resting == [step |-> "idle", epoch |-> 0, last |-> 0, upto |-> 0]

ProjectionTypeOK ==
  /\ LogTypeOK
  /\ current \in [Types -> 0 .. MaxVersion]
  /\ upcasters \subseteq Types \X (1 .. MaxVersion)
  /\ sealed \in BOOLEAN
  /\ offset \in Offset
  /\ receipts \subseteq {e.id : e \in DomainEvents} \X Positions
  /\ readModel \in Seq([position : Positions, version : 1 .. MaxVersion])
  /\ skipped \subseteq Positions
  /\ owner \in [Workers -> Owners]
  /\ worker \in [Workers -> Worker]

NothingProjected ==
  /\ current = [t \in Types |-> 0]
  /\ upcasters = {}
  /\ sealed = FALSE
  /\ offset = [position |-> 0, owner |-> None, epoch |-> 0, live |-> FALSE]
  /\ receipts = {}
  /\ readModel = <<>>
  /\ skipped = {}
  /\ owner \in [Workers -> Owners]
  /\ worker = [w \in Workers |-> Resting]

ProjectionInit == LogInit /\ NothingProjected

-----------------------------------------------------------------------------
(* The schema registry: open until sealed, and sealed only when every      *)
(* registered type has an upcaster for each version below its current one. *)
RegisterEventType(t, v) ==
  /\ ~sealed
  /\ current[t] = 0
  /\ current' = [current EXCEPT ![t] = v]
  /\ UNCHANGED <<upcasters, sealed, logVars, storeVars, owner, worker>>

RegisterUpcaster(t, v) ==
  /\ ~sealed
  /\ v < current[t]
  /\ <<t, v>> \notin upcasters
  /\ upcasters' = upcasters \cup {<<t, v>>}
  /\ UNCHANGED <<current, sealed, logVars, storeVars, owner, worker>>

Seal ==
  /\ ~sealed
  /\ \A t \in Types, v \in 1 .. MaxVersion :
       v < current[t] => <<t, v>> \in upcasters
  /\ sealed' = TRUE
  /\ UNCHANGED <<current, upcasters, logVars, storeVars, owner, worker>>

(* An event's payload is a bounded tree of JSON values and its schema      *)
(* version a positive integer (sound).                                     *)
PayloadSound(e) == e.sound

(* upcast: every step from the stored version to the current one exists.   *)
Upcastable(e) ==
  /\ current[e.type] # 0
  /\ PayloadSound(e)
  /\ e.schema <= current[e.type]
  /\ \A v \in e.schema .. current[e.type] - 1 : <<e.type, v>> \in upcasters

-----------------------------------------------------------------------------
(* Mutant: a lease is recognised by its owner alone. *)
HoldsByOwner(w) ==
  /\ worker[w].epoch # 0
  /\ offset.owner = owner[w]
  /\ offset.live

(* The worker's lease is the live one, of its owner and epoch.             *)
Holds(w) ==
  /\ worker[w].epoch # 0
  /\ offset.owner = owner[w]
  /\ offset.epoch = worker[w].epoch
  /\ offset.live

Claimable(w) ==
  /\ ~(offset.live /\ offset.owner # owner[w])
  /\ offset.epoch < MaxEpoch

Goes(w, step) == worker' = [worker EXCEPT ![w].step = step]

(* claim: the first claim inserts the row; a later one takes an expired    *)
(* lease, or fences the older incarnation of its own owner_id.  A claim    *)
(* that raises before or after its COMMIT leaves run_once before the try.  *)
ClaimOffset(w) ==
  /\ sealed
  /\ worker[w].step = "idle"
  /\ Claimable(w)
  /\ offset' = [offset EXCEPT !.owner = owner[w], !.epoch = @ + 1,
                              !.live = TRUE]
  /\ worker' \in
       {worker, [worker EXCEPT ![w] = [Resting EXCEPT !.step = "claimed",
                                                      !.epoch = offset.epoch + 1]]}
  /\ UNCHANGED <<logVars, registryVars, receipts, readModel, skipped, owner>>

LoadOffset(w) ==
  /\ worker[w].step = "claimed"
  /\ worker' = [worker EXCEPT ![w].step = "loaded", ![w].last = offset.position]
  /\ UNCHANGED <<logVars, registryVars, storeVars, owner>>

(* read_all and _validate_source_batch: the next rows, without a gap.      *)
ReadBatch(w) ==
  /\ worker[w].step = "loaded"
  /\ worker' = [worker EXCEPT
       ![w].step = "batch",
       ![w].upto = Max({worker[w].last,
                        Min({worker[w].last + BatchLimit, Len(log)})})]
  /\ UNCHANGED <<logVars, registryVars, storeVars, owner>>

(* renew extends the deadline of a lease that is still held, and raises    *)
(* otherwise.                                                              *)
RenewLease(w) ==
  /\ worker[w].step = "batch"
  /\ worker[w].last < worker[w].upto
  /\ Goes(w, IF Holds(w) THEN "renewed" ELSE "releasing")
  /\ UNCHANGED <<logVars, registryVars, storeVars, owner>>

-----------------------------------------------------------------------------
Receipted(p) == \E r \in receipts : r[1] = log[p].event.id

(* A receipted event that agrees with the log and the offset.              *)
Deduplicated(w, p) ==
  /\ Holds(w)
  /\ <<log[p].event.id, p>> \in receipts
  /\ offset.position >= p

(* Mutant: the offset is not compared with the expected one. *)
ApplicableAtAnyOffset(w, p, expected) ==
  /\ Holds(w)
  /\ ~Receipted(p)
  /\ p > expected
  /\ \A r \in receipts : r[2] # p

(* An event that may be applied by the lease of w at its expected offset.  *)
Applicable(w, p, expected) ==
  /\ Holds(w)
  /\ ~Receipted(p)
  /\ offset.position = expected
  /\ p > expected
  /\ \A r \in receipts : r[2] # p

(* apply_event: handler, receipt and offset in one transaction.            *)
ApplyEvent(p) ==
  /\ readModel' = Append(readModel,
                         [position |-> p, version |-> current[log[p].event.type]])
  /\ receipts' = receipts \cup {<<log[p].event.id, p>>}
  /\ skipped' = skipped \cup (offset.position + 1 .. p - 1)
  /\ offset' = [offset EXCEPT !.position = p]

(* run_once applies the next event of its batch.  Whatever raises -- the   *)
(* upcast, the handler, a lost lease, the compare-and-swap, a COMMIT that  *)
(* landed or not -- ends the run.                                          *)
ApplyNext(w) ==
  LET p == worker[w].last + 1 IN
  /\ worker[w].step = "renewed"
  /\ \/ /\ Upcastable(log[p].event)
        /\ Applicable(w, p, worker[w].last)
        /\ ApplyEvent(p)
        /\ worker' \in {[worker EXCEPT ![w].step = "batch", ![w].last = p],
                        [worker EXCEPT ![w].step = "releasing"]}
     \/ /\ Upcastable(log[p].event)
        /\ Deduplicated(w, p)
        /\ worker' = [worker EXCEPT ![w].step = "batch",
                                    ![w].last = offset.position]
        /\ UNCHANGED storeVars
     \/ /\ Goes(w, "releasing")
        /\ UNCHANGED storeVars
  /\ UNCHANGED <<logVars, registryVars, owner>>

EndBatch(w) ==
  /\ worker[w].step = "batch"
  /\ worker[w].last >= worker[w].upto
  /\ Goes(w, "releasing")
  /\ UNCHANGED <<logVars, registryVars, storeVars, owner>>

(* release, in the finally block: a lease already lost is left alone.      *)
ReleaseLease(w) ==
  /\ worker[w].step = "releasing"
  /\ offset' = [offset EXCEPT !.live = @ /\ ~Holds(w)]
  /\ worker' = [worker EXCEPT ![w] = Resting]
  /\ UNCHANGED <<logVars, registryVars, receipts, readModel, skipped, owner>>

(* The store's public operations, called with the lease by another part of *)
(* the worker's process: apply_event of any event at any expected offset,  *)
(* and advance, which moves the offset without a handler.                  *)
ApplyDirectly(w, p, expected) ==
  /\ worker[w].step = "batch"
  /\ p <= Len(log)
  /\ Upcastable(log[p].event)
  /\ Applicable(w, p, expected)
  /\ ApplyEvent(p)
  /\ UNCHANGED <<logVars, registryVars, owner, worker>>

Advance(w, expected, position) ==
  /\ worker[w].step = "batch"
  /\ Holds(w)
  /\ offset.position = expected
  /\ position > expected
  /\ offset' = [offset EXCEPT !.position = position]
  /\ skipped' = skipped \cup (expected + 1 .. position)
  /\ UNCHANGED <<logVars, registryVars, receipts, readModel, owner, worker>>

(* A worker dies; a worker started later has the same owner_id.            *)
Crash(w) ==
  /\ worker[w].step # "idle"
  /\ worker' = [worker EXCEPT ![w] = Resting]
  /\ UNCHANGED <<logVars, registryVars, storeVars, owner>>

Expire ==
  /\ offset.live
  /\ offset' = [offset EXCEPT !.live = FALSE]
  /\ UNCHANGED <<logVars, registryVars, receipts, readModel, skipped, owner,
                 worker>>

(* The log's writers; the other operations of EventStore leave nothing a    *)
(* projection reads.                                                       *)
AppendElsewhere ==
  /\ \E e \in DomainEvents : AppendEvent(e, None, None)
  /\ UNCHANGED <<registryVars, storeVars, owner, worker>>

WorkerStep(w) ==
  \/ ClaimOffset(w) \/ LoadOffset(w) \/ ReadBatch(w) \/ RenewLease(w)
  \/ ApplyNext(w) \/ EndBatch(w) \/ ReleaseLease(w)

ProjectionNext ==
  \/ AppendElsewhere
  \/ \E t \in Types, v \in 1 .. MaxVersion :
       RegisterEventType(t, v) \/ RegisterUpcaster(t, v)
  \/ Seal
  \/ \E w \in Workers : WorkerStep(w) \/ Crash(w)
  \/ \E w \in Workers, p \in Positions, x \in 0 .. MaxEvents :
       ApplyDirectly(w, p, x) \/ Advance(w, x, p)
  \/ Expire

ProjectionSpec ==
  ProjectionInit /\ [][ProjectionNext]_<<logVars, projectionVars>>

-----------------------------------------------------------------------------
(* The read model is the log up to the offset: every event once, in log    *)
(* order and at the current version of its type, except those a caller     *)
(* moved the offset past with advance or by presenting a later event.      *)
(* This holds across takeovers, crashes and lost COMMIT answers.           *)
ReadModelIsPrefix ==
  /\ \A i, j \in DOMAIN readModel :
       i < j => readModel[i].position < readModel[j].position
  /\ {readModel[i].position : i \in DOMAIN readModel}
       = (1 .. offset.position) \ skipped
  /\ \A i \in DOMAIN readModel :
       readModel[i].version = current[log[readModel[i].position].event.type]

(* Who may move the offset in a step, and which way.                       *)
OffsetMoves ==
  /\ offset'.position >= offset.position
  /\ offset'.epoch >= offset.epoch
  /\ receipts \subseteq receipts'
  /\ offset'.position # offset.position =>
       /\ offset'.epoch = offset.epoch
       /\ \E w \in Workers :
            /\ worker[w].epoch = offset.epoch
            /\ \A v \in Workers : worker[v].epoch = offset.epoch => v = w

(* A worker that was fenced stays fenced: once another claim has raised    *)
(* the epoch, no later step of the old incarnation moves the offset, and   *)
(* the offset, its epoch and the receipts never go back.                   *)
FencedForGood == [][OffsetMoves]_<<logVars, projectionVars>>
=============================================================================
