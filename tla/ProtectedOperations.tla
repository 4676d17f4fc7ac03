------------------------- MODULE ProtectedOperations -------------------------
(***************************************************************************)
(* Protected operations: request contexts (request_context.py) and the     *)
(* composer and registry of authorized operations                          *)
(* (operation_authorization.py), over the authorizer of Capabilities.      *)
(*                                                                         *)
(* Threads of one process call issue, authorize, consume and retire; each  *)
(* step is what one call does under a lock or at one boundary it calls out *)
(* to (the authenticator, the state provider, the authorizer, the clock).  *)
(* Authorizers of other processes move the revocation mark, and the        *)
(* service clock may show any time whenever it is read.  A process that    *)
(* dies takes its contexts, handles and key ring with it; the mark stays,  *)
(* and is what the others left.                                            *)
(***************************************************************************)
EXTENDS Capabilities, FiniteSetsExt

CONSTANTS
  Threads,
  Contexts,       \* request contexts, each issued at most once
  Operations,     \* operation handles, each issued at most once
  Requests,       \* access requests [scope, subject, action, resource]
  Members,        \* what a provider may say of the member
  Rings,          \* contents of the key ring: [Kids -> KeyStatus \cup {None}]
  ContextTtl,     \* max_context_ttl
  OperationTtl,   \* operation_ttl
  StateAge,       \* max_state_age
  MaxContexts,    \* max_active_contexts
  MaxOperations,  \* max_active_operations
  MaxTime         \* bound on the service clock

(* What the constructors of the issuer, the composer with its registry,    *)
(* members and requests accept.                                            *)
IssuerLimits == ContextTtl \in Nat \ {0} /\ MaxContexts \in Nat \ {0}

ComposerLimits ==
  /\ OperationTtl \in Nat \ {0} /\ StateAge \in Nat \ {0}
  /\ MaxOperations \in Nat \ {0}

MemberSound(m) == m # None => m.active \in BOOLEAN /\ IsFiniteSet(m.grants)

RequestSound(r) == DOMAIN r = {"scope", "subject", "action", "resource"}

ASSUME OperationsAssumption ==
  /\ IssuerLimits /\ ComposerLimits
  /\ \A m \in Members : MemberSound(m)
  /\ \A r \in Requests : RequestSound(r)
  /\ MaxTime \in Nat
  /\ Rings \subseteq [Kids -> KeyStatus \cup {None}]

VARIABLES
  contexts,     \* the issuer's contexts: None, or a row; forgotten if not live
  issuerSeen,   \* the issuer's last_observed_at
  operations,   \* the registry's operations: None, or a row
  registrySeen, \* the registry's last_observed_at
  closed,       \* which of the issuer and the composer are closed
  thread,       \* the call each thread is in
  uses          \* history: the contexts and requests an operation was used for

issuerVars == <<contexts, issuerSeen>>
registryVars == <<operations, registrySeen, uses>>
vars == <<ringVars, guardVars, issuerVars, registryVars, closed, thread>>

-----------------------------------------------------------------------------
Times == 0 .. MaxTime
Revisions == {-1} \cup {s.revision : s \in Snapshots}
Scopes == {r.scope : r \in Requests}

ContextRow == [scope : Scopes, expires : Times, live : BOOLEAN]
OperationRow ==
  [context : Contexts, request : Requests, expires : Times, live : BOOLEAN]

(* None is no row. *)
ASSUME RowAssumption == None \notin ContextRow /\ None \notin OperationRow

Steps == {"idle", "authenticating", "checking", "prepared", "observed",
          "decided", "allowed", "refreshed"}

Call ==
  [step : Steps,
   scope : Scopes \cup {None},             \* of the context being issued
   operation : Operations \cup {None},     \* None in authorize
   context : Contexts \cup {None},
   request : Requests \cup {None},
   expires : Times \cup {None},            \* basis.context_expires_at
   at : Times \cup {None},                 \* the last reading of a clock
   observed : Times \cup {None},           \* state.observed_at
   evaluated : Times \cup {None},          \* decision.evaluated_at
   evidence : Envelopes \cup {Role, None},
   judged : Revisions,                     \* history of consume: its revision
   floor : Revisions]                      \* and the mark when it was called

Idle ==
  [step |-> "idle", scope |-> None, operation |-> None, context |-> None,
   request |-> None, expires |-> None, at |-> None, observed |-> None,
   evaluated |-> None, evidence |-> None, judged |-> -1, floor |-> -1]

TypeOK ==
  /\ CapabilityTypeOK
  /\ issuerSeen \in Times /\ registrySeen \in Times
  /\ contexts \in [Contexts -> ContextRow \cup {None}]
  /\ operations \in [Operations -> OperationRow \cup {None}]
  /\ closed \subseteq {"issuer", "composer"}
  /\ thread \in [Threads -> Call]
  /\ uses \in [Operations -> Seq(Contexts \X Requests)]

Init ==
  /\ keys = [k \in Kids |-> "active"]
  /\ retired = {} /\ dead = {}
  /\ guard = None /\ judged = {}
  /\ issuerSeen = 0 /\ registrySeen = 0
  /\ contexts = [c \in Contexts |-> None]
  /\ operations = [o \in Operations |-> None]
  /\ closed = {}
  /\ thread = [t \in Threads |-> Idle]
  /\ uses = [o \in Operations |-> <<>>]

-----------------------------------------------------------------------------
(* The service clock shows any time.  One that went back within the skew   *)
(* reads as the high-water mark; beyond it the call fails.                 *)
Readings(seen) == {Max({seen, x}) : x \in {y \in Times : seen - y <= Skew}}

Live(rows) == {x \in DOMAIN rows : rows[x] # None /\ rows[x].live}

(* _prune, and the removal of one row.                                     *)
Pruned(rows, now) ==
  [x \in DOMAIN rows |->
     IF x \in Live(rows) /\ rows[x].expires <= now
     THEN [rows[x] EXCEPT !.live = FALSE] ELSE rows[x]]

Without(rows, gone) ==
  [x \in DOMAIN rows |->
     IF x \in gone /\ rows[x] # None
     THEN [rows[x] EXCEPT !.live = FALSE] ELSE rows[x]]

Goes(t, call) == thread' = [thread EXCEPT ![t] = call]

(* Whatever raises -- a closed object, a clock that regressed, the         *)
(* authenticator, the provider, the authorizer -- ends the call.  A step   *)
(* that reads a clock and then refuses keeps the reading, and is part of   *)
(* the action that reads.                                                  *)
Fail(t) ==
  /\ thread[t].step # "idle"
  /\ Goes(t, Idle)
  /\ UNCHANGED <<ringVars, guardVars, issuerVars, registryVars, closed>>

-----------------------------------------------------------------------------
(* RequestContextIssuer: issue reserves a place, authenticates without the *)
(* lock, and registers the context if the issuer is still open.            *)
Pending == {t \in Threads : thread[t].step = "authenticating"}

IssueBegin(t, scope, now) ==
  LET rows == Pruned(contexts, now) IN
  /\ thread[t].step = "idle"
  /\ "issuer" \notin closed
  /\ issuerSeen' = now
  /\ contexts' = rows
  /\ IF Cardinality(Live(rows)) + Cardinality(Pending) < MaxContexts
     THEN Goes(t, [Idle EXCEPT !.step = "authenticating", !.scope = scope])
     ELSE UNCHANGED thread
  /\ UNCHANGED <<ringVars, guardVars, registryVars, closed>>

IssueEnd(t, c, expires, now) ==
  LET rows == Pruned(contexts, now) IN
  /\ thread[t].step = "authenticating"
  /\ "issuer" \notin closed
  /\ issuerSeen' = now
  /\ contexts[c] = None
  /\ contexts' =
       IF /\ Cardinality(Live(rows)) < MaxContexts
          /\ expires > now /\ expires - now <= ContextTtl
       THEN [rows EXCEPT ![c] =
               [scope |-> thread[t].scope, expires |-> expires, live |-> TRUE]]
       ELSE rows
  /\ Goes(t, Idle)
  /\ UNCHANGED <<ringVars, guardVars, registryVars, closed>>

RetireContext(c) ==
  /\ "issuer" \notin closed
  /\ c \in Live(contexts)
  /\ contexts' = Without(contexts, {c})
  /\ UNCHANGED <<ringVars, guardVars, issuerSeen, registryVars, closed,
                 thread>>

CloseIssuer ==
  /\ closed' = closed \cup {"issuer"}
  /\ contexts' = Without(contexts, Contexts)
  /\ UNCHANGED <<ringVars, guardVars, issuerSeen, registryVars, thread>>

BasisMatches(c, r) == contexts[c].scope = r.scope

(* prepare_reauthorization: the basis of a live context whose scope is the *)
(* request's, else a refusal; a context found expired is forgotten.        *)
Prepare(t, c, r, now, call) ==
  /\ "issuer" \notin closed
  /\ contexts[c] # None
  /\ issuerSeen' = now
  /\ IF /\ contexts[c].live /\ contexts[c].expires > now
        /\ BasisMatches(c, r)
     THEN Goes(t, [call EXCEPT !.at = now, !.expires = contexts[c].expires])
     ELSE Goes(t, Idle)
  /\ contexts' = Without(contexts, {x \in {c} : contexts[x].expires <= now})

-----------------------------------------------------------------------------
(* authorize and consume begin alike; consume checks its handle first.     *)
Begin(t, o, c, r, now) ==
  /\ thread[t].step = "idle"
  /\ "composer" \notin closed
  /\ Prepare(t, c, r, now,
       [Idle EXCEPT !.step = IF o = None THEN "prepared" ELSE "checking",
                    !.operation = o, !.context = c, !.request = r,
                    !.floor = IF o = None \/ guard = None THEN -1
                              ELSE guard.revision])
  /\ UNCHANGED <<ringVars, guardVars, registryVars, closed>>

(* The registry is read at one instant of its own clock.                   *)
RegistryReads(now) ==
  /\ "composer" \notin closed
  /\ registrySeen' = now

(* Mutant: the request is not compared with the one that was authorized. *)
MatchesContext(t) == operations[thread[t].operation].context = thread[t].context

Matches(t) ==
  LET row == operations[thread[t].operation] IN
  row.context = thread[t].context /\ row.request = thread[t].request

(* The handle of the call: live and matching, or refused and, when it has  *)
(* expired, forgotten.                                                     *)
HandleGood(t, now) ==
  /\ thread[t].operation \in Live(operations)
  /\ operations[thread[t].operation].expires > now
  /\ Matches(t)

HandleRefused(t, now) ==
  /\ ~HandleGood(t, now)
  /\ operations' = Without(operations,
       {o \in {thread[t].operation} : operations[o].expires <= now})
  /\ Goes(t, Idle)
  /\ UNCHANGED uses

(* Mutant: a handle that matches needs no current authorization. *)
CheckOnly(t, now) ==
  /\ thread[t].step = "checking"
  /\ RegistryReads(now)
  /\ \/ /\ HandleGood(t, now)
        /\ operations' = Pruned(operations, now)
        /\ Goes(t, [thread[t] EXCEPT !.step = "allowed"])
        /\ UNCHANGED uses
     \/ HandleRefused(t, now)
  /\ UNCHANGED <<ringVars, guardVars, issuerVars, closed>>

(* check_request.                                                          *)
Check(t, now) ==
  /\ thread[t].step = "checking"
  /\ RegistryReads(now)
  /\ \/ /\ HandleGood(t, now)
        /\ operations' = Pruned(operations, now)
        /\ Goes(t, [thread[t] EXCEPT !.step = "prepared"])
        /\ UNCHANGED uses
     \/ HandleRefused(t, now)
  /\ UNCHANGED <<ringVars, guardVars, issuerVars, closed>>

(* _evaluate_current_authorization: a reading before the state is loaded,  *)
(* the provider's state judged by the authorizer, and a reading after.     *)
Observe(t, now) ==
  /\ thread[t].step = "prepared"
  /\ RegistryReads(now)
  /\ Goes(t, IF thread[t].at <= now + Skew /\ thread[t].expires > now
             THEN [thread[t] EXCEPT !.step = "observed", !.at = now]
             ELSE Idle)
  /\ UNCHANGED <<ringVars, guardVars, issuerVars, operations, uses,
                 closed>>

(* What a state provider may answer.                                       *)
States ==
  [member : Members, snapshot : Snapshots, captured : Times, observed : Times,
   envelopes : {{}} \cup {{e} : e \in Envelopes}]

Evaluate(t) ==
  /\ thread[t].step = "observed"
  /\ \E state \in States, now \in Times :
       /\ state.observed <= thread[t].at + Skew
       /\ thread[t].at - state.observed < StateAge
       /\ Decide(thread[t].request, state, now)
       /\ \E x \in Outcomes(thread[t].request, state, "service", now) :
            Goes(t, [thread[t] EXCEPT
                     !.step = "decided", !.observed = state.observed,
                     !.evaluated = now, !.evidence = x, !.at = None,
                     !.judged = IF x = None \/ thread[t].operation = None
                                THEN -1 ELSE state.snapshot.revision])
  /\ UNCHANGED <<ringVars, issuerVars, registryVars, closed>>

Allow(t, now) ==
  LET call == thread[t] IN
  /\ call.step = "decided"
  /\ RegistryReads(now)
  /\ Goes(t, IF /\ call.expires > now
                /\ now - call.observed < StateAge
                /\ call.evaluated <= now + Skew
                /\ now - call.evaluated <= Skew
                /\ call.evidence # None
             THEN [call EXCEPT !.step = "allowed", !.at = now,
                               !.evaluated = None, !.evidence = None]
             ELSE Idle)
  /\ UNCHANGED <<ringVars, guardVars, issuerVars, operations, uses,
                 closed>>

(* The end of authorize: registry.issue.                                   *)
Binding(t, expiry) ==
  [context |-> thread[t].context, request |-> thread[t].request,
   expires |-> expiry, live |-> TRUE]

Register(t, o, now) ==
  LET rows == Pruned(operations, now)
      expiry == Min({thread[t].at + OperationTtl, thread[t].expires,
                     thread[t].observed + StateAge}) IN
  /\ thread[t].step = "allowed" /\ thread[t].operation = None
  /\ RegistryReads(now)
  /\ operations[o] = None
  /\ operations' = IF /\ expiry > now /\ expiry - now <= OperationTtl
                     /\ Cardinality(Live(rows)) < MaxOperations
                   THEN [rows EXCEPT ![o] = Binding(t, expiry)] ELSE rows
  /\ Goes(t, Idle)
  /\ UNCHANGED <<ringVars, guardVars, issuerVars, uses, closed>>

(* The end of consume: the context is prepared again, and consume_request  *)
(* checks the handle again and retires it.                                 *)
SameBasis(t) == contexts[thread[t].context].expires = thread[t].expires

Refresh(t, now) ==
  /\ thread[t].step = "allowed" /\ thread[t].operation # None
  /\ SameBasis(t)
  /\ Prepare(t, thread[t].context, thread[t].request, now,
             [thread[t] EXCEPT !.step = "refreshed"])
  /\ UNCHANGED <<ringVars, guardVars, registryVars, closed>>

Consume(t, now) ==
  LET o == thread[t].operation IN
  /\ thread[t].step = "refreshed"
  /\ RegistryReads(now)
  /\ \/ /\ HandleGood(t, now)
        /\ operations' = Pruned(Without(operations, {o}), now)
        /\ uses' = [uses EXCEPT ![o] =
                      Append(@, <<thread[t].context, thread[t].request>>)]
        /\ Goes(t, Idle)
     \/ HandleRefused(t, now)
  /\ UNCHANGED <<ringVars, guardVars, issuerVars, closed>>

Retire(o) ==
  /\ "composer" \notin closed
  /\ o \in Live(operations)
  /\ operations' = Without(operations, {o})
  /\ UNCHANGED <<ringVars, guardVars, issuerVars, registrySeen, uses,
                 closed, thread>>

CloseComposer ==
  /\ closed' = closed \cup {"composer"}
  /\ operations' = Without(operations, Operations)
  /\ UNCHANGED <<ringVars, guardVars, issuerVars, registrySeen, uses,
                 thread>>

-----------------------------------------------------------------------------
Rotate(ring) ==
  /\ ReplaceKeys(ring)
  /\ UNCHANGED <<guardVars, issuerVars, registryVars, closed, thread>>

(* An authorizer of another process decides by a snapshot of its replica.  *)
DecideElsewhere(s) ==
  /\ Accepted(s)
  /\ guard' = s
  /\ judged' = judged \cup {s}
  /\ UNCHANGED <<ringVars, issuerVars, registryVars, closed, thread>>

Issued == {o \in Operations : operations[o] # None}

ThreadStep(t) ==
  \/ Fail(t)
  \/ \E now \in Readings(issuerSeen) :
       \/ \E s \in Scopes : IssueBegin(t, s, now)
       \/ \E c \in Contexts, x \in Times : IssueEnd(t, c, x, now)
       \/ \E o \in Issued \cup {None}, c \in Contexts, r \in Requests :
            Begin(t, o, c, r, now)
       \/ Refresh(t, now)
  \/ \E now \in Readings(registrySeen) :
       \/ Check(t, now) \/ Observe(t, now) \/ Allow(t, now) \/ Consume(t, now)
       \/ \E o \in Operations : Register(t, o, now)
  \/ Evaluate(t)

Next ==
  \/ \E t \in Threads : ThreadStep(t)
  \/ \E c \in Contexts : RetireContext(c)
  \/ \E o \in Operations : Retire(o)
  \/ CloseIssuer \/ CloseComposer
  \/ \E ring \in Rings : Rotate(ring)
  \/ \E s \in Snapshots : DecideElsewhere(s)

Spec == Init /\ [][Next]_vars

-----------------------------------------------------------------------------
(* A handle is used once, by the context and for the request it was        *)
(* authorized for, and the registries never outgrow their limits, however  *)
(* calls of several threads interleave (consume_request, issue).           *)
UsedAsAuthorized ==
  /\ \A o \in Operations :
       uses[o] # <<>> =>
         uses[o] = <<<<operations[o].context, operations[o].request>>>>
  /\ Cardinality(Live(operations)) <= MaxOperations
  /\ Cardinality(Live(contexts)) + Cardinality(Pending) <= MaxContexts

(* What a step does when it uses a handle.                                 *)
UsesCurrently ==
  /\ registrySeen' >= registrySeen /\ issuerSeen' >= issuerSeen
  /\ \A o \in Operations : uses'[o] # uses[o] =>
       /\ operations[o].live /\ registrySeen' < operations[o].expires
       /\ \E t \in Threads :
            /\ thread[t].operation = o /\ thread'[t] = Idle
            /\ thread[t].judged # -1
            /\ thread[t].judged >= thread[t].floor

(* A use is judged by the revocations of its own time: consume, called     *)
(* when some authorizer of some process had decided by a snapshot, is      *)
(* allowed by that snapshot or a later one, whatever the handle was issued *)
(* under, and within the life of the handle; and no clock that goes back   *)
(* revives a handle or a context (_consume).                               *)
UseIsCurrent == [][UsesCurrently]_vars

(* What a step that decides by a capability has found.                     *)
DecidesByAuthority ==
  \A t \in Threads :
    LET e == thread'[t].evidence IN
    thread[t].step = "observed" /\ thread'[t].step = "decided"
      /\ e \in Envelopes =>
      /\ KeyOf[e.kids[1]].root
      /\ guard' # None
      /\ \A k \in DOMAIN e.claims :
           /\ Covers(e.claims[k], thread[t].request)
           /\ e.claims[k].from <= thread'[t].evaluated
           /\ thread'[t].evaluated < e.claims[k].to
           /\ e.kids[k] \notin dead
           /\ RevocationId(e.claims[k]) \notin guard'.revoked

(* A capability allows a request only if every claim of its chain covers   *)
(* it now, a root key of the tenant and keys that never died prove it, and *)
(* the snapshot that is the mark at that instant revokes no claim of it    *)
(* (evaluate, validate_delegation, replace_keys).                          *)
AllowedByAuthority == [][DecidesByAuthority]_vars
=============================================================================
