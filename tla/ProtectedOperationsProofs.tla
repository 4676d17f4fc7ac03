----------------------- MODULE ProtectedOperationsProofs -----------------------
(***************************************************************************)
(* Proofs about protected operations and the authorizer they are judged by *)
(* (ProtectedOperations, Capabilities), for any threads, contexts, handles,*)
(* keys, chains of capabilities, snapshots and limits.                     *)
(***************************************************************************)
EXTENDS ProtectedOperations, TLAPS, FiniteSetTheorems, WellFoundedInduction

-----------------------------------------------------------------------------
(* The inductive invariant.  A kid that died is revoked in the ring or     *)
(* barred from it; the mark is one of the snapshots that judged; what a    *)
(* call has read so far has the type its step relies on; a call that is    *)
(* not judged yet began under a mark that still bounds the next judgement  *)
(* from below, and one that is judged was judged by no less.               *)

RingInv ==
  \A k \in dead :
    \/ keys[k] = "revoked"
    \/ keys[k] = None /\ k \in retired

MarkInv ==
  /\ DecisionsAgree
  /\ guard # None => guard \in judged

CallTyped(c) ==
  /\ c.step = "authenticating" => c.scope \in Scopes
  /\ c.step \notin {"idle", "authenticating"} =>
       c.context \in Contexts /\ c.request \in Requests /\ c.expires \in Times
  /\ c.step \in {"checking", "prepared", "observed", "allowed", "refreshed"} =>
       c.at \in Times
  /\ c.step \in {"decided", "allowed", "refreshed"} => c.observed \in Times
  /\ c.step = "decided" => c.evaluated \in Times
  /\ c.step \in {"checking", "refreshed"} => c.operation # None

Unjudged == {"checking", "prepared", "observed"}

Bounded(c, mark) == c.floor = -1 \/ (mark # None /\ c.floor <= mark.revision)

Judged(c) == c.operation # None => c.judged # -1 /\ c.judged >= c.floor

CallJudged(c, mark) ==
  /\ c.step \in Unjudged => Bounded(c, mark)
  /\ c.step = "decided" /\ c.evidence # None => Judged(c)
  /\ c.step \in {"allowed", "refreshed"} => Judged(c)

CallOK(c, mark) == c \in Call /\ CallTyped(c) /\ CallJudged(c, mark)

CallsInv ==
  /\ thread \in [Threads -> Call]
  /\ \A t \in Threads : CallTyped(thread[t]) /\ CallJudged(thread[t], guard)

UsesInv ==
  \A o \in Operations :
    uses[o] # <<>> =>
      /\ operations[o] # None /\ ~operations[o].live
      /\ uses[o] = <<<<operations[o].context, operations[o].request>>>>

LimitsInv ==
  /\ IsFiniteSet(Live(operations)) /\ Cardinality(Live(operations)) <= MaxOperations
  /\ IsFiniteSet(Live(contexts)) /\ IsFiniteSet(Pending)
  /\ Cardinality(Live(contexts)) + Cardinality(Pending) <= MaxContexts

OperationsInv ==
  /\ TypeOK
  /\ RingInv
  /\ MarkInv
  /\ CallsInv
  /\ UsesInv
  /\ LimitsInv

(* What every step of the composition is shown to do.                      *)
Good == OperationsInv' /\ UsesCurrently /\ DecidesByAuthority

-----------------------------------------------------------------------------
(* Clocks.                                                                 *)

LEMMA ReadingsMove ==
  ASSUME NEW seen \in Times, NEW now \in Readings(seen)
  PROVE  now \in Times /\ now >= seen
<1>0. MaxTime \in Nat
  BY OperationsAssumption
<1>1. PICK x \in Times : now = Max({seen, x})
  BY DEF Readings
<1>2. \E m \in {seen, x} : \A y \in {seen, x} : m >= y
  BY <1>0 DEF Times
<1>3. now \in {seen, x} /\ \A y \in {seen, x} : now >= y
  BY <1>1, <1>2 DEF Max
<1> QED BY <1>3

LEMMA LeastOfThree ==
  ASSUME NEW a \in Int, NEW b \in Int, NEW c \in Int
  PROVE  LET m == Min({a, b, c}) IN m \in Int /\ m <= b
<1>1. PICK m : m = Min({a, b, c})
  OBVIOUS
<1>2. \E x \in {a, b, c} : \A y \in {a, b, c} : x <= y
  OBVIOUS
<1>3. m \in {a, b, c} /\ \A y \in {a, b, c} : m <= y
  BY <1>1, <1>2 DEF Min
<1> QED BY <1>1, <1>3

-----------------------------------------------------------------------------
(* Rows fade: they keep what they are of and are never live again.         *)

OperationsFade(old, new) ==
  /\ new \in [Operations -> OperationRow \cup {None}]
  /\ \A o \in Operations :
       /\ old[o] = None <=> new[o] = None
       /\ old[o] # None =>
            /\ new[o].context = old[o].context
            /\ new[o].request = old[o].request
            /\ new[o].live => old[o].live

ContextsFade(old, new) ==
  /\ new \in [Contexts -> ContextRow \cup {None}]
  /\ Live(new) \subseteq Live(old)

LEMMA OperationRowFades ==
  ASSUME NEW r \in OperationRow, NEW n, n = [r EXCEPT !.live = FALSE]
  PROVE  /\ n \in OperationRow /\ n # None
         /\ n.context = r.context /\ n.request = r.request /\ ~n.live
<1>1. n \in OperationRow /\ n.context = r.context /\ n.request = r.request /\ ~n.live
  BY DEF OperationRow
<1> QED BY <1>1, RowAssumption

LEMMA ContextRowFades ==
  ASSUME NEW r \in ContextRow, NEW n, n = [r EXCEPT !.live = FALSE]
  PROVE  n \in ContextRow /\ n # None /\ ~n.live
<1>1. n \in ContextRow /\ ~n.live
  BY DEF ContextRow
<1> QED BY <1>1, RowAssumption

LEMMA OperationsPruned ==
  ASSUME NEW rows \in [Operations -> OperationRow \cup {None}], NEW now
  PROVE  OperationsFade(rows, Pruned(rows, now))
<1>1. PICK new : new = Pruned(rows, now)
  OBVIOUS
<1>2. DOMAIN rows = Operations
  OBVIOUS
<1>3. \A o \in Operations :
        new[o] = rows[o] \/ (rows[o] # None /\ new[o] = [rows[o] EXCEPT !.live = FALSE])
  BY <1>1, <1>2 DEF Pruned, Live
<1>4. DOMAIN new = Operations /\ new = [o \in Operations |-> new[o]]
  BY <1>1, <1>2 DEF Pruned
<1>5. \A o \in Operations :
        /\ new[o] \in OperationRow \cup {None}
        /\ rows[o] = None <=> new[o] = None
        /\ rows[o] # None =>
             /\ new[o].context = rows[o].context
             /\ new[o].request = rows[o].request
             /\ new[o].live => rows[o].live
  <2> SUFFICES ASSUME NEW o \in Operations
               PROVE  /\ new[o] \in OperationRow \cup {None}
                      /\ rows[o] = None <=> new[o] = None
                      /\ rows[o] # None =>
                           /\ new[o].context = rows[o].context
                           /\ new[o].request = rows[o].request
                           /\ new[o].live => rows[o].live
    OBVIOUS
  <2>1. CASE new[o] = rows[o]
    BY <2>1
  <2>2. CASE rows[o] # None /\ new[o] = [rows[o] EXCEPT !.live = FALSE]
    <3>1. rows[o] \in OperationRow
      BY <2>2
    <3> QED BY <2>2, <3>1, OperationRowFades
  <2> QED BY <1>3, <2>1, <2>2
<1> QED BY <1>1, <1>4, <1>5 DEF OperationsFade

LEMMA OperationsWithout ==
  ASSUME NEW rows \in [Operations -> OperationRow \cup {None}], NEW gone
  PROVE  /\ OperationsFade(rows, Without(rows, gone))
         /\ \A o \in gone \cap Operations :
              rows[o] # None => ~Without(rows, gone)[o].live
<1>1. PICK new : new = Without(rows, gone)
  OBVIOUS
<1>2. DOMAIN rows = Operations
  OBVIOUS
<1>3. \A o \in Operations :
        /\ new[o] = rows[o] \/ (rows[o] # None /\ new[o] = [rows[o] EXCEPT !.live = FALSE])
        /\ o \in gone /\ rows[o] # None => new[o] = [rows[o] EXCEPT !.live = FALSE]
  BY <1>1, <1>2 DEF Without
<1>4. DOMAIN new = Operations /\ new = [o \in Operations |-> new[o]]
  BY <1>1, <1>2 DEF Without
<1>5. \A o \in Operations :
        /\ new[o] \in OperationRow \cup {None}
        /\ rows[o] = None <=> new[o] = None
        /\ rows[o] # None =>
             /\ new[o].context = rows[o].context
             /\ new[o].request = rows[o].request
             /\ new[o].live => rows[o].live
  <2> SUFFICES ASSUME NEW o \in Operations
               PROVE  /\ new[o] \in OperationRow \cup {None}
                      /\ rows[o] = None <=> new[o] = None
                      /\ rows[o] # None =>
                           /\ new[o].context = rows[o].context
                           /\ new[o].request = rows[o].request
                           /\ new[o].live => rows[o].live
    OBVIOUS
  <2>1. CASE new[o] = rows[o]
    BY <2>1
  <2>2. CASE rows[o] # None /\ new[o] = [rows[o] EXCEPT !.live = FALSE]
    <3>1. rows[o] \in OperationRow
      BY <2>2
    <3> QED BY <2>2, <3>1, OperationRowFades
  <2> QED BY <1>3, <2>1, <2>2
<1>6. \A o \in gone \cap Operations : rows[o] # None => ~new[o].live
  BY <1>3, OperationRowFades
<1> QED BY <1>1, <1>4, <1>5, <1>6 DEF OperationsFade

LEMMA OperationsFadeTwice ==
  ASSUME NEW a, NEW b, NEW c, OperationsFade(a, b), OperationsFade(b, c)
  PROVE  OperationsFade(a, c)
BY DEF OperationsFade

LEMMA FadedLive ==
  ASSUME NEW a \in [Operations -> OperationRow \cup {None}], NEW b,
         OperationsFade(a, b)
  PROVE  Live(b) \subseteq Live(a)
BY DEF OperationsFade, Live

LEMMA ContextsPruned ==
  ASSUME NEW rows \in [Contexts -> ContextRow \cup {None}], NEW now
  PROVE  ContextsFade(rows, Pruned(rows, now))
<1>1. PICK new : new = Pruned(rows, now)
  OBVIOUS
<1>2. DOMAIN rows = Contexts
  OBVIOUS
<1>3. \A c \in Contexts :
        new[c] = rows[c] \/ (rows[c] # None /\ new[c] = [rows[c] EXCEPT !.live = FALSE])
  BY <1>1, <1>2 DEF Pruned, Live
<1>4. DOMAIN new = Contexts /\ new = [c \in Contexts |-> new[c]]
  BY <1>1, <1>2 DEF Pruned
<1>5. \A c \in Contexts :
        /\ new[c] \in ContextRow \cup {None}
        /\ new[c] # None /\ new[c].live => rows[c] # None /\ rows[c].live
  BY <1>3, ContextRowFades
<1> QED BY <1>1, <1>2, <1>4, <1>5 DEF ContextsFade, Live

LEMMA ContextsWithout ==
  ASSUME NEW rows \in [Contexts -> ContextRow \cup {None}], NEW gone
  PROVE  ContextsFade(rows, Without(rows, gone))
<1>1. PICK new : new = Without(rows, gone)
  OBVIOUS
<1>2. DOMAIN rows = Contexts
  OBVIOUS
<1>3. \A c \in Contexts :
        new[c] = rows[c] \/ (rows[c] # None /\ new[c] = [rows[c] EXCEPT !.live = FALSE])
  BY <1>1, <1>2 DEF Without
<1>4. DOMAIN new = Contexts /\ new = [c \in Contexts |-> new[c]]
  BY <1>1, <1>2 DEF Without
<1>5. \A c \in Contexts :
        /\ new[c] \in ContextRow \cup {None}
        /\ new[c] # None /\ new[c].live => rows[c] # None /\ rows[c].live
  BY <1>3, ContextRowFades
<1> QED BY <1>1, <1>2, <1>4, <1>5 DEF ContextsFade, Live

-----------------------------------------------------------------------------
(* The mark advances, and what bounds a call from below still does.        *)

Advances(old, new) ==
  /\ new \in Snapshots \cup {None}
  /\ old # None => new # None /\ old.revision <= new.revision

LEMMA RevisionsAre ==
  /\ \A s \in Snapshots : s.revision \in Nat
  /\ \A n \in Revisions : n \in Int
  /\ -1 \in Revisions
BY CapabilityAssumption DEF SnapshotSound, Revisions

LEMMA MarkStays ==
  ASSUME guard \in Snapshots \cup {None}
  PROVE  Advances(guard, guard)
BY RevisionsAre DEF Advances

LEMMA AcceptedAdvances ==
  ASSUME guard \in Snapshots \cup {None}, NEW s \in Snapshots, Accepted(s)
  PROVE  Advances(guard, s)
BY RevisionsAre, NoneAssumption DEF Advances, Accepted

LEMMA JudgedStays ==
  ASSUME NEW old \in Snapshots \cup {None}, NEW new, Advances(old, new),
         NEW c \in Call, CallJudged(c, old)
  PROVE  CallJudged(c, new)
<1>1. c.floor \in Int
  BY RevisionsAre DEF Call
<1>2. Bounded(c, old) => Bounded(c, new)
  BY <1>1, RevisionsAre DEF Bounded, Advances
<1> QED BY <1>2 DEF CallJudged

(* A step of threads: each stays where it is, or goes to a sound call.     *)
Sound(c, mark, steps) ==
  c \in Call /\ CallTyped(c) /\ CallJudged(c, mark) /\ c.step \in steps

ThreadsMove(steps) ==
  /\ DOMAIN thread' = Threads /\ thread' = [t \in Threads |-> thread'[t]]
  /\ \A t \in Threads : thread'[t] = thread[t] \/ Sound(thread'[t], guard', steps)

LEMMA IdleSound ==
  ASSUME NEW mark, NEW steps, "idle" \in steps
  PROVE  Sound(Idle, mark, steps) /\ Idle.step = "idle"
<1>1. PICK c : c = Idle
  OBVIOUS
<1>2. c \in Call /\ c.step = "idle"
  BY <1>1, RevisionsAre DEF Idle, Call, Steps
<1> QED BY <1>1, <1>2 DEF Sound, CallTyped, CallJudged, Unjudged

LEMMA GoesMoves ==
  ASSUME CallsInv, NEW t \in Threads, NEW c, NEW steps, Sound(c, guard', steps),
         Goes(t, c)
  PROVE  ThreadsMove(steps)
BY DEF CallsInv, Goes, ThreadsMove, Sound

LEMMA NobodyMoves ==
  ASSUME CallsInv, UNCHANGED thread, NEW steps
  PROVE  ThreadsMove(steps)
BY DEF CallsInv, ThreadsMove

LEMMA CallsKept ==
  ASSUME CallsInv, guard \in Snapshots \cup {None}, Advances(guard, guard'),
         NEW steps, ThreadsMove(steps)
  PROVE  CallsInv'
<1>1. \A t \in Threads :
        thread'[t] \in Call /\ CallTyped(thread'[t]) /\ CallJudged(thread'[t], guard')
  <2> SUFFICES ASSUME NEW t \in Threads
               PROVE  /\ thread'[t] \in Call /\ CallTyped(thread'[t])
                      /\ CallJudged(thread'[t], guard')
    OBVIOUS
  <2>1. CASE thread'[t] = thread[t]
    <3>1. thread[t] \in Call /\ CallTyped(thread[t]) /\ CallJudged(thread[t], guard)
      BY DEF CallsInv
    <3>2. CallJudged(thread[t], guard')
      BY <3>1, JudgedStays
    <3> QED BY <2>1, <3>1, <3>2
  <2>2. CASE Sound(thread'[t], guard', steps)
    BY <2>2 DEF Sound
  <2> QED BY <2>1, <2>2 DEF ThreadsMove
<1>2. thread' \in [Threads -> Call]
  BY <1>1 DEF ThreadsMove
<1> QED BY <1>1, <1>2 DEF CallsInv

LEMMA OneMoreAtMost ==
  ASSUME NEW S, IsFiniteSet(S), NEW x
  PROVE  /\ IsFiniteSet(S \cup {x}) /\ Cardinality(S \cup {x}) \in Nat
         /\ Cardinality(S \cup {x}) <= Cardinality(S) + 1
<1>1. Cardinality(S) \in Nat
  BY FS_CardinalityType
<1>2. IsFiniteSet(S \cup {x})
  BY FS_AddElement
<1>3. \/ Cardinality(S \cup {x}) = Cardinality(S)
      \/ Cardinality(S \cup {x}) = Cardinality(S) + 1
  BY FS_AddElement
<1> QED BY <1>1, <1>2, <1>3

LEMMA UsesKept ==
  ASSUME UsesInv, OperationsFade(operations, operations'), UNCHANGED uses
  PROVE  UsesInv'
BY DEF UsesInv, OperationsFade

LEMMA LimitsKept ==
  ASSUME LimitsInv,
         Live(operations') \subseteq Live(operations),
         Live(contexts') \subseteq Live(contexts),
         Pending' \subseteq Pending
  PROVE  LimitsInv'
<1>0. MaxOperations \in Nat /\ MaxContexts \in Nat
  BY OperationsAssumption DEF IssuerLimits, ComposerLimits
<1>1. /\ IsFiniteSet(Live(operations')) /\ Cardinality(Live(operations')) \in Nat
      /\ Cardinality(Live(operations)) \in Nat
      /\ Cardinality(Live(operations')) <= Cardinality(Live(operations))
  BY FS_Subset, FS_CardinalityType DEF LimitsInv
<1>2. /\ IsFiniteSet(Live(contexts')) /\ Cardinality(Live(contexts')) \in Nat
      /\ Cardinality(Live(contexts)) \in Nat
      /\ Cardinality(Live(contexts')) <= Cardinality(Live(contexts))
  BY FS_Subset, FS_CardinalityType DEF LimitsInv
<1>3. /\ IsFiniteSet(Pending') /\ Cardinality(Pending') \in Nat
      /\ Cardinality(Pending) \in Nat
      /\ Cardinality(Pending') <= Cardinality(Pending)
  BY FS_Subset, FS_CardinalityType DEF LimitsInv
<1>4. Cardinality(Live(operations')) <= MaxOperations
  BY <1>0, <1>1 DEF LimitsInv
<1>5. Cardinality(Live(contexts')) + Cardinality(Pending') <= MaxContexts
  BY <1>0, <1>2, <1>3 DEF LimitsInv
<1>6. Live(operations)' = Live(operations') /\ Live(contexts)' = Live(contexts')
  BY DEF Live
<1> QED BY <1>1, <1>2, <1>3, <1>4, <1>5, <1>6 DEF LimitsInv

(* No step but these leaves a call waiting for the authenticator, or       *)
(* decided.                                                                *)
Plain == Steps \ {"authenticating", "decided"}

LEMMA PendingFades ==
  ASSUME ThreadsMove(Steps \ {"authenticating"})
  PROVE  Pending' \subseteq Pending
BY DEF ThreadsMove, Sound, Pending

LEMMA NoDecision ==
  ASSUME ThreadsMove(Steps \ {"decided"})
  PROVE  DecidesByAuthority
<1> SUFFICES ASSUME NEW t \in Threads, thread[t].step = "observed",
                    thread'[t].step = "decided"
             PROVE  FALSE
  BY DEF DecidesByAuthority
<1> QED BY DEF ThreadsMove, Sound

ClocksMove ==
  /\ registrySeen' \in Times /\ registrySeen' >= registrySeen
  /\ issuerSeen' \in Times /\ issuerSeen' >= issuerSeen

LEMMA ClocksStay ==
  ASSUME NEW seen \in Times PROVE seen >= seen
BY OperationsAssumption DEF Times

(* A step that only lets rows fade, moves clocks and moves calls.          *)
LEMMA Quiet ==
  ASSUME OperationsInv,
         UNCHANGED <<ringVars, guardVars, uses>>,
         ThreadsMove(Plain),
         ClocksMove,
         OperationsFade(operations, operations'),
         ContextsFade(contexts, contexts'),
         closed' \subseteq {"issuer", "composer"}
  PROVE  Good
<1>0. guard \in Snapshots \cup {None} /\ operations \in [Operations -> OperationRow \cup {None}]
  BY DEF OperationsInv, TypeOK, CapabilityTypeOK
<1>1. ThreadsMove(Steps \ {"authenticating"}) /\ ThreadsMove(Steps \ {"decided"})
  BY DEF ThreadsMove, Plain, Sound
<1>2. CallsInv'
  <2>1. Advances(guard, guard')
    BY <1>0, MarkStays DEF guardVars
  <2> QED BY <2>1, <1>0, CallsKept DEF OperationsInv
<1>3. UsesInv'
  BY UsesKept DEF OperationsInv
<1>4. LimitsInv'
  BY <1>0, <1>1, PendingFades, FadedLive, LimitsKept DEF OperationsInv, ContextsFade
<1>5. TypeOK'
  BY <1>2 DEF OperationsInv, TypeOK, CapabilityTypeOK, CallsInv, ClocksMove,
              OperationsFade, ContextsFade, ringVars, guardVars
<1>6. RingInv' /\ MarkInv'
  BY DEF OperationsInv, RingInv, MarkInv, DecisionsAgree, ringVars, guardVars
<1>7. UsesCurrently
  BY DEF UsesCurrently, ClocksMove
<1> QED BY <1>1, <1>2, <1>3, <1>4, <1>5, <1>6, <1>7, NoDecision DEF Good, OperationsInv

-----------------------------------------------------------------------------
(* The facts of the invariant that most steps begin with.                  *)

LEMMA Facts ==
  ASSUME OperationsInv
  PROVE  /\ guard \in Snapshots \cup {None}
         /\ operations \in [Operations -> OperationRow \cup {None}]
         /\ contexts \in [Contexts -> ContextRow \cup {None}]
         /\ issuerSeen \in Times /\ registrySeen \in Times
         /\ closed \subseteq {"issuer", "composer"}
         /\ uses \in [Operations -> Seq(Contexts \X Requests)]
         /\ thread \in [Threads -> Call]
         /\ \A t \in Threads : CallTyped(thread[t]) /\ CallJudged(thread[t], guard)
BY DEF OperationsInv, TypeOK, CapabilityTypeOK, CallsInv

LEMMA NothingFades ==
  ASSUME OperationsInv
  PROVE  /\ OperationsFade(operations, operations)
         /\ ContextsFade(contexts, contexts)
         /\ issuerSeen >= issuerSeen /\ registrySeen >= registrySeen
BY Facts, ClocksStay DEF OperationsFade, ContextsFade

LEMMA FailGood ==
  ASSUME OperationsInv, NEW t \in Threads, Fail(t)
  PROVE  Good
<1>1. ThreadsMove(Plain)
  BY IdleSound, GoesMoves DEF Fail, OperationsInv, Plain, Steps
<1> QED BY <1>1, Quiet, NothingFades, Facts
        DEF Fail, ClocksMove, issuerVars, registryVars, ringVars, guardVars

LEMMA RetireContextGood ==
  ASSUME OperationsInv, NEW c \in Contexts, RetireContext(c)
  PROVE  Good
<1>1. ThreadsMove(Plain)
  BY NobodyMoves DEF RetireContext, OperationsInv
<1>2. ContextsFade(contexts, contexts')
  BY Facts, ContextsWithout DEF RetireContext
<1> QED BY <1>1, <1>2, Quiet, NothingFades, Facts
        DEF RetireContext, ClocksMove, registryVars, ringVars, guardVars

LEMMA CloseIssuerGood ==
  ASSUME OperationsInv, CloseIssuer
  PROVE  Good
<1>1. ThreadsMove(Plain)
  BY NobodyMoves DEF CloseIssuer, OperationsInv
<1>2. ContextsFade(contexts, contexts')
  BY Facts, ContextsWithout DEF CloseIssuer
<1> QED BY <1>1, <1>2, Quiet, NothingFades, Facts
        DEF CloseIssuer, ClocksMove, registryVars, ringVars, guardVars

LEMMA RetireGood ==
  ASSUME OperationsInv, NEW o \in Operations, Retire(o)
  PROVE  Good
<1>1. ThreadsMove(Plain)
  BY NobodyMoves DEF Retire, OperationsInv
<1>2. OperationsFade(operations, operations')
  BY Facts, OperationsWithout DEF Retire
<1> QED BY <1>1, <1>2, Quiet, NothingFades, Facts
        DEF Retire, ClocksMove, issuerVars, ringVars, guardVars

LEMMA CloseComposerGood ==
  ASSUME OperationsInv, CloseComposer
  PROVE  Good
<1>1. ThreadsMove(Plain)
  BY NobodyMoves DEF CloseComposer, OperationsInv
<1>2. OperationsFade(operations, operations')
  BY Facts, OperationsWithout DEF CloseComposer
<1> QED BY <1>1, <1>2, Quiet, NothingFades, Facts
        DEF CloseComposer, ClocksMove, issuerVars, ringVars, guardVars

(* prepare_reauthorization of a call that was sound before it.             *)
PreparedOf(call, now, e) == [call EXCEPT !.at = now, !.expires = e]

LEMMA PrepareMoves ==
  ASSUME OperationsInv, NEW t \in Threads, NEW c \in Contexts, NEW r,
         NEW now \in Readings(issuerSeen), NEW call,
         Prepare(t, c, r, now, call), UNCHANGED guardVars,
         \A e \in Times : Sound(PreparedOf(call, now, e), guard, Plain)
  PROVE  /\ ThreadsMove(Plain)
         /\ ContextsFade(contexts, contexts')
         /\ issuerSeen' \in Times /\ issuerSeen' >= issuerSeen
<1>1. ContextsFade(contexts, contexts')
  BY Facts, ContextsWithout DEF Prepare
<1>2. issuerSeen' \in Times /\ issuerSeen' >= issuerSeen
  BY Facts, ReadingsMove DEF Prepare
<1>3. ThreadsMove(Plain)
  <2>1. CASE Goes(t, Idle)
    BY <2>1, IdleSound, GoesMoves DEF OperationsInv, Plain, Steps
  <2>2. CASE Goes(t, PreparedOf(call, now, contexts[c].expires))
    <3>1. contexts[c].expires \in Times
      <4>1. contexts[c] \in ContextRow
        BY Facts DEF Prepare
      <4> QED BY <4>1 DEF ContextRow
    <3>2. Sound(PreparedOf(call, now, contexts[c].expires), guard', Plain)
      BY <3>1 DEF guardVars
    <3> QED BY <2>2, <3>2, GoesMoves DEF OperationsInv
  <2> QED BY <2>1, <2>2 DEF Prepare, PreparedOf
<1> QED BY <1>1, <1>2, <1>3

LEMMA BeginGood ==
  ASSUME OperationsInv, NEW t \in Threads, NEW o \in Issued \cup {None},
         NEW c \in Contexts, NEW r \in Requests,
         NEW now \in Readings(issuerSeen), Begin(t, o, c, r, now)
  PROVE  Good
<1>1. PICK call :
        /\ call = [Idle EXCEPT !.step = IF o = None THEN "prepared" ELSE "checking",
                               !.operation = o, !.context = c, !.request = r,
                               !.floor = IF o = None \/ guard = None THEN -1
                                         ELSE guard.revision]
        /\ Prepare(t, c, r, now, call)
  BY DEF Begin
<1>2. now \in Times
  BY Facts, ReadingsMove
<1>3. \A e \in Times : Sound(PreparedOf(call, now, e), guard, Plain)
  <2> SUFFICES ASSUME NEW e \in Times
               PROVE  Sound(PreparedOf(call, now, e), guard, Plain)
    OBVIOUS
  <2>1. PICK d : d = PreparedOf(call, now, e)
    OBVIOUS
  <2>2. /\ o \in Operations \cup {None}
        /\ (IF o = None \/ guard = None THEN -1 ELSE guard.revision) \in Revisions
    BY Facts, RevisionsAre DEF Issued, Revisions
  <2>3. d = [step |-> IF o = None THEN "prepared" ELSE "checking", scope |-> None,
             operation |-> o, context |-> c, request |-> r, expires |-> e,
             at |-> now, observed |-> None, evaluated |-> None, evidence |-> None,
             judged |-> -1,
             floor |-> IF o = None \/ guard = None THEN -1 ELSE guard.revision]
    BY <1>1, <2>1 DEF PreparedOf, Idle
  <2>4. d \in Call
    BY <2>2, <2>3, <1>2, RevisionsAre DEF Call, Steps
  <2>5. /\ d.step \in {"prepared", "checking"} /\ d.operation = o /\ d.at = now
        /\ d.step = "checking" => o # None
        /\ d.context = c /\ d.request = r /\ d.expires = e
        /\ d.floor = IF o = None \/ guard = None THEN -1 ELSE guard.revision
    BY <2>3
  <2>6. CallTyped(d)
    BY <2>5, <1>2 DEF CallTyped
  <2>7. Bounded(d, guard)
    BY <2>5, Facts, RevisionsAre DEF Bounded
  <2>8. CallJudged(d, guard)
    BY <2>5, <2>7 DEF CallJudged, Unjudged
  <2> QED BY <2>1, <2>4, <2>5, <2>6, <2>8 DEF Sound, Plain, Steps
<1>4. UNCHANGED guardVars
  BY DEF Begin
<1>5. /\ ThreadsMove(Plain)
      /\ ContextsFade(contexts, contexts')
      /\ issuerSeen' \in Times /\ issuerSeen' >= issuerSeen
  BY <1>1, <1>3, <1>4, PrepareMoves
<1> QED BY <1>5, Quiet, NothingFades, Facts
        DEF Begin, ClocksMove, registryVars, ringVars, guardVars

LEMMA RefreshGood ==
  ASSUME OperationsInv, NEW t \in Threads,
         NEW now \in Readings(issuerSeen), Refresh(t, now)
  PROVE  Good
<1>0. PICK b \in Call : b = thread[t] /\ CallTyped(b) /\ CallJudged(b, guard)
  BY Facts
<1>1. PICK call : call = [b EXCEPT !.step = "refreshed"]
                  /\ Prepare(t, b.context, b.request, now, call)
  BY <1>0 DEF Refresh
<1>2. now \in Times
  BY Facts, ReadingsMove
<1>3. b.step = "allowed" /\ b.operation # None
  BY <1>0 DEF Refresh
<1>4. b.context \in Contexts /\ b.request \in Requests /\ b.observed \in Times /\ Judged(b)
  BY <1>0, <1>3 DEF CallTyped, CallJudged
<1>5. \A e \in Times : Sound(PreparedOf(call, now, e), guard, Plain)
  <2> SUFFICES ASSUME NEW e \in Times
               PROVE  Sound(PreparedOf(call, now, e), guard, Plain)
    OBVIOUS
  <2>1. PICK d : d = PreparedOf(call, now, e)
    OBVIOUS
  <2>2. d = [b EXCEPT !.step = "refreshed", !.at = now, !.expires = e]
    BY <1>1, <2>1 DEF PreparedOf, Call
  <2>3. d \in Call
    BY <2>2, <1>2 DEF Call, Steps
  <2>4. /\ d.step = "refreshed" /\ d.at = now /\ d.expires = e
        /\ d.operation = b.operation /\ d.context = b.context
        /\ d.request = b.request /\ d.observed = b.observed
        /\ d.judged = b.judged /\ d.floor = b.floor
    BY <2>2 DEF Call
  <2>5. CallTyped(d)
    BY <2>4, <1>2, <1>3, <1>4 DEF CallTyped
  <2>6. Judged(d)
    BY <2>4, <1>4 DEF Judged
  <2>7. CallJudged(d, guard)
    BY <2>4, <2>6 DEF CallJudged, Unjudged
  <2> QED BY <2>1, <2>3, <2>4, <2>5, <2>7 DEF Sound, Plain, Steps
<1>6. UNCHANGED guardVars
  BY DEF Refresh
<1>7. /\ ThreadsMove(Plain)
      /\ ContextsFade(contexts, contexts')
      /\ issuerSeen' \in Times /\ issuerSeen' >= issuerSeen
  BY <1>1, <1>4, <1>5, <1>6, PrepareMoves
<1> QED BY <1>7, Quiet, NothingFades, Facts
        DEF Refresh, ClocksMove, registryVars, ringVars, guardVars

-----------------------------------------------------------------------------
(* The steps of authorize and consume in the registry.                     *)

LEMMA HandleRefusedGood ==
  ASSUME OperationsInv, NEW t \in Threads, NEW now \in Readings(registrySeen),
         RegistryReads(now), HandleRefused(t, now),
         UNCHANGED <<ringVars, guardVars, issuerVars, closed>>
  PROVE  Good
<1>1. ThreadsMove(Plain)
  BY IdleSound, GoesMoves DEF HandleRefused, OperationsInv, Plain, Steps
<1>2. OperationsFade(operations, operations')
  BY Facts, OperationsWithout DEF HandleRefused
<1>3. registrySeen' \in Times /\ registrySeen' >= registrySeen
  BY Facts, ReadingsMove DEF RegistryReads
<1> QED BY <1>1, <1>2, <1>3, Quiet, NothingFades, Facts
        DEF HandleRefused, ClocksMove, issuerVars, ringVars, guardVars

LEMMA CheckGood ==
  ASSUME OperationsInv, NEW t \in Threads, NEW now \in Readings(registrySeen),
         Check(t, now)
  PROVE  Good
<1>1. CASE HandleRefused(t, now)
  BY <1>1, HandleRefusedGood DEF Check
<1>2. CASE /\ HandleGood(t, now)
           /\ operations' = Pruned(operations, now)
           /\ Goes(t, [thread[t] EXCEPT !.step = "prepared"])
           /\ UNCHANGED uses
  <2>0. PICK b \in Call : b = thread[t] /\ CallTyped(b) /\ CallJudged(b, guard)
    BY Facts
  <2>1. PICK d : d = [b EXCEPT !.step = "prepared"] /\ Goes(t, d)
    BY <1>2, <2>0
  <2>2. b.step = "checking"
    BY <2>0 DEF Check
  <2>3. d \in Call
    BY <2>1 DEF Call, Steps
  <2>4. /\ d.step = "prepared" /\ d.at = b.at /\ d.expires = b.expires
        /\ d.context = b.context /\ d.request = b.request /\ d.floor = b.floor
    BY <2>1 DEF Call
  <2>5. CallTyped(d)
    BY <2>0, <2>2, <2>4 DEF CallTyped
  <2>6. CallJudged(d, guard)
    BY <2>0, <2>2, <2>4 DEF CallJudged, Unjudged, Bounded
  <2>7. Sound(d, guard', Plain)
    BY <2>3, <2>4, <2>5, <2>6 DEF Sound, Plain, Steps, Check, guardVars
  <2>8. ThreadsMove(Plain)
    BY <2>1, <2>7, GoesMoves DEF OperationsInv
  <2>9. OperationsFade(operations, operations')
    BY <1>2, Facts, OperationsPruned
  <2>10. registrySeen' \in Times /\ registrySeen' >= registrySeen
    BY Facts, ReadingsMove DEF RegistryReads, Check
  <2> QED BY <1>2, <2>8, <2>9, <2>10, Quiet, NothingFades, Facts
          DEF Check, ClocksMove, issuerVars, ringVars, guardVars
<1> QED BY <1>1, <1>2 DEF Check

LEMMA ObserveGood ==
  ASSUME OperationsInv, NEW t \in Threads, NEW now \in Readings(registrySeen),
         Observe(t, now)
  PROVE  Good
<1>0. PICK b \in Call : b = thread[t] /\ CallTyped(b) /\ CallJudged(b, guard)
  BY Facts
<1>1. now \in Times /\ now >= registrySeen
  BY Facts, ReadingsMove
<1>2. ThreadsMove(Plain)
  <2>1. CASE Goes(t, Idle)
    BY <2>1, IdleSound, GoesMoves DEF OperationsInv, Plain, Steps
  <2>2. CASE Goes(t, [b EXCEPT !.step = "observed", !.at = now])
    <3>1. PICK d : d = [b EXCEPT !.step = "observed", !.at = now] /\ Goes(t, d)
      BY <2>2
    <3>2. b.step = "prepared"
      BY <1>0 DEF Observe
    <3>3. d \in Call
      BY <1>1, <3>1 DEF Call, Steps
    <3>4. /\ d.step = "observed" /\ d.at = now /\ d.expires = b.expires
          /\ d.context = b.context /\ d.request = b.request /\ d.floor = b.floor
      BY <3>1 DEF Call
    <3>5. CallTyped(d)
      BY <1>0, <1>1, <3>2, <3>4 DEF CallTyped
    <3>6. CallJudged(d, guard)
      BY <1>0, <3>2, <3>4 DEF CallJudged, Unjudged, Bounded
    <3>7. Sound(d, guard', Plain)
      BY <3>3, <3>4, <3>5, <3>6 DEF Sound, Plain, Steps, Observe, guardVars
    <3> QED BY <3>1, <3>7, GoesMoves DEF OperationsInv
  <2> QED BY <1>0, <2>1, <2>2 DEF Observe
<1> QED BY <1>1, <1>2, Quiet, NothingFades, Facts
        DEF Observe, RegistryReads, ClocksMove, issuerVars, ringVars, guardVars

LEMMA AllowGood ==
  ASSUME OperationsInv, NEW t \in Threads, NEW now \in Readings(registrySeen),
         Allow(t, now)
  PROVE  Good
<1>0. PICK b \in Call : b = thread[t] /\ CallTyped(b) /\ CallJudged(b, guard)
  BY Facts
<1>1. now \in Times /\ now >= registrySeen
  BY Facts, ReadingsMove
<1>2. ThreadsMove(Plain)
  <2>1. CASE Goes(t, Idle)
    BY <2>1, IdleSound, GoesMoves DEF OperationsInv, Plain, Steps
  <2>2. CASE /\ b.evidence # None
             /\ Goes(t, [b EXCEPT !.step = "allowed", !.at = now,
                                  !.evaluated = None, !.evidence = None])
    <3>1. PICK d : /\ d = [b EXCEPT !.step = "allowed", !.at = now,
                                    !.evaluated = None, !.evidence = None]
                   /\ Goes(t, d)
      BY <2>2
    <3>2. b.step = "decided"
      BY <1>0 DEF Allow
    <3>3. d \in Call
      BY <1>1, <3>1 DEF Call, Steps
    <3>4. /\ d.step = "allowed" /\ d.at = now /\ d.expires = b.expires
          /\ d.context = b.context /\ d.request = b.request /\ d.floor = b.floor
          /\ d.operation = b.operation /\ d.judged = b.judged
          /\ d.observed = b.observed
      BY <3>1 DEF Call
    <3>5. CallTyped(d)
      BY <1>0, <1>1, <3>2, <3>4 DEF CallTyped
    <3>6. CallJudged(d, guard)
      BY <1>0, <2>2, <3>2, <3>4 DEF CallJudged, Unjudged, Judged
    <3>7. Sound(d, guard', Plain)
      BY <3>3, <3>4, <3>5, <3>6 DEF Sound, Plain, Steps, Allow, guardVars
    <3> QED BY <3>1, <3>7, GoesMoves DEF OperationsInv
  <2> QED BY <1>0, <2>1, <2>2 DEF Allow
<1> QED BY <1>1, <1>2, Quiet, NothingFades, Facts
        DEF Allow, RegistryReads, ClocksMove, issuerVars, ringVars, guardVars

LEMMA RegisterGood ==
  ASSUME OperationsInv, NEW t \in Threads, NEW now \in Readings(registrySeen),
         NEW o \in Operations, Register(t, o, now)
  PROVE  Good
<1>0. PICK b \in Call : b = thread[t] /\ CallTyped(b) /\ CallJudged(b, guard)
  BY Facts
<1>1. now \in Times /\ now >= registrySeen
  BY Facts, ReadingsMove
<1>2. ThreadsMove(Plain)
  BY IdleSound, GoesMoves DEF Register, OperationsInv, Plain, Steps
<1>3. PICK rows : rows = Pruned(operations, now)
  OBVIOUS
<1>4. OperationsFade(operations, rows) /\ Live(rows) \subseteq Live(operations)
  BY <1>3, Facts, OperationsPruned, FadedLive
<1>5. CASE operations' = rows
  BY <1>1, <1>2, <1>4, <1>5, Quiet, NothingFades, Facts
  DEF Register, RegistryReads, ClocksMove, issuerVars, ringVars, guardVars
<1>6. PICK expiry : expiry = Min({b.at + OperationTtl, b.expires, b.observed + StateAge})
  OBVIOUS
<1>7. CASE /\ expiry > now
           /\ Cardinality(Live(rows)) < MaxOperations
           /\ operations' = [rows EXCEPT ![o] = Binding(t, expiry)]
  <2>1. b.step = "allowed" /\ operations[o] = None
    BY <1>0 DEF Register
  <2>2. /\ b.at \in Times /\ b.expires \in Times /\ b.observed \in Times
        /\ b.context \in Contexts /\ b.request \in Requests
    BY <1>0, <2>1 DEF CallTyped
  <2>3. expiry \in Times
    <3>1. OperationTtl \in Nat /\ StateAge \in Nat /\ MaxTime \in Nat
      BY OperationsAssumption DEF ComposerLimits
    <3>2. /\ b.at + OperationTtl \in Int /\ b.expires \in Int
          /\ b.observed + StateAge \in Int
      BY <2>2, <3>1 DEF Times
    <3>3. expiry \in Int /\ expiry <= b.expires
      BY <1>6, <3>2, LeastOfThree
    <3> QED BY <1>1, <1>7, <2>2, <3>1, <3>3 DEF Times
  <2>4. PICK new : new = Binding(t, expiry)
    OBVIOUS
  <2>5. new \in OperationRow
    BY <1>0, <2>2, <2>3, <2>4 DEF Binding, OperationRow
  <2>6. DOMAIN rows = Operations /\ rows \in [Operations -> OperationRow \cup {None}]
    BY <1>4 DEF OperationsFade
  <2>7. /\ operations' \in [Operations -> OperationRow \cup {None}]
        /\ \A p \in Operations \ {o} : operations'[p] = rows[p]
        /\ Live(operations') \subseteq Live(rows) \cup {o}
    BY <1>7, <2>4, <2>5, <2>6 DEF Live
  <2>8. UsesInv'
    <3> SUFFICES ASSUME NEW p \in Operations, uses[p] # <<>>
                 PROVE  /\ operations'[p] # None /\ ~operations'[p].live
                        /\ uses[p] = <<<<operations'[p].context, operations'[p].request>>>>
      BY DEF UsesInv, Register
    <3>1. /\ operations[p] # None /\ ~operations[p].live
          /\ uses[p] = <<<<operations[p].context, operations[p].request>>>>
      BY DEF OperationsInv, UsesInv
    <3>2. operations'[p] = rows[p]
      BY <2>1, <2>7, <3>1
    <3> QED BY <1>4, <3>1, <3>2 DEF OperationsFade
  <2>9. LimitsInv'
    <3>0. MaxOperations \in Nat
      BY OperationsAssumption DEF ComposerLimits
    <3>1. IsFiniteSet(Live(rows)) /\ Cardinality(Live(rows)) \in Nat
      BY <1>4, FS_Subset, FS_CardinalityType DEF OperationsInv, LimitsInv
    <3>2. PICK all : all = Live(rows) \cup {o}
      OBVIOUS
    <3>3. IsFiniteSet(all) /\ Cardinality(all) \in Nat
          /\ Cardinality(all) <= Cardinality(Live(rows)) + 1
      BY <3>1, <3>2, OneMoreAtMost
    <3>4. /\ IsFiniteSet(Live(operations')) /\ Cardinality(Live(operations')) \in Nat
          /\ Cardinality(Live(operations')) <= Cardinality(all)
      BY <2>7, <3>2, <3>3, FS_Subset, FS_CardinalityType
    <3>5. Cardinality(Live(operations')) <= MaxOperations
      BY <1>7, <3>0, <3>1, <3>3, <3>4
    <3>6. Pending' \subseteq Pending
      <4>1. ThreadsMove(Steps \ {"authenticating"})
        BY <1>2 DEF ThreadsMove, Plain, Sound
      <4> QED BY <4>1, PendingFades
    <3>7. /\ IsFiniteSet(Pending') /\ Cardinality(Pending') \in Nat
          /\ Cardinality(Pending) \in Nat
          /\ Cardinality(Pending') <= Cardinality(Pending)
      BY <3>6, FS_Subset, FS_CardinalityType DEF OperationsInv, LimitsInv
    <3>8. contexts' = contexts /\ Cardinality(Live(contexts)) \in Nat
          /\ IsFiniteSet(Live(contexts))
          /\ Cardinality(Live(contexts)) + Cardinality(Pending) <= MaxContexts
      BY FS_CardinalityType DEF Register, issuerVars, OperationsInv, LimitsInv
    <3>9. Live(operations)' = Live(operations') /\ Live(contexts)' = Live(contexts)
      BY <3>8 DEF Live
    <3>10. MaxContexts \in Nat
      BY OperationsAssumption DEF IssuerLimits
    <3>11. Cardinality(Live(contexts)) + Cardinality(Pending') <= MaxContexts
      BY <3>7, <3>8, <3>10
    <3> QED BY <3>4, <3>5, <3>7, <3>8, <3>9, <3>11 DEF LimitsInv
  <2>10. CallsInv'
    BY <1>2, Facts, MarkStays, CallsKept DEF OperationsInv, Register, guardVars
  <2>11. TypeOK'
    BY <1>1, <2>7, <2>10
    DEF OperationsInv, TypeOK, CapabilityTypeOK, CallsInv, Register, RegistryReads,
        ringVars, guardVars, issuerVars
  <2>12. RingInv' /\ MarkInv'
    BY DEF OperationsInv, RingInv, MarkInv, DecisionsAgree, Register, ringVars, guardVars
  <2>13. UsesCurrently
    BY <1>1, NothingFades DEF UsesCurrently, Register, RegistryReads, issuerVars
  <2>14. DecidesByAuthority
    <3>1. ThreadsMove(Steps \ {"decided"})
      BY <1>2 DEF ThreadsMove, Plain, Sound
    <3> QED BY <3>1, NoDecision
  <2> QED BY <2>8, <2>9, <2>10, <2>11, <2>12, <2>13, <2>14 DEF Good, OperationsInv
<1> QED BY <1>0, <1>3, <1>5, <1>6, <1>7 DEF Register

LEMMA ConsumeGood ==
  ASSUME OperationsInv, NEW t \in Threads, NEW now \in Readings(registrySeen),
         Consume(t, now)
  PROVE  Good
<1>1. CASE HandleRefused(t, now)
  BY <1>1, HandleRefusedGood DEF Consume
<1>2. CASE ~HandleRefused(t, now)
  <2>0. PICK b \in Call : b = thread[t] /\ CallTyped(b) /\ CallJudged(b, guard)
    BY Facts
  <2>1. PICK o : o = b.operation
    OBVIOUS
  <2>2. /\ HandleGood(t, now)
        /\ operations' = Pruned(Without(operations, {o}), now)
        /\ uses' = [uses EXCEPT ![o] = Append(uses[o], <<b.context, b.request>>)]
        /\ Goes(t, Idle)
    BY <1>2, <2>0, <2>1 DEF Consume
  <2>3. /\ o \in Operations /\ operations[o] # None /\ operations[o].live
        /\ operations[o].expires > now
        /\ operations[o].context = b.context /\ operations[o].request = b.request
    BY <2>0, <2>1, <2>2, Facts DEF HandleGood, Live, Matches
  <2>4. now \in Times /\ now >= registrySeen
    BY Facts, ReadingsMove
  <2>5. ThreadsMove(Plain) /\ thread'[t] = Idle
    BY <2>2, Facts, IdleSound, GoesMoves DEF OperationsInv, Plain, Steps, Goes
  <2>6. ThreadsMove(Steps \ {"authenticating"}) /\ ThreadsMove(Steps \ {"decided"})
    BY <2>5 DEF ThreadsMove, Plain, Sound
  <2>7. OperationsFade(operations, operations') /\ ~operations'[o].live
    <3>1. PICK rows : rows = Without(operations, {o})
      OBVIOUS
    <3>2. OperationsFade(operations, rows) /\ ~rows[o].live
      BY <2>3, <3>1, Facts, OperationsWithout
    <3>3. rows \in [Operations -> OperationRow \cup {None}] /\ rows[o] # None
      BY <2>3, <3>2 DEF OperationsFade
    <3>4. OperationsFade(rows, operations')
      BY <2>2, <3>1, <3>3, OperationsPruned
    <3>5. ~operations'[o].live
      BY <2>3, <3>2, <3>3, <3>4 DEF OperationsFade
    <3> QED BY <3>2, <3>4, <3>5, OperationsFadeTwice
  <2>8. /\ uses'[o] = <<<<b.context, b.request>>>>
        /\ \A p \in Operations \ {o} : uses'[p] = uses[p]
        /\ uses' \in [Operations -> Seq(Contexts \X Requests)]
    <3>1. uses[o] = <<>>
      BY <2>3 DEF OperationsInv, UsesInv
    <3>2. PICK x : x = <<b.context, b.request>>
      OBVIOUS
    <3>3. Append(uses[o], x) = <<x>>
      BY <3>1
    <3>4. b.step = "refreshed"
      BY <2>0 DEF Consume
    <3>5. x \in Contexts \X Requests
      BY <2>0, <3>2, <3>4 DEF CallTyped
    <3>6. <<x>> \in Seq(Contexts \X Requests)
      BY <3>5
    <3>7. uses' = [uses EXCEPT ![o] = <<x>>]
      BY <2>2, <3>2, <3>3
    <3> QED BY <2>3, <3>2, <3>6, <3>7, Facts
  <2>9. UsesInv'
    <3> SUFFICES ASSUME NEW p \in Operations, uses'[p] # <<>>
                 PROVE  /\ operations'[p] # None /\ ~operations'[p].live
                        /\ uses'[p] = <<<<operations'[p].context, operations'[p].request>>>>
      BY DEF UsesInv
    <3>1. CASE p = o
      <4>1. /\ operations'[o] # None /\ operations'[o].context = b.context
            /\ operations'[o].request = b.request
        BY <2>3, <2>7 DEF OperationsFade
      <4> QED BY <2>7, <2>8, <3>1, <4>1
    <3>2. CASE p # o
      <4>1. uses[p] # <<>> /\ uses'[p] = uses[p]
        BY <2>8, <3>2
      <4>2. /\ operations[p] # None /\ ~operations[p].live
            /\ uses[p] = <<<<operations[p].context, operations[p].request>>>>
        BY <4>1 DEF OperationsInv, UsesInv
      <4> QED BY <2>7, <4>1, <4>2 DEF OperationsFade
    <3> QED BY <3>1, <3>2
  <2>10. LimitsInv'
    BY <2>6, <2>7, Facts, PendingFades, FadedLive, LimitsKept
    DEF OperationsInv, Consume, issuerVars
  <2>11. CallsInv'
    BY <2>5, Facts, MarkStays, CallsKept DEF OperationsInv, Consume, guardVars
  <2>12. TypeOK'
    BY <2>4, <2>7, <2>8, <2>11
    DEF OperationsInv, TypeOK, CapabilityTypeOK, CallsInv, Consume, RegistryReads,
        ringVars, guardVars, issuerVars, OperationsFade
  <2>13. RingInv' /\ MarkInv'
    BY DEF OperationsInv, RingInv, MarkInv, DecisionsAgree, Consume, ringVars, guardVars
  <2>14. UsesCurrently
    <3>1. b.step = "refreshed"
      BY <2>0 DEF Consume
    <3>2. b.operation # None /\ b.judged # -1 /\ b.judged >= b.floor
      BY <2>0, <3>1 DEF CallTyped, CallJudged, Judged
    <3>3. registrySeen' = now
      BY DEF Consume, RegistryReads
    <3>4. registrySeen' < operations[o].expires
      <4>1. operations[o] \in OperationRow
        BY <2>3, Facts
      <4>2. operations[o].expires \in Times
        BY <4>1 DEF OperationRow
      <4> QED BY <2>3, <2>4, <3>3, <4>2, OperationsAssumption DEF Times
    <3>5. \A p \in Operations : uses'[p] # uses[p] => p = o
      BY <2>8
    <3>6. registrySeen' >= registrySeen /\ issuerSeen' >= issuerSeen
      BY <2>4, <3>3, NothingFades DEF Consume, issuerVars
    <3> QED BY <2>0, <2>1, <2>3, <2>5, <3>2, <3>4, <3>5, <3>6 DEF UsesCurrently
  <2> QED BY <2>6, <2>9, <2>10, <2>11, <2>12, <2>13, <2>14, NoDecision
          DEF Good, OperationsInv
<1> QED BY <1>1, <1>2

-----------------------------------------------------------------------------
(* The steps of issue: the place that a call reserves is the one that its  *)
(* context takes.                                                          *)

LEMMA IssueBeginGood ==
  ASSUME OperationsInv, NEW t \in Threads, NEW scope \in Scopes,
         NEW now \in Readings(issuerSeen), IssueBegin(t, scope, now)
  PROVE  Good
<1>1. now \in Times /\ now >= issuerSeen
  BY Facts, ReadingsMove
<1>2. PICK rows : rows = Pruned(contexts, now)
  OBVIOUS
<1>3. contexts' = rows /\ ContextsFade(contexts, contexts')
  BY <1>2, Facts, ContextsPruned DEF IssueBegin
<1>4. CASE UNCHANGED thread
  <2>1. ThreadsMove(Plain)
    BY <1>4, NobodyMoves DEF OperationsInv
  <2> QED BY <1>1, <1>3, <2>1, Quiet, NothingFades, Facts
          DEF IssueBegin, ClocksMove, registryVars, ringVars, guardVars
<1>5. CASE /\ Cardinality(Live(rows)) + Cardinality(Pending) < MaxContexts
           /\ Goes(t, [Idle EXCEPT !.step = "authenticating", !.scope = scope])
  <2>1. PICK d : /\ d = [Idle EXCEPT !.step = "authenticating", !.scope = scope]
                 /\ Goes(t, d)
    BY <1>5
  <2>2. d \in Call /\ d.step = "authenticating" /\ d.scope = scope
    BY <2>1, RevisionsAre DEF Idle, Call, Steps
  <2>3. Sound(d, guard', Steps \ {"decided"})
    BY <2>2 DEF Sound, CallTyped, CallJudged, Unjudged, Steps
  <2>4. ThreadsMove(Steps \ {"decided"})
    BY <2>1, <2>3, GoesMoves DEF OperationsInv
  <2>5. CallsInv'
    BY <2>4, Facts, MarkStays, CallsKept DEF OperationsInv, IssueBegin, guardVars
  <2>6. LimitsInv'
    <3>1. Pending' \subseteq Pending \cup {t}
      BY <2>1, Facts DEF Pending, Goes
    <3>2. IsFiniteSet(Pending) /\ Cardinality(Pending) \in Nat
      BY FS_CardinalityType DEF OperationsInv, LimitsInv
    <3>3. PICK all : all = Pending \cup {t}
      OBVIOUS
    <3>4. IsFiniteSet(all) /\ Cardinality(all) \in Nat
          /\ Cardinality(all) <= Cardinality(Pending) + 1
      BY <3>2, <3>3, OneMoreAtMost
    <3>5. /\ IsFiniteSet(Pending') /\ Cardinality(Pending') \in Nat
          /\ Cardinality(Pending') <= Cardinality(all)
      BY <3>1, <3>3, <3>4, FS_Subset, FS_CardinalityType
    <3>6. IsFiniteSet(Live(rows)) /\ Cardinality(Live(rows)) \in Nat
      BY <1>3, FS_Subset, FS_CardinalityType DEF OperationsInv, LimitsInv, ContextsFade
    <3>7. MaxContexts \in Nat
      BY OperationsAssumption DEF IssuerLimits
    <3>8. Cardinality(Live(rows)) + Cardinality(Pending') <= MaxContexts
      BY <1>5, <3>2, <3>4, <3>5, <3>6, <3>7
    <3>9. Live(contexts)' = Live(rows) /\ Live(operations)' = Live(operations)
      BY <1>3 DEF Live, IssueBegin, registryVars
    <3> QED BY <3>5, <3>6, <3>8, <3>9 DEF OperationsInv, LimitsInv
  <2>7. TypeOK'
    BY <1>1, <1>3, <2>5
    DEF OperationsInv, TypeOK, CapabilityTypeOK, CallsInv, IssueBegin,
        ringVars, guardVars, registryVars, ContextsFade
  <2>8. RingInv' /\ MarkInv' /\ UsesInv'
    BY DEF OperationsInv, RingInv, MarkInv, DecisionsAgree, UsesInv, IssueBegin,
           ringVars, guardVars, registryVars
  <2>9. UsesCurrently
    BY <1>1, NothingFades DEF UsesCurrently, IssueBegin, registryVars
  <2> QED BY <2>4, <2>5, <2>6, <2>7, <2>8, <2>9, NoDecision DEF Good, OperationsInv
<1> QED BY <1>2, <1>4, <1>5 DEF IssueBegin

LEMMA IssueEndGood ==
  ASSUME OperationsInv, NEW t \in Threads, NEW c \in Contexts, NEW expires \in Times,
         NEW now \in Readings(issuerSeen), IssueEnd(t, c, expires, now)
  PROVE  Good
<1>1. now \in Times /\ now >= issuerSeen
  BY Facts, ReadingsMove
<1>2. PICK rows : rows = Pruned(contexts, now)
  OBVIOUS
<1>3. ContextsFade(contexts, rows)
  BY <1>2, Facts, ContextsPruned
<1>4. ThreadsMove(Plain)
  BY IdleSound, GoesMoves DEF IssueEnd, OperationsInv, Plain, Steps
<1>5. CASE contexts' = rows
  BY <1>1, <1>3, <1>4, <1>5, Quiet, NothingFades, Facts
  DEF IssueEnd, ClocksMove, registryVars, ringVars, guardVars
<1>6. CASE contexts' = [rows EXCEPT ![c] =
               [scope |-> thread[t].scope, expires |-> expires, live |-> TRUE]]
  <2>1. PICK new : new = [scope |-> thread[t].scope, expires |-> expires, live |-> TRUE]
    OBVIOUS
  <2>2. thread[t].step = "authenticating" /\ thread[t].scope \in Scopes
    BY Facts DEF IssueEnd, CallTyped
  <2>3. new \in ContextRow
    BY <2>1, <2>2 DEF ContextRow
  <2>4. /\ contexts' \in [Contexts -> ContextRow \cup {None}]
        /\ Live(contexts') \subseteq Live(rows) \cup {c}
    BY <1>3, <1>6, <2>1, <2>3 DEF ContextsFade, Live
  <2>5. CallsInv'
    BY <1>4, Facts, MarkStays, CallsKept DEF OperationsInv, IssueEnd, guardVars
  <2>6. LimitsInv'
    <3>1. t \in Pending /\ Pending' \subseteq Pending \ {t}
      <4>1. thread' = [thread EXCEPT ![t] = Idle] /\ Idle.step = "idle"
        BY IdleSound DEF IssueEnd, Goes, Steps
      <4> QED BY <2>2, <4>1, Facts DEF Pending
    <3>2. IsFiniteSet(Pending) /\ Cardinality(Pending) \in Nat
      BY FS_CardinalityType DEF OperationsInv, LimitsInv
    <3>3. PICK rest : rest = Pending \ {t}
      OBVIOUS
    <3>4. IsFiniteSet(rest) /\ Cardinality(rest) = Cardinality(Pending) - 1
          /\ Cardinality(rest) \in Nat
      BY <3>1, <3>2, <3>3, FS_RemoveElement, FS_CardinalityType
    <3>5. /\ IsFiniteSet(Pending') /\ Cardinality(Pending') \in Nat
          /\ Cardinality(Pending') <= Cardinality(rest)
      BY <3>1, <3>3, <3>4, FS_Subset, FS_CardinalityType
    <3>6. /\ IsFiniteSet(Live(contexts)) /\ Cardinality(Live(contexts)) \in Nat
          /\ IsFiniteSet(Live(rows)) /\ Cardinality(Live(rows)) \in Nat
          /\ Cardinality(Live(rows)) <= Cardinality(Live(contexts))
      BY <1>3, FS_Subset, FS_CardinalityType DEF OperationsInv, LimitsInv, ContextsFade
    <3>7. PICK all : all = Live(rows) \cup {c}
      OBVIOUS
    <3>8. IsFiniteSet(all) /\ Cardinality(all) \in Nat
          /\ Cardinality(all) <= Cardinality(Live(rows)) + 1
      BY <3>6, <3>7, OneMoreAtMost
    <3>9. /\ IsFiniteSet(Live(contexts')) /\ Cardinality(Live(contexts')) \in Nat
          /\ Cardinality(Live(contexts')) <= Cardinality(all)
      BY <2>4, <3>7, <3>8, FS_Subset, FS_CardinalityType
    <3>10. MaxContexts \in Nat
      BY OperationsAssumption DEF IssuerLimits
    <3>11. Cardinality(Live(contexts)) + Cardinality(Pending) <= MaxContexts
      BY DEF OperationsInv, LimitsInv
    <3>12. Cardinality(Live(contexts')) + Cardinality(Pending') <= MaxContexts
      BY <3>2, <3>4, <3>5, <3>6, <3>8, <3>9, <3>10, <3>11
    <3>13. Live(contexts)' = Live(contexts') /\ Live(operations)' = Live(operations)
      BY DEF Live, IssueEnd, registryVars
    <3> QED BY <3>5, <3>9, <3>12, <3>13 DEF OperationsInv, LimitsInv
  <2>7. TypeOK'
    BY <1>1, <2>4, <2>5
    DEF OperationsInv, TypeOK, CapabilityTypeOK, CallsInv, IssueEnd,
        ringVars, guardVars, registryVars
  <2>8. RingInv' /\ MarkInv' /\ UsesInv'
    BY DEF OperationsInv, RingInv, MarkInv, DecisionsAgree, UsesInv, IssueEnd,
           ringVars, guardVars, registryVars
  <2>9. UsesCurrently
    BY <1>1, NothingFades DEF UsesCurrently, IssueEnd, registryVars
  <2>10. ThreadsMove(Steps \ {"decided"})
    BY <1>4 DEF ThreadsMove, Plain, Sound
  <2> QED BY <2>5, <2>6, <2>7, <2>8, <2>9, <2>10, NoDecision DEF Good, OperationsInv
<1> QED BY <1>2, <1>5, <1>6 DEF IssueEnd

-----------------------------------------------------------------------------
(* The key ring and the mark.                                              *)

LEMMA RingKept ==
  ASSUME RingInv, keys \in [Kids -> KeyStatus \cup {None}],
         retired \subseteq Kids, dead \subseteq Kids,
         NEW new \in [Kids -> KeyStatus \cup {None}], ReplaceKeys(new)
  PROVE  /\ RingInv' /\ retired' \subseteq Kids /\ dead' \subseteq Kids
         /\ keys' \in [Kids -> KeyStatus \cup {None}]
<1>1. keys' = new
  BY DEF ReplaceKeys
<1>2. ASSUME NEW k \in dead'
      PROVE  keys'[k] = "revoked" \/ (keys'[k] = None /\ k \in retired')
  <2>0. k \in Kids
    BY <1>2 DEF ReplaceKeys
  <2>1. CASE new[k] = "revoked"
    BY <1>1, <2>1
  <2>2. CASE keys[k] # None /\ new[k] = None
    BY <1>1, <2>0, <2>2 DEF ReplaceKeys, RetiredWith
  <2>3. CASE k \in dead
    <3>1. CASE new[k] = None
      BY <1>1, <2>0, <2>3, <3>1, NoneAssumption DEF RingInv, ReplaceKeys, RetiredWith
    <3>2. CASE new[k] # None
      <4>1. /\ k \notin RetiredWith(new)
            /\ keys[k] # None => StatusOrder[new[k]] >= StatusOrder[keys[k]]
        BY <2>0, <3>2 DEF ReplaceKeys, Installable
      <4>2. keys[k] = "revoked"
        BY <2>3, <4>1 DEF RingInv, RetiredWith
      <4>3. StatusOrder[new[k]] >= 2
        BY <4>1, <4>2, NoneAssumption DEF StatusOrder
      <4>4. new[k] = "revoked"
        BY <2>0, <3>2, <4>3 DEF StatusOrder, KeyStatus
      <4> QED BY <1>1, <4>4
    <3> QED BY <3>1, <3>2
  <2> QED BY <1>2, <2>0, <2>1, <2>2, <2>3 DEF ReplaceKeys
<1>3. RingInv'
  BY <1>2 DEF RingInv
<1> QED BY <1>1, <1>3 DEF ReplaceKeys, RetiredWith

LEMMA RotateGood ==
  ASSUME OperationsInv, NEW ring \in Rings, Rotate(ring)
  PROVE  Good
<1>1. ring \in [Kids -> KeyStatus \cup {None}]
  BY OperationsAssumption
<1>2. /\ RingInv' /\ retired' \subseteq Kids /\ dead' \subseteq Kids
      /\ keys' \in [Kids -> KeyStatus \cup {None}]
  BY <1>1, RingKept DEF OperationsInv, TypeOK, CapabilityTypeOK, Rotate
<1>3. ThreadsMove(Plain)
  BY NobodyMoves DEF Rotate, OperationsInv
<1>4. CallsInv' /\ LimitsInv' /\ UsesInv' /\ MarkInv'
  <2>1. LimitsInv'
    BY Zenon DEF OperationsInv, LimitsInv, Live, Pending, Rotate, issuerVars, registryVars
  <2>2. CallsInv' /\ UsesInv' /\ MarkInv'
    BY DEF OperationsInv, CallsInv, UsesInv, MarkInv, DecisionsAgree, Rotate,
           issuerVars, registryVars, guardVars
  <2> QED BY <2>1, <2>2
<1>5. TypeOK'
  BY <1>2 DEF OperationsInv, TypeOK, CapabilityTypeOK, Rotate, issuerVars,
              registryVars, guardVars
<1>6. UsesCurrently
  BY NothingFades DEF UsesCurrently, Rotate, issuerVars, registryVars
<1>7. ThreadsMove(Steps \ {"decided"})
  BY <1>3 DEF ThreadsMove, Plain, Sound
<1> QED BY <1>2, <1>4, <1>5, <1>6, <1>7, NoDecision DEF Good, OperationsInv

LEMMA MarkKept ==
  ASSUME MarkInv, guard \in Snapshots \cup {None}, judged \subseteq Snapshots,
         NEW s \in Snapshots, Accepted(s), guard' = s, judged' = judged \cup {s}
  PROVE  MarkInv' /\ judged' \subseteq Snapshots /\ guard' \in Snapshots
<1>1. \A x \in judged \cup {s} : x.revision \in Nat
  BY RevisionsAre
<1>2. s # None
  BY NoneAssumption
<1>3. \A a \in judged : a.revision <= s.revision /\ (a.revision = s.revision => a = s)
  <2> SUFFICES ASSUME NEW a \in judged
               PROVE  a.revision <= s.revision /\ (a.revision = s.revision => a = s)
    OBVIOUS
  <2>1. guard # None /\ a.revision <= guard.revision /\ guard \in judged
    BY DEF MarkInv, DecisionsAgree
  <2>2. guard.revision \in Nat
    BY <1>1, <2>1
  <2>3. a.revision = guard.revision => a = guard
    BY <2>1 DEF MarkInv, DecisionsAgree
  <2>4. s.revision > guard.revision \/ s = guard
    BY <2>1 DEF Accepted
  <2> QED BY <1>1, <2>1, <2>2, <2>3, <2>4
<1>4. \A a, b \in judged \cup {s} : a.revision = b.revision => a = b
  BY <1>3 DEF MarkInv, DecisionsAgree
<1>5. \A a \in judged \cup {s} : a.revision <= s.revision
  BY <1>1, <1>3
<1> QED BY <1>2, <1>4, <1>5 DEF MarkInv, DecisionsAgree

LEMMA DecideElsewhereGood ==
  ASSUME OperationsInv, NEW s \in Snapshots, DecideElsewhere(s)
  PROVE  Good
<1>1. MarkInv' /\ judged' \subseteq Snapshots /\ guard' \in Snapshots
  BY MarkKept DEF OperationsInv, TypeOK, CapabilityTypeOK, DecideElsewhere
<1>2. Advances(guard, guard')
  BY Facts, AcceptedAdvances DEF DecideElsewhere
<1>3. ThreadsMove(Plain)
  BY NobodyMoves DEF DecideElsewhere, OperationsInv
<1>4. CallsInv'
  BY <1>2, <1>3, Facts, CallsKept DEF OperationsInv
<1>5. LimitsInv'
  BY Zenon DEF OperationsInv, LimitsInv, Live, Pending, DecideElsewhere, issuerVars,
               registryVars
<1>6. RingInv' /\ UsesInv'
  BY DEF OperationsInv, RingInv, UsesInv, DecideElsewhere, ringVars, registryVars
<1>7. TypeOK'
  BY <1>1 DEF OperationsInv, TypeOK, CapabilityTypeOK, DecideElsewhere, issuerVars,
              registryVars, ringVars
<1>8. UsesCurrently
  BY NothingFades DEF UsesCurrently, DecideElsewhere, issuerVars, registryVars
<1>9. ThreadsMove(Steps \ {"decided"})
  BY <1>3 DEF ThreadsMove, Plain, Sound
<1> QED BY <1>1, <1>4, <1>5, <1>6, <1>7, <1>8, <1>9, NoDecision DEF Good, OperationsInv

-----------------------------------------------------------------------------
(* A chain attenuates: what its leaf covers, every claim of it covers.  By *)
(* the least distance from the leaf of a claim that would not.             *)
LEMMA ChainCovers ==
  ASSUME NEW e \in Envelopes, NEW request, NEW audience, NEW now,
         ChainSound(e.claims, audience, now),
         Covers(e.claims[Len(e.claims)], request)
  PROVE  /\ 1 \in DOMAIN e.claims
         /\ \A k \in DOMAIN e.claims : Covers(e.claims[k], request)
<1>0. PICK chain : chain = e.claims
  OBVIOUS
<1>1. PICK n \in Nat \ {0} : n = Len(chain) /\ DOMAIN chain = 1 .. n
  <2>1. chain # <<>> /\ chain \in Seq({chain[k] : k \in DOMAIN chain})
    BY <1>0, CapabilityAssumption DEF EnvelopeSound
  <2>2. PICK S : chain \in Seq(S)
    BY <2>1
  <2>3. Len(chain) \in Nat \ {0} /\ DOMAIN chain = 1 .. Len(chain)
    BY <2>1, <2>2
  <2> QED BY <2>3
<1>2. \A k \in 2 .. n : Attenuates(chain[k - 1], chain[k])
  BY <1>0, <1>1 DEF ChainSound
<1>3. Covers(chain[n], request)
  BY <1>0, <1>1
<1>4. PICK T : T = {d \in Nat : d < n /\ ~Covers(chain[n - d], request)}
  OBVIOUS
<1>5. T = {}
  <2> SUFFICES ASSUME T # {} PROVE FALSE
    OBVIOUS
  <2>1. T \subseteq Nat
    BY <1>4
  <2>2. PICK d \in T : \A c \in T : ~(<<c, d>> \in OpToRel(<, Nat))
    BY <2>1, NatLessThanWellFounded, WFMin, Zenon
  <2>3. \A c \in T : ~(c < d)
    BY <2>1, <2>2 DEF OpToRel
  <2>4. d \in Nat /\ d < n /\ ~Covers(chain[n - d], request)
    BY <1>4
  <2>5. d # 0
    BY <1>1, <1>3, <2>4
  <2>6. d - 1 \in Nat /\ d - 1 < n /\ d - 1 < d /\ n - (d - 1) = (n - d) + 1
    BY <1>1, <2>4, <2>5
  <2>7. d - 1 \notin T
    BY <2>3, <2>6
  <2>8. Covers(chain[n - (d - 1)], request)
    BY <1>4, <2>6, <2>7
  <2>9. PICK k \in 2 .. n : k = n - (d - 1) /\ k - 1 = n - d
    <3>1. n - (d - 1) \in 2 .. n /\ (n - (d - 1)) - 1 = n - d
      BY <1>1, <2>4, <2>5
    <3> QED BY <3>1
  <2>10. Attenuates(chain[k - 1], chain[k]) /\ Covers(chain[k], request)
    BY <1>2, <2>8, <2>9
  <2>11. Covers(chain[k - 1], request)
    BY <2>10 DEF Attenuates, Covers
  <2> QED BY <2>4, <2>9, <2>11
<1>6. \A k \in 1 .. n : Covers(chain[k], request)
  <2> SUFFICES ASSUME NEW k \in 1 .. n PROVE Covers(chain[k], request)
    OBVIOUS
  <2>1. n - k \in Nat /\ n - k < n /\ n - (n - k) = k
    BY <1>1
  <2>2. n - k \notin T
    BY <1>5
  <2>3. Covers(chain[n - (n - k)], request)
    BY <1>4, <2>1, <2>2
  <2> QED BY <2>1, <2>3
<1> QED BY <1>0, <1>1, <1>6

(* What evaluate finds when it allows by a capability.                     *)
Authority(e, request, snapshot, now) ==
  /\ KeyOf[e.kids[1]].root
  /\ \A k \in DOMAIN e.claims :
       /\ Covers(e.claims[k], request)
       /\ e.claims[k].from <= now /\ now < e.claims[k].to
       /\ e.kids[k] \notin dead
       /\ RevocationId(e.claims[k]) \notin snapshot.revoked

LEMMA EvidenceIsAuthority ==
  ASSUME RingInv, NEW request, NEW state, NEW audience, NEW now,
         NEW e \in Envelopes, e \in Evidence(request, state, audience, now)
  PROVE  Authority(e, request, state.snapshot, now)
<1>1. Trusted(e, audience, now) /\ Grants(e, request, state.snapshot, now)
  BY NoneAssumption DEF Evidence
<1>2. /\ ChainSound(e.claims, audience, now)
      /\ \A k \in DOMAIN e.claims : Proves(e.kids[k], e.claims[k], k = 1, now)
  BY <1>1 DEF Trusted
<1>3. Covers(e.claims[Len(e.claims)], request)
  BY <1>1 DEF Grants
<1>4. 1 \in DOMAIN e.claims /\ \A k \in DOMAIN e.claims : Covers(e.claims[k], request)
  BY <1>2, <1>3, ChainCovers
<1>5. KeyOf[e.kids[1]].root
  <2>1. Proves(e.kids[1], e.claims[1], 1 = 1, now)
    BY <1>2, <1>4
  <2> QED BY <2>1 DEF Proves
<1>6. ASSUME NEW k \in DOMAIN e.claims
      PROVE  e.kids[k] \notin dead
  <2>1. PICK root \in BOOLEAN : Proves(e.kids[k], e.claims[k], root, now)
    BY <1>2
  <2>2. keys[e.kids[k]] \in {"active", "verify_only"}
    BY <2>1 DEF Proves
  <2> QED BY <2>2, NoneAssumption DEF RingInv
<1>7. \A k \in DOMAIN e.claims :
        /\ RevocationId(e.claims[k]) \notin state.snapshot.revoked
        /\ e.claims[k].from <= now /\ now < e.claims[k].to
  BY <1>1 DEF Grants
<1> QED BY <1>4, <1>5, <1>6, <1>7 DEF Authority

LEMMA EvaluateGood ==
  ASSUME OperationsInv, NEW t \in Threads, Evaluate(t)
  PROVE  Good
<1>0. PICK b \in Call : b = thread[t] /\ CallTyped(b) /\ CallJudged(b, guard)
  BY Facts
<1>1. PICK state \in States, now \in Times :
        /\ Decide(b.request, state, now)
        /\ \E x \in Outcomes(b.request, state, "service", now) :
             Goes(t, [b EXCEPT
                      !.step = "decided", !.observed = state.observed,
                      !.evaluated = now, !.evidence = x, !.at = None,
                      !.judged = IF x = None \/ b.operation = None
                                 THEN -1 ELSE state.snapshot.revision])
  BY <1>0 DEF Evaluate
<1>2. PICK x, d :
        /\ x \in Outcomes(b.request, state, "service", now)
        /\ d = [b EXCEPT
                 !.step = "decided", !.observed = state.observed,
                 !.evaluated = now, !.evidence = x, !.at = None,
                 !.judged = IF x = None \/ b.operation = None
                            THEN -1 ELSE state.snapshot.revision]
        /\ Goes(t, d)
  BY <1>1
<1>3. /\ b.step = "observed" /\ b.request \in Requests /\ b.context \in Contexts
      /\ b.expires \in Times /\ Bounded(b, guard)
  BY <1>0 DEF Evaluate, CallTyped, CallJudged, Unjudged
<1>4. PICK s \in Snapshots : s = state.snapshot
  BY DEF States
<1>5. state.observed \in Times /\ state.envelopes \subseteq Envelopes
  BY DEF States
<1>6. x # None => Judges(b.request, state, now) /\ x \in Evidence(b.request, state, "service", now)
  BY <1>2 DEF Outcomes
<1>7. x \in Envelopes \cup {Role, None}
  BY <1>5, <1>6 DEF Evidence
<1>8. /\ MarkInv' /\ judged' \subseteq Snapshots /\ Advances(guard, guard')
      /\ x # None => guard' = s
  <2>1. CASE Judges(b.request, state, now)
    <3>1. Accepted(s) /\ guard' = s /\ judged' = judged \cup {s}
      BY <1>1, <1>4, <2>1 DEF Decide, Judges
    <3> QED BY <3>1, Facts, MarkKept, AcceptedAdvances DEF OperationsInv, TypeOK, CapabilityTypeOK
  <2>2. CASE ~Judges(b.request, state, now)
    <3>1. guard' = guard /\ judged' = judged
      BY <1>1, <2>2 DEF Decide, guardVars
    <3>2. MarkInv'
      BY <3>1 DEF OperationsInv, MarkInv, DecisionsAgree
    <3> QED BY <1>6, <2>2, <3>1, <3>2, Facts, MarkStays DEF OperationsInv, TypeOK, CapabilityTypeOK
  <2> QED BY <2>1, <2>2
<1>9. (IF x = None \/ b.operation = None THEN -1 ELSE s.revision) \in Revisions
  BY RevisionsAre DEF Revisions
<1>10. d \in Call
  <2>1. PICK j \in Revisions :
          j = IF x = None \/ b.operation = None THEN -1 ELSE state.snapshot.revision
    BY <1>4, <1>9
  <2>2. d = [b EXCEPT !.step = "decided", !.observed = state.observed,
                      !.evaluated = now, !.evidence = x, !.at = None, !.judged = j]
    BY <1>2, <2>1
  <2> QED BY <1>5, <1>7, <2>2 DEF Call, Steps
<1>11. /\ d.step = "decided" /\ d.observed = state.observed /\ d.evaluated = now
       /\ d.evidence = x /\ d.context = b.context /\ d.request = b.request
       /\ d.expires = b.expires /\ d.operation = b.operation /\ d.floor = b.floor
       /\ d.judged = IF x = None \/ b.operation = None THEN -1 ELSE s.revision
  BY <1>2, <1>4 DEF Call
<1>12. CallTyped(d)
  BY <1>3, <1>5, <1>11 DEF CallTyped
<1>13. CallJudged(d, guard')
  <2>1. ASSUME x # None, b.operation # None
        PROVE  s.revision # -1 /\ s.revision >= b.floor
    <3>1. guard # None => guard.revision <= s.revision
      BY <1>8, <2>1 DEF Advances
    <3>2. s.revision \in Nat /\ b.floor \in Int /\ (guard # None => guard.revision \in Nat)
      BY Facts, RevisionsAre DEF Call
    <3> QED BY <1>3, <3>1, <3>2 DEF Bounded
  <2> QED BY <1>11, <2>1 DEF CallJudged, Unjudged, Judged
<1>14. ThreadsMove(Steps \ {"authenticating"})
  <2>1. Sound(d, guard', Steps \ {"authenticating"})
    BY <1>10, <1>11, <1>12, <1>13 DEF Sound, Steps
  <2> QED BY <1>2, <2>1, GoesMoves DEF OperationsInv
<1>15. CallsInv'
  BY <1>8, <1>14, Facts, CallsKept DEF OperationsInv
<1>16. LimitsInv'
  <2>1. operations' = operations /\ contexts' = contexts
    BY DEF Evaluate, issuerVars, registryVars
  <2> QED BY <2>1, <1>14, PendingFades, LimitsKept DEF OperationsInv
<1>17. RingInv' /\ UsesInv'
  BY DEF OperationsInv, RingInv, UsesInv, Evaluate, ringVars, registryVars
<1>18. TypeOK'
  BY <1>8, <1>15 DEF OperationsInv, TypeOK, CapabilityTypeOK, CallsInv, Advances, Evaluate,
                     ringVars, issuerVars, registryVars
<1>19. UsesCurrently
  BY NothingFades DEF UsesCurrently, Evaluate, issuerVars, registryVars
<1>20. DecidesByAuthority
  <2> SUFFICES ASSUME NEW u \in Threads, NEW e, e = thread'[u].evidence,
                      thread[u].step = "observed", thread'[u].step = "decided",
                      e \in Envelopes
               PROVE  /\ KeyOf[e.kids[1]].root
                      /\ guard' # None
                      /\ \A k \in DOMAIN e.claims :
                           /\ Covers(e.claims[k], thread[u].request)
                           /\ e.claims[k].from <= thread'[u].evaluated
                           /\ thread'[u].evaluated < e.claims[k].to
                           /\ e.kids[k] \notin dead
                           /\ RevocationId(e.claims[k]) \notin guard'.revoked
    BY DEF DecidesByAuthority
  <2>1. u = t /\ thread'[u] = d
    BY <1>2, Facts DEF Goes
  <2>2. e = x /\ x # None
    BY <1>11, <2>1, NoneAssumption
  <2>3. Authority(e, b.request, s, now) /\ guard' = s
    BY <1>4, <1>6, <1>8, <2>2, EvidenceIsAuthority DEF OperationsInv
  <2> QED BY <1>0, <1>4, <1>11, <2>1, <2>3, NoneAssumption DEF Authority
<1> QED BY <1>8, <1>15, <1>16, <1>17, <1>18, <1>19, <1>20 DEF Good, OperationsInv

-----------------------------------------------------------------------------
LEMMA OperationsInitial == Init => OperationsInv
<1> SUFFICES ASSUME Init PROVE OperationsInv
  OBVIOUS
<1>0. MaxTime \in Nat /\ MaxOperations \in Nat /\ MaxContexts \in Nat
  BY OperationsAssumption DEF IssuerLimits, ComposerLimits
<1>1. \A t \in Threads : Sound(thread[t], guard, Plain) /\ thread[t].step = "idle"
  BY IdleSound DEF Init, Plain, Steps
<1>2. CallsInv
  <2>1. thread = [t \in Threads |-> thread[t]]
    BY DEF Init
  <2> QED BY <1>1, <2>1 DEF CallsInv, Sound
<1>3. TypeOK
  <2>1. uses \in [Operations -> Seq(Contexts \X Requests)]
    BY DEF Init
  <2>2. keys \in [Kids -> KeyStatus \cup {None}]
    BY DEF Init, KeyStatus
  <2> QED BY <1>0, <1>2, <2>1, <2>2 DEF Init, TypeOK, CapabilityTypeOK, CallsInv, Times
<1>4. RingInv /\ MarkInv /\ UsesInv
  BY DEF Init, RingInv, MarkInv, DecisionsAgree, UsesInv
<1>5. LimitsInv
  <2>1. Live(operations) = {} /\ Live(contexts) = {}
    BY DEF Init, Live
  <2>2. Pending = {}
    BY <1>1 DEF Pending
  <2>3. IsFiniteSet({}) /\ Cardinality({}) = 0
    BY FS_EmptySet
  <2> QED BY <1>0, <2>1, <2>2, <2>3 DEF LimitsInv
<1> QED BY <1>2, <1>3, <1>4, <1>5 DEF OperationsInv

LEMMA OperationsStep ==
  OperationsInv /\ [Next]_vars =>
    OperationsInv' /\ [UsesCurrently]_vars /\ [DecidesByAuthority]_vars
<1> SUFFICES ASSUME OperationsInv, [Next]_vars
             PROVE  OperationsInv' /\ [UsesCurrently]_vars /\ [DecidesByAuthority]_vars
  OBVIOUS
<1>1. CASE UNCHANGED vars
  <2>1. OperationsInv'
    <3>1. ThreadsMove(Plain)
      BY <1>1, NobodyMoves DEF vars, OperationsInv
    <3> QED BY <1>1, <3>1, Quiet, NothingFades, Facts
            DEF vars, ringVars, guardVars, issuerVars, registryVars, ClocksMove, Good
  <2> QED BY <1>1, <2>1
<1>2. CASE Next
  <2>1. ASSUME NEW t \in Threads, ThreadStep(t) PROVE Good
    <3>1. CASE Fail(t)
      BY <3>1, FailGood
    <3>2. CASE Evaluate(t)
      BY <3>2, EvaluateGood
    <3>3. ASSUME NEW now \in Readings(issuerSeen),
                 \/ \E s \in Scopes : IssueBegin(t, s, now)
                 \/ \E c \in Contexts, x \in Times : IssueEnd(t, c, x, now)
                 \/ \E o \in Issued \cup {None}, c \in Contexts, r \in Requests :
                      Begin(t, o, c, r, now)
                 \/ Refresh(t, now)
          PROVE  Good
      BY <3>3, IssueBeginGood, IssueEndGood, BeginGood, RefreshGood
    <3>4. ASSUME NEW now \in Readings(registrySeen),
                 \/ Check(t, now)
                 \/ Observe(t, now)
                 \/ Allow(t, now)
                 \/ Consume(t, now)
                 \/ \E o \in Operations : Register(t, o, now)
          PROVE  Good
      BY <3>4, CheckGood, ObserveGood, AllowGood, ConsumeGood, RegisterGood
    <3> QED BY <2>1, <3>1, <3>2, <3>3, <3>4 DEF ThreadStep
  <2>2. Good
    BY <1>2, <2>1, RetireContextGood, RetireGood, CloseIssuerGood, CloseComposerGood,
       RotateGood, DecideElsewhereGood DEF Next
  <2> QED BY <2>2 DEF Good
<1> QED BY <1>1, <1>2

(* The invariant of request contexts, handles, the key ring and the mark   *)
(* holds in every reachable state.                                         *)
THEOREM OperationsInvariance == Spec => []OperationsInv
<1>1. OperationsInv /\ [Next]_vars => OperationsInv'
  BY OperationsStep
<1> QED BY <1>1, OperationsInitial, PTL DEF Spec

(* The variables keep their types: in particular what a call has read      *)
(* before it calls out is there when it goes on (_evaluate_current_-       *)
(* authorization, _consume).                                               *)
THEOREM OperationsTypeCorrect == Spec => []TypeOK
<1>1. OperationsInv => TypeOK
  BY DEF OperationsInv
<1> QED BY <1>1, OperationsInvariance, PTL

(* All requests are judged by one state of each revision, and the mark is  *)
(* the last of them, for any number of processes and any order of          *)
(* snapshots (check_and_advance).                                          *)
THEOREM AllDecisionsAgree == Spec => []DecisionsAgree
<1>1. OperationsInv => DecisionsAgree
  BY DEF OperationsInv, MarkInv
<1> QED BY <1>1, OperationsInvariance, PTL

(* A handle is used once and as it was authorized, and neither registry    *)
(* outgrows its limit, for any number of threads (consume_request, issue). *)
THEOREM HandlesAreUsedAsAuthorized == Spec => []UsedAsAuthorized
<1>1. OperationsInv => UsedAsAuthorized
  BY DEF OperationsInv, UsesInv, LimitsInv, UsedAsAuthorized
<1> QED BY <1>1, OperationsInvariance, PTL

(* A use is judged by a snapshot no older than the mark its call began at, *)
(* and clocks that go back revive nothing (_consume).                      *)
THEOREM UsesAreCurrent == Spec => UseIsCurrent
<1>1. OperationsInv /\ [Next]_vars => OperationsInv' /\ [UsesCurrently]_vars
  BY OperationsStep
<1> QED BY <1>1, OperationsInitial, PTL DEF Spec, UseIsCurrent

(* A capability allows a request only by a chain of which every claim      *)
(* covers the request, is in its interval, is proved by a key that never   *)
(* died and is not revoked by the mark, for chains of any length           *)
(* (evaluate, validate_delegation, replace_keys).                          *)
THEOREM CapabilitiesAllowByAuthority == Spec => AllowedByAuthority
<1>1. OperationsInv /\ [Next]_vars => OperationsInv' /\ [DecidesByAuthority]_vars
  BY OperationsStep
<1> QED BY <1>1, OperationsInitial, PTL DEF Spec, AllowedByAuthority
=============================================================================
