------------------------- MODULE OrchestratorProofs -------------------------
(***************************************************************************)
(* Proofs about one session of the orchestrator kernel (Orchestrator), for *)
(* every plan, every number of tasks and every bound on concurrency.       *)
(***************************************************************************)
EXTENDS Orchestrator, TLAPS, SequenceTheorems, WellFoundedInduction

-----------------------------------------------------------------------------
(* The inductive invariant.  The durable graph, which is what recovery     *)
(* makes of the log, and the graph in memory are both sound; memory is     *)
(* behind the durable graph; every revision is in the log under its key,   *)
(* so that an append of a stale move fails; and a coroutine that works on  *)
(* a task finds it RUNNING in the log.                                     *)

Durable == Replay(log).graph

Approved(t) == \E n \in 1 .. Len(log) : log[n] = DecidedEvent(t, "approve")

Published(t) == Logged("artifact", t) /\ Logged("result", t)

Announced(t) == \E n \in 1 .. Len(log) : log[n] = Event("started", t)

RequestFits(status, request) ==
  /\ status \in {"pending", "blocked"} => request = None
  /\ status \in {"ready", "running", "completed", "superseded", "failed"} =>
       request \in {None, "approve"}
  /\ status = "waiting_approval" <=> request = "pending"

TaskSound(g, t) ==
  /\ RequestFits(g.status[t], g.request[t])
  /\ g.request[t] = "approve" => Approved(t)
  /\ g.status[t] \in Done => Published(t)
  /\ g.status[t] \notin {"pending", "blocked"} => \A d \in plan[t].deps : Published(d)

GraphSound(g) == g \in Projection /\ \A t \in Tasks : TaskSound(g, t)

Candidates ==
  [graph : Projection, planned : BOOLEAN, created : Seq(Tasks), moved : BOOLEAN,
   awaiting : [Tasks -> Nat], due : [Tasks -> Nat], ok : BOOLEAN]

(* Nothing is half done: no transition waits for its request and no        *)
(* decision for its transition.                                            *)
Clean(c) ==
  /\ c \in Candidates
  /\ c.ok /\ c.planned /\ c.created = Order
  /\ \A t \in Tasks : c.awaiting[t] = 0 /\ c.due[t] = 0

ReplayInv ==
  /\ log = <<>> \/ Clean(Replay(log))
  /\ GraphSound(Durable)

RevisionsLogged ==
  \A t \in Tasks : \A r \in 1 .. Durable.rev[t] :
    \E i \in 1 .. Len(log) : Key(log[i]) = <<"status", t, r>>

Follows(m, g) ==
  \A t \in Tasks :
    /\ m.rev[t] <= g.rev[t]
    /\ m.rev[t] = g.rev[t] => m.status[t] = g.status[t] /\ m.request[t] = g.request[t]

MemoryInv == Loaded => log # <<>> /\ GraphSound(mem) /\ Follows(mem, Durable)

HighImpact(i) ==
  \/ i.irreversible \/ i.risk >= 3
  \/ i.external /\ ~(i.granted /\ i.mayAffect)

Cleared(t) ==
  /\ ~plan[t].forbidden /\ (HighImpact(plan[t]) => Approved(t))
  /\ \A d \in plan[t].deps : Published(d)

Working == {"compiling", "announcing", "started", "invoking", "failing",
            "recording", "publishing", "completing"}

CoroutineSound(t) ==
  /\ pc[t] \in {"queued", "hook"} => mem.status[t] = "ready"
  /\ pc[t] \in Working =>
       mem.status[t] = "running" /\ mem.rev[t] = Durable.rev[t] /\ Cleared(t)
  /\ pc[t] \in {"announcing", "started"} => Logged("context", t)
  /\ pc[t] = "started" => Announced(t) /\ invoked[t] = 0
  /\ pc[t] \in {"publishing", "completing"} => Logged("artifact", t)
  /\ pc[t] = "completing" => Logged("result", t)

CallSound(t) ==
  /\ invoked[t] <= 1
  /\ invoked[t] = 1 => Logged("context", t) /\ Announced(t) /\ Cleared(t)

RunInv ==
  /\ run # "idle" => Loaded
  /\ run # "batch" => \A t \in Tasks : pc[t] = "none"
  /\ \A t \in Tasks : CoroutineSound(t) /\ CallSound(t)

KernelInv ==
  /\ TypeOK
  /\ ReplayInv
  /\ RevisionsLogged
  /\ MemoryInv
  /\ RunInv

-----------------------------------------------------------------------------
(* Replay is a fold: what it makes of a longer stream is one step of what  *)
(* it made of the stream.                                                  *)

IsReplay(f, s) ==
  f = [n \in 0 .. Len(s) |->
         IF n = 0 THEN Candidate ELSE Stepped(f[n - 1], s[n], n)]

LEMMA ReplayIs ==
  ASSUME NEW s
  PROVE  Replay(s) = (CHOOSE f : IsReplay(f, s))[Len(s)]
BY DEF Replay, IsReplay

(* A set of numbers that is not empty has a least one. *)
LEMMA LeastExists ==
  ASSUME NEW T, T \subseteq Nat, T # {}
  PROVE  \E d \in T : \A c \in T : ~(c < d)
<1>1. PICK d \in T : \A c \in T : ~(<<c, d>> \in OpToRel(<, Nat))
  BY NatLessThanWellFounded, WFMin, Zenon
<1>2. \A c \in T : ~(c < d)
  BY <1>1 DEF OpToRel
<1> QED BY <1>2

LEMMA ReplayExists ==
  ASSUME NEW s, Len(s) \in Nat
  PROVE  \E f : IsReplay(f, s)
<1> DEFINE Upto(f, m) ==
      f = [n \in 0 .. m |-> IF n = 0 THEN Candidate ELSE Stepped(f[n - 1], s[n], n)]
<1>1. PICK T : T = {m \in Nat : ~\E f : Upto(f, m)}
  OBVIOUS
<1>2. ASSUME T # {} PROVE FALSE
  <2>1. PICK m \in T : \A c \in T : ~(c < m)
    BY <1>1, <1>2, LeastExists
  <2>2. m \in Nat /\ ~\E f : Upto(f, m)
    BY <1>1
  <2>3. CASE m = 0
    <3>1. PICK f : f = [n \in 0 .. 0 |-> Candidate]
      OBVIOUS
    <3>2. Upto(f, 0)
      BY <3>1
    <3> QED BY <2>2, <2>3, <3>2
  <2>4. CASE m # 0
    <3>1. m - 1 \in Nat /\ m - 1 < m
      BY <2>2, <2>4
    <3>2. m - 1 \notin T
      BY <2>1, <3>1
    <3>3. PICK f : Upto(f, m - 1)
      BY <1>1, <3>1, <3>2
    <3>4. PICK h : h = [n \in 0 .. m |-> IF n = m THEN Stepped(f[m - 1], s[m], m) ELSE f[n]]
      OBVIOUS
    <3>5. ASSUME NEW n \in 0 .. m
          PROVE  h[n] = IF n = 0 THEN Candidate ELSE Stepped(h[n - 1], s[n], n)
      <4>1. CASE n = m
        <5>1. m - 1 \in 0 .. m /\ m - 1 # m /\ h[n - 1] = f[m - 1]
          BY <3>1, <3>4, <4>1
        <5> QED BY <2>2, <2>4, <3>4, <4>1, <5>1
      <4>2. CASE n # m
        <5>1. n \in 0 .. m - 1 /\ h[n] = f[n]
          BY <2>2, <3>4, <4>2
        <5>2. f[n] = IF n = 0 THEN Candidate ELSE Stepped(f[n - 1], s[n], n)
          BY <3>3, <5>1
        <5>3. CASE n = 0
          BY <5>1, <5>2, <5>3
        <5>4. CASE n # 0
          <6>1. n - 1 \in 0 .. m /\ n - 1 # m
            BY <2>2, <5>1, <5>4
          <6>2. h[n - 1] = f[n - 1]
            BY <3>4, <6>1
          <6> QED BY <5>1, <5>2, <5>4, <6>2
        <5> QED BY <5>3, <5>4
      <4> QED BY <4>1, <4>2
    <3>6. Upto(h, m)
      BY <3>4, <3>5
    <3> QED BY <2>2, <3>6
  <2> QED BY <2>3, <2>4
<1>3. \E f : Upto(f, Len(s))
  BY <1>1, <1>2
<1> QED BY <1>3 DEF IsReplay

LEMMA ReplayUnique ==
  ASSUME NEW s, Len(s) \in Nat, NEW f, IsReplay(f, s), NEW h, IsReplay(h, s)
  PROVE  f = h
<1>1. PICK T : T = {m \in 0 .. Len(s) : f[m] # h[m]}
  OBVIOUS
<1>2. \A n \in 0 .. Len(s) :
        /\ f[n] = IF n = 0 THEN Candidate ELSE Stepped(f[n - 1], s[n], n)
        /\ h[n] = IF n = 0 THEN Candidate ELSE Stepped(h[n - 1], s[n], n)
  BY DEF IsReplay
<1>3. ASSUME T # {} PROVE FALSE
  <2>0. T \subseteq Nat
    BY <1>1
  <2>1. PICK m \in T : \A c \in T : ~(c < m)
    BY <1>3, <2>0, LeastExists
  <2>2. m \in 0 .. Len(s) /\ f[m] # h[m]
    BY <1>1
  <2>3. m # 0
    BY <1>2, <2>2
  <2>4. m - 1 \in 0 .. Len(s) /\ m - 1 < m
    BY <2>2, <2>3
  <2>5. f[m - 1] = h[m - 1]
    BY <1>1, <2>1, <2>4
  <2> QED BY <1>2, <2>2, <2>3, <2>5
<1>4. \A n \in 0 .. Len(s) : f[n] = h[n]
  BY <1>1, <1>3
<1> QED BY <1>4 DEF IsReplay

LEMMA ReplayEmpty == Replay(<<>>) = Candidate
<1>1. PICK s : s = <<>> /\ Len(s) = 0
  OBVIOUS
<1>2. PICK f : f = CHOOSE x : IsReplay(x, s)
  OBVIOUS
<1>3. IsReplay(f, s)
  BY <1>1, <1>2, ReplayExists
<1>4. f[0] = Candidate
  BY <1>1, <1>3 DEF IsReplay
<1> QED BY <1>1, <1>2, <1>4, ReplayIs

LEMMA ReplayAppend ==
  ASSUME NEW S, NEW s \in Seq(S), NEW e \in S
  PROVE  Replay(Append(s, e)) = Stepped(Replay(s), e, Len(s) + 1)
<1>1. PICK t : t = Append(s, e)
  OBVIOUS
<1>2. PICK k \in Nat : k = Len(s)
  OBVIOUS
<1>3. Len(t) = k + 1 /\ t[k + 1] = e /\ \A n \in 1 .. k : t[n] = s[n]
  BY <1>1, <1>2
<1>4. PICK f, h : f = (CHOOSE x : IsReplay(x, s)) /\ h = (CHOOSE x : IsReplay(x, t))
  OBVIOUS
<1>5. IsReplay(f, s) /\ IsReplay(h, t)
  BY <1>2, <1>3, <1>4, ReplayExists
<1>6. PICK r : r = [n \in 0 .. k |-> h[n]]
  OBVIOUS
<1>7. ASSUME NEW n \in 0 .. k
      PROVE  r[n] = IF n = 0 THEN Candidate ELSE Stepped(r[n - 1], s[n], n)
  <2>1. n \in 0 .. k + 1
    OBVIOUS
  <2>2. h[n] = IF n = 0 THEN Candidate ELSE Stepped(h[n - 1], t[n], n)
    BY <1>3, <1>5, <2>1 DEF IsReplay
  <2>3. CASE n = 0
    BY <1>6, <2>2, <2>3
  <2>4. CASE n # 0
    <3>1. n \in 1 .. k /\ n - 1 \in 0 .. k
      BY <2>4
    <3> QED BY <1>3, <1>6, <2>2, <2>4, <3>1
  <2> QED BY <2>3, <2>4
<1>8. IsReplay(r, s)
  BY <1>2, <1>6, <1>7 DEF IsReplay
<1>9. f = r
  BY <1>2, <1>5, <1>8, ReplayUnique
<1>10. h[k + 1] = Stepped(h[k], e, k + 1)
  <2>1. k + 1 \in 0 .. k + 1 /\ k + 1 # 0 /\ (k + 1) - 1 = k
    OBVIOUS
  <2> QED BY <1>3, <1>5, <2>1 DEF IsReplay
<1>11. f[k] = h[k]
  BY <1>6, <1>9
<1> QED BY <1>1, <1>2, <1>3, <1>4, <1>10, <1>11, ReplayIs

-----------------------------------------------------------------------------
(* What one event does to a candidate.                                     *)

Even(c) == \A t \in Tasks : c.awaiting[t] = 0 /\ c.due[t] = 0

LEMMA OrderFacts ==
  /\ Order \in Seq(Tasks) /\ Len(Order) \in Nat \ {0} /\ DOMAIN Order = 1 .. Len(Order)
  /\ \A i \in 1 .. Len(Order) : Order[i] \in Tasks
  /\ \A i, j \in 1 .. Len(Order) : Order[i] = Order[j] => i = j
  /\ \A t \in Tasks : \E i \in 1 .. Len(Order) : Order[i] = t
<1>1. /\ Order \in Seq(Tasks) /\ Len(Order) > 0 /\ Len(Order) \in Nat
      /\ DOMAIN Order = 1 .. Len(Order)
  BY OrderAssumption
<1>2. \A i, j \in DOMAIN Order : Order[i] = Order[j] => i = j
  BY OrderAssumption DEF IsInjective
<1> QED BY <1>1, <1>2 DEF Tasks

LEMMA GraphFacts ==
  ASSUME NEW g \in Projection
  PROVE  /\ g.status \in [Tasks -> Statuses] /\ g.rev \in [Tasks -> Nat]
         /\ g.request \in [Tasks -> {None, "pending"} \cup Decisions]
         /\ g = [status |-> g.status, rev |-> g.rev, request |-> g.request]
BY DEF Projection

Same(m, g, t) ==
  m.status[t] = g.status[t] /\ m.rev[t] = g.rev[t] /\ m.request[t] = g.request[t]

LEMMA MovedIs ==
  ASSUME NEW g \in Projection, NEW t \in Tasks, NEW to \in Statuses
  PROVE  /\ Moved(g, t, to) \in Projection
         /\ Moved(g, t, to).status[t] = to
         /\ Moved(g, t, to).rev[t] = g.rev[t] + 1
         /\ Moved(g, t, to).request = g.request
         /\ \A u \in Tasks \ {t} : Same(Moved(g, t, to), g, u)
<1>1. PICK h : h = Moved(g, t, to)
  OBVIOUS
<1>2. /\ h.status = [g.status EXCEPT ![t] = to]
      /\ h.rev = [g.rev EXCEPT ![t] = g.rev[t] + 1]
      /\ h.request = g.request
      /\ h = [status |-> h.status, rev |-> h.rev, request |-> h.request]
  BY <1>1, GraphFacts DEF Moved, Projection
<1>3. h.status \in [Tasks -> Statuses] /\ h.rev \in [Tasks -> Nat]
  BY <1>2, GraphFacts
<1>4. h \in Projection
  BY <1>2, <1>3, GraphFacts DEF Projection
<1>5. h.status[t] = to /\ h.rev[t] = g.rev[t] + 1
  BY <1>2, GraphFacts
<1>6. \A u \in Tasks \ {t} : Same(h, g, u)
  BY <1>2, GraphFacts DEF Same
<1> QED BY <1>1, <1>2, <1>4, <1>5, <1>6

LEMMA CandidateFacts ==
  ASSUME NEW c \in Candidates
  PROVE  /\ c.graph \in Projection /\ c.planned \in BOOLEAN /\ c.created \in Seq(Tasks)
         /\ c.awaiting \in [Tasks -> Nat] /\ c.due \in [Tasks -> Nat]
         /\ c.moved \in BOOLEAN /\ c.ok \in BOOLEAN
         /\ c = [graph |-> c.graph, planned |-> c.planned, created |-> c.created,
                 moved |-> c.moved, awaiting |-> c.awaiting, due |-> c.due, ok |-> c.ok]
BY DEF Candidates

LEMMA StatusEventIs ==
  ASSUME NEW t \in Tasks, NEW from \in Statuses, NEW to \in Statuses, NEW rev \in Nat
  PROVE  /\ StatusEvent(t, from, to, rev) \in Events
         /\ StatusEvent(t, from, to, rev).type = "status"
         /\ StatusEvent(t, from, to, rev).task = t
         /\ StatusEvent(t, from, to, rev).from = from
         /\ StatusEvent(t, from, to, rev).to = to
         /\ StatusEvent(t, from, to, rev).rev = rev
         /\ Key(StatusEvent(t, from, to, rev)) = <<"status", t, rev>>
<1>1. PICK e : e = StatusEvent(t, from, to, rev)
  OBVIOUS
<1>2. /\ e.type = "status" /\ e.task = t /\ e.from = from /\ e.to = to /\ e.rev = rev
      /\ e.decision = None
      /\ e = [type |-> e.type, task |-> e.task, from |-> e.from, to |-> e.to,
              rev |-> e.rev, decision |-> e.decision]
  BY <1>1 DEF StatusEvent, Event
<1>3. e \in Events
  BY <1>2 DEF Events, EventTypes
<1>4. Key(e) = <<"status", t, rev>>
  BY <1>2 DEF Key
<1> QED BY <1>1, <1>2, <1>3, <1>4

(* A move that is neither to nor from an approval.                         *)
LEMMA StatusSteps ==
  ASSUME NEW c \in Candidates, c.ok, c.planned, c.created = Order,
         NEW t \in Tasks, NEW to \in Statuses, NEW n \in Nat, NEW e,
         e = StatusEvent(t, c.graph.status[t], to, c.graph.rev[t] + 1),
         to \in Allowed[c.graph.status[t]],
         c.graph.status[t] # "waiting_approval", to # "waiting_approval"
  PROVE  /\ Stepped(c, e, n) \in Candidates
         /\ Stepped(c, e, n).ok /\ Stepped(c, e, n).planned
         /\ Stepped(c, e, n).created = Order
         /\ Stepped(c, e, n).graph = Moved(c.graph, t, to)
         /\ Stepped(c, e, n).awaiting = c.awaiting /\ Stepped(c, e, n).due = c.due
<1>1. PICK g : g = c.graph
  OBVIOUS
<1>2. g \in Projection /\ g.status[t] \in Statuses /\ g.rev[t] \in Nat
  BY <1>1, CandidateFacts, GraphFacts
<1>3. /\ e.type = "status" /\ e.task = t /\ e.from = g.status[t] /\ e.to = to
      /\ e.rev = g.rev[t] + 1
  BY <1>1, <1>2, StatusEventIs
<1>4. Accepted(c, e, n)
  BY <1>1, <1>3 DEF Accepted, StatusAccepted
<1>5. PICK d : d = Applied(c, e, n)
  OBVIOUS
<1>6. PICK h \in Projection : h = Moved(g, t, to)
  BY <1>2, MovedIs
<1>7. d = [c EXCEPT !.moved = TRUE, !.graph = Moved(@, t, to),
                    !.due[t] = c.due[t], !.awaiting[t] = c.awaiting[t]]
  BY <1>1, <1>3, <1>5 DEF Applied
<1>8. /\ d.graph = h /\ d.moved = TRUE /\ d.planned = c.planned /\ d.ok = c.ok
      /\ d.created = c.created /\ d.due = c.due /\ d.awaiting = c.awaiting
      /\ d = [graph |-> d.graph, planned |-> d.planned, created |-> d.created,
              moved |-> d.moved, awaiting |-> d.awaiting, due |-> d.due, ok |-> d.ok]
  <2>1. PICK u, v : u = [c.due EXCEPT ![t] = c.due[t]] /\ v = [c.awaiting EXCEPT ![t] = c.awaiting[t]]
    OBVIOUS
  <2>2. u = c.due /\ v = c.awaiting
    BY <2>1, CandidateFacts
  <2>3. d = [c EXCEPT !.moved = TRUE, !.graph = h, !.due = u, !.awaiting = v]
    BY <1>1, <1>6, <1>7, <2>1
  <2>4. c = [graph |-> c.graph, planned |-> c.planned, created |-> c.created,
             moved |-> c.moved, awaiting |-> c.awaiting, due |-> c.due, ok |-> c.ok]
    BY CandidateFacts
  <2>5. d = [graph |-> h, planned |-> c.planned, created |-> c.created,
             moved |-> TRUE, awaiting |-> c.awaiting, due |-> c.due, ok |-> c.ok]
    BY <2>2, <2>3, <2>4
  <2> QED BY <2>5
<1>9. d \in Candidates
  BY <1>8, CandidateFacts DEF Candidates
<1>10. Stepped(c, e, n) = d
  BY <1>4, <1>5 DEF Stepped
<1> QED BY <1>1, <1>6, <1>8, <1>9, <1>10

LEMMA EventIs ==
  ASSUME NEW type \in EventTypes, NEW t \in Tasks \cup {None}
  PROVE  /\ Event(type, t) \in Events
         /\ Event(type, t).type = type /\ Event(type, t).task = t
         /\ Key(Event(type, t)) = <<type, t, 0>>
<1>1. PICK e : e = Event(type, t)
  OBVIOUS
<1>2. /\ e.type = type /\ e.task = t /\ e.rev = 0 /\ e \in Events
  BY <1>1 DEF Event, Events
<1> QED BY <1>1, <1>2 DEF Key

LEMMA DecidedEventIs ==
  ASSUME NEW t \in Tasks, NEW d \in Decisions
  PROVE  /\ DecidedEvent(t, d) \in Events
         /\ DecidedEvent(t, d).type = "decided" /\ DecidedEvent(t, d).task = t
         /\ DecidedEvent(t, d).decision = d
         /\ Key(DecidedEvent(t, d)) = <<"decided", t, 0>>
<1>1. PICK e : e = DecidedEvent(t, d)
  OBVIOUS
<1>2. /\ e.type = "decided" /\ e.task = t /\ e.from = None /\ e.to = None /\ e.rev = 0
      /\ e.decision = d
      /\ e = [type |-> e.type, task |-> e.task, from |-> e.from, to |-> e.to,
              rev |-> e.rev, decision |-> e.decision]
  BY <1>1 DEF DecidedEvent, Event
<1>3. e \in Events
  BY <1>2 DEF Events, EventTypes
<1> QED BY <1>1, <1>2, <1>3 DEF Key

(* Events that recovery only reads past.                                   *)
Notes == {"context", "started", "artifact", "result"}

LEMMA NoteSteps ==
  ASSUME NEW c, c.ok, NEW e, e.type \in Notes, NEW n
  PROVE  Stepped(c, e, n) = c
<1>1. e.type \notin {"plan", "created", "status", "requested", "decided"}
  BY DEF Notes
<1>2. Accepted(c, e, n) /\ Applied(c, e, n) = c
  BY <1>1 DEF Accepted, Applied
<1> QED BY <1>2 DEF Stepped

WithRequest(g, t, x) == [g EXCEPT !.request[t] = x]

LEMMA WithRequestIs ==
  ASSUME NEW g \in Projection, NEW t \in Tasks, NEW x \in {None, "pending"} \cup Decisions
  PROVE  /\ WithRequest(g, t, x) \in Projection
         /\ WithRequest(g, t, x).status = g.status
         /\ WithRequest(g, t, x).rev = g.rev
         /\ WithRequest(g, t, x).request[t] = x
         /\ \A u \in Tasks \ {t} : Same(WithRequest(g, t, x), g, u)
<1>1. PICK h : h = WithRequest(g, t, x)
  OBVIOUS
<1>2. /\ h.status = g.status /\ h.rev = g.rev
      /\ h.request = [g.request EXCEPT ![t] = x]
      /\ h = [status |-> h.status, rev |-> h.rev, request |-> h.request]
  BY <1>1, GraphFacts DEF WithRequest
<1>3. h.request \in [Tasks -> {None, "pending"} \cup Decisions]
  BY <1>2, GraphFacts
<1>4. h \in Projection
  BY <1>2, <1>3, GraphFacts DEF Projection
<1>5. h.request[t] = x
  BY <1>2, GraphFacts
<1>6. \A u \in Tasks \ {t} : Same(h, g, u)
  BY <1>2, GraphFacts DEF Same
<1> QED BY <1>1, <1>2, <1>4, <1>5, <1>6

LEMMA WaitSteps ==
  ASSUME NEW c \in Candidates, c.ok, c.planned, c.created = Order,
         NEW t \in Tasks, NEW n \in Nat, NEW e,
         c.graph.status[t] = "running", c.graph.request[t] = None, c.awaiting[t] = 0,
         e = StatusEvent(t, "running", "waiting_approval", c.graph.rev[t] + 1)
  PROVE  \E d \in Candidates :
           /\ d = Stepped(c, e, n)
           /\ d.ok /\ d.planned /\ d.created = Order
           /\ d.graph = Moved(c.graph, t, "waiting_approval")
           /\ d.awaiting[t] = n /\ d.due = c.due
           /\ \A u \in Tasks \ {t} : d.awaiting[u] = c.awaiting[u]
<1>1. PICK g \in Projection : g = c.graph
  BY CandidateFacts
<1>2. "running" \in Statuses /\ "waiting_approval" \in Statuses /\ g.rev[t] \in Nat
  BY GraphFacts DEF Statuses
<1>3. /\ e.type = "status" /\ e.task = t /\ e.from = "running"
      /\ e.to = "waiting_approval" /\ e.rev = g.rev[t] + 1
  BY <1>1, <1>2, StatusEventIs
<1>4. "waiting_approval" \in Allowed["running"]
  BY <1>2 DEF Allowed
<1>5. Accepted(c, e, n)
  BY <1>1, <1>3, <1>4 DEF Accepted, StatusAccepted
<1>6. PICK h \in Projection : h = Moved(g, t, "waiting_approval")
  BY <1>2, MovedIs
<1>7. PICK a, u : a = [c.awaiting EXCEPT ![t] = n] /\ u = c.due
  OBVIOUS
<1>a. /\ a \in [Tasks -> Nat] /\ u \in [Tasks -> Nat] /\ a[t] = n
      /\ \A x \in Tasks \ {t} : a[x] = c.awaiting[x]
  BY <1>7, CandidateFacts
<1>8. PICK d : d = Applied(c, e, n)
  OBVIOUS
<1>9. d = [c EXCEPT !.moved = TRUE, !.graph = h, !.due = u, !.awaiting = a]
  <2>1. [c.due EXCEPT ![t] = c.due[t]] = c.due
    BY CandidateFacts
  <2>2. d = [c EXCEPT !.moved = TRUE, !.graph = Moved(@, t, "waiting_approval"),
                      !.due[t] = c.due[t], !.awaiting[t] = n]
    BY <1>3, <1>8 DEF Applied
  <2> QED BY <1>1, <1>6, <1>7, <2>1, <2>2
<1>10. d = [graph |-> h, planned |-> c.planned, created |-> c.created,
            moved |-> TRUE, awaiting |-> a, due |-> u, ok |-> c.ok]
  <2>1. c = [graph |-> c.graph, planned |-> c.planned, created |-> c.created,
             moved |-> c.moved, awaiting |-> c.awaiting, due |-> c.due, ok |-> c.ok]
    BY CandidateFacts
  <2> QED BY <1>9, <2>1
<1>11. /\ d \in Candidates /\ d.graph = h /\ d.planned = c.planned /\ d.created = c.created
       /\ d.awaiting = a /\ d.due = u /\ d.ok = c.ok
  BY <1>10, <1>a, CandidateFacts DEF Candidates
<1>12. Stepped(c, e, n) = d
  BY <1>5, <1>8 DEF Stepped
<1>13. d.ok /\ d.planned /\ d.created = Order /\ d.due = c.due
  BY <1>7, <1>11
<1>14. d.graph = Moved(c.graph, t, "waiting_approval")
  BY <1>1, <1>6, <1>11
<1>15. d.awaiting[t] = n /\ \A x \in Tasks \ {t} : d.awaiting[x] = c.awaiting[x]
  BY <1>11, <1>a
<1> QED BY <1>11, <1>12, <1>13, <1>14, <1>15

LEMMA RequestedSteps ==
  ASSUME NEW c \in Candidates, c.ok, c.planned, c.created = Order,
         NEW t \in Tasks, NEW n \in Nat,
         c.graph.status[t] = "waiting_approval", c.graph.request[t] = None,
         c.awaiting[t] = n - 1, c.awaiting[t] # 0
  PROVE  \E d \in Candidates :
           /\ d = Stepped(c, Event("requested", t), n)
           /\ d.ok /\ d.planned /\ d.created = Order
           /\ d.graph = WithRequest(c.graph, t, "pending")
           /\ d.awaiting[t] = 0 /\ d.due = c.due
           /\ \A u \in Tasks \ {t} : d.awaiting[u] = c.awaiting[u]
<1>0. PICK e : e = Event("requested", t) /\ e.type = "requested" /\ e.task = t
  BY EventIs DEF EventTypes
<1>1. PICK h \in Projection : h = [c.graph EXCEPT !.request[t] = "pending"]
  BY CandidateFacts, WithRequestIs DEF WithRequest
<1>2. Accepted(c, e, n)
  BY <1>0 DEF Accepted
<1>3. PICK a : a = [c.awaiting EXCEPT ![t] = 0]
  OBVIOUS
<1>a. a \in [Tasks -> Nat] /\ a[t] = 0 /\ \A u \in Tasks \ {t} : a[u] = c.awaiting[u]
  BY <1>3, CandidateFacts
<1>4. PICK d : d = Applied(c, e, n)
  OBVIOUS
<1>5. d = [c EXCEPT !.graph = h, !.awaiting = a]
  <2>1. d = [c EXCEPT !.graph.request[t] = "pending", !.awaiting[t] = 0]
    BY <1>0, <1>4 DEF Applied
  <2> QED BY <1>1, <1>3, <2>1
<1>6. d = [graph |-> h, planned |-> c.planned, created |-> c.created,
           moved |-> c.moved, awaiting |-> a, due |-> c.due, ok |-> c.ok]
  <2>1. c = [graph |-> c.graph, planned |-> c.planned, created |-> c.created,
             moved |-> c.moved, awaiting |-> c.awaiting, due |-> c.due, ok |-> c.ok]
    BY CandidateFacts
  <2> QED BY <1>5, <2>1
<1>7. /\ d \in Candidates /\ d.graph = h /\ d.planned = c.planned /\ d.created = c.created
      /\ d.awaiting = a /\ d.due = c.due /\ d.ok = c.ok
  BY <1>6, <1>a, CandidateFacts DEF Candidates
<1>8. Stepped(c, e, n) = d
  BY <1>2, <1>4 DEF Stepped
<1>9. d.graph = WithRequest(c.graph, t, "pending")
  BY <1>1, <1>7 DEF WithRequest
<1>10. d.awaiting[t] = 0 /\ \A u \in Tasks \ {t} : d.awaiting[u] = c.awaiting[u]
  BY <1>7, <1>a
<1>11. d.ok /\ d.planned /\ d.created = Order
  BY <1>7
<1>12. d = Stepped(c, Event("requested", t), n)
  BY <1>0, <1>8
<1> QED BY <1>7, <1>9, <1>10, <1>11, <1>12

LEMMA DecidedSteps ==
  ASSUME NEW c \in Candidates, c.ok, c.planned, c.created = Order,
         NEW t \in Tasks, NEW x \in Decisions, NEW n \in Nat,
         c.graph.status[t] = "waiting_approval", c.graph.request[t] = "pending",
         c.due[t] = 0
  PROVE  \E d \in Candidates :
           /\ d = Stepped(c, DecidedEvent(t, x), n)
           /\ d.ok /\ d.planned /\ d.created = Order
           /\ d.graph = WithRequest(c.graph, t, x)
           /\ d.awaiting = c.awaiting /\ d.due[t] = n
           /\ \A u \in Tasks \ {t} : d.due[u] = c.due[u]
<1>0. PICK e : e = DecidedEvent(t, x) /\ e.type = "decided" /\ e.task = t /\ e.decision = x
  BY DecidedEventIs
<1>1. PICK h \in Projection : h = [c.graph EXCEPT !.request[t] = x]
  BY CandidateFacts, WithRequestIs DEF WithRequest
<1>2. Accepted(c, e, n)
  BY <1>0 DEF Accepted
<1>3. PICK u : u = [c.due EXCEPT ![t] = n]
  OBVIOUS
<1>a. u \in [Tasks -> Nat] /\ u[t] = n /\ \A v \in Tasks \ {t} : u[v] = c.due[v]
  BY <1>3, CandidateFacts
<1>4. PICK d : d = Applied(c, e, n)
  OBVIOUS
<1>5. d = [c EXCEPT !.graph = h, !.due = u]
  <2>1. d = [c EXCEPT !.graph.request[t] = x, !.due[t] = n]
    BY <1>0, <1>4 DEF Applied
  <2> QED BY <1>1, <1>3, <2>1
<1>6. d = [graph |-> h, planned |-> c.planned, created |-> c.created,
           moved |-> c.moved, awaiting |-> c.awaiting, due |-> u, ok |-> c.ok]
  <2>1. c = [graph |-> c.graph, planned |-> c.planned, created |-> c.created,
             moved |-> c.moved, awaiting |-> c.awaiting, due |-> c.due, ok |-> c.ok]
    BY CandidateFacts
  <2> QED BY <1>5, <2>1
<1>7. /\ d \in Candidates /\ d.graph = h /\ d.planned = c.planned /\ d.created = c.created
      /\ d.awaiting = c.awaiting /\ d.due = u /\ d.ok = c.ok
  BY <1>6, <1>a, CandidateFacts DEF Candidates
<1>8. Stepped(c, e, n) = d
  BY <1>2, <1>4 DEF Stepped
<1>9. d.graph = WithRequest(c.graph, t, x)
  BY <1>1, <1>7 DEF WithRequest
<1>10. d.due[t] = n /\ \A v \in Tasks \ {t} : d.due[v] = c.due[v]
  BY <1>7, <1>a
<1>11. d.ok /\ d.planned /\ d.created = Order
  BY <1>7
<1>12. d = Stepped(c, DecidedEvent(t, x), n)
  BY <1>0, <1>8
<1> QED BY <1>7, <1>9, <1>10, <1>11, <1>12

LEMMA AnswerSteps ==
  ASSUME NEW c \in Candidates, c.ok, c.planned, c.created = Order,
         NEW t \in Tasks, NEW x \in Decisions, NEW n \in Nat, NEW e,
         c.graph.status[t] = "waiting_approval", c.graph.request[t] = x,
         c.due[t] = n - 1, c.due[t] # 0,
         e = StatusEvent(t, "waiting_approval", Target(x), c.graph.rev[t] + 1)
  PROVE  \E d \in Candidates :
           /\ d = Stepped(c, e, n)
           /\ d.ok /\ d.planned /\ d.created = Order
           /\ d.graph = Moved(c.graph, t, Target(x))
           /\ d.awaiting = c.awaiting /\ d.due[t] = 0
           /\ \A u \in Tasks \ {t} : d.due[u] = c.due[u]
<1>1. PICK g \in Projection : g = c.graph
  BY CandidateFacts
<1>2. PICK to : /\ to = Target(x) /\ to \in Statuses /\ to # "waiting_approval"
                /\ to \in Allowed["waiting_approval"]
  BY DEF Target, Decisions, Statuses, Allowed, Done, Failed
<1>3. "waiting_approval" \in Statuses /\ g.rev[t] \in Nat
  BY GraphFacts DEF Statuses
<1>4. /\ e.type = "status" /\ e.task = t /\ e.from = "waiting_approval"
      /\ e.to = to /\ e.rev = g.rev[t] + 1
  BY <1>1, <1>2, <1>3, StatusEventIs
<1>5. Accepted(c, e, n)
  BY <1>1, <1>2, <1>4 DEF Accepted, StatusAccepted
<1>6. PICK h \in Projection : h = Moved(g, t, to)
  BY <1>2, MovedIs
<1>7. PICK a, u : a = c.awaiting /\ u = [c.due EXCEPT ![t] = 0]
  OBVIOUS
<1>a. /\ a \in [Tasks -> Nat] /\ u \in [Tasks -> Nat] /\ u[t] = 0
      /\ \A v \in Tasks \ {t} : u[v] = c.due[v]
  BY <1>7, CandidateFacts
<1>8. PICK d : d = Applied(c, e, n)
  OBVIOUS
<1>9. d = [c EXCEPT !.moved = TRUE, !.graph = h, !.due = u, !.awaiting = a]
  <2>1. [c.awaiting EXCEPT ![t] = c.awaiting[t]] = c.awaiting
    BY CandidateFacts
  <2>2. d = [c EXCEPT !.moved = TRUE, !.graph = Moved(@, t, to),
                      !.due[t] = 0, !.awaiting[t] = c.awaiting[t]]
    BY <1>2, <1>4, <1>8 DEF Applied
  <2> QED BY <1>1, <1>6, <1>7, <2>1, <2>2
<1>10. d = [graph |-> h, planned |-> c.planned, created |-> c.created,
            moved |-> TRUE, awaiting |-> a, due |-> u, ok |-> c.ok]
  <2>1. c = [graph |-> c.graph, planned |-> c.planned, created |-> c.created,
             moved |-> c.moved, awaiting |-> c.awaiting, due |-> c.due, ok |-> c.ok]
    BY CandidateFacts
  <2> QED BY <1>9, <2>1
<1>11. /\ d \in Candidates /\ d.graph = h /\ d.planned = c.planned /\ d.created = c.created
       /\ d.awaiting = a /\ d.due = u /\ d.ok = c.ok
  BY <1>10, <1>a, CandidateFacts DEF Candidates
<1>12. Stepped(c, e, n) = d
  BY <1>5, <1>8 DEF Stepped
<1>13. d.ok /\ d.planned /\ d.created = Order /\ d.awaiting = c.awaiting
  BY <1>7, <1>11
<1>14. d.graph = Moved(c.graph, t, Target(x))
  BY <1>1, <1>2, <1>6, <1>11
<1>15. d.due[t] = 0 /\ \A v \in Tasks \ {t} : d.due[v] = c.due[v]
  BY <1>11, <1>a
<1> QED BY <1>11, <1>12, <1>13, <1>14, <1>15

-----------------------------------------------------------------------------
(* What an append that lands may do: the log grows, and the durable graph  *)
(* moves at some tasks, each to a new revision that is in the log; memory  *)
(* stays, follows at those tasks, or becomes the durable graph.            *)

LogGrows ==
  /\ log' \in Seq(Events) /\ Len(log) <= Len(log')
  /\ \A i \in 1 .. Len(log) : log'[i] = log[i]

Moves(M) ==
  /\ LogGrows
  /\ Clean(Replay(log))'
  /\ \A t \in Tasks \ M : Same(Durable', Durable, t)
  /\ \A t \in M :
       /\ Durable'.rev[t] > Durable.rev[t]
       /\ \A r \in Durable.rev[t] + 1 .. Durable'.rev[t] :
            \E i \in 1 .. Len(log') : Key(log'[i]) = <<"status", t, r>>
       /\ TaskSound(Durable, t)'

MemoryMoves(M) ==
  \/ mem' = mem
  \/ mem' = Durable'
  \/ /\ Loaded /\ mem' \in Projection
     /\ \A t \in Tasks \ M : Same(mem', mem, t)
     /\ \A t \in M : Same(mem', Durable', t)

LEMMA KernelFacts ==
  ASSUME KernelInv
  PROVE  /\ TypeOK /\ ReplayInv /\ RevisionsLogged /\ MemoryInv /\ RunInv
         /\ log \in Seq(Events) /\ Len(log) \in Nat
         /\ GraphSound(Durable) /\ Durable \in Projection
         /\ plan \in [Tasks -> TaskSpec]
<1>1. TypeOK /\ ReplayInv /\ RevisionsLogged /\ MemoryInv /\ RunInv
  BY DEF KernelInv
<1>2. log \in Seq(Events) /\ plan \in Plans
  BY <1>1 DEF TypeOK
<1>3. GraphSound(Durable) /\ Durable \in Projection
  BY <1>1 DEF ReplayInv, GraphSound
<1> QED BY <1>1, <1>2, <1>3, PlansAssumption

LEMMA LoggedStays ==
  ASSUME KernelInv, LogGrows, NEW t
  PROVE  /\ \A type : Logged(type, t) => Logged(type, t)'
         /\ Approved(t) => Approved(t)'
         /\ Published(t) => Published(t)'
         /\ Announced(t) => Announced(t)'
<1>1. Len(log) \in Nat /\ Len(log') \in Nat
  BY KernelFacts DEF LogGrows
<1>2. \A i \in 1 .. Len(log) : i \in 1 .. Len(log') /\ log'[i] = log[i]
  BY <1>1 DEF LogGrows
<1>3. \A type : Logged(type, t) => Logged(type, t)'
  BY <1>2 DEF Logged
<1>4. Approved(t) => Approved(t)'
  BY <1>2 DEF Approved
<1>5. Announced(t) => Announced(t)'
  BY <1>2 DEF Announced
<1> QED BY <1>3, <1>4, <1>5 DEF Published

LEMMA TaskSoundStays ==
  ASSUME KernelInv, LogGrows, plan' = plan, NEW t \in Tasks,
         NEW g, TaskSound(g, t), NEW h,
         h.status[t] = g.status[t], h.request[t] = g.request[t]
  PROVE  TaskSound(h, t)'
<1>1. RequestFits(h.status[t], h.request[t])
  BY DEF TaskSound
<1>2. h.request[t] = "approve" => Approved(t)'
  BY LoggedStays DEF TaskSound
<1>3. h.status[t] \in Done => Published(t)'
  BY LoggedStays DEF TaskSound
<1>4. h.status[t] \notin {"pending", "blocked"} => \A d \in plan[t].deps : Published(d)'
  BY LoggedStays DEF TaskSound
<1> QED BY <1>1, <1>2, <1>3, <1>4 DEF TaskSound

LEMMA GraphsStaySound ==
  ASSUME KernelInv, plan' = plan, NEW M \in SUBSET Tasks, Moves(M), MemoryMoves(M)
  PROVE  ReplayInv' /\ RevisionsLogged' /\ MemoryInv'
<1>1. PICK g \in Projection, h \in Projection : g = Durable /\ h = Durable'
  <2>1. Durable' \in Projection
    BY CandidateFacts DEF Moves, Clean, Durable
  <2> QED BY <2>1, KernelFacts
<1>2. LogGrows /\ Len(log) \in Nat /\ Len(log') \in Nat
  BY KernelFacts DEF Moves, LogGrows
<1>3. \A t \in Tasks \ M : Same(h, g, t)
  BY <1>1 DEF Moves
<1>4. \A t \in M : h.rev[t] > g.rev[t]
  BY <1>1 DEF Moves
<1>5. \A t \in Tasks : TaskSound(h, t)'
  <2> SUFFICES ASSUME NEW t \in Tasks PROVE TaskSound(h, t)'
    OBVIOUS
  <2>1. CASE t \in M
    <3>1. TaskSound(Durable, t)'
      BY <2>1 DEF Moves
    <3> QED BY <1>1, <3>1 DEF TaskSound
  <2>2. CASE t \notin M
    <3>1. TaskSound(g, t)
      BY <1>1, KernelFacts DEF GraphSound
    <3>2. h.status[t] = g.status[t] /\ h.request[t] = g.request[t]
      BY <1>3, <2>2 DEF Same
    <3> QED BY <1>2, <3>1, <3>2, TaskSoundStays
  <2> QED BY <2>1, <2>2
<1>6. GraphSound(h)'
  BY <1>5 DEF GraphSound
<1>7. ReplayInv'
  <2>1. GraphSound(Durable)'
    BY <1>1, <1>6 DEF GraphSound, TaskSound
  <2> QED BY <2>1 DEF ReplayInv, Moves
<1>8. RevisionsLogged'
  <2> SUFFICES ASSUME NEW t \in Tasks, NEW r \in 1 .. h.rev[t]
               PROVE  \E i \in 1 .. Len(log') : Key(log'[i]) = <<"status", t, r>>
    BY <1>1 DEF RevisionsLogged
  <2>1. g.rev[t] \in Nat /\ h.rev[t] \in Nat
    BY GraphFacts
  <2>2. CASE r \in 1 .. g.rev[t]
    <3>1. PICK i \in 1 .. Len(log) : Key(log[i]) = <<"status", t, r>>
      BY <1>1, <2>2, KernelFacts DEF RevisionsLogged
    <3>2. i \in 1 .. Len(log') /\ log'[i] = log[i]
      BY <1>2, <3>1 DEF LogGrows
    <3> QED BY <3>1, <3>2
  <2>3. CASE r \notin 1 .. g.rev[t]
    <3>1. r \in g.rev[t] + 1 .. h.rev[t]
      BY <2>1, <2>3
    <3>2. t \in M
      <4>1. g.rev[t] # h.rev[t]
        BY <2>1, <3>1
      <4> QED BY <1>3, <4>1 DEF Same
    <3> QED BY <1>1, <3>1, <3>2 DEF Moves
  <2> QED BY <2>2, <2>3
<1>9. MemoryInv'
  <2> SUFFICES ASSUME Loaded' PROVE log' # <<>> /\ GraphSound(mem)' /\ Follows(mem, Durable)'
    BY DEF MemoryInv
  <2>1. CASE mem' = Durable'
    <3>1. GraphSound(mem)' /\ Follows(mem, Durable)'
      <4>1. \A t \in Tasks : h.rev[t] \in Nat
        BY GraphFacts
      <4>2. Follows(h, h)
        BY <4>1 DEF Follows
      <4> QED BY <1>1, <1>6, <2>1, <4>2 DEF GraphSound, TaskSound
    <3>2. log' # <<>>
      <4>1. Replay(log') # Candidate
        BY DEF Moves, Clean, Candidate
      <4> QED BY <4>1, ReplayEmpty
    <3> QED BY <3>1, <3>2
  <2>2. CASE mem' = mem
    <3>1. PICK m \in Projection : m = mem
      BY <2>2, KernelFacts DEF MemoryInv, Loaded, GraphSound
    <3>2. log # <<>> /\ GraphSound(m) /\ Follows(m, g)
      BY <1>1, <2>2, <3>1, KernelFacts DEF MemoryInv, Loaded
    <3>3. GraphSound(m)'
      <4>1. \A t \in Tasks : TaskSound(m, t)'
        BY <1>2, <3>2, TaskSoundStays DEF GraphSound
      <4> QED BY <3>2, <4>1 DEF GraphSound
    <3>4. Follows(m, h)
      <4> SUFFICES ASSUME NEW t \in Tasks
                   PROVE  /\ m.rev[t] <= h.rev[t]
                          /\ m.rev[t] = h.rev[t] => /\ m.status[t] = h.status[t]
                                                    /\ m.request[t] = h.request[t]
        BY DEF Follows
      <4>1. m.rev[t] \in Nat /\ g.rev[t] \in Nat /\ h.rev[t] \in Nat /\ m.rev[t] <= g.rev[t]
        BY <3>2, GraphFacts DEF Follows
      <4>2. CASE t \in M
        <5>1. m.rev[t] < h.rev[t]
          BY <1>4, <4>1, <4>2
        <5> QED BY <4>1, <5>1
      <4>3. CASE t \notin M
        BY <1>3, <3>2, <4>3 DEF Same, Follows
      <4> QED BY <4>2, <4>3
    <3>5. log' # <<>>
      BY <1>2, <3>2, EmptySeq DEF LogGrows
    <3> QED BY <1>1, <2>2, <3>1, <3>3, <3>4, <3>5 DEF GraphSound, TaskSound
  <2>3. CASE /\ Loaded /\ mem' \in Projection
             /\ \A t \in Tasks \ M : Same(mem', mem, t)
             /\ \A t \in M : Same(mem', Durable', t)
    <3>1. PICK m \in Projection, n \in Projection : m = mem /\ n = mem'
      BY <2>3, KernelFacts DEF MemoryInv, GraphSound
    <3>2. log # <<>> /\ GraphSound(m) /\ Follows(m, g)
      BY <1>1, <2>3, <3>1, KernelFacts DEF MemoryInv
    <3>3. \A t \in Tasks : TaskSound(n, t)'
      <4> SUFFICES ASSUME NEW t \in Tasks PROVE TaskSound(n, t)'
        OBVIOUS
      <4>1. CASE t \in M
        <5>1. Same(n, h, t)
          BY <1>1, <2>3, <3>1, <4>1
        <5> QED BY <1>5, <5>1 DEF Same, TaskSound
      <4>2. CASE t \notin M
        <5>1. Same(n, m, t)
          BY <2>3, <3>1, <4>2
        <5>2. TaskSound(m, t)
          BY <3>2 DEF GraphSound
        <5>3. n.status[t] = m.status[t] /\ n.request[t] = m.request[t]
          BY <5>1 DEF Same
        <5> QED BY <1>2, <5>2, <5>3, TaskSoundStays
      <4> QED BY <4>1, <4>2
    <3>4. Follows(n, h)
      <4> SUFFICES ASSUME NEW t \in Tasks
                   PROVE  /\ n.rev[t] <= h.rev[t]
                          /\ n.rev[t] = h.rev[t] => /\ n.status[t] = h.status[t]
                                                    /\ n.request[t] = h.request[t]
        BY DEF Follows
      <4>1. CASE t \in M
        <5>1. Same(n, h, t) /\ h.rev[t] \in Nat
          BY <1>1, <2>3, <3>1, <4>1, GraphFacts
        <5> QED BY <5>1 DEF Same
      <4>2. CASE t \notin M
        <5>1. Same(n, m, t) /\ Same(h, g, t)
          BY <1>3, <2>3, <3>1, <4>2
        <5> QED BY <3>2, <5>1 DEF Same, Follows
      <4> QED BY <4>1, <4>2
    <3>5. log' # <<>>
      BY <1>2, <3>2, EmptySeq DEF LogGrows
    <3> QED BY <1>1, <3>1, <3>3, <3>4, <3>5 DEF GraphSound, TaskSound
  <2> QED BY <2>1, <2>2, <2>3 DEF MemoryMoves
<1> QED BY <1>7, <1>8, <1>9

-----------------------------------------------------------------------------
(* Batches of one, two and three events.                                   *)

LEMMA BatchesAppend ==
  ASSUME NEW S, NEW s \in Seq(S), NEW a \in S, NEW b \in S, NEW c \in S
  PROVE  /\ s \o <<a>> = Append(s, a)
         /\ s \o <<a, b>> = Append(Append(s, a), b)
         /\ s \o <<a, b, c>> = Append(Append(Append(s, a), b), c)
<1>1. s \o <<a>> = Append(s, a)
  BY AppendIsConcat
<1>2. <<a>> \in Seq(S) /\ <<b>> \in Seq(S) /\ <<c>> \in Seq(S) /\ <<a, b>> \in Seq(S)
  OBVIOUS
<1>3. s \o <<a, b>> = Append(Append(s, a), b)
  <2>1. <<a, b>> = Append(<<a>>, b)
    OBVIOUS
  <2>2. <<a, b>> = <<a>> \o <<b>>
    BY <1>2, <2>1, AppendIsConcat
  <2>3. s \o <<a, b>> = (s \o <<a>>) \o <<b>>
    BY <1>2, <2>2, ConcatAssociative
  <2>4. Append(s, a) \in Seq(S)
    OBVIOUS
  <2>5. Append(s, a) \o <<b>> = Append(Append(s, a), b)
    BY <2>4, AppendIsConcat
  <2> QED BY <1>1, <2>3, <2>5
<1>4. s \o <<a, b, c>> = Append(Append(Append(s, a), b), c)
  <2>1. <<a, b, c>> = Append(<<a, b>>, c)
    OBVIOUS
  <2>2. <<a, b, c>> = <<a, b>> \o <<c>>
    BY <1>2, <2>1, AppendIsConcat
  <2>3. s \o <<a, b, c>> = (s \o <<a, b>>) \o <<c>>
    BY <1>2, <2>2, ConcatAssociative
  <2>4. Append(Append(s, a), b) \in Seq(S)
    OBVIOUS
  <2>5. Append(Append(s, a), b) \o <<c>> = Append(Append(Append(s, a), b), c)
    BY <2>4, AppendIsConcat
  <2> QED BY <1>3, <2>3, <2>5
<1> QED BY <1>1, <1>3, <1>4

LEMMA ReplayedTo ==
  ASSUME NEW d, Replay(log') = d, Clean(d)
  PROVE  Clean(Replay(log))' /\ Durable' = d.graph
<1>1. Clean(Replay(log))'
  BY DEF Clean
<1>2. Durable' = d.graph
  BY DEF Durable
<1> QED BY <1>1, <1>2

LEMMA SingleBatch ==
  ASSUME NEW S, NEW e \in S
  PROVE  \E b \in Seq(S) : b = <<e>> /\ Len(b) = 1 /\ b[1] = e
<1>1. <<e>> \in Seq(S)
  OBVIOUS
<1>2. Len(<<e>>) = 1 /\ <<e>>[1] = e
  OBVIOUS
<1> QED BY <1>1, <1>2

LEMMA LogGrowsBy ==
  ASSUME log \in Seq(Events), NEW b \in Seq(Events), log' = log \o b
  PROVE  /\ LogGrows /\ Len(log') = Len(log) + Len(b)
         /\ \A k \in 1 .. Len(b) : log'[Len(log) + k] = b[k]
<1>1. Len(log) \in Nat /\ Len(b) \in Nat
  OBVIOUS
<1>2. /\ log' \in Seq(Events) /\ Len(log') = Len(log) + Len(b)
      /\ \A i \in 1 .. Len(log) + Len(b) :
           log'[i] = IF i <= Len(log) THEN log[i] ELSE b[i - Len(log)]
  BY ConcatProperties
<1>3. ASSUME NEW k \in 1 .. Len(b) PROVE log'[Len(log) + k] = b[k]
  <2>1. /\ Len(log) + k \in 1 .. Len(log) + Len(b) /\ ~(Len(log) + k <= Len(log))
        /\ (Len(log) + k) - Len(log) = k
    BY <1>1
  <2> QED BY <1>2, <2>1
<1>4. \A i \in 1 .. Len(log) : log'[i] = log[i]
  BY <1>1, <1>2
<1>5. Len(log) <= Len(log')
  BY <1>1, <1>2
<1> QED BY <1>2, <1>3, <1>4, <1>5 DEF LogGrows

(* A move that lands is of the durable state: its key was free.            *)
LEMMA FreshIsCurrent ==
  ASSUME KernelInv, Loaded, NEW t \in Tasks, NEW e,
         Key(e) = <<"status", t, mem.rev[t] + 1>>, ~HasKey(e)
  PROVE  Same(mem, Durable, t)
<1>1. PICK m \in Projection, g \in Projection : m = mem /\ g = Durable
  BY KernelFacts DEF MemoryInv, GraphSound
<1>2. m.rev[t] \in Nat /\ g.rev[t] \in Nat
  BY GraphFacts
<1>3. m.rev[t] + 1 \notin 1 .. g.rev[t]
  BY <1>1, KernelFacts DEF RevisionsLogged, HasKey
<1>4. Follows(m, g)
  BY <1>1, KernelFacts DEF MemoryInv
<1>5. m.rev[t] = g.rev[t]
  BY <1>2, <1>3, <1>4 DEF Follows
<1> QED BY <1>1, <1>4, <1>5 DEF Same, Follows

(* Only t moves, by k revisions that are all in the batch.                 *)
LEMMA OnlyMoves ==
  ASSUME KernelInv, NEW t \in Tasks, NEW h \in Projection, LogGrows,
         Clean(Replay(log))', Durable' = h,
         \A u \in Tasks \ {t} : Same(h, Durable, u),
         h.rev[t] > Durable.rev[t],
         \A r \in Durable.rev[t] + 1 .. h.rev[t] :
           \E i \in 1 .. Len(log') : Key(log'[i]) = <<"status", t, r>>,
         TaskSound(h, t)'
  PROVE  Moves({t})
<1>1. TaskSound(Durable, t)'
  BY DEF TaskSound
<1> QED BY <1>1 DEF Moves

LEMMA OneMove ==
  ASSUME KernelInv, log # <<>>, NEW t \in Tasks, NEW g, g = Durable, NEW to,
         to \in Allowed[g.status[t]],
         g.status[t] # "waiting_approval", to # "waiting_approval",
         log' = log \o <<StatusEvent(t, g.status[t], to, g.rev[t] + 1)>>,
         TaskSound(Moved(g, t, to), t)'
  PROVE  Moves({t}) /\ Durable' = Moved(g, t, to)
<1>1. g \in Projection /\ g.status[t] \in Statuses /\ g.rev[t] \in Nat /\ log \in Seq(Events)
  BY KernelFacts, GraphFacts
<1>2. to \in Statuses
  BY <1>1 DEF Allowed, Statuses, Done, Failed
<1>3. PICK e \in Events : /\ e = StatusEvent(t, g.status[t], to, g.rev[t] + 1)
                          /\ Key(e) = <<"status", t, g.rev[t] + 1>>
  <2>1. PICK f \in Statuses, r \in Nat : f = g.status[t] /\ r = g.rev[t] + 1
    BY <1>1
  <2>2. StatusEvent(t, f, to, r) \in Events /\ Key(StatusEvent(t, f, to, r)) = <<"status", t, r>>
    BY <1>2, StatusEventIs
  <2> QED BY <2>1, <2>2
<1>4. log' = Append(log, e)
  BY <1>1, <1>3, BatchesAppend
<1>5. LogGrows /\ Len(log') = Len(log) + 1 /\ log'[Len(log) + 1] = e
  <2>0. e \in Events
    BY <1>3
  <2>1. PICK b \in Seq(Events) : b = <<e>> /\ Len(b) = 1 /\ b[1] = e
    BY <2>0, SingleBatch
  <2>2. log' = log \o b
    BY <1>3, <2>1
  <2>3. LogGrows /\ Len(log') = Len(log) + Len(b)
        /\ \A k \in 1 .. Len(b) : log'[Len(log) + k] = b[k]
    BY <1>1, <2>2, LogGrowsBy, Zenon
  <2>4. log'[Len(log) + 1] = b[1]
    BY <2>1, <2>3
  <2> QED BY <2>1, <2>3, <2>4
<1>6. PICK c \in Candidates : c = Replay(log) /\ Clean(c) /\ c.graph = g
  BY KernelFacts DEF ReplayInv, Clean, Durable
<1>7. PICK d : d = Stepped(c, e, Len(log) + 1)
  OBVIOUS
<1>8. Replay(log') = d
  <2>1. Replay(Append(log, e)) = Stepped(Replay(log), e, Len(log) + 1)
    BY <1>1, ReplayAppend
  <2> QED BY <1>4, <1>6, <1>7, <2>1
<1>9. PICK h \in Projection :
        /\ h = Moved(g, t, to) /\ h.rev[t] = g.rev[t] + 1
        /\ \A u \in Tasks \ {t} : Same(h, g, u)
  BY <1>1, <1>2, MovedIs
<1>10. /\ d \in Candidates /\ d.ok /\ d.planned /\ d.created = Order
       /\ d.graph = h /\ d.awaiting = c.awaiting /\ d.due = c.due
  <2>1. Len(log) + 1 \in Nat
    BY <1>1
  <2>2. c.ok /\ c.planned /\ c.created = Order
    BY <1>6 DEF Clean
  <2>3. PICK n \in Nat : n = Len(log) + 1
    BY <2>1
  <2>4. /\ Stepped(c, e, n) \in Candidates
        /\ Stepped(c, e, n).ok /\ Stepped(c, e, n).planned
        /\ Stepped(c, e, n).created = Order
        /\ Stepped(c, e, n).graph = Moved(c.graph, t, to)
        /\ Stepped(c, e, n).awaiting = c.awaiting /\ Stepped(c, e, n).due = c.due
    BY <1>2, <1>3, <1>6, <2>2, StatusSteps
  <2> QED BY <1>6, <1>7, <1>9, <2>3, <2>4
<1>11. Clean(d)
  BY <1>6, <1>10 DEF Clean
<1>12. Clean(Replay(log))' /\ Durable' = h
  BY <1>8, <1>10, <1>11, ReplayedTo
<1>15. h.rev[t] = g.rev[t] + 1
  BY <1>9
<1>16. \A r \in g.rev[t] + 1 .. h.rev[t] :
         \E i \in 1 .. Len(log') : Key(log'[i]) = <<"status", t, r>>
  <2>1. \A r \in g.rev[t] + 1 .. h.rev[t] : r = g.rev[t] + 1
    BY <1>1, <1>15
  <2>2. Len(log) + 1 \in 1 .. Len(log')
    BY <1>1, <1>5
  <2> QED BY <1>3, <1>5, <2>1, <2>2
<1>17. h.rev[t] > g.rev[t]
  <2>1. g.rev[t] + 1 > g.rev[t]
    BY <1>1
  <2> QED BY <1>15, <2>1
<1> QED BY <1>5, <1>9, <1>12, <1>16, <1>17, OnlyMoves

LEMMA ReplayTwo ==
  ASSUME NEW s \in Seq(Events), NEW a \in Events, NEW b \in Events, NEW c,
         c = Stepped(Replay(s), a, Len(s) + 1)
  PROVE  Replay(s \o <<a, b>>) = Stepped(c, b, Len(s) + 2)
<1>1. PICK r \in Seq(Events) : r = Append(s, a) /\ Len(r) = Len(s) + 1
  BY AppendProperties
<1>2. Replay(r) = c
  BY <1>1, ReplayAppend
<1>3. Replay(Append(r, b)) = Stepped(Replay(r), b, Len(r) + 1)
  BY ReplayAppend
<1>4. Len(r) + 1 = Len(s) + 2
  <2>1. Len(s) \in Nat
    OBVIOUS
  <2> QED BY <1>1, <2>1
<1>5. s \o <<a, b>> = Append(r, b)
  BY <1>1, BatchesAppend
<1> QED BY <1>2, <1>3, <1>4, <1>5

LEMMA ReplayThree ==
  ASSUME NEW s \in Seq(Events), NEW a \in Events, NEW b \in Events, NEW e \in Events,
         NEW c, c = Stepped(Replay(s), a, Len(s) + 1),
         NEW d, d = Stepped(c, b, Len(s) + 2)
  PROVE  Replay(s \o <<a, b, e>>) = Stepped(d, e, Len(s) + 3)
<1>1. PICK r \in Seq(Events) : r = Append(Append(s, a), b) /\ Len(r) = Len(s) + 2
  <2>1. PICK q \in Seq(Events) : q = Append(s, a) /\ Len(q) = Len(s) + 1
    BY AppendProperties
  <2>2. PICK r \in Seq(Events) : r = Append(q, b) /\ Len(r) = Len(q) + 1
    BY AppendProperties
  <2>3. Len(s) \in Nat
    OBVIOUS
  <2>4. Len(r) = Len(s) + 2
    BY <2>1, <2>2, <2>3
  <2> QED BY <2>1, <2>2, <2>4
<1>2. Replay(r) = d
  <2>1. r = s \o <<a, b>>
    BY <1>1, BatchesAppend
  <2> QED BY <2>1, ReplayTwo
<1>3. Replay(Append(r, e)) = Stepped(Replay(r), e, Len(r) + 1)
  BY ReplayAppend
<1>4. Len(r) + 1 = Len(s) + 3
  <2>1. Len(s) \in Nat
    OBVIOUS
  <2> QED BY <1>1, <2>1
<1>5. s \o <<a, b, e>> = Append(r, e)
  BY <1>1, BatchesAppend
<1> QED BY <1>2, <1>3, <1>4, <1>5

(* The revisions of a batch of two or three are in the log.                *)
LEMMA KeysOfTwo ==
  ASSUME log \in Seq(Events), NEW a \in Events, NEW b \in Events,
         log' = log \o <<a, b>>
  PROVE  /\ LogGrows
         /\ \E i \in 1 .. Len(log') : log'[i] = a
         /\ \E i \in 1 .. Len(log') : log'[i] = b
<1>0. <<a, b>> \in Seq(Events) /\ Len(<<a, b>>) = 2 /\ <<a, b>>[1] = a /\ <<a, b>>[2] = b
  OBVIOUS
<1>1. PICK s : s = <<a, b>> /\ s \in Seq(Events) /\ Len(s) = 2 /\ s[1] = a /\ s[2] = b
  BY <1>0
<1>2. /\ LogGrows /\ Len(log') = Len(log) + Len(s)
      /\ \A k \in 1 .. Len(s) : log'[Len(log) + k] = s[k]
  BY <1>1, LogGrowsBy, Zenon
<1>3. Len(log) \in Nat
  OBVIOUS
<1>4. Len(log') = Len(log) + 2 /\ log'[Len(log) + 1] = a /\ log'[Len(log) + 2] = b
  BY <1>1, <1>2
<1>5. Len(log) + 1 \in 1 .. Len(log') /\ Len(log) + 2 \in 1 .. Len(log')
  BY <1>3, <1>4
<1> QED BY <1>2, <1>4, <1>5

LEMMA KeysOfThree ==
  ASSUME log \in Seq(Events), NEW a \in Events, NEW b \in Events, NEW e \in Events,
         log' = log \o <<a, b, e>>
  PROVE  /\ LogGrows
         /\ \E i \in 1 .. Len(log') : log'[i] = a
         /\ \E i \in 1 .. Len(log') : log'[i] = b
         /\ \E i \in 1 .. Len(log') : log'[i] = e
<1>0. /\ <<a, b, e>> \in Seq(Events) /\ Len(<<a, b, e>>) = 3
      /\ <<a, b, e>>[1] = a /\ <<a, b, e>>[2] = b /\ <<a, b, e>>[3] = e
  OBVIOUS
<1>1. PICK s : /\ s = <<a, b, e>> /\ s \in Seq(Events) /\ Len(s) = 3
               /\ s[1] = a /\ s[2] = b /\ s[3] = e
  BY <1>0
<1>2. /\ LogGrows /\ Len(log') = Len(log) + Len(s)
      /\ \A k \in 1 .. Len(s) : log'[Len(log) + k] = s[k]
  BY <1>1, LogGrowsBy, Zenon
<1>3. Len(log) \in Nat
  OBVIOUS
<1>4. /\ Len(log') = Len(log) + 3 /\ log'[Len(log) + 1] = a
      /\ log'[Len(log) + 2] = b /\ log'[Len(log) + 3] = e
  BY <1>1, <1>2
<1>5. /\ Len(log) + 1 \in 1 .. Len(log') /\ Len(log) + 2 \in 1 .. Len(log')
      /\ Len(log) + 3 \in 1 .. Len(log')
  BY <1>3, <1>4
<1> QED BY <1>2, <1>4, <1>5

(* A task of the new graph is sound when its request fits its status and   *)
(* what the two claim is in the log.                                       *)
LEMMA SoundAfter ==
  ASSUME KernelInv, LogGrows, plan' = plan, NEW t \in Tasks,
         NEW g, TaskSound(g, t), g.status[t] \notin {"pending", "blocked"},
         NEW h, RequestFits(h.status[t], h.request[t]),
         h.request[t] = "approve" => Approved(t)',
         h.status[t] \in Done => Published(t)'
  PROVE  TaskSound(h, t)'
<1>1. \A d \in plan[t].deps : Published(d)'
  BY LoggedStays DEF TaskSound
<1> QED BY <1>1 DEF TaskSound

LEMMA TwoMovesAre ==
  ASSUME NEW g \in Projection, NEW t \in Tasks, NEW a \in Statuses, NEW b \in Statuses
  PROVE  /\ Moved(Moved(g, t, a), t, b) \in Projection
         /\ Moved(Moved(g, t, a), t, b).status[t] = b
         /\ Moved(Moved(g, t, a), t, b).rev[t] = g.rev[t] + 2
         /\ Moved(Moved(g, t, a), t, b).request = g.request
         /\ \A u \in Tasks \ {t} : Same(Moved(Moved(g, t, a), t, b), g, u)
<1>1. PICK h \in Projection :
        /\ h = Moved(g, t, a) /\ h.rev[t] = g.rev[t] + 1 /\ h.request = g.request
        /\ \A u \in Tasks \ {t} : Same(h, g, u)
  BY MovedIs
<1>2. PICK k \in Projection :
        /\ k = Moved(h, t, b) /\ k.status[t] = b /\ k.rev[t] = h.rev[t] + 1
        /\ k.request = h.request /\ \A u \in Tasks \ {t} : Same(k, h, u)
  BY MovedIs
<1>3. k.rev[t] = g.rev[t] + 2
  <2>1. g.rev[t] \in Nat
    BY GraphFacts
  <2> QED BY <1>1, <1>2, <2>1
<1>4. \A u \in Tasks \ {t} : Same(k, g, u)
  BY <1>1, <1>2 DEF Same
<1> QED BY <1>1, <1>2, <1>3, <1>4

(* Two revisions of t land together.                                       *)
LEMMA TwoRevisions ==
  ASSUME NEW t \in Tasks, NEW r \in Nat, NEW k, k = r + 2,
         \E i \in 1 .. Len(log') : Key(log'[i]) = <<"status", t, r + 1>>,
         \E i \in 1 .. Len(log') : Key(log'[i]) = <<"status", t, r + 2>>
  PROVE  /\ k > r
         /\ \A q \in r + 1 .. k : \E i \in 1 .. Len(log') : Key(log'[i]) = <<"status", t, q>>
<1>1. \A q \in r + 1 .. k : q = r + 1 \/ q = r + 2
  OBVIOUS
<1>2. k > r
  OBVIOUS
<1> QED BY <1>1, <1>2

(* A denied task runs and fails in one batch.                              *)
LEMMA DenyMoves ==
  ASSUME KernelInv, plan' = plan, log # <<>>, NEW t \in Tasks, NEW g, g = Durable,
         g.status[t] = "ready",
         log' = log \o <<StatusEvent(t, "ready", "running", g.rev[t] + 1),
                         StatusEvent(t, "running", "failed", g.rev[t] + 2)>>
  PROVE  Moves({t}) /\ Durable' = Moved(Moved(g, t, "running"), t, "failed")
<1>1. g \in Projection /\ g.rev[t] \in Nat /\ log \in Seq(Events) /\ TaskSound(g, t)
  BY KernelFacts, GraphFacts DEF GraphSound
<1>2. "ready" \in Statuses /\ "running" \in Statuses /\ "failed" \in Statuses
  BY DEF Statuses, Failed
<1>3. PICK r \in Nat : r = g.rev[t]
  BY <1>1
<1>4. PICK a \in Events : a = StatusEvent(t, "ready", "running", r + 1)
                          /\ Key(a) = <<"status", t, r + 1>>
  <2>1. r + 1 \in Nat
    OBVIOUS
  <2>2. /\ StatusEvent(t, "ready", "running", r + 1) \in Events
        /\ Key(StatusEvent(t, "ready", "running", r + 1)) = <<"status", t, r + 1>>
    BY <1>2, <2>1, StatusEventIs
  <2> QED BY <2>2
<1>5. PICK b \in Events : b = StatusEvent(t, "running", "failed", r + 2)
                          /\ Key(b) = <<"status", t, r + 2>>
  <2>1. r + 2 \in Nat
    OBVIOUS
  <2>2. /\ StatusEvent(t, "running", "failed", r + 2) \in Events
        /\ Key(StatusEvent(t, "running", "failed", r + 2)) = <<"status", t, r + 2>>
    BY <1>2, <2>1, StatusEventIs
  <2> QED BY <2>2
<1>6. log' = log \o <<a, b>>
  BY <1>3, <1>4, <1>5
<1>7. /\ LogGrows
      /\ \E i \in 1 .. Len(log') : log'[i] = a
      /\ \E i \in 1 .. Len(log') : log'[i] = b
  BY <1>1, <1>6, KeysOfTwo
<1>8. PICK c \in Candidates : c = Replay(log) /\ Clean(c) /\ c.graph = g
  BY KernelFacts DEF ReplayInv, Clean, Durable
<1>9. PICK n \in Nat, m \in Nat : n = Len(log) + 1 /\ m = Len(log) + 2
  BY <1>1
<1>10. PICK x \in Candidates : /\ x = Stepped(c, a, n) /\ x.ok /\ x.planned
                               /\ x.created = Order /\ x.graph = Moved(g, t, "running")
                               /\ x.awaiting = c.awaiting /\ x.due = c.due
  <2>1. "running" \in Allowed["ready"]
    BY <1>2 DEF Allowed
  <2>2. c.ok /\ c.planned /\ c.created = Order
    BY <1>8 DEF Clean
  <2>3. a = StatusEvent(t, c.graph.status[t], "running", c.graph.rev[t] + 1)
    BY <1>3, <1>4, <1>8
  <2> QED BY <1>2, <1>8, <2>1, <2>2, <2>3, StatusSteps
<1>11. PICK k \in Projection : /\ k = Moved(g, t, "running") /\ k.status[t] = "running"
                               /\ k.rev[t] = r + 1
  BY <1>1, <1>2, <1>3, MovedIs
<1>12. PICK d \in Candidates : /\ d = Stepped(x, b, m) /\ d.ok /\ d.planned
                               /\ d.created = Order /\ d.graph = Moved(k, t, "failed")
                               /\ d.awaiting = c.awaiting /\ d.due = c.due
  <2>1. "failed" \in Allowed["running"]
    BY <1>2 DEF Allowed
  <2>2. x.graph.rev[t] + 1 = r + 2
    BY <1>10, <1>11
  <2>3. b = StatusEvent(t, x.graph.status[t], "failed", x.graph.rev[t] + 1)
    BY <1>5, <1>10, <1>11, <2>2
  <2>4. x.graph = k /\ x.graph.status[t] = "running" /\ "failed" \in Allowed[x.graph.status[t]]
    BY <1>10, <1>11, <2>1
  <2>5. /\ x.ok /\ x.planned /\ x.created = Order /\ "failed" \in Statuses
        /\ x.graph.status[t] # "waiting_approval" /\ "failed" # "waiting_approval"
        /\ "failed" \in Allowed[x.graph.status[t]]
    BY <1>2, <1>10, <2>4
  <2>6. /\ Stepped(x, b, m) \in Candidates
        /\ Stepped(x, b, m).ok /\ Stepped(x, b, m).planned
        /\ Stepped(x, b, m).created = Order
        /\ Stepped(x, b, m).graph = Moved(x.graph, t, "failed")
        /\ Stepped(x, b, m).awaiting = x.awaiting /\ Stepped(x, b, m).due = x.due
    BY <2>3, <2>5, StatusSteps
  <2> QED BY <1>10, <2>4, <2>6
<1>13. Replay(log') = d
  BY <1>1, <1>6, <1>8, <1>9, <1>10, <1>12, ReplayTwo
<1>14. Clean(d)
  BY <1>8, <1>12 DEF Clean
<1>15. PICK h \in Projection : /\ h = Moved(Moved(g, t, "running"), t, "failed")
                               /\ h.status[t] = "failed" /\ h.rev[t] = r + 2
                               /\ h.request = g.request
                               /\ \A u \in Tasks \ {t} : Same(h, g, u)
  BY <1>1, <1>2, <1>3, TwoMovesAre
<1>16. Clean(Replay(log))' /\ Durable' = h
  <2>1. Clean(Replay(log))' /\ Durable' = d.graph
    BY <1>13, <1>14, ReplayedTo
  <2>2. d.graph = h
    BY <1>11, <1>12, <1>15
  <2> QED BY <2>1, <2>2
<1>17. TaskSound(h, t)'
  <2>1. RequestFits(h.status[t], h.request[t])
    BY <1>1, <1>15 DEF TaskSound, RequestFits
  <2>2. h.request[t] = "approve" => Approved(t)'
    BY <1>1, <1>7, <1>15, LoggedStays DEF TaskSound
  <2>3. h.status[t] \notin Done
    BY <1>15 DEF Done
  <2> QED BY <1>1, <1>7, <2>1, <2>2, <2>3, SoundAfter
<1>18. /\ h.rev[t] > g.rev[t]
       /\ \A q \in g.rev[t] + 1 .. h.rev[t] :
            \E i \in 1 .. Len(log') : Key(log'[i]) = <<"status", t, q>>
  <2>1. /\ \E i \in 1 .. Len(log') : Key(log'[i]) = <<"status", t, r + 1>>
        /\ \E i \in 1 .. Len(log') : Key(log'[i]) = <<"status", t, r + 2>>
    BY <1>4, <1>5, <1>7
  <2>2. PICK j : j = h.rev[t] /\ j = r + 2
    BY <1>15
  <2>3. /\ j > r
        /\ \A q \in r + 1 .. j : \E i \in 1 .. Len(log') : Key(log'[i]) = <<"status", t, q>>
    BY <2>1, <2>2, TwoRevisions
  <2> QED BY <1>3, <2>2, <2>3
<1> QED BY <1>7, <1>15, <1>16, <1>17, <1>18, OnlyMoves

(* A task that needs approval runs, waits and asks in one batch.           *)
LEMMA RequestMoves ==
  ASSUME KernelInv, plan' = plan, log # <<>>, NEW t \in Tasks, NEW g, g = Durable,
         g.status[t] = "ready", g.request[t] = None,
         log' = log \o <<StatusEvent(t, "ready", "running", g.rev[t] + 1),
                         StatusEvent(t, "running", "waiting_approval", g.rev[t] + 2),
                         Event("requested", t)>>
  PROVE  /\ Moves({t})
         /\ Durable' = WithRequest(Moved(Moved(g, t, "running"), t, "waiting_approval"),
                                   t, "pending")
<1>1. g \in Projection /\ g.rev[t] \in Nat /\ log \in Seq(Events) /\ TaskSound(g, t)
  BY KernelFacts, GraphFacts DEF GraphSound
<1>2. "ready" \in Statuses /\ "running" \in Statuses /\ "waiting_approval" \in Statuses
  BY DEF Statuses
<1>3. PICK r \in Nat : r = g.rev[t]
  BY <1>1
<1>4. PICK a \in Events : a = StatusEvent(t, "ready", "running", r + 1)
                          /\ Key(a) = <<"status", t, r + 1>>
  <2>1. r + 1 \in Nat
    OBVIOUS
  <2>2. /\ StatusEvent(t, "ready", "running", r + 1) \in Events
        /\ Key(StatusEvent(t, "ready", "running", r + 1)) = <<"status", t, r + 1>>
    BY <1>2, <2>1, StatusEventIs
  <2> QED BY <2>2
<1>5. PICK b \in Events : b = StatusEvent(t, "running", "waiting_approval", r + 2)
                          /\ Key(b) = <<"status", t, r + 2>>
  <2>1. r + 2 \in Nat
    OBVIOUS
  <2>2. /\ StatusEvent(t, "running", "waiting_approval", r + 2) \in Events
        /\ Key(StatusEvent(t, "running", "waiting_approval", r + 2)) = <<"status", t, r + 2>>
    BY <1>2, <2>1, StatusEventIs
  <2> QED BY <2>2
<1>6. PICK e \in Events : e = Event("requested", t)
  BY EventIs DEF EventTypes
<1>7. log' = log \o <<a, b, e>>
  BY <1>3, <1>4, <1>5, <1>6
<1>8. /\ LogGrows
      /\ \E i \in 1 .. Len(log') : log'[i] = a
      /\ \E i \in 1 .. Len(log') : log'[i] = b
  BY <1>1, <1>7, KeysOfThree
<1>9. PICK c \in Candidates : c = Replay(log) /\ Clean(c) /\ c.graph = g
  BY KernelFacts DEF ReplayInv, Clean, Durable
<1>10. PICK n \in Nat, m \in Nat, l \in Nat :
         n = Len(log) + 1 /\ m = Len(log) + 2 /\ l = Len(log) + 3
  BY <1>1
<1>11. PICK x \in Candidates : /\ x = Stepped(c, a, n) /\ x.ok /\ x.planned
                               /\ x.created = Order /\ x.graph = Moved(g, t, "running")
                               /\ x.awaiting = c.awaiting /\ x.due = c.due
  <2>1. "running" \in Allowed["ready"]
    BY <1>2 DEF Allowed
  <2>2. c.ok /\ c.planned /\ c.created = Order
    BY <1>9 DEF Clean
  <2>3. a = StatusEvent(t, c.graph.status[t], "running", c.graph.rev[t] + 1)
    BY <1>3, <1>4, <1>9
  <2> QED BY <1>2, <1>9, <2>1, <2>2, <2>3, StatusSteps
<1>12. PICK k \in Projection : /\ k = Moved(g, t, "running") /\ k.status[t] = "running"
                               /\ k.rev[t] = r + 1 /\ k.request = g.request
  BY <1>1, <1>2, <1>3, MovedIs
<1>13. PICK y \in Candidates : /\ y = Stepped(x, b, m) /\ y.ok /\ y.planned
                               /\ y.created = Order
                               /\ y.graph = Moved(k, t, "waiting_approval")
                               /\ y.awaiting[t] = m /\ y.due = c.due
                               /\ \A u \in Tasks \ {t} : y.awaiting[u] = c.awaiting[u]
  <2>1. x.graph.rev[t] + 1 = r + 2
    BY <1>11, <1>12
  <2>2. b = StatusEvent(t, "running", "waiting_approval", x.graph.rev[t] + 1)
    BY <1>5, <2>1
  <2>3. /\ x.ok /\ x.planned /\ x.created = Order /\ x.graph.status[t] = "running"
        /\ x.graph.request[t] = None /\ x.awaiting[t] = 0
    BY <1>9, <1>11, <1>12 DEF Clean
  <2>4. PICK d \in Candidates :
           /\ d = Stepped(x, b, m)
           /\ d.ok /\ d.planned /\ d.created = Order
           /\ d.graph = Moved(x.graph, t, "waiting_approval")
           /\ d.awaiting[t] = m /\ d.due = x.due
           /\ \A u \in Tasks \ {t} : d.awaiting[u] = x.awaiting[u]
    BY <2>2, <2>3, WaitSteps
  <2> QED BY <1>11, <1>12, <2>4
<1>14. PICK f \in Projection :
         /\ f = Moved(Moved(g, t, "running"), t, "waiting_approval")
         /\ f.status[t] = "waiting_approval" /\ f.rev[t] = r + 2
         /\ f.request = g.request
         /\ \A u \in Tasks \ {t} : Same(f, g, u)
  BY <1>1, <1>2, <1>3, TwoMovesAre
<1>15. PICK d \in Candidates : /\ d = Stepped(y, e, l) /\ d.ok /\ d.planned
                               /\ d.created = Order /\ d.graph = WithRequest(f, t, "pending")
                               /\ d.awaiting[t] = 0 /\ d.due = c.due
                               /\ \A u \in Tasks \ {t} : d.awaiting[u] = c.awaiting[u]
  <2>1. y.graph = f /\ y.graph.status[t] = "waiting_approval" /\ y.graph.request[t] = None
    BY <1>12, <1>13, <1>14
  <2>2. y.awaiting[t] = l - 1 /\ y.awaiting[t] # 0
    <3>1. Len(log) \in Nat
      BY <1>1
    <3> QED BY <1>10, <1>13, <3>1
  <2>3. y.ok /\ y.planned /\ y.created = Order
    BY <1>13
  <2>4. PICK d \in Candidates :
           /\ d = Stepped(y, Event("requested", t), l)
           /\ d.ok /\ d.planned /\ d.created = Order
           /\ d.graph = WithRequest(y.graph, t, "pending")
           /\ d.awaiting[t] = 0 /\ d.due = y.due
           /\ \A u \in Tasks \ {t} : d.awaiting[u] = y.awaiting[u]
    BY <2>1, <2>2, <2>3, RequestedSteps
  <2> QED BY <1>6, <1>13, <2>1, <2>4
<1>16. Replay(log') = d
  BY <1>1, <1>7, <1>9, <1>10, <1>11, <1>13, <1>15, ReplayThree
<1>17. Clean(d)
  BY <1>9, <1>15 DEF Clean
<1>18. PICK h \in Projection :
         /\ h = WithRequest(f, t, "pending") /\ h.status = f.status /\ h.rev = f.rev
         /\ h.request[t] = "pending" /\ \A u \in Tasks \ {t} : Same(h, f, u)
  BY WithRequestIs
<1>19. Clean(Replay(log))' /\ Durable' = h
  <2>1. Clean(Replay(log))' /\ Durable' = d.graph
    BY <1>16, <1>17, ReplayedTo
  <2> QED BY <1>15, <1>18, <2>1
<1>20. \A u \in Tasks \ {t} : Same(h, g, u)
  BY <1>14, <1>18 DEF Same
<1>21. TaskSound(h, t)'
  <2>1. h.status[t] = "waiting_approval" /\ h.request[t] = "pending"
    BY <1>14, <1>18
  <2>2. RequestFits(h.status[t], h.request[t])
    BY <2>1 DEF RequestFits
  <2>3. h.status[t] \notin Done /\ h.request[t] # "approve"
    BY <2>1 DEF Done
  <2> QED BY <1>1, <1>8, <2>2, <2>3, SoundAfter
<1>22. /\ h.rev[t] > g.rev[t]
       /\ \A q \in g.rev[t] + 1 .. h.rev[t] :
            \E i \in 1 .. Len(log') : Key(log'[i]) = <<"status", t, q>>
  <2>1. /\ \E i \in 1 .. Len(log') : Key(log'[i]) = <<"status", t, r + 1>>
        /\ \E i \in 1 .. Len(log') : Key(log'[i]) = <<"status", t, r + 2>>
    BY <1>4, <1>5, <1>8
  <2>2. PICK j : j = h.rev[t] /\ j = r + 2
    BY <1>14, <1>18
  <2>3. /\ j > r
        /\ \A q \in r + 1 .. j : \E i \in 1 .. Len(log') : Key(log'[i]) = <<"status", t, q>>
    BY <2>1, <2>2, TwoRevisions
  <2> QED BY <1>3, <2>2, <2>3
<1> QED BY <1>8, <1>14, <1>18, <1>19, <1>20, <1>21, <1>22, OnlyMoves

(* A decision and the move it asks for land in one batch.                  *)
LEMMA DecideMoves ==
  ASSUME KernelInv, plan' = plan, log # <<>>, NEW t \in Tasks, NEW x \in Decisions,
         NEW g, g = Durable,
         g.status[t] = "waiting_approval", g.request[t] = "pending",
         log' = log \o <<DecidedEvent(t, x),
                         StatusEvent(t, "waiting_approval", Target(x), g.rev[t] + 1)>>
  PROVE  /\ Moves({t})
         /\ Durable' = Moved(WithRequest(g, t, x), t, Target(x))
<1>1. g \in Projection /\ g.rev[t] \in Nat /\ log \in Seq(Events) /\ TaskSound(g, t)
  BY KernelFacts, GraphFacts DEF GraphSound
<1>2. PICK to \in Statuses : /\ to = Target(x)
                             /\ to \in {"ready", "waiting_input", "canceled"}
                             /\ to = "ready" => x = "approve"
  BY DEF Target, Decisions, Statuses, Failed
<1>3. PICK r \in Nat : r = g.rev[t]
  BY <1>1
<1>4. PICK a \in Events : a = DecidedEvent(t, x)
  BY DecidedEventIs
<1>5. PICK b \in Events : b = StatusEvent(t, "waiting_approval", to, r + 1)
                          /\ Key(b) = <<"status", t, r + 1>>
  <2>1. "waiting_approval" \in Statuses
    BY DEF Statuses
  <2> QED BY <2>1, StatusEventIs
<1>6. log' = log \o <<a, b>>
  BY <1>2, <1>3, <1>4, <1>5
<1>7. /\ LogGrows
      /\ \E i \in 1 .. Len(log') : log'[i] = a
      /\ \E i \in 1 .. Len(log') : log'[i] = b
  BY <1>1, <1>6, KeysOfTwo
<1>8. PICK c \in Candidates : c = Replay(log) /\ Clean(c) /\ c.graph = g
  BY KernelFacts DEF ReplayInv, Clean, Durable
<1>9. PICK n \in Nat, m \in Nat : n = Len(log) + 1 /\ m = Len(log) + 2
  BY <1>1
<1>10. PICK y \in Candidates : /\ y = Stepped(c, a, n) /\ y.ok /\ y.planned
                               /\ y.created = Order /\ y.graph = WithRequest(g, t, x)
                               /\ y.awaiting = c.awaiting /\ y.due[t] = n
                               /\ \A u \in Tasks \ {t} : y.due[u] = c.due[u]
  <2>1. /\ c.ok /\ c.planned /\ c.created = Order /\ c.due[t] = 0
        /\ c.graph.status[t] = "waiting_approval" /\ c.graph.request[t] = "pending"
    BY <1>8 DEF Clean
  <2>2. PICK d \in Candidates :
           /\ d = Stepped(c, DecidedEvent(t, x), n)
           /\ d.ok /\ d.planned /\ d.created = Order
           /\ d.graph = WithRequest(c.graph, t, x)
           /\ d.awaiting = c.awaiting /\ d.due[t] = n
           /\ \A u \in Tasks \ {t} : d.due[u] = c.due[u]
    BY <2>1, DecidedSteps
  <2> QED BY <1>4, <1>8, <2>2
<1>11. PICK k \in Projection : /\ k = WithRequest(g, t, x) /\ k.status = g.status
                               /\ k.rev = g.rev /\ k.request[t] = x
                               /\ \A u \in Tasks \ {t} : Same(k, g, u)
  BY <1>1, WithRequestIs
<1>12. PICK d \in Candidates : /\ d = Stepped(y, b, m) /\ d.ok /\ d.planned
                               /\ d.created = Order /\ d.graph = Moved(k, t, Target(x))
                               /\ d.awaiting = c.awaiting /\ d.due[t] = 0
                               /\ \A u \in Tasks \ {t} : d.due[u] = c.due[u]
  <2>1. /\ y.ok /\ y.planned /\ y.created = Order /\ y.graph = k
        /\ y.graph.status[t] = "waiting_approval" /\ y.graph.request[t] = x
    BY <1>10, <1>11
  <2>2. y.due[t] = m - 1 /\ y.due[t] # 0
    <3>1. Len(log) \in Nat
      BY <1>1
    <3> QED BY <1>9, <1>10, <3>1
  <2>3. b = StatusEvent(t, "waiting_approval", Target(x), y.graph.rev[t] + 1)
    BY <1>2, <1>3, <1>5, <1>11, <2>1
  <2>4. PICK d \in Candidates :
           /\ d = Stepped(y, b, m)
           /\ d.ok /\ d.planned /\ d.created = Order
           /\ d.graph = Moved(y.graph, t, Target(x))
           /\ d.awaiting = y.awaiting /\ d.due[t] = 0
           /\ \A u \in Tasks \ {t} : d.due[u] = y.due[u]
    BY <2>1, <2>2, <2>3, AnswerSteps
  <2> QED BY <1>10, <2>1, <2>4
<1>13. Replay(log') = d
  BY <1>1, <1>6, <1>8, <1>9, <1>10, <1>12, ReplayTwo
<1>14. Clean(d)
  BY <1>8, <1>12 DEF Clean
<1>15. PICK h \in Projection : /\ h = Moved(k, t, to) /\ h.status[t] = to
                               /\ h.rev[t] = k.rev[t] + 1 /\ h.request = k.request
                               /\ \A u \in Tasks \ {t} : Same(h, k, u)
  BY MovedIs
<1>16. Clean(Replay(log))' /\ Durable' = h
  <2>1. Clean(Replay(log))' /\ Durable' = d.graph
    BY <1>13, <1>14, ReplayedTo
  <2> QED BY <1>2, <1>12, <1>15, <2>1
<1>17. \A u \in Tasks \ {t} : Same(h, g, u)
  BY <1>11, <1>15 DEF Same
<1>18. TaskSound(h, t)'
  <2>1. h.status[t] = to /\ h.request[t] = x
    BY <1>11, <1>15
  <2>2. x # "pending" /\ x # None
    BY NoneAssumption DEF Decisions
  <2>3. RequestFits(h.status[t], h.request[t])
    BY <1>2, <2>1, <2>2 DEF RequestFits
  <2>4. h.request[t] = "approve" => Approved(t)'
    BY <1>4, <1>7, <2>1 DEF Approved
  <2>5. h.status[t] \notin Done
    BY <1>2, <2>1 DEF Done
  <2> QED BY <1>1, <1>7, <2>3, <2>4, <2>5, SoundAfter
<1>19. /\ h.rev[t] > g.rev[t]
       /\ \A q \in g.rev[t] + 1 .. h.rev[t] :
            \E i \in 1 .. Len(log') : Key(log'[i]) = <<"status", t, q>>
  <2>1. PICK j : j = h.rev[t] /\ j = r + 1
    BY <1>3, <1>11, <1>15
  <2>2. j > r /\ \A q \in r + 1 .. j : q = r + 1
    BY <2>1
  <2> QED BY <1>3, <1>5, <1>7, <2>1, <2>2
<1>20. h = Moved(WithRequest(g, t, x), t, Target(x))
  BY <1>2, <1>11, <1>15
<1> QED BY <1>7, <1>15, <1>16, <1>17, <1>18, <1>19, <1>20, OnlyMoves

(* An event that recovery reads past leaves the durable graph as it is.    *)
LEMMA NoteLands ==
  ASSUME KernelInv, log # <<>>, NEW e \in Events, e.type \in Notes, log' = log \o <<e>>
  PROVE  /\ Moves({}) /\ Durable' = Durable
         /\ \E i \in 1 .. Len(log') : log'[i] = e
<1>1. log \in Seq(Events) /\ Len(log) \in Nat
  BY KernelFacts
<1>2. log' = Append(log, e)
  BY <1>1, BatchesAppend
<1>3. LogGrows /\ \E i \in 1 .. Len(log') : log'[i] = e
  <2>1. PICK b \in Seq(Events) : b = <<e>> /\ Len(b) = 1 /\ b[1] = e
    BY SingleBatch
  <2>2. log' = log \o b
    BY <2>1
  <2>3. LogGrows /\ Len(log') = Len(log) + Len(b)
        /\ \A k \in 1 .. Len(b) : log'[Len(log) + k] = b[k]
    BY <1>1, <2>2, LogGrowsBy, Zenon
  <2>4. log'[Len(log) + 1] = e /\ Len(log') = Len(log) + 1
    BY <2>1, <2>3
  <2>5. Len(log) + 1 \in 1 .. Len(log')
    BY <1>1, <2>4
  <2> QED BY <2>3, <2>4, <2>5
<1>4. PICK c \in Candidates : c = Replay(log) /\ Clean(c)
  BY KernelFacts DEF ReplayInv, Clean
<1>5. c.ok
  BY <1>4 DEF Clean
<1>6. Stepped(c, e, Len(log) + 1) = c
  BY <1>5, NoteSteps
<1>7. Replay(log') = c
  <2>1. Replay(Append(log, e)) = Stepped(Replay(log), e, Len(log) + 1)
    BY <1>1, ReplayAppend
  <2> QED BY <1>2, <1>4, <1>6, <2>1
<1>8. Clean(Replay(log))' /\ Durable' = Durable
  BY <1>4, <1>7 DEF Clean, Durable
<1> QED BY <1>3, <1>8 DEF Moves, Same

(* A step that appends nothing.                                            *)
LEMMA NothingLands ==
  ASSUME KernelInv, plan' = plan, log' = log,
         mem' = mem \/ mem' = NotLoaded \/ (log # <<>> /\ mem' = Durable)
  PROVE  /\ ReplayInv' /\ RevisionsLogged' /\ MemoryInv'
         /\ LogGrows /\ Durable' = Durable
<1>1. log \in Seq(Events) /\ Len(log) \in Nat
  BY KernelFacts
<1>2. LogGrows /\ Durable' = Durable
  BY <1>1 DEF LogGrows, Durable
<1>4. ReplayInv'
  <2>1. GraphSound(Durable)'
    BY KernelFacts DEF GraphSound, TaskSound, Approved, Published, Logged, Durable
  <2>2. log' = <<>> \/ Clean(Replay(log))'
    BY KernelFacts DEF ReplayInv, Clean
  <2> QED BY <2>1, <2>2 DEF ReplayInv
<1>5. RevisionsLogged'
  BY KernelFacts DEF RevisionsLogged, Durable
<1>6. MemoryInv'
  <2>1. CASE mem' = mem
    BY <2>1, KernelFacts
       DEF MemoryInv, Loaded, Durable, GraphSound, TaskSound, Approved, Published, Logged
  <2>2. CASE mem' = NotLoaded
    BY <2>2 DEF MemoryInv, Loaded
  <2>3. CASE log # <<>> /\ mem' = Durable
    <3>1. PICK g \in Projection : g = Durable
      BY KernelFacts
    <3>2. \A t \in Tasks : g.rev[t] \in Nat
      BY GraphFacts
    <3>3. Follows(g, g)
      BY <3>2 DEF Follows
    <3>4. GraphSound(mem)' /\ Follows(mem, Durable)'
      BY <1>2, <1>4, <2>3, <3>1, <3>3 DEF ReplayInv, GraphSound, TaskSound
    <3> QED BY <2>3, <3>4 DEF MemoryInv
  <2> QED BY <2>1, <2>2, <2>3
<1> QED BY <1>2, <1>4, <1>5, <1>6

-----------------------------------------------------------------------------
(* The refresh: RefreshEvents goes through the tasks in the order of the   *)
(* plan, and recovery moves each task it names.                            *)

IsRefresh(f, m) ==
  f = [n \in 0 .. Len(Order) |->
         IF n = 0 THEN <<>>
         ELSE IF RefreshTarget(m, Order[n]) = None THEN f[n - 1]
         ELSE Append(f[n - 1], RefreshEvent(m, Order[n]))]

LEMMA RefreshIs ==
  ASSUME NEW m
  PROVE  RefreshEvents(m) = (CHOOSE f : IsRefresh(f, m))[Len(Order)]
BY DEF RefreshEvents, IsRefresh

LEMMA RefreshExists ==
  ASSUME NEW m
  PROVE  \E f : IsRefresh(f, m)
<1> DEFINE After(b, n) == IF RefreshTarget(m, Order[n]) = None THEN b
                          ELSE Append(b, RefreshEvent(m, Order[n]))
           Upto(f, k) == f = [n \in 0 .. k |-> IF n = 0 THEN <<>> ELSE After(f[n - 1], n)]
<1> HIDE DEF After
<1>1. PICK T : T = {k \in Nat : ~\E f : Upto(f, k)}
  OBVIOUS
<1>2. ASSUME T # {} PROVE FALSE
  <2>1. PICK k \in T : \A c \in T : ~(c < k)
    BY <1>1, <1>2, LeastExists
  <2>2. k \in Nat /\ ~\E f : Upto(f, k)
    BY <1>1
  <2>3. CASE k = 0
    <3>1. PICK f : f = [n \in 0 .. 0 |-> <<>>]
      OBVIOUS
    <3>2. Upto(f, 0)
      BY <3>1
    <3> QED BY <2>2, <2>3, <3>2
  <2>4. CASE k # 0
    <3>1. k - 1 \in Nat /\ k - 1 < k
      BY <2>2, <2>4
    <3>2. k - 1 \notin T
      BY <2>1, <3>1
    <3>3. PICK f : Upto(f, k - 1)
      BY <1>1, <3>1, <3>2
    <3>4. PICK h : h = [n \in 0 .. k |-> IF n = k THEN After(f[k - 1], k) ELSE f[n]]
      OBVIOUS
    <3>5. ASSUME NEW n \in 0 .. k
          PROVE  h[n] = IF n = 0 THEN <<>> ELSE After(h[n - 1], n)
      <4>1. CASE n = k
        <5>1. k - 1 \in 0 .. k /\ k - 1 # k /\ h[n - 1] = f[k - 1]
          BY <3>1, <3>4, <4>1
        <5> QED BY <2>2, <2>4, <3>4, <4>1, <5>1
      <4>2. CASE n # k
        <5>1. n \in 0 .. k - 1 /\ h[n] = f[n]
          BY <2>2, <3>4, <4>2
        <5>2. f[n] = IF n = 0 THEN <<>> ELSE After(f[n - 1], n)
          BY <3>3, <5>1
        <5>3. CASE n = 0
          BY <5>1, <5>2, <5>3
        <5>4. CASE n # 0
          <6>1. n - 1 \in 0 .. k /\ n - 1 # k
            BY <2>2, <5>1, <5>4
          <6>2. h[n - 1] = f[n - 1]
            BY <3>4, <6>1
          <6> QED BY <5>1, <5>2, <5>4, <6>2
        <5> QED BY <5>3, <5>4
      <4> QED BY <4>1, <4>2
    <3>6. Upto(h, k)
      BY <3>4, <3>5
    <3> QED BY <2>2, <3>6
  <2> QED BY <2>3, <2>4
<1>3. \E f : Upto(f, Len(Order))
  BY <1>1, <1>2, OrderFacts
<1> QED BY <1>3 DEF IsRefresh, After

(* Where the refresh of m leaves task t, whose durable state is in g.      *)
RefreshedAt(m, g, h, t) ==
  /\ h.request[t] = g.request[t]
  /\ h.status[t] = IF RefreshTarget(m, t) = None THEN g.status[t] ELSE RefreshTarget(m, t)
  /\ h.rev[t] = IF RefreshTarget(m, t) = None THEN g.rev[t] ELSE g.rev[t] + 1

(* The refresh has gone through the first n tasks, and b is its batch.     *)
Halfway(s, m, g, b, n) ==
  /\ b \in Seq(Events) /\ s \o b \in Seq(Events)
  /\ Clean(Replay(s \o b))
  /\ \A i \in 1 .. Len(Order) :
       /\ i <= n => RefreshedAt(m, g, Replay(s \o b).graph, Order[i])
       /\ i > n => Same(Replay(s \o b).graph, g, Order[i])

LEMMA RefreshTargets ==
  ASSUME NEW m, NEW t, RefreshTarget(m, t) # None
  PROVE  /\ m.status[t] = "pending" /\ RefreshTarget(m, t) \in {"ready", "blocked"}
         /\ RefreshTarget(m, t) = "ready" => \A d \in plan[t].deps : m.status[d] \in Done
BY DEF RefreshTarget

LEMMA RefreshEventIs ==
  ASSUME NEW m \in Projection, NEW t \in Tasks, RefreshTarget(m, t) # None
  PROVE  /\ RefreshEvent(m, t) \in Events
         /\ Key(RefreshEvent(m, t)) = <<"status", t, m.rev[t] + 1>>
<1>1. PICK to \in Statuses : to = RefreshTarget(m, t)
  BY RefreshTargets DEF Statuses, Failed
<1>2. "pending" \in Statuses /\ m.rev[t] + 1 \in Nat
  BY GraphFacts DEF Statuses
<1> QED BY <1>1, <1>2, StatusEventIs DEF RefreshEvent

(* The batch holds an event for every task that the refresh moves.         *)
LEMMA RefreshNames ==
  ASSUME NEW m \in Projection
  PROVE  /\ RefreshEvents(m) \in Seq(Events)
         /\ \A t \in Tasks : RefreshTarget(m, t) # None =>
              \E k \in 1 .. Len(RefreshEvents(m)) : RefreshEvents(m)[k] = RefreshEvent(m, t)
<1> DEFINE Named(b, n) ==
      /\ b \in Seq(Events)
      /\ \A i \in 1 .. n : RefreshTarget(m, Order[i]) # None =>
           \E k \in 1 .. Len(b) : b[k] = RefreshEvent(m, Order[i])
<1>1. PICK f : f = CHOOSE x : IsRefresh(x, m)
  OBVIOUS
<1>2. IsRefresh(f, m)
  BY <1>1, RefreshExists
<1>3. \A n \in 0 .. Len(Order) :
        f[n] = IF n = 0 THEN <<>>
               ELSE IF RefreshTarget(m, Order[n]) = None THEN f[n - 1]
               ELSE Append(f[n - 1], RefreshEvent(m, Order[n]))
  BY <1>2 DEF IsRefresh
<1>4. PICK N \in Nat : N = Len(Order)
  BY OrderFacts
<1>5. PICK T : T = {n \in 0 .. N : ~Named(f[n], n)}
  OBVIOUS
<1>6. ASSUME T # {} PROVE FALSE
  <2>0. T \subseteq Nat
    BY <1>5
  <2>1. PICK n \in T : \A c \in T : ~(c < n)
    BY <1>6, <2>0, LeastExists
  <2>2. n \in 0 .. N /\ ~Named(f[n], n)
    BY <1>5
  <2>3. CASE n = 0
    <3>1. f[0] = <<>>
      BY <1>3, <1>4, <2>2, <2>3
    <3>2. Named(<<>>, 0)
      OBVIOUS
    <3> QED BY <2>2, <2>3, <3>1, <3>2
  <2>4. CASE n # 0
    <3>1. n - 1 \in 0 .. N /\ n - 1 < n /\ n \in 1 .. Len(Order) /\ n \in 0 .. Len(Order)
      BY <1>4, <2>2, <2>4
    <3>2. PICK b : b = f[n - 1]
      OBVIOUS
    <3>3. Named(b, n - 1)
      BY <1>5, <2>1, <3>1, <3>2
    <3>4. \A i \in 1 .. n : i \in 1 .. n - 1 \/ i = n
      BY <3>1
    <3>5. CASE RefreshTarget(m, Order[n]) = None
      <4>1. f[n] = b
        BY <1>3, <2>4, <3>1, <3>2, <3>5
      <4> QED BY <2>2, <3>3, <3>4, <3>5, <4>1
    <3>6. CASE RefreshTarget(m, Order[n]) # None
      <4>1. PICK e \in Events : e = RefreshEvent(m, Order[n])
        BY <3>1, <3>6, OrderFacts, RefreshEventIs
      <4>2. PICK a : a = Append(b, e)
        OBVIOUS
      <4>3. /\ a \in Seq(Events) /\ Len(a) = Len(b) + 1 /\ a[Len(b) + 1] = e
            /\ \A i \in 1 .. Len(b) : a[i] = b[i]
        BY <3>3, <4>2, AppendProperties
      <4>4. Len(b) \in Nat
        BY <3>3
      <4>5. Len(b) + 1 \in 1 .. Len(a) /\ \A i \in 1 .. Len(b) : i \in 1 .. Len(a)
        BY <4>3, <4>4
      <4>6. f[n] = a
        BY <1>3, <2>4, <3>1, <3>2, <3>6, <4>1, <4>2
      <4>7. ASSUME NEW i \in 1 .. n, RefreshTarget(m, Order[i]) # None
            PROVE  \E k \in 1 .. Len(a) : a[k] = RefreshEvent(m, Order[i])
        <5>1. CASE i = n
          BY <4>1, <4>3, <4>5, <5>1
        <5>2. CASE i \in 1 .. n - 1
          <6>1. PICK k \in 1 .. Len(b) : b[k] = RefreshEvent(m, Order[i])
            BY <3>3, <4>7, <5>2
          <6> QED BY <4>3, <4>5, <6>1
        <5> QED BY <3>4, <5>1, <5>2
      <4>8. Named(a, n)
        BY <4>3, <4>7
      <4> QED BY <2>2, <4>6, <4>8
    <3> QED BY <3>5, <3>6
  <2> QED BY <2>3, <2>4
<1>7. Named(f[N], N)
  BY <1>4, <1>5, <1>6
<1>8. RefreshEvents(m) = f[N]
  BY <1>1, <1>4, RefreshIs
<1>9. \A t \in Tasks : \E i \in 1 .. N : Order[i] = t
  BY <1>4, OrderFacts
<1> QED BY <1>7, <1>8, <1>9

LEMMA RefreshAdvances ==
  ASSUME NEW s \in Seq(Events), NEW m \in Projection, NEW g \in Projection,
         NEW b, NEW n \in 1 .. Len(Order), Halfway(s, m, g, b, n - 1),
         RefreshTarget(m, Order[n]) # None, Same(m, g, Order[n])
  PROVE  Halfway(s, m, g, Append(b, RefreshEvent(m, Order[n])), n)
<1>1. PICK t \in Tasks : t = Order[n]
  BY OrderFacts
<1>2. PICK e \in Events : e = RefreshEvent(m, t)
  BY <1>1, RefreshEventIs
<1>3. PICK q \in Seq(Events) : q = s \o b
  BY DEF Halfway
<1>4. b \in Seq(Events)
  BY DEF Halfway
<1>5. PICK a \in Seq(Events) : a = Append(b, e)
  BY <1>4, AppendProperties
<1>6. s \o a = Append(q, e) /\ s \o a \in Seq(Events)
  <2>1. <<e>> \in Seq(Events)
    OBVIOUS
  <2>2. a = b \o <<e>> /\ Append(q, e) = q \o <<e>>
    BY <1>4, <1>5, AppendIsConcat
  <2>3. s \o (b \o <<e>>) = (s \o b) \o <<e>>
    BY <1>4, <2>1, ConcatAssociative
  <2>4. Append(q, e) \in Seq(Events)
    OBVIOUS
  <2> QED BY <1>3, <2>2, <2>3, <2>4
<1>7. PICK c \in Candidates : c = Replay(q) /\ Clean(c)
  BY <1>3 DEF Halfway, Clean
<1>8. Same(c.graph, g, t)
  <2>1. n > n - 1
    OBVIOUS
  <2> QED BY <1>1, <1>3, <1>7, <2>1 DEF Halfway
<1>9. PICK to \in Statuses : /\ to = RefreshTarget(m, t) /\ to # None
                             /\ to \in {"ready", "blocked"}
  BY <1>1, RefreshTargets DEF Statuses, Failed
<1>10. /\ c.graph.status[t] = "pending" /\ c.graph.rev[t] = m.rev[t] /\ m.rev[t] \in Nat
       /\ m.rev[t] = g.rev[t] /\ g.request[t] = c.graph.request[t]
  BY <1>1, <1>8, RefreshTargets, GraphFacts DEF Same
<1>11. PICK k \in Nat : k = Len(q) + 1
  OBVIOUS
<1>12. PICK d \in Candidates : /\ d = Stepped(c, e, k) /\ d.ok /\ d.planned
                               /\ d.created = Order /\ d.graph = Moved(c.graph, t, to)
                               /\ d.awaiting = c.awaiting /\ d.due = c.due
  <2>1. c.ok /\ c.planned /\ c.created = Order
    BY <1>7 DEF Clean
  <2>2. /\ to \in Allowed[c.graph.status[t]] /\ c.graph.status[t] # "waiting_approval"
        /\ to # "waiting_approval"
    BY <1>9, <1>10 DEF Allowed, Statuses
  <2>3. e = StatusEvent(t, c.graph.status[t], to, c.graph.rev[t] + 1)
    BY <1>2, <1>9, <1>10 DEF RefreshEvent
  <2>4. /\ Stepped(c, e, k) \in Candidates
        /\ Stepped(c, e, k).ok /\ Stepped(c, e, k).planned
        /\ Stepped(c, e, k).created = Order
        /\ Stepped(c, e, k).graph = Moved(c.graph, t, to)
        /\ Stepped(c, e, k).awaiting = c.awaiting /\ Stepped(c, e, k).due = c.due
    BY <2>1, <2>2, <2>3, StatusSteps
  <2> QED BY <2>4
<1>13. Replay(s \o a) = d
  BY <1>6, <1>7, <1>11, <1>12, ReplayAppend
<1>14. Clean(d)
  BY <1>7, <1>12 DEF Clean
<1>15. PICK h \in Projection : /\ h = d.graph /\ h.status[t] = to
                               /\ h.rev[t] = g.rev[t] + 1 /\ h.request[t] = g.request[t]
                               /\ \A u \in Tasks \ {t} : Same(h, c.graph, u)
  <2>1. c.graph \in Projection
    BY CandidateFacts
  <2>2. PICK h \in Projection : /\ h = Moved(c.graph, t, to) /\ h.status[t] = to
                                /\ h.rev[t] = c.graph.rev[t] + 1
                                /\ h.request = c.graph.request
                                /\ \A u \in Tasks \ {t} : Same(h, c.graph, u)
    BY <2>1, MovedIs
  <2> QED BY <1>10, <1>12, <2>2
<1>16. ASSUME NEW i \in 1 .. Len(Order)
       PROVE  /\ i <= n => RefreshedAt(m, g, h, Order[i])
              /\ i > n => Same(h, g, Order[i])
  <2>1. CASE i = n
    <3>1. RefreshedAt(m, g, h, t)
      BY <1>9, <1>15 DEF RefreshedAt
    <3> QED BY <1>1, <2>1, <3>1
  <2>2. CASE i # n
    <3>1. PICK u \in Tasks : u = Order[i] /\ u # t
      BY <1>1, <2>2, OrderFacts
    <3>2. Same(h, c.graph, u)
      BY <1>15, <3>1
    <3>3. i <= n => i <= n - 1
      BY <2>2
    <3>4. i > n => i > n - 1
      OBVIOUS
    <3>5. /\ i <= n => RefreshedAt(m, g, c.graph, u)
          /\ i > n => Same(c.graph, g, u)
      BY <1>3, <1>7, <3>1, <3>3, <3>4 DEF Halfway
    <3> QED BY <3>1, <3>2, <3>5 DEF Same, RefreshedAt
  <2> QED BY <2>1, <2>2
<1> QED BY <1>1, <1>2, <1>5, <1>6, <1>13, <1>14, <1>15, <1>16 DEF Halfway

LEMMA RefreshReplays ==
  ASSUME NEW s \in Seq(Events), NEW m \in Projection, NEW g \in Projection,
         Clean(Replay(s)), Replay(s).graph = g,
         \A t \in Tasks : RefreshTarget(m, t) # None => Same(m, g, t)
  PROVE  Halfway(s, m, g, RefreshEvents(m), Len(Order))
<1>1. PICK f : f = CHOOSE x : IsRefresh(x, m)
  OBVIOUS
<1>2. IsRefresh(f, m)
  BY <1>1, RefreshExists
<1>3. \A n \in 0 .. Len(Order) :
        f[n] = IF n = 0 THEN <<>>
               ELSE IF RefreshTarget(m, Order[n]) = None THEN f[n - 1]
               ELSE Append(f[n - 1], RefreshEvent(m, Order[n]))
  BY <1>2 DEF IsRefresh
<1>4. PICK N \in Nat : N = Len(Order)
  BY OrderFacts
<1>5. PICK T : T = {n \in 0 .. N : ~Halfway(s, m, g, f[n], n)}
  OBVIOUS
<1>6. ASSUME T # {} PROVE FALSE
  <2>0. T \subseteq Nat
    BY <1>5
  <2>1. PICK n \in T : \A c \in T : ~(c < n)
    BY <1>6, <2>0, LeastExists
  <2>2. n \in 0 .. N /\ ~Halfway(s, m, g, f[n], n)
    BY <1>5
  <2>3. CASE n = 0
    <3>1. f[0] = <<>> /\ <<>> \in Seq(Events) /\ s \o <<>> = s
      BY <1>3, <1>4, <2>2, <2>3
    <3>2. \A i \in 1 .. Len(Order) : i > 0 /\ ~(i <= 0)
      BY <1>4
    <3>3. Halfway(s, m, g, <<>>, 0)
      BY <3>1, <3>2 DEF Halfway, Same
    <3> QED BY <2>2, <2>3, <3>1, <3>3
  <2>4. CASE n # 0
    <3>1. n - 1 \in 0 .. N /\ n - 1 < n /\ n \in 1 .. Len(Order) /\ n \in 0 .. Len(Order)
      BY <1>4, <2>2, <2>4
    <3>2. Halfway(s, m, g, f[n - 1], n - 1)
      BY <1>5, <2>1, <3>1
    <3>3. PICK b : b = f[n - 1]
      OBVIOUS
    <3>4. CASE RefreshTarget(m, Order[n]) = None
      <4>1. f[n] = b
        BY <1>3, <2>4, <3>1, <3>3, <3>4
      <4>2. \A i \in 1 .. Len(Order) : i <= n => i <= n - 1 \/ i = n
        BY <3>1
      <4>3. \A i \in 1 .. Len(Order) : i > n => i > n - 1
        BY <3>1
      <4>4. RefreshedAt(m, g, Replay(s \o b).graph, Order[n])
        <5>1. n > n - 1
          BY <3>1
        <5>2. Same(Replay(s \o b).graph, g, Order[n])
          BY <3>1, <3>2, <3>3, <5>1 DEF Halfway
        <5> QED BY <3>4, <5>2 DEF Same, RefreshedAt
      <4>5. Halfway(s, m, g, b, n)
        BY <3>2, <3>3, <3>4, <4>2, <4>3, <4>4 DEF Halfway
      <4> QED BY <2>2, <4>1, <4>5
    <3>5. CASE RefreshTarget(m, Order[n]) # None
      <4>1. f[n] = Append(b, RefreshEvent(m, Order[n]))
        BY <1>3, <2>4, <3>1, <3>3, <3>5
      <4>2. Same(m, g, Order[n])
        BY <3>1, <3>5, OrderFacts
      <4>3. Halfway(s, m, g, Append(b, RefreshEvent(m, Order[n])), n)
        BY <3>1, <3>2, <3>3, <3>5, <4>2, RefreshAdvances
      <4> QED BY <2>2, <4>1, <4>3
    <3> QED BY <3>4, <3>5
  <2> QED BY <2>3, <2>4
<1>7. Halfway(s, m, g, f[N], N)
  BY <1>4, <1>5, <1>6
<1> QED BY <1>1, <1>4, <1>7, RefreshIs

LEMMA RefreshedIs ==
  ASSUME NEW m \in Projection
  PROVE  /\ Refreshed(m) \in Projection
         /\ \A t \in Tasks : RefreshedAt(m, m, Refreshed(m), t)
<1>1. PICK h : h = Refreshed(m)
  OBVIOUS
<1>2. /\ h.status = [t \in Tasks |-> IF RefreshTarget(m, t) = None THEN m.status[t]
                                     ELSE RefreshTarget(m, t)]
      /\ h.rev = [t \in Tasks |-> IF RefreshTarget(m, t) = None THEN m.rev[t]
                                  ELSE m.rev[t] + 1]
      /\ h.request = m.request
      /\ h = [status |-> h.status, rev |-> h.rev, request |-> h.request]
  <2>1. PICK a, b :
          /\ a = [t \in Tasks |-> IF RefreshTarget(m, t) = None THEN m.status[t]
                                   ELSE RefreshTarget(m, t)]
          /\ b = [t \in Tasks |-> IF RefreshTarget(m, t) = None THEN m.rev[t]
                                   ELSE m.rev[t] + 1]
    OBVIOUS
  <2>2. h = [m EXCEPT !.status = a, !.rev = b]
    BY <1>1, <2>1 DEF Refreshed
  <2>3. m = [status |-> m.status, rev |-> m.rev, request |-> m.request]
    BY GraphFacts
  <2>4. h = [status |-> a, rev |-> b, request |-> m.request]
    BY <2>2, <2>3
  <2>5. /\ h.status = a /\ h.rev = b /\ h.request = m.request
        /\ h = [status |-> h.status, rev |-> h.rev, request |-> h.request]
    BY <2>4
  <2> QED BY <2>1, <2>5
<1>3. \A t \in Tasks : RefreshTarget(m, t) # None => RefreshTarget(m, t) \in Statuses
  BY RefreshTargets DEF Statuses, Failed
<1>4. h.status \in [Tasks -> Statuses] /\ h.rev \in [Tasks -> Nat]
  BY <1>2, <1>3, GraphFacts
<1>5. h \in Projection
  BY <1>2, <1>4, GraphFacts DEF Projection
<1>6. \A t \in Tasks : RefreshedAt(m, m, h, t)
  BY <1>2 DEF RefreshedAt
<1> QED BY <1>1, <1>5, <1>6

(* The refresh of a sound graph m, appended to a stream s that continues   *)
(* the log, moves the tasks that it names, which m has not fallen behind.  *)
LEMMA RefreshMoves ==
  ASSUME KernelInv, plan' = plan, NEW s \in Seq(Events), Clean(Replay(s)),
         Replay(s).graph = Durable, Len(log) <= Len(s),
         \A i \in 1 .. Len(log) : s[i] = log[i],
         NEW m, GraphSound(m), log' = s \o RefreshEvents(m),
         NEW M, M = {t \in Tasks : RefreshTarget(m, t) # None},
         \A t \in M : Same(m, Durable, t)
  PROVE  /\ Moves(M)
         /\ \A t \in M : Same(Refreshed(m), Durable', t)
         /\ \A t \in Tasks \ M : Same(Refreshed(m), m, t)
<1>1. PICK g \in Projection : g = Durable
  BY KernelFacts
<1>2. m \in Projection /\ Len(log) \in Nat /\ Len(s) \in Nat
  BY KernelFacts DEF GraphSound
<1>3. \A t \in Tasks : RefreshTarget(m, t) # None => Same(m, g, t)
  BY <1>1
<1>4. PICK b \in Seq(Events) :
        /\ b = RefreshEvents(m)
        /\ \A t \in Tasks : RefreshTarget(m, t) # None =>
             \E k \in 1 .. Len(b) : b[k] = RefreshEvent(m, t)
  BY <1>2, RefreshNames
<1>5. Halfway(s, m, g, b, Len(Order))
  BY <1>1, <1>2, <1>3, <1>4, RefreshReplays
<1>6. /\ log' \in Seq(Events) /\ Len(log') = Len(s) + Len(b)
      /\ \A i \in 1 .. Len(s) + Len(b) :
           log'[i] = IF i <= Len(s) THEN s[i] ELSE b[i - Len(s)]
  BY <1>4, ConcatProperties
<1>7. Len(b) \in Nat
  BY <1>4
<1>8. LogGrows
  <2>1. Len(log) <= Len(log')
    BY <1>2, <1>6, <1>7
  <2>2. ASSUME NEW i \in 1 .. Len(log) PROVE log'[i] = log[i]
    <3>1. i \in 1 .. Len(s) + Len(b) /\ i <= Len(s)
      BY <1>2, <1>7
    <3> QED BY <1>6, <3>1
  <2> QED BY <1>6, <2>1, <2>2 DEF LogGrows
<1>9. PICK h \in Projection : h = Durable' /\ Clean(Replay(log))'
                              /\ \A t \in Tasks : RefreshedAt(m, g, h, t)
  <2>1. PICK c \in Candidates : c = Replay(s \o b) /\ Clean(c)
    BY <1>5 DEF Halfway, Clean
  <2>2. log' = s \o b
    BY <1>4
  <2>3. Clean(Replay(log))' /\ Durable' = c.graph /\ c.graph \in Projection
    BY <2>1, <2>2, CandidateFacts DEF Clean, Durable
  <2>4. \A i \in 1 .. Len(Order) : i <= Len(Order) /\ RefreshedAt(m, g, c.graph, Order[i])
    <3>1. \A i \in 1 .. Len(Order) : i <= Len(Order)
      BY OrderFacts
    <3> QED BY <1>5, <2>1, <3>1 DEF Halfway
  <2>5. \A t \in Tasks : RefreshedAt(m, g, c.graph, t)
    BY <2>4, OrderFacts
  <2> QED BY <2>3, <2>5
<1>10. \A t \in Tasks \ M : Same(h, g, t)
  BY <1>9 DEF RefreshedAt, Same
<1>11. ASSUME NEW t \in M
       PROVE  /\ h.rev[t] > g.rev[t]
              /\ \A r \in g.rev[t] + 1 .. h.rev[t] :
                   \E i \in 1 .. Len(log') : Key(log'[i]) = <<"status", t, r>>
              /\ TaskSound(h, t)'
  <2>1. /\ t \in Tasks /\ RefreshTarget(m, t) # None /\ Same(m, g, t)
        /\ m.rev[t] \in Nat /\ g.rev[t] \in Nat
    BY <1>1, <1>2, GraphFacts
  <2>2. /\ h.rev[t] = g.rev[t] + 1 /\ h.status[t] = RefreshTarget(m, t)
        /\ h.request[t] = g.request[t]
    BY <1>9, <2>1 DEF RefreshedAt
  <2>3. /\ h.rev[t] > g.rev[t] /\ \A r \in g.rev[t] + 1 .. h.rev[t] : r = g.rev[t] + 1
    BY <2>1, <2>2
  <2>4. PICK k \in 1 .. Len(b) : b[k] = RefreshEvent(m, t)
    BY <1>4, <2>1
  <2>5. /\ Len(s) + k \in 1 .. Len(log') /\ Len(s) + k \in 1 .. Len(s) + Len(b)
        /\ ~(Len(s) + k <= Len(s)) /\ (Len(s) + k) - Len(s) = k
    BY <1>2, <1>6, <1>7
  <2>6. log'[Len(s) + k] = RefreshEvent(m, t)
    BY <1>6, <2>4, <2>5
  <2>7. Key(RefreshEvent(m, t)) = <<"status", t, g.rev[t] + 1>>
    <3>1. Key(RefreshEvent(m, t)) = <<"status", t, m.rev[t] + 1>>
      BY <1>2, <2>1, RefreshEventIs
    <3> QED BY <2>1, <3>1 DEF Same
  <2>8. TaskSound(h, t)'
    <3>1. /\ m.status[t] = "pending" /\ h.status[t] \in {"ready", "blocked"}
          /\ h.status[t] = "ready" => \A d \in plan[t].deps : m.status[d] \in Done
      BY <2>1, <2>2, RefreshTargets
    <3>2. h.request[t] = None
      BY <2>1, <2>2, <3>1 DEF Same, GraphSound, TaskSound, RequestFits
    <3>3. None # "pending" /\ None # "approve"
      BY NoneAssumption DEF Statuses, Decisions
    <3>4. RequestFits(h.status[t], h.request[t])
      BY <3>1, <3>2, <3>3 DEF RequestFits
    <3>5. ASSUME h.status[t] = "ready", NEW d \in plan[t].deps PROVE Published(d)'
      <4>1. d \in Tasks
        BY <2>1, KernelFacts DEF TaskSpec
      <4>2. Published(d)
        BY <3>1, <3>5, <4>1 DEF GraphSound, TaskSound
      <4> QED BY <1>8, <4>2, LoggedStays
    <3> QED BY <3>1, <3>2, <3>3, <3>4, <3>5 DEF TaskSound, Done
  <2> QED BY <2>3, <2>5, <2>6, <2>7, <2>8
<1>12. \A t \in M : TaskSound(Durable, t)'
  BY <1>9, <1>11 DEF TaskSound
<1>13. Moves(M)
  BY <1>1, <1>8, <1>9, <1>10, <1>11, <1>12 DEF Moves
<1>14. \A t \in Tasks : RefreshedAt(m, m, Refreshed(m), t)
  BY <1>2, RefreshedIs
<1>15. \A t \in M : Same(Refreshed(m), h, t)
  BY <1>3, <1>9, <1>14 DEF RefreshedAt, Same
<1>16. \A t \in Tasks \ M : Same(Refreshed(m), m, t)
  BY <1>14 DEF RefreshedAt, Same
<1> QED BY <1>9, <1>13, <1>15, <1>16

-----------------------------------------------------------------------------
(* The first batch of a session.                                           *)

LEMMA CandidateIs ==
  /\ Candidate \in Candidates /\ Candidate.ok /\ ~Candidate.planned
  /\ Candidate.graph = NewGraph /\ NewGraph \in Projection
  /\ Candidate.created = <<>> /\ ~Candidate.moved /\ Even(Candidate)
  /\ \A t \in Tasks : NewGraph.status[t] = "pending" /\ NewGraph.rev[t] = 0
                      /\ NewGraph.request[t] = None
<1>1. PICK g : g = NewGraph
  OBVIOUS
<1>2. g \in Projection
  BY <1>1 DEF NewGraph, Projection, Statuses
<1>3. \A t \in Tasks : g.status[t] = "pending" /\ g.rev[t] = 0 /\ g.request[t] = None
  BY <1>1 DEF NewGraph
<1>4. PICK z : z = [t \in Tasks |-> 0]
  OBVIOUS
<1>5. z \in [Tasks -> Nat] /\ \A t \in Tasks : z[t] = 0
  BY <1>4
<1>6. PICK c : c = [graph |-> g, planned |-> FALSE, created |-> <<>>, moved |-> FALSE,
                    awaiting |-> z, due |-> z, ok |-> TRUE]
  OBVIOUS
<1>7. c = Candidate
  BY <1>1, <1>4, <1>6 DEF Candidate
<1>8. <<>> \in Seq(Tasks)
  OBVIOUS
<1>9. c \in Candidates
  BY <1>2, <1>5, <1>6, <1>8 DEF Candidates
<1>10. c.ok /\ ~c.planned /\ c.graph = g /\ c.created = <<>> /\ ~c.moved /\ Even(c)
  BY <1>5, <1>6 DEF Even
<1> QED BY <1>1, <1>2, <1>3, <1>7, <1>9, <1>10

(* The plan is known and n of its tasks are.                               *)
Begun(c, n) ==
  /\ c \in Candidates /\ c.ok /\ c.planned /\ ~c.moved /\ Even(c)
  /\ c.graph = NewGraph
  /\ Len(c.created) = n /\ \A i \in 1 .. n : c.created[i] = Order[i]

LEMMA PlanSteps == Begun(Stepped(Candidate, Event("plan", None), 1), 0)
<1>1. PICK c \in Candidates : /\ c = Candidate /\ c.ok /\ ~c.planned /\ c.graph = NewGraph
                              /\ c.created = <<>> /\ ~c.moved /\ Even(c)
  BY CandidateIs
<1>2. PICK e : e = Event("plan", None) /\ e.type = "plan"
  BY EventIs DEF EventTypes
<1>3. PICK d : d = Stepped(c, e, 1)
  OBVIOUS
<1>4. d = [c EXCEPT !.planned = TRUE]
  BY <1>1, <1>2, <1>3 DEF Stepped, Accepted, Applied
<1>5. c = [graph |-> c.graph, planned |-> c.planned, created |-> c.created,
           moved |-> c.moved, awaiting |-> c.awaiting, due |-> c.due, ok |-> c.ok]
  BY CandidateFacts
<1>6. d = [graph |-> c.graph, planned |-> TRUE, created |-> c.created,
           moved |-> c.moved, awaiting |-> c.awaiting, due |-> c.due, ok |-> c.ok]
  BY <1>4, <1>5
<1>7. /\ d \in Candidates /\ d.ok = c.ok /\ d.planned /\ d.moved = c.moved
      /\ d.graph = c.graph /\ d.created = c.created
      /\ d.awaiting = c.awaiting /\ d.due = c.due
  BY <1>6, CandidateFacts DEF Candidates
<1>8. Len(d.created) = 0 /\ \A i \in 1 .. 0 : d.created[i] = Order[i]
  BY <1>1, <1>7
<1>9. Even(d)
  BY <1>1, <1>7 DEF Even
<1>10. Begun(d, 0)
  BY <1>1, <1>7, <1>8, <1>9 DEF Begun
<1> QED BY <1>1, <1>2, <1>3, <1>10

LEMMA CreatedSteps ==
  ASSUME NEW n \in 1 .. Len(Order), NEW c, Begun(c, n - 1), NEW k
  PROVE  Begun(Stepped(c, Event("created", Order[n]), k), n)
<1>1. PICK t \in Tasks : t = Order[n]
  BY OrderFacts
<1>2. PICK e : e = Event("created", t) /\ e.type = "created" /\ e.task = t
  BY EventIs DEF EventTypes
<1>3. PICK d : d = Stepped(c, e, k)
  OBVIOUS
<1>4. PICK q : q = Append(c.created, t)
  OBVIOUS
<1>5. d = [c EXCEPT !.created = q]
  BY <1>2, <1>3, <1>4 DEF Begun, Stepped, Accepted, Applied
<1>6. c = [graph |-> c.graph, planned |-> c.planned, created |-> c.created,
           moved |-> c.moved, awaiting |-> c.awaiting, due |-> c.due, ok |-> c.ok]
  BY CandidateFacts DEF Begun
<1>7. d = [graph |-> c.graph, planned |-> c.planned, created |-> q,
           moved |-> c.moved, awaiting |-> c.awaiting, due |-> c.due, ok |-> c.ok]
  BY <1>5, <1>6
<1>8. c.created \in Seq(Tasks) /\ Len(c.created) = n - 1
      /\ \A i \in 1 .. n - 1 : c.created[i] = Order[i]
  BY CandidateFacts DEF Begun
<1>9. /\ q \in Seq(Tasks) /\ Len(q) = n
      /\ \A i \in 1 .. n : q[i] = Order[i]
  <2>1. /\ q \in Seq(Tasks) /\ Len(q) = (n - 1) + 1
        /\ \A i \in 1 .. n - 1 : q[i] = c.created[i]
        /\ q[(n - 1) + 1] = t
    BY <1>4, <1>8, AppendProperties
  <2>2. (n - 1) + 1 = n /\ \A i \in 1 .. n : i \in 1 .. n - 1 \/ i = n
    OBVIOUS
  <2> QED BY <1>1, <1>8, <2>1, <2>2
<1>10. /\ d \in Candidates /\ d.ok = c.ok /\ d.planned = c.planned /\ d.moved = c.moved
       /\ d.graph = c.graph /\ d.created = q
       /\ d.awaiting = c.awaiting /\ d.due = c.due
  BY <1>7, <1>9, CandidateFacts DEF Begun, Candidates
<1>11. c.ok /\ c.planned /\ ~c.moved /\ Even(c) /\ c.graph = NewGraph
  BY DEF Begun
<1>12. Even(d)
  BY <1>10, <1>11 DEF Even
<1>13. Begun(d, n)
  BY <1>9, <1>10, <1>11, <1>12 DEF Begun
<1> QED BY <1>1, <1>2, <1>3, <1>13

PlanBatch == <<Event("plan", None)>> \o [i \in 1 .. Len(Order) |-> Event("created", Order[i])]

LEMMA PlanReplays ==
  /\ PlanBatch \in Seq(Events)
  /\ Clean(Replay(PlanBatch)) /\ Replay(PlanBatch).graph = NewGraph
<1> DEFINE Prefix(n) == [i \in 1 .. n + 1 |-> IF i = 1 THEN Event("plan", None)
                                           ELSE Event("created", Order[i - 1])]
<1>1. PICK N \in Nat : N = Len(Order)
  BY OrderFacts
<1>2. /\ Event("plan", None) \in Events
      /\ \A i \in 1 .. N : Event("created", Order[i]) \in Events
  BY <1>1, OrderFacts, EventIs DEF EventTypes
<1>3. ASSUME NEW n \in 0 .. N
      PROVE  Prefix(n) \in Seq(Events) /\ Len(Prefix(n)) = n + 1
  <2>1. \A i \in 1 .. n + 1 : i # 1 => i - 1 \in 1 .. N
    OBVIOUS
  <2>2. Prefix(n) \in [1 .. n + 1 -> Events]
    BY <1>2, <2>1
  <2>3. n + 1 \in Nat
    OBVIOUS
  <2>4. Prefix(n) \in Seq(Events)
    BY <2>2, <2>3, SeqDef
  <2>5. Len(Prefix(n)) = n + 1
    BY <2>2, <2>3, <2>4, LenProperties
  <2> QED BY <2>4, <2>5
<1>4. Prefix(0) = Append(<<>>, Event("plan", None))
  OBVIOUS
<1>5. ASSUME NEW n \in 1 .. N
      PROVE  Prefix(n) = Append(Prefix(n - 1), Event("created", Order[n]))
  <2>1. n - 1 \in 0 .. N /\ (n - 1) + 1 = n
    OBVIOUS
  <2>2. PICK p \in Seq(Events), e \in Events :
          p = Prefix(n - 1) /\ Len(p) = n /\ e = Event("created", Order[n])
    BY <1>2, <1>3, <2>1
  <2>3. PICK a \in Seq(Events) : /\ a = Append(p, e) /\ Len(a) = n + 1 /\ a[n + 1] = e
                                 /\ \A i \in 1 .. n : a[i] = p[i]
    <3>1. PICK a : a = Append(p, e)
      OBVIOUS
    <3>2. /\ a \in Seq(Events) /\ Len(a) = Len(p) + 1 /\ a[Len(p) + 1] = e
          /\ \A i \in 1 .. Len(p) : a[i] = p[i]
      BY <3>1, AppendProperties
    <3> QED BY <2>2, <3>1, <3>2
  <2>4. PICK h \in Seq(Events) : h = Prefix(n) /\ Len(h) = n + 1
    <3>1. n \in 0 .. N
      OBVIOUS
    <3> QED BY <1>3, <3>1
  <2>5. ASSUME NEW i \in 1 .. n + 1 PROVE h[i] = a[i]
    <3>1. CASE i = n + 1
      <4>1. i # 1 /\ i - 1 = n
        BY <3>1
      <4>2. h[i] = Event("created", Order[i - 1])
        BY <2>4, <4>1
      <4> QED BY <2>2, <2>3, <3>1, <4>1, <4>2
    <3>2. CASE i # n + 1
      <4>1. i \in 1 .. n /\ i \in 1 .. (n - 1) + 1
        BY <3>2
      <4>2. p[i] = IF i = 1 THEN Event("plan", None) ELSE Event("created", Order[i - 1])
        BY <2>2, <4>1
      <4>3. h[i] = IF i = 1 THEN Event("plan", None) ELSE Event("created", Order[i - 1])
        BY <2>4
      <4> QED BY <2>3, <4>1, <4>2, <4>3
    <3> QED BY <3>1, <3>2
  <2>6. h = a
    <3>1. Len(h) = Len(a) /\ \A i \in 1 .. Len(h) : h[i] = a[i]
      BY <2>3, <2>4, <2>5
    <3> QED BY <3>1, SeqEqual
  <2> QED BY <2>2, <2>3, <2>4, <2>6
<1> HIDE DEF Prefix
<1>6. PICK T : T = {n \in 0 .. N : ~Begun(Replay(Prefix(n)), n)}
  OBVIOUS
<1>7. ASSUME T # {} PROVE FALSE
  <2>0. T \subseteq Nat
    BY <1>6
  <2>1. PICK n \in T : \A c \in T : ~(c < n)
    BY <1>7, <2>0, LeastExists
  <2>2. n \in 0 .. N /\ ~Begun(Replay(Prefix(n)), n)
    BY <1>6
  <2>3. CASE n = 0
    <3>1. <<>> \in Seq(Events) /\ Len(<<>>) + 1 = 1
      OBVIOUS
    <3>2. Replay(Prefix(0)) = Stepped(Candidate, Event("plan", None), 1)
      BY <1>2, <1>4, <3>1, ReplayAppend, ReplayEmpty
    <3> QED BY <2>2, <2>3, <3>2, PlanSteps
  <2>4. CASE n # 0
    <3>1. n \in 1 .. N /\ n \in 1 .. Len(Order) /\ n - 1 \in 0 .. N /\ n - 1 < n
      BY <1>1, <2>2, <2>4
    <3>2. Begun(Replay(Prefix(n - 1)), n - 1)
      BY <1>6, <2>1, <3>1
    <3>3. PICK p \in Seq(Events), e \in Events :
            p = Prefix(n - 1) /\ e = Event("created", Order[n])
      BY <1>2, <1>3, <3>1
    <3>k. PICK k : k = Len(p) + 1
      OBVIOUS
    <3>4. Replay(Append(p, e)) = Stepped(Replay(p), e, k)
      BY <3>k, ReplayAppend
    <3>5. Begun(Stepped(Replay(p), e, k), n)
      BY <3>1, <3>2, <3>3, CreatedSteps
    <3>6. Prefix(n) = Append(p, e)
      BY <1>5, <3>1, <3>3
    <3> QED BY <2>2, <3>4, <3>5, <3>6
  <2> QED BY <2>3, <2>4
<1>8. N \in 0 .. N /\ Begun(Replay(Prefix(N)), N)
  BY <1>6, <1>7
<1>9. PlanBatch = Prefix(N)
  <2>1. PICK p \in Seq(Events), q \in Seq(Events), h \in Seq(Events) :
          /\ p = <<Event("plan", None)>> /\ Len(p) = 1 /\ p[1] = Event("plan", None)
          /\ q = [i \in 1 .. Len(Order) |-> Event("created", Order[i])] /\ Len(q) = N
          /\ h = Prefix(N) /\ Len(h) = N + 1
    <3>1. PICK p \in Seq(Events) : /\ p = <<Event("plan", None)>> /\ Len(p) = 1
                                   /\ p[1] = Event("plan", None)
      BY <1>2, SingleBatch
    <3>2. PICK q : q = [i \in 1 .. Len(Order) |-> Event("created", Order[i])]
      OBVIOUS
    <3>3. q \in [1 .. N -> Events]
      BY <1>1, <1>2, <3>2
    <3>4. q \in Seq(Events)
      BY <3>3, SeqDef
    <3>5. Len(q) = N
      BY <3>3, <3>4, LenProperties
    <3>6. PICK h \in Seq(Events) : h = Prefix(N) /\ Len(h) = N + 1
      BY <1>3, <1>8
    <3> QED BY <3>1, <3>2, <3>4, <3>5, <3>6
  <2>2. PICK b \in Seq(Events) :
          /\ b = p \o q /\ Len(b) = 1 + N
          /\ \A i \in 1 .. 1 + N : b[i] = IF i <= 1 THEN p[i] ELSE q[i - 1]
    <3>1. PICK b : b = p \o q
      OBVIOUS
    <3>2. /\ b \in Seq(Events) /\ Len(b) = Len(p) + Len(q)
          /\ \A i \in 1 .. Len(p) + Len(q) :
               b[i] = IF i <= Len(p) THEN p[i] ELSE q[i - Len(p)]
      BY <3>1, ConcatProperties
    <3>3. Len(p) = 1 /\ Len(q) = N
      BY <2>1
    <3>4. /\ b \in Seq(Events) /\ Len(b) = 1 + N
          /\ \A i \in 1 .. 1 + N : b[i] = IF i <= 1 THEN p[i] ELSE q[i - 1]
      BY <3>2, <3>3
    <3> QED BY <3>1, <3>4
  <2>3. ASSUME NEW i \in 1 .. N + 1 PROVE h[i] = b[i]
    <3>1. h[i] = IF i = 1 THEN Event("plan", None) ELSE Event("created", Order[i - 1])
      BY <2>1 DEF Prefix
    <3>2. i \in 1 .. 1 + N /\ (i <= 1 <=> i = 1)
      OBVIOUS
    <3>3. CASE i = 1
      BY <2>1, <2>2, <3>1, <3>2, <3>3
    <3>4. CASE i # 1
      <4>1. i - 1 \in 1 .. Len(Order)
        BY <1>1, <3>4
      <4>2. q[i - 1] = Event("created", Order[i - 1])
        BY <2>1, <4>1
      <4>3. ~(i <= 1) /\ i \in 1 .. 1 + N
        BY <3>2, <3>4
      <4>4. b[i] = q[i - 1]
        BY <2>2, <4>3
      <4>5. h[i] = Event("created", Order[i - 1])
        BY <3>1, <3>4
      <4> QED BY <4>2, <4>4, <4>5
    <3> QED BY <3>3, <3>4
  <2>4. Len(b) = N + 1
    BY <2>2
  <2>5. h = b
    BY <2>1, <2>3, <2>4, SeqEqual
  <2> QED BY <2>1, <2>2, <2>5 DEF PlanBatch
<1>10. PICK c : c = Replay(PlanBatch) /\ Begun(c, N)
  BY <1>8, <1>9
<1>11. c.created = Order
  <2>1. PICK q \in Seq(Tasks) : q = c.created /\ Len(q) = N /\ \A i \in 1 .. N : q[i] = Order[i]
    BY <1>10, CandidateFacts DEF Begun
  <2>2. Order \in Seq(Tasks)
    BY OrderFacts
  <2> QED BY <1>1, <2>1, <2>2, SeqEqual
<1>12. Clean(c) /\ c.graph = NewGraph
  BY <1>10, <1>11 DEF Clean, Begun, Even
<1>13. PlanBatch \in Seq(Events)
  BY <1>3, <1>8, <1>9
<1> QED BY <1>10, <1>12, <1>13

-----------------------------------------------------------------------------
(* The steps.  A step keeps the invariant when it keeps the graphs sound   *)
(* and leaves every coroutine but its own as it was.                       *)

Labels == {"none", "queued", "hook", "compiling", "announcing", "started", "invoking",
           "failing", "recording", "publishing", "completing", "ended", "raised"}

LEMMA NotLoadedIsNoGraph == NotLoaded \notin Projection
<1>1. DOMAIN NotLoaded = {"status"}
  BY DEF NotLoaded
<1>2. \A g \in Projection : "rev" \in DOMAIN g
  BY DEF Projection
<1> QED BY <1>1, <1>2

LEMMA LoadedFacts ==
  ASSUME KernelInv, Loaded
  PROVE  mem \in Projection /\ GraphSound(mem) /\ Follows(mem, Durable) /\ log # <<>>
BY KernelFacts DEF MemoryInv, GraphSound

LEMMA ClearedStays ==
  ASSUME KernelInv, LogGrows, plan' = plan, NEW u \in Tasks, Cleared(u)
  PROVE  Cleared(u)'
<1>1. \A d : Published(d) => Published(d)'
  BY LoggedStays
<1>2. Approved(u) => Approved(u)'
  BY LoggedStays
<1> QED BY <1>1, <1>2 DEF Cleared, HighImpact

LEMMA CallStays ==
  ASSUME KernelInv, LogGrows, plan' = plan, NEW u \in Tasks, invoked'[u] = invoked[u]
  PROVE  CallSound(u)'
<1>1. CallSound(u)
  BY KernelFacts DEF RunInv
<1>2. /\ \A type : Logged(type, u) => Logged(type, u)'
      /\ Announced(u) => Announced(u)'
  BY LoggedStays
<1>3. Cleared(u) => Cleared(u)'
  BY ClearedStays
<1> QED BY <1>1, <1>2, <1>3 DEF CallSound

LEMMA CoroutineStays ==
  ASSUME KernelInv, LogGrows, plan' = plan, NEW u \in Tasks, invoked'[u] = invoked[u],
         \/ pc'[u] \in Settled
         \/ /\ pc'[u] = pc[u]
            /\ mem'.status[u] = mem.status[u] /\ mem'.rev[u] = mem.rev[u]
            /\ Durable'.rev[u] = Durable.rev[u]
  PROVE  CoroutineSound(u)'
<1>1. CoroutineSound(u)
  BY KernelFacts DEF RunInv
<1>2. /\ \A type : Logged(type, u) => Logged(type, u)'
      /\ Announced(u) => Announced(u)'
  BY LoggedStays
<1>3. Cleared(u) => Cleared(u)'
  BY ClearedStays
<1>4. CASE pc'[u] \in Settled
  BY <1>4 DEF CoroutineSound, Settled, Working
<1>5. CASE /\ pc'[u] = pc[u]
           /\ mem'.status[u] = mem.status[u] /\ mem'.rev[u] = mem.rev[u]
           /\ Durable'.rev[u] = Durable.rev[u]
  BY <1>1, <1>2, <1>3, <1>5 DEF CoroutineSound
<1> QED BY <1>4, <1>5

LEMMA KernelKept ==
  ASSUME KernelInv, plan' = plan, LogGrows, ReplayInv', RevisionsLogged', MemoryInv',
         run' \in {"idle", "top", "batch"}, life' \in {"open", "closing", "closed"},
         pc' \in [Tasks -> Labels], invoked' \in [Tasks -> Nat], RunInv'
  PROVE  KernelInv'
<1>1. log' \in Seq(Events)
  BY DEF LogGrows
<1>2. mem' \in Projection \cup {NotLoaded}
  BY DEF MemoryInv, Loaded, GraphSound
<1>3. plan' \in Plans
  BY KernelFacts DEF TypeOK
<1>4. TypeOK'
  BY <1>1, <1>2, <1>3 DEF TypeOK, Labels
<1> QED BY <1>4 DEF KernelInv

(* A step of the coroutine of t.                                           *)
LEMMA TaskStepKept ==
  ASSUME KernelInv, plan' = plan, run' = run, life' = life,
         NEW t \in Tasks, NEW l \in Labels, pc[t] # "none", Goto(t, l),
         invoked' \in [Tasks -> Nat], \A u \in Tasks \ {t} : invoked'[u] = invoked[u],
         LogGrows, ReplayInv', RevisionsLogged', MemoryInv', Loaded',
         \A u \in Tasks \ {t} :
           /\ mem'.status[u] = mem.status[u] /\ mem'.rev[u] = mem.rev[u]
           /\ Durable'.rev[u] = Durable.rev[u],
         CoroutineSound(t)', CallSound(t)'
  PROVE  KernelInv'
<1>1. /\ pc \in [Tasks -> Labels] /\ run \in {"idle", "top", "batch"}
      /\ life \in {"open", "closing", "closed"}
  BY KernelFacts DEF TypeOK, Labels
<1>2. pc' = [pc EXCEPT ![t] = l]
  BY DEF Goto
<1>3. pc' \in [Tasks -> Labels] /\ \A u \in Tasks \ {t} : pc'[u] = pc[u]
  BY <1>1, <1>2
<1>4. run = "batch"
  BY KernelFacts DEF RunInv
<1>5. \A u \in Tasks \ {t} : CoroutineSound(u)' /\ CallSound(u)'
  BY <1>3, CoroutineStays, CallStays
<1>6. \A u \in Tasks : CoroutineSound(u)' /\ CallSound(u)'
  BY <1>5
<1>7. RunInv'
  BY <1>4, <1>6 DEF RunInv
<1> QED BY <1>1, <1>3, <1>7, KernelKept

(* A step of the coroutine of t that appends nothing.                      *)
LEMMA QuietTaskStep ==
  ASSUME KernelInv, plan' = plan, run' = run, life' = life, log' = log, mem' = mem,
         NEW t \in Tasks, NEW l \in Labels, pc[t] # "none", Goto(t, l),
         invoked' \in [Tasks -> Nat], \A u \in Tasks \ {t} : invoked'[u] = invoked[u],
         CoroutineSound(t)', CallSound(t)'
  PROVE  KernelInv'
<1>1. /\ ReplayInv' /\ RevisionsLogged' /\ MemoryInv' /\ LogGrows /\ Durable' = Durable
  BY NothingLands
<1>2. Loaded'
  BY KernelFacts DEF RunInv, Loaded
<1> QED BY <1>1, <1>2, TaskStepKept

(* A commit of t, whichever way its append ends.                           *)
LEMMA CommitKept ==
  ASSUME KernelInv, plan' = plan, run' = run, life' = life, invoked' = invoked,
         NEW t \in Tasks, pc[t] # "none", NEW events, NEW outcome, NEW g,
         NEW next \in Labels, Commit(t, events, outcome, g, next),
         outcome # "failed" =>
           /\ Moves({t}) /\ g \in Projection /\ Same(g, Durable', t)
           /\ \A u \in Tasks \ {t} : Same(g, mem, u),
         outcome = "appended" => next \in Settled \/ CoroutineSound(t)'
  PROVE  KernelInv'
<1>1. Loaded /\ pc \in [Tasks -> Labels] /\ invoked \in [Tasks -> Nat]
  BY KernelFacts DEF RunInv, TypeOK, Labels
<1>2. mem \in Projection
  BY <1>1, LoadedFacts
<1>3. ASSUME NEW l, Goto(t, l), l \in Settled PROVE pc'[t] \in Settled
  BY <1>1, <1>3 DEF Goto
<1>4. CASE outcome = "failed"
  <2>1. log' = log /\ mem' = mem /\ Goto(t, "raised")
    BY <1>4 DEF Commit, AppendMany
  <2>2. LogGrows
    BY <2>1, KernelFacts DEF LogGrows
  <2>3. "raised" \in Settled /\ "raised" \in Labels
    BY DEF Settled, Labels
  <2>4. pc'[t] \in Settled
    BY <1>3, <2>1, <2>3
  <2>5. CoroutineSound(t)' /\ CallSound(t)'
    BY <2>2, <2>4, CoroutineStays, CallStays
  <2> QED BY <1>1, <2>1, <2>3, <2>5, QuietTaskStep
<1>5. CASE outcome # "failed"
  <2>1. Moves({t}) /\ LogGrows
    BY <1>5 DEF Moves
  <2>2. \A u \in Tasks \ {t} : Durable'.rev[u] = Durable.rev[u]
    BY <2>1 DEF Moves, Same
  <2>3. CallSound(t)'
    BY <2>1, CallStays
  <2>4. CASE outcome = "appended"
    <3>1. mem' = g /\ Goto(t, next)
      BY <2>4 DEF Commit
    <3>2. MemoryMoves({t})
      BY <1>1, <1>5, <3>1 DEF MemoryMoves
    <3>3. ReplayInv' /\ RevisionsLogged' /\ MemoryInv'
      BY <2>1, <3>2, GraphsStaySound
    <3>4. Loaded'
      BY <1>5, <3>1, NotLoadedIsNoGraph DEF Loaded
    <3>5. \A u \in Tasks \ {t} : mem'.status[u] = mem.status[u] /\ mem'.rev[u] = mem.rev[u]
      BY <1>5, <3>1 DEF Same
    <3>6. CoroutineSound(t)'
      <4>1. CASE next \in Settled
        <5>1. pc'[t] \in Settled
          BY <1>3, <3>1, <4>1
        <5> QED BY <2>1, <5>1, CoroutineStays
      <4> QED BY <2>4, <4>1
    <3> QED BY <1>1, <2>1, <2>2, <2>3, <3>1, <3>3, <3>4, <3>5, <3>6, TaskStepKept
  <2>5. CASE outcome # "appended"
    <3>1. mem' = mem /\ Goto(t, "raised")
      BY <2>5 DEF Commit
    <3>2. MemoryMoves({t})
      BY <3>1 DEF MemoryMoves
    <3>3. ReplayInv' /\ RevisionsLogged' /\ MemoryInv'
      BY <2>1, <3>2, GraphsStaySound
    <3>4. Loaded'
      BY <1>1, <3>1 DEF Loaded
    <3>5. "raised" \in Settled /\ "raised" \in Labels
      BY DEF Settled, Labels
    <3>6. pc'[t] \in Settled
      BY <1>3, <3>1, <3>5
    <3>7. CoroutineSound(t)'
      BY <2>1, <3>6, CoroutineStays
    <3> QED BY <1>1, <2>1, <2>2, <2>3, <3>1, <3>3, <3>4, <3>5, <3>7, TaskStepKept
  <2> QED BY <2>4, <2>5
<1> QED BY <1>4, <1>5

(* What lands was free: its first key is that of no event of the log.      *)
LEMMA FirstIsFree ==
  ASSUME NEW a, NEW b, NEW e, NEW outcome, outcome # "failed"
  PROVE  /\ AppendMany(<<a>>, outcome) => ~HasKey(a) /\ log' = log \o <<a>>
         /\ AppendMany(<<a, b>>, outcome) =>
              ~HasKey(a) /\ ~HasKey(b) /\ log' = log \o <<a, b>>
         /\ AppendMany(<<a, b, e>>, outcome) => ~HasKey(a) /\ log' = log \o <<a, b, e>>
<1>1. AppendMany(<<a>>, outcome) => ~HasKey(a) /\ log' = log \o <<a>>
  <2>1. PICK s : s = <<a>>
    OBVIOUS
  <2>2. Len(s) = 1 /\ s[1] = a
    BY <2>1
  <2>3. AppendMany(s, outcome) => ~HasKey(s[1]) /\ log' = log \o s
    BY <2>2 DEF AppendMany
  <2> QED BY <2>1, <2>2, <2>3
<1>2. AppendMany(<<a, b>>, outcome) =>
        ~HasKey(a) /\ ~HasKey(b) /\ log' = log \o <<a, b>>
  <2>1. PICK s : s = <<a, b>>
    OBVIOUS
  <2>2. Len(s) = 2 /\ s[1] = a /\ s[2] = b
    BY <2>1
  <2>3. AppendMany(s, outcome) => ~HasKey(s[1]) /\ ~HasKey(s[2]) /\ log' = log \o s
    BY <2>2 DEF AppendMany
  <2> QED BY <2>1, <2>2, <2>3
<1>3. AppendMany(<<a, b, e>>, outcome) => ~HasKey(a) /\ log' = log \o <<a, b, e>>
  <2>1. PICK s : s = <<a, b, e>>
    OBVIOUS
  <2>2. Len(s) = 3 /\ s[1] = a
    BY <2>1
  <2>3. AppendMany(s, outcome) => ~HasKey(s[1]) /\ log' = log \o s
    BY <2>2 DEF AppendMany
  <2> QED BY <2>1, <2>2, <2>3
<1> QED BY <1>1, <1>2, <1>3

(* A task is taken up, completed or failed.                                *)
LEMMA StatusMoves ==
  ASSUME KernelInv, plan' = plan, log # <<>>, NEW t \in Tasks, NEW g, g = Durable,
         NEW from \in {"ready", "running"}, NEW to \in {"running", "failed", "completed"},
         to \in Allowed[from], g.status[t] = from, to = "completed" => Published(t),
         NEW e, e = StatusEvent(t, from, to, g.rev[t] + 1), log' = log \o <<e>>
  PROVE  Moves({t}) /\ Durable' = Moved(g, t, to)
<1>1. g \in Projection /\ g.rev[t] \in Nat /\ log \in Seq(Events) /\ TaskSound(g, t)
  BY KernelFacts, GraphFacts DEF GraphSound
<1>2. from \in Statuses /\ to \in Statuses
  BY DEF Statuses, Done, Failed
<1>3. e \in Events
  <2>1. PICK r \in Nat : r = g.rev[t] + 1
    BY <1>1
  <2> QED BY <1>2, <2>1, StatusEventIs
<1>4. LogGrows
  <2>1. PICK b \in Seq(Events) : b = <<e>>
    BY <1>3, SingleBatch
  <2>2. log' = log \o b
    BY <2>1
  <2> QED BY <1>1, <2>2, LogGrowsBy, Zenon
<1>5. PICK h \in Projection : /\ h = Moved(g, t, to) /\ h.status[t] = to
                              /\ h.request = g.request
  BY <1>1, <1>2, MovedIs
<1>6. TaskSound(h, t)'
  <2>1. g.request[t] \in {None, "approve"} /\ None # "pending"
    BY <1>1, <1>2, NoneAssumption DEF TaskSound, RequestFits, Statuses
  <2>2. RequestFits(h.status[t], h.request[t])
    BY <1>2, <1>5, <2>1 DEF RequestFits
  <2>3. h.request[t] = "approve" => Approved(t)'
    BY <1>1, <1>4, <1>5, LoggedStays DEF TaskSound
  <2>4. h.status[t] \in Done => Published(t)'
    BY <1>2, <1>4, <1>5, LoggedStays DEF Done
  <2>5. g.status[t] \notin {"pending", "blocked"}
    OBVIOUS
  <2> QED BY <1>1, <1>4, <2>2, <2>3, <2>4, <2>5, SoundAfter
<1>7. g.status[t] # "waiting_approval" /\ to # "waiting_approval" /\ to \in Allowed[g.status[t]]
  OBVIOUS
<1>8. log' = log \o <<StatusEvent(t, g.status[t], to, g.rev[t] + 1)>>
  OBVIOUS
<1> QED BY <1>5, <1>6, <1>7, <1>8, OneMove

LEMMA DecisionCases ==
  ASSUME NEW t
  PROVE  Decision(t) \in {"deny", "needs_approval", "allow"}
BY DEF Decision, Evaluate

LEMMA AllowIsCleared ==
  ASSUME KernelInv, Loaded, NEW t \in Tasks, mem.status[t] = "ready", Decision(t) = "allow"
  PROVE  Cleared(t)
<1>1. PICK i \in TaskSpec : i = plan[t]
  BY KernelFacts
<1>2. i.risk \in 0 .. 4
  BY DEF TaskSpec, Risks
<1>3. TaskSound(mem, t)
  BY LoadedFacts DEF GraphSound
<1>4. ~i.forbidden
  BY <1>1 DEF Decision, Evaluate
<1>5. Evaluate(i) = "allow" => ~HighImpact(i)
  BY <1>2 DEF Evaluate, HighImpact, Permits
<1>6. Evaluate(i) = "allow" \/ mem.request[t] = "approve"
  BY <1>1 DEF Decision
<1>7. HighImpact(i) => Approved(t)
  BY <1>3, <1>5, <1>6 DEF TaskSound
<1>8. \A d \in plan[t].deps : Published(d)
  BY <1>3 DEF TaskSound
<1> QED BY <1>1, <1>4, <1>7, <1>8 DEF Cleared

LEMMA DispatchKept ==
  ASSUME KernelInv, NEW t \in Tasks, NEW outcome, Dispatch(t, outcome)
  PROVE  KernelInv'
<1>1. /\ pc[t] = "hook" /\ pc[t] # "none" /\ plan' = plan /\ run' = run /\ life' = life
      /\ invoked' = invoked
  BY DEF Dispatch
<1>2. Loaded /\ mem.status[t] = "ready"
  BY <1>1, KernelFacts DEF RunInv, CoroutineSound
<1>3. PICK m \in Projection : /\ m = mem /\ m.rev[t] \in Nat /\ TaskSound(m, t)
                              /\ m.status[t] = "ready" /\ log # <<>>
  BY <1>2, LoadedFacts, GraphFacts DEF GraphSound
<1>4. PICK g \in Projection : g = Durable
  BY KernelFacts
<1>5. /\ "ready" \in Statuses /\ "running" \in Statuses /\ "failed" \in Statuses
      /\ "waiting_approval" \in Statuses
  BY DEF Statuses, Failed
<1>6. PICK r \in Nat : r = m.rev[t]
  BY <1>3
<1>7. PICK a : a = StatusEvent(t, "ready", "running", r + 1)
               /\ Key(a) = <<"status", t, mem.rev[t] + 1>>
  <2>1. r + 1 \in Nat /\ mem.rev[t] + 1 = r + 1
    BY <1>3, <1>6
  <2>2. Key(StatusEvent(t, "ready", "running", r + 1)) = <<"status", t, r + 1>>
    BY <1>5, <2>1, StatusEventIs
  <2> QED BY <2>1, <2>2
<1>8. ~HasKey(a) => Same(m, g, t)
  BY <1>2, <1>3, <1>4, <1>7, FreshIsCurrent
<1>9. CASE Decision(t) = "deny"
  <2>1. PICK b : b = StatusEvent(t, "running", "failed", r + 2)
    OBVIOUS
  <2>2. PICK x \in Projection :
          /\ x = Moved(Moved(m, t, "running"), t, "failed")
          /\ x.status[t] = "failed" /\ x.rev[t] = r + 2 /\ x.request = m.request
          /\ \A u \in Tasks \ {t} : Same(x, m, u)
    BY <1>5, <1>6, TwoMovesAre
  <2>3. Deny(t, outcome)
    BY <1>9 DEF Dispatch
  <2>4. Commit(t, <<a, b>>, outcome, x, "ended")
    BY <1>3, <1>6, <1>7, <2>1, <2>2, <2>3 DEF Deny
  <2>5. ASSUME outcome # "failed" PROVE Moves({t}) /\ Same(x, Durable', t)
    <3>1. ~HasKey(a) /\ log' = log \o <<a, b>>
      BY <2>4, <2>5, FirstIsFree DEF Commit
    <3>2. Same(m, g, t)
      BY <1>8, <3>1
    <3>3. g.rev[t] = r /\ g.status[t] = "ready" /\ g.request[t] = m.request[t]
      BY <1>3, <1>6, <3>2 DEF Same
    <3>4. Moves({t}) /\ Durable' = Moved(Moved(g, t, "running"), t, "failed")
      <4>1. log' = log \o <<StatusEvent(t, "ready", "running", g.rev[t] + 1),
                            StatusEvent(t, "running", "failed", g.rev[t] + 2)>>
        BY <1>7, <2>1, <3>1, <3>3
      <4>2. plan' = plan /\ log # <<>> /\ g.status[t] = "ready"
        BY <1>1, <1>3, <3>3
      <4> QED BY <1>4, <4>1, <4>2, DenyMoves
    <3>5. PICK h \in Projection :
            /\ h = Durable' /\ h.status[t] = "failed" /\ h.rev[t] = r + 2
            /\ h.request = g.request
      <4>1. PICK h \in Projection :
              /\ h = Durable' /\ h.status[t] = "failed" /\ h.rev[t] = g.rev[t] + 2
              /\ h.request = g.request
        <5>1. PICK h \in Projection :
                /\ h = Moved(Moved(g, t, "running"), t, "failed") /\ h.status[t] = "failed"
                /\ h.rev[t] = g.rev[t] + 2 /\ h.request = g.request
          BY <1>5, TwoMovesAre
        <5> QED BY <3>4, <5>1
      <4> QED BY <3>3, <4>1
    <3> QED BY <2>2, <3>3, <3>4, <3>5 DEF Same
  <2>6. "ended" \in Settled /\ "ended" \in Labels
    BY DEF Settled, Labels
  <2> QED BY <1>1, <1>3, <2>2, <2>4, <2>5, <2>6, CommitKept
<1>10. CASE Decision(t) = "needs_approval"
  <2>1. m.request[t] = None
    <3>1. m.request[t] # "approve"
      BY <1>3, <1>10 DEF Decision
    <3> QED BY <1>3, <3>1 DEF TaskSound, RequestFits
  <2>2. PICK b, e : b = StatusEvent(t, "running", "waiting_approval", r + 2)
                    /\ e = Event("requested", t)
    OBVIOUS
  <2>3. PICK y \in Projection :
          /\ y = Moved(Moved(m, t, "running"), t, "waiting_approval")
          /\ y.status[t] = "waiting_approval" /\ y.rev[t] = r + 2 /\ y.request = m.request
          /\ \A u \in Tasks \ {t} : Same(y, m, u)
    BY <1>5, <1>6, TwoMovesAre
  <2>4. PICK x \in Projection :
          /\ x = WithRequest(y, t, "pending") /\ x.status = y.status /\ x.rev = y.rev
          /\ x.request[t] = "pending" /\ \A u \in Tasks \ {t} : Same(x, y, u)
    BY WithRequestIs
  <2>5. None # "pending"
    BY NoneAssumption DEF Statuses
  <2>6. Commit(t, <<a, b, e>>, outcome, x, "ended")
    <3>1. RequestApproval(t, outcome)
      BY <1>10 DEF Dispatch
    <3> QED BY <1>3, <1>6, <1>7, <2>1, <2>2, <2>3, <2>4, <2>5, <3>1
            DEF RequestApproval, WithRequest
  <2>7. ASSUME outcome # "failed" PROVE Moves({t}) /\ Same(x, Durable', t)
    <3>1. ~HasKey(a) /\ log' = log \o <<a, b, e>>
      BY <2>6, <2>7, FirstIsFree DEF Commit
    <3>2. Same(m, g, t)
      BY <1>8, <3>1
    <3>3. g.rev[t] = r /\ g.status[t] = "ready" /\ g.request[t] = None
      BY <1>3, <1>6, <2>1, <3>2 DEF Same
    <3>4. PICK z \in Projection :
            /\ z = Moved(Moved(g, t, "running"), t, "waiting_approval")
            /\ z.status[t] = "waiting_approval" /\ z.rev[t] = r + 2
      <4>1. PICK z \in Projection :
              /\ z = Moved(Moved(g, t, "running"), t, "waiting_approval")
              /\ z.status[t] = "waiting_approval" /\ z.rev[t] = g.rev[t] + 2
        BY <1>5, TwoMovesAre
      <4> QED BY <3>3, <4>1
    <3>5. Moves({t}) /\ Durable' = WithRequest(z, t, "pending")
      <4>1. log' = log \o <<StatusEvent(t, "ready", "running", g.rev[t] + 1),
                            StatusEvent(t, "running", "waiting_approval", g.rev[t] + 2),
                            Event("requested", t)>>
        BY <1>7, <2>2, <3>1, <3>3
      <4>2. plan' = plan /\ log # <<>> /\ g.status[t] = "ready" /\ g.request[t] = None
        BY <1>1, <1>3, <3>3
      <4> QED BY <1>4, <3>4, <4>1, <4>2, RequestMoves
    <3>6. PICK h \in Projection :
            /\ h = Durable' /\ h.status = z.status /\ h.rev = z.rev
            /\ h.request[t] = "pending"
      BY <3>5, WithRequestIs
    <3> QED BY <2>3, <2>4, <3>4, <3>5, <3>6 DEF Same
  <2>8. "ended" \in Settled /\ "ended" \in Labels
    BY DEF Settled, Labels
  <2>9. \A u \in Tasks \ {t} : Same(x, m, u)
    BY <2>3, <2>4 DEF Same
  <2> QED BY <1>1, <1>3, <2>6, <2>7, <2>8, <2>9, CommitKept
<1>11. CASE Decision(t) = "allow"
  <2>1. PICK x \in Projection :
          /\ x = Moved(m, t, "running") /\ x.status[t] = "running" /\ x.rev[t] = r + 1
          /\ x.request = m.request /\ \A u \in Tasks \ {t} : Same(x, m, u)
    BY <1>5, <1>6, MovedIs
  <2>2. Commit(t, <<a>>, outcome, x, "compiling")
    BY <1>3, <1>6, <1>7, <1>11, <2>1 DEF Dispatch, Begin
  <2>3. ASSUME outcome # "failed" PROVE Moves({t}) /\ Same(x, Durable', t)
    <3>1. ~HasKey(a) /\ log' = log \o <<a>>
      BY <2>2, <2>3, FirstIsFree DEF Commit
    <3>2. Same(m, g, t)
      BY <1>8, <3>1
    <3>3. g.rev[t] = r /\ g.status[t] = "ready" /\ g.request[t] = m.request[t]
      BY <1>3, <1>6, <3>2 DEF Same
    <3>4. Moves({t}) /\ Durable' = Moved(g, t, "running")
      <4>1. a = StatusEvent(t, "ready", "running", g.rev[t] + 1)
        BY <1>7, <3>3
      <4>2. plan' = plan /\ log # <<>> /\ g.status[t] = "ready"
        BY <1>1, <1>3, <3>3
      <4>3. "running" \in Allowed["ready"]
        BY <1>5 DEF Allowed
      <4> QED BY <1>4, <3>1, <4>1, <4>2, <4>3, StatusMoves
    <3>5. PICK h \in Projection :
            /\ h = Durable' /\ h.status[t] = "running" /\ h.rev[t] = r + 1
            /\ h.request = g.request
      <4>1. PICK h \in Projection :
              /\ h = Moved(g, t, "running") /\ h.status[t] = "running"
              /\ h.rev[t] = g.rev[t] + 1 /\ h.request = g.request
        BY <1>5, MovedIs
      <4> QED BY <3>3, <3>4, <4>1
    <3> QED BY <2>1, <3>3, <3>4, <3>5 DEF Same
  <2>4. ASSUME outcome = "appended" PROVE CoroutineSound(t)'
    <3>1. Moves({t}) /\ Same(x, Durable', t) /\ mem' = x /\ LogGrows
      BY <2>2, <2>3, <2>4 DEF Commit, Moves
    <3>2. pc'[t] = "compiling"
      BY <2>2, <2>4, KernelFacts DEF Commit, Goto, TypeOK
    <3>3. Cleared(t)
      BY <1>2, <1>11, AllowIsCleared
    <3>4. Cleared(t)'
      BY <1>1, <3>1, <3>3, ClearedStays
    <3>5. mem'.status[t] = "running" /\ mem'.rev[t] = Durable'.rev[t]
      BY <2>1, <3>1 DEF Same
    <3> QED BY <3>2, <3>4, <3>5 DEF CoroutineSound
  <2>5. "compiling" \in Labels
    BY DEF Labels
  <2> QED BY <1>1, <1>3, <2>1, <2>2, <2>3, <2>4, <2>5, CommitKept
<1> QED BY <1>9, <1>10, <1>11, DecisionCases

(* The steps of a coroutine that append nothing.                           *)
LEMMA HookRaisesKept ==
  ASSUME KernelInv, NEW t \in Tasks, HookRaises(t)
  PROVE  KernelInv'
<1>1. /\ plan' = plan /\ run' = run /\ life' = life /\ log' = log /\ mem' = mem
      /\ invoked' = invoked /\ pc[t] # "none" /\ Goto(t, "raised")
  BY DEF HookRaises
<1>2. /\ pc \in [Tasks -> Labels] /\ invoked' \in [Tasks -> Nat]
  BY <1>1, KernelFacts DEF TypeOK, Labels
<1>3. "raised" \in Labels /\ pc'[t] \in Settled
  BY <1>1, <1>2 DEF Goto, Settled, Labels
<1>4. LogGrows
  BY <1>1, KernelFacts DEF LogGrows
<1>5. CoroutineSound(t)' /\ CallSound(t)'
  BY <1>1, <1>3, <1>4, CoroutineStays, CallStays
<1> QED BY <1>1, <1>2, <1>3, <1>5, QuietTaskStep

LEMMA AdmitKept ==
  ASSUME KernelInv, NEW t \in Tasks, Admit(t)
  PROVE  KernelInv'
<1>1. /\ plan' = plan /\ run' = run /\ life' = life /\ log' = log /\ mem' = mem
      /\ invoked' = invoked /\ pc[t] = "queued" /\ Goto(t, "hook")
  BY DEF Admit
<1>2. /\ pc \in [Tasks -> Labels] /\ invoked' \in [Tasks -> Nat]
  BY <1>1, KernelFacts DEF TypeOK, Labels
<1>3. "hook" \in Labels /\ pc'[t] = "hook"
  BY <1>1, <1>2 DEF Goto, Labels
<1>4. LogGrows
  BY <1>1, KernelFacts DEF LogGrows
<1>5. CoroutineSound(t)
  BY KernelFacts DEF RunInv
<1>6. CoroutineSound(t)'
  BY <1>1, <1>3, <1>5 DEF CoroutineSound, Working
<1>7. CallSound(t)'
  BY <1>1, <1>4, CallStays
<1> QED BY <1>1, <1>2, <1>3, <1>6, <1>7, QuietTaskStep

(* What a working coroutine keeps when only its label and the log change.  *)
LEMMA WorkingStays ==
  ASSUME KernelInv, LogGrows, plan' = plan, mem' = mem, Durable' = Durable,
         NEW t \in Tasks, pc[t] \in Working
  PROVE  /\ mem'.status[t] = "running" /\ mem'.rev[t] = Durable'.rev[t] /\ Cleared(t)'
         /\ \A type : Logged(type, t) => Logged(type, t)'
<1>1. CoroutineSound(t)
  BY KernelFacts DEF RunInv
<1>2. Cleared(t)'
  BY <1>1, ClearedStays DEF CoroutineSound
<1>3. \A type : Logged(type, t) => Logged(type, t)'
  BY LoggedStays
<1> QED BY <1>1, <1>2, <1>3 DEF CoroutineSound

LEMMA InvokeKept ==
  ASSUME KernelInv, NEW t \in Tasks, Invoke(t)
  PROVE  KernelInv'
<1>1. /\ plan' = plan /\ run' = run /\ life' = life /\ log' = log /\ mem' = mem
      /\ invoked' = [invoked EXCEPT ![t] = @ + 1] /\ pc[t] = "started"
      /\ Goto(t, "invoking")
  BY DEF Invoke
<1>2. pc \in [Tasks -> Labels] /\ invoked \in [Tasks -> Nat]
  BY KernelFacts DEF TypeOK, Labels
<1>3. /\ invoked' \in [Tasks -> Nat] /\ \A u \in Tasks \ {t} : invoked'[u] = invoked[u]
      /\ invoked'[t] = invoked[t] + 1
  BY <1>1, <1>2
<1>4. "invoking" \in Labels /\ pc'[t] = "invoking"
  BY <1>1, <1>2 DEF Goto, Labels
<1>5. LogGrows /\ Durable' = Durable
  BY <1>1, KernelFacts DEF LogGrows, Durable
<1>6. /\ mem'.status[t] = "running" /\ mem'.rev[t] = Durable'.rev[t] /\ Cleared(t)'
      /\ \A type : Logged(type, t) => Logged(type, t)'
  BY <1>1, <1>5, WorkingStays DEF Working
<1>7. CoroutineSound(t)'
  BY <1>4, <1>6 DEF CoroutineSound
<1>8. /\ invoked[t] = 0 /\ Announced(t) /\ Logged("context", t)
  BY <1>1, KernelFacts DEF RunInv, CoroutineSound
<1>9. Announced(t)' /\ invoked'[t] = 1
  BY <1>3, <1>5, <1>8, LoggedStays
<1>10. CallSound(t)'
  BY <1>6, <1>8, <1>9 DEF CallSound
<1> QED BY <1>1, <1>3, <1>4, <1>7, <1>10, QuietTaskStep

(* The call is refused, or it ends.                                        *)
LEMMA CallEndsKept ==
  ASSUME KernelInv, NEW t \in Tasks, NEW l \in {"recording", "failing"},
         pc[t] \in Working, Goto(t, l), UNCHANGED <<plan, log, mem, run, life, invoked>>
  PROVE  KernelInv'
<1>1. pc \in [Tasks -> Labels] /\ invoked' \in [Tasks -> Nat]
  BY KernelFacts DEF TypeOK, Labels
<1>2. l \in Labels /\ pc'[t] = l /\ pc[t] # "none"
  BY <1>1 DEF Goto, Labels, Working
<1>3. LogGrows /\ Durable' = Durable
  BY KernelFacts DEF LogGrows, Durable
<1>4. mem'.status[t] = "running" /\ mem'.rev[t] = Durable'.rev[t] /\ Cleared(t)'
  BY <1>3, WorkingStays
<1>5. CoroutineSound(t)'
  BY <1>2, <1>4 DEF CoroutineSound
<1>6. CallSound(t)'
  BY <1>3, CallStays
<1> QED BY <1>1, <1>2, <1>5, <1>6, QuietTaskStep

(* A coroutine records an event that recovery reads past.                  *)
LEMMA RecordKept ==
  ASSUME KernelInv, NEW t \in Tasks, NEW at \in Working, NEW type \in Notes,
         NEW outcome, NEW next \in Working, NEW otherwise \in {"failing", "raised"},
         Record(t, at, type, outcome, next, otherwise),
         \/ at = "compiling" /\ type = "context" /\ next = "announcing"
         \/ at = "announcing" /\ type = "started" /\ next = "started"
         \/ at = "recording" /\ type = "artifact" /\ next = "publishing"
         \/ at = "publishing" /\ type = "result" /\ next = "completing"
  PROVE  KernelInv'
<1>1. /\ plan' = plan /\ run' = run /\ life' = life /\ mem' = mem /\ invoked' = invoked
      /\ pc[t] = at /\ pc[t] \in Working /\ pc[t] # "none"
      /\ Goto(t, IF outcome = "appended" THEN next ELSE otherwise)
      /\ AppendMany(<<Event(type, t)>>, outcome)
  BY DEF Record, Working
<1>2. /\ pc \in [Tasks -> Labels] /\ invoked \in [Tasks -> Nat] /\ invoked' \in [Tasks -> Nat]
  BY <1>1, KernelFacts DEF TypeOK, Labels
<1>3. next \in Labels /\ otherwise \in Labels
  BY DEF Working, Labels
<1>4. Loaded /\ CoroutineSound(t) /\ CallSound(t)
  BY <1>1, KernelFacts DEF RunInv
<1>5. log # <<>>
  BY <1>4, LoadedFacts
<1>6. PICK e \in Events : /\ e = Event(type, t) /\ e.type = type /\ e.task = t
                          /\ Key(e) = <<type, t, 0>>
  <2>1. type \in EventTypes
    BY DEF Notes, EventTypes
  <2> QED BY <2>1, EventIs
<1>7. CASE outcome = "failed"
  <2>1. log' = log /\ Goto(t, otherwise)
    BY <1>1, <1>7 DEF AppendMany
  <2>2. LogGrows /\ Durable' = Durable
    BY <2>1, KernelFacts DEF LogGrows, Durable
  <2>3. pc'[t] = otherwise
    BY <1>2, <2>1 DEF Goto
  <2>4. mem'.status[t] = "running" /\ mem'.rev[t] = Durable'.rev[t] /\ Cleared(t)'
    BY <1>1, <2>2, WorkingStays
  <2>5. CoroutineSound(t)'
    BY <2>3, <2>4 DEF CoroutineSound, Working
  <2>6. CallSound(t)'
    BY <1>1, <2>2, CallStays
  <2> QED BY <1>1, <1>2, <1>3, <2>1, <2>5, <2>6, QuietTaskStep
<1>8. CASE outcome # "failed"
  <2>1. ~HasKey(e) /\ log' = log \o <<e>>
    BY <1>1, <1>6, <1>8, FirstIsFree
  <2>2. Moves({}) /\ Durable' = Durable /\ \E i \in 1 .. Len(log') : log'[i] = e
    BY <1>5, <1>6, <2>1, NoteLands
  <2>3. LogGrows /\ MemoryMoves({})
    BY <1>1, <2>2 DEF Moves, MemoryMoves
  <2>4. ReplayInv' /\ RevisionsLogged' /\ MemoryInv'
    BY <1>1, <2>2, <2>3, GraphsStaySound
  <2>5. Loaded'
    BY <1>1, <1>4 DEF Loaded
  <2>6. /\ mem'.status[t] = "running" /\ mem'.rev[t] = Durable'.rev[t] /\ Cleared(t)'
        /\ \A x : Logged(x, t) => Logged(x, t)'
    BY <1>1, <2>2, <2>3, WorkingStays
  <2>7. Logged(type, t)'
    BY <1>6, <2>2 DEF Logged
  <2>8. CallSound(t)'
    BY <1>1, <2>3, CallStays
  <2>9. CoroutineSound(t)'
    <3>1. CASE outcome # "appended"
      <4>1. pc'[t] = otherwise
        BY <1>1, <1>2, <3>1 DEF Goto
      <4> QED BY <2>6, <4>1 DEF CoroutineSound, Working
    <3>2. CASE outcome = "appended"
      <4>1. pc'[t] = next
        BY <1>1, <1>2, <3>2 DEF Goto
      <4>2. CASE at = "announcing"
        <5>1. type = "started" /\ next = "started"
          BY <4>2
        <5>2. Announced(t)'
          BY <1>6, <2>2, <5>1 DEF Announced
        <5>3. ~Announced(t)
          BY <1>6, <2>1, <5>1 DEF Announced, HasKey
        <5>4. invoked[t] = 0
          BY <1>2, <1>4, <5>3 DEF CallSound
        <5>5. Logged("context", t)'
          BY <1>1, <1>4, <2>6, <4>2 DEF CoroutineSound
        <5> QED BY <1>1, <2>6, <4>1, <5>1, <5>2, <5>4, <5>5 DEF CoroutineSound
      <4>3. CASE at = "publishing"
        <5>1. type = "result" /\ next = "completing"
          BY <4>3
        <5>2. Logged("artifact", t)'
          BY <1>1, <1>4, <2>6, <4>3 DEF CoroutineSound
        <5> QED BY <2>6, <2>7, <4>1, <5>1, <5>2 DEF CoroutineSound
      <4>4. CASE at \notin {"announcing", "publishing"}
        BY <2>6, <2>7, <4>1, <4>4 DEF CoroutineSound
      <4> QED BY <4>2, <4>3, <4>4
    <3> QED BY <3>1, <3>2
  <2>10. \E l \in Labels : Goto(t, l)
    BY <1>1, <1>3
  <2> QED BY <1>1, <1>2, <2>2, <2>3, <2>4, <2>5, <2>8, <2>9, <2>10, TaskStepKept
<1> QED BY <1>7, <1>8

(* The last move of a task.                                                *)
LEMMA FinishKept ==
  ASSUME KernelInv, NEW t \in Tasks, NEW status, NEW outcome, NEW hooks \in {"ended", "raised"},
         \/ pc[t] = "failing" /\ status = "failed"
         \/ pc[t] = "completing" /\ status = "completed",
         Finish(t, status, outcome, hooks)
  PROVE  KernelInv'
<1>1. /\ plan' = plan /\ run' = run /\ life' = life /\ invoked' = invoked
      /\ pc[t] # "none" /\ pc[t] \in Working
      /\ status \in {"failed", "completed"} /\ status \in {"running", "failed", "completed"}
  BY DEF Finish, Working
<1>2. Loaded /\ mem.status[t] = "running" /\ (status = "completed" => Published(t))
  BY <1>1, KernelFacts DEF RunInv, CoroutineSound, Published
<1>3. PICK m \in Projection : m = mem /\ m.rev[t] \in Nat /\ log # <<>>
  BY <1>2, LoadedFacts, GraphFacts
<1>4. PICK g \in Projection : g = Durable
  BY KernelFacts
<1>5. "running" \in Statuses /\ status \in Statuses /\ status \in Allowed["running"]
  BY <1>1 DEF Statuses, Done, Failed, Allowed
<1>6. PICK r \in Nat : r = m.rev[t]
  BY <1>3
<1>7. PICK a : a = StatusEvent(t, "running", status, r + 1)
               /\ Key(a) = <<"status", t, mem.rev[t] + 1>>
  <2>1. r + 1 \in Nat /\ mem.rev[t] + 1 = r + 1
    BY <1>3, <1>6
  <2>2. Key(StatusEvent(t, "running", status, r + 1)) = <<"status", t, r + 1>>
    BY <1>5, <2>1, StatusEventIs
  <2> QED BY <2>1, <2>2
<1>8. PICK x \in Projection :
        /\ x = Moved(m, t, status) /\ x.status[t] = status /\ x.rev[t] = r + 1
        /\ x.request = m.request /\ \A u \in Tasks \ {t} : Same(x, m, u)
  BY <1>5, <1>6, MovedIs
<1>9. Commit(t, <<a>>, outcome, x, hooks)
  BY <1>3, <1>6, <1>7, <1>8 DEF Finish
<1>10. ASSUME outcome # "failed" PROVE Moves({t}) /\ Same(x, Durable', t)
  <2>1. ~HasKey(a) /\ log' = log \o <<a>>
    BY <1>9, <1>10, FirstIsFree DEF Commit
  <2>2. Same(m, g, t)
    BY <1>2, <1>3, <1>4, <1>7, <2>1, FreshIsCurrent
  <2>3. g.rev[t] = r /\ g.status[t] = "running" /\ g.request[t] = m.request[t]
    BY <1>2, <1>3, <1>6, <2>2 DEF Same
  <2>4. Moves({t}) /\ Durable' = Moved(g, t, status)
    <3>1. a = StatusEvent(t, "running", status, g.rev[t] + 1)
      BY <1>7, <2>3
    <3> QED BY <1>1, <1>2, <1>3, <1>4, <1>5, <2>1, <2>3, <3>1, StatusMoves
  <2>5. PICK h \in Projection :
          /\ h = Durable' /\ h.status[t] = status /\ h.rev[t] = r + 1
          /\ h.request = g.request
    <3>1. PICK h \in Projection :
            /\ h = Moved(g, t, status) /\ h.status[t] = status
            /\ h.rev[t] = g.rev[t] + 1 /\ h.request = g.request
      BY <1>5, MovedIs
    <3> QED BY <2>3, <2>4, <3>1
  <2> QED BY <1>8, <2>3, <2>4, <2>5 DEF Same
<1>11. hooks \in Settled /\ hooks \in Labels
  BY DEF Settled, Labels
<1> QED BY <1>1, <1>3, <1>8, <1>9, <1>10, <1>11, CommitKept

-----------------------------------------------------------------------------
(* The steps of run, of its callers and of the process, which leave no     *)
(* coroutine at work.                                                      *)

LEMMA BetweenBatches ==
  ASSUME KernelInv, plan' = plan, invoked' = invoked, LogGrows,
         ReplayInv', RevisionsLogged', MemoryInv',
         run' \in {"idle", "top", "batch"}, life' \in {"open", "closing", "closed"},
         run' # "idle" => Loaded', pc' \in [Tasks -> Labels],
         \A t \in Tasks : \/ pc'[t] = "none"
                          \/ pc'[t] = "queued" /\ run' = "batch" /\ mem'.status[t] = "ready"
  PROVE  KernelInv'
<1>1. invoked' \in [Tasks -> Nat]
  BY KernelFacts DEF TypeOK
<1>2. \A t \in Tasks : CallSound(t)'
  BY CallStays
<1>3. \A t \in Tasks : CoroutineSound(t)'
  BY DEF CoroutineSound, Working
<1>4. RunInv'
  BY <1>2, <1>3 DEF RunInv
<1> QED BY <1>1, <1>4, KernelKept

(* A step that appends nothing and ends or finds every coroutine ended.    *)
LEMMA ControlKept ==
  ASSUME KernelInv, plan' = plan, log' = log, invoked' = invoked,
         mem' = mem \/ mem' = NotLoaded \/ (log # <<>> /\ mem' = Durable),
         pc' \in [Tasks -> Labels], \A t \in Tasks : pc'[t] = "none",
         run' \in {"idle", "top"}, life' \in {"open", "closing", "closed"},
         run' # "idle" => Loaded'
  PROVE  KernelInv'
<1>1. ReplayInv' /\ RevisionsLogged' /\ MemoryInv' /\ LogGrows
  BY NothingLands
<1> QED BY <1>1, BetweenBatches

LEMMA RecoverKept ==
  ASSUME KernelInv, Recover
  PROVE  KernelInv'
<1>1. PICK c : c = Replay(log)
  OBVIOUS
<1>2. /\ plan' = plan /\ log' = log /\ invoked' = invoked /\ pc' = pc /\ life' = life
      /\ run = "idle" /\ run' = "top" /\ mem' = c.graph /\ c.planned
  BY <1>1 DEF Recover
<1>3. log # <<>>
  BY <1>1, <1>2, ReplayEmpty, CandidateIs
<1>4. mem' = Durable
  BY <1>1, <1>2 DEF Durable
<1>5. Loaded'
  <2>1. Durable \in Projection
    BY KernelFacts
  <2> QED BY <1>4, <2>1, NotLoadedIsNoGraph DEF Loaded
<1>6. /\ pc' \in [Tasks -> Labels] /\ (\A t \in Tasks : pc'[t] = "none")
      /\ life' \in {"open", "closing", "closed"}
  BY <1>2, KernelFacts DEF TypeOK, RunInv, Labels
<1> QED BY <1>2, <1>3, <1>4, <1>5, <1>6, ControlKept

LEMMA ResumeKept ==
  ASSUME KernelInv, Resume
  PROVE  KernelInv'
<1>1. /\ plan' = plan /\ log' = log /\ invoked' = invoked /\ pc' = pc /\ life' = life
      /\ run = "idle" /\ run' = "top" /\ mem' = mem /\ Loaded /\ Loaded'
  BY DEF Resume, Loaded
<1>2. /\ pc' \in [Tasks -> Labels] /\ (\A t \in Tasks : pc'[t] = "none")
      /\ life' \in {"open", "closing", "closed"}
  BY <1>1, KernelFacts DEF TypeOK, RunInv, Labels
<1> QED BY <1>1, <1>2, ControlKept

LEMMA NoneAtWork ==
  ASSUME pc' = [t \in Tasks |-> "none"]
  PROVE  pc' \in [Tasks -> Labels] /\ \A t \in Tasks : pc'[t] = "none"
BY DEF Labels

LEMMA BatchDoneKept ==
  ASSUME KernelInv, BatchDone
  PROVE  KernelInv'
<1>1. /\ plan' = plan /\ log' = log /\ invoked' = invoked /\ life' = life
      /\ run = "batch" /\ run' \in {"idle", "top"} /\ mem' = mem
      /\ pc' = [t \in Tasks |-> "none"]
  BY DEF BatchDone
<1>2. life' \in {"open", "closing", "closed"} /\ Loaded'
  BY <1>1, KernelFacts DEF TypeOK, RunInv, Loaded
<1> QED BY <1>1, <1>2, NoneAtWork, ControlKept

LEMMA CancelRunKept ==
  ASSUME KernelInv, CancelRun
  PROVE  KernelInv'
<1>1. /\ plan' = plan /\ log' = log /\ invoked' = invoked /\ life' = life
      /\ run' = "idle" /\ mem' = mem /\ pc' = [t \in Tasks |-> "none"]
  BY DEF CancelRun
<1>2. life' \in {"open", "closing", "closed"}
  BY <1>1, KernelFacts DEF TypeOK
<1> QED BY <1>1, <1>2, NoneAtWork, ControlKept

LEMMA CrashKept ==
  ASSUME KernelInv, Crash
  PROVE  KernelInv'
<1>1. /\ plan' = plan /\ log' = log /\ invoked' = invoked /\ life' = "open"
      /\ run' = "idle" /\ mem' = NotLoaded /\ pc' = [t \in Tasks |-> "none"]
  BY DEF Crash
<1> QED BY <1>1, NoneAtWork, ControlKept

(* The kernel is closed around coroutines that stay where they are.        *)
LEMMA ClosingKept ==
  ASSUME KernelInv, UNCHANGED <<plan, log, mem, run, pc, invoked>>,
         life' \in {"open", "closing", "closed"}
  PROVE  KernelInv'
<1>1. ReplayInv' /\ RevisionsLogged' /\ MemoryInv' /\ LogGrows /\ Durable' = Durable
  BY NothingLands
<1>2. \A t \in Tasks : CoroutineSound(t)' /\ CallSound(t)'
  BY <1>1, CoroutineStays, CallStays
<1>3. RunInv'
  BY <1>2, KernelFacts DEF RunInv, Loaded
<1>4. /\ run' \in {"idle", "top", "batch"} /\ pc' \in [Tasks -> Labels]
      /\ invoked' \in [Tasks -> Nat]
  BY KernelFacts DEF TypeOK, Labels
<1> QED BY <1>1, <1>3, <1>4, KernelKept

(* The refresh that lands was of current tasks: their keys were free.      *)
LEMMA LoopTopKept ==
  ASSUME KernelInv, NEW outcome, LoopTop(outcome)
  PROVE  KernelInv'
<1>1. /\ run = "top" /\ plan' = plan /\ life' = life /\ invoked' = invoked
      /\ AppendMany(RefreshEvents(mem), outcome)
      /\ IF outcome = "appended"
         THEN /\ mem' = Refreshed(mem)
              /\ run' = IF ReadyTasks(Refreshed(mem)) = {} THEN "idle" ELSE "batch"
              /\ pc' = [t \in Tasks |-> IF t \in ReadyTasks(Refreshed(mem))
                                        THEN "queued" ELSE "none"]
         ELSE run' = "idle" /\ mem' = mem /\ pc' = pc
  BY DEF LoopTop
<1>2. /\ Loaded /\ (\A t \in Tasks : pc[t] = "none") /\ pc \in [Tasks -> Labels]
      /\ life' \in {"open", "closing", "closed"}
  BY <1>1, KernelFacts DEF RunInv, TypeOK, Labels
<1>3. PICK m \in Projection : m = mem /\ GraphSound(m) /\ log # <<>>
  BY <1>2, LoadedFacts
<1>4. CASE outcome = "failed"
  <2>1. log' = log /\ mem' = mem /\ pc' = pc /\ run' = "idle"
    BY <1>1, <1>4 DEF AppendMany
  <2> QED BY <1>1, <1>2, <2>1, ControlKept
<1>5. CASE outcome # "failed"
  <2>1. PICK b \in Seq(Events) :
          /\ b = RefreshEvents(m)
          /\ \A t \in Tasks : RefreshTarget(m, t) # None =>
               \E k \in 1 .. Len(b) : b[k] = RefreshEvent(m, t)
    BY RefreshNames
  <2>2. (\A k \in 1 .. Len(b) : ~HasKey(b[k])) /\ log' = log \o b
    BY <1>1, <1>3, <1>5, <2>1 DEF AppendMany
  <2>3. PICK M : M = {t \in Tasks : RefreshTarget(m, t) # None}
    OBVIOUS
  <2>4. ASSUME NEW t \in M PROVE Same(m, Durable, t)
    <3>1. t \in Tasks /\ RefreshTarget(m, t) # None
      BY <2>3
    <3>2. ~HasKey(RefreshEvent(m, t))
      BY <2>1, <2>2, <3>1
    <3>3. Key(RefreshEvent(m, t)) = <<"status", t, mem.rev[t] + 1>>
      BY <1>3, <3>1, RefreshEventIs
    <3> QED BY <1>2, <1>3, <3>1, <3>2, <3>3, FreshIsCurrent
  <2>5. /\ Moves(M)
        /\ \A t \in M : Same(Refreshed(m), Durable', t)
        /\ \A t \in Tasks \ M : Same(Refreshed(m), m, t)
    <3>1. log \in Seq(Events) /\ Len(log) \in Nat
      BY KernelFacts
    <3>2. Clean(Replay(log)) /\ Replay(log).graph = Durable
      BY <1>3, KernelFacts DEF ReplayInv, Durable
    <3>3. Len(log) <= Len(log) /\ \A i \in 1 .. Len(log) : log[i] = log[i]
      BY <3>1
    <3>4. log' = log \o RefreshEvents(m)
      BY <2>1, <2>2
    <3> QED BY <1>1, <1>3, <2>3, <2>4, <3>1, <3>2, <3>3, <3>4, RefreshMoves
  <2>6. LogGrows /\ M \in SUBSET Tasks
    BY <2>3, <2>5 DEF Moves
  <2>7. CASE outcome = "appended"
    <3>1. PICK x \in Projection : x = Refreshed(m) /\ mem' = x
      BY <1>1, <1>3, <2>7, RefreshedIs
    <3>2. MemoryMoves(M)
      BY <1>2, <1>3, <2>5, <3>1 DEF MemoryMoves
    <3>3. ReplayInv' /\ RevisionsLogged' /\ MemoryInv'
      BY <1>1, <2>5, <2>6, <3>2, GraphsStaySound
    <3>4. Loaded'
      BY <3>1, NotLoadedIsNoGraph DEF Loaded
    <3>5. /\ run' = IF ReadyTasks(x) = {} THEN "idle" ELSE "batch"
          /\ pc' = [t \in Tasks |-> IF t \in ReadyTasks(x) THEN "queued" ELSE "none"]
      BY <1>1, <1>3, <2>7, <3>1
    <3>6. /\ pc' \in [Tasks -> Labels] /\ run' \in {"idle", "top", "batch"}
          /\ \A t \in Tasks : \/ pc'[t] = "none"
                              \/ /\ pc'[t] = "queued" /\ run' = "batch"
                                 /\ mem'.status[t] = "ready"
      BY <3>1, <3>5 DEF Labels, ReadyTasks
    <3> QED BY <1>1, <1>2, <2>6, <3>3, <3>4, <3>6, BetweenBatches
  <2>8. CASE outcome # "appended"
    <3>1. mem' = mem /\ pc' = pc /\ run' = "idle"
      BY <1>1, <2>8
    <3>2. MemoryMoves(M)
      BY <3>1 DEF MemoryMoves
    <3>3. ReplayInv' /\ RevisionsLogged' /\ MemoryInv'
      BY <1>1, <2>5, <2>6, <3>2, GraphsStaySound
    <3> QED BY <1>1, <1>2, <2>6, <3>1, <3>3, BetweenBatches
  <2> QED BY <2>7, <2>8
<1> QED BY <1>4, <1>5

LEMMA SameGraph ==
  ASSUME NEW g \in Projection, NEW h \in Projection, \A t \in Tasks : Same(g, h, t)
  PROVE  g = h
<1>1. g.status = h.status /\ g.rev = h.rev /\ g.request = h.request
  BY GraphFacts DEF Same
<1> QED BY <1>1, GraphFacts

LEMMA InitializeKept ==
  ASSUME KernelInv, NEW outcome, Initialize(outcome)
  PROVE  KernelInv'
<1>1. /\ run = "idle" /\ plan' = plan /\ life' = life /\ invoked' = invoked /\ pc' = pc
      /\ ~Replay(log).planned
      /\ AppendMany(PlanBatch \o RefreshEvents(NewGraph), outcome)
      /\ IF outcome = "appended" THEN mem' = Refreshed(NewGraph) /\ run' = "top"
         ELSE mem' = mem /\ run' = run
  BY DEF Initialize, PlanBatch
<1>2. /\ (\A t \in Tasks : pc'[t] = "none") /\ pc' \in [Tasks -> Labels]
      /\ life' \in {"open", "closing", "closed"}
  BY <1>1, KernelFacts DEF RunInv, TypeOK, Labels
<1>3. log = <<>>
  BY <1>1, KernelFacts DEF ReplayInv, Clean
<1>4. PICK m \in Projection : /\ m = NewGraph /\ m = Durable /\ GraphSound(m)
  BY <1>3, KernelFacts, ReplayEmpty, CandidateIs DEF Durable
<1>5. CASE outcome = "failed"
  <2>1. log' = log /\ mem' = mem /\ run' = "idle"
    BY <1>1, <1>5 DEF AppendMany
  <2> QED BY <1>1, <1>2, <2>1, ControlKept
<1>6. CASE outcome # "failed"
  <2>1. PICK s \in Seq(Events) : s = PlanBatch /\ Clean(Replay(s)) /\ Replay(s).graph = m
    BY <1>4, PlanReplays
  <2>2. PICK b \in Seq(Events) : b = RefreshEvents(m)
    BY RefreshNames
  <2>3. log' = s \o b
    <3>1. log' = log \o (s \o b)
      BY <1>1, <1>4, <1>6, <2>1, <2>2 DEF AppendMany
    <3>2. PICK q \in Seq(Events) : q = s \o b
      BY ConcatProperties
    <3>3. <<>> \o q = q
      BY ConcatEmptySeq
    <3> QED BY <1>3, <3>1, <3>2, <3>3
  <2>4. PICK M : M = {t \in Tasks : RefreshTarget(m, t) # None}
    OBVIOUS
  <2>5. /\ Moves(M)
        /\ \A t \in M : Same(Refreshed(m), Durable', t)
        /\ \A t \in Tasks \ M : Same(Refreshed(m), m, t)
    <3>1. Len(s) \in Nat /\ Len(log) = 0
      BY <1>3
    <3>2. Len(log) <= Len(s) /\ \A i \in 1 .. Len(log) : s[i] = log[i]
      BY <3>1
    <3>3. \A t \in M : Same(m, Durable, t)
      BY <1>4 DEF Same
    <3>4. log' = s \o RefreshEvents(m) /\ Replay(s).graph = Durable
      BY <1>4, <2>1, <2>2, <2>3
    <3> QED BY <1>1, <1>4, <2>1, <2>4, <3>2, <3>3, <3>4, RefreshMoves
  <2>6. LogGrows /\ M \in SUBSET Tasks
    BY <2>4, <2>5 DEF Moves
  <2>7. PICK h \in Projection : h = Durable'
    BY <2>5, CandidateFacts DEF Moves, Clean, Durable
  <2>8. PICK x \in Projection : x = Refreshed(m)
    BY RefreshedIs
  <2>9. x = h
    <3>1. \A t \in Tasks \ M : Same(h, m, t)
      BY <1>4, <2>5, <2>7 DEF Moves
    <3>2. \A t \in Tasks : Same(x, h, t)
      BY <2>5, <2>7, <2>8, <3>1 DEF Same
    <3> QED BY <3>2, SameGraph
  <2>10. MemoryMoves(M)
    BY <1>1, <1>4, <2>7, <2>8, <2>9 DEF MemoryMoves
  <2>11. ReplayInv' /\ RevisionsLogged' /\ MemoryInv'
    BY <1>1, <2>5, <2>6, <2>10, GraphsStaySound
  <2>12. run' \in {"idle", "top", "batch"} /\ (run' # "idle" => Loaded')
    BY <1>1, <1>4, <2>8, NotLoadedIsNoGraph DEF Loaded
  <2> QED BY <1>1, <1>2, <2>6, <2>11, <2>12, BetweenBatches
<1> QED BY <1>5, <1>6

LEMMA DecideKept ==
  ASSUME KernelInv, NEW t \in Tasks, NEW d \in Decisions, NEW outcome, Decide(t, d, outcome)
  PROVE  KernelInv'
<1>1. /\ run = "idle" /\ run' = run /\ plan' = plan /\ life' = life /\ invoked' = invoked
      /\ pc' = pc /\ Loaded
      /\ mem.request[t] = "pending" /\ mem.status[t] = "waiting_approval"
  BY DEF Decide
<1>2. /\ (\A u \in Tasks : pc'[u] = "none") /\ pc' \in [Tasks -> Labels]
      /\ life' \in {"open", "closing", "closed"}
  BY <1>1, KernelFacts DEF RunInv, TypeOK, Labels
<1>3. PICK m \in Projection : m = mem /\ m.rev[t] \in Nat /\ log # <<>>
  BY <1>1, LoadedFacts, GraphFacts
<1>4. PICK to \in Statuses : to = Target(d)
  BY DEF Target, Decisions, Statuses, Failed
<1>5. PICK g \in Projection : g = Durable
  BY KernelFacts
<1>6. PICK r \in Nat : r = m.rev[t]
  BY <1>3
<1>7. PICK b : b = StatusEvent(t, "waiting_approval", to, r + 1)
               /\ Key(b) = <<"status", t, mem.rev[t] + 1>>
  <2>1. "waiting_approval" \in Statuses
    BY DEF Statuses
  <2> QED BY <1>3, <1>6, <2>1, StatusEventIs
<1>8. PICK a : a = DecidedEvent(t, d)
  OBVIOUS
<1>9. AppendMany(<<a, b>>, outcome)
  BY <1>3, <1>4, <1>6, <1>7, <1>8 DEF Decide
<1>10. PICK y \in Projection : /\ y = Moved(m, t, to) /\ y.status[t] = to /\ y.rev[t] = r + 1
                               /\ \A u \in Tasks \ {t} : Same(y, m, u)
  BY <1>6, MovedIs
<1>11. PICK x \in Projection :
         /\ x = WithRequest(y, t, d) /\ x.status = y.status /\ x.rev = y.rev
         /\ x.request[t] = d /\ \A u \in Tasks \ {t} : Same(x, y, u)
  BY WithRequestIs
<1>12. mem' = IF outcome = "appended" THEN x ELSE mem
  BY <1>3, <1>4, <1>10, <1>11 DEF Decide, WithRequest
<1>13. CASE outcome = "failed"
  <2>1. log' = log /\ mem' = mem
    BY <1>9, <1>12, <1>13 DEF AppendMany
  <2> QED BY <1>1, <1>2, <2>1, ControlKept
<1>14. CASE outcome # "failed"
  <2>1. ~HasKey(b) /\ log' = log \o <<a, b>>
    BY <1>9, <1>14, FirstIsFree
  <2>2. Same(m, g, t)
    BY <1>1, <1>3, <1>5, <1>7, <2>1, FreshIsCurrent
  <2>3. g.rev[t] = r /\ g.status[t] = "waiting_approval" /\ g.request[t] = "pending"
    BY <1>1, <1>3, <1>6, <2>2 DEF Same
  <2>4. PICK k \in Projection : /\ k = WithRequest(g, t, d) /\ k.rev = g.rev
                                /\ k.request[t] = d
    BY WithRequestIs
  <2>5. Moves({t}) /\ Durable' = Moved(k, t, to)
    <3>1. log' = log \o <<DecidedEvent(t, d),
                          StatusEvent(t, "waiting_approval", Target(d), g.rev[t] + 1)>>
      BY <1>4, <1>7, <1>8, <2>1, <2>3
    <3>2. plan' = plan /\ log # <<>>
      BY <1>1, <1>3
    <3> QED BY <1>4, <1>5, <2>3, <2>4, <3>1, <3>2, DecideMoves
  <2>6. PICK h \in Projection : /\ h = Durable' /\ h.status[t] = to
                                /\ h.rev[t] = k.rev[t] + 1 /\ h.request = k.request
    BY <2>5, MovedIs
  <2>7. Same(x, h, t)
    BY <1>10, <1>11, <2>3, <2>4, <2>6 DEF Same
  <2>8. \A u \in Tasks \ {t} : Same(x, m, u)
    BY <1>10, <1>11 DEF Same
  <2>9. MemoryMoves({t})
    BY <1>1, <1>3, <1>12, <2>6, <2>7, <2>8 DEF MemoryMoves
  <2>10. ReplayInv' /\ RevisionsLogged' /\ MemoryInv'
    BY <1>1, <2>5, <2>9, GraphsStaySound
  <2>11. LogGrows
    BY <2>5 DEF Moves
  <2> QED BY <1>1, <1>2, <2>10, <2>11, BetweenBatches
<1> QED BY <1>13, <1>14

-----------------------------------------------------------------------------
(* The invariant.                                                          *)

LEMMA InitiallyKept ==
  ASSUME Init
  PROVE  KernelInv
<1>1. /\ plan \in Plans /\ log = <<>> /\ mem = NotLoaded /\ run = "idle" /\ life = "open"
      /\ pc = [t \in Tasks |-> "none"] /\ invoked = [t \in Tasks |-> 0]
  BY DEF Init
<1>2. /\ pc \in [Tasks -> Labels] /\ (\A t \in Tasks : pc[t] = "none")
      /\ invoked \in [Tasks -> Nat] /\ (\A t \in Tasks : invoked[t] = 0)
  BY <1>1 DEF Labels
<1>3. log \in Seq(Events)
  BY <1>1
<1>4. TypeOK
  BY <1>1, <1>2, <1>3 DEF TypeOK, Labels
<1>5. PICK g \in Projection : /\ g = Durable /\ g = NewGraph
                              /\ \A t \in Tasks : /\ g.status[t] = "pending" /\ g.rev[t] = 0
                                                  /\ g.request[t] = None
  BY <1>1, ReplayEmpty, CandidateIs DEF Durable
<1>6. None # "pending" /\ None # "approve"
  BY NoneAssumption DEF Statuses, Decisions
<1>7. \A t \in Tasks : TaskSound(g, t)
  BY <1>5, <1>6 DEF TaskSound, RequestFits, Done
<1>8. ReplayInv
  BY <1>1, <1>5, <1>7 DEF ReplayInv, GraphSound
<1>9. RevisionsLogged
  BY <1>5 DEF RevisionsLogged
<1>10. MemoryInv
  BY <1>1 DEF MemoryInv, Loaded
<1>11. RunInv
  BY <1>1, <1>2 DEF RunInv, CoroutineSound, CallSound, Working
<1> QED BY <1>4, <1>8, <1>9, <1>10, <1>11 DEF KernelInv

LEMMA TaskStepsKept ==
  ASSUME KernelInv, NEW t \in Tasks, TaskStep(t)
  PROVE  KernelInv'
<1>1. CASE Admit(t)
  BY <1>1, AdmitKept
<1>2. ASSUME NEW o \in Outcomes, Dispatch(t, o) PROVE KernelInv'
  BY <1>2, DispatchKept
<1>3. ASSUME NEW o \in Outcomes, CompileContext(t, o) PROVE KernelInv'
  BY <1>3, RecordKept DEF CompileContext, Working, Notes
<1>4. ASSUME NEW o \in Outcomes, Announce(t, o) PROVE KernelInv'
  BY <1>4, RecordKept DEF Announce, Working, Notes
<1>5. ASSUME NEW o \in Outcomes, RecordArtifact(t, o) PROVE KernelInv'
  BY <1>5, RecordKept DEF RecordArtifact, Working, Notes
<1>6. ASSUME NEW o \in Outcomes, PublishResult(t, o) PROVE KernelInv'
  BY <1>6, RecordKept DEF PublishResult, Working, Notes
<1>7. ASSUME NEW o \in Outcomes, NEW hooks \in {"ended", "raised"},
             Fail(t, o, hooks) \/ Complete(t, o, hooks)
      PROVE  KernelInv'
  BY <1>7, FinishKept DEF Fail, Complete
<1>8. CASE Invoke(t)
  BY <1>8, InvokeKept
<1>9. CASE InvokeRefused(t)
  BY <1>9, CallEndsKept DEF InvokeRefused, Working
<1>10. ASSUME NEW returned \in BOOLEAN, AgentEnds(t, returned) PROVE KernelInv'
  <2>1. PICK l \in {"recording", "failing"} : Goto(t, l)
    BY <1>10 DEF AgentEnds
  <2>2. pc[t] \in Working /\ UNCHANGED <<plan, log, mem, run, life, invoked>>
    BY <1>10 DEF AgentEnds, Working
  <2> QED BY <2>1, <2>2, CallEndsKept
<1> QED BY <1>1, <1>2, <1>3, <1>4, <1>5, <1>6, <1>7, <1>8, <1>9, <1>10 DEF TaskStep

LEMMA NextKept ==
  ASSUME KernelInv, [Next]_vars
  PROVE  KernelInv'
<1>1. CASE RunStep
  BY <1>1, BatchDoneKept, LoopTopKept DEF RunStep
<1>2. ASSUME NEW t \in Tasks, TaskStep(t) \/ HookRaises(t) PROVE KernelInv'
  BY <1>2, TaskStepsKept, HookRaisesKept
<1>3. CASE CallerStep
  <2>1. CASE Recover
    BY <2>1, RecoverKept
  <2>2. CASE Resume
    BY <2>2, ResumeKept
  <2>3. ASSUME NEW o \in Outcomes, Initialize(o) PROVE KernelInv'
    BY <2>3, InitializeKept
  <2>4. CASE CancelRun
    BY <2>4, CancelRunKept
  <2>5. ASSUME NEW t \in Tasks, NEW d \in Decisions, NEW o \in Outcomes, Decide(t, d, o)
        PROVE  KernelInv'
    BY <2>5, DecideKept
  <2>6. CASE Close \/ CloseEnds
    BY <2>6, ClosingKept DEF Close, CloseEnds
  <2> QED BY <1>3, <2>1, <2>2, <2>3, <2>4, <2>5, <2>6 DEF CallerStep
<1>4. CASE Crash
  BY <1>4, CrashKept
<1>5. CASE UNCHANGED vars
  <2>1. life' \in {"open", "closing", "closed"} /\ UNCHANGED <<plan, log, mem, run, pc, invoked>>
    BY <1>5, KernelFacts DEF vars, TypeOK
  <2> QED BY <2>1, ClosingKept
<1> QED BY <1>1, <1>2, <1>3, <1>4, <1>5 DEF Next

(* The kernel's invariant holds throughout every session.                  *)
THEOREM KernelInvariance == Spec => []KernelInv
<1>1. Init => KernelInv
  BY InitiallyKept
<1>2. KernelInv /\ [Next]_vars => KernelInv'
  BY NextKept
<1> QED BY <1>1, <1>2, PTL DEF Spec

(* The variables of the kernel keep their types.                           *)
THEOREM KernelTypeCorrect == Spec => []TypeOK
<1>1. KernelInv => TypeOK
  BY DEF KernelInv
<1> QED BY <1>1, KernelInvariance, PTL

(* However many tasks there are and whatever fails, is cancelled or is     *)
(* restarted, an agent is called at most once for a task, after context    *)
(* and start are in the log, and while it works recovery sees RUNNING.     *)
THEOREM AgentsInvokedOnce == Spec => []InvokedOnce
<1>1. ASSUME KernelInv PROVE InvokedOnce
  <2> SUFFICES ASSUME NEW t \in Tasks
               PROVE  /\ invoked[t] <= 1
                      /\ invoked[t] = 1 => Logged("context", t) /\ Logged("started", t)
                      /\ pc[t] = "invoking" => Replay(log).graph.status[t] = "running"
    BY DEF InvokedOnce
  <2>1. CoroutineSound(t) /\ CallSound(t)
    BY <1>1, KernelFacts DEF RunInv
  <2>2. Announced(t) => Logged("started", t)
    <3>1. Event("started", t).type = "started" /\ Event("started", t).task = t
      BY EventIs DEF EventTypes
    <3> QED BY <3>1 DEF Announced, Logged
  <2>3. ASSUME pc[t] = "invoking" PROVE Replay(log).graph.status[t] = "running"
    <3>1. mem.status[t] = "running" /\ mem.rev[t] = Durable.rev[t]
      BY <2>1, <2>3 DEF CoroutineSound, Working
    <3>2. Loaded
      BY <1>1, <2>3, KernelFacts DEF RunInv
    <3>3. Follows(mem, Durable)
      BY <1>1, <3>2, LoadedFacts
    <3> QED BY <3>1, <3>3 DEF Follows, Durable
  <2> QED BY <2>1, <2>2, <2>3 DEF CallSound
<1> QED BY <1>1, KernelInvariance, PTL

(* Recovery explains every log that the kernel leaves behind, at whatever  *)
(* append the process died and whichever way that append ended.            *)
THEOREM HistoryIsExplained == Spec => []RecoveryExplains
<1>1. ASSUME KernelInv PROVE RecoveryExplains
  <2>1. PICK c : c = Replay(log)
    OBVIOUS
  <2>2. c.graph = Durable /\ GraphSound(c.graph)
    BY <1>1, <2>1, KernelFacts DEF Durable
  <2>3. \A t \in Tasks : c.graph.request[t] = "pending" => c.graph.status[t] = "waiting_approval"
    BY <2>2 DEF GraphSound, TaskSound, RequestFits
  <2>4. c.ok /\ (c.planned => c.created = Order) /\ Even(c)
    <3>1. CASE log = <<>>
      BY <2>1, <3>1, ReplayEmpty, CandidateIs
    <3>2. CASE Clean(c)
      BY <3>2 DEF Clean, Even
    <3> QED BY <1>1, <2>1, <3>1, <3>2, KernelFacts DEF ReplayInv
  <2> QED BY <2>1, <2>3, <2>4 DEF RecoveryExplains, Explained, Even
<1> QED BY <1>1, KernelInvariance, PTL

(* What the kernel holds in memory of a task is never newer than the log,  *)
(* and is the durable state when the revisions agree.                      *)
THEOREM MemoryIsBehindLog == Spec => []MemoryNeverAhead
<1>1. ASSUME KernelInv PROVE MemoryNeverAhead
  BY <1>1, KernelFacts DEF MemoryNeverAhead, MemoryInv, Follows, Durable
<1> QED BY <1>1, KernelInvariance, PTL

LEMMA CallsAreCleared ==
  ASSUME KernelInv, NEW t \in Tasks, invoked[t] > 0
  PROVE  Cleared(t)
<1>1. invoked[t] \in Nat /\ CallSound(t)
  BY KernelFacts DEF TypeOK, RunInv
<1>2. invoked[t] = 1
  BY <1>1 DEF CallSound
<1> QED BY <1>1, <1>2 DEF CallSound

(* No agent is called for a forbidden action, nor for one of high impact   *)
(* that no person's durable decision approves.                             *)
THEOREM EffectsStayAuthorised == Spec => []EffectsAuthorised
<1>1. ASSUME KernelInv PROVE EffectsAuthorised
  <2>1. \A t \in Tasks : invoked[t] > 0 => Cleared(t)
    BY <1>1, CallsAreCleared
  <2> QED BY <2>1 DEF EffectsAuthorised, Cleared, HighImpact, Approved
<1> QED BY <1>1, KernelInvariance, PTL

(* No agent is called before the dependencies of its task have published   *)
(* an artifact and a result.                                               *)
THEOREM DependenciesPublishFirst == Spec => []DependenciesRespected
<1>1. ASSUME KernelInv PROVE DependenciesRespected
  <2>1. \A t \in Tasks : invoked[t] > 0 => Cleared(t)
    BY <1>1, CallsAreCleared
  <2> QED BY <2>1 DEF DependenciesRespected, Cleared, Published
<1> QED BY <1>1, KernelInvariance, PTL
=============================================================================
