--------------------------- MODULE MCOrchestrator ---------------------------
(* Small sessions for TLC: two tasks, side by side or one after the other. *)
EXTENDS Orchestrator

MCOrder == <<"t1", "t2">>

(* A delegated external action. *)
Delegated ==
  [deps |-> {}, priority |-> 50, forbidden |-> FALSE, safe |-> FALSE,
   external |-> TRUE, irreversible |-> FALSE, risk |-> 2, granted |-> TRUE,
   maxRisk |-> 4, mayAffect |-> TRUE]

(* A delegated action that cannot be undone needs a person all the same. *)
Irreversible == [Delegated EXCEPT !.irreversible = TRUE]

Forbidden == [Delegated EXCEPT !.forbidden = TRUE]

Reading == [Delegated EXCEPT !.safe = TRUE, !.external = FALSE, !.risk = 1,
                             !.granted = FALSE]

After(spec, deps) == [spec EXCEPT !.deps = deps]

PlanOf(a, b) == [t \in Tasks |-> IF t = "t1" THEN a ELSE b]

MCPlans ==
  {PlanOf(Delegated, [Irreversible EXCEPT !.priority = 60]),
   PlanOf(Irreversible, After(Reading, {"t1"})),
   PlanOf(Forbidden, After(Delegated, {"t1"}))}
=============================================================================
