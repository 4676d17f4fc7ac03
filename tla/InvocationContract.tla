------------------------ MODULE InvocationContract ------------------------
(***************************************************************************)
(* What the attempt store promises of each logical invocation, whatever    *)
(* its processes, clocks and commits do: it is submitted once, owned by at *)
(* most one worker in its whole life, and then either ends with one result *)
(* or stays quarantined with its effect unknown.  One store transaction    *)
(* may move several invocations, each along its own edge.                  *)
(***************************************************************************)
CONSTANTS Jobs, Workers, Results

VARIABLE life   \* life[j]: where invocation j is in its life

Absent == <<"absent">>
Waiting == <<"waiting">>
OwnedBy(w) == <<"owned", w>>
DoneWith(r) == <<"done", r>>
Quarantined == <<"quarantined">>

Init == life = [j \in Jobs |-> Absent]

Submit(j) == life[j] = Absent /\ life'[j] = Waiting

Own(j, w) == life[j] = Waiting /\ life'[j] = OwnedBy(w)

Finish(j, w, r) == life[j] = OwnedBy(w) /\ life'[j] = DoneWith(r)

Quarantine(j, w) == life[j] = OwnedBy(w) /\ life'[j] = Quarantined

Step(j) ==
  \/ Submit(j)
  \/ \E w \in Workers : \/ Own(j, w)
                        \/ Quarantine(j, w)
                        \/ \E r \in Results : Finish(j, w, r)

Next ==
  /\ life' = [j \in Jobs |-> life'[j]]
  /\ \A j \in Jobs : Step(j) \/ life'[j] = life[j]

Spec == Init /\ [][Next]_life
=============================================================================
