--------------------------- MODULE DeliveryContract ---------------------------
(***************************************************************************)
(* What the transactional outbox promises about each message.  A message   *)
(* waits, is leased to a publisher under a token, and ends published or    *)
(* dead-lettered.  A lease can be taken over, under a new token.  An       *)
(* attempt whose outcome is uncertain puts its message under quarantine:   *)
(* the token then stays until an operator rules on that very attempt, and  *)
(* the message goes where the ruling says.  Time is not part of the        *)
(* contract: it does not say when a lease may be taken over.               *)
(***************************************************************************)
CONSTANTS Messages, Tokens, None

VARIABLES
  life,     \* the state of each message
  holder,   \* the token each message is held under, or None
  rulings   \* what operators have ruled: message, token and resolution

vars == <<life, holder, rulings>>

Init ==
  /\ life = [m \in Messages |-> "absent"]
  /\ holder = [m \in Messages |-> None]
  /\ rulings = {}

Append(m) ==
  /\ life[m] = "absent"
  /\ life' = [life EXCEPT ![m] = "waiting"]
  /\ UNCHANGED <<holder, rulings>>

Fresh(k) ==
  /\ \A m \in Messages : holder[m] # k
  /\ \A r \in rulings : r.token # k

(* One claim leases a batch of waiting messages and takes over leases,     *)
(* each message under a token of its own; a quarantined one is left alone. *)
Lease(B) ==
  /\ \A m \in B : life[m] \in {"waiting", "leased"}
  /\ \E f \in [B -> Tokens] :
       /\ \A m \in B : Fresh(f[m])
       /\ \A m, n \in B : f[m] = f[n] => m = n
       /\ life' = [m \in Messages |-> IF m \in B THEN "leased" ELSE life[m]]
       /\ holder' = [m \in Messages |-> IF m \in B THEN f[m] ELSE holder[m]]
  /\ UNCHANGED rulings

(* The holder gives the message back, publishes it or buries it.           *)
Settle(m, end) ==
  /\ life[m] = "leased"
  /\ life' = [life EXCEPT ![m] = end]
  /\ holder' = [holder EXCEPT ![m] = None]
  /\ UNCHANGED rulings

Quarantine(m) ==
  /\ life[m] = "leased"
  /\ life' = [life EXCEPT ![m] = "quarantined"]
  /\ UNCHANGED <<holder, rulings>>

Outcome(r) ==
  CASE r = "retry" -> "waiting" [] r = "published" -> "published"
    [] r = "dead_letter" -> "dead"

(* An operator rules once on an attempt.                                   *)
Resolve(m, r) ==
  /\ life[m] = "quarantined"
  /\ \A x \in rulings : ~(x.message = m /\ x.token = holder[m])
  /\ rulings' = rulings \cup {[message |-> m, token |-> holder[m], resolution |-> r]}
  /\ life' = [life EXCEPT ![m] = Outcome(r)]
  /\ holder' = [holder EXCEPT ![m] = None]

Next ==
  \/ \E m \in Messages :
       \/ Append(m)
       \/ \E end \in {"waiting", "published", "dead"} : Settle(m, end)
       \/ Quarantine(m)
       \/ \E r \in {"published", "retry", "dead_letter"} : Resolve(m, r)
  \/ \E B \in SUBSET Messages : Lease(B)

Spec == Init /\ [][Next]_vars
=============================================================================
