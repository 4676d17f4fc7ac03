----------------------------- MODULE Capabilities -----------------------------
(***************************************************************************)
(* Tenant authorization (tenancy.py): delegated capabilities, the ring of  *)
(* keys that prove them, the high-water mark of revocation snapshots and   *)
(* the authorizer that judges a request by all of them.                    *)
(*                                                                         *)
(* One tenant.  A set of actions stands for an action pattern and a set of *)
(* resources for a resource scope: the code's pattern operators decide     *)
(* inclusion and membership of the sets the patterns denote.  The high-    *)
(* water mark is a row of a database that processes share; the key ring    *)
(* lives in one process.                                                   *)
(***************************************************************************)
EXTENDS Integers, Sequences, FiniteSets

CONSTANTS
  Kids,        \* key ids, of signing keys [principal, root, from, to]
  KeyOf,       \* the immutable identity of each key
  Envelopes,   \* signed chains [claims, kids]
  Snapshots,   \* revocation states [revision, revoked]
  Skew,        \* max_clock_skew
  MaxAge,      \* max_revocation_age
  MaxTtl,      \* max_ttl of a capability
  MaxDepth,    \* max_chain_depth
  Role,        \* the evidence of a role binding, which is no envelope
  None         \* Python's None

(* What the constructors of keys, claims, envelopes, snapshots and the     *)
(* authorizer accept.                                                      *)
KeySound(k) == k.root \in BOOLEAN /\ k.from < k.to

ClaimSound(c) == c.issued <= c.from /\ c.from < c.to

EnvelopeSound(e) ==
  /\ e.claims \in Seq({e.claims[k] : k \in DOMAIN e.claims})
  /\ e.claims # <<>> /\ Len(e.kids) = Len(e.claims)
  /\ \A k \in DOMAIN e.claims : ClaimSound(e.claims[k])

SnapshotSound(s) == s.revision \in Nat /\ IsFiniteSet(s.revoked)

AuthorizerLimits ==
  /\ Skew \in Nat /\ MaxAge \in Nat /\ MaxTtl \in Nat \ {0}
  /\ MaxDepth \in 1 .. 64

ASSUME CapabilityAssumption ==
  /\ AuthorizerLimits
  /\ \A k \in Kids : KeySound(KeyOf[k])
  /\ \A e \in Envelopes : EnvelopeSound(e)
  /\ \A s \in Snapshots : SnapshotSound(s)

(* None is no snapshot, no envelope and no status, and a role no envelope. *)
ASSUME NoneAssumption ==
  /\ None \notin Snapshots
  /\ None \notin Envelopes /\ Role \notin Envelopes
  /\ None \notin {"active", "verify_only", "revoked"}

VARIABLES
  keys,     \* the ring: status of each key, None if it is not in the ring
  retired,  \* kids that were removed from the ring
  dead,     \* history: kids that were in the ring and then revoked or removed
  guard,    \* the accepted revocation snapshot, None at first
  judged    \* history: the snapshots that requests were judged by

ringVars == <<keys, retired, dead>>
guardVars == <<guard, judged>>

KeyStatus == {"active", "verify_only", "revoked"}
StatusOrder == [active |-> 0, verify_only |-> 1, revoked |-> 2]

CapabilityTypeOK ==
  /\ keys \in [Kids -> KeyStatus \cup {None}]
  /\ retired \subseteq Kids /\ dead \subseteq Kids
  /\ guard \in Snapshots \cup {None}
  /\ judged \subseteq Snapshots

-----------------------------------------------------------------------------
(* replace_keys installs a whole ring: no removed kid comes back and no    *)
(* status moves back.                                                      *)
RetiredWith(new) == retired \cup {k \in Kids : keys[k] # None /\ new[k] = None}

Installable(new) ==
  \A k \in Kids :
    new[k] # None =>
      /\ k \notin RetiredWith(new)
      /\ keys[k] # None => StatusOrder[new[k]] >= StatusOrder[keys[k]]

ReplaceKeys(new) ==
  /\ Installable(new)
  /\ keys' = new
  /\ retired' = RetiredWith(new)
  /\ dead' = dead \cup {k \in Kids : \/ new[k] = "revoked"
                                     \/ keys[k] # None /\ new[k] = None}

(* verify, authorize_root and authorize_delegation: a key in the ring and  *)
(* in its interval proves what its principal issued, and a root only if it *)
(* is a root key of the tenant.                                            *)
Proves(kid, claim, root, now) ==
  /\ kid \in Kids
  /\ keys[kid] \in {"active", "verify_only"}
  /\ KeyOf[kid].principal = claim.issuer
  /\ KeyOf[kid].from <= now /\ now < KeyOf[kid].to
  /\ root => KeyOf[kid].root

-----------------------------------------------------------------------------
RevocationId(claim) == <<claim.issuer, claim.nonce>>

Covers(claim, request) ==
  request.action \in claim.actions /\ request.resource \in claim.resources

(* Mutant: the actions of a child are not compared with its parent's. *)
AttenuatesAnyAction(parent, child) ==
  /\ child.parent = parent.fingerprint
  /\ child.issuer = parent.subject
  /\ child.audience = parent.audience
  /\ child.resources \subseteq parent.resources
  /\ child.issued >= parent.issued
  /\ child.from >= parent.from
  /\ child.to <= parent.to
  /\ RevocationId(child) # RevocationId(parent)

(* validate_delegation: a child never amplifies its parent.                *)
Attenuates(parent, child) ==
  /\ child.parent = parent.fingerprint
  /\ child.issuer = parent.subject
  /\ child.audience = parent.audience
  /\ child.actions \subseteq parent.actions
  /\ child.resources \subseteq parent.resources
  /\ child.issued >= parent.issued
  /\ child.from >= parent.from
  /\ child.to <= parent.to
  /\ RevocationId(child) # RevocationId(parent)

(* _validate_chain_structure.                                              *)
ChainSound(chain, audience, now) ==
  /\ Len(chain) <= MaxDepth
  /\ \A k \in DOMAIN chain :
       /\ chain[k].audience = audience
       /\ chain[k].to - chain[k].issued <= MaxTtl
       /\ chain[k].issued <= now + Skew
       /\ \A j \in 1 .. k - 1 : RevocationId(chain[j]) # RevocationId(chain[k])
       /\ k > 1 => Attenuates(chain[k - 1], chain[k])
  /\ chain[1].parent = None

(* CapabilityVerifier.verify, which the authorizer repeats for every       *)
(* decision.                                                               *)
Trusted(e, audience, now) ==
  /\ ChainSound(e.claims, audience, now)
  /\ \A k \in DOMAIN e.claims : Proves(e.kids[k], e.claims[k], k = 1, now)

(* _validate_for_authorization: the leaf covers the request, and no claim  *)
(* of the chain is revoked or outside its interval.                        *)
Grants(e, request, snapshot, now) ==
  LET leaf == e.claims[Len(e.claims)] IN
  /\ leaf.subject = request.subject
  /\ Covers(leaf, request)
  /\ \A k \in DOMAIN e.claims :
       /\ RevocationId(e.claims[k]) \notin snapshot.revoked
       /\ e.claims[k].from <= now /\ now < e.claims[k].to

-----------------------------------------------------------------------------
(* Mutant: revisions are compared and their states are not. *)
AcceptedByRevision(s) == guard # None => s.revision >= guard.revision

(* check_and_advance: the mark never goes back, and one revision has one   *)
(* state.                                                                  *)
Accepted(s) ==
  guard # None =>
    \/ s.revision > guard.revision
    \/ s.revision = guard.revision /\ s = guard

(* The part of evaluate before the guard: an active member, and a snapshot *)
(* that is neither of the future nor too old.                              *)
ActiveMember(request, member) ==
  member # None => member.id = request.subject /\ member.active

Fresh(captured, now) == captured <= now + Skew /\ now - captured <= MaxAge

Admissible(request, state, now) ==
  /\ state.member # None /\ ActiveMember(request, state.member)
  /\ Fresh(state.captured, now)

(* What allows a request: the role, else any capability that grants it.    *)
ByRole(request, state) ==
  <<request.action, request.resource>> \in state.member.grants

Evidence(request, state, audience, now) ==
  IF ByRole(request, state) THEN {Role}
  ELSE {e \in state.envelopes :
          /\ Trusted(e, audience, now)
          /\ Grants(e, request, state.snapshot, now)}

(* evaluate: the mark it leaves, and the evidence of an ALLOW or None.  A  *)
(* COMMIT of the mark that lands and raises denies.                        *)
Judges(request, state, now) ==
  Admissible(request, state, now) /\ Accepted(state.snapshot)

Outcomes(request, state, audience, now) ==
  {None} \cup (IF Judges(request, state, now)
              THEN Evidence(request, state, audience, now) ELSE {})

Decide(request, state, now) ==
  IF Judges(request, state, now)
  THEN guard' = state.snapshot /\ judged' = judged \cup {state.snapshot}
  ELSE UNCHANGED guardVars

-----------------------------------------------------------------------------
(* All requests are judged by one state of each revision, whichever        *)
(* process judges them and in whichever order replicas deliver snapshots,  *)
(* and the mark is the last of them (check_and_advance).                   *)
DecisionsAgree ==
  \A a, b \in judged :
    /\ a.revision = b.revision => a = b
    /\ guard # None /\ a.revision <= guard.revision
=============================================================================
