---------------------------- MODULE ArtifactStore ----------------------------
(***************************************************************************)
(* The durable artifact store (artifact_store.py): immutable versions of   *)
(* named artifacts over content-addressed blobs, in one SQLite file that   *)
(* processes share.  A write is one transaction; its COMMIT may land and   *)
(* raise, and its caller then retries with the same idempotency key.       *)
(*                                                                         *)
(* A request's digest is abstracted to what it digests: the fields of the  *)
(* write other than artifact id and key.                                   *)
(***************************************************************************)
EXTENDS Integers, Sequences, FiniteSets, FiniteSetsExt

CONSTANTS
  Writes,       \* [scope, name, artifact, key, content, by]; name is of a session
  Heads,        \* values of expected_head_version
  MaxVersions,  \* bound on the rows of artifact_versions
  Null          \* SQL's NULL and Python's None

ASSUME WritesAssumption ==
  /\ Heads \subseteq Nat \cup {Null} /\ Null \notin Nat
  /\ MaxVersions \in Nat

VARIABLES
  versions,  \* artifact_versions, in the order of their commits
  blobs,     \* artifact_blobs: the contents that are stored
  returned   \* history: the version the last write of a request returned

artifactVars == <<versions, blobs, returned>>

-----------------------------------------------------------------------------
VersionRow ==
  [write : Writes, version : 1 .. MaxVersions, parent : 1 .. MaxVersions \cup {Null}]

ArtifactTypeOK ==
  /\ versions \in Seq(VersionRow) /\ Len(versions) <= MaxVersions
  /\ blobs \subseteq {w.content : w \in Writes}
  /\ returned \in [Writes -> 0 .. MaxVersions]

ArtifactInit ==
  /\ versions = <<>>
  /\ blobs = {}
  /\ returned = [w \in Writes |-> 0]

RequestDigest(w) == <<w.scope, w.name, w.content, w.by>>

(* The rows of a scope that have the write's artifact id or its key.       *)
Existing(w) ==
  {k \in DOMAIN versions :
     /\ versions[k].write.scope = w.scope
     /\ \/ versions[k].write.artifact = w.artifact
        \/ versions[k].write.key = w.key}

RowsOfName(scope, name) ==
  {k \in DOMAIN versions :
     versions[k].write.scope = scope /\ versions[k].write.name = name}

HeadVersion(w) ==
  Max({0} \cup {versions[k].version : k \in RowsOfName(w.scope, w.name)})

(* Mutant: a retry is recognised by its key alone. *)
SameKeyRetry(w, k) ==
  /\ Existing(w) = {k}
  /\ versions[k].write.key = w.key

(* write: an identical retry is answered with the stored row.              *)
IdenticalRetry(w, k) ==
  /\ Existing(w) = {k}
  /\ versions[k].write.key = w.key
  /\ RequestDigest(versions[k].write) = RequestDigest(w)

WriteAgain(w) ==
  \E k \in DOMAIN versions :
    /\ IdenticalRetry(w, k)
    /\ returned' = [returned EXCEPT ![w] = versions[k].version]
    /\ UNCHANGED <<versions, blobs>>

(* write: a new version behind the head, over a blob that may be there.    *)
NextRow(w) ==
  [write |-> w, version |-> HeadVersion(w) + 1,
   parent |-> IF HeadVersion(w) = 0 THEN Null ELSE HeadVersion(w)]

WriteFresh(w, head) ==
  /\ Existing(w) = {}
  /\ head \in {Null, HeadVersion(w)}
  /\ Len(versions) < MaxVersions
  /\ versions' = Append(versions, NextRow(w))
  /\ blobs' = blobs \cup {w.content}
  /\ returned' = [returned EXCEPT ![w] = HeadVersion(w) + 1]

ArtifactNext ==
  \E w \in Writes : WriteAgain(w) \/ \E head \in Heads : WriteFresh(w, head)

-----------------------------------------------------------------------------
(* verify_scope accepts every scope: versions of a name are contiguous,    *)
(* each over its parent and a stored blob (_validate_version_lineage).     *)
Lineage(scope, name) ==
  \A k \in RowsOfName(scope, name) :
    /\ versions[k].version = Cardinality({j \in RowsOfName(scope, name) : j <= k})
    /\ versions[k].parent =
         IF versions[k].version = 1 THEN Null ELSE versions[k].version - 1
    /\ versions[k].write.content \in blobs

(* Every version ever returned for a request is readable for good and is   *)
(* of that request, however its key was retried, with whatever artifact    *)
(* id, and a key or an artifact id names one version of its scope; every   *)
(* scope passes verify_scope (write, verify_scope).                        *)
VersionsHold ==
  /\ \A k \in DOMAIN versions :
       LET w == versions[k].write IN
       Lineage(w.scope, w.name) /\ Existing(w) = {k}
  /\ \A w \in Writes : returned[w] # 0 =>
       \E k \in RowsOfName(w.scope, w.name) :
         /\ versions[k].version = returned[w]
         /\ versions[k].write.key = w.key
         /\ RequestDigest(versions[k].write) = RequestDigest(w)
=============================================================================
