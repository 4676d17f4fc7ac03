------------------------------- MODULE Backup -------------------------------
(***************************************************************************)
(* Backup and restore of a database file (backup.py) while its writers go  *)
(* on committing.  create_sqlite_backup copies the file online, publishes  *)
(* the copy and then its manifest under their final names, by links that   *)
(* never overwrite, and verifies both; restore_sqlite_backup publishes a   *)
(* verified copy under a new name.  Calls on the same names may overlap,   *)
(* raise or die anywhere, and an operator may remove any of the files.     *)
(*                                                                         *)
(* The file is the artifact store's.  A call recognises the files it made  *)
(* by their inodes, so an entry of a directory is the call that made the   *)
(* inode, and what the inode holds; a manifest holds what its digest,      *)
(* geometry and counts were taken of.  Temporary files have names of their *)
(* own: a call keeps what its file holds, and its death leaves litter that *)
(* no call reads.                                                          *)
(***************************************************************************)
EXTENDS ArtifactStore, SequencesExt

CONSTANTS
  Creates,   \* calls of create_sqlite_backup for one pair of names
  Restores   \* calls of restore_sqlite_backup to one destination

(* A call is of one of the two functions, and Python's None is no entry of *)
(* a directory.                                                            *)
ASSUME CallsAssumption ==
  /\ Creates \cap Restores = {}
  /\ Null \notin [call : Creates \cup Restores, holds : Seq(VersionRow)]

VARIABLES
  entry,    \* the final names: Null, or [call, holds]
  call,     \* the step of each call, its temporary file and what it opened
  removed,  \* history: the calls that lost a file to the operator
  exposed   \* history: the calls that linked a name another was about to unlink

backupVars == <<entry, call, removed, exposed>>
storageVars == <<artifactVars, backupVars>>

-----------------------------------------------------------------------------
Names == {"copy", "manifest", "destination"}
Calls == Creates \cup Restores

Entry == [call : Calls, holds : Seq(VersionRow)]

(* The step of a call that has found its own file under a name and is      *)
(* about to unlink the name.                                               *)
Unlinking ==
  [n \in Names |-> CASE n = "copy" -> "unlinking_copy"
                     [] n = "manifest" -> "unlinking_manifest"
                     [] n = "destination" -> "unlinking_destination"]

CallSteps ==
  {"new", "copied", "linked", "published", "undoing", "returned", "over",
   "unlinking_copy", "unlinking_manifest", "unlinking_destination"}

CallState ==
  [step : CallSteps, holds : Seq(VersionRow), opened : Creates \X Creates \cup {Null}]

New == [step |-> "new", holds |-> <<>>, opened |-> Null]

StorageTypeOK ==
  /\ ArtifactTypeOK
  /\ entry \in [Names -> Entry \cup {Null}]
  /\ call \in [Calls -> CallState]
  /\ removed \subseteq Calls
  /\ exposed \subseteq Calls

StorageInit ==
  /\ ArtifactInit
  /\ entry = [n \in Names |-> Null]
  /\ call = [b \in Calls |-> New]
  /\ removed = {}
  /\ exposed = {}

Owns(b, n) == entry[n] # Null /\ entry[n].call = b

Moves(b, step) == call' = [call EXCEPT ![b].step = step]

(* A call that is undone needs nothing but its step any more.              *)
Undoes(b, step) == call' = [call EXCEPT ![b] = [New EXCEPT !.step = step]]

(* os.link fails on a name that exists.                                    *)
Link(b, n) ==
  /\ entry[n] = Null
  /\ entry' = [entry EXCEPT ![n] = [call |-> b, holds |-> call[b].holds]]
  /\ exposed' = IF \E c \in Calls : call[c].step = Unlinking[n]
                THEN exposed \cup {b} ELSE exposed
  /\ UNCHANGED removed

(* Mutant: whoever made the file under the name, the name is unlinked. *)
UnlinkAnything(b, n, after) == Undoes(b, Unlinking[n])

(* _unlink_owned_entry: first the identity of the entry is read and        *)
(* compared; then the name is unlinked, whatever file it has by then.      *)
UnlinkOwned(b, n, after) ==
  Undoes(b, IF Owns(b, n) THEN Unlinking[n] ELSE after)

Unlink(b, n, after) ==
  /\ call[b].step = Unlinking[n]
  /\ entry' = [entry EXCEPT ![n] = Null]
  /\ Undoes(b, after)
  /\ UNCHANGED <<removed, exposed>>

(* verify_sqlite_backup: the manifest under its name is of the copy under  *)
(* its name.                                                               *)
Verified ==
  /\ entry["copy"] # Null /\ entry["manifest"] # Null
  /\ entry["copy"].holds = entry["manifest"].holds

-----------------------------------------------------------------------------
(* create_sqlite_backup.  The online copy restarts when a writer commits,  *)
(* and ends as the state of the file at one instant.                       *)
CopyDatabase(b) ==
  /\ call[b].step = "new"
  /\ entry["copy"] = Null /\ entry["manifest"] = Null
  /\ call' = [call EXCEPT ![b].step = "copied", ![b].holds = versions]
  /\ UNCHANGED <<entry, removed, exposed>>

LinkCopy(b) ==
  /\ call[b].step = "copied"
  /\ Link(b, "copy")
  /\ Moves(b, "linked")

LinkManifest(b) ==
  /\ call[b].step = "linked"
  /\ Owns(b, "copy")
  /\ Link(b, "manifest")
  /\ Moves(b, "published")

ReturnManifest(b) ==
  /\ call[b].step = "published"
  /\ Verified
  /\ Owns(b, "copy") /\ Owns(b, "manifest")
  /\ Moves(b, "returned")
  /\ UNCHANGED <<entry, removed, exposed>>

(* Anything that raises, a check above that fails included, unlinks what   *)
(* the call linked, the manifest first.                                    *)
UndoCreate(b) ==
  \/ /\ \/ call[b].step = "copied" /\ Undoes(b, "over")
        \/ call[b].step = "published" /\ UnlinkOwned(b, "manifest", "undoing")
        \/ call[b].step \in {"linked", "undoing"} /\ UnlinkOwned(b, "copy", "over")
     /\ UNCHANGED <<entry, removed, exposed>>
  \/ Unlink(b, "manifest", "undoing")
  \/ Unlink(b, "copy", "over")

-----------------------------------------------------------------------------
(* restore_sqlite_backup works on the two files it opened.                 *)
OpenBackup(r) ==
  /\ call[r].step = "new"
  /\ entry["destination"] = Null
  /\ Verified
  /\ call' = [call EXCEPT
       ![r] = [step |-> "copied", holds |-> entry["copy"].holds,
               opened |-> <<entry["copy"].call, entry["manifest"].call>>]]
  /\ UNCHANGED <<entry, removed, exposed>>

StillOpened(r) ==
  Owns(call[r].opened[1], "copy") /\ Owns(call[r].opened[2], "manifest")

LinkDestination(r) ==
  /\ call[r].step = "copied"
  /\ StillOpened(r)
  /\ Link(r, "destination")
  /\ Moves(r, "linked")

ReturnRestored(r) ==
  /\ call[r].step = "linked"
  /\ StillOpened(r) /\ Owns(r, "destination")
  /\ call' = [call EXCEPT ![r].step = "returned", ![r].opened = Null]
  /\ UNCHANGED <<entry, removed, exposed>>

UndoRestore(r) ==
  \/ /\ \/ call[r].step = "copied" /\ Undoes(r, "over")
        \/ call[r].step = "linked" /\ UnlinkOwned(r, "destination", "over")
     /\ UNCHANGED <<entry, removed, exposed>>
  \/ Unlink(r, "destination", "over")

-----------------------------------------------------------------------------
(* A process dies with its call: what it linked stays, as it does when a   *)
(* signal arrives between a link and the flag that remembers it.           *)
Die(b) ==
  /\ call[b].step \notin {"new", "returned", "over"}
  /\ Undoes(b, "over")
  /\ UNCHANGED <<entry, removed, exposed>>

RemoveFile(n) ==
  /\ entry[n] # Null
  /\ entry' = [entry EXCEPT ![n] = Null]
  /\ removed' = removed \cup {entry[n].call}
  /\ UNCHANGED <<call, exposed>>

BackupNext ==
  \/ \E b \in Creates : \/ CopyDatabase(b) \/ LinkCopy(b) \/ LinkManifest(b)
                        \/ ReturnManifest(b) \/ UndoCreate(b)
  \/ \E r \in Restores : \/ OpenBackup(r) \/ LinkDestination(r)
                         \/ ReturnRestored(r) \/ UndoRestore(r)
  \/ \E b \in Calls : Die(b)
  \/ \E n \in Names : RemoveFile(n)

StorageNext ==
  \/ ArtifactNext /\ UNCHANGED backupVars
  \/ BackupNext /\ UNCHANGED artifactVars

-----------------------------------------------------------------------------
(* A backup and a restored file that were reported are there until the     *)
(* operator removes them: no other call, racing, failing or dying on the   *)
(* same names, unlinks or replaces them.  The exception is a file linked   *)
(* under a name that another call, having found its own file there, was    *)
(* about to unlink: that takes an operator who removed the other's file in *)
(* between, which is why the directories must be the caller's own.  What   *)
(* verifies, or was restored, is a state the database had; and what is     *)
(* left of a call that died between its links never verifies               *)
(* (create_sqlite_backup, verify_sqlite_backup, restore_sqlite_backup,     *)
(* _unlink_owned_entry).                                                   *)
BackupsHold ==
  /\ \A b \in Creates : call[b].step = "returned" /\ b \notin removed \cup exposed =>
       Owns(b, "copy") /\ Owns(b, "manifest") /\ Verified
  /\ \A r \in Restores : call[r].step = "returned" /\ r \notin removed \cup exposed =>
       Owns(r, "destination")
  /\ Verified => IsPrefix(entry["copy"].holds, versions)
  /\ removed = {} =>
       /\ exposed = {}
       /\ Verified => entry["copy"].call = entry["manifest"].call
=============================================================================
