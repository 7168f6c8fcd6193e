------------------------------ MODULE Database ------------------------------
(***************************************************************************)
(* internal/database: the tables objects and repo_objects.  Every exported *)
(* function of *DB runs one transaction; here each transaction is a single *)
(* step, and one that returns an error (a rollback) is a step that does    *)
(* not happen.  Transactions has them statement by statement, and says     *)
(* where one step is enough: always while nothing unlinks, and without     *)
(* VerifyObject where an operator unlinks.                                 *)
(***************************************************************************)
EXTENDS LfsTypes

VARIABLES
    objects,        \* oid -> its row; Absent if there is none
    repoObjects     \* the pairs <<repo, oid>> linked in repo_objects

dbVars == <<objects, repoObjects>>

(***************************************************************************)
(* A row is pending (size, object_uri and verified_at all NULL) or         *)
(* verified (none of them NULL): the CHECK constraint that New adds.  Of   *)
(* created_at only "older than orphanAge" matters, and only to a pending   *)
(* row.                                                                    *)
(***************************************************************************)
Absent == [status |-> "absent", size |-> Null, uri |-> Null, aged |-> FALSE]

Pending(aged) ==
    [status |-> "pending", size |-> Null, uri |-> Null, aged |-> aged]

Verified(size, uri) ==
    [status |-> "verified", size |-> size, uri |-> uri, aged |-> FALSE]

Row == {Absent}
         \cup [status : {"pending"}, size : {Null}, uri : {Null}, aged : BOOLEAN]
         \cup [status : {"verified"}, size : Size, uri : Uri \cup {Ignored},
               aged : {FALSE}]

DbTypeOK ==
    /\ objects \in [Oid -> Row]
    /\ repoObjects \subseteq Repo \X Oid

DbInit ==
    /\ objects = [oid \in Oid |-> Absent]
    /\ repoObjects = {}

IsVerified(oid) == objects[oid].status = "verified"

-----------------------------------------------------------------------------
(***************************************************************************)
(* Queries.                                                                *)
(***************************************************************************)

\* GetRepoObject(s)ByOID(s) find a row: it is verified and linked to repo.
HasRepoObject(repo, oid) == <<repo, oid>> \in repoObjects /\ IsVerified(oid)

\* The verified rows among oids, as pairs <<oid, size>>.
GetObjectsByOIDs(oids) ==
    {<<oid, objects[oid].size>> : oid \in {o \in oids : IsVerified(o)}}

-----------------------------------------------------------------------------
(***************************************************************************)
(* Transactions.  The URI that LinkObject and VerifyObject return is       *)
(* objects'[oid].uri.                                                      *)
(***************************************************************************)

\* Faulty variant of Upserted: COALESCE with its arguments the other way round.
UpsertedNewestWins(oid, size, uri) == Verified(size, uri)

\* The row after an upsert: COALESCE keeps what a verified row already has.
Upserted(oid, size, uri) ==
    IF IsVerified(oid) THEN objects[oid] ELSE Verified(size, uri)

\* Faulty variant of LinkObject: no check of the size that the row has.
LinkAnySize(repo, oid, size, uri) ==
    /\ objects' = [objects EXCEPT ![oid] = Upserted(oid, size, uri)]
    /\ repoObjects' = repoObjects \cup {<<repo, oid>>}

LinkObject(repo, oid, size, uri) ==
    LET row == Upserted(oid, size, uri) IN
    /\ row.size = size
    /\ objects' = [objects EXCEPT ![oid] = row]
    /\ repoObjects' = repoObjects \cup {<<repo, oid>>}

\* Faulty variant of InsertPendingObject: the conflict clause resets the size.
InsertPendingResets(oid) ==
    /\ objects' = IF objects[oid] = Absent
                  THEN [objects EXCEPT ![oid] = Pending(FALSE)]
                  ELSE [objects EXCEPT ![oid].size = Null]
    /\ UNCHANGED repoObjects

InsertPendingObject(oid) ==
    /\ objects' = IF objects[oid] = Absent
                  THEN [objects EXCEPT ![oid] = Pending(FALSE)]
                  ELSE objects
    /\ UNCHANGED repoObjects

\* Faulty variant of VerifyObject: the update without verified_at IS NULL.
VerifyAnyRow(repo, oid, size, uri) ==
    /\ objects[oid] # Absent
    /\ objects' = [objects EXCEPT ![oid] = Verified(size, uri)]
    /\ repoObjects' = repoObjects \cup {<<repo, oid>>}

\* UPDATE ... WHERE verified_at IS NULL, then the checks on the reloaded row.
\* A verified row is reloaded without a lock: this is one step only as long as
\* no verified row can become unreferenced and be swept before the link is in.
VerifyObject(repo, oid, size, uri) ==
    LET row == IF objects[oid].status = "pending"
               THEN Verified(size, uri) ELSE objects[oid] IN
    /\ row # Absent
    /\ row.size = size
    /\ objects' = [objects EXCEPT ![oid] = row]
    /\ repoObjects' = repoObjects \cup {<<repo, oid>>}

\* Faulty variant of Orphan: the query without verified_at IS NULL.
OrphanAnyStatus(oid) == IsVerified(oid) \/ objects[oid].aged

Orphan(oid) == objects[oid].status = "pending" /\ objects[oid].aged

\* repo_count = 0 in a verified row.
Unreferenced(oid) ==
    IsVerified(oid) /\ \A repo \in Repo : <<repo, oid>> \notin repoObjects

\* DELETE FROM objects: repo_objects is left alone.
DeleteRows(oids) ==
    /\ objects' = [oid \in Oid |-> IF oid \in oids THEN Absent ELSE objects[oid]]
    /\ UNCHANGED repoObjects

(***************************************************************************)
(* A sweep may take any set of matching rows: LIMIT cuts the selection off *)
(* and SKIP LOCKED passes over a row that another transaction holds.       *)
(***************************************************************************)
SweepOrphanObjects(oids) ==
    /\ \A oid \in oids : Orphan(oid)
    /\ DeleteRows(oids)

SweepUnreferencedObjects(oids) ==
    /\ \A oid \in oids : Unreferenced(oid)
    /\ DeleteRows(oids)

-----------------------------------------------------------------------------
(***************************************************************************)
(* What happens to the tables from outside the server.                     *)
(***************************************************************************)

\* orphanAge has passed since the pending row was created.
Age(oid) ==
    /\ objects[oid].status = "pending"
    /\ objects' = [objects EXCEPT ![oid] = Pending(TRUE)]
    /\ UNCHANGED repoObjects

\* An operator takes an object out of a repository; nothing under src/ does.
Unlink(repo, oid) ==
    /\ <<repo, oid>> \in repoObjects
    /\ repoObjects' = repoObjects \ {<<repo, oid>>}
    /\ UNCHANGED objects

-----------------------------------------------------------------------------
(***************************************************************************)
(* The tables on their own: what the callers of *DB may rely on, whatever  *)
(* order they call it in.                                                  *)
(***************************************************************************)
DbNext ==
    \/ \E repo \in Repo, oid \in Oid, size \in Size :
            \/ \E uri \in Uri \cup {Ignored} : LinkObject(repo, oid, size, uri)
            \/ \E uri \in Uri : VerifyObject(repo, oid, size, uri)
    \/ \E oid \in Oid : InsertPendingObject(oid) \/ Age(oid)
    \/ \E oids \in SUBSET Oid :
            SweepOrphanObjects(oids) \/ SweepUnreferencedObjects(oids)

DbSpec == DbInit /\ [][DbNext]_dbVars

\* With an operator.  It bounds what the tables do without VerifyObject; with it,
\* an operator can make them do more (run relink of Transactions).
DbOperatorSpec ==
    DbInit /\ [][DbNext \/ \E repo \in Repo, oid \in Oid : Unlink(repo, oid)]_dbVars
=============================================================================
