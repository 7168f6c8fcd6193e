---------------------------- MODULE Transactions ----------------------------
(***************************************************************************)
(* The statements inside the transactions of internal/database, at the     *)
(* isolation level they run at, PostgreSQL's READ COMMITTED: a statement   *)
(* sees what was committed when it began and what its own transaction      *)
(* wrote; a row that a transaction has written or locked is locked until   *)
(* it ends; a writer waits for the lock and then looks at the row again.   *)
(* A step that waits is one that is not enabled.                           *)
(*                                                                         *)
(* Database is what all of this promises to the rest of the server.        *)
(***************************************************************************)
EXTENDS LfsTypes, FiniteSets

CONSTANTS
    Tx,         \* the LinkObject and VerifyObject calls that may run at once
    Instance,   \* the janitors, which run one sweep at a time each
    RowId,      \* values of objects.id
    NoId,       \* stands for the id of a row that does not exist
    Presigning  \* some backend is a Presigner, so VerifyObject is called

ASSUME TxAssumption == NoId \notin RowId /\ Presigning \in BOOLEAN

VARIABLES
    objects,    \* committed: oid -> its row, as in Database
    rowId,      \* committed: oid -> the id of its row
    repoCount,  \* committed: oid -> repo_count of its row, 0 if there is none
    links,      \* committed: the pairs <<repo_name, object_id>> of repo_objects
    txn,        \* the running LinkObject and VerifyObject transactions
    sweeping    \* the rows that each janitor's transaction has selected

vars == <<objects, rowId, repoCount, links, txn, sweeping>>

tables == <<objects, rowId, repoCount, links>>

\* The repositories' objects, by oid.
LinkedPairs == {pair \in Repo \X Oid : <<pair[1], rowId[pair[2]]>> \in links}

\* The tables as the rest of the server sees them.
Db == INSTANCE Database WITH repoObjects <- LinkedPairs

(***************************************************************************)
(* A transaction: the call's arguments, and what it has done so far.  Its  *)
(* version of the row is row (Absent until it writes one), with id and the *)
(* repo_count that it wrote (0 until it does).  Once it knows the row, uri *)
(* is the URI that it will return.                                         *)
(***************************************************************************)
NoTx == [pc |-> "none", op |-> "link", repo |-> Null, oid |-> Null, size |-> Null,
         uri |-> Null, id |-> NoId, locked |-> FALSE, row |-> Db!Absent,
         link |-> FALSE, count |-> 0]

Running ==
    [pc : {"upsert", "update", "lock", "reload", "insert", "count", "write", "commit"},
     op : {"link", "verify"}, repo : Repo, oid : Oid, size : Size,
     uri : Uri \cup {Ignored}, id : RowId \cup {NoId}, locked : BOOLEAN,
     row : Db!Row, link : BOOLEAN, count : Nat]

NoSweep == [query |-> "none", oids |-> {}]

TypeOK ==
    /\ objects \in [Oid -> Db!Row]
    /\ rowId \in [Oid -> RowId \cup {NoId}]
    /\ repoCount \in [Oid -> Nat]
    /\ links \subseteq Repo \X RowId
    /\ txn \in [Tx -> {NoTx} \cup Running]
    /\ sweeping \in [Instance -> [query : {"none", "orphan", "unreferenced"},
                                  oids : SUBSET Oid]]

Init ==
    /\ objects = [oid \in Oid |-> Db!Absent]
    /\ rowId = [oid \in Oid |-> NoId]
    /\ repoCount = [oid \in Oid |-> 0]
    /\ links = {}
    /\ txn = [t \in Tx |-> NoTx]
    /\ sweeping = [j \in Instance |-> NoSweep]

At(t, pc) == txn[t].pc = pc

Becomes(t, state) == txn' = [txn EXCEPT ![t] = state]

\* t has the lock of its row, or is inserting it.
Holds(t, oid) == txn[t].locked /\ txn[t].oid = oid

Swept(oid) == \E j \in Instance : oid \in sweeping[j].oids

\* Nobody but t has written or locked the row of oid, or is inserting one.
FreeFor(t, oid) == ~Swept(oid) /\ \A u \in Tx \ {t} : ~Holds(u, oid)

Unlocked(oid) == ~Swept(oid) /\ \A u \in Tx : ~Holds(u, oid)

\* The next value of the sequence: an id that nothing refers to.
FreshId ==
    RowId \ ({rowId[oid] : oid \in Oid} \cup {link[2] : link \in links}
                \cup {txn[t].id : t \in Tx})

Linked(id) == {link \in links : link[2] = id}

-----------------------------------------------------------------------------
(***************************************************************************)
(* LinkObject and VerifyObject begin.                                      *)
(***************************************************************************)
Begin(t, op, pc, repo, oid, size, uri) ==
    /\ txn[t] = NoTx
    /\ Becomes(t, [NoTx EXCEPT !.pc = pc, !.op = op, !.repo = repo, !.oid = oid,
                               !.size = size, !.uri = uri])
    /\ UNCHANGED <<tables, sweeping>>

LinkObject(t, repo, oid, size, uri) ==
    Begin(t, "link", "upsert", repo, oid, size, uri)

VerifyObject(t, repo, oid, size, uri) ==
    /\ Presigning
    /\ Begin(t, "verify", "update", repo, oid, size, uri)

\* An error, a lost connection, the victim of the deadlock detector: all that
\* the transaction did is undone.
Rollback(t) ==
    /\ txn[t] # NoTx
    /\ Becomes(t, NoTx)
    /\ UNCHANGED <<tables, sweeping>>

\* Faulty variant of Upsert: object_uri is left for a later statement to set.
UpsertForgetsURI(t) ==
    LET oid == txn[t].oid IN
    /\ At(t, "upsert")
    /\ FreeFor(t, oid)
    /\ \E id \in IF rowId[oid] = NoId THEN FreshId ELSE {rowId[oid]} :
          Becomes(t, [txn[t] EXCEPT !.pc = "insert", !.locked = TRUE, !.id = id,
                                    !.row = Db!Verified(txn[t].size, Null)])
    /\ UNCHANGED <<tables, sweeping>>

\* Faulty variant of Upsert: the URI of this upload is returned, not the row's.
UpsertReturnsClaim(t) ==
    LET oid == txn[t].oid
        row == Db!Upserted(oid, txn[t].size, txn[t].uri)
    IN  /\ At(t, "upsert")
        /\ FreeFor(t, oid)
        /\ row.size = txn[t].size
        /\ \E id \in IF rowId[oid] = NoId THEN FreshId ELSE {rowId[oid]} :
              Becomes(t, [txn[t] EXCEPT !.pc = "insert", !.locked = TRUE,
                                        !.row = row, !.id = id])
        /\ UNCHANGED <<tables, sweeping>>

\* Faulty variant of Upsert: DO NOTHING and a SELECT, so that a verified row
\* that somebody else has locked is read without waiting for it.
UpsertDoesNotWait(t) ==
    LET oid == txn[t].oid
        row == Db!Upserted(oid, txn[t].size, txn[t].uri)
    IN  /\ At(t, "upsert")
        /\ FreeFor(t, oid) \/ Db!IsVerified(oid)
        /\ row.size = txn[t].size
        /\ \E id \in IF rowId[oid] = NoId THEN FreshId ELSE {rowId[oid]} :
              Becomes(t, [txn[t] EXCEPT !.pc = "insert", !.locked = FreeFor(t, oid),
                            !.row = IF FreeFor(t, oid) THEN row ELSE Db!Absent,
                            !.uri = row.uri, !.id = id])
        /\ UNCHANGED <<tables, sweeping>>

(***************************************************************************)
(* INSERT INTO objects ... ON CONFLICT (oid) DO UPDATE: it waits for the   *)
(* row's lock, or for whoever is inserting the row, and holds the lock to  *)
(* the end.                                                                *)
(***************************************************************************)
Upsert(t) ==
    LET oid == txn[t].oid
        row == Db!Upserted(oid, txn[t].size, txn[t].uri)
    IN  /\ At(t, "upsert")
        /\ FreeFor(t, oid)
        /\ row.size = txn[t].size
        /\ \E id \in IF rowId[oid] = NoId THEN FreshId ELSE {rowId[oid]} :
              Becomes(t, [txn[t] EXCEPT !.pc = "insert", !.locked = TRUE,
                                        !.row = row, !.uri = row.uri, !.id = id])
        /\ UNCHANGED <<tables, sweeping>>

(***************************************************************************)
(* UPDATE objects ... WHERE oid = @oid AND verified_at IS NULL.  A row     *)
(* that is not pending when the statement begins is not locked.            *)
(***************************************************************************)
Update(t) ==
    LET oid == txn[t].oid IN
    /\ At(t, "update")
    /\ Becomes(t, IF objects[oid].status = "pending"
                  THEN [txn[t] EXCEPT !.pc = "lock", !.id = rowId[oid]]
                  ELSE [txn[t] EXCEPT !.pc = "reload"])
    /\ UNCHANGED <<tables, sweeping>>

\* The row was pending.  It may be gone now, or verified, and is then locked
\* but not written.
UpdateRow(t) ==
    LET oid == txn[t].oid IN
    /\ At(t, "lock")
    /\ \/ /\ rowId[oid] = txn[t].id
          /\ FreeFor(t, oid)
          /\ Becomes(t, [txn[t] EXCEPT !.pc = "reload", !.locked = TRUE,
                            !.row = IF objects[oid].status = "pending"
                                    THEN Db!Verified(txn[t].size, txn[t].uri)
                                    ELSE Db!Absent])
       \/ /\ rowId[oid] # txn[t].id
          /\ Becomes(t, [txn[t] EXCEPT !.pc = "reload"])
    /\ UNCHANGED <<tables, sweeping>>

\* SELECT * FROM objects WHERE oid = @oid: its own version or the committed one.
Reload(t) ==
    LET oid == txn[t].oid
        row == IF txn[t].row = Db!Absent THEN objects[oid] ELSE txn[t].row
    IN  /\ At(t, "reload")
        /\ row.status = "verified"
        /\ row.size = txn[t].size
        /\ Becomes(t, [txn[t] EXCEPT !.pc = "insert", !.uri = row.uri,
                                     !.id = rowId[oid]])
        /\ UNCHANGED <<tables, sweeping>>

(***************************************************************************)
(* INSERT INTO repo_objects ... ON CONFLICT DO NOTHING: it waits for a     *)
(* transaction that is inserting the same pair.                            *)
(***************************************************************************)
InsertLink(t) ==
    /\ At(t, "insert")
    /\ \/ /\ <<txn[t].repo, txn[t].id>> \in links
          /\ Becomes(t, [txn[t] EXCEPT !.pc = "commit"])
       \/ /\ <<txn[t].repo, txn[t].id>> \notin links
          /\ \A u \in Tx \ {t} :
                ~(txn[u].link /\ txn[u].repo = txn[t].repo /\ txn[u].id = txn[t].id)
          /\ Becomes(t, [txn[t] EXCEPT !.pc = "count", !.link = TRUE])
    /\ UNCHANGED <<tables, sweeping>>

\* UPDATE objects SET repo_count = (SELECT COUNT(*) ...): the count is taken
\* when the statement begins, before it waits for the row.
CountLinks(t) ==
    /\ At(t, "count")
    /\ Becomes(t, [txn[t] EXCEPT !.pc = "write",
                      !.count = Cardinality(Linked(txn[t].id)) + 1])
    /\ UNCHANGED <<tables, sweeping>>

WriteCount(t) ==
    LET oid == txn[t].oid IN
    /\ At(t, "write")
    /\ \/ /\ txn[t].locked \/ (rowId[oid] = txn[t].id /\ FreeFor(t, oid))
          /\ Becomes(t, [txn[t] EXCEPT !.pc = "commit", !.locked = TRUE])
       \/ /\ ~txn[t].locked /\ rowId[oid] # txn[t].id
          /\ Becomes(t, [txn[t] EXCEPT !.pc = "commit", !.count = 0])
    /\ UNCHANGED <<tables, sweeping>>

Commit(t) ==
    LET oid == txn[t].oid IN
    /\ At(t, "commit")
    /\ IF txn[t].row = Db!Absent THEN UNCHANGED <<objects, rowId>>
       ELSE /\ objects' = [objects EXCEPT ![oid] = txn[t].row]
            /\ rowId' = [rowId EXCEPT ![oid] = txn[t].id]
    /\ repoCount' = IF txn[t].count = 0 THEN repoCount
                    ELSE [repoCount EXCEPT ![oid] = txn[t].count]
    /\ links' = IF txn[t].link THEN links \cup {<<txn[t].repo, txn[t].id>>} ELSE links
    /\ Becomes(t, NoTx)
    /\ UNCHANGED sweeping

-----------------------------------------------------------------------------
\* InsertPendingObject is one statement; it waits for whoever inserts the row.
InsertPendingObject(oid) ==
    /\ Presigning
    /\ objects[oid] = Db!Absent
    /\ Unlocked(oid)
    /\ \E id \in FreshId : rowId' = [rowId EXCEPT ![oid] = id]
    /\ objects' = [objects EXCEPT ![oid] = Db!Pending(FALSE)]
    /\ UNCHANGED <<repoCount, links, txn, sweeping>>

\* Faulty variant of Select: without FOR UPDATE SKIP LOCKED.
SelectUnlocked(j, query, oids) ==
    /\ sweeping[j] = NoSweep
    /\ oids # {}
    /\ sweeping' = [sweeping EXCEPT ![j] = [query |-> query, oids |-> oids]]
    /\ UNCHANGED <<tables, txn>>

(***************************************************************************)
(* The sweeps: SELECT ... FOR UPDATE SKIP LOCKED, then DELETE and commit.  *)
(***************************************************************************)
Select(j, query, oids) ==
    /\ sweeping[j] = NoSweep
    /\ oids # {}
    /\ \A oid \in oids : Unlocked(oid)
    /\ sweeping' = [sweeping EXCEPT ![j] = [query |-> query, oids |-> oids]]
    /\ UNCHANGED <<tables, txn>>

SweepOrphanObjects(j, oids) ==
    /\ \A oid \in oids : Db!Orphan(oid)
    /\ Select(j, "orphan", oids)

SweepUnreferencedObjects(j, oids) ==
    /\ \A oid \in oids : Db!IsVerified(oid) /\ repoCount[oid] = 0
    /\ Select(j, "unreferenced", oids)

DeleteRows(j) ==
    LET gone == sweeping[j].oids IN
    /\ sweeping[j] # NoSweep
    /\ objects' = [oid \in Oid |-> IF oid \in gone THEN Db!Absent ELSE objects[oid]]
    /\ rowId' = [oid \in Oid |-> IF oid \in gone THEN NoId ELSE rowId[oid]]
    /\ repoCount' = [oid \in Oid |-> IF oid \in gone THEN 0 ELSE repoCount[oid]]
    /\ sweeping' = [sweeping EXCEPT ![j] = NoSweep]
    /\ UNCHANGED <<links, txn>>

SweepRollback(j) ==
    /\ sweeping[j] # NoSweep
    /\ sweeping' = [sweeping EXCEPT ![j] = NoSweep]
    /\ UNCHANGED <<tables, txn>>

\* orphanAge has passed since the pending row was created.
Age(oid) ==
    /\ objects[oid].status = "pending"
    /\ objects' = [objects EXCEPT ![oid] = Db!Pending(TRUE)]
    /\ UNCHANGED <<rowId, repoCount, links, txn, sweeping>>

\* The location that the handlers pass for an object of repo.
CallURI(repo, oid) == URI(StorageOf[repo], oid)

TxNext(t) ==
    \/ \E repo \in Repo, oid \in Oid, size \in Size :
          \/ \E uri \in {CallURI(repo, oid), Ignored} : LinkObject(t, repo, oid, size, uri)
          \/ VerifyObject(t, repo, oid, size, CallURI(repo, oid))
    \/ Upsert(t) \/ Update(t) \/ UpdateRow(t) \/ Reload(t)
    \/ InsertLink(t) \/ CountLinks(t) \/ WriteCount(t) \/ Commit(t) \/ Rollback(t)

SweepNext(j) ==
    \/ \E oids \in SUBSET Oid :
          SweepOrphanObjects(j, oids) \/ SweepUnreferencedObjects(j, oids)
    \/ DeleteRows(j) \/ SweepRollback(j)

Next ==
    \/ \E t \in Tx : TxNext(t)
    \/ \E j \in Instance : SweepNext(j)
    \/ \E oid \in Oid : InsertPendingObject(oid) \/ Age(oid)

Spec == Init /\ [][Next]_vars

(***************************************************************************)
(* An operator takes an object out of a repository, with the care that     *)
(* LinkObject takes: the row is locked first and repo_count set from a     *)
(* count of what is left.                                                  *)
(***************************************************************************)
Unlink(repo, oid) ==
    /\ <<repo, rowId[oid]>> \in links
    /\ Unlocked(oid)
    /\ links' = links \ {<<repo, rowId[oid]>>}
    /\ repoCount' = [repoCount EXCEPT ![oid] = Cardinality(Linked(rowId[oid])) - 1]
    /\ UNCHANGED <<objects, rowId, txn, sweeping>>

OperatorSpec == Init /\ [][Next \/ \E repo \in Repo, oid \in Oid : Unlink(repo, oid)]_vars

-----------------------------------------------------------------------------
(***************************************************************************)
(* Properties.                                                             *)
(***************************************************************************)

(***************************************************************************)
(* Every interleaving of the statements of LinkObject, VerifyObject,       *)
(* InsertPendingObject and the sweeps has the effect of the same calls one *)
(* after another: each commit is one step of Database.                     *)
(***************************************************************************)
DatabaseSpec == Db!DbSpec

\* The same where an operator unlinks objects.
DatabaseOperatorSpec == Db!DbOperatorSpec

(***************************************************************************)
(* objects.go:306-310: a repository that is linked again while a sweep is  *)
(* deleting the row is linked to a row that is still there.                *)
(***************************************************************************)
LinkedRowExists ==
    \A link \in links : \E oid \in Oid : rowId[oid] = link[2] /\ Db!IsVerified(oid)

(***************************************************************************)
(* repo_count, from which the janitor decides that nobody needs a verified *)
(* object, is the number of repositories linked to it, after any           *)
(* interleaving of the transactions that write it.                         *)
(***************************************************************************)
CountIsTrue ==
    \A oid \in Oid : Db!IsVerified(oid) => repoCount[oid] = Cardinality(Linked(rowId[oid]))

(***************************************************************************)
(* The URI that LinkObject or VerifyObject is about to return, and by      *)
(* which its caller decides whether to delete the bytes of its own upload, *)
(* is the one in the row from its commit on.                               *)
(***************************************************************************)
ReturnedIsStored ==
    \A t \in Tx : At(t, "commit") =>
        txn[t].uri = (IF txn[t].row = Db!Absent THEN objects[txn[t].oid] ELSE txn[t].row).uri

\* t waits for a lock that u holds, or for a pair that u is inserting.
WaitsFor(t, u) ==
    /\ t # u
    /\ \/ At(t, "upsert") /\ Holds(u, txn[t].oid)
       \/ /\ At(t, "lock") \/ (At(t, "write") /\ ~txn[t].locked)
          /\ rowId[txn[t].oid] = txn[t].id
          /\ Holds(u, txn[t].oid)
       \/ /\ At(t, "insert") /\ txn[u].link
          /\ txn[u].repo = txn[t].repo /\ txn[u].id = txn[t].id

\* Transactions that all wait for one another.
Deadlock(ts) == ts # {} /\ \A t \in ts : \E u \in ts : WaitsFor(t, u)

\* Link transactions and sweeps take their locks in one order and never
\* deadlock: in every deadlock there is a VerifyObject.
DeadlockHasVerify ==
    \A ts \in SUBSET Tx : Deadlock(ts) => \E t \in ts : txn[t].op = "verify"

\* Without VerifyObject there is no deadlock at all.
NoDeadlock == \A ts \in SUBSET Tx : ~Deadlock(ts)
=============================================================================
