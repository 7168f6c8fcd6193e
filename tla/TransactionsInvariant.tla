------------------------ MODULE TransactionsInvariant ------------------------
(***************************************************************************)
(* Why the statements of Transactions add up to the steps of Database: the *)
(* inductive invariant, in named parts.                                    *)
(***************************************************************************)
EXTENDS Transactions

\* A row has an id exactly if it exists, and no two rows have the same.
RowIds ==
    /\ \A oid \in Oid : rowId[oid] = NoId <=> objects[oid] = Db!Absent
    /\ \A o, oid \in Oid : rowId[o] = rowId[oid] /\ rowId[o] # NoId => o = oid

\* A row has one lock, and a transaction or a janitor holds it.
LocksExclude ==
    /\ \A t, u \in Tx : txn[t].locked /\ txn[u].locked /\ txn[t].oid = txn[u].oid => t = u
    /\ \A t \in Tx : txn[t].locked => ~Swept(txn[t].oid)
    /\ \A i, j \in Instance : sweeping[i].oids \cap sweeping[j].oids # {} => i = j

\* What a sweep selected still qualifies.
SelectionHolds(j) ==
    /\ sweeping[j].query = "none" => sweeping[j].oids = {}
    /\ sweeping[j].query = "orphan" => \A oid \in sweeping[j].oids : Db!Orphan(oid)
    /\ sweeping[j].query = "unreferenced" =>
            \A oid \in sweeping[j].oids : Db!IsVerified(oid) /\ repoCount[oid] = 0

\* The id of t's row is not in use by anything else.
OwnId(t) ==
    /\ txn[t].id # NoId
    /\ \A oid \in Oid : rowId[oid] # txn[t].id
    /\ \A link \in links : link[2] # txn[t].id
    /\ \A u \in Tx \ {t} : txn[u].id # txn[t].id

\* t has written its row, and the row that is committed has not moved since.
WroteRow(t) ==
    LET oid == txn[t].oid IN
    /\ txn[t].locked
    /\ txn[t].row.status = "verified"
    /\ txn[t].row.size = txn[t].size
    /\ txn[t].row.uri = txn[t].uri
    /\ objects[oid].status = "verified" => objects[oid] = txn[t].row
    /\ objects[oid] # Db!Absent => rowId[oid] = txn[t].id
    /\ objects[oid] = Db!Absent => OwnId(t)
    /\ txn[t].op = "verify" => objects[oid].status = "pending"

\* t has read a verified row, and the row is still there as it was.
ReadRow(t) ==
    /\ txn[t].op = "verify"
    /\ objects[txn[t].oid].status = "verified"
    /\ objects[txn[t].oid].size = txn[t].size
    /\ objects[txn[t].oid].uri = txn[t].uri
    /\ rowId[txn[t].oid] = txn[t].id

Knows(t) == txn[t].pc \in {"insert", "count", "write", "commit"}

\* Where t is, and what it has done on the way there.
TxHolds(t) ==
    /\ At(t, "upsert") => txn[t].op = "link"
    /\ txn[t].pc \in {"update", "lock", "reload"} => txn[t].op = "verify"
    /\ txn[t].pc \in {"none", "upsert", "update", "lock"} =>
            ~txn[t].locked /\ txn[t].row = Db!Absent
    /\ txn[t].op = "verify" /\ (txn[t].pc \in {"update", "lock"} \/ txn[t].row # Db!Absent) =>
            txn[t].uri \in Uri
    /\ At(t, "reload") /\ txn[t].row # Db!Absent => WroteRow(t)
    /\ Knows(t) /\ txn[t].row # Db!Absent => WroteRow(t)
    /\ Knows(t) /\ txn[t].row = Db!Absent => ReadRow(t)
    /\ txn[t].link <=> txn[t].pc \in {"count", "write"} \/ (At(t, "commit") /\ txn[t].count > 0)
    /\ At(t, "write") => txn[t].count > 0
    /\ At(t, "commit") /\ txn[t].count > 0 => txn[t].locked
    /\ txn[t].count > 0 => txn[t].pc \in {"write", "commit"}
    /\ At(t, "commit") /\ ~txn[t].link => <<txn[t].repo, txn[t].id>> \in links

IInv ==
    /\ TypeOK
    /\ RowIds
    /\ LinkedRowExists
    /\ IsFiniteSet(links)
    /\ LocksExclude
    /\ \A j \in Instance : SelectionHolds(j)
    /\ \A t \in Tx : TxHolds(t)

\* No sweep is about to delete a row that is linked, or that a transaction has
\* read without locking it.
DeletesSafely ==
    \A j \in Instance : \A oid \in sweeping[j].oids :
        /\ \A link \in links : link[2] # rowId[oid]
        /\ \A t \in Tx : Knows(t) /\ txn[t].oid = oid => txn[t].row # Db!Absent

(***************************************************************************)
(* Where nothing removes links, a verified row has a repo_count of at      *)
(* least one, true or not: the transaction that verified the row counted   *)
(* its own link.                                                           *)
(***************************************************************************)
CountIsPositive == \A oid \in Oid : Db!IsVerified(oid) => repoCount[oid] > 0

\* What t has inserted and counted is still so.
CountsRightly(t) ==
    /\ txn[t].op = "link"
    /\ txn[t].link => <<txn[t].repo, txn[t].id>> \notin links
    /\ txn[t].count > 0 => txn[t].count = Cardinality(Linked(txn[t].id)) + 1

(***************************************************************************)
(* Where VerifyObject is never called, every link is inserted and counted  *)
(* under the lock of its row.                                              *)
(***************************************************************************)
FilesHold ==
    /\ \A oid \in Oid : objects[oid].status # "pending"
    /\ \A oid \in Oid : objects[oid] = Db!Absent => repoCount[oid] = 0
    /\ CountIsTrue
    /\ \A t \in Tx : CountsRightly(t)

(***************************************************************************)
(* What holds of the locks in every configuration, whoever unlinks: the    *)
(* order in which a transaction takes them.  LinkObject has the lock of    *)
(* its row before it looks at a link.                                      *)
(***************************************************************************)
LockOrder(t) ==
    /\ DOMAIN txn[t] = DOMAIN NoTx
    /\ txn[t].op \in {"link", "verify"}
    /\ txn[t].pc \in {"none", "upsert"} => ~txn[t].locked
    /\ At(t, "upsert") => txn[t].op = "link"
    /\ txn[t].pc \in {"update", "lock", "reload"} => txn[t].op = "verify"
    /\ txn[t].op = "link" /\ Knows(t) => txn[t].locked
    /\ txn[t].link => txn[t].pc \in {"count", "write", "commit"}

LockIInv ==
    /\ txn = [t \in Tx |-> txn[t]]
    /\ sweeping = [j \in Instance |-> sweeping[j]]
    /\ LocksExclude
    /\ \A t \in Tx : LockOrder(t)
=============================================================================
