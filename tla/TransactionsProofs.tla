-------------------------- MODULE TransactionsProofs --------------------------
(***************************************************************************)
(* Transactions implements Database, for any number of transactions,       *)
(* janitors, repositories and objects; and what holds besides where        *)
(* VerifyObject is never called.                                           *)
(***************************************************************************)
EXTENDS TransactionsInvariant, FiniteSetTheorems, TLAPS

-----------------------------------------------------------------------------
(***************************************************************************)
(* Types.                                                                  *)
(***************************************************************************)

LEMMA SameUri == Db!Uri = Uri
BY DEF Db!Uri, Uri

\* The three kinds of row, and what tells them apart.
LEMMA RowFields ==
    ASSUME NEW row \in Db!Row
    PROVE  /\ row.status \in {"absent", "pending", "verified"}
           /\ row.status = "absent" <=> row = Db!Absent
           /\ row.status = "verified" => row.size \in Size /\ row.uri \in Uri \cup {Ignored}
           /\ row.status = "verified" => row = Db!Verified(row.size, row.uri)
<1>1. CASE row = Db!Absent
  BY <1>1 DEF Db!Absent
<1>2. CASE row \in [status : {"pending"}, size : {Null}, uri : {Null}, aged : BOOLEAN]
  BY <1>2 DEF Db!Absent
<1>3. CASE row \in [status : {"verified"}, size : Size, uri : Uri \cup {Ignored},
                   aged : {FALSE}]
  <2>1. row.status = "verified" /\ row.size \in Size /\ row.uri \in Uri \cup {Ignored}
    BY <1>3
  <2>2. row = Db!Verified(row.size, row.uri)
    BY <1>3 DEF Db!Verified
  <2> QED
    BY <2>1, <2>2 DEF Db!Absent
<1> QED
  BY <1>1, <1>2, <1>3, SameUri DEF Db!Row

LEMMA VerifiedType ==
    ASSUME NEW size \in Size, NEW uri \in Uri \cup {Ignored}
    PROVE  /\ Db!Verified(size, uri) \in Db!Row
           /\ Db!Verified(size, uri).status = "verified"
           /\ Db!Verified(size, uri).size = size
           /\ Db!Verified(size, uri).uri = uri
           /\ Db!Verified(size, uri) # Db!Absent
<1>1. Db!Verified(size, uri) \in
        [status : {"verified"}, size : Size, uri : Uri \cup {Ignored}, aged : {FALSE}]
  BY DEF Db!Verified
<1>2. Db!Verified(size, uri) \in Db!Row
  BY <1>1, SameUri DEF Db!Row
<1> QED
  BY <1>2 DEF Db!Verified, Db!Absent

LEMMA PendingType ==
    ASSUME NEW aged \in BOOLEAN
    PROVE  /\ Db!Pending(aged) \in Db!Row
           /\ Db!Pending(aged).status = "pending"
           /\ Db!Pending(aged).aged = aged
           /\ Db!Pending(aged) # Db!Absent
BY DEF Db!Pending, Db!Row, Db!Absent

LEMMA AbsentType ==
    /\ Db!Absent \in Db!Row
    /\ Db!Absent.status = "absent"
    /\ Db!Absent.size = Null
BY DEF Db!Absent, Db!Row

\* The fields of a transaction.
LEMMA TxFields ==
    ASSUME TypeOK, NEW t \in Tx
    PROVE  /\ txn[t].id \in RowId \cup {NoId}
           /\ txn[t].locked \in BOOLEAN
           /\ txn[t].row \in Db!Row
           /\ txn[t].link \in BOOLEAN
           /\ txn[t].count \in Nat
           /\ txn[t].op \in {"link", "verify"}
           /\ At(t, "none") <=> txn[t] = NoTx
           /\ ~At(t, "none") =>
                /\ txn[t] \in Running
                /\ txn[t].repo \in Repo
                /\ txn[t].oid \in Oid
                /\ txn[t].size \in Size
                /\ txn[t].uri \in Uri \cup {Ignored}
<1>1. txn[t] = NoTx \/ txn[t] \in Running
  BY DEF TypeOK
<1>2. CASE txn[t] = NoTx
  BY <1>2, AbsentType DEF NoTx, At
<1>3. CASE txn[t] \in Running
  BY <1>3 DEF Running, At, NoTx
<1> QED
  BY <1>1, <1>2, <1>3

\* A step of t that leaves the tables and the sweeps alone.
Local(t, state) == Becomes(t, state) /\ UNCHANGED <<tables, sweeping>>

LEMMA LocalValues ==
    ASSUME TypeOK, NEW t \in Tx, NEW state, Local(t, state)
    PROVE  /\ txn'[t] = state
           /\ \A u \in Tx \ {t} : txn'[u] = txn[u]
           /\ objects' = objects /\ rowId' = rowId /\ repoCount' = repoCount
           /\ links' = links /\ sweeping' = sweeping
BY DEF Local, Becomes, TypeOK, tables

LEMMA NoTxFields ==
    /\ NoTx.pc = "none" /\ NoTx.op = "link" /\ NoTx.id = NoId /\ NoTx.locked = FALSE
    /\ NoTx.row = Db!Absent /\ NoTx.link = FALSE /\ NoTx.count = 0
BY DEF NoTx

-----------------------------------------------------------------------------
(***************************************************************************)
(* The steps that leave the tables alone.                                  *)
(***************************************************************************)

\* What a transaction that does not move has to have kept for it.
LEMMA HoldsOn ==
    ASSUME NEW u \in Tx, TxHolds(u), txn'[u] = txn[u],
           WroteRow(u) => WroteRow(u)', ReadRow(u) => ReadRow(u)',
           At(u, "commit") /\ ~txn[u].link /\ <<txn[u].repo, txn[u].id>> \in links =>
                <<txn[u].repo, txn[u].id>> \in links'
    PROVE  TxHolds(u)'
BY DEF TxHolds, At, Knows

\* A new id of t's is its old one, none, one that is in the table, or a fresh one.
IdIsClear(t, id) ==
    id \in {txn[t].id, NoId} \/ id \in FreshId \/ \E oid \in Oid : id = rowId[oid]

LEMMA LocalStep ==
    ASSUME IInv, NEW t \in Tx, NEW state \in {NoTx} \cup Running, Local(t, state),
           TxHolds(t)', IdIsClear(t, state.id),
           state.locked => \/ txn[t].locked /\ state.oid = txn[t].oid
                           \/ FreeFor(t, state.oid)
    PROVE  IInv'
<1>1. /\ txn'[t] = state
      /\ \A u \in Tx \ {t} : txn'[u] = txn[u]
      /\ objects' = objects /\ rowId' = rowId /\ repoCount' = repoCount
      /\ links' = links /\ sweeping' = sweeping
  BY LocalValues DEF IInv
<1>2. TypeOK'
  BY <1>1 DEF IInv, TypeOK, Local, Becomes
<1>3. RowIds' /\ LinkedRowExists' /\ IsFiniteSet(links)' /\ \A j \in Instance : SelectionHolds(j)'
  BY <1>1 DEF IInv, RowIds, LinkedRowExists, SelectionHolds, Db!IsVerified, Db!Orphan
<1>4. LocksExclude'
  <2>1. ASSUME NEW u \in Tx, NEW v \in Tx, txn'[u].locked, txn'[v].locked,
               txn'[u].oid = txn'[v].oid
        PROVE  u = v
    BY <1>1, <2>1 DEF IInv, LocksExclude, FreeFor, Holds
  <2>2. ASSUME NEW u \in Tx, txn'[u].locked
        PROVE  ~Swept(txn'[u].oid)
    BY <1>1, <2>2 DEF IInv, LocksExclude, FreeFor
  <2> QED
    BY <1>1, <2>1, <2>2 DEF IInv, LocksExclude, Swept
<1>5. ASSUME NEW u \in Tx \ {t}
      PROVE  TxHolds(u)'
  <2>1. OwnId(u) => OwnId(u)'
    BY <1>1 DEF OwnId, IdIsClear, FreshId
  <2>2. WroteRow(u) => WroteRow(u)'
    BY <1>1, <2>1 DEF WroteRow
  <2>3. ReadRow(u) => ReadRow(u)'
    BY <1>1 DEF ReadRow
  <2> QED
    BY <1>1, <2>2, <2>3, HoldsOn DEF IInv
<1> QED
  BY <1>2, <1>3, <1>4, <1>5 DEF IInv

LEMMA BeginStep ==
    ASSUME IInv, NEW t \in Tx, NEW op \in {"link", "verify"}, NEW pc \in {"upsert", "update"},
           NEW repo \in Repo, NEW oid \in Oid, NEW size \in Size, NEW uri \in Uri \cup {Ignored},
           Begin(t, op, pc, repo, oid, size, uri),
           op = "link" => pc = "upsert", op = "verify" => pc = "update" /\ uri \in Uri
    PROVE  IInv'
<1> DEFINE state == [NoTx EXCEPT !.pc = pc, !.op = op, !.repo = repo, !.oid = oid,
                                 !.size = size, !.uri = uri]
<1>1. /\ state.pc = pc /\ state.op = op /\ state.uri = uri /\ state.id = NoId
      /\ state.locked = FALSE /\ state.row = Db!Absent /\ state.link = FALSE /\ state.count = 0
  BY DEF NoTx
<1>2. state \in Running
  BY AbsentType DEF NoTx, Running
<1>3. Local(t, state)
  BY DEF Begin, Local
<1> HIDE DEF state
<1>4. txn'[t] = state
  BY <1>3, LocalValues DEF IInv
<1>5. TxHolds(t)'
  BY <1>1, <1>4 DEF TxHolds, At, Knows
<1> QED
  BY <1>1, <1>2, <1>3, <1>5, LocalStep DEF IdIsClear

LEMMA RollbackStep ==
    ASSUME IInv, NEW t \in Tx, Rollback(t)
    PROVE  IInv'
<1>1. Local(t, NoTx)
  BY DEF Rollback, Local
<1>2. txn'[t] = NoTx
  BY <1>1, LocalValues DEF IInv
<1>3. TxHolds(t)'
  BY <1>2, NoTxFields DEF TxHolds, At, Knows
<1> QED
  BY <1>1, <1>3, NoTxFields, LocalStep DEF IdIsClear

LEMMA UpsertedType ==
    ASSUME TypeOK, NEW oid \in Oid, NEW size \in Size, NEW uri \in Uri \cup {Ignored}
    PROVE  /\ Db!Upserted(oid, size, uri) \in Db!Row
           /\ Db!Upserted(oid, size, uri).status = "verified"
           /\ objects[oid].status = "verified" => Db!Upserted(oid, size, uri) = objects[oid]
BY VerifiedType DEF TypeOK, Db!Upserted, Db!IsVerified

\* A transaction that has not looked at its row yet.
LEMMA BeforeRow ==
    ASSUME IInv, NEW t \in Tx, txn[t].pc \in {"upsert", "update", "lock"}
    PROVE  /\ txn[t].locked = FALSE /\ txn[t].row = Db!Absent
           /\ txn[t].link = FALSE /\ txn[t].count = 0
           /\ txn[t].op = IF At(t, "upsert") THEN "link" ELSE "verify"
           /\ ~At(t, "upsert") => txn[t].uri \in Uri
<1>1. TxHolds(t) /\ TypeOK
  BY DEF IInv
<1>2. txn[t].locked \in BOOLEAN /\ txn[t].link \in BOOLEAN /\ txn[t].count \in Nat
  BY <1>1, TxFields
<1>3. txn[t].locked = FALSE /\ txn[t].row = Db!Absent /\ txn[t].link = FALSE
  BY <1>1, <1>2 DEF TxHolds, At
<1>4. txn[t].count = 0
  BY <1>1, <1>2 DEF TxHolds
<1>5. /\ txn[t].op = IF At(t, "upsert") THEN "link" ELSE "verify"
      /\ ~At(t, "upsert") => txn[t].uri \in Uri
  BY <1>1 DEF TxHolds, At
<1> QED
  BY <1>3, <1>4, <1>5

LEMMA UpsertStep ==
    ASSUME IInv, NEW t \in Tx, Upsert(t)
    PROVE  IInv'
<1> DEFINE oid == txn[t].oid
           row == Db!Upserted(oid, txn[t].size, txn[t].uri)
<1>1. PICK id \in IF rowId[oid] = NoId THEN FreshId ELSE {rowId[oid]} :
            Local(t, [txn[t] EXCEPT !.pc = "insert", !.locked = TRUE,
                                    !.row = row, !.uri = row.uri, !.id = id])
  BY DEF Upsert, Local
<1> DEFINE state == [txn[t] EXCEPT !.pc = "insert", !.locked = TRUE,
                                   !.row = row, !.uri = row.uri, !.id = id]
<1>2. /\ txn[t] \in Running /\ oid \in Oid /\ txn[t].size \in Size
      /\ txn[t].uri \in Uri \cup {Ignored} /\ txn[t].op = "link"
      /\ txn[t].link = FALSE /\ txn[t].count = 0
  BY TxFields, BeforeRow DEF Upsert, IInv, At
<1>3. /\ row \in Db!Row /\ row.status = "verified" /\ row.size = txn[t].size
      /\ row.uri \in Uri \cup {Ignored} /\ row # Db!Absent
      /\ objects[oid].status = "verified" => row = objects[oid]
  BY <1>2, UpsertedType, RowFields DEF Upsert, IInv
<1>4. /\ id \in RowId /\ id # NoId
      /\ objects[oid] # Db!Absent => id = rowId[oid]
      /\ objects[oid] = Db!Absent => id \in FreshId
  BY <1>1, <1>2, TxAssumption DEF IInv, RowIds, TypeOK, FreshId
<1> HIDE DEF row
<1>5. /\ state.pc = "insert" /\ state.locked = TRUE /\ state.row = row /\ state.uri = row.uri
      /\ state.id = id /\ state.oid = oid /\ state.size = txn[t].size /\ state.op = "link"
      /\ state.link = txn[t].link /\ state.count = 0
  BY <1>2 DEF Running
<1>6. state \in Running
  BY <1>2, <1>3, <1>4 DEF Running
<1>7. FreeFor(t, oid)
  BY DEF Upsert
<1> HIDE DEF state, oid
<1>8. /\ txn'[t] = state /\ \A u \in Tx \ {t} : txn'[u] = txn[u]
      /\ objects' = objects /\ rowId' = rowId /\ links' = links
  BY <1>1, LocalValues DEF IInv, state
<1>9. objects[oid] = Db!Absent => OwnId(t)'
  BY <1>4, <1>5, <1>8 DEF OwnId, FreshId
<1>10. WroteRow(t)'
  BY <1>3, <1>4, <1>5, <1>8, <1>9 DEF WroteRow
<1>11. TxHolds(t)'
  BY <1>2, <1>3, <1>5, <1>8, <1>10 DEF TxHolds, At, Knows
<1>12. IdIsClear(t, state.id)
  BY <1>2, <1>4, <1>5 DEF IdIsClear
<1> QED
  BY <1>1, <1>5, <1>6, <1>7, <1>11, <1>12, LocalStep DEF state

LEMMA UpdateStep ==
    ASSUME IInv, NEW t \in Tx, Update(t)
    PROVE  IInv'
<1> DEFINE oid == txn[t].oid
<1>1. /\ txn[t] \in Running /\ oid \in Oid /\ txn[t].op = "verify" /\ txn[t].uri \in Uri
      /\ txn[t].locked = FALSE /\ txn[t].row = Db!Absent
      /\ txn[t].link = FALSE /\ txn[t].count = 0
  BY TxFields, BeforeRow DEF Update, IInv, At
<1>2. rowId[oid] \in RowId \cup {NoId}
  BY <1>1 DEF IInv, TypeOK
<1>3. ASSUME NEW state \in Running, Local(t, state), state.pc \in {"lock", "reload"},
             state.op = "verify", state.uri = txn[t].uri, state.locked = FALSE,
             state.row = Db!Absent, state.link = FALSE, state.count = 0,
             state.id \in {txn[t].id, rowId[oid]}
      PROVE  IInv'
  <2>1. txn'[t] = state
    BY <1>3, LocalValues DEF IInv
  <2>2. TxHolds(t)'
    BY <1>1, <1>3, <2>1 DEF TxHolds, At, Knows
  <2>3. IdIsClear(t, state.id)
    BY <1>1, <1>3 DEF IdIsClear
  <2> QED
    BY <1>3, <2>2, <2>3, LocalStep
<1>4. CASE objects[oid].status = "pending"
  <2> DEFINE state == [txn[t] EXCEPT !.pc = "lock", !.id = rowId[oid]]
  <2>1. Local(t, state)
    BY <1>4 DEF Update, Local
  <2>2. /\ state \in Running /\ state.pc = "lock" /\ state.op = "verify"
        /\ state.uri = txn[t].uri /\ state.locked = FALSE /\ state.row = Db!Absent
        /\ state.link = FALSE /\ state.count = 0 /\ state.id = rowId[oid]
    BY <1>1, <1>2 DEF Running
  <2> HIDE DEF state
  <2> QED
    BY <1>3, <2>1, <2>2
<1>5. CASE objects[oid].status # "pending"
  <2> DEFINE state == [txn[t] EXCEPT !.pc = "reload"]
  <2>1. Local(t, state)
    BY <1>5 DEF Update, Local
  <2>2. /\ state \in Running /\ state.pc = "reload" /\ state.op = "verify"
        /\ state.uri = txn[t].uri /\ state.locked = FALSE /\ state.row = Db!Absent
        /\ state.link = FALSE /\ state.count = 0 /\ state.id = txn[t].id
    BY <1>1 DEF Running
  <2> HIDE DEF state
  <2> QED
    BY <1>3, <2>1, <2>2
<1> QED
  BY <1>4, <1>5

LEMMA UpdateRowStep ==
    ASSUME IInv, NEW t \in Tx, UpdateRow(t)
    PROVE  IInv'
<1> DEFINE oid == txn[t].oid
           verified == Db!Verified(txn[t].size, txn[t].uri)
<1>1. /\ txn[t] \in Running /\ oid \in Oid /\ txn[t].op = "verify" /\ txn[t].uri \in Uri
      /\ txn[t].size \in Size /\ txn[t].locked = FALSE /\ txn[t].row = Db!Absent
      /\ txn[t].link = FALSE /\ txn[t].count = 0
  BY TxFields, BeforeRow DEF UpdateRow, IInv, At
<1>2. /\ verified \in Db!Row /\ verified.status = "verified" /\ verified # Db!Absent
      /\ verified.size = txn[t].size /\ verified.uri = txn[t].uri
  BY <1>1, VerifiedType
<1>3. Db!Absent \in Db!Row /\ Db!Absent.status = "absent"
  BY AbsentType
<1> HIDE DEF verified
<1>4. ASSUME NEW row \in {verified, Db!Absent}, rowId[oid] = txn[t].id, FreeFor(t, oid),
             row = verified => objects[oid].status = "pending",
             Local(t, [txn[t] EXCEPT !.pc = "reload", !.locked = TRUE, !.row = row])
      PROVE  IInv'
  <2> DEFINE state == [txn[t] EXCEPT !.pc = "reload", !.locked = TRUE, !.row = row]
  <2>1. /\ state.pc = "reload" /\ state.locked = TRUE /\ state.row = row /\ state.oid = oid
        /\ state.size = txn[t].size /\ state.uri = txn[t].uri /\ state.op = "verify"
        /\ state.id = txn[t].id /\ state.link = FALSE /\ state.count = 0
    BY <1>1 DEF Running
  <2>2. state \in Running
    BY <1>1, <1>2, <1>3 DEF Running
  <2> HIDE DEF state, oid
  <2>3. txn'[t] = state /\ objects' = objects /\ rowId' = rowId
    BY <1>4, LocalValues DEF IInv, state
  <2>4. row # Db!Absent => WroteRow(t)'
    BY <1>2, <1>3, <1>4, <2>1, <2>3 DEF WroteRow
  <2>5. TxHolds(t)'
    BY <1>1, <2>1, <2>3, <2>4 DEF TxHolds, At, Knows
  <2> QED
    BY <1>4, <2>1, <2>2, <2>5, LocalStep DEF IdIsClear, state
<1>5. CASE rowId[oid] = txn[t].id /\ FreeFor(t, oid)
  <2>1. CASE objects[oid].status = "pending"
    <3>1. Local(t, [txn[t] EXCEPT !.pc = "reload", !.locked = TRUE, !.row = verified])
      BY <1>5, <2>1 DEF UpdateRow, Local, verified
    <3> HIDE DEF oid
    <3> QED
      BY <1>4, <1>5, <2>1, <3>1
  <2>2. CASE objects[oid].status # "pending"
    <3>1. Local(t, [txn[t] EXCEPT !.pc = "reload", !.locked = TRUE, !.row = Db!Absent])
      BY <1>5, <2>2 DEF UpdateRow, Local
    <3> HIDE DEF oid
    <3> QED
      BY <1>2, <1>4, <1>5, <3>1
  <2> QED
    BY <2>1, <2>2
<1>6. CASE rowId[oid] # txn[t].id
  <2> DEFINE state == [txn[t] EXCEPT !.pc = "reload"]
  <2>1. Local(t, state)
    BY <1>6 DEF UpdateRow, Local
  <2>2. /\ state \in Running /\ state.pc = "reload" /\ state.op = "verify"
        /\ state.uri = txn[t].uri /\ state.locked = FALSE /\ state.row = Db!Absent
        /\ state.link = FALSE /\ state.count = 0 /\ state.id = txn[t].id
    BY <1>1 DEF Running
  <2> HIDE DEF state
  <2>3. txn'[t] = state
    BY <2>1, LocalValues DEF IInv
  <2>4. TxHolds(t)'
    BY <2>2, <2>3 DEF TxHolds, At, Knows
  <2> QED
    BY <2>1, <2>2, <2>4, LocalStep DEF IdIsClear
<1> QED
  BY <1>5, <1>6 DEF UpdateRow

LEMMA ReloadStep ==
    ASSUME IInv, NEW t \in Tx, Reload(t)
    PROVE  IInv'
<1> DEFINE oid == txn[t].oid
           row == IF txn[t].row = Db!Absent THEN objects[oid] ELSE txn[t].row
           state == [txn[t] EXCEPT !.pc = "insert", !.uri = row.uri, !.id = rowId[oid]]
<1>1. /\ txn[t] \in Running /\ oid \in Oid /\ txn[t].size \in Size
      /\ txn[t].row \in Db!Row /\ txn[t].link \in BOOLEAN /\ txn[t].count \in Nat
  BY TxFields DEF Reload, IInv, At
<1>2. TxHolds(t) /\ At(t, "reload") /\ rowId[oid] \in RowId \cup {NoId}
  BY <1>1 DEF IInv, Reload, TypeOK
<1>3. /\ txn[t].op = "verify" /\ txn[t].link = FALSE
      /\ txn[t].row # Db!Absent => WroteRow(t) /\ txn[t].uri \in Uri
  BY <1>1, <1>2 DEF TxHolds, At
<1>4. txn[t].count = 0
  BY <1>1, <1>2 DEF TxHolds, At
<1>5. row \in Db!Row /\ row.status = "verified" /\ row.size = txn[t].size
  BY <1>1 DEF Reload, IInv, TypeOK
<1>6. row.uri \in Uri \cup {Ignored}
  BY <1>5, RowFields
<1>7. Local(t, state)
  BY DEF Reload, Local
<1>8. row = IF txn[t].row = Db!Absent THEN objects[oid] ELSE txn[t].row
  OBVIOUS
<1> HIDE DEF row
<1>9. /\ state.pc = "insert" /\ state.locked = txn[t].locked /\ state.row = txn[t].row
      /\ state.oid = oid /\ state.size = txn[t].size /\ state.uri = row.uri
      /\ state.op = "verify" /\ state.id = rowId[oid] /\ state.link = FALSE /\ state.count = 0
  BY <1>1, <1>3, <1>4 DEF Running
<1>10. state \in Running
  BY <1>1, <1>2, <1>6 DEF Running
<1> HIDE DEF state, oid
<1>11. txn'[t] = state /\ objects' = objects /\ rowId' = rowId
  BY <1>7, LocalValues DEF IInv
<1>12. txn[t].row # Db!Absent => WroteRow(t)' /\ state.uri \in Uri
  BY <1>1, <1>3, <1>8, <1>9, <1>11, AbsentType DEF WroteRow, oid
<1>13. txn[t].row = Db!Absent => ReadRow(t)'
  BY <1>5, <1>8, <1>9, <1>11 DEF ReadRow
<1>14. TxHolds(t)'
  BY <1>9, <1>11, <1>12, <1>13 DEF TxHolds, At, Knows
<1> QED
  BY <1>1, <1>7, <1>9, <1>10, <1>14, LocalStep DEF IdIsClear, oid

\* A step that goes on with the same row.
LEMMA SameRow ==
    ASSUME IInv, NEW t \in Tx, Knows(t), NEW state \in Running, Local(t, state),
           state.op = txn[t].op, state.oid = txn[t].oid, state.size = txn[t].size,
           state.uri = txn[t].uri, state.id = txn[t].id, state.row = txn[t].row,
           \/ state.locked = txn[t].locked
           \/ state.locked = TRUE /\ FreeFor(t, txn[t].oid),
           \/ state.pc = "count" /\ state.link = TRUE /\ state.count = 0
           \/ state.pc = "write" /\ state.link = TRUE /\ state.count > 0
           \/ /\ state.pc = "commit" /\ state.link = TRUE /\ state.count > 0
              /\ state.locked = TRUE
           \/ /\ state.pc = "commit" /\ state.link = FALSE /\ state.count = 0
              /\ <<txn[t].repo, txn[t].id>> \in links,
           state.repo = txn[t].repo
    PROVE  IInv'
<1>1. txn'[t] = state /\ objects' = objects /\ rowId' = rowId /\ links' = links
  BY LocalValues DEF IInv
<1>2. TxHolds(t)
  BY DEF IInv
<1>3. WroteRow(t) => WroteRow(t)'
  <2>1. \A u \in Tx \ {t} : txn'[u] = txn[u]
    BY LocalValues DEF IInv
  <2>2. OwnId(t) => OwnId(t)'
    BY <1>1, <2>1 DEF OwnId
  <2> QED
    BY <1>1, <2>2 DEF WroteRow
<1>4. ReadRow(t) => ReadRow(t)'
  BY <1>1 DEF ReadRow
<1>5. TxHolds(t)'
  BY <1>1, <1>2, <1>3, <1>4 DEF TxHolds, At, Knows
<1> QED
  BY <1>5, LocalStep DEF IdIsClear

\* A transaction that knows its row.
LEMMA WithRow ==
    ASSUME IInv, NEW t \in Tx, Knows(t)
    PROVE  /\ txn[t] \in Running /\ TxHolds(t)
           /\ txn[t].oid \in Oid /\ txn[t].repo \in Repo /\ txn[t].size \in Size
           /\ txn[t].row \in Db!Row /\ txn[t].id \in RowId
           /\ txn[t].link \in BOOLEAN /\ txn[t].locked \in BOOLEAN /\ txn[t].count \in Nat
           /\ txn[t].row # Db!Absent => WroteRow(t)
           /\ txn[t].row = Db!Absent => ReadRow(t)
           /\ objects[txn[t].oid] # Db!Absent => rowId[txn[t].oid] = txn[t].id
           /\ objects[txn[t].oid] = Db!Absent => OwnId(t)
           /\ ~txn[t].locked => rowId[txn[t].oid] = txn[t].id
<1>1. TxHolds(t) /\ TypeOK /\ RowIds
  BY DEF IInv
<1>2. /\ txn[t] \in Running /\ txn[t].oid \in Oid /\ txn[t].repo \in Repo /\ txn[t].size \in Size
      /\ txn[t].row \in Db!Row /\ txn[t].id \in RowId \cup {NoId}
      /\ txn[t].link \in BOOLEAN /\ txn[t].locked \in BOOLEAN /\ txn[t].count \in Nat
  BY <1>1, TxFields DEF Knows, At
<1>3. /\ txn[t].row # Db!Absent => WroteRow(t)
      /\ txn[t].row = Db!Absent => ReadRow(t)
  BY <1>1 DEF TxHolds
<1>4. /\ objects[txn[t].oid] # Db!Absent => rowId[txn[t].oid] = txn[t].id
      /\ objects[txn[t].oid] = Db!Absent => OwnId(t)
      /\ ~txn[t].locked => rowId[txn[t].oid] = txn[t].id
  BY <1>3, AbsentType DEF WroteRow, ReadRow
<1>5. txn[t].id # NoId
  BY <1>1, <1>2, <1>4 DEF RowIds, OwnId
<1> QED
  BY <1>1, <1>2, <1>3, <1>4, <1>5

LEMMA InsertLinkStep ==
    ASSUME IInv, NEW t \in Tx, InsertLink(t)
    PROVE  IInv'
<1>1. Knows(t)
  BY DEF Knows, InsertLink, At
<1>2. txn[t].link = FALSE /\ txn[t].count = 0
  BY <1>1, WithRow DEF TxHolds, InsertLink, At
<1>3. CASE <<txn[t].repo, txn[t].id>> \in links
  <2> DEFINE state == [txn[t] EXCEPT !.pc = "commit"]
  <2>1. Local(t, state)
    BY <1>3 DEF InsertLink, Local
  <2>2. /\ state \in Running /\ state.op = txn[t].op /\ state.oid = txn[t].oid
        /\ state.size = txn[t].size /\ state.uri = txn[t].uri /\ state.id = txn[t].id
        /\ state.row = txn[t].row /\ state.locked = txn[t].locked /\ state.repo = txn[t].repo
        /\ state.pc = "commit" /\ state.link = FALSE /\ state.count = 0
    BY <1>1, <1>2, WithRow DEF Running
  <2> HIDE DEF state
  <2> QED
    BY <1>1, <1>3, <2>1, <2>2, SameRow
<1>4. CASE <<txn[t].repo, txn[t].id>> \notin links
  <2> DEFINE state == [txn[t] EXCEPT !.pc = "count", !.link = TRUE]
  <2>1. Local(t, state)
    BY <1>4 DEF InsertLink, Local
  <2>2. /\ state \in Running /\ state.op = txn[t].op /\ state.oid = txn[t].oid
        /\ state.size = txn[t].size /\ state.uri = txn[t].uri /\ state.id = txn[t].id
        /\ state.row = txn[t].row /\ state.locked = txn[t].locked /\ state.repo = txn[t].repo
        /\ state.pc = "count" /\ state.link = TRUE /\ state.count = 0
    BY <1>1, <1>2, WithRow DEF Running
  <2> HIDE DEF state
  <2> QED
    BY <1>1, <2>1, <2>2, SameRow
<1> QED
  BY <1>3, <1>4

\* The links to a row are finitely many.
LEMMA LinkedFinite ==
    ASSUME IsFiniteSet(links), NEW id
    PROVE  IsFiniteSet(Linked(id)) /\ Cardinality(Linked(id)) \in Nat
<1>1. Linked(id) \subseteq links
  BY DEF Linked
<1>2. IsFiniteSet(Linked(id))
  BY <1>1, FS_Subset
<1> QED
  BY <1>2, FS_CardinalityType

LEMMA CountLinksStep ==
    ASSUME IInv, NEW t \in Tx, CountLinks(t)
    PROVE  IInv'
<1> DEFINE count == Cardinality(Linked(txn[t].id)) + 1
           state == [txn[t] EXCEPT !.pc = "write", !.count = count]
<1>1. Knows(t)
  BY DEF Knows, CountLinks, At
<1>2. txn[t].link = TRUE
  BY <1>1, WithRow DEF TxHolds, CountLinks, At
<1>3. count \in Nat /\ count > 0
  BY LinkedFinite DEF IInv
<1>4. Local(t, state)
  BY DEF CountLinks, Local
<1> HIDE DEF count
<1>5. /\ state \in Running /\ state.op = txn[t].op /\ state.oid = txn[t].oid
      /\ state.size = txn[t].size /\ state.uri = txn[t].uri /\ state.id = txn[t].id
      /\ state.row = txn[t].row /\ state.locked = txn[t].locked /\ state.repo = txn[t].repo
      /\ state.pc = "write" /\ state.link = TRUE /\ state.count = count
  BY <1>1, <1>2, <1>3, WithRow DEF Running
<1> HIDE DEF state
<1> QED
  BY <1>1, <1>3, <1>4, <1>5, SameRow

LEMMA WriteCountStep ==
    ASSUME IInv, NEW t \in Tx, WriteCount(t)
    PROVE  IInv'
<1> DEFINE state == [txn[t] EXCEPT !.pc = "commit", !.locked = TRUE]
<1>1. Knows(t)
  BY DEF Knows, WriteCount, At
<1>2. txn[t].link = TRUE /\ txn[t].count > 0
  BY <1>1, WithRow DEF TxHolds, WriteCount, At
<1>3. Local(t, state) /\ (txn[t].locked \/ FreeFor(t, txn[t].oid))
  BY <1>1, WithRow DEF WriteCount, Local
<1>4. /\ state \in Running /\ state.op = txn[t].op /\ state.oid = txn[t].oid
      /\ state.size = txn[t].size /\ state.uri = txn[t].uri /\ state.id = txn[t].id
      /\ state.row = txn[t].row /\ state.locked = TRUE /\ state.repo = txn[t].repo
      /\ state.pc = "commit" /\ state.link = TRUE /\ state.count = txn[t].count
  BY <1>1, <1>2, WithRow DEF Running
<1> HIDE DEF state
<1> QED
  BY <1>1, <1>2, <1>3, <1>4, WithRow, SameRow

-----------------------------------------------------------------------------
(***************************************************************************)
(* The steps that change the tables.                                       *)
(***************************************************************************)

\* What a commit does.
LEMMA CommitValues ==
    ASSUME IInv, NEW t \in Tx, Commit(t)
    PROVE  /\ Knows(t) /\ txn' = [txn EXCEPT ![t] = NoTx] /\ sweeping' = sweeping
           /\ objects' \in [Oid -> Db!Row] /\ rowId' \in [Oid -> RowId \cup {NoId}]
           /\ repoCount' \in [Oid -> Nat]
           /\ \A o \in Oid \ {txn[t].oid} :
                objects'[o] = objects[o] /\ rowId'[o] = rowId[o] /\ repoCount'[o] = repoCount[o]
           /\ objects'[txn[t].oid].status = "verified" /\ rowId'[txn[t].oid] = txn[t].id
           /\ objects'[txn[t].oid].size = txn[t].size
           /\ \/ txn[t].row = Db!Absent /\ objects' = objects /\ rowId' = rowId
              \/ txn[t].row # Db!Absent /\ txn[t].locked /\ objects'[txn[t].oid] = txn[t].row
           /\ objects[txn[t].oid].status = "verified" =>
                objects'[txn[t].oid] = objects[txn[t].oid]
           /\ \/ txn[t].count = 0 /\ repoCount' = repoCount /\ txn[t].link = FALSE
                  /\ <<txn[t].repo, txn[t].id>> \in links /\ links' = links
              \/ txn[t].count > 0 /\ txn[t].locked /\ txn[t].link = TRUE
                  /\ repoCount'[txn[t].oid] = txn[t].count
                  /\ links' = links \cup {<<txn[t].repo, txn[t].id>>}
<1> DEFINE oid == txn[t].oid
           id == txn[t].id
<1>1. Knows(t) /\ TypeOK
  BY DEF Knows, Commit, At, IInv
<1>2. txn' = [txn EXCEPT ![t] = NoTx] /\ sweeping' = sweeping
  BY DEF Commit, Becomes
<1>3. /\ \/ txn[t].row = Db!Absent /\ objects' = objects /\ rowId' = rowId
         \/ /\ txn[t].row # Db!Absent
            /\ objects' = [objects EXCEPT ![oid] = txn[t].row]
            /\ rowId' = [rowId EXCEPT ![oid] = id]
  BY DEF Commit
<1>4. /\ repoCount' = IF txn[t].count = 0 THEN repoCount
                      ELSE [repoCount EXCEPT ![oid] = txn[t].count]
      /\ links' = IF txn[t].link THEN links \cup {<<txn[t].repo, id>>} ELSE links
  BY DEF Commit
<1>5. /\ oid \in Oid /\ txn[t].row \in Db!Row /\ id \in RowId /\ txn[t].count \in Nat
      /\ txn[t].link \in BOOLEAN
  BY <1>1, WithRow
<1>6. \/ txn[t].count = 0 /\ txn[t].link = FALSE /\ <<txn[t].repo, id>> \in links
      \/ txn[t].count > 0 /\ txn[t].locked /\ txn[t].link = TRUE
  <2>1. At(t, "commit") /\ TxHolds(t)
    BY DEF Commit, IInv
  <2>2. CASE txn[t].count > 0
    BY <1>5, <2>1, <2>2 DEF TxHolds, At
  <2>3. CASE txn[t].count = 0
    BY <1>5, <2>1, <2>3 DEF TxHolds, At
  <2>4. txn[t].count > 0 \/ txn[t].count = 0
    BY <1>5
  <2> QED
    BY <2>2, <2>3, <2>4, Zenon
<1>7. CASE txn[t].row = Db!Absent
  <2>1. ReadRow(t)
    BY <1>1, <1>7, WithRow
  <2>2. objects' = objects /\ rowId' = rowId
    BY <1>3, <1>7
  <2>3. /\ objects'[oid].status = "verified" /\ rowId'[oid] = id
        /\ objects'[oid].size = txn[t].size
    BY <2>1, <2>2 DEF ReadRow
  <2> QED
    BY <1>1, <1>2, <1>4, <1>5, <1>6, <1>7, <2>2, <2>3 DEF TypeOK
<1>8. CASE txn[t].row # Db!Absent
  <2>1. WroteRow(t)
    BY <1>1, <1>8, WithRow
  <2>2. objects' = [objects EXCEPT ![oid] = txn[t].row] /\ rowId' = [rowId EXCEPT ![oid] = id]
    BY <1>3, <1>8
  <2>3. /\ objects'[oid] = txn[t].row /\ rowId'[oid] = id
        /\ objects' \in [Oid -> Db!Row] /\ rowId' \in [Oid -> RowId \cup {NoId}]
        /\ \A o \in Oid \ {oid} : objects'[o] = objects[o] /\ rowId'[o] = rowId[o]
    BY <1>1, <1>5, <2>2 DEF TypeOK
  <2>4. /\ txn[t].locked /\ txn[t].row.status = "verified" /\ txn[t].row.size = txn[t].size
        /\ objects[oid].status = "verified" => objects[oid] = txn[t].row
    BY <2>1 DEF WroteRow
  <2>5. /\ repoCount' \in [Oid -> Nat]
        /\ \A o \in Oid \ {oid} : repoCount'[o] = repoCount[o]
        /\ txn[t].count > 0 => repoCount'[oid] = txn[t].count
    BY <1>1, <1>4, <1>5 DEF TypeOK
  <2> QED
    BY <1>1, <1>2, <1>4, <1>5, <1>6, <1>8, <2>3, <2>4, <2>5
<1> QED
  BY <1>7, <1>8

LEMMA CommitStep ==
    ASSUME IInv, NEW t \in Tx, Commit(t)
    PROVE  IInv'
<1> DEFINE oid == txn[t].oid
           id == txn[t].id
<1>a. Knows(t) /\ txn' = [txn EXCEPT ![t] = NoTx] /\ sweeping' = sweeping
  BY CommitValues
<1>b. /\ objects' \in [Oid -> Db!Row] /\ rowId' \in [Oid -> RowId \cup {NoId}]
      /\ repoCount' \in [Oid -> Nat]
  BY CommitValues
<1>c. /\ \A o \in Oid \ {oid} :
            objects'[o] = objects[o] /\ rowId'[o] = rowId[o] /\ repoCount'[o] = repoCount[o]
      /\ objects'[oid].status = "verified" /\ rowId'[oid] = id
      /\ objects[oid].status = "verified" => objects'[oid] = objects[oid]
  BY CommitValues
<1>d. txn[t].locked \/ (objects' = objects /\ rowId' = rowId /\ repoCount' = repoCount)
  BY CommitValues
<1>e. links' = links \/ links' = links \cup {<<txn[t].repo, id>>}
  BY CommitValues
<1>1. /\ oid \in Oid /\ id \in RowId /\ id # NoId /\ txn[t].repo \in Repo
      /\ \A o \in Oid \ {oid} : rowId[o] # id
      /\ objects[oid] # Db!Absent => rowId[oid] = id
      /\ objects[oid] = Db!Absent => OwnId(t)
  <2>1. /\ oid \in Oid /\ id \in RowId /\ txn[t].repo \in Repo
        /\ objects[oid] # Db!Absent => rowId[oid] = id
        /\ objects[oid] = Db!Absent => OwnId(t)
    BY <1>a, WithRow
  <2>2. id # NoId
    BY <2>1, TxAssumption
  <2> QED
    BY <2>1, <2>2 DEF IInv, RowIds, OwnId
<1>2. TypeOK /\ TypeOK'
  <2>1. TypeOK
    BY DEF IInv
  <2>2. txn' \in [Tx -> {NoTx} \cup Running]
    BY <1>a, <2>1 DEF TypeOK
  <2>3. links' \subseteq Repo \X RowId
    BY <1>1, <1>e, <2>1 DEF TypeOK
  <2> QED
    BY <1>a, <1>b, <2>1, <2>2, <2>3 DEF TypeOK
<1>3. /\ txn'[t] = NoTx /\ \A u \in Tx \ {t} : txn'[u] = txn[u]
      /\ links \subseteq links' /\ links' \subseteq links \cup {<<txn[t].repo, id>>}
  BY <1>2, <1>a, <1>e DEF TypeOK
<1>4. RowIds'
  <2>1. objects'[oid] # Db!Absent /\ rowId'[oid] = id /\ id # NoId
    BY <1>1, <1>c, AbsentType
  <2>2. \A o \in Oid \ {oid} : objects'[o] = objects[o] /\ rowId'[o] = rowId[o]
    BY <1>c
  <2> QED
    BY <1>1, <2>1, <2>2 DEF IInv, RowIds
<1>5. LinkedRowExists'
  <2>1. ASSUME NEW link \in links
        PROVE  \E o \in Oid : rowId'[o] = link[2] /\ objects'[o].status = "verified"
    <3>1. PICK o \in Oid : rowId[o] = link[2] /\ objects[o].status = "verified"
      BY DEF IInv, LinkedRowExists, Db!IsVerified
    <3>2. CASE o = oid
      BY <1>1, <1>c, <3>1, <3>2, AbsentType
    <3>3. CASE o # oid
      BY <1>c, <3>1, <3>3
    <3> QED
      BY <3>2, <3>3
  <2>2. rowId'[oid] = id /\ objects'[oid].status = "verified" /\ <<txn[t].repo, id>>[2] = id
    BY <1>c
  <2> QED
    BY <1>1, <1>3, <2>1, <2>2 DEF LinkedRowExists, Db!IsVerified
<1>6. IsFiniteSet(links')
  BY <1>e, FS_AddElement DEF IInv
<1>7. LocksExclude'
  BY <1>3, <1>a, NoTxFields DEF IInv, LocksExclude, Swept
<1>8. ASSUME NEW j \in Instance
      PROVE  SelectionHolds(j)'
  <2>1. ASSUME NEW o \in sweeping[j].oids
        PROVE  o \in Oid /\ objects'[o] = objects[o] /\ repoCount'[o] = repoCount[o]
    <3>1. o \in Oid
      BY <1>2 DEF TypeOK
    <3>2. o = oid => ~txn[t].locked
      BY DEF IInv, LocksExclude, Swept
    <3> QED
      BY <1>c, <1>d, <3>1, <3>2
  <2>2. SelectionHolds(j) /\ sweeping' = sweeping
    BY <1>a DEF IInv
  <2> QED
    BY <2>1, <2>2 DEF SelectionHolds, Db!Orphan, Db!IsVerified
<1>9. ASSUME NEW u \in Tx \ {t}
      PROVE  TxHolds(u)'
  <2>1. TxHolds(u) /\ txn'[u] = txn[u]
    BY <1>3 DEF IInv
  <2>2. OwnId(u) => OwnId(u)'
    <3>1. ASSUME OwnId(u)
          PROVE  /\ txn[u].id # id /\ \A o \in Oid : rowId'[o] # txn[u].id
                 /\ \A link \in links' : link[2] # txn[u].id
                 /\ \A v \in Tx \ {u} : txn'[v].id # txn[u].id
      <4>1. txn[u].id # NoId /\ txn[u].id # id /\ \A o \in Oid : rowId[o] # txn[u].id
        BY <3>1 DEF OwnId
      <4>2. \A o \in Oid : rowId'[o] # txn[u].id
        BY <1>c, <4>1
      <4>3. \A link \in links' : link[2] # txn[u].id
        BY <1>e, <3>1, <4>1 DEF OwnId
      <4>4. \A v \in Tx \ {u} : txn'[v].id # txn[u].id
        BY <1>3, <3>1, <4>1, NoTxFields DEF OwnId
      <4> QED
        BY <4>1, <4>2, <4>3, <4>4
    <3> QED
      BY <1>3, <3>1 DEF OwnId
  <2>3. WroteRow(u) => WroteRow(u)'
    <3>1. CASE txn[u].oid = oid
      <4>1. WroteRow(u) => ~txn[t].locked
        BY <3>1 DEF IInv, LocksExclude, WroteRow
      <4>2. WroteRow(u) => objects' = objects /\ rowId' = rowId
        BY <1>d, <4>1
      <4> QED
        BY <1>3, <2>2, <4>2 DEF WroteRow
    <3>2. CASE txn[u].oid # oid /\ txn[u].oid \in Oid
      BY <1>3, <1>c, <2>2, <3>2 DEF WroteRow
    <3>3. CASE txn[u].oid \notin Oid
      BY <1>2, <3>3, TxFields, NoTxFields DEF WroteRow, At
    <3> QED
      BY <3>1, <3>2, <3>3
  <2>4. ReadRow(u) => ReadRow(u)'
    <3>1. CASE txn[u].oid = oid
      BY <1>1, <1>3, <1>c, <3>1, AbsentType DEF ReadRow
    <3>2. CASE txn[u].oid # oid /\ txn[u].oid \in Oid
      BY <1>3, <1>c, <3>2 DEF ReadRow
    <3>3. CASE txn[u].oid \notin Oid
      BY <1>2, <3>3, TxFields, NoTxFields DEF ReadRow, At
    <3> QED
      BY <3>1, <3>2, <3>3
  <2> QED
    BY <1>3, <2>1, <2>3, <2>4, HoldsOn
<1>10. TxHolds(t)'
  BY <1>3, NoTxFields DEF TxHolds, At, Knows
<1> QED
  BY <1>2, <1>4, <1>5, <1>6, <1>7, <1>8, <1>9, <1>10 DEF IInv

LEMMA InsertPendingStep ==
    ASSUME IInv, NEW oid \in Oid, InsertPendingObject(oid)
    PROVE  IInv'
<1>1. PICK id \in FreshId : rowId' = [rowId EXCEPT ![oid] = id]
  BY DEF InsertPendingObject
<1>2. /\ TypeOK /\ objects[oid] = Db!Absent /\ Unlocked(oid) /\ id \in RowId /\ id # NoId
      /\ \A o \in Oid : rowId[o] # id
      /\ \A link \in links : link[2] # id
      /\ \A u \in Tx : txn[u].id # id
  BY TxAssumption DEF InsertPendingObject, IInv, FreshId
<1>3. /\ objects' = [objects EXCEPT ![oid] = Db!Pending(FALSE)]
      /\ repoCount' = repoCount /\ links' = links /\ txn' = txn /\ sweeping' = sweeping
  BY DEF InsertPendingObject
<1>4. /\ objects'[oid] = Db!Pending(FALSE) /\ rowId'[oid] = id
      /\ \A o \in Oid \ {oid} : objects'[o] = objects[o] /\ rowId'[o] = rowId[o]
  BY <1>1, <1>2, <1>3 DEF TypeOK
<1>5. TypeOK'
  BY <1>1, <1>2, <1>3, PendingType DEF TypeOK
<1>6. RowIds'
  <2>1. objects'[oid] # Db!Absent
    BY <1>4, PendingType
  <2>2. ASSUME NEW o \in Oid
        PROVE  rowId'[o] = NoId <=> objects'[o] = Db!Absent
    BY <1>2, <1>4, <2>1 DEF IInv, RowIds
  <2>3. ASSUME NEW o \in Oid, NEW p \in Oid, rowId'[o] = rowId'[p], rowId'[o] # NoId
        PROVE  o = p
    BY <1>2, <1>4, <2>3 DEF IInv, RowIds
  <2> QED
    BY <2>2, <2>3 DEF RowIds
<1>7. LinkedRowExists' /\ IsFiniteSet(links)' /\ LocksExclude'
  <2>1. \A o \in Oid : objects[o].status = "verified" => o # oid
    BY <1>2, AbsentType
  <2>2. ASSUME NEW link \in links
        PROVE  \E o \in Oid : rowId'[o] = link[2] /\ objects'[o].status = "verified"
    <3>1. PICK o \in Oid : rowId[o] = link[2] /\ objects[o].status = "verified"
      BY DEF IInv, LinkedRowExists, Db!IsVerified
    <3> QED
      BY <1>4, <2>1, <3>1
  <2> QED
    BY <1>3, <2>2 DEF IInv, LocksExclude, Swept, LinkedRowExists, Db!IsVerified
<1>8. ASSUME NEW j \in Instance
      PROVE  SelectionHolds(j)'
  <2>1. \A o \in sweeping[j].oids : objects'[o] = objects[o]
    BY <1>2, <1>4 DEF Unlocked, Swept, TypeOK
  <2>2. \A o \in sweeping[j].oids :
            (Db!Orphan(o) => Db!Orphan(o)') /\ (Db!IsVerified(o) => Db!IsVerified(o)')
    BY <2>1 DEF Db!Orphan, Db!IsVerified
  <2>3. SelectionHolds(j)
    BY DEF IInv
  <2> QED
    BY <1>3, <2>2, <2>3 DEF SelectionHolds
<1>9. ASSUME NEW u \in Tx
      PROVE  TxHolds(u)'
  <2>1. txn'[u] = txn[u] /\ TxHolds(u)
    BY <1>3 DEF IInv
  <2>2. OwnId(u) => OwnId(u)'
    BY <1>2, <1>3, <1>4 DEF OwnId
  <2>3. WroteRow(u) => WroteRow(u)'
    <3>1. WroteRow(u) => txn[u].oid \in Oid \ {oid}
      BY <1>2, TxFields, NoTxFields DEF WroteRow, Unlocked, Holds, At
    <3> QED
      BY <1>3, <1>4, <2>2, <3>1 DEF WroteRow
  <2>4. ReadRow(u) => ReadRow(u)'
    <3>1. ReadRow(u) => txn[u].oid \in Oid \ {oid}
      BY <1>2, TxFields, NoTxFields, AbsentType DEF ReadRow, At
    <3> QED
      BY <1>3, <1>4, <3>1 DEF ReadRow
  <2> QED
    BY <1>3, <2>1, <2>3, <2>4, HoldsOn
<1> QED
  BY <1>5, <1>6, <1>7, <1>8, <1>9 DEF IInv

\* A step of the sweeps that leaves the tables alone.
LEMMA SweepStep ==
    ASSUME IInv, NEW j \in Instance, NEW query \in {"none", "orphan", "unreferenced"},
           NEW oids \in SUBSET Oid,
           sweeping' = [sweeping EXCEPT ![j] = [query |-> query, oids |-> oids]],
           UNCHANGED <<tables, txn>>,
           \A oid \in oids : Unlocked(oid),
           query = "none" => oids = {},
           query = "orphan" => \A oid \in oids : Db!Orphan(oid),
           query = "unreferenced" => \A oid \in oids : Db!IsVerified(oid) /\ repoCount[oid] = 0
    PROVE  IInv'
<1>1. /\ objects' = objects /\ rowId' = rowId /\ repoCount' = repoCount /\ links' = links
      /\ txn' = txn
  BY DEF tables
<1>2. TypeOK /\ TypeOK'
  BY <1>1 DEF IInv, TypeOK
<1>3. sweeping'[j] = [query |-> query, oids |-> oids]
        /\ \A i \in Instance \ {j} : sweeping'[i] = sweeping[i]
  BY <1>2 DEF TypeOK
<1>4. RowIds' /\ LinkedRowExists' /\ IsFiniteSet(links)'
  BY <1>1 DEF IInv, RowIds, LinkedRowExists, Db!IsVerified
<1>5. LocksExclude'
  <2>1. ASSUME NEW t \in Tx, txn[t].locked
        PROVE  ~Swept(txn[t].oid)'
    BY <1>1, <1>3, <2>1 DEF IInv, LocksExclude, Swept, Unlocked, Holds
  <2>2. ASSUME NEW i \in Instance, NEW k \in Instance, NEW oid,
               oid \in sweeping'[i].oids, oid \in sweeping'[k].oids
        PROVE  i = k
    BY <1>3, <2>2 DEF IInv, LocksExclude, Unlocked, Swept
  <2> QED
    BY <1>1, <2>1, <2>2 DEF IInv, LocksExclude
<1>6. ASSUME NEW i \in Instance
      PROVE  SelectionHolds(i)'
  <2>1. CASE i = j
    BY <1>1, <1>3, <2>1 DEF SelectionHolds, Db!Orphan, Db!IsVerified
  <2>2. CASE i # j
    BY <1>1, <1>3, <2>2 DEF IInv, SelectionHolds, Db!Orphan, Db!IsVerified
  <2> QED
    BY <2>1, <2>2
<1>7. ASSUME NEW u \in Tx
      PROVE  TxHolds(u)'
  BY <1>1, HoldsOn DEF IInv, WroteRow, OwnId, ReadRow
<1> QED
  BY <1>2, <1>4, <1>5, <1>6, <1>7 DEF IInv

LEMMA SelectStep ==
    ASSUME IInv, NEW j \in Instance, NEW oids \in SUBSET Oid,
           SweepOrphanObjects(j, oids) \/ SweepUnreferencedObjects(j, oids)
    PROVE  IInv'
BY SweepStep DEF SweepOrphanObjects, SweepUnreferencedObjects, Select

LEMMA SweepRollbackStep ==
    ASSUME IInv, NEW j \in Instance, SweepRollback(j)
    PROVE  IInv'
<1>1. sweeping' = [sweeping EXCEPT ![j] = [query |-> "none", oids |-> {}]]
  BY DEF SweepRollback, NoSweep
<1>2. {} \in SUBSET Oid /\ UNCHANGED <<tables, txn>>
  BY DEF SweepRollback
<1>3. ASSUME NEW oids \in SUBSET Oid, oids = {},
             sweeping' = [sweeping EXCEPT ![j] = [query |-> "none", oids |-> oids]]
      PROVE  IInv'
  BY <1>2, <1>3, SweepStep
<1> QED
  BY <1>1, <1>2, <1>3

LEMMA DeleteRowsStep ==
    ASSUME IInv, DeletesSafely, NEW j \in Instance, DeleteRows(j)
    PROVE  IInv'
<1> DEFINE gone == sweeping[j].oids
<1>1. /\ TypeOK /\ links' = links /\ txn' = txn
      /\ sweeping' = [sweeping EXCEPT ![j] = NoSweep]
  BY DEF DeleteRows, IInv
<1>2. /\ objects' = [oid \in Oid |-> IF oid \in gone THEN Db!Absent ELSE objects[oid]]
      /\ rowId' = [oid \in Oid |-> IF oid \in gone THEN NoId ELSE rowId[oid]]
      /\ repoCount' = [oid \in Oid |-> IF oid \in gone THEN 0 ELSE repoCount[oid]]
  BY DEF DeleteRows
<1>3. /\ \A oid \in gone : oid \in Oid /\ ~\E link \in links : link[2] = rowId[oid]
      /\ \A u \in Tx : Knows(u) /\ txn[u].oid \in gone => txn[u].row # Db!Absent
      /\ \A u \in Tx : txn[u].locked => txn[u].oid \notin gone
  BY <1>1 DEF DeletesSafely, TypeOK, IInv, LocksExclude, Swept
<1>4. sweeping'[j] = NoSweep /\ \A i \in Instance \ {j} : sweeping'[i] = sweeping[i]
  BY <1>1 DEF TypeOK
<1>5. TypeOK'
  <2>1. /\ objects' \in [Oid -> Db!Row] /\ rowId' \in [Oid -> RowId \cup {NoId}]
        /\ repoCount' \in [Oid -> Nat]
    BY <1>1, <1>2, AbsentType DEF TypeOK
  <2>2. sweeping' \in [Instance -> [query : {"none", "orphan", "unreferenced"},
                                    oids : SUBSET Oid]]
    BY <1>1 DEF TypeOK, NoSweep
  <2> QED
    BY <1>1, <2>1, <2>2 DEF TypeOK
<1>6. RowIds'
  BY <1>2 DEF IInv, RowIds
<1>7. LinkedRowExists' /\ IsFiniteSet(links)'
  <2>1. ASSUME NEW link \in links
        PROVE  \E oid \in Oid : rowId'[oid] = link[2] /\ objects'[oid].status = "verified"
    <3>1. PICK oid \in Oid : rowId[oid] = link[2] /\ objects[oid].status = "verified"
      BY DEF IInv, LinkedRowExists, Db!IsVerified
    <3> QED
      BY <1>2, <1>3, <3>1
  <2> QED
    BY <1>1, <2>1 DEF IInv, LinkedRowExists, Db!IsVerified
<1>8. LocksExclude'
  <2>1. \A i \in Instance : sweeping'[i].oids \subseteq sweeping[i].oids
    BY <1>4 DEF NoSweep
  <2> QED
    BY <1>1, <2>1 DEF IInv, LocksExclude, Swept
<1>9. ASSUME NEW i \in Instance
      PROVE  SelectionHolds(i)'
  <2>1. CASE i = j
    BY <1>4, <2>1 DEF SelectionHolds, NoSweep
  <2>2. CASE i # j
    <3>1. \A oid \in sweeping[i].oids : oid \in Oid \ gone
      BY <1>1, <2>2 DEF IInv, LocksExclude, TypeOK
    <3>2. \A oid \in sweeping[i].oids : objects'[oid] = objects[oid] /\ repoCount'[oid] = repoCount[oid]
      BY <1>2, <3>1
    <3> QED
      BY <1>4, <2>2, <3>2 DEF IInv, SelectionHolds, Db!Orphan, Db!IsVerified
  <2> QED
    BY <2>1, <2>2
<1>10. ASSUME NEW u \in Tx
       PROVE  TxHolds(u)'
  <2>1. txn'[u] = txn[u] /\ TxHolds(u)
    BY <1>1 DEF IInv
  <2>2. ASSUME OwnId(u)
        PROVE  OwnId(u)'
    <3>1. \A oid \in Oid : rowId'[oid] # txn[u].id
      BY <1>2, <2>2 DEF OwnId
    <3> QED
      BY <1>1, <2>2, <3>1 DEF OwnId
  <2>3. ASSUME txn[u].oid \in Oid \ gone
        PROVE  /\ WroteRow(u) => WroteRow(u)'
               /\ ReadRow(u) => ReadRow(u)'
    <3>1. objects'[txn[u].oid] = objects[txn[u].oid] /\ rowId'[txn[u].oid] = rowId[txn[u].oid]
      BY <1>2, <2>3
    <3> QED
      BY <1>1, <2>2, <3>1 DEF WroteRow, ReadRow
  <2>4. CASE txn[u].oid \in Oid \ gone
    BY <1>1, <2>1, <2>3, <2>4, HoldsOn
  <2>5. CASE txn[u].oid \notin Oid \ gone
    <3>1. ~Knows(u) /\ ~WroteRow(u)
      BY <1>1, <1>3, <2>1, <2>5, TxFields, NoTxFields DEF Knows, TxHolds, WroteRow, At
    <3> QED
      BY <2>1, <3>1 DEF TxHolds, Knows, At
  <2> QED
    BY <2>4, <2>5
<1> QED
  BY <1>5, <1>6, <1>7, <1>8, <1>9, <1>10 DEF IInv

LEMMA AgeStep ==
    ASSUME IInv, NEW oid \in Oid, Age(oid)
    PROVE  IInv'
<1>1. /\ TypeOK /\ objects[oid].status = "pending"
      /\ objects' = [objects EXCEPT ![oid] = Db!Pending(TRUE)]
      /\ rowId' = rowId /\ repoCount' = repoCount /\ links' = links /\ txn' = txn
      /\ sweeping' = sweeping
  BY DEF Age, IInv
<1>2. /\ objects'[oid] = Db!Pending(TRUE)
      /\ \A o \in Oid \ {oid} : objects'[o] = objects[o]
  BY <1>1 DEF TypeOK
<1>3. TypeOK'
  BY <1>1, PendingType DEF TypeOK
<1>4. RowIds'
  BY <1>1, <1>2, PendingType, AbsentType DEF IInv, RowIds
<1>5. LinkedRowExists' /\ IsFiniteSet(links)' /\ LocksExclude'
  <2>1. LinkedRowExists'
    BY <1>1, <1>2 DEF IInv, LinkedRowExists, Db!IsVerified
  <2> QED
    BY <1>1, <2>1 DEF IInv, LocksExclude, Swept
<1>6. ASSUME NEW j \in Instance
      PROVE  SelectionHolds(j)'
  <2>1. Db!Orphan(oid)'
    BY <1>2, PendingType DEF Db!Orphan
  <2>2. ASSUME NEW o \in sweeping[j].oids
        PROVE  /\ Db!Orphan(o) => Db!Orphan(o)'
               /\ Db!IsVerified(o) => Db!IsVerified(o)'
    <3>1. CASE o = oid
      BY <1>1, <2>1, <3>1 DEF Db!IsVerified
    <3>2. CASE o # oid
      BY <1>1, <1>2, <3>2 DEF TypeOK, Db!Orphan, Db!IsVerified
    <3> QED
      BY <3>1, <3>2
  <2>3. SelectionHolds(j)
    BY DEF IInv
  <2> QED
    BY <1>1, <2>2, <2>3 DEF SelectionHolds
<1>7. ASSUME NEW u \in Tx
      PROVE  TxHolds(u)'
  <2>1. txn'[u] = txn[u] /\ TxHolds(u) /\ (OwnId(u) => OwnId(u)')
    BY <1>1 DEF IInv, OwnId
  <2>2. WroteRow(u) => WroteRow(u)'
    <3>1. CASE txn[u].oid = oid
      BY <1>1, <1>2, <2>1, <3>1, PendingType, AbsentType DEF WroteRow
    <3>2. CASE txn[u].oid \in Oid \ {oid}
      BY <1>1, <1>2, <2>1, <3>2 DEF WroteRow
    <3>3. CASE txn[u].oid \notin Oid
      BY <1>1, <3>3, TxFields, NoTxFields DEF WroteRow, At
    <3> QED
      BY <3>1, <3>2, <3>3
  <2>3. ReadRow(u) => ReadRow(u)'
    <3>1. ReadRow(u) => txn[u].oid \in Oid \ {oid}
      BY <1>1, TxFields, NoTxFields DEF ReadRow, At
    <3> QED
      BY <1>1, <1>2, <3>1 DEF ReadRow
  <2> QED
    BY <1>1, <2>1, <2>2, <2>3, HoldsOn
<1> QED
  BY <1>3, <1>4, <1>5, <1>6, <1>7 DEF IInv

-----------------------------------------------------------------------------
(***************************************************************************)
(* The invariant.                                                          *)
(***************************************************************************)
LEMMA InitIInv == Init => IInv
<1> SUFFICES ASSUME Init PROVE IInv
  OBVIOUS
<1>1. TypeOK
  BY AbsentType DEF Init, TypeOK, NoSweep
<1>2. RowIds /\ LinkedRowExists /\ IsFiniteSet(links)
  BY FS_EmptySet DEF Init, RowIds, LinkedRowExists
<1>3. LocksExclude /\ \A j \in Instance : SelectionHolds(j)
  BY NoTxFields DEF Init, LocksExclude, SelectionHolds, NoSweep
<1>4. \A t \in Tx : TxHolds(t)
  BY NoTxFields DEF Init, TxHolds, At, Knows
<1> QED
  BY <1>1, <1>2, <1>3, <1>4 DEF IInv

LEMMA StutterIInv ==
    ASSUME IInv, UNCHANGED vars
    PROVE  IInv'
<1>1. TypeOK' /\ RowIds' /\ LinkedRowExists' /\ IsFiniteSet(links)' /\ LocksExclude'
  BY DEF IInv, vars, TypeOK, RowIds, LinkedRowExists, Db!IsVerified, LocksExclude, Swept
<1>2. \A j \in Instance : SelectionHolds(j)'
  BY DEF IInv, vars, SelectionHolds, Db!Orphan, Db!IsVerified
<1>3. ASSUME NEW u \in Tx
      PROVE  TxHolds(u)'
  BY HoldsOn DEF IInv, vars, WroteRow, OwnId, ReadRow
<1> QED
  BY <1>1, <1>2, <1>3 DEF IInv

LEMMA CallURIType ==
    ASSUME NEW repo \in Repo, NEW oid \in Oid
    PROVE  CallURI(repo, oid) \in Uri
BY ConfigAssumption DEF CallURI, URI, Uri

LEMMA NextIInv ==
    ASSUME IInv, DeletesSafely, Next
    PROVE  IInv'
<1>1. ASSUME NEW t \in Tx, TxNext(t)
      PROVE  IInv'
  <2>1. ASSUME NEW repo \in Repo, NEW oid \in Oid, NEW size \in Size,
               NEW uri \in {CallURI(repo, oid), Ignored}, LinkObject(t, repo, oid, size, uri)
        PROVE  IInv'
    BY <2>1, CallURIType, BeginStep DEF LinkObject
  <2>2. ASSUME NEW repo \in Repo, NEW oid \in Oid, NEW size \in Size,
               VerifyObject(t, repo, oid, size, CallURI(repo, oid))
        PROVE  IInv'
    BY <2>2, CallURIType, BeginStep DEF VerifyObject
  <2> QED
    BY <1>1, <2>1, <2>2, UpsertStep, UpdateStep, UpdateRowStep, ReloadStep, InsertLinkStep,
       CountLinksStep, WriteCountStep, CommitStep, RollbackStep DEF TxNext
<1>2. ASSUME NEW j \in Instance, SweepNext(j)
      PROVE  IInv'
  BY <1>2, SelectStep, DeleteRowsStep, SweepRollbackStep DEF SweepNext
<1> QED
  BY <1>1, <1>2, InsertPendingStep, AgeStep DEF Next

-----------------------------------------------------------------------------
(***************************************************************************)
(* Where nothing removes links: repo_count may be too small but never 0.   *)
(***************************************************************************)
LEMMA PositiveDeletesSafely ==
    ASSUME IInv, CountIsPositive
    PROVE  DeletesSafely
<1>1. ASSUME NEW j \in Instance, NEW oid \in sweeping[j].oids
      PROVE  oid \in Oid /\ objects[oid].status = "pending"
  <2>1. SelectionHolds(j) /\ oid \in Oid /\ repoCount[oid] \in Nat
          /\ sweeping[j].query \in {"none", "orphan", "unreferenced"}
    BY DEF IInv, TypeOK
  <2> QED
    BY <2>1 DEF SelectionHolds, Db!Orphan, CountIsPositive
<1>2. ASSUME NEW oid \in Oid, objects[oid].status = "pending", NEW link \in links
      PROVE  link[2] # rowId[oid]
  <2>1. rowId[oid] # NoId
    BY <1>2, AbsentType DEF IInv, RowIds
  <2> QED
    BY <1>2, <2>1 DEF IInv, RowIds, LinkedRowExists, Db!IsVerified
<1>3. ASSUME NEW t \in Tx, Knows(t), objects[txn[t].oid].status = "pending"
      PROVE  txn[t].row # Db!Absent
  BY <1>3, WithRow DEF ReadRow
<1> QED
  BY <1>1, <1>2, <1>3 DEF DeletesSafely

LEMMA CountStaysPositive ==
    ASSUME IInv, CountIsPositive, Next
    PROVE  CountIsPositive'
<1>1. ASSUME NEW oid \in Oid, Db!IsVerified(oid)'
      PROVE  repoCount'[oid] > 0
  <2>1. CASE objects' = objects /\ repoCount' = repoCount
    BY <1>1, <2>1 DEF CountIsPositive, Db!IsVerified
  <2>2. ASSUME NEW t \in Tx, Commit(t)
        PROVE  repoCount'[oid] > 0
    <3>1. CASE txn[t].count > 0 /\ oid = txn[t].oid
      <4>1. txn[t].count # 0
        BY <3>1
      <4>2. repoCount'[txn[t].oid] = txn[t].count
        BY <2>2, <4>1, CommitValues
      <4> QED
        BY <3>1, <4>2
    <3>2. CASE oid # txn[t].oid
      <4>1. objects'[oid] = objects[oid] /\ repoCount'[oid] = repoCount[oid]
        BY <2>2, <3>2, CommitValues
      <4> QED
        BY <1>1, <4>1 DEF CountIsPositive, Db!IsVerified
    <3>3. CASE ~(txn[t].count > 0) /\ oid = txn[t].oid
      <4>1. repoCount' = repoCount /\ <<txn[t].repo, txn[t].id>> \in links /\ Knows(t)
        BY <2>2, <3>3, CommitValues
      <4>2. PICK o \in Oid : rowId[o] = txn[t].id /\ objects[o].status = "verified"
        BY <4>1 DEF IInv, LinkedRowExists, Db!IsVerified
      <4>3. /\ txn[t].id # NoId
            /\ objects[oid] # Db!Absent => rowId[oid] = txn[t].id
            /\ objects[oid] = Db!Absent => \A p \in Oid : rowId[p] # txn[t].id
        BY <3>3, <4>1, WithRow, TxAssumption DEF OwnId
      <4>4. o = oid
        BY <4>2, <4>3 DEF IInv, RowIds
      <4> QED
        BY <4>1, <4>2, <4>4 DEF CountIsPositive, Db!IsVerified
    <3> QED
      BY <3>1, <3>2, <3>3
  <2>3. ASSUME NEW o \in Oid, InsertPendingObject(o) \/ Age(o)
        PROVE  repoCount'[oid] > 0
    <3>1. PICK aged \in BOOLEAN : objects' = [objects EXCEPT ![o] = Db!Pending(aged)]
      BY <2>3 DEF InsertPendingObject, Age
    <3>2. objects'[oid] = objects[oid] /\ repoCount' = repoCount
      BY <1>1, <2>3, <3>1, PendingType
         DEF InsertPendingObject, Age, Db!IsVerified, IInv, TypeOK
    <3> QED
      BY <1>1, <3>2 DEF CountIsPositive, Db!IsVerified
  <2>4. ASSUME NEW j \in Instance, DeleteRows(j)
        PROVE  repoCount'[oid] > 0
    <3>1. objects'[oid] = objects[oid] /\ repoCount'[oid] = repoCount[oid]
      BY <1>1, <2>4, AbsentType DEF DeleteRows, Db!IsVerified
    <3> QED
      BY <1>1, <3>1 DEF CountIsPositive, Db!IsVerified
  <2>5. CASE \E t \in Tx : TxNext(t) /\ ~Commit(t)
    <3>1. UNCHANGED tables
      BY <2>5 DEF TxNext, LinkObject, VerifyObject, Begin, Upsert, Update, UpdateRow, Reload,
                  InsertLink, CountLinks, WriteCount, Rollback
    <3> QED
      BY <2>1, <3>1 DEF tables
  <2>6. CASE \E j \in Instance : SweepNext(j) /\ ~DeleteRows(j)
    <3>1. UNCHANGED tables
      BY <2>6 DEF SweepNext, SweepOrphanObjects, SweepUnreferencedObjects, Select, SweepRollback
    <3> QED
      BY <2>1, <3>1 DEF tables
  <2> QED
    BY <2>2, <2>3, <2>4, <2>5, <2>6 DEF Next
<1> QED
  BY <1>1 DEF CountIsPositive

\* The inductive invariant of the transactions, where nothing removes links.
THEOREM SerialInvariant == Spec => [](IInv /\ CountIsPositive)
<1>1. Init => IInv /\ CountIsPositive
  BY InitIInv, AbsentType DEF Init, CountIsPositive, Db!IsVerified
<1>2. IInv /\ CountIsPositive /\ [Next]_vars => (IInv /\ CountIsPositive)'
  <2>1. ASSUME IInv, CountIsPositive, Next
        PROVE  IInv' /\ CountIsPositive'
    BY <2>1, NextIInv, PositiveDeletesSafely, CountStaysPositive
  <2>2. ASSUME IInv, CountIsPositive, UNCHANGED vars
        PROVE  IInv' /\ CountIsPositive'
    BY <2>2, StutterIInv DEF CountIsPositive, Db!IsVerified, vars
  <2> QED
    BY <2>1, <2>2
<1> QED
  BY <1>1, <1>2, PTL DEF Spec

\* The URI that LinkObject or VerifyObject returns is the row's
\* (objects.go:69-122, 138-196).
LEMMA ReturnedFromIInv == IInv => ReturnedIsStored
<1> SUFFICES ASSUME IInv, NEW t \in Tx, At(t, "commit")
             PROVE  txn[t].uri = (IF txn[t].row = Db!Absent
                                  THEN objects[txn[t].oid] ELSE txn[t].row).uri
  BY DEF ReturnedIsStored
<1>1. Knows(t)
  BY DEF Knows, At
<1> QED
  BY <1>1, WithRow DEF WroteRow, ReadRow

-----------------------------------------------------------------------------
(***************************************************************************)
(* Each step is one of Database, or none that it can see.                  *)
(***************************************************************************)

\* A pair is in the table exactly if its row's id is.
LEMMA PairLinked ==
    ASSUME NEW repo \in Repo, NEW oid \in Oid
    PROVE  /\ <<repo, oid>> \in LinkedPairs <=> <<repo, rowId[oid]>> \in links
           /\ (<<repo, oid>> \in LinkedPairs)' <=> <<repo, rowId'[oid]>> \in links'
BY DEF LinkedPairs

LEMMA NoIdUnlinked ==
    ASSUME TypeOK, NEW repo
    PROVE  <<repo, NoId>> \notin links
BY TxAssumption DEF TypeOK

LEMMA CommitPairs ==
    ASSUME IInv, NEW t \in Tx, Commit(t)
    PROVE  LinkedPairs' = LinkedPairs \cup {<<txn[t].repo, txn[t].oid>>}
<1> DEFINE oid == txn[t].oid
           id == txn[t].id
           repo == txn[t].repo
<1>1. /\ Knows(t) /\ \A o \in Oid \ {oid} : rowId'[o] = rowId[o]
      /\ rowId'[oid] = id
      /\ \/ links' = links /\ <<repo, id>> \in links
         \/ links' = links \cup {<<repo, id>>}
  BY CommitValues
<1>2. /\ repo \in Repo /\ oid \in Oid /\ id \in RowId /\ id # NoId /\ TypeOK /\ RowIds
      /\ objects[oid] # Db!Absent => rowId[oid] = id
      /\ objects[oid] = Db!Absent => OwnId(t)
  BY <1>1, WithRow, TxAssumption DEF IInv
<1>3. ASSUME NEW r \in Repo, NEW o \in Oid
      PROVE  <<r, rowId'[o]>> \in links' <=> <<r, rowId[o]>> \in links \/ (r = repo /\ o = oid)
  <2>1. CASE o # oid
    <3>1. rowId[o] # id /\ rowId'[o] = rowId[o]
      BY <1>1, <1>2, <2>1 DEF RowIds, OwnId
    <3>2. <<r, rowId[o]>> # <<repo, id>>
      BY <3>1
    <3> QED
      BY <1>1, <2>1, <3>1, <3>2
  <2>2. CASE o = oid
    <3>1. CASE objects[oid] # Db!Absent
      BY <1>1, <1>2, <2>2, <3>1
    <3>2. CASE objects[oid] = Db!Absent
      <4>1. rowId[oid] = NoId /\ <<r, rowId[oid]>> \notin links
        BY <1>2, <3>2, NoIdUnlinked DEF RowIds
      <4>2. <<r, id>> \notin links
        BY <1>2, <3>2 DEF OwnId
      <4>3. <<repo, id>> \notin links
        BY <1>2, <3>2 DEF OwnId
      <4> QED
        BY <1>1, <2>2, <4>1, <4>2, <4>3
    <3> QED
      BY <3>1, <3>2
  <2> QED
    BY <2>1, <2>2
<1> QED
  BY <1>2, <1>3 DEF LinkedPairs

LEMMA CommitRefines ==
    ASSUME IInv, NEW t \in Tx, Commit(t)
    PROVE  Db!DbNext
<1> DEFINE oid == txn[t].oid
           size == txn[t].size
           repo == txn[t].repo
           uri == txn[t].uri
<1>1. /\ Knows(t) /\ objects' \in [Oid -> Db!Row] /\ \A o \in Oid \ {oid} : objects'[o] = objects[o]
      /\ objects'[oid].status = "verified" /\ objects'[oid].size = size
      /\ \/ txn[t].row = Db!Absent /\ objects' = objects
         \/ txn[t].row # Db!Absent /\ objects'[oid] = txn[t].row
      /\ objects[oid].status = "verified" => objects'[oid] = objects[oid]
  BY CommitValues
<1>2. /\ oid \in Oid /\ repo \in Repo /\ size \in Size /\ TypeOK /\ txn[t].row \in Db!Row
      /\ txn[t].op \in {"link", "verify"} /\ uri \in Uri \cup {Ignored}
      /\ txn[t].row # Db!Absent => WroteRow(t)
      /\ txn[t].row = Db!Absent => ReadRow(t)
  BY <1>1, WithRow, TxFields DEF IInv, Knows, At
<1>3. objects' = [objects EXCEPT ![oid] = objects'[oid]]
  BY <1>1, <1>2 DEF TypeOK
<1>4. LinkedPairs' = LinkedPairs \cup {<<repo, oid>>}
  BY CommitPairs
<1>5. txn[t].row # Db!Absent => txn[t].row = Db!Verified(size, uri)
  BY <1>2, RowFields DEF WroteRow
<1>6. ASSUME txn[t].op = "link"
      PROVE  Db!LinkObject(repo, oid, size, uri)
  <2>1. txn[t].row # Db!Absent
    BY <1>2, <1>6 DEF ReadRow
  <2>2. objects'[oid] = Db!Upserted(oid, size, uri)
    BY <1>1, <1>5, <2>1 DEF Db!Upserted, Db!IsVerified
  <2> QED
    BY <1>1, <1>3, <1>4, <2>2 DEF Db!LinkObject
<1>7. ASSUME txn[t].op = "verify"
      PROVE  \E u \in Uri : Db!VerifyObject(repo, oid, size, u)
  <2>1. CASE txn[t].row # Db!Absent
    <3>1. uri \in Uri
      BY <1>7, <2>1 DEF IInv, TxHolds
    <3>2. objects[oid].status = "pending"
      BY <1>2, <1>7, <2>1 DEF WroteRow
    <3>3. objects'[oid] = Db!Verified(size, uri)
      BY <1>1, <1>5, <2>1
    <3>4. objects'[oid] # Db!Absent
      BY <1>1, AbsentType
    <3>5. Db!VerifyObject(repo, oid, size, uri)
      BY <1>1, <1>3, <1>4, <3>2, <3>3, <3>4 DEF Db!VerifyObject
    <3> QED
      BY <3>1, <3>5
  <2>2. CASE txn[t].row = Db!Absent
    <3>1. objects[oid].status = "verified" /\ objects'[oid] = objects[oid]
      BY <1>1, <1>2, <2>2 DEF ReadRow
    <3>2. objects'[oid] # Db!Absent
      BY <1>1, AbsentType
    <3>3. Db!VerifyObject(repo, oid, size, CallURI(repo, oid))
      BY <1>1, <1>3, <1>4, <3>1, <3>2 DEF Db!VerifyObject
    <3> QED
      BY <1>2, <3>3, CallURIType
  <2> QED
    BY <2>1, <2>2
<1> QED
  BY <1>2, <1>6, <1>7, SameUri DEF Db!DbNext

LEMMA InsertPendingRefines ==
    ASSUME IInv, NEW oid \in Oid, InsertPendingObject(oid)
    PROVE  Db!DbNext
<1>1. PICK id \in FreshId : rowId' = [rowId EXCEPT ![oid] = id]
  BY DEF InsertPendingObject
<1>2. /\ TypeOK /\ rowId[oid] = NoId /\ links' = links /\ \A link \in links : link[2] # id
      /\ objects[oid] = Db!Absent /\ objects' = [objects EXCEPT ![oid] = Db!Pending(FALSE)]
  BY DEF InsertPendingObject, IInv, RowIds, FreshId
<1>3. ASSUME NEW r \in Repo, NEW o \in Oid
      PROVE  <<r, rowId'[o]>> \in links' <=> <<r, rowId[o]>> \in links
  BY <1>1, <1>2, NoIdUnlinked DEF TypeOK
<1>4. LinkedPairs' = LinkedPairs
  BY <1>3 DEF LinkedPairs
<1> QED
  BY <1>2, <1>4 DEF Db!DbNext, Db!InsertPendingObject

LEMMA AgeRefines ==
    ASSUME NEW oid \in Oid, Age(oid)
    PROVE  Db!DbNext
<1>1. LinkedPairs' = LinkedPairs
  BY DEF Age, LinkedPairs
<1> QED
  BY <1>1 DEF Age, Db!DbNext, Db!Age

LEMMA DeleteRowsRefines ==
    ASSUME IInv, DeletesSafely, NEW j \in Instance, DeleteRows(j)
    PROVE  Db!DbNext
<1> DEFINE gone == sweeping[j].oids
<1>1. /\ TypeOK /\ links' = links /\ gone \subseteq Oid
      /\ sweeping[j].query \in {"none", "orphan", "unreferenced"}
      /\ objects' = [oid \in Oid |-> IF oid \in gone THEN Db!Absent ELSE objects[oid]]
      /\ rowId' = [oid \in Oid |-> IF oid \in gone THEN NoId ELSE rowId[oid]]
  BY DEF DeleteRows, IInv, TypeOK
<1>2. ASSUME NEW r \in Repo, NEW o \in gone
      PROVE  <<r, rowId[o]>> \notin links
  BY DEF DeletesSafely
<1>3. ASSUME NEW r \in Repo, NEW o \in Oid
      PROVE  <<r, rowId'[o]>> \in links' <=> <<r, rowId[o]>> \in links
  BY <1>1, <1>2, NoIdUnlinked
<1>4. LinkedPairs' = LinkedPairs
  BY <1>3 DEF LinkedPairs
<1>5. Db!DeleteRows(gone)
  BY <1>1, <1>4 DEF Db!DeleteRows
<1>6. CASE sweeping[j].query \in {"none", "orphan"}
  <2>1. \A oid \in gone : Db!Orphan(oid)
    BY <1>6 DEF IInv, SelectionHolds
  <2> QED
    BY <1>1, <1>5, <2>1 DEF Db!DbNext, Db!SweepOrphanObjects
<1>7. CASE sweeping[j].query = "unreferenced"
  <2>1. ASSUME NEW oid \in gone
        PROVE  Db!Unreferenced(oid)
    <3>1. Db!IsVerified(oid)
      BY <1>7 DEF IInv, SelectionHolds
    <3>2. \A r \in Repo : <<r, oid>> \notin LinkedPairs
      BY <1>2 DEF LinkedPairs
    <3> QED
      BY <3>1, <3>2 DEF Db!Unreferenced
  <2> QED
    BY <1>1, <1>5, <2>1 DEF Db!DbNext, Db!SweepUnreferencedObjects
<1> QED
  BY <1>1, <1>6, <1>7

LEMMA NextRefines ==
    ASSUME IInv, DeletesSafely, Next
    PROVE  Db!DbNext \/ UNCHANGED Db!dbVars
<1>1. ASSUME UNCHANGED tables
      PROVE  UNCHANGED Db!dbVars
  BY <1>1 DEF tables, Db!dbVars, LinkedPairs
<1>2. CASE \E t \in Tx : TxNext(t) /\ ~Commit(t)
  <2>1. UNCHANGED tables
    BY <1>2 DEF TxNext, LinkObject, VerifyObject, Begin, Upsert, Update, UpdateRow, Reload,
                InsertLink, CountLinks, WriteCount, Rollback
  <2> QED
    BY <1>1, <2>1
<1>3. CASE \E j \in Instance : SweepNext(j) /\ ~DeleteRows(j)
  <2>1. UNCHANGED tables
    BY <1>3 DEF SweepNext, SweepOrphanObjects, SweepUnreferencedObjects, Select, SweepRollback
  <2> QED
    BY <1>1, <2>1
<1> QED
  BY <1>2, <1>3, CommitRefines, InsertPendingRefines, AgeRefines, DeleteRowsRefines DEF Next

LEMMA InitRefines == Init => Db!DbInit
BY DEF Init, Db!DbInit, LinkedPairs

\* The statements of the transactions, in any order that their locks allow,
\* add up to the steps that Database promises (objects.go:69-349).
THEOREM TransactionsRefineDatabase == Spec => DatabaseSpec
<1>1. IInv /\ CountIsPositive /\ [Next]_vars => [Db!DbNext]_(Db!dbVars)
  <2>1. ASSUME IInv, CountIsPositive, Next
        PROVE  Db!DbNext \/ UNCHANGED Db!dbVars
    BY <2>1, NextRefines, PositiveDeletesSafely
  <2>2. UNCHANGED vars => UNCHANGED Db!dbVars
    BY DEF vars, Db!dbVars, LinkedPairs
  <2> QED
    BY <2>1, <2>2
<1> QED
  BY <1>1, InitRefines, SerialInvariant, PTL DEF Spec, DatabaseSpec, Db!DbSpec

-----------------------------------------------------------------------------
(***************************************************************************)
(* Deadlock.                                                               *)
(***************************************************************************)

\* A transaction of LinkObject that waits for another of its kind holds no lock:
\* it takes the row's lock first, and whoever else inserts the same pair had to
\* take that lock before.
LEMMA LinkWaitsFirst ==
    ASSUME IInv, NEW t \in Tx, NEW u \in Tx, WaitsFor(t, u), txn[t].op = "link", txn[u].op = "link"
    PROVE  At(t, "upsert") /\ txn[u].locked
<1>1. TxHolds(t) /\ t # u
  BY DEF IInv, WaitsFor
<1>2. CASE At(t, "upsert") /\ Holds(u, txn[t].oid)
  BY <1>2 DEF Holds
<1>3. CASE At(t, "lock")
  BY <1>1, <1>3 DEF TxHolds, At
<1>4. CASE At(t, "write") /\ ~txn[t].locked
  <2>1. Knows(t) /\ ReadRow(t)
    BY <1>1, <1>4 DEF TxHolds, Knows, At, WroteRow
  <2> QED
    BY <2>1 DEF ReadRow
<1>5. CASE At(t, "insert") /\ txn[u].link /\ txn[u].id = txn[t].id
  <2>1. Knows(t) /\ Knows(u)
    <3>1. TxHolds(u)
      BY DEF IInv
    <3> QED
      BY <1>5, <3>1 DEF TxHolds, Knows, At
  <2>2. WroteRow(t) /\ txn[t].oid \in Oid /\ txn[u].oid \in Oid /\ txn[t].id # NoId
    BY <2>1, WithRow, TxAssumption DEF ReadRow
  <2>3. rowId[txn[t].oid] = txn[t].id /\ rowId[txn[u].oid] = txn[u].id
    BY <1>1, <1>5, <2>1, WithRow DEF OwnId
  <2>4. txn[u].oid = txn[t].oid
    BY <1>5, <2>2, <2>3 DEF IInv, RowIds
  <2>5. ~txn[u].locked
    BY <1>1, <2>2, <2>4 DEF IInv, LocksExclude, WroteRow
  <2>6. ReadRow(u)
    BY <2>1, <2>5, WithRow DEF WroteRow
  <2> QED
    BY <2>6 DEF ReadRow
<1> QED
  BY <1>2, <1>3, <1>4, <1>5 DEF WaitsFor

LEMMA LinksNeverDeadlock ==
    ASSUME IInv, NEW ts \in SUBSET Tx, \A t \in ts : txn[t].op = "link"
    PROVE  ~Deadlock(ts)
<1> SUFFICES ASSUME Deadlock(ts) PROVE FALSE
  OBVIOUS
<1>1. PICK t \in ts : TRUE
  BY DEF Deadlock
<1>2. PICK u \in ts : WaitsFor(t, u)
  BY DEF Deadlock
<1>3. PICK v \in ts : WaitsFor(u, v)
  BY DEF Deadlock
<1>4. txn[u].locked /\ At(u, "upsert")
  BY <1>1, <1>2, <1>3, LinkWaitsFirst
<1> QED
  BY <1>4, BeforeRow DEF At

\* Every row that a repository is linked to exists and is verified, however
\* LinkObject, VerifyObject and the sweeps interleave (objects.go:301-349).
THEOREM LinkedRows == Spec => []LinkedRowExists
<1>1. IInv => LinkedRowExists
  BY DEF IInv
<1> QED
  BY <1>1, SerialInvariant, PTL

\* The type invariant of the transactions.
THEOREM TypeCorrect == Spec => []TypeOK
<1>1. IInv => TypeOK
  BY DEF IInv
<1> QED
  BY <1>1, SerialInvariant, PTL

\* The URI that a transaction returns is the one in the row
\* (objects.go:88-91, 165-168).
THEOREM ReturnedURIIsStored == Spec => []ReturnedIsStored
  BY ReturnedFromIInv, SerialInvariant, PTL

-----------------------------------------------------------------------------
(***************************************************************************)
(* Where VerifyObject is never called but operators unlink objects.        *)
(***************************************************************************)
LEMMA FilesDeleteSafely ==
    ASSUME IInv, FilesHold
    PROVE  DeletesSafely
<1>1. ASSUME NEW j \in Instance, NEW oid \in sweeping[j].oids
      PROVE  oid \in Oid /\ objects[oid].status = "verified" /\ repoCount[oid] = 0
  <2>1. SelectionHolds(j) /\ oid \in Oid
          /\ sweeping[j].query \in {"none", "orphan", "unreferenced"}
    BY DEF IInv, TypeOK
  <2> QED
    BY <2>1 DEF SelectionHolds, Db!Orphan, Db!IsVerified, FilesHold
<1>2. ASSUME NEW oid \in Oid, objects[oid].status = "verified", repoCount[oid] = 0
      PROVE  \A link \in links : link[2] # rowId[oid]
  <2>1. Cardinality(Linked(rowId[oid])) = 0 /\ IsFiniteSet(Linked(rowId[oid]))
    BY <1>2, LinkedFinite DEF IInv, FilesHold, CountIsTrue, Db!IsVerified
  <2>2. Linked(rowId[oid]) = {}
    BY <2>1, FS_EmptySet
  <2> QED
    BY <2>2 DEF Linked
<1>3. ASSUME NEW t \in Tx, Knows(t)
      PROVE  txn[t].row # Db!Absent
  BY <1>3, WithRow DEF ReadRow, FilesHold, CountsRightly
<1> QED
  BY <1>1, <1>2, <1>3 DEF DeletesSafely

\* Two transactions of LinkObject never know the same row.
LEMMA LinkIdsDiffer ==
    ASSUME IInv, NEW t \in Tx, NEW u \in Tx, t # u, Knows(t), Knows(u),
           txn[t].op = "link", txn[u].op = "link"
    PROVE  txn[t].id # txn[u].id
<1> SUFFICES ASSUME txn[t].id = txn[u].id PROVE FALSE
  OBVIOUS
<1>1. /\ WroteRow(t) /\ WroteRow(u) /\ txn[t].oid \in Oid /\ txn[u].oid \in Oid
      /\ txn[t].id # NoId
  BY WithRow, TxAssumption DEF ReadRow
<1>2. rowId[txn[t].oid] = txn[t].id /\ rowId[txn[u].oid] = txn[u].id
  BY WithRow DEF OwnId
<1>3. txn[u].oid = txn[t].oid
  BY <1>1, <1>2 DEF IInv, RowIds
<1> QED
  BY <1>1, <1>3 DEF IInv, LocksExclude, WroteRow

\* A row that nobody has locked is not the one that a LinkObject has.
LEMMA UnlockedIsOther ==
    ASSUME IInv, NEW oid \in Oid, Unlocked(oid), rowId[oid] # NoId,
           NEW t \in Tx, Knows(t), txn[t].op = "link"
    PROVE  txn[t].id # rowId[oid] /\ txn[t].oid # oid
<1>1. WroteRow(t) /\ txn[t].oid \in Oid
  BY WithRow DEF ReadRow
<1>2. txn[t].oid # oid
  BY <1>1 DEF WroteRow, Unlocked, Holds
<1>3. objects[txn[t].oid] # Db!Absent => rowId[txn[t].oid] = txn[t].id
  BY <1>1 DEF WroteRow
<1>4. objects[txn[t].oid] = Db!Absent => txn[t].id # rowId[oid]
  BY <1>1 DEF WroteRow, OwnId
<1> QED
  BY <1>1, <1>2, <1>3, <1>4 DEF IInv, RowIds

LEMMA UnlinkStep ==
    ASSUME IInv, FilesHold, NEW repo \in Repo, NEW oid \in Oid, Unlink(repo, oid)
    PROVE  IInv'
<1>1. /\ TypeOK /\ <<repo, rowId[oid]>> \in links /\ Unlocked(oid)
      /\ links' = links \ {<<repo, rowId[oid]>>}
      /\ repoCount' = [repoCount EXCEPT ![oid] = Cardinality(Linked(rowId[oid])) - 1]
      /\ objects' = objects /\ rowId' = rowId /\ txn' = txn /\ sweeping' = sweeping
  BY DEF Unlink, IInv
<1>2. rowId[oid] # NoId
  BY <1>1, NoIdUnlinked
<1>3. Cardinality(Linked(rowId[oid])) - 1 \in Nat
  <2>1. Linked(rowId[oid]) # {}
    BY <1>1 DEF Linked
  <2>2. IsFiniteSet(Linked(rowId[oid])) /\ Cardinality(Linked(rowId[oid])) \in Nat
    BY LinkedFinite DEF IInv
  <2>3. Cardinality(Linked(rowId[oid])) # 0
    BY <2>1, <2>2, FS_EmptySet
  <2> HIDE DEF Linked
  <2> QED
    BY <2>2, <2>3
<1>4. TypeOK'
  BY <1>1, <1>3 DEF TypeOK
<1>5. RowIds' /\ LinkedRowExists' /\ LocksExclude'
  BY <1>1 DEF IInv, RowIds, LinkedRowExists, Db!IsVerified, LocksExclude, Swept
<1>6. IsFiniteSet(links)'
  BY <1>1, FS_Subset DEF IInv
<1>7. ASSUME NEW j \in Instance
      PROVE  SelectionHolds(j)'
  <2>1. \A o \in sweeping[j].oids : repoCount'[o] = repoCount[o]
    BY <1>1 DEF TypeOK, Unlocked, Swept
  <2> QED
    BY <1>1, <2>1 DEF IInv, SelectionHolds, Db!Orphan, Db!IsVerified
<1>8. ASSUME NEW u \in Tx
      PROVE  TxHolds(u)'
  <2>1. TxHolds(u) /\ txn'[u] = txn[u]
    BY <1>1 DEF IInv
  <2>2. WroteRow(u) => WroteRow(u)'
    BY <1>1 DEF WroteRow, OwnId
  <2>3. ReadRow(u) => ReadRow(u)'
    BY <1>1 DEF ReadRow
  <2>4. At(u, "commit") => txn[u].id # rowId[oid]
    BY <1>1, <1>2, UnlockedIsOther DEF At, Knows, FilesHold, CountsRightly
  <2>5. At(u, "commit") /\ <<txn[u].repo, txn[u].id>> \in links =>
            <<txn[u].repo, txn[u].id>> \in links'
    BY <1>1, <2>4
  <2> QED
    BY <2>1, <2>2, <2>3, <2>5, HoldsOn
<1> QED
  BY <1>4, <1>5, <1>6, <1>7, <1>8 DEF IInv

\* A step that leaves the tables alone, as far as the counts go.
LEMMA LocalCounts ==
    ASSUME IInv, FilesHold, UNCHANGED tables,
           \A t \in Tx : \/ txn'[t] = txn[t]
                         \/ txn'[t].op = "link" /\ txn'[t].link = FALSE /\ txn'[t].count = 0
                         \/ CountsRightly(t)'
    PROVE  FilesHold'
<1>1. objects' = objects /\ rowId' = rowId /\ repoCount' = repoCount /\ links' = links
  BY DEF tables
<1>2. CountIsTrue'
  BY <1>1 DEF FilesHold, CountIsTrue, Db!IsVerified, Linked
<1>3. ASSUME NEW t \in Tx
      PROVE  CountsRightly(t)'
  <2>1. CASE txn'[t] = txn[t]
    BY <1>1, <2>1 DEF FilesHold, CountsRightly, Linked
  <2>2. CASE txn'[t].op = "link" /\ txn'[t].link = FALSE /\ txn'[t].count = 0
    BY <2>2 DEF CountsRightly
  <2> QED
    BY <2>1, <2>2
<1> QED
  BY <1>1, <1>2, <1>3 DEF FilesHold

LEMMA TxCounts ==
    ASSUME IInv, FilesHold, ~Presigning, NEW t \in Tx, TxNext(t), ~Commit(t)
    PROVE  FilesHold'
<1>1. TypeOK /\ CountsRightly(t) /\ TxHolds(t) /\ txn[t].op = "link"
  BY DEF IInv, FilesHold, CountsRightly
<1>2. ASSUME UNCHANGED tables, \A u \in Tx \ {t} : txn'[u] = txn[u],
             \/ txn'[t].op = "link" /\ txn'[t].link = FALSE /\ txn'[t].count = 0
             \/ CountsRightly(t)'
      PROVE  FilesHold'
  BY <1>2, LocalCounts
<1>3. ASSUME NEW state, Becomes(t, state), UNCHANGED tables
      PROVE  /\ \A u \in Tx \ {t} : txn'[u] = txn[u]
             /\ txn'[t] = state /\ links' = links
             /\ CountsRightly(t)' =
                  (/\ state.op = "link"
                   /\ state.link => <<state.repo, state.id>> \notin links
                   /\ state.count > 0 => state.count = Cardinality(Linked(state.id)) + 1)
  <2>1. txn'[t] = state /\ (\A u \in Tx \ {t} : txn'[u] = txn[u]) /\ links' = links
    BY <1>1, <1>3 DEF Becomes, TypeOK, tables
  <2> QED
    BY <2>1 DEF CountsRightly, Linked
<1>4. ASSUME NEW repo \in Repo, NEW oid \in Oid, NEW size \in Size,
             NEW uri \in {CallURI(repo, oid), Ignored}, LinkObject(t, repo, oid, size, uri)
      PROVE  FilesHold'
  <2> DEFINE state == [NoTx EXCEPT !.pc = "upsert", !.op = "link", !.repo = repo, !.oid = oid,
                                   !.size = size, !.uri = uri]
  <2>1. Becomes(t, state) /\ UNCHANGED tables
    BY <1>4 DEF LinkObject, Begin
  <2>2. state.op = "link" /\ state.link = FALSE /\ state.count = 0
    BY DEF NoTx
  <2> HIDE DEF state
  <2> QED
    BY <1>2, <1>3, <2>1, <2>2
<1>5. CASE Rollback(t)
  BY <1>2, <1>3, <1>5, NoTxFields DEF Rollback
<1>6. CASE Upsert(t)
  <2>1. PICK id, row : Becomes(t, [txn[t] EXCEPT !.pc = "insert", !.locked = TRUE,
                                                 !.row = row, !.uri = row.uri, !.id = id])
    BY <1>6 DEF Upsert
  <2> DEFINE state == [txn[t] EXCEPT !.pc = "insert", !.locked = TRUE,
                                     !.row = row, !.uri = row.uri, !.id = id]
  <2>2. txn[t] \in Running /\ txn[t].link = FALSE /\ txn[t].count = 0
    BY <1>1, <1>6, TxFields, BeforeRow DEF Upsert, At
  <2>3. state.op = "link" /\ state.link = FALSE /\ state.count = 0
    BY <1>1, <2>2 DEF Running
  <2>4. UNCHANGED tables
    BY <1>6 DEF Upsert
  <2> HIDE DEF state
  <2>5. txn'[t] = state /\ \A u \in Tx \ {t} : txn'[u] = txn[u]
    BY <1>3, <2>1, <2>4 DEF state
  <2> QED
    BY <1>2, <2>3, <2>4, <2>5
<1>7. CASE InsertLink(t)
  <2>1. Knows(t)
    BY <1>7 DEF InsertLink, Knows, At
  <2>2. txn[t].link = FALSE /\ txn[t].count = 0 /\ txn[t] \in Running
    BY <1>7, <2>1, WithRow DEF InsertLink, TxHolds, At
  <2>3. CASE <<txn[t].repo, txn[t].id>> \in links
    <3> DEFINE state == [txn[t] EXCEPT !.pc = "commit"]
    <3>1. Becomes(t, state) /\ UNCHANGED tables
      BY <1>7, <2>3 DEF InsertLink
    <3>2. state.op = "link" /\ state.link = FALSE /\ state.count = 0
      BY <1>1, <2>2 DEF Running
    <3> HIDE DEF state
    <3> QED
      BY <1>2, <1>3, <3>1, <3>2
  <2>4. CASE <<txn[t].repo, txn[t].id>> \notin links
    <3> DEFINE state == [txn[t] EXCEPT !.pc = "count", !.link = TRUE]
    <3>1. Becomes(t, state) /\ UNCHANGED tables
      BY <1>7, <2>4 DEF InsertLink
    <3>2. /\ state.op = "link" /\ state.repo = txn[t].repo /\ state.id = txn[t].id
          /\ state.count = 0
      BY <1>1, <2>2 DEF Running
    <3> HIDE DEF state
    <3> QED
      <4>1. <<state.repo, state.id>> \notin links /\ ~(state.count > 0)
        BY <2>4, <3>2
      <4>2. CountsRightly(t)'
        BY <1>3, <3>1, <3>2, <4>1
      <4> QED
        BY <1>2, <1>3, <3>1, <4>2
  <2> QED
    BY <2>3, <2>4
<1>8. CASE CountLinks(t)
  <2> DEFINE count == Cardinality(Linked(txn[t].id)) + 1
             state == [txn[t] EXCEPT !.pc = "write", !.count = count]
  <2>1. txn[t] \in Running
    BY <1>8, WithRow DEF CountLinks, Knows, At
  <2>2. Becomes(t, state) /\ UNCHANGED tables
    BY <1>8 DEF CountLinks
  <2> HIDE DEF count
  <2>3. /\ state.op = "link" /\ state.repo = txn[t].repo /\ state.id = txn[t].id
        /\ state.link = txn[t].link /\ state.count = count
    BY <1>1, <2>1 DEF Running
  <2> HIDE DEF state
  <2>4. CountsRightly(t)'
    BY <1>1, <1>3, <2>2, <2>3 DEF CountsRightly, count
  <2> QED
    BY <1>2, <1>3, <2>2, <2>4
<1>9. CASE WriteCount(t)
  <2> DEFINE state == [txn[t] EXCEPT !.pc = "commit", !.locked = TRUE]
  <2>1. txn[t] \in Running /\ (txn[t].locked \/ rowId[txn[t].oid] = txn[t].id)
    BY <1>9, WithRow DEF WriteCount, Knows, At
  <2>2. Becomes(t, state) /\ UNCHANGED tables
    BY <1>9, <2>1 DEF WriteCount
  <2>3. /\ state.op = "link" /\ state.repo = txn[t].repo /\ state.id = txn[t].id
        /\ state.link = txn[t].link /\ state.count = txn[t].count
    BY <1>1, <2>1 DEF Running
  <2> HIDE DEF state
  <2>4. CountsRightly(t)'
    BY <1>1, <1>3, <2>2, <2>3 DEF CountsRightly
  <2> QED
    BY <1>2, <1>3, <2>2, <2>4
<1>10. ~Update(t) /\ ~UpdateRow(t) /\ ~Reload(t)
  BY <1>1 DEF TxHolds, Update, UpdateRow, Reload, At
<1> QED
  BY <1>4, <1>5, <1>6, <1>7, <1>8, <1>9, <1>10 DEF TxNext, VerifyObject

\* The links to a row after a step.
LinkedNext(id) == {link \in links' : link[2] = id}

LEMMA CommitCounts ==
    ASSUME IInv, FilesHold, NEW t \in Tx, Commit(t)
    PROVE  FilesHold'
<1> DEFINE oid == txn[t].oid
           id == txn[t].id
           pair == <<txn[t].repo, id>>
<1>1. /\ Knows(t) /\ txn' = [txn EXCEPT ![t] = NoTx]
      /\ \A o \in Oid \ {oid} :
            objects'[o] = objects[o] /\ rowId'[o] = rowId[o] /\ repoCount'[o] = repoCount[o]
      /\ objects'[oid].status = "verified" /\ rowId'[oid] = id
  BY CommitValues
<1>2. \/ repoCount' = repoCount /\ pair \in links /\ links' = links
      \/ txn[t].count > 0 /\ txn[t].link = TRUE /\ repoCount'[oid] = txn[t].count
            /\ links' = links \cup {pair}
  BY CommitValues
<1>3. /\ TypeOK /\ RowIds /\ oid \in Oid /\ id \in RowId /\ id # NoId /\ txn[t].op = "link"
      /\ \A o \in Oid \ {oid} : rowId[o] # id
      /\ objects[oid] # Db!Absent => rowId[oid] = id
      /\ objects[oid] = Db!Absent => OwnId(t)
  <2>1. /\ TypeOK /\ RowIds /\ oid \in Oid /\ id \in RowId /\ id # NoId /\ txn[t].op = "link"
        /\ objects[oid] # Db!Absent => rowId[oid] = id
        /\ objects[oid] = Db!Absent => OwnId(t)
    BY <1>1, WithRow, TxAssumption DEF IInv, FilesHold, CountsRightly
  <2> QED
    BY <2>1 DEF RowIds, OwnId
<1>4. ASSUME NEW i, i # id
      PROVE  LinkedNext(i) = Linked(i)
  BY <1>2, <1>4 DEF Linked, LinkedNext
<1>5. repoCount'[oid] = Cardinality(LinkedNext(id))
  <2>1. CASE repoCount' = repoCount /\ pair \in links /\ links' = links
    <3>1. objects[oid] # Db!Absent
      BY <1>3, <2>1 DEF OwnId
    <3>2. Db!IsVerified(oid)
      BY <1>3, <3>1, RowFields DEF FilesHold, TypeOK, Db!IsVerified
    <3> QED
      BY <1>3, <2>1, <3>1, <3>2 DEF FilesHold, CountIsTrue, Linked, LinkedNext
  <2>2. CASE txn[t].count > 0 /\ txn[t].link = TRUE /\ repoCount'[oid] = txn[t].count
                /\ links' = links \cup {pair}
    <3>1. pair \notin links /\ txn[t].count = Cardinality(Linked(id)) + 1
      BY <2>2 DEF FilesHold, CountsRightly
    <3>2. LinkedNext(id) = Linked(id) \cup {pair} /\ pair \notin Linked(id)
      BY <2>2, <3>1 DEF Linked, LinkedNext
    <3>3. IsFiniteSet(Linked(id))
      BY LinkedFinite DEF IInv
    <3>4. Cardinality(Linked(id) \cup {pair}) = Cardinality(Linked(id)) + 1
      BY <3>2, <3>3, FS_AddElement
    <3> QED
      BY <2>2, <3>1, <3>2, <3>4
  <2> QED
    BY <1>2, <2>1, <2>2
<1>6. CountIsTrue'
  <2>1. ASSUME NEW o \in Oid \ {oid}, objects'[o].status = "verified"
        PROVE  repoCount'[o] = Cardinality(LinkedNext(rowId'[o]))
    <3>1. rowId[o] # id /\ rowId'[o] = rowId[o] /\ Db!IsVerified(o)
      BY <1>1, <1>3, <2>1 DEF Db!IsVerified
    <3> QED
      BY <1>1, <1>4, <2>1, <3>1 DEF FilesHold, CountIsTrue
  <2> QED
    BY <1>1, <1>5, <2>1 DEF CountIsTrue, Db!IsVerified, Linked, LinkedNext
<1>7. ASSUME NEW u \in Tx \ {t}
      PROVE  CountsRightly(u)'
  <2>1. txn'[u] = txn[u] /\ CountsRightly(u) /\ TxHolds(u) /\ txn[u].count \in Nat
    BY <1>1, <1>3, TxFields DEF FilesHold, TypeOK, IInv
  <2>2. CASE Knows(u)
    <3>1. txn[u].id # id
      BY <1>1, <1>3, <2>1, <2>2, LinkIdsDiffer DEF CountsRightly
    <3>2. LinkedNext(txn[u].id) = Linked(txn[u].id)
      BY <1>4, <3>1
    <3>3. <<txn[u].repo, txn[u].id>> \notin links => <<txn[u].repo, txn[u].id>> \notin links'
      BY <1>2, <3>1
    <3> QED
      BY <2>1, <3>2, <3>3 DEF CountsRightly, Linked, LinkedNext
  <2>3. CASE ~Knows(u)
    <3>1. ~txn[u].link /\ ~(txn[u].count > 0)
      BY <2>1, <2>3 DEF TxHolds, Knows, At
    <3> QED
      BY <2>1, <3>1 DEF CountsRightly
  <2> QED
    BY <2>2, <2>3
<1>8. CountsRightly(t)'
  <2>1. txn'[t] = NoTx
    BY <1>1, <1>3 DEF TypeOK
  <2>2. NoTx.op = "link" /\ ~NoTx.link /\ ~(NoTx.count > 0)
    BY NoTxFields
  <2> QED
    BY <2>1, <2>2 DEF CountsRightly
<1>9. ASSUME NEW o \in Oid
      PROVE  objects'[o].status # "pending" /\ (objects'[o] = Db!Absent => repoCount'[o] = 0)
  BY <1>1, AbsentType DEF FilesHold
<1> QED
  BY <1>6, <1>7, <1>8, <1>9 DEF FilesHold

LEMMA SweepCounts ==
    ASSUME IInv, FilesHold, NEW j \in Instance, SweepNext(j)
    PROVE  FilesHold'
<1>1. CASE DeleteRows(j)
  <2>1. /\ links' = links /\ txn' = txn
        /\ \A o \in Oid : \/ objects'[o] = Db!Absent /\ repoCount'[o] = 0
                          \/ /\ objects'[o] = objects[o] /\ rowId'[o] = rowId[o]
                             /\ repoCount'[o] = repoCount[o]
    BY <1>1 DEF DeleteRows
  <2>2. CountIsTrue'
    BY <2>1, AbsentType DEF FilesHold, CountIsTrue, Db!IsVerified, Linked, LinkedNext
  <2>3. \A t \in Tx : CountsRightly(t)'
    BY <2>1 DEF FilesHold, CountsRightly, Linked
  <2>4. ASSUME NEW o \in Oid
        PROVE  objects'[o].status # "pending" /\ (objects'[o] = Db!Absent => repoCount'[o] = 0)
    BY <2>1, AbsentType DEF FilesHold
  <2> QED
    BY <2>2, <2>3, <2>4 DEF FilesHold
<1>2. CASE ~DeleteRows(j)
  <2>1. UNCHANGED tables /\ txn' = txn
    BY <1>2 DEF SweepNext, SweepOrphanObjects, SweepUnreferencedObjects, Select, SweepRollback
  <2> QED
    BY <2>1, LocalCounts
<1> QED
  BY <1>1, <1>2

LEMMA UnlinkCounts ==
    ASSUME IInv, FilesHold, NEW repo \in Repo, NEW oid \in Oid, Unlink(repo, oid)
    PROVE  FilesHold'
<1> DEFINE id == rowId[oid]
           pair == <<repo, id>>
<1>1. /\ TypeOK /\ pair \in links /\ Unlocked(oid) /\ links' = links \ {pair}
      /\ repoCount' = [repoCount EXCEPT ![oid] = Cardinality(Linked(id)) - 1]
      /\ objects' = objects /\ rowId' = rowId /\ txn' = txn
  BY DEF Unlink, IInv
<1>2. id # NoId /\ objects[oid] # Db!Absent /\ \A o \in Oid \ {oid} : rowId[o] # id
  BY <1>1, NoIdUnlinked DEF IInv, RowIds
<1>3. ASSUME NEW i, i # id
      PROVE  LinkedNext(i) = Linked(i)
  BY <1>1, <1>3 DEF Linked, LinkedNext
<1>4. Cardinality(LinkedNext(id)) = Cardinality(Linked(id)) - 1
  <2>1. LinkedNext(id) = Linked(id) \ {pair} /\ pair \in Linked(id)
    BY <1>1 DEF Linked, LinkedNext
  <2>2. IsFiniteSet(Linked(id))
    BY LinkedFinite DEF IInv
  <2> QED
    BY <2>1, <2>2, FS_RemoveElement
<1>5. CountIsTrue'
  <2>1. ASSUME NEW o \in Oid, Db!IsVerified(o)
        PROVE  repoCount'[o] = Cardinality(LinkedNext(rowId[o]))
    <3>1. CASE o = oid
      <4>1. repoCount'[oid] = Cardinality(Linked(id)) - 1
        BY <1>1 DEF TypeOK
      <4> QED
        BY <1>4, <3>1, <4>1
    <3>2. CASE o # oid
      <4>1. repoCount'[o] = repoCount[o] /\ rowId[o] # id
        BY <1>1, <1>2, <3>2 DEF TypeOK
      <4> QED
        BY <1>3, <2>1, <4>1 DEF FilesHold, CountIsTrue
    <3> QED
      BY <3>1, <3>2
  <2> QED
    BY <1>1, <2>1 DEF CountIsTrue, Db!IsVerified, Linked, LinkedNext
<1>6. ASSUME NEW u \in Tx
      PROVE  CountsRightly(u)'
  <2>1. txn'[u] = txn[u] /\ CountsRightly(u) /\ TxHolds(u) /\ txn[u].count \in Nat
    BY <1>1, TxFields DEF FilesHold, IInv
  <2>2. CASE Knows(u)
    <3>1. txn[u].id # id
      BY <1>1, <1>2, <2>1, <2>2, UnlockedIsOther DEF CountsRightly
    <3>2. LinkedNext(txn[u].id) = Linked(txn[u].id) /\ links' \subseteq links
      BY <1>1, <1>3, <3>1
    <3> QED
      BY <2>1, <3>2 DEF CountsRightly, Linked, LinkedNext
  <2>3. CASE ~Knows(u)
    <3>1. ~txn[u].link /\ ~(txn[u].count > 0)
      BY <2>1, <2>3 DEF TxHolds, Knows, At
    <3> QED
      BY <2>1, <3>1 DEF CountsRightly
  <2> QED
    BY <2>2, <2>3
<1>7. ASSUME NEW o \in Oid
      PROVE  objects'[o].status # "pending" /\ (objects'[o] = Db!Absent => repoCount'[o] = 0)
  <2>1. o # oid => repoCount'[o] = repoCount[o]
    BY <1>1 DEF TypeOK
  <2> QED
    BY <1>1, <1>2, <2>1 DEF FilesHold
<1> QED
  BY <1>5, <1>6, <1>7 DEF FilesHold

OperatorUnlinks == \E repo \in Repo, oid \in Oid : Unlink(repo, oid)

LEMMA OperatorStep ==
    ASSUME ~Presigning, IInv, FilesHold, Next \/ OperatorUnlinks
    PROVE  IInv' /\ FilesHold'
<1>1. CASE OperatorUnlinks
  BY <1>1, UnlinkStep, UnlinkCounts DEF OperatorUnlinks
<1>2. CASE Next
  <2>1. IInv'
    BY <1>2, NextIInv, FilesDeleteSafely
  <2>2. ASSUME NEW t \in Tx, TxNext(t)
        PROVE  FilesHold'
    BY <2>2, TxCounts, CommitCounts
  <2>3. ASSUME NEW oid \in Oid
        PROVE  ~InsertPendingObject(oid) /\ ~Age(oid)
    BY DEF InsertPendingObject, Age, FilesHold
  <2> QED
    BY <1>2, <2>1, <2>2, <2>3, SweepCounts DEF Next
<1> QED
  BY <1>1, <1>2

\* The inductive invariant where only filesystem backends are configured.
THEOREM OperatorInvariant ==
    ASSUME ~Presigning
    PROVE  OperatorSpec => [](IInv /\ FilesHold)
<1>1. Init => IInv /\ FilesHold
  <2>1. ASSUME Init
        PROVE  FilesHold
    BY <2>1, AbsentType, NoTxFields DEF Init, FilesHold, CountIsTrue, CountsRightly, Db!IsVerified
  <2> QED
    BY <2>1, InitIInv
<1>2. IInv /\ FilesHold /\ [Next \/ OperatorUnlinks]_vars => (IInv /\ FilesHold)'
  <2>1. ASSUME IInv, FilesHold, UNCHANGED vars
        PROVE  FilesHold'
    BY <2>1, LocalCounts DEF vars, tables
  <2> QED
    BY <2>1, OperatorStep, StutterIInv
<1> QED
  BY <1>1, <1>2, PTL DEF OperatorSpec, OperatorUnlinks

\* repo_count is exact, so that what the sweep deletes nobody is linked to
\* (objects.go:98-117, janitor.go:22-23).
THEOREM CountsAreTrue ==
    ASSUME ~Presigning
    PROVE  OperatorSpec => []CountIsTrue
<1>1. FilesHold => CountIsTrue
  BY DEF FilesHold
<1> QED
  BY <1>1, OperatorInvariant, PTL

\* A repository that is linked again while its object is being swept is linked
\* to a row that exists (objects.go:306-310).
THEOREM RelinkedRows ==
    ASSUME ~Presigning
    PROVE  OperatorSpec => []LinkedRowExists
<1>1. IInv => LinkedRowExists
  BY DEF IInv
<1> QED
  BY <1>1, OperatorInvariant, PTL

\* Without VerifyObject no transactions wait for one another for ever.
THEOREM LinksDoNotDeadlock ==
    ASSUME ~Presigning
    PROVE  OperatorSpec => []NoDeadlock
<1>1. IInv /\ FilesHold => NoDeadlock
  BY LinksNeverDeadlock DEF FilesHold, CountsRightly, NoDeadlock
<1> QED
  BY <1>1, OperatorInvariant, PTL

LEMMA UnlinkRefines ==
    ASSUME IInv, NEW repo \in Repo, NEW oid \in Oid, Unlink(repo, oid)
    PROVE  Db!Unlink(repo, oid)
<1>1. /\ <<repo, rowId[oid]>> \in links /\ links' = links \ {<<repo, rowId[oid]>>}
      /\ objects' = objects /\ rowId' = rowId /\ rowId[oid] # NoId /\ RowIds
  BY NoIdUnlinked DEF Unlink, IInv
<1>2. ASSUME NEW r \in Repo, NEW o \in Oid
      PROVE  <<r, rowId'[o]>> \in links' <=> <<r, rowId[o]>> \in links /\ ~(r = repo /\ o = oid)
  BY <1>1 DEF RowIds
<1>3. LinkedPairs' = LinkedPairs \ {<<repo, oid>>} /\ <<repo, oid>> \in LinkedPairs
  BY <1>1, <1>2 DEF LinkedPairs
<1> QED
  BY <1>1, <1>3 DEF Db!Unlink

\* The refinement also holds where operators unlink, if nothing presigns.
THEOREM OperatorRefinesDatabase ==
    ASSUME ~Presigning
    PROVE  OperatorSpec => DatabaseOperatorSpec
<1> DEFINE DbUnlinks == \E repo \in Repo, oid \in Oid : Db!Unlink(repo, oid)
<1>1. IInv /\ FilesHold /\ [Next \/ OperatorUnlinks]_vars => [Db!DbNext \/ DbUnlinks]_(Db!dbVars)
  <2>1. ASSUME IInv, FilesHold, Next
        PROVE  Db!DbNext \/ UNCHANGED Db!dbVars
    BY <2>1, NextRefines, FilesDeleteSafely
  <2>2. ASSUME IInv, OperatorUnlinks
        PROVE  DbUnlinks
    BY <2>2, UnlinkRefines DEF OperatorUnlinks
  <2>3. UNCHANGED vars => UNCHANGED Db!dbVars
    BY DEF vars, Db!dbVars, LinkedPairs
  <2> QED
    BY <2>1, <2>2, <2>3
<1> QED
  BY <1>1, InitRefines, OperatorInvariant, PTL
     DEF OperatorSpec, OperatorUnlinks, DatabaseOperatorSpec, Db!DbOperatorSpec

-----------------------------------------------------------------------------
(***************************************************************************)
(* Locks, in every configuration and with an operator.                     *)
(***************************************************************************)

\* A step of one transaction.
LEMMA LockStep ==
    ASSUME LockIInv, NEW t \in Tx, NEW state, Becomes(t, state), UNCHANGED sweeping,
           LockOrder(t)',
           state.locked => \/ txn[t].locked /\ state.oid = txn[t].oid
                           \/ FreeFor(t, state.oid)
    PROVE  LockIInv'
<1>1. txn'[t] = state /\ \A u \in Tx \ {t} : txn'[u] = txn[u]
  BY DEF LockIInv, Becomes
<1>2. txn' = [u \in Tx |-> txn'[u]] /\ sweeping' = [j \in Instance |-> sweeping'[j]]
  BY DEF LockIInv, Becomes
<1>3. \A u \in Tx : LockOrder(u)'
  BY <1>1 DEF LockIInv, LockOrder, At, Knows
<1>4. ASSUME NEW u \in Tx, NEW v \in Tx, txn'[u].locked, txn'[v].locked,
             txn'[u].oid = txn'[v].oid
      PROVE  u = v
  BY <1>1, <1>4 DEF LockIInv, LocksExclude, FreeFor, Holds
<1>5. ASSUME NEW u \in Tx, txn'[u].locked
      PROVE  ~Swept(txn'[u].oid)
  BY <1>1, <1>5 DEF LockIInv, LocksExclude, FreeFor
<1>6. LocksExclude'
  BY <1>4, <1>5 DEF LockIInv, LocksExclude, Swept
<1> QED
  BY <1>2, <1>3, <1>6 DEF LockIInv

\* A step of the janitors, or of nobody.
LEMMA SweepLockStep ==
    ASSUME LockIInv, UNCHANGED txn, NEW j \in Instance, NEW state,
           sweeping' = [sweeping EXCEPT ![j] = state],
           \A oid \in state.oids : oid \in sweeping[j].oids \/ Unlocked(oid)
    PROVE  LockIInv'
<1>1. sweeping'[j] = state /\ \A i \in Instance \ {j} : sweeping'[i] = sweeping[i]
  BY DEF LockIInv
<1>2. ASSUME NEW u \in Tx, txn[u].locked, NEW i \in Instance
      PROVE  txn[u].oid \notin sweeping'[i].oids
  BY <1>1, <1>2 DEF LockIInv, LocksExclude, Unlocked, Holds, Swept
<1>3. ASSUME NEW i \in Instance, NEW k \in Instance, sweeping'[i].oids \cap sweeping'[k].oids # {}
      PROVE  i = k
  BY <1>1, <1>3 DEF LockIInv, LocksExclude, Unlocked, Swept
<1>4. LocksExclude'
  BY <1>2, <1>3 DEF LockIInv, LocksExclude, Swept
<1> QED
  BY <1>4 DEF LockIInv, LockOrder, At, Knows

\* The fields that EXCEPT does not mention stay.
LEMMA TxSteps ==
    ASSUME LockIInv, NEW t \in Tx, TxNext(t)
    PROVE  LockIInv'
<1>0. LockOrder(t) /\ DOMAIN txn[t] = DOMAIN NoTx
  BY DEF LockIInv, LockOrder
<1>1. ASSUME NEW state, Becomes(t, state)
      PROVE  txn'[t] = state
  BY <1>1 DEF LockIInv, Becomes
<1>2. ASSUME NEW op, NEW pc, NEW repo, NEW oid, NEW size, NEW uri,
             Begin(t, op, pc, repo, oid, size, uri),
             <<op, pc>> \in {<<"link", "upsert">>, <<"verify", "update">>}
      PROVE  LockIInv'
  <2> DEFINE state == [NoTx EXCEPT !.pc = pc, !.op = op, !.repo = repo, !.oid = oid,
                                   !.size = size, !.uri = uri]
  <2>1. /\ state.pc = pc /\ state.op = op /\ state.locked = FALSE /\ state.link = FALSE
        /\ DOMAIN state = DOMAIN NoTx
    BY DEF NoTx
  <2>2. Becomes(t, state) /\ UNCHANGED sweeping
    BY <1>2 DEF Begin
  <2> HIDE DEF state
  <2>3. LockOrder(t)'
    BY <1>1, <1>2, <2>1, <2>2 DEF LockOrder, At, Knows
  <2> QED
    BY <2>1, <2>2, <2>3, LockStep
<1>3. ASSUME NEW state, Becomes(t, state), UNCHANGED sweeping, state = NoTx
      PROVE  LockIInv'
  <2>1. LockOrder(t)'
    BY <1>1, <1>3, NoTxFields DEF LockOrder, At, Knows
  <2> QED
    BY <1>3, <2>1, NoTxFields, LockStep
<1>4. ASSUME NEW state, Becomes(t, state), UNCHANGED sweeping,
             DOMAIN state = DOMAIN txn[t], state.op = txn[t].op, state.oid = txn[t].oid,
             state.locked => txn[t].locked \/ FreeFor(t, txn[t].oid),
             state.pc \in {"lock", "reload"} => txn[t].op = "verify",
             state.pc \in {"lock", "reload", "insert", "count", "write", "commit"},
             txn[t].op = "link" /\ state.pc \in {"insert", "count", "write", "commit"} =>
                state.locked,
             state.link => state.pc \in {"count", "write", "commit"}
      PROVE  LockIInv'
  <2>1. LockOrder(t)'
    BY <1>0, <1>1, <1>4 DEF LockOrder, At, Knows
  <2> QED
    BY <1>4, <2>1, LockStep
<1>5. CASE Upsert(t)
  <2> DEFINE oid == txn[t].oid
             row == Db!Upserted(oid, txn[t].size, txn[t].uri)
  <2>1. PICK id : Becomes(t, [txn[t] EXCEPT !.pc = "insert", !.locked = TRUE,
                                            !.row = row, !.uri = row.uri, !.id = id])
    BY <1>5 DEF Upsert
  <2> HIDE DEF row
  <2> DEFINE state == [txn[t] EXCEPT !.pc = "insert", !.locked = TRUE,
                                     !.row = row, !.uri = row.uri, !.id = id]
  <2>2. /\ state.pc = "insert" /\ state.locked = TRUE /\ state.oid = oid
        /\ state.op = txn[t].op /\ state.link = txn[t].link /\ DOMAIN state = DOMAIN txn[t]
    BY <1>0 DEF NoTx
  <2>3. FreeFor(t, oid) /\ UNCHANGED sweeping /\ ~txn[t].link /\ Becomes(t, state)
    BY <1>0, <1>5, <2>1 DEF Upsert, LockOrder, At
  <2> HIDE DEF state, oid
  <2> QED
    BY <1>4, <2>2, <2>3 DEF oid
<1>6. CASE Update(t)
  <2>1. PICK pc, id : /\ Becomes(t, [txn[t] EXCEPT !.pc = pc, !.id = id])
                     /\ pc \in {"lock", "reload"}
    <3>1. CASE objects[txn[t].oid].status = "pending"
      BY <1>6, <3>1 DEF Update
    <3>2. CASE objects[txn[t].oid].status # "pending"
      <4>1. [txn[t] EXCEPT !.pc = "reload"] = [txn[t] EXCEPT !.pc = "reload", !.id = txn[t].id]
        BY <1>0 DEF NoTx
      <4> QED
        BY <1>6, <3>2, <4>1 DEF Update
    <3> QED
      BY <3>1, <3>2
  <2> DEFINE state == [txn[t] EXCEPT !.pc = pc, !.id = id]
  <2>2. /\ state.pc = pc /\ state.locked = txn[t].locked /\ state.oid = txn[t].oid
        /\ state.op = txn[t].op /\ state.link = txn[t].link /\ DOMAIN state = DOMAIN txn[t]
    BY <1>0 DEF NoTx
  <2>3. txn[t].op = "verify" /\ ~txn[t].link /\ UNCHANGED sweeping /\ Becomes(t, state)
    BY <1>0, <1>6, <2>1 DEF Update, LockOrder, At
  <2> HIDE DEF state
  <2> QED
    BY <1>4, <2>1, <2>2, <2>3
<1>7. CASE UpdateRow(t)
  <2>1. PICK locked, row : /\ Becomes(t, [txn[t] EXCEPT !.pc = "reload", !.locked = locked,
                                                        !.row = row])
                           /\ locked => txn[t].locked \/ FreeFor(t, txn[t].oid)
    <3>1. [txn[t] EXCEPT !.pc = "reload"] =
            [txn[t] EXCEPT !.pc = "reload", !.locked = txn[t].locked, !.row = txn[t].row]
      BY <1>0 DEF NoTx
    <3>2. CASE FreeFor(t, txn[t].oid) /\ rowId[txn[t].oid] = txn[t].id
      <4> DEFINE read == IF objects[txn[t].oid].status = "pending"
                         THEN Db!Verified(txn[t].size, txn[t].uri)
                         ELSE Db!Absent
      <4>1. Becomes(t, [txn[t] EXCEPT !.pc = "reload", !.locked = TRUE, !.row = read])
        BY <1>7, <3>2 DEF UpdateRow
      <4> HIDE DEF read
      <4> QED
        BY <3>2, <4>1
    <3>3. CASE rowId[txn[t].oid] # txn[t].id
      <4>1. Becomes(t, [txn[t] EXCEPT !.pc = "reload"])
        BY <1>7, <3>3 DEF UpdateRow
      <4>2. Becomes(t, [txn[t] EXCEPT !.pc = "reload", !.locked = txn[t].locked,
                                      !.row = txn[t].row])
        BY <3>1, <4>1 DEF Becomes
      <4> WITNESS txn[t].locked, txn[t].row
      <4> QED
        BY <4>2
    <3> QED
      BY <1>7, <3>2, <3>3 DEF UpdateRow
  <2> DEFINE state == [txn[t] EXCEPT !.pc = "reload", !.locked = locked, !.row = row]
  <2>2. /\ state.pc = "reload" /\ state.locked = locked /\ state.oid = txn[t].oid
        /\ state.op = txn[t].op /\ state.link = txn[t].link /\ DOMAIN state = DOMAIN txn[t]
    BY <1>0 DEF NoTx
  <2>3. txn[t].op = "verify" /\ ~txn[t].link /\ UNCHANGED sweeping /\ Becomes(t, state)
    BY <1>0, <1>7, <2>1 DEF UpdateRow, LockOrder, At
  <2> HIDE DEF state
  <2> QED
    BY <1>4, <2>1, <2>2, <2>3
<1>8. CASE Reload(t)
  <2> DEFINE row == IF txn[t].row = Db!Absent THEN objects[txn[t].oid] ELSE txn[t].row
             state == [txn[t] EXCEPT !.pc = "insert", !.uri = row.uri, !.id = rowId[txn[t].oid]]
  <2>1. txn[t].op = "verify" /\ ~txn[t].link /\ UNCHANGED sweeping /\ Becomes(t, state)
    BY <1>0, <1>8 DEF Reload, LockOrder, At
  <2> HIDE DEF row
  <2>2. /\ state.pc = "insert" /\ state.locked = txn[t].locked /\ state.oid = txn[t].oid
        /\ state.op = txn[t].op /\ state.link = txn[t].link /\ DOMAIN state = DOMAIN txn[t]
    BY <1>0 DEF NoTx
  <2> HIDE DEF state
  <2> QED
    BY <1>4, <2>1, <2>2
<1>9. CASE InsertLink(t)
  <2>1. PICK pc, link : /\ Becomes(t, [txn[t] EXCEPT !.pc = pc, !.link = link])
                       /\ pc \in {"count", "commit"}
    <3>1. [txn[t] EXCEPT !.pc = "commit"] =
            [txn[t] EXCEPT !.pc = "commit", !.link = txn[t].link]
      BY <1>0 DEF NoTx
    <3> QED
      BY <1>9, <3>1 DEF InsertLink
  <2> DEFINE state == [txn[t] EXCEPT !.pc = pc, !.link = link]
  <2>2. /\ state.pc = pc /\ state.locked = txn[t].locked /\ state.oid = txn[t].oid
        /\ state.op = txn[t].op /\ DOMAIN state = DOMAIN txn[t]
    BY <1>0 DEF NoTx
  <2>3. /\ txn[t].op = "link" => txn[t].locked
        /\ UNCHANGED sweeping /\ Becomes(t, state)
    BY <1>0, <1>9, <2>1 DEF InsertLink, LockOrder, At, Knows
  <2> HIDE DEF state
  <2> QED
    BY <1>4, <2>1, <2>2, <2>3
<1>10. CASE CountLinks(t)
  <2> DEFINE count == Cardinality(Linked(txn[t].id)) + 1
             state == [txn[t] EXCEPT !.pc = "write", !.count = count]
  <2>1. /\ txn[t].op = "link" => txn[t].locked
        /\ UNCHANGED sweeping /\ Becomes(t, state)
    BY <1>0, <1>10 DEF CountLinks, LockOrder, At, Knows
  <2> HIDE DEF count
  <2>2. /\ state.pc = "write" /\ state.locked = txn[t].locked /\ state.oid = txn[t].oid
        /\ state.op = txn[t].op /\ DOMAIN state = DOMAIN txn[t]
    BY <1>0 DEF NoTx
  <2> HIDE DEF state
  <2> QED
    BY <1>4, <2>1, <2>2
<1>11. CASE WriteCount(t)
  <2>1. PICK locked, count : /\ Becomes(t, [txn[t] EXCEPT !.pc = "commit", !.locked = locked,
                                                          !.count = count])
                             /\ locked => txn[t].locked \/ FreeFor(t, txn[t].oid)
                             /\ txn[t].locked => locked
    <3>1. /\ [txn[t] EXCEPT !.pc = "commit", !.locked = TRUE] =
                [txn[t] EXCEPT !.pc = "commit", !.locked = TRUE, !.count = txn[t].count]
          /\ [txn[t] EXCEPT !.pc = "commit", !.count = 0] =
                [txn[t] EXCEPT !.pc = "commit", !.locked = txn[t].locked, !.count = 0]
      BY <1>0 DEF NoTx
    <3>2. CASE txn[t].locked \/ (rowId[txn[t].oid] = txn[t].id /\ FreeFor(t, txn[t].oid))
      <4>1. Becomes(t, [txn[t] EXCEPT !.pc = "commit", !.locked = TRUE])
        BY <1>11, <3>2 DEF WriteCount
      <4>2. Becomes(t, [txn[t] EXCEPT !.pc = "commit", !.locked = TRUE,
                                      !.count = txn[t].count])
        BY <3>1, <4>1 DEF Becomes
      <4> QED
        BY <3>2, <4>2
    <3>3. CASE ~txn[t].locked /\ rowId[txn[t].oid] # txn[t].id
      <4>1. Becomes(t, [txn[t] EXCEPT !.pc = "commit", !.count = 0])
        BY <1>11, <3>3 DEF WriteCount
      <4>2. Becomes(t, [txn[t] EXCEPT !.pc = "commit", !.locked = txn[t].locked, !.count = 0])
        BY <3>1, <4>1 DEF Becomes
      <4> WITNESS txn[t].locked, 0
      <4> QED
        BY <4>2
    <3> QED
      BY <1>11, <3>2, <3>3 DEF WriteCount
  <2> DEFINE state == [txn[t] EXCEPT !.pc = "commit", !.locked = locked, !.count = count]
  <2>2. /\ state.pc = "commit" /\ state.locked = locked /\ state.oid = txn[t].oid
        /\ state.op = txn[t].op /\ DOMAIN state = DOMAIN txn[t]
    BY <1>0 DEF NoTx
  <2>3. /\ txn[t].op = "link" => txn[t].locked
        /\ UNCHANGED sweeping /\ Becomes(t, state)
    BY <1>0, <1>11, <2>1 DEF WriteCount, LockOrder, At, Knows
  <2> HIDE DEF state
  <2> QED
    BY <1>4, <2>1, <2>2, <2>3
<1>12. CASE Commit(t) \/ Rollback(t)
  BY <1>3, <1>12 DEF Commit, Rollback
<1> QED
  BY <1>2, <1>5, <1>6, <1>7, <1>8, <1>9, <1>10, <1>11, <1>12
     DEF TxNext, LinkObject, VerifyObject

LEMMA LockNext ==
    ASSUME LockIInv, Next \/ OperatorUnlinks
    PROVE  LockIInv'
<1>1. ASSUME NEW j \in Instance, SweepNext(j)
      PROVE  LockIInv'
  <2>1. ASSUME NEW query, NEW oids, Select(j, query, oids)
        PROVE  LockIInv'
    <3> DEFINE state == [query |-> query, oids |-> oids]
    <3>1. /\ UNCHANGED txn /\ sweeping' = [sweeping EXCEPT ![j] = state]
          /\ \A oid \in state.oids : Unlocked(oid)
      BY <2>1 DEF Select
    <3> HIDE DEF state
    <3> QED
      BY <3>1, SweepLockStep
  <2>2. CASE DeleteRows(j) \/ SweepRollback(j)
    BY <2>2, SweepLockStep DEF DeleteRows, SweepRollback, NoSweep
  <2> QED
    BY <1>1, <2>1, <2>2 DEF SweepNext, SweepOrphanObjects, SweepUnreferencedObjects
<1>2. ASSUME UNCHANGED <<txn, sweeping>>
      PROVE  LockIInv'
  BY <1>2 DEF LockIInv, LocksExclude, Swept, LockOrder, At, Knows
<1> QED
  BY <1>1, <1>2, TxSteps
     DEF Next, OperatorUnlinks, Unlink, InsertPendingObject, Age

THEOREM LockInvariant == OperatorSpec => []LockIInv
<1>1. Init => LockIInv
  BY NoTxFields DEF Init, LockIInv, LocksExclude, LockOrder, NoSweep, Swept, At, Knows
<1>2. LockIInv /\ [Next \/ OperatorUnlinks]_vars => LockIInv'
  <2>1. ASSUME LockIInv, UNCHANGED vars
        PROVE  LockIInv'
    BY <2>1 DEF vars, LockIInv, LocksExclude, Swept, LockOrder, At, Knows
  <2> QED
    BY <2>1, LockNext
<1> QED
  BY <1>1, <1>2, PTL DEF OperatorSpec, OperatorUnlinks

(***************************************************************************)
(* In every deadlock there is a VerifyObject (objects.go:138-196), with    *)
(* any storages and also while an operator unlinks.  Of transactions of    *)
(* LinkObject alone, one that waits for a row waits for one that waits for *)
(* a pair, and that for one that waits for nothing.                        *)
(***************************************************************************)
THEOREM OnlyVerifyDeadlocks == OperatorSpec => []DeadlockHasVerify
<1>1. LockIInv => DeadlockHasVerify
  <2> SUFFICES ASSUME LockIInv, NEW ts \in SUBSET Tx, \A t \in ts : txn[t].op # "verify",
                      Deadlock(ts)
               PROVE  FALSE
    BY DEF DeadlockHasVerify
  <2>1. ASSUME NEW t \in ts, NEW u \in ts, WaitsFor(t, u)
        PROVE  \/ At(t, "upsert") /\ txn[u].locked
               \/ At(t, "insert") /\ txn[u].link
    BY <2>1 DEF LockIInv, LockOrder, WaitsFor, Holds, At, Knows
  <2>2. PICK t \in ts, u \in ts, v \in ts, w \in ts :
            WaitsFor(t, u) /\ WaitsFor(u, v) /\ WaitsFor(v, w)
    BY DEF Deadlock
  <2>3. ~txn[u].link /\ ~txn[v].link
    BY <2>1, <2>2 DEF LockIInv, LockOrder, At
  <2>4. At(t, "upsert") /\ txn[u].locked /\ At(u, "upsert")
    BY <2>1, <2>2, <2>3
  <2> QED
    BY <2>4 DEF LockIInv, LockOrder, At
<1> QED
  BY <1>1, LockInvariant, PTL
=============================================================================
