------------------------------ MODULE SweepOrder ------------------------------
(***************************************************************************)
(* Whether the janitor gets to every row.  A tick takes at most            *)
(* sweepBatchSize rows of each kind, the oldest first, passes over the     *)
(* rows that are locked, and fails as a whole if the database does, while  *)
(* clients go on adding rows.  The tables are those of Database; added to  *)
(* them are the order of their timestamps and the locks of their rows.     *)
(***************************************************************************)
EXTENDS Database, FiniteSets

CONSTANTS
    SweepBatchSize, \* sweepBatchSize
    MaxCalls        \* bound: the INSERTs and transactions in progress

ASSUME BatchAssumption == SweepBatchSize \in Nat \ {0} /\ MaxCalls \in Nat

VARIABLES
    inserting,  \* the objects for which an INSERT of a pending row has begun
    running,    \* the objects for which a LinkObject or VerifyObject has begun
    locked,     \* those whose row it holds
    older       \* <<s, t>>: the time s comes before the time t

orderVars == <<inserting, running, locked, older>>

vars == <<dbVars, orderVars>>

Rows == {oid \in Oid : objects[oid] # Absent}
Orphans == {oid \in Oid : Orphan(oid)}
Unneeded == {oid \in Oid : Unreferenced(oid)}

(***************************************************************************)
(* The times that matter: the created_at of the pending rows with the      *)
(* now() of the INSERTs, and on the other hand the verified_at of the      *)
(* verified rows with the now() of the transactions.  now() is when a      *)
(* statement or transaction began, however long it has waited since.       *)
(***************************************************************************)
CreatedAt(oid) == <<"created_at", oid>>
InsertTime(oid) == <<"insert", oid>>
VerifiedAt(oid) == <<"verified_at", oid>>
TxTime(oid) == <<"now", oid>>

CreationTimes ==
    {CreatedAt(oid) : oid \in {o \in Oid : objects[o].status = "pending"}}
        \cup {InsertTime(oid) : oid \in inserting}

LinkTimes ==
    {VerifiedAt(oid) : oid \in {o \in Oid : IsVerified(o)}} \cup {TxTime(oid) : oid \in running}

IsStrictOrder(order, S) ==
    /\ \A s \in S : <<s, s>> \notin order
    /\ \A s, t, u \in S : <<s, t>> \in order /\ <<t, u>> \in order => <<s, u>> \in order
    /\ \A s, t \in S : s = t \/ <<s, t>> \in order \/ <<t, s>> \in order

OrderOK ==
    /\ older \subseteq (CreationTimes \X CreationTimes) \cup (LinkTimes \X LinkTimes)
    /\ IsStrictOrder(older, CreationTimes)
    /\ IsStrictOrder(older, LinkTimes)

TypeOK ==
    /\ DbTypeOK
    /\ inserting \subseteq Oid
    /\ running \subseteq Oid /\ locked \subseteq running
    /\ IsFiniteSet(Rows)
    /\ OrderOK

Init ==
    /\ DbInit
    /\ inserting = {} /\ running = {} /\ locked = {}
    /\ older = {}

\* time comes after all of times.
Stamp(time, times) == older' = older \cup (times \X {time})

Without(times) == {pair \in older : pair[1] \notin times /\ pair[2] \notin times}

Forget(times) == older' = Without(times)

Renamed(order, from, to) ==
    LET Name(time) == IF time = from THEN to ELSE time
    IN  {<<Name(pair[1]), Name(pair[2])>> : pair \in order}

\* The time of a statement or transaction becomes that of its row; times are gone.
Settle(from, to, times) == older' = Renamed(Without(times), from, to)

Older(o, oid) ==
    <<CreatedAt(o), CreatedAt(oid)>> \in older \/ <<VerifiedAt(o), VerifiedAt(oid)>> \in older

-----------------------------------------------------------------------------
MayBegin == Cardinality(inserting) + Cardinality(running) < MaxCalls

(***************************************************************************)
(* A new upload, one INSERT at a time for each object: it begins, and ends *)
(* at some later time, for it may wait for a LinkObject of the same object *)
(* to commit or roll back.  A row that is there by then is left alone.     *)
(***************************************************************************)
BeginInsert(oid) ==
    /\ oid \notin inserting
    /\ MayBegin
    /\ inserting' = inserting \cup {oid}
    /\ Stamp(InsertTime(oid), CreationTimes)
    /\ UNCHANGED <<dbVars, running, locked>>

\* Faulty variant of Insert: a new upload renews created_at.
InsertRenews(oid) ==
    /\ oid \in inserting \ locked
    /\ inserting' = inserting \ {oid}
    /\ InsertPendingObject(oid)
    /\ IF IsVerified(oid) THEN Forget({InsertTime(oid)})
       ELSE Settle(InsertTime(oid), CreatedAt(oid), {CreatedAt(oid)})
    /\ UNCHANGED <<running, locked>>

Insert(oid) ==
    /\ oid \in inserting \ locked
    /\ inserting' = inserting \ {oid}
    /\ InsertPendingObject(oid)
    /\ IF objects[oid] = Absent THEN Settle(InsertTime(oid), CreatedAt(oid), {})
       ELSE Forget({InsertTime(oid)})
    /\ UNCHANGED <<running, locked>>

InsertFails(oid) ==
    /\ oid \in inserting
    /\ inserting' = inserting \ {oid}
    /\ Forget({InsertTime(oid)})
    /\ UNCHANGED <<dbVars, running, locked>>

\* A row becomes older than orphanAge, the oldest first; no INSERT is that old.
GrowsOld(oid) ==
    /\ Age(oid) /\ ~objects[oid].aged
    /\ \A o \in Oid : objects[o].status = "pending" /\ Older(o, oid)
                        => objects[o].aged
    /\ \A o \in inserting : <<InsertTime(o), CreatedAt(oid)>> \notin older
    /\ UNCHANGED orderVars

(***************************************************************************)
(* LinkObject and VerifyObject, one at a time for each object: one begins, *)
(* waits for the lock of its row (LinkObject may add the row), and ends.   *)
(* A VerifyObject of a verified row locks late; that its row may be swept  *)
(* before ends it for the rows, as Rollback does.                          *)
(***************************************************************************)
BeginTx(oid) ==
    /\ oid \notin running
    /\ MayBegin
    /\ running' = running \cup {oid}
    /\ Stamp(TxTime(oid), LinkTimes)
    /\ UNCHANGED <<dbVars, inserting, locked>>

Lock(oid) ==
    /\ oid \in running \ locked
    /\ locked' = locked \cup {oid}
    /\ UNCHANGED <<dbVars, inserting, running, older>>

EndTx(oid) ==
    /\ running' = running \ {oid}
    /\ locked' = locked \ {oid}
    /\ UNCHANGED inserting

Commit(repo, oid, size, uri) ==
    /\ oid \in locked
    /\ LinkObject(repo, oid, size, uri) \/ VerifyObject(repo, oid, size, uri)
    /\ IF IsVerified(oid) THEN Forget({TxTime(oid)})
       ELSE Settle(TxTime(oid), VerifiedAt(oid), {CreatedAt(oid)})
    /\ EndTx(oid)

Rollback(oid) ==
    /\ oid \in running
    /\ Forget({TxTime(oid)})
    /\ EndTx(oid)
    /\ UNCHANGED dbVars

\* An operator unlinks an object and counts its links, under the row's lock.
OperatorUnlinks(repo, oid) ==
    /\ oid \notin locked
    /\ Unlink(repo, oid)
    /\ UNCHANGED orderVars

-----------------------------------------------------------------------------
Ahead(oid, rows) == {o \in rows : Older(o, oid)}

\* Faulty variant of Selected: the newest first.
SelectedNewestFirst(rows) ==
    LET free == rows \ locked
    IN  {oid \in free : Cardinality({o \in free : oid \in Ahead(o, free)}) < SweepBatchSize}

\* Faulty variant of Selected: no row locks.
SelectedUnlocked(rows) == {oid \in rows : Cardinality(Ahead(oid, rows)) < SweepBatchSize}

\* ORDER BY ... LIMIT ... FOR UPDATE SKIP LOCKED: a row that is passed over does
\* not count.
Selected(rows) ==
    LET free == rows \ locked
    IN  {oid \in free : Cardinality(Ahead(oid, free)) < SweepBatchSize}

\* The rows and their times are gone.
Take(rows) ==
    /\ rows # {}
    /\ Forget({CreatedAt(oid) : oid \in rows} \cup {VerifiedAt(oid) : oid \in rows})
    /\ UNCHANGED <<inserting, running, locked>>

SweepOrphans == SweepOrphanObjects(Selected(Orphans)) /\ Take(Selected(Orphans))

SweepUnreferenced == SweepUnreferencedObjects(Selected(Unneeded)) /\ Take(Selected(Unneeded))

Next ==
    \/ \E oid \in Oid :
          \/ BeginInsert(oid) \/ Insert(oid) \/ InsertFails(oid) \/ GrowsOld(oid)
          \/ BeginTx(oid) \/ Lock(oid) \/ Rollback(oid)
          \/ \E repo \in Repo : OperatorUnlinks(repo, oid)
          \/ \E repo \in Repo, size \in Size, b \in Backend : Commit(repo, oid, size, URI(b, oid))
    \/ SweepOrphans \/ SweepUnreferenced

Spec == Init /\ [][Next]_vars

(***************************************************************************)
(* The janitor ticks, the database does not fail every sweep, transactions *)
(* end, and as nothing ties the ticks to what clients do, a row that is    *)
(* free again and again is not locked at each tick.                        *)
(***************************************************************************)
Fairness ==
    \A oid \in Oid :
        /\ WF_vars(\/ Rollback(oid)
                   \/ \E repo \in Repo, size \in Size, b \in Backend :
                            Commit(repo, oid, size, URI(b, oid)))
        /\ SF_vars(oid \notin locked /\ SweepOrphans)
        /\ SF_vars(oid \notin locked /\ SweepUnreferenced)

FairSpec == Spec /\ Fairness

-----------------------------------------------------------------------------
(***************************************************************************)
(* Properties.                                                             *)
(***************************************************************************)

\* The objects whose rows a sweep sees before oid's, or may once their INSERTs
\* and transactions end.
Before(oid) ==
    {o \in Oid : \/ Older(o, oid)
                 \/ <<InsertTime(o), CreatedAt(oid)>> \in older
                 \/ <<TxTime(o), VerifiedAt(oid)>> \in older}

(***************************************************************************)
(* Nothing gets in front of a row that is in the order of its kind: a row  *)
(* comes to stand before it later only if its INSERT or transaction began  *)
(* earlier.                                                                *)
(***************************************************************************)
NeverOvertaken ==
    [][\A oid \in Oid : objects[oid] # Absent /\ objects'[oid].status = objects[oid].status
            => Before(oid)' \subseteq Before(oid)]_vars

\* The rows that a step takes.
Taken == {oid \in Rows : objects'[oid] = Absent}

FullBatchBefore(oid) == Taken \subseteq Before(oid) /\ Cardinality(Taken) = SweepBatchSize

(***************************************************************************)
(* A sweep takes no more than its batch, no row that is locked, and leaves *)
(* a free row of its kind behind only if its batch is full of older ones.  *)
(***************************************************************************)
OldestFirst ==
    [][/\ Taken \cap locked = {} /\ Cardinality(Taken) <= SweepBatchSize
       /\ \A kind \in {Orphans, Unneeded} : Taken \cap kind # {} =>
            \A oid \in kind \ (Taken \cup locked) : FullBatchBefore(oid)]_vars

(***************************************************************************)
(* Every upload that was given up is swept in the end, however many newer  *)
(* ones there are, unless it gets verified after all.                      *)
(***************************************************************************)
OrphansGo == \A oid \in Oid : Orphan(oid) ~> ~Orphan(oid)

\* Every object that no repository needs is swept in the end, although older
\* ones may join it in front, unless a repository links it again.
UnreferencedGo == \A oid \in Oid : Unreferenced(oid) ~> ~Unreferenced(oid)
=============================================================================
