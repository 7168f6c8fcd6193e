--------------------------- MODULE LfsServerProofs ---------------------------
(***************************************************************************)
(* The safety of LfsServer for any number of repositories, objects, sizes, *)
(* backends, requests and janitors.                                        *)
(***************************************************************************)
EXTENDS LfsInvariant, TLAPS

-----------------------------------------------------------------------------
(***************************************************************************)
(* Type correctness.                                                       *)
(***************************************************************************)

\* URI gives a canonical location.
LEMMA URIType ==
    ASSUME NEW b \in Backend, NEW oid \in Oid
    PROVE  /\ URI(b, oid) \in Uri
           /\ URI(b, oid)[1] = b
           /\ URI(b, oid)[2] = oid
BY DEF URI, Uri

\* A row that is verified with a size and a URI is a row.
LEMMA VerifiedType ==
    ASSUME NEW size \in Size, NEW uri \in Uri \cup {Ignored}
    PROVE  /\ Verified(size, uri) \in Row
           /\ Verified(size, uri).status = "verified"
           /\ Verified(size, uri).size = size
           /\ Verified(size, uri).uri = uri
BY DEF Verified, Row

LEMMA AbsentType == Absent \in Row /\ Absent.status = "absent" /\ Absent.size = Null
BY DEF Absent, Row

LEMMA PendingType ==
    ASSUME NEW aged \in BOOLEAN
    PROVE  /\ Pending(aged) \in Row
           /\ Pending(aged).status = "pending"
BY DEF Pending, Row

\* What the status of a row says about its other fields.
LEMMA RowFields ==
    ASSUME NEW row \in Row
    PROVE  /\ row.status \in {"absent", "pending", "verified"}
           /\ row.status = "verified" => row.size \in Size /\ row.uri \in Uri \cup {Ignored}
           /\ row.status # "verified" => row.size = Null /\ row.uri = Null
           /\ row.status = "absent" => row = Absent
<1>1. CASE row = Absent
  BY <1>1 DEF Absent
<1>2. CASE row \in [status : {"pending"}, size : {Null}, uri : {Null}, aged : BOOLEAN]
  BY <1>2
<1>3. CASE row \in [status : {"verified"}, size : Size, uri : Uri \cup {Ignored},
                   aged : {FALSE}]
  BY <1>3
<1> QED
  BY <1>1, <1>2, <1>3 DEF Row

\* The transactions keep the tables well typed.
LEMMA LinkObjectType ==
    ASSUME DbTypeOK, NEW repo \in Repo, NEW oid \in Oid, NEW size \in Size,
           NEW uri \in Uri \cup {Ignored}, LinkObject(repo, oid, size, uri)
    PROVE  DbTypeOK'
<1>1. Upserted(oid, size, uri) \in Row
  BY VerifiedType DEF DbTypeOK, Upserted
<1> QED
  BY <1>1 DEF DbTypeOK, LinkObject

LEMMA VerifyObjectType ==
    ASSUME DbTypeOK, NEW repo \in Repo, NEW oid \in Oid, NEW size \in Size,
           NEW uri \in Uri, VerifyObject(repo, oid, size, uri)
    PROVE  DbTypeOK'
BY VerifiedType DEF DbTypeOK, VerifyObject

LEMMA InsertPendingType ==
    ASSUME DbTypeOK, NEW oid \in Oid, InsertPendingObject(oid)
    PROVE  DbTypeOK'
BY PendingType DEF DbTypeOK, InsertPendingObject

LEMMA DeleteRowsType ==
    ASSUME DbTypeOK, NEW oids \in SUBSET Oid, DeleteRows(oids)
    PROVE  DbTypeOK'
BY AbsentType DEF DbTypeOK, DeleteRows

LEMMA AgeType ==
    ASSUME DbTypeOK, NEW oid \in Oid, Age(oid)
    PROVE  DbTypeOK'
BY PendingType DEF DbTypeOK, Age

\* The record of a request in progress has the fields that its pc calls for.
LEMMA ConnFields ==
    ASSUME HandlersTypeOK, NEW c \in Conn
    PROVE  /\ At(c, "batch") => conn[c] \in BatchConn
           /\ conn[c].pc \in {"copy", "link", "insert", "presign", "verify", "cleanup"}
                => conn[c] \in ObjectConn
           /\ At(c, "open") => conn[c] \in DownloadConn
<1>1. conn[c] \in {Idle} \cup BatchConn \cup ObjectConn \cup DownloadConn
  BY DEF HandlersTypeOK
<1>2. CASE conn[c] = Idle
  BY <1>2 DEF Idle, At
<1>3. CASE conn[c] \in BatchConn
  BY <1>3 DEF BatchConn, At
<1>4. CASE conn[c] \in ObjectConn
  BY <1>4 DEF ObjectConn, At
<1>5. CASE conn[c] \in DownloadConn
  BY <1>5 DEF DownloadConn, At
<1> QED
  BY <1>1, <1>2, <1>3, <1>4, <1>5

\* The records that a request is set to are of the right type.
LEMMA ObjectConnType ==
    ASSUME NEW repo \in Repo, NEW oid \in Oid, NEW size \in Size,
           NEW pc \in {"copy", "link", "insert", "presign", "verify", "cleanup"}
    PROVE  [pc |-> pc, repo |-> repo, oid |-> oid, size |-> size] \in ObjectConn
BY DEF ObjectConn

LEMMA BeginType ==
    ASSUME HandlersTypeOK, NEW c \in Conn,
           NEW r \in BatchConn \cup ObjectConn \cup DownloadConn, Begin(c, r)
    PROVE  conn' \in [Conn -> {Idle} \cup BatchConn \cup ObjectConn \cup DownloadConn]
BY DEF HandlersTypeOK, Begin

LEMMA FinishType ==
    ASSUME HandlersTypeOK, NEW c \in Conn, Finish(c)
    PROVE  conn' \in [Conn -> {Idle} \cup BatchConn \cup ObjectConn \cup DownloadConn]
BY DEF HandlersTypeOK, Finish

LEMMA GoToType ==
    ASSUME HandlersTypeOK, NEW c \in Conn, conn[c] \in ObjectConn,
           NEW pc \in {"copy", "link", "insert", "presign", "verify", "cleanup"},
           GoTo(c, pc)
    PROVE  conn' \in [Conn -> {Idle} \cup BatchConn \cup ObjectConn \cup DownloadConn]
<1>1. [conn[c] EXCEPT !.pc = pc] \in ObjectConn
  BY DEF ObjectConn
<1> QED
  BY <1>1 DEF HandlersTypeOK, GoTo

LEMMA AckType ==
    ASSUME HandlersTypeOK, NEW repo \in Repo, NEW oid \in Oid, NEW size \in Size,
           Ack(repo, oid, size)
    PROVE  acked' \subseteq Repo \X Oid \X Size
BY DEF HandlersTypeOK, Ack

LEMMA NextObjectType ==
    ASSUME HandlersTypeOK, NEW c \in Conn, At(c, "batch"), NEW obj, NextObject(c, obj)
    PROVE  conn' \in [Conn -> {Idle} \cup BatchConn \cup ObjectConn \cup DownloadConn]
<1>1. conn[c] \in BatchConn
  BY ConnFields
<1>2. [conn[c] EXCEPT !.todo = conn[c].todo \ {obj}] \in BatchConn
  BY <1>1 DEF BatchConn
<1>3. CASE Finish(c)
  BY <1>3, FinishType
<1>4. CASE conn' = [conn EXCEPT ![c] = [conn[c] EXCEPT !.todo = conn[c].todo \ {obj}]]
  BY <1>2, <1>4 DEF HandlersTypeOK
<1> QED
  BY <1>3, <1>4 DEF NextObject

LEMMA ReplyOrCleanupType ==
    ASSUME HandlersTypeOK, NEW c \in Conn, conn[c] \in ObjectConn, ReplyOrCleanup(c)
    PROVE  HandlersTypeOK'
<1>1. CASE Finish(c) /\ Ack(conn[c].repo, conn[c].oid, conn[c].size)
  <2>1. conn[c].repo \in Repo /\ conn[c].oid \in Oid /\ conn[c].size \in Size
    BY DEF ObjectConn
  <2> QED
    BY <1>1, <2>1, FinishType, AckType DEF HandlersTypeOK
<1>2. CASE GoTo(c, "cleanup") /\ UNCHANGED acked
  BY <1>2, GoToType DEF HandlersTypeOK
<1> QED
  BY <1>1, <1>2 DEF ReplyOrCleanup
\* A handler's step leaves every variable in its type.
LEMMA HandlersTypeCorrect ==
    ASSUME TypeOK, HandlersNext
    PROVE  DbTypeOK' /\ StorageTypeOK' /\ HandlersTypeOK'
<1> USE DEF TypeOK
<1>0. /\ dbVars' = dbVars => DbTypeOK'
      /\ storageVars' = storageVars => StorageTypeOK'
  BY DEF dbVars, storageVars, DbTypeOK, StorageTypeOK
<1>1. ASSUME NEW c \in Conn, NEW repo \in Repo, NEW objs \in SUBSET Object,
             BatchLookup(c, repo, objs)
      PROVE  DbTypeOK' /\ StorageTypeOK' /\ HandlersTypeOK'
  <2>1. GetObjectsByOIDs({obj[1] : obj \in objs}) \in SUBSET Object
    <3>1. {obj[1] : obj \in objs} \subseteq Oid
      BY DEF Object
    <3> QED
      BY <3>1, RowFields DEF GetObjectsByOIDs, Object, IsVerified, DbTypeOK
  <2>2. [pc |-> "batch", repo |-> repo, todo |-> objs,
         found |-> GetObjectsByOIDs({obj[1] : obj \in objs})] \in BatchConn
    BY <2>1 DEF BatchConn
  <2> QED
    BY <1>0, <1>1, <2>2, BeginType DEF BatchLookup, HandlersTypeOK
<1>2. ASSUME NEW c \in Conn, NEW obj \in Object, BatchLink(c, obj)
      PROVE  DbTypeOK' /\ StorageTypeOK' /\ HandlersTypeOK'
  <2>1. conn[c] \in BatchConn /\ conn[c].repo \in Repo
    BY <1>2, ConnFields DEF BatchLink, BatchConn
  <2>2. obj[1] \in Oid /\ obj[2] \in Size
    BY DEF Object
  <2>3. DbTypeOK'
    BY <1>2, <2>1, <2>2, LinkObjectType DEF BatchLink
  <2>4. HandlersTypeOK'
    BY <1>2, <2>1, <2>2, NextObjectType, AckType DEF BatchLink, HandlersTypeOK
  <2> QED
    BY <1>0, <1>2, <2>3, <2>4 DEF BatchLink
<1>3. ASSUME NEW c \in Conn, NEW obj \in Object, BatchReply(c, obj)
      PROVE  DbTypeOK' /\ StorageTypeOK' /\ HandlersTypeOK'
  BY <1>0, <1>3, NextObjectType DEF BatchReply, HandlersTypeOK
<1>4. ASSUME NEW c \in Conn, NEW repo \in Repo, NEW oid \in Oid, NEW size \in Size,
             \/ UploadStat(c, repo, oid, size)
             \/ UploadLookup(c, repo, oid, size)
             \/ VerifyHead(c, repo, oid, size)
      PROVE  DbTypeOK' /\ StorageTypeOK' /\ HandlersTypeOK'
  <2>1. PICK pc \in {"copy", "link", "insert", "verify"} :
            Begin(c, [pc |-> pc, repo |-> repo, oid |-> oid, size |-> size])
    BY <1>4 DEF UploadStat, UploadLookup, VerifyHead
  <2>2. UNCHANGED <<acked, dbVars, storageVars>>
    BY <1>4 DEF UploadStat, UploadLookup, VerifyHead
  <2> QED
    BY <1>0, <2>1, <2>2, ObjectConnType, BeginType DEF HandlersTypeOK
<1>5. ASSUME NEW repo \in Repo, NEW oid \in Oid, NEW size \in Size,
             VerifyProxy(repo, oid, size)
      PROVE  DbTypeOK' /\ StorageTypeOK' /\ HandlersTypeOK'
  BY <1>0, <1>5, AckType DEF VerifyProxy, HandlersTypeOK
<1>6. ASSUME NEW c \in Conn, NEW repo \in Repo, NEW oid \in Oid,
             DownloadLookup(c, repo, oid)
      PROVE  DbTypeOK' /\ StorageTypeOK' /\ HandlersTypeOK'
  <2>1. objects[oid].uri \in Uri \cup {Ignored}
    BY <1>6, RowFields DEF DownloadLookup, HasRepoObject, IsVerified, DbTypeOK
  <2>2. [pc |-> "open", repo |-> repo, oid |-> oid, uri |-> objects[oid].uri]
            \in DownloadConn
    BY <2>1 DEF DownloadConn
  <2> QED
    BY <1>0, <1>6, <2>2, BeginType DEF DownloadLookup, HandlersTypeOK
<1>7. ASSUME NEW c \in Conn, UploadCopy(c)
      PROVE  DbTypeOK' /\ StorageTypeOK' /\ HandlersTypeOK'
  <2>1. conn[c] \in ObjectConn
    BY <1>7, ConnFields DEF UploadCopy, At
  <2>2. URI(StorageOf[conn[c].repo], conn[c].oid) \in Uri
    BY <2>1, URIType, ConfigAssumption DEF ObjectConn
  <2>3. StorageTypeOK'
    BY <1>7, <2>2 DEF UploadCopy, PutRename, StorageTypeOK
  <2> QED
    BY <1>0, <1>7, <2>1, <2>3, GoToType DEF UploadCopy, HandlersTypeOK
<1>8. ASSUME NEW c \in Conn, UploadLink(c)
      PROVE  DbTypeOK' /\ StorageTypeOK' /\ HandlersTypeOK'
  <2>1. conn[c] \in ObjectConn
    BY <1>8, ConnFields DEF UploadLink, At
  <2>2. /\ conn[c].repo \in Repo /\ conn[c].oid \in Oid /\ conn[c].size \in Size
        /\ OwnURI(c) \in Uri
    BY <2>1, URIType, ConfigAssumption DEF ObjectConn, OwnURI
  <2>3. DbTypeOK'
    BY <1>8, <2>2, LinkObjectType DEF UploadLink
  <2>4. HandlersTypeOK'
    BY <1>8, <2>1, ReplyOrCleanupType DEF UploadLink
  <2> QED
    BY <1>0, <1>8, <2>3, <2>4 DEF UploadLink
<1>9. ASSUME NEW c \in Conn, UploadInsert(c)
      PROVE  DbTypeOK' /\ StorageTypeOK' /\ HandlersTypeOK'
  <2>1. conn[c] \in ObjectConn /\ conn[c].oid \in Oid
    BY <1>9, ConnFields DEF UploadInsert, At, ObjectConn
  <2>2. DbTypeOK'
    BY <1>9, <2>1, InsertPendingType DEF UploadInsert
  <2> QED
    BY <1>0, <1>9, <2>1, <2>2, GoToType DEF UploadInsert, HandlersTypeOK
<1>10. ASSUME NEW c \in Conn, UploadPresign(c)
       PROVE  DbTypeOK' /\ StorageTypeOK' /\ HandlersTypeOK'
  <2>1. conn[c] \in ObjectConn
    BY <1>10, ConnFields DEF UploadPresign, At
  <2>2. /\ URI(StorageOf[conn[c].repo], conn[c].oid) \in Uri
        /\ conn[c].size \in Size
    BY <2>1, URIType, ConfigAssumption DEF ObjectConn
  <2>3. StorageTypeOK'
    BY <1>10, <2>2 DEF UploadPresign, PresignPut, StorageTypeOK
  <2> QED
    BY <1>0, <1>10, <2>3, FinishType DEF UploadPresign, HandlersTypeOK
<1>11. ASSUME NEW c \in Conn, VerifyCommit(c)
       PROVE  DbTypeOK' /\ StorageTypeOK' /\ HandlersTypeOK'
  <2>1. conn[c] \in ObjectConn
    BY <1>11, ConnFields DEF VerifyCommit, At
  <2>2. /\ conn[c].repo \in Repo /\ conn[c].oid \in Oid /\ conn[c].size \in Size
        /\ OwnURI(c) \in Uri
    BY <2>1, URIType, ConfigAssumption DEF ObjectConn, OwnURI
  <2>3. DbTypeOK'
    BY <1>11, <2>2, VerifyObjectType DEF VerifyCommit
  <2>4. HandlersTypeOK'
    BY <1>11, <2>1, ReplyOrCleanupType DEF VerifyCommit
  <2> QED
    BY <1>0, <1>11, <2>3, <2>4 DEF VerifyCommit
<1>12. ASSUME NEW c \in Conn, Cleanup(c)
       PROVE  DbTypeOK' /\ StorageTypeOK' /\ HandlersTypeOK'
  <2>1. conn[c] \in ObjectConn
    BY <1>12, ConnFields DEF Cleanup, At
  <2>2. conn[c].repo \in Repo /\ conn[c].oid \in Oid /\ conn[c].size \in Size
    BY <2>1 DEF ObjectConn
  <2>3. StorageTypeOK'
    BY <1>0, <1>12 DEF Cleanup, Delete, StorageTypeOK
  <2> QED
    BY <1>0, <1>12, <2>2, <2>3, FinishType, AckType DEF Cleanup, HandlersTypeOK
<1>13. ASSUME NEW c \in Conn, Abort(c)
       PROVE  DbTypeOK' /\ StorageTypeOK' /\ HandlersTypeOK'
  BY <1>0, <1>13, FinishType DEF Abort, HandlersTypeOK
<1> QED
  BY <1>1, <1>2, <1>3, <1>4, <1>5, <1>6, <1>7, <1>8, <1>9, <1>10, <1>11, <1>12,
     <1>13 DEF HandlersNext

\* So does a janitor's.
LEMMA JanitorTypeCorrect ==
    ASSUME TypeOK, JanitorNext
    PROVE  DbTypeOK' /\ StorageTypeOK' /\ JanitorTypeOK'
<1> USE DEF TypeOK
<1>0. /\ dbVars' = dbVars => DbTypeOK'
      /\ storageVars' = storageVars => StorageTypeOK'
  BY DEF dbVars, storageVars, DbTypeOK, StorageTypeOK
<1> DEFINE States == [pc : {"idle", "orphan", "unreferenced"},
                      queue : SUBSET (Uri \cup {Ignored})]
<1> SUFFICES ASSUME NEW j \in Instance,
                    \/ \E oids \in SUBSET Oid :
                            SweepOrphans(j, oids) \/ SweepUnreferenced(j, oids)
                    \/ \E uri \in janitor[j].queue :
                            DeleteStored(j, uri) \/ DeleteFails(j, uri)
                    \/ SweepDone(j)
                    \/ JanitorCrash(j)
             PROVE  DbTypeOK' /\ StorageTypeOK' /\ JanitorTypeOK'
  BY DEF JanitorNext
<1>1. janitor[j] \in States
  BY DEF JanitorTypeOK
<1>2. ASSUME NEW oids \in SUBSET Oid, SweepOrphans(j, oids)
      PROVE  DbTypeOK' /\ StorageTypeOK' /\ JanitorTypeOK'
  <2>1. PresignURIs(oids) \subseteq Uri
    BY URIType DEF PresignURIs, Presigner
  <2>2. DbTypeOK'
    BY <1>2, DeleteRowsType DEF SweepOrphans, SweepOrphanObjects
  <2> QED
    BY <1>0, <1>2, <2>1, <2>2 DEF SweepOrphans, Pass, JanitorTypeOK
<1>3. ASSUME NEW oids \in SUBSET Oid, SweepUnreferenced(j, oids)
      PROVE  DbTypeOK' /\ StorageTypeOK' /\ JanitorTypeOK'
  <2>1. {objects[oid].uri : oid \in oids} \subseteq Uri \cup {Ignored}
    BY <1>3, RowFields DEF SweepUnreferenced, SweepUnreferencedObjects, Unreferenced,
                           IsVerified, DbTypeOK
  <2>2. DbTypeOK'
    BY <1>3, DeleteRowsType DEF SweepUnreferenced, SweepUnreferencedObjects
  <2> QED
    BY <1>0, <1>3, <2>1, <2>2 DEF SweepUnreferenced, Pass, JanitorTypeOK
<1>4. ASSUME NEW uri \in janitor[j].queue, DeleteStored(j, uri) \/ DeleteFails(j, uri)
      PROVE  DbTypeOK' /\ StorageTypeOK' /\ JanitorTypeOK'
  <2>1. [janitor[j] EXCEPT !.queue = janitor[j].queue \ {uri}] \in States
    BY <1>1
  <2>2. janitor' = [janitor EXCEPT ![j] = [janitor[j] EXCEPT !.queue = janitor[j].queue \ {uri}]]
    BY <1>4 DEF DeleteStored, DeleteFails
  <2>3. janitor' \in [Instance -> States]
    BY <2>1, <2>2 DEF JanitorTypeOK
  <2>4. StorageTypeOK'
    BY <1>0, <1>4 DEF DeleteStored, DeleteFails, Delete, StorageTypeOK
  <2>5. undeleted' \subseteq Uri \cup {Ignored}
    BY <1>1, <1>4 DEF DeleteStored, DeleteFails, JanitorTypeOK
  <2> QED
    BY <1>0, <1>4, <2>3, <2>4, <2>5 DEF DeleteStored, DeleteFails, JanitorTypeOK
<1>5. ASSUME SweepDone(j) \/ JanitorCrash(j)
      PROVE  DbTypeOK' /\ StorageTypeOK' /\ JanitorTypeOK'
  <2>1. janitor' \in [Instance -> States]
    BY <1>5 DEF SweepDone, JanitorCrash, Pass, JanitorTypeOK
  <2>2. undeleted' \subseteq Uri \cup {Ignored}
    BY <1>1, <1>5 DEF SweepDone, JanitorCrash, JanitorTypeOK
  <2> QED
    BY <1>0, <1>5, <2>1, <2>2 DEF SweepDone, JanitorCrash, JanitorTypeOK
<1> QED
  BY <1>2, <1>3, <1>4, <1>5

\* One step of the server keeps every variable in its type.
LEMMA TypeNext == TypeOK /\ [Next]_vars => TypeOK'
<1> SUFFICES ASSUME TypeOK, [Next]_vars
             PROVE  TypeOK'
  OBVIOUS
<1>0. /\ dbVars' = dbVars => DbTypeOK'
      /\ storageVars' = storageVars => StorageTypeOK'
      /\ handlerVars' = handlerVars => HandlersTypeOK'
      /\ janitorVars' = janitorVars => JanitorTypeOK'
  BY DEF dbVars, storageVars, handlerVars, janitorVars, TypeOK,
     DbTypeOK, StorageTypeOK, HandlersTypeOK, JanitorTypeOK
<1>1. CASE HandlersNext /\ UNCHANGED janitorVars
  BY <1>0, <1>1, HandlersTypeCorrect DEF TypeOK
<1>2. CASE JanitorNext /\ UNCHANGED handlerVars
  BY <1>0, <1>2, JanitorTypeCorrect DEF TypeOK
<1>3. CASE Environment /\ UNCHANGED <<handlerVars, janitorVars>>
  <2>1. ASSUME NEW oid \in Oid, Age(oid), UNCHANGED storageVars
        PROVE  DbTypeOK' /\ StorageTypeOK'
    BY <1>0, <2>1, AgeType DEF TypeOK
  <2>2. ASSUME NEW put \in presigned,
               ClientPut(put[1], put[2]) \/ PresignExpire(put[1], put[2]),
               UNCHANGED dbVars
        PROVE  DbTypeOK' /\ StorageTypeOK'
    BY <1>0, <2>2 DEF TypeOK, StorageTypeOK, ClientPut, PresignExpire
  <2> QED
    BY <1>0, <1>3, <2>1, <2>2 DEF Environment, TypeOK
<1>4. CASE UNCHANGED vars
  BY <1>0, <1>4 DEF vars, TypeOK
<1> QED
  BY <1>1, <1>2, <1>3, <1>4 DEF Next

(***************************************************************************)
(* Every variable keeps its type: in particular a row is pending with      *)
(* neither size nor location, or verified with both, as the CHECK          *)
(* constraint of the table demands.                                        *)
(***************************************************************************)
THEOREM TypeCorrect == Spec => []TypeOK
<1>1. Init => TypeOK
  BY AbsentType DEF Init, DbInit, StorageInit, HandlersInit, JanitorInit,
     TypeOK, DbTypeOK, StorageTypeOK, HandlersTypeOK, JanitorTypeOK
<1> QED
  BY <1>1, TypeNext, PTL DEF Spec

-----------------------------------------------------------------------------
(***************************************************************************)
(* What each transaction does to the tables.                               *)
(***************************************************************************)

\* LinkObject leaves a verified row with the size it was called with, and a
\* link; it writes the row only if it was not verified.
LEMMA LinkObjectEffect ==
    ASSUME DbTypeOK, NEW repo \in Repo, NEW oid \in Oid, NEW size \in Size,
           NEW uri \in Uri \cup {Ignored}, LinkObject(repo, oid, size, uri)
    PROVE  /\ \A o \in Oid : IsVerified(o) \/ o # oid => objects'[o] = objects[o]
           /\ objects'[oid].status = "verified"
           /\ objects'[oid].size = size
           /\ ~IsVerified(oid) => objects'[oid].uri = uri
           /\ repoObjects' = repoObjects \cup {<<repo, oid>>}
BY VerifiedType DEF LinkObject, Upserted, IsVerified, DbTypeOK

\* VerifyObject does the same to a row that exists.
LEMMA VerifyObjectEffect ==
    ASSUME DbTypeOK, NEW repo \in Repo, NEW oid \in Oid, NEW size \in Size,
           NEW uri \in Uri, VerifyObject(repo, oid, size, uri)
    PROVE  /\ \A o \in Oid : IsVerified(o) \/ o # oid => objects'[o] = objects[o]
           /\ objects'[oid].status = "verified"
           /\ objects'[oid].size = size
           /\ ~IsVerified(oid) => objects'[oid].uri = uri
           /\ repoObjects' = repoObjects \cup {<<repo, oid>>}
<1>1. objects[oid] \in Row
  BY DEF DbTypeOK
<1>2. CASE objects[oid].status = "pending"
  BY <1>2, VerifiedType DEF VerifyObject, IsVerified, DbTypeOK
<1>3. CASE objects[oid].status = "verified"
  BY <1>3 DEF VerifyObject, IsVerified, DbTypeOK
<1> QED
  BY <1>1, <1>2, <1>3, RowFields DEF VerifyObject

\* An insert of a pending row verifies nothing.
LEMMA InsertPendingEffect ==
    ASSUME DbTypeOK, NEW oid \in Oid, InsertPendingObject(oid)
    PROVE  /\ \A o \in Oid : IsVerified(o) => objects'[o] = objects[o]
           /\ \A o \in Oid : ~IsVerified(o) => objects'[o].status # "verified"
           /\ repoObjects' = repoObjects
BY PendingType, AbsentType DEF InsertPendingObject, IsVerified, DbTypeOK

\* Nor does a deletion, which spares every row that is not in its list.
LEMMA DeleteRowsEffect ==
    ASSUME DbTypeOK, NEW oids \in SUBSET Oid, DeleteRows(oids),
           \A o \in oids : ~IsVerified(o)
    PROVE  /\ \A o \in Oid : IsVerified(o) => objects'[o] = objects[o]
           /\ \A o \in Oid : ~IsVerified(o) => objects'[o].status # "verified"
           /\ repoObjects' = repoObjects
BY AbsentType DEF DeleteRows, IsVerified, DbTypeOK

LEMMA AgeEffect ==
    ASSUME DbTypeOK, NEW oid \in Oid, Age(oid)
    PROVE  /\ \A o \in Oid : IsVerified(o) => objects'[o] = objects[o]
           /\ \A o \in Oid : ~IsVerified(o) => objects'[o].status # "verified"
           /\ repoObjects' = repoObjects
BY PendingType DEF Age, IsVerified, DbTypeOK

-----------------------------------------------------------------------------
(***************************************************************************)
(* A step that Settles and Spares keeps what IInv says of the tables, of   *)
(* storage and of the requests that it does not touch.                     *)
(***************************************************************************)
LEMMA TablesHold ==
    ASSUME IInv, TypeOK', Settles, Spares
    PROVE  LinkedIsVerified' /\ VerifiedIsLinked' /\ UriIsCanonical' /\ ProxiedIsStored'
<1>1. LinkedIsVerified'
  <2> SUFFICES ASSUME NEW link \in repoObjects'
               PROVE  objects'[link[2]].status = "verified"
    BY DEF LinkedIsVerified, IsVerified
  <2>1. CASE link \in repoObjects
    <3>1. IsVerified(link[2]) /\ link[2] \in Oid
      BY <2>1 DEF IInv, LinkedIsVerified, TypeOK, DbTypeOK
    <3> QED
      BY <3>1 DEF Settles, IsVerified
  <2> QED
    BY <2>1 DEF Settles
<1>2. VerifiedIsLinked'
  <2> SUFFICES ASSUME NEW oid \in Oid, objects'[oid].status = "verified"
               PROVE  \E repo \in Repo : <<repo, oid>> \in repoObjects'
    BY DEF VerifiedIsLinked, Unreferenced, IsVerified
  <2>1. CASE IsVerified(oid)
    BY <2>1 DEF IInv, VerifiedIsLinked, Unreferenced, Settles
  <2> QED
    BY <2>1 DEF Settles
<1>3. UriIsCanonical'
  <2> SUFFICES ASSUME NEW oid \in Oid, objects'[oid].status = "verified"
               PROVE  objects'[oid].uri \in Backend \X {oid}
    BY DEF UriIsCanonical, IsVerified
  <2>1. CASE IsVerified(oid)
    BY <2>1 DEF IInv, UriIsCanonical, Settles
  <2> QED
    BY <2>1 DEF Settles
<1>4. ProxiedIsStored'
  <2> SUFFICES ASSUME NEW oid \in Oid, objects'[oid].status = "verified",
                      objects'[oid].uri \in Proxier \X Oid
               PROVE  objects'[oid].uri \in stored'
    BY DEF ProxiedIsStored, IsVerified
  <2>1. CASE IsVerified(oid)
    <3>1. objects'[oid] = objects[oid]
      BY <2>1 DEF Settles
    <3>2. objects[oid].uri \in stored
      BY <2>1, <3>1 DEF IInv, ProxiedIsStored
    <3>3. objects[oid].uri[2] = oid
      BY <2>1 DEF IInv, UriIsCanonical
    <3>4. objects[oid].uri \notin Presigner \X Oid
      BY <3>1 DEF Presigner
    <3> QED
      BY <3>1, <3>2, <3>3, <3>4 DEF Spares
  <2> QED
    BY <2>1 DEF Settles
<1> QED
  BY <1>1, <1>2, <1>3, <1>4

LEMMA AcksHold ==
    ASSUME IInv, Settles,
           \A ack \in acked' \ acked : /\ <<ack[1], ack[2]>> \in repoObjects'
                                        /\ objects'[ack[2]].size = ack[3]
    PROVE  AckedIsHeld'
<1> SUFFICES ASSUME NEW ack \in acked', ack \in acked
             PROVE  <<ack[1], ack[2]>> \in repoObjects' /\ objects'[ack[2]].size = ack[3]
  BY DEF AckedIsHeld
<1>1. <<ack[1], ack[2]>> \in repoObjects /\ objects[ack[2]].size = ack[3]
  BY DEF IInv, AckedIsHeld
<1>2. IsVerified(ack[2]) /\ ack[2] \in Oid
  BY <1>1 DEF IInv, LinkedIsVerified, TypeOK, HandlersTypeOK
<1> QED
  BY <1>1, <1>2 DEF Settles

LEMMA OthersHold ==
    ASSUME IInv, Settles, Spares, NEW c \in Conn, conn'[c] = conn[c]
    PROVE  ConnHolds(c)'
<1>1. ConnHolds(c)
  BY DEF IInv
<1>2. FoundHolds(c)'
  <2> SUFFICES ASSUME At(c, "batch"), NEW obj \in conn[c].found
               PROVE  objects'[obj[1]].status = "verified" /\ objects'[obj[1]].size = obj[2]
    BY DEF FoundHolds, At, IsVerified
  <2>1. obj[1] \in Oid
    BY ConnFields DEF IInv, TypeOK, BatchConn, Object
  <2>2. IsVerified(obj[1]) /\ objects[obj[1]].size = obj[2]
    BY <1>1 DEF ConnHolds, FoundHolds
  <2> QED
    BY <2>1, <2>2 DEF Settles, IsVerified
<1>3. ProtocolHolds(c)'
  BY <1>1 DEF ConnHolds, ProtocolHolds, At
<1>4. LinkHolds(c)'
  <2> SUFFICES ASSUME At(c, "link")
               PROVE  \/ OwnURI(c) \in stored'
                      \/ /\ objects'[conn[c].oid].status = "verified"
                         /\ objects'[conn[c].oid].uri # OwnURI(c)
    BY DEF LinkHolds, At, IsVerified, OwnURI
  <2>1. conn[c].repo \in Repo /\ conn[c].oid \in Oid
    BY ConnFields DEF IInv, TypeOK, At, ObjectConn
  <2>2. CASE IsVerified(conn[c].oid) /\ objects[conn[c].oid].uri # OwnURI(c)
    BY <2>1, <2>2 DEF Settles, IsVerified
  <2>3. CASE OwnURI(c) \in stored
    <3>1. OwnURI(c) \notin Presigner \X Oid /\ OwnURI(c)[2] = conn[c].oid
      BY <1>1 DEF ConnHolds, ProtocolHolds, At, OwnURI, URI, Presigner
    <3>2. CASE OwnURI(c) \notin stored'
      BY <2>1, <2>2, <2>3, <3>1, <3>2 DEF Spares
    <3> QED
      BY <3>2
  <2> QED
    BY <1>1, <2>2, <2>3 DEF ConnHolds, LinkHolds
<1>5. CleanupHolds(c)'
  <2> SUFFICES ASSUME At(c, "cleanup")
               PROVE  /\ <<conn[c].repo, conn[c].oid>> \in repoObjects'
                      /\ objects'[conn[c].oid].size = conn[c].size
                      /\ objects'[conn[c].oid].uri # OwnURI(c)
    BY DEF CleanupHolds, At, OwnURI
  <2>1. conn[c].repo \in Repo /\ conn[c].oid \in Oid
    BY ConnFields DEF IInv, TypeOK, At, ObjectConn
  <2>2. /\ <<conn[c].repo, conn[c].oid>> \in repoObjects
        /\ objects[conn[c].oid].size = conn[c].size
        /\ objects[conn[c].oid].uri # OwnURI(c)
    BY <1>1 DEF ConnHolds, CleanupHolds
  <2>3. IsVerified(conn[c].oid)
    BY <2>2 DEF IInv, LinkedIsVerified
  <2> QED
    BY <2>1, <2>2, <2>3 DEF Settles
<1> QED
  BY <1>2, <1>3, <1>4, <1>5 DEF ConnHolds
-----------------------------------------------------------------------------
(***************************************************************************)
(* Every step Settles and Spares, and leaves the request it belongs to as  *)
(* IInv says.                                                              *)
(***************************************************************************)
LEMMA SettlesUnchanged == UNCHANGED dbVars => Settles
BY DEF dbVars, Settles, IsVerified

LEMMA SparesGrowing == stored \subseteq stored' => Spares
BY DEF Spares

\* A row that is not verified by a step gives nothing to settle.
LEMMA SettlesQuietly ==
    ASSUME \A o \in Oid : IsVerified(o) => objects'[o] = objects[o],
           \A o \in Oid : ~IsVerified(o) => objects'[o].status # "verified",
           repoObjects' = repoObjects
    PROVE  Settles
BY DEF Settles

\* A link to a row that a step verifies with bytes in place.
LEMMA SettlesLinked ==
    ASSUME NEW repo \in Repo, NEW oid \in Oid, NEW uri \in Backend \X {oid},
           IsVerified(oid) \/ uri \in Presigner \X Oid \/ uri \in stored,
           stored' = stored,
           \A o \in Oid : IsVerified(o) \/ o # oid => objects'[o] = objects[o],
           objects'[oid].status = "verified",
           ~IsVerified(oid) => objects'[oid].uri = uri,
           repoObjects' = repoObjects \cup {<<repo, oid>>}
    PROVE  Settles
<1>1. \A o \in Oid : IsVerified(o) => objects'[o] = objects[o]
  OBVIOUS
<1>2. \A link \in repoObjects' \ repoObjects : objects'[link[2]].status = "verified"
  OBVIOUS
<1>3. ASSUME NEW o \in Oid, ~IsVerified(o), objects'[o].status = "verified"
      PROVE  /\ objects'[o].uri \in Backend \X {o}
             /\ objects'[o].uri \in Proxier \X Oid => objects'[o].uri \in stored'
             /\ \E r \in Repo : <<r, o>> \in repoObjects'
  <2>1. o = oid
    BY <1>3 DEF IsVerified
  <2> QED
    BY <1>3, <2>1 DEF Presigner
<1> QED
  BY <1>1, <1>2, <1>3 DEF Settles

LEMMA ConnsHold ==
    ASSUME IInv, Settles, Spares, NEW c \in Conn, ConnHolds(c)',
           \A d \in Conn \ {c} : conn'[d] = conn[d]
    PROVE  \A d \in Conn : ConnHolds(d)'
BY OthersHold

LEMMA FinishHolds ==
    ASSUME HandlersTypeOK, NEW c \in Conn, Finish(c)
    PROVE  ConnHolds(c)' /\ \A d \in Conn \ {c} : conn'[d] = conn[d]
<1>1. conn'[c].pc = "idle" /\ \A d \in Conn \ {c} : conn'[d] = conn[d]
  BY DEF HandlersTypeOK, Finish, Idle
<1> QED
  BY <1>1 DEF ConnHolds, FoundHolds, ProtocolHolds, LinkHolds, CleanupHolds, At

LEMMA BeginHolds ==
    ASSUME HandlersTypeOK, NEW c \in Conn, NEW r, Begin(c, r)
    PROVE  conn'[c] = r /\ \A d \in Conn \ {c} : conn'[d] = conn[d]
BY DEF HandlersTypeOK, Begin

\* Changing pc alone leaves the rest of the request.
LEMMA GoToHolds ==
    ASSUME HandlersTypeOK, NEW c \in Conn, conn[c] \in ObjectConn, NEW pc, GoTo(c, pc)
    PROVE  /\ conn'[c].pc = pc /\ conn'[c].repo = conn[c].repo
           /\ conn'[c].oid = conn[c].oid /\ conn'[c].size = conn[c].size
           /\ OwnURI(c)' = OwnURI(c)
           /\ \A d \in Conn \ {c} : conn'[d] = conn[d]
BY DEF HandlersTypeOK, GoTo, ObjectConn, OwnURI

\* A new acknowledgement is of a linked object with its recorded size.
LEMMA AckHolds ==
    ASSUME NEW repo, NEW oid, NEW size, Ack(repo, oid, size),
           <<repo, oid>> \in repoObjects', objects'[oid].size = size
    PROVE  \A ack \in acked' \ acked : /\ <<ack[1], ack[2]>> \in repoObjects'
                                       /\ objects'[ack[2]].size = ack[3]
BY DEF Ack

LEMMA ReplyOrCleanupHolds ==
    ASSUME HandlersTypeOK, NEW c \in Conn, conn[c] \in ObjectConn, ReplyOrCleanup(c),
           <<conn[c].repo, conn[c].oid>> \in repoObjects',
           objects'[conn[c].oid].size = conn[c].size
    PROVE  /\ ConnHolds(c)'
           /\ \A d \in Conn \ {c} : conn'[d] = conn[d]
           /\ \A ack \in acked' \ acked : /\ <<ack[1], ack[2]>> \in repoObjects'
                                          /\ objects'[ack[2]].size = ack[3]
<1>1. CASE objects'[conn[c].oid].uri = OwnURI(c)
  BY <1>1, FinishHolds, AckHolds DEF ReplyOrCleanup
<1>2. CASE objects'[conn[c].oid].uri # OwnURI(c)
  <2>1. GoTo(c, "cleanup") /\ acked' = acked
    BY <1>2 DEF ReplyOrCleanup
  <2>2. /\ conn'[c].pc = "cleanup" /\ conn'[c].repo = conn[c].repo
        /\ conn'[c].oid = conn[c].oid /\ conn'[c].size = conn[c].size
        /\ OwnURI(c)' = OwnURI(c)
        /\ \A d \in Conn \ {c} : conn'[d] = conn[d]
    BY <2>1, GoToHolds
  <2> QED
    BY <1>2, <2>1, <2>2 DEF ConnHolds, FoundHolds, ProtocolHolds, LinkHolds,
                            CleanupHolds, At
<1> QED
  BY <1>1, <1>2
LEMMA NextObjectHolds ==
    ASSUME IInv, Settles, NEW c \in Conn, At(c, "batch"), NEW obj, NextObject(c, obj)
    PROVE  ConnHolds(c)' /\ \A d \in Conn \ {c} : conn'[d] = conn[d]
<1>a. HandlersTypeOK /\ conn[c] \in BatchConn
  BY ConnFields DEF IInv, TypeOK
<1>1. CASE Finish(c)
  BY <1>1, <1>a, FinishHolds
<1>2. CASE conn' = [conn EXCEPT ![c] = [conn[c] EXCEPT !.todo = conn[c].todo \ {obj}]]
  <2>1. /\ conn'[c].pc = "batch" /\ conn'[c].found = conn[c].found
        /\ \A d \in Conn \ {c} : conn'[d] = conn[d]
    BY <1>2, <1>a DEF HandlersTypeOK, BatchConn
  <2>2. ASSUME NEW o \in conn[c].found
        PROVE  objects'[o[1]].status = "verified" /\ objects'[o[1]].size = o[2]
    <3>1. o[1] \in Oid
      BY <1>a DEF BatchConn, Object
    <3>2. IsVerified(o[1]) /\ objects[o[1]].size = o[2]
      BY DEF IInv, ConnHolds, FoundHolds
    <3> QED
      BY <3>1, <3>2 DEF Settles, IsVerified
  <2> QED
    BY <2>1, <2>2 DEF ConnHolds, FoundHolds, ProtocolHolds, LinkHolds, CleanupHolds,
                      At, IsVerified
<1> QED
  BY <1>1, <1>2 DEF NextObject

\* A handler's step.
LEMMA HandlersHold ==
    ASSUME IInv, HandlersNext
    PROVE  /\ Settles /\ Spares
           /\ \A ack \in acked' \ acked : /\ <<ack[1], ack[2]>> \in repoObjects'
                                          /\ objects'[ack[2]].size = ack[3]
           /\ \A c \in Conn : ConnHolds(c)'
<1> DEFINE AckNew == \A ack \in acked' \ acked : /\ <<ack[1], ack[2]>> \in repoObjects'
                                                 /\ objects'[ack[2]].size = ack[3]
           ConnNew == \A d \in Conn : ConnHolds(d)'
           Goal == Settles /\ Spares /\ AckNew /\ ConnNew
<1>0. /\ acked' = acked => AckNew
      /\ storageVars' = storageVars => Spares
  BY SparesGrowing DEF IInv, TypeOK, storageVars
<1>a. DbTypeOK /\ HandlersTypeOK
  BY DEF IInv, TypeOK
<1>1. ASSUME NEW c \in Conn, NEW repo \in Repo, NEW objs \in SUBSET Object,
             BatchLookup(c, repo, objs)
      PROVE  Goal
  <2>1. Settles /\ Spares /\ AckNew
    BY <1>0, <1>1, SettlesUnchanged DEF BatchLookup
  <2> DEFINE r == [pc |-> "batch", repo |-> repo, todo |-> objs,
                   found |-> GetObjectsByOIDs({obj[1] : obj \in objs})]
  <2>2. conn'[c] = r /\ \A d \in Conn \ {c} : conn'[d] = conn[d]
    BY <1>1, <1>a, BeginHolds DEF BatchLookup
  <2>3. objects' = objects
    BY <1>1 DEF BatchLookup, dbVars
  <2>4. ConnHolds(c)'
    BY <2>2, <2>3 DEF ConnHolds, FoundHolds, ProtocolHolds, LinkHolds, CleanupHolds,
                      At, GetObjectsByOIDs, IsVerified
  <2> QED
    BY <2>1, <2>2, <2>4, ConnsHold
<1>2. ASSUME NEW c \in Conn, NEW obj \in Object, BatchLink(c, obj)
      PROVE  Goal
  <2>1. conn[c] \in BatchConn /\ conn[c].repo \in Repo
    BY <1>2, <1>a, ConnFields DEF BatchLink, BatchConn
  <2>2. obj[1] \in Oid /\ obj[2] \in Size
    BY DEF Object
  <2>3. IsVerified(obj[1])
    BY <1>2 DEF BatchLink, Deduplicated, IInv, ConnHolds, FoundHolds
  <2>4. /\ \A o \in Oid : IsVerified(o) \/ o # obj[1] => objects'[o] = objects[o]
        /\ objects'[obj[1]].status = "verified"
        /\ objects'[obj[1]].size = obj[2]
        /\ repoObjects' = repoObjects \cup {<<conn[c].repo, obj[1]>>}
    BY <1>2, <1>a, <2>1, <2>2, LinkObjectEffect DEF BatchLink
  <2>5. Settles
    <3>1. PICK b \in Backend : TRUE
      BY <2>1, ConfigAssumption
    <3>2. stored' = stored
      BY <1>2 DEF BatchLink, storageVars
    <3> QED
      BY <2>1, <2>2, <2>3, <2>4, <3>1, <3>2 DEF Settles, IsVerified
  <2>6. Spares
    BY <1>0, <1>2 DEF BatchLink
  <2>7. AckNew
    BY <1>2, <2>4, AckHolds DEF BatchLink
  <2>8. ConnHolds(c)' /\ \A d \in Conn \ {c} : conn'[d] = conn[d]
    BY <1>2, <1>a, <2>1, <2>2, <2>5, NextObjectHolds DEF BatchLink
  <2> QED
    BY <2>5, <2>6, <2>7, <2>8, ConnsHold
<1>3. ASSUME NEW c \in Conn, NEW obj \in Object, BatchReply(c, obj)
      PROVE  Goal
  <2>1. Settles /\ Spares /\ AckNew
    BY <1>0, <1>3, SettlesUnchanged DEF BatchReply
  <2>2. ConnHolds(c)' /\ \A d \in Conn \ {c} : conn'[d] = conn[d]
    BY <1>3, <1>a, <2>1, NextObjectHolds DEF BatchReply
  <2> QED
    BY <2>1, <2>2, ConnsHold
<1>4. ASSUME NEW c \in Conn, NEW repo \in Repo, NEW oid \in Oid, NEW size \in Size,
             \/ UploadStat(c, repo, oid, size)
             \/ UploadLookup(c, repo, oid, size)
             \/ VerifyHead(c, repo, oid, size)
      PROVE  Goal
  <2>1. UNCHANGED <<acked, dbVars, storageVars>>
    BY <1>4 DEF UploadStat, UploadLookup, VerifyHead
  <2>2. Settles /\ Spares /\ AckNew
    BY <1>0, <2>1, SettlesUnchanged
  <2>3. PICK pc \in {"copy", "link", "insert", "verify"} :
            /\ Begin(c, [pc |-> pc, repo |-> repo, oid |-> oid, size |-> size])
            /\ pc \in {"copy", "link"} => StorageOf[repo] \in Proxier
            /\ pc = "link" => URI(StorageOf[repo], oid) \in stored
            /\ pc \in {"insert", "verify"} => StorageOf[repo] \in Presigner
    BY <1>4 DEF UploadStat, UploadLookup, VerifyHead
  <2>4. /\ conn'[c] = [pc |-> pc, repo |-> repo, oid |-> oid, size |-> size]
        /\ \A d \in Conn \ {c} : conn'[d] = conn[d]
    BY <1>a, <2>3, BeginHolds
  <2>5. stored' = stored
    BY <2>1 DEF storageVars
  <2>6. ConnHolds(c)'
    BY <2>3, <2>4, <2>5 DEF ConnHolds, FoundHolds, ProtocolHolds, LinkHolds,
                            CleanupHolds, At, OwnURI
  <2> QED
    BY <2>2, <2>4, <2>6, ConnsHold
<1>5. ASSUME NEW repo \in Repo, NEW oid \in Oid, NEW size \in Size,
             VerifyProxy(repo, oid, size)
      PROVE  Goal
  <2>1. Settles /\ Spares
    BY <1>0, <1>5, SettlesUnchanged DEF VerifyProxy
  <2>2. AckNew
    BY <1>5, AckHolds DEF VerifyProxy, HasRepoObject, dbVars
  <2>3. ConnNew
    BY <1>5, <2>1, OthersHold DEF VerifyProxy
  <2> QED
    BY <2>1, <2>2, <2>3
<1>6. ASSUME NEW c \in Conn, NEW repo \in Repo, NEW oid \in Oid,
             DownloadLookup(c, repo, oid)
      PROVE  Goal
  <2>1. Settles /\ Spares /\ AckNew
    BY <1>0, <1>6, SettlesUnchanged DEF DownloadLookup
  <2>2. conn'[c].pc = "open" /\ \A d \in Conn \ {c} : conn'[d] = conn[d]
    BY <1>6, <1>a, BeginHolds DEF DownloadLookup
  <2>3. ConnHolds(c)'
    BY <2>2 DEF ConnHolds, FoundHolds, ProtocolHolds, LinkHolds, CleanupHolds, At
  <2> QED
    BY <2>1, <2>2, <2>3, ConnsHold
<1>7. ASSUME NEW c \in Conn, UploadCopy(c)
      PROVE  Goal
  <2>1. conn[c] \in ObjectConn
    BY <1>7, <1>a, ConnFields DEF UploadCopy, At
  <2>2. stored' = stored \cup {OwnURI(c)} /\ presigned' = presigned
    BY <1>7 DEF UploadCopy, PutRename, OwnURI
  <2>3. Settles /\ Spares /\ AckNew
    BY <1>0, <1>7, <2>2, SettlesUnchanged, SparesGrowing DEF UploadCopy
  <2>4. /\ conn'[c].pc = "link" /\ conn'[c].repo = conn[c].repo
        /\ OwnURI(c)' = OwnURI(c)
        /\ \A d \in Conn \ {c} : conn'[d] = conn[d]
    BY <1>7, <1>a, <2>1, GoToHolds DEF UploadCopy
  <2>5. StorageOf[conn[c].repo] \in Proxier
    BY <1>7 DEF UploadCopy, IInv, ConnHolds, ProtocolHolds, At
  <2>6. ConnHolds(c)'
    BY <2>2, <2>4, <2>5 DEF ConnHolds, FoundHolds, ProtocolHolds, LinkHolds,
                            CleanupHolds, At
  <2> QED
    BY <2>3, <2>4, <2>6, ConnsHold
<1>8. ASSUME NEW c \in Conn, UploadLink(c)
      PROVE  Goal
  <2>1. conn[c] \in ObjectConn
    BY <1>8, <1>a, ConnFields DEF UploadLink, At
  <2>2. /\ conn[c].repo \in Repo /\ conn[c].oid \in Oid /\ conn[c].size \in Size
        /\ OwnURI(c) \in Uri /\ OwnURI(c) \in Backend \X {conn[c].oid}
    BY <2>1, URIType, ConfigAssumption DEF ObjectConn, OwnURI, Uri, URI
  <2>3. /\ \A o \in Oid : IsVerified(o) \/ o # conn[c].oid => objects'[o] = objects[o]
        /\ objects'[conn[c].oid].status = "verified"
        /\ objects'[conn[c].oid].size = conn[c].size
        /\ ~IsVerified(conn[c].oid) => objects'[conn[c].oid].uri = OwnURI(c)
        /\ repoObjects' = repoObjects \cup {<<conn[c].repo, conn[c].oid>>}
    BY <1>8, <1>a, <2>2, LinkObjectEffect DEF UploadLink
  <2>4. IsVerified(conn[c].oid) \/ OwnURI(c) \in stored
    BY <1>8 DEF UploadLink, IInv, ConnHolds, LinkHolds
  <2>5. Spares /\ stored' = stored
    BY <1>0, <1>8 DEF UploadLink, storageVars
  <2>6. Settles
    BY <2>2, <2>3, <2>4, <2>5, SettlesLinked
  <2>7. /\ ConnHolds(c)' /\ AckNew
        /\ \A d \in Conn \ {c} : conn'[d] = conn[d]
    BY <1>8, <1>a, <2>1, <2>3, ReplyOrCleanupHolds DEF UploadLink
  <2> QED
    BY <2>5, <2>6, <2>7, ConnsHold
<1>9. ASSUME NEW c \in Conn, UploadInsert(c)
      PROVE  Goal
  <2>1. conn[c] \in ObjectConn /\ conn[c].oid \in Oid
    BY <1>9, <1>a, ConnFields DEF UploadInsert, At, ObjectConn
  <2>2. Settles
    BY <1>9, <1>a, <2>1, InsertPendingEffect, SettlesQuietly DEF UploadInsert
  <2>3. Spares /\ AckNew
    BY <1>0, <1>9 DEF UploadInsert
  <2>4. /\ conn'[c].pc = "presign" /\ conn'[c].repo = conn[c].repo
        /\ \A d \in Conn \ {c} : conn'[d] = conn[d]
    BY <1>9, <1>a, <2>1, GoToHolds DEF UploadInsert
  <2>5. StorageOf[conn[c].repo] \in Presigner
    BY <1>9 DEF UploadInsert, IInv, ConnHolds, ProtocolHolds, At
  <2>6. ConnHolds(c)'
    BY <2>4, <2>5 DEF ConnHolds, FoundHolds, ProtocolHolds, LinkHolds, CleanupHolds, At
  <2> QED
    BY <2>2, <2>3, <2>4, <2>6, ConnsHold
<1>10. ASSUME NEW c \in Conn, UploadPresign(c)
       PROVE  Goal
  <2>1. Settles /\ Spares /\ AckNew
    BY <1>0, <1>10, SettlesUnchanged, SparesGrowing DEF UploadPresign, PresignPut
  <2>2. ConnHolds(c)' /\ \A d \in Conn \ {c} : conn'[d] = conn[d]
    BY <1>10, <1>a, FinishHolds DEF UploadPresign
  <2> QED
    BY <2>1, <2>2, ConnsHold
<1>11. ASSUME NEW c \in Conn, VerifyCommit(c)
       PROVE  Goal
  <2>1. conn[c] \in ObjectConn
    BY <1>11, <1>a, ConnFields DEF VerifyCommit, At
  <2>2. /\ conn[c].repo \in Repo /\ conn[c].oid \in Oid /\ conn[c].size \in Size
        /\ OwnURI(c) \in Uri /\ OwnURI(c) \in Backend \X {conn[c].oid}
    BY <2>1, URIType, ConfigAssumption DEF ObjectConn, OwnURI, Uri, URI
  <2>3. /\ \A o \in Oid : IsVerified(o) \/ o # conn[c].oid => objects'[o] = objects[o]
        /\ objects'[conn[c].oid].status = "verified"
        /\ objects'[conn[c].oid].size = conn[c].size
        /\ ~IsVerified(conn[c].oid) => objects'[conn[c].oid].uri = OwnURI(c)
        /\ repoObjects' = repoObjects \cup {<<conn[c].repo, conn[c].oid>>}
    BY <1>11, <1>a, <2>2, VerifyObjectEffect DEF VerifyCommit
  <2>4. OwnURI(c) \in Presigner \X Oid
    BY <1>11, <2>2 DEF VerifyCommit, IInv, ConnHolds, ProtocolHolds, OwnURI, URI, At
  <2>5. Spares /\ stored' = stored
    BY <1>0, <1>11 DEF VerifyCommit, storageVars
  <2>6. Settles
    BY <2>2, <2>3, <2>4, <2>5, SettlesLinked
  <2>7. /\ ConnHolds(c)' /\ AckNew
        /\ \A d \in Conn \ {c} : conn'[d] = conn[d]
    BY <1>11, <1>a, <2>1, <2>3, ReplyOrCleanupHolds DEF VerifyCommit
  <2> QED
    BY <2>5, <2>6, <2>7, ConnsHold
<1>12. ASSUME NEW c \in Conn, Cleanup(c)
       PROVE  Goal
  <2>1. conn[c] \in ObjectConn
    BY <1>12, <1>a, ConnFields DEF Cleanup, At
  <2>2. conn[c].repo \in Repo /\ conn[c].oid \in Oid
    BY <2>1 DEF ObjectConn
  <2>3. /\ <<conn[c].repo, conn[c].oid>> \in repoObjects
        /\ objects[conn[c].oid].size = conn[c].size
        /\ objects[conn[c].oid].uri # OwnURI(c)
    BY <1>12 DEF Cleanup, IInv, ConnHolds, CleanupHolds
  <2>4. IsVerified(conn[c].oid) /\ OwnURI(c)[2] = conn[c].oid
    BY <2>3 DEF IInv, LinkedIsVerified, OwnURI, URI
  <2>5. stored \ stored' \subseteq {OwnURI(c)} /\ presigned' = presigned
    BY <1>12 DEF Cleanup, Delete, storageVars
  <2>6. Spares
    BY <2>3, <2>4, <2>5 DEF Spares
  <2>7. Settles
    BY <1>0, <1>12, <2>5, SettlesUnchanged DEF Cleanup
  <2>8. AckNew
    BY <1>12, <2>3, AckHolds DEF Cleanup, dbVars
  <2>9. ConnHolds(c)' /\ \A d \in Conn \ {c} : conn'[d] = conn[d]
    BY <1>12, <1>a, FinishHolds DEF Cleanup
  <2> QED
    BY <2>6, <2>7, <2>8, <2>9, ConnsHold
<1>13. ASSUME NEW c \in Conn, Abort(c)
       PROVE  Goal
  <2>1. Settles /\ Spares /\ AckNew
    BY <1>0, <1>13, SettlesUnchanged DEF Abort
  <2>2. ConnHolds(c)' /\ \A d \in Conn \ {c} : conn'[d] = conn[d]
    BY <1>13, <1>a, FinishHolds DEF Abort
  <2> QED
    BY <2>1, <2>2, ConnsHold
<1> QED
  <2>1. Goal
    BY <1>1, <1>2, <1>3, <1>4, <1>5, <1>6, <1>7, <1>8, <1>9, <1>10, <1>11, <1>12,
       <1>13 DEF HandlersNext
  <2> QED
    BY <2>1
\* A janitor's step: an orphan is not verified, no row is unreferenced, and
\* what it deletes from storage is on presigning backends.
LEMMA JanitorHold ==
    ASSUME IInv, JanitorNext
    PROVE  Settles /\ Spares /\ JanitorHolds'
<1>a. DbTypeOK /\ JanitorTypeOK
  BY DEF IInv, TypeOK
<1>b. /\ storageVars' = storageVars => Spares
      /\ dbVars' = dbVars => Settles
  BY SparesGrowing, SettlesUnchanged DEF storageVars
<1> SUFFICES ASSUME NEW j \in Instance,
                    \/ \E oids \in SUBSET Oid :
                            SweepOrphans(j, oids) \/ SweepUnreferenced(j, oids)
                    \/ \E uri \in janitor[j].queue :
                            DeleteStored(j, uri) \/ DeleteFails(j, uri)
                    \/ SweepDone(j)
                    \/ JanitorCrash(j)
             PROVE  Settles /\ Spares /\ JanitorHolds'
  BY DEF JanitorNext
<1>1. ASSUME NEW oids \in SUBSET Oid, SweepOrphans(j, oids)
      PROVE  Settles /\ Spares /\ JanitorHolds'
  <2>1. \A o \in oids : ~IsVerified(o)
    BY <1>1 DEF SweepOrphans, SweepOrphanObjects, Orphan, IsVerified
  <2>2. Settles
    BY <1>1, <1>a, <2>1, DeleteRowsEffect, SettlesQuietly
       DEF SweepOrphans, SweepOrphanObjects
  <2>3. PresignURIs(oids) \subseteq Presigner \X Oid
    BY DEF PresignURIs, URI
  <2>4. JanitorHolds'
    BY <1>1, <1>a, <2>3 DEF SweepOrphans, Pass, JanitorHolds, IInv, JanitorTypeOK
  <2> QED
    BY <1>1, <1>b, <2>2, <2>4 DEF SweepOrphans
<1>2. ASSUME NEW oids \in SUBSET Oid, SweepUnreferenced(j, oids)
      PROVE  Settles /\ Spares /\ JanitorHolds'
  <2>1. oids = {}
    BY <1>2 DEF SweepUnreferenced, SweepUnreferencedObjects, IInv, VerifiedIsLinked,
                Unreferenced
  <2>2. Settles
    BY <1>2, <1>a, <2>1, DeleteRowsEffect, SettlesQuietly
       DEF SweepUnreferenced, SweepUnreferencedObjects
  <2>3. JanitorHolds'
    BY <1>2, <1>a, <2>1 DEF SweepUnreferenced, Pass, JanitorHolds, IInv, JanitorTypeOK
  <2> QED
    BY <1>2, <1>b, <2>2, <2>3 DEF SweepUnreferenced
<1>3. ASSUME NEW uri \in janitor[j].queue, DeleteStored(j, uri) \/ DeleteFails(j, uri)
      PROVE  Settles /\ Spares /\ JanitorHolds'
  <2>1. uri \in Presigner \X Oid
    BY DEF IInv, JanitorHolds
  <2>2. JanitorHolds'
    BY <1>3, <1>a DEF DeleteStored, DeleteFails, JanitorHolds, IInv, JanitorTypeOK
  <2>3. stored \ stored' \subseteq {uri}
    BY <1>3 DEF DeleteStored, DeleteFails, Delete, storageVars
  <2>4. Spares
    BY <2>1, <2>3 DEF Spares
  <2> QED
    BY <1>3, <1>b, <2>2, <2>4 DEF DeleteStored, DeleteFails
<1>4. ASSUME SweepDone(j) \/ JanitorCrash(j)
      PROVE  Settles /\ Spares /\ JanitorHolds'
  <2>1. JanitorHolds'
    BY <1>4, <1>a DEF SweepDone, JanitorCrash, Pass, JanitorHolds, IInv, JanitorTypeOK
  <2> QED
    BY <1>4, <1>b, <2>1 DEF SweepDone, JanitorCrash
<1> QED
  BY <1>1, <1>2, <1>3, <1>4

\* Neither time nor clients nor S3 touch a verified row or delete an object.
LEMMA EnvironmentHolds ==
    ASSUME IInv, Environment
    PROVE  Settles /\ Spares
<1>1. ASSUME NEW oid \in Oid, Age(oid), UNCHANGED storageVars
      PROVE  Settles /\ Spares
  BY <1>1, AgeEffect, SettlesQuietly, SparesGrowing DEF storageVars, IInv, TypeOK
<1>2. ASSUME NEW put \in presigned, UNCHANGED dbVars,
             ClientPut(put[1], put[2]) \/ PresignExpire(put[1], put[2])
      PROVE  Settles /\ Spares
  BY <1>2, SettlesUnchanged, SparesGrowing DEF ClientPut, PresignExpire
<1> QED
  BY <1>1, <1>2 DEF Environment

LEMMA IInvInit == Init => IInv
<1> SUFFICES ASSUME Init PROVE IInv
  OBVIOUS
<1>1. TypeOK
  BY AbsentType DEF Init, DbInit, StorageInit, HandlersInit, JanitorInit,
     TypeOK, DbTypeOK, StorageTypeOK, HandlersTypeOK, JanitorTypeOK
<1>2. \A oid \in Oid : ~IsVerified(oid)
  BY AbsentType DEF Init, DbInit, IsVerified
<1>3. \A c \in Conn : conn[c].pc = "idle"
  BY DEF Init, HandlersInit, Idle
<1> QED
  BY <1>1, <1>2, <1>3 DEF Init, DbInit, StorageInit, HandlersInit, JanitorInit,
     IInv, LinkedIsVerified, VerifiedIsLinked, UriIsCanonical, AckedIsHeld, ConnHolds,
     FoundHolds, ProtocolHolds, LinkHolds, CleanupHolds, At, JanitorHolds, ProxiedIsStored

\* The inductive step, and what every step does.
LEMMA IInvNext ==
    ASSUME IInv, [Next]_vars
    PROVE  IInv' /\ Settles /\ Spares
<1>0. TypeOK'
  BY TypeNext DEF IInv
<1>1. CASE HandlersNext /\ UNCHANGED janitorVars
  <2>1. JanitorHolds'
    BY <1>1 DEF janitorVars, JanitorHolds, IInv
  <2> QED
    BY <1>0, <1>1, <2>1, HandlersHold, TablesHold, AcksHold DEF IInv
<1>2. CASE JanitorNext /\ UNCHANGED handlerVars
  <2>1. Settles /\ Spares /\ JanitorHolds'
    BY <1>2, JanitorHold
  <2>2. acked' = acked /\ \A c \in Conn : conn'[c] = conn[c]
    BY <1>2 DEF handlerVars
  <2>3. AckedIsHeld' /\ \A c \in Conn : ConnHolds(c)'
    BY <2>1, <2>2, AcksHold, OthersHold
  <2> QED
    BY <1>0, <2>1, <2>3, TablesHold DEF IInv
<1>3. CASE \/ Environment /\ UNCHANGED <<handlerVars, janitorVars>>
           \/ UNCHANGED vars
  <2>1. Settles /\ Spares
    BY <1>3, EnvironmentHolds, SettlesUnchanged, SparesGrowing DEF vars, storageVars
  <2>2. /\ acked' = acked /\ janitor' = janitor
        /\ \A c \in Conn : conn'[c] = conn[c]
    BY <1>3 DEF vars, handlerVars, janitorVars
  <2>3. AckedIsHeld' /\ (\A c \in Conn : ConnHolds(c)') /\ JanitorHolds'
    BY <2>1, <2>2, AcksHold, OthersHold DEF JanitorHolds, IInv
  <2> QED
    BY <1>0, <2>1, <2>3, TablesHold DEF IInv
<1> QED
  BY <1>1, <1>2, <1>3 DEF Next
-----------------------------------------------------------------------------
(***************************************************************************)
(* Downloads.                                                              *)
(***************************************************************************)

\* Only DownloadLookup brings a request to the storage call of a download.
LEMMA OnlyLookupOpens ==
    ASSUME TypeOK, HandlersNext, NEW c \in Conn, conn'[c].pc = "open"
    PROVE  \/ conn'[c] = conn[c]
           \/ \E repo \in Repo, oid \in Oid : DownloadLookup(c, repo, oid)
<1>a. HandlersTypeOK
  BY DEF TypeOK
<1>b. ASSUME NEW d \in Conn, Finish(d)
      PROVE  conn'[c] = conn[c]
  BY <1>a, <1>b DEF Finish, Idle, HandlersTypeOK
<1>c. ASSUME NEW d \in Conn, conn[d] \in ObjectConn, NEW pc, GoTo(d, pc), pc # "open"
      PROVE  conn'[c] = conn[c]
  BY <1>a, <1>c, GoToHolds
<1>d. ASSUME NEW d \in Conn, NEW request, Begin(d, request), request.pc # "open"
      PROVE  conn'[c] = conn[c]
  BY <1>a, <1>d, BeginHolds
<1>1. ASSUME NEW d \in Conn, NEW repo \in Repo, NEW objs \in SUBSET Object,
             BatchLookup(d, repo, objs)
      PROVE  conn'[c] = conn[c]
  BY <1>1, <1>d DEF BatchLookup
<1>2. ASSUME NEW d \in Conn, NEW obj \in Object, BatchLink(d, obj) \/ BatchReply(d, obj)
      PROVE  conn'[c] = conn[c]
  <2>1. conn[d] \in BatchConn /\ NextObject(d, obj)
    BY <1>2, <1>a, ConnFields DEF BatchLink, BatchReply
  <2>2. CASE Finish(d)
    BY <1>b, <2>2
  <2>3. CASE conn' = [conn EXCEPT ![d].todo = @ \ {obj}]
    BY <1>a, <2>1, <2>3 DEF HandlersTypeOK, BatchConn
  <2> QED
    BY <2>1, <2>2, <2>3 DEF NextObject
<1>3. ASSUME NEW d \in Conn, NEW repo \in Repo, NEW oid \in Oid, NEW size \in Size,
             \/ UploadStat(d, repo, oid, size)
             \/ UploadLookup(d, repo, oid, size)
             \/ VerifyHead(d, repo, oid, size)
      PROVE  conn'[c] = conn[c]
  <2>1. PICK pc \in {"copy", "link", "insert", "verify"} :
            Begin(d, [pc |-> pc, repo |-> repo, oid |-> oid, size |-> size])
    BY <1>3 DEF UploadStat, UploadLookup, VerifyHead
  <2> QED
    BY <1>d, <2>1
<1>4. ASSUME NEW d \in Conn,
             \/ UploadCopy(d) \/ UploadLink(d) \/ UploadInsert(d) \/ UploadPresign(d)
             \/ VerifyCommit(d) \/ Cleanup(d) \/ Abort(d)
      PROVE  conn'[c] = conn[c]
  <2>1. CASE UploadPresign(d) \/ Cleanup(d) \/ Abort(d)
    BY <1>b, <2>1 DEF UploadPresign, Cleanup, Abort
  <2>2. CASE UploadCopy(d) \/ UploadInsert(d)
    <3>1. conn[d] \in ObjectConn
      BY <1>a, <2>2, ConnFields DEF UploadCopy, UploadInsert, At
    <3> QED
      BY <1>c, <2>2, <3>1 DEF UploadCopy, UploadInsert
  <2>3. CASE UploadLink(d) \/ VerifyCommit(d)
    <3>1. conn[d] \in ObjectConn
      BY <1>a, <2>3, ConnFields DEF UploadLink, VerifyCommit, At
    <3> QED
      BY <1>b, <1>c, <2>3, <3>1 DEF UploadLink, VerifyCommit, ReplyOrCleanup
  <2> QED
    BY <1>4, <2>1, <2>2, <2>3
<1>5. ASSUME NEW d \in Conn, NEW repo \in Repo, NEW oid \in Oid,
             DownloadLookup(d, repo, oid), d # c
      PROVE  conn'[c] = conn[c]
  BY <1>5, <1>a, BeginHolds DEF DownloadLookup
<1>6. ASSUME NEW repo \in Repo, NEW oid \in Oid, NEW size \in Size,
             VerifyProxy(repo, oid, size)
      PROVE  conn'[c] = conn[c]
  BY <1>6 DEF VerifyProxy
<1> QED
  BY <1>1, <1>2, <1>3, <1>4, <1>5, <1>6 DEF HandlersNext

LEMMA DownloadNext == DownloadIInv /\ [Next]_vars => DownloadIInv'
<1> SUFFICES ASSUME DownloadIInv, [Next]_vars, NEW c \in Conn, conn'[c].pc = "open"
             PROVE  IInv' /\ /\ IsVerified(conn[c].oid)'
                             /\ conn'[c].uri = objects'[conn'[c].oid].uri
  BY IInvNext DEF DownloadIInv, DownloadHolds, At
<1>1. IInv /\ TypeOK /\ IInv' /\ Settles /\ DownloadHolds(c)
  BY IInvNext DEF DownloadIInv, IInv
<1>2. CASE conn'[c] = conn[c]
  <2>1. conn[c].oid \in Oid
    BY <1>1, <1>2, ConnFields DEF TypeOK, DownloadConn, At
  <2> QED
    BY <1>1, <1>2, <2>1 DEF DownloadHolds, Settles, IsVerified, At
<1>3. ASSUME NEW repo \in Repo, NEW oid \in Oid, DownloadLookup(c, repo, oid)
      PROVE  IsVerified(conn[c].oid)' /\ conn'[c].uri = objects'[conn'[c].oid].uri
  <2>1. conn'[c] = [pc |-> "open", repo |-> repo, oid |-> oid, uri |-> objects[oid].uri]
    BY <1>1, <1>3, BeginHolds DEF DownloadLookup, TypeOK
  <2>2. IsVerified(oid) /\ objects' = objects
    BY <1>1, <1>3 DEF DownloadLookup, HasRepoObject, IInv, LinkedIsVerified, dbVars
  <2> QED
    BY <2>1, <2>2 DEF IsVerified
<1>4. conn'[c] = conn[c] \/ \E repo \in Repo, oid \in Oid : DownloadLookup(c, repo, oid)
  BY <1>1, OnlyLookupOpens DEF Next, handlerVars, vars
<1> QED
  BY <1>1, <1>2, <1>3, <1>4

-----------------------------------------------------------------------------
(***************************************************************************)
(* The theorems.                                                           *)
(***************************************************************************)

(***************************************************************************)
(* IInv is an invariant: what the runs check as IInv on two repositories,  *)
(* one object and two requests holds for any number of them.               *)
(***************************************************************************)
THEOREM InvariantHolds == Spec => []IInv
BY IInvInit, IInvNext, PTL DEF Spec

(***************************************************************************)
(* An object that any handler acknowledged stays downloadable from that    *)
(* repository with that size, in every interleaving of handlers, janitors  *)
(* and crashes: the lookup of serveBatch finds it.                         *)
(***************************************************************************)
THEOREM AckedSafe == Spec => []AckedDownloadable
<1>1. IInv => AckedDownloadable
  BY DEF IInv, AckedIsHeld, LinkedIsVerified, AckedDownloadable, BatchDownload,
         HasRepoObject
<1> QED
  BY <1>1, InvariantHolds, PTL

(***************************************************************************)
(* No handler and no sweep changes or removes a verified row: the first    *)
(* LinkObject or VerifyObject settles size and location.                   *)
(***************************************************************************)
THEOREM VerifiedStays == Spec => VerifiedForGood
<1>1. IInv /\ [Next]_vars
        => [\A oid \in Oid : IsVerified(oid) => objects'[oid] = objects[oid]]_vars
  BY IInvNext DEF Settles
<1> QED
  BY <1>1, InvariantHolds, PTL DEF Spec, VerifiedForGood

(***************************************************************************)
(* The literal "ignored" of serveBatch never reaches object_uri as long as *)
(* nothing unlinks objects.                                                *)
(***************************************************************************)
THEOREM PlaceholderSafe == Spec => []PlaceholderNeverWritten
<1>1. IInv => PlaceholderNeverWritten
  <2> SUFFICES ASSUME IInv, NEW oid \in Oid
               PROVE  objects[oid].uri # Ignored
    BY DEF PlaceholderNeverWritten
  <2>1. CASE IsVerified(oid)
    BY <2>1, NullAssumption DEF IInv, UriIsCanonical, Uri
  <2>2. CASE ~IsVerified(oid)
    BY <2>2, RowFields, NullAssumption DEF IInv, TypeOK, DbTypeOK, IsVerified
  <2> QED
    BY <2>1, <2>2
<1> QED
  BY <1>1, InvariantHolds, PTL

(***************************************************************************)
(* The Delete of serveUploadProxy and serveVerifyPresign never hits the    *)
(* location that the row points to.                                        *)
(***************************************************************************)
THEOREM CleanupSafe == Spec => []CleanupSparesReferenced
<1>1. IInv => CleanupSparesReferenced
  BY DEF IInv, ConnHolds, CleanupHolds, CleanupSparesReferenced
<1> QED
  BY <1>1, InvariantHolds, PTL

(***************************************************************************)
(* A row that points to a filesystem backend has its file: Put renames     *)
(* before LinkObject commits, and nobody deletes it after.                 *)
(***************************************************************************)
THEOREM ProxiedSafe == Spec => []ProxiedIsStored
<1>1. IInv => ProxiedIsStored
  BY DEF IInv
<1> QED
  BY <1>1, InvariantHolds, PTL

(***************************************************************************)
(* If every backend is a filesystem backend, then no verified row is       *)
(* without its bytes.                                                      *)
(***************************************************************************)
THEOREM ProxiedOnlySafe ==
    ASSUME Proxier = Backend
    PROVE  Spec => []VerifiedIsStored
<1>1. IInv => VerifiedIsStored
  BY DEF IInv, ProxiedIsStored, UriIsCanonical, VerifiedIsStored
<1> QED
  BY <1>1, InvariantHolds, PTL

(***************************************************************************)
(* A download from a filesystem finds its file: the row that it looked up  *)
(* stays as it was, and nobody deletes what a verified row points to.      *)
(***************************************************************************)
THEOREM DownloadSafe == Spec => []DownloadServed
<1>1. Init => DownloadIInv
  BY IInvInit DEF DownloadIInv, DownloadHolds, Init, HandlersInit, Idle, At
<1>2. DownloadIInv => DownloadServed
  <2> SUFFICES ASSUME DownloadIInv, NEW c \in Conn, At(c, "open"),
                      StorageOf[conn[c].repo] \in Proxier,
                      Owns(StorageOf[conn[c].repo], conn[c].uri)
               PROVE  Servable(c)
    BY DEF DownloadServed
  <2>1. conn[c].oid \in Oid
    BY ConnFields DEF DownloadIInv, IInv, TypeOK, At, DownloadConn
  <2>2. /\ IsVerified(conn[c].oid) /\ conn[c].uri = objects[conn[c].oid].uri
        /\ conn[c].uri \in Backend \X {conn[c].oid}
    BY <2>1 DEF DownloadIInv, DownloadHolds, IInv, UriIsCanonical
  <2>3. conn[c].uri \in Proxier \X Oid
    BY <2>1, <2>2 DEF Owns
  <2> QED
    BY <2>1, <2>2, <2>3 DEF DownloadIInv, IInv, ProxiedIsStored, Servable
<1> QED
  BY <1>1, <1>2, DownloadNext, PTL DEF Spec

\* A row that gets verified points to the storage of the request's own forge.
LEMMA LocationsWritten ==
    ASSUME IInv, UriIsOfAForge, [Next]_vars
    PROVE  UriIsOfAForge'
<1>a. DbTypeOK /\ HandlersTypeOK
  BY DEF IInv, TypeOK
<1>b. ASSUME NEW oid \in Oid, NEW repo \in Repo,
             \A o \in Oid : IsVerified(o) \/ o # oid => objects'[o] = objects[o],
             ~IsVerified(oid) => objects'[oid].uri = URI(StorageOf[repo], oid)
      PROVE  UriIsOfAForge'
  BY <1>b DEF UriIsOfAForge, IsVerified
<1>c. ASSUME \A o \in Oid : IsVerified(o) => objects'[o] = objects[o],
             \A o \in Oid : ~IsVerified(o) => objects'[o].status # "verified"
      PROVE  UriIsOfAForge'
  BY <1>c DEF UriIsOfAForge, IsVerified
<1>1. ASSUME NEW c \in Conn, NEW obj \in Object, BatchLink(c, obj)
      PROVE  UriIsOfAForge'
  <2>1. conn[c].repo \in Repo /\ obj[1] \in Oid /\ obj[2] \in Size
    BY <1>1, <1>a, ConnFields DEF BatchLink, BatchConn, Object
  <2>2. IsVerified(obj[1])
    BY <1>1 DEF BatchLink, Deduplicated, IInv, ConnHolds, FoundHolds
  <2>3. \A o \in Oid : IsVerified(o) \/ o # obj[1] => objects'[o] = objects[o]
    BY <1>1, <1>a, <2>1, LinkObjectEffect DEF BatchLink
  <2> QED
    BY <1>b, <2>1, <2>2, <2>3
<1>2. ASSUME NEW c \in Conn, UploadLink(c) \/ VerifyCommit(c)
      PROVE  UriIsOfAForge'
  <2>1. conn[c] \in ObjectConn
    BY <1>2, <1>a, ConnFields DEF UploadLink, VerifyCommit, At
  <2>2. /\ conn[c].repo \in Repo /\ conn[c].oid \in Oid /\ conn[c].size \in Size
        /\ OwnURI(c) \in Uri /\ OwnURI(c) = URI(StorageOf[conn[c].repo], conn[c].oid)
    BY <2>1, URIType, ConfigAssumption DEF ObjectConn, OwnURI
  <2>3. /\ \A o \in Oid : IsVerified(o) \/ o # conn[c].oid => objects'[o] = objects[o]
        /\ ~IsVerified(conn[c].oid) => objects'[conn[c].oid].uri = OwnURI(c)
    BY <1>2, <1>a, <2>2, LinkObjectEffect, VerifyObjectEffect DEF UploadLink, VerifyCommit
  <2> QED
    BY <1>b, <2>2, <2>3
<1>3. ASSUME NEW c \in Conn, UploadInsert(c)
      PROVE  UriIsOfAForge'
  <2>1. conn[c].oid \in Oid
    BY <1>3, <1>a, ConnFields DEF UploadInsert, At, ObjectConn
  <2> QED
    BY <1>3, <1>a, <1>c, <2>1, InsertPendingEffect DEF UploadInsert
<1>4. CASE JanitorNext
  <2>1. ASSUME NEW oids \in SUBSET Oid, SweepOrphanObjects(oids) \/ SweepUnreferencedObjects(oids)
        PROVE  UriIsOfAForge'
    <3>1. DeleteRows(oids) /\ \A o \in oids : ~IsVerified(o)
      BY <2>1 DEF SweepOrphanObjects, SweepUnreferencedObjects, Orphan, IsVerified, IInv,
                  VerifiedIsLinked, Unreferenced
    <3> QED
      BY <1>a, <1>c, <3>1, DeleteRowsEffect
  <2>2. ASSUME UNCHANGED dbVars
        PROVE  UriIsOfAForge'
    BY <2>2 DEF dbVars, UriIsOfAForge, IsVerified
  <2> QED
    BY <1>4, <2>1, <2>2 DEF JanitorNext, SweepOrphans, SweepUnreferenced, DeleteStored,
                            DeleteFails, SweepDone, JanitorCrash
<1>5. ASSUME NEW oid \in Oid, Age(oid)
      PROVE  UriIsOfAForge'
  BY <1>5, <1>a, <1>c, AgeEffect
<1>6. CASE UNCHANGED dbVars
  BY <1>6 DEF dbVars, UriIsOfAForge, IsVerified
<1>7. CASE HandlersNext
  BY <1>1, <1>2, <1>3, <1>6, <1>7
     DEF HandlersNext, BatchLookup, BatchReply, UploadStat, UploadLookup, VerifyHead,
         VerifyProxy, DownloadLookup, UploadCopy, UploadPresign, Cleanup, Abort
<1> QED
  BY <1>4, <1>5, <1>6, <1>7 DEF Next, Environment, vars

(***************************************************************************)
(* If every forge uses the same storage, an acknowledged repository's      *)
(* backend owns the location in the row: the download that batch promises  *)
(* (lfs.go:178-179) is not refused by Open or PresignGet.  Where storages  *)
(* differ this is not so.                                                  *)
(***************************************************************************)
THEOREM SharedStorageOwned ==
    ASSUME \A r, s \in Repo : StorageOf[r] = StorageOf[s]
    PROVE  Spec => []AckedIsOwned
<1>1. Init => UriIsOfAForge
  BY AbsentType DEF Init, DbInit, UriIsOfAForge, IsVerified
<1>2. IInv /\ UriIsOfAForge => AckedIsOwned
  <2> SUFFICES ASSUME IInv, UriIsOfAForge, NEW ack \in acked
               PROVE  Owns(StorageOf[ack[1]], objects[ack[2]].uri)
    BY DEF AckedIsOwned
  <2>1. ack[1] \in Repo /\ ack[2] \in Oid
    BY DEF IInv, TypeOK, HandlersTypeOK
  <2>2. IsVerified(ack[2])
    BY DEF IInv, AckedIsHeld, LinkedIsVerified
  <2>3. PICK repo \in Repo : objects[ack[2]].uri = URI(StorageOf[repo], ack[2])
    BY <2>1, <2>2 DEF UriIsOfAForge
  <2>4. StorageOf[repo] = StorageOf[ack[1]]
    BY <2>1
  <2> QED
    BY <2>1, <2>3, <2>4, URIType, ConfigAssumption DEF Owns, URI
<1>3. Spec => []UriIsOfAForge
  BY <1>1, LocationsWritten, InvariantHolds, PTL DEF Spec
<1> QED
  BY <1>2, <1>3, InvariantHolds, PTL

-----------------------------------------------------------------------------
(***************************************************************************)
(* What happens to stored objects.                                         *)
(***************************************************************************)

\* A handler deletes no bytes but those of an upload that has lost.
LEMMA HandlersTakeLosers ==
    ASSUME IInv, HandlersNext, NEW uri \in stored \ stored'
    PROVE  IsVerified(uri[2]) /\ objects[uri[2]].uri # uri
<1>1. \E c \in Conn : Cleanup(c)
  BY DEF HandlersNext, BatchLookup, BatchLink, BatchReply, UploadStat, UploadLookup,
         VerifyHead, VerifyProxy, DownloadLookup, UploadCopy, UploadLink, UploadInsert,
         UploadPresign, VerifyCommit, Abort, PutRename, PresignPut, storageVars
<1>2. PICK c \in Conn : Cleanup(c)
  BY <1>1
<1>3. uri = OwnURI(c)
  BY <1>2 DEF Cleanup, Delete, storageVars
<1>4. uri[2] = conn[c].oid
  BY <1>3 DEF OwnURI, URI
<1>5. <<conn[c].repo, conn[c].oid>> \in repoObjects /\ objects[conn[c].oid].uri # OwnURI(c)
  BY <1>2 DEF Cleanup, IInv, ConnHolds, CleanupHolds
<1> QED
  BY <1>3, <1>4, <1>5 DEF IInv, LinkedIsVerified

\* The second pass of a janitor has nothing to delete.
LEMMA QueuedNext ==
    ASSUME IInv, OnlyOrphansQueued, [Next]_vars
    PROVE  OnlyOrphansQueued'
<1>a. JanitorTypeOK
  BY DEF IInv, TypeOK
<1>1. CASE JanitorNext
  <2> SUFFICES ASSUME NEW j \in Instance,
                      \/ \E oids \in SUBSET Oid :
                              SweepOrphans(j, oids) \/ SweepUnreferenced(j, oids)
                      \/ \E uri \in janitor[j].queue :
                              DeleteStored(j, uri) \/ DeleteFails(j, uri)
                      \/ SweepDone(j)
                      \/ JanitorCrash(j)
               PROVE  OnlyOrphansQueued'
    BY <1>1 DEF JanitorNext
  <2>1. ASSUME NEW oids \in SUBSET Oid, SweepOrphans(j, oids)
        PROVE  OnlyOrphansQueued'
    BY <1>a, <2>1 DEF SweepOrphans, Pass, JanitorTypeOK, OnlyOrphansQueued
  <2>2. ASSUME NEW oids \in SUBSET Oid, SweepUnreferenced(j, oids)
        PROVE  OnlyOrphansQueued'
    <3>1. oids = {}
      BY <2>2 DEF SweepUnreferenced, SweepUnreferencedObjects, IInv, VerifiedIsLinked,
                  Unreferenced
    <3> QED
      BY <1>a, <2>2, <3>1 DEF SweepUnreferenced, Pass, JanitorTypeOK, OnlyOrphansQueued
  <2>3. ASSUME NEW uri \in janitor[j].queue, DeleteStored(j, uri) \/ DeleteFails(j, uri)
        PROVE  OnlyOrphansQueued'
    BY <1>a, <2>3 DEF DeleteStored, DeleteFails, JanitorTypeOK, OnlyOrphansQueued
  <2>4. ASSUME SweepDone(j) \/ JanitorCrash(j)
        PROVE  OnlyOrphansQueued'
    BY <1>a, <2>4 DEF SweepDone, JanitorCrash, Pass, JanitorTypeOK, OnlyOrphansQueued
  <2> QED
    BY <2>1, <2>2, <2>3, <2>4
<1>2. CASE UNCHANGED janitorVars
  BY <1>2 DEF janitorVars, OnlyOrphansQueued
<1> QED
  BY <1>1, <1>2 DEF Next, vars

(***************************************************************************)
(* While nothing unlinks objects, a verified row loses its bytes only to a *)
(* janitor that took the row as an orphan and is late with its deletes:    *)
(* no handler, no other pass and no crash takes them.                      *)
(***************************************************************************)
THEOREM OnlyLateDeletes == Spec => OnlyOrphanSweepTakes
<1>1. Init => OnlyOrphansQueued
  BY DEF Init, JanitorInit, OnlyOrphansQueued
<1>2. IInv /\ OnlyOrphansQueued /\ [Next]_vars =>
        [\A oid \in Oid :
            IsVerified(oid) /\ objects[oid].uri \in stored \ stored'
                => \E j \in Instance : /\ janitor[j].pc = "orphan"
                                       /\ objects[oid].uri \in janitor[j].queue]_vars
  <2> SUFFICES ASSUME IInv, OnlyOrphansQueued, Next, NEW oid \in Oid, IsVerified(oid),
                      objects[oid].uri \in stored \ stored'
               PROVE  \E j \in Instance : /\ janitor[j].pc = "orphan"
                                          /\ objects[oid].uri \in janitor[j].queue
    OBVIOUS
  <2>1. objects[oid].uri[2] = oid
    BY DEF IInv, UriIsCanonical
  <2>2. ~HandlersNext
    BY <2>1, HandlersTakeLosers
  <2>3. ~Environment
    BY DEF Environment, ClientPut, PresignExpire, storageVars
  <2>4. PICK j \in Instance : \E uri \in janitor[j].queue : DeleteStored(j, uri)
    BY <2>2, <2>3 DEF Next, JanitorNext, SweepOrphans, SweepUnreferenced, DeleteFails,
                      SweepDone, JanitorCrash, storageVars
  <2>5. objects[oid].uri \in janitor[j].queue
    BY <2>4 DEF DeleteStored, Delete
  <2> QED
    BY <2>5 DEF OnlyOrphansQueued
<1>3. Spec => []OnlyOrphansQueued
  BY <1>1, QueuedNext, InvariantHolds, PTL DEF Spec
<1> QED
  BY <1>2, <1>3, InvariantHolds, PTL DEF Spec, OnlyOrphanSweepTakes

(***************************************************************************)
(* Whatever requests and janitors do, they use the backends only as        *)
(* Storage promises: a Put only where there is one, a presigned URL only   *)
(* of a backend that makes them, and no Delete of what is not a location.  *)
(***************************************************************************)
THEOREM ServerImplementsStorage == Spec => StorageSpec
<1>1. ASSUME IInv, HandlersNext
      PROVE  [StorageNext]_storageVars
  <2>a. HandlersTypeOK
    BY <1>1 DEF IInv, TypeOK
  <2>1. ASSUME NEW c \in Conn, UploadCopy(c) \/ UploadPresign(c) \/ Cleanup(c)
        PROVE  [StorageNext]_storageVars
    <3>1. conn[c] \in ObjectConn
      BY <2>1, <2>a, ConnFields DEF UploadCopy, UploadPresign, Cleanup, At
    <3>2. /\ conn[c].repo \in Repo /\ conn[c].oid \in Oid /\ conn[c].size \in Size
          /\ StorageOf[conn[c].repo] \in Backend /\ OwnURI(c) \in Uri
      BY <3>1, URIType, ConfigAssumption DEF ObjectConn, OwnURI
    <3>3. /\ UploadCopy(c) => StorageOf[conn[c].repo] \in Proxier
          /\ UploadPresign(c) => StorageOf[conn[c].repo] \in Presigner
      BY <1>1 DEF UploadCopy, UploadPresign, At, IInv, ConnHolds, ProtocolHolds
    <3>4. \/ PutRename(StorageOf[conn[c].repo], conn[c].oid, conn[c].size) /\ UploadCopy(c)
          \/ PresignPut(StorageOf[conn[c].repo], conn[c].oid, conn[c].size) /\ UploadPresign(c)
          \/ Delete(StorageOf[conn[c].repo], OwnURI(c))
          \/ UNCHANGED storageVars
      BY <2>1 DEF UploadCopy, UploadPresign, Cleanup
    <3> QED
      BY <3>2, <3>3, <3>4 DEF StorageNext
  <2> QED
    BY <1>1, <2>1
       DEF HandlersNext, BatchLookup, BatchLink, BatchReply, UploadStat, UploadLookup,
           VerifyHead, VerifyProxy, DownloadLookup, UploadLink, UploadInsert, VerifyCommit,
           Abort
<1>2. ASSUME JanitorNext
      PROVE  [StorageNext]_storageVars
  <2>1. ASSUME NEW uri, NEW b \in Backend, Delete(b, uri)
        PROVE  StorageNext
    BY <2>1 DEF Delete, Owns, StorageNext
  <2> QED
    BY <1>2, <2>1 DEF JanitorNext, SweepOrphans, SweepUnreferenced, DeleteStored, DeleteFails,
                      SweepDone, JanitorCrash
<1>3. ASSUME Environment
      PROVE  [StorageNext]_storageVars
  BY <1>3 DEF Environment, StorageNext
<1>4. IInv /\ [Next]_vars => [StorageNext]_storageVars
  BY <1>1, <1>2, <1>3 DEF Next, vars
<1> QED
  BY <1>4, InvariantHolds, PTL DEF Spec, Init, StorageSpec

-----------------------------------------------------------------------------
(***************************************************************************)
(* Sizes, on presigned storage.  Head compares the claimed size with the   *)
(* bytes, and VerifyObject alone writes a row that points to such storage. *)
(***************************************************************************)
SizeHolds(c) == At(c, "verify") => conn[c].size = ContentSize[conn[c].oid]

SizeInv == SizeIsTrue /\ \A c \in Conn : SizeHolds(c)

\* Only VerifyHead brings a request to VerifyObject.
LEMMA OnlyHeadVerifies ==
    ASSUME TypeOK, HandlersNext, NEW c \in Conn, conn'[c].pc = "verify"
    PROVE  \/ conn'[c] = conn[c]
           \/ \E repo \in Repo, oid \in Oid, size \in Size : VerifyHead(c, repo, oid, size)
<1>a. HandlersTypeOK
  BY DEF TypeOK
<1>b. ASSUME NEW d \in Conn, Finish(d)
      PROVE  conn'[c] = conn[c]
  BY <1>a, <1>b DEF Finish, Idle, HandlersTypeOK
<1>c. ASSUME NEW d \in Conn, conn[d] \in ObjectConn, NEW pc, GoTo(d, pc), pc # "verify"
      PROVE  conn'[c] = conn[c]
  BY <1>a, <1>c, GoToHolds
<1>d. ASSUME NEW d \in Conn, NEW request, Begin(d, request), request.pc # "verify"
      PROVE  conn'[c] = conn[c]
  BY <1>a, <1>d, BeginHolds
<1>1. ASSUME NEW d \in Conn, NEW repo \in Repo, NEW objs \in SUBSET Object,
             BatchLookup(d, repo, objs)
      PROVE  conn'[c] = conn[c]
  BY <1>1, <1>d DEF BatchLookup
<1>2. ASSUME NEW d \in Conn, NEW obj \in Object, BatchLink(d, obj) \/ BatchReply(d, obj)
      PROVE  conn'[c] = conn[c]
  <2>1. conn[d] \in BatchConn /\ NextObject(d, obj)
    BY <1>2, <1>a, ConnFields DEF BatchLink, BatchReply
  <2>2. CASE Finish(d)
    BY <1>b, <2>2
  <2>3. CASE conn' = [conn EXCEPT ![d].todo = @ \ {obj}]
    BY <1>a, <2>1, <2>3 DEF HandlersTypeOK, BatchConn
  <2> QED
    BY <2>1, <2>2, <2>3 DEF NextObject
<1>3. ASSUME NEW d \in Conn, NEW repo \in Repo, NEW oid \in Oid, NEW size \in Size,
             \/ UploadStat(d, repo, oid, size)
             \/ UploadLookup(d, repo, oid, size)
             \/ VerifyHead(d, repo, oid, size) /\ d # c
      PROVE  conn'[c] = conn[c]
  <2>1. CASE VerifyHead(d, repo, oid, size) /\ d # c
    BY <1>a, <2>1, BeginHolds DEF VerifyHead
  <2>2. CASE UploadStat(d, repo, oid, size) \/ UploadLookup(d, repo, oid, size)
    <3>1. PICK pc \in {"copy", "link", "insert"} :
              Begin(d, [pc |-> pc, repo |-> repo, oid |-> oid, size |-> size])
      BY <2>2 DEF UploadStat, UploadLookup
    <3> QED
      BY <1>d, <3>1
  <2> QED
    BY <1>3, <2>1, <2>2
<1>4. ASSUME NEW d \in Conn,
             \/ UploadCopy(d) \/ UploadLink(d) \/ UploadInsert(d) \/ UploadPresign(d)
             \/ VerifyCommit(d) \/ Cleanup(d) \/ Abort(d)
      PROVE  conn'[c] = conn[c]
  <2>1. CASE UploadPresign(d) \/ Cleanup(d) \/ Abort(d)
    BY <1>b, <2>1 DEF UploadPresign, Cleanup, Abort
  <2>2. CASE UploadCopy(d) \/ UploadInsert(d)
    <3>1. conn[d] \in ObjectConn
      BY <1>a, <2>2, ConnFields DEF UploadCopy, UploadInsert, At
    <3> QED
      BY <1>c, <2>2, <3>1 DEF UploadCopy, UploadInsert
  <2>3. CASE UploadLink(d) \/ VerifyCommit(d)
    <3>1. conn[d] \in ObjectConn
      BY <1>a, <2>3, ConnFields DEF UploadLink, VerifyCommit, At
    <3> QED
      BY <1>b, <1>c, <2>3, <3>1 DEF UploadLink, VerifyCommit, ReplyOrCleanup
  <2> QED
    BY <1>4, <2>1, <2>2, <2>3
<1>5. ASSUME NEW d \in Conn, NEW repo \in Repo, NEW oid \in Oid, DownloadLookup(d, repo, oid)
      PROVE  conn'[c] = conn[c]
  BY <1>5, <1>d DEF DownloadLookup
<1>6. ASSUME NEW repo \in Repo, NEW oid \in Oid, NEW size \in Size,
             VerifyProxy(repo, oid, size)
      PROVE  conn'[c] = conn[c]
  BY <1>6 DEF VerifyProxy
<1> QED
  BY <1>1, <1>2, <1>3, <1>4, <1>5, <1>6 DEF HandlersNext

\* A request that is about to verify has been told the true size by Head.
LEMMA VerifiesTrueSize ==
    ASSUME TypeOK, SizeInv, [Next]_vars, NEW c \in Conn
    PROVE  SizeHolds(c)'
<1> SUFFICES ASSUME conn'[c].pc = "verify"
             PROVE  conn'[c].size = ContentSize[conn'[c].oid]
  BY DEF SizeHolds, At
<1>1. CASE conn'[c] = conn[c]
  BY <1>1 DEF SizeInv, SizeHolds, At
<1>2. ASSUME NEW repo \in Repo, NEW oid \in Oid, NEW size \in Size,
             VerifyHead(c, repo, oid, size)
      PROVE  conn'[c].size = ContentSize[conn'[c].oid]
  <2>1. conn'[c] = [pc |-> "verify", repo |-> repo, oid |-> oid, size |-> size]
    BY <1>2, BeginHolds DEF VerifyHead, TypeOK
  <2>2. size = ContentSize[oid]
    BY <1>2 DEF VerifyHead, HeadIs, URI
  <2> QED
    BY <2>1, <2>2
<1>3. \/ conn'[c] = conn[c]
      \/ \E repo \in Repo, oid \in Oid, size \in Size : VerifyHead(c, repo, oid, size)
  BY OnlyHeadVerifies DEF Next, handlerVars, vars
<1> QED
  BY <1>1, <1>2, <1>3

\* A row that a step verifies on presigned storage gets the size of its bytes.
LEMMA TrueSizeWritten ==
    ASSUME IInv, SizeInv, [Next]_vars, NEW oid \in Oid, ~IsVerified(oid),
           objects'[oid].status = "verified", objects'[oid].uri \in Presigner \X Oid
    PROVE  objects'[oid].size = ContentSize[oid]
<1>a. DbTypeOK /\ HandlersTypeOK
  BY DEF IInv, TypeOK
<1>b. objects'[oid] # objects[oid]
  BY DEF IsVerified
<1>1. ASSUME NEW c \in Conn, NEW obj \in Object, BatchLink(c, obj)
      PROVE  FALSE
  <2>1. conn[c].repo \in Repo /\ obj[1] \in Oid /\ obj[2] \in Size
    BY <1>1, <1>a, ConnFields DEF BatchLink, BatchConn, Object
  <2>2. IsVerified(obj[1])
    BY <1>1 DEF BatchLink, Deduplicated, IInv, ConnHolds, FoundHolds
  <2> QED
    BY <1>1, <1>a, <1>b, <2>1, <2>2, LinkObjectEffect DEF BatchLink
<1>2. ASSUME NEW c \in Conn, UploadLink(c)
      PROVE  FALSE
  <2>1. conn[c] \in ObjectConn
    BY <1>2, <1>a, ConnFields DEF UploadLink, At
  <2>2. /\ conn[c].repo \in Repo /\ conn[c].oid \in Oid /\ conn[c].size \in Size
        /\ OwnURI(c) \in Uri /\ OwnURI(c)[1] = StorageOf[conn[c].repo]
    BY <2>1, URIType, ConfigAssumption DEF ObjectConn, OwnURI
  <2>3. objects'[oid].uri = OwnURI(c)
    BY <1>2, <1>a, <1>b, <2>2, LinkObjectEffect DEF UploadLink
  <2>4. StorageOf[conn[c].repo] \in Proxier
    BY <1>2 DEF UploadLink, At, IInv, ConnHolds, ProtocolHolds
  <2>5. objects'[oid].uri[1] \in Presigner
    OBVIOUS
  <2> QED
    BY <2>2, <2>3, <2>4, <2>5 DEF Presigner
<1>3. ASSUME NEW c \in Conn, VerifyCommit(c)
      PROVE  objects'[oid].size = ContentSize[oid]
  <2>1. conn[c] \in ObjectConn /\ conn[c].size = ContentSize[conn[c].oid]
    BY <1>3, <1>a, ConnFields DEF VerifyCommit, At, SizeInv, SizeHolds
  <2>2. /\ conn[c].repo \in Repo /\ conn[c].oid \in Oid /\ conn[c].size \in Size
        /\ OwnURI(c) \in Uri
    BY <2>1, URIType, ConfigAssumption DEF ObjectConn, OwnURI
  <2> QED
    BY <1>3, <1>a, <1>b, <2>1, <2>2, VerifyObjectEffect DEF VerifyCommit
<1>4. ASSUME NEW c \in Conn, UploadInsert(c)
      PROVE  FALSE
  <2>1. conn[c].oid \in Oid
    BY <1>4, <1>a, ConnFields DEF UploadInsert, At, ObjectConn
  <2> QED
    BY <1>4, <1>a, <2>1, InsertPendingEffect DEF UploadInsert
<1>5. ~UNCHANGED dbVars
  BY <1>b DEF dbVars
<1>6. CASE HandlersNext
  BY <1>1, <1>2, <1>3, <1>4, <1>5, <1>6
     DEF HandlersNext, BatchLookup, BatchReply, UploadStat, UploadLookup, VerifyHead,
         VerifyProxy, DownloadLookup, UploadCopy, UploadPresign, Cleanup, Abort
<1>7. ASSUME NEW oids, DeleteRows(oids)
      PROVE  FALSE
  BY <1>7, <1>b, AbsentType DEF DeleteRows
<1>8. CASE JanitorNext
  BY <1>5, <1>7, <1>8
     DEF JanitorNext, SweepOrphans, SweepUnreferenced, SweepOrphanObjects,
         SweepUnreferencedObjects, DeleteStored, DeleteFails, SweepDone, JanitorCrash
<1>9. ASSUME NEW o \in Oid, Age(o)
      PROVE  FALSE
  BY <1>9, <1>a, AgeEffect
<1> QED
  BY <1>5, <1>6, <1>8, <1>9 DEF Next, Environment, vars

(***************************************************************************)
(* The size recorded for an object on presigned storage is the length of   *)
(* its bytes, whichever uploads, batches, verifies and sweeps of any kind  *)
(* of storage raced for the row.                                           *)
(***************************************************************************)
THEOREM SizesAreTrue == Spec => []SizeIsTrue
<1>1. Init => SizeInv
  BY AbsentType DEF SizeInv, SizeIsTrue, SizeHolds, At, Init, DbInit, HandlersInit, Idle,
                    IsVerified
<1>2. IInv /\ SizeInv /\ [Next]_vars => SizeInv'
  <2> SUFFICES ASSUME IInv, SizeInv, [Next]_vars PROVE SizeInv'
    OBVIOUS
  <2>1. \A c \in Conn : SizeHolds(c)'
    BY VerifiesTrueSize DEF IInv
  <2>2. \A oid \in Oid : IsVerified(oid) => objects'[oid] = objects[oid]
    BY IInvNext DEF Settles
  <2>3. SizeIsTrue'
    BY <2>2, TrueSizeWritten DEF SizeInv, SizeIsTrue, IsVerified
  <2> QED
    BY <2>1, <2>3 DEF SizeInv
<1>3. SizeInv => SizeIsTrue
  BY DEF SizeInv
<1> QED
  BY <1>1, <1>2, <1>3, InvariantHolds, PTL DEF Spec

-----------------------------------------------------------------------------
(***************************************************************************)
(* What still holds when an operator unlinks objects beside a server with  *)
(* filesystem storage.  Each step of the server is at most one transaction *)
(* of Database, so what the tables keep to is proved of Database.          *)
(***************************************************************************)
Unlinks == \E repo \in Repo, oid \in Oid : Unlink(repo, oid)

LEMMA HandlersCallDatabase ==
    ASSUME TypeOK, HandlersNext
    PROVE  [DbNext]_dbVars
<1>a. HandlersTypeOK
  BY DEF TypeOK
<1>1. ASSUME NEW c \in Conn, NEW obj \in Object, BatchLink(c, obj)
      PROVE  DbNext
  <2>1. conn[c].repo \in Repo /\ obj[1] \in Oid /\ obj[2] \in Size
    BY <1>1, <1>a, ConnFields DEF BatchLink, BatchConn, Object
  <2>2. LinkObject(conn[c].repo, obj[1], obj[2], Ignored)
    BY <1>1 DEF BatchLink
  <2> QED
    BY <2>1, <2>2 DEF DbNext
<1>2. ASSUME NEW c \in Conn, UploadLink(c) \/ UploadInsert(c) \/ VerifyCommit(c)
      PROVE  DbNext
  <2>1. conn[c] \in ObjectConn
    BY <1>2, <1>a, ConnFields DEF UploadLink, UploadInsert, VerifyCommit, At
  <2>2. /\ conn[c].repo \in Repo /\ conn[c].oid \in Oid /\ conn[c].size \in Size
        /\ OwnURI(c) \in Uri
    BY <2>1, URIType, ConfigAssumption DEF ObjectConn, OwnURI
  <2>3. \/ LinkObject(conn[c].repo, conn[c].oid, conn[c].size, OwnURI(c))
        \/ InsertPendingObject(conn[c].oid)
        \/ VerifyObject(conn[c].repo, conn[c].oid, conn[c].size, OwnURI(c))
    BY <1>2 DEF UploadLink, UploadInsert, VerifyCommit
  <2> QED
    BY <2>2, <2>3 DEF DbNext
<1> QED
  BY <1>1, <1>2
     DEF HandlersNext, BatchLookup, BatchReply, UploadStat, UploadLookup, VerifyHead,
         VerifyProxy, DownloadLookup, UploadCopy, UploadPresign, Cleanup, Abort

LEMMA JanitorCallsDatabase ==
    ASSUME JanitorNext
    PROVE  [DbNext]_dbVars
BY DEF JanitorNext, SweepOrphans, SweepUnreferenced, DeleteStored, DeleteFails, SweepDone,
       JanitorCrash, DbNext

LEMMA StepIsTransaction == TypeOK /\ [Next]_vars => [DbNext]_dbVars
<1> SUFFICES ASSUME TypeOK, [Next]_vars PROVE [DbNext]_dbVars
  OBVIOUS
<1>1. CASE Environment
  BY <1>1 DEF Environment, DbNext
<1> QED
  BY <1>1, HandlersCallDatabase, JanitorCallsDatabase DEF Next, vars

LEMMA OperatorTypeNext == TypeOK /\ [Next \/ Operator]_vars => TypeOK'
<1>1. ASSUME TypeOK, Operator PROVE TypeOK'
  BY <1>1 DEF Operator, Unlink, TypeOK, DbTypeOK, StorageTypeOK, HandlersTypeOK,
              JanitorTypeOK, storageVars, handlerVars, janitorVars
<1> QED
  BY <1>1, TypeNext

\* Every variable keeps its type also while an operator unlinks objects.
THEOREM OperatorTypeCorrect == OperatorSpec => []TypeOK
<1>1. Init => TypeOK
  BY IInvInit DEF IInv
<1> QED
  BY <1>1, OperatorTypeNext, PTL DEF OperatorSpec

LEMMA OperatorStepIsTransaction ==
    TypeOK /\ [Next \/ Operator]_vars => [DbNext \/ Unlinks]_dbVars
BY StepIsTransaction DEF Operator, Unlinks

-----------------------------------------------------------------------------
(***************************************************************************)
(* Links.                                                                  *)
(***************************************************************************)
LEMMA LinkedNext ==
    ASSUME DbTypeOK, LinkedIsVerified, [DbNext \/ Unlinks]_dbVars
    PROVE  LinkedIsVerified'
<1>a. \A link \in repoObjects : link[2] \in Oid /\ IsVerified(link[2])
  BY DEF DbTypeOK, LinkedIsVerified
<1>1. ASSUME NEW repo \in Repo, NEW oid \in Oid, NEW size \in Size,
             \/ \E uri \in Uri \cup {Ignored} : LinkObject(repo, oid, size, uri)
             \/ \E uri \in Uri : VerifyObject(repo, oid, size, uri)
      PROVE  LinkedIsVerified'
  <2>1. /\ \A o \in Oid : IsVerified(o) \/ o # oid => objects'[o] = objects[o]
        /\ objects'[oid].status = "verified"
        /\ repoObjects' = repoObjects \cup {<<repo, oid>>}
    BY <1>1, LinkObjectEffect, VerifyObjectEffect
  <2> QED
    BY <1>a, <2>1 DEF LinkedIsVerified, IsVerified
<1>2. ASSUME NEW oid \in Oid, InsertPendingObject(oid) \/ Age(oid)
      PROVE  LinkedIsVerified'
  BY <1>a, <1>2, InsertPendingEffect, AgeEffect DEF LinkedIsVerified, IsVerified
<1>3. ASSUME NEW oids \in SUBSET Oid,
             SweepOrphanObjects(oids) \/ SweepUnreferencedObjects(oids)
      PROVE  LinkedIsVerified'
  <2>1. \A link \in repoObjects : link[2] \notin oids
    <3>1. ASSUME NEW link \in repoObjects, link[2] \in oids PROVE FALSE
      <4>1. link \in Repo \X Oid
        BY DEF DbTypeOK
      <4>2. link = <<link[1], link[2]>> /\ link[1] \in Repo
        BY <4>1
      <4> QED
        BY <1>3, <1>a, <3>1, <4>2
           DEF SweepOrphanObjects, SweepUnreferencedObjects, Orphan, Unreferenced, IsVerified
    <3> QED
      BY <3>1
  <2>2. DeleteRows(oids)
    BY <1>3 DEF SweepOrphanObjects, SweepUnreferencedObjects
  <2> QED
    BY <1>a, <2>1, <2>2 DEF DeleteRows, LinkedIsVerified, IsVerified
<1>4. CASE Unlinks
  BY <1>4 DEF Unlinks, Unlink, LinkedIsVerified, IsVerified
<1>5. CASE UNCHANGED dbVars
  BY <1>5 DEF dbVars, LinkedIsVerified, IsVerified
<1> QED
  BY <1>1, <1>2, <1>3, <1>4, <1>5 DEF DbNext

(***************************************************************************)
(* On filesystem storage, no sweep takes the row of an object that a       *)
(* repository is linked to, and no batch or upload makes a link without a  *)
(* verified row, whatever an operator unlinks meanwhile.                   *)
(***************************************************************************)
THEOREM LinkedStaysVerified == OperatorSpec => []LinkedIsVerified
<1>1. Init => LinkedIsVerified
  BY DEF Init, DbInit, LinkedIsVerified
<1>2. TypeOK /\ LinkedIsVerified /\ [Next \/ Operator]_vars => LinkedIsVerified'
  BY LinkedNext, OperatorStepIsTransaction DEF TypeOK
<1> QED
  BY <1>1, <1>2, OperatorTypeCorrect, PTL DEF OperatorSpec

-----------------------------------------------------------------------------
(***************************************************************************)
(* The size limit.  Most steps verify nothing, presign nothing, store      *)
(* nothing new and leave a request with the size it has.                   *)
(***************************************************************************)

\* What a step has to show to keep LimitIInv.
LEMMA LimitStep ==
    ASSUME LimitIInv, [Next \/ Operator]_vars,
           \A c \in Conn : conn'[c] = conn[c] \/ ConnWithinLimit(c)',
           \A put \in presigned' \ presigned : ~TooLarge(put[2]),
           \A uri \in stored' \ stored : ~TooLarge(ContentSize[uri[2]]),
           \A oid \in Oid : objects'[oid] = objects[oid]
                                \/ (objects'[oid].status = "verified"
                                        => ~TooLarge(objects'[oid].size))
    PROVE  LimitIInv'
<1>1. TypeOK'
  BY OperatorTypeNext DEF LimitIInv
<1>2. \A c \in Conn : ConnWithinLimit(c)'
  BY DEF LimitIInv, ConnWithinLimit
<1>3. /\ \A put \in presigned' : ~TooLarge(put[2])
      /\ \A uri \in stored' : ~TooLarge(ContentSize[uri[2]])
  BY DEF LimitIInv
<1>4. LimitHolds'
  BY DEF LimitIInv, LimitHolds, IsVerified
<1> QED
  BY <1>1, <1>2, <1>3, <1>4 DEF LimitIInv

LEMMA HandlersLimit ==
    ASSUME LimitIInv, HandlersNext, UNCHANGED janitorVars
    PROVE  LimitIInv'
<1>a. DbTypeOK /\ HandlersTypeOK
  BY DEF LimitIInv, TypeOK
<1>b. [Next \/ Operator]_vars
  BY DEF Next
<1> DEFINE Conns == \A c \in Conn : conn'[c] = conn[c] \/ ConnWithinLimit(c)'
           Puts == \A put \in presigned' \ presigned : ~TooLarge(put[2])
           Stores == \A uri \in stored' \ stored : ~TooLarge(ContentSize[uri[2]])
           Rows == \A oid \in Oid : objects'[oid] = objects[oid]
                                \/ (objects'[oid].status = "verified"
                                        => ~TooLarge(objects'[oid].size))
<1>c. /\ dbVars' = dbVars => Rows
      /\ storageVars' = storageVars => Puts /\ Stores
      /\ stored' = stored => Stores
      /\ presigned' = presigned => Puts
  BY DEF dbVars, storageVars, IsVerified
<1>d. ASSUME NEW c \in Conn, Finish(c)
      PROVE  Conns
  BY <1>a, <1>d DEF Finish, Idle, HandlersTypeOK, ConnWithinLimit
<1>e. ASSUME NEW c \in Conn, conn[c] \in ObjectConn, NEW pc, GoTo(c, pc),
             ~TooLarge(conn[c].size) \/ pc = "cleanup"
      PROVE  Conns
  BY <1>a, <1>e, GoToHolds DEF ConnWithinLimit
<1>f. ASSUME NEW c \in Conn, ReplyOrCleanup(c), conn[c] \in ObjectConn
      PROVE  Conns
  BY <1>d, <1>e, <1>f DEF ReplyOrCleanup
<1>1. ASSUME NEW c \in Conn, NEW repo \in Repo, NEW objs \in SUBSET Object,
             BatchLookup(c, repo, objs)
      PROVE  Conns /\ Puts /\ Stores /\ Rows
  <2>1. conn'[c].pc = "batch" /\ \A d \in Conn \ {c} : conn'[d] = conn[d]
    BY <1>1, <1>a, BeginHolds DEF BatchLookup
  <2> QED
    BY <1>1, <1>c, <2>1 DEF BatchLookup, ConnWithinLimit
<1>2. ASSUME NEW c \in Conn, NEW obj \in Object, BatchLink(c, obj) \/ BatchReply(c, obj)
      PROVE  Conns /\ Puts /\ Stores /\ Rows
  <2>1. conn[c] \in BatchConn /\ At(c, "batch")
    BY <1>2, <1>a, ConnFields DEF BatchLink, BatchReply
  <2>2. Conns
    <3>1. NextObject(c, obj)
      BY <1>2 DEF BatchLink, BatchReply
    <3>2. CASE conn' = [conn EXCEPT ![c] =
                          [conn[c] EXCEPT !.todo = conn[c].todo \ {obj}]]
      <4>1. conn'[c].pc = "batch" /\ \A d \in Conn \ {c} : conn'[d] = conn[d]
        BY <1>a, <2>1, <3>2 DEF HandlersTypeOK, BatchConn
      <4> QED
        BY <4>1 DEF ConnWithinLimit
    <3> QED
      BY <1>d, <3>1, <3>2 DEF NextObject
  <2>3. Rows
    <3>1. CASE BatchReply(c, obj)
      BY <1>c, <3>1 DEF BatchReply
    <3>2. CASE BatchLink(c, obj)
      <4>1. conn[c].repo \in Repo /\ obj[1] \in Oid /\ obj[2] \in Size
        BY <2>1 DEF BatchConn, Object
      <4>2. ~TooLarge(obj[2])
        BY <3>2 DEF BatchLink, Deduplicated
      <4> QED
        BY <1>a, <3>2, <4>1, <4>2, LinkObjectEffect DEF BatchLink
    <3> QED
      BY <1>2, <3>1, <3>2
  <2> QED
    BY <1>2, <1>c, <2>2, <2>3 DEF BatchLink, BatchReply
<1>3. ASSUME NEW c \in Conn, NEW repo \in Repo, NEW oid \in Oid, NEW size \in Size,
             \/ UploadStat(c, repo, oid, size)
             \/ UploadLookup(c, repo, oid, size)
             \/ VerifyHead(c, repo, oid, size)
      PROVE  Conns /\ Puts /\ Stores /\ Rows
  <2>1. PICK pc \in {"copy", "link", "insert", "verify"} :
            Begin(c, [pc |-> pc, repo |-> repo, oid |-> oid, size |-> size])
    BY <1>3 DEF UploadStat, UploadLookup, VerifyHead
  <2>2. ~TooLarge(size)
    <3>1. URI(StorageOf[repo], oid)[2] = oid
      BY DEF URI
    <3> QED
      BY <1>3, <3>1 DEF UploadStat, UploadLookup, VerifyHead, HeadIs, LimitIInv
  <2>3. /\ conn'[c] = [pc |-> pc, repo |-> repo, oid |-> oid, size |-> size]
        /\ \A d \in Conn \ {c} : conn'[d] = conn[d]
    BY <1>a, <2>1, BeginHolds
  <2>4. Conns
    BY <2>2, <2>3 DEF ConnWithinLimit
  <2> QED
    BY <1>3, <1>c, <2>4 DEF UploadStat, UploadLookup, VerifyHead
<1>4. ASSUME NEW repo \in Repo, NEW oid \in Oid, NEW size \in Size,
             VerifyProxy(repo, oid, size)
      PROVE  Conns /\ Puts /\ Stores /\ Rows
  BY <1>4, <1>c DEF VerifyProxy
<1>5. ASSUME NEW c \in Conn, NEW repo \in Repo, NEW oid \in Oid,
             DownloadLookup(c, repo, oid)
      PROVE  Conns /\ Puts /\ Stores /\ Rows
  <2>1. conn'[c].pc = "open" /\ \A d \in Conn \ {c} : conn'[d] = conn[d]
    BY <1>5, <1>a, BeginHolds DEF DownloadLookup
  <2> QED
    BY <1>5, <1>c, <2>1 DEF DownloadLookup, ConnWithinLimit
<1>6. ASSUME NEW c \in Conn, conn[c].pc \in {"copy", "link", "insert", "presign", "verify"},
             \/ UploadCopy(c) \/ UploadLink(c) \/ UploadInsert(c)
             \/ UploadPresign(c) \/ VerifyCommit(c)
      PROVE  Conns /\ Puts /\ Stores /\ Rows
  <2>1. conn[c] \in ObjectConn /\ ~TooLarge(conn[c].size)
    BY <1>6, <1>a, ConnFields DEF LimitIInv, ConnWithinLimit
  <2>2. /\ conn[c].repo \in Repo /\ conn[c].oid \in Oid /\ conn[c].size \in Size
        /\ OwnURI(c) \in Uri
    BY <2>1, URIType, ConfigAssumption DEF ObjectConn, OwnURI
  <2>3. CASE UploadCopy(c)
    <3>1. Stores /\ Puts /\ Rows
      BY <1>c, <2>1, <2>3 DEF UploadCopy, PutRename, URI
    <3> QED
      BY <1>e, <2>1, <2>3, <3>1 DEF UploadCopy
  <2>4. CASE UploadInsert(c)
    <3>1. Rows
      BY <1>a, <2>2, <2>4, InsertPendingEffect DEF UploadInsert
    <3> QED
      BY <1>c, <1>e, <2>1, <2>4, <3>1 DEF UploadInsert
  <2>5. CASE UploadPresign(c)
    <3>1. Stores /\ Puts /\ Rows
      BY <1>c, <2>1, <2>5 DEF UploadPresign, PresignPut
    <3> QED
      BY <1>d, <2>5, <3>1 DEF UploadPresign
  <2>6. CASE UploadLink(c)
    <3>1. Rows
      BY <1>a, <2>1, <2>2, <2>6, LinkObjectEffect DEF UploadLink, IsVerified
    <3> QED
      BY <1>c, <1>f, <2>1, <2>6, <3>1 DEF UploadLink
  <2>7. CASE VerifyCommit(c)
    <3>1. Rows
      BY <1>a, <2>1, <2>2, <2>7, VerifyObjectEffect DEF VerifyCommit, IsVerified
    <3> QED
      BY <1>c, <1>f, <2>1, <2>7, <3>1 DEF VerifyCommit
  <2> QED
    BY <1>6, <2>3, <2>4, <2>5, <2>6, <2>7
<1>7. ASSUME NEW c \in Conn, Cleanup(c) \/ Abort(c)
      PROVE  Conns /\ Puts /\ Stores /\ Rows
  <2>1. presigned' = presigned /\ stored' \subseteq stored
    BY <1>7 DEF Cleanup, Abort, Delete, storageVars
  <2> QED
    BY <1>7, <1>c, <1>d, <2>1 DEF Cleanup, Abort
<1> QED
  <2>1. Conns /\ Puts /\ Stores /\ Rows
    BY <1>1, <1>2, <1>3, <1>4, <1>5, <1>6, <1>7
       DEF HandlersNext, UploadCopy, UploadLink, UploadInsert, UploadPresign,
           VerifyCommit, At
  <2> QED
    BY <1>b, <2>1, LimitStep

LEMMA LimitNext == LimitIInv /\ [Next \/ Operator]_vars => LimitIInv'
<1> SUFFICES ASSUME LimitIInv, [Next \/ Operator]_vars
             PROVE  LimitIInv'
  OBVIOUS
<1>a. DbTypeOK
  BY DEF LimitIInv, TypeOK
<1>1. CASE HandlersNext /\ UNCHANGED janitorVars
  BY <1>1, HandlersLimit
<1>2. CASE JanitorNext /\ UNCHANGED handlerVars
  <2>1. presigned' = presigned /\ stored' \subseteq stored /\ conn' = conn
    BY <1>2 DEF JanitorNext, SweepOrphans, SweepUnreferenced, DeleteStored, Delete,
                DeleteFails, SweepDone, JanitorCrash, storageVars, handlerVars
  <2>2. \A oid \in Oid : objects'[oid] = objects[oid] \/ objects'[oid].status # "verified"
    BY <1>2, <1>a, AbsentType
       DEF JanitorNext, SweepOrphans, SweepUnreferenced, DeleteStored, DeleteFails,
           SweepDone, JanitorCrash, dbVars, SweepOrphanObjects,
           SweepUnreferencedObjects, DeleteRows
  <2> QED
    BY <2>1, <2>2, LimitStep
<1>3. CASE Environment /\ UNCHANGED <<handlerVars, janitorVars>>
  <2>1. conn' = conn
    BY <1>3 DEF handlerVars
  <2>2. ASSUME NEW oid \in Oid, Age(oid), UNCHANGED storageVars
        PROVE  LimitIInv'
    BY <1>a, <2>1, <2>2, AgeEffect, LimitStep DEF storageVars
  <2>3. ASSUME NEW put \in presigned, UNCHANGED dbVars,
               ClientPut(put[1], put[2]) \/ PresignExpire(put[1], put[2])
        PROVE  LimitIInv'
    <3>1. presigned' \subseteq presigned
      BY <2>3 DEF ClientPut, PresignExpire
    <3>2. \A uri \in stored' \ stored : ~TooLarge(ContentSize[uri[2]])
      BY <2>3 DEF ClientPut, PresignExpire, LimitIInv
    <3>3. objects' = objects
      BY <2>3 DEF dbVars
    <3> QED
      BY <2>1, <3>1, <3>2, <3>3, LimitStep DEF IsVerified
  <2> QED
    BY <1>3, <2>2, <2>3 DEF Environment
<1>4. CASE Operator \/ UNCHANGED vars
  BY <1>4, LimitStep DEF Operator, Unlink, vars, storageVars, handlerVars, dbVars
<1> QED
  BY <1>1, <1>2, <1>3, <1>4 DEF Next

(***************************************************************************)
(* No object over MAX_OBJECT_SIZE gets verified, whichever way its bytes   *)
(* took (and, on filesystem storage, whatever an operator unlinks),        *)
(* although only the start of an upload and a batch look at the limit.     *)
(***************************************************************************)
THEOREM LimitSafe == OperatorSpec => []LimitHolds
<1>1. Init => LimitIInv
  BY IInvInit, AbsentType
     DEF IInv, LimitIInv, ConnWithinLimit, LimitHolds, Init, DbInit, StorageInit,
         HandlersInit, Idle, IsVerified
<1>2. LimitIInv => LimitHolds
  BY DEF LimitIInv
<1> QED
  BY <1>1, <1>2, LimitNext, PTL DEF OperatorSpec
=============================================================================
