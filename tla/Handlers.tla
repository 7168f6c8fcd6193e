------------------------------ MODULE Handlers ------------------------------
(***************************************************************************)
(* cmd/lfsd/lfs.go: the batch, upload, download and verify handlers.  A    *)
(* handler is cut into steps at every call to the database or to a storage *)
(* backend, since anything may happen between two of them; each step ends  *)
(* with what the handler does until its next call.  A request that is      *)
(* refused before it has called anything (no permission, malformed oid,    *)
(* missing or excessive Content-Length) is a step that does not happen.    *)
(***************************************************************************)
EXTENDS Database, Storage

CONSTANT Conn   \* the requests that may be in progress at the same time

VARIABLES
    conn,       \* what each request in progress is about to do
    acked       \* history: <<repo, oid, size>> the server said it holds

handlerVars == <<conn, acked>>

Idle == [pc |-> "idle"]

Object == Oid \X Size

\* serveBatch in its loop: the objects left, and what the lookup found.
BatchConn ==
    [pc : {"batch"}, repo : Repo, todo : SUBSET Object, found : SUBSET Object]

\* serveUpload and serveVerify between two calls.
ObjectConn ==
    [pc : {"copy", "link", "insert", "presign", "verify", "cleanup"},
     repo : Repo, oid : Oid, size : Size]

\* serveDownload between the lookup and the storage call.
DownloadConn == [pc : {"open"}, repo : Repo, oid : Oid, uri : Uri \cup {Ignored}]

HandlersTypeOK ==
    /\ conn \in [Conn -> {Idle} \cup BatchConn \cup ObjectConn \cup DownloadConn]
    /\ acked \subseteq Repo \X Oid \X Size

HandlersInit ==
    /\ conn = [c \in Conn |-> Idle]
    /\ acked = {}

Begin(c, request) ==
    /\ conn[c] = Idle
    /\ conn' = [conn EXCEPT ![c] = request]

\* The request waits at pc for its next call.
At(c, pc) == conn[c].pc = pc

GoTo(c, pc) == conn' = [conn EXCEPT ![c].pc = pc]

Finish(c) == conn' = [conn EXCEPT ![c] = Idle]

Ack(repo, oid, size) == acked' = acked \cup {<<repo, oid, size>>}

\* The request's own location for its object.
OwnURI(c) == URI(StorageOf[conn[c].repo], conn[c].oid)

-----------------------------------------------------------------------------
(***************************************************************************)
(* serveBatch, operation "upload".  The lookup is one query; the objects   *)
(* are then handled one by one on what it returned, and each one for which *)
(* the reply holds neither an action nor an error is acknowledged.         *)
(***************************************************************************)
BatchLookup(c, repo, objs) ==
    /\ objs # {}
    /\ Begin(c, [pc |-> "batch", repo |-> repo, todo |-> objs,
                 found |-> GetObjectsByOIDs({obj[1] : obj \in objs})])
    /\ UNCHANGED <<acked, dbVars, storageVars>>

NextObject(c, obj) ==
    IF conn[c].todo = {obj} THEN Finish(c)
    ELSE conn' = [conn EXCEPT ![c].todo = @ \ {obj}]

\* The object is known with this size: it only has to be linked to the repository.
Deduplicated(c, obj) == ~TooLarge(obj[2]) /\ obj \in conn[c].found

BatchLink(c, obj) ==
    /\ At(c, "batch") /\ obj \in conn[c].todo
    /\ Deduplicated(c, obj)
    /\ LinkObject(conn[c].repo, obj[1], obj[2], Ignored)
    /\ Ack(conn[c].repo, obj[1], obj[2])
    /\ NextObject(c, obj)
    /\ UNCHANGED storageVars

\* The reply for obj is an error, or the upload and verify actions.  LinkObject
\* may fail on any object, which gives an error too, so this needs no guard.
BatchReply(c, obj) ==
    /\ At(c, "batch") /\ obj \in conn[c].todo
    /\ NextObject(c, obj)
    /\ UNCHANGED <<acked, dbVars, storageVars>>

\* serveBatch, operation "download": a reply and no effect.
BatchDownload(repo, oid, size) ==
    IF ~HasRepoObject(repo, oid) THEN "does not exist"
    ELSE IF objects[oid].size # size THEN "different size"
    ELSE "download"

-----------------------------------------------------------------------------
(***************************************************************************)
(* serveUpload to a filesystem backend.  Put returns at once if the final  *)
(* path exists; the body is then not read.                                 *)
(***************************************************************************)
\* Faulty variant of UploadStat: it links without having stored anything.
UploadStatLinksFirst(c, repo, oid, size) ==
    /\ StorageOf[repo] \in Proxier
    /\ ~TooLarge(size)
    /\ Begin(c, [pc |-> "link", repo |-> repo, oid |-> oid, size |-> size])
    /\ UNCHANGED <<acked, dbVars, storageVars>>

UploadStat(c, repo, oid, size) ==
    /\ StorageOf[repo] \in Proxier
    /\ ~TooLarge(size)
    /\ Begin(c, [pc |-> IF URI(StorageOf[repo], oid) \in stored THEN "link"
                        ELSE "copy",
                 repo |-> repo, oid |-> oid, size |-> size])
    /\ UNCHANGED <<acked, dbVars, storageVars>>

UploadCopy(c) ==
    /\ At(c, "copy")
    /\ PutRename(StorageOf[conn[c].repo], conn[c].oid, conn[c].size)
    /\ GoTo(c, "link")
    /\ UNCHANGED <<acked, dbVars>>

\* Faulty variant of ReplyOrCleanup: the stored URI is not compared.
AlwaysCleanup(c) == GoTo(c, "cleanup") /\ UNCHANGED acked

\* After LinkObject or VerifyObject: an upload that lost to another location
\* has its own bytes deleted before the reply.
ReplyOrCleanup(c) ==
    IF objects'[conn[c].oid].uri = OwnURI(c)
    THEN Finish(c) /\ Ack(conn[c].repo, conn[c].oid, conn[c].size)
    ELSE GoTo(c, "cleanup") /\ UNCHANGED acked

UploadLink(c) ==
    /\ At(c, "link")
    /\ LinkObject(conn[c].repo, conn[c].oid, conn[c].size, OwnURI(c))
    /\ ReplyOrCleanup(c)
    /\ UNCHANGED storageVars

\* backend.Delete(uri) in serveUploadProxy and serveVerifyPresign: an error
\* is logged, and the reply is the same.
Cleanup(c) ==
    /\ At(c, "cleanup")
    /\ \/ Delete(StorageOf[conn[c].repo], OwnURI(c))
       \/ UNCHANGED storageVars
    /\ Ack(conn[c].repo, conn[c].oid, conn[c].size)
    /\ Finish(c)
    /\ UNCHANGED dbVars

-----------------------------------------------------------------------------
(***************************************************************************)
(* serveUpload to a presigning backend: an object that is verified already *)
(* gets 200 and nothing else happens.                                      *)
(***************************************************************************)
\* Faulty variant of UploadLookup: no check of the size limit.
UploadLookupAnySize(c, repo, oid, size) ==
    /\ StorageOf[repo] \in Presigner
    /\ ~IsVerified(oid)
    /\ Begin(c, [pc |-> "insert", repo |-> repo, oid |-> oid, size |-> size])
    /\ UNCHANGED <<acked, dbVars, storageVars>>

UploadLookup(c, repo, oid, size) ==
    /\ StorageOf[repo] \in Presigner
    /\ ~TooLarge(size)
    /\ ~IsVerified(oid)
    /\ Begin(c, [pc |-> "insert", repo |-> repo, oid |-> oid, size |-> size])
    /\ UNCHANGED <<acked, dbVars, storageVars>>

UploadInsert(c) ==
    /\ At(c, "insert")
    /\ InsertPendingObject(conn[c].oid)
    /\ GoTo(c, "presign")
    /\ UNCHANGED <<acked, storageVars>>

UploadPresign(c) ==
    /\ At(c, "presign")
    /\ PresignPut(StorageOf[conn[c].repo], conn[c].oid, conn[c].size)
    /\ Finish(c)
    /\ UNCHANGED <<acked, dbVars>>

-----------------------------------------------------------------------------
(***************************************************************************)
(* serveVerify.                                                            *)
(***************************************************************************)
VerifyProxy(repo, oid, size) ==
    /\ StorageOf[repo] \in Proxier
    /\ HasRepoObject(repo, oid)
    /\ objects[oid].size = size
    /\ Ack(repo, oid, size)
    /\ UNCHANGED <<conn, dbVars, storageVars>>

VerifyHead(c, repo, oid, size) ==
    /\ StorageOf[repo] \in Presigner
    /\ HeadIs(URI(StorageOf[repo], oid), size)
    /\ Begin(c, [pc |-> "verify", repo |-> repo, oid |-> oid, size |-> size])
    /\ UNCHANGED <<acked, dbVars, storageVars>>

VerifyCommit(c) ==
    /\ At(c, "verify")
    /\ VerifyObject(conn[c].repo, conn[c].oid, conn[c].size, OwnURI(c))
    /\ ReplyOrCleanup(c)
    /\ UNCHANGED storageVars

-----------------------------------------------------------------------------
(***************************************************************************)
(* serveDownload.                                                          *)
(***************************************************************************)
DownloadLookup(c, repo, oid) ==
    /\ HasRepoObject(repo, oid)
    /\ Begin(c, [pc |-> "open", repo |-> repo, oid |-> oid,
                 uri |-> objects[oid].uri])
    /\ UNCHANGED <<acked, dbVars, storageVars>>

\* Open streams the object and PresignGet redirects to it.
Servable(c) ==
    Owns(StorageOf[conn[c].repo], conn[c].uri) /\ conn[c].uri \in stored

(***************************************************************************)
(* A call fails, the client goes away or the process dies: the handler     *)
(* ends where it is, and what its earlier calls did stays.  (A crash of    *)
(* the process is this step for all of its requests.)  It is also how a    *)
(* download ends, which changes nothing however it ends.                   *)
(***************************************************************************)
Abort(c) ==
    /\ conn[c] # Idle
    /\ Finish(c)
    /\ UNCHANGED <<acked, dbVars, storageVars>>

HandlersNext ==
    \/ \E c \in Conn, repo \in Repo, objs \in SUBSET Object :
            BatchLookup(c, repo, objs)
    \/ \E c \in Conn, obj \in Object : BatchLink(c, obj) \/ BatchReply(c, obj)
    \/ \E c \in Conn, repo \in Repo, oid \in Oid, size \in Size :
            \/ UploadStat(c, repo, oid, size)
            \/ UploadLookup(c, repo, oid, size)
            \/ VerifyHead(c, repo, oid, size)
    \/ \E repo \in Repo, oid \in Oid, size \in Size : VerifyProxy(repo, oid, size)
    \/ \E c \in Conn, repo \in Repo, oid \in Oid : DownloadLookup(c, repo, oid)
    \/ \E c \in Conn :
            \/ UploadCopy(c) \/ UploadLink(c) \/ UploadInsert(c)
            \/ UploadPresign(c) \/ VerifyCommit(c) \/ Cleanup(c) \/ Abort(c)
=============================================================================
