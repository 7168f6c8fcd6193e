------------------------------ MODULE LfsServer ------------------------------
(***************************************************************************)
(* lfsd as a whole: any number of requests and janitors over one database  *)
(* and the configured storage backends.                                    *)
(***************************************************************************)
EXTENDS Handlers, Janitor

vars == <<dbVars, storageVars, handlerVars, janitorVars>>

TypeOK == DbTypeOK /\ StorageTypeOK /\ HandlersTypeOK /\ JanitorTypeOK

Init == DbInit /\ StorageInit /\ HandlersInit /\ JanitorInit

\* Time, clients and S3.
Environment ==
    \/ /\ \E oid \in Oid : Age(oid)
       /\ UNCHANGED storageVars
    \/ /\ \E put \in presigned :
            ClientPut(put[1], put[2]) \/ PresignExpire(put[1], put[2])
       /\ UNCHANGED dbVars

Next ==
    \/ HandlersNext /\ UNCHANGED janitorVars
    \/ JanitorNext /\ UNCHANGED handlerVars
    \/ Environment /\ UNCHANGED <<handlerVars, janitorVars>>

Spec == Init /\ [][Next]_vars

(***************************************************************************)
(* The same with an operator who takes objects out of repositories, on     *)
(* filesystem storage.  Where there is presigned storage too, an unlink    *)
(* and a sweep may come between the statements of VerifyObject, and the    *)
(* one-step VerifyObject of Database does not stand for it (see            *)
(* Transactions); so such a configuration has no operator here.            *)
(***************************************************************************)
Operator ==
    /\ Presigner = {}
    /\ \E repo \in Repo, oid \in Oid : Unlink(repo, oid)
    /\ UNCHANGED <<storageVars, handlerVars, janitorVars>>

OperatorSpec == Init /\ [][Next \/ Operator]_vars

-----------------------------------------------------------------------------
(***************************************************************************)
(* Properties.                                                             *)
(***************************************************************************)

(***************************************************************************)
(* What the server acknowledged, a batch download of that repository finds *)
(* with the acknowledged size, whatever requests, janitors and crashes     *)
(* come after: no interleaving of LinkObject, VerifyObject and the sweeps  *)
(* un-verifies, un-links or resizes it.                                    *)
(***************************************************************************)
AckedDownloadable ==
    \A ack \in acked : BatchDownload(ack[1], ack[2], ack[3]) = "download"

(***************************************************************************)
(* Two uploads of one object race to LinkObject and VerifyObject: the      *)
(* first to verify the row settles its size and location for good.         *)
(***************************************************************************)
VerifiedForGood ==
    [][\A oid \in Oid : IsVerified(oid) => objects'[oid] = objects[oid]]_vars

(***************************************************************************)
(* The comment at lfs.go:178-181: the URI "ignored" that serveBatch hands  *)
(* to LinkObject never reaches a row.                                      *)
(***************************************************************************)
PlaceholderNeverWritten == \A oid \in Oid : objects[oid].uri # Ignored

(***************************************************************************)
(* A handler about to delete the bytes of its own upload, because another  *)
(* location won, never deletes the bytes that the row points to.           *)
(***************************************************************************)
CleanupSparesReferenced ==
    \A c \in Conn : At(c, "cleanup") => objects[conn[c].oid].uri # OwnURI(c)

(***************************************************************************)
(* The object of every verified row is in storage: no handler, janitor or  *)
(* crash leaves a row that says "verified" without its bytes.              *)
(***************************************************************************)
VerifiedIsStored ==
    \A oid \in Oid : IsVerified(oid) => objects[oid].uri \in stored

\* The same for the objects on filesystem backends only.
ProxiedIsStored ==
    \A oid \in Oid :
        IsVerified(oid) /\ objects[oid].uri \in Proxier \X Oid
            => objects[oid].uri \in stored

(***************************************************************************)
(* The size recorded for an object on presigned storage, which every later *)
(* batch answers with, is the length of its bytes, whichever requests for  *)
(* it with whichever claims race on either kind of storage.  (A filesystem *)
(* upload whose path exists is linked with the size that it claims.)       *)
(***************************************************************************)
SizeIsTrue ==
    \A oid \in Oid :
        IsVerified(oid) /\ objects[oid].uri \in Presigner \X Oid
            => objects[oid].size = ContentSize[oid]

(***************************************************************************)
(* No object over MAX_OBJECT_SIZE gets verified, although serveVerify      *)
(* itself never looks at the limit: the one that asked for the upload did. *)
(***************************************************************************)
LimitHolds == \A oid \in Oid : IsVerified(oid) => ~TooLarge(objects[oid].size)

(***************************************************************************)
(* lfs.go:178-179: an acknowledged repository can download the object: its *)
(* forge's backend owns the URI in the row.                                *)
(***************************************************************************)
AckedIsOwned ==
    \A ack \in acked : Owns(StorageOf[ack[1]], objects[ack[2]].uri)

(***************************************************************************)
(* A download that got past its lookup finds the object it was promised,   *)
(* whatever uploads, cleanups and sweeps come before it opens the file.    *)
(* (Presigned storage is excepted: see VerifiedIsStored.)                  *)
(***************************************************************************)
DownloadServed ==
    \A c \in Conn :
        /\ At(c, "open")
        /\ StorageOf[conn[c].repo] \in Proxier
        /\ Owns(StorageOf[conn[c].repo], conn[c].uri)
        => Servable(c)

(***************************************************************************)
(* janitor.go:61-62, "The next tick will retry": what a janitor failed to  *)
(* delete and is still stored has a row from which a later sweep finds it. *)
(***************************************************************************)
FailedDeleteIsRetried ==
    \A uri \in undeleted \cap stored : objects[uri[2]] # Absent
=============================================================================
