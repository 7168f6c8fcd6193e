------------------------------- MODULE Storage -------------------------------
(***************************************************************************)
(* internal/storage: what the backends hold.  A filesystem object appears  *)
(* under its final path by a rename of a file whose digest and length were *)
(* checked, and an S3 object by a PUT whose checksum and length are signed *)
(* into the URL; so the bytes at a URI are always those of its object id,  *)
(* and a URI either holds them or holds nothing.                           *)
(***************************************************************************)
EXTENDS LfsTypes

VARIABLES
    stored,     \* the URIs that hold an object
    presigned   \* <<uri, size>> of the presigned PUT URLs a client may use

storageVars == <<stored, presigned>>

StorageTypeOK ==
    /\ stored \subseteq Uri
    /\ presigned \subseteq Uri \X Size

StorageInit ==
    /\ stored = {}
    /\ presigned = {}

(***************************************************************************)
(* FilesystemBackend.Put streams the body through ExactSizeReader and      *)
(* SHA256Reader into a temporary file and renames it.                      *)
(***************************************************************************)
PutRename(b, oid, size) ==
    /\ size = ContentSize[oid]
    /\ stored' = stored \cup {URI(b, oid)}
    /\ UNCHANGED presigned

\* Delete of either backend: nil if the object is already absent.
Delete(b, uri) ==
    /\ Owns(b, uri)
    /\ stored' = stored \ {uri}
    /\ UNCHANGED presigned

\* Faulty variant of HeadIs: the claimed size is taken on trust.
HeadFinds(uri, size) == uri \in stored

\* S3PresignBackend.Head.
HeadIs(uri, size) == uri \in stored /\ size = ContentSize[uri[2]]

PresignPut(b, oid, size) ==
    /\ presigned' = presigned \cup {<<URI(b, oid), size>>}
    /\ UNCHANGED stored

(***************************************************************************)
(* The client and the S3 service.  A PUT that began within the life of its *)
(* URL may land much later; one with another length or checksum than the   *)
(* signed ones is refused.                                                 *)
(***************************************************************************)
ClientPut(uri, size) ==
    /\ <<uri, size>> \in presigned
    /\ size = ContentSize[uri[2]]
    /\ stored' = stored \cup {uri}
    /\ UNCHANGED presigned

PresignExpire(uri, size) ==
    /\ <<uri, size>> \in presigned
    /\ presigned' = presigned \ {<<uri, size>>}
    /\ UNCHANGED stored

-----------------------------------------------------------------------------
(***************************************************************************)
(* The backends on their own: what their callers may rely on, whatever     *)
(* they do with them.                                                      *)
(***************************************************************************)
StorageNext ==
    \/ \E oid \in Oid, size \in Size :
            \/ \E b \in Proxier : PutRename(b, oid, size)
            \/ \E b \in Presigner : PresignPut(b, oid, size)
    \/ \E uri \in Uri, b \in Backend : Delete(b, uri)
    \/ \E put \in presigned :
            ClientPut(put[1], put[2]) \/ PresignExpire(put[1], put[2])

StorageSpec == StorageInit /\ [][StorageNext]_storageVars
=============================================================================
