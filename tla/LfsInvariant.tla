---------------------------- MODULE LfsInvariant ----------------------------
(***************************************************************************)
(* Why the safety properties of LfsServer hold: two inductive invariants   *)
(* of Spec, in named parts, and what one step may do.                      *)
(***************************************************************************)
EXTENDS LfsServer

\* No repository is linked to an object that is missing or pending.
LinkedIsVerified == \A link \in repoObjects : IsVerified(link[2])

\* Nothing drops a link, so no sweep ever finds a verified row unreferenced.
VerifiedIsLinked == \A oid \in Oid : IsVerified(oid) => ~Unreferenced(oid)

\* A verified row points to the canonical location of its object somewhere.
UriIsCanonical ==
    \A oid \in Oid : IsVerified(oid) => objects[oid].uri \in Backend \X {oid}

\* An acknowledged object is linked, with the acknowledged size.
AckedIsHeld ==
    \A ack \in acked :
        <<ack[1], ack[2]>> \in repoObjects /\ objects[ack[2]].size = ack[3]

\* What a batch found in its lookup stays true until its last object.
FoundHolds(c) ==
    At(c, "batch") => \A obj \in conn[c].found :
                        IsVerified(obj[1]) /\ objects[obj[1]].size = obj[2]

\* Each protocol stays with its own kind of backend.
ProtocolHolds(c) ==
    /\ conn[c].pc \in {"copy", "link"} => StorageOf[conn[c].repo] \in Proxier
    /\ conn[c].pc \in {"insert", "presign", "verify"}
            => StorageOf[conn[c].repo] \in Presigner

\* An upload that is about to link has its bytes in place, unless it has lost.
LinkHolds(c) ==
    At(c, "link") =>
        \/ OwnURI(c) \in stored
        \/ IsVerified(conn[c].oid) /\ objects[conn[c].oid].uri # OwnURI(c)

\* A request that is about to delete its bytes has committed its link.
CleanupHolds(c) ==
    At(c, "cleanup") =>
        /\ <<conn[c].repo, conn[c].oid>> \in repoObjects
        /\ objects[conn[c].oid].size = conn[c].size
        /\ objects[conn[c].oid].uri # OwnURI(c)

ConnHolds(c) ==
    FoundHolds(c) /\ ProtocolHolds(c) /\ LinkHolds(c) /\ CleanupHolds(c)

\* The janitor has only objects of presigning backends to delete.
JanitorHolds == \A j \in Instance : janitor[j].queue \subseteq Presigner \X Oid

IInv ==
    /\ TypeOK
    /\ LinkedIsVerified
    /\ VerifiedIsLinked
    /\ UriIsCanonical
    /\ AckedIsHeld
    /\ \A c \in Conn : ConnHolds(c)
    /\ JanitorHolds
    /\ ProxiedIsStored

(***************************************************************************)
(* What a step may do to the tables: verified rows and links stay, and a   *)
(* row that it verifies gets a link and a canonical location, with the     *)
(* bytes in place if that is on a filesystem.                              *)
(***************************************************************************)
Settles ==
    /\ \A oid \in Oid : IsVerified(oid) => objects'[oid] = objects[oid]
    /\ repoObjects \subseteq repoObjects'
    /\ \A link \in repoObjects' \ repoObjects : objects'[link[2]].status = "verified"
    /\ \A oid \in Oid : ~IsVerified(oid) /\ objects'[oid].status = "verified" =>
        /\ objects'[oid].uri \in Backend \X {oid}
        /\ objects'[oid].uri \in Proxier \X Oid => objects'[oid].uri \in stored'
        /\ \E repo \in Repo : <<repo, oid>> \in repoObjects'

\* What a step may delete from storage: objects on presigning backends, and
\* copies that a verified row does not point to.
Spares ==
    \A uri \in stored \ stored' :
        \/ uri \in Presigner \X Oid
        \/ IsVerified(uri[2]) /\ objects[uri[2]].uri # uri

(***************************************************************************)
(* The size limit is enforced where an upload begins, and carried from     *)
(* there through the presigned URL and the stored bytes to verification;   *)
(* a batch looks at it again.                                              *)
(***************************************************************************)
ConnWithinLimit(c) ==
    conn[c].pc \in {"copy", "link", "insert", "presign", "verify"}
        => ~TooLarge(conn[c].size)

LimitIInv ==
    /\ TypeOK
    /\ \A c \in Conn : ConnWithinLimit(c)
    /\ \A put \in presigned : ~TooLarge(put[2])
    /\ \A uri \in stored : ~TooLarge(ContentSize[uri[2]])
    /\ LimitHolds

(***************************************************************************)
(* A download holds the location that the row had at its lookup, and the   *)
(* row of a linked object does not change any more.                        *)
(***************************************************************************)
DownloadHolds(c) ==
    At(c, "open") => /\ IsVerified(conn[c].oid)
                     /\ conn[c].uri = objects[conn[c].oid].uri

DownloadIInv == IInv /\ \A c \in Conn : DownloadHolds(c)

(***************************************************************************)
(* The one way in which a verified row loses its bytes, where nobody       *)
(* unlinks: a janitor that took the row while it was an orphan has not got *)
(* to its storage deletes yet.  The other pass has nothing to delete.      *)
(***************************************************************************)
OnlyOrphansQueued ==
    \A j \in Instance : janitor[j].queue # {} => janitor[j].pc = "orphan"

OnlyOrphanSweepTakes ==
    [][\A oid \in Oid :
            IsVerified(oid) /\ objects[oid].uri \in stored \ stored'
                => \E j \in Instance : /\ janitor[j].pc = "orphan"
                                       /\ objects[oid].uri \in janitor[j].queue]_vars

\* A row points to the storage of the forge that some upload of it was for.
UriIsOfAForge ==
    \A oid \in Oid : IsVerified(oid) =>
        \E repo \in Repo : objects[oid].uri = URI(StorageOf[repo], oid)
=============================================================================
