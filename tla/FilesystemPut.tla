---------------------------- MODULE FilesystemPut ----------------------------
(***************************************************************************)
(* How a proxied upload gets onto the disk: FilesystemBackend.Put          *)
(* (internal/storage/filesystem.go) pulls the request's body through the   *)
(* ExactSizeReader and the SHA256Reader of internal/iox, one Read at a     *)
(* time, into a temporary file, syncs and renames it, while others upload  *)
(* and delete the same object; and what a loss of power leaves of it.      *)
(*                                                                         *)
(* Of the bytes that have been read of a body, all that matters is how     *)
(* many they are and whether they are the first ones of the object whose   *)
(* id the upload names: that, and the object's length, decides whether     *)
(* their SHA-256 is the object id.                                         *)
(***************************************************************************)
EXTENDS LfsTypes

CONSTANTS
    Upload,     \* the calls of Put that may run at once
    Disk,       \* the filesystem backend
    MaxRead     \* bound of the model: the most bytes that one Read returns

ASSUME DiskAssumption == Disk \in Proxier /\ MaxRead \in Nat
ASSUME SizeAssumption == Size \subseteq Nat

VARIABLES
    put,        \* the calls of Put
    file,       \* object id -> the file at its final path
    durable     \* object id -> the file that a loss of power leaves there

vars == <<put, file, durable>>

NoFile == [len |-> 0, exact |-> FALSE, synced |-> FALSE, exists |-> FALSE]

File == {NoFile} \cup [len : Nat, exact : BOOLEAN, synced : BOOLEAN, exists : {TRUE}]

\* The bytes of the object.
IsContent(oid, bytes) == bytes.exact /\ bytes.len = ContentSize[oid]

NoPut == [pc |-> "none"]

Put ==
    [pc : {"stat", "copy", "sync", "rename", "returned", "failed"}, oid : Oid, size : Size,
     len : Nat, exact : BOOLEAN, synced : BOOLEAN]

TypeOK ==
    /\ put \in [Upload -> {NoPut} \cup Put]
    /\ file \in [Oid -> File]
    /\ durable \in [Oid -> File]

Init ==
    /\ put = [u \in Upload |-> NoPut]
    /\ file = [oid \in Oid |-> NoFile]
    /\ durable = [oid \in Oid |-> NoFile]

At(u, pc) == put[u].pc = pc

-----------------------------------------------------------------------------
(***************************************************************************)
(* Read of the two readers: what becomes of the error that comes with the  *)
(* last bytes of the reader below.                                         *)
(***************************************************************************)
AtEnd(err) == err \in {"EOF", "unexpected EOF"}

\* Faulty variant of ExactSizeRead: a body that is too short passes.
ExactSizeReadAtMost(expected, read, err) ==
    IF read > expected THEN "size mismatch" ELSE err

ExactSizeRead(expected, read, err) ==
    IF read > expected \/ (AtEnd(err) /\ read # expected) THEN "size mismatch" ELSE err

SHA256Read(oid, bytes, err) ==
    IF AtEnd(err) /\ ~IsContent(oid, bytes) THEN "SHA256 mismatch" ELSE err

-----------------------------------------------------------------------------
\* serveUploadProxy calls Put.
Begin(u, oid, size) ==
    /\ put[u] = NoPut
    /\ put' = [put EXCEPT ![u] = [pc |-> "stat", oid |-> oid, size |-> size, len |-> 0,
                                  exact |-> TRUE, synced |-> FALSE]]
    /\ UNCHANGED <<file, durable>>

\* The file exists, or else a temporary file is created.
Stat(u) ==
    /\ At(u, "stat")
    /\ put' = [put EXCEPT ![u].pc = IF file[put[u].oid].exists THEN "returned" ELSE "copy"]
    /\ UNCHANGED <<file, durable>>

AfterRead(err) == CASE err = "nil" -> "copy" [] err = "EOF" -> "sync" [] OTHER -> "failed"

(***************************************************************************)
(* One turn of io.Copy: n bytes are read and written to the temporary      *)
(* file, also if an error came with them; only EOF ends the copy well.     *)
(***************************************************************************)
Copy(u, n, right, err) ==
    LET bytes == [len |-> put[u].len + n, exact |-> put[u].exact /\ (right \/ n = 0)]
        result == SHA256Read(put[u].oid, bytes, ExactSizeRead(put[u].size, bytes.len, err))
    IN  /\ At(u, "copy")
        /\ put' = [put EXCEPT ![u] = [put[u] EXCEPT
                        !.len = bytes.len, !.exact = bytes.exact,
                        !.pc = AfterRead(result)]]
        /\ UNCHANGED <<file, durable>>

\* Faulty variant of Sync: only Close.
CloseOnly(u) ==
    /\ At(u, "sync")
    /\ put' = [put EXCEPT ![u].pc = "rename"]
    /\ UNCHANGED <<file, durable>>

Sync(u) ==
    /\ At(u, "sync")
    /\ put' = [put EXCEPT ![u] = [put[u] EXCEPT !.pc = "rename", !.synced = TRUE]]
    /\ UNCHANGED <<file, durable>>

Rename(u) ==
    /\ At(u, "rename")
    /\ file' = [file EXCEPT ![put[u].oid] =
                    [len |-> put[u].len, exact |-> put[u].exact,
                     synced |-> put[u].synced, exists |-> TRUE]]
    /\ put' = [put EXCEPT ![u].pc = "returned"]
    /\ UNCHANGED durable

\* A step of Put fails, or the process ends, or the client is gone; the
\* temporary file is no concern of the final path.
Fail(u) ==
    /\ put[u].pc \in {"stat", "copy", "sync", "rename"}
    /\ put' = [put EXCEPT ![u].pc = "failed"]
    /\ UNCHANGED <<file, durable>>

\* The caller has the result.
End(u) ==
    /\ put[u].pc \in {"returned", "failed"}
    /\ put' = [put EXCEPT ![u] = NoPut]
    /\ UNCHANGED <<file, durable>>

\* The loser of a race and the janitor delete; nil if the file is absent.
Delete(oid) ==
    /\ file' = [file EXCEPT ![oid] = NoFile]
    /\ UNCHANGED <<put, durable>>

\* The operating system gets to writing a directory.
Flush(oid) ==
    /\ durable' = [durable EXCEPT ![oid] = file[oid]]
    /\ UNCHANGED <<put, file>>

Next ==
    \/ \E u \in Upload :
          \/ \E oid \in Oid, size \in Size : Begin(u, oid, size)
          \/ \E n \in 0..MaxRead, right \in BOOLEAN,
                err \in {"nil", "EOF", "unexpected EOF", "other"} : Copy(u, n, right, err)
          \/ Stat(u) \/ Sync(u) \/ Rename(u) \/ Fail(u) \/ End(u)
    \/ \E oid \in Oid : Delete(oid) \/ Flush(oid)

Spec == Init /\ [][Next]_vars

(***************************************************************************)
(* A loss of power: of each name either the last or an older state is      *)
(* found, and of a file that was not synced any part of its bytes.         *)
(***************************************************************************)
Recovered(f) ==
    IF f.exists /\ ~f.synced THEN {[f EXCEPT !.len = n] : n \in 0..f.len} ELSE {f}

PowerLoss ==
    /\ file' \in [Oid -> UNION {Recovered(file[oid]) \cup Recovered(durable[oid]) : oid \in Oid}]
    /\ \A oid \in Oid : file'[oid] \in Recovered(file[oid]) \cup Recovered(durable[oid])
    /\ durable' = file'
    /\ put' = [u \in Upload |-> NoPut]

PowerSpec == Init /\ [][Next \/ PowerLoss]_vars

-----------------------------------------------------------------------------
(***************************************************************************)
(* Properties.                                                             *)
(***************************************************************************)

(***************************************************************************)
(* A copy that ended well has read exactly the object's bytes, however the *)
(* body came in pieces and wherever it ended, and their number is the size *)
(* that was claimed.                                                       *)
(***************************************************************************)
CopiedIsContent ==
    \A u \in Upload : put[u].pc \in {"sync", "rename"} =>
        IsContent(put[u].oid, put[u]) /\ put[u].size = ContentSize[put[u].oid]

(***************************************************************************)
(* What is found under the final path of an object is the object, whole,   *)
(* whatever uploads failed half-way and also after a loss of power.        *)
(***************************************************************************)
FilesAreWhole == \A oid \in Oid : file[oid].exists => IsContent(oid, file[oid])

(***************************************************************************)
(* What Storage makes of all this: a file under its final path is a stored *)
(* object, and nobody sees a temporary one.                                *)
(***************************************************************************)
StoredFiles == {URI(Disk, oid) : oid \in {o \in Oid : file[o].exists}}

Promised == INSTANCE Storage WITH stored <- StoredFiles, presigned <- {}

(***************************************************************************)
(* A Put that returns a URI has found the object there, or has put it      *)
(* there in one step with the length that the upload claimed; apart from   *)
(* that and from Delete nothing appears or disappears but by a loss of     *)
(* power, whichever uploads fail, and when.                                *)
(***************************************************************************)
StoresAsPromised ==
    [][\/ PowerLoss
       \/ /\ \A u \in Upload : ~At(u, "returned") /\ put'[u].pc = "returned"
                                => URI(Disk, put[u].oid) \in StoredFiles'
          /\ \/ UNCHANGED StoredFiles
             \/ \E u \in Upload :
                    /\ At(u, "rename")
                    /\ Promised!PutRename(Disk, put[u].oid, put[u].size)
             \/ \E uri \in StoredFiles : Promised!Delete(Disk, uri)]_vars

\* What makes both so: nothing gets a final name before it was synced.
PutInv ==
    /\ TypeOK
    /\ CopiedIsContent
    /\ \A u \in Upload : At(u, "rename") => put[u].synced
    /\ \A oid \in Oid : \A f \in {file[oid], durable[oid]} :
            f.exists => f.synced /\ IsContent(oid, f)
=============================================================================
