--------------------------- MODULE MCFilesystemPut ---------------------------
(***************************************************************************)
(* Small instances of FilesystemPut: an empty object and one of two bytes. *)
(***************************************************************************)
EXTENDS FilesystemPut, TLC

CONSTANTS empty, blob

StorageOfAll == [repo \in Repo |-> Disk]
Lengths == [oid \in Oid |-> IF oid = empty THEN 0 ELSE 2]

UploadSymmetry == Permutations(Upload)
=============================================================================
