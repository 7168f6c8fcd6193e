---------------------------- MODULE MCSweepOrder ----------------------------
(* Three rows on one storage, and ticks that take one row of each kind. *)
EXTENDS SweepOrder
CONSTANT s3
TheStorage == [repo \in Repo |-> s3]
TheSize == [oid \in Oid |-> 1]
=============================================================================
