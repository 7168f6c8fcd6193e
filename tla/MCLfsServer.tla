----------------------------- MODULE MCLfsServer -----------------------------
(***************************************************************************)
(* Small instances of LfsServer.                                           *)
(***************************************************************************)
EXTENDS LfsInvariant, TLC

CONSTANTS r1, fs, big

\* Every forge host uses the same storage, or r1's host alone the filesystem.
SharedStorage == [repo \in Repo |-> CHOOSE b \in Backend : TRUE]
SplitStorage ==
    [repo \in Repo |-> IF repo = r1 THEN fs ELSE CHOOSE b \in Presigner : TRUE]

\* The true size of every object: 1, and 2 for big.
Content == [oid \in Oid |-> IF oid = big THEN 2 ELSE 1]

\* Requests are interchangeable, and so are janitors and repositories on one backend.
ConnSymmetry == Permutations(Conn)
SharedSymmetry ==
    Permutations(Conn) \cup Permutations(Repo) \cup Permutations(Instance)
=============================================================================
