--------------------------- MODULE MCTransactions ---------------------------
(***************************************************************************)
(* Small instances of Transactions: every forge host uses the same storage.*)
(***************************************************************************)
EXTENDS TransactionsInvariant, TLC

CONSTANT b1

OneStorage == [repo \in Repo |-> b1]
AnyContent == [oid \in Oid |-> 1]

TxSymmetry == Permutations(Tx) \cup Permutations(Repo) \cup Permutations(RowId)
=============================================================================
