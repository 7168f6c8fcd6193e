--------------------------- MODULE MCRepoAllowlist ---------------------------
(***************************************************************************)
(* Words enough for two spellings of one name, a second name, a word with  *)
(* a star, and paths of up to three words.                                 *)
(***************************************************************************)
EXTENDS RepoAllowlist

Words == {"", "org", "Org", "app", "a*", "**"}

Lowered == [w \in Words |-> IF w = "Org" THEN "org" ELSE w]

ShortPaths == UNION {[1..n -> Words] : n \in 1..3}
=============================================================================
