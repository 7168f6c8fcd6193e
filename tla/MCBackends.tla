----------------------------- MODULE MCBackends -----------------------------
(***************************************************************************)
(* Two storages and hosts of which one is spelled in two ways.             *)
(***************************************************************************)
EXTENDS Backends

Lowered == [h \in Host |-> IF h = "Hub" THEN "hub" ELSE h]

\* The root "/", one with another inside of it, and two that do not survive.
Roots == {<<"">>, <<"", "lfs">>, <<"", "lfs", "old">>, <<"", "lfs#1">>, <<"", "%6Cfs">>}

\* A bucket, and one with a slash.
Buckets == {<<"lfs">>, <<"host", "lfs">>}

\* What url.Parse finds between the host and the object id.
ParsedPath ==
    [p \in (Roots \cup Buckets) \ {<<"", "lfs#1">>} |->
        IF p = <<"", "%6Cfs">> THEN <<"", "lfs">> ELSE <<"">> \o Tail(p)]

\* url.Parse puts the scheme in lower case.
Parsed == [s \in Ended |-> IF s = "File" THEN "file" ELSE s]
=============================================================================
