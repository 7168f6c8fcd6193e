----------------------------- MODULE MCAuthCache -----------------------------
(***************************************************************************)
(* One key, whose host and repository are configured in every way.  The    *)
(* margin and a call take a tick each, the default TTL two, and the        *)
(* maximum, in the code twelve times the default, is two as well: enough   *)
(* for a token life on either side of the margin and above the maximum.    *)
(***************************************************************************)
EXTENDS AuthCache
=============================================================================
