--------------------------- MODULE MCRuntimeJobs ---------------------------
(***************************************************************************)
(* Two jobs and two keys in a registry with two places: the second job     *)
(* may reuse the key of the first, or run beside it under one of its own.  *)
(* Job ids and keys are interchangeable, so the first job has a fixed key. *)
(***************************************************************************)
EXTENDS RuntimeJobs, TLC

CONSTANTS j1, j2, k1, k2

AnyKeyForTheSecond == (j1 :> {k1}) @@ (j2 :> {k1, k2})
=============================================================================
