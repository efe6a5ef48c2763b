-------------------------- MODULE MCMissionLanding --------------------------
(***************************************************************************)
(* Instances of MissionLanding.  A mission needs four letters to reach     *)
(* MERGE_WAIT and a fifth to land, two more with a revision; three         *)
(* transactions and two keys let a landing be aborted, retried under the   *)
(* same key and under a fresh one.  Transaction ids and keys are           *)
(* interchangeable, and no property tells them apart.                      *)
(***************************************************************************)
EXTENDS MissionLanding, TLC

Interchangeable == Permutations(TxIds) \cup Permutations(Keys)
=============================================================================
