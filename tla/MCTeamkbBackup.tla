--------------------------- MODULE MCTeamkbBackup ---------------------------
(***************************************************************************)
(* TeamkbBackup for TLC: invocations are interchangeable.                  *)
(***************************************************************************)
EXTENDS TeamkbBackup, TLC

RunSymmetry == Permutations(Runs)
=============================================================================
