------------------------- MODULE MCCompilerInstall -------------------------
(***************************************************************************)
(* Four commits for TLC: an old one with the six files, a new one with the *)
(* helper, one whose wrapper names a helper it does not have, and one that *)
(* origin/main does not contain.                                           *)
(***************************************************************************)
EXTENDS CompilerInstall

CONSTANTS old, new, broken, stray, entry, wrapper, helper

SixFiles == {entry, wrapper}
Commits == [r \in Revs |-> IF r = new THEN SixFiles \cup {helper} ELSE SixFiles]
=============================================================================
