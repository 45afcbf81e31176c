-------------------------- MODULE MCEvidenceBundle --------------------------
(***************************************************************************)
(* Two gate ids; documents that pass, that the snapshot refuses, that the  *)
(* shell refuses, and the verdicts the mapping treats apart; bundles with  *)
(* one row, two rows of one id, and a row the snapshot refuses.            *)
(***************************************************************************)
EXTENDS EvidenceBundle

CONSTANTS a, b

Given(id, verdict) ==
    [id |-> id, verdict |-> verdict, keys |-> TRUE, severity |-> FALSE, kernel |-> TRUE]
Plain == {Given(id, "pass") : id \in {a, b}}
Odd == {Given(a, "fail"), Given(b, "unknown"), Given(a, "advisory"),
        [Given(a, "advisory") EXCEPT !.severity = TRUE],
        [Given(b, "pass") EXCEPT !.severity = TRUE],
        [Given(b, "pass") EXCEPT !.keys = FALSE], [Given(b, "pass") EXCEPT !.kernel = FALSE]}
Every == Plain \cup Odd

Before(id, valid) == [id |-> id, decision |-> "pass", valid |-> valid, by |-> Found]
Old == {Before(a, TRUE), Before(b, FALSE)}
OldBundles == {<<>>, <<Before(a, TRUE)>>, <<Before(a, TRUE), Before(a, TRUE)>>,
               <<Before(b, FALSE)>>}
=============================================================================
