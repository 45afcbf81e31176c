---------------------------- MODULE GateVerdicts ----------------------------
(***************************************************************************)
(* The rows of audit-harness audit, scan and conform: what each way of     *)
(* assessing a gate makes of the repository and of the tools on the        *)
(* machine.  A row is known by its gate, its result, the severity of an    *)
(* ADVISORY one, and whether it is marked indeterminate.                   *)
(***************************************************************************)
EXTENDS AuditProfile, CrapScore

CONSTANTS
    Layers,    \* the suffixes that have a presence detector
    Wired,     \* the tools that scan knows how to run
    Generators,   \* those of them that make an artifact
    Bundled,   \* the kinds of artifact that have a bundled schema
    Linted     \* those that an external linter checks

Results == {"PASS", "FAIL", "ADVISORY", "NOT_APPLICABLE"}
Severities == {"info", "warn", "error", "none"}
Row == [gate : GateIds, result : Results, severity : Severities, unmeasured : BOOLEAN]

\* How a run of a tool ends: it is not there, it cannot be run or takes too
\* long, or it ends with an exit status.
ToolEnds == {"missing", "broken", "zero", "nonzero"}

\* parse: a broken frontmatter block; broken YAML or JSON; neither.  lint: how the
\* external linter ends on it.
Artifact == [parse : {"block", "syntax", "good"}, floor : BOOLEAN, kernel : BOOLEAN,
             lint : ToolEnds \ {"missing"}]

\* A verdict file of j-rig; says: its result, or "" when it states none.
JRig == [is : {"missing", "garbled", "verdict"}, says : {"PASS", "FAIL", "ADVISORY", ""},
         passed : BOOLEAN]

\* A finding of osv-scanner, with its severity in tenths; -1: not known.
\* dropped: it names no vulnerability, or is not an object; null: its ids are null.
Finding == [exposure : {"production", "development", "unknown"}, severity : -1 .. 100,
            form : {"sound", "dropped", "null"}]

\* hashed: the inputs can be read, and configs: the configuration files; version:
\* how --version ends; runs, status: how the scan ends; json: it prints results.
Osv == [inputs : BOOLEAN, declared : BOOLEAN, hashed : BOOLEAN, configs : BOOLEAN,
        version : ToolEnds, runs : BOOLEAN,
        status : {0, 1, 127, 128}, json : BOOLEAN, findings : SUBSET Finding]

World == [present : SUBSET Layers, crapRuns : BOOLEAN, tree : Tree, readme : BOOLEAN,
          tools : [Tools -> ToolEnds], given : JRig, defaults : JRig, osv : Osv,
          artifacts : [Endings -> Seq(Artifact)], linters : SUBSET Linted,
          schemas : BOOLEAN, pin : BOOLEAN, yaml : BOOLEAN]

Flags == [program : {"audit", "scan", "conform"}, strict : BOOLEAN, failClosed : BOOLEAN,
          floor : {1, 40, 70, 90}, deep : BOOLEAN, marketplace : BOOLEAN]

-----------------------------------------------------------------------------
Says(g, result, severity) ==
    [gate |-> g.id, result |-> result, severity |-> severity, unmeasured |-> FALSE]
Pass(g) == Says(g, "PASS", "none")
Fail(g) == Says(g, "FAIL", "none")
NotApplicable(g) == Says(g, "NOT_APPLICABLE", "none")
\* Mutant: INDETERMINATE, as the comments have it, as the result.
IndeterminateResult(g) == [Says(g, "INDETERMINATE", "none") EXCEPT !.unmeasured = TRUE]

Indeterminate(g) == [Says(g, "ADVISORY", "warn") EXCEPT !.unmeasured = TRUE]

Blocks(g, f) == f.strict \/ g.enforcement = "blocking"
Objection(g, f, severity) == IF Blocks(g, f) THEN Fail(g) ELSE Says(g, "ADVISORY", severity)
PassOr(g, f, holds, severity) == IF holds THEN Pass(g) ELSE Objection(g, f, severity)

-----------------------------------------------------------------------------
(* audit *)

CrapRow(g, f, w) == IF ~w.crapRuns THEN Indeterminate(g)
                    ELSE PassOr(g, f, CrapExit(w.tree) = 0, "error")
PresenceRow(g, f, w) == PassOr(g, f, g.suffix \in w.present, "warn")

AuditRow(g, f, w) ==
    IF g.suffix = "crap-score" THEN IF f.deep THEN CrapRow(g, f, w) ELSE Says(g, "ADVISORY", "info")
    ELSE IF g.suffix \in Layers THEN PresenceRow(g, f, w)
    ELSE [Says(g, "ADVISORY", "info") EXCEPT !.unmeasured = TRUE]

-----------------------------------------------------------------------------
(* scan *)

ReadmeRow(g, f, w) == PassOr(g, f, w.readme, "warn")

ToolRow(g, f, w) ==
    IF g.tool \notin Wired \/ w.tools[g.tool] \in {"missing", "broken"} THEN Indeterminate(g)
    ELSE IF w.tools[g.tool] = "zero" THEN Pass(g)
    ELSE IF g.tool \in Generators THEN Indeterminate(g)
    ELSE Objection(g, f, "error")

\* The path given, or else the first of the default places that has a file.
Verdict(w) == IF w.given.is # "missing" THEN w.given ELSE w.defaults
JRigRow(g, f, w) ==
    LET v == Verdict(w)
        passed == v.says = "PASS" \/ (v.says = "" /\ v.passed)
    IN  IF v.is # "verdict" THEN Indeterminate(g) ELSE PassOr(g, f, passed, "error")

Read(o) == {x \in o.findings : x.form = "sound"}
Serious(x, f) == x.severity = -1 \/ x.severity >= f.floor
\* Mutant: an exposure that is not known is taken for a development one.
BlockingProduction(o, f) == {x \in Read(o) : x.exposure = "production" /\ Serious(x, f)}

Blocking(o, f) == {x \in Read(o) : x.exposure # "development" /\ Serious(x, f)}

\* The scan says nothing that can be relied on.
Unscanned(o) == \/ ~o.hashed
                \/ o.version # "zero"
                \/ ~o.runs
                \/ o.status \notin {0, 1}
                \/ ~o.json
                \/ o.status = 1 /\ Read(o) = {}

Operational(g, f) == IF f.failClosed THEN [Fail(g) EXCEPT !.unmeasured = TRUE]
                     ELSE Indeterminate(g)
FindingsRow(g, f, o) ==
    IF Blocks(g, f) \/ (f.failClosed /\ Blocking(o, f) # {}) THEN Fail(g)
    ELSE Says(g, "ADVISORY", IF \E x \in Read(o) : Serious(x, f) THEN "error" ELSE "warn")

OsvRow(g, f, w) ==
    LET o == w.osv
    IN  IF ~o.inputs /\ ~o.declared THEN NotApplicable(g)
        ELSE IF ~o.inputs \/ Unscanned(o) THEN Operational(g, f)
        ELSE IF Read(o) = {} THEN Pass(g) ELSE FindingsRow(g, f, o)

\* Files that cannot be hashed before the ladder, and ids that cannot be
\* iterated at its end, are not caught.
OsvBreaks(o) == \/ ~o.configs
                \/ /\ o.inputs /\ o.hashed /\ o.version = "zero" /\ o.runs
                   /\ o.status \in {0, 1} /\ o.json
                   /\ \E x \in o.findings : x.form = "null"

ScanRow(g, f, w) ==
    IF g.suffix = "hygiene-readme" THEN ReadmeRow(g, f, w)
    ELSE IF g.tool = "j-rig" THEN JRigRow(g, f, w)
    ELSE IF g.tool = "osv-scanner" THEN OsvRow(g, f, w)
    ELSE IF g.tool = NoTool THEN Indeterminate(g)
    ELSE ToolRow(g, f, w)

-----------------------------------------------------------------------------
(* conform *)

Frontmatter == {"conform-skillmd", "conform-agent"}

\* skillmd against the pinned kernel, everything else against the floor.
Kernel(g, f) == f.marketplace /\ g.suffix = "conform-skillmd"
Schema(g, f, w) == IF Kernel(g, f) THEN w.pin ELSE w.schemas

Unparsed(g, a) == a.parse = "syntax" \/ (g.suffix \in Frontmatter /\ a.parse = "block")
\* Mutant: a violation is a warning.
BundledRowWarns(g, f, w, a) ==
    IF g.suffix \in Frontmatter /\ a.parse # "block" /\ ~w.yaml THEN Indeterminate(g)
    ELSE PassOr(g, f, ~Unparsed(g, a) /\ (IF Kernel(g, f) THEN a.kernel ELSE a.floor), "warn")

BundledRow(g, f, w, a) ==
    IF g.suffix \in Frontmatter /\ a.parse # "block" /\ ~w.yaml THEN Indeterminate(g)
    ELSE PassOr(g, f, ~Unparsed(g, a) /\ (IF Kernel(g, f) THEN a.kernel ELSE a.floor), "error")

LinterRow(g, f, a) ==
    IF a.lint = "broken" THEN Indeterminate(g) ELSE PassOr(g, f, a.lint = "zero", "error")

\* One row for each artifact, unless nothing can check any of them.
ConformRows(g, f, w) ==
    LET files == w.artifacts[g.suffix]
    IN  IF files = <<>> THEN <<NotApplicable(g)>>
        ELSE IF g.suffix \in Bundled /\ Schema(g, f, w) THEN
            [i \in DOMAIN files |-> BundledRow(g, f, w, files[i])]
        ELSE IF g.suffix \in w.linters \ Bundled THEN
            [i \in DOMAIN files |-> LinterRow(g, f, files[i])]
        ELSE <<Indeterminate(g)>>

-----------------------------------------------------------------------------
(* fp-rate *)

Bucket(row) ==
    IF row.result \in {"PASS", "NOT_APPLICABLE"} THEN "clean"
    ELSE IF row.result = "FAIL" \/ (~row.unmeasured /\ row.severity = "error") THEN "flag"
    ELSE "skip"
=============================================================================
