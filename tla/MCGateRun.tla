----------------------------- MODULE MCGateRun -----------------------------
(***************************************************************************)
(* A registry of fourteen gates with every kind of list entry, and eight   *)
(* families of starts: what is on disk and overridden, and for each of the *)
(* ways to assess a gate what it can meet.                                 *)
(***************************************************************************)
EXTENDS GateRun

AllKinds == <<"action", "agent", "api", "cli", "embedded", "frontend", "hook", "library",
              "marketplace", "mcp", "monorepo", "plugin", "regulated", "service", "skill", "unknown">>
AllDimensions == {"testing-depth", "conformance", "security", "hygiene", "skill-quality"}
AllTools == {"gitleaks", "semgrep", "syft", "odd", "j-rig", "osv-scanner"}
AllEndings == {"conform-action", "crap-score", "conform-hook", "hygiene-readme", "jrig", "odd",
               "osv", "perf", "sast", "sbom", "secrets", "conform-skillmd", "split", "unit"}

\* The ids of the gates that are overridden.
jrig == 5
osv == 7
secrets == 11
unit == 14

G(id, suffix, dimension, tool, applicability, enforcement) ==
    [id |-> id, suffix |-> suffix, dimension |-> dimension, tool |-> tool,
     applicability |-> applicability, enforcement |-> enforcement]

Unit(a, e) == G(14, "unit", "testing-depth", "none", a, e)
Scanner(a, e) == G(7, "osv", "security", "osv-scanner", a, e)
Skill(e) == G(12, "conform-skillmd", "conformance", "none", "required", e)
Action(e) == G(1, "conform-action", "conformance", "none", "required", e)

Entries ==
    [service |-> <<Unit("required", "advisory"),
                   G(2, "crap-score", "testing-depth", "none", "required", "advisory"),
                   G(9, "sast", "security", "semgrep", "required", "blocking"),
                   G(10, "sbom", "security", "syft", "recommended", "advisory"),
                   G(8, "perf", "testing-depth", "none", "recommended", "advisory")>>,
     library |-> <<Unit("waived", "blocking"), Scanner("required", "blocking")>>,
     embedded |-> <<Unit("required", "blocking")>>,
     cli |-> <<Unit("conditional", "blocking")>>,
     monorepo |-> <<G(13, "split", "testing-depth", "none", "required", "advisory")>>,
     skill |-> <<Skill("advisory"),
                 G(5, "jrig", "skill-quality", "j-rig", "recommended", "advisory")>>,
     plugin |-> <<Skill("blocking"),
                  G(5, "jrig", "skill-quality", "j-rig", "required", "blocking")>>,
     action |-> <<Action("advisory")>>,
     hook |-> <<G(3, "conform-hook", "conformance", "none", "required", "advisory")>>]

Known == [readable |-> TRUE, promote |-> {"security", "conformance"},
          base |-> <<G(4, "hygiene-readme", "hygiene", "none", "recommended",
                       "advisory"),
                     G(11, "secrets", "security", "gitleaks", "recommended", "blocking"),
                     G(6, "odd", "security", "odd", "recommended", "advisory"),
                     Scanner("recommended", "advisory")>>,
          for |-> [k \in Kinds |-> IF k \in DOMAIN Entries THEN Entries[k] ELSE <<>>]]

-----------------------------------------------------------------------------
(* Repositories. *)

NoPackage == [is |-> "absent", deps |-> {}, bin |-> FALSE, private |-> FALSE, entry |-> FALSE,
              servers |-> FALSE]
Object == [NoPackage EXCEPT !.is = "object"]
Silent == [is |-> "absent", parsed |-> TRUE, disable |-> FALSE, pins |-> {},
           advisory |-> {}, disabled |-> {}]
Written == [Silent EXCEPT !.is = "good"]
Plain == [files |-> {}, root |-> NoPackage, subs |-> {}, subServer |-> FALSE,
          override |-> Silent, kill |-> FALSE, advisory |-> {}, registry |-> Known]
With(files) == [Plain EXCEPT !.files = files]

Packages == {NoPackage, [NoPackage EXCEPT !.is = "garbled"], [NoPackage EXCEPT !.is = "falsy"],
             [NoPackage EXCEPT !.is = "other"], Object, [Object EXCEPT !.deps = {"server"}],
             [Object EXCEPT !.bin = TRUE, !.entry = TRUE],
             [Object EXCEPT !.private = TRUE, !.entry = TRUE, !.servers = TRUE]}
FileSets == {{}, {"SKILL.md"}, {"SKILL.md", "plugin"}, {"action", "hooks"},
             {"build file", "C source"}, {"build file"}, {"python server", "compliance"},
             {"workspace", ".mcp.json"}, {"agents", "marketplace", "openapi"},
             {"python server", "build file", "C source"}}
OverrideFiles ==
    {Silent, Written, [Written EXCEPT !.disable = TRUE]}
    \cup {[Written EXCEPT !.is = x, !.disabled = {osv, unit}] : x \in {"unreadable", "garbled"}}
    \cup {[Written EXCEPT !.parsed = i, !.advisory = a, !.disabled = d, !.pins = p] :
          i \in BOOLEAN, a \in {{secrets, unit}}, d \in {{}, {osv, unit}},
          p \in {{}, {"library", "plugin"}}}
Repositories ==
    {[Plain EXCEPT !.files = f, !.root = p, !.override = o] :
        f \in FileSets, p \in Packages, o \in OverrideFiles}
    \cup {[With({"SKILL.md"}) EXCEPT !.subs = s, !.subServer = m, !.advisory = a, !.kill = k] :
             s \in {{Object}, {[Object EXCEPT !.bin = TRUE], NoPackage}}, m \in BOOLEAN,
             a \in {{}, {jrig, secrets}}, k \in BOOLEAN}
    \cup {[Plain EXCEPT !.registry.readable = FALSE]}

-----------------------------------------------------------------------------
(* What a run meets. *)

M(file, name, place, complexity) ==
    [file |-> file, name |-> name, place |-> place, complexity |-> complexity]
Bodies == {<<>>} \cup {<<m>> : m \in {M("f", "m", p, c) : p \in Places, c \in {5, 6, 16, 31}}}
          \cup {<<M("f", "m", "src", c), M("f", n, "src", d)>> :
                   c \in {1, 31}, d \in {1, 31}, n \in {"m", "n"}}
          \cup {<<M("f", "m", "src", 1), M("g", "m", p, c)>> : p \in Places, c \in {3, 4, 19}}
Whole == {[language |-> l, methods |-> m, dirs |-> {m[i].place : i \in DOMAIN m}, analyser |-> a,
           answers |-> r, garbled |-> "none", report |-> c, covers |-> v, coverage |-> p] :
              l \in Languages \cup {"other"}, m \in Bodies, a \in BOOLEAN, r \in {{}, Files},
              c \in {"none", "good", "garbled"}, v \in BOOLEAN,
              p \in {[f |-> 0, g |-> 50], [f |-> 90, g |-> 100]}}
Pythons == {t \in Whole : t.language = "python" /\ t.analyser /\ t.answers = Files}
Trees == Whole \cup {[t EXCEPT !.answers = {"f"}] : t \in Pythons}
               \cup {[t EXCEPT !.garbled = k] : t \in Pythons, k \in {"src", "test"}}
Hut == [language |-> "python", methods |-> <<>>, dirs |-> {}, analyser |-> TRUE,
        answers |-> Files, garbled |-> "none", report |-> "none", covers |-> TRUE,
        coverage |-> [f \in Files |-> 0]]

NoVerdict == [is |-> "missing", says |-> "", passed |-> FALSE]
JRigs == {NoVerdict, [NoVerdict EXCEPT !.is = "garbled"]}
         \cup {[is |-> "verdict", says |-> s, passed |-> p] :
               s \in {"PASS", "FAIL", "ADVISORY", ""}, p \in BOOLEAN}
Quiet == [inputs |-> TRUE, declared |-> TRUE, hashed |-> TRUE, configs |-> TRUE,
          version |-> "zero", runs |-> TRUE, status |-> 0, json |-> TRUE, findings |-> {}]
Findings == {[exposure |-> e, severity |-> s, form |-> "sound"] :
                e \in {"production", "development", "unknown"}, s \in {-1, 39, 40, 70, 90}}
            \cup {[exposure |-> "production", severity |-> 90, form |-> k] : k \in {"dropped", "null"}}
Scans == {[Quiet EXCEPT !.inputs = i, !.declared = d] : i \in BOOLEAN, d \in BOOLEAN}
         \cup {[Quiet EXCEPT !.hashed = FALSE], [Quiet EXCEPT !.configs = FALSE],
               [Quiet EXCEPT !.runs = FALSE], [Quiet EXCEPT !.json = FALSE]}
         \cup {[Quiet EXCEPT !.version = v] : v \in ToolEnds}
         \cup {[Quiet EXCEPT !.status = s] : s \in {0, 1, 127, 128}}
         \cup {[Quiet EXCEPT !.status = s, !.findings = {x, y}] :
               s \in {0, 1}, x \in Findings, y \in Findings}

Nowhere == [present |-> {}, crapRuns |-> TRUE, tree |-> Hut, readme |-> TRUE,
            tools |-> [t \in AllTools |-> "zero"], given |-> NoVerdict, defaults |-> NoVerdict,
            osv |-> Quiet, artifacts |-> [s \in AllEndings |-> <<>>],
            linters |-> Linted, schemas |-> TRUE, pin |-> TRUE, yaml |-> TRUE]
Default(p) == [program |-> p, strict |-> FALSE, failClosed |-> FALSE, floor |-> 70,
               deep |-> FALSE, marketplace |-> FALSE]
Run(flags, world) == [flags |-> flags, world |-> world, pinned |-> "none", gates |-> <<>>]
RunOn(profile, flags, world) ==
    [flags |-> flags, world |-> world, pinned |-> "good", gates |-> profile]

Sound == [parse |-> "good", floor |-> TRUE, kernel |-> TRUE, lint |-> "zero"]
Unsound == [Sound EXCEPT !.floor = FALSE, !.kernel = FALSE, !.lint = "nonzero"]
Artifacts == {[Unsound EXCEPT !.parse = "block"], [Unsound EXCEPT !.parse = "syntax"]}
             \cup {[Sound EXCEPT !.floor = f, !.kernel = k] : f \in BOOLEAN, k \in BOOLEAN}
Linting(end) == IF end = "missing" THEN <<Sound>> ELSE <<Sound, [Sound EXCEPT !.lint = end]>>
Everything == <<Unit("required", "blocking"), Unit("waived", "disabled"),
                Scanner("required", "advisory"), Skill("blocking")>>

\* The whole of classify, and every program after it where all is not well.
Trouble == [Nowhere EXCEPT !.tools["gitleaks"] = "nonzero", !.osv.runs = FALSE,
                           !.given = [is |-> "verdict", says |-> "FAIL", passed |-> TRUE],
                           !.artifacts["conform-skillmd"] = <<Sound, Unsound>>,
                           !.artifacts["conform-hook"] = <<Unsound>>]
OnDisk ==
    {[disk |-> d, job |-> Run([Default(p) EXCEPT !.strict = s], Trouble)] :
        d \in Repositories, p \in {"audit", "scan", "conform"}, s \in BOOLEAN}

\* crap-score and the detectors.
Scoring ==
    {[disk |-> Plain, job |-> RunOn(Entries.service, [Default("audit") EXCEPT !.deep = TRUE],
                                    [Nowhere EXCEPT !.tree = t])] : t \in Trees}
Layered ==
    {[disk |-> With({"python server"}),
      job |-> Run([Default("audit") EXCEPT !.strict = s, !.deep = d],
                  [Nowhere EXCEPT !.tree.language = x, !.crapRuns = r, !.present = l])] :
        s \in BOOLEAN, d \in BOOLEAN, x \in {"go", "other"}, r \in BOOLEAN, l \in SUBSET Layers}

\* The tools of scan.
Tooled ==
    {[disk |-> With({"python server"}),
      job |-> Run([Default("scan") EXCEPT !.strict = s],
                  [Nowhere EXCEPT !.readme = r, !.tools["gitleaks"] = x,
                                  !.tools["semgrep"] = y, !.tools["syft"] = z])] :
        s \in BOOLEAN, r \in BOOLEAN, x \in ToolEnds, y \in ToolEnds, z \in ToolEnds}
Judged ==
    {[disk |-> With(f), job |-> Run([Default("scan") EXCEPT !.strict = s],
                                    [Nowhere EXCEPT !.given = x, !.defaults = y])] :
        f \in {{"SKILL.md"}, {"plugin"}}, s \in BOOLEAN, x \in JRigs, y \in JRigs}
Vulnerable ==
    {[disk |-> Plain, job |-> RunOn(<<Scanner("recommended", e)>>,
                                    [Default("scan") EXCEPT !.strict = s, !.failClosed = c,
                                                            !.floor = h],
                                    [Nowhere EXCEPT !.osv = o])] :
        e \in {"advisory", "blocking"}, s \in BOOLEAN, c \in BOOLEAN, h \in {1, 40, 70, 90},
        o \in Scans}

\* The artifacts of conform.
Conforming ==
    {[disk |-> With({f, "action", "hooks"}),
      job |-> Run([Default("conform") EXCEPT !.strict = s, !.marketplace = m],
                  [Nowhere EXCEPT !.artifacts["conform-skillmd"] = <<x>>,
                                  !.artifacts["conform-action"] = Linting(l),
                                  !.artifacts["conform-hook"] = <<Sound>>,
                                  !.linters = IF l = "missing" THEN {} ELSE Linted,
                                  !.schemas = n, !.pin = n, !.yaml = y])] :
        f \in {"SKILL.md", "plugin"}, s \in BOOLEAN, m \in BOOLEAN, x \in Artifacts,
        l \in ToolEnds, n \in BOOLEAN, y \in BOOLEAN}

\* A profile of another time.
PinnedRuns ==
    {[disk |-> [Plain EXCEPT !.override = o],
           job |-> [RunOn(Everything, Default(p), Nowhere) EXCEPT !.pinned = w]] :
             o \in OverrideFiles, p \in {"audit", "scan", "conform"}, w \in {"good", "bad"}}

Given == {OnDisk, Scoring, Layered, Tooled,
          Judged, Vulnerable, Conforming, PinnedRuns}
=============================================================================
