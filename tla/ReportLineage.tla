--------------------------- MODULE ReportLineage ---------------------------
(***************************************************************************)
(* audit-harness report-lineage: one report of J-Rig, its Runs and Grades, *)
(* the cells and totals it claims for them, and the audit manifest of the  *)
(* suite that produced it.  The program reads both files and walks them    *)
(* with one loop after another; each loop adds findings, and the row is    *)
(* PASS when there is none.  A finding is known by its code alone, and a   *)
(* field that is missing or malformed is the one value Bad.                *)
(***************************************************************************)
EXTENDS Integers, Sequences, FiniteSetsExt

CONSTANTS
    Ids,        \* Raw Run ids
    Cells,      \* sampling cells: task, config and model, with their versions
    Graders,    \* Grader snapshots
    Scores,     \* finite scores
    Bad,        \* a field that is missing or malformed
    Absent,     \* a count the manifest does not state
    Cases       \* the pairs of a report and a manifest the program is given

Counts == {"attempted_runs", "completed_runs", "active_runs", "harness_failure_count",
           "graded_runs", "ungraded_completed_runs", "pass_count", "fail_count"}
Totals == Counts \cup {"cell_count"}
RunStatuses == {"pending", "running", "completed", "runner_error", "timed_out"}
SourceStatuses == RunStatuses \cup {"planned", "failed"}
Verdicts == {"pass", "fail"}
Codes == {"parse", "schema", "shape", "identity", "arithmetic", "lineage", "source"}

\* garbled: not null and not an object.
Grade == [kind : {"null", "missing", "garbled", "object"}, grader : Graders \cup {Bad},
          verdict : Verdicts \cup {Bad}, score : Scores \cup {Bad}]
Run == [object : BOOLEAN, id : Ids \cup {Bad}, cell : Cells \cup {Bad},
        sample : Nat \cup {Bad}, status : RunStatuses \cup {Bad}, grade : Grade]

\* own: the number that follows from the counts the cell claims, and for the
\* scores the one that follows from the Grades of the cell.
Stat == {"null", "own", "other", "missing"}
Cell == [object : BOOLEAN, cell : Cells \cup {Bad}, grader : Graders \cup {Bad},
         counts : [Counts -> Nat \cup {Bad}],
         rate : Stat, deviation : Stat, interval : Stat, score : Stat]

\* envelope: the strings of a suite report; nested: it holds a report;
\* frame: schema, date, summary and the two arrays of the (nested) report.
Report == [readable : BOOLEAN, schema : {"unified", "suite", Bad}, envelope : BOOLEAN,
           nested : BOOLEAN, frame : BOOLEAN, grader : Graders \cup {Bad},
           summary : [Totals -> Nat \cup {Bad}], runs : Seq(Run), cells : Seq(Cell),
           ids : Seq(Ids \cup {Bad})]

Job == [object : BOOLEAN, id : Ids \cup {Bad}, cell : Cells \cup {Bad},
        status : SourceStatuses \cup {Bad}, grade : Grade]

\* path: what --audit-manifest names; an empty string is neither None nor true.
Manifest == [path : {"none", "empty", "file"}, readable : BOOLEAN, frame : BOOLEAN,
             jobs : Seq(Job), count : Nat \cup {Absent, Bad}]

ASSUME BadAssumption == /\ Bad \notin Ids \cup Cells \cup Graders \cup Scores \cup Nat
                        /\ Bad \notin Verdicts \cup SourceStatuses
                        /\ Bad \notin {"unified", "suite"}
                        /\ Absent \notin Nat \cup {Bad}
ASSUME CaseAssumption == Cases \subseteq [report : Report, manifest : Manifest]

VARIABLES
    report, manifest,   \* the two files
    strict,             \* --strict
    pc,                 \* the loop the program is in
    k,                  \* the element the loop has come to
    errors,             \* codes of the findings so far
    seen,               \* ids of the Runs parsed so far, then cells of the claims
    parsed,             \* the Runs that are objects
    slots,              \* sample indexes taken in each cell
    grouped,            \* what each cell counts
    known,              \* jobs of the manifest that are registered by their id
    outcome             \* the result of the row; raised: a traceback and no row

input == <<report, manifest, strict>>
vars == <<input, pc, k, errors, seen, parsed, slots, grouped, known, outcome>>

Loops == {"parse", "slot", "group", "cell", "job"}
Keys == Cells \cup {Bad}

TypeOK ==
    /\ report \in Report /\ manifest \in Manifest /\ strict \in BOOLEAN
    /\ pc \in Loops \cup {"open", "summary", "close", "manifest", "compare", "decide", "done"}
    /\ k \in Nat \ {0}
    /\ errors \subseteq Codes
    /\ seen \subseteq Ids \cup Keys
    /\ parsed \in Seq(Run)
    /\ slots \in [Keys -> SUBSET Nat]
    /\ grouped \in [Keys -> [Counts -> Nat]]
    /\ known \subseteq 1 .. Len(manifest.jobs)
    /\ outcome \in {"none", "PASS", "ADVISORY", "FAIL", "raised"}

Init ==
    /\ \E c \in Cases : report = c.report /\ manifest = c.manifest
    /\ strict \in BOOLEAN
    /\ pc = "open" /\ k = 1
    /\ errors = {} /\ seen = {} /\ parsed = <<>> /\ known = {}
    /\ slots = [c \in Keys |-> {}]
    /\ grouped = [c \in Keys |-> [n \in Counts |-> 0]]
    /\ outcome = "none"

-----------------------------------------------------------------------------
\* What is found in one element.

Finding(code, holds) == IF holds THEN {code} ELSE {}

HasGrade(g) == g.kind \in {"garbled", "object"}

GradeErrors(g) ==
    IF g.kind # "object" THEN Finding("shape", g.kind # "null")
    ELSE Finding("identity", g.grader # report.grader)
         \cup Finding("shape", Bad \in {g.grader, g.verdict, g.score})

RunErrors(r) ==
    IF ~r.object THEN {"shape"}
    ELSE Finding("shape", Bad \in {r.id, r.cell, r.sample, r.status})
         \cup GradeErrors(r.grade)
         \cup Finding("lineage", HasGrade(r.grade) /\ r.status # "completed")

\* What one Run adds to the counts of its cell.
Tallies(r) ==
    {"attempted_runs"}
    \cup (IF r.status # "completed" THEN {}
          ELSE {"completed_runs"} \cup (IF HasGrade(r.grade) THEN {}
                                        ELSE {"ungraded_completed_runs"}))
    \cup (IF r.status \in {"pending", "running"} THEN {"active_runs"} ELSE {})
    \cup (IF r.status \in {"runner_error", "timed_out"} THEN {"harness_failure_count"} ELSE {})
    \cup (IF ~HasGrade(r.grade) THEN {}
          ELSE {"graded_runs"} \cup (IF r.grade.verdict = "pass" THEN {"pass_count"} ELSE {})
                               \cup (IF r.grade.verdict = "fail" THEN {"fail_count"} ELSE {}))

\* The keys of the dictionary the Runs are grouped in.
Groups == {c \in Keys : grouped[c]["attempted_runs"] > 0}

Scored(c) == \E i \in DOMAIN parsed : /\ parsed[i].cell = c
                                      /\ parsed[i].grade.kind = "object"
                                      /\ parsed[i].grade.score # Bad

\* A number over no Runs is null, and over some it is what the counts give.
Follows(stat, some) == stat \in {"missing", IF some THEN "own" ELSE "null"}

CellErrors(c) ==
    LET graded == c.counts["graded_runs"]
    IN  IF ~c.object THEN {"shape"}
        ELSE Finding("identity", c.grader # report.grader)
             \cup Finding("shape", c.cell = Bad \/ c.grader = Bad)
             \cup Finding("arithmetic", \E n \in Counts : c.counts[n] # grouped[c.cell][n])
             \cup Finding("shape", "missing" \in {c.rate, c.deviation, c.interval, c.score})
             \cup Finding("arithmetic", /\ graded # Bad
                                        /\ \/ ~Follows(c.rate, graded > 0)
                                           \/ ~Follows(c.deviation, graded > 0)
                                           \/ ~Follows(c.interval, graded > 0))
             \cup Finding("arithmetic", ~Follows(c.score, Scored(c.cell)))

\* A rate over a missing count, or the root of a negative variance.
CellRaises(c) ==
    LET passes == c.counts["pass_count"]  graded == c.counts["graded_runs"]
    IN  /\ c.object /\ graded # Bad /\ graded > 0
        /\ IF passes = Bad THEN {c.rate, c.deviation} # {"missing"}
           ELSE passes > graded /\ (c.deviation # "missing" \/ c.interval \in {"own", "other"})

JobErrors(j) ==
    IF ~j.object THEN {"shape"}
    ELSE Finding("shape", Bad \in {j.id, j.status} \/ (j.id # Bad /\ j.cell = Bad))

\* The report is there to be compared with a manifest.
Projected == report.readable /\ \/ report.schema = "unified"
                                \/ report.schema = "suite" /\ report.nested

\* There is a manifest to read.
Named == manifest.path = "file"

-----------------------------------------------------------------------------
\* The program.

Goto(place) == pc' = place /\ k' = 1
Find(found) == errors' = errors \cup found

Raise == pc' = "done" /\ outcome' = "raised" /\ UNCHANGED <<k, errors>>

\* Only a report with a known schema is walked; a suite needs the option, and an
\* empty string will do.
Open ==
    /\ pc = "open"
    /\ Find(IF ~report.readable THEN {"parse"}
            ELSE Finding("schema", report.schema = Bad)
                 \cup Finding("shape", report.schema = "suite" /\ ~(report.envelope /\ report.nested))
                 \cup Finding("shape", Projected /\ ~(report.frame /\ report.grader # Bad))
                 \cup Finding("source", report.schema = "suite" /\ manifest.path = "none"))
    /\ Goto(IF Projected THEN "parse" ELSE "manifest")
    /\ UNCHANGED <<input, seen, parsed, slots, grouped, known, outcome>>

ListOf(loop) == CASE loop = "parse" -> report.runs
                  [] loop \in {"slot", "group"} -> parsed
                  [] loop = "cell" -> report.cells
                  [] loop = "job" -> manifest.jobs
After(loop) == CASE loop = "parse" -> "slot" [] loop = "slot" -> "group"
                 [] loop = "group" -> "summary" [] loop = "cell" -> "close"
                 [] loop = "job" -> "compare"

At(loop) == pc = loop /\ k <= Len(ListOf(loop))
OnWith(loop) == pc' = loop /\ k' = k + 1

EndLoop ==
    /\ pc \in Loops /\ k > Len(ListOf(pc))
    /\ Goto(After(pc))
    /\ UNCHANGED <<input, errors, seen, parsed, slots, grouped, known, outcome>>

\* A mistake: only the id of a completed Run is kept.
ParseRunForgets ==
    /\ At("parse")
    /\ LET r == report.runs[k]
       IN  /\ Find(RunErrors(r) \cup Finding("lineage", r.object /\ r.id \in seen))
           /\ parsed' = IF r.object THEN Append(parsed, r) ELSE parsed
           /\ seen' = IF r.object /\ r.status = "completed" THEN seen \cup {r.id} ELSE seen
    /\ OnWith("parse")
    /\ UNCHANGED <<input, slots, grouped, known, outcome>>

ParseRun ==
    /\ At("parse")
    /\ LET r == report.runs[k]
       IN  /\ Find(RunErrors(r) \cup Finding("lineage", r.object /\ r.id \in seen))
           /\ IF r.object THEN seen' = seen \cup {r.id} /\ parsed' = Append(parsed, r)
                          ELSE UNCHANGED <<seen, parsed>>
    /\ OnWith("parse")
    /\ UNCHANGED <<input, slots, grouped, known, outcome>>

\* A mistake: the slot is looked for in every cell.
SlotRunAnyCell ==
    /\ At("slot")
    /\ LET r == parsed[k]
       IN  IF r.sample = Bad THEN UNCHANGED <<errors, slots>>
           ELSE /\ Find(Finding("lineage", \E c \in Keys : r.sample \in slots[c]))
                /\ slots' = [slots EXCEPT ![r.cell] = @ \cup {r.sample}]
    /\ OnWith("slot")
    /\ UNCHANGED <<input, seen, parsed, grouped, known, outcome>>

\* A mistake: the slot is looked up and never taken.
SlotRunNotTaken ==
    /\ At("slot")
    /\ LET r == parsed[k]
       IN  IF r.sample = Bad THEN UNCHANGED errors
           ELSE Find(Finding("lineage", r.sample \in slots[r.cell]))
    /\ OnWith("slot")
    /\ UNCHANGED <<input, seen, parsed, slots, grouped, known, outcome>>

SlotRun ==
    /\ At("slot")
    /\ LET r == parsed[k]
       IN  IF r.sample = Bad THEN UNCHANGED <<errors, slots>>
           ELSE /\ Find(Finding("lineage", r.sample \in slots[r.cell]))
                /\ slots' = [slots EXCEPT ![r.cell] = @ \cup {r.sample}]
    /\ OnWith("slot")
    /\ UNCHANGED <<input, seen, parsed, grouped, known, outcome>>

\* A Grade that is not an object has no `get'.
GroupRun ==
    /\ At("group")
    /\ LET r == parsed[k]
       IN  IF r.grade.kind = "garbled" THEN Raise /\ UNCHANGED grouped
           ELSE /\ grouped' = [grouped EXCEPT ![r.cell] =
                                 [n \in Counts |-> @[n] + IF n \in Tallies(r) THEN 1 ELSE 0]]
                /\ OnWith("group")
                /\ UNCHANGED <<errors, outcome>>
    /\ UNCHANGED <<input, seen, parsed, slots, known>>

\* A mistake: the attempted Runs are those that have ended.
TotalOfEnded(n) ==
    CASE n = "cell_count" -> Cardinality(Groups)
      [] n = "attempted_runs" ->
           SumFunction([c \in Groups |-> grouped[c]["completed_runs"] + grouped[c]["harness_failure_count"]])
      [] OTHER -> SumFunction([c \in Groups |-> grouped[c][n]])

Total(n) == CASE n = "cell_count" -> Cardinality(Groups)
              [] n = "attempted_runs" -> Len(parsed)
              [] OTHER -> SumFunction([c \in Groups |-> grouped[c][n]])

Summary ==
    /\ pc = "summary"
    /\ Find(Finding("arithmetic", \E n \in Totals : report.summary[n] # Total(n)))
    /\ Goto("cell")
    /\ seen' = {}
    /\ UNCHANGED <<input, parsed, slots, grouped, known, outcome>>

TakeCell ==
    /\ At("cell")
    /\ LET c == report.cells[k]
       IN  IF CellRaises(c) THEN Raise /\ UNCHANGED seen
           ELSE /\ Find(CellErrors(c) \cup Finding("lineage", c.object /\ c.cell \in seen))
                /\ seen' = seen \cup (IF c.object THEN {c.cell} ELSE {})
                /\ OnWith("cell")
                /\ UNCHANGED outcome
    /\ UNCHANGED <<input, parsed, slots, grouped, known>>

\* The number of cells; and the ids a suite report repeats.
ReportIds == {parsed[i].id : i \in DOMAIN parsed}
IdErrors ==
    LET ids == IF Bad \in Range(report.ids) THEN <<>> ELSE report.ids
    IN  Finding("shape", Bad \in Range(report.ids))
        \cup Finding("lineage", Cardinality(Range(ids)) # Len(ids) \/ Range(ids) # ReportIds)

Close ==
    /\ pc = "close"
    /\ Find(Finding("arithmetic", Len(report.cells) # Cardinality(Groups))
            \cup IF report.schema = "suite" THEN IdErrors ELSE {})
    /\ Goto("manifest")
    /\ UNCHANGED <<input, seen, parsed, slots, grouped, known, outcome>>

OpenManifest ==
    /\ pc = "manifest"
    /\ IF ~Named THEN Goto("decide") /\ UNCHANGED errors
       ELSE IF ~manifest.readable THEN Find({"parse"}) /\ Goto("decide")
       ELSE Find(Finding("shape", ~manifest.frame)) /\ Goto("job")
    /\ UNCHANGED <<input, seen, parsed, slots, grouped, known, outcome>>

\* The last job of an id takes its place.
TakeJob ==
    /\ At("job")
    /\ LET j == manifest.jobs[k]
           same == {i \in known : manifest.jobs[i].id = j.id}
       IN  /\ Find(JobErrors(j) \cup Finding("lineage", j.object /\ same # {}))
           /\ known' = IF j.object /\ j.id # Bad THEN (known \ same) \cup {k} ELSE known
    /\ OnWith("job")
    /\ UNCHANGED <<input, seen, parsed, slots, grouped, outcome>>

KnownIds == {manifest.jobs[i].id : i \in known}

\* The Run of a job is the last one with its id.
RunOf(id) == LET same == {i \in DOMAIN parsed : parsed[i].id = id} IN parsed[Max(same)]

\* A job that is planned, running or failed is not sealed.
StatusErrors(j, r) ==
    Finding("lineage", \/ j.status \in {"completed", "runner_error", "timed_out"} /\ j.status # r.status
                       \/ j.status \in {"planned", "running", "failed"})

SameGrade(g, h) == g.grader = h.grader /\ g.verdict = h.verdict /\ g.score = h.score

\* A mistake: a job without a Grade is not looked at.
SourceGradeSkipped(g, h) ==
    IF ~HasGrade(g) THEN {}
    ELSE IF g.kind = "garbled" THEN {"shape"}
    ELSE IF ~HasGrade(h) THEN {"lineage"}
    ELSE Finding("identity", ~SameGrade(g, h))

SourceGradeErrors(g, h) ==
    IF ~HasGrade(g) THEN Finding("identity", HasGrade(h))
    ELSE IF g.kind = "garbled" THEN {"shape"}
    ELSE IF ~HasGrade(h) THEN {"lineage"}
    ELSE Finding("identity", ~SameGrade(g, h))

CompareErrors(j, r) == Finding("identity", j.cell # r.cell)
                       \cup StatusErrors(j, r) \cup SourceGradeErrors(j.grade, r.grade)

\* Sorting None among strings raises.
Compare ==
    /\ pc = "compare"
    /\ IF Projected /\ Bad \in ReportIds /\ Cardinality(ReportIds \ KnownIds) > 1
       THEN Raise
       ELSE /\ Find(Finding("arithmetic", manifest.count \notin {Absent, Cardinality(KnownIds)})
                    \cup IF ~Projected THEN {}
                         ELSE Finding("lineage", ReportIds # KnownIds)
                              \cup UNION {CompareErrors(manifest.jobs[i], RunOf(manifest.jobs[i].id)) :
                                          i \in {i \in known : manifest.jobs[i].id \in ReportIds}})
            /\ Goto("decide")
            /\ UNCHANGED outcome
    /\ UNCHANGED <<input, seen, parsed, slots, grouped, known>>

Result == IF errors = {} THEN "PASS" ELSE IF strict THEN "FAIL" ELSE "ADVISORY"

Decide ==
    /\ pc = "decide"
    /\ outcome' = Result
    /\ pc' = "done"
    /\ UNCHANGED <<input, k, errors, seen, parsed, slots, grouped, known>>

\* The process has ended.
Ended == pc = "done" /\ UNCHANGED vars

Next == \/ Open \/ EndLoop \/ ParseRun \/ SlotRun \/ GroupRun \/ Summary \/ TakeCell \/ Close
        \/ OpenManifest \/ TakeJob \/ Compare \/ Decide \/ Ended

Spec == Init /\ [][Next]_vars

-----------------------------------------------------------------------------
\* Properties.

Clean == outcome = "PASS"
RunOfReport == DOMAIN report.runs

\* What the name of a count says of one Run.
Says(n, r) ==
    CASE n = "attempted_runs" -> TRUE
      [] n = "completed_runs" -> r.status = "completed"
      [] n = "active_runs" -> r.status \in {"pending", "running"}
      [] n = "harness_failure_count" -> r.status \in {"runner_error", "timed_out"}
      [] n = "graded_runs" -> r.grade.kind = "object"
      [] n = "ungraded_completed_runs" -> r.status = "completed" /\ r.grade.kind = "null"
      [] n = "pass_count" -> r.grade.kind = "object" /\ r.grade.verdict = "pass"
      [] n = "fail_count" -> r.grade.kind = "object" /\ r.grade.verdict = "fail"

Recount(c, n) == Cardinality({i \in RunOfReport : report.runs[i].cell = c /\ Says(n, report.runs[i])})

RunsAreApart ==
    \A i, j \in RunOfReport : i # j =>
        /\ report.runs[i].id # report.runs[j].id
        /\ \/ report.runs[i].cell # report.runs[j].cell
           \/ report.runs[i].sample # report.runs[j].sample

CellsCountTheirRuns ==
    \A c \in DOMAIN report.cells : \A n \in Counts :
        report.cells[c].counts[n] = Recount(report.cells[c].cell, n)

CellsOfRuns == {report.runs[i].cell : i \in RunOfReport}

CellsAreApart ==
    \A c, d \in DOMAIN report.cells : c # d => report.cells[c].cell # report.cells[d].cell
CellsAreAsMany == Len(report.cells) = Cardinality(CellsOfRuns)

\* A report that passes has one Run for each id and for each sample slot of a
\* cell, a Grade of its own Grader on completed Runs only, as many cells as there
\* are groups of Runs, and each, shown once, counts what the Runs of that cell
\* count: no finding is lost from one loop to the next, and what the buckets add
\* up to is a recount of the Runs.
PassIsFaithful ==
    Clean => /\ RunsAreApart
             /\ \A i \in RunOfReport : report.runs[i].grade.kind # "null" =>
                  /\ report.runs[i].status = "completed"
                  /\ report.runs[i].grade.grader = report.grader
             /\ CellsCountTheirRuns /\ CellsAreApart /\ CellsAreAsMany

SummaryCountsTheRuns ==
    /\ \A n \in Counts :
         report.summary[n] = Cardinality({i \in RunOfReport : Says(n, report.runs[i])})
    /\ report.summary["cell_count"] = Cardinality(CellsOfRuns)

\* A summary that passes counts every Run once, whatever cell it is in.
TotalsAddUp == Clean => SummaryCountsTheRuns

JobsOf(id) == {i \in DOMAIN manifest.jobs : manifest.jobs[i].id = id}

Matches(job, run) ==
    /\ job.cell = run.cell
    /\ \/ job.status = "pending"
       \/ /\ job.status \in {"completed", "runner_error", "timed_out"}
          /\ job.status = run.status
    /\ HasGrade(job.grade) <=> HasGrade(run.grade)
    /\ HasGrade(run.grade) => SameGrade(job.grade, run.grade)

JobsAreTheRuns ==
    /\ \A i \in DOMAIN manifest.jobs :
         \E r \in RunOfReport : report.runs[r].id = manifest.jobs[i].id
    /\ \A r \in RunOfReport : \E i \in DOMAIN manifest.jobs :
         JobsOf(report.runs[r].id) = {i} /\ Matches(manifest.jobs[i], report.runs[r])

SuiteNamesItsRuns ==
    report.schema = "suite" => Range(report.ids) = {report.runs[r].id : r \in RunOfReport}

\* A report that passes when its manifest was read has exactly the Runs of the
\* jobs, each with the cell and the Grade of its one job: with its outcome too,
\* unless the job is pending, which lets the Run have any status; none is planned,
\* running or failed.  A suite report passes only under the ids of its own Runs.
\* Nothing is said of a report whose manifest was not read, the suite given an
\* empty path among them.
PassAgreesWithSource ==
    Clean => (Named => JobsAreTheRuns) /\ SuiteNamesItsRuns

\* A report and a manifest that are right: everything is there, and each number
\* follows from the Runs.
RightFrame ==
    /\ report.readable /\ report.frame /\ Bad \notin {report.schema, report.grader}
    /\ report.schema = "suite" => report.envelope /\ report.nested
                                  /\ Len(report.ids) = Len(report.runs)

RightRun(r) ==
    /\ r.object /\ Bad \notin {r.id, r.cell, r.sample, r.status}
    /\ \/ r.grade.kind = "null"
       \/ /\ r.grade.kind = "object" /\ r.status = "completed"
          /\ r.grade.grader = report.grader /\ Bad \notin {r.grade.verdict, r.grade.score}

RightClaim(c) ==
    /\ c.object /\ c.cell \in CellsOfRuns /\ c.grader = report.grader
    /\ {c.rate, c.deviation, c.interval, c.score} =
          {IF Recount(c.cell, "graded_runs") = 0 THEN "null" ELSE "own"}

RightClaims ==
    /\ \A c \in DOMAIN report.cells : RightClaim(report.cells[c])
    /\ CellsAreApart /\ CellsAreAsMany

RightManifest ==
    /\ manifest.readable /\ manifest.frame
    /\ manifest.count \in {Absent, Len(manifest.jobs)}
    /\ \A i \in DOMAIN manifest.jobs :
         manifest.jobs[i].object /\ manifest.jobs[i].grade.kind # "garbled"
    /\ JobsAreTheRuns

Right == /\ RightFrame /\ SuiteNamesItsRuns
         /\ report.schema = "suite" => Named
         /\ \A i \in RunOfReport : RightRun(report.runs[i])
         /\ RunsAreApart
         /\ RightClaims /\ CellsCountTheirRuns /\ SummaryCountsTheRuns
         /\ Named => RightManifest

\* The other way round: what is right passes.  No loop finds, in what an earlier
\* one has left in the dictionaries, a mistake the files do not have.
RightPasses == pc = "done" /\ Right => Clean

\* The words of report-lineage.py:17 (a clean claim is withheld whenever
\* arithmetic validation fails): a report that passes has a cell for each group
\* of Runs.
EveryGroupIsReported ==
    Clean => \A r \in RunOfReport : \E c \in DOMAIN report.cells :
                 report.cells[c].cell = report.runs[r].cell

-----------------------------------------------------------------------------
\* Why they hold: without a finding, each loop has kept what it has taken.

Live == errors = {} /\ outcome # "raised"

Early(loop) ==
    CASE loop = "parse" -> {"open"}
      [] loop = "slot" -> {"open", "parse"}
      [] loop = "group" -> {"open", "parse", "slot"}
      [] loop = "cell" -> {"open", "parse", "slot", "group", "summary"}
      [] loop = "job" -> {"open", "parse", "slot", "group", "summary", "cell", "close", "manifest"}

\* How many of its n elements a loop has taken.
Taken(loop, n) == IF pc = loop THEN k - 1 ELSE IF pc \in Early(loop) THEN 0 ELSE n

Opened == pc # "open" => /\ Projected
                         /\ report.schema = "suite" => manifest.path # "none"

ParsedSoFar ==
    /\ Len(parsed) = Taken("parse", Len(report.runs))
    /\ \A i \in DOMAIN parsed :
         parsed[i] = report.runs[i] /\ parsed[i].object /\ RunErrors(parsed[i]) = {}
    /\ \A i, j \in DOMAIN parsed : i # j => parsed[i].id # parsed[j].id
    /\ pc \in {"open", "parse"} => seen = ReportIds

SlottedSoFar ==
    LET n == Taken("slot", Len(parsed))
    IN  /\ \A c \in Keys :
             slots[c] = {parsed[i].sample : i \in {i \in 1 .. n : parsed[i].cell = c}}
        /\ \A i, j \in 1 .. n : i # j => \/ parsed[i].cell # parsed[j].cell
                                        \/ parsed[i].sample # parsed[j].sample

Counted(c, n, m) == {i \in 1 .. m : parsed[i].cell = c /\ n \in Tallies(parsed[i])}
GroupedSoFar ==
    LET m == Taken("group", Len(parsed))
    IN  \A c \in Keys : \A n \in Counts : grouped[c][n] = Cardinality(Counted(c, n, m))

SummedSoFar ==
    pc \notin Early("cell") => \A n \in Totals : report.summary[n] = Total(n)

ClaimedSoFar ==
    /\ \A i \in 1 .. Taken("cell", Len(report.cells)) : \A n \in Counts :
         report.cells[i].counts[n] = grouped[report.cells[i].cell][n]
    /\ \A i, j \in 1 .. Taken("cell", Len(report.cells)) :
         i # j => report.cells[i].cell # report.cells[j].cell
    /\ pc = "cell" => seen = {report.cells[i].cell : i \in 1 .. k - 1}

ClosedSoFar ==
    pc \notin Early("job") \ {"manifest"} =>
        /\ Len(report.cells) = Cardinality(Groups)
        /\ report.schema = "suite" => Range(report.ids) = ReportIds

RegisteredSoFar ==
    LET n == Taken("job", Len(manifest.jobs))
    IN  Named =>
          /\ known = 1 .. n
          /\ \A i \in 1 .. n : JobErrors(manifest.jobs[i]) = {}
          /\ \A i, j \in 1 .. n : i # j => manifest.jobs[i].id # manifest.jobs[j].id

ComparedSoFar ==
    pc \in {"decide", "done"} /\ Named =>
        /\ ReportIds = KnownIds
        /\ \A i \in known :
             CompareErrors(manifest.jobs[i], RunOf(manifest.jobs[i].id)) = {}

Inductive ==
    /\ TypeOK
    /\ pc \in Loops => k <= Len(ListOf(pc)) + 1
    /\ outcome # "none" => pc = "done"
    /\ Clean => errors = {}
    /\ Live => /\ Opened /\ ParsedSoFar /\ SlottedSoFar /\ GroupedSoFar
               /\ SummedSoFar /\ ClaimedSoFar /\ ClosedSoFar /\ RegisteredSoFar /\ ComparedSoFar
=============================================================================
