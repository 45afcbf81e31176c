-------------------------- MODULE MCReportLineage --------------------------
(***************************************************************************)
(* Reports of up to MaxRuns Runs that J-Rig could have written, bare or in *)
(* a suite with its manifest, and each of them with one thing wrong in the *)
(* report or one in the manifest.                                          *)
(***************************************************************************)
EXTENDS ReportLineage, TLC

CONSTANTS a, b, c1, c2, g1, g2, s1, MaxRuns

Nothing == [kind |-> "null", grader |-> g1, verdict |-> "pass", score |-> s1]
Marked(v) == [Nothing EXCEPT !.kind = "object", !.verdict = v]
RunIn(id, c, n, s, g) ==
    [object |-> TRUE, id |-> id, cell |-> c, sample |-> n, status |-> s, grade |-> g]

\* The outcomes of a Run, and sequences of Runs with ids and slots of their own,
\* the first of them in c1.
Outcomes == {<<"completed", Marked("pass")>>, <<"completed", Marked("fail")>>,
             <<"completed", Nothing>>, <<"running", Nothing>>, <<"timed_out", Nothing>>}
Names == <<a, b>>
RunsOf(n) == {[i \in 1 .. n |-> RunIn(Names[i], c[i], i - 1, o[i][1], o[i][2])] :
              c \in {f \in [1 .. n -> {c1, c2}] : n = 0 \/ f[1] = c1}, o \in [1 .. n -> Outcomes]}

Tally(runs, c, n) == Cardinality({i \in DOMAIN runs : runs[i].cell = c /\ Says(n, runs[i])})
Claim(runs, c) ==
    LET stat == IF Tally(runs, c, "graded_runs") = 0 THEN "null" ELSE "own"
    IN  [object |-> TRUE, cell |-> c, grader |-> g1, counts |-> [n \in Counts |-> Tally(runs, c, n)],
         rate |-> stat, deviation |-> stat, interval |-> stat, score |-> stat]

CellsOf(runs) == {runs[i].cell : i \in DOMAIN runs}
Listed(set) == CHOOSE s \in [1 .. Cardinality(set) -> set] : Range(s) = set

Projection(schema, runs) ==
    [readable |-> TRUE, schema |-> schema, envelope |-> TRUE, nested |-> TRUE, frame |-> TRUE,
     grader |-> g1, runs |-> runs,
     summary |-> [n \in Totals |->
         IF n = "cell_count" THEN Cardinality(CellsOf(runs))
         ELSE Cardinality({i \in DOMAIN runs : Says(n, runs[i])})],
     cells |-> [i \in 1 .. Cardinality(CellsOf(runs)) |-> Claim(runs, Listed(CellsOf(runs))[i])],
     ids |-> [i \in DOMAIN runs |-> runs[i].id]]

JobOf(r) == [object |-> TRUE, id |-> r.id, cell |-> r.cell, status |-> r.status, grade |-> r.grade]
Sealed(runs) == [path |-> "file", readable |-> TRUE, frame |-> TRUE, count |-> Len(runs),
                 jobs |-> [i \in DOMAIN runs |-> JobOf(runs[i])]]
None == [Sealed(<<>>) EXCEPT !.path = "none"]
Empty == [None EXCEPT !.path = "empty"]

\* One thing wrong with a Run, with a claim, with a report.
SpoiltRuns(r) ==
    {[r EXCEPT !.object = FALSE], [r EXCEPT !.id = Bad], [r EXCEPT !.id = a],
     [r EXCEPT !.cell = Bad], [r EXCEPT !.cell = c2], [r EXCEPT !.sample = Bad],
     [r EXCEPT !.sample = 0], [r EXCEPT !.status = Bad], [r EXCEPT !.status = "running"],
     [r EXCEPT !.grade.kind = "missing"], [r EXCEPT !.grade.kind = "garbled"],
     [r EXCEPT !.grade = Marked("fail")], [r EXCEPT !.grade.grader = g2],
     [r EXCEPT !.grade.verdict = Bad], [r EXCEPT !.grade.score = Bad]}
SpoiltCells(c) ==
    {[c EXCEPT !.object = FALSE], [c EXCEPT !.cell = Bad], [c EXCEPT !.grader = g2],
     [c EXCEPT !.score = "other"], [c EXCEPT !.rate = "missing"]}
    \cup {[c EXCEPT !.counts[n] = v] : n \in Counts, v \in {0, 2, Bad}}
    \cup {[c EXCEPT !.rate = v] : v \in Stat} \cup {[c EXCEPT !.interval = v] : v \in Stat}
    \cup {Claim(<<>>, c1), Claim(<<>>, c2)}
Drop(s) == {SubSeq(s, 1, n) : n \in {Len(s) - 1} \cap Nat}
Twice(s) == {s \o SubSeq(s, 1, n) : n \in {1} \cap DOMAIN s}
Spoilt(s, spoil(_)) == UNION {{[s EXCEPT ![i] = v] : v \in spoil(s[i])} : i \in DOMAIN s}
                       \cup Drop(s) \cup Twice(s)

SpoiltReports(r) ==
    {[r EXCEPT !.readable = FALSE], [r EXCEPT !.schema = Bad], [r EXCEPT !.envelope = FALSE],
     [r EXCEPT !.nested = FALSE], [r EXCEPT !.frame = FALSE], [r EXCEPT !.grader = Bad],
     [r EXCEPT !.ids = <<>>], [r EXCEPT !.ids = <<a, a>>], [r EXCEPT !.ids = <<Bad>>]}
    \cup {[r EXCEPT !.summary[n] = v] : n \in Totals, v \in {0, Bad}}
    \cup {[r EXCEPT !.runs = s] : s \in Spoilt(r.runs, SpoiltRuns)}
    \cup {[r EXCEPT !.cells = s] : s \in Spoilt(r.cells, SpoiltCells)}

\* One thing wrong with the manifest.
SpoiltJobs(j) ==
    {[j EXCEPT !.object = FALSE], [j EXCEPT !.id = Bad], [j EXCEPT !.id = a],
     [j EXCEPT !.cell = c2], [j EXCEPT !.grade = Nothing], [j EXCEPT !.grade = Marked("fail")],
     [j EXCEPT !.grade.kind = "garbled"], [j EXCEPT !.grade.grader = g2]}
    \cup {[j EXCEPT !.status = s] : s \in {"completed", "pending", "planned", "running", Bad}}
SpoiltManifests(m) ==
    {None, Empty, [m EXCEPT !.readable = FALSE], [m EXCEPT !.frame = FALSE], [m EXCEPT !.count = 0],
     [m EXCEPT !.count = Absent]}
    \cup {[m EXCEPT !.jobs = s, !.count = Absent] : s \in Spoilt(m.jobs, SpoiltJobs)}

Pair(r, m) == [report |-> r, manifest |-> m]
Given ==
    UNION {LET bare == Projection("unified", runs)  suite == Projection("suite", runs)
           IN  {Pair(bare, None)} \cup {Pair(r, None) : r \in SpoiltReports(bare)}
               \cup {Pair(r, Sealed(runs)) : r \in {bare, suite} \cup SpoiltReports(suite)}
               \cup {Pair(r, m) : r \in {bare, suite}, m \in SpoiltManifests(Sealed(runs))}
           : runs \in UNION {RunsOf(n) : n \in 0 .. MaxRuns}}
=============================================================================
