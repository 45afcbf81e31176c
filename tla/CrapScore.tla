----------------------------- MODULE CrapScore -----------------------------
(***************************************************************************)
(* audit-harness crap: the methods of a source tree, as the analyser of    *)
(* its language reports them, scored by complexity and coverage and held   *)
(* against three thresholds.  A score is kept a million times as large as  *)
(* the program's, so that a coverage in percent stays an integer.          *)
(***************************************************************************)
EXTENDS Integers, Sequences, FiniteSets, Functions

CONSTANTS Files, Names

Languages == {"python", "go", "js", "rust"}
Places == {"src", "package", "top", "tests"}

\* place: under src/, in another directory, beside them, or among the tests (for
\* Go, in a file that is named as one, wherever it is).
Method == [file : Files, name : Names, place : Places, complexity : Nat]

\* analyser: radon, gocyclo, complexity-report or rust-code-analysis is there;
\* answers: the files of the runs of it whose output can be read; garbled: the
\* kind of which radon reports a file it could not parse; report: the coverage
\* report on disk;
\* covers: coverage.py or go is there and makes one; coverage: what is taken from
\* it for a file (for Go the figure of the last function in it, as listed).
Tree == [language : Languages \cup {"other"}, methods : Seq(Method),
         dirs : SUBSET Places, analyser : BOOLEAN, answers : SUBSET Files,
         garbled : {"none", "src", "test"},
         report : {"none", "good", "garbled"}, covers : BOOLEAN, coverage : [Files -> 0 .. 100]]

ProdMax == 30
TestMax == 15
AverageMax == 10
Scale == 1000000

Crap(complexity, coverage) ==
    LET missed == 100 - coverage
    IN  complexity * complexity * (missed * missed * missed) + complexity * Scale

-----------------------------------------------------------------------------
\* Where the methods of a kind are looked for: other directories count for
\* Python alone, and only when none of src, myapp and app exists.
Searched(t, kind) ==
    IF t.language = "go" THEN IF kind = "test" THEN {"tests"} ELSE Places \ {"tests"}
    ELSE IF kind = "test" THEN {"tests"} \cap t.dirs
    ELSE IF t.language = "python" /\ "src" \notin t.dirs THEN {"package"} \cap t.dirs
    ELSE {"src"} \cap t.dirs

Listed(t, kind) == {i \in DOMAIN t.methods : t.methods[i].place \in Searched(t, kind)}

\* Python's methods are kept in a dict by file and name: the last of a name wins.
Shadowed(t, i) == /\ t.language = "python"
                  /\ \E j \in DOMAIN t.methods : /\ j > i
                                                 /\ t.methods[j].place = t.methods[i].place
                                                 /\ t.methods[j].file = t.methods[i].file
                                                 /\ t.methods[j].name = t.methods[i].name

Scored(t, kind) ==
    {i \in Listed(t, kind) :
        t.analyser /\ t.methods[i].file \in t.answers /\ ~Shadowed(t, i)}

\* In place of the methods of a file that it could not parse, radon reports an
\* error, and the program ends in a traceback.
Raises(t) == t.language = "python" /\ t.analyser
             /\ t.garbled # "none" /\ Searched(t, t.garbled) # {}

\* The report that the scores are joined with, made first if there is none.
Makes(t) == /\ t.language \in {"python", "go"} /\ t.covers /\ t.report = "none"
            /\ t.analyser
            /\ t.language = "python" => \E k \in {"src", "test"} : Searched(t, k) # {}
Joined(t) == CASE t.language = "python" -> t.report = "good" \/ Makes(t)
               [] t.language = "go"     -> t.covers /\ t.report # "garbled"
               [] t.language = "js"     -> t.report = "good"
               [] OTHER                 -> FALSE

\* Mutant: a method with no coverage report counts as covered.
ScoreCovered(t, i) ==
    Crap(t.methods[i].complexity, IF Joined(t) THEN t.coverage[t.methods[i].file] ELSE 100)

Coverage(t, i) == IF Joined(t) THEN t.coverage[t.methods[i].file] ELSE 0
Score(t, i) == Crap(t.methods[i].complexity, Coverage(t, i))

Above(t, kind, max) == {i \in Scored(t, kind) : Score(t, i) > max * Scale}
Total(t) == SumFunction([i \in Scored(t, "src") |-> Score(t, i)])
AverageFails(t) == Total(t) > AverageMax * Scale * Cardinality(Scored(t, "src"))

Passes(t) == /\ Above(t, "src", ProdMax) = {}
             /\ Above(t, "test", TestMax) = {}
             /\ ~AverageFails(t)

CrapExit(t) == IF t.language \notin Languages THEN 2
               ELSE IF ~Raises(t) /\ Passes(t) THEN 0 ELSE 1

\* What a run leaves behind in the tree; Go's coverage comes from `go test'.  The
\* tests are taken after the sources and their coverage.
Leaves(t) == IF t.language \notin Languages THEN {}
             ELSE IF Raises(t) THEN
                 {x \in {"coverage report"} :
                     Makes(t) /\ t.garbled = "test" /\ Searched(t, "src") # {}}
             ELSE {"reports"} \cup {x \in {"coverage report"} : Makes(t)}
                              \cup {x \in {"suite run"} : Makes(t) /\ t.language = "go"}
=============================================================================
