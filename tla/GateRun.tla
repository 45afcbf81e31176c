------------------------------ MODULE GateRun ------------------------------
(***************************************************************************)
(* A run of audit-harness audit, scan or conform: the kill switch, the     *)
(* profile (pinned, or computed by a run of classify), one assessment for  *)
(* each enabled gate of the program's dimensions, the rows and the exit    *)
(* status.  The rows of a gate are kept together.                          *)
(***************************************************************************)
EXTENDS GateVerdicts

CONSTANT Families   \* sets of repositories and command lines the programs are run on

\* pinned: what --profile names; gates: the profile it holds.
Job == [flags : Flags, world : World, pinned : {"none", "good", "bad"}, gates : Seq(Gate)]

ASSUME FamilyAssumption == \A F \in Families : F \subseteq [disk : Disk, job : Job]

VARIABLES
    job,
    phase,
    gates,   \* the profile, by place
    rows,    \* the rows of the gates assessed
    left     \* what the run has left behind in the repository

runVars == <<job, phase, gates, rows, left>>
vars == <<profileVars, runVars>>

Covers == [audit |-> {"testing-depth"}, conform |-> {"conformance"},
           scan |-> {"security", "hygiene", "skill-quality"}]

Program == job.flags.program
Own == {i \in DOMAIN gates : /\ gates[i].dimension \in Covers[Program]
                             /\ gates[i].enforcement # "disabled"}
Waiting == Own \ DOMAIN rows
First(i) == i \in Waiting /\ \A j \in Waiting : i <= j

IsOsv(g) == Program = "scan" /\ g.suffix # "hygiene-readme" /\ g.tool = "osv-scanner"
IsCrap(g) == Program = "audit" /\ g.suffix = "crap-score" /\ job.flags.deep

RowsOf(g) == CASE Program = "audit"   -> <<AuditRow(g, job.flags, job.world)>>
               [] Program = "scan"    -> <<ScanRow(g, job.flags, job.world)>>
               [] Program = "conform" -> ConformRows(g, job.flags, job.world)

\* A crap-score that is stopped may have left any part of it.
LeftBy(g) == IF ~IsCrap(g) THEN {{}}
             ELSE IF job.world.crapRuns THEN {Leaves(job.world.tree)}
             ELSE SUBSET Leaves(job.world.tree)

Objects == \E i \in DOMAIN rows : \E j \in DOMAIN rows[i] : rows[i][j].result = "FAIL"
Exit == CASE phase = "killed"    -> 0
          [] phase = "failed"    -> 2
          [] phase = "traceback" -> 1
          [] phase = "printed"   -> IF Objects THEN 1 ELSE 0

-----------------------------------------------------------------------------
Init == /\ ProfileInit
        /\ \E F \in Families : \E s \in F : disk = s.disk /\ job = s.job
        /\ phase = "start"
        /\ gates = [i \in {} |-> {}]
        /\ rows = [i \in {} |-> <<>>]
        /\ left = {}

Skip == /\ phase = "start" /\ Killed(disk)
        /\ phase' = "killed"
        /\ UNCHANGED <<profileVars, job, gates, rows, left>>

Pinned == /\ phase = "start" /\ ~Killed(disk) /\ job.pinned = "good"
          /\ gates' = job.gates
          /\ phase' = "assess"
          /\ UNCHANGED <<profileVars, job, rows, left>>

NoProfile == /\ phase = "start" /\ ~Killed(disk) /\ job.pinned = "bad"
             /\ phase' = "traceback"
             /\ UNCHANGED <<profileVars, job, gates, rows, left>>

Spawn == /\ phase = "start" /\ ~Killed(disk) /\ job.pinned = "none"
         /\ stage' = "read"
         /\ phase' = "profile"
         /\ UNCHANGED <<disk, found, list, pos, byId, job, gates, rows, left>>

Child == phase = "profile" /\ Classify /\ UNCHANGED runVars

TakeProfile == /\ phase = "profile" /\ stage = "printed"
               /\ gates' = Profile
               /\ phase' = "assess"
               /\ UNCHANGED <<profileVars, job, rows, left>>

ChildFailed == /\ phase = "profile" /\ stage = "failed"
               /\ phase' = "failed"
               /\ UNCHANGED <<profileVars, job, gates, rows, left>>

Breaks(g) == IsOsv(g) /\ OsvBreaks(job.world.osv)

Assess(i) == /\ phase = "assess" /\ First(i) /\ ~Breaks(gates[i])
             /\ rows' = [n \in DOMAIN rows \cup {i} |->
                            IF n = i THEN RowsOf(gates[i]) ELSE rows[n]]
             /\ \E x \in LeftBy(gates[i]) : left' = left \cup x
             /\ UNCHANGED <<profileVars, job, phase, gates>>

Break(i) == /\ phase = "assess" /\ First(i) /\ Breaks(gates[i])
            /\ phase' = "traceback"
            /\ UNCHANGED <<profileVars, job, gates, rows, left>>

Finish == /\ phase = "assess" /\ Waiting = {}
          /\ phase' = "printed"
          /\ UNCHANGED <<profileVars, job, gates, rows, left>>

Ended == /\ phase \in {"killed", "failed", "traceback", "printed"}
         /\ UNCHANGED vars

Next == \/ Skip \/ Pinned \/ NoProfile \/ Spawn \/ Child \/ TakeProfile \/ ChildFailed
        \/ \E i \in DOMAIN gates : Assess(i) \/ Break(i)
        \/ Finish \/ Ended

Spec == Init /\ [][Next]_vars

-----------------------------------------------------------------------------
\* The working state of a run and of the classifier that it waits for.
TypeOK == /\ ProfileTypeOK
          /\ job \in Job
          /\ phase \in {"start", "profile", "assess", "killed", "failed", "traceback", "printed"}
          /\ DOMAIN gates \subseteq Nat /\ \A i \in DOMAIN gates : gates[i] \in Gate
          /\ DOMAIN rows \subseteq Own /\ \A i \in DOMAIN rows : rows[i] \in Seq(Row)
          /\ left \subseteq {"reports", "coverage report", "suite run"}

\* The rows are the answers of the gates assessed, the last of them in when they
\* are printed; a computed profile is the one that classify printed.
RowsAnswer ==
    /\ \A i \in DOMAIN rows : rows[i] = RowsOf(gates[i])
    /\ phase = "printed" => Waiting = {}
    /\ phase \in {"start", "profile"} => DOMAIN gates = {}
    /\ phase = "start" => stage = "idle"
    /\ phase = "profile" => job.pinned = "none"
    /\ DOMAIN gates # {} =>
           IF job.pinned = "none" THEN stage = "printed" /\ gates = Profile ELSE gates = job.gates

\* Both loops keep what they have done so far.
LoopsKeep == MergedSoFar /\ RowsAnswer

\* With a computed profile, only an engineer makes a gate fail: without --strict
\* (and --fail-closed, for dependencies) a FAIL row is of a gate that a list of
\* the registry has as blocking and that no override turns down (audit, scan and
\* conform after resolve_gates).
FailIsOrdered ==
    \A i \in DOMAIN rows : \A j \in DOMAIN rows[i] :
        /\ rows[i][j].result = "FAIL" /\ job.pinned = "none" /\ ~job.flags.strict
        /\ ~(IsOsv(gates[i]) /\ job.flags.failClosed)
        => /\ \E m \in DOMAIN Lists(disk, found) : \E n \in DOMAIN Lists(disk, found)[m] :
                  LET g == Lists(disk, found)[m][n]
                  IN  g.id = rows[i][j].gate /\ g.enforcement = "blocking"
           /\ rows[i][j].gate \notin Overrides(disk).advisory \cup Overrides(disk).disabled
           /\ rows[i][j].gate \notin disk.advisory

\* scan --fail-closed that exits 0 with the dependency gate enabled has either
\* found neither inputs nor declared dependencies, or measured them: the scanner
\* was there, ran and answered, and reported no finding that blocks (run_osv).
FailClosedIsClosed ==
    phase = "printed" /\ job.flags.failClosed /\ Exit = 0 =>
        \A i \in Own : IsOsv(gates[i]) =>
            LET o == job.world.osv
            IN  \/ ~o.inputs /\ ~o.declared
                \/ /\ o.inputs /\ o.hashed /\ o.version = "zero" /\ o.runs
                   /\ o.status \in {0, 1} /\ o.json
                   /\ \A x \in o.findings :
                          /\ x.form = "sound" /\ x.exposure # "development"
                          => x.severity \in 0 .. job.flags.floor - 1

\* fp-rate, which runs conform and counts its rows, leaves out the rows that say
\* they measured nothing, and no others (verdict_bucket).
SkippedIsUnmeasured ==
    Program = "conform" =>
        \A i \in DOMAIN rows : \A j \in DOMAIN rows[i] :
            (Bucket(rows[i][j]) = "skip") <=> rows[i][j].unmeasured

\* When crap-score lets a tree pass, no method it looks for in a file that the
\* analyser answered for, and no other of the file has the name of, is above its wall at the
\* coverage taken for its file: a report that is missing lets nothing pass.
PassedMethodsAreWithinWalls ==
    LET t == job.world.tree
    IN  \A i \in DOMAIN rows :
            IsCrap(gates[i]) /\ rows[i][1].result = "PASS" /\ t.analyser =>
                \A kind \in {"src", "test"} : \A n \in Listed(t, kind) :
                   t.methods[n].file \in t.answers /\ ~Shadowed(t, n) =>
                       Crap(t.methods[n].complexity, t.coverage[t.methods[n].file])
                           <= (IF kind = "src" THEN ProdMax ELSE TestMax) * Scale

-----------------------------------------------------------------------------
(* What the code's words say, and its runs do not bear out. *)

\* "What audit deliberately does NOT do: execute the repo's test suite"
\* (audit.py:17).
AuditRunsNoSuite == "suite run" \notin left

\* "computes CRAP ... for every method" (crap-score.py:4-6): crap-score passes a
\* tree whose analyser answered only when it has scored every method of it.
EveryMethodIsScored ==
    LET t == job.world.tree
    IN  \A i \in DOMAIN rows :
            IsCrap(gates[i]) /\ rows[i][1].result = "PASS" /\ t.analyser /\ t.answers = Files =>
                \A kind \in {"src", "test"} : Listed(t, kind) \subseteq Scored(t, kind)
=============================================================================
