------------------------ MODULE ReportLineage_proofs ------------------------
(***************************************************************************)
(* Theorems about ReportLineage, for reports and manifests of any length   *)
(* and any set of them.                                                    *)
(***************************************************************************)
EXTENDS ReportLineage, FiniteSums

-----------------------------------------------------------------------------
\* Lemmas about the operators.

\* A finding is known by its code.
LEMMA FindingCode == ASSUME NEW c \in Codes, NEW h PROVE Finding(c, h) \subseteq Codes
  BY DEF Finding

\* There is none where nothing is wrong, and only there.
LEMMA NoFinding == ASSUME NEW c, NEW h \in BOOLEAN PROVE Finding(c, h) = {} <=> ~h
  BY DEF Finding

\* The findings in an element have known codes.
LEMMA ElementCodes ==
  /\ \A r : RunErrors(r) \subseteq Codes
  /\ \A c : CellErrors(c) \subseteq Codes
  /\ \A j : JobErrors(j) \subseteq Codes
  /\ \A j, r : CompareErrors(j, r) \subseteq Codes
  /\ IdErrors \subseteq Codes
<1>1. {"shape", "identity", "arithmetic", "lineage"} \subseteq Codes
  BY DEF Codes
<1>2. \A c \in Codes : \A h : Finding(c, h) \subseteq Codes
  BY FindingCode
<1>3. \A g : GradeErrors(g) \subseteq Codes
  BY <1>1, <1>2 DEF GradeErrors
<1>4. \A r : RunErrors(r) \subseteq Codes
  BY <1>1, <1>2, <1>3 DEF RunErrors
<1>5. \A c : CellErrors(c) \subseteq Codes
  BY <1>1, <1>2 DEF CellErrors
<1>6. \A j : JobErrors(j) \subseteq Codes
  BY <1>1, <1>2 DEF JobErrors
<1>7. \A g, h : SourceGradeErrors(g, h) \subseteq Codes
  BY <1>1, <1>2 DEF SourceGradeErrors
<1>8. \A j, r : StatusErrors(j, r) \subseteq Codes
  BY <1>1, <1>2 DEF StatusErrors
<1>9. \A j, r : CompareErrors(j, r) \subseteq Codes
  BY <1>1, <1>2, <1>7, <1>8 DEF CompareErrors
<1>10. IdErrors \subseteq Codes
  BY <1>1, <1>2 DEF IdErrors
<1> QED
  BY <1>4, <1>5, <1>6, <1>9, <1>10

-----------------------------------------------------------------------------
\* Types.

\* The types hold at the start.
LEMMA InitType == Init => TypeOK
<1> SUFFICES ASSUME Init PROVE TypeOK
  OBVIOUS
<1>1. report \in Report /\ manifest \in Manifest
  BY CaseAssumption DEF Init
<1> QED
  BY <1>1 DEF Init, TypeOK

\* A Run is a Run, in the report and among the parsed ones.
LEMMA RunTypes ==
  /\ \A r \in Run : r.id \in Ids \cup {Bad} /\ r.cell \in Keys /\ r.sample \in Nat \cup {Bad}
  /\ \A c \in Cell : c.cell \in Keys
  /\ TypeOK /\ At("parse") => k \in DOMAIN report.runs /\ report.runs[k] \in Run
  /\ TypeOK /\ (At("slot") \/ At("group")) => k \in DOMAIN parsed /\ parsed[k] \in Run
  /\ TypeOK /\ At("cell") => k \in DOMAIN report.cells /\ report.cells[k] \in Cell
  /\ TypeOK /\ At("job") => k \in DOMAIN manifest.jobs /\ manifest.jobs[k] \in Job
<1>1. TypeOK => /\ report.runs \in Seq(Run) /\ report.cells \in Seq(Cell)
                /\ manifest.jobs \in Seq(Job) /\ parsed \in Seq(Run) /\ k \in Nat \ {0}
  BY DEF TypeOK, Report, Manifest
<1>2. \A S : \A s \in Seq(S) : \A n \in Nat \ {0} : n <= Len(s) => n \in DOMAIN s /\ s[n] \in S
  OBVIOUS
<1>3. \A r \in Run : r.id \in Ids \cup {Bad} /\ r.cell \in Keys /\ r.sample \in Nat \cup {Bad}
  BY DEF Run, Keys
<1>4. \A c \in Cell : c.cell \in Keys
  BY DEF Cell, Keys
<1> QED
  BY <1>1, <1>2, <1>3, <1>4 DEF At, ListOf

\* Every step keeps them.
LEMMA StepType == TypeOK /\ [Next]_vars => TypeOK'
<1> SUFFICES ASSUME TypeOK, [Next]_vars PROVE TypeOK'
  OBVIOUS
<1> USE DEF TypeOK, input, Goto, Find
<1>1. CASE Open
  <2>1. errors' \subseteq Codes
    BY <1>1, FindingCode DEF Open, Codes
  <2> QED
    BY <1>1, <2>1 DEF Open, Loops
<1>2. CASE EndLoop
  BY <1>2 DEF EndLoop, After, Loops
<1>3. CASE ParseRun
  <2>1. report.runs[k] \in Run
    BY <1>3, RunTypes DEF ParseRun
  <2>2. errors' \subseteq Codes
    BY <1>3, ElementCodes, FindingCode DEF ParseRun, Codes
  <2>3. seen' \subseteq Ids \cup Keys /\ parsed' \in Seq(Run)
    <3>1. report.runs[k].id \in Ids \cup {Bad} /\ Bad \in Keys
      BY <2>1, RunTypes DEF Keys
    <3>2. seen' \subseteq Ids \cup Keys
      BY <1>3, <3>1 DEF ParseRun
    <3>3. parsed' \in Seq(Run)
      BY <1>3, <2>1 DEF ParseRun
    <3> QED
      BY <3>2, <3>3
  <2> QED
    BY <1>3, <2>2, <2>3 DEF ParseRun, OnWith, Loops
<1>4. CASE SlotRun
  <2>1. parsed[k] \in Run
    BY <1>4, RunTypes DEF SlotRun
  <2>2. errors' \subseteq Codes
    BY <1>4, FindingCode DEF SlotRun, Codes
  <2>3. slots' \in [Keys -> SUBSET Nat]
    <3>1. parsed[k].cell \in Keys /\ parsed[k].sample \in Nat \cup {Bad}
      BY <2>1, RunTypes
    <3>2. \A c \in Keys : \A n \in Nat : [slots EXCEPT ![c] = @ \cup {n}] \in [Keys -> SUBSET Nat]
      OBVIOUS
    <3>3. CASE parsed[k].sample = Bad
      BY <1>4, <3>3 DEF SlotRun
    <3>4. CASE parsed[k].sample # Bad
      <4>1. slots' = [slots EXCEPT ![parsed[k].cell] = @ \cup {parsed[k].sample}]
        BY <1>4, <3>4 DEF SlotRun
      <4> QED
        BY <3>1, <3>2, <3>4, <4>1
    <3> QED
      BY <3>3, <3>4
  <2> QED
    BY <1>4, <2>2, <2>3 DEF SlotRun, OnWith, Loops
<1>5. CASE GroupRun
  <2>1. parsed[k].cell \in Keys
    BY <1>5, RunTypes DEF GroupRun
  <2>2. grouped' \in [Keys -> [Counts -> Nat]]
    <3>1. grouped[parsed[k].cell] \in [Counts -> Nat]
      BY <2>1
    <3>2. [n \in Counts |-> grouped[parsed[k].cell][n] + IF n \in Tallies(parsed[k]) THEN 1 ELSE 0]
            \in [Counts -> Nat]
      BY <3>1
    <3> QED
      BY <1>5, <2>1, <3>2 DEF GroupRun
  <2>3. k' \in Nat \ {0} /\ pc' \in {"group", "done"} /\ outcome' \in {outcome, "raised"}
    BY <1>5 DEF GroupRun, OnWith, Raise
  <2>4. errors' = errors /\ UNCHANGED <<input, seen, parsed, slots, known>>
    BY <1>5 DEF GroupRun, Raise
  <2> QED
    BY <2>2, <2>3, <2>4 DEF Loops
<1>6. CASE Summary
  <2>1. errors' \subseteq Codes
    BY <1>6, FindingCode DEF Summary, Codes
  <2>2. /\ pc' = "cell" /\ k' = 1 /\ seen' = {}
        /\ UNCHANGED <<input, parsed, slots, grouped, known, outcome>>
    BY <1>6 DEF Summary
  <2> QED
    BY <2>1, <2>2 DEF Loops
<1>7. CASE TakeCell
  <2>1. report.cells[k] \in Cell
    BY <1>7, RunTypes DEF TakeCell
  <2>2. errors' \subseteq Codes
    BY <1>7, ElementCodes, FindingCode DEF TakeCell, Raise, Codes
  <2>3. seen' \subseteq Ids \cup Keys
    BY <1>7, <2>1, RunTypes DEF TakeCell
  <2>4. k' \in Nat \ {0} /\ pc' \in {"cell", "done"} /\ outcome' \in {outcome, "raised"}
    BY <1>7 DEF TakeCell, OnWith, Raise
  <2> QED
    BY <1>7, <2>2, <2>3, <2>4 DEF TakeCell, Loops
<1>8. CASE Close
  <2>1. errors' \subseteq Codes
    BY <1>8, ElementCodes, FindingCode DEF Close, Codes
  <2> QED
    BY <1>8, <2>1 DEF Close
<1>9. CASE OpenManifest
  <2>1. errors' \subseteq Codes
    BY <1>9, FindingCode DEF OpenManifest, Codes
  <2> QED
    BY <1>9, <2>1 DEF OpenManifest, Loops
<1>10. CASE TakeJob
  <2>1. errors' \subseteq Codes
    BY <1>10, ElementCodes, FindingCode DEF TakeJob, Codes
  <2>2. known' \subseteq 1 .. Len(manifest.jobs)
    <3>1. k \in 1 .. Len(manifest.jobs)
      BY <1>10 DEF TakeJob, At, ListOf
    <3> QED
      BY <1>10, <3>1 DEF TakeJob
  <2> QED
    BY <1>10, <2>1, <2>2 DEF TakeJob, OnWith, Loops
<1>11. CASE Compare
  <2>1. errors' \subseteq Codes
    <3>1. \A S : UNION {CompareErrors(manifest.jobs[i], RunOf(manifest.jobs[i].id)) : i \in S} \subseteq Codes
      BY ElementCodes
    <3>2. \A h : Finding("arithmetic", h) \subseteq Codes /\ Finding("lineage", h) \subseteq Codes
      BY FindingCode DEF Codes
    <3> QED
      BY <1>11, <3>1, <3>2 DEF Compare, Raise
  <2> QED
    BY <1>11, <2>1 DEF Compare, Raise
<1>12. CASE Decide
  BY <1>12 DEF Decide, Result
<1>13. CASE UNCHANGED vars
  BY <1>13 DEF vars
<1> QED
  BY <1>1, <1>2, <1>3, <1>4, <1>5, <1>6, <1>7, <1>8, <1>9, <1>10, <1>11, <1>12, <1>13 DEF Next, Ended

\* Every variable keeps its type (TypeOK), whatever the two files hold.
THEOREM TypeCorrect == Spec => []TypeOK
<1> QED
  BY InitType, StepType, PTL DEF Spec

-----------------------------------------------------------------------------
\* The loops come one after the other.

\* Findings are not taken back, nor is a traceback, and the input stays.
LEMMA Forward == ASSUME Inductive, [Next]_vars PROVE UNCHANGED input /\ (Live' => Live)
<1> USE DEF Live, input, Find, Raise
<1>1. CASE Open
  BY <1>1 DEF Open
<1>2. CASE EndLoop
  BY <1>2 DEF EndLoop
<1>3. CASE ParseRun
  BY <1>3 DEF ParseRun
<1>4. CASE SlotRun
  BY <1>4 DEF SlotRun
<1>5. CASE GroupRun
  BY <1>5 DEF GroupRun
<1>6. CASE Summary
  <2>1. \E found : errors' = errors \cup found
    BY <1>6 DEF Summary
  <2>2. UNCHANGED <<input, outcome>>
    BY <1>6 DEF Summary
  <2> QED
    BY <2>1, <2>2
<1>7. CASE TakeCell
  BY <1>7 DEF TakeCell
<1>8. CASE Close
  BY <1>8 DEF Close
<1>9. CASE OpenManifest
  BY <1>9 DEF OpenManifest
<1>10. CASE TakeJob
  BY <1>10 DEF TakeJob
<1>11. CASE Compare
  BY <1>11 DEF Compare
<1>12. CASE Decide
  <2>1. outcome = "none" /\ UNCHANGED <<input, errors>>
    BY <1>12 DEF Decide, Inductive
  <2> QED
    BY <2>1
<1>13. CASE UNCHANGED vars
  BY <1>13 DEF vars
<1> QED
  BY <1>1, <1>2, <1>3, <1>4, <1>5, <1>6, <1>7, <1>8, <1>9, <1>10, <1>11, <1>12, <1>13 DEF Next, Ended

\* What is left behind is not gone back to, and stays as it was left.
LEMMA Behind ==
  ASSUME [Next]_vars
  PROVE  /\ pc # "open" => pc' # "open"
         /\ pc \notin Early("slot") => pc' \notin Early("slot") /\ UNCHANGED parsed
         /\ pc \notin Early("group") => pc' \notin Early("group") /\ UNCHANGED slots
         /\ pc \notin Early("cell") => pc' \notin Early("cell") /\ UNCHANGED grouped
         /\ pc \notin Early("cell") \cup {"cell"} => pc' \notin Early("cell") \cup {"cell"}
         /\ pc \notin Early("job") \ {"manifest"} => pc' \notin Early("job") \ {"manifest"}
         /\ pc \notin Early("job") \cup {"job"} =>
              pc' \notin Early("job") \cup {"job"} /\ UNCHANGED known
         /\ pc # "job" => UNCHANGED known
<1> USE DEF Early, Goto, OnWith, Raise
<1>1. CASE Open
  BY <1>1 DEF Open
<1>2. CASE EndLoop
  BY <1>2 DEF EndLoop, After, Loops
<1>3. CASE ParseRun
  BY <1>3 DEF ParseRun, At
<1>4. CASE SlotRun
  BY <1>4 DEF SlotRun, At
<1>5. CASE GroupRun
  BY <1>5 DEF GroupRun, At
<1>6. CASE Summary
  <2>1. pc = "summary" /\ pc' = "cell" /\ UNCHANGED <<parsed, slots, grouped, known>>
    BY <1>6 DEF Summary
  <2> QED
    BY <2>1
<1>7. CASE TakeCell
  BY <1>7 DEF TakeCell, At
<1>8. CASE Close
  BY <1>8 DEF Close
<1>9. CASE OpenManifest
  BY <1>9 DEF OpenManifest
<1>10. CASE TakeJob
  BY <1>10 DEF TakeJob, At
<1>11. CASE Compare
  BY <1>11 DEF Compare
<1>12. CASE Decide
  BY <1>12 DEF Decide
<1>13. CASE UNCHANGED vars
  BY <1>13 DEF vars
<1> QED
  BY <1>1, <1>2, <1>3, <1>4, <1>5, <1>6, <1>7, <1>8, <1>9, <1>10, <1>11, <1>12, <1>13 DEF Next, Ended

\* How a loop is entered, walked and left.
LEMMA Walk ==
  ASSUME [Next]_vars
  PROVE  /\ pc = "open" => \/ pc' = "open" /\ UNCHANGED vars
                           \/ pc' \in {"parse", "manifest"} /\ Open
         /\ pc = "parse" => ParseRun \/ EndLoop \/ UNCHANGED vars
         /\ pc = "slot" => SlotRun \/ EndLoop \/ UNCHANGED vars
         /\ pc = "group" => GroupRun \/ EndLoop \/ UNCHANGED vars
         /\ pc = "summary" => Summary \/ UNCHANGED vars
         /\ pc = "cell" => TakeCell \/ EndLoop \/ UNCHANGED vars
         /\ pc = "close" => Close \/ UNCHANGED vars
         /\ pc = "manifest" => OpenManifest \/ UNCHANGED vars
         /\ pc = "job" => TakeJob \/ EndLoop \/ UNCHANGED vars
         /\ pc = "compare" => Compare \/ UNCHANGED vars
         /\ pc = "decide" => Decide \/ UNCHANGED vars
         /\ pc = "done" => UNCHANGED vars
<1>1. Open => pc = "open" /\ pc' \in {"parse", "manifest"}
  BY DEF Open, Goto
<1>2. EndLoop => pc \in Loops
  BY DEF EndLoop
<1>3. /\ ParseRun => pc = "parse"
      /\ SlotRun => pc = "slot"
      /\ GroupRun => pc = "group"
      /\ TakeCell => pc = "cell"
      /\ TakeJob => pc = "job"
  BY DEF ParseRun, SlotRun, GroupRun, TakeCell, TakeJob, At
<1>4. /\ Summary => pc = "summary"
      /\ Close => pc = "close"
      /\ OpenManifest => pc = "manifest"
      /\ Compare => pc = "compare"
      /\ Decide => pc = "decide"
  BY DEF Summary, Close, OpenManifest, Compare, Decide
<1>5. Ended \/ UNCHANGED vars => UNCHANGED vars /\ pc' = pc
  BY DEF Ended, vars
<1> QED
  BY <1>1, <1>2, <1>3, <1>4, <1>5 DEF Next, Loops

-----------------------------------------------------------------------------
\* What each loop has kept, step by step.

\* A step walks on in a loop, starts one, or is in none.
LEMMA Steps ==
  ASSUME [Next]_vars
  PROVE  \/ UNCHANGED vars
         \/ pc \in Loops /\ pc' = pc /\ k' = k + 1 /\ k <= Len(ListOf(pc)) /\ UNCHANGED outcome
         \/ pc' \notin Loops /\ (outcome' = outcome \/ pc' = "done")
         \/ k' = 1 /\ UNCHANGED outcome
<1> USE DEF Goto, OnWith, Raise, Loops, At
<1>1. CASE pc = "open"
  BY <1>1, Walk DEF Open
<1>2. CASE pc = "parse"
  BY <1>2, Walk DEF ParseRun, EndLoop
<1>3. CASE pc = "slot"
  BY <1>3, Walk DEF SlotRun, EndLoop
<1>4. CASE pc = "group"
  BY <1>4, Walk DEF GroupRun, EndLoop
<1>5. CASE pc = "summary"
  <2>1. Summary => k' = 1 /\ UNCHANGED outcome
    BY DEF Summary
  <2> QED
    BY <1>5, <2>1, Walk
<1>6. CASE pc = "cell"
  BY <1>6, Walk DEF TakeCell, EndLoop
<1>7. CASE pc = "close"
  BY <1>7, Walk DEF Close
<1>8. CASE pc = "manifest"
  BY <1>8, Walk DEF OpenManifest
<1>9. CASE pc = "job"
  BY <1>9, Walk DEF TakeJob, EndLoop
<1>10. CASE pc = "compare"
  BY <1>10, Walk DEF Compare
<1>11. CASE pc = "decide"
  BY <1>11, Walk DEF Decide
<1>12. CASE pc = "done"
  BY <1>12, Walk
<1>13. CASE pc \notin Loops \cup {"open", "summary", "close", "manifest", "compare", "decide", "done"}
  <2>1. /\ Open => pc = "open"
        /\ EndLoop => pc \in Loops
        /\ ParseRun \/ SlotRun \/ GroupRun \/ TakeCell \/ TakeJob => pc \in Loops
    BY DEF Open, EndLoop, ParseRun, SlotRun, GroupRun, TakeCell, TakeJob
  <2>2. Summary \/ Close \/ OpenManifest \/ Compare \/ Decide \/ Ended =>
          pc \in {"summary", "close", "manifest", "compare", "decide", "done"}
    BY DEF Summary, Close, OpenManifest, Compare, Decide, Ended
  <2> QED
    BY <1>13, <2>1, <2>2 DEF Next
<1> QED
  BY <1>1, <1>2, <1>3, <1>4, <1>5, <1>6, <1>7, <1>8, <1>9, <1>10, <1>11, <1>12, <1>13

\* The loops stay within their lists, and only a report without findings passes.
LEMMA StepPlace ==
  ASSUME Inductive, [Next]_vars
  PROVE  /\ pc' \in Loops => k' <= Len(ListOf(pc))' + 1
         /\ outcome' # "none" => pc' = "done"
         /\ Clean' => errors' = {}
<1>1. TypeOK /\ TypeOK'
  BY StepType DEF Inductive
<1>2. /\ pc \in Loops => k <= Len(ListOf(pc)) + 1
      /\ outcome # "none" => pc = "done"
      /\ Clean => errors = {}
  BY DEF Inductive
<1>3. UNCHANGED input
  BY Forward
<1>4. \A s \in {report.runs, report.cells, manifest.jobs, parsed, parsed'} : Len(s) \in Nat
  BY <1>1 DEF TypeOK, Report, Manifest
<1>5. pc' \in Loops => ListOf(pc)' \in {report.runs, report.cells, manifest.jobs, parsed'}
  BY <1>3 DEF ListOf, Loops, input
<1>6. pc \in Loops /\ pc' = pc => ListOf(pc)' = ListOf(pc)
  BY <1>3, Behind DEF ListOf, Loops, input, Early
<1>7. pc' \in Loops => k' <= Len(ListOf(pc))' + 1
  <2>1. CASE UNCHANGED vars
    BY <2>1, <1>2, <1>6 DEF vars
  <2>2. CASE k' = 1
    BY <2>2, <1>4, <1>5
  <2>3. CASE pc \in Loops /\ pc' = pc /\ k' = k + 1 /\ k <= Len(ListOf(pc))
    BY <2>3, <1>1, <1>4, <1>5, <1>6 DEF TypeOK
  <2> QED
    BY <2>1, <2>2, <2>3, Steps
<1>8. outcome' # "none" => pc' = "done"
  <2>1. CASE outcome # "none"
    BY <2>1, <1>2, Walk DEF vars
  <2>2. CASE outcome = "none"
    BY <2>2, Steps DEF vars
  <2> QED
    BY <2>1, <2>2
<1>9. Clean' => errors' = {}
  <2>1. CASE outcome' = outcome
    <3>1. CASE pc = "done"
      BY <3>1, <2>1, <1>2, Walk DEF vars, Clean
    <3>2. CASE pc # "done"
      BY <3>2, <2>1, <1>2 DEF Clean
    <3> QED
      BY <3>1, <3>2
  <2>2. CASE outcome' # outcome
    <3>1. Decide \/ outcome' = "raised"
      BY <2>2 DEF Next, Ended, vars, Open, EndLoop, ParseRun, SlotRun, GroupRun, Close, TakeCell,
                  OpenManifest, TakeJob, Compare, Raise, Summary
    <3> QED
      BY <3>1 DEF Decide, Result, Clean
  <2> QED
    BY <2>1, <2>2
<1> QED
  BY <1>7, <1>8, <1>9

\* The report was opened without a finding: it is one the program walks.
LEMMA StepOpened == ASSUME Inductive, [Next]_vars, Live' PROVE Opened'
<1>1. UNCHANGED input /\ Live
  BY Forward
<1>2. Projected' = Projected
  BY <1>1 DEF Projected, input
<1>3. CASE Open
  <2>1. /\ report.readable
        /\ Finding("schema", report.schema = Bad) = {}
        /\ Finding("shape", report.schema = "suite" /\ ~(report.envelope /\ report.nested)) = {}
        /\ Finding("source", report.schema = "suite" /\ manifest.path = "none") = {}
    BY <1>3 DEF Open, Find, Live
  <2>2. report.schema \in {"unified", "suite", Bad} /\ report.nested \in BOOLEAN
        /\ report.envelope \in BOOLEAN
    BY DEF Inductive, TypeOK, Report, Manifest
  <2>3. report.schema # Bad /\ (report.schema = "suite" => report.nested /\ manifest.path # "none")
    BY <2>1, <2>2 DEF Finding
  <2> QED
    BY <1>1, <1>2, <2>1, <2>2, <2>3 DEF Opened, Projected, input
<1>4. CASE pc # "open"
  BY <1>1, <1>2, <1>4 DEF Inductive, Opened, input
<1>5. CASE pc' = "open"
  BY <1>5 DEF Opened
<1> QED
  BY <1>3, <1>4, <1>5, Walk

\* Without a finding the Runs parsed are those of the report, one of each id.
LEMMA StepParsed == ASSUME Inductive, [Next]_vars, Live' PROVE ParsedSoFar'
<1>1. UNCHANGED input /\ Live
  BY Forward
<1>2. ParsedSoFar /\ Opened'
  BY <1>1, StepOpened DEF Inductive
<1>3. \A r : RunErrors(r)' = RunErrors(r)
  BY <1>1 DEF RunErrors, GradeErrors, input
<1>4. report.runs \in Seq(Run) /\ parsed \in Seq(Run) /\ k \in Nat \ {0}
  BY DEF Inductive, TypeOK, Report
<1>5. CASE UNCHANGED vars
  BY <1>2, <1>3, <1>5 DEF ParsedSoFar, Taken, Early, ReportIds, vars, input
<1>6. CASE pc \notin Early("slot")
  BY <1>1, <1>2, <1>3, <1>6, Behind DEF ParsedSoFar, Taken, Early, ReportIds, input
<1>7. CASE pc = "open" /\ Open
  <2>1. pc' = "parse" /\ k' = 1 /\ UNCHANGED <<seen, parsed>>
    BY <1>2, <1>7, <1>1 DEF Open, Goto, Opened, Projected, input
  <2> QED
    BY <1>1, <1>2, <1>3, <1>7, <2>1 DEF ParsedSoFar, Taken, Early, ReportIds, input
<1>8. CASE pc = "parse" /\ EndLoop
  <2>1. k = Len(report.runs) + 1
    BY <1>4, <1>8 DEF EndLoop, Inductive, ListOf
  <2>2. pc' = "slot" /\ UNCHANGED <<seen, parsed>>
    BY <1>8 DEF EndLoop, Goto, After
  <2> QED
    BY <1>1, <1>2, <1>3, <1>4, <1>8, <2>1, <2>2 DEF ParsedSoFar, Taken, Early, ReportIds, input
<1>9. CASE pc = "parse" /\ ParseRun
  <2> DEFINE r == report.runs[k]
  <2>1. /\ pc' = "parse" /\ k' = k + 1 /\ k <= Len(report.runs)
        /\ r \in Run /\ k \in DOMAIN report.runs
    BY <1>4, <1>9, RunTypes DEF ParseRun, OnWith, At, ListOf
  <2>2. RunErrors(r) = {} /\ Finding("lineage", r.object /\ r.id \in seen) = {}
    BY <1>9 DEF ParseRun, Find, Live
  <2>3. r.object
    BY <2>2 DEF RunErrors
  <2>4. r.id \notin seen
    BY <2>2, <2>3 DEF Finding
  <2>5. parsed' = Append(parsed, r) /\ seen' = seen \cup {r.id}
    BY <1>9, <2>3 DEF ParseRun
  <2>6. Len(parsed) = k - 1 /\ seen = ReportIds
    BY <1>2, <1>9 DEF ParsedSoFar, Taken
  <2>7. /\ DOMAIN parsed = 1 .. k - 1 /\ DOMAIN parsed' = 1 .. k /\ Len(parsed') = k
        /\ \A i \in 1 .. k - 1 : parsed'[i] = parsed[i]
        /\ parsed'[k] = r
    BY <1>4, <2>1, <2>5, <2>6
  <2>8. \A i \in DOMAIN parsed' :
          parsed'[i] = report.runs[i] /\ parsed'[i].object /\ RunErrors(parsed'[i]) = {}
    <3>1. \A i \in 1 .. k - 1 :
            parsed[i] = report.runs[i] /\ parsed[i].object /\ RunErrors(parsed[i]) = {}
      BY <1>2, <2>7 DEF ParsedSoFar
    <3> QED
      BY <1>4, <2>2, <2>3, <2>7, <3>1
  <2>9. \A i, j \in DOMAIN parsed' : i # j => parsed'[i].id # parsed'[j].id
    <3>1. \A i \in 1 .. k - 1 : parsed[i].id # r.id
      BY <2>4, <2>6, <2>7 DEF ReportIds
    <3>2. \A i, j \in 1 .. k - 1 : i # j => parsed[i].id # parsed[j].id
      BY <1>2, <2>7 DEF ParsedSoFar
    <3> QED
      BY <1>4, <2>7, <3>1, <3>2
  <2>10. seen' = ReportIds'
    <3>1. ReportIds' = {parsed'[i].id : i \in 1 .. k}
      BY <2>7 DEF ReportIds
    <3>2. ReportIds = {parsed[i].id : i \in 1 .. k - 1}
      BY <2>7 DEF ReportIds
    <3> QED
      BY <1>4, <2>5, <2>6, <2>7, <3>1, <3>2
  <2>11. Len(parsed)' = Taken("parse", Len(report.runs))'
    BY <1>4, <2>1, <2>7 DEF Taken
  <2> QED
    BY <1>1, <1>3, <2>8, <2>9, <2>10, <2>11 DEF ParsedSoFar, input
<1> QED
  BY <1>5, <1>6, <1>7, <1>8, <1>9, Walk DEF Early

\* Without a finding a loop that ends has taken its whole list.
LEMMA LoopEnds ==
  ASSUME Inductive, Live, EndLoop
  PROVE  /\ k = Len(ListOf(pc)) + 1 /\ pc' = After(pc) /\ k' = 1
         /\ UNCHANGED <<input, errors, seen, parsed, slots, grouped, known, outcome>>
<1>1. k <= Len(ListOf(pc)) + 1 /\ k > Len(ListOf(pc)) /\ k \in Nat
  BY DEF EndLoop, Inductive, TypeOK
<1>2. ListOf(pc) \in {report.runs, report.cells, manifest.jobs, parsed}
  BY DEF EndLoop, ListOf, Loops
<1>3. Len(ListOf(pc)) \in Nat
  BY <1>2 DEF Inductive, TypeOK, Report, Manifest
<1> QED
  BY <1>1, <1>3 DEF EndLoop, Goto

\* Before a loop starts nothing of its list is taken.
LEMMA NotYet ==
  ASSUME Inductive, [Next]_vars, Live'
  PROVE  /\ pc \in Early("slot") => \/ pc' \in Early("slot")
                                    \/ pc' = "slot" /\ k' = 1
         /\ pc \in Early("group") => \/ pc' \in Early("group")
                                     \/ pc' = "group" /\ k' = 1
         /\ pc \in Early("cell") => \/ pc' \in Early("cell")
                                    \/ pc' = "cell" /\ k' = 1
         /\ pc \in Early("job") => \/ pc' \in Early("job")
                                   \/ pc' = "job" /\ k' = 1
                                   \/ pc = "manifest" /\ OpenManifest
         /\ pc \in Early("group") => UNCHANGED grouped
<1>1. Opened' /\ UNCHANGED input /\ Live
  BY StepOpened, Forward
<1>2. CASE UNCHANGED vars
  BY <1>2 DEF vars
<1> USE DEF Early, After
<1>3. CASE pc = "open" /\ Open
  BY <1>3, <1>1 DEF Open, Goto, Opened, Projected, input
<1>4. CASE pc \in Loops /\ EndLoop
  BY <1>4, <1>1, LoopEnds DEF Loops
<1>5. CASE ParseRun \/ SlotRun
  BY <1>5 DEF ParseRun, SlotRun, OnWith, At
<1>6. CASE GroupRun
  BY <1>6 DEF GroupRun, OnWith, At, Raise, Live
<1>7. CASE Summary
  <2>1. pc = "summary" /\ pc' = "cell" /\ k' = 1
    BY <1>7 DEF Summary, Goto
  <2> QED
    BY <2>1
<1>8. CASE TakeCell
  BY <1>8 DEF TakeCell, OnWith, At, Raise, Live
<1>9. CASE pc = "close" /\ Close
  BY <1>9 DEF Close, Goto
<1>10. CASE pc = "manifest" /\ OpenManifest
  BY <1>10
<1>11. CASE pc \notin Early("job")
  BY <1>11
<1> QED
  BY <1>2, <1>3, <1>4, <1>5, <1>6, <1>7, <1>8, <1>9, <1>10, <1>11, Walk DEF Loops

\* The slots are taken in their loop only.
LEMMA SlotsStay == ASSUME [Next]_vars, pc # "slot" PROVE UNCHANGED slots
<1>1. ~SlotRun
  BY DEF SlotRun, At
<1>2. Summary \/ Compare => UNCHANGED slots
  BY DEF Summary, Compare
<1> QED
  BY <1>1, <1>2 DEF Next, Ended, vars, Open, EndLoop, ParseRun, GroupRun, TakeCell, Close,
                    OpenManifest, TakeJob, Decide

\* Without a finding no two Runs share a slot of their cell.
LEMMA StepSlotted == ASSUME Inductive, [Next]_vars, Live' PROVE SlottedSoFar'
<1>1. UNCHANGED input /\ Live
  BY Forward
<1>2. SlottedSoFar /\ ParsedSoFar
  BY <1>1 DEF Inductive
<1>3. TypeOK
  BY DEF Inductive
<1>4. CASE pc \notin Early("group")
  <2>1. UNCHANGED <<parsed, slots>> /\ pc' \notin Early("group")
    BY <1>4, Behind DEF Early
  <2> QED
    BY <1>2, <1>4, <2>1 DEF SlottedSoFar, Taken, Early
<1>5. CASE pc \in Early("slot")
  <2>1. Taken("slot", Len(parsed))' = 0 /\ Taken("slot", Len(parsed)) = 0 /\ UNCHANGED slots
    <3>1. pc # "slot"
      BY <1>5 DEF Early
    <3> QED
      BY <1>5, <3>1, NotYet, SlotsStay DEF Taken, Early
  <2>2. \A c \in Keys : slots[c] = {}
    BY <1>2, <2>1 DEF SlottedSoFar
  <2> QED
    BY <2>1, <2>2 DEF SlottedSoFar
<1>6. CASE pc = "slot" /\ EndLoop
  <2>1. k = Len(parsed) + 1 /\ pc' = "group" /\ UNCHANGED <<parsed, slots>>
    BY <1>1, <1>6, LoopEnds DEF ListOf, After
  <2>2. Len(parsed) \in Nat
    BY <1>3 DEF TypeOK
  <2> QED
    BY <1>2, <1>6, <2>1, <2>2 DEF SlottedSoFar, Taken, Early
<1>7. CASE SlotRun
  <2> DEFINE r == parsed[k]
  <2>1. /\ pc = "slot" /\ pc' = "slot" /\ k' = k + 1 /\ UNCHANGED parsed
        /\ k \in DOMAIN parsed /\ r \in Run /\ r.cell \in Keys
    BY <1>3, <1>7, RunTypes DEF SlotRun, OnWith, At
  <2>2. RunErrors(r) = {} /\ r.object
    BY <1>2, <2>1 DEF ParsedSoFar
  <2>3. r.sample # Bad
    BY <2>2 DEF RunErrors, Finding
  <2>4. /\ Finding("lineage", r.sample \in slots[r.cell]) = {}
        /\ slots' = [slots EXCEPT ![r.cell] = @ \cup {r.sample}]
    BY <1>7, <2>3 DEF SlotRun, Find, Live
  <2>5. r.sample \notin slots[r.cell]
    BY <2>4 DEF Finding
  <2>6. /\ \A c \in Keys :
             slots[c] = {parsed[i].sample : i \in {i \in 1 .. k - 1 : parsed[i].cell = c}}
        /\ \A i, j \in 1 .. k - 1 : i # j => \/ parsed[i].cell # parsed[j].cell
                                            \/ parsed[i].sample # parsed[j].sample
    BY <1>2, <2>1 DEF SlottedSoFar, Taken
  <2>7. \A c \in Keys : slots'[c] = IF c = r.cell THEN slots[c] \cup {r.sample} ELSE slots[c]
    BY <1>3, <2>1, <2>4 DEF TypeOK
  <2>8. k \in Nat \ {0} /\ \A i \in 1 .. k : i \in 1 .. k - 1 \/ i = k
    BY <1>3 DEF TypeOK
  <2>9. \A i \in 1 .. k : parsed[i].cell \in Keys
    <3>1. \A i \in 1 .. k : i \in DOMAIN parsed
      BY <1>3, <2>1 DEF TypeOK
    <3>2. \A i \in DOMAIN parsed : parsed[i] \in Run
      BY <1>3 DEF TypeOK
    <3> QED
      BY <3>1, <3>2, RunTypes
  <2>10. \A c \in Keys :
           slots'[c] = {parsed[i].sample : i \in {i \in 1 .. k : parsed[i].cell = c}}
    <3> SUFFICES ASSUME NEW c \in Keys
                 PROVE  slots'[c] = {parsed[i].sample : i \in {i \in 1 .. k : parsed[i].cell = c}}
      OBVIOUS
    <3> DEFINE mine(m) == {i \in 1 .. m : parsed[i].cell = c}
    <3>1. mine(k) = IF c = r.cell THEN mine(k - 1) \cup {k} ELSE mine(k - 1)
      BY <2>8
    <3>2. slots[c] = {parsed[i].sample : i \in mine(k - 1)}
      BY <2>6
    <3>3. slots'[c] = IF c = r.cell THEN slots[c] \cup {r.sample} ELSE slots[c]
      BY <2>7
    <3> HIDE DEF mine
    <3>4. slots'[c] = {parsed[i].sample : i \in mine(k)}
      BY <3>1, <3>2, <3>3
    <3> QED
      BY <3>4 DEF mine
  <2>11. \A i, j \in 1 .. k : i # j => \/ parsed[i].cell # parsed[j].cell
                                       \/ parsed[i].sample # parsed[j].sample
    <3>1. \A i \in 1 .. k - 1 : parsed[i].cell # r.cell \/ parsed[i].sample # r.sample
      BY <2>1, <2>5, <2>6
    <3> QED
      BY <2>6, <2>8, <3>1
  <2>12. Taken("slot", Len(parsed))' = k
    BY <2>1, <2>8 DEF Taken
  <2> QED
    BY <2>1, <2>10, <2>11, <2>12 DEF SlottedSoFar
<1>8. CASE UNCHANGED vars
  BY <1>2, <1>8 DEF SlottedSoFar, Taken, Early, vars
<1> QED
  BY <1>4, <1>5, <1>6, <1>7, <1>8, Walk DEF Early

\* Each bucket counts the Runs of its cell.
LEMMA StepGrouped == ASSUME Inductive, [Next]_vars, Live' PROVE GroupedSoFar'
<1>1. UNCHANGED input /\ Live
  BY Forward
<1>2. GroupedSoFar /\ TypeOK
  BY <1>1 DEF Inductive
<1>3. Len(parsed) \in Nat /\ k \in Nat \ {0}
  BY <1>2 DEF TypeOK
<1>4. CASE pc \notin Early("cell") \/ pc = "summary"
  <2>1. UNCHANGED <<parsed, grouped>> /\ (pc' \notin Early("cell") \/ pc' = "summary")
    <3>1. Summary => UNCHANGED <<parsed, grouped>> /\ pc' = "cell"
      BY DEF Summary, Goto
    <3> QED
      BY <1>4, <3>1, Behind, Walk DEF Early, vars
  <2> QED
    BY <1>2, <1>4, <2>1 DEF GroupedSoFar, Taken, Early, Counted
<1>5. CASE pc \in Early("group")
  <2>1. Taken("group", Len(parsed))' = 0 /\ Taken("group", Len(parsed)) = 0 /\ UNCHANGED grouped
    BY <1>5, NotYet DEF Taken, Early
  <2>2. \A c, n : Counted(c, n, 0) = {} /\ Counted(c, n, 0)' = {}
    BY DEF Counted
  <2> QED
    BY <1>2, <2>1, <2>2 DEF GroupedSoFar
<1>6. CASE pc = "group" /\ EndLoop
  <2>1. k = Len(parsed) + 1 /\ pc' = "summary" /\ UNCHANGED <<parsed, grouped>>
    BY <1>1, <1>6, LoopEnds DEF ListOf, After
  <2> QED
    BY <1>2, <1>3, <1>6, <2>1 DEF GroupedSoFar, Taken, Early, Counted
<1>7. CASE GroupRun
  <2> DEFINE r == parsed[k]
             tally(n) == IF n \in Tallies(r) THEN 1 ELSE 0
  <2>1. /\ pc = "group" /\ UNCHANGED parsed /\ r.cell \in Keys
    BY <1>2, <1>7, RunTypes DEF GroupRun, At
  <2>2. /\ grouped' = [grouped EXCEPT ![r.cell] = [n \in Counts |-> @[n] + tally(n)]]
        /\ pc' = "group" /\ k' = k + 1
    BY <1>7 DEF GroupRun, Raise, OnWith, Live
  <2>3. \A c \in Keys : \A n \in Counts :
          grouped'[c][n] = grouped[c][n] + IF c = r.cell THEN tally(n) ELSE 0
    <3>1. \A c \in Keys : \A n \in Counts : grouped[c][n] \in Nat
      BY <1>2 DEF TypeOK
    <3>2. \A c \in Keys : grouped'[c] = IF c = r.cell THEN [n \in Counts |-> grouped[c][n] + tally(n)]
                                                     ELSE grouped[c]
      BY <1>2, <2>1, <2>2 DEF TypeOK
    <3> HIDE DEF tally
    <3> SUFFICES ASSUME NEW c \in Keys, NEW n \in Counts
                 PROVE  grouped'[c][n] = grouped[c][n] + IF c = r.cell THEN tally(n) ELSE 0
      OBVIOUS
    <3>3. CASE c = r.cell
      BY <3>2, <3>3
    <3>4. CASE c # r.cell
      <4>1. grouped'[c][n] = grouped[c][n] /\ grouped[c][n] \in Nat
        BY <3>1, <3>2, <3>4
      <4>2. (IF c = r.cell THEN tally(n) ELSE 0) = 0
        BY <3>4
      <4>3. \A x \in Nat : \A y : y = 0 => x = x + y
        OBVIOUS
      <4> QED
        BY <4>1, <4>2, <4>3
    <3> QED
      BY <3>3, <3>4
  <2>4. \A c \in Keys : \A n \in Counts : grouped[c][n] = Cardinality(Counted(c, n, k - 1))
    BY <1>2, <2>1 DEF GroupedSoFar, Taken
  <2>5. ASSUME NEW c \in Keys, NEW n \in Counts
        PROVE  Cardinality(Counted(c, n, k)) =
                 Cardinality(Counted(c, n, k - 1)) + IF c = r.cell THEN tally(n) ELSE 0
    <3>1. Counted(c, n, k) = IF c = r.cell /\ n \in Tallies(r) THEN Counted(c, n, k - 1) \cup {k}
                                                              ELSE Counted(c, n, k - 1)
      BY <1>3 DEF Counted
    <3>2. IsFiniteSet(Counted(c, n, k - 1)) /\ k \notin Counted(c, n, k - 1)
      <4>1. IsFiniteSet(1 .. k - 1)
        BY <1>3, FS_Interval
      <4>2. Counted(c, n, k - 1) \subseteq 1 .. k - 1
        BY DEF Counted
      <4> QED
        BY <1>3, <4>1, <4>2, FS_Subset
    <3>3. Cardinality(Counted(c, n, k - 1)) \in Nat
      BY <3>2, FS_CardinalityType
    <3>4. Cardinality(Counted(c, n, k - 1) \cup {k}) = Cardinality(Counted(c, n, k - 1)) + 1
      BY <3>2, FS_AddElement
    <3> QED
      BY <3>1, <3>3, <3>4
  <2>6. Taken("group", Len(parsed))' = k
    BY <1>3, <2>2 DEF Taken
  <2>7. \A c \in Keys : \A n \in Counts : grouped'[c][n] = Cardinality(Counted(c, n, k))
    BY <2>3, <2>4, <2>5
  <2> QED
    BY <2>1, <2>6, <2>7 DEF GroupedSoFar, Counted
<1>8. CASE UNCHANGED vars
  BY <1>2, <1>8 DEF GroupedSoFar, Taken, Early, Counted, vars
<1> QED
  BY <1>4, <1>5, <1>6, <1>7, <1>8, Walk DEF Early

\* Without a finding the summary holds the totals of the buckets.
LEMMA StepSummed == ASSUME Inductive, [Next]_vars, Live' PROVE SummedSoFar'
<1>1. UNCHANGED input /\ Live
  BY Forward
<1>2. SummedSoFar
  BY <1>1 DEF Inductive
<1>3. CASE pc \notin Early("cell")
  <2>1. UNCHANGED <<report, parsed, grouped>> /\ pc' \notin Early("cell")
    BY <1>1, <1>3, Behind DEF input, Early
  <2>2. \A n : Total(n)' = Total(n)
    BY <2>1 DEF Total, Groups
  <2> QED
    BY <1>2, <1>3, <2>1, <2>2 DEF SummedSoFar
<1>4. CASE pc = "summary" /\ Summary
  <2>1. UNCHANGED <<report, parsed, grouped>>
    BY <1>4 DEF Summary, input
  <2>2. Finding("arithmetic", \E n \in Totals : report.summary[n] # Total(n)) = {}
    BY <1>4 DEF Summary, Find, Live
  <2>3. \A n \in Totals : report.summary[n] = Total(n)
    BY <2>2 DEF Finding
  <2>4. \A n : Total(n)' = Total(n)
    BY <2>1 DEF Total, Groups
  <2> QED
    BY <2>1, <2>3, <2>4 DEF SummedSoFar
<1>5. CASE pc \in Early("cell") \ {"summary"}
  <2>1. CASE pc = "open"
    BY <1>1, <2>1, StepOpened, Walk DEF Open, Goto, Opened, Projected, input, SummedSoFar, Early, vars
  <2>2. CASE pc \in {"parse", "slot", "group"}
    <3>1. EndLoop => pc' \in Early("cell")
      BY <2>2 DEF EndLoop, Goto, After, Early
    <3>2. ParseRun \/ SlotRun => pc' \in Early("cell")
      BY DEF ParseRun, SlotRun, OnWith, Early
    <3>3. GroupRun => pc' \in Early("cell")
      BY DEF GroupRun, OnWith, Raise, Live, Early
    <3>4. UNCHANGED vars => pc' \in Early("cell")
      BY <1>5 DEF vars
    <3> QED
      BY <2>2, <3>1, <3>2, <3>3, <3>4, Walk DEF SummedSoFar
  <2> QED
    BY <1>5, <2>1, <2>2 DEF Early
<1>6. CASE pc = "summary" /\ UNCHANGED vars
  BY <1>6 DEF SummedSoFar, Early, vars
<1> QED
  BY <1>3, <1>4, <1>5, <1>6, Walk DEF Early

\* Without a finding a cell claims what its bucket counts.
LEMMA StepClaimed == ASSUME Inductive, [Next]_vars, Live' PROVE ClaimedSoFar'
<1>1. UNCHANGED input /\ Live
  BY Forward
<1>2. ClaimedSoFar /\ TypeOK
  BY <1>1 DEF Inductive
<1>3. k \in Nat \ {0} /\ Len(report.cells) \in Nat
  BY <1>2 DEF TypeOK, Report
<1>4. CASE pc \notin Early("cell") \cup {"cell"}
  <2>1. UNCHANGED <<report, grouped>> /\ pc' \notin Early("cell") \cup {"cell"}
    BY <1>1, <1>4, Behind DEF input
  <2> QED
    BY <1>2, <1>4, <2>1 DEF ClaimedSoFar, Taken, Early
<1>5. CASE pc \in Early("cell")
  <2>1. Taken("cell", Len(report.cells))' = 0
    BY <1>5, NotYet DEF Taken, Early
  <2>2. pc' = "cell" => k' = 1 /\ seen' = {}
    <3>1. pc' = "cell" => k' = 1 /\ pc = "summary"
      BY <1>5, NotYet, Walk DEF Early, vars, EndLoop, Goto, After, ParseRun, SlotRun, GroupRun,
                                OnWith, Raise
    <3>2. pc = "summary" /\ pc' = "cell" => seen' = {}
      BY Walk DEF Summary, vars
    <3> QED
      BY <3>1, <3>2
  <2> QED
    BY <2>1, <2>2 DEF ClaimedSoFar
<1>6. CASE pc = "cell" /\ EndLoop
  <2>1. k = Len(report.cells) + 1 /\ pc' = "close" /\ UNCHANGED <<report, grouped>>
    BY <1>1, <1>6, LoopEnds DEF ListOf, After, input
  <2> QED
    BY <1>2, <1>3, <1>6, <2>1 DEF ClaimedSoFar, Taken, Early
<1>7. CASE TakeCell
  <2> DEFINE c == report.cells[k]
  <2>1. pc = "cell" /\ UNCHANGED <<report, grouped>> /\ pc' = "cell" /\ k' = k + 1
    BY <1>7, <1>1 DEF TakeCell, At, Raise, OnWith, Live, input
  <2>2. CellErrors(c) = {}
    BY <1>7 DEF TakeCell, Raise, Find, Live
  <2>3. \A n \in Counts : c.counts[n] = grouped[c.cell][n]
    BY <2>2 DEF CellErrors, Finding
  <2>4. \A i \in 1 .. k - 1 : \A n \in Counts :
          report.cells[i].counts[n] = grouped[report.cells[i].cell][n]
    BY <1>2, <2>1 DEF ClaimedSoFar, Taken
  <2>5. \A i \in 1 .. k : i \in 1 .. k - 1 \/ i = k
    BY <1>3
  <2>6. Taken("cell", Len(report.cells))' = k
    BY <1>3, <2>1 DEF Taken
  <2>7. seen' = {report.cells[i].cell : i \in 1 .. k}
    <3>1. c.object
      BY <2>2 DEF CellErrors
    <3>2. seen' = seen \cup {c.cell}
      BY <1>7, <3>1 DEF TakeCell, Raise, Live
    <3>3. seen = {report.cells[i].cell : i \in 1 .. k - 1}
      BY <1>2, <2>1 DEF ClaimedSoFar
    <3>4. 1 .. k = (1 .. k - 1) \cup {k}
      BY <1>3
    <3> QED
      BY <3>2, <3>3, <3>4
  <2>8. k' - 1 = k
    BY <1>3, <2>1
  <2>9. \A i, j \in 1 .. k : i # j => report.cells[i].cell # report.cells[j].cell
    <3>1. c.object /\ c.cell \notin seen
      BY <1>7, <2>2 DEF CellErrors, TakeCell, Raise, Find, Finding, Live
    <3>2. seen = {report.cells[i].cell : i \in 1 .. k - 1}
      BY <1>2, <2>1 DEF ClaimedSoFar
    <3>3. \A i, j \in 1 .. k - 1 : i # j => report.cells[i].cell # report.cells[j].cell
      BY <1>2, <2>1 DEF ClaimedSoFar, Taken
    <3> QED
      BY <2>5, <3>1, <3>2, <3>3
  <2> QED
    BY <2>1, <2>3, <2>4, <2>5, <2>6, <2>7, <2>8, <2>9 DEF ClaimedSoFar
<1>8. CASE UNCHANGED vars
  BY <1>2, <1>8 DEF ClaimedSoFar, Taken, Early, vars, input
<1> QED
  BY <1>4, <1>5, <1>6, <1>7, <1>8, Walk DEF Early

\* Without a finding there is a cell for each group of Runs, and a suite report
\* repeats the ids of its Runs.
LEMMA StepClosed == ASSUME Inductive, [Next]_vars, Live' PROVE ClosedSoFar'
<1>1. UNCHANGED input /\ Live
  BY Forward
<1>2. ClosedSoFar /\ TypeOK
  BY <1>1 DEF Inductive
<1>3. CASE pc \notin Early("job") \ {"manifest"}
  <2>1. UNCHANGED <<report, parsed, grouped>>
    BY <1>1, <1>3, Behind DEF input, Early
  <2> QED
    BY <1>2, <1>3, <2>1 DEF ClosedSoFar, ReportIds, Groups
<1>4. CASE pc = "close" /\ Close
  <2>1. UNCHANGED <<report, parsed, grouped>>
    BY <1>4 DEF Close, input
  <2>2. report.schema = "suite" => IdErrors = {}
    BY <1>4 DEF Close, Find, Live
  <2>4. Len(report.cells) = Cardinality(Groups)
    BY <1>4 DEF Close, Find, Finding, Live
  <2>3. IdErrors = {} => Range(report.ids) = ReportIds
    BY DEF IdErrors, Finding
  <2> QED
    BY <2>1, <2>2, <2>3, <2>4 DEF ClosedSoFar, ReportIds, Groups
<1>5. CASE pc' \in Early("job") \ {"manifest"}
  BY <1>5 DEF ClosedSoFar
<1>6. CASE pc \in Early("cell") /\ pc' \notin Early("job") \ {"manifest"}
  BY <1>6, NotYet DEF Early
<1>7. CASE pc = "cell" /\ pc' \notin Early("job") \ {"manifest"}
  BY <1>1, <1>7, LoopEnds, Walk DEF Early, After, TakeCell, OnWith, Raise, Live, vars
<1> QED
  BY <1>3, <1>4, <1>5, <1>6, <1>7, Walk DEF Early, vars

\* Without a finding every job of the manifest is registered under its own id.
LEMMA StepRegistered == ASSUME Inductive, [Next]_vars, Live' PROVE RegisteredSoFar'
<1>1. UNCHANGED input /\ Live
  BY Forward
<1>2. RegisteredSoFar /\ TypeOK
  BY <1>1 DEF Inductive
<1>3. k \in Nat \ {0} /\ Len(manifest.jobs) \in Nat
  BY <1>2 DEF TypeOK, Manifest
<1>0. Named' = Named
  BY <1>1 DEF Named, input
<1>4. CASE pc \notin Early("job") \cup {"job"}
  <2>1. UNCHANGED <<manifest, known>> /\ pc' \notin Early("job") \cup {"job"}
    BY <1>1, <1>4, Behind DEF input
  <2> QED
    BY <1>0, <1>2, <1>4, <2>1 DEF RegisteredSoFar, Taken, Early
<1>5. CASE pc = "manifest" /\ OpenManifest
  <2>1. UNCHANGED <<manifest, known>>
    BY <1>1, <1>5 DEF OpenManifest, input
  <2>2. Named => pc' = "job" /\ k' = 1
    BY <1>5 DEF OpenManifest, Find, Goto, Live
  <2> QED
    BY <1>0, <1>2, <1>5, <2>1, <2>2 DEF RegisteredSoFar, Taken, Early
<1>6. CASE pc \in Early("job") /\ (pc' \in Early("job") \/ (pc' = "job" /\ k' = 1))
  <2>1. UNCHANGED <<manifest, known>>
    BY <1>1, <1>6, Behind DEF input, Early
  <2>2. Taken("job", Len(manifest.jobs)) = 0 /\ Taken("job", Len(manifest.jobs))' = 0
    BY <1>6 DEF Taken, Early
  <2> QED
    BY <1>0, <1>2, <2>1, <2>2 DEF RegisteredSoFar
<1>7. CASE pc = "job" /\ EndLoop
  <2>1. k = Len(manifest.jobs) + 1 /\ pc' = "compare" /\ UNCHANGED <<manifest, known>>
    BY <1>1, <1>7, LoopEnds DEF ListOf, After, input
  <2>2. /\ Taken("job", Len(manifest.jobs)) = Len(manifest.jobs)
        /\ Taken("job", Len(manifest.jobs))' = Len(manifest.jobs)
    BY <1>3, <1>7, <2>1 DEF Taken, Early
  <2>3. ASSUME Named
        PROVE  LET n == Len(manifest.jobs)
               IN  /\ known = 1 .. n
                   /\ \A i \in 1 .. n : JobErrors(manifest.jobs[i]) = {}
                   /\ \A i, j \in 1 .. n : i # j => manifest.jobs[i].id # manifest.jobs[j].id
    BY <1>2, <2>2, <2>3 DEF RegisteredSoFar
  <2> QED
    BY <1>0, <2>1, <2>2, <2>3 DEF RegisteredSoFar
<1>8. CASE TakeJob
  <2> DEFINE j == manifest.jobs[k]
             same == {i \in known : manifest.jobs[i].id = j.id}
  <2>1. pc = "job" /\ UNCHANGED manifest /\ pc' = "job" /\ k' = k + 1
    BY <1>8, <1>1 DEF TakeJob, At, OnWith, input
  <2>2. /\ JobErrors(j) = {} /\ Finding("lineage", j.object /\ same # {}) = {}
        /\ known' = IF j.object /\ j.id # Bad THEN (known \ same) \cup {k} ELSE known
    BY <1>8 DEF TakeJob, Find, Live
  <2>3. j.object /\ j.id # Bad
    BY <2>2 DEF JobErrors, Finding
  <2>4. same = {}
    BY <2>2, <2>3 DEF Finding
  <2>5. known' = known \cup {k}
    BY <2>2, <2>3, <2>4
  <2>6. Taken("job", Len(manifest.jobs)) = k - 1 /\ Taken("job", Len(manifest.jobs))' = k
    BY <1>3, <2>1 DEF Taken
  <2>7. ASSUME Named
        PROVE  /\ known' = 1 .. k
               /\ \A i \in 1 .. k : JobErrors(manifest.jobs[i]) = {}
               /\ \A i, l \in 1 .. k : i # l => manifest.jobs[i].id # manifest.jobs[l].id
    <3>1. /\ known = 1 .. k - 1
          /\ \A i \in 1 .. k - 1 : JobErrors(manifest.jobs[i]) = {}
          /\ \A i, l \in 1 .. k - 1 : i # l => manifest.jobs[i].id # manifest.jobs[l].id
      BY <1>0, <1>2, <2>6, <2>7 DEF RegisteredSoFar
    <3>2. \A i \in 1 .. k - 1 : manifest.jobs[i].id # j.id
      BY <2>4, <3>1
    <3>3. \A i \in 1 .. k : i \in 1 .. k - 1 \/ i = k
      BY <1>3
    <3>4. 1 .. k = (1 .. k - 1) \cup {k}
      BY <1>3
    <3> QED
      BY <2>2, <2>5, <3>1, <3>2, <3>3, <3>4
  <2> QED
    BY <1>0, <2>1, <2>6, <2>7 DEF RegisteredSoFar
<1>9. CASE UNCHANGED vars
  BY <1>0, <1>2, <1>9 DEF RegisteredSoFar, Taken, Early, vars, input
<1> QED
  BY <1>4, <1>5, <1>6, <1>7, <1>8, <1>9, Walk, NotYet DEF Early

\* Without a finding every job has been compared with its Run.
LEMMA StepCompared == ASSUME Inductive, [Next]_vars, Live' PROVE ComparedSoFar'
<1>1. UNCHANGED input /\ Live /\ Opened'
  BY Forward, StepOpened
<1>2. ComparedSoFar /\ Opened
  BY <1>1 DEF Inductive
<1>0. Named' = Named
  BY <1>1 DEF Named, input
<1> DEFINE differs(i) == CompareErrors(manifest.jobs[i], RunOf(manifest.jobs[i].id))
<1>3. CASE pc \in {"decide", "done"}
  <2>1. UNCHANGED <<manifest, parsed, known>>
    BY <1>1, <1>3, Behind DEF input, Early
  <2> QED
    BY <1>0, <1>2, <1>3, <2>1 DEF ComparedSoFar, ReportIds, KnownIds, RunOf
<1>4. CASE pc = "compare" /\ Compare
  <2>1. UNCHANGED <<manifest, parsed, known>> /\ Projected
    BY <1>2, <1>4 DEF Compare, input, Opened
  <2>2. /\ Finding("lineage", ReportIds # KnownIds) = {}
        /\ UNION {differs(i) : i \in {i \in known : manifest.jobs[i].id \in ReportIds}} = {}
    BY <1>4, <2>1 DEF Compare, Raise, Find, Live
  <2>3. ReportIds = KnownIds
    BY <2>2 DEF Finding
  <2>4. \A i \in known : manifest.jobs[i].id \in ReportIds
    BY <2>3 DEF KnownIds
  <2>5. \A i \in known : differs(i) = {}
    BY <2>2, <2>4
  <2>6. (\A i \in known : differs(i) = {})'
    <3>1. \A id : RunOf(id)' = RunOf(id)
      BY <2>1 DEF RunOf
    <3> QED
      BY <2>1, <2>5, <3>1
  <2>7. (ReportIds = KnownIds)'
    BY <2>1, <2>3 DEF ReportIds, KnownIds
  <2> QED
    BY <1>0, <2>6, <2>7 DEF ComparedSoFar
<1>5. CASE pc = "manifest" /\ OpenManifest
  <2>1. Named => pc' = "job"
    BY <1>5 DEF OpenManifest, Find, Goto, Live
  <2> QED
    BY <1>0, <1>1, <2>1 DEF ComparedSoFar, input
<1>6. CASE pc' \notin {"decide", "done"}
  BY <1>0, <1>6 DEF ComparedSoFar
<1>7. CASE pc = "job" /\ pc' \in {"decide", "done"}
  BY <1>1, <1>7, LoopEnds, Walk DEF After, TakeJob, OnWith, vars
<1>8. pc \in Early("job") \cup {"job", "compare", "decide", "done"}
  BY DEF Inductive, TypeOK, Loops, Early
<1> QED
  BY <1>3, <1>4, <1>5, <1>6, <1>7, <1>8, Walk, NotYet DEF Early, vars

-----------------------------------------------------------------------------
\* The inductive invariant.

\* It holds at the start.
LEMMA InitInductive == Init => Inductive
<1> SUFFICES ASSUME Init PROVE Inductive
  OBVIOUS
<1>1. TypeOK
  BY InitType
<1>2. pc = "open" /\ known = {} /\ parsed = <<>> /\ seen = {} /\ outcome = "none"
  BY DEF Init
<1>3. \A loop \in Loops : \A n : Taken(loop, n) = 0
  BY <1>2 DEF Taken, Early, Loops
<1>4. GroupedSoFar
  <2>1. \A c, n : Counted(c, n, 0) = {}
    BY DEF Counted
  <2>2. \A c \in Keys : \A n \in Counts : grouped[c][n] = 0
    BY DEF Init
  <2> QED
    BY <1>3, <2>1, <2>2, FS_EmptySet DEF GroupedSoFar, Loops
<1>5. ParsedSoFar /\ SlottedSoFar /\ ClaimedSoFar /\ RegisteredSoFar
  <2>1. SlottedSoFar
    <3>1. \A c \in Keys : slots[c] = {}
      BY DEF Init
    <3> QED
      BY <1>3, <3>1 DEF SlottedSoFar, Loops
  <2> QED
    BY <1>2, <1>3, <2>1 DEF ParsedSoFar, ClaimedSoFar, RegisteredSoFar, ReportIds, Loops
<1>6. Opened /\ SummedSoFar /\ ClosedSoFar /\ ComparedSoFar
  BY <1>2 DEF Opened, SummedSoFar, ClosedSoFar, ComparedSoFar, Early
<1> QED
  BY <1>1, <1>2, <1>4, <1>5, <1>6 DEF Inductive, Loops, Clean

\* Every step keeps it.
LEMMA StepInductive == Inductive /\ [Next]_vars => Inductive'
<1> SUFFICES ASSUME Inductive, [Next]_vars PROVE Inductive'
  OBVIOUS
<1>1. TypeOK'
  BY StepType DEF Inductive
<1>2. Live' => /\ Opened' /\ ParsedSoFar' /\ SlottedSoFar' /\ GroupedSoFar'
               /\ SummedSoFar' /\ ClaimedSoFar' /\ ClosedSoFar' /\ RegisteredSoFar' /\ ComparedSoFar'
  BY StepOpened, StepParsed, StepSlotted, StepGrouped, StepSummed, StepClaimed, StepClosed,
     StepRegistered, StepCompared
<1> QED
  BY <1>1, <1>2, StepPlace DEF Inductive

\* Without a finding each loop has kept what it has taken (Inductive).
THEOREM LoopsKeep == Spec => []Inductive
<1> QED
  BY InitInductive, StepInductive, PTL DEF Spec

-----------------------------------------------------------------------------
\* What a row that says PASS is worth.

\* A report that passes has been walked to its end.
LEMMA PassedReport ==
  ASSUME Inductive, Clean
  PROVE  /\ pc = "done" /\ TypeOK
         /\ Opened /\ ParsedSoFar /\ SlottedSoFar /\ GroupedSoFar
         /\ SummedSoFar /\ ClaimedSoFar /\ ClosedSoFar /\ RegisteredSoFar /\ ComparedSoFar
         /\ \A loop \in Loops : \A n : Taken(loop, n) = n
         /\ DOMAIN parsed = RunOfReport /\ \A i \in RunOfReport : parsed[i] = report.runs[i]
<1>1. Live /\ pc = "done"
  BY DEF Inductive, Clean, Live
<1>2. \A loop \in Loops : \A n : Taken(loop, n) = n
  BY <1>1 DEF Taken, Early, Loops
<1>3. ParsedSoFar /\ parsed \in Seq(Run) /\ report.runs \in Seq(Run)
  BY <1>1 DEF Inductive, TypeOK, Report
<1>4. DOMAIN parsed = RunOfReport
  BY <1>2, <1>3 DEF ParsedSoFar, RunOfReport, Loops
<1> QED
  BY <1>1, <1>2, <1>3, <1>4 DEF Inductive, ParsedSoFar

\* What a Run without findings adds to its bucket is what the names of the
\* counts say of it.
LEMMA TallySays ==
  ASSUME NEW r \in Run, RunErrors(r) = {}, r.object, NEW n \in Counts
  PROVE  n \in Tallies(r) <=> Says(n, r)
<1>1. GradeErrors(r.grade) = {} /\ (HasGrade(r.grade) => r.status = "completed")
  BY DEF RunErrors, Finding
<1>2. r.grade.kind \in {"null", "object"}
  BY <1>1 DEF GradeErrors, Finding, Run, Grade
<1>3. HasGrade(r.grade) <=> r.grade.kind = "object"
  BY <1>2 DEF HasGrade
<1> USE DEF Tallies, Says
<1>4. CASE n \in {"attempted_runs", "completed_runs"}
  BY <1>4
<1>5. CASE n \in {"active_runs", "harness_failure_count"}
  BY <1>5
<1>6. CASE n \in {"graded_runs", "ungraded_completed_runs"}
  BY <1>2, <1>3, <1>6
<1>7. CASE n \in {"pass_count", "fail_count"}
  BY <1>2, <1>3, <1>7
<1> QED
  BY <1>4, <1>5, <1>6, <1>7 DEF Counts

\* The groups are the cells of the Runs, finitely many even if Cells is not.
LEMMA GroupsOfRuns ==
  ASSUME TypeOK, GroupedSoFar, Taken("group", Len(parsed)) = Len(parsed)
  PROVE  /\ Groups = {parsed[i].cell : i \in DOMAIN parsed}
         /\ IsFiniteSet(Groups)
         /\ \A c, n : IsFiniteSet(Counted(c, n, Len(parsed)))
<1>1. /\ DOMAIN parsed = 1 .. Len(parsed) /\ Len(parsed) \in Nat /\ parsed \in Seq(Run)
      /\ \A i \in DOMAIN parsed : parsed[i].cell \in Keys
  BY RunTypes DEF TypeOK
<1>2. IsFiniteSet(DOMAIN parsed)
  BY <1>1, FS_Interval
<1>3. ASSUME NEW c, NEW n PROVE IsFiniteSet(Counted(c, n, Len(parsed)))
  BY <1>1, <1>2, FS_Subset DEF Counted
<1>4. ASSUME NEW c \in Keys
      PROVE  grouped[c]["attempted_runs"] > 0 <=> \E i \in DOMAIN parsed : parsed[i].cell = c
  <2> DEFINE mine == Counted(c, "attempted_runs", Len(parsed))
  <2>1. grouped[c]["attempted_runs"] = Cardinality(mine)
    BY DEF GroupedSoFar, Counts
  <2>2. mine = {i \in DOMAIN parsed : parsed[i].cell = c}
    BY <1>1 DEF Counted, Tallies
  <2>3. Cardinality(mine) \in Nat /\ (Cardinality(mine) = 0 <=> mine = {})
    BY <1>3, FS_CardinalityType, FS_EmptySet
  <2> QED
    BY <2>1, <2>2, <2>3
<1>5. Groups = {parsed[i].cell : i \in DOMAIN parsed}
  BY <1>1, <1>4 DEF Groups
<1>6. IsFiniteSet(Groups)
  <2> DEFINE f == [i \in DOMAIN parsed |-> parsed[i].cell]
  <2>1. f \in Surjection(DOMAIN parsed, Groups)
    BY <1>5 DEF Surjection
  <2> QED
    BY <1>2, <2>1, FS_Surjection
<1> QED
  BY <1>3, <1>5, <1>6

\* Once the Runs are grouped, a bucket is a recount of the Runs of its cell.
LEMMA BucketsRecount ==
  ASSUME TypeOK, ParsedSoFar, GroupedSoFar, Taken("group", Len(parsed)) = Len(parsed),
         DOMAIN parsed = RunOfReport, \A i \in RunOfReport : parsed[i] = report.runs[i],
         NEW c \in Keys, NEW n \in Counts
  PROVE  /\ grouped[c][n] = Recount(c, n)
         /\ IsFiniteSet({i \in RunOfReport : report.runs[i].cell = c /\ Says(n, report.runs[i])})
<1>1. DOMAIN parsed = 1 .. Len(parsed) /\ Len(parsed) \in Nat /\ \A i \in DOMAIN parsed : parsed[i] \in Run
  BY DEF TypeOK
<1>2. \A i \in RunOfReport : n \in Tallies(report.runs[i]) <=> Says(n, report.runs[i])
  BY <1>1, TallySays DEF ParsedSoFar
<1>3. Counted(c, n, Len(parsed)) =
        {i \in RunOfReport : report.runs[i].cell = c /\ Says(n, report.runs[i])}
  BY <1>1, <1>2 DEF Counted
<1>4. grouped[c][n] = Cardinality(Counted(c, n, Len(parsed)))
  BY DEF GroupedSoFar
<1>5. IsFiniteSet(Counted(c, n, Len(parsed)))
  BY GroupsOfRuns
<1> QED
  BY <1>3, <1>4, <1>5 DEF Recount

\* The Run of an id of the report is the one Run that has it.
LEMMA TheRunOfAnId ==
  ASSUME TypeOK, ParsedSoFar,
         DOMAIN parsed = RunOfReport, \A i \in RunOfReport : parsed[i] = report.runs[i],
         NEW r \in RunOfReport
  PROVE  RunOf(report.runs[r].id) = report.runs[r]
<1>1. {l \in DOMAIN parsed : parsed[l].id = report.runs[r].id} = {r}
  BY DEF ParsedSoFar
<1>2. r \in Int
  BY DEF TypeOK
<1>3. Max({r}) = r
  BY <1>2 DEF Max
<1> QED
  BY <1>1, <1>3 DEF RunOf

\* The three parts of a faithful pass follow from the invariant.
LEMMA Faithful == Inductive => PassIsFaithful
<1> SUFFICES ASSUME Inductive, Clean PROVE PassIsFaithful
  BY DEF PassIsFaithful
<1>1. /\ TypeOK /\ ParsedSoFar /\ SlottedSoFar /\ GroupedSoFar /\ ClaimedSoFar
      /\ \A loop \in Loops : \A n : Taken(loop, n) = n
      /\ DOMAIN parsed = RunOfReport /\ \A i \in RunOfReport : parsed[i] = report.runs[i]
  BY PassedReport
<1>2. parsed \in Seq(Run) /\ report.cells \in Seq(Cell)
  BY <1>1 DEF TypeOK, Report
<1>3. 1 .. Len(parsed) = RunOfReport
  BY <1>1, <1>2
<1>4. \A i \in RunOfReport : /\ report.runs[i] \in Run /\ report.runs[i].object
                             /\ RunErrors(report.runs[i]) = {}
  <2>1. \A i \in DOMAIN parsed : parsed[i] \in Run
    BY <1>2
  <2>2. \A i \in DOMAIN parsed : parsed[i].object /\ RunErrors(parsed[i]) = {}
    BY <1>1 DEF ParsedSoFar
  <2> QED
    BY <1>1, <2>1, <2>2
<1>5. \A i, j \in RunOfReport : i # j =>
        /\ report.runs[i].id # report.runs[j].id
        /\ \/ report.runs[i].cell # report.runs[j].cell
           \/ report.runs[i].sample # report.runs[j].sample
  <2>1. \A i, j \in RunOfReport : i # j => report.runs[i].id # report.runs[j].id
    BY <1>1 DEF ParsedSoFar
  <2>2. Taken("slot", Len(parsed)) = Len(parsed)
    BY <1>1 DEF Loops
  <2>3. \A i, j \in RunOfReport : i # j => \/ report.runs[i].cell # report.runs[j].cell
                                          \/ report.runs[i].sample # report.runs[j].sample
    BY <1>1, <1>3, <2>2 DEF SlottedSoFar
  <2> QED
    BY <2>1, <2>3
<1>6. \A i \in RunOfReport : report.runs[i].grade.kind # "null" =>
        /\ report.runs[i].status = "completed"
        /\ report.runs[i].grade.grader = report.grader
  <2> SUFFICES ASSUME NEW i \in RunOfReport, report.runs[i].grade.kind # "null"
               PROVE  /\ report.runs[i].status = "completed"
                      /\ report.runs[i].grade.grader = report.grader
    OBVIOUS
  <2> DEFINE r == report.runs[i]
  <2>1. GradeErrors(r.grade) = {} /\ (HasGrade(r.grade) => r.status = "completed")
    BY <1>4 DEF RunErrors, Finding
  <2>2. r.grade.kind = "object" /\ r.grade.grader = report.grader
    BY <2>1 DEF GradeErrors, Finding
  <2> QED
    BY <2>1, <2>2 DEF HasGrade
<1>7. ASSUME NEW c \in DOMAIN report.cells, NEW n \in Counts
      PROVE  report.cells[c].counts[n] = Recount(report.cells[c].cell, n)
  <2>1. report.cells[c].cell \in Keys /\ c \in 1 .. Len(report.cells)
    BY <1>2, RunTypes
  <2>2. report.cells[c].counts[n] = grouped[report.cells[c].cell][n]
    BY <1>1, <2>1 DEF ClaimedSoFar, Loops
  <2> QED
    BY <1>1, <2>1, <2>2, BucketsRecount DEF Loops
<1>8. CellsAreApart
  <2>1. DOMAIN report.cells = 1 .. Len(report.cells)
    BY <1>2
  <2> QED
    BY <1>1, <2>1 DEF ClaimedSoFar, CellsAreApart, Loops
<1>9. CellsAreAsMany
  <2>1. Len(report.cells) = Cardinality(Groups)
    BY <1>1, PassedReport DEF ClosedSoFar, Early
  <2>2. Groups = {parsed[i].cell : i \in DOMAIN parsed}
    BY <1>1, GroupsOfRuns DEF Loops
  <2>3. Groups = CellsOfRuns
    BY <1>1, <2>2 DEF CellsOfRuns
  <2> QED
    BY <2>1, <2>3 DEF CellsAreAsMany
<1> QED
  BY <1>5, <1>6, <1>7, <1>8, <1>9 DEF PassIsFaithful, RunsAreApart, CellsCountTheirRuns

\* So does the agreement with the source.
LEMMA Agreeing == Inductive => PassAgreesWithSource
<1> SUFFICES ASSUME Inductive, Clean PROVE PassAgreesWithSource
  BY DEF PassAgreesWithSource
<1>1. /\ pc = "done" /\ TypeOK /\ Opened /\ ParsedSoFar
      /\ ClosedSoFar /\ RegisteredSoFar /\ ComparedSoFar
      /\ \A loop \in Loops : \A n : Taken(loop, n) = n
      /\ DOMAIN parsed = RunOfReport /\ \A i \in RunOfReport : parsed[i] = report.runs[i]
  BY PassedReport
<1>2. ReportIds = {report.runs[r].id : r \in RunOfReport}
  BY <1>1 DEF ReportIds
<1>3. report.schema = "suite" => Range(report.ids) = ReportIds
  BY <1>1 DEF Opened, ClosedSoFar, Early
<1>4. ASSUME Named
      PROVE  /\ known = DOMAIN manifest.jobs /\ ReportIds = KnownIds
             /\ \A i, j \in known : i # j => manifest.jobs[i].id # manifest.jobs[j].id
             /\ \A i \in known : /\ JobErrors(manifest.jobs[i]) = {}
                                 /\ manifest.jobs[i] \in Job
                                 /\ CompareErrors(manifest.jobs[i], RunOf(manifest.jobs[i].id)) = {}
  <2>1. manifest.jobs \in Seq(Job)
    BY <1>1 DEF TypeOK, Manifest
  <2>2. Taken("job", Len(manifest.jobs)) = Len(manifest.jobs)
    BY <1>1 DEF Loops
  <2>3. /\ known = 1 .. Len(manifest.jobs)
        /\ \A i \in known : JobErrors(manifest.jobs[i]) = {}
        /\ \A i, j \in known : i # j => manifest.jobs[i].id # manifest.jobs[j].id
    BY <1>1, <1>4, <2>2 DEF RegisteredSoFar
  <2>4. known = DOMAIN manifest.jobs /\ \A i \in known : manifest.jobs[i] \in Job
    BY <2>1, <2>3
  <2>5. /\ ReportIds = KnownIds
        /\ \A i \in known : CompareErrors(manifest.jobs[i], RunOf(manifest.jobs[i].id)) = {}
    BY <1>1, <1>4 DEF ComparedSoFar
  <2> QED
    BY <2>3, <2>4, <2>5
<1>5. ASSUME Named, NEW r \in RunOfReport
      PROVE  \E i \in DOMAIN manifest.jobs :
               JobsOf(report.runs[r].id) = {i} /\ Matches(manifest.jobs[i], report.runs[r])
  <2>1. PICK i \in known : manifest.jobs[i].id = report.runs[r].id
    BY <1>2, <1>4, <1>5 DEF KnownIds
  <2> DEFINE run == report.runs[r]
             job == manifest.jobs[i]
  <2>2. JobsOf(run.id) = {i}
    BY <1>4, <1>5, <2>1 DEF JobsOf
  <2>3. RunOf(job.id) = run
    BY <1>1, <2>1, TheRunOfAnId
  <2>4. CompareErrors(job, run) = {} /\ JobErrors(job) = {} /\ job \in Job
    BY <1>4, <1>5, <2>3
  <2>5. job.cell = run.cell /\ StatusErrors(job, run) = {}
        /\ SourceGradeErrors(job.grade, run.grade) = {}
    BY <2>4 DEF CompareErrors, Finding
  <2>6. \/ job.status = "pending"
        \/ /\ job.status \in {"completed", "runner_error", "timed_out"}
           /\ job.status = run.status
    <3>1. job.status # Bad
      BY <2>4 DEF JobErrors, Finding
    <3>2. job.status \in SourceStatuses
      BY <2>4, <3>1 DEF Job
    <3> QED
      BY <2>5, <3>2 DEF StatusErrors, Finding, SourceStatuses, RunStatuses
  <2>7. /\ HasGrade(job.grade) <=> HasGrade(run.grade)
        /\ HasGrade(run.grade) => SameGrade(job.grade, run.grade)
    BY <2>5 DEF SourceGradeErrors, Finding
  <2> QED
    BY <1>4, <1>5, <2>2, <2>5, <2>6, <2>7 DEF Matches
<1>6. ASSUME Named, NEW i \in DOMAIN manifest.jobs
      PROVE  \E r \in RunOfReport : report.runs[r].id = manifest.jobs[i].id
  BY <1>2, <1>4, <1>6 DEF KnownIds
<1> QED
  BY <1>2, <1>3, <1>5, <1>6 DEF PassAgreesWithSource, JobsAreTheRuns, SuiteNamesItsRuns

\* The buckets of a count add up to the number of Runs that have it.
LEMMA BucketsAddUp ==
  ASSUME TypeOK, GroupedSoFar, Taken("group", Len(parsed)) = Len(parsed), NEW n \in Counts
  PROVE  SumFunction([c \in Groups |-> grouped[c][n]]) =
           Cardinality({i \in DOMAIN parsed : n \in Tallies(parsed[i])})
<1> DEFINE f == [c \in Groups |-> grouped[c][n]]
           A == [c \in Groups |-> Counted(c, n, Len(parsed))]
<1>1. /\ Groups = {parsed[i].cell : i \in DOMAIN parsed}
      /\ IsFiniteSet(Groups)
      /\ \A c : IsFiniteSet(Counted(c, n, Len(parsed)))
  BY GroupsOfRuns
<1>2. DOMAIN parsed = 1 .. Len(parsed)
  BY DEF TypeOK
<1>3. \A c \in Groups : IsFiniteSet(A[c]) /\ f[c] = Cardinality(A[c])
  BY <1>1 DEF GroupedSoFar, Groups
<1>4. \A c, d \in Groups : c # d => A[c] \cap A[d] = {}
  BY DEF Counted
<1>5. Together(A, Groups) = {i \in DOMAIN parsed : n \in Tallies(parsed[i])}
  <2>1. \A c \in Groups : A[c] = {i \in DOMAIN parsed : parsed[i].cell = c /\ n \in Tallies(parsed[i])}
    BY <1>2 DEF Counted
  <2>2. \A i \in DOMAIN parsed : parsed[i].cell \in Groups
    BY <1>1
  <2> HIDE DEF A
  <2> QED
    BY <2>1, <2>2 DEF Together
<1>6. SumFunction(f) = SumFunctionOnSet(f, Groups)
  BY DEF SumFunction
<1> HIDE DEF f, A
<1>7. SumFunctionOnSet(f, Groups) = Cardinality(Together(A, Groups))
  <2>1. IsFiniteSet(Groups)
    BY <1>1
  <2> QED
    BY <1>3, <1>4, <2>1, SumOfSizes
<1>8. SumFunction(f) = Cardinality({i \in DOMAIN parsed : n \in Tallies(parsed[i])})
  BY <1>5, <1>6, <1>7
<1> QED
  BY <1>8 DEF f

\* Once they are grouped, the totals of the buckets count the Runs.
LEMMA TotalsOfRuns ==
  ASSUME TypeOK, ParsedSoFar, GroupedSoFar, Taken("group", Len(parsed)) = Len(parsed),
         DOMAIN parsed = RunOfReport, \A i \in RunOfReport : parsed[i] = report.runs[i]
  PROVE  /\ \A n \in Counts : Total(n) = Cardinality({i \in RunOfReport : Says(n, report.runs[i])})
         /\ Total("cell_count") = Cardinality(CellsOfRuns)
<1>1. Groups = {report.runs[i].cell : i \in RunOfReport}
  BY GroupsOfRuns
<1>2. \A i \in RunOfReport : \A n \in Counts :
        n \in Tallies(parsed[i]) <=> Says(n, report.runs[i])
  <2>1. \A i \in DOMAIN parsed : parsed[i] \in Run
    BY DEF TypeOK
  <2> QED
    BY <2>1, TallySays DEF ParsedSoFar
<1>3. ASSUME NEW n \in Counts
      PROVE  Total(n) = Cardinality({i \in RunOfReport : Says(n, report.runs[i])})
  <2> DEFINE those == {i \in RunOfReport : Says(n, report.runs[i])}
  <2>1. n \in Totals /\ n # "cell_count"
    BY DEF Totals, Counts
  <2>2. CASE n = "attempted_runs"
    <3>1. those = 1 .. Len(parsed) /\ Len(parsed) \in Nat
      BY <2>2 DEF Says, TypeOK
    <3>2. Cardinality(those) = Len(parsed)
      <4>1. 1 \in Int /\ Len(parsed) \in Int
        BY <3>1
      <4>2. Cardinality(1 .. Len(parsed)) = IF 1 > Len(parsed) THEN 0 ELSE Len(parsed) - 1 + 1
        BY <4>1, FS_Interval
      <4> HIDE DEF those
      <4> QED
        BY <3>1, <4>2
    <3> QED
      BY <2>1, <2>2, <3>2 DEF Total
  <2>3. CASE n # "attempted_runs"
    <3>1. Total(n) = SumFunction([c \in Groups |-> grouped[c][n]])
      BY <2>1, <2>3 DEF Total, Counts
    <3>2. {i \in DOMAIN parsed : n \in Tallies(parsed[i])} = those
      BY <1>2
    <3> QED
      BY <3>1, <3>2, BucketsAddUp
  <2> QED
    BY <2>2, <2>3
<1>4. Total("cell_count") = Cardinality(Groups)
  BY DEF Total
<1> QED
  BY <1>1, <1>3, <1>4 DEF CellsOfRuns

\* So a summary that passes does.
LEMMA AddingUp == Inductive => TotalsAddUp
<1> SUFFICES ASSUME Inductive, Clean PROVE SummaryCountsTheRuns
  BY DEF TotalsAddUp
<1>1. /\ pc = "done" /\ TypeOK /\ ParsedSoFar /\ GroupedSoFar /\ SummedSoFar
      /\ Taken("group", Len(parsed)) = Len(parsed)
      /\ DOMAIN parsed = RunOfReport /\ \A i \in RunOfReport : parsed[i] = report.runs[i]
  BY PassedReport DEF Loops
<1>2. \A n \in Totals : report.summary[n] = Total(n)
  BY <1>1 DEF SummedSoFar, Early
<1> QED
  BY <1>1, <1>2, TotalsOfRuns DEF SummaryCountsTheRuns, Totals

\* A report that passes has one Run for each id and slot, Grades only where
\* they belong, and cells that count their Runs (PassIsFaithful).
THEOREM PassesAreFaithful == Spec => []PassIsFaithful
<1> QED
  BY LoopsKeep, Faithful, PTL

\* A summary that passes counts every Run once, whatever cell it is in (TotalsAddUp).
THEOREM PassesAddUp == Spec => []TotalsAddUp
<1> QED
  BY LoopsKeep, AddingUp, PTL

\* A report that passes when its manifest was read has the Runs of the jobs, with
\* their Grades and, of jobs that are not pending, their outcomes, and a suite
\* passes only under the ids of its Runs (PassAgreesWithSource).
THEOREM PassesAgreeWithSource == Spec => []PassAgreesWithSource
<1> QED
  BY LoopsKeep, Agreeing, PTL
-----------------------------------------------------------------------------
\* What is right passes.

\* A sequence without repetitions has as many elements as places.
LEMMA DistinctCount ==
  ASSUME NEW n \in Nat, NEW T, NEW f \in Surjection(1 .. n, T),
         \A i, j \in 1 .. n : i # j => f[i] # f[j]
  PROVE  IsFiniteSet(T) /\ Cardinality(T) = n
<1>1. f \in Injection(1 .. n, T)
  BY DEF Surjection, Injection, IsInjective
<1>2. IsFiniteSet(1 .. n) /\ Cardinality(1 .. n) = n
  BY FS_Interval
<1> QED
  BY <1>1, <1>2, FS_Surjection

\* A Run that is right has no findings.
LEMMA RightRunHasNone ==
  ASSUME RightFrame, NEW r, RightRun(r)
  PROVE  RunErrors(r) = {}
<1>1. GradeErrors(r.grade) = {}
  BY DEF GradeErrors, Finding, RightRun, RightFrame
<1>2. HasGrade(r.grade) => r.status = "completed"
  BY DEF HasGrade, RightRun
<1> QED
  BY <1>1, <1>2 DEF RunErrors, Finding, RightRun

\* Past the first loop without a finding, the Runs parsed are those of the report.
LEMMA AllParsed ==
  ASSUME Inductive, Live, pc \notin Early("slot")
  PROVE  /\ DOMAIN parsed = RunOfReport
         /\ \A i \in RunOfReport : parsed[i] = report.runs[i]
         /\ ReportIds = {report.runs[r].id : r \in RunOfReport}
<1>1. ParsedSoFar /\ parsed \in Seq(Run) /\ report.runs \in Seq(Run)
  BY DEF Inductive, TypeOK, Report
<1>2. Taken("parse", Len(report.runs)) = Len(report.runs)
  BY DEF Taken, Early
<1>3. DOMAIN parsed = RunOfReport
  BY <1>1, <1>2 DEF ParsedSoFar, RunOfReport
<1> QED
  BY <1>1, <1>3 DEF ParsedSoFar, ReportIds

\* Past the third, the buckets are a recount and the groups the cells of the Runs.
LEMMA AllGrouped ==
  ASSUME Inductive, Live, pc \notin Early("group") \cup {"group"}
  PROVE  /\ \A c \in Keys : \A n \in Counts :
              /\ grouped[c][n] = Recount(c, n)
              /\ IsFiniteSet({i \in RunOfReport : report.runs[i].cell = c /\ Says(n, report.runs[i])})
         /\ \A n \in Counts : Total(n) = Cardinality({i \in RunOfReport : Says(n, report.runs[i])})
         /\ Total("cell_count") = Cardinality(CellsOfRuns)
         /\ Groups = CellsOfRuns
<1>1. /\ TypeOK /\ ParsedSoFar /\ GroupedSoFar /\ Taken("group", Len(parsed)) = Len(parsed)
      /\ DOMAIN parsed = RunOfReport /\ \A i \in RunOfReport : parsed[i] = report.runs[i]
  BY AllParsed DEF Inductive, Taken, Early
<1>2. Groups = CellsOfRuns
  BY <1>1, GroupsOfRuns DEF CellsOfRuns
<1> QED
  BY <1>1, <1>2, BucketsRecount, TotalsOfRuns

\* There is no finding in a claim that is right, and none that raises.
LEMMA RightCell ==
  ASSUME Inductive, Live, Right, TakeCell
  PROVE  errors' = {} /\ pc' = "cell" /\ UNCHANGED outcome
<1> DEFINE c == report.cells[k]
           graded == Recount(c.cell, "graded_runs")
           those(n) == {i \in RunOfReport : report.runs[i].cell = c.cell /\ Says(n, report.runs[i])}
<1>1. /\ pc = "cell" /\ k \in DOMAIN report.cells /\ c \in Cell /\ c.cell \in Keys /\ k \in Nat
      /\ report.cells \in Seq(Cell)
  BY RunTypes DEF TakeCell, At, Inductive, TypeOK, Report
<1>2. RightClaim(c) /\ \A n \in Counts : c.counts[n] = Recount(c.cell, n)
  BY <1>1 DEF Right, RightClaims, CellsCountTheirRuns
<1>3. \A n \in Counts : grouped[c.cell][n] = Recount(c.cell, n) /\ IsFiniteSet(those(n))
  BY <1>1, AllGrouped DEF Early
<1>4. /\ \A n \in Counts : Recount(c.cell, n) = Cardinality(those(n))
      /\ those("pass_count") \subseteq those("graded_runs")
      /\ {"pass_count", "graded_runs"} \subseteq Counts
  BY DEF Recount, Says, Counts
<1>5. /\ \A n \in Counts : Recount(c.cell, n) \in Nat
      /\ Recount(c.cell, "pass_count") <= graded
      /\ graded = 0 <=> those("graded_runs") = {}
  <2> HIDE DEF those
  <2>1. \A n \in Counts : Cardinality(those(n)) \in Nat
    BY <1>3, FS_CardinalityType
  <2>2. Cardinality(those("pass_count")) <= Cardinality(those("graded_runs"))
    BY <1>3, <1>4, FS_Subset
  <2>3. Cardinality(those("graded_runs")) = 0 <=> those("graded_runs") = {}
    BY <1>3, <1>4, FS_EmptySet
  <2> QED
    BY <1>4, <2>1, <2>2, <2>3
<1>6. \A n \in Counts : c.counts[n] # Bad
  BY <1>2, <1>5, BadAssumption
<1>7. ~CellRaises(c)
  BY <1>2, <1>4, <1>5, <1>6 DEF CellRaises
<1>8. Scored(c.cell) <=> graded > 0
  <2>1. DOMAIN parsed = RunOfReport /\ \A i \in RunOfReport : parsed[i] = report.runs[i]
    BY <1>1, AllParsed DEF Early
  <2>2. \A i \in RunOfReport : report.runs[i].grade.kind = "object" => report.runs[i].grade.score # Bad
    BY DEF Right, RightRun
  <2>3. Scored(c.cell) <=> those("graded_runs") # {}
    BY <2>1, <2>2 DEF Scored, Says
  <2> QED
    BY <1>4, <1>5, <2>3
<1>9. CellErrors(c) = {}
  <2>1. c.object /\ c.grader = report.grader /\ c.grader # Bad
    BY <1>2 DEF RightClaim, Right, RightFrame
  <2>2. c.cell # Bad
    BY <1>2 DEF RightClaim, CellsOfRuns, Right, RightRun
  <2>3. \A n \in Counts : c.counts[n] = grouped[c.cell][n]
    BY <1>2, <1>3
  <2>4. \A stat \in {c.rate, c.deviation, c.interval, c.score} : stat = IF graded = 0 THEN "null" ELSE "own"
    BY <1>2 DEF RightClaim
  <2>5. c.counts["graded_runs"] = graded /\ (graded > 0 <=> graded # 0)
    BY <1>2, <1>4, <1>5
  <2>6. \A stat \in {c.rate, c.deviation, c.interval, c.score} :
          stat # "missing" /\ Follows(stat, graded > 0)
    BY <2>4, <2>5 DEF Follows
  <2>7. Follows(c.score, Scored(c.cell))
    BY <1>8, <2>6 DEF Follows
  <2> HIDE DEF graded, c
  <2> QED
    BY <2>1, <2>2, <2>3, <2>5, <2>6, <2>7 DEF CellErrors, Finding
<1>10. c.cell \notin seen
  <2>1. seen = {report.cells[i].cell : i \in 1 .. k - 1}
    BY <1>1 DEF Inductive, ClaimedSoFar
  <2>2. \A i \in 1 .. k - 1 : i \in DOMAIN report.cells /\ i # k
    BY <1>1
  <2> QED
    BY <1>1, <2>1, <2>2 DEF Right, RightClaims, CellsAreApart
<1> QED
  BY <1>7, <1>9, <1>10 DEF TakeCell, Find, OnWith, Finding, Live

\* There is none in the number of claims and the ids that are repeated.
LEMMA RightClose ==
  ASSUME Inductive, Live, Right, Close
  PROVE  errors' = {} /\ pc' = "manifest" /\ UNCHANGED outcome
<1>1. pc = "close" /\ TypeOK
  BY DEF Close, Inductive
<1>2. /\ Groups = CellsOfRuns /\ ReportIds = {report.runs[r].id : r \in RunOfReport}
      /\ report.runs \in Seq(Run)
  BY <1>1, AllGrouped, AllParsed DEF Early, TypeOK, Report
<1>3. Len(report.cells) = Cardinality(Groups)
  BY <1>2 DEF Right, RightClaims, CellsAreAsMany
<1>4. ASSUME report.schema = "suite" PROVE IdErrors = {}
  <2>1. Range(report.ids) = ReportIds /\ Len(report.ids) = Len(report.runs)
    BY <1>2, <1>4 DEF Right, SuiteNamesItsRuns, RightFrame
  <2>2. Bad \notin ReportIds
    BY <1>2 DEF Right, RightRun
  <2>3. Cardinality(ReportIds) = Len(report.runs)
    <3> DEFINE f == [r \in 1 .. Len(report.runs) |-> report.runs[r].id]
    <3>1. RunOfReport = 1 .. Len(report.runs) /\ Len(report.runs) \in Nat
      BY <1>2 DEF RunOfReport
    <3>2. f \in Surjection(1 .. Len(report.runs), ReportIds)
      BY <1>2, <3>1 DEF Surjection
    <3>3. \A i, j \in 1 .. Len(report.runs) : i # j => f[i] # f[j]
      BY <3>1 DEF Right, RunsAreApart
    <3> HIDE DEF f
    <3> QED
      BY <3>1, <3>2, <3>3, DistinctCount
  <2> QED
    BY <2>1, <2>2, <2>3 DEF IdErrors, Finding
<1> QED
  BY <1>3, <1>4 DEF Close, Find, Goto, Finding, Live

\* A job of a manifest that is right is the only one of its id and matches its Run.
LEMMA RightJobs ==
  ASSUME Right, TypeOK, Named, NEW i \in DOMAIN manifest.jobs
  PROVE  /\ \E r \in RunOfReport : /\ report.runs[r].id = manifest.jobs[i].id
                                   /\ JobsOf(manifest.jobs[i].id) = {i}
                                   /\ Matches(manifest.jobs[i], report.runs[r])
         /\ JobErrors(manifest.jobs[i]) = {}
         /\ manifest.jobs[i].object /\ manifest.jobs[i].id # Bad
<1> DEFINE j == manifest.jobs[i]
<1>1. PICK r \in RunOfReport : report.runs[r].id = j.id
  BY DEF Right, RightManifest, JobsAreTheRuns
<1>2. PICK l \in DOMAIN manifest.jobs :
        JobsOf(report.runs[r].id) = {l} /\ Matches(manifest.jobs[l], report.runs[r])
  BY DEF Right, RightManifest, JobsAreTheRuns
<1>3. l = i
  BY <1>1, <1>2 DEF JobsOf
<1>4. RightRun(report.runs[r]) /\ j.object
  BY DEF Right, RightManifest
<1>5. j.id # Bad /\ j.cell # Bad
  BY <1>1, <1>2, <1>3, <1>4 DEF RightRun, Matches
<1>6. j.status # Bad
  BY <1>2, <1>3, BadAssumption DEF Matches, SourceStatuses, RunStatuses
<1> QED
  BY <1>1, <1>2, <1>3, <1>4, <1>5, <1>6 DEF JobErrors, Finding

\* There is none in a job, and its id was not registered before.
LEMMA RightJob ==
  ASSUME Inductive, Live, Right, Named, TakeJob
  PROVE  errors' = {} /\ pc' = "job" /\ UNCHANGED outcome
<1> DEFINE j == manifest.jobs[k]
           same == {i \in known : manifest.jobs[i].id = j.id}
<1>1. pc = "job" /\ k \in DOMAIN manifest.jobs /\ TypeOK /\ k \in Nat \ {0}
  BY RunTypes DEF TakeJob, At, Inductive, TypeOK
<1>2. known = 1 .. k - 1
  BY <1>1 DEF Inductive, RegisteredSoFar, Taken
<1>3. JobErrors(j) = {} /\ JobsOf(j.id) = {k}
  BY <1>1, RightJobs
<1>4. same = {}
  <2>1. \A i \in known : i \in DOMAIN manifest.jobs /\ i # k
    BY <1>1, <1>2 DEF TypeOK, Manifest
  <2> QED
    BY <1>3, <2>1 DEF JobsOf
<1> QED
  BY <1>3, <1>4 DEF TakeJob, Find, OnWith, Finding, Live

\* Nor is there one between the jobs and the Runs.
LEMMA RightCompare ==
  ASSUME Inductive, Live, Right, Named, Compare
  PROVE  errors' = {} /\ pc' = "decide" /\ UNCHANGED outcome
<1> DEFINE differs(i) == CompareErrors(manifest.jobs[i], RunOf(manifest.jobs[i].id))
<1>1. pc = "compare" /\ TypeOK /\ ParsedSoFar /\ manifest.jobs \in Seq(Job)
  BY DEF Compare, Inductive, TypeOK, Manifest
<1>2. /\ DOMAIN parsed = RunOfReport /\ \A i \in RunOfReport : parsed[i] = report.runs[i]
      /\ ReportIds = {report.runs[r].id : r \in RunOfReport}
  BY <1>1, AllParsed DEF Early
<1>3. known = 1 .. Len(manifest.jobs) /\ known = DOMAIN manifest.jobs /\ Len(manifest.jobs) \in Nat
  BY <1>1 DEF Inductive, RegisteredSoFar, Taken, Early
<1>4. Bad \notin ReportIds
  BY <1>2 DEF Right, RightRun
<1>5. ReportIds = KnownIds
  <2>1. ReportIds \subseteq KnownIds
    BY <1>2, <1>3 DEF Right, RightManifest, JobsAreTheRuns, JobsOf, KnownIds
  <2>2. KnownIds \subseteq ReportIds
    BY <1>2, <1>3 DEF Right, RightManifest, JobsAreTheRuns, KnownIds
  <2> QED
    BY <2>1, <2>2
<1>6. Cardinality(KnownIds) = Len(manifest.jobs)
  <2> DEFINE f == [i \in 1 .. Len(manifest.jobs) |-> manifest.jobs[i].id]
  <2>1. f \in Surjection(1 .. Len(manifest.jobs), KnownIds)
    BY <1>3 DEF Surjection, KnownIds
  <2>2. \A i, l \in 1 .. Len(manifest.jobs) : i # l => f[i] # f[l]
    BY <1>1, <1>3, RightJobs DEF JobsOf
  <2> HIDE DEF f
  <2> QED
    BY <1>3, <2>1, <2>2, DistinctCount
<1>7. ASSUME NEW i \in known PROVE differs(i) = {}
  <2>1. PICK r \in RunOfReport : /\ report.runs[r].id = manifest.jobs[i].id
                                 /\ Matches(manifest.jobs[i], report.runs[r])
    BY <1>1, <1>3, RightJobs
  <2>2. RunOf(manifest.jobs[i].id) = report.runs[r]
    BY <1>1, <1>2, <2>1, TheRunOfAnId
  <2>3. StatusErrors(manifest.jobs[i], report.runs[r]) = {}
    BY <2>1 DEF StatusErrors, Matches, Finding
  <2>4. SourceGradeErrors(manifest.jobs[i].grade, report.runs[r].grade) = {}
    <3>1. manifest.jobs[i].grade.kind # "garbled"
      BY <1>3 DEF Right, RightManifest
    <3> QED
      BY <2>1, <3>1 DEF SourceGradeErrors, Matches, Finding
  <2> QED
    BY <2>1, <2>2, <2>3, <2>4 DEF CompareErrors, Matches, Finding
<1>8. manifest.count \in {Absent, Cardinality(KnownIds)}
  BY <1>6 DEF Right, RightManifest
<1>9. UNION {differs(i) : i \in {i \in known : manifest.jobs[i].id \in ReportIds}} = {}
  BY <1>7
<1> HIDE DEF differs
<1>10. errors' = errors /\ pc' = "decide" /\ UNCHANGED outcome
  BY <1>4, <1>5, <1>8, <1>9 DEF Compare, Find, Goto, Finding, differs
<1> QED
  BY <1>10 DEF Live

\* A report that is right is walked without a finding to the end.
RightSoFar ==
    /\ pc \in {"job", "compare"} => Named
    /\ Right => /\ Live
                /\ pc = "done" => Clean

\* Every step keeps that.
LEMMA StepRight == Inductive /\ RightSoFar /\ [Next]_vars => RightSoFar'
<1> SUFFICES ASSUME Inductive, RightSoFar, [Next]_vars PROVE RightSoFar'
  OBVIOUS
<1>1. UNCHANGED input
  BY Forward
<1>2. Right' = Right
  BY <1>1 DEF input, Right, Named, RightFrame, SuiteNamesItsRuns, RightRun, RunsAreApart, RunOfReport,
              RightClaims, RightClaim, CellsAreApart, CellsAreAsMany, CellsOfRuns, Recount, Says, CellsCountTheirRuns,
              SummaryCountsTheRuns, RightManifest, JobsAreTheRuns, JobsOf, Matches
<1>3. (pc \in {"job", "compare"} => Named)'
  <2>1. pc' \in {"job", "compare"} => pc \in {"manifest", "job", "compare"}
    <3>1. TypeOK
      BY DEF Inductive
    <3>2. CASE pc \in {"open", "parse", "slot", "group", "cell", "close", "decide", "done"}
      BY <3>2, Walk DEF Open, EndLoop, ParseRun, SlotRun, GroupRun, TakeCell, Close, Decide,
                        Goto, After, OnWith, Raise, vars
    <3>3. CASE pc = "summary"
      BY <3>3, Walk DEF Summary, Goto, vars
    <3> QED
      BY <3>1, <3>2, <3>3 DEF TypeOK, Loops
  <2>2. pc = "manifest" /\ pc' \in {"job", "compare"} => Named
    BY Walk DEF OpenManifest, Goto, vars
  <2> QED
    BY <1>1, <2>1, <2>2 DEF RightSoFar, Named, input
<1> SUFFICES ASSUME Right
             PROVE  Live' /\ (pc = "done" => Clean)'
  BY <1>2, <1>3 DEF RightSoFar
<1>4. Live /\ TypeOK /\ RightFrame /\ SuiteNamesItsRuns
  BY DEF RightSoFar, Right, Inductive
<1> DEFINE goesOn == errors' = {} /\ pc' # "done" /\ UNCHANGED outcome
<1>5. goesOn => Live' /\ (pc = "done" => Clean)'
  BY <1>4 DEF Live
<1>6. CASE Open
  <2>1. /\ report.readable /\ report.frame /\ report.schema # Bad /\ report.grader # Bad
        /\ report.schema = "suite" => report.envelope /\ report.nested /\ manifest.path # "none"
    BY <1>4 DEF Right, Named, RightFrame, SuiteNamesItsRuns
  <2> QED
    BY <1>4, <1>5, <1>6, <2>1 DEF Open, Find, Goto, Finding, Live
<1>7. CASE EndLoop
  BY <1>4, <1>5, <1>7 DEF EndLoop, Goto, After, Loops, Live
<1>8. CASE ParseRun
  <2> DEFINE r == report.runs[k]
  <2>1. pc = "parse" /\ k \in RunOfReport /\ r \in Run /\ k \in Nat
    BY <1>4, <1>8, RunTypes DEF ParseRun, At, RunOfReport, TypeOK
  <2>2. RunErrors(r) = {}
    BY <1>4, <2>1, RightRunHasNone DEF Right
  <2>3. r.id \notin seen
    <3>1. Len(parsed) = k - 1 /\ seen = ReportIds /\ parsed \in Seq(Run)
          /\ \A i \in DOMAIN parsed : parsed[i] = report.runs[i]
      BY <1>4, <2>1 DEF Inductive, ParsedSoFar, Taken, TypeOK
    <3>2. \A i \in DOMAIN parsed : i \in RunOfReport /\ i # k
      <4>1. RunOfReport = 1 .. Len(report.runs) /\ Len(report.runs) \in Nat
        BY <1>4 DEF RunOfReport, TypeOK, Report
      <4> QED
        BY <2>1, <3>1, <4>1
    <3> QED
      BY <2>1, <3>1, <3>2 DEF ReportIds, Right, RunsAreApart
  <2> QED
    BY <1>4, <1>5, <1>8, <2>2, <2>3 DEF ParseRun, Find, OnWith, Finding, Live
<1>9. CASE SlotRun
  <2> DEFINE r == parsed[k]
  <2>1. /\ pc = "slot" /\ k \in DOMAIN parsed /\ r.cell \in Keys /\ k \in Nat
        /\ DOMAIN parsed = RunOfReport /\ \A i \in RunOfReport : parsed[i] = report.runs[i]
    BY <1>4, <1>9, RunTypes, AllParsed DEF SlotRun, At, Early, TypeOK
  <2>2. r.sample \notin slots[r.cell]
    <3>1. slots[r.cell] = {parsed[i].sample : i \in {i \in 1 .. k - 1 : parsed[i].cell = r.cell}}
      BY <1>4, <2>1 DEF Inductive, SlottedSoFar, Taken
    <3>2. \A i \in 1 .. k - 1 : i \in RunOfReport /\ i # k
      BY <1>4, <2>1 DEF TypeOK
    <3>3. \A i \in 1 .. k - 1 : parsed[i].cell # r.cell \/ parsed[i].sample # r.sample
      BY <2>1, <3>2 DEF Right, RunsAreApart
    <3> QED
      BY <3>1, <3>3
  <2> QED
    BY <1>4, <1>5, <1>9, <2>2 DEF SlotRun, Find, OnWith, Finding, Live
<1>10. CASE GroupRun
  <2>1. parsed[k].grade.kind # "garbled"
    <3>1. k \in DOMAIN parsed /\ parsed[k] = report.runs[k] /\ k \in RunOfReport
      BY <1>4, <1>10, RunTypes, AllParsed DEF GroupRun, At, Early
    <3> QED
      BY <3>1 DEF Right, RightRun
  <2> QED
    BY <1>4, <1>5, <1>10, <2>1 DEF GroupRun, OnWith, Live
<1>11. CASE Summary
  <2>1. pc = "summary"
    BY <1>11 DEF Summary
  <2>2. \A n \in Totals : report.summary[n] = Total(n)
    BY <1>4, <2>1, AllGrouped DEF Early, Right, SummaryCountsTheRuns, Totals
  <2>3. errors' = {} /\ pc' = "cell" /\ outcome' = outcome
    BY <1>4, <1>11, <2>2 DEF Summary, Find, Goto, Finding, Live
  <2> QED
    BY <1>5, <2>3
<1>12. CASE TakeCell
  BY <1>4, <1>5, <1>12, RightCell
<1>13. CASE Close
  BY <1>4, <1>5, <1>13, RightClose
<1>14. CASE OpenManifest
  <2>1. Named => manifest.readable /\ manifest.frame
    BY DEF Right, RightManifest
  <2> QED
    BY <1>4, <1>5, <1>14, <2>1 DEF OpenManifest, Named, Find, Goto, Finding, Live
<1>15. CASE TakeJob
  <2>1. Named
    BY <1>15 DEF TakeJob, At, RightSoFar
  <2> QED
    BY <1>4, <1>5, <1>15, <2>1, RightJob
<1>16. CASE Compare
  <2>1. Named
    BY <1>16 DEF Compare, RightSoFar
  <2> QED
    BY <1>4, <1>5, <1>16, <2>1, RightCompare
<1>17. CASE Decide
  BY <1>4, <1>17 DEF Decide, Result, Live, Clean
<1>18. CASE UNCHANGED vars
  BY <1>4, <1>18 DEF vars, Live, Clean, RightSoFar
<1> QED
  BY <1>6, <1>7, <1>8, <1>9, <1>10, <1>11, <1>12, <1>13, <1>14, <1>15, <1>16, <1>17, <1>18
     DEF Next, Ended

\* A report that is right, with a manifest that is right, passes (RightPasses).
THEOREM RightReportsPass == Spec => []RightPasses
<1>1. Init => RightSoFar
  BY DEF Init, RightSoFar, Live
<1>2. RightSoFar => RightPasses
  BY DEF RightSoFar, RightPasses
<1> QED
  BY <1>1, <1>2, StepRight, LoopsKeep, PTL DEF Spec

-----------------------------------------------------------------------------
\* What EveryGroupIsReported, which does not hold, leaves of the sentence at
\* report-lineage.py:17.

ClaimedCells == {report.cells[c].cell : c \in DOMAIN report.cells}

\* As many groups are left out as there are cells without a Run, and those count 0.
EmptyCellsDisplace ==
    /\ Cardinality(CellsOfRuns \ ClaimedCells) = Cardinality(ClaimedCells \ CellsOfRuns)
    /\ \A c \in DOMAIN report.cells : report.cells[c].cell \notin CellsOfRuns =>
         \A n \in Counts : report.cells[c].counts[n] = 0

LEMMA FiniteGroups == Inductive /\ Clean => IsFiniteSet(CellsOfRuns)
<1> SUFFICES ASSUME Inductive, Clean PROVE IsFiniteSet(CellsOfRuns)
  OBVIOUS
<1>1. Live /\ pc = "done"
  BY DEF Inductive, Clean, Live
<1>2. /\ TypeOK /\ GroupedSoFar /\ Taken("group", Len(parsed)) = Len(parsed)
      /\ Groups = CellsOfRuns
  BY <1>1, PassedReport, AllGrouped DEF Early, Loops
<1> QED
  BY <1>2, GroupsOfRuns

LEMMA Displacing == Inductive /\ Clean => EmptyCellsDisplace
<1> SUFFICES ASSUME Inductive, Clean PROVE EmptyCellsDisplace
  OBVIOUS
<1>1. CellsAreApart /\ CellsAreAsMany /\ CellsCountTheirRuns
  BY Faithful DEF PassIsFaithful
<1>2. report.cells \in Seq(Cell)
  BY DEF Inductive, TypeOK, Report
<1>3. IsFiniteSet(CellsOfRuns)
  BY FiniteGroups
<1>4. IsFiniteSet(ClaimedCells) /\ Cardinality(ClaimedCells) = Len(report.cells)
  <2> DEFINE f == [c \in 1 .. Len(report.cells) |-> report.cells[c].cell]
  <2>1. DOMAIN report.cells = 1 .. Len(report.cells) /\ Len(report.cells) \in Nat
    BY <1>2
  <2>2. f \in Surjection(1 .. Len(report.cells), ClaimedCells)
    BY <2>1 DEF Surjection, ClaimedCells
  <2>3. \A c, d \in 1 .. Len(report.cells) : c # d => f[c] # f[d]
    BY <1>1, <2>1 DEF CellsAreApart
  <2> HIDE DEF f
  <2> QED
    BY <2>1, <2>2, <2>3, DistinctCount
<1>5. Cardinality(CellsOfRuns \ ClaimedCells) = Cardinality(ClaimedCells \ CellsOfRuns)
  <2>1. Cardinality(CellsOfRuns) = Cardinality(ClaimedCells)
    BY <1>1, <1>4 DEF CellsAreAsMany
  <2>2. CellsOfRuns \cap ClaimedCells = ClaimedCells \cap CellsOfRuns
    OBVIOUS
  <2>3. /\ Cardinality(CellsOfRuns \ ClaimedCells)
             = Cardinality(CellsOfRuns) - Cardinality(CellsOfRuns \cap ClaimedCells)
        /\ Cardinality(ClaimedCells \ CellsOfRuns)
             = Cardinality(ClaimedCells) - Cardinality(ClaimedCells \cap CellsOfRuns)
    BY <1>3, <1>4, FS_Difference
  <2> QED
    BY <2>1, <2>2, <2>3
<1>6. ASSUME NEW c \in DOMAIN report.cells, report.cells[c].cell \notin CellsOfRuns, NEW n \in Counts
      PROVE  report.cells[c].counts[n] = 0
  <2>1. {i \in RunOfReport : report.runs[i].cell = report.cells[c].cell /\ Says(n, report.runs[i])} = {}
    BY <1>6 DEF CellsOfRuns
  <2>2. report.cells[c].counts[n] = Recount(report.cells[c].cell, n)
    BY <1>1 DEF CellsCountTheirRuns
  <2> QED
    BY <2>1, <2>2, FS_EmptySet DEF Recount
<1> QED
  BY <1>5, <1>6 DEF EmptyCellsDisplace

\* A report that passes leaves out exactly as many groups of Runs as it shows cells
\* without any Run, and such a cell counts nothing: that is all that the number
\* of cells lets through (report-lineage.py:474).
THEOREM PassesDisplaceOnlyByEmptyCells == Spec => [](Clean => EmptyCellsDisplace)
<1> QED
  BY LoopsKeep, Displacing, PTL

\* So a report that passes and shows only cells with Runs has a cell for each
\* group of Runs.
THEOREM CellsWithRunsAreAll ==
    Spec => [](Clean /\ ClaimedCells \subseteq CellsOfRuns
                 => \A r \in RunOfReport : \E c \in DOMAIN report.cells :
                        report.cells[c].cell = report.runs[r].cell)
<1>1. ASSUME Inductive, Clean, ClaimedCells \subseteq CellsOfRuns
      PROVE  CellsOfRuns \subseteq ClaimedCells
  <2>1. Cardinality(CellsOfRuns \ ClaimedCells) = Cardinality({})
    <3>1. ClaimedCells \ CellsOfRuns = {}
      BY <1>1
    <3> QED
      BY <1>1, <3>1, Displacing DEF EmptyCellsDisplace
  <2>2. IsFiniteSet(CellsOfRuns \ ClaimedCells)
    BY <1>1, FiniteGroups, FS_Difference
  <2> QED
    BY <2>1, <2>2, FS_EmptySet
<1>2. Inductive => (Clean /\ ClaimedCells \subseteq CellsOfRuns
                      => \A r \in RunOfReport : \E c \in DOMAIN report.cells :
                             report.cells[c].cell = report.runs[r].cell)
  BY <1>1 DEF CellsOfRuns, ClaimedCells
<1> QED
  BY <1>2, LoopsKeep, PTL
=============================================================================
