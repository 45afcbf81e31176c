--------------------------- MODULE GateRun_proofs ---------------------------
(***************************************************************************)
(* Proofs about GateRun, for every repository, registry and machine.       *)
(***************************************************************************)
EXTENDS GateRun, AuditProfile_proofs, CrapScore_proofs

(***************************************************************************)
(* Rows.                                                                   *)
(***************************************************************************)
\* A row that answers a gate: FAIL only where the gate blocks (or the run is
\* closed).
Fair(row, g, f, closed) ==
    /\ row \in Row
    /\ row.gate = g.id
    /\ row.result = "FAIL" => Blocks(g, f) \/ closed

LEMMA AdvisoryIsRow ==
    ASSUME NEW g \in Gate, NEW s \in Severities
    PROVE  LET a == Says(g, "ADVISORY", s)
           IN  a \in Row /\ a.gate = g.id /\ a.result = "ADVISORY"
               /\ a.severity = s /\ a.unmeasured = FALSE
<1>1. g.id \in GateIds /\ "ADVISORY" \in Results  BY DEF Gate, Results
<1> QED  BY <1>1 DEF Says, Row

LEMMA UnmeasuredIsRow ==
    ASSUME NEW g \in Gate, NEW r \in Results, NEW s \in Severities
    PROVE  LET u == [Says(g, r, s) EXCEPT !.unmeasured = TRUE]
           IN  /\ u \in Row /\ u.gate = g.id /\ u.result = r
               /\ u.severity = s /\ u.unmeasured = TRUE
<1>1. g.id \in GateIds  BY DEF Gate
<1> QED  BY <1>1 DEF Says, Row

\* The answers that rows are made of, and where fp-rate counts them.
LEMMA Answers ==
    ASSUME NEW g \in Gate
    PROVE  /\ Pass(g) \in Row /\ Pass(g).gate = g.id
           /\ Pass(g).result = "PASS" /\ Pass(g).unmeasured = FALSE
           /\ Fail(g) \in Row /\ Fail(g).gate = g.id
           /\ Fail(g).result = "FAIL" /\ Fail(g).unmeasured = FALSE
           /\ NotApplicable(g) \in Row /\ NotApplicable(g).gate = g.id
           /\ NotApplicable(g).result = "NOT_APPLICABLE" /\ NotApplicable(g).unmeasured = FALSE
           /\ Indeterminate(g) \in Row /\ Indeterminate(g).gate = g.id
           /\ Indeterminate(g).result = "ADVISORY" /\ Indeterminate(g).severity = "warn"
           /\ Indeterminate(g).unmeasured = TRUE
<1>1. /\ "PASS" \in Results /\ "FAIL" \in Results /\ "NOT_APPLICABLE" \in Results
      /\ "ADVISORY" \in Results /\ "none" \in Severities /\ "warn" \in Severities
      /\ g.id \in GateIds
  BY DEF Results, Severities, Gate
<1>2. Pass(g) \in Row /\ Pass(g).gate = g.id /\ Pass(g).result = "PASS" /\ Pass(g).unmeasured = FALSE
  <2>1. Pass(g) = [gate |-> g.id, result |-> "PASS", severity |-> "none", unmeasured |-> FALSE]
    BY DEF Pass, Says
  <2> QED  BY <1>1, <2>1 DEF Row
<1>3. Fail(g) \in Row /\ Fail(g).gate = g.id /\ Fail(g).result = "FAIL" /\ Fail(g).unmeasured = FALSE
  <2>1. Fail(g) = [gate |-> g.id, result |-> "FAIL", severity |-> "none", unmeasured |-> FALSE]
    BY DEF Fail, Says
  <2> QED  BY <1>1, <2>1 DEF Row
<1>4. /\ NotApplicable(g) \in Row /\ NotApplicable(g).gate = g.id
      /\ NotApplicable(g).result = "NOT_APPLICABLE" /\ NotApplicable(g).unmeasured = FALSE
  <2>1. NotApplicable(g) = [gate |-> g.id, result |-> "NOT_APPLICABLE", severity |-> "none", unmeasured |-> FALSE]
    BY DEF NotApplicable, Says
  <2> QED  BY <1>1, <2>1 DEF Row
<1>5. /\ Indeterminate(g) \in Row /\ Indeterminate(g).gate = g.id
      /\ Indeterminate(g).result = "ADVISORY" /\ Indeterminate(g).severity = "warn"
      /\ Indeterminate(g).unmeasured = TRUE
  BY <1>1, UnmeasuredIsRow DEF Indeterminate
<1> QED  BY <1>2, <1>3, <1>4, <1>5

LEMMA FairAnswers ==
    ASSUME NEW g \in Gate, NEW f, NEW closed
    PROVE  /\ Fair(Pass(g), g, f, closed)
           /\ Fair(NotApplicable(g), g, f, closed)
           /\ Fair(Indeterminate(g), g, f, closed)
BY Answers DEF Fair

LEMMA FairObjection ==
    ASSUME NEW g \in Gate, NEW f, NEW closed, NEW s \in Severities, NEW holds
    PROVE  /\ Fair(Objection(g, f, s), g, f, closed)
           /\ Fair(PassOr(g, f, holds, s), g, f, closed)
           /\ PassOr(g, f, holds, s).result = "PASS" => holds
<1>1. Says(g, "ADVISORY", s) \in Row /\ Says(g, "ADVISORY", s).gate = g.id
      /\ Says(g, "ADVISORY", s).result = "ADVISORY"
  BY AdvisoryIsRow
<1>2. Fair(Objection(g, f, s), g, f, closed) /\ Objection(g, f, s).result # "PASS"
  <2>1. CASE Blocks(g, f)
    BY <2>1, Answers DEF Objection, Fair
  <2>2. CASE ~Blocks(g, f)
    BY <1>1, <2>2 DEF Objection, Fair, Blocks
  <2> QED  BY <2>1, <2>2
<1>3. CASE holds  BY <1>2, <1>3, FairAnswers DEF PassOr
<1>4. CASE ~holds  BY <1>2, <1>4 DEF PassOr
<1> QED  BY <1>2, <1>3, <1>4

\* An objection of severity error is a flag to fp-rate.
LEMMA ErrorsAreFlags ==
    ASSUME NEW g \in Gate, NEW f, NEW holds
    PROVE  PassOr(g, f, holds, "error").unmeasured = FALSE /\ Bucket(PassOr(g, f, holds, "error")) # "skip"
<1> DEFINE row == PassOr(g, f, holds, "error")
<1>1. row = Pass(g) \/ row = Fail(g) \/ row = Says(g, "ADVISORY", "error")
  BY DEF PassOr, Objection
<1>2. /\ Says(g, "ADVISORY", "error").unmeasured = FALSE
      /\ Says(g, "ADVISORY", "error").severity = "error"
      /\ Says(g, "ADVISORY", "error").result = "ADVISORY"
  BY AdvisoryIsRow DEF Severities
<1> HIDE DEF row
<1>3. row.unmeasured = FALSE /\ (row.result \in {"PASS", "FAIL"} \/ row.severity = "error")
  BY <1>1, <1>2, Answers
<1>4. Bucket(row) # "skip"
  BY <1>3 DEF Bucket
<1> QED  BY <1>3, <1>4 DEF row

LEMMA AuditRowIsFair ==
    ASSUME NEW g \in Gate, NEW f \in Flags, NEW w
    PROVE  /\ Fair(AuditRow(g, f, w), g, f, FALSE)
           /\ g.suffix = "crap-score" /\ f.deep /\ AuditRow(g, f, w).result = "PASS"
              => w.crapRuns /\ CrapExit(w.tree) = 0
<1>1. /\ "error" \in Severities /\ "warn" \in Severities /\ "info" \in Severities
      /\ "ADVISORY" \in Results
  BY DEF Severities, Results
<1>2. /\ Fair(CrapRow(g, f, w), g, f, FALSE)
      /\ CrapRow(g, f, w).result = "PASS" => w.crapRuns /\ CrapExit(w.tree) = 0
  <2>1. CASE ~w.crapRuns  BY <2>1, FairAnswers, Answers DEF CrapRow
  <2>2. CASE w.crapRuns  BY <1>1, <2>2, FairObjection DEF CrapRow
  <2> QED  BY <2>1, <2>2
<1>3. Fair(PresenceRow(g, f, w), g, f, FALSE)
  BY <1>1, FairObjection DEF PresenceRow
<1>4. Fair(Says(g, "ADVISORY", "info"), g, f, FALSE)
  BY <1>1, AdvisoryIsRow DEF Fair
<1>5. Fair([Says(g, "ADVISORY", "info") EXCEPT !.unmeasured = TRUE], g, f, FALSE)
  BY <1>1, UnmeasuredIsRow DEF Fair
<1>6. CASE g.suffix = "crap-score" /\ f.deep  BY <1>2, <1>6 DEF AuditRow
<1>7. CASE g.suffix = "crap-score" /\ ~f.deep  BY <1>4, <1>7 DEF AuditRow
<1>8. CASE g.suffix # "crap-score" /\ g.suffix \in Layers  BY <1>3, <1>8 DEF AuditRow
<1>9. CASE g.suffix # "crap-score" /\ g.suffix \notin Layers  BY <1>5, <1>9 DEF AuditRow
<1> QED  BY <1>6, <1>7, <1>8, <1>9

\* What the row of the dependency scan says, and when it does not fail.
LEMMA OsvRowIsClosed ==
    ASSUME NEW g \in Gate, NEW f \in Flags, NEW w \in World
    PROVE  /\ Fair(OsvRow(g, f, w), g, f, f.failClosed)
           /\ f.failClosed /\ OsvRow(g, f, w).result # "FAIL" =>
                \/ ~w.osv.inputs /\ ~w.osv.declared
                \/ w.osv.inputs /\ ~Unscanned(w.osv) /\ Blocking(w.osv, f) = {}
<1> DEFINE o == w.osv
<1>1. /\ "error" \in Severities /\ "warn" \in Severities /\ "none" \in Severities
      /\ "ADVISORY" \in Results /\ "FAIL" \in Results
  BY DEF Severities, Results
<1>2. /\ Fair(Operational(g, f), g, f, f.failClosed)
      /\ f.failClosed => Operational(g, f).result = "FAIL"
  <2>1. CASE f.failClosed
    <3>1. Operational(g, f) = [Says(g, "FAIL", "none") EXCEPT !.unmeasured = TRUE]
      BY <2>1 DEF Operational, Fail
    <3> QED  BY <1>1, <2>1, <3>1, UnmeasuredIsRow DEF Fair
  <2>2. CASE ~f.failClosed
    BY <2>2, FairAnswers DEF Operational
  <2> QED  BY <2>1, <2>2
<1>3. /\ Fair(FindingsRow(g, f, o), g, f, f.failClosed)
      /\ f.failClosed /\ FindingsRow(g, f, o).result # "FAIL" => Blocking(o, f) = {}
  <2>1. CASE Blocks(g, f) \/ (f.failClosed /\ Blocking(o, f) # {})
    <3>1. FindingsRow(g, f, o) = Fail(g)  BY <2>1 DEF FindingsRow
    <3> QED  BY <2>1, <3>1, Answers DEF Fair
  <2>2. CASE ~(Blocks(g, f) \/ (f.failClosed /\ Blocking(o, f) # {}))
    <3>1. PICK s \in Severities : FindingsRow(g, f, o) = Says(g, "ADVISORY", s)
      BY <1>1, <2>2 DEF FindingsRow
    <3>2. LET r == Says(g, "ADVISORY", s)
          IN  r \in Row /\ r.gate = g.id /\ r.result = "ADVISORY"
      BY AdvisoryIsRow
    <3> DEFINE row == FindingsRow(g, f, o)
    <3>3. row \in Row /\ row.gate = g.id /\ row.result = "ADVISORY"
      <4> HIDE DEF row
      <4>1. row = Says(g, "ADVISORY", s)  BY <3>1 DEF row
      <4> QED  BY <3>2, <4>1
    <3> HIDE DEF row
    <3>4. Fair(row, g, f, f.failClosed)  BY <3>3 DEF Fair
    <3>5. f.failClosed => Blocking(o, f) = {}  BY <2>2
    <3> QED  BY <3>4, <3>5 DEF row
  <2> QED  BY <2>1, <2>2
<1>4. Read(o) = {} => Blocking(o, f) = {}  BY DEF Blocking
<1>5. o \in Osv  BY DEF World
<1>6. o.inputs \in BOOLEAN /\ o.declared \in BOOLEAN  BY <1>5 DEF Osv
<1>7. CASE ~o.inputs /\ ~o.declared  BY <1>7, FairAnswers DEF OsvRow
<1>8. CASE ~o.inputs /\ o.declared  BY <1>2, <1>8 DEF OsvRow
<1>9. CASE o.inputs /\ Unscanned(o)  BY <1>2, <1>9 DEF OsvRow
<1>10. CASE o.inputs /\ ~Unscanned(o) /\ Read(o) = {}
  BY <1>4, <1>10, FairAnswers DEF OsvRow
<1>11. CASE o.inputs /\ ~Unscanned(o) /\ Read(o) # {}
  BY <1>3, <1>11 DEF OsvRow
<1> QED  BY <1>6, <1>7, <1>8, <1>9, <1>10, <1>11

LEMMA ScanRowIsFair ==
    ASSUME NEW g \in Gate, NEW f \in Flags, NEW w \in World
    PROVE  Fair(ScanRow(g, f, w), g, f,
                g.suffix # "hygiene-readme" /\ g.tool = "osv-scanner" /\ f.failClosed)
<1> DEFINE c == g.suffix # "hygiene-readme" /\ g.tool = "osv-scanner" /\ f.failClosed
<1>1. "error" \in Severities /\ "warn" \in Severities  BY DEF Severities
<1>2. Fair(ReadmeRow(g, f, w), g, f, c)  BY <1>1, FairObjection DEF ReadmeRow
<1>3. Fair(JRigRow(g, f, w), g, f, c)
  BY <1>1, FairObjection, FairAnswers DEF JRigRow
<1>4. Fair(ToolRow(g, f, w), g, f, c)
  BY <1>1, FairObjection, FairAnswers DEF ToolRow
<1>5. g.suffix # "hygiene-readme" /\ g.tool = "osv-scanner" => Fair(OsvRow(g, f, w), g, f, c)
  BY OsvRowIsClosed DEF Fair
<1>6. Fair(Indeterminate(g), g, f, c)  BY FairAnswers
<1>7. CASE g.suffix = "hygiene-readme"
  <2>1. ScanRow(g, f, w) = ReadmeRow(g, f, w)  BY <1>7 DEF ScanRow
  <2> QED  BY <1>2, <2>1 DEF Fair
<1>8. CASE g.suffix # "hygiene-readme" /\ g.tool = "osv-scanner"
  <2>1. ScanRow(g, f, w) = OsvRow(g, f, w)  BY <1>8 DEF ScanRow
  <2> QED  BY <1>5, <1>8, <2>1 DEF Fair
<1>9. CASE g.suffix # "hygiene-readme" /\ g.tool # "osv-scanner"
  <2>1. \/ ScanRow(g, f, w) = JRigRow(g, f, w)
        \/ ScanRow(g, f, w) = Indeterminate(g)
        \/ ScanRow(g, f, w) = ToolRow(g, f, w)
    BY <1>9 DEF ScanRow
  <2> QED  BY <1>3, <1>4, <1>6, <2>1 DEF Fair
<1> QED  BY <1>7, <1>8, <1>9

LEMMA ConformRowsAreFair ==
    ASSUME NEW g \in Gate, NEW f \in Flags, NEW w \in World
    PROVE  /\ ConformRows(g, f, w) \in Seq(Row)
           /\ \A j \in DOMAIN ConformRows(g, f, w) :
                  /\ Fair(ConformRows(g, f, w)[j], g, f, FALSE)
                  /\ (Bucket(ConformRows(g, f, w)[j]) = "skip")
                        <=> ConformRows(g, f, w)[j].unmeasured = TRUE
<1> DEFINE files == w.artifacts[g.suffix]
<1> DEFINE Good(row) == /\ Fair(row, g, f, FALSE)
                        /\ (Bucket(row) = "skip") <=> row.unmeasured = TRUE
<1>1. files \in Seq(Artifact)
  BY DEF World, Gate
<1>2. Good(NotApplicable(g)) /\ Good(Indeterminate(g))
  BY FairAnswers, Answers DEF Bucket
<1>3. \A holds : Good(PassOr(g, f, holds, "error"))
  <2>1. "error" \in Severities  BY DEF Severities
  <2> TAKE holds
  <2>2. Fair(PassOr(g, f, holds, "error"), g, f, FALSE)  BY <2>1, FairObjection
  <2>3. PassOr(g, f, holds, "error").unmeasured = FALSE /\ Bucket(PassOr(g, f, holds, "error")) # "skip"
    BY ErrorsAreFlags
  <2> QED  BY <2>2, <2>3
<1> HIDE DEF Good
<1>4. \A a : Good(BundledRow(g, f, w, a))
  BY <1>2, <1>3 DEF BundledRow
<1>5. \A a : Good(LinterRow(g, f, a))
  BY <1>2, <1>3 DEF LinterRow
<1>6. \A row : Good(row) => row \in Row  BY DEF Good, Fair
<1>7. DOMAIN files = 1 .. Len(files) /\ Len(files) \in Nat  BY <1>1
<1> DEFINE rs == ConformRows(g, f, w)
<1>8. \/ rs = <<NotApplicable(g)>>
      \/ rs = [i \in DOMAIN files |-> BundledRow(g, f, w, files[i])]
      \/ rs = [i \in DOMAIN files |-> LinterRow(g, f, files[i])]
      \/ rs = <<Indeterminate(g)>>
  BY DEF ConformRows
<1> HIDE DEF files, rs
<1>9. CASE rs = <<NotApplicable(g)>> \/ rs = <<Indeterminate(g)>>
  <2>1. PICK row : rs = <<row>> /\ Good(row)  BY <1>2, <1>9
  <2>2. rs \in Seq(Row)  BY <1>6, <2>1
  <2>3. DOMAIN rs = {1} /\ rs[1] = row  BY <2>1
  <2> QED  BY <2>1, <2>2, <2>3 DEF rs, Good
<1>10. CASE rs = [i \in DOMAIN files |-> BundledRow(g, f, w, files[i])]
            \/ rs = [i \in DOMAIN files |-> LinterRow(g, f, files[i])]
  <2>1. DOMAIN rs = 1 .. Len(files) /\ \A i \in DOMAIN rs : Good(rs[i])
    BY <1>4, <1>5, <1>7, <1>10
  <2>2. rs \in Seq(Row)
    <3>1. rs \in [1 .. Len(files) -> Row]
      BY <1>6, <1>10, <1>7, <2>1
    <3> QED  BY <1>7, <3>1
  <2> QED  BY <2>1, <2>2 DEF rs, Good
<1> QED  BY <1>8, <1>9, <1>10

LEMMA RowsOfAreFair ==
    ASSUME job \in Job, NEW g \in Gate
    PROVE  /\ RowsOf(g) \in Seq(Row)
           /\ \A j \in DOMAIN RowsOf(g) :
                  /\ Fair(RowsOf(g)[j], g, job.flags, IsOsv(g) /\ job.flags.failClosed)
                  /\ Program = "conform" =>
                         ((Bucket(RowsOf(g)[j]) = "skip") <=> RowsOf(g)[j].unmeasured = TRUE)
<1> DEFINE f == job.flags
<1> DEFINE w == job.world
<1> DEFINE c == IsOsv(g) /\ f.failClosed
<1>1. f \in Flags /\ w \in World  BY DEF Job
<1>2. Program \in {"audit", "scan", "conform"}  BY <1>1 DEF Program, Flags
<1>3. CASE Program = "audit"
  <2> DEFINE r == AuditRow(g, f, w)
  <2>1. RowsOf(g) = <<r>>  BY <1>3 DEF RowsOf
  <2>2. Fair(r, g, f, FALSE)  BY <1>1, AuditRowIsFair
  <2> HIDE DEF r
  <2>3. r \in Row /\ Fair(r, g, f, c)  BY <2>2 DEF Fair
  <2>4. RowsOf(g) \in Seq(Row) /\ DOMAIN RowsOf(g) = {1} /\ RowsOf(g)[1] = r
    BY <2>1, <2>3
  <2> QED  BY <1>3, <2>3, <2>4
<1>4. CASE Program = "scan"
  <2> DEFINE r == ScanRow(g, f, w)
  <2>1. RowsOf(g) = <<r>>  BY <1>4 DEF RowsOf
  <2>2. Fair(r, g, f, g.suffix # "hygiene-readme" /\ g.tool = "osv-scanner" /\ f.failClosed)
    BY <1>1, ScanRowIsFair
  <2> HIDE DEF r
  <2>3. r \in Row /\ Fair(r, g, f, c)  BY <1>4, <2>2 DEF Fair, IsOsv
  <2>4. RowsOf(g) \in Seq(Row) /\ DOMAIN RowsOf(g) = {1} /\ RowsOf(g)[1] = r
    BY <2>1, <2>3
  <2> QED  BY <1>4, <2>3, <2>4
<1>5. CASE Program = "conform"
  <2> DEFINE rs == ConformRows(g, f, w)
  <2>1. RowsOf(g) = rs  BY <1>5 DEF RowsOf
  <2>2. /\ rs \in Seq(Row)
        /\ \A j \in DOMAIN rs : /\ Fair(rs[j], g, f, FALSE)
                                /\ (Bucket(rs[j]) = "skip") <=> rs[j].unmeasured = TRUE
    BY <1>1, ConformRowsAreFair
  <2> HIDE DEF rs
  <2>3. ASSUME NEW j \in DOMAIN rs
        PROVE  /\ Fair(rs[j], g, f, c)
               /\ (Bucket(rs[j]) = "skip") <=> rs[j].unmeasured = TRUE
    <3>1. Fair(rs[j], g, f, FALSE) /\ ((Bucket(rs[j]) = "skip") <=> rs[j].unmeasured = TRUE)
      BY <2>2
    <3>2. Fair(rs[j], g, f, c)  BY <3>1 DEF Fair
    <3> QED  BY <3>1, <3>2
  <2>4. RowsOf(g) \in Seq(Row)  BY <2>1, <2>2
  <2>5. \A j \in DOMAIN RowsOf(g) :
            /\ Fair(RowsOf(g)[j], g, f, c)
            /\ (Bucket(RowsOf(g)[j]) = "skip") <=> RowsOf(g)[j].unmeasured = TRUE
    BY <2>1, <2>3, Zenon
  <2> QED  BY <2>4, <2>5
<1> QED  BY <1>2, <1>3, <1>4, <1>5

(***************************************************************************)
(* The run.                                                                *)
(***************************************************************************)
LEMMA OwnIsPlaced == Own \subseteq DOMAIN gates
BY DEF Own

LEMMA InitKeeps == Init => TypeOK /\ LoopsKeep
<1> SUFFICES ASSUME Init PROVE TypeOK /\ LoopsKeep  OBVIOUS
<1>1. disk \in Disk /\ job \in Job
  BY FamilyAssumption DEF Init
<1>2. DOMAIN gates = {} /\ DOMAIN rows = {} /\ DOMAIN byId = {}
  BY DEF Init, ProfileInit
<1>3. ProfileTypeOK /\ MergedSoFar
  BY <1>1, <1>2 DEF Init, ProfileInit, ProfileTypeOK, MergedSoFar
<1>4. TypeOK
  BY <1>1, <1>2, <1>3 DEF Init, TypeOK
<1>5. RowsAnswer
  BY <1>2 DEF Init, ProfileInit, RowsAnswer
<1> QED  BY <1>3, <1>4, <1>5 DEF LoopsKeep

\* Before there is a profile there are no rows.
LEMMA NoRowsBefore ==
    ASSUME TypeOK, LoopsKeep, phase \in {"start", "profile"}
    PROVE  DOMAIN gates = {} /\ DOMAIN rows = {}
BY OwnIsPlaced DEF TypeOK, LoopsKeep, RowsAnswer

LEMMA PinnedKeeps ==
    ASSUME TypeOK, LoopsKeep, Pinned
    PROVE  TypeOK' /\ LoopsKeep'
<1>1. /\ phase = "start" /\ job.pinned = "good" /\ gates' = job.gates /\ phase' = "assess"
      /\ UNCHANGED <<profileVars, job, rows, left>>
  BY DEF Pinned
<1>2. DOMAIN rows = {}  BY <1>1, NoRowsBefore
<1>3. job.gates \in Seq(Gate)  BY DEF TypeOK, Job
<1>4. DOMAIN gates' \subseteq Nat /\ \A i \in DOMAIN gates' : gates'[i] \in Gate
  BY <1>1, <1>3
<1>5. ProfileTypeOK' /\ MergedSoFar'
  BY <1>1, ProfileStutters DEF TypeOK, LoopsKeep
<1>6. TypeOK'
  BY <1>1, <1>2, <1>4, <1>5 DEF TypeOK
<1>7. RowsAnswer'
  BY <1>1, <1>2 DEF RowsAnswer
<1> QED  BY <1>5, <1>6, <1>7 DEF LoopsKeep

LEMMA TakeProfileKeeps ==
    ASSUME TypeOK, LoopsKeep, TakeProfile
    PROVE  TypeOK' /\ LoopsKeep'
<1>1. /\ phase = "profile" /\ stage = "printed" /\ gates' = Profile /\ phase' = "assess"
      /\ UNCHANGED <<profileVars, job, rows, left>>
  BY DEF TakeProfile
<1>2. DOMAIN rows = {}  BY <1>1, NoRowsBefore
<1>3. DOMAIN Profile \subseteq Nat /\ \A i \in DOMAIN Profile : Profile[i] \in Gate
  <2>1. DOMAIN Profile = DOMAIN byId
        /\ \A id \in DOMAIN byId : Profile[id] = Settled(byId[id], disk, found)
    BY DEF Profile
  <2>2. DOMAIN byId \subseteq GateIds /\ \A id \in DOMAIN byId : byId[id] \in Gate
    BY DEF TypeOK, ProfileTypeOK
  <2>3. GateIds \subseteq Nat  BY CountAssumption DEF GateIds
  <2>4. \A id \in DOMAIN byId : Settled(byId[id], disk, found) \in Gate
    BY <2>2, SettledKeeps
  <2> QED  BY <2>1, <2>2, <2>3, <2>4
<1>4. ProfileTypeOK' /\ MergedSoFar'
  BY <1>1, ProfileStutters DEF TypeOK, LoopsKeep
<1>5. TypeOK'
  BY <1>1, <1>2, <1>3, <1>4 DEF TypeOK
<1>6. Profile' = Profile
  BY <1>1, ProfileStutters DEF TypeOK, LoopsKeep
<1>7. RowsAnswer'
  <2>1. job.pinned = "none"  BY <1>1 DEF LoopsKeep, RowsAnswer
  <2>2. stage' = "printed" /\ job' = job /\ rows' = rows  BY <1>1 DEF profileVars
  <2> QED  BY <1>1, <1>2, <1>6, <2>1, <2>2 DEF RowsAnswer
<1> QED  BY <1>4, <1>5, <1>7 DEF LoopsKeep

LEMMA ChildKeeps ==
    ASSUME TypeOK, LoopsKeep, Child
    PROVE  TypeOK' /\ LoopsKeep'
<1>1. phase = "profile" /\ Classify /\ UNCHANGED <<job, phase, gates, rows, left>>
  BY DEF Child, runVars
<1>2. ProfileTypeOK' /\ MergedSoFar'
  BY <1>1, ClassifyKeeps DEF TypeOK, LoopsKeep
<1>3. DOMAIN gates = {} /\ DOMAIN rows = {}
  BY <1>1, NoRowsBefore
<1>4. TypeOK'
  BY <1>1, <1>2, <1>3 DEF TypeOK
<1>5. RowsAnswer'
  BY <1>1, <1>3 DEF LoopsKeep, RowsAnswer
<1> QED  BY <1>2, <1>4, <1>5 DEF LoopsKeep

LEMMA SpawnKeeps ==
    ASSUME TypeOK, LoopsKeep, Spawn
    PROVE  TypeOK' /\ LoopsKeep'
<1>1. /\ phase = "start" /\ job.pinned = "none" /\ stage' = "read" /\ phase' = "profile"
      /\ UNCHANGED <<disk, found, list, pos, byId, job, gates, rows, left>>
  BY DEF Spawn
<1>2. DOMAIN gates = {} /\ DOMAIN rows = {}
  BY <1>1, NoRowsBefore
<1>3. stage = "idle"  BY <1>1 DEF LoopsKeep, RowsAnswer
<1>4. ProfileTypeOK'  BY <1>1 DEF TypeOK, ProfileTypeOK
<1>5. MergedSoFar'  BY <1>1, <1>3 DEF LoopsKeep, MergedSoFar
<1>6. TypeOK'
  BY <1>1, <1>2, <1>4 DEF TypeOK
<1>7. RowsAnswer'
  BY <1>1, <1>2 DEF RowsAnswer
<1> QED  BY <1>5, <1>6, <1>7 DEF LoopsKeep

\* A step that assesses nothing and leaves the profile alone.
LEMMA MoveKeeps ==
    ASSUME TypeOK, LoopsKeep, UNCHANGED <<profileVars, job, gates, rows, left>>,
           \/ phase' = phase
           \/ phase' \in {"killed", "failed", "traceback"}
           \/ phase' = "printed" /\ Waiting = {}
    PROVE  TypeOK' /\ LoopsKeep'
<1>1. ProfileTypeOK' /\ MergedSoFar' /\ Profile' = Profile
  BY ProfileStutters DEF TypeOK, LoopsKeep
<1>2. stage' = stage  BY DEF profileVars
<1>3. Own' = Own /\ Waiting' = Waiting  BY DEF Own, Waiting, Program
<1>4. TypeOK'
  BY <1>1, <1>3 DEF TypeOK
<1>5. \A i \in DOMAIN rows : RowsOf(gates[i])' = RowsOf(gates[i])
  BY DEF RowsOf, Program
<1>6. RowsAnswer'
  BY <1>1, <1>2, <1>3, <1>5 DEF LoopsKeep, RowsAnswer
<1> QED  BY <1>1, <1>4, <1>6 DEF LoopsKeep

LEMMA LeavesAreNamed ==
    ASSUME NEW g, NEW x \in LeftBy(g)
    PROVE  x \subseteq {"reports", "coverage report", "suite run"}
<1>1. Leaves(job.world.tree) \subseteq {"reports", "coverage report", "suite run"}
  BY DEF Leaves
<1>2. x \subseteq Leaves(job.world.tree)
  <2>1. CASE ~IsCrap(g)  BY <2>1 DEF LeftBy
  <2>2. CASE IsCrap(g) /\ job.world.crapRuns  BY <2>2 DEF LeftBy
  <2>3. CASE IsCrap(g) /\ ~job.world.crapRuns  BY <2>3 DEF LeftBy
  <2> QED  BY <2>1, <2>2, <2>3
<1> QED  BY <1>1, <1>2

LEMMA AssessKeeps ==
    ASSUME TypeOK, LoopsKeep, NEW i \in DOMAIN gates, Assess(i)
    PROVE  TypeOK' /\ LoopsKeep'
<1>1. /\ phase = "assess" /\ i \in Waiting
      /\ rows' = [n \in DOMAIN rows \cup {i} |-> IF n = i THEN RowsOf(gates[i]) ELSE rows[n]]
      /\ \E x \in LeftBy(gates[i]) : left' = left \cup x
      /\ UNCHANGED <<profileVars, job, phase, gates>>
  BY DEF Assess, First
<1>2. ProfileTypeOK' /\ MergedSoFar' /\ Profile' = Profile /\ stage' = stage
  BY <1>1, ProfileStutters DEF TypeOK, LoopsKeep, profileVars
<1>3. i \in Own /\ Own' = Own
  BY <1>1 DEF Waiting, Own, Program
<1>4. gates[i] \in Gate /\ job \in Job  BY DEF TypeOK
<1>5. RowsOf(gates[i]) \in Seq(Row)  BY <1>4, RowsOfAreFair
<1>6. left' \subseteq {"reports", "coverage report", "suite run"}
  BY <1>1, LeavesAreNamed DEF TypeOK
<1>7. DOMAIN rows' = DOMAIN rows \cup {i}
      /\ \A n \in DOMAIN rows' : rows'[n] = IF n = i THEN RowsOf(gates[i]) ELSE rows[n]
  BY <1>1
<1>8. TypeOK'
  BY <1>1, <1>2, <1>3, <1>5, <1>6, <1>7 DEF TypeOK
<1>9. \A n \in DOMAIN rows' : rows'[n] = RowsOf(gates[n])
  BY <1>7 DEF LoopsKeep, RowsAnswer
<1>10. \A n : RowsOf(gates[n])' = RowsOf(gates[n])
  BY <1>1 DEF RowsOf, Program
<1>11. RowsAnswer'
  BY <1>1, <1>2, <1>9, <1>10 DEF LoopsKeep, RowsAnswer
<1> QED  BY <1>2, <1>8, <1>11 DEF LoopsKeep

LEMMA StepKeeps == TypeOK /\ LoopsKeep /\ [Next]_vars => TypeOK' /\ LoopsKeep'
<1> SUFFICES ASSUME TypeOK, LoopsKeep, [Next]_vars PROVE TypeOK' /\ LoopsKeep'
  OBVIOUS
<1>1. CASE Skip  BY <1>1, MoveKeeps DEF Skip
<1>2. CASE Pinned  BY <1>2, PinnedKeeps
<1>3. CASE NoProfile  BY <1>3, MoveKeeps DEF NoProfile
<1>4. CASE Spawn  BY <1>4, SpawnKeeps
<1>5. CASE Child  BY <1>5, ChildKeeps
<1>6. CASE TakeProfile  BY <1>6, TakeProfileKeeps
<1>7. CASE ChildFailed  BY <1>7, MoveKeeps DEF ChildFailed
<1>8. CASE \E i \in DOMAIN gates : Assess(i) \/ Break(i)
  <2>1. PICK i \in DOMAIN gates : Assess(i) \/ Break(i)  BY <1>8
  <2>2. CASE Assess(i)  BY <2>2, AssessKeeps
  <2>3. CASE Break(i)  BY <2>3, MoveKeeps DEF Break
  <2> QED  BY <2>1, <2>2, <2>3
<1>9. CASE Finish  BY <1>9, MoveKeeps DEF Finish
<1>10. CASE UNCHANGED vars  BY <1>10, MoveKeeps DEF vars, runVars
<1>11. CASE Ended  BY <1>10, <1>11 DEF Ended
<1> QED  BY <1>1, <1>2, <1>3, <1>4, <1>5, <1>6, <1>7, <1>8, <1>9, <1>10, <1>11 DEF Next

LEMMA AlwaysKept == Spec => [](TypeOK /\ LoopsKeep)
BY InitKeeps, StepKeeps, PTL DEF Spec

(***************************************************************************)
(* The theorems.                                                           *)
(***************************************************************************)
\* The rows of a gate that has been assessed answer it fairly.
LEMMA RowsAreFair ==
    ASSUME TypeOK, LoopsKeep, NEW i \in DOMAIN rows
    PROVE  /\ i \in Own /\ gates[i] \in Gate /\ job \in Job
           /\ rows[i] = RowsOf(gates[i]) /\ rows[i] \in Seq(Row)
           /\ \A j \in DOMAIN rows[i] :
                  /\ Fair(rows[i][j], gates[i], job.flags, IsOsv(gates[i]) /\ job.flags.failClosed)
                  /\ Program = "conform" =>
                         ((Bucket(rows[i][j]) = "skip") <=> rows[i][j].unmeasured = TRUE)
<1>1. i \in Own /\ job \in Job /\ rows[i] = RowsOf(gates[i])
  BY DEF TypeOK, LoopsKeep, RowsAnswer
<1>2. gates[i] \in Gate
  BY <1>1, OwnIsPlaced DEF TypeOK
<1> QED  BY <1>1, <1>2, RowsOfAreFair

\* A gate of a computed profile blocks only if a list has it so and nothing turns
\* it down.
LEMMA BlockingIsOrdered ==
    ASSUME TypeOK, LoopsKeep, job.pinned = "none",
           NEW i \in DOMAIN gates, gates[i].enforcement = "blocking"
    PROVE  /\ \E m \in DOMAIN Lists(disk, found) : \E n \in DOMAIN Lists(disk, found)[m] :
                  LET g == Lists(disk, found)[m][n]
                  IN  g.id = gates[i].id /\ g.enforcement = "blocking"
           /\ gates[i].id \notin Overrides(disk).advisory \cup Overrides(disk).disabled
           /\ gates[i].id \notin disk.advisory
<1> DEFINE ls == Lists(disk, found)
<1>1. stage = "printed" /\ gates = Profile
  BY DEF LoopsKeep, RowsAnswer
<1>2. i \in DOMAIN byId /\ gates[i] = Settled(byId[i], disk, found)
  BY <1>1 DEF Profile
<1>3. byId[i] \in Gate  BY <1>2 DEF TypeOK, ProfileTypeOK
<1>4. PICK m \in DOMAIN ls : \E n \in DOMAIN ls[m] : ls[m][n] = byId[i]
  BY <1>1, <1>2 DEF LoopsKeep, MergedSoFar
<1>5. PICK n \in DOMAIN ls[m] : ls[m][n] = byId[i]
  BY <1>4
<1>6. /\ gates[i].id = byId[i].id /\ byId[i].enforcement = "blocking"
      /\ byId[i].id \notin Overrides(disk).advisory \cup Overrides(disk).disabled
      /\ byId[i].id \notin disk.advisory
  BY <1>2, <1>3, SettledKeeps
<1> QED  BY <1>4, <1>5, <1>6

LEMMA OrdersAreKept == TypeOK /\ LoopsKeep => FailIsOrdered
<1> SUFFICES ASSUME TypeOK, LoopsKeep, NEW i \in DOMAIN rows, NEW j \in DOMAIN rows[i],
                    rows[i][j].result = "FAIL", job.pinned = "none", ~job.flags.strict,
                    ~(IsOsv(gates[i]) /\ job.flags.failClosed)
             PROVE  /\ \E m \in DOMAIN Lists(disk, found) : \E n \in DOMAIN Lists(disk, found)[m] :
                           LET g == Lists(disk, found)[m][n]
                           IN  g.id = rows[i][j].gate /\ g.enforcement = "blocking"
                    /\ rows[i][j].gate \notin Overrides(disk).advisory \cup Overrides(disk).disabled
                    /\ rows[i][j].gate \notin disk.advisory
  BY DEF FailIsOrdered
<1>1. i \in DOMAIN gates  BY RowsAreFair, OwnIsPlaced
<1>2. rows[i][j].gate = gates[i].id /\ Blocks(gates[i], job.flags)
  BY RowsAreFair DEF Fair
<1>3. gates[i].enforcement = "blocking"  BY <1>2 DEF Blocks
<1> QED  BY <1>1, <1>2, <1>3, BlockingIsOrdered

\* When the run exits 0 with its rows printed, none of them is a FAIL.
LEMMA ZeroIsNoFail ==
    ASSUME TypeOK, LoopsKeep, phase = "printed", Exit = 0
    PROVE  /\ Own \subseteq DOMAIN rows
           /\ \A i \in DOMAIN rows : \A j \in DOMAIN rows[i] : rows[i][j].result # "FAIL"
<1>1. ~Objects  BY DEF Exit
<1>2. Waiting = {}  BY DEF LoopsKeep, RowsAnswer
<1> QED  BY <1>1, <1>2 DEF Objects, Waiting

LEMMA SkipsAreKept == TypeOK /\ LoopsKeep => SkippedIsUnmeasured
<1> SUFFICES ASSUME TypeOK, LoopsKeep, Program = "conform",
                    NEW i \in DOMAIN rows, NEW j \in DOMAIN rows[i]
             PROVE  (Bucket(rows[i][j]) = "skip") <=> rows[i][j].unmeasured
  BY DEF SkippedIsUnmeasured
<1>1. (Bucket(rows[i][j]) = "skip") <=> rows[i][j].unmeasured = TRUE
  BY RowsAreFair
<1>2. rows[i][j] \in Row  BY RowsAreFair DEF Fair
<1>3. rows[i][j].unmeasured \in BOOLEAN  BY <1>2 DEF Row
<1> QED  BY <1>1, <1>3

LEMMA ClosednessIsKept == TypeOK /\ LoopsKeep => FailClosedIsClosed
<1> SUFFICES ASSUME TypeOK, LoopsKeep, phase = "printed", job.flags.failClosed, Exit = 0,
                    NEW i \in Own, IsOsv(gates[i])
             PROVE  LET o == job.world.osv
                    IN  \/ ~o.inputs /\ ~o.declared
                        \/ /\ o.inputs /\ o.hashed /\ o.version = "zero" /\ o.runs
                           /\ o.status \in {0, 1} /\ o.json
                           /\ \A x \in o.findings :
                                  /\ x.form = "sound" /\ x.exposure # "development"
                                  => x.severity \in 0 .. job.flags.floor - 1
  BY DEF FailClosedIsClosed
<1> DEFINE g == gates[i]
<1> DEFINE f == job.flags
<1> DEFINE w == job.world
<1> DEFINE o == w.osv
<1> DEFINE r == OsvRow(g, f, w)
<1>1. i \in DOMAIN rows /\ \A j \in DOMAIN rows[i] : rows[i][j].result # "FAIL"
  BY ZeroIsNoFail
<1>2. g \in Gate /\ job \in Job /\ rows[i] = RowsOf(g)
  BY <1>1, RowsAreFair
<1>3. f \in Flags /\ w \in World  BY <1>2 DEF Job
<1>4. RowsOf(g) = <<r>>
  <2>1. Program = "scan" /\ g.suffix # "hygiene-readme" /\ g.tool = "osv-scanner"
    BY DEF IsOsv
  <2>2. RowsOf(g) = <<ScanRow(g, f, w)>>  BY <2>1 DEF RowsOf
  <2>3. ScanRow(g, f, w) = r  BY <2>1 DEF ScanRow
  <2> QED  BY <2>2, <2>3
<1>5. r.result # "FAIL"
  <2> HIDE DEF r, g
  <2>1. DOMAIN rows[i] = {1} /\ rows[i][1] = r  BY <1>2, <1>4
  <2> QED  BY <1>1, <2>1
<1>6. \/ ~o.inputs /\ ~o.declared
      \/ o.inputs /\ ~Unscanned(o) /\ Blocking(o, f) = {}
  BY <1>2, <1>3, <1>5, OsvRowIsClosed
<1>7. o \in Osv  BY <1>3 DEF World
<1>8. ASSUME o.inputs, ~Unscanned(o), Blocking(o, f) = {}
      PROVE  /\ o.inputs /\ o.hashed /\ o.version = "zero" /\ o.runs
             /\ o.status \in {0, 1} /\ o.json
             /\ \A x \in o.findings :
                    /\ x.form = "sound" /\ x.exposure # "development"
                    => x.severity \in 0 .. f.floor - 1
  <2>1. o.hashed /\ o.version = "zero" /\ o.runs /\ o.status \in {0, 1} /\ o.json
    BY <1>8 DEF Unscanned
  <2>2. ASSUME NEW x \in o.findings, x.form = "sound", x.exposure # "development"
        PROVE  x.severity \in 0 .. f.floor - 1
    <3>1. x \in Read(o)  BY <2>2 DEF Read
    <3>2. ~Serious(x, f)  BY <1>8, <2>2, <3>1 DEF Blocking
    <3>3. x \in Finding  BY <1>7, <2>2 DEF Osv
    <3>4. x.severity \in -1 .. 100 /\ f.floor \in {1, 40, 70, 90}
      BY <1>3, <3>3 DEF Finding, Flags
    <3>5. x.severity # -1 /\ ~(x.severity >= f.floor)  BY <3>2 DEF Serious
    <3> HIDE DEF f
    <3> QED  BY <3>4, <3>5
  <2> QED  BY <1>8, <2>1, <2>2
<1> QED  BY <1>6, <1>8

LEMMA WallsAreKept == TypeOK /\ LoopsKeep => PassedMethodsAreWithinWalls
<1> SUFFICES ASSUME TypeOK, LoopsKeep, NEW i \in DOMAIN rows,
                    IsCrap(gates[i]), rows[i][1].result = "PASS",
                    job.world.tree.analyser,
                    NEW kind \in {"src", "test"}, NEW n \in Listed(job.world.tree, kind),
                    job.world.tree.methods[n].file \in job.world.tree.answers,
                    ~Shadowed(job.world.tree, n)
             PROVE  LET t == job.world.tree
                    IN  Crap(t.methods[n].complexity, t.coverage[t.methods[n].file])
                            <= (IF kind = "src" THEN ProdMax ELSE TestMax) * Scale
  BY DEF PassedMethodsAreWithinWalls
<1> DEFINE g == gates[i]
<1> DEFINE f == job.flags
<1> DEFINE w == job.world
<1>1. g \in Gate /\ job \in Job /\ rows[i] = RowsOf(g)
  BY RowsAreFair
<1>2. f \in Flags /\ w \in World  BY <1>1 DEF Job
<1>3. g.suffix = "crap-score" /\ f.deep /\ Program = "audit"
  BY DEF IsCrap
<1>4. RowsOf(g) = <<AuditRow(g, f, w)>>
  BY <1>3 DEF RowsOf
<1>5. AuditRow(g, f, w).result = "PASS"
  BY <1>1, <1>4
<1>6. CrapExit(w.tree) = 0
  BY <1>1, <1>2, <1>3, <1>5, AuditRowIsFair
<1>7. w.tree \in Tree  BY <1>2 DEF World
<1> QED  BY <1>6, <1>7, WallsHold

\* Whatever the repository, the registry and the tools on the machine, the
\* working state of a run stays of its type: every row has a result that the
\* row schema admits (audit, scan and conform).
THEOREM TypeCorrect == Spec => []TypeOK
BY AlwaysKept, PTL

\* Merging and assessing keep what they have done so far: the inductive part of
\* every other theorem here (resolve_gates, and the loop of each main).
THEOREM LoopsAreKept == Spec => []LoopsKeep
BY AlwaysKept, PTL

\* A printed profile is the union of the base and of the lists of the kinds found,
\* each gate at its highest rank, for every registry (resolve_gates).
THEOREM ProfilesAreUnions == Spec => []ProfileIsUnion
<1>1. TypeOK /\ LoopsKeep => ProfileIsUnion
  BY MergedIsUnion DEF TypeOK, LoopsKeep
<1> QED  BY <1>1, AlwaysKept, PTL

\* A gate fails only where a list has it as blocking and no override turns it
\* down, for every registry and every override (resolve_gates, and the rows).
THEOREM FailsAreOrdered == Spec => []FailIsOrdered
BY OrdersAreKept, AlwaysKept, PTL

\* A scan with --fail-closed exits 0 only on dependencies it has measured and
\* found sound, whatever the scanner does (run_osv).
THEOREM FailClosedHolds == Spec => []FailClosedIsClosed
BY ClosednessIsKept, AlwaysKept, PTL

\* For every registry and every override, the force of a gate in a printed profile
\* is that of the first entry that ranks it highest, unless the engineer turned it
\* down (resolve_gates).
THEOREM FirstsDecide == Spec => []FirstOfHighestDecides
<1>1. TypeOK /\ LoopsKeep => FirstOfHighestDecides
  BY MergedIsFirst DEF TypeOK, LoopsKeep
<1> QED  BY <1>1, AlwaysKept, PTL

\* fp-rate leaves out the rows without a measurement, and no others
\* (verdict_bucket and the rows of conform).
THEOREM SkipsAreUnmeasured == Spec => []SkippedIsUnmeasured
BY SkipsAreKept, AlwaysKept, PTL

\* A tree that crap-score lets pass holds no method above its wall at its file's
\* coverage, for every tree and every coverage report (audit --deep).
THEOREM WallsAreHeld == Spec => []PassedMethodsAreWithinWalls
BY WallsAreKept, AlwaysKept, PTL
=============================================================================
