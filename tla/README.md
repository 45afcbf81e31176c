# TLA+ models of the umbrella repository's operations programs

The repository holds the programs that keep the *governed brain* (`~/.teamkb`) alive and its
changes accounted for: the nightly backup, the installer of the reviewed compiler and the
launcher that runs it, the daily digest and the tailnet canary, the changelog publication, and
the vendored audit harness whose gates leave evidence rows. They are small Bash and Python
programs that share files, locks and symlinks with each other and with processes that live
elsewhere, and they run unattended. What can go wrong with them is what happens *between* their
steps: another process at work, a kill, a command that fails half-way. These modules model that.

Five groups of programs are modelled, model-checked and proved about: the backup, the compiler
installation with its launcher, the evidence bundle, the report lineage check, and the gates that
read a profile (`classify`, `audit`, `scan`, `conform`, `crap-score`). The rest is inventoried
below with the reason it is left out or the plan for it. All line numbers are those of the files
of this repository.

## Contents

1. Inventory
2. How a module corresponds to the code
3. The backup
4. The compiler installation
5. The evidence bundle
6. The report lineage
7. The gates
8. Where the code disagrees with its own words
9. Proofs
10. The runs and their bounds
11. What is not modelled, and the plan
12. How to run it

## 1. Inventory

### The governed brain and its nightly jobs

| Part | State it keeps | Operations | What is hard | What makes it correct |
|---|---|---|---|---|
| `bin/teamkb-backup.sh` | archives in `BACKUP_DIR`, copies on R2 and the VPS, `.write.lock`, `teamkb-backup.{beat,ok,skipped}` | one run: lock, preflight, snapshot, encrypt, restore round trip, push, prune, exit trap | shares its lock with the writers; may be killed anywhere, its children keep the lock; leftovers of failed runs; retention counts names | an archive is of one govern pass; the newest archives kept include a restorable one; `.ok` means what it says; every failure is reported |
| `brain_govern` (elsewhere) | `teamkb.db`, the spool, the audit tier | one pass rewrites them one after another under `.write.lock` | dies half-way; may hold the lock for ever | external: the environment of the backup |
| `bin/install-teamkb-compiler.py` | `releases/<commit>`, `current`, `previous`, staging directories | stage a commit's files, check, publish by one rename, keep `previous`, replace `current` | two installers, a kill at any step, an installed file that drifted | a release is whole or absent; `current` only ever names a verified one; a rollback target is never lost |
| `bin/teamkb-compile-daily.sh` | none | read `current`, verify every pinned hash, exec the release's wrapper | the release changes or `current` moves between the hash and the exec | what runs is what was verified |
| `bin/deploy-teamkb-compile.sh` | skills, wrapper, digest and backup scripts on the host | refuse an unpinned call, back up, install, rsync, replace | not transactional; owned files it must not overwrite | files of others are untouched; the compiler moved last or not at all |
| `bin/teamkb-quality-digest.sh` | `last.env`, the log | count, compare with the last snapshot, save, push an alert | separate queries; a failed one reads 0; the snapshot is saved before the alert is sent | a drift is announced once, none is invented |
| `bin/teamkb-tailnet-canary.sh`, `teamkb-tailnet-probe.mjs` | receipts, `latest.json`, `last.ok` | preflight, probe under two timers, receipt | timers race the answer; `set -e` in the failure handler; systemd's timeout | every run that ran leaves a receipt that is true |
| `bin/deploy-teamkb-tailnet-canary.sh` | units and scripts on the host | copy, reload, enable, start | partial failure | re-running it converges |
| `bin/teamkb-systemmap.sh` | a rendered map | read state, write a page | none to speak of | read-only with respect to the brain |

### The change record

| Part | State it keeps | Operations | What is hard | What makes it correct |
|---|---|---|---|---|
| `scripts/aggregate-changelogs.sh` and its workflow | `changelogs/`, an unmerged commit, a check run | collect, commit, certify, publish by fast-forward | `main` moves between the certification and the push; `git diff` does not see a new file | only a certified commit is published, nothing of another publisher is lost |
| `bin/gsb` | clones | `sync`, `status`, `map`, `list` | a pull killed after 30 s leaves a rebase open; one failure must not stop the others | every repository is tried, rc 1 if any failed |
| `scripts/lint-forbidden-words.sh`, `render-*.py` | generated pages | pure text to text | data only | out of scope: no interleaving, no persistent protocol |

### The audit harness (`.audit-harness`, vendored)

| Part | State it keeps | Operations | What is hard | What makes it correct |
|---|---|---|---|---|
| `scripts/emit-evidence.sh` | a row on standard output or in a file, events on standard error | verdict to row, optional signature and posture checks, append | order of event and acceptance; in-place output | the row says what the gate said |
| `scripts/bundle-append.py` | the bundle, `BUNDLE.lock`, temporary files | validate, lock, read, check, write, rename | gates in parallel, retries, kills | no row lost, no id twice, the answer is true |
| `scripts/worktree-run.sh` | a temporary worktree | run the gates on what is pushed | several refs, a missing range | a CLEAN verdict is about what is pushed |
| `bin/audit-harness.js` | a child process and a timer | run a gate under a timeout, escalate, map the status | timer and exit race, orphans, overflow of the timer | one status, and the gate's when it gave one |
| `scripts/harness-hash.sh`, `escape-scan.sh` | the pin file; none | init, verify, re-pin; scan a diff | a pin that is stale when read | no unpinned policy change passes |
| `scripts/report-lineage.py` | none | walk a report and a manifest in one loop after another, collect findings, print one row | what one loop leaves for the next; malformed fields that must become findings, not tracebacks | a report that passes is what its Runs and its manifest say |
| `scripts/classify.py` | none | detect kinds, merge the gate lists of each, overlay, overrides, print the profile | a gate in several lists; a file that is unreadable, garbled or of another shape; kill switch | every gate a kind calls for is there, at its highest rank |
| `scripts/audit.py`, `scan.py`, `conform.py` | none (audit may leave files) | take a profile, assess each gate of one's dimensions, rows, exit status | what each way a tool can end means; `--strict`, `--fail-closed`, overrides and registry together; children that fail | nothing unmeasured counts as a pass; only what an engineer ordered blocks |
| `scripts/crap-score.py` | coverage and report files in the tree | find methods, score, compare with walls | analyser absent, coverage report absent, names that collide | no method above its wall passes |
| `scripts/fp-rate.py` | none | run conform on a corpus, bucket the rows | a row of another program read by its result and severity | only what was measured is counted |
| `migration-notes.py`, `currency.py`, other gates | none | read, render | wording and tables | section 11 |

Interactions. The backup and `brain_govern` meet only at `.write.lock` and in the artifacts. The
deployment calls the installer, whose `current` the launcher reads; both run while the other may
be at work, and nothing locks the two against each other. Every gate pipes its result to
`emit-evidence.sh`, which runs `bundle-append.py` as a child; emitters meet at the lock file and
in the bundle. `audit`, `scan` and `conform` run `classify` as a child and take its profile; `audit
--deep` runs `crap-score`; `fp-rate` runs `conform`. `PROJECT.json` lists every hazard with its line.

## 2. How a module corresponds to the code

A program's control point is `pc[process]`; one action is the code between two points where
another process can see a difference: a system call on a shared file or the taking of a lock.
Several lines that touch only private state are one action. Content is reduced to what the
properties tell apart (the number of the govern pass, the commit of a file, the validity of a
row). An action named `...Fails`, `Raise`, `Kill`, `Die` is the error path or the death that the
environment may bring at that point. Variables marked `history` in the declarations are read by
properties only. `PROJECT.json` (`map`) names the lines of every definition.

The three concurrent components have a short abstract specification (`AtomicBackup`, `AtomicInstall`,
`AppendOnlyBundle`), the detailed module, an `MC` module with values for TLC, and a `_proofs`
module. The two groups of sequential programs have no abstract specification: what they promise is
a relation between their input and their answer, and the properties state it directly. Where the
same lines do many things to data, the module keeps the control (loop, guard, early return,
traceback) as actions and the judgement on one element as an operator.

In the detailed modules some operators stand before a definition under a name of their own
(`LockTimeoutGoesOn`, `KeepOldestPrevious`, `OutranksFirst`, ...): these are plausible *wrong*
versions of it, not part of any specification. `PROJECT.json` (`mutants`) pairs each with
a property that fails when it takes the place of the right one; this is how a property is shown to
constrain the code.

## 3. The backup

`TeamkbBackup` models `bin/teamkb-backup.sh` whole: any number of invocations, `brain_govern`
writers, the two off-host copies, and the liveness markers.

| Variable | Code |
|---|---|
| `lock` | the `flock` on `.write.lock` (fd 9), which a killed run's children inherit |
| `brain`, `gen`, `pending` | each artifact's content is the number of the pass that last wrote it (0: missing); what the current pass has still to write |
| `pc`, `flags` | the point of the script; `RUN_ACCEPTED`, `RUN_SKIPPED`, `rc`, and what the trap did |
| `ts`, `now` | the stamp in the archive's name, the latest stamp given |
| `snap`, `todo` | the staging tree, and the tiers not copied yet |
| `local`, `r2`, `vps` | archives and copies; `proved` records that this archive passed the restore round trip, which the files do not tell |
| `okBy`, `skipMark` | who wrote `teamkb-backup.ok`; `.skipped` exists |

Actions, in the order of the script: `Start`, `StartFails`, `OpenFails` (the directories and the lock file),
`Acquire`, `LockTimeout` (`flock -w`), `Preflight`, `VacuumGovern`, `VacuumCompile`, `Stage` (one
tier), `Encrypt`/`EncryptFails`, `VerifyPasses`/`VerifyFails`, `PushR2`, `PushVps`,
`ChecksumFails` (after the copy has arrived), `Prune`, `CommandFails` (any command of the body under
`set -e`, a log line that cannot be written among them; a push that fails is handled in `PushR2` and `PushVps`), and the EXIT
trap as `TrapBeat`, `TrapMark`, `TrapAlert`. `Kill` and `OrphanEnds` are a SIGKILL and the end of
the last child; `GovernBegin`/`Write`/`End`/`Dies` are the writer.

Properties:

* `MutualExclusion`: whoever reads or writes the brain holds the lock; a run that was killed
  holds it until its last child ends.
* `KeptIsOnePass`: an archive that joins the kept ones holds the govern database and the other
  governed artifacts of one pass. A pass that *died* half-way leaves a brain of two passes, which
  a backup can only copy; the property says exactly when an archive may be mixed.
* `ImplementsAtomicBackup`: the archives that proved to restore appear one at a time, in the order
  of their stamps, each with the whole brain of that instant, and the newest of them is never given up,
  whatever ran, failed or was killed.
* `RestorableFloor`: once a run was accepted there is always a proved archive in `BACKUP_DIR` that is
  at least as new as its own, however many unverified leftovers later runs leave behind.
* `RetentionCounts` (action property): a run that gets through the local retention leaves the newest
  archives, exactly `Retain` of them or all when there are fewer; one whose deletions fail leaves no fewer.
  It does not ask which of them restore: that is `RestorableFloor`.
* `OffHostIsProved`: no archive leaves the host that did not pass the round trip.
* `OffHostFloor` (action property): an intact copy on the VPS is given up only for a newer intact
  one; a copy whose checksum differs stays, counts against the retention there, and cannot
  displace the last good one.
* `MarkersAreHonest`: `.ok` was last written by a run that was accepted, did not fail afterwards and
  was not skipped; `.skipped` is the work of a skipped run.
* `ExitIsReported`: a run that ended with a failure attempted its alert unless it had no trap yet;
  any other left its heartbeat and its marker.
* `RunsEnd` (liveness): a started invocation ends, even if a writer never lets go of the lock.

`HaveFlock = FALSE` is the fallback of a host without `flock`: two runs may then overlap, and even
share a stamp. The theorems about types, markers, exits and the count of the local retention hold for both values;
the properties of snapshots and of what restores do not claim anything for that host, and the runs have `flock`.

Fairness: `WF` on `RunStep(r)`, what an invocation does by itself. Every command of the script
returns (the network ones have their own limits), `flock -w` gives up, a killed run's children
end. Nothing is assumed of `brain_govern`: it may hold the lock for ever, and nothing starts a
run that was not started. `Kill` and `Start` are not fair.

Assumptions: every writer of the brain takes `.write.lock`. The script's header (line 30 and
following) names a live `teamkb-brain-api` whose writes do not show here. `Retain >= 1`. Under the
lock stamps grow: a run takes longer than the one second of a stamp's resolution, and the clock is not
set back. The order of archives by mtime (local and VPS
retention) is the order of their stamps (R2 retention). A retention that deletes only some
of what it names, because a deletion fails, is modelled (`Retained`).

## 4. The compiler installation

`CompilerInstall` models `bin/install-teamkb-compiler.py` and `bin/teamkb-compile-daily.sh`
together, because the launcher reads what the installer replaces. A file's content is the commit
whose bytes it has, so a SHA-256 comparison is an equality.

| Variable | Code |
|---|---|
| `published`, `dir` | `releases/<commit>` and a real directory in place of `current`, with files and manifest |
| `current`, `previous` | the two symlinks |
| `pc`, `rev`, `staged`, `stage`, `seen`, `failing` | an installer: its `--revision`, its `mkdtemp` directory, the `current` it resolved (line 65), whether it raised |
| `at`, `root`, `read`, `ran` | a launcher: the directory it resolved, the manifest it loaded, where its `exec` went |
| `hashed` | files whose hash a process has compared so far |

Installer: `Begin`/`Refuse` (revision on `origin/main`), `Collect`, `WriteFile`, `CheckSyntax`,
`WriteManifest`, `FindTarget`, `CompareManifest`, `HashFile`, `AllHashed`, `Publish` (one rename),
`Resolve`, `KeepPrevious`, `Switch`, then `Cleanup` or `CleanupFails`; `Raise` is any exception,
`Kill` a death. Launcher: `Look`, `ResolveRoot`, `ReadManifest`, `HashPinned`, `AllPinned`, `Exec`,
`Leave`. Environment: `Rollback` (the documented one) and `Drift`, a local writer that changes or
removes an installed file or edits a manifest, `MaxDrift` times.

`Init` is the set of states the first installer of this version can meet: releases with the
six files of the earlier installer or with the files of this one, links into them, or a real directory
where the link should be.

Properties:

* `ReleasesAreWhole`: a release only installers wrote to has the files and manifest of its commit.
* `VerifiedBeforeSwitch`: when an installer is about to move `current`, the commit is reviewed,
  compiles, has the helper its wrapper names, and no file of the release was wrong when looked at.
* `FailureRetainsCurrent`: an installer that reports failure did not move `current`, if it could
  remove its staging directory.
* `RollbackPointsBack` (action property): an installer nobody overtook leaves the release it
  replaces as `previous`, whatever killed or failed installers left there.
* `CleanRunIsPinned`: what a launcher runs, when `current` is still what it verified, has the
  pinned bytes in every file not changed under its hands.
* `ImplementsAtomicInstall`: releases appear whole, at one instant, and never change but by the
  local writer; `current` names only releases on the shelf.

Safety only, no fairness: the programs have no waiting loop and no lock, so termination is the
termination of straight-line code. `CHECK_DEADLOCK FALSE` because installers end. Folded into
other actions: the temporary links `.current-<uuid>` and `.previous-<uuid>`, which nobody reads,
with their rename. `KeepPrevious` compares releases: line 68 compares a resolved path with a target that
may be unresolved, which is the same when no directory above the releases is a symlink, and that is assumed.
Not modelled: `TEAMKB_COMPILE_RELEASE`, an operator's override of the
directory, and the content of the compiler itself.

## 5. The evidence bundle

`EvidenceBundle` models `emit-evidence.sh --append-to` (row, event, pipe) and `bundle-append.py`
whole. An emitter is two processes, and either may be killed alone: `Die` is the death of the
Python process (the shell reports it), `Orphan` the death of the shell with Python running on and
appending. A retry is another emitter with the same gate id. An emitter whose shell was killed has the answer
*killed*: its caller learned nothing of the row.

| Variable | Code |
|---|---|
| `doc`, `pc`, `exit` | the gate result on standard input; where the emitter is; what the caller was told |
| `holder` | who has `flock` on `BUNDLE.lock` |
| `shape`, `rows` | the bundle: absent, a JSON array, something else; its rows |
| `loaded`, `temps` | the rows read under the lock; temporary files that exist |
| `events` | `gate.decision.emitted` events |
| `slain`, `unhandled` | history: killed Python processes; processes that an exception ended while their temporary file had no handler |

`Compose` (the shell's checks and the row), `Observe` (the event), `Validate`/`RefuseRow`,
`Lock`, `Read`/`RefuseBundle`, `RefuseDuplicate`/`MakeTemp` (`mkstemp`, line 199), `Write` (the `try` of
line 200), `Replace`, `Unlock`, `Report`. An exception or an interruption inside the `try` is `WriteFails`,
after which the handler removes the file (`Unwind`) and lets it go on; anywhere else, between lines 199 and 200 and in
the handler too, it is `Raise`.

Properties:

* `AnswersAreTrue`: a caller told *ok* has its row in the bundle, exactly once; one told *refused*
  or *duplicate* has none, wherever the other emitters are. After an exception or a kill the
  caller cannot know, and the property does not say: that is why a retry must be safe.
* `UniqueIds`: no emitter adds an id the bundle already holds, so that a retry of a killed emitter
  that had got as far as the rename gets no second row.
* `DuplicateIsReal`: a *duplicate* answer is given only when another row with that id is there.
* `TempsAreCleared`: an emitter that ended left its temporary file behind only if it was killed, or an
  exception met it between `mkstemp` (line 199) and the `try` (line 200), or the handler itself failed; never after a
  refusal, a rename or a write that failed.
* `ImplementsBundle`: the bundle behaves like an append-only register, one valid row at a time.
* `EmittersEnd` (liveness): every emitter answers, although the lock is waited for without a limit.

Fairness: `WF` on `Work(e)`. System calls return, `flock` wakes a waiter when the lock is free,
and there are finitely many emitters, each of which takes the lock once, so weak fairness is enough;
deaths and exceptions are not fair.

Assumptions: every emitter names a bundle by one path (two paths to one file give two locks, see
the hazards), nobody else writes the bundle, and
the validity of a row against the schema snapshot is a predicate of the row. A failure of the message on
standard error at line 214 comes after the append and is *raised*: exit status 1, and the row is there.

## 6. The report lineage

`ReportLineage` models `.audit-harness/scripts/report-lineage.py`: one report (a `unified` one, or a
`suite` that nests one), the audit manifest it may come with, and the loops that walk them.

| Variable | Code |
|---|---|
| `report`, `manifest`, `strict` | the two files and the flag |
| `pc`, `k` | the loop the program is in and the element it has come to |
| `errors` | the codes of the findings so far |
| `seen`, `slots` | `seen_run_ids` and later the cell keys seen; the sample indexes taken in each cell |
| `parsed`, `grouped` | the Runs that are objects; the buckets `grouped` is built into |
| `known` | the jobs registered by id (`source_jobs`) |
| `outcome` | the result of the row, or *raised* for a traceback |

Actions: `Open` (parse, schema, frame), then one action per turn of each loop, `ParseRun`, `SlotRun`,
`GroupRun`, `TakeCell`, `TakeJob`, with `EndLoop` between them; `Summary`, `Close` (number of cells,
ids of the suite), `OpenManifest`, `Compare`, `Decide`. A finding is known by its code. A field
that is missing or of the wrong type is the one value `Bad`. A rate, deviation, interval or score is
*own* when it follows from the counts the cell claims (for the score, from the Grades of its Runs):
the floating-point comparison is a fact of the input.

Unlike a validator that stops at the first error, this program goes on with what it could read, so a
later loop works on what an earlier one left. What must not happen is that an element falls out of
one loop unnoticed and is not missed by the next.

* `PassIsFaithful`: a report that passes has one Run per id and per sample slot, Grades of its own
  Grader on completed Runs only, as many cells as there are groups of Runs, none twice, and each of its
  cells counts what a recount of the Runs gives.
* `TotalsAddUp`: the totals of a passing report are a recount over all Runs.
* `PassAgreesWithSource`: a report that passes when its manifest was read has exactly the Runs of its
  jobs, each with the cell and Grade of its one job, and with its outcome unless the job is `pending`, which
  admits any; no job is planned, running or failed. A suite passes only under the ids of its own Runs. Nothing is said
  of a manifest that was not read (section 8: the empty path).
* `RightPasses`: the other direction. A report and a manifest that are right (`Right`: everything is
  there, each number is what the Runs give, the jobs are the Runs) pass: no loop stumbles over what an earlier one has
  left in the dictionaries. Together with the three above it says what the program decides.
* `Inductive` says what each loop has taken so far, and is what makes these proofs possible.

Things a reader of the program may want to know, and that the model has: malformed values make it
end with a traceback in four places (`GroupRun`, `CellRaises`, `Compare`): a Grade that is truthy and
no object, a rate over a missing count, the root of a negative variance, and the sort of ids when
one is missing. An unhashable id, cell, status or verdict (a list or an object, lines 164, 183, 511) raises as well,
which the model leaves out: it has no such value, and takes a wrong status or verdict for a finding.
`Manifest.path` tells an absent path (`None`) from an empty one, because two guards treat them
differently (lines 696 and 704). `source_verified` in the row's metadata is true whenever a path was given,
empty or not, read or not (line 642); the row's metadata is not modelled.

## 7. The gates

Four modules, one on top of the other.

| Module | Code | What it is |
|---|---|---|
| `AuditProfile` | `classify.py` | the state machine of one classification: detect, merge list by list, print |
| `CrapScore` | `crap-score.py` | operators: which methods are looked for, scored, and above a wall; the exit status; what is left behind |
| `GateVerdicts` | `audit.py`, `scan.py`, `conform.py`, `fp-rate.py` | operators: the rows of one gate, for each way to assess it |
| `GateRun` | the `main` of the three programs | the state machine of one run, which waits for a classification |

| Variable | Code |
|---|---|
| `disk` | the repository, the registry file, the override file and the environment, as far as they are asked |
| `stage`, `found`, `list`, `pos`, `byId` | the classifier: where it is, `kinds`, the list and the place in it, `by_id` |
| `job` | the program, its flags, what its tools and files will answer, and the profile that `--profile` names |
| `phase`, `gates`, `rows` | where the program is, the profile it works from, the rows by gate |
| `left` | what the run leaves in the repository |

Actions: `Skip` (kill switch), `Pinned`/`NoProfile` (`--profile`), `Spawn`, `Child` (one step of
`classify`: `NoRegistry`, `Detect`, `TakeGate`, `NextList`, `Emit`), `TakeProfile`, `ChildFailed`,
`Assess` and `Break` (one gate, or the traceback it causes), `Finish`. How a tool ends (missing, not
runnable or too slow, zero, nonzero) is chosen with the start; each is asked once in a run.

* `ProfileIsUnion`: the printed profile has every gate that the base or a found kind lists, ranked no
  lower than any list ranks it, and no other gate.
* `FailIsOrdered`: with a computed profile and without `--strict`, a FAIL is about a gate that some list
  has as blocking and that neither the override file nor the environment turns down. (The
  dependency gate under `--fail-closed` is the stated exception.)
* `FailClosedIsClosed`: if `scan --fail-closed` exits 0 with the dependency gate enabled, there was
  nothing to scan or the scanner was there, ran, answered, and had no finding that blocks.
* `FirstOfHighestDecides`: the force of a gate (blocking, advisory, disabled) is decided by one entry, the first
  of those that rank it highest, and by the engineer. A later kind that ranks it as high, or any that ranks
  it lower, neither makes it block nor keeps it from blocking, and a promotion comes too late to
  change which entry that is.
* `SkippedIsUnmeasured`: `fp-rate` leaves out exactly the rows that conform marks as no measurement.
* `PassedMethodsAreWithinWalls`: if `crap-score` passes a tree, no method it
  looked for, in a file that the analyser answered for, and that no other of the same name in its file hides, is above its wall at the coverage
  taken for its file. For Go that is the figure of one function of the file, the last that `go tool
  cover -func` lists (line 239), because `coverage[fpath] = pct` runs once per function; the property says nothing of
  a method's own coverage.
* `LoopsKeep`: what has been merged and assessed so far; the inductive invariant of the proofs.

Abstractions. The detectors (a file pattern, a dependency) are the fact that they find something; a
score is kept a million times as large, which makes the formula exact over the integers; whether an
artifact conforms to the floor or kernel schema is a fact of the artifact (the JSON-Schema subset
of `conform.py`, lines 88-212, is left out); digests, versions and arguments of tools are left out.

Points of the code that the model follows and a reader could miss: a pinned profile ignores every
override but the kill switch; an override file whose list items are not indented has empty lists (the
parser reads indented items, and inline lists wherever they are); one that is there but unreadable overrides nothing and
then makes `classify` fail when it is hashed (line 372), one that is not UTF-8 overrides nothing; a root `package.json` that is a JSON value but no object ends
`classify` with a traceback after the merge (`Emit`); `scan` takes an unknown exposure as production; a
package in a dev and a production group counts as development (`scan.py`, line 225), which is part
of the fact `exposure`; `audit` reports a missing layer as ADVISORY *warn* and a layer without
detector as *info*; a linter is run once per artifact and may end differently on each (`conform.py`, line 395);
radon is run once per directory, and an error in the place of the methods of a file ends `crap-score` with a
traceback (`Raises`, lines 141-144).

## 8. Where the code disagrees with its own words

Five runs state a sentence of the repository as a property, and TLC shows a behaviour of the code
that contradicts it.

| Run | Sentence | What the code does |
|---|---|---|
| `backup_leftover` | "The backup is KEPT ONLY if it provably restores. An unrestorable backup is deleted." (lines 41-43) | under `set -e` a decrypt or extract that fails (line 302) ends the run before the branch that removes the archive: the leftover stays and counts for retention |
| `install_delegate` | "It hashes every listed file before delegation." (`000-docs/041-AT-DSGN-review-metrics-bundle-contract.md`, line 30) | line 36 of the launcher goes through `current` again after the verification; a switch between the two executes a release it did not hash |
| `lineage_cells` | "It checks the report's internal arithmetic" and "A clean claim is withheld whenever parsing, identity, arithmetic, or source-manifest validation fails." (`report-lineage.py`, lines 7 and 17-18; the rule is the gate's purpose, none of these lines states it by itself) | only the *number* of cells is compared with the number of groups (line 474): a report that leaves out a group and claims an empty cell in its place passes |
| `gates_suite` | "What audit deliberately does NOT do: execute the repo's test suite." (`audit.py`, line 17) | `audit --deep` runs `crap-score`, which in a Go repository without `coverage.out` runs `go test ./...` (lines 210-211) |
| `gates_methods` | "computes CRAP(m) = C(m)^2 * (1 - cov(m)/100)^3 + C(m) for every method" (`crap-score.py`, lines 4-6) | Python methods are kept by file and bare name (lines 143-144): of two methods of one name only the last is scored |

The first two need a failure or an interleaving, the others an input that no test has.

Five observations for which there is no run: the `mkdir` of line 97 of the backup runs before the
trap of line 169, so that its failure has neither heartbeat nor receipt (lines 102-103 promise both);
the installer prints "current entry retained" (line 95) also when only the removal of its staging
directory failed after the switch; `emit-evidence.sh` calls a document with `result` PASS and an
`advisory_severity` *advisory* in the event (line 378) and *pass* in the row (line 208); a suite report
given `--audit-manifest ""` passes with no manifest read, since line 696 asks whether the option is absent and line 704
whether its value is empty, although line 697 calls the manifest required, and the row says `source_verified`
(line 642); and `audit --strict` fails a testing-depth gap on any gate (`strict or enforcement == "blocking"`,
lines 297 and 319), where its header (line 25) and the changelog ("gap on a blocking gate → FAIL",
`.audit-harness/CHANGELOG.md`, line 393) promise it for blocking gates only. Its own `--help` (line 346), like
`conform` and `scan`, says what the code does. `GateVerdicts` has the code's rule (`Blocks`).

## 9. Proofs

TLC checks the instances of section 10. The theorems hold for every value of the constants: any
number of runs, writers, installers, emitters, artifacts, commits, any retention and any bound;
reports, manifests, registries and source trees of any size, any complexity and coverage.

| Module | Theorems |
|---|---|
| `TeamkbBackup_proofs` | `TypeCorrect`, `MutexCorrect`, `InductiveCorrect`, `MarkersCorrect`, `FloorCorrect`, `OffHostCorrect`, `OffHostFloorCorrect`, `OnePassCorrect`, `ExitCorrect`, `RetentionCorrect`, `PromiseKept` |
| `CompilerInstall_proofs` | `TypeCorrect`, `InductiveCorrect`, `WholeCorrect`, `VerifiedCorrect`, `FailureCorrect`, `PinnedCorrect`, `RollbackCorrect`, `PromiseKept` |
| `EvidenceBundle_proofs` | `TypeCorrect`, `InductiveCorrect`, `AnswersCorrect`, `UniqueCorrect`, `DuplicateCorrect`, `TempsCorrect`, `PromiseKept` |
| `ReportLineage_proofs` | `TypeCorrect`, `LoopsKeep`, `PassesAreFaithful`, `PassesAgreeWithSource`, `PassesAddUp`, `RightReportsPass`, `PassesDisplaceOnlyByEmptyCells`, `CellsWithRunsAreAll` |
| `FiniteSums` | `SumBound`, `SumMonotone`, `SumOfSizes`: about sums over finite sets, used by the modules above and below |
| `CrapScore_proofs` | `ImprovingKeepsPassing`, `SimpleTreesPass`, and the lemmas about scores that `GateRun_proofs` uses |
| `AuditProfile_proofs` | lemmas about the classifier, used by the next module |
| `GateRun_proofs` | `TypeCorrect`, `LoopsAreKept`, `ProfilesAreUnions`, `FailsAreOrdered`, `FailClosedHolds`, `FirstsDecide`, `SkipsAreUnmeasured`, `WallsAreHeld` |

In the first four modules `Inductive` is the inductive invariant, with the type invariant `TypeOK` beside it
(installer, bundle) or in it (backup, lineage); it is also checked by TLC, which finds a
wrong conjunct in seconds. The proofs have one lemma or step per action and per conjunct.

*Backup.* `Inductive == TypeOK /\ MutualExclusion /\ StampInv /\ SnapInv /\ PassInv /\ MarkInv`. None of
the properties is inductive by itself. That two runs never have one stamp needs the lock
(`StampInv`: under `flock`, a run in its body has the newest stamp, and no archive is newer). That an archive is
of one instant needs that nothing the run has staged differs from the brain while it holds the
lock (`SnapInv`), and that it is of one pass needs what a pass has written so far (`PassInv`).
`RestorableFloor` is proved with it: `Prune` is reached only when the newest archive of all is
the run's own and proved, and retention, complete or not, keeps the newest file because Retain is at least 1
(`NewestKeepsTheLast`, `RetainedBounds`). `ExitIsReported` follows from what `MarkInv` keeps about the trap: which flags
the run has at each of its points, and that a run whose children outlive it was killed. `RetentionCounts` needs that
no two archives have one stamp (`Stamps`, kept by every action without any lock, because a run
with the stamp of another overwrites its file): then "fewer than Retain are newer" selects exactly
Retain of them, which `NewestCount` proves by mapping each archive to the number of newer ones, a
bijection onto an initial segment of the naturals. `PromiseKept` assumes `HaveFlock`; the properties about
snapshots and about what restores have it as their condition, `ExitIsReported` and `RetentionCounts` do not.

*Installation.* `Inductive` joins `ReleasesAreWhole` with what an installer has staged at each step
(`StageInv`), what a hash found right still is or was touched since (`HashInv`), what is known
before the switch (`SwitchInv`), that the links name directories that exist (`LinkInv`), that
`seen` is `current` unless somebody overtook (`RaceInv`), and what a launcher has verified (`LaunchInv`).
`RollbackCorrect` is an action property: `RaceInv` in the old state gives the equality the step needs.

*Bundle.* `Inductive` joins the lock with the program points (`LockInv`), says that the rows
read under the lock are still the bundle (`LoadedInv`), that whoever is in Python has a valid row
(`ValidInv`), that an emitter has a row exactly from its `Replace` on and then once (`RowInv`),
what an exit status implies about the point (`ExitInv`), which temporary files exist and why (`TempInv`) and which
events were sent (`EventInv`).

*Report lineage.* The properties speak of a program that has ended; `Inductive` speaks of each loop. As long as
there is no finding and no traceback, `parsed` is a copy of the Runs taken so far, their ids and
slots differ, each bucket is the number of Runs counted into it, the claims taken equal the
buckets, and the jobs taken are registered one to one. The step that adds a Run to its bucket
needs the cardinality of a set that grows by one element. `PassIsFaithful` follows because a program that ends without a finding has taken
everything. `TotalsAddUp` needs more: the program adds up the buckets (`Total`), the property counts
all Runs, and the two agree because the Runs of different cells are disjoint (`SumOfSizes`). For
`RightReportsPass` the invariant is the reverse (`RightSoFar`: as long as the files are right there is no finding
and no traceback), and each step of it uses `Inductive` to know that the dictionary a loop consults holds
what the Runs say and nothing else: `RightCell` for the claims of a cell, `RightClose` for the number of
cells, `RightJob` and `RightCompare` for the manifest. The last two theorems say what is left of the sentence
that `lineage_cells` refutes (section 8): since the cells of a passing report differ and are as many as
the groups, it leaves out a group only for a cell that has no Run and counts nothing
(`EmptyCellsDisplace`), and a report without such cells shows every group.

*Sums.* The totals of a report and of a tree are folds over a finite set (`SumFunction`). What such
a fold computes cannot be had from the library's induction theorems, which take an operator. `FiniteSums`
gets it with sets in the place of operators: a subset of the naturals that is not everything has a least
missing element (`WFMin` on the order of the naturals), and so has a set of subsets of a finite set
(`SubsetsByInduction`). The fold is a recursive function; that one exists which satisfies its equation
is proved by counting the elements (`SumExists`), and then it unfolds (`SumUnfolds`).

*Scores.* `ImprovingKeepsPassing` compares two trees in which the same methods are scored: none more complex, none less
covered, and radon parses every file, then a pass stays a pass. The two walls follow method by method, the average from
`SumMonotone`. The premise that the methods are the same is needed, since removing a simple method can raise the
average above its threshold. `SimpleTreesPass` is the other use of the sum: no number of methods can
make the average fail if each keeps within it.

*Gates.* `TypeOK /\ LoopsKeep` is inductive. `MergedSoFar` says that `byId` has, of the lists passed so
far, the first of the entries of each gate that rank highest; that `Outranks` keeps this is one lemma, that such an
entry is unique (`LeaderIsMerged`) another, that
the overlay and the overrides do not lower a rank a third. `RowsAnswer` says that the rows are the
answers of the gates assessed. With it, each property is a statement about one row: a lemma
goes through the ways to assess a gate and shows that a row fails only when the gate blocks, is *unmeasured* only in
known ways, and so on. `PassedMethodsAreWithinWalls` (lemma `WallsHold`) needs that a score grows when the coverage that is joined falls,
which is non-linear and proved from the product of naturals. The theorems assume
only what the modules' named assumptions say of the constants.

Refinement is proved in the usual two steps: the initial states map to initial states, and each
action, under `Inductive`, maps to an abstract step or to a stutter.

Model-checked only: the liveness properties `RunsEnd` and `EmittersEnd` (fairness is beyond the
prover), and the five statements of section 8, which are false. Every invariant and every other action or
refinement property that a run checks has its theorem. What is not proved, because it is not in the models: that the
abstractions of sections 3 to 7 (predicates for validity, restoring, detection) are those of the code.

## 10. The runs and their bounds

| Run | Instance | What it shows |
|---|---|---|
| `backup_snapshot` | 2 runs, 1 writer, 3 tiers (required, compared, neither), 2 passes, Retain 1, the VPS; 1.2 million states | snapshots against passes and kills, and that runs end |
| `backup_retention` | 3 runs, Retain 2, both off-host copies, one artifact; 2.2 million states | retention and its count, off-host copies and markers through failures and leftovers |
| `install_overlap` | 2 installers of 3 commits (six-file, with helper, unreviewed); 0.8 million states | overlap, kills, rollback in between |
| `install_drift` | 1 installer, 1 launcher, 1 drift, a commit without the helper it names; 3.4 million states | verification against a file that changes between and under the checks |
| `bundle` | 2 emitters, 2 ids, 9 kinds of document, 4 found bundles; 0.46 million states | every path of the shell and of the validation, appends in parallel, retries, kills, and that emitters end |
| `lineage` | up to 2 Runs (3 with a repeated one), 2 ids, 2 cells, 2 Graders, each sound report and one thing wrong with it or its manifest; 0.54 million states | a report that passes is what it claims, one that is right passes |
| `gates` | a registry of 14 gates, 16 kinds, eight families of starts; 0.33 million states | the profile, the rows and the exit status on every branch |

The five runs of section 8 use the same instances, or a smaller one.

Why these bounds are enough to see the interesting cases. Two runs are needed for anything about
the lock, the third makes retention prune an archive of a run that is not the latest (Retain 2) and
leaves room for a leftover between two good archives. Two passes are needed to see a mixed brain
(one that died, one that follows). Tiers differ only in which presence check covers them, so one
of each. The installer distinguishes the commit it installs, the one that is current, and one
that must be refused. One drift suffices because every property excuses a file by the moment of
its last change. Two emitters are an emitter and its retry, or two gates in parallel, and a bundle
that is found with rows has those of all the earlier ones. Two Runs are one and another of the same or another
cell, id or slot, which is all that a comparison in the lineage check sees; a third, or a second
manifest job, comes as a repetition. The gates' families vary together what one way of assessing
reads (a tree, a scan, a verdict file, an artifact) and keep the rest still, because the ways share
nothing but the flags. Every list entry of the registry is there because of a case: required over
recommended, waived, conditional, blocking in one list and advisory in another, promoted by the
overlay, without a tool. Runs of the backup are interchangeable, so symmetry is used in the retention
run, where no liveness is checked.

Bounds named in the models: `MaxGen` (govern passes) and `MaxDrift` (writes of the local writer);
both are parameters of the theorems. `MaxRuns` bounds the reports TLC is given, and belongs to the
`MC` module only.

## 11. What is not modelled, and the plan

Left out for good: `scripts/lint-forbidden-words.sh` and the two renderers (text to text);
`migration-notes.py` (a comparison of two versions rendered as prose); `currency.py` (a table of
ages per pinned tool; it exits 0 whatever it finds); the rates of `fp-rate.py`; the remaining single-shot
gates, which each search files for patterns; schemas and documents. Of the gates that are modelled:
the walk over the file system in each detector, the JSON-Schema subset of `conform.py`, hashing, the
commit stamped into rows, the JSON envelope. The content of archives, SQL, JSON and schema
validation are predicates. Also `emit-evidence.sh` without `--append-to`, until `EvidenceSigning`
below.

Still to come, most important first:

| Module | Covers | Composes with | To state |
|---|---|---|---|
| `TeamkbDeploy` | `deploy-teamkb-compile.sh` | `CompilerInstall`: its step is the installer run | owned files are never overwritten (`decisions.jsonl`, the digest that another owner creates), after a failure the host has a compiler and wrapper that work together; the 04:30 backup against a replaced script |
| `ChangelogPublication` | the workflow and `aggregate-changelogs.sh`, two publishers and somebody who pushes to `main` | | only certified commits on `main`, nothing of another publisher is lost; a new repository's first changelog is published |
| `QualityDigest` | `teamkb-quality-digest.sh` over several nights, a govern pass between two queries, kills | | every drift announced at most once; a snapshot is of counts that were seen; abstract specification: an alarm with memory |
| `TailnetCanary` | probe and canary with their timers and systemd's | | each run that ends leaves one receipt which is true; `last.ok` is honest; it ends (liveness under fair timers) |
| `GateTimeout` | supervision in `audit-harness.js` (212-245) | | one status, 124 only for a gate that was still running; no orphan after the escalation |
| `PushGate` | `worktree-run.sh`, `escape-scan.sh`, `harness-hash.sh` | | CLEAN only about refs that were gated, no policy change without a new pin |
| `EvidenceSigning` | signature and posture checks of `emit-evidence.sh`, `--output` | `EvidenceBundle` | a signed row is the row the gate gave; a posture that changes while signing |

Bounds planned: two actors and three rounds each, which is what these protocols need to see a
stale value. `QualityDigest` and `TeamkbDeploy` are meant to be proved about (state and action
properties by an inductive invariant); `GateTimeout` and `TailnetCanary` are mostly about time
and liveness and stay with TLC. No module of the plan needs a recursive operator.

## 12. How to run it

```
tlc -workers 2 -config MCTeamkbBackup.cfg MCTeamkbBackup.tla
tlapm TeamkbBackup_proofs.tla
```

and likewise for every run listed in `PROJECT.json`; the longest takes about two minutes, each
proof module one or two.
