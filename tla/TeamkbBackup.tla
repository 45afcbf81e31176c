---------------------------- MODULE TeamkbBackup ----------------------------
(***************************************************************************)
(* bin/teamkb-backup.sh: invocations of the backup script, the             *)
(* brain_govern writers they share ~/.teamkb/.write.lock with, the archive *)
(* directory and its two off-host copies, and the liveness markers.        *)
(*                                                                         *)
(* An artifact's content is the number of the govern pass that wrote it    *)
(* last (0: there is no such file).  An archive is named by the stamp `ts' *)
(* of its invocation.  Whether an archive passed the restore round trip is *)
(* recorded with it (`proved'); the files themselves do not tell.          *)
(***************************************************************************)
EXTENDS Integers, FiniteSets

CONSTANTS
    Runs,         \* invocations of the script; each runs once
    Writers,      \* brain_govern processes
    Nobody,       \* holder of a free lock, author of a missing marker
    GovernDb,     \* teamkb.db
    CompileDb,    \* brain/.ico/state.db
    Tiers,        \* TIER_A_PATHS and TIER_B_PATHS
    Governed,     \* the artifacts one govern pass rewrites
    Required,     \* tiers a restored tree must have (brain/raw, brain/audit)
    Compared,     \* tiers it must have when the live brain has them
    Retain,       \* TEAMKB_BACKUP_RETAIN
    HaveFlock,    \* `command -v flock' succeeds
    OffHost,      \* which of "r2" and "vps" is configured
    MaxGen        \* bound on the number of govern passes

Artifacts == {GovernDb, CompileDb} \cup Tiers

ASSUME ProcessAssumption == /\ Runs \cap Writers = {}
                            /\ Nobody \notin Runs \cup Writers
ASSUME ArtifactAssumption == /\ GovernDb # CompileDb
                             /\ GovernDb \notin Tiers
                             /\ CompileDb \notin Tiers
                             /\ Governed \subseteq Artifacts
                             /\ Required \subseteq Tiers
                             /\ Compared \subseteq Tiers
ASSUME RetainAssumption == Retain \in Nat \ {0}
ASSUME BoundAssumption == /\ HaveFlock \in BOOLEAN
                          /\ OffHost \subseteq {"r2", "vps"}
                          /\ MaxGen \in Nat \ {0}

VARIABLES
    lock,       \* who holds .write.lock
    brain,      \* the content of each artifact
    gen,        \* number of the latest govern pass
    pending,    \* artifacts the latest govern pass has not written yet
    pc,         \* where each invocation is
    flags,      \* RUN_ACCEPTED, RUN_SKIPPED, rc # 0 ... of each invocation
    ts,         \* the stamp in the name of its archive
    snap,       \* what it staged of each artifact
    todo,       \* tiers present in the brain and not staged yet
    now,        \* the latest stamp given
    local,      \* archives in BACKUP_DIR
    r2, vps,    \* archives off host
    okBy,       \* the invocation that last wrote teamkb-backup.ok
    skipMark    \* teamkb-backup.skipped exists

store == <<brain, gen, pending>>
markers == <<okBy, skipMark>>
copies == <<r2, vps>>
staging == <<snap, todo>>
vars == <<lock, store, pc, flags, ts, staging, now, local, copies, markers>>

Absent == 0
Contents == [Artifacts -> Nat]
Empty == [a \in Artifacts |-> Absent]
Archive == [at : Nat, brain : Contents, proved : BOOLEAN]
Copy == [at : Nat, proved : BOOLEAN, intact : BOOLEAN]

\* Where an invocation is: before it owns anything, in the part that `set -e'
\* ends, in the EXIT trap, or gone ("orphaned": killed, a child of it still has
\* the lock's file descriptor).
Body == {"preflight", "govern", "compile", "stage", "archive", "restore",
         "r2", "vps", "prune"}
Trap == {"beat", "mark", "alert"}
Place == {"new", "lock", "orphaned", "done"} \cup Body \cup Trap

Flag == {"accepted", "skipped", "failed", "untrapped", "attempted", "beat", "killed"}

TypeOK ==
    /\ lock \in Runs \cup Writers \cup {Nobody}
    /\ brain \in Contents
    /\ gen \in Nat
    /\ pending \subseteq Governed
    /\ pc \in [Runs -> Place]
    /\ flags \in [Runs -> SUBSET Flag]
    /\ ts \in [Runs -> Nat]
    /\ snap \in [Runs -> Contents]
    /\ todo \in [Runs -> SUBSET Tiers]
    /\ now \in Nat
    /\ local \subseteq Archive
    /\ r2 \subseteq Copy
    /\ vps \subseteq Copy
    /\ okBy \in Runs \cup {Nobody}
    /\ skipMark \in BOOLEAN

\* The brain the first run finds: it was governed before, or an artifact is missing.
Init ==
    /\ lock = Nobody
    /\ brain \in [Artifacts -> {Absent, 1}]
    /\ gen = 1
    /\ pending = {}
    /\ pc = [r \in Runs |-> "new"]
    /\ flags = [r \in Runs |-> {}]
    /\ ts = [r \in Runs |-> 0]
    /\ snap = [r \in Runs |-> Empty]
    /\ todo = [r \in Runs |-> {}]
    /\ now = 0
    /\ local = {}
    /\ r2 = {}
    /\ vps = {}
    /\ okBy = Nobody
    /\ skipMark = FALSE

-----------------------------------------------------------------------------
\* Helpers.

Goto(r, place) == pc' = [pc EXCEPT ![r] = place]
Raise(r, fs) == flags' = [flags EXCEPT ![r] = @ \cup fs]

\* The archive file of r, if there is one, and the others.
Mine(S, r) == {a \in S : a.at = ts[r]}
Others(S, r) == {a \in S : a.at # ts[r]}

\* A mistake: `tail -n +$RETAIN' names one file more.
NewestButOne(S) == {a \in S : Cardinality({b \in S : b.at > a.at}) < Retain - 1}

\* Retention: `ls -1t | tail -n +$((RETAIN + 1))' and `sort | head -n -$RETAIN'
\* both name all but the newest Retain files they see; a deletion may fail.
Newest(S) == {a \in S : Cardinality({b \in S : b.at > a.at}) < Retain}
Retained(S) == {T \in SUBSET S : Newest(S) \subseteq T}

\* The restored tree has what the presence checks ask for: some tiers always,
\* some when the live brain has them.
Restores(r) == /\ \A p \in Required : snap[r][p] # Absent
               /\ \A p \in Compared : brain[p] # Absent => snap[r][p] # Absent

-----------------------------------------------------------------------------
\* Before the lock.

\* mkdir of the archive and log directories fails: the EXIT trap is not there yet.
StartFails(r) ==
    /\ pc[r] = "new"
    /\ Goto(r, "done")
    /\ Raise(r, {"failed", "untrapped"})
    /\ UNCHANGED <<lock, store, ts, staging, now, local, copies, markers>>

\* The lock file cannot be opened: the trap reports it.
OpenFails(r) ==
    /\ pc[r] = "new"
    /\ HaveFlock
    /\ Goto(r, "beat")
    /\ Raise(r, {"failed"})
    /\ UNCHANGED <<lock, store, ts, staging, now, local, copies, markers>>

Start(r) ==
    /\ pc[r] = "new"
    /\ Goto(r, IF HaveFlock THEN "lock" ELSE "preflight")
    /\ UNCHANGED <<lock, store, flags, ts, staging, now, local, copies, markers>>

Acquire(r) ==
    /\ pc[r] = "lock"
    /\ lock = Nobody
    /\ lock' = r
    /\ Goto(r, "preflight")
    /\ UNCHANGED <<store, flags, ts, staging, now, local, copies, markers>>

\* flock -w gives up: the run is skipped, with exit status 0.
LockTimeoutGoesOn(r) ==
    /\ pc[r] = "lock"
    /\ lock # Nobody
    /\ Goto(r, "preflight")
    /\ UNCHANGED <<lock, store, flags, ts, staging, now, local, copies, markers>>

LockWaitsForever(r) == FALSE

LockTimeout(r) ==
    /\ pc[r] = "lock"
    /\ lock # Nobody
    /\ Goto(r, "beat")
    /\ Raise(r, {"skipped"})
    /\ UNCHANGED <<lock, store, ts, staging, now, local, copies, markers>>

-----------------------------------------------------------------------------
\* The body: `set -e' ends it at the first command that fails.

\* Stamps have a resolution of one second.  A run that holds the lock lasts
\* longer than that; without flock two runs can start in the same second.
Preflight(r) ==
    /\ pc[r] = "preflight"
    /\ brain[GovernDb] # Absent
    /\ \E t \in {now, now + 1} :
          /\ t > 0
          /\ HaveFlock => t = now + 1
          /\ ts' = [ts EXCEPT ![r] = t]
          /\ now' = t
    /\ Goto(r, "govern")
    /\ UNCHANGED <<lock, store, flags, staging, local, copies, markers>>

\* A mistake: a run that fails runs the retention all the same.
CommandFailsPrunes(r) ==
    /\ pc[r] \in Body
    /\ Goto(r, "beat")
    /\ Raise(r, {"failed"})
    /\ local' = Newest(local)
    /\ UNCHANGED <<lock, store, ts, staging, now, copies, markers>>

\* A missing file or tool, a full disk, a database that fails its integrity
\* check, an archive that does not decrypt or extract, a log line
\* that cannot be written: rc is not 0.
CommandFails(r) ==
    /\ pc[r] \in Body
    /\ Goto(r, "beat")
    /\ Raise(r, {"failed"})
    /\ UNCHANGED <<lock, store, ts, staging, now, local, copies, markers>>

\* VACUUM INTO of the govern database.
VacuumGovern(r) ==
    /\ pc[r] = "govern"
    /\ snap' = [snap EXCEPT ![r][GovernDb] = brain[GovernDb]]
    /\ Goto(r, "compile")
    /\ UNCHANGED <<lock, store, flags, ts, todo, now, local, copies, markers>>

\* VACUUM INTO of the compile database, if there is one, and the list of the
\* tiers that exist.
VacuumCompile(r) ==
    /\ pc[r] = "compile"
    /\ snap' = [snap EXCEPT ![r][CompileDb] = brain[CompileDb]]
    /\ todo' = [todo EXCEPT ![r] = {p \in Tiers : brain[p] # Absent}]
    /\ Goto(r, IF todo'[r] = {} THEN "archive" ELSE "stage")
    /\ UNCHANGED <<lock, store, flags, ts, now, local, copies, markers>>

\* One tier is copied into the staging directory.
StageStopsEarly(r) ==
    /\ pc[r] = "stage"
    /\ \E p \in todo[r] : snap' = [snap EXCEPT ![r][p] = brain[p]]
    /\ todo' = [todo EXCEPT ![r] = {}]
    /\ Goto(r, "archive")
    /\ UNCHANGED <<lock, store, flags, ts, now, local, copies, markers>>

Stage(r) ==
    /\ pc[r] = "stage"
    /\ \E p \in todo[r] :
          /\ snap' = [snap EXCEPT ![r][p] = brain[p]]
          /\ todo' = [todo EXCEPT ![r] = @ \ {p}]
          /\ Goto(r, IF todo[r] = {p} THEN "archive" ELSE "stage")
    /\ UNCHANGED <<lock, store, flags, ts, now, local, copies, markers>>

\* tar of the staged tree, and age straight into BACKUP_DIR.  age that dies
\* half-way leaves what it wrote under the same name.
Sealed(r) == Others(local, r) \cup
             {[at |-> ts[r], brain |-> snap[r], proved |-> FALSE]}

EncryptUnlocked(r) ==
    /\ pc[r] = "archive"
    /\ local' = Sealed(r)
    /\ lock' = Nobody
    /\ Goto(r, "restore")
    /\ UNCHANGED <<store, flags, ts, staging, now, copies, markers>>

Encrypt(r) ==
    /\ pc[r] = "archive"
    /\ local' = Sealed(r)
    /\ Goto(r, "restore")
    /\ UNCHANGED <<lock, store, flags, ts, staging, now, copies, markers>>

EncryptFails(r) ==
    /\ pc[r] = "archive"
    /\ local' = Sealed(r)
    /\ Goto(r, "beat")
    /\ Raise(r, {"failed"})
    /\ UNCHANGED <<lock, store, ts, staging, now, copies, markers>>

\* Decrypt, extract and compare on tmpfs: the run is accepted ...
VerifyPasses(r) ==
    /\ pc[r] = "restore"
    /\ Restores(r)
    /\ Mine(local, r) # {}
    /\ local' = Others(local, r) \cup
                {[at |-> a.at, brain |-> a.brain, proved |-> TRUE] : a \in Mine(local, r)}
    /\ Raise(r, {"accepted"})
    /\ Goto(r, "r2")
    /\ UNCHANGED <<lock, store, ts, staging, now, copies, markers>>

\* ... or an integrity check, a count, a presence test or the anchor verifier
\* objects, and the archive is removed.
VerifyFailsGoesOn(r) ==
    /\ pc[r] = "restore"
    /\ Mine(local, r) # {}
    /\ Goto(r, "r2")
    /\ UNCHANGED <<lock, store, flags, ts, staging, now, local, copies, markers>>

VerifyFails(r) ==
    /\ pc[r] = "restore"
    /\ Mine(local, r) # {}
    /\ local' = Others(local, r)
    /\ Raise(r, {"failed"})
    /\ Goto(r, "beat")
    /\ UNCHANGED <<lock, store, ts, staging, now, copies, markers>>

\* The copy of r's archive that a push leaves at the other end.
CopyOf(r, ok) == {[at |-> a.at, proved |-> a.proved, intact |-> ok] : a \in Mine(local, r)}

\* rclone copy, then retention there.  A push that fails is alerted and forgotten.
PushR2(r) ==
    /\ pc[r] = "r2"
    /\ Goto(r, "vps")
    /\ \/ /\ "r2" \in OffHost
          /\ Mine(local, r) # {}
          /\ r2' \in Retained(Others(r2, r) \cup CopyOf(r, TRUE))
       \/ UNCHANGED r2
    /\ UNCHANGED <<lock, store, flags, ts, staging, now, local, vps, markers>>

\* rsync to the VPS.  Retention runs there only when the checksums agree; a
\* copy whose checksum differs, or cannot be read, stays.
PushVpsPrunesAnyway(r) ==
    /\ pc[r] = "vps"
    /\ Goto(r, "prune")
    /\ \E ok \in BOOLEAN : vps' = Newest(Others(vps, r) \cup CopyOf(r, ok))
    /\ UNCHANGED <<lock, store, flags, ts, staging, now, local, r2, markers>>

PushVps(r) ==
    /\ pc[r] = "vps"
    /\ Goto(r, "prune")
    /\ \/ /\ "vps" \in OffHost
          /\ Mine(local, r) # {}
          /\ \/ vps' \in Retained(Others(vps, r) \cup CopyOf(r, TRUE))
             \/ vps' = Others(vps, r) \cup CopyOf(r, FALSE)
       \/ UNCHANGED vps
    /\ UNCHANGED <<lock, store, flags, ts, staging, now, local, r2, markers>>

\* sha256sum of the local archive fails after the push: `set -e' ends the run.
ChecksumFails(r) ==
    /\ pc[r] = "vps"
    /\ "vps" \in OffHost
    /\ vps' = Others(vps, r) \cup CopyOf(r, FALSE)
    /\ Raise(r, {"failed"})
    /\ Goto(r, "beat")
    /\ UNCHANGED <<lock, store, ts, staging, now, local, r2, markers>>

\* Local retention; an archive that cannot be deleted makes the run fail.
Prune(r) ==
    /\ pc[r] = "prune"
    /\ \/ /\ local' = Newest(local)
          /\ UNCHANGED flags
       \/ /\ local' \in Retained(local)
          /\ Raise(r, {"failed"})
    /\ Goto(r, "beat")
    /\ UNCHANGED <<lock, store, ts, staging, now, copies, markers>>

-----------------------------------------------------------------------------
\* The EXIT trap, _backup_on_exit.

\* The work directories go, the heartbeat comes; a liveness directory or a
\* heartbeat it cannot write makes the run fail.
TrapBeat(r) ==
    /\ pc[r] = "beat"
    /\ \/ Raise(r, {"beat"})
       \/ Raise(r, {"failed"})
    /\ snap' = [snap EXCEPT ![r] = Empty]
    /\ todo' = [todo EXCEPT ![r] = {}]
    /\ Goto(r, "mark")
    /\ UNCHANGED <<lock, store, ts, now, local, copies, markers>>

\* A skipped run leaves .skipped, an accepted one that did not fail leaves .ok
\* and takes .skipped away; any other leaves both as they were.  A .skipped that
\* cannot be written or removed is ignored, a .ok that cannot be written is a failure.
TrapMarkForgetsRc(r) ==
    /\ pc[r] = "mark"
    /\ IF "accepted" \in flags[r] THEN okBy' = r ELSE UNCHANGED okBy
    /\ Goto(r, "alert")
    /\ UNCHANGED <<lock, store, flags, ts, staging, now, local, copies, skipMark>>

TrapMarkLosesOk(r) ==
    /\ pc[r] = "mark"
    /\ Goto(r, "alert")
    /\ UNCHANGED <<lock, store, flags, ts, staging, now, local, copies, markers>>

TrapMark(r) ==
    /\ pc[r] = "mark"
    /\ \/ /\ "skipped" \in flags[r]
          /\ skipMark' \in {TRUE, skipMark}
          /\ UNCHANGED <<okBy, flags>>
       \/ /\ "accepted" \in flags[r]
          /\ flags[r] \cap {"skipped", "failed"} = {}
          /\ \/ /\ okBy' = r
                /\ skipMark' \in {FALSE, skipMark}
                /\ UNCHANGED flags
             \/ /\ Raise(r, {"failed"})
                /\ UNCHANGED markers
       \/ /\ "failed" \in flags[r]
          /\ "skipped" \notin flags[r]
          /\ UNCHANGED <<markers, flags>>
    /\ Goto(r, "alert")
    /\ UNCHANGED <<lock, store, ts, staging, now, local, copies>>

\* A run that failed sends its one alert, delivered or not; the process ends
\* and the kernel drops its lock.
TrapAlertIfUnaccepted(r) ==
    /\ pc[r] = "alert"
    /\ IF "failed" \in flags[r] /\ "accepted" \notin flags[r]
         THEN Raise(r, {"attempted"}) ELSE UNCHANGED flags
    /\ lock' = IF lock = r THEN Nobody ELSE lock
    /\ Goto(r, "done")
    /\ UNCHANGED <<store, ts, staging, now, local, copies, markers>>

TrapAlert(r) ==
    /\ pc[r] = "alert"
    /\ IF "failed" \in flags[r] THEN Raise(r, {"attempted"}) ELSE UNCHANGED flags
    /\ lock' = IF lock = r THEN Nobody ELSE lock
    /\ Goto(r, "done")
    /\ UNCHANGED <<store, ts, staging, now, local, copies, markers>>

-----------------------------------------------------------------------------
\* SIGKILL or a power loss: no trap.  A child that runs on (age, rclone, rsync)
\* inherited the lock's descriptor and holds the lock until it ends; nobody
\* reads the staging directory again.
Kill(r) ==
    /\ pc[r] \notin {"new", "orphaned", "done"}
    /\ Goto(r, IF lock = r THEN "orphaned" ELSE "done")
    /\ Raise(r, {"killed"})
    /\ snap' = [snap EXCEPT ![r] = Empty]
    /\ todo' = [todo EXCEPT ![r] = {}]
    /\ UNCHANGED <<lock, store, ts, now, local, copies, markers>>

OrphanEnds(r) ==
    /\ pc[r] = "orphaned"
    /\ lock' = Nobody
    /\ Goto(r, "done")
    /\ UNCHANGED <<store, flags, ts, staging, now, local, copies, markers>>

-----------------------------------------------------------------------------
\* brain_govern, which is not in this repository: it takes the same lock, writes
\* its artifacts one after another, and can die between two of them.

run == <<pc, flags, ts, staging, now, local, copies, markers>>

GovernBegin(w) ==
    /\ lock = Nobody
    /\ gen < MaxGen
    /\ lock' = w
    /\ gen' = gen + 1
    /\ pending' = Governed
    /\ UNCHANGED <<brain, run>>

GovernWrite(w) ==
    /\ lock = w
    /\ \E a \in pending : /\ brain' = [brain EXCEPT ![a] = gen]
                          /\ pending' = pending \ {a}
    /\ UNCHANGED <<lock, gen, run>>

GovernEnd(w) ==
    /\ lock = w
    /\ pending = {}
    /\ lock' = Nobody
    /\ UNCHANGED <<store, run>>

GovernDies(w) ==
    /\ lock = w
    /\ pending # {}
    /\ lock' = Nobody
    /\ UNCHANGED <<store, run>>

-----------------------------------------------------------------------------
\* What an invocation does by itself once it was started ...
RunStep(r) ==
    \/ Acquire(r)
    \/ LockTimeout(r)
    \/ Preflight(r)
    \/ CommandFails(r)
    \/ VacuumGovern(r)
    \/ VacuumCompile(r)
    \/ Stage(r)
    \/ Encrypt(r)
    \/ EncryptFails(r)
    \/ VerifyPasses(r)
    \/ VerifyFails(r)
    \/ PushR2(r)
    \/ PushVps(r)
    \/ ChecksumFails(r)
    \/ Prune(r)
    \/ TrapBeat(r)
    \/ TrapMark(r)
    \/ TrapAlert(r)
    \/ OrphanEnds(r)

\* ... and what happens to it.
RunEvent(r) == Start(r) \/ StartFails(r) \/ OpenFails(r) \/ Kill(r)

GovernStep(w) == GovernBegin(w) \/ GovernWrite(w) \/ GovernEnd(w) \/ GovernDies(w)

\* Every invocation has ended and no govern pass is left: nothing more happens.
Finished == /\ \A r \in Runs : pc[r] = "done"
            /\ lock = Nobody
            /\ gen = MaxGen
            /\ UNCHANGED vars

Next == \/ \E r \in Runs : RunStep(r) \/ RunEvent(r)
        \/ \E w \in Writers : GovernStep(w)
        \/ Finished

Spec == Init /\ [][Next]_vars

\* A started invocation keeps running: its commands return and `flock -w' gives
\* up.  Nothing is assumed of brain_govern, which may hold the lock for ever.
FairSpec == Spec /\ \A r \in Runs : WF_vars(RunStep(r))

-----------------------------------------------------------------------------
\* Properties.

Ended(r) == pc[r] = "done" /\ "killed" \notin flags[r]
HoldsBrain(r) == pc[r] \in Body \cup {"orphaned"}

\* The writer lock keeps an invocation, a killed one whose children still run
\* included, apart from the other invocations and from brain_govern while it
\* reads the brain or touches the archives, also when others give up waiting
\* for the lock or die with it (lines 169-191).
MutualExclusion ==
    HaveFlock => \A r \in Runs : HoldsBrain(r) => lock = r

\* Once an invocation was accepted there is always an archive in BACKUP_DIR that
\* passed the round trip and is not older than its own: neither retention,
\* nor the removal of an unrestorable archive, nor a killed or failed later run
\* that leaves a file takes the last restorable backup (lines 361-368, 439-443).
RestorableFloor ==
    HaveFlock => \A r \in Runs : "accepted" \in flags[r] =>
                     \E a \in local : a.proved /\ a.at >= ts[r]

LeavesTheNewest(r) ==
    LET n == Cardinality(local)
        left == IF n < Retain THEN n ELSE Retain
    IN  /\ Cardinality(local') >= left
        /\ "failed" \notin flags'[r] =>
              /\ Cardinality(local') = left
              /\ \A a \in local \ local' : \A b \in local' : a.at < b.at

\* A run that gets through retention leaves the newest archives, as many as
\* TEAMKB_BACKUP_RETAIN says, or all of them when there are not so many: stamps
\* are told apart, and the count is not one off.  One that fails to delete leaves
\* no fewer (lines 439-443).
RetentionCounts ==
    [][\A r \in Runs : pc[r] = "prune" /\ pc'[r] = "beat" => LeavesTheNewest(r)]_vars

\* The success marker was last written by an invocation that was accepted, did
\* not fail afterwards and was not skipped; the skip marker is the work of a run
\* that was skipped (lines 150-159).
MarkersAreHonest ==
    /\ okBy # Nobody => /\ "accepted" \in flags[okBy]
                        /\ flags[okBy] \cap {"failed", "skipped"} = {}
    /\ skipMark => \E r \in Runs : "skipped" \in flags[r]

\* Nobody who reads markers and alerts mistakes an invocation whose trap ran: a
\* failed one tried to alert, any other left its heartbeat and, unless skipped,
\* is the author of the success marker (lines 138-169).
ExitIsReported ==
    \A r \in Runs :
      /\ Ended(r) /\ "failed" \in flags[r] /\ "untrapped" \notin flags[r]
            => "attempted" \in flags[r]
      /\ pc[r] = "alert" /\ "failed" \notin flags[r]
            => /\ "beat" \in flags[r]
               /\ HaveFlock => "skipped" \in flags[r] \/ okBy = r

\* No archive leaves the host that did not pass the round trip (lines 367-436).
OffHostIsProved ==
    HaveFlock => \A c \in r2 \cup vps : c.proved

\* An intact off-host copy is given up only for a newer intact one, however many
\* suspect copies count against the retention there (lines 390-394, 418-427).
OffHostFloor ==
    [][HaveFlock => \A c \in vps : c.intact => \E d \in vps' : d.intact /\ d.at >= c.at]_vps

\* The governed artifacts that exist were written by one and the same pass.
OnePass(content) ==
    \A a, b \in Governed : content[a] # Absent /\ content[b] # Absent
                              => content[a] = content[b]

\* An archive is accepted only while no govern pass is under way, and when the
\* last pass reached its end the archive holds one pass, not a mixture of two;
\* the two databases and the tiers are read in separate steps (lines 55-67).
KeptIsOnePass ==
    [][HaveFlock => \A a \in local' : a.proved /\ a \notin local
          => /\ lock \notin Writers
             /\ pending = {} => OnePass(a.brain)]_local

\* A started invocation ends, whatever becomes of the other holders of the lock.
RunsEnd == \A r \in Runs : pc[r] # "new" ~> pc[r] = "done"

\* The archives that passed the round trip are the ones the promise is about.
Kept == {[at |-> a.at, brain |-> a.brain] : a \in {b \in local : b.proved}}

Promise == INSTANCE AtomicBackup WITH kept <- Kept

\* The script keeps the promise of AtomicBackup: each archive it accepts holds
\* the whole brain of one instant, although it is read artifact by artifact.
ImplementsAtomicBackup == Promise!Spec

-----------------------------------------------------------------------------
\* What the properties rest on, an invariant that every step preserves.

Stamped == Body \ {"preflight"}
Unverified == {"govern", "compile", "stage", "archive", "restore"}
Verified == {"r2", "vps", "prune"}

\* The run in its body has the latest stamp.  Until it is verified every
\* restorable archive is older; from then on its own is there and restorable.
StampInv ==
    HaveFlock =>
      /\ \A a \in local : a.at <= now
      /\ \A c \in vps : c.at <= now
      /\ \A r \in Runs :
           /\ ts[r] <= now
           /\ pc[r] \in Stamped => ts[r] = now
           /\ pc[r] \in Unverified => \A a \in local : a.proved => a.at < now
           /\ pc[r] \in Stamped \ {"prune"} => \A c \in vps : c.at < now
           /\ pc[r] \in Verified => /\ Mine(local, r) # {}
                                    /\ \A a \in Mine(local, r) : a.proved

\* What the run in its body has staged so far is what the brain holds now, and
\* what it sealed is what it staged.
SnapInv ==
    HaveFlock =>
      \A r \in Runs :
        /\ pc[r] \in {"new", "lock", "preflight", "govern", "compile"} =>
              \A p \in Tiers : snap[r][p] = Absent
        /\ pc[r] \in {"compile", "stage", "archive", "restore"} =>
              snap[r][GovernDb] = brain[GovernDb]
        /\ pc[r] \in {"stage", "archive", "restore"} =>
              snap[r][CompileDb] = brain[CompileDb]
        /\ pc[r] = "stage" => \A p \in Tiers \ todo[r] : snap[r][p] = brain[p]
        /\ pc[r] \in {"archive", "restore"} => \A p \in Tiers : snap[r][p] = brain[p]
        /\ pc[r] = "restore" =>
              Mine(local, r) \subseteq {[at |-> ts[r], brain |-> snap[r], proved |-> FALSE]}

\* An artifact the latest pass is done with holds that pass.
PassInv == \A a \in Governed \ pending : brain[a] # Absent => brain[a] = gen

\* The author of the success marker is past the point where it could fail; an
\* accepted run has the lock until it ends.
MarkInv ==
    \A r \in Runs :
      /\ okBy = r => pc[r] \in {"alert", "orphaned", "done"}
      /\ pc[r] \in {"mark", "alert"} /\ "failed" \notin flags[r] => "beat" \in flags[r]
      /\ pc[r] = "orphaned" => "killed" \in flags[r]
      /\ pc[r] \in Trap => \E f \in {"skipped", "accepted", "failed"} : f \in flags[r]
      /\ pc[r] \in Verified => "accepted" \in flags[r]
      /\ HaveFlock /\ "accepted" \in flags[r] /\ pc[r] \in Body \cup Trap => lock = r
      /\ pc[r] \in {"new", "lock"} \cup Body => "skipped" \notin flags[r]
      /\ pc[r] \in {"new", "lock"} \cup Body => "failed" \notin flags[r]
      /\ pc[r] \in {"new", "lock"} \cup Unverified \cup {"preflight"} => "accepted" \notin flags[r]

Inductive == TypeOK /\ MutualExclusion /\ StampInv /\ SnapInv /\ PassInv /\ MarkInv

-----------------------------------------------------------------------------
\* What the script's comments say and the script does not do.

\* "The backup is KEPT ONLY if it provably restores. An unrestorable backup is
\* deleted" (lines 41-43): when an invocation ends by itself, its archive is
\* there only if it passed the round trip.
UnrestorableIsDeleted ==
    \A r \in Runs : Ended(r) => \A a \in Mine(local, r) : a.proved
=============================================================================
