--------------------------- MODULE CompilerInstall ---------------------------
(***************************************************************************)
(* bin/install-teamkb-compiler.py and the entry it installs for,           *)
(* bin/teamkb-compile-daily.sh: installers that may overlap and be killed, *)
(* the nightly launchers, the operator's rollback, and a local writer that *)
(* changes an installed file.                                              *)
(*                                                                         *)
(* A file's content is the commit whose bytes it has (Other: bytes of no   *)
(* commit, Missing: no file), so a hash matches when the contents agree.   *)
(***************************************************************************)
EXTENDS Integers, FiniteSets

CONSTANTS
    Installers,   \* runs of the installer
    Launchers,    \* nightly runs of the entry
    Revs,         \* compiler commits
    Base,         \* FILES
    Wrapper,      \* teamkb-compile-daily.sh, one of them
    Entry,        \* nightly-entry.py, one of them
    Helper,       \* review-metrics.py
    Reviewed,     \* commits that origin/main contains
    Tree,         \* the files of each commit's scripts/distiller
    Declares,     \* commits whose wrapper names the helper
    Parses,       \* commits whose files pass bash -n and compile()
    Other, Missing, None, Unmanaged,
    MaxDrift      \* bound on the writes of the local writer

Files == Base \cup {Helper}
Homes == Revs \cup {Unmanaged}
Procs == Installers \cup Launchers
Content == Revs \cup {Other, Missing}

ASSUME FilesAssumption == Wrapper \in Base /\ Entry \in Base /\ Helper \notin Base
ASSUME CommitAssumption == /\ Reviewed \subseteq Revs
                           /\ Parses \subseteq Revs
                           /\ Tree \in [Revs -> SUBSET Files]
                           /\ Declares \subseteq {r \in Revs : Wrapper \in Tree[r]}
ASSUME ValueAssumption == /\ Other # Missing
                          /\ {Other, Missing, None, Unmanaged} \cap Revs = {}
                          /\ None # Unmanaged
                          /\ Installers \cap Launchers = {}
                          /\ MaxDrift \in Nat

VARIABLES
    published,    \* directories that exist: releases/<commit>, a real `current'
    dir,          \* what is in them
    current,      \* what the entry's symlink names
    previous,     \* what the rollback symlink names
    pc,           \* where each installer is
    rev,          \* its --revision
    staged,       \* installers whose staging directory exists
    stage,        \* what is in it
    seen,         \* the `current' it resolved
    failing,      \* installers that raised
    at,           \* where each launcher is
    root,         \* the directory it resolved
    read,         \* the manifest it loaded
    ran,          \* the directory its exec went to
    hashed,       \* files whose hash a process has found right
    drifts,       \* writes of the local writer so far
    spoiled,      \* history: directories it wrote to
    late,         \* history: files it wrote to while a process was at work on them
    activated,    \* history: releases `current' has named
    switched,     \* history: installers that replaced `current'
    raced         \* history: installers whose resolved `current' others overtook

releases == <<published, dir>>
links == <<current, previous, activated, switched, raced>>
installer == <<pc, rev, staged, stage, seen, failing>>
launcher == <<at, root, read, ran>>
drift == <<drifts, spoiled>>
vars == <<releases, links, installer, launcher, hashed, drift, late>>

Manifest == [rev : Content, pins : SUBSET Files]
NoManifest == [rev |-> Missing, pins |-> {}]
Bundle == [files : [Files -> Content], manifest : Manifest]
EmptyDir == [files |-> [f \in Files |-> Missing], manifest |-> NoManifest]
Packed(r, fs) == [files |-> [f \in Files |-> IF f \in fs THEN r ELSE Missing],
                  manifest |-> [rev |-> r, pins |-> fs]]

\* The file list of a commit: the helper goes with the commits that have it.
Ships(r) == IF Helper \in Tree[r] THEN Base \cup {Helper} ELSE Base

Place == {"new", "collect", "write", "manifest", "place", "compare", "hash",
          "publish", "resolve", "keep", "switch", "cleanup", "done", "failed", "killed"}
Busy == Place \ {"new", "done", "failed", "killed"}
Standing == {"idle", "resolve", "read", "hash", "exec", "running"}

TypeOK ==
    /\ published \subseteq Homes
    /\ dir \in [Homes -> Bundle]
    /\ current \in Homes \cup {None}
    /\ previous \in Homes \cup {None}
    /\ pc \in [Installers -> Place]
    /\ rev \in [Installers -> Revs]
    /\ staged \subseteq Installers
    /\ stage \in [Installers -> Bundle]
    /\ seen \in [Installers -> Homes \cup {None}]
    /\ failing \subseteq Installers
    /\ at \in [Launchers -> Standing]
    /\ root \in [Launchers -> Homes \cup {None}]
    /\ read \in [Launchers -> Manifest]
    /\ ran \in [Launchers -> Homes \cup {None}]
    /\ hashed \in [Procs -> SUBSET Files]
    /\ drifts \in Nat
    /\ spoiled \subseteq Homes
    /\ late \in [Procs -> SUBSET Files]
    /\ activated \subseteq Revs
    /\ switched \subseteq Installers
    /\ raced \subseteq Installers

\* What the first installer of this version finds: releases that it or the
\* six-file installer made, or a directory where the symlink should be.
Init ==
    /\ published \in SUBSET Homes
    /\ \A h \in published : h # Unmanaged => h \in Reviewed \cap Parses /\ Base \subseteq Tree[h]
    /\ dir \in [Homes -> {EmptyDir} \cup {Packed(r, fs) : r \in Reviewed, fs \in {Base, Files}}]
    /\ \A h \in Revs : IF h \in published THEN dir[h] \in {Packed(h, Base), Packed(h, Ships(h))}
                                          ELSE dir[h] = EmptyDir
    /\ dir[Unmanaged] = EmptyDir
    /\ current \in published \cup {None}
    /\ Unmanaged \in published => current = Unmanaged
    /\ previous \in (published \ {Unmanaged}) \cup {None}
    /\ previous # None => current \in Revs
    /\ pc = [i \in Installers |-> "new"]
    /\ rev \in [Installers -> Revs]
    /\ staged = {}
    /\ stage = [i \in Installers |-> EmptyDir]
    /\ seen = [i \in Installers |-> None]
    /\ failing = {}
    /\ at = [l \in Launchers |-> "idle"]
    /\ root = [l \in Launchers |-> None]
    /\ read = [l \in Launchers |-> NoManifest]
    /\ ran = [l \in Launchers |-> None]
    /\ hashed = [p \in Procs |-> {}]
    /\ drifts = 0
    /\ spoiled = {}
    /\ late = [p \in Procs |-> {}]
    /\ activated = {current, previous} \ {None, Unmanaged}
    /\ switched = {}
    /\ raced = {}

-----------------------------------------------------------------------------
\* The installer.

Goto(i, place) == pc' = [pc EXCEPT ![i] = place]

\* Installers other than i that have resolved `current' and not replaced it yet.
Overtaken(i) == {j \in Installers \ {i} : pc[j] \in {"keep", "switch"}}

\* The commit is an ancestor of origin/main, and mkdtemp gives a directory.
Begin(i) ==
    /\ pc[i] = "new"
    /\ rev[i] \in Reviewed
    /\ staged' = staged \cup {i}
    /\ Goto(i, "collect")
    /\ UNCHANGED <<releases, links, rev, stage, seen, failing, launcher, hashed, drift, late>>

\* The commit is refused, or a directory cannot be made.
Refuse(i) ==
    /\ pc[i] = "new"
    /\ failing' = failing \cup {i}
    /\ Goto(i, "failed")
    /\ UNCHANGED <<releases, links, rev, staged, stage, seen, launcher, hashed, drift, late>>

\* A wrapper that names the helper in a tree without it is refused.
Collect(i) ==
    /\ pc[i] = "collect"
    /\ rev[i] \in Declares => Helper \in Tree[rev[i]]
    /\ Goto(i, "write")
    /\ UNCHANGED <<releases, links, rev, staged, stage, seen, failing, launcher, hashed, drift, late>>

WriteFile(i) ==
    /\ pc[i] = "write"
    /\ \E f \in Ships(rev[i]) \cap Tree[rev[i]] :
          /\ stage[i].files[f] = Missing
          /\ stage' = [stage EXCEPT ![i] = [files |-> [@.files EXCEPT ![f] = rev[i]],
                                            manifest |-> @.manifest]]
    /\ UNCHANGED <<releases, links, pc, rev, staged, seen, failing, launcher, hashed, drift, late>>

\* A mistake: the files are checked after the first is written.
CheckSyntaxEarly(i) ==
    /\ pc[i] = "write"
    /\ \E f \in Ships(rev[i]) : stage[i].files[f] # Missing
    /\ rev[i] \in Parses
    /\ Goto(i, "manifest")
    /\ UNCHANGED <<releases, links, rev, staged, stage, seen, failing, launcher, hashed, drift, late>>

CheckSyntax(i) ==
    /\ pc[i] = "write"
    /\ \A f \in Ships(rev[i]) : stage[i].files[f] # Missing
    /\ rev[i] \in Parses
    /\ Goto(i, "manifest")
    /\ UNCHANGED <<releases, links, rev, staged, stage, seen, failing, launcher, hashed, drift, late>>

WriteManifest(i) ==
    /\ pc[i] = "manifest"
    /\ stage' = [stage EXCEPT ![i] = [files |-> @.files,
                                      manifest |-> [rev |-> rev[i], pins |-> Ships(rev[i])]]]
    /\ Goto(i, "place")
    /\ UNCHANGED <<releases, links, rev, staged, seen, failing, launcher, hashed, drift, late>>

\* A mistake: an existing release is removed to make room.
FindTargetRemoves(i) ==
    /\ pc[i] = "place"
    /\ published' = published \ {rev[i]}
    /\ Goto(i, "publish")
    /\ UNCHANGED <<dir, links, rev, staged, stage, seen, failing, launcher, hashed, drift, late>>

\* target.exists()
FindTarget(i) ==
    /\ pc[i] = "place"
    /\ Goto(i, IF rev[i] \in published THEN "compare" ELSE "publish")
    /\ UNCHANGED <<releases, links, rev, staged, stage, seen, failing, launcher, hashed, drift, late>>

CompareManifest(i) ==
    /\ pc[i] = "compare"
    /\ dir[rev[i]].manifest = stage[i].manifest
    /\ Goto(i, "hash")
    /\ UNCHANGED <<releases, links, rev, staged, stage, seen, failing, launcher, hashed, drift, late>>

\* A mistake: the manifest is counted among the files that were hashed.
HashFileAndManifest(i) ==
    /\ pc[i] = "hash"
    /\ hashed' = [hashed EXCEPT ![i] = @ \cup {"manifest.json"}]
    /\ UNCHANGED <<releases, links, installer, launcher, drift, late>>

HashFile(i) ==
    /\ pc[i] = "hash"
    /\ \E f \in Ships(rev[i]) \ hashed[i] :
          /\ dir[rev[i]].files[f] = rev[i]
          /\ hashed' = [hashed EXCEPT ![i] = @ \cup {f}]
    /\ UNCHANGED <<releases, links, installer, launcher, drift, late>>

\* A mistake: one right hash is enough.
AllHashedEarly(i) ==
    /\ pc[i] = "hash"
    /\ hashed[i] # {}
    /\ Goto(i, "resolve")
    /\ UNCHANGED <<releases, links, rev, staged, stage, seen, failing, launcher, hashed, drift, late>>

AllHashed(i) ==
    /\ pc[i] = "hash"
    /\ Ships(rev[i]) \subseteq hashed[i]
    /\ Goto(i, "resolve")
    /\ UNCHANGED <<releases, links, rev, staged, stage, seen, failing, launcher, hashed, drift, late>>

\* os.replace(stage, target): fails when somebody else put the release there meanwhile.
Publish(i) ==
    /\ pc[i] = "publish"
    /\ rev[i] \notin published
    /\ published' = published \cup {rev[i]}
    /\ dir' = [dir EXCEPT ![rev[i]] = stage[i]]
    /\ staged' = staged \ {i}
    /\ Goto(i, "resolve")
    /\ UNCHANGED <<links, rev, stage, seen, failing, launcher, hashed, drift, late>>

\* current.resolve(); a real directory is refused.
Resolve(i) ==
    /\ pc[i] = "resolve"
    /\ current # Unmanaged
    /\ seen' = [seen EXCEPT ![i] = current]
    /\ Goto(i, "keep")
    /\ UNCHANGED <<releases, links, rev, staged, stage, failing, launcher, hashed, drift, late>>

\* A mistake: a `previous' that exists is left alone.
KeepOldestPrevious(i) ==
    /\ pc[i] = "keep"
    /\ IF seen[i] \in {None, rev[i]} \/ previous # None
       THEN UNCHANGED <<previous, raced>>
       ELSE /\ previous' = seen[i]
            /\ raced' = raced \cup Overtaken(i)
    /\ Goto(i, "switch")
    /\ UNCHANGED <<releases, current, activated, switched, rev, staged, stage, seen, failing,
                   launcher, hashed, drift, late>>

\* A mistake: `current' moves before `previous' is kept.
KeepPreviousLast(i) ==
    /\ pc[i] = "keep"
    /\ current' = rev[i]
    /\ activated' = activated \cup {rev[i]}
    /\ switched' = switched \cup {i}
    /\ raced' = raced \cup Overtaken(i)
    /\ Goto(i, "switch")
    /\ UNCHANGED <<releases, previous, rev, staged, stage, seen, failing, launcher, hashed, drift, late>>

\* The new link is made under a name of its own and renamed over `previous'.
KeepPrevious(i) ==
    /\ pc[i] = "keep"
    /\ IF seen[i] \in {None, rev[i]}
       THEN UNCHANGED <<previous, raced>>
       ELSE /\ previous' = seen[i]
            /\ raced' = raced \cup Overtaken(i)
    /\ Goto(i, "switch")
    /\ UNCHANGED <<releases, current, activated, switched, rev, staged, stage, seen, failing,
                   launcher, hashed, drift, late>>

Switch(i) ==
    /\ pc[i] = "switch"
    /\ current' = rev[i]
    /\ activated' = activated \cup {rev[i]}
    /\ switched' = switched \cup {i}
    /\ raced' = raced \cup Overtaken(i)
    /\ Goto(i, "cleanup")
    /\ UNCHANGED <<releases, previous, rev, staged, stage, seen, failing, launcher, hashed, drift, late>>

\* An exception of any of the steps between mkdtemp and the last os.replace.
Raise(i) ==
    /\ pc[i] \in Busy \ {"cleanup"}
    /\ failing' = failing \cup {i}
    /\ Goto(i, "cleanup")
    /\ UNCHANGED <<releases, links, rev, staged, stage, seen, launcher, hashed, drift, late>>

\* finally: the staging directory goes, if the release has not taken its place.
Cleanup(i) ==
    /\ pc[i] = "cleanup"
    /\ staged' = staged \ {i}
    /\ Goto(i, IF i \in failing THEN "failed" ELSE "done")
    /\ UNCHANGED <<releases, links, rev, stage, seen, failing, launcher, hashed, drift, late>>

\* rmtree raises: the failure message goes out whatever came before.
CleanupFails(i) ==
    /\ pc[i] = "cleanup"
    /\ i \in staged
    /\ failing' = failing \cup {i}
    /\ Goto(i, "failed")
    /\ UNCHANGED <<releases, links, rev, staged, stage, seen, launcher, hashed, drift, late>>

Kill(i) ==
    /\ pc[i] \in Busy
    /\ Goto(i, "killed")
    /\ UNCHANGED <<releases, links, rev, staged, stage, seen, failing, launcher, hashed, drift, late>>

-----------------------------------------------------------------------------
\* The launcher.

Stand(l, place) == at' = [at EXCEPT ![l] = place]

\* [[ -f ]] through the symlink.
Look(l) ==
    /\ at[l] = "idle"
    /\ current # None
    /\ dir[current].manifest # NoManifest
    /\ dir[current].files[Entry] # Missing
    /\ Stand(l, "resolve")
    /\ UNCHANGED <<releases, links, installer, root, read, ran, hashed, drift, late>>

ResolveRoot(l) ==
    /\ at[l] = "resolve"
    /\ root' = [root EXCEPT ![l] = current]
    /\ hashed' = [hashed EXCEPT ![l] = {}]
    /\ late' = [late EXCEPT ![l] = {}]
    /\ Stand(l, "read")
    /\ UNCHANGED <<releases, links, installer, read, ran, drift>>

ReadManifest(l) ==
    /\ at[l] = "read"
    /\ LET m == dir[root[l]].manifest
       IN  /\ m.rev \in Revs
           /\ m.pins \in {Base, Base \cup {Helper}}
           /\ read' = [read EXCEPT ![l] = [rev |-> m.rev, pins |-> m.pins]]
    /\ Stand(l, "hash")
    /\ UNCHANGED <<releases, links, installer, root, ran, hashed, drift, late>>

HashPinned(l) ==
    /\ at[l] = "hash"
    /\ \E f \in read[l].pins \ hashed[l] :
          /\ dir[root[l]].files[f] = read[l].rev
          /\ hashed' = [hashed EXCEPT ![l] = @ \cup {f}]
    /\ UNCHANGED <<releases, links, installer, launcher, drift, late>>

\* A mistake: the pinned files are all that is checked.
AllPinnedTrusting(l) ==
    /\ at[l] = "hash"
    /\ read[l].pins \subseteq hashed[l]
    /\ Stand(l, "exec")
    /\ UNCHANGED <<releases, links, installer, root, read, ran, hashed, drift, late>>

\* The wrapper is read once more: does it name a helper that is not pinned?
\* Bytes of no commit may or may not name it.
AllPinned(l) ==
    /\ at[l] = "hash"
    /\ read[l].pins \subseteq hashed[l]
    /\ LET bytes == dir[root[l]].files[Wrapper]
       IN  /\ bytes # Missing
           /\ bytes \in Declares => Helper \in read[l].pins
    /\ Stand(l, "exec")
    /\ UNCHANGED <<releases, links, installer, root, read, ran, hashed, drift, late>>

\* exec goes through the symlink again.
Exec(l) ==
    /\ at[l] = "exec"
    /\ dir[current].files[Entry] # Missing
    /\ ran' = [ran EXCEPT ![l] = current]
    /\ Stand(l, "running")
    /\ UNCHANGED <<releases, links, installer, root, read, hashed, drift, late>>

\* exit 69, or any other end before the exec; the end of the night's work.
Leave(l) ==
    /\ at[l] # "idle"
    /\ Stand(l, "idle")
    /\ UNCHANGED <<releases, links, installer, root, read, ran, hashed, drift, late>>

-----------------------------------------------------------------------------
\* The others.

\* The documented rollback: a link to what `previous' names is renamed over `current'.
Rollback ==
    /\ previous # None
    /\ current \notin {Unmanaged, previous}
    /\ current' = previous
    /\ raced' = raced \cup {j \in Installers : pc[j] \in {"keep", "switch"}}
    /\ UNCHANGED <<releases, previous, activated, switched, installer, launcher, hashed, drift, late>>

\* A local writer changes, removes or restores an installed file ...
Touched(h, f) ==
    late' = [p \in Procs |->
              IF \/ p \in Installers /\ rev[p] = h /\ pc[p] \in {"hash", "resolve", "keep", "switch"}
                 \/ p \in Launchers /\ root[p] = h
              THEN late[p] \cup {f} ELSE late[p]]

DriftFile(h, f, c) ==
    /\ drifts < MaxDrift
    /\ h \in published
    /\ dir' = [dir EXCEPT ![h] = [files |-> [@.files EXCEPT ![f] = c], manifest |-> @.manifest]]
    /\ drifts' = drifts + 1
    /\ spoiled' = spoiled \cup {h}
    /\ Touched(h, f)
    /\ UNCHANGED <<published, links, installer, launcher, hashed>>

\* ... or takes the helper out of a manifest, or makes the manifest unreadable.
DriftManifest(h) ==
    /\ drifts < MaxDrift
    /\ h \in published
    /\ \E m \in {[rev |-> dir[h].manifest.rev, pins |-> dir[h].manifest.pins \ {Helper}],
                 [rev |-> Other, pins |-> {}], NoManifest} :
          dir' = [dir EXCEPT ![h] = [files |-> @.files, manifest |-> m]]
    /\ drifts' = drifts + 1
    /\ spoiled' = spoiled \cup {h}
    /\ UNCHANGED <<published, links, installer, launcher, hashed, late>>

Drift == \E h \in Homes : \/ \E f \in Files, c \in Content : DriftFile(h, f, c)
                          \/ DriftManifest(h)

InstallStep(i) ==
    \/ Begin(i) \/ Refuse(i) \/ Collect(i) \/ WriteFile(i) \/ CheckSyntax(i) \/ WriteManifest(i)
    \/ FindTarget(i) \/ CompareManifest(i) \/ HashFile(i) \/ AllHashed(i) \/ Publish(i)
    \/ Resolve(i) \/ KeepPrevious(i) \/ Switch(i)
    \/ Raise(i) \/ Cleanup(i) \/ CleanupFails(i) \/ Kill(i)

LaunchStep(l) ==
    \/ Look(l) \/ ResolveRoot(l) \/ ReadManifest(l) \/ HashPinned(l) \/ AllPinned(l)
    \/ Exec(l) \/ Leave(l)

Next ==
    \/ \E i \in Installers : InstallStep(i)
    \/ \E l \in Launchers : LaunchStep(l)
    \/ Rollback
    \/ Drift

Spec == Init /\ [][Next]_vars

-----------------------------------------------------------------------------
\* Properties.

\* A release that only installers wrote to holds exactly the files and the
\* manifest of its commit, wherever an installer was killed or overtaken:
\* mkdtemp and one rename, never a write into releases/<commit>.
ReleasesAreWhole ==
    \A r \in (Revs \cap published) \ spoiled : dir[r] \in {Packed(r, Base), Packed(r, Ships(r))}

\* An installer about to move `current' has a reviewed commit that compiles and
\* has every helper it needs, and no file of the release was wrong when it
\* looked: an existing release that drifted before is refused (lines 56-61).
VerifiedBeforeSwitch ==
    \A i \in Installers : pc[i] \in {"resolve", "keep", "switch"} =>
        /\ rev[i] \in published \cap Reviewed \cap Parses
        /\ rev[i] \in Declares => Helper \in Ships(rev[i])
        /\ \A f \in Ships(rev[i]) : dir[rev[i]].files[f] = rev[i] \/ f \in late[i]

\* "current entry retained": an installer that reports failure did not move
\* `current', if it could remove its staging directory.
FailureRetainsCurrent ==
    \A i \in Installers : pc[i] = "failed" /\ i \notin staged => i \notin switched

\* An installer that nobody overtook leaves the release it replaces as the
\* rollback target, whatever killed or failed installers left behind (65-74).
RollbackPointsBack ==
    [][\A i \in switched' \ switched :
          i \notin raced /\ current \notin {None, rev[i]} => previous' = current]_vars

\* What a launcher executes, when `current' still is what it verified, has the
\* bytes its manifest pins in every file that was not changed under its hands,
\* the helper included when the wrapper names it (lines 18-31).
CleanRunIsPinned ==
    \A l \in Launchers : at[l] = "running" /\ ran[l] = root[l] =>
        /\ \A f \in read[l].pins : dir[root[l]].files[f] = read[l].rev \/ f \in late[l]
        /\ Wrapper \notin late[l] /\ dir[root[l]].files[Wrapper] \in Declares => Helper \in read[l].pins

\* "It hashes every listed file before delegation": what runs is what was hashed.
HashedBeforeDelegation ==
    \A l \in Launchers : at[l] = "running" => ran[l] = root[l]

\* What the installer promises, with the release directories read as a shelf.
\* (A set of at most one bundle, so that a missing directory is no bundle.)
Shelf == [r \in Revs |-> {dir[h] : h \in {r} \cap published}]
Promise == INSTANCE AtomicInstall WITH
              Whole <- [r \in Revs |-> {Packed(r, Ships(r))}], Nothing <- {},
              shelf <- Shelf, spoiled <- spoiled \ {Unmanaged},
              active <- current, fallback <- previous
ImplementsAtomicInstall == Promise!Spec

-----------------------------------------------------------------------------
\* The inductive invariant.

\* What an installer has staged, and what it knows of its commit, from each step on.
Checked == {"place", "compare", "hash", "publish", "resolve", "keep", "switch"}
StageInv ==
    \A i \in Installers :
        /\ pc[i] = "new" => stage[i] = EmptyDir
        /\ pc[i] \in {"collect", "write", "manifest"} \cup Checked => rev[i] \in Reviewed
        /\ pc[i] \in {"write", "manifest"} \cup Checked =>
              (rev[i] \in Declares => Helper \in Tree[rev[i]])
        /\ pc[i] \in {"manifest"} \cup Checked => rev[i] \in Parses
        /\ pc[i] \in {"collect", "write"} =>
              \A f \in Files : \/ stage[i].files[f] = Missing
                              \/ (f \in Ships(rev[i]) /\ stage[i].files[f] = rev[i])
        /\ pc[i] = "manifest" => stage[i].files = Packed(rev[i], Ships(rev[i])).files
        /\ pc[i] \in Checked => stage[i] = Packed(rev[i], Ships(rev[i]))
        /\ pc[i] \in {"compare", "hash", "resolve", "keep", "switch"} => rev[i] \in published

\* What an installer found right is right, or was changed afterwards.
HashInv ==
    \A i \in Installers :
        /\ pc[i] \notin {"hash", "resolve", "keep", "switch", "cleanup", "done", "failed", "killed"}
              => hashed[i] = {}
        /\ pc[i] = "hash" =>
              \A f \in hashed[i] : dir[rev[i]].files[f] = rev[i] \/ f \in late[i]
        /\ pc[i] \in {"resolve", "keep", "switch"} =>
              \A f \in Ships(rev[i]) : dir[rev[i]].files[f] = rev[i] \/ f \in late[i]

\* Who switched has nothing left to fail but the removal of its staging directory.
SwitchInv ==
    \A i \in Installers :
        /\ i \in switched => pc[i] \in {"cleanup", "done", "failed", "killed"}
        /\ i \in switched \cap failing => pc[i] = "failed" /\ i \in staged
        /\ pc[i] = "failed" => i \in failing
        /\ i \in failing => pc[i] \in {"cleanup", "failed", "killed"}

\* The links name releases that exist and were current.
LinkInv ==
    /\ activated \subseteq published
    /\ previous \in activated \cup {None}
    /\ current = Unmanaged => Unmanaged \in published
    /\ current \in activated \cup {None, Unmanaged}
    /\ \A i \in Installers : pc[i] \in {"keep", "switch"} =>
           seen[i] \in activated \cup {None} /\ current # Unmanaged

\* What an installer that nobody overtook knows of the links.
RaceInv ==
    \A i \in Installers \ raced :
        /\ pc[i] \in {"keep", "switch"} => seen[i] = current
        /\ pc[i] = "switch" /\ seen[i] \notin {None, rev[i]} => previous = seen[i]

\* What a launcher found right is right, or was changed afterwards.
LaunchInv ==
    \A l \in Launchers :
        /\ at[l] # "idle" => current # None
        /\ at[l] \in {"read", "hash", "exec", "running"} => root[l] \in published
        /\ at[l] = "read" => hashed[l] = {}
        /\ at[l] = "hash" =>
              \A f \in hashed[l] : dir[root[l]].files[f] = read[l].rev \/ f \in late[l]
        /\ at[l] \in {"exec", "running"} =>
              /\ \A f \in read[l].pins : dir[root[l]].files[f] = read[l].rev \/ f \in late[l]
              /\ Wrapper \notin late[l] /\ dir[root[l]].files[Wrapper] \in Declares
                    => Helper \in read[l].pins

\* Why the properties hold: together the parts are kept by every step.
Inductive == /\ ReleasesAreWhole /\ StageInv /\ HashInv /\ SwitchInv
             /\ LinkInv /\ RaceInv /\ LaunchInv
=============================================================================
