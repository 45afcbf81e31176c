----------------------- MODULE CompilerInstall_proofs -----------------------
(***************************************************************************)
(* Theorems about CompilerInstall, for any number of installers, launchers *)
(* and commits and any number of writes of the local writer.               *)
(***************************************************************************)
EXTENDS CompilerInstall, TLAPS

-----------------------------------------------------------------------------
\* Lemmas about bundles.

LEMMA BundleType ==
  ASSUME NEW b \in Bundle
  PROVE  /\ b.files \in [Files -> Content]
         /\ b.manifest \in Manifest
         /\ b = [files |-> b.files, manifest |-> b.manifest]
  BY DEF Bundle

\* Files and a manifest make a bundle.
LEMMA MakeBundle ==
  ASSUME NEW fs \in [Files -> Content], NEW m \in Manifest
  PROVE  [files |-> fs, manifest |-> m] \in Bundle
  BY DEF Bundle

\* The empty directory is a bundle, the missing manifest a manifest.
LEMMA EmptyType == EmptyDir \in Bundle /\ NoManifest \in Manifest
  BY DEF EmptyDir, NoManifest, Bundle, Manifest, Content

\* The file list of a commit has the base files and no unknown one.
LEMMA ShipsType == ASSUME NEW r \in Revs PROVE Ships(r) \subseteq Files /\ Base \subseteq Ships(r)
  BY DEF Ships, Files

\* What an installer packs is a bundle.
LEMMA PackedType ==
  ASSUME NEW r \in Revs, NEW fs \in SUBSET Files
  PROVE  Packed(r, fs) \in Bundle
<1>1. [f \in Files |-> IF f \in fs THEN r ELSE Missing] \in [Files -> Content]
  BY DEF Content
<1>2. [rev |-> r, pins |-> fs] \in Manifest
  BY DEF Manifest, Content
<1> QED
  BY <1>1, <1>2 DEF Packed, Bundle

-----------------------------------------------------------------------------
\* Types.

LEMMA InitType == Init => TypeOK
<1> SUFFICES ASSUME Init PROVE TypeOK
  OBVIOUS
<1>1. {EmptyDir} \cup {Packed(r, fs) : r \in Reviewed, fs \in {Base, Files}} \subseteq Bundle
  BY EmptyType, PackedType, CommitAssumption DEF Files
<1>2. dir \in [Homes -> Bundle]
  BY <1>1 DEF Init
<1>3. pc \in [Installers -> Place] /\ at \in [Launchers -> Standing]
  BY DEF Init, Place, Standing
<1>4. published \subseteq Homes /\ current \in Homes \cup {None} /\ previous \in Homes \cup {None}
  BY DEF Init, Homes
<1>5. stage \in [Installers -> Bundle] /\ read \in [Launchers -> Manifest]
  BY EmptyType DEF Init
<1>6. activated \subseteq Revs
  BY <1>4 DEF Init, Homes
<1> QED
  BY <1>2, <1>3, <1>4, <1>5, <1>6 DEF Init, TypeOK, Homes

\* Every step keeps the types.
LEMMA StepType == TypeOK /\ [Next]_vars => TypeOK'
<1> SUFFICES ASSUME TypeOK, [Next]_vars PROVE TypeOK'
  OBVIOUS
<1> USE DEF TypeOK, Place, Busy, Standing, Goto, Stand, Overtaken, releases, links, installer, launcher, drift
<1>1. ASSUME NEW i \in Installers, Begin(i) PROVE TypeOK'
  BY <1>1 DEF Begin
<1>2. ASSUME NEW i \in Installers, Refuse(i) PROVE TypeOK'
  BY <1>2 DEF Refuse
<1>3. ASSUME NEW i \in Installers, Collect(i) PROVE TypeOK'
  BY <1>3 DEF Collect
<1>4. ASSUME NEW i \in Installers, WriteFile(i) PROVE TypeOK'
  <2>1. PICK f \in Ships(rev[i]) \cap Tree[rev[i]] :
          stage' = [stage EXCEPT ![i] = [files |-> [@.files EXCEPT ![f] = rev[i]],
                                         manifest |-> @.manifest]]
    BY <1>4 DEF WriteFile
  <2>2. stage[i].files \in [Files -> Content] /\ stage[i].manifest \in Manifest
    BY BundleType
  <2>3. rev[i] \in Content
    BY DEF Content
  <2>4. [files |-> [stage[i].files EXCEPT ![f] = rev[i]], manifest |-> stage[i].manifest] \in Bundle
    BY <2>2, <2>3, MakeBundle
  <2> QED
    BY <1>4, <2>1, <2>4 DEF WriteFile
<1>5. ASSUME NEW i \in Installers, CheckSyntax(i) PROVE TypeOK'
  BY <1>5 DEF CheckSyntax
<1>6. ASSUME NEW i \in Installers, WriteManifest(i) PROVE TypeOK'
  <2>1. stage[i].files \in [Files -> Content]
    BY BundleType
  <2>2. [rev |-> rev[i], pins |-> Ships(rev[i])] \in Manifest
    BY ShipsType DEF Manifest, Content
  <2>3. [files |-> stage[i].files, manifest |-> [rev |-> rev[i], pins |-> Ships(rev[i])]] \in Bundle
    BY <2>1, <2>2, MakeBundle
  <2> QED
    BY <1>6, <2>3 DEF WriteManifest
<1>7. ASSUME NEW i \in Installers, FindTarget(i) PROVE TypeOK'
  BY <1>7 DEF FindTarget
<1>8. ASSUME NEW i \in Installers, CompareManifest(i) PROVE TypeOK'
  BY <1>8 DEF CompareManifest
<1>9. ASSUME NEW i \in Installers, HashFile(i) PROVE TypeOK'
  BY <1>9, ShipsType DEF HashFile, Procs
<1>10. ASSUME NEW i \in Installers, AllHashed(i) PROVE TypeOK'
  BY <1>10 DEF AllHashed
<1>11. ASSUME NEW i \in Installers, Publish(i) PROVE TypeOK'
  BY <1>11 DEF Publish, Homes
<1>12. ASSUME NEW i \in Installers, Resolve(i) PROVE TypeOK'
  BY <1>12 DEF Resolve
<1>13. ASSUME NEW i \in Installers, KeepPrevious(i) PROVE TypeOK'
  BY <1>13 DEF KeepPrevious, Homes
<1>14. ASSUME NEW i \in Installers, Switch(i) PROVE TypeOK'
  BY <1>14 DEF Switch, Homes
<1>15. ASSUME NEW i \in Installers, Raise(i) PROVE TypeOK'
  BY <1>15 DEF Raise
<1>16. ASSUME NEW i \in Installers, Cleanup(i) PROVE TypeOK'
  BY <1>16 DEF Cleanup
<1>17. ASSUME NEW i \in Installers, CleanupFails(i) PROVE TypeOK'
  BY <1>17 DEF CleanupFails
<1>18. ASSUME NEW i \in Installers, Kill(i) PROVE TypeOK'
  BY <1>18 DEF Kill
<1>19. ASSUME NEW l \in Launchers, Look(l) PROVE TypeOK'
  BY <1>19 DEF Look
<1>20. ASSUME NEW l \in Launchers, ResolveRoot(l) PROVE TypeOK'
  BY <1>20 DEF ResolveRoot, Procs
<1>21. ASSUME NEW l \in Launchers, ReadManifest(l) PROVE TypeOK'
  <2>1. [rev |-> dir[root[l]].manifest.rev, pins |-> dir[root[l]].manifest.pins] \in Manifest
    BY <1>21 DEF ReadManifest, Manifest, Content, Files
  <2> QED
    BY <1>21, <2>1 DEF ReadManifest
<1>22. ASSUME NEW l \in Launchers, HashPinned(l) PROVE TypeOK'
  <2>1. read[l].pins \subseteq Files
    BY DEF Manifest
  <2> QED
    BY <1>22, <2>1 DEF HashPinned, Procs
<1>23. ASSUME NEW l \in Launchers, AllPinned(l) PROVE TypeOK'
  BY <1>23 DEF AllPinned
<1>24. ASSUME NEW l \in Launchers, Exec(l) PROVE TypeOK'
  BY <1>24 DEF Exec
<1>25. ASSUME NEW l \in Launchers, Leave(l) PROVE TypeOK'
  BY <1>25 DEF Leave
<1>26. CASE Rollback
  BY <1>26 DEF Rollback, Homes
<1>27. ASSUME NEW h \in Homes, NEW f \in Files, NEW c \in Content, DriftFile(h, f, c) PROVE TypeOK'
  <2>1. dir[h].files \in [Files -> Content] /\ dir[h].manifest \in Manifest
    BY BundleType
  <2>2. [dir[h].files EXCEPT ![f] = c] \in [Files -> Content]
    BY <2>1
  <2>3. [files |-> [dir[h].files EXCEPT ![f] = c], manifest |-> dir[h].manifest] \in Bundle
    BY <2>1, <2>2, MakeBundle
  <2>4. dir' \in [Homes -> Bundle]
    BY <1>27, <2>3 DEF DriftFile
  <2>5. late' \in [Procs -> SUBSET Files]
    BY <1>27 DEF DriftFile, Touched
  <2> QED
    BY <1>27, <2>4, <2>5 DEF DriftFile
<1>28. ASSUME NEW h \in Homes, DriftManifest(h) PROVE TypeOK'
  <2>1. dir[h].files \in [Files -> Content] /\ dir[h].manifest \in Manifest
    BY BundleType
  <2>2. PICK m \in {[rev |-> dir[h].manifest.rev, pins |-> dir[h].manifest.pins \ {Helper}],
                  [rev |-> Other, pins |-> {}], NoManifest} :
          dir' = [dir EXCEPT ![h] = [files |-> @.files, manifest |-> m]]
    BY <1>28 DEF DriftManifest
  <2>3. m \in Manifest
    BY <2>1, <2>2, EmptyType DEF Manifest, Content
  <2>4. [files |-> dir[h].files, manifest |-> m] \in Bundle
    BY <2>1, <2>3, MakeBundle
  <2> QED
    BY <1>28, <2>2, <2>4 DEF DriftManifest
<1>29. CASE UNCHANGED vars
  BY <1>29 DEF vars
<1> QED
  BY <1>1, <1>2, <1>3, <1>4, <1>5, <1>6, <1>7, <1>8, <1>9, <1>10, <1>11,
     <1>12, <1>13, <1>14, <1>15, <1>16, <1>17, <1>18, <1>19, <1>20, <1>21,
     <1>22, <1>23, <1>24, <1>25, <1>26, <1>27, <1>28, <1>29
     DEF Next, InstallStep, LaunchStep, Drift

\* The type invariant of the specification.
THEOREM TypeCorrect == Spec => []TypeOK
  BY InitType, StepType, PTL DEF Spec

-----------------------------------------------------------------------------
\* The inductive invariant, part by part.

LEMMA StepStage == TypeOK /\ StageInv /\ [Next]_vars => StageInv'
<1> SUFFICES ASSUME TypeOK, StageInv, [Next]_vars PROVE StageInv'
  OBVIOUS
<1> USE DEF TypeOK, StageInv, Checked, Place, Busy, Standing, Goto, Stand, Overtaken, releases, links, installer, launcher, drift
<1>1. ASSUME NEW i \in Installers, Begin(i) PROVE StageInv'
  <2>1. \A f \in Files : stage[i].files[f] = Missing
    BY <1>1 DEF Begin, EmptyDir
  <2> QED
    BY <1>1, <2>1 DEF Begin
<1>2. ASSUME NEW i \in Installers, Refuse(i) PROVE StageInv'
  BY <1>2 DEF Refuse
<1>3. ASSUME NEW i \in Installers, Collect(i) PROVE StageInv'
  BY <1>3 DEF Collect
<1>4. ASSUME NEW i \in Installers, WriteFile(i) PROVE StageInv'
  <2>1. PICK f \in Ships(rev[i]) \cap Tree[rev[i]] :
          stage' = [stage EXCEPT ![i] = [files |-> [@.files EXCEPT ![f] = rev[i]],
                                         manifest |-> @.manifest]]
    BY <1>4 DEF WriteFile
  <2>2. stage[i].files \in [Files -> Content] /\ f \in Files
    BY BundleType, ShipsType DEF TypeOK
  <2>3. \A g \in Files : stage'[i].files[g] = IF g = f THEN rev[i] ELSE stage[i].files[g]
    BY <2>1, <2>2 DEF TypeOK
  <2>4. \A j \in Installers \ {i} : stage'[j] = stage[j]
    BY <2>1 DEF TypeOK
  <2>5. pc[i] = "write" /\ UNCHANGED <<pc, rev, published>>
    BY <1>4 DEF WriteFile
  <2> HIDE DEF TypeOK
  <2> QED
    BY <2>2, <2>3, <2>4, <2>5 DEF StageInv, Checked
<1>5. ASSUME NEW i \in Installers, CheckSyntax(i) PROVE StageInv'
  <2>1. stage[i].files \in [Files -> Content]
    BY BundleType DEF TypeOK
  <2>2. \A f \in Files : stage[i].files[f] = IF f \in Ships(rev[i]) THEN rev[i] ELSE Missing
    BY <1>5, ShipsType DEF CheckSyntax, StageInv, TypeOK
  <2>3. stage[i].files = [f \in Files |-> IF f \in Ships(rev[i]) THEN rev[i] ELSE Missing]
    BY <2>1, <2>2
  <2>4. stage[i].files = Packed(rev[i], Ships(rev[i])).files
    BY <2>3 DEF Packed
  <2> QED
    BY <1>5, <2>4 DEF CheckSyntax, StageInv, Checked, TypeOK, Place
<1>6. ASSUME NEW i \in Installers, WriteManifest(i) PROVE StageInv'
  <2>1. stage'[i] = [files |-> stage[i].files, manifest |-> [rev |-> rev[i], pins |-> Ships(rev[i])]]
    BY <1>6 DEF WriteManifest, TypeOK
  <2>2. stage'[i] = Packed(rev[i], Ships(rev[i]))
    BY <1>6, <2>1 DEF WriteManifest, StageInv, Packed
  <2>3. \A j \in Installers \ {i} : stage'[j] = stage[j]
    BY <1>6 DEF WriteManifest, TypeOK
  <2> QED
    BY <1>6, <2>2, <2>3 DEF WriteManifest, StageInv, Checked, TypeOK, Place
<1>7. ASSUME NEW i \in Installers, FindTarget(i) PROVE StageInv'
  BY <1>7 DEF FindTarget
<1>8. ASSUME NEW i \in Installers, CompareManifest(i) PROVE StageInv'
  BY <1>8 DEF CompareManifest
<1>9. ASSUME NEW i \in Installers, HashFile(i) PROVE StageInv'
  BY <1>9 DEF HashFile
<1>10. ASSUME NEW i \in Installers, AllHashed(i) PROVE StageInv'
  BY <1>10 DEF AllHashed
<1>11. ASSUME NEW i \in Installers, Publish(i) PROVE StageInv'
  BY <1>11 DEF Publish
<1>12. ASSUME NEW i \in Installers, Resolve(i) PROVE StageInv'
  BY <1>12 DEF Resolve
<1>13. ASSUME NEW i \in Installers, KeepPrevious(i) PROVE StageInv'
  BY <1>13 DEF KeepPrevious
<1>14. ASSUME NEW i \in Installers, Switch(i) PROVE StageInv'
  BY <1>14 DEF Switch
<1>15. ASSUME NEW i \in Installers, Raise(i) PROVE StageInv'
  BY <1>15 DEF Raise
<1>16. ASSUME NEW i \in Installers, Cleanup(i) PROVE StageInv'
  BY <1>16 DEF Cleanup
<1>17. ASSUME NEW i \in Installers, CleanupFails(i) PROVE StageInv'
  BY <1>17 DEF CleanupFails
<1>18. ASSUME NEW i \in Installers, Kill(i) PROVE StageInv'
  BY <1>18 DEF Kill
<1>19. ASSUME NEW l \in Launchers, Look(l) PROVE StageInv'
  BY <1>19 DEF Look
<1>20. ASSUME NEW l \in Launchers, ResolveRoot(l) PROVE StageInv'
  BY <1>20 DEF ResolveRoot
<1>21. ASSUME NEW l \in Launchers, ReadManifest(l) PROVE StageInv'
  BY <1>21 DEF ReadManifest
<1>22. ASSUME NEW l \in Launchers, HashPinned(l) PROVE StageInv'
  BY <1>22 DEF HashPinned
<1>23. ASSUME NEW l \in Launchers, AllPinned(l) PROVE StageInv'
  BY <1>23 DEF AllPinned
<1>24. ASSUME NEW l \in Launchers, Exec(l) PROVE StageInv'
  BY <1>24 DEF Exec
<1>25. ASSUME NEW l \in Launchers, Leave(l) PROVE StageInv'
  BY <1>25 DEF Leave
<1>26. CASE Rollback
  BY <1>26 DEF Rollback
<1>27. ASSUME NEW h \in Homes, NEW f \in Files, NEW c \in Content, DriftFile(h, f, c) PROVE StageInv'
  BY <1>27 DEF DriftFile, Touched
<1>28. ASSUME NEW h \in Homes, DriftManifest(h) PROVE StageInv'
  BY <1>28 DEF DriftManifest
<1>29. CASE UNCHANGED vars
  BY <1>29 DEF vars
<1> QED
  BY <1>1, <1>2, <1>3, <1>4, <1>5, <1>6, <1>7, <1>8, <1>9, <1>10, <1>11,
     <1>12, <1>13, <1>14, <1>15, <1>16, <1>17, <1>18, <1>19, <1>20, <1>21,
     <1>22, <1>23, <1>24, <1>25, <1>26, <1>27, <1>28, <1>29
     DEF Next, InstallStep, LaunchStep, Drift

\* Every step keeps whole releases whole: only Publish makes one, only drift changes one.
LEMMA StepWhole == TypeOK /\ StageInv /\ ReleasesAreWhole /\ [Next]_vars => ReleasesAreWhole'
<1> SUFFICES ASSUME TypeOK, StageInv, ReleasesAreWhole, [Next]_vars PROVE ReleasesAreWhole'
  OBVIOUS
<1> USE DEF TypeOK, ReleasesAreWhole, Homes, releases, drift
<1>1. ASSUME NEW i \in Installers, Begin(i) PROVE ReleasesAreWhole'
  BY <1>1 DEF Begin
<1>2. ASSUME NEW i \in Installers, Refuse(i) PROVE ReleasesAreWhole'
  BY <1>2 DEF Refuse
<1>3. ASSUME NEW i \in Installers, Collect(i) PROVE ReleasesAreWhole'
  BY <1>3 DEF Collect
<1>4. ASSUME NEW i \in Installers, WriteFile(i) PROVE ReleasesAreWhole'
  BY <1>4 DEF WriteFile
<1>5. ASSUME NEW i \in Installers, CheckSyntax(i) PROVE ReleasesAreWhole'
  BY <1>5 DEF CheckSyntax
<1>6. ASSUME NEW i \in Installers, WriteManifest(i) PROVE ReleasesAreWhole'
  BY <1>6 DEF WriteManifest
<1>7. ASSUME NEW i \in Installers, FindTarget(i) PROVE ReleasesAreWhole'
  BY <1>7 DEF FindTarget
<1>8. ASSUME NEW i \in Installers, CompareManifest(i) PROVE ReleasesAreWhole'
  BY <1>8 DEF CompareManifest
<1>9. ASSUME NEW i \in Installers, HashFile(i) PROVE ReleasesAreWhole'
  BY <1>9 DEF HashFile
<1>10. ASSUME NEW i \in Installers, AllHashed(i) PROVE ReleasesAreWhole'
  BY <1>10 DEF AllHashed
<1>11. ASSUME NEW i \in Installers, Publish(i) PROVE ReleasesAreWhole'
  <2>1. stage[i] = Packed(rev[i], Ships(rev[i]))
    BY <1>11 DEF Publish, StageInv, Checked
  <2>2. \A r \in Revs \ {rev[i]} : dir'[r] = dir[r]
    BY <1>11 DEF Publish
  <2>3. dir'[rev[i]] = Packed(rev[i], Ships(rev[i]))
    BY <1>11, <2>1 DEF Publish, Homes
  <2> QED
    BY <1>11, <2>2, <2>3 DEF Publish
<1>12. ASSUME NEW i \in Installers, Resolve(i) PROVE ReleasesAreWhole'
  BY <1>12 DEF Resolve
<1>13. ASSUME NEW i \in Installers, KeepPrevious(i) PROVE ReleasesAreWhole'
  BY <1>13 DEF KeepPrevious
<1>14. ASSUME NEW i \in Installers, Switch(i) PROVE ReleasesAreWhole'
  BY <1>14 DEF Switch
<1>15. ASSUME NEW i \in Installers, Raise(i) PROVE ReleasesAreWhole'
  BY <1>15 DEF Raise
<1>16. ASSUME NEW i \in Installers, Cleanup(i) PROVE ReleasesAreWhole'
  BY <1>16 DEF Cleanup
<1>17. ASSUME NEW i \in Installers, CleanupFails(i) PROVE ReleasesAreWhole'
  BY <1>17 DEF CleanupFails
<1>18. ASSUME NEW i \in Installers, Kill(i) PROVE ReleasesAreWhole'
  BY <1>18 DEF Kill
<1>19. ASSUME NEW l \in Launchers, Look(l) PROVE ReleasesAreWhole'
  BY <1>19 DEF Look
<1>20. ASSUME NEW l \in Launchers, ResolveRoot(l) PROVE ReleasesAreWhole'
  BY <1>20 DEF ResolveRoot
<1>21. ASSUME NEW l \in Launchers, ReadManifest(l) PROVE ReleasesAreWhole'
  BY <1>21 DEF ReadManifest
<1>22. ASSUME NEW l \in Launchers, HashPinned(l) PROVE ReleasesAreWhole'
  BY <1>22 DEF HashPinned
<1>23. ASSUME NEW l \in Launchers, AllPinned(l) PROVE ReleasesAreWhole'
  BY <1>23 DEF AllPinned
<1>24. ASSUME NEW l \in Launchers, Exec(l) PROVE ReleasesAreWhole'
  BY <1>24 DEF Exec
<1>25. ASSUME NEW l \in Launchers, Leave(l) PROVE ReleasesAreWhole'
  BY <1>25 DEF Leave
<1>26. CASE Rollback
  BY <1>26 DEF Rollback
<1>27. ASSUME NEW h \in Homes, NEW f \in Files, NEW c \in Content, DriftFile(h, f, c) PROVE ReleasesAreWhole'
  <2>1. \A r \in Revs : r # h => dir'[r] = dir[r]
    BY <1>27 DEF DriftFile
  <2> QED
    BY <1>27, <2>1 DEF DriftFile
<1>28. ASSUME NEW h \in Homes, DriftManifest(h) PROVE ReleasesAreWhole'
  <2>1. \A r \in Revs : r # h => dir'[r] = dir[r]
    BY <1>28 DEF DriftManifest
  <2> QED
    BY <1>28, <2>1 DEF DriftManifest
<1>29. CASE UNCHANGED vars
  BY <1>29 DEF vars
<1> QED
  BY <1>1, <1>2, <1>3, <1>4, <1>5, <1>6, <1>7, <1>8, <1>9, <1>10, <1>11,
     <1>12, <1>13, <1>14, <1>15, <1>16, <1>17, <1>18, <1>19, <1>20, <1>21,
     <1>22, <1>23, <1>24, <1>25, <1>26, <1>27, <1>28, <1>29
     DEF Next, InstallStep, LaunchStep, Drift

\* Every step keeps what installers found right.
LEMMA StepHash == TypeOK /\ StageInv /\ HashInv /\ [Next]_vars => HashInv'
<1> SUFFICES ASSUME TypeOK, StageInv, HashInv, [Next]_vars PROVE HashInv'
  OBVIOUS
<1> USE DEF TypeOK, HashInv, Place, Busy, Standing, Procs, Homes, Goto, Stand, releases, links, installer, launcher, drift
<1>1. ASSUME NEW i \in Installers, Begin(i) PROVE HashInv'
  BY <1>1 DEF Begin
<1>2. ASSUME NEW i \in Installers, Refuse(i) PROVE HashInv'
  BY <1>2 DEF Refuse
<1>3. ASSUME NEW i \in Installers, Collect(i) PROVE HashInv'
  BY <1>3 DEF Collect
<1>4. ASSUME NEW i \in Installers, WriteFile(i) PROVE HashInv'
  BY <1>4 DEF WriteFile
<1>5. ASSUME NEW i \in Installers, CheckSyntax(i) PROVE HashInv'
  BY <1>5 DEF CheckSyntax
<1>6. ASSUME NEW i \in Installers, WriteManifest(i) PROVE HashInv'
  BY <1>6 DEF WriteManifest
<1>7. ASSUME NEW i \in Installers, FindTarget(i) PROVE HashInv'
  BY <1>7 DEF FindTarget
<1>8. ASSUME NEW i \in Installers, CompareManifest(i) PROVE HashInv'
  BY <1>8 DEF CompareManifest
<1>9. ASSUME NEW i \in Installers, HashFile(i) PROVE HashInv'
  BY <1>9 DEF HashFile
<1>10. ASSUME NEW i \in Installers, AllHashed(i) PROVE HashInv'
  BY <1>10 DEF AllHashed
<1>11. ASSUME NEW i \in Installers, Publish(i) PROVE HashInv'
  <2>1. stage[i] = Packed(rev[i], Ships(rev[i])) /\ rev[i] \in Homes
    BY <1>11 DEF Publish, StageInv, Checked
  <2>2. dir'[rev[i]] = Packed(rev[i], Ships(rev[i]))
    BY <1>11, <2>1 DEF Publish
  <2>3. \A f \in Ships(rev[i]) : dir'[rev[i]].files[f] = rev[i]
    BY <2>2, ShipsType DEF Packed
  <2>4. \A r \in published : dir'[r] = dir[r]
    BY <1>11 DEF Publish
  <2>5. \A j \in Installers : pc[j] \in {"hash", "resolve", "keep", "switch"} => rev[j] \in published
    BY DEF StageInv
  <2> QED
    BY <1>11, <2>3, <2>4, <2>5 DEF Publish
<1>12. ASSUME NEW i \in Installers, Resolve(i) PROVE HashInv'
  BY <1>12 DEF Resolve
<1>13. ASSUME NEW i \in Installers, KeepPrevious(i) PROVE HashInv'
  BY <1>13 DEF KeepPrevious
<1>14. ASSUME NEW i \in Installers, Switch(i) PROVE HashInv'
  BY <1>14 DEF Switch
<1>15. ASSUME NEW i \in Installers, Raise(i) PROVE HashInv'
  BY <1>15 DEF Raise
<1>16. ASSUME NEW i \in Installers, Cleanup(i) PROVE HashInv'
  BY <1>16 DEF Cleanup
<1>17. ASSUME NEW i \in Installers, CleanupFails(i) PROVE HashInv'
  BY <1>17 DEF CleanupFails
<1>18. ASSUME NEW i \in Installers, Kill(i) PROVE HashInv'
  BY <1>18 DEF Kill
<1>19. ASSUME NEW l \in Launchers, Look(l) PROVE HashInv'
  BY <1>19 DEF Look
<1>20. ASSUME NEW l \in Launchers, ResolveRoot(l) PROVE HashInv'
  BY <1>20, ValueAssumption DEF ResolveRoot
<1>21. ASSUME NEW l \in Launchers, ReadManifest(l) PROVE HashInv'
  BY <1>21 DEF ReadManifest
<1>22. ASSUME NEW l \in Launchers, HashPinned(l) PROVE HashInv'
  BY <1>22, ValueAssumption DEF HashPinned
<1>23. ASSUME NEW l \in Launchers, AllPinned(l) PROVE HashInv'
  BY <1>23 DEF AllPinned
<1>24. ASSUME NEW l \in Launchers, Exec(l) PROVE HashInv'
  BY <1>24 DEF Exec
<1>25. ASSUME NEW l \in Launchers, Leave(l) PROVE HashInv'
  BY <1>25 DEF Leave
<1>26. CASE Rollback
  BY <1>26 DEF Rollback
<1>27. ASSUME NEW h \in Homes, NEW f \in Files, NEW c \in Content, DriftFile(h, f, c) PROVE HashInv'
  <2>1. \A r \in Homes \ {h} : dir'[r] = dir[r]
    BY <1>27 DEF DriftFile
  <2>2. \A g \in Files \ {f} : dir'[h].files[g] = dir[h].files[g]
    <3>1. dir[h].files \in [Files -> Content]
      BY BundleType
    <3> QED
      BY <1>27, <3>1 DEF DriftFile
  <2>3. \A j \in Installers : late[j] \subseteq late'[j]
    BY <1>27 DEF DriftFile, Touched
  <2>4. \A j \in Installers : pc[j] \in {"hash", "resolve", "keep", "switch"} /\ rev[j] = h => f \in late'[j]
    BY <1>27 DEF DriftFile, Touched
  <2>5. \A j \in Installers : rev[j] \in Revs /\ hashed[j] \subseteq Files /\ Ships(rev[j]) \subseteq Files
    BY ShipsType
  <2> QED
    BY <1>27, <2>1, <2>2, <2>3, <2>4, <2>5 DEF DriftFile
<1>28. ASSUME NEW h \in Homes, DriftManifest(h) PROVE HashInv'
  <2>1. \A r \in Homes : dir'[r].files = dir[r].files
    BY <1>28 DEF DriftManifest
  <2> QED
    BY <1>28, <2>1 DEF DriftManifest
<1>29. CASE UNCHANGED vars
  BY <1>29 DEF vars
<1> QED
  BY <1>1, <1>2, <1>3, <1>4, <1>5, <1>6, <1>7, <1>8, <1>9, <1>10, <1>11,
     <1>12, <1>13, <1>14, <1>15, <1>16, <1>17, <1>18, <1>19, <1>20, <1>21,
     <1>22, <1>23, <1>24, <1>25, <1>26, <1>27, <1>28, <1>29
     DEF Next, InstallStep, LaunchStep, Drift

\* Every step keeps who switched and who failed apart.
LEMMA StepSwitch == TypeOK /\ SwitchInv /\ [Next]_vars => SwitchInv'
<1> SUFFICES ASSUME TypeOK, SwitchInv, [Next]_vars PROVE SwitchInv'
  OBVIOUS
<1> USE DEF TypeOK, SwitchInv, Place, Busy, Standing, Goto, Stand, releases, links, installer, launcher, drift
<1>1. ASSUME NEW i \in Installers, Begin(i) PROVE SwitchInv'
  BY <1>1 DEF Begin
<1>2. ASSUME NEW i \in Installers, Refuse(i) PROVE SwitchInv'
  BY <1>2 DEF Refuse
<1>3. ASSUME NEW i \in Installers, Collect(i) PROVE SwitchInv'
  BY <1>3 DEF Collect
<1>4. ASSUME NEW i \in Installers, WriteFile(i) PROVE SwitchInv'
  BY <1>4 DEF WriteFile
<1>5. ASSUME NEW i \in Installers, CheckSyntax(i) PROVE SwitchInv'
  BY <1>5 DEF CheckSyntax
<1>6. ASSUME NEW i \in Installers, WriteManifest(i) PROVE SwitchInv'
  BY <1>6 DEF WriteManifest
<1>7. ASSUME NEW i \in Installers, FindTarget(i) PROVE SwitchInv'
  BY <1>7 DEF FindTarget
<1>8. ASSUME NEW i \in Installers, CompareManifest(i) PROVE SwitchInv'
  BY <1>8 DEF CompareManifest
<1>9. ASSUME NEW i \in Installers, HashFile(i) PROVE SwitchInv'
  BY <1>9 DEF HashFile
<1>10. ASSUME NEW i \in Installers, AllHashed(i) PROVE SwitchInv'
  BY <1>10 DEF AllHashed
<1>11. ASSUME NEW i \in Installers, Publish(i) PROVE SwitchInv'
  BY <1>11 DEF Publish
<1>12. ASSUME NEW i \in Installers, Resolve(i) PROVE SwitchInv'
  BY <1>12 DEF Resolve
<1>13. ASSUME NEW i \in Installers, KeepPrevious(i) PROVE SwitchInv'
  BY <1>13 DEF KeepPrevious
<1>14. ASSUME NEW i \in Installers, Switch(i) PROVE SwitchInv'
  BY <1>14 DEF Switch
<1>15. ASSUME NEW i \in Installers, Raise(i) PROVE SwitchInv'
  BY <1>15 DEF Raise
<1>16. ASSUME NEW i \in Installers, Cleanup(i) PROVE SwitchInv'
  BY <1>16 DEF Cleanup
<1>17. ASSUME NEW i \in Installers, CleanupFails(i) PROVE SwitchInv'
  BY <1>17 DEF CleanupFails
<1>18. ASSUME NEW i \in Installers, Kill(i) PROVE SwitchInv'
  BY <1>18 DEF Kill
<1>19. ASSUME NEW l \in Launchers, Look(l) PROVE SwitchInv'
  BY <1>19 DEF Look
<1>20. ASSUME NEW l \in Launchers, ResolveRoot(l) PROVE SwitchInv'
  BY <1>20 DEF ResolveRoot
<1>21. ASSUME NEW l \in Launchers, ReadManifest(l) PROVE SwitchInv'
  BY <1>21 DEF ReadManifest
<1>22. ASSUME NEW l \in Launchers, HashPinned(l) PROVE SwitchInv'
  BY <1>22 DEF HashPinned
<1>23. ASSUME NEW l \in Launchers, AllPinned(l) PROVE SwitchInv'
  BY <1>23 DEF AllPinned
<1>24. ASSUME NEW l \in Launchers, Exec(l) PROVE SwitchInv'
  BY <1>24 DEF Exec
<1>25. ASSUME NEW l \in Launchers, Leave(l) PROVE SwitchInv'
  BY <1>25 DEF Leave
<1>26. CASE Rollback
  BY <1>26 DEF Rollback
<1>27. ASSUME NEW h \in Homes, NEW f \in Files, NEW c \in Content, DriftFile(h, f, c) PROVE SwitchInv'
  BY <1>27 DEF DriftFile, Touched
<1>28. ASSUME NEW h \in Homes, DriftManifest(h) PROVE SwitchInv'
  BY <1>28 DEF DriftManifest
<1>29. CASE UNCHANGED vars
  BY <1>29 DEF vars
<1> QED
  BY <1>1, <1>2, <1>3, <1>4, <1>5, <1>6, <1>7, <1>8, <1>9, <1>10, <1>11,
     <1>12, <1>13, <1>14, <1>15, <1>16, <1>17, <1>18, <1>19, <1>20, <1>21,
     <1>22, <1>23, <1>24, <1>25, <1>26, <1>27, <1>28, <1>29
     DEF Next, InstallStep, LaunchStep, Drift

\* Every step keeps the links on releases that exist.
LEMMA StepLink == TypeOK /\ StageInv /\ LinkInv /\ [Next]_vars => LinkInv'
<1> SUFFICES ASSUME TypeOK, StageInv, LinkInv, [Next]_vars PROVE LinkInv'
  OBVIOUS
<1> USE DEF TypeOK, LinkInv, Goto, Stand, releases, links, installer, launcher, drift
<1>1. ASSUME NEW i \in Installers, Begin(i) PROVE LinkInv'
  BY <1>1 DEF Begin
<1>2. ASSUME NEW i \in Installers, Refuse(i) PROVE LinkInv'
  BY <1>2 DEF Refuse
<1>3. ASSUME NEW i \in Installers, Collect(i) PROVE LinkInv'
  BY <1>3 DEF Collect
<1>4. ASSUME NEW i \in Installers, WriteFile(i) PROVE LinkInv'
  BY <1>4 DEF WriteFile
<1>5. ASSUME NEW i \in Installers, CheckSyntax(i) PROVE LinkInv'
  BY <1>5 DEF CheckSyntax
<1>6. ASSUME NEW i \in Installers, WriteManifest(i) PROVE LinkInv'
  BY <1>6 DEF WriteManifest
<1>7. ASSUME NEW i \in Installers, FindTarget(i) PROVE LinkInv'
  BY <1>7 DEF FindTarget
<1>8. ASSUME NEW i \in Installers, CompareManifest(i) PROVE LinkInv'
  BY <1>8 DEF CompareManifest
<1>9. ASSUME NEW i \in Installers, HashFile(i) PROVE LinkInv'
  BY <1>9 DEF HashFile
<1>10. ASSUME NEW i \in Installers, AllHashed(i) PROVE LinkInv'
  BY <1>10 DEF AllHashed
<1>11. ASSUME NEW i \in Installers, Publish(i) PROVE LinkInv'
  BY <1>11 DEF Publish
<1>12. ASSUME NEW i \in Installers, Resolve(i) PROVE LinkInv'
  BY <1>12, ValueAssumption DEF Resolve
<1>13. ASSUME NEW i \in Installers, KeepPrevious(i) PROVE LinkInv'
  BY <1>13, ValueAssumption DEF KeepPrevious
<1>14. ASSUME NEW i \in Installers, Switch(i) PROVE LinkInv'
  BY <1>14, ValueAssumption DEF Switch, StageInv, Checked
<1>15. ASSUME NEW i \in Installers, Raise(i) PROVE LinkInv'
  BY <1>15 DEF Raise
<1>16. ASSUME NEW i \in Installers, Cleanup(i) PROVE LinkInv'
  BY <1>16 DEF Cleanup
<1>17. ASSUME NEW i \in Installers, CleanupFails(i) PROVE LinkInv'
  BY <1>17 DEF CleanupFails
<1>18. ASSUME NEW i \in Installers, Kill(i) PROVE LinkInv'
  BY <1>18 DEF Kill
<1>19. ASSUME NEW l \in Launchers, Look(l) PROVE LinkInv'
  BY <1>19 DEF Look
<1>20. ASSUME NEW l \in Launchers, ResolveRoot(l) PROVE LinkInv'
  BY <1>20 DEF ResolveRoot
<1>21. ASSUME NEW l \in Launchers, ReadManifest(l) PROVE LinkInv'
  BY <1>21 DEF ReadManifest
<1>22. ASSUME NEW l \in Launchers, HashPinned(l) PROVE LinkInv'
  BY <1>22 DEF HashPinned
<1>23. ASSUME NEW l \in Launchers, AllPinned(l) PROVE LinkInv'
  BY <1>23 DEF AllPinned
<1>24. ASSUME NEW l \in Launchers, Exec(l) PROVE LinkInv'
  BY <1>24 DEF Exec
<1>25. ASSUME NEW l \in Launchers, Leave(l) PROVE LinkInv'
  BY <1>25 DEF Leave
<1>26. CASE Rollback
  BY <1>26, ValueAssumption DEF Rollback
<1>27. ASSUME NEW h \in Homes, NEW f \in Files, NEW c \in Content, DriftFile(h, f, c) PROVE LinkInv'
  BY <1>27 DEF DriftFile, Touched
<1>28. ASSUME NEW h \in Homes, DriftManifest(h) PROVE LinkInv'
  BY <1>28 DEF DriftManifest
<1>29. CASE UNCHANGED vars
  BY <1>29 DEF vars
<1> QED
  BY <1>1, <1>2, <1>3, <1>4, <1>5, <1>6, <1>7, <1>8, <1>9, <1>10, <1>11,
     <1>12, <1>13, <1>14, <1>15, <1>16, <1>17, <1>18, <1>19, <1>20, <1>21,
     <1>22, <1>23, <1>24, <1>25, <1>26, <1>27, <1>28, <1>29
     DEF Next, InstallStep, LaunchStep, Drift

\* Every step keeps what an installer nobody overtook knows of the links.
LEMMA StepRace == TypeOK /\ RaceInv /\ [Next]_vars => RaceInv'
<1> SUFFICES ASSUME TypeOK, RaceInv, [Next]_vars PROVE RaceInv'
  OBVIOUS
<1> USE DEF TypeOK, RaceInv, Overtaken, Goto, Stand, releases, links, installer, launcher, drift
<1>1. ASSUME NEW i \in Installers, Begin(i) PROVE RaceInv'
  BY <1>1 DEF Begin
<1>2. ASSUME NEW i \in Installers, Refuse(i) PROVE RaceInv'
  BY <1>2 DEF Refuse
<1>3. ASSUME NEW i \in Installers, Collect(i) PROVE RaceInv'
  BY <1>3 DEF Collect
<1>4. ASSUME NEW i \in Installers, WriteFile(i) PROVE RaceInv'
  BY <1>4 DEF WriteFile
<1>5. ASSUME NEW i \in Installers, CheckSyntax(i) PROVE RaceInv'
  BY <1>5 DEF CheckSyntax
<1>6. ASSUME NEW i \in Installers, WriteManifest(i) PROVE RaceInv'
  BY <1>6 DEF WriteManifest
<1>7. ASSUME NEW i \in Installers, FindTarget(i) PROVE RaceInv'
  BY <1>7 DEF FindTarget
<1>8. ASSUME NEW i \in Installers, CompareManifest(i) PROVE RaceInv'
  BY <1>8 DEF CompareManifest
<1>9. ASSUME NEW i \in Installers, HashFile(i) PROVE RaceInv'
  BY <1>9 DEF HashFile
<1>10. ASSUME NEW i \in Installers, AllHashed(i) PROVE RaceInv'
  BY <1>10 DEF AllHashed
<1>11. ASSUME NEW i \in Installers, Publish(i) PROVE RaceInv'
  BY <1>11 DEF Publish
<1>12. ASSUME NEW i \in Installers, Resolve(i) PROVE RaceInv'
  BY <1>12 DEF Resolve
<1>13. ASSUME NEW i \in Installers, KeepPrevious(i) PROVE RaceInv'
  BY <1>13 DEF KeepPrevious
<1>14. ASSUME NEW i \in Installers, Switch(i) PROVE RaceInv'
  BY <1>14 DEF Switch
<1>15. ASSUME NEW i \in Installers, Raise(i) PROVE RaceInv'
  BY <1>15 DEF Raise
<1>16. ASSUME NEW i \in Installers, Cleanup(i) PROVE RaceInv'
  BY <1>16 DEF Cleanup
<1>17. ASSUME NEW i \in Installers, CleanupFails(i) PROVE RaceInv'
  BY <1>17 DEF CleanupFails
<1>18. ASSUME NEW i \in Installers, Kill(i) PROVE RaceInv'
  BY <1>18 DEF Kill
<1>19. ASSUME NEW l \in Launchers, Look(l) PROVE RaceInv'
  BY <1>19 DEF Look
<1>20. ASSUME NEW l \in Launchers, ResolveRoot(l) PROVE RaceInv'
  BY <1>20 DEF ResolveRoot
<1>21. ASSUME NEW l \in Launchers, ReadManifest(l) PROVE RaceInv'
  BY <1>21 DEF ReadManifest
<1>22. ASSUME NEW l \in Launchers, HashPinned(l) PROVE RaceInv'
  BY <1>22 DEF HashPinned
<1>23. ASSUME NEW l \in Launchers, AllPinned(l) PROVE RaceInv'
  BY <1>23 DEF AllPinned
<1>24. ASSUME NEW l \in Launchers, Exec(l) PROVE RaceInv'
  BY <1>24 DEF Exec
<1>25. ASSUME NEW l \in Launchers, Leave(l) PROVE RaceInv'
  BY <1>25 DEF Leave
<1>26. CASE Rollback
  BY <1>26 DEF Rollback
<1>27. ASSUME NEW h \in Homes, NEW f \in Files, NEW c \in Content, DriftFile(h, f, c) PROVE RaceInv'
  BY <1>27 DEF DriftFile, Touched
<1>28. ASSUME NEW h \in Homes, DriftManifest(h) PROVE RaceInv'
  BY <1>28 DEF DriftManifest
<1>29. CASE UNCHANGED vars
  BY <1>29 DEF vars
<1> QED
  BY <1>1, <1>2, <1>3, <1>4, <1>5, <1>6, <1>7, <1>8, <1>9, <1>10, <1>11,
     <1>12, <1>13, <1>14, <1>15, <1>16, <1>17, <1>18, <1>19, <1>20, <1>21,
     <1>22, <1>23, <1>24, <1>25, <1>26, <1>27, <1>28, <1>29
     DEF Next, InstallStep, LaunchStep, Drift

\* Every step keeps what launchers found right.
LEMMA StepLaunch == TypeOK /\ LinkInv /\ LaunchInv /\ [Next]_vars => LaunchInv'
<1> SUFFICES ASSUME TypeOK, LinkInv, LaunchInv, [Next]_vars PROVE LaunchInv'
  OBVIOUS
<1> USE DEF TypeOK, LaunchInv, Standing, Procs, Homes, Goto, Stand, releases, links, installer, launcher, drift
<1>1. ASSUME NEW i \in Installers, Begin(i) PROVE LaunchInv'
  BY <1>1 DEF Begin
<1>2. ASSUME NEW i \in Installers, Refuse(i) PROVE LaunchInv'
  BY <1>2 DEF Refuse
<1>3. ASSUME NEW i \in Installers, Collect(i) PROVE LaunchInv'
  BY <1>3 DEF Collect
<1>4. ASSUME NEW i \in Installers, WriteFile(i) PROVE LaunchInv'
  BY <1>4 DEF WriteFile
<1>5. ASSUME NEW i \in Installers, CheckSyntax(i) PROVE LaunchInv'
  BY <1>5 DEF CheckSyntax
<1>6. ASSUME NEW i \in Installers, WriteManifest(i) PROVE LaunchInv'
  BY <1>6 DEF WriteManifest
<1>7. ASSUME NEW i \in Installers, FindTarget(i) PROVE LaunchInv'
  BY <1>7 DEF FindTarget
<1>8. ASSUME NEW i \in Installers, CompareManifest(i) PROVE LaunchInv'
  BY <1>8 DEF CompareManifest
<1>9. ASSUME NEW i \in Installers, HashFile(i) PROVE LaunchInv'
  <2>1. \A l \in Launchers : hashed'[l] = hashed[l]
    BY <1>9, ValueAssumption DEF HashFile
  <2> QED
    BY <1>9, <2>1 DEF HashFile
<1>10. ASSUME NEW i \in Installers, AllHashed(i) PROVE LaunchInv'
  BY <1>10 DEF AllHashed
<1>11. ASSUME NEW i \in Installers, Publish(i) PROVE LaunchInv'
  <2>1. \A r \in published : dir'[r] = dir[r]
    BY <1>11 DEF Publish
  <2> QED
    BY <1>11, <2>1 DEF Publish
<1>12. ASSUME NEW i \in Installers, Resolve(i) PROVE LaunchInv'
  BY <1>12 DEF Resolve
<1>13. ASSUME NEW i \in Installers, KeepPrevious(i) PROVE LaunchInv'
  BY <1>13 DEF KeepPrevious
<1>14. ASSUME NEW i \in Installers, Switch(i) PROVE LaunchInv'
  BY <1>14, ValueAssumption DEF Switch
<1>15. ASSUME NEW i \in Installers, Raise(i) PROVE LaunchInv'
  BY <1>15 DEF Raise
<1>16. ASSUME NEW i \in Installers, Cleanup(i) PROVE LaunchInv'
  BY <1>16 DEF Cleanup
<1>17. ASSUME NEW i \in Installers, CleanupFails(i) PROVE LaunchInv'
  BY <1>17 DEF CleanupFails
<1>18. ASSUME NEW i \in Installers, Kill(i) PROVE LaunchInv'
  BY <1>18 DEF Kill
<1>19. ASSUME NEW l \in Launchers, Look(l) PROVE LaunchInv'
  BY <1>19 DEF Look
<1>20. ASSUME NEW l \in Launchers, ResolveRoot(l) PROVE LaunchInv'
  BY <1>20, ValueAssumption DEF ResolveRoot, LinkInv
<1>21. ASSUME NEW l \in Launchers, ReadManifest(l) PROVE LaunchInv'
  BY <1>21 DEF ReadManifest
<1>22. ASSUME NEW l \in Launchers, HashPinned(l) PROVE LaunchInv'
  BY <1>22 DEF HashPinned
<1>23. ASSUME NEW l \in Launchers, AllPinned(l) PROVE LaunchInv'
  BY <1>23 DEF AllPinned
<1>24. ASSUME NEW l \in Launchers, Exec(l) PROVE LaunchInv'
  BY <1>24 DEF Exec
<1>25. ASSUME NEW l \in Launchers, Leave(l) PROVE LaunchInv'
  BY <1>25 DEF Leave
<1>26. CASE Rollback
  BY <1>26, ValueAssumption DEF Rollback
<1>27. ASSUME NEW h \in Homes, NEW f \in Files, NEW c \in Content, DriftFile(h, f, c) PROVE LaunchInv'
  <2>1. \A r \in Homes \ {h} : dir'[r] = dir[r]
    BY <1>27 DEF DriftFile
  <2>2. \A g \in Files \ {f} : dir'[h].files[g] = dir[h].files[g]
    <3>1. dir[h].files \in [Files -> Content]
      BY BundleType
    <3> QED
      BY <1>27, <3>1 DEF DriftFile
  <2>3. \A l \in Launchers : late[l] \subseteq late'[l] /\ (root[l] = h => f \in late'[l])
    BY <1>27 DEF DriftFile, Touched
  <2>4. \A l \in Launchers : hashed[l] \subseteq Files /\ read[l].pins \subseteq Files
    BY DEF Manifest
  <2>5. Wrapper \in Files
    BY FilesAssumption DEF Files
  <2> QED
    BY <1>27, <2>1, <2>2, <2>3, <2>4, <2>5 DEF DriftFile
<1>28. ASSUME NEW h \in Homes, DriftManifest(h) PROVE LaunchInv'
  <2>1. \A r \in Homes : dir'[r].files = dir[r].files
    BY <1>28 DEF DriftManifest
  <2> QED
    BY <1>28, <2>1 DEF DriftManifest
<1>29. CASE UNCHANGED vars
  BY <1>29 DEF vars
<1> QED
  BY <1>1, <1>2, <1>3, <1>4, <1>5, <1>6, <1>7, <1>8, <1>9, <1>10, <1>11,
     <1>12, <1>13, <1>14, <1>15, <1>16, <1>17, <1>18, <1>19, <1>20, <1>21,
     <1>22, <1>23, <1>24, <1>25, <1>26, <1>27, <1>28, <1>29
     DEF Next, InstallStep, LaunchStep, Drift

\* The initial states satisfy the inductive invariant.
LEMMA InitInductive == Init => Inductive
<1> SUFFICES ASSUME Init PROVE Inductive
  OBVIOUS
<1> USE DEF Init
<1>1. ReleasesAreWhole
  BY DEF ReleasesAreWhole
<1>2. StageInv
  BY DEF StageInv, Checked
<1>5. HashInv
  BY DEF HashInv, Procs
<1>6. SwitchInv /\ RaceInv
  BY DEF SwitchInv, RaceInv
<1>3. LinkInv
  BY ValueAssumption DEF LinkInv, Homes
<1>4. LaunchInv
  BY DEF LaunchInv
<1> QED
  BY <1>1, <1>2, <1>3, <1>4, <1>5, <1>6 DEF Inductive

\* The inductive invariant of the specification.
THEOREM InductiveCorrect == Spec => []Inductive
<1>1. TypeOK /\ Inductive /\ [Next]_vars => Inductive'
  BY StepStage, StepWhole, StepHash, StepSwitch, StepLink, StepRace, StepLaunch DEF Inductive
<1> QED
  BY <1>1, InitInductive, TypeCorrect, PTL DEF Spec

-----------------------------------------------------------------------------
\* The properties.

\* A release that only installers wrote to is whole.
THEOREM WholeCorrect == Spec => []ReleasesAreWhole
<1>1. Inductive => ReleasesAreWhole
  BY DEF Inductive
<1> QED
  BY <1>1, InductiveCorrect, PTL

\* What is about to become current was reviewed, compiles, and had the right hashes.
THEOREM VerifiedCorrect == Spec => []VerifiedBeforeSwitch
<1>1. TypeOK /\ Inductive => VerifiedBeforeSwitch
  <2> SUFFICES ASSUME TypeOK, Inductive, NEW i \in Installers, pc[i] \in {"resolve", "keep", "switch"}
               PROVE  /\ rev[i] \in published \cap Reviewed \cap Parses
                      /\ rev[i] \in Declares => Helper \in Ships(rev[i])
                      /\ \A f \in Ships(rev[i]) : dir[rev[i]].files[f] = rev[i] \/ f \in late[i]
    BY DEF VerifiedBeforeSwitch
  <2>1. rev[i] \in published \cap Reviewed \cap Parses /\ (rev[i] \in Declares => Helper \in Tree[rev[i]])
    BY DEF Inductive, StageInv, Checked
  <2> QED
    BY <2>1 DEF Inductive, HashInv, Ships
<1> QED
  BY <1>1, InductiveCorrect, TypeCorrect, PTL

\* An installer that failed and could clean up did not move `current'.
THEOREM FailureCorrect == Spec => []FailureRetainsCurrent
<1>1. Inductive => FailureRetainsCurrent
  BY DEF Inductive, SwitchInv, FailureRetainsCurrent
<1> QED
  BY <1>1, InductiveCorrect, PTL

\* What runs is what the manifest pins.
THEOREM PinnedCorrect == Spec => []CleanRunIsPinned
<1>1. Inductive => CleanRunIsPinned
  BY DEF Inductive, LaunchInv, CleanRunIsPinned
<1> QED
  BY <1>1, InductiveCorrect, PTL

\* Only Switch adds to `switched'.
LEMMA WhoSwitches ==
  ASSUME [Next]_vars, NEW i \in switched' \ switched
  PROVE  i \in Installers /\ Switch(i)
<1>1. CASE UNCHANGED switched
  BY <1>1
<1>2. ASSUME NEW j \in Installers, Switch(j) PROVE i = j
  BY <1>2 DEF Switch
<1> USE DEF links, releases, installer, launcher, drift
<1>3. ASSUME NEW j \in Installers, InstallStep(j), ~Switch(j) PROVE UNCHANGED switched
  BY <1>3 DEF InstallStep, Begin, Refuse, Collect, WriteFile, CheckSyntax, WriteManifest,
     FindTarget, CompareManifest, HashFile, AllHashed, Publish, Resolve, KeepPrevious,
     Raise, Cleanup, CleanupFails, Kill
<1>4. ASSUME NEW l \in Launchers, LaunchStep(l) PROVE UNCHANGED switched
  BY <1>4 DEF LaunchStep, Look, ResolveRoot, ReadManifest, HashPinned, AllPinned, Exec, Leave
<1>5. CASE Rollback \/ Drift \/ UNCHANGED vars
  BY <1>5 DEF Rollback, Drift, DriftFile, DriftManifest, vars
<1> QED
  BY <1>1, <1>2, <1>3, <1>4, <1>5 DEF Next, InstallStep

\* Who replaces `current' unraced leaves what it replaced in `previous'.
THEOREM RollbackCorrect == Spec => RollbackPointsBack
<1>1. TypeOK /\ Inductive /\ [Next]_vars =>
        [\A i \in switched' \ switched :
           i \notin raced /\ current \notin {None, rev[i]} => previous' = current]_vars
  <2> SUFFICES ASSUME TypeOK, Inductive, [Next]_vars, NEW i \in switched' \ switched,
                      i \notin raced, current \notin {None, rev[i]}
               PROVE  previous' = current
    OBVIOUS
  <2>1. i \in Installers /\ Switch(i)
    BY WhoSwitches
  <2>2. seen[i] = current /\ previous = seen[i]
    BY <2>1 DEF Inductive, RaceInv, Switch
  <2> QED
    BY <2>1, <2>2 DEF Switch
<1> QED
  BY <1>1, InductiveCorrect, TypeCorrect, PTL DEF Spec, RollbackPointsBack

-----------------------------------------------------------------------------
\* The installer implements AtomicInstall.

LEMMA StutterStep ==
  ASSUME UNCHANGED <<published, dir, spoiled, current, previous, activated>>
  PROVE  UNCHANGED Promise!vars
  BY DEF Promise!vars, Shelf

\* A write of the local writer is a Spoil, unless it is to somebody else's directory.
LEMMA SpoilStep ==
  ASSUME NEW h \in published, TypeOK, UNCHANGED <<published, links>>,
         spoiled' = spoiled \cup {h}, \A r \in Revs \ {h} : dir'[r] = dir[r]
  PROVE  Promise!Next \/ UNCHANGED Promise!vars
<1>1. \A r \in Revs \ {h} : Shelf'[r] = Shelf[r]
  BY DEF Shelf
<1>2. CASE h = Unmanaged
  <2>1. UNCHANGED Shelf
    BY <1>2, ValueAssumption DEF Shelf
  <2> QED
    BY <1>2, <2>1 DEF Promise!vars, links
<1>3. CASE h \in Revs
  <2>1. Shelf[h] # {} /\ Shelf'[h] # {}
    BY <1>3 DEF Shelf
  <2>2. Shelf' = [Shelf EXCEPT ![h] = Shelf'[h]]
    BY <1>1, <1>3 DEF Shelf
  <2>3. spoiled' \ {Unmanaged} = (spoiled \ {Unmanaged}) \cup {h}
    BY <1>3, ValueAssumption
  <2>4. Promise!Spoil(h)
    BY <2>1, <2>2, <2>3 DEF Promise!Spoil, links
  <2> QED
    BY <1>3, <2>4 DEF Promise!Next
<1> QED
  BY <1>2, <1>3 DEF TypeOK, Homes

\* Every step is a step of AtomicInstall or a stutter.
LEMMA StepPromise == TypeOK /\ Inductive /\ [Next]_vars => Promise!Next \/ UNCHANGED Promise!vars
<1> SUFFICES ASSUME TypeOK, Inductive, [Next]_vars PROVE Promise!Next \/ UNCHANGED Promise!vars
  OBVIOUS
<1>1. ASSUME NEW i \in Installers, Begin(i) PROVE Promise!Next \/ UNCHANGED Promise!vars
  BY <1>1, StutterStep DEF Begin, releases, links, drift
<1>2. ASSUME NEW i \in Installers, Refuse(i) PROVE Promise!Next \/ UNCHANGED Promise!vars
  BY <1>2, StutterStep DEF Refuse, releases, links, drift
<1>3. ASSUME NEW i \in Installers, Collect(i) PROVE Promise!Next \/ UNCHANGED Promise!vars
  BY <1>3, StutterStep DEF Collect, releases, links, drift
<1>4. ASSUME NEW i \in Installers, WriteFile(i) PROVE Promise!Next \/ UNCHANGED Promise!vars
  BY <1>4, StutterStep DEF WriteFile, releases, links, drift
<1>5. ASSUME NEW i \in Installers, CheckSyntax(i) PROVE Promise!Next \/ UNCHANGED Promise!vars
  BY <1>5, StutterStep DEF CheckSyntax, releases, links, drift
<1>6. ASSUME NEW i \in Installers, WriteManifest(i) PROVE Promise!Next \/ UNCHANGED Promise!vars
  BY <1>6, StutterStep DEF WriteManifest, releases, links, drift
<1>7. ASSUME NEW i \in Installers, FindTarget(i) PROVE Promise!Next \/ UNCHANGED Promise!vars
  BY <1>7, StutterStep DEF FindTarget, releases, links, drift
<1>8. ASSUME NEW i \in Installers, CompareManifest(i) PROVE Promise!Next \/ UNCHANGED Promise!vars
  BY <1>8, StutterStep DEF CompareManifest, releases, links, drift
<1>9. ASSUME NEW i \in Installers, HashFile(i) PROVE Promise!Next \/ UNCHANGED Promise!vars
  BY <1>9, StutterStep DEF HashFile, releases, links, drift
<1>10. ASSUME NEW i \in Installers, AllHashed(i) PROVE Promise!Next \/ UNCHANGED Promise!vars
  BY <1>10, StutterStep DEF AllHashed, releases, links, drift
<1>11. ASSUME NEW i \in Installers, Publish(i) PROVE Promise!Next \/ UNCHANGED Promise!vars
  <2>1. stage[i] = Packed(rev[i], Ships(rev[i])) /\ rev[i] \in Revs
    BY <1>11 DEF Publish, Inductive, StageInv, Checked, TypeOK
  <2>2. dir' = [dir EXCEPT ![rev[i]] = Packed(rev[i], Ships(rev[i]))]
    BY <1>11, <2>1 DEF Publish
  <2>3. dir'[rev[i]] = Packed(rev[i], Ships(rev[i])) /\ \A r \in Revs \ {rev[i]} : dir'[r] = dir[r]
    BY <2>1, <2>2 DEF TypeOK, Homes
  <2>4. Shelf[rev[i]] = {}
    BY <1>11, <2>1 DEF Publish, Shelf
  <2>5. Shelf' = [Shelf EXCEPT ![rev[i]] = {Packed(rev[i], Ships(rev[i]))}]
    <3>1. published' = published \cup {rev[i]}
      BY <1>11 DEF Publish
    <3>2. \A r \in Revs \ {rev[i]} : Shelf'[r] = Shelf[r]
      BY <2>3, <3>1 DEF Shelf
    <3>3. Shelf'[rev[i]] = {Packed(rev[i], Ships(rev[i]))}
      BY <2>1, <2>3, <3>1 DEF Shelf
    <3> QED
      BY <3>2, <3>3 DEF Shelf
  <2>6. Promise!Publish(rev[i])
    BY <1>11, <2>1, <2>4, <2>5 DEF Publish, Promise!Publish, links, drift
  <2> QED
    BY <2>1, <2>6 DEF Promise!Next
<1>12. ASSUME NEW i \in Installers, Resolve(i) PROVE Promise!Next \/ UNCHANGED Promise!vars
  BY <1>12, StutterStep DEF Resolve, releases, links, drift
<1>13. ASSUME NEW i \in Installers, KeepPrevious(i) PROVE Promise!Next \/ UNCHANGED Promise!vars
  <2>1. UNCHANGED <<Shelf, spoiled, current, activated>>
    BY <1>13 DEF KeepPrevious, releases, drift, Shelf
  <2>2. CASE UNCHANGED previous
    BY <2>1, <2>2 DEF Promise!vars
  <2>3. CASE previous' = seen[i] /\ seen[i] # None
    <3>1. seen[i] \in activated /\ seen[i] \in Revs
      BY <1>13, <2>3 DEF KeepPrevious, Inductive, LinkInv, TypeOK
    <3>2. Promise!Remember(seen[i])
      BY <2>1, <2>3, <3>1 DEF Promise!Remember
    <3> QED
      BY <3>1, <3>2 DEF Promise!Next
  <2> QED
    BY <1>13, <2>2, <2>3 DEF KeepPrevious
<1>14. ASSUME NEW i \in Installers, Switch(i) PROVE Promise!Next \/ UNCHANGED Promise!vars
  <2>1. rev[i] \in Revs \cap published /\ current # Unmanaged
    BY <1>14 DEF Switch, Inductive, StageInv, LinkInv, TypeOK
  <2>2. UNCHANGED <<Shelf, spoiled, previous>>
    BY <1>14 DEF Switch, releases, drift, Shelf
  <2>3. Shelf[rev[i]] # {}
    BY <2>1 DEF Shelf
  <2>4. Promise!Activate(rev[i])
    BY <1>14, <2>1, <2>2, <2>3 DEF Switch, Promise!Activate
  <2> QED
    BY <2>1, <2>4 DEF Promise!Next
<1>15. ASSUME NEW i \in Installers, Raise(i) PROVE Promise!Next \/ UNCHANGED Promise!vars
  BY <1>15, StutterStep DEF Raise, releases, links, drift
<1>16. ASSUME NEW i \in Installers, Cleanup(i) PROVE Promise!Next \/ UNCHANGED Promise!vars
  BY <1>16, StutterStep DEF Cleanup, releases, links, drift
<1>17. ASSUME NEW i \in Installers, CleanupFails(i) PROVE Promise!Next \/ UNCHANGED Promise!vars
  BY <1>17, StutterStep DEF CleanupFails, releases, links, drift
<1>18. ASSUME NEW i \in Installers, Kill(i) PROVE Promise!Next \/ UNCHANGED Promise!vars
  BY <1>18, StutterStep DEF Kill, releases, links, drift
<1>19. ASSUME NEW l \in Launchers, Look(l) PROVE Promise!Next \/ UNCHANGED Promise!vars
  BY <1>19, StutterStep DEF Look, releases, links, drift
<1>20. ASSUME NEW l \in Launchers, ResolveRoot(l) PROVE Promise!Next \/ UNCHANGED Promise!vars
  BY <1>20, StutterStep DEF ResolveRoot, releases, links, drift
<1>21. ASSUME NEW l \in Launchers, ReadManifest(l) PROVE Promise!Next \/ UNCHANGED Promise!vars
  BY <1>21, StutterStep DEF ReadManifest, releases, links, drift
<1>22. ASSUME NEW l \in Launchers, HashPinned(l) PROVE Promise!Next \/ UNCHANGED Promise!vars
  BY <1>22, StutterStep DEF HashPinned, releases, links, drift
<1>23. ASSUME NEW l \in Launchers, AllPinned(l) PROVE Promise!Next \/ UNCHANGED Promise!vars
  BY <1>23, StutterStep DEF AllPinned, releases, links, drift
<1>24. ASSUME NEW l \in Launchers, Exec(l) PROVE Promise!Next \/ UNCHANGED Promise!vars
  BY <1>24, StutterStep DEF Exec, releases, links, drift
<1>25. ASSUME NEW l \in Launchers, Leave(l) PROVE Promise!Next \/ UNCHANGED Promise!vars
  BY <1>25, StutterStep DEF Leave, releases, links, drift
<1>26. CASE Rollback
  <2>1. previous \in activated /\ previous \in Revs \cap published /\ current # Unmanaged
    BY <1>26 DEF Rollback, Inductive, LinkInv, TypeOK
  <2>2. UNCHANGED <<Shelf, spoiled, previous, activated>>
    BY <1>26 DEF Rollback, releases, drift, Shelf
  <2>3. Shelf[previous] # {}
    BY <2>1 DEF Shelf
  <2>4. Promise!Activate(previous)
    BY <1>26, <2>1, <2>2, <2>3 DEF Rollback, Promise!Activate
  <2> QED
    BY <2>1, <2>4 DEF Promise!Next
<1>27. ASSUME NEW h \in Homes, NEW f \in Files, NEW c \in Content, DriftFile(h, f, c) PROVE Promise!Next \/ UNCHANGED Promise!vars
  <2>1. h \in published /\ UNCHANGED <<published, links>> /\ spoiled' = spoiled \cup {h}
    BY <1>27 DEF DriftFile
  <2>2. \A r \in Revs \ {h} : dir'[r] = dir[r]
    BY <1>27 DEF DriftFile, TypeOK, Homes
  <2> QED
    BY <2>1, <2>2, SpoilStep
<1>28. ASSUME NEW h \in Homes, DriftManifest(h) PROVE Promise!Next \/ UNCHANGED Promise!vars
  <2>1. h \in published /\ UNCHANGED <<published, links>> /\ spoiled' = spoiled \cup {h}
    BY <1>28 DEF DriftManifest
  <2>2. \A r \in Revs \ {h} : dir'[r] = dir[r]
    BY <1>28 DEF DriftManifest, TypeOK, Homes
  <2> QED
    BY <2>1, <2>2, SpoilStep
<1>29. CASE UNCHANGED vars
  BY <1>29, StutterStep DEF vars, releases, links, drift
<1> QED
  BY <1>1, <1>2, <1>3, <1>4, <1>5, <1>6, <1>7, <1>8, <1>9, <1>10, <1>11,
     <1>12, <1>13, <1>14, <1>15, <1>16, <1>17, <1>18, <1>19, <1>20, <1>21,
     <1>22, <1>23, <1>24, <1>25, <1>26, <1>27, <1>28, <1>29
     DEF Next, InstallStep, LaunchStep, Drift

\* Every behaviour of installers, launchers, rollbacks and the local writer is
\* one of AtomicInstall.
THEOREM PromiseKept == Spec => ImplementsAtomicInstall
<1>1. Init => Promise!Init
  <2> SUFFICES ASSUME Init PROVE Promise!Init
    OBVIOUS
  <2>1. current \in Revs \cup {None, Unmanaged} /\ previous \in activated \cup {None}
    BY ValueAssumption DEF Init, Homes
  <2>2. activated \subseteq published \cap Revs
    BY DEF Init, Homes
  <2>3. \A r \in activated : Shelf[r] # {}
    <3> SUFFICES ASSUME NEW r \in activated PROVE Shelf[r] # {}
      OBVIOUS
    <3>1. r \in Revs /\ r \in {r} \cap published
      BY <2>2
    <3>2. Shelf[r] = {dir[h] : h \in {r} \cap published}
      BY <3>1 DEF Shelf
    <3>3. dir[r] \in Shelf[r]
      BY <3>1, <3>2
    <3> QED
      BY <3>3
  <2>4. spoiled \ {Unmanaged} = {}
    BY DEF Init
  <2> QED
    BY <2>1, <2>3, <2>4 DEF Promise!Init
<1>2. TypeOK /\ Inductive /\ [Next]_vars => [Promise!Next]_(Promise!vars)
  BY StepPromise
<1> QED
  BY <1>1, <1>2, TypeCorrect, InductiveCorrect, PTL
     DEF Spec, ImplementsAtomicInstall, Promise!Spec
=============================================================================
