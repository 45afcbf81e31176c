------------------------ MODULE TeamkbBackup_proofs ------------------------
(***************************************************************************)
(* Theorems about TeamkbBackup, for any number of invocations, writers,    *)
(* tiers and govern passes and any retention of at least one archive.      *)
(***************************************************************************)
EXTENDS TeamkbBackup, FiniteSetTheorems, TLAPS

-----------------------------------------------------------------------------
\* Lemmas about the operators.

LEMMA SealedType ==
  ASSUME TypeOK, NEW r \in Runs
  PROVE  Sealed(r) \subseteq Archive
<1>1. [at |-> ts[r], brain |-> snap[r], proved |-> FALSE] \in Archive
  <2>1. ts[r] \in Nat /\ snap[r] \in Contents
    BY DEF TypeOK
  <2> QED
    BY <2>1 DEF Archive
<1> QED
  BY <1>1 DEF Sealed, Others, TypeOK

LEMMA CopyType ==
  ASSUME TypeOK, NEW r \in Runs, NEW ok \in BOOLEAN
  PROVE  CopyOf(r, ok) \subseteq Copy
<1>1. ASSUME NEW a \in local
      PROVE  [at |-> a.at, proved |-> a.proved, intact |-> ok] \in Copy
  <2>1. a \in Archive
    BY DEF TypeOK
  <2>2. a.at \in Nat /\ a.proved \in BOOLEAN
    BY <2>1 DEF Archive
  <2> QED
    BY <2>2 DEF Copy
<1> QED
  BY <1>1 DEF CopyOf, Mine

\* Retention keeps the newest file.
LEMMA NewestKeepsTheLast ==
  ASSUME NEW S, NEW a \in S, \A b \in S : ~(b.at > a.at)
  PROVE  a \in Newest(S)
<1>1. {b \in S : b.at > a.at} = {}
  OBVIOUS
<1>2. Cardinality({b \in S : b.at > a.at}) = 0
  BY <1>1, FS_EmptySet
<1> QED
  BY <1>2, RetainAssumption DEF Newest

\* Retention, complete or not, deletes files and none of the newest.
LEMMA RetainedBounds ==
  ASSUME NEW S
  PROVE  /\ Newest(S) \in Retained(S)
         /\ \A T \in Retained(S) : Newest(S) \subseteq T /\ T \subseteq S
  BY DEF Newest, Retained

\* Files that have stamps of their own.
Stamps(S) == /\ IsFiniteSet(S)
             /\ \A a \in S : a.at \in Nat
             /\ \A a, b \in S : a.at = b.at => a = b

\* The newest are as many as are to be retained, or all there are, and no file
\* that is left out is newer than one of them.
LEMMA NewestCount ==
  ASSUME NEW S, Stamps(S)
  PROVE  /\ Newest(S) \subseteq S /\ IsFiniteSet(Newest(S))
         /\ Cardinality(Newest(S)) = IF Cardinality(S) < Retain THEN Cardinality(S) ELSE Retain
         /\ \A a \in S \ Newest(S) : \A b \in Newest(S) : a.at < b.at
<1> DEFINE newer(a) == {b \in S : b.at > a.at}
           rank == [a \in S |-> Cardinality(newer(a))]
           n == Cardinality(S)
           m == IF n < Retain THEN n ELSE Retain
<1>1. IsFiniteSet(S) /\ n \in Nat /\ Retain \in Nat \ {0} /\ \A a \in S : a.at \in Nat
  BY FS_CardinalityType, RetainAssumption DEF Stamps
<1>2. \A a \in S : IsFiniteSet(newer(a)) /\ rank[a] \in Nat
  <2>1. \A a \in S : newer(a) \subseteq S
    OBVIOUS
  <2> HIDE DEF newer
  <2> QED
    BY <1>1, <2>1, FS_Subset, FS_CardinalityType
<1>3. ASSUME NEW a \in S PROVE rank[a] \in 0 .. n - 1
  <2>1. newer(a) \subseteq S \ {a}
    BY <1>1
  <2>2. IsFiniteSet(S \ {a}) /\ Cardinality(S \ {a}) = n - 1
    BY <1>1, FS_RemoveElement
  <2> HIDE DEF newer
  <2>3. Cardinality(newer(a)) <= n - 1
    BY <2>1, <2>2, FS_Subset
  <2> QED
    BY <1>1, <1>2, <2>3
<1>4. ASSUME NEW a \in S, NEW b \in S, a.at < b.at PROVE rank[b] < rank[a]
  <2>1. newer(b) \subseteq newer(a) /\ b \in newer(a) /\ b \notin newer(b)
    BY <1>1, <1>4
  <2>2. IsFiniteSet(newer(a)) /\ rank[a] \in Nat /\ rank[b] \in Nat
    BY <1>2
  <2> HIDE DEF newer
  <2>3. Cardinality(newer(b)) <= Cardinality(newer(a))
        /\ Cardinality(newer(b)) # Cardinality(newer(a))
    BY <2>1, <2>2, FS_Subset
  <2> QED
    BY <2>2, <2>3
<1>5. \A a, b \in S : a # b => rank[a] # rank[b]
  <2> SUFFICES ASSUME NEW a \in S, NEW b \in S, a # b PROVE rank[a] # rank[b]
    OBVIOUS
  <2>1. a.at < b.at \/ b.at < a.at
    BY <1>1 DEF Stamps
  <2>2. rank[a] < rank[b] \/ rank[b] < rank[a]
    BY <1>4, <2>1
  <2>3. rank[a] \in Nat /\ rank[b] \in Nat
    BY <1>2
  <2> HIDE DEF rank
  <2> QED
    BY <2>2, <2>3
<1>6. Newest(S) = {a \in S : rank[a] < Retain}
  BY DEF Newest
<1> HIDE DEF rank, newer
<1>7. \A u \in 0 .. n - 1 : \E a \in S : rank[a] = u
  <2> DEFINE T == {rank[a] : a \in S}
  <2>1. DOMAIN rank = S /\ rank = [a \in S |-> rank[a]]
    BY DEF rank
  <2>2. rank \in Surjection(S, T)
    BY <2>1 DEF Surjection
  <2>3. rank \in Injection(S, T)
    BY <1>5, <2>1 DEF Injection, IsInjective
  <2>4. T \subseteq 0 .. n - 1
    BY <1>3
  <2>5. IsFiniteSet(0 .. n - 1) /\ Cardinality(0 .. n - 1) = n
    BY <1>1, FS_Interval
  <2>6. Cardinality(T) = n
    BY <1>1, <2>2, <2>3, FS_Surjection
  <2> HIDE DEF T
  <2>7. T = 0 .. n - 1
    BY <2>4, <2>5, <2>6, FS_Subset
  <2> QED
    BY <2>7 DEF T
<1>8. IsFiniteSet(Newest(S)) /\ Newest(S) \subseteq S
  BY <1>1, <1>6, FS_Subset
<1>9. Cardinality(Newest(S)) = m
  <2> DEFINE f == [a \in Newest(S) |-> rank[a]]
  <2>1. m \in Nat /\ \A u \in Int : u \in 0 .. m - 1 <=> u \in 0 .. n - 1 /\ u < Retain
    BY <1>1
  <2>2. \A a \in Newest(S) : f[a] \in 0 .. m - 1
    BY <1>3, <1>6, <2>1
  <2>3. \A u \in 0 .. m - 1 : \E a \in Newest(S) : f[a] = u
    BY <1>6, <1>7, <2>1
  <2>4. f \in Surjection(Newest(S), 0 .. m - 1)
    BY <2>2, <2>3 DEF Surjection
  <2>5. f \in Injection(Newest(S), 0 .. m - 1)
    BY <1>5, <1>8, <2>2 DEF Injection, IsInjective
  <2>6. Cardinality(0 .. m - 1) = m
    BY <2>1, FS_Interval
  <2> HIDE DEF f
  <2> QED
    BY <1>8, <2>4, <2>5, <2>6, FS_Surjection
<1>10. ASSUME NEW a \in S \ Newest(S), NEW b \in Newest(S) PROVE a.at < b.at
  <2>1. rank[b] < rank[a] /\ b \in S
    BY <1>1, <1>2, <1>6
  <2>2. ~(b.at < a.at) /\ a # b
    BY <1>2, <1>4, <2>1
  <2> QED
    BY <1>1, <2>1, <2>2 DEF Stamps
<1> QED
  BY <1>8, <1>9, <1>10

LEMMA PruneRetains ==
  ASSUME NEW r \in Runs, Prune(r)
  PROVE  pc[r] = "prune" /\ local' \in Retained(local) /\ UNCHANGED <<lock, store, ts, now, copies>>
  BY RetainedBounds DEF Prune

-----------------------------------------------------------------------------
\* Types.

LEMMA InitType == Init => TypeOK
<1> SUFFICES ASSUME Init PROVE TypeOK
  OBVIOUS
<1>1. brain \in Contents
  BY DEF Init, Contents, Absent
<1>2. Empty \in Contents
  BY DEF Empty, Contents, Absent
<1>3. pc \in [Runs -> Place] /\ flags \in [Runs -> SUBSET Flag]
  BY DEF Init, Place
<1> QED
  BY <1>1, <1>2, <1>3 DEF Init, TypeOK

LEMMA StepType == TypeOK /\ [Next]_vars => TypeOK'
<1> SUFFICES ASSUME TypeOK, [Next]_vars PROVE TypeOK'
  OBVIOUS
<1> USE DEF TypeOK, Goto, Raise, Place, Body, Trap, Flag, store, markers, copies, staging
<1>1. ASSUME NEW r \in Runs, Start(r) PROVE TypeOK'
  BY <1>1 DEF Start
<1>2. ASSUME NEW r \in Runs, StartFails(r) PROVE TypeOK'
  BY <1>2 DEF StartFails
<1>28. ASSUME NEW r \in Runs, OpenFails(r) PROVE TypeOK'
  BY <1>28 DEF OpenFails
<1>3. ASSUME NEW r \in Runs, Kill(r) PROVE TypeOK'
  BY <1>3 DEF Kill, Empty, Contents, Absent
<1>4. ASSUME NEW r \in Runs, Acquire(r) PROVE TypeOK'
  BY <1>4 DEF Acquire
<1>5. ASSUME NEW r \in Runs, LockTimeout(r) PROVE TypeOK'
  BY <1>5 DEF LockTimeout
<1>6. ASSUME NEW r \in Runs, Preflight(r) PROVE TypeOK'
  BY <1>6 DEF Preflight
<1>7. ASSUME NEW r \in Runs, CommandFails(r) PROVE TypeOK'
  BY <1>7 DEF CommandFails
<1>8. ASSUME NEW r \in Runs, VacuumGovern(r) PROVE TypeOK'
  BY <1>8 DEF VacuumGovern, Contents, Artifacts
<1>9. ASSUME NEW r \in Runs, VacuumCompile(r) PROVE TypeOK'
  BY <1>9 DEF VacuumCompile, Contents, Artifacts
<1>10. ASSUME NEW r \in Runs, Stage(r) PROVE TypeOK'
  BY <1>10 DEF Stage, Contents, Artifacts
<1>11. ASSUME NEW r \in Runs, Encrypt(r) PROVE TypeOK'
  BY <1>11, SealedType DEF Encrypt
<1>12. ASSUME NEW r \in Runs, EncryptFails(r) PROVE TypeOK'
  BY <1>12, SealedType DEF EncryptFails
<1>13. ASSUME NEW r \in Runs, VerifyPasses(r) PROVE TypeOK'
  <2>1. ASSUME NEW a \in local
        PROVE  [at |-> a.at, brain |-> a.brain, proved |-> TRUE] \in Archive
    BY <2>1 DEF Archive
  <2> QED
    BY <1>13, <2>1 DEF VerifyPasses, Others, Mine
<1>14. ASSUME NEW r \in Runs, VerifyFails(r) PROVE TypeOK'
  BY <1>14 DEF VerifyFails, Others, Archive
<1>15. ASSUME NEW r \in Runs, PushR2(r) PROVE TypeOK'
  BY <1>15, CopyType DEF PushR2, Others, Retained
<1>16. ASSUME NEW r \in Runs, PushVps(r) PROVE TypeOK'
  BY <1>16, CopyType DEF PushVps, Others, Retained
<1>17. ASSUME NEW r \in Runs, ChecksumFails(r) PROVE TypeOK'
  BY <1>17, CopyType DEF ChecksumFails, Others
<1>18. ASSUME NEW r \in Runs, Prune(r) PROVE TypeOK'
  BY <1>18 DEF Prune, Newest, Retained
<1>19. ASSUME NEW r \in Runs, TrapBeat(r) PROVE TypeOK'
  BY <1>19 DEF TrapBeat, Empty, Contents, Absent
<1>20. ASSUME NEW r \in Runs, TrapMark(r) PROVE TypeOK'
  BY <1>20 DEF TrapMark
<1>21. ASSUME NEW r \in Runs, TrapAlert(r) PROVE TypeOK'
  BY <1>21 DEF TrapAlert
<1>22. ASSUME NEW r \in Runs, OrphanEnds(r) PROVE TypeOK'
  BY <1>22 DEF OrphanEnds
<1>23. ASSUME NEW w \in Writers, GovernBegin(w) PROVE TypeOK'
  BY <1>23 DEF GovernBegin, run
<1>24. ASSUME NEW w \in Writers, GovernWrite(w) PROVE TypeOK'
  BY <1>24 DEF GovernWrite, run, Contents
<1>25. ASSUME NEW w \in Writers, GovernEnd(w) PROVE TypeOK'
  BY <1>25 DEF GovernEnd, run
<1>26. ASSUME NEW w \in Writers, GovernDies(w) PROVE TypeOK'
  BY <1>26 DEF GovernDies, run
<1>27. CASE UNCHANGED vars
  BY <1>27 DEF vars
<1> QED
  BY <1>1, <1>2, <1>28, <1>3, <1>4, <1>5, <1>6, <1>7, <1>8, <1>9, <1>10, <1>11,
     <1>12, <1>13, <1>14, <1>15, <1>16, <1>17, <1>18, <1>19, <1>20,
     <1>21, <1>22, <1>23, <1>24, <1>25, <1>26, <1>27
     DEF Next, RunStep, RunEvent, GovernStep, Finished

\* The type invariant of the specification.
THEOREM TypeCorrect == Spec => []TypeOK
  BY InitType, StepType, PTL DEF Spec

-----------------------------------------------------------------------------
\* The writer lock.

LEMMA StepMutex == TypeOK /\ MutualExclusion /\ [Next]_vars => MutualExclusion'
<1> SUFFICES ASSUME TypeOK, MutualExclusion, [Next]_vars, HaveFlock
             PROVE  \A i \in Runs : HoldsBrain(i)' => lock' = i
  BY DEF MutualExclusion
<1> USE ProcessAssumption DEF TypeOK, MutualExclusion, HoldsBrain, Body, Goto, Raise
<1>1. ASSUME NEW r \in Runs, Start(r) PROVE \A i \in Runs : HoldsBrain(i)' => lock' = i
  BY <1>1 DEF Start
<1>2. ASSUME NEW r \in Runs, StartFails(r) PROVE \A i \in Runs : HoldsBrain(i)' => lock' = i
  BY <1>2 DEF StartFails
<1>28. ASSUME NEW r \in Runs, OpenFails(r) PROVE \A i \in Runs : HoldsBrain(i)' => lock' = i
  BY <1>28 DEF OpenFails
<1>3. ASSUME NEW r \in Runs, Kill(r) PROVE \A i \in Runs : HoldsBrain(i)' => lock' = i
  BY <1>3 DEF Kill
<1>4. ASSUME NEW r \in Runs, Acquire(r) PROVE \A i \in Runs : HoldsBrain(i)' => lock' = i
  BY <1>4 DEF Acquire
<1>5. ASSUME NEW r \in Runs, LockTimeout(r) PROVE \A i \in Runs : HoldsBrain(i)' => lock' = i
  BY <1>5 DEF LockTimeout
<1>6. ASSUME NEW r \in Runs, Preflight(r) PROVE \A i \in Runs : HoldsBrain(i)' => lock' = i
  BY <1>6 DEF Preflight
<1>7. ASSUME NEW r \in Runs, CommandFails(r) PROVE \A i \in Runs : HoldsBrain(i)' => lock' = i
  BY <1>7 DEF CommandFails
<1>8. ASSUME NEW r \in Runs, VacuumGovern(r) PROVE \A i \in Runs : HoldsBrain(i)' => lock' = i
  BY <1>8 DEF VacuumGovern
<1>9. ASSUME NEW r \in Runs, VacuumCompile(r) PROVE \A i \in Runs : HoldsBrain(i)' => lock' = i
  BY <1>9 DEF VacuumCompile
<1>10. ASSUME NEW r \in Runs, Stage(r) PROVE \A i \in Runs : HoldsBrain(i)' => lock' = i
  BY <1>10 DEF Stage
<1>11. ASSUME NEW r \in Runs, Encrypt(r) PROVE \A i \in Runs : HoldsBrain(i)' => lock' = i
  BY <1>11 DEF Encrypt
<1>12. ASSUME NEW r \in Runs, EncryptFails(r) PROVE \A i \in Runs : HoldsBrain(i)' => lock' = i
  BY <1>12 DEF EncryptFails
<1>13. ASSUME NEW r \in Runs, VerifyPasses(r) PROVE \A i \in Runs : HoldsBrain(i)' => lock' = i
  BY <1>13 DEF VerifyPasses
<1>14. ASSUME NEW r \in Runs, VerifyFails(r) PROVE \A i \in Runs : HoldsBrain(i)' => lock' = i
  BY <1>14 DEF VerifyFails
<1>15. ASSUME NEW r \in Runs, PushR2(r) PROVE \A i \in Runs : HoldsBrain(i)' => lock' = i
  BY <1>15 DEF PushR2
<1>16. ASSUME NEW r \in Runs, PushVps(r) PROVE \A i \in Runs : HoldsBrain(i)' => lock' = i
  BY <1>16 DEF PushVps
<1>17. ASSUME NEW r \in Runs, ChecksumFails(r) PROVE \A i \in Runs : HoldsBrain(i)' => lock' = i
  BY <1>17 DEF ChecksumFails
<1>18. ASSUME NEW r \in Runs, Prune(r) PROVE \A i \in Runs : HoldsBrain(i)' => lock' = i
  BY <1>18 DEF Prune
<1>19. ASSUME NEW r \in Runs, TrapBeat(r) PROVE \A i \in Runs : HoldsBrain(i)' => lock' = i
  BY <1>19 DEF TrapBeat
<1>20. ASSUME NEW r \in Runs, TrapMark(r) PROVE \A i \in Runs : HoldsBrain(i)' => lock' = i
  BY <1>20 DEF TrapMark
<1>21. ASSUME NEW r \in Runs, TrapAlert(r) PROVE \A i \in Runs : HoldsBrain(i)' => lock' = i
  BY <1>21 DEF TrapAlert
<1>22. ASSUME NEW r \in Runs, OrphanEnds(r) PROVE \A i \in Runs : HoldsBrain(i)' => lock' = i
  BY <1>22 DEF OrphanEnds
<1>23. ASSUME NEW w \in Writers, GovernBegin(w) PROVE \A i \in Runs : HoldsBrain(i)' => lock' = i
  BY <1>23 DEF GovernBegin, run
<1>24. ASSUME NEW w \in Writers, GovernWrite(w) PROVE \A i \in Runs : HoldsBrain(i)' => lock' = i
  BY <1>24 DEF GovernWrite, run
<1>25. ASSUME NEW w \in Writers, GovernEnd(w) PROVE \A i \in Runs : HoldsBrain(i)' => lock' = i
  BY <1>25 DEF GovernEnd, run
<1>26. ASSUME NEW w \in Writers, GovernDies(w) PROVE \A i \in Runs : HoldsBrain(i)' => lock' = i
  BY <1>26 DEF GovernDies, run
<1>27. CASE UNCHANGED vars
  BY <1>27 DEF vars
<1> QED
  BY <1>1, <1>2, <1>28, <1>3, <1>4, <1>5, <1>6, <1>7, <1>8, <1>9, <1>10, <1>11,
     <1>12, <1>13, <1>14, <1>15, <1>16, <1>17, <1>18, <1>19, <1>20,
     <1>21, <1>22, <1>23, <1>24, <1>25, <1>26, <1>27
     DEF Next, RunStep, RunEvent, GovernStep, Finished

\* An invocation in its body, or killed with a child left, is alone with the
\* brain and the archives.
THEOREM MutexCorrect == Spec => []MutualExclusion
<1>1. Init => MutualExclusion
  BY DEF Init, MutualExclusion, HoldsBrain, Body
<1> QED
  BY <1>1, StepMutex, TypeCorrect, PTL DEF Spec

-----------------------------------------------------------------------------
\* Stamps.

LEMMA StepStamp ==
  TypeOK /\ MutualExclusion /\ StampInv /\ [Next]_vars => StampInv'
<1> SUFFICES ASSUME TypeOK, MutualExclusion, StampInv, [Next]_vars, HaveFlock
             PROVE  StampInv'
  BY DEF StampInv
<1> USE DEF TypeOK, MutualExclusion, HoldsBrain, Body, Stamped, Unverified, Verified,
            StampInv, Goto, Raise, Mine, Others, Archive, Copy,
            store, markers, copies, staging
<1>1. ASSUME NEW r \in Runs, Start(r) PROVE StampInv'
  BY <1>1 DEF Start
<1>2. ASSUME NEW r \in Runs, StartFails(r) PROVE StampInv'
  BY <1>2 DEF StartFails
<1>28. ASSUME NEW r \in Runs, OpenFails(r) PROVE StampInv'
  BY <1>28 DEF OpenFails
<1>3. ASSUME NEW r \in Runs, Kill(r) PROVE StampInv'
  BY <1>3 DEF Kill
<1>4. ASSUME NEW r \in Runs, Acquire(r) PROVE StampInv'
  BY <1>4 DEF Acquire
<1>5. ASSUME NEW r \in Runs, LockTimeout(r) PROVE StampInv'
  BY <1>5 DEF LockTimeout
<1>6. ASSUME NEW r \in Runs, Preflight(r) PROVE StampInv'
  BY <1>6, ProcessAssumption DEF Preflight
<1>7. ASSUME NEW r \in Runs, CommandFails(r) PROVE StampInv'
  BY <1>7 DEF CommandFails
<1>8. ASSUME NEW r \in Runs, VacuumGovern(r) PROVE StampInv'
  BY <1>8 DEF VacuumGovern
<1>9. ASSUME NEW r \in Runs, VacuumCompile(r) PROVE StampInv'
  BY <1>9 DEF VacuumCompile
<1>10. ASSUME NEW r \in Runs, Stage(r) PROVE StampInv'
  BY <1>10 DEF Stage
<1>11. ASSUME NEW r \in Runs, Encrypt(r) PROVE StampInv'
  BY <1>11 DEF Encrypt, Sealed
<1>12. ASSUME NEW r \in Runs, EncryptFails(r) PROVE StampInv'
  BY <1>12 DEF EncryptFails, Sealed
<1>13. ASSUME NEW r \in Runs, VerifyPasses(r) PROVE StampInv'
  <2>1. ts[r] = now /\ lock = r /\ HoldsBrain(r)
    BY <1>13 DEF VerifyPasses
  <2>2. \A i \in Runs : i # r => pc'[i] = pc[i] /\ ~HoldsBrain(i)
    BY <1>13, <2>1 DEF VerifyPasses
  <2>3. \A a \in local' : /\ a.at <= now
                          /\ a.at = ts[r] => a.proved
    BY <1>13, <2>1 DEF VerifyPasses
  <2>4. Mine(local, r)' # {}
    <3>1. PICK a \in local : a.at = ts[r]
      BY <1>13 DEF VerifyPasses
    <3>2. [at |-> a.at, brain |-> a.brain, proved |-> TRUE].at = ts[r]
      BY <3>1
    <3> QED
      BY <1>13, <3>1, <3>2 DEF VerifyPasses
  <2> QED
    BY <1>13, <2>1, <2>2, <2>3, <2>4 DEF VerifyPasses
<1>14. ASSUME NEW r \in Runs, VerifyFails(r) PROVE StampInv'
  BY <1>14 DEF VerifyFails
<1>15. ASSUME NEW r \in Runs, PushR2(r) PROVE StampInv'
  BY <1>15 DEF PushR2
<1>16. ASSUME NEW r \in Runs, PushVps(r) PROVE StampInv'
  <2>1. \A c \in vps' : c.at <= now
    <3>1. \A c \in CopyOf(r, TRUE) \cup CopyOf(r, FALSE) : c.at = ts[r]
      BY DEF CopyOf
    <3> QED
        BY <1>16, <3>1 DEF PushVps, Retained
  <2> QED
    BY <1>16, <2>1 DEF PushVps
<1>17. ASSUME NEW r \in Runs, ChecksumFails(r) PROVE StampInv'
  BY <1>17 DEF ChecksumFails, CopyOf
<1>18. ASSUME NEW r \in Runs, Prune(r) PROVE StampInv'
  BY <1>18, RetainedBounds DEF Prune
<1>19. ASSUME NEW r \in Runs, TrapBeat(r) PROVE StampInv'
  BY <1>19 DEF TrapBeat
<1>20. ASSUME NEW r \in Runs, TrapMark(r) PROVE StampInv'
  BY <1>20 DEF TrapMark
<1>21. ASSUME NEW r \in Runs, TrapAlert(r) PROVE StampInv'
  BY <1>21 DEF TrapAlert
<1>22. ASSUME NEW r \in Runs, OrphanEnds(r) PROVE StampInv'
  BY <1>22 DEF OrphanEnds
<1>23. ASSUME NEW w \in Writers, GovernBegin(w) PROVE StampInv'
  BY <1>23 DEF GovernBegin, run
<1>24. ASSUME NEW w \in Writers, GovernWrite(w) PROVE StampInv'
  BY <1>24 DEF GovernWrite, run
<1>25. ASSUME NEW w \in Writers, GovernEnd(w) PROVE StampInv'
  BY <1>25 DEF GovernEnd, run
<1>26. ASSUME NEW w \in Writers, GovernDies(w) PROVE StampInv'
  BY <1>26 DEF GovernDies, run
<1>27. CASE UNCHANGED vars
  BY <1>27 DEF vars
<1> QED
  BY <1>1, <1>2, <1>28, <1>3, <1>4, <1>5, <1>6, <1>7, <1>8, <1>9, <1>10, <1>11,
     <1>12, <1>13, <1>14, <1>15, <1>16, <1>17, <1>18, <1>19, <1>20,
     <1>21, <1>22, <1>23, <1>24, <1>25, <1>26, <1>27
     DEF Next, RunStep, RunEvent, GovernStep, Finished

-----------------------------------------------------------------------------
\* Snapshots.

LEMMA StepSnap ==
  TypeOK /\ MutualExclusion /\ SnapInv /\ [Next]_vars => SnapInv'
<1> SUFFICES ASSUME TypeOK, MutualExclusion, SnapInv, [Next]_vars, HaveFlock
             PROVE  SnapInv'
  BY DEF SnapInv
<1> USE ArtifactAssumption, ProcessAssumption
    DEF TypeOK, MutualExclusion, HoldsBrain, Body, SnapInv, Goto, Raise,
        Contents, Artifacts, Absent, Mine, Others, store, markers, copies, staging
<1>1. ASSUME NEW r \in Runs, Start(r) PROVE SnapInv'
  BY <1>1 DEF Start
<1>2. ASSUME NEW r \in Runs, StartFails(r) PROVE SnapInv'
  BY <1>2 DEF StartFails
<1>28. ASSUME NEW r \in Runs, OpenFails(r) PROVE SnapInv'
  BY <1>28 DEF OpenFails
<1>3. ASSUME NEW r \in Runs, Kill(r) PROVE SnapInv'
  BY <1>3 DEF Kill, Empty
<1>4. ASSUME NEW r \in Runs, Acquire(r) PROVE SnapInv'
  BY <1>4 DEF Acquire
<1>5. ASSUME NEW r \in Runs, LockTimeout(r) PROVE SnapInv'
  BY <1>5 DEF LockTimeout
<1>6. ASSUME NEW r \in Runs, Preflight(r) PROVE SnapInv'
  BY <1>6 DEF Preflight
<1>7. ASSUME NEW r \in Runs, CommandFails(r) PROVE SnapInv'
  BY <1>7 DEF CommandFails
<1>8. ASSUME NEW r \in Runs, VacuumGovern(r) PROVE SnapInv'
  BY <1>8 DEF VacuumGovern
<1>9. ASSUME NEW r \in Runs, VacuumCompile(r) PROVE SnapInv'
  BY <1>9 DEF VacuumCompile
<1>10. ASSUME NEW r \in Runs, Stage(r) PROVE SnapInv'
  BY <1>10 DEF Stage
<1>11. ASSUME NEW r \in Runs, Encrypt(r) PROVE SnapInv'
  BY <1>11 DEF Encrypt, Sealed
<1>12. ASSUME NEW r \in Runs, EncryptFails(r) PROVE SnapInv'
  BY <1>12 DEF EncryptFails, Sealed
<1>13. ASSUME NEW r \in Runs, VerifyPasses(r) PROVE SnapInv'
  BY <1>13 DEF VerifyPasses
<1>14. ASSUME NEW r \in Runs, VerifyFails(r) PROVE SnapInv'
  BY <1>14 DEF VerifyFails
<1>15. ASSUME NEW r \in Runs, PushR2(r) PROVE SnapInv'
  BY <1>15 DEF PushR2
<1>16. ASSUME NEW r \in Runs, PushVps(r) PROVE SnapInv'
  BY <1>16 DEF PushVps
<1>17. ASSUME NEW r \in Runs, ChecksumFails(r) PROVE SnapInv'
  BY <1>17 DEF ChecksumFails
<1>18. ASSUME NEW r \in Runs, Prune(r) PROVE SnapInv'
  BY <1>18 DEF Prune
<1>19. ASSUME NEW r \in Runs, TrapBeat(r) PROVE SnapInv'
  BY <1>19 DEF TrapBeat, Empty
<1>20. ASSUME NEW r \in Runs, TrapMark(r) PROVE SnapInv'
  BY <1>20 DEF TrapMark
<1>21. ASSUME NEW r \in Runs, TrapAlert(r) PROVE SnapInv'
  BY <1>21 DEF TrapAlert
<1>22. ASSUME NEW r \in Runs, OrphanEnds(r) PROVE SnapInv'
  BY <1>22 DEF OrphanEnds
<1>23. ASSUME NEW w \in Writers, GovernBegin(w) PROVE SnapInv'
  BY <1>23 DEF GovernBegin, run
<1>24. ASSUME NEW w \in Writers, GovernWrite(w) PROVE SnapInv'
  BY <1>24 DEF GovernWrite, run
<1>25. ASSUME NEW w \in Writers, GovernEnd(w) PROVE SnapInv'
  BY <1>25 DEF GovernEnd, run
<1>26. ASSUME NEW w \in Writers, GovernDies(w) PROVE SnapInv'
  BY <1>26 DEF GovernDies, run
<1>27. CASE UNCHANGED vars
  BY <1>27 DEF vars
<1> QED
  BY <1>1, <1>2, <1>28, <1>3, <1>4, <1>5, <1>6, <1>7, <1>8, <1>9, <1>10, <1>11,
     <1>12, <1>13, <1>14, <1>15, <1>16, <1>17, <1>18, <1>19, <1>20,
     <1>21, <1>22, <1>23, <1>24, <1>25, <1>26, <1>27
     DEF Next, RunStep, RunEvent, GovernStep, Finished

LEMMA StepPass == TypeOK /\ PassInv /\ [Next]_vars => PassInv'
<1> SUFFICES ASSUME TypeOK, PassInv, [Next]_vars
             PROVE  PassInv'
  OBVIOUS
<1> USE ArtifactAssumption
    DEF TypeOK, PassInv, Contents, Absent, store, markers, copies, staging
<1>1. ASSUME NEW r \in Runs, Start(r) PROVE PassInv'
  BY <1>1 DEF Start
<1>2. ASSUME NEW r \in Runs, StartFails(r) PROVE PassInv'
  BY <1>2 DEF StartFails
<1>28. ASSUME NEW r \in Runs, OpenFails(r) PROVE PassInv'
  BY <1>28 DEF OpenFails
<1>3. ASSUME NEW r \in Runs, Kill(r) PROVE PassInv'
  BY <1>3 DEF Kill
<1>4. ASSUME NEW r \in Runs, Acquire(r) PROVE PassInv'
  BY <1>4 DEF Acquire
<1>5. ASSUME NEW r \in Runs, LockTimeout(r) PROVE PassInv'
  BY <1>5 DEF LockTimeout
<1>6. ASSUME NEW r \in Runs, Preflight(r) PROVE PassInv'
  BY <1>6 DEF Preflight
<1>7. ASSUME NEW r \in Runs, CommandFails(r) PROVE PassInv'
  BY <1>7 DEF CommandFails
<1>8. ASSUME NEW r \in Runs, VacuumGovern(r) PROVE PassInv'
  BY <1>8 DEF VacuumGovern
<1>9. ASSUME NEW r \in Runs, VacuumCompile(r) PROVE PassInv'
  BY <1>9 DEF VacuumCompile
<1>10. ASSUME NEW r \in Runs, Stage(r) PROVE PassInv'
  BY <1>10 DEF Stage
<1>11. ASSUME NEW r \in Runs, Encrypt(r) PROVE PassInv'
  BY <1>11 DEF Encrypt
<1>12. ASSUME NEW r \in Runs, EncryptFails(r) PROVE PassInv'
  BY <1>12 DEF EncryptFails
<1>13. ASSUME NEW r \in Runs, VerifyPasses(r) PROVE PassInv'
  BY <1>13 DEF VerifyPasses
<1>14. ASSUME NEW r \in Runs, VerifyFails(r) PROVE PassInv'
  BY <1>14 DEF VerifyFails
<1>15. ASSUME NEW r \in Runs, PushR2(r) PROVE PassInv'
  BY <1>15 DEF PushR2
<1>16. ASSUME NEW r \in Runs, PushVps(r) PROVE PassInv'
  BY <1>16 DEF PushVps
<1>17. ASSUME NEW r \in Runs, ChecksumFails(r) PROVE PassInv'
  BY <1>17 DEF ChecksumFails
<1>18. ASSUME NEW r \in Runs, Prune(r) PROVE PassInv'
  BY <1>18 DEF Prune
<1>19. ASSUME NEW r \in Runs, TrapBeat(r) PROVE PassInv'
  BY <1>19 DEF TrapBeat
<1>20. ASSUME NEW r \in Runs, TrapMark(r) PROVE PassInv'
  BY <1>20 DEF TrapMark
<1>21. ASSUME NEW r \in Runs, TrapAlert(r) PROVE PassInv'
  BY <1>21 DEF TrapAlert
<1>22. ASSUME NEW r \in Runs, OrphanEnds(r) PROVE PassInv'
  BY <1>22 DEF OrphanEnds
<1>23. ASSUME NEW w \in Writers, GovernBegin(w) PROVE PassInv'
  BY <1>23 DEF GovernBegin, run
<1>24. ASSUME NEW w \in Writers, GovernWrite(w) PROVE PassInv'
  BY <1>24 DEF GovernWrite, run
<1>25. ASSUME NEW w \in Writers, GovernEnd(w) PROVE PassInv'
  BY <1>25 DEF GovernEnd, run
<1>26. ASSUME NEW w \in Writers, GovernDies(w) PROVE PassInv'
  BY <1>26 DEF GovernDies, run
<1>27. CASE UNCHANGED vars
  BY <1>27 DEF vars
<1> QED
  BY <1>1, <1>2, <1>28, <1>3, <1>4, <1>5, <1>6, <1>7, <1>8, <1>9, <1>10, <1>11,
     <1>12, <1>13, <1>14, <1>15, <1>16, <1>17, <1>18, <1>19, <1>20,
     <1>21, <1>22, <1>23, <1>24, <1>25, <1>26, <1>27
     DEF Next, RunStep, RunEvent, GovernStep, Finished

-----------------------------------------------------------------------------
\* Markers and flags.

LEMMA StepMark ==
  TypeOK /\ MutualExclusion /\ MarkInv /\ [Next]_vars => MarkInv'
<1> SUFFICES ASSUME TypeOK, MutualExclusion, MarkInv, [Next]_vars
             PROVE  MarkInv'
  OBVIOUS
<1> USE ProcessAssumption
    DEF TypeOK, MutualExclusion, HoldsBrain, Body, Trap, Place, Flag, Unverified, Verified,
        MarkInv, Goto, Raise, store, markers, copies, staging
<1>1. ASSUME NEW r \in Runs, Start(r) PROVE MarkInv'
  BY <1>1 DEF Start
<1>2. ASSUME NEW r \in Runs, StartFails(r) PROVE MarkInv'
  BY <1>2 DEF StartFails
<1>28. ASSUME NEW r \in Runs, OpenFails(r) PROVE MarkInv'
  BY <1>28 DEF OpenFails
<1>3. ASSUME NEW r \in Runs, Kill(r) PROVE MarkInv'
  BY <1>3 DEF Kill
<1>4. ASSUME NEW r \in Runs, Acquire(r) PROVE MarkInv'
  BY <1>4 DEF Acquire
<1>5. ASSUME NEW r \in Runs, LockTimeout(r) PROVE MarkInv'
  BY <1>5 DEF LockTimeout
<1>6. ASSUME NEW r \in Runs, Preflight(r) PROVE MarkInv'
  BY <1>6 DEF Preflight
<1>7. ASSUME NEW r \in Runs, CommandFails(r) PROVE MarkInv'
  BY <1>7 DEF CommandFails
<1>8. ASSUME NEW r \in Runs, VacuumGovern(r) PROVE MarkInv'
  BY <1>8 DEF VacuumGovern
<1>9. ASSUME NEW r \in Runs, VacuumCompile(r) PROVE MarkInv'
  BY <1>9 DEF VacuumCompile
<1>10. ASSUME NEW r \in Runs, Stage(r) PROVE MarkInv'
  BY <1>10 DEF Stage
<1>11. ASSUME NEW r \in Runs, Encrypt(r) PROVE MarkInv'
  BY <1>11 DEF Encrypt
<1>12. ASSUME NEW r \in Runs, EncryptFails(r) PROVE MarkInv'
  BY <1>12 DEF EncryptFails
<1>13. ASSUME NEW r \in Runs, VerifyPasses(r) PROVE MarkInv'
  BY <1>13 DEF VerifyPasses
<1>14. ASSUME NEW r \in Runs, VerifyFails(r) PROVE MarkInv'
  BY <1>14 DEF VerifyFails
<1>15. ASSUME NEW r \in Runs, PushR2(r) PROVE MarkInv'
  BY <1>15 DEF PushR2
<1>16. ASSUME NEW r \in Runs, PushVps(r) PROVE MarkInv'
  BY <1>16 DEF PushVps
<1>17. ASSUME NEW r \in Runs, ChecksumFails(r) PROVE MarkInv'
  BY <1>17 DEF ChecksumFails
<1>18. ASSUME NEW r \in Runs, Prune(r) PROVE MarkInv'
  BY <1>18 DEF Prune
<1>19. ASSUME NEW r \in Runs, TrapBeat(r) PROVE MarkInv'
  BY <1>19 DEF TrapBeat
<1>20. ASSUME NEW r \in Runs, TrapMark(r) PROVE MarkInv'
  <2>1. CASE "skipped" \in flags[r]
    BY <1>20, <2>1 DEF TrapMark
  <2>2. CASE "skipped" \notin flags[r] /\ "failed" \in flags[r]
    BY <1>20, <2>2 DEF TrapMark
  <2>3. CASE "skipped" \notin flags[r] /\ "failed" \notin flags[r]
    <3>1. CASE UNCHANGED flags
      <4>1. /\ pc[r] = "mark" /\ pc' = [pc EXCEPT ![r] = "alert"]
            /\ okBy' \in {okBy, r}
            /\ lock' = lock
        BY <1>20, <2>3, <3>1 DEF TrapMark
      <4> QED
        BY <2>3, <3>1, <4>1
    <3>2. CASE Raise(r, {"failed"}) /\ UNCHANGED markers
      BY <1>20, <2>3, <3>2 DEF TrapMark
    <3> QED
      BY <1>20, <2>3, <3>1, <3>2 DEF TrapMark
  <2> QED
    BY <2>1, <2>2, <2>3
<1>21. ASSUME NEW r \in Runs, TrapAlert(r) PROVE MarkInv'
  BY <1>21 DEF TrapAlert
<1>22. ASSUME NEW r \in Runs, OrphanEnds(r) PROVE MarkInv'
  BY <1>22 DEF OrphanEnds
<1>23. ASSUME NEW w \in Writers, GovernBegin(w) PROVE MarkInv'
  BY <1>23 DEF GovernBegin, run
<1>24. ASSUME NEW w \in Writers, GovernWrite(w) PROVE MarkInv'
  BY <1>24 DEF GovernWrite, run
<1>25. ASSUME NEW w \in Writers, GovernEnd(w) PROVE MarkInv'
  BY <1>25 DEF GovernEnd, run
<1>26. ASSUME NEW w \in Writers, GovernDies(w) PROVE MarkInv'
  BY <1>26 DEF GovernDies, run
<1>27. CASE UNCHANGED vars
  BY <1>27 DEF vars
<1> QED
  BY <1>1, <1>2, <1>28, <1>3, <1>4, <1>5, <1>6, <1>7, <1>8, <1>9, <1>10, <1>11,
     <1>12, <1>13, <1>14, <1>15, <1>16, <1>17, <1>18, <1>19, <1>20,
     <1>21, <1>22, <1>23, <1>24, <1>25, <1>26, <1>27
     DEF Next, RunStep, RunEvent, GovernStep, Finished

-----------------------------------------------------------------------------
\* The inductive invariant.

LEMMA InitInductive == Init => Inductive
<1> SUFFICES ASSUME Init PROVE Inductive
  OBVIOUS
<1> USE ArtifactAssumption, ProcessAssumption DEF Init, Body
<1>1. TypeOK /\ MutualExclusion
  BY InitType DEF MutualExclusion, HoldsBrain
<1>2. StampInv
  BY DEF StampInv, Stamped, Unverified, Verified
<1>3. SnapInv
  BY DEF SnapInv, Empty, Artifacts, Absent
<1>4. PassInv
  BY DEF PassInv, Absent
<1>5. MarkInv
  BY DEF MarkInv, Trap, Unverified, Verified
<1> QED
  BY <1>1, <1>2, <1>3, <1>4, <1>5 DEF Inductive

\* The invariant every safety theorem below rests on.
THEOREM InductiveCorrect == Spec => []Inductive
<1>1. TypeOK /\ Inductive /\ [Next]_vars => Inductive'
  BY StepType, StepMutex, StepStamp, StepSnap, StepPass, StepMark DEF Inductive
<1> QED
  BY <1>1, InitInductive, TypeCorrect, PTL DEF Spec

-----------------------------------------------------------------------------
\* What the success marker and the archives promise.

LEMMA StepReported ==
  TypeOK /\ MarkInv /\ ExitIsReported /\ [Next]_vars => ExitIsReported'
<1> SUFFICES ASSUME TypeOK, MarkInv, ExitIsReported, [Next]_vars
             PROVE  ExitIsReported'
  OBVIOUS
<1> USE DEF TypeOK, Body, Trap, Place, Flag, MarkInv, ExitIsReported, Ended, Goto, Raise,
            store, markers, copies, staging
\* A step that neither starts the end of an invocation nor writes .ok.
<1>1. ASSUME NEW r \in Runs, pc' = [pc EXCEPT ![r] = pc'[r]],
             flags' = [flags EXCEPT ![r] = flags'[r]],
             pc'[r] \notin {"alert", "done"}, UNCHANGED okBy
      PROVE  ExitIsReported'
  BY <1>1
<1>2. ASSUME NEW r \in Runs,
             \/ Start(r) \/ OpenFails(r) \/ Acquire(r) \/ LockTimeout(r) \/ Preflight(r)
             \/ CommandFails(r) \/ VacuumGovern(r) \/ VacuumCompile(r) \/ Stage(r)
             \/ Encrypt(r) \/ EncryptFails(r) \/ VerifyPasses(r) \/ VerifyFails(r)
             \/ PushR2(r) \/ PushVps(r) \/ ChecksumFails(r) \/ Prune(r) \/ TrapBeat(r)
      PROVE  ExitIsReported'
  <2>1. /\ pc' = [pc EXCEPT ![r] = pc'[r]]
        /\ pc'[r] \notin {"alert", "done"}
        /\ UNCHANGED okBy
    BY <1>2 DEF Start, OpenFails, Acquire, LockTimeout, Preflight, CommandFails,
       VacuumGovern, VacuumCompile, Stage, Encrypt, EncryptFails, VerifyPasses,
       VerifyFails, PushR2, PushVps, ChecksumFails, Prune, TrapBeat
  <2>2. flags' = [flags EXCEPT ![r] = flags'[r]]
    <3>1. flags' = flags \/ \E fs \in SUBSET Flag : Raise(r, fs)
      BY <1>2 DEF Start, OpenFails, Acquire, LockTimeout, Preflight, CommandFails,
         VacuumGovern, VacuumCompile, Stage, Encrypt, EncryptFails, VerifyPasses,
         VerifyFails, PushR2, PushVps, ChecksumFails, Prune, TrapBeat
    <3> QED
      BY <3>1
  <2> QED
    BY <1>1, <2>1, <2>2
<1>3. ASSUME NEW r \in Runs, StartFails(r) PROVE ExitIsReported'
  BY <1>3 DEF StartFails
<1>4. ASSUME NEW r \in Runs, Kill(r) PROVE ExitIsReported'
  BY <1>4 DEF Kill
<1>5. ASSUME NEW r \in Runs, TrapMark(r) PROVE ExitIsReported'
  <2>1. pc[r] = "mark" /\ pc' = [pc EXCEPT ![r] = "alert"]
    BY <1>5 DEF TrapMark
  <2>2. CASE UNCHANGED <<okBy, flags>> /\ flags[r] \cap {"skipped", "failed"} # {}
    BY <2>1, <2>2
  <2>3. CASE okBy' = r /\ UNCHANGED flags /\ "accepted" \in flags[r]
    \* The accepted run has the lock, so no other invocation is about to end
    \* as the author of .ok.
    <3>1. \A i \in Runs \ {r} : HaveFlock /\ pc[i] = "alert" /\ "failed" \notin flags[i]
                                  => "skipped" \in flags[i]
      BY <2>1, <2>3
    <3> QED
      BY <2>1, <2>3, <3>1
  <2>4. CASE Raise(r, {"failed"}) /\ UNCHANGED okBy
    BY <2>1, <2>4
  <2> QED
    BY <1>5, <2>2, <2>3, <2>4 DEF TrapMark
<1>6. ASSUME NEW r \in Runs, TrapAlert(r) PROVE ExitIsReported'
  BY <1>6 DEF TrapAlert
<1>7. ASSUME NEW r \in Runs, OrphanEnds(r) PROVE ExitIsReported'
  BY <1>7 DEF OrphanEnds
<1>8. ASSUME NEW w \in Writers, GovernStep(w) PROVE ExitIsReported'
  BY <1>8 DEF GovernStep, GovernBegin, GovernWrite, GovernEnd, GovernDies, run
<1>9. CASE UNCHANGED vars
  BY <1>9 DEF vars
<1> QED
  BY <1>2, <1>3, <1>4, <1>5, <1>6, <1>7, <1>8, <1>9
     DEF Next, RunStep, RunEvent, Finished

LEMMA StepHonest ==
  TypeOK /\ MarkInv /\ MarkersAreHonest /\ [Next]_vars => MarkersAreHonest'
<1> SUFFICES ASSUME TypeOK, MarkInv, MarkersAreHonest, [Next]_vars
             PROVE  MarkersAreHonest'
  OBVIOUS
<1> USE ProcessAssumption
    DEF TypeOK, Body, Trap, MarkInv, MarkersAreHonest, Goto, Raise,
        store, markers, copies, staging
<1>1. ASSUME NEW r \in Runs, Start(r) PROVE MarkersAreHonest'
  BY <1>1 DEF Start
<1>2. ASSUME NEW r \in Runs, StartFails(r) PROVE MarkersAreHonest'
  BY <1>2 DEF StartFails
<1>28. ASSUME NEW r \in Runs, OpenFails(r) PROVE MarkersAreHonest'
  BY <1>28 DEF OpenFails
<1>3. ASSUME NEW r \in Runs, Kill(r) PROVE MarkersAreHonest'
  BY <1>3 DEF Kill
<1>4. ASSUME NEW r \in Runs, Acquire(r) PROVE MarkersAreHonest'
  BY <1>4 DEF Acquire
<1>5. ASSUME NEW r \in Runs, LockTimeout(r) PROVE MarkersAreHonest'
  BY <1>5 DEF LockTimeout
<1>6. ASSUME NEW r \in Runs, Preflight(r) PROVE MarkersAreHonest'
  BY <1>6 DEF Preflight
<1>7. ASSUME NEW r \in Runs, CommandFails(r) PROVE MarkersAreHonest'
  BY <1>7 DEF CommandFails
<1>8. ASSUME NEW r \in Runs, VacuumGovern(r) PROVE MarkersAreHonest'
  BY <1>8 DEF VacuumGovern
<1>9. ASSUME NEW r \in Runs, VacuumCompile(r) PROVE MarkersAreHonest'
  BY <1>9 DEF VacuumCompile
<1>10. ASSUME NEW r \in Runs, Stage(r) PROVE MarkersAreHonest'
  BY <1>10 DEF Stage
<1>11. ASSUME NEW r \in Runs, Encrypt(r) PROVE MarkersAreHonest'
  BY <1>11 DEF Encrypt
<1>12. ASSUME NEW r \in Runs, EncryptFails(r) PROVE MarkersAreHonest'
  BY <1>12 DEF EncryptFails
<1>13. ASSUME NEW r \in Runs, VerifyPasses(r) PROVE MarkersAreHonest'
  BY <1>13 DEF VerifyPasses
<1>14. ASSUME NEW r \in Runs, VerifyFails(r) PROVE MarkersAreHonest'
  BY <1>14 DEF VerifyFails
<1>15. ASSUME NEW r \in Runs, PushR2(r) PROVE MarkersAreHonest'
  BY <1>15 DEF PushR2
<1>16. ASSUME NEW r \in Runs, PushVps(r) PROVE MarkersAreHonest'
  BY <1>16 DEF PushVps
<1>17. ASSUME NEW r \in Runs, ChecksumFails(r) PROVE MarkersAreHonest'
  BY <1>17 DEF ChecksumFails
<1>18. ASSUME NEW r \in Runs, Prune(r) PROVE MarkersAreHonest'
  BY <1>18 DEF Prune
<1>19. ASSUME NEW r \in Runs, TrapBeat(r) PROVE MarkersAreHonest'
  BY <1>19 DEF TrapBeat
<1>20. ASSUME NEW r \in Runs, TrapMark(r) PROVE MarkersAreHonest'
  <2>1. CASE "skipped" \in flags[r]
    <3>1. okBy' = okBy /\ flags' = flags
      BY <1>20, <2>1 DEF TrapMark
    <3> QED
      BY <2>1, <3>1
  <2>2. CASE "skipped" \notin flags[r] /\ UNCHANGED markers
    BY <1>20, <2>2 DEF TrapMark
  <2>3. CASE /\ flags[r] \cap {"skipped", "failed"} = {}
             /\ "accepted" \in flags[r]
             /\ okBy' = r
             /\ skipMark' \in {FALSE, skipMark}
             /\ UNCHANGED flags
    <3>1. skipMark' => skipMark
      BY <2>3
    <3>2. okBy' # Nobody => /\ "accepted" \in flags'[okBy']
                            /\ flags'[okBy'] \cap {"failed", "skipped"} = {}
      BY <2>3
    <3> QED
      BY <2>3, <3>1, <3>2 DEF MarkersAreHonest
  <2> QED
    BY <1>20, <2>1, <2>2, <2>3 DEF TrapMark
<1>21. ASSUME NEW r \in Runs, TrapAlert(r) PROVE MarkersAreHonest'
  BY <1>21 DEF TrapAlert
<1>22. ASSUME NEW r \in Runs, OrphanEnds(r) PROVE MarkersAreHonest'
  BY <1>22 DEF OrphanEnds
<1>23. ASSUME NEW w \in Writers, GovernBegin(w) PROVE MarkersAreHonest'
  BY <1>23 DEF GovernBegin, run
<1>24. ASSUME NEW w \in Writers, GovernWrite(w) PROVE MarkersAreHonest'
  BY <1>24 DEF GovernWrite, run
<1>25. ASSUME NEW w \in Writers, GovernEnd(w) PROVE MarkersAreHonest'
  BY <1>25 DEF GovernEnd, run
<1>26. ASSUME NEW w \in Writers, GovernDies(w) PROVE MarkersAreHonest'
  BY <1>26 DEF GovernDies, run
<1>27. CASE UNCHANGED vars
  BY <1>27 DEF vars
<1> QED
  BY <1>1, <1>2, <1>28, <1>3, <1>4, <1>5, <1>6, <1>7, <1>8, <1>9, <1>10, <1>11,
     <1>12, <1>13, <1>14, <1>15, <1>16, <1>17, <1>18, <1>19, <1>20,
     <1>21, <1>22, <1>23, <1>24, <1>25, <1>26, <1>27
     DEF Next, RunStep, RunEvent, GovernStep, Finished

LEMMA StepFloor ==
  TypeOK /\ Inductive /\ RestorableFloor /\ [Next]_vars => RestorableFloor'
<1> SUFFICES ASSUME TypeOK, MutualExclusion, StampInv, MarkInv, RestorableFloor,
                    [Next]_vars, HaveFlock
             PROVE  RestorableFloor'
  BY DEF RestorableFloor, Inductive
<1> USE DEF TypeOK, MutualExclusion, HoldsBrain, Body, Stamped, Unverified, Verified,
            StampInv, RestorableFloor, Goto, Raise, Mine, Others, Archive,
            store, markers, copies, staging
<1>1. ASSUME NEW r \in Runs, Start(r) PROVE RestorableFloor'
  BY <1>1 DEF Start
<1>2. ASSUME NEW r \in Runs, StartFails(r) PROVE RestorableFloor'
  BY <1>2 DEF StartFails
<1>28. ASSUME NEW r \in Runs, OpenFails(r) PROVE RestorableFloor'
  BY <1>28 DEF OpenFails
<1>3. ASSUME NEW r \in Runs, Kill(r) PROVE RestorableFloor'
  BY <1>3 DEF Kill
<1>4. ASSUME NEW r \in Runs, Acquire(r) PROVE RestorableFloor'
  BY <1>4 DEF Acquire
<1>5. ASSUME NEW r \in Runs, LockTimeout(r) PROVE RestorableFloor'
  BY <1>5 DEF LockTimeout
<1>6. ASSUME NEW r \in Runs, Preflight(r) PROVE RestorableFloor'
  BY <1>6 DEF Preflight, MarkInv
<1>7. ASSUME NEW r \in Runs, CommandFails(r) PROVE RestorableFloor'
  BY <1>7 DEF CommandFails
<1>8. ASSUME NEW r \in Runs, VacuumGovern(r) PROVE RestorableFloor'
  BY <1>8 DEF VacuumGovern
<1>9. ASSUME NEW r \in Runs, VacuumCompile(r) PROVE RestorableFloor'
  BY <1>9 DEF VacuumCompile
<1>10. ASSUME NEW r \in Runs, Stage(r) PROVE RestorableFloor'
  BY <1>10 DEF Stage
<1>11. ASSUME NEW r \in Runs, Encrypt(r) PROVE RestorableFloor'
  <2>1. ts[r] = now /\ \A a \in local : a.proved => a.at < now
    BY <1>11 DEF Encrypt
  <2>2. \A a \in local : a.proved => a \in local'
    BY <1>11, <2>1 DEF Encrypt, Sealed
  <2> QED
    BY <1>11, <2>2 DEF Encrypt
<1>12. ASSUME NEW r \in Runs, EncryptFails(r) PROVE RestorableFloor'
  <2>1. ts[r] = now /\ \A a \in local : a.proved => a.at < now
    BY <1>12 DEF EncryptFails
  <2>2. \A a \in local : a.proved => a \in local'
    BY <1>12, <2>1 DEF EncryptFails, Sealed
  <2> QED
    BY <1>12, <2>2 DEF EncryptFails
<1>13. ASSUME NEW r \in Runs, VerifyPasses(r) PROVE RestorableFloor'
  <2>1. ts[r] = now /\ \A a \in local : a.proved => a.at < now
    BY <1>13 DEF VerifyPasses
  <2>2. \A a \in local : a.proved => a \in local'
    BY <1>13, <2>1 DEF VerifyPasses
  <2>3. \E a \in local' : a.proved /\ a.at >= ts[r]
    <3>1. PICK a \in local : a.at = ts[r]
      BY <1>13 DEF VerifyPasses
    <3> DEFINE b == [at |-> a.at, brain |-> a.brain, proved |-> TRUE]
    <3>2. b.at = ts[r] /\ b.proved
      BY <3>1
    <3> QED
      BY <1>13, <2>1, <3>1, <3>2 DEF VerifyPasses
  <2>4. \A i \in Runs : i # r => flags'[i] = flags[i] /\ ts'[i] = ts[i]
    BY <1>13 DEF VerifyPasses
  <2> QED
    BY <1>13, <2>2, <2>3, <2>4 DEF VerifyPasses
<1>14. ASSUME NEW r \in Runs, VerifyFails(r) PROVE RestorableFloor'
  BY <1>14 DEF VerifyFails
<1>15. ASSUME NEW r \in Runs, PushR2(r) PROVE RestorableFloor'
  BY <1>15 DEF PushR2
<1>16. ASSUME NEW r \in Runs, PushVps(r) PROVE RestorableFloor'
  BY <1>16 DEF PushVps
<1>17. ASSUME NEW r \in Runs, ChecksumFails(r) PROVE RestorableFloor'
  BY <1>17 DEF ChecksumFails
<1>18. ASSUME NEW r \in Runs, Prune(r) PROVE RestorableFloor'
  <2>1. PICK a \in local : a.at = now /\ a.proved
    BY <1>18 DEF Prune
  <2>2. \A b \in local : ~(b.at > a.at)
    BY <2>1
  <2>3. a \in local'
    BY <1>18, <2>2, NewestKeepsTheLast, PruneRetains, RetainedBounds
  <2> QED
    BY <1>18, <2>1, <2>3 DEF Prune
<1>19. ASSUME NEW r \in Runs, TrapBeat(r) PROVE RestorableFloor'
  BY <1>19 DEF TrapBeat
<1>20. ASSUME NEW r \in Runs, TrapMark(r) PROVE RestorableFloor'
  BY <1>20 DEF TrapMark
<1>21. ASSUME NEW r \in Runs, TrapAlert(r) PROVE RestorableFloor'
  BY <1>21 DEF TrapAlert
<1>22. ASSUME NEW r \in Runs, OrphanEnds(r) PROVE RestorableFloor'
  BY <1>22 DEF OrphanEnds
<1>23. ASSUME NEW w \in Writers, GovernBegin(w) PROVE RestorableFloor'
  BY <1>23 DEF GovernBegin, run
<1>24. ASSUME NEW w \in Writers, GovernWrite(w) PROVE RestorableFloor'
  BY <1>24 DEF GovernWrite, run
<1>25. ASSUME NEW w \in Writers, GovernEnd(w) PROVE RestorableFloor'
  BY <1>25 DEF GovernEnd, run
<1>26. ASSUME NEW w \in Writers, GovernDies(w) PROVE RestorableFloor'
  BY <1>26 DEF GovernDies, run
<1>27. CASE UNCHANGED vars
  BY <1>27 DEF vars
<1> QED
  BY <1>1, <1>2, <1>28, <1>3, <1>4, <1>5, <1>6, <1>7, <1>8, <1>9, <1>10, <1>11,
     <1>12, <1>13, <1>14, <1>15, <1>16, <1>17, <1>18, <1>19, <1>20,
     <1>21, <1>22, <1>23, <1>24, <1>25, <1>26, <1>27
     DEF Next, RunStep, RunEvent, GovernStep, Finished

LEMMA StepOffHost ==
  TypeOK /\ StampInv /\ OffHostIsProved /\ [Next]_vars => OffHostIsProved'
<1> SUFFICES ASSUME TypeOK, StampInv, OffHostIsProved, [Next]_vars, HaveFlock
             PROVE  OffHostIsProved'
  BY DEF OffHostIsProved
<1> USE DEF TypeOK, Verified, StampInv, OffHostIsProved, Goto, Raise, Mine, Others,
            CopyOf, store, markers, copies, staging
<1>1. ASSUME NEW r \in Runs, Start(r) PROVE OffHostIsProved'
  BY <1>1 DEF Start
<1>2. ASSUME NEW r \in Runs, StartFails(r) PROVE OffHostIsProved'
  BY <1>2 DEF StartFails
<1>28. ASSUME NEW r \in Runs, OpenFails(r) PROVE OffHostIsProved'
  BY <1>28 DEF OpenFails
<1>3. ASSUME NEW r \in Runs, Kill(r) PROVE OffHostIsProved'
  BY <1>3 DEF Kill
<1>4. ASSUME NEW r \in Runs, Acquire(r) PROVE OffHostIsProved'
  BY <1>4 DEF Acquire
<1>5. ASSUME NEW r \in Runs, LockTimeout(r) PROVE OffHostIsProved'
  BY <1>5 DEF LockTimeout
<1>6. ASSUME NEW r \in Runs, Preflight(r) PROVE OffHostIsProved'
  BY <1>6 DEF Preflight
<1>7. ASSUME NEW r \in Runs, CommandFails(r) PROVE OffHostIsProved'
  BY <1>7 DEF CommandFails
<1>8. ASSUME NEW r \in Runs, VacuumGovern(r) PROVE OffHostIsProved'
  BY <1>8 DEF VacuumGovern
<1>9. ASSUME NEW r \in Runs, VacuumCompile(r) PROVE OffHostIsProved'
  BY <1>9 DEF VacuumCompile
<1>10. ASSUME NEW r \in Runs, Stage(r) PROVE OffHostIsProved'
  BY <1>10 DEF Stage
<1>11. ASSUME NEW r \in Runs, Encrypt(r) PROVE OffHostIsProved'
  BY <1>11 DEF Encrypt
<1>12. ASSUME NEW r \in Runs, EncryptFails(r) PROVE OffHostIsProved'
  BY <1>12 DEF EncryptFails
<1>13. ASSUME NEW r \in Runs, VerifyPasses(r) PROVE OffHostIsProved'
  BY <1>13 DEF VerifyPasses
<1>14. ASSUME NEW r \in Runs, VerifyFails(r) PROVE OffHostIsProved'
  BY <1>14 DEF VerifyFails
<1>15. ASSUME NEW r \in Runs, PushR2(r) PROVE OffHostIsProved'
  <2>1. \A ok \in BOOLEAN : \A c \in CopyOf(r, ok) : c.proved
    BY <1>15 DEF PushR2
  <2>2. \A c \in r2' : c.proved
    <3>1. CASE UNCHANGED r2
      BY <3>1
    <3>2. CASE \E ok \in BOOLEAN : r2' \subseteq Others(r2, r) \cup CopyOf(r, ok)
      BY <2>1, <3>2
    <3> QED
      BY <1>15, <3>1, <3>2, RetainedBounds DEF PushR2
  <2> QED
    BY <1>15, <2>2 DEF PushR2
<1>16. ASSUME NEW r \in Runs, PushVps(r) PROVE OffHostIsProved'
  <2>1. \A ok \in BOOLEAN : \A c \in CopyOf(r, ok) : c.proved
    BY <1>16 DEF PushVps
  <2>2. \A c \in vps' : c.proved
    <3>1. CASE UNCHANGED vps
      BY <3>1
    <3>2. CASE \E ok \in BOOLEAN : vps' \subseteq Others(vps, r) \cup CopyOf(r, ok)
      BY <2>1, <3>2
    <3> QED
      BY <1>16, <3>1, <3>2, RetainedBounds DEF PushVps
  <2> QED
    BY <1>16, <2>2 DEF PushVps
<1>17. ASSUME NEW r \in Runs, ChecksumFails(r) PROVE OffHostIsProved'
  BY <1>17 DEF ChecksumFails
<1>18. ASSUME NEW r \in Runs, Prune(r) PROVE OffHostIsProved'
  BY <1>18 DEF Prune
<1>19. ASSUME NEW r \in Runs, TrapBeat(r) PROVE OffHostIsProved'
  BY <1>19 DEF TrapBeat
<1>20. ASSUME NEW r \in Runs, TrapMark(r) PROVE OffHostIsProved'
  BY <1>20 DEF TrapMark
<1>21. ASSUME NEW r \in Runs, TrapAlert(r) PROVE OffHostIsProved'
  BY <1>21 DEF TrapAlert
<1>22. ASSUME NEW r \in Runs, OrphanEnds(r) PROVE OffHostIsProved'
  BY <1>22 DEF OrphanEnds
<1>23. ASSUME NEW w \in Writers, GovernBegin(w) PROVE OffHostIsProved'
  BY <1>23 DEF GovernBegin, run
<1>24. ASSUME NEW w \in Writers, GovernWrite(w) PROVE OffHostIsProved'
  BY <1>24 DEF GovernWrite, run
<1>25. ASSUME NEW w \in Writers, GovernEnd(w) PROVE OffHostIsProved'
  BY <1>25 DEF GovernEnd, run
<1>26. ASSUME NEW w \in Writers, GovernDies(w) PROVE OffHostIsProved'
  BY <1>26 DEF GovernDies, run
<1>27. CASE UNCHANGED vars
  BY <1>27 DEF vars
<1> QED
  BY <1>1, <1>2, <1>28, <1>3, <1>4, <1>5, <1>6, <1>7, <1>8, <1>9, <1>10, <1>11,
     <1>12, <1>13, <1>14, <1>15, <1>16, <1>17, <1>18, <1>19, <1>20,
     <1>21, <1>22, <1>23, <1>24, <1>25, <1>26, <1>27
     DEF Next, RunStep, RunEvent, GovernStep, Finished

\* .ok and .skipped tell the truth about the invocations that wrote them.
THEOREM MarkersCorrect == Spec => []MarkersAreHonest
<1>1. Init => MarkersAreHonest
  BY DEF Init, MarkersAreHonest
<1>2. TypeOK /\ Inductive /\ MarkersAreHonest /\ [Next]_vars => MarkersAreHonest'
  BY StepHonest DEF Inductive
<1> QED
  BY <1>1, <1>2, TypeCorrect, InductiveCorrect, PTL DEF Spec

\* Whoever looks at an invocation that ended by itself learns how: it tried to
\* alert, or it left its heartbeat and the marker of its outcome.
THEOREM ExitCorrect == Spec => []ExitIsReported
<1>1. Init => ExitIsReported
  BY DEF Init, ExitIsReported, Ended
<1>2. TypeOK /\ Inductive /\ ExitIsReported /\ [Next]_vars => ExitIsReported'
  BY StepReported DEF Inductive
<1> QED
  BY <1>1, <1>2, TypeCorrect, InductiveCorrect, PTL DEF Spec

\* After an accepted run there is always a restorable archive at least as new.
THEOREM FloorCorrect == Spec => []RestorableFloor
<1>1. Init => RestorableFloor
  BY DEF Init, RestorableFloor
<1> QED
  BY <1>1, StepFloor, TypeCorrect, InductiveCorrect, PTL DEF Spec

\* Only archives that passed the round trip leave the host.
THEOREM OffHostCorrect == Spec => []OffHostIsProved
<1>1. Init => OffHostIsProved
  BY DEF Init, OffHostIsProved
<1>2. TypeOK /\ Inductive /\ OffHostIsProved /\ [Next]_vars => OffHostIsProved'
  BY StepOffHost DEF Inductive
<1> QED
  BY <1>1, <1>2, TypeCorrect, InductiveCorrect, PTL DEF Spec

-----------------------------------------------------------------------------
\* What a step does to the archive directory.

LEMMA LocalSteps ==
  [Next]_vars => \/ UNCHANGED local
                 \/ /\ UNCHANGED brain
                    /\ \E r \in Runs :
                         \/ VerifyPasses(r)
                         \/ pc[r] = "archive" /\ local' = Sealed(r)
                         \/ pc[r] = "restore" /\ local' = Others(local, r)
                         \/ pc[r] = "prune" /\ local' \in Retained(local)
<1> USE DEF store, markers, copies, staging
<1>1. ASSUME NEW r \in Runs, RunStep(r)
      PROVE  \/ UNCHANGED local
             \/ /\ UNCHANGED brain
                /\ \/ VerifyPasses(r)
                   \/ pc[r] = "archive" /\ local' = Sealed(r)
                   \/ pc[r] = "restore" /\ local' = Others(local, r)
                   \/ pc[r] = "prune" /\ local' \in Retained(local)
  BY <1>1, PruneRetains
     DEF RunStep, Acquire, LockTimeout, Preflight, CommandFails, VacuumGovern,
              VacuumCompile, Stage, Encrypt, EncryptFails, VerifyPasses, VerifyFails,
              PushR2, PushVps, ChecksumFails, TrapBeat, TrapMark, TrapAlert,
              OrphanEnds
<1>2. ASSUME NEW r \in Runs, RunEvent(r) PROVE UNCHANGED local
  BY <1>2 DEF RunEvent, Start, StartFails, OpenFails, Kill
<1>3. ASSUME NEW w \in Writers, GovernStep(w) PROVE UNCHANGED local
  BY <1>3 DEF GovernStep, GovernBegin, GovernWrite, GovernEnd, GovernDies, run
<1>4. CASE UNCHANGED vars
  BY <1>4 DEF vars
<1> QED
  BY <1>1, <1>2, <1>3, <1>4 DEF Next, Finished

\* Who leaves retention for the trap has pruned or failed.
LEMMA PruneOrFails ==
  ASSUME TypeOK, [Next]_vars, NEW r \in Runs, pc[r] = "prune", pc'[r] = "beat"
  PROVE  Prune(r) \/ CommandFails(r)
<1>1. ASSUME NEW q \in Runs, q # r, RunStep(q) \/ RunEvent(q) PROVE pc'[r] = pc[r]
  BY <1>1 DEF TypeOK, Goto, RunStep, Acquire, LockTimeout, Preflight, CommandFails, VacuumGovern,
              VacuumCompile, Stage, Encrypt, EncryptFails, VerifyPasses, VerifyFails,
              PushR2, PushVps, ChecksumFails, Prune, TrapBeat, TrapMark, TrapAlert,
              OrphanEnds, RunEvent, Start, StartFails, OpenFails, Kill
<1>2. RunEvent(r) => pc'[r] # "beat"
  BY DEF TypeOK, Goto, RunEvent, Start, StartFails, OpenFails, Kill
<1>3. RunStep(r) => Prune(r) \/ CommandFails(r)
  BY DEF RunStep, Acquire, LockTimeout, Preflight, VacuumGovern,
         VacuumCompile, Stage, Encrypt, EncryptFails, VerifyPasses, VerifyFails,
         PushR2, PushVps, ChecksumFails, TrapBeat, TrapMark, TrapAlert, OrphanEnds
<1>4. ASSUME NEW w \in Writers, GovernStep(w) PROVE UNCHANGED pc
  BY <1>4 DEF GovernStep, GovernBegin, GovernWrite, GovernEnd, GovernDies, run
<1> QED
  BY <1>1, <1>2, <1>3, <1>4 DEF Next, Finished, vars

\* What an archive holds when it passes the round trip: the brain of that moment.
LEMMA SealedIsBrain ==
  ASSUME TypeOK, Inductive, HaveFlock, NEW r \in Runs, pc[r] = "restore"
  PROVE  /\ lock = r
         /\ ts[r] = now
         /\ \A a \in local : a.proved => a.at < now
         /\ Mine(local, r) \subseteq {[at |-> now, brain |-> brain, proved |-> FALSE]}
<1>1. lock = r
  BY DEF Inductive, MutualExclusion, HoldsBrain, Body
<1>2. ts[r] = now /\ \A a \in local : a.proved => a.at < now
  BY DEF Inductive, StampInv, Stamped, Unverified, Body
<1>3. snap[r] = brain
  <2>1. \A a \in Artifacts : snap[r][a] = brain[a]
    BY DEF Inductive, SnapInv, Artifacts
  <2>2. snap[r] \in [Artifacts -> Nat] /\ brain \in [Artifacts -> Nat]
    BY DEF TypeOK, Contents
  <2> QED
    BY <2>1, <2>2
<1>4. Mine(local, r) \subseteq {[at |-> ts[r], brain |-> snap[r], proved |-> FALSE]}
  BY DEF Inductive, SnapInv
<1> QED
  BY <1>1, <1>2, <1>3, <1>4

\* An archive that becomes restorable while the last pass is complete holds one pass.
THEOREM OnePassCorrect == Spec => KeptIsOnePass
<1>1. TypeOK /\ Inductive /\ [Next]_vars
        => [HaveFlock => \A a \in local' : a.proved /\ a \notin local
               => /\ lock \notin Writers
                  /\ pending = {} => OnePass(a.brain)]_local
  <2> SUFFICES ASSUME TypeOK, Inductive, [Next]_vars, HaveFlock,
                      NEW a \in local', a.proved, a \notin local
               PROVE  lock \notin Writers /\ (pending = {} => OnePass(a.brain))
    OBVIOUS
  <2>1. PICK r \in Runs : VerifyPasses(r)
    <3>1. ASSUME NEW r \in Runs, local' = Sealed(r) PROVE FALSE
      BY <3>1 DEF Sealed, Others
    <3> QED
      BY <3>1, LocalSteps, RetainedBounds DEF Others
  <2>2. pc[r] = "restore"
    BY <2>1 DEF VerifyPasses
  <2>3. PICK b \in Mine(local, r) : a = [at |-> b.at, brain |-> b.brain, proved |-> TRUE]
    BY <2>1 DEF VerifyPasses, Others
  <2>4. b = [at |-> now, brain |-> brain, proved |-> FALSE]
    BY <2>2, <2>3, SealedIsBrain
  <2>5. a.brain = brain
    BY <2>3, <2>4
  <2>6. lock \notin Writers
    BY <2>2, SealedIsBrain, ProcessAssumption
  <2>7. pending = {} => OnePass(brain)
    BY DEF Inductive, PassInv, OnePass
  <2> QED
    BY <2>5, <2>6, <2>7
<1> QED
  BY <1>1, TypeCorrect, InductiveCorrect, PTL DEF Spec, KeptIsOnePass

\* An intact copy on the VPS is given up only for a newer intact one.
THEOREM OffHostFloorCorrect == Spec => OffHostFloor
<1>1. TypeOK /\ Inductive /\ [Next]_vars
        => [HaveFlock => \A c \in vps : c.intact => \E d \in vps' : d.intact /\ d.at >= c.at]_vps
  <2> SUFFICES ASSUME TypeOK, Inductive, [Next]_vars, HaveFlock, vps' # vps,
                      NEW c \in vps, c.intact
               PROVE  \E d \in vps' : d.intact /\ d.at >= c.at
    OBVIOUS
  <2>1. PICK r \in Runs : PushVps(r) \/ ChecksumFails(r)
    <3>1. ASSUME NEW r \in Runs, RunStep(r), ~PushVps(r), ~ChecksumFails(r)
          PROVE  vps' = vps
      BY <3>1 DEF RunStep, Acquire, LockTimeout, Preflight, CommandFails, VacuumGovern,
                  VacuumCompile, Stage, Encrypt, EncryptFails, VerifyPasses, VerifyFails,
                  PushR2, Prune, TrapBeat, TrapMark, TrapAlert, OrphanEnds, copies
    <3>2. ASSUME NEW r \in Runs, RunEvent(r) PROVE vps' = vps
      BY <3>2 DEF RunEvent, Start, StartFails, OpenFails, Kill, copies
    <3>3. ASSUME NEW w \in Writers, GovernStep(w) PROVE vps' = vps
      BY <3>3 DEF GovernStep, GovernBegin, GovernWrite, GovernEnd, GovernDies, run, copies
    <3> QED
      BY <3>1, <3>2, <3>3 DEF Next, Finished, vars, copies
  <2>2. pc[r] = "vps"
    BY <2>1 DEF PushVps, ChecksumFails
  <2>3. ts[r] = now /\ now \in Nat /\ Mine(local, r) # {} /\ \A d \in vps : d.at < now
    BY <2>2 DEF TypeOK, Inductive, StampInv, Stamped, Verified, Body
  <2>4. c \in Others(vps, r) /\ c.at \in Nat
    BY <2>3 DEF Others, TypeOK, Copy
  <2>5. CASE vps' = Others(vps, r) \cup CopyOf(r, FALSE)
    <3>1. c \in vps'
      BY <2>4, <2>5
    <3> WITNESS c \in vps'
    <3> QED
      BY <2>4
  <2>6. CASE vps' \in Retained(Others(vps, r) \cup CopyOf(r, TRUE))
    <3>1. PICK a \in Mine(local, r) : TRUE
      BY <2>3
    <3> DEFINE d == [at |-> a.at, proved |-> a.proved, intact |-> TRUE]
    <3>2. d \in CopyOf(r, TRUE) /\ d.at = now /\ d.intact
      BY <2>3, <3>1 DEF CopyOf, Mine
    <3> HIDE DEF d
    <3>3. \A e \in Others(vps, r) \cup CopyOf(r, TRUE) : ~(e.at > d.at)
      <4>1. ASSUME NEW e \in Others(vps, r) PROVE ~(e.at > d.at)
        BY <2>3, <3>2, <4>1 DEF Others, TypeOK, Copy
      <4>2. ASSUME NEW e \in CopyOf(r, TRUE) PROVE ~(e.at > d.at)
        <5>1. e.at = now
          BY <2>3, <4>2 DEF CopyOf, Mine
        <5> QED
          BY <2>3, <3>2, <5>1
      <4> QED
        BY <4>1, <4>2
    <3>4. d \in vps'
      BY <2>6, <3>2, <3>3, NewestKeepsTheLast, RetainedBounds
    <3> QED
      BY <2>3, <2>4, <3>2, <3>4
  <2> QED
    BY <2>1, <2>5, <2>6 DEF PushVps, ChecksumFails
<1> QED
  BY <1>1, TypeCorrect, InductiveCorrect, PTL DEF Spec, OffHostFloor

-----------------------------------------------------------------------------
\* The script implements the atomic backup.

LEMMA StepPromise ==
  TypeOK /\ TypeOK' /\ Inductive /\ HaveFlock /\ [Next]_vars => [Promise!Next]_<<brain, Kept>>
<1> SUFFICES ASSUME TypeOK, TypeOK', Inductive, HaveFlock, [Next]_vars
             PROVE  Promise!Next \/ UNCHANGED <<brain, Kept>>
  BY DEF Promise!vars
<1>1. CASE UNCHANGED local
  <2>1. Kept' = Kept /\ brain' \in Contents
    BY <1>1 DEF Kept, TypeOK
  <2> QED
    BY <2>1 DEF Promise!Next, Promise!Change
<1>2. ASSUME NEW r \in Runs, VerifyPasses(r)
      PROVE  Promise!Next
  <2> DEFINE k == [at |-> now, brain |-> brain]
             sealed == [at |-> now, brain |-> brain, proved |-> FALSE]
             opened == [at |-> now, brain |-> brain, proved |-> TRUE]
  <2>1. pc[r] = "restore" /\ Mine(local, r) # {} /\ UNCHANGED brain
    BY <1>2 DEF VerifyPasses, store
  <2>2. Mine(local, r) = {sealed} /\ ts[r] = now
    BY <2>1, SealedIsBrain
  <2>3. [at |-> sealed.at, brain |-> sealed.brain, proved |-> TRUE] = opened
    OBVIOUS
  <2>4. local' = Others(local, r) \cup {opened}
    BY <1>2, <2>2, <2>3 DEF VerifyPasses
  <2>5. \A a \in local : a.proved => a.at < now /\ a \in Others(local, r)
    BY <2>1, <2>2, SealedIsBrain DEF Others, TypeOK, Archive
  <2>6. Kept' = Kept \cup {k}
    <3>1. {a \in local' : a.proved} = {a \in local : a.proved} \cup {opened}
      <4>1. opened.proved
        OBVIOUS
      <4>2. \A a \in Others(local, r) : a \in local
        BY DEF Others
      <4> QED
        BY <2>4, <2>5, <4>1, <4>2
    <3>2. [at |-> opened.at, brain |-> opened.brain] = k
      OBVIOUS
    <3> HIDE DEF k, opened
    <3> QED
      BY <3>1, <3>2 DEF Kept
  <2>7. \A o \in Kept : o.at < k.at
    BY <2>5 DEF Kept
  <2> QED
    BY <2>1, <2>6, <2>7 DEF Promise!Next, Promise!Keep
<1>3. ASSUME NEW r \in Runs, UNCHANGED brain,
             \/ pc[r] = "archive" /\ local' = Sealed(r)
             \/ pc[r] = "restore" /\ local' = Others(local, r)
      PROVE  UNCHANGED <<brain, Kept>>
  <2>1. ts[r] = now /\ \A a \in local : a.proved => a.at < now
    BY <1>3 DEF Inductive, StampInv, Stamped, Unverified, Body
  <2>2. \A a \in local : a.proved => a \in Others(local, r)
    BY <2>1 DEF Others, TypeOK, Archive
  <2>3. {a \in local' : a.proved} = {a \in local : a.proved}
    BY <1>3, <2>2 DEF Sealed, Others
  <2> QED
    BY <1>3, <2>3 DEF Kept
<1>4. ASSUME NEW r \in Runs, UNCHANGED brain, pc[r] = "prune", local' \in Retained(local)
      PROVE  Promise!Next
  <2>1. PICK a \in local : a.proved /\ a.at = now /\ \A b \in local : b.at <= now
    BY <1>4 DEF Inductive, StampInv, Stamped, Verified, Body, Mine
  <2>2. a \in local'
    BY <1>4, <2>1, NewestKeepsTheLast, RetainedBounds DEF TypeOK, Archive
  <2> DEFINE k == [at |-> a.at, brain |-> a.brain]
  <2>3. k \in Kept' /\ \A o \in Kept : o.at <= k.at
    BY <2>1, <2>2 DEF Kept
  <2>4. Kept' \subseteq Kept
    BY <1>4, RetainedBounds DEF Kept
  <2> QED
    BY <1>4, <2>3, <2>4 DEF Promise!Next, Promise!Retire
<1> QED
  BY <1>1, <1>2, <1>3, <1>4, LocalSteps

\* With flock on the path, every behaviour of the script is one of AtomicBackup:
\* reading the brain artifact by artifact cannot be told from reading it at once.
THEOREM PromiseKept == ASSUME HaveFlock PROVE Spec => ImplementsAtomicBackup
<1>1. Init => Promise!Init
  BY InitType DEF Init, TypeOK, Promise!Init, Kept
<1>2. HaveFlock
  OBVIOUS
<1>3. TypeOK /\ TypeOK' /\ Inductive /\ [Next]_vars => [Promise!Next]_(Promise!vars)
  BY <1>2, StepPromise DEF Promise!vars
<1> QED
  BY <1>1, <1>3, TypeCorrect, InductiveCorrect, PTL
     DEF Spec, ImplementsAtomicBackup, Promise!Spec
-----------------------------------------------------------------------------
\* What retention leaves.

\* The archives always have stamps of their own: a file that is written takes
\* the place of one with its stamp.
LEMMA StepStamps == TypeOK /\ TypeOK' /\ Stamps(local) /\ [Next]_vars => Stamps(local')
<1> SUFFICES ASSUME TypeOK, TypeOK', Stamps(local), [Next]_vars PROVE Stamps(local')
  OBVIOUS
<1>1. \A a \in local' : a.at \in Nat
  BY DEF TypeOK, Archive
<1>2. ASSUME NEW S \in SUBSET local PROVE Stamps(S)
  BY <1>2, FS_Subset DEF Stamps
<1>3. CASE UNCHANGED local
  BY <1>3
<1>4. ASSUME NEW r \in Runs, local' \subseteq local PROVE Stamps(local')
  BY <1>2, <1>4
<1>5. ASSUME NEW r \in Runs, NEW x, x.at = ts[r], local' \subseteq Others(local, r) \cup {x}
      PROVE  Stamps(local')
  <2>1. Stamps(Others(local, r)) /\ \A a \in Others(local, r) : a.at # ts[r]
    BY <1>2 DEF Others
  <2>2. IsFiniteSet(Others(local, r) \cup {x})
    BY <2>1, FS_AddElement DEF Stamps
  <2>3. IsFiniteSet(local')
    BY <1>5, <2>2, FS_Subset
  <2>4. \A a, b \in local' : a.at = b.at => a = b
    BY <1>5, <2>1 DEF Stamps
  <2> QED
    BY <1>1, <2>3, <2>4 DEF Stamps
<1>6. ASSUME NEW r \in Runs, VerifyPasses(r) PROVE Stamps(local')
  <2> DEFINE pass(a) == [at |-> a.at, brain |-> a.brain, proved |-> TRUE]
  <2>1. PICK a \in Mine(local, r) : TRUE
    BY <1>6 DEF VerifyPasses
  <2>2. Mine(local, r) = {a} /\ a.at = ts[r]
    BY <2>1 DEF Mine, Stamps
  <2>3. local' = Others(local, r) \cup {pass(a)}
    BY <1>6, <2>2 DEF VerifyPasses
  <2> QED
    BY <1>5, <2>2, <2>3
<1>7. ASSUME NEW r \in Runs, local' = Sealed(r) PROVE Stamps(local')
  BY <1>5, <1>7 DEF Sealed
<1> QED
  BY <1>3, <1>4, <1>6, <1>7, LocalSteps, RetainedBounds DEF Others

\* Retention leaves the newest archives, as many as it is told (RetentionCounts).
THEOREM RetentionCorrect == Spec => RetentionCounts
<1>1. Init => Stamps(local)
  BY FS_EmptySet DEF Init, Stamps
<1>2. ASSUME TypeOK, Stamps(local), [Next]_vars, NEW r \in Runs, pc[r] = "prune", pc'[r] = "beat"
      PROVE  LeavesTheNewest(r)
  <2> DEFINE left == IF Cardinality(local) < Retain THEN Cardinality(local) ELSE Retain
  <2>1. /\ IsFiniteSet(local) /\ Cardinality(local) \in Nat /\ Retain \in Nat
        /\ Newest(local) \subseteq local /\ Cardinality(Newest(local)) = left
        /\ \A a \in local \ Newest(local) : \A b \in Newest(local) : a.at < b.at
    BY <1>2, NewestCount, FS_CardinalityType, RetainAssumption DEF Stamps
  <2>2. Prune(r) \/ CommandFails(r)
    BY <1>2, PruneOrFails
  <2>3. CASE CommandFails(r)
    <3>1. local' = local /\ "failed" \in flags'[r]
      BY <1>2, <2>3 DEF CommandFails, Raise, TypeOK
    <3> QED
      BY <2>1, <3>1 DEF LeavesTheNewest
  <2>4. CASE Prune(r) /\ local' = Newest(local)
    BY <2>1, <2>4 DEF LeavesTheNewest
  <2>5. CASE local' \in Retained(local) /\ Raise(r, {"failed"})
    <3>1. Newest(local) \subseteq local' /\ local' \subseteq local /\ "failed" \in flags'[r]
      BY <1>2, <2>5, RetainedBounds DEF Raise, TypeOK
    <3>2. IsFiniteSet(local')
      BY <2>1, <3>1, FS_Subset
    <3>3. Cardinality(Newest(local)) <= Cardinality(local') /\ Cardinality(local') \in Nat
      BY <3>1, <3>2, FS_Subset, FS_CardinalityType
    <3> QED
      BY <2>1, <3>1, <3>3 DEF LeavesTheNewest
  <2> QED
    BY <2>2, <2>3, <2>4, <2>5 DEF Prune
<1>3. TypeOK /\ Stamps(local) /\ [Next]_vars
        => [\A r \in Runs : pc[r] = "prune" /\ pc'[r] = "beat" => LeavesTheNewest(r)]_vars
  BY <1>2
<1>4. TypeOK /\ TypeOK' /\ Stamps(local) /\ [Next]_vars => Stamps(local)'
  BY StepStamps
<1> QED
  BY <1>1, <1>3, <1>4, TypeCorrect, PTL DEF Spec, RetentionCounts
=============================================================================
