----------------------- MODULE EvidenceBundle_proofs -----------------------
(***************************************************************************)
(* Theorems about EvidenceBundle, for any number of emitters, any          *)
(* documents and any bundle that is there before them.                     *)
(***************************************************************************)
EXTENDS EvidenceBundle, TLAPS

-----------------------------------------------------------------------------
\* Lemmas about the operators.

\* Appending keeps what is there and adds one element at the end.
LEMMA Appended ==
  ASSUME NEW S, NEW s \in Seq(S), NEW r \in S
  PROVE  /\ Append(s, r) \in Seq(S)
         /\ DOMAIN s = 1 .. Len(s)
         /\ Len(s) \in Nat
         /\ DOMAIN Append(s, r) = 1 .. Len(s) + 1
         /\ \A k \in DOMAIN s : Append(s, r)[k] = s[k]
         /\ Append(s, r)[Len(s) + 1] = r
  OBVIOUS

\* A composed row has a decision of the closed enumeration.
LEMMA RowType == ASSUME TypeOK, NEW e \in Emitters PROVE RowOf(e) \in Row
<1>1. doc[e] \in Doc
  BY DocAssumption DEF TypeOK
<1>2. Decision(doc[e]) \in Decisions
  BY <1>1 DEF Decision, Doc, Verdicts, Decisions
<1>3. doc[e].id \in Ids /\ doc[e].kernel \in BOOLEAN /\ doc[e].severity \in BOOLEAN
  BY <1>1 DEF Doc
<1> QED
  BY <1>2, <1>3 DEF RowOf, Row

\* So does an event.
LEMMA EventType == ASSUME TypeOK, NEW e \in Emitters PROVE EventOf(e) \in Event
<1>1. doc[e] \in Doc
  BY DocAssumption DEF TypeOK
<1>2. Decision(doc[e]) \in Decisions
  BY <1>1 DEF Decision, Doc, Verdicts, Decisions
<1> QED
  BY <1>2 DEF EventOf, Event, Decisions

\* A bundle that is there before the emitters holds no row of theirs.
LEMMA FoundType == ASSUME NEW s \in FoundBundles
                   PROVE  s \in Seq(Row) /\ \A k \in DOMAIN s : s[k].by = Found
<1>1. s \in Seq(FoundRows)
  BY FoundAssumption
<1>2. s \in Seq(Row)
  BY <1>1, FoundAssumption
<1>3. \A k \in DOMAIN s : s[k] \in FoundRows
  BY <1>1
<1> QED
  BY <1>2, <1>3, FoundAssumption

-----------------------------------------------------------------------------
\* Types.

\* The types hold at the start.
LEMMA InitType == Init => TypeOK
<1> SUFFICES ASSUME Init PROVE TypeOK
  OBVIOUS
<1>1. rows \in Seq(Row)
  <2>1. CASE shape = "array"
    BY <2>1, FoundType DEF Init
  <2>2. CASE shape # "array"
    BY <2>2 DEF Init
  <2> QED
    BY <2>1, <2>2
<1>2. pc \in [Emitters -> Shell \cup Python \cup {"done"}]
  BY DEF Init, Shell
<1>3. exit \in [Emitters -> Answer \cup {"none"}] /\ loaded \in [Emitters -> Seq(Row)]
  BY DEF Init
<1> QED
  BY <1>1, <1>2, <1>3 DEF Init, TypeOK

\* Every step keeps the types.
LEMMA StepType == TypeOK /\ [Next]_vars => TypeOK'
<1> SUFFICES ASSUME TypeOK, [Next]_vars PROVE TypeOK'
  OBVIOUS
<1> USE DEF TypeOK, Goto, End, Release, Shell, Python, Answer, bundle, history
<1>1. ASSUME NEW e \in Emitters, Compose(e) PROVE TypeOK'
  BY <1>1 DEF Compose
<1>2. ASSUME NEW e \in Emitters, Observe(e) PROVE TypeOK'
  BY <1>2, EventType DEF Observe
<1>3. ASSUME NEW e \in Emitters, Validate(e) PROVE TypeOK'
  BY <1>3 DEF Validate
<1>4. ASSUME NEW e \in Emitters, RefuseRow(e) PROVE TypeOK'
  BY <1>4 DEF RefuseRow
<1>5. ASSUME NEW e \in Emitters, Lock(e) PROVE TypeOK'
  BY <1>5 DEF Lock
<1>6. ASSUME NEW e \in Emitters, Read(e) PROVE TypeOK'
  BY <1>6 DEF Read
<1>7. ASSUME NEW e \in Emitters, RefuseBundle(e) PROVE TypeOK'
  BY <1>7 DEF RefuseBundle
<1>8. ASSUME NEW e \in Emitters, RefuseDuplicate(e) PROVE TypeOK'
  BY <1>8 DEF RefuseDuplicate
<1>9. ASSUME NEW e \in Emitters, MakeTemp(e) PROVE TypeOK'
  BY <1>9 DEF MakeTemp
<1>9a. ASSUME NEW e \in Emitters, Write(e) PROVE TypeOK'
  BY <1>9a DEF Write
<1>9b. ASSUME NEW e \in Emitters, WriteFails(e) PROVE TypeOK'
  BY <1>9b DEF WriteFails
<1>9c. ASSUME NEW e \in Emitters, Unwind(e) PROVE TypeOK'
  BY <1>9c DEF Unwind
<1>10. ASSUME NEW e \in Emitters, Replace(e) PROVE TypeOK'
  <2>1. rows' \in Seq(Row)
    BY <1>10, RowType, Appended DEF Replace
  <2> QED
    BY <1>10,   <2>1 DEF Replace
<1>11. ASSUME NEW e \in Emitters, Unlock(e) PROVE TypeOK'
  BY <1>11 DEF Unlock
<1>12. ASSUME NEW e \in Emitters, Report(e) PROVE TypeOK'
  BY <1>12 DEF Report
<1>13. ASSUME NEW e \in Emitters, Raise(e) PROVE TypeOK'
  BY <1>13 DEF Raise
<1>14. ASSUME NEW e \in Emitters, Die(e) PROVE TypeOK'
  BY <1>14 DEF Die
<1>15. ASSUME NEW e \in Emitters, Orphan(e) PROVE TypeOK'
  BY <1>15 DEF Orphan
<1>16. CASE UNCHANGED vars
  BY <1>16 DEF vars, bundle, history
<1> QED
  BY <1>1, <1>2, <1>3, <1>4, <1>5, <1>6, <1>7, <1>8, <1>9, <1>9a, <1>9b, <1>9c, <1>10,
     <1>11, <1>12, <1>13, <1>14, <1>15, <1>16 DEF Next, Work

\* TypeOK of EvidenceBundle: the variables have their types in every reachable
\* state.
THEOREM TypeCorrect == Spec => []TypeOK
  BY InitType, StepType, PTL DEF Spec

-----------------------------------------------------------------------------
\* The inductive invariant, one part at a time.

\* The lock is its holder's from flock to close.
LEMMA StepLock == TypeOK /\ LockInv /\ [Next]_vars => LockInv'
<1> SUFFICES ASSUME TypeOK, LockInv, [Next]_vars PROVE LockInv'
  OBVIOUS
<1> USE DEF TypeOK, Goto, End, Release, Shell, Python, InLock, Answer, bundle, history, LockInv
<1>0. Nobody \notin Emitters
  BY FoundAssumption
<1> USE <1>0
<1>1. ASSUME NEW e \in Emitters, Compose(e) PROVE LockInv'
  BY <1>1 DEF Compose
<1>2. ASSUME NEW e \in Emitters, Observe(e) PROVE LockInv'
  BY <1>2 DEF Observe
<1>3. ASSUME NEW e \in Emitters, Validate(e) PROVE LockInv'
  BY <1>3 DEF Validate
<1>4. ASSUME NEW e \in Emitters, RefuseRow(e) PROVE LockInv'
  BY <1>4 DEF RefuseRow
<1>5. ASSUME NEW e \in Emitters, Lock(e) PROVE LockInv'
  BY <1>5 DEF Lock
<1>6. ASSUME NEW e \in Emitters, Read(e) PROVE LockInv'
  BY <1>6 DEF Read
<1>7. ASSUME NEW e \in Emitters, RefuseBundle(e) PROVE LockInv'
  BY <1>7 DEF RefuseBundle
<1>8. ASSUME NEW e \in Emitters, RefuseDuplicate(e) PROVE LockInv'
  BY <1>8 DEF RefuseDuplicate
<1>9. ASSUME NEW e \in Emitters, MakeTemp(e) PROVE LockInv'
  BY <1>9 DEF MakeTemp
<1>9a. ASSUME NEW e \in Emitters, Write(e) PROVE LockInv'
  BY <1>9a DEF Write
<1>9b. ASSUME NEW e \in Emitters, WriteFails(e) PROVE LockInv'
  BY <1>9b DEF WriteFails
<1>9c. ASSUME NEW e \in Emitters, Unwind(e) PROVE LockInv'
  BY <1>9c DEF Unwind
<1>10. ASSUME NEW e \in Emitters, Replace(e) PROVE LockInv'
  BY <1>10 DEF Replace
<1>11. ASSUME NEW e \in Emitters, Unlock(e) PROVE LockInv'
  BY <1>11 DEF Unlock
<1>12. ASSUME NEW e \in Emitters, Report(e) PROVE LockInv'
  BY <1>12 DEF Report
<1>13. ASSUME NEW e \in Emitters, Raise(e) PROVE LockInv'
  BY <1>13 DEF Raise
<1>14. ASSUME NEW e \in Emitters, Die(e) PROVE LockInv'
  BY <1>14 DEF Die
<1>15. ASSUME NEW e \in Emitters, Orphan(e) PROVE LockInv'
  BY <1>15 DEF Orphan
<1>16. CASE UNCHANGED vars
  BY <1>16 DEF vars, bundle, history
<1> QED
  BY <1>1, <1>2, <1>3, <1>4, <1>5, <1>6, <1>7, <1>8, <1>9, <1>9a, <1>9b, <1>9c, <1>10,
     <1>11, <1>12, <1>13, <1>14, <1>15, <1>16 DEF Next, Work

\* Nobody replaces the bundle between an emitter's read and its rename.
LEMMA StepLoaded == TypeOK /\ LockInv /\ LoadedInv /\ [Next]_vars => LoadedInv'
<1> SUFFICES ASSUME TypeOK, LockInv, LoadedInv, [Next]_vars PROVE LoadedInv'
  OBVIOUS
<1> USE DEF TypeOK, Goto, End, Release, Shell, Python, InLock, Answer, bundle, history, LoadedInv, Duplicate
<1>1. ASSUME NEW e \in Emitters, Compose(e) PROVE LoadedInv'
  BY <1>1 DEF Compose
<1>2. ASSUME NEW e \in Emitters, Observe(e) PROVE LoadedInv'
  BY <1>2 DEF Observe
<1>3. ASSUME NEW e \in Emitters, Validate(e) PROVE LoadedInv'
  BY <1>3 DEF Validate
<1>4. ASSUME NEW e \in Emitters, RefuseRow(e) PROVE LoadedInv'
  BY <1>4 DEF RefuseRow
<1>5. ASSUME NEW e \in Emitters, Lock(e) PROVE LoadedInv'
  BY <1>5 DEF Lock
<1>6. ASSUME NEW e \in Emitters, Read(e) PROVE LoadedInv'
  BY <1>6 DEF Read
<1>7. ASSUME NEW e \in Emitters, RefuseBundle(e) PROVE LoadedInv'
  BY <1>7 DEF RefuseBundle
<1>8. ASSUME NEW e \in Emitters, RefuseDuplicate(e) PROVE LoadedInv'
  BY <1>8 DEF RefuseDuplicate
<1>9. ASSUME NEW e \in Emitters, MakeTemp(e) PROVE LoadedInv'
  BY <1>9 DEF MakeTemp
<1>9a. ASSUME NEW e \in Emitters, Write(e) PROVE LoadedInv'
  BY <1>9a DEF Write
<1>9b. ASSUME NEW e \in Emitters, WriteFails(e) PROVE LoadedInv'
  BY <1>9b DEF WriteFails
<1>9c. ASSUME NEW e \in Emitters, Unwind(e) PROVE LoadedInv'
  BY <1>9c DEF Unwind
<1>10. ASSUME NEW e \in Emitters, Replace(e) PROVE LoadedInv'
  <2>1. ASSUME NEW f \in Emitters PROVE pc'[f] \notin {"check", "made", "write"}
    BY <1>10 DEF Replace, LockInv
  <2> QED
    BY <2>1
<1>11. ASSUME NEW e \in Emitters, Unlock(e) PROVE LoadedInv'
  BY <1>11 DEF Unlock
<1>12. ASSUME NEW e \in Emitters, Report(e) PROVE LoadedInv'
  BY <1>12 DEF Report
<1>13. ASSUME NEW e \in Emitters, Raise(e) PROVE LoadedInv'
  BY <1>13 DEF Raise
<1>14. ASSUME NEW e \in Emitters, Die(e) PROVE LoadedInv'
  BY <1>14 DEF Die
<1>15. ASSUME NEW e \in Emitters, Orphan(e) PROVE LoadedInv'
  BY <1>15 DEF Orphan
<1>16. CASE UNCHANGED vars
  BY <1>16 DEF vars, bundle, history
<1> QED
  BY <1>1, <1>2, <1>3, <1>4, <1>5, <1>6, <1>7, <1>8, <1>9, <1>9a, <1>9b, <1>9c, <1>10,
     <1>11, <1>12, <1>13, <1>14, <1>15, <1>16 DEF Next, Work

\* Only valid rows get past validation.
LEMMA StepValid == TypeOK /\ ValidInv /\ [Next]_vars => ValidInv'
<1> SUFFICES ASSUME TypeOK, ValidInv, [Next]_vars PROVE ValidInv'
  OBVIOUS
<1> USE DEF TypeOK, Goto, End, Release, Shell, Python, InLock, Answer, bundle, history, ValidInv, RowOf
<1>1. ASSUME NEW e \in Emitters, Compose(e) PROVE ValidInv'
  BY <1>1 DEF Compose
<1>2. ASSUME NEW e \in Emitters, Observe(e) PROVE ValidInv'
  BY <1>2 DEF Observe
<1>3. ASSUME NEW e \in Emitters, Validate(e) PROVE ValidInv'
  BY <1>3 DEF Validate
<1>4. ASSUME NEW e \in Emitters, RefuseRow(e) PROVE ValidInv'
  BY <1>4 DEF RefuseRow
<1>5. ASSUME NEW e \in Emitters, Lock(e) PROVE ValidInv'
  BY <1>5 DEF Lock
<1>6. ASSUME NEW e \in Emitters, Read(e) PROVE ValidInv'
  BY <1>6 DEF Read
<1>7. ASSUME NEW e \in Emitters, RefuseBundle(e) PROVE ValidInv'
  BY <1>7 DEF RefuseBundle
<1>8. ASSUME NEW e \in Emitters, RefuseDuplicate(e) PROVE ValidInv'
  BY <1>8 DEF RefuseDuplicate
<1>9. ASSUME NEW e \in Emitters, MakeTemp(e) PROVE ValidInv'
  BY <1>9 DEF MakeTemp
<1>9a. ASSUME NEW e \in Emitters, Write(e) PROVE ValidInv'
  BY <1>9a DEF Write
<1>9b. ASSUME NEW e \in Emitters, WriteFails(e) PROVE ValidInv'
  BY <1>9b DEF WriteFails
<1>9c. ASSUME NEW e \in Emitters, Unwind(e) PROVE ValidInv'
  BY <1>9c DEF Unwind
<1>10. ASSUME NEW e \in Emitters, Replace(e) PROVE ValidInv'
  BY <1>10 DEF Replace
<1>11. ASSUME NEW e \in Emitters, Unlock(e) PROVE ValidInv'
  BY <1>11 DEF Unlock
<1>12. ASSUME NEW e \in Emitters, Report(e) PROVE ValidInv'
  BY <1>12 DEF Report
<1>13. ASSUME NEW e \in Emitters, Raise(e) PROVE ValidInv'
  BY <1>13 DEF Raise
<1>14. ASSUME NEW e \in Emitters, Die(e) PROVE ValidInv'
  BY <1>14 DEF Die
<1>15. ASSUME NEW e \in Emitters, Orphan(e) PROVE ValidInv'
  BY <1>15 DEF Orphan
<1>16. CASE UNCHANGED vars
  BY <1>16 DEF vars, bundle, history
<1> QED
  BY <1>1, <1>2, <1>3, <1>4, <1>5, <1>6, <1>7, <1>8, <1>9, <1>9a, <1>9b, <1>9c, <1>10,
     <1>11, <1>12, <1>13, <1>14, <1>15, <1>16 DEF Next, Work

\* An emitter is told something by its last step.
LEMMA StepExit == TypeOK /\ ExitInv /\ [Next]_vars => ExitInv'
<1> SUFFICES ASSUME TypeOK, ExitInv, [Next]_vars PROVE ExitInv'
  OBVIOUS
<1> USE DEF TypeOK, Goto, End, Release, Shell, Python, InLock, Answer, bundle, history, ExitInv
<1>1. ASSUME NEW e \in Emitters, Compose(e) PROVE ExitInv'
  BY <1>1 DEF Compose
<1>2. ASSUME NEW e \in Emitters, Observe(e) PROVE ExitInv'
  BY <1>2 DEF Observe
<1>3. ASSUME NEW e \in Emitters, Validate(e) PROVE ExitInv'
  BY <1>3 DEF Validate
<1>4. ASSUME NEW e \in Emitters, RefuseRow(e) PROVE ExitInv'
  BY <1>4 DEF RefuseRow
<1>5. ASSUME NEW e \in Emitters, Lock(e) PROVE ExitInv'
  BY <1>5 DEF Lock
<1>6. ASSUME NEW e \in Emitters, Read(e) PROVE ExitInv'
  BY <1>6 DEF Read
<1>7. ASSUME NEW e \in Emitters, RefuseBundle(e) PROVE ExitInv'
  BY <1>7 DEF RefuseBundle
<1>8. ASSUME NEW e \in Emitters, RefuseDuplicate(e) PROVE ExitInv'
  BY <1>8 DEF RefuseDuplicate
<1>9. ASSUME NEW e \in Emitters, MakeTemp(e) PROVE ExitInv'
  BY <1>9 DEF MakeTemp
<1>9a. ASSUME NEW e \in Emitters, Write(e) PROVE ExitInv'
  BY <1>9a DEF Write
<1>9b. ASSUME NEW e \in Emitters, WriteFails(e) PROVE ExitInv'
  BY <1>9b DEF WriteFails
<1>9c. ASSUME NEW e \in Emitters, Unwind(e) PROVE ExitInv'
  BY <1>9c DEF Unwind
<1>10. ASSUME NEW e \in Emitters, Replace(e) PROVE ExitInv'
  BY <1>10 DEF Replace
<1>11. ASSUME NEW e \in Emitters, Unlock(e) PROVE ExitInv'
  BY <1>11 DEF Unlock
<1>12. ASSUME NEW e \in Emitters, Report(e) PROVE ExitInv'
  BY <1>12 DEF Report
<1>13. ASSUME NEW e \in Emitters, Raise(e) PROVE ExitInv'
  BY <1>13 DEF Raise
<1>14. ASSUME NEW e \in Emitters, Die(e) PROVE ExitInv'
  BY <1>14 DEF Die
<1>15. ASSUME NEW e \in Emitters, Orphan(e) PROVE ExitInv'
  BY <1>15 DEF Orphan
<1>16. CASE UNCHANGED vars
  BY <1>16 DEF vars, bundle, history
<1> QED
  BY <1>1, <1>2, <1>3, <1>4, <1>5, <1>6, <1>7, <1>8, <1>9, <1>9a, <1>9b, <1>9c, <1>10,
     <1>11, <1>12, <1>13, <1>14, <1>15, <1>16 DEF Next, Work

\* A temporary file goes with the rename or with the handler.
LEMMA StepTemp == TypeOK /\ LockInv /\ TempInv /\ [Next]_vars => TempInv'
<1> SUFFICES ASSUME TypeOK, LockInv, TempInv, [Next]_vars PROVE TempInv'
  OBVIOUS
<1> USE DEF TypeOK, Goto, End, Release, Shell, Python, InLock, Answer, bundle, history, TempInv
<1>1. ASSUME NEW e \in Emitters, Compose(e) PROVE TempInv'
  BY <1>1 DEF Compose
<1>2. ASSUME NEW e \in Emitters, Observe(e) PROVE TempInv'
  BY <1>2 DEF Observe
<1>3. ASSUME NEW e \in Emitters, Validate(e) PROVE TempInv'
  BY <1>3 DEF Validate
<1>4. ASSUME NEW e \in Emitters, RefuseRow(e) PROVE TempInv'
  BY <1>4 DEF RefuseRow
<1>5. ASSUME NEW e \in Emitters, Lock(e) PROVE TempInv'
  BY <1>5 DEF Lock
<1>6. ASSUME NEW e \in Emitters, Read(e) PROVE TempInv'
  BY <1>6 DEF Read
<1>7. ASSUME NEW e \in Emitters, RefuseBundle(e) PROVE TempInv'
  BY <1>7 DEF RefuseBundle
<1>8. ASSUME NEW e \in Emitters, RefuseDuplicate(e) PROVE TempInv'
  BY <1>8 DEF RefuseDuplicate
<1>9. ASSUME NEW e \in Emitters, MakeTemp(e) PROVE TempInv'
  BY <1>9 DEF MakeTemp
<1>9a. ASSUME NEW e \in Emitters, Write(e) PROVE TempInv'
  BY <1>9a DEF Write
<1>9b. ASSUME NEW e \in Emitters, WriteFails(e) PROVE TempInv'
  BY <1>9b DEF WriteFails
<1>9c. ASSUME NEW e \in Emitters, Unwind(e) PROVE TempInv'
  BY <1>9c DEF Unwind
<1>10. ASSUME NEW e \in Emitters, Replace(e) PROVE TempInv'
  BY <1>10 DEF Replace
<1>11. ASSUME NEW e \in Emitters, Unlock(e) PROVE TempInv'
  BY <1>11 DEF Unlock
<1>12. ASSUME NEW e \in Emitters, Report(e) PROVE TempInv'
  BY <1>12 DEF Report
<1>13. ASSUME NEW e \in Emitters, Raise(e) PROVE TempInv'
  BY <1>13 DEF Raise
<1>14. ASSUME NEW e \in Emitters, Die(e) PROVE TempInv'
  BY <1>14 DEF Die
<1>15. ASSUME NEW e \in Emitters, Orphan(e) PROVE TempInv'
  BY <1>15 DEF Orphan
<1>16. CASE UNCHANGED vars
  BY <1>16 DEF vars, bundle, history
<1> QED
  BY <1>1, <1>2, <1>3, <1>4, <1>5, <1>6, <1>7, <1>8, <1>9, <1>9a, <1>9b, <1>9c, <1>10,
     <1>11, <1>12, <1>13, <1>14, <1>15, <1>16 DEF Next, Work

\* Documents do not change.
LEMMA StepEvent == TypeOK /\ EventInv /\ [Next]_vars => EventInv'
<1> SUFFICES ASSUME TypeOK, EventInv, [Next]_vars PROVE EventInv'
  OBVIOUS
<1> USE DEF TypeOK, Goto, End, Release, Shell, Python, InLock, Answer, bundle, history, EventInv, EventOf
<1>1. ASSUME NEW e \in Emitters, Compose(e) PROVE EventInv'
  BY <1>1 DEF Compose, Event
<1>2. ASSUME NEW e \in Emitters, Observe(e) PROVE EventInv'
  BY <1>2 DEF Observe
<1>3. ASSUME NEW e \in Emitters, Validate(e) PROVE EventInv'
  BY <1>3 DEF Validate
<1>4. ASSUME NEW e \in Emitters, RefuseRow(e) PROVE EventInv'
  BY <1>4 DEF RefuseRow
<1>5. ASSUME NEW e \in Emitters, Lock(e) PROVE EventInv'
  BY <1>5 DEF Lock
<1>6. ASSUME NEW e \in Emitters, Read(e) PROVE EventInv'
  BY <1>6 DEF Read
<1>7. ASSUME NEW e \in Emitters, RefuseBundle(e) PROVE EventInv'
  BY <1>7 DEF RefuseBundle
<1>8. ASSUME NEW e \in Emitters, RefuseDuplicate(e) PROVE EventInv'
  BY <1>8 DEF RefuseDuplicate
<1>9. ASSUME NEW e \in Emitters, MakeTemp(e) PROVE EventInv'
  BY <1>9 DEF MakeTemp
<1>9a. ASSUME NEW e \in Emitters, Write(e) PROVE EventInv'
  BY <1>9a DEF Write
<1>9b. ASSUME NEW e \in Emitters, WriteFails(e) PROVE EventInv'
  BY <1>9b DEF WriteFails
<1>9c. ASSUME NEW e \in Emitters, Unwind(e) PROVE EventInv'
  BY <1>9c DEF Unwind
<1>10. ASSUME NEW e \in Emitters, Replace(e) PROVE EventInv'
  BY <1>10 DEF Replace
<1>11. ASSUME NEW e \in Emitters, Unlock(e) PROVE EventInv'
  BY <1>11 DEF Unlock
<1>12. ASSUME NEW e \in Emitters, Report(e) PROVE EventInv'
  BY <1>12 DEF Report
<1>13. ASSUME NEW e \in Emitters, Raise(e) PROVE EventInv'
  BY <1>13 DEF Raise
<1>14. ASSUME NEW e \in Emitters, Die(e) PROVE EventInv'
  BY <1>14 DEF Die
<1>15. ASSUME NEW e \in Emitters, Orphan(e) PROVE EventInv'
  BY <1>15 DEF Orphan
<1>16. CASE UNCHANGED vars
  BY <1>16 DEF vars, bundle, history
<1> QED
  BY <1>1, <1>2, <1>3, <1>4, <1>5, <1>6, <1>7, <1>8, <1>9, <1>9a, <1>9b, <1>9c, <1>10,
     <1>11, <1>12, <1>13, <1>14, <1>15, <1>16 DEF Next, Work

\* A row is appended once, by an emitter that was not refused.
LEMMA StepRow == TypeOK /\ LoadedInv /\ ExitInv /\ RowInv /\ [Next]_vars => RowInv'
<1> SUFFICES ASSUME TypeOK, LoadedInv, ExitInv, RowInv, [Next]_vars PROVE RowInv'
  OBVIOUS
<1> USE DEF TypeOK, Goto, End, Release, Shell, Python, InLock, Answer, bundle, history, RowInv, RowOnce, RowOf
<1>1. ASSUME NEW e \in Emitters, Compose(e) PROVE RowInv'
  <2>1. CASE doc[e].keys
    BY <1>1, <2>1 DEF Compose
  <2>2. CASE ~doc[e].keys
    BY <1>1, <2>2 DEF Compose
  <2> QED
    BY <2>1, <2>2
<1>2. ASSUME NEW e \in Emitters, Observe(e) PROVE RowInv'
  BY <1>2 DEF Observe
<1>3. ASSUME NEW e \in Emitters, Validate(e) PROVE RowInv'
  BY <1>3 DEF Validate
<1>4. ASSUME NEW e \in Emitters, RefuseRow(e) PROVE RowInv'
  BY <1>4 DEF RefuseRow
<1>5. ASSUME NEW e \in Emitters, Lock(e) PROVE RowInv'
  BY <1>5 DEF Lock
<1>6. ASSUME NEW e \in Emitters, Read(e) PROVE RowInv'
  BY <1>6 DEF Read
<1>7. ASSUME NEW e \in Emitters, RefuseBundle(e) PROVE RowInv'
  BY <1>7 DEF RefuseBundle
<1>8. ASSUME NEW e \in Emitters, RefuseDuplicate(e) PROVE RowInv'
  BY <1>8 DEF RefuseDuplicate
<1>9. ASSUME NEW e \in Emitters, MakeTemp(e) PROVE RowInv'
  BY <1>9 DEF MakeTemp
<1>9a. ASSUME NEW e \in Emitters, Write(e) PROVE RowInv'
  BY <1>9a DEF Write
<1>9b. ASSUME NEW e \in Emitters, WriteFails(e) PROVE RowInv'
  BY <1>9b DEF WriteFails
<1>9c. ASSUME NEW e \in Emitters, Unwind(e) PROVE RowInv'
  BY <1>9c DEF Unwind
<1>10. ASSUME NEW e \in Emitters, Replace(e) PROVE RowInv'
  <2> DEFINE n == Len(rows) + 1
  <2>1. /\ DOMAIN rows = 1 .. Len(rows) /\ Len(rows) \in Nat
        /\ DOMAIN rows' = 1 .. n
        /\ \A k \in DOMAIN rows : rows'[k] = rows[k]
        /\ rows'[n] = RowOf(e)
    BY <1>10, RowType, Appended DEF Replace, LoadedInv
  <2>2. \A k \in DOMAIN rows : rows[k].by # e
    BY <1>10 DEF Replace
  <2>3. RowOf(e).by = e /\ \A f \in Emitters : RowOf(f)' = RowOf(f)
    BY <1>10 DEF Replace
  <2>4. pc'[e] = "unlock" /\ exit' = exit /\ exit[e] \notin {"refused", "duplicate"}
    BY <1>10 DEF Replace, ExitInv
  <2> HIDE DEF RowOf, TypeOK, RowInv
  <2>5. RowOnce(e)'
    <3>1. \A k \in DOMAIN rows' : rows'[k].by = e => k = n
      BY <2>1, <2>2
    <3>2. n \in DOMAIN rows' /\ rows'[n].by = e /\ rows'[n] = RowOf(e)'
      BY <2>1, <2>3
    <3> QED
      BY <3>1, <3>2, <2>4
  <2>6. ASSUME NEW f \in Emitters, f # e
        PROVE  RowOnce(f)'
    <3>1. pc'[f] = pc[f] /\ exit'[f] = exit[f] /\ RowOnce(f) /\ RowOf(f)' = RowOf(f)
      BY <1>10, <2>6, <2>3 DEF Replace, RowInv, TypeOK
    <3>2. \A k \in DOMAIN rows' : rows'[k].by = f => k \in DOMAIN rows /\ rows'[k] = rows[k]
      BY <2>6, <2>1, <2>3
    <3>3. \A k \in DOMAIN rows : k \in DOMAIN rows' /\ rows'[k] = rows[k]
      BY <2>1
    <3> QED
      BY <3>1, <3>2, <3>3
  <2> QED
    BY <2>5, <2>6 DEF RowInv
<1>11. ASSUME NEW e \in Emitters, Unlock(e) PROVE RowInv'
  BY <1>11 DEF Unlock
<1>12. ASSUME NEW e \in Emitters, Report(e) PROVE RowInv'
  BY <1>12 DEF Report
<1>13. ASSUME NEW e \in Emitters, Raise(e) PROVE RowInv'
  BY <1>13 DEF Raise
<1>14. ASSUME NEW e \in Emitters, Die(e) PROVE RowInv'
  BY <1>14 DEF Die
<1>15. ASSUME NEW e \in Emitters, Orphan(e) PROVE RowInv'
  BY <1>15 DEF Orphan
<1>16. CASE UNCHANGED vars
  BY <1>16 DEF vars, bundle, history
<1> QED
  BY <1>1, <1>2, <1>3, <1>4, <1>5, <1>6, <1>7, <1>8, <1>9, <1>9a, <1>9b, <1>9c, <1>10,
     <1>11, <1>12, <1>13, <1>14, <1>15, <1>16 DEF Next, Work

\* The invariant holds at the start: every row there was found.
LEMMA InitInductive == Init => Inductive
<1> SUFFICES ASSUME Init PROVE Inductive
  OBVIOUS
<1>1. \A k \in DOMAIN rows : rows[k].by = Found
  <2>1. CASE shape = "array"
    BY <2>1, FoundType DEF Init
  <2>2. CASE shape # "array"
    BY <2>2 DEF Init
  <2> QED
    BY <2>1, <2>2
<1>2. RowInv
  BY <1>1, FoundAssumption DEF Init, RowInv, RowOnce
<1>3. LockInv /\ LoadedInv /\ ValidInv
  BY FoundAssumption DEF Init, LockInv, LoadedInv, ValidInv, InLock, Python
<1>4. ExitInv /\ TempInv /\ EventInv
  BY DEF Init, ExitInv, TempInv, EventInv
<1> QED
  BY <1>2, <1>3, <1>4 DEF Inductive

\* The parts together are inductive.
LEMMA StepInductive == TypeOK /\ Inductive /\ [Next]_vars => Inductive'
  BY StepLock, StepLoaded, StepValid, StepRow, StepExit, StepTemp, StepEvent DEF Inductive

\* Inductive of EvidenceBundle holds in every reachable state: the lock is its
\* holder's, what was read stays what the bundle holds, and a row is appended
\* once.
THEOREM InductiveCorrect == Spec => []Inductive
  BY TypeCorrect, InitInductive, StepInductive, PTL DEF Spec

-----------------------------------------------------------------------------
\* The properties of the bundle.

\* The answers follow from the parts about rows and statuses.
LEMMA AnswersFollow == TypeOK /\ Inductive => AnswersAreTrue
<1> SUFFICES ASSUME TypeOK, Inductive, NEW e \in Emitters
             PROVE  LET mine == {k \in DOMAIN rows : rows[k].by = e}
                    IN  /\ exit[e] = "ok" => \E k \in mine : mine = {k}
                        /\ exit[e] \in {"refused", "duplicate"} => mine = {}
  BY DEF AnswersAreTrue
<1>1. RowOnce(e)
  BY DEF Inductive, RowInv
<1> QED
  BY <1>1 DEF RowOnce

\* AnswersAreTrue of EvidenceBundle: exit status 0 stands for exactly one row
\* of the emitter in the bundle, a refusal for none.
THEOREM AnswersCorrect == Spec => []AnswersAreTrue
  BY TypeCorrect, InductiveCorrect, AnswersFollow, PTL

\* TempsAreCleared of EvidenceBundle: an emitter that ended has left no temporary
\* file, unless it was killed or an exception met it where no handler removes one.
THEOREM TempsCorrect == Spec => []TempsAreCleared
<1>1. TypeOK /\ Inductive => TempsAreCleared
  BY DEF TypeOK, Inductive, TempInv, TempsAreCleared
<1> QED
  BY <1>1, TypeCorrect, InductiveCorrect, PTL

\* No row is appended at the start.
LEMMA InitUnique == Init => UniqueIds
<1>1. ASSUME Init PROVE \A k \in DOMAIN rows : rows[k].by = Found
  <2>1. CASE shape = "array"
    BY <1>1, <2>1, FoundType DEF Init
  <2>2. CASE shape # "array"
    BY <1>1, <2>2 DEF Init
  <2> QED
    BY <2>1, <2>2
<1> QED
  BY <1>1 DEF UniqueIds

\* Only a row with a new id is appended.
LEMMA StepUnique == TypeOK /\ Inductive /\ UniqueIds /\ [Next]_vars => UniqueIds'
<1> SUFFICES ASSUME TypeOK, Inductive, UniqueIds, [Next]_vars PROVE UniqueIds'
  OBVIOUS
<1> USE DEF Goto, End, Release, bundle, history, UniqueIds
<1>1. ASSUME NEW e \in Emitters, Compose(e) PROVE UniqueIds'
  BY <1>1 DEF Compose
<1>2. ASSUME NEW e \in Emitters, Observe(e) PROVE UniqueIds'
  BY <1>2 DEF Observe
<1>3. ASSUME NEW e \in Emitters, Validate(e) PROVE UniqueIds'
  BY <1>3 DEF Validate
<1>4. ASSUME NEW e \in Emitters, RefuseRow(e) PROVE UniqueIds'
  BY <1>4 DEF RefuseRow
<1>5. ASSUME NEW e \in Emitters, Lock(e) PROVE UniqueIds'
  BY <1>5 DEF Lock
<1>6. ASSUME NEW e \in Emitters, Read(e) PROVE UniqueIds'
  BY <1>6 DEF Read
<1>7. ASSUME NEW e \in Emitters, RefuseBundle(e) PROVE UniqueIds'
  BY <1>7 DEF RefuseBundle
<1>8. ASSUME NEW e \in Emitters, RefuseDuplicate(e) PROVE UniqueIds'
  BY <1>8 DEF RefuseDuplicate
<1>9. ASSUME NEW e \in Emitters, MakeTemp(e) PROVE UniqueIds'
  BY <1>9 DEF MakeTemp
<1>9a. ASSUME NEW e \in Emitters, Write(e) PROVE UniqueIds'
  BY <1>9a DEF Write
<1>9b. ASSUME NEW e \in Emitters, WriteFails(e) PROVE UniqueIds'
  BY <1>9b DEF WriteFails
<1>9c. ASSUME NEW e \in Emitters, Unwind(e) PROVE UniqueIds'
  BY <1>9c DEF Unwind
<1>10. ASSUME NEW e \in Emitters, Replace(e) PROVE UniqueIds'
  <2> DEFINE n == Len(rows) + 1
  <2>1. /\ DOMAIN rows = 1 .. Len(rows) /\ Len(rows) \in Nat
        /\ DOMAIN rows' = 1 .. n
        /\ \A k \in DOMAIN rows : rows'[k] = rows[k]
        /\ rows'[n] = RowOf(e)
    BY <1>10, RowType, Appended DEF Replace, Inductive, LoadedInv, TypeOK
  <2>2. RowOf(e).id = doc[e].id /\ \A k \in DOMAIN rows : rows[k].id # doc[e].id
    BY <1>10 DEF Replace, Inductive, LoadedInv, Duplicate, Holds, RowOf
  <2>3. ASSUME NEW j \in DOMAIN rows', rows'[j].by # Found, NEW k \in 1 .. j - 1
        PROVE  rows'[k].id # rows'[j].id
    <3>1. CASE j = n
      BY <3>1, <2>1, <2>2, <2>3
    <3>2. CASE j # n
      BY <3>2, <2>1, <2>3
    <3> QED
      BY <3>1, <3>2
  <2> QED
    BY <2>3
<1>11. ASSUME NEW e \in Emitters, Unlock(e) PROVE UniqueIds'
  BY <1>11 DEF Unlock
<1>12. ASSUME NEW e \in Emitters, Report(e) PROVE UniqueIds'
  BY <1>12 DEF Report
<1>13. ASSUME NEW e \in Emitters, Raise(e) PROVE UniqueIds'
  BY <1>13 DEF Raise
<1>14. ASSUME NEW e \in Emitters, Die(e) PROVE UniqueIds'
  BY <1>14 DEF Die
<1>15. ASSUME NEW e \in Emitters, Orphan(e) PROVE UniqueIds'
  BY <1>15 DEF Orphan
<1>16. CASE UNCHANGED vars
  BY <1>16 DEF vars, bundle, history
<1> QED
  BY <1>1, <1>2, <1>3, <1>4, <1>5, <1>6, <1>7, <1>8, <1>9, <1>9a, <1>9b, <1>9c, <1>10,
     <1>11, <1>12, <1>13, <1>14, <1>15, <1>16 DEF Next, Work

\* UniqueIds of EvidenceBundle: no appended row repeats the id of a row before
\* it, whatever was killed and run again.
THEOREM UniqueCorrect == Spec => []UniqueIds
  BY TypeCorrect, InductiveCorrect, InitUnique, StepUnique, PTL DEF Spec

\* A row that was seen stays.
LEMMA StepDuplicate == TypeOK /\ Inductive /\ DuplicateIsReal /\ [Next]_vars => DuplicateIsReal'
<1> SUFFICES ASSUME TypeOK, Inductive, DuplicateIsReal, [Next]_vars PROVE DuplicateIsReal'
  OBVIOUS
<1> USE DEF Goto, End, Release, bundle, history, DuplicateIsReal, TypeOK
<1>1. ASSUME NEW e \in Emitters, Compose(e) PROVE DuplicateIsReal'
  BY <1>1 DEF Compose
<1>2. ASSUME NEW e \in Emitters, Observe(e) PROVE DuplicateIsReal'
  BY <1>2 DEF Observe
<1>3. ASSUME NEW e \in Emitters, Validate(e) PROVE DuplicateIsReal'
  BY <1>3 DEF Validate
<1>4. ASSUME NEW e \in Emitters, RefuseRow(e) PROVE DuplicateIsReal'
  BY <1>4 DEF RefuseRow
<1>5. ASSUME NEW e \in Emitters, Lock(e) PROVE DuplicateIsReal'
  BY <1>5 DEF Lock
<1>6. ASSUME NEW e \in Emitters, Read(e) PROVE DuplicateIsReal'
  BY <1>6 DEF Read
<1>7. ASSUME NEW e \in Emitters, RefuseBundle(e) PROVE DuplicateIsReal'
  BY <1>7 DEF RefuseBundle
<1>8. ASSUME NEW e \in Emitters, RefuseDuplicate(e) PROVE DuplicateIsReal'
  <2>1. \E k \in DOMAIN rows : rows[k].by # e /\ rows[k].id = doc[e].id
    <3>1. loaded[e] = rows /\ RowOnce(e) /\ pc[e] = "check" /\ Duplicate(e)
      BY <1>8 DEF RefuseDuplicate, Inductive, LoadedInv, RowInv
    <3> QED
      BY <3>1 DEF RowOnce, Duplicate, Holds
  <2> QED
    BY <1>8, <2>1 DEF RefuseDuplicate
<1>9. ASSUME NEW e \in Emitters, MakeTemp(e) PROVE DuplicateIsReal'
  BY <1>9 DEF MakeTemp
<1>9a. ASSUME NEW e \in Emitters, Write(e) PROVE DuplicateIsReal'
  BY <1>9a DEF Write
<1>9b. ASSUME NEW e \in Emitters, WriteFails(e) PROVE DuplicateIsReal'
  BY <1>9b DEF WriteFails
<1>9c. ASSUME NEW e \in Emitters, Unwind(e) PROVE DuplicateIsReal'
  BY <1>9c DEF Unwind
<1>10. ASSUME NEW e \in Emitters, Replace(e) PROVE DuplicateIsReal'
  <2>1. \A k \in DOMAIN rows : k \in DOMAIN rows' /\ rows'[k] = rows[k]
    BY <1>10, RowType, Appended DEF Replace, Inductive, LoadedInv
  <2>2. exit' = exit /\ doc' = doc
    BY <1>10 DEF Replace
  <2> QED
    BY <2>1, <2>2
<1>11. ASSUME NEW e \in Emitters, Unlock(e) PROVE DuplicateIsReal'
  BY <1>11 DEF Unlock
<1>12. ASSUME NEW e \in Emitters, Report(e) PROVE DuplicateIsReal'
  BY <1>12 DEF Report
<1>13. ASSUME NEW e \in Emitters, Raise(e) PROVE DuplicateIsReal'
  BY <1>13 DEF Raise
<1>14. ASSUME NEW e \in Emitters, Die(e) PROVE DuplicateIsReal'
  BY <1>14 DEF Die
<1>15. ASSUME NEW e \in Emitters, Orphan(e) PROVE DuplicateIsReal'
  BY <1>15 DEF Orphan
<1>16. CASE UNCHANGED vars
  BY <1>16 DEF vars, bundle, history
<1> QED
  BY <1>1, <1>2, <1>3, <1>4, <1>5, <1>6, <1>7, <1>8, <1>9, <1>9a, <1>9b, <1>9c, <1>10,
     <1>11, <1>12, <1>13, <1>14, <1>15, <1>16 DEF Next, Work

\* DuplicateIsReal of EvidenceBundle: an emitter that was told its id is taken
\* finds the row that took it.
THEOREM DuplicateCorrect == Spec => []DuplicateIsReal
<1>1. Init => DuplicateIsReal
  BY DEF Init, DuplicateIsReal
<1> QED
  BY <1>1, TypeCorrect, InductiveCorrect, StepDuplicate, PTL DEF Spec

-----------------------------------------------------------------------------
\* The refinement.

\* The bundle that is there is a bundle of the abstract log.
LEMMA InitRefines == Init => Promise!Init
  BY DEF Init, Promise!Init

\* The rename is Put, an exit or the end of the shell is Tell, the rest is silent.
LEMMA StepRefines == TypeOK /\ Inductive /\ [Next]_vars => [Promise!Next]_(Promise!vars)
<1> SUFFICES ASSUME TypeOK, Inductive, [Next]_vars
             PROVE  Promise!Next \/ UNCHANGED Promise!vars
  BY DEF Promise!vars
<1> USE DEF bundle, history
<1>1. ASSUME NEW e \in Emitters, NEW x \in Answer, End(e, x), UNCHANGED <<bundle>>,
             RowOnce(e), x = "ok" => pc[e] = "report",
             x \in {"refused", "duplicate"} => pc[e] \notin {"unlock", "report", "done"}
      PROVE  Promise!Next \/ UNCHANGED Promise!vars
  <2>1. CASE exit[e] # "none"
    <3>1. exit' = exit
      BY <1>1, <2>1 DEF End, TypeOK
    <3> QED
      BY <1>1, <3>1 DEF Promise!vars
  <2>2. CASE exit[e] = "none"
    <3>1. exit' = [exit EXCEPT ![e] = x]
      BY <1>1, <2>2 DEF End, TypeOK
    <3>2. Promise!Tell(e, x)
      BY <1>1, <2>2, <3>1 DEF Promise!Tell, Promise!HasRow, RowOnce
    <3> QED
      BY <3>2 DEF Promise!Next, Promise!Answers, Answer
  <2> QED
    BY <2>1, <2>2
<1>2. ASSUME NEW e \in Emitters PROVE RowOnce(e)
  BY DEF Inductive, RowInv
<1>3. ASSUME NEW e \in Emitters, Compose(e) PROVE Promise!Next \/ UNCHANGED Promise!vars
  <2>1. CASE doc[e].keys
    BY <1>3, <2>1 DEF Compose, Promise!vars
  <2>2. CASE ~doc[e].keys
    BY <1>3, <2>2, <1>1, <1>2 DEF Compose, Answer
  <2> QED
    BY <2>1, <2>2
<1>4. ASSUME NEW e \in Emitters, Observe(e) PROVE Promise!Next \/ UNCHANGED Promise!vars
  BY <1>4 DEF Observe, Goto, Promise!vars
<1>5. ASSUME NEW e \in Emitters, Validate(e) PROVE Promise!Next \/ UNCHANGED Promise!vars
  BY <1>5 DEF Validate, Goto, Promise!vars
<1>6. ASSUME NEW e \in Emitters, RefuseRow(e) PROVE Promise!Next \/ UNCHANGED Promise!vars
  BY <1>6, <1>1, <1>2 DEF RefuseRow, Answer
<1>7. ASSUME NEW e \in Emitters, Lock(e) PROVE Promise!Next \/ UNCHANGED Promise!vars
  BY <1>7 DEF Lock, Goto, Promise!vars
<1>8. ASSUME NEW e \in Emitters, Read(e) PROVE Promise!Next \/ UNCHANGED Promise!vars
  BY <1>8 DEF Read, Goto, Promise!vars
<1>9. ASSUME NEW e \in Emitters, RefuseBundle(e) PROVE Promise!Next \/ UNCHANGED Promise!vars
  BY <1>9, <1>1, <1>2 DEF RefuseBundle, Answer
<1>10. ASSUME NEW e \in Emitters, RefuseDuplicate(e) PROVE Promise!Next \/ UNCHANGED Promise!vars
  BY <1>10, <1>1, <1>2 DEF RefuseDuplicate, Answer
<1>11. ASSUME NEW e \in Emitters, MakeTemp(e) PROVE Promise!Next \/ UNCHANGED Promise!vars
  BY <1>11 DEF MakeTemp, Goto, Promise!vars
<1>11a. ASSUME NEW e \in Emitters, Write(e) PROVE Promise!Next \/ UNCHANGED Promise!vars
  BY <1>11a DEF Write, Goto, Promise!vars
<1>11b. ASSUME NEW e \in Emitters, WriteFails(e) PROVE Promise!Next \/ UNCHANGED Promise!vars
  BY <1>11b DEF WriteFails, Goto, Promise!vars
<1>11c. ASSUME NEW e \in Emitters, Unwind(e) PROVE Promise!Next \/ UNCHANGED Promise!vars
  BY <1>11c, <1>1, <1>2 DEF Unwind, Answer
<1>12. ASSUME NEW e \in Emitters, Replace(e) PROVE Promise!Next \/ UNCHANGED Promise!vars
  <2>1. loaded[e] = rows /\ AllValid(rows) /\ shape # "unreadable" /\ ~Duplicate(e)
    BY <1>12 DEF Replace, Inductive, LoadedInv
  <2>2. RowOf(e) \in Row /\ RowOf(e).by = e /\ RowOf(e).id = doc[e].id /\ RowOf(e).valid
    BY <1>12, RowType DEF Replace, Inductive, ValidInv, Python, RowOf
  <2>3. ~Promise!HasRow(e) /\ exit[e] \in {"none", "killed"}
    BY <1>12, <1>2 DEF Replace, RowOnce, Promise!HasRow, Inductive, ExitInv, TypeOK
  <2>4. ~Promise!Held(doc[e].id)
    BY <2>1 DEF Duplicate, Holds, Promise!Held
  <2>5. Promise!Sound
    BY <2>1 DEF Promise!Sound, AllValid
  <2>6. rows' = Append(rows, RowOf(e)) /\ (shape # "unreadable")' = (shape # "unreadable") /\ exit' = exit
    BY <1>12, <2>1 DEF Replace
  <2>7. Promise!Put(e)
    BY <2>2, <2>3, <2>4, <2>5, <2>6 DEF Promise!Put
  <2> QED
    BY <2>7 DEF Promise!Next
<1>13. ASSUME NEW e \in Emitters, Unlock(e) PROVE Promise!Next \/ UNCHANGED Promise!vars
  BY <1>13 DEF Unlock, Goto, Promise!vars
<1>14. ASSUME NEW e \in Emitters, Report(e) PROVE Promise!Next \/ UNCHANGED Promise!vars
  BY <1>14, <1>1, <1>2 DEF Report, Answer
<1>15. ASSUME NEW e \in Emitters, Raise(e) PROVE Promise!Next \/ UNCHANGED Promise!vars
  BY <1>15, <1>1, <1>2 DEF Raise, Answer
<1>16. ASSUME NEW e \in Emitters, Die(e) PROVE Promise!Next \/ UNCHANGED Promise!vars
  BY <1>16, <1>1, <1>2 DEF Die, Answer
<1>17. ASSUME NEW e \in Emitters, Orphan(e) PROVE Promise!Next \/ UNCHANGED Promise!vars
  <2>1. Promise!Tell(e, "killed")
    BY <1>17 DEF Orphan, Promise!Tell
  <2> QED
    BY <2>1 DEF Promise!Next, Promise!Answers
<1>18. CASE UNCHANGED vars
  BY <1>18 DEF vars, Promise!vars
<1> QED
  BY <1>3, <1>4, <1>5, <1>6, <1>7, <1>8, <1>9, <1>10, <1>11, <1>11a, <1>11b, <1>11c,
     <1>12, <1>13, <1>14, <1>15, <1>16, <1>17, <1>18 DEF Next, Work

\* ImplementsBundle of EvidenceBundle: every behaviour of the emitters, with
\* their lock, refusals, failures and deaths, is one of AppendOnlyBundle.
THEOREM PromiseKept == Spec => ImplementsBundle
  BY InitRefines, StepRefines, TypeCorrect, InductiveCorrect, PTL
     DEF Spec, ImplementsBundle, Promise!Spec
=============================================================================
