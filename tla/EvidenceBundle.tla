--------------------------- MODULE EvidenceBundle ---------------------------
(***************************************************************************)
(* `<gate> --json | emit-evidence.sh --append-to BUNDLE' and the           *)
(* bundle-append.py it pipes the row to: emitters that share one bundle,   *)
(* its lock file, the observability events, and the deaths of either       *)
(* process of an emitter.  A retry is another emitter with the same id.    *)
(***************************************************************************)
EXTENDS Integers, Sequences

CONSTANTS
    Emitters,     \* runs of emit-evidence.sh --append-to
    Ids,          \* gate ids
    Docs,         \* gate-result documents on their standard input
    FoundRows,    \* rows of a bundle that is there already
    Found,        \* who wrote those
    FoundBundles, \* such bundles: sequences of these rows
    Nobody        \* holder of a free lock

Decisions == {"pass", "fail", "advisory", "error"}
Verdicts == Decisions \cup {"unknown"}

\* keys: the required keys, and a sha256: input hash; severity: an
\* advisory_severity; kernel: the fields passed through satisfy the schema.
Doc == [id : Ids, verdict : Verdicts, keys : BOOLEAN, severity : BOOLEAN, kernel : BOOLEAN]
Row == [id : Ids, decision : Decisions, valid : BOOLEAN, by : Emitters \cup {Found}]

ASSUME DocAssumption == Docs \subseteq Doc
ASSUME FoundAssumption == /\ Found \notin Emitters
                          /\ Nobody \notin Emitters
                          /\ FoundRows \subseteq {r \in Row : r.by = Found}
                          /\ FoundBundles \subseteq Seq(FoundRows)

VARIABLES
    doc,          \* the document each emitter is given
    pc,           \* where it is: in the shell up to "events", in Python after
    exit,         \* what its caller was told
    holder,       \* who holds BUNDLE.lock
    shape,        \* BUNDLE: "absent", an "array", or "unreadable"
    rows,         \* its rows
    loaded,       \* the rows an emitter read
    temps,        \* emitters whose temporary file exists
    events,       \* gate.decision.emitted events on standard error
    slain,        \* history: emitters whose Python process was killed
    unhandled     \* history: emitters with a temporary file that an exception met
                  \* where no handler removes it

bundle == <<shape, rows>>
history == <<slain, unhandled>>
vars == <<doc, pc, exit, holder, bundle, loaded, temps, events, history>>

Shell == {"start", "events"}
Python == {"append", "lock", "read", "check", "made", "write", "unwind", "unlock", "report"}
InLock == {"read", "check", "made", "write", "unwind", "unlock"}
Answer == {"ok", "refused", "duplicate", "raised", "killed"}
Event == [decision : Decisions, by : Emitters]

TypeOK ==
    /\ doc \in [Emitters -> Docs]
    /\ pc \in [Emitters -> Shell \cup Python \cup {"done"}]
    /\ exit \in [Emitters -> Answer \cup {"none"}]
    /\ holder \in Emitters \cup {Nobody}
    /\ shape \in {"absent", "array", "unreadable"}
    /\ rows \in Seq(Row)
    /\ loaded \in [Emitters -> Seq(Row)]
    /\ temps \subseteq Emitters
    /\ events \subseteq Event
    /\ slain \subseteq Emitters
    /\ unhandled \subseteq Emitters

Init ==
    /\ doc \in [Emitters -> Docs]
    /\ pc = [e \in Emitters |-> "start"]
    /\ exit = [e \in Emitters |-> "none"]
    /\ holder = Nobody
    /\ shape \in {"absent", "array", "unreadable"}
    /\ IF shape = "array" THEN rows \in FoundBundles ELSE rows = <<>>
    /\ loaded = [e \in Emitters |-> <<>>]
    /\ temps = {}
    /\ events = {}
    /\ slain = {}
    /\ unhandled = {}

-----------------------------------------------------------------------------
\* The row and the event of a document.

Decision(d) == IF d.verdict = "unknown" THEN "error" ELSE d.verdict

\* A mistake: the verdict goes into the row as it is.
RowOfVerdict(e) == [id |-> doc[e].id, decision |-> doc[e].verdict, by |-> e,
                    valid |-> doc[e].kernel /\ (doc[e].verdict = "advisory" => doc[e].severity)]

\* The kernel wants a severity with an advisory; reasons and coverage are
\* synthesised where the document has none, and the subject repeats id and hash.
RowOf(e) == [id |-> doc[e].id, decision |-> Decision(doc[e]), by |-> e,
             valid |-> doc[e].kernel /\ (Decision(doc[e]) = "advisory" => doc[e].severity)]

EventOf(e) == [by |-> e,
               decision |-> IF Decision(doc[e]) = "pass" /\ doc[e].severity
                            THEN "advisory" ELSE Decision(doc[e])]

AllValid(s) == \A k \in DOMAIN s : s[k].valid
Holds(s, id) == \E k \in DOMAIN s : s[k].id = id

-----------------------------------------------------------------------------
Goto(e, place) == pc' = [pc EXCEPT ![e] = place]

\* The process ends; the shell passes its status on if it is still there.
End(e, answer) ==
    /\ Goto(e, "done")
    /\ exit' = [exit EXCEPT ![e] = IF @ = "none" THEN answer ELSE @]

\* Closing the lock file, or the end of the process, gives the lock back.
Release(e) == holder' = IF holder = e THEN Nobody ELSE holder

\* The shell: the Statement is composed, or the document is malformed.
Compose(e) ==
    /\ pc[e] = "start"
    /\ IF doc[e].keys THEN Goto(e, "events") /\ UNCHANGED exit
                      ELSE End(e, "refused")
    /\ UNCHANGED <<doc, holder, bundle, loaded, temps, events, history>>

\* A collector may be configured or not.
Observe(e) ==
    /\ pc[e] = "events"
    /\ events' \in {events, events \cup {EventOf(e)}}
    /\ Goto(e, "append")
    /\ UNCHANGED <<doc, exit, holder, bundle, loaded, temps, history>>

Validate(e) ==
    /\ pc[e] = "append"
    /\ RowOf(e).valid
    /\ Goto(e, "lock")
    /\ UNCHANGED <<doc, exit, holder, bundle, loaded, temps, events, history>>

\* The row is not valid, or the kernel snapshot cannot be used.
RefuseRow(e) ==
    /\ pc[e] = "append"
    /\ End(e, "refused")
    /\ UNCHANGED <<doc, holder, bundle, loaded, temps, events, history>>

\* A mistake: a shared lock.
LockShared(e) ==
    /\ pc[e] = "lock"
    /\ holder' = e
    /\ Goto(e, "read")
    /\ UNCHANGED <<doc, exit, bundle, loaded, temps, events, history>>

Lock(e) ==
    /\ pc[e] = "lock"
    /\ holder = Nobody
    /\ holder' = e
    /\ Goto(e, "read")
    /\ UNCHANGED <<doc, exit, bundle, loaded, temps, events, history>>

\* A mistake: only the new row is validated.
ReadTrusting(e) ==
    /\ pc[e] = "read"
    /\ shape # "unreadable"
    /\ loaded' = [loaded EXCEPT ![e] = rows]
    /\ Goto(e, "check")
    /\ UNCHANGED <<doc, exit, holder, bundle, temps, events, history>>

Read(e) ==
    /\ pc[e] = "read"
    /\ shape # "unreadable"
    /\ AllValid(rows)
    /\ loaded' = [loaded EXCEPT ![e] = rows]
    /\ Goto(e, "check")
    /\ UNCHANGED <<doc, exit, holder, bundle, temps, events, history>>

\* The bundle is not an array of valid rows, or it cannot be read this time.
RefuseBundle(e) ==
    /\ pc[e] = "read"
    /\ shape # "absent"
    /\ End(e, "refused")
    /\ Release(e)
    /\ UNCHANGED <<doc, bundle, loaded, temps, events, history>>

\* A mistake: only the last row's id is looked at.
LastHolds(e) == loaded[e] # <<>> /\ loaded[e][Len(loaded[e])].id = doc[e].id

\* A mistake: the new row is appended before the ids are looked at.
AppendedHolds(e) == Holds(Append(loaded[e], RowOf(e)), doc[e].id)

Duplicate(e) == Holds(loaded[e], doc[e].id)

RefuseDuplicate(e) ==
    /\ pc[e] = "check"
    /\ Duplicate(e)
    /\ End(e, "duplicate")
    /\ Release(e)
    /\ UNCHANGED <<doc, bundle, loaded, temps, events, history>>

\* mkstemp, one line before the `try' whose handler removes the file.
MakeTemp(e) ==
    /\ pc[e] = "check"
    /\ ~Duplicate(e)
    /\ temps' = temps \cup {e}
    /\ Goto(e, "made")
    /\ UNCHANGED <<doc, exit, holder, bundle, loaded, events, history>>

\* In the `try': the rows and the new one are written and synced.
Write(e) ==
    /\ pc[e] = "made"
    /\ Goto(e, "write")
    /\ UNCHANGED <<doc, exit, holder, bundle, loaded, temps, events, history>>

\* An exception in the `try', an interruption among them.
WriteFails(e) ==
    /\ pc[e] = "write"
    /\ Goto(e, "unwind")
    /\ UNCHANGED <<doc, exit, holder, bundle, loaded, temps, events, history>>

\* A mistake: the exception goes on and the temporary file stays.
UnwindLeaves(e) ==
    /\ pc[e] = "unwind"
    /\ End(e, "raised")
    /\ Release(e)
    /\ UNCHANGED <<doc, bundle, loaded, temps, events, history>>

\* The handler removes the temporary file and lets the exception go on.
Unwind(e) ==
    /\ pc[e] = "unwind"
    /\ temps' = temps \ {e}
    /\ End(e, "raised")
    /\ Release(e)
    /\ UNCHANGED <<doc, bundle, loaded, events, history>>

Replace(e) ==
    /\ pc[e] = "write"
    /\ shape' = "array"
    /\ rows' = Append(loaded[e], RowOf(e))
    /\ temps' = temps \ {e}
    /\ Goto(e, "unlock")
    /\ UNCHANGED <<doc, exit, holder, loaded, events, history>>

Unlock(e) ==
    /\ pc[e] = "unlock"
    /\ Release(e)
    /\ Goto(e, "report")
    /\ UNCHANGED <<doc, exit, bundle, loaded, temps, events, history>>

Report(e) ==
    /\ pc[e] = "report"
    /\ End(e, "ok")
    /\ UNCHANGED <<doc, holder, bundle, loaded, temps, events, history>>

\* A mistake: an exception leaves the lock taken.
RaiseLocked(e) ==
    /\ pc[e] \notin {"write", "done"}
    /\ End(e, "raised")
    /\ unhandled' = IF pc[e] \in {"made", "unwind"} THEN unhandled \cup {e} ELSE unhandled
    /\ UNCHANGED <<doc, holder, bundle, loaded, temps, events, slain>>

\* A command or a system call fails, or the user interrupts, where nothing handles
\* it: between mkstemp and the `try', and in the handler, the file stays.
Raise(e) ==
    /\ pc[e] \notin {"write", "done"}
    /\ End(e, "raised")
    /\ Release(e)
    /\ unhandled' = IF pc[e] \in {"made", "unwind"} THEN unhandled \cup {e} ELSE unhandled
    /\ UNCHANGED <<doc, bundle, loaded, temps, events, slain>>

\* The Python process is killed.
Die(e) ==
    /\ pc[e] \in Python
    /\ End(e, "killed")
    /\ Release(e)
    /\ slain' = slain \cup {e}
    /\ UNCHANGED <<doc, bundle, loaded, temps, events, unhandled>>

\* The shell is killed; the Python process it may have started goes on.
Orphan(e) ==
    /\ exit[e] = "none"
    /\ exit' = [exit EXCEPT ![e] = "killed"]
    /\ pc' = [pc EXCEPT ![e] = IF @ \in Shell THEN "done" ELSE @]
    /\ UNCHANGED <<doc, holder, bundle, loaded, temps, events, history>>

Work(e) ==
    \/ Compose(e) \/ Observe(e) \/ Validate(e) \/ RefuseRow(e) \/ Lock(e)
    \/ Read(e) \/ RefuseBundle(e) \/ RefuseDuplicate(e) \/ MakeTemp(e) \/ Write(e)
    \/ Replace(e) \/ Unwind(e) \/ Unlock(e) \/ Report(e)

Next == \E e \in Emitters : Work(e) \/ WriteFails(e) \/ Raise(e) \/ Die(e) \/ Orphan(e)

Spec == Init /\ [][Next]_vars

\* Commands and system calls return, and flock wakes a waiter.
FairSpec == Spec /\ \A e \in Emitters : WF_vars(Work(e))

-----------------------------------------------------------------------------
\* The inductive invariant, in parts.

\* Between flock and the close of the lock file, the lock is the emitter's.
LockInv == \A e \in Emitters : pc[e] \in InLock <=> holder = e

\* What was read is what the bundle holds until it is replaced.
LoadedInv == \A e \in Emitters :
    pc[e] \in {"check", "made", "write"} => /\ loaded[e] = rows
                                            /\ AllValid(rows)
                                            /\ shape # "unreadable"
                                            /\ pc[e] # "check" => ~Duplicate(e)

ValidInv == \A e \in Emitters : pc[e] \in Python \ {"append"} => RowOf(e).valid

\* A row is in the bundle once, from the rename on, and for an emitter
\* that was not refused.
RowOnce(e) ==
    /\ (\E k \in DOMAIN rows : rows[k].by = e) =>
          /\ pc[e] \in {"unlock", "report", "done"}
          /\ exit[e] \notin {"refused", "duplicate"}
    /\ \A k \in DOMAIN rows : rows[k].by = e => rows[k] = RowOf(e)
    /\ \A j, k \in DOMAIN rows : rows[j].by = e /\ rows[k].by = e => j = k
    /\ pc[e] \in {"unlock", "report"} \/ exit[e] = "ok" => \E k \in DOMAIN rows : rows[k].by = e
RowInv == \A e \in Emitters : RowOnce(e)

ExitInv == \A e \in Emitters : exit[e] \notin {"none", "killed"} => pc[e] = "done"

TempInv == \A e \in Emitters :
    e \in temps => pc[e] \in {"made", "write", "unwind"} \/ e \in slain \cup unhandled

\* An event tells what the document of its emitter says.
EventInv == \A v \in events : v = EventOf(v.by) /\ pc[v.by] # "start"

Inductive == LockInv /\ LoadedInv /\ ValidInv /\ RowInv /\ ExitInv /\ TempInv /\ EventInv

-----------------------------------------------------------------------------
\* An emitter that exits 0 has its row in the bundle, once, and one that was
\* refused has none, whatever other emitters did meanwhile.
AnswersAreTrue == \A e \in Emitters :
    LET mine == {k \in DOMAIN rows : rows[k].by = e}
    IN  /\ exit[e] = "ok" => \E k \in mine : mine = {k}
        /\ exit[e] \in {"refused", "duplicate"} => mine = {}

\* No appended row has the id of a row before it: a gate that is run again
\* after its emitter was killed does not get a second row.
UniqueIds == \A j \in DOMAIN rows :
    rows[j].by # Found => \A k \in 1 .. j - 1 : rows[k].id # rows[j].id

\* An emitter that was told its id is taken can find the row that took it:
\* the row is never lost to another emitter's rename.
DuplicateIsReal == \A e \in Emitters :
    exit[e] = "duplicate" => \E k \in DOMAIN rows : rows[k].by # e /\ rows[k].id = doc[e].id

\* An emitter that ended leaves its temporary file behind only if its Python process
\* was killed, or an exception met it between mkstemp and the `try', or the handler
\* itself failed: not after a refusal, a rename, or a write that failed.
TempsAreCleared == \A e \in temps : pc[e] = "done" => e \in slain \cup unhandled

\* The emitters and the lock keep the promise of AppendOnlyBundle.
Promise == INSTANCE AppendOnlyBundle WITH
    Rows <- Row, readable <- shape # "unreadable", log <- rows, answer <- exit
ImplementsBundle == Promise!Spec

\* Every emitter ends: the lock, which is waited for without a timeout, comes
\* back from refusals, failures and kills.
EmittersEnd == \A e \in Emitters : <>(pc[e] = "done")
=============================================================================
