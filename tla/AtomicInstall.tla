---------------------------- MODULE AtomicInstall ----------------------------
(***************************************************************************)
(* What bin/install-teamkb-compiler.py promises whoever runs the compiler: *)
(* a commit-addressed bundle comes into being whole and is never written   *)
(* again, `current' moves in one step from release to release, and         *)
(* `previous' is a release that was current.                               *)
(***************************************************************************)
CONSTANTS
    Revs,        \* compiler commits
    Whole,       \* the bundle that belongs to each commit
    Nothing,     \* no such directory
    None,        \* no such link
    Unmanaged    \* `current' is a directory of somebody else's making

VARIABLES
    shelf,       \* releases/<commit>
    spoiled,     \* releases that somebody other than the installer wrote to
    active,      \* what `current' names
    fallback,    \* what `previous' names
    activated    \* every release `current' ever named

vars == <<shelf, spoiled, active, fallback, activated>>

Init == /\ spoiled = {}
        /\ active \in Revs \cup {None, Unmanaged}
        /\ fallback \in activated \cup {None}
        /\ \A r \in activated : shelf[r] # Nothing

Publish(r) == /\ shelf[r] = Nothing
              /\ shelf' = [shelf EXCEPT ![r] = Whole[r]]
              /\ UNCHANGED <<spoiled, active, fallback, activated>>

Spoil(r) == /\ shelf[r] # Nothing
            /\ shelf' = [shelf EXCEPT ![r] = shelf'[r]]
            /\ shelf'[r] # Nothing
            /\ spoiled' = spoiled \cup {r}
            /\ UNCHANGED <<active, fallback, activated>>

Activate(r) == /\ active # Unmanaged
               /\ shelf[r] # Nothing
               /\ active' = r
               /\ activated' = activated \cup {r}
               /\ UNCHANGED <<shelf, spoiled, fallback>>

Remember(r) == /\ r \in activated
               /\ fallback' = r
               /\ UNCHANGED <<shelf, spoiled, active, activated>>

Next == \E r \in Revs : Publish(r) \/ Spoil(r) \/ Activate(r) \/ Remember(r)

Spec == Init /\ [][Next]_vars
=============================================================================
