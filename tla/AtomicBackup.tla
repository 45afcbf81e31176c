---------------------------- MODULE AtomicBackup ----------------------------
(***************************************************************************)
(* What bin/teamkb-backup.sh promises its operator, without the steps it   *)
(* takes: a kept archive holds the whole brain as it was at one instant,   *)
(* archives are kept in the order of their stamps, and retention never     *)
(* gives up the newest kept archive.  TeamkbBackup implements it.          *)
(***************************************************************************)
EXTENDS Integers

CONSTANT Contents    \* every content the brain can have

VARIABLES
    brain,    \* what is under ~/.teamkb now
    kept      \* archives that proved to restore: [at |-> stamp, brain |-> content]

vars == <<brain, kept>>

Init == /\ brain \in Contents
        /\ kept = {}

\* Somebody writes to the brain.
Change == /\ brain' \in Contents
          /\ UNCHANGED kept

\* One archive, newer than all the others, of the brain as it is now.
Keep == /\ \E k \in kept' : /\ kept' = kept \cup {k}
                            /\ k.brain = brain
                            /\ \A o \in kept : o.at < k.at
        /\ UNCHANGED brain

\* Old archives go; the newest one stays.
Retire == /\ kept' \subseteq kept
          /\ \E k \in kept' : \A o \in kept : o.at <= k.at
          /\ UNCHANGED brain

Next == Change \/ Keep \/ Retire

Spec == Init /\ [][Next]_vars
=============================================================================
