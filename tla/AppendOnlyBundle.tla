-------------------------- MODULE AppendOnlyBundle --------------------------
(***************************************************************************)
(* What `emit-evidence --append-to' promises the reader of an Evidence     *)
(* Bundle and the gate that appends to it: the bundle only grows, by one   *)
(* whole valid row at a time, no row takes an id that is taken, and a gate *)
(* that is told of its row can find it there.                              *)
(***************************************************************************)
EXTENDS Sequences

CONSTANTS
    Emitters,    \* gates that append a row
    Rows         \* rows: their id, whether the kernel accepts them, who emitted them

VARIABLES
    readable,    \* the bundle is a JSON array
    log,         \* its rows
    answer       \* what each emitter has been told

vars == <<readable, log, answer>>

Held(id) == \E k \in DOMAIN log : log[k].id = id
HasRow(e) == \E k \in DOMAIN log : log[k].by = e
Sound == readable /\ \A k \in DOMAIN log : log[k].valid

Init == answer = [e \in Emitters |-> "none"]

Put(e) == \E r \in Rows :
            /\ r.by = e
            /\ r.valid
            /\ Sound
            /\ ~HasRow(e)
            /\ ~Held(r.id)
            /\ answer[e] \in {"none", "killed"}
            /\ log' = Append(log, r)
            /\ UNCHANGED <<readable, answer>>

Tell(e, a) == /\ answer[e] = "none"
              /\ a = "ok" => HasRow(e)
              /\ a \in {"refused", "duplicate"} => ~HasRow(e)
              /\ answer' = [answer EXCEPT ![e] = a]
              /\ UNCHANGED <<readable, log>>

Answers == {"ok", "refused", "duplicate", "raised", "killed"}

Next == \E e \in Emitters : Put(e) \/ \E a \in Answers : Tell(e, a)

Spec == Init /\ [][Next]_vars
=============================================================================
