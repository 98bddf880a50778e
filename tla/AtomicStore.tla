----------------------------- MODULE AtomicStore -----------------------------
(***************************************************************************)
(* What the persistence layer promises its callers: every update call      *)
(* either takes effect on all the collections it saves, at one instant, on *)
(* top of every update that took effect before it, or has no effect.       *)
(* The rows of a collection are abstracted to the set of calls they        *)
(* reflect.                                                                *)
(***************************************************************************)
CONSTANTS
    Call,        \* the update calls made during a run
    Collection,  \* control_plane_records.collection values
    Saves        \* the collections each call writes (changedCollections)

VARIABLES
    rows,        \* collection -> the calls whose changes its rows contain
    outcome      \* call -> what became of it

vars == <<rows, outcome>>

Init ==
    /\ rows = [k \in Collection |-> {}]
    /\ outcome = [c \in Call |-> "open"]

\* The call takes effect, adding to what is there.
Commit(c) ==
    /\ outcome[c] = "open"
    /\ outcome' = [outcome EXCEPT ![c] = "saved"]
    /\ rows' = [k \in Collection |->
                   IF k \in Saves[c] THEN rows[k] \union {c} ELSE rows[k]]

\* Calls end without effect: refused, nothing to change, given up, or their
\* process died.
Drop(D) ==
    /\ D # {}
    /\ \A c \in D : outcome[c] = "open"
    /\ outcome' = [c \in Call |-> IF c \in D THEN "dropped" ELSE outcome[c]]
    /\ UNCHANGED rows

Next ==
    \/ \E c \in Call : Commit(c)
    \/ \E D \in SUBSET Call : Drop(D)

Spec == Init /\ [][Next]_vars
=============================================================================
