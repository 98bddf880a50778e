------------------------------ MODULE WorkLease ------------------------------
(* What claiming promises: a task is worked on by one surface at a time, and *)
(* passes from one to another only through a state in which nobody has it.   *)
CONSTANTS Task, Surface, Free

VARIABLE holder  \* task -> the surface working on it, or Free

TypeOK == holder \in [Task -> Surface \union {Free}]

Init == holder = [t \in Task |-> Free]

Acquire(t, s) ==
    /\ holder[t] = Free
    /\ holder' = [holder EXCEPT ![t] = s]

Release(t) ==
    /\ holder[t] # Free
    /\ holder' = [holder EXCEPT ![t] = Free]

Next == \E t \in Task : Release(t) \/ \E s \in Surface : Acquire(t, s)

Spec == Init /\ [][Next]_holder
=============================================================================
