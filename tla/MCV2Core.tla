------------------------------- MODULE MCV2Core -------------------------------
(***************************************************************************)
(* Constants for TLC.                                                      *)
(***************************************************************************)
EXTENDS V2Core, TLC

CONSTANTS a, b, r1, x1, p1, p2

TwoTasks     == {a, b}
TwoProcesses == {p1, p2}

\* Blocking a task is left out: it leads back to ready, or to canceled.
Targets == {"in_progress", "review", "done", "canceled"}

Interchangeable == Permutations(TwoProcesses)
=============================================================================
