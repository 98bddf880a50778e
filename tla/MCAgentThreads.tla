---------------------------- MODULE MCAgentThreads ----------------------------
(***************************************************************************)
(* Constants for TLC.                                                      *)
(***************************************************************************)
EXTENDS AgentThreads, TLC

CONSTANTS t1, p1, p2

OneThread   == {t1}
OneRequest  == {p1}
TwoRequests == {p1, p2}

\* A message to a busy thread, like the recovery of an idle one, only looks at it.
Messages == {"start", "send", "recover"}

Interchangeable == Permutations(TwoRequests)
=============================================================================
