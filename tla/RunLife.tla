-------------------------------- MODULE RunLife --------------------------------
(***************************************************************************)
(* What the readers of a run may rely on, whatever its runner, its child   *)
(* and the operators who stop it do with its files: the abstract run that  *)
(* RunFiles implements and whose moves AgentThreads is built on.           *)
(***************************************************************************)
EXTENDS ThreadRecords

VARIABLE life   \* the run as it is read, with its child

Init == life = NoLife

Next ==
    \/ \E x \in Moves(life) : life' = x
    \/ life' = Stopped(life)
    \/ life.given /\ \E x \in Retired(life) : life' = x

Spec == Init /\ [][Next]_life
=============================================================================
