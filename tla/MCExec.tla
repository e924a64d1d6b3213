------------------------------- MODULE MCExec -------------------------------
(* One synchronous operation and three spawns: see the README for the bounds. *)
EXTENDS Exec

\* Any number of processes, none, and fewer than there are spawns.
SpawnBounds == {-1, 0, 2}
=============================================================================
