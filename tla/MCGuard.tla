------------------------------- MODULE MCGuard -------------------------------
(***************************************************************************)
(* The constants are in MCGuard.cfg: two files and a unit, so that an      *)
(* operation waits for none, one or both files, or (Sync) for the unit,    *)
(* and three operations, so that an event's list holds several guards.     *)
(* No symmetry: the run checks a liveness property.                        *)
(***************************************************************************)
EXTENDS Guard
=============================================================================
