-------------------------- MODULE MCWorkerFleet --------------------------
(* Instances of WorkerFleet for TLC.                                       *)
EXTENDS WorkerFleet
==========================================================================
