---------------------------- MODULE MCWorkerLink ----------------------------
(* Instances of WorkerLink for TLC.  A queue of one or two places and a few *)
(* events reach every combination of full, lagging and closed that the 128 *)
(* places of the code can.                                                 *)
EXTENDS WorkerLinkInv
==============================================================================
