--------------------------- MODULE MCWorkerManager ---------------------------
(* Small instances of WorkerManager for TLC.                                *)
EXTENDS WorkerManagerInv, TLC

(* All callers share one worker when there is only one scope.               *)
MCScopeOf == [s \in Callers |-> CHOOSE k \in Scopes : TRUE]

MCSymmetry == Permutations(Workers) \cup Permutations(Callers)
===============================================================================
