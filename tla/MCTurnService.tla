---------------------------- MODULE MCTurnService ----------------------------
(* Small instances of TurnService for TLC.                                  *)
EXTENDS TurnServiceInv, TLC

(* Every turn goes to the same conversation when there is only one.         *)
MCConversationOf == [t \in Turns |-> CHOOSE c \in Conversations : TRUE]

(* Sound for the safety runs: no definition singles out a turn or request.  *)
MCSymmetry == Permutations(Turns) \cup Permutations(Requests)
===============================================================================
