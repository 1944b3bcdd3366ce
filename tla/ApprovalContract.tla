--------------------------- MODULE ApprovalContract ---------------------------
(***************************************************************************)
(* What the app server promises about server requests, whatever the        *)
(* interleaving of client, turns and interrupts: a request is opened by a  *)
(* turn that has not ended, is decided once and for all, lets its tool     *)
(* call go ahead only if the decision was to accept, and is never left     *)
(* open by a turn that has ended.                                          *)
(***************************************************************************)
CONSTANTS Turns, Requests, NoTurn, Decisions

VARIABLES status,       (* [Requests -> {"unborn", "open"} \cup Decisions] *)
          owner,        (* the turn that opened a request                  *)
          approved,     (* requests whose tool call was let through        *)
          ended         (* turns that are over                             *)

contractVars == <<status, owner, approved, ended>>

Init ==
  /\ status = [r \in Requests |-> "unborn"]
  /\ owner = [r \in Requests |-> NoTurn]
  /\ approved = {}
  /\ ended = {}

Open(r, t) ==
  /\ status[r] = "unborn"
  /\ t \notin ended
  /\ status' = [status EXCEPT ![r] = "open"]
  /\ owner' = [owner EXCEPT ![r] = t]
  /\ UNCHANGED <<approved, ended>>

Decide(r, d) ==
  /\ status[r] = "open"
  /\ status' = [status EXCEPT ![r] = d]
  /\ UNCHANGED <<owner, approved, ended>>

(* An interrupt or the end of a turn withdraws several requests at once.   *)
Withdraw(R) ==
  /\ \A r \in R : status[r] = "open"
  /\ status' = [r \in Requests |-> IF r \in R THEN "cancel" ELSE status[r]]
  /\ UNCHANGED <<owner, approved, ended>>

Approve(r) ==
  /\ status[r] = "accept"
  /\ r \notin approved
  /\ owner[r] \notin ended
  /\ approved' = approved \cup {r}
  /\ UNCHANGED <<status, owner, ended>>

End(t) ==
  /\ t \notin ended
  /\ \A r \in Requests : owner[r] = t => status[r] # "open"
  /\ ended' = ended \cup {t}
  /\ UNCHANGED <<status, owner, approved>>

Next ==
  \/ \E r \in Requests, t \in Turns : Open(r, t)
  \/ \E r \in Requests, d \in Decisions : Decide(r, d)
  \/ \E R \in SUBSET Requests : Withdraw(R)
  \/ \E r \in Requests : Approve(r)
  \/ \E t \in Turns : End(t)

Spec == Init /\ [][Next]_contractVars
===============================================================================
