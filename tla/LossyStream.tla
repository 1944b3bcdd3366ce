----------------------------- MODULE LossyStream -----------------------------
(***************************************************************************)
(* What a node is promised about the events of one worker: they reach it   *)
(* in the order they were emitted, each at most once; those that matter    *)
(* (NotificationDelivery::Lossless) are never passed over, and every run   *)
(* of passed-over ones is announced with its exact length before the next  *)
(* event.  A worker that dies takes along what it had not written yet.     *)
(*                                                                         *)
(* Events are the numbers 1, 2, ... in the order of their emission.        *)
(***************************************************************************)
EXTENDS Naturals

VARIABLES
  sent,      (* events emitted so far                                      *)
  lossless,  (* those of them that must not be passed over                 *)
  told,      (* events delivered or announced as skipped so far            *)
  received   (* events delivered                                           *)

vars == <<sent, lossless, told, received>>

Init == sent = 0 /\ lossless = {} /\ told = 0 /\ received = {}

Emit ==
  /\ sent' = sent + 1
  /\ lossless' = lossless \/ lossless' = lossless \cup {sent'}
  /\ UNCHANGED <<told, received>>

Deliver ==
  /\ told < sent
  /\ told' = told + 1
  /\ received' = received \cup {told'}
  /\ UNCHANGED <<sent, lossless>>

Skip ==
  /\ told' \in (told + 1) .. sent
  /\ lossless \cap (told + 1) .. told' = {}
  /\ UNCHANGED <<sent, lossless, received>>

Die ==
  /\ sent' \in told .. sent
  /\ lossless' = lossless \cap 1 .. sent'
  /\ UNCHANGED <<told, received>>

Next == Emit \/ Deliver \/ Skip \/ Die

Spec == Init /\ [][Next]_vars

(* Nothing that matters is missing from what the node received: whatever   *)
(* the stream is past and must not lose was delivered.                     *)
NothingLost == lossless \cap 1 .. told \subseteq received
==============================================================================
