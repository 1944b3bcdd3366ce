---------------------------- MODULE WorkerLinkInv ----------------------------
(***************************************************************************)
(* The inductive invariant of WorkerLink: between what the worker task was *)
(* told and what the reader took from the pipe, the queue and the reader   *)
(* account for every event exactly once, and only events that may be       *)
(* skipped are accounted for by a marker.                                  *)
(***************************************************************************)
EXTENDS WorkerLink

(* The events an entry of the queue accounts for.                          *)
Size(e) == IF e.op = "message" THEN 1 ELSE IF e.op = "lagged" THEN e.skipped ELSE 0

(* Entries account for consecutive events, starting behind from.           *)
Numbered(q, from) ==
  \A i \in 1 .. Len(q) : q[i].n = (IF i = 1 THEN from ELSE q[i - 1].n) + Size(q[i])

LastOf(q, from) == IF Len(q) = 0 THEN from ELSE q[Len(q)].n

(* A marker announces at least one event, and only such as may be skipped. *)
MarkersSound(q) ==
  \A i \in 1 .. Len(q) : q[i].op = "lagged" =>
    /\ q[i].skipped > 0
    /\ lossless \cap (q[i].n - q[i].skipped + 1) .. q[i].n = {}

EntriesRead(q) == \A i \in 1 .. Len(q) : q[i].n <= read

Held == IF holding = "event" THEN 1 ELSE 0

ReaderInv ==
  /\ reader \in {"mark", "send"} <=> holding # "none"
  /\ reader = "mark" => skipped > 0
  /\ reader = "send" => skipped = 0

(* While the reader goes on, what is behind the queue was skipped, or is   *)
(* the event in its hands.                                                 *)
ReaderAccounts ==
  Open /\ reader # "done" =>
    LET last == LastOf(queue, told) IN
      /\ last + skipped + Held = read
      /\ lossless \cap (last + 1) .. (last + skipped) = {}

IInv ==
  /\ TypeOK
  /\ worker = "request" => inbox # <<>>
  /\ told <= read
  /\ Numbered(queue, told)
  /\ MarkersSound(queue)
  /\ EntriesRead(queue)
  /\ ReaderInv
  /\ ReaderAccounts
==============================================================================
