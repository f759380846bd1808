------------------------------- MODULE HitlRow -------------------------------
(***************************************************************************)
(* One row of the hitl_interactions table and the conditional UPDATEs the  *)
(* SQLite HITL repository runs on it.  Every update of a row is a          *)
(* compare-and-set on its status and its version, so a change is described *)
(* by a predicate on the row (what the WHERE clause and the checks before  *)
(* it demand) and by the new row.                                          *)
(*                                                                         *)
(* The owner column is left out: every query of the repository is scoped   *)
(* by owner_id and a foreign owner is answered like a missing row, so one  *)
(* owner's rows are all there is to see.  The thread, the run, the subject *)
(* id and the response schema never change after the INSERT; the modules   *)
(* that need one of them keep it as a constant function of the row's id.   *)
(***************************************************************************)
EXTENDS Naturals

CONSTANTS
  Payloads,     \* payload hashes: what a card showed to the user
  Answers,      \* responses with their resolution (confirm, edit, ...)
  NoAnswer,     \* response and resolution of a row nobody resolved
  NoPayload     \* payload hash of a row that does not exist

ASSUME RowAssumption == NoAnswer \notin Answers /\ NoPayload \notin Payloads

\* InteractionStatus; a row that was never inserted is "absent".
Terminal == {"resolved", "expired", "cancelled"}
Status == {"absent", "pending"} \cup Terminal

\* A deadline is optional; instants start at 1 so that 0 can stand for None.
NoDeadline == 0

Row == [ status    : Status,
         version   : Nat,
         subject   : Nat,                       \* subject_version
         payload   : Payloads \cup {NoPayload}, \* payload_hash
         deadline  : Nat,
         answer    : Answers \cup {NoAnswer},   \* response and resolution
         decidedAt : Nat ]                      \* resolved_at, 0 when null

NoRow == [ status |-> "absent", version |-> 0, subject |-> 0,
           payload |-> NoPayload, deadline |-> NoDeadline,
           answer |-> NoAnswer, decidedAt |-> 0 ]

\* The row INSERTed for a new interaction: pending, version 1.
Created(subject, payload, deadline) ==
  [ status |-> "pending", version |-> 1, subject |-> subject,
    payload |-> payload, deadline |-> deadline,
    answer |-> NoAnswer, decidedAt |-> 0 ]

\* Variant of Due that lets the instant of the deadline pass.
DueAfter(r, t) == r.deadline # NoDeadline /\ r.deadline < t

\* The deadline test of resolve and of expire_due, at clock reading t.
Due(r, t) == r.deadline # NoDeadline /\ r.deadline <= t

\* What resolve checks of a row whose deadline has not passed.
Answerable(r, version, subject, payload) ==
  /\ r.status = "pending"
  /\ r.version = version
  /\ r.subject = subject
  /\ r.payload = payload

\* The row after resolve stored an answer.
Resolved(r, answer, t) ==
  [r EXCEPT !.status = "resolved", !.version = @ + 1,
            !.answer = answer, !.decidedAt = t]

\* Variant of Closable that trusts the version alone.
ClosableByVersion(r, version) == r.version = version

\* WHERE clause of transition, the compare-and-set of expire_due and cancel.
Closable(r, version) == r.status = "pending" /\ r.version = version

\* The row after transition, or after resolve found the deadline passed.
Closed(r, status, t) ==
  [r EXCEPT !.status = status, !.version = @ + 1, !.decidedAt = t]
=============================================================================
