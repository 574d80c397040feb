----------------------------- MODULE OutboxRow -----------------------------
(***************************************************************************)
(* One row of the `outbox` table and the statements OutboxRepository runs  *)
(* on it (storage/repositories.py).  Every operator below is one UPDATE:   *)
(* none of them looks at the state the row is in, because the code's WHERE *)
(* clause names the id alone; the two that do look (Takeable, Withdrawable)*)
(* are the guards of the statements that have one.                         *)
(*                                                                         *)
(* Clock columns are kept as what a reader of them can tell apart:         *)
(*   due      next_attempt_at <= now                                       *)
(*   lease    NULL, in the future ("held"), or in the past ("lapsed")      *)
(*   marked   send_started_at IS NOT NULL                                  *)
(*   overdue  expires_at <= now                                            *)
(* payload is "full" (can be sent), "stub" (ids only: a job that records a *)
(* refusal) or "cleared" ('{}').  last is what the source_key of a part    *)
(* says: the row of the last part of the same message.                     *)
(*                                                                         *)
(* An operator called Bad... is the mistake its neighbour could have been. *)
(* Nothing uses it: the properties are tried against it, to see that they  *)
(* would notice.                                                           *)
(***************************************************************************)
EXTENDS Naturals

\* The job kinds of routing/delivery.py, grouped by how they are submitted.
\*   max_send      max_to_tg_text, _media, _owner
\*   max_mutation  max_to_tg_edit, _delete
\*   tg_text       tg_to_max_text
\*   tg_media      tg_to_max_media, _contact
\*   tg_mutation   tg_to_max_edit, _delete, _reaction, owner_echo_bind, sweep
MaxKinds == {"max_send", "max_mutation"}
TgKinds  == {"tg_text", "tg_media", "tg_mutation"}
AllKinds == MaxKinds \cup TgKinds

\* CREATING_KINDS: a second attempt puts a second message in the chat.
Creating(k) == k \in {"max_send", "tg_text", "tg_media"}

Direction(k) == IF k \in MaxKinds THEN "max_to_tg" ELSE "tg_to_max"

\* How the router submits the kind: submit_in_order, submit_in_kind_order, submit.
Barrier(k) == CASE k \in MaxKinds  -> "direction"
                [] k = "tg_text"   -> "kind"
                [] OTHER           -> "none"

States == {"absent", "pending", "inflight", "done", "failed",
           "ambiguous", "expired", "archived"}
Undelivered(r) == r.state \in {"pending", "inflight"}

Row == [state : States, kind : AllKinds \cup {"none"}, due : BOOLEAN,
        lease : {"none", "held", "lapsed"}, marked : BOOLEAN, attempts : Nat,
        payload : {"full", "stub", "cleared"}, overdue : BOOLEAN, last : Nat]

NoRow == [state |-> "absent", kind |-> "none", due |-> FALSE, lease |-> "none",
          marked |-> FALSE, attempts |-> 0, payload |-> "cleared",
          overdue |-> FALSE, last |-> 0]

-----------------------------------------------------------------------------
(* Insertions. *)

\* enqueue: born PENDING and due.
Enqueued(k, last) ==
    [NoRow EXCEPT !.state = "pending", !.kind = k, !.due = TRUE,
                  !.payload = "full", !.last = last]

\* claim_for_attempt without an existing row: born leased.
BornLeased(k, body, last) ==
    [NoRow EXCEPT !.state = "inflight", !.kind = k, !.due = TRUE,
                  !.lease = "held", !.payload = body, !.last = last]

(* Claims. *)

\* claim_for_attempt on an existing row: PENDING, or INFLIGHT past its lease.
\* send_started_at is not consulted.
BadTakeableLive(r) == r.state \in {"pending", "inflight"}
Takeable(r) == \/ r.state = "pending"
               \/ r.state = "inflight" /\ r.lease # "held"

Leased(r) == [r EXCEPT !.state = "inflight", !.lease = "held"]

(* Outcomes.  All of them are unguarded. *)

BadMarkSending(r) == r
MarkSending(r) == [r EXCEPT !.marked = TRUE]

MarkDone(r) == [r EXCEPT !.state = "done", !.lease = "none", !.marked = FALSE,
                         !.payload = "cleared"]

MarkAmbiguous(r) == [r EXCEPT !.state = "ambiguous", !.lease = "none",
                              !.attempts = @ + 1]

MarkFailed(r) == [r EXCEPT !.state = "failed", !.lease = "none",
                           !.attempts = @ + 1]

BadMarkRetry(r, cost, due) ==
    [r EXCEPT !.state = "pending", !.lease = "none", !.marked = FALSE,
              !.attempts = @ - cost, !.due = due]
MarkRetry(r, cost, due) ==
    [r EXCEPT !.state = "pending", !.lease = "none", !.marked = FALSE,
              !.attempts = @ + cost, !.due = due]

Defer(r) == [r EXCEPT !.state = "pending", !.lease = "none", !.marked = FALSE,
                      !.due = FALSE]

MarkExpired(r) == [r EXCEPT !.state = "expired", !.lease = "none",
                            !.payload = "cleared"]

\* The requeue half of reclaim_expired_leases and requeue_inflight.
BadRequeue(r) == [r EXCEPT !.lease = "none"]
Requeue(r) == [r EXCEPT !.state = "pending", !.lease = "none"]

\* One row of either recovery: the mark as it was read decides.
BadRecoverResend(r, wasMarked) == Requeue(r)
BadRecoverDone(r, wasMarked) == IF wasMarked THEN MarkDone(r) ELSE Requeue(r)
Recover(r, wasMarked) == IF wasMarked THEN MarkAmbiguous(r) ELSE Requeue(r)

(* The owner. *)

\* retry_now: next_attempt_at and the lease move; attempts and the mark stay.
RetryNow(r) == [r EXCEPT !.state = "pending", !.lease = "none", !.due = TRUE]

CanRetry(r) == r.state \in {"failed", "ambiguous"} /\ r.payload # "cleared"

Resolve(r) == [r EXCEPT !.state = "done", !.payload = "cleared"]

CanResolve(r) == r.state = "ambiguous"

Archive(r) == [r EXCEPT !.state = "archived"]

CanArchive(r) == r.state \in {"failed", "ambiguous", "expired"}

\* cancel_pending: the one outcome whose guard is in the statement itself.
Withdrawable(r) == r.state = "pending" /\ ~r.marked

(* The clock passing one of the row's columns. *)

ComesDue(r)   == [r EXCEPT !.due = TRUE]
LosesLease(r) == [r EXCEPT !.lease = "lapsed"]
Ages(r)       == [r EXCEPT !.overdue = TRUE]
=============================================================================
