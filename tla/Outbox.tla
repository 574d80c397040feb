------------------------------- MODULE Outbox -------------------------------
(***************************************************************************)
(* The durable delivery queue of one bridge and everybody who writes to it.*)
(*                                                                         *)
(*  - inline senders: the coroutine of a live event, which submits a job   *)
(*    and makes its first attempt itself (routing/delivery.py);            *)
(*  - the worker of the bridge, which drains the queue (retry/worker.py);  *)
(*  - the sweeper, which takes back lapsed leases and retires old jobs, and*)
(*    the start-up recovery (storage/repositories.py, service/runtime.py); *)
(*  - the owner, who retries, resolves, archives or withdraws a job.       *)
(*                                                                         *)
(* They share nothing but the rows.  A step of this module is what one of  *)
(* them does between two awaits: one statement or one transaction of the   *)
(* database, or one remote request.  Job ids are row ids, so the order of  *)
(* the ids is the order of arrival.                                        *)
(***************************************************************************)
EXTENDS OutboxRow

CONSTANTS
    Handlers,              \* live events being handled at the same time
    Worker,                \* the bridge's OutboxWorker
    Kinds,                 \* the job kinds that may be submitted
    MaxJobs,               \* bound: rows of the table
    MaxParts,              \* bound: parts of one long text
    MaxAttempts,           \* BackoffPolicy.max_attempts
    MaxFaults,             \* bound: environment faults, see Fault
    MaxTaps,               \* bound: decisions the owner takes
    TimeToLive,            \* whether a job can outlive its TTL
    LeaseOutlivesAttempt,  \* a lease never runs out under a running attempt
    CoroutinesDie,         \* a sender may end mid-step in a living process
    OwnerWaits             \* commands about one job do not overlap

Senders == Handlers \cup {Worker}
JobId   == 1..MaxJobs

ASSUME OutboxAssumption ==
    /\ Worker \notin Handlers
    /\ Kinds \subseteq AllKinds
    /\ MaxJobs \in Nat /\ MaxParts \in Nat \ {0} /\ MaxAttempts \in Nat \ {0}
    /\ MaxFaults \in Nat /\ MaxTaps \in Nat
    /\ {TimeToLive, LeaseOutlivesAttempt, CoroutinesDie, OwnerWaits} \subseteq BOOLEAN

VARIABLES
    rows,       \* the outbox table
    sender,     \* what each sender is in the middle of
    sweep,      \* what the sweeper has read and not yet acted on
    decisions,  \* owner commands that have read their row and not yet written
    up,         \* whether the process is running its tasks
    copies,     \* history: messages the remote side created for the job
    chosen,     \* history: owner retries of the job while it was AMBIGUOUS
    reopened,   \* history: jobs the owner retried
    taps,       \* history: decisions taken so far
    faults      \* history: faults so far

history == <<copies, chosen, reopened, taps, faults>>
vars == <<rows, sender, sweep, decisions, up, history>>

-----------------------------------------------------------------------------
(* State *)

\* Where a sender is.  A handler goes submit -> ordering -> claiming ->
\* preparing, or straight to preparing; the worker goes claim_due -> checking ->
\* preparing.  "requesting" is after send_started_at was written.
Places == {"idle", "ordering", "claiming", "checking", "preparing",
           "requesting", "settling", "archiving"}

\* How an attempt ended, before it is written down.
Verdicts == {"none", "done", "retry", "limited", "defer", "permanent",
             "unconfirmed", "cancelled", "noop"}

Idle == [pc |-> "idle", job |-> 0, body |-> "full", tries |-> 0, verdict |-> "none"]

Sender == [pc : Places, job : 0..MaxJobs, body : {"full", "stub", "cleared"},
           tries : Nat, verdict : Verdicts]

\* The sender is carrying the job out: it holds, or believes it holds, the lease.
Attempting(s) == sender[s].pc \in {"checking", "preparing", "requesting", "settling"}

Asleep == [pc |-> "idle", todo |-> {}]
Found == [job : JobId, marked : BOOLEAN]
Decision == [op : {"retry", "resolve", "archive"}, job : JobId,
             seen : {"failed", "ambiguous", "expired"}]

\* How a step writes one row, and where it leaves one sender.
Write(j, r) == rows' = [rows EXCEPT ![j] = r]
Goes(s, to) == sender' = [sender EXCEPT ![s] = to]

Begin(pc, j)    == [Idle EXCEPT !.pc = pc, !.job = j]
At(me, pc)      == [me EXCEPT !.pc = pc]
Ended(me, v)    == [me EXCEPT !.pc = "settling", !.verdict = v]

Fault == faults < MaxFaults /\ faults' = faults + 1

KindOf(j) == rows[j].kind

\* older_undelivered and older_undelivered_kind.
BadOlderUndelivered(j) ==
    \E i \in 1..(j-1) : /\ rows[i].state = "pending"
                        /\ Direction(KindOf(i)) = Direction(KindOf(j))
OlderUndelivered(j) ==
    \E i \in 1..(j-1) : /\ Undelivered(rows[i])
                        /\ Direction(KindOf(i)) = Direction(KindOf(j))
BadOlderUndeliveredKind(j) ==
    \E i \in 1..(j-1) : rows[i].state = "pending" /\ KindOf(i) = KindOf(j)
OlderUndeliveredKind(j) ==
    \E i \in 1..(j-1) : Undelivered(rows[i]) /\ KindOf(i) = KindOf(j)

Barred(j) == \/ Barrier(KindOf(j)) = "direction" /\ OlderUndelivered(j)
             \/ Barrier(KindOf(j)) = "kind" /\ OlderUndeliveredKind(j)

\* The next row id: everything before it is taken, nothing after it is.
NextId(j) == \A i \in JobId : rows[i].state = "absent" <=> i >= j

Init ==
    /\ rows = [j \in JobId |-> NoRow]
    /\ sender = [s \in Senders |-> Idle]
    /\ sweep = Asleep
    /\ decisions = {}
    /\ up = TRUE
    /\ copies = [j \in JobId |-> 0]
    /\ chosen = [j \in JobId |-> 0]
    /\ reopened = {}
    /\ taps = 0
    /\ faults = 0

-----------------------------------------------------------------------------
(* Inline senders *)

\* DeliveryPipe.submit on a new event: the row is born leased to this handler.
SubmitAlone(s, k) ==
    /\ up /\ sender[s].pc = "idle" /\ Barrier(k) = "none"
    /\ \E j \in JobId :
         /\ NextId(j)
         /\ Write(j, BornLeased(k, "full", j))
         /\ Goes(s, Begin("preparing", j))
    /\ UNCHANGED <<sweep, decisions, up, history>>

\* submit_in_order, submit_in_kind_order: the row is written PENDING first.  A
\* long text writes all its parts in one transaction (enqueue_batch).
SubmitInOrder(s, k, parts) ==
    /\ up /\ sender[s].pc = "idle" /\ Barrier(k) # "none"
    /\ parts = 1 \/ k = "tg_text"
    /\ \E j \in JobId :
         /\ NextId(j) /\ j + parts - 1 \in JobId
         /\ rows' = [i \in JobId |-> IF i \in j..(j + parts - 1)
                                     THEN Enqueued(k, j + parts - 1) ELSE rows[i]]
         /\ Goes(s, Begin("ordering", j))
    /\ UNCHANGED <<sweep, decisions, up, history>>

\* submit_unstorable ("permanent") and submit_noop ("noop"): a MAX message with
\* nothing that can be sent still gets a job, which is failed at once.
SubmitRefusal(s, verdict) ==
    /\ up /\ sender[s].pc = "idle" /\ "max_send" \in Kinds
    /\ \E j \in JobId :
         /\ NextId(j)
         /\ Write(j, BornLeased("max_send", "stub", j))
         /\ Goes(s, Ended(Begin("settling", j), verdict))
    /\ UNCHANGED <<sweep, decisions, up, history>>

FirstPart(j) == \A i \in 1..(j-1) : rows[i].last < j

\* A Telegram update handled again: the same source_keys find the same jobs, from
\* the first part on.  MAX events do not get this far twice, claim_from_max
\* refuses them.
Replay(s, j) ==
    /\ up /\ sender[s].pc = "idle" /\ KindOf(j) \in TgKinds /\ FirstPart(j) /\ Fault
    /\ Goes(s, Begin(IF Barrier(KindOf(j)) = "none" THEN "claiming" ELSE "ordering", j))
    /\ UNCHANGED <<rows, sweep, decisions, up, copies, chosen, reopened, taps>>

\* The check between enqueue and claim: something older leaves it to the worker.
CheckOrder(s) ==
    /\ sender[s].pc = "ordering"
    /\ Goes(s, IF Barred(sender[s].job) THEN Idle ELSE At(sender[s], "claiming"))
    /\ UNCHANGED <<rows, sweep, decisions, up, history>>

\* claim_for_attempt on the row that now exists: ours, or somebody else's.
ClaimForAttempt(s) ==
    LET j == sender[s].job IN
    /\ sender[s].pc = "claiming"
    /\ \/ /\ Takeable(rows[j])
          /\ Write(j, Leased(rows[j]))
          /\ Goes(s, At(sender[s], "preparing"))
       \/ /\ ~Takeable(rows[j])
          /\ Goes(s, Idle)
          /\ UNCHANGED rows
    /\ UNCHANGED <<sweep, decisions, up, history>>

-----------------------------------------------------------------------------
(* The worker *)

\* OutboxJob as claim_due returns it: the row as it was before the claim.
Claimed(j) == [Begin("checking", j) EXCEPT !.body = rows[j].payload,
                                           !.tries = rows[j].attempts]

\* claim_due: the oldest PENDING row of the bridge, in either direction, and
\* only when it is due.
ClaimDue ==
    /\ up /\ sender[Worker].pc = "idle"
    /\ \E j \in JobId :
         /\ rows[j].state = "pending" /\ rows[j].due
         /\ \A i \in 1..(j-1) : rows[i].state # "pending"
         /\ Write(j, Leased(rows[j]))
         /\ Goes(Worker, Claimed(j))
    /\ UNCHANGED <<sweep, decisions, up, history>>

\* _attempt's first question: is something older still on its way?
CheckTurn ==
    /\ sender[Worker].pc = "checking"
    /\ Goes(Worker, IF OlderUndelivered(sender[Worker].job)
                    THEN Ended(sender[Worker], "defer")
                    ELSE At(sender[Worker], "preparing"))
    /\ UNCHANGED <<rows, sweep, decisions, up, history>>

-----------------------------------------------------------------------------
(* One attempt, the same for both (send_job, settle) *)

Conclude(s, verdict) == Goes(s, Ended(sender[s], verdict))

\* Everything that can end an attempt before a creating request was announced.
\* A job whose body is gone can only fail.
EndUnannounced(s) ==
    /\ sender[s].pc = "preparing"
    /\ LET k == KindOf(sender[s].job) IN
       \/ /\ \E v \in {"retry", "permanent", "unconfirmed"} : Conclude(s, v)
          /\ UNCHANGED faults
       \/ ~Creating(k) /\ sender[s].body = "full" /\ Conclude(s, "done") /\ UNCHANGED faults
       \/ ~Creating(k) /\ Fault /\ \E v \in {"defer", "limited"} : Conclude(s, v)
       \/ Fault /\ Conclude(s, "cancelled")
    /\ UNCHANGED <<rows, sweep, decisions, up, copies, chosen, reopened, taps>>

\* sending(): the mark is on disk before the request goes out.
Announce(s) ==
    /\ sender[s].pc = "preparing" /\ Creating(KindOf(sender[s].job))
    /\ Write(sender[s].job, MarkSending(rows[sender[s].job]))
    /\ Goes(s, At(sender[s], "requesting"))
    /\ UNCHANGED <<sweep, decisions, up, history>>

\* The remote side created the message; the answer came back, or it did not.
RequestLands(s) ==
    /\ sender[s].pc = "requesting" /\ sender[s].body = "full"
    /\ copies' = [copies EXCEPT ![sender[s].job] = @ + 1]
    /\ \E v \in {"done", "unconfirmed"} : Conclude(s, v)
    /\ UNCHANGED <<rows, sweep, decisions, up, chosen, reopened, taps, faults>>

\* Nothing was created: an answer says so, or nothing says anything.
RequestFails(s) ==
    /\ sender[s].pc = "requesting"
    /\ \/ (\E v \in {"retry", "permanent", "unconfirmed"} : Conclude(s, v)) /\ UNCHANGED faults
       \/ Fault /\ Conclude(s, "limited")
    /\ UNCHANGED <<rows, sweep, decisions, up, copies, chosen, reopened, taps>>

\* OutboxWorker._handle_failure: the budget is judged on the attempts the job
\* had when it was claimed.
HandleFailure(r, tries) ==
    IF tries + 1 >= MaxAttempts THEN MarkFailed(r) ELSE MarkRetry(r, 1, FALSE)

\* What the sender writes for each verdict.
Settled(s, r) ==
    LET v == sender[s].verdict IN
    CASE v = "done"                  -> MarkDone(r)
      [] v = "unconfirmed"           -> MarkAmbiguous(r)
      [] v = "defer"                 -> Defer(r)
      [] v \in {"permanent", "noop"} -> MarkFailed(r)
      [] v = "limited"               -> MarkRetry(r, 0, FALSE)
      [] v = "cancelled"             -> MarkRetry(r, 1, TRUE)
      [] OTHER -> IF s = Worker THEN HandleFailure(r, sender[s].tries)
                                ELSE MarkRetry(r, 1, TRUE)

\* What a sender does after writing: the next part of its text, the archive half
\* of submit_noop, or nothing.
Afterwards(s) ==
    LET me == sender[s] IN
    CASE me.verdict = "done" /\ s # Worker /\ me.job < rows[me.job].last ->
           Begin("ordering", me.job + 1)
      [] me.verdict = "noop" -> Begin("archiving", me.job)
      [] OTHER -> Idle

Settle(s) ==
    /\ sender[s].pc = "settling"
    /\ Write(sender[s].job, Settled(s, rows[sender[s].job]))
    /\ Goes(s, Afterwards(s))
    /\ UNCHANGED <<sweep, decisions, up, history>>

\* The last statement of submit_noop; archive looks at the state itself.
ArchiveNoop(s) ==
    LET j == sender[s].job IN
    /\ sender[s].pc = "archiving"
    /\ Write(j, IF CanArchive(rows[j]) THEN Archive(rows[j]) ELSE rows[j])
    /\ Goes(s, Idle)
    /\ UNCHANGED <<sweep, decisions, up, history>>

-----------------------------------------------------------------------------
(* The sweeper and the start-up recovery: read, then one write per row *)

InflightRows(lapsedOnly) ==
    { [job |-> j, marked |-> rows[j].marked] :
        j \in {i \in JobId : /\ rows[i].state = "inflight"
                             /\ lapsedOnly => rows[i].lease = "lapsed"} }

SweepReads ==
    /\ up /\ sweep.pc = "idle"
    /\ sweep' = [pc |-> "reclaim", todo |-> InflightRows(TRUE)]
    /\ UNCHANGED <<rows, sender, decisions, up, history>>

RecoverOne(found) ==
    /\ sweep.pc \in {"reclaim", "recover"} /\ found \in sweep.todo
    /\ Write(found.job, Recover(rows[found.job], found.marked))
    /\ sweep' = [sweep EXCEPT !.todo = @ \ {found}]
    /\ UNCHANGED <<sender, decisions, up, history>>

\* expire_overdue reads after the leases were dealt with.
ExpiryReads ==
    /\ sweep.pc = "reclaim" /\ sweep.todo = {}
    /\ sweep' = [pc |-> "expire",
                 todo |-> { [job |-> j, marked |-> FALSE] :
                     j \in {i \in JobId : rows[i].state = "pending" /\ rows[i].overdue} }]
    /\ UNCHANGED <<rows, sender, decisions, up, history>>

ExpireOne(found) ==
    /\ sweep.pc = "expire" /\ found \in sweep.todo
    /\ Write(found.job, MarkExpired(rows[found.job]))
    /\ sweep' = [sweep EXCEPT !.todo = @ \ {found}]
    /\ UNCHANGED <<sender, decisions, up, history>>

SweepEnds ==
    /\ sweep.pc = "expire" /\ sweep.todo = {}
    /\ sweep' = Asleep
    /\ UNCHANGED <<rows, sender, decisions, up, history>>

\* requeue_inflight, the first thing a new process does to the queue.
Restart ==
    /\ ~up /\ sweep.pc = "idle"
    /\ sweep' = [pc |-> "recover", todo |-> InflightRows(FALSE)]
    /\ UNCHANGED <<rows, sender, decisions, up, history>>

Started ==
    /\ sweep.pc = "recover" /\ sweep.todo = {}
    /\ sweep' = Asleep /\ up' = TRUE
    /\ UNCHANGED <<rows, sender, decisions, history>>

-----------------------------------------------------------------------------
(* The owner.  /retry, /resolved and /archive read the row and then write it. *)

MayDecide(op, r) == CASE op = "retry"   -> CanRetry(r)
                      [] op = "resolve" -> CanResolve(r)
                      [] OTHER          -> CanArchive(r)

Decide(op, j) ==
    /\ up /\ taps < MaxTaps /\ MayDecide(op, rows[j])
    /\ OwnerWaits => /\ \A d \in decisions : d.job # j
                     /\ \A s \in Handlers : sender[s].pc = "archiving" => sender[s].job # j
    /\ decisions' = decisions \cup {[op |-> op, job |-> j, seen |-> rows[j].state]}
    /\ taps' = taps + 1
    /\ UNCHANGED <<rows, sender, sweep, up, copies, chosen, reopened, faults>>

ApplyRetry(d) ==
    /\ d \in decisions /\ d.op = "retry"
    /\ Write(d.job, RetryNow(rows[d.job]))
    /\ chosen' = [chosen EXCEPT ![d.job] = @ + (IF d.seen = "ambiguous" THEN 1 ELSE 0)]
    /\ reopened' = reopened \cup {d.job}
    /\ decisions' = decisions \ {d}
    /\ UNCHANGED <<sender, sweep, up, copies, taps, faults>>

ApplyResolve(d) ==
    /\ d \in decisions /\ d.op = "resolve"
    /\ Write(d.job, Resolve(rows[d.job]))
    /\ decisions' = decisions \ {d}
    /\ UNCHANGED <<sender, sweep, up, history>>

ApplyArchive(d) ==
    /\ d \in decisions /\ d.op = "archive"
    /\ Write(d.job, Archive(rows[d.job]))
    /\ decisions' = decisions \ {d}
    /\ UNCHANGED <<sender, sweep, up, history>>

\* cancel_pending: an owner's delete of a message that has not left yet.
Withdraw(j) ==
    /\ up /\ taps < MaxTaps /\ taps' = taps + 1
    /\ KindOf(j) \in {"tg_text", "tg_media"} /\ Withdrawable(rows[j])
    /\ Write(j, Archive(rows[j]))
    /\ UNCHANGED <<sender, sweep, decisions, up, copies, chosen, reopened, faults>>

-----------------------------------------------------------------------------
(* Time and failure *)

BecomesDue(j) ==
    /\ rows[j].state = "pending" /\ ~rows[j].due
    /\ Write(j, ComesDue(rows[j]))
    /\ UNCHANGED <<sender, sweep, decisions, up, history>>

\* Nothing renews a lease.  Only the two places that wait for a network, a
\* download or a request, can last as long as one.
LeaseLapses(j) ==
    /\ rows[j].state = "inflight" /\ rows[j].lease = "held"
    /\ \A s \in Senders : sender[s].job = j =>
         ~LeaseOutlivesAttempt /\ sender[s].pc \in {"preparing", "requesting"}
    /\ Write(j, LosesLease(rows[j]))
    /\ UNCHANGED <<sender, sweep, decisions, up, history>>

GrowsOld(j) ==
    /\ TimeToLive /\ Undelivered(rows[j]) /\ ~rows[j].overdue
    /\ Write(j, Ages(rows[j]))
    /\ UNCHANGED <<sender, sweep, decisions, up, history>>

\* A coroutine ends without writing: cancelled inside a statement, or the
\* statement itself failed.  The worker's loop survives it.
Dies(s) ==
    /\ CoroutinesDie /\ sender[s].pc # "idle" /\ Fault
    /\ Goes(s, Idle)
    /\ UNCHANGED <<rows, sweep, decisions, up, copies, chosen, reopened, taps>>

\* The process is killed, possibly in the middle of its own recovery.
Crash ==
    /\ up \/ sweep.pc = "recover"
    /\ Fault
    /\ up' = FALSE
    /\ sender' = [s \in Senders |-> Idle]
    /\ sweep' = Asleep
    /\ decisions' = {}
    /\ UNCHANGED <<rows, copies, chosen, reopened, taps>>

-----------------------------------------------------------------------------
Submit(s) == \E k \in Kinds : \/ SubmitAlone(s, k)
                              \/ \E n \in 1..MaxParts : SubmitInOrder(s, k, n)

Attempt(s) == \/ EndUnannounced(s) \/ Announce(s)
              \/ RequestLands(s) \/ RequestFails(s) \/ Settle(s)

HandlerSteps(s) == CheckOrder(s) \/ ClaimForAttempt(s) \/ Attempt(s) \/ ArchiveNoop(s)

WorkerSteps == ClaimDue \/ CheckTurn \/ Attempt(Worker)

Sweeper == \/ SweepReads \/ ExpiryReads \/ SweepEnds
           \/ \E found \in sweep.todo : RecoverOne(found) \/ ExpireOne(found)

Owner == \/ \E j \in JobId, op \in {"retry", "resolve", "archive"} : Decide(op, j)
         \/ \E d \in decisions : ApplyRetry(d) \/ ApplyResolve(d) \/ ApplyArchive(d)
         \/ \E j \in JobId : Withdraw(j)

Time == \E j \in JobId : BecomesDue(j) \/ LeaseLapses(j) \/ GrowsOld(j)

Next == \/ \E s \in Handlers : \/ Submit(s)
                               \/ \E v \in {"permanent", "noop"} : SubmitRefusal(s, v)
                               \/ \E j \in JobId : Replay(s, j)
                               \/ HandlerSteps(s)
        \/ WorkerSteps
        \/ Sweeper
        \/ Restart \/ Started
        \/ Owner
        \/ Time
        \/ \E s \in Senders : Dies(s)
        \/ Crash

Spec == Init /\ [][Next]_vars

\* The event loop runs every ready coroutine, timers fire, requests end in an
\* answer or a timeout, and the supervisor starts the process again.
Fairness ==
    /\ \A s \in Handlers : WF_vars(HandlerSteps(s))
    /\ WF_vars(WorkerSteps)
    /\ WF_vars(Sweeper)
    /\ WF_vars(Restart \/ Started)
    /\ \A j \in JobId : WF_vars(BecomesDue(j)) /\ WF_vars(LeaseLapses(j))

FairSpec == Spec /\ Fairness

-----------------------------------------------------------------------------
(* Properties *)

\* Every variable keeps its type.
TypeOK ==
    /\ rows \in [JobId -> Row] /\ \A j \in JobId : rows[j].last \in 0..MaxJobs
    /\ sender \in [Senders -> Sender]
    /\ \A s \in Senders : sender[s].pc # "idle" => sender[s].job \in JobId
    /\ sweep \in [pc : {"idle", "reclaim", "expire", "recover"}, todo : SUBSET Found]
    /\ decisions \subseteq Decision
    /\ up \in BOOLEAN
    /\ copies \in [JobId -> Nat] /\ chosen \in [JobId -> Nat]
    /\ reopened \subseteq JobId
    /\ taps \in Nat /\ faults \in Nat

\* The remote side never gets a second copy of a message unless the owner asked
\* for one: only a retry of an AMBIGUOUS job may repeat what already landed
\* (ADR 0002, claim_for_attempt, reclaim_expired_leases).
NoUnchosenDuplicate == \A j \in JobId : copies[j] <= 1 + chosen[j]

\* Two senders never carry the same job out at the same time (the lease).
OneAttempt ==
    \A s, t \in Senders : s # t /\ Attempting(s) /\ Attempting(t)
                          => sender[s].job # sender[t].job

\* A message the remote side has is never put back to wait nor shown as refused:
\* what landed without an answer is a question to the owner, not a retry.
LandedIsNeverUnsent ==
    \A j \in JobId : rows[j].state \in {"pending", "failed"} => copies[j] <= chosen[j]

\* Nobody sends a job that is ordered by direction while something older in its
\* direction is still to be delivered, however the inline senders and the worker
\* interleave (older_undelivered).  A job the owner put back has lost its place.
InTurn ==
    \A s \in Senders : \A i \in 1..(sender[s].job - 1) :
        /\ sender[s].pc \in {"preparing", "requesting"}
        /\ s = Worker \/ Barrier(KindOf(sender[s].job)) = "direction"
        /\ Direction(KindOf(i)) = Direction(KindOf(sender[s].job))
        /\ Undelivered(rows[i])
        => i \in reopened

\* The parts of long texts, and texts among themselves, keep their order on the
\* inline path too (older_undelivered_kind, enqueue_batch).
TextInTurn ==
    \A s \in Handlers : \A i \in 1..(sender[s].job - 1) :
        /\ sender[s].pc \in {"preparing", "requesting"}
        /\ KindOf(sender[s].job) = "tg_text" /\ KindOf(i) = "tg_text"
        /\ Undelivered(rows[i])
        => i \in reopened

\* Every accepted job is eventually delivered, or stands before the owner with
\* an explicit verdict: no message waits for ever.
EveryJobSettles == \A j \in JobId : Undelivered(rows[j]) ~> ~Undelivered(rows[j])

-----------------------------------------------------------------------------
(* The promise.  PENDING and INFLIGHT are one standing, "waiting": leases,    *)
(* attempts, backoff and recovery are how it is kept.                         *)

StandingOf(state) == CASE state = "absent"                  -> "unknown"
                       [] state \in {"pending", "inflight"} -> "waiting"
                       [] state = "done"                    -> "delivered"
                       [] OTHER                             -> state

Promise == INSTANCE DeliveryPromise WITH
    Message  <- JobId,
    standing <- [j \in JobId |-> StandingOf(rows[j].state)],
    making   <- {j \in JobId : rows[j].state # "absent" /\ Creating(KindOf(j))},
    allowed  <- [j \in JobId |-> 1 + chosen[j]]

\* The queue implements the promise.
KeepsPromise == Promise!Spec
=============================================================================
